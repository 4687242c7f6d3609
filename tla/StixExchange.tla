------------------------------ MODULE StixExchange ------------------------------
(***************************************************************************)
(* A case exchanged as a STIX bundle: what an import makes of the objects  *)
(* of a bundle, how an object an earlier import linked is found again,     *)
(* what an analyst does to the records meanwhile, and what an export says. *)
(*                                                                         *)
(* Each import is one transaction that holds the lock of the case.         *)
(***************************************************************************)
EXTENDS Naturals, FiniteSets, FiniteSetsExt, Sequences, SequencesExt

CONSTANTS
  Cases,          \* {the case, another case}; records of a case are identified within it
  Bundles,        \* the files an analyst may import
  Entries,        \* the entities an analyst may enter
  ImportObjects,  \* MAX_OBJECTS of the import
  ExportObjects,  \* MAX_OBJECTS of the export
  MaxImports, MaxEdits

VARIABLES
  case,     \* the records of the case
  answer,   \* what the last import was answered
  imports, edits   \* bounds of the model
vars == <<case, answer, imports, edits>>

None == "none"
NoSid == <<>>
Home == CHOOSE c \in Cases : TRUE

\* Entities and relationships in the order of their creation; a link names a record, alive or not.
EmptyCase(id) == [id |-> id, entities |-> <<>>, relationships |-> <<>>, links |-> <<>>,
                  observations |-> {}, hashes |-> {}, next |-> 1]

Ids(records) == {records[i].id : i \in DOMAIN records}
Record(records, id) == records[CHOOSE i \in DOMAIN records : records[i].id = id]

-----------------------------------------------------------------------------
(* Reading a bundle *)

\* Not JSON, too deep, a repeated key, not a bundle, without a valid identifier, or too long.
Refused(b) == b.broken \/ Len(b.objects) > ImportObjects

\* An object is used when nothing is wrong with it and no earlier one has its identifier.
Usable(b, i) == /\ b.objects[i].flaw = None
                /\ \A j \in 1 .. i - 1 : b.objects[j].flaw = None => b.objects[j].sid # b.objects[i].sid
Candidates(b) == SelectSeq([i \in DOMAIN b.objects |-> [object |-> b.objects[i], used |-> Usable(b, i)]],
                           LAMBDA c : c.used)

\* Of the objects skipped by then, these make "reject" refuse the whole bundle.
Blocking == {"unsupported_type", "unsupported_spec_version"}
RefusedAsUnsupported(b, policy) ==
  policy = "reject" /\ \E i \in DOMAIN b.objects : b.objects[i].flaw \in Blocking

\* Why an object does not become an entity, or None.
Draft(o) ==
  CASE o.kind = "account" -> IF o.uid = None /\ o.login = None THEN "account_without_stable_identifier" ELSE None
    [] o.kind = "observable" -> IF o.value = None THEN "missing_value" ELSE None
    [] o.kind = "organization" -> IF o.value = None THEN "missing_name" ELSE None
    [] OTHER -> "identity_class_not_imported"

\* A platform ID identifies; an ID without its platform is kept as another identifier.
PlatformId(o) == IF o.kind = "account" /\ o.uid # None /\ o.plat # None THEN <<o.plat, o.uid>> ELSE <<>>

ExistingAccount(entities, o) ==
  {entities[i].id : i \in {j \in DOMAIN entities :
     PlatformId(o) # <<>> /\ PlatformId(entities[j]) = PlatformId(o)}}

-----------------------------------------------------------------------------
(* Importing: s is the case so far, what each object became, and the record of each identifier *)

Linked(c, sid) == {c.links[i].record : i \in {j \in DOMAIN c.links : c.links[j].sid = sid}}

\* One observation for each object of a bundle: a second one conflicts with the first and is dropped.
Observed(c, b, sid, entity) ==
  IF \E o \in c.observations : o.source = b.name /\ o.sid = sid THEN c
  ELSE [c EXCEPT !.observations = @ \cup {[source |-> b.name, sid |-> sid, entity |-> entity]}]

Became(s, sid, outcome) == [s EXCEPT !.outcomes = Append(@, <<sid, outcome>>)]
Found(s, b, o, outcome, id) ==
  Became([s EXCEPT !.case = Observed(@, b, o.sid, id), !.of = @ \cup {<<o.sid, id>>}], o.sid, outcome)

\* (case_id, stix_id) is unique among the links, whether the record it names still exists or not.
Link(s, sid, id) ==
  IF Linked(s.case, sid) # {} THEN [s EXCEPT !.failed = TRUE]
  ELSE [s EXCEPT !.case.links = Append(@, [sid |-> sid, record |-> id])]

ImportEntity(b, s, o) ==
  LET alive == Linked(s.case, o.sid) \cap Ids(s.case.entities)
      same == ExistingAccount(s.case.entities, o)
      id == s.case.next
      created == [s EXCEPT !.case.entities = Append(@, [id |-> id, kind |-> o.kind, plat |-> o.plat, uid |-> o.uid,
                             login |-> o.login, value |-> o.value, origin |-> "imported"]),
                           !.case.next = id + 1]
  IN IF alive # {} THEN Found(s, b, o, "reused", Min(alive))
     ELSE IF Draft(o) # None THEN Became(s, o.sid, Draft(o))
     ELSE IF same # {} THEN Found(Link(s, o.sid, Min(same)), b, o, "reused_by_platform_id", Min(same))
     ELSE Found(Link(created, o.sid, id), b, o, "created", id)

EntityOf(s, sid) == {pair[2] : pair \in {p \in s.of : p[1] = sid}}

\* What was observed of the objects is provenance of those that were imported.
ImportObserved(b, s, o) ==
  LET entities == UNION {EntityOf(s, ref) : ref \in o.refs}
  IN IF o.refs = {} THEN Became(s, o.sid, "missing_object_refs")
     ELSE IF entities = {} THEN Became(s, o.sid, "references_not_imported")
     ELSE Became([s EXCEPT !.case = Observed(@, b, o.sid, CHOOSE e \in entities : TRUE)], o.sid, "created")

ImportRelationship(b, s, o) ==
  LET source == EntityOf(s, o.source)  target == EntityOf(s, o.target)
      alive == Linked(s.case, o.sid) \cap Ids(s.case.relationships)
      id == s.case.next
      created == [s EXCEPT !.case.relationships = Append(@, [id |-> id, source |-> Min(source), target |-> Min(target),
                             origin |-> "imported", review |-> "unreviewed"]),
                           !.case.next = id + 1]
  IN IF source = {} \/ target = {} THEN Became(s, o.sid, "relationship_reference_not_imported")
     ELSE IF source = target THEN Became(s, o.sid, "relationship_to_itself")
     ELSE IF alive # {} THEN Became([s EXCEPT !.case = Observed(@, b, o.sid, 0)], o.sid, "reused")
     ELSE LET linked == Link(created, o.sid, id)
          IN Became([linked EXCEPT !.case = Observed(@, b, o.sid, 0)], o.sid, "created")

\* Entities first, then what was observed, then the relationships between the entities.
CreateRecords(c, b) ==
  LET EntityStep(s, x) == IF x.object.kind \in {"relationship", "observed", "extension"} THEN s
                          ELSE ImportEntity(b, s, x.object)
      ObservedStep(s, x) == IF x.object.kind = "observed" THEN ImportObserved(b, s, x.object)
                            ELSE IF x.object.kind = "extension" THEN Became(s, x.object.sid, "recorded_only") ELSE s
      RelationshipStep(s, x) == IF x.object.kind = "relationship" THEN ImportRelationship(b, s, x.object) ELSE s
      start == [case |-> c, of |-> {}, outcomes |-> <<>>, failed |-> FALSE]
  IN FoldLeft(RelationshipStep, FoldLeft(ObservedStep, FoldLeft(EntityStep, start, Candidates(b)), Candidates(b)),
              Candidates(b))

Imported(c, b, policy) ==
  LET s == CreateRecords(c, b)
      Says(kind, outcomes) == [kind |-> kind, bundle |-> b.name, outcomes |-> outcomes]
  IN IF Refused(b) THEN [case |-> c, answer |-> Says("refused", <<>>)]
     ELSE IF RefusedAsUnsupported(b, policy) THEN [case |-> c, answer |-> Says("refused", <<>>)]
     ELSE IF b.name \in c.hashes THEN [case |-> c, answer |-> Says("already_imported", <<>>)]
     ELSE IF s.failed THEN [case |-> c, answer |-> Says("error", <<>>)]
     ELSE [case |-> [s.case EXCEPT !.hashes = @ \cup {b.name}], answer |-> Says("imported", s.outcomes)]

-----------------------------------------------------------------------------
(* Exporting *)

\* Mutant: the identifier an import kept is forgotten.
LinkedIdForgotten(c, id) == NoSid

\* The identifier the record came with; the last one, if two objects became this record.
LinkedId(c, id) ==
  LET of == {i \in DOMAIN c.links : c.links[i].record = id}
  IN IF of = {} THEN NoSid ELSE c.links[Max(of)].sid

\* Identifiers are derived from the value, from the account with its platform, or from the record.
Derived(c, e) ==
  CASE e.kind = "account" -> <<"account", e.plat, e.uid, e.login>>
    [] e.kind = "observable" -> <<"value", e.value>>
    [] OTHER -> <<"record", c.id, e.id>>
Sid(c, record, derived) == IF LinkedId(c, record.id) = NoSid THEN derived ELSE LinkedId(c, record.id)

\* A platform ID without its platform is no stable identifier; other types have no equivalent.
Exportable(e) ==
  \/ e.kind \in {"observable", "organization"}
  \/ e.kind = "account" /\ (PlatformId(e) # <<>> \/ e.login # None)

EntityObject(c, e) ==
  [sid |-> Sid(c, e, Derived(c, e)), kind |-> e.kind, flaw |-> None, plat |-> e.plat,
   uid |-> IF PlatformId(e) # <<>> THEN e.uid ELSE None, login |-> e.login, value |-> e.value,
   refs |-> {}, source |-> NoSid, target |-> NoSid]

\* Of the objects with one identifier, the first; the bundle starts with its producer and its extension.
EntityObjects(c) ==
  LET Step(x, e) ==
        IF Len(x.objects) + 2 >= ExportObjects THEN [x EXCEPT !.truncated = TRUE]
        ELSE IF ~ Exportable(e) THEN x
        ELSE LET o == EntityObject(c, e)
                 known == \E i \in DOMAIN x.objects : x.objects[i].sid = o.sid
             IN [x EXCEPT !.of = @ \cup {<<o.sid, e.id>>}, !.objects = IF known THEN @ ELSE Append(@, o)]
  IN FoldLeft(Step, [objects |-> <<>>, of |-> {}, truncated |-> FALSE], c.entities)

Selected(r, opt) ==
  /\ r.review \notin {"rejected", "superseded"}
  /\ r.origin = "ai_suggestion" => opt.ai /\ r.review = "accepted"
  /\ r.review = "unreviewed" => opt.unreviewed

ObjectOf(of, id) == {pair[1] : pair \in {p \in of : p[2] = id}}
Export(c, opt) ==
  LET entities == EntityObjects(c)
      Blank == [flaw |-> None, plat |-> None, uid |-> None, login |-> None, value |-> None,
                refs |-> {}, source |-> NoSid, target |-> NoSid]
      RelationshipStep(x, r) ==
        LET source == ObjectOf(x.of, r.source)  target == ObjectOf(x.of, r.target)
        IN IF Len(x.objects) + 2 >= ExportObjects THEN [x EXCEPT !.truncated = TRUE]
           ELSE IF ~ Selected(r, opt) \/ source = {} \/ target = {} THEN x
           ELSE [x EXCEPT !.objects = Append(@,
                  [Blank EXCEPT !.source = CHOOSE sid \in source : TRUE, !.target = CHOOSE sid \in target : TRUE]
                  @@ [sid |-> Sid(c, r, <<"record", c.id, r.id>>), kind |-> "relationship"])]
      \* What another tool claimed is not exported as an observation of this one.
      Own(e) == {o \in c.observations : o.entity = e.id /\ o.source = "collection"}
      ObservedStep(x, e) ==
        IF Own(e) = {} \/ ObjectOf(x.of, e.id) = {} \/ e.kind = "organization" THEN x
        ELSE IF Len(x.objects) + 2 >= ExportObjects THEN [x EXCEPT !.truncated = TRUE]
        ELSE [x EXCEPT !.objects = Append(@, [Blank EXCEPT !.refs = ObjectOf(x.of, e.id)]
                @@ [sid |-> <<"observed", c.id, e.id>>, kind |-> "observed"])]
  IN FoldLeft(ObservedStep, FoldLeft(RelationshipStep, entities, c.relationships), c.entities)

-----------------------------------------------------------------------------
Init == /\ case = EmptyCase(Home)
        /\ answer = [kind |-> None, bundle |-> None, outcomes |-> <<>>]
        /\ imports = 0 /\ edits = 0

ImportBundle(b, policy) ==
  LET result == Imported(case, b, policy)
  IN /\ imports < MaxImports
     /\ case' = result.case /\ answer' = result.answer
     /\ imports' = imports + 1 /\ UNCHANGED edits

Edit(c) == /\ edits < MaxEdits /\ edits' = edits + 1
           /\ case' = c
           /\ answer' = [answer EXCEPT !.kind = "edited"] /\ UNCHANGED imports

\* An analyst enters an entity, or a connector observes it; a platform ID identifies one account.
NewEntity(entry, origin) ==
  /\ ExistingAccount(case.entities, entry) = {}
  /\ Edit([case EXCEPT !.entities = Append(@, entry @@ [id |-> case.next, origin |-> origin]), !.next = @ + 1,
                       !.observations = IF origin = "observed"
                          THEN @ \cup {[source |-> "collection", sid |-> <<"collection", case.next>>, entity |-> case.next]}
                          ELSE @])

\* Only what an analyst entered can be deleted; its relationships go with it, its links do not.
DeleteEntity(id) ==
  /\ id \in Ids(case.entities) /\ Record(case.entities, id).origin = "analyst_assertion"
  /\ Edit([case EXCEPT !.entities = SelectSeq(@, LAMBDA e : e.id # id),
                       !.relationships = SelectSeq(@, LAMBDA r : id \notin {r.source, r.target}),
                       !.observations = {[o EXCEPT !.entity = IF @ = id THEN 0 ELSE @] : o \in @}])

NewRelationship(source, target, origin) ==
  /\ source # target /\ {source, target} \subseteq Ids(case.entities)
  /\ Edit([case EXCEPT !.relationships = Append(@, [id |-> case.next, source |-> source, target |-> target, origin |-> origin,
                          review |-> IF origin = "analyst_assertion" THEN "accepted" ELSE "unreviewed"]),
                       !.next = @ + 1])

ReviewRelationship(i, status) ==
  /\ i \in DOMAIN case.relationships /\ case.relationships[i].review # status
  /\ Edit([case EXCEPT !.relationships[i].review = status])

Next ==
  \/ \E b \in Bundles, policy \in {"skip", "reject"} : ImportBundle(b, policy)
  \/ \E entry \in Entries, origin \in {"analyst_assertion", "observed"} : NewEntity(entry, origin)
  \/ \E id \in Ids(case.entities) : DeleteEntity(id)
  \/ \E source, target \in Ids(case.entities), origin \in {"analyst_assertion", "ai_suggestion"} :
       NewRelationship(source, target, origin)
  \/ \E i \in DOMAIN case.relationships, status \in {"accepted", "rejected"} : ReviewRelationship(i, status)
Spec == Init /\ [][Next]_vars

-----------------------------------------------------------------------------
Options == [unreviewed : BOOLEAN, ai : BOOLEAN]

\* An import changes no record of the case and merges only accounts with one platform ID; what it adds
\* is imported and unreviewed, and every object it uses has one outcome (stix_import.py import_bundle).
ImportsAreHonest ==
  imports' # imports =>
    /\ \A e \in Range(case.entities) : e \in Range(case'.entities)
    /\ \A r \in Range(case.relationships) : r \in Range(case'.relationships)
    /\ \A e \in Range(case'.entities) \ Range(case.entities) : e.origin = "imported"
    /\ \A r \in Range(case'.relationships) \ Range(case.relationships) :
         r.origin = "imported" /\ r.review = "unreviewed" /\ {r.source, r.target} \subseteq Ids(case'.entities)
    /\ answer'.kind # "imported" => case' = case
    /\ \A b \in Bundles : b.name = answer'.bundle /\ answer'.kind = "imported" =>
         /\ Len(answer'.outcomes) = Len(Candidates(b))
         /\ \A i \in Len(case.links) + 1 .. Len(case'.links), k \in DOMAIN b.objects :
              LET l == case'.links[i]
                  shared == \/ l.record \in Ids(case.entities)
                            \/ \E j \in 1 .. i - 1 : case'.links[j].record = l.record
              IN shared /\ Usable(b, k) /\ b.objects[k].sid = l.sid =>
                   /\ PlatformId(b.objects[k]) # <<>>
                   /\ PlatformId(b.objects[k]) = PlatformId(Record(case'.entities, l.record))

\* What is exported refers only to what is exported, says nothing an analyst rejected or did not accept
\* of the AI, and gives two entities one identifier only if they are the same (stix_export.py build_bundle).
ExportIsSelective ==
  \A opt \in Options :
    LET x == Export(case, opt)
        sids == {x.objects[i].sid : i \in DOMAIN x.objects}
        Of(sid) == {e \in Range(case.entities) : <<sid, e.id>> \in x.of}
    IN /\ Len(x.objects) + 2 <= ExportObjects
       /\ \A i, j \in DOMAIN x.objects : i # j => x.objects[i].sid # x.objects[j].sid
       /\ \A i \in DOMAIN x.objects : x.objects[i].kind = "relationship" =>
            /\ {x.objects[i].source, x.objects[i].target} \subseteq sids
            /\ \E r \in Range(case.relationships) :
                 /\ x.objects[i].sid = Sid(case, r, <<"record", case.id, r.id>>)
                 /\ r.review \notin {"rejected", "superseded"}
                 /\ r.origin = "ai_suggestion" => r.review = "accepted"
       /\ \A sid \in sids : \A d, e \in Of(sid) : d.kind = e.kind /\ d.plat = e.plat

\* A case exported, imported into another case and exported again keeps its observables, organizations
\* and relationships with their identifiers (docs/interoperability/stix.md:102).
RoundTripKeeps ==
  LET everything == [unreviewed |-> TRUE, ai |-> TRUE]
      first == Export(case, everything)
      bundle == [name |-> "round trip", broken |-> FALSE, objects |-> first.objects]
      other == CHOOSE c \in Cases : c # Home
      second == Export(Imported(EmptyCase(other), bundle, "skip").case, everything)
      Kept(x) == {x.objects[i].sid : i \in {j \in DOMAIN x.objects :
                    /\ x.objects[j].kind # "observed"
                    /\ x.objects[j].kind = "relationship" => x.objects[j].source # x.objects[j].target}}
  IN Len(first.objects) <= ImportObjects /\ ~ first.truncated => Kept(first) = Kept(second)
=================================================================================
