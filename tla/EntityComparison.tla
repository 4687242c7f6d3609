---------------------------- MODULE EntityComparison ----------------------------
(***************************************************************************)
(* Entities compared side by side: what they share, how they are related,  *)
(* what sources report differently or stopped reporting. Nothing is merged *)
(* and no source is preferred.                                             *)
(***************************************************************************)
EXTENDS Naturals, FiniteSets, FiniteSetsExt, Sequences, SequencesExt

CONSTANTS
  MaxEntities,       \* MAX_ENTITIES
  MaxObservations,   \* of one entity, MAX_OBSERVATIONS_PER_ENTITY
  MaxRelations,      \* that touch the compared entities
  MaxChanges         \* MAX_CHANGES

First(n, s) == SubSeq(s, 1, IF Len(s) < n THEN Len(s) ELSE n)

Requested(entities) ==
  LET unique == FoldLeft(LAMBDA s, e : IF e \in Range(s) THEN s ELSE Append(s, e), <<>>, entities)
  IN [accepted |-> Len(unique) \in 2 .. MaxEntities, entities |-> unique]

-----------------------------------------------------------------------------
(* Identifiers: [kind, platform, value, owner] in the order of their creation; only those of the *)
(* compared entities are read                                                                    *)

Key(i) == <<i.kind, i.platform, i.value>>
Keys(ids) == {Key(ids[n]) : n \in DOMAIN ids}
Owners(ids, key) == {ids[n].owner : n \in {m \in DOMAIN ids : Key(ids[m]) = key}}

\* The platform ID of each entity on a platform; of several, the one that appeared in the case last.
StableIds(ids, platform) ==
  LET Mine(e) == {n \in DOMAIN ids : ids[n].kind = "platform_id" /\ ids[n].platform = platform /\ ids[n].owner = e}
      Appeared(n) == Min({m \in DOMAIN ids : Key(ids[m]) = Key(ids[n])})
      Newest(e) == CHOOSE n \in Mine(e) : \A m \in Mine(e) : Appeared(m) <= Appeared(n)
  IN [e \in {ids[n].owner : n \in DOMAIN ids} |-> IF Mine(e) = {} THEN {} ELSE {ids[Newest(e)].value}]

IdentifierRows(ids) ==
  LET Holders(p) == {e \in DOMAIN StableIds(ids, p) : StableIds(ids, p)[e] # {}}
      Conflict(p) == Cardinality({StableIds(ids, p)[e] : e \in Holders(p)}) > 1
      platforms == {ids[n].platform : n \in {m \in DOMAIN ids : ids[m].kind = "platform_id"}}
  IN {[row |-> IF Cardinality(Owners(ids, key)) > 1 THEN "shared" ELSE "only_one", of |-> key,
       entities |-> Owners(ids, key)] : key \in Keys(ids)}
     \cup {[row |-> "conflicting_platform_id", of |-> <<"platform_id", p>>, entities |-> Holders(p)] :
             p \in {x \in platforms : Conflict(x)}}

-----------------------------------------------------------------------------
(* Relationships [source, target, review] that touch a compared entity, in the order of their *)
(* creation; only the first of them are read                                                  *)

Ends(r) == {r.source, r.target}
Touching(rels, compared) ==
  LET all == {n \in DOMAIN rels : Ends(rels[n]) \cap compared # {}}
  IN {n \in all : Cardinality({m \in all : m <= n}) <= MaxRelations}
Direct(rels, compared) == {n \in Touching(rels, compared) : Ends(rels[n]) \subseteq compared}
\* Entities outside the comparison that are related to at least two inside it.
SharedNeighbours(rels, compared) ==
  LET outer == Touching(rels, compared) \ Direct(rels, compared)
      Inside(x) == UNION {Ends(rels[n]) \cap compared : n \in {m \in outer : x \in Ends(rels[m])}}
  IN {x \in UNION {Ends(rels[n]) : n \in outer} \ compared : Cardinality(Inside(x)) > 1}
Unreviewed(rels, compared) == {n \in Touching(rels, compared) : rels[n].review = "unreviewed"}

Settled(rels, compared, entities) ==
  \E n \in Direct(rels, compared) : rels[n].review = "accepted" /\ Ends(rels[n]) \subseteq entities

\* Shared identifiers that no accepted relationship between their owners explains.
Leads(ids, rels, compared) ==
  {row.of : row \in {x \in IdentifierRows(ids) : x.row = "shared" /\ ~ Settled(rels, compared, x.entities)}}

-----------------------------------------------------------------------------
(* Observations [entity, run, object, value], oldest first; run 0 is an import, value 0 is missing. *)
(* Only the oldest of an entity are read.                                                           *)
(* Runs [connector, scope, complete] in the order in which they finished.                           *)

Of(obs, entity) == First(MaxObservations, SelectSeq(obs, LAMBDA o : o.entity = entity))
Source(runs, o) == IF o.run = 0 THEN "authorized_import" ELSE runs[o.run].connector

\* Field differences between successive observations of one object, whichever source made them.
Changes(rows) ==
  LET Later(i) == {j \in i + 1 .. Len(rows) : rows[j].object = rows[i].object}
      pairs == {<<i, Min(Later(i))>> : i \in {k \in 1 .. Len(rows) : Later(k) # {}}}
      Appeared(p) == Min({i \in 1 .. Len(rows) : rows[i].object = rows[p[1]].object})
      Earlier(p, q) == Appeared(p) < Appeared(q) \/ (Appeared(p) = Appeared(q) /\ p[1] < q[1])
  IN SetToSortSeq({p \in pairs : rows[p[1]].value # rows[p[2]].value}, Earlier)

\* The changes of each compared entity in turn, as many as are listed.
ListedChanges(obs, entities) ==
  LET Of1(e) == LET changes == Changes(Of(obs, e)) IN [k \in DOMAIN changes |-> [entity |-> e, pair |-> changes[k]]]
      all == FoldLeft(LAMBDA s, e : s \o Of1(e), <<>>, entities)
  IN [changes |-> First(MaxChanges, all), truncated |-> Len(all) > MaxChanges]

Latest(rows, runs, source) ==
  LET said == {i \in DOMAIN rows : Source(runs, rows[i]) = source /\ rows[i].value # 0}
  IN IF said = {} THEN 0 ELSE rows[Max(said)].value

FieldConflict(rows, runs) ==
  LET sources == {Source(runs, rows[i]) : i \in DOMAIN rows}
      says == {<<s, Latest(rows, runs, s)>> : s \in {x \in sources : Latest(rows, runs, x) # 0}}
  IN IF Cardinality({p[2] : p \in says}) > 1 THEN says ELSE {}

\* How many observations of an entity each source made, and in which runs.
Coverage(rows, runs) ==
  [s \in {Source(runs, rows[i]) : i \in DOMAIN rows} |->
     LET mine == {i \in DOMAIN rows : Source(runs, rows[i]) = s}
     IN [observations |-> Cardinality(mine), runs |-> {rows[i].run : i \in mine} \ {0}]]

\* What a run returned, for any entity.
Items(obs, run) == {obs[i].object : i \in {j \in DOMAIN obs : obs[j].run = run}}

Interpretation(run) == IF run.complete THEN "not_observed_in_later_complete_collection"
                       ELSE "unknown_later_collection_incomplete"

\* Between successive runs of a connector in which the entity was observed.
Absences(obs, runs, entity) ==
  LET seen == {o.run : o \in Range(Of(obs, entity))} \ {0}
      Successive(a, b) == /\ a < b /\ runs[a].connector = runs[b].connector
                          /\ \A c \in seen : a < c /\ c < b => runs[c].connector # runs[a].connector
      Missing(a, b) == Items(obs, a) \ Items(obs, b)
  IN {[earlier |-> p[1], later |-> p[2], items |-> Missing(p[1], p[2]), means |-> Interpretation(runs[p[2]])] :
        p \in {x \in seen \X seen : Successive(x[1], x[2]) /\ Missing(x[1], x[2]) # {}}}

-----------------------------------------------------------------------------
\* What entities share and where their stable IDs differ is said of exactly those that hold them; a shared
\* identifier stays an open lead until an analyst accepted a relationship, and neighbours are shared when
\* relationships that were read, the oldest, say so (comparison.py:14-152, 213).
LeadsAreFair(ids, rels, entities) ==
  LET compared == Range(Requested(entities).entities)
      mine == SelectSeq(ids, LAMBDA i : i.owner \in compared)
      rows == IdentifierRows(mine)
      OneEach == \A m, n \in DOMAIN mine :
        mine[m].kind = "platform_id" /\ mine[n].kind = "platform_id" /\ mine[m].owner = mine[n].owner
        /\ mine[m].platform = mine[n].platform => mine[m].value = mine[n].value
  IN Requested(entities).accepted =>
       /\ \A n \in DOMAIN mine : \E r \in rows : r.row \in {"shared", "only_one"} /\ r.of = Key(mine[n])
                                                /\ mine[n].owner \in r.entities
       /\ OneEach => \A m, n \in DOMAIN mine :
            LET a == mine[m]  b == mine[n]
            IN a.kind = "platform_id" /\ b.kind = "platform_id" /\ a.platform = b.platform /\ a.value # b.value =>
                 \E r \in rows : r.row = "conflicting_platform_id" /\ {a.owner, b.owner} \subseteq r.entities
       /\ \A r \in rows : r.row = "conflicting_platform_id" =>
            \E m, n \in DOMAIN mine : /\ {mine[m].owner, mine[n].owner} \subseteq r.entities
              /\ mine[m].platform = mine[n].platform /\ mine[m].value # mine[n].value
              /\ mine[m].kind = "platform_id" /\ mine[n].kind = "platform_id"
       /\ \A m, n \in DOMAIN mine : Key(mine[m]) = Key(mine[n]) /\ mine[m].owner # mine[n].owner =>
            \/ Key(mine[m]) \in Leads(mine, rels, compared)
            \/ \E i \in DOMAIN rels : rels[i].review = "accepted"
                 /\ Ends(rels[i]) \subseteq Owners(mine, Key(mine[m]))
       /\ \A m, n \in Touching(rels, compared) : \A x \in (Ends(rels[m]) \cap Ends(rels[n])) \ compared :
            Cardinality((Ends(rels[m]) \cup Ends(rels[n])) \cap compared) > 1 => x \in SharedNeighbours(rels, compared)

\* Of the observations that are read, the oldest of each entity: sources that disagree at their end are both
\* shown, each with what it said last of these; an item is called not observed only after a later
\* collection that finished; and a change is listed, or it is told that some are not (comparison.py:94,
\* _changes, _field_conflicts, _absences).  Of what was said after them nothing is shown or told.
SourcesAreFair(obs, runs, compared, entity) ==
  LET rows == Of(obs, entity)
  IN /\ \A i, j \in DOMAIN rows :
          LET a == rows[i]  b == rows[j]
              Now(k) == rows[k].value # 0 /\ \A l \in k + 1 .. Len(rows) :
                          Source(runs, rows[l]) = Source(runs, rows[k]) => rows[l].value \in {0, rows[k].value}
          IN Source(runs, a) # Source(runs, b) /\ a.value # b.value /\ Now(i) /\ Now(j) =>
               {<<Source(runs, a), a.value>>, <<Source(runs, b), b.value>>} \subseteq FieldConflict(rows, runs)
     /\ \A i \in DOMAIN rows : \E s \in DOMAIN Coverage(rows, runs) :
          s = Source(runs, rows[i]) /\ (rows[i].run # 0 => rows[i].run \in Coverage(rows, runs)[s].runs)
     /\ \A x \in Absences(obs, runs, entity) : x.means = "not_observed_in_later_complete_collection" =>
          runs[x.later].complete /\ x.items \cap Items(obs, x.later) = {}
     /\ \A i, j \in DOMAIN rows :
          /\ i < j /\ rows[i].object = rows[j].object /\ rows[i].value # rows[j].value
          /\ \A k \in i + 1 .. j - 1 : rows[k].object # rows[i].object
          => LET listed == ListedChanges(obs, compared)
             IN listed.truncated \/ [entity |-> entity, pair |-> <<i, j>>] \in Range(listed.changes)

=================================================================================
