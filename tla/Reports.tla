-------------------------------- MODULE Reports --------------------------------
(***************************************************************************)
(* A report of selected records: which evidence its sections refer to,     *)
(* which of it is bundled into the file, and what the file says is missing *)
(* from the collections. Wording, markup and redaction are left out.       *)
(*                                                                         *)
(* A case is [entities, relationships, notes, answers, comparison,         *)
(* timeline, evidence, runs, jobs]: for each record that can be selected   *)
(* the evidence it refers to, in the order in which it is written.         *)
(***************************************************************************)
EXTENDS Naturals, FiniteSets, FiniteSetsExt, Sequences, SequencesExt

CONSTANTS MaxBundled,   \* MAX_BUNDLED_EVIDENCE
          MaxGaps       \* at most so many runs, and so many jobs, are listed

None == 0   \* no evidence

-----------------------------------------------------------------------------
(* The bundle: evidence in the order of the first reference, and the links of the sections *)

EmptyBundle == [order |-> <<>>, reasons |-> {}, overflow |-> 0, links |-> <<>>]

\* What is referred to is bundled, or cited without a link once the bundle is full.
Add(b, evidence, reason) ==
  IF evidence = None THEN b
  ELSE IF evidence \notin Range(b.order) /\ Len(b.order) >= MaxBundled
  THEN [b EXCEPT !.overflow = @ + 1]
  ELSE [b EXCEPT !.order = IF evidence \in Range(@) THEN @ ELSE Append(@, evidence),
                 !.reasons = @ \cup {<<evidence, reason>>}, !.links = Append(@, evidence)]

AddAll(b, references, reason) == FoldLeft(LAMBDA x, e : Add(x, e, reason), b, references)

\* Every selected record must be one of the case.
Missing(selected, found) == Range(selected) \ found # {}
Unique(s) == FoldLeft(LAMBDA u, x : IF x \in Range(u) THEN u ELSE Append(u, x), <<>>, s)

-----------------------------------------------------------------------------
(* The sections *)

Entities(c, sel, b) ==
  FoldLeft(LAMBDA x, id : AddAll(x, c.entities[id], "linked"), b, Unique(sel.entities))

\* The other records are written in the order of the database.
Chosen(selected) == SetToSortSeq(Range(selected), <)
Relationships(c, sel, b) ==
  FoldLeft(LAMBDA x, id : AddAll(x, c.relationships[id], "relationship"), b, Chosen(sel.relationships))
Notes(c, sel, b) == FoldLeft(LAMBDA x, id : Add(x, c.notes[id], "note"), b, Chosen(sel.notes))

\* Earlier and later evidence of each change, then the evidence of each conflict.
Comparison(c, sel, b) == IF sel.comparison = <<>> THEN b
                         ELSE AddAll(AddAll(b, c.comparison.changes, "comparison"), c.comparison.conflicts, "conflict")

\* A citation [of, evidence] is gone, the result of a tool, or a passage; only passages are bundled.
AiAnswers(c, sel, b) ==
  LET Passages(id) == SelectSeq(c.answers[id], LAMBDA citation : citation.of = "passage")
      Add1(x, citation) == Add(x, citation.evidence, "citation")
  IN FoldLeft(LAMBDA x, id : FoldLeft(Add1, x, Passages(id)), b, Chosen(sel.answers))

\* The first items of each section of the timeline, of one entity or of all.
Timeline(c, sel, b) ==
  LET Of(section) == SelectSeq(c.timeline[section], LAMBDA o : sel.entity \in {None, o.entity})
      Shown(section) == SubSeq(Of(section), 1, IF Len(Of(section)) < sel.limit THEN Len(Of(section)) ELSE sel.limit)
      Add1(x, o) == Add(x, o.evidence, "timeline")
  IN IF ~ sel.timeline THEN b
     ELSE FoldLeft(LAMBDA x, section : FoldLeft(Add1, x, Shown(section)), b, <<"dated", "local_time_only", "undated">>)

Bundled(c, sel) ==
  AddAll(Timeline(c, sel, Notes(c, sel, AiAnswers(c, sel, Comparison(c, sel, Relationships(c, sel, Entities(c, sel, EmptyBundle)))))),
         sel.evidence, "selected")

\* An excerpt of what is text and unchanged since it was stored.
Excerpt(content, limit) ==
  IF ~ content.text THEN [chars |-> 0, says |-> "binary_not_bundled"]
  ELSE IF ~ content.intact THEN [chars |-> 0, says |-> "integrity_check_failed"]
  ELSE IF content.chars > limit THEN [chars |-> limit, says |-> "first_characters"]
  ELSE [chars |-> content.chars, says |-> "complete"]

\* A section for everything bundled; of what was deleted meanwhile it says only that.
Evidence(c, sel, b) ==
  [i \in DOMAIN b.order |->
     IF b.order[i] \in DOMAIN c.evidence
     THEN [anchor |-> b.order[i], shows |-> Excerpt(c.evidence[b.order[i]], sel.chars)]
     ELSE [anchor |-> b.order[i], shows |-> [chars |-> 0, says |-> "deleted"]]]

\* Finished collections without a clean outcome and jobs with something missing, newest first.
Gaps(c) ==
  LET Newest(s) == SubSeq(s, 1, IF Len(s) < MaxGaps THEN Len(s) ELSE MaxGaps)
  IN Newest(SelectSeq(c.runs, LAMBDA outcome : outcome \notin {"none", "findings", "no_findings"}))
     \o Newest(SelectSeq(c.jobs, LAMBDA status : status \in {"partial", "failed", "needs_input"}))

\* What is selected must be in the case; evidence is looked for among what was bundled.
BuildReport(c, sel) ==
  LET b == Bundled(c, sel)
  IN IF \/ Missing(sel.entities, DOMAIN c.entities) \/ Missing(sel.relationships, DOMAIN c.relationships)
        \/ Missing(sel.notes, DOMAIN c.notes) \/ Missing(sel.answers, DOMAIN c.answers)
     THEN [refused |-> TRUE, why |-> "record_not_found"]
     ELSE IF b.order # <<>> /\ Missing(sel.evidence, Range(b.order) \cap DOMAIN c.evidence)
     THEN [refused |-> TRUE, why |-> "evidence_not_found"]
     ELSE [refused |-> FALSE, why |-> "", bundle |-> b, sections |-> Evidence(c, sel, b), gaps |-> Gaps(c)]

-----------------------------------------------------------------------------
\* Everything a section of the report refers to.
Referred(c, sel) ==
  UNION {Range(c.entities[id]) : id \in Range(sel.entities)}
  \cup UNION {Range(c.relationships[id]) : id \in Range(sel.relationships)}
  \cup {c.notes[id] : id \in Range(sel.notes)}
  \cup {citation.evidence : citation \in {x \in UNION {Range(c.answers[id]) : id \in Range(sel.answers)} : x.of = "passage"}}
  \cup (IF sel.comparison = <<>> THEN {} ELSE Range(c.comparison.changes) \cup Range(c.comparison.conflicts))
  \cup (IF sel.timeline THEN {o.evidence : o \in UNION {Range(c.timeline[s]) : s \in DOMAIN c.timeline}} ELSE {})
  \cup Range(sel.evidence)

\* Every link leads to a section of the file, the file holds nothing that was not selected or referred
\* to, tells when something referred to is not in it, and cuts no text in silence (reports/builder.py:3-15).
ReportIsWhole(c, sel) ==
  LET r == BuildReport(c, sel)
  IN ~ r.refused =>
       /\ Range(r.bundle.links) \subseteq {r.sections[i].anchor : i \in DOMAIN r.sections}
       /\ Cardinality(Range(r.bundle.order)) = Len(r.bundle.order) /\ Len(r.bundle.order) <= MaxBundled
       /\ Range(r.bundle.order) \subseteq Referred(c, sel) \ {None}
       /\ Range(r.bundle.order) = {p[1] : p \in r.bundle.reasons}
       /\ (sel.timeline => sel.limit >= 2 /\ sel.entity = None) =>
            (r.bundle.overflow = 0 => Range(r.bundle.order) = Referred(c, sel) \ {None})
       /\ \A i \in DOMAIN r.sections : r.sections[i].shows.says = "complete" =>
            r.sections[i].shows.chars = c.evidence[r.sections[i].anchor].chars

=================================================================================
