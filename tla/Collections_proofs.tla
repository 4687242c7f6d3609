--------------------------- MODULE Collections_proofs ---------------------------
(***************************************************************************)
(* For any number of executions, items, workers, jobs, edits and faults:   *)
(* change sets tell the truth about the source, retention keeps the        *)
(* baselines, and what it removed half stays due.  The invariant says what *)
(* the plan of a worker promises after the transaction it was made in:     *)
(* none of it became a baseline, and all of it is due unless a rule was    *)
(* lifted.  It holds because the baselines only move to newer executions,  *)
(* and because executions become old in their order: without the second,   *)
(* the removal of a newer one can leave an older one with too few after    *)
(* it to be due, and without its files.                                    *)
(***************************************************************************)
EXTENDS Collections, FiniteSetTheorems, TLAPS

Numbers == 1 .. MaxRuns
ChangeSets ==
  [status : {"none", "baseline_established", "unknown", "baseline_incompatible", "changes_detected",
             "no_meaningful_change"},
   baseline : 0 .. MaxRuns,
   events : SUBSET ({"new", "unknown", "changed", "conflicting", "not_observed"} \X Items)]
RunRows ==
  [status : {"none", "live", "done"}, end : Ends, scope : Scopes, seen : [Items -> Seen],
   truth : [Items -> Values \cup {"absent"}], old : BOOLEAN, files : BOOLEAN, expired : BOOLEAN,
   set : ChangeSets, blind : BOOLEAN]
JobRows == [status : {"none", "queued", "running", "completed"}, lapsed : BOOLEAN]
Tasks == [step : {"idle", "plan", "runs", "runs_gone", "import", "import_gone", "finish"}, job : Jobs \cup {0},
          runs : SUBSET Numbers, import : BOOLEAN, held : SUBSET (Numbers \cup {Import})]

TypeOK ==
  /\ world \in Worlds /\ runs \in [Numbers -> RunRows]
  /\ import \in [present : BOOLEAN, files : BOOLEAN, use : {"none", "waiting", "running"}]
  /\ rules \in SUBSET Rules /\ {caseOpen, relaxed} \subseteq BOOLEAN
  /\ jobs \in [Jobs -> JobRows] /\ worker \in [Workers -> Tasks]

\* What did not end has neither expired nor become old, and was not compared.
UnendedIsFresh ==
  \A n \in Numbers : runs[n].status # "done" =>
    ~runs[n].expired /\ ~runs[n].old /\ runs[n].files /\ runs[n].set = NoChangeSet

OldInOrder == \A n \in Numbers : runs[n].old => \A m \in 1 .. n - 1 : runs[m].old

\* A collection returns of the source what its end allows.
SeenIsTrue ==
  \A n \in Numbers : runs[n].status = "done" => runs[n].seen \in Returns(runs[n].truth, runs[n].end)

BaselineEnded ==
  \A n \in Numbers : LET b == runs[n].set.baseline IN b # 0 => runs[b].status = "done"

\* The newest execution with data, and the newest complete one, have not expired.
WithPages(set) == {n \in set : HasPages(runs[n])}
Complete(set) == {n \in set : CollectionComplete(runs[n])}
Done == {n \in Numbers : runs[n].status = "done"}
NewestAreKept ==
  \A n \in Done :
    /\ HasPages(runs[n]) /\ (\A m \in WithPages(Done) : m <= n) => ~runs[n].expired
    /\ CollectionComplete(runs[n]) /\ (\A m \in Complete(Done) : m <= n) => ~runs[n].expired

\* What a worker planned to remove is still no baseline, and still due unless a rule was lifted.
MayGo(n) == n \notin BaselineRuns /\ (relaxed \/ n \in Candidates)
PlansHold ==
  \A w \in Workers :
    /\ worker[w].runs \subseteq Done
    /\ worker[w].step \in {"runs", "runs_gone"} => \A n \in worker[w].runs \cap Ended : MayGo(n)
    /\ worker[w].step = "runs_gone" => worker[w].held \subseteq worker[w].runs
    /\ worker[w].import => relaxed \/ "imported" \in rules
HalfRemovedMayGo == \A n \in Ended : ~runs[n].files => MayGo(n)

IInv ==
  /\ TypeOK /\ UnendedIsFresh /\ OldInOrder
  /\ NewestAreKept /\ PlansHold /\ HalfRemovedMayGo /\ HalfRemovedImportIsDue
  /\ SeenIsTrue /\ BaselineEnded /\ ChangesAreTrue

-----------------------------------------------------------------------------
(* The largest of some executions.                                         *)

LEMMA MaxIsLargest ==
  ASSUME MaxRuns \in Nat, NEW S \in SUBSET Numbers, S # {}
  PROVE  Max(S) \in S /\ \A m \in S : m <= Max(S)
<1> DEFINE T == {MaxRuns - m : m \in S}
<1>0. \A m \in S : MaxRuns - m \in Nat
  BY DEF Numbers
<1>1. T \in SUBSET Nat /\ T # {}
  BY <1>0
<1>2. PICK t \in T : \A u \in T : ~(<<u, t>> \in OpToRel(<, Nat))
  <2> HIDE DEF T
  <2> QED BY <1>1, NatLessThanWellFounded, WFMin
<1>3. PICK s \in S : t = MaxRuns - s
  OBVIOUS
<1>4. \A m \in S : ~(MaxRuns - m < MaxRuns - s)
  BY <1>1, <1>2, <1>3 DEF OpToRel
<1>5. \A m \in S : s >= m
  BY <1>4 DEF Numbers
<1> QED BY <1>3, <1>5 DEF Max, Numbers

Newest(set) == IF set = {} THEN {} ELSE {Max(set)}

LEMMA NewestIs ==
  ASSUME MaxRuns \in Nat, NEW S \in SUBSET Numbers
  PROVE  \A n : n \in Newest(S) <=> n \in S /\ \A m \in S : m <= n
<1>1. CASE S = {}
  BY <1>1 DEF Newest
<1>2. CASE S # {}
  <2>1. Max(S) \in S /\ \A m \in S : m <= Max(S)
    BY <1>2, MaxIsLargest
  <2>2. ASSUME NEW n \in S, \A m \in S : m <= n PROVE n = Max(S)
    <3> DEFINE k == Max(S)
    <3>0. k \in S /\ n <= k
      BY <2>1
    <3> HIDE DEF k
    <3>1. k \in Numbers /\ n \in Numbers /\ k <= n
      BY <2>2, <3>0
    <3>2. n = k
      BY <3>0, <3>1 DEF Numbers
    <3> QED BY <3>2 DEF k
  <2> QED BY <1>2, <2>1, <2>2 DEF Newest
<1> QED BY <1>1, <1>2

-----------------------------------------------------------------------------
(* The baselines that retention keeps.                                     *)

EndedOf(rs) == {n \in Numbers : rs[n].status = "done" /\ ~rs[n].expired}
BaselinesOf(rs) ==
  Newest({n \in EndedOf(rs) : HasPages(rs[n])}) \cup Newest({n \in EndedOf(rs) : CollectionComplete(rs[n])})

\* A baseline is the newest with data or the newest complete one of those that have not expired.
LEMMA BaselinesOfAre ==
  ASSUME MaxRuns \in Nat, NEW rs
  PROVE  \A n : n \in BaselinesOf(rs) <=>
           /\ n \in EndedOf(rs)
           /\ \/ HasPages(rs[n]) /\ \A m \in EndedOf(rs) : HasPages(rs[m]) => m <= n
              \/ CollectionComplete(rs[n]) /\ \A m \in EndedOf(rs) : CollectionComplete(rs[m]) => m <= n
<1> DEFINE S == {n \in EndedOf(rs) : HasPages(rs[n])}
           T == {n \in EndedOf(rs) : CollectionComplete(rs[n])}
<1>1. S \in SUBSET Numbers /\ T \in SUBSET Numbers
  BY DEF EndedOf
<1>2. \A n : n \in Newest(S) <=> n \in S /\ \A m \in S : m <= n
  <2> HIDE DEF S
  <2> QED BY <1>1, NewestIs
<1>3. \A n : n \in Newest(T) <=> n \in T /\ \A m \in T : m <= n
  <2> HIDE DEF T
  <2> QED BY <1>1, NewestIs
<1> QED BY <1>2, <1>3 DEF BaselinesOf

LEMMA Baselines == ASSUME TypeOK PROVE Ended = EndedOf(runs) /\ BaselineRuns = BaselinesOf(runs)
<1>1. Ended = EndedOf(runs)
  BY DEF Ended, EndedOf, TypeOK
<1>2. {n \in {m \in Ended : HasPages(runs[m])} : CollectionComplete(runs[n])} = {n \in Ended : CollectionComplete(runs[n])}
  BY DEF CollectionComplete, HasPages
<1> QED BY <1>1, <1>2 DEF BaselineRuns, BaselinesOf, Newest

LEMMA BaselinesNext == ASSUME TypeOK' PROVE Ended' = EndedOf(runs') /\ BaselineRuns' = BaselinesOf(runs')
<1>1. Ended' = EndedOf(runs')
  BY DEF Ended, EndedOf, TypeOK
<1>2. {n \in {m \in Ended' : HasPages(runs'[m])} : CollectionComplete(runs'[n])} = {n \in Ended' : CollectionComplete(runs'[n])}
  BY DEF CollectionComplete, HasPages
<1> QED BY <1>1, <1>2 DEF BaselineRuns, BaselinesOf, Newest

\* The newest of them all is the newest of those that remain.
LEMMA KeptBaselines ==
  ASSUME TypeOK, MaxRuns \in Nat, NewestAreKept
  PROVE  BaselinesAreKept
<1> DEFINE usable == WithPages(Done)
           complete == Complete(Done)
<1>1. usable \in SUBSET Numbers /\ complete \in SUBSET Numbers
  BY DEF WithPages, Complete, Done
<1>2. {n \in DOMAIN runs : runs[n].status = "done" /\ HasPages(runs[n])} = usable
  BY DEF WithPages, Done, TypeOK
<1>3. {n \in usable : CollectionComplete(runs[n])} = complete
  BY DEF WithPages, Complete, CollectionComplete, HasPages
<1>4. usable # {} => ~runs[Max(usable)].expired
  <2>1. ASSUME usable # {} PROVE Max(usable) \in usable /\ \A m \in usable : m <= Max(usable)
    <3> HIDE DEF usable
    <3> QED BY <1>1, <2>1, MaxIsLargest
  <2> QED BY <2>1 DEF NewestAreKept, WithPages
<1>5. complete # {} => ~runs[Max(complete)].expired
  <2>1. ASSUME complete # {} PROVE Max(complete) \in complete /\ \A m \in complete : m <= Max(complete)
    <3> HIDE DEF complete
    <3> QED BY <1>1, <2>1, MaxIsLargest
  <2> QED BY <2>1 DEF NewestAreKept, Complete
<1> HIDE DEF usable, complete
<1> QED BY <1>2, <1>3, <1>4, <1>5 DEF BaselinesAreKept

-----------------------------------------------------------------------------
(* Plans, while executions end and expire.                                 *)

LEMMA MoreAreMore ==
  ASSUME MaxRuns \in Nat, NEW S \in SUBSET Numbers, NEW T \in SUBSET S, KeepLast \in Nat, Cardinality(T) >= KeepLast
  PROVE  Cardinality(S) >= KeepLast
<1>1. IsFiniteSet(Numbers)
  BY FS_Interval DEF Numbers
<1>2. IsFiniteSet(S) /\ IsFiniteSet(T)
  BY <1>1, FS_Subset
<1>3. Cardinality(T) <= Cardinality(S) /\ Cardinality(S) \in Nat /\ Cardinality(T) \in Nat
  BY <1>2, FS_Subset, FS_CardinalityType
<1> QED BY <1>3

\* What ended stays as it is, but for its age, its files, and whether it was compared.
EndedStays ==
  \A n \in Numbers :
    /\ runs[n].status = "done" =>
         /\ runs'[n].status = "done" /\ runs'[n].end = runs[n].end /\ runs'[n].expired = runs[n].expired
         /\ runs[n].old => runs'[n].old
    /\ runs[n].status # "done" /\ runs'[n].status = "done" => ~runs'[n].expired /\ runs'[n].files

\* Executions that end make no baseline of what was planned, and lift no rule.
LEMMA PlansSurvive ==
  ASSUME CollectionsAssumption, IInv, TypeOK', EndedStays,
         relaxed => relaxed', relaxed' \/ rules \subseteq rules'
  PROVE  /\ Ended \subseteq Ended' /\ \A n \in Done : n \in Ended' => n \in Ended
         /\ \A n \in Ended : MayGo(n) => MayGo(n)'
         /\ NewestAreKept'
<1>1. MaxRuns \in Nat /\ KeepLast \in Nat /\ TypeOK
  BY DEF CollectionsAssumption, IInv
<1>2. /\ Ended = EndedOf(runs) /\ BaselineRuns = BaselinesOf(runs)
      /\ Ended' = EndedOf(runs') /\ BaselineRuns' = BaselinesOf(runs')
  BY <1>1, Baselines, BaselinesNext
<1>3. EndedOf(runs) \subseteq EndedOf(runs') /\ \A n \in Done : n \in EndedOf(runs') => n \in EndedOf(runs)
  BY DEF EndedOf, EndedStays, Done
<1>4. \A n \in EndedOf(runs) : HasPages(runs'[n]) = HasPages(runs[n]) /\ CollectionComplete(runs'[n]) = CollectionComplete(runs[n])
  BY DEF EndedOf, EndedStays, HasPages, CollectionComplete
<1>5. ASSUME NEW n \in EndedOf(runs), n \notin BaselinesOf(runs) PROVE n \notin BaselinesOf(runs')
  BY <1>1, <1>3, <1>4, <1>5, BaselinesOfAre
<1>6. ASSUME NEW n \in Ended, n \in Candidates, ~relaxed' PROVE n \in Candidates'
  <2>1. rules \subseteq rules' /\ n \in Ended'
    BY <1>2, <1>3, <1>6
  <2>2. CASE "collected" \in rules /\ runs[n].old
    <3>1. runs'[n].old
      BY <2>2, <1>2 DEF EndedOf, EndedStays
    <3> QED BY <2>1, <2>2, <3>1 DEF Candidates
  <2>3. CASE "keep_last" \in rules /\ Cardinality({m \in Ended : m > n}) >= KeepLast
    <3>1. {m \in Ended : m > n} \in SUBSET {m \in Ended' : m > n} /\ {m \in Ended' : m > n} \in SUBSET Numbers
      BY <1>2, <1>3 DEF EndedOf
    <3> DEFINE S == {m \in Ended' : m > n}
               T == {m \in Ended : m > n}
    <3>2. Cardinality(S) >= KeepLast
      <4> HIDE DEF S, T
      <4>1. S \in SUBSET Numbers /\ T \in SUBSET S /\ Cardinality(T) >= KeepLast
        BY <3>1, <2>3 DEF S, T
      <4> QED BY <4>1, <1>1, MoreAreMore
    <3> QED BY <2>1, <2>3, <3>2 DEF Candidates
  <2> QED BY <1>6, <2>2, <2>3 DEF Candidates
<1>7. \A n \in Ended : MayGo(n) => MayGo(n)'
  BY <1>2, <1>5, <1>6 DEF MayGo
<1>8. NewestAreKept'
  <2> SUFFICES ASSUME NEW n \in Done'
      PROVE /\ HasPages(runs'[n]) /\ (\A m \in WithPages(Done)' : m <= n) => ~runs'[n].expired
            /\ CollectionComplete(runs'[n]) /\ (\A m \in Complete(Done)' : m <= n) => ~runs'[n].expired
    BY DEF NewestAreKept
  <2>1. CASE runs[n].status # "done"
    BY <2>1 DEF Done, EndedStays
  <2>2. CASE runs[n].status = "done"
    <3>1. WithPages(Done) \subseteq WithPages(Done)' /\ Complete(Done) \subseteq Complete(Done)'
      BY DEF EndedStays, WithPages, Complete, Done, HasPages, CollectionComplete
    <3>2. n \in Done /\ runs'[n].end = runs[n].end /\ runs'[n].expired = runs[n].expired
      BY <2>2 DEF EndedStays, Done
    <3> QED BY <3>1, <3>2 DEF IInv, NewestAreKept, HasPages, CollectionComplete
  <2> QED BY <2>1, <2>2
<1> QED BY <1>2, <1>3, <1>7, <1>8

\* The rows that a transaction removes leave the baselines, and leave due what was.
LEMMA RemovedRows ==
  ASSUME CollectionsAssumption, IInv, TypeOK', NEW w \in Workers, RemoveRows(w)
  PROVE  /\ Ended' \subseteq Ended
         /\ \A n \in Ended' : MayGo(n) => MayGo(n)'
         /\ NewestAreKept'
<1> DEFINE gone == worker[w].held
<1>1. MaxRuns \in Nat /\ KeepLast \in Nat /\ TypeOK /\ UNCHANGED <<rules, relaxed>>
  BY DEF CollectionsAssumption, IInv, RemoveRows, ruleVars
<1>2. /\ Ended = EndedOf(runs) /\ BaselineRuns = BaselinesOf(runs)
      /\ Ended' = EndedOf(runs') /\ BaselineRuns' = BaselinesOf(runs')
  BY <1>1, Baselines, BaselinesNext
<1>3. \A n \in Numbers :
        /\ runs'[n].status = runs[n].status /\ runs'[n].end = runs[n].end /\ runs'[n].old = runs[n].old
        /\ runs'[n].expired = (runs[n].expired \/ n \in gone)
  <2>1. DOMAIN runs = Numbers /\ \A n \in Numbers : runs[n] \in RunRows
    BY <1>1 DEF TypeOK
  <2>2. \A n \in Numbers : runs'[n] = IF n \in gone THEN [runs[n] EXCEPT !.expired = TRUE] ELSE runs[n]
    BY <2>1 DEF RemoveRows
  <2> SUFFICES ASSUME NEW n \in Numbers
               PROVE  /\ runs'[n].status = runs[n].status /\ runs'[n].end = runs[n].end /\ runs'[n].old = runs[n].old
                      /\ runs'[n].expired = (runs[n].expired \/ n \in gone)
    OBVIOUS
  <2> HIDE DEF gone
  <2>3. CASE n \in gone
    <3>1. runs'[n] = [runs[n] EXCEPT !.expired = TRUE] /\ runs[n] \in RunRows
      BY <2>1, <2>2, <2>3
    <3>2. runs'[n].expired = TRUE
      BY <3>1 DEF RunRows
    <3> QED BY <2>3, <3>1, <3>2 DEF RunRows
  <2>4. CASE n \notin gone
    <3>1. runs'[n] = runs[n] /\ runs[n].expired \in BOOLEAN
      BY <2>1, <2>2, <2>4 DEF RunRows
    <3> QED BY <2>4, <3>1
  <2> QED BY <2>3, <2>4
<1>4. \A n \in gone : n \in Ended => MayGo(n)
  BY DEF RemoveRows, IInv, PlansHold
<1> HIDE DEF gone
<1>5. \A n : n \in EndedOf(runs') <=> n \in EndedOf(runs) /\ n \notin gone
  BY <1>3 DEF EndedOf
<1>6. \A n \in gone : n \notin BaselinesOf(runs)
  <2>1. \A n \in gone : n \in BaselinesOf(runs) => n \in EndedOf(runs)
    BY <1>1, BaselinesOfAre
  <2> QED BY <1>2, <1>4, <2>1 DEF MayGo
<1>7. \A n \in Numbers : HasPages(runs'[n]) = HasPages(runs[n]) /\ CollectionComplete(runs'[n]) = CollectionComplete(runs[n])
  BY <1>3 DEF HasPages, CollectionComplete
<1>8. ASSUME NEW n \in EndedOf(runs'), n \in BaselinesOf(runs') PROVE n \in BaselinesOf(runs)
  <2> DEFINE usable == {m \in EndedOf(runs) : HasPages(runs[m])}
             complete == {m \in EndedOf(runs) : CollectionComplete(runs[m])}
  <2>1. n \in EndedOf(runs) /\ n \in Numbers
    BY <1>5 DEF EndedOf
  <2>2. CASE HasPages(runs'[n]) /\ \A m \in EndedOf(runs') : HasPages(runs'[m]) => m <= n
    <3>1. n \in usable /\ usable \in SUBSET Numbers
      BY <1>7, <2>1, <2>2 DEF EndedOf
    <3> DEFINE k == Max(usable)
    <3>2. k \in usable /\ \A m \in usable : m <= k
      <4> HIDE DEF usable
      <4> QED BY <1>1, <3>1, MaxIsLargest
    <3> HIDE DEF k
    <3>3. k \in BaselinesOf(runs)
      BY <1>1, <3>2, BaselinesOfAre
    <3>4. k \in EndedOf(runs') /\ HasPages(runs'[k])
      BY <1>5, <1>6, <1>7, <3>1, <3>2, <3>3
    <3>5. k <= n /\ n <= k /\ k \in Numbers
      BY <2>2, <3>1, <3>2, <3>4
    <3>6. k = n
      BY <2>1, <3>5 DEF Numbers
    <3> QED BY <3>3, <3>6
  <2>3. CASE CollectionComplete(runs'[n]) /\ \A m \in EndedOf(runs') : CollectionComplete(runs'[m]) => m <= n
    <3>1. n \in complete /\ complete \in SUBSET Numbers
      BY <1>7, <2>1, <2>3 DEF EndedOf
    <3> DEFINE k == Max(complete)
    <3>2. k \in complete /\ \A m \in complete : m <= k
      <4> HIDE DEF complete
      <4> QED BY <1>1, <3>1, MaxIsLargest
    <3> HIDE DEF k
    <3>3. k \in BaselinesOf(runs)
      BY <1>1, <3>2, BaselinesOfAre
    <3>4. k \in EndedOf(runs') /\ CollectionComplete(runs'[k])
      BY <1>5, <1>6, <1>7, <3>1, <3>2, <3>3
    <3>5. k <= n /\ n <= k /\ k \in Numbers
      BY <2>3, <3>1, <3>2, <3>4
    <3>6. k = n
      BY <2>1, <3>5 DEF Numbers
    <3> QED BY <3>3, <3>6
  <2> QED BY <1>1, <1>8, <2>2, <2>3, BaselinesOfAre
<1>9. ASSUME NEW n \in Ended', n \in Candidates, ~relaxed PROVE n \in Candidates'
  <2>1. n \in Numbers /\ n \in Ended
    BY <1>2, <1>5 DEF EndedOf
  <2>2. ASSUME "collected" \in rules, runs[n].old PROVE n \in Candidates'
    BY <1>1, <1>3, <2>1, <2>2, <1>9 DEF Candidates
  <2>3. ASSUME "keep_last" \in rules, Cardinality({m \in Ended' : m > n}) >= KeepLast PROVE n \in Candidates'
    BY <1>1, <2>3, <1>9 DEF Candidates
  <2> DEFINE newer == {m \in Ended : m > n}
             removed == {m \in gone : m \in newer}
             S == {m \in Ended' : m > n}
  <2>4. CASE "keep_last" \in rules /\ Cardinality(newer) >= KeepLast /\ removed = {}
    <3>1. S = newer
      BY <1>2, <1>5, <2>4
    <3> QED BY <2>3, <2>4, <3>1
  <2>5. CASE removed # {}
    <3>0. removed \in SUBSET Numbers
      BY <1>2 DEF EndedOf
    <3> DEFINE k == Max(removed)
    <3>1. k \in removed /\ \A m \in removed : m <= k
      <4> HIDE DEF removed
      <4> QED BY <1>1, <2>5, <3>0, MaxIsLargest
    <3> HIDE DEF k
    <3>2. k \in gone /\ k \in Ended /\ k > n /\ k \in Numbers
      BY <3>0, <3>1
    <3>3. k \in Candidates
      BY <1>4, <1>9, <3>2 DEF MayGo
    <3>4. CASE "collected" \in rules /\ runs[k].old
      <4>1. n \in 1 .. k - 1
        BY <2>1, <3>2 DEF Numbers
      <4>2. runs[n].old
        BY <3>2, <3>4, <4>1 DEF IInv, OldInOrder
      <4> QED BY <2>2, <3>4, <4>2
    <3>5. CASE "keep_last" \in rules /\ Cardinality({m \in Ended : m > k}) >= KeepLast
      <4> DEFINE T == {m \in Ended : m > k}
      <4>1. ASSUME NEW m \in T PROVE m \in S
        <5>1. m \in Numbers /\ m > n /\ ~(m <= k)
          BY <1>2, <2>1, <3>2, <4>1 DEF EndedOf, Numbers
        <5>2. m \notin gone
          BY <3>1, <4>1, <5>1
        <5> QED BY <1>2, <1>5, <4>1, <5>1, <5>2
      <4>2. S \in SUBSET Numbers
        BY <1>2 DEF EndedOf
      <4>3. Cardinality(S) >= KeepLast
        <5>1. T \in SUBSET S /\ Cardinality(T) >= KeepLast
          BY <3>5, <4>1
        <5> HIDE DEF S, T
        <5> QED BY <1>1, <4>2, <5>1, MoreAreMore
      <4> QED BY <2>3, <3>5, <4>3
    <3> QED BY <3>3, <3>4, <3>5 DEF Candidates
  <2> QED BY <1>9, <2>2, <2>4, <2>5 DEF Candidates
<1>10. \A n \in Ended' : MayGo(n) => MayGo(n)'
  BY <1>1, <1>2, <1>8, <1>9 DEF MayGo
<1>11. NewestAreKept'
  <2> SUFFICES ASSUME NEW n \in Done'
      PROVE /\ HasPages(runs'[n]) /\ (\A m \in WithPages(Done)' : m <= n) => ~runs'[n].expired
            /\ CollectionComplete(runs'[n]) /\ (\A m \in Complete(Done)' : m <= n) => ~runs'[n].expired
    BY DEF NewestAreKept
  <2>1. n \in Done /\ n \in Numbers
    BY <1>3 DEF Done
  <2>2. \A m \in EndedOf(runs) : /\ HasPages(runs[m]) => m \in WithPages(Done)'
                                 /\ CollectionComplete(runs[m]) => m \in Complete(Done)'
    BY <1>3, <1>7 DEF EndedOf, WithPages, Complete, Done
  <2>3. WithPages(Done) \subseteq WithPages(Done)' /\ Complete(Done) \subseteq Complete(Done)'
    BY <1>3, <1>7 DEF WithPages, Complete, Done
  <2>4. CASE HasPages(runs'[n]) /\ \A m \in WithPages(Done)' : m <= n
    <3>1. HasPages(runs[n]) /\ ~runs[n].expired
      BY <1>7, <2>1, <2>3, <2>4 DEF IInv, NewestAreKept
    <3>2. n \in BaselinesOf(runs)
      BY <1>1, <2>1, <2>2, <2>4, <3>1, BaselinesOfAre DEF EndedOf, Done
    <3> QED BY <1>3, <1>6, <2>1, <3>1, <3>2
  <2>5. CASE CollectionComplete(runs'[n]) /\ \A m \in Complete(Done)' : m <= n
    <3>1. CollectionComplete(runs[n]) /\ ~runs[n].expired
      BY <1>7, <2>1, <2>3, <2>5 DEF IInv, NewestAreKept
    <3>2. n \in BaselinesOf(runs)
      BY <1>1, <2>1, <2>2, <2>5, <3>1, BaselinesOfAre DEF EndedOf, Done
    <3> QED BY <1>3, <1>6, <2>1, <3>1, <3>2
  <2> QED BY <2>4, <2>5
<1> QED BY <1>2, <1>5, <1>10, <1>11

-----------------------------------------------------------------------------
(* What a change set says.                                                 *)

EventKinds == {"new", "unknown", "changed", "conflicting", "not_observed"}

LEMMA BaselineIsEarlier ==
  ASSUME CollectionsAssumption, TypeOK, NEW n \in Numbers, Baseline(runs, n) # 0
  PROVE  Baseline(runs, n) \in Numbers /\ runs[Baseline(runs, n)].status = "done"
<1> DEFINE earlier == Earlier(runs, n)
           complete == {m \in earlier :
             CollectionComplete(runs[m]) /\ \A k \in earlier : k >= m => Comparable(runs[k], runs[n])}
           chosen == IF complete = {} THEN earlier ELSE complete
<1>1. earlier \in SUBSET Numbers /\ \A m \in earlier : runs[m].status = "done"
  BY DEF Earlier, TypeOK
<1>2. Baseline(runs, n) = IF earlier = {} THEN 0 ELSE Max(chosen)
  BY DEF Baseline
<1>3. earlier # {} => chosen # {}
  OBVIOUS
<1>4. chosen \in SUBSET Numbers /\ chosen \subseteq earlier
  BY <1>1
<1> HIDE DEF earlier, chosen
<1>5. MaxRuns \in Nat
  BY DEF CollectionsAssumption
<1>6. Max(chosen) \in chosen
  BY <1>2, <1>3, <1>4, <1>5, MaxIsLargest
<1> QED BY <1>1, <1>2, <1>4, <1>6

\* The events, by their kinds.
LEMMA EventsAre ==
  ASSUME NEW before, NEW now, NEW fromComplete \in BOOLEAN, NEW complete \in BOOLEAN
  PROVE  /\ Differences(before, now, fromComplete, complete) \subseteq EventKinds \X Items
         /\ \A i \in Items :
              LET new == before[i] = NotSeen /\ now[i] # NotSeen
                  gone == before[i] # NotSeen /\ now[i] = NotSeen
                  events == Differences(before, now, fromComplete, complete)
              IN /\ <<"new", i>> \in events <=> fromComplete /\ new
                 /\ <<"unknown", i>> \in events <=> (~fromComplete /\ new) \/ (~complete /\ gone)
                 /\ <<"not_observed", i>> \in events <=> complete /\ gone
                 /\ <<"changed", i>> \in events <=> before[i] # NotSeen /\ now[i] # NotSeen /\ Last(before[i]) # Last(now[i])
<1> DEFINE Pairs(kind, set) == {<<kind, i>> : i \in set}
           appeared == {i \in Items : before[i] = NotSeen /\ now[i] # NotSeen}
           vanished == {i \in Items : before[i] # NotSeen /\ now[i] = NotSeen}
           changed == {i \in Items : before[i] # NotSeen /\ now[i] # NotSeen /\ Last(before[i]) # Last(now[i])}
           conflicting == {i \in Items : now[i] # NotSeen /\ now[i][1] # now[i][2]}
           events == Differences(before, now, fromComplete, complete)
<1>1. events = Pairs(IF fromComplete THEN "new" ELSE "unknown", appeared)
               \cup Pairs("changed", changed) \cup Pairs("conflicting", conflicting)
               \cup Pairs(IF complete THEN "not_observed" ELSE "unknown", vanished)
  BY DEF Differences
<1> HIDE DEF events
<1>2. events \subseteq EventKinds \X Items
  BY <1>1 DEF EventKinds
<1>3. \A i \in Items : <<"new", i>> \in events <=> fromComplete /\ i \in appeared
  BY <1>1
<1>4. \A i \in Items : <<"unknown", i>> \in events <=> (~fromComplete /\ i \in appeared) \/ (~complete /\ i \in vanished)
  BY <1>1
<1>5. \A i \in Items : <<"not_observed", i>> \in events <=> complete /\ i \in vanished
  BY <1>1
<1>6. \A i \in Items : <<"changed", i>> \in events <=> i \in changed
  BY <1>1
<1>7. ASSUME NEW i \in Items
      PROVE  /\ i \in appeared <=> before[i] = NotSeen /\ now[i] # NotSeen
             /\ i \in vanished <=> before[i] # NotSeen /\ now[i] = NotSeen
             /\ i \in changed <=> before[i] # NotSeen /\ now[i] # NotSeen /\ Last(before[i]) # Last(now[i])
  OBVIOUS
<1> HIDE DEF appeared, vanished, changed
<1>8. ASSUME NEW i \in Items
      PROVE  LET new == before[i] = NotSeen /\ now[i] # NotSeen
                 gone == before[i] # NotSeen /\ now[i] = NotSeen
             IN /\ <<"new", i>> \in events <=> fromComplete /\ new
                /\ <<"unknown", i>> \in events <=> (~fromComplete /\ new) \/ (~complete /\ gone)
                /\ <<"not_observed", i>> \in events <=> complete /\ gone
                /\ <<"changed", i>> \in events <=> before[i] # NotSeen /\ now[i] # NotSeen /\ Last(before[i]) # Last(now[i])
  BY <1>3, <1>4, <1>5, <1>6, <1>7
<1> USE DEF events
<1> QED BY <1>2, <1>8

\* What two collections say of an item is true of the source.
LEMMA CollectionsTell ==
  ASSUME IInv, NEW m \in Numbers, runs[m].status = "done", NEW i \in Items
  PROVE  /\ runs[m].seen[i] # NotSeen => runs[m].truth[i] # "absent" /\ Last(runs[m].seen[i]) = runs[m].truth[i]
         /\ CollectionComplete(runs[m]) /\ runs[m].seen[i] = NotSeen => runs[m].truth[i] = "absent"
  BY DEF IInv, SeenIsTrue, Returns, CollectionComplete

LEMMA StatusIs ==
  ASSUME NEW events \in SUBSET (EventKinds \X Items), NEW complete \in BOOLEAN
  PROVE  /\ StatusOf(events, complete) \in {"changes_detected", "unknown", "no_meaningful_change"}
         /\ StatusOf(events, complete) = "no_meaningful_change" =>
              /\ complete
              /\ \A i \in Items : events \cap {<<"new", i>>, <<"changed", i>>, <<"not_observed", i>>, <<"unknown", i>>} = {}
<1>1. \A e \in events : e[1] \in Kinds(events)
  BY DEF Kinds
<1>2. \A i, kind : <<kind, i>> \in events => kind \in Kinds(events)
  BY <1>1
<1>3. StatusOf(events, complete) \in {"changes_detected", "unknown", "no_meaningful_change"}
  BY DEF StatusOf
<1>4. ASSUME StatusOf(events, complete) = "no_meaningful_change"
      PROVE  complete /\ Kinds(events) \cap Meaningful = {} /\ "unknown" \notin Kinds(events)
  BY <1>4 DEF StatusOf
<1> QED BY <1>2, <1>3, <1>4 DEF Meaningful

LEMMA Compared ==
  ASSUME CollectionsAssumption, IInv, NEW n \in Numbers, runs[n].status = "done"
  PROVE  LET set == Compare(runs, n)
             b == set.baseline
         IN /\ set \in ChangeSets /\ (b # 0 => runs[b].status = "done")
            /\ b # 0 /\ set.status # "baseline_incompatible" /\ ~runs[n].expired /\ ~runs[b].expired =>
                 /\ runs[b].scope = runs[n].scope
                 /\ \A i \in Items :
                      LET was == runs[b].truth[i]
                          is == runs[n].truth[i]
                      IN /\ <<"new", i>> \in set.events => was = "absent" /\ is # "absent"
                         /\ <<"not_observed", i>> \in set.events => was # "absent" /\ is = "absent"
                         /\ <<"changed", i>> \in set.events => was # is /\ "absent" \notin {was, is}
                         /\ set.status = "no_meaningful_change" /\ Covered(b, i) => was = is
<1> DEFINE set == Compare(runs, n)
           b == Baseline(runs, n)
           complete == CollectionComplete(runs[n])
           fromComplete == CollectionComplete(runs[b])
           events == Differences(ItemsOf(runs[b]), ItemsOf(runs[n]), fromComplete, complete)
<1>1. TypeOK /\ complete \in BOOLEAN /\ fromComplete \in BOOLEAN
  BY DEF IInv, CollectionComplete
<1>2. CASE b = 0
  <2>1. \/ set = [status |-> "baseline_established", baseline |-> 0, events |-> {}]
        \/ set = [status |-> "unknown", baseline |-> 0, events |-> {}]
    BY <1>2 DEF Compare, NoChangeSet
  <2>2. 0 \in 0 .. MaxRuns
    BY DEF CollectionsAssumption
  <2>3. set \in ChangeSets /\ set.baseline = 0
    BY <2>1, <2>2 DEF ChangeSets
  <2> HIDE DEF set
  <2> QED BY <2>3 DEF set
<1>3. ASSUME b # 0 PROVE b \in Numbers /\ b \in 0 .. MaxRuns /\ runs[b].status = "done"
  BY <1>1, <1>3, BaselineIsEarlier DEF Numbers
<1>4. CASE b # 0 /\ ~Comparable(runs[b], runs[n])
  <2>1. set = [status |-> "baseline_incompatible", baseline |-> b, events |-> {}]
    BY <1>4 DEF Compare, NoChangeSet
  <2> HIDE DEF set, b
  <2>2. set \in ChangeSets /\ set.baseline = b /\ set.status = "baseline_incompatible"
    BY <1>3, <1>4, <2>1 DEF ChangeSets
  <2> QED BY <1>3, <1>4, <2>2 DEF set
<1>5. CASE b # 0 /\ Comparable(runs[b], runs[n])
  <2>1. set = [status |-> StatusOf(events, complete), baseline |-> b, events |-> events]
    BY <1>5 DEF Compare
  <2>2. events \in SUBSET (EventKinds \X Items)
    BY <1>1, EventsAre
  <2>3. /\ StatusOf(events, complete) \in {"changes_detected", "unknown", "no_meaningful_change"}
        /\ StatusOf(events, complete) = "no_meaningful_change" =>
              /\ complete
              /\ \A i \in Items : events \cap {<<"new", i>>, <<"changed", i>>, <<"not_observed", i>>, <<"unknown", i>>} = {}
    <3> HIDE DEF events, complete
    <3> QED BY <1>1, <2>2, StatusIs
  <2>4. set \in ChangeSets /\ set.baseline = b /\ set.events = events /\ set.status = StatusOf(events, complete)
    <3> HIDE DEF events, complete, b, set
    <3> QED BY <1>3, <1>5, <2>1, <2>2, <2>3 DEF ChangeSets, EventKinds
  <2>5. runs[b].scope = runs[n].scope
    BY <1>5 DEF Comparable
  <2>6. ASSUME ~runs[n].expired, ~runs[b].expired, NEW i \in Items
        PROVE  LET was == runs[b].truth[i]
                   is == runs[n].truth[i]
               IN /\ <<"new", i>> \in events => was = "absent" /\ is # "absent"
                  /\ <<"not_observed", i>> \in events => was # "absent" /\ is = "absent"
                  /\ <<"changed", i>> \in events => was # is /\ "absent" \notin {was, is}
                  /\ StatusOf(events, complete) = "no_meaningful_change" /\ Covered(b, i) => was = is
    <3> DEFINE before == runs[b].seen[i]
               now == runs[n].seen[i]
    <3>1. ItemsOf(runs[b]) = runs[b].seen /\ ItemsOf(runs[n]) = runs[n].seen
      BY <2>6 DEF ItemsOf
    <3>2. /\ <<"new", i>> \in events <=> fromComplete /\ before = NotSeen /\ now # NotSeen
          /\ <<"unknown", i>> \in events <=> \/ ~fromComplete /\ before = NotSeen /\ now # NotSeen
                                             \/ ~complete /\ before # NotSeen /\ now = NotSeen
          /\ <<"not_observed", i>> \in events <=> complete /\ before # NotSeen /\ now = NotSeen
          /\ <<"changed", i>> \in events <=> before # NotSeen /\ now # NotSeen /\ Last(before) # Last(now)
      <4> DEFINE first == runs[b].seen
                 second == runs[n].seen
      <4>1. events = Differences(first, second, fromComplete, complete)
        BY <3>1
      <4>2. before = first[i] /\ now = second[i]
        OBVIOUS
      <4> HIDE DEF events, before, now, first, second, fromComplete, complete, b
      <4> QED BY SMTT(40), <1>1, <2>6, <4>1, <4>2, EventsAre
    <3>3. /\ before # NotSeen => runs[b].truth[i] # "absent" /\ Last(before) = runs[b].truth[i]
          /\ fromComplete /\ before = NotSeen => runs[b].truth[i] = "absent"
      BY <1>3, <1>5, CollectionsTell
    <3>4. /\ now # NotSeen => runs[n].truth[i] # "absent" /\ Last(now) = runs[n].truth[i]
          /\ complete /\ now = NotSeen => runs[n].truth[i] = "absent"
      BY CollectionsTell
    <3>5. Covered(b, i) <=> fromComplete \/ before # NotSeen
      BY DEF Covered
    <3> HIDE DEF before, now, events, complete, fromComplete, b
    <3> QED BY <2>3, <3>2, <3>3, <3>4, <3>5
  <2> HIDE DEF set, b, events, complete
  <2> QED BY <1>3, <1>5, <2>4, <2>5, <2>6 DEF set
<1> QED BY <1>2, <1>4, <1>5

-----------------------------------------------------------------------------
(* The steps.                                                              *)

\* What ended keeps what it returned, and nothing is compared.
SetsStay ==
  \A n \in Numbers :
    /\ runs'[n].set = runs[n].set /\ (runs[n].blind => runs'[n].blind)
    /\ runs[n].status = "done" =>
         /\ runs'[n].status = "done" /\ runs'[n].scope = runs[n].scope /\ runs'[n].end = runs[n].end
         /\ runs'[n].seen = runs[n].seen /\ runs'[n].truth = runs[n].truth
    /\ runs[n].status # "done" /\ runs'[n].status = "done" => runs'[n].seen \in Returns(runs'[n].truth, runs'[n].end)

LEMMA TruthStays ==
  ASSUME CollectionsAssumption, IInv, TypeOK', SetsStay
  PROVE  SeenIsTrue' /\ BaselineEnded' /\ ChangesAreTrue'
<1>1. SeenIsTrue'
  <2> SUFFICES ASSUME NEW n \in Numbers, runs'[n].status = "done"
               PROVE  runs'[n].seen \in Returns(runs'[n].truth, runs'[n].end)
    BY DEF SeenIsTrue, Returns
  <2> QED BY DEF SetsStay, IInv, SeenIsTrue
<1>2. \A n \in Numbers : runs[n].set.baseline \in 0 .. MaxRuns
  BY DEF IInv, TypeOK, RunRows, ChangeSets
<1>3. \A n \in Numbers : runs[n].set.baseline # 0 => runs[n].set.baseline \in Numbers /\ runs[n].status = "done"
  <2>1. \A k \in 0 .. MaxRuns : k # 0 => k \in Numbers
    BY DEF Numbers, CollectionsAssumption
  <2> QED BY <1>2, <2>1 DEF IInv, UnendedIsFresh, NoChangeSet
<1>4. BaselineEnded'
  BY <1>3 DEF IInv, BaselineEnded, SetsStay
<1>5. ChangesAreTrue'
  <2> SUFFICES ASSUME NEW n \in Numbers, ~runs'[n].blind PROVE TrueOf(n)'
    BY DEF ChangesAreTrue, TypeOK
  <2>1. ~runs[n].blind /\ runs'[n].set = runs[n].set
    BY DEF SetsStay
  <2>2. TrueOf(n)
    BY <2>1 DEF IInv, ChangesAreTrue, TypeOK
  <2>3. CASE runs[n].set.baseline = 0
    BY SMTT(40), <2>1, <2>3 DEF TrueOf
  <2>4. CASE runs[n].set.baseline # 0
    <3> DEFINE b == runs[n].set.baseline
    <3>1. b \in Numbers /\ runs[b].status = "done" /\ runs[n].status = "done"
      BY <1>3, <2>4 DEF IInv, BaselineEnded
    <3>2. /\ UNCHANGED <<runs[b].scope, runs[b].end, runs[b].seen, runs[b].truth>>
          /\ UNCHANGED <<runs[n].scope, runs[n].end, runs[n].seen, runs[n].truth>>
      BY <3>1 DEF SetsStay
    <3> QED BY <2>1, <2>2, <3>2 DEF TrueOf, Says, Covered, CollectionComplete
  <2> QED BY <2>3, <2>4
<1> QED BY <1>1, <1>4, <1>5

\* The plans hold after steps that remove nothing and lift no rule unnoticed.
LEMMA PlansStay ==
  ASSUME CollectionsAssumption, IInv, TypeOK', EndedStays, UNCHANGED worker,
         \A n \in Numbers : runs[n].status = "done" => runs'[n].files = runs[n].files,
         relaxed => relaxed', relaxed' \/ rules \subseteq rules',
         UNCHANGED <<import.present, import.files>>
  PROVE  NewestAreKept' /\ PlansHold' /\ HalfRemovedMayGo' /\ HalfRemovedImportIsDue'
<1>1. /\ Ended \subseteq Ended' /\ \A n \in Done : n \in Ended' => n \in Ended
      /\ \A n \in Ended : MayGo(n) => MayGo(n)'
      /\ NewestAreKept'
  BY PlansSurvive
<1>2. Done \subseteq Done'
  BY DEF Done, EndedStays
<1>3. PlansHold'
  <2> SUFFICES ASSUME NEW w \in Workers
      PROVE  /\ worker[w].runs \subseteq Done'
             /\ worker[w].step \in {"runs", "runs_gone"} => \A n \in worker[w].runs \cap Ended' : MayGo(n)'
             /\ worker[w].step = "runs_gone" => worker[w].held \subseteq worker[w].runs
             /\ worker[w].import => relaxed' \/ "imported" \in rules'
    BY DEF PlansHold
  <2>1. PlansHold
    BY DEF IInv
  <2> QED BY <1>1, <1>2, <2>1 DEF PlansHold
<1>4. HalfRemovedMayGo'
  <2> SUFFICES ASSUME NEW n \in Ended', ~runs'[n].files PROVE MayGo(n)'
    BY DEF HalfRemovedMayGo
  <2>1. n \in Numbers /\ runs'[n].status = "done"
    BY DEF Ended, TypeOK
  <2>2. runs[n].status = "done" /\ n \in Ended /\ ~runs[n].files
    BY <1>1, <2>1 DEF EndedStays, Done
  <2> QED BY <1>1, <2>2 DEF IInv, HalfRemovedMayGo
<1>5. HalfRemovedImportIsDue'
  BY DEF IInv, HalfRemovedImportIsDue
<1> QED BY <1>1, <1>3, <1>4, <1>5

\* Steps of executions, one row at a time.
LEMMA OneRow ==
  ASSUME IInv, NEW n \in Numbers, NEW row \in RunRows, runs' = [runs EXCEPT ![n] = row]
  PROVE  runs' \in [Numbers -> RunRows] /\ runs'[n] = row /\ \A m \in Numbers \ {n} : runs'[m] = runs[m]
  BY DEF IInv, TypeOK

LEMMA TypesStay ==
  ASSUME IInv, world' \in Worlds, runs' \in [Numbers -> RunRows], UNCHANGED <<import, ruleVars, jobs, worker>>
  PROVE  TypeOK'
  BY DEF IInv, TypeOK, ruleVars

LEMMA QueueStep == ASSUME CollectionsAssumption, IInv, NEW n \in Numbers, QueueRun(n) PROVE IInv'
<1>1. PICK scope \in Scopes : runs' = [runs EXCEPT ![n].status = "live", ![n].scope = scope]
  BY DEF QueueRun
<1> DEFINE row == [runs[n] EXCEPT !.status = "live", !.scope = scope]
<1>2. runs' = [runs EXCEPT ![n] = row] /\ UNCHANGED <<world, import, ruleVars, jobs, worker>> /\ runs[n].status = "none"
  BY <1>1 DEF QueueRun
<1>3. runs[n] \in RunRows
  BY DEF IInv, TypeOK
<1>4. /\ row \in RunRows /\ row.status = "live" /\ row.set = runs[n].set /\ row.blind = runs[n].blind
      /\ row.expired = runs[n].expired /\ row.old = runs[n].old /\ row.files = runs[n].files
  BY <1>3 DEF RunRows
<1> HIDE DEF row
<1>5. runs' \in [Numbers -> RunRows] /\ runs'[n] = row /\ \A m \in Numbers \ {n} : runs'[m] = runs[m]
  BY <1>2, <1>4, OneRow
<1>6. TypeOK'
  BY <1>2, <1>5, TypesStay DEF IInv, TypeOK
<1>7. UnendedIsFresh' /\ OldInOrder'
  <2>1. UnendedIsFresh'
    BY <1>2, <1>4, <1>5 DEF IInv, UnendedIsFresh
  <2>2. \A m \in Numbers : runs'[m].old = runs[m].old
    BY <1>4, <1>5
  <2>3. \A m \in Numbers : \A k \in 1 .. m - 1 : k \in Numbers
    BY DEF Numbers, CollectionsAssumption
  <2> QED BY <2>1, <2>2, <2>3 DEF IInv, OldInOrder
<1>8. EndedStays /\ SetsStay /\ \A m \in Numbers : runs[m].status = "done" => runs'[m].files = runs[m].files
  BY <1>2, <1>4, <1>5 DEF EndedStays, SetsStay
<1> QED BY <1>2, <1>6, <1>7, <1>8, PlansStay, TruthStays DEF IInv, ruleVars

LEMMA EndStep == ASSUME CollectionsAssumption, IInv, NEW n \in Numbers, EndRun(n) PROVE IInv'
<1> DEFINE truth == Visible(runs[n].scope)
<1>0. PICK end \in Ends : \E seen \in Returns(truth, end) :
        runs' = [runs EXCEPT ![n].status = "done", ![n].end = end, ![n].seen = seen, ![n].truth = truth]
  BY DEF EndRun
<1>1. PICK seen \in Returns(truth, end) :
        runs' = [runs EXCEPT ![n].status = "done", ![n].end = end, ![n].seen = seen, ![n].truth = truth]
  BY <1>0
<1>2. truth \in [Items -> Values \cup {"absent"}] /\ seen \in [Items -> Seen]
  BY DEF Visible, Returns, IInv, TypeOK, Worlds
<1> HIDE DEF truth
<1> DEFINE row == [runs[n] EXCEPT !.status = "done", !.end = end, !.seen = seen, !.truth = truth]
<1>3. runs' = [runs EXCEPT ![n] = row] /\ UNCHANGED <<world, import, ruleVars, jobs, worker>> /\ runs[n].status = "live"
  BY <1>1 DEF EndRun
<1>4. runs[n] \in RunRows
  BY DEF IInv, TypeOK
<1>5. /\ row \in RunRows /\ row.status = "done" /\ row.set = runs[n].set /\ row.blind = runs[n].blind
      /\ row.expired = runs[n].expired /\ row.old = runs[n].old /\ row.files = runs[n].files
      /\ row.seen = seen /\ row.truth = truth /\ row.end = end
  BY <1>2, <1>4 DEF RunRows
<1> HIDE DEF row
<1>6. runs' \in [Numbers -> RunRows] /\ runs'[n] = row /\ \A m \in Numbers \ {n} : runs'[m] = runs[m]
  BY <1>3, <1>5, OneRow
<1>7. TypeOK'
  BY <1>3, <1>6, TypesStay DEF IInv, TypeOK
<1>8. UnendedIsFresh' /\ OldInOrder'
  <2>1. UnendedIsFresh'
    BY <1>5, <1>6 DEF IInv, UnendedIsFresh
  <2>2. \A m \in Numbers : runs'[m].old = runs[m].old
    BY <1>5, <1>6
  <2>3. \A m \in Numbers : \A k \in 1 .. m - 1 : k \in Numbers
    BY DEF Numbers, CollectionsAssumption
  <2> QED BY <2>1, <2>2, <2>3 DEF IInv, OldInOrder
<1>9. EndedStays /\ SetsStay /\ \A m \in Numbers : runs[m].status = "done" => runs'[m].files = runs[m].files
  <2>1. ~runs[n].expired /\ runs[n].files
    BY <1>3 DEF IInv, UnendedIsFresh
  <2>2. EndedStays /\ \A m \in Numbers : runs[m].status = "done" => runs'[m].files = runs[m].files
    BY <1>3, <1>5, <1>6, <2>1 DEF EndedStays
  <2>3. SetsStay
    BY <1>1, <1>3, <1>5, <1>6 DEF SetsStay
  <2> QED BY <2>2, <2>3
<1> QED BY <1>3, <1>7, <1>8, <1>9, PlansStay, TruthStays DEF IInv, ruleVars

LEMMA AgeStep == ASSUME CollectionsAssumption, IInv, NEW n \in Numbers, Age(n) PROVE IInv'
<1> DEFINE row == [runs[n] EXCEPT !.old = TRUE]
<1>1. /\ runs' = [runs EXCEPT ![n] = row] /\ UNCHANGED <<world, import, ruleVars, jobs, worker>>
      /\ runs[n].status = "done" /\ \A m \in 1 .. n - 1 : runs[m].old
  BY DEF Age
<1>2. runs[n] \in RunRows
  BY DEF IInv, TypeOK
<1>3. /\ row \in RunRows /\ row.status = "done" /\ row.set = runs[n].set /\ row.blind = runs[n].blind
      /\ row.expired = runs[n].expired /\ row.old /\ row.files = runs[n].files /\ row.scope = runs[n].scope
      /\ row.seen = runs[n].seen /\ row.truth = runs[n].truth /\ row.end = runs[n].end
  BY <1>1, <1>2 DEF RunRows
<1> HIDE DEF row
<1>4. runs' \in [Numbers -> RunRows] /\ runs'[n] = row /\ \A m \in Numbers \ {n} : runs'[m] = runs[m]
  BY <1>1, <1>3, OneRow
<1>5. TypeOK'
  BY <1>1, <1>4, TypesStay DEF IInv, TypeOK
<1>6. UnendedIsFresh' /\ OldInOrder'
  <2>1. UnendedIsFresh'
    BY <1>3, <1>4 DEF IInv, UnendedIsFresh
  <2>2. \A m \in Numbers : runs[m].old => runs'[m].old
    BY <1>3, <1>4
  <2>3. \A m \in Numbers : \A k \in 1 .. m - 1 : k \in Numbers
    BY DEF Numbers, CollectionsAssumption
  <2>4. \A m \in Numbers : runs'[m].old => \A k \in 1 .. m - 1 : runs[k].old
    BY <1>1, <1>4 DEF IInv, OldInOrder
  <2> QED BY <2>1, <2>2, <2>3, <2>4 DEF OldInOrder
<1>7. EndedStays /\ SetsStay /\ \A m \in Numbers : runs[m].status = "done" => runs'[m].files = runs[m].files
  BY <1>1, <1>3, <1>4 DEF EndedStays, SetsStay
<1> QED BY <1>1, <1>5, <1>6, <1>7, PlansStay, TruthStays DEF IInv, ruleVars

LEMMA DetectStep == ASSUME CollectionsAssumption, IInv, NEW n \in Numbers, Detect(n) PROVE IInv'
<1> DEFINE set == Compare(runs, n)
           b == set.baseline
           blind == runs[n].expired \/ (b # 0 /\ runs[b].expired)
           row == [runs[n] EXCEPT !.set = set, !.blind = blind]
<1>1. runs' = [runs EXCEPT ![n] = row] /\ UNCHANGED <<world, import, ruleVars, jobs, worker>> /\ runs[n].status = "done"
  BY DEF Detect
<1>2. runs[n] \in RunRows /\ TypeOK
  BY DEF IInv, TypeOK
<1>3. /\ set \in ChangeSets /\ (b # 0 => runs[b].status = "done")
      /\ b # 0 /\ set.status # "baseline_incompatible" /\ ~runs[n].expired /\ ~runs[b].expired =>
           /\ runs[b].scope = runs[n].scope
           /\ \A i \in Items :
                LET was == runs[b].truth[i]
                    is == runs[n].truth[i]
                IN /\ <<"new", i>> \in set.events => was = "absent" /\ is # "absent"
                   /\ <<"not_observed", i>> \in set.events => was # "absent" /\ is = "absent"
                   /\ <<"changed", i>> \in set.events => was # is /\ "absent" \notin {was, is}
                   /\ set.status = "no_meaningful_change" /\ Covered(b, i) => was = is
  BY <1>1, Compared
<1>4. b \in 0 .. MaxRuns /\ (b # 0 => b \in Numbers)
  <2> HIDE DEF set
  <2> QED BY <1>3 DEF ChangeSets, Numbers, CollectionsAssumption
<1>5. blind \in BOOLEAN
  BY <1>2 DEF RunRows, TypeOK
<1> HIDE DEF set
<1>6. /\ row \in RunRows /\ row.status = "done" /\ row.set = set
      /\ row.expired = runs[n].expired /\ row.old = runs[n].old /\ row.files = runs[n].files /\ row.scope = runs[n].scope
      /\ row.seen = runs[n].seen /\ row.truth = runs[n].truth /\ row.end = runs[n].end
      /\ row.blind = blind
  <2> HIDE DEF blind
  <2> QED BY <1>1, <1>2, <1>3, <1>5 DEF RunRows
<1> HIDE DEF row
<1>7. runs' \in [Numbers -> RunRows] /\ runs'[n] = row /\ \A m \in Numbers \ {n} : runs'[m] = runs[m]
  BY <1>1, <1>6, OneRow
<1>8. TypeOK'
  BY <1>1, <1>7, TypesStay DEF IInv, TypeOK
<1>9. \A m \in Numbers :
        /\ runs'[m].status = runs[m].status /\ runs'[m].end = runs[m].end /\ runs'[m].scope = runs[m].scope
        /\ runs'[m].seen = runs[m].seen /\ runs'[m].truth = runs[m].truth /\ runs'[m].old = runs[m].old
        /\ runs'[m].expired = runs[m].expired /\ runs'[m].files = runs[m].files
  BY <1>1, <1>6, <1>7
<1>10. UnendedIsFresh' /\ OldInOrder' /\ SeenIsTrue'
  <2>1. UnendedIsFresh'
    BY <1>6, <1>7 DEF IInv, UnendedIsFresh
  <2>2. \A m \in Numbers : \A k \in 1 .. m - 1 : k \in Numbers
    BY DEF Numbers, CollectionsAssumption
  <2>3. OldInOrder'
    BY <1>9, <2>2 DEF IInv, OldInOrder
  <2>4. SeenIsTrue'
    <3> SUFFICES ASSUME NEW m \in Numbers, runs'[m].status = "done"
                 PROVE  runs'[m].seen \in Returns(runs'[m].truth, runs'[m].end)
      BY DEF SeenIsTrue, Returns
    <3> QED BY <1>9 DEF IInv, SeenIsTrue
  <2> QED BY <2>1, <2>3, <2>4
<1>11. EndedStays /\ \A m \in Numbers : runs[m].status = "done" => runs'[m].files = runs[m].files
  BY <1>9 DEF EndedStays
<1>12. BaselineEnded'
  <2>1. \A m \in Numbers : LET k == runs[m].set.baseline IN k # 0 => k \in Numbers /\ runs[k].status = "done"
    <3>1. \A m \in Numbers : runs[m].set.baseline \in 0 .. MaxRuns
      BY <1>2 DEF TypeOK, RunRows, ChangeSets
    <3>2. \A k \in 0 .. MaxRuns : k # 0 => k \in Numbers
      BY DEF Numbers, CollectionsAssumption
    <3> QED BY <3>1, <3>2 DEF IInv, BaselineEnded
  <2> SUFFICES ASSUME NEW m \in Numbers, runs'[m].set.baseline # 0 PROVE runs'[runs'[m].set.baseline].status = "done"
    BY DEF BaselineEnded
  <2>2. CASE m = n
    BY <1>3, <1>4, <1>6, <1>7, <1>9, <2>2
  <2>3. CASE m # n
    BY <1>7, <1>9, <2>1, <2>3
  <2> QED BY <2>2, <2>3
<1>13. ChangesAreTrue'
  <2> SUFFICES ASSUME NEW m \in Numbers, ~runs'[m].blind PROVE TrueOf(m)'
    BY <1>8 DEF ChangesAreTrue, TypeOK
  <2>1. CASE m = n
    <3>1. runs'[n].set = set /\ ~blind
      BY <1>6, <1>7, <2>1
    <3>2. CASE b = 0
      BY <2>1, <3>1, <3>2 DEF TrueOf
    <3>3. CASE b # 0
      <4>1. b \in Numbers
        BY <1>4, <3>3
      <4>2. /\ runs'[b].truth = runs[b].truth /\ runs'[b].scope = runs[b].scope
            /\ runs'[b].seen = runs[b].seen /\ runs'[b].end = runs[b].end
            /\ runs'[n].truth = runs[n].truth /\ runs'[n].scope = runs[n].scope
        BY <1>9, <4>1
      <4>3. ~runs[n].expired /\ ~runs[b].expired
        BY <3>1, <3>3
      <4> SUFFICES ASSUME set.status # "baseline_incompatible"
                   PROVE  /\ runs[b].scope = runs[n].scope
                          /\ \A i \in Items :
                               /\ <<"new", i>> \in set.events => runs[b].truth[i] = "absent" /\ runs[n].truth[i] # "absent"
                               /\ <<"not_observed", i>> \in set.events =>
                                    runs[b].truth[i] # "absent" /\ runs[n].truth[i] = "absent"
                               /\ <<"changed", i>> \in set.events =>
                                    /\ runs[b].truth[i] # runs[n].truth[i]
                                    /\ "absent" \notin {runs[b].truth[i], runs[n].truth[i]}
                               /\ set.status = "no_meaningful_change" /\ Covered(b, i) => runs[b].truth[i] = runs[n].truth[i]
        BY <2>1, <3>1, <4>2 DEF TrueOf, Says, Covered, CollectionComplete
      <4> QED BY <1>3, <3>3, <4>3
    <3> QED BY <3>2, <3>3
  <2>2. CASE m # n
    <3> DEFINE k == runs[m].set.baseline
    <3>1. runs'[m].set = runs[m].set /\ TrueOf(m)
      BY <1>2, <1>7, <2>2 DEF IInv, ChangesAreTrue, TypeOK
    <3>2. CASE k = 0
      BY <3>1, <3>2 DEF TrueOf
    <3>3. CASE k # 0
      <4>1. k \in Numbers
        <5>1. k \in 0 .. MaxRuns
          BY <1>2 DEF TypeOK, RunRows, ChangeSets
        <5> HIDE DEF k
        <5> QED BY <3>3, <5>1 DEF Numbers, CollectionsAssumption
      <4>2. /\ runs'[k].truth = runs[k].truth /\ runs'[k].scope = runs[k].scope
            /\ runs'[k].seen = runs[k].seen /\ runs'[k].end = runs[k].end
            /\ runs'[m].truth = runs[m].truth /\ runs'[m].scope = runs[m].scope
        BY <1>9, <4>1
      <4> DEFINE s == runs[m].set
                 Fits == /\ runs[k].scope = runs[m].scope
                         /\ \A i \in Items :
                              /\ <<"new", i>> \in s.events => runs[k].truth[i] = "absent" /\ runs[m].truth[i] # "absent"
                              /\ <<"not_observed", i>> \in s.events =>
                                   runs[k].truth[i] # "absent" /\ runs[m].truth[i] = "absent"
                              /\ <<"changed", i>> \in s.events =>
                                   /\ runs[k].truth[i] # runs[m].truth[i]
                                   /\ "absent" \notin {runs[k].truth[i], runs[m].truth[i]}
                              /\ s.status = "no_meaningful_change" /\ (runs[k].end = "complete" \/ runs[k].seen[i] # NotSeen) =>
                                   runs[k].truth[i] = runs[m].truth[i]
      <4>3. k = s.baseline /\ runs'[m].set = s
        BY <3>1
      <4>4. k # 0 /\ s.status # "baseline_incompatible" => Fits
        BY <3>1, Zenon DEF TrueOf, Says, Covered, CollectionComplete
      <4> HIDE DEF k, s
      <4> SUFFICES ASSUME s.status # "baseline_incompatible" PROVE Fits
        BY <4>2, <4>3 DEF TrueOf, Says, Covered, CollectionComplete
      <4> QED BY <3>3, <4>4, Zenon
    <3> QED BY <3>2, <3>3
  <2> QED BY <2>1, <2>2
<1> QED BY <1>1, <1>8, <1>10, <1>11, <1>12, <1>13, PlansStay DEF IInv, ruleVars

\* Requests of analysts, the source, the import, and the rows of the jobs.
LEMMA AroundStep ==
  ASSUME CollectionsAssumption, IInv,
         \/ WorldChanges \/ ProcessImport \/ SetRules \/ CloseCase
         \/ \E j \in Jobs : EnqueueJob(j) \/ LeaseExpires(j)
  PROVE  IInv'
<1>1. UNCHANGED <<runs, worker, import.present, import.files>>
  <2>1. CASE ProcessImport
    <3>1. import \in [present : BOOLEAN, files : BOOLEAN, use : {"none", "waiting", "running"}]
      BY DEF IInv, TypeOK
    <3> QED BY <2>1, <3>1 DEF ProcessImport, sourceVars
  <2>2. CASE WorldChanges \/ SetRules \/ CloseCase \/ \E j \in Jobs : EnqueueJob(j) \/ LeaseExpires(j)
    BY <2>2 DEF WorldChanges, SetRules, CloseCase, EnqueueJob, LeaseExpires, sourceVars
  <2> QED BY <2>1, <2>2
<1>2. (relaxed => relaxed') /\ (relaxed' \/ rules \subseteq rules') /\ relaxed' \in BOOLEAN /\ rules' \in SUBSET Rules /\ caseOpen' \in BOOLEAN
  <2>1. CASE SetRules
    BY <2>1 DEF SetRules, IInv, TypeOK
  <2>2. CASE CloseCase
    BY <2>2 DEF CloseCase, IInv, TypeOK
  <2>3. CASE WorldChanges \/ ProcessImport \/ \E j \in Jobs : EnqueueJob(j) \/ LeaseExpires(j)
    BY <2>3 DEF WorldChanges, ProcessImport, EnqueueJob, LeaseExpires, ruleVars, IInv, TypeOK
  <2> QED BY <2>1, <2>2, <2>3
<1>3. world' \in Worlds /\ import' \in [present : BOOLEAN, files : BOOLEAN, use : {"none", "waiting", "running"}]
  <2>1. CASE ProcessImport
    <3> DEFINE use == CASE import.use = "none" -> "waiting" [] import.use = "waiting" -> "running" [] OTHER -> "none"
    <3>1. import' = [import EXCEPT !.use = use] /\ world' = world
      BY <2>1 DEF ProcessImport, sourceVars
    <3>2. use \in {"none", "waiting", "running"}
      OBVIOUS
    <3> HIDE DEF use
    <3> QED BY <3>1, <3>2 DEF IInv, TypeOK
  <2>2. CASE WorldChanges \/ SetRules \/ CloseCase \/ \E j \in Jobs : EnqueueJob(j) \/ LeaseExpires(j)
    BY <2>2 DEF WorldChanges, SetRules, CloseCase, EnqueueJob, LeaseExpires, sourceVars, IInv, TypeOK
  <2> QED BY <2>1, <2>2
<1>4. jobs' \in [Jobs -> JobRows]
  <2>1. jobs \in [Jobs -> JobRows]
    BY DEF IInv, TypeOK
  <2>2. ASSUME NEW j \in Jobs, EnqueueJob(j) \/ LeaseExpires(j) PROVE jobs' \in [Jobs -> JobRows]
    <3>1. [jobs[j] EXCEPT !.status = "queued"] \in JobRows /\ [jobs[j] EXCEPT !.lapsed = TRUE] \in JobRows
      BY <2>1 DEF JobRows
    <3>2. \/ jobs' = [jobs EXCEPT ![j] = [jobs[j] EXCEPT !.status = "queued"]]
          \/ jobs' = [jobs EXCEPT ![j] = [jobs[j] EXCEPT !.lapsed = TRUE]]
      BY <2>2 DEF EnqueueJob, LeaseExpires
    <3> QED BY <2>1, <3>1, <3>2
  <2>3. CASE WorldChanges \/ ProcessImport \/ SetRules \/ CloseCase
    BY <2>1, <2>3 DEF WorldChanges, ProcessImport, SetRules, CloseCase
  <2> QED BY <2>2, <2>3
<1>5. TypeOK'
  BY <1>1, <1>2, <1>3, <1>4 DEF IInv, TypeOK
<1>6. EndedStays /\ SetsStay
  BY <1>1 DEF EndedStays, SetsStay
<1>7. UnendedIsFresh' /\ OldInOrder'
  BY <1>1 DEF IInv, UnendedIsFresh, OldInOrder
<1> QED BY <1>1, <1>2, <1>5, <1>6, <1>7, PlansStay, TruthStays DEF IInv

\* A worker moves, and the executions and rules stay.
LEMMA WorkerMoves ==
  ASSUME CollectionsAssumption, IInv, UNCHANGED <<world, runs, ruleVars>>,
         NEW w \in Workers, NEW task \in Tasks, worker' = [worker EXCEPT ![w] = task],
         import' \in [present : BOOLEAN, files : BOOLEAN, use : {"none", "waiting", "running"}],
         jobs' \in [Jobs -> JobRows], HalfRemovedImportIsDue',
         task.runs \subseteq Done,
         task.step \in {"runs", "runs_gone"} => \A n \in task.runs \cap Ended : MayGo(n),
         task.step = "runs_gone" => task.held \subseteq task.runs,
         task.import => relaxed \/ "imported" \in rules
  PROVE  IInv'
<1>1. UNCHANGED <<rules, relaxed, caseOpen>>
  BY DEF ruleVars
<1>2. TypeOK'
  BY <1>1 DEF IInv, TypeOK
<1>3. Ended' = Ended /\ Done' = Done /\ BaselineRuns' = BaselineRuns /\ Candidates' = Candidates
  BY <1>1 DEF Ended, Done, BaselineRuns, Candidates
<1>4. \A n : MayGo(n)' <=> MayGo(n)
  BY <1>1, <1>3 DEF MayGo
<1>5. PlansHold'
  <2> SUFFICES ASSUME NEW v \in Workers
      PROVE  /\ worker'[v].runs \subseteq Done
             /\ worker'[v].step \in {"runs", "runs_gone"} => \A n \in worker'[v].runs \cap Ended : MayGo(n)
             /\ worker'[v].step = "runs_gone" => worker'[v].held \subseteq worker'[v].runs
             /\ worker'[v].import => relaxed \/ "imported" \in rules
    BY <1>1, <1>3, <1>4 DEF PlansHold
  <2>1. CASE v = w
    BY <2>1 DEF IInv, TypeOK
  <2>2. CASE v # w
    BY <2>2 DEF IInv, TypeOK, PlansHold
  <2> QED BY <2>1, <2>2
<1>6. NewestAreKept' /\ HalfRemovedMayGo' /\ UnendedIsFresh' /\ OldInOrder'
  BY <1>3, <1>4 DEF IInv, NewestAreKept, HalfRemovedMayGo, UnendedIsFresh, OldInOrder, WithPages, Complete
<1>7. SetsStay
  BY DEF SetsStay
<1> QED BY <1>2, <1>5, <1>6, <1>7, TruthStays DEF IInv

LEMMA JobRow ==
  ASSUME IInv, NEW j, NEW status \in {"queued", "running", "completed"},
         jobs' = [jobs EXCEPT ![j] = [status |-> status, lapsed |-> FALSE]]
  PROVE  jobs' \in [Jobs -> JobRows]
  BY DEF IInv, TypeOK, JobRows

\* A worker that is idle planned nothing.
LEMMA IdleTask ==
  ASSUME CollectionsAssumption, IInv, UNCHANGED <<world, runs, ruleVars, import>>, NEW w \in Workers,
         worker' = [worker EXCEPT ![w] = Idle], jobs' \in [Jobs -> JobRows]
  PROVE  IInv'
<1>1. Idle \in Tasks /\ Idle.runs = {} /\ Idle.step = "idle" /\ ~Idle.import
  BY DEF Idle, Tasks
<1>2. HalfRemovedImportIsDue' /\ import \in [present : BOOLEAN, files : BOOLEAN, use : {"none", "waiting", "running"}]
  BY DEF IInv, HalfRemovedImportIsDue, ruleVars, TypeOK
<1> HIDE DEF Idle
<1> QED BY <1>1, <1>2, WorkerMoves

LEMMA ClaimStep == ASSUME CollectionsAssumption, IInv, NEW w \in Workers, NEW j \in Jobs, Claim(w, j) PROVE IInv'
<1> DEFINE task == [Idle EXCEPT !.step = "plan", !.job = j]
<1>1. task \in Tasks /\ task.runs = {} /\ task.step = "plan" /\ ~task.import
  BY DEF Idle, Tasks
<1>2. worker' = [worker EXCEPT ![w] = task] /\ UNCHANGED <<world, runs, ruleVars, import>>
  BY DEF Claim, sourceVars
<1>3. jobs' \in [Jobs -> JobRows]
  BY JobRow DEF Claim
<1>4. HalfRemovedImportIsDue' /\ import' \in [present : BOOLEAN, files : BOOLEAN, use : {"none", "waiting", "running"}]
  BY <1>2 DEF IInv, HalfRemovedImportIsDue, ruleVars, TypeOK
<1> HIDE DEF task
<1> QED BY <1>1, <1>2, <1>3, <1>4, WorkerMoves

\* A worker goes on with the plan it has.
LEMMA GoesOn ==
  ASSUME CollectionsAssumption, IInv, UNCHANGED <<world, runs, ruleVars, jobs>>, NEW w \in Workers,
         NEW step \in {"import", "import_gone", "finish"}, NEW held \in SUBSET (Numbers \cup {Import}),
         \/ worker' = [worker EXCEPT ![w].step = step]
         \/ worker' = [worker EXCEPT ![w].step = step, ![w].held = held],
         import' \in [present : BOOLEAN, files : BOOLEAN, use : {"none", "waiting", "running"}],
         HalfRemovedImportIsDue'
  PROVE  IInv'
<1>1. worker[w] \in Tasks /\ worker[w].runs \subseteq Done /\ (worker[w].import => relaxed \/ "imported" \in rules)
  BY DEF IInv, TypeOK, PlansHold
<1> DEFINE first == [worker[w] EXCEPT !.step = step]
           second == [worker[w] EXCEPT !.step = step, !.held = held]
<1>2. worker' = [worker EXCEPT ![w] = first] \/ worker' = [worker EXCEPT ![w] = second]
  OBVIOUS
<1>3. /\ first \in Tasks /\ first.step = step /\ first.runs = worker[w].runs /\ first.import = worker[w].import
      /\ second \in Tasks /\ second.step = step /\ second.runs = worker[w].runs /\ second.import = worker[w].import
  BY <1>1 DEF Tasks
<1>4. jobs' \in [Jobs -> JobRows]
  BY DEF IInv, TypeOK
<1> HIDE DEF first, second
<1>5. CASE worker' = [worker EXCEPT ![w] = first]
  BY <1>1, <1>3, <1>4, <1>5, WorkerMoves
<1>6. CASE worker' = [worker EXCEPT ![w] = second]
  BY <1>1, <1>3, <1>4, <1>6, WorkerMoves
<1> QED BY <1>2, <1>5, <1>6

LEMMA PlanStep == ASSUME CollectionsAssumption, IInv, NEW w \in Workers, Plan(w) PROVE IInv'
<1>1. UNCHANGED <<world, runs, ruleVars, import>>
  BY DEF Plan, sourceVars
<1>2. HalfRemovedImportIsDue' /\ import' \in [present : BOOLEAN, files : BOOLEAN, use : {"none", "waiting", "running"}]
  BY <1>1 DEF IInv, HalfRemovedImportIsDue, ruleVars, TypeOK
<1>3. CASE Goes(w, "finish") /\ UNCHANGED jobs
  BY <1>1, <1>2, <1>3, GoesOn DEF Goes
<1>4. CASE worker' = [worker EXCEPT ![w] = Idle] /\ jobs' = [jobs EXCEPT ![worker[w].job] = [status |-> "queued", lapsed |-> FALSE]]
  BY <1>1, <1>4, JobRow, IdleTask
<1>5. CASE /\ worker' = [worker EXCEPT ![w].step = "runs", ![w].runs = PlannedRuns, ![w].import = PlannedImport]
           /\ UNCHANGED jobs
  <2> DEFINE task == [worker[w] EXCEPT !.step = "runs", !.runs = PlannedRuns, !.import = PlannedImport]
  <2>1. worker[w] \in Tasks /\ jobs' \in [Jobs -> JobRows]
    BY <1>5 DEF IInv, TypeOK
  <2>2. PlannedRuns \subseteq Done /\ PlannedRuns \in SUBSET Numbers /\ \A n \in PlannedRuns : MayGo(n)
    BY DEF PlannedRuns, Candidates, Ended, Done, MayGo, IInv, TypeOK
  <2>3. PlannedImport \in BOOLEAN /\ (PlannedImport => "imported" \in rules)
    BY DEF PlannedImport, IInv, TypeOK
  <2>4. task \in Tasks /\ task.step = "runs" /\ task.runs = PlannedRuns /\ task.import = PlannedImport
    <3> DEFINE planned == PlannedRuns
               import0 == PlannedImport
    <3>1. planned \in SUBSET Numbers /\ import0 \in BOOLEAN
      BY <2>2, <2>3
    <3> HIDE DEF planned, import0
    <3>2. [worker[w] EXCEPT !.step = "runs", !.runs = planned, !.import = import0] \in Tasks
      BY <2>1, <3>1 DEF Tasks
    <3> QED BY <2>1, <3>2 DEF planned, import0, Tasks
  <2>5. worker' = [worker EXCEPT ![w] = task]
    BY <1>5
  <2> HIDE DEF task
  <2> QED BY <1>1, <1>2, <2>1, <2>2, <2>3, <2>4, <2>5, WorkerMoves
<1> QED BY <1>3, <1>4, <1>5 DEF Plan

LEMMA ImportStep ==
  ASSUME CollectionsAssumption, IInv, NEW w \in Workers, RemoveImportFiles(w) \/ RemoveImport(w) PROVE IInv'
<1>1. UNCHANGED <<world, runs, ruleVars, jobs>>
  BY DEF RemoveImportFiles, RemoveImport, sourceVars
<1>2. import \in [present : BOOLEAN, files : BOOLEAN, use : {"none", "waiting", "running"}] /\ HalfRemovedImportIsDue
  BY DEF IInv, TypeOK
<1>3. UNCHANGED <<rules, relaxed>>
  BY <1>1 DEF ruleVars
<1>4. {Import} \in SUBSET (Numbers \cup {Import}) /\ {} \in SUBSET (Numbers \cup {Import})
  OBVIOUS
<1>5. CASE RemoveImportFiles(w)
  <2>1. CASE /\ import' = [import EXCEPT !.files = FALSE] /\ worker[w].import
             /\ worker' = [worker EXCEPT ![w].step = "import_gone", ![w].held = {Import}]
    <3>1. relaxed \/ "imported" \in rules
      BY <2>1 DEF IInv, PlansHold
    <3>2. import' \in [present : BOOLEAN, files : BOOLEAN, use : {"none", "waiting", "running"}] /\ HalfRemovedImportIsDue'
      BY <1>2, <1>3, <2>1, <3>1 DEF HalfRemovedImportIsDue
    <3> QED BY <1>1, <1>4, <2>1, <3>2, GoesOn
  <2>2. CASE Goes(w, "finish") /\ UNCHANGED import
    <3>1. HalfRemovedImportIsDue'
      BY <1>2, <1>3, <2>2 DEF HalfRemovedImportIsDue
    <3> QED BY <1>1, <1>2, <1>4, <2>2, <3>1, GoesOn DEF Goes
  <2> QED BY <1>5, <2>1, <2>2 DEF RemoveImportFiles
<1>6. CASE RemoveImport(w)
  <2>1. import' = [import EXCEPT !.present = FALSE] /\ worker' = [worker EXCEPT ![w].step = "finish", ![w].held = {}]
    BY <1>6 DEF RemoveImport
  <2>2. import' \in [present : BOOLEAN, files : BOOLEAN, use : {"none", "waiting", "running"}] /\ HalfRemovedImportIsDue'
    BY <1>2, <2>1 DEF HalfRemovedImportIsDue
  <2> QED BY <1>1, <1>4, <2>1, <2>2, GoesOn
<1> QED BY <1>5, <1>6

LEMMA EndsStep ==
  ASSUME CollectionsAssumption, IInv, NEW w \in Workers, Finish(w) \/ Crash(w) PROVE IInv'
<1>1. UNCHANGED <<world, runs, ruleVars, import>> /\ worker' = [worker EXCEPT ![w] = Idle]
  BY DEF Finish, Crash, sourceVars
<1>2. jobs' \in [Jobs -> JobRows]
  BY JobRow DEF Finish, Crash, IInv, TypeOK
<1> QED BY <1>1, <1>2, IdleTask

\* What a transaction removes the files of was planned.
LEMMA RemoveFilesStep == ASSUME CollectionsAssumption, IInv, NEW w \in Workers, RemoveFiles(w) PROVE IInv'
<1> DEFINE batch == (worker[w].runs \cap Ended) \ Held
           task == [worker[w] EXCEPT !.step = "runs_gone", !.held = batch]
           Row(n) == IF n \in batch /\ HasPages(runs[n]) THEN [runs[n] EXCEPT !.files = FALSE] ELSE runs[n]
<1>1. /\ UNCHANGED <<world, import, ruleVars, jobs, rules, relaxed, caseOpen>> /\ worker[w].step = "runs"
      /\ worker' = [worker EXCEPT ![w] = task]
  BY DEF RemoveFiles, ruleVars
<1>2. worker[w] \in Tasks /\ worker[w].runs \subseteq Done /\ Done \subseteq Numbers /\ runs \in [Numbers -> RunRows]
  BY DEF IInv, TypeOK, PlansHold, Done
<1>3. \A n \in batch : n \in Ended /\ MayGo(n) /\ n \in worker[w].runs
  BY <1>1 DEF IInv, PlansHold
<1>4. batch \subseteq worker[w].runs /\ batch \in SUBSET (Numbers \cup {Import})
  BY <1>2, <1>3
<1>5. runs' = [n \in Numbers |-> Row(n)]
  BY <1>2 DEF RemoveFiles
<1> HIDE DEF batch
<1>6. /\ task \in Tasks /\ task.step = "runs_gone" /\ task.held = batch
      /\ task.runs = worker[w].runs /\ task.import = worker[w].import
  BY <1>2, <1>4 DEF Tasks
<1>7. \A n \in Numbers :
        /\ Row(n) \in RunRows /\ Row(n).status = runs[n].status /\ Row(n).end = runs[n].end /\ Row(n).scope = runs[n].scope
        /\ Row(n).seen = runs[n].seen /\ Row(n).truth = runs[n].truth /\ Row(n).old = runs[n].old
        /\ Row(n).expired = runs[n].expired /\ Row(n).set = runs[n].set /\ Row(n).blind = runs[n].blind
        /\ ~Row(n).files => n \in batch \/ ~runs[n].files
  BY ZenonT(60), <1>2 DEF RunRows
<1> HIDE DEF Row, task
<1>8. runs' \in [Numbers -> RunRows] /\ \A n \in Numbers : runs'[n] = Row(n)
  BY <1>5, <1>7
<1>9. TypeOK'
  BY <1>1, <1>2, <1>6, <1>8 DEF IInv, TypeOK
<1>10. EndedStays /\ SetsStay
  <2>1. \A n \in Numbers : runs'[n].status = runs[n].status
    BY <1>7, <1>8
  <2> QED BY <1>7, <1>8, <2>1 DEF EndedStays, SetsStay
<1>11. /\ Ended' = Ended /\ Done' = Done
       /\ \A n \in Ended : MayGo(n) => MayGo(n)'
       /\ NewestAreKept'
  <2>1. Done' = Done
    BY <1>7, <1>8 DEF Done
  <2>2. Ended' = Ended
    <3>1. DOMAIN runs' = Numbers /\ DOMAIN runs = Numbers
      BY <1>2, <1>8
    <3> QED BY <1>7, <1>8, <3>1 DEF Ended
  <2> QED BY <1>1, <1>9, <1>10, <2>1, <2>2, PlansSurvive
<1>12. PlansHold'
  <2> SUFFICES ASSUME NEW v \in Workers
      PROVE  /\ worker'[v].runs \subseteq Done'
             /\ worker'[v].step \in {"runs", "runs_gone"} => \A n \in worker'[v].runs \cap Ended' : MayGo(n)'
             /\ worker'[v].step = "runs_gone" => worker'[v].held \subseteq worker'[v].runs
             /\ worker'[v].import => relaxed' \/ "imported" \in rules'
    BY DEF PlansHold
  <2>0. worker \in [Workers -> Tasks] /\ PlansHold
    BY DEF IInv, TypeOK
  <2>1. CASE v = w
    <3>1. worker'[v] = task
      BY <1>1, <2>0, <2>1
    <3>2. /\ \A n \in worker[w].runs \cap Ended : MayGo(n)
          /\ worker[w].import => relaxed \/ "imported" \in rules
      BY <1>1, <2>0 DEF PlansHold
    <3> QED BY <1>1, <1>2, <1>4, <1>6, <1>11, <3>1, <3>2
  <2>2. CASE v # w
    <3>1. worker'[v] = worker[v]
      BY <1>1, <2>0, <2>2
    <3> QED BY <1>1, <1>11, <2>0, <3>1 DEF PlansHold
  <2> QED BY <2>1, <2>2
<1>13. HalfRemovedMayGo'
  <2> SUFFICES ASSUME NEW n \in Ended, ~runs'[n].files PROVE MayGo(n)'
    BY <1>11 DEF HalfRemovedMayGo
  <2>1. n \in Numbers
    BY <1>2 DEF Ended
  <2>2. n \in batch \/ ~runs[n].files
    BY <1>7, <1>8, <2>1
  <2>3. MayGo(n)
    BY <1>3, <2>2 DEF IInv, HalfRemovedMayGo
  <2> QED BY <1>11, <2>3
<1>14. UnendedIsFresh' /\ OldInOrder' /\ HalfRemovedImportIsDue'
  <2>1. UnendedIsFresh'
    <3>1. \A n \in Numbers : n \in batch => runs[n].status = "done"
      BY <1>3 DEF Ended
    <3> QED BY <1>7, <1>8, <3>1 DEF IInv, UnendedIsFresh
  <2>2. \A m \in Numbers : \A k \in 1 .. m - 1 : k \in Numbers
    BY DEF Numbers, CollectionsAssumption
  <2>3. OldInOrder'
    BY <1>7, <1>8, <2>2 DEF IInv, OldInOrder
  <2> QED BY <1>1, <2>1, <2>3 DEF IInv, HalfRemovedImportIsDue
<1> QED BY <1>9, <1>10, <1>11, <1>12, <1>13, <1>14, TruthStays DEF IInv

\* A run whose observations retention removed is the same run.
LEMMA Expired ==
  ASSUME NEW row \in RunRows
  PROVE  LET gone == [row EXCEPT !.expired = TRUE]
         IN /\ gone \in RunRows /\ gone.status = row.status /\ gone.end = row.end /\ gone.scope = row.scope
            /\ gone.seen = row.seen /\ gone.truth = row.truth /\ gone.old = row.old /\ gone.files = row.files
            /\ gone.set = row.set /\ gone.blind = row.blind
BY DEF RunRows

\* The transaction commits; the plans and the half removed of the others may still go.
LEMMA RemoveRowsStep == ASSUME CollectionsAssumption, IInv, NEW w \in Workers, RemoveRows(w) PROVE IInv'
<1> DEFINE gone == worker[w].held
           task == [worker[w] EXCEPT !.step = "import", !.held = {}]
           Row(n) == IF n \in gone THEN [runs[n] EXCEPT !.expired = TRUE] ELSE runs[n]
<1>1. /\ UNCHANGED <<world, import, ruleVars, jobs, rules, relaxed, caseOpen>> /\ worker[w].step = "runs_gone"
      /\ worker' = [worker EXCEPT ![w] = task]
  BY DEF RemoveRows, ruleVars
<1>2. worker[w] \in Tasks /\ worker[w].runs \subseteq Done /\ gone \subseteq worker[w].runs /\ runs \in [Numbers -> RunRows]
  BY <1>1 DEF IInv, TypeOK, PlansHold
<1>3. runs' = [n \in Numbers |-> Row(n)]
  BY <1>2 DEF RemoveRows
<1>4. task \in Tasks /\ task.step = "import" /\ task.runs = worker[w].runs /\ task.import = worker[w].import
  BY <1>2 DEF Tasks
<1> HIDE DEF gone
<1>5. \A n \in Numbers :
        /\ Row(n) \in RunRows /\ Row(n).status = runs[n].status /\ Row(n).end = runs[n].end /\ Row(n).scope = runs[n].scope
        /\ Row(n).seen = runs[n].seen /\ Row(n).truth = runs[n].truth /\ Row(n).old = runs[n].old
        /\ Row(n).files = runs[n].files /\ Row(n).set = runs[n].set /\ Row(n).blind = runs[n].blind
        /\ n \notin gone => Row(n) = runs[n]
  <2> SUFFICES ASSUME NEW n \in Numbers
               PROVE  /\ Row(n) \in RunRows /\ Row(n).status = runs[n].status /\ Row(n).end = runs[n].end
                      /\ Row(n).scope = runs[n].scope /\ Row(n).seen = runs[n].seen /\ Row(n).truth = runs[n].truth
                      /\ Row(n).old = runs[n].old /\ Row(n).files = runs[n].files /\ Row(n).set = runs[n].set
                      /\ Row(n).blind = runs[n].blind /\ (n \notin gone => Row(n) = runs[n])
    BY Zenon
  <2>1. runs[n] \in RunRows
    BY <1>2
  <2>2. CASE n \in gone
    <3>1. Row(n) = [runs[n] EXCEPT !.expired = TRUE]
      BY <2>2, Zenon
    <3> QED BY <2>1, <2>2, <3>1, Expired
  <2>3. CASE n \notin gone
    <3>1. Row(n) = runs[n]
      BY <2>3, Zenon
    <3> HIDE DEF Row
    <3> QED BY <2>1, <3>1, Zenon
  <2> QED BY <2>2, <2>3, Zenon
<1> HIDE DEF Row, task
<1>6. runs' \in [Numbers -> RunRows] /\ \A n \in Numbers : runs'[n] = Row(n)
  BY <1>3, <1>5
<1>7. TypeOK'
  BY <1>1, <1>2, <1>4, <1>6 DEF IInv, TypeOK
<1>8. Ended' \subseteq Ended /\ (\A n \in Ended' : MayGo(n) => MayGo(n)') /\ NewestAreKept'
  BY <1>7, RemovedRows
<1>9. Done' = Done /\ SetsStay
  <2>1. Done' = Done
    BY <1>5, <1>6 DEF Done
  <2>2. \A n \in Numbers : runs'[n].status = runs[n].status
    BY <1>5, <1>6
  <2> QED BY <1>5, <1>6, <2>1, <2>2 DEF SetsStay
<1>10. PlansHold'
  <2> SUFFICES ASSUME NEW v \in Workers
      PROVE  /\ worker'[v].runs \subseteq Done'
             /\ worker'[v].step \in {"runs", "runs_gone"} => \A n \in worker'[v].runs \cap Ended' : MayGo(n)'
             /\ worker'[v].step = "runs_gone" => worker'[v].held \subseteq worker'[v].runs
             /\ worker'[v].import => relaxed' \/ "imported" \in rules'
    BY DEF PlansHold
  <2>0. worker \in [Workers -> Tasks] /\ PlansHold
    BY DEF IInv, TypeOK
  <2>1. CASE v = w
    <3>1. worker'[v] = task
      BY <1>1, <2>0, <2>1
    <3>2. worker[w].import => relaxed \/ "imported" \in rules
      BY <2>0 DEF PlansHold
    <3> QED BY <1>1, <1>2, <1>4, <1>9, <3>1, <3>2
  <2>2. CASE v # w
    <3>1. worker'[v] = worker[v]
      BY <1>1, <2>0, <2>2
    <3> QED BY <1>1, <1>8, <1>9, <2>0, <3>1 DEF PlansHold
  <2> QED BY <2>1, <2>2
<1>11. HalfRemovedMayGo'
  <2> SUFFICES ASSUME NEW n \in Ended', ~runs'[n].files PROVE MayGo(n)'
    BY DEF HalfRemovedMayGo
  <2>1. n \in Ended /\ n \in Numbers
    BY <1>2, <1>8 DEF Ended
  <2>2. MayGo(n)
    BY <1>5, <1>6, <2>1 DEF IInv, HalfRemovedMayGo
  <2> QED BY <1>8, <2>2
<1>12. UnendedIsFresh' /\ OldInOrder' /\ HalfRemovedImportIsDue'
  <2>1. UnendedIsFresh'
    <3>1. \A n \in gone : runs[n].status = "done"
      BY <1>2 DEF Done
    <3> QED BY <1>5, <1>6, <3>1 DEF IInv, UnendedIsFresh
  <2>2. \A m \in Numbers : \A k \in 1 .. m - 1 : k \in Numbers
    BY DEF Numbers, CollectionsAssumption
  <2>3. OldInOrder'
    BY <1>5, <1>6, <2>2 DEF IInv, OldInOrder
  <2> QED BY <1>1, <2>1, <2>3 DEF IInv, HalfRemovedImportIsDue
<1> QED BY <1>7, <1>8, <1>9, <1>10, <1>11, <1>12, TruthStays DEF IInv

LEMMA IInvInit == ASSUME CollectionsAssumption, Init PROVE IInv
<1>1. NoChangeSet \in ChangeSets
  BY DEF NoChangeSet, ChangeSets, CollectionsAssumption
<1>2. NoRun \in RunRows
  BY <1>1 DEF NoRun, RunRows, Ends, Seen, CollectionsAssumption
<1>3. Idle \in Tasks
  BY DEF Idle, Tasks
<1>4. TypeOK
  <2>1. jobs \in [Jobs -> JobRows]
    BY DEF Init, JobRows
  <2> QED BY <1>2, <1>3, <2>1 DEF Init, TypeOK, Numbers
<1>5. \A n \in Numbers : runs[n] = NoRun
  BY DEF Init, Numbers
<1>6. Done = {} /\ Ended = {}
  BY <1>4, <1>5 DEF Done, Ended, TypeOK, NoRun
<1>7. NewestAreKept /\ HalfRemovedMayGo
  BY <1>6 DEF NewestAreKept, HalfRemovedMayGo
<1>8. UnendedIsFresh /\ OldInOrder /\ SeenIsTrue /\ BaselineEnded
  BY <1>5 DEF UnendedIsFresh, OldInOrder, SeenIsTrue, BaselineEnded, NoRun, NoChangeSet
<1>9. PlansHold
  BY DEF Init, PlansHold, Idle
<1>10. HalfRemovedImportIsDue
  BY DEF Init, HalfRemovedImportIsDue
<1>11. ChangesAreTrue
  BY <1>4, <1>5 DEF ChangesAreTrue, TrueOf, NoRun, NoChangeSet, TypeOK
<1> QED BY <1>4, <1>7, <1>8, <1>9, <1>10, <1>11 DEF IInv

LEMMA StutterStep == ASSUME CollectionsAssumption, IInv, UNCHANGED vars PROVE IInv'
<1>1. UNCHANGED <<world, runs, import, rules, caseOpen, relaxed, jobs, worker>>
  BY DEF vars, sourceVars, ruleVars
<1>2. TypeOK' /\ EndedStays /\ SetsStay /\ UnendedIsFresh' /\ OldInOrder'
  BY <1>1 DEF IInv, TypeOK, EndedStays, SetsStay, UnendedIsFresh, OldInOrder
<1> QED BY <1>1, <1>2, PlansStay, TruthStays DEF IInv

\* IInv is inductive.
LEMMA IInvStep == ASSUME CollectionsAssumption, IInv, [Next]_vars PROVE IInv'
<1>1. DOMAIN runs = Numbers
  BY DEF IInv, TypeOK
<1>2. ASSUME NEW n \in Numbers, QueueRun(n) \/ EndRun(n) \/ Detect(n) \/ Age(n) PROVE IInv'
  BY <1>2, QueueStep, EndStep, DetectStep, AgeStep
<1>3. ASSUME NEW w \in Workers, WorkerStep(w) \/ Crash(w) PROVE IInv'
  BY <1>3, PlanStep, RemoveFilesStep, RemoveRowsStep, ImportStep, EndsStep DEF WorkerStep
<1> QED BY <1>1, <1>2, <1>3, AroundStep, ClaimStep, StutterStep DEF Next

\* No import is removed from under its job: the processing jobs are counted under the lock of the import.
LEMMA UsedImportsStay == ASSUME IInv, [Next]_vars, import'.files # import.files PROVE import.use = "none"
<1>1. import \in [present : BOOLEAN, files : BOOLEAN, use : {"none", "waiting", "running"}]
  BY DEF IInv, TypeOK
<1>2. ASSUME NEW w \in Workers, RemoveImport(w) PROVE FALSE
  BY <1>1, <1>2 DEF RemoveImport
<1>3. ~ProcessImport
  BY SMTT(40), <1>1 DEF ProcessImport
<1>4. PICK w \in Workers : RemoveImportFiles(w)
  BY <1>2, <1>3 DEF Next, WorkerStep, WorldChanges, SetRules, CloseCase, QueueRun, EndRun, Detect, Age, EnqueueJob,
     LeaseExpires, Claim, Plan, RemoveFiles, RemoveRows, Finish, Crash, vars
<1> QED BY <1>4 DEF RemoveImportFiles, ImportUnused

LEMMA Invariance == CollectionsAssumption /\ Spec => []IInv
<1>1. CollectionsAssumption /\ Init => IInv
  BY IInvInit
<1>2. CollectionsAssumption /\ IInv /\ [Next]_vars => IInv'
  BY IInvStep
<1>3. CASE CollectionsAssumption
  BY <1>1, <1>2, <1>3, PTL DEF Spec
<1>4. CASE ~CollectionsAssumption
  BY <1>4, PTL
<1> QED BY <1>3, <1>4

-----------------------------------------------------------------------------
(* The theorems.                                                           *)

\* Retention never removes the newest collection with data nor the newest complete one, however many
\* workers plan and remove at the same time.
THEOREM BaselinesAreAlwaysKept == CollectionsAssumption /\ Spec => []BaselinesAreKept
<1>1. CollectionsAssumption /\ IInv => BaselinesAreKept
  BY KeptBaselines DEF IInv, CollectionsAssumption
<1>2. CASE CollectionsAssumption
  BY <1>1, <1>2, Invariance, PTL
<1>3. CASE ~CollectionsAssumption
  BY <1>3, PTL
<1> QED BY <1>2, <1>3

\* Results and imports that lost their files stay due until a job removes their rows, unless a rule was
\* lifted: whatever else expires, ends or becomes old meanwhile.
THEOREM HalfRemovedIsAlwaysDue ==
  CollectionsAssumption /\ Spec => [](HalfRemovedIsDue /\ HalfRemovedImportIsDue)
<1>1. IInv => HalfRemovedIsDue /\ HalfRemovedImportIsDue
  BY DEF IInv, HalfRemovedMayGo, HalfRemovedIsDue, MayGo, PlannedRuns
<1> QED BY <1>1, Invariance, PTL

\* What a change set says of an item is true of the source, in whatever order executions end, expire
\* and are compared.
THEOREM ChangesAreAlwaysTrue == CollectionsAssumption /\ Spec => []ChangesAreTrue
<1>1. IInv => ChangesAreTrue
  BY DEF IInv
<1> QED BY <1>1, Invariance, PTL

\* An import is not removed from under the job that processes it.
THEOREM ImportsInUseAlwaysStay == CollectionsAssumption /\ Spec => [][ImportsInUseStay]_vars
<1>1. IInv /\ [Next]_vars => [ImportsInUseStay]_vars
  BY UsedImportsStay DEF ImportsInUseStay
<1> QED BY <1>1, Invariance, PTL DEF Spec
================================================================================
