------------------------------- MODULE Comparison -------------------------------
(***************************************************************************)
(* How one collection of a saved query by a connector is compared with the *)
(* earlier ones: which of them is the baseline, and what the difference of *)
(* the items is called.                                                    *)
(***************************************************************************)
EXTENDS Integers, FiniteSetsExt

CONSTANTS
  Items,        \* what the source can return, by type and identifier
  Values,       \* what is compared of an item, without counters and bookkeeping
  SearchLimit   \* BASELINE_SEARCH_LIMIT

NotSeen == <<>>
\* An item is returned once or, by a source that contradicts itself, with another value before.
Seen == {NotSeen} \cup (Values \X Values)
Last(seen) == seen[2]

\* How a collection ends: complete; stopped early with a page at least; without any page.
Ends == {"complete", "stopped", "failed"}
CollectionComplete(run) == run.end = "complete"
HasPages(run) == run.end \in {"complete", "stopped"}

\* What the observations of a collection say now: nothing, once retention removed them.
ItemsOf(run) == IF run.expired THEN [i \in Items |-> NotSeen] ELSE run.seen

-----------------------------------------------------------------------------
Comparable(run, other) == run.scope = other.scope

\* Earlier usable collections, at most SearchLimit of them, of which there is a newest.
Earlier(runs, n) ==
  LET usable == {m \in DOMAIN runs : m < n /\ runs[m].status = "done" /\ HasPages(runs[m])}
  IN {m \in usable : Cardinality({k \in usable : k > m}) < SearchLimit}

\* The newest complete one that no collection with another scope hides, or else the newest; or none.
Baseline(runs, n) ==
  LET earlier == Earlier(runs, n)
      complete == {m \in earlier :
        CollectionComplete(runs[m]) /\ \A k \in earlier : k >= m => Comparable(runs[k], runs[n])}
  IN IF earlier = {} THEN 0 ELSE Max(IF complete = {} THEN earlier ELSE complete)

\* Mutant: what an incomplete collection does not return is gone.
DifferencesOfAny(before, now, fromComplete, complete) ==
  {<<"new", i>> : i \in {j \in Items : before[j] = NotSeen /\ now[j] # NotSeen}}
  \cup {<<"not_observed", i>> : i \in {j \in Items : before[j] # NotSeen /\ now[j] = NotSeen}}

\* The events of compare_connector_run.
Differences(before, now, fromComplete, complete) ==
  LET Of(kind, Is(_)) == {<<kind, i>> : i \in {j \in Items : Is(j)}}
      Appeared(i) == before[i] = NotSeen /\ now[i] # NotSeen
      Vanished(i) == before[i] # NotSeen /\ now[i] = NotSeen
      Changed(i) == before[i] # NotSeen /\ now[i] # NotSeen /\ Last(before[i]) # Last(now[i])
      Conflicting(i) == now[i] # NotSeen /\ now[i][1] # now[i][2]
  IN Of(IF fromComplete THEN "new" ELSE "unknown", Appeared)
     \cup Of("changed", Changed) \cup Of("conflicting", Conflicting)
     \cup Of(IF complete THEN "not_observed" ELSE "unknown", Vanished)

Kinds(events) == {event[1] : event \in events}
Meaningful == {"new", "changed", "not_observed", "conflicting"}

StatusOf(events, complete) ==
  CASE Kinds(events) \cap Meaningful # {} -> "changes_detected"
    [] Kinds(events) \cap Meaningful = {} /\ (~complete \/ "unknown" \in Kinds(events)) -> "unknown"
    [] OTHER -> "no_meaningful_change"

NoChangeSet == [status |-> "none", baseline |-> 0, events |-> {}]

\* compare_connector_run.
Compare(runs, n) ==
  LET run == runs[n]
      b == Baseline(runs, n)
      complete == CollectionComplete(run)
  IN CASE b = 0 ->
            [NoChangeSet EXCEPT !.status = IF HasPages(run) THEN "baseline_established" ELSE "unknown"]
       [] b # 0 /\ ~Comparable(runs[b], run) ->
            [NoChangeSet EXCEPT !.status = "baseline_incompatible", !.baseline = b]
       [] OTHER ->
            LET events == Differences(ItemsOf(runs[b]), ItemsOf(run), CollectionComplete(runs[b]), complete)
            IN [status |-> StatusOf(events, complete), baseline |-> b, events |-> events]
================================================================================
