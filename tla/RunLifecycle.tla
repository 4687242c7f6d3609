----------------------------- MODULE RunLifecycle -----------------------------
(***************************************************************************)
(* What the workspace promises an analyst about the query runs of a case,  *)
(* without workers, leases, messages or the dispatcher: a run is executed  *)
(* as if one worker did it once, keeps its pages in the order of the       *)
(* source, ends exactly once and then never changes.  QueryRuns implements *)
(* this specification (QueryRuns!ImplementsLifecycle).                     *)
(***************************************************************************)
EXTENDS Naturals, Sequences

CONSTANTS
  Runs,
  Connectors,
  SourcePages   \* pages of the source behind each connector

VARIABLES
  phase,        \* "none", "waiting", "working" or "over"
  result,       \* how the run ended, "none" before
  kept,         \* the pages kept, per connector
  stopPending   \* a stop was asked for and the run has not ended yet

vars == <<phase, result, kept, stopPending>>

Results == {"completed", "partial", "failed", "canceled"}

Init ==
  /\ phase = [r \in Runs |-> "none"]
  /\ result = [r \in Runs |-> "none"]
  /\ kept = [r \in Runs |-> [c \in Connectors |-> <<>>]]
  /\ stopPending = [r \in Runs |-> FALSE]

Submit(r) ==
  /\ phase[r] = "none"
  /\ phase' = [phase EXCEPT ![r] = "waiting"]
  /\ UNCHANGED <<result, kept, stopPending>>

Begin(r) ==
  /\ phase[r] = "waiting"
  /\ phase' = [phase EXCEPT ![r] = "working"]
  /\ UNCHANGED <<result, kept, stopPending>>

\* The page after the last one kept, or the first page of the source again.
KeepPage(r, c) ==
  /\ phase[r] = "working"
  /\ kept' = [kept EXCEPT ![r][c] = Append(@, Len(@) % SourcePages[c])]
  /\ UNCHANGED <<phase, result, stopPending>>

\* Several runs may be stopped at once, when their case is deleted.  Those that wait end.
AskStop(S) ==
  /\ S # {}
  /\ \A r \in S : phase[r] \in {"waiting", "working"}
  /\ phase' = [r \in Runs |-> IF r \in S /\ phase[r] = "waiting" THEN "over" ELSE phase[r]]
  /\ result' = [r \in Runs |-> IF r \in S /\ phase[r] = "waiting" THEN "canceled" ELSE result[r]]
  /\ stopPending' = [r \in Runs |-> IF r \in S THEN phase[r] = "working" ELSE stopPending[r]]
  /\ UNCHANGED kept

\* A run that was asked to stop ends canceled, a completed one has kept every page.
End(r, outcome) ==
  /\ phase[r] = "working"
  /\ stopPending[r] => outcome = "canceled"
  /\ outcome = "completed" => \A c \in Connectors : Len(kept[r][c]) >= SourcePages[c]
  /\ phase' = [phase EXCEPT ![r] = "over"]
  /\ result' = [result EXCEPT ![r] = outcome]
  /\ stopPending' = [stopPending EXCEPT ![r] = FALSE]
  /\ UNCHANGED kept

Next ==
  \/ \E r \in Runs : Submit(r) \/ Begin(r)
  \/ \E r \in Runs, c \in Connectors : KeepPage(r, c)
  \/ \E S \in SUBSET Runs : AskStop(S)
  \/ \E r \in Runs, outcome \in Results : End(r, outcome)

Spec == Init /\ [][Next]_vars
=============================================================================
