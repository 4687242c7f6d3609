--------------------------------- MODULE MCWork ---------------------------------
(***************************************************************************)
(* The work that several workers or requests do on one row or one case,    *)
(* each part of it on its own: `part` is chosen at the start, and the      *)
(* variables of the other parts are not used.                              *)
(***************************************************************************)
EXTENDS Naturals, FiniteSets, Sequences, TLC

CONSTANTS
  Workers, Users, Parts, MaxFaults, MaxEdits,
  MaxAttempts, MaxEmits, MaxJobs,      \* deliveries and jobs
  Importers, Deletions, First,         \* the files of a case
  MaxRequests                          \* accounts

VARIABLES
  part,
  outbox, inbox, worker, faults, edits, caseOpen,
  destination, subscribed, delivery, emits,
  kind, original, access, job, rows, files, left,
  caseStatus, pending, young, importer, run, removal, deletion, scan, broken,
  account, member, request,
  case, answer, imports

Deliveries == INSTANCE Deliveries
Jobs == INSTANCE ProcessingJobs
Files == INSTANCE CaseFiles
Accounts == INSTANCE Accounts

ASSUME WorkAssumption ==
  Deliveries!DeliveriesAssumption /\ Jobs!ProcessingAssumption /\ Files!CaseFilesAssumption

-----------------------------------------------------------------------------
(* The bundles and the entities an analyst has.                            *)

None == "none"
Foreign(n) == <<"foreign", n>>
Blank(n) == [sid |-> Foreign(n), kind |-> "account", flaw |-> None, plat |-> None, uid |-> None, login |-> None,
             value |-> None, refs |-> {}, source |-> <<>>, target |-> <<>>]
Account(n, plat, uid, login) == [Blank(n) EXCEPT !.plat = plat, !.uid = uid, !.login = login]
Named(n, what, value) == [Blank(n) EXCEPT !.kind = what, !.value = value]
Flawed(n, flaw) == [Blank(n) EXCEPT !.flaw = flaw]
Related(n, from, to) == [Blank(n) EXCEPT !.kind = "relationship", !.source = Foreign(from), !.target = Foreign(to)]
Observed(n, refs) == [Blank(n) EXCEPT !.kind = "observed", !.refs = {Foreign(r) : r \in refs}]
Bundle(name, objects) == [name |-> name, broken |-> FALSE, objects |-> objects]

Bundles == {
  Bundle("same login", <<Account("a", "p", "1", "x"), Account("b", "p", "2", "x"), Related("r", "a", "b")>>),
  Bundle("same account", <<Account("c", "p", "1", "y"), Account("a", "p", "1", "x"), Named("o", "observable", "v"),
                           Related("s", "o", "a"), Related("r", "a", "o")>>),
  Bundle("observations", <<Account("d", "q", None, "x"), Named("g", "organization", "n"), Observed("w", {"d", "g"}),
                           Related("t", "d", "g"), Flawed("u", "unsupported_type")>>),
  Bundle("skipped", <<Account("e", None, "1", None), [Blank("i") EXCEPT !.kind = "individual"],
                      [Blank("z") EXCEPT !.kind = "extension"], Named("o", "observable", "v"),
                      Related("t", "e", "o"), Related("t2", "e", "i")>>),
  [Bundle("broken", <<>>) EXCEPT !.broken = TRUE]}

Entry(what, plat, uid, login, value) == [kind |-> what, plat |-> plat, uid |-> uid, login |-> login, value |-> value]
Entries == {Entry("account", "p", "1", "x", None), Entry("account", "q", None, "x", None),
            Entry("observable", None, None, None, "v")}

Exchange == INSTANCE StixExchange
  WITH Cases <- {"here", "there"}, ImportObjects <- 6, ExportObjects <- 8, MaxImports <- 2

-----------------------------------------------------------------------------
outboxVars == <<outbox, inbox>>
deliveryVars == <<destination, subscribed, delivery, emits>>
jobVars == <<kind, original, access, job>>
caseVars == <<caseStatus, pending, young, importer, run, removal, deletion, scan, broken>>
accountVars == <<account, member, request>>
exchangeVars == <<case, answer, imports>>
vars == <<part, outboxVars, worker, faults, edits, caseOpen, deliveryVars, jobVars, rows, files, left,
          caseVars, accountVars, exchangeVars>>

\* What the parts that were not chosen have.
NoOutbox == outbox = None /\ inbox = None
NoDelivery == destination = None /\ subscribed = None /\ delivery = None /\ emits = None
NoJob == kind = None /\ original = None /\ access = None /\ job = None
NoRecords == rows = None /\ files = None /\ left = None
NoCase ==
  /\ caseStatus = None /\ pending = None /\ young = None /\ importer = None /\ run = None
  /\ removal = None /\ deletion = None /\ scan = None /\ broken = None
NoAccounts == account = None /\ member = None /\ request = None
NoExchange == case = None /\ answer = None /\ imports = None

Is(p) == part = p /\ UNCHANGED part

Init ==
  /\ part \in Parts
  /\ \/ part = "deliveries" /\ Deliveries!Init
        /\ NoJob /\ NoRecords /\ NoCase /\ NoAccounts /\ NoExchange
     \/ part = "jobs" /\ Jobs!Init
        /\ edits = None /\ NoDelivery /\ NoCase /\ NoAccounts /\ NoExchange
     \/ part = "files" /\ Files!Init
        /\ NoOutbox /\ edits = None /\ caseOpen = None /\ NoDelivery /\ NoJob /\ NoAccounts /\ NoExchange
     \/ part = "accounts" /\ Accounts!Init
        /\ NoOutbox /\ worker = None /\ faults = None /\ edits = None /\ caseOpen = None /\ NoRecords
        /\ NoDelivery /\ NoJob /\ NoCase /\ NoExchange
     \/ part = "exchange" /\ Exchange!Init
        /\ NoOutbox /\ worker = None /\ faults = None /\ caseOpen = None /\ NoRecords
        /\ NoDelivery /\ NoJob /\ NoCase /\ NoAccounts

NextDeliveries ==
  /\ Is("deliveries") /\ Deliveries!Next
  /\ UNCHANGED <<jobVars, rows, files, left, caseVars, accountVars, exchangeVars>>
NextJobs ==
  /\ Is("jobs") /\ Jobs!Next
  /\ UNCHANGED <<edits, deliveryVars, caseVars, accountVars, exchangeVars>>
NextFiles ==
  /\ Is("files") /\ Files!Next
  /\ UNCHANGED <<outboxVars, edits, caseOpen, deliveryVars, jobVars, accountVars, exchangeVars>>
NextAccounts ==
  /\ Is("accounts") /\ Accounts!Next
  /\ UNCHANGED <<outboxVars, worker, faults, edits, caseOpen, rows, files, left, deliveryVars, jobVars, caseVars, exchangeVars>>
NextExchange ==
  /\ Is("exchange") /\ Exchange!Next
  /\ UNCHANGED <<outboxVars, worker, faults, caseOpen, rows, files, left, deliveryVars, jobVars, caseVars, accountVars>>

Next == NextDeliveries \/ NextJobs \/ NextFiles \/ NextAccounts \/ NextExchange

Spec == Init /\ [][Next]_vars

Symmetry == Permutations(Workers)

-----------------------------------------------------------------------------
\* The outcome of a delivery is final, whatever a worker does whose lease ended while it waited.
EndedDeliveriesStay == [][part = "deliveries" => Deliveries!EndedDeliveriesStay]_vars

\* The records of an original are those of one attempt, each with its file, and no attempt leaves files
\* behind, whatever dies, is retried, canceled, started again or deleted meanwhile.
RecordsAreWhole == part = "jobs" => Jobs!RecordsAreWhole /\ Jobs!NothingIsLeftBehind

\* A completed deletion left no record and no file of the case, whatever was imported, collected,
\* restored or reconciled while it worked.
CompletedMeansGone == part = "files" => Files!CompletedMeansGone

\* While nobody deletes the case every record has its file: failed imports, late workers and the
\* reconciliation take none away.
RecordsHaveFiles == part = "files" => Files!RecordsHaveFiles

\* An installation that was set up keeps an active administrator.
AdministratorRemains == part = "accounts" => Accounts!AdministratorRemains

\* What an import adds is imported, unreviewed and merged only with the same account; an export refers
\* to what it exports, says nothing an analyst rejected, and survives an import into another case.
ExchangeIsHonest ==
  /\ [][part = "exchange" => Exchange!ImportsAreHonest]_vars
  /\ [](part = "exchange" => Exchange!ExportIsSelective /\ Exchange!RoundTripKeeps)
=================================================================================
