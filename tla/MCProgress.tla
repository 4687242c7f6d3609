------------------------------- MODULE MCProgress -------------------------------
(***************************************************************************)
(* Work that is sent through the outbox ends: deliveries, processing jobs, *)
(* the index of the evidence and requests to the AI, each on its own.      *)
(***************************************************************************)
EXTENDS Naturals

CONSTANTS Workers, Parts, r1

VARIABLES
  part,
  outbox, inbox, worker, faults, edits, caseOpen,
  destination, subscribed, delivery, emits,
  kind, original, access, job, rows, files, left,
  mode, model, active, state, chunks,
  caseStatus, policy, airun, answers, loaded, changed, overtaken

Deliveries == INSTANCE Deliveries WITH MaxAttempts <- 2, MaxEmits <- 1, MaxFaults <- 1, MaxEdits <- 1
Jobs == INSTANCE ProcessingJobs WITH MaxAttempts <- 2, MaxJobs <- 1, MaxFaults <- 1
Indexing == INSTANCE EvidenceIndexing WITH Records <- {r1}, MaxAttempts <- 2, MaxModels <- 1, MaxFaults <- 1, MaxEdits <- 1
Answers == INSTANCE AiRuns WITH MaxClaims <- 2, MaxTries <- 2, MaxFaults <- 1, MaxEdits <- 0

deliveryVars == <<destination, subscribed, delivery, emits>>
jobVars == <<original, job, rows, files, left>>
indexVars == <<mode, model, active, state, chunks>>
answerVars == <<caseStatus, policy, airun, answers, loaded, changed, overtaken>>
vars == <<part, outbox, inbox, worker, faults, edits, caseOpen, kind, access, deliveryVars, jobVars, indexVars, answerVars>>

None == "none"
NoDelivery == destination = None /\ subscribed = None /\ delivery = None /\ emits = None
NoJob == original = None /\ job = None /\ rows = None /\ files = None /\ left = None
NoIndex == mode = None /\ model = None /\ active = None /\ state = None /\ chunks = None
NoAnswers ==
  /\ caseStatus = None /\ policy = None /\ airun = None
  /\ answers = None /\ loaded = None /\ changed = None /\ overtaken = None

Init ==
  /\ part \in Parts
  /\ \/ part = "deliveries" /\ Deliveries!Init
        /\ kind = None /\ access = None /\ NoJob /\ NoIndex /\ NoAnswers
     \/ part = "jobs" /\ Jobs!Init
        /\ edits = None /\ NoDelivery /\ NoIndex /\ NoAnswers
     \/ part = "indexing" /\ Indexing!Init
        /\ kind = None /\ access = None /\ NoDelivery /\ NoJob /\ NoAnswers
     \/ part = "answers" /\ Answers!Init
        /\ caseOpen = None /\ NoDelivery /\ NoJob /\ NoIndex

\* A step of one part leaves the variables of the others alone.
Is(p) == part = p /\ UNCHANGED part
DeliveryStep(A) == Is("deliveries") /\ A /\ UNCHANGED <<kind, access, jobVars, indexVars, answerVars>>
JobStep(A) == Is("jobs") /\ A /\ UNCHANGED <<edits, deliveryVars, indexVars, answerVars>>
IndexStep(A) == Is("indexing") /\ A /\ UNCHANGED <<kind, access, deliveryVars, jobVars, answerVars>>
AnswerStep(A) == Is("answers") /\ A /\ UNCHANGED <<caseOpen, deliveryVars, jobVars, indexVars>>

Next ==
  \/ DeliveryStep(Deliveries!Next)
  \/ JobStep(Jobs!Next)
  \/ IndexStep(Indexing!Next)
  \/ AnswerStep(Answers!Next)

\* A behaviour has one part, so that one fairness condition serves them all.
\* The dispatcher goes on, and not every message is lost.
DispatchAgain ==
  \/ DeliveryStep(Deliveries!DispatchAgain) \/ JobStep(Jobs!DispatchAgain)
  \/ IndexStep(Indexing!PublishAgain) \/ AnswerStep(Answers!DispatchAgain)
\* A message that waits is taken.
Take ==
  \E w \in Workers :
    \/ DeliveryStep(Deliveries!Receive(w)) \/ JobStep(Jobs!Claim(w))
    \/ IndexStep(Indexing!Begin(w)) \/ AnswerStep(Answers!Claim(w))
\* Leases and delays end, and the scheduler looks for records to index.
Expire ==
  \/ DeliveryStep(Deliveries!LeaseExpires) \/ JobStep(Jobs!LeaseExpires)
  \/ IndexStep(Indexing!LeaseExpires(r1)) \/ AnswerStep(Answers!LeaseExpires)
BecomeDue == DeliveryStep(Deliveries!BecomesDue) \/ IndexStep(Indexing!BecomesDue(r1))
Schedule == IndexStep(Indexing!ScheduleIndexWork)
\* A worker that lives goes on.
WorkerStep(w) ==
  \/ DeliveryStep(Deliveries!WorkerStep(w)) \/ JobStep(Jobs!WorkerStep(w))
  \/ IndexStep(Indexing!WorkerStep(w)) \/ AnswerStep(Answers!WorkerStep(w))

Fairness ==
  /\ SF_vars(DispatchAgain) /\ SF_vars(Take)
  /\ WF_vars(Expire) /\ WF_vars(BecomeDue) /\ WF_vars(Schedule)
  /\ \A w \in Workers : WF_vars(WorkerStep(w))

Spec == Init /\ [][Next]_vars /\ Fairness

-----------------------------------------------------------------------------
Waiting ==
  \/ part = "deliveries" /\ delivery.status = "pending"
  \/ part = "jobs" /\ job.status \in {"queued", "running"}
  \/ part = "indexing" /\ state[r1].status \in {"pending", "indexing"} /\ Indexing!Allowed
  \/ part = "answers" /\ airun.status \in {"queued", "running"}

\* What was queued ends, asks an analyst, or is called off, although messages are lost, workers die,
\* leases end too early and errors repeat.
WorkEnds == Waiting ~> ~Waiting
=================================================================================
