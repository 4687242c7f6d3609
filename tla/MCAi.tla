---------------------------------- MODULE MCAi ----------------------------------
(***************************************************************************)
(* What workers do with collected data over minutes while analysts change  *)
(* their mind: the index of the evidence, the answers of a model, the      *)
(* comparison of executions and the removal of old ones.  Each part is on  *)
(* its own; the variables of the other parts are not used.  In one part    *)
(* the rules are asked by which a model is given tools and its answer is   *)
(* checked: one question, with small inputs.                               *)
(***************************************************************************)
EXTENDS Integers, Sequences, FiniteSets, TLC

CONSTANTS
  Workers, Parts, MaxFaults, MaxEdits,
  Records, MaxAttempts, MaxModels,               \* the index
  MaxClaims, MaxTries,                           \* answers
  MaxCalls, MaxRows,                             \* the tools of an answer
  MaxStatements, Passages, Results, NoAttribute, \* and what it may state
  Items, Values, Scopes, SearchLimit, MaxRuns,   \* executions that are compared
  RetainedRuns, Jobs, KeepLast, MaxRuleEdits     \* and those that are removed

VARIABLES
  part,
  outbox, inbox, worker, faults, edits, caseOpen,
  mode, model, active, state, chunks,
  caseStatus, policy, access, kind, airun, answers, loaded, changed, overtaken,
  world, runs, import, rules, jobs, relaxed,
  asked

Indexing == INSTANCE EvidenceIndexing
Answers == INSTANCE AiRuns
Search == INSTANCE CaseSearch
  WITH RrfK <- 2, Common <- 420, PerRecord <- 1, PerRetriever <- 4, TopK <- 2, LoadFactor <- 2, Version <- 1, NoProfile <- 0
Validation == INSTANCE AnswerValidation WITH MaxClaims <- MaxStatements

\* Collections_proofs is Collections and its theorems.  Here nothing expires.
Changes == INSTANCE Collections_proofs WITH Jobs <- {}, Rules <- {}, KeepLast <- 1, MaxEdits <- 0
\* Workers at jobs that remove executions; what these returned does not matter.
Retention == INSTANCE Collections_proofs
  WITH Items <- {}, Scopes <- {1}, MaxRuns <- RetainedRuns, Rules <- {"collected", "keep_last"},
       MaxEdits <- MaxRuleEdits
\* The same for an import.
Imports == INSTANCE Collections_proofs
  WITH Items <- {}, Scopes <- {1}, MaxRuns <- 1, Rules <- {"collected", "imported"}, MaxEdits <- MaxRuleEdits

ASSUME IndexAssumption == Indexing!IndexingAssumption
ASSUME AnswersAssumption == Answers!AiRunsAssumption
ASSUME SearchAssumption == Search!SearchAssumption
ASSUME ValidationAssumption == Validation!ValidationAssumption
ASSUME ExecutionsAssumption ==
  Changes!CollectionsAssumption /\ Retention!CollectionsAssumption /\ Imports!CollectionsAssumption

indexVars == <<mode, model, active, state, chunks>>
answerVars == <<caseStatus, policy, access, kind, airun, answers, loaded, changed, overtaken>>
collectionVars == <<world, runs, import, rules, jobs, relaxed>>
vars == <<part, outbox, inbox, worker, faults, edits, caseOpen, indexVars, answerVars, collectionVars, asked>>

None == "none"
NoOutbox == outbox = None /\ inbox = None
NoIndex == mode = None /\ model = None /\ active = None /\ state = None /\ chunks = None
NoAnswers ==
  /\ caseStatus = None /\ policy = None /\ access = None /\ kind = None /\ airun = None
  /\ answers = None /\ loaded = None /\ changed = None /\ overtaken = None
NoCollections == world = None /\ runs = None /\ import = None /\ rules = None /\ jobs = None /\ relaxed = None

NoWorkers == worker = None /\ faults = None /\ edits = None /\ caseOpen = None
NoQuestion == [about |-> None]

Is(p) == part = p /\ UNCHANGED part

-----------------------------------------------------------------------------
(* Questions: what tools return and answers state.                         *)

\* The sequences of at most n elements.
UpTo(S, n) == UNION {[1 .. k -> S] : k \in 0 .. n}

Calls == [tool : {"count", "list", "drop"}, arguments : {"a", "b", "invalid"}]
Dated == [kind : {"file", "chat"}, day : 0 .. 3]

AskTools ==
  \/ \E calls \in UpTo(Calls, 4) : asked' = [about |-> "calls", calls |-> calls]
  \/ \E records \in UpTo(Dated, 3), from, between, to \in 1 .. 3 :
       asked' = [about |-> "counts", records |-> records, from |-> from, between |-> between, to |-> to]
  \/ \E states \in UpTo({"indexed", "pending", "failed", "stale"}, 2),
        outcomes \in UpTo({"findings", "no_findings", "partial", "unavailable"}, 3), semantic \in BOOLEAN :
       asked' = [about |-> "notes", states |-> states, outcomes |-> outcomes, semantic |-> semantic]

ThreePassages ==
  [E1 |-> [source |-> 1, about |-> {"q"}, published |-> 1],
   E2 |-> [source |-> 2, about |-> {"q", "o"}, published |-> 2],
   E3 |-> [source |-> 3, about |-> {}, published |-> 0]]
OneResult == [T1 |-> {7}]

Cite(ref, found, states, denies) ==
  [ref |-> ref, found |-> found, states |-> states, events |-> {}, years |-> {}, ids |-> {}, denies |-> denies]
First == Cite("E1", TRUE, {1}, FALSE)
Tool == Cite("T1", FALSE, {}, FALSE)
CiteSets ==
  LET later == [Cite("E2", TRUE, {2}, FALSE) EXCEPT !.years = {2024}]
      denied == [Cite("E3", TRUE, {1, 2}, TRUE) EXCEPT !.events = {"created"}, !.ids = {10}]
      expiry == [Cite("E1", TRUE, {2}, FALSE) EXCEPT !.events = {"expires"}, !.ids = {11}]
  IN {{}, {First}, {later}, {expiry}, {denied}, {First, later}, {Cite("E1", FALSE, {1}, FALSE)},
      {First, Cite("X9", FALSE, {1}, FALSE)}, {Tool}, {Tool, First}}
Fact ==
  [kind |-> "fact", secret |-> FALSE, value |-> {1}, subjects |-> {}, attribute |-> "a", years |-> {}, period |-> {},
   numbers |-> {}, events |-> {}, denies |-> FALSE, negative |-> FALSE, answers |-> TRUE, cites |-> {}]
Uncited ==
  {Fact, [Fact EXCEPT !.secret = TRUE], [Fact EXCEPT !.value = {2}], [Fact EXCEPT !.value = {1, 2}],
   [Fact EXCEPT !.value = {}], [Fact EXCEPT !.subjects = {"q"}], [Fact EXCEPT !.subjects = {"o"}, !.value = {2}],
   [Fact EXCEPT !.value = {2}, !.years = {2021}, !.period = {2021}], [Fact EXCEPT !.denies = TRUE],
   [Fact EXCEPT !.events = {"created"}, !.value = {2}], [Fact EXCEPT !.kind = "count", !.numbers = {7}],
   [Fact EXCEPT !.kind = "count", !.numbers = {8}], [Fact EXCEPT !.kind = "conflict"],
   [Fact EXCEPT !.kind = "conflict", !.value = {2}], [Fact EXCEPT !.kind = "insufficient"],
   [Fact EXCEPT !.answers = FALSE]}
Claims == UNION {{[claim EXCEPT !.cites = cites] : claim \in Uncited} : cites \in CiteSets}
Accepted == {c \in Claims : c.kind = "fact" /\ c.answers /\ ~Validation!Removed(c)}

AskAnswer ==
  \/ \E subjects \in {{}, {"q"}}, years \in {{}, {2024}}, raw \in UpTo(Claims, 2) :
       asked' = [about |-> "answer", question |-> [subjects |-> subjects, years |-> years], raw |-> raw]
  \/ \E a, b, c \in Accepted :
       asked' = [about |-> "answer", question |-> [subjects |-> {"q"}, years |-> {}], raw |-> <<a, b, c>>]

-----------------------------------------------------------------------------

Init ==
  /\ part \in Parts /\ asked = NoQuestion
  /\ \/ part = "indexing" /\ Indexing!Init /\ NoAnswers /\ NoCollections
     \/ part = "answers" /\ Answers!Init /\ caseOpen = None /\ NoIndex /\ NoCollections
     \/ part = "changes" /\ Changes!Init /\ NoOutbox /\ NoIndex /\ NoAnswers
     \/ part = "retention" /\ Retention!Init /\ NoOutbox /\ NoIndex /\ NoAnswers
     \/ part = "imports" /\ Imports!Init /\ NoOutbox /\ NoIndex /\ NoAnswers
     \/ part = "questions" /\ NoWorkers /\ NoOutbox /\ NoIndex /\ NoAnswers /\ NoCollections

NextIndexing == Is("indexing") /\ Indexing!Next /\ UNCHANGED <<answerVars, collectionVars, asked>>
NextAnswers == Is("answers") /\ Answers!Next /\ UNCHANGED <<caseOpen, indexVars, collectionVars, asked>>
NextCollections ==
  /\ \/ Is("changes") /\ Changes!Next
     \/ Is("retention") /\ Retention!Next
     \/ Is("imports") /\ Imports!Next
  /\ UNCHANGED <<outbox, inbox, indexVars, answerVars, asked>>
NextQuestion ==
  /\ Is("questions") /\ asked = NoQuestion /\ (AskTools \/ AskAnswer)
  /\ UNCHANGED <<outbox, inbox, worker, faults, edits, caseOpen, indexVars, answerVars, collectionVars>>

Next == NextIndexing \/ NextAnswers \/ NextCollections \/ NextQuestion

Spec == Init /\ [][Next]_vars

Symmetry == Permutations(Workers)

-----------------------------------------------------------------------------
\* What analysts decide about the index holds against workers that embed for minutes.
IndexingObeys == [][part = "indexing" => Indexing!IndexingObeys]_vars

\* A request gets one answer and is completed exactly if it got it.
OneAnswer == part = "answers" => Answers!OneAnswer

\* No model is called and no answer stored under a policy that was changed since the request.
PolicyIsObeyed == [][part = "answers" => Answers!PolicyIsObeyed]_vars

\* What a change set says of an item is true of the source.
ChangesAreTrue == part = "changes" => Changes!ChangesAreTrue

\* Retention keeps the baselines, what it removed half stays due, and it takes no import from under a job.
RetentionIsSafe ==
  /\ [](part = "retention" => Retention!BaselinesAreKept /\ Retention!HalfRemovedIsDue)
  /\ [](part = "imports" => Imports!HalfRemovedIsDue /\ Imports!HalfRemovedImportIsDue)
  /\ [][part = "imports" => Imports!ImportsInUseStay]_vars

AnswerIsGrounded(question, raw, answer) ==
  Validation!ShownIsGrounded(raw, answer) /\ Validation!StatusIsEarned(question, raw, answer)

\* What an answer rests on is in the case: the tools that ran are registered and few, the counts are
\* exact, what was not searched is said, and what is stated is in what is cited.
AnswersAreGrounded ==
  /\ asked.about = "calls" => Search!CallsAreBounded(asked.calls, {"count", "list"})
  /\ asked.about = "counts" => Search!CountsAreExact(asked.records, asked.from, asked.between, asked.to)
  /\ asked.about = "notes" => Search!SilenceIsEarned(asked.states, asked.outcomes, asked.semantic)
  /\ asked.about = "answer" => AnswerIsGrounded(asked.question, asked.raw, Validation!Answer(asked.question, asked.raw))
=================================================================================
