------------------------------- MODULE CaseSearch -------------------------------
(* What a model is given of a case: passages found by three retrievers whose
   rankings are merged (services/api/app/ai/retrieval.py), answers of read-only
   database tools (services/api/app/ai/tools.py), and what the answer must say
   of their coverage (services/api/app/ai/coverage.py).                      *)
EXTENDS Integers, Sequences, FiniteSets, SequencesExt

CONSTANTS
    RrfK,           \* RRF_K
    Common,         \* bound: a multiple of RrfK + each rank, scores are counted in 1/Common
    PerRecord,      \* MAX_CHUNKS_PER_EVIDENCE
    PerRetriever,   \* CANDIDATES_PER_RETRIEVER
    TopK,           \* passages an answer is given
    LoadFactor,     \* chunks loaded for each passage wanted (4)
    MaxCalls,       \* tool calls of one question
    MaxRows,        \* MAX_COVERAGE_ROWS
    Version,        \* CHUNKING_VERSION
    NoProfile       \* no embedding profile is active

SearchAssumption == MaxCalls \in Nat /\ MaxRows \in Nat

Fewer(a, b) == IF a < b THEN a ELSE b
Cut(s, n) == SubSeq(s, 1, Fewer(n, Len(s)))

(* ---------------------------------------------------------- retrieval ---- *)
(* A chunk: its record, case, chunking version, the profile of its vectors, its
   record's index status, and how well each retriever matches it (0: not).  *)

Eligible(chunk, case) ==
    /\ chunk.case = case /\ chunk.status = "indexed" /\ chunk.version = Version


(* One retriever's candidates, the best match first, then the order of ids. *)
Ranking(chunks, question, retriever) ==
    LET match(k) == chunks[k].match[retriever]
        found == {k \in DOMAIN chunks :
                     /\ Eligible(chunks[k], question.case) /\ match(k) > 0
                     /\ retriever = "semantic" =>
                            /\ question.profile # NoProfile
                            /\ chunks[k].profile = question.profile}
    IN  Cut(SetToSortSeq(found, LAMBDA a, b : match(a) > match(b) \/ (match(a) = match(b) /\ a < b)),
            PerRetriever)

\* Reciprocal rank fusion: an exact identifier counts double.
Share(ranking, weight, k) ==
    LET ranks == {r \in DOMAIN ranking : ranking[r] = k} IN
    IF ranks = {} THEN 0 ELSE weight * (Common \div (RrfK + CHOOSE r \in ranks : TRUE))

Scores(chunks, question) ==
    LET lexical == Ranking(chunks, question, "lexical")
        identifier == Ranking(chunks, question, "identifier")
        semantic == Ranking(chunks, question, "semantic")
    IN  [k \in DOMAIN chunks |->
            Share(lexical, 1, k) + Share(identifier, 2, k) + Share(semantic, 1, k)]

Merged(score) ==
    SetToSortSeq({k \in DOMAIN score : score[k] > 0},
                 LAMBDA a, b : score[a] > score[b] \/ (score[a] = score[b] /\ a < b))

(* Only the best TopK * LoadFactor chunks are loaded; of these each record gives
   at most PerRecord passages, until TopK are found. *)
Retrieved(chunks, question) ==
    LET take(sofar, k) ==
            IF \/ Len(sofar) = TopK
               \/ Cardinality({i \in DOMAIN sofar : chunks[sofar[i]].record = chunks[k].record})
                      >= PerRecord
            THEN sofar ELSE Append(sofar, k)
    IN  FoldLeft(take, <<>>, Cut(Merged(Scores(chunks, question)), TopK * LoadFactor))

(* ----------------------------------------------------- tools and notes ---- *)
(* A call names a tool and arguments; "invalid" ones fail their model.        *)

OneCall(sofar, call, tools) ==
    IF call.tool \notin tools \/ call.arguments = "invalid" THEN
        [sofar EXCEPT !.rejected = Append(@, call)]
    ELSE IF \E i \in DOMAIN sofar.results : sofar.results[i] = call THEN sofar
    ELSE IF Len(sofar.results) >= MaxCalls THEN
        [sofar EXCEPT !.rejected = Append(@, call)]
    ELSE [sofar EXCEPT !.results = Append(@, call)]

Executed(calls, tools) ==
    LET looked == Cut(calls, 2 * MaxCalls)
        after[n \in 0 .. Len(looked)] ==
            IF n = 0 THEN [results |-> <<>>, rejected |-> <<>>]
            ELSE OneCall(after[n - 1], looked[n], tools)
    IN  after[Len(looked)]


(* count_evidence and its like: days are included at both ends; a record without
   the date that is filtered on is not counted.  0 is no date and no bound.   *)
Counts(args, record) ==
    /\ args.kind = "any" \/ record.kind = args.kind
    /\ args.from = 0 \/ record.day >= args.from
    /\ args.to = 0 \/ (record.day # 0 /\ record.day < args.to + 1)
CountOf(args, records) == Cardinality({r \in DOMAIN records : Counts(args, records[r])})

\* connector_coverage: the rows are limited, and so is what is called their count.
Incomplete(outcomes) == {r \in DOMAIN outcomes : outcomes[r] \notin {"findings", "no_findings"}}
CoverageCount(outcomes) == Fewer(Cardinality(Incomplete(outcomes)), MaxRows)

\* case_coverage: the limitations every answer is shown with.
Notes(states, outcomes, semantic) ==
    {n \in {"not searched", "stale", "no semantic search", "incomplete runs"} :
        \/ n = "not searched" /\ \E s \in DOMAIN states :
               states[s] \in {"pending", "indexing", "failed", "canceled"}
        \/ n = "stale" /\ \E s \in DOMAIN states : states[s] = "stale"
        \/ n = "no semantic search" /\ ~semantic
        \/ n = "incomplete runs" /\ Incomplete(outcomes) # {}}

(* ----------------------------------------------------------- properties ---- *)

(* A passage given to the model is of this case, of a record whose index is
   current, of a vector of the active profile where that is why it was found;
   no record gives more than its share, and a passage is passed over only for
   better ones, for better ones of its record, or because it was not loaded. *)
PassagesAreRight(chunks, question) ==
    LET given == Retrieved(chunks, question)
        chosen == {given[i] : i \in DOMAIN given}
        score == Scores(chunks, question)
    IN  /\ \A k \in chosen :
               /\ chunks[k].case = question.case
               /\ chunks[k].status = "indexed" /\ chunks[k].version = Version
               /\ \/ chunks[k].match["lexical"] + chunks[k].match["identifier"] > 0
                  \/ chunks[k].profile = question.profile
        /\ Cardinality(chosen) = Len(given) /\ Len(given) <= TopK
        /\ \A r \in {chunks[k].record : k \in chosen} :
               Cardinality({k \in chosen : chunks[k].record = r}) <= PerRecord
        /\ \A k \in chosen : \A l \in DOMAIN chunks \ chosen :
               score[l] > score[k] =>
                   Cardinality({m \in chosen : /\ chunks[m].record = chunks[l].record
                                               /\ score[m] >= score[l]}) = PerRecord

(* Of the calls a model plans each is answered once, refused, or beyond twice the
   limit; nothing unregistered runs and the limit holds. *)
CallsAreBounded(calls, tools) ==
    LET done == Executed(calls, tools)
        ran == {done.results[i] : i \in DOMAIN done.results}
    IN  /\ Len(done.results) <= MaxCalls /\ Cardinality(ran) = Len(done.results)
        /\ \A call \in ran : call.tool \in tools /\ call.arguments # "invalid"
        /\ \A i \in 1 .. Fewer(Len(calls), 2 * MaxCalls) :
               calls[i] \in ran \cup {done.rejected[j] : j \in DOMAIN done.rejected}

(* Counts are exact: those of two ranges of days that follow one another add up
   to that of both, with no record counted twice or lost at the day between. *)
CountsAreExact(records, from, between, to) ==
    LET count(a, b) == CountOf([kind |-> "any", from |-> a, to |-> b], records) IN
    (from <= between /\ between < to) =>
        count(from, between) + count(between + 1, to) = count(from, to)

(* An answer without a note rests on a fully searched case: every record is
   indexed as it stands, every connector run was complete, and the tool that
   counts the incomplete ones finds none. *)
SilenceIsEarned(states, outcomes, semantic) ==
    Notes(states, outcomes, semantic) = {} =>
        /\ semantic /\ CoverageCount(outcomes) = 0
        /\ \A s \in DOMAIN states : states[s] = "indexed"
        /\ \A r \in DOMAIN outcomes : outcomes[r] \in {"findings", "no_findings"}
================================================================================
