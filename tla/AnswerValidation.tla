---------------------------- MODULE AnswerValidation ----------------------------
(* The server's validation of a model's answer (services/api/app/ai/validation.py):
   which statements are shown, as what, with which citations, and what the
   answer as a whole is called.

   A statement is what the model's JSON says: its kind, the items of its value,
   the identifiers of its subject, its attribute and period, the numbers in its
   text, and its citations.  A citation refers to a passage or a tool result
   that was given to the model, and its quote, when it is found in the passage,
   states some items, dates some events, names some years and identifiers, and
   may deny the value.                                                        *)
EXTENDS Integers, Sequences, FiniteSets, SequencesExt

CONSTANTS
    Passages,       \* label -> [source, about (identifiers), published (0: unknown)]
    Results,        \* label -> the numbers of a tool result and its arguments
    MaxClaims,      \* MAX_CLAIMS
    NoAttribute     \* the statement names no attribute

ValidationAssumption == MaxClaims \in Nat

Tools == DOMAIN Results

(* ---------------------------------------------------------- citations ---- *)

\* _citation: tool results are accepted, passages when the quote is in them.
Accepted(claim) ==
    {c \in claim.cites : c.ref \in Tools \/ (c.ref \in DOMAIN Passages /\ c.found)}

OfTools(cites) == {c \in cites : c.ref \in Tools}
OfPassages(cites) == {c \in cites : c.ref \in DOMAIN Passages}

\* _distinct_sources: the records cited; a tool result is one.
Source(c) == IF c.ref \in Tools THEN <<"tool", c.ref>> ELSE <<"record", Passages[c.ref].source>>
Sources(cites) == {Source(c) : c \in cites}

(* ------------------------------------------------- what a statement is ---- *)

\* One side of a difference, cited alone, is what that record states.
OneSided(claim) == claim.kind = "conflict" /\ Cardinality(Sources(Accepted(claim))) < 2
AsFact(claim) == OneSided(claim) /\ Cardinality({c.ref : c \in claim.cites}) = 1

\* A number of the case must be in a database result; a number a passage states
\* is a fact like any other and keeps its passages only.
Counted(claim) ==
    /\ OfTools(Accepted(claim)) # {}
    /\ claim.numbers \subseteq UNION {Results[c.ref] : c \in OfTools(Accepted(claim))}
AsNumber(claim) ==
    claim.kind = "count" /\ ~Counted(claim) /\ OfPassages(Accepted(claim)) # {}

Kind(claim) == IF AsFact(claim) \/ AsNumber(claim) THEN "fact" ELSE claim.kind
Cites(claim) == IF AsNumber(claim) THEN OfPassages(Accepted(claim)) ELSE Accepted(claim)

(* ------------------------------------------------------------- checks ---- *)

States(c) == IF c.ref \in Tools THEN Results[c.ref] ELSE c.states
\* Mutant: one item of the value is enough.
ValueSupportedInPart(value, cites) == value \cap UNION {States(c) : c \in cites} # {}

\* Every item of the value must be stated by a citation.
ValueSupported(value, cites) ==
    /\ value # {}
    /\ value \subseteq UNION {States(c) : c \in cites}

SubjectSupported(subjects, cites) ==
    \/ subjects = {}
    \/ \E c \in cites : c.ref \in Tools \/ subjects \cap Passages[c.ref].about # {}

DatedEventMismatch(claim, cites) ==
    LET quoted == UNION {c.events : c \in OfPassages(cites)} IN
    claim.events # {} /\ quoted # {} /\ claim.events \cap quoted = {}

Denied(cites) == \E c \in OfPassages(cites) : c.denies

(* Why a statement is removed; the reader is told the first of these. *)
Removed(claim) ==
    LET kind == Kind(claim)
        cites == Cites(claim)
    IN  \/ claim.secret                                                      \* secret_value_detected
        \/ claim.kind \in {"fact", "conflict"} /\ Accepted(claim) = {}       \* no_verified_citation
        \/ OneSided(claim) /\ ~AsFact(claim)                                 \* conflict_without_two_verified_sources
        \/ kind = "count" /\ ~Counted(claim)                                 \* number_not_in_database_result
        \/ kind = "fact" /\ ~ValueSupported(claim.value, cites)              \* value_not_in_cited_evidence
        \/ kind \in {"fact", "conflict"} /\ ~SubjectSupported(claim.subjects, cites)
        \/ kind = "fact" /\ DatedEventMismatch(claim, cites)                 \* attribute_not_in_cited_evidence
        \/ kind = "fact" /\ ~claim.negative /\ ~claim.denies /\ Denied(cites) \* value_negated_in_cited_evidence

(* ------------------------------------------------------ applicability ---- *)

Applicability(question, claim) ==
    IF question.subjects # {} /\ claim.subjects # {} /\ question.subjects \cap claim.subjects = {}
    THEN "other_subject"
    ELSE LET years == claim.years \cup UNION {c.years : c \in OfPassages(Cites(claim))} IN
         IF /\ Kind(claim) = "fact" /\ question.years # {}
            /\ years # {} /\ years \cap question.years = {}
         THEN "other_period"
         ELSE IF question.subjects # {} /\ claim.subjects # {} THEN "question_subject"
         ELSE "unspecified"

\* What says that a value does not apply cannot answer which value does.
AnswersQuestion(question, claim) ==
    /\ claim.answers
    /\ Applicability(question, claim) \notin {"other_subject", "other_period"}
    /\ ~(Kind(claim) = "fact" /\ ~claim.negative /\ claim.denies)

(* -------------------------------------------------------- differences ---- *)

QuotedIdentifiers(claim) == UNION {c.ids : c \in OfPassages(Cites(claim))} \ claim.value

SameProperty(a, b) ==
    /\ a.subjects = b.subjects /\ a.attribute = b.attribute
    /\ LET idsA == QuotedIdentifiers(a) \ b.value
           idsB == QuotedIdentifiers(b) \ a.value
       IN  idsA = {} \/ idsB = {} \/ idsA \cap idsB # {}

\* _comparable_groups: each statement joins the first group it fits wholly.
Fits(claims, groups, k) == {g \in DOMAIN groups : \A m \in groups[g] : SameProperty(claims[k], claims[m])}

Placed(claims, comparable, groups, k) ==
    LET fits == Fits(claims, groups, k) IN
    IF k \notin comparable THEN groups
    ELSE IF fits = {} THEN Append(groups, {k})
    ELSE [groups EXCEPT ![CHOOSE x \in fits : \A y \in fits : x <= y] = @ \cup {k}]

Groups(claims, comparable) ==
    LET after[k \in 0 .. Len(claims)] ==
            IF k = 0 THEN <<>> ELSE Placed(claims, comparable, after[k - 1], k)
    IN  after[Len(claims)]

SideValues(claims, group) == {claims[k].value : k \in group}
Differs(claims, group) ==
    /\ Cardinality(SideValues(claims, group)) > 1
    /\ Cardinality(UNION {Sources(Cites(claims[k])) : k \in group}) > 1

\* _record_time: of the first cited record that has a publication date; a
\* statement cites passages in their order.
RecordTimes(claim) ==
    LET dated == {c.ref : c \in OfPassages(Cites(claim))} \cap {p \in DOMAIN Passages : Passages[p].published # 0}
    IN  {Passages[p].published : p \in
            {q \in dated : \A r \in dated : Passages[q].source <= Passages[r].source}}

\* The period each side states for its value settles what the difference is.
DifferenceType(claims, group) ==
    LET side(v) == {k \in group : claims[k].value = v}
        periods(v) == UNION {claims[k].period : k \in side(v)}
        published(v) == UNION {RecordTimes(claims[k]) : k \in side(v)}
        settled(of(_)) == \A v \in SideValues(claims, group) : of(v) # {}
        apart(of(_)) == \A v, w \in SideValues(claims, group) : v # w => of(v) \cap of(w) = {}
    IN  IF settled(periods)
        THEN IF apart(periods) THEN "change_over_time" ELSE "disagreement"
        ELSE IF settled(published) /\ apart(published) THEN "undetermined" ELSE "disagreement"

(* ---------------------------------------------------------- the answer ---- *)
(* What the reader is shown: entries, each made of one statement of the model or
   of the sides of a difference, and the answer's status.                    *)

Factual == {"fact", "count", "conflict"}

Shown(claims) == {k \in DOMAIN claims : ~Removed(claims[k])}

Comparable(question, claims, shown) ==
    {k \in shown : /\ Kind(claims[k]) = "fact"
                   /\ Applicability(question, claims[k]) # "other_subject"
                   /\ claims[k].attribute # NoAttribute}

Merged(claims, comparable) == {g \in Range(Groups(claims, comparable)) : Differs(claims, g)}

Single(question, claim, k) ==
    [of |-> {k}, kind |-> Kind(claim), answers |-> AnswersQuestion(question, claim), difference |-> "none",
     cites |-> Cites(claim)]

Difference(question, claims, group) ==
    [of |-> group, kind |-> "conflict", answers |-> \E k \in group : AnswersQuestion(question, claims[k]),
     difference |-> DifferenceType(claims, group), cites |-> UNION {Cites(claims[k]) : k \in group}]

Entries(question, claims, shown, merged) ==
    {Single(question, claims[k], k) : k \in shown \ UNION merged}
    \cup {Difference(question, claims, g) : g \in merged}

Status(claims, shown, entries) ==
    LET factual == {e \in entries : e.kind \in Factual} IN
    IF \A e \in factual : ~e.answers THEN "insufficient_evidence"
    ELSE IF /\ \A e \in entries : e.kind # "insufficient"
            /\ shown = DOMAIN claims
            /\ \A e \in factual : e.answers
    THEN "answered" ELSE "partially_answered"

Finished(claims, shown, entries) ==
    [entries |-> entries, removed |-> DOMAIN claims \ shown, status |-> Status(claims, shown, entries)]

Answer(question, raw) ==
    LET claims == SubSeq(raw, 1, IF Len(raw) < MaxClaims THEN Len(raw) ELSE MaxClaims)
        shown == Shown(claims)
        merged == Merged(claims, Comparable(question, claims, shown))
    IN  Finished(claims, shown, Entries(question, claims, shown, merged))

(* ------------------------------------------------------------ properties ---- *)

(* What is shown is grounded: no secret, a stated fact has each item of its value
   in an accepted citation and a citation about its subject, a count has a
   database result with its numbers, a difference has two sources; and every
   statement that passed is shown once, with all its citations. *)
ShownIsGrounded(raw, answer) ==
    /\ \A e \in answer.entries : \A k \in e.of :
           LET claim == raw[k] IN
           /\ ~claim.secret
           /\ Kind(claim) = "fact" =>
                  /\ \A item \in claim.value : \E c \in e.cites : item \in States(c)
                  /\ claim.subjects # {} => \E c \in e.cites :
                         c.ref \in Tools \/ claim.subjects \cap Passages[c.ref].about # {}
           /\ e.kind = "count" => claim.numbers \subseteq UNION {Results[c.ref] : c \in OfTools(e.cites)}
           /\ e.kind = "conflict" => Cardinality(Sources(e.cites)) > 1
           /\ e.kind \in {"fact", "conflict"} => \A c \in e.cites : c.ref \in Tools \/ c.found
    /\ \A k \in DOMAIN raw \ answer.removed : k > MaxClaims \/
           Cardinality({e \in answer.entries : k \in e.of}) = 1

(* The status never overstates: an answered question has a statement that is not
   about another subject or another year than the question's, says what is the
   case, and leaves nothing the model said unverified. *)
StatusIsEarned(question, raw, answer) ==
    LET relevant(k) ==
            /\ question.subjects # {} /\ raw[k].subjects # {} =>
                   question.subjects \cap raw[k].subjects # {}
            /\ question.years # {} /\ raw[k].years # {} /\ Kind(raw[k]) = "fact" =>
                   \/ question.years \cap raw[k].years # {}
                   \/ \E c \in Cites(raw[k]) : question.years \cap c.years # {}
    IN  /\ answer.status # "insufficient_evidence" =>
               \E e \in answer.entries : e.kind \in Factual /\ \E k \in e.of : relevant(k)
        /\ answer.status = "answered" => answer.removed = {}

================================================================================
