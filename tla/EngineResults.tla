------------------------------ MODULE EngineResults -----------------------------
(* Sources that are asked through an engine in a process of its own: username
   checks (services/api/app/connectors/sherlock.py) and passive subdomains
   (connectors/subfinder.py with its runner, connectors/engines/).

   An engine asks many platforms or providers at once, and what it prints says
   little of those that did not answer.  What the page says of the whole must
   not take silence, refusals or an early stop for absence.                  *)
EXTENDS Integers, FiniteSets

CONSTANTS
    Apex,           \* the domain itself, whose own name is no finding
    MaxResults,     \* max_results of a discovery job
    MaxJobs         \* jobs a runner takes at once

EnginesAssumption == MaxResults \in Nat

Result(items, gap, hint) == [outcome |-> "page", items |-> items, gap |-> gap, hint |-> hint]
Failure(outcome) == [outcome |-> outcome, items |-> 0, gap |-> FALSE, hint |-> outcome]

\* _finish_after_last_page of a run whose only page this is.
Verdict(page) ==
    IF page.outcome # "page" THEN [status |-> "failed", outcome |-> page.outcome]
    ELSE IF page.hint # "" THEN [status |-> IF page.items > 0 THEN "partial" ELSE "failed",
                                 outcome |-> IF page.items > 0 THEN "partial" ELSE page.hint]
    ELSE IF page.gap THEN [status |-> "partial", outcome |-> "partial"]
    ELSE [status |-> "completed", outcome |-> IF page.items > 0 THEN "findings" ELSE "no_findings"]

(* ------------------------------------------------------ username checks ---- *)
(* A site: what its rules call a missing account (`missing`), whether the engine
   reported it before it stopped, whether the network policy blocked it, what
   the engine made of it (`raw`) and the HTTP status (0: no response).        *)

NotFound(site) ==
    /\ site.raw = "Available"
    /\ \/ site.missing = "message" /\ site.http \in 200 .. 299
       \/ site.missing = "status_code" /\ site.http \in {404, 410}
       \/ site.missing = "response_url" /\ site.http \in 300 .. 399
Classify(site) ==
    IF site.blocked THEN "blocked"
    ELSE IF site.raw = "Illegal" THEN "unsupported"
    ELSE IF site.raw = "WAF" THEN "access_denied"
    ELSE IF site.http = 0 \/ site.http >= 500 THEN "unavailable"
    ELSE IF site.http = 401 THEN "authentication_required"
    ELSE IF site.http = 403 THEN "access_denied"
    ELSE IF site.http = 429 THEN "rate_limited"
    ELSE IF site.raw = "Claimed" /\ site.http \in 200 .. 299 THEN "candidate"
    ELSE IF NotFound(site) THEN "not_found" ELSE "inconclusive"

Entry(site) == IF site.reported THEN Classify(site) ELSE "not_checked"

\* `stop` is how the engine ended: "" by itself, "crash", "timeout" or "canceled".
Known == {"rate_limited", "access_denied", "authentication_required", "unavailable"}
Of(sites, class) == {s \in DOMAIN sites : Entry(sites[s]) = class}
Count(sites, class) == Cardinality(Of(sites, class))
\* The failure that is told when no site gave an answer: the most frequent one.
Foremost(sites) ==
    LET seen == {c \in Known : Count(sites, c) > 0} IN
    IF seen = {} THEN "unavailable" ELSE CHOOSE c \in seen : \A d \in seen : Count(sites, c) >= Count(sites, d)
UsernamePage(sites, stop) ==
    LET definitive == Count(sites, "candidate") + Count(sites, "not_found") IN
    IF stop = "canceled" THEN Failure("canceled")
    ELSE IF (\A s \in DOMAIN sites : ~sites[s].reported) /\ stop # "" THEN Failure("unavailable")
    ELSE IF definitive = 0 THEN Result(0, FALSE, Foremost(sites))
    ELSE Result(Count(sites, "candidate"), definitive < Cardinality(DOMAIN sites), "")

(* --------------------------------------------------- passive subdomains ---- *)
(* A provider, as its engine's output shows it: `said` is "nothing", "done" (a
   completed request in the statistics), "skipped" (no key), or an error
   ("rate", "refused" by the egress policy, "unreachable", "database": the path
   of crt.sh that the sandbox lacks, not counted as an error); `names` are the
   hosts it gave, with whether they are below the domain.                    *)

\* _Handler.do_POST: the refusals, in their order; `running` jobs hold the slots.
Refusal(job) ==
    IF ~job.valid THEN "unsupported"
    ELSE IF ~job.sandboxed \/ ~job.installed \/ job.running >= MaxJobs THEN "unavailable" ELSE ""

\* on_line: names outside the domain are discarded; those beyond the limit too.
InScope(provider) == {n.name : n \in {m \in provider.names : m.below}}
Printed(providers) == UNION {InScope(providers[p]) : p \in DOMAIN providers}

\* A job ends by itself or at its limit of names, its deadline, a cancellation, a
\* lost runner or a crash of the engine; what was printed last may be missing.
HostsKept(providers, kept) ==
    LET hosts == kept \cap Printed(providers) IN
    IF Cardinality(hosts) <= MaxResults THEN hosts
    ELSE CHOOSE part \in SUBSET hosts : Cardinality(part) = MaxResults

\* The statistics and errors come last: a stopped job shows neither.
Shown(provider, stop) == IF stop = "timeout" THEN "nothing" ELSE provider.said
Errors(providers, stop) ==
    {p \in DOMAIN providers : Shown(providers[p], stop) \in {"rate", "refused", "unreachable"}}
Skipped(providers, stop) == {p \in DOMAIN providers : Shown(providers[p], stop) = "skipped"}
Succeeded(providers, hosts, stop) ==
    {p \in DOMAIN providers \ (Errors(providers, stop) \cup Skipped(providers, stop)) :
        InScope(providers[p]) \cap hosts # {} \/ Shown(providers[p], stop) = "done"}

\* Why there is no result, when no provider is known to have answered.
Silence(providers, errors, skipped, unconfirmed) ==
    LET all(what) == \A p \in errors : providers[p].said = what IN
    IF unconfirmed # {} THEN "unavailable"
    ELSE IF skipped # {} /\ errors = {} THEN "authentication_required"
    ELSE IF errors # {} /\ all("refused") THEN "unsupported"
    ELSE IF errors # {} /\ all("rate") THEN "rate_limited" ELSE "unavailable"

DomainPage(job, providers, kept, stop) ==
    LET hosts == HostsKept(providers, kept)
        errors == Errors(providers, stop)
        skipped == Skipped(providers, stop)
        succeeded == Succeeded(providers, hosts, stop)
        unconfirmed == DOMAIN providers \ (errors \cup skipped \cup succeeded)
        stopped == stop \in {"timeout", "output_limit"} \/ Cardinality(hosts) >= MaxResults
    IN  IF Refusal(job) # "" THEN Failure(Refusal(job))
        ELSE IF stop = "canceled" THEN Failure("canceled")
        ELSE IF stop \in {"crash", "lost"} THEN Failure("unavailable")
        ELSE IF succeeded = {} /\ hosts = {}
             THEN Result(0, FALSE, Silence(providers, errors, skipped, unconfirmed))
        ELSE Result(Cardinality(hosts \ {Apex}), errors \cup skipped \cup unconfirmed # {} \/ stopped, "")

(* ----------------------------------------------------------- properties ---- *)

(* Username checks: a completed run had a definitive answer of every platform, by
   that platform's own rule and not from an error page; one that failed had none,
   and names a failure that happened. *)
Exists(site) == site.raw = "Claimed" /\ site.http \in 200 .. 299
IsAbsent(site) == site.raw = "Available" /\ site.http \notin {0, 401, 403, 429, 500}
ChecksAreTrue(sites, stop) ==
    LET verdict == Verdict(UsernamePage(sites, stop)) IN
    /\ verdict.status = "completed" =>
           \A s \in DOMAIN sites : sites[s].reported /\ ~sites[s].blocked /\ (Exists(sites[s]) \/ IsAbsent(sites[s]))
    /\ verdict.outcome = "no_findings" => \A s \in DOMAIN sites : IsAbsent(sites[s])
    /\ verdict.outcome = "findings" => \E s \in DOMAIN sites : Exists(sites[s])
    /\ verdict.outcome = "rate_limited" => \E s \in DOMAIN sites : sites[s].http = 429

(* Passive discovery: a completed run had an answer of every provider and was not
   cut, so that "no findings" rests on what all of them said; a run of which no
   provider answered fails; no name outside the domain counts. *)
SilenceIsNotAbsence(job, providers, kept, stop) ==
    LET page == DomainPage(job, providers, kept, stop) IN
    /\ Verdict(page).status = "completed" =>
           /\ stop = "" /\ Refusal(job) = ""
           /\ \A p \in DOMAIN providers :
                  \/ providers[p].said = "done"
                  \/ /\ providers[p].said \in {"nothing", "database"}
                     /\ InScope(providers[p]) \cap kept # {}
    /\ Verdict(page).outcome = "no_findings" =>
           \A p \in DOMAIN providers :
               /\ InScope(providers[p]) \cap kept \subseteq {Apex}
               /\ providers[p].said = "done" \/ InScope(providers[p]) \cap kept = {Apex}
    /\ page.items <= MaxResults
    /\ page.items <= Cardinality(UNION {InScope(providers[p]) : p \in DOMAIN providers})
    /\ (\E p \in DOMAIN providers : providers[p].said = "done") /\ stop = "" /\ Refusal(job) = ""
           => Verdict(page).status # "failed"
================================================================================
