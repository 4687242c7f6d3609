-------------------------------- MODULE Fetching --------------------------------
(* One request of a connector: the network policy (services/api/app/connectors/
   netguard.py) and what its failures become (connectors/http.py).

   A request is a chain of hops, each the target of the redirect before it.  A
   hop's name is resolved when its URL is checked and again when the connection
   is made, and the second answer may differ from the first.  An address is a
   record of its class and of what a connection to it meets.                 *)
EXTENDS Integers, Sequences

CONSTANTS
    MaxRedirects,   \* max_redirects
    MaxBytes        \* max_response_bytes

FetchingAssumption == {MaxRedirects, MaxBytes} \subseteq Nat

(* -------------------------------------------------------- the policy ---- *)
(* Classes: "public", "listed" (private, in the operator's allowed networks),
   "private", "reserved" (loopback, link-local, multicast, ...), "teredo", and
   IPv4 addresses inside IPv6 ones: "holds public", "holds listed", ...      *)

\* An address that holds another is judged by that one alone.
Judged(class) ==
    IF class = "holds public" THEN "public" ELSE IF class = "holds listed" THEN "listed"
    ELSE IF class = "holds private" THEN "private" ELSE IF class = "holds reserved" THEN "reserved" ELSE class
Permitted(class) == Judged(class) \in {"public", "listed"}

\* Mutant: one permitted address makes the name a good one.
ResolveAny(addresses) ==
    IF addresses = <<>> THEN "dns_failure"
    ELSE IF \A i \in DOMAIN addresses : ~Permitted(addresses[i].class) THEN "blocked" ELSE "ok"

\* NetworkPolicy.resolve: a name is good if all its addresses are.
Resolve(addresses) ==
    IF addresses = <<>> THEN "dns_failure"
    ELSE IF \E i \in DOMAIN addresses : ~Permitted(addresses[i].class) THEN "blocked" ELSE "ok"

\* check_url: scheme, credentials, local names and port, then the addresses.
CheckUrl(hop) == IF hop.url = "refused" THEN "blocked" ELSE Resolve(hop.checked)

(* ------------------------------------------------------- the request ---- *)

\* connect_tcp: the addresses are tried in their order until one answers or
\* does not answer in time; the others after it are left alone.
Dialled(hop) ==
    IF Resolve(hop.dialled) # "ok" THEN <<>>
    ELSE LET ends == {i \in DOMAIN hop.dialled : hop.dialled[i].meets # "refusal"} IN
         IF ends = {} THEN hop.dialled
         ELSE SubSeq(hop.dialled, 1, CHOOSE i \in ends : \A j \in ends : i <= j)
Connect(hop) ==
    IF Resolve(hop.dialled) # "ok" THEN Resolve(hop.dialled)
    ELSE LET met == Dialled(hop)[Len(Dialled(hop))].meets IN
         IF met = "answer" THEN "ok" ELSE IF met = "silence" THEN "timeout" ELSE "connect_failed"

\* _read_bounded: what is larger than the limit is cut, and said to be.
NoBody == [end |-> "", read |-> 0, truncated |-> FALSE]
Body(hop) ==
    IF hop.size > MaxBytes THEN [end |-> "body", read |-> MaxBytes, truncated |-> TRUE]
    ELSE [end |-> hop.ends, read |-> hop.size, truncated |-> FALSE]

\* The i-th hop: the check before it is followed, whether a connection is made
\* for it, whether the request is sent, and why the chain ends with it ("": it
\* does not, it is a redirect to the next).
Check(hops, sameOrigin, i) ==
    IF sameOrigin /\ hops[i].origin # hops[1].origin /\ CheckUrl(hops[i]) = "ok" THEN "blocked"
    ELSE CheckUrl(hops[i])
Connects(hops, sameOrigin, i) == Check(hops, sameOrigin, i) = "ok" /\ hops[i].interrupted = "no"
Sends(hops, sameOrigin, i) == Connects(hops, sameOrigin, i) /\ Connect(hops[i]) = "ok"
End(hops, sameOrigin, i) ==
    IF Check(hops, sameOrigin, i) # "ok" THEN Check(hops, sameOrigin, i)
    ELSE IF hops[i].interrupted # "no" THEN hops[i].interrupted
    ELSE IF Connect(hops[i]) # "ok" THEN Connect(hops[i])
    ELSE IF i = Len(hops) THEN Body(hops[i]).end
    ELSE IF i > MaxRedirects THEN "too_many_redirects" ELSE ""

\* netguard.fetch: the hops up to the first that ends the chain.
LastHop(hops, sameOrigin) ==
    CHOOSE i \in DOMAIN hops : End(hops, sameOrigin, i) # "" /\ \A j \in 1 .. i - 1 : End(hops, sameOrigin, j) = ""
Fetch(hops, sameOrigin) ==
    LET last == LastHop(hops, sameOrigin)
        connected == IF Connects(hops, sameOrigin, last) THEN last ELSE last - 1
        sent == IF Sends(hops, sameOrigin, last) THEN last ELSE last - 1
    IN  [end |-> End(hops, sameOrigin, last), hops |-> connected, sent |-> sent,
         contacted |-> [i \in 1 .. connected |-> Dialled(hops[i])],
         body |-> IF sent = Len(hops) THEN Body(hops[last]) ELSE NoBody]

(* http.fetch: what the connector sees, and whether its budget is charged.  *)
Outcome(result) ==
    IF result.end = "body" THEN "response" ELSE IF result.end = "blocked" THEN "unsupported"
    ELSE IF result.end = "canceled" THEN "canceled" ELSE IF result.end = "decoding_error" THEN "parse_error"
    ELSE "unavailable"
Charged(result) == result.end # "blocked"

(* ----------------------------------------------------------- properties ---- *)

(* No connection is made to an address the policy does not permit, whatever the
   name resolves to by then; a chain that must keep its origin keeps it; at most
   MaxRedirects redirects are followed. *)
OnlyPermittedIsContacted(hops, sameOrigin) ==
    LET result == Fetch(hops, sameOrigin) IN
    /\ \A i \in 1 .. result.hops : \A k \in DOMAIN result.contacted[i] :
           result.contacted[i][k].class \in {"public", "listed", "holds public", "holds listed"}
    /\ result.hops <= MaxRedirects + 1
    /\ \A i \in 1 .. result.hops :
           hops[i].url # "refused" /\ (sameOrigin => hops[i].origin = hops[1].origin)

(* A response is what the last hop sent: whole, or cut at the limit and said to
   be; whatever else happened is a failure, and a failure that may have reached
   a source is charged, except that of a destination the policy refused. *)
ResponseIsTrue(hops, sameOrigin) ==
    LET result == Fetch(hops, sameOrigin) IN
    /\ Outcome(result) = "response" =>
           /\ result.hops = Len(hops) /\ result.sent = Len(hops)
           /\ result.body.truncated <=> hops[Len(hops)].size > MaxBytes
           /\ ~result.body.truncated =>
                  result.body.read = hops[Len(hops)].size /\ hops[Len(hops)].ends = "body"
    /\ (result.sent > 0 /\ result.end # "blocked") => Charged(result)
    /\ ~Charged(result) => Outcome(result) = "unsupported"

================================================================================
