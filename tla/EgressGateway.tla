------------------------------ MODULE EgressGateway ------------------------------
(***************************************************************************)
(* The gateway through which the discovery sandbox reaches the providers:  *)
(* requests for tunnels, the check of the destination, the two handshakes, *)
(* and the two pumps that relay the bytes of a tunnel until one of them    *)
(* ends, fails or meets a limit. Connections are served concurrently.      *)
(***************************************************************************)
EXTENDS Naturals, FiniteSets, Sequences, SequencesExt

CONSTANTS
  Tunnels,     \* connections of clients
  Hosts,       \* names a client may ask for
  Allowed,     \* the allowlisted ones
  MaxTunnels,  \* slots
  IdleLimit,   \* ticks a pump waits for data to read; for a side to take what is written it has no limit
  TimeLimit,   \* ticks a tunnel lasts, more than IdleLimit
  ByteLimit    \* pieces of data in each direction

GatewayAssumption ==
  IsFiniteSet(Tunnels) /\ {MaxTunnels, ByteLimit} \subseteq Nat /\ {IdleLimit, TimeLimit} \subseteq Nat \ {0}

VARIABLES
  tunnel,   \* per connection: where it is and what the log will say of it
  pump,     \* per connection and direction: "off", "running" (it reads), "draining" (it waits until what it
            \* wrote is taken) or "done"; with its bytes and the ticks it has read nothing
  age,      \* ticks since the tunnel was established
  idle      \* ticks during which the tunnel relayed nothing (of the property, not of the code)
vars == <<tunnel, pump, age, idle>>

Directions == {"up", "down"}
Alive == {"running", "draining"}
Holding(t) == tunnel[t].at \in {"connecting", "client_tls", "relaying"}
SlotsUsed == Cardinality({t \in Tunnels : Holding(t)})

Off == [state |-> "off", bytes |-> 0, idle |-> 0]
NoTunnel == [at |-> "new", host |-> "", port |-> 0, decision |-> "refused", code |-> "", upstream |-> "none"]
Init == /\ tunnel = [t \in Tunnels |-> NoTunnel]
        /\ pump = [t \in Tunnels |-> [d \in Directions |-> Off]]
        /\ age = [t \in Tunnels |-> 0] /\ idle = [t \in Tunnels |-> 0]

-----------------------------------------------------------------------------
(* A request: [head, method, host, port]; head is what became of reading it *)

Requests == [head : {"read"}, method : {"CONNECT", "GET"}, host : Hosts, port : {443, 80}]
            \cup {[head |-> h, method |-> "CONNECT", host |-> CHOOSE x \in Hosts : TRUE, port |-> 443] :
                    h \in {"too_large", "bad_request", "disconnected"}}
IpLiteral == "192.0.2.1"

\* Why a request gets no tunnel; the address is parsed before the allowlist, the slots come last.
Refusal(r, busy) ==
  CASE r.head # "read" -> IF r.head = "too_large" THEN "request_head_too_large" ELSE "bad_request"
    [] r.method # "CONNECT" -> "method_not_allowed"
    [] r.host = IpLiteral -> "ip_literal_not_allowed"
    [] r.host \notin Allowed -> "host_not_allowed"
    [] busy -> "gateway_busy"
    [] OTHER -> ""

\* The slots are looked at and one is taken without a pause in between.
Request(t, r) ==
  LET code == Refusal(r, SlotsUsed >= MaxTunnels)
  IN /\ tunnel[t].at = "new"
     /\ tunnel' = [tunnel EXCEPT ![t] =
          IF r.head = "disconnected" THEN [@ EXCEPT !.at = "closed", !.code = "bad_request"]
          ELSE IF code # "" THEN [@ EXCEPT !.at = "closed", !.code = code]
          ELSE [@ EXCEPT !.at = "connecting", !.host = r.host, !.port = r.port]]
     /\ UNCHANGED <<pump, age, idle>>

\* What asking for the addresses gives, and what dialling each of them gives.
Dials == {"verified", "certificate_invalid", "tls_failed", "unreachable"}
Answers == {"blocked_address", "dns_failure"} \cup {"resolved"}

\* The first address that can be dialled and proves its name, or else the failure of the last.
Upstream(dials) ==
  IF \E i \in DOMAIN dials : dials[i] = "verified" THEN "verified"
  ELSE IF dials = <<>> THEN "unreachable" ELSE dials[Len(dials)]

Connect(t, answer, dials) ==
  LET code == IF tunnel[t].port # 443 THEN "blocked_port"
              ELSE IF answer # "resolved" THEN answer
              ELSE Upstream(dials)
  IN /\ tunnel[t].at = "connecting"
     /\ tunnel' = [tunnel EXCEPT ![t] =
          IF code = "verified" THEN [@ EXCEPT !.at = "client_tls", !.upstream = "verified"]
          ELSE [@ EXCEPT !.at = "closed", !.code = code]]
     /\ UNCHANGED <<pump, age, idle>>

\* The client is told 200 and starts TLS; only a failure of the latter closes the provider's side, a
\* client that leaves while it is told does not.
ClientTls(t, outcome) ==
  /\ tunnel[t].at = "client_tls"
  /\ tunnel' = [tunnel EXCEPT ![t] =
       IF outcome = "ok" THEN [@ EXCEPT !.at = "relaying", !.decision = "allowed"]
       ELSE IF outcome = "left" THEN [@ EXCEPT !.at = "closed", !.code = "client_disconnected"]
       ELSE [@ EXCEPT !.at = "closed", !.code = "client_tls_failed", !.upstream = "closed"]]
  /\ pump' = [pump EXCEPT ![t] = IF outcome = "ok" THEN [d \in Directions |-> [Off EXCEPT !.state = "running"]] ELSE @]
  /\ UNCHANGED <<age, idle>>

-----------------------------------------------------------------------------
(* Relaying *)

Ended(at, code) == [at EXCEPT !.at = "closed", !.code = code, !.upstream = "closed"]

\* The pumps that have not finished are stopped, both sides closed and the slot is free again.
EndRelay(t, code, finished) ==
  /\ tunnel' = [tunnel EXCEPT ![t] = Ended(@, code)]
  /\ pump' = [pump EXCEPT ![t] = [d \in Directions |->
       [pump[t][d] EXCEPT !.state = IF d \in finished \/ @ = "done" THEN "done" ELSE "off"]]]

\* What is read is written to the other side, which takes it at once or later, without a limit of time.
Data(t, d, taken) ==
  /\ tunnel[t].at = "relaying" /\ pump[t][d].state = "running"
  /\ IF pump[t][d].bytes = ByteLimit THEN EndRelay(t, "tunnel_byte_limit", {}) /\ UNCHANGED idle
     ELSE /\ pump' = [pump EXCEPT ![t][d] = [state |-> IF taken THEN "running" ELSE "draining", bytes |-> @.bytes + 1, idle |-> 0]]
          /\ idle' = [idle EXCEPT ![t] = 0]
          /\ UNCHANGED tunnel
  /\ UNCHANGED age

Drained(t, d) ==
  /\ tunnel[t].at = "relaying" /\ pump[t][d].state = "draining"
  /\ pump' = [pump EXCEPT ![t][d] = [@ EXCEPT !.state = "running", !.idle = 0]]
  /\ idle' = [idle EXCEPT ![t] = 0]
  /\ UNCHANGED <<tunnel, age>>

\* A side has sent everything: the tunnel ends with the provider's, and outlives the client's.
EndOfData(t, d) ==
  /\ tunnel[t].at = "relaying" /\ pump[t][d].state = "running"
  /\ IF d = "down" THEN EndRelay(t, "", {d})
     ELSE pump' = [pump EXCEPT ![t][d].state = "done"] /\ UNCHANGED tunnel
  /\ UNCHANGED <<age, idle>>

PumpFails(t, d) ==
  /\ tunnel[t].at = "relaying" /\ pump[t][d].state \in Alive
  /\ EndRelay(t, "tunnel_closed", {})
  /\ UNCHANGED <<age, idle>>

\* A pump that has waited too long for data fails; one that waits to be drained, or is done, does not.
Expired(t, d) == pump[t][d].state = "running" /\ pump[t][d].idle + 1 >= IdleLimit

\* One tick for a tunnel that is being relayed, with what it runs into.
Tick(t) ==
  /\ tunnel[t].at = "relaying"
  /\ age' = [age EXCEPT ![t] = @ + 1]
  /\ idle' = [idle EXCEPT ![t] = @ + 1]
  /\ IF \E d \in Directions : Expired(t, d) THEN EndRelay(t, "tunnel_idle_timeout", {})
     ELSE IF age[t] + 1 >= TimeLimit THEN EndRelay(t, "tunnel_time_limit", {})
     ELSE /\ pump' = [pump EXCEPT ![t] = [d \in Directions |->
                        IF pump[t][d].state = "running" THEN [pump[t][d] EXCEPT !.idle = @ + 1] ELSE pump[t][d]]]
          /\ UNCHANGED tunnel

Next ==
  \/ \E t \in Tunnels, r \in Requests : Request(t, r)
  \/ \E t \in Tunnels, a \in Answers, dials \in {<<>>} \cup (Dials \X Dials) : Connect(t, a, dials)
  \/ \E t \in Tunnels, outcome \in {"ok", "tls_failed", "left"} : ClientTls(t, outcome)
  \/ \E t \in Tunnels, d \in Directions, taken \in BOOLEAN : Data(t, d, taken)
  \/ \E t \in Tunnels, d \in Directions : Drained(t, d) \/ EndOfData(t, d) \/ PumpFails(t, d)
  \/ \E t \in Tunnels : Tick(t)
Spec == Init /\ [][Next]_vars

-----------------------------------------------------------------------------
\* A slot is held exactly while a tunnel is being set up or relayed, and only a listed name on the one port
\* with a verified certificate is relayed, for a bounded time and amount (egress/gateway.py:3-23). As long
\* as a pump still reads, the tunnel is not idle for long; one whose only pump waits for the other side to
\* take what was written is bounded by the duration of the tunnel alone (206).
TunnelsAreBounded ==
  /\ SlotsUsed <= MaxTunnels
  /\ \A t \in Tunnels :
       /\ tunnel[t].at = "relaying" =>
            /\ tunnel[t].host \in Allowed /\ tunnel[t].port = 443 /\ tunnel[t].upstream = "verified"
            /\ age[t] < TimeLimit
            /\ \E d \in Directions : pump[t][d].state \in Alive
            /\ (\E d \in Directions : pump[t][d].state = "running") => idle[t] < IdleLimit
       /\ \A d \in Directions :
            /\ pump[t][d].bytes <= ByteLimit
            /\ pump[t][d].state = "running" => pump[t][d].idle < IdleLimit
       /\ (\E d \in Directions : pump[t][d].state \in Alive) => tunnel[t].at = "relaying"

\* The client receives what the provider sends until the provider ends: a tunnel without an error ends
\* with the provider's side, never with the client's alone (gateway.py:221-223).
ProviderEndsTheTunnel ==
  \A t \in Tunnels : tunnel[t].decision = "allowed" /\ tunnel[t].at = "closed" /\ tunnel[t].code = "" =>
    pump[t].down.state = "done"

=================================================================================
