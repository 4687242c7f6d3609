----------------------------- MODULE Sources_proofs -----------------------------
(***************************************************************************)
(* The way to a source and back: the tunnels of the gateway for any number *)
(* of connections and any limits, and the rules of fetching, of reading    *)
(* pages and of the engines' results for all their inputs.                 *)
(***************************************************************************)
EXTENDS MCSources, FiniteSetTheorems, WellFoundedInduction, TLAPS

-----------------------------------------------------------------------------
(* The tunnels of the gateway.                                             *)

Refusals == {"request_head_too_large", "bad_request", "method_not_allowed", "ip_literal_not_allowed",
             "host_not_allowed", "gateway_busy"}
Failures == {"blocked_port", "blocked_address", "dns_failure", "certificate_invalid", "tls_failed", "unreachable"}
Ends == {"client_disconnected", "client_tls_failed", "tunnel_byte_limit", "tunnel_closed",
         "tunnel_idle_timeout", "tunnel_time_limit"}
Codes == {""} \cup Refusals \cup Failures \cup Ends
Tunneling == {"connecting", "client_tls", "relaying"}
Places == {"new", "closed"} \cup Tunneling
Names == Hosts \cup {""}
Ports == {0, 80, 443}
Decisions == {"refused", "allowed"}
Upstreams == {"none", "verified", "closed"}
TunnelRows == [at : Places, host : Names, port : Ports, decision : Decisions, code : Codes, upstream : Upstreams]
PumpRows == [Gateway!Directions -> [state : {"off", "running", "draining", "done"}, bytes : Nat, idle : Nat]]

\* A tunnel whose row is n, with the pumps p, a ticks old, of which the last i relayed nothing.  While it is
\* relayed the pump of the provider's side is not over, and no pump that reads has waited for less than i.
Sound(n, p, a, i) ==
  /\ n.at \in Tunneling => n.host \in Allowed
  /\ n.at \in {"client_tls", "relaying"} => n.port = 443 /\ n.upstream = "verified"
  /\ n.at \in {"new", "connecting", "client_tls"} => n.decision = "refused" /\ a = 0 /\ i = 0
  /\ n.at = "relaying" => a < TimeLimit /\ p["down"].state \in Gateway!Alive
  /\ \A d \in Gateway!Directions :
       /\ p[d].bytes <= ByteLimit
       /\ p[d].state \in Gateway!Alive => n.at = "relaying"
       /\ p[d].state = "running" => i <= p[d].idle /\ p[d].idle < IdleLimit
       /\ n.at \in {"new", "connecting", "client_tls"} => p[d] = Gateway!Off
  /\ n.at = "closed" /\ n.decision = "allowed" /\ n.code = "" => p["down"].state = "done"

TunnelsIInv ==
  /\ tunnel \in [Tunnels -> TunnelRows] /\ pump \in [Tunnels -> PumpRows]
  /\ age \in [Tunnels -> Nat] /\ idle \in [Tunnels -> Nat]
  /\ Gateway!SlotsUsed <= MaxTunnels
  /\ \A t \in Tunnels : Sound(tunnel[t], pump[t], age[t], idle[t])

\* The gateway counts as everybody does.
LEMMA GatewayCounts ==
  ASSUME NEW S PROVE Gateway!Cardinality(S) = Cardinality(S) /\ (Gateway!IsFiniteSet(S) <=> IsFiniteSet(S))
<1>1. Gateway!Cardinality(S) = Cardinality(S)
  BY Zenon DEF Gateway!Cardinality, Cardinality
<1>2. Gateway!IsFiniteSet(S) <=> IsFiniteSet(S)
  BY Zenon DEF Gateway!IsFiniteSet, IsFiniteSet
<1> QED BY <1>1, <1>2

\* The tunnels in use are a number.
LEMMA SlotsCounted == ASSUME Gateway!GatewayAssumption PROVE Gateway!SlotsUsed \in Nat
<1> DEFINE held == {s \in Tunnels : Gateway!Holding(s)}
<1>1. Gateway!SlotsUsed = Cardinality(held) /\ IsFiniteSet(Tunnels) /\ held \in SUBSET Tunnels
  BY GatewayCounts DEF Gateway!SlotsUsed, Gateway!GatewayAssumption
<1> HIDE DEF held
<1> QED BY <1>1, FS_Subset, FS_CardinalityType

\* A step of one tunnel that is sound after it, and takes a slot only while there is one.
LEMMA TunnelMoves ==
  ASSUME Gateway!GatewayAssumption, TunnelsIInv, NEW t \in Tunnels,
         NEW n \in TunnelRows, NEW p \in PumpRows, NEW a \in Nat, NEW i \in Nat,
         tunnel' = [tunnel EXCEPT ![t] = n], pump' = [pump EXCEPT ![t] = p],
         age' = [age EXCEPT ![t] = a], idle' = [idle EXCEPT ![t] = i], Sound(n, p, a, i),
         n.at \in Tunneling => tunnel[t].at \in Tunneling \/ Gateway!SlotsUsed < MaxTunnels
  PROVE  TunnelsIInv'
<1> DEFINE before == {s \in Tunnels : tunnel[s].at \in Tunneling}
           after == {s \in Tunnels : tunnel'[s].at \in Tunneling}
<1>1. /\ tunnel' \in [Tunnels -> TunnelRows] /\ pump' \in [Tunnels -> PumpRows]
      /\ age' \in [Tunnels -> Nat] /\ idle' \in [Tunnels -> Nat]
  BY DEF TunnelsIInv
<1>2. /\ tunnel'[t] = n /\ pump'[t] = p /\ age'[t] = a /\ idle'[t] = i
      /\ \A s \in Tunnels \ {t} : /\ tunnel'[s] = tunnel[s] /\ pump'[s] = pump[s]
                                  /\ age'[s] = age[s] /\ idle'[s] = idle[s]
  BY DEF TunnelsIInv
<1>3. \A s \in Tunnels : Sound(tunnel[s], pump[s], age[s], idle[s])'
  <2> SUFFICES ASSUME NEW s \in Tunnels PROVE Sound(tunnel'[s], pump'[s], age'[s], idle'[s])
    BY DEF Sound
  <2>1. CASE s = t
    BY <1>2, <2>1
  <2>2. CASE s # t
    BY <1>2, <2>2 DEF TunnelsIInv
  <2> QED BY <2>1, <2>2
<1>4. Gateway!SlotsUsed' <= MaxTunnels
  <2>1. /\ IsFiniteSet(before) /\ IsFiniteSet(before \cup {t}) /\ Cardinality(before) \in Nat
        /\ Cardinality(before \cup {t}) <= Cardinality(before) + 1
    <3>1. before \in SUBSET Tunnels /\ IsFiniteSet(Tunnels)
      BY GatewayCounts DEF Gateway!GatewayAssumption
    <3> HIDE DEF before
    <3>2. IsFiniteSet(before)
      BY <3>1, FS_Subset
    <3>3. IsFiniteSet(before \cup {t}) /\ (t \in before \/ Cardinality(before \cup {t}) = Cardinality(before) + 1)
      BY <3>2, FS_AddElement
    <3>4. t \in before => before \cup {t} = before
      OBVIOUS
    <3>5. Cardinality(before) \in Nat
      BY <3>2, FS_CardinalityType
    <3>6. CASE t \in before
      <4>1. Cardinality(before \cup {t}) = Cardinality(before) /\ IsFiniteSet(before \cup {t})
        BY ONLY <3>2, <3>4, <3>6, Zenon
      <4> QED BY <3>2, <3>5, <4>1
    <3>7. CASE t \notin before
      BY <3>2, <3>3, <3>5, <3>7
    <3> QED BY <3>6, <3>7
  <2>2. Gateway!SlotsUsed = Cardinality(before) /\ Gateway!SlotsUsed' = Cardinality(after)
    <3>1. Gateway!SlotsUsed = Gateway!Cardinality(before) /\ Gateway!SlotsUsed' = Gateway!Cardinality(after)
      BY DEF Gateway!SlotsUsed, Gateway!Holding, Tunneling
    <3> HIDE DEF before, after
    <3> QED BY <3>1, GatewayCounts
  <2>3. MaxTunnels \in Nat /\ Cardinality(before) <= MaxTunnels
    BY <2>2 DEF Gateway!GatewayAssumption, TunnelsIInv
  <2>4. CASE n.at \in Tunneling /\ tunnel[t].at \notin Tunneling
    <3>1. after \in SUBSET (before \cup {t}) /\ Cardinality(before) + 1 <= MaxTunnels
      BY <1>2, <2>1, <2>2, <2>3, <2>4 DEF Tunneling
    <3> HIDE DEF before, after
    <3>2. /\ Cardinality(after) <= Cardinality(before \cup {t})
          /\ Cardinality(after) \in Nat /\ Cardinality(before \cup {t}) \in Nat
      BY <2>1, <3>1, FS_Subset, FS_CardinalityType
    <3> QED BY <2>1, <2>2, <2>3, <3>1, <3>2
  <2>5. CASE ~(n.at \in Tunneling /\ tunnel[t].at \notin Tunneling)
    <3>1. after \in SUBSET before
      BY <1>2, <2>5 DEF Tunneling
    <3> HIDE DEF before, after
    <3>2. Cardinality(after) <= Cardinality(before) /\ Cardinality(after) \in Nat
      BY <2>1, <3>1, FS_Subset, FS_CardinalityType
    <3> QED BY <2>1, <2>2, <2>3, <3>2
  <2> QED BY <2>4, <2>5
<1> QED BY <1>1, <1>3, <1>4 DEF TunnelsIInv

-----------------------------------------------------------------------------
(* Setting a tunnel up.                                                    *)

\* What the invariant says of one tunnel.
LEMMA TunnelFacts ==
  ASSUME TunnelsIInv, NEW t \in Tunnels
  PROVE  /\ tunnel[t] \in TunnelRows /\ pump[t] \in PumpRows /\ age[t] \in Nat /\ idle[t] \in Nat
         /\ Sound(tunnel[t], pump[t], age[t], idle[t])
         /\ tunnel = [tunnel EXCEPT ![t] = tunnel[t]] /\ pump = [pump EXCEPT ![t] = pump[t]]
         /\ age = [age EXCEPT ![t] = age[t]] /\ idle = [idle EXCEPT ![t] = idle[t]]
BY DEF TunnelsIInv

\* A row that is refused, and one that is asked for.
Refuse(row, code) == [row EXCEPT !.at = "closed", !.code = code]
AskFor(row, host, port) == [row EXCEPT !.at = "connecting", !.host = host, !.port = port]

\* The values that a step writes are values of a row.
LEMMA Fields ==
  /\ "new" \in Places /\ "closed" \in Places /\ "connecting" \in Places /\ "client_tls" \in Places
  /\ "relaying" \in Places /\ "" \in Names /\ 0 \in Ports /\ "refused" \in Decisions /\ "allowed" \in Decisions
  /\ "none" \in Upstreams /\ "verified" \in Upstreams /\ "closed" \in Upstreams
BY DEF Places, Tunneling, Names, Ports, Decisions, Upstreams

\* A row that is closed keeps its decision, with the connection to the provider or without.
LEMMA Closes ==
  ASSUME NEW row \in TunnelRows, NEW code \in Codes
  PROVE  /\ Refuse(row, code) \in TunnelRows /\ Refuse(row, code).at = "closed"
         /\ Refuse(row, code).code = code /\ Refuse(row, code).decision = row.decision
BY Fields DEF TunnelRows, Refuse

\* A row that is ended, for whatever reason, is a row.
LEMMA ClosesBoth ==
  ASSUME NEW row \in TunnelRows, NEW code \in Codes
  PROVE  /\ Gateway!Ended(row, code) \in TunnelRows /\ Gateway!Ended(row, code).at = "closed"
         /\ Gateway!Ended(row, code).code = code /\ Gateway!Ended(row, code).decision = row.decision
BY Fields DEF TunnelRows, Gateway!Ended

\* A tunnel that is asked for, one whose provider proved its name, and one that is relayed.
LEMMA Asks ==
  ASSUME NEW row \in TunnelRows, NEW host \in Hosts, NEW port, port \in {443, 80}
  PROVE  /\ AskFor(row, host, port) \in TunnelRows /\ AskFor(row, host, port).at = "connecting"
         /\ AskFor(row, host, port).host = host /\ AskFor(row, host, port).decision = row.decision
<1>1. port \in Ports /\ host \in Names
  BY DEF Ports, Names
<1> QED BY <1>1, Fields DEF TunnelRows, AskFor

\* A row whose upstream is verified, or is not, is a row.
LEMMA Proves ==
  ASSUME NEW row \in TunnelRows, NEW n, n = [row EXCEPT !.at = "client_tls", !.upstream = "verified"]
  PROVE  /\ n \in TunnelRows /\ n.at = "client_tls" /\ n.upstream = "verified" /\ n.host = row.host
         /\ n.port = row.port /\ n.decision = row.decision
BY Fields DEF TunnelRows

\* A row that begins to relay is a row.
LEMMA Relays ==
  ASSUME NEW row \in TunnelRows, NEW n, n = [row EXCEPT !.at = "relaying", !.decision = "allowed"]
  PROVE  /\ n \in TunnelRows /\ n.at = "relaying" /\ n.decision = "allowed" /\ n.host = row.host
         /\ n.port = row.port /\ n.upstream = row.upstream
BY Fields DEF TunnelRows

\* A tunnel that is not relayed ends as soundly as it was, and has no pump that runs.
LEMMA Refused ==
  ASSUME NEW row, NEW n, NEW p, NEW a, NEW i, Sound(row, p, a, i), row.at \in {"new", "connecting", "client_tls"},
         n.at = "closed", n.decision = row.decision
  PROVE  Sound(n, p, a, i)
<1>1. n.decision = "refused" /\ n.at \notin Tunneling /\ n.at \notin {"new", "connecting", "client_tls", "relaying"}
  BY DEF Sound, Tunneling
<1>2. \A d \in Gateway!Directions : p[d].bytes <= ByteLimit /\ p[d] = Gateway!Off
  BY DEF Sound
<1>3. \A d \in Gateway!Directions : p[d].state \notin Gateway!Alive /\ p[d].state # "running"
  BY <1>2 DEF Gateway!Off, Gateway!Alive
<1> QED BY <1>1, <1>2, <1>3 DEF Sound, Tunneling

\* A connection asks: it waits for its tunnel or is refused, with no slot taken.
LEMMA RequestStep ==
  ASSUME Gateway!GatewayAssumption, TunnelsIInv, NEW t \in Tunnels, NEW r \in Gateway!Requests, Gateway!Request(t, r)
  PROVE  TunnelsIInv'
<1>0. PICK row \in TunnelRows : row = tunnel[t] /\ Sound(row, pump[t], age[t], idle[t])
  BY TunnelFacts
<1> DEFINE code == Gateway!Refusal(r, Gateway!SlotsUsed >= MaxTunnels)
<1>1. /\ row.at = "new"
      /\ tunnel' = [tunnel EXCEPT ![t] =
           IF r.head = "disconnected" THEN [row EXCEPT !.at = "closed", !.code = "bad_request"]
           ELSE IF code # "" THEN [row EXCEPT !.at = "closed", !.code = code]
           ELSE [row EXCEPT !.at = "connecting", !.host = r.host, !.port = r.port]]
      /\ pump' = [pump EXCEPT ![t] = pump[t]]
      /\ age' = [age EXCEPT ![t] = age[t]] /\ idle' = [idle EXCEPT ![t] = idle[t]]
  BY <1>0, TunnelFacts DEF Gateway!Request
<1>2. code \in Refusals \cup {""} /\ (code = "" => r.host \in Hosts /\ r.port \in {443, 80})
  BY DEF Gateway!Refusal, Gateway!Requests, Refusals
<1>3. code = "" => r.host \in Allowed /\ ~(Gateway!SlotsUsed >= MaxTunnels)
  BY DEF Gateway!Refusal
<1>4. Gateway!SlotsUsed \in Nat /\ MaxTunnels \in Nat
  BY SlotsCounted DEF Gateway!GatewayAssumption
<1> HIDE DEF code
<1>5. ASSUME NEW c \in Codes, tunnel' = [tunnel EXCEPT ![t] = [row EXCEPT !.at = "closed", !.code = c]]
      PROVE  TunnelsIInv'
  <2> DEFINE n == Refuse(row, c)
  <2>0. n = Refuse(row, c) /\ tunnel' = [tunnel EXCEPT ![t] = n]
    BY <1>5 DEF Refuse
  <2> HIDE DEF n
  <2>1. n \in TunnelRows /\ n.at = "closed" /\ n.decision = row.decision
    BY <2>0, Closes
  <2>2. Sound(n, pump[t], age[t], idle[t])
    BY <1>0, <1>1, <2>1, Refused
  <2>3. n.at \notin Tunneling
    BY <2>1 DEF Tunneling
  <2> QED BY <1>1, <2>0, <2>1, <2>2, <2>3, TunnelFacts, TunnelMoves
<1>6. CASE r.head # "disconnected" /\ code = ""
  <2> DEFINE n == AskFor(row, r.host, r.port)
  <2>0. n = AskFor(row, r.host, r.port) /\ tunnel' = [tunnel EXCEPT ![t] = n]
    BY <1>1, <1>2, <1>6 DEF AskFor
  <2> HIDE DEF n
  <2>1. n \in TunnelRows /\ n.at = "connecting" /\ n.host = r.host /\ n.decision = row.decision
    <3>1. r.host \in Hosts /\ r.port \in {443, 80}
      BY <1>2, <1>6
    <3> QED BY <2>0, <3>1, Asks
  <2>2. Sound(n, pump[t], age[t], idle[t])
    <3>1. /\ row.decision = "refused" /\ age[t] = 0 /\ idle[t] = 0
          /\ \A d \in Gateway!Directions : pump[t][d].bytes <= ByteLimit /\ pump[t][d] = Gateway!Off
      <4>1. Sound(row, pump[t], age[t], idle[t])
        BY <1>0, <1>1, Zenon
      <4>2. row.at \in {"new", "connecting", "client_tls"}
        BY <1>0, <1>1
      <4> QED BY <4>1, <4>2, Zenon DEF Sound
    <3>2. \A d \in Gateway!Directions : pump[t][d].state \notin Gateway!Alive /\ pump[t][d].state # "running"
      BY <3>1 DEF Gateway!Off, Gateway!Alive
    <3> QED BY <1>3, <1>6, <2>1, <3>1, <3>2 DEF Sound, Tunneling
  <2>3. Gateway!SlotsUsed < MaxTunnels
    <3>1. ~(Gateway!SlotsUsed >= MaxTunnels)
      BY <1>3, <1>6
    <3> QED BY <1>4, <3>1
  <2> QED BY <1>1, <2>0, <2>1, <2>2, <2>3, TunnelFacts, TunnelMoves
<1>7. "bad_request" \in Codes /\ (code # "" => code \in Codes)
  BY <1>2 DEF Codes, Refusals
<1> QED BY <1>1, <1>5, <1>6, <1>7

\* The connection to the provider is made and its name proved, or the tunnel is refused.
LEMMA ConnectStep ==
  ASSUME Gateway!GatewayAssumption, TunnelsIInv, NEW t \in Tunnels, NEW answer \in Gateway!Answers,
         NEW dials \in {<<>>} \cup (Gateway!Dials \X Gateway!Dials), Gateway!Connect(t, answer, dials)
  PROVE  TunnelsIInv'
<1>0. PICK row \in TunnelRows : row = tunnel[t] /\ Sound(row, pump[t], age[t], idle[t])
  BY TunnelFacts
<1> DEFINE code == IF row.port # 443 THEN "blocked_port"
                   ELSE IF answer # "resolved" THEN answer
                   ELSE Gateway!Upstream(dials)
<1>1. /\ row.at = "connecting"
      /\ tunnel' = [tunnel EXCEPT ![t] =
           IF code = "verified" THEN [row EXCEPT !.at = "client_tls", !.upstream = "verified"]
           ELSE [row EXCEPT !.at = "closed", !.code = code]]
      /\ pump' = [pump EXCEPT ![t] = pump[t]]
      /\ age' = [age EXCEPT ![t] = age[t]] /\ idle' = [idle EXCEPT ![t] = idle[t]]
  BY <1>0, TunnelFacts DEF Gateway!Connect
<1>2. Gateway!Upstream(dials) \in Gateway!Dials
  <2>1. CASE dials = <<>>
    BY <2>1 DEF Gateway!Upstream, Gateway!Dials
  <2>2. CASE dials \in Gateway!Dials \X Gateway!Dials
    BY <2>2 DEF Gateway!Upstream, Gateway!Dials
  <2> QED BY <2>1, <2>2
<1>3. /\ code \in Failures \cup {"verified"} /\ (code = "verified" => row.port = 443)
      /\ row.at \in Tunneling
  BY <1>1, <1>2 DEF Gateway!Answers, Gateway!Dials, Failures, Tunneling
<1> HIDE DEF code
<1>4. CASE code # "verified"
  <2> DEFINE n == Refuse(row, code)
  <2>0. n = Refuse(row, code) /\ tunnel' = [tunnel EXCEPT ![t] = n] /\ code \in Codes
    BY <1>1, <1>3, <1>4 DEF Codes, Refuse
  <2> HIDE DEF n
  <2>1. n \in TunnelRows /\ n.at = "closed" /\ n.decision = row.decision
    BY <2>0, Closes
  <2>2. Sound(n, pump[t], age[t], idle[t])
    BY <1>0, <1>1, <2>1, Refused
  <2>3. n.at \notin Tunneling
    BY <2>1 DEF Tunneling
  <2> QED BY <1>1, <2>0, <2>1, <2>2, <2>3, TunnelFacts, TunnelMoves, ZenonT(40)
<1>5. CASE code = "verified"
  <2> DEFINE n == [row EXCEPT !.at = "client_tls", !.upstream = "verified"]
  <2>1. /\ n \in TunnelRows /\ n.at = "client_tls" /\ n.upstream = "verified" /\ n.host = row.host /\ n.port = row.port
        /\ n.decision = row.decision /\ tunnel' = [tunnel EXCEPT ![t] = n]
    BY <1>1, <1>5, Proves
  <2> HIDE DEF n
  <2>2. Sound(n, pump[t], age[t], idle[t])
    <3>1. /\ row.decision = "refused" /\ age[t] = 0 /\ idle[t] = 0 /\ row.host \in Allowed
          /\ \A d \in Gateway!Directions : pump[t][d].bytes <= ByteLimit /\ pump[t][d] = Gateway!Off
      BY <1>0, <1>1, <1>3 DEF Sound
    <3>2. \A d \in Gateway!Directions : pump[t][d].state \notin Gateway!Alive /\ pump[t][d].state # "running"
      BY <3>1 DEF Gateway!Off, Gateway!Alive
    <3> QED BY <1>3, <1>5, <2>1, <3>1, <3>2 DEF Sound, Tunneling
  <2>3. /\ tunnel[t].at \in Tunneling /\ pump[t] \in PumpRows /\ age[t] \in Nat /\ idle[t] \in Nat
        /\ tunnel' = [tunnel EXCEPT ![t] = n]
    BY <1>0, <1>3, <2>1, TunnelFacts
  <2> QED BY <1>1, <2>1, <2>2, <2>3, TunnelMoves
<1> QED BY <1>4, <1>5

\* The client starts TLS and both pumps run, or it leaves.
LEMMA ClientTlsStep ==
  ASSUME Gateway!GatewayAssumption, TunnelsIInv, NEW t \in Tunnels, NEW outcome \in {"ok", "tls_failed", "left"},
         Gateway!ClientTls(t, outcome)
  PROVE  TunnelsIInv'
<1>0. PICK row \in TunnelRows : row = tunnel[t] /\ Sound(row, pump[t], age[t], idle[t])
  BY TunnelFacts
<1>1. /\ row.at = "client_tls"
      /\ tunnel' = [tunnel EXCEPT ![t] =
           IF outcome = "ok" THEN [row EXCEPT !.at = "relaying", !.decision = "allowed"]
           ELSE IF outcome = "left" THEN [row EXCEPT !.at = "closed", !.code = "client_disconnected"]
           ELSE [row EXCEPT !.at = "closed", !.code = "client_tls_failed", !.upstream = "closed"]]
      /\ pump' = [pump EXCEPT ![t] =
           IF outcome = "ok" THEN [d \in Gateway!Directions |-> [Gateway!Off EXCEPT !.state = "running"]]
           ELSE pump[t]]
      /\ age' = [age EXCEPT ![t] = age[t]] /\ idle' = [idle EXCEPT ![t] = idle[t]]
  BY <1>0, TunnelFacts DEF Gateway!ClientTls
<1>2. /\ row.at \in Tunneling /\ tunnel[t].at \in Tunneling
      /\ "client_tls_failed" \in Codes /\ "client_disconnected" \in Codes
  BY <1>0, <1>1 DEF Tunneling, Codes, Ends
<1>3. CASE outcome = "ok"
  <2> DEFINE n == [row EXCEPT !.at = "relaying", !.decision = "allowed"]
             p == [d \in Gateway!Directions |-> [Gateway!Off EXCEPT !.state = "running"]]
  <2>1. /\ n \in TunnelRows /\ n.at = "relaying" /\ n.host = row.host /\ n.port = row.port /\ n.upstream = row.upstream
        /\ n.decision = "allowed" /\ tunnel' = [tunnel EXCEPT ![t] = n]
    BY <1>1, <1>3, Relays
  <2>2. /\ p \in PumpRows /\ p["down"].state \in Gateway!Alive
        /\ \A d \in Gateway!Directions : p[d].state = "running" /\ p[d].bytes = 0 /\ p[d].idle = 0
    BY DEF Gateway!Directions, Gateway!Off, Gateway!Alive, PumpRows
  <2>3. /\ pump' = [pump EXCEPT ![t] = p]
        /\ age' = [age EXCEPT ![t] = age[t]] /\ idle' = [idle EXCEPT ![t] = idle[t]]
    BY <1>1, <1>3
  <2> HIDE DEF n, p
  <2>4. Sound(n, p, age[t], idle[t])
    <3>1. age[t] = 0 /\ idle[t] = 0 /\ row.host \in Allowed /\ row.port = 443 /\ row.upstream = "verified"
      BY <1>0, <1>1 DEF Sound, Tunneling
    <3> QED BY <2>1, <2>2, <3>1 DEF Sound, Tunneling, Gateway!GatewayAssumption
  <2> QED BY <1>2, <2>1, <2>2, <2>3, <2>4, TunnelFacts, TunnelMoves
<1>4. ASSUME NEW n \in TunnelRows, n.at = "closed", n.decision = row.decision, tunnel' = [tunnel EXCEPT ![t] = n],
             outcome # "ok"
      PROVE  TunnelsIInv'
  <2>1. Sound(n, pump[t], age[t], idle[t])
    BY <1>0, <1>1, <1>4, Refused
  <2>2. /\ pump' = [pump EXCEPT ![t] = pump[t]] /\ n.at \notin Tunneling
        /\ age' = [age EXCEPT ![t] = age[t]] /\ idle' = [idle EXCEPT ![t] = idle[t]]
    BY <1>1, <1>4 DEF Tunneling
  <2> QED BY <1>4, <2>1, <2>2, TunnelFacts, TunnelMoves
<1>5. CASE outcome = "tls_failed"
  <2>1. tunnel' = [tunnel EXCEPT ![t] = Gateway!Ended(row, "client_tls_failed")]
    BY <1>1, <1>5 DEF Gateway!Ended
  <2> QED BY <1>2, <1>4, <1>5, <2>1, ClosesBoth
<1>6. CASE outcome = "left"
  <2>1. tunnel' = [tunnel EXCEPT ![t] = Refuse(row, "client_disconnected")]
    BY <1>1, <1>6 DEF Refuse
  <2> QED BY <1>2, <1>4, <1>6, <2>1, Closes
<1> QED BY <1>3, <1>5, <1>6

-----------------------------------------------------------------------------
(* Relaying.                                                               *)

EndsAt(t, code, finished, a, i) ==
  Gateway!EndRelay(t, code, finished) /\ age' = [age EXCEPT ![t] = a] /\ idle' = [idle EXCEPT ![t] = i]

\* A tunnel ends: without an error only when the provider's side has sent everything.
LEMMA RelayEnds ==
  ASSUME Gateway!GatewayAssumption, TunnelsIInv, NEW t \in Tunnels, NEW code \in Codes,
         NEW finished \in SUBSET Gateway!Directions, code = "" => "down" \in finished,
         NEW a \in Nat, NEW i \in Nat, EndsAt(t, code, finished, a, i)
  PROVE  TunnelsIInv'
<1>0. PICK row \in TunnelRows : row = tunnel[t]
  BY TunnelFacts
<1>1. PICK old \in PumpRows : old = pump[t] /\ \A d \in Gateway!Directions : old[d].bytes <= ByteLimit
  <2>1. pump[t] \in PumpRows /\ Sound(tunnel[t], pump[t], age[t], idle[t])
    BY TunnelFacts, Zenon
  <2>2. \A d \in Gateway!Directions : pump[t][d].bytes <= ByteLimit
    BY <2>1, Zenon DEF Sound
  <2> QED BY <2>1, <2>2, Zenon
<1> DEFINE n == Gateway!Ended(row, code)
           p == [d \in Gateway!Directions |->
                  [pump[t][d] EXCEPT !.state = IF d \in finished \/ @ = "done" THEN "done" ELSE "off"]]
<1>2. /\ tunnel' = [tunnel EXCEPT ![t] = n] /\ pump' = [pump EXCEPT ![t] = p]
      /\ age' = [age EXCEPT ![t] = a] /\ idle' = [idle EXCEPT ![t] = i]
  BY <1>0 DEF EndsAt, Gateway!EndRelay, TunnelsIInv
<1>3. n \in TunnelRows /\ n.at = "closed" /\ n.code = code
  BY ClosesBoth
<1>4. /\ p \in PumpRows
      /\ \A d \in Gateway!Directions : /\ p[d].state \notin Gateway!Alive /\ p[d].bytes = old[d].bytes
                                       /\ d \in finished => p[d].state = "done"
  BY <1>1 DEF PumpRows, Gateway!Alive
<1> HIDE DEF n, p
<1>5. Sound(n, p, a, i)
  BY <1>1, <1>3, <1>4 DEF Sound, Tunneling, Gateway!Directions, Gateway!Alive
<1>6. n.at \notin Tunneling
  BY <1>3 DEF Tunneling
<1> QED BY <1>2, <1>3, <1>4, <1>5, <1>6, TunnelMoves

\* A tunnel in which something is relayed, and whose other pump is as it was.
LEMMA ReadsOn ==
  ASSUME Gateway!GatewayAssumption, NEW row, NEW a, NEW i \in Nat, NEW old \in PumpRows, NEW p \in PumpRows,
         NEW d \in Gateway!Directions, Sound(row, old, a, i), row.at = "relaying", p[d].idle = 0,
         p[d].bytes <= ByteLimit, p[d].state \in Gateway!Alive, \A e \in Gateway!Directions \ {d} : p[e] = old[e]
  PROVE  Sound(row, p, a, 0)
<1>1. \A e \in Gateway!Directions : old[e].idle \in Nat
  BY DEF PumpRows
<1>2. /\ row.host \in Allowed /\ row.port = 443 /\ row.upstream = "verified" /\ a < TimeLimit
      /\ old["down"].state \in Gateway!Alive
      /\ \A e \in Gateway!Directions :
           old[e].bytes <= ByteLimit /\ (old[e].state = "running" => old[e].idle < IdleLimit)
  BY DEF Sound, Tunneling
<1>3. p["down"].state \in Gateway!Alive
  BY <1>2 DEF Gateway!Directions
<1>4. \A e \in Gateway!Directions :
        p[e].bytes <= ByteLimit /\ (p[e].state = "running" => 0 <= p[e].idle /\ p[e].idle < IdleLimit)
  BY <1>1, <1>2 DEF Gateway!GatewayAssumption
<1>5. row.at # "closed" /\ row.at \notin {"new", "connecting", "client_tls"}
  OBVIOUS
<1> QED BY <1>2, <1>3, <1>4, <1>5 DEF Sound

\* Data that is relayed, or that is too much, keeps the invariant; so do
LEMMA DataStep ==
  ASSUME Gateway!GatewayAssumption, TunnelsIInv, NEW t \in Tunnels, NEW d \in Gateway!Directions,
         NEW taken \in BOOLEAN, Gateway!Data(t, d, taken)
  PROVE  TunnelsIInv'
<1>0. PICK row \in TunnelRows, old \in PumpRows : row = tunnel[t] /\ old = pump[t] /\ Sound(row, old, age[t], idle[t])
  BY TunnelFacts
<1>1. row.at = "relaying" /\ old[d].state = "running" /\ age' = [age EXCEPT ![t] = age[t]]
  BY <1>0, TunnelFacts DEF Gateway!Data
<1>2. CASE old[d].bytes = ByteLimit
  <2>1. EndsAt(t, "tunnel_byte_limit", {}, age[t], idle[t])
    BY <1>0, <1>1, <1>2, TunnelFacts DEF Gateway!Data, EndsAt
  <2>2. "tunnel_byte_limit" \in Codes /\ "tunnel_byte_limit" # ""
    BY DEF Codes, Ends
  <2> QED BY <2>1, <2>2, TunnelFacts, RelayEnds
<1>3. CASE old[d].bytes # ByteLimit
  <2> DEFINE next == IF taken THEN "running" ELSE "draining"
             p == [old EXCEPT ![d] = [state |-> next, bytes |-> @.bytes + 1, idle |-> 0]]
  <2>1. /\ tunnel' = [tunnel EXCEPT ![t] = row] /\ pump' = [pump EXCEPT ![t] = p]
        /\ idle' = [idle EXCEPT ![t] = 0]
    BY <1>0, <1>3, TunnelFacts DEF Gateway!Data, TunnelsIInv
  <2>2. next \in {"running", "draining"}
    OBVIOUS
  <2> HIDE DEF next
  <2>3. /\ p \in PumpRows
        /\ p[d].state = next /\ p[d].bytes = old[d].bytes + 1 /\ p[d].idle = 0
        /\ \A e \in Gateway!Directions \ {d} : p[e] = old[e]
    BY <1>1, <2>2 DEF PumpRows
  <2> HIDE DEF p
  <2>4. old[d].bytes \in Nat /\ old[d].bytes <= ByteLimit /\ ByteLimit \in Nat
    BY <1>0 DEF Sound, PumpRows, Gateway!GatewayAssumption
  <2>5. Sound(row, p, age[t], 0)
    <3>1. p[d].bytes <= ByteLimit /\ p[d].state \in Gateway!Alive
      BY <1>3, <2>2, <2>3, <2>4 DEF Gateway!Alive
    <3>2. idle[t] \in Nat
      BY TunnelFacts
    <3> QED BY <1>0, <1>1, <2>3, <3>1, <3>2, ReadsOn
  <2>6. 0 \in Nat /\ age[t] \in Nat
    BY TunnelFacts
  <2> QED BY <1>0, <1>1, <2>1, <2>3, <2>5, <2>6, TunnelMoves
<1> QED BY <1>2, <1>3

\* A side that has taken what was written,
LEMMA DrainedStep ==
  ASSUME Gateway!GatewayAssumption, TunnelsIInv, NEW t \in Tunnels, NEW d \in Gateway!Directions, Gateway!Drained(t, d)
  PROVE  TunnelsIInv'
<1>0. PICK row \in TunnelRows, old \in PumpRows : row = tunnel[t] /\ old = pump[t] /\ Sound(row, old, age[t], idle[t])
  BY TunnelFacts
<1>1. row.at = "relaying" /\ old[d].state = "draining" /\ age' = [age EXCEPT ![t] = age[t]]
  BY <1>0, TunnelFacts DEF Gateway!Drained
<1> DEFINE p == [old EXCEPT ![d] = [@ EXCEPT !.state = "running", !.idle = 0]]
<1>2. /\ tunnel' = [tunnel EXCEPT ![t] = row] /\ pump' = [pump EXCEPT ![t] = p]
      /\ idle' = [idle EXCEPT ![t] = 0]
  BY <1>0, TunnelFacts DEF Gateway!Drained, TunnelsIInv
<1>3. /\ p \in PumpRows /\ p[d].state = "running" /\ p[d].bytes = old[d].bytes /\ p[d].idle = 0
      /\ \A e \in Gateway!Directions \ {d} : p[e] = old[e]
  BY DEF PumpRows
<1> HIDE DEF p
<1>4. p[d].bytes <= ByteLimit /\ p[d].state \in Gateway!Alive
  BY <1>0, <1>3 DEF Sound, Gateway!Alive
<1>5. 0 \in Nat /\ age[t] \in Nat /\ idle[t] \in Nat
  BY TunnelFacts
<1>6. Sound(row, p, age[t], 0)
  BY <1>0, <1>1, <1>3, <1>4, <1>5, ReadsOn
<1> QED BY <1>0, <1>1, <1>2, <1>3, <1>5, <1>6, TunnelMoves

\* the end of one direction,
LEMMA EndOfDataStep ==
  ASSUME Gateway!GatewayAssumption, TunnelsIInv, NEW t \in Tunnels, NEW d \in Gateway!Directions, Gateway!EndOfData(t, d)
  PROVE  TunnelsIInv'
<1>0. PICK row \in TunnelRows, old \in PumpRows : row = tunnel[t] /\ old = pump[t] /\ Sound(row, old, age[t], idle[t])
  BY TunnelFacts
<1>1. /\ row.at = "relaying" /\ age' = [age EXCEPT ![t] = age[t]] /\ idle' = [idle EXCEPT ![t] = idle[t]]
  BY <1>0, TunnelFacts DEF Gateway!EndOfData
<1>2. CASE d = "down"
  <2>1. EndsAt(t, "", {d}, age[t], idle[t]) /\ "" \in Codes /\ "down" \in {d} /\ {d} \in SUBSET Gateway!Directions
    BY <1>1, <1>2 DEF Gateway!EndOfData, EndsAt, Codes
  <2> QED BY <2>1, TunnelFacts, RelayEnds
<1>3. CASE d # "down"
  <2> DEFINE p == [old EXCEPT ![d] = [@ EXCEPT !.state = "done"]]
  <2>1. tunnel' = [tunnel EXCEPT ![t] = row] /\ pump' = [pump EXCEPT ![t] = p]
    BY <1>0, <1>3, TunnelFacts DEF Gateway!EndOfData, TunnelsIInv
  <2>2. /\ p \in PumpRows /\ p[d].state = "done" /\ p[d].bytes = old[d].bytes
        /\ \A e \in Gateway!Directions \ {d} : p[e] = old[e]
    BY DEF PumpRows
  <2> HIDE DEF p
  <2>3. Sound(row, p, age[t], idle[t])
    <3>1. \A e \in Gateway!Directions :
            p[e].bytes = old[e].bytes /\ (p[e].state \in Gateway!Alive \/ p[e].state = "running" => p[e] = old[e])
      BY <2>2 DEF Gateway!Alive
    <3>2. p["down"] = old["down"]
      BY <1>3, <2>2 DEF Gateway!Directions
    <3>3. row.at # "closed" /\ row.at \notin {"new", "connecting", "client_tls"}
      BY <1>1
    <3> QED BY <1>0, <1>1, <3>1, <3>2, <3>3 DEF Sound
  <2> QED BY <1>0, <1>1, <2>1, <2>2, <2>3, TunnelFacts, TunnelMoves
<1> QED BY <1>2, <1>3

\* and a direction that fails.
LEMMA PumpFailsStep ==
  ASSUME Gateway!GatewayAssumption, TunnelsIInv, NEW t \in Tunnels, NEW d \in Gateway!Directions, Gateway!PumpFails(t, d)
  PROVE  TunnelsIInv'
<1>1. EndsAt(t, "tunnel_closed", {}, age[t], idle[t])
  BY TunnelFacts DEF Gateway!PumpFails, EndsAt
<1>2. "tunnel_closed" \in Codes /\ "tunnel_closed" # ""
  BY DEF Codes, Ends
<1> QED BY <1>1, <1>2, TunnelFacts, RelayEnds

\* A tick: a pump has waited too long, the tunnel is too old, or everything waits one tick more.
LEMMA TickStep ==
  ASSUME Gateway!GatewayAssumption, TunnelsIInv, NEW t \in Tunnels, Gateway!Tick(t)
  PROVE  TunnelsIInv'
<1>0. PICK row \in TunnelRows, old \in PumpRows : row = tunnel[t] /\ old = pump[t] /\ Sound(row, old, age[t], idle[t])
  BY TunnelFacts
<1>1. /\ row.at = "relaying" /\ age' = [age EXCEPT ![t] = age[t] + 1] /\ idle' = [idle EXCEPT ![t] = idle[t] + 1]
      /\ age[t] + 1 \in Nat /\ idle[t] + 1 \in Nat
  BY <1>0, TunnelFacts DEF Gateway!Tick
<1>2. /\ {"tunnel_idle_timeout", "tunnel_time_limit"} \subseteq Codes
      /\ "tunnel_idle_timeout" # "" /\ "tunnel_time_limit" # ""
  BY DEF Codes, Ends
<1>3. CASE \E d \in Gateway!Directions : Gateway!Expired(t, d)
  <2>1. EndsAt(t, "tunnel_idle_timeout", {}, age[t] + 1, idle[t] + 1) /\ {} \in SUBSET Gateway!Directions
    BY <1>1, <1>3 DEF Gateway!Tick, EndsAt
  <2>2. "tunnel_idle_timeout" \in Codes /\ age[t] + 1 \in Nat /\ idle[t] + 1 \in Nat
    BY <1>1, <1>2
  <2> QED BY <1>2, <2>1, <2>2, RelayEnds
<1>4. CASE ~(\E d \in Gateway!Directions : Gateway!Expired(t, d)) /\ age[t] + 1 >= TimeLimit
  <2>1. EndsAt(t, "tunnel_time_limit", {}, age[t] + 1, idle[t] + 1) /\ {} \in SUBSET Gateway!Directions
    BY <1>1, <1>4 DEF Gateway!Tick, EndsAt
  <2>2. "tunnel_time_limit" \in Codes /\ age[t] + 1 \in Nat /\ idle[t] + 1 \in Nat
    BY <1>1, <1>2
  <2> QED BY <1>2, <2>1, <2>2, RelayEnds
<1>5. CASE ~(\E d \in Gateway!Directions : Gateway!Expired(t, d)) /\ ~(age[t] + 1 >= TimeLimit)
  <2> DEFINE p == [d \in Gateway!Directions |->
                    IF pump[t][d].state = "running" THEN [pump[t][d] EXCEPT !.idle = @ + 1] ELSE pump[t][d]]
  <2>1. tunnel' = [tunnel EXCEPT ![t] = row] /\ pump' = [pump EXCEPT ![t] = p]
    BY <1>0, <1>5, TunnelFacts DEF Gateway!Tick, TunnelsIInv
  <2>2. \A d \in Gateway!Directions :
          /\ p[d].state = old[d].state /\ p[d].bytes = old[d].bytes /\ old[d].idle \in Nat
          /\ old[d].state = "running" => p[d].idle = old[d].idle + 1
    BY <1>0 DEF PumpRows
  <2>3. p \in PumpRows
    BY <1>0 DEF PumpRows
  <2> HIDE DEF p
  <2>4. Sound(row, p, age[t] + 1, idle[t] + 1)
    <3>1. /\ row.host \in Allowed /\ row.port = 443 /\ row.upstream = "verified"
          /\ old["down"].state \in Gateway!Alive
          /\ \A d \in Gateway!Directions :
               old[d].bytes <= ByteLimit /\ (old[d].state = "running" => idle[t] <= old[d].idle)
      BY <1>0, <1>1 DEF Sound, Tunneling
    <3>2. IdleLimit \in Nat /\ TimeLimit \in Nat /\ age[t] \in Nat /\ idle[t] \in Nat
      BY TunnelFacts DEF Gateway!GatewayAssumption
    <3>3. age[t] + 1 < TimeLimit
      BY <1>5, <3>2
    <3>4. \A d \in Gateway!Directions : old[d].state = "running" => ~(old[d].idle + 1 >= IdleLimit)
      BY <1>0, <1>5 DEF Gateway!Expired
    <3>5. \A d \in Gateway!Directions : p[d].state = "running" => idle[t] + 1 <= p[d].idle /\ p[d].idle < IdleLimit
      BY <2>2, <3>1, <3>2, <3>4
    <3>6. \A d \in Gateway!Directions : p[d].bytes <= ByteLimit
      BY <2>2, <3>1
    <3>7. p["down"].state \in Gateway!Alive
      BY <2>2, <3>1 DEF Gateway!Directions
    <3> QED BY <1>1, <3>1, <3>3, <3>5, <3>6, <3>7 DEF Sound
  <2> QED BY <1>0, <1>1, <2>1, <2>3, <2>4, TunnelMoves
<1> QED BY <1>3, <1>4, <1>5

-----------------------------------------------------------------------------

\* The gateway begins without tunnels.
LEMMA TunnelsInit == ASSUME Gateway!GatewayAssumption, Gateway!Init PROVE TunnelsIInv
<1>1. /\ tunnel \in [Tunnels -> TunnelRows] /\ age \in [Tunnels -> Nat] /\ idle \in [Tunnels -> Nat]
  BY Fields DEF Gateway!Init, Gateway!NoTunnel, TunnelRows, Codes
<1>2. pump \in [Tunnels -> PumpRows]
  BY DEF Gateway!Init, Gateway!Off, PumpRows
<1>3. Gateway!SlotsUsed <= MaxTunnels
  <2>1. {t \in Tunnels : Gateway!Holding(t)} = {}
    BY DEF Gateway!Init, Gateway!NoTunnel, Gateway!Holding
  <2>2. Gateway!SlotsUsed = 0
    BY <2>1, GatewayCounts, FS_EmptySet DEF Gateway!SlotsUsed
  <2> QED BY <2>2 DEF Gateway!GatewayAssumption
<1>4. ASSUME NEW t \in Tunnels PROVE Sound(tunnel[t], pump[t], age[t], idle[t])
  <2>1. /\ tunnel[t].at = "new" /\ tunnel[t].decision = "refused" /\ age[t] = 0 /\ idle[t] = 0
        /\ \A d \in Gateway!Directions : pump[t][d] = Gateway!Off
    BY DEF Gateway!Init, Gateway!NoTunnel
  <2>2. Gateway!Off.bytes <= ByteLimit /\ Gateway!Off.state # "running" /\ Gateway!Off.state \notin Gateway!Alive
    BY DEF Gateway!Off, Gateway!Alive, Gateway!GatewayAssumption
  <2> QED BY <2>1, <2>2 DEF Sound, Tunneling
<1> QED BY <1>1, <1>2, <1>3, <1>4 DEF TunnelsIInv

\* Every step of the gateway keeps the invariant.
LEMMA TunnelsStep == ASSUME Gateway!GatewayAssumption, TunnelsIInv, [Gateway!Next]_Gateway!vars PROVE TunnelsIInv'
<1>1. CASE Gateway!Next
  <2>1. ASSUME NEW t \in Tunnels, NEW r \in Gateway!Requests, Gateway!Request(t, r) PROVE TunnelsIInv'
    BY <2>1, RequestStep
  <2>2. ASSUME NEW t \in Tunnels, NEW a \in Gateway!Answers,
               NEW dials \in {<<>>} \cup (Gateway!Dials \X Gateway!Dials), Gateway!Connect(t, a, dials)
        PROVE  TunnelsIInv'
    BY <2>2, ConnectStep
  <2>3. ASSUME NEW t \in Tunnels, NEW outcome \in {"ok", "tls_failed", "left"},
               Gateway!ClientTls(t, outcome)
        PROVE  TunnelsIInv'
    BY <2>3, ClientTlsStep
  <2>4. ASSUME NEW t \in Tunnels, NEW d \in Gateway!Directions, NEW taken \in BOOLEAN, Gateway!Data(t, d, taken)
        PROVE  TunnelsIInv'
    BY <2>4, DataStep
  <2>8. ASSUME NEW t \in Tunnels, NEW d \in Gateway!Directions, Gateway!Drained(t, d) PROVE TunnelsIInv'
    BY <2>8, DrainedStep
  <2>5. ASSUME NEW t \in Tunnels, NEW d \in Gateway!Directions, Gateway!EndOfData(t, d) PROVE TunnelsIInv'
    BY <2>5, EndOfDataStep
  <2>6. ASSUME NEW t \in Tunnels, NEW d \in Gateway!Directions, Gateway!PumpFails(t, d) PROVE TunnelsIInv'
    BY <2>6, PumpFailsStep
  <2>7. ASSUME NEW t \in Tunnels, Gateway!Tick(t) PROVE TunnelsIInv'
    BY <2>7, TickStep
  <2> QED BY <1>1, <2>1, <2>2, <2>3, <2>4, <2>5, <2>6, <2>7, <2>8 DEF Gateway!Next
<1>2. CASE UNCHANGED Gateway!vars
  <2>1. tunnel' = tunnel /\ pump' = pump /\ age' = age /\ idle' = idle
    BY <1>2 DEF Gateway!vars
  <2>2. Gateway!SlotsUsed' = Gateway!SlotsUsed
    BY <2>1 DEF Gateway!SlotsUsed, Gateway!Holding
  <2>3. ASSUME NEW t \in Tunnels PROVE Sound(tunnel[t], pump[t], age[t], idle[t])'
    <3>1. Sound(tunnel'[t], pump'[t], age'[t], idle'[t])
      BY <2>1, TunnelFacts
    <3> QED BY <3>1 DEF Sound
  <2> QED BY <2>1, <2>2, <2>3 DEF TunnelsIInv
<1> QED BY <1>1, <1>2

\* What the invariant says of each tunnel, in the words of the properties.
LEMMA TunnelsBounded == ASSUME Gateway!GatewayAssumption, TunnelsIInv PROVE Gateway!TunnelsAreBounded
<1>1. Gateway!SlotsUsed <= MaxTunnels
  BY DEF TunnelsIInv
<1>2. ASSUME NEW t \in Tunnels, tunnel[t].at = "relaying"
      PROVE  /\ tunnel[t].host \in Allowed /\ tunnel[t].port = 443 /\ tunnel[t].upstream = "verified"
             /\ age[t] < TimeLimit
             /\ \E d \in Gateway!Directions : pump[t][d].state \in Gateway!Alive
             /\ (\E d \in Gateway!Directions : pump[t][d].state = "running") => idle[t] < IdleLimit
  <2>1. /\ "down" \in Gateway!Directions /\ pump[t] \in PumpRows /\ idle[t] \in Nat
        /\ Sound(tunnel[t], pump[t], age[t], idle[t]) /\ IdleLimit \in Nat
    BY TunnelFacts DEF Gateway!Directions, Gateway!GatewayAssumption
  <2>2. \A d \in Gateway!Directions : pump[t][d].idle \in Nat
    BY <2>1 DEF PumpRows
  <2>3. /\ pump[t]["down"].state \in Gateway!Alive
        /\ tunnel[t].host \in Allowed /\ tunnel[t].port = 443 /\ tunnel[t].upstream = "verified" /\ age[t] < TimeLimit
        /\ \A d \in Gateway!Directions :
             pump[t][d].state = "running" => idle[t] <= pump[t][d].idle /\ pump[t][d].idle < IdleLimit
    BY <1>2, <2>1 DEF Sound, Tunneling
  <2>4. \A d \in Gateway!Directions : pump[t][d].state = "running" => idle[t] < IdleLimit
    BY <2>1, <2>2, <2>3
  <2> QED BY <2>1, <2>3, <2>4
<1>3. ASSUME NEW t \in Tunnels, NEW d \in Gateway!Directions
      PROVE  /\ pump[t][d].bytes <= ByteLimit
             /\ pump[t][d].state = "running" => pump[t][d].idle < IdleLimit
             /\ pump[t][d].state \in Gateway!Alive => tunnel[t].at = "relaying"
  BY TunnelFacts, ZenonT(40) DEF Sound
<1> QED BY <1>1, <1>2, <1>3 DEF Gateway!TunnelsAreBounded

\* What the invariant says when a tunnel is over.
LEMMA TunnelsEnded == ASSUME TunnelsIInv PROVE Gateway!ProviderEndsTheTunnel
  BY DEF TunnelsIInv, Sound, Gateway!ProviderEndsTheTunnel

\* No more tunnels than there are slots; only a listed name with a proved certificate is relayed, for less
\* than the time that is allowed and no more than the bytes; while one of its pumps reads, it has been idle
\* for less than the idle time; and no pump runs without its tunnel (egress/gateway.py:3-23, 190-206).
THEOREM TunnelsAreAlwaysBounded == ASSUME Gateway!GatewayAssumption PROVE Gateway!Spec => []Gateway!TunnelsAreBounded
<1>1. Gateway!Init => TunnelsIInv
  BY TunnelsInit
<1>2. TunnelsIInv /\ [Gateway!Next]_Gateway!vars => TunnelsIInv'
  BY TunnelsStep
<1>3. TunnelsIInv => Gateway!TunnelsAreBounded
  BY TunnelsBounded
<1> QED BY <1>1, <1>2, <1>3, PTL DEF Gateway!Spec

\* A tunnel that ended without an error ended when the provider had sent everything, whatever the client
\* had done by then (gateway.py:221-223).
THEOREM ProviderAlwaysEndsTheTunnel ==
  ASSUME Gateway!GatewayAssumption PROVE Gateway!Spec => []Gateway!ProviderEndsTheTunnel
<1>1. Gateway!Init => TunnelsIInv
  BY TunnelsInit
<1>2. TunnelsIInv /\ [Gateway!Next]_Gateway!vars => TunnelsIInv'
  BY TunnelsStep
<1>3. TunnelsIInv => Gateway!ProviderEndsTheTunnel
  BY TunnelsEnded
<1> QED BY <1>1, <1>2, <1>3, PTL DEF Gateway!Spec

-----------------------------------------------------------------------------
(* Numbers: there is a least one, and what holds of 0 and of each next one *)
(* holds of all.                                                           *)

\* Numbers have a least one.
LEMMA Least == ASSUME NEW S, S \subseteq Nat, S # {} PROVE \E m \in S : \A n \in S : m <= n
<1> DEFINE R == OpToRel(<, Nat)
<1>1. IsWellFoundedOn(R, Nat)
  BY NatLessThanWellFounded
<1>2. \A i, j \in Nat : <<i, j>> \in R <=> i < j
  BY DEF OpToRel
<1> HIDE DEF R
<1>3. PICK x \in S : \A y \in S : ~ (<<y, x>> \in R)
  BY <1>1, WFMin
<1>4. ASSUME NEW y \in S PROVE x <= y
  <2>1. x \in Nat /\ y \in Nat
    OBVIOUS
  <2>2. ~ (y < x)
    BY <1>2, <1>3, <2>1, Zenon
  <2> QED BY <2>1, <2>2
<1> QED BY <1>4

\* What holds of 0 and of each next number holds of all.
LEMMA Induces == ASSUME NEW S, 0 \in S, \A n \in S \cap Nat : n + 1 \in S PROVE Nat \subseteq S
<1> SUFFICES ASSUME Nat \ S # {} PROVE FALSE
  OBVIOUS
<1>1. PICK m \in Nat \ S : \A n \in Nat \ S : m <= n
  BY Least
<1>2. m - 1 \in Nat /\ m - 1 \notin Nat \ S
  BY <1>1
<1> QED BY <1>1, <1>2

-----------------------------------------------------------------------------
(* Fetching.                                                               *)

Classes ==
  {"public", "listed", "private", "reserved", "teredo", "holds public", "holds listed", "holds private", "holds reserved"}
AnyAddress == [class : Classes, meets : {"answer", "refusal", "silence"}]
AnyHop ==
  [origin : Nat, url : {"fine", "refused"}, interrupted : {"no", "canceled", "timeout"},
   checked : Seq(AnyAddress), dialled : Seq(AnyAddress), size : Nat, ends : {"body", "timeout", "decoding_error"}]
Chains == Seq(AnyHop) \ {<<>>}

\* What is dialled begins what was resolved, all of which the policy permits.
LEMMA DialsThePermitted ==
  ASSUME NEW hop \in AnyHop
  PROVE  /\ Fetching!Dialled(hop) \in Seq(AnyAddress)
         /\ \A k \in DOMAIN Fetching!Dialled(hop) :
              Fetching!Dialled(hop)[k].class \in {"public", "listed", "holds public", "holds listed"}
<1> DEFINE to == hop.dialled
           ends == {i \in DOMAIN to : to[i].meets # "refusal"}
<1>1. to \in Seq(AnyAddress)
  BY DEF AnyHop
<1> HIDE DEF to
<1>2. CASE Fetching!Resolve(to) # "ok"
  <2>1. Fetching!Dialled(hop) = <<>>
    BY <1>2 DEF Fetching!Dialled, to
  <2> QED BY <2>1
<1>3. CASE Fetching!Resolve(to) = "ok"
  <2>1. \A i \in DOMAIN to : Fetching!Permitted(to[i].class)
    BY <1>3 DEF Fetching!Resolve
  <2>2. \A i \in DOMAIN to : to[i].class \in {"public", "listed", "holds public", "holds listed"}
    BY <2>1 DEF Fetching!Permitted, Fetching!Judged
  <2>3. CASE ends = {}
    <3>1. Fetching!Dialled(hop) = to
      BY <1>3, <2>3 DEF Fetching!Dialled, to
    <3> QED BY <1>1, <2>2, <3>1
  <2>4. CASE ends # {}
    <3> DEFINE first == CHOOSE i \in ends : \A j \in ends : i <= j
    <3>1. ends \subseteq Nat
      BY <1>1
    <3> HIDE DEF ends
    <3>2. \E i \in ends : \A j \in ends : i <= j
      BY <2>4, <3>1, Least
    <3>3. first \in ends
      BY <3>2
    <3>4. Fetching!Dialled(hop) = SubSeq(to, 1, first)
      BY <1>3, <2>4 DEF Fetching!Dialled, to, ends
    <3> HIDE DEF first
    <3>5. first \in 1 .. Len(to)
      BY <1>1, <3>3 DEF ends
    <3>6. /\ SubSeq(to, 1, first) \in Seq(AnyAddress) /\ Len(SubSeq(to, 1, first)) = first
          /\ \A k \in 1 .. first : SubSeq(to, 1, first)[k] = to[k] /\ k \in DOMAIN to
      BY <1>1, <3>5
    <3>7. \A k \in DOMAIN SubSeq(to, 1, first) : k \in 1 .. first
      BY <3>6
    <3> QED BY <2>2, <3>4, <3>6, <3>7, Zenon
  <2> QED BY <2>3, <2>4
<1> QED BY <1>2, <1>3

\* A chain ends: at the latest where it has no other hop.
LEMMA ChainsEnd ==
  ASSUME NEW hops \in Chains, NEW same \in BOOLEAN
  PROVE  LET last == Fetching!LastHop(hops, same) IN
         /\ last \in 1 .. Len(hops) /\ Fetching!End(hops, same, last) # ""
         /\ \A j \in 1 .. last - 1 : Fetching!End(hops, same, j) = ""
<1> DEFINE ends == {i \in DOMAIN hops : Fetching!End(hops, same, i) # ""}
<1>1. hops \in Seq(AnyHop) /\ Len(hops) \in DOMAIN hops /\ DOMAIN hops = 1 .. Len(hops) /\ Len(hops) \in Nat
  BY DEF Chains
<1>2. Len(hops) \in ends
  <2>1. hops[Len(hops)] \in AnyHop
    BY <1>1
  <2>2. Fetching!Body(hops[Len(hops)]).end # "" /\ hops[Len(hops)].interrupted # ""
    BY <2>1 DEF Fetching!Body, AnyHop
  <2>3. \A hop : Fetching!CheckUrl(hop) # "" /\ Fetching!Connect(hop) # ""
    BY DEF Fetching!CheckUrl, Fetching!Connect, Fetching!Resolve
  <2>4. \A i : Fetching!Check(hops, same, i) # ""
    BY <2>3 DEF Fetching!Check
  <2> QED BY <1>1, <2>2, <2>3, <2>4 DEF Fetching!End
<1>3. ends \subseteq Nat
  <2>1. ends \subseteq DOMAIN hops
    OBVIOUS
  <2> HIDE DEF ends
  <2> QED BY <1>1, <2>1
<1> HIDE DEF ends
<1>4. PICK m \in ends : \A n \in ends : m <= n
  BY <1>2, <1>3, Least
<1>5. m \in DOMAIN hops /\ Fetching!End(hops, same, m) # "" /\ \A j \in 1 .. m - 1 : Fetching!End(hops, same, j) = ""
  <2>1. m \in DOMAIN hops /\ Fetching!End(hops, same, m) # ""
    BY <1>4 DEF ends
  <2>2. ASSUME NEW j \in 1 .. m - 1 PROVE j \notin ends /\ j \in DOMAIN hops
    <3>1. m \in 1 .. Len(hops) /\ Len(hops) \in Nat
      BY <1>1, <2>1
    <3>2. j \in 1 .. Len(hops) /\ ~ (m <= j)
      BY <2>2, <3>1
    <3> QED BY <1>1, <1>4, <3>2
  <2> QED BY <2>1, <2>2, Zenon DEF ends
<1>6. \E i \in DOMAIN hops : Fetching!End(hops, same, i) # "" /\ \A j \in 1 .. i - 1 : Fetching!End(hops, same, j) = ""
  BY <1>5
<1> QED BY <1>1, <1>6 DEF Fetching!LastHop
\* A hop for which a connection is made was permitted and is not interrupted, and its failures are not those
\* of a chain that was refused.
LEMMA FetchesStayPermitted ==
  ASSUME NEW hops \in Chains, NEW same \in BOOLEAN
  PROVE  Fetching!OnlyPermittedIsContacted(hops, same)
<1> DEFINE last == Fetching!LastHop(hops, same)
           result == Fetching!Fetch(hops, same)
<1>1. /\ last \in 1 .. Len(hops) /\ Fetching!End(hops, same, last) # ""
      /\ \A j \in 1 .. last - 1 : Fetching!End(hops, same, j) = ""
  BY ChainsEnd, Zenon
<1>2. hops \in Seq(AnyHop) /\ Len(hops) \in Nat /\ MaxRedirects \in Nat
  BY FetchingAssumption DEF Chains, FetchingAssumption, Fetching!FetchingAssumption
<1>3. result.hops = IF Fetching!Connects(hops, same, last) THEN last ELSE last - 1
  BY DEF Fetching!Fetch
<1>4. result.contacted = [i \in 1 .. result.hops |-> Fetching!Dialled(hops[i])]
  BY DEF Fetching!Fetch
<1> HIDE DEF result, last
<1>n. last \in Nat /\ 1 <= last /\ last <= Len(hops)
  <2>1. last \in 1 .. Len(hops)
    BY <1>1
  <2> QED BY <1>2, <2>1
<1>m. result.hops = last - 1 \/ (result.hops = last /\ Fetching!Connects(hops, same, last))
  <2>1. CASE Fetching!Connects(hops, same, last)
    BY <1>3, <2>1
  <2>2. CASE ~Fetching!Connects(hops, same, last)
    BY <1>3, <2>2
  <2> QED BY <2>1, <2>2
<1>5. result.hops \in 0 .. Len(hops)
  BY <1>2, <1>n, <1>m
<1>6. ASSUME NEW i \in 1 .. result.hops PROVE Fetching!Connects(hops, same, i)
  <2>1. i \in 1 .. last - 1 \/ (i = last /\ Fetching!Connects(hops, same, last))
    BY <1>2, <1>5, <1>n, <1>m
  <2>2. CASE i \in 1 .. last - 1
    <3>1. Fetching!End(hops, same, i) = ""
      BY <1>1, <2>2
    <3>2. hops[i] \in AnyHop
      BY <1>2, <1>5
    <3> QED BY <3>1, <3>2 DEF Fetching!End, Fetching!Connects, Fetching!Check, Fetching!CheckUrl, Fetching!Resolve, AnyHop
  <2> QED BY <2>1, <2>2
<1>7. ASSUME NEW i \in 1 .. result.hops, NEW k \in DOMAIN result.contacted[i]
      PROVE  result.contacted[i][k].class \in {"public", "listed", "holds public", "holds listed"}
  <2>1. hops[i] \in AnyHop /\ result.contacted[i] = Fetching!Dialled(hops[i])
    BY <1>2, <1>4, <1>5
  <2> QED BY <2>1, DialsThePermitted, Zenon
<1>8. ASSUME NEW i \in 1 .. result.hops
      PROVE  hops[i].url # "refused" /\ (same => hops[i].origin = hops[1].origin)
  <2>1. Fetching!Check(hops, same, i) = "ok"
    BY <1>6 DEF Fetching!Connects
  <2> QED BY <2>1 DEF Fetching!Check, Fetching!CheckUrl
<1>9. result.hops <= MaxRedirects + 1
  <2>1. ASSUME NEW i \in 1 .. last - 1 PROVE i <= MaxRedirects
    <3>1. Fetching!End(hops, same, i) = "" /\ Fetching!Check(hops, same, i) # ""
      BY <1>1 DEF Fetching!Check, Fetching!CheckUrl, Fetching!Resolve
    <3>2. i \in 1 .. Len(hops) /\ i # Len(hops) /\ i \in Nat
      BY <1>2, <1>n
    <3>3. hops[i] \in AnyHop
      BY <1>2, <3>2
    <3>4. ~ (i > MaxRedirects)
      BY <3>1, <3>2, <3>3 DEF Fetching!End, AnyHop, Fetching!Connect, Fetching!Resolve
    <3> QED BY <1>2, <3>2, <3>4
  <2>2. last - 1 <= MaxRedirects
    <3>1. CASE last = 1
      BY <1>2, <3>1
    <3>2. CASE last # 1
      <4>1. last - 1 \in 1 .. last - 1
        BY <1>n, <3>2
      <4> QED BY <2>1, <4>1
    <3> QED BY <3>1, <3>2
  <2> QED BY <1>2, <1>n, <1>m, <2>2
<1> QED BY <1>7, <1>8, <1>9 DEF Fetching!OnlyPermittedIsContacted, result

\* What a fetch returns is what its last hop sent, and every hop was charged.
LEMMA ResponsesAreTrue ==
  ASSUME NEW hops \in Chains, NEW same \in BOOLEAN
  PROVE  Fetching!ResponseIsTrue(hops, same)
<1> DEFINE last == Fetching!LastHop(hops, same)
           result == Fetching!Fetch(hops, same)
<1>1. /\ last \in 1 .. Len(hops) /\ Fetching!End(hops, same, last) # ""
      /\ \A j \in 1 .. last - 1 : Fetching!End(hops, same, j) = ""
  BY ChainsEnd, Zenon
<1>2. hops \in Seq(AnyHop) /\ Len(hops) \in Nat /\ MaxBytes \in Nat
  BY FetchingAssumption DEF Chains, FetchingAssumption, Fetching!FetchingAssumption
<1>3. /\ result.hops = IF Fetching!Connects(hops, same, last) THEN last ELSE last - 1
      /\ result.sent = IF Fetching!Sends(hops, same, last) THEN last ELSE last - 1
      /\ result.end = Fetching!End(hops, same, last)
      /\ result.body = IF result.sent = Len(hops) THEN Fetching!Body(hops[last]) ELSE Fetching!NoBody
  BY DEF Fetching!Fetch
<1> HIDE DEF result, last
<1>4. hops[last] \in AnyHop
  <2>1. last \in 1 .. Len(hops)
    BY <1>1
  <2> QED BY <1>2, <2>1
<1>5. ASSUME Fetching!Outcome(result) = "response"
      PROVE  /\ last = Len(hops) /\ Fetching!Connects(hops, same, last) /\ Fetching!Sends(hops, same, last)
             /\ Fetching!Body(hops[last]).end = "body"
  <2>1. Fetching!End(hops, same, last) = "body"
    BY <1>3, <1>5 DEF Fetching!Outcome
  <2>2. /\ Fetching!Check(hops, same, last) # "body" /\ hops[last].interrupted # "body"
        /\ Fetching!Connect(hops[last]) # "body"
    BY <1>4 DEF Fetching!Check, Fetching!CheckUrl, Fetching!Resolve, Fetching!Connect, AnyHop
  <2> QED BY <2>1, <2>2 DEF Fetching!End, Fetching!Connects, Fetching!Sends
<1>6. ASSUME Fetching!Outcome(result) = "response"
      PROVE  /\ result.hops = Len(hops) /\ result.sent = Len(hops)
             /\ result.body.truncated <=> hops[Len(hops)].size > MaxBytes
             /\ ~result.body.truncated => result.body.read = hops[Len(hops)].size /\ hops[Len(hops)].ends = "body"
  <2>1. result.hops = Len(hops) /\ result.sent = Len(hops) /\ result.body = Fetching!Body(hops[last]) /\ last = Len(hops)
    BY <1>3, <1>5, <1>6
  <2> QED BY <1>5, <1>6, <2>1 DEF Fetching!Body
<1> QED BY <1>6 DEF Fetching!ResponseIsTrue, Fetching!Charged, Fetching!Outcome, result

-----------------------------------------------------------------------------
(* The engines.                                                            *)

\* The engines count as everybody does.
LEMMA EnginesCount ==
  ASSUME NEW S PROVE Engines!Cardinality(S) = Cardinality(S)
BY Zenon DEF Engines!Cardinality, Cardinality

Entries ==
  {"blocked", "unsupported", "access_denied", "unavailable", "authentication_required", "rate_limited",
   "candidate", "not_found", "inconclusive", "not_checked"}
AnySite ==
  [missing : {"message", "status_code", "response_url"}, reported : BOOLEAN, blocked : BOOLEAN,
   raw : {"Claimed", "Available", "Illegal", "WAF"}, http : Nat]

\* What an entry says of the site, by the site's own rule.
LEMMA EntriesAreTrue ==
  ASSUME NEW site \in AnySite
  PROVE  /\ Engines!Entry(site) = "candidate" => site.reported /\ ~site.blocked /\ Engines!Exists(site)
         /\ Engines!Entry(site) = "not_found" => site.reported /\ ~site.blocked /\ Engines!IsAbsent(site)
         /\ Engines!Entry(site) = "rate_limited" => site.http = 429
<1>0. site.http \in Nat /\ site.reported \in BOOLEAN /\ site.blocked \in BOOLEAN
  BY DEF AnySite
<1>1. CASE site.reported
  <2>1. Engines!Entry(site) = Engines!Classify(site)
    BY <1>1 DEF Engines!Entry
  <2>2. Engines!Classify(site) = "rate_limited" => site.http = 429
    BY DEF Engines!Classify
  <2>3. Engines!Classify(site) = "candidate" => ~site.blocked /\ Engines!Exists(site)
    BY <1>0 DEF Engines!Classify, Engines!Exists
  <2>4. Engines!Classify(site) = "not_found" => ~site.blocked /\ Engines!NotFound(site)
    BY <1>0 DEF Engines!Classify
  <2>5. Engines!NotFound(site) => Engines!IsAbsent(site)
    BY <1>0 DEF Engines!NotFound, Engines!IsAbsent
  <2> QED BY <1>1, <2>1, <2>2, <2>3, <2>4, <2>5
<1>2. CASE ~site.reported
  BY <1>2 DEF Engines!Entry
<1> QED BY <1>0, <1>1, <1>2

\* Sites of one class are among the sites; there are some when their count is not 0.
LEMMA Counts ==
  ASSUME NEW sites \in Seq(AnySite), NEW class
  PROVE  /\ Engines!Of(sites, class) \subseteq DOMAIN sites /\ IsFiniteSet(Engines!Of(sites, class))
         /\ Engines!Count(sites, class) = Cardinality(Engines!Of(sites, class))
         /\ Engines!Count(sites, class) \in Nat
         /\ Engines!Count(sites, class) = 0 <=> Engines!Of(sites, class) = {}
<1>1. IsFiniteSet(DOMAIN sites)
  <2>1. Len(sites) \in Nat /\ DOMAIN sites = 1 .. Len(sites)
    OBVIOUS
  <2> QED BY <2>1, FS_Interval
<1>2. Engines!Of(sites, class) \subseteq DOMAIN sites
  BY DEF Engines!Of
<1>3. Engines!Count(sites, class) = Cardinality(Engines!Of(sites, class))
  BY EnginesCount DEF Engines!Count
<1> DEFINE S == Engines!Of(sites, class)
<1> HIDE DEF S
<1>4. IsFiniteSet(S)
  BY <1>1, <1>2, FS_Subset DEF S
<1>5. Cardinality(S) \in Nat /\ (Cardinality(S) = 0 <=> S = {})
  BY <1>4, FS_CardinalityType, FS_EmptySet
<1> QED BY <1>2, <1>3, <1>4, <1>5 DEF S

\* Some class is the most frequent: the failure that is named happened.
LEMMA ForemostHappened ==
  ASSUME NEW sites \in Seq(AnySite)
  PROVE  /\ Engines!Foremost(sites) \in Engines!Known
         /\ Engines!Foremost(sites) = "rate_limited" => Engines!Of(sites, "rate_limited") # {}
<1> DEFINE seen == {c \in Engines!Known : Engines!Count(sites, c) > 0}
           N(c) == Engines!Count(sites, c)
<1>0. \A c : N(c) \in Nat
  BY Counts, Zenon
<1>1. CASE seen = {}
  <2>1. Engines!Foremost(sites) = "unavailable"
    BY <1>1 DEF Engines!Foremost
  <2> QED BY <2>1 DEF Engines!Known
<1>2. CASE seen # {}
  <2>1. \E c \in seen : \A d \in seen : N(c) >= N(d)
    <3>1. seen \subseteq Engines!Known
      OBVIOUS
    <3> HIDE DEF seen, N
    <3> DEFINE numbers == {N(c) : c \in seen}
               top == {n \in Nat : \A m \in numbers : m <= n}
    <3>2. \E n \in Nat : n \in top
      <4> DEFINE n == N("rate_limited") + N("access_denied") + N("authentication_required") + N("unavailable")
      <4>1. n \in Nat /\ N("rate_limited") <= n /\ N("access_denied") <= n
            /\ N("authentication_required") <= n /\ N("unavailable") <= n
        BY <1>0
      <4> HIDE DEF n
      <4>2. \A c \in seen : c \in {"rate_limited", "access_denied", "authentication_required", "unavailable"}
        BY <3>1 DEF Engines!Known
      <4>3. \A c \in seen : N(c) <= n
        BY <4>1, <4>2
      <4> QED BY <4>1, <4>3
    <3> HIDE DEF top
    <3>3. PICK n \in top : \A m \in top : n <= m
      <4>1. top \subseteq Nat /\ top # {}
        BY <3>2 DEF top
      <4> QED BY <4>1, Least
    <3>4. n \in Nat /\ \A c \in seen : N(c) <= n
      BY <3>3 DEF top
    <3>5. \E c \in seen : N(c) = n
      <4> SUFFICES ASSUME \A c \in seen : N(c) # n PROVE FALSE
        OBVIOUS
      <4>1. PICK d \in seen : TRUE
        BY <1>2
      <4>2. n - 1 \in Nat
        BY <1>0, <3>4, <4>1
      <4>3. \A c \in seen : N(c) <= n - 1
        BY <1>0, <3>4
      <4>4. n - 1 \in top
        BY <4>2, <4>3 DEF top
      <4> QED BY <3>3, <3>4, <4>4
    <3>6. PICK c \in seen : N(c) = n
      BY <3>5
    <3>7. \A d \in seen : N(c) >= N(d)
      BY <1>0, <3>4, <3>6
    <3> QED BY <3>7
  <2>2. Engines!Foremost(sites) = CHOOSE c \in seen : \A d \in seen : N(c) >= N(d)
    BY <1>2 DEF Engines!Foremost
  <2>3. Engines!Foremost(sites) \in seen
    <3> HIDE DEF seen, N
    <3> QED BY <2>1, <2>2
  <2>4. Engines!Foremost(sites) = "rate_limited" => Engines!Count(sites, "rate_limited") > 0
    BY <2>3
  <2>5. Engines!Foremost(sites) = "rate_limited" => Engines!Of(sites, "rate_limited") # {}
    <3>1. Engines!Count(sites, "rate_limited") = 0 <=> Engines!Of(sites, "rate_limited") = {}
      BY Counts
    <3>2. Engines!Count(sites, "rate_limited") \in Nat
      BY Counts
    <3> QED BY <2>4, <3>1, <3>2
  <2> QED BY <2>3, <2>5
<1> QED BY <1>1, <1>2

\* A run of username checks completes when each platform gave a definitive answer, and fails for a failure
\* that happened.
LEMMA ChecksStayTrue ==
  ASSUME NEW sites \in Seq(AnySite), NEW stop
  PROVE  Engines!ChecksAreTrue(sites, stop)
<1> DEFINE C == Engines!Of(sites, "candidate")
           N == Engines!Of(sites, "not_found")
           c == Engines!Count(sites, "candidate")
           n == Engines!Count(sites, "not_found")
           D == DOMAIN sites
           page == Engines!UsernamePage(sites, stop)
           verdict == Engines!Verdict(page)
<1>1. /\ C \subseteq D /\ IsFiniteSet(C) /\ c = Cardinality(C) /\ c \in Nat /\ (c = 0 <=> C = {})
      /\ N \subseteq D /\ IsFiniteSet(N) /\ n = Cardinality(N) /\ n \in Nat
  BY Counts, Zenon
<1>2. C \cap N = {}
  BY DEF Engines!Of
<1>3. IsFiniteSet(D)
  <2>1. Len(sites) \in Nat /\ D = 1 .. Len(sites)
    OBVIOUS
  <2> QED BY <2>1, FS_Interval
<1>4. \/ page.outcome \in {"canceled", "unavailable"}
      \/ page = Engines!Result(0, FALSE, Engines!Foremost(sites)) /\ page.items = 0
      \/ page = Engines!Result(c, c + n < Engines!Cardinality(D), "")
  BY DEF Engines!UsernamePage, Engines!Failure, Engines!Result
<1>5. \A s \in D : sites[s] \in AnySite
  OBVIOUS
<1>a. ASSUME c + n >= Cardinality(D) PROVE \A s \in D : s \in C \/ s \in N
  <2> HIDE DEF C, N, c, n, D
  <2>1. C \cup N \subseteq D /\ IsFiniteSet(C \cup N) /\ Cardinality(C \cup N) = Cardinality(C) + Cardinality(N)
    <3>1. Cardinality(C \cap N) = 0
      BY <1>2, FS_EmptySet
    <3>2. /\ IsFiniteSet(C \cup N)
          /\ Cardinality(C \cup N) = Cardinality(C) + Cardinality(N) - Cardinality(C \cap N)
      BY <1>1, FS_Union
    <3> QED BY <1>1, <3>1, <3>2
  <2>2. Cardinality(C \cup N) <= Cardinality(D) /\ Cardinality(C \cup N) \in Nat /\ Cardinality(D) \in Nat
    BY <1>3, <2>1, FS_Subset, FS_CardinalityType
  <2>3. Cardinality(C \cup N) = Cardinality(D)
    BY <1>1, <1>a, <2>1, <2>2
  <2>4. C \cup N = D
    BY <1>3, <2>1, <2>3, FS_Subset
  <2> QED BY <2>4
<1>b. /\ \A s \in C : sites[s].reported /\ ~sites[s].blocked /\ Engines!Exists(sites[s])
      /\ \A s \in N : sites[s].reported /\ ~sites[s].blocked /\ Engines!IsAbsent(sites[s])
  BY <1>5, EntriesAreTrue DEF Engines!Of
<1>c. Engines!Of(sites, "rate_limited") # {} => \E s \in DOMAIN sites : sites[s].http = 429
  BY <1>5, EntriesAreTrue DEF Engines!Of
<1>6. CASE page.outcome \in {"canceled", "unavailable"}
  <2>1. verdict.status = "failed" /\ verdict.outcome \in {"canceled", "unavailable"}
    BY <1>6 DEF Engines!Verdict
  <2> QED BY <2>1 DEF Engines!ChecksAreTrue
<1>7. CASE page = Engines!Result(0, FALSE, Engines!Foremost(sites))
  <2>0. Engines!Foremost(sites) \in Engines!Known
    BY ForemostHappened
  <2>1. page.outcome = "page" /\ page.hint = Engines!Foremost(sites) /\ page.items = 0
    BY <1>7 DEF Engines!Result
  <2> HIDE DEF page
  <2>2. page.hint # "" /\ page.hint \notin {"no_findings", "findings", "completed"}
    BY <2>0, <2>1 DEF Engines!Known
  <2>3. ~(page.items > 0)
    BY <2>1
  <2>4. verdict = [status |-> "failed", outcome |-> Engines!Foremost(sites)]
    BY <2>1, <2>2, <2>3 DEF Engines!Verdict
  <2> HIDE DEF verdict
  <2>5. verdict.status # "completed" /\ verdict.outcome \notin {"no_findings", "findings"}
    BY <2>1, <2>2, <2>4
  <2>6. verdict.outcome = "rate_limited" => \E s \in DOMAIN sites : sites[s].http = 429
    BY <1>c, <2>4, ForemostHappened
  <2> QED BY <2>5, <2>6 DEF Engines!ChecksAreTrue, verdict, page
<1>8. CASE page = Engines!Result(c, c + n < Engines!Cardinality(D), "")
  <2>0. Engines!Cardinality(D) = Cardinality(D)
    BY EnginesCount
  <2>1. page.outcome = "page" /\ page.hint = "" /\ page.items = c /\ page.gap = (c + n < Cardinality(D))
    <3> HIDE DEF page, c, n, D
    <3> QED BY <1>8, <2>0, Zenon DEF Engines!Result
  <2>2. Cardinality(D) \in Nat
    BY <1>3, FS_CardinalityType
  <2> HIDE DEF page, C, N, c, n, D
  <2>3. CASE c + n < Cardinality(D)
    <3>1. verdict.status = "partial" /\ verdict.outcome = "partial"
      BY <2>1, <2>3 DEF Engines!Verdict
    <3> QED BY <3>1 DEF Engines!ChecksAreTrue, page
  <2>4. CASE ~(c + n < Cardinality(D))
    <3>1. verdict = IF c > 0 THEN [status |-> "completed", outcome |-> "findings"]
                    ELSE [status |-> "completed", outcome |-> "no_findings"]
      BY <2>1, <2>4 DEF Engines!Verdict
    <3>2. \A s \in D : s \in C \/ s \in N
      BY <1>a, <1>1, <2>2, <2>4
    <3>a. verdict.outcome = IF c > 0 THEN "findings" ELSE "no_findings"
      BY <3>1
    <3> HIDE DEF verdict
    <3>3. verdict.outcome = "no_findings" => C = {}
      BY <1>1, <3>a
    <3>4. verdict.outcome = "findings" => C # {}
      BY <1>1, <3>a
    <3>5. verdict.outcome # "rate_limited"
      BY <3>a
    <3>6. \A s \in D : sites[s].reported /\ ~sites[s].blocked /\ (Engines!Exists(sites[s]) \/ Engines!IsAbsent(sites[s]))
      BY <1>b, <3>2
    <3>7. verdict.outcome = "no_findings" => \A s \in D : Engines!IsAbsent(sites[s])
      BY <1>b, <3>2, <3>3
    <3>8. verdict.outcome = "findings" => \E s \in D : Engines!Exists(sites[s])
      BY <1>b, <1>1, <3>4
    <3> QED BY <3>5, <3>6, <3>7, <3>8 DEF Engines!ChecksAreTrue, verdict, page, D
  <2> QED BY <2>3, <2>4
<1> QED BY <1>4, <1>6, <1>7, <1>8

-----------------------------------------------------------------------------
\* A finite set has a part of each size up to its own.
LEMMA Parts ==
  ASSUME NEW S, IsFiniteSet(S), NEW k \in Nat, k <= Cardinality(S)
  PROVE  \E part \in SUBSET S : Cardinality(part) = k
<1> DEFINE sizes == {n \in Nat : n <= Cardinality(S) => \E part \in SUBSET S : Cardinality(part) = n}
<1>0. Cardinality(S) \in Nat
  BY FS_CardinalityType
<1>1. 0 \in sizes
  BY FS_EmptySet
<1>2. ASSUME NEW n \in sizes \cap Nat PROVE n + 1 \in sizes
  <2> SUFFICES ASSUME n + 1 <= Cardinality(S) PROVE \E part \in SUBSET S : Cardinality(part) = n + 1
    BY <1>2
  <2>1. PICK part \in SUBSET S : Cardinality(part) = n
    BY <1>0, <1>2
  <2>2. IsFiniteSet(part) /\ part # S
    BY <1>0, <1>2, <2>1, FS_Subset
  <2>3. PICK x \in S : x \notin part
    BY <2>2
  <2>4. Cardinality(part \cup {x}) = n + 1
    BY <2>1, <2>2, <2>3, FS_AddElement
  <2> QED BY <2>3, <2>4
<1> HIDE DEF sizes
<1>3. Nat \subseteq sizes
  BY <1>1, <1>2, Induces
<1>4. k \in sizes
  BY <1>3
<1> QED BY <1>4 DEF sizes

AnyName == [name : Nat, below : BOOLEAN]
AnyProvider ==
  [said : {"nothing", "done", "skipped", "rate", "refused", "unreachable", "database"},
   names : {names \in SUBSET AnyName : IsFiniteSet(names)}]
Stops == {"", "crash", "timeout", "canceled", "lost", "output_limit"}
AnyJob == [valid : BOOLEAN, sandboxed : BOOLEAN, installed : BOOLEAN, running : Nat]

\* What the engine printed is finitely many names.
LEMMA PrintedIsFinite ==
  ASSUME NEW providers \in Seq(AnyProvider)
  PROVE  IsFiniteSet(Engines!Printed(providers))
<1> DEFINE D == DOMAIN providers
           In(p) == Engines!InScope(providers[p])
           Sets == {In(p) : p \in D}
<1>1. IsFiniteSet(D)
  <2>1. Len(providers) \in Nat /\ D = 1 .. Len(providers)
    OBVIOUS
  <2> QED BY <2>1, FS_Interval
<1>2. ASSUME NEW p \in D PROVE IsFiniteSet(In(p))
  <2> DEFINE all == {m \in providers[p].names : m.below}
             f == [n \in all |-> n.name]
  <2>1. providers[p] \in AnyProvider
    OBVIOUS
  <2>2. IsFiniteSet(providers[p].names)
    BY <2>1 DEF AnyProvider
  <2>3. IsFiniteSet(all)
    BY <2>2, FS_Subset
  <2>4. In(p) = {n.name : n \in all}
    BY DEF Engines!InScope
  <2> HIDE DEF all, In
  <2>5. f \in Surjection(all, In(p))
    BY <2>4 DEF Surjection
  <2> HIDE DEF f
  <2> QED BY <2>3, <2>5, FS_Surjection
<1>3. IsFiniteSet(Sets)
  <2> DEFINE f == [p \in D |-> In(p)]
  <2> HIDE DEF In, D
  <2>1. f \in Surjection(D, Sets)
    BY DEF Surjection
  <2> HIDE DEF f, Sets
  <2> QED BY <1>1, <2>1, FS_Surjection
<1>4. \A T \in Sets : IsFiniteSet(T)
  BY <1>2
<1>5. Engines!Printed(providers) = UNION Sets
  BY DEF Engines!Printed
<1> HIDE DEF Sets
<1> QED BY <1>3, <1>4, <1>5, FS_UNION

\* What is kept was printed and is not too much; when it is less than the limit nothing was left out.
LEMMA HostsAreBounded ==
  ASSUME NEW providers \in Seq(AnyProvider), NEW kept
  PROVE  LET hosts == Engines!HostsKept(providers, kept)
             printed == Engines!Printed(providers)
         IN  /\ hosts \subseteq kept \cap printed /\ IsFiniteSet(hosts)
             /\ Cardinality(hosts) \in Nat /\ Cardinality(hosts) <= MaxResults
             /\ ~(Cardinality(hosts) >= MaxResults) => hosts = kept \cap printed
<1> DEFINE all == kept \cap Engines!Printed(providers)
           hosts == Engines!HostsKept(providers, kept)
<1>0. MaxResults \in Nat
  BY EnginesAssumption DEF EnginesAssumption, Engines!EnginesAssumption
<1>1. IsFiniteSet(all)
  BY PrintedIsFinite, FS_Intersection
<1>2. Cardinality(all) \in Nat
  BY <1>1, FS_CardinalityType
<1>3. hosts = IF Engines!Cardinality(all) <= MaxResults THEN all
              ELSE CHOOSE part \in SUBSET all : Engines!Cardinality(part) = MaxResults
  BY DEF Engines!HostsKept
<1>a. \A part : Engines!Cardinality(part) = Cardinality(part)
  BY EnginesCount
<1> HIDE DEF all, hosts
<1>4. CASE Cardinality(all) <= MaxResults
  <2>1. hosts = all
    BY <1>3, <1>4, <1>a
  <2> QED BY <1>1, <1>2, <1>4, <2>1 DEF all, hosts
<1>5. CASE ~(Cardinality(all) <= MaxResults)
  <2>1. \E part \in SUBSET all : Cardinality(part) = MaxResults
    BY <1>0, <1>1, <1>2, <1>5, Parts
  <2>2. hosts \in SUBSET all /\ Cardinality(hosts) = MaxResults
    BY <1>3, <1>5, <1>a, <2>1
  <2>3. IsFiniteSet(hosts)
    BY <1>1, <2>2, FS_Subset
  <2>4. Cardinality(hosts) \in Nat /\ Cardinality(hosts) <= MaxResults /\ Cardinality(hosts) >= MaxResults
    BY <1>0, <2>2
  <2>5. hosts \subseteq all
    BY <2>2
  <2> QED BY <2>3, <2>4, <2>5 DEF all, hosts
<1> QED BY <1>4, <1>5

\* A discovery completes when each provider answered and nothing was cut, and holds no name but what is below
\* the domain.
LEMMA SilenceStaysNoAbsence ==
  ASSUME NEW providers \in Seq(AnyProvider), NEW kept, NEW stop \in Stops, NEW job \in AnyJob
  PROVE  Engines!SilenceIsNotAbsence(job, providers, kept, stop)
<1> DEFINE hosts == Engines!HostsKept(providers, kept)
           printed == Engines!Printed(providers)
           D == DOMAIN providers
           errors == Engines!Errors(providers, stop)
           skipped == Engines!Skipped(providers, stop)
           succeeded == Engines!Succeeded(providers, hosts, stop)
           unconfirmed == D \ (errors \cup skipped \cup succeeded)
           stopped == stop \in {"timeout", "output_limit"} \/ Cardinality(hosts) >= MaxResults
           found == hosts \ {Apex}
           page == Engines!DomainPage(job, providers, kept, stop)
           verdict == Engines!Verdict(page)
           Shown(p) == Engines!Shown(providers[p], stop)
           In(p) == Engines!InScope(providers[p])
<1>0. MaxResults \in Nat
  BY EnginesAssumption DEF EnginesAssumption, Engines!EnginesAssumption
<1>1. /\ hosts \subseteq kept \cap printed /\ IsFiniteSet(hosts)
      /\ Cardinality(hosts) \in Nat /\ Cardinality(hosts) <= MaxResults
      /\ ~(Cardinality(hosts) >= MaxResults) => hosts = kept \cap printed
  BY HostsAreBounded, Zenon
<1>2. /\ IsFiniteSet(found) /\ Cardinality(found) \in Nat /\ Cardinality(found) <= Cardinality(hosts)
      /\ Cardinality(found) <= Cardinality(printed) /\ Cardinality(printed) \in Nat
      /\ Cardinality(found) = 0 => hosts \subseteq {Apex}
  <2> HIDE DEF hosts, printed
  <2>1. found \in SUBSET hosts /\ found \in SUBSET printed /\ IsFiniteSet(printed)
    BY <1>1, PrintedIsFinite DEF printed
  <2>2. IsFiniteSet(found) /\ Cardinality(found) <= Cardinality(hosts) /\ Cardinality(found) <= Cardinality(printed)
    BY <1>1, <2>1, FS_Subset
  <2>3. Cardinality(found) \in Nat /\ Cardinality(printed) \in Nat
    BY <2>1, <2>2, FS_CardinalityType
  <2>4. Cardinality(found) = 0 => found = {}
    BY <2>2, FS_EmptySet
  <2>5. found = {} => hosts \subseteq {Apex}
    OBVIOUS
  <2> QED BY <2>2, <2>3, <2>4, <2>5
<1>3. /\ Engines!Cardinality(hosts) = Cardinality(hosts) /\ Engines!Cardinality(found) = Cardinality(found)
      /\ Engines!Cardinality(printed) = Cardinality(printed)
  BY EnginesCount, Zenon
<1>4. printed = UNION {In(p) : p \in D}
  BY DEF Engines!Printed
<1>5. /\ errors = {p \in D : Shown(p) \in {"rate", "refused", "unreachable"}}
      /\ skipped = {p \in D : Shown(p) = "skipped"}
      /\ succeeded = {p \in D \ (errors \cup skipped) : In(p) \cap hosts # {} \/ Shown(p) = "done"}
  BY DEF Engines!Errors, Engines!Skipped, Engines!Succeeded
<1>6. \A p \in D : stop # "timeout" => Shown(p) = providers[p].said
  BY DEF Engines!Shown
<1>7. \A p \in D : providers[p] \in AnyProvider
  OBVIOUS
<1>8. Engines!Silence(providers, errors, skipped, unconfirmed) \in
        {"unavailable", "authentication_required", "unsupported", "rate_limited"}
  BY DEF Engines!Silence
<1>9. \/ /\ page.outcome \in {"unsupported", "unavailable", "canceled"} /\ page.items = 0
         /\ ~(stop = "" /\ Engines!Refusal(job) = "")
      \/ /\ page = Engines!Result(0, FALSE, Engines!Silence(providers, errors, skipped, unconfirmed))
         /\ succeeded = {} /\ hosts = {}
      \/ /\ page = Engines!Result(Cardinality(found), errors \cup skipped \cup unconfirmed # {} \/ stopped, "")
         /\ Engines!Refusal(job) = "" /\ stop \notin {"canceled", "crash", "lost"}
  <2>1. Engines!Refusal(job) \in {"unsupported", "unavailable", ""}
    BY DEF Engines!Refusal
  <2> HIDE DEF hosts, errors, skipped, succeeded, unconfirmed, found, stopped, page
  <2>2. CASE Engines!Refusal(job) # ""
    <3>1. page = Engines!Failure(Engines!Refusal(job))
      BY <2>2 DEF Engines!DomainPage, page
    <3> QED BY <2>1, <2>2, <3>1 DEF Engines!Failure
  <2>3. CASE Engines!Refusal(job) = "" /\ stop = "canceled"
    <3>1. page = Engines!Failure("canceled")
      BY <2>3 DEF Engines!DomainPage, page
    <3> QED BY <2>3, <3>1 DEF Engines!Failure
  <2>4. CASE Engines!Refusal(job) = "" /\ stop \in {"crash", "lost"}
    <3>1. page = Engines!Failure("unavailable")
      BY <2>4 DEF Engines!DomainPage, page
    <3> QED BY <2>4, <3>1 DEF Engines!Failure
  <2>5. CASE Engines!Refusal(job) = "" /\ stop \notin {"canceled", "crash", "lost"} /\ succeeded = {} /\ hosts = {}
    <3>1. page = Engines!Result(0, FALSE, Engines!Silence(providers, errors, skipped, unconfirmed))
      BY <2>5 DEF Engines!DomainPage, page, hosts, errors, skipped, succeeded, unconfirmed
    <3> QED BY <2>5, <3>1
  <2>6. CASE Engines!Refusal(job) = "" /\ stop \notin {"canceled", "crash", "lost"} /\ ~(succeeded = {} /\ hosts = {})
    <3>1. page = Engines!Result(Engines!Cardinality(found), errors \cup skipped \cup unconfirmed # {}
                                  \/ (stop \in {"timeout", "output_limit"} \/ Engines!Cardinality(hosts) >= MaxResults), "")
      BY <2>6 DEF Engines!DomainPage, page, hosts, errors, skipped, succeeded, unconfirmed, found
    <3>2. Engines!Cardinality(found) = Cardinality(found) /\ Engines!Cardinality(hosts) = Cardinality(hosts)
      BY <1>3
    <3> QED BY <2>6, <3>1, <3>2, Zenon DEF stopped
  <2> QED BY <2>2, <2>3, <2>4, <2>5, <2>6
<1>10. ASSUME NEW p \in D, providers[p].said = "done", stop = "" PROVE p \in succeeded
  <2>1. Shown(p) = "done"
    BY <1>6, <1>10
  <2> QED BY <1>5, <1>10, <2>1
<1>g. Engines!SilenceIsNotAbsence(job, providers, kept, stop) <=>
        /\ verdict.status = "completed" =>
             /\ stop = "" /\ Engines!Refusal(job) = ""
             /\ \A p \in D : \/ providers[p].said = "done"
                             \/ providers[p].said \in {"nothing", "database"} /\ In(p) \cap kept # {}
        /\ verdict.outcome = "no_findings" =>
             \A p \in D : /\ In(p) \cap kept \subseteq {Apex}
                          /\ providers[p].said = "done" \/ In(p) \cap kept = {Apex}
        /\ page.items <= MaxResults /\ page.items <= Cardinality(printed)
        /\ (\E p \in D : providers[p].said = "done") /\ stop = "" /\ Engines!Refusal(job) = ""
             => verdict.status # "failed"
  <2> HIDE DEF page, verdict
  <2> QED BY <1>3, <1>4, Zenon DEF Engines!SilenceIsNotAbsence, page, verdict
<1> HIDE DEF hosts, printed, errors, skipped, succeeded, unconfirmed, stopped, found, page, In, Shown, D
<1>11. CASE /\ page.outcome \in {"unsupported", "unavailable", "canceled"} /\ page.items = 0
            /\ ~(stop = "" /\ Engines!Refusal(job) = "")
  <2>1. verdict.status = "failed" /\ verdict.outcome \in {"unsupported", "unavailable", "canceled"}
    BY <1>11 DEF Engines!Verdict
  <2> HIDE DEF verdict
  <2>2. page.items <= MaxResults /\ page.items <= Cardinality(printed)
    <3>1. page.items = 0
      BY <1>11
    <3> QED BY <1>0, <1>2, <3>1
  <2> QED BY <1>11, <1>g, <2>1, <2>2
<1>12. CASE /\ page = Engines!Result(0, FALSE, Engines!Silence(providers, errors, skipped, unconfirmed))
            /\ succeeded = {} /\ hosts = {}
  <2>1. page.outcome = "page" /\ page.hint = Engines!Silence(providers, errors, skipped, unconfirmed) /\ page.items = 0
    BY <1>12 DEF Engines!Result
  <2>a. page.items = 0
    BY <2>1
  <2>2. page.hint # "" /\ ~(page.items > 0) /\ page.hint # "no_findings"
    <3>1. ~(page.items > 0)
      BY <2>a
    <3>2. page.hint # "" /\ page.hint # "no_findings"
      BY <1>8, <2>1
    <3> QED BY <3>1, <3>2
  <2>3. verdict.status = "failed" /\ verdict.outcome = page.hint
    BY <2>1, <2>2 DEF Engines!Verdict
  <2> HIDE DEF verdict
  <2>4. page.items <= MaxResults /\ page.items <= Cardinality(printed)
    BY <1>0, <1>2, <2>a
  <2>5. ~((\E p \in D : providers[p].said = "done") /\ stop = "")
    BY <1>10, <1>12
  <2> QED BY <1>g, <2>2, <2>3, <2>4, <2>5
<1>13. CASE /\ page = Engines!Result(Cardinality(found), errors \cup skipped \cup unconfirmed # {} \/ stopped, "")
            /\ Engines!Refusal(job) = "" /\ stop \notin {"canceled", "crash", "lost"}
  <2>1. /\ page.outcome = "page" /\ page.hint = "" /\ page.items = Cardinality(found)
        /\ page.gap = (errors \cup skipped \cup unconfirmed # {} \/ stopped)
    BY <1>13, Zenon DEF Engines!Result
  <2>2. page.items <= MaxResults /\ page.items <= Cardinality(printed)
    <3>1. page.items = Cardinality(found)
      BY <2>1
    <3> HIDE DEF found
    <3> QED BY <1>0, <1>1, <1>2, <3>1
  <2>3. CASE page.gap
    <3>1. verdict.status = "partial" /\ verdict.outcome = "partial"
      BY <2>1, <2>3 DEF Engines!Verdict
    <3> HIDE DEF verdict
    <3> QED BY <1>g, <2>2, <3>1
  <2>4. CASE ~page.gap
    <3>1. verdict = IF Cardinality(found) > 0 THEN [status |-> "completed", outcome |-> "findings"]
                    ELSE [status |-> "completed", outcome |-> "no_findings"]
      BY <2>1, <2>4 DEF Engines!Verdict
    <3>2. verdict.status = "completed" /\ (verdict.outcome = "no_findings" => ~(Cardinality(found) > 0))
      BY <3>1
    <3> HIDE DEF verdict
    <3>3. errors \cup skipped \cup unconfirmed = {} /\ ~stopped
      BY <2>1, <2>4, Zenon
    <3>4. stop = "" /\ ~(Cardinality(hosts) >= MaxResults)
      BY <1>13, <3>3 DEF stopped, Stops
    <3>5. hosts = kept \cap printed
      BY <1>1, <3>4
    <3>6. ASSUME NEW p \in D
          PROVE  /\ p \notin errors /\ p \notin skipped /\ p \in succeeded
                 /\ Shown(p) = providers[p].said
                 /\ providers[p].said \in {"nothing", "done", "skipped", "rate", "refused", "unreachable", "database"}
                 /\ In(p) \subseteq printed
      <4>1. p \notin errors /\ p \notin skipped /\ p \in succeeded
        BY <3>3 DEF unconfirmed
      <4>2. Shown(p) = providers[p].said
        BY <1>6, <3>4
      <4>3. providers[p].said \in {"nothing", "done", "skipped", "rate", "refused", "unreachable", "database"}
        BY <1>7 DEF AnyProvider
      <4>4. In(p) \subseteq printed
        BY <1>4
      <4> QED BY <4>1, <4>2, <4>3, <4>4
    <3>7. ASSUME NEW p \in D
          PROVE  \/ providers[p].said = "done"
                 \/ providers[p].said \in {"nothing", "database"} /\ In(p) \cap kept # {}
      <4>1. providers[p].said \notin {"rate", "refused", "unreachable", "skipped"}
        BY <1>5, <3>6
      <4>2. In(p) \cap hosts # {} \/ providers[p].said = "done"
        BY <1>5, <3>6
      <4>3. In(p) \cap hosts # {} => In(p) \cap kept # {}
        BY <3>5
      <4> QED BY <3>6, <4>1, <4>2, <4>3
    <3>8. ASSUME verdict.outcome = "no_findings", NEW p \in D
          PROVE  In(p) \cap kept \subseteq {Apex} /\ (providers[p].said = "done" \/ In(p) \cap kept = {Apex})
      <4>1. hosts \subseteq {Apex}
        <5>1. Cardinality(found) = 0
          BY <1>2, <3>2, <3>8
        <5> QED BY <1>2, <5>1
      <4>2. In(p) \cap kept \subseteq {Apex}
        BY <3>5, <3>6, <4>1
      <4> QED BY <3>7, <4>2
    <3> QED BY <1>13, <1>g, <2>2, <3>2, <3>4, <3>7, <3>8
  <2> QED BY <2>3, <2>4
<1> QED BY <1>9, <1>11, <1>12, <1>13

-----------------------------------------------------------------------------
(* The pages of a source.                                                  *)

Connectors == {"web", "feed", "github", "youtube", "instagram", "profile", "preview", "bot"}
AnyRun == [connector : Connectors, want : BOOLEAN]
Why ==
  {"", "rate", "no_preview", "login_wall", "private", "not_found", "comments_disabled", "quota", "key", "forbidden",
   "no_count"}
AnyAnswer ==
  [status : Nat, body : {"whole", "truncated", "garbled"}, reason : Why, ids : Seq(Nat \cup {NoId}),
   next : Nat \cup {Elsewhere}]
PageFailures ==
  {"authentication_required", "access_denied", "rate_limited", "unavailable", "unsupported", "parse_error"}

\* What a source can tell: an error, or an answer with a reason that this source gives, with the status it
\* gives it with.
Told(connector, answer) ==
  /\ answer \in AnyAnswer
  /\ answer.status = 200 \/ answer.status >= 400
  /\ connector \in {"web", "feed"} => answer.reason = ""
  /\ connector = "github" => answer.reason = "" \/ (answer.reason = "rate" /\ answer.status = 403)
  /\ connector = "preview" => answer.reason \in {"", "no_preview"}
  /\ connector = "profile" => answer.reason \in {"", "login_wall", "private"}

Fails(page) == page.outcome \in PageFailures
Continues(page, answer) == page.outcome = "page" /\ page.next \in {0, answer.next} /\ page.hint \in {"", "no_findings"}

\* Every way to say that a page failed says so.
LEMMA Failing ==
  /\ \A status : Fails(Pages!ByStatus(status))
  /\ \A outcome \in PageFailures : Fails(Pages!Failure(outcome))
  /\ Fails(Pages!Failure("authentication_required")) /\ Fails(Pages!Failure("access_denied"))
  /\ Fails(Pages!Failure("rate_limited")) /\ Fails(Pages!Failure("unavailable"))
  /\ Fails(Pages!Failure("unsupported")) /\ Fails(Pages!Failure("parse_error"))
<1>1. \A outcome \in PageFailures : Fails(Pages!Failure(outcome))
  BY DEF Fails, Pages!Failure
<1>2. \A status : Fails(Pages!ByStatus(status))
  BY DEF Fails, Pages!ByStatus, Pages!Failure, PageFailures
<1> QED BY <1>1, <1>2 DEF PageFailures

\* A preview that is not answered whole fails.
LEMMA PreviewFails ==
  ASSUME NEW n, NEW answer, answer.status # 200 \/ answer.reason = "no_preview" \/ answer.body = "garbled"
  PROVE  Fails(Pages!PreviewPage(n, answer))
<1> DEFINE page == Pages!PreviewPage(n, answer)
<1>1. \/ page = Pages!Failure("rate_limited")
      \/ page = Pages!ByStatus(answer.status)
      \/ page = Pages!Failure("access_denied")
      \/ page = Pages!Failure("parse_error")
  <2>1. CASE answer.status = 429
    BY <2>1, Zenon DEF Pages!PreviewPage
  <2>2. CASE answer.status # 429 /\ answer.status >= 500
    BY <2>2, Zenon DEF Pages!PreviewPage
  <2>3. CASE answer.status # 429 /\ ~(answer.status >= 500) /\ (answer.status = 404 \/ answer.reason = "no_preview")
    BY <2>3, Zenon DEF Pages!PreviewPage
  <2>4. CASE answer.status # 429 /\ ~(answer.status >= 500) /\ ~(answer.status = 404 \/ answer.reason = "no_preview")
    BY <2>4, Zenon DEF Pages!PreviewPage
  <2> QED BY <2>1, <2>2, <2>3, <2>4, Zenon
<1> HIDE DEF page
<1>2. Fails(page)
  BY <1>1, Failing, Zenon
<1> QED BY <1>2, Zenon DEF page

\* A page that says that there is nothing is a page without items, and the last.
LEMMA Nothing ==
  /\ Pages!Absent.outcome = "page" /\ Pages!Absent.next = 0 /\ Pages!Absent.hint = "no_findings"
  /\ Pages!Absent.ids = {}
BY DEF Pages!Absent, Pages!Page

\* What a run can rely on of a page: it is a failure, or its source answered.
Follows(run, n, answer, page) ==
  \/ Fails(page)
  \/ /\ Continues(page, answer) /\ Pages!Answered(run.connector, answer)
     /\ run.connector = "preview" => page.hint = "" /\ (n = 1 => Subject \in page.ids)

\* A connector but the preview says that there is nothing when its source did.
LEMMA Absence ==
  ASSUME NEW run, NEW n, NEW answer, run.connector # "preview", Pages!Answered(run.connector, answer)
  PROVE  Follows(run, n, answer, Pages!Absent)
BY Nothing DEF Follows, Continues

\* A page of items follows from an answer of the source.
LEMMA Presence ==
  ASSUME NEW run, NEW n, NEW answer, NEW ids, NEW next \in {0, answer.next}, NEW gap,
         Pages!Answered(run.connector, answer), run.connector = "preview" => (n = 1 => Subject \in ids)
  PROVE  Follows(run, n, answer, Pages!Page(ids, next, gap, ""))
<1> DEFINE page == Pages!Page(ids, next, gap, "")
<1>1. page.outcome = "page" /\ page.ids = ids /\ page.next = next /\ page.hint = ""
  BY DEF Pages!Page
<1> HIDE DEF page
<1>2. Follows(run, n, answer, page)
  BY <1>1 DEF Follows, Continues
<1> QED BY <1>2 DEF page

\* A failure follows from any answer.
LEMMA Failure ==
  ASSUME NEW run, NEW n, NEW answer
  PROVE  /\ \A status : Follows(run, n, answer, Pages!ByStatus(status))
         /\ \A outcome \in PageFailures : Follows(run, n, answer, Pages!Failure(outcome))
BY Failing DEF Follows

\* Whatever a source answers, each connector makes of it a failure or a page that was answered.
LEMMA PagesAreAnswered ==
  ASSUME NEW run \in AnyRun, NEW answer, Told(run.connector, answer), NEW n \in Nat
  PROVE  Follows(run, n, answer, Pages!FetchPage(run, n, answer))
<1>0. /\ answer.status \in Nat /\ (answer.status = 200 \/ answer.status >= 400)
      /\ answer.body \in {"whole", "truncated", "garbled"} /\ answer.reason \in Why
  BY DEF Told, AnyAnswer
<1>f. /\ \A status : Follows(run, n, answer, Pages!ByStatus(status))
      /\ \A outcome \in PageFailures : Follows(run, n, answer, Pages!Failure(outcome))
  BY Failure
<1>a. run.connector # "preview" /\ Pages!Answered(run.connector, answer) => Follows(run, n, answer, Pages!Absent)
  BY Absence
<1>p. ASSUME NEW ids, NEW next \in {0, answer.next}, NEW gap,
             Pages!Answered(run.connector, answer), run.connector = "preview" => (n = 1 => Subject \in ids)
      PROVE  Follows(run, n, answer, Pages!Page(ids, next, gap, ""))
  BY <1>p, Presence, Zenon
<1>1. CASE run.connector = "web"
  <2> DEFINE page == Pages!WebPage(answer)
  <2>1. Pages!FetchPage(run, n, answer) = page
    BY <1>1 DEF Pages!FetchPage
  <2> SUFFICES Follows(run, n, answer, page)
    BY <2>1, Zenon
  <2>2. answer.reason = ""
    BY <1>1 DEF Told
  <2>3. CASE answer.status = 404
    <3>1. page = Pages!Absent
      BY <2>3 DEF Pages!WebPage
    <3> HIDE DEF page
    <3>2. Pages!Answered(run.connector, answer)
      BY <1>1, <2>3 DEF Pages!Answered
    <3> QED BY <1>1, <1>a, <3>1, <3>2
  <2>4. CASE answer.status # 404 /\ (answer.status # 200 \/ answer.body = "garbled")
    BY <1>f, <2>4 DEF Pages!WebPage, PageFailures
  <2>5. CASE answer.status = 200 /\ answer.body # "garbled"
    <3>1. page = Pages!Page({Subject}, 0, answer.body = "truncated", "")
      BY <2>5 DEF Pages!WebPage
    <3> HIDE DEF page
    <3>2. Pages!Answered(run.connector, answer)
      BY <1>0, <1>1, <2>2, <2>5 DEF Pages!Answered
    <3> QED BY <1>1, <1>p, <3>1, <3>2, Zenon
  <2> QED BY <1>0, <2>3, <2>4, <2>5
<1>2. CASE run.connector = "feed"
  <2> DEFINE page == Pages!FeedPage(n, answer)
  <2>1. Pages!FetchPage(run, n, answer) = page
    BY <1>2 DEF Pages!FetchPage
  <2> SUFFICES Follows(run, n, answer, page)
    BY <2>1, Zenon
  <2>2. answer.reason = ""
    BY <1>2 DEF Told
  <2>3. CASE answer.status = 404 /\ n = 1
    <3>1. page = Pages!Absent
      BY <2>3 DEF Pages!FeedPage
    <3> HIDE DEF page
    <3>2. Pages!Answered(run.connector, answer)
      BY <1>2, <2>3 DEF Pages!Answered
    <3> QED BY <1>2, <1>a, <3>1, <3>2
  <2>4. CASE ~(answer.status = 404 /\ n = 1) /\ (answer.status # 200 \/ answer.body # "whole")
    BY <1>f, <2>4 DEF Pages!FeedPage, PageFailures
  <2>5. CASE answer.status = 200 /\ answer.body = "whole"
    <3>1. page = Pages!Page({answer.ids[i] : i \in {k \in DOMAIN answer.ids : k <= PerPage}}, answer.next, Len(answer.ids) > PerPage, "")
      BY <2>5 DEF Pages!FeedPage
    <3> HIDE DEF page
    <3>2. Pages!Answered(run.connector, answer)
      BY <1>0, <1>2, <2>2, <2>5 DEF Pages!Answered
    <3> QED BY <1>2, <1>p, <3>1, <3>2, Zenon
  <2> QED BY <1>0, <2>3, <2>4, <2>5
<1>3. CASE run.connector = "github"
  <2> DEFINE page == Pages!GithubPage(n, run.want, answer)
  <2>1. Pages!FetchPage(run, n, answer) = page
    BY <1>3 DEF Pages!FetchPage
  <2> SUFFICES Follows(run, n, answer, page)
    BY <2>1, Zenon
  <2>2. answer.status = 200 => answer.reason = ""
    <3>1. answer.reason = "" \/ (answer.reason = "rate" /\ answer.status = 403)
      BY <1>3 DEF Told
    <3>2. answer.status = 200 => ~(answer.status = 403)
      BY <1>0
    <3> QED BY <3>1, <3>2, Zenon
  <2>3. CASE answer.status = 404 /\ n = 1
    <3>1. page = Pages!Absent
      BY <2>3 DEF Pages!GithubPage, Pages!GithubAccount, Pages!GithubRepositories, Pages!GithubGet
    <3> HIDE DEF page
    <3>2. Pages!Answered(run.connector, answer)
      BY <1>3, <2>3 DEF Pages!Answered
    <3> QED BY <1>3, <1>a, <3>1, <3>2
  <2>4. CASE ~(answer.status = 404 /\ n = 1) /\ (answer.status # 200 \/ answer.body # "whole")
    BY <1>f, <2>4 DEF Pages!GithubPage, Pages!GithubAccount, Pages!GithubRepositories, Pages!GithubGet, PageFailures
  <2>5. CASE answer.status = 200 /\ answer.body = "whole" /\ n = 1 /\ run.want
    <3>1. page = Pages!Page({Subject}, answer.next, FALSE, "")
      BY <2>5 DEF Pages!GithubPage, Pages!GithubAccount, Pages!GithubRepositories, Pages!GithubGet, Pages!Wanted
    <3> HIDE DEF page
    <3>2. Pages!Answered(run.connector, answer)
      BY <1>0, <1>3, <2>2, <2>5 DEF Pages!Answered
    <3> QED BY <1>3, <1>p, <3>1, <3>2, Zenon
  <2>6. CASE answer.status = 200 /\ answer.body = "whole" /\ n = 1 /\ ~run.want
    <3>1. page = Pages!Page({Subject}, 0, FALSE, "")
      BY <2>6 DEF Pages!GithubPage, Pages!GithubAccount, Pages!GithubRepositories, Pages!GithubGet, Pages!Wanted
    <3> HIDE DEF page
    <3>2. Pages!Answered(run.connector, answer)
      BY <1>0, <1>3, <2>2, <2>6 DEF Pages!Answered
    <3> QED BY <1>3, <1>p, <3>1, <3>2, Zenon
  <2>7. CASE answer.status = 200 /\ answer.body = "whole" /\ n # 1
    <3>1. page = Pages!Page(Pages!Identified(answer.ids), answer.next, FALSE, "")
      BY <2>7 DEF Pages!GithubPage, Pages!GithubAccount, Pages!GithubRepositories, Pages!GithubGet
    <3> HIDE DEF page
    <3>2. Pages!Answered(run.connector, answer)
      BY <1>0, <1>3, <2>2, <2>7 DEF Pages!Answered
    <3> QED BY <1>3, <1>p, <3>1, <3>2, Zenon
  <2> QED BY <1>0, <2>3, <2>4, <2>5, <2>6, <2>7
<1>4. CASE run.connector = "youtube"
  <2> DEFINE page == Pages!YoutubePage(n, run.want, answer)
             fault == Pages!YoutubeFailure(answer)
  <2>1. Pages!FetchPage(run, n, answer) = page
    BY <1>4 DEF Pages!FetchPage
  <2>2. fault \in PageFailures \cup {""}
    BY DEF Pages!YoutubeFailure, Pages!YoutubeError, PageFailures
  <2>3. fault = "" => Pages!Documented(answer) \/ (answer.reason = "" /\ answer.status = 200 /\ answer.body = "whole")
    <3>1. ASSUME fault = ""
          PROVE  answer.body = "whole" /\ (Pages!Documented(answer) \/ (~(answer.status >= 400) /\ answer.reason = ""))
      <4>1. Pages!YoutubeError(answer) # ""
        BY DEF Pages!YoutubeError
      <4> QED BY <3>1, <4>1 DEF Pages!YoutubeFailure
    <3> HIDE DEF fault
    <3> QED BY <1>0, <3>1
  <2>4. Pages!Documented(answer) => answer.reason \in {"not_found", "comments_disabled"}
    BY DEF Pages!Documented
  <2>5. fault = "" => Pages!Answered(run.connector, answer)
    <3> HIDE DEF fault
    <3> QED BY <1>4, <2>3, <2>4 DEF Pages!Answered
  <2>6. fault # "" => page = Pages!Failure(fault)
    BY DEF Pages!YoutubePage, Pages!YoutubeChannel, Pages!YoutubeComments, Pages!YoutubeUploads
  <2>7. \/ fault # ""
        \/ page = Pages!Absent
        \/ page = Pages!Page({Subject}, answer.next, FALSE, "")
        \/ page = Pages!Page({}, 0, FALSE, "")
        \/ page = Pages!Page(Pages!Identified(answer.ids), answer.next, FALSE, "")
        \/ page = Pages!Failure("unavailable")
    BY DEF Pages!YoutubePage, Pages!YoutubeChannel, Pages!YoutubeComments, Pages!YoutubeUploads
  <2> HIDE DEF page, fault
  <2>8. Follows(run, n, answer, page)
    <3>1. CASE fault # ""
      BY <1>f, <2>2, <2>6, <3>1
    <3>2. CASE fault = ""
      <4>1. page = Pages!Failure("unavailable") => Follows(run, n, answer, page)
        BY <1>f DEF PageFailures
      <4>2. page = Pages!Absent => Follows(run, n, answer, page)
        BY <1>4, <1>a, <2>5, <3>2
      <4>3. \A ids : page = Pages!Page(ids, answer.next, FALSE, "") => Follows(run, n, answer, page)
        BY <1>4, <1>p, <2>5, <3>2, Zenon
      <4>4. page = Pages!Page({}, 0, FALSE, "") => Follows(run, n, answer, page)
        BY <1>4, <1>p, <2>5, <3>2, Zenon
      <4> QED BY <2>7, <3>2, <4>1, <4>2, <4>3, <4>4
    <3> QED BY <3>1, <3>2
  <2> QED BY <2>1, <2>8, Zenon
<1>5. CASE run.connector = "instagram"
  <2> DEFINE page == Pages!InstagramPage(n, run.want, answer)
             media == IF run.want THEN Pages!All(answer.ids) ELSE {}
             ids == (IF n = 1 THEN {Subject} ELSE {}) \cup media
             next == IF media = {} THEN 0 ELSE answer.next
  <2>1. Pages!FetchPage(run, n, answer) = page
    BY <1>5 DEF Pages!FetchPage
  <2> SUFFICES Follows(run, n, answer, page)
    BY <2>1, Zenon
  <2>2. Pages!GraphError(answer) \in PageFailures
    BY DEF Pages!GraphError, PageFailures
  <2>3. CASE answer.body # "whole" \/ answer.status >= 400 \/ answer.reason # ""
    BY <1>f, <2>2, <2>3 DEF Pages!InstagramPage, PageFailures
  <2>4. CASE ~(answer.body # "whole" \/ answer.status >= 400 \/ answer.reason # "")
    <3>1. page = Pages!Page(ids, next, FALSE, "")
      BY <2>4 DEF Pages!InstagramPage
    <3>2. next \in {0, answer.next}
      OBVIOUS
    <3> HIDE DEF page, ids, next
    <3>3. Pages!Answered(run.connector, answer)
      BY <1>0, <1>5, <2>4 DEF Pages!Answered
    <3> QED BY <1>5, <1>p, <3>1, <3>2, <3>3, Zenon
  <2> QED BY <2>3, <2>4
<1>6. CASE run.connector = "profile"
  <2> DEFINE page == Pages!ProfilePage(answer)
  <2>1. Pages!FetchPage(run, n, answer) = page
    BY <1>6 DEF Pages!FetchPage
  <2> SUFFICES Follows(run, n, answer, page)
    BY <2>1, Zenon
  <2>2. answer.reason \in {"", "login_wall", "private"}
    BY <1>6 DEF Told
  <2>3. CASE answer.status = 404
    <3>1. page = Pages!Absent
      BY <2>3 DEF Pages!ProfilePage
    <3> HIDE DEF page
    <3>2. Pages!Answered(run.connector, answer)
      BY <1>6, <2>3 DEF Pages!Answered
    <3> QED BY <1>6, <1>a, <3>1, <3>2
  <2>4. CASE answer.status # 404 /\ (answer.reason = "login_wall" \/ answer.status # 200 \/ answer.body = "garbled")
    <3>1. \/ page = Pages!Failure("rate_limited") \/ page = Pages!Failure("authentication_required")
          \/ page = Pages!ByStatus(answer.status) \/ page = Pages!Failure("parse_error")
      BY <2>4, Zenon DEF Pages!ProfilePage
    <3>2. {"rate_limited", "authentication_required", "parse_error"} \subseteq PageFailures
      BY DEF PageFailures
    <3> HIDE DEF page
    <3> QED BY <1>f, <3>1, <3>2, Zenon
  <2>5. CASE answer.status = 200 /\ answer.reason # "login_wall" /\ answer.body # "garbled"
    <3>1. page = Pages!Page({Subject}, 0, answer.reason = "private", "")
      BY <2>5 DEF Pages!ProfilePage
    <3> HIDE DEF page
    <3>2. Pages!Answered(run.connector, answer)
      BY <1>0, <1>6, <2>2, <2>5 DEF Pages!Answered
    <3> QED BY <1>6, <1>p, <3>1, <3>2, Zenon
  <2> QED BY <1>0, <2>3, <2>4, <2>5
<1>7. CASE run.connector = "preview"
  <2> DEFINE page == Pages!PreviewPage(n, answer)
             ids == (IF n = 1 THEN {Subject} ELSE {}) \cup Pages!Identified(answer.ids)
             next == IF Pages!Identified(answer.ids) = {} THEN 0 ELSE answer.next
  <2>1. Pages!FetchPage(run, n, answer) = page
    BY <1>7 DEF Pages!FetchPage
  <2> SUFFICES Follows(run, n, answer, page)
    BY <2>1, Zenon
  <2>2. answer.reason \in {"", "no_preview"}
    BY <1>7 DEF Told
  <2>3. CASE answer.status # 200 \/ answer.reason = "no_preview" \/ answer.body = "garbled"
    <3>1. Fails(page)
      BY <2>3, PreviewFails, Zenon
    <3> QED BY <3>1, Zenon DEF Follows
  <2>4. CASE answer.status = 200 /\ answer.reason = "" /\ answer.body # "garbled"
    <3>1. page = Pages!Page(ids, next, FALSE, "")
      <4>0. answer.status = 200
        BY <2>4
      <4>1. answer.status # 429 /\ ~(answer.status >= 500) /\ answer.status # 404
        BY <4>0
      <4> QED BY <2>4, <4>1, Zenon DEF Pages!PreviewPage
    <3>2. next \in {0, answer.next} /\ (n = 1 => Subject \in ids)
      OBVIOUS
    <3> HIDE DEF page, ids, next
    <3>3. Pages!Answered(run.connector, answer)
      BY <1>0, <1>7, <2>4 DEF Pages!Answered
    <3> QED BY <1>7, <1>p, <3>1, <3>2, <3>3, Zenon
  <2> QED BY <2>2, <2>3, <2>4
<1>8. CASE run.connector = "bot"
  <2> DEFINE page == Pages!BotPage(answer)
  <2>1. Pages!FetchPage(run, n, answer) = page
    BY <1>8 DEF Pages!FetchPage
  <2> SUFFICES Follows(run, n, answer, page)
    BY <2>1, Zenon
  <2>2. answer.reason \in Why
    BY <1>0
  <2>3. CASE answer.body = "whole" /\ answer.reason = "not_found"
    <3>1. page = Pages!Absent
      BY <2>3 DEF Pages!BotPage
    <3> HIDE DEF page
    <3>2. Pages!Answered(run.connector, answer)
      BY <1>8, <2>3 DEF Pages!Answered
    <3> QED BY <1>8, <1>a, <3>1, <3>2
  <2>4. CASE answer.body # "whole" \/ (answer.reason # "not_found" /\ (answer.status # 200 \/ answer.reason \notin {"", "no_count"}))
    BY <1>f, <2>4 DEF Pages!BotPage, PageFailures
  <2>5. CASE answer.body = "whole" /\ answer.status = 200 /\ answer.reason \in {"", "no_count"}
    <3>1. page = Pages!Page({Subject}, 0, answer.reason = "no_count", "")
      BY <2>5 DEF Pages!BotPage
    <3> HIDE DEF page
    <3>2. Pages!Answered(run.connector, answer)
      BY <1>0, <1>8, <2>2, <2>5 DEF Pages!Answered
    <3> QED BY <1>8, <1>p, <3>1, <3>2, Zenon
  <2> QED BY <1>0, <2>3, <2>4, <2>5
<1>9. run.connector \in Connectors
  BY DEF AnyRun
<1> QED BY <1>1, <1>2, <1>3, <1>4, <1>5, <1>6, <1>7, <1>8, <1>9, Zenon DEF Connectors

\* The connectors of which a completed run holds everything.
Whole(run) ==
  \/ run.connector \in {"feed", "preview", "youtube"}
  \/ run.want /\ run.connector \in {"github", "instagram"}

Clean(page) == page.outcome = "page" /\ ~page.gap /\ page.hint = ""

\* A page without a gap or a hint holds the items of its answer, and continues where its source said.
Holds(run, n, answer, page) ==
  \/ answer.reason # ""
  \/ n = 1 /\ run.connector \in {"github", "youtube"} /\ page.next = answer.next
  \/ /\ answer.status = 200 /\ Pages!Identified(answer.ids) \subseteq page.ids
     /\ \/ page.next = answer.next
        \/ run.connector \in {"preview", "instagram"} /\ Pages!Identified(answer.ids) = {}

\* A failure is not a page without a gap,
LEMMA FailuresAreNotClean == \A page : Fails(page) => ~Clean(page)
BY DEF Fails, Clean, PageFailures

\* and neither is any page that says so, or that says there is nothing.
LEMMA NotClean ==
  /\ \A status : ~Clean(Pages!ByStatus(status))
  /\ \A outcome \in PageFailures : ~Clean(Pages!Failure(outcome))
  /\ ~Clean(Pages!Absent)
<1>1. ~Clean(Pages!Absent)
  BY Nothing DEF Clean
<1> QED BY <1>1, FailuresAreNotClean, Failing, Zenon

\* A page without a gap holds all the items of its answer, and goes on to where its source said.
LEMMA PagesAreWhole ==
  ASSUME NEW run \in AnyRun, Whole(run), NEW answer, Told(run.connector, answer), answer.body # "truncated",
         NEW n \in Nat, Clean(Pages!FetchPage(run, n, answer))
  PROVE  Holds(run, n, answer, Pages!FetchPage(run, n, answer))
<1>0. /\ answer.status \in Nat /\ (answer.status = 200 \/ answer.status >= 400)
      /\ answer.body \in {"whole", "truncated", "garbled"} /\ answer.reason \in Why
  BY DEF Told, AnyAnswer
<1>f. /\ \A status : ~Clean(Pages!ByStatus(status))
      /\ \A outcome \in PageFailures : ~Clean(Pages!Failure(outcome))
      /\ ~Clean(Pages!Absent)
  BY NotClean
<1>1. CASE run.connector = "feed"
  <2> DEFINE page == Pages!FeedPage(n, answer)
             ids == answer.ids
             shown == {ids[i] : i \in {k \in DOMAIN ids : k <= PerPage}}
             more == Len(ids) > PerPage
  <2>1. Pages!FetchPage(run, n, answer) = page
    BY <1>1 DEF Pages!FetchPage
  <2>2. Clean(page)
    BY <2>1, Zenon
  <2>3. answer.status = 200 /\ answer.body = "whole"
    BY <1>f, <2>2 DEF Pages!FeedPage, PageFailures
  <2>4. page = Pages!Page(shown, answer.next, more, "")
    BY <2>3 DEF Pages!FeedPage
  <2>5. ids \in Seq(Nat \cup {NoId})
    BY DEF Told, AnyAnswer
  <2> HIDE DEF page, ids, shown, more
  <2>6. page.ids = shown /\ page.next = answer.next /\ page.gap = more
    BY <2>4 DEF Pages!Page
  <2>7. ~more
    BY <2>2, <2>6 DEF Clean
  <2>8. \A k \in DOMAIN ids : k <= PerPage
    <3>1. PerPage \in Nat
      BY PagesAssumption DEF PagesAssumption, Pages!PagesAssumption
    <3> QED BY <2>5, <2>7, <3>1 DEF more
  <2>9. Pages!Identified(ids) \subseteq shown
    BY <2>8 DEF Pages!Identified, Pages!All, shown
  <2>10. Holds(run, n, answer, page)
    BY <2>3, <2>6, <2>9 DEF Holds, ids
  <2> QED BY <2>1, <2>10, Zenon
<1>2. CASE run.connector = "github" /\ run.want
  <2> DEFINE page == Pages!GithubPage(n, run.want, answer)
             ids == Pages!Identified(answer.ids)
  <2>1. Pages!FetchPage(run, n, answer) = page
    BY <1>2 DEF Pages!FetchPage
  <2>2. Clean(page)
    BY <2>1, Zenon
  <2>3. answer.status = 200
    BY <1>f, <2>2 DEF Pages!GithubPage, Pages!GithubAccount, Pages!GithubRepositories, Pages!GithubGet, PageFailures
  <2>4. \/ n = 1 /\ page = Pages!Page({Subject}, answer.next, FALSE, "")
        \/ page = Pages!Page(ids, answer.next, FALSE, "")
    BY <1>2, <1>f, <2>2, <2>3
       DEF Pages!GithubPage, Pages!GithubAccount, Pages!GithubRepositories, Pages!Wanted, PageFailures
  <2> HIDE DEF page, ids
  <2>5. (n = 1 /\ page.next = answer.next) \/ (page.next = answer.next /\ page.ids = ids)
    <3> DEFINE next == answer.next
    <3> HIDE DEF next
    <3>1. ASSUME page = Pages!Page({Subject}, next, FALSE, "") PROVE page.next = next
      BY <3>1 DEF Pages!Page
    <3>2. ASSUME page = Pages!Page(ids, next, FALSE, "") PROVE page.next = next /\ page.ids = ids
      BY <3>2 DEF Pages!Page
    <3> QED BY <2>4, <3>1, <3>2 DEF next
  <2>6. Holds(run, n, answer, page)
    BY <1>2, <2>3, <2>5 DEF Holds, ids
  <2> QED BY <2>1, <2>6, Zenon
<1>3. CASE run.connector = "youtube"
  <2> DEFINE page == Pages!YoutubePage(n, run.want, answer)
             ids == Pages!Identified(answer.ids)
             fault == Pages!YoutubeFailure(answer)
  <2>1. Pages!FetchPage(run, n, answer) = page
    BY <1>3 DEF Pages!FetchPage
  <2>2. Clean(page)
    BY <2>1, Zenon
  <2>3. fault \in PageFailures \cup {""}
    BY DEF Pages!YoutubeFailure, Pages!YoutubeError, PageFailures
  <2>4. fault # "" => page = Pages!Failure(fault)
    BY DEF Pages!YoutubePage, Pages!YoutubeChannel, Pages!YoutubeComments, Pages!YoutubeUploads
  <2>5. fault = ""
    <3> HIDE DEF page, fault
    <3> QED BY <1>f, <2>2, <2>3, <2>4
  <2>6. CASE answer.reason # ""
    BY <2>1, <2>6, Zenon DEF Holds
  <2>7. CASE answer.reason = ""
    <3>1. ~Pages!Documented(answer) /\ answer.reason # "not_found" /\ answer.reason # "comments_disabled"
      BY <2>7 DEF Pages!Documented
    <3>2. ~(answer.status >= 400)
      <4>1. Pages!YoutubeError(answer) # ""
        BY DEF Pages!YoutubeError
      <4> QED BY <2>5, <3>1, <4>1 DEF Pages!YoutubeFailure
    <3>3. answer.status = 200
      BY <1>0, <3>2
    <3>4. \/ n = 1 /\ page = Pages!Page({Subject}, answer.next, FALSE, "")
          \/ page = Pages!Page(ids, answer.next, FALSE, "")
      BY <1>f, <2>2, <2>5, <3>1
         DEF Pages!YoutubePage, Pages!YoutubeChannel, Pages!YoutubeComments, Pages!YoutubeUploads
    <3> HIDE DEF page, ids
    <3>5. (n = 1 /\ page.next = answer.next) \/ (page.next = answer.next /\ page.ids = ids)
      <4> DEFINE next == answer.next
      <4> HIDE DEF next
      <4>1. ASSUME page = Pages!Page({Subject}, next, FALSE, "") PROVE page.next = next
        BY <4>1 DEF Pages!Page
      <4>2. ASSUME page = Pages!Page(ids, next, FALSE, "") PROVE page.next = next /\ page.ids = ids
        BY <4>2 DEF Pages!Page
      <4> QED BY <3>4, <4>1, <4>2 DEF next
    <3>6. Holds(run, n, answer, page)
      BY <1>3, <3>3, <3>5 DEF Holds, ids
    <3> QED BY <2>1, <3>6, Zenon
  <2> QED BY <2>6, <2>7
<1>4. CASE run.connector = "instagram" /\ run.want
  <2> DEFINE page == Pages!InstagramPage(n, run.want, answer)
             ids == (IF n = 1 THEN {Subject} ELSE {}) \cup Pages!All(answer.ids)
             next == IF Pages!All(answer.ids) = {} THEN 0 ELSE answer.next
  <2>1. Pages!FetchPage(run, n, answer) = page
    BY <1>4 DEF Pages!FetchPage
  <2>2. Clean(page)
    BY <2>1, Zenon
  <2>a. Pages!GraphError(answer) \in PageFailures
    BY DEF Pages!GraphError, PageFailures
  <2>3. answer.body = "whole" /\ ~(answer.status >= 400) /\ answer.reason = ""
    BY <1>f, <2>a, <2>2 DEF Pages!InstagramPage, PageFailures
  <2>4. page = Pages!Page(ids, next, FALSE, "")
    BY <1>4, <2>3 DEF Pages!InstagramPage
  <2> HIDE DEF page, ids, next
  <2>5. page.ids = ids /\ page.next = next
    BY <2>4 DEF Pages!Page
  <2>6. answer.status = 200
    BY <1>0, <2>3
  <2>7. Pages!Identified(answer.ids) \subseteq ids
    BY DEF Pages!Identified, ids
  <2>8. next = answer.next \/ Pages!Identified(answer.ids) = {}
    BY DEF next, Pages!Identified
  <2>9. Holds(run, n, answer, page)
    BY <1>4, <2>5, <2>6, <2>7, <2>8 DEF Holds
  <2> QED BY <2>1, <2>9, Zenon
<1>5. CASE run.connector = "preview"
  <2> DEFINE page == Pages!PreviewPage(n, answer)
             ids == (IF n = 1 THEN {Subject} ELSE {}) \cup Pages!Identified(answer.ids)
             next == IF Pages!Identified(answer.ids) = {} THEN 0 ELSE answer.next
  <2>1. Pages!FetchPage(run, n, answer) = page
    BY <1>5 DEF Pages!FetchPage
  <2>2. Clean(page)
    BY <2>1, Zenon
  <2>3. answer.status = 200 /\ answer.reason # "no_preview" /\ answer.body # "garbled"
    <3>1. ~Fails(page)
      BY <2>2, FailuresAreNotClean, Zenon
    <3> QED BY <3>1, PreviewFails, Zenon
  <2>a. answer.status # 429 /\ ~(answer.status >= 500) /\ answer.status # 404
    <3>1. answer.status = 200
      BY <2>3
    <3> QED BY <3>1
  <2>4. page = Pages!Page(ids, next, FALSE, "")
    BY <2>3, <2>a, Zenon DEF Pages!PreviewPage
  <2> HIDE DEF page, ids, next
  <2>5. page.ids = ids /\ page.next = next
    BY <2>4 DEF Pages!Page
  <2>6. Pages!Identified(answer.ids) \subseteq ids
    BY DEF ids
  <2>7. next = answer.next \/ Pages!Identified(answer.ids) = {}
    BY DEF next
  <2>8. Holds(run, n, answer, page)
    BY <1>5, <2>3, <2>5, <2>6, <2>7 DEF Holds
  <2> QED BY <2>1, <2>8, Zenon
<1> QED BY <1>1, <1>2, <1>3, <1>4, <1>5 DEF Whole

-----------------------------------------------------------------------------
\* The answers of a source, which link to each other.
IsSource(connector, source) ==
  /\ source \in Seq(AnyAnswer) /\ source # <<>>
  /\ \A at \in DOMAIN source :
       Told(connector, source[at]) /\ source[at].next \in DOMAIN source \cup {0, Elsewhere}

\* A run of which everything is expected, of a source that was not cut.
Expected(run, source) == Whole(run) /\ \A at \in DOMAIN source : source[at].body # "truncated"

\* What is held of a page that was asked for: its items, and the way to the next.
Covers(run, source, s, at) ==
  /\ Pages!Items(run, source, at) \subseteq s.ids
  /\ Pages!Ends(run, source, at) \/ source[at].next \in s.asked \cup {s.at}

Row(at, ids, gap, hint, failure, asks) ==
  [at |-> at, ids |-> ids, gap |-> gap, hint |-> hint, failure |-> failure, asked |-> asks]

\* A run after its n-th page.
RunIInv(run, source, s, n) ==
  /\ s = Row(s.at, s.ids, s.gap, s.hint, s.failure, s.asked)
  /\ s.at \in DOMAIN source \cup {0, Elsewhere} /\ s.asked \subseteq DOMAIN source
  /\ s.failure \in PageFailures \cup {""} /\ s.hint \in {"", "no_findings"}
  /\ s.at # 0 => s.failure = ""
  /\ n = 0 => s.at = 1 /\ s.asked = {}
  /\ n > 0 /\ s.failure = "" => 1 \in s.asked
  /\ \A at \in s.asked : Pages!Answered(run.connector, source[at])
  /\ run.connector = "preview" => s.hint = "" /\ (1 \in s.asked => Subject \in s.ids)
  /\ Expected(run, source) /\ s.failure = "" /\ s.hint = "" /\ ~s.gap =>
       \A at \in s.asked : Covers(run, source, s, at)

\* A page that failed ends the run and keeps what is held.
LEMMA FailedPage ==
  ASSUME NEW run, NEW source, NEW s, NEW n \in Nat, RunIInv(run, source, s, n), NEW why \in PageFailures
  PROVE  RunIInv(run, source, [s EXCEPT !.at = 0, !.failure = why], n + 1)
<1> DEFINE t == [s EXCEPT !.at = 0, !.failure = why]
<1>1. s = Row(s.at, s.ids, s.gap, s.hint, s.failure, s.asked)
  BY DEF RunIInv
<1> DEFINE at == s.at
           ids == s.ids
           gap == s.gap
           hint == s.hint
           failure == s.failure
           asks == s.asked
<1>2. s = Row(at, ids, gap, hint, failure, asks) /\ t = [s EXCEPT !.at = 0, !.failure = why]
  BY <1>1
<1> HIDE DEF t, at, ids, gap, hint, failure, asks
<1>a. /\ t.at = 0 /\ t.ids = ids /\ t.gap = gap /\ t.hint = hint /\ t.failure = why /\ t.asked = asks
      /\ t = Row(0, ids, gap, hint, why, asks)
  BY <1>2 DEF Row
<1>3. /\ t.at = 0 /\ t.ids = s.ids /\ t.gap = s.gap /\ t.hint = s.hint /\ t.failure = why /\ t.asked = s.asked
      /\ t = Row(t.at, t.ids, t.gap, t.hint, t.failure, t.asked)
  BY <1>a DEF ids, gap, hint, asks
<1>4. why # "" /\ n + 1 # 0
  <2>1. why # ""
    BY DEF PageFailures
  <2>2. n + 1 # 0
    OBVIOUS
  <2> QED BY <2>1, <2>2
<1>5. RunIInv(run, source, t, n + 1)
  BY <1>3, <1>4 DEF RunIInv
<1> QED BY <1>5 DEF t

\* A page that is kept adds its items, and is followed by the next.
LEMMA KeptPage ==
  ASSUME NEW run \in AnyRun, NEW source, IsSource(run.connector, source), NEW s, NEW n \in Nat,
         RunIInv(run, source, s, n), s.at \in DOMAIN source,
         NEW page, page = Pages!FetchPage(run, n + 1, source[s.at]), page.outcome = "page"
  PROVE  RunIInv(run, source, Pages!Kept(run, s, page), n + 1)
<1> DEFINE answer == source[s.at]
           t == Pages!Kept(run, s, page)
           gap == s.gap \/ page.gap
           at == IF run.connector = "feed" /\ page.next = s.at THEN 0 ELSE page.next
           hint == IF page.hint = "" THEN s.hint ELSE page.hint
           ids == s.ids \cup page.ids
           asks == s.asked \cup {s.at}
<1>0. source \in Seq(AnyAnswer) /\ Told(run.connector, answer) /\ answer.next \in DOMAIN source \cup {0, Elsewhere}
  BY DEF IsSource
<1>1. /\ Continues(page, answer) /\ Pages!Answered(run.connector, answer)
      /\ run.connector = "preview" => page.hint = "" /\ (n + 1 = 1 => Subject \in page.ids)
  <2>1. Follows(run, n + 1, answer, page)
    BY <1>0, PagesAreAnswered
  <2>2. ~Fails(page)
    BY DEF Fails, PageFailures
  <2> QED BY <2>1, <2>2 DEF Follows
<1>2. t = Row(at, ids, gap, hint, "", asks)
  BY DEF Pages!Kept, Row
<1> HIDE DEF t, gap, at, hint, ids, asks
<1>3. /\ t.at = at /\ t.ids = ids /\ t.gap = gap /\ t.hint = hint /\ t.failure = "" /\ t.asked = asks
      /\ t = Row(t.at, t.ids, t.gap, t.hint, t.failure, t.asked)
  <2>1. t.at = at /\ t.ids = ids /\ t.gap = gap /\ t.hint = hint /\ t.failure = "" /\ t.asked = asks
    BY <1>2 DEF Row
  <2> QED BY <1>2, <2>1
<1>4. at \in DOMAIN source \cup {0, Elsewhere} /\ asks \subseteq DOMAIN source
  <2>1. page.next \in {0, answer.next}
    BY <1>1 DEF Continues
  <2>2. at \in {0, page.next}
    BY DEF at
  <2>3. s.asked \subseteq DOMAIN source
    BY DEF RunIInv
  <2>4. at \in DOMAIN source \cup {0, Elsewhere}
    BY <1>0, <2>1, <2>2
  <2>5. asks \subseteq DOMAIN source
    BY <2>3 DEF asks
  <2> QED BY <2>4, <2>5
<1>5. hint \in {"", "no_findings"} /\ (run.connector = "preview" => hint = "")
  <2>1. s.hint \in {"", "no_findings"} /\ (run.connector = "preview" => s.hint = "")
    BY Zenon DEF RunIInv
  <2>2. page.hint \in {"", "no_findings"} /\ (run.connector = "preview" => page.hint = "")
    BY <1>1, Zenon DEF Continues
  <2> QED BY <2>1, <2>2 DEF hint
<1>6. 1 \in asks
  <2>1. s.at # 0
    BY <1>0
  <2>2. s.failure = ""
    BY <2>1 DEF RunIInv
  <2>3. CASE n = 0
    <3>1. s.at = 1
      BY <2>3 DEF RunIInv
    <3> QED BY <3>1 DEF asks
  <2>4. CASE n # 0
    <3>1. n > 0
      BY <2>4
    <3>2. 1 \in s.asked
      BY <2>2, <3>1, Zenon DEF RunIInv
    <3> QED BY <3>2 DEF asks
  <2> QED BY <2>3, <2>4
<1>7. \A a \in asks : Pages!Answered(run.connector, source[a])
  <2>1. \A a \in s.asked : Pages!Answered(run.connector, source[a])
    BY DEF RunIInv
  <2> QED BY <1>1, <2>1 DEF asks
<1>8. run.connector = "preview" => Subject \in ids
  <2>1. CASE n = 0
    <3>1. n + 1 = 1
      BY <2>1
    <3>2. run.connector = "preview" => Subject \in page.ids
      BY <1>1, <3>1
    <3> QED BY <3>2 DEF ids
  <2>2. CASE n # 0
    <3>1. s.at # 0 /\ n > 0
      BY <1>0, <2>2
    <3> QED BY <3>1 DEF RunIInv, ids
  <2> QED BY <2>1, <2>2
<1>9. ASSUME Expected(run, source), t.hint = "", ~t.gap, NEW a \in asks PROVE Covers(run, source, t, a)
  <2>1. s.hint = "" /\ page.hint = "" /\ ~s.gap /\ ~page.gap /\ s.failure = ""
    <3>1. s.failure = ""
      <4>1. s.at # 0
        BY <1>0
      <4> QED BY <4>1 DEF RunIInv
    <3>2. hint = "" /\ ~gap
      BY <1>3, <1>9
    <3> QED BY <3>1, <3>2 DEF hint, gap
  <2>2. CASE a \in s.asked
    <3>1. Covers(run, source, s, a)
      BY <1>9, <2>1, <2>2 DEF RunIInv
    <3>2. s.ids \subseteq t.ids /\ s.asked \cup {s.at} \subseteq t.asked
      BY <1>3 DEF ids, asks
    <3> QED BY <3>1, <3>2 DEF Covers
  <2>3. CASE a = s.at
    <3>1. Holds(run, n + 1, answer, page)
      <4>1. Clean(page)
        BY <2>1 DEF Clean
      <4>2. Whole(run) /\ answer.body # "truncated"
        BY <1>9 DEF Expected
      <4> QED BY <1>0, <4>1, <4>2, PagesAreWhole
    <3>2. Pages!Items(run, source, a) = {} \/ Pages!Items(run, source, a) = Pages!Identified(answer.ids)
      BY <2>3 DEF Pages!Items
    <3>3. answer.reason # "" => Pages!Items(run, source, a) = {} /\ Pages!Ends(run, source, a)
      BY <2>3 DEF Pages!Items, Pages!Ends
    <3>4. a = 1 /\ run.connector \in {"github", "youtube"} => Pages!Items(run, source, a) = {}
      BY DEF Pages!Items
    <3>5. run.connector \in {"preview", "instagram"} /\ Pages!Items(run, source, a) = {} => Pages!Ends(run, source, a)
      BY DEF Pages!Ends
    <3>6. page.next = answer.next => Pages!Ends(run, source, a) \/ source[a].next \in t.asked \cup {t.at}
      <4>1. at = page.next \/ (at = 0 /\ page.next = s.at)
        BY DEF at
      <4>2. s.at \in t.asked /\ t.at = at
        BY <1>3 DEF asks
      <4> QED BY <2>3, <4>1, <4>2
    <3>7. page.ids \subseteq t.ids
      BY <1>3 DEF ids
    <3>8. n + 1 = 1 => a = 1
      <4>1. n = 0 => s.at = 1
        BY DEF RunIInv
      <4>2. n + 1 = 1 => n = 0
        OBVIOUS
      <4> QED BY <2>3, <4>1, <4>2
    <3>9. CASE answer.reason # ""
      BY <3>3, <3>9 DEF Covers
    <3>10. CASE n + 1 = 1 /\ run.connector \in {"github", "youtube"} /\ page.next = answer.next
      BY <3>4, <3>6, <3>8, <3>10 DEF Covers
    <3>11. CASE /\ Pages!Identified(answer.ids) \subseteq page.ids
                /\ \/ page.next = answer.next
                   \/ run.connector \in {"preview", "instagram"} /\ Pages!Identified(answer.ids) = {}
      <4>1. Pages!Items(run, source, a) \subseteq t.ids
        BY <3>2, <3>7, <3>11
      <4>2. Pages!Ends(run, source, a) \/ source[a].next \in t.asked \cup {t.at}
        BY <3>2, <3>5, <3>6, <3>11
      <4> QED BY <4>1, <4>2 DEF Covers
    <3> QED BY <3>1, <3>9, <3>10, <3>11 DEF Holds
  <2> QED BY <1>9, <2>2, <2>3 DEF asks
<1>10. n + 1 # 0
  OBVIOUS
<1>11. RunIInv(run, source, t, n + 1)
  BY <1>3, <1>4, <1>5, <1>6, <1>7, <1>8, <1>9, <1>10 DEF RunIInv
<1> QED BY <1>11 DEF t

\* Each page keeps the invariant of a run,
LEMMA RunStep ==
  ASSUME NEW run \in AnyRun, NEW source, IsSource(run.connector, source), NEW s, NEW n \in Nat,
         RunIInv(run, source, s, n)
  PROVE  RunIInv(run, source, Pages!NextPage(run, source, s, n + 1), n + 1)
<1> DEFINE page == Pages!Asked(run, source, s, n + 1)
<1>1. CASE s.at = 0
  <2>1. Pages!NextPage(run, source, s, n + 1) = s
    BY <1>1 DEF Pages!NextPage
  <2>2. n # 0 /\ n > 0 /\ n + 1 # 0
    <3>1. n = 0 => s.at = 1
      BY DEF RunIInv
    <3>2. n # 0
      BY <1>1, <3>1
    <3> QED BY <3>2
  <2>3. RunIInv(run, source, s, n + 1)
    BY <2>2 DEF RunIInv
  <2> QED BY <2>1, <2>3
<1>2. CASE s.at # 0
  <2>1. /\ page.outcome = "page" => Pages!NextPage(run, source, s, n + 1) = Pages!Kept(run, s, page)
        /\ page.outcome # "page" =>
             Pages!NextPage(run, source, s, n + 1) = [s EXCEPT !.at = 0, !.failure = page.outcome]
    BY <1>2 DEF Pages!NextPage
  <2>a. \A why \in PageFailures : RunIInv(run, source, [s EXCEPT !.at = 0, !.failure = why], n + 1)
    BY FailedPage
  <2>2. CASE s.at = Elsewhere
    <3>1. page = Pages!Unusable(run)
      BY <2>2 DEF Pages!Asked
    <3>2. Fails(Pages!Unusable(run))
      BY DEF Fails, Pages!Unusable, Pages!Failure, PageFailures
    <3>3. page.outcome \in PageFailures /\ page.outcome # "page"
      <4>1. page.outcome \in PageFailures
        BY <3>1, <3>2, Zenon DEF Fails
      <4> HIDE DEF page
      <4> QED BY <4>1 DEF PageFailures
    <3> HIDE DEF page
    <3> QED BY <2>1, <2>a, <3>3, Zenon
  <2>3. CASE s.at # Elsewhere
    <3>1. s.at \in DOMAIN source
      BY <1>2, <2>3 DEF RunIInv
    <3>2. page = Pages!FetchPage(run, n + 1, source[s.at])
      BY <2>3 DEF Pages!Asked
    <3>3. Told(run.connector, source[s.at])
      BY <3>1 DEF IsSource
    <3> HIDE DEF page
    <3>4. Fails(page) \/ page.outcome = "page"
      <4>1. n + 1 \in Nat
        OBVIOUS
      <4>2. Follows(run, n + 1, source[s.at], page)
        BY <3>2, <3>3, <4>1, PagesAreAnswered
      <4> QED BY <4>2, Zenon DEF Follows, Continues
    <3>5. CASE page.outcome = "page"
      BY <2>1, <3>1, <3>2, <3>5, KeptPage
    <3>6. CASE Fails(page)
      <4>1. page.outcome \in PageFailures /\ page.outcome # "page"
        BY <3>6 DEF Fails, PageFailures
      <4> QED BY <2>1, <2>a, <4>1, Zenon
    <3> QED BY <3>4, <3>5, <3>6
  <2> QED BY <2>2, <2>3
<1> QED BY <1>1, <1>2

-----------------------------------------------------------------------------
\* The pages of a run are what its definition says, for any number of them.
LEMMA RunsAreDefined ==
  ASSUME NEW run, NEW source, NEW k \in Nat
  PROVE  \E after : after = [n \in 0 .. k |-> IF n = 0 THEN Pages!Begun
                                              ELSE Pages!NextPage(run, source, after[n - 1], n)]
<1> DEFINE Step(s, n) == Pages!NextPage(run, source, s, n)
           begun == Pages!Begun
           Chain(m, f) == f = [n \in 0 .. m |-> IF n = 0 THEN begun ELSE Step(f[n - 1], n)]
           lengths == {m \in Nat : \E f : Chain(m, f)}
<1> HIDE DEF Step, begun
<1>1. 0 \in lengths
  <2> DEFINE f == [n \in 0 .. 0 |-> begun]
  <2>1. f = [n \in 0 .. 0 |-> IF n = 0 THEN begun ELSE Step(f[n - 1], n)]
    OBVIOUS
  <2> HIDE DEF f
  <2>2. Chain(0, f)
    BY <2>1
  <2> HIDE DEF Chain
  <2> QED BY <2>2
<1>2. ASSUME NEW m \in lengths \cap Nat PROVE m + 1 \in lengths
  <2>1. PICK f : f = [n \in 0 .. m |-> IF n = 0 THEN begun ELSE Step(f[n - 1], n)]
    BY <1>2
  <2> DEFINE g == [n \in 0 .. m + 1 |-> IF n = m + 1 THEN Step(f[m], m + 1) ELSE f[n]]
  <2>2. ASSUME NEW n \in 0 .. m + 1 PROVE g[n] = IF n = 0 THEN begun ELSE Step(g[n - 1], n)
    <3>1. CASE n = 0
      <4>1. g[n] = f[n] /\ f[n] = begun
        BY <2>1, <3>1
      <4> QED BY <3>1, <4>1
    <3>2. CASE n = m + 1
      <4>1. g[n] = Step(f[m], m + 1) /\ m \in 0 .. m + 1 /\ m # m + 1
        BY <3>2
      <4>2. g[m] = f[m]
        BY <4>1
      <4> QED BY <3>2, <4>1, <4>2
    <3>3. CASE n \in 1 .. m
      <4>1. g[n] = f[n] /\ g[n - 1] = f[n - 1]
        BY <3>3
      <4>2. f[n] = Step(f[n - 1], n)
        BY <2>1, <3>3
      <4> QED BY <3>3, <4>1, <4>2
    <3> QED BY <3>1, <3>2, <3>3
  <2>3. g = [n \in 0 .. m + 1 |-> g[n]]
    OBVIOUS
  <2> HIDE DEF g
  <2>4. Chain(m + 1, g)
    BY <2>2, <2>3
  <2> HIDE DEF Chain
  <2> QED BY <2>4
<1> HIDE DEF lengths
<1>3. k \in lengths
  BY <1>1, <1>2, Induces
<1> QED BY <1>3 DEF lengths, Step, begun

\* and so it holds after the last one.
LEMMA RunKeeps ==
  ASSUME NEW run \in AnyRun, NEW source, IsSource(run.connector, source)
  PROVE  RunIInv(run, source, Pages!Collected(run, source), MaxPages)
<1> DEFINE after == CHOOSE f : f = [n \in 0 .. MaxPages |-> IF n = 0 THEN Pages!Begun
                                                           ELSE Pages!NextPage(run, source, f[n - 1], n)]
<1>0. MaxPages \in Nat
  BY PagesAssumption DEF PagesAssumption, Pages!PagesAssumption
<1>1. after = [n \in 0 .. MaxPages |-> IF n = 0 THEN Pages!Begun
                                       ELSE Pages!NextPage(run, source, after[n - 1], n)]
  BY <1>0, RunsAreDefined
<1>2. Pages!Collected(run, source) = after[MaxPages]
  BY DEF Pages!Collected
<1> HIDE DEF after
<1> DEFINE kept == {n \in Nat : n <= MaxPages => RunIInv(run, source, after[n], n)}
<1>3. 0 \in kept
  <2>1. after[0] = Pages!Begun
    BY <1>0, <1>1
  <2>2. RunIInv(run, source, Pages!Begun, 0)
    <3> DEFINE s == Pages!Begun
               ids == s.ids
    <3>1. /\ s.at = 1 /\ s.ids = {} /\ s.gap = FALSE /\ s.hint = "" /\ s.failure = "" /\ s.asked = {}
          /\ s = Row(s.at, s.ids, s.gap, s.hint, s.failure, s.asked)
      BY DEF Pages!Begun, Row
    <3>2. 1 \in DOMAIN source
      BY DEF IsSource
    <3> HIDE DEF s
    <3>3. ~(0 > 0)
      OBVIOUS
    <3>4. RunIInv(run, source, s, 0)
      BY <3>1, <3>2, <3>3 DEF RunIInv
    <3> QED BY <3>4 DEF s
  <2> QED BY <2>1, <2>2
<1>4. ASSUME NEW n \in kept \cap Nat PROVE n + 1 \in kept
  <2> SUFFICES ASSUME n + 1 <= MaxPages PROVE RunIInv(run, source, after[n + 1], n + 1)
    OBVIOUS
  <2>1. RunIInv(run, source, after[n], n)
    BY <1>0
  <2>2. after[n + 1] = Pages!NextPage(run, source, after[n], n + 1)
    <3>1. n + 1 \in 0 .. MaxPages /\ n + 1 # 0 /\ (n + 1) - 1 = n
      BY <1>0
    <3> QED BY <1>1, <3>1
  <2> QED BY <2>1, <2>2, RunStep
<1> HIDE DEF kept
<1>5. MaxPages \in kept
  BY <1>0, <1>3, <1>4, Induces
<1> QED BY <1>0, <1>2, <1>5 DEF kept

\* A run that completes was answered, and says that there is nothing only where its source can say so.
LEMMA AbsenceStaysAnswered ==
  ASSUME NEW run \in AnyRun, NEW source, IsSource(run.connector, source)
  PROVE  Pages!AbsenceIsAnswered(run, source)
<1> DEFINE done == Pages!Collected(run, source)
           verdict == Pages!Verdict(run, source)
<1>1. RunIInv(run, source, done, MaxPages)
  BY RunKeeps
<1>2. \A at \in done.asked : Pages!Answered(run.connector, source[at])
  BY <1>1 DEF RunIInv
<1>3. ASSUME verdict.outcome = "no_findings" PROVE run.connector # "preview"
  <2>1. done.failure \in PageFailures \cup {""} /\ done.hint \in {"", "no_findings"}
    BY <1>1 DEF RunIInv
  <2>2. done.failure = "" /\ done.at = 0 /\ (done.hint # "" \/ done.ids = {})
    <3> HIDE DEF done
    <3> QED BY <1>3, <2>1 DEF Pages!Verdict, Pages!Broken, done, PageFailures
  <2>3. MaxPages > 0
    <3>1. MaxPages = 0 => done.at = 1
      BY <1>1 DEF RunIInv
    <3>2. MaxPages # 0
      <4>1. done.at = 0
        BY <2>2
      <4> HIDE DEF done
      <4> QED BY <3>1, <4>1
    <3>3. MaxPages \in Nat
      BY PagesAssumption DEF PagesAssumption, Pages!PagesAssumption
    <3> QED BY <3>2, <3>3
  <2>4. 1 \in done.asked
    BY <1>1, <2>2, <2>3, Zenon DEF RunIInv
  <2>5. run.connector = "preview" => done.hint = "" /\ Subject \in done.ids
    BY <1>1, <2>4, Zenon DEF RunIInv
  <2> QED BY <2>2, <2>5
<1> QED BY <1>2, <1>3 DEF Pages!AbsenceIsAnswered

\* The pages that are linked to are what their definition says.
Within(run, source, k, f) == f = [n \in 0 .. k |-> IF n = 0 THEN {1} ELSE Pages!Linked(run, source, f[n - 1])]

\* For any number of links.
LEMMA LinksAreDefined == ASSUME NEW run, NEW source, NEW k \in Nat PROVE \E f : Within(run, source, k, f)
<1> DEFINE Step(s) == Pages!Linked(run, source, s)
           first == {1}
           Chain(m, f) == f = [n \in 0 .. m |-> IF n = 0 THEN first ELSE Step(f[n - 1])]
           lengths == {m \in Nat : \E f : Chain(m, f)}
<1> HIDE DEF Step, first
<1>1. 0 \in lengths
  <2> DEFINE f == [n \in 0 .. 0 |-> first]
  <2>1. f = [n \in 0 .. 0 |-> IF n = 0 THEN first ELSE Step(f[n - 1])]
    OBVIOUS
  <2> HIDE DEF f
  <2>2. Chain(0, f)
    BY <2>1
  <2> HIDE DEF Chain
  <2> QED BY <2>2
<1>2. ASSUME NEW m \in lengths \cap Nat PROVE m + 1 \in lengths
  <2>1. PICK f : f = [n \in 0 .. m |-> IF n = 0 THEN first ELSE Step(f[n - 1])]
    BY <1>2
  <2> DEFINE g == [n \in 0 .. m + 1 |-> IF n = m + 1 THEN Step(f[m]) ELSE f[n]]
  <2>2. ASSUME NEW n \in 0 .. m + 1 PROVE g[n] = IF n = 0 THEN first ELSE Step(g[n - 1])
    <3>1. CASE n = 0
      <4>1. g[n] = f[n] /\ f[n] = first
        BY <2>1, <3>1
      <4> QED BY <3>1, <4>1
    <3>2. CASE n = m + 1
      <4>1. g[n] = Step(f[m]) /\ m \in 0 .. m + 1 /\ m # m + 1
        BY <3>2
      <4>2. g[m] = f[m]
        BY <4>1
      <4> QED BY <3>2, <4>1, <4>2
    <3>3. CASE n \in 1 .. m
      <4>1. g[n] = f[n] /\ g[n - 1] = f[n - 1]
        BY <3>3
      <4>2. f[n] = Step(f[n - 1])
        BY <2>1, <3>3
      <4> QED BY <3>3, <4>1, <4>2
    <3> QED BY <3>1, <3>2, <3>3
  <2>3. g = [n \in 0 .. m + 1 |-> g[n]]
    OBVIOUS
  <2> HIDE DEF g
  <2>4. Chain(m + 1, g)
    BY <2>2, <2>3
  <2> HIDE DEF Chain
  <2> QED BY <2>4
<1> HIDE DEF lengths
<1>3. k \in lengths
  BY <1>1, <1>2, Induces
<1> QED BY <1>3 DEF lengths, Step, first, Within

\* A run that completes with findings holds what its source offered on every page that is linked to: it
\* asked for all of them.
LEMMA CompletedStaysEverything ==
  ASSUME NEW run \in AnyRun, NEW source, IsSource(run.connector, source)
  PROVE  Pages!CompletedIsEverything(run, source)
<1> DEFINE done == Pages!Collected(run, source)
           verdict == Pages!Verdict(run, source)
           last == Len(source)
           within == CHOOSE f : Within(run, source, last, f)
<1>1. SUFFICES ASSUME verdict = [status |-> "completed", outcome |-> "findings"], Expected(run, source)
               PROVE  Pages!Offered(run, source) \subseteq done.ids
  BY DEF Pages!CompletedIsEverything, Expected, Whole
<1>2. RunIInv(run, source, done, MaxPages)
  BY RunKeeps
<1>3. done.failure \in PageFailures \cup {""} /\ done.hint \in {"", "no_findings"}
  BY <1>2 DEF RunIInv
<1>4. done.failure = "" /\ done.at = 0 /\ ~done.gap /\ done.hint = ""
  <2>1. verdict.status = "completed" /\ verdict.outcome = "findings"
    BY <1>1
  <2> HIDE DEF done
  <2> QED BY <1>3, <2>1 DEF Pages!Verdict, Pages!Broken, done, PageFailures
<1>5. MaxPages > 0
  <2>1. MaxPages = 0 => done.at = 1
    BY <1>2 DEF RunIInv
  <2>2. MaxPages # 0
    <3>1. done.at = 0
      BY <1>4
    <3> HIDE DEF done
    <3> QED BY <2>1, <3>1
  <2>3. MaxPages \in Nat
    BY PagesAssumption DEF PagesAssumption, Pages!PagesAssumption
  <2> QED BY <2>2, <2>3
<1>6. 1 \in done.asked
  BY <1>2, <1>4, <1>5, Zenon DEF RunIInv
<1>7. \A at \in done.asked : Covers(run, source, done, at)
  BY <1>1, <1>2, <1>4, Zenon DEF RunIInv
<1>8. \A at \in done.asked : Pages!Ends(run, source, at) \/ source[at].next \in done.asked
  <2>1. ASSUME NEW at \in done.asked, ~Pages!Ends(run, source, at) PROVE source[at].next \in done.asked
    <3>1. source[at].next \in done.asked \cup {done.at}
      BY <1>7, <2>1 DEF Covers
    <3>2. source[at].next \in DOMAIN source
      BY <2>1 DEF Pages!Ends
    <3>3. 0 \notin DOMAIN source
      BY DEF IsSource
    <3> QED BY <1>4, <3>1, <3>2, <3>3
  <2> QED BY <2>1
<1> HIDE DEF done, verdict
<1>9. ASSUME NEW reached, reached \subseteq done.asked PROVE Pages!Linked(run, source, reached) \subseteq done.asked
  BY <1>8, <1>9 DEF Pages!Linked
<1>10. last \in Nat
  BY DEF IsSource
<1>11. within = [n \in 0 .. last |-> IF n = 0 THEN {1} ELSE Pages!Linked(run, source, within[n - 1])]
  <2>1. Within(run, source, last, within)
    BY <1>10, LinksAreDefined
  <2> HIDE DEF within, last
  <2> QED BY <2>1 DEF Within
<1>12. Pages!Offered(run, source) = UNION {Pages!Items(run, source, at) : at \in within[last]}
  BY DEF Pages!Offered, Within
<1> HIDE DEF within, last
<1> DEFINE asks == {n \in Nat : n <= last => within[n] \subseteq done.asked}
<1>13. 0 \in asks
  <2>1. within[0] = {1}
    BY <1>10, <1>11
  <2> QED BY <1>6, <2>1
<1>14. ASSUME NEW n \in asks \cap Nat PROVE n + 1 \in asks
  <2> SUFFICES ASSUME n + 1 <= last PROVE within[n + 1] \subseteq done.asked
    OBVIOUS
  <2>1. within[n] \subseteq done.asked
    BY <1>10
  <2>2. within[n + 1] = Pages!Linked(run, source, within[n])
    <3>1. n + 1 \in 0 .. last /\ n + 1 # 0 /\ (n + 1) - 1 = n
      BY <1>10
    <3> QED BY <1>11, <3>1
  <2> QED BY <1>9, <2>1, <2>2
<1> HIDE DEF asks
<1>15. last \in asks
  BY <1>10, <1>13, <1>14, Induces
<1>16. within[last] \subseteq done.asked
  BY <1>10, <1>15 DEF asks
<1>17. \A at \in done.asked : Pages!Items(run, source, at) \subseteq done.ids
  BY <1>7 DEF Covers
<1> QED BY <1>12, <1>16, <1>17 DEF done

-----------------------------------------------------------------------------
(* The way to a source.                                                    *)

\* Tuples of members of a set are sequences over it.
LEMMA Tuples == \A S : <<>> \in Seq(S) /\ \A x \in S : <<x>> \in Seq(S) /\ \A y \in S : <<x, y>> \in Seq(S)
<1>1. ASSUME NEW S, NEW x \in S, NEW y \in S PROVE <<x>> \in Seq(S) /\ <<x, y>> \in Seq(S)
  OBVIOUS
<1>2. ASSUME NEW S PROVE <<>> \in Seq(S)
  OBVIOUS
<1> QED BY <1>1, <1>2, Zenon

FetchIsAsked == asked.about = "fetch" => asked.hops \in Chains /\ asked.same \in BOOLEAN

EgressIInv == TunnelsIInv /\ FetchIsAsked

\* Whatever is asked of fetching is a chain.
LEMMA AskedForChains == ASSUME AskFetching PROVE FetchIsAsked'
<1>1. PICK same \in BOOLEAN, last \in Hops, chain \in {<<>>, <<Hop>>, <<Hop, Hop>>, <<Hop, [Hop EXCEPT !.origin = 2]>>} :
        asked' = [about |-> "fetch", hops |-> Append(chain, last), same |-> same]
  BY Zenon DEF AskFetching
<1>2. \A S : <<>> \in Seq(S) /\ \A x \in S : <<x>> \in Seq(S) /\ \A y \in S : <<x, y>> \in Seq(S)
  BY Tuples, Zenon
<1>3. /\ \A c \in {"public", "private", "holds reserved"} : Address(c, "answer") \in AnyAddress
      /\ Addresses \subseteq AnyAddress
  <2>1. \A c \in Classes, m \in {"answer", "refusal", "silence"} : Address(c, m) \in AnyAddress
    BY DEF Address, AnyAddress
  <2>2. ASSUME NEW x \in Addresses PROVE x \in AnyAddress
    BY DEF Addresses, AnyAddress, Classes
  <2> QED BY <2>1, <2>2 DEF Classes
<1>4. Checked \subseteq Seq(AnyAddress)
  BY <1>2, <1>3, Zenon DEF Checked
<1>5. Resolved \subseteq Seq(AnyAddress)
  <2>1. ASSUME NEW r \in Resolved PROVE r \in Seq(AnyAddress)
    <3>1. CASE r = <<>>
      BY <1>2, <3>1
    <3>2. CASE \E x \in Addresses : r = <<x>>
      BY <1>2, <1>3, <3>2, Zenon
    <3>3. CASE \E x \in Addresses, c \in {"public", "private"} : r = <<x, Address(c, "answer")>>
      <4>1. PICK x \in AnyAddress, y \in AnyAddress : r = <<x, y>>
        BY <1>3, <3>3
      <4> QED BY <1>2, <4>1, Zenon
    <3>4. \/ r = <<>> \/ \E x \in Addresses : r = <<x>>
          \/ \E x \in Addresses, c \in {"public", "private"} : r = <<x, Address(c, "answer")>>
      BY DEF Resolved
    <3> QED BY <3>1, <3>2, <3>3, <3>4
  <2> QED BY <2>1
<1>6. Hops \subseteq AnyHop /\ Hop \in AnyHop /\ [Hop EXCEPT !.origin = 2] \in AnyHop
  <2>1. <<Address("public", "answer")>> \in Seq(AnyAddress)
    BY <1>2, <1>3, Zenon
  <2>2. Hop \in AnyHop /\ [Hop EXCEPT !.origin = 2] \in AnyHop
    BY <2>1 DEF Hop, AnyHop
  <2>3. ASSUME NEW h \in Hops PROVE h \in AnyHop
    BY <1>4, <1>5 DEF Hops, AnyHop
  <2> QED BY <2>2, <2>3
<1>7. chain \in Seq(AnyHop) /\ last \in AnyHop
  BY <1>2, <1>6, Zenon
<1>8. Append(chain, last) \in Chains
  BY <1>7 DEF Chains
<1> QED BY <1>1, <1>8 DEF FetchIsAsked

\* No more tunnels than slots, each bounded and ended by its provider (egress/gateway.py:3-23, 221-223);
\* no connection but to what the network policy permits, on every hop and whatever a name resolves to by
\* then; and a response is what the last hop sent (connectors/netguard.py, connectors/http.py).
THEOREM EgressIsAlwaysBounded == Spec => []EgressIsBounded
<1>1. Init => EgressIInv
  BY TunnelsAssumption, TunnelsInit DEF Init, EgressIInv, FetchIsAsked
<1>2. ASSUME EgressIInv, [Next]_vars PROVE EgressIInv'
  <2>1. CASE Relay
    <3>1. TunnelsIInv'
      BY <1>2, <2>1, TunnelsAssumption, TunnelsStep DEF Relay, EgressIInv
    <3> QED BY <1>2, <2>1, <3>1 DEF Relay, EgressIInv, FetchIsAsked
  <2>2. CASE Ask
    <3>1. TunnelsIInv'
      BY <1>2, <2>2, TunnelsAssumption, TunnelsStep DEF Ask, EgressIInv, gatewayVars, Gateway!vars
    <3>2. CASE AskFetching
      BY <3>1, <3>2, AskedForChains DEF EgressIInv
    <3>3. CASE AskPages \/ AskUsername \/ AskDomain \/ AskPreview
      <4>1. asked'.about # "fetch"
        <5>1. CASE AskPages
          BY <5>1 DEF AskPages
        <5>2. CASE AskUsername
          <6>1. \E sites, stop : asked' = [about |-> "username", sites |-> sites, stop |-> stop]
            BY <5>2, Zenon DEF AskUsername
          <6> QED BY <6>1
        <5>3. CASE AskDomain
          <6>1. \E providers, stop, kept, job :
                  asked' = [about |-> "domain", providers |-> providers, stop |-> stop, kept |-> kept, job |-> job]
            BY <5>3, Zenon DEF AskDomain
          <6> QED BY <6>1
        <5>4. CASE AskPreview
          BY <5>4 DEF AskPreview
        <5> QED BY <3>3, <5>1, <5>2, <5>3, <5>4
      <4> QED BY <3>1, <4>1 DEF EgressIInv, FetchIsAsked
    <3> QED BY <2>2, <3>2, <3>3 DEF Ask
  <2>3. CASE UNCHANGED vars
    <3>1. TunnelsIInv'
      BY <1>2, <2>3, TunnelsAssumption, TunnelsStep DEF vars, EgressIInv, gatewayVars, Gateway!vars
    <3> QED BY <1>2, <2>3, <3>1 DEF vars, EgressIInv, FetchIsAsked
  <2> QED BY <1>2, <2>1, <2>2, <2>3 DEF Next
<1>3. EgressIInv => EgressIsBounded
  BY TunnelsAssumption, TunnelsBounded, TunnelsEnded, FetchesStayPermitted, ResponsesAreTrue
     DEF EgressIInv, FetchIsAsked, EgressIsBounded
<1> QED BY <1>1, <1>2, <1>3, PTL DEF Spec

-----------------------------------------------------------------------------
(* What is asked of the sources.                                           *)

\* A number of jobs is a number.
LEMMA Running == \A running \in 0 .. 1 : running \in Nat
OBVIOUS

\* What an answer is made of in the questions that are put.
LEMMA Pieces ==
  /\ \A status \in Statuses : status \in Nat /\ (status = 200 \/ status >= 400)
  /\ \A next \in Cursors : next \in Nat \cup {Elsewhere}
  /\ \A ids \in Lists \cup {<<5>>, <<5, 1>>} : ids \in Seq(Nat \cup {NoId})
  /\ \A body \in Bodies : body \in {"whole", "truncated", "garbled"}
<1>1. \A status \in Statuses : status \in Nat /\ (status = 200 \/ status >= 400)
  BY DEF Statuses
<1>2. \A next \in Cursors : next \in Nat \cup {Elsewhere}
  BY DEF Cursors
<1>3. \A body \in Bodies : body \in {"whole", "truncated", "garbled"}
  BY DEF Bodies
<1>4. \A ids \in Lists \cup {<<5>>, <<5, 1>>} : ids \in Seq(Nat \cup {NoId})
  <2>1. <<>> \in Seq(Nat \cup {NoId})
    OBVIOUS
  <2>2. <<1>> \in Seq(Nat \cup {NoId}) /\ <<5>> \in Seq(Nat \cup {NoId})
    OBVIOUS
  <2>3. <<2, NoId>> \in Seq(Nat \cup {NoId}) /\ <<5, 1>> \in Seq(Nat \cup {NoId})
    OBVIOUS
  <2>4. <<3, 4, 1>> \in Seq(Nat \cup {NoId})
    OBVIOUS
  <2> QED BY <2>1, <2>2, <2>3, <2>4, Zenon DEF Lists
<1> QED BY <1>1, <1>2, <1>3, <1>4, Zenon

\* The reasons that each source gives are reasons, and are its own.
LEMMA ReasonsAreKnown ==
  ASSUME NEW connector \in Connectors, NEW reason \in Reasons[connector] \cup {""}
  PROVE  /\ reason \in Why
         /\ connector \in {"web", "feed"} => reason = ""
         /\ connector = "github" => reason \in {"", "rate"}
         /\ connector = "preview" => reason \in {"", "no_preview"}
         /\ connector = "profile" => reason \in {"", "login_wall", "private"}
<1>1. CASE connector \in {"web", "feed"}
  <2>1. Reasons["web"] = {} /\ Reasons["feed"] = {}
    BY DEF Reasons
  <2>2. Reasons[connector] = {}
    BY <1>1, <2>1, Zenon
  <2> QED BY <1>1, <2>2 DEF Why
<1>2. CASE connector = "github"
  <2>1. Reasons[connector] = {"rate"}
    BY <1>2 DEF Reasons
  <2> QED BY <1>2, <2>1 DEF Why
<1>3. CASE connector = "preview"
  <2>1. Reasons[connector] = {"no_preview"}
    BY <1>3 DEF Reasons
  <2> QED BY <1>3, <2>1 DEF Why
<1>4. CASE connector = "profile"
  <2>1. Reasons[connector] = {"login_wall", "private"}
    BY <1>4 DEF Reasons
  <2> QED BY <1>4, <2>1 DEF Why
<1>5. CASE connector = "youtube"
  <2>1. Reasons[connector] = {"not_found", "comments_disabled", "quota", "key", "forbidden"}
    BY <1>5 DEF Reasons
  <2> QED BY <1>5, <2>1 DEF Why
<1>6. CASE connector = "instagram"
  <2>1. Reasons[connector] = {"not_found", "quota", "key"}
    BY <1>6 DEF Reasons
  <2> QED BY <1>6, <2>1 DEF Why
<1>7. CASE connector = "bot"
  <2>1. Reasons[connector] = {"not_found", "no_count", "key"}
    BY <1>7 DEF Reasons
  <2> QED BY <1>7, <2>1 DEF Why
<1> QED BY <1>1, <1>2, <1>3, <1>4, <1>5, <1>6, <1>7, Zenon DEF Connectors

\* Every answer that a source is given is one that it can give.
LEMMA PlainAnswers ==
  ASSUME NEW connector, NEW answer, answer.status \in Statuses, answer.reason = "", answer.next \in Cursors,
         answer \in AnyAnswer
  PROVE  Told(connector, answer)
<1>1. answer.status = 200 \/ answer.status >= 400
  BY Pieces, Zenon
<1> QED BY <1>1 DEF Told

\* Answers put together from such pieces are answers.
LEMMA Formed ==
  ASSUME NEW status \in Statuses, NEW body \in Bodies, NEW reason \in Why, NEW ids \in Seq(Nat \cup {NoId}),
         NEW next \in Cursors
  PROVE  [status |-> status, body |-> body, reason |-> reason, ids |-> ids, next |-> next] \in AnyAnswer
<1>1. status \in Nat
  BY Pieces, Zenon
<1>2. body \in {"whole", "truncated", "garbled"}
  BY Pieces, Zenon
<1>3. next \in Nat \cup {Elsewhere}
  BY Pieces, Zenon
<1> DEFINE texts == {"whole", "truncated", "garbled"}
           sequences == Seq(Nat \cup {NoId})
           cursors == Nat \cup {Elsewhere}
<1>4. AnyAnswer = [status : Nat, body : texts, reason : Why, ids : sequences, next : cursors]
  BY Zenon DEF AnyAnswer
<1>5. body \in texts /\ ids \in sequences /\ next \in cursors
  BY <1>2, <1>3, Zenon
<1> HIDE DEF texts, sequences, cursors
<1>6. [status |-> status, body |-> body, reason |-> reason, ids |-> ids, next |-> next]
        \in [status : Nat, body : texts, reason : Why, ids : sequences, next : cursors]
  BY <1>1, <1>5
<1> QED BY <1>4, <1>6, Zenon

\* The pieces that every plain answer has are among those.
LEMMA PlainPieces ==
  200 \in Statuses /\ 500 \in Statuses /\ <<1>> \in Lists /\ "" \in Why /\ 0 \in Cursors /\ 2 \in Cursors /\ "whole" \in Bodies
<1>1. 200 \in Statuses /\ 500 \in Statuses
  BY DEF Statuses
<1>2. <<1>> \in Lists
  BY Zenon DEF Lists
<1>3. "" \in Why
  BY Zenon DEF Why
<1>4. 0 \in Cursors /\ 2 \in Cursors
  BY Zenon DEF Cursors
<1>5. "whole" \in Bodies
  BY Zenon DEF Bodies
<1> QED BY <1>1, <1>2, <1>3, <1>4, <1>5, Zenon

\* The answers for a third page are these.
LEMMA ThirdPieces ==
  ASSUME NEW answer \in Thirds
  PROVE  \E status \in Statuses, ids \in {<<5>>, <<5, 1>>}, next \in Cursors :
           answer = [status |-> status, body |-> "whole", reason |-> "", ids |-> ids, next |-> next]
<1> DEFINE Made(status, ids, next) ==
             answer = [status |-> status, body |-> "whole", reason |-> "", ids |-> ids, next |-> next]
           twos == {<<5>>, <<5, 1>>}
<1>1. \/ answer = Third(200, <<5>>, 0)
      \/ answer = Third(200, <<5, 1>>, 2)
      \/ answer = Third(500, <<5>>, 2)
  BY Zenon DEF Thirds
<1>2. answer = Third(200, <<5>>, 0) => Made(200, <<5>>, 0)
  BY Zenon DEF Third
<1>3. answer = Third(200, <<5, 1>>, 2) => Made(200, <<5, 1>>, 2)
  BY Zenon DEF Third
<1>4. answer = Third(500, <<5>>, 2) => Made(500, <<5>>, 2)
  BY Zenon DEF Third
<1>5. <<5>> \in twos /\ <<5, 1>> \in twos
  BY Zenon
<1> SUFFICES \E status \in Statuses, ids \in twos, next \in Cursors : Made(status, ids, next)
  BY Zenon
<1> HIDE DEF Made, twos
<1>6. CASE Made(200, <<5>>, 0)
  BY <1>5, <1>6, PlainPieces, Zenon
<1>7. CASE Made(200, <<5, 1>>, 2)
  BY <1>5, <1>7, PlainPieces, Zenon
<1>8. CASE Made(500, <<5>>, 2)
  BY <1>5, <1>8, PlainPieces, Zenon
<1> QED BY <1>1, <1>2, <1>3, <1>4, <1>6, <1>7, <1>8, Zenon

\* Whatever is asked of the pages, the source can say.
LEMMA AnswersAreTold ==
  ASSUME NEW connector \in Connectors, NEW answer \in Answers(connector) \cup Thirds
  PROVE  Told(connector, answer) /\ answer.next \in Cursors
<1> DEFINE reasons == Reasons[connector] \cup {""}
           firsts == [status : {200}, body : {"whole"}, reason : {""}, ids : Lists, next : Cursors]
           others == [status : Statuses, body : Bodies, reason : reasons, ids : {<<1>>}, next : {0, 2}]
           lists == Lists \cup {<<5>>, <<5, 1>>}
           Rebuilt == [status |-> answer.status, body |-> answer.body, reason |-> answer.reason, ids |-> answer.ids,
                       next |-> answer.next]
<1>0. \A ids \in lists : ids \in Seq(Nat \cup {NoId})
  BY Pieces, Zenon
<1>1. ASSUME answer.status \in Statuses, answer.body \in Bodies, answer.reason \in Why, answer.ids \in lists,
             answer.next \in Cursors, answer = Rebuilt
      PROVE  answer \in AnyAnswer
  <2> HIDE DEF lists
  <2>1. answer.ids \in Seq(Nat \cup {NoId})
    <3>1. answer.ids \in lists
      BY <1>1, Zenon
    <3> QED BY <1>0, <3>1, Zenon
  <2>2. Rebuilt \in AnyAnswer
    BY <1>1, <2>1, Formed, Zenon
  <2> QED BY <1>1, <2>2, Zenon
<1>2. CASE answer \in firsts
  <2>1. answer.status = 200 /\ answer.body = "whole" /\ answer.reason = "" /\ answer.ids \in Lists /\ answer.next \in Cursors
    BY <1>2
  <2>2. answer = Rebuilt
    BY <1>2
  <2> HIDE DEF Rebuilt, firsts, others, reasons
  <2>3. answer.body \in Bodies /\ answer.ids \in lists /\ answer.status \in Statuses /\ answer.reason \in Why
    BY <2>1, PlainPieces, Zenon
  <2>4. answer \in AnyAnswer
    BY <1>1, <2>1, <2>2, <2>3, Zenon
  <2> HIDE DEF lists
  <2>a. answer.reason = "" /\ answer.next \in Cursors
    BY <2>1, Zenon
  <2>b. answer.status \in Statuses
    BY <2>3, Zenon
  <2>5. Told(connector, answer)
    BY <2>a, <2>b, <2>4, PlainAnswers, Zenon
  <2> QED BY <2>1, <2>5, Zenon
<1>3. CASE answer \in others /\ Says(connector, answer.reason, answer.status)
  <2> HIDE DEF reasons
  <2>1. /\ answer.status \in Statuses /\ answer.body \in Bodies /\ answer.reason \in reasons
        /\ answer.ids = <<1>> /\ answer.next \in {0, 2}
    BY <1>3
  <2>2. answer = Rebuilt
    BY <1>3
  <2> HIDE DEF Rebuilt, others
  <2>3. answer.ids \in lists /\ answer.next \in Cursors
    BY <2>1, PlainPieces, Zenon
  <2>4. /\ answer.reason \in Why
        /\ connector \in {"web", "feed"} => answer.reason = ""
        /\ connector = "github" => answer.reason \in {"", "rate"}
        /\ connector = "preview" => answer.reason \in {"", "no_preview"}
        /\ connector = "profile" => answer.reason \in {"", "login_wall", "private"}
    BY <2>1, ReasonsAreKnown, Zenon DEF reasons
  <2>5. connector = "github" => answer.reason = "" \/ (answer.reason = "rate" /\ answer.status = 403)
    BY <1>3, <2>4, Zenon DEF Says
  <2>6. answer \in AnyAnswer
    BY <1>1, <2>1, <2>2, <2>3, <2>4, Zenon
  <2>7. answer.status = 200 \/ answer.status >= 400
    BY <2>1, Pieces, Zenon
  <2> QED BY <2>3, <2>4, <2>5, <2>6, <2>7, Zenon DEF Told
<1>4. CASE answer \in Thirds
  <2>1. PICK status \in Statuses, ids \in {<<5>>, <<5, 1>>}, next \in Cursors :
          answer = [status |-> status, body |-> "whole", reason |-> "", ids |-> ids, next |-> next]
    BY <1>4, ThirdPieces, Zenon
  <2>2. answer.status = status /\ answer.reason = "" /\ answer.next = next
    BY <2>1
  <2>3. "whole" \in Bodies /\ "" \in Why /\ ids \in Seq(Nat \cup {NoId})
    BY PlainPieces, Pieces, Zenon
  <2>4. answer \in AnyAnswer
    BY <2>1, <2>3, Formed, Zenon
  <2>5. answer.status \in Statuses /\ answer.next \in Cursors
    BY <2>2, Zenon
  <2> HIDE DEF lists, reasons, firsts, others, Rebuilt
  <2>6. Told(connector, answer)
    BY <2>2, <2>4, <2>5, PlainAnswers, Zenon
  <2> QED BY <2>5, <2>6, Zenon
<1>5. answer \in firsts \/ (answer \in others /\ Says(connector, answer.reason, answer.status)) \/ answer \in Thirds
  BY Zenon DEF Answers
<1> HIDE DEF lists, reasons, firsts, others, Rebuilt
<1> QED BY <1>2, <1>3, <1>4, <1>5, Zenon

PagesAreAsked == asked.about = "pages" => asked.run \in AnyRun /\ IsSource(asked.run.connector, asked.source)
SitesAreAsked == asked.about = "username" => asked.sites \in Seq(AnySite)
ProvidersAreAsked ==
  asked.about = "domain" => asked.providers \in Seq(AnyProvider) /\ asked.stop \in Stops /\ asked.job \in AnyJob

AnswersIInv == PagesAreAsked /\ SitesAreAsked /\ ProvidersAreAsked

\* What is asked of the pages is a run and its source,
LEMMA AskedForPages == ASSUME AskPages PROVE AnswersIInv'
<1>a. PICK connector \in DOMAIN Reasons, want \in BOOLEAN :
        \E first, second \in Answers(connector), third \in Thirds :
          asked' = [about |-> "pages", run |-> [connector |-> connector, want |-> want], source |-> <<first, second, third>>]
  BY Zenon DEF AskPages
<1>1. PICK first \in Answers(connector), second \in Answers(connector), third \in Thirds :
        asked' = [about |-> "pages", run |-> [connector |-> connector, want |-> want], source |-> <<first, second, third>>]
  BY <1>a, Zenon
<1>2. DOMAIN Reasons = Connectors
  BY DEF Reasons, Connectors
<1>3. connector \in Connectors
  BY <1>2
<1> DEFINE source == <<first, second, third>>
           run == [connector |-> connector, want |-> want]
<1>4. \A answer \in {first, second, third} : Told(connector, answer) /\ answer.next \in Cursors
  BY <1>3, AnswersAreTold, Zenon
<1>5. run \in AnyRun /\ run.connector = connector
  BY <1>3 DEF AnyRun
<1>6. first \in AnyAnswer /\ second \in AnyAnswer /\ third \in AnyAnswer
  BY <1>4, Zenon DEF Told
<1>7. source \in Seq(AnyAnswer) /\ source # <<>> /\ DOMAIN source = 1 .. 3
  BY <1>6
<1>8. \A at \in DOMAIN source : source[at] \in {first, second, third}
  BY <1>7
<1>9. Cursors \subseteq DOMAIN source \cup {0, Elsewhere}
  BY <1>7 DEF Cursors
<1> HIDE DEF source
<1>10. IsSource(connector, source)
  BY <1>4, <1>7, <1>8, <1>9, Zenon DEF IsSource
<1> HIDE DEF run
<1>11. asked' = [about |-> "pages", run |-> run, source |-> source]
  BY <1>1 DEF run, source
<1>12. asked'.about = "pages" /\ asked'.run = run /\ asked'.source = source
  BY <1>11
<1>13. IsSource(run.connector, source)
  BY <1>5, <1>10
<1> QED BY <1>5, <1>12, <1>13 DEF AnswersIInv, PagesAreAsked, SitesAreAsked, ProvidersAreAsked

\* The sites of the questions are sites.
LEMMA SitesAreSites == Sites \subseteq AnySite
<1> DEFINE statuses == {0, 200, 302, 404, 403, 429, 500}
<1>1. statuses \subseteq Nat
  OBVIOUS
<1>2. ASSUME NEW site \in Sites
      PROVE  site \in [missing : {"message", "status_code", "response_url"}, reported : BOOLEAN, blocked : BOOLEAN,
                        raw : {"Claimed", "Available", "Illegal", "WAF"}, http : statuses]
  BY <1>2, Zenon DEF Sites
<1> HIDE DEF statuses
<1>3. ASSUME NEW site,
             site \in [missing : {"message", "status_code", "response_url"}, reported : BOOLEAN, blocked : BOOLEAN,
                       raw : {"Claimed", "Available", "Illegal", "WAF"}, http : statuses]
      PROVE  site \in AnySite
  BY <1>1, <1>3 DEF AnySite
<1> QED BY <1>2, <1>3, Zenon

\* what is asked of username checks is a list of sites,
LEMMA AskedForSites == ASSUME AskUsername PROVE AnswersIInv'
<1>1. PICK first \in Sites, second \in Sites, stop \in {"", "crash", "timeout", "canceled"} :
        \E sites \in {<<first>>, <<first, second>>} : asked' = [about |-> "username", sites |-> sites, stop |-> stop]
  BY Zenon DEF AskUsername
<1>a. PICK sites \in {<<first>>, <<first, second>>} : asked' = [about |-> "username", sites |-> sites, stop |-> stop]
  BY <1>1, Zenon
<1>2. Sites \subseteq AnySite
  BY SitesAreSites
<1>3. first \in AnySite /\ second \in AnySite
  BY <1>2
<1>4. sites \in Seq(AnySite)
  BY <1>3, Tuples, Zenon
<1>5. asked'.about = "username" /\ asked'.sites = sites
  BY <1>a, Zenon
<1> QED BY <1>4, <1>5, Zenon DEF AnswersIInv, PagesAreAsked, SitesAreAsked, ProvidersAreAsked

\* and what is asked of a discovery is a list of providers, a way to stop and a job.
LEMMA AskedForProviders == ASSUME AskDomain PROVE AnswersIInv'
<1>1. PICK first \in Providers, second \in Providers, stop \in {"", "crash", "timeout", "canceled", "lost", "output_limit"} :
        \E kept \in IF stop = "" THEN {{0, 1}} ELSE SUBSET {0, 1} :
          \E valid, sandboxed \in BOOLEAN, running \in 0 .. 1 :
            asked' = [about |-> "domain", providers |-> <<first, second>>, stop |-> stop, kept |-> kept,
                      job |-> [valid |-> valid, sandboxed |-> sandboxed, installed |-> TRUE, running |-> running]]
  BY Zenon DEF AskDomain
<1>a. PICK kept \in (IF stop = "" THEN {{0, 1}} ELSE SUBSET {0, 1}) :
        \E valid, sandboxed \in BOOLEAN, running \in 0 .. 1 :
          asked' = [about |-> "domain", providers |-> <<first, second>>, stop |-> stop, kept |-> kept,
                    job |-> [valid |-> valid, sandboxed |-> sandboxed, installed |-> TRUE, running |-> running]]
  BY <1>1
<1>2. PICK valid \in BOOLEAN, sandboxed \in BOOLEAN, running \in 0 .. 1 :
        asked' = [about |-> "domain", providers |-> <<first, second>>, stop |-> stop, kept |-> kept,
                  job |-> [valid |-> valid, sandboxed |-> sandboxed, installed |-> TRUE, running |-> running]]
  BY <1>a
<1>3. Providers \subseteq AnyProvider
  <2> DEFINE all == {[name |-> 1, below |-> TRUE], [name |-> 0, below |-> TRUE], [name |-> 3, below |-> FALSE]}
  <2>1. all \subseteq AnyName
    <3>1. \A name \in Nat, below \in BOOLEAN : [name |-> name, below |-> below] \in AnyName
      BY DEF AnyName
    <3>2. 0 \in Nat /\ 1 \in Nat /\ 3 \in Nat /\ TRUE \in BOOLEAN /\ FALSE \in BOOLEAN
      OBVIOUS
    <3>3. /\ [name |-> 1, below |-> TRUE] \in AnyName /\ [name |-> 0, below |-> TRUE] \in AnyName
          /\ [name |-> 3, below |-> FALSE] \in AnyName
      BY <3>1, <3>2, Zenon
    <3> QED BY <3>3, Zenon
  <2>2. IsFiniteSet(all)
    <3>1. \A x, y, z : IsFiniteSet({x, y, z})
      <4>1. ASSUME NEW x, NEW y, NEW z PROVE IsFiniteSet({x, y, z})
        <5>1. IsFiniteSet({x})
          BY FS_Singleton
        <5>2. IsFiniteSet({x} \cup {y})
          BY <5>1, FS_AddElement
        <5>3. IsFiniteSet(({x} \cup {y}) \cup {z})
          BY <5>2, FS_AddElement
        <5>4. {x, y, z} = ({x} \cup {y}) \cup {z}
          OBVIOUS
        <5> QED BY <5>3, <5>4
      <4> QED BY <4>1
    <3> QED BY <3>1, Zenon
  <2> HIDE DEF all
  <2>3. \A names \in SUBSET all : names \in SUBSET AnyName /\ IsFiniteSet(names)
    BY <2>1, <2>2, FS_Subset
  <2>4. Providers = [said : {"nothing", "done", "skipped", "rate", "refused", "unreachable", "database"}, names : SUBSET all]
    BY DEF Providers, all
  <2> QED BY <2>3, <2>4 DEF AnyProvider
<1>4. first \in AnyProvider /\ second \in AnyProvider
  BY <1>3
<1> DEFINE providers == <<first, second>>
           job == [valid |-> valid, sandboxed |-> sandboxed, installed |-> TRUE, running |-> running]
<1>5. providers \in Seq(AnyProvider)
  BY <1>4, Tuples, Zenon
<1>6. job \in AnyJob
  <2>1. running \in Nat
    BY Running, Zenon
  <2> QED BY <2>1, Zenon DEF AnyJob
<1> HIDE DEF providers, job
<1>7. asked'.about = "domain" /\ asked'.providers = providers /\ asked'.stop = stop /\ asked'.job = job
  <2>1. asked' = [about |-> "domain", providers |-> providers, stop |-> stop, kept |-> kept, job |-> job]
    BY <1>2 DEF providers, job
  <2> QED BY <2>1
<1>8. stop \in Stops
  BY DEF Stops
<1> QED BY <1>5, <1>6, <1>7, <1>8 DEF AnswersIInv, PagesAreAsked, SitesAreAsked, ProvidersAreAsked

\* A run that completes was answered, holds everything that it was offered, and says that there is nothing
\* only where its source can (connectors/*.py, queries/execution.py:1230-1309); username checks and a
\* discovery of subdomains complete when each platform and provider answered, and what they fail for happened
\* (connectors/sherlock.py, connectors/subfinder.py).
THEOREM AnswersAreAlwaysTrue == Spec => []AnswersAreTrue
<1>1. Init => AnswersIInv
  BY DEF Init, AnswersIInv, PagesAreAsked, SitesAreAsked, ProvidersAreAsked
<1>2. ASSUME AnswersIInv, [Next]_vars PROVE AnswersIInv'
  <2>1. CASE AskPages
    BY <2>1, AskedForPages
  <2>2. CASE AskUsername
    BY <2>2, AskedForSites
  <2>3. CASE AskDomain
    BY <2>3, AskedForProviders
  <2>4. CASE AskFetching
    <3>1. asked'.about = "fetch"
      <4>1. \E hops, same : asked' = [about |-> "fetch", hops |-> hops, same |-> same]
        BY <2>4, Zenon DEF AskFetching
      <4> QED BY <4>1
    <3> QED BY <3>1 DEF AnswersIInv, PagesAreAsked, SitesAreAsked, ProvidersAreAsked
  <2>5. CASE AskPreview
    <3>1. asked'.about = "preview"
      BY <2>5 DEF AskPreview
    <3> QED BY <3>1 DEF AnswersIInv, PagesAreAsked, SitesAreAsked, ProvidersAreAsked
  <2>6. CASE UNCHANGED asked
    BY <1>2, <2>6 DEF AnswersIInv, PagesAreAsked, SitesAreAsked, ProvidersAreAsked
  <2> QED BY <1>2, <2>1, <2>2, <2>3, <2>4, <2>5, <2>6 DEF Next, Ask, Relay, vars
<1>3. ASSUME AnswersIInv PROVE AnswersAreTrue
  <2>1. asked.about = "pages" =>
          Pages!AbsenceIsAnswered(asked.run, asked.source) /\ Pages!CompletedIsEverything(asked.run, asked.source)
    BY <1>3, AbsenceStaysAnswered, CompletedStaysEverything, Zenon DEF AnswersIInv, PagesAreAsked
  <2>2. asked.about = "username" => Engines!ChecksAreTrue(asked.sites, asked.stop)
    BY <1>3, ChecksStayTrue, Zenon DEF AnswersIInv, SitesAreAsked
  <2>3. asked.about = "domain" => Engines!SilenceIsNotAbsence(asked.job, asked.providers, asked.kept, asked.stop)
    BY <1>3, SilenceStaysNoAbsence, Zenon DEF AnswersIInv, ProvidersAreAsked
  <2> QED BY <2>1, <2>2, <2>3 DEF AnswersAreTrue
<1> QED BY <1>1, <1>2, <1>3, PTL DEF Spec
=================================================================================
