------------------------------- MODULE MCSources -------------------------------
(***************************************************************************)
(* The way to a source and back: the tunnels of the gateway, one at a time *)
(* with the questions that are put to the rules of fetching, of reading    *)
(* pages, of the engines' results and of a channel's preview.              *)
(***************************************************************************)
EXTENDS Integers, Sequences

CONSTANTS
  Tunnels, Hosts, Allowed, MaxTunnels, IdleLimit, TimeLimit, ByteLimit,  \* of the gateway
  MaxRedirects, MaxBytes,                                                \* of a fetch
  PerPage, MaxPages, NoId, Subject, Elsewhere,                           \* of the pages of a source
  Apex, MaxResults, MaxJobs,                                             \* of the engines
  NoMessage                                                              \* of a preview

VARIABLES tunnel, pump, age, idle, asked

Gateway == INSTANCE EgressGateway
Fetching == INSTANCE Fetching
Pages == INSTANCE SourcePages
Engines == INSTANCE EngineResults
Preview == INSTANCE PreviewParsing WITH None <- NoMessage

ASSUME TunnelsAssumption == Gateway!GatewayAssumption
ASSUME FetchingAssumption == Fetching!FetchingAssumption
ASSUME PagesAssumption == Pages!PagesAssumption
ASSUME EnginesAssumption == Engines!EnginesAssumption

gatewayVars == <<tunnel, pump, age, idle>>
vars == <<gatewayVars, asked>>

-----------------------------------------------------------------------------
(* What a fetch can meet: a first hop, and perhaps a redirect to another.  *)

Address(class, meets) == [class |-> class, meets |-> meets]
Addresses ==
  [class : {"public", "private", "teredo", "holds public", "holds reserved", "listed"},
   meets : {"answer", "refusal", "silence"}]
Resolved ==
  {<<>>} \cup {<<a>> : a \in Addresses}
         \cup {<<a, Address(c, "answer")>> : a \in Addresses, c \in {"public", "private"}}
Checked == {<<>>, <<Address("public", "answer")>>, <<Address("holds reserved", "answer")>>}
Hop == [origin |-> 1, url |-> "fine", interrupted |-> "no", checked |-> <<Address("public", "answer")>>,
        dialled |-> <<Address("public", "answer")>>, size |-> 1, ends |-> "body"]
Hops ==
  [origin : 1 .. 2, url : {"fine", "refused"}, interrupted : {"no", "canceled", "timeout"},
   checked : Checked, dialled : Resolved, size : 1 .. 3, ends : {"body", "timeout", "decoding_error"}]

AskFetching ==
  \E same \in BOOLEAN, last \in Hops, chain \in {<<>>, <<Hop>>, <<Hop, Hop>>, <<Hop, [Hop EXCEPT !.origin = 2]>>} :
    /\ Len(chain) = 2 => last = Hop
    /\ asked' = [about |-> "fetch", hops |-> Append(chain, last), same |-> same]

-----------------------------------------------------------------------------
(* What a source can answer on each of three pages.                        *)

Reasons ==
  [web |-> {}, feed |-> {}, github |-> {"rate"}, preview |-> {"no_preview"}, profile |-> {"login_wall", "private"},
   youtube |-> {"not_found", "comments_disabled", "quota", "key", "forbidden"},
   instagram |-> {"not_found", "quota", "key"}, bot |-> {"not_found", "no_count", "key"}]

\* The status with which a source gives a reason.
Says(connector, reason, status) ==
  IF reason = "" THEN TRUE
  ELSE IF connector = "github" THEN status = 403
  ELSE IF reason \in {"private", "no_preview", "no_count"} THEN status = 200
  ELSE connector \in {"youtube", "instagram", "bot"} => status >= 400

Statuses == {200, 404, 403, 429, 500}
Bodies == {"whole", "truncated", "garbled"}
Lists == {<<>>, <<1>>, <<2, NoId>>, <<3, 4, 1>>}
Cursors == {0, 1, 2, 3, Elsewhere}

Answers(connector) ==
  [status : {200}, body : {"whole"}, reason : {""}, ids : Lists, next : Cursors]
  \cup {a \in [status : Statuses, body : Bodies, reason : Reasons[connector] \cup {""}, ids : {<<1>>}, next : {0, 2}] :
          Says(connector, a.reason, a.status)}
Third(status, ids, next) == [status |-> status, body |-> "whole", reason |-> "", ids |-> ids, next |-> next]
Thirds == {Third(200, <<5>>, 0), Third(200, <<5, 1>>, 2), Third(500, <<5>>, 2)}

AskPages ==
  \E connector \in DOMAIN Reasons, want \in BOOLEAN :
    \E first, second \in Answers(connector), third \in Thirds :
      asked' = [about |-> "pages", run |-> [connector |-> connector, want |-> want], source |-> <<first, second, third>>]

-----------------------------------------------------------------------------
(* What two platforms, and two providers, can tell the engines.            *)

Sites ==
  {s \in [missing : {"message", "status_code", "response_url"}, reported : BOOLEAN, blocked : BOOLEAN,
          raw : {"Claimed", "Available", "Illegal", "WAF"}, http : {0, 200, 302, 404, 403, 429, 500}] :
     /\ s.blocked => s.http = 0
     /\ ~s.reported => s.http = 0 /\ ~s.blocked}

AskUsername ==
  \E first, second \in Sites, stop \in {"", "crash", "timeout", "canceled"} :
    \E sites \in {<<first>>, <<first, second>>} : asked' = [about |-> "username", sites |-> sites, stop |-> stop]

Providers ==
  [said : {"nothing", "done", "skipped", "rate", "refused", "unreachable", "database"},
   names : SUBSET {[name |-> 1, below |-> TRUE], [name |-> 0, below |-> TRUE], [name |-> 3, below |-> FALSE]}]

AskDomain ==
  \E first, second \in Providers, stop \in {"", "crash", "timeout", "canceled", "lost", "output_limit"} :
    \E kept \in IF stop = "" THEN {{0, 1}} ELSE SUBSET {0, 1} :
      \E valid, sandboxed \in BOOLEAN, running \in 0 .. 1 :
        asked' = [about |-> "domain", providers |-> <<first, second>>, stop |-> stop, kept |-> kept,
                  job |-> [valid |-> valid, sandboxed |-> sandboxed, installed |-> TRUE, running |-> running]]

-----------------------------------------------------------------------------
(* Pages of a channel: two messages, one inside of a wrapper or not.       *)

Element(tag, class, id, inner) ==
  <<[kind |-> "open", tag |-> tag, class |-> class, id |-> id]>> \o inner
  \o <<[kind |-> "close", tag |-> tag, class |-> class, id |-> 0]>>
Text(id) == <<[kind |-> "data", tag |-> "", class |-> "", id |-> id]>>
Inner == {<<>>, Text(1), Element("b", "plain", 0, Text(2)), Text(1) \o Element("div", "plain", 0, Text(2)) \o Text(3)}
Texts == {<<>>} \cup {Element("div", "text", 0, inner) : inner \in Inner}
Before == {<<>>, Text(8), Element("div", "from", 0, Text(9)), Element("div", "reply", 0, Text(4))}
Replies == {<<>>} \cup {Element(tag, "reply", 0, before \o text) : tag \in {"div", "a"}, text \in Texts, before \in Before}
Others ==
  {<<>>, Element("div", "text", 0, Text(11)), Text(14),
   Element("div", "reply", 0, Element("div", "text", 0, Text(12))) \o Element("div", "text", 0, Text(13))}

AskPreview ==
  \E plain \in {<<>>, Element("div", "plain", 0, Text(5))}, loose \in {<<>>, Text(1)},
     from \in {<<>>, Element("div", "from", 0, Element("b", "plain", 0, Text(7)))},
     reply \in Replies, text \in Texts, other \in Others, wrapped \in BOOLEAN :
    LET first == Element("div", "message", 1, plain \o from \o reply \o loose \o text)
        second == Element("div", "message", 2, other)
    IN asked' = [about |-> "preview",
                 tokens |-> IF wrapped THEN Element("div", "plain", 0, first \o Text(20) \o second) ELSE first \o second]

-----------------------------------------------------------------------------
Init ==
  /\ Gateway!Init
  /\ asked \in [about : {"gateway", "nothing"}]

Relay == asked.about = "gateway" /\ Gateway!Next /\ UNCHANGED asked

Ask ==
  /\ asked.about = "nothing"
  /\ AskFetching \/ AskPages \/ AskUsername \/ AskDomain \/ AskPreview
  /\ UNCHANGED gatewayVars

Next == Relay \/ Ask

Spec == Init /\ [][Next]_vars

-----------------------------------------------------------------------------
\* Tunnels are few, bounded and end with the provider; a fetch contacts what the policy permits and
\* reports what it got.
EgressIsBounded ==
  /\ Gateway!TunnelsAreBounded /\ Gateway!ProviderEndsTheTunnel
  /\ asked.about = "fetch" =>
       Fetching!OnlyPermittedIsContacted(asked.hops, asked.same) /\ Fetching!ResponseIsTrue(asked.hops, asked.same)

\* What a run reports, its source said: that it has nothing, that this is everything, that an account
\* exists.
AnswersAreTrue ==
  /\ asked.about = "pages" =>
       Pages!AbsenceIsAnswered(asked.run, asked.source) /\ Pages!CompletedIsEverything(asked.run, asked.source)
  /\ asked.about = "username" => Engines!ChecksAreTrue(asked.sites, asked.stop)
  /\ asked.about = "domain" => Engines!SilenceIsNotAbsence(asked.job, asked.providers, asked.kept, asked.stop)

\* The text that is kept of a message is its own: not what it quotes, nor another's.
PreviewsAreTrue == asked.about = "preview" => Preview!TextsAreTheirOwn(asked.tokens)
=================================================================================
