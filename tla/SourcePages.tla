------------------------------- MODULE SourcePages ------------------------------
(* What each source connector makes of one answer of its source, and what a run
   makes of a chain of them (services/api/app/connectors/web.py, rss.py,
   github.py, youtube.py, instagram.py, telegram.py; queries/execution.py).

   A source maps a cursor to its answer: an HTTP status, the state of the body
   ("whole", "truncated", "garbled": not of the expected shape), the reason an
   API error names ("" for none), the identifiers of its items (NoId: an item
   without one) and where the next page is (0: nowhere, Elsewhere: a cursor that
   is malformed or leaves the origin).  Cursor 1 is the first page.          *)
EXTENDS Integers, Sequences, FiniteSets

CONSTANTS
    PerPage,        \* max_items_per_page
    MaxPages,       \* pages of one run
    NoId,           \* identifier of an item that has none
    Subject,        \* the account, channel or video looked up, an item of its own
    Elsewhere       \* a next page that cannot be asked for

PagesAssumption == {PerPage, MaxPages} \subseteq Nat /\ Elsewhere \notin Nat /\ Subject # NoId

Page(ids, next, gap, hint) ==
    [outcome |-> "page", ids |-> ids, next |-> next, gap |-> gap, hint |-> hint]
Failure(outcome) == [outcome |-> outcome, ids |-> {}, next |-> 0, gap |-> FALSE, hint |-> ""]
Absent == Page({}, 0, FALSE, "no_findings")

\* http.raise_for_status, for statuses that a connector does not read itself.
ByStatus(status) ==
    Failure(IF status = 401 THEN "authentication_required" ELSE IF status = 403 THEN "access_denied"
            ELSE IF status = 429 THEN "rate_limited"
            ELSE IF status >= 500 \/ status \in 300 .. 399 THEN "unavailable" ELSE "unsupported")

All(ids) == {ids[i] : i \in DOMAIN ids}
Identified(ids) == All(ids) \ {NoId}
Wanted(want, next) == IF want THEN next ELSE 0

(* ------------------------------------------- one page, per connector ---- *)

WebPage(answer) ==
    IF answer.status = 404 THEN Absent
    ELSE IF answer.status # 200 THEN ByStatus(answer.status)
    ELSE IF answer.body = "garbled" THEN Failure("unsupported")
    ELSE Page({Subject}, 0, answer.body = "truncated", "")

\* An entry without an identifier gets that of its link or content.
FeedPage(n, answer) ==
    IF answer.status = 404 /\ n = 1 THEN Absent
    ELSE IF answer.status # 200 THEN ByStatus(answer.status)
    ELSE IF answer.body # "whole" THEN Failure("parse_error")
    ELSE Page({answer.ids[i] : i \in {k \in DOMAIN answer.ids : k <= PerPage}}, answer.next, Len(answer.ids) > PerPage, "")

\* The account, then its repositories page by page.
GithubGet(answer) ==
    IF answer.status = 403 /\ answer.reason = "rate" THEN Failure("rate_limited")
    ELSE ByStatus(answer.status)
GithubAccount(want, answer) ==
    IF answer.status = 404 THEN Absent
    ELSE IF answer.status # 200 THEN GithubGet(answer)
    ELSE IF answer.body # "whole" THEN Failure("parse_error")
    ELSE Page({Subject}, Wanted(want, answer.next), FALSE, "")
GithubRepositories(answer) ==
    IF answer.status = 404 THEN Failure("unavailable")
    ELSE IF answer.status # 200 THEN GithubGet(answer)
    ELSE IF answer.body # "whole" THEN Failure("parse_error")
    ELSE Page(Identified(answer.ids), answer.next, FALSE, "")

\* _get and _raise_api_error: the body is read before the status.
YoutubeError(answer) ==
    IF answer.reason \in {"quota", "rate"} \/ answer.status = 429 THEN "rate_limited"
    ELSE IF answer.reason = "key" \/ answer.status = 401 THEN "authentication_required"
    ELSE IF answer.reason = "forbidden" \/ answer.status = 403 THEN "access_denied"
    ELSE IF answer.reason = "processing" \/ answer.status >= 500 THEN "unavailable" ELSE "unsupported"
\* A documented state of the resource; anything else that failed ends the page.
Documented(answer) == answer.reason \in {"not_found", "comments_disabled"}
YoutubeFailure(answer) ==
    IF answer.body # "whole" THEN "parse_error"
    ELSE IF ~Documented(answer) /\ (answer.status >= 400 \/ answer.reason # "") THEN YoutubeError(answer)
    ELSE ""
YoutubeChannel(answer) ==      \* and a video, before its comments
    IF YoutubeFailure(answer) # "" THEN Failure(YoutubeFailure(answer))
    ELSE IF Documented(answer) \/ answer.ids = <<>> THEN Absent
    ELSE Page({Subject}, answer.next, FALSE, "")
YoutubeUploads(answer) ==
    IF YoutubeFailure(answer) # "" THEN Failure(YoutubeFailure(answer))
    ELSE IF Documented(answer) THEN Page({}, 0, FALSE, "")
    ELSE Page(Identified(answer.ids), answer.next, FALSE, "")
YoutubeComments(answer) ==
    IF YoutubeFailure(answer) # "" THEN Failure(YoutubeFailure(answer))
    ELSE IF answer.reason = "not_found" THEN Failure("unavailable")
    ELSE IF answer.reason = "comments_disabled" THEN Page({}, 0, FALSE, "")
    ELSE Page(Identified(answer.ids), answer.next, FALSE, "")

\* _raise_graph_error; a media without an identifier is kept under "None".
GraphError(answer) ==
    IF answer.reason = "key" \/ answer.status = 401 THEN "authentication_required"
    ELSE IF answer.reason \in {"quota", "rate"} \/ answer.status = 429 THEN "rate_limited"
    ELSE IF answer.reason = "not_found" THEN "unsupported"
    ELSE IF answer.reason = "forbidden" THEN "access_denied"
    ELSE IF answer.reason = "processing" \/ answer.status >= 500 THEN "unavailable" ELSE "unsupported"
InstagramPage(n, want, answer) ==
    LET media == IF want THEN All(answer.ids) ELSE {} IN
    IF answer.body # "whole" THEN Failure("parse_error")
    ELSE IF answer.status >= 400 \/ answer.reason # "" THEN Failure(GraphError(answer))
    ELSE Page((IF n = 1 THEN {Subject} ELSE {}) \cup media, IF media = {} THEN 0 ELSE answer.next, FALSE, "")

\* The unofficial profile page: a login wall says nothing of the account.
ProfilePage(answer) ==
    IF answer.status = 429 THEN Failure("rate_limited")
    ELSE IF answer.status = 404 THEN Absent
    ELSE IF answer.reason = "login_wall" THEN Failure("authentication_required")
    ELSE IF answer.status # 200 THEN ByStatus(answer.status)
    ELSE IF answer.body = "garbled" THEN Failure("parse_error")
    ELSE Page({Subject}, 0, answer.reason = "private", "")

\* Mutant: a channel without a preview is called absent.
PreviewPageAbsent(n, answer) ==
    IF n = 1 /\ (answer.status = 404 \/ answer.reason = "no_preview") THEN Absent
    ELSE Page({Subject} \cup All(answer.ids), answer.next, FALSE, "")

\* A preview that does not exist does not show that the channel does not.
PreviewPage(n, answer) ==
    IF answer.status = 429 THEN Failure("rate_limited")
    ELSE IF answer.status >= 500 THEN ByStatus(answer.status)
    ELSE IF answer.status = 404 \/ answer.reason = "no_preview" THEN Failure("access_denied")
    ELSE IF answer.status # 200 THEN ByStatus(answer.status)
    ELSE IF answer.body = "garbled" THEN Failure("parse_error")
    ELSE Page((IF n = 1 THEN {Subject} ELSE {}) \cup Identified(answer.ids),
              IF Identified(answer.ids) = {} THEN 0 ELSE answer.next, FALSE, "")

\* The Bot API: the member count is asked for next; without it the page has a gap.
BotPage(answer) ==
    IF answer.body # "whole" THEN Failure("parse_error")
    ELSE IF answer.reason = "not_found" THEN Absent
    ELSE IF answer.status # 200 THEN ByStatus(answer.status)
    ELSE IF answer.reason \notin {"", "no_count"} THEN Failure("unsupported")
    ELSE Page({Subject}, 0, answer.reason = "no_count", "")

\* fetch_page; a cursor that cannot be used fails before anything is asked.
YoutubePage(n, want, answer) ==
    IF n = 1 THEN YoutubeChannel(answer) ELSE IF want THEN YoutubeComments(answer) ELSE YoutubeUploads(answer)
GithubPage(n, want, answer) == IF n = 1 THEN GithubAccount(want, answer) ELSE GithubRepositories(answer)
FetchPage(run, n, answer) ==
    IF run.connector = "web" THEN WebPage(answer)
    ELSE IF run.connector = "feed" THEN FeedPage(n, answer)
    ELSE IF run.connector = "github" THEN GithubPage(n, run.want, answer)
    ELSE IF run.connector = "youtube" THEN YoutubePage(n, run.want, answer)
    ELSE IF run.connector = "instagram" THEN InstagramPage(n, run.want, answer)
    ELSE IF run.connector = "profile" THEN ProfilePage(answer)
    ELSE IF run.connector = "preview" THEN PreviewPage(n, answer)
    ELSE BotPage(answer)
Unusable(run) == Failure(IF run.connector = "feed" THEN "unsupported" ELSE "parse_error")

(* ---------------------------------------------------- the run of pages ---- *)

(* _run_pages without retries, cancellation and budgets (see QueryRuns): `at` is
   the cursor of the next page, 0 when there is none. *)
Begun == [at |-> 1, ids |-> {}, gap |-> FALSE, hint |-> "", failure |-> "", asked |-> {}]
Asked(run, source, s, n) ==
    IF s.at = Elsewhere THEN Unusable(run) ELSE FetchPage(run, n, source[s.at])
Kept(run, s, page) ==
    [at |-> IF run.connector = "feed" /\ page.next = s.at THEN 0 ELSE page.next,
     ids |-> s.ids \cup page.ids, gap |-> s.gap \/ page.gap,
     hint |-> IF page.hint = "" THEN s.hint ELSE page.hint,
     failure |-> "", asked |-> s.asked \cup {s.at}]
NextPage(run, source, s, n) ==
    IF s.at = 0 THEN s
    ELSE LET page == Asked(run, source, s, n) IN
         IF page.outcome = "page" THEN Kept(run, s, page)
         ELSE [s EXCEPT !.at = 0, !.failure = page.outcome]
Collected(run, source) ==
    LET after[n \in 0 .. MaxPages] == IF n = 0 THEN Begun ELSE NextPage(run, source, after[n - 1], n)
    IN  after[MaxPages]

\* A page that fails ends the run: partial after a page that was kept, with whatever items.
Broken(done) ==
    IF done.asked # {} THEN [status |-> "partial", outcome |-> "partial"]
    ELSE [status |-> "failed", outcome |-> done.failure]

(* _finish_after_last_page and _status_for; a page left over is the page limit. *)
Verdict(run, source) ==
    LET done == Collected(run, source)
    IN  IF done.failure # "" THEN Broken(done)
        ELSE IF done.at # 0 \/ done.gap THEN [status |-> "partial", outcome |-> "partial"]
        ELSE IF done.hint # "" THEN [status |-> "completed", outcome |-> done.hint]
        ELSE [status |-> "completed", outcome |-> IF done.ids # {} THEN "findings" ELSE "no_findings"]

(* ----------------------------------------------------------- properties ---- *)

\* The source itself gave its content, or said in its own way that it has none.
Answered(connector, answer) ==
    \/ answer.status = 200 /\ answer.body # "garbled" /\ answer.reason \in {"", "private", "no_count"}
    \/ connector \in {"web", "feed", "github", "profile"} /\ answer.status = 404
    \/ connector \in {"youtube", "bot"} /\ answer.reason \in {"not_found", "comments_disabled"}

(* A run that completes was answered by its source on every page, and says that
   there is nothing only where the source can say so: never after a refusal, a
   throttle, a login wall or an unreadable body, nor for a channel that has no
   preview. *)
AbsenceIsAnswered(run, source) ==
    LET verdict == Verdict(run, source) IN
    /\ verdict.status = "completed" =>
           \A at \in Collected(run, source).asked : Answered(run.connector, source[at])
    /\ verdict.outcome = "no_findings" => run.connector # "preview"

\* The items that are offered page after page.  A preview or media list without
\* items ends there, and so does an uploads list that is not found.
Items(run, source, at) ==
    IF \/ at = 1 /\ run.connector \in {"github", "youtube"}
       \/ source[at].status # 200 \/ source[at].reason # ""
    THEN {} ELSE Identified(source[at].ids)
Ends(run, source, at) ==
    \/ source[at].status # 200 \/ source[at].reason # ""
    \/ source[at].next \notin DOMAIN source
    \/ run.connector \in {"preview", "instagram"} /\ Items(run, source, at) = {}
Linked(run, source, reached) == reached \cup {source[at].next : at \in {a \in reached : ~Ends(run, source, a)}}
Offered(run, source) ==
    LET within[n \in 0 .. Len(source)] == IF n = 0 THEN {1} ELSE Linked(run, source, within[n - 1])
    IN  UNION {Items(run, source, at) : at \in within[Len(source)]}

(* A run that completes with findings holds every item that the source offered
   on any page it linked to: what a limit, a bad cursor or a cut body left out
   makes it partial.  (A cut preview is not noticed, and is left aside here.) *)
CompletedIsEverything(run, source) ==
    (/\ Verdict(run, source) = [status |-> "completed", outcome |-> "findings"]
     /\ run.connector \in {"feed", "preview"} \/ (run.want /\ run.connector \in {"github", "instagram"})
            \/ run.connector = "youtube"
     /\ \A at \in DOMAIN source : source[at].body # "truncated") =>
        Offered(run, source) \subseteq Collected(run, source).ids
================================================================================
