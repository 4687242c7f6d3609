--------------------------------- MODULE MCRules ---------------------------------
(***************************************************************************)
(* Questions put to the rules by which imports are read, passages found,   *)
(* views built and slots run: one question, with small inputs, in each     *)
(* behaviour.                                                              *)
(***************************************************************************)
EXTENDS Integers, Sequences, FiniteSets, TLC

CONSTANTS
  Failed, TooMany,  \* of documents, and of chunks
  NoProfile         \* of what a model is given

VARIABLE asked

\* The sequences of at most n, or of one to n, elements.
UpTo(S, n) == UNION {[1 .. k -> S] : k \in 0 .. n}
Some(S, n) == UpTo(S, n) \ {<<>>}

-----------------------------------------------------------------------------
(* Imports: documents, archives and chats.                                 *)

Documents == INSTANCE Documents
  WITH BatchPages <- 2, MaxPages <- 3, MinText <- 2, PageChars <- 4, MaxChars <- 16, OcrPages <- 2, HeaderChars <- 2
Chats == INSTANCE ChatExports
  WITH MaxMembers <- 3, MaxMemberSize <- 4, MaxTotal <- 5, MaxRatio <- 2, RatioExempt <- 2, MaxMessages <- 2,
       Instants <- -10 .. 20

Page(chars, images, reads, ocr) == [chars |-> chars, images |-> images, reads |-> reads, ocr |-> ocr]
Pages ==
  {Page(3, FALSE, "fine", 0), Page(5, TRUE, "slow", 2), Page(1, TRUE, "fine", 3), Page(0, TRUE, "slow", Failed),
   Page(0, TRUE, "fine", 0), Page(3, FALSE, "raises", 2), Page(1, FALSE, "kills", 2), Page(0, FALSE, "fine", 0)}

AskDocument ==
  \E pages \in Some(Pages, 3), last \in {<<>>, <<Page(3, FALSE, "fine", 0)>>},
     mode \in {"off", "if_needed", "always"}, engine \in BOOLEAN, patience \in {0, 1, 2, 4, 9} :
    asked' = [about |-> "document",
              job |-> [opens |-> "ok", pages |-> pages \o last, mode |-> mode, engine |-> engine,
                       patience |-> patience, late |-> FALSE]]

Entry(sort, name, file, declared, actual, packed) ==
  [sort |-> sort, name |-> name, file |-> file, declared |-> declared, actual |-> actual, packed |-> packed]
Entries ==
  {Entry("file", 1, "_chat.txt", 1, 1, 1), Entry("file", 2, "photo.jpg", 2, 2, 1), Entry("file", 2, "photo.jpg", 2, 1, 1),
   Entry("file", 3, "other.txt", 3, 4, 1), Entry("file", 4, "pic.jpg", 3, 3, 0), Entry("file", 5, "big.jpg", 5, 5, 5),
   Entry("file", 6, "doc.pdf", 2, Chats!Corrupt, 1), Entry("directory", 7, "d", 0, 0, 0),
   Entry("symbolic_link", 8, "l", 0, 0, 0), Entry("file", 9, "whatsapp chat.txt", 1, 1, 1)}

Line(date, blank, label, file, marked) == [date |-> date, blank |-> blank, label |-> label, file |-> file, marked |-> marked]
ChatLines ==
  {Line(<<>>, TRUE, FALSE, Chats!NoFile, FALSE), Line(<<>>, FALSE, FALSE, Chats!NoFile, FALSE),
   Line(<<1, 2>>, FALSE, TRUE, Chats!NoFile, FALSE), Line(<<13, 2>>, FALSE, TRUE, Chats!NoFile, FALSE),
   Line(<<2, 13>>, FALSE, TRUE, "photo.jpg", TRUE), Line(<<>>, FALSE, FALSE, "photo.jpg", TRUE),
   Line(<<>>, FALSE, FALSE, "doc.pdf", FALSE), Line(<<1, 1>>, FALSE, FALSE, Chats!NoFile, FALSE),
   Line(<<2021, 1, 2>>, FALSE, TRUE, Chats!Omitted, TRUE)}
Days == [month : {1, 2, 12}, day : {1, 2, 12, 13, 31}]

AskChat ==
  \/ \E entries \in UpTo(Entries, 2), lines \in UpTo(ChatLines, 3), order \in {"auto", "day_first", "year_first"} :
       asked' = [about |-> "chat", job |-> [entries |-> entries, lines |-> lines, order |-> order]]
  \/ \E entries \in UpTo(Entries, 4) : asked' = [about |-> "archive", entries |-> entries]
  \/ \E lines \in UpTo(ChatLines, 4) : asked' = [about |-> "lines", lines |-> lines]
  \/ \E a, b, c \in Days, order \in {"day_first", "month_first", "year_first"} :
       asked' = [about |-> "dates", days |-> {a, b, c}, order |-> order]
  \/ \E change \in 4 .. 5, before, after \in -2 .. 2, local \in 0 .. 12 :
       asked' = [about |-> "instants", zone |-> [change |-> change, before |-> before, after |-> after], local |-> local]

-----------------------------------------------------------------------------
(* Evidence: what is indexed and found.                                    *)

Chunking == INSTANCE Chunking
  WITH Folded <- [a |-> <<"a">>, A |-> <<"a">>, b |-> <<"a", "b">>], Target <- 4, Overlap <- 1, MaxChunks <- 6, ShortestQuote <- 2

AskIndex ==
  \/ \E text \in Some({"a", Chunking!Space, Chunking!LineEnd, Chunking!Stop}, 7) : asked' = [about |-> "text", text |-> text]
  \/ \E leaves \in Some([label : {1, 3}, value : {0, 1, 3, 4, 9}], 4) :
       asked' = [about |-> "leaves",
                 leaves |-> [k \in DOMAIN leaves |-> [pointer |-> k, label |-> leaves[k].label, value |-> leaves[k].value]]]
  \/ \E text \in Some({"a", "A", "b", Chunking!Space, Chunking!LineEnd, Chunking!Mark}, 4),
        quote \in Some({"a", "A", "b", Chunking!Space, Chunking!Mark}, 3) :
       asked' = [about |-> "quote", text |-> text, quote |-> quote]

Search == INSTANCE CaseSearch
  WITH RrfK <- 2, Common <- 420, PerRecord <- 1, PerRetriever <- 4, TopK <- 2, LoadFactor <- 2, Version <- 1, MaxCalls <- 1, MaxRows <- 1

Chunk(record, case, status, version, profile, lexical, identifier, semantic) ==
  [record |-> record, case |-> case, status |-> status, version |-> version, profile |-> profile,
   match |-> [lexical |-> lexical, identifier |-> identifier, semantic |-> semantic]]
Chunks ==
  {Chunk(1, 1, "indexed", 1, 1, 2, 0, 1), Chunk(1, 1, "indexed", 1, 1, 1, 0, 0), Chunk(1, 1, "indexed", 1, 1, 2, 1, 0),
   Chunk(2, 1, "indexed", 1, 1, 0, 1, 0), Chunk(2, 1, "indexed", 1, 1, 1, 0, 2), Chunk(3, 1, "indexed", 1, 2, 0, 0, 2),
   Chunk(4, 1, "stale", 1, 1, 2, 2, 2), Chunk(5, 2, "indexed", 1, 1, 2, 2, 2), Chunk(6, 1, "indexed", 0, 1, 2, 2, 2)}

AskSearch ==
  \E chunks \in UpTo(Chunks, 5), profile \in {1, NoProfile} :
    asked' = [about |-> "passages", chunks |-> chunks, question |-> [case |-> 1, profile |-> profile]]

-----------------------------------------------------------------------------
(* Views: the graph, the timeline, comparisons and reports.                *)

Views == INSTANCE CaseViews WITH MaxNodes <- 3, MaxEdges <- 2, MaxDepth <- 2
Comparing == INSTANCE EntityComparison
  WITH MaxEntities <- 4, MaxObservations <- 3, MaxRelations <- 2, MaxChanges <- 1
Reports == INSTANCE Reports WITH MaxBundled <- 2, MaxGaps <- 1

Links == {link \in (1 .. 4) \X (1 .. 4) : link[1] # link[2]}
Observations == [event : 0 .. 2, published : 0 .. 1, local : 0 .. 1, collected : 1 .. 2]

AskView ==
  \/ \E edges \in UpTo(Links, 3), focus \in 0 .. 4, depth \in {1, 3}, max \in {2, 3, 9} :
       asked' = [about |-> "graph", edges |-> edges, focus |-> focus, depth |-> depth, max |-> max]
  \/ \E observations \in UpTo(Observations, 2), start \in {0, 2}, end \in {0, 1}, limit \in {1, 2} :
       asked' = [about |-> "timeline", observations |-> observations, start |-> start, end |-> end, limit |-> limit]

Ids ==
  [kind : {"platform_id"}, platform : {"p", "q"}, value : {"x", "y"}, owner : 1 .. 2]
  \cup [kind : {"username"}, platform : {"p"}, value : {"x"}, owner : 1 .. 3]
Relations ==
  {r \in [source : 1 .. 3, target : 1 .. 3, review : {"unreviewed", "accepted"}] : r.source < r.target}
Executions == [connector : {"c", "d"}, scope : {1, 2}, complete : BOOLEAN]
Seen == [entity : 1 .. 2, run : 0 .. 2, object : {"o", "w"}, value : 0 .. 2]

AskComparison ==
  \/ \E ids \in UpTo(Ids, 3), relations \in UpTo(Relations, 1), entities \in {<<1, 2>>, <<3, 1, 2>>} :
       asked' = [about |-> "leads", ids |-> ids, relations |-> relations, entities |-> entities]
  \/ \E ids \in UpTo(Ids, 1), relations \in UpTo(Relations, 3), entities \in {<<1, 2>>, <<1>>, <<2, 1, 2>>, <<3, 1, 2>>} :
       asked' = [about |-> "leads", ids |-> ids, relations |-> relations, entities |-> entities]
  \/ \E seen \in UpTo(Seen, 2), first \in Executions, second \in Executions :
       asked' = [about |-> "sources", seen |-> seen, runs |-> <<first, second>>]
  \/ \E one, two, three \in [entity : 1 .. 2, run : 0 .. 2, object : {"o", "w"}, value : 1 .. 2], second \in Executions, complete \in BOOLEAN :
       /\ one.run = 1
       /\ \E seen \in {<<one, two, three>>, <<one, one, two, three>>} :
            asked' = [about |-> "sources", seen |-> seen,
                      runs |-> <<[connector |-> "c", scope |-> 1, complete |-> complete], second>>]

\* A case with one record of each sort and its three pieces of evidence, and what is selected of it.
SmallCase(entity, relation, note, answer, changes, times, evidence) ==
  [entities |-> (1 :> entity), relationships |-> (1 :> relation), notes |-> (1 :> note), answers |-> (1 :> answer),
   comparison |-> [changes |-> changes, conflicts |-> <<>>],
   timeline |-> [s \in {"dated", "local_time_only", "undated"} |-> IF s = "undated" THEN <<>> ELSE times],
   evidence |-> evidence, runs |-> <<"findings", "partial", "none">>, jobs |-> <<"failed">>]
Selection(entities, relations, compared, timeline, added) ==
  [entities |-> entities, relationships |-> relations, notes |-> <<1>>, answers |-> <<1>>, comparison |-> compared,
   timeline |-> timeline, entity |-> 0, limit |-> 2, evidence |-> added, chars |-> 2]

AskReport ==
  \E entity, relation \in UpTo(0 .. 3, 1) \cup {<<1, 2>>, <<3, 1>>}, note \in {0, 2},
     answer \in {<<>>, <<[of |-> "passage", evidence |-> 3], [of |-> "tool", evidence |-> 0]>>}, changes \in {<<>>, <<1, 3>>},
     times \in {<<>>, <<[entity |-> 1, evidence |-> 2]>>},
     evidence \in {[x \in 1 .. 3 |-> [text |-> TRUE, intact |-> TRUE, chars |-> x]],
                   [x \in 1 .. 2 |-> [text |-> x = 1, intact |-> TRUE, chars |-> 3]]},
     entities \in {<<>>, <<1>>, <<2, 1>>}, relations \in {<<>>, <<1>>}, compared \in {<<>>, <<1, 2>>},
     timeline \in BOOLEAN, added \in {<<>>, <<3>>} :
    asked' = [about |-> "report",
              case |-> SmallCase(entity, relation, note, answer, changes, times, evidence),
              selected |-> Selection(entities, relations, compared, timeline, added)]

-----------------------------------------------------------------------------
(* Schedules: one slot of a monitor by local time, and a scheduler that comes then or later.  The clock *)
(* changes within the days that are asked about.                                                        *)

Slots == INSTANCE Schedule WITH Day <- 4, WeekDays <- 3, ScanDays <- 8

Plans == {Slots!Daily(at) : at \in 0 .. 3}
         \cup {Slots!Weekly(at, days) : at \in 0 .. 3, days \in (SUBSET (0 .. 2)) \ {{}}}
Zones == [change : 8 .. 12, before : -1 .. 1, after : -1 .. 1]

AskSlot ==
  \E plan \in Plans, zone \in Zones, setting \in {0, 1}, day \in 1 .. 3, delay \in 0 .. 10 :
    /\ Slots!OnDay(plan, day)
    /\ LET due == Slots!Meant(plan, zone, day)
       IN asked' = [about |-> "slot", plan |-> plan, zone |-> zone, setting |-> setting, due |-> due, now |-> due + delay]

-----------------------------------------------------------------------------
Areas == {"documents", "chats", "index", "search", "views", "comparisons", "reports", "schedules"}
Init == asked \in [about : Areas]

Next ==
  \/ asked.about = "documents" /\ AskDocument
  \/ asked.about = "chats" /\ AskChat
  \/ asked.about = "index" /\ AskIndex
  \/ asked.about = "search" /\ AskSearch
  \/ asked.about = "views" /\ AskView
  \/ asked.about = "comparisons" /\ AskComparison
  \/ asked.about = "reports" /\ AskReport
  \/ asked.about = "schedules" /\ AskSlot

Spec == Init /\ [][Next]_asked

-----------------------------------------------------------------------------
\* What a case holds is whole and can be found: an import called completed left nothing out, and what it
\* kept is cited, dated and bounded truly; all text is indexed and leads back to its place; the passages
\* that are found are current and of this case.
EvidenceIsWhole ==
  CASE asked.about = "document" -> Documents!CompletedIsWhole(asked.job) /\ Documents!PagesAreCited(asked.job) /\ Documents!NeighboursAreKept(asked.job)
    [] asked.about = "chat" -> Chats!CompletedIsWhole(asked.job)
    [] asked.about = "archive" -> Chats!ArchiveIsBounded(asked.entries)
    [] asked.about = "lines" -> Chats!MessagesAreWhole(asked.lines)
    [] asked.about = "dates" -> Chats!DatesAreTrue(asked.days, asked.order)
    [] asked.about = "instants" -> Chats!InstantsAreTrue(asked.zone, asked.local)
    [] asked.about = "text" -> Chunking!NothingIsLost(asked.text)
    [] asked.about = "leaves" -> Chunking!PlacesLeadBack(asked.leaves)
    [] asked.about = "quote" -> Chunking!QuotesAreShown(asked.text, asked.quote)
    [] asked.about = "passages" -> Search!PassagesAreRight(asked.chunks, asked.question)
    [] OTHER -> TRUE

\* A view shows what the case holds, tells when it was cut, unless it is a graph around a focus that is full,
\* and says of sources only what they said, as far as their observations are read.
ViewsAreTrue ==
  CASE asked.about = "graph" -> Views!GraphIsTrue(4, asked.edges, asked.focus, asked.depth, asked.max)
    [] asked.about = "timeline" -> Views!TimelineIsWhole(asked.observations, asked.start, asked.end, asked.limit)
    [] asked.about = "leads" -> Comparing!LeadsAreFair(asked.ids, asked.relations, asked.entities)
    [] asked.about = "sources" -> Comparing!SourcesAreFair(asked.seen, asked.runs, <<2, 1>>, 1)
    [] asked.about = "report" -> Reports!ReportIsWhole(asked.case, asked.selected)
    [] OTHER -> TRUE

\* A monitor by local time runs, counts or awaits each of its slots once, whenever its scheduler comes and
\* whatever the clock does in between.
SlotsAreTrue ==
  asked.about = "slot" => Slots!SlotsAreTold(asked.plan, asked.zone, asked.setting, asked.due, asked.now)

=================================================================================
