------------------------------- MODULE Documents -------------------------------
(* A PDF import (services/api/app/imports/documents_job.py): the pages are read
   in batches by a resource-limited child process, some are rendered and
   recognised, and the texts are joined into records with a page map.

   A job is a record of what the document holds and of what happens to it:
     opens     "ok", or why the document cannot be read;
     pages     the document's pages: "chars" characters of embedded text,
               "images", how the child fares ("fine", "raises" on the page,
               "kills" the child, "slow": two of them exceed its time), and what
               OCR answers ("chars" recognised, or Failed);
     mode      the OCR mode the import asked for;
     engine    whether Tesseract and its languages are installed;
     patience  the renewals granted before the user cancels;
     late      the user cancels after the last renewal.                     *)
EXTENDS Integers, Sequences, FiniteSets, SequencesExt

CONSTANTS
    BatchPages,     \* EXTRACT_BATCH_PAGES
    MaxPages,       \* document_max_pages
    MinText,        \* MIN_TEXT_CHARS
    PageChars,      \* what the child keeps of one page
    MaxChars,       \* document_max_text_chars
    OcrPages,       \* document_ocr_max_pages
    HeaderChars,    \* the length of a "[Page N]" header
    Failed          \* OCR of the page fails

Smaller(a, b) == IF a < b THEN a ELSE b

(* ------------------------------------------------ the text layer ---------- *)

Limit(job) == Smaller(Len(job.pages), MaxPages)

BatchOf(job, p) ==
    LET first == ((p - 1) \div BatchPages) * BatchPages + 1
    IN  first .. Smaller(first + BatchPages - 1, Limit(job))

Batches(job) == (Limit(job) + BatchPages - 1) \div BatchPages

(* Whether a child asked for these pages answers at all. *)
Answers(job, asked) ==
    /\ \A p \in asked : job.pages[p].reads # "kills"
    /\ Cardinality({p \in asked : job.pages[p].reads = "slow"}) <= 1

(* What the child's answer says of one page. *)
Entry(page) ==
    LET kept == Smaller(page.chars, PageChars) IN
    IF page.reads = "raises" THEN [status |-> "error", chars |-> 0, cut |-> FALSE]
    ELSE [status |-> IF kept >= MinText THEN "text"
                     ELSE IF page.images THEN "image_only" ELSE "no_text",
          chars |-> kept, cut |-> page.chars > PageChars]

(* A failed batch is read again page by page. *)
PageRecord(job, p) ==
    IF Answers(job, BatchOf(job, p)) \/ Answers(job, {p}) THEN Entry(job.pages[p])
    ELSE [status |-> "error", chars |-> 0, cut |-> FALSE]


(* Each batch starts with a renewal, which ends the extraction when the user
   has canceled. *)
ReadPages(job) == 1 .. Smaller(Limit(job), job.patience * BatchPages)
ExtractionCanceled(job) == Batches(job) > job.patience

(* ------------------------------------------------------------ OCR ---------- *)

Candidates(job) ==
    IF ExtractionCanceled(job) \/ job.mode = "off" THEN {}
    ELSE {p \in ReadPages(job) :
             LET s == PageRecord(job, p).status IN
             \/ s = "image_only"
             \/ job.mode = "always" /\ s \in {"text", "no_text"}}

(* The candidate's place in the queue, which is what the page limit counts and
   what its renewal waits for. *)
Place(job, p) == Cardinality({q \in Candidates(job) : q <= p})

Recognises(job) == Candidates(job) # {} /\ job.engine
OcrCanceled(job) ==
    /\ Recognises(job)
    /\ Batches(job) + Smaller(Cardinality(Candidates(job)), OcrPages) > job.patience

OcrStatus(job, p) ==
    CASE p \notin Candidates(job) ->
            IF job.mode = "off" /\ ~ExtractionCanceled(job)
               /\ PageRecord(job, p).status = "image_only"
            THEN "not_requested" ELSE "none"
      [] p \in Candidates(job) /\ ~job.engine -> "ocr_unavailable"
      [] Recognises(job) /\ p \in Candidates(job) ->
            IF OcrCanceled(job) /\ Batches(job) + Place(job, p) > job.patience
            THEN "not_processed_canceled"
            ELSE IF Place(job, p) > OcrPages THEN "ocr_page_limit"
            ELSE IF job.pages[p].ocr = Failed THEN "ocr_failed"
            ELSE IF job.pages[p].ocr > 0 THEN "ocr_text" ELSE "ocr_empty"

Canceled(job) == ExtractionCanceled(job) \/ OcrCanceled(job)

OcrChars(job, p) ==
    IF OcrStatus(job, p) = "ocr_text" THEN Smaller(job.pages[p].ocr, MaxChars) ELSE 0

(* ------------------------------------------------------ joined texts -------- *)

(* Joining: "chars" gives what each page contributes, a page is preceded by its
   header and followed by two line ends, and the text stops at MaxChars. *)
Joined(job, chars) ==
    LET pages == SetToSortSeq({p \in ReadPages(job) : chars[p] > 0}, LAMBDA a, b : a < b)
        step[k \in 0 .. Len(pages)] ==
            IF k = 0 THEN [length |-> 0, map |-> <<>>, cut |-> FALSE]
            ELSE LET sofar == step[k - 1]
                     page == pages[k]
                     room == MaxChars - sofar.length - HeaderChars - 2
                     taken == Smaller(chars[page], room)
                     start == sofar.length + HeaderChars
                 IN  IF sofar.cut THEN sofar
                     ELSE IF room <= 0 THEN [sofar EXCEPT !.cut = TRUE]
                     ELSE [length |-> start + taken + 2,
                           map |-> Append(sofar.map, [page |-> page, start |-> start,
                                                      end |-> start + taken]),
                           cut |-> taken < chars[page]]
    IN  step[Len(pages)]

TextLayer(job) == Joined(job, [p \in ReadPages(job) |-> PageRecord(job, p).chars])
OcrText(job) == Joined(job, [p \in ReadPages(job) |-> OcrChars(job, p)])

(* page_for_offset: the page a character of the derived text is shown on. *)
PageFor(map, offset) ==
    LET hits == {k \in DOMAIN map : map[k].start - HeaderChars <= offset /\ offset < map[k].end}
    IN  IF hits = {} THEN 0 ELSE map[CHOOSE k \in hits : \A l \in hits : k <= l].page

(* ------------------------------------------------------- the outcome -------- *)

Recognised == {"ocr_text", "ocr_empty"}

Gaps(job) ==
    LET read == ReadPages(job) IN
    {g \in {"page_limit", "errors", "unrecognised", "ocr_failed", "text_cut", "ocr_cut",
            "canceled"} :
        \/ g = "page_limit" /\ Len(job.pages) > Limit(job)
        \/ g = "errors" /\ \E p \in read : PageRecord(job, p).status = "error"
        \/ g = "unrecognised" /\ \E p \in read : /\ PageRecord(job, p).status = "image_only"
                                                 /\ OcrStatus(job, p) \notin Recognised
        \/ g = "ocr_failed" /\ \E p \in read : OcrStatus(job, p) = "ocr_failed"
        \/ g = "text_cut" /\ \/ TextLayer(job).cut
                             \/ \E p \in read : PageRecord(job, p).cut
        \/ g = "ocr_cut" /\ OcrText(job).cut
        \/ g = "canceled" /\ Canceled(job)}


DocumentState(job) ==
    LET has(s) == \E p \in ReadPages(job) : PageRecord(job, p).status = s IN
    IF ~has("text") /\ ~(\E p \in ReadPages(job) : OcrStatus(job, p) = "ocr_text")
    THEN IF has("image_only") THEN "image_only" ELSE "no_text"
    ELSE IF Gaps(job) # {} THEN "partial" ELSE "text_extracted"

(* A canceled job with nothing to keep ends as the canceling left it. *)
Status(job) ==
    IF job.opens # "ok" THEN "failed"
    ELSE IF Canceled(job) \/ job.late THEN "canceled"
    ELSE IF Gaps(job) # {} \/ (Candidates(job) # {} /\ ~job.engine) THEN "partial"
    ELSE "completed"

Parts(job) ==
    IF job.opens # "ok" THEN {}
    ELSE {part \in {"text_layer", "ocr_text"} :
             \/ part = "text_layer" /\ TextLayer(job).map # <<>>
             \/ part = "ocr_text" /\ OcrText(job).map # <<>>}

(* ------------------------------------------------------- properties --------- *)

(* "Completed" means that nothing of the document is missing from what is
   searched and cited: every page was read, every character of its text layer
   is in the text record, and each page that holds only an image was recognised
   with all its words in the OCR record. *)
CompletedIsWhole(job) ==
    Status(job) = "completed" =>
        \A p \in DOMAIN job.pages :
            LET page == job.pages[p]
                held(map, n) == \E k \in DOMAIN map : /\ map[k].page = p
                                                      /\ map[k].end - map[k].start = n
            IN  /\ page.reads # "raises"
                /\ page.chars > 0 => held(TextLayer(job).map, page.chars)
                /\ (page.images /\ page.chars < MinText) =>
                       /\ page.ocr # Failed
                       /\ page.ocr > 0 => held(OcrText(job).map, page.ocr)

(* A derived record stays within its limit, every character of a page's text is
   shown on that page, and no page that could be read is left out of a job that
   was neither canceled nor cut, whatever its neighbours in the batch do. *)
PagesAreCited(job) ==
    \A text \in {TextLayer(job), OcrText(job)} :
        /\ text.length <= MaxChars
        /\ \A k \in DOMAIN text.map :
               \A c \in text.map[k].start .. (text.map[k].end - 1) :
                   PageFor(text.map, c) = text.map[k].page
        /\ \A c \in 0 .. text.length : PageFor(text.map, c) # 0 =>
               PageFor(text.map, c) \in ReadPages(job)

NeighboursAreKept(job) ==
    \A p \in ReadPages(job) :
        PageRecord(job, p).status = "error" <=> job.pages[p].reads \in {"raises", "kills"}
================================================================================
