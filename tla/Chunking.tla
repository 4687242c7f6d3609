-------------------------------- MODULE Chunking --------------------------------
(* How stored evidence is cut into the chunks that are searched and quoted
   (services/api/app/ai/chunking.py), and how a quoted passage is found again in
   the text (services/api/app/ai/text.py).

   A text is a sequence of characters: letters, marks, white space and full
   stops.  Letters fold to one or more letters, marks to nothing.  A JSON document is the sequence of its
   leaves, each with the length of its label and of its value.              *)
EXTENDS Integers, Sequences, SequencesExt

CONSTANTS
    Folded,         \* what each letter folds to, without case and accent: a sequence
    Target,         \* the length a chunk aims at
    Overlap,        \* what a chunk repeats of the one before
    MaxChunks,      \* indexing limit: chunks of one record
    TooMany,        \* the record would need more
    ShortestQuote   \* folded characters a quote needs to be accepted (4)

Space == "space"
LineEnd == "line end"
Stop == "stop"
Mark == "mark"
IsSpace(c) == c \in {Space, LineEnd}

NotFound == [start |-> 0, end |-> 0]

Largest(S) == CHOOSE x \in S : \A y \in S : y <= x
Least(S) == CHOOSE x \in S : \A y \in S : x <= y
Longer(a, b) == IF a < b THEN b ELSE a

(* ------------------------------------------------------------ plain text ---- *)
(* Offsets count from 0 as the source's do: a piece is text[start..end-1].      *)

Char(text, i) == text[i + 1]

(* The natural breaks, the preferred first: a blank line, a line, a sentence, a word. *)
Breaks == << <<LineEnd, LineEnd>>, <<LineEnd>>, <<Stop, Space>>, <<Space>> >>

BreakEnds(text, from, to, separator) ==
    {i + Len(separator) : i \in {j \in from .. (to - Len(separator)) :
        \A k \in 1 .. Len(separator) : Char(text, j + k - 1) = separator[k]}}

Boundary(text, from, to) ==
    LET floor == from + (to - from) \div 2
        usable == {b \in DOMAIN Breaks : BreakEnds(text, floor, to, Breaks[b]) # {}}
    IN  IF usable = {} THEN to
        ELSE Largest(BreakEnds(text, floor, to, Breaks[Least(usable)]))

(* Where the piece that starts at "from" ends, what the chunk keeps of it, and
   where the next piece starts: within the overlap, never inside a word. *)
PieceEnd(text, from) ==
    IF from + Target >= Len(text) THEN Len(text) ELSE Boundary(text, from, from + Target)

Kept(text, from, to) ==
    LET visible == {i \in from .. (to - 1) : ~IsSpace(Char(text, i))} IN
    IF visible = {} THEN <<>>
    ELSE << [start |-> Least(visible), end |-> Largest(visible) + 1] >>

NextStart(text, from, to) ==
    Least({i \in Longer(to - Overlap, from + 1) .. to :
              i = to \/ IsSpace(Char(text, i - 1))})


TextChunks(text) ==
    LET from[start \in 0 .. Len(text)] ==
            IF start >= Len(text) THEN <<>>
            ELSE LET to == PieceEnd(text, start) IN
                 Kept(text, start, to)
                     \o (IF to >= Len(text) THEN <<>>
                         ELSE from[NextStart(text, start, to)])
    IN  IF Len(from[0]) > MaxChunks THEN TooMany ELSE from[0]

(* ------------------------------------------------------------------ JSON ---- *)

(* The lines a leaf is written on: a label and up to Target characters of its
   value; a long value takes several. *)
Lines(leaf) ==
    LET pieces == IF leaf.value = 0 THEN 1 ELSE (leaf.value + Target - 1) \div Target IN
    [k \in 1 .. pieces |->
        [pointer |-> leaf.pointer,
         size |-> leaf.label + 1 +
                  (IF k < pieces THEN Target ELSE leaf.value - (pieces - 1) * Target)]]

(* A line joins the chunk in hand unless it would make it longer than Target. *)
JsonChunks(leaves) ==
    LET add(chunks, line) ==
            LET size == IF chunks = <<>> THEN 0 ELSE Last(chunks).size
                full == size > 0 /\ size + line.size > Target
                start == IF full THEN 0 ELSE size
                located == [size |-> start + line.size,
                            locations |-> << [pointer |-> line.pointer, start |-> start,
                                              end |-> start + line.size - 1] >>]
            IN  IF chunks = <<>> \/ full THEN Append(chunks, located)
                ELSE Append(Front(chunks),
                            [located EXCEPT !.locations = Last(chunks).locations \o @])
        lines == FlattenSeq([k \in DOMAIN leaves |-> Lines(leaves[k])])
        chunks == FoldLeft(add, <<>>, lines)
    IN  IF Len(chunks) > MaxChunks THEN TooMany ELSE chunks

(* pointer_at: the first location that holds the offset. *)
PointerAt(locations, offset) ==
    LET hits == {k \in DOMAIN locations :
                    locations[k].start <= offset /\ offset <= locations[k].end}
    IN  IF hits = {} THEN <<>> ELSE << locations[Least(hits)].pointer >>

(* ---------------------------------------------------------------- quotes ---- *)

Fold(c) ==
    IF c = Mark THEN <<>> ELSE IF c \in DOMAIN Folded THEN Folded[c] ELSE <<c>>

(* The folded text with the place each of its characters comes from: runs of
   white space become one space, none at the start, and marks disappear. *)
Normalized(text) ==
    LET add(sofar, i) ==
            LET c == Char(text, i) IN
            IF IsSpace(c)
            THEN IF sofar.space THEN sofar
                 ELSE [chars |-> Append(sofar.chars, Space), at |-> Append(sofar.at, i),
                       space |-> TRUE]
            ELSE IF c = Mark THEN sofar
            ELSE [chars |-> sofar.chars \o Fold(c), at |-> sofar.at \o [k \in DOMAIN Fold(c) |-> i],
                  space |-> FALSE]
    IN  FoldLeft(add, [chars |-> <<>>, at |-> <<>>, space |-> TRUE],
                 [k \in 1 .. Len(text) |-> k - 1])

Needle(quote) ==
    LET folded == Normalized(quote).chars IN
    IF folded # <<>> /\ Last(folded) = Space THEN Front(folded) ELSE folded

(* locate_quote: the first place where the folded quote occurs, in the text's own
   offsets; quotes too short to be evidence are not looked for. *)
Locate(text, quote) ==
    LET needle == Needle(quote)
        folded == Normalized(text)
        places == {i \in 1 .. (Len(folded.chars) - Len(needle) + 1) :
                      SubSeq(folded.chars, i, i + Len(needle) - 1) = needle}
    IN  IF Len(needle) < ShortestQuote \/ places = {} THEN NotFound
        ELSE [start |-> folded.at[Least(places)],
              end |-> folded.at[Least(places) + Len(needle) - 1] + 1]


(* ------------------------------------------------------------ properties ---- *)

(* What is indexed is the text: every visible character lies in a chunk, no chunk
   is longer than Target, and the chunks advance, so that indexing ends. *)
NothingIsLost(text) ==
    LET chunks == TextChunks(text) IN
    chunks # TooMany =>
        /\ \A i \in 0 .. (Len(text) - 1) : IsSpace(Char(text, i)) \/
               \E k \in DOMAIN chunks : chunks[k].start <= i /\ i < chunks[k].end
        /\ \A k \in DOMAIN chunks : chunks[k].end - chunks[k].start <= Target
        /\ \A k \in 1 .. (Len(chunks) - 1) :
               chunks[k].start < chunks[k + 1].start /\ chunks[k].end <= chunks[k + 1].end

(* A passage of indexed JSON leads back to the leaf it came from: each offset of
   a chunk belongs to exactly one line, and the lines of a leaf hold its value. *)
PlacesLeadBack(leaves) ==
    LET chunks == JsonChunks(leaves) IN
    chunks # TooMany =>
        /\ \A k \in DOMAIN chunks : \A offset \in 0 .. (chunks[k].size - 1) :
               \E l \in DOMAIN chunks[k].locations :
                   /\ chunks[k].locations[l].start <= offset
                   /\ offset <= chunks[k].locations[l].end
                   /\ PointerAt(chunks[k].locations, offset)
                          = << chunks[k].locations[l].pointer >>
        /\ FoldSeq(LAMBDA chunk, n : n + chunk.size, 0, chunks)
               = FoldSeq(LAMBDA leaf, n : n + FoldSeq(LAMBDA line, m : m + line.size, 0,
                                                      Lines(leaf)), 0, leaves)

(* A citation shows the reader the words that were quoted: the passage located
   holds the folded quote, nothing shorter does, and a quote copied from the text
   is located. *)
Holds(text, quote) ==
    LET folded == Needle(text)  needle == Needle(quote) IN
    \E i \in 1 .. (Len(folded) - Len(needle) + 1) :
        SubSeq(folded, i, i + Len(needle) - 1) = needle

QuotesAreShown(text, quote) ==
    LET place == Locate(text, quote)
        passage(from, to) == SubSeq(text, from + 1, to)
    IN  /\ place # NotFound =>
               /\ Holds(passage(place.start, place.end), quote)
               /\ ~Holds(passage(place.start + 1, place.end), quote)
               /\ ~Holds(passage(place.start, place.end - 1), quote)
        /\ Len(Needle(quote)) >= ShortestQuote =>
               ((\E i, j \in 1 .. Len(text) : i <= j /\ SubSeq(text, i, j) = quote)
                    => place # NotFound)
================================================================================
