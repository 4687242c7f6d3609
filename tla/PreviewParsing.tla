------------------------------ MODULE PreviewParsing ----------------------------
(* The reader of Telegram preview pages, a parser of a stream of tags that keeps
   a stack of open elements and captures text while certain elements are open
   (services/api/app/connectors/telegram.py, _PreviewParser).

   A token opens an element of a class, closes one of a tag, or is data.  The
   elements that matter are messages, their text, a quoted reply inside them and
   the name of whom a message was forwarded from.                            *)
EXTENDS Integers, Sequences, SequencesExt

CONSTANT None       \* no message, no reply

Start == [tags |-> <<>>, message |-> None, depth |-> 0, reply |-> None,
          captures |-> {}, fields |-> [text |-> None, from |-> None], messages |-> <<>>]

\* _capture: a field is captured once at a time, from the depth it starts at.
Capture(s, field) ==
    IF \E c \in s.captures : c.field = field THEN s
    ELSE [s EXCEPT !.captures = @ \cup {[field |-> field, depth |-> Len(s.tags), parts |-> <<>>]}]

\* _store: what was captured becomes a field of the message that is open.
Store(s, closed) ==
    LET fields == [f \in DOMAIN s.fields |->
                      IF \E c \in closed : c.field = f
                      THEN (CHOOSE c \in closed : c.field = f).parts ELSE s.fields[f]]
    IN  [s EXCEPT !.captures = @ \ closed,
                  !.fields = IF s.message = None THEN @ ELSE fields]

CloseMessage(s) ==
    IF s.message = None THEN s
    ELSE LET stored == Store(s, {c \in s.captures : c.depth > s.depth}) IN
         [stored EXCEPT !.messages = Append(@, [id |-> s.message, text |-> stored.fields.text,
                                                from |-> stored.fields.from]),
                        !.message = None, !.reply = None,
                        !.fields = [text |-> None, from |-> None]]

\* _close_to: everything that was opened at this depth or below it ends.
CloseTo(s, depth) ==
    LET stored == Store(s, {c \in s.captures : c.depth >= depth})
        unquoted == IF stored.reply # None /\ stored.reply >= depth
                    THEN [stored EXCEPT !.reply = None] ELSE stored
    IN  IF unquoted.message # None /\ unquoted.depth >= depth
        THEN CloseMessage(unquoted) ELSE unquoted

\* Mutant: the text of a quoted message is taken for the message's own.
OwnTextOrQuoted(s) == s.fields.text = None

\* The first text of a message that is not in a quotation is its own.
OwnText(s) == s.reply = None /\ s.fields.text = None

\* handle_starttag, by the class of the element.
Open(s, token) ==
    LET opened ==
            CASE token.class = "message" ->
                    [CloseMessage(s) EXCEPT !.message = token.id, !.depth = Len(s.tags)]
              [] s.message = None -> s
              [] token.class = "reply" ->
                    IF s.reply = None THEN [s EXCEPT !.reply = Len(s.tags)] ELSE s
              [] token.class = "text" ->
                    IF OwnText(s) THEN Capture(s, "text") ELSE s
              [] token.class = "from" -> Capture(s, "from")
              [] OTHER -> s
    IN  [opened EXCEPT !.tags = Append(@, token.tag)]

\* handle_endtag: an end that nothing open matches is ignored; one that matches
\* an element further out ends those inside it too.
Close(s, token) ==
    LET matching == {i \in DOMAIN s.tags : s.tags[i] = token.tag} IN
    IF matching = {} THEN s
    ELSE LET last == CHOOSE i \in matching : \A j \in matching : j <= i
             pop(t, i) == LET depth == Len(t.tags) - 1 IN
                          CloseTo([t EXCEPT !.tags = SubSeq(@, 1, depth)], depth)
         IN  FoldLeft(pop, s, [i \in 1 .. Len(s.tags) - last + 1 |-> i])

\* handle_data: every capture that is open takes the text.
Data(s, token) ==
    [s EXCEPT !.captures = {[c EXCEPT !.parts = Append(@, token.id)] : c \in @}]

Parse(tokens) ==
    LET read(s, token) ==
            CASE token.kind = "open" -> Open(s, token)
              [] token.kind = "close" -> Close(s, token)
              [] OTHER -> Data(s, token)
    IN  CloseMessage(FoldLeft(read, Start, tokens)).messages

(* ----------------------------------------------------------- properties ---- *)

\* The data of a page whose elements are nested, each with the classes and the
\* message it is inside of.
DataOf(tokens) ==
    LET classes(open) == {open[k].class : k \in DOMAIN open}
        message(open) == IF "message" \notin classes(open) THEN None
                         ELSE SelectSeq(open, LAMBDA o : o.class = "message")[1].id
        step(s, token) ==
            CASE token.kind = "open" -> [s EXCEPT !.open = Append(@, token)]
              [] token.kind = "close" -> [s EXCEPT !.open = Front(@)]
              [] OTHER -> [s EXCEPT !.data = Append(@, [id |-> token.id, within |-> classes(s.open),
                                                        message |-> message(s.open)])]
    IN  FoldLeft(step, [open |-> <<>>, data |-> <<>>], tokens).data

(* A page whose elements are nested: the messages are those of the page in their
   order, each with the text of its own text element and never with that of the
   message it replies to or of another message. *)
TextsAreTheirOwn(tokens) ==
    LET read == Parse(tokens)
        data == DataOf(tokens)
        own(id) == SelectSeq(data, LAMBDA d :
                       d.message = id /\ "text" \in d.within /\ "reply" \notin d.within)
        messages == SelectSeq(tokens, LAMBDA t : t.kind = "open" /\ t.class = "message")
    IN  /\ [i \in DOMAIN read |-> read[i].id] = [i \in DOMAIN messages |-> messages[i].id]
        /\ \A i \in DOMAIN read :
               LET texts == own(read[i].id) IN
               IF texts = <<>> THEN read[i].text \in {None, <<>>}
               ELSE read[i].text = [k \in DOMAIN texts |-> texts[k].id]
================================================================================
