------------------------------ MODULE ChatExports ------------------------------
(* A WhatsApp export: the archive it comes in (imports/archives.py), the text
   file chosen from it (imports/whatsapp_job.py) and the messages parsed from the
   text (imports/whatsapp.py).

   An archive is a sequence of entries, a text a sequence of lines, a date what
   the phone's clock showed.  Sizes count in units; a name is a pair of the
   directory and the base name, case-folded names are equal numbers.        *)
EXTENDS Integers, Sequences, FiniteSets, SequencesExt

CONSTANTS
    MaxMembers, MaxMemberSize, MaxTotal, MaxRatio, RatioExempt,   \* import_archive_*
    MaxMessages,    \* whatsapp_max_messages
    Instants        \* the instants a chat is dated within

LeastOf(S) == CHOOSE x \in S : \A y \in S : x <= y
AtLeast(a, b) == IF a > b THEN a ELSE b
AtMost(a, b) == IF a < b THEN a ELSE b

(* ------------------------------------------------------------- archives ---- *)
(* An entry: what its header says (sort, name, file, declared and packed size)
   and what reading it gives: a size or Corrupt.                            *)
Corrupt == -1

\* The checks that need the headers only, in their order.
Objection(entry, seen) ==
    CASE entry.sort # "file" -> entry.sort   \* unsafe path, symbolic link, encrypted
      [] entry.sort = "file" /\ entry.name \in seen -> "duplicate_name"
      [] entry.sort = "file" /\ entry.name \notin seen /\ entry.declared > MaxMemberSize ->
            "member_too_large"
      [] entry.sort = "file" /\ entry.name \notin seen /\ entry.declared <= MaxMemberSize ->
            IF entry.declared > RatioExempt
               /\ entry.declared > MaxRatio * AtLeast(entry.packed, 1)
            THEN "expansion_ratio_exceeded" ELSE "none"

Nothing == [rejected |-> "none", accepted |-> <<>>, skipped |-> <<>>, total |-> 0]

Screen(entries) ==
    LET look(sofar, entry) ==
            LET why == Objection(entry, {sofar.accepted[k].name : k \in DOMAIN sofar.accepted})
                total == sofar.total + entry.declared
            IN  IF sofar.rejected # "none" \/ entry.sort = "directory" THEN sofar
                ELSE IF why # "none" THEN [sofar EXCEPT !.skipped = Append(@, entry)]
                ELSE IF total > MaxTotal THEN [sofar EXCEPT !.rejected = "archive_too_large"]
                ELSE [sofar EXCEPT !.accepted = Append(@, entry), !.total = total]
    IN  IF Len(entries) > MaxMembers THEN [Nothing EXCEPT !.rejected = "too_many_members"]
        ELSE FoldLeft(look, Nothing, entries)

\* _read_member: reading stops as soon as an entry is longer than its header says.
Readable(entry) == entry.actual # Corrupt /\ entry.actual <= AtMost(entry.declared, MaxMemberSize)

Stored(entries) == SelectSeq(Screen(entries).accepted, Readable)
Skipped(entries) ==
    Screen(entries).skipped \o SelectSeq(Screen(entries).accepted, LAMBDA e : ~Readable(e))

(* choose_chat_text: the file named like an iOS export, else like an Android one,
   else the only text; more than one at the first of these is never guessed. *)
ChatText(entries) ==
    LET accepted == Screen(entries).accepted
        named(S) == {k \in DOMAIN accepted : accepted[k].file \in S}
        rules == << {"_chat.txt"}, {"whatsapp chat.txt"},
                    {"_chat.txt", "whatsapp chat.txt", "other.txt"} >>
        deciding == {r \in DOMAIN rules : named(rules[r]) # {}}
    IN  IF deciding = {} THEN {} ELSE {accepted[k] : k \in named(rules[LeastOf(deciding)])}

\* An archive whose text cannot be chosen or read is not processed further.
Usable(entries) ==
    /\ Screen(entries).rejected = "none"
    /\ Cardinality(ChatText(entries)) = 1
    /\ \A entry \in ChatText(entries) : Readable(entry)

(* ------------------------------------------------------------- messages ---- *)
(* A line: the date it starts with or <<>>, whether it is blank, whether the
   message it starts has a sender's label, and the file it refers to: a base
   name, Omitted or NoFile, with WhatsApp's own marker or only by its name.  *)
Omitted == "omitted"
NoFile == "none"

IsHeader(line) == line.date # <<>>

(* Where parsing stops: at the header after the last message that is kept. *)
Headers(lines) == {i \in DOMAIN lines : IsHeader(lines[i])}
Rank(lines, i) == Cardinality({j \in Headers(lines) : j <= i})
Beyond(lines) == {i \in Headers(lines) : Rank(lines, i) > MaxMessages}
Stop(lines) == IF Beyond(lines) = {} THEN Len(lines) + 1 ELSE LeastOf(Beyond(lines))

\* The messages, by their first line: all lines up to the next header are theirs.
Kept(lines) == {i \in Headers(lines) : i < Stop(lines)}
LinesOf(lines, i) ==
    i .. (LeastOf({j \in Headers(lines) : j > i} \cup {Len(lines) + 1}) - 1)

Preamble(lines) ==
    {i \in DOMAIN lines : ~lines[i].blank /\ \A j \in Headers(lines) : i < j}

(* The files that messages refer to, not notices; a name without the marker counts
   when the archive has a file of that name. *)
References(lines, names) ==
    {lines[j].file : j \in {k \in DOMAIN lines : \E i \in Kept(lines) :
        /\ lines[i].label /\ k \in LinesOf(lines, i)
        /\ lines[k].marked \/ lines[k].file \in names}} \ {NoFile, Omitted}

(* ------------------------------------------------------------ date order ---- *)
(* Dates are the numbers as written: <<day, month>> or <<month, day>>, then the
   two digits of the year, or <<year, month, day>>.  A number above 12 is no
   month.                                                                    *)
Year == 21

Unknown == "unknown"
HeaderDates(lines) == {lines[i].date : i \in Kept(lines)}

\* Mutant: dates that prove nothing are taken to start with the day.
DecideByMajority(dates, requested) ==
    IF requested # "auto" THEN requested
    ELSE IF \A d \in dates : Len(d) = 3 THEN "year_first"
    ELSE IF \E d \in dates : d[2] > 12 THEN "month_first"
    ELSE "day_first"

DecideDateOrder(dates, requested) ==
    LET dayProof == \E d \in dates : d[1] > 12
        monthProof == \E d \in dates : d[2] > 12
    IN  IF requested # "auto" THEN requested
        ELSE IF \A d \in dates : Len(d) = 3 THEN "year_first"
        ELSE IF dayProof /\ monthProof THEN Unknown      \* inconsistent
        ELSE IF dayProof THEN "day_first"
        ELSE IF monthProof THEN "month_first"
        ELSE Unknown                                     \* ambiguous


(* _local_datetime: the day meant, when there is such a day; a short date that is
   read with the year first has the digits of its year as the day. *)
Invalid == [month |-> 0, day |-> 0]
LocalDate(d, order) ==
    LET parts == CASE order = "day_first" -> [month |-> d[2], day |-> d[1]]
                   [] order = "month_first" -> [month |-> d[1], day |-> d[2]]
                   [] order = "year_first" -> IF Len(d) = 3 THEN [month |-> d[2], day |-> d[3]]
                                              ELSE [month |-> d[2], day |-> Year]
    IN  IF parts.month \in 1 .. 12 /\ parts.day \in 1 .. 31 THEN parts ELSE Invalid

Written(day, order) ==
    CASE order = "day_first" -> <<day.day, day.month>>
      [] order = "month_first" -> <<day.month, day.day>>
      [] order = "year_first" -> <<2021, day.month, day.day>>

(* --------------------------------------------------------------- instants ---- *)
(* A zone that changes its clock at an instant, by these offsets.             *)

Clock(zone, u) == u + (IF u < zone.change THEN zone.before ELSE zone.after)

\* zoneinfo: of a time the change skips or repeats, fold 0 is the reading with
\* the offset before the change and fold 1 the one after it.
Folded(zone, local) ==
    LET first == zone.change + (IF zone.before < zone.after THEN zone.before ELSE zone.after)
        last == zone.change + (IF zone.before < zone.after THEN zone.after ELSE zone.before)
    IN  IF local < first THEN <<zone.before, zone.before>>
        ELSE IF local >= last THEN <<zone.after, zone.after>>
        ELSE <<zone.before, zone.after>>

ToUtc(zone, local) ==
    LET offset == Folded(zone, local)
        exists(fold) == Clock(zone, local - offset[fold]) = local
    IN  IF ~exists(1) /\ ~exists(2) THEN "nonexistent_local_time"
        ELSE IF offset[1] # offset[2] THEN "ambiguous_local_time"
        ELSE local - offset[1]


(* ------------------------------------------------------------- the job ------ *)
(* An import: entries (<<>> for a plain text), lines and the requested order.  *)

Names(job) == {Screen(job.entries).accepted[k].file : k \in DOMAIN Screen(job.entries).accepted}
StoredFiles(job) == {Stored(job.entries)[k].file : k \in DOMAIN Stored(job.entries)}
Missing(job) == References(job.lines, Names(job)) \ StoredFiles(job)

Gaps(job) ==
    LET order == DecideDateOrder(HeaderDates(job.lines), job.order) IN
    {g \in {"missing", "skipped", "invalid", "truncated"} :
        \/ g = "missing" /\ Missing(job) # {}
        \/ g = "skipped" /\ Skipped(job.entries) # <<>>
        \/ g = "invalid" /\ \E d \in HeaderDates(job.lines) : LocalDate(d, order) = Invalid
        \/ g = "truncated" /\ Beyond(job.lines) # {}}

Status(job) ==
    IF job.entries # <<>> /\ ~Usable(job.entries) THEN "failed"
    ELSE IF Headers(job.lines) = {} THEN "failed"
    ELSE IF DecideDateOrder(HeaderDates(job.lines), job.order) = Unknown THEN "needs_input"
    ELSE IF Gaps(job) # {} THEN "partial" ELSE "completed"

(* ------------------------------------------------------------ properties ---- *)

(* Messages are the text: what follows the preamble belongs to exactly one
   message, up to the line where parsing stopped, and each message starts at
   its own header. *)
MessagesAreWhole(lines) ==
    /\ \A j \in DOMAIN lines : j < Stop(lines) =>
           \/ j \in Preamble(lines) \/ \A i \in Headers(lines) : j < i
           \/ Cardinality({i \in Kept(lines) : j \in LinesOf(lines, i)}) = 1
    /\ \A i \in Kept(lines) : LinesOf(lines, i) \cap Headers(lines) = {i}
    /\ \A i \in Kept(lines) : \A j \in LinesOf(lines, i) : j < Stop(lines)
    /\ Cardinality(Kept(lines)) <= MaxMessages

(* The date order is never guessed: of the dates a phone wrote in its own order,
   the order found is that order, and each message is dated the day it was
   sent. *)
DatesAreTrue(days, order) ==
    LET found == DecideDateOrder({Written(d, order) : d \in days}, "auto") IN
    found # Unknown => \A d \in days : LocalDate(Written(d, order), found) = d

(* The time zone is never guessed: a message is placed at an instant exactly when
   that is the only instant at which a clock of the zone showed its time. *)
InstantsAreTrue(zone, local) ==
    LET possible == {u \in Instants : Clock(zone, u) = local} IN
    /\ possible = {} => ToUtc(zone, local) = "nonexistent_local_time"
    /\ Cardinality(possible) > 1 => ToUtc(zone, local) = "ambiguous_local_time"
    /\ Cardinality(possible) = 1 => ToUtc(zone, local) \in possible

(* An archive is read within its limits whatever its headers claim, and every
   file of it is either stored or listed as skipped. *)
ArchiveIsBounded(entries) ==
    LET stored == Stored(entries)
        size(S) == FoldLeft(LAMBDA n, e : n + e.actual, 0, S)
    IN  Screen(entries).rejected = "none" =>
            /\ size(stored) <= MaxTotal
            /\ \A k, l \in DOMAIN stored : stored[k].name = stored[l].name => k = l
            /\ Len(stored) + Len(Skipped(entries))
                   = Len(SelectSeq(entries, LAMBDA e : e.sort # "directory"))

(* "Completed" means that nothing is missing: every file of the archive and every
   file a message refers to is stored, every line from the first message on is
   in a message, and every message has its date. *)
CompletedIsWhole(job) ==
    Status(job) = "completed" =>
        /\ \A k \in DOMAIN job.entries : job.entries[k].sort = "directory" \/
               \E l \in DOMAIN Stored(job.entries) : Stored(job.entries)[l] = job.entries[k]
        /\ References(job.lines, Names(job)) \subseteq StoredFiles(job)
        /\ Headers(job.lines) = Kept(job.lines)
        /\ \A i \in Kept(job.lines) : LocalDate(job.lines[i].date,
               DecideDateOrder(HeaderDates(job.lines), job.order)) # Invalid
================================================================================
