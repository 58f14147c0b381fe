------------------------------- MODULE Naming -------------------------------
(***************************************************************************)
(* File names (src/writer/naming.go, src/writer/config.go): how Namer       *)
(* renders a name from a pattern, and how parseFileName reads one back when *)
(* the writer resumes a file or the Cleaner lists the directory.            *)
(*                                                                         *)
(* A name is the sequence of its segments, the parts between dots; a        *)
(* pattern is a sequence of placeholders and literal segments.  A naming is *)
(* a record of the fields of Config that matter here; its field date gives  *)
(* the segments DateLayout renders a day to.                               *)
(***************************************************************************)
EXTENDS Integers, SequencesExt

DefaultNamePattern == <<"{base}", "{date}", "{service}", "log">>
DefaultRotatedNamePattern == <<"{base}", "{date}", "{service}", "{seq}", "log">>

OrDefault(pattern, default) == IF pattern = <<>> THEN default ELSE pattern

\* The {service} placeholder: the port follows the name even when it is 0.
Service(nm) ==
    IF nm.app = "" /\ nm.port = 0 THEN "" ELSE nm.app \o ToString(nm.port)

SeqName(q) == IF q < 10 THEN "0" \o ToString(q) ELSE ToString(q)

\* Placeholders that render to nothing leave no segment behind.
CleanupName(segments) ==
    LET kept == SelectSeq(segments, LAMBDA s : s # "")
    IN  IF kept = <<>> THEN <<"sllogger", "log">> ELSE kept

Render(nm, pattern, day, q) ==
    CleanupName(FlattenSeq([i \in DOMAIN pattern |->
        CASE pattern[i] = "{base}"    -> nm.base
          [] pattern[i] = "{date}"    -> nm.date[day]
          [] pattern[i] = "{service}" -> <<Service(nm)>>
          [] pattern[i] = "{app}"     -> <<nm.app>>
          [] pattern[i] = "{seq}"     -> <<SeqName(q)>>
          [] OTHER                    -> <<pattern[i]>>]))

FileName(nm, day, q) ==
    IF q <= 0 THEN Render(nm, OrDefault(nm.pattern, DefaultNamePattern), day, 0)
              ELSE Render(nm, OrDefault(nm.rotated, DefaultRotatedNamePattern), day, q)

\* NewRollingWriter, baseSeq: the first file of a day has number 1 where its
\* pattern shows one.
BaseSeqOf(nm) ==
    IF Contains(OrDefault(nm.pattern, DefaultNamePattern), "{seq}") THEN 1 ELSE 0
-----------------------------------------------------------------------------
Unread == [ok |-> FALSE]
NumbersRead == 1 .. 20   \* bound: the numbers trailingNumeric is asked about

\* The number at the end of a tail, 0 if there is none, and what is before it.
\* A number is positive: "00" is no sequence number.
TrailingNumeric(tail) ==
    LET numbers == {q \in NumbersRead :
                       tail # <<>> /\ Last(tail) \in {ToString(q), SeqName(q)}}
    IN  IF numbers = {} THEN [seq |-> 0, tail |-> tail]
        ELSE [seq |-> CHOOSE q \in numbers : TRUE, tail |-> Front(tail)]

\* The shortest run of segments that DateLayout parses is the date.
DateEnds(nm, middle) ==
    {k \in 1 .. Len(middle) : \E t \in DOMAIN nm.date : nm.date[t] = SubSeq(middle, 1, k)}

\* A mutant: a number before the service is not looked for.
ParseRestNumberLast(nm, tail) ==
    LET last == TrailingNumeric(tail)
        named == last.tail # <<>> /\ Last(last.tail) \in {Service(nm), nm.app}
    IN  CASE Service(nm) = "" /\ nm.app = "" -> last
          [] named -> [seq |-> last.seq, tail |-> Front(last.tail)]
          [] OTHER -> [seq |-> 0, tail |-> <<"unread">>]

\* Once the number is off the end, the service or the app must be there if
\* the writer has one, and another number may come before it.
ParseRest(nm, tail) ==
    LET last == TrailingNumeric(tail)
        named == last.tail # <<>> /\ Last(last.tail) \in {Service(nm), nm.app}
        before == TrailingNumeric(Front(last.tail))
    IN  CASE Service(nm) = "" /\ nm.app = "" -> last
          [] (Service(nm) # "" \/ nm.app # "") /\ named ->
               [seq |-> IF before.seq > 0 THEN before.seq ELSE last.seq,
                tail |-> before.tail]
          [] OTHER -> [seq |-> 0, tail |-> <<"unread">>]

ParseFileName(nm, name) ==
    LET b == Len(nm.base)
        managed == /\ Len(name) > b + 1
                   /\ SubSeq(name, 1, b) = nm.base /\ Last(name) = "log"
        middle == SubSeq(name, b + 1, Len(name) - 1)
        ends == DateEnds(nm, middle)
        k == CHOOSE e \in ends : \A f \in ends : e <= f
        read == ParseRest(nm, SubSeq(middle, k + 1, Len(middle)))
    IN  IF ~managed \/ ends = {} THEN Unread
        ELSE IF read.tail # <<>> THEN Unread
        ELSE [ok |-> TRUE, seq |-> read.seq,
              date |-> CHOOSE t \in DOMAIN nm.date : nm.date[t] = SubSeq(middle, 1, k)]
-----------------------------------------------------------------------------
(* How long a stamp of DateLayout lasts; a layout is its characters.        *)
Second == 1
Minute == 60
Hour == 3600
Day == 24 * Hour

HasToken(layout, tokens) ==
    \E tk \in tokens : \E i \in 1 .. Len(layout) - Len(tk) + 1 :
        SubSeq(layout, i, i + Len(tk) - 1) = tk

\* Two digits first: "15" is an hour although it contains a "5".
LayoutGranularity(layout) ==
    LET first(tests) == tests[CHOOSE i \in DOMAIN tests :
            HasToken(layout, tests[i][1]) /\ \A j \in 1 .. i - 1 : ~HasToken(layout, tests[j][1])][2]
    IN  first(<< << {<<"0", "5">>}, Second >>, << {<<"0", "4">>}, Minute >>,
                 << {<<"1", "5">>, <<"0", "3">>, <<"P", "M">>, <<"p", "m">>}, Hour >>,
                 << {<<"5">>}, Second >>, << {<<"4">>}, Minute >>, << {<<"3">>}, Hour >>,
                 << {<<>>}, Day >> >>)
=============================================================================
