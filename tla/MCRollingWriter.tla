-------------------------- MODULE MCRollingWriter --------------------------
(* Small instances of RollingWriter for TLC.                                *)
EXTENDS RollingNames

(* Call "a" writes two lines of 2 bytes, "b" a line of 1 byte and one of 4, *)
(* "d" a line of 4 bytes and one of 1, "e" a line of 2.                     *)
Lines == [a |-> <<2, 2>>, b |-> <<1, 4>>, d |-> <<4, 1>>, e |-> <<2>>]

LineData(c) == [i \in 1 .. FoldSeq(LAMBDA x, y : x + y, 0, Lines[c]) |-> <<c, i>>]
CallData == [c \in Calls |-> LineData(c)]

EndsOf(c) == {FoldSeq(LAMBDA x, y : x + y, 0, SubSeq(Lines[c], 1, k)) : k \in 1 .. Len(Lines[c])}
LineBreaks == UNION {{<<c, i>> : i \in EndsOf(c)} : c \in Calls}

(* The default patterns; {seq} before {app} in an hourly layout with a dot  *)
(* in it; all digits; no service; and a service that is a number.           *)
Daily == [t \in Midnights |-> <<IF t = 0 THEN "2026-09-03" ELSE "2026-09-04">>]
Hourly == [t \in Midnights |-> <<"2026-09-03", IF t = 0 THEN "10" ELSE "11">>]
Digits == [t \in Midnights |-> <<IF t = 0 THEN "10" ELSE "11">>]
Numbered == <<"{base}", "{date}", "{seq}", "{app}", "log">>
NamingOf(base, app, port, pattern, rotated, date) ==
    [base |-> base, app |-> app, port |-> port, pattern |-> pattern,
     rotated |-> rotated, date |-> date]
MCNamings == {
    NamingOf(<<"CALL">>, "playurl", 8080, <<>>, <<>>, Daily),
    NamingOf(<<"CALL", "v2">>, "playurl", 0, Numbered, Numbered, Hourly),
    NamingOf(<<"CALL">>, "playurl", 0, <<>>, <<>>, Digits),
    NamingOf(<<"CALL">>, "", 0, <<>>, <<>>, Hourly),
    NamingOf(<<"CALL">>, "", 8, <<>>, <<>>, Daily) }

MCLayouts == {
    << <<"0", "2">>, Day>>, << <<"0", "2", "1", "5">>, Hour>>,
    << <<"3", "P", "M">>, Hour>>, << <<"1", "5", "0", "4", "0", "5">>, Second>>,
    << <<"3", "4">>, Minute>> }
=============================================================================
