----------------------------- MODULE MCCleaner -----------------------------
(* Small instances of Cleaner for TLC.                                      *)
EXTENDS CleanerProps, SequencesExt

(* Call "a" writes two lines of 2 bytes, "b" one of 1, "c" one of 3.        *)
Lines == [a |-> <<2, 2>>, b |-> <<1>>, c |-> <<3>>]

LineData(c) == [i \in 1 .. FoldSeq(LAMBDA x, y : x + y, 0, Lines[c]) |-> <<c, i>>]
CallData == [c \in Calls |-> LineData(c)]

EndsOf(c) == {FoldSeq(LAMBDA x, y : x + y, 0, SubSeq(Lines[c], 1, k)) : k \in 1 .. Len(Lines[c])}
LineBreaks == UNION {{<<c, i>> : i \in EndsOf(c)} : c \in Calls}
=============================================================================
