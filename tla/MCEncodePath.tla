---------------------------- MODULE MCEncodePath ----------------------------
(***************************************************************************)
(* Two goroutines: "w" derives loggers and logs one value of every kind     *)
(* after the other, and both log with CallInfo.                             *)
(***************************************************************************)
EXTENDS EncodePathProps

CONSTANTS b1, b2, s1, s2

A(key, val) == [key |-> key, val |-> val]
K1 == <<"k">>
K2 == <<"mobile">>

Err(how) == [t |-> "error", v |-> <<"e", "|">>, how |-> how]
Str_(how) == [t |-> "stringer", v |-> <<"s">>, how |-> how]
Obj(fails, members) == [t |-> "object", fails |-> fails, members |-> members]
Slice(elems) == [t |-> "slice", fails |-> FALSE, elems |-> elems]
Num(type, n) == [t |-> type, v |-> n]

(* Values that a With context treats in its own way.                        *)
MCContextValues ==
    << Text(<<"x", "|", "\n", "\\">>), Num("int8", -2),
       [t |-> "float64", v |-> "NaN"], [t |-> "reflect", ok |-> FALSE, v |-> <<"chan">>],
       Obj(FALSE, <<A(K2, Obj(TRUE, <<>>)), A(K1, Err("plain"))>>),
       Obj(TRUE, <<A(K1, Num("int64", 1))>>),
       Slice(<<Err("plain"), Err("nil"), Err("verbose")>>), Slice(<<>>),
       Slice(<<Obj(TRUE, <<A(K1, Num("int64", 1))>>), Num("int64", 0)>>),
       [t |-> "inline", fails |-> TRUE, members |-> <<A(K1, Num("int64", 1))>>],
       Err("verbose"), Err("panics") >>

MCOtherValues ==
    << Text(<<>>), Text(<<"\"", "<", "ctl", "badutf8">>),
       Num("int64", -4), Num("int64", 3), Num("uint8", 3), Num("duration", -3), Num("bool", 1),
       [t |-> "float64", v |-> "1.5"], [t |-> "reflect", ok |-> TRUE, v |-> <<"9">>],
       [t |-> "pointer", to |-> NoValue], Num("uint64", 7),
       [t |-> "complex", re |-> "2.5", im |-> "i"], [t |-> "namespace"],
       Obj(FALSE, <<A(K1, Num("int64", 1)), A(K2, Slice(<<>>)), A(K1, Text(<<"\n">>))>>),
       Slice(<<Num("uint8", 2), Text(<<"\"">>)>>),
       Err("nilptr"), Str_("plain"), Str_("panics") >>

MCValues == MCContextValues \o MCOtherValues

MCWithArgs == [i \in DOMAIN MCContextValues |-> A(K1, MCContextValues[i])]

(* Every value alone, and some of them behind or before another field.      *)
MCCallArgs ==
    [i \in DOMAIN MCValues |-> <<A(K1, MCValues[i])>>] \o
    << <<>>, <<A(K1, MCValues[1]), A(K1, Num("int64", 1))>>,
       <<A(K1, Err("nil")), A(K2, Num("int64", 1))>>,
       <<A(<<"service_id">>, Text(<<"y">>)), A(K1, MCValues[9])>> >>

MCWiths == [g \in {"w", "n"} |-> IF g = "w" THEN MCWithArgs ELSE <<>>]
MCCalls == [g \in {"w", "n"} |->
    IF g = "w" THEN MCCallArgs ELSE <<>>]
MCCtxCalls == [g \in {"w", "n"} |->
    IF g = "w" THEN << <<A(<<"trace_id">>, Text(<<"z">>)), A(K1, MCValues[1])>> >> ELSE <<>>]
MCInfos == [g \in {"w", "n"} |->
    {[url |-> <<"u", "|", g>>, useTime |-> IF g = "w" THEN 2 ELSE 3, msg |-> <<>>]}]

MCEntry == [level |-> <<"INFO">>, time |-> <<"T">>, name |-> <<>>, caller |-> <<"c">>,
            msg |-> <<"m", "\n">>, stack |-> <<>>]

MCKeys == [level |-> <<"level">>, time |-> <<"ts">>, name |-> <<"logger">>,
           caller |-> <<>>, msg |-> <<"msg">>, stack |-> <<"stacktrace">>]

MCKeyOrder ==
    << <<"Error">>, <<"error">>, <<"error", "Error">>, <<"error", "Verbose">>, K1, <<"k", "Error">>, <<"k", "Verbose">>,
       K2, <<"mobile", "Error">> >>

MCColumns ==
    << <<"date">>, <<"log_level">>, <<"service_id">>, <<"trace_id">>, <<"url">>, <<"useTime">>,
       K1, K2, <<"custom">>, <<"log_msg">> >>

MCPools == Permutations({b1, b2}) \cup Permutations({s1, s2})
MCRendered == <<"custom">> :> <<"r", "|">>
MCTraces == {<<>>, <<"t">>}
MCServiceID == <<>>
=============================================================================
