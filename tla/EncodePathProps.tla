--------------------------- MODULE EncodePathProps ---------------------------
(***************************************************************************)
(* What a reader of the two outputs finds.  The readers and the meaning of  *)
(* a call are written down here without looking at the encoders: a JSON     *)
(* parser, a splitter of rows, and the value each argument stands for.      *)
(***************************************************************************)
EXTENDS EncodePath

Bad == [ok |-> FALSE]
Found(val, next) == [ok |-> TRUE, val |-> val, next |-> next]

Unescape == [c \in {"\"", "\\", "n", "r", "|", "u003c", "u003e", "u001b", "ufffd"} |->
    CASE c = "n" -> "\n" [] c = "r" -> "\r" [] c = "u003c" -> "<" [] c = "u003e" -> ">"
      [] c = "u001b" -> "ctl" [] OTHER -> c]

(* A JSON string from its first character on; raw control characters and    *)
(* bytes that are not UTF-8 are not allowed in it.                          *)
RECURSIVE ReadString(_, _, _)
ReadString(s, i, read) ==
    CASE i > Len(s) -> Bad
      [] i <= Len(s) /\ s[i] = "\"" -> Found([t |-> "s", v |-> read], i + 1)
      [] i < Len(s) /\ s[i] = "\\" ->
            IF s[i + 1] \in DOMAIN Unescape
            THEN ReadString(s, i + 2, Append(read, Unescape[s[i + 1]])) ELSE Bad
      [] i <= Len(s) /\ s[i] \in {"\n", "\r", "ctl", "badutf8"} -> Bad
      [] OTHER -> ReadString(s, i + 1, Append(read, s[i]))

(* A JSON value.  Under a key that comes twice, the last value counts.      *)
RECURSIVE ReadValue(_, _), ReadMembers(_, _, _), ReadElements(_, _, _)
ReadMembers(s, i, read) ==
    LET key == IF s[i] = "\"" THEN ReadString(s, i + 1, <<>>) ELSE Bad
        val == IF key.ok /\ s[key.next] = ":" THEN ReadValue(s, key.next + 1) ELSE Bad
        all == (key.val.v :> val.val) @@ read
    IN  IF ~val.ok THEN Bad
        ELSE CASE s[val.next] = "," -> ReadMembers(s, val.next + 1, all)
               [] s[val.next] = "}" -> Found([t |-> "o", v |-> all], val.next + 1)
               [] OTHER -> Bad
ReadElements(s, i, read) ==
    LET val == ReadValue(s, i)
    IN  IF ~val.ok THEN Bad
        ELSE CASE s[val.next] = "," -> ReadElements(s, val.next + 1, Append(read, val.val))
               [] s[val.next] = "]" -> Found([t |-> "a", v |-> Append(read, val.val)], val.next + 1)
               [] OTHER -> Bad
ReadValue(s, i) ==
    CASE s[i] = "\"" -> ReadString(s, i + 1, <<>>)
      [] s[i] = "{" -> IF s[i + 1] = "}" THEN Found([t |-> "o", v |-> <<>>], i + 2)
                                         ELSE ReadMembers(s, i + 1, <<>>)
      [] s[i] = "[" -> IF s[i + 1] = "]" THEN Found([t |-> "a", v |-> <<>>], i + 2)
                                         ELSE ReadElements(s, i + 1, <<>>)
      [] s[i] \in {"}", "]", ",", ":", "\n", "NaN"} -> Bad
      [] OTHER -> Found([t |-> "lit", v |-> <<s[i]>>], i + 1)

(* A line is one object and a newline.                                      *)
ReadLine(s) ==
    LET r == ReadValue(s, 1)
    IN  IF r.ok /\ r.val.t = "o" /\ r.next = Len(s) /\ s[Len(s)] = "\n" THEN r ELSE Bad

-----------------------------------------------------------------------------
Lit(c) == [t |-> "lit", v |-> <<c>>]
Str(s) == [t |-> "s", v |-> [i \in DOMAIN s |-> IF s[i] = "badutf8" THEN "ufffd" ELSE s[i]]]

(* The whole milliseconds nearest to a duration on the side of zero.        *)
WholeMillis(d) ==
    ToString(CHOOSE m \in -8 .. 8 : \E part \in 0 .. PerMilli - 1 :
        d = m * PerMilli + (IF d < 0 THEN -part ELSE part))

(* The value a reader should find for a value of the program.  A slice with *)
(* nothing in it reads as null in a With context (encoding/json on nil).    *)
RECURSIVE Meaning(_, _), Bindings(_, _)
Meant(args, inContext) ==
    FoldLeft(LAMBDA m, b : (b.key :> b.val) @@ m, <<>>,
             FlattenSeq([i \in DOMAIN args |-> Bindings(args[i], inContext)]))
Meaning(v, inContext) ==
    CASE v.t = "bool"     -> Lit(IF v.v = 1 THEN "true" ELSE "false")
      [] v.t = "duration" -> Lit(WholeMillis(v.v))
      [] v.t \in IntegerTypes \ {"bool", "duration"} -> Lit(ToString(v.v))
      [] v.t = "float64"  -> Lit(IF v.v = "NaN" THEN "null" ELSE v.v)
      [] v.t = "complex"  -> Lit(IF v.re = "NaN" THEN "null" ELSE v.re)
      [] v.t = "pointer"  -> IF v.to = NoValue THEN Lit("null") ELSE Meaning(v.to, inContext)
      [] v.t = "reflect"  -> IF v.ok THEN Lit(v.v[1]) ELSE Str(<<"unmarshalable">>)
      [] v.t = "object"   -> [t |-> "o", v |-> Meant(v.members, inContext)]
      [] v.t = "slice"    ->
            LET there == SelectSeq(v.elems, LAMBDA e : e.t # "error" \/ e.how # "nil")
            IN  IF inContext /\ there = <<>> THEN Lit("null")
                ELSE [t |-> "a", v |-> [i \in DOMAIN there |->
                        IF there[i].t = "error"
                        THEN [t |-> "o", v |-> Meant(<<[key |-> <<"error">>, val |-> there[i]]>>,
                                                     inContext)]
                        ELSE Meaning(there[i], inContext)]]
      [] v.t \in {"error", "stringer"} /\ v.how = "nilptr" -> Str(<<"<", "nil", ">">>)
      [] OTHER            -> Str(v.v)

(* The keys an argument appears under, with what is read there.             *)
Bindings(arg, inContext) ==
    LET b(key, val) == [key |-> key, val |-> val]
        v == arg.val
    IN  CASE v.t = "error" /\ v.how = "nil" -> <<>>
          [] v.t \in {"error", "stringer"} /\ v.how = "panics" ->
                <<b(Append(arg.key, "Error"), Str(<<"e">>))>>
          [] v.t = "error" /\ v.how = "verbose" ->
                <<b(arg.key, Str(v.v)), b(Append(arg.key, "Verbose"), Str(<<"v">>))>>
          [] v.t = "namespace" -> <<>>
          [] v.t = "inline" ->
                FlattenSeq([i \in DOMAIN v.members |-> Bindings(v.members[i], inContext)])
          [] OTHER -> <<b(arg.key, Meaning(v, inContext))>>

EntryBindings(ent) ==
    LET present == {p \in DOMAIN Keys : Keys[p] # <<>> /\ ent[p] # <<>>}
    IN  [k \in {Keys[p] : p \in present} |->
            Str(ent[CHOOSE p \in present : Keys[p] = k])]

(* Some value inside v satisfies P.                                         *)
RECURSIVE Inside(_, _)
Inside(v, kind) ==
    \/ kind = "failing" /\ v.t \in {"object", "slice", "inline"} /\ v.fails
    \/ kind = "unmarshalable" /\ \/ v.t = "float64" /\ v.v = "NaN"
                                 \/ v.t = "complex" /\ v.re = "NaN"
                                 \/ v.t = "reflect" /\ ~v.ok
    \/ v.t = "slice" /\ \E i \in DOMAIN v.elems : Inside(v.elems[i], kind)
    \/ v.t \in {"object", "inline"} /\ \E i \in DOMAIN v.members : Inside(v.members[i].val, kind)

Have(args, kind) == \E i \in DOMAIN args : Inside(args[i].val, kind)

JSONWritten == {written[g] : g \in {h \in Goroutines : written[h] # None /\ written[h].form = "json"}}
RowsWritten == {written[g] : g \in {h \in Goroutines : written[h] # None /\ written[h].form = "row"}}

-----------------------------------------------------------------------------
(* encoder/json.go: every line is one JSON object, and what it says is what *)
(* the logger's own With calls, the entry and the call's fields say, the    *)
(* latest under each key: nothing of another call, logger or sibling, no    *)
(* value changed on its way through Any, Field and the encoder.  Marshalers *)
(* that fail and context values JSON cannot represent are left out here.    *)
LineSaysTheCall ==
    \A w \in JSONWritten :
        (~Have(w.said, "failing") /\ ~Have(w.args, "failing") /\ ~Have(w.said, "unmarshalable")) =>
            LET r == ReadLine(w.bytes)
            IN  r.ok /\ r.val.v = Meant(w.args, FALSE) @@ EntryBindings(w.ent) @@ Meant(w.said, TRUE)

(* Field.AddTo: a field whose marshaler fails or whose value cannot be      *)
(* encoded still shows under its key, or as the key's error, and never      *)
(* breaks the line.                                                         *)
NilError(v) == v.t = "error" /\ v.how = "nil"
ShownIn(args, val) ==
    \A i \in DOMAIN args :
        (args[i].val.t \notin {"inline", "namespace"} /\ ~NilError(args[i].val)) =>
            {args[i].key, Append(args[i].key, "Error")} \cap DOMAIN val # {}

FailuresShow ==
    \A w \in JSONWritten :
        LET r == ReadLine(w.bytes)
        IN  r.ok /\ ShownIn(w.args, r.val.v) /\ (Have(w.said, "unmarshalable") \/ ShownIn(w.said, r.val.v))

(* logger.go, With: "adds structured context": whatever With was given is   *)
(* in every line of the logger.                                             *)
ContextIsKept ==
    \A w \in JSONWritten : ShownIn(w.said, ReadLine(w.bytes).val.v)

-----------------------------------------------------------------------------
(* A row, split at the separators that are not escaped.                     *)
RECURSIVE Cells(_, _, _, _)
Cells(s, i, cell, cells) ==
    CASE s[i] = "\n" -> Append(cells, cell)
      [] s[i] = Separator -> Cells(s, i + 1, <<>>, Append(cells, cell))
      [] s[i] = "\\" /\ i < Len(s) -> Cells(s, i + 2, Append(cell, Unescape[s[i + 1]]), cells)
      [] OTHER -> Cells(s, i + 1, Append(cell, s[i]), cells)

(* What a scalar looks like in a cell; <<>> for what a cell does not show.  *)
InCell(v) ==
    CASE v.t = "bool"    -> <<IF v.v = 1 THEN "true" ELSE "false">>
      [] v.t = "duration" -> <<WholeMillis(v.v)>>
      [] v.t \in IntegerTypes \ {"bool", "duration"} -> <<ToString(v.v)>>
      [] v.t = "float64" -> <<v.v>>
      [] v.t = "string"  -> v.v
      [] v.t = "pointer" -> IF v.to = NoValue THEN <<>> ELSE <<ToString(v.to.v)>>
      [] OTHER           -> <<>>

(* In the context also errors, times and the like have a text; an object, a *)
(* slice, or a method that panics, leaves the cell as it was.               *)
RECURSIVE Spread(_)
Spread(args) == FlattenSeq([i \in DOMAIN args |->
    IF args[i].val.t = "inline" THEN Spread(args[i].val.members) ELSE <<args[i]>>])

HasText(v) == /\ v.t \notin {"object", "slice", "namespace"}
              /\ v.t \in {"error", "stringer"} => v.how \notin {"nil", "panics"}

SaidInContext(said, name) ==
    LET texts == SelectSeq(Spread(said), LAMBDA a : a.key = name /\ HasText(a.val))
    IN  IF texts = <<>> THEN <<>>
        ELSE LET v == Last(texts).val
             IN  CASE InCell(v) # <<>> -> InCell(v)
                   [] v.t = "pointer"  -> <<"<", "nil", ">">>
                   [] v.t = "complex"  -> <<"(", v.re, v.im, ")">>
                   [] v.t \in {"error", "stringer"} /\ v.how = "nilptr" -> <<"<", "nil", ">">>
                   [] OTHER            -> v.v

FirstOf(texts) == IF SelectSeq(texts, LAMBDA s : s # <<>>) = <<>> THEN <<"null">>
                  ELSE Head(SelectSeq(texts, LAMBDA s : s # <<>>))

CellSays(w, name) ==
    LET i == SelectInSeq(w.args, LAMBDA a : a.key = name)
        here == IF i = 0 THEN <<>> ELSE InCell(w.args[i].val)
        context == SaidInContext(w.said, name)
    IN  CASE name \in DOMAIN Rendered -> Rendered[name]
          [] name = <<"date">>        -> w.ent.time
          [] name = <<"log_level">>   -> w.ent.level
          [] name = <<"logger_name">> -> FirstOf(<<w.ent.name>>)
          [] name = <<"service_id">>  -> FirstOf(<<here, context, ServiceID>>)
          [] name = <<"log_msg">>     -> FirstOf(<<here, w.ent.msg>>)
          [] OTHER                    -> FirstOf(<<here, context>>)

(* encoder/fields.go:160-161: "downstream parsers can split by | reliably": *)
(* a row always splits into the template's columns, and each cell holds the *)
(* value of this call, or else of this logger's own context.                *)
RowSplits ==
    \A w \in RowsWritten :
        Cells(w.bytes, 1, <<>>, <<>>) = [i \in DOMAIN Columns |-> CellSays(w, Columns[i])]
=============================================================================
