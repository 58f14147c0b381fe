----------------------------- MODULE JSONEncoder -----------------------------
(***************************************************************************)
(* encoder/json.go as functions: what is streamed into the buffer for an    *)
(* entry, what a With field leaves in the context map, and the body of that *)
(* map that is serialized once and put in front of every entry.             *)
(***************************************************************************)
EXTENDS Fields

CONSTANTS
    Keys,       \* EncoderConfig: the key of each part of an entry, <<>> to omit it
    KeyOrder    \* the order in which encoding/json puts the keys of a map

Parts == <<"level", "time", "name", "caller", "msg", "stack">>

(* appendJSONString: quotes, control characters, HTML characters and bytes  *)
(* that are not UTF-8 are escaped; "ctl" stands for one of the others.      *)
JSONEscape(c) ==
    CASE c \in {"\"", "\\"} -> <<"\\", c>>
      [] c = "\n"           -> <<"\\", "n">>
      [] c = "<"            -> <<"\\", "u003c">>
      [] c = ">"            -> <<"\\", "u003e">>
      [] c = "ctl"          -> <<"\\", "u001b">>
      [] c = "badutf8"      -> <<"\\", "ufffd">>
      [] OTHER              -> <<c>>

Quoted(text) ==
    <<"\"">> \o FlattenSeq([i \in DOMAIN text |-> JSONEscape(text[i])]) \o <<"\"">>

Unmarshalable == <<"\"", "unmarshalable", "\"">>

Float(f) == IF f = "NaN" THEN <<"null">> ELSE <<f>>

(* Values that are written without a structure of their own.                *)
Plain(v) ==
    CASE v.t \in IntegerTypes \ {"bool"} -> <<ToString(Shown(v))>>
      [] v.t = "bool"    -> <<IF v.v = 1 THEN "true" ELSE "false">>
      [] v.t = "float64" -> Float(v.v)
      [] v.t = "complex" -> Float(v.re)
      [] v.t = "reflect" -> IF v.ok THEN v.v ELSE Unmarshalable
      [] OTHER           -> Quoted(v.v)

(* The separators: a comma before everything but the first.                 *)
Separated(parts) ==
    FlattenSeq([i \in DOMAIN parts |-> IF i = 1 THEN parts[i] ELSE <<",">> \o parts[i]])

(* The streaming encoder.  Nested containers write into the same buffer     *)
(* with separators of their own, and an error of the user's marshaler is    *)
(* dropped: what it had added stays.                                        *)
RECURSIVE Streamed(_)
Streamed(v) ==
    CASE v.t = "object" ->
            LET adds == Members(v)
            IN  <<"{">> \o
                Separated([i \in DOMAIN adds |->
                    Quoted(adds[i].key) \o <<":">> \o Streamed(adds[i].val)])
                \o <<"}">>
      [] v.t = "slice" ->
            LET elems == Elements(v)
            IN  <<"[">> \o Separated([i \in DOMAIN elems |-> Streamed(elems[i])]) \o <<"]">>
      [] OTHER -> Plain(v)

Member(add) == Quoted(add.key) \o <<":">> \o Streamed(add.val)

(* The parts of the entry that are configured and not empty.                *)
EntryAdds(ent) ==
    LET parts == SelectSeq(Parts, LAMBDA p : Keys[p] # <<>> /\ ent[p] # <<>>)
    IN  [i \in DOMAIN parts |-> [key |-> Keys[parts[i]], val |-> Text(ent[parts[i]])]]

(* EncodeEntry: the cached context, the parts of the entry, the fields.     *)
JSONLine(ctxBuf, ent, fields) ==
    LET adds == EntryAdds(ent) \o AddAll(fields)
        members == [i \in DOMAIN adds |-> Member(adds[i])]
    IN  <<"{">> \o Separated(IF ctxBuf = <<>> THEN members ELSE <<ctxBuf>> \o members)
        \o <<"}", "\n">>

-----------------------------------------------------------------------------
(* The With context: a map from keys to values.  Here a marshaler that      *)
(* fails leaves nothing but its error.                                      *)
RECURSIVE Fails(_)
Fails(v) ==
    /\ v.t \in {"object", "slice"}
    /\ v.fails \/ (v.t = "slice" /\ \E i \in DOMAIN Elements(v) : Fails(Elements(v)[i]))

Put(map, key, val) == (key :> val) @@ map

RECURSIVE Stored(_)
Resolved(add) ==
    IF Fails(add.val) THEN AddError(add.key)[1]
                      ELSE [key |-> add.key, val |-> Stored(add.val)]
Stored(v) ==
    CASE v.t = "object" ->
            [t |-> "map",
             v |-> FoldLeft(LAMBDA m, a : Put(m, Resolved(a).key, Resolved(a).val),
                            <<>>, Members(v))]
      [] v.t = "slice" ->
            LET elems == Elements(v)
            IN  [t |-> "items", v |-> [i \in DOMAIN elems |-> Stored(elems[i])]]
      [] OTHER -> v

AddToContext(map, f) ==
    FoldLeft(LAMBDA m, a : Put(m, Resolved(a).key, Resolved(a).val), map, AddTo(f))

(* encoding/json on such a map: keys in order, nil for a slice nothing was  *)
(* appended to, and an error for the whole map if one value inside cannot   *)
(* be represented.                                                          *)
RECURSIVE Representable(_)
Representable(v) ==
    CASE v.t = "map"     -> \A k \in DOMAIN v.v : Representable(v.v[k])
      [] v.t = "items"   -> \A i \in DOMAIN v.v : Representable(v.v[i])
      [] v.t = "float64" -> v.v # "NaN"
      [] v.t = "complex" -> v.re # "NaN"
      [] v.t = "reflect" -> v.ok
      [] OTHER           -> TRUE

RECURSIVE Marshalled(_)
Marshalled(v) ==
    CASE v.t = "map" ->
            LET keys == SelectSeq(KeyOrder, LAMBDA k : k \in DOMAIN v.v)
            IN  <<"{">> \o
                Separated([i \in DOMAIN keys |->
                    Quoted(keys[i]) \o <<":">> \o Marshalled(v.v[keys[i]])])
                \o <<"}">>
      [] v.t = "items" ->
            IF v.v = <<>> THEN <<"null">>
            ELSE <<"[">> \o Separated([i \in DOMAIN v.v |-> Marshalled(v.v[i])]) \o <<"]">>
      [] OTHER -> Plain(v)

(* rebuildCtxBuf: the body without its braces, or nothing after an error.   *)
RebuildCtxBuf(map) ==
    LET ctx == [t |-> "map", v |-> map]
        b == Marshalled(ctx)
    IN  IF Representable(ctx) THEN SubSeq(b, 2, Len(b) - 1) ELSE <<>>
=============================================================================
