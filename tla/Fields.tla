------------------------------- MODULE Fields -------------------------------
(***************************************************************************)
(* From a value of the program to a Field, and from a Field to the calls an *)
(* encoder gets (field.go, array.go, error.go, slcore/field.go,             *)
(* slcore/error.go).                                                        *)
(*                                                                          *)
(* A text is a sequence of characters.  A value is a record whose t is its  *)
(* Go type; the types that behave alike (int16 and int32, float32 and       *)
(* float64, ...) have one representative each.  Marshalers are what they    *)
(* marshal: an object has members, a slice has elements, and fails says     *)
(* that the user's method returns an error after having added them.         *)
(***************************************************************************)
EXTENDS Integers, Sequences, SequencesExt, TLC

Text(s) == [t |-> "string", v |-> s]

(* Field.Integer has Word bits; each integer type keeps its own width, here *)
(* 3 bits for the 64 of the code and 2 for narrower types.                  *)
Word == 3
Bits == [int64 |-> 3, int8 |-> 2, uint64 |-> 3, uint8 |-> 2, duration |-> 3, bool |-> 1]
SignedTypes == {"int64", "int8", "duration"}
IntegerTypes == DOMAIN Bits

Signed(n, w) == ((n + 2 ^ (w - 1)) % 2 ^ w) - 2 ^ (w - 1)
Unsigned(n, w) == n % 2 ^ w

(* A duration is shown in whole milliseconds, each of PerMilli units; what  *)
(* is less is cut off.                                                      *)
PerMilli == 2
Shown(v) ==
    IF v.t # "duration" THEN v.v
    ELSE IF v.v < 0 THEN -((-v.v) \div PerMilli) ELSE v.v \div PerMilli

Field(key, type, integer, interface) ==
    [key |-> key, type |-> type, integer |-> integer, interface |-> interface]

NoValue == [t |-> "nil"]
NilField(key) == Field(key, "reflect", 0, [t |-> "reflect", ok |-> TRUE, v |-> <<"null">>])

(* The constructors of the scalar types, and of their pointers.             *)
Scalar(key, v) ==
    IF v.t \in IntegerTypes THEN Field(key, v.t, Signed(v.v, Word), NoValue)
                            ELSE Field(key, v.t, 0, v)

Pointer(key, v) == IF v.to = NoValue THEN NilField(key) ELSE Scalar(key, v.to)

Skip == Field(<<>>, "skip", 0, NoValue)
NamedError(key, v) == IF v.how = "nil" THEN Skip ELSE Field(key, "error", 0, v)

(* Strings, Ints, Times, Errors, ...: a slice becomes an array marshaler.   *)
ArrayField(key, v) == Field(key, "slice", 0, v)

(* Any: it finds the constructor of a value's type.                         *)
AnyField(key, v) ==
    CASE v.t = "pointer" -> Pointer(key, v)
      [] v.t = "error"   -> NamedError(key, v)
      [] v.t = "slice"   -> ArrayField(key, v)
      [] OTHER           -> Scalar(key, v)

(* The value AddTo takes out of Field.Integer, cast to the field's type.    *)
Integer(f) ==
    [t |-> f.type,
     v |-> IF f.type \in SignedTypes THEN Signed(f.integer, Bits[f.type])
                                     ELSE Unsigned(f.integer, Bits[f.type])]

Add(key, v) == <<[key |-> key, val |-> v]>>
AddError(key) == Add(Append(key, "Error"), Text(<<"e">>))

(* Methods of the user that panic are caught; a nil receiver is shown.      *)
EncodeStringerSilent(key, v) == IF v.how = "panics" THEN <<>> ELSE Add(key, Text(v.v))
EncodeStringer(key, v) ==
    CASE v.how = "panics" -> AddError(key)
      [] v.how = "nilptr" -> Add(key, Text(<<"<", "nil", ">">>))
      [] OTHER            -> Add(key, Text(v.v))

EncodeError(key, v) ==
    EncodeStringer(key, v) \o
    IF v.how = "verbose" THEN Add(Append(key, "Verbose"), Text(<<"v">>)) ELSE <<>>

(* Field.AddTo: the sequence of keys and values an encoder is asked to add. *)
(* What it does with an object, an array or a reflected value, and whether  *)
(* it returns an error for one, is the encoder's business; an inlined       *)
(* object adds its members itself, and its error has no key.  A namespace   *)
(* is opened by a call that no encoder of package encoder acts on.          *)
FieldsOf(args) == [i \in DOMAIN args |-> AnyField(args[i].key, args[i].val)]

RECURSIVE AddTo(_)
AddAll(fields) == FlattenSeq([i \in DOMAIN fields |-> AddTo(fields[i])])
AddTo(f) ==
    CASE f.type \in IntegerTypes -> Add(f.key, Integer(f))
      [] f.type = "stringer"     -> EncodeStringer(f.key, f.interface)
      [] f.type = "error"        -> EncodeError(f.key, f.interface)
      [] f.type = "inline"       ->
            AddAll(FieldsOf(f.interface.members))
            \o (IF f.interface.fails THEN AddError(<<>>) ELSE <<>>)
      [] f.type \in {"skip", "namespace"} -> <<>>
      [] OTHER                   -> Add(f.key, f.interface)

(* What an object's MarshalLogObject adds (Dict, and the user's own).       *)
Members(v) == AddAll(FieldsOf(v.members))

(* The elements a slice's MarshalLogArray appends: all of them, except that *)
(* Errors passes nil errors over and wraps the others in objects.           *)
Wrapped(e) ==
    IF e.t # "error" THEN e
    ELSE [t |-> "object", fails |-> FALSE, members |-> <<[key |-> <<"error">>, val |-> e]>>]

Elements(v) ==
    LET present == SelectSeq(v.elems, LAMBDA e : e.t # "error" \/ e.how # "nil")
    IN  [i \in DOMAIN present |-> Wrapped(present[i])]
=============================================================================
