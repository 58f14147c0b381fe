--------------------------- MODULE TemplateEncoder ---------------------------
(***************************************************************************)
(* encoder/template.go and fields.go as functions: one row of cells for an  *)
(* entry, in the order of the template.                                     *)
(***************************************************************************)
EXTENDS Fields

CONSTANTS
    Columns,     \* the fields of the template, in order
    Separator,   \* TemplateConfig.Separator
    NoEscape,    \* TemplateConfig.NoEscape
    ServiceID,   \* TemplateConfig.ServiceID
    Rendered     \* what the registered renderers return, by column

Null == <<"null">>

RowEscape(c) ==
    CASE c = "|"  -> <<"\\", "|">>
      [] c = "\n" -> <<"\\", "n">>
      [] c = "\r" -> <<"\\", "r">>
      [] c = "\\" -> <<"\\", "\\">>
      [] OTHER    -> <<c>>

Escaped(text) ==
    IF NoEscape THEN text ELSE FlattenSeq([i \in DOMAIN text |-> RowEscape(text[i])])
Sanitized(text) == IF text = <<>> THEN Null ELSE Escaped(text)

(* appendFieldValue: the first field of the name decides, and only if it is *)
(* a scalar and not an empty string.  Nothing is escaped but strings.       *)
Nothing == <<>>
FieldValue(fields, name) ==
    LET i == SelectInSeq(fields, LAMBDA f : f.key = name)
    IN  IF i = 0 THEN Nothing
        ELSE LET f == fields[i] IN
             CASE f.type = "string"  -> Escaped(f.interface.v)
               [] f.type = "bool"    -> <<IF f.integer = 1 THEN "true" ELSE "false">>
               [] f.type \in IntegerTypes \ {"bool"} -> <<ToString(Shown(Integer(f)))>>
               [] f.type = "float64" -> <<f.interface.v>>
               [] OTHER              -> Nothing

Or(text, otherwise) == IF text # Nothing THEN text ELSE otherwise

ContextValue(context, name) == IF name \in DOMAIN context THEN context[name] ELSE <<>>

(* The appender of a column: a renderer, then the columns that show the     *)
(* entry, then the fields of the call and the With context.                 *)
Cell(context, ent, fields, name) ==
    CASE name \in DOMAIN Rendered   -> Sanitized(Rendered[name])
      [] name = <<"date">>          -> ent.time
      [] name = <<"log_level">>     -> ent.level
      [] name = <<"service_id">>    ->
            Or(FieldValue(fields, name),
               Sanitized(Or(ContextValue(context, name), ServiceID)))
      [] name = <<"logger_name">>   -> Sanitized(ent.name)
      [] name = <<"caller">>        -> Sanitized(ent.caller)
      [] name = <<"log_msg">>       -> Or(FieldValue(fields, name), Sanitized(ent.msg))
      [] OTHER                      ->
            Or(FieldValue(fields, name), Sanitized(ContextValue(context, name)))

(* EncodeEntry.                                                             *)
Row(context, ent, fields) ==
    FlattenSeq([i \in DOMAIN Columns |->
        (IF i > 1 THEN <<Separator>> ELSE <<>>) \o Cell(context, ent, fields, Columns[i])])
    \o <<"\n">>

(* The ObjectEncoder methods: With values become texts, objects and arrays  *)
(* are passed over.                                                         *)
AsText(v) ==
    CASE v.t = "bool"    -> <<IF v.v = 1 THEN "true" ELSE "false">>
      [] v.t \in IntegerTypes \ {"bool"} -> <<ToString(Shown(v))>>
      [] v.t = "float64" -> <<v.v>>
      [] v.t = "complex" -> <<"(", v.re, v.im, ")">>
      [] v.t = "reflect" -> IF v.v = <<"null">> THEN <<"<", "nil", ">">> ELSE v.v
      [] OTHER           -> v.v

AddToRowContext(context, f) ==
    FoldLeft(LAMBDA c, a : IF a.val.t \in {"object", "slice"} THEN c
                           ELSE (a.key :> AsText(a.val)) @@ c,
             context, AddTo(f))
=============================================================================
