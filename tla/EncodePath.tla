----------------------------- MODULE EncodePath -----------------------------
(***************************************************************************)
(* The way of an entry through the encoders.  Goroutines derive loggers and *)
(* log on a tee of two ioCores, one with a JSON and one with a template     *)
(* encoder.  What they share are the encoders of the loggers, the pool of   *)
(* buffers and, for CallInfo, the pool of field slices.                     *)
(*                                                                          *)
(* The two context maps live on a heap, because Clone could leave two       *)
(* encoders with one map; ctxBuf is a slice that is only ever replaced.     *)
(***************************************************************************)
EXTENDS JSONEncoder, TemplateEncoder, FiniteSetsExt

CONSTANTS
    Goroutines,
    Buffers,        \* the buffers bufferpool may come to hold
    Slices,         \* the slices callInfoFieldPool may come to hold
    Withs,          \* Withs[g]: a sequence of the arguments of With that g may use
    Calls,          \* Calls[g]: a sequence of the argument lists g may log
    CtxCalls,       \* CtxCalls[g]: the argument lists g may log with a context.Context
    Infos,          \* Infos[g]: the CallInfo values that g may log
    Traces,         \* the ids an installed extractor or WithTrace may give
    Entry,          \* the entry of a plain call
    MaxLoggers,     \* bound on loggers
    MaxCalls,       \* bound on log calls of a goroutine
    None

Formats == <<"json", "row">>

VARIABLES
    heap,       \* the context maps
    loggers,    \* the encoders of each logger; said: what was given to With
    job,        \* what each goroutine is doing
    content,    \* the bytes of each buffer
    free,       \* bufferpool
    slice,      \* the fields in each pooled slice
    freeSlices, \* callInfoFieldPool
    made,       \* the buffers and slices that exist
    written     \* the last line of each goroutine and what it was asked to say

poolVars == <<content, free, slice, freeSlices, made>>
vars == <<heap, loggers, job, poolVars, written>>

Idle == [pc |-> "idle", calls |-> 0]

Init ==
    /\ heap = << <<>>, <<>> >>
    /\ loggers = <<[json |-> 1, buf |-> <<>>, row |-> 2, said |-> <<>>]>>
    /\ job = [g \in Goroutines |-> Idle]
    /\ content = [b \in Buffers |-> <<>>]
    /\ free = {}
    /\ slice = [s \in Slices |-> <<>>]
    /\ freeSlices = {}
    /\ made = {}
    /\ written = [g \in Goroutines |-> None]

-----------------------------------------------------------------------------
(* With: ioCore.With clones the encoder, then adds the fields to the clone. *)
CloneContexts(l) == <<heap[l.json], heap[l.row]>>
CloneShared(l) == [json |-> l.json, buf |-> l.buf, row |-> l.row, said |-> l.said]
Clone(l) == [json |-> Len(heap) + 1, buf |-> l.buf, row |-> Len(heap) + 2, said |-> l.said]

With(g, l, arg) ==
    /\ job[g].pc = "idle" /\ Len(loggers) < MaxLoggers
    /\ LET c == Clone(loggers[l])
           f == AnyField(arg.key, arg.val)
           maps == heap \o CloneContexts(loggers[l])
           map == AddToContext(maps[c.json], f)
       IN  /\ heap' = [maps EXCEPT ![c.json] = map,
                                   ![c.row] = AddToRowContext(@, f)]
           /\ loggers' = Append(loggers, [c EXCEPT !.buf = RebuildCtxBuf(map),
                                                   !.said = Append(@, arg)])
    /\ UNCHANGED <<job, poolVars, written>>

-----------------------------------------------------------------------------
(* A log call whose entry both cores accept.                                *)
Begin(g, l, args, ent, s) ==
    /\ job[g].pc = "idle" /\ job[g].calls < MaxCalls
    /\ job' = [job EXCEPT ![g] = [pc |-> "encode", calls |-> @.calls + 1, at |-> 1, l |-> l,
                                  args |-> args, ent |-> ent, slice |-> s, buf |-> None]]

Log(g, l, args) ==
    /\ Begin(g, l, args, Entry, None)
    /\ UNCHANGED <<heap, loggers, poolVars, written>>

(* traceFromContext: the extractor's ids, unless it finds none.             *)
TraceOf(extractor, ctx) == IF extractor # None /\ extractor # <<>> THEN extractor ELSE ctx

TraceIDs ==
    {TraceOf(extractor, ctx) : extractor \in {None} \cup Traces, ctx \in Traces}
TraceArg(trace) == [key |-> <<"trace_id">>, val |-> Text(trace)]

(* InfoCtx, WarnCtx, ErrorCtx: a copy of the fields, behind the trace's.    *)
InfoCtx(g, l, args) ==
    /\ \E trace \in TraceIDs : Begin(g, l, <<TraceArg(trace)>> \o args, Entry, None)
    /\ UNCHANGED <<heap, loggers, poolVars, written>>

CallInfoArgs(info, trace) ==
    << TraceArg(trace),
       [key |-> <<"url">>,      val |-> Text(info.url)],
       [key |-> <<"useTime">>,  val |-> [t |-> "int64", v |-> info.useTime]],
       [key |-> <<"log_msg">>,  val |-> Text(info.msg)] >>

(* CallInfo: the fields go into a slice of the pool, which is truncated.    *)
CallInfo(g, l, info, s) ==
    /\ s \in Slices /\ (s \in freeSlices \/ s \notin made)
    /\ \E trace \in TraceIDs :
        LET args == CallInfoArgs(info, trace)
        IN  /\ Begin(g, l, args, [Entry EXCEPT !.msg = info.msg], s)
            /\ slice' = [slice EXCEPT ![s] = FieldsOf(args)]
    /\ freeSlices' = freeSlices \ {s}
    /\ made' = made \cup {s}
    /\ UNCHANGED <<heap, loggers, content, free, written>>

-----------------------------------------------------------------------------
(* ioCore.Write, for one core after the other: a buffer is taken and reset, *)
(* the entry encoded into it, written, and the buffer given back.           *)
FieldsIn(j) == IF j.slice = None THEN FieldsOf(j.args) ELSE slice[j.slice]

Encoded(j) ==
    LET l == loggers[j.l]
    IN  IF Formats[j.at] = "json" THEN JSONLine(l.buf, j.ent, FieldsIn(j))
                                  ELSE Row(heap[l.row], j.ent, FieldsIn(j))

Reset(bytes) == <<>>

PooledWhileUsed(b) == free \cup {b}
PooledExcept(b) == free \ {b}

Encode(g, b) ==
    /\ job[g].pc = "encode" /\ (b \in free \/ b \notin made)
    /\ content' = [content EXCEPT ![b] = Reset(@) \o Encoded(job[g])]
    /\ free' = PooledExcept(b)
    /\ made' = made \cup {b}
    /\ job' = [job EXCEPT ![g].pc = "write", ![g].buf = b]
    /\ UNCHANGED <<heap, loggers, slice, freeSlices, written>>

Write(g) ==
    /\ job[g].pc = "write"
    /\ written' = [written EXCEPT ![g] =
            [form |-> Formats[job[g].at], bytes |-> content[job[g].buf],
             said |-> loggers[job[g].l].said, args |-> job[g].args, ent |-> job[g].ent]]
    /\ free' = free \cup {job[g].buf}
    /\ job' = [job EXCEPT ![g] = IF @.at < Len(Formats)
                                 THEN [@ EXCEPT !.pc = "encode", !.at = @ + 1, !.buf = None]
                                 ELSE [@ EXCEPT !.pc = "done"]]
    /\ UNCHANGED <<heap, loggers, content, slice, freeSlices, made>>

(* CallInfo gives its slice back when Write has returned.                   *)
Return(g) ==
    /\ job[g].pc = "done"
    /\ freeSlices' = freeSlices \cup ({job[g].slice} \ {None})
    /\ job' = [job EXCEPT ![g] = [pc |-> "idle", calls |-> @.calls]]
    /\ UNCHANGED <<heap, loggers, content, free, slice, made, written>>

Next ==
    \E g \in Goroutines :
        \/ \E l \in DOMAIN loggers :
            \/ \E i \in DOMAIN Withs[g] : With(g, l, Withs[g][i])
            \/ \E i \in DOMAIN Calls[g] : Log(g, l, Calls[g][i])
            \/ \E i \in DOMAIN CtxCalls[g] : InfoCtx(g, l, CtxCalls[g][i])
            \/ \E info \in Infos[g], s \in Slices : CallInfo(g, l, info, s)
        \/ \E b \in Buffers : Encode(g, b)
        \/ Write(g)
        \/ Return(g)

Spec == Init /\ [][Next]_vars
=============================================================================
