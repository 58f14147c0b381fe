----------------------------- MODULE Lifecycle -----------------------------
(***************************************************************************)
(* The life of a logger that Config.Build makes: which files, rolling and   *)
(* asynchronous writers are opened, who closes them when Build fails, and   *)
(* what Logger.Close, called by several goroutines on clones of one logger  *)
(* while others log, leaves behind (src/config.go, src/writer.go,           *)
(* src/sink.go, src/encoder.go, src/logger.go).                             *)
(*                                                                         *)
(* A line here is one that every output admits; routing is LogCall's.  The  *)
(* asynchronous writer is seen from outside: a queue in front of a rolling  *)
(* writer, closed as AsyncWriter proves it closes.                          *)
(***************************************************************************)
EXTENDS Globals, FiniteSets, FiniteSetsExt, SequencesExt, Functions, TLC

CONSTANTS
    Callers,      \* goroutines
    Lines,        \* each is logged at most once
    Configs,      \* the configurations given to Build
    StdLevels,    \* the levels given to RedirectStdLogAt
    Spellings,    \* the scheme names given to RegisterSink
    Normalized,   \* a spelling in lower case, or "" where it is no scheme
    Refusable,    \* the files the operating system may refuse to open
    MaxBuilds     \* bound: calls of Build

ASSUME ConfigsAreLists ==
    \A cfg \in Configs : /\ Len(cfg.outputs) \in Nat
                         /\ DOMAIN cfg.outputs = 1 .. Len(cfg.outputs)

VARIABLES
    factories,    \* the scheme's factory, named by the spelling registered
    loggers,      \* what each call of Build returned
    open,         \* the handles that are open
    queue, taken, \* an async handle's queue, and all that it ever accepted
    file,         \* what a file, or a rolling writer's files, hold
    used,         \* the lines logged so far
    reported,     \* the refused lines the logger's error output received
    refused,      \* the pairs of a line and a logger with an output that refused it
    pc,           \* what a goroutine is doing
    returned      \* the goroutines whose Close of a logger has returned

lvars == <<factories, loggers, open, queue, taken, file, used, reported,
           refused, pc, returned>>
vars == <<lvars, gvars>>

Idle == [op |-> "idle"]

Init ==
    /\ GlobalsInit
    /\ factories = ("file" :> "file")
    /\ loggers = <<>> /\ open = {}
    /\ queue = <<>> /\ taken = <<>> /\ file = <<>>
    /\ used = {} /\ reported = {} /\ refused = {}
    /\ pc = [c \in Callers |-> Idle] /\ returned = {}

\* The first registration of a scheme wins; a bad or taken one is refused.
RegisterSink(s) ==
    LET scheme == Normalized[s] IN
    /\ scheme # ""
    /\ scheme \notin DOMAIN factories
    /\ factories' = (scheme :> s) @@ factories
    /\ UNCHANGED <<loggers, open, queue, taken, file, used, reported, refused,
                   pc, returned, gvars>>
-----------------------------------------------------------------------------
(* Opening.  A path has the text it was configured by, and the scheme and   *)
(* the file that text names when it is read as a URL.                       *)

IsStd(p) == p.raw \in {"stdout", "stderr"}

NewSink(p, bad) == p.scheme \in DOMAIN factories /\ p.file \notin bad

\* The registry is asked only once the path has failed as a file name.
Opens(p, bad) == IsStd(p) \/ p.raw \notin bad \/ NewSink(p, bad)

Handle(n, i, k, name) == [logger |-> n, output |-> i, kind |-> k, name |-> name]

FileHandles(n, i, paths) ==
    {Handle(n, i, "file", p.raw) : p \in {q \in ToSet(paths) : ~IsStd(q)}}

\* All paths are tried; when one fails, those that opened are closed again.
OpenWithMode(n, i, paths, bad) ==
    IF \A p \in ToSet(paths) : Opens(p, bad)
      THEN [ok |-> TRUE, closers |-> <<FileHandles(n, i, paths)>>]
      ELSE [ok |-> FALSE, closers |-> <<>>]

\* A rolling writer, closed after the asynchronous writer in front of it.
OpenRolling(n, i, o, bad) ==
    LET rw == Handle(n, i, "rolling", o.dir)
        aw == Handle(n, i, "async", o.dir) IN
    CASE o.dir \in bad -> [ok |-> FALSE, closers |-> <<>>]
      [] o.dir \notin bad /\ o.async ->
           [ok |-> TRUE, closers |-> <<{aw, rw}, {rw}>>]
      [] OTHER -> [ok |-> TRUE, closers |-> <<{rw}>>]

StderrPath == [raw |-> "stderr", scheme |-> "file", file |-> "stderr"]
OrStderr(paths) == IF paths = <<>> THEN <<StderrPath>> ELSE paths

OpenOutputFor(n, i, o, bad) ==
    IF o.dir # "" THEN OpenRolling(n, i, o, bad)
                  ELSE OpenWithMode(n, i, OrStderr(o.paths), bad)

KnownEncodings == {"", "json", "template", "callinfo", "requestinfo"}

\* "trace" stands for the debug level; an unknown name is left out.
LevelNames == {"trace", "debug", "info", "warn", "error", "dpanic", "panic", "fatal"}
ParseLevels(names) ==
    {IF x = "trace" THEN "debug" ELSE x : x \in names \cap LevelNames}

FiltersByNothing(names) == names # {} /\ ParseLevels(names) = {}

\* A filter without one valid name is refused, after the output was opened.
BuildOutputCore(n, i, cfg, bad) ==
    LET o == cfg.outputs[i]
        opened == OpenOutputFor(n, i, o, bad)
        Failed(left) == [ok |-> FALSE, closers |-> <<>>, opened |-> left]
    IN  CASE o.encoding \notin KnownEncodings -> Failed({})
          [] o.encoding \in KnownEncodings /\ ~opened.ok -> Failed({})
          [] o.encoding \in KnownEncodings /\ opened.ok
             /\ cfg.multi /\ (FiltersByNothing(o.levels) \/ FiltersByNothing(o.exclude)) ->
               Failed(UNION ToSet(opened.closers))
          [] OTHER -> [ok |-> TRUE, closers |-> opened.closers,
                       opened |-> UNION ToSet(opened.closers)]

\* Mutants: a failed Build forgets its closers; the error output is closed
\* with the logger.
BuildResultForgetsClosers(n, cfg, bad) ==
    LET core == [i \in DOMAIN cfg.outputs |-> BuildOutputCore(n, i, cfg, bad)]
        failing == {i \in DOMAIN core : ~core[i].ok}
        tried == IF failing = {} THEN DOMAIN core ELSE 1 .. Min(failing)
    IN  [ok |-> cfg.level /\ failing = {},
         closers |-> FlattenSeq([i \in 1 .. Cardinality(tried) |-> core[i].closers]),
         open |-> UNION {core[i].opened : i \in tried}]
BuildResultClosesErrors(n, cfg, bad) ==
    LET core == [i \in DOMAIN cfg.outputs |-> BuildOutputCore(n, i, cfg, bad)]
        errs == OpenWithMode(n, 0, OrStderr(cfg.errPaths), bad)
    IN  IF cfg.level /\ errs.ok /\ \A i \in DOMAIN core : core[i].ok
          THEN [ok |-> TRUE,
                closers |-> FlattenSeq([i \in DOMAIN core |-> core[i].closers]) \o errs.closers,
                open |-> UNION {core[i].opened : i \in DOMAIN core}
                           \cup UNION ToSet(errs.closers)]
          ELSE [ok |-> FALSE, closers |-> <<>>, open |-> {}]

\* The outputs are opened in order up to the first that fails.  A failed
\* Build runs the closers it was given so far; the error output is opened
\* last, and its closer is dropped.
BuildResult(n, cfg, bad) ==
    LET core == [i \in DOMAIN cfg.outputs |-> BuildOutputCore(n, i, cfg, bad)]
        failing == {i \in DOMAIN core : ~core[i].ok}
        tried == IF failing = {} THEN DOMAIN core ELSE 1 .. Min(failing)
        closers == FlattenSeq([i \in 1 .. Cardinality(tried) |-> core[i].closers])
        opened == UNION {core[i].opened : i \in tried}
        errs == OpenWithMode(n, 0, OrStderr(cfg.errPaths), bad)
    IN  CASE ~cfg.level -> [ok |-> FALSE, closers |-> <<>>, open |-> {}]
          [] cfg.level /\ failing = {} /\ errs.ok ->
               [ok |-> TRUE, closers |-> closers,
                open |-> opened \cup UNION ToSet(errs.closers)]
          [] OTHER -> [ok |-> FALSE, closers |-> <<>>,
                       open |-> opened \ UNION ToSet(closers)]

WithEmpty(f, hs) == [h \in hs \cup DOMAIN f |-> IF h \in hs THEN <<>> ELSE f[h]]

Build(cfg, bad) ==
    LET n == Len(loggers) + 1
        built == BuildResult(n, cfg, bad) IN
    /\ n <= MaxBuilds
    /\ loggers' = Append(loggers, [ok |-> built.ok, cfg |-> cfg,
                                   closers |-> built.closers, once |-> "new"])
    /\ open' = open \cup built.open
    /\ LET queues == {h \in built.open : h.kind = "async"} IN
         /\ queue' = WithEmpty(queue, queues)
         /\ taken' = WithEmpty(taken, queues)
         /\ file' = WithEmpty(file, built.open \ queues)
    /\ UNCHANGED <<factories, used, reported, refused, pc, returned, gvars>>

Alive == {n \in DOMAIN loggers : loggers[n].ok}
-----------------------------------------------------------------------------
(* Logging.  A line goes to the outputs one after the other, and an output  *)
(* that refuses it does not stop the ones behind it.                        *)

HandlesOf(n, i) ==
    {h \in DOMAIN queue \cup DOMAIN file : h.logger = n /\ h.output = i}

Inner(aw) == [aw EXCEPT !.kind = "rolling"]

\* The handle a write meets first: the queue where there is one.
Entrance(n, i) ==
    LET hs == HandlesOf(n, i)
        queues == {h \in hs : h.kind = "async"}
    IN  IF queues # {} THEN queues ELSE hs

\* The error output stays open for as long as the process runs.
ErrorOutputIsOpen(n) == HandlesOf(n, 0) \subseteq open

StartLog(c, n, line) ==
    /\ pc[c] = Idle
    /\ line \notin used
    /\ used' = used \cup {line}
    /\ pc' = [pc EXCEPT ![c] = [op |-> "log", logger |-> n, line |-> line, output |-> 1]]
    /\ UNCHANGED <<factories, loggers, open, queue, taken, file, reported,
                   refused, returned, gvars>>

\* A call of a logger's method, of one of L(), or of the standard logger.
Log(c, n, line) == n \in Alive /\ StartLog(c, n, line)
LogGlobal(c, line) == globalL \in Alive /\ StartLog(c, globalL, line)
PrintStd(c, line) == \E n \in std.out : StartLog(c, n, line)

WriteOutput(c) ==
    /\ pc[c].op = "log"
    /\ LET n == pc[c].logger   i == pc[c].output   line == pc[c].line
           front == Entrance(n, i)
           takes == front \cap open
           Grown(f) == [h \in DOMAIN f |->
                           IF h \in takes THEN Append(f[h], line) ELSE f[h]]
       IN  /\ queue' = Grown(queue) /\ taken' = Grown(taken) /\ file' = Grown(file)
           /\ refused' = IF takes = front THEN refused ELSE refused \cup {<<line, n>>}
           /\ reported' = IF takes # front /\ ErrorOutputIsOpen(n)
                            THEN reported \cup {<<line, n>>} ELSE reported
           /\ pc' = [pc EXCEPT ![c] = IF i = Len(loggers[n].cfg.outputs)
                                        THEN Idle ELSE [@ EXCEPT !.output = i + 1]]
    /\ UNCHANGED <<factories, loggers, open, used, returned, gvars>>

\* What queues hs hold goes to the rolling writers behind them, if still open.
Drained(hs) ==
    /\ queue' = [h \in DOMAIN queue |-> IF h \in hs THEN <<>> ELSE queue[h]]
    /\ file' = [f \in DOMAIN file |->
                  LET aw == [f EXCEPT !.kind = "async"] IN
                  IF f.kind = "rolling" /\ aw \in hs /\ f \in open
                    THEN file[f] \o queue[aw] ELSE file[f]]

\* A worker's batch.
Flush(aw) ==
    /\ queue[aw] # <<>>
    /\ Drained({aw})
    /\ UNCHANGED <<factories, loggers, open, taken, used, reported, refused, pc,
                   returned, gvars>>
-----------------------------------------------------------------------------
(* Closing.  The once is shared by a logger and all its clones, and a       *)
(* second caller waits for the first.                                       *)

Finished(c, n) == returned' = returned \cup {<<c, n>>}

\* A mutant: a flag in place of the once, so a second caller does not wait.
CloseBeginByFlag(c, n) ==
    /\ pc[c] = Idle
    /\ IF loggers[n].once = "new"
         THEN /\ loggers' = [loggers EXCEPT ![n].once = "running"]
              /\ pc' = [pc EXCEPT ![c] = [op |-> "close", logger |-> n, closer |-> 0]]
              /\ UNCHANGED returned
         ELSE Finished(c, n) /\ UNCHANGED <<loggers, pc>>
    /\ UNCHANGED <<factories, open, queue, taken, file, used, reported, refused, gvars>>

CloseBegin(c, n) ==
    /\ pc[c] = Idle
    /\ IF loggers[n].once = "new"
         THEN /\ loggers' = [loggers EXCEPT ![n].once = "running"]
              /\ pc' = [pc EXCEPT ![c] = [op |-> "close", logger |-> n, closer |-> 0]]
         ELSE /\ pc' = [pc EXCEPT ![c] = [op |-> "wait", logger |-> n]]
              /\ UNCHANGED loggers
    /\ UNCHANGED <<factories, open, queue, taken, file, used, reported, refused,
                   returned, gvars>>

\* Closer 0 is the Sync of the core: it flushes the queues of all outputs.
\* The asynchronous writer's closer drains its queue before it closes the
\* rolling writer, whose own closer then finds it closed.
CloseStep(c) ==
    /\ pc[c].op = "close"
    /\ LET n == pc[c].logger   k == pc[c].closer
           closers == loggers[n].closers
           closed == IF k = 0 THEN {} ELSE closers[k] \cap open
           flushed == IF k = 0 THEN {h \in open \cap DOMAIN queue : h.logger = n}
                               ELSE closed \cap DOMAIN queue
       IN  /\ Drained(flushed)
           /\ open' = open \ closed
           /\ IF k = Len(closers)
                THEN /\ loggers' = [loggers EXCEPT ![n].once = "done"]
                     /\ pc' = [pc EXCEPT ![c] = Idle]
                     /\ Finished(c, n)
                ELSE /\ pc' = [pc EXCEPT ![c].closer = k + 1]
                     /\ UNCHANGED <<loggers, returned>>
    /\ UNCHANGED <<factories, taken, used, reported, refused, gvars>>

CloseAgain(c) ==
    /\ pc[c].op = "wait"
    /\ loggers[pc[c].logger].once = "done"
    /\ pc' = [pc EXCEPT ![c] = Idle]
    /\ Finished(c, pc[c].logger)
    /\ UNCHANGED <<factories, loggers, open, queue, taken, file, used, reported,
                   refused, gvars>>
-----------------------------------------------------------------------------
Next ==
    \/ \E s \in Spellings : RegisterSink(s)
    \/ \E cfg \in Configs, bad \in SUBSET Refusable : Build(cfg, bad)
    \/ \E c \in Callers, line \in Lines :
         \/ \E n \in DOMAIN loggers : Log(c, n, line)
         \/ LogGlobal(c, line)
         \/ PrintStd(c, line)
    \/ \E c \in Callers : WriteOutput(c) \/ CloseStep(c) \/ CloseAgain(c)
    \/ \E aw \in DOMAIN queue : Flush(aw)
    \/ \E c \in Callers, n \in Alive : CloseBegin(c, n)
    \/ \E n \in Alive : ReplaceGlobals(n) /\ UNCHANGED lvars
    \/ \E n \in Alive, lvl \in StdLevels :
         RedirectStdLogAt(n, lvl) /\ UNCHANGED lvars
    \/ UndoLast /\ UNCHANGED lvars

Spec == Init /\ [][Next]_vars
=============================================================================
