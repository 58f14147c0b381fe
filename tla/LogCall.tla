------------------------------ MODULE LogCall ------------------------------
(***************************************************************************)
(* A log call from Logger.check (logger.go) to CheckedEntry.Write           *)
(* (slcore/entry.go), for the core Config.Build makes: a Tee of ioCores with*)
(* the level routing of their outputs (config.go).  Calls go through the    *)
(* built logger or a clone of it made with the option IncreaseLevel; they   *)
(* run concurrently, share the pool of CheckedEntries and the AtomicLevel,  *)
(* and end by returning, panicking, leaving the goroutine or ending the     *)
(* process.                                                                *)
(*                                                                         *)
(* An output is a WriteSyncer that takes a whole entry or fails, keeps what *)
(* it took in order, and makes it durable on Sync.  A caller writes each    *)
(* CheckedEntry once, as CheckedEntry's documentation demands.              *)
(***************************************************************************)
EXTENDS Integers, Sequences, FiniteSets, Functions

CONSTANTS
    Calls,        \* the log calls, each of its own goroutine
    Outputs,      \* Config.Outputs: a sequence of [allow, deny, min]
    Wanted,       \* the levels calls use
    Settings,     \* the values SetLevel stores
    Loggers,      \* the loggers: None for the built one, or the level of
                  \* the option IncreaseLevel it was cloned with
    Development,  \* Config.Development
    OnPanic, OnFatal,  \* the hooks WithPanicHook and WithFatalHook set
    MaxFaults,    \* bound: failing encodes and writes
    MaxSettings,  \* bound: changes of the AtomicLevel
    None

DebugLevel == -1
InfoLevel == 0
WarnLevel == 1
ErrorLevel == 2
DPanicLevel == 3
PanicLevel == 4
FatalLevel == 5
Levels == DebugLevel .. FatalLevel

Hooks == {"none", "noop", "panic", "goexit", "fatal", "custom"}

Handles == 1 .. Cardinality(Calls)  \* no run needs more CheckedEntries

ASSUME ConstantsAssumption ==
    /\ IsFiniteSet(Calls)
    /\ Outputs \in Seq([allow : SUBSET Levels, deny : SUBSET Levels, min : Levels])
    /\ Wanted \subseteq Levels /\ Settings \subseteq Levels
    /\ Loggers \subseteq Levels \cup {None}
    /\ Development \in BOOLEAN
    /\ OnPanic \in Hooks /\ OnFatal \in Hooks
    /\ MaxFaults \in Nat /\ MaxSettings \in Nat
    /\ None \notin Calls \cup Levels \cup Handles

Outs == DOMAIN Outputs

VARIABLES
    level,    \* the AtomicLevel
    ces,      \* the CheckedEntries: [entry, cores, after, errorOutput, dirty]
    made,     \* those allocated so far
    pool,     \* those in _cePool
    run,      \* per call: [pc, via, lvl, ce, at, ent, failed]
    file,     \* per output: the entries it took
    exited,   \* the process is gone
    faults, settings

(* History variables.                                                      *)
VARIABLES
    open,     \* per call: the outputs whose gate was open during the whole check
    ever,     \* per call: those whose gate was open at some time of it
    missed,   \* <<call, output>> whose write failed
    durable,  \* per output: how many of its entries a Sync covered
    reports   \* per call: write errors reported on the ErrorOutput

poolVars == <<ces, made, pool>>
pastVars == <<open, ever, missed, reports>>
vars == <<level, poolVars, run, file, durable, exited, faults, settings, pastVars>>

Blank == [entry |-> None, cores |-> <<>>, after |-> "none",
          errorOutput |-> FALSE, dirty |-> FALSE]

Idle == [pc |-> "new", via |-> None, lvl |-> None, ce |-> None, at |-> 1, ent |-> None,
         failed |-> FALSE]
Checking == {"check", "annotate"}
Writing == {"run", "write", "sync", "report", "finish"}
Ended == {"skipped", "returned", "gone"}

TypeOK ==
    /\ level \in Levels
    /\ ces \in [Handles -> [entry : Calls \cup {None}, cores : Seq(Outs),
                            after : Hooks, errorOutput : BOOLEAN, dirty : BOOLEAN]]
    /\ made \subseteq Handles /\ pool \subseteq made
    /\ run \in [Calls -> [pc : {"new"} \cup Checking \cup Writing \cup Ended,
                          via : Levels \cup {None}, lvl : Levels \cup {None},
                          ce : Handles \cup {None},
                          at : 1 .. Len(Outputs) + 1, ent : Calls \cup {None},
                          failed : BOOLEAN]]
    /\ \A o \in Outs : file[o] \in Seq(Calls) /\ durable[o] \in 0 .. Len(file[o])
    /\ exited \in BOOLEAN
    /\ faults \in 0 .. MaxFaults /\ settings \in 0 .. MaxSettings
    /\ open \in [Calls -> SUBSET Outs] /\ ever \in [Calls -> SUBSET Outs]
    /\ missed \subseteq Calls \X Outs
    /\ reports \in [Calls -> Nat]

Init ==
    /\ level \in Settings
    /\ ces = [h \in Handles |-> Blank]
    /\ made = {} /\ pool = {}
    /\ run = [c \in Calls |-> Idle]
    /\ file = [o \in Outs |-> <<>>] /\ durable = [o \in Outs |-> 0]
    /\ exited = FALSE
    /\ faults = 0 /\ settings = 0
    /\ open = [c \in Calls |-> {}] /\ ever = [c \in Calls |-> {}]
    /\ missed = {}
    /\ reports = [c \in Calls |-> 0]

-----------------------------------------------------------------------------
(* Levels.                                                                 *)

(* outputLevelEnabler: the routing of an output, under the global level.    *)
Routes(o, l) ==
    IF Outputs[o].allow # {} THEN l \in Outputs[o].allow
    ELSE IF Outputs[o].deny # {} THEN l \notin Outputs[o].deny
    ELSE l >= Outputs[o].min

GateOpen(o, l, lv) == l >= lv /\ Routes(o, l)

(* levelFilterCore answers for itself, multiCore for any of its cores.      *)
PassesFilter(via, l) == via = None \/ l >= via
CoreEnabled(via, l) ==
    IF via # None THEN l >= via ELSE \E o \in Outs : GateOpen(o, l, level)

(* terminalHookOverride: a noop would let a Panic or Fatal call go on.      *)
OverrideWithNoop(default, hook) == IF hook = "none" THEN default ELSE hook
Override(default, hook) == IF hook \in {"none", "noop"} THEN default ELSE hook

Terminal(l) ==
    CASE l = PanicLevel -> Override("panic", OnPanic)
      [] l = FatalLevel -> Override("fatal", OnFatal)
      [] l = DPanicLevel /\ Development -> Override("panic", OnPanic)
      [] OTHER -> "none"

-----------------------------------------------------------------------------
(* The pool of CheckedEntries.                                             *)

ResetKeepingCores(ce) == [Blank EXCEPT !.cores = ce.cores]
Reset(ce) == Blank

Fresh == IF made = Handles THEN {} ELSE {CHOOSE h \in Handles : h \notin made}

(* AddCore, Before and After take a CheckedEntry when they are given nil:   *)
(* one from the pool or a new one.                                          *)
Holdable(c) == IF run[c].ce # None THEN {run[c].ce} ELSE pool \cup Fresh
Content(c, h) ==
    IF run[c].ce # None THEN ces[h] ELSE [Reset(ces[h]) EXCEPT !.entry = c]

Update(c, h, ce) ==
    /\ ces' = [ces EXCEPT ![h] = ce]
    /\ made' = made \cup {h}
    /\ pool' = pool \ {h}

Release(h) == pool' = pool \cup {h} /\ UNCHANGED <<ces, made>>

-----------------------------------------------------------------------------
(* Logger.check.                                                           *)

MaySkip(l) == l < DPanicLevel

Begin(c) ==
    /\ run[c].pc = "new"
    /\ \E l \in Wanted, via \in Loggers :
        /\ run' = [run EXCEPT ![c].lvl = l, ![c].via = via,
                     ![c].pc = IF MaySkip(l) /\ ~CoreEnabled(via, l) THEN "skipped"
                               ELSE IF PassesFilter(via, l) /\ Outputs # <<>> THEN "check"
                               ELSE "annotate"]
        /\ LET now == {o \in Outs : PassesFilter(via, l) /\ GateOpen(o, l, level)} IN
            /\ open' = [open EXCEPT ![c] = now]
            /\ ever' = [ever EXCEPT ![c] = now]
    /\ UNCHANGED <<level, poolVars, file, durable, exited, faults, settings, missed, reports>>

(* multiCore.Check asks one ioCore after the other; each reads the level.   *)
Visit(c) ==
    LET o == run[c].at
        next == IF o = Len(Outputs) THEN "annotate" ELSE "check"
    IN
    /\ run[c].pc = "check"
    /\ IF GateOpen(o, run[c].lvl, level)
       THEN \E h \in Holdable(c) :
                /\ Update(c, h, [Content(c, h) EXCEPT !.cores = Append(@, o)])
                /\ run' = [run EXCEPT ![c].ce = h, ![c].at = o + 1, ![c].pc = next]
       ELSE /\ run' = [run EXCEPT ![c].at = o + 1, ![c].pc = next]
            /\ UNCHANGED poolVars
    /\ UNCHANGED <<level, file, durable, exited, faults, settings, pastVars>>

(* check sets the terminal behaviour, which may take an entry no core wants. *)
Annotate(c) ==
    LET willWrite == run[c].ce # None
        after == Terminal(run[c].lvl)
    IN
    /\ run[c].pc = "annotate"
    /\ IF willWrite \/ after # "none"
       THEN \E h \in Holdable(c) :
                /\ Update(c, h, [Content(c, h) EXCEPT !.after = after,
                                                      !.errorOutput = willWrite])
                /\ run' = [run EXCEPT ![c].ce = h, ![c].pc = "run"]
       ELSE /\ run' = [run EXCEPT ![c].pc = "skipped"]
            /\ UNCHANGED poolVars
    /\ UNCHANGED <<level, file, durable, exited, faults, settings, pastVars>>

-----------------------------------------------------------------------------
(* CheckedEntry.Write.                                                     *)

BeginWrite(c) ==
    LET h == run[c].ce IN
    /\ run[c].pc = "run"
    /\ IF ces[h].dirty
       THEN run' = [run EXCEPT ![c].pc = "returned"] /\ UNCHANGED ces
       ELSE /\ run' = [run EXCEPT ![c].pc = "write", ![c].at = 1, ![c].ent = ces[h].entry]
            /\ ces' = [ces EXCEPT ![h].dirty = TRUE]
    /\ UNCHANGED <<level, made, pool, file, durable, exited, faults, settings, pastVars>>

Core(c) == ces[run[c].ce].cores[run[c].at]
MoreCores(c) == run[c].at <= Len(ces[run[c].ce].cores)

(* "Since we may be crashing the program, sync the output."                 *)
SyncsAboveDPanic(l) == l > DPanicLevel
SyncsAfter(l) == l > ErrorLevel

JoinLast(failed, now) == now
Join(failed, now) == failed \/ now

(* ioCore.Write of the next core; a failed core does not stop the others.   *)
WriteCore(c) ==
    /\ run[c].pc = "write" /\ MoreCores(c)
    /\ file' = [file EXCEPT ![Core(c)] = Append(@, run[c].ent)]
    /\ run' = [run EXCEPT ![c].failed = Join(@, FALSE),
                          ![c].pc = IF SyncsAfter(run[c].lvl) THEN "sync" ELSE "write",
                          ![c].at = IF SyncsAfter(run[c].lvl) THEN @ ELSE @ + 1]
    /\ UNCHANGED <<level, poolVars, durable, exited, faults, settings, pastVars>>

PastAllCores(c) == Len(ces[run[c].ce].cores) + 1
NextCore(c) == run[c].at + 1

CoreFails(c) ==
    /\ run[c].pc = "write" /\ MoreCores(c)
    /\ faults < MaxFaults
    /\ faults' = faults + 1
    /\ missed' = missed \cup {<<c, Core(c)>>}
    /\ run' = [run EXCEPT ![c].failed = Join(@, TRUE), ![c].at = NextCore(c)]
    /\ UNCHANGED <<level, poolVars, file, durable, exited, settings, open, ever, reports>>

SyncCore(c) ==
    /\ run[c].pc = "sync"
    /\ durable' = [durable EXCEPT ![Core(c)] = Len(file[Core(c)])]
    /\ run' = [run EXCEPT ![c].pc = "write", ![c].at = @ + 1]
    /\ UNCHANGED <<level, poolVars, file, exited, faults, settings, pastVars>>

PoolAfterReportEarly(h) == pool \cup {h}
PoolAfterReport(h) == pool

Report(c) ==
    LET h == run[c].ce IN
    /\ run[c].pc = "write" /\ ~MoreCores(c)
    /\ reports' = IF run[c].failed /\ ces[h].errorOutput
                  THEN [reports EXCEPT ![c] = @ + 1] ELSE reports
    /\ run' = [run EXCEPT ![c].pc = "finish"]
    /\ pool' = PoolAfterReport(h)
    /\ UNCHANGED <<level, ces, made, file, durable, exited, faults, settings, open, ever, missed>>

(* OnWrite, then back to the pool - unless OnWrite did not return.          *)
Finish(c) ==
    LET h == run[c].ce
        after == ces[h].after
    IN
    /\ run[c].pc = "finish"
    /\ \/ /\ after \in {"none", "noop", "custom"}
          /\ run' = [run EXCEPT ![c].pc = "returned", ![c].ce = None]
          /\ Release(h)
          /\ UNCHANGED exited
       \/ /\ after \in {"panic", "goexit"}
          /\ run' = [run EXCEPT ![c].pc = "gone"]
          /\ UNCHANGED <<poolVars, exited>>
       \/ /\ after = "fatal"
          /\ exited' = TRUE
          /\ UNCHANGED <<poolVars, run>>
    /\ UNCHANGED <<level, file, durable, faults, settings, pastVars>>

-----------------------------------------------------------------------------
(* AtomicLevel.SetLevel, from any goroutine.                                *)
SetLevel ==
    /\ settings < MaxSettings
    /\ settings' = settings + 1
    /\ \E lv \in Settings \ {level} :
        /\ level' = lv
        /\ LET gates(c) == {o \in Outs : /\ PassesFilter(run[c].via, run[c].lvl)
                                        /\ GateOpen(o, run[c].lvl, lv)}
               asking == {c \in Calls : run[c].pc \in Checking}
           IN /\ open' = [c \in Calls |-> IF c \in asking THEN open[c] \cap gates(c) ELSE open[c]]
              /\ ever' = [c \in Calls |-> IF c \in asking THEN ever[c] \cup gates(c) ELSE ever[c]]
    /\ UNCHANGED <<poolVars, run, file, durable, exited, faults, missed, reports>>

Call(c) ==
    \/ Begin(c) \/ Visit(c) \/ Annotate(c)
    \/ BeginWrite(c) \/ WriteCore(c) \/ CoreFails(c) \/ SyncCore(c) \/ Report(c) \/ Finish(c)

Next == ~exited /\ (SetLevel \/ \E c \in Calls : Call(c))

Spec == Init /\ [][Next]_vars
=============================================================================
