-------------------------------- MODULE Logger --------------------------------
(***************************************************************************)
(* Loggers that are derived from one another (logger.go, options.go) and    *)
(* the log calls on them, plain and sugared (sugar.go), down to the sinks   *)
(* of a multiWriteSyncer.  A logger and its cores never change after they   *)
(* were made, so a call is one step here; LogCall and EncodePath look into  *)
(* the steps of a call.                                                     *)
(***************************************************************************)
EXTENDS Cores

CONSTANTS
    Sinks,          \* what the io cores write to
    Bases,          \* the cores a first logger may be made from
    Names,          \* the names that Named may add
    Hooks,          \* the functions that the option Hooks may register
    BranchHooks,    \* the functions that the cores of a base may have registered
    LogLevels,      \* the levels that calls use
    Arguments,      \* the argument lists of sugared calls
    MaxArguments,   \* bound on the lists that SweetenFields is checked for
    MaxLoggers,     \* bound on loggers
    MaxCalls,       \* bound on calls
    MaxTime,        \* bound on changes of the objects in fields
    MaxFaults,      \* bound on calls that a sink fails
    MaxBad          \* bound on sinks that fail in one call

VARIABLES
    loggers,    \* their cores and names; made: the options each went through
    at,         \* when each lazy core encoded its fields
    now,        \* the time, as far as the objects in fields change
    lines,      \* what each sink holds
    ran,        \* the entries each hook was run for
    failed,     \* the entries the error output has a line about
    calls       \* the calls so far

outputs == <<lines, ran, failed>>
vars == <<loggers, at, now, outputs, calls>>

Init ==
    /\ \E base \in Bases : loggers = <<[core |-> base, name |-> <<>>, base |-> base, made |-> <<>>]>>
    /\ at = <<None>>
    /\ now = 0
    /\ lines = [s \in Sinks |-> <<>>]
    /\ ran = [h \in Hooks \cup BranchHooks |-> <<>>]
    /\ failed = {}
    /\ calls = <<>>

(* clone and apply; step is what the logger is remembered to have gone      *)
(* through.                                                                 *)
Derive(l, changes, step) ==
    /\ Len(loggers) < MaxLoggers
    /\ loggers' = Append(loggers, [changes @@ loggers[l] EXCEPT !.made = Append(@, step)])
    /\ UNCHANGED <<now, outputs, calls>>

(* With, and the option Fields.  The id of the new logger names the call.   *)
WithFields(l) ==
    LET id == Len(loggers) + 1
        encoded == InitOnce(at, LazyIn(loggers[l].core), now)
    IN  /\ at' = Append(encoded, None)
        /\ Derive(l, [core |-> With(loggers[l].core, <<id, now>>, encoded)],
                  [op |-> "with", id |-> id, at |-> now])

(* WrapCore with NewLazyWith.                                               *)
WithLazy(l) ==
    LET id == Len(loggers) + 1
    IN  /\ at' = Append(at, None)
        /\ Derive(l, [core |-> NewLazyWith(loggers[l].core, id)],
                  [op |-> "with", id |-> id, at |-> None])

WithHooks(l, h) ==
    /\ at' = Append(at, None)
    /\ Derive(l, [core |-> RegisterHooks(loggers[l].core, h)], [op |-> "hook", hook |-> h])

IncreaseLevel(l, min) ==
    LET core == loggers[l].core
    IN  /\ at' = Append(at, None)
        /\ Derive(l, [core |-> IF Increasable(core, min) THEN LevelFilter(core, min) ELSE core],
                  [op |-> "level", min |-> min])

Named(l, name) ==
    /\ at' = Append(at, None)
    /\ Derive(l, [name |-> loggers[l].name \o name], [op |-> "name", name |-> name])

-----------------------------------------------------------------------------
(* multiWriteSyncer.Write below an io core: every sink is tried.            *)
WriteToUntilError(held, sinks, bad, line) ==
    LET first == SelectInSeq(sinks, LAMBDA s : s \in bad)
        tried == IF first = 0 THEN sinks ELSE SubSeq(sinks, 1, first)
    IN  [s \in Sinks |->
            held[s] \o (IF Contains(tried, s) /\ s \notin bad THEN <<line>> ELSE <<>>)]
WriteTo(held, sinks, bad, line) ==
    [s \in Sinks |->
        held[s] \o (IF Contains(sinks, s) /\ s \notin bad THEN <<line>> ELSE <<>>)]

(* CheckedEntry.Write: the hooks, then the cores; what any of them could    *)
(* not write goes to the error output.                                      *)
WriteEntry(world, ce, bad, ent) ==
    [lines  |-> FoldLeft(LAMBDA held, c : WriteTo(held, c.sinks, bad, ent @@ [ctx |-> c.ctx]),
                         world.lines, ce.cores),
     ran    |-> FoldLeft(LAMBDA r, h : [r EXCEPT ![h] = Append(@, ent.id)], world.ran, ce.before),
     failed |-> world.failed \cup
                {ent.id : c \in {i \in DOMAIN ce.cores : \E s \in bad : Contains(ce.cores[i].sinks, s)}}]

(* Logger.check.  Nothing is written, and no entry made, where no core      *)
(* agrees; Panic and Fatal go on all the same, to their hook.               *)
Checked(l, lvl, encoded) ==
    IF lvl < DPanic /\ ~Enabled(loggers[l].core, lvl) THEN Unchecked
    ELSE Check(loggers[l].core, lvl, Unchecked, encoded)
Proceeds(lvl, ce) == ce # Unchecked \/ lvl \in {Panic, Fatal}

(* Field, bare error, dangling key, pair: what sweetenFields makes of the   *)
(* arguments from i on.  An argument is known by its place; a report is an  *)
(* entry of its own about the arguments it takes out.                       *)
RECURSIVE Sweeten(_, _, _)
SweetenPairQuietly(args, i, s) ==
    Sweeten(args, i + 2,
            IF args[i] = "string" THEN [s EXCEPT !.fields = @ \o <<i, i + 1>>] ELSE s)
SweetenPair(args, i, s) ==
    Sweeten(args, i + 2,
            IF args[i] = "string" THEN [s EXCEPT !.fields = @ \o <<i, i + 1>>]
                                  ELSE [s EXCEPT !.invalid = @ \o <<i, i + 1>>])
Sweeten(args, i, s) ==
    CASE i > Len(args) ->
            IF s.invalid = <<>> THEN s ELSE [s EXCEPT !.reports = Append(@, s.invalid)]
      [] i <= Len(args) /\ args[i] = "field" ->
            Sweeten(args, i + 1, [s EXCEPT !.fields = Append(@, i)])
      [] i <= Len(args) /\ args[i] = "error" ->
            Sweeten(args, i + 1,
                    IF ~s.seenError THEN [s EXCEPT !.fields = Append(@, i), !.seenError = TRUE]
                                    ELSE [s EXCEPT !.reports = Append(@, <<i>>)])
      [] i = Len(args) /\ args[i] \notin {"field", "error"} ->
            Sweeten(args, i + 1, [s EXCEPT !.reports = Append(@, <<i>>)])
      [] OTHER -> SweetenPair(args, i, s)

SweetenFields(args) ==
    Sweeten(args, 1, [fields |-> <<>>, reports |-> <<>>, invalid |-> <<>>, seenError |-> FALSE])

(* A call: the entries it comes to, in the order they are written.          *)
Call(l, lvl, args, bad) ==
    LET lazy == Touched(loggers[l].core, lvl)
        proceeds == Proceeds(lvl, Checked(l, lvl, InitOnce(at, lazy, now)))
        sweet == SweetenFields(args)
        reports == IF proceeds THEN sweet.reports ELSE <<>>
        encoded == InitOnce(at, lazy \cup IF reports = <<>> THEN {}
                                          ELSE Touched(loggers[l].core, Error), now)
        entry(level, says) == [id |-> Len(calls) + 1, level |-> level, name |-> loggers[l].name,
                               says |-> says]
        entries == [i \in DOMAIN reports |-> entry(Error, reports[i])]
                   \o (IF proceeds THEN <<entry(lvl, sweet.fields)>> ELSE <<>>)
        world == FoldLeft(LAMBDA w, e : WriteEntry(w, Checked(l, e.level, encoded), bad, e),
                          [lines |-> lines, ran |-> ran, failed |-> failed], entries)
    IN  /\ Len(calls) < MaxCalls
        /\ at' = encoded
        /\ lines' = world.lines
        /\ ran' = world.ran
        /\ failed' = world.failed
        /\ calls' = Append(calls, [l |-> l, level |-> lvl, args |-> args, bad |-> bad])
        /\ UNCHANGED <<loggers, now>>

(* An object that some fields hold changes.                                 *)
Change ==
    /\ now < MaxTime
    /\ now' = now + 1
    /\ UNCHANGED <<loggers, at, outputs, calls>>

Faults ==
    {{}} \cup
    IF Cardinality({i \in DOMAIN calls : calls[i].bad # {}}) < MaxFaults
    THEN {s \in SUBSET Sinks : Cardinality(s) <= MaxBad} ELSE {}

Next ==
    \/ \E l \in DOMAIN loggers :
        \/ WithFields(l)
        \/ WithLazy(l)
        \/ \E h \in Hooks : WithHooks(l, h)
        \/ \E min \in LogLevels : IncreaseLevel(l, min)
        \/ \E name \in Names : Named(l, name)
        \/ \E lvl \in LogLevels, args \in Arguments, bad \in Faults : Call(l, lvl, args, bad)
    \/ Change

Spec == Init /\ [][Next]_vars
=============================================================================
