--------------------------- MODULE LifecycleProps ---------------------------
(***************************************************************************)
(* What a program may rely on from Build, from Close and from the undo      *)
(* functions of the globals.                                                *)
(***************************************************************************)
EXTENDS Lifecycle

Owned(n) == UNION ToSet(loggers[n].closers)

\* The handles of an output whose level filter was found to name no level.
LeftBehind == {h \in open : /\ h.output # 0
                            /\ ~loggers[h.logger].ok
                            /\ LET o == loggers[h.logger].cfg.outputs[h.output] IN
                                 FiltersByNothing(o.levels) \/ FiltersByNothing(o.exclude)}

\* Every open file, rolling writer and worker belongs to a logger that will
\* close it, and a logger nobody has closed finds all of its own open.  Two
\* kinds are nobody's: error outputs, whose closer Build drops, and what a
\* filter without a valid level leaves behind (src/config.go:288-299, 331-350,
\* 387-405).
HandlesAreAccountedFor ==
    /\ \A h \in open : \/ h.logger \in Alive /\ (h.output = 0 \/ h \in Owned(h.logger))
                       \/ h \in LeftBehind
    /\ \A n \in Alive : loggers[n].once = "new" => Owned(n) \subseteq open
    /\ \A n \in Alive : loggers[n].once = "done" => Owned(n) \cap open = {}

\* When any caller's Close has returned, first caller or not, on the logger or
\* on a clone of it, all its writers are closed, and each rolling writer's
\* files hold every line its queue accepted, in the order of acceptance
\* (src/logger.go:244-251, the closers' order in src/config.go:464-471).
CloseIsFinal ==
    \A r \in returned :
        /\ Owned(r[2]) \cap open = {}
        /\ \A aw \in DOMAIN queue :
             aw.logger = r[2] => file[Inner(aw)] = taken[aw]

\* A line that some output refused is on the logger's error output, however
\* late it came: Close never closes where it is reported (src/config.go:293,
\* 348: the closer of the error output is not among the logger's).
RefusalsAreReported == refused \subseteq reported

\* While no redirect has been refused: with all undo functions run, the last
\* one taken first, L() is the logger of the start and the standard logger has
\* its flags, prefix and output; and at all times S() wraps the logger of L()
\* (src/global.go:58-65, 104-120).
UndoneIsAsBefore ==
    /\ globalS = globalL
    /\ undos = <<>> /\ ~misdirected =>
         /\ globalL = NopLogger
         /\ std = [flags |-> Default, prefix |-> Default, out |-> Stderr]
=============================================================================
