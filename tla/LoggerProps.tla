----------------------------- MODULE LoggerProps -----------------------------
(***************************************************************************)
(* What a logger promises, told from the options it went through (made) and *)
(* the calls, without looking at its cores.                                 *)
(***************************************************************************)
EXTENDS Logger

(* The io cores of a base, each with the hooks that were put around it.     *)
RECURSIVE Leaves(_, _)
Leaves(base, hooks) ==
    CASE base.k = "nop"  -> <<>>
      [] base.k = "io"   -> <<[sinks |-> base.sinks, levels |-> base.levels, hooks |-> hooks]>>
      [] base.k = "hook" -> Leaves(base.core, hooks \cup {base.hook})
      [] OTHER           -> FlattenSeq([i \in DOMAIN base.cores |-> Leaves(base.cores[i], hooks)])

(* The levels that the first n options leave: an IncreaseLevel counts if it *)
(* only takes levels away.                                                  *)
RECURSIVE Open(_, _)
Open(logger, n) ==
    IF n = 0 THEN UNION {Leaves(logger.base, {})[i].levels : i \in DOMAIN Leaves(logger.base, {})}
    ELSE LET before == Open(logger, n - 1)
             step == logger.made[n]
         IN  IF step.op = "level" /\ {v \in Levels : v >= step.min} \subseteq before
             THEN {v \in before : v >= step.min} ELSE before

OpenTo(logger, lvl) == lvl \in Open(logger, Len(logger.made))

(* The sinks that should hold an entry, one for each io core that writes    *)
(* to them.                                                                 *)
Writers(logger, lvl) ==
    IF ~OpenTo(logger, lvl) THEN <<>>
    ELSE SelectSeq(Leaves(logger.base, {}), LAMBDA f : lvl \in f.levels)

Ids(steps) == [i \in DOMAIN steps |-> steps[i].id]
ContextOf(logger) == Ids(SelectSeq(logger.made, LAMBDA s : s.op = "with"))
NameOf(logger) ==
    FlattenSeq([i \in DOMAIN logger.made |->
        IF logger.made[i].op = "name" THEN logger.made[i].name ELSE <<>>])

LinesOf(s, id, lvl) == SelectSeq(lines[s], LAMBDA e : e.id = id /\ e.level = lvl)

-----------------------------------------------------------------------------
(* logger.go:160-161, "Fields added to the child don't affect the parent,   *)
(* and vice versa": whatever else was derived from a logger, and however    *)
(* hooks, filters, lazy cores and tees are nested in it, an entry without   *)
(* arguments goes once through every io core that takes its level and to no *)
(* other, with the logger's own context in its order and its own name; a    *)
(* sink that fails takes no other sink's line and is reported.              *)
EntriesFollowTheirLogger ==
    \A n \in DOMAIN calls :
        LET call == calls[n]
            logger == loggers[call.l]
            writers == Writers(logger, call.level)
        IN  call.args = <<>> =>
                /\ \A s \in Sinks :
                    LET found == LinesOf(s, n, call.level)
                    IN  /\ Len(found) =
                            IF s \in call.bad THEN 0
                            ELSE Len(SelectSeq(writers, LAMBDA f : Contains(f.sinks, s)))
                        /\ \A i \in DOMAIN found :
                            /\ [j \in DOMAIN found[i].ctx |-> found[i].ctx[j][1]] = ContextOf(logger)
                            /\ found[i].name = NameOf(logger)
                /\ (n \in failed) =
                        (\E i \in DOMAIN writers, s \in call.bad : Contains(writers[i].sinks, s))

(* options.go:44-45, Hooks: "functions which will be called each time the   *)
(* Logger writes out an Entry": a hook of the logger runs exactly once for  *)
(* an entry that some core writes, and not for one that none does; a hook   *)
(* around one branch of a tee runs at least for what that branch writes.    *)
HooksSeeWhatIsWritten ==
    \A n \in DOMAIN calls, h \in DOMAIN ran :
        LET call == calls[n]
            logger == loggers[call.l]
            writers == Writers(logger, call.level)
            times == Len(SelectSeq(ran[h], LAMBDA id : id = n))
            registered == Len(SelectSeq(logger.made, LAMBDA s : s.op = "hook" /\ s.hook = h))
            onBranch == {i \in DOMAIN Leaves(logger.base, {}) :
                            h \in Leaves(logger.base, {})[i].hooks}
        IN  call.args = <<>> =>
                /\ onBranch = {} => times = IF writers = <<>> THEN 0 ELSE registered
                /\ \A i \in DOMAIN writers : h \in writers[i].hooks => times > 0

(* slcore/lazy_with.go: the fields of one With are encoded once.  All the   *)
(* lines that carry them, whichever logger they come from, show the objects *)
(* in them as they were at the same moment: at the With, or for a lazy one  *)
(* at its first use.                                                        *)
ContextIsFrozen ==
    \A s, t \in Sinks : \A i \in DOMAIN lines[s], j \in DOMAIN lines[t] :
        \A m \in DOMAIN lines[s][i].ctx, n \in DOMAIN lines[t][j].ctx :
            lines[s][i].ctx[m][1] = lines[t][j].ctx[n][1] =>
                lines[s][i].ctx[m] = lines[t][j].ctx[n]

Says(sweet) == sweet.fields \o FlattenSeq(sweet.reports)
NothingIsLost ==
    \A n \in 0 .. MaxArguments :
        \A args \in [1 .. n -> {"field", "error", "string", "other"}] :
            \A a \in 1 .. n : Len(SelectSeq(Says(SweetenFields(args)), LAMBDA b : b = a)) = 1

(* sugar.go, sweetenFields: no argument of a sugared call gets lost: each   *)
(* is in the entry itself or in exactly one report beside it, in every sink *)
(* that takes both levels.                                                  *)
EveryArgumentAccounted ==
    /\ NothingIsLost
    /\ \A n \in DOMAIN calls :
        LET call == calls[n]
            logger == loggers[call.l]
            writers == Writers(logger, call.level)
        IN  \A i \in DOMAIN writers : \A s \in Sinks \ call.bad :
                (Contains(writers[i].sinks, s) /\ Error \in writers[i].levels /\ OpenTo(logger, Error)
                    /\ Len(SelectSeq(Leaves(logger.base, {}), LAMBDA f : Contains(f.sinks, s))) = 1) =>
                    LET said == FlattenSeq([k \in DOMAIN lines[s] |->
                                    IF lines[s][k].id = n THEN lines[s][k].says ELSE <<>>])
                    IN  \A a \in DOMAIN call.args :
                            Len(SelectSeq(said, LAMBDA b : b = a)) = 1

(* slcore/level.go, LevelOf: "the minimum enabled log level": what Level    *)
(* says of a logger is the lowest level that Enabled lets through.          *)
LevelIsHonest ==
    \A l \in DOMAIN loggers :
        (\E v \in Levels : Enabled(loggers[l].core, v)) =>
            LevelOf(loggers[l].core) = Lowest({u \in Levels : Enabled(loggers[l].core, u)})
=============================================================================
