-------------------------------- MODULE Cores --------------------------------
(***************************************************************************)
(* The cores a logger is put together from (slcore/core.go, tee.go,         *)
(* hooks.go, increase_level.go, lazy_with.go) as trees, and what Enabled,   *)
(* Level, With and Check do on them.  Cores are immutable, except that a    *)
(* lazy core encodes its fields once, when it is first needed: at[id] is    *)
(* the time at which the lazy core id did so, or None.                      *)
(*                                                                          *)
(* What a With call added is the pair of its id and the time its fields     *)
(* were encoded: a field may hold an object that changes.                   *)
(***************************************************************************)
EXTENDS Integers, Sequences, FiniteSets, SequencesExt, FiniteSetsExt

CONSTANT None

Debug == -1
Error == 2
DPanic == 3
Panic == 4
Fatal == 5
Levels == Debug .. Fatal
InvalidLevel == Fatal + 1

IoCore(sinks, levels) == [k |-> "io", sinks |-> sinks, levels |-> levels, ctx |-> <<>>]
NopCore == [k |-> "nop"]
NewTee(cores) == IF cores = <<>> THEN NopCore
                 ELSE IF Len(cores) = 1 THEN cores[1] ELSE [k |-> "tee", cores |-> cores]
RegisterHooks(core, hook) == [k |-> "hook", core |-> core, hook |-> hook]
NewLazyWith(core, id) == [k |-> "lazy", core |-> core, id |-> id]
LevelFilter(core, min) == [k |-> "filter", core |-> core, min |-> min]

RECURSIVE Enabled(_, _)
Enabled(c, lvl) ==
    CASE c.k = "io"     -> lvl \in c.levels
      [] c.k = "nop"    -> FALSE
      [] c.k = "tee"    -> \E i \in DOMAIN c.cores : Enabled(c.cores[i], lvl)
      [] c.k = "filter" -> lvl >= c.min
      [] OTHER          -> Enabled(c.core, lvl)

Lowest(levels) == Min(levels \cup {InvalidLevel})

(* LevelOf: a tee and a filter know their level, the others try each one.   *)
RECURSIVE LevelOf(_)
LevelOfHighest(c) ==
    IF c.k = "tee" THEN Max({LevelOf(c.cores[i]) : i \in DOMAIN c.cores} \cup {Debug})
    ELSE Lowest({l \in Levels : Enabled(c, l)})
LevelOf(c) ==
    CASE c.k = "tee"    -> Min({LevelOf(c.cores[i]) : i \in DOMAIN c.cores} \cup {Fatal})
      [] c.k = "filter" -> Lowest({l \in Levels : l >= c.min})
      [] OTHER          -> Lowest({l \in Levels : Enabled(c, l)})

(* NewIncreaseLevelCore refuses a filter that enables what the core does    *)
(* not; IncreaseLevel then leaves the core as it was.                       *)
Increasable(c, min) == \A l \in Levels : l >= min => Enabled(c, l)

(* The lazy cores whose fields With, and Check at a level, make encode.     *)
RECURSIVE LazyIn(_)
LazyIn(c) ==
    CASE c.k \in {"io", "nop"} -> {}
      [] c.k = "tee"  -> UNION {LazyIn(c.cores[i]) : i \in DOMAIN c.cores}
      [] c.k = "lazy" -> {c.id} \cup LazyIn(c.core)
      [] OTHER        -> LazyIn(c.core)

RECURSIVE Touched(_, _)
Touched(c, lvl) ==
    CASE c.k \in {"io", "nop"} -> {}
      [] c.k = "tee"    -> UNION {Touched(c.cores[i], lvl) : i \in DOMAIN c.cores}
      [] c.k = "filter" -> IF lvl >= c.min THEN Touched(c.core, lvl) ELSE {}
      [] c.k = "hook"   -> Touched(c.core, lvl)
      [] OTHER          -> IF Enabled(c.core, lvl) THEN LazyIn(c) ELSE {}

(* initOnce, for the lazy cores ids; a core that has run it keeps its time. *)
InitAgain(at, ids, now) == [id \in DOMAIN at |-> IF id \in ids THEN now ELSE at[id]]
InitOnce(at, ids, now) ==
    [id \in DOMAIN at |-> IF id \in ids /\ at[id] = None THEN now ELSE at[id]]

(* With: every core is cloned, and what wraps a core is wrapped around the  *)
(* clone; a lazy core hands the fields to the core it has become.           *)
RECURSIVE With(_, _, _), WithHookLost(_, _, _)
Became(c, at) == With(c.core, <<c.id, at[c.id]>>, at)
WithHookLost(c, f, at) ==
    CASE c.k = "hook" -> With(c.core, f, at)
      [] c.k = "lazy" -> With(Became(c, at), f, at)
      [] c.k = "tee"  -> [c EXCEPT !.cores = [i \in DOMAIN @ |-> With(@[i], f, at)]]
      [] c.k = "io"   -> [c EXCEPT !.ctx = Append(@, f)]
      [] OTHER        -> c
With(c, f, at) ==
    CASE c.k = "io"   -> [c EXCEPT !.ctx = Append(@, f)]
      [] c.k = "nop"  -> c
      [] c.k = "tee"  -> [c EXCEPT !.cores = [i \in DOMAIN @ |-> With(@[i], f, at)]]
      [] c.k = "lazy" -> With(Became(c, at), f, at)
      [] OTHER        -> [c EXCEPT !.core = With(@, f, at)]

(* A CheckedEntry: the cores that agreed to write and the hooks to run      *)
(* before; Unchecked is nil.  A tee hands one CheckedEntry through all its  *)
(* branches, and a hook core adds itself to whatever is not nil.            *)
Unchecked == [cores |-> <<>>, before |-> <<>>]

RECURSIVE Check(_, _, _, _)
Check(c, lvl, ce, at) ==
    CASE c.k = "io"     -> IF lvl \in c.levels THEN [ce EXCEPT !.cores = Append(@, c)] ELSE ce
      [] c.k = "nop"    -> ce
      [] c.k = "tee"    -> FoldLeft(LAMBDA e, b : Check(b, lvl, e, at), ce, c.cores)
      [] c.k = "filter" -> IF lvl >= c.min THEN Check(c.core, lvl, ce, at) ELSE ce
      [] c.k = "hook"   ->
            LET checked == Check(c.core, lvl, ce, at)
            IN  IF checked = Unchecked THEN Unchecked
                ELSE [checked EXCEPT !.before = Append(@, c.hook)]
      [] OTHER          -> IF Enabled(c.core, lvl) THEN Check(Became(c, at), lvl, ce, at) ELSE ce
=============================================================================
