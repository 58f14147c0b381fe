---------------------------- MODULE LogCallProps ----------------------------
(***************************************************************************)
(* What a log call promises, whatever other calls and SetLevel do meanwhile.*)
(***************************************************************************)
EXTENDS LogCall

Active == {c \in Calls : run[c].pc \in Checking \cup Writing}

(* _cePool never hands one CheckedEntry to two calls, and none that a call  *)
(* still works with lies in the pool.                                       *)
NoEntryShared ==
    \A c \in Active : run[c].ce # None =>
        /\ run[c].ce \notin pool
        /\ \A d \in Active \ {c} : run[d].ce # run[c].ce

(* An entry reaches an output at most once, and only one whose routing and  *)
(* filter accept it and whose gate was open at some time during the check:  *)
(* a recycled CheckedEntry brings no core of its former life along, and a   *)
(* global level lowered at run time no level the output excludes.           *)
OnlyWhereEnabled ==
    \A o \in Outs :
        /\ IsInjective(file[o])
        /\ \A i \in DOMAIN file[o] :
            LET c == file[o][i]  l == run[c].lvl IN
                /\ o \in ever[c] /\ PassesFilter(run[c].via, l)
                /\ IF Outputs[o].allow = {} THEN l \notin Outputs[o].deny
                                           ELSE l \in Outputs[o].allow

(* An output whose gate stayed open during the check gets the entry, unless *)
(* its own encode or write fails; another output's failure costs it nothing.*)
NoOutputMissed ==
    \A c \in Calls : run[c].pc \in {"finish"} \cup Ended =>
        \A o \in open[c] : c \in Range(file[o]) \/ <<c, o>> \in missed

(* A call at PanicLevel or FatalLevel (or, in development, DPanicLevel) does*)
(* not go on after the log call unless the user's own hook lets it, even if *)
(* the level is disabled.                                                   *)
NoReturnFromTerminal ==
    \A c \in Calls : run[c].pc \in {"skipped", "returned"} =>
        /\ run[c].lvl = PanicLevel => OnPanic = "custom"
        /\ run[c].lvl = DPanicLevel /\ Development => OnPanic = "custom"
        /\ run[c].lvl = FatalLevel => OnFatal = "custom"

(* slcore/core.go:88: when a Fatal or Panic entry has been written, that    *)
(* entry and everything before it in the same output is durable before the  *)
(* terminal behaviour runs.                                                 *)
SevereIsDurable ==
    \A c \in Calls : run[c].pc \in {"finish", "gone"} =>
        \A o \in Outs : \A i \in DOMAIN file[o] :
            (file[o][i] = c /\ run[c].lvl > ErrorLevel) => durable[o] >= i

(* A failed write is reported once on the ErrorOutput, however many outputs *)
(* failed and whichever came last.                                          *)
FailureIsReported ==
    \A c \in Calls : run[c].pc \in {"finish"} \cup Ended =>
        reports[c] = IF \E o \in Outs : <<c, o>> \in missed THEN 1 ELSE 0

-----------------------------------------------------------------------------
(* The strengthening that makes NoEntryShared, NoReturnFromTerminal and      *)
(* FailureIsReported inductive.                                             *)

(* A CheckedEntry a call has taken is its own until Write has released it.  *)
Apart ==
    \A c \in Calls : run[c].ce # None =>
        /\ run[c].ce \in made \ pool
        /\ \A d \in Calls \ {c} : run[d].ce # run[c].ce

(* What the CheckedEntry e of call c holds while the call stands at r.      *)
CheckingFits(c, r, e) ==
    /\ r.pc = "new" => r.ce = None /\ r.at = 1
    /\ r.pc = "check" => r.at \in Outs
    /\ r.pc \in {"new", "run"} \cup Checking => ~r.failed
    /\ r.pc \in Checking /\ r.ce # None =>
        e.entry = c /\ ~e.dirty /\ Len(e.cores) < r.at

WritingFits(c, r, e) ==
    r.pc \in Writing =>
        /\ r.ce # None /\ e.entry = c
        /\ e.after = Terminal(r.lvl)
        /\ Len(e.cores) <= Len(Outputs)
        /\ e.cores # <<>> => e.errorOutput
        /\ r.pc = "run" => ~e.dirty
        /\ r.pc = "write" => r.at <= Len(e.cores) + 1
        /\ r.pc = "sync" => r.at <= Len(e.cores)
        /\ r.pc \in {"write", "sync"} => r.ent = c /\ (r.failed => e.errorOutput)

Fits ==
    \A c \in Calls :
        /\ CheckingFits(c, run[c], ces[run[c].ce])
        /\ WritingFits(c, run[c], ces[run[c].ce])

(* The failures of a call are remembered until they are reported.           *)
FailuresKept ==
    \A c \in Calls : run[c].pc \notin {"finish"} \cup Ended =>
        /\ reports[c] = 0
        /\ run[c].failed <=> \E o \in Outs : <<c, o>> \in missed

IInv ==
    /\ TypeOK
    /\ Apart
    /\ Fits
    /\ FailuresKept
    /\ FailureIsReported
    /\ NoReturnFromTerminal

-----------------------------------------------------------------------------
(* The strengthening that makes OnlyWhereEnabled, NoOutputMissed and         *)
(* SevereIsDurable inductive.                                               *)

(* The cores a call's CheckedEntry holds; a call keeps them to the end of    *)
(* Write.                                                                   *)
Taken(c) == IF run[c].ce = None THEN <<>> ELSE ces[run[c].ce].cores

GateOpenFor(c, o) ==
    PassesFilter(run[c].via, run[c].lvl) /\ GateOpen(o, run[c].lvl, level)

(* What open and ever record while the check goes on.                       *)
GatesFit(c) ==
    /\ run[c].pc = "check" => PassesFilter(run[c].via, run[c].lvl)
    /\ run[c].pc \in Checking =>
        \A o \in Outs : /\ o \in open[c] => GateOpenFor(c, o)
                        /\ GateOpenFor(c, o) => o \in ever[c]

(* Cores are taken in the order of the outputs, each while its gate is open.*)
TakenFits(c) ==
    run[c].pc \in Checking \cup Writing =>
        \A i \in DOMAIN Taken(c) :
            /\ Taken(c)[i] \in ever[c]
            /\ PassesFilter(run[c].via, run[c].lvl)
            /\ Routes(Taken(c)[i], run[c].lvl)
            /\ run[c].pc = "check" => Taken(c)[i] < run[c].at
            /\ \A j \in DOMAIN Taken(c) : i < j => Taken(c)[i] < Taken(c)[j]

Served(c, o) == c \in Range(file[o]) \/ <<c, o>> \in missed

(* Core i of the call has had its turn.                                     *)
Passed(c, i) == i < run[c].at \/ (run[c].pc = "sync" /\ i = run[c].at)

(* An output of open that has been asked is taken, then served.             *)
OpenFits(c) ==
    /\ run[c].pc \in {"check", "annotate", "run", "write", "sync"} =>
        \A o \in open[c] : (run[c].pc = "check" => o < run[c].at) => o \in Range(Taken(c))
    /\ run[c].pc \in {"write", "sync"} =>
        \A i \in DOMAIN Taken(c) : Passed(c, i) => Served(c, Taken(c)[i])
    /\ run[c].pc \in {"finish"} \cup Ended => \A o \in open[c] : Served(c, o)

(* Entry i of output o, written by call c.                                  *)
EntryFits(o, i, c) ==
    /\ o \in ever[c]
    /\ PassesFilter(run[c].via, run[c].lvl) /\ Routes(o, run[c].lvl)
    /\ run[c].pc \in {"write", "sync", "finish"} \cup Ended
    /\ run[c].pc \in {"write", "sync"} =>
        \E j \in DOMAIN Taken(c) : Taken(c)[j] = o /\ Passed(c, j)
    /\ (SyncsAfter(run[c].lvl) /\ (run[c].pc = "sync" => Taken(c)[run[c].at] # o)) => durable[o] >= i

RouteInv ==
    /\ file \in [Outs -> Seq(Calls)] /\ durable \in [Outs -> Nat]
    /\ \A c \in Calls : GatesFit(c) /\ TakenFits(c) /\ OpenFits(c)
    /\ \A o \in Outs :
        /\ IsInjective(file[o])
        /\ \A i \in DOMAIN file[o] : EntryFits(o, i, file[o][i])
=============================================================================
