------------------------------ MODULE Sampler ------------------------------
(***************************************************************************)
(* slcore/sampler.go: the decision of sampler.Check for entries that share  *)
(* a counter - the same level and message, or a collision of their hashes -  *)
(* taken by goroutines that run IncCheckReset at the same time without a    *)
(* lock.  The time of an entry is read in Logger.check, before the counter. *)
(*                                                                         *)
(* Every step is one atomic operation.  Counters made with With share the   *)
(* counts of their parent, so one counter serves a tree of loggers.  The    *)
(* 64-bit counter does not wrap.                                            *)
(***************************************************************************)
EXTENDS Integers, FiniteSets

CONSTANTS
    Calls,       \* the calls of Check
    Tick,        \* sampler.tick
    First,       \* the argument first; negative is a huge uint64
    Thereafter,  \* the argument thereafter; likewise
    MaxClock     \* bound: the clock

ASSUME SamplerConstants ==
    /\ IsFiniteSet(Calls)
    /\ Tick \in Nat \ {0}
    /\ First \in Int /\ Thereafter \in Int
    /\ MaxClock \in Nat

VARIABLES
    clock,
    resetAt, counter,  \* of the shared counter
    pc,       \* where each call stands
    t,        \* ent.Time
    read,     \* resetAfter
    n         \* what IncCheckReset returned, 0 before

(* History variables.                                                      *)
VARIABLES
    opened,   \* per window: the time of the entry that opened it
    window,   \* per call: the window its answer counted in, 0 before
    stores,   \* per window: the stores of 1 that fell into it
    raced     \* windows in which resets overlapped

vars == <<clock, resetAt, counter, pc, t, read, n, opened, window, stores, raced>>
pastVars == <<opened, window, stores, raced>>

Windows == 0 .. Cardinality(Calls)

TypeOK ==
    /\ clock \in 0 .. MaxClock
    /\ resetAt \in {0} \cup Tick .. MaxClock + Tick
    /\ counter \in 0 .. Cardinality(Calls)
    /\ pc \in [Calls -> {"new", "load", "add", "store", "swap", "done"}]
    /\ t \in [Calls -> 0 .. MaxClock]
    /\ read \in [Calls -> Nat]
    /\ n \in [Calls -> 0 .. Cardinality(Calls)]
    /\ DOMAIN opened \subseteq Windows
    /\ window \in [Calls -> Windows]
    /\ stores \in [Windows -> Nat]
    /\ raced \subseteq Windows

Init ==
    /\ clock = 0
    /\ resetAt = 0 /\ counter = 0
    /\ pc = [c \in Calls |-> "new"]
    /\ t = [c \in Calls |-> 0]
    /\ read = [c \in Calls |-> 0]
    /\ n = [c \in Calls |-> 0]
    /\ opened = <<>>
    /\ window = [c \in Calls |-> 0]
    /\ stores = [w \in Windows |-> 0]
    /\ raced = {}

-----------------------------------------------------------------------------
(* The decision.                                                           *)

(* uint64(first), uint64(thereafter): a negative limit is never exceeded, a *)
(* negative stride never met.                                               *)
Dropped(k) ==
    /\ First >= 0 /\ k > First
    /\ ~(Thereafter > 0 /\ (k - First) % Thereafter = 0)

Sampled == {c \in Calls : pc[c] = "done" /\ ~Dropped(n[c])}

Current == Cardinality(DOMAIN opened)
In(w) == {c \in Calls : pc[c] = "done" /\ window[c] = w}
Resetting(c) == \E d \in Calls \ {c} : pc[d] \in {"store", "swap"}

-----------------------------------------------------------------------------
(* IncCheckReset.                                                          *)

Answer(c, k, w) ==
    /\ n' = [n EXCEPT ![c] = k]
    /\ window' = [window EXCEPT ![c] = w]

Stamp(c) ==
    /\ pc[c] = "new"
    /\ t' = [t EXCEPT ![c] = clock]
    /\ pc' = [pc EXCEPT ![c] = "load"]
    /\ UNCHANGED <<clock, resetAt, counter, read, n, pastVars>>

Load(c) ==
    /\ pc[c] = "load"
    /\ read' = [read EXCEPT ![c] = resetAt]
    /\ pc' = [pc EXCEPT ![c] = IF resetAt > t[c] THEN "add" ELSE "store"]
    /\ UNCHANGED <<clock, resetAt, counter, t, n, pastVars>>

Add(c) ==
    /\ pc[c] = "add"
    /\ counter' = counter + 1
    /\ pc' = [pc EXCEPT ![c] = "done"]
    /\ Answer(c, counter + 1, Current)
    /\ raced' = IF Resetting(c) THEN raced \cup {Current, Current + 1} ELSE raced
    /\ UNCHANGED <<clock, resetAt, t, read, opened, stores>>

StartsFromZero == 0
StartsFrom == 1

Store(c) ==
    /\ pc[c] = "store"
    /\ counter' = StartsFrom
    /\ pc' = [pc EXCEPT ![c] = "swap"]
    /\ stores' = [stores EXCEPT ![Current] = @ + 1]
    /\ raced' = IF Resetting(c) THEN raced \cup {Current, Current + 1} ELSE raced
    /\ UNCHANGED <<clock, resetAt, t, read, n, opened, window>>

NewReset(c) == t[c] + Tick

Swaps(c) == resetAt = read[c]

(* The loser of the race for a window counts itself in again.               *)
LoserAnswersOne(c) ==
    /\ Answer(c, 1, Current)
    /\ pc' = [pc EXCEPT ![c] = "done"]
LoserGoesOn(c) ==
    /\ pc' = [pc EXCEPT ![c] = "add"]
    /\ UNCHANGED <<n, window>>

Swap(c) ==
    /\ pc[c] = "swap"
    /\ IF Swaps(c)
       THEN /\ resetAt' = NewReset(c)
            /\ pc' = [pc EXCEPT ![c] = "done"]
            /\ opened' = [w \in 1 .. Current + 1 |-> IF w > Current THEN t[c] ELSE opened[w]]
            /\ Answer(c, 1, Current + 1)
       ELSE LoserGoesOn(c) /\ UNCHANGED <<resetAt, opened>>
    /\ UNCHANGED <<clock, counter, t, read, stores, raced>>

Advance ==
    /\ clock < MaxClock
    /\ clock' = clock + 1
    /\ UNCHANGED <<resetAt, counter, pc, t, read, n, pastVars>>

Check(c) == Stamp(c) \/ Load(c) \/ Add(c) \/ Store(c) \/ Swap(c)

Next == Advance \/ \E c \in Calls : Check(c)

Spec == Init /\ [][Next]_vars
-----------------------------------------------------------------------------
(* sampler.go:128-131: while resets do not overlap, the k-th entry of a     *)
(* window is judged as the k-th: the answers of a window are 1 .. k.        *)
ExactUnlessRaced ==
    \A w \in 1 .. Current : w \notin raced =>
        {n[c] : c \in In(w)} = 1 .. Cardinality(In(w))

(* sampler.go:75-78: however many goroutines race to open a window, one of  *)
(* them is its first entry.                                                 *)
OneFirstEntry == \A w \in 1 .. Current : Cardinality({c \in In(w) : n[c] = 1}) = 1

(* A window lasts a tick at least: the times of the entries that open       *)
(* windows lie a tick apart, even when an old entry comes late.             *)
WindowsApart ==
    \A w \in 1 .. Current - 1 : opened[w + 1] >= opened[w] + Tick

(* sampler.go:145-147: "each tick may be slightly over-sampled".  With      *)
(* thereafter zero, every reset that falls into a window lets at most       *)
(* First - 1 entries more through it.                                       *)
OversamplingIsBounded ==
    (First >= 1 /\ Thereafter <= 0) =>
        \A w \in 1 .. Current :
            Cardinality(In(w) \cap Sampled) <= First + (First - 1) * stores[w]
=============================================================================
