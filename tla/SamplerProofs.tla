---------------------------- MODULE SamplerProofs ----------------------------
(***************************************************************************)
(* Windows of the sampler, for every number of goroutines, tick and limits. *)
(* The invariant ties resetAt to the last window opened: a goroutine that   *)
(* wins the swap saw that window expired, so it opens the next one a tick   *)
(* later, and its answer 1 is the only one in it, because every other       *)
(* answer comes from an increment of a counter that already stands at 1.    *)
(* On it rest two more: what the counter stands at in a window nobody raced *)
(* in, and what it still lets through in any window.                        *)
(***************************************************************************)
EXTENDS Sampler, FiniteSetTheorems, FunctionTheorems, TLAPS

Opened == Current \in Nat /\ DOMAIN opened = 1 .. Current

Times ==
    /\ clock \in Nat /\ counter \in Nat /\ resetAt \in Int
    /\ pc \in [Calls -> {"new", "load", "add", "store", "swap", "done"}]
    /\ t \in [Calls -> Nat]
    /\ read \in [Calls -> Int]
    /\ n \in [Calls -> Nat]
    /\ window \in [Calls -> Nat]
    /\ \A w \in 1 .. Current : opened[w] \in Nat

(* The counter has been started before anybody adds to it.                  *)
Started ==
    \/ counter >= 1
    \/ resetAt = 0 /\ \A c \in Calls : pc[c] \in {"new", "load", "store"}

(* resetAt is the end of the last window, and who is about to swap saw it   *)
(* (or an earlier one) expired.                                             *)
EndOfWindow == resetAt = IF Current = 0 THEN 0 ELSE opened[Current] + Tick
SawExpired == \A c \in Calls : pc[c] \in {"store", "swap"} => read[c] <= t[c]

(* Every window has one goroutine that answered 1, and no other.            *)
Winner(w, c) == pc[c] = "done" /\ window[c] = w /\ n[c] = 1
HasWinner ==
    /\ \A w \in 1 .. Current : \E c \in Calls : Winner(w, c)
    /\ \A w \in 1 .. Current : \A c, d \in Calls : Winner(w, c) /\ Winner(w, d) => c = d
    /\ \A c \in Calls : window[c] \in 0 .. Current

IInv ==
    /\ Opened
    /\ Times
    /\ Started
    /\ EndOfWindow
    /\ SawExpired
    /\ HasWinner
    /\ WindowsApart

-----------------------------------------------------------------------------
LEMMA InitIInv == Init => IInv
<1> SUFFICES ASSUME Init PROVE IInv
  OBVIOUS
<1>1. DOMAIN opened = {} /\ Current = 0
  <2>1. DOMAIN opened = {}
    BY DEF Init
  <2>2. QED
    BY <2>1, FS_EmptySet DEF Current
<1>2. 1 .. Current = {} /\ 1 .. Current - 1 = {}
  BY <1>1
<1>3. QED
  BY <1>1, <1>2 DEF Init, IInv, Opened, Times, Started, EndOfWindow, SawExpired, HasWinner,
                   Winner, WindowsApart

(* Steps that open no window and let nobody answer.                         *)
LEMMA Quiet ==
  ASSUME IInv, UNCHANGED <<opened, window, n, resetAt>>,
         \A c \in Calls : pc'[c] = "done" <=> pc[c] = "done"
  PROVE  Opened' /\ EndOfWindow' /\ HasWinner' /\ WindowsApart' /\ Current' = Current
<1>1. Current' = Current
  BY DEF Current
<1>2. \A w : \A c \in Calls : Winner(w, c)' <=> Winner(w, c)
  BY DEF Winner
<1>3. HasWinner'
  BY <1>1, <1>2 DEF IInv, HasWinner
<1>4. QED
  BY <1>1, <1>3 DEF IInv, Opened, EndOfWindow, WindowsApart

LEMMA AnswerByAdding ==
  ASSUME IInv, NEW c \in Calls, Add(c)
  PROVE  IInv'
<1>1. Current' = Current /\ counter >= 1 /\ counter' = counter + 1 /\ counter + 1 # 1
  BY SamplerConstants DEF IInv, Times, Started, Add, Current
<1>2. \A w : \A d \in Calls : Winner(w, d)' <=> Winner(w, d)
  BY <1>1 DEF Winner, Add, Answer, IInv, Times
<1>3. \A d \in Calls : window'[d] \in 0 .. Current
  BY DEF Add, Answer, IInv, HasWinner, Opened, Times
<1>4. HasWinner'
  BY <1>1, <1>2, <1>3 DEF IInv, HasWinner
<1>5. Opened' /\ EndOfWindow' /\ WindowsApart'
  BY <1>1 DEF IInv, Opened, EndOfWindow, WindowsApart, Add
<1>6. Times'
  BY <1>1 DEF IInv, Times, Opened, Add, Answer
<1>7. Started' /\ SawExpired'
  BY <1>1 DEF IInv, Times, Started, SawExpired, Add
<1>8. QED
  BY <1>4, <1>5, <1>6, <1>7 DEF IInv

(* The winner of the swap opens the next window.                            *)
LEMMA WinnerOpens ==
  ASSUME IInv, NEW c \in Calls, Swap(c), Swaps(c)
  PROVE  IInv'
<1> DEFINE k == Current
<1>1. k \in Nat /\ DOMAIN opened = 1 .. k
  BY DEF IInv, Opened
<1>2. opened' = [w \in 1 .. k + 1 |-> IF w > k THEN t[c] ELSE opened[w]]
  BY DEF Swap
<1>3. DOMAIN opened' = 1 .. k + 1 /\ Current' = k + 1
  <2>1. DOMAIN opened' = 1 .. k + 1
    BY <1>2
  <2>2. Cardinality(1 .. k + 1) = k + 1
    BY <1>1, FS_Interval
  <2>3. QED
    BY <2>1, <2>2 DEF Current
<1> HIDE DEF k
<1>k. k = Current
  BY DEF k
<1>4. /\ resetAt' = t[c] + Tick /\ resetAt = read[c] /\ read[c] <= t[c]
      /\ pc[c] = "swap" /\ pc' = [pc EXCEPT ![c] = "done"]
      /\ n' = [n EXCEPT ![c] = 1] /\ window' = [window EXCEPT ![c] = k + 1]
      /\ UNCHANGED <<clock, counter, t, read>>
  BY <1>k DEF Swap, Swaps, NewReset, Answer, IInv, SawExpired
<1>5. Tick \in Nat \ {0}
  BY SamplerConstants
<1>6. counter >= 1
  BY <1>4 DEF IInv, Started
<1>7. \A w \in 1 .. k : opened'[w] = opened[w] /\ opened[w] \in Nat
  BY <1>1, <1>2, <1>k DEF IInv, Times
<1>8. opened'[k + 1] = t[c] /\ t[c] \in Nat
  BY <1>1, <1>2 DEF IInv, Times
<1>9. Opened'
  BY <1>1, <1>3 DEF Opened
<1>10. Times'
  <2>1. \A w \in 1 .. k + 1 : opened'[w] \in Nat
    BY <1>1, <1>7, <1>8
  <2>2. QED
    BY <1>1, <1>3, <1>4, <1>5, <1>8, <2>1 DEF IInv, Times
<1>11. Started' /\ SawExpired'
  BY <1>4, <1>6 DEF Started, IInv, SawExpired, Times
<1>12. EndOfWindow'
  BY <1>1, <1>3, <1>4, <1>8 DEF EndOfWindow
<1>13. WindowsApart'
  <2>1. \A w \in 1 .. k - 1 : opened[w + 1] >= opened[w] + Tick
    BY <1>k DEF IInv, WindowsApart
  <2>2. ASSUME NEW w \in 1 .. k PROVE opened'[w + 1] >= opened'[w] + Tick
    <3>1. CASE w = k
      <4>1. resetAt = opened[k] + Tick
        BY <1>1, <1>k, <3>1 DEF IInv, EndOfWindow
      <4>2. QED
        BY <1>1, <1>4, <1>5, <1>7, <1>8, <3>1, <4>1
    <3>2. CASE w # k
      BY <1>1, <1>7, <2>1, <3>2
    <3>3. QED
      BY <3>1, <3>2
  <2>3. 1 .. Current' - 1 = 1 .. k
    BY <1>1, <1>3
  <2>4. QED
    BY <2>2, <2>3 DEF WindowsApart
<1>14. HasWinner'
  <2>1. \A d \in Calls : window[d] \in 0 .. k
    BY <1>k DEF IInv, HasWinner
  <2>2. \A w \in 1 .. k : \A d \in Calls : Winner(w, d)' <=> Winner(w, d)
    BY <1>1, <1>4, <2>1 DEF Winner, IInv, Times
  <2>3. \A w : w = k + 1 => \A d \in Calls : Winner(w, d)' <=> d = c
    BY <1>1, <1>4, <2>1 DEF Winner, IInv, Times
  <2>4. \A w \in 1 .. k + 1 : w \in 1 .. k \/ w = k + 1
    BY <1>1
  <2>5. \A d \in Calls : window'[d] \in 0 .. k + 1
    BY <1>1, <1>4, <2>1 DEF IInv, Times
  <2>6. \A w \in 1 .. k : \E d \in Calls : Winner(w, d)
    BY <1>k DEF IInv, HasWinner
  <2>7. \A w \in 1 .. k : \A d, e \in Calls : Winner(w, d) /\ Winner(w, e) => d = e
    BY <1>k DEF IInv, HasWinner
  <2>8. \A w \in 1 .. k + 1 : \E d \in Calls : Winner(w, d)'
    BY <2>2, <2>3, <2>4, <2>6
  <2>9. \A w \in 1 .. k + 1 : \A d, e \in Calls : Winner(w, d)' /\ Winner(w, e)' => d = e
    BY <2>2, <2>3, <2>4, <2>7
  <2>10. QED
    BY <1>3, <2>5, <2>8, <2>9 DEF HasWinner
<1>15. QED
  BY <1>9, <1>10, <1>11, <1>12, <1>13, <1>14 DEF IInv

LEMMA NextIInv == IInv /\ [Next]_vars => IInv'
<1> SUFFICES ASSUME IInv, [Next]_vars PROVE IInv'
  OBVIOUS
<1>1. CASE UNCHANGED vars
  <2>1. \A c \in Calls : pc'[c] = "done" <=> pc[c] = "done"
    BY <1>1 DEF vars
  <2>2. QED
    BY <1>1, <2>1, Quiet DEF vars, IInv, Times, Started, SawExpired
<1>2. CASE Advance
  <2>1. \A c \in Calls : pc'[c] = "done" <=> pc[c] = "done"
    BY <1>2 DEF Advance
  <2>2. QED
    BY <1>2, <2>1, Quiet DEF Advance, IInv, Times, Started, SawExpired, pastVars
<1>3. ASSUME NEW c \in Calls, Stamp(c) PROVE IInv'
  <2>1. \A d \in Calls : pc'[d] = "done" <=> pc[d] = "done"
    BY <1>3 DEF Stamp, IInv, Times
  <2>2. Opened' /\ EndOfWindow' /\ HasWinner' /\ WindowsApart' /\ Current' = Current
    BY <1>3, <2>1, Quiet DEF Stamp, pastVars
  <2>3. Times' /\ Started' /\ SawExpired'
    BY <1>3, <2>2 DEF Stamp, pastVars, IInv, Times, Started, SawExpired
  <2>4. QED
    BY <2>2, <2>3 DEF IInv
<1>4. ASSUME NEW c \in Calls, Load(c) PROVE IInv'
  <2>1. \A d \in Calls : pc'[d] = "done" <=> pc[d] = "done"
    BY <1>4 DEF Load, IInv, Times
  <2>2. Opened' /\ EndOfWindow' /\ HasWinner' /\ WindowsApart' /\ Current' = Current
    BY <1>4, <2>1, Quiet DEF Load, pastVars
  <2>3. Times' /\ Started' /\ SawExpired'
    BY <1>4, <2>2 DEF Load, pastVars, IInv, Times, Started, SawExpired
  <2>4. QED
    BY <2>2, <2>3 DEF IInv
<1>5. ASSUME NEW c \in Calls, Store(c) PROVE IInv'
  <2>1. \A d \in Calls : pc'[d] = "done" <=> pc[d] = "done"
    BY <1>5 DEF Store, IInv, Times
  <2>2. Opened' /\ EndOfWindow' /\ HasWinner' /\ WindowsApart' /\ Current' = Current
    BY <1>5, <2>1, Quiet DEF Store
  <2>3. Times' /\ Started' /\ SawExpired'
    BY <1>5, <2>2 DEF Store, StartsFrom, IInv, Times, Started, SawExpired
  <2>4. QED
    BY <2>2, <2>3 DEF IInv
<1>6. ASSUME NEW c \in Calls, Swap(c), ~Swaps(c) PROVE IInv'
  <2>1. UNCHANGED <<opened, window, n, resetAt, clock, counter, t, read>>
        /\ pc[c] = "swap" /\ pc' = [pc EXCEPT ![c] = "add"]
    BY <1>6 DEF Swap, LoserGoesOn
  <2>2. \A d \in Calls : pc'[d] = "done" <=> pc[d] = "done"
    BY <2>1 DEF IInv, Times
  <2>3. Opened' /\ EndOfWindow' /\ HasWinner' /\ WindowsApart' /\ Current' = Current
    BY <2>1, <2>2, Quiet
  <2>4. Times' /\ Started' /\ SawExpired'
    BY <2>1, <2>3 DEF IInv, Times, Started, SawExpired
  <2>5. QED
    BY <2>3, <2>4 DEF IInv
<1>7. QED
  BY <1>1, <1>2, <1>3, <1>4, <1>5, <1>6, AnswerByAdding, WinnerOpens DEF Next, Check

(* The invariant holds in every reachable state.                            *)
THEOREM SamplerInvariance == Spec => []IInv
  BY InitIInv, NextIInv, PTL DEF Spec

(* sampler.go:75-78: of the goroutines that race to open a window exactly   *)
(* one is its first entry.                                                  *)
THEOREM OneFirstEntryCorrect == Spec => []OneFirstEntry
<1>1. IInv => OneFirstEntry
  <2> SUFFICES ASSUME IInv, NEW w \in 1 .. Current
               PROVE  Cardinality({c \in In(w) : n[c] = 1}) = 1
    BY DEF OneFirstEntry
  <2>1. PICK c \in Calls : Winner(w, c)
    BY DEF IInv, HasWinner
  <2>2. {d \in In(w) : n[d] = 1} = {c}
    BY <2>1 DEF IInv, HasWinner, Winner, In
  <2>3. QED
    BY <2>2, FS_Singleton
<1>2. QED
  BY <1>1, SamplerInvariance, PTL

(* sampler.go:66-75: the entries that open windows lie at least a tick      *)
(* apart, however late an old entry reaches the counter.                    *)
THEOREM WindowsApartCorrect == Spec => []WindowsApart
<1>1. IInv => WindowsApart
  BY DEF IInv
<1>2. QED
  BY <1>1, SamplerInvariance, PTL

-----------------------------------------------------------------------------
(* The counter of a window in which resets did not overlap.                 *)

(* Whoever stands between its load and its swap and saw a window close that *)
(* another goroutine has succeeded since.                                   *)
Late(c) == pc[c] \in {"store", "swap"} /\ read[c] # resetAt

ReadsThePast == \A c \in Calls : pc[c] \in {"store", "swap"} => read[c] <= resetAt

(* A window nobody raced in: what the counter stands at.                    *)
CounterExact ==
    (Current >= 1 /\ Current \notin raced) =>
        /\ (\E c \in Calls : Late(c)) => counter = 1 /\ Cardinality(In(Current)) = 1
        /\ (\A c \in Calls : pc[c] # "swap") => counter = Cardinality(In(Current))

(* The goroutine that will open the next window without a race is alone.    *)
SwapsAlone ==
    \A c \in Calls : (pc[c] = "swap" /\ Swaps(c) /\ Current + 1 \notin raced) =>
        /\ counter = 1
        /\ \A d \in Calls \ {c} : pc[d] # "swap"

ExactInv == ReadsThePast /\ ExactUnlessRaced /\ CounterExact /\ SwapsAlone

LEMMA InitExact == Init => ExactInv
<1> SUFFICES ASSUME Init PROVE ExactInv
  OBVIOUS
<1>1. Current = 0
  <2>1. DOMAIN opened = {}
    BY DEF Init
  <2>2. QED
    BY <2>1, FS_EmptySet DEF Current
<1>2. 1 .. Current = {}
  BY <1>1
<1>3. QED
  BY <1>1, <1>2 DEF Init, ExactInv, ReadsThePast, ExactUnlessRaced, CounterExact, SwapsAlone

(* A step in which nobody answers leaves the answers of every window alone. *)
LEMMA SameAnswers ==
  ASSUME IInv, UNCHANGED <<opened, window, n>>,
         \A c \in Calls : pc'[c] = "done" <=> pc[c] = "done"
  PROVE  /\ Current' = Current
         /\ \A w : In(w)' = In(w)
BY DEF Current, In

LEMMA ExactKept ==
  ASSUME IInv, ExactInv, UNCHANGED <<opened, window, n>>, raced \subseteq raced',
         \A c \in Calls : pc'[c] = "done" <=> pc[c] = "done"
  PROVE  ExactUnlessRaced'
<1>1. Current' = Current /\ \A w : In(w)' = In(w)
  BY SameAnswers
<1>2. ASSUME NEW w \in 1 .. Current', w \notin raced'
      PROVE  {n'[c] : c \in In(w)'} = 1 .. Cardinality(In(w)')
  <2>1. w \in 1 .. Current /\ w \notin raced
    BY <1>1, <1>2
  <2>2. {n[c] : c \in In(w)} = 1 .. Cardinality(In(w))
    BY <2>1 DEF ExactInv, ExactUnlessRaced
  <2>3. QED
    BY <1>1, <2>2
<1>3. QED
  BY <1>2 DEF ExactUnlessRaced

(* Such a step that leaves counter, resetAt and raced alone, too, and puts  *)
(* nobody between a store and a swap who was not there.                     *)
LEMMA ExactQuiet ==
  ASSUME IInv, ExactInv, UNCHANGED <<opened, window, n, counter, resetAt, raced>>,
         \A c \in Calls : /\ pc'[c] = "done" <=> pc[c] = "done"
                          /\ pc'[c] = "swap" => pc[c] = "swap" /\ read'[c] = read[c]
                          /\ pc'[c] \in {"store", "swap"} =>
                                \/ read'[c] = resetAt
                                \/ pc[c] \in {"store", "swap"} /\ read'[c] = read[c],
         (\A c \in Calls : pc'[c] # "swap") =>
            (\A c \in Calls : pc[c] # "swap") \/ \E c \in Calls : Late(c)
  PROVE  ExactInv'
<1>1. Current' = Current /\ \A w : In(w)' = In(w)
  BY SameAnswers
<1>2. ExactUnlessRaced'
  BY ExactKept
<1>3. ReadsThePast'
  BY DEF IInv, Times, ExactInv, ReadsThePast
<1>4. \A c \in Calls : Late(c)' => Late(c)
  BY DEF Late
<1>5. CounterExact'
  BY <1>1, <1>4 DEF ExactInv, CounterExact
<1>6. SwapsAlone'
  <2>1. ASSUME NEW c \in Calls, pc'[c] = "swap", Swaps(c)', Current' + 1 \notin raced'
        PROVE  /\ counter' = 1
               /\ \A d \in Calls \ {c} : pc'[d] # "swap"
    <3>1. pc[c] = "swap"
      BY <2>1
    <3>2. Swaps(c)
      BY <2>1, <3>1 DEF Swaps
    <3>3. QED
      BY <1>1, <2>1, <3>1, <3>2 DEF ExactInv, SwapsAlone
  <2>2. QED
    BY <2>1 DEF SwapsAlone
<1>7. QED
  BY <1>2, <1>3, <1>5, <1>6 DEF ExactInv

LEMMA StoreExact ==
  ASSUME IInv, ExactInv, NEW c \in Calls, Store(c)
  PROVE  ExactInv'
<1>1. /\ pc[c] = "store" /\ pc' = [pc EXCEPT ![c] = "swap"] /\ counter' = 1
      /\ raced' = IF Resetting(c) THEN raced \cup {Current, Current + 1} ELSE raced
      /\ UNCHANGED <<clock, resetAt, t, read, n, opened, window>>
  BY DEF Store, StartsFrom
<1>2. /\ pc'[c] = "swap" /\ \A d \in Calls \ {c} : pc'[d] = pc[d]
      /\ \A d \in Calls : pc'[d] = "done" <=> pc[d] = "done"
  BY <1>1 DEF IInv, Times
<1>3. Current' = Current /\ \A w : In(w)' = In(w)
  BY <1>1, <1>2, SameAnswers
<1>4. ExactUnlessRaced' /\ raced \subseteq raced'
  BY <1>1, <1>2, ExactKept
<1>5. ReadsThePast'
  BY <1>1, <1>2 DEF ExactInv, ReadsThePast
<1>6. Resetting(c) => Current \in raced' /\ Current + 1 \in raced'
  BY <1>1
<1>7. ~Resetting(c) => \A d \in Calls \ {c} : pc[d] \notin {"store", "swap"}
  BY DEF Resetting
<1>8. CounterExact'
  <2>1. SUFFICES ASSUME Current >= 1, Current \notin raced', NEW d \in Calls, Late(d)'
                 PROVE  Cardinality(In(Current)) = 1
    BY <1>1, <1>2, <1>3 DEF CounterExact
  <2>2. Current \notin raced /\ ~Resetting(c)
    BY <1>4, <1>6, <2>1
  <2>3. Late(d)
    BY <1>1, <1>2, <1>7, <2>1, <2>2 DEF Late
  <2>4. QED
    BY <2>1, <2>2, <2>3 DEF ExactInv, CounterExact
<1>9. SwapsAlone'
  BY <1>1, <1>2, <1>3, <1>6, <1>7 DEF SwapsAlone
<1>10. QED
  BY <1>4, <1>5, <1>8, <1>9 DEF ExactInv

LEMMA FiniteAnswers ==
  ASSUME NEW w
  PROVE  IsFiniteSet(In(w)) /\ Cardinality(In(w)) \in Nat
<1>1. In(w) \in SUBSET Calls
  BY DEF In
<1>2. QED
  BY <1>1, SamplerConstants, FS_Subset, FS_CardinalityType

LEMMA AddExact ==
  ASSUME IInv, ExactInv, NEW c \in Calls, Add(c)
  PROVE  ExactInv'
<1>1. /\ pc[c] = "add" /\ pc' = [pc EXCEPT ![c] = "done"] /\ counter' = counter + 1
      /\ n' = [n EXCEPT ![c] = counter + 1] /\ window' = [window EXCEPT ![c] = Current]
      /\ raced' = IF Resetting(c) THEN raced \cup {Current, Current + 1} ELSE raced
      /\ UNCHANGED <<clock, resetAt, t, read, opened, stores>>
  BY DEF Add, Answer
<1>2. /\ pc'[c] = "done" /\ n'[c] = counter + 1 /\ window'[c] = Current
      /\ \A d \in Calls \ {c} : pc'[d] = pc[d] /\ n'[d] = n[d] /\ window'[d] = window[d]
  BY <1>1 DEF IInv, Times
<1>3. Current' = Current /\ Current \in Nat /\ counter \in Nat
  BY <1>1 DEF Current, IInv, Opened, Times
<1>4. \A w : w # Current => In(w)' = In(w)
  BY <1>1, <1>2 DEF In
<1>5. In(Current)' = In(Current) \cup {c} /\ c \notin In(Current)
  BY <1>1, <1>2, <1>3 DEF In
<1>6. /\ IsFiniteSet(In(Current)) /\ Cardinality(In(Current)) \in Nat
      /\ Cardinality(In(Current)') = Cardinality(In(Current)) + 1
  BY <1>5, FiniteAnswers, FS_AddElement
<1>7. raced \subseteq raced' /\ (Resetting(c) => Current \in raced' /\ Current + 1 \in raced')
  BY <1>1
<1>8. ~Resetting(c) => \A d \in Calls : pc[d] \notin {"store", "swap"}
  BY <1>1 DEF Resetting
<1>9. ReadsThePast'
  BY <1>1, <1>2 DEF ExactInv, ReadsThePast
<1>10. (Current >= 1 /\ Current \notin raced') => counter = Cardinality(In(Current))
  BY <1>7, <1>8 DEF ExactInv, CounterExact
<1>11. ExactUnlessRaced'
  <2>1. ASSUME NEW w \in 1 .. Current, w \notin raced'
        PROVE  {n'[d] : d \in In(w)'} = 1 .. Cardinality(In(w)')
    <3>1. {n[d] : d \in In(w)} = 1 .. Cardinality(In(w))
      BY <1>7, <2>1 DEF ExactInv, ExactUnlessRaced
    <3>2. CASE w # Current
      <4>1. \A d \in In(w) : n'[d] = n[d]
        BY <1>1, <1>2 DEF In
      <4>2. QED
        BY <1>4, <3>1, <3>2, <4>1
    <3>3. CASE w = Current
      <4> DEFINE k == Cardinality(In(Current))
      <4>1. counter = k /\ k \in Nat
        BY <1>6, <1>10, <2>1, <3>3
      <4>2. \A d \in In(Current) : n'[d] = n[d]
        <5>1. In(Current) \subseteq Calls
          BY DEF In
        <5>2. QED
          BY <1>2, <1>5, <5>1
      <4>3. {n'[d] : d \in In(Current) \cup {c}} = {n[d] : d \in In(Current)} \cup {counter + 1}
        BY <1>2, <4>2
      <4>4. {n'[d] : d \in In(Current)'} = (1 .. k) \cup {k + 1}
        BY <1>5, <3>1, <3>3, <4>1, <4>3
      <4>5. (1 .. k) \cup {k + 1} = 1 .. k + 1
        BY <4>1
      <4>6. In(w)' = In(Current)'
        BY <1>3, <3>3 DEF In
      <4>7. QED
        BY <1>6, <4>1, <4>4, <4>5, <4>6
    <3>4. QED
      BY <3>2, <3>3
  <2>2. QED
    BY <1>3, <2>1 DEF ExactUnlessRaced
<1>12. CounterExact'
  <2>1. ASSUME Current >= 1, Current \notin raced'
        PROVE  /\ \A d \in Calls : ~Late(d)'
               /\ counter' = Cardinality(In(Current)')
    <3>1. ~Resetting(c)
      BY <1>7, <2>1
    <3>2. \A d \in Calls : ~Late(d)'
      BY <1>2, <1>8, <3>1 DEF Late
    <3>3. QED
      BY <1>1, <1>6, <1>10, <2>1, <3>2
  <2>2. QED
    BY <1>3, <2>1 DEF CounterExact
<1>13. SwapsAlone'
  <2>1. ASSUME NEW d \in Calls, pc'[d] = "swap" PROVE Current + 1 \in raced'
    BY <1>2, <1>7, <1>8, <2>1
  <2>2. QED
    BY <1>3, <2>1 DEF SwapsAlone
<1>14. QED
  BY <1>9, <1>11, <1>12, <1>13 DEF ExactInv

(* The winner of the swap opens a window whose one answer is its own.       *)
LEMMA OpenExact ==
  ASSUME IInv, ExactInv, NEW c \in Calls, Swap(c), Swaps(c)
  PROVE  ExactInv'
<1>0. PICK k \in Nat : k = Current
  BY DEF IInv, Opened
<1>1. /\ pc[c] = "swap" /\ pc' = [pc EXCEPT ![c] = "done"]
      /\ n' = [n EXCEPT ![c] = 1] /\ window' = [window EXCEPT ![c] = k + 1]
      /\ resetAt' = t[c] + Tick /\ resetAt = read[c]
      /\ UNCHANGED <<clock, counter, t, read, stores, raced>>
  BY <1>0 DEF Swap, Swaps, NewReset, Answer
<1>2. /\ pc'[c] = "done" /\ n'[c] = 1 /\ window'[c] = k + 1
      /\ \A d \in Calls \ {c} : pc'[d] = pc[d] /\ n'[d] = n[d] /\ window'[d] = window[d]
  BY <1>1 DEF IInv, Times
<1>3. Current' = k + 1
  <2>1. opened' = [w \in 1 .. k + 1 |-> IF w > k THEN t[c] ELSE opened[w]]
    BY <1>0 DEF Swap
  <2>2. DOMAIN opened' = 1 .. k + 1
    BY <2>1
  <2>3. Cardinality(1 .. k + 1) = k + 1
    BY FS_Interval
  <2>4. QED
    BY <2>2, <2>3 DEF Current
<1>4. \A d \in Calls : window[d] \in 0 .. k
  BY <1>0 DEF IInv, HasWinner
<1>5. ASSUME NEW w \in 1 .. k PROVE In(w)' = In(w)
  <2>1. \A d \in Calls : pc'[d] = "done" /\ window'[d] = w <=> pc[d] = "done" /\ window[d] = w
    BY <1>1, <1>2
  <2>2. QED
    BY <2>1 DEF In
<1>6. ASSUME NEW w, w = k + 1 PROVE In(w)' = {c}
  <2>1. \A d \in Calls : pc'[d] = "done" /\ window'[d] = w <=> d = c
    BY <1>2, <1>4, <1>6
  <2>2. QED
    BY <2>1 DEF In
<1>7. resetAt' > resetAt /\ resetAt' \in Int /\ resetAt \in Int
  BY <1>1, SamplerConstants DEF IInv, Times, SawExpired
<1>8. ReadsThePast'
  <2>1. ASSUME NEW d \in Calls, pc'[d] \in {"store", "swap"} PROVE read'[d] <= resetAt'
    <3>1. pc[d] \in {"store", "swap"} /\ read'[d] = read[d] /\ read[d] \in Int
      BY <1>1, <1>2, <2>1 DEF IInv, Times
    <3>2. read[d] <= resetAt
      BY <3>1 DEF ExactInv, ReadsThePast
    <3>3. QED
      BY <1>7, <3>1, <3>2
  <2>2. QED
    BY <2>1 DEF ReadsThePast
<1>9. ExactUnlessRaced'
  <2>1. ASSUME NEW w \in 1 .. k + 1, w \notin raced
        PROVE  {n'[d] : d \in In(w)'} = 1 .. Cardinality(In(w)')
    <3>1. CASE w \in 1 .. k
      <4>1. {n[d] : d \in In(w)} = 1 .. Cardinality(In(w))
        BY <1>0, <2>1, <3>1 DEF ExactInv, ExactUnlessRaced
      <4>2. \A d \in In(w) : n'[d] = n[d]
        BY <1>1, <1>2 DEF In
      <4>3. QED
        BY <1>5, <3>1, <4>1, <4>2
    <3>2. CASE w = k + 1
      <4>1. In(w)' = {c} /\ Cardinality({c}) = 1
        BY <1>6, <3>2, FS_Singleton
      <4>2. {n'[d] : d \in {c}} = {1} /\ 1 .. 1 = {1}
        BY <1>2
      <4>3. QED
        BY <4>1, <4>2
    <3>3. QED
      BY <3>1, <3>2
  <2>2. QED
    BY <1>1, <1>3, <2>1 DEF ExactUnlessRaced
<1>10. CounterExact'
  <2>1. ASSUME k + 1 \notin raced PROVE counter = 1
    BY <1>0, <1>1, <2>1 DEF ExactInv, SwapsAlone, Swaps
  <2>2. Cardinality(In(Current))' = 1
    <3>1. \A w : w = k + 1 => In(w)' = {c}
      BY <1>6
    <3>2. In(Current)' = {c}
      BY <1>3, <3>1 DEF In
    <3>3. QED
      BY <3>2, FS_Singleton
  <2>3. QED
    BY <1>1, <1>3, <2>1, <2>2 DEF CounterExact
<1>11. SwapsAlone'
  <2>1. ASSUME NEW d \in Calls, pc'[d] = "swap" PROVE ~Swaps(d)'
    <3>1. pc[d] = "swap" /\ read'[d] = read[d] /\ read[d] \in Int
      BY <1>1, <1>2, <2>1 DEF IInv, Times
    <3>2. read[d] <= resetAt
      BY <3>1 DEF ExactInv, ReadsThePast
    <3>3. QED
      BY <1>7, <3>1, <3>2 DEF Swaps
  <2>2. QED
    BY <2>1 DEF SwapsAlone
<1>12. QED
  BY <1>8, <1>9, <1>10, <1>11 DEF ExactInv

LEMMA NextExact == IInv /\ ExactInv /\ [Next]_vars => ExactInv'
<1> SUFFICES ASSUME IInv, ExactInv, [Next]_vars PROVE ExactInv'
  OBVIOUS
<1>1. CASE UNCHANGED <<resetAt, counter, pc, read, n, opened, window, raced>>
  BY <1>1, ExactQuiet DEF ExactInv, ReadsThePast
<1>2. ASSUME NEW c \in Calls, Stamp(c) PROVE ExactInv'
  <2>1. /\ UNCHANGED <<opened, window, n, counter, resetAt, raced, read>>
        /\ pc[c] = "new" /\ pc'[c] = "load" /\ \A d \in Calls \ {c} : pc'[d] = pc[d]
    BY <1>2 DEF Stamp, pastVars, IInv, Times
  <2>2. QED
    BY <2>1, ExactQuiet
<1>3. ASSUME NEW c \in Calls, Load(c) PROVE ExactInv'
  <2>1. /\ UNCHANGED <<opened, window, n, counter, resetAt, raced>>
        /\ pc[c] = "load" /\ pc'[c] \in {"add", "store"} /\ read'[c] = resetAt
        /\ \A d \in Calls \ {c} : pc'[d] = pc[d] /\ read'[d] = read[d]
    BY <1>3 DEF Load, pastVars, IInv, Times
  <2>2. QED
    BY <2>1, ExactQuiet
<1>4. ASSUME NEW c \in Calls, Swap(c), ~Swaps(c) PROVE ExactInv'
  <2>1. /\ UNCHANGED <<opened, window, n, counter, resetAt, raced, read>>
        /\ pc[c] = "swap" /\ pc'[c] = "add" /\ \A d \in Calls \ {c} : pc'[d] = pc[d]
    BY <1>4 DEF Swap, LoserGoesOn, IInv, Times
  <2>2. Late(c)
    BY <1>4, <2>1 DEF Late, Swaps
  <2>3. QED
    BY <2>1, <2>2, ExactQuiet
<1>5. CASE UNCHANGED vars \/ Advance
  BY <1>1, <1>5 DEF vars, pastVars, Advance
<1>6. QED
  BY <1>2, <1>3, <1>4, <1>5, StoreExact, AddExact, OpenExact DEF Next, Check

(* What the counter stands at in a window nobody raced in, in every state.  *)
THEOREM ExactInvariance == Spec => []ExactInv
<1>1. IInv /\ ExactInv /\ [Next]_vars /\ IInv' => ExactInv'
  BY NextExact
<1>2. QED
  BY <1>1, InitExact, SamplerInvariance, PTL DEF Spec

(* sampler.go:128-131: in a window in which no resets overlapped, the k-th  *)
(* entry is judged as the k-th, for any number of goroutines and any tick.  *)
THEOREM ExactUnlessRacedCorrect == Spec => []ExactUnlessRaced
<1>1. ExactInv => ExactUnlessRaced
  BY DEF ExactInv
<1>2. QED
  BY <1>1, ExactInvariance, PTL

-----------------------------------------------------------------------------
(* Over-sampling.                                                          *)

(* What the counter may still let through before it is started again.       *)
Room == IF counter < First THEN First - counter ELSE 0
Through(w) == Cardinality(In(w) \cap Sampled)
Limit(w) == First + (First - 1) * stores[w]

StoresCount ==
    /\ stores \in [Windows -> Nat]
    /\ \A w \in Windows : w > Current => stores[w] = 0

RoomFits ==
    (First >= 1 /\ Thereafter <= 0) =>
        /\ \A w \in 1 .. Current : Through(w) <= Limit(w)
        /\ Current >= 1 => Through(Current) + Room <= Limit(Current)

RoomInv == StoresCount /\ RoomFits

(* No more windows than calls: every window has a winner of its own.        *)
LEMMA WindowsFit ==
  ASSUME IInv
  PROVE  Current \in Windows /\ Cardinality(Calls) \in Nat /\ Windows = 0 .. Cardinality(Calls)
<1>1. IsFiniteSet(Calls) /\ Cardinality(Calls) \in Nat
  BY SamplerConstants, FS_CardinalityType
<1>2. Current \in Nat
  BY DEF IInv, Opened
<1> DEFINE f == [w \in 1 .. Current |-> CHOOSE c \in Calls : Winner(w, c)]
<1>3. \A w \in 1 .. Current : f[w] \in Calls /\ Winner(w, f[w])
  BY DEF IInv, HasWinner
<1>4. \A v, w \in 1 .. Current : f[v] = f[w] => v = w
  BY <1>3 DEF Winner
<1>5. f \in Injection(1 .. Current, Calls)
  BY <1>3, <1>4, Fun_IsInj
<1>6. Cardinality(1 .. Current) <= Cardinality(Calls)
  BY <1>1, <1>5, FS_Injection
<1>7. Cardinality(1 .. Current) = Current
  BY <1>2, FS_Interval
<1>8. QED
  BY <1>1, <1>2, <1>6, <1>7 DEF Windows

LEMMA ThroughType ==
  ASSUME NEW w
  PROVE  IsFiniteSet(In(w) \cap Sampled) /\ Through(w) \in Nat
<1>1. In(w) \cap Sampled \in SUBSET Calls
  BY DEF In
<1>2. QED
  BY <1>1, SamplerConstants, FS_Subset, FS_CardinalityType DEF Through

(* With thereafter zero or negative, all and only the first First entries   *)
(* are let through.                                                         *)
LEMMA PassesFirst ==
  ASSUME First >= 1, Thereafter <= 0, NEW k \in Nat
  PROVE  ~Dropped(k) <=> k <= First
BY SamplerConstants DEF Dropped

LEMMA InitRoom == Init => RoomInv
<1> SUFFICES ASSUME Init PROVE RoomInv
  OBVIOUS
<1>1. Current = 0
  <2>1. DOMAIN opened = {}
    BY DEF Init
  <2>2. QED
    BY <2>1, FS_EmptySet DEF Current
<1>2. 1 .. Current = {}
  BY <1>1
<1>3. QED
  BY <1>1, <1>2 DEF Init, RoomInv, StoresCount, RoomFits

(* A step in which nobody answers and nobody stores.                        *)
LEMMA RoomQuiet ==
  ASSUME IInv, RoomInv, UNCHANGED <<opened, window, n, counter, stores>>,
         \A c \in Calls : pc'[c] = "done" <=> pc[c] = "done"
  PROVE  RoomInv'
<1>1. Current' = Current /\ \A w : In(w)' = In(w)
  BY SameAnswers
<1>2. Sampled' = Sampled
  BY DEF Sampled
<1>3. \A w : Through(w)' = Through(w) /\ Limit(w)' = Limit(w)
  BY <1>1, <1>2 DEF Through, Limit
<1>4. Room' = Room
  BY DEF Room
<1>5. RoomFits'
  BY <1>1, <1>3, <1>4 DEF RoomInv, RoomFits
<1>6. QED
  BY <1>1, <1>5 DEF RoomInv, StoresCount

LEMMA OneMoreStore ==
  ASSUME NEW a \in Nat, NEW s \in Nat
  PROVE  a * (s + 1) = a * s + a /\ a * s \in Nat
OBVIOUS

LEMMA StoreRoom ==
  ASSUME IInv, RoomInv, NEW c \in Calls, Store(c)
  PROVE  RoomInv'
<1>0. PICK k \in Windows : k = Current
  BY WindowsFit
<1>1. /\ pc[c] = "store" /\ pc' = [pc EXCEPT ![c] = "swap"] /\ counter' = 1
      /\ stores' = [stores EXCEPT ![k] = @ + 1]
      /\ UNCHANGED <<clock, resetAt, t, read, n, opened, window>>
  BY <1>0 DEF Store, StartsFrom
<1>2. \A d \in Calls : pc'[d] = "done" <=> pc[d] = "done"
  BY <1>1 DEF IInv, Times
<1>3. Current' = Current /\ \A w : In(w)' = In(w)
  BY <1>1, <1>2, SameAnswers
<1>4. Sampled' = Sampled
  BY <1>1, <1>2 DEF Sampled
<1>5. \A w : Through(w)' = Through(w)
  BY <1>3, <1>4 DEF Through
<1>6. /\ k \in Nat /\ k \in 0 .. Cardinality(Calls) /\ Windows = 0 .. Cardinality(Calls)
      /\ Cardinality(Calls) \in Nat
  BY <1>0, WindowsFit
<1>7. /\ stores' \in [Windows -> Nat] /\ stores'[k] = stores[k] + 1 /\ stores[k] \in Nat
      /\ \A w \in Windows : w # k => stores'[w] = stores[w]
  BY <1>1 DEF RoomInv, StoresCount
<1>8. StoresCount'
  BY <1>0, <1>3, <1>6, <1>7 DEF RoomInv, StoresCount
<1>9. RoomFits'
  <2> SUFFICES ASSUME First >= 1, Thereafter <= 0
               PROVE  /\ \A w \in 1 .. k : Through(w) <= Limit(w)'
                      /\ k >= 1 => Through(k) + Room' <= Limit(k)'
    <3>1. Through(Current)' = Through(Current) /\ Limit(Current)' = First + (First - 1) * stores'[k]
      BY <1>0, <1>3, <1>5 DEF Limit, Through
    <3>2. \A w : Limit(w)' = First + (First - 1) * stores'[w]
      BY DEF Limit
    <3>3. QED
      BY <1>0, <1>3, <1>5, <3>1, <3>2 DEF RoomFits
  <2>1. First \in Nat /\ First - 1 \in Nat /\ counter \in Nat
    BY SamplerConstants DEF IInv, Times
  <2>2. Room \in Nat /\ Room' = First - 1
    BY <1>1, <2>1 DEF Room
  <2>3. Limit(k)' = Limit(k) + (First - 1) /\ Limit(k) \in Nat
    BY <1>7, <2>1, OneMoreStore DEF Limit
  <2>4. \A w \in 1 .. k : w # k => Limit(w)' = Limit(w)
    <3>1. ASSUME NEW w \in 1 .. k, w # k PROVE Limit(w)' = Limit(w)
      <4>1. w \in Windows
        BY <1>6
      <4>2. stores'[w] = stores[w]
        BY <1>7, <3>1, <4>1
      <4>3. QED
        BY <4>2 DEF Limit
    <3>2. QED
      BY <3>1
  <2>5. \A w \in 1 .. k : Through(w) <= Limit(w)
    BY <1>0 DEF RoomInv, RoomFits
  <2>6. k >= 1 => Through(k) + Room <= Limit(k)
    BY <1>0 DEF RoomInv, RoomFits
  <2>7. Through(k) \in Nat
    BY ThroughType
  <2>8. k >= 1 => Through(k) + (First - 1) <= Limit(k)' /\ Through(k) <= Limit(k)'
    BY <2>1, <2>2, <2>3, <2>6, <2>7
  <2>9. ASSUME NEW w \in 1 .. k PROVE Through(w) <= Limit(w)'
    <3>1. CASE w = k
      BY <1>6, <2>8, <3>1
    <3>2. CASE w # k
      BY <2>4, <2>5, <3>2
    <3>3. QED
      BY <3>1, <3>2
  <2>10. QED
    BY <2>2, <2>8, <2>9
<1>10. QED
  BY <1>8, <1>9 DEF RoomInv

LEMMA AddRoom ==
  ASSUME IInv, RoomInv, NEW c \in Calls, Add(c)
  PROVE  RoomInv'
<1>0. PICK k \in Windows : k = Current
  BY WindowsFit
<1>1. /\ pc[c] = "add" /\ pc' = [pc EXCEPT ![c] = "done"] /\ counter' = counter + 1
      /\ n' = [n EXCEPT ![c] = counter + 1] /\ window' = [window EXCEPT ![c] = k]
      /\ UNCHANGED <<clock, resetAt, t, read, opened, stores>>
  BY <1>0 DEF Add, Answer
<1>2. /\ pc'[c] = "done" /\ n'[c] = counter + 1 /\ window'[c] = k
      /\ \A d \in Calls \ {c} : pc'[d] = pc[d] /\ n'[d] = n[d] /\ window'[d] = window[d]
  BY <1>1 DEF IInv, Times
<1>3. Current' = k /\ k \in Nat /\ counter \in Nat
  BY <1>0, <1>1 DEF Current, IInv, Opened, Times
<1>4. StoresCount'
  BY <1>0, <1>1, <1>3 DEF RoomInv, StoresCount
<1>5. ASSUME NEW w, w # k PROVE Through(w)' = Through(w)
  <2>1. (In(w) \cap Sampled)' = In(w) \cap Sampled
    BY <1>1, <1>2, <1>5 DEF In, Sampled
  <2>2. QED
    BY <2>1 DEF Through
<1>6. \A w : Limit(w)' = Limit(w)
  BY <1>1 DEF Limit
<1>7. RoomFits'
  <2> SUFFICES ASSUME First >= 1, Thereafter <= 0
               PROVE  /\ \A w \in 1 .. k : Through(w)' <= Limit(w)
                      /\ k >= 1 => Through(k)' + Room' <= Limit(k)
    <3>1. \A w : w = k => Through(w)' = Through(k)'
      BY DEF Through
    <3>2. Through(Current)' = Through(k)' /\ Limit(Current)' = Limit(k)'
      BY <1>3 DEF Through, Limit
    <3>3. QED
      BY <1>3, <1>6, <3>2 DEF RoomFits
  <2>1. First \in Nat
    BY SamplerConstants
  <2>2. k >= 1 => Through(k) + Room <= Limit(k)
    BY <1>0 DEF RoomInv, RoomFits
  <2>3. IsFiniteSet(In(k) \cap Sampled) /\ Through(k) \in Nat
    BY ThroughType
  <2>4. ~Dropped(n'[c]) <=> counter + 1 <= First
    BY <1>2, <1>3, PassesFirst
  <2>5. ASSUME counter + 1 <= First PROVE Through(k)' + Room' = Through(k) + Room
    <3>1. (In(k) \cap Sampled)' = (In(k) \cap Sampled) \cup {c}
      BY <1>1, <1>2, <2>4, <2>5 DEF In, Sampled
    <3>2. c \notin In(k) \cap Sampled
      BY <1>1 DEF In
    <3>3. Through(k)' = Through(k) + 1
      BY <2>3, <3>1, <3>2, FS_AddElement DEF Through
    <3>4. Room = First - counter /\ Room' = First - counter - 1
      BY <1>1, <1>3, <2>1, <2>5 DEF Room
    <3>5. QED
      BY <1>3, <2>1, <2>3, <3>3, <3>4
  <2>6. ASSUME ~(counter + 1 <= First) PROVE Through(k)' + Room' = Through(k) + Room
    <3>1. (In(k) \cap Sampled)' = In(k) \cap Sampled
      BY <1>1, <1>2, <2>4, <2>6 DEF In, Sampled
    <3>2. Room = 0 /\ Room' = 0
      BY <1>1, <1>3, <2>1, <2>6 DEF Room
    <3>3. QED
      BY <3>1, <3>2 DEF Through
  <2>7. Room \in Nat /\ Room' \in Nat
    BY <1>1, <1>3, <2>1 DEF Room
  <2>8. Through(k)' \in Nat
    <3>1. (In(k) \cap Sampled)' \in SUBSET Calls
      BY DEF In
    <3>2. QED
      BY <3>1, SamplerConstants, FS_Subset, FS_CardinalityType DEF Through
  <2>9. k >= 1 => Limit(k) \in Nat
    <3>1. stores[k] \in Nat
      BY <1>0 DEF RoomInv, StoresCount
    <3>2. (First - 1) * stores[k] \in Nat
      <4>1. First - 1 \in Nat
        BY <2>1
      <4>2. QED
        BY <3>1, <4>1, OneMoreStore
    <3>3. QED
      BY <2>1, <3>2 DEF Limit
  <2>10. k >= 1 => Through(k)' + Room' <= Limit(k) /\ Through(k)' <= Limit(k)
    BY <2>2, <2>3, <2>5, <2>6, <2>7, <2>8, <2>9
  <2>11. \A w \in 1 .. k : Through(w) <= Limit(w)
    BY <1>0 DEF RoomInv, RoomFits
  <2>12. ASSUME NEW w \in 1 .. k PROVE Through(w)' <= Limit(w)
    <3>1. CASE w = k
      <4>1. Through(w)' = Through(k)' /\ Limit(w) = Limit(k)
        BY <3>1
      <4>2. QED
        BY <1>3, <2>10, <3>1, <4>1
    <3>2. CASE w # k
      BY <1>5, <2>11, <3>2
    <3>3. QED
      BY <3>1, <3>2
  <2>13. QED
    BY <2>10, <2>12
<1>8. QED
  BY <1>4, <1>7 DEF RoomInv

LEMMA OpenRoom ==
  ASSUME IInv, RoomInv, Current' \in Windows, NEW c \in Calls, Swap(c), Swaps(c)
  PROVE  RoomInv'
<1>0. PICK k \in Nat : k = Current
  BY DEF IInv, Opened
<1>1. /\ pc[c] = "swap" /\ pc' = [pc EXCEPT ![c] = "done"]
      /\ n' = [n EXCEPT ![c] = 1] /\ window' = [window EXCEPT ![c] = k + 1]
      /\ UNCHANGED <<clock, counter, t, read, stores>>
  BY <1>0 DEF Swap, Swaps, NewReset, Answer
<1>2. /\ pc'[c] = "done" /\ n'[c] = 1 /\ window'[c] = k + 1
      /\ \A d \in Calls \ {c} : pc'[d] = pc[d] /\ n'[d] = n[d] /\ window'[d] = window[d]
  BY <1>1 DEF IInv, Times
<1>3. Current' = k + 1
  <2>1. opened' = [w \in 1 .. k + 1 |-> IF w > k THEN t[c] ELSE opened[w]]
    BY <1>0 DEF Swap
  <2>2. DOMAIN opened' = 1 .. k + 1
    BY <2>1
  <2>3. Cardinality(1 .. k + 1) = k + 1
    BY FS_Interval
  <2>4. QED
    BY <2>2, <2>3 DEF Current
<1>4. k + 1 \in Windows
  BY <1>3
<1>5. stores[k + 1] = 0 /\ stores \in [Windows -> Nat]
  BY <1>0, <1>4 DEF RoomInv, StoresCount
<1>6. StoresCount'
  <2>1. \A w \in Windows : w > k + 1 => w > k
    BY DEF Windows
  <2>2. QED
    BY <1>0, <1>1, <1>3, <2>1 DEF RoomInv, StoresCount
<1>7. counter >= 1 /\ counter \in Nat
  BY <1>1 DEF IInv, Started, Times
<1>8. \A d \in Calls : window[d] \in 0 .. k
  BY <1>0 DEF IInv, HasWinner
<1>9. ASSUME NEW w \in 1 .. k PROVE Through(w)' = Through(w)
  <2>1. \A d \in Calls : /\ pc'[d] = "done" /\ window'[d] = w <=> pc[d] = "done" /\ window[d] = w
                         /\ window[d] = w /\ pc[d] = "done" => n'[d] = n[d]
    BY <1>1, <1>2
  <2>2. (In(w) \cap Sampled)' = In(w) \cap Sampled
    BY <2>1 DEF In, Sampled
  <2>3. QED
    BY <2>2 DEF Through
<1>10. ASSUME NEW w, w = k + 1 PROVE Through(w)' \in Nat /\ Through(w)' <= 1
  <2>1. \A d \in Calls : window'[d] = w => d = c
    BY <1>2, <1>8, <1>10
  <2>2. (In(w) \cap Sampled)' \in SUBSET {c}
    BY <2>1 DEF In
  <2>3. IsFiniteSet({c}) /\ Cardinality({c}) = 1
    BY FS_Singleton
  <2>4. QED
    BY <2>2, <2>3, FS_Subset, FS_CardinalityType DEF Through
<1>11. RoomFits'
  <2> SUFFICES ASSUME First >= 1, Thereafter <= 0
               PROVE  /\ \A w \in 1 .. k + 1 : Through(w)' <= Limit(w)
                      /\ Through(k + 1)' + Room' <= Limit(k + 1)
    <3>1. Through(Current)' = Through(k + 1)' /\ Limit(Current)' = Limit(k + 1)
      BY <1>1, <1>3 DEF Through, Limit
    <3>2. \A w : Limit(w)' = Limit(w)
      BY <1>1 DEF Limit
    <3>3. QED
      BY <1>3, <3>1, <3>2 DEF RoomFits
  <2>1. First \in Nat
    BY SamplerConstants
  <2>2. Limit(k + 1) = First
    <3>1. (First - 1) * 0 = 0
      BY <2>1
    <3>2. QED
      BY <1>5, <2>1, <3>1 DEF Limit
  <2>3. Room' \in Nat /\ Room' <= First - 1
    BY <1>1, <1>7, <2>1 DEF Room
  <2>4. Through(k + 1)' \in Nat /\ Through(k + 1)' <= 1
    BY <1>10
  <2>5. Through(k + 1)' + Room' <= Limit(k + 1) /\ Through(k + 1)' <= Limit(k + 1)
    BY <2>1, <2>2, <2>3, <2>4
  <2>6. \A w \in 1 .. k : Through(w) <= Limit(w)
    BY <1>0 DEF RoomInv, RoomFits
  <2>7. ASSUME NEW w \in 1 .. k + 1 PROVE Through(w)' <= Limit(w)
    <3>1. CASE w = k + 1
      <4>1. Through(w)' = Through(k + 1)' /\ Limit(w) = Limit(k + 1)
        BY <3>1
      <4>2. QED
        BY <2>5, <4>1
    <3>2. CASE w # k + 1
      <4>1. w \in 1 .. k
        BY <3>2
      <4>2. QED
        BY <1>9, <2>6, <4>1
    <3>3. QED
      BY <3>1, <3>2
  <2>8. QED
    BY <2>5, <2>7
<1>12. QED
  BY <1>6, <1>11 DEF RoomInv

LEMMA NextRoom == IInv /\ RoomInv /\ [Next]_vars /\ Current' \in Windows => RoomInv'
<1> SUFFICES ASSUME IInv, RoomInv, [Next]_vars, Current' \in Windows PROVE RoomInv'
  OBVIOUS
<1>1. CASE UNCHANGED vars \/ Advance
  BY <1>1, RoomQuiet DEF vars, pastVars, Advance
<1>2. ASSUME NEW c \in Calls, Stamp(c) \/ Load(c) \/ (Swap(c) /\ ~Swaps(c)) PROVE RoomInv'
  <2>1. UNCHANGED <<opened, window, n, counter, stores>>
    BY <1>2 DEF Stamp, Load, Swap, LoserGoesOn, pastVars
  <2>2. \A d \in Calls : pc'[d] = "done" <=> pc[d] = "done"
    BY <1>2 DEF Stamp, Load, Swap, LoserGoesOn, IInv, Times
  <2>3. QED
    BY <2>1, <2>2, RoomQuiet
<1>3. QED
  BY <1>1, <1>2, StoreRoom, AddRoom, OpenRoom DEF Next, Check

(* What the counter still lets through never exceeds what the window is     *)
(* still allowed, in every state.                                           *)
THEOREM RoomInvariance == Spec => []RoomInv
<1>1. IInv /\ RoomInv /\ [Next]_vars /\ (Current \in Windows)' => RoomInv'
  BY NextRoom DEF Windows
<1>2. IInv => Current \in Windows
  BY WindowsFit
<1>3. QED
  BY <1>1, <1>2, InitRoom, SamplerInvariance, PTL DEF Spec

(* sampler.go:145-147: with thereafter zero the over-sampling of a window   *)
(* is at most First - 1 entries for each reset that falls into it, however  *)
(* many goroutines run and in whatever order.                               *)
THEOREM OversamplingIsBoundedCorrect == Spec => []OversamplingIsBounded
<1>1. RoomInv => OversamplingIsBounded
  BY DEF RoomInv, RoomFits, OversamplingIsBounded, Through, Limit
<1>2. QED
  BY <1>1, RoomInvariance, PTL
=============================================================================
