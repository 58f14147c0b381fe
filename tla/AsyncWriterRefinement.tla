----------------------- MODULE AsyncWriterRefinement -----------------------
(***************************************************************************)
(* AsyncWriter implements LogStream, for every value of the constants.      *)
(* Enqueue implements Accept, a flush (by a worker or by Close) implements  *)
(* Deliver, closing the wrapped writer implements Seal, and every other     *)
(* step stutters.                                                           *)
(***************************************************************************)
EXTENDS AsyncWriterProofs

LEMMA InitImplements == Init => LS!Init
  BY DEF Init, LS!Init

(* A prefix of a concatenation, and what follows it.                        *)
LEMMA ConcatSplit ==
  ASSUME NEW S, NEW a \in Seq(S), NEW b \in Seq(S)
  PROVE  /\ Len(a \o b) = Len(a) + Len(b)
         /\ Len(a) \in Nat /\ Len(b) \in Nat
         /\ SubSeq(a \o b, 1, Len(a)) = a
         /\ \A i \in 1 .. Len(b) : (a \o b)[Len(a) + i] = b[i]
<1>1. /\ Len(a \o b) = Len(a) + Len(b) /\ a \o b \in Seq(S)
      /\ Len(a) \in Nat /\ Len(b) \in Nat
      /\ \A i \in 1 .. Len(a) + Len(b) :
           (a \o b)[i] = IF i <= Len(a) THEN a[i] ELSE b[i - Len(a)]
  BY ConcatProperties, LenProperties
<1>2. SubSeq(a \o b, 1, Len(a)) = a
  OBVIOUS
<1>3. \A i \in 1 .. Len(b) : (a \o b)[Len(a) + i] = b[i]
  BY <1>1
<1>4. QED
  BY <1>1, <1>2, <1>3
(* Handing over b, which stands right behind a in the stream (a \o b) \o q. *)
LEMMA Handover ==
  \A a, b, q \in Seq(Entries) : \A h :
    h = (a \o b) \o q
    => /\ Len(a \o b) \in Len(a) .. Len(h)
       /\ a \o b = SubSeq(h, 1, Len(a \o b))
       /\ Range(b) \subseteq {h[i] : i \in Len(a) + 1 .. Len(a \o b)}
<1> SUFFICES ASSUME NEW a \in Seq(Entries), NEW b \in Seq(Entries), NEW q \in Seq(Entries),
                    NEW h, h = (a \o b) \o q
             PROVE  /\ Len(a \o b) \in Len(a) .. Len(h)
                    /\ a \o b = SubSeq(h, 1, Len(a \o b))
                    /\ Range(b) \subseteq {h[i] : i \in Len(a) + 1 .. Len(a \o b)}
  OBVIOUS
<1> DEFINE n == a \o b
<1>1. /\ n \in Seq(Entries) /\ Len(n) = Len(a) + Len(b) /\ Len(a) \in Nat /\ Len(b) \in Nat
      /\ \A i \in 1 .. Len(b) : n[Len(a) + i] = b[i]
  BY ConcatProperties, ConcatSplit
<1> HIDE DEF n
<1>2. /\ Len(n \o q) = Len(n) + Len(q) /\ Len(n) \in Nat /\ Len(q) \in Nat
      /\ SubSeq(n \o q, 1, Len(n)) = n
  BY <1>1, ConcatSplit
<1>e. \A i \in 1 .. Len(n) : (n \o q)[i] = n[i]
  BY <1>1, <1>2, ConcatProperties
<1>3. h = n \o q
  BY DEF n
<1>4. Len(n) \in Len(a) .. Len(h) /\ n = SubSeq(h, 1, Len(n))
  BY <1>1, <1>2, <1>3
<1>5. ASSUME NEW i \in 1 .. Len(b)
      PROVE  Len(a) + i \in Len(a) + 1 .. Len(n) /\ h[Len(a) + i] = b[i]
  BY <1>1, <1>2, <1>e, <1>3
<1>6. DOMAIN b = 1 .. Len(b)
  BY LenProperties
<1>7. Range(b) \subseteq {h[i] : i \in Len(a) + 1 .. Len(n)}
  BY <1>5, <1>6 DEF Range
<1>8. QED
  BY <1>1, <1>4, <1>7 DEF n

(* The part of LS!Deliver that speaks of stream s.                          *)
Advances(s) ==
    /\ Len(out'[s]) \in Len(out[s]) .. Len(sent[s])
    /\ out'[s] = SubSeq(sent[s], 1, Len(out'[s]))

LEMMA ShardAdvances ==
  \A s \in Shards : \A b, q \in Seq(Entries) :
    /\ out[s] \in Seq(Entries)
    /\ sent[s] = (out[s] \o b) \o q
    /\ out'[s] = out[s] \o b
    => Advances(s) /\ Range(b) \subseteq LS!Fresh(s)
<1> SUFFICES ASSUME NEW s \in Shards, NEW b \in Seq(Entries), NEW q \in Seq(Entries),
                    out[s] \in Seq(Entries), sent[s] = (out[s] \o b) \o q,
                    out'[s] = out[s] \o b
             PROVE  Advances(s) /\ Range(b) \subseteq LS!Fresh(s)
  OBVIOUS
<1>h. \A a \in Seq(Entries) : \A h :
        h = (a \o b) \o q
        => /\ Len(a \o b) \in Len(a) .. Len(h)
           /\ a \o b = SubSeq(h, 1, Len(a \o b))
           /\ Range(b) \subseteq {h[i] : i \in Len(a) + 1 .. Len(a \o b)}
  BY Handover, ZenonT(40)
<1>1. /\ Len(out[s] \o b) \in Len(out[s]) .. Len(sent[s])
      /\ out[s] \o b = SubSeq(sent[s], 1, Len(out[s] \o b))
      /\ Range(b) \subseteq {sent[s][i] : i \in Len(out[s]) + 1 .. Len(out[s] \o b)}
  BY <1>h, Zenon
<1>2. Advances(s)
  BY <1>1, Zenon DEF Advances
<1>3. Range(b) \subseteq LS!Fresh(s)
  BY <1>1, Zenon DEF LS!Fresh
<1>4. QED
  BY <1>2, <1>3

LEMMA Regroup ==
  \A a, b, q \in Seq(Entries) : (a \o <<>>) \o (b \o q) = (a \o b) \o q
<1> SUFFICES ASSUME NEW a \in Seq(Entries), NEW b \in Seq(Entries), NEW q \in Seq(Entries)
             PROVE  (a \o <<>>) \o (b \o q) = (a \o b) \o q
  OBVIOUS
<1>1. a \o <<>> = a
  BY ConcatEmptySeq
<1>2. a \o (b \o q) = (a \o b) \o q
  BY ConcatAssociative
<1>3. QED
  BY <1>1, <1>2

(* A shard of which a step hands over the sequence b.                       *)
LEMMA FifoAdvances ==
  ASSUME IInv, NEW s \in Shards, NEW b, out'[s] = out[s] \o b,
         \/ b = leftover[s]
         \/ leftover[s] = <<>> /\ b = batch[s]
  PROVE  Advances(s) /\ Range(b) \subseteq LS!Fresh(s)
<1>1. /\ out[s] \in Seq(Entries) /\ leftover[s] \in Seq(Entries)
      /\ batch[s] \in Seq(Entries) /\ queue[s] \in Seq(Entries)
      /\ sent[s] = (out[s] \o leftover[s]) \o (batch[s] \o queue[s])
  BY DEF IInv, TypeOK, ShardFifo
<1>2. CASE b = leftover[s]
  <2>1. batch[s] \o queue[s] \in Seq(Entries)
    BY <1>1, ConcatProperties
  <2>2. QED
    BY <1>1, <1>2, <2>1, ShardAdvances, Zenon
<1>3. CASE leftover[s] = <<>> /\ b = batch[s]
  <2>r. (out[s] \o <<>>) \o (batch[s] \o queue[s]) = (out[s] \o batch[s]) \o queue[s]
    BY <1>1, Regroup, Zenon
  <2>1. sent[s] = (out[s] \o batch[s]) \o queue[s]
    BY <1>1, <1>3, <2>r
  <2>2. QED
    BY <1>1, <1>3, <2>1, ShardAdvances, Zenon
<1>4. QED
  BY <1>2, <1>3

(* A shard of which a step hands over nothing.                              *)
LEMMA IdleAdvances ==
  ASSUME IInv, NEW s \in Shards, out'[s] = out[s], leftover[s] = <<>>
  PROVE  Advances(s)
<1>1. out[s] \in Seq(Entries)
  BY DEF IInv, TypeOK
<1>2. out[s] \o <<>> = out[s]
  BY <1>1, ConcatEmptySeq
<1>3. QED
  BY <1>2, FifoAdvances

LEMMA Delivers ==
  ASSUME ~innerClosed, UNCHANGED <<sent, innerClosed>>,
         out' \in [Shards -> Seq(Entries)],
         \A s \in Shards : Advances(s),
         NEW lost, failed' = failed \cup lost,
         lost \subseteq UNION {LS!Fresh(s) : s \in Shards},
         writeErrors' \in {writeErrors, writeErrors + 1},
         lost # {} => writeErrors' = writeErrors + 1
  PROVE  LS!Deliver
BY DEF LS!Deliver, Advances

(* The batch of one worker.                                                 *)
LEMMA FlushImplements ==
  ASSUME IInv, NEW s \in Shards, Flush(s), worker[s] # "exited", UNCHANGED sent
  PROVE  LS!Deliver
<1>1. /\ ~innerClosed
      /\ \A t \in Shards : leftover[t] = <<>>
  BY DEF IInv, FlagsFollowClose, WorkersLeaveClean, WorkersGone, CloseLeavesNothing
<1>2. /\ out'[s] = out[s] \o batch[s]
      /\ \A t \in Shards : t # s => out'[t] = out[t]
      /\ out' \in [Shards -> Seq(Entries)]
      /\ UNCHANGED innerClosed
  BY FlushTypes DEF IInv
<1>3. Advances(s) /\ Range(batch[s]) \subseteq LS!Fresh(s)
  BY <1>1, <1>2, FifoAdvances
<1>4. \A t \in Shards : Advances(t)
  BY <1>1, <1>2, <1>3, IdleAdvances
<1>5. PICK kept \in 0 .. Len(batch[s]) :
        /\ failed' = failed \cup Range(SubSeq(batch[s], kept + 1, Len(batch[s])))
        /\ writeErrors' = IF kept < Len(batch[s]) THEN writeErrors + 1 ELSE writeErrors
  BY DEF Flush
<1> DEFINE lost == Range(SubSeq(batch[s], kept + 1, Len(batch[s])))
<1>6. batch[s] \in Seq(Entries) /\ Len(batch[s]) \in Nat
  BY LenProperties DEF IInv, TypeOK
<1>7. lost \subseteq Range(batch[s])
  BY <1>6, SuffixInRange
<1>8. ASSUME kept = Len(batch[s]) PROVE lost = {}
  BY <1>6, <1>8, SubSeqEmpty, EmptySeq DEF Range
<1>9. /\ writeErrors' \in {writeErrors, writeErrors + 1}
      /\ lost # {} => writeErrors' = writeErrors + 1
  BY <1>5, <1>6, <1>8
<1>10. lost \subseteq UNION {LS!Fresh(t) : t \in Shards}
  BY <1>3, <1>7
<1>11. failed' = failed \cup lost
  BY <1>5
<1> HIDE DEF lost
<1>12. QED
  BY <1>1, <1>2, <1>4, <1>9, <1>10, <1>11, Delivers

(* What Close itself had taken from the queues.                             *)
LEMMA CloseFlushImplements ==
  ASSUME IInv, CloseFlush
  PROVE  LS!Deliver
<1>1. ~innerClosed /\ UNCHANGED <<sent, innerClosed>>
  BY DEF IInv, FlagsFollowClose, CloseFlush, queueVars
<1>2. /\ \A s \in Shards : out'[s] = out[s] \o leftover[s]
      /\ out' \in [Shards -> Seq(Entries)]
  <2>1. out' = [s \in Shards |-> out[s] \o leftover[s]]
    BY DEF CloseFlush
  <2>2. \A s \in Shards : out[s] \o leftover[s] \in Seq(Entries)
    BY ConcatProperties DEF IInv, TypeOK
  <2>3. QED
    BY <2>1, <2>2
<1>3. \A s \in Shards : Advances(s) /\ Range(leftover[s]) \subseteq LS!Fresh(s)
  BY <1>2, FifoAdvances
<1>s. PICK s \in Shards : \E kept \in 0 .. Len(leftover[s]) :
        LET lost == Range(SubSeq(leftover[s], kept + 1, Len(leftover[s])))
                      \cup UNION {Range(leftover[t]) : t \in {u \in Shards : u > s}}
        IN  failed' = failed \cup lost /\ writeErrors' = CountFailure(lost)
  BY DEF CloseFlush
<1>4. PICK kept \in 0 .. Len(leftover[s]) :
        LET lost == Range(SubSeq(leftover[s], kept + 1, Len(leftover[s])))
                      \cup UNION {Range(leftover[t]) : t \in {u \in Shards : u > s}}
        IN  failed' = failed \cup lost /\ writeErrors' = CountFailure(lost)
  BY <1>s
<1> DEFINE rest == Range(SubSeq(leftover[s], kept + 1, Len(leftover[s])))
           lost == rest \cup UNION {Range(leftover[t]) : t \in {u \in Shards : u > s}}
<1>5. failed' = failed \cup lost /\ writeErrors' = CountFailure(lost)
  BY <1>4
<1>6. rest \subseteq Range(leftover[s])
  <2>1. leftover[s] \in Seq(Entries)
    BY DEF IInv, TypeOK
  <2>2. QED
    BY <2>1, SuffixInRange
<1> HIDE DEF rest
<1>7. lost \subseteq UNION {LS!Fresh(t) : t \in Shards}
  BY <1>3, <1>6
<1> HIDE DEF lost
<1>8. /\ writeErrors' \in {writeErrors, writeErrors + 1}
      /\ lost # {} => writeErrors' = writeErrors + 1
  BY <1>5 DEF CountFailure
<1>9. QED
  BY <1>1, <1>2, <1>3, <1>5, <1>7, <1>8, Delivers

LEMMA EnqueueImplements ==
  ASSUME IInv, NEW p \in Producers, Enqueue(p)
  PROVE  LS!Accept
<1>1. ~innerClosed
  BY DEF IInv, FlagsFollowClose, NoLateEnqueue, Enqueue
<1>2. route[p] \in Shards /\ entry[p] \in Entries
  BY DEF IInv, TypeOK, Enqueue
<1>3. sent' = [sent EXCEPT ![route[p]] = Append(@, entry[p])]
  BY DEF Enqueue
<1>4. UNCHANGED <<out, failed, writeErrors, innerClosed>>
  BY DEF Enqueue, sinkVars
<1>5. QED
  BY <1>1, <1>2, <1>3, <1>4 DEF LS!Accept

LEMMA CloseInnerImplements ==
  ASSUME IInv, CloseInner
  PROVE  LS!Seal
<1>1. closer = "close" /\ innerClosed' = TRUE
  BY DEF CloseInner
<1>2. ~innerClosed
  BY <1>1 DEF IInv, FlagsFollowClose
<1>3. UNCHANGED <<sent, out, failed, writeErrors>>
  BY DEF CloseInner, queueVars
<1>4. out = sent
  <2>1. \A s \in Shards : out[s] = sent[s]
    BY <1>1, ClosedMeansEmpty
  <2>2. out \in [Shards -> Seq(Entries)] /\ sent \in [Shards -> Seq(Entries)]
    BY DEF IInv, TypeOK
  <2>3. QED
    BY <2>1, <2>2
<1>5. QED
  BY <1>1, <1>2, <1>3, <1>4 DEF LS!Seal

LEMMA StepImplements ==
  ASSUME IInv, [Next]_vars
  PROVE  [LS!Next]_(LS!vars)
<1>1. ASSUME UNCHANGED <<sent, out, failed, writeErrors, innerClosed>>
      PROVE  UNCHANGED LS!vars
  BY <1>1 DEF LS!vars
<1>2. ASSUME NEW p \in Producers, Request(p) \/ ProducerStep(p)
      PROVE  LS!Accept \/ UNCHANGED LS!vars
  <2>1. CASE Enqueue(p)
    BY <2>1, EnqueueImplements
  <2>2. CASE ~Enqueue(p)
    <3>1. UNCHANGED sent
      BY <1>2, <2>2 DEF Request, Write, WriteLevel, StartCall, ProducerStep, Register,
                        Recheck, GiveUp, Drop, CountEnqueued, Leave, queueVars
    <3>2. QED
      BY <1>1, <1>2, <3>1, ProducerFrame DEF sinkVars
  <2>3. QED
    BY <2>1, <2>2
<1>3. ASSUME NEW s \in Shards, WorkerStep(s)
      PROVE  LS!Deliver \/ UNCHANGED LS!vars
  <2>1. UNCHANGED <<sent, innerClosed>> /\ worker[s] # "exited"
    BY <1>3, WorkerFrame DEF WorkerStep, Wake, DrainOne, Drained, Tick, Handoff,
                             Acknowledge, SeeDone, Exit
  <2>2. CASE Flush(s)
    BY <2>1, <2>2, FlushImplements
  <2>3. CASE ~Flush(s)
    <3>1. UNCHANGED <<out, failed, writeErrors>>
      BY <1>3, <2>3 DEF WorkerStep, Wake, DrainOne, Drained, Tick, Handoff, Acknowledge,
                        SeeDone, Exit, sinkVars
    <3>2. QED
      BY <1>1, <2>1, <3>1
  <2>4. QED
    BY <2>2, <2>3
<1>4. ASSUME NEW c \in Syncers, StartSync(c) \/ SyncStep(c)
      PROVE  UNCHANGED LS!vars
  BY <1>1, <1>4, SyncFrame DEF queueVars
<1>5. CASE CloseBegin \/ CloseSignal \/ CloseAwait \/ CloseJoin
  BY <1>1, <1>5 DEF CloseBegin, CloseSignal, CloseAwait, CloseJoin, queueVars, sinkVars
<1>6. ASSUME NEW s \in Shards, CloseDrain(s) PROVE UNCHANGED LS!vars
  BY <1>1, <1>6 DEF CloseDrain, sinkVars
<1>7. CASE CloseFlush
  BY <1>7, CloseFlushImplements DEF LS!Next
<1>8. CASE CloseInner
  BY <1>8, CloseInnerImplements DEF LS!Next
<1>9. CASE Finished \/ UNCHANGED vars
  BY <1>1, <1>9 DEF Finished, vars, queueVars, sinkVars
<1>10. QED
  BY <1>2, <1>3, <1>4, <1>5, <1>6, <1>7, <1>8, <1>9 DEF Next, CloseStep, LS!Next

(* The asynchronous writer is a log stream: it accepts entries, delivers    *)
(* them in order, loses them only by a counted error, and seals the stream  *)
(* only when it has delivered all it accepted.                              *)
THEOREM Implements == Spec => ImplementsLogStream
<1>1. Init => LS!Init
  BY InitImplements
<1>2. IInv /\ [Next]_vars => [LS!Next]_(LS!vars)
  BY StepImplements
<1>3. QED
  BY <1>1, <1>2, Invariance, PTL DEF Spec, ImplementsLogStream, LS!Spec

=============================================================================
