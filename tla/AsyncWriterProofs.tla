------------------------- MODULE AsyncWriterProofs -------------------------
(***************************************************************************)
(* Proofs, for any number of producers, entries, shards and Sync calls, of  *)
(* the safety of AsyncWriter; then that its counters add up, that its level *)
(* policy protects severe entries, and that Sync is a barrier where there   *)
(* is a single shard.                                                       *)
(***************************************************************************)
EXTENDS AsyncWriterProps, FiniteSetTheorems, SequenceTheorems, TLAPS

LEMMA ShardCapPositive == ShardCap \in Nat \ {0}
  BY ConstantsAssumption DEF ShardCap

(* What a failing flush loses is part of the batch it wrote. *)
LEMMA SuffixInRange ==
  ASSUME NEW S, NEW seq \in Seq(S), NEW k \in 0 .. Len(seq)
  PROVE  Range(SubSeq(seq, k + 1, Len(seq))) \subseteq Range(seq)
<1> DEFINE t == SubSeq(seq, k + 1, Len(seq))
<1>1. \A i \in k + 1 .. Len(seq) : seq[i] \in S
  BY ElementOfSeq
<1>2. /\ t \in Seq(S)
      /\ Len(t) = Len(seq) - k
      /\ \A i \in 1 .. Len(seq) - k : t[i] = seq[k + i]
  BY <1>1, SubSeqProperties, LenProperties
<1>3. DOMAIN t = 1 .. Len(seq) - k /\ DOMAIN seq = 1 .. Len(seq)
  BY <1>2, LenProperties
<1>4. ASSUME NEW i \in 1 .. Len(seq) - k PROVE t[i] = seq[k + i] /\ k + i \in 1 .. Len(seq)
  BY <1>2, LenProperties
<1>5. QED
  BY <1>3, <1>4 DEF Range

LEMMA HeadTailConcat ==
  ASSUME NEW S, NEW seq \in Seq(S), seq # <<>>
  PROVE  <<Head(seq)>> \o Tail(seq) = seq
<1>1. Len(seq) \in Nat \ {0}
  BY EmptySeq
<1>2. SubSeq(seq, 1, Len(seq)) = <<seq[1]>> \o SubSeq(seq, 2, Len(seq))
  BY <1>1, SubSeqRecursiveFirst
<1>3. Head(seq) = seq[1] /\ Tail(seq) = SubSeq(seq, 2, Len(seq))
  BY <1>1, TailIsSubSeq
<1>4. QED
  BY <1>2, <1>3, SubSeqFull

(* Moving the head of a queue to the end of a batch keeps their concatenation. *)
LEMMA MoveHead ==
  ASSUME NEW S, NEW b \in Seq(S), NEW q \in Seq(S), q # <<>>
  PROVE  /\ Append(b, Head(q)) \in Seq(S)
         /\ Tail(q) \in Seq(S)
         /\ Len(Tail(q)) = Len(q) - 1
         /\ Append(b, Head(q)) \o Tail(q) = b \o q
<1>1. Head(q) \in S /\ Tail(q) \in Seq(S) /\ Len(Tail(q)) = Len(q) - 1
  BY HeadTailProperties
<1>2. Append(b, Head(q)) = b \o <<Head(q)>> /\ Append(b, Head(q)) \in Seq(S)
  BY <1>1, AppendIsConcat, AppendProperties
<1>3. DEFINE h == <<Head(q)>>
<1>4. h \in Seq(S)
  BY <1>1
<1>5. h \o Tail(q) = q
  BY HeadTailConcat
<1>6. (b \o h) \o Tail(q) = b \o (h \o Tail(q))
  BY <1>1, <1>4, ConcatAssociative
<1>7. QED
  BY <1>1, <1>2, <1>5, <1>6

LEMMA BusyFinite == IsFiniteSet(Busy) /\ Cardinality(Busy) \in Nat
  BY ConstantsAssumption, FS_Subset, FS_CardinalityType DEF Busy

LEMMA InitIInv == Init => IInv
<1> SUFFICES ASSUME Init PROVE IInv
  OBVIOUS
<1>1. 0 \in Shards
  BY ConstantsAssumption DEF Shards
<1>2. TypeOK
  <2>1. /\ queue \in [Shards -> Seq(Entries)] /\ batch \in [Shards -> Seq(Entries)]
        /\ leftover \in [Shards -> Seq(Entries)] /\ sent \in [Shards -> Seq(Entries)]
        /\ out \in [Shards -> Seq(Entries)]
    BY EmptySeq DEF Init
  <2>2. \A s \in Shards : Len(queue[s]) <= ShardCap
    <3>1. \A s \in Shards : Len(queue[s]) = 0
      BY EmptySeq DEF Init
    <3>2. QED
      BY <3>1, ShardCapPositive
  <2>3. \A p \in Producers : entry[p] = None <=> call[p] = "idle"
    BY DEF Init
  <2>4. \A s \in Shards : resp[s] = None <=> worker[s] # "sync"
    BY DEF Init
  <2>5. QED
    BY <1>1, <2>1, <2>2, <2>3, <2>4 DEF Init, TypeOK
<1>3. InFlightExact
  <2>1. Busy = {}
    BY DEF Init, Busy
  <2>2. QED
    BY <2>1, FS_EmptySet DEF Init, InFlightExact
<1>4. FlagsFollowClose /\ NoLateEnqueue /\ WorkersLeaveClean /\ CloseLeavesNothing
  BY DEF Init, FlagsFollowClose, NoLateEnqueue, WorkersLeaveClean, CloseLeavesNothing
<1>5. ShardFifo
  BY ConcatEmptySeq, EmptySeq DEF Init, ShardFifo
<1>6. QED
  BY <1>2, <1>3, <1>4, <1>5 DEF IInv

(* Types: a flush and a receive keep their sequences sequences of entries.  *)
LEMMA FlushTypes ==
  ASSUME TypeOK, NEW s \in Shards, Flush(s)
  PROVE  /\ batch' \in [Shards -> Seq(Entries)]
         /\ batch'[s] = <<>>
         /\ \A t \in Shards : t # s => batch'[t] = batch[t] /\ out'[t] = out[t]
         /\ out'[s] = out[s] \o batch[s]
         /\ out' \in [Shards -> Seq(Entries)]
         /\ failed' \in SUBSET Entries
         /\ writeErrors' \in Nat
         /\ UNCHANGED <<innerClosed, durable>>
<1>1. batch[s] \in Seq(Entries) /\ out[s] \in Seq(Entries)
  BY DEF TypeOK
<1>2. out[s] \o batch[s] \in Seq(Entries)
  BY <1>1, ConcatProperties
<1>3. PICK kept \in 0 .. Len(batch[s]) :
        /\ out' = [out EXCEPT ![s] = @ \o batch[s]]
        /\ failed' = failed \cup Range(SubSeq(batch[s], kept + 1, Len(batch[s])))
        /\ writeErrors' = IF kept < Len(batch[s]) THEN writeErrors + 1 ELSE writeErrors
        /\ batch' = [batch EXCEPT ![s] = <<>>]
        /\ UNCHANGED <<innerClosed, durable>>
  BY DEF Flush, AfterFlush
<1>4. Range(SubSeq(batch[s], kept + 1, Len(batch[s]))) \subseteq Entries
  BY <1>1, SuffixInRange, RangeOfSeq
<1>5. failed' \subseteq Entries
  BY <1>3, <1>4 DEF TypeOK
<1>6. writeErrors' \in Nat
  BY <1>3 DEF TypeOK
<1>7. out' \in [Shards -> Seq(Entries)] /\ batch' \in [Shards -> Seq(Entries)]
  BY <1>2, <1>3, EmptySeq DEF TypeOK
<1>8. QED
  BY <1>3, <1>5, <1>6, <1>7 DEF TypeOK

LEMMA ReceiveTypes ==
  ASSUME TypeOK, NEW s \in Shards, Receive(s)
  PROVE  /\ batch' \in [Shards -> Seq(Entries)]
         /\ queue' \in [Shards -> Seq(Entries)]
         /\ \A t \in Shards : Len(queue'[t]) <= ShardCap
         /\ \A t \in Shards : t # s => batch'[t] = batch[t] /\ queue'[t] = queue[t]
         /\ batch'[s] = Append(batch[s], Head(queue[s]))
         /\ queue'[s] = Tail(queue[s])
         /\ batch'[s] \o queue'[s] = batch[s] \o queue[s]
<1>1. batch[s] \in Seq(Entries) /\ queue[s] \in Seq(Entries) /\ queue[s] # <<>>
  BY DEF TypeOK, Receive
<1>2. /\ Append(batch[s], Head(queue[s])) \in Seq(Entries)
      /\ Tail(queue[s]) \in Seq(Entries)
      /\ Len(Tail(queue[s])) = Len(queue[s]) - 1
      /\ Append(batch[s], Head(queue[s])) \o Tail(queue[s]) = batch[s] \o queue[s]
  BY <1>1, MoveHead
<1>3. /\ batch \in [Shards -> Seq(Entries)] /\ queue \in [Shards -> Seq(Entries)]
      /\ \A t \in Shards : Len(queue[t]) <= ShardCap
  BY DEF TypeOK
<1>4. /\ batch' = [batch EXCEPT ![s] = Append(batch[s], Head(queue[s]))]
      /\ queue' = [queue EXCEPT ![s] = Tail(queue[s])]
  BY DEF Receive
<1>5. /\ \A t \in Shards : t # s => batch'[t] = batch[t] /\ queue'[t] = queue[t]
      /\ batch'[s] = Append(batch[s], Head(queue[s]))
      /\ queue'[s] = Tail(queue[s])
  BY <1>3, <1>4
<1>6. batch' \in [Shards -> Seq(Entries)] /\ queue' \in [Shards -> Seq(Entries)]
  BY <1>2, <1>3, <1>4
<1>7. Len(queue[s]) \in Nat /\ ShardCap \in Nat
  BY <1>1, LenProperties, ShardCapPositive
<1>8. ASSUME NEW t \in Shards PROVE Len(queue'[t]) <= ShardCap
  <2>1. CASE t = s
    <3>1. Len(queue'[s]) = Len(queue[s]) - 1
      BY <1>2, <1>5
    <3>2. Len(queue[s]) <= ShardCap
      BY <1>3
    <3>3. QED
      BY <2>1, <3>1, <3>2, <1>7
  <2>2. CASE t # s
    BY <2>2, <1>3, <1>5
  <2>3. QED
    BY <2>1, <2>2
<1>9. QED
  BY <1>2, <1>5, <1>6, <1>8

(* Who touches what: the variables each kind of goroutine leaves alone.     *)
LEMMA ProducerFrame ==
  ASSUME NEW p \in Producers, Request(p) \/ ProducerStep(p)
  PROVE  UNCHANGED <<workerVars, sinkVars, syncVars, closeVars>>
BY DEF Request, Write, WriteLevel, StartCall, ProducerStep, Register, Recheck,
       Enqueue, GiveUp, Drop, CountEnqueued, Leave,
       callVars, workerVars, sinkVars, syncVars, closeVars, queueVars

LEMMA WorkerFrame ==
  ASSUME NEW s \in Shards, WorkerStep(s)
  PROVE  UNCHANGED <<callVars, closeVars, sent, before, innerClosed, durable>>
BY DEF WorkerStep, Wake, DrainOne, Drained, Tick, Handoff, Acknowledge, SeeDone, Exit,
       Flush, Receive, callVars, workerVars, sinkVars, syncVars, closeVars, queueVars

LEMMA SyncFrame ==
  ASSUME NEW c \in Syncers, StartSync(c) \/ SyncStep(c)
  PROVE  UNCHANGED <<queueVars, callVars, workerVars, closeVars, innerClosed,
                     writeErrors, out, failed>>
BY DEF StartSync, SyncStep, AbandonSync, FinishSync,
       callVars, workerVars, sinkVars, syncVars, closeVars, queueVars

LEMMA CloseFrame ==
  ASSUME CloseBegin \/ CloseStep
  PROVE  UNCHANGED <<callVars, workerVars, syncVars, sent>>
BY DEF CloseBegin, CloseStep, CloseSignal, CloseAwait, CloseJoin, CloseDrain,
       CloseFlush, CloseInner,
       callVars, workerVars, sinkVars, syncVars, closeVars, queueVars

-----------------------------------------------------------------------------
LEMMA TypeProducer ==
  ASSUME IInv, NEW p \in Producers, Request(p) \/ ProducerStep(p)
  PROVE  TypeOK'
<1> USE DEF IInv
<1> USE ProducerFrame DEF callVars, workerVars, sinkVars, syncVars, closeVars, queueVars
<1>1. ASSUME NEW e \in Entries, NEW b \in BOOLEAN, StartCall(p, e, b),
             leveled' \in SUBSET Entries
      PROVE  TypeOK'
  <2>1. None # e
    BY ConstantsAssumption
  <2>2. \A q \in Producers : entry'[q] = None <=> call'[q] = "idle"
    BY <1>1, <2>1 DEF StartCall, TypeOK
  <2>3. CASE closed
    <3>1. /\ result' = [result EXCEPT ![e] = "refused"]
          /\ UNCHANGED <<call, entry, mayBlock, inFlight, next, route, enqueued, dropped>>
          /\ UNCHANGED <<queueVars, workerVars, sinkVars, syncVars, closeVars>>
      BY <1>1, <2>3 DEF StartCall
    <3>2. QED
      BY <1>1, <2>2, <3>1 DEF TypeOK
  <2>4. mayBlock' \in [Producers -> BOOLEAN]
    <3>1. mayBlock \in [Producers -> BOOLEAN]
      BY DEF TypeOK
    <3>2. mayBlock' = mayBlock \/ mayBlock' = [mayBlock EXCEPT ![p] = b]
      BY <1>1 DEF StartCall
    <3>3. QED
      BY <3>1, <3>2, <1>1, Zenon
  <2>5. CASE ~closed
    <3>1. /\ call' = [call EXCEPT ![p] = "register"]
          /\ entry' = [entry EXCEPT ![p] = e]
          /\ result' = [result EXCEPT ![e] = "pending"]
          /\ UNCHANGED <<inFlight, next, route, enqueued, dropped>>
          /\ UNCHANGED <<queueVars, workerVars, sinkVars, syncVars, closeVars>>
      BY <1>1, <2>5 DEF StartCall
    <3>2. QED
      BY <1>1, <2>2, <2>4, <3>1 DEF TypeOK
  <2>6. QED
    BY <2>3, <2>5
<1>2. ASSUME NEW e \in Entries, Write(p, e) PROVE TypeOK'
  BY <1>1, <1>2, ConstantsAssumption DEF Write, TypeOK
<1>3. ASSUME NEW e \in Entries, WriteLevel(p, e) PROVE TypeOK'
  <2>1. Blocks(Level[e]) \in BOOLEAN
    BY ConstantsAssumption DEF Blocks
  <2>2. leveled' \in SUBSET Entries
    BY <1>3 DEF WriteLevel, TypeOK
  <2>3. QED
    BY <1>1, <1>3, <2>1, <2>2 DEF WriteLevel
<1>4. CASE Register(p)
  BY <1>4 DEF Register, TypeOK
<1>5. CASE Recheck(p)
  <2>1. next' \in Shards
    <3>1. next \in Int /\ next \in Shards
      BY ConstantsAssumption DEF TypeOK, Shards
    <3>2. (next + 1) % NShards \in 0 .. NShards - 1
      BY <3>1, ConstantsAssumption
    <3>3. next' = next \/ next' = (next + 1) % NShards
      BY <1>5 DEF Recheck
    <3>4. QED
      BY <3>1, <3>2, <3>3 DEF Shards
  <2>2. CASE StillOpen
    <3>1. /\ call' = [call EXCEPT ![p] = "enqueue"]
          /\ route' = [route EXCEPT ![p] = next'] /\ UNCHANGED result
      BY <1>5, <2>2 DEF Recheck
    <3>2. QED
      BY <1>5, <2>1, <3>1 DEF Recheck, TypeOK
  <2>3. CASE ~StillOpen
    <3>1. /\ call' = [call EXCEPT ![p] = "leave"]
          /\ result' = [result EXCEPT ![entry[p]] = "refused"] /\ UNCHANGED route
      BY <1>5, <2>3 DEF Recheck
    <3>2. QED
      BY <1>5, <2>1, <3>1 DEF Recheck, TypeOK
  <2>4. QED
    BY <2>2, <2>3
<1>6. CASE Enqueue(p)
  <2> DEFINE s == route[p]
  <2>1. s \in Shards /\ entry[p] \in Entries
    BY <1>6 DEF Enqueue, TypeOK
  <2>2. Append(queue[s], entry[p]) \in Seq(Entries) /\ Append(sent[s], entry[p]) \in Seq(Entries)
    BY <2>1, AppendProperties DEF TypeOK
  <2>3. Len(Append(queue[s], entry[p])) <= ShardCap
    BY <1>6, <2>1, AppendProperties, LenProperties, ShardCapPositive
    DEF Enqueue, HasRoom, TypeOK
  <2>4. \A t \in Shards : Len(queue'[t]) <= ShardCap
    BY <1>6, <2>1, <2>2, <2>3 DEF Enqueue, TypeOK
  <2>5. queue' \in [Shards -> Seq(Entries)] /\ sent' \in [Shards -> Seq(Entries)]
    BY <1>6, <2>1, <2>2 DEF Enqueue, TypeOK
  <2>6. QED
    BY <1>6, <2>1, <2>4, <2>5 DEF Enqueue, TypeOK
<1>7. CASE GiveUp(p)
  BY <1>7 DEF GiveUp, TypeOK
<1>8. CASE Drop(p)
  BY <1>8 DEF Drop, TypeOK
<1>9. CASE CountEnqueued(p)
  BY <1>9 DEF CountEnqueued, TypeOK
<1>10. CASE Leave(p)
  <2>1. p \in Busy
    BY <1>10 DEF Leave, Busy
  <2>2. inFlight - 1 \in Nat
    BY <2>1, BusyFinite, FS_EmptySet, ConstantsAssumption DEF InFlightExact, TypeOK
  <2>3. 0 \in Shards
    BY ConstantsAssumption DEF Shards
  <2>4. QED
    BY <1>10, <2>2, <2>3 DEF Leave, TypeOK
<1>11. QED
  BY <1>2, <1>3, <1>4, <1>5, <1>6, <1>7, <1>8, <1>9, <1>10 DEF Request, ProducerStep

LEMMA TypeWorker ==
  ASSUME IInv, NEW s \in Shards, WorkerStep(s)
  PROVE  TypeOK'
<1> USE DEF IInv
<1> USE WorkerFrame DEF callVars, workerVars, sinkVars, syncVars, closeVars, queueVars, Goto
<1>n. \A t \in Shards : resp[t] = None <=> worker[t] # "sync"
  BY DEF TypeOK
<1>1. CASE Wake(s)
  <2>1. \A t \in Shards : resp'[t] = None <=> worker'[t] # "sync"
    BY <1>1, <1>n DEF Wake, TypeOK
  <2>2. QED
    BY <1>1, <2>1, ReceiveTypes DEF Wake, TypeOK
<1>2. CASE DrainOne(s)
  BY <1>2, ReceiveTypes DEF DrainOne, TypeOK
<1>3. CASE Drained(s)
  <2>1. \A t \in Shards : resp'[t] = None <=> worker'[t] # "sync"
    BY <1>3, <1>n DEF Drained, TypeOK
  <2>2. CASE Flush(s)
    BY <1>3, <2>1, <2>2, FlushTypes DEF Drained, TypeOK
  <2>3. CASE UNCHANGED <<batch, sinkVars>>
    BY <1>3, <2>1, <2>3 DEF Drained, TypeOK
  <2>4. QED
    BY <1>3, <2>2, <2>3 DEF Drained
<1>4. CASE Tick(s)
  BY <1>4, FlushTypes DEF Tick, TypeOK
<1>5. ASSUME NEW c \in Syncers, Handoff(c, s) PROVE TypeOK'
  <2>1. c # None
    BY ConstantsAssumption
  <2>2. \A t \in Shards : resp'[t] = None <=> worker'[t] # "sync"
    BY <1>5, <1>n, <2>1 DEF Handoff, TypeOK
  <2>3. QED
    BY <1>5, <2>2 DEF Handoff, TypeOK
<1>6. CASE Acknowledge(s)
  <2>1. resp[s] \in Syncers
    BY <1>6, <1>n DEF Acknowledge, TypeOK
  <2>2. \A t \in Shards : resp'[t] = None <=> worker'[t] # "sync"
    BY <1>6, <1>n DEF Acknowledge, TypeOK
  <2>3. acked' \in [Syncers -> Nat]
    BY <1>6, <2>1 DEF Acknowledge, TypeOK
  <2>4. QED
    BY <1>6, <2>2, <2>3, FlushTypes DEF Acknowledge, TypeOK
<1>7. CASE SeeDone(s)
  <2>1. \A t \in Shards : resp'[t] = None <=> worker'[t] # "sync"
    BY <1>7, <1>n DEF SeeDone, TypeOK
  <2>2. QED
    BY <1>7, <2>1 DEF SeeDone, TypeOK
<1>8. CASE Exit(s)
  <2>1. \A t \in Shards : resp'[t] = None <=> worker'[t] # "sync"
    BY <1>8, <1>n DEF Exit, TypeOK
  <2>2. QED
    BY <1>8, <2>1, FlushTypes DEF Exit, TypeOK
<1>9. QED
  BY <1>1, <1>2, <1>3, <1>4, <1>5, <1>6, <1>7, <1>8 DEF WorkerStep

LEMMA EntrySets ==
  ASSUME TypeOK
  PROVE  AllSent \in SUBSET Entries /\ InFile \in SUBSET Entries
BY RangeOfSeq DEF TypeOK, AllSent, InFile, HandedOver

LEMMA TypeSync ==
  ASSUME IInv, NEW c \in Syncers, StartSync(c) \/ SyncStep(c)
  PROVE  TypeOK'
<1> USE DEF IInv
<1> USE SyncFrame, EntrySets
    DEF callVars, workerVars, sinkVars, syncVars, closeVars, queueVars
<1>1. CASE StartSync(c)
  BY <1>1 DEF StartSync, TypeOK
<1>2. CASE AbandonSync(c)
  BY <1>2 DEF AbandonSync, TypeOK
<1>3. CASE FinishSync(c)
  BY <1>3 DEF FinishSync, TypeOK
<1>4. QED
  BY <1>1, <1>2, <1>3 DEF SyncStep

LEMMA TypeClose ==
  ASSUME IInv, CloseBegin \/ CloseStep
  PROVE  TypeOK'
<1> USE DEF IInv
<1> USE CloseFrame, EntrySets
    DEF callVars, workerVars, sinkVars, syncVars, closeVars, queueVars
<1>1. CASE CloseBegin
  BY <1>1 DEF CloseBegin, TypeOK
<1>2. CASE CloseSignal
  BY <1>2 DEF CloseSignal, TypeOK
<1>3. CASE CloseAwait
  BY <1>3 DEF CloseAwait, TypeOK
<1>4. CASE CloseJoin
  BY <1>4 DEF CloseJoin, TypeOK
<1>5. ASSUME NEW s \in Shards, CloseDrain(s) PROVE TypeOK'
  <2>1. /\ Append(leftover[s], Head(queue[s])) \in Seq(Entries)
        /\ Tail(queue[s]) \in Seq(Entries)
        /\ Len(Tail(queue[s])) = Len(queue[s]) - 1
    BY <1>5, MoveHead DEF CloseDrain, TypeOK
  <2>2. leftover' \in [Shards -> Seq(Entries)] /\ queue' \in [Shards -> Seq(Entries)]
    BY <1>5, <2>1 DEF CloseDrain, TypeOK
  <2>3. ASSUME NEW t \in Shards PROVE Len(queue'[t]) <= ShardCap
    <3>1. CASE t = s
      <4>1. Len(queue'[t]) = Len(queue[s]) - 1
        BY <1>5, <2>1, <3>1 DEF CloseDrain, TypeOK
      <4>2. Len(queue[s]) <= ShardCap /\ Len(queue[s]) \in Nat
        BY LenProperties DEF TypeOK
      <4>3. QED
        BY <4>1, <4>2, ShardCapPositive
    <3>2. CASE t # s
      BY <1>5, <3>2 DEF CloseDrain, TypeOK
    <3>3. QED
      BY <3>1, <3>2
  <2>4. QED
    BY <1>5, <2>2, <2>3 DEF CloseDrain, TypeOK
<1>6. CASE CloseFlush
  <2>1. PICK s \in Shards : \E kept \in 0 .. Len(leftover[s]) :
          LET lost == Range(SubSeq(leftover[s], kept + 1, Len(leftover[s])))
                      \cup UNION {Range(leftover[t]) : t \in {u \in Shards : u > s}}
          IN  failed' = failed \cup lost /\ writeErrors' = CountFailure(lost)
    BY <1>6 DEF CloseFlush
  <2>p. PICK kept \in 0 .. Len(leftover[s]) :
          LET lost == Range(SubSeq(leftover[s], kept + 1, Len(leftover[s])))
                      \cup UNION {Range(leftover[t]) : t \in {u \in Shards : u > s}}
          IN  failed' = failed \cup lost /\ writeErrors' = CountFailure(lost)
    BY <2>1
  <2>2. \A t \in Shards : leftover[t] \in Seq(Entries) /\ Range(leftover[t]) \subseteq Entries
    BY RangeOfSeq DEF TypeOK
  <2>3. Range(SubSeq(leftover[s], kept + 1, Len(leftover[s]))) \subseteq Entries
    BY <2>2, SuffixInRange
  <2>4. failed' \in SUBSET Entries /\ writeErrors' \in Nat
    <3> DEFINE tail == Range(SubSeq(leftover[s], kept + 1, Len(leftover[s])))
               rest == UNION {Range(leftover[t]) : t \in {u \in Shards : u > s}}
    <3>1. tail \subseteq Entries
      BY <2>3
    <3>2. rest \subseteq Entries
      BY <2>2
    <3>3. failed' = failed \cup (tail \cup rest) /\ writeErrors' \in {writeErrors, writeErrors + 1}
      BY <2>p DEF CountFailure
    <3>4. failed \in SUBSET Entries /\ writeErrors \in Nat
      BY DEF TypeOK
    <3> HIDE DEF tail, rest
    <3>5. QED
      BY <3>1, <3>2, <3>3, <3>4
  <2>5. \A t \in Shards : out[t] \o leftover[t] \in Seq(Entries) /\ <<>> \in Seq(Entries)
    BY ConcatProperties, EmptySeq DEF TypeOK
  <2>6. out' \in [Shards -> Seq(Entries)] /\ leftover' \in [Shards -> Seq(Entries)]
    BY <1>6, <2>5 DEF CloseFlush
  <2>7. QED
    BY <1>6, <2>4, <2>6 DEF CloseFlush, TypeOK
<1>7. CASE CloseInner
  BY <1>7 DEF CloseInner, TypeOK
<1>8. QED
  BY <1>1, <1>2, <1>3, <1>4, <1>5, <1>6, <1>7 DEF CloseStep

-----------------------------------------------------------------------------
(* inFlight: registering adds a call to Busy, leaving removes it, and every *)
(* other step keeps both.                                                   *)
LEMMA InFlightStep ==
  ASSUME IInv, [Next]_vars
  PROVE  InFlightExact'
<1> USE DEF IInv
<1>1. ASSUME UNCHANGED <<inFlight, call>> PROVE InFlightExact'
  BY <1>1 DEF InFlightExact, Busy
<1>2. ASSUME NEW p \in Producers, Request(p) PROVE InFlightExact'
  <2>1. inFlight' = inFlight /\ Busy' = Busy
    BY <1>2, SMTT(30) DEF Request, Write, WriteLevel, StartCall, Busy, TypeOK
  <2>2. QED
    BY <2>1 DEF InFlightExact
<1>3. ASSUME NEW p \in Producers, Register(p) PROVE InFlightExact'
  <2>1. p \notin Busy /\ Busy' = Busy \cup {p} /\ inFlight' = inFlight + 1
    BY <1>3 DEF Register, Busy, TypeOK
  <2>2. QED
    BY <2>1, BusyFinite, FS_AddElement DEF InFlightExact
<1>4. ASSUME NEW p \in Producers, Leave(p) PROVE InFlightExact'
  <2>1. p \in Busy /\ Busy' = Busy \ {p} /\ inFlight' = inFlight - 1
    BY <1>4 DEF Leave, Busy, TypeOK
  <2>2. QED
    BY <2>1, BusyFinite, FS_RemoveElement DEF InFlightExact
<1>5. ASSUME NEW p \in Producers,
             \/ Recheck(p) \/ Enqueue(p) \/ GiveUp(p) \/ Drop(p) \/ CountEnqueued(p)
      PROVE  InFlightExact'
  <2>1. PICK pc \in {"enqueue", "count", "leave"} :
          /\ call' = [call EXCEPT ![p] = pc]
          /\ call[p] \in {"recheck", "enqueue", "count"} /\ inFlight' = inFlight
    BY <1>5 DEF Recheck, Enqueue, GiveUp, Drop, CountEnqueued
  <2>2. Busy' = Busy
    BY <2>1 DEF Busy, TypeOK
  <2>3. QED
    BY <2>1, <2>2 DEF InFlightExact
<1>6. ASSUME NEW s \in Shards, WorkerStep(s) PROVE InFlightExact'
  BY <1>1, <1>6, WorkerFrame DEF callVars
<1>7. ASSUME NEW c \in Syncers, StartSync(c) \/ SyncStep(c) PROVE InFlightExact'
  BY <1>1, <1>7, SyncFrame DEF callVars
<1>8. CASE CloseBegin \/ CloseStep
  BY <1>1, <1>8, CloseFrame DEF callVars
<1>9. CASE Finished \/ UNCHANGED vars
  BY <1>1, <1>9 DEF Finished, vars, callVars
<1>10. QED
  BY <1>2, <1>3, <1>4, <1>5, <1>6, <1>7, <1>8, <1>9 DEF Next, ProducerStep

(* closed, done and innerClosed are written by Close only.                  *)
LEMMA FlagsStep ==
  ASSUME IInv, [Next]_vars
  PROVE  FlagsFollowClose'
<1> USE DEF IInv
<1>1. ASSUME UNCHANGED <<closed, done, innerClosed, closer>> PROVE FlagsFollowClose'
  BY <1>1 DEF FlagsFollowClose
<1>2. ASSUME NEW p \in Producers, Request(p) \/ ProducerStep(p) PROVE FlagsFollowClose'
  BY <1>1, <1>2, ProducerFrame DEF closeVars, sinkVars
<1>3. ASSUME NEW s \in Shards, WorkerStep(s) PROVE FlagsFollowClose'
  BY <1>1, <1>3, WorkerFrame DEF closeVars
<1>4. ASSUME NEW c \in Syncers, StartSync(c) \/ SyncStep(c) PROVE FlagsFollowClose'
  BY <1>1, <1>4, SyncFrame DEF closeVars
<1>5. CASE CloseBegin \/ CloseStep
  <2> USE DEF FlagsFollowClose, sinkVars
  <2>1. CASE CloseBegin
    BY <2>1 DEF CloseBegin
  <2>2. CASE CloseSignal
    BY <2>2 DEF CloseSignal
  <2>3. CASE CloseAwait
    BY <2>3 DEF CloseAwait
  <2>4. CASE CloseJoin
    BY <2>4 DEF CloseJoin
  <2>5. ASSUME NEW s \in Shards, CloseDrain(s) PROVE FlagsFollowClose'
    BY <2>5 DEF CloseDrain
  <2>6. CASE CloseFlush
    BY <2>6 DEF CloseFlush
  <2>7. CASE CloseInner
    BY <2>7 DEF CloseInner
  <2>8. QED
    BY <1>5, <2>1, <2>2, <2>3, <2>4, <2>5, <2>6, <2>7 DEF CloseStep
<1>6. CASE Finished \/ UNCHANGED vars
  BY <1>1, <1>6 DEF Finished, vars, closeVars, sinkVars
<1>7. QED
  BY <1>2, <1>3, <1>4, <1>5, <1>6 DEF Next

(* The step into "join" needs inFlight = 0, hence no busy call; after it    *)
(* the second closed check turns every newly registered call away.          *)
LEMMA NoLateEnqueueStep ==
  ASSUME IInv, [Next]_vars
  PROVE  NoLateEnqueue'
<1> USE DEF IInv
<1>1. ASSUME UNCHANGED <<call, closer>> PROVE NoLateEnqueue'
  BY <1>1 DEF NoLateEnqueue
<1>2. ASSUME NEW p \in Producers, Request(p) \/ ProducerStep(p) PROVE NoLateEnqueue'
  <2>1. closer' = closer
    BY <1>2, ProducerFrame DEF closeVars
  <2>2. ASSUME closer \in {"join", "drain", "close", "closed"}, NEW q \in Producers
        PROVE  call'[q] \in {"idle", "register", "recheck", "leave"}
    <3>1. closed /\ call[p] \in {"idle", "register", "recheck", "leave"}
                 /\ call[q] \in {"idle", "register", "recheck", "leave"}
      BY <2>2 DEF FlagsFollowClose, NoLateEnqueue
    <3>2. call \in [Producers -> {"idle", "register", "recheck", "enqueue", "count", "leave"}]
      BY DEF TypeOK
    <3>3. CASE Request(p)
      BY <3>1, <3>3 DEF Request, Write, WriteLevel, StartCall
    <3>4. CASE Register(p)
      BY <3>1, <3>2, <3>4 DEF Register
    <3>5. CASE Recheck(p)
      BY <3>1, <3>2, <3>5 DEF Recheck, StillOpen
    <3>6. CASE Leave(p)
      BY <3>1, <3>2, <3>6 DEF Leave
    <3>7. ~(Enqueue(p) \/ GiveUp(p) \/ Drop(p) \/ CountEnqueued(p))
      BY <3>1 DEF Enqueue, GiveUp, Drop, CountEnqueued
    <3>8. QED
      BY <1>2, <3>3, <3>4, <3>5, <3>6, <3>7 DEF ProducerStep
  <2>3. QED
    BY <2>1, <2>2 DEF NoLateEnqueue
<1>3. ASSUME NEW s \in Shards, WorkerStep(s) PROVE NoLateEnqueue'
  BY <1>1, <1>3, WorkerFrame DEF closeVars, callVars
<1>4. ASSUME NEW c \in Syncers, StartSync(c) \/ SyncStep(c) PROVE NoLateEnqueue'
  BY <1>1, <1>4, SyncFrame DEF closeVars, callVars
<1>5. CASE CloseAwait
  <2>1. Busy = {}
    BY <1>5, BusyFinite, FS_EmptySet DEF CloseAwait, NoneInFlight, InFlightExact
  <2>2. \A p \in Producers : call[p] \in {"idle", "register"}
    BY <2>1 DEF Busy, TypeOK
  <2>3. call' = call
    BY <1>5 DEF CloseAwait, callVars
  <2>4. QED
    BY <2>2, <2>3 DEF NoLateEnqueue
<1>6. CASE CloseBegin \/ CloseSignal
  BY <1>6 DEF CloseBegin, CloseSignal, NoLateEnqueue
<1>7. ASSUME \/ CloseJoin \/ CloseFlush \/ CloseInner
             \/ \E s \in Shards : CloseDrain(s)
      PROVE  NoLateEnqueue'
  <2>1. call' = call /\ closer \in {"join", "drain", "close", "closed"}
    BY <1>7 DEF CloseJoin, CloseFlush, CloseInner, CloseDrain, callVars
  <2>2. QED
    BY <2>1 DEF NoLateEnqueue
<1>8. CASE Finished \/ UNCHANGED vars
  BY <1>1, <1>8 DEF Finished, vars, closeVars, callVars
<1>9. QED
  BY <1>2, <1>3, <1>4, <1>5, <1>6, <1>7, <1>8 DEF Next, CloseStep

(* A worker that has returned does nothing any more.                        *)
LEMMA WorkersLeaveCleanStep ==
  ASSUME IInv, [Next]_vars
  PROVE  WorkersLeaveClean'
<1> USE DEF IInv
<1>1. ASSUME UNCHANGED <<worker, batch, closer>> PROVE WorkersLeaveClean'
  BY <1>1 DEF WorkersLeaveClean, WorkersGone
<1>2. ASSUME NEW p \in Producers, Request(p) \/ ProducerStep(p) PROVE WorkersLeaveClean'
  BY <1>1, <1>2, ProducerFrame DEF closeVars, workerVars
<1>3. ASSUME NEW s \in Shards, WorkerStep(s) PROVE WorkersLeaveClean'
  <2>1. worker[s] # "exited"
    BY <1>3 DEF WorkerStep, Wake, DrainOne, Drained, Tick, Handoff, Acknowledge, SeeDone, Exit
  <2>2. \A t \in Shards : t # s => worker'[t] = worker[t] /\ batch'[t] = batch[t]
    <3>1. \A t \in Shards : t # s => worker'[t] = worker[t]
      BY <1>3 DEF WorkerStep, Wake, DrainOne, Drained, Tick, Handoff, Acknowledge,
                  SeeDone, Exit, Goto, TypeOK
    <3>2. Flush(s) \/ Receive(s) \/ UNCHANGED batch
      BY <1>3 DEF WorkerStep, Wake, DrainOne, Drained, Tick, Handoff, Acknowledge,
                  SeeDone, Exit
    <3>3. \A t \in Shards : t # s => batch'[t] = batch[t]
      BY <3>2, FlushTypes, ReceiveTypes
    <3>4. QED
      BY <3>1, <3>3
  <2>3. worker'[s] = "exited" => batch'[s] = <<>>
    BY <1>3, <2>1, FlushTypes
    DEF WorkerStep, Wake, DrainOne, Drained, Tick, Handoff, Acknowledge, SeeDone, Exit,
        Goto, TypeOK
  <2>4. closer' = closer
    BY <1>3, WorkerFrame DEF closeVars
  <2>5. QED
    BY <2>1, <2>2, <2>3, <2>4 DEF WorkersLeaveClean, WorkersGone
<1>4. ASSUME NEW c \in Syncers, StartSync(c) \/ SyncStep(c) PROVE WorkersLeaveClean'
  BY <1>1, <1>4, SyncFrame DEF closeVars, workerVars
<1>5. CASE CloseBegin \/ CloseStep
  <2>1. UNCHANGED <<worker, batch>>
    BY <1>5, CloseFrame DEF workerVars
  <2>2. closer' \in {"drain", "close", "closed"} => WorkersGone
    BY <1>5 DEF CloseBegin, CloseStep, CloseSignal, CloseAwait, CloseJoin, CloseDrain,
                CloseFlush, CloseInner, WorkersLeaveClean
  <2>3. QED
    BY <2>1, <2>2 DEF WorkersLeaveClean, WorkersGone
<1>6. CASE Finished \/ UNCHANGED vars
  BY <1>1, <1>6 DEF Finished, vars, closeVars, workerVars
<1>7. QED
  BY <1>2, <1>3, <1>4, <1>5, <1>6 DEF Next

(* After the wait for the in-flight calls the queues can only shrink, and   *)
(* Close leaves its drain loop only when they are empty.                    *)
LEMMA CloseLeavesNothingStep ==
  ASSUME IInv, [Next]_vars
  PROVE  CloseLeavesNothing'
<1> USE DEF IInv
<1>1. ASSUME UNCHANGED <<queue, leftover, closer>> PROVE CloseLeavesNothing'
  BY <1>1 DEF CloseLeavesNothing
<1>2. ASSUME NEW p \in Producers, Enqueue(p) PROVE CloseLeavesNothing'
  <2>1. closer \notin {"close", "closed"}
    BY <1>2 DEF Enqueue, NoLateEnqueue
  <2>2. UNCHANGED <<leftover, closer>>
    BY <1>2 DEF Enqueue, closeVars
  <2>3. QED
    BY <2>1, <2>2 DEF CloseLeavesNothing
<1>3. ASSUME NEW p \in Producers,
             \/ Request(p) \/ Register(p) \/ Recheck(p) \/ GiveUp(p) \/ Drop(p)
             \/ CountEnqueued(p) \/ Leave(p)
      PROVE  CloseLeavesNothing'
  BY <1>1, <1>3 DEF Request, Write, WriteLevel, StartCall, Register, Recheck, GiveUp, Drop,
                    CountEnqueued, Leave, closeVars, queueVars
<1>4. ASSUME NEW s \in Shards, WorkerStep(s) PROVE CloseLeavesNothing'
  <2>1. UNCHANGED <<leftover, closer>>
    BY <1>4, WorkerFrame DEF closeVars
  <2>2. worker[s] # "exited"
    BY <1>4 DEF WorkerStep, Wake, DrainOne, Drained, Tick, Handoff, Acknowledge, SeeDone, Exit
  <2>3. closer \notin {"close", "closed"}
    BY <2>2 DEF WorkersLeaveClean, WorkersGone
  <2>4. QED
    BY <2>1, <2>3 DEF CloseLeavesNothing
<1>5. ASSUME NEW c \in Syncers, StartSync(c) \/ SyncStep(c) PROVE CloseLeavesNothing'
  BY <1>1, <1>5, SyncFrame DEF closeVars, queueVars
<1>6. CASE CloseBegin \/ CloseSignal \/ CloseAwait \/ CloseJoin
  BY <1>6 DEF CloseBegin, CloseSignal, CloseAwait, CloseJoin, queueVars, CloseLeavesNothing
<1>7. ASSUME NEW s \in Shards, CloseDrain(s) PROVE CloseLeavesNothing'
  BY <1>7 DEF CloseDrain, CloseLeavesNothing
<1>8. CASE CloseFlush
  BY <1>8 DEF CloseFlush, CloseLeavesNothing, queueVars
<1>9. CASE CloseInner
  BY <1>9 DEF CloseInner, CloseLeavesNothing, queueVars
<1>10. CASE Finished \/ UNCHANGED vars
  BY <1>1, <1>10 DEF Finished, vars, closeVars, queueVars
<1>11. QED
  BY <1>2, <1>3, <1>4, <1>5, <1>6, <1>7, <1>8, <1>9, <1>10
  DEF Next, ProducerStep, CloseStep

-----------------------------------------------------------------------------
(* How the steps regroup a shard's history (out, leftover), (batch, queue).  *)
LEMMA AppendRight ==
  \A u, v \in Seq(Entries) : \A e \in Entries : Append(u \o v, e) = u \o Append(v, e)
<1> SUFFICES ASSUME NEW u \in Seq(Entries), NEW v \in Seq(Entries), NEW e \in Entries
             PROVE  Append(u \o v, e) = u \o Append(v, e)
  OBVIOUS
<1> DEFINE l == <<e>>
<1>1. l \in Seq(Entries) /\ u \o v \in Seq(Entries)
  BY ConcatProperties
<1>2. Append(u \o v, e) = (u \o v) \o l /\ Append(v, e) = v \o l
  BY <1>1, AppendIsConcat
<1> HIDE DEF l
<1>3. (u \o v) \o l = u \o (v \o l)
  BY <1>1, ConcatAssociative
<1>4. QED
  BY <1>2, <1>3

LEMMA FlushRegroups ==
  ASSUME NEW S, NEW a \in Seq(S), NEW b \in Seq(S), NEW d \in Seq(S)
  PROVE  (a \o <<>>) \o (b \o d) = ((a \o b) \o <<>>) \o (<<>> \o d)
<1>1. a \o b \in Seq(S)
  BY ConcatProperties
<1>2. a \o <<>> = a /\ <<>> \o d = d
  BY ConcatEmptySeq
<1>3. (a \o b) \o <<>> = a \o b
  BY <1>1, ConcatEmptySeq
<1>4. a \o (b \o d) = (a \o b) \o d
  BY ConcatAssociative, SMTT(30)
<1>5. QED
  BY <1>2, <1>3, <1>4

LEMMA DrainRegroups ==
  ASSUME NEW S, NEW a \in Seq(S), NEW b \in Seq(S), NEW d \in Seq(S)
  PROVE  (a \o b) \o (<<>> \o d) = a \o (b \o d)
<1>1. <<>> \o d = d
  BY ConcatEmptySeq
<1>2. (a \o b) \o d = a \o (b \o d)
  BY ConcatAssociative
<1>3. QED
  BY <1>1, <1>2

LEMMA ConcatEmpty ==
  ASSUME NEW S, NEW a \in Seq(S), NEW b \in Seq(S)
  PROVE  (a \o b) \o <<>> = a \o b
<1>1. a \o b \in Seq(S)
  BY ConcatProperties
<1>2. QED
  BY <1>1, ConcatEmptySeq

(* Every step keeps each shard's history in order and complete.             *)
LEMMA ShardFifoStep ==
  ASSUME IInv, [Next]_vars
  PROVE  ShardFifo'
<1> USE DEF IInv
<1>s. ASSUME NEW s \in Shards
      PROVE  /\ out[s] \in Seq(Entries) /\ leftover[s] \in Seq(Entries)
             /\ batch[s] \in Seq(Entries) /\ queue[s] \in Seq(Entries)
             /\ sent[s] = (out[s] \o leftover[s]) \o (batch[s] \o queue[s])
  BY DEF TypeOK, ShardFifo
<1>f. ASSUME NEW r \in Shards,
             sent'[r] = (out'[r] \o leftover'[r]) \o (batch'[r] \o queue'[r]),
             \A s \in Shards : s # r =>
               /\ sent'[s] = sent[s] /\ out'[s] = out[s] /\ leftover'[s] = leftover[s]
               /\ batch'[s] = batch[s] /\ queue'[s] = queue[s]
      PROVE  ShardFifo'
  <2>1. ASSUME NEW s \in Shards, s # r
        PROVE  sent'[s] = (out'[s] \o leftover'[s]) \o (batch'[s] \o queue'[s])
    BY <1>s, <1>f, <2>1
  <2>2. QED
    BY <1>f, <2>1 DEF ShardFifo
<1>b. \A a, b, d \in Seq(Entries) :
        (a \o <<>>) \o (b \o d) = ((a \o b) \o <<>>) \o (<<>> \o d)
  BY FlushRegroups
<1>d. \A a, b, d \in Seq(Entries) : (a \o b) \o (<<>> \o d) = a \o (b \o d)
  BY DrainRegroups
<1>1. ASSUME UNCHANGED <<sent, out, leftover, batch, queue>> PROVE ShardFifo'
  BY <1>1 DEF ShardFifo
<1>2. ASSUME NEW p \in Producers, Enqueue(p) PROVE ShardFifo'
  <2> DEFINE r == route[p]
  <2>1. r \in Shards /\ entry[p] \in Entries
    BY <1>2 DEF Enqueue, TypeOK
  <2>2. UNCHANGED <<out, leftover, batch>>
    BY <1>2 DEF Enqueue, workerVars, sinkVars, closeVars
  <2>3. /\ sent'[r] = Append(sent[r], entry[p])
        /\ queue'[r] = Append(queue[r], entry[p])
        /\ \A s \in Shards : s # r => sent'[s] = sent[s] /\ queue'[s] = queue[s]
    BY <1>2, <2>1 DEF Enqueue, TypeOK
  <2> HIDE DEF r
  <2>4. out[r] \o leftover[r] \in Seq(Entries) /\ batch[r] \o queue[r] \in Seq(Entries)
    BY <1>s, <2>1, ConcatProperties
  <2>5. Append(batch[r] \o queue[r], entry[p]) = batch[r] \o Append(queue[r], entry[p])
    BY <1>s, <2>1, AppendRight, Zenon
  <2>6. Append((out[r] \o leftover[r]) \o (batch[r] \o queue[r]), entry[p])
          = (out[r] \o leftover[r]) \o Append(batch[r] \o queue[r], entry[p])
    BY <2>1, <2>4, AppendRight, Zenon
  <2>7. sent[r] = (out[r] \o leftover[r]) \o (batch[r] \o queue[r])
    BY <1>s, <2>1
  <2>8. sent'[r] = (out'[r] \o leftover'[r]) \o (batch'[r] \o queue'[r])
    BY <2>2, <2>3, <2>5, <2>6, <2>7
  <2>9. QED
    BY <1>f, <2>1, <2>2, <2>3, <2>8
<1>3. ASSUME NEW p \in Producers,
             \/ Request(p) \/ Register(p) \/ Recheck(p) \/ GiveUp(p) \/ Drop(p)
             \/ CountEnqueued(p) \/ Leave(p)
      PROVE  ShardFifo'
  BY <1>1, <1>3 DEF Request, Write, WriteLevel, StartCall, Register, Recheck, GiveUp, Drop,
                    CountEnqueued, Leave, closeVars, queueVars, workerVars, sinkVars
<1>4. ASSUME NEW s \in Shards, WorkerStep(s) PROVE ShardFifo'
  <2>1. UNCHANGED <<leftover, sent>>
    BY <1>4, WorkerFrame DEF closeVars
  <2>2. ASSUME Receive(s), UNCHANGED out PROVE ShardFifo'
    <3>1. /\ \A t \in Shards : t # s => batch'[t] = batch[t] /\ queue'[t] = queue[t]
          /\ batch'[s] \o queue'[s] = batch[s] \o queue[s]
      BY <2>2, ReceiveTypes
    <3>2. sent'[s] = (out'[s] \o leftover'[s]) \o (batch'[s] \o queue'[s])
      BY <1>s, <2>1, <2>2, <3>1
    <3>3. QED
      BY <1>f, <2>1, <2>2, <3>1, <3>2
  <2>3. ASSUME Flush(s), UNCHANGED queue PROVE ShardFifo'
    <3>1. /\ batch'[s] = <<>> /\ out'[s] = out[s] \o batch[s]
          /\ \A t \in Shards : t # s => batch'[t] = batch[t] /\ out'[t] = out[t]
      BY <2>3, FlushTypes
    <3>2. leftover[s] = <<>>
      <4>1. worker[s] # "exited"
        BY <1>4 DEF WorkerStep, Wake, DrainOne, Drained, Tick, Handoff, Acknowledge,
                    SeeDone, Exit
      <4>2. QED
        BY <4>1 DEF WorkersLeaveClean, WorkersGone, CloseLeavesNothing
    <3>3. (out[s] \o <<>>) \o (batch[s] \o queue[s])
            = ((out[s] \o batch[s]) \o <<>>) \o (<<>> \o queue[s])
      BY <1>s, <1>b, Zenon
    <3>4. sent'[s] = (out'[s] \o leftover'[s]) \o (batch'[s] \o queue'[s])
      BY <1>s, <2>1, <2>3, <3>1, <3>2, <3>3
    <3>5. QED
      BY <1>f, <2>1, <2>3, <3>1, <3>4
  <2>4. \/ Receive(s) /\ UNCHANGED out
        \/ Flush(s) /\ UNCHANGED queue
        \/ UNCHANGED <<out, batch, queue>>
    BY <1>4 DEF WorkerStep, Wake, DrainOne, Drained, Tick, Handoff, Acknowledge, SeeDone,
                Exit, sinkVars, queueVars
  <2>5. QED
    BY <1>1, <2>1, <2>2, <2>3, <2>4
<1>5. ASSUME NEW c \in Syncers, StartSync(c) \/ SyncStep(c) PROVE ShardFifo'
  BY <1>1, <1>5, SyncFrame DEF closeVars, queueVars, workerVars
<1>6. CASE CloseBegin \/ CloseSignal \/ CloseAwait \/ CloseJoin \/ CloseInner
  BY <1>1, <1>6 DEF CloseBegin, CloseSignal, CloseAwait, CloseJoin, CloseInner, queueVars,
                    workerVars, sinkVars
<1>7. ASSUME NEW s \in Shards, CloseDrain(s) PROVE ShardFifo'
  <2>1. UNCHANGED <<sent, out, batch>>
    BY <1>7 DEF CloseDrain, workerVars, sinkVars, queueVars
  <2>2. /\ leftover'[s] = Append(leftover[s], Head(queue[s]))
        /\ queue'[s] = Tail(queue[s]) /\ queue[s] # <<>>
        /\ \A t \in Shards : t # s => leftover'[t] = leftover[t] /\ queue'[t] = queue[t]
    BY <1>7 DEF CloseDrain, TypeOK
  <2>3. batch[s] = <<>>
    BY <1>7 DEF CloseDrain, WorkersLeaveClean, WorkersGone
  <2>m. /\ Append(leftover[s], Head(queue[s])) \in Seq(Entries)
        /\ Tail(queue[s]) \in Seq(Entries)
        /\ Append(leftover[s], Head(queue[s])) \o Tail(queue[s]) = leftover[s] \o queue[s]
    <3>1. leftover[s] \in Seq(Entries) /\ queue[s] \in Seq(Entries) /\ queue[s] # <<>>
      BY <1>s, <2>2
    <3>2. QED
      BY <3>1, MoveHead
  <2>4. /\ leftover'[s] \in Seq(Entries) /\ queue'[s] \in Seq(Entries)
        /\ leftover'[s] \o queue'[s] = leftover[s] \o queue[s]
    BY <2>2, <2>m
  <2>5. (out[s] \o leftover[s]) \o (<<>> \o queue[s]) = out[s] \o (leftover[s] \o queue[s])
    BY <1>s, <1>d, Zenon
  <2>t. leftover'[s] \in Seq(Entries) /\ queue'[s] \in Seq(Entries)
    BY <2>4
  <2>6. (out[s] \o leftover'[s]) \o (<<>> \o queue'[s]) = out[s] \o (leftover'[s] \o queue'[s])
    BY <1>s, <2>t, <1>d, ZenonT(40)
  <2>7. sent'[s] = (out'[s] \o leftover'[s]) \o (batch'[s] \o queue'[s])
    BY <1>s, <2>1, <2>3, <2>4, <2>5, <2>6
  <2>8. QED
    BY <1>f, <2>1, <2>2, <2>7
<1>8. CASE CloseFlush
  <2>1. UNCHANGED <<sent, batch, queue>>
    BY <1>8 DEF CloseFlush, workerVars, queueVars
  <2>2. ASSUME NEW s \in Shards
        PROVE  sent'[s] = (out'[s] \o leftover'[s]) \o (batch'[s] \o queue'[s])
    <3>1. out'[s] = out[s] \o leftover[s] /\ leftover'[s] = <<>>
      BY <1>8 DEF CloseFlush
    <3>2. (out[s] \o leftover[s]) \o <<>> = out[s] \o leftover[s]
      BY <1>s, ConcatEmpty
    <3>3. QED
      BY <1>s, <2>1, <3>1, <3>2
  <2>3. QED
    BY <2>2 DEF ShardFifo
<1>9. CASE Finished \/ UNCHANGED vars
  BY <1>1, <1>9 DEF Finished, vars, closeVars, queueVars, workerVars, sinkVars
<1>10. QED
  BY <1>2, <1>3, <1>4, <1>5, <1>6, <1>7, <1>8, <1>9 DEF Next, ProducerStep, CloseStep
-----------------------------------------------------------------------------
(* IInv is inductive.                                                       *)
LEMMA TypeStep ==
  ASSUME IInv, [Next]_vars
  PROVE  TypeOK'
<1>1. ASSUME NEW p \in Producers, Request(p) \/ ProducerStep(p) PROVE TypeOK'
  BY <1>1, TypeProducer
<1>2. ASSUME NEW s \in Shards, WorkerStep(s) PROVE TypeOK'
  BY <1>2, TypeWorker
<1>3. ASSUME NEW c \in Syncers, StartSync(c) \/ SyncStep(c) PROVE TypeOK'
  BY <1>3, TypeSync
<1>4. CASE CloseBegin \/ CloseStep
  BY <1>4, TypeClose
<1>5. CASE Finished \/ UNCHANGED vars
  <2>1. UNCHANGED vars
    BY <1>5 DEF Finished
  <2>2. QED
    BY <2>1 DEF IInv, TypeOK, vars, callVars, queueVars, workerVars, sinkVars,
                syncVars, closeVars
<1>6. QED
  BY <1>1, <1>2, <1>3, <1>4, <1>5 DEF Next

(* The invariant all the safety theorems rest on.                           *)
THEOREM Invariance == Spec => []IInv
<1>1. Init => IInv
  BY InitIInv
<1>2. IInv /\ [Next]_vars => IInv'
  <2> SUFFICES ASSUME IInv, [Next]_vars PROVE IInv'
    OBVIOUS
  <2>1. TypeOK' /\ InFlightExact'
    BY TypeStep, InFlightStep
  <2>2. FlagsFollowClose' /\ NoLateEnqueue'
    BY FlagsStep, NoLateEnqueueStep
  <2>3. WorkersLeaveClean' /\ CloseLeavesNothing' /\ ShardFifo'
    BY WorkersLeaveCleanStep, CloseLeavesNothingStep, ShardFifoStep
  <2>4. QED
    BY <2>1, <2>2, <2>3 DEF IInv
<1>3. QED
  BY <1>1, <1>2, PTL DEF Spec

(* Every variable keeps its type, and no queue outgrows its channel.        *)
THEOREM TypeCorrect == Spec => []TypeOK
<1>1. IInv => TypeOK
  BY DEF IInv
<1>2. QED
  BY <1>1, Invariance, PTL

(* Whatever the interleaving, a shard's entries reach the wrapped writer in *)
(* the order its channel accepted them, none lost or repeated on the way.   *)
THEOREM FifoCorrect == Spec => []ShardFifo
<1>1. IInv => ShardFifo
  BY DEF IInv
<1>2. QED
  BY <1>1, Invariance, PTL

(* After Close has waited for the calls in flight no entry can be enqueued. *)
THEOREM NoLateEnqueueCorrect == Spec => []NoLateEnqueue
<1>1. IInv => NoLateEnqueue
  BY DEF IInv
<1>2. QED
  BY <1>1, Invariance, PTL

(* Once the wrapped writer is closed, or is next to be, nothing is held     *)
(* anywhere between the channels and the wrapped writer.                    *)
LEMMA ClosedMeansEmpty ==
  ASSUME IInv, closer \in {"close", "closed"}, NEW s \in Shards
  PROVE  out[s] = sent[s]
<1>1. leftover[s] = <<>> /\ queue[s] = <<>>
  BY DEF IInv, CloseLeavesNothing
<1>2. batch[s] = <<>>
  BY DEF IInv, WorkersLeaveClean, WorkersGone
<1>3. sent[s] = (out[s] \o <<>>) \o (<<>> \o <<>>)
  BY <1>1, <1>2 DEF IInv, ShardFifo
<1>4. out[s] \in Seq(Entries)
  BY DEF IInv, TypeOK
<1>5. (out[s] \o <<>>) \o (<<>> \o <<>>) = out[s]
  <2>1. \A a \in Seq(Entries) : (a \o <<>>) \o (<<>> \o <<>>) = a
    BY ConcatEmptySeq, EmptySeq
  <2>2. QED
    BY <1>4, <2>1, Zenon
<1>6. QED
  BY <1>3, <1>5

(* When Close has returned, every entry a channel accepted was handed to    *)
(* the wrapped writer, and nothing else was.                                *)
THEOREM HandedOverCorrect == Spec => []AcceptedIsHandedOver
<1>1. IInv => AcceptedIsHandedOver
  BY ClosedMeansEmpty DEF AcceptedIsHandedOver, AllSent, HandedOver
<1>2. QED
  BY <1>1, Invariance, PTL

LEMMA SealedSink ==
  ASSUME IInv, [Next]_vars, closer = "closed"
  PROVE  out' = out
<1>1. WorkersGone
  BY DEF IInv, WorkersLeaveClean
<1>2. ASSUME NEW s \in Shards, WorkerStep(s) PROVE FALSE
  BY <1>1, <1>2 DEF WorkersGone, WorkerStep, Wake, DrainOne, Drained, Tick, Handoff,
                    Acknowledge, SeeDone, Exit
<1>3. ASSUME NEW p \in Producers, Request(p) \/ ProducerStep(p) PROVE out' = out
  BY <1>3, ProducerFrame DEF sinkVars
<1>4. ASSUME NEW c \in Syncers, StartSync(c) \/ SyncStep(c) PROVE out' = out
  BY <1>4, SyncFrame
<1>5. CASE CloseBegin \/ CloseStep
  BY <1>5 DEF CloseBegin, CloseStep, CloseSignal, CloseAwait, CloseJoin,
              CloseDrain, CloseFlush, CloseInner
<1>6. CASE Finished \/ UNCHANGED vars
  BY <1>6 DEF Finished, vars, sinkVars
<1>7. QED
  BY <1>2, <1>3, <1>4, <1>5, <1>6 DEF Next

(* No batch reaches the wrapped writer after Close has closed it.           *)
THEOREM NoWriteAfterInnerCloseCorrect == Spec => NoWriteAfterInnerClose
<1>1. IInv /\ innerClosed => closer = "closed"
  BY DEF IInv, FlagsFollowClose
<1>2. IInv /\ [Next]_vars => [innerClosed => out' = out]_vars
  BY <1>1, SealedSink
<1>3. QED
  BY <1>2, Invariance, PTL DEF Spec, NoWriteAfterInnerClose

-----------------------------------------------------------------------------
(* The accounts: counters, severe entries and the Sync barrier.             *)

(* What the goroutines do to the entries that were sent and handed over.    *)
LEMMA RangeOfAppend ==
  ASSUME NEW S, NEW seq \in Seq(S), NEW e \in S
  PROVE  Range(Append(seq, e)) = Range(seq) \cup {e}
<1> DEFINE last == <<e>>
<1>1. Append(seq, e) = seq \o last /\ last \in Seq(S)
  BY AppendIsConcat
<1>2. Range(last) = {e}
  BY DEF Range
<1> HIDE DEF last
<1>3. Range(seq \o last) = Range(seq) \cup Range(last)
  BY <1>1, RangeConcatenation
<1>4. QED
  BY <1>1, <1>2, <1>3

LEMMA SendIs ==
  ASSUME IInv, NEW p \in Producers, Enqueue(p)
  PROVE  /\ entry[p] \in Entries
         /\ AllSent' = AllSent \cup {entry[p]}
<1> DEFINE r == route[p]
<1>1. r \in Shards /\ entry[p] \in Entries
  BY DEF IInv, Enqueue, TypeOK
<1>2. sent \in [Shards -> Seq(Entries)] /\ sent[r] \in Seq(Entries)
  BY <1>1 DEF IInv, TypeOK
<1>3. sent' = [sent EXCEPT ![r] = Append(sent[r], entry[p])]
  BY DEF Enqueue
<1> HIDE DEF r
<1>4. Range(sent'[r]) = Range(sent[r]) \cup {entry[p]}
  BY <1>1, <1>2, <1>3, RangeOfAppend
<1>5. \A s \in Shards : s # r => sent'[s] = sent[s]
  BY <1>2, <1>3
<1>6. QED
  BY <1>1, <1>4, <1>5 DEF AllSent

LEMMA OthersDoNotSend ==
  ASSUME IInv, [Next]_vars, ~(\E p \in Producers : Enqueue(p))
  PROVE  sent' = sent /\ AllSent' = AllSent
<1>1. ASSUME NEW p \in Producers, Request(p) \/ ProducerStep(p) PROVE sent' = sent
  BY <1>1 DEF Request, Write, WriteLevel, StartCall, ProducerStep, Register, Recheck,
              GiveUp, Drop, CountEnqueued, Leave, queueVars
<1>2. ASSUME NEW s \in Shards, WorkerStep(s) PROVE sent' = sent
  BY <1>2, WorkerFrame
<1>3. ASSUME NEW c \in Syncers, StartSync(c) \/ SyncStep(c) PROVE sent' = sent
  BY <1>3, SyncFrame DEF queueVars
<1>4. ASSUME CloseBegin \/ CloseStep PROVE sent' = sent
  BY <1>4, CloseFrame
<1>5. ASSUME Finished \/ UNCHANGED vars PROVE sent' = sent
  BY <1>5 DEF Finished, vars, queueVars
<1>6. sent' = sent
  BY <1>1, <1>2, <1>3, <1>4, <1>5 DEF Next
<1>7. QED
  BY <1>6 DEF AllSent

(* Handing over only adds.                                                  *)
LEMMA HandingOverAdds ==
  ASSUME IInv, \A s \in Shards : \E b \in Seq(Entries) : out'[s] = out[s] \o b
  PROVE  HandedOver \subseteq HandedOver'
<1>1. ASSUME NEW s \in Shards PROVE Range(out[s]) \subseteq Range(out'[s])
  <2>1. PICK b \in Seq(Entries) : out'[s] = out[s] \o b
    OBVIOUS
  <2>2. out[s] \in Seq(Entries)
    BY DEF IInv, TypeOK
  <2>3. QED
    BY <2>1, <2>2, RangeConcatenation
<1>2. QED
  BY <1>1 DEF HandedOver

LEMMA FlushHandsOver ==
  ASSUME IInv, NEW s \in Shards, Flush(s)
  PROVE  /\ HandedOver' = HandedOver \cup Range(batch[s])
         /\ failed \subseteq failed'
         /\ writeErrors' = 0 => writeErrors = 0 /\ failed' = failed
<1>1. /\ out'[s] = out[s] \o batch[s]
      /\ \A t \in Shards : t # s => out'[t] = out[t]
  BY FlushTypes DEF IInv
<1>2. out[s] \in Seq(Entries) /\ batch[s] \in Seq(Entries) /\ writeErrors \in Nat
  BY DEF IInv, TypeOK
<1>3. Range(out'[s]) = Range(out[s]) \cup Range(batch[s])
  BY <1>1, <1>2, RangeConcatenation
<1>4. HandedOver' = HandedOver \cup Range(batch[s])
  BY <1>1, <1>3 DEF HandedOver
<1>5. PICK kept \in 0 .. Len(batch[s]) :
        /\ failed' = failed \cup Range(SubSeq(batch[s], kept + 1, Len(batch[s])))
        /\ writeErrors' = IF kept < Len(batch[s]) THEN writeErrors + 1 ELSE writeErrors
  BY DEF Flush
<1>6. ASSUME writeErrors' = 0 PROVE writeErrors = 0 /\ failed' = failed
  <2>1. Len(batch[s]) \in Nat
    BY <1>2, LenProperties
  <2>2. kept = Len(batch[s]) /\ writeErrors = 0
    BY <1>2, <1>5, <1>6, <2>1
  <2>3. SubSeq(batch[s], kept + 1, Len(batch[s])) = <<>>
    BY <1>2, <2>1, <2>2, SubSeqEmpty
  <2>4. Range(<<>>) = {}
    BY DEF Range
  <2>5. QED
    BY <1>5, <2>2, <2>3, <2>4
<1>7. QED
  BY <1>4, <1>5, <1>6

LEMMA CloseFlushHandsOver ==
  ASSUME IInv, CloseFlush
  PROVE  /\ HandedOver \subseteq HandedOver'
         /\ failed \subseteq failed'
         /\ writeErrors' = 0 => writeErrors = 0 /\ failed' = failed
<1>1. HandedOver \subseteq HandedOver'
  <2>1. \A s \in Shards : leftover[s] \in Seq(Entries) /\ out'[s] = out[s] \o leftover[s]
    BY DEF IInv, TypeOK, CloseFlush
  <2>2. QED
    BY <2>1, HandingOverAdds
<1>2. \E lost : failed' = failed \cup lost /\ writeErrors' = CountFailure(lost)
  BY DEF CloseFlush
<1>3. writeErrors \in Nat
  BY DEF IInv, TypeOK
<1>4. QED
  BY <1>1, <1>2, <1>3 DEF CountFailure

-----------------------------------------------------------------------------
(* Which steps leave the calls alone.                                       *)
LEMMA OthersLeaveCalls ==
  ASSUME [Next]_vars, ~(\E p \in Producers : Request(p) \/ ProducerStep(p))
  PROVE  UNCHANGED callVars
<1>1. ASSUME NEW s \in Shards, WorkerStep(s) PROVE UNCHANGED callVars
  BY <1>1, WorkerFrame
<1>2. ASSUME NEW c \in Syncers, StartSync(c) \/ SyncStep(c) PROVE UNCHANGED callVars
  BY <1>2, SyncFrame
<1>3. ASSUME CloseBegin \/ CloseStep PROVE UNCHANGED callVars
  BY <1>3, CloseFrame
<1>4. ASSUME Finished \/ UNCHANGED vars PROVE UNCHANGED callVars
  BY <1>4 DEF Finished, vars
<1>5. QED
  BY <1>1, <1>2, <1>3, <1>4 DEF Next

(* A new call takes an entry that nobody holds.                             *)
LEMMA OwnStep ==
  ASSUME IInv, CallsOwnTheirEntry, [Next]_vars
  PROVE  CallsOwnTheirEntry'
<1>t. /\ call \in [Producers -> {"idle", "register", "recheck", "enqueue", "count", "leave"}]
      /\ entry \in [Producers -> Entries \cup {None}]
      /\ result \in [Entries -> {"new", "pending", "sent", "dropped", "refused"}]
      /\ \A q \in Producers : entry[q] = None <=> call[q] = "idle"
  BY DEF IInv, TypeOK
<1>o. /\ \A p, q \in Producers : entry[p] = entry[q] /\ entry[p] # None => p = q
      /\ \A q \in Producers :
           /\ entry[q] # None => result[entry[q]] # "new"
           /\ call[q] \in {"register", "recheck", "enqueue"} => result[entry[q]] = "pending"
  BY DEF CallsOwnTheirEntry
<1>1. ASSUME NEW p \in Producers, Request(p) PROVE CallsOwnTheirEntry'
  <2>p. PICK e \in Entries : StartCall(p, e, BlockOnFull) \/ StartCall(p, e, Blocks(Level[e]))
    BY <1>1 DEF Request, Write, WriteLevel
  <2>1. PICK b : StartCall(p, e, b)
    BY <2>p
  <2>2. e # None /\ result[e] = "new" /\ call[p] = "idle" /\ entry[p] = None
    BY <1>t, <2>1, ConstantsAssumption DEF StartCall
  <2>3. \A q \in Producers : entry[q] # e
    BY <1>o, <2>2
  <2>4. CASE closed
    <3>1. UNCHANGED <<call, entry>> /\ result' = [result EXCEPT ![e] = "refused"]
      BY <2>1, <2>4 DEF StartCall
    <3>2. QED
      BY <1>t, <1>o, <2>3, <3>1 DEF CallsOwnTheirEntry
  <2>5. CASE ~closed
    <3>1. /\ call' = [call EXCEPT ![p] = "register"]
          /\ entry' = [entry EXCEPT ![p] = e]
          /\ result' = [result EXCEPT ![e] = "pending"]
      BY <2>1, <2>5 DEF StartCall
    <3>2. QED
      BY <1>t, <1>o, <2>2, <2>3, <3>1 DEF CallsOwnTheirEntry
  <2>6. QED
    BY <2>4, <2>5
<1>2. ASSUME NEW p \in Producers, Leave(p) PROVE CallsOwnTheirEntry'
  <2>1. /\ call' = [call EXCEPT ![p] = "idle"] /\ entry' = [entry EXCEPT ![p] = None]
        /\ result' = result
    BY <1>2 DEF Leave
  <2>2. QED
    BY <1>t, <1>o, <2>1 DEF CallsOwnTheirEntry
<1>3. ASSUME NEW p \in Producers, Register(p) \/ CountEnqueued(p) PROVE CallsOwnTheirEntry'
  <2>1. \E pc \in {"recheck", "leave"} :
          /\ call' = [call EXCEPT ![p] = pc] /\ UNCHANGED <<entry, result>>
          /\ pc = "recheck" => call[p] = "register"
    BY <1>3 DEF Register, CountEnqueued
  <2>2. QED
    BY <1>t, <1>o, <2>1 DEF CallsOwnTheirEntry
<1>4. ASSUME NEW p \in Producers, Recheck(p) \/ Enqueue(p) \/ GiveUp(p) \/ Drop(p)
      PROVE  CallsOwnTheirEntry'
  <2>1. /\ entry' = entry /\ call[p] \in {"recheck", "enqueue"}
        /\ \/ call' = [call EXCEPT ![p] = "enqueue"] /\ result' = result
           \/ \E pc \in {"leave", "count"} : \E fate \in {"sent", "dropped", "refused"} :
                /\ call' = [call EXCEPT ![p] = pc]
                /\ result' = [result EXCEPT ![entry[p]] = fate]
    BY <1>4 DEF Recheck, Enqueue, GiveUp, Drop
  <2>2. entry[p] \in Entries
    BY <1>t, <2>1
  <2>3. QED
    BY <1>t, <1>o, <2>1, <2>2 DEF CallsOwnTheirEntry
<1>5. ASSUME ~(\E p \in Producers : Request(p) \/ ProducerStep(p)) PROVE CallsOwnTheirEntry'
  BY <1>5, OthersLeaveCalls DEF callVars, CallsOwnTheirEntry
<1>6. QED
  BY <1>1, <1>2, <1>3, <1>4, <1>5 DEF ProducerStep

(* A leveled entry was taken by WriteLevel, as entries are logged once.     *)
LEMMA LevelStep ==
  ASSUME IInv, CallsOwnTheirEntry, LevelsAreHeeded, [Next]_vars
  PROVE  LevelsAreHeeded'
<1>t. /\ entry \in [Producers -> Entries \cup {None}]
      /\ result \in [Entries -> {"new", "pending", "sent", "dropped", "refused"}]
      /\ mayBlock \in [Producers -> BOOLEAN] /\ leveled \in SUBSET Entries
      /\ None \notin Entries
      /\ \A q \in Producers : entry[q] = None <=> call[q] = "idle"
  BY ConstantsAssumption DEF IInv, TypeOK
<1>o. /\ \A q \in Producers : entry[q] # None => result[entry[q]] # "new"
      /\ \A e \in leveled : result[e] # "new"
      /\ \A q \in Producers : entry[q] \in leveled => mayBlock[q] = Blocks(Level[entry[q]])
  BY DEF CallsOwnTheirEntry, LevelsAreHeeded
<1>1. ASSUME NEW p \in Producers, NEW e \in Entries, Write(p, e) PROVE LevelsAreHeeded'
  <2>1. e \notin leveled /\ leveled' = leveled /\ result[e] = "new" /\ entry[p] = None
    BY <1>t, <1>o, <1>1 DEF Write, StartCall
  <2>2. \/ result' = [result EXCEPT ![e] = "refused"] /\ UNCHANGED <<entry, mayBlock>>
        \/ /\ result' = [result EXCEPT ![e] = "pending"] /\ entry' = [entry EXCEPT ![p] = e]
           /\ mayBlock' = [mayBlock EXCEPT ![p] = BlockOnFull]
    BY <1>1 DEF Write, StartCall
  <2>3. \A x \in leveled' : result'[x] # "new"
    BY <1>t, <1>o, <2>1, <2>2
  <2>4. ASSUME NEW q \in Producers, entry'[q] \in leveled'
        PROVE  mayBlock'[q] = Blocks(Level[entry'[q]])
    <3>1. entry'[q] = entry[q] /\ mayBlock'[q] = mayBlock[q]
      BY <1>t, <2>1, <2>2, <2>4
    <3>2. QED
      BY <1>o, <2>1, <2>4, <3>1
  <2>5. QED
    BY <2>3, <2>4 DEF LevelsAreHeeded
<1>2. ASSUME NEW p \in Producers, NEW e \in Entries, WriteLevel(p, e) PROVE LevelsAreHeeded'
  <2>1. leveled' = leveled \cup {e} /\ result[e] = "new" /\ entry[p] = None
    BY <1>t, <1>2 DEF WriteLevel, StartCall
  <2>2. \A q \in Producers : entry[q] # e
    BY <1>o, <2>1, <1>t
  <2>3. \/ result' = [result EXCEPT ![e] = "refused"] /\ UNCHANGED <<entry, mayBlock>>
        \/ /\ result' = [result EXCEPT ![e] = "pending"] /\ entry' = [entry EXCEPT ![p] = e]
           /\ mayBlock' = [mayBlock EXCEPT ![p] = Blocks(Level[e])]
    BY <1>2 DEF WriteLevel, StartCall
  <2>4. \A x \in leveled' : result'[x] # "new"
    BY <1>t, <1>o, <2>1, <2>3
  <2>5. ASSUME NEW q \in Producers, entry'[q] \in leveled'
        PROVE  mayBlock'[q] = Blocks(Level[entry'[q]])
    <3>1. CASE UNCHANGED <<entry, mayBlock>>
      <4>1. entry[q] \in leveled
        BY <2>1, <2>2, <2>5, <3>1
      <4>2. QED
        BY <1>o, <3>1, <4>1
    <3>2. CASE /\ entry' = [entry EXCEPT ![p] = e]
               /\ mayBlock' = [mayBlock EXCEPT ![p] = Blocks(Level[e])]
      <4>1. CASE q = p
        BY <1>t, <3>2, <4>1, Zenon
      <4>2. CASE q # p
        <5>1. entry'[q] = entry[q] /\ mayBlock'[q] = mayBlock[q]
          BY <1>t, <3>2, <4>2
        <5>2. entry[q] \in leveled
          BY <2>1, <2>2, <2>5, <5>1
        <5>3. QED
          BY <1>o, <5>1, <5>2
      <4>3. QED
        BY <4>1, <4>2
    <3>3. QED
      BY <2>3, <3>1, <3>2
  <2>6. QED
    BY <2>4, <2>5 DEF LevelsAreHeeded
<1>3. ASSUME NEW p \in Producers, ProducerStep(p) PROVE LevelsAreHeeded'
  <2>1. /\ leveled' = leveled
        /\ \/ UNCHANGED <<entry, mayBlock>>
           \/ /\ entry' = [entry EXCEPT ![p] = None]
              /\ mayBlock' = [mayBlock EXCEPT ![p] = FALSE]
        /\ \/ result' = result
           \/ \E fate \in {"sent", "dropped", "refused"} :
                result' = [result EXCEPT ![entry[p]] = fate]
    BY <1>3 DEF ProducerStep, Register, Recheck, Enqueue, GiveUp, Drop, CountEnqueued, Leave
  <2>2. \A x \in leveled' : result'[x] # "new"
    BY <1>t, <1>o, <2>1
  <2>3. ASSUME NEW q \in Producers, entry'[q] \in leveled'
        PROVE  mayBlock'[q] = Blocks(Level[entry'[q]])
    <3>1. entry'[q] = entry[q] /\ mayBlock'[q] = mayBlock[q]
      BY <1>t, <2>1, <2>3
    <3>2. QED
      BY <1>o, <2>1, <2>3, <3>1
  <2>4. QED
    BY <2>2, <2>3 DEF LevelsAreHeeded
<1>4. ASSUME ~(\E p \in Producers : Request(p) \/ ProducerStep(p)) PROVE LevelsAreHeeded'
  BY <1>4, OthersLeaveCalls DEF callVars, LevelsAreHeeded
<1>5. QED
  BY <1>1, <1>2, <1>3, <1>4 DEF Request

(* Only Drop discards, and it discards the entry of a call that may not     *)
(* wait.                                                                    *)
LEMMA SevereStep ==
  ASSUME IInv, CallsOwnTheirEntry, LevelsAreHeeded, SevereIsNeverDropped, [Next]_vars
  PROVE  SevereIsNeverDropped'
<1>t. /\ entry \in [Producers -> Entries \cup {None}]
      /\ result \in [Entries -> {"new", "pending", "sent", "dropped", "refused"}]
      /\ leveled \in SUBSET Entries
      /\ \A q \in Producers : entry[q] = None <=> call[q] = "idle"
  BY DEF IInv, TypeOK
<1>1. ASSUME NEW p \in Producers, Request(p) PROVE SevereIsNeverDropped'
  <2>1. PICK e \in Entries, fate \in {"pending", "refused"} :
          result' = [result EXCEPT ![e] = fate] /\ leveled' \subseteq leveled \cup {e}
    BY <1>1 DEF Request, Write, WriteLevel, StartCall
  <2>2. QED
    BY <1>t, <2>1 DEF SevereIsNeverDropped
<1>2. ASSUME NEW p \in Producers, Drop(p) PROVE SevereIsNeverDropped'
  <2>1. /\ entry[p] \in Entries /\ ~mayBlock[p] /\ leveled' = leveled
        /\ result' = [result EXCEPT ![entry[p]] = "dropped"]
    BY <1>t, <1>2 DEF Drop
  <2>2. entry[p] \in leveled => ~Blocks(Level[entry[p]])
    BY <2>1 DEF LevelsAreHeeded
  <2>3. ~Blocks(Level[entry[p]]) => ~(BlockLevel # 0 /\ Level[entry[p]] >= BlockLevel)
    BY DEF Blocks
  <2>4. QED
    BY <1>t, <2>1, <2>2, <2>3 DEF SevereIsNeverDropped
<1>3. ASSUME NEW p \in Producers, ProducerStep(p), ~Drop(p) PROVE SevereIsNeverDropped'
  <2>1. /\ leveled' = leveled
        /\ \/ result' = result
           \/ \E fate \in {"sent", "refused"} : result' = [result EXCEPT ![entry[p]] = fate]
    BY <1>3 DEF ProducerStep, Register, Recheck, Enqueue, GiveUp, CountEnqueued, Leave
  <2>2. QED
    BY <1>t, <2>1 DEF SevereIsNeverDropped
<1>4. ASSUME ~(\E p \in Producers : Request(p) \/ ProducerStep(p)) PROVE SevereIsNeverDropped'
  BY <1>4, OthersLeaveCalls DEF callVars, SevereIsNeverDropped
<1>5. QED
  BY <1>1, <1>2, <1>3, <1>4

(* A send adds an entry to AllSent and a call to those that will count it;  *)
(* passing the counter takes the call out again.                            *)
LEMMA CountsStep ==
  ASSUME IInv, CallsOwnTheirEntry, CountsExact, [Next]_vars
  PROVE  CountsExact'
<1>t. /\ call \in [Producers -> {"idle", "register", "recheck", "enqueue", "count", "leave"}]
      /\ entry \in [Producers -> Entries \cup {None}]
      /\ result \in [Entries -> {"new", "pending", "sent", "dropped", "refused"}]
      /\ enqueued \in Nat /\ dropped \in Nat
      /\ AllSent \in SUBSET Entries
      /\ \A q \in Producers : entry[q] = None <=> call[q] = "idle"
  BY EntrySets DEF IInv, TypeOK
<1>f. /\ IsFiniteSet(Counting) /\ Cardinality(Counting) \in Nat
      /\ IsFiniteSet(Discarded) /\ Cardinality(Discarded) \in Nat
      /\ IsFiniteSet(AllSent) /\ Cardinality(AllSent) \in Nat
  <2>1. Counting \in SUBSET Producers /\ Discarded \in SUBSET Entries
    BY DEF Counting, Discarded
  <2>2. QED
    BY <1>t, <2>1, ConstantsAssumption, FS_Subset, FS_CardinalityType
<1>o. /\ \A e \in Entries : result[e] = "sent" <=> e \in AllSent
      /\ enqueued + Cardinality(Counting) = Cardinality(AllSent)
      /\ dropped = Cardinality(Discarded)
  BY DEF CountsExact
<1>p. \A q \in Producers :
        call[q] \in {"register", "recheck", "enqueue"} =>
          entry[q] \in Entries /\ result[entry[q]] = "pending"
  BY <1>t DEF CallsOwnTheirEntry
<1>1. ASSUME NEW p \in Producers, Enqueue(p) PROVE CountsExact'
  <2>1. /\ call[p] = "enqueue" /\ UNCHANGED <<enqueued, dropped, entry>>
        /\ result' = [result EXCEPT ![entry[p]] = "sent"]
        /\ call' = [call EXCEPT ![p] = "count"]
    BY <1>1 DEF Enqueue
  <2>2. entry[p] \in Entries /\ result[entry[p]] = "pending" /\ entry[p] \notin AllSent
    BY <1>o, <1>p, <2>1
  <2>3. AllSent' = AllSent \cup {entry[p]}
    BY <1>1, SendIs
  <2>4. Cardinality(AllSent') = Cardinality(AllSent) + 1
    BY <1>f, <2>2, <2>3, FS_AddElement
  <2>5. p \notin Counting /\ Counting' = Counting \cup {p}
    BY <1>t, <2>1 DEF Counting
  <2>6. Cardinality(Counting') = Cardinality(Counting) + 1
    BY <1>f, <2>5, FS_AddElement
  <2>7. Discarded' = Discarded
    BY <1>t, <2>1, <2>2 DEF Discarded
  <2>8. \A e \in Entries : result'[e] = "sent" <=> e \in AllSent'
    BY <1>t, <1>o, <2>1, <2>2, <2>3
  <2>9. QED
    BY <1>t, <1>f, <1>o, <2>1, <2>4, <2>6, <2>7, <2>8 DEF CountsExact
<1>n. ASSUME ~(\E p \in Producers : Enqueue(p)) PROVE AllSent' = AllSent
  BY <1>n, OthersDoNotSend
<1>2. ASSUME NEW p \in Producers, CountEnqueued(p) PROVE CountsExact'
  <2>1. /\ call[p] = "count" /\ UNCHANGED <<dropped, result>> /\ enqueued' = enqueued + 1
        /\ call' = [call EXCEPT ![p] = "leave"] /\ sent' = sent
    BY <1>2 DEF CountEnqueued, queueVars
  <2>2. p \in Counting /\ Counting' = Counting \ {p}
    BY <1>t, <2>1 DEF Counting
  <2>3. Cardinality(Counting') = Cardinality(Counting) - 1
    BY <1>f, <2>2, FS_RemoveElement
  <2>4. Discarded' = Discarded /\ AllSent' = AllSent
    BY <2>1 DEF Discarded, AllSent
  <2>5. QED
    BY <1>t, <1>f, <1>o, <2>1, <2>3, <2>4 DEF CountsExact
<1>3. ASSUME NEW p \in Producers, Drop(p) PROVE CountsExact'
  <2>1. /\ call[p] = "enqueue" /\ enqueued' = enqueued /\ dropped' = dropped + 1
        /\ result' = [result EXCEPT ![entry[p]] = "dropped"]
        /\ call' = [call EXCEPT ![p] = "leave"] /\ sent' = sent
    BY <1>3 DEF Drop, queueVars
  <2>2. entry[p] \in Entries /\ result[entry[p]] = "pending" /\ AllSent' = AllSent
    BY <1>p, <2>1 DEF AllSent
  <2>3. Counting' = Counting
    BY <1>t, <2>1 DEF Counting
  <2>4. entry[p] \notin Discarded /\ Discarded' = Discarded \cup {entry[p]}
    BY <1>t, <2>1, <2>2 DEF Discarded
  <2>5. Cardinality(Discarded') = Cardinality(Discarded) + 1
    BY <1>f, <2>4, FS_AddElement
  <2>6. \A e \in Entries : result'[e] = "sent" <=> e \in AllSent'
    BY <1>t, <1>o, <2>1, <2>2
  <2>7. QED
    BY <1>f, <1>o, <2>1, <2>2, <2>3, <2>5, <2>6 DEF CountsExact
<1>q. ASSUME UNCHANGED <<enqueued, dropped, sent>>, Counting' = Counting,
             \/ result' = result
             \/ \E e \in Entries : \E fate \in {"pending", "refused"} :
                  /\ result[e] \in {"new", "pending"}
                  /\ result' = [result EXCEPT ![e] = fate]
      PROVE  CountsExact'
  <2>1. AllSent' = AllSent
    BY <1>q DEF AllSent
  <2>2. \A e \in Entries : /\ result'[e] = "sent" <=> result[e] = "sent"
                           /\ result'[e] = "dropped" <=> result[e] = "dropped"
    BY <1>t, <1>q
  <2>3. Discarded' = Discarded
    BY <2>2 DEF Discarded
  <2>4. QED
    BY <1>o, <1>q, <2>1, <2>2, <2>3 DEF CountsExact
<1>4. ASSUME NEW p \in Producers, Request(p) PROVE CountsExact'
  <2>1. PICK e \in Entries : \E b : StartCall(p, e, b)
    BY <1>4 DEF Request, Write, WriteLevel
  <2>2. PICK fate \in {"pending", "refused"} : result' = [result EXCEPT ![e] = fate]
    BY <2>1 DEF StartCall
  <2>3. /\ result[e] = "new" /\ UNCHANGED <<enqueued, dropped, sent>>
        /\ call[p] = "idle" /\ call' \in {call, [call EXCEPT ![p] = "register"]}
    BY <2>1 DEF StartCall, queueVars
  <2>4. Counting' = Counting
    BY <1>t, <2>3 DEF Counting
  <2>5. QED
    BY <1>q, <2>2, <2>3, <2>4
<1>5. ASSUME NEW p \in Producers, Register(p) \/ Recheck(p) \/ GiveUp(p) \/ Leave(p)
      PROVE  CountsExact'
  <2>1. /\ UNCHANGED <<enqueued, dropped, sent>>
        /\ call[p] # "count"
        /\ \E pc \in {"recheck", "enqueue", "leave", "idle"} : call' = [call EXCEPT ![p] = pc]
        /\ \/ result' = result
           \/ /\ call[p] \in {"recheck", "enqueue"}
              /\ result' = [result EXCEPT ![entry[p]] = "refused"]
    BY <1>5 DEF Register, Recheck, GiveUp, Leave, queueVars
  <2>2. Counting' = Counting
    BY <1>t, <2>1 DEF Counting
  <2>3. QED
    BY <1>p, <1>q, <2>1, <2>2
<1>6. ASSUME ~(\E p \in Producers : Request(p) \/ ProducerStep(p)) PROVE CountsExact'
  <2>1. UNCHANGED callVars /\ AllSent' = AllSent
    BY <1>6, <1>n, OthersLeaveCalls DEF ProducerStep
  <2>2. Counting' = Counting /\ Discarded' = Discarded
    BY <2>1 DEF callVars, Counting, Discarded
  <2>3. QED
    BY <1>o, <2>1, <2>2 DEF callVars, CountsExact
<1>7. QED
  BY <1>1, <1>2, <1>3, <1>4, <1>5, <1>6 DEF ProducerStep

(* What is handed over, lost or made durable, in one step of the system.    *)
LEMMA SinkStep ==
  ASSUME IInv, [Next]_vars
  PROVE  /\ HandedOver \subseteq HandedOver'
         /\ failed \subseteq failed'
         /\ writeErrors' = 0 => writeErrors = 0 /\ failed' = failed
         /\ durable \subseteq durable' /\ durable' \subseteq durable \cup InFile
<1> DEFINE G == /\ HandedOver \subseteq HandedOver'
                /\ failed \subseteq failed'
                /\ writeErrors' = 0 => writeErrors = 0 /\ failed' = failed
                /\ durable \subseteq durable' /\ durable' \subseteq durable \cup InFile
<1>1. ASSUME UNCHANGED <<out, failed, writeErrors, durable>> PROVE G
  BY <1>1 DEF HandedOver
<1>2. ASSUME NEW p \in Producers, Request(p) \/ ProducerStep(p) PROVE G
  BY <1>1, <1>2, ProducerFrame DEF sinkVars
<1>3. ASSUME NEW s \in Shards, WorkerStep(s) PROVE G
  <2>1. CASE Flush(s)
    BY <1>3, <2>1, FlushHandsOver, WorkerFrame
  <2>2. CASE ~Flush(s)
    BY <1>1, <1>3, <2>2 DEF WorkerStep, Wake, DrainOne, Drained, Tick, Handoff, Acknowledge,
                            SeeDone, Exit, sinkVars
  <2>3. QED
    BY <2>1, <2>2
<1>4. ASSUME NEW c \in Syncers, StartSync(c) \/ SyncStep(c) PROVE G
  <2>1. UNCHANGED <<out, failed, writeErrors>>
    BY <1>4, SyncFrame
  <2>2. durable' \in {durable, durable \cup InFile}
    BY <1>4 DEF StartSync, SyncStep, AbandonSync, FinishSync, sinkVars
  <2>3. QED
    BY <2>1, <2>2 DEF HandedOver
<1>5. ASSUME CloseFlush PROVE G
  BY <1>5, CloseFlushHandsOver DEF CloseFlush
<1>6. ASSUME CloseInner PROVE G
  BY <1>6 DEF CloseInner, HandedOver
<1>7. ASSUME CloseBegin \/ CloseStep, ~CloseFlush, ~CloseInner PROVE G
  BY <1>1, <1>7 DEF CloseBegin, CloseStep, CloseSignal, CloseAwait, CloseJoin, CloseDrain, sinkVars
<1>8. ASSUME Finished \/ UNCHANGED vars PROVE G
  BY <1>1, <1>8 DEF Finished, vars, sinkVars
<1>9. QED
  BY <1>2, <1>3, <1>4, <1>5, <1>6, <1>7, <1>8 DEF Next

(* Close fsyncs what is in the file, and nothing is handed over after it.   *)
LEMMA LossStep ==
  ASSUME IInv, LossesAreErrors, [Next]_vars
  PROVE  LossesAreErrors'
<1>1. InFile \subseteq HandedOver
  BY DEF InFile
<1>2. (writeErrors' = 0 => failed' = {}) /\ durable' \subseteq HandedOver'
  BY <1>1, SinkStep DEF LossesAreErrors
<1>3. ASSUME CloseInner PROVE InFile' \subseteq durable'
  BY <1>3 DEF CloseInner, InFile, HandedOver
<1>4. ASSUME closer' = "closed", ~CloseInner PROVE closer = "closed"
  <2>1. ASSUME NEW p \in Producers, Request(p) \/ ProducerStep(p) PROVE closer' = closer
    BY <2>1, ProducerFrame DEF closeVars
  <2>2. ASSUME NEW s \in Shards, WorkerStep(s) PROVE closer' = closer
    BY <2>2, WorkerFrame DEF closeVars
  <2>3. ASSUME NEW c \in Syncers, StartSync(c) \/ SyncStep(c) PROVE closer' = closer
    BY <2>3, SyncFrame DEF closeVars
  <2>4. ASSUME Finished \/ UNCHANGED vars PROVE closer' = closer
    BY <2>4 DEF Finished, vars, closeVars
  <2>5. ~(CloseBegin \/ CloseStep)
    BY <1>4 DEF CloseBegin, CloseStep, CloseSignal, CloseAwait, CloseJoin, CloseDrain, CloseFlush
  <2>6. QED
    BY <1>4, <2>1, <2>2, <2>3, <2>4, <2>5 DEF Next
<1>5. ASSUME closer = "closed" PROVE InFile' \subseteq durable'
  <2>1. out' = out
    BY <1>5, SealedSink
  <2>2. QED
    BY <1>5, <2>1, SinkStep DEF LossesAreErrors, InFile, HandedOver
<1>6. QED
  BY <1>2, <1>3, <1>4, <1>5 DEF LossesAreErrors

-----------------------------------------------------------------------------
LEMMA InitAccounts ==
  Init => /\ CallsOwnTheirEntry /\ LevelsAreHeeded /\ SevereIsNeverDropped
          /\ CountsExact /\ LossesAreErrors /\ AckedIsHandedOver /\ SyncBarrier
<1> SUFFICES ASSUME Init
             PROVE  /\ CallsOwnTheirEntry /\ LevelsAreHeeded /\ SevereIsNeverDropped
                    /\ CountsExact /\ LossesAreErrors /\ AckedIsHandedOver /\ SyncBarrier
  OBVIOUS
<1>1. Range(<<>>) = {}
  BY DEF Range
<1>2. AllSent = {}
  BY <1>1 DEF Init, AllSent
<1>3. Counting = {} /\ Discarded = {}
  BY DEF Init, Counting, Discarded
<1>4. CallsOwnTheirEntry /\ LevelsAreHeeded /\ SevereIsNeverDropped
  BY DEF Init, CallsOwnTheirEntry, LevelsAreHeeded, SevereIsNeverDropped
<1>5. CountsExact
  BY <1>2, <1>3, FS_EmptySet DEF Init, CountsExact
<1>6. LossesAreErrors /\ AckedIsHandedOver /\ SyncBarrier
  BY DEF Init, LossesAreErrors, AckedIsHandedOver, SyncBarrier
<1>7. QED
  BY <1>4, <1>5, <1>6

(* What every step keeps besides IInv, for any number of shards.            *)
THEOREM AccountsHold ==
  Spec => [](CallsOwnTheirEntry /\ LevelsAreHeeded /\ CountsExact /\ LossesAreErrors)
<1> DEFINE Accounts == CallsOwnTheirEntry /\ LevelsAreHeeded /\ CountsExact /\ LossesAreErrors
<1>1. Init => Accounts
  BY InitAccounts
<1>2. IInv /\ Accounts /\ [Next]_vars => Accounts'
  BY OwnStep, LevelStep, CountsStep, LossStep
<1> HIDE DEF Accounts
<1>3. Spec => []Accounts
  BY <1>1, <1>2, Invariance, PTL DEF Spec
<1>4. QED
  BY <1>3 DEF Accounts

(* An entry at or above BlockLevel that came in through WriteLevel is never *)
(* discarded: its call may wait, and only a call that may not wait drops.   *)
THEOREM SevereCorrect == Spec => []SevereIsNeverDropped
<1>1. Init => SevereIsNeverDropped
  BY InitAccounts
<1>2. /\ IInv /\ CallsOwnTheirEntry /\ LevelsAreHeeded /\ SevereIsNeverDropped /\ [Next]_vars
      => SevereIsNeverDropped'
  BY SevereStep
<1>3. QED
  BY <1>1, <1>2, Invariance, AccountsHold, PTL DEF Spec

(* When all calls have returned after Close, the counters are the numbers   *)
(* of accepted and discarded entries, and without a counted write error     *)
(* every enqueued entry is on disk.                                         *)
THEOREM CountersCorrect == Spec => []CountersReconcile
<1>1. ASSUME IInv, CountsExact, LossesAreErrors PROVE CountersReconcile
  <2>1. SUFFICES ASSUME closer = "closed", \A p \in Producers : call[p] = "idle"
                 PROVE  /\ enqueued = Cardinality(AllSent)
                        /\ dropped = Cardinality({e \in Entries : result[e] = "dropped"})
                        /\ writeErrors = 0 => Cardinality(durable) = enqueued
    BY DEF CountersReconcile
  <2>2. Counting = {}
    BY <2>1 DEF Counting
  <2>3. enqueued = Cardinality(AllSent)
    <3>1. enqueued + Cardinality(Counting) = Cardinality(AllSent) /\ enqueued \in Nat
      BY <1>1 DEF CountsExact, IInv, TypeOK
    <3>2. Cardinality(Counting) = 0
      BY <2>2, FS_EmptySet
    <3>3. QED
      BY <3>1, <3>2
  <2>4. AllSent = HandedOver
    BY <1>1, <2>1, ClosedMeansEmpty DEF AllSent, HandedOver
  <2>5. ASSUME writeErrors = 0 PROVE durable = HandedOver
    BY <1>1, <2>1, <2>5 DEF LossesAreErrors, InFile
  <2>6. QED
    BY <1>1, <2>3, <2>4, <2>5 DEF CountsExact, Discarded
<1>2. QED
  BY <1>1, Invariance, AccountsHold, PTL

-----------------------------------------------------------------------------
(* One worker serves a Sync call with the queue empty and its batch flushed, *)
(* and Close holds nothing while a worker is left.                          *)
LEMMA ServedMeansHandedOver ==
  ASSUME IInv, NShards = 1, NEW s \in Shards, Acknowledge(s)
  PROVE  AllSent \subseteq HandedOver'
<1>1. Shards = {0} /\ s = 0
  BY DEF Shards
<1>2. queue[s] = <<>> /\ worker[s] = "sync" /\ Flush(s)
  BY DEF Acknowledge, ReadyToAcknowledge
<1>3. leftover[s] = <<>>
  BY <1>2 DEF IInv, WorkersLeaveClean, WorkersGone, CloseLeavesNothing
<1>4. out[s] \in Seq(Entries) /\ batch[s] \in Seq(Entries)
  BY DEF IInv, TypeOK
<1>5. sent[s] = (out[s] \o <<>>) \o (batch[s] \o <<>>)
  BY <1>2, <1>3 DEF IInv, ShardFifo
<1>6. out[s] \o <<>> = out[s] /\ batch[s] \o <<>> = batch[s]
  BY <1>4, ConcatEmptySeq
<1>7. sent[s] = out[s] \o batch[s]
  BY <1>5, <1>6
<1>8. Range(sent[s]) = Range(out[s]) \cup Range(batch[s])
  BY <1>4, <1>7, RangeConcatenation
<1>9. AllSent = Range(sent[s])
  BY <1>1 DEF AllSent
<1>10. HandedOver' = HandedOver \cup Range(batch[s])
  BY <1>2, FlushHandsOver
<1>11. QED
  BY <1>8, <1>9, <1>10 DEF HandedOver

LEMMA SentGrows ==
  ASSUME IInv, [Next]_vars
  PROVE  AllSent \subseteq AllSent'
BY SendIs, OthersDoNotSend

LEMMA AckStep ==
  ASSUME IInv, NShards = 1, AckedIsHandedOver, [Next]_vars
  PROVE  AckedIsHandedOver'
<1>t. /\ resp \in [Shards -> Syncers \cup {None}]
      /\ acked \in [Syncers -> Nat] /\ before \in [Syncers -> SUBSET Entries]
      /\ syncer \in [Syncers -> {"idle", "ask", "wait", "synced", "skipped"}]
      /\ None \notin Syncers
      /\ \A s \in Shards : resp[s] = None <=> worker[s] # "sync"
  BY ConstantsAssumption DEF IInv, TypeOK
<1>o. /\ \A s \in Shards : resp[s] # None => syncer[resp[s]] # "idle"
      /\ \A c \in Syncers :
           /\ syncer[c] = "idle" => acked[c] = 0
           /\ before[c] \subseteq AllSent
           /\ acked[c] # 0 => before[c] \subseteq HandedOver
  BY DEF AckedIsHandedOver
<1>g. AllSent \subseteq AllSent' /\ HandedOver \subseteq HandedOver'
  BY SentGrows, SinkStep
<1>1. ASSUME UNCHANGED <<resp, syncer, acked, before>> PROVE AckedIsHandedOver'
  BY <1>o, <1>g, <1>1 DEF AckedIsHandedOver
<1>2. ASSUME NEW p \in Producers, Request(p) \/ ProducerStep(p) PROVE AckedIsHandedOver'
  BY <1>1, <1>2, ProducerFrame DEF workerVars, syncVars
<1>3. ASSUME NEW s \in Shards, NEW c \in Syncers, Handoff(c, s) PROVE AckedIsHandedOver'
  <2>1. /\ resp' = [resp EXCEPT ![s] = c] /\ UNCHANGED <<acked, before>>
        /\ syncer[c] = "ask"
        /\ \E pc \in {"wait", "ask"} : syncer' = [syncer EXCEPT ![c] = pc]
    BY <1>3 DEF Handoff
  <2>2. \A r \in Shards : resp'[r] # None => syncer'[resp'[r]] # "idle"
    BY <1>t, <1>o, <2>1
  <2>3. \A d \in Syncers : syncer'[d] = "idle" => syncer[d] = "idle"
    BY <1>t, <2>1
  <2>4. QED
    BY <1>o, <1>g, <2>1, <2>2, <2>3 DEF AckedIsHandedOver
<1>4. ASSUME NEW s \in Shards, Acknowledge(s) PROVE AckedIsHandedOver'
  <2> DEFINE c == resp[s]
  <2>1. c \in Syncers /\ c # None /\ syncer[c] # "idle"
    BY <1>t, <1>o, <1>4 DEF Acknowledge
  <2>2. /\ acked' = [acked EXCEPT ![c] = @ + 1] /\ resp' = [resp EXCEPT ![s] = None]
        /\ UNCHANGED <<syncer, before>>
    BY <1>4 DEF Acknowledge
  <2> HIDE DEF c
  <2>3. AllSent \subseteq HandedOver'
    BY <1>4, ServedMeansHandedOver
  <2>4. \A r \in Shards : resp'[r] # None => syncer'[resp'[r]] # "idle"
    BY <1>t, <1>o, <2>2
  <2>5. ASSUME NEW d \in Syncers
        PROVE  /\ syncer'[d] = "idle" => acked'[d] = 0
               /\ before'[d] \subseteq AllSent'
               /\ acked'[d] # 0 => before'[d] \subseteq HandedOver'
    <3>1. before'[d] \subseteq AllSent' /\ before'[d] \subseteq HandedOver'
      BY <1>o, <1>g, <2>2, <2>3
    <3>2. syncer'[d] = "idle" => acked'[d] = 0
      BY <1>t, <1>o, <2>1, <2>2
    <3>3. QED
      BY <3>1, <3>2
  <2>6. QED
    BY <2>4, <2>5 DEF AckedIsHandedOver
<1>5. ASSUME NEW s \in Shards,
             \/ Wake(s) \/ DrainOne(s) \/ Drained(s) \/ Tick(s) \/ SeeDone(s) \/ Exit(s)
      PROVE  AckedIsHandedOver'
  BY <1>1, <1>5 DEF Wake, DrainOne, Drained, Tick, SeeDone, Exit, syncVars
<1>6. ASSUME NEW c \in Syncers, StartSync(c) PROVE AckedIsHandedOver'
  <2>1. /\ syncer[c] = "idle" /\ before' = [before EXCEPT ![c] = AllSent]
        /\ UNCHANGED <<acked, resp>>
        /\ \E pc \in {"skipped", "ask"} : syncer' = [syncer EXCEPT ![c] = pc]
    BY <1>6 DEF StartSync, workerVars
  <2>2. \A r \in Shards : resp'[r] # None => syncer'[resp'[r]] # "idle"
    BY <1>t, <1>o, <2>1
  <2>3. ASSUME NEW d \in Syncers
        PROVE  /\ syncer'[d] = "idle" => acked'[d] = 0
               /\ before'[d] \subseteq AllSent'
               /\ acked'[d] # 0 => before'[d] \subseteq HandedOver'
    BY <1>t, <1>o, <1>g, <2>1
  <2>4. QED
    BY <2>2, <2>3 DEF AckedIsHandedOver
<1>7. ASSUME NEW c \in Syncers, SyncStep(c) PROVE AckedIsHandedOver'
  <2>1. /\ UNCHANGED <<acked, before, resp>>
        /\ \E pc \in {"skipped", "synced"} : syncer' = [syncer EXCEPT ![c] = pc]
    BY <1>7 DEF SyncStep, AbandonSync, FinishSync, workerVars
  <2>2. \A d \in Syncers : syncer'[d] = "idle" => syncer[d] = "idle"
    BY <1>t, <2>1
  <2>3. \A r \in Shards : resp'[r] # None => syncer'[resp'[r]] # "idle"
    BY <1>t, <1>o, <2>1, <2>2
  <2>4. QED
    BY <1>o, <1>g, <2>1, <2>2, <2>3 DEF AckedIsHandedOver
<1>8. ASSUME CloseBegin \/ CloseStep PROVE AckedIsHandedOver'
  BY <1>1, <1>8, CloseFrame DEF workerVars, syncVars
<1>9. ASSUME Finished \/ UNCHANGED vars PROVE AckedIsHandedOver'
  BY <1>1, <1>9 DEF Finished, vars, workerVars, syncVars
<1>10. QED
  BY <1>2, <1>3, <1>4, <1>5, <1>6, <1>7, <1>8, <1>9 DEF Next, WorkerStep

LEMMA BarrierStep ==
  ASSUME IInv, NShards = 1, AckedIsHandedOver, LossesAreErrors, SyncBarrier, [Next]_vars
  PROVE  SyncBarrier'
<1>t. /\ syncer \in [Syncers -> {"idle", "ask", "wait", "synced", "skipped"}]
      /\ before \in [Syncers -> SUBSET Entries]
  BY DEF IInv, TypeOK
<1>g. failed \subseteq failed' /\ durable \subseteq durable'
  BY SinkStep
<1>1. ASSUME UNCHANGED <<syncer, before>> PROVE SyncBarrier'
  BY <1>g, <1>1 DEF SyncBarrier
<1>2. ASSUME NEW p \in Producers, Request(p) \/ ProducerStep(p) PROVE SyncBarrier'
  BY <1>1, <1>2, ProducerFrame DEF syncVars
<1>3. ASSUME NEW s \in Shards, WorkerStep(s) PROVE SyncBarrier'
  <2>1. before' = before
    BY <1>3, WorkerFrame
  <2>2. ASSUME NEW c \in Syncers, syncer'[c] = "synced" PROVE syncer[c] = "synced"
    BY <1>t, <1>3, <2>2 DEF WorkerStep, Wake, DrainOne, Drained, Tick, Handoff, Acknowledge,
                            SeeDone, Exit, syncVars
  <2>3. QED
    BY <1>g, <2>1, <2>2 DEF SyncBarrier
<1>4. ASSUME NEW c \in Syncers, FinishSync(c) PROVE SyncBarrier'
  <2>1. /\ syncer' = [syncer EXCEPT ![c] = "synced"] /\ before' = before
        /\ acked[c] # 0
        /\ innerClosed \/ durable' = durable \cup InFile
    BY <1>4 DEF FinishSync
  <2>2. before[c] \subseteq HandedOver
    BY <2>1 DEF AckedIsHandedOver
  <2>3. InFile \subseteq durable'
    BY <1>g, <2>1 DEF LossesAreErrors, IInv, FlagsFollowClose
  <2>4. before'[c] \subseteq durable' \cup failed'
    BY <1>g, <2>1, <2>2, <2>3 DEF InFile
  <2>5. ASSUME NEW d \in Syncers, d # c, syncer'[d] = "synced" PROVE syncer[d] = "synced"
    BY <1>t, <2>1, <2>5
  <2>6. QED
    BY <1>g, <2>1, <2>4, <2>5 DEF SyncBarrier
<1>5. ASSUME NEW c \in Syncers, StartSync(c) \/ AbandonSync(c) PROVE SyncBarrier'
  <2>1. /\ \E pc \in {"skipped", "ask"} : syncer' = [syncer EXCEPT ![c] = pc]
        /\ \A d \in Syncers : d # c => before'[d] = before[d]
    BY <1>t, <1>5 DEF StartSync, AbandonSync
  <2>2. \A d \in Syncers : syncer'[d] = "synced" => d # c /\ syncer[d] = "synced"
    BY <1>t, <2>1
  <2>3. QED
    BY <1>g, <2>1, <2>2 DEF SyncBarrier
<1>6. ASSUME CloseBegin \/ CloseStep PROVE SyncBarrier'
  BY <1>1, <1>6, CloseFrame DEF syncVars
<1>7. ASSUME Finished \/ UNCHANGED vars PROVE SyncBarrier'
  BY <1>1, <1>7 DEF Finished, vars, syncVars
<1>8. QED
  BY <1>2, <1>3, <1>4, <1>5, <1>6, <1>7 DEF Next, SyncStep

(* With a single shard, the default of config.go, everything enqueued       *)
(* before a call of Sync is on disk, or lost by a counted write error, when *)
(* the call returns from its fsync, however it races Write and Close.       *)
THEOREM BarrierCorrect == NShards = 1 => (Spec => []SyncBarrier)
<1> SUFFICES ASSUME NShards = 1 PROVE Spec => []SyncBarrier
  OBVIOUS
<1>1. Init => AckedIsHandedOver /\ SyncBarrier
  BY InitAccounts
<1>2. /\ IInv /\ LossesAreErrors /\ AckedIsHandedOver /\ SyncBarrier /\ [Next]_vars
      => AckedIsHandedOver' /\ SyncBarrier'
  BY AckStep, BarrierStep
<1>3. QED
  BY <1>1, <1>2, Invariance, AccountsHold, PTL DEF Spec
=============================================================================
