---------------------------- MODULE AsyncWriter ----------------------------
(***************************************************************************)
(* writer.AsyncWriter (writer/async.go): business goroutines push entries  *)
(* into NShards bounded channels, one worker goroutine per channel gathers *)
(* them into batches and hands each batch to the wrapped writer, Sync      *)
(* calls rendezvous with the workers, and Close shuts everything down.     *)
(*                                                                         *)
(* Goroutines and the steps they interleave at:                            *)
(*   producer p  the calls Write / WriteLevel, split at every atomic load, *)
(*               atomic add and channel operation;                         *)
(*   worker s    run(), split at every channel receive and batch flush;    *)
(*   sync c      one call of Sync, split at every rendezvous;              *)
(*   closer      the body of Close, which closeOnce runs exactly once.     *)
(*                                                                         *)
(* The wrapped writer is the RollingWriter, which serialises its calls     *)
(* with a mutex; here one of its calls is one step that stores a prefix of *)
(* the batch.  Entries are distinct values and never empty, so the         *)
(* worker's count always equals the number of entries in its batch.        *)
(***************************************************************************)
EXTENDS Integers, Sequences, FiniteSets, Functions

CONSTANTS
    Producers,      \* business goroutines calling Write or WriteLevel
    Entries,        \* the encoded log entries, each written by one call
    Level,          \* Level[e] is the severity e is logged at
    Syncers,        \* the calls of Sync
    NShards,        \* Config.Shards
    QueueSize,      \* Config.QueueSize, the capacity of all shards together
    BatchSize,      \* Config.BatchSize
    BlockOnFull,    \* Config.BlockOnFull
    BlockLevel,     \* Config.BlockLevel; 0 means "no level policy"
    MaxWriteErrors, \* bound: how many writes of the wrapped writer may fail
    None            \* no entry, no Sync call

ASSUME ConstantsAssumption ==
    /\ IsFiniteSet(Producers)
    /\ IsFiniteSet(Entries)
    /\ Level \in [Entries -> Int]
    /\ NShards \in Nat \ {0}
    /\ QueueSize \in Nat \ {0}
    /\ BatchSize \in Nat \ {0}
    /\ BlockOnFull \in BOOLEAN
    /\ BlockLevel \in Int
    /\ MaxWriteErrors \in Nat
    /\ None \notin Entries \cup Syncers

Shards == 0 .. NShards - 1

(* NewAsyncWriter splits the capacity evenly and gives every shard a slot. *)
ShardCap == IF QueueSize \div NShards < 1 THEN 1 ELSE QueueSize \div NShards

VARIABLES
    closed,      \* a.closed
    done,        \* TRUE once a.done is closed
    inFlight,    \* a.inFlight
    next,        \* a.next modulo NShards, the round-robin cursor
    queue,       \* a.shards: the content of each channel
    call,        \* producer -> where its current call stands
    entry,       \* producer -> the entry of its current call
    route,       \* producer -> the shard chosen for that entry
    mayBlock,    \* producer -> does the call wait for room?
    worker,      \* shard -> where its worker stands in run()
    batch,       \* shard -> the worker's unwritten batch
    resp,        \* shard -> the Sync call its worker is serving
    syncer,      \* Sync call -> where it stands
    asked,       \* Sync call -> requests handed to workers so far
    acked,       \* Sync call -> its response channels closed so far
    closer,      \* where Close stands
    leftover,    \* shard -> what Close itself took from its queue
    innerClosed, \* the wrapped writer has been closed
    enqueued, dropped, writeErrors  \* a.metrics

(* History variables: what the outside world saw.                          *)
VARIABLES
    result,      \* entry -> outcome of the call that logged it
    leveled,     \* entries that came in through WriteLevel
    sent,        \* shard -> entries its channel accepted, in order
    out,         \* shard -> its entries handed to the wrapped writer, in order
    failed,      \* entries lost by a failing write of the wrapped writer
    durable,     \* entries written when the inner Sync or Close ran; which
                 \* files that covers is the business of RollingWriter
    before       \* Sync call -> entries already enqueued when it started

queueVars  == <<queue, sent>>
callVars   == <<inFlight, next, call, entry, route, mayBlock, enqueued, dropped,
                result, leveled>>
workerVars == <<worker, batch, resp>>
sinkVars   == <<innerClosed, writeErrors, out, failed, durable>>
syncVars   == <<syncer, asked, acked, before>>
closeVars  == <<closed, done, closer, leftover>>
vars == <<queueVars, callVars, workerVars, sinkVars, syncVars, closeVars>>

-----------------------------------------------------------------------------
TypeOK ==
    /\ closed \in BOOLEAN /\ done \in BOOLEAN /\ innerClosed \in BOOLEAN
    /\ inFlight \in Nat
    /\ next \in Shards
    /\ queue \in [Shards -> Seq(Entries)]
    /\ \A s \in Shards : Len(queue[s]) <= ShardCap
    /\ call \in [Producers -> {"idle", "register", "recheck", "enqueue",
                               "count", "leave"}]
    /\ entry \in [Producers -> Entries \cup {None}]
    /\ \A p \in Producers : entry[p] = None <=> call[p] = "idle"
    /\ route \in [Producers -> Shards]
    /\ mayBlock \in [Producers -> BOOLEAN]
    /\ worker \in [Shards -> {"select", "drain", "sync", "exit", "exited"}]
    /\ batch \in [Shards -> Seq(Entries)]
    /\ resp \in [Shards -> Syncers \cup {None}]
    /\ \A s \in Shards : resp[s] = None <=> worker[s] # "sync"
    /\ syncer \in [Syncers -> {"idle", "ask", "wait", "synced", "skipped"}]
    /\ asked \in [Syncers -> Nat]
    /\ acked \in [Syncers -> Nat]
    /\ closer \in {"open", "signal", "await", "join", "drain", "close", "closed"}
    /\ leftover \in [Shards -> Seq(Entries)]
    /\ enqueued \in Nat /\ dropped \in Nat /\ writeErrors \in Nat
    /\ result \in [Entries -> {"new", "pending", "sent", "dropped", "refused"}]
    /\ leveled \in SUBSET Entries
    /\ sent \in [Shards -> Seq(Entries)]
    /\ out \in [Shards -> Seq(Entries)]
    /\ failed \in SUBSET Entries
    /\ durable \in SUBSET Entries
    /\ before \in [Syncers -> SUBSET Entries]

Init ==
    /\ closed = FALSE /\ done = FALSE /\ innerClosed = FALSE
    /\ inFlight = 0
    /\ next = 0
    /\ queue = [s \in Shards |-> <<>>]
    /\ call = [p \in Producers |-> "idle"]
    /\ entry = [p \in Producers |-> None]
    /\ route = [p \in Producers |-> 0]
    /\ mayBlock = [p \in Producers |-> FALSE]
    /\ worker = [s \in Shards |-> "select"]
    /\ batch = [s \in Shards |-> <<>>]
    /\ resp = [s \in Shards |-> None]
    /\ syncer = [c \in Syncers |-> "idle"]
    /\ asked = [c \in Syncers |-> 0]
    /\ acked = [c \in Syncers |-> 0]
    /\ closer = "open"
    /\ leftover = [s \in Shards |-> <<>>]
    /\ enqueued = 0 /\ dropped = 0 /\ writeErrors = 0
    /\ result = [e \in Entries |-> "new"]
    /\ leveled = {}
    /\ sent = [s \in Shards |-> <<>>]
    /\ out = [s \in Shards |-> <<>>]
    /\ failed = {}
    /\ durable = {}
    /\ before = [c \in Syncers |-> {}]

-----------------------------------------------------------------------------
(* Producers.                                                              *)

(* The first closed check, which is outside the in-flight section.         *)
StartCall(p, e, blocking) ==
    /\ call[p] = "idle"
    /\ result[e] = "new"
    /\ IF closed
       THEN /\ result' = [result EXCEPT ![e] = "refused"]
            /\ UNCHANGED <<call, entry, mayBlock>>
       ELSE /\ result' = [result EXCEPT ![e] = "pending"]
            /\ call' = [call EXCEPT ![p] = "register"]
            /\ entry' = [entry EXCEPT ![p] = e]
            /\ mayBlock' = [mayBlock EXCEPT ![p] = blocking]
    /\ UNCHANGED <<inFlight, next, route, enqueued, dropped>>
    /\ UNCHANGED <<queueVars, workerVars, sinkVars, syncVars, closeVars>>

Write(p, e) == StartCall(p, e, BlockOnFull) /\ UNCHANGED leveled

(* A BlockLevel of 0 defers to BlockOnFull.                                *)
BlocksAboveLevel(lvl) == BlockOnFull \/ (BlockLevel # 0 /\ lvl > BlockLevel)
Blocks(lvl) == BlockOnFull \/ (BlockLevel # 0 /\ lvl >= BlockLevel)

WriteLevel(p, e) ==
    /\ StartCall(p, e, Blocks(Level[e]))
    /\ leveled' = leveled \cup {e}

Register(p) ==
    /\ call[p] = "register"
    /\ inFlight' = inFlight + 1
    /\ call' = [call EXCEPT ![p] = "recheck"]
    /\ UNCHANGED <<next, entry, route, mayBlock, enqueued, dropped, result, leveled>>
    /\ UNCHANGED <<queueVars, workerVars, sinkVars, syncVars, closeVars>>

(* The second closed check; past it the entry is copied and routed.        *)
StillOpen == ~closed

Recheck(p) ==
    /\ call[p] = "recheck"
    /\ IF ~StillOpen
       THEN /\ result' = [result EXCEPT ![entry[p]] = "refused"]
            /\ call' = [call EXCEPT ![p] = "leave"]
            /\ UNCHANGED <<next, route>>
       ELSE /\ next' = (next + 1) % NShards
            /\ route' = [route EXCEPT ![p] = next']
            /\ call' = [call EXCEPT ![p] = "enqueue"]
            /\ UNCHANGED result
    /\ UNCHANGED <<inFlight, entry, mayBlock, enqueued, dropped, leveled>>
    /\ UNCHANGED <<queueVars, workerVars, sinkVars, syncVars, closeVars>>

HasRoom(s) == Len(queue[s]) < ShardCap

(* The select of Write and writeBlocking, one action per ready case.       *)
Enqueue(p) ==
    LET s == route[p] IN
    /\ call[p] = "enqueue"
    /\ HasRoom(s)
    /\ queue' = [queue EXCEPT ![s] = Append(@, entry[p])]
    /\ sent' = [sent EXCEPT ![s] = Append(@, entry[p])]
    /\ result' = [result EXCEPT ![entry[p]] = "sent"]
    /\ call' = [call EXCEPT ![p] = "count"]
    /\ UNCHANGED <<inFlight, next, entry, route, mayBlock, enqueued, dropped, leveled>>
    /\ UNCHANGED <<workerVars, sinkVars, syncVars, closeVars>>

MayGiveUpNever(p) == FALSE
MayGiveUp(p) == mayBlock[p] /\ done

GiveUp(p) ==
    /\ call[p] = "enqueue"
    /\ MayGiveUp(p)
    /\ result' = [result EXCEPT ![entry[p]] = "refused"]
    /\ call' = [call EXCEPT ![p] = "leave"]
    /\ UNCHANGED <<inFlight, next, entry, route, mayBlock, enqueued, dropped, leveled>>
    /\ UNCHANGED <<queueVars, workerVars, sinkVars, syncVars, closeVars>>

Drop(p) ==
    /\ call[p] = "enqueue"
    /\ ~mayBlock[p]
    /\ ~HasRoom(route[p])
    /\ dropped' = dropped + 1
    /\ result' = [result EXCEPT ![entry[p]] = "dropped"]
    /\ call' = [call EXCEPT ![p] = "leave"]
    /\ UNCHANGED <<inFlight, next, entry, route, mayBlock, enqueued, leveled>>
    /\ UNCHANGED <<queueVars, workerVars, sinkVars, syncVars, closeVars>>

(* Enqueued is counted after the send: a worker may already have the entry. *)
CountEnqueued(p) ==
    /\ call[p] = "count"
    /\ enqueued' = enqueued + 1
    /\ call' = [call EXCEPT ![p] = "leave"]
    /\ UNCHANGED <<inFlight, next, entry, route, mayBlock, dropped, result, leveled>>
    /\ UNCHANGED <<queueVars, workerVars, sinkVars, syncVars, closeVars>>

(* The deferred decrement, then the return to the caller.                  *)
Leave(p) ==
    /\ call[p] = "leave"
    /\ inFlight' = inFlight - 1
    /\ call' = [call EXCEPT ![p] = "idle"]
    /\ entry' = [entry EXCEPT ![p] = None]
    /\ route' = [route EXCEPT ![p] = 0]
    /\ mayBlock' = [mayBlock EXCEPT ![p] = FALSE]
    /\ UNCHANGED <<next, enqueued, dropped, result, leveled>>
    /\ UNCHANGED <<queueVars, workerVars, sinkVars, syncVars, closeVars>>

-----------------------------------------------------------------------------
(* Workers.                                                                *)

(* Move the head of the shard's queue into the worker's batch.             *)
Receive(s) ==
    /\ queue[s] # <<>>
    /\ batch' = [batch EXCEPT ![s] = Append(@, Head(queue[s]))]
    /\ queue' = [queue EXCEPT ![s] = Tail(@)]

(* flush: one write of the whole batch.  A failing write keeps a proper    *)
(* prefix; the batch is emptied either way, so the rest is lost and the    *)
(* error is only counted.                                                  *)
AfterFlushRetry(s, kept) == IF kept < Len(batch[s]) THEN batch[s] ELSE <<>>
AfterFlush(s, kept) == <<>>

Flush(s) ==
    \E kept \in 0 .. Len(batch[s]) :
        /\ kept < Len(batch[s]) => writeErrors < MaxWriteErrors
        /\ out' = [out EXCEPT ![s] = @ \o batch[s]]
        /\ failed' = failed \cup Range(SubSeq(batch[s], kept + 1, Len(batch[s])))
        /\ writeErrors' = IF kept < Len(batch[s]) THEN writeErrors + 1 ELSE writeErrors
        /\ batch' = [batch EXCEPT ![s] = AfterFlush(s, kept)]
        /\ UNCHANGED <<innerClosed, durable>>

Goto(s, pc) == worker' = [worker EXCEPT ![s] = pc]

(* case b := <-queue, followed by drain.                                   *)
Wake(s) ==
    /\ worker[s] = "select"
    /\ Receive(s)
    /\ Goto(s, "drain")
    /\ UNCHANGED <<resp, sent>>
    /\ UNCHANGED <<callVars, sinkVars, syncVars, closeVars>>

(* One receive of a drain loop; the select, sync and exit branches all      *)
(* drain, and each leaves its loop when it finds the queue empty.           *)
DrainOne(s) ==
    /\ worker[s] \in {"drain", "sync", "exit"}
    /\ Receive(s)
    /\ UNCHANGED <<worker, resp, sent>>
    /\ UNCHANGED <<callVars, sinkVars, syncVars, closeVars>>

Drained(s) ==
    /\ worker[s] = "drain"
    /\ queue[s] = <<>>
    /\ IF Len(batch[s]) >= BatchSize
       THEN Flush(s)
       ELSE UNCHANGED <<batch, sinkVars>>
    /\ Goto(s, "select")
    /\ UNCHANGED <<resp, queueVars, callVars, syncVars, closeVars>>

(* case <-ticker.C; with an empty batch flush returns at once.              *)
WorthFlushingFull(s) == Len(batch[s]) >= BatchSize
WorthFlushing(s) == batch[s] # <<>>

Tick(s) ==
    /\ worker[s] = "select"
    /\ WorthFlushing(s)
    /\ Flush(s)
    /\ UNCHANGED <<worker, resp, queueVars, callVars, syncVars, closeVars>>

(* case resp := <-a.syncCh.  The channel is unbuffered and shared by all    *)
(* workers: whichever worker is in its select takes the request.            *)
Handoff(c, s) ==
    /\ syncer[c] = "ask"
    /\ worker[s] = "select"
    /\ Goto(s, "sync")
    /\ resp' = [resp EXCEPT ![s] = c]
    /\ asked' = [asked EXCEPT ![c] = @ + 1]
    /\ syncer' = [syncer EXCEPT ![c] = IF asked'[c] = NShards THEN "wait" ELSE "ask"]
    /\ UNCHANGED <<batch, acked, before>>
    /\ UNCHANGED <<queueVars, callVars, sinkVars, closeVars>>

(* drain has emptied the queue: flush, then close(resp).                    *)
ReadyToAcknowledgeEarly(s) == TRUE
ReadyToAcknowledge(s) == queue[s] = <<>>

Acknowledge(s) ==
    /\ worker[s] = "sync"
    /\ ReadyToAcknowledge(s)
    /\ Flush(s)
    /\ acked' = [acked EXCEPT ![resp[s]] = @ + 1]
    /\ resp' = [resp EXCEPT ![s] = None]
    /\ Goto(s, "select")
    /\ UNCHANGED <<syncer, asked, before>>
    /\ UNCHANGED <<queueVars, callVars, closeVars>>

(* case <-a.done: drain, flush, return.                                     *)
SeeDone(s) ==
    /\ worker[s] = "select"
    /\ done
    /\ Goto(s, "exit")
    /\ UNCHANGED <<batch, resp, queueVars, callVars, sinkVars, syncVars, closeVars>>

Exit(s) ==
    /\ worker[s] = "exit"
    /\ queue[s] = <<>>
    /\ Flush(s)
    /\ Goto(s, "exited")
    /\ UNCHANGED <<resp, queueVars, callVars, syncVars, closeVars>>

-----------------------------------------------------------------------------
(* Sync.                                                                   *)

AllSent == UNION {Range(sent[s]) : s \in Shards}
HandedOver == UNION {Range(out[s]) : s \in Shards}
InFile == HandedOver \ failed

StartSync(c) ==
    /\ syncer[c] = "idle"
    /\ syncer' = [syncer EXCEPT ![c] = IF closed THEN "skipped" ELSE "ask"]
    /\ before' = [before EXCEPT ![c] = AllSent]
    /\ UNCHANGED <<asked, acked>>
    /\ UNCHANGED <<queueVars, callVars, workerVars, sinkVars, closeVars>>

(* case <-a.done of either select: Sync returns nil without flushing.      *)
MayAbandon(c) == syncer[c] \in {"ask", "wait"} /\ done

AbandonSync(c) ==
    /\ MayAbandon(c)
    /\ syncer' = [syncer EXCEPT ![c] = "skipped"]
    /\ UNCHANGED <<asked, acked, before>>
    /\ UNCHANGED <<queueVars, callVars, workerVars, sinkVars, closeVars>>

(* Every response channel is closed: fsync the wrapped writer, which does   *)
(* nothing once it is closed.                                               *)
FinishSync(c) ==
    /\ syncer[c] = "wait"
    /\ acked[c] = NShards
    /\ durable' = IF innerClosed THEN durable ELSE durable \cup InFile
    /\ syncer' = [syncer EXCEPT ![c] = "synced"]
    /\ UNCHANGED <<asked, acked, before, innerClosed, writeErrors, out, failed>>
    /\ UNCHANGED <<queueVars, callVars, workerVars, closeVars>>

-----------------------------------------------------------------------------
(* Close.                                                                  *)

CloseBegin ==
    /\ closer = "open"
    /\ closed' = TRUE
    /\ closer' = "signal"
    /\ UNCHANGED <<done, leftover>>
    /\ UNCHANGED <<queueVars, callVars, workerVars, sinkVars, syncVars>>

CloseSignal ==
    /\ closer = "signal"
    /\ done' = TRUE
    /\ closer' = "await"
    /\ UNCHANGED <<closed, leftover>>
    /\ UNCHANGED <<queueVars, callVars, workerVars, sinkVars, syncVars>>

(* The spin loop on inFlight.                                              *)
NoneInFlight == inFlight = 0

CloseAwait ==
    /\ closer = "await"
    /\ NoneInFlight
    /\ closer' = "join"
    /\ UNCHANGED <<closed, done, leftover>>
    /\ UNCHANGED <<queueVars, callVars, workerVars, sinkVars, syncVars>>

(* a.wg.Wait().                                                            *)
WorkersGoneUnchecked == TRUE
WorkersGone == \A s \in Shards : worker[s] = "exited"

CloseJoin ==
    /\ closer = "join"
    /\ WorkersGone
    /\ closer' = "drain"
    /\ UNCHANGED <<closed, done, leftover>>
    /\ UNCHANGED <<queueVars, callVars, workerVars, sinkVars, syncVars>>

(* drainRemainingToInner: take what is left ...                            *)
CloseDrain(s) ==
    /\ closer = "drain"
    /\ queue[s] # <<>>
    /\ leftover' = [leftover EXCEPT ![s] = Append(@, Head(queue[s]))]
    /\ queue' = [queue EXCEPT ![s] = Tail(@)]
    /\ UNCHANGED <<closed, done, closer, sent>>
    /\ UNCHANGED <<callVars, workerVars, sinkVars, syncVars>>

CountFailureNot(lost) == writeErrors
CountFailure(lost) == IF lost # {} THEN writeErrors + 1 ELSE writeErrors

(* ... and write it in one batch, shard after shard.  A failing write loses *)
(* what follows some point of that batch.                                   *)
CloseFlush ==
    /\ closer = "drain"
    /\ \A s \in Shards : queue[s] = <<>>
    /\ \E s \in Shards : \E kept \in 0 .. Len(leftover[s]) :
        LET lost == Range(SubSeq(leftover[s], kept + 1, Len(leftover[s])))
                      \cup UNION {Range(leftover[t]) : t \in {u \in Shards : u > s}}
        IN  /\ lost # {} => writeErrors < MaxWriteErrors
            /\ failed' = failed \cup lost
            /\ writeErrors' = CountFailure(lost)
    /\ out' = [s \in Shards |-> out[s] \o leftover[s]]
    /\ leftover' = [s \in Shards |-> <<>>]
    /\ closer' = "close"
    /\ UNCHANGED <<closed, done, innerClosed, durable>>
    /\ UNCHANGED <<queueVars, callVars, workerVars, syncVars>>

(* inner.Close() fsyncs before it closes the file.                         *)
CloseInner ==
    /\ closer = "close"
    /\ innerClosed' = TRUE
    /\ durable' = durable \cup InFile
    /\ closer' = "closed"
    /\ UNCHANGED <<closed, done, leftover, writeErrors, out, failed>>
    /\ UNCHANGED <<queueVars, callVars, workerVars, syncVars>>

-----------------------------------------------------------------------------
(* Everything that will ever be called has been called and has returned.   *)
Finished ==
    /\ closer = "closed"
    /\ \A e \in Entries : result[e] # "new"
    /\ \A p \in Producers : call[p] = "idle"
    /\ \A c \in Syncers : syncer[c] \in {"synced", "skipped"}
    /\ UNCHANGED vars

Request(p) == \E e \in Entries : Write(p, e) \/ WriteLevel(p, e)

ProducerStep(p) ==
    \/ Register(p) \/ Recheck(p) \/ Enqueue(p) \/ GiveUp(p) \/ Drop(p)
    \/ CountEnqueued(p) \/ Leave(p)

WorkerStep(s) ==
    \/ Wake(s) \/ DrainOne(s) \/ Drained(s) \/ Tick(s)
    \/ (\E c \in Syncers : Handoff(c, s))
    \/ Acknowledge(s) \/ SeeDone(s) \/ Exit(s)

SyncStep(c) == AbandonSync(c) \/ FinishSync(c)

CloseStep ==
    \/ CloseSignal \/ CloseAwait \/ CloseJoin
    \/ (\E s \in Shards : CloseDrain(s))
    \/ CloseFlush \/ CloseInner

Next ==
    \/ \E p \in Producers : Request(p) \/ ProducerStep(p)
    \/ \E s \in Shards : WorkerStep(s)
    \/ \E c \in Syncers : StartSync(c) \/ SyncStep(c)
    \/ CloseBegin \/ CloseStep
    \/ Finished

Spec == Init /\ [][Next]_vars

(* Running goroutines are scheduled; nobody is obliged to log, to call Sync *)
(* or to call Close.                                                        *)
Fairness ==
    /\ \A p \in Producers : WF_vars(ProducerStep(p))
    /\ \A s \in Shards : WF_vars(WorkerStep(s))
    /\ \A c \in Syncers : WF_vars(SyncStep(c))
    /\ WF_vars(CloseStep)

FairSpec == Spec /\ Fairness
=============================================================================
