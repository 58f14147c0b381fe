-------------------------- MODULE AsyncWriterProps --------------------------
(***************************************************************************)
(* What AsyncWriter promises to the code that logs through it.             *)
(***************************************************************************)
EXTENDS AsyncWriter

(* Nothing is lost, duplicated or reordered inside one shard: what its      *)
(* channel accepted is, in that order, what was handed to the wrapped       *)
(* writer, then what Close holds, then the worker's batch, then the queue.  *)
(* With NShards = 1 this is the process-wide order of config.go.            *)
ShardFifo ==
    \A s \in Shards :
        sent[s] = (out[s] \o leftover[s]) \o (batch[s] \o queue[s])

(* async.go:71-75: once Close has returned, every entry a channel accepted  *)
(* (Write returned nil without dropping it) was handed to the wrapped       *)
(* writer, whatever the races between Write, the workers and Close.         *)
AcceptedIsHandedOver ==
    closer = "closed" => AllSent = HandedOver

(* Close waits for the in-flight calls: from the moment it joins the        *)
(* workers no call can still reach a channel, so the queues only shrink.    *)
NoLateEnqueue ==
    closer \in {"join", "drain", "close", "closed"} =>
        \A p \in Producers : call[p] \in {"idle", "register", "recheck", "leave"}

(* The wrapped writer gets no batch after Close has closed it: such a batch *)
(* would be refused with ErrClosed and lost.                                *)
NoWriteAfterInnerClose == [][innerClosed => out' = out]_vars

(* The counters account for every call: when all calls have returned after  *)
(* Close, Enqueued and Dropped are the numbers of accepted and discarded    *)
(* entries, and only counted write errors keep an enqueued entry out of the *)
(* file.                                                                    *)
CountersReconcile ==
    (closer = "closed" /\ \A p \in Producers : call[p] = "idle") =>
        /\ enqueued = Cardinality(AllSent)
        /\ dropped = Cardinality({e \in Entries : result[e] = "dropped"})
        /\ writeErrors = 0 => Cardinality(durable) = enqueued

(* config.go, BlockLevel: an entry at or above BlockLevel that came through *)
(* WriteLevel is never discarded, however full the queue.                   *)
SevereIsNeverDropped ==
    \A e \in leveled :
        (BlockLevel # 0 /\ Level[e] >= BlockLevel) => result[e] # "dropped"

(* async.go:258-261: when Sync returns from its fsync, everything enqueued  *)
(* before the call is on disk, or was lost by a counted write error.        *)
SyncBarrier ==
    \A c \in Syncers : syncer[c] = "synced" => before[c] \subseteq durable \cup failed

-----------------------------------------------------------------------------
(* The strengthening that makes the invariants above inductive.             *)

(* inFlight counts exactly the calls between their registration and return. *)
Busy == {p \in Producers : call[p] \in {"recheck", "enqueue", "count", "leave"}}
InFlightExact == inFlight = Cardinality(Busy)

(* The flags Close publishes follow its progress.                           *)
FlagsFollowClose ==
    /\ closed <=> closer # "open"
    /\ done <=> closer \notin {"open", "signal"}
    /\ innerClosed <=> closer = "closed"

(* A worker leaves run() with nothing in hand, and Close passes wg.Wait()   *)
(* only when all of them have.                                              *)
WorkersLeaveClean ==
    /\ \A s \in Shards : worker[s] = "exited" => batch[s] = <<>>
    /\ closer \in {"drain", "close", "closed"} => WorkersGone

(* Close holds entries only while it drains, and leaves no queue behind.    *)
CloseLeavesNothing ==
    /\ closer # "drain" => \A s \in Shards : leftover[s] = <<>>
    /\ closer \in {"close", "closed"} => \A s \in Shards : queue[s] = <<>>

IInv ==
    /\ TypeOK
    /\ InFlightExact
    /\ FlagsFollowClose
    /\ NoLateEnqueue
    /\ WorkersLeaveClean
    /\ CloseLeavesNothing
    /\ ShardFifo

-----------------------------------------------------------------------------
(* What the properties of counters, levels and Sync rest on besides IInv.   *)

(* A call decides the fate of an entry that no other call holds.            *)
CallsOwnTheirEntry ==
    /\ \A p, q \in Producers : entry[p] = entry[q] /\ entry[p] # None => p = q
    /\ \A p \in Producers :
         /\ entry[p] # None => result[entry[p]] # "new"
         /\ call[p] \in {"register", "recheck", "enqueue"} => result[entry[p]] = "pending"

(* A call of WriteLevel waits or not as the policy says for its level.      *)
LevelsAreHeeded ==
    /\ \A e \in leveled : result[e] # "new"
    /\ \A p \in Producers : entry[p] \in leveled => mayBlock[p] = Blocks(Level[entry[p]])

(* A sent entry is counted as soon as its call has passed the counter.      *)
Counting == {p \in Producers : call[p] = "count"}
Discarded == {e \in Entries : result[e] = "dropped"}

CountsExact ==
    /\ \A e \in Entries : result[e] = "sent" <=> e \in AllSent
    /\ enqueued + Cardinality(Counting) = Cardinality(AllSent)
    /\ dropped = Cardinality(Discarded)

(* Only a counted error loses an entry, and closing the wrapped writer puts *)
(* all others on disk.                                                      *)
LossesAreErrors ==
    /\ writeErrors = 0 => failed = {}
    /\ durable \subseteq HandedOver
    /\ closer = "closed" => InFile \subseteq durable

(* A worker that has served a Sync call has handed over what was enqueued   *)
(* before the call.  This holds where there is one worker only.             *)
AckedIsHandedOver ==
    /\ \A s \in Shards : resp[s] # None => syncer[resp[s]] # "idle"
    /\ \A c \in Syncers :
         /\ syncer[c] = "idle" => acked[c] = 0
         /\ before[c] \subseteq AllSent
         /\ acked[c] # 0 => before[c] \subseteq HandedOver

-----------------------------------------------------------------------------
LS == INSTANCE LogStream WITH
    Streams <- Shards, accepted <- sent, delivered <- out,
    errors <- writeErrors, sealed <- innerClosed

(* AsyncWriter implements LogStream: what a channel takes is accepted, what *)
(* a flush hands over is delivered, closing the wrapped writer seals.       *)
ImplementsLogStream == LS!Spec

-----------------------------------------------------------------------------
(* Close always comes to an end: no goroutine waits for another for ever.   *)
CloseTerminates == (closer # "open") ~> (closer = "closed")

(* A call of Write ends, even one that waits for room in a full queue, and  *)
(* so does a call of Sync, also when it races Close.                        *)
CallsReturn ==
    /\ \A p \in Producers : (call[p] # "idle") ~> (call[p] = "idle")
    /\ \A c \in Syncers : (syncer[c] = "ask") ~> (syncer[c] \in {"synced", "skipped"})

(* FlushInterval: an accepted entry reaches the wrapped writer even if no    *)
(* further entry, Sync or Close ever comes.                                  *)
AcceptedIsWritten ==
    \A e \in Entries : (result[e] = "sent") ~> (e \in HandedOver)
=============================================================================
