------------------------- MODULE RollingWriterProps -------------------------
(***************************************************************************)
(* What RollingWriter promises about the files it leaves behind.            *)
(***************************************************************************)
EXTENDS RollingWriter, SequencesExt

(* rolling_writer.go:300-304: whatever opens and writes have failed, an     *)
(* open writer writes to the file its own state names (the one the Cleaner  *)
(* asks it for), and knows exactly how long that file is.                   *)
ActiveFile ==
    status = "open" =>
        /\ file = FileOf(stamp, seq)
        /\ linked => Exists(file) /\ size = Len(disk[file])

(* Write: "log lines are never split across files".  Two bytes of one line  *)
(* that both reached a file are neighbours in the same file.  And a file    *)
(* outgrows MaxSize only if its very first line is larger than MaxSize:     *)
(* rotation, resuming and failed writes never overshoot it.                 *)
LinesStayWhole ==
    /\ \A c \in Calls : \A i \in 1 .. Len(Data[c]) - 1 :
        (Data[c][i] \notin Newline /\ Data[c][i + 1] \in Range(log)) =>
            \E n \in DOMAIN disk : \E k \in 1 .. Len(disk[n]) - 1 :
                disk[n][k] = Data[c][i] /\ disk[n][k + 1] = Data[c][i + 1]
    /\ \A n \in DOMAIN disk :
        (MaxSize > 0 /\ Len(disk[n]) > MaxSize) =>
            \A i \in 1 .. MaxSize : disk[n][i] \notin Newline

(* A call that returned without error has all its bytes in the log, and     *)
(* no other call's bytes between them.                                      *)
AckedWhole ==
    \A c \in Calls : call[c] = "ok" =>
        \E k \in 0 .. Len(log) - Len(Data[c]) :
            SubSeq(log, k + 1, k + Len(Data[c])) = Data[c]

(* While the wall clock only moves forward and every start could list the  *)
(* directory, reading the files in the order of their names gives back      *)
(* exactly what was written, in order, across rotations, failed opens,      *)
(* crashes and restarts.                                                    *)
FilesReadInOrder ==
    LET names == InOrder(DOMAIN disk, ByDate(DOMAIN disk))
    IN  (skew = 0 /\ scanFaults = 0) =>
            FlattenSeq([i \in 1 .. Len(names) |-> disk[names[i]]]) = log

(* naming.go:80-82 and 115-117: the cache is invalidated at the interval    *)
(* boundaries, so bytes go to a file of the date they are written on.       *)
DateIsRight ==
    \A c \in Calls : call[c] = "chunk" => stamp = Truncate(turn.wall)

(* rolling_writer.go:307-310 and async.go:286-288: when Sync has returned,  *)
(* everything written before the call is durable.                           *)
SyncIsDurable == promised \subseteq synced

(* Write ends: it is never caught rotating from one full file to the next.  *)
WriteReturns ==
    \A c \in Calls : (call[c] = "top") ~> (call[c] \notin {"top", "chunk"})
=============================================================================
