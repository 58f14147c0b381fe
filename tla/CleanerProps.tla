---------------------------- MODULE CleanerProps ----------------------------
(***************************************************************************)
(* What the Cleaner may and may not do to a running writer's files.         *)
(***************************************************************************)
EXTENDS Cleaner

(* cleanup.go:44-46, rolling_writer.go:105: the file being written to is    *)
(* never removed, so nothing is ever written to an unlinked file; a wall    *)
(* clock that is set back between isActive and os.Remove can break it.      *)
ActiveFileStays == status = "open" => linked

(* config.go:126-136: with a clock that only moves forward, the three       *)
(* limits on number and size cost the oldest files first.                   *)
OldestFirst ==
    [][(phase # "age" /\ faults = 0) =>
        \A n \in DOMAIN disk \ DOMAIN disk' : \A m \in DOMAIN disk' : ~Older(m, n)]_allVars

(* A pass during which no file changed leaves the directory within every    *)
(* limit; only the active file may exceed them.                             *)
Undisturbed == \A n \in DOMAIN disk : n \in DOMAIN seen /\ Len(disk[n]) = seen[n].size
Others == DOMAIN disk \ {FileOf(stamp, seq)}

PassMeetsLimits ==
    (phase = "done" /\ Undisturbed /\ faults = 0) =>
        /\ MaxBackups > 0 => Cardinality(DOMAIN disk) <= MaxBackups
        /\ MaxTotalSize > 0 /\ Others # {} => DirLogTotal - OtherLogs <= MaxTotalSize
        /\ MaxDirSize > 0 /\ Others # {} => DirLogTotal <= MaxDirSize
        /\ MaxAge > 0 => \A n \in Others : mtime[n] >= started - MaxAge

(* Close always returns, whatever the loop is doing when it is called.      *)
CloseReturns == (closing = "wait") ~> (closing # "wait")
=============================================================================
