------------------------------ MODULE Cleaner ------------------------------
(***************************************************************************)
(* writer.Cleaner (writer/cleanup.go) working on the directory of a running *)
(* RollingWriter: the goroutine cleanupLoop, its passes, and the end of     *)
(* RollingWriter.Close, which waits for the goroutine and makes one last    *)
(* pass.                                                                   *)
(*                                                                         *)
(* A pass works on the list of files its scan returned.  isActive takes     *)
(* w.mu for an instant; os.Remove takes no lock.  Between any two of a      *)
(* pass's steps the writer may write, rotate, be closed or crash.  Only one *)
(* pass runs at a time: the loop is over before Close makes its own, so     *)
(* the compare-and-swap on c.inFlight never fails.                          *)
(*                                                                         *)
(* The scan lists the directory by name, and the age phase follows it; the  *)
(* list is sorted by date and sequence number after that.                   *)
(***************************************************************************)
EXTENDS RollingWriter

CONSTANTS
    MaxAge, MaxBackups, MaxTotalSize, MaxDirSize,  \* of Config; 0 disables
    OtherLogs,   \* bytes in *.log files of other log types in Dir
    MaxPasses    \* bound: passes of the loop

ASSUME CleanerConstants ==
    /\ MaxAge \in Nat /\ MaxBackups \in Nat
    /\ MaxTotalSize \in Nat /\ MaxDirSize \in Nat
    /\ OtherLogs \in Nat /\ MaxPasses \in Nat

VARIABLES
    mtime,    \* name -> wall-clock time of the last change of the file
    loop,     \* cleanupLoop: "none", "run" or "exited"
    closing,  \* RollingWriter.Close after its unlock: "no", "wait", "done"
    pass,     \* who is in Clean: "none", "loop" or "close"
    phase,    \* of the pass: "none", "age", "count", "total", "dir", "done"
    seen,     \* the scan: name -> size and mtime of the file
    started,  \* now, read after the scan
    todo,     \* the files the phase has not looked at yet
    kept,     \* those it keeps
    spare,    \* count phase: those it may remove
    doomed,   \* files about to be removed
    budget,   \* files or bytes the phase has to remove yet
    passes

passVars == <<pass, phase, seen, started, todo, kept, spare, doomed, budget>>
cleanerVars == <<mtime, loop, closing, passVars, passes>>
allVars == <<vars, cleanerVars>>

NoPass ==
    /\ pass' = "none" /\ phase' = "none"
    /\ seen' = [n \in {} |-> 0]
    /\ started' = 0 /\ budget' = 0
    /\ todo' = <<>> /\ kept' = <<>> /\ spare' = <<>> /\ doomed' = <<>>

CleanerInit ==
    /\ Init
    /\ mtime = [n \in {} |-> 0]
    /\ loop = "none" /\ closing = "no"
    /\ pass = "none" /\ phase = "none"
    /\ seen = [n \in {} |-> 0]
    /\ started = 0 /\ budget = 0
    /\ todo = <<>> /\ kept = <<>> /\ spare = <<>> /\ doomed = <<>>
    /\ passes = 0

-----------------------------------------------------------------------------
(* isActive: it asks the writer for w.path, which survives Close.           *)
MuFreeUnlessClosing == MuFree /\ closing # "wait"
MuFreeForCleaner == MuFree
IsActiveNever(n) == FALSE
IsActive(n) == n = FileOf(stamp, seq)

(* os.ReadDir sorts by name: of a day's files under the default patterns    *)
(* "base.day.service.01.log" comes before "base.day.service.log".           *)
ListedBefore(m, n) ==
    \/ m[1] < n[1]
    \/ m[1] = n[1] /\ m[2] # 0 /\ (n[2] = 0 \/ m[2] < n[2])

ByName(files) == {p \in files \X files : ListedBefore(p[1], p[2])}

Listing == InOrder(DOMAIN disk, ByName(DOMAIN disk))

BytesOf(files) == SumFunctionOnSet([n \in DOMAIN seen |-> seen[n].size], Range(files))
DirLogTotal == OtherLogs + SumFunctionOnSet([n \in DOMAIN disk |-> Len(disk[n])], DOMAIN disk)

(* scan, then the clock; nothing to do in an empty directory.               *)
BeginPass(who) ==
    /\ pass = "none"
    /\ IF DOMAIN disk = {}
       THEN UNCHANGED passVars
       ELSE /\ pass' = who
            /\ phase' = "age"
            /\ seen' = [n \in DOMAIN disk |-> [size |-> Len(disk[n]), mtime |-> mtime[n]]]
            /\ started' = Wall
            /\ todo' = IF MaxAge > 0 THEN Listing ELSE <<>>
            /\ kept' = IF MaxAge > 0 THEN <<>> ELSE Listing
            /\ UNCHANGED <<spare, doomed, budget>>

(* What the phase asks of a file before it asks whether it is active.       *)
Wanted(n) ==
    CASE phase = "age" -> seen[n].mtime < started - MaxAge
      [] phase = "count" -> TRUE
      [] phase \in {"total", "dir"} -> budget > 0

Look ==
    LET n == Head(todo) IN
    /\ todo # <<>> /\ doomed = <<>>
    /\ Wanted(n) => MuFreeForCleaner
    /\ todo' = Tail(todo)
    /\ IF Wanted(n) /\ ~IsActive(n)
       THEN /\ UNCHANGED kept
            /\ IF phase = "count"
               THEN spare' = Append(spare, n) /\ UNCHANGED <<doomed, budget>>
               ELSE /\ doomed' = <<n>>
                    /\ budget' = budget - seen[n].size
                    /\ UNCHANGED spare
       ELSE kept' = Append(kept, n) /\ UNCHANGED <<spare, doomed, budget>>
    /\ UNCHANGED <<pass, phase, seen, started, disk, linked, faults>>

(* The count phase removes only after it has looked at every file.          *)
ExcessNewest(files, k) == SubSeq(files, Len(files) - k + 1, Len(files))
Excess(files, k) == SubSeq(files, 1, k)

Select ==
    LET k == IF budget > Len(spare) THEN Len(spare) ELSE budget IN
    /\ phase = "count" /\ todo = <<>> /\ spare # <<>>
    /\ doomed' = Excess(spare, k)
    /\ kept' = SubSeq(spare, k + 1, Len(spare)) \o kept
    /\ spare' = <<>>
    /\ UNCHANGED <<pass, phase, seen, started, todo, budget, disk, linked, faults>>

(* os.Remove unlinks whatever the name leads to now; an error is ignored.   *)
RemoveFile ==
    LET n == Head(doomed) IN
    /\ doomed # <<>>
    /\ doomed' = Tail(doomed)
    /\ \/ /\ disk' = [m \in DOMAIN disk \ {n} |-> disk[m]]
          /\ linked' = (linked /\ (file = None \/ file # n))
          /\ UNCHANGED faults
       \/ /\ faults < MaxFaults
          /\ faults' = faults + 1
          /\ UNCHANGED <<disk, linked>>
    /\ UNCHANGED <<pass, phase, seen, started, todo, kept, spare, budget>>

Following == [age |-> "count", count |-> "total", total |-> "dir", dir |-> "done"]

(* How much the next phase has to remove of what the last one kept.         *)
BackupSurplusOffByOne(files) == Len(files) - MaxBackups - 1
BackupSurplus(files) == Len(files) - MaxBackups

Surplus(ph, files) ==
    CASE ph = "count" /\ MaxBackups > 0 -> BackupSurplus(files)
      [] ph = "total" /\ MaxTotalSize > 0 -> BytesOf(files) - MaxTotalSize
      [] ph = "dir" /\ MaxDirSize > 0 -> DirLogTotal - MaxDirSize
      [] OTHER -> 0

NextPhase ==
    LET ph == Following[phase]
        files == InOrder(Range(kept), ByDate(Range(kept)))
    IN
    /\ phase \in DOMAIN Following
    /\ todo = <<>> /\ spare = <<>> /\ doomed = <<>>
    /\ phase' = ph
    /\ budget' = Surplus(ph, files)
    /\ IF budget' > 0
       THEN todo' = files /\ kept' = <<>>
       ELSE todo' = <<>> /\ kept' = files
    /\ UNCHANGED <<pass, seen, started, spare, doomed, disk, linked, faults>>

PassStep == Look \/ Select \/ RemoveFile \/ NextPhase

-----------------------------------------------------------------------------
(* cleanupLoop and the end of Close.                                       *)

LoopTick ==
    /\ loop = "run"
    /\ passes < MaxPasses
    /\ passes' = passes + 1
    /\ BeginPass("loop")
    /\ UNCHANGED <<loop, closing>>

EndPass ==
    /\ phase = "done"
    /\ NoPass
    /\ closing' = IF pass = "close" THEN "done" ELSE closing
    /\ UNCHANGED <<loop, passes>>

LoopStops ==
    /\ loop = "run"
    /\ pass = "none"
    /\ status = "closed"
    /\ loop' = "exited"
    /\ UNCHANGED <<closing, passVars, passes>>

LoopGone == loop = "exited"

LastPass ==
    /\ closing = "wait"
    /\ LoopGone
    /\ BeginPass("close")
    /\ closing' = IF pass' = "none" THEN "done" ELSE closing
    /\ UNCHANGED <<loop, passes>>

-----------------------------------------------------------------------------
writerVars == <<clockVars, status, file, stamp, seq, size, opened, cache, callVars,
                scanFaults, starts, rotates, pastVars>>

TrackMtime ==
    mtime' = [n \in DOMAIN disk' |->
                IF Exists(n) /\ disk'[n] = disk[n] THEN mtime[n] ELSE Wall]

(* The writer's own steps; Sync touches nothing the cleaner looks at.       *)
WriterRuns ==
    /\ (\E c \in Calls : BeginWrite(c) \/ WriteStep(c)) \/ Rotate \/ Environment
    /\ UNCHANGED <<loop, closing, passVars, passes>>

WriterStarts ==
    /\ closing # "wait"
    /\ Start
    /\ closing' = "no"
    /\ loop' = IF status' = "open" THEN "run" ELSE "none"
    /\ UNCHANGED <<passVars, passes>>

WriterCloses ==
    /\ CloseFile
    /\ closing' = "wait"
    /\ UNCHANGED <<loop, passVars, passes>>

(* A crash takes the cleaning goroutine with it, wherever it stands.        *)
ProcessDies ==
    /\ Crash \/ (closing = "wait" /\ UNCHANGED vars)
    /\ loop' = "none" /\ closing' = "no"
    /\ NoPass
    /\ UNCHANGED passes

Cleans ==
    \/ PassStep /\ UNCHANGED <<writerVars, loop, closing, passes>>
    \/ (LoopTick \/ EndPass \/ LoopStops \/ LastPass) /\ UNCHANGED vars

CleanerNext ==
    /\ WriterRuns \/ WriterStarts \/ WriterCloses \/ ProcessDies \/ Cleans
    /\ TrackMtime

CleanerSpec == CleanerInit /\ [][CleanerNext]_allVars

(* Goroutines are scheduled; nobody has to tick the cleanup timer.          *)
CleanerRuns ==
    \/ PassStep /\ UNCHANGED <<writerVars, loop, closing, passes>>
    \/ (EndPass \/ LoopStops \/ LastPass) /\ UNCHANGED vars

FairCleanerSpec ==
    /\ CleanerSpec
    /\ WF_allVars(CleanerRuns /\ TrackMtime)
    /\ \A c \in Calls : WF_allVars(WriteStep(c) /\ WriterRuns /\ TrackMtime)
=============================================================================
