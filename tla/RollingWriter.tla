--------------------------- MODULE RollingWriter ---------------------------
(***************************************************************************)
(* writer.RollingWriter (writer/rolling_writer.go) on top of a directory:   *)
(* Write splits its payload at line ends and rotates by date, by age and by *)
(* size; Rotate, Sync and Close; NewRollingWriter, which resumes the newest *)
(* file of the day; crashes and restarts; failing opens, writes and scans;  *)
(* and the stamp cache of writer.Namer (writer/naming.go).                  *)
(*                                                                         *)
(* w.mu serialises the calls.  One turn of the loop in Write is two steps,  *)
(* so that the clock, a crash and the Cleaner (which takes no lock to       *)
(* remove a file) can come between them; every other call is one step.      *)
(*                                                                         *)
(* A file name is <<stamp, seq>>: FileName renders it injectively when the  *)
(* patterns hold {date} and {seq}.  The process is the only one that writes *)
(* its files.  fstat of a file that was just opened does not fail, and      *)
(* os.File.Write reports every short write as an error.                     *)
(***************************************************************************)
EXTENDS Integers, Sequences, FiniteSets, Functions

CONSTANTS
    Calls,            \* the calls of Write
    Data,             \* Data[c]: the bytes call c asks to write, all distinct
    Newline,          \* the bytes that end a line
    ConfigMaxSize,    \* Config.MaxSize as the user set it
    DefaultMaxSize,   \* writer.DefaultMaxSize
    RotationInterval, \* Config.RotationInterval in ticks; 0 disables it
    BaseSeq,          \* w.baseSeq: 1 if NamePattern embeds {seq}, else 0
    Midnights,        \* wall-clock instants at which the rendered date changes
    Granularity,      \* layoutGranularity(DateLayout) in ticks
    MaxClock,         \* bound: ticks of the clock
    MaxSkew,          \* bound: steps back of the wall clock
    MaxFaults,        \* bound: failing opens and writes
    MaxScanFaults,    \* bound: failing directory scans at start-up
    MaxStarts,        \* bound: starts of the process
    MaxRotates,       \* bound: explicit calls of Rotate
    MaxSeq,           \* bound: sequence numbers
    None

Bytes == UNION {Range(Data[c]) : c \in Calls}

ASSUME ConstantsAssumption ==
    /\ \A c \in Calls : Data[c] \in Seq(Bytes) /\ Data[c] # <<>>
    /\ Newline \subseteq Bytes
    /\ ConfigMaxSize \in Int
    /\ DefaultMaxSize \in Nat \ {0}
    /\ RotationInterval \in Nat
    /\ BaseSeq \in {0, 1}
    /\ 0 \in Midnights /\ Midnights \subseteq Nat
    /\ Granularity \in Nat \ {0}
    /\ MaxClock \in Nat /\ MaxSkew \in Nat
    /\ MaxFaults \in Nat /\ MaxScanFaults \in Nat
    /\ MaxStarts \in Nat /\ MaxRotates \in Nat /\ MaxSeq \in Nat
    /\ None \notin Midnights \cup (Midnights \X Nat)

(* What tells a byte from another is the call and its place in it.          *)
ASSUME DistinctBytesAssumption ==
    \A c, d \in Calls : \A i \in 1 .. Len(Data[c]) : \A j \in 1 .. Len(Data[d]) :
        Data[c][i] = Data[d][j] => c = d /\ i = j

(* Config.withDefaults: zero means the default, a negative value no limit.  *)
MaxSize == IF ConfigMaxSize = 0 THEN DefaultMaxSize ELSE ConfigMaxSize

VARIABLES
    clock,     \* the monotonic clock
    skew,      \* how far the wall clock has been stepped back
    disk,      \* the files in Config.Dir: name -> content
    status,    \* of the process's writer: "down", "open" or "closed"
    file,      \* the file w.file was opened as
    linked,    \* the name file still leads to the file w.file writes
    stamp, seq,  \* w.stamp and w.seq; w.path is FileOf(stamp, seq)
    size,      \* w.size
    opened,    \* w.openTime
    cache,     \* n.cacheStart, or None while the cache is not valid
    call,      \* where each call of Write stands, or how it ended
    rest,      \* the part of the payload the call holding w.mu has left
    turn,      \* now and its stamp in the current turn of the loop
    faults, scanFaults, starts, rotates  \* used up of the bounds

(* History variables.                                                      *)
VARIABLES
    log,       \* every byte a file took, in order
    synced,    \* bytes covered by an fsync
    promised   \* bytes written before the last Sync that returned nil

fileVars  == <<file, linked, stamp, seq, size, opened>>
callVars  == <<call, rest, turn>>
clockVars == <<clock, skew>>
pastVars  == <<log, synced, promised>>
boundVars == <<faults, scanFaults, starts, rotates>>
vars == <<clockVars, disk, status, fileVars, cache, callVars, boundVars, pastVars>>

-----------------------------------------------------------------------------
(* Names and stamps (writer/naming.go).                                    *)

FileOfUnnumbered(s, q) == <<s, IF q > 0 THEN 1 ELSE 0>>
FileOf(s, q) == <<s, q>>

\* Oldest first: by date, then by number.
Older(m, n) == m[1] < n[1] \/ (m[1] = n[1] /\ m[2] < n[2])

(* sort.Slice by a strict total order, given as a set of pairs: the element *)
(* k - 1 others come before is in place k.                                  *)
InOrder(files, before) ==
    [k \in 1 .. Cardinality(files) |->
        CHOOSE n \in files : Cardinality({m \in files : <<m, n>> \in before}) = k - 1]

ByDate(files) == {p \in files \X files : Older(p[1], p[2])}

Wall == clock - skew

(* truncateToLayout: the start of the interval the instant t lies in.       *)
Truncate(t) == CHOOSE m \in Midnights :
    m <= t /\ \A n \in Midnights : n <= t => n <= m

(* stampOf: the cached start serves every instant it takes for its interval.*)
CacheCoversForever(t) == cache # None /\ cache <= t
CacheCovers(t) == cache # None /\ cache <= t /\ t < cache + Granularity

StampOf(t) == IF CacheCovers(t) THEN cache ELSE Truncate(t)

-----------------------------------------------------------------------------
(* Files.                                                                  *)

Exists(n) == n \in DOMAIN disk

(* createFile: open for appending, created if needed; the state follows the *)
(* file only once it is open.  The file it replaces is closed, not fsynced. *)
Open(now, s, q) ==
    LET n == FileOf(s, q) IN
    /\ q <= MaxSeq
    /\ disk' = [m \in DOMAIN disk \cup {n} |-> IF Exists(m) THEN disk[m] ELSE <<>>]
    /\ file' = n
    /\ linked' = TRUE
    /\ stamp' = s
    /\ seq' = q
    /\ size' = IF Exists(n) THEN Len(disk[n]) ELSE 0
    /\ opened' = now
    /\ UNCHANGED faults

(* A failed open leaves the writer on the file it has.                      *)
OpenFailsMoved(s, q) == stamp' = s /\ seq' = q /\ UNCHANGED <<file, linked, size, opened>>
OpenFailsKeeping(s, q) == UNCHANGED fileVars

OpenFails(s, q) ==
    /\ faults < MaxFaults
    /\ faults' = faults + 1
    /\ OpenFailsKeeping(s, q)
    /\ UNCHANGED disk

(* What a write or an fsync does to the directory, if the file is still in  *)
(* it: the bytes of an unlinked file are out of everybody's reach.          *)
Grow(bytes) == size + Len(bytes)

FileTakes(bytes) ==
    /\ disk' = IF linked THEN [disk EXCEPT ![file] = @ \o bytes] ELSE disk
    /\ size' = Grow(bytes)
    /\ log' = log \o bytes

Fsynced == IF linked THEN synced \cup Range(disk[file]) ELSE synced

-----------------------------------------------------------------------------
TypeOK ==
    /\ clock \in 0 .. MaxClock /\ skew \in 0 .. MaxSkew
    /\ \A n \in DOMAIN disk : n \in Midnights \X Nat /\ disk[n] \in Seq(Bytes)
    /\ status \in {"down", "open", "closed"}
    /\ file \in (Midnights \X Nat) \cup {None}
    /\ linked \in BOOLEAN
    /\ stamp \in Midnights \cup {None}
    /\ seq \in 0 .. MaxSeq /\ size \in Nat
    /\ opened \in 0 .. MaxClock
    /\ cache \in Midnights \cup {None}
    /\ call \in [Calls -> {"new", "top", "chunk", "ok", "error", "closed", "lost"}]
    /\ rest \in Seq(Bytes)
    /\ turn \in [now : 0 .. MaxClock, wall : Int, today : Midnights \cup {None}]
    /\ faults \in 0 .. MaxFaults /\ scanFaults \in 0 .. MaxScanFaults
    /\ starts \in 0 .. MaxStarts /\ rotates \in 0 .. MaxRotates
    /\ log \in Seq(Bytes)
    /\ synced \in SUBSET Bytes /\ promised \in SUBSET Bytes

NoTurn == [now |-> 0, wall |-> 0, today |-> None]

Init ==
    /\ clock = 0 /\ skew = 0
    /\ disk = [n \in {} |-> <<>>]
    /\ status = "down"
    /\ file = None /\ linked = FALSE
    /\ stamp = None /\ seq = 0 /\ size = 0 /\ opened = 0
    /\ cache = None
    /\ call = [c \in Calls |-> "new"]
    /\ rest = <<>>
    /\ turn = NoTurn
    /\ faults = 0 /\ scanFaults = 0 /\ starts = 0 /\ rotates = 0
    /\ log = <<>> /\ synced = {} /\ promised = {}

-----------------------------------------------------------------------------
(* NewRollingWriter.                                                       *)

OfDay(s) == {n \in DOMAIN disk : n[1] = s}
Newest(s) == CHOOSE n \in OfDay(s) : \A m \in OfDay(s) : m[2] <= n[2]

(* findResumeFile: go on with the newest file of the day unless it is full. *)
ResumeOldest(s) ==
    IF OfDay(s) = {} THEN BaseSeq ELSE (CHOOSE n \in OfDay(s) : \A m \in OfDay(s) : n[2] <= m[2])[2]
ResumeSeq(s) ==
    IF OfDay(s) = {} THEN BaseSeq
    ELSE IF MaxSize <= 0 \/ Len(disk[Newest(s)]) < MaxSize
         THEN Newest(s)[2]
         ELSE Newest(s)[2] + 1

(* With an unreadable directory the sequence starts at 0, whatever BaseSeq. *)
Start ==
    LET today == Truncate(Wall) IN
    /\ status \in {"down", "closed"}
    /\ starts < MaxStarts
    /\ starts' = starts + 1
    /\ \E q \in {ResumeSeq(today), 0} :
        /\ IF q = ResumeSeq(today)
           THEN UNCHANGED scanFaults
           ELSE scanFaults < MaxScanFaults /\ scanFaults' = scanFaults + 1
        /\ \/ Open(clock, today, q) /\ status' = "open" /\ cache' = today
           \/ OpenFails(today, q) /\ UNCHANGED <<status, cache>>
    /\ UNCHANGED <<clockVars, callVars, rotates, pastVars>>

-----------------------------------------------------------------------------
(* Write.                                                                  *)

MuFreeAlways == TRUE
MuFree == \A c \in Calls : call[c] \notin {"top", "chunk"}

BeginWrite(c) ==
    /\ call[c] = "new"
    /\ MuFree
    /\ \/ /\ status = "closed"
          /\ call' = [call EXCEPT ![c] = "closed"]
          /\ UNCHANGED rest
       \/ /\ status = "open"
          /\ call' = [call EXCEPT ![c] = "top"]
          /\ rest' = Data[c]
    /\ UNCHANGED <<clockVars, disk, status, fileVars, cache, turn, boundVars, pastVars>>

Return(c, how) ==
    /\ call' = [call EXCEPT ![c] = how]
    /\ rest' = <<>>
    /\ turn' = NoTurn

(* A rotation inside Write: an error ends the call.                         *)
RotateOrReturn(c, now, s, q, next) ==
    \/ /\ Open(now, s, q)
       /\ call' = [call EXCEPT ![c] = next]
       /\ UNCHANGED rest
       /\ turn' = IF next = "top" THEN NoTurn ELSE [now |-> now, wall |-> Wall, today |-> s]
    \/ OpenFails(s, q) /\ Return(c, "error")

(* The file is too old or the previous chunk filled it.                     *)
Due ==
    \/ RotationInterval > 0 /\ clock - opened >= RotationInterval
    \/ MaxSize > 0 /\ size >= MaxSize

(* The head of the loop: read the clock, rotate if the date, the age or the *)
(* size asks for it.                                                        *)
Turn(c) ==
    LET today == StampOf(Wall) IN
    /\ call[c] = "top"
    /\ cache' = today
    /\ \/ today # stamp /\ RotateOrReturn(c, clock, today, BaseSeq, "chunk")
       \/ today = stamp /\ Due /\ RotateOrReturn(c, clock, today, seq + 1, "chunk")
       \/ /\ today = stamp /\ ~Due
          /\ call' = [call EXCEPT ![c] = "chunk"]
          /\ turn' = [now |-> clock, wall |-> Wall, today |-> today]
          /\ UNCHANGED <<disk, fileVars, rest, faults>>
    /\ UNCHANGED <<clockVars, status, scanFaults, starts, rotates, pastVars>>

(* lastLineEnd: the longest prefix of p within limit that ends a line, or 0.*)
LineEnds(p, limit) == {i \in 1 .. Len(p) : i <= limit /\ p[i] \in Newline}
LastLineEndHard(p, limit) == IF limit < Len(p) THEN limit ELSE Len(p)
LastLineEnd(p, limit) ==
    IF LineEnds(p, limit) = {} THEN 0
    ELSE CHOOSE i \in LineEnds(p, limit) : \A j \in LineEnds(p, limit) : j <= i

Room == MaxSize - size
Overshoots == MaxSize > 0 /\ Len(rest) > Room
Cut == LastLineEnd(rest, Room)

(* No whole line fits behind what the file holds already.                   *)
NeedsFreshFile ==
    \/ MaxSize > 0 /\ Room <= 0
    \/ Overshoots /\ Cut = 0 /\ size > 0

(* What goes out in one write: the lines that fit, or else everything - also*)
(* when only the first line is larger than a whole file.                    *)
Portion == IF Overshoots /\ Cut > 0 THEN SubSeq(rest, 1, Cut) ELSE rest

RotateForRoom(c) ==
    /\ call[c] = "chunk"
    /\ NeedsFreshFile
    /\ RotateOrReturn(c, turn.now, turn.today, seq + 1, "top")
    /\ UNCHANGED <<clockVars, status, cache, scanFaults, starts, rotates, pastVars>>

WritePortion(c) ==
    /\ call[c] = "chunk"
    /\ ~NeedsFreshFile
    /\ FileTakes(Portion)
    /\ IF Len(Portion) = Len(rest)
       THEN Return(c, "ok")
       ELSE /\ call' = [call EXCEPT ![c] = "top"]
            /\ rest' = SubSeq(rest, Len(Portion) + 1, Len(rest))
            /\ turn' = NoTurn
    /\ UNCHANGED <<clockVars, status, file, linked, stamp, seq, opened, cache, boundVars,
                   synced, promised>>

(* file.Write fails after n bytes; the rest of the payload is given up.     *)
WriteFails(c) ==
    /\ call[c] = "chunk"
    /\ ~NeedsFreshFile
    /\ faults < MaxFaults
    /\ faults' = faults + 1
    /\ \E n \in 0 .. Len(Portion) - 1 : FileTakes(SubSeq(Portion, 1, n))
    /\ Return(c, "error")
    /\ UNCHANGED <<clockVars, status, file, linked, stamp, seq, opened, cache, scanFaults,
                   starts, rotates, synced, promised>>

WriteStep(c) == Turn(c) \/ RotateForRoom(c) \/ WritePortion(c) \/ WriteFails(c)

-----------------------------------------------------------------------------
(* Rotate, Sync and Close.                                                 *)

Rotate ==
    LET today == StampOf(Wall) IN
    /\ MuFree
    /\ status = "open"
    /\ rotates < MaxRotates
    /\ rotates' = rotates + 1
    /\ cache' = today
    /\ Open(clock, today, seq + 1) \/ OpenFails(today, seq + 1)
    /\ UNCHANGED <<clockVars, status, callVars, scanFaults, starts, pastVars>>

Sync ==
    /\ MuFree
    /\ status = "open"
    /\ synced' = Fsynced
    /\ promised' = Range(log)
    /\ UNCHANGED <<clockVars, disk, status, fileVars, cache, callVars, boundVars, log>>

(* The part of Close under w.mu.                                            *)
CloseFile ==
    /\ MuFree
    /\ status = "open"
    /\ status' = "closed"
    /\ file' = None
    /\ synced' = Fsynced
    /\ UNCHANGED <<clockVars, disk, linked, stamp, seq, size, opened, cache, callVars,
                   boundVars, log, promised>>

-----------------------------------------------------------------------------
(* The environment.                                                        *)

(* The process dies; the files keep what they were given.                   *)
Crash ==
    /\ status = "open"
    /\ status' = "down"
    /\ call' = [c \in Calls |-> IF call[c] \in {"top", "chunk"} THEN "lost" ELSE call[c]]
    /\ rest' = <<>>
    /\ turn' = NoTurn
    /\ file' = None
    /\ cache' = None
    /\ UNCHANGED <<clockVars, disk, linked, stamp, seq, size, opened, boundVars, pastVars>>

Tick ==
    /\ clock < MaxClock
    /\ clock' = clock + 1
    /\ UNCHANGED <<skew, disk, status, fileVars, cache, callVars, boundVars, pastVars>>

(* The wall clock is set back.                                              *)
StepBack ==
    /\ skew < MaxSkew
    /\ Wall > 0
    /\ skew' = skew + 1
    /\ UNCHANGED <<clock, disk, status, fileVars, cache, callVars, boundVars, pastVars>>

Serve == (\E c \in Calls : BeginWrite(c) \/ WriteStep(c)) \/ Rotate \/ Sync
Environment == Tick \/ StepBack

Next == Start \/ Serve \/ CloseFile \/ Crash \/ Environment

Spec == Init /\ [][Next]_vars

(* The goroutine that holds w.mu runs on.                                   *)
FairSpec == Spec /\ \A c \in Calls : WF_vars(WriteStep(c))
=============================================================================
