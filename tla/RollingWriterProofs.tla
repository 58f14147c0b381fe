------------------------- MODULE RollingWriterProofs -------------------------
(***************************************************************************)
(* The rolling writer, for every set of calls and payloads, every limit and *)
(* interval, and every set of midnights: what it knows of the file it       *)
(* writes is true, the bytes go to a file of their date, an accepted        *)
(* payload is in the log as one piece, only a line longer than MaxSize      *)
(* makes a file longer than MaxSize, and the files read by name are the log.*)
(***************************************************************************)
EXTENDS RollingWriterProps, SequenceFacts, FunctionTheorems

-----------------------------------------------------------------------------
(* Greatest elements, for the choices of Truncate, Newest and LastLineEnd.  *)

LEMMA Greatest ==
  ASSUME NEW S \in SUBSET Int, S # {}, NEW b \in Int, \A x \in S : x <= b
  PROVE  \E n \in S : \A m \in S : m <= n
<1> DEFINE T == {b - x : x \in S}
<1>1. \A x \in S : b - x \in Nat
  OBVIOUS
<1>2. T \in SUBSET Nat /\ T # {}
  BY <1>1
<1>3. PICK t \in T : \A u \in T : t <= u
  <2> HIDE DEF T
  <2> QED BY <1>2, LeastNumber
<1>4. PICK n \in S : t = b - n
  OBVIOUS
<1>5. ASSUME NEW m \in S PROVE m <= n
  <2>1. t <= b - m
    BY <1>3
  <2>2. QED
    BY <1>4, <2>1
<1>6. QED
  BY <1>5

LEMMA Basics ==
  /\ MaxSize \in Int /\ BaseSeq \in Nat /\ Granularity \in Nat \ {0}
  /\ MaxClock \in Nat /\ MaxSkew \in Nat /\ MaxSeq \in Nat
  /\ MaxFaults \in Nat /\ MaxScanFaults \in Nat /\ MaxStarts \in Nat /\ MaxRotates \in Nat
  /\ 0 \in Midnights /\ Midnights \subseteq Nat
  /\ None \notin Midnights /\ None \notin Midnights \X Nat
  /\ \A c \in Calls : Data[c] \in Seq(Bytes) /\ Data[c] # <<>>
BY ConstantsAssumption DEF MaxSize

(* The interval of an instant exists, and is the last that began before it. *)
LEMMA TruncateIs ==
  ASSUME NEW t \in Nat
  PROVE  /\ Truncate(t) \in Midnights /\ Truncate(t) <= t
         /\ \A n \in Midnights : n <= t => n <= Truncate(t)
<1> DEFINE S == {m \in Midnights : m <= t}
<1>1. 0 \in Midnights /\ Midnights \subseteq Int /\ t \in Int /\ 0 <= t
  BY Basics
<1>2. S \in SUBSET Int /\ S # {} /\ \A x \in S : x <= t
  BY <1>1
<1>3. \E m \in S : \A n \in S : n <= m
  <2> HIDE DEF S
  <2> QED BY <1>1, <1>2, Greatest
<1>4. \E m \in Midnights : m <= t /\ \A n \in Midnights : n <= t => n <= m
  BY <1>3
<1>5. QED
  BY <1>4 DEF Truncate

-----------------------------------------------------------------------------
(* The types in groups, each of which few actions touch.                    *)

ClockTypes == clock \in 0 .. MaxClock /\ skew \in 0 .. MaxSkew
DiskTypes == \A n \in DOMAIN disk : n \in Midnights \X Nat /\ disk[n] \in Seq(Bytes)
FileTypes ==
    /\ file \in (Midnights \X Nat) \cup {None} /\ linked \in BOOLEAN
    /\ stamp \in Midnights \cup {None} /\ seq \in 0 .. MaxSeq
    /\ size \in Nat /\ opened \in 0 .. MaxClock
CacheTypes == cache \in Midnights \cup {None}
CallTypes ==
    /\ status \in {"down", "open", "closed"}
    /\ call \in [Calls -> {"new", "top", "chunk", "ok", "error", "closed", "lost"}]
    /\ rest \in Seq(Bytes)
    /\ turn \in [now : 0 .. MaxClock, wall : Int, today : Midnights \cup {None}]
BoundTypes ==
    /\ faults \in 0 .. MaxFaults /\ scanFaults \in 0 .. MaxScanFaults
    /\ starts \in 0 .. MaxStarts /\ rotates \in 0 .. MaxRotates
PastTypes == log \in Seq(Bytes) /\ synced \in SUBSET Bytes /\ promised \in SUBSET Bytes

LEMMA Types ==
  TypeOK <=> /\ ClockTypes /\ DiskTypes /\ FileTypes /\ CacheTypes
             /\ CallTypes /\ BoundTypes /\ PastTypes
BY DEF TypeOK, ClockTypes, DiskTypes, FileTypes, CacheTypes, CallTypes, BoundTypes, PastTypes

InFlight(c) == call[c] \in {"top", "chunk"}

(* What ActiveFile rests on: the wall clock does not run below its origin,  *)
(* sequence numbers stay within the bound, a call is under way only in an   *)
(* open writer, holds w.mu alone, and between its two steps it remembers    *)
(* the day.                                                                 *)
WallIsNatural == skew <= clock
NumbersBounded == \A n \in DOMAIN disk : n[2] <= MaxSeq
OpenHasDay == status = "open" => stamp # None
BusyIsOpen == \A c \in Calls : InFlight(c) => status = "open"
OneHolder == \A c, d \in Calls : InFlight(c) /\ InFlight(d) => c = d
ChunkHasDay == \A c \in Calls : call[c] = "chunk" => turn.today # None

FileInv ==
    /\ TypeOK
    /\ WallIsNatural /\ NumbersBounded
    /\ OpenHasDay /\ ActiveFile
    /\ OneHolder /\ BusyIsOpen /\ ChunkHasDay

LEMMA StampIs ==
  ASSUME ClockTypes, CacheTypes, WallIsNatural
  PROVE  Wall \in Nat /\ Truncate(Wall) \in Midnights /\ StampOf(Wall) \in Midnights
<1>1. Wall \in Nat
  BY DEF ClockTypes, WallIsNatural, Wall
<1>2. Truncate(Wall) \in Midnights
  BY <1>1, TruncateIs
<1>3. CacheCovers(Wall) => cache \in Midnights
  BY DEF CacheCovers, CacheTypes
<1>4. QED
  BY <1>1, <1>2, <1>3 DEF StampOf

(* The number findResumeFile goes on with is the newest of the day or the   *)
(* one behind it.                                                           *)
LEMMA ResumeIs ==
  ASSUME NEW s \in Midnights, DiskTypes, NumbersBounded
  PROVE  ResumeSeq(s) \in Nat /\ \A n \in OfDay(s) : n[2] <= ResumeSeq(s)
<1>1. CASE OfDay(s) = {}
  BY <1>1, Basics DEF ResumeSeq
<1>2. CASE OfDay(s) # {}
  <2> DEFINE S == {n[2] : n \in OfDay(s)}
  <2>1. \A n \in OfDay(s) : n[2] \in Nat /\ n[2] <= MaxSeq
    BY DEF OfDay, DiskTypes, NumbersBounded
  <2>2. S \in SUBSET Int /\ S # {} /\ MaxSeq \in Int /\ \A x \in S : x <= MaxSeq
    BY <1>2, <2>1, Basics
  <2>3. \E x \in S : \A y \in S : y <= x
    <3> HIDE DEF S
    <3> QED BY <2>2, Greatest
  <2>4. \E n \in OfDay(s) : \A m \in OfDay(s) : m[2] <= n[2]
    BY <2>3
  <2>5. Newest(s) \in OfDay(s) /\ \A m \in OfDay(s) : m[2] <= Newest(s)[2]
    BY <2>4 DEF Newest
  <2>6. ResumeSeq(s) = Newest(s)[2] \/ ResumeSeq(s) = Newest(s)[2] + 1
    BY <1>2 DEF ResumeSeq
  <2>7. QED
    BY <2>1, <2>5, <2>6
<1>3. QED
  BY <1>1, <1>2

(* lastLineEnd: the cut is the last line end within the room, if there is   *)
(* one at all.                                                              *)
LEMMA CutIs ==
  ASSUME rest \in Seq(Bytes), Room \in Int
  PROVE  /\ Cut \in 0 .. Len(rest)
         /\ Cut > 0 => Cut <= Room /\ rest[Cut] \in Newline
         /\ Cut = 0 => \A i \in 1 .. Len(rest) : i <= Room => rest[i] \notin Newline
<1> DEFINE S == LineEnds(rest, Room)
<1>1. Len(rest) \in Nat
  BY LenProperties
<1>2. /\ S \in SUBSET Int /\ \A x \in S : x <= Room
      /\ \A x \in S : x \in 1 .. Len(rest) /\ rest[x] \in Newline
      /\ \A i \in 1 .. Len(rest) : i <= Room /\ rest[i] \in Newline => i \in S
  BY <1>1 DEF LineEnds
<1>3. Cut = IF S = {} THEN 0 ELSE CHOOSE i \in S : \A j \in S : j <= i
  BY DEF Cut, LastLineEnd
<1> HIDE DEF S
<1>4. CASE S = {}
  BY <1>1, <1>2, <1>3, <1>4
<1>5. CASE S # {}
  <2>1. \E i \in S : \A j \in S : j <= i
    BY <1>2, <1>5, Greatest
  <2>2. Cut \in S
    BY <1>3, <1>5, <2>1
  <2>3. QED
    BY <1>1, <1>2, <2>2
<1>6. QED
  BY <1>4, <1>5

(* A portion is a beginning of what is left; it is all that is left, or     *)
(* whole lines that fit.                                                    *)
LEMMA PortionIs ==
  ASSUME rest \in Seq(Bytes), size \in Nat
  PROVE  /\ Portion \in Seq(Bytes) /\ Len(Portion) \in 0 .. Len(rest)
         /\ Portion = SubSeq(rest, 1, Len(Portion))
         /\ Portion = rest
            \/ /\ Len(Portion) \in 1 .. Len(rest) /\ Len(Portion) <= Room
               /\ rest[Len(Portion)] \in Newline
<1>1. /\ Len(rest) \in Nat /\ Room \in Int
      /\ \A i \in 1 .. Len(rest) : rest[i] \in Bytes
      /\ rest = SubSeq(rest, 1, Len(rest))
  BY LenProperties, Basics, ElementOfSeq, SubSeqFull DEF Room
<1>2. /\ Cut \in 0 .. Len(rest)
      /\ Cut > 0 => Cut <= Room /\ rest[Cut] \in Newline
  BY <1>1, CutIs
<1>3. CASE Overshoots /\ Cut > 0
  <2>1. Portion = SubSeq(rest, 1, Cut)
    BY <1>3 DEF Portion
  <2>2. Portion \in Seq(Bytes) /\ Len(Portion) = Cut
    BY <1>1, <1>2, <1>3, <2>1, SubSeqProperties
  <2>3. QED
    BY <1>2, <1>3, <2>1, <2>2
<1>4. CASE ~(Overshoots /\ Cut > 0)
  <2>1. Portion = rest
    BY <1>4 DEF Portion
  <2>2. QED
    BY <1>1, <2>1
<1>5. QED
  BY <1>3, <1>4

-----------------------------------------------------------------------------
(* createFile.                                                              *)

FileHolds == stamp # None /\ file = FileOf(stamp, seq) /\ Exists(file) /\ size = Len(disk[file])

LEMMA OpenIs ==
  ASSUME DiskTypes, NumbersBounded,
         NEW now \in 0 .. MaxClock, NEW s \in Midnights, NEW q \in Nat, Open(now, s, q)
  PROVE  /\ DiskTypes' /\ NumbersBounded' /\ FileTypes' /\ FileHolds'
         /\ stamp' = s /\ faults' = faults
<1> DEFINE n == FileOf(s, q)
<1>1. /\ q \in 0 .. MaxSeq
      /\ disk' = [m \in DOMAIN disk \cup {n} |-> IF Exists(m) THEN disk[m] ELSE <<>>]
      /\ file' = n /\ linked' = TRUE /\ stamp' = s /\ seq' = q
      /\ size' = IF Exists(n) THEN Len(disk[n]) ELSE 0
      /\ opened' = now /\ faults' = faults
  BY Basics DEF Open
<1>2. n \in Midnights \X Nat /\ n[2] = q
  BY DEF FileOf
<1>3. DOMAIN disk' = DOMAIN disk \cup {n} /\ n \in DOMAIN disk'
  BY <1>1
<1>4. \A m \in DOMAIN disk' : disk'[m] = IF m \in DOMAIN disk THEN disk[m] ELSE <<>>
  BY <1>1, <1>3 DEF Exists
<1>5. <<>> \in Seq(Bytes) /\ Len(<<>>) = 0
  BY EmptySeq
<1>6. DiskTypes'
  <2>1. ASSUME NEW m \in DOMAIN disk' PROVE m \in Midnights \X Nat /\ disk'[m] \in Seq(Bytes)
    BY <1>2, <1>3, <1>4, <1>5 DEF DiskTypes
  <2>2. QED
    BY <2>1 DEF DiskTypes
<1>7. NumbersBounded'
  BY <1>1, <1>2, <1>3, Basics DEF NumbersBounded
<1>8. size' = Len(disk'[n])
  BY <1>1, <1>3, <1>4, <1>5 DEF Exists
<1>9. FileTypes'
  <2>1. disk'[n] \in Seq(Bytes)
    BY <1>3, <1>6 DEF DiskTypes
  <2>2. size' \in Nat
    BY <1>8, <2>1, LenProperties
  <2>3. QED
    BY <1>1, <1>2, <2>2 DEF FileTypes
<1>10. FileHolds'
  BY <1>1, <1>3, <1>8, Basics DEF FileHolds, Exists, FileOf
<1>11. QED
  BY <1>1, <1>6, <1>7, <1>9, <1>10

LEMMA OpenFailsIs ==
  ASSUME NEW s, NEW q, BoundTypes, OpenFails(s, q)
  PROVE  UNCHANGED <<disk, fileVars>> /\ faults' \in 0 .. MaxFaults
BY Basics DEF OpenFails, OpenFailsKeeping, BoundTypes

(* A rotation, failed or not, leaves the writer with a file it knows.       *)
LEMMA OpenOrNot ==
  ASSUME DiskTypes, NumbersBounded, FileTypes, BoundTypes, status = "open", OpenHasDay, ActiveFile,
         NEW now \in 0 .. MaxClock, NEW s \in Midnights, NEW q \in Nat,
         Open(now, s, q) \/ OpenFails(s, q)
  PROVE  /\ DiskTypes' /\ NumbersBounded' /\ FileTypes' /\ faults' \in 0 .. MaxFaults
         /\ stamp' # None /\ (file = FileOf(stamp, seq))'
         /\ (linked => Exists(file) /\ size = Len(disk[file]))'
<1>1. CASE Open(now, s, q)
  <2>1. DiskTypes' /\ NumbersBounded' /\ FileTypes' /\ FileHolds' /\ faults' = faults
    BY <1>1, OpenIs
  <2>2. QED
    BY <2>1 DEF FileHolds, BoundTypes
<1>2. CASE OpenFails(s, q)
  <2>1. UNCHANGED <<disk, fileVars>> /\ faults' \in 0 .. MaxFaults
    BY <1>2, OpenFailsIs
  <2>2. QED
    BY <2>1 DEF fileVars, DiskTypes, NumbersBounded, FileTypes, OpenHasDay, ActiveFile,
                FileOf, Exists
<1>3. QED
  BY <1>1, <1>2

(* file.Write: the file grows by the bytes, and size with it.               *)
LEMMA TakesIs ==
  ASSUME DiskTypes, NumbersBounded, FileTypes, log \in Seq(Bytes),
         linked => Exists(file) /\ size = Len(disk[file]),
         NEW bytes \in Seq(Bytes), FileTakes(bytes), UNCHANGED <<file, linked, stamp, seq, opened>>
  PROVE  /\ DiskTypes' /\ NumbersBounded' /\ FileTypes' /\ log' \in Seq(Bytes)
         /\ (linked => Exists(file) /\ size = Len(disk[file]))'
<1>1. /\ disk' = IF linked THEN [disk EXCEPT ![file] = disk[file] \o bytes] ELSE disk
      /\ size' = size + Len(bytes) /\ log' = log \o bytes
  BY DEF FileTakes, Grow
<1>2. size' \in Nat /\ log' \in Seq(Bytes)
  BY <1>1, LenProperties, ConcatProperties DEF FileTypes
<1>3. CASE linked
  <2>1. DOMAIN disk' = DOMAIN disk /\ file \in DOMAIN disk
    BY <1>1, <1>3 DEF Exists
  <2>2. disk[file] \in Seq(Bytes)
    BY <2>1 DEF DiskTypes
  <2>3. /\ disk'[file] = disk[file] \o bytes /\ disk'[file] \in Seq(Bytes)
        /\ Len(disk'[file]) = Len(disk[file]) + Len(bytes)
    BY <1>1, <1>3, <2>1, <2>2, ConcatProperties
  <2>4. \A n \in DOMAIN disk : disk'[n] \in Seq(Bytes)
    BY <1>1, <1>3, <2>1, <2>3 DEF DiskTypes
  <2>5. QED
    BY <1>1, <1>2, <1>3, <2>1, <2>3, <2>4 DEF DiskTypes, NumbersBounded, FileTypes, Exists
<1>4. CASE ~linked
  BY <1>1, <1>2, <1>4 DEF DiskTypes, NumbersBounded, FileTypes
<1>5. QED
  BY <1>3, <1>4 DEF FileTypes

LEMMA FileInvInit ==
  ASSUME Init
  PROVE  FileInv
<1>1. <<>> \in Seq(Bytes)
  BY EmptySeq
<1>2. DOMAIN disk = {} /\ 0 \in 0 .. MaxSeq /\ 0 \in 0 .. MaxClock
  BY Basics DEF Init
<1>3. ClockTypes /\ CacheTypes /\ BoundTypes
  BY Basics DEF Init, ClockTypes, CacheTypes, BoundTypes
<1>4. DiskTypes /\ PastTypes /\ FileTypes
  BY <1>1, <1>2 DEF Init, DiskTypes, PastTypes, FileTypes
<1>5. CallTypes
  BY <1>1, Basics DEF Init, CallTypes, NoTurn
<1>6. QED
  BY <1>2, <1>3, <1>4, <1>5, Types DEF Init, FileInv, WallIsNatural, NumbersBounded, OpenHasDay,
     ActiveFile, OneHolder, BusyIsOpen, ChunkHasDay, InFlight

(* The parts of FileInv by what they read.                                  *)
LEMMA FileInvParts ==
  FileInv <=>
    /\ ClockTypes /\ DiskTypes /\ FileTypes /\ CacheTypes /\ CallTypes /\ BoundTypes /\ PastTypes
    /\ WallIsNatural /\ NumbersBounded /\ OpenHasDay /\ ActiveFile /\ OneHolder
    /\ BusyIsOpen /\ ChunkHasDay
BY Types DEF FileInv

LEMMA FileInvPartsAfter ==
  FileInv' <=>
    /\ ClockTypes' /\ DiskTypes' /\ FileTypes' /\ CacheTypes' /\ CallTypes' /\ BoundTypes'
    /\ PastTypes'
    /\ WallIsNatural' /\ NumbersBounded' /\ OpenHasDay' /\ ActiveFile' /\ BusyIsOpen'
    /\ OneHolder' /\ ChunkHasDay'
BY DEF FileInv, TypeOK, ClockTypes, DiskTypes, FileTypes, CacheTypes, CallTypes, BoundTypes,
       PastTypes

(* Steps that leave a part alone preserve it.                               *)
LEMMA Untouched ==
  ASSUME FileInv
  PROVE  /\ UNCHANGED clockVars => ClockTypes' /\ WallIsNatural'
         /\ UNCHANGED disk => DiskTypes' /\ NumbersBounded'
         /\ UNCHANGED fileVars => FileTypes'
         /\ UNCHANGED cache => CacheTypes'
         /\ UNCHANGED <<status, callVars>> => CallTypes' /\ OneHolder' /\ BusyIsOpen' /\ ChunkHasDay'
         /\ UNCHANGED boundVars => BoundTypes'
         /\ UNCHANGED pastVars => PastTypes'
         /\ UNCHANGED <<status, disk, fileVars>> => OpenHasDay' /\ ActiveFile'
<1> USE FileInvParts
<1>1. UNCHANGED clockVars => ClockTypes' /\ WallIsNatural'
  BY DEF clockVars, ClockTypes, WallIsNatural
<1>2. UNCHANGED disk => DiskTypes' /\ NumbersBounded'
  BY DEF DiskTypes, NumbersBounded
<1>3. UNCHANGED fileVars => FileTypes'
  BY DEF fileVars, FileTypes
<1>4. UNCHANGED cache => CacheTypes'
  BY DEF CacheTypes
<1>5. UNCHANGED <<status, callVars>> => CallTypes' /\ OneHolder' /\ BusyIsOpen' /\ ChunkHasDay'
  BY DEF callVars, CallTypes, OneHolder, BusyIsOpen, ChunkHasDay, InFlight
<1>6. UNCHANGED boundVars => BoundTypes'
  BY DEF boundVars, BoundTypes
<1>7. UNCHANGED pastVars => PastTypes'
  BY DEF pastVars, PastTypes
<1>8. UNCHANGED <<status, disk, fileVars>> => OpenHasDay' /\ ActiveFile'
  BY DEF fileVars, OpenHasDay, ActiveFile, Exists, FileOf
<1>9. QED
  BY <1>1, <1>2, <1>3, <1>4, <1>5, <1>6, <1>7, <1>8, Zenon

(* No call is under way: w.mu is free.                                      *)
LEMMA IdleStays ==
  ASSUME MuFree, UNCHANGED callVars, CallTypes, status' \in {"down", "open", "closed"}
  PROVE  CallTypes' /\ OneHolder' /\ BusyIsOpen' /\ ChunkHasDay'
BY DEF MuFree, callVars, CallTypes, OneHolder, BusyIsOpen, ChunkHasDay, InFlight

(* The call that holds w.mu moves on.                                       *)
LEMMA HolderStays ==
  ASSUME FileInv, NEW c \in Calls, InFlight(c), NEW how \in {"top", "chunk", "ok", "error"},
         call' = [call EXCEPT ![c] = how], UNCHANGED status, rest' \in Seq(Bytes),
         turn' \in [now : 0 .. MaxClock, wall : Int, today : Midnights \cup {None}],
         how = "chunk" => turn'.today # None
  PROVE  CallTypes' /\ OneHolder' /\ BusyIsOpen' /\ ChunkHasDay'
<1>1. CallTypes /\ OneHolder /\ BusyIsOpen
  BY FileInvParts
<1>2. CallTypes'
  BY <1>1 DEF CallTypes
<1>3. \A d \in Calls : d # c => call'[d] = call[d] /\ ~InFlight(d)
  BY <1>1 DEF OneHolder, CallTypes
<1>4. call'[c] = how
  BY <1>1 DEF CallTypes
<1>5. OneHolder' /\ BusyIsOpen' /\ ChunkHasDay'
  BY <1>1, <1>3, <1>4 DEF OneHolder, BusyIsOpen, ChunkHasDay, InFlight
<1>6. QED
  BY <1>2, <1>5

LEMMA NoTurnIs ==
  /\ NoTurn \in [now : 0 .. MaxClock, wall : Int, today : Midnights \cup {None}]
  /\ <<>> \in Seq(Bytes)
BY EmptySeq, Basics DEF NoTurn

(* Return: the call is over.                                                *)
LEMMA ReturnIs ==
  ASSUME FileInv, NEW c \in Calls, InFlight(c), NEW how \in {"ok", "error"}, Return(c, how),
         UNCHANGED status
  PROVE  CallTypes' /\ OneHolder' /\ BusyIsOpen' /\ ChunkHasDay'
BY NoTurnIs, HolderStays DEF Return

LEMMA RotateOrReturnIs ==
  ASSUME FileInv, NEW c \in Calls, InFlight(c), NEW now \in 0 .. MaxClock, NEW s \in Midnights,
         NEW q \in Nat, NEW next \in {"top", "chunk"}, RotateOrReturn(c, now, s, q, next),
         UNCHANGED status
  PROVE  /\ CallTypes' /\ OneHolder' /\ BusyIsOpen' /\ ChunkHasDay'
         /\ DiskTypes' /\ NumbersBounded' /\ FileTypes' /\ faults' \in 0 .. MaxFaults
         /\ OpenHasDay' /\ ActiveFile'
<1>1. /\ ClockTypes /\ DiskTypes /\ NumbersBounded /\ FileTypes /\ BoundTypes /\ CallTypes
      /\ OpenHasDay /\ ActiveFile /\ status = "open" /\ WallIsNatural
  BY FileInvParts DEF BusyIsOpen
<1>2. Open(now, s, q) \/ OpenFails(s, q)
  BY DEF RotateOrReturn
<1>3. /\ DiskTypes' /\ NumbersBounded' /\ FileTypes' /\ faults' \in 0 .. MaxFaults
      /\ stamp' # None /\ (file = FileOf(stamp, seq))'
      /\ (linked => Exists(file) /\ size = Len(disk[file]))'
  BY <1>1, <1>2, OpenOrNot
<1>4. OpenHasDay' /\ ActiveFile'
  BY <1>3 DEF OpenHasDay, ActiveFile
<1>5. CASE OpenFails(s, q) /\ Return(c, "error")
  BY <1>3, <1>4, <1>5, ReturnIs
<1>6. CASE /\ Open(now, s, q)
           /\ call' = [call EXCEPT ![c] = next]
           /\ UNCHANGED rest
           /\ turn' = IF next = "top" THEN NoTurn ELSE [now |-> now, wall |-> Wall, today |-> s]
  <2>1. rest' \in Seq(Bytes) /\ Wall \in Int
    BY <1>1, <1>6 DEF CallTypes, ClockTypes, Wall
  <2>2. turn' \in [now : 0 .. MaxClock, wall : Int, today : Midnights \cup {None}]
    BY <1>6, <2>1, NoTurnIs
  <2>3. next = "chunk" => turn'.today # None
    BY <1>6, Basics
  <2>4. QED
    BY <1>3, <1>4, <1>6, <2>1, <2>2, <2>3, HolderStays
<1>7. QED
  BY <1>5, <1>6 DEF RotateOrReturn

LEMMA StartKeepsFileInv ==
  ASSUME FileInv, Start
  PROVE  FileInv'
<1> DEFINE today == Truncate(Wall)
<1>1. PICK q \in {ResumeSeq(today), 0} :
        /\ IF q = ResumeSeq(today)
           THEN UNCHANGED scanFaults
           ELSE scanFaults < MaxScanFaults /\ scanFaults' = scanFaults + 1
        /\ \/ Open(clock, today, q) /\ status' = "open" /\ cache' = today
           \/ OpenFails(today, q) /\ UNCHANGED <<status, cache>>
  BY DEF Start
<1>2. /\ status # "open" /\ starts < MaxStarts /\ starts' = starts + 1
      /\ UNCHANGED <<clockVars, callVars, rotates, pastVars>>
  BY DEF Start
<1>3. /\ ClockTypes /\ DiskTypes /\ NumbersBounded /\ BoundTypes /\ CacheTypes /\ CallTypes
      /\ WallIsNatural
  BY FileInvParts
<1>4. today \in Midnights /\ clock \in 0 .. MaxClock
  BY <1>3, StampIs DEF ClockTypes
<1> HIDE DEF today
<1>5. q \in Nat
  BY <1>3, <1>4, ResumeIs
<1>6. ClockTypes' /\ WallIsNatural' /\ PastTypes'
  BY <1>2, Untouched
<1>7. scanFaults' \in 0 .. MaxScanFaults /\ starts' \in 0 .. MaxStarts /\ rotates' = rotates
  BY <1>1, <1>2, <1>3, Basics DEF BoundTypes
<1>8. MuFree
  BY <1>2, FileInvParts DEF MuFree, BusyIsOpen, InFlight
<1>9. CASE Open(clock, today, q) /\ status' = "open" /\ cache' = today
  <2>1. DiskTypes' /\ NumbersBounded' /\ FileTypes' /\ FileHolds' /\ faults' = faults
    BY <1>3, <1>4, <1>5, <1>9, OpenIs
  <2>2. BoundTypes' /\ CacheTypes'
    BY <1>3, <1>4, <1>7, <1>9, <2>1 DEF BoundTypes, CacheTypes
  <2>3. OpenHasDay' /\ ActiveFile'
    BY <2>1 DEF FileHolds, OpenHasDay, ActiveFile
  <2>4. CallTypes' /\ OneHolder' /\ BusyIsOpen' /\ ChunkHasDay'
    BY <1>2, <1>3, <1>8, <1>9, IdleStays
  <2>5. QED
    BY <1>6, <2>1, <2>2, <2>3, <2>4, FileInvPartsAfter
<1>10. CASE OpenFails(today, q) /\ UNCHANGED <<status, cache>>
  <2>1. UNCHANGED <<disk, fileVars>> /\ faults' \in 0 .. MaxFaults
    BY <1>3, <1>10, OpenFailsIs
  <2>2. BoundTypes'
    BY <1>7, <2>1, <1>3 DEF BoundTypes
  <2>3. QED
    BY <1>2, <1>6, <1>10, <2>1, <2>2, Untouched, FileInvPartsAfter
<1>11. QED
  BY <1>1, <1>9, <1>10

LEMMA BeginWriteKeepsFileInv ==
  ASSUME FileInv, NEW c \in Calls, BeginWrite(c)
  PROVE  FileInv'
<1>1. /\ MuFree
      /\ UNCHANGED <<clockVars, disk, status, fileVars, cache, turn, boundVars, pastVars>>
      /\ \/ status = "closed" /\ call' = [call EXCEPT ![c] = "closed"] /\ UNCHANGED rest
         \/ status = "open" /\ call' = [call EXCEPT ![c] = "top"] /\ rest' = Data[c]
  BY DEF BeginWrite
<1>2. CallTypes
  BY FileInvParts
<1>3. CallTypes'
  <2>1. rest' \in Seq(Bytes)
    BY <1>1, <1>2, Basics DEF CallTypes
  <2>2. QED
    BY <1>1, <1>2, <2>1 DEF CallTypes
<1>4. OneHolder' /\ BusyIsOpen' /\ ChunkHasDay'
  BY <1>1, <1>2 DEF CallTypes, MuFree, OneHolder, BusyIsOpen, ChunkHasDay, InFlight
<1>5. QED
  BY <1>1, <1>3, <1>4, Untouched, FileInvPartsAfter

LEMMA TurnKeepsFileInv ==
  ASSUME FileInv, NEW c \in Calls, Turn(c)
  PROVE  FileInv'
<1> DEFINE today == StampOf(Wall)
<1>1. /\ call[c] = "top" /\ cache' = today
      /\ UNCHANGED <<clockVars, status, scanFaults, starts, rotates, pastVars>>
      /\ \/ RotateOrReturn(c, clock, today, BaseSeq, "chunk")
         \/ RotateOrReturn(c, clock, today, seq + 1, "chunk")
         \/ /\ call' = [call EXCEPT ![c] = "chunk"]
            /\ turn' = [now |-> clock, wall |-> Wall, today |-> today]
            /\ UNCHANGED <<disk, fileVars, rest, faults>>
  BY DEF Turn
<1>2. /\ ClockTypes /\ CacheTypes /\ FileTypes /\ BoundTypes /\ CallTypes /\ WallIsNatural
      /\ InFlight(c)
  BY <1>1, FileInvParts DEF InFlight
<1>3. today \in Midnights /\ clock \in 0 .. MaxClock /\ Wall \in Int
  BY <1>2, StampIs DEF ClockTypes
<1>4. BaseSeq \in Nat /\ seq + 1 \in Nat
  BY <1>2, Basics DEF FileTypes
<1> HIDE DEF today
<1>5. ClockTypes' /\ WallIsNatural' /\ PastTypes' /\ CacheTypes'
  BY <1>1, <1>3, Untouched DEF CacheTypes
<1>6. ASSUME NEW q \in Nat, RotateOrReturn(c, clock, today, q, "chunk")
      PROVE  FileInv'
  <2>1. /\ CallTypes' /\ OneHolder' /\ BusyIsOpen' /\ ChunkHasDay'
        /\ DiskTypes' /\ NumbersBounded' /\ FileTypes' /\ faults' \in 0 .. MaxFaults
        /\ OpenHasDay' /\ ActiveFile'
    BY <1>1, <1>2, <1>3, <1>6, RotateOrReturnIs
  <2>2. BoundTypes'
    BY <1>1, <1>2, <2>1 DEF BoundTypes
  <2>3. QED
    BY <1>5, <2>1, <2>2, FileInvPartsAfter
<1>7. CASE /\ call' = [call EXCEPT ![c] = "chunk"]
           /\ turn' = [now |-> clock, wall |-> Wall, today |-> today]
           /\ UNCHANGED <<disk, fileVars, rest, faults>>
  <2>1. /\ rest' \in Seq(Bytes) /\ turn'.today # None
        /\ turn' \in [now : 0 .. MaxClock, wall : Int, today : Midnights \cup {None}]
    BY <1>2, <1>3, <1>7, Basics DEF CallTypes
  <2>2. CallTypes' /\ OneHolder' /\ BusyIsOpen' /\ ChunkHasDay'
    BY <1>1, <1>2, <1>7, <2>1, HolderStays
  <2>3. UNCHANGED boundVars
    BY <1>1, <1>7 DEF boundVars
  <2>4. QED
    BY <1>1, <1>5, <1>7, <2>2, <2>3, Untouched, FileInvPartsAfter
<1>8. QED
  BY <1>1, <1>4, <1>6, <1>7

LEMMA RotateForRoomKeepsFileInv ==
  ASSUME FileInv, NEW c \in Calls, RotateForRoom(c)
  PROVE  FileInv'
<1>1. /\ call[c] = "chunk" /\ RotateOrReturn(c, turn.now, turn.today, seq + 1, "top")
      /\ UNCHANGED <<clockVars, status, cache, scanFaults, starts, rotates, pastVars>>
  BY DEF RotateForRoom
<1>2. CallTypes /\ FileTypes /\ BoundTypes /\ ChunkHasDay /\ InFlight(c)
  BY <1>1, FileInvParts DEF InFlight
<1>3. turn.now \in 0 .. MaxClock /\ turn.today \in Midnights /\ seq + 1 \in Nat
  BY <1>1, <1>2 DEF CallTypes, FileTypes, ChunkHasDay
<1>4. /\ CallTypes' /\ OneHolder' /\ BusyIsOpen' /\ ChunkHasDay'
      /\ DiskTypes' /\ NumbersBounded' /\ FileTypes' /\ faults' \in 0 .. MaxFaults
      /\ OpenHasDay' /\ ActiveFile'
  BY <1>1, <1>2, <1>3, RotateOrReturnIs
<1>5. BoundTypes'
  BY <1>1, <1>2, <1>4 DEF BoundTypes
<1>6. QED
  BY <1>1, <1>4, <1>5, Untouched, FileInvPartsAfter

(* The two ways a write to the file can end.                                *)
LEMMA TakesKeepsFile ==
  ASSUME FileInv, status = "open", NEW bytes \in Seq(Bytes), FileTakes(bytes),
         UNCHANGED <<status, file, linked, stamp, seq, opened, synced, promised>>
  PROVE  DiskTypes' /\ NumbersBounded' /\ FileTypes' /\ PastTypes' /\ OpenHasDay' /\ ActiveFile'
<1>1. /\ DiskTypes /\ NumbersBounded /\ FileTypes /\ PastTypes /\ OpenHasDay /\ ActiveFile
      /\ (linked => Exists(file) /\ size = Len(disk[file]))
  BY FileInvParts DEF ActiveFile
<1>2. log \in Seq(Bytes)
  BY <1>1 DEF PastTypes
<1>3. /\ DiskTypes' /\ NumbersBounded' /\ FileTypes' /\ log' \in Seq(Bytes)
      /\ (linked => Exists(file) /\ size = Len(disk[file]))'
  BY <1>1, <1>2, TakesIs
<1>4. PastTypes'
  BY <1>1, <1>3 DEF PastTypes
<1>5. OpenHasDay' /\ ActiveFile'
  BY <1>1, <1>3 DEF OpenHasDay, ActiveFile, FileOf
<1>6. QED
  BY <1>3, <1>4, <1>5

LEMMA WritePortionKeepsFileInv ==
  ASSUME FileInv, NEW c \in Calls, WritePortion(c)
  PROVE  FileInv'
<1>1. /\ call[c] = "chunk" /\ FileTakes(Portion)
      /\ UNCHANGED <<clockVars, status, file, linked, stamp, seq, opened, cache, boundVars,
                     synced, promised>>
      /\ \/ Return(c, "ok")
         \/ /\ call' = [call EXCEPT ![c] = "top"]
            /\ rest' = SubSeq(rest, Len(Portion) + 1, Len(rest))
            /\ turn' = NoTurn
  BY DEF WritePortion
<1>2. CallTypes /\ FileTypes /\ InFlight(c) /\ status = "open"
  BY <1>1, FileInvParts DEF InFlight, BusyIsOpen
<1>3. Portion \in Seq(Bytes) /\ Len(Portion) \in 0 .. Len(rest)
  BY <1>2, PortionIs DEF CallTypes, FileTypes
<1>4. DiskTypes' /\ NumbersBounded' /\ FileTypes' /\ PastTypes' /\ OpenHasDay' /\ ActiveFile'
  BY <1>1, <1>2, <1>3, TakesKeepsFile
<1>5. CASE Return(c, "ok")
  BY <1>1, <1>2, <1>4, <1>5, ReturnIs, Untouched, FileInvPartsAfter
<1>6. CASE /\ call' = [call EXCEPT ![c] = "top"]
           /\ rest' = SubSeq(rest, Len(Portion) + 1, Len(rest))
           /\ turn' = NoTurn
  <2>1. \A i \in Len(Portion) + 1 .. Len(rest) : rest[i] \in Bytes
    BY <1>2, <1>3, ElementOfSeq, LenProperties DEF CallTypes
  <2>2. rest' \in Seq(Bytes)
    BY <1>2, <1>3, <1>6, <2>1, SubSeqProperties, LenProperties DEF CallTypes
  <2>3. CallTypes' /\ OneHolder' /\ BusyIsOpen' /\ ChunkHasDay'
    BY <1>1, <1>2, <1>6, <2>2, NoTurnIs, HolderStays
  <2>4. QED
    BY <1>1, <1>4, <2>3, Untouched, FileInvPartsAfter
<1>7. QED
  BY <1>1, <1>5, <1>6

LEMMA WriteFailsKeepsFileInv ==
  ASSUME FileInv, NEW c \in Calls, WriteFails(c)
  PROVE  FileInv'
<1>1. PICK n \in 0 .. Len(Portion) - 1 : FileTakes(SubSeq(Portion, 1, n))
  BY DEF WriteFails
<1>2. /\ call[c] = "chunk" /\ Return(c, "error") /\ faults < MaxFaults /\ faults' = faults + 1
      /\ UNCHANGED <<clockVars, status, file, linked, stamp, seq, opened, cache, scanFaults,
                     starts, rotates, synced, promised>>
  BY DEF WriteFails
<1>3. CallTypes /\ FileTypes /\ BoundTypes /\ InFlight(c) /\ status = "open"
  BY <1>2, FileInvParts DEF InFlight, BusyIsOpen
<1>4. Portion \in Seq(Bytes)
  BY <1>3, PortionIs DEF CallTypes, FileTypes
<1>5. SubSeq(Portion, 1, n) \in Seq(Bytes)
  <2>1. \A i \in 1 .. n : Portion[i] \in Bytes
    BY <1>4, ElementOfSeq, LenProperties
  <2>2. QED
    BY <2>1, SubSeqProperties
<1>6. DiskTypes' /\ NumbersBounded' /\ FileTypes' /\ PastTypes' /\ OpenHasDay' /\ ActiveFile'
  BY <1>1, <1>2, <1>3, <1>5, TakesKeepsFile
<1>7. BoundTypes'
  BY <1>2, <1>3, Basics DEF BoundTypes
<1>8. CallTypes' /\ OneHolder' /\ BusyIsOpen' /\ ChunkHasDay'
  BY <1>2, <1>3, ReturnIs
<1>9. QED
  BY <1>2, <1>6, <1>7, <1>8, Untouched, FileInvPartsAfter

LEMMA RotateKeepsFileInv ==
  ASSUME FileInv, Rotate
  PROVE  FileInv'
<1> DEFINE today == StampOf(Wall)
<1>1. /\ MuFree /\ status = "open" /\ rotates < MaxRotates /\ rotates' = rotates + 1
      /\ cache' = today /\ (Open(clock, today, seq + 1) \/ OpenFails(today, seq + 1))
      /\ UNCHANGED <<clockVars, status, callVars, scanFaults, starts, pastVars>>
  BY DEF Rotate
<1>2. /\ ClockTypes /\ DiskTypes /\ NumbersBounded /\ FileTypes /\ CacheTypes /\ BoundTypes
      /\ OpenHasDay /\ ActiveFile /\ WallIsNatural
  BY FileInvParts
<1>3. today \in Midnights /\ clock \in 0 .. MaxClock /\ seq + 1 \in Nat
  BY <1>2, StampIs DEF ClockTypes, FileTypes
<1> HIDE DEF today
<1>4. /\ DiskTypes' /\ NumbersBounded' /\ FileTypes' /\ faults' \in 0 .. MaxFaults
      /\ stamp' # None /\ (file = FileOf(stamp, seq))'
      /\ (linked => Exists(file) /\ size = Len(disk[file]))'
  BY <1>1, <1>2, <1>3, OpenOrNot
<1>5. BoundTypes' /\ CacheTypes'
  BY <1>1, <1>2, <1>3, <1>4, Basics DEF BoundTypes, CacheTypes
<1>6. OpenHasDay' /\ ActiveFile'
  BY <1>4 DEF OpenHasDay, ActiveFile
<1>7. QED
  BY <1>1, <1>4, <1>5, <1>6, Untouched, FileInvPartsAfter

LEMMA SyncKeepsFileInv ==
  ASSUME FileInv, Sync
  PROVE  FileInv'
<1>1. /\ status = "open" /\ synced' = Fsynced /\ promised' = Range(log) /\ log' = log
      /\ UNCHANGED <<clockVars, disk, status, fileVars, cache, callVars, boundVars>>
  BY DEF Sync
<1>2. DiskTypes /\ PastTypes /\ ActiveFile
  BY FileInvParts
<1>3. Fsynced \in SUBSET Bytes /\ Range(log) \in SUBSET Bytes
  <2>1. ASSUME NEW s \in Seq(Bytes) PROVE Range(s) \in SUBSET Bytes
    BY <2>1, LenProperties DEF Range
  <2>2. linked => disk[file] \in Seq(Bytes)
    BY <1>1, <1>2 DEF ActiveFile, Exists, DiskTypes
  <2>3. linked => Range(disk[file]) \in SUBSET Bytes
    BY <2>1, <2>2
  <2>4. QED
    BY <1>2, <2>1, <2>3 DEF Fsynced, PastTypes
<1>4. PastTypes'
  BY <1>1, <1>2, <1>3 DEF PastTypes
<1>5. QED
  BY <1>1, <1>4, Untouched, FileInvPartsAfter

LEMMA CloseFileKeepsFileInv ==
  ASSUME FileInv, CloseFile
  PROVE  FileInv'
<1>1. /\ MuFree /\ status = "open" /\ status' = "closed" /\ file' = None /\ synced' = Fsynced
      /\ UNCHANGED <<clockVars, disk, linked, stamp, seq, size, opened, cache, callVars,
                     boundVars, log, promised>>
  BY DEF CloseFile
<1>2. DiskTypes /\ PastTypes /\ ActiveFile /\ FileTypes /\ CallTypes
  BY FileInvParts
<1>3. Fsynced \in SUBSET Bytes
  <2>1. linked => disk[file] \in Seq(Bytes)
    BY <1>1, <1>2 DEF ActiveFile, Exists, DiskTypes
  <2>2. linked => Range(disk[file]) \in SUBSET Bytes
    BY <2>1, LenProperties DEF Range
  <2>3. QED
    BY <1>2, <2>2 DEF Fsynced, PastTypes
<1>4. PastTypes' /\ FileTypes'
  BY <1>1, <1>2, <1>3 DEF PastTypes, FileTypes
<1>5. OpenHasDay' /\ ActiveFile'
  BY <1>1 DEF OpenHasDay, ActiveFile
<1>6. CallTypes' /\ OneHolder' /\ BusyIsOpen' /\ ChunkHasDay'
  BY <1>1, <1>2, IdleStays
<1>7. QED
  BY <1>1, <1>4, <1>5, <1>6, Untouched, FileInvPartsAfter

LEMMA CrashKeepsFileInv ==
  ASSUME FileInv, Crash
  PROVE  FileInv'
<1>1. /\ status' = "down" /\ file' = None /\ cache' = None /\ rest' = <<>> /\ turn' = NoTurn
      /\ call' = [c \in Calls |-> IF call[c] \in {"top", "chunk"} THEN "lost" ELSE call[c]]
      /\ UNCHANGED <<clockVars, disk, linked, stamp, seq, size, opened, boundVars, pastVars>>
  BY DEF Crash
<1>2. CallTypes /\ FileTypes
  BY FileInvParts
<1>3. FileTypes' /\ CacheTypes'
  BY <1>1, <1>2 DEF FileTypes, CacheTypes
<1>4. CallTypes'
  BY <1>1, <1>2, NoTurnIs DEF CallTypes
<1>5. OpenHasDay' /\ ActiveFile'
  BY <1>1 DEF OpenHasDay, ActiveFile
<1>6. \A c \in Calls : ~InFlight(c)'
  BY <1>1 DEF InFlight
<1>7. OneHolder' /\ BusyIsOpen' /\ ChunkHasDay'
  BY <1>6 DEF OneHolder, BusyIsOpen, ChunkHasDay, InFlight
<1>8. QED
  BY <1>1, <1>3, <1>4, <1>5, <1>7, Untouched, FileInvPartsAfter

LEMMA EnvironmentKeepsFileInv ==
  ASSUME FileInv, Environment
  PROVE  FileInv'
<1>1. UNCHANGED <<disk, status, fileVars, cache, callVars, boundVars, pastVars>>
  BY DEF Environment, Tick, StepBack
<1>2. ClockTypes /\ WallIsNatural
  BY FileInvParts
<1>3. ClockTypes' /\ WallIsNatural'
  BY <1>2, Basics DEF Environment, Tick, StepBack, Wall, ClockTypes, WallIsNatural
<1>4. QED
  BY <1>1, <1>3, Untouched, FileInvPartsAfter

LEMMA FileInvStep ==
  ASSUME FileInv, [Next]_vars
  PROVE  FileInv'
<1>1. CASE Start
  BY <1>1, StartKeepsFileInv
<1>2. ASSUME NEW c \in Calls, BeginWrite(c) PROVE FileInv'
  BY <1>2, BeginWriteKeepsFileInv
<1>3. ASSUME NEW c \in Calls, WriteStep(c) PROVE FileInv'
  BY <1>3, TurnKeepsFileInv, RotateForRoomKeepsFileInv, WritePortionKeepsFileInv,
     WriteFailsKeepsFileInv DEF WriteStep
<1>4. CASE Rotate
  BY <1>4, RotateKeepsFileInv
<1>5. CASE Sync
  BY <1>5, SyncKeepsFileInv
<1>6. CASE CloseFile
  BY <1>6, CloseFileKeepsFileInv
<1>7. CASE Crash
  BY <1>7, CrashKeepsFileInv
<1>8. CASE Environment
  BY <1>8, EnvironmentKeepsFileInv
<1>9. CASE UNCHANGED vars
  <2>1. UNCHANGED <<clockVars, disk, status, fileVars, cache, callVars, boundVars, pastVars>>
    BY <1>9 DEF vars
  <2>2. QED
    BY <2>1, Untouched, FileInvPartsAfter
<1>10. QED
  BY <1>1, <1>2, <1>3, <1>4, <1>5, <1>6, <1>7, <1>8, <1>9 DEF Next, Serve

LEMMA FileInvHolds == Spec => []FileInv
BY FileInvInit, FileInvStep, PTL DEF Spec

(* Every variable of the rolling writer stays within its type.              *)
THEOREM TypesHold == Spec => []TypeOK
<1>1. FileInv => TypeOK
  BY DEF FileInv
<1>2. QED
  BY <1>1, FileInvHolds, PTL

(* createFile assigns the writer's state only once the file is open: after  *)
(* any failed opens, failed writes, crashes and restarts, an open writer's  *)
(* path is the file it writes to and w.size is the length of that file.     *)
THEOREM TheActiveFileIsKnown == Spec => []ActiveFile
<1>1. FileInv => ActiveFile
  BY DEF FileInv
<1>2. QED
  BY <1>1, FileInvHolds, PTL

-----------------------------------------------------------------------------
(* The date of the file.                                                    *)

(* What layoutGranularity promises of the calendar, and what a day of 23    *)
(* hours breaks: no interval is shorter than the granularity.               *)
IntervalsLast == \A m, n \in Midnights : m < n => m + Granularity <= n

(* Then the cached interval is the interval.                                *)
LEMMA StampIsTheDate ==
  ASSUME IntervalsLast, ClockTypes, CacheTypes, WallIsNatural
  PROVE  StampOf(Wall) = Truncate(Wall)
<1>1. Wall \in Nat
  BY StampIs
<1>2. CASE CacheCovers(Wall)
  <2>1. cache \in Midnights /\ cache \in Nat /\ cache <= Wall /\ Wall < cache + Granularity
    BY <1>2, Basics DEF CacheCovers, CacheTypes
  <2>2. /\ Truncate(Wall) \in Midnights /\ Truncate(Wall) \in Nat /\ Truncate(Wall) <= Wall
        /\ cache <= Truncate(Wall)
    BY <1>1, <2>1, TruncateIs, Basics
  <2>3. ~(cache < Truncate(Wall))
    BY <1>1, <2>1, <2>2, Basics DEF IntervalsLast
  <2>4. cache = Truncate(Wall)
    BY <2>1, <2>2, <2>3
  <2>5. QED
    BY <1>2, <2>4 DEF StampOf
<1>3. QED
  BY <1>2 DEF StampOf

(* Between its two steps a call has the file and the turn to itself.        *)
LEMMA DateStays ==
  ASSUME DateIsRight,
         \A c \in Calls : call'[c] = "chunk" =>
             call[c] = "chunk" /\ stamp' = stamp /\ turn' = turn
  PROVE  DateIsRight'
BY DEF DateIsRight, Truncate

LEMMA NoOtherChunk ==
  ASSUME FileInv, NEW c \in Calls, InFlight(c), NEW how, call' = [call EXCEPT ![c] = how]
  PROVE  /\ call'[c] = how
         /\ \A d \in Calls : call'[d] \in {"top", "chunk"} => d = c
BY FileInvParts DEF OneHolder, InFlight, CallTypes

LEMMA TurnKeepsDate ==
  ASSUME IntervalsLast, FileInv, NEW c \in Calls, Turn(c)
  PROVE  DateIsRight'
<1>1. InFlight(c)
  BY DEF Turn, InFlight
<1>2. StampOf(Wall) = Truncate(Wall) /\ StampOf(Wall) \in Midnights
  BY FileInvParts, StampIsTheDate, StampIs
<1>3. \/ /\ stamp' = StampOf(Wall) /\ turn'.wall = Wall
         /\ call' = [call EXCEPT ![c] = "chunk"]
      \/ call' = [call EXCEPT ![c] = "error"]
  <2> DEFINE today == StampOf(Wall)
  <2>1. ASSUME NEW q, RotateOrReturn(c, clock, today, q, "chunk")
        PROVE  \/ /\ stamp' = today /\ turn'.wall = Wall
                  /\ call' = [call EXCEPT ![c] = "chunk"]
               \/ call' = [call EXCEPT ![c] = "error"]
    BY <2>1 DEF RotateOrReturn, Open, Return
  <2>2. CASE /\ today = stamp
             /\ call' = [call EXCEPT ![c] = "chunk"]
             /\ turn' = [now |-> clock, wall |-> Wall, today |-> today]
             /\ UNCHANGED <<disk, fileVars, rest, faults>>
    BY <2>2 DEF fileVars
  <2>3. \/ RotateOrReturn(c, clock, today, BaseSeq, "chunk")
        \/ RotateOrReturn(c, clock, today, seq + 1, "chunk")
        \/ /\ today = stamp
           /\ call' = [call EXCEPT ![c] = "chunk"]
           /\ turn' = [now |-> clock, wall |-> Wall, today |-> today]
           /\ UNCHANGED <<disk, fileVars, rest, faults>>
    BY DEF Turn
  <2>4. \/ /\ stamp' = today /\ turn'.wall = Wall
           /\ call' = [call EXCEPT ![c] = "chunk"]
        \/ call' = [call EXCEPT ![c] = "error"]
    BY <2>1, <2>2, <2>3
  <2>5. QED
    BY <2>4
<1>4. call'[c] = "chunk" => stamp' = Truncate(Wall) /\ turn'.wall = Wall
  BY <1>1, <1>2, <1>3, NoOtherChunk
<1>5. \A d \in Calls : call'[d] = "chunk" => d = c
  BY <1>1, <1>3, NoOtherChunk
<1>6. QED
  BY <1>4, <1>5 DEF DateIsRight, Truncate

LEMMA DateStep ==
  ASSUME IntervalsLast, FileInv, DateIsRight, [Next]_vars
  PROVE  DateIsRight'
<1>1. CASE \E c \in Calls : Turn(c)
  BY <1>1, TurnKeepsDate
<1>2. ASSUME NEW c \in Calls, RotateForRoom(c) \/ WritePortion(c) \/ WriteFails(c)
      PROVE  DateIsRight'
  <2>1. InFlight(c)
    BY <1>2 DEF RotateForRoom, WritePortion, WriteFails, InFlight
  <2>2. PICK how \in {"top", "ok", "error"} : call' = [call EXCEPT ![c] = how]
    BY <1>2 DEF RotateForRoom, WritePortion, WriteFails, RotateOrReturn, Return
  <2>3. \A d \in Calls : call'[d] # "chunk"
    BY <2>1, <2>2, NoOtherChunk
  <2>4. QED
    BY <2>3, DateStays
<1>3. CASE Start \/ Rotate \/ Sync \/ CloseFile
  <2>1. MuFree /\ call' = call
    BY <1>3, FileInvParts DEF Start, Rotate, Sync, CloseFile, callVars, MuFree, BusyIsOpen, InFlight
  <2>2. \A d \in Calls : call'[d] # "chunk"
    BY <2>1 DEF MuFree
  <2>3. QED
    BY <2>2, DateStays
<1>4. ASSUME NEW c \in Calls, BeginWrite(c) PROVE DateIsRight'
  <2>1. /\ MuFree
        /\ call' = [call EXCEPT ![c] = "closed"] \/ call' = [call EXCEPT ![c] = "top"]
    BY <1>4 DEF BeginWrite
  <2>2. \A d \in Calls : call'[d] # "chunk"
    BY <2>1, FileInvParts DEF MuFree, CallTypes
  <2>3. QED
    BY <2>2, DateStays
<1>5. CASE Crash
  <2>1. \A d \in Calls : call'[d] # "chunk"
    BY <1>5 DEF Crash
  <2>2. QED
    BY <2>1, DateStays
<1>6. CASE Environment \/ UNCHANGED vars
  BY <1>6, DateStays DEF Environment, Tick, StepBack, vars, fileVars, callVars
<1>7. QED
  BY <1>1, <1>2, <1>3, <1>4, <1>5, <1>6 DEF Next, Serve, WriteStep

(* As long as no day is shorter than the granularity of the stamp cache,    *)
(* every byte goes to a file of the date it is written on - at midnight,    *)
(* after the wall clock was set back, across restarts.                      *)
THEOREM FilesAreOfTheirDate == IntervalsLast => (Spec => []DateIsRight)
<1> SUFFICES ASSUME IntervalsLast PROVE Spec => []DateIsRight
  OBVIOUS
<1>1. Init => DateIsRight
  BY DEF Init, DateIsRight
<1>2. FileInv /\ DateIsRight /\ [Next]_vars => DateIsRight'
  BY DateStep
<1>3. QED
  BY <1>1, <1>2, FileInvHolds, PTL DEF Spec

-----------------------------------------------------------------------------
(* What was accepted.                                                       *)

(* The log ends with what the call under way has written, and an accepted   *)
(* payload is somewhere in the log in one piece.                            *)
AcceptedInLog ==
    \A c \in Calls : call[c] = "ok" =>
        \E a, e \in Seq(Bytes) : log = (a \o Data[c]) \o e
WrittenAtEnd ==
    \A c \in Calls : InFlight(c) =>
        \E a, b \in Seq(Bytes) : log = a \o b /\ b \o rest = Data[c]

LEMMA Associative ==
  ASSUME NEW s \in Seq(Bytes), NEW t \in Seq(Bytes), NEW u \in Seq(Bytes)
  PROVE  (s \o t) \o u = s \o (t \o u)
BY ConcatAssociative

LEMMA Joined ==
  ASSUME NEW s \in Seq(Bytes), NEW t \in Seq(Bytes)
  PROVE  /\ s \o t \in Seq(Bytes) /\ Len(s \o t) = Len(s) + Len(t)
         /\ \A i \in 1 .. Len(s) + Len(t) : (s \o t)[i] = IF i <= Len(s) THEN s[i] ELSE t[i - Len(s)]
BY ConcatProperties

LEMMA SplitAt ==
  ASSUME NEW s \in Seq(Bytes), NEW k \in 0 .. Len(s)
  PROVE  /\ SubSeq(s, 1, k) \o SubSeq(s, k + 1, Len(s)) = s
         /\ SubSeq(s, 1, k) \in Seq(Bytes) /\ SubSeq(s, k + 1, Len(s)) \in Seq(Bytes)
         /\ Len(SubSeq(s, 1, k)) = k /\ Len(SubSeq(s, k + 1, Len(s))) = Len(s) - k
<1>1. Len(s) \in Nat /\ \A i \in 1 .. Len(s) : s[i] \in Bytes
  BY LenProperties, ElementOfSeq
<1>2. 1 \in 1 .. Len(s) + 1 /\ k \in 1 - 1 .. Len(s) /\ Len(s) \in k .. Len(s)
  BY <1>1
<1>3. SubSeq(s, 1, k) \o SubSeq(s, k + 1, Len(s)) = SubSeq(s, 1, Len(s))
  BY <1>2, ConcatAdjacentSubSeq
<1>4. SubSeq(s, 1, k) \in Seq(Bytes) /\ Len(SubSeq(s, 1, k)) = k
  BY <1>1, SubSeqProperties
<1>5. /\ SubSeq(s, k + 1, Len(s)) \in Seq(Bytes)
      /\ Len(SubSeq(s, k + 1, Len(s))) = Len(s) - k
  BY <1>1, SubSeqProperties
<1>6. QED
  BY <1>3, <1>4, <1>5, SubSeqFull

LEMMA SliceIs ==
  ASSUME NEW s \in Seq(Bytes), NEW k \in Nat, NEW l \in Nat, k + l <= Len(s)
  PROVE  /\ SubSeq(s, k + 1, k + l) \in Seq(Bytes) /\ Len(SubSeq(s, k + 1, k + l)) = l
         /\ \A i \in 1 .. l : SubSeq(s, k + 1, k + l)[i] = s[k + i]
<1>1. Len(s) \in Nat /\ \A i \in 1 .. Len(s) : s[i] \in Bytes
  BY LenProperties, ElementOfSeq
<1>2. \A i \in k + 1 .. k + l : s[i] \in Bytes
  BY <1>1
<1> DEFINE t == SubSeq(s, k + 1, k + l)
<1>3. k + 1 \in Int /\ k + l \in Int
  OBVIOUS
<1>4. /\ t \in Seq(Bytes)
      /\ Len(t) = IF k + 1 <= k + l THEN k + l - (k + 1) + 1 ELSE 0
      /\ \A i \in 1 .. k + l - (k + 1) + 1 : t[i] = s[k + 1 + i - 1]
  BY <1>2, <1>3, SubSeqProperties, SMTT(20)
<1>5. k + l - (k + 1) + 1 = l /\ \A i \in 1 .. l : k + 1 + i - 1 = k + i
  OBVIOUS
<1> HIDE DEF t
<1>6. Len(t) = l
  BY <1>4
<1>7. \A i \in 1 .. l : t[i] = s[k + i]
  BY <1>4, <1>5
<1>8. QED
  BY <1>4, <1>6, <1>7 DEF t

LEMMA PieceIsThere ==
  ASSUME NEW a \in Seq(Bytes), NEW d \in Seq(Bytes), NEW e \in Seq(Bytes), log = (a \o d) \o e
  PROVE  \E k \in 0 .. Len(log) - Len(d) : SubSeq(log, k + 1, k + Len(d)) = d
<1> DEFINE ad == a \o d
           k == Len(a)
           t == SubSeq(log, k + 1, k + Len(d))
<1>1. /\ Len(a) \in Nat /\ Len(d) \in Nat /\ Len(e) \in Nat
      /\ ad \in Seq(Bytes) /\ Len(ad) = Len(a) + Len(d)
      /\ \A i \in 1 .. Len(a) + Len(d) : ad[i] = IF i <= Len(a) THEN a[i] ELSE d[i - Len(a)]
  BY LenProperties, ConcatProperties
<1>2. /\ log \in Seq(Bytes) /\ Len(log) = Len(ad) + Len(e)
      /\ \A i \in 1 .. Len(ad) + Len(e) : log[i] = IF i <= Len(ad) THEN ad[i] ELSE e[i - Len(ad)]
  <2> HIDE DEF ad
  <2>1. log = ad \o e
    BY DEF ad
  <2>2. ad \in Seq(Bytes)
    BY <1>1
  <2>3. /\ ad \o e \in Seq(Bytes) /\ Len(ad \o e) = Len(ad) + Len(e)
        /\ \A i \in 1 .. Len(ad) + Len(e) :
              (ad \o e)[i] = IF i <= Len(ad) THEN ad[i] ELSE e[i - Len(ad)]
    BY <2>2, Joined
  <2>4. QED
    BY <2>1, <2>3
<1> HIDE DEF ad
<1>3. \A i \in 1 .. Len(d) : log[k + i] = d[i] /\ d[i] \in Bytes
  BY <1>1, <1>2, ElementOfSeq
<1>4. Len(d) \in Nat /\ k + Len(d) <= Len(log)
  BY <1>1, <1>2
<1>5. /\ t \in Seq(Bytes) /\ Len(t) = Len(d)
      /\ \A i \in 1 .. Len(d) : t[i] = log[k + i]
  BY <1>1, <1>2, <1>4, SliceIs
<1>6. t = d
  <2> HIDE DEF t
  <2> QED BY <1>3, <1>5, SeqEqual
<1>7. k \in 0 .. Len(log) - Len(d)
  BY <1>1, <1>2
<1>8. QED
  BY <1>6, <1>7

LEMMA AcceptedIsWhole == AcceptedInLog => AckedWhole
<1> SUFFICES ASSUME AcceptedInLog, NEW c \in Calls, call[c] = "ok"
             PROVE  \E k \in 0 .. Len(log) - Len(Data[c]) :
                        SubSeq(log, k + 1, k + Len(Data[c])) = Data[c]
  BY DEF AckedWhole
<1>1. PICK a, e \in Seq(Bytes) : log = (a \o Data[c]) \o e
  BY DEF AcceptedInLog
<1>2. Data[c] \in Seq(Bytes)
  BY Basics
<1>3. QED
  BY <1>1, <1>2, PieceIsThere

(* Steps that write nothing.                                                *)
LEMMA QuietKeepsPieces ==
  ASSUME AcceptedInLog, WrittenAtEnd, UNCHANGED log,
         \A c \in Calls : call'[c] = "ok" => call[c] = "ok",
         \A c \in Calls : InFlight(c)' => InFlight(c) /\ UNCHANGED rest
  PROVE  AcceptedInLog' /\ WrittenAtEnd'
BY DEF AcceptedInLog, WrittenAtEnd

(* Bytes written after a payload was accepted leave it in one piece.        *)
LEMMA GrowingKeepsAccepted ==
  ASSUME AcceptedInLog, NEW bytes \in Seq(Bytes), log' = log \o bytes,
         NEW c \in Calls, call[c] = "ok"
  PROVE  \E a, e \in Seq(Bytes) : log' = (a \o Data[c]) \o e
<1>1. PICK a, e \in Seq(Bytes) : log = (a \o Data[c]) \o e
  BY DEF AcceptedInLog
<1>2. a \o Data[c] \in Seq(Bytes) /\ e \o bytes \in Seq(Bytes)
  BY Basics, ConcatProperties
<1>3. log' = (a \o Data[c]) \o (e \o bytes)
  <2> DEFINE w == a \o Data[c]
  <2>1. log' = (w \o e) \o bytes /\ w \in Seq(Bytes)
    BY <1>1, <1>2
  <2> HIDE DEF w
  <2>2. (w \o e) \o bytes = w \o (e \o bytes)
    BY <2>1, Associative
  <2>3. QED
    BY <2>1, <2>2 DEF w
<1>4. QED
  BY <1>2, <1>3

LEMMA BeginWriteKeepsPieces ==
  ASSUME FileInv, AcceptedInLog, WrittenAtEnd, NEW c \in Calls, BeginWrite(c)
  PROVE  AcceptedInLog' /\ WrittenAtEnd'
<1>1. /\ MuFree /\ log' = log /\ CallTypes /\ log \in Seq(Bytes) /\ Data[c] \in Seq(Bytes)
      /\ \/ call' = [call EXCEPT ![c] = "closed"]
         \/ call' = [call EXCEPT ![c] = "top"] /\ rest' = Data[c]
  BY Basics, FileInvParts DEF BeginWrite, pastVars, PastTypes
<1>2. AcceptedInLog'
  BY <1>1 DEF AcceptedInLog, CallTypes
<1>3. \A d \in Calls : InFlight(d)' => d = c /\ rest' = Data[c]
  BY <1>1 DEF MuFree, InFlight, CallTypes
<1>4. log' = log \o <<>> /\ <<>> \o Data[c] = Data[c] /\ <<>> \in Seq(Bytes)
  BY <1>1, ConcatEmptySeq, EmptySeq
<1>5. WrittenAtEnd'
  BY <1>1, <1>3, <1>4 DEF WrittenAtEnd
<1>6. QED
  BY <1>2, <1>5

LEMMA WritePortionKeepsPieces ==
  ASSUME FileInv, AcceptedInLog, WrittenAtEnd, NEW c \in Calls, WritePortion(c)
  PROVE  AcceptedInLog' /\ WrittenAtEnd'
<1>1. /\ InFlight(c) /\ log' = log \o Portion
      /\ \/ Len(Portion) = Len(rest) /\ call' = [call EXCEPT ![c] = "ok"]
         \/ /\ call' = [call EXCEPT ![c] = "top"]
            /\ rest' = SubSeq(rest, Len(Portion) + 1, Len(rest))
  BY DEF WritePortion, FileTakes, Return, InFlight
<1>2. /\ rest \in Seq(Bytes) /\ Len(rest) \in Nat /\ CallTypes
      /\ Portion \in Seq(Bytes) /\ Len(Portion) \in 0 .. Len(rest)
      /\ Portion = SubSeq(rest, 1, Len(Portion))
  BY FileInvParts, PortionIs, LenProperties DEF CallTypes, FileTypes
<1>3. PICK a, b \in Seq(Bytes) : log = a \o b /\ b \o rest = Data[c]
  BY <1>1 DEF WrittenAtEnd
<1>4. b \o Portion \in Seq(Bytes) /\ log' = a \o (b \o Portion)
  <2>1. log' = (a \o b) \o Portion
    BY <1>1, <1>3
  <2>2. (a \o b) \o Portion = a \o (b \o Portion)
    BY <1>2, Associative
  <2>3. QED
    BY <1>2, <2>1, <2>2, ConcatProperties
<1>5. ASSUME NEW d \in Calls, d # c, call'[d] = "ok"
      PROVE  \E x, y \in Seq(Bytes) : log' = (x \o Data[d]) \o y
  <2>1. call[d] = "ok"
    BY <1>1, <1>2, <1>5 DEF CallTypes
  <2>2. QED
    BY <1>1, <1>2, <2>1, GrowingKeepsAccepted
<1>6. CASE Len(Portion) = Len(rest) /\ call' = [call EXCEPT ![c] = "ok"]
  <2>1. Portion = rest
    BY <1>2, <1>6, SubSeqFull
  <2>2. log' = a \o Data[c]
    BY <1>3, <1>4, <2>1
  <2>3. a \o Data[c] \in Seq(Bytes) /\ <<>> \in Seq(Bytes)
    BY Basics, ConcatProperties, EmptySeq
  <2>4. log' = (a \o Data[c]) \o <<>>
    BY <2>2, <2>3, ConcatEmptySeq
  <2>5. AcceptedInLog'
    BY <1>5, <2>3, <2>4 DEF AcceptedInLog
  <2>6. WrittenAtEnd'
    <3>1. \A d \in Calls : ~InFlight(d)'
      BY <1>1, <1>6, NoOtherChunk DEF InFlight
    <3>2. QED
      BY <3>1 DEF WrittenAtEnd
  <2>7. QED
    BY <2>5, <2>6
<1>7. CASE /\ call' = [call EXCEPT ![c] = "top"]
           /\ rest' = SubSeq(rest, Len(Portion) + 1, Len(rest))
  <2>1. Portion \o rest' = rest /\ rest' \in Seq(Bytes)
    BY <1>2, <1>7, SplitAt
  <2>2. (b \o Portion) \o rest' = Data[c]
    <3>1. (b \o Portion) \o rest' = b \o (Portion \o rest')
      <4>1. b \in Seq(Bytes) /\ Portion \in Seq(Bytes) /\ rest' \in Seq(Bytes)
        BY <1>2, <2>1
      <4>2. QED
        BY <4>1, Associative
    <3>2. QED
      BY <1>3, <2>1, <3>1
  <2>3. \A d \in Calls : InFlight(d)' => d = c
    BY <1>1, <1>7, NoOtherChunk DEF InFlight
  <2>4. WrittenAtEnd'
    BY <1>4, <2>2, <2>3 DEF WrittenAtEnd
  <2>5. call'[c] # "ok"
    BY <1>1, <1>7, NoOtherChunk
  <2>6. AcceptedInLog'
    BY <1>5, <2>5 DEF AcceptedInLog
  <2>7. QED
    BY <2>4, <2>6
<1>8. QED
  BY <1>1, <1>6, <1>7

LEMMA WriteFailsKeepsPieces ==
  ASSUME FileInv, AcceptedInLog, WrittenAtEnd, NEW c \in Calls, WriteFails(c)
  PROVE  AcceptedInLog' /\ WrittenAtEnd'
<1>1. PICK n \in 0 .. Len(Portion) - 1 : log' = log \o SubSeq(Portion, 1, n)
  BY DEF WriteFails, FileTakes
<1>2. InFlight(c) /\ call' = [call EXCEPT ![c] = "error"]
  BY DEF WriteFails, Return, InFlight
<1>3. Portion \in Seq(Bytes) /\ CallTypes
  BY FileInvParts, PortionIs DEF CallTypes, FileTypes
<1>4. SubSeq(Portion, 1, n) \in Seq(Bytes)
  <2>1. \A i \in 1 .. n : Portion[i] \in Bytes
    BY <1>3, ElementOfSeq, LenProperties
  <2>2. QED
    BY <2>1, SubSeqProperties
<1>5. \A d \in Calls : call'[d] = "ok" => call[d] = "ok"
  BY <1>2, <1>3 DEF CallTypes
<1>6. AcceptedInLog'
  BY <1>1, <1>4, <1>5, GrowingKeepsAccepted DEF AcceptedInLog
<1>7. WrittenAtEnd'
  BY <1>2, NoOtherChunk DEF WrittenAtEnd, InFlight
<1>8. QED
  BY <1>6, <1>7

LEMMA PiecesStep ==
  ASSUME FileInv, AcceptedInLog, WrittenAtEnd, [Next]_vars
  PROVE  AcceptedInLog' /\ WrittenAtEnd'
<1>1. ASSUME NEW c \in Calls, BeginWrite(c) PROVE AcceptedInLog' /\ WrittenAtEnd'
  BY <1>1, BeginWriteKeepsPieces
<1>2. ASSUME NEW c \in Calls, WritePortion(c) PROVE AcceptedInLog' /\ WrittenAtEnd'
  BY <1>2, WritePortionKeepsPieces
<1>3. ASSUME NEW c \in Calls, WriteFails(c) PROVE AcceptedInLog' /\ WrittenAtEnd'
  BY <1>3, WriteFailsKeepsPieces
<1>4. ASSUME NEW c \in Calls, Turn(c) \/ RotateForRoom(c) PROVE AcceptedInLog' /\ WrittenAtEnd'
  <2>1. UNCHANGED log /\ CallTypes /\ InFlight(c)
    BY <1>4, FileInvParts DEF Turn, RotateForRoom, pastVars, InFlight
  <2>2. \/ call' = [call EXCEPT ![c] = "error"]
        \/ UNCHANGED rest /\ (\/ call' = [call EXCEPT ![c] = "chunk"]
                              \/ call' = [call EXCEPT ![c] = "top"])
    BY <1>4 DEF Turn, RotateForRoom, RotateOrReturn, Return
  <2>3. \A d \in Calls : call'[d] = "ok" => call[d] = "ok"
    BY <2>1, <2>2 DEF CallTypes
  <2>4. \A d \in Calls : InFlight(d)' => InFlight(d) /\ UNCHANGED rest
    BY <2>1, <2>2, NoOtherChunk DEF InFlight, CallTypes
  <2>5. QED
    BY <2>1, <2>3, <2>4, QuietKeepsPieces
<1>5. CASE Start \/ Rotate \/ Sync \/ CloseFile \/ Environment \/ UNCHANGED vars
  <2>1. UNCHANGED <<log, call, rest>>
    BY <1>5 DEF Start, Rotate, Sync, CloseFile, Environment, Tick, StepBack, vars, callVars, pastVars
  <2>2. QED
    BY <2>1, QuietKeepsPieces DEF InFlight
<1>6. CASE Crash
  <2>1. /\ UNCHANGED log /\ \A c \in Calls : ~InFlight(c)'
        /\ \A c \in Calls : call'[c] = "ok" => call[c] = "ok"
    BY <1>6 DEF Crash, pastVars, InFlight
  <2>2. QED
    BY <2>1, QuietKeepsPieces
<1>7. QED
  BY <1>1, <1>2, <1>3, <1>4, <1>5, <1>6 DEF Next, Serve, WriteStep

(* A payload for which Write returned no error is in the files whole and in *)
(* order, however many files its lines were spread over, and nothing of     *)
(* another call came between.                                               *)
THEOREM AcceptedPayloadsAreWhole == Spec => []AckedWhole
<1>1. Init => AcceptedInLog /\ WrittenAtEnd
  BY DEF Init, AcceptedInLog, WrittenAtEnd, InFlight
<1>2. FileInv /\ AcceptedInLog /\ WrittenAtEnd /\ [Next]_vars => AcceptedInLog' /\ WrittenAtEnd'
  BY PiecesStep
<1>3. QED
  BY <1>1, <1>2, FileInvHolds, AcceptedIsWhole, PTL DEF Spec

-----------------------------------------------------------------------------
(* Lines and files.                                                         *)

OpenIsLinked == status = "open" => linked

(* What is left begins behind a line end, or is everything.                 *)
RestIsLines ==
    \A c \in Calls : InFlight(c) =>
        \E j \in 0 .. Len(Data[c]) :
            /\ rest = SubSeq(Data[c], j + 1, Len(Data[c]))
            /\ j > 0 => Data[c][j] \in Newline

(* The two halves of LinesStayWhole.                                        *)
LinesTogether ==
    \A c \in Calls : \A i \in 1 .. Len(Data[c]) - 1 :
        (Data[c][i] \notin Newline /\ Data[c][i + 1] \in Range(log)) =>
            \E n \in DOMAIN disk : \E k \in 1 .. Len(disk[n]) - 1 :
                disk[n][k] = Data[c][i] /\ disk[n][k + 1] = Data[c][i + 1]
OverlongIsOneLine ==
    \A n \in DOMAIN disk :
        (MaxSize > 0 /\ Len(disk[n]) > MaxSize) =>
            \A i \in 1 .. MaxSize : disk[n][i] \notin Newline

LinesInv == OpenIsLinked /\ RestIsLines /\ LinesTogether /\ OverlongIsOneLine

(* Steps that write nothing and at most create an empty file.               *)
LEMMA QuietKeepsLines ==
  ASSUME LinesInv, UNCHANGED log, DOMAIN disk \subseteq DOMAIN disk',
         \A n \in DOMAIN disk : disk'[n] = disk[n],
         \A n \in DOMAIN disk' \ DOMAIN disk : disk'[n] = <<>>,
         status' = "open" => linked',
         \A c \in Calls : InFlight(c)' => InFlight(c) /\ UNCHANGED rest
  PROVE  LinesInv'
<1>1. OpenIsLinked'
  BY DEF OpenIsLinked
<1>2. RestIsLines'
  BY DEF LinesInv, RestIsLines
<1>3. LinesTogether'
  BY DEF LinesInv, LinesTogether
<1>4. OverlongIsOneLine'
  <2>1. Len(<<>>) = 0 /\ MaxSize \in Int
    BY EmptySeq, Basics
  <2>2. ASSUME NEW n \in DOMAIN disk', MaxSize > 0, Len(disk'[n]) > MaxSize
        PROVE  n \in DOMAIN disk
    BY <2>1, <2>2
  <2>3. QED
    BY <2>2 DEF LinesInv, OverlongIsOneLine
<1>5. QED
  BY <1>1, <1>2, <1>3, <1>4 DEF LinesInv

LEMMA OpeningIsQuiet ==
  ASSUME NEW now, NEW s, NEW q, Open(now, s, q) \/ OpenFails(s, q)
  PROVE  /\ DOMAIN disk \subseteq DOMAIN disk'
         /\ \A n \in DOMAIN disk : disk'[n] = disk[n]
         /\ \A n \in DOMAIN disk' \ DOMAIN disk : disk'[n] = <<>>
         /\ linked' \/ linked' = linked
<1>1. CASE Open(now, s, q)
  <2>1. disk' = [m \in DOMAIN disk \cup {FileOf(s, q)} |-> IF Exists(m) THEN disk[m] ELSE <<>>]
        /\ linked'
    BY <1>1 DEF Open
  <2>2. QED
    BY <2>1 DEF Exists
<1>2. CASE OpenFails(s, q)
  BY <1>2 DEF OpenFails, OpenFailsKeeping, fileVars
<1>3. QED
  BY <1>1, <1>2

(* What a write does to the file of an open writer.                         *)
LEMMA FileGrows ==
  ASSUME FileInv, OpenIsLinked, status = "open", NEW bytes \in Seq(Bytes), FileTakes(bytes)
  PROVE  /\ DOMAIN disk' = DOMAIN disk /\ file \in DOMAIN disk /\ size = Len(disk[file])
         /\ \A n \in DOMAIN disk : n # file => disk'[n] = disk[n]
         /\ Len(disk'[file]) = size + Len(bytes)
         /\ \A i \in 1 .. size : disk'[file][i] = disk[file][i]
         /\ \A i \in 1 .. Len(bytes) : disk'[file][size + i] = bytes[i]
<1>1. DiskTypes /\ linked /\ file \in DOMAIN disk /\ size = Len(disk[file])
  BY FileInvParts DEF OpenIsLinked, ActiveFile, Exists
<1>2. disk[file] \in Seq(Bytes) /\ size \in Nat /\ Len(bytes) \in Nat
  BY <1>1, LenProperties DEF DiskTypes
<1>3. disk' = [disk EXCEPT ![file] = disk[file] \o bytes]
  BY <1>1 DEF FileTakes
<1>4. DOMAIN disk' = DOMAIN disk /\ disk'[file] = disk[file] \o bytes
  BY <1>1, <1>3
<1>5. /\ Len(disk[file] \o bytes) = size + Len(bytes)
      /\ \A i \in 1 .. size + Len(bytes) :
            (disk[file] \o bytes)[i] = IF i <= size THEN disk[file][i] ELSE bytes[i - size]
  BY <1>1, <1>2, ConcatProperties
<1>6. \A i \in 1 .. size : disk'[file][i] = disk[file][i]
  BY <1>2, <1>4, <1>5
<1>7. ASSUME NEW i \in 1 .. Len(bytes) PROVE disk'[file][size + i] = bytes[i]
  <2> DEFINE x == size + i
  <2>1. x \in 1 .. size + Len(bytes) /\ ~(x <= size) /\ x - size = i
    BY <1>2
  <2> HIDE DEF x
  <2>2. disk'[file][x] = bytes[x - size]
    BY <1>4, <1>5, <2>1, Zenon
  <2>3. QED
    BY <2>1, <2>2 DEF x
<1>8. QED
  BY <1>1, <1>3, <1>4, <1>5, <1>6, <1>7

(* The bytes of what is left, in the payload.                               *)
LEMMA RestInData ==
  ASSUME NEW c \in Calls, NEW j \in 0 .. Len(Data[c]),
         rest = SubSeq(Data[c], j + 1, Len(Data[c]))
  PROVE  /\ Len(rest) = Len(Data[c]) - j
         /\ \A p \in 1 .. Len(rest) : rest[p] = Data[c][j + p]
<1>1. Data[c] \in Seq(Bytes) /\ Len(Data[c]) \in Nat
  BY Basics, LenProperties
<1>2. \A i \in j + 1 .. Len(Data[c]) : Data[c][i] \in Bytes
  BY <1>1, ElementOfSeq
<1>3. /\ Len(rest) = IF j + 1 <= Len(Data[c]) THEN Len(Data[c]) - (j + 1) + 1 ELSE 0
      /\ \A p \in 1 .. Len(Data[c]) - (j + 1) + 1 : rest[p] = Data[c][j + 1 + p - 1]
  BY <1>1, <1>2, SubSeqProperties
<1>4. QED
  BY <1>1, <1>3

(* A prefix of what is left goes to the file: its lines are together there, *)
(* for what was written of the payload before ended with a line.            *)
LEMMA GrowingKeepsLinesTogether ==
  ASSUME FileInv, LinesInv, NEW c \in Calls, InFlight(c),
         NEW n \in 0 .. Len(rest), FileTakes(SubSeq(rest, 1, n))
  PROVE  LinesTogether'
<1> DEFINE bytes == SubSeq(rest, 1, n)
<1>1. /\ status = "open" /\ rest \in Seq(Bytes) /\ log \in Seq(Bytes) /\ size \in Nat
      /\ DiskTypes
  BY FileInvParts DEF BusyIsOpen, CallTypes, PastTypes, FileTypes
<1>2. PICK j \in 0 .. Len(Data[c]) :
        /\ rest = SubSeq(Data[c], j + 1, Len(Data[c]))
        /\ j > 0 => Data[c][j] \in Newline
  BY DEF LinesInv, RestIsLines
<1>3. Len(rest) = Len(Data[c]) - j /\ \A p \in 1 .. Len(rest) : rest[p] = Data[c][j + p]
  BY <1>2, RestInData
<1>4. \A d \in Calls : Data[d] \in Seq(Bytes) /\ Len(Data[d]) \in Nat
  BY Basics, LenProperties
<1>5. /\ bytes \in Seq(Bytes) /\ Len(bytes) = n /\ log' = log \o bytes
      /\ \A p \in 1 .. n : bytes[p] = rest[p]
  <2>1. \A p \in 1 .. n : rest[p] \in Bytes
    BY <1>1, ElementOfSeq, LenProperties
  <2>2. n \in Nat
    BY <1>1, LenProperties
  <2>3. QED
    BY <2>1, <2>2, SubSeqProperties DEF FileTakes
<1> HIDE DEF bytes
<1>6. FileTakes(bytes)
  BY DEF bytes
<1>7. /\ DOMAIN disk' = DOMAIN disk /\ file \in DOMAIN disk /\ size = Len(disk[file])
      /\ \A m \in DOMAIN disk : m # file => disk'[m] = disk[m]
      /\ Len(disk'[file]) = size + n
      /\ \A i \in 1 .. size : disk'[file][i] = disk[file][i]
      /\ \A i \in 1 .. n : disk'[file][size + i] = bytes[i]
  BY <1>1, <1>5, <1>6, FileGrows DEF LinesInv
<1> SUFFICES ASSUME NEW d \in Calls, NEW i \in 1 .. Len(Data[d]) - 1,
                    Data[d][i] \notin Newline, Data[d][i + 1] \in Range(log')
             PROVE  \E m \in DOMAIN disk' : \E k \in 1 .. Len(disk'[m]) - 1 :
                        disk'[m][k] = Data[d][i] /\ disk'[m][k + 1] = Data[d][i + 1]
  BY DEF LinesTogether
<1>8. CASE Data[d][i + 1] \in Range(log)
  <2>0. PICK m \in DOMAIN disk : \E k \in 1 .. Len(disk[m]) - 1 :
          disk[m][k] = Data[d][i] /\ disk[m][k + 1] = Data[d][i + 1]
    BY <1>8 DEF LinesInv, LinesTogether
  <2>1. PICK k \in 1 .. Len(disk[m]) - 1 :
          disk[m][k] = Data[d][i] /\ disk[m][k + 1] = Data[d][i + 1]
    BY <2>0
  <2>2. Len(disk[m]) \in Nat
    BY <1>1, LenProperties DEF DiskTypes
  <2>3. CASE m # file
    <3>1. m \in DOMAIN disk' /\ disk'[m] = disk[m]
      BY <1>7, <2>3
    <3>2. QED
      BY <2>1, <3>1
  <2>4. CASE m = file
    <3>0. Len(disk[m]) = size /\ Len(disk'[file]) = size + n /\ n \in Nat
      BY <1>7, <2>4
    <3>1. k \in 1 .. size /\ k + 1 \in 1 .. size /\ k \in 1 .. Len(disk'[file]) - 1
      BY <1>1, <3>0
    <3>2. disk'[file][k] = Data[d][i] /\ disk'[file][k + 1] = Data[d][i + 1]
      BY <1>7, <2>1, <2>4, <3>1
    <3>3. QED
      BY <1>7, <3>1, <3>2
  <2>5. QED
    BY <2>3, <2>4
<1>9. CASE Data[d][i + 1] \notin Range(log)
  <2>1. PICK p \in 1 .. n : bytes[p] = Data[d][i + 1]
    <3>1. /\ DOMAIN log' = 1 .. Len(log) + n
          /\ \A x \in 1 .. Len(log) + n :
                log'[x] = IF x <= Len(log) THEN log[x] ELSE bytes[x - Len(log)]
          /\ DOMAIN log = 1 .. Len(log) /\ Len(log) \in Nat
      BY <1>1, <1>5, ConcatProperties, LenProperties
    <3>2. PICK x \in 1 .. Len(log) + n : log'[x] = Data[d][i + 1]
      BY <3>1 DEF Range
    <3>3. ~(x <= Len(log))
      <4>1. ASSUME x <= Len(log) PROVE x \in DOMAIN log /\ log[x] = Data[d][i + 1]
        BY <3>1, <3>2, <4>1
      <4>2. QED
        BY <1>9, <4>1 DEF Range
    <3>4. x - Len(log) \in 1 .. n /\ bytes[x - Len(log)] = Data[d][i + 1]
      BY <3>1, <3>2, <3>3
    <3>5. QED
      BY <3>4
  <2>2. /\ p \in 1 .. Len(rest) /\ j + p \in 1 .. Len(Data[c]) /\ i + 1 \in 1 .. Len(Data[d])
        /\ Len(rest) \in Nat
    BY <1>1, <1>3, <1>4, LenProperties
  <2>3. Data[c][j + p] = Data[d][i + 1]
    BY <1>3, <1>5, <2>1, <2>2
  <2>4. c = d /\ j + p = i + 1
    <3> DEFINE x == j + p
               y == i + 1
    <3>1. x \in 1 .. Len(Data[c]) /\ y \in 1 .. Len(Data[d]) /\ Data[c][x] = Data[d][y]
      BY <2>2, <2>3
    <3> HIDE DEF x, y
    <3>2. \A q \in 1 .. Len(Data[d]) : Data[c][x] = Data[d][q] => c = d /\ x = q
      BY <3>1, DistinctBytesAssumption
    <3>3. c = d /\ x = y
      BY <3>1, <3>2
    <3>4. QED
      BY <3>3 DEF x, y
  <2>5. p # 1
    <3>1. ASSUME p = 1 PROVE j = i /\ j > 0
      BY <1>4, <2>4, <3>1
    <3>2. QED
      BY <1>2, <2>4, <3>1
  <2>6. /\ p - 1 \in 1 .. n /\ p - 1 \in 1 .. Len(rest) /\ j + (p - 1) = i
        /\ size + (p - 1) \in 1 .. Len(disk'[file]) - 1 /\ size + (p - 1) + 1 = size + p
    BY <1>1, <1>7, <2>2, <2>4, <2>5
  <2>7. disk'[file][size + (p - 1)] = Data[d][i] /\ disk'[file][size + p] = Data[d][i + 1]
    <3>1. disk'[file][size + (p - 1)] = bytes[p - 1] /\ disk'[file][size + p] = bytes[p]
      BY <1>7, <2>6
    <3>2. bytes[p - 1] = rest[p - 1] /\ rest[p - 1] = Data[c][j + (p - 1)]
      BY <1>3, <1>5, <2>6
    <3>3. QED
      BY <2>1, <2>4, <2>6, <3>1, <3>2
  <2>8. /\ file \in DOMAIN disk'
        /\ \E k \in 1 .. Len(disk'[file]) - 1 :
              disk'[file][k] = Data[d][i] /\ disk'[file][k + 1] = Data[d][i + 1]
    BY <1>7, <2>6, <2>7, Zenon
  <2>9. QED
    BY <2>8
<1>10. QED
  BY <1>8, <1>9

(* A file that takes some of the portion becomes longer than MaxSize only   *)
(* if it was empty and no line ends within the first MaxSize bytes.         *)
LEMMA GrowingKeepsOverlong ==
  ASSUME FileInv, LinesInv, status = "open", ~NeedsFreshFile,
         NEW n \in 0 .. Len(rest), n <= Len(Portion), FileTakes(SubSeq(rest, 1, n))
  PROVE  OverlongIsOneLine'
<1> DEFINE bytes == SubSeq(rest, 1, n)
<1>1. rest \in Seq(Bytes) /\ size \in Nat /\ Len(rest) \in Nat /\ MaxSize \in Int
  BY FileInvParts, LenProperties, Basics DEF CallTypes, FileTypes
<1>2. bytes \in Seq(Bytes) /\ Len(bytes) = n /\ \A p \in 1 .. n : bytes[p] = rest[p]
  <2>1. \A p \in 1 .. n : rest[p] \in Bytes
    BY <1>1, ElementOfSeq
  <2>2. QED
    BY <1>1, <2>1, SubSeqProperties
<1> HIDE DEF bytes
<1>3. FileTakes(bytes)
  BY DEF bytes
<1>4. /\ DOMAIN disk' = DOMAIN disk
      /\ \A m \in DOMAIN disk : m # file => disk'[m] = disk[m]
      /\ Len(disk'[file]) = size + n
      /\ \A i \in 1 .. n : disk'[file][size + i] = bytes[i]
  BY <1>2, <1>3, FileGrows DEF LinesInv
<1>5. ASSUME MaxSize > 0, size + n > MaxSize PROVE size = 0 /\ Room = MaxSize /\ Cut = 0
  <2>1. Room = MaxSize - size /\ Room > 0 /\ n > Room /\ Overshoots
    BY <1>1, <1>5 DEF Room, Overshoots, NeedsFreshFile
  <2>2. /\ Cut \in 0 .. Len(rest)
        /\ Cut > 0 => Cut <= Room
    BY <1>1, <2>1, CutIs
  <2>3. Cut > 0 => Portion = SubSeq(rest, 1, Cut) /\ Len(Portion) = Cut
    <3>1. Cut > 0 => Portion = SubSeq(rest, 1, Cut)
      BY <2>1 DEF Portion
    <3>2. \A i \in 1 .. Cut : rest[i] \in Bytes
      BY <1>1, <2>2, ElementOfSeq
    <3>3. Cut > 0 => Len(SubSeq(rest, 1, Cut)) = Cut
      BY <2>2, <3>2, SubSeqProperties
    <3>4. QED
      BY <3>1, <3>3
  <2>4. Cut = 0
    BY <1>1, <2>1, <2>2, <2>3
  <2>5. QED
    BY <1>1, <2>1, <2>4 DEF NeedsFreshFile
<1>6. ASSUME NEW m \in DOMAIN disk, MaxSize > 0, Len(disk'[m]) > MaxSize,
             NEW i \in 1 .. MaxSize
      PROVE  disk'[m][i] \notin Newline
  <2>1. CASE m # file
    BY <1>4, <1>6, <2>1 DEF LinesInv, OverlongIsOneLine
  <2>2. CASE m = file
    <3>1. size = 0 /\ Room = MaxSize /\ Cut = 0 /\ n > MaxSize
      BY <1>1, <1>4, <1>5, <1>6, <2>2
    <3>2. i \in 1 .. n /\ i \in 1 .. Len(rest) /\ i <= Room /\ size + i = i
      BY <1>1, <3>1
    <3>3. disk'[file][i] = rest[i]
      BY <1>2, <1>4, <3>2
    <3>4. rest[i] \notin Newline
      BY <1>1, <3>1, <3>2, CutIs
    <3>5. QED
      BY <2>2, <3>3, <3>4
  <2>3. QED
    BY <2>1, <2>2
<1>7. QED
  BY <1>4, <1>6 DEF OverlongIsOneLine

LEMMA WritePortionKeepsLines ==
  ASSUME FileInv, LinesInv, NEW c \in Calls, WritePortion(c)
  PROVE  LinesInv'
<1>1. /\ InFlight(c) /\ ~NeedsFreshFile /\ FileTakes(Portion) /\ UNCHANGED <<status, linked>>
      /\ \/ Len(Portion) = Len(rest) /\ call' = [call EXCEPT ![c] = "ok"]
         \/ /\ Len(Portion) # Len(rest) /\ call' = [call EXCEPT ![c] = "top"]
            /\ rest' = SubSeq(rest, Len(Portion) + 1, Len(rest))
  BY DEF WritePortion, Return, InFlight
<1>2. /\ rest \in Seq(Bytes) /\ Len(rest) \in Nat /\ size \in Nat /\ status = "open"
  BY <1>1, FileInvParts, LenProperties DEF CallTypes, FileTypes, BusyIsOpen
<1>3. /\ Len(Portion) \in 0 .. Len(rest) /\ Portion = SubSeq(rest, 1, Len(Portion))
      /\ \/ Portion = rest
         \/ Len(Portion) \in 1 .. Len(rest) /\ rest[Len(Portion)] \in Newline
  BY <1>2, PortionIs
<1>4. FileTakes(SubSeq(rest, 1, Len(Portion)))
  BY <1>1, <1>3
<1>5. LinesTogether' /\ OverlongIsOneLine' /\ OpenIsLinked'
  <2>1. LinesTogether'
    BY <1>1, <1>3, <1>4, GrowingKeepsLinesTogether
  <2>2. Len(Portion) <= Len(Portion)
    BY <1>2, <1>3
  <2>3. OverlongIsOneLine'
    BY <1>1, <1>2, <1>3, <1>4, <2>2, GrowingKeepsOverlong
  <2>4. QED
    BY <1>1, <2>1, <2>3 DEF LinesInv, OpenIsLinked
<1>6. CASE call' = [call EXCEPT ![c] = "ok"]
  <2>1. RestIsLines'
    BY <1>1, <1>6, NoOtherChunk DEF RestIsLines, InFlight
  <2>2. QED
    BY <1>5, <2>1 DEF LinesInv
<1>7. CASE /\ Len(Portion) # Len(rest) /\ call' = [call EXCEPT ![c] = "top"]
           /\ rest' = SubSeq(rest, Len(Portion) + 1, Len(rest))
  <2>1. PICK j \in 0 .. Len(Data[c]) : rest = SubSeq(Data[c], j + 1, Len(Data[c]))
    BY <1>1 DEF LinesInv, RestIsLines
  <2>2. Len(rest) = Len(Data[c]) - j /\ \A p \in 1 .. Len(rest) : rest[p] = Data[c][j + p]
    BY <2>1, RestInData
  <2>3. Data[c] \in Seq(Bytes) /\ Len(Data[c]) \in Nat
    BY Basics, LenProperties
  <2> DEFINE k == j + Len(Portion)
  <2>4. /\ Len(Portion) \in 1 .. Len(rest) - 1 /\ k \in 1 .. Len(Data[c])
        /\ Data[c][k] \in Newline
    BY <1>2, <1>3, <1>7, <2>2, <2>3
  <2>5. rest' = SubSeq(Data[c], k + 1, Len(Data[c]))
    <3>1. \A i \in Len(Portion) + 1 .. Len(rest) : rest[i] \in Bytes
      BY <1>2, <1>3, ElementOfSeq
    <3>2. \A i \in k + 1 .. Len(Data[c]) : Data[c][i] \in Bytes
      BY <2>3, <2>4, ElementOfSeq
    <3> DEFINE s == SubSeq(rest, Len(Portion) + 1, Len(rest))
               t == SubSeq(Data[c], k + 1, Len(Data[c]))
    <3>3. /\ s \in Seq(Bytes) /\ Len(s) = Len(rest) - Len(Portion)
          /\ \A p \in 1 .. Len(rest) - Len(Portion) : s[p] = rest[Len(Portion) + p]
      BY <1>2, <1>3, <2>4, <3>1, SubSeqProperties
    <3>4. /\ t \in Seq(Bytes) /\ Len(t) = Len(Data[c]) - k
          /\ \A p \in 1 .. Len(Data[c]) - k : t[p] = Data[c][k + p]
      BY <2>3, <2>4, <3>2, SubSeqProperties
    <3>5. Len(rest) - Len(Portion) = Len(Data[c]) - k
      BY <1>2, <2>2, <2>3, <2>4
    <3>6. ASSUME NEW p \in 1 .. Len(s) PROVE s[p] = t[p]
      <4>1. s[p] = rest[Len(Portion) + p] /\ t[p] = Data[c][k + p]
        BY <3>3, <3>4, <3>5
      <4>2. Len(Portion) + p \in 1 .. Len(rest) /\ j + (Len(Portion) + p) = k + p
        BY <1>2, <2>4, <3>3
      <4>3. QED
        BY <2>2, <4>1, <4>2
    <3>7. s = t
      <4> HIDE DEF s, t
      <4> QED BY <3>3, <3>4, <3>5, <3>6, SeqEqual
    <3>8. QED
      BY <1>7, <3>7
  <2>6. \A d \in Calls : InFlight(d)' => d = c
    BY <1>1, <1>7, NoOtherChunk DEF InFlight
  <2>7. k \in 0 .. Len(Data[c])
    BY <2>3, <2>4
  <2> HIDE DEF k
  <2>8. RestIsLines'
    BY <2>4, <2>5, <2>6, <2>7 DEF RestIsLines
  <2>9. QED
    BY <1>5, <2>8 DEF LinesInv
<1>8. QED
  BY <1>1, <1>6, <1>7

LEMMA WriteFailsKeepsLines ==
  ASSUME FileInv, LinesInv, NEW c \in Calls, WriteFails(c)
  PROVE  LinesInv'
<1>1. PICK n \in 0 .. Len(Portion) - 1 : FileTakes(SubSeq(Portion, 1, n))
  BY DEF WriteFails
<1>2. /\ InFlight(c) /\ ~NeedsFreshFile /\ UNCHANGED <<status, linked>>
      /\ call' = [call EXCEPT ![c] = "error"]
  BY DEF WriteFails, Return, InFlight
<1>3. rest \in Seq(Bytes) /\ Len(rest) \in Nat /\ size \in Nat /\ status = "open"
  BY <1>2, FileInvParts, LenProperties DEF CallTypes, FileTypes, BusyIsOpen
<1>4. Len(Portion) \in 0 .. Len(rest) /\ Portion = SubSeq(rest, 1, Len(Portion))
  BY <1>3, PortionIs
<1>5. n \in 0 .. Len(rest) /\ n <= Len(Portion)
  BY <1>3, <1>4
<1>6. SubSeq(Portion, 1, n) = SubSeq(rest, 1, n)
  <2>1. CASE n = 0
    <3>1. SubSeq(Portion, 1, 0) = <<>> /\ SubSeq(rest, 1, 0) = <<>>
      BY SubSeqEmpty
    <3>2. QED
      BY <2>1, <3>1
  <2>2. CASE n > 0
    <3> DEFINE l == Len(Portion)
    <3>1. /\ 1 \in 1 .. Len(rest) /\ l \in 1 .. Len(rest)
          /\ 1 \in 1 .. l - 1 + 1 /\ n \in 1 .. l - 1 + 1
      BY <1>3, <1>4, <1>5, <2>2
    <3> HIDE DEF l
    <3>2. SubSeq(SubSeq(rest, 1, l), 1, n) = SubSeq(rest, 1 + 1 - 1, 1 + n - 1)
      BY <1>3, <3>1, SubSeqOfSubSeq
    <3>3. 1 + 1 - 1 = 1 /\ 1 + n - 1 = n
      BY <1>5
    <3>4. QED
      BY <1>4, <3>2, <3>3 DEF l
  <2>3. QED
    BY <1>5, <2>1, <2>2
<1>7. FileTakes(SubSeq(rest, 1, n))
  BY <1>1, <1>6
<1>8. LinesTogether'
  BY <1>2, <1>5, <1>7, GrowingKeepsLinesTogether
<1>9. OverlongIsOneLine'
  BY <1>2, <1>3, <1>5, <1>7, GrowingKeepsOverlong
<1>10. OpenIsLinked' /\ RestIsLines'
  BY <1>2, NoOtherChunk DEF LinesInv, OpenIsLinked, RestIsLines, InFlight
<1>11. QED
  BY <1>8, <1>9, <1>10 DEF LinesInv

LEMMA BeginWriteKeepsLines ==
  ASSUME FileInv, LinesInv, NEW c \in Calls, BeginWrite(c)
  PROVE  LinesInv'
<1>1. /\ MuFree /\ UNCHANGED <<log, disk, status, linked>> /\ CallTypes
      /\ \/ call' = [call EXCEPT ![c] = "closed"]
         \/ call' = [call EXCEPT ![c] = "top"] /\ rest' = Data[c]
  BY FileInvParts DEF BeginWrite, pastVars, fileVars
<1>2. \A d \in Calls : InFlight(d)' => d = c /\ rest' = Data[c]
  BY <1>1 DEF MuFree, InFlight, CallTypes
<1>3. 0 \in 0 .. Len(Data[c]) /\ Data[c] = SubSeq(Data[c], 0 + 1, Len(Data[c]))
  BY Basics, LenProperties, SubSeqFull
<1>4. RestIsLines'
  BY <1>2, <1>3 DEF RestIsLines
<1>5. OpenIsLinked' /\ LinesTogether' /\ OverlongIsOneLine'
  BY <1>1 DEF LinesInv, OpenIsLinked, LinesTogether, OverlongIsOneLine
<1>6. QED
  BY <1>4, <1>5 DEF LinesInv

LEMMA RotationKeepsLines ==
  ASSUME FileInv, LinesInv, NEW c \in Calls, Turn(c) \/ RotateForRoom(c)
  PROVE  LinesInv'
<1>1. UNCHANGED <<log, status>> /\ InFlight(c) /\ status = "open" /\ linked
  BY FileInvParts DEF Turn, RotateForRoom, pastVars, InFlight, BusyIsOpen, LinesInv, OpenIsLinked
<1>2. \/ call' = [call EXCEPT ![c] = "error"]
      \/ UNCHANGED rest /\ (\/ call' = [call EXCEPT ![c] = "chunk"]
                            \/ call' = [call EXCEPT ![c] = "top"])
  BY DEF Turn, RotateForRoom, RotateOrReturn, Return
<1>3. \A d \in Calls : InFlight(d)' => InFlight(d) /\ UNCHANGED rest
  BY <1>1, <1>2, NoOtherChunk DEF InFlight
<1>4. /\ DOMAIN disk \subseteq DOMAIN disk'
      /\ \A n \in DOMAIN disk : disk'[n] = disk[n]
      /\ \A n \in DOMAIN disk' \ DOMAIN disk : disk'[n] = <<>>
      /\ linked' \/ linked' = linked
  <2>1. ASSUME NEW now, NEW s, NEW q, NEW next, RotateOrReturn(c, now, s, q, next)
        PROVE  Open(now, s, q) \/ OpenFails(s, q)
    BY <2>1 DEF RotateOrReturn
  <2>2. CASE UNCHANGED <<disk, fileVars>>
    BY <2>2 DEF fileVars
  <2>3. CASE \E now, s, q, next : RotateOrReturn(c, now, s, q, next)
    BY <2>1, <2>3, OpeningIsQuiet
  <2>4. QED
    BY <2>2, <2>3 DEF Turn, RotateForRoom
<1>5. QED
  BY <1>1, <1>3, <1>4, QuietKeepsLines

LEMMA LinesStep ==
  ASSUME FileInv, LinesInv, [Next]_vars
  PROVE  LinesInv'
<1>1. ASSUME NEW c \in Calls, BeginWrite(c) PROVE LinesInv'
  BY <1>1, BeginWriteKeepsLines
<1>2. ASSUME NEW c \in Calls, WriteStep(c) PROVE LinesInv'
  BY <1>2, RotationKeepsLines, WritePortionKeepsLines, WriteFailsKeepsLines DEF WriteStep
<1>3. CASE Start
  <2>1. PICK q : \/ Open(clock, Truncate(Wall), q) /\ status' = "open"
                 \/ OpenFails(Truncate(Wall), q) /\ UNCHANGED status
    BY <1>3, Zenon DEF Start
  <2>2. UNCHANGED <<log, call, rest>> /\ status # "open"
    BY <1>3 DEF Start, callVars, pastVars
  <2>3. status' = "open" => linked'
    BY <2>1, <2>2 DEF Open
  <2>4. QED
    BY <2>1, <2>2, <2>3, OpeningIsQuiet, QuietKeepsLines DEF InFlight
<1>4. CASE Rotate
  <2>1. PICK s, q : Open(clock, s, q) \/ OpenFails(s, q)
    BY <1>4 DEF Rotate
  <2>2. UNCHANGED <<log, call, rest, status>>
    BY <1>4 DEF Rotate, callVars, pastVars
  <2>3. QED
    BY <2>1, <2>2, OpeningIsQuiet, QuietKeepsLines DEF InFlight, LinesInv, OpenIsLinked
<1>5. CASE Sync \/ CloseFile \/ Environment \/ UNCHANGED vars
  <2>1. UNCHANGED <<log, call, rest, disk, linked>> /\ (status' = "open" => status = "open")
    BY <1>5 DEF Sync, CloseFile, Environment, Tick, StepBack, vars, fileVars, callVars, pastVars
  <2>2. QED
    BY <2>1, QuietKeepsLines DEF InFlight, LinesInv, OpenIsLinked
<1>6. CASE Crash
  <2>1. /\ UNCHANGED <<log, disk>> /\ status' # "open"
        /\ \A c \in Calls : ~InFlight(c)'
    BY <1>6 DEF Crash, pastVars, InFlight
  <2>2. QED
    BY <2>1, QuietKeepsLines
<1>7. QED
  BY <1>1, <1>2, <1>3, <1>4, <1>5, <1>6 DEF Next, Serve

(* "Log lines are never split across files": two neighbouring bytes of a    *)
(* line that both reached a file are neighbours in one file, through every  *)
(* rotation, failed write and restart; and a file longer than MaxSize       *)
(* begins with a line longer than MaxSize.                                  *)
THEOREM LinesAreNeverSplit == Spec => []LinesStayWhole
<1>1. Init => LinesInv
  <2>1. ASSUME Init PROVE DOMAIN disk = {} /\ Range(log) = {}
    <3>1. log = <<>> /\ <<>> \in Seq(Bytes) /\ Len(<<>>) = 0
      BY <2>1, EmptySeq DEF Init
    <3>2. DOMAIN log = {}
      BY <3>1, LenProperties
    <3>3. QED
      BY <2>1, <3>2 DEF Init, Range
  <2>2. QED
    BY <2>1 DEF Init, LinesInv, OpenIsLinked, RestIsLines, LinesTogether, OverlongIsOneLine,
                InFlight
<1>2. FileInv /\ LinesInv /\ [Next]_vars => LinesInv'
  BY LinesStep
<1>3. LinesInv => LinesStayWhole
  BY DEF LinesInv, LinesTogether, OverlongIsOneLine, LinesStayWhole
<1>4. QED
  BY <1>1, <1>2, <1>3, FileInvHolds, PTL DEF Spec

-----------------------------------------------------------------------------
(* The order of the names.                                                 *)

Names == Midnights \X Nat

AtMost(m, n) == m = n \/ Older(m, n)

Sorted(s) == \A i, j \in DOMAIN s : i < j => Older(s[i], s[j])

(* Dates and sequence numbers order the names strictly.                     *)
StrictOrder(files, before) ==
    /\ \A m \in files : <<m, m>> \notin before
    /\ \A k, m, n \in files : <<k, m>> \in before /\ <<m, n>> \in before => <<k, n>> \in before
    /\ \A m, n \in files : m = n \/ <<m, n>> \in before \/ <<n, m>> \in before

LEMMA NamesAre ==
  /\ \A n \in Names : n[1] \in Nat /\ n[2] \in Nat /\ n = <<n[1], n[2]>>
  /\ \A s \in Midnights, q \in Nat : FileOf(s, q) \in Names
<1>1. ASSUME NEW n \in Names PROVE n[1] \in Nat /\ n[2] \in Nat /\ n = <<n[1], n[2]>>
  <2>1. PICK s \in Midnights, q \in Nat : n = <<s, q>>
    BY DEF Names
  <2>2. QED
    BY <2>1, Basics
<1>2. QED
  BY <1>1 DEF Names, FileOf

LEMMA OlderIs ==
  /\ \A n \in Names : ~Older(n, n)
  /\ \A k, m, n \in Names : Older(k, m) /\ Older(m, n) => Older(k, n)
  /\ \A m, n \in Names : m = n \/ Older(m, n) \/ Older(n, m)
  /\ \A m, n \in Names : ~(Older(m, n) /\ Older(n, m))
<1>1. \A n \in Names : n[1] \in Nat /\ n[2] \in Nat /\ n = <<n[1], n[2]>>
  BY NamesAre
<1>2. ASSUME NEW m \in Names, NEW n \in Names
      PROVE  /\ ~Older(n, n)
             /\ m = n \/ Older(m, n) \/ Older(n, m)
             /\ ~(Older(m, n) /\ Older(n, m))
  <2>1. m[1] = n[1] /\ m[2] = n[2] => m = n
    BY <1>1
  <2>2. m[1] \in Nat /\ m[2] \in Nat /\ n[1] \in Nat /\ n[2] \in Nat
    BY <1>1
  <2>3. QED
    BY <2>1, <2>2 DEF Older
<1>3. ASSUME NEW k \in Names, NEW m \in Names, NEW n \in Names, Older(k, m), Older(m, n)
      PROVE  Older(k, n)
  <2>1. /\ k[1] \in Nat /\ k[2] \in Nat /\ m[1] \in Nat /\ m[2] \in Nat
        /\ n[1] \in Nat /\ n[2] \in Nat
    BY <1>1
  <2>2. QED
    BY <1>3, <2>1 DEF Older
<1>4. QED
  BY <1>2, <1>3

LEMMA DatesAreStrict ==
  ASSUME NEW files \in SUBSET Names
  PROVE  StrictOrder(files, ByDate(files))
<1>1. \A m, n \in files : <<m, n>> \in ByDate(files) <=> Older(m, n)
  BY DEF ByDate
<1>2. QED
  BY <1>1, OlderIs DEF StrictOrder

-----------------------------------------------------------------------------
(* Sorting: how many come before an element tells the elements apart, so    *)
(* every place is taken, and by one element.                                *)
Before(n, files, before) == {m \in files : <<m, n>> \in before}

LEMMA PlacesAre ==
  ASSUME NEW files, NEW before, IsFiniteSet(files), StrictOrder(files, before)
  PROVE  /\ \A n \in files : Cardinality(Before(n, files, before)) \in 0 .. Cardinality(files) - 1
         /\ \A m, n \in files : <<m, n>> \in before =>
               Cardinality(Before(m, files, before)) < Cardinality(Before(n, files, before))
<1>1. Cardinality(files) \in Nat
  BY FS_CardinalityType
<1>2. ASSUME NEW n \in files
      PROVE  /\ IsFiniteSet(Before(n, files, before))
             /\ Cardinality(Before(n, files, before)) \in Nat
             /\ Cardinality(Before(n, files, before)) <= Cardinality(files) - 1
  <2>1. Before(n, files, before) \in SUBSET (files \ {n})
    BY DEF Before, StrictOrder
  <2>2. IsFiniteSet(files \ {n}) /\ Cardinality(files \ {n}) = Cardinality(files) - 1
    BY FS_RemoveElement
  <2>3. /\ IsFiniteSet(Before(n, files, before))
        /\ Cardinality(Before(n, files, before)) <= Cardinality(files \ {n})
    BY <2>1, <2>2, FS_Subset
  <2>4. QED
    BY <2>2, <2>3, FS_CardinalityType
<1>3. ASSUME NEW m \in files, NEW n \in files, <<m, n>> \in before
      PROVE  Cardinality(Before(m, files, before)) < Cardinality(Before(n, files, before))
  <2>1. /\ Before(m, files, before) \in SUBSET Before(n, files, before)
        /\ m \in Before(n, files, before) /\ m \notin Before(m, files, before)
    BY <1>3 DEF Before, StrictOrder
  <2>2. /\ Cardinality(Before(m, files, before)) <= Cardinality(Before(n, files, before))
        /\ Cardinality(Before(m, files, before)) # Cardinality(Before(n, files, before))
    BY <1>2, <2>1, FS_Subset
  <2>3. QED
    BY <1>2, <2>2
<1>4. QED
  BY <1>1, <1>2, <1>3

LEMMA InOrderIs ==
  ASSUME NEW files, NEW before, IsFiniteSet(files), StrictOrder(files, before),
         NEW s, s = InOrder(files, before)
  PROVE  /\ s \in Seq(files) /\ Range(s) = files
         /\ \A i, j \in DOMAIN s : i < j => <<s[i], s[j]>> \in before
<1> DEFINE place == [n \in files |-> Cardinality(Before(n, files, before))]
           N == Cardinality(files)
<1>1. N \in Nat
  BY FS_CardinalityType
<1>2. place \in [files -> 0 .. N - 1]
  BY PlacesAre
<1>3. \A m, n \in files : <<m, n>> \in before => place[m] < place[n]
  BY PlacesAre
<1>4. \A m, n \in files : place[m] = place[n] => m = n
  <2> HIDE DEF place, N
  <2> SUFFICES ASSUME NEW m \in files, NEW n \in files, place[m] = place[n] PROVE m = n
    OBVIOUS
  <2>1. place[m] \in Int /\ place[n] \in Int
    BY <1>1, <1>2
  <2>2. ~(place[m] < place[n]) /\ ~(place[n] < place[m])
    BY <2>1
  <2>3. QED
    BY <1>3, <2>2, Zenon DEF StrictOrder
<1>5. \A k \in 0 .. N - 1 : \E n \in files : place[n] = k
  <2>1. IsFiniteSet(0 .. N - 1) /\ Cardinality(0 .. N - 1) = N
    <3> HIDE DEF N
    <3> QED BY <1>1, FS_Interval
  <2>2. place \in Injection(files, 0 .. N - 1)
    <3> HIDE DEF place, N
    <3> QED BY <1>2, <1>4, Fun_IsInj
  <2> HIDE DEF place
  <2>3. place \in Surjection(files, 0 .. N - 1)
    BY <2>1, <2>2, FS_Injection
  <2>4. QED
    BY <2>3 DEF Surjection
<1>6. \A n \in files : place[n] = Cardinality({m \in files : <<m, n>> \in before})
  BY DEF Before
<1>7. s = [k \in 1 .. N |-> CHOOSE n \in files : place[n] = k - 1]
  <2>1. \A k \in 1 .. N : (CHOOSE n \in files : place[n] = k - 1)
          = CHOOSE n \in files : Cardinality({m \in files : <<m, n>> \in before}) = k - 1
    <3> HIDE DEF place
    <3> QED BY <1>6
  <2>2. QED
    BY <2>1 DEF InOrder
<1> HIDE DEF place, N
<1>8. \A k \in 1 .. N : s[k] \in files /\ place[s[k]] = k - 1
  <2> TAKE k \in 1 .. N
  <2>1. k - 1 \in 0 .. N - 1
    BY <1>1
  <2>2. \E n \in files : place[n] = k - 1
    BY <1>5, <2>1
  <2>3. QED
    BY <1>7, <2>2
<1>9. s \in Seq(files) /\ DOMAIN s = 1 .. N
  BY <1>1, <1>7, <1>8
<1>10. Range(s) = files
  <2>1. ASSUME NEW n \in files PROVE \E k \in 1 .. N : s[k] = n
    <3>1. place[n] \in 0 .. N - 1
      BY <1>2
    <3>2. place[n] + 1 \in 1 .. N /\ (place[n] + 1) - 1 = place[n]
      BY <1>1, <3>1
    <3>3. place[s[place[n] + 1]] = place[n] /\ s[place[n] + 1] \in files
      BY <1>8, <3>2
    <3>4. QED
      BY <1>4, <3>2, <3>3
  <2>2. QED
    BY <1>8, <1>9, <2>1 DEF Range
<1>11. ASSUME NEW i \in DOMAIN s, NEW j \in DOMAIN s, i < j PROVE <<s[i], s[j]>> \in before
  <2>1. s[i] \in files /\ s[j] \in files /\ place[s[i]] < place[s[j]] /\ i \in Int /\ j \in Int
        /\ place[s[i]] = i - 1 /\ place[s[j]] = j - 1
    BY <1>1, <1>8, <1>9, <1>11
  <2>2. s[i] # s[j] /\ ~(place[s[j]] < place[s[i]])
    BY <2>1
  <2>3. QED
    BY <1>3, <2>1, <2>2 DEF StrictOrder
<1>12. QED
  BY <1>9, <1>10, <1>11

LEMMA SortedByDate ==
  ASSUME NEW files \in SUBSET Names, IsFiniteSet(files), NEW s, s = InOrder(files, ByDate(files))
  PROVE  s \in Seq(Names) /\ Range(s) = files /\ Sorted(s)
<1>1. StrictOrder(files, ByDate(files))
  BY DatesAreStrict
<1>2. /\ s \in Seq(files) /\ Range(s) = files
      /\ \A i, j \in DOMAIN s : i < j => <<s[i], s[j]>> \in ByDate(files)
  BY <1>1, InOrderIs
<1>3. Sorted(s)
  <2>1. \A m, n : <<m, n>> \in ByDate(files) => Older(m, n)
    BY DEF ByDate
  <2>2. ASSUME NEW i \in DOMAIN s, NEW j \in DOMAIN s, i < j PROVE Older(s[i], s[j])
    BY <1>2, <2>1, <2>2
  <2>3. QED
    BY <2>2 DEF Sorted
<1>4. QED
  BY <1>2, <1>3, SeqMonotonic

LEMMA NothingListed ==
  <<>> \in Seq(Names) /\ Range(<<>>) = {} /\ Sorted(<<>>)
<1>1. <<>> \in Seq(Names) /\ DOMAIN <<>> = {}
  BY EmptySeq
<1>2. QED
  BY <1>1 DEF Range, Sorted

LEMMA AppendedIs ==
  ASSUME NEW s \in Seq(Names), NEW e \in Names
  PROVE  /\ Append(s, e) \in Seq(Names) /\ Range(Append(s, e)) = Range(s) \cup {e}
         /\ Sorted(s) /\ (\A n \in Range(s) : Older(n, e)) => Sorted(Append(s, e))
<1> DEFINE t == Append(s, e)
           l == Len(s)
<1>1. /\ l \in Nat /\ DOMAIN s = 1 .. l /\ t \in Seq(Names) /\ DOMAIN t = 1 .. l + 1
      /\ t[l + 1] = e /\ \A i \in 1 .. l : t[i] = s[i]
  BY LenProperties, AppendProperties
<1> HIDE DEF t, l
<1>2. \A i \in 1 .. l + 1 : i \in 1 .. l \/ i = l + 1
  BY <1>1
<1>3. \A i \in 1 .. l : i \in 1 .. l + 1
  BY <1>1
<1>4. l + 1 \in 1 .. l + 1
  BY <1>1
<1>5. Range(t) = Range(s) \cup {e}
  <2>1. Range(t) = {t[i] : i \in 1 .. l + 1} /\ Range(s) = {s[i] : i \in 1 .. l}
    BY <1>1 DEF Range
  <2>2. \A i \in 1 .. l + 1 : t[i] = e \/ \E j \in 1 .. l : s[j] = t[i]
    BY <1>1, <1>2
  <2>3. \A i \in 1 .. l : \E j \in 1 .. l + 1 : t[j] = s[i]
    BY <1>1, <1>3
  <2>4. \E j \in 1 .. l + 1 : t[j] = e
    BY <1>1, <1>4
  <2>5. QED
    BY <2>1, <2>2, <2>3, <2>4
<1>6. ASSUME Sorted(s), \A n \in Range(s) : Older(n, e),
             NEW i \in DOMAIN t, NEW j \in DOMAIN t, i < j
      PROVE  Older(t[i], t[j])
  <2>1. i \in 1 .. l /\ (j \in 1 .. l \/ j = l + 1)
    BY <1>1, <1>6
  <2>2. s[i] \in Range(s)
    BY <1>1, <2>1 DEF Range
  <2>3. QED
    BY <1>1, <1>6, <2>1, <2>2 DEF Sorted
<1>7. Sorted(s) /\ (\A n \in Range(s) : Older(n, e)) => Sorted(t)
  BY <1>6 DEF Sorted
<1>8. QED
  BY <1>1, <1>5, <1>7 DEF t

-----------------------------------------------------------------------------
(* The writer only goes forward, while the wall clock is not set back and   *)
(* every start can list the directory.                                      *)

(* No file is of a day that has not come, and the day of an open writer,    *)
(* which its stamp cache has reached, has come.                             *)
StampHasCome == status = "open" => cache # None /\ stamp <= cache /\ cache <= Wall
FilesHaveCome == \A n \in DOMAIN disk : n[1] <= Wall

ActiveIsNewest ==
    /\ stamp = None => DOMAIN disk = {}
    /\ \A n \in DOMAIN disk : AtMost(n, FileOf(stamp, seq))

TurnIsToday == \A c \in Calls : call[c] = "chunk" => turn.today = stamp

(* The wall clock was never set back, no start found the directory          *)
(* unreadable.                                                              *)
Steady == skew = 0 /\ scanFaults = 0

WriterGoesForward ==
    /\ StampHasCome /\ FilesHaveCome /\ ActiveIsNewest /\ TurnIsToday /\ OpenIsLinked

-----------------------------------------------------------------------------
(* What the writer does to the directory: its files stay, and it stays with *)
(* its own or moves on to a newer one.                                      *)
Stays == UNCHANGED <<stamp, seq>> /\ DOMAIN disk' = DOMAIN disk
Moves ==
    /\ stamp # None => Older(FileOf(stamp, seq), FileOf(stamp', seq'))
    /\ stamp' \in Midnights /\ seq' \in Nat
    /\ DOMAIN disk' = DOMAIN disk \cup {FileOf(stamp', seq')}

LEMMA ActiveIs ==
  ASSUME FileInv
  PROVE  /\ DOMAIN disk \subseteq Names /\ seq \in Nat /\ stamp \in Midnights \cup {None}
         /\ stamp # None => FileOf(stamp, seq) \in Names
<1>1. DiskTypes /\ FileTypes
  BY FileInvParts
<1>2. DOMAIN disk \subseteq Names /\ seq \in Nat /\ stamp \in Midnights \cup {None}
  BY <1>1, Basics DEF DiskTypes, FileTypes, Names
<1>3. QED
  BY <1>2, NamesAre

LEMMA FiniteStays ==
  ASSUME IsFiniteSet(DOMAIN disk), Stays \/ Moves
  PROVE  IsFiniteSet(DOMAIN disk')
BY FS_AddElement DEF Stays, Moves

LEMMA ActiveStaysNewest ==
  ASSUME FileInv, ActiveIsNewest, Stays \/ Moves
  PROVE  ActiveIsNewest'
<1>1. CASE Stays
  BY <1>1 DEF Stays, ActiveIsNewest
<1>2. CASE Moves
  <2>1. stamp' # None /\ FileOf(stamp', seq') \in Names
    BY <1>2, NamesAre, Basics DEF Moves
  <2>2. CASE stamp = None
    BY <1>2, <2>1, <2>2 DEF Moves, ActiveIsNewest, AtMost
  <2>3. CASE stamp # None
    <3>1. FileOf(stamp, seq) \in Names /\ DOMAIN disk \subseteq Names
      BY <2>3, ActiveIs
    <3>2. \A n \in DOMAIN disk : AtMost(n, FileOf(stamp', seq'))
      BY <1>2, <2>1, <2>3, <3>1, OlderIs DEF Moves, ActiveIsNewest, AtMost
    <3>3. QED
      BY <1>2, <2>1, <3>2 DEF Moves, ActiveIsNewest, AtMost
  <2>4. QED
    BY <2>2, <2>3
<1>3. QED
  BY <1>1, <1>2

LEMMA OpenMoves ==
  ASSUME FileInv, NEW now, NEW s \in Midnights, NEW q \in Nat, Open(now, s, q),
         stamp # None => stamp < s \/ (stamp = s /\ seq < q)
  PROVE  Moves /\ linked' = TRUE /\ stamp' = s /\ seq' = q
<1>1. /\ stamp' = s /\ seq' = q /\ linked' = TRUE
      /\ DOMAIN disk' = DOMAIN disk \cup {FileOf(s, q)}
  BY DEF Open
<1>2. stamp # None => Older(FileOf(stamp, seq), FileOf(s, q))
  BY DEF Older, FileOf
<1>3. QED
  BY <1>1, <1>2 DEF Moves

LEMMA OpenOrNotMoves ==
  ASSUME FileInv, NEW now, NEW s \in Midnights, NEW q \in Nat, Open(now, s, q) \/ OpenFails(s, q),
         stamp < s \/ (stamp = s /\ seq < q)
  PROVE  \/ Moves /\ linked' = TRUE /\ stamp' = s
         \/ Stays /\ linked' = linked /\ OpenFails(s, q)
<1>1. CASE Open(now, s, q)
  BY <1>1, OpenMoves
<1>2. CASE OpenFails(s, q)
  BY <1>2 DEF OpenFails, OpenFailsKeeping, fileVars, Stays
<1>3. QED
  BY <1>1, <1>2

(* The day a rotation opens a file for: the writer's own or a later one.    *)
LEMMA TodayIs ==
  ASSUME FileInv, StampHasCome, status = "open"
  PROVE  /\ StampOf(Wall) \in Midnights /\ StampOf(Wall) \in Nat /\ Wall \in Nat
         /\ stamp \in Nat /\ seq \in Nat
         /\ stamp <= StampOf(Wall) /\ StampOf(Wall) <= Wall
<1>1. ClockTypes /\ CacheTypes /\ FileTypes /\ WallIsNatural /\ OpenHasDay
  BY FileInvParts
<1>2. Wall \in Nat /\ StampOf(Wall) \in Midnights
  BY <1>1, StampIs
<1>3. stamp \in Midnights /\ stamp \in Nat /\ seq \in Nat
  BY <1>1, Basics DEF FileTypes, OpenHasDay
<1>4. cache \in Midnights /\ cache \in Nat /\ stamp <= cache /\ cache <= Wall
  BY <1>1, Basics DEF StampHasCome, CacheTypes
<1>5. CASE CacheCovers(Wall)
  <2>1. StampOf(Wall) = cache
    BY <1>5 DEF StampOf
  <2>2. QED
    BY <1>2, <1>3, <1>4, <2>1
<1>6. CASE ~CacheCovers(Wall)
  <2>1. StampOf(Wall) = Truncate(Wall)
    BY <1>6 DEF StampOf
  <2>2. /\ Truncate(Wall) \in Midnights /\ Truncate(Wall) \in Nat
        /\ Truncate(Wall) <= Wall /\ cache <= Truncate(Wall)
    BY <1>2, <1>4, TruncateIs, Basics
  <2>3. QED
    BY <1>2, <1>3, <1>4, <2>1, <2>2
<1>7. QED
  BY <1>5, <1>6

LEMMA FilesStayCome ==
  ASSUME FileInv, FilesHaveCome, Stays \/ (Moves /\ stamp' <= Wall'), Wall <= Wall',
         Wall \in Nat, Wall' \in Nat
  PROVE  FilesHaveCome'
<1>1. ASSUME NEW n \in DOMAIN disk PROVE n[1] <= Wall'
  <2>1. n[1] \in Nat /\ n[1] <= Wall
    BY NamesAre, ActiveIs DEF FilesHaveCome
  <2>2. QED
    BY <2>1
<1>2. Moves => FileOf(stamp', seq')[1] = stamp'
  BY DEF FileOf
<1>3. QED
  BY <1>1, <1>2 DEF Stays, Moves, FilesHaveCome

(* A rotation inside Write goes to the given day, or changes nothing.       *)
LEMMA RotationGoesForward ==
  ASSUME FileInv, WriterGoesForward, NEW c \in Calls, InFlight(c),
         NEW now, NEW s \in Midnights, NEW q \in Nat, NEW next \in {"top", "chunk"},
         RotateOrReturn(c, now, s, q, next),
         stamp < s \/ (stamp = s /\ seq < q), UNCHANGED <<status, clockVars>>,
         s <= cache', cache' <= Wall, cache' \in Midnights, stamp <= cache'
  PROVE  WriterGoesForward' /\ (Stays \/ Moves)
<1>1. status = "open" /\ CallTypes /\ ClockTypes /\ WallIsNatural /\ OpenHasDay /\ FileTypes
  BY FileInvParts DEF BusyIsOpen
<1>2. Wall \in Nat /\ Wall' = Wall
  BY <1>1, StampIs, FileInvParts DEF clockVars, Wall
<1>3. \/ Moves /\ linked' = TRUE /\ stamp' = s
      \/ Stays /\ linked' = linked /\ OpenFails(s, q)
  BY OpenOrNotMoves DEF RotateOrReturn
<1>4. s \in Nat /\ cache' \in Nat /\ stamp \in Nat /\ cache' # None
  BY <1>1, Basics DEF OpenHasDay, FileTypes
<1>5. StampHasCome' /\ OpenIsLinked'
  BY <1>1, <1>2, <1>3, <1>4 DEF StampHasCome, WriterGoesForward, OpenIsLinked, Stays
<1>6. FilesHaveCome'
  BY <1>2, <1>3, <1>4, FilesStayCome DEF WriterGoesForward
<1>7. ActiveIsNewest'
  BY <1>3, ActiveStaysNewest DEF WriterGoesForward
<1>8. TurnIsToday'
  <2>1. CASE OpenFails(s, q) /\ Return(c, "error")
    <3>1. call' = [call EXCEPT ![c] = "error"]
      BY <2>1 DEF Return
    <3>2. \A d \in Calls : call'[d] # "chunk"
      BY <3>1, NoOtherChunk
    <3>3. QED
      BY <3>2 DEF TurnIsToday
  <2>2. CASE /\ Open(now, s, q)
             /\ call' = [call EXCEPT ![c] = next]
             /\ turn' = IF next = "top" THEN NoTurn ELSE [now |-> now, wall |-> Wall, today |-> s]
    <3>1. stamp' = s
      BY <2>2 DEF Open
    <3>2. \A d \in Calls : call'[d] = "chunk" => next = "chunk"
      BY <2>2, NoOtherChunk
    <3>3. next = "chunk" => turn'.today = s
      BY <2>2
    <3>4. QED
      BY <3>1, <3>2, <3>3 DEF TurnIsToday
  <2>3. QED
    BY <2>1, <2>2 DEF RotateOrReturn
<1>9. QED
  BY <1>3, <1>5, <1>6, <1>7, <1>8 DEF WriterGoesForward

LEMMA TurnGoesForward ==
  ASSUME FileInv, WriterGoesForward, NEW c \in Calls, Turn(c)
  PROVE  WriterGoesForward' /\ (Stays \/ Moves)
<1> DEFINE today == StampOf(Wall)
<1>1. /\ call[c] = "top" /\ cache' = today
      /\ UNCHANGED <<clockVars, status>>
      /\ \/ today # stamp /\ RotateOrReturn(c, clock, today, BaseSeq, "chunk")
         \/ today = stamp /\ RotateOrReturn(c, clock, today, seq + 1, "chunk")
         \/ /\ today = stamp
            /\ call' = [call EXCEPT ![c] = "chunk"]
            /\ turn' = [now |-> clock, wall |-> Wall, today |-> today]
            /\ UNCHANGED <<disk, fileVars>>
  BY DEF Turn
<1>2. InFlight(c) /\ status = "open" /\ StampHasCome
  BY <1>1, FileInvParts DEF InFlight, BusyIsOpen, WriterGoesForward
<1>3. /\ today \in Midnights /\ today \in Nat /\ Wall \in Nat
      /\ stamp \in Nat /\ seq \in Nat /\ stamp <= today /\ today <= Wall
  BY <1>2, TodayIs
<1> HIDE DEF today
<1>4. CASE today # stamp /\ RotateOrReturn(c, clock, today, BaseSeq, "chunk")
  <2>1. stamp < today /\ BaseSeq \in Nat /\ today <= today
    BY <1>3, <1>4, Basics
  <2>2. QED
    BY <1>1, <1>2, <1>3, <1>4, <2>1, RotationGoesForward
<1>5. CASE today = stamp /\ RotateOrReturn(c, clock, today, seq + 1, "chunk")
  <2>1. seq < seq + 1 /\ seq + 1 \in Nat /\ today <= today
    BY <1>3
  <2>2. QED
    BY <1>1, <1>2, <1>3, <1>5, <2>1, RotationGoesForward
<1>6. CASE /\ today = stamp
           /\ call' = [call EXCEPT ![c] = "chunk"]
           /\ turn' = [now |-> clock, wall |-> Wall, today |-> today]
           /\ UNCHANGED <<disk, fileVars>>
  <2>1. Stays /\ linked' = linked /\ stamp' = stamp /\ Wall' = Wall /\ turn'.today = stamp'
    BY <1>1, <1>6 DEF Stays, fileVars, clockVars, Wall
  <2>2. Wall <= Wall' /\ Wall' \in Nat /\ cache' # None
    BY <1>1, <1>3, <2>1, Basics
  <2>3. FilesHaveCome' /\ ActiveIsNewest'
    BY <1>3, <2>1, <2>2, FilesStayCome, ActiveStaysNewest DEF WriterGoesForward
  <2>4. StampHasCome' /\ OpenIsLinked' /\ TurnIsToday'
    BY <1>1, <1>3, <2>1, <2>2
       DEF WriterGoesForward, StampHasCome, OpenIsLinked, TurnIsToday
  <2>5. QED
    BY <2>1, <2>3, <2>4 DEF WriterGoesForward
<1>7. QED
  BY <1>1, <1>4, <1>5, <1>6

LEMMA RotateForRoomGoesForward ==
  ASSUME FileInv, WriterGoesForward, NEW c \in Calls, RotateForRoom(c)
  PROVE  WriterGoesForward' /\ (Stays \/ Moves)
<1>1. /\ call[c] = "chunk" /\ RotateOrReturn(c, turn.now, turn.today, seq + 1, "top")
      /\ UNCHANGED <<clockVars, status, cache>>
  BY DEF RotateForRoom
<1>2. InFlight(c) /\ status = "open" /\ StampHasCome /\ turn.today = stamp
  BY <1>1, FileInvParts DEF InFlight, BusyIsOpen, WriterGoesForward, TurnIsToday
<1>3. stamp \in Midnights /\ stamp \in Nat /\ seq \in Nat /\ cache \in Midnights
  <2>1. FileTypes /\ OpenHasDay /\ CacheTypes
    BY FileInvParts
  <2>2. stamp # None /\ cache # None
    BY <1>2, <2>1 DEF OpenHasDay, StampHasCome
  <2>3. stamp \in Midnights /\ cache \in Midnights /\ seq \in Nat
    <3>1. stamp \in Midnights \cup {None} /\ seq \in 0 .. MaxSeq
      BY <2>1 DEF FileTypes
    <3>2. cache \in Midnights \cup {None}
      BY <2>1 DEF CacheTypes
    <3>3. QED
      BY <2>2, <3>1, <3>2
  <2>4. QED
    BY <2>3, Basics
<1>4. seq < seq + 1 /\ seq + 1 \in Nat /\ stamp <= cache' /\ cache' <= Wall /\ cache' \in Midnights
  BY <1>1, <1>2, <1>3 DEF StampHasCome
<1>5. QED
  BY <1>1, <1>2, <1>3, <1>4, RotationGoesForward

LEMMA RotateGoesForward ==
  ASSUME FileInv, WriterGoesForward, Rotate
  PROVE  WriterGoesForward' /\ (Stays \/ Moves)
<1> DEFINE today == StampOf(Wall)
<1>1. /\ MuFree /\ status = "open" /\ cache' = today
      /\ Open(clock, today, seq + 1) \/ OpenFails(today, seq + 1)
      /\ UNCHANGED <<clockVars, status, callVars>>
  BY DEF Rotate
<1>2. /\ today \in Midnights /\ today \in Nat /\ Wall \in Nat
      /\ stamp \in Nat /\ seq \in Nat /\ stamp <= today /\ today <= Wall
  BY <1>1, TodayIs DEF WriterGoesForward
<1> HIDE DEF today
<1>3. seq + 1 \in Nat /\ (stamp < today \/ (stamp = today /\ seq < seq + 1))
  BY <1>2
<1>4. \/ Moves /\ linked' = TRUE /\ stamp' = today
      \/ Stays /\ linked' = linked
  BY <1>1, <1>2, <1>3, OpenOrNotMoves
<1>5. Wall' = Wall /\ Wall' \in Nat /\ Wall <= Wall' /\ today <= Wall' /\ cache' # None
      /\ today <= today
  BY <1>1, <1>2, Basics DEF clockVars, Wall
<1>6. FilesHaveCome' /\ ActiveIsNewest'
  BY <1>2, <1>4, <1>5, FilesStayCome, ActiveStaysNewest DEF WriterGoesForward
<1>7. StampHasCome' /\ OpenIsLinked'
  BY <1>1, <1>2, <1>4, <1>5 DEF WriterGoesForward, StampHasCome, OpenIsLinked, Stays
<1>8. TurnIsToday'
  BY <1>1 DEF TurnIsToday, callVars, MuFree
<1>9. QED
  BY <1>4, <1>6, <1>7, <1>8 DEF WriterGoesForward

(* A write changes what a file holds, not which files there are.            *)
LEMMA TakingStays ==
  ASSUME FileInv, NEW bytes, FileTakes(bytes), UNCHANGED <<stamp, seq>>
  PROVE  Stays
BY DEF FileTakes, Stays

LEMMA QuietGoesForward ==
  ASSUME FileInv, WriterGoesForward, Stays, UNCHANGED <<clockVars, status, linked, cache>>,
         \A c \in Calls : call'[c] = "chunk" => call[c] = "chunk" /\ turn' = turn
  PROVE  WriterGoesForward'
<1>1. Wall' = Wall /\ Wall \in Nat
  BY StampIs, FileInvParts DEF clockVars, Wall
<1>2. Wall <= Wall' /\ Wall' \in Nat
  BY <1>1
<1>3. FilesHaveCome' /\ ActiveIsNewest'
  BY <1>1, <1>2, FilesStayCome, ActiveStaysNewest DEF WriterGoesForward
<1>4. StampHasCome' /\ OpenIsLinked' /\ TurnIsToday'
  BY <1>1 DEF WriterGoesForward, StampHasCome, OpenIsLinked, TurnIsToday, Stays
<1>5. QED
  BY <1>3, <1>4 DEF WriterGoesForward

LEMMA WriteGoesForward ==
  ASSUME FileInv, WriterGoesForward, NEW c \in Calls, BeginWrite(c) \/ WriteStep(c)
  PROVE  WriterGoesForward' /\ (Stays \/ Moves)
<1>1. CASE BeginWrite(c)
  <2>1. Stays /\ UNCHANGED <<clockVars, status, linked, cache, turn>>
    BY <1>1 DEF BeginWrite, Stays, fileVars
  <2>2. \A d \in Calls : call'[d] = "chunk" => call[d] = "chunk"
    BY <1>1, FileInvParts DEF BeginWrite, CallTypes
  <2>3. QED
    BY <2>1, <2>2, QuietGoesForward
<1>2. CASE WritePortion(c)
  <2>1. Stays /\ UNCHANGED <<clockVars, status, linked, cache>> /\ call[c] = "chunk"
    BY <1>2, TakingStays DEF WritePortion
  <2>2. PICK how \in {"ok", "top"} : call' = [call EXCEPT ![c] = how]
    BY <1>2 DEF WritePortion, Return
  <2>3. \A d \in Calls : call'[d] # "chunk"
    BY <2>1, <2>2, NoOtherChunk DEF InFlight
  <2>4. QED
    BY <2>1, <2>3, QuietGoesForward
<1>3. CASE WriteFails(c)
  <2>1. Stays /\ UNCHANGED <<clockVars, status, linked, cache>> /\ call[c] = "chunk"
    BY <1>3, TakingStays DEF WriteFails
  <2>2. call' = [call EXCEPT ![c] = "error"]
    BY <1>3 DEF WriteFails, Return
  <2>3. \A d \in Calls : call'[d] # "chunk"
    BY <2>1, <2>2, NoOtherChunk DEF InFlight
  <2>4. QED
    BY <2>1, <2>3, QuietGoesForward
<1>4. QED
  BY <1>1, <1>2, <1>3, TurnGoesForward, RotateForRoomGoesForward DEF WriteStep

LEMMA TickGoesForward ==
  ASSUME FileInv, WriterGoesForward, Tick
  PROVE  WriterGoesForward' /\ Stays
<1>1. /\ clock' = clock + 1 /\ skew' = skew
      /\ UNCHANGED <<disk, status, fileVars, cache, callVars>>
  BY DEF Tick
<1>2. Stays /\ UNCHANGED <<status, linked, stamp, cache, call, turn>>
  BY <1>1 DEF Stays, fileVars, callVars
<1>3. Wall \in Nat /\ Wall' = Wall + 1
  BY <1>1, StampIs, FileInvParts DEF Wall, ClockTypes
<1>4. Wall <= Wall' /\ Wall' \in Nat
  BY <1>3
<1>5. FilesHaveCome' /\ ActiveIsNewest'
  BY <1>2, <1>3, <1>4, FilesStayCome, ActiveStaysNewest DEF WriterGoesForward
<1>6. StampHasCome'
  <2>1. cache # None => cache \in Nat
    BY FileInvParts, Basics DEF CacheTypes
  <2>2. QED
    BY <1>2, <1>3, <2>1 DEF WriterGoesForward, StampHasCome
<1>7. OpenIsLinked' /\ TurnIsToday'
  BY <1>2 DEF WriterGoesForward, OpenIsLinked, TurnIsToday
<1>8. QED
  BY <1>2, <1>5, <1>6, <1>7 DEF WriterGoesForward

(* A start resumes the newest file of the last day that has come.           *)
LEMMA StartGoesForward ==
  ASSUME FileInv, WriterGoesForward, Start, Steady'
  PROVE  WriterGoesForward'
<1> DEFINE today == Truncate(Wall)
<1>1. PICK q \in {ResumeSeq(today), 0} :
        /\ IF q = ResumeSeq(today)
           THEN UNCHANGED scanFaults
           ELSE scanFaults < MaxScanFaults /\ scanFaults' = scanFaults + 1
        /\ \/ Open(clock, today, q) /\ status' = "open" /\ cache' = today
           \/ OpenFails(today, q) /\ UNCHANGED <<status, cache>>
  BY DEF Start
<1>2. status # "open" /\ UNCHANGED <<clockVars, callVars>>
  BY DEF Start
<1>3. /\ ClockTypes /\ DiskTypes /\ NumbersBounded /\ BoundTypes /\ WallIsNatural
  BY FileInvParts
<1>4. today \in Midnights /\ today \in Nat /\ Wall \in Nat /\ today <= Wall
      /\ \A m \in Midnights : m <= Wall => m <= today
  <2>1. Wall \in Nat
    BY FileInvParts, StampIs
  <2>2. QED
    BY <2>1, TruncateIs, Basics
<1> HIDE DEF today
<1>5. Wall' = Wall
  BY <1>2 DEF clockVars, Wall
<1>6. q = ResumeSeq(today)
  BY <1>1, <1>3 DEF Steady, BoundTypes
<1>7. q \in Nat /\ \A n \in OfDay(today) : n[2] <= q
  BY <1>3, <1>4, <1>6, ResumeIs
<1>8. \A c \in Calls : call[c] # "chunk"
  BY <1>2, FileInvParts DEF BusyIsOpen, InFlight
<1>9. TurnIsToday'
  BY <1>2, <1>8 DEF TurnIsToday, callVars
<1>10. CASE Open(clock, today, q) /\ status' = "open" /\ cache' = today
  <2>1. /\ stamp' = today /\ seq' = q /\ linked' = TRUE
        /\ DOMAIN disk' = DOMAIN disk \cup {FileOf(today, q)}
    BY <1>10 DEF Open
  <2>2. FileOf(today, q)[1] = today
    BY DEF FileOf
  <2>3. \A n \in DOMAIN disk : n \in Names /\ n[1] \in Midnights /\ n[1] <= Wall
    BY <1>3 DEF DiskTypes, Names, WriterGoesForward, FilesHaveCome
  <2>4. ASSUME NEW n \in DOMAIN disk PROVE AtMost(n, FileOf(today, q))
    <3>1. n[1] \in Nat /\ n[2] \in Nat /\ n = <<n[1], n[2]>> /\ n[1] <= today
      BY <1>4, <2>3, NamesAre
    <3>2. n[1] = today => n[2] <= q
      BY <1>7 DEF OfDay
    <3>3. n[1] = today /\ n[2] = q => n = FileOf(today, q)
      BY <3>1 DEF FileOf
    <3>4. n[1] < today \/ (n[1] = today /\ n[2] < q) \/ (n[1] = today /\ n[2] = q)
      BY <1>4, <1>7, <3>1, <3>2
    <3>5. QED
      BY <3>3, <3>4 DEF AtMost, Older, FileOf
  <2>5. ActiveIsNewest'
    BY <1>4, <2>1, <2>4, Basics DEF ActiveIsNewest, AtMost
  <2>6. FilesHaveCome'
    BY <1>4, <1>5, <2>1, <2>2, <2>3 DEF FilesHaveCome
  <2>7. today <= today /\ today # None
    BY <1>4, Basics
  <2>8. StampHasCome' /\ OpenIsLinked'
    BY <1>4, <1>5, <1>10, <2>1, <2>7 DEF StampHasCome, OpenIsLinked
  <2>9. QED
    BY <1>9, <2>1, <2>5, <2>6, <2>8 DEF WriterGoesForward
<1>11. CASE OpenFails(today, q) /\ UNCHANGED <<status, cache>>
  <2>1. UNCHANGED <<disk, stamp, seq>>
    BY <1>11 DEF OpenFails, OpenFailsKeeping, fileVars
  <2>2. ActiveIsNewest' /\ FilesHaveCome'
    BY <1>5, <2>1 DEF WriterGoesForward, ActiveIsNewest, FilesHaveCome
  <2>3. StampHasCome' /\ OpenIsLinked'
    BY <1>2, <1>11 DEF StampHasCome, OpenIsLinked
  <2>4. QED
    BY <1>9, <2>1, <2>2, <2>3 DEF WriterGoesForward
<1>12. QED
  BY <1>1, <1>10, <1>11

LEMMA EndGoesForward ==
  ASSUME FileInv, WriterGoesForward, CloseFile \/ Crash
  PROVE  WriterGoesForward' /\ Stays /\ UNCHANGED <<clockVars, faults, scanFaults>>
<1>1. /\ Stays /\ status' # "open" /\ UNCHANGED <<clockVars, stamp, disk, faults, scanFaults>>
      /\ (UNCHANGED callVars \/ \A c \in Calls : call'[c] # "chunk")
  BY DEF CloseFile, Crash, Stays, boundVars
<1>2. Wall' = Wall
  BY <1>1 DEF clockVars, Wall
<1>3. QED
  BY <1>1, <1>2 DEF WriterGoesForward, StampHasCome, FilesHaveCome, ActiveIsNewest, TurnIsToday,
                    OpenIsLinked, Stays, callVars

(* Faults are not forgotten.                                                *)
LEMMA FaultsStay ==
  ASSUME FileInv, Next
  PROVE  (Steady' => Steady) /\ (faults' = 0 => faults = 0)
<1> DEFINE Growing ==
             /\ skew' = skew \/ skew' = skew + 1
             /\ scanFaults' = scanFaults \/ scanFaults' = scanFaults + 1
             /\ faults' = faults \/ faults' = faults + 1
<1>1. faults \in Nat /\ scanFaults \in Nat /\ skew \in Nat
  BY FileInvParts, Basics DEF BoundTypes, ClockTypes
<1>2. Growing
  <2>1. CASE Start
    BY <2>1 DEF Start, Open, OpenFails, clockVars
  <2>2. ASSUME NEW c \in Calls, BeginWrite(c) PROVE Growing
    BY <2>2 DEF BeginWrite, clockVars, boundVars
  <2>3. ASSUME NEW c \in Calls, NEW now, NEW s, NEW q, NEW next, RotateOrReturn(c, now, s, q, next)
        PROVE  faults' = faults \/ faults' = faults + 1
    BY <2>3 DEF RotateOrReturn, Open, OpenFails
  <2>4. ASSUME NEW c \in Calls, Turn(c) PROVE Growing
    BY <2>3, <2>4 DEF Turn, clockVars
  <2>5. ASSUME NEW c \in Calls, RotateForRoom(c) PROVE Growing
    BY <2>3, <2>5 DEF RotateForRoom, clockVars
  <2>6. ASSUME NEW c \in Calls, WritePortion(c) \/ WriteFails(c) PROVE Growing
    BY <2>6 DEF WritePortion, WriteFails, clockVars, boundVars
  <2>7. CASE Rotate
    BY <2>7 DEF Rotate, Open, OpenFails, clockVars
  <2>8. CASE Sync \/ CloseFile \/ Crash \/ Environment
    BY <2>8 DEF Sync, CloseFile, Crash, Environment, Tick, StepBack, clockVars, boundVars
  <2>9. QED
    BY <2>1, <2>2, <2>4, <2>5, <2>6, <2>7, <2>8 DEF Next, Serve, WriteStep
<1>3. QED
  BY <1>1, <1>2 DEF Steady

-----------------------------------------------------------------------------
(* The files, read one after the other.                                     *)

(* A list of the files by their names, the newest last, that holds the log. *)
Contents(names) == [i \in 1 .. Len(names) |-> disk[names[i]]]
Reads(names) ==
    /\ names \in Seq(Names) /\ Range(names) = DOMAIN disk /\ Sorted(names)
    /\ FlattenSeq(Contents(names)) = log

Readable == \E names : Reads(names)

InOrderInv == Steady => WriterGoesForward /\ Readable

LEMMA ContentsAre ==
  ASSUME DiskTypes, NEW names \in Seq(Names), Range(names) = DOMAIN disk
  PROVE  /\ Contents(names) \in Seq(Seq(Bytes))
         /\ Len(Contents(names)) = Len(names) /\ Len(names) \in Nat
         /\ DOMAIN names = 1 .. Len(names)
         /\ \A i \in 1 .. Len(names) :
               names[i] \in DOMAIN disk /\ Contents(names)[i] = disk[names[i]]
<1>1. Len(names) \in Nat /\ DOMAIN names = 1 .. Len(names)
  BY LenProperties
<1>2. \A i \in 1 .. Len(names) : names[i] \in DOMAIN disk
  BY <1>1 DEF Range
<1>3. \A i \in 1 .. Len(names) : disk[names[i]] \in Seq(Bytes)
  BY <1>2 DEF DiskTypes
<1>4. QED
  BY <1>1, <1>2, <1>3 DEF Contents

LEMMA UnchangedIsReadable ==
  ASSUME FileInv, Readable, DOMAIN disk' = DOMAIN disk, \A n \in DOMAIN disk : disk'[n] = disk[n],
         UNCHANGED log
  PROVE  Readable'
<1>1. PICK names : Reads(names)
  BY DEF Readable
<1>2. \A i \in 1 .. Len(names) : names[i] \in DOMAIN disk
  BY <1>1, ContentsAre, FileInvParts DEF Reads
<1>3. Contents(names)' = Contents(names)
  BY <1>2 DEF Contents
<1>4. Reads(names)'
  BY <1>1, <1>3 DEF Reads
<1>5. QED
  BY <1>4 DEF Readable

(* createFile opens the newest file or makes one behind all others.         *)
LEMMA OpeningKeepsReadable ==
  ASSUME FileInv, Readable, NEW now, NEW s \in Midnights, NEW q \in Nat, Open(now, s, q),
         ActiveIsNewest', UNCHANGED log
  PROVE  Readable'
<1> DEFINE n == FileOf(s, q)
<1>1. /\ n \in Names /\ stamp' = s /\ seq' = q /\ DOMAIN disk' = DOMAIN disk \cup {n}
      /\ \A m \in DOMAIN disk' : disk'[m] = IF m \in DOMAIN disk THEN disk[m] ELSE <<>>
      /\ \A m \in DOMAIN disk : AtMost(m, n)
  <2>1. disk' = [m \in DOMAIN disk \cup {n} |-> IF Exists(m) THEN disk[m] ELSE <<>>]
        /\ stamp' = s /\ seq' = q
    BY DEF Open
  <2>2. \A m \in DOMAIN disk' : AtMost(m, FileOf(stamp', seq'))
    BY DEF ActiveIsNewest
  <2>3. QED
    BY <2>1, <2>2, NamesAre DEF Exists
<1> HIDE DEF n
<1>2. CASE n \in DOMAIN disk
  BY <1>1, <1>2, UnchangedIsReadable
<1>3. CASE n \notin DOMAIN disk
  <2>1. PICK names : Reads(names)
    BY DEF Readable
  <2> DEFINE more == Append(names, n)
  <2>2. \A m \in Range(names) : Older(m, n)
    BY <1>1, <1>3, <2>1 DEF Reads, AtMost
  <2>3. more \in Seq(Names) /\ Range(more) = DOMAIN disk' /\ Sorted(more)
    BY <1>1, <2>1, <2>2, AppendedIs DEF Reads
  <2>4. /\ Contents(names) \in Seq(Seq(Bytes)) /\ Len(Contents(names)) = Len(names)
        /\ Len(names) \in Nat
        /\ \A i \in 1 .. Len(names) :
              names[i] \in DOMAIN disk /\ Contents(names)[i] = disk[names[i]]
    BY <2>1, ContentsAre, FileInvParts DEF Reads
  <2>5. Len(more) = Len(names) + 1 /\ more[Len(names) + 1] = n
        /\ \A i \in 1 .. Len(names) : more[i] = names[i]
    BY <1>1, <2>1, AppendProperties DEF Reads
  <2> HIDE DEF more
  <2>6. Contents(more)' = Append(Contents(names), <<>>)
    <3>1. \A i \in 1 .. Len(names) + 1 : i \in 1 .. Len(names) \/ i = Len(names) + 1
      BY <2>4
    <3>2. \A i \in 1 .. Len(names) + 1 :
             disk'[more[i]] = IF i = Len(names) + 1 THEN <<>> ELSE Contents(names)[i]
      BY <1>1, <1>3, <2>4, <2>5, <3>1
    <3>3. <<>> \in Seq(Bytes)
      BY EmptySeq
    <3>4. \A t \in Seq(Seq(Bytes)), e \in Seq(Bytes) :
             Append(t, e) = [i \in 1 .. Len(t) + 1 |-> IF i = Len(t) + 1 THEN e ELSE t[i]]
      BY LastPlace
    <3>5. Append(Contents(names), <<>>) =
             [i \in 1 .. Len(names) + 1 |-> IF i = Len(names) + 1 THEN <<>> ELSE Contents(names)[i]]
      <4> DEFINE cs == Contents(names)
      <4>1. cs \in Seq(Seq(Bytes)) /\ Len(cs) = Len(names)
        BY <2>4
      <4> HIDE DEF cs
      <4>2. Append(cs, <<>>) = [i \in 1 .. Len(cs) + 1 |-> IF i = Len(cs) + 1 THEN <<>> ELSE cs[i]]
        BY <3>3, <3>4, <4>1, Zenon
      <4>3. Append(cs, <<>>) =
               [i \in 1 .. Len(names) + 1 |-> IF i = Len(names) + 1 THEN <<>> ELSE cs[i]]
        BY <4>1, <4>2
      <4>4. QED
        BY <4>3 DEF cs
    <3>6. QED
      BY <2>5, <3>2, <3>5 DEF Contents
  <2>7. FlattenSeq(Append(Contents(names), <<>>)) = FlattenSeq(Contents(names))
    <3>1. <<>> \in Seq(Bytes) /\ FlattenSeq(Contents(names)) \in Seq(Bytes)
      BY <2>4, FlattenPlaces, EmptySeq
    <3>2. FlattenSeq(Append(Contents(names), <<>>)) = FlattenSeq(Contents(names)) \o <<>>
      BY <2>4, <3>1, FlattenAppended
    <3>3. QED
      BY <3>1, <3>2, ConcatEmptySeq
  <2>8. FlattenSeq(Contents(more)') = log'
    BY <2>1, <2>6, <2>7 DEF Reads
  <2>9. QED
    BY <2>3, <2>8 DEF Readable, Reads
<1>4. QED
  BY <1>2, <1>3

(* A write appends to the newest file what it appends to the log.           *)
LEMMA TakingKeepsReadable ==
  ASSUME FileInv, Readable, OpenIsLinked, ActiveIsNewest, status = "open",
         NEW bytes \in Seq(Bytes), FileTakes(bytes)
  PROVE  Readable'
<1>1. PICK names : Reads(names)
  BY DEF Readable
<1>2. /\ file = FileOf(stamp, seq) /\ linked /\ file \in DOMAIN disk /\ log' = log \o bytes
      /\ disk' = [disk EXCEPT ![file] = disk[file] \o bytes] /\ DiskTypes
      /\ disk[file] \in Seq(Bytes)
  BY FileInvParts DEF OpenIsLinked, ActiveFile, Exists, FileTakes, DiskTypes
<1>3. /\ Contents(names) \in Seq(Seq(Bytes)) /\ Len(Contents(names)) = Len(names)
      /\ Len(names) \in Nat /\ DOMAIN names = 1 .. Len(names)
      /\ \A i \in 1 .. Len(names) :
            names[i] \in DOMAIN disk /\ Contents(names)[i] = disk[names[i]]
  BY <1>1, <1>2, ContentsAre DEF Reads
<1>4. PICK l \in 1 .. Len(names) : names[l] = file
  BY <1>1, <1>2, <1>3 DEF Reads, Range
<1>5. \A m \in DOMAIN disk : m \in Names /\ AtMost(m, file)
  BY <1>2, ActiveIs DEF ActiveIsNewest
<1>6. l = Len(names) /\ Len(names) - 1 \in Nat
  <2>1. ASSUME l < Len(names) PROVE FALSE
    <3>1. Len(names) \in 1 .. Len(names) /\ Len(names) \in DOMAIN names /\ l \in DOMAIN names
      BY <1>3, <1>4
    <3>2. Older(names[l], names[Len(names)])
      BY <1>1, <2>1, <3>1 DEF Reads, Sorted
    <3>3. AtMost(names[Len(names)], file) /\ names[Len(names)] \in Names /\ file \in Names
      BY <1>2, <1>3, <1>5, <3>1
    <3>4. QED
      BY <1>4, <3>2, <3>3, OlderIs DEF AtMost
  <2>2. QED
    BY <1>3, <1>4, <2>1
<1>7. \A i \in 1 .. Len(names) - 1 : i \in 1 .. Len(names) /\ names[i] # file
  <2>1. ASSUME NEW i \in 1 .. Len(names) - 1, names[i] = file PROVE FALSE
    <3>1. i \in DOMAIN names /\ l \in DOMAIN names /\ i < l
      BY <1>3, <1>6, <2>1
    <3>2. Older(file, file) /\ file \in Names
      BY <1>1, <1>2, <1>4, <1>5, <2>1, <3>1 DEF Reads, Sorted
    <3>3. QED
      BY <3>2, OlderIs
  <2>2. QED
    BY <1>3, <2>1
<1> DEFINE front == [i \in 1 .. Len(names) - 1 |-> disk[names[i]]]
<1>8. front \in Seq(Seq(Bytes)) /\ Len(front) = Len(names) - 1
  <2>1. \A i \in 1 .. Len(names) - 1 : disk[names[i]] \in Seq(Bytes)
    BY <1>2, <1>3, <1>7 DEF DiskTypes
  <2>2. QED
    BY <1>6, <2>1
<1>9. Contents(names) = Append(front, disk[file])
  BY <1>3, <1>4, <1>6, <1>8 DEF Contents
<1>10. Contents(names)' = Append(front, disk[file] \o bytes)
  <2>1. \A i \in 1 .. Len(names) : disk'[names[i]] =
             IF i = Len(names) THEN disk[file] \o bytes ELSE disk[names[i]]
    <3>1. \A i \in 1 .. Len(names) : i = Len(names) \/ i \in 1 .. Len(names) - 1
      BY <1>3
    <3>2. \A i \in 1 .. Len(names) - 1 : i # Len(names)
      BY <1>3
    <3>3. QED
      BY <1>2, <1>3, <1>4, <1>6, <1>7, <3>1, <3>2
  <2>2. Append(front, disk[file] \o bytes) =
             [i \in 1 .. Len(names) |->
                 IF i = Len(names) THEN disk[file] \o bytes ELSE disk[names[i]]]
    BY <1>3, <1>6, <1>8
  <2>3. QED
    BY <2>1, <2>2 DEF Contents
<1> HIDE DEF front
<1>11. FlattenSeq(Contents(names)') = log'
  <2>1. FlattenSeq(Append(front, disk[file] \o bytes))
          = FlattenSeq(Append(front, disk[file])) \o bytes
    <3>1. \A s \in Seq(Seq(Bytes)), e, b \in Seq(Bytes) :
             FlattenSeq(Append(s, e \o b)) = FlattenSeq(Append(s, e)) \o b
      BY FlattenGrown
    <3>2. QED
      BY <1>2, <1>8, <3>1, Zenon
  <2>2. FlattenSeq(Append(front, disk[file])) = log
    BY <1>1, <1>9 DEF Reads
  <2>3. QED
    BY <1>2, <1>10, <2>1, <2>2
<1>12. DOMAIN disk' = DOMAIN disk
  BY <1>2
<1>13. Reads(names)'
  BY <1>1, <1>11, <1>12 DEF Reads
<1>14. QED
  BY <1>13 DEF Readable

(* Names have only one sorted list.                                         *)
LEMMA SortedAgree ==
  ASSUME NEW s \in Seq(Names), NEW t \in Seq(Names), Sorted(s), Sorted(t), Range(s) = Range(t)
  PROVE  \A k \in 1 .. Len(s) : k \in 1 .. Len(t) /\ s[k] = t[k]
<1> DEFINE Bad == {k \in 1 .. Len(s) : ~(k \in 1 .. Len(t) /\ s[k] = t[k])}
<1>1. /\ Len(s) \in Nat /\ DOMAIN s = 1 .. Len(s) /\ Len(t) \in Nat /\ DOMAIN t = 1 .. Len(t)
      /\ \A i \in DOMAIN s : s[i] \in Names
      /\ \A i \in DOMAIN s : \E j \in DOMAIN t : t[j] = s[i]
      /\ \A j \in DOMAIN t : t[j] \in Names
      /\ \A j \in DOMAIN t : \E i \in DOMAIN s : s[i] = t[j]
  BY LenProperties, ElementOfSeq DEF Range
<1>2. SUFFICES ASSUME Bad # {} PROVE FALSE
  OBVIOUS
<1>3. PICK k \in Bad : \A i \in Bad : k <= i
  <2>1. Bad \in SUBSET Nat
    BY <1>1
  <2> HIDE DEF Bad
  <2>2. QED
    BY <1>2, <2>1, LeastNumber
<1>4. k \in DOMAIN s /\ k \in Int
  BY <1>1
<1>5. ASSUME NEW i \in Int, 1 <= i, i < k PROVE i \in DOMAIN s /\ i \in DOMAIN t /\ s[i] = t[i]
  BY <1>1, <1>3, <1>5
<1>6. PICK j \in DOMAIN t : t[j] = s[k]
  BY <1>1, <1>4
<1>7. k <= j /\ j \in Int
  <2>1. ASSUME j < k PROVE FALSE
    <3>1. j \in DOMAIN s /\ s[j] = s[k]
      BY <1>1, <1>5, <1>6, <2>1
    <3>2. Older(s[j], s[k]) /\ s[k] \in Names
      BY <1>1, <1>4, <2>1, <3>1 DEF Sorted
    <3>3. QED
      BY <3>1, <3>2, OlderIs
  <2>2. QED
    BY <1>1, <1>4, <2>1
<1>8. k \in DOMAIN t /\ k < j
  <2>1. k \in DOMAIN t
    BY <1>1, <1>4, <1>7
  <2>2. k # j
    BY <1>1, <1>3, <1>6, <2>1
  <2>3. QED
    BY <1>4, <1>7, <2>1, <2>2
<1>9. PICK i \in DOMAIN s : s[i] = t[k]
  BY <1>1, <1>8
<1>10. Older(t[k], s[k]) /\ t[k] \in Names /\ s[k] \in Names
  BY <1>1, <1>4, <1>6, <1>8 DEF Sorted
<1>11. k <= i /\ i \in Int
  <2>1. ASSUME i < k PROVE FALSE
    <3>1. i \in DOMAIN t /\ t[i] = t[k]
      <4>1. i \in Int /\ 1 <= i
        BY <1>1
      <4>2. i \in DOMAIN t /\ s[i] = t[i]
        BY <1>5, <2>1, <4>1
      <4>3. QED
        BY <1>9, <4>2
    <3>2. Older(t[i], t[k])
      BY <1>8, <2>1, <3>1 DEF Sorted
    <3>3. QED
      BY <1>10, <3>1, <3>2, OlderIs
  <2>2. QED
    BY <1>1, <1>4, <2>1
<1>12. CASE k = i
  BY <1>9, <1>10, <1>12, OlderIs
<1>13. CASE k < i
  <2>1. Older(s[k], t[k])
    BY <1>4, <1>9, <1>13 DEF Sorted
  <2>2. QED
    BY <1>10, <2>1, OlderIs
<1>14. QED
  BY <1>4, <1>11, <1>12, <1>13

LEMMA SortedIsUnique ==
  ASSUME NEW s \in Seq(Names), NEW t \in Seq(Names), Sorted(s), Sorted(t), Range(s) = Range(t)
  PROVE  s = t
<1>1. Len(s) \in Nat /\ Len(t) \in Nat
  BY LenProperties
<1>2. \A k \in 1 .. Len(s) : k \in 1 .. Len(t) /\ s[k] = t[k]
  BY SortedAgree
<1>3. \A k \in 1 .. Len(t) : k \in 1 .. Len(s)
  BY SortedAgree
<1>4. Len(s) = Len(t)
  <2>1. Len(s) > 0 => Len(s) \in 1 .. Len(t)
    BY <1>1, <1>2
  <2>2. Len(t) > 0 => Len(t) \in 1 .. Len(s)
    BY <1>1, <1>3
  <2>3. QED
    BY <1>1, <2>1, <2>2
<1>5. QED
  BY <1>2, <1>4, SeqEqual

LEMMA FinitelyMany ==
  ASSUME NEW s \in Seq(Names)
  PROVE  IsFiniteSet(Range(s))
<1>1. Len(s) \in Nat /\ DOMAIN s = 1 .. Len(s)
  BY LenProperties
<1>2. IsFiniteSet(1 .. Len(s))
  BY <1>1, FS_Interval
<1>3. s \in [1 .. Len(s) -> Range(s)] /\ \A n \in Range(s) : \E i \in 1 .. Len(s) : s[i] = n
  BY <1>1 DEF Range
<1>4. s \in Surjection(1 .. Len(s), Range(s))
  BY <1>3 DEF Surjection
<1>5. QED
  BY <1>2, <1>4, FS_Surjection

LEMMA ReadableIsInOrder ==
  ASSUME FileInv, Readable
  PROVE  LET names == InOrder(DOMAIN disk, ByDate(DOMAIN disk))
         IN  FlattenSeq([i \in 1 .. Len(names) |-> disk[names[i]]]) = log
<1> DEFINE sorted == InOrder(DOMAIN disk, ByDate(DOMAIN disk))
<1>1. PICK names : Reads(names)
  BY DEF Readable
<1>2. IsFiniteSet(DOMAIN disk) /\ DOMAIN disk \in SUBSET Names
  BY <1>1, FinitelyMany, ActiveIs DEF Reads
<1>3. sorted \in Seq(Names) /\ Range(sorted) = DOMAIN disk /\ Sorted(sorted)
  BY <1>2, SortedByDate
<1> HIDE DEF sorted
<1>4. sorted = names
  BY <1>1, <1>3, SortedIsUnique DEF Reads
<1>5. FlattenSeq(Contents(sorted)) = log
  BY <1>1, <1>4 DEF Reads
<1>6. QED
  BY <1>5 DEF sorted, Contents

LEMMA MovingKeepsReadable ==
  ASSUME FileInv, Readable, ActiveIsNewest', NEW now, NEW s \in Midnights, NEW q \in Nat,
         Open(now, s, q) \/ OpenFails(s, q), UNCHANGED log
  PROVE  Readable'
<1>1. CASE Open(now, s, q)
  BY <1>1, OpeningKeepsReadable
<1>2. CASE OpenFails(s, q)
  BY <1>2, UnchangedIsReadable DEF OpenFails
<1>3. QED
  BY <1>1, <1>2

LEMMA WriteKeepsReadable ==
  ASSUME FileInv, WriterGoesForward, WriterGoesForward', Readable, NEW c \in Calls,
         BeginWrite(c) \/ WriteStep(c)
  PROVE  Readable'
<1>1. CallTypes /\ FileTypes /\ ActiveIsNewest /\ ActiveIsNewest' /\ OpenIsLinked
  BY FileInvParts DEF WriterGoesForward
<1>2. CASE BeginWrite(c)
  BY <1>2, UnchangedIsReadable DEF BeginWrite, pastVars
<1>3. CASE Turn(c)
  <2>1. InFlight(c) /\ status = "open" /\ UNCHANGED log
    BY <1>3, FileInvParts DEF Turn, InFlight, BusyIsOpen, pastVars
  <2>2. StampOf(Wall) \in Midnights /\ seq + 1 \in Nat /\ BaseSeq \in Nat
    BY <1>1, <2>1, TodayIs, Basics DEF WriterGoesForward, FileTypes
  <2>3. \/ UNCHANGED disk
        \/ Open(clock, StampOf(Wall), BaseSeq) \/ OpenFails(StampOf(Wall), BaseSeq)
        \/ Open(clock, StampOf(Wall), seq + 1) \/ OpenFails(StampOf(Wall), seq + 1)
    BY <1>3 DEF Turn, RotateOrReturn
  <2>4. QED
    BY <1>1, <2>1, <2>2, <2>3, UnchangedIsReadable, MovingKeepsReadable
<1>4. CASE RotateForRoom(c)
  <2>1. call[c] = "chunk" /\ UNCHANGED log
        /\ (Open(turn.now, turn.today, seq + 1) \/ OpenFails(turn.today, seq + 1))
    BY <1>4 DEF RotateForRoom, RotateOrReturn, pastVars
  <2>2. turn.today \in Midnights /\ seq + 1 \in Nat
    BY <1>1, <2>1, FileInvParts, Basics DEF CallTypes, ChunkHasDay, FileTypes
  <2>3. QED
    BY <1>1, <2>1, <2>2, MovingKeepsReadable
<1>5. CASE WritePortion(c)
  <2>1. call[c] = "chunk" /\ FileTakes(Portion)
    BY <1>5 DEF WritePortion
  <2>2. Portion \in Seq(Bytes) /\ status = "open"
    BY <1>1, <2>1, PortionIs, FileInvParts DEF CallTypes, FileTypes, BusyIsOpen, InFlight
  <2>3. QED
    BY <1>1, <2>1, <2>2, TakingKeepsReadable
<1>6. CASE WriteFails(c)
  <2>1. PICK n \in 0 .. Len(Portion) - 1 : FileTakes(SubSeq(Portion, 1, n))
    BY <1>6 DEF WriteFails
  <2>2. Portion \in Seq(Bytes) /\ status = "open"
    BY <1>1, <1>6, PortionIs, FileInvParts
       DEF WriteFails, CallTypes, FileTypes, BusyIsOpen, InFlight
  <2>3. SubSeq(Portion, 1, n) \in Seq(Bytes)
    <3>1. Len(Portion) \in Nat
      BY <2>2, LenProperties
    <3>2. \A i \in 1 .. n : Portion[i] \in Bytes
      BY <2>2, <3>1, ElementOfSeq
    <3>3. QED
      BY <2>2, <3>1, <3>2, SubSeqProperties
  <2>4. QED
    BY <1>1, <2>1, <2>2, <2>3, TakingKeepsReadable
<1>7. QED
  BY <1>2, <1>3, <1>4, <1>5, <1>6 DEF WriteStep

LEMMA InOrderInit ==
  ASSUME Init
  PROVE  InOrderInv
<1>1. DOMAIN disk = {} /\ log = <<>> /\ status = "down" /\ \A c \in Calls : call[c] = "new"
  BY DEF Init
<1>2. WriterGoesForward
  BY <1>1 DEF WriterGoesForward, StampHasCome, FilesHaveCome, ActiveIsNewest, TurnIsToday,
              OpenIsLinked
<1>3. Reads(<<>>)
  <2>1. Contents(<<>>) = <<>>
    BY EmptySeq DEF Contents
  <2>2. FlattenSeq(<<>>) = <<>>
    BY DEF FlattenSeq
  <2>3. QED
    BY <1>1, <2>1, <2>2, NothingListed DEF Reads
<1>4. QED
  BY <1>2, <1>3 DEF InOrderInv, Readable

LEMMA InOrderStep ==
  ASSUME FileInv, InOrderInv, [Next]_vars
  PROVE  InOrderInv'
<1>1. CASE UNCHANGED vars
  <2>1. UNCHANGED <<disk, status, linked, stamp, seq, cache, call, turn, clock, skew, scanFaults, log>>
    BY <1>1 DEF vars, clockVars, fileVars, callVars, boundVars, pastVars
  <2>2. WriterGoesForward' = WriterGoesForward
    BY <2>1 DEF WriterGoesForward, StampHasCome, FilesHaveCome, ActiveIsNewest, TurnIsToday,
                OpenIsLinked, Wall
  <2>3. QED
    BY <2>1, <2>2, UnchangedIsReadable DEF InOrderInv, Steady
<1>2. SUFFICES ASSUME Next, Steady' PROVE WriterGoesForward' /\ Readable'
  BY <1>1 DEF InOrderInv
<1>3. WriterGoesForward /\ Readable
  BY <1>2, FaultsStay DEF InOrderInv
<1>4. CASE Start
  <2>1. WriterGoesForward'
    BY <1>2, <1>3, <1>4, StartGoesForward
  <2> DEFINE today == Truncate(Wall)
  <2>2. PICK q \in {ResumeSeq(today), 0} : Open(clock, today, q) \/ OpenFails(today, q)
    BY <1>4 DEF Start
  <2>3. today \in Midnights /\ q \in Nat
    <3>1. Wall \in Nat
      BY StampIs, FileInvParts
    <3>2. today \in Midnights
      BY <3>1, TruncateIs
    <3> HIDE DEF today
    <3>3. QED
      BY <3>2, FileInvParts, ResumeIs
  <2>4. UNCHANGED log /\ ActiveIsNewest'
    BY <1>4, <2>1 DEF Start, pastVars, WriterGoesForward
  <2> HIDE DEF today
  <2>5. QED
    BY <1>3, <2>1, <2>2, <2>3, <2>4, MovingKeepsReadable
<1>5. CASE \E c \in Calls : BeginWrite(c) \/ WriteStep(c)
  BY <1>3, <1>5, WriteGoesForward, WriteKeepsReadable
<1>6. CASE Rotate
  <2>1. WriterGoesForward'
    BY <1>3, <1>6, RotateGoesForward
  <2>2. /\ Open(clock, StampOf(Wall), seq + 1) \/ OpenFails(StampOf(Wall), seq + 1)
        /\ UNCHANGED log /\ status = "open"
    BY <1>6 DEF Rotate, pastVars
  <2>3. StampOf(Wall) \in Midnights /\ seq + 1 \in Nat
    BY <1>3, <2>2, TodayIs DEF WriterGoesForward
  <2>4. QED
    BY <1>3, <2>1, <2>2, <2>3, MovingKeepsReadable DEF WriterGoesForward
<1>7. CASE Sync
  <2>1. Stays /\ UNCHANGED <<clockVars, status, linked, cache, call, turn, disk, log>>
    BY <1>7 DEF Sync, Stays, fileVars, callVars
  <2>2. QED
    BY <1>3, <2>1, QuietGoesForward, UnchangedIsReadable
<1>8. CASE CloseFile \/ Crash
  <2>1. UNCHANGED <<disk, log>>
    BY <1>8 DEF CloseFile, Crash, pastVars
  <2>2. QED
    BY <1>3, <1>8, <2>1, EndGoesForward, UnchangedIsReadable
<1>9. CASE Tick
  <2>1. UNCHANGED <<disk, log>>
    BY <1>9 DEF Tick, pastVars
  <2>2. QED
    BY <1>3, <1>9, <2>1, TickGoesForward, UnchangedIsReadable
<1>10. CASE StepBack
  BY <1>2, <1>10, FileInvParts DEF StepBack, Steady, ClockTypes
<1>11. QED
  BY <1>2, <1>4, <1>5, <1>6, <1>7, <1>8, <1>9, <1>10 DEF Next, Serve, Environment

(* While the wall clock is not set back and every start can list the        *)
(* directory, the files read in the order of their names hold what was      *)
(* written, in the order it was written, however many rotations, failed     *)
(* opens and writes, crashes and restarts there were.                       *)
THEOREM FilesAreReadInOrder == Spec => []FilesReadInOrder
<1>1. Init => InOrderInv
  BY InOrderInit
<1>2. FileInv /\ InOrderInv /\ [Next]_vars => InOrderInv'
  BY InOrderStep
<1>3. FileInv /\ InOrderInv => FilesReadInOrder
  BY ReadableIsInOrder DEF InOrderInv, Steady, FilesReadInOrder
<1>4. QED
  BY <1>1, <1>2, <1>3, FileInvHolds, PTL DEF Spec
=============================================================================
