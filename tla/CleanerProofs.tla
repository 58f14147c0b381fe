---------------------------- MODULE CleanerProofs ----------------------------
(***************************************************************************)
(* The cleaner beside a running writer, for every set of limits, payloads   *)
(* and midnights: as long as the wall clock is not set back and no start    *)
(* found the directory unreadable, the file being written is the newest of  *)
(* the directory and everything a pass has judged is older, so that no      *)
(* pass removes it, the limits cost the oldest files first, and a pass      *)
(* nothing disturbed leaves the directory within them.                      *)
(***************************************************************************)
EXTENDS CleanerProps, RollingWriterProofs

-----------------------------------------------------------------------------
(* The listing orders the names too.                                      *)
LEMMA ListingIsStrict ==
  ASSUME NEW files \in SUBSET Names
  PROVE  StrictOrder(files, ByName(files))
<1>1. \A m, n \in files : <<m, n>> \in ByName(files) <=> ListedBefore(m, n)
  BY DEF ByName
<1>2. \A n \in files : n[1] \in Nat /\ n[2] \in Nat /\ n = <<n[1], n[2]>>
  BY NamesAre
<1>3. ASSUME NEW m \in files, NEW n \in files
      PROVE  ~ListedBefore(m, m) /\ (m = n \/ ListedBefore(m, n) \/ ListedBefore(n, m))
  <2>1. m[1] = n[1] /\ m[2] = n[2] => m = n
    BY <1>2
  <2>2. m[1] \in Nat /\ m[2] \in Nat /\ n[1] \in Nat /\ n[2] \in Nat
    BY <1>2
  <2>3. QED
    BY <2>1, <2>2 DEF ListedBefore
<1>4. ASSUME NEW k \in files, NEW m \in files, NEW n \in files,
             ListedBefore(k, m), ListedBefore(m, n)
      PROVE  ListedBefore(k, n)
  <2>1. /\ k[1] \in Nat /\ k[2] \in Nat /\ m[1] \in Nat /\ m[2] \in Nat
        /\ n[1] \in Nat /\ n[2] \in Nat
    BY <1>2
  <2>2. QED
    BY <1>4, <2>1 DEF ListedBefore
<1>5. QED
  BY <1>1, <1>3, <1>4 DEF StrictOrder

LEMMA ListedByName ==
  ASSUME NEW files \in SUBSET Names, IsFiniteSet(files), NEW s, s = InOrder(files, ByName(files))
  PROVE  s \in Seq(Names) /\ Range(s) = files
<1>1. StrictOrder(files, ByName(files))
  BY ListingIsStrict
<1>2. s \in Seq(files) /\ Range(s) = files
  BY <1>1, InOrderIs
<1>3. QED
  BY <1>2, SeqMonotonic

-----------------------------------------------------------------------------
(* What becomes of a sorted list as a phase works through it.               *)
LEMMA FirstOf ==
  ASSUME NEW s \in Seq(Names), s # <<>>
  PROVE  /\ Head(s) \in Names /\ Tail(s) \in Seq(Names)
         /\ Range(s) = {Head(s)} \cup Range(Tail(s))
         /\ Sorted(s) => Sorted(Tail(s)) /\ \A n \in Range(Tail(s)) : Older(Head(s), n)
<1> DEFINE t == Tail(s)
           l == Len(s)
<1>1. /\ l \in Nat /\ l > 0 /\ DOMAIN s = 1 .. l /\ Head(s) = s[1]
  BY EmptySeq, LenProperties
<1>2. /\ Head(s) \in Names /\ t \in Seq(Names) /\ DOMAIN t = 1 .. l - 1
      /\ \A i \in 1 .. l - 1 : t[i] = s[i + 1]
  BY HeadTailProperties, LenProperties
<1> HIDE DEF t, l
<1>3. Range(s) = {Head(s)} \cup Range(t)
  <2>1. \A i \in 1 .. l : i = 1 \/ (i - 1 \in 1 .. l - 1 /\ (i - 1) + 1 = i)
    BY <1>1
  <2>2. \A i \in 1 .. l - 1 : i + 1 \in 1 .. l
    BY <1>1
  <2>3. Range(t) = {t[i] : i \in 1 .. l - 1} /\ Range(s) = {s[i] : i \in 1 .. l}
    BY <1>1, <1>2 DEF Range
  <2>4. ASSUME NEW i \in 1 .. l PROVE s[i] = Head(s) \/ \E j \in 1 .. l - 1 : t[j] = s[i]
    BY <1>1, <1>2, <2>1
  <2>5. \A i \in 1 .. l - 1 : \E j \in 1 .. l : s[j] = t[i]
    BY <1>2, <2>2
  <2>6. 1 \in 1 .. l
    BY <1>1
  <2>7. QED
    BY <1>1, <2>3, <2>4, <2>5, <2>6
<1>4. ASSUME Sorted(s) PROVE Sorted(t)
  <2>1. \A i \in 1 .. l - 1 : i + 1 \in DOMAIN s
    BY <1>1
  <2>2. \A i, j \in 1 .. l - 1 : i < j => i + 1 < j + 1
    BY <1>1
  <2>3. QED
    BY <1>2, <1>4, <2>1, <2>2 DEF Sorted
<1>5. ASSUME Sorted(s) PROVE \A n \in Range(t) : Older(Head(s), n)
  <2>1. \A i \in 1 .. l - 1 : i + 1 \in DOMAIN s /\ 1 \in DOMAIN s /\ 1 < i + 1
    BY <1>1
  <2>2. QED
    BY <1>1, <1>2, <1>5, <2>1 DEF Sorted, Range
<1>6. QED
  BY <1>2, <1>3, <1>4, <1>5 DEF t

LEMMA CutInTwo ==
  ASSUME NEW s \in Seq(Names), NEW k \in 0 .. Len(s)
  PROVE  /\ SubSeq(s, 1, k) \in Seq(Names) /\ SubSeq(s, k + 1, Len(s)) \in Seq(Names)
         /\ Range(s) = Range(SubSeq(s, 1, k)) \cup Range(SubSeq(s, k + 1, Len(s)))
         /\ Sorted(s) => /\ Sorted(SubSeq(s, 1, k))
                         /\ \A m \in Range(SubSeq(s, 1, k)) :
                               \A n \in Range(SubSeq(s, k + 1, Len(s))) : Older(m, n)
<1> DEFINE a == SubSeq(s, 1, k)
           b == SubSeq(s, k + 1, Len(s))
<1> SUFFICES /\ a \in Seq(Names) /\ b \in Seq(Names) /\ Range(s) = Range(a) \cup Range(b)
             /\ Sorted(s) => Sorted(a) /\ \A m \in Range(a) : \A n \in Range(b) : Older(m, n)
  OBVIOUS
<1>0. a = SubSeq(s, 1, k) /\ b = SubSeq(s, k + 1, Len(s))
  OBVIOUS
<1> HIDE DEF a, b
<1> DEFINE l == Len(s)
<1>1. l \in Nat /\ DOMAIN s = 1 .. l /\ \A i \in 1 .. l : s[i] \in Names
  BY LenProperties, ElementOfSeq
<1> HIDE DEF l
<1>2. k \in Nat /\ k <= l
  BY <1>1 DEF l
<1>3. a \in Seq(Names) /\ DOMAIN a = 1 .. k /\ \A i \in 1 .. k : a[i] = s[i]
  <2>1. \A i \in 1 .. k : s[i] \in Names
    BY <1>1, <1>2
  <2>2. /\ a \in Seq(Names) /\ Len(a) = IF 1 <= k THEN k - 1 + 1 ELSE 0
        /\ \A i \in 1 .. k - 1 + 1 : a[i] = s[1 + i - 1]
    BY <1>0, <1>2, <2>1, SubSeqProperties
  <2>3. Len(a) = k
    BY <1>2, <2>2
  <2>4. \A i \in 1 .. k : i \in 1 .. k - 1 + 1 /\ 1 + i - 1 = i
    BY <1>2
  <2>5. QED
    BY <2>2, <2>3, <2>4, LenProperties
<1>4. b \in Seq(Names) /\ DOMAIN b = 1 .. l - k /\ \A i \in 1 .. l - k : b[i] = s[k + i]
  <2>1. \A i \in k + 1 .. l : s[i] \in Names
    BY <1>1, <1>2
  <2>2. /\ b \in Seq(Names) /\ Len(b) = IF k + 1 <= l THEN l - (k + 1) + 1 ELSE 0
        /\ \A i \in 1 .. l - (k + 1) + 1 : b[i] = s[(k + 1) + i - 1]
    BY <1>0, <1>1, <1>2, <2>1, SubSeqProperties DEF l
  <2>3. Len(b) = l - k
    BY <1>1, <1>2, <2>2
  <2>4. \A i \in 1 .. l - k : i \in 1 .. l - (k + 1) + 1 /\ (k + 1) + i - 1 = k + i
    BY <1>1, <1>2
  <2>5. QED
    BY <2>2, <2>3, <2>4, LenProperties
<1>5. Range(s) = Range(a) \cup Range(b)
  <2>1. /\ Range(s) = {s[i] : i \in 1 .. l} /\ Range(a) = {a[i] : i \in 1 .. k}
        /\ Range(b) = {b[i] : i \in 1 .. l - k}
    BY <1>1, <1>3, <1>4 DEF Range
  <2>2. ASSUME NEW i \in 1 .. l
        PROVE  (\E j \in 1 .. k : a[j] = s[i]) \/ \E j \in 1 .. l - k : b[j] = s[i]
    <3>1. CASE i <= k
      <4>1. i \in 1 .. k
        BY <1>1, <1>2, <3>1
      <4>2. QED
        BY <1>3, <4>1
    <3>2. CASE i > k
      <4>1. i - k \in 1 .. l - k /\ k + (i - k) = i
        BY <1>1, <1>2, <3>2
      <4>2. QED
        BY <1>4, <4>1
    <3>3. i <= k \/ i > k
      BY <1>1, <1>2
    <3>4. QED
      BY <3>1, <3>2, <3>3
  <2>3. \A j \in 1 .. k : j \in 1 .. l
    BY <1>1, <1>2
  <2>4. \A j \in 1 .. l - k : k + j \in 1 .. l
    BY <1>1, <1>2
  <2>5. \A j \in 1 .. k : \E i \in 1 .. l : s[i] = a[j]
    BY <1>3, <2>3
  <2>6. \A j \in 1 .. l - k : \E i \in 1 .. l : s[i] = b[j]
    BY <1>4, <2>4
  <2>7. QED
    BY <2>1, <2>2, <2>5, <2>6
<1>6. ASSUME Sorted(s) PROVE Sorted(a)
  <2>1. \A j \in 1 .. k : j \in 1 .. l
    BY <1>1, <1>2
  <2>2. QED
    BY <1>1, <1>3, <1>6, <2>1 DEF Sorted
<1>7. ASSUME Sorted(s), NEW i \in 1 .. k, NEW j \in 1 .. l - k PROVE Older(a[i], b[j])
  <2>1. i \in 1 .. l /\ k + j \in 1 .. l /\ i < k + j
    BY <1>1, <1>2
  <2>2. Older(s[i], s[k + j])
    BY <1>1, <1>7, <2>1 DEF Sorted
  <2>3. QED
    BY <1>3, <1>4, <2>2
<1>8. Sorted(s) => \A m \in Range(a) : \A n \in Range(b) : Older(m, n)
  <2>1. Range(a) = {a[i] : i \in 1 .. k} /\ Range(b) = {b[i] : i \in 1 .. l - k}
    BY <1>3, <1>4 DEF Range
  <2>2. QED
    BY <1>7, <2>1
<1>9. QED
  BY <1>3, <1>4, <1>5, <1>6, <1>8
-----------------------------------------------------------------------------
(* The invariant.                                                          *)

(* The lists of a pass and what the phase leaves empty.                     *)
ListTypes ==
    /\ todo \in Seq(Names) /\ kept \in Seq(Names)
    /\ spare \in Seq(Names) /\ doomed \in Seq(Names)

PassShape ==
    /\ pass \in {"none", "loop", "close"}
    /\ phase \in {"none", "age", "count", "total", "dir", "done"}
    /\ pass = "none" <=> phase = "none"
    /\ phase \in {"none", "done"} => todo = <<>> /\ spare = <<>> /\ doomed = <<>>
    /\ phase = "none" => kept = <<>>
    /\ phase # "count" => spare = <<>>
    /\ phase = "count" /\ (todo # <<>> \/ spare # <<>>) =>
          budget \in Nat /\ doomed = <<>>

(* A pass runs beside an open writer, or is the last one of a Close.        *)
PassHasWriter ==
    /\ pass # "none" => status = "open" \/ closing = "wait"
    /\ closing = "wait" => status = "closed"
    /\ loop \in {"none", "run", "exited"}
    /\ loop = "run" => status = "open" \/ closing = "wait"
    /\ pass = "close" => loop # "run"

(* A file that was judged removable is older than the one being written,    *)
(* and stays so, as the writer only goes forward.                           *)
ListsBehind ==
    /\ pass # "none" => stamp # None
    /\ \A n \in Range(todo) \cup Range(kept) : AtMost(n, FileOf(stamp, seq))
    /\ \A n \in Range(spare) \cup Range(doomed) : Older(n, FileOf(stamp, seq))

(* While every removal succeeds, a pass has listed all the files but newer  *)
(* ones, and after the age phase the lists lie in the order of the dates:   *)
(* first what is about to be removed, then what may be, then what is kept.  *)
Listed == Range(todo) \cup Range(kept) \cup Range(spare) \cup Range(doomed)
Covered ==
    pass # "none" => \A m \in DOMAIN disk : m \in Listed \/ \A x \in Listed : Older(x, m)
InSequence ==
    phase \in {"count", "total", "dir"} =>
        /\ Sorted(todo) /\ Sorted(spare) /\ Sorted(doomed)
        /\ \A x \in Range(doomed) :
              \A y \in Range(spare) \cup Range(todo) \cup Range(kept) : Older(x, y)
        /\ \A x \in Range(spare), y \in Range(todo) : Older(x, y)
        /\ (phase = "count" \/ budget > 0) =>
              \A x \in Range(spare) \cup Range(todo), y \in Range(kept) : Older(x, y)

CleanerInv ==
    /\ FileInv
    /\ IsFiniteSet(DOMAIN disk) /\ ListTypes /\ PassShape /\ PassHasWriter
    /\ Steady => WriterGoesForward /\ ListsBehind
    /\ Steady /\ faults = 0 => Covered /\ InSequence

LEMMA CleanerInvInit ==
  ASSUME CleanerInit
  PROVE  CleanerInv
<1>1. FileInv
  BY FileInvInit DEF CleanerInit
<1>2. DOMAIN disk = {} /\ status = "down" /\ stamp = None /\ \A c \in Calls : call[c] = "new"
  BY DEF CleanerInit, Init
<1>3. IsFiniteSet(DOMAIN disk)
  BY <1>2, FS_EmptySet
<1>4. /\ todo = <<>> /\ kept = <<>> /\ spare = <<>> /\ doomed = <<>> /\ pass = "none"
      /\ phase = "none" /\ loop = "none" /\ closing = "no" /\ budget = 0
  BY DEF CleanerInit
<1>5. ListTypes /\ PassShape /\ PassHasWriter
  BY <1>2, <1>4, NothingListed DEF ListTypes, PassShape, PassHasWriter
<1>6. WriterGoesForward
  BY <1>2 DEF WriterGoesForward, StampHasCome, FilesHaveCome, ActiveIsNewest, TurnIsToday,
              OpenIsLinked
<1>7. ListsBehind /\ Covered /\ InSequence
  BY <1>4, NothingListed DEF ListsBehind, Covered, InSequence
<1>8. QED
  BY <1>1, <1>3, <1>5, <1>6, <1>7 DEF CleanerInv

LEMMA ListsStayBehind ==
  ASSUME FileInv, ListTypes, ListsBehind, UNCHANGED passVars, Stays \/ Moves,
         pass = "none" => PassShape
  PROVE  ListsBehind'
<1>1. UNCHANGED <<pass, todo, kept, spare, doomed>>
  BY DEF passVars
<1>2. CASE Stays
  BY <1>1, <1>2 DEF Stays, ListsBehind
<1>3. CASE Moves /\ pass # "none"
  <2>1. /\ stamp # None /\ stamp' # None /\ FileOf(stamp, seq) \in Names
        /\ FileOf(stamp', seq') \in Names
    BY <1>3, NamesAre, ActiveIs, Basics DEF Moves, ListsBehind
  <2>2. Older(FileOf(stamp, seq), FileOf(stamp', seq'))
    BY <1>3, <2>1 DEF Moves
  <2>3. \A n \in Range(todo) \cup Range(kept) \cup Range(spare) \cup Range(doomed) : n \in Names
    BY RangeOfSeq DEF ListTypes
  <2>4. QED
    BY <1>1, <2>1, <2>2, <2>3, OlderIs DEF ListsBehind, AtMost
<1>4. CASE pass = "none"
  <2>1. todo = <<>> /\ kept = <<>> /\ spare = <<>> /\ doomed = <<>>
    BY <1>4 DEF PassShape
  <2>2. QED
    BY <1>1, <1>4, <2>1, NothingListed DEF ListsBehind
<1>5. QED
  BY <1>2, <1>3, <1>4

LEMMA ListsStayCovering ==
  ASSUME FileInv, ListTypes, ListsBehind, Covered, UNCHANGED passVars, Stays \/ Moves
  PROVE  Covered'
<1>1. UNCHANGED <<pass, todo, kept, spare, doomed>>
  BY DEF passVars
<1>2. Listed' = Listed
  BY <1>1 DEF Listed
<1>3. CASE Stays
  BY <1>1, <1>2, <1>3 DEF Stays, Covered
<1>4. CASE Moves /\ pass # "none"
  <2>1. /\ stamp # None /\ stamp' # None /\ FileOf(stamp, seq) \in Names
        /\ FileOf(stamp', seq') \in Names
    BY <1>4, NamesAre, ActiveIs, Basics DEF Moves, ListsBehind
  <2>2. Older(FileOf(stamp, seq), FileOf(stamp', seq'))
    BY <1>4, <2>1 DEF Moves
  <2>3. \A n \in Listed : n \in Names /\ AtMost(n, FileOf(stamp, seq))
    BY RangeOfSeq DEF ListTypes, Listed, ListsBehind, AtMost
  <2>4. \A n \in Listed : Older(n, FileOf(stamp', seq'))
    BY <2>1, <2>2, <2>3, OlderIs DEF AtMost
  <2>5. QED
    BY <1>1, <1>2, <1>4, <2>4 DEF Covered, Moves
<1>5. CASE pass = "none"
  BY <1>1, <1>5 DEF Covered
<1>6. QED
  BY <1>3, <1>4, <1>5
-----------------------------------------------------------------------------
(* The steps of the writer, seen from the cleaner.                          *)
LEMMA ShapeStays ==
  ASSUME ListTypes, PassShape, UNCHANGED passVars
  PROVE  ListTypes' /\ PassShape'
BY DEF ListTypes, PassShape, passVars

LEMMA SequenceStays ==
  ASSUME InSequence, UNCHANGED passVars
  PROVE  InSequence'
BY DEF InSequence, passVars

LEMMA WriterRunsKeepsInv ==
  ASSUME CleanerInv, WriterRuns
  PROVE  CleanerInv'
<1>1. UNCHANGED <<loop, closing, pass>> /\ UNCHANGED passVars
  BY DEF WriterRuns, passVars
<1>2. Next
  BY DEF WriterRuns, Next, Serve
<1>3. FileInv /\ FileInv' /\ ListTypes /\ PassShape /\ PassHasWriter /\ IsFiniteSet(DOMAIN disk)
  BY <1>2, FileInvStep DEF CleanerInv
<1>4. ListTypes' /\ PassShape'
  BY <1>1, <1>3, ShapeStays
<1>5. status' = status
  BY DEF WriterRuns, BeginWrite, WriteStep, Turn, RotateForRoom, WritePortion, WriteFails, Rotate,
         Environment, Tick, StepBack
<1>6. PassHasWriter'
  BY <1>1, <1>3, <1>5 DEF PassHasWriter
<1>7. (Steady' => Steady) /\ (faults' = 0 => faults = 0)
  BY <1>2, <1>3, FaultsStay
<1>8. IsFiniteSet(DOMAIN disk')
  <2>1. ASSUME NEW now, NEW s, NEW q, Open(now, s, q) \/ OpenFails(s, q)
        PROVE  IsFiniteSet(DOMAIN disk')
    BY <1>3, <2>1, FS_AddElement DEF Open, OpenFails
  <2>2. ASSUME NEW bytes, FileTakes(bytes) PROVE IsFiniteSet(DOMAIN disk')
    BY <1>3, <2>2 DEF FileTakes
  <2>3. ASSUME NEW c \in Calls, BeginWrite(c) \/ WriteStep(c) PROVE IsFiniteSet(DOMAIN disk')
    BY <1>3, <2>1, <2>2, <2>3
       DEF BeginWrite, WriteStep, Turn, RotateForRoom, WritePortion, WriteFails, RotateOrReturn
  <2>4. CASE Rotate
    BY <2>1, <2>4 DEF Rotate
  <2>5. CASE Environment
    BY <1>3, <2>5 DEF Environment, Tick, StepBack
  <2>6. QED
    BY <2>3, <2>4, <2>5 DEF WriterRuns
<1>9. ASSUME Steady' PROVE WriterGoesForward' /\ (Stays \/ Moves)
  <2>1. WriterGoesForward
    BY <1>7, <1>9 DEF CleanerInv
  <2>2. ~StepBack
    <3>1. skew \in Nat /\ skew' \in Nat
      BY <1>3, FileInvParts DEF ClockTypes, FileInv, TypeOK
    <3>2. QED
      BY <1>9, <3>1, <1>7 DEF StepBack, Steady
  <2>3. QED
    BY <1>3, <2>1, <2>2, WriteGoesForward, RotateGoesForward, TickGoesForward
       DEF WriterRuns, Environment
<1>10. ASSUME Steady' PROVE ListsBehind'
  BY <1>1, <1>3, <1>7, <1>9, <1>10, ListsStayBehind DEF CleanerInv
<1>11. ASSUME Steady', faults' = 0 PROVE Covered' /\ InSequence'
  BY <1>1, <1>3, <1>7, <1>9, <1>11, ListsStayCovering, SequenceStays DEF CleanerInv
<1>12. QED
  BY <1>3, <1>4, <1>6, <1>8, <1>9, <1>10, <1>11 DEF CleanerInv

(* Between passes there is nothing to forget.                               *)
NoLists == pass = "none" /\ todo = <<>> /\ kept = <<>> /\ spare = <<>> /\ doomed = <<>>

LEMMA EmptyLists ==
  ASSUME NoLists, phase = "none"
  PROVE  ListTypes /\ PassShape /\ ListsBehind /\ Covered /\ InSequence
BY NothingListed DEF NoLists, ListTypes, PassShape, ListsBehind, Covered, InSequence

LEMMA EmptyListsAfter ==
  ASSUME NoLists', phase' = "none"
  PROVE  ListTypes' /\ PassShape' /\ ListsBehind' /\ Covered' /\ InSequence'
BY NothingListed DEF NoLists, ListTypes, PassShape, ListsBehind, Covered, InSequence

LEMMA NoPassIs ==
  ASSUME NoPass
  PROVE  NoLists' /\ phase' = "none"
BY DEF NoPass, NoLists

LEMMA WriterStartsKeepsInv ==
  ASSUME CleanerInv, WriterStarts
  PROVE  CleanerInv'
<1>1. /\ closing # "wait" /\ Start /\ closing' = "no"
      /\ loop' = IF status' = "open" THEN "run" ELSE "none"
      /\ UNCHANGED passVars
  BY DEF WriterStarts
<1>2. FileInv /\ PassShape /\ PassHasWriter /\ IsFiniteSet(DOMAIN disk)
  BY DEF CleanerInv
<1>3. FileInv' /\ Next
  BY <1>1, <1>2, FileInvStep DEF Next
<1>4. pass = "none" /\ phase = "none"
  BY <1>1, <1>2 DEF PassHasWriter, PassShape, Start
<1>5. NoLists' /\ phase' = "none"
  BY <1>1, <1>2, <1>4 DEF NoLists, PassShape, passVars
<1>6. IsFiniteSet(DOMAIN disk')
  BY <1>1, <1>2, FS_AddElement DEF Start, Open, OpenFails
<1>7. PassHasWriter'
  BY <1>1, <1>5 DEF PassHasWriter, NoLists
<1>8. ASSUME Steady' PROVE WriterGoesForward'
  <2>1. WriterGoesForward
    BY <1>2, <1>3, <1>8, FaultsStay DEF CleanerInv
  <2>2. QED
    BY <1>1, <1>2, <1>8, <2>1, StartGoesForward
<1>9. QED
  BY <1>3, <1>5, <1>6, <1>7, <1>8, EmptyListsAfter DEF CleanerInv

LEMMA WriterClosesKeepsInv ==
  ASSUME CleanerInv, WriterCloses
  PROVE  CleanerInv'
<1>1. CloseFile /\ closing' = "wait" /\ loop' = loop /\ pass' = pass /\ UNCHANGED passVars
  BY DEF WriterCloses, passVars
<1>2. /\ FileInv /\ ListTypes /\ PassShape /\ PassHasWriter /\ IsFiniteSet(DOMAIN disk)
      /\ FileInv' /\ Next
  BY <1>1, FileInvStep DEF CleanerInv, Next
<1>3. ListTypes' /\ PassShape'
  BY <1>1, <1>2, ShapeStays
<1>4. Stays /\ UNCHANGED <<skew, faults, scanFaults>> /\ status' = "closed"
  BY <1>1 DEF CloseFile, Stays, boundVars, clockVars, fileVars
<1>5. IsFiniteSet(DOMAIN disk') /\ PassHasWriter'
  BY <1>1, <1>2, <1>4 DEF PassHasWriter, Stays
<1>6. ASSUME Steady' PROVE WriterGoesForward' /\ ListsBehind'
  <2>1. Steady
    BY <1>4, <1>6 DEF Steady
  <2>2. QED
    BY <1>1, <1>2, <1>4, <2>1, EndGoesForward, ListsStayBehind DEF CleanerInv
<1>7. ASSUME Steady', faults' = 0 PROVE Covered' /\ InSequence'
  <2>1. Steady /\ faults = 0
    BY <1>4, <1>7 DEF Steady
  <2>2. QED
    BY <1>1, <1>2, <1>4, <2>1, ListsStayCovering, SequenceStays DEF CleanerInv
<1>8. QED
  BY <1>2, <1>3, <1>5, <1>6, <1>7 DEF CleanerInv

LEMMA ProcessDiesKeepsInv ==
  ASSUME CleanerInv, ProcessDies
  PROVE  CleanerInv'
<1>1. /\ Crash \/ (closing = "wait" /\ UNCHANGED vars)
      /\ loop' = "none" /\ closing' = "no" /\ NoPass
  BY DEF ProcessDies
<1>2. FileInv /\ FileInv' /\ IsFiniteSet(DOMAIN disk)
  BY <1>1, FileInvStep DEF CleanerInv, Next
<1>3. NoLists' /\ phase' = "none"
  BY <1>1, NoPassIs
<1>4. PassHasWriter'
  BY <1>1, <1>3 DEF PassHasWriter, NoLists
<1>5. /\ IsFiniteSet(DOMAIN disk') /\ UNCHANGED <<skew, scanFaults>>
  BY <1>1, <1>2 DEF Crash, vars, clockVars, boundVars
<1>6. ASSUME Steady' PROVE WriterGoesForward'
  <2>1. WriterGoesForward
    BY <1>5, <1>6 DEF CleanerInv, Steady
  <2>2. CASE Crash
    BY <1>2, <2>1, <2>2, EndGoesForward
  <2>3. CASE UNCHANGED vars
    <3>1. UNCHANGED <<clockVars, disk, status, fileVars, cache, callVars>>
      BY <2>3 DEF vars
    <3>2. Stays /\ UNCHANGED <<clockVars, status, linked, cache, call, turn>>
      BY <3>1 DEF Stays, fileVars, callVars
    <3>3. QED
      BY <1>2, <2>1, <3>2, QuietGoesForward
  <2>4. QED
    BY <1>1, <2>2, <2>3
<1>7. QED
  BY <1>2, <1>3, <1>4, <1>5, <1>6, EmptyListsAfter DEF CleanerInv
-----------------------------------------------------------------------------
(* The steps of a pass.                                                     *)
LEMMA DirectoryAlone ==
  ASSUME CleanerInv, UNCHANGED vars
  PROVE  /\ FileInv' /\ IsFiniteSet(DOMAIN disk') /\ (Steady' <=> Steady)
         /\ Steady => WriterGoesForward'
         /\ UNCHANGED <<status, disk, stamp, seq, faults, linked>>
<1>1. UNCHANGED <<clockVars, disk, status, fileVars, cache, callVars, boundVars>>
  BY DEF vars
<1>2. FileInv' /\ FileInv
  BY FileInvStep DEF CleanerInv
<1>3. UNCHANGED <<status, disk, stamp, seq, faults, scanFaults, skew, linked, call, turn, cache>>
  BY <1>1 DEF fileVars, boundVars, clockVars, callVars
<1>4. ASSUME Steady PROVE WriterGoesForward'
  <2>1. Stays
    BY <1>3 DEF Stays
  <2>2. QED
    BY <1>1, <1>2, <1>3, <1>4, <2>1, QuietGoesForward DEF CleanerInv
<1>5. QED
  BY <1>2, <1>3, <1>4 DEF CleanerInv, Steady

LEMMA BeginPassIs ==
  ASSUME CleanerInv, NEW who \in {"loop", "close"}, BeginPass(who), UNCHANGED vars
  PROVE  /\ pass = "none" /\ pass' \in {"none", who}
         /\ ListTypes' /\ PassShape' /\ (Steady => ListsBehind')
         /\ (Steady /\ faults = 0 => Covered' /\ InSequence')
<1>1. pass = "none" /\ UNCHANGED <<disk, stamp, seq>>
  BY DirectoryAlone DEF BeginPass
<1>2. /\ FileInv /\ ListTypes /\ PassShape /\ IsFiniteSet(DOMAIN disk)
      /\ todo = <<>> /\ kept = <<>> /\ spare = <<>> /\ doomed = <<>> /\ phase = "none"
  BY <1>1 DEF CleanerInv, PassShape
<1>3. CASE UNCHANGED passVars
  <2>1. NoLists' /\ phase' = "none" /\ pass' = "none"
    BY <1>1, <1>2, <1>3 DEF NoLists, passVars
  <2>2. QED
    BY <1>1, <2>1, EmptyListsAfter
<1>4. CASE /\ DOMAIN disk # {} /\ pass' = who /\ phase' = "age"
           /\ todo' = IF MaxAge > 0 THEN Listing ELSE <<>>
           /\ kept' = IF MaxAge > 0 THEN <<>> ELSE Listing
           /\ UNCHANGED <<spare, doomed, budget>>
  <2>1. DOMAIN disk \subseteq Names
    BY <1>2, ActiveIs
  <2>2. Listing \in Seq(Names) /\ Range(Listing) = DOMAIN disk
    BY <1>2, <2>1, ListedByName DEF Listing
  <2>3. Range(todo') \cup Range(kept') = DOMAIN disk
    BY <1>4, <2>2, NothingListed
  <2>4. ListTypes' /\ PassShape'
    BY <1>2, <1>4, <2>2, NothingListed DEF ListTypes, PassShape
  <2>5. spare' = <<>> /\ doomed' = <<>>
    BY <1>2, <1>4
  <2>6. ASSUME Steady PROVE ListsBehind'
    <3>1. stamp # None
      BY <1>4, <2>6 DEF CleanerInv, WriterGoesForward, ActiveIsNewest
    <3>2. \A n \in DOMAIN disk : AtMost(n, FileOf(stamp, seq))
      BY <2>6 DEF CleanerInv, WriterGoesForward, ActiveIsNewest
    <3>3. QED
      BY <1>1, <2>3, <2>5, <3>1, <3>2, NothingListed DEF ListsBehind, AtMost
  <2>7. Covered' /\ InSequence'
    BY <1>1, <1>4, <2>3 DEF Covered, InSequence, Listed
  <2>8. QED
    BY <1>1, <1>4, <2>4, <2>6, <2>7
<1>5. QED
  BY <1>3, <1>4 DEF BeginPass

(* cleanupLoop, the end of a pass, the last pass of Close.                  *)
LEMMA LoopKeepsInv ==
  ASSUME CleanerInv, LoopTick \/ EndPass \/ LoopStops \/ LastPass, UNCHANGED vars
  PROVE  CleanerInv'
<1>1. /\ FileInv' /\ IsFiniteSet(DOMAIN disk') /\ (Steady' <=> Steady)
      /\ Steady => WriterGoesForward'
      /\ UNCHANGED <<status, disk, stamp, seq, faults>>
  BY DirectoryAlone
<1>2. PassHasWriter /\ PassShape /\ ListTypes
  BY DEF CleanerInv
<1>3. CASE LoopTick
  <2>1. BeginPass("loop") /\ loop = "run" /\ UNCHANGED <<loop, closing>>
    BY <1>3 DEF LoopTick
  <2>2. /\ pass = "none" /\ pass' \in {"none", "loop"}
        /\ ListTypes' /\ PassShape' /\ (Steady => ListsBehind')
        /\ (Steady /\ faults = 0 => Covered' /\ InSequence')
    BY <2>1, BeginPassIs
  <2>3. PassHasWriter'
    BY <1>1, <1>2, <2>1, <2>2 DEF PassHasWriter
  <2>4. QED
    BY <1>1, <2>2, <2>3 DEF CleanerInv
<1>4. CASE LastPass
  <2>1. /\ BeginPass("close") /\ closing = "wait" /\ loop = "exited" /\ loop' = loop
        /\ closing' = IF pass' = "none" THEN "done" ELSE closing
    BY <1>4 DEF LastPass, LoopGone
  <2>2. /\ pass = "none" /\ pass' \in {"none", "close"}
        /\ ListTypes' /\ PassShape' /\ (Steady => ListsBehind')
        /\ (Steady /\ faults = 0 => Covered' /\ InSequence')
    BY <2>1, BeginPassIs
  <2>3. PassHasWriter'
    BY <1>1, <1>2, <2>1, <2>2 DEF PassHasWriter
  <2>4. QED
    BY <1>1, <2>2, <2>3 DEF CleanerInv
<1>5. CASE EndPass
  <2>1. /\ NoPass /\ loop' = loop /\ closing' = IF pass = "close" THEN "done" ELSE closing
    BY <1>5 DEF EndPass
  <2>2. NoLists' /\ phase' = "none" /\ pass' = "none"
    BY <2>1, NoPassIs DEF NoLists
  <2>3. pass = "close" => loop # "run"
    BY <1>2 DEF PassHasWriter
  <2>4. PassHasWriter'
    BY <1>1, <1>2, <2>1, <2>2, <2>3 DEF PassHasWriter
  <2>5. QED
    BY <1>1, <2>2, <2>4, EmptyListsAfter DEF CleanerInv
<1>6. CASE LoopStops
  <2>1. pass = "none" /\ loop' = "exited" /\ closing' = closing /\ UNCHANGED passVars
    BY <1>6 DEF LoopStops
  <2>2. phase = "none" /\ todo = <<>> /\ kept = <<>> /\ spare = <<>> /\ doomed = <<>>
    BY <1>2, <2>1 DEF PassShape
  <2>3. NoLists' /\ phase' = "none" /\ pass' = "none"
    BY <2>1, <2>2 DEF passVars, NoLists
  <2>4. PassHasWriter'
    BY <1>1, <1>2, <2>1, <2>3 DEF PassHasWriter
  <2>5. QED
    BY <1>1, <2>3, <2>4, EmptyListsAfter DEF CleanerInv
<1>7. QED
  BY <1>3, <1>4, <1>5, <1>6

(* A step that only moves names between the lists keeps the invariant if it *)
(* leaves the lists in their order.                                         *)
LEMMA SortingOut ==
  ASSUME CleanerInv, UNCHANGED vars, UNCHANGED <<pass, loop, closing>>,
         ListTypes', PassShape', Listed' = Listed,
         Steady => ListsBehind', Steady /\ faults = 0 => InSequence'
  PROVE  CleanerInv'
<1>1. /\ FileInv' /\ IsFiniteSet(DOMAIN disk') /\ (Steady' <=> Steady)
      /\ Steady => WriterGoesForward'
      /\ UNCHANGED <<status, disk, faults>>
  BY DirectoryAlone
<1>2. PassHasWriter'
  BY <1>1 DEF CleanerInv, PassHasWriter
<1>3. Steady /\ faults = 0 => Covered'
  BY <1>1 DEF CleanerInv, Covered
<1>4. QED
  BY <1>1, <1>2, <1>3 DEF CleanerInv

(* Look takes the first file off the list and sorts it out.                 *)
LEMMA LookIs ==
  ASSUME CleanerInv, Look, NEW n, n = Head(todo)
  PROVE  /\ todo # <<>> /\ todo' = Tail(todo) /\ n \in Names
         /\ Range(todo) = {n} \cup Range(todo') /\ todo' \in Seq(Names)
         /\ Sorted(todo) => Sorted(todo') /\ \A m \in Range(todo') : Older(n, m)
         /\ doomed = <<>> /\ Range(doomed) = {}
         /\ phase \in {"age", "count", "total", "dir"}
         /\ UNCHANGED <<pass, phase, seen, started, disk, linked, faults>>
         /\ \/ /\ ~IsActive(n) /\ phase = "count" /\ UNCHANGED <<kept, doomed, budget>>
               /\ spare' = Append(spare, n) /\ Range(spare') = Range(spare) \cup {n}
            \/ /\ Wanted(n) /\ ~IsActive(n) /\ phase # "count" /\ UNCHANGED <<kept, spare>>
               /\ doomed' = <<n>> /\ Range(doomed') = {n} /\ budget' = budget - seen[n].size
            \/ /\ Wanted(n) => IsActive(n)
               /\ kept' = Append(kept, n) /\ Range(kept') = Range(kept) \cup {n}
               /\ UNCHANGED <<spare, doomed, budget>>
<1>1. /\ todo # <<>> /\ doomed = <<>> /\ todo' = Tail(todo)
      /\ UNCHANGED <<pass, phase, seen, started, disk, linked, faults>>
      /\ \/ /\ ~IsActive(n) /\ phase = "count" /\ UNCHANGED <<kept, doomed, budget>>
            /\ spare' = Append(spare, n)
         \/ /\ Wanted(n) /\ ~IsActive(n) /\ phase # "count" /\ UNCHANGED <<kept, spare>>
            /\ doomed' = <<n>> /\ budget' = budget - seen[n].size
         \/ /\ Wanted(n) => IsActive(n)
            /\ kept' = Append(kept, n) /\ UNCHANGED <<spare, doomed, budget>>
  BY DEF Look
<1>2. ListTypes /\ PassShape
  BY DEF CleanerInv
<1>3. /\ n \in Names /\ todo' \in Seq(Names) /\ Range(todo) = {n} \cup Range(todo')
      /\ Sorted(todo) => Sorted(todo') /\ \A m \in Range(todo') : Older(n, m)
  BY <1>1, <1>2, FirstOf DEF ListTypes
<1>4. Range(doomed) = {} /\ Range(<<n>>) = {n}
  <2>1. <<n>> = Append(<<>>, n)
    OBVIOUS
  <2>2. Range(Append(<<>>, n)) = Range(<<>>) \cup {n}
    BY <1>3, NothingListed, AppendedIs
  <2>3. QED
    BY <1>1, <2>1, <2>2, NothingListed
<1>5. /\ Range(Append(spare, n)) = Range(spare) \cup {n}
      /\ Range(Append(kept, n)) = Range(kept) \cup {n}
  BY <1>2, <1>3, AppendedIs DEF ListTypes
<1>6. phase \in {"age", "count", "total", "dir"}
  BY <1>1, <1>2 DEF PassShape
<1>7. QED
  BY <1>1, <1>3, <1>4, <1>5, <1>6

LEMMA LookKeepsInv ==
  ASSUME CleanerInv, Look, UNCHANGED <<writerVars, loop, closing>>
  PROVE  CleanerInv'
<1> DEFINE n == Head(todo)
<1>1. /\ todo # <<>> /\ doomed = <<>> /\ todo' = Tail(todo)
      /\ phase \in {"age", "count", "total", "dir"}
      /\ UNCHANGED <<pass, phase, disk, linked, faults>>
      /\ \/ /\ ~IsActive(n) /\ phase = "count" /\ UNCHANGED <<kept, doomed, budget>>
            /\ spare' = Append(spare, n)
         \/ /\ Wanted(n) /\ ~IsActive(n) /\ phase # "count" /\ UNCHANGED <<kept, spare>>
            /\ doomed' = <<n>>
         \/ /\ Wanted(n) => IsActive(n)
            /\ kept' = Append(kept, n) /\ UNCHANGED <<spare, doomed, budget>>
  BY LookIs
<1>2. UNCHANGED vars
  BY <1>1 DEF writerVars, vars, clockVars, fileVars, callVars, boundVars, pastVars
<1>3. ListTypes /\ PassShape
  BY DEF CleanerInv
<1>4. /\ n \in Names /\ Tail(todo) \in Seq(Names) /\ Range(todo) = {n} \cup Range(Tail(todo))
      /\ Sorted(todo) => Sorted(Tail(todo)) /\ \A m \in Range(Tail(todo)) : Older(n, m)
  BY <1>1, LookIs
<1>5. Range(doomed) = {} /\ Sorted(<<n>>) /\ Range(<<n>>) = {n} /\ <<n>> \in Seq(Names)
  <2> HIDE DEF n
  <2>1. <<n>> = Append(<<>>, n)
    OBVIOUS
  <2>2. /\ Append(<<>>, n) \in Seq(Names) /\ Range(Append(<<>>, n)) = Range(<<>>) \cup {n}
        /\ Sorted(Append(<<>>, n))
    BY <1>4, NothingListed, AppendedIs
  <2>3. QED
    BY <1>1, <2>1, <2>2, NothingListed
<1>6. /\ Append(spare, n) \in Seq(Names) /\ Range(Append(spare, n)) = Range(spare) \cup {n}
      /\ Append(kept, n) \in Seq(Names) /\ Range(Append(kept, n)) = Range(kept) \cup {n}
      /\ Sorted(spare) /\ (\A m \in Range(spare) : Older(m, n)) => Sorted(Append(spare, n))
  BY <1>3, <1>4, AppendedIs DEF ListTypes
<1>7. phase \in {"age", "count", "total", "dir"}
  BY <1>1
<1> HIDE DEF n
<1>8. ListTypes'
  BY <1>1, <1>3, <1>4, <1>5, <1>6 DEF ListTypes
<1>9. PassShape'
  BY <1>1, <1>3, <1>7 DEF PassShape
<1>10. Listed' = Listed
  BY <1>1, <1>4, <1>5, <1>6 DEF Listed
<1>11. ASSUME Steady PROVE ListsBehind /\ AtMost(n, FileOf(stamp, seq))
  BY <1>4, <1>11 DEF CleanerInv, ListsBehind
<1>12. ASSUME Steady PROVE ListsBehind'
  <2>1. UNCHANGED <<stamp, seq, pass>>
    BY <1>1, DirectoryAlone, <1>2
  <2>2. ~IsActive(n) => Older(n, FileOf(stamp, seq))
    BY <1>11, <1>12 DEF IsActive, AtMost
  <2>3. QED
    BY <1>1, <1>4, <1>5, <1>6, <1>11, <1>12, <2>1, <2>2 DEF ListsBehind
<1>13. ASSUME Steady, faults = 0, phase # "age" PROVE InSequence'
  <2>1. /\ Sorted(todo) /\ Sorted(spare)
        /\ \A x \in Range(spare), y \in Range(todo) : Older(x, y)
        /\ (phase = "count" \/ budget > 0) =>
              \A x \in Range(spare) \cup Range(todo), y \in Range(kept) : Older(x, y)
    BY <1>7, <1>13 DEF CleanerInv, InSequence
  <2>2. \A m \in Range(Tail(todo)) : Older(n, m)
    BY <1>4, <2>1
  <2>3. phase # "count" => spare = <<>> /\ Range(spare) = {} /\ spare' = <<>> /\ Range(spare') = {}
    BY <1>1, <1>3, NothingListed DEF PassShape
  <2>4. CASE /\ ~IsActive(n) /\ phase = "count" /\ UNCHANGED <<kept, doomed, budget>>
             /\ spare' = Append(spare, n)
    <3>1. Sorted(spare') /\ Range(spare') = Range(spare) \cup {n} /\ Sorted(todo')
      BY <1>1, <1>4, <1>6, <2>1, <2>4
    <3>2. \A x \in Range(spare'), y \in Range(todo') : Older(x, y)
      BY <1>1, <1>4, <2>1, <2>2, <3>1
    <3>3. \A x \in Range(spare') \cup Range(todo'), y \in Range(kept') : Older(x, y)
      BY <1>1, <1>4, <2>1, <2>4, <3>1
    <3>4. Range(doomed') = {} /\ Sorted(doomed')
      BY <1>1, <1>5, <2>4, NothingListed
    <3>5. QED
      BY <3>1, <3>2, <3>3, <3>4 DEF InSequence
  <2>5. CASE /\ Wanted(n) /\ phase # "count" /\ UNCHANGED <<kept, spare>> /\ doomed' = <<n>>
    <3>1. budget > 0
      BY <1>7, <1>13, <2>5 DEF Wanted
    <3>2. Sorted(todo') /\ Sorted(spare') /\ Sorted(doomed') /\ Range(doomed') = {n}
      BY <1>1, <1>4, <1>5, <2>1, <2>5
    <3>3. \A x \in Range(doomed') :
             \A y \in Range(spare') \cup Range(todo') \cup Range(kept') : Older(x, y)
      BY <1>1, <1>4, <2>1, <2>2, <2>3, <2>5, <3>1, <3>2
    <3>4. \A x \in Range(spare') \cup Range(todo'), y \in Range(kept') : Older(x, y)
      BY <1>1, <1>4, <2>1, <2>3, <2>5, <3>1
    <3>5. QED
      BY <2>3, <2>5, <3>2, <3>3, <3>4 DEF InSequence
  <2>6. CASE /\ Wanted(n) => IsActive(n)
             /\ kept' = Append(kept, n) /\ UNCHANGED <<spare, doomed, budget>>
    <3>1. Sorted(todo') /\ Sorted(spare') /\ Sorted(doomed') /\ Range(doomed') = {}
      BY <1>1, <1>4, <1>5, <2>1, <2>6, NothingListed
    <3>2. \A x \in Range(spare'), y \in Range(todo') : Older(x, y)
      BY <1>1, <1>4, <2>1, <2>6
    <3>3. ASSUME phase = "count" \/ budget > 0
          PROVE  \A x \in Range(spare') \cup Range(todo'), y \in Range(kept') : Older(x, y)
      <4>1. n = FileOf(stamp, seq)
        BY <1>7, <1>13, <2>6, <3>3 DEF Wanted, IsActive
      <4>2. Range(Tail(todo)) = {}
        <5>1. ASSUME NEW m \in Range(Tail(todo)) PROVE FALSE
          <6>1. Older(n, m) /\ m \in Names /\ AtMost(m, n)
            BY <1>4, <1>11, <1>13, <2>2, <4>1, RangeOfSeq DEF ListsBehind
          <6>2. QED
            BY <1>4, <6>1, OlderIs DEF AtMost
        <5>2. QED
          BY <5>1
      <4>3. \A x \in Range(spare) : Older(x, n)
        BY <1>4, <2>1
      <4>4. QED
        BY <1>1, <1>6, <2>1, <2>6, <3>3, <4>2, <4>3
    <3>4. QED
      BY <1>1, <2>6, <3>1, <3>2, <3>3 DEF InSequence
  <2>7. QED
    BY <1>1, <2>4, <2>5, <2>6
<1>14. phase = "age" => InSequence'
  BY <1>1 DEF InSequence
<1>15. Steady /\ faults = 0 => InSequence'
  BY <1>13, <1>14
<1>16. QED
  BY <1>1, <1>2, <1>8, <1>9, <1>10, <1>12, <1>15, SortingOut

LEMMA SelectKeepsInv ==
  ASSUME CleanerInv, Select, UNCHANGED <<writerVars, loop, closing>>
  PROVE  CleanerInv'
<1> DEFINE k == IF budget > Len(spare) THEN Len(spare) ELSE budget
           gone == SubSeq(spare, 1, k)
           left == SubSeq(spare, k + 1, Len(spare))
<1>1. /\ phase = "count" /\ todo = <<>> /\ spare # <<>>
      /\ doomed' = gone /\ kept' = left \o kept /\ spare' = <<>>
      /\ UNCHANGED <<pass, phase, todo, disk, linked, faults>>
  BY DEF Select, Excess
<1>2. UNCHANGED vars
  BY <1>1 DEF writerVars, vars, clockVars, fileVars, callVars, boundVars, pastVars
<1>3. ListTypes /\ PassShape /\ budget \in Nat /\ Len(spare) \in Nat
  BY <1>1, LenProperties DEF CleanerInv, PassShape, ListTypes
<1>4. k \in 0 .. Len(spare)
  BY <1>3
<1>5. /\ gone \in Seq(Names) /\ left \in Seq(Names) /\ Range(spare) = Range(gone) \cup Range(left)
      /\ Sorted(spare) => Sorted(gone) /\ \A m \in Range(gone) : \A n \in Range(left) : Older(m, n)
  <2>1. spare \in Seq(Names)
    BY <1>3 DEF ListTypes
  <2> HIDE DEF k
  <2>2. QED
    BY <1>4, <2>1, CutInTwo
<1> HIDE DEF k, gone, left
<1>6. left \o kept \in Seq(Names) /\ Range(left \o kept) = Range(left) \cup Range(kept)
  BY <1>3, <1>5, ConcatProperties, RangeConcatenation DEF ListTypes
<1>7. ListTypes' /\ PassShape'
  BY <1>1, <1>3, <1>5, <1>6, NothingListed DEF ListTypes, PassShape
<1>8. Listed' = Listed
  <2>1. Range(todo) = {} /\ Range(todo') = {} /\ Range(spare') = {} /\ Range(doomed) = {}
    BY <1>1, <1>3, NothingListed DEF PassShape
  <2>2. Range(doomed') = Range(gone) /\ Range(kept') = Range(left) \cup Range(kept)
    BY <1>1, <1>6
  <2>3. QED
    BY <1>5, <2>1, <2>2 DEF Listed
<1>9. ASSUME Steady PROVE ListsBehind'
  <2>1. UNCHANGED <<stamp, seq, pass>>
    BY <1>1, <1>2, DirectoryAlone
  <2>2. Range(todo') = {} /\ Range(spare') = {}
    BY <1>1, NothingListed
  <2>3. QED
    BY <1>1, <1>5, <1>6, <1>9, <2>1, <2>2 DEF CleanerInv, ListsBehind, AtMost
<1>10. ASSUME Steady, faults = 0 PROVE InSequence'
  <2>1. Sorted(spare) /\ \A x \in Range(spare), y \in Range(kept) : Older(x, y)
    BY <1>1, <1>10 DEF CleanerInv, InSequence
  <2>2. Range(todo') = {} /\ Range(spare') = {} /\ Sorted(todo') /\ Sorted(spare')
    BY <1>1, NothingListed
  <2>3. Sorted(doomed') /\ \A x \in Range(doomed'), y \in Range(kept') : Older(x, y)
    BY <1>1, <1>5, <1>6, <2>1
  <2>4. QED
    BY <2>2, <2>3 DEF InSequence
<1>11. QED
  BY <1>1, <1>2, <1>7, <1>8, <1>9, <1>10, SortingOut

(* A list has no more files than places.                                    *)
LEMMA RangeIsSmall ==
  ASSUME NEW s \in Seq(Names)
  PROVE  IsFiniteSet(Range(s)) /\ Cardinality(Range(s)) <= Len(s)
<1>1. Len(s) \in Nat /\ DOMAIN s = 1 .. Len(s)
  BY LenProperties
<1>2. s \in Surjection(DOMAIN s, Range(s))
  BY <1>1 DEF Surjection, Range
<1>3. IsFiniteSet(DOMAIN s) /\ Cardinality(DOMAIN s) = Len(s)
  BY <1>1, FS_Interval
<1>4. QED
  BY <1>2, <1>3, FS_Surjection

LEMMA NextPhaseKeepsInv ==
  ASSUME CleanerInv, NextPhase, UNCHANGED <<writerVars, loop, closing>>
  PROVE  CleanerInv'
<1> DEFINE files == InOrder(Range(kept), ByDate(Range(kept)))
           ph == Following[phase]
<1>1. /\ phase \in {"age", "count", "total", "dir"} /\ ph \in {"count", "total", "dir", "done"}
      /\ ph = "done" <=> phase = "dir"
      /\ ph = "count" <=> phase = "age"
      /\ todo = <<>> /\ spare = <<>> /\ doomed = <<>>
      /\ phase' = ph /\ budget' = Surplus(ph, files)
      /\ (budget' > 0 /\ todo' = files /\ kept' = <<>>) \/ (~(budget' > 0) /\ todo' = <<>> /\ kept' = files)
      /\ UNCHANGED <<pass, spare, doomed, disk, linked, faults>>
  BY DEF NextPhase, Following
<1>2. UNCHANGED vars
  BY <1>1 DEF writerVars, vars, clockVars, fileVars, callVars, boundVars, pastVars
<1>3. ListTypes /\ PassShape
  BY DEF CleanerInv
<1>4. files \in Seq(Names) /\ Range(files) = Range(kept) /\ Sorted(files)
  <2>1. Range(kept) \in SUBSET Names
    BY <1>3, RangeOfSeq DEF ListTypes
  <2>2. IsFiniteSet(Range(kept))
    BY <1>3, RangeIsSmall DEF ListTypes
  <2>3. QED
    BY <2>1, <2>2, SortedByDate
<1>5. ph = "count" => budget' \in Int
  <2>1. Len(files) \in Nat
    BY <1>4, LenProperties
  <2>2. QED
    BY <1>1, <2>1, CleanerConstants DEF Surplus, BackupSurplus
<1>6. ph = "done" => budget' = 0
  BY <1>1 DEF Surplus
<1> HIDE DEF files, ph
<1>7. ListTypes'
  BY <1>1, <1>3, <1>4, NothingListed DEF ListTypes
<1>8. PassShape'
  BY <1>1, <1>3, <1>5, <1>6 DEF PassShape
<1>9. /\ Range(todo') \cup Range(kept') = Range(kept) /\ Range(todo) = {}
      /\ Range(spare) = {} /\ Range(spare') = {} /\ Range(doomed) = {} /\ Range(doomed') = {}
      /\ Sorted(todo') /\ Sorted(spare') /\ Sorted(doomed')
  BY <1>1, <1>4, NothingListed
<1>10. Listed' = Listed
  BY <1>9 DEF Listed
<1>11. ASSUME Steady PROVE ListsBehind'
  <2>1. UNCHANGED <<stamp, seq, pass>>
    BY <1>1, <1>2, DirectoryAlone
  <2>2. QED
    BY <1>9, <1>11, <2>1 DEF CleanerInv, ListsBehind, AtMost
<1>12. InSequence'
  <2>1. Range(todo') = {} \/ Range(kept') = {}
    BY <1>1, NothingListed
  <2>2. QED
    BY <1>9, <2>1 DEF InSequence
<1>13. QED
  BY <1>1, <1>2, <1>7, <1>8, <1>10, <1>11, <1>12, SortingOut

(* os.Remove takes a file older than the one being written.                 *)
LEMMA RemoveFileKeepsInv ==
  ASSUME CleanerInv, RemoveFile, UNCHANGED <<writerVars, loop, closing>>
  PROVE  CleanerInv'
<1> DEFINE n == Head(doomed)
<1>1. /\ doomed # <<>> /\ doomed' = Tail(doomed)
      /\ UNCHANGED <<pass, phase, todo, kept, spare, budget>>
      /\ \/ /\ disk' = [m \in DOMAIN disk \ {n} |-> disk[m]]
            /\ linked' = (linked /\ (file = None \/ file # n))
            /\ faults' = faults
         \/ faults < MaxFaults /\ faults' = faults + 1 /\ UNCHANGED <<disk, linked>>
  BY DEF RemoveFile
<1>2. /\ UNCHANGED <<clockVars, status, cache, callVars, pastVars, scanFaults, starts, rotates>>
      /\ UNCHANGED <<file, stamp, seq, size, opened>> /\ UNCHANGED <<call, turn>>
      /\ UNCHANGED <<skew, loop, closing>>
  BY DEF writerVars, clockVars, callVars
<1>3. /\ FileInv /\ ListTypes /\ PassShape /\ PassHasWriter /\ IsFiniteSet(DOMAIN disk)
  BY DEF CleanerInv
<1>4. /\ n \in Names /\ Tail(doomed) \in Seq(Names)
      /\ Range(doomed) = {n} \cup Range(Tail(doomed))
      /\ Sorted(doomed) => Sorted(Tail(doomed)) /\ \A m \in Range(Tail(doomed)) : Older(n, m)
  BY <1>1, <1>3, FirstOf DEF ListTypes
<1> HIDE DEF n
<1>5. ListTypes' /\ PassShape' /\ PassHasWriter'
  BY <1>1, <1>2, <1>3, <1>4 DEF ListTypes, PassShape, PassHasWriter
<1>6. /\ DOMAIN disk' \subseteq DOMAIN disk /\ \A m \in DOMAIN disk' : disk'[m] = disk[m]
      /\ \A m \in DOMAIN disk : m = n \/ m \in DOMAIN disk'
      /\ linked' \in BOOLEAN /\ (linked' => linked /\ (file = None \/ file # n \/ n \in DOMAIN disk' \/ n \notin DOMAIN disk))
      /\ faults' \in 0 .. MaxFaults /\ (faults' = 0 => faults = 0)
      /\ disk' = [m \in DOMAIN disk \ {n} |-> disk[m]] \/ faults' # 0
  <2>1. linked \in BOOLEAN /\ faults \in 0 .. MaxFaults /\ MaxFaults \in Nat
    BY <1>3, FileInvParts, Basics DEF FileTypes, BoundTypes
  <2>2. CASE /\ disk' = [m \in DOMAIN disk \ {n} |-> disk[m]]
             /\ linked' = (linked /\ (file = None \/ file # n))
             /\ faults' = faults
    BY <2>1, <2>2
  <2>3. CASE faults < MaxFaults /\ faults' = faults + 1 /\ UNCHANGED <<disk, linked>>
    BY <2>1, <2>3
  <2>4. QED
    BY <1>1, <2>2, <2>3
<1>7. FileInv'
  <2>1. DiskTypes' /\ NumbersBounded'
    BY <1>3, <1>6, FileInvParts DEF DiskTypes, NumbersBounded
  <2>2. FileTypes' /\ BoundTypes'
    BY <1>2, <1>3, <1>6, FileInvParts DEF FileTypes, BoundTypes
  <2>3. ActiveFile'
    <3>1. ASSUME status = "open" PROVE file = FileOf(stamp, seq) /\ file # None
      BY <1>3, <3>1, FileInvParts, ActiveIs, Basics DEF ActiveFile, OpenHasDay, Names
    <3>2. status = "open" /\ linked' => file \in DOMAIN disk' /\ size = Len(disk'[file])
      BY <1>3, <1>6, <3>1, FileInvParts DEF ActiveFile, Exists
    <3>3. QED
      BY <1>2, <3>1, <3>2 DEF ActiveFile, Exists
  <2>4. ClockTypes' /\ WallIsNatural' /\ CacheTypes' /\ CallTypes' /\ PastTypes'
    BY <1>2, <1>3, Untouched, FileInvParts
       DEF CallTypes, callVars, CacheTypes, ClockTypes, WallIsNatural, clockVars, PastTypes, pastVars
  <2>5. OpenHasDay' /\ OneHolder' /\ BusyIsOpen' /\ ChunkHasDay'
    BY <1>2, <1>3, FileInvParts DEF OpenHasDay, OneHolder, BusyIsOpen, ChunkHasDay, InFlight
  <2>6. QED
    BY <2>1, <2>2, <2>3, <2>4, <2>5, FileInvPartsAfter
<1>8. IsFiniteSet(DOMAIN disk')
  BY <1>3, <1>6, FS_Subset
<1>9. Steady' <=> Steady
  BY <1>2 DEF Steady
<1>10. ASSUME Steady PROVE WriterGoesForward' /\ ListsBehind'
  <2>1. WriterGoesForward /\ ListsBehind /\ Wall' = Wall
    BY <1>2, <1>10 DEF CleanerInv, clockVars, Wall
  <2>2. ListsBehind'
    BY <1>1, <1>2, <1>4, <2>1 DEF ListsBehind, AtMost
  <2>3. StampHasCome' /\ FilesHaveCome' /\ TurnIsToday'
    BY <1>2, <1>6, <2>1 DEF WriterGoesForward, StampHasCome, FilesHaveCome, TurnIsToday
  <2>4. ActiveIsNewest'
    BY <1>2, <1>6, <2>1 DEF WriterGoesForward, ActiveIsNewest, AtMost
  <2>5. OpenIsLinked'
    <3>1. ASSUME status = "open" PROVE linked'
      <4>1. linked /\ file = FileOf(stamp, seq) /\ FileOf(stamp, seq) \in Names
        BY <1>3, <2>1, <3>1, FileInvParts, ActiveIs
           DEF ActiveFile, WriterGoesForward, OpenIsLinked, OpenHasDay
      <4>2. Older(n, FileOf(stamp, seq))
        BY <1>4, <2>1 DEF ListsBehind
      <4>3. n # file
        BY <1>4, <4>1, <4>2, OlderIs
      <4>4. QED
        BY <1>1, <4>1, <4>3
    <3>2. QED
      BY <1>2, <3>1 DEF OpenIsLinked
  <2>6. QED
    BY <2>2, <2>3, <2>4, <2>5 DEF WriterGoesForward
<1>11. ASSUME Steady, faults' = 0 PROVE Covered' /\ InSequence'
  <2>1. Covered /\ InSequence /\ disk' = [m \in DOMAIN disk \ {n} |-> disk[m]]
    BY <1>6, <1>11 DEF CleanerInv
  <2>2. Listed = {n} \cup Listed'
    BY <1>1, <1>4 DEF Listed
  <2>3. DOMAIN disk' = DOMAIN disk \ {n}
    BY <2>1
  <2>4. Covered'
    BY <1>1, <2>1, <2>2, <2>3 DEF Covered
  <2>5. InSequence'
    BY <1>1, <1>4, <2>1 DEF InSequence
  <2>6. QED
    BY <2>4, <2>5
<1>12. QED
  BY <1>5, <1>6, <1>7, <1>8, <1>9, <1>10, <1>11 DEF CleanerInv

LEMMA CleanerInvStep ==
  ASSUME CleanerInv, [CleanerNext]_allVars
  PROVE  CleanerInv'
<1>1. CASE PassStep /\ UNCHANGED <<writerVars, loop, closing, passes>>
  BY <1>1, LookKeepsInv, SelectKeepsInv, RemoveFileKeepsInv, NextPhaseKeepsInv DEF PassStep
<1>2. CASE (LoopTick \/ EndPass \/ LoopStops \/ LastPass) /\ UNCHANGED vars
  BY <1>2, LoopKeepsInv
<1>3. CASE UNCHANGED allVars
  <2>1. UNCHANGED vars /\ UNCHANGED <<pass, loop, closing>> /\ UNCHANGED passVars
    BY <1>3 DEF allVars, cleanerVars, passVars
  <2>2. ListTypes' /\ PassShape'
    BY <2>1, ShapeStays DEF CleanerInv
  <2>3. Listed' = Listed /\ UNCHANGED <<stamp, seq>>
    BY <2>1, DirectoryAlone DEF Listed, passVars
  <2>4. (Steady => ListsBehind') /\ (Steady /\ faults = 0 => InSequence')
    BY <2>1, <2>3, SequenceStays DEF CleanerInv, ListsBehind, passVars, AtMost
  <2>5. QED
    BY <2>1, <2>2, <2>3, <2>4, SortingOut
<1>4. QED
  BY <1>1, <1>2, <1>3, WriterRunsKeepsInv, WriterStartsKeepsInv, WriterClosesKeepsInv,
     ProcessDiesKeepsInv DEF CleanerNext, Cleans

(* The invariant of the cleaner and its writer.                             *)
THEOREM CleanerInvariance == CleanerSpec => []CleanerInv
<1>1. CleanerInit => CleanerInv
  BY CleanerInvInit
<1>2. CleanerInv /\ [CleanerNext]_allVars => CleanerInv'
  BY CleanerInvStep
<1>3. QED
  BY <1>1, <1>2, PTL DEF CleanerSpec

(* cleanup.go:44-46: the file being written to is never removed, as long as *)
(* the wall clock was not set back and every start could read the           *)
(* directory.  Set back over midnight between the look and the remove, the  *)
(* clock takes the writer back to the file about to go: with MaxSkew = 1    *)
(* TLC finds it.                                                            *)
THEOREM ActiveFileIsKept ==
  MaxSkew = 0 /\ MaxScanFaults = 0 => (CleanerSpec => []ActiveFileStays)
<1> SUFFICES ASSUME MaxSkew = 0, MaxScanFaults = 0 PROVE CleanerSpec => []ActiveFileStays
  OBVIOUS
<1>1. CleanerInv => ActiveFileStays
  <2> SUFFICES ASSUME CleanerInv PROVE ActiveFileStays
    OBVIOUS
  <2>1. ClockTypes /\ BoundTypes
    BY FileInvParts DEF CleanerInv
  <2>2. Steady
    BY <2>1 DEF ClockTypes, BoundTypes, Steady
  <2>3. QED
    BY <2>2 DEF CleanerInv, WriterGoesForward, ActiveFileStays, OpenIsLinked
<1>2. QED
  BY <1>1, CleanerInvariance, PTL
-----------------------------------------------------------------------------
(* Which files a step takes away.                                           *)
OldestGoes ==
    (phase # "age" /\ faults = 0) =>
        \A n \in DOMAIN disk \ DOMAIN disk' : \A m \in DOMAIN disk' : ~Older(m, n)

LEMMA WriterKeepsFiles ==
  ASSUME Next
  PROVE  DOMAIN disk \subseteq DOMAIN disk'
<1>1. ASSUME NEW now, NEW s, NEW q, Open(now, s, q) \/ OpenFails(s, q)
      PROVE  DOMAIN disk \subseteq DOMAIN disk'
  BY <1>1 DEF Open, OpenFails
<1>2. ASSUME NEW bytes, FileTakes(bytes) PROVE DOMAIN disk \subseteq DOMAIN disk'
  BY <1>2 DEF FileTakes
<1>3. ASSUME NEW c \in Calls, BeginWrite(c) \/ WriteStep(c) PROVE DOMAIN disk \subseteq DOMAIN disk'
  BY <1>1, <1>2, <1>3
     DEF BeginWrite, WriteStep, Turn, RotateForRoom, WritePortion, WriteFails, RotateOrReturn
<1>4. CASE Start \/ Rotate
  BY <1>1, <1>4 DEF Start, Rotate
<1>5. CASE Sync \/ CloseFile \/ Crash \/ Environment
  BY <1>5 DEF Sync, CloseFile, Crash, Environment, Tick, StepBack
<1>6. QED
  BY <1>3, <1>4, <1>5 DEF Next, Serve

LEMMA RemovesTheOldest ==
  ASSUME CleanerInv, Steady, [CleanerNext]_allVars
  PROVE  OldestGoes
<1>1. CASE RemoveFile
  <2> SUFFICES ASSUME phase # "age", faults = 0,
                      NEW n \in DOMAIN disk \ DOMAIN disk', NEW m \in DOMAIN disk'
               PROVE  ~Older(m, n)
    BY DEF OldestGoes
  <2>1. doomed # <<>> /\ n = Head(doomed) /\ m # n /\ m \in DOMAIN disk
    BY <1>1 DEF RemoveFile
  <2>2. ListTypes /\ PassShape /\ Covered /\ InSequence /\ DOMAIN disk \subseteq Names
    BY ActiveIs DEF CleanerInv
  <2>3. /\ n \in Names /\ Range(doomed) = {n} \cup Range(Tail(doomed))
        /\ Sorted(doomed) => \A x \in Range(Tail(doomed)) : Older(n, x)
    BY <2>1, <2>2, FirstOf DEF ListTypes
  <2>4. phase \in {"count", "total", "dir"} /\ pass # "none"
    BY <2>1, <2>2 DEF PassShape
  <2>5. \A x \in Listed : x = n \/ Older(n, x)
    BY <2>2, <2>3, <2>4 DEF InSequence, Listed
  <2>6. m \in Listed \/ Older(n, m)
    BY <2>1, <2>2, <2>3, <2>4 DEF Covered, Listed
  <2>7. QED
    BY <2>1, <2>2, <2>3, <2>5, <2>6, OlderIs
<1>2. CASE DOMAIN disk \subseteq DOMAIN disk'
  BY <1>2 DEF OldestGoes
<1>3. CASE UNCHANGED disk
  BY <1>2, <1>3
<1>4. CASE Cleans
  <2>1. CASE PassStep
    BY <1>1, <1>3, <2>1 DEF PassStep, Look, Select, NextPhase
  <2>2. CASE UNCHANGED vars
    BY <1>3, <2>2 DEF vars
  <2>3. QED
    BY <1>4, <2>1, <2>2 DEF Cleans
<1>5. CASE WriterRuns \/ WriterStarts \/ WriterCloses
  BY <1>2, <1>5, WriterKeepsFiles DEF WriterRuns, WriterStarts, WriterCloses, Next, Serve
<1>6. CASE ProcessDies
  BY <1>2, <1>3, <1>6, WriterKeepsFiles DEF ProcessDies, Next, vars
<1>7. CASE UNCHANGED allVars
  BY <1>3, <1>7 DEF allVars, vars
<1>8. QED
  BY <1>4, <1>5, <1>6, <1>7 DEF CleanerNext

(* config.go:126-136: under the same two conditions, and while no removal   *)
(* failed, the limits on number and size cost the oldest files first.       *)
THEOREM OldestFilesGoFirst ==
  MaxSkew = 0 /\ MaxScanFaults = 0 => (CleanerSpec => OldestFirst)
<1> SUFFICES ASSUME MaxSkew = 0, MaxScanFaults = 0 PROVE CleanerSpec => OldestFirst
  OBVIOUS
<1>1. CleanerInv /\ [CleanerNext]_allVars => [OldestGoes]_allVars
  <2> SUFFICES ASSUME CleanerInv, [CleanerNext]_allVars PROVE OldestGoes
    OBVIOUS
  <2>1. ClockTypes /\ BoundTypes
    BY FileInvParts DEF CleanerInv
  <2>2. Steady
    BY <2>1 DEF ClockTypes, BoundTypes, Steady
  <2>3. QED
    BY <2>2, RemovesTheOldest
<1>2. CleanerSpec => [][OldestGoes]_allVars
  BY <1>1, CleanerInvariance, PTL DEF CleanerSpec
<1>3. QED
  BY <1>2 DEF OldestFirst, OldestGoes
-----------------------------------------------------------------------------
(* What a pass has seen, and what it leaves behind.                         *)
Active == FileOf(stamp, seq)
Weight(files) == SumFunctionOnSet([n \in DOMAIN seen |-> seen[n].size], files)

SeenTypes ==
    /\ \A n \in DOMAIN disk : mtime[n] \in Int
    /\ \A n \in DOMAIN seen : seen[n].size \in Nat /\ seen[n].mtime \in Int
    /\ started \in Int

(* As long as the file the writer had at the scan is the one it has, the    *)
(* other files are what the pass has seen of them.                          *)
SeenBehind ==
    /\ status = "open" \/ closing = "wait" => Active \in DOMAIN disk
    /\ pass # "none" =>
          /\ \A n \in DOMAIN seen : n \in Names /\ AtMost(n, Active)
          /\ Active \in DOMAIN seen =>
                /\ DOMAIN disk \subseteq DOMAIN seen
                /\ \A n \in DOMAIN disk : seen[n].size <= Len(disk[n])
                /\ \A n \in DOMAIN disk : n # Active => seen[n].size = Len(disk[n])

(* A pass nothing has disturbed so far: its lists hold each file once, and  *)
(* what it saw of them is what they are.                                    *)
Calm == Steady /\ faults = 0 /\ pass # "none" /\ Undisturbed

ListsExact ==
    /\ Listed = DOMAIN disk
    /\ \A n \in DOMAIN disk : mtime[n] = seen[n].mtime

Distinct(s) == \A i, j \in DOMAIN s : i < j => s[i] # s[j]

AgeApart ==
    phase = "age" =>
        /\ Distinct(todo) /\ Range(todo) \cap (Range(kept) \cup Range(doomed)) = {}
        /\ Range(kept) \cap Range(doomed) = {}
        /\ doomed # <<>> => Tail(doomed) = <<>>

(* What the phases have reached.                                            *)
Recent(n) == n = Active \/ seen[n].mtime >= started - MaxAge

AgeMet ==
    MaxAge > 0 =>
        /\ phase = "age" => \A n \in Range(kept) : Recent(n)
        /\ phase # "age" => \A n \in DOMAIN disk : Recent(n)

Counting == phase = "count" /\ (todo # <<>> \/ spare # <<>>)

CountMet ==
    MaxBackups > 0 =>
        /\ Counting =>
              /\ budget > 0 /\ Len(kept) + Len(spare) + Len(todo) = budget + MaxBackups
              /\ kept = <<>> \/ (Len(kept) = 1 /\ todo = <<>>)
        /\ phase = "count" /\ ~Counting => Len(kept) <= MaxBackups
        /\ phase \in {"total", "dir", "done"} => Cardinality(DOMAIN disk) <= MaxBackups

Allowed(ph) == IF ph = "total" THEN MaxTotalSize ELSE MaxDirSize - OtherLogs
Limited(ph) == (ph = "total" /\ MaxTotalSize > 0) \/ (ph = "dir" /\ MaxDirSize > 0)
Met(ph) == Others = {} \/ Weight(DOMAIN disk) <= Allowed(ph)

SizeMet ==
    /\ Limited(phase) =>
          /\ budget \in Int
          /\ Weight(DOMAIN disk \ Range(doomed)) <= budget + Allowed(phase)
          /\ budget > 0 => Range(kept) \subseteq {Active}
    /\ phase \in {"dir", "done"} /\ Limited("total") => Met("total")
    /\ phase = "done" /\ Limited("dir") => Met("dir")

LimitsMet == ListsExact /\ AgeApart /\ AgeMet /\ CountMet /\ SizeMet

PassInv ==
    /\ CleanerInv /\ SeenTypes
    /\ Steady => SeenBehind
    /\ Calm => LimitsMet

-----------------------------------------------------------------------------
(* The writer only adds to the end of the file it has.                      *)
Growth ==
    \A n \in DOMAIN disk :
        /\ n \in DOMAIN disk' /\ Len(disk[n]) \in Nat /\ Len(disk'[n]) \in Nat
        /\ Len(disk[n]) <= Len(disk'[n])
        /\ n # Active => disk'[n] = disk[n]
        /\ Len(disk'[n]) = Len(disk[n]) => disk'[n] = disk[n]

LEMMA SameIsGrowth ==
  ASSUME FileInv, \A n \in DOMAIN disk : n \in DOMAIN disk' /\ disk'[n] = disk[n]
  PROVE  Growth
<1>1. \A n \in DOMAIN disk : Len(disk[n]) \in Nat
  BY FileInvParts, LenProperties DEF DiskTypes
<1>2. QED
  BY <1>1 DEF Growth

LEMMA TakingIsGrowth ==
  ASSUME FileInv, OpenIsLinked, status = "open", NEW bytes \in Seq(Bytes), FileTakes(bytes)
  PROVE  Growth
<1>1. /\ DOMAIN disk' = DOMAIN disk /\ file \in DOMAIN disk /\ size = Len(disk[file])
      /\ \A n \in DOMAIN disk : n # file => disk'[n] = disk[n]
      /\ Len(disk'[file]) = size + Len(bytes)
  BY FileGrows
<1>2. file = Active /\ disk' = [disk EXCEPT ![file] = disk[file] \o bytes]
  BY FileInvParts DEF ActiveFile, Active, OpenIsLinked, FileTakes
<1>3. \A n \in DOMAIN disk : disk[n] \in Seq(Bytes) /\ Len(disk[n]) \in Nat
  BY FileInvParts, LenProperties DEF DiskTypes
<1>4. Len(bytes) \in Nat
  BY LenProperties
<1>5. ASSUME Len(disk'[file]) = Len(disk[file]) PROVE disk'[file] = disk[file]
  <2>1. Len(disk[file]) \in Nat
    BY <1>1, <1>3
  <2>2. Len(bytes) = 0
    BY <1>1, <1>4, <1>5, <2>1
  <2>3. bytes = <<>>
    BY <2>2, EmptySeq
  <2>4. disk[file] \o <<>> = disk[file]
    BY <1>1, <1>3, ConcatEmptySeq
  <2>5. QED
    BY <1>1, <1>2, <2>3, <2>4
<1>6. ASSUME NEW n \in DOMAIN disk
      PROVE  Len(disk'[n]) \in Nat /\ Len(disk[n]) <= Len(disk'[n])
  <2>1. CASE n = file
    BY <1>1, <1>3, <1>4, <2>1
  <2>2. CASE n # file
    BY <1>1, <1>3, <2>2
  <2>3. QED
    BY <2>1, <2>2
<1>7. QED
  BY <1>1, <1>2, <1>3, <1>5, <1>6 DEF Growth

LEMMA OpeningIsGrowth ==
  ASSUME FileInv, NEW now, NEW s, NEW q, Open(now, s, q) \/ OpenFails(s, q)
  PROVE  Growth
<1>1. CASE Open(now, s, q)
  <2>1. \A n \in DOMAIN disk : n \in DOMAIN disk' /\ disk'[n] = disk[n]
    BY <1>1 DEF Open, Exists
  <2>2. QED
    BY <2>1, SameIsGrowth
<1>2. CASE OpenFails(s, q)
  BY <1>2, SameIsGrowth DEF OpenFails
<1>3. QED
  BY <1>1, <1>2

LEMMA WritingIsGrowth ==
  ASSUME FileInv, OpenIsLinked, NEW c \in Calls, BeginWrite(c) \/ WriteStep(c)
  PROVE  Growth
<1>1. CASE BeginWrite(c)
  BY <1>1, SameIsGrowth DEF BeginWrite
<1>2. CASE Turn(c)
  BY <1>2, SameIsGrowth, OpeningIsGrowth DEF Turn, RotateOrReturn
<1>3. CASE RotateForRoom(c)
  BY <1>3, OpeningIsGrowth DEF RotateForRoom, RotateOrReturn
<1>4. ASSUME WritePortion(c) \/ WriteFails(c) PROVE Portion \in Seq(Bytes) /\ status = "open"
  BY <1>4, PortionIs, FileInvParts
     DEF WritePortion, WriteFails, CallTypes, FileTypes, BusyIsOpen, InFlight
<1>5. CASE WritePortion(c)
  BY <1>4, <1>5, TakingIsGrowth DEF WritePortion
<1>6. CASE WriteFails(c)
  <2>1. PICK n \in 0 .. Len(Portion) - 1 : FileTakes(SubSeq(Portion, 1, n))
    BY <1>6 DEF WriteFails
  <2>2. Portion \in Seq(Bytes) /\ status = "open" /\ Len(Portion) \in Nat
    BY <1>4, <1>6, LenProperties
  <2>3. SubSeq(Portion, 1, n) \in Seq(Bytes)
    <3>1. \A i \in 1 .. n : Portion[i] \in Bytes
      BY <2>2, ElementOfSeq
    <3>2. QED
      BY <2>2, <3>1, SubSeqProperties
  <2>4. QED
    BY <2>1, <2>2, <2>3, TakingIsGrowth
<1>7. QED
  BY <1>1, <1>2, <1>3, <1>5, <1>6 DEF WriteStep

(* What the cleaner sees of the writer while its pass is on.                *)
LEMMA WriterBeside ==
  ASSUME CleanerInv, WriterRuns \/ WriterCloses, Steady'
  PROVE  Steady /\ WriterGoesForward' /\ (Stays \/ Moves) /\ Growth
<1>1. FileInv /\ FileInv' /\ Next
  BY FileInvStep DEF CleanerInv, WriterRuns, WriterCloses, Next, Serve
<1>2. Steady /\ WriterGoesForward
  BY <1>1, FaultsStay DEF CleanerInv
<1>3. ~StepBack
  <2>1. skew \in Nat /\ skew' \in Nat
    BY <1>1, FileInvParts, FileInvPartsAfter DEF ClockTypes
  <2>2. QED
    BY <1>2, <2>1 DEF StepBack, Steady
<1>4. CASE CloseFile
  <2>1. Stays /\ Growth
    BY <1>1, <1>4, SameIsGrowth DEF CloseFile, Stays
  <2>2. QED
    BY <1>1, <1>2, <1>4, <2>1, EndGoesForward
<1>5. CASE Tick
  <2>1. Growth
    BY <1>1, <1>5, SameIsGrowth DEF Tick
  <2>2. QED
    BY <1>1, <1>2, <1>5, <2>1, TickGoesForward
<1>6. CASE Rotate
  <2>1. Growth
    BY <1>1, <1>6, OpeningIsGrowth DEF Rotate
  <2>2. QED
    BY <1>1, <1>2, <1>6, <2>1, RotateGoesForward
<1>7. ASSUME NEW c \in Calls, BeginWrite(c) \/ WriteStep(c)
      PROVE  WriterGoesForward' /\ (Stays \/ Moves) /\ Growth
  BY <1>1, <1>2, <1>7, WriteGoesForward, WritingIsGrowth DEF WriterGoesForward
<1>8. QED
  BY <1>2, <1>3, <1>4, <1>5, <1>6, <1>7 DEF WriterRuns, WriterCloses, Environment

-----------------------------------------------------------------------------
(* The steps beside a pass and around it.                                   *)
LEMMA MtimesAre ==
  ASSUME FileInv, SeenTypes, TrackMtime
  PROVE  /\ \A n \in DOMAIN disk' : mtime'[n] \in Int
         /\ \A n \in DOMAIN disk : n \in DOMAIN disk' /\ disk'[n] = disk[n] => mtime'[n] = mtime[n]
<1>1. Wall \in Int
  BY FileInvParts DEF ClockTypes, Wall
<1>2. \A n \in DOMAIN disk' :
         mtime'[n] = IF n \in DOMAIN disk /\ disk'[n] = disk[n] THEN mtime[n] ELSE Wall
  BY DEF TrackMtime, Exists
<1>3. QED
  BY <1>1, <1>2 DEF SeenTypes

LEMMA QuietKeepsLimits ==
  ASSUME LimitsMet, UNCHANGED passVars, UNCHANGED <<stamp, seq>>, DOMAIN disk' = DOMAIN disk,
         \A n \in DOMAIN disk : mtime'[n] = mtime[n]
  PROVE  LimitsMet'
<1>1. UNCHANGED <<pass, phase, seen, started, todo, kept, spare, doomed, budget, Active, Others>>
      /\ Listed' = Listed /\ Weight(DOMAIN disk)' = Weight(DOMAIN disk)
      /\ Weight(DOMAIN disk \ Range(doomed))' = Weight(DOMAIN disk \ Range(doomed))
  BY DEF passVars, Active, Others, Listed, Weight
<1>2. ListsExact' /\ AgeApart' /\ AgeMet'
  BY <1>1 DEF LimitsMet, ListsExact, AgeApart, AgeMet, Recent
<1>3. CountMet' /\ SizeMet'
  BY <1>1 DEF LimitsMet, CountMet, Counting, SizeMet, Limited, Allowed, Met
<1>4. QED
  BY <1>2, <1>3 DEF LimitsMet

(* What is undisturbed now has been so since the scan.                      *)
LEMMA WriterDisturbs ==
  ASSUME PassInv, Steady, pass # "none", Stays \/ Moves, Growth, UNCHANGED seen, Undisturbed'
  PROVE  /\ Undisturbed /\ UNCHANGED <<stamp, seq>> /\ DOMAIN disk' = DOMAIN disk
         /\ \A n \in DOMAIN disk : disk'[n] = disk[n]
<1>1. /\ FileInv /\ Active \in DOMAIN disk /\ stamp # None /\ Active \in Names
      /\ SeenTypes /\ SeenBehind
  <2>1. CleanerInv /\ SeenTypes /\ SeenBehind
    BY DEF PassInv
  <2>2. FileInv /\ stamp # None /\ (status = "open" \/ closing = "wait")
    BY <2>1 DEF CleanerInv, PassHasWriter, ListsBehind
  <2>3. QED
    BY <2>1, <2>2, ActiveIs DEF SeenBehind, Active
<1>2. CASE Moves
  <2>1. /\ Older(Active, Active') /\ Active' \in DOMAIN disk' /\ Active' \in Names
    BY <1>1, <1>2, NamesAre DEF Moves, Active
  <2>2. Active' \in DOMAIN seen
    BY <2>1 DEF Undisturbed
  <2>3. AtMost(Active', Active)
    BY <1>1, <2>2 DEF SeenBehind
  <2>4. QED
    BY <1>1, <2>1, <2>3, OlderIs DEF AtMost
<1>3. CASE Stays
  <2>1. UNCHANGED <<stamp, seq>> /\ DOMAIN disk' = DOMAIN disk
    BY <1>3 DEF Stays
  <2>2. Active \in DOMAIN seen /\ Len(disk'[Active]) = seen[Active].size
    BY <1>1, <2>1 DEF Undisturbed
  <2>3. seen[Active].size \in Nat /\ seen[Active].size <= Len(disk[Active])
    BY <1>1, <2>2 DEF SeenTypes, SeenBehind
  <2>4. Len(disk[Active]) \in Nat /\ Len(disk[Active]) <= Len(disk'[Active])
    BY <1>1 DEF Growth
  <2>5. Len(disk'[Active]) = Len(disk[Active])
    BY <2>2, <2>3, <2>4
  <2>6. \A n \in DOMAIN disk : disk'[n] = disk[n]
    BY <1>1, <2>5 DEF Growth
  <2>7. Undisturbed
    BY <2>1, <2>6 DEF Undisturbed
  <2>8. QED
    BY <2>1, <2>6, <2>7
<1>4. QED
  BY <1>2, <1>3

LEMMA WriterKeepsPass ==
  ASSUME PassInv, WriterRuns \/ WriterCloses, TrackMtime
  PROVE  PassInv'
<1>1. CleanerInv /\ CleanerInv' /\ FileInv /\ FileInv' /\ SeenTypes /\ PassHasWriter
  BY WriterRunsKeepsInv, WriterClosesKeepsInv DEF PassInv, CleanerInv
<1>2. UNCHANGED <<pass, seen, started>> /\ UNCHANGED passVars
  BY DEF WriterRuns, WriterCloses, passVars
<1>3. status' = "open" \/ closing' = "wait" => status = "open" \/ closing = "wait"
  BY DEF WriterRuns, BeginWrite, WriteStep, Turn, RotateForRoom, WritePortion, WriteFails, Rotate,
         Environment, Tick, StepBack, WriterCloses, CloseFile
<1>4. SeenTypes'
  BY <1>1, <1>2, MtimesAre DEF SeenTypes
<1>5. ASSUME Steady' PROVE Steady /\ SeenBehind /\ (Stays \/ Moves) /\ Growth
  BY <1>1, <1>5, WriterBeside DEF PassInv
<1>6. ASSUME Steady' PROVE SeenBehind'
  <2>1. status' = "open" \/ closing' = "wait" => Active' \in DOMAIN disk'
    BY <1>3, <1>5, <1>6 DEF SeenBehind, Stays, Moves, Active
  <2>2. ASSUME pass # "none"
        PROVE  /\ \A n \in DOMAIN seen : n \in Names /\ AtMost(n, Active')
               /\ Active' \in DOMAIN seen =>
                     /\ DOMAIN disk' \subseteq DOMAIN seen
                     /\ \A n \in DOMAIN disk' : seen[n].size <= Len(disk'[n])
                     /\ \A n \in DOMAIN disk' : n # Active' => seen[n].size = Len(disk'[n])
    <3>1. \A n \in DOMAIN seen : n \in Names /\ AtMost(n, Active) /\ seen[n].size \in Nat
      BY <1>1, <1>5, <1>6, <2>2 DEF SeenBehind, SeenTypes
    <3>2. CASE Moves
      <4>1. Older(Active, Active') /\ Active \in Names /\ Active' \in Names
        BY <1>1, <1>5, <1>6, <2>2, <3>2, ActiveIs, NamesAre
           DEF CleanerInv, ListsBehind, Moves, Active
      <4>2. \A n \in DOMAIN seen : Older(n, Active')
        BY <3>1, <4>1, OlderIs DEF AtMost
      <4>3. QED
        BY <3>1, <4>1, <4>2, OlderIs DEF AtMost
    <3>3. CASE Stays
      <4>1. Active' = Active /\ DOMAIN disk' = DOMAIN disk
        BY <3>3 DEF Stays, Active
      <4>2. ASSUME Active \in DOMAIN seen
            PROVE  /\ DOMAIN disk \subseteq DOMAIN seen
                   /\ \A n \in DOMAIN disk : seen[n].size <= Len(disk[n])
                   /\ \A n \in DOMAIN disk : n # Active => seen[n].size = Len(disk[n])
        BY <1>5, <1>6, <2>2, <4>2 DEF SeenBehind
      <4>3. \A n \in DOMAIN disk : /\ Len(disk[n]) \in Nat /\ Len(disk'[n]) \in Nat
                                   /\ Len(disk[n]) <= Len(disk'[n])
                                   /\ n # Active => disk'[n] = disk[n]
        BY <1>5, <1>6 DEF Growth
      <4>4. ASSUME Active \in DOMAIN seen, NEW n \in DOMAIN disk PROVE seen[n].size <= Len(disk'[n])
        <5>1. seen[n].size \in Nat /\ seen[n].size <= Len(disk[n])
          BY <3>1, <4>2, <4>4
        <5>2. QED
          BY <4>3, <5>1
      <4>5. QED
        BY <3>1, <4>1, <4>2, <4>3, <4>4
    <3>4. QED
      BY <1>5, <1>6, <3>2, <3>3
  <2>3. Active' = FileOf(stamp', seq')
    BY DEF Active
  <2>4. QED
    BY <1>2, <2>1, <2>2 DEF SeenBehind
<1>7. ASSUME Calm' PROVE LimitsMet'
  <2>1. Steady' /\ faults' = 0 /\ pass # "none" /\ Undisturbed'
    BY <1>2, <1>7 DEF Calm
  <2>2. faults = 0
    BY <1>1, <2>1, FaultsStay DEF WriterRuns, WriterCloses, Next, Serve
  <2>3. /\ Undisturbed /\ UNCHANGED <<stamp, seq>> /\ DOMAIN disk' = DOMAIN disk
        /\ \A n \in DOMAIN disk : disk'[n] = disk[n]
    BY <1>2, <1>5, <2>1, WriterDisturbs
  <2>4. LimitsMet
    BY <1>5, <2>1, <2>2, <2>3 DEF Calm, PassInv
  <2>5. \A n \in DOMAIN disk : mtime'[n] = mtime[n]
    BY <1>1, <2>3, MtimesAre
  <2>6. QED
    BY <1>2, <2>3, <2>4, <2>5, QuietKeepsLimits
<1>8. QED
  BY <1>1, <1>4, <1>6, <1>7 DEF PassInv

(* Between passes only the files' times and the active file count.          *)
LEMMA BetweenPasses ==
  ASSUME CleanerInv', SeenTypes', pass' = "none",
         Steady' => (status' = "open" \/ closing' = "wait" => Active' \in DOMAIN disk')
  PROVE  PassInv'
BY DEF PassInv, SeenBehind, Calm

LEMMA WriterStartsKeepsPass ==
  ASSUME PassInv, WriterStarts, TrackMtime
  PROVE  PassInv'
<1>1. CleanerInv' /\ FileInv /\ SeenTypes
  BY WriterStartsKeepsInv DEF PassInv, CleanerInv
<1>2. /\ closing # "wait" /\ Start /\ closing' = "no" /\ UNCHANGED <<pass, seen, started>>
  BY DEF WriterStarts, passVars
<1>3. pass = "none"
  BY <1>2 DEF PassInv, CleanerInv, PassHasWriter, Start
<1>4. SeenTypes'
  BY <1>1, <1>2, MtimesAre DEF SeenTypes
<1>5. status' = "open" => Active' \in DOMAIN disk'
  BY <1>2 DEF Start, Open, OpenFails, Active
<1>6. QED
  BY <1>1, <1>2, <1>3, <1>4, <1>5, BetweenPasses

LEMMA ProcessDiesKeepsPass ==
  ASSUME PassInv, ProcessDies, TrackMtime
  PROVE  PassInv'
<1>1. CleanerInv' /\ FileInv /\ SeenTypes
  BY ProcessDiesKeepsInv DEF PassInv, CleanerInv
<1>2. /\ pass' = "none" /\ closing' = "no" /\ DOMAIN seen' = {} /\ started' = 0
  BY DEF ProcessDies, NoPass
<1>3. SeenTypes'
  BY <1>1, <1>2, MtimesAre DEF SeenTypes
<1>4. status' # "open"
  BY DEF ProcessDies, Crash, vars, PassInv, CleanerInv, PassHasWriter
<1>5. QED
  BY <1>1, <1>2, <1>3, <1>4, BetweenPasses

LEMMA ListingIsDistinct ==
  ASSUME NEW files \in SUBSET Names, IsFiniteSet(files), NEW s, s = InOrder(files, ByName(files))
  PROVE  Distinct(s)
<1>1. StrictOrder(files, ByName(files))
  BY ListingIsStrict
<1>2. s \in Seq(files) /\ \A i, j \in DOMAIN s : i < j => <<s[i], s[j]>> \in ByName(files)
  BY <1>1, InOrderIs
<1>3. \A i \in DOMAIN s : s[i] \in files
  BY <1>2, LenProperties, ElementOfSeq
<1>4. QED
  BY <1>1, <1>2, <1>3 DEF Distinct, StrictOrder

LEMMA NothingIsDistinct == Distinct(<<>>)
BY EmptySeq DEF Distinct

(* The scan puts every file on the list, as it is.                          *)
LEMMA BeginPassKeepsPass ==
  ASSUME PassInv, CleanerInv', NEW who \in {"loop", "close"}, BeginPass(who), UNCHANGED vars,
         TrackMtime, closing' = "wait" => closing = "wait"
  PROVE  PassInv'
<1>1. /\ pass = "none" /\ CleanerInv /\ SeenTypes /\ FileInv /\ PassShape
      /\ UNCHANGED <<status, disk, stamp, seq, faults>> /\ (Steady' <=> Steady)
  BY DirectoryAlone DEF BeginPass, PassInv, CleanerInv
<1>2. \A n \in DOMAIN disk : mtime[n] \in Int /\ mtime'[n] = mtime[n]
  BY <1>1, MtimesAre DEF SeenTypes
<1>3. Steady => (status' = "open" \/ closing' = "wait" => Active' \in DOMAIN disk')
  BY <1>1 DEF PassInv, SeenBehind, Active
<1>4. CASE UNCHANGED passVars
  <2>1. pass' = "none" /\ UNCHANGED <<seen, started>>
    BY <1>1, <1>4 DEF passVars
  <2>2. SeenTypes'
    BY <1>1, <1>2, <2>1 DEF SeenTypes
  <2>3. QED
    BY <1>1, <1>3, <2>1, <2>2, BetweenPasses
<1>5. CASE /\ pass' = who /\ phase' = "age"
           /\ seen' = [n \in DOMAIN disk |-> [size |-> Len(disk[n]), mtime |-> mtime[n]]]
           /\ started' = Wall
           /\ todo' = IF MaxAge > 0 THEN Listing ELSE <<>>
           /\ kept' = IF MaxAge > 0 THEN <<>> ELSE Listing
           /\ UNCHANGED <<spare, doomed, budget>>
  <2>1. /\ DOMAIN seen' = DOMAIN disk
        /\ \A n \in DOMAIN disk : seen'[n].size = Len(disk[n]) /\ seen'[n].mtime = mtime[n]
    BY <1>5
  <2>2. \A n \in DOMAIN disk : Len(disk[n]) \in Nat
    BY <1>1, FileInvParts, LenProperties DEF DiskTypes
  <2>3. Wall \in Int
    BY <1>1, FileInvParts DEF ClockTypes, Wall
  <2>4. SeenTypes'
    BY <1>1, <1>2, <1>5, <2>1, <2>2, <2>3 DEF SeenTypes
  <2>5. DOMAIN disk \subseteq Names /\ IsFiniteSet(DOMAIN disk)
    BY <1>1, ActiveIs DEF CleanerInv
  <2>6. Range(Listing) = DOMAIN disk /\ Distinct(Listing)
    BY <2>5, ListedByName, ListingIsDistinct DEF Listing
  <2>7. ASSUME Steady PROVE SeenBehind'
    <3>1. \A n \in DOMAIN disk : n \in Names /\ AtMost(n, Active)
      BY <1>1, <2>5, <2>7 DEF CleanerInv, WriterGoesForward, ActiveIsNewest, Active
    <3>2. Active' = Active
      BY <1>1 DEF Active
    <3>3. \A n \in DOMAIN disk : seen'[n].size <= Len(disk[n])
      BY <2>1, <2>2
    <3>4. QED
      BY <1>1, <1>3, <2>1, <2>7, <3>1, <3>2, <3>3 DEF SeenBehind, AtMost
  <2>8. spare' = <<>> /\ doomed' = <<>>
    BY <1>1, <1>5 DEF PassShape
  <2>9. ListsExact'
    BY <1>1, <1>2, <1>5, <2>1, <2>6, <2>8, NothingListed DEF ListsExact, Listed
  <2>10. AgeApart'
    BY <1>5, <2>6, <2>8, NothingListed, NothingIsDistinct DEF AgeApart
  <2>11. AgeMet'
    BY <1>5, NothingListed DEF AgeMet
  <2>12. CountMet' /\ SizeMet'
    BY <1>5 DEF CountMet, Counting, SizeMet, Limited
  <2>13. QED
    BY <1>1, <2>4, <2>7, <2>9, <2>10, <2>11, <2>12 DEF PassInv, LimitsMet
<1>6. QED
  BY <1>4, <1>5 DEF BeginPass

LEMMA LoopKeepsPass ==
  ASSUME PassInv, LoopTick \/ EndPass \/ LoopStops \/ LastPass, UNCHANGED vars, TrackMtime
  PROVE  PassInv'
<1>1. CleanerInv' /\ CleanerInv /\ FileInv /\ SeenTypes
  BY LoopKeepsInv DEF PassInv, CleanerInv
<1>2. CASE LoopTick
  BY <1>1, <1>2, BeginPassKeepsPass DEF LoopTick
<1>3. CASE LastPass
  BY <1>1, <1>3, BeginPassKeepsPass DEF LastPass
<1>4. CASE EndPass \/ LoopStops
  <2>1. /\ pass' = "none" /\ (closing' = "wait" => closing = "wait")
        /\ UNCHANGED <<seen, started>> \/ (DOMAIN seen' = {} /\ started' = 0)
    BY <1>4 DEF EndPass, NoPass, LoopStops, passVars
  <2>2. SeenTypes'
    BY <1>1, <2>1, MtimesAre DEF SeenTypes
  <2>3. UNCHANGED <<status, disk, stamp, seq>> /\ (Steady' <=> Steady)
    BY <1>1, DirectoryAlone
  <2>4. Steady' => (status' = "open" \/ closing' = "wait" => Active' \in DOMAIN disk')
    BY <2>1, <2>3 DEF PassInv, SeenBehind, Active
  <2>5. QED
    BY <1>1, <2>1, <2>2, <2>4, BetweenPasses
<1>5. QED
  BY <1>2, <1>3, <1>4

-----------------------------------------------------------------------------
(* The steps of a pass: what the writer has is as it was.                   *)
LEMMA WeightIs ==
  ASSUME SeenTypes, NEW files \in SUBSET DOMAIN seen, IsFiniteSet(files)
  PROVE  /\ Weight(files) \in Nat
         /\ \A n \in files : Weight(files) = seen[n].size + Weight(files \ {n})
         /\ \A part \in SUBSET files : Weight(part) <= Weight(files)
<1> DEFINE f == [n \in DOMAIN seen |-> seen[n].size]
<1>1. \A n \in files : f[n] \in Nat /\ f[n] = seen[n].size
  BY DEF SeenTypes
<1>2. \A part : Weight(part) = SumFunctionOnSet(f, part)
  BY DEF Weight
<1> HIDE DEF f
<1>3. Weight(files) \in Nat
  BY <1>1, <1>2, SumType
<1>4. \A n \in files : Weight(files) = seen[n].size + Weight(files \ {n})
  BY <1>1, <1>2, SumTakes
<1>5. \A part \in SUBSET files : Weight(part) <= Weight(files)
  BY <1>1, <1>2, SumOfPart
<1>6. QED
  BY <1>3, <1>4, <1>5

LEMMA PassStepAlone ==
  ASSUME PassInv, CleanerInv', UNCHANGED vars, UNCHANGED <<pass, closing, seen, started>>, TrackMtime,
         Calm => LimitsMet'
  PROVE  PassInv'
<1>1. CleanerInv /\ FileInv /\ SeenTypes
  BY DEF PassInv, CleanerInv
<1>2. UNCHANGED <<status, disk, stamp, seq, faults>> /\ (Steady' <=> Steady)
  BY <1>1, DirectoryAlone
<1>3. SeenTypes'
  BY <1>1, MtimesAre DEF SeenTypes
<1>4. Steady => SeenBehind'
  BY <1>2 DEF PassInv, SeenBehind, Active, AtMost
<1>5. Calm' <=> Calm
  BY <1>2 DEF Calm, Undisturbed
<1>6. QED
  BY <1>2, <1>3, <1>4, <1>5 DEF PassInv

LEMMA TailIsDistinct ==
  ASSUME NEW s \in Seq(Names), s # <<>>, Distinct(s)
  PROVE  Distinct(Tail(s)) /\ Head(s) \notin Range(Tail(s))
<1> DEFINE t == Tail(s)
           l == Len(s)
<1>1. /\ l \in Nat /\ l > 0 /\ DOMAIN s = 1 .. l /\ Head(s) = s[1]
  BY EmptySeq, LenProperties
<1>2. t \in Seq(Names) /\ DOMAIN t = 1 .. l - 1 /\ \A i \in 1 .. l - 1 : t[i] = s[i + 1]
  BY HeadTailProperties, LenProperties
<1> HIDE DEF t, l
<1>3. \A i \in 1 .. l - 1 : i + 1 \in 1 .. l /\ 1 \in 1 .. l /\ 1 < i + 1
  BY <1>1
<1>4. \A i, j \in 1 .. l - 1 : i < j => i + 1 < j + 1
  BY <1>1
<1>5. Distinct(t)
  <2>1. ASSUME NEW i \in 1 .. l - 1, NEW j \in 1 .. l - 1, i < j PROVE t[i] # t[j]
    <3>1. i + 1 \in DOMAIN s /\ j + 1 \in DOMAIN s /\ i + 1 < j + 1
      BY <1>1, <1>3, <1>4, <2>1
    <3>2. s[i + 1] # s[j + 1]
      BY <3>1 DEF Distinct
    <3>3. QED
      BY <1>2, <3>2
  <2>2. QED
    BY <1>2, <2>1 DEF Distinct
<1>6. \A i \in 1 .. l - 1 : t[i] # s[1]
  BY <1>1, <1>2, <1>3 DEF Distinct
<1>7. QED
  BY <1>1, <1>2, <1>5, <1>6 DEF Range, t

LEMMA LookKeepsLimits ==
  ASSUME PassInv, Calm, Look, UNCHANGED vars, TrackMtime
  PROVE  LimitsMet'
<1> DEFINE n == Head(todo)
<1>1. /\ todo # <<>> /\ todo' = Tail(todo) /\ n \in Names
      /\ Range(todo) = {n} \cup Range(todo') /\ todo' \in Seq(Names)
      /\ Sorted(todo) => Sorted(todo') /\ \A m \in Range(todo') : Older(n, m)
      /\ doomed = <<>> /\ Range(doomed) = {}
      /\ phase \in {"age", "count", "total", "dir"}
      /\ UNCHANGED <<pass, phase, seen, started, disk, faults>>
  BY LookIs DEF PassInv
<1>2. \/ /\ ~IsActive(n) /\ phase = "count" /\ UNCHANGED <<kept, doomed, budget>>
         /\ spare' = Append(spare, n) /\ Range(spare') = Range(spare) \cup {n}
      \/ /\ Wanted(n) /\ ~IsActive(n) /\ phase # "count" /\ UNCHANGED <<kept, spare>>
         /\ doomed' = <<n>> /\ Range(doomed') = {n} /\ budget' = budget - seen[n].size
      \/ /\ Wanted(n) => IsActive(n)
         /\ kept' = Append(kept, n) /\ Range(kept') = Range(kept) \cup {n}
         /\ UNCHANGED <<spare, doomed, budget>>
  BY LookIs DEF PassInv
<1> HIDE DEF n
<1>3. /\ LimitsMet /\ CleanerInv /\ SeenTypes /\ FileInv /\ ListTypes /\ PassShape
      /\ Covered /\ InSequence /\ ListsBehind /\ IsFiniteSet(DOMAIN disk)
      /\ DOMAIN disk \subseteq DOMAIN seen
  BY DEF Calm, PassInv, CleanerInv, Undisturbed
<1>4. UNCHANGED <<stamp, seq>>
  BY <1>3, DirectoryAlone
<1>5. /\ Active' = Active /\ Others' = Others /\ \A files : Weight(files)' = Weight(files)
      /\ \A m \in DOMAIN disk : mtime'[m] = mtime[m]
  BY <1>1, <1>3, <1>4, MtimesAre DEF Active, Others, Weight
<1>6. n \in DOMAIN disk /\ n \in DOMAIN seen /\ (IsActive(n) <=> n = Active)
  BY <1>1, <1>3 DEF LimitsMet, ListsExact, Listed, IsActive, Active
<1>7. ListsExact'
  <2>1. Listed' = Listed
    BY <1>1, <1>2 DEF Listed
  <2>2. QED
    BY <1>1, <1>3, <1>5, <2>1 DEF LimitsMet, ListsExact
<1>8. AgeApart'
  <2> SUFFICES ASSUME phase = "age" PROVE AgeApart'
    BY <1>1 DEF AgeApart
  <2>1. /\ Distinct(todo) /\ Range(todo) \cap (Range(kept) \cup Range(doomed)) = {}
        /\ Range(kept) \cap Range(doomed) = {}
    BY <1>3 DEF LimitsMet, AgeApart
  <2>2. Distinct(todo') /\ n \notin Range(todo')
    BY <1>1, <1>3, <2>1, TailIsDistinct DEF ListTypes, n
  <2>3. Tail(<<n>>) = <<>>
    OBVIOUS
  <2>4. QED
    BY <1>1, <1>2, <2>1, <2>2, <2>3 DEF AgeApart
<1>9. AgeMet'
  <2>1. ASSUME MaxAge > 0, phase = "age", Wanted(n) => IsActive(n) PROVE Recent(n)
    <3>1. seen[n].mtime \in Int /\ started \in Int /\ MaxAge \in Nat
      BY <1>3, <1>6, CleanerConstants DEF SeenTypes
    <3>2. n = Active \/ ~(seen[n].mtime < started - MaxAge)
      BY <1>6, <2>1 DEF Wanted
    <3>3. QED
      BY <3>1, <3>2 DEF Recent
  <2>2. \A m : Recent(m)' <=> Recent(m)
    BY <1>1, <1>5 DEF Recent
  <2>3. QED
    BY <1>1, <1>2, <1>3, <2>1, <2>2 DEF LimitsMet, AgeMet
<1>10. CountMet'
  <2> SUFFICES ASSUME MaxBackups > 0, phase = "count" PROVE CountMet'
    BY <1>1, <1>3 DEF LimitsMet, CountMet, Counting
  <2>1. /\ budget > 0 /\ Len(kept) + Len(spare) + Len(todo) = budget + MaxBackups
        /\ kept = <<>>
    BY <1>1, <1>3 DEF LimitsMet, CountMet, Counting
  <2>2. /\ Len(kept) = 0 /\ Len(spare) \in Nat /\ Len(todo) \in Nat /\ Len(todo) > 0
        /\ Len(todo') = Len(todo) - 1 /\ MaxBackups \in Nat
    BY <1>1, <1>3, <2>1, EmptySeq, LenProperties, HeadTailProperties, CleanerConstants DEF ListTypes
  <2>3. CASE ~IsActive(n) /\ UNCHANGED <<kept, doomed, budget>> /\ spare' = Append(spare, n)
    <3>1. Len(spare') = Len(spare) + 1 /\ spare' # <<>>
      BY <1>1, <1>3, <2>3, AppendProperties DEF ListTypes
    <3>2. Len(kept') + Len(spare') + Len(todo') = budget' + MaxBackups
      BY <2>1, <2>2, <2>3, <3>1
    <3>3. QED
      BY <1>1, <2>1, <2>3, <3>1, <3>2 DEF CountMet, Counting
  <2>4. CASE Wanted(n) => IsActive(n)
    <3>1. n = Active /\ kept' = Append(kept, n) /\ UNCHANGED <<spare, doomed, budget>>
      BY <1>2, <1>6, <2>4 DEF Wanted
    <3>2. Range(todo') = {}
      <4>1. ASSUME NEW m \in Range(todo') PROVE FALSE
        <5>1. Older(n, m) /\ m \in Names /\ AtMost(m, n)
          BY <1>1, <1>3, <3>1, RangeOfSeq DEF InSequence, ListsBehind, Active
        <5>2. QED
          BY <1>1, <5>1, OlderIs DEF AtMost
      <4>2. QED
        BY <4>1
    <3>3. todo' = <<>>
      <4>1. Len(todo') \in Nat /\ DOMAIN todo' = 1 .. Len(todo')
        BY <1>1, LenProperties
      <4>2. DOMAIN todo' = {}
        BY <3>2 DEF Range
      <4>3. QED
        BY <1>1, <4>1, <4>2, EmptySeq
    <3>4. Len(kept') = 1 /\ Len(todo') = 0
      BY <1>1, <1>3, <2>2, <3>1, <3>3, AppendProperties, EmptySeq DEF ListTypes
    <3>5. Len(kept') + Len(spare') + Len(todo') = budget' + MaxBackups /\ Len(kept') <= MaxBackups
      BY <2>1, <2>2, <3>1, <3>4
    <3>6. QED
      BY <1>1, <2>1, <3>1, <3>3, <3>4, <3>5 DEF CountMet, Counting
  <2>5. QED
    BY <1>2, <2>3, <2>4
<1>11. SizeMet'
  <2>1. (Met("total")' <=> Met("total")) /\ (Met("dir")' <=> Met("dir"))
    BY <1>1, <1>5 DEF Met, Allowed
  <2>2. ASSUME Limited(phase)
        PROVE  /\ budget' \in Int
               /\ Weight(DOMAIN disk \ Range(doomed')) <= budget' + Allowed(phase)
               /\ budget' > 0 => Range(kept') \subseteq {Active}
    <3>1. /\ budget \in Int /\ Weight(DOMAIN disk) <= budget + Allowed(phase)
          /\ budget > 0 => Range(kept) \subseteq {Active}
      <4>1. DOMAIN disk \ Range(doomed) = DOMAIN disk
        BY <1>1
      <4>2. QED
        BY <1>3, <2>2, <4>1 DEF LimitsMet, SizeMet
    <3>2. phase \in {"total", "dir"} /\ Allowed(phase) \in Int /\ (Wanted(n) <=> budget > 0)
      <4>1. phase \in {"total", "dir"}
        BY <2>2 DEF Limited
      <4>2. Allowed(phase) \in Int
        BY CleanerConstants DEF Allowed
      <4>3. QED
        BY <4>1, <4>2 DEF Wanted
    <3>3. /\ Weight(DOMAIN disk) \in Nat /\ Weight(DOMAIN disk \ {n}) \in Nat
          /\ Weight(DOMAIN disk) = seen[n].size + Weight(DOMAIN disk \ {n})
          /\ seen[n].size \in Nat
      <4>1. IsFiniteSet(DOMAIN disk \ {n}) /\ DOMAIN disk \ {n} \subseteq DOMAIN seen
        BY <1>3, FS_Subset
      <4>2. QED
        BY <1>3, <1>6, <4>1, WeightIs DEF SeenTypes
    <3>4. CASE /\ Wanted(n) /\ UNCHANGED <<kept, spare>> /\ Range(doomed') = {n}
               /\ budget' = budget - seen[n].size
      BY <3>1, <3>2, <3>3, <3>4
    <3>5. CASE /\ Wanted(n) => IsActive(n)
               /\ Range(kept') = Range(kept) \cup {n} /\ UNCHANGED <<spare, doomed, budget>>
      <4>1. DOMAIN disk \ Range(doomed') = DOMAIN disk
        BY <1>1, <3>5
      <4>2. QED
        BY <1>6, <3>1, <3>2, <3>5, <4>1
    <3>6. QED
      BY <1>2, <3>2, <3>4, <3>5
  <2>3. QED
    BY <1>1, <1>3, <1>5, <2>1, <2>2 DEF LimitsMet, SizeMet, Limited, Allowed
<1>12. QED
  BY <1>7, <1>8, <1>9, <1>10, <1>11 DEF LimitsMet

(* The bytes of the directory, from what the pass has seen of it.           *)
LEMMA DirTotalIs ==
  ASSUME SeenTypes, IsFiniteSet(DOMAIN disk), DOMAIN disk \subseteq DOMAIN seen,
         \A n \in DOMAIN disk : seen[n].size = Len(disk[n])
  PROVE  DirLogTotal = OtherLogs + Weight(DOMAIN disk)
<1> DEFINE f == [n \in DOMAIN seen |-> seen[n].size]
           e == [n \in DOMAIN disk |-> Len(disk[n])]
<1>1. \A n \in DOMAIN disk : f[n] \in Nat /\ f[n] = e[n]
  BY DEF SeenTypes
<1>2. Weight(DOMAIN disk) = SumFunctionOnSet(f, DOMAIN disk)
      /\ DirLogTotal = OtherLogs + SumFunctionOnSet(e, DOMAIN disk)
  BY DEF Weight, DirLogTotal
<1> HIDE DEF f, e
<1>3. QED
  BY <1>1, <1>2, SumSame

LEMMA SelectKeepsLimits ==
  ASSUME PassInv, Calm, Select, UNCHANGED vars, TrackMtime
  PROVE  LimitsMet'
<1> DEFINE k == IF budget > Len(spare) THEN Len(spare) ELSE budget
           gone == SubSeq(spare, 1, k)
           left == SubSeq(spare, k + 1, Len(spare))
<1>1. /\ phase = "count" /\ todo = <<>> /\ spare # <<>>
      /\ doomed' = gone /\ kept' = left \o kept /\ spare' = <<>>
      /\ UNCHANGED <<pass, phase, seen, started, todo, budget, disk, faults>>
  BY DEF Select, Excess
<1>2. /\ LimitsMet /\ CleanerInv /\ SeenTypes /\ FileInv /\ ListTypes /\ PassShape
  BY DEF Calm, PassInv, CleanerInv
<1>3. /\ budget \in Nat /\ Len(spare) \in Nat /\ Len(kept) \in Nat /\ doomed = <<>>
      /\ spare \in Seq(Names) /\ kept \in Seq(Names)
  BY <1>1, <1>2, LenProperties DEF PassShape, ListTypes
<1>4. k \in 0 .. Len(spare) /\ (k = budget \/ (k = Len(spare) /\ budget > Len(spare)))
  BY <1>3
<1> HIDE DEF k
<1>5. gone \in Seq(Names) /\ left \in Seq(Names) /\ Range(spare) = Range(gone) \cup Range(left)
  BY <1>3, <1>4, CutInTwo
<1>6. Len(left) = Len(spare) - k
  <2>1. k + 1 \in Int /\ k \in Int
    BY <1>4
  <2>2. \A i \in k + 1 .. Len(spare) : spare[i] \in Names
    BY <1>3, <1>4, ElementOfSeq
  <2>3. Len(left) = IF k + 1 <= Len(spare) THEN Len(spare) - (k + 1) + 1 ELSE 0
    BY <1>3, <2>1, <2>2, SubSeqProperties
  <2>4. QED
    BY <1>3, <1>4, <2>3
<1> HIDE DEF gone, left
<1>7. Range(kept') = Range(left) \cup Range(kept) /\ Len(kept') = Len(left) + Len(kept)
  BY <1>1, <1>3, <1>5, RangeConcatenation, ConcatProperties
<1>8. UNCHANGED <<stamp, seq>>
  BY <1>2, DirectoryAlone
<1>9. Active' = Active /\ \A m \in DOMAIN disk : mtime'[m] = mtime[m]
  BY <1>1, <1>2, <1>8, MtimesAre DEF Active
<1>10. ListsExact'
  <2>1. Listed' = Listed
    BY <1>1, <1>3, <1>5, <1>7, NothingListed DEF Listed
  <2>2. QED
    BY <1>1, <1>2, <1>9, <2>1 DEF LimitsMet, ListsExact
<1>11. AgeApart' /\ AgeMet' /\ SizeMet'
  BY <1>1, <1>2, <1>9 DEF LimitsMet, AgeApart, AgeMet, Recent, SizeMet, Limited
<1>12. CountMet'
  <2> SUFFICES ASSUME MaxBackups > 0 PROVE Len(kept') <= MaxBackups
    BY <1>1 DEF CountMet, Counting
  <2>1. /\ budget > 0 /\ Len(kept) + Len(spare) + Len(todo) = budget + MaxBackups
        /\ Len(kept) = 0 \/ Len(kept) = 1
    BY <1>1, <1>2, EmptySeq DEF LimitsMet, CountMet, Counting
  <2>2. Len(todo) = 0 /\ MaxBackups \in Nat
    BY <1>1, EmptySeq, CleanerConstants
  <2>3. Len(kept') = (Len(spare) - k) + Len(kept) /\ Len(kept) + Len(spare) = budget + MaxBackups
    BY <1>3, <1>6, <1>7, <2>1, <2>2
  <2>4. CASE k = budget
    BY <1>3, <2>2, <2>3, <2>4
  <2>5. CASE k = Len(spare)
    BY <1>3, <2>1, <2>2, <2>3, <2>5
  <2>6. QED
    BY <1>4, <2>4, <2>5
<1>13. QED
  BY <1>10, <1>11, <1>12 DEF LimitsMet

LEMMA NextPhaseKeepsLimits ==
  ASSUME PassInv, Calm, NextPhase, UNCHANGED vars, TrackMtime
  PROVE  LimitsMet'
<1> DEFINE files == InOrder(Range(kept), ByDate(Range(kept)))
           ph == Following[phase]
<1>1. /\ phase \in {"age", "count", "total", "dir"}
      /\ (phase = "age" /\ ph = "count") \/ (phase = "count" /\ ph = "total")
         \/ (phase = "total" /\ ph = "dir") \/ (phase = "dir" /\ ph = "done")
      /\ todo = <<>> /\ spare = <<>> /\ doomed = <<>>
      /\ phase' = ph /\ budget' = Surplus(ph, files)
      /\ \/ budget' > 0 /\ todo' = files /\ kept' = <<>>
         \/ ~(budget' > 0) /\ todo' = <<>> /\ kept' = files
      /\ UNCHANGED <<pass, seen, started, spare, doomed, disk, faults>>
  BY DEF NextPhase, Following
<1>2. /\ LimitsMet /\ CleanerInv /\ SeenTypes /\ FileInv /\ ListTypes
      /\ DOMAIN disk \subseteq DOMAIN seen /\ IsFiniteSet(DOMAIN disk)
      /\ \A m \in DOMAIN disk : seen[m].size = Len(disk[m])
  BY DEF Calm, PassInv, CleanerInv, Undisturbed
<1>3. files \in Seq(Names) /\ Range(files) = Range(kept)
  <2>1. Range(kept) \in SUBSET Names
    BY <1>2, RangeOfSeq DEF ListTypes
  <2>2. IsFiniteSet(Range(kept))
    BY <1>2, RangeIsSmall DEF ListTypes
  <2>3. QED
    BY <2>1, <2>2, SortedByDate
<1> HIDE DEF files, ph
<1>4. /\ Range(todo) = {} /\ Range(spare) = {} /\ Range(doomed) = {} /\ Range(spare') = {}
      /\ Range(doomed') = {} /\ Range(todo') \cup Range(kept') = Range(kept)
  BY <1>1, <1>3, NothingListed
<1>5. Range(kept) = DOMAIN disk /\ Listed' = DOMAIN disk
  BY <1>2, <1>4 DEF LimitsMet, ListsExact, Listed
<1>6. UNCHANGED <<stamp, seq>>
  BY <1>2, DirectoryAlone
<1>7. /\ Active' = Active /\ Others' = Others /\ \A s : Weight(s)' = Weight(s)
      /\ \A m \in DOMAIN disk : mtime'[m] = mtime[m]
  BY <1>1, <1>2, <1>6, MtimesAre DEF Active, Others, Weight
<1>8. ListsExact' /\ AgeApart'
  BY <1>1, <1>2, <1>5, <1>7 DEF LimitsMet, ListsExact, AgeApart
<1>9. AgeMet'
  <2>1. \A m : Recent(m)' <=> Recent(m)
    BY <1>1, <1>7 DEF Recent
  <2>2. QED
    BY <1>1, <1>2, <1>5, <2>1 DEF LimitsMet, AgeMet
<1>10. CountMet'
  <2> SUFFICES ASSUME MaxBackups > 0 PROVE CountMet'
    BY DEF CountMet
  <2>1. MaxBackups \in Nat /\ Len(files) \in Nat /\ Len(<<>>) = 0
    BY <1>3, EmptySeq, LenProperties, CleanerConstants
  <2>2. CASE ph = "count"
    <3>1. budget' = Len(files) - MaxBackups
      BY <1>1, <2>2 DEF Surplus, BackupSurplus
    <3>2. CASE budget' > 0
      <4>1. todo' = files /\ kept' = <<>> /\ spare' = <<>> /\ files # <<>>
        BY <1>1, <2>1, <3>1, <3>2
      <4>2. Len(kept') + Len(spare') + Len(todo') = budget' + MaxBackups
        BY <2>1, <3>1, <4>1
      <4>3. QED
        BY <1>1, <2>2, <3>2, <4>1, <4>2 DEF CountMet, Counting
    <3>3. CASE ~(budget' > 0)
      <4>1. todo' = <<>> /\ kept' = files /\ spare' = <<>>
        BY <1>1, <3>3
      <4>2. Len(kept') <= MaxBackups
        BY <2>1, <3>1, <3>3, <4>1
      <4>3. QED
        BY <1>1, <2>2, <4>1, <4>2 DEF CountMet, Counting
    <3>4. QED
      BY <3>2, <3>3
  <2>3. CASE phase = "count"
    <3>1. Len(kept) <= MaxBackups /\ Len(kept) \in Nat
      BY <1>1, <1>2, <2>3, LenProperties DEF LimitsMet, CountMet, Counting, ListTypes
    <3>2. Cardinality(DOMAIN disk) <= Len(kept) /\ Cardinality(DOMAIN disk) \in Nat
      BY <1>2, <1>5, RangeIsSmall, FS_CardinalityType DEF ListTypes
    <3>3. Cardinality(DOMAIN disk) <= MaxBackups
      BY <2>1, <3>1, <3>2
    <3>4. QED
      BY <1>1, <2>3, <3>3 DEF CountMet, Counting
  <2>4. CASE phase \in {"total", "dir"}
    BY <1>1, <1>2, <2>4 DEF LimitsMet, CountMet, Counting
  <2>5. QED
    BY <1>1, <2>2, <2>3, <2>4
<1>11. Weight(DOMAIN disk) \in Nat
  BY <1>2, WeightIs
<1>12. ASSUME Limited(phase) PROVE Met(phase)
  <2>1. /\ budget \in Int /\ Weight(DOMAIN disk) <= budget + Allowed(phase)
        /\ budget > 0 => Range(kept) \subseteq {Active}
    <3>1. DOMAIN disk \ Range(doomed) = DOMAIN disk
      BY <1>4
    <3>2. QED
      BY <1>2, <1>12, <3>1 DEF LimitsMet, SizeMet
  <2>2. CASE budget > 0
    BY <1>5, <2>1, <2>2 DEF Met, Others, Active
  <2>3. CASE ~(budget > 0)
    <3>1. Allowed(phase) \in Int
      BY CleanerConstants DEF Allowed
    <3>2. Weight(DOMAIN disk) <= Allowed(phase)
      BY <1>11, <2>1, <2>3, <3>1
    <3>3. QED
      BY <3>2 DEF Met
  <2>4. QED
    BY <2>2, <2>3
<1>13. ASSUME Limited(ph)
       PROVE  /\ budget' \in Int
              /\ Weight(DOMAIN disk) <= budget' + Allowed(ph)
              /\ budget' > 0 => Range(kept') \subseteq {Active}
  <2>1. budget' > 0 => Range(kept') = {}
    BY <1>1, NothingListed
  <2>2. CASE ph = "total"
    <3>1. budget' = Weight(DOMAIN disk) - MaxTotalSize /\ Allowed(ph) = MaxTotalSize
      BY <1>1, <1>3, <1>5, <1>13, <2>2 DEF Limited, Surplus, BytesOf, Weight, Allowed
    <3>2. QED
      BY <1>11, <2>1, <3>1, CleanerConstants
  <2>3. CASE ph = "dir"
    <3>1. DirLogTotal = OtherLogs + Weight(DOMAIN disk)
      BY <1>2, DirTotalIs
    <3>2. budget' = DirLogTotal - MaxDirSize
      BY <1>1, <1>13, <2>3 DEF Limited, Surplus
    <3>3. Allowed(ph) = MaxDirSize - OtherLogs
      BY <2>3 DEF Allowed
    <3>4. OtherLogs \in Nat /\ MaxDirSize \in Nat
      BY CleanerConstants
    <3>5. QED
      BY <1>11, <2>1, <3>1, <3>2, <3>3, <3>4
  <2>4. QED
    BY <1>13, <2>2, <2>3 DEF Limited
<1>14. SizeMet'
  <2>1. (Met("total")' <=> Met("total")) /\ (Met("dir")' <=> Met("dir"))
    BY <1>1, <1>7 DEF Met, Allowed
  <2>2. Weight(DOMAIN disk \ Range(doomed))' = Weight(DOMAIN disk)
    <3>1. DOMAIN disk' \ Range(doomed') = DOMAIN disk
      BY <1>1, <1>4
    <3>2. QED
      BY <1>1, <3>1 DEF Weight
  <2>3. Limited(phase') =>
           /\ budget' \in Int
           /\ Weight(DOMAIN disk \ Range(doomed))' <= budget' + Allowed(phase')
           /\ budget' > 0 => Range(kept') \subseteq {Active'}
    BY <1>1, <1>7, <1>13, <2>2
  <2>4. phase' \in {"dir", "done"} /\ Limited("total") => Met("total")
    BY <1>1, <1>2, <1>12 DEF LimitsMet, SizeMet
  <2>5. phase' = "done" /\ Limited("dir") => Met("dir")
    BY <1>1, <1>12
  <2>6. QED
    BY <1>1, <2>1, <2>3, <2>4, <2>5 DEF SizeMet, Limited, Allowed
<1>15. QED
  BY <1>8, <1>9, <1>10, <1>14 DEF LimitsMet

(* A removed file is one of the lists' and none of the pass's business then. *)
LEMMA RemoveFileKeepsPass ==
  ASSUME PassInv, RemoveFile, UNCHANGED <<writerVars, loop, closing>>, TrackMtime
  PROVE  PassInv'
<1> DEFINE n == Head(doomed)
<1>1. /\ doomed # <<>> /\ doomed' = Tail(doomed)
      /\ UNCHANGED <<pass, phase, seen, started, todo, kept, spare, budget>>
      /\ \/ disk' = [m \in DOMAIN disk \ {n} |-> disk[m]] /\ faults' = faults
         \/ UNCHANGED disk /\ faults' = faults + 1
  BY DEF RemoveFile
<1>2. /\ CleanerInv /\ CleanerInv' /\ FileInv /\ SeenTypes /\ ListTypes /\ PassShape
      /\ IsFiniteSet(DOMAIN disk)
  BY RemoveFileKeepsInv DEF PassInv, CleanerInv
<1>3. UNCHANGED <<status, stamp, seq, closing, skew, scanFaults>> /\ (Steady' <=> Steady)
  BY DEF writerVars, clockVars, Steady
<1>4. /\ n \in Names /\ Range(doomed) = {n} \cup Range(doomed')
      /\ Sorted(doomed) => \A m \in Range(doomed') : Older(n, m)
  BY <1>1, <1>2, FirstOf DEF ListTypes
<1> HIDE DEF n
<1>5. /\ pass # "none" /\ phase \in {"age", "count", "total", "dir"}
  BY <1>1, <1>2 DEF PassShape
<1>6. /\ DOMAIN disk' \subseteq DOMAIN disk /\ \A m \in DOMAIN disk : m = n \/ m \in DOMAIN disk'
      /\ \A m \in DOMAIN disk' : disk'[m] = disk[m]
  BY <1>1
<1>7. /\ Active' = Active
      /\ \A m \in DOMAIN disk' : mtime'[m] = mtime[m]
  BY <1>2, <1>3, <1>6, MtimesAre DEF Active
<1>8. SeenTypes'
  BY <1>1, <1>2, MtimesAre DEF SeenTypes
<1>9. ASSUME Steady PROVE SeenBehind /\ Active \in DOMAIN disk' /\ n # Active
  <2>1. SeenBehind /\ PassHasWriter /\ Older(n, Active) /\ Active \in Names
    BY <1>2, <1>4, <1>5, <1>9, ActiveIs DEF PassInv, CleanerInv, ListsBehind, Active
  <2>2. Active \in DOMAIN disk
    BY <1>5, <2>1 DEF PassHasWriter, SeenBehind
  <2>3. n # Active
    BY <2>1, OlderIs
  <2>4. QED
    BY <1>6, <2>1, <2>2, <2>3
<1>10. ASSUME Steady PROVE SeenBehind'
  BY <1>1, <1>3, <1>5, <1>6, <1>7, <1>9, <1>10 DEF SeenBehind, AtMost
<1>11. ASSUME Calm' PROVE LimitsMet'
  <2>1. Steady /\ faults' = 0 /\ Undisturbed' /\ SeenBehind /\ Active \in DOMAIN disk'
    BY <1>3, <1>9, <1>11 DEF Calm
  <2>2. faults \in Nat
    BY <1>2, FileInvParts, Basics DEF BoundTypes
  <2>3. faults = 0 /\ disk' = [m \in DOMAIN disk \ {n} |-> disk[m]]
        /\ DOMAIN disk' = DOMAIN disk \ {n}
    BY <1>1, <2>1, <2>2
  <2>4. Undisturbed
    <3>1. Active \in DOMAIN seen /\ Len(disk[Active]) = seen[Active].size
      BY <1>1, <1>6, <2>1 DEF Undisturbed
    <3>2. QED
      BY <1>5, <2>1, <3>1 DEF SeenBehind, Undisturbed
  <2>5. /\ LimitsMet /\ InSequence /\ DOMAIN disk \subseteq DOMAIN seen
    BY <1>2, <1>5, <2>1, <2>3, <2>4 DEF Calm, PassInv, CleanerInv, Undisturbed
  <2>6. n \notin Range(doomed') \cup Range(todo) \cup Range(kept) \cup Range(spare)
    <3>1. CASE phase = "age"
      <4>1. doomed' = <<>> /\ spare = <<>> /\ n \in Range(doomed)
        BY <1>1, <1>2, <1>4, <2>5, <3>1 DEF LimitsMet, AgeApart, PassShape
      <4>2. QED
        BY <2>5, <3>1, <4>1, NothingListed DEF LimitsMet, AgeApart
    <3>2. CASE phase # "age"
      BY <1>4, <1>5, <2>5, <3>2, OlderIs DEF InSequence
    <3>3. QED
      BY <3>1, <3>2
  <2>7. ListsExact'
    BY <1>1, <1>4, <1>6, <1>7, <2>3, <2>5, <2>6 DEF LimitsMet, ListsExact, Listed
  <2>8. AgeApart'
    BY <1>1, <1>4, <2>5, NothingListed DEF LimitsMet, AgeApart
  <2>9. AgeMet'
    BY <1>1, <1>6, <1>7, <2>5 DEF LimitsMet, AgeMet, Recent
  <2>10. CountMet'
    <3>1. Cardinality(DOMAIN disk') <= Cardinality(DOMAIN disk)
          /\ Cardinality(DOMAIN disk') \in Nat /\ Cardinality(DOMAIN disk) \in Nat
      BY <1>2, <1>6, FS_Subset, FS_CardinalityType
    <3>2. ASSUME MaxBackups > 0, Cardinality(DOMAIN disk) <= MaxBackups
          PROVE  Cardinality(DOMAIN disk') <= MaxBackups
      BY <3>1, <3>2, CleanerConstants
    <3>3. QED
      BY <1>1, <2>5, <3>2 DEF LimitsMet, CountMet, Counting
  <2>11. SizeMet'
    <3>1. DOMAIN disk' \ Range(doomed') = DOMAIN disk \ Range(doomed)
      BY <1>4, <2>3
    <3>2. Weight(DOMAIN disk \ Range(doomed))' = Weight(DOMAIN disk \ Range(doomed))
      BY <1>1, <3>1 DEF Weight
    <3>3. ASSUME NEW ph, Met(ph) PROVE Met(ph)'
      <4>1. /\ Weight(DOMAIN disk) \in Nat /\ Weight(DOMAIN disk') \in Nat
            /\ Weight(DOMAIN disk') <= Weight(DOMAIN disk)
        <5>1. IsFiniteSet(DOMAIN disk') /\ DOMAIN disk' \in SUBSET DOMAIN seen
          BY <1>2, <1>6, <2>5, FS_Subset
        <5>2. QED
          BY <1>2, <1>6, <2>5, <5>1, WeightIs
      <4>2. Weight(DOMAIN disk)' = Weight(DOMAIN disk')
        BY <1>1 DEF Weight
      <4>3. Others' \subseteq Others
        BY <1>6, <1>7 DEF Others, Active
      <4>4. Allowed(ph) \in Int
        BY CleanerConstants DEF Allowed
      <4>5. QED
        BY <3>3, <4>1, <4>2, <4>3, <4>4 DEF Met, Allowed
    <3>4. (Met("total") => Met("total")') /\ (Met("dir") => Met("dir")')
      BY <3>3
    <3>5. QED
      BY <1>1, <1>7, <2>5, <3>2, <3>4 DEF LimitsMet, SizeMet, Limited, Allowed
  <2>12. QED
    BY <2>7, <2>8, <2>9, <2>10, <2>11 DEF LimitsMet
<1>12. QED
  BY <1>2, <1>3, <1>8, <1>10, <1>11 DEF PassInv

LEMMA PassInvInit ==
  ASSUME CleanerInit
  PROVE  PassInv
<1>1. CleanerInv
  BY CleanerInvInit
<1>2. /\ DOMAIN disk = {} /\ DOMAIN seen = {} /\ started = 0 /\ pass = "none"
      /\ status = "down" /\ closing = "no"
  BY DEF CleanerInit, Init
<1>3. QED
  BY <1>1, <1>2 DEF PassInv, SeenTypes, SeenBehind, Calm

LEMMA PassInvStep ==
  ASSUME PassInv, [CleanerNext]_allVars
  PROVE  PassInv'
<1>1. ASSUME PassStep, UNCHANGED <<writerVars, loop, closing>>, TrackMtime PROVE PassInv'
  <2>1. CleanerInv /\ CleanerInv' /\ closing' = closing
    BY <1>1, LookKeepsInv, SelectKeepsInv, RemoveFileKeepsInv, NextPhaseKeepsInv
       DEF PassInv, PassStep
  <2>2. CASE RemoveFile
    BY <1>1, <2>2, RemoveFileKeepsPass
  <2>3. CASE Look \/ Select \/ NextPhase
    <3>1. UNCHANGED <<pass, seen, started, disk, linked, faults>>
      BY <2>3 DEF Look, Select, NextPhase
    <3>2. UNCHANGED vars
      BY <1>1, <3>1 DEF writerVars, vars, clockVars, fileVars, callVars, boundVars, pastVars
    <3>3. Calm => LimitsMet'
      BY <1>1, <2>3, <3>2, LookKeepsLimits, SelectKeepsLimits, NextPhaseKeepsLimits
    <3>4. QED
      BY <1>1, <2>1, <3>1, <3>2, <3>3, PassStepAlone
  <2>4. QED
    BY <1>1, <2>2, <2>3 DEF PassStep
<1>2. CASE UNCHANGED allVars
  <2>1. CleanerInv' /\ UNCHANGED vars /\ UNCHANGED cleanerVars
    BY <1>2, CleanerInvStep DEF PassInv, allVars
  <2>2. UNCHANGED <<status, disk, stamp, seq, faults>> /\ (Steady' <=> Steady)
    BY <2>1, DirectoryAlone DEF PassInv
  <2>3. UNCHANGED <<mtime, closing, pass, seen, started>> /\ UNCHANGED passVars
    BY <2>1 DEF cleanerVars, passVars
  <2>4. SeenTypes' /\ (Steady' => SeenBehind')
    BY <2>2, <2>3 DEF PassInv, SeenTypes, SeenBehind, Active, AtMost
  <2>5. Calm' => LimitsMet'
    <3>1. Calm' <=> Calm
      BY <2>2, <2>3 DEF Calm, Undisturbed
    <3>2. QED
      BY <2>2, <2>3, <3>1, QuietKeepsLimits DEF PassInv
  <2>6. QED
    BY <2>1, <2>4, <2>5 DEF PassInv
<1>3. CASE CleanerNext
  <2>1. CASE Cleans
    BY <1>1, <1>3, <2>1, LoopKeepsPass DEF CleanerNext, Cleans
  <2>2. QED
    BY <1>3, <2>1, WriterKeepsPass, WriterStartsKeepsPass, ProcessDiesKeepsPass DEF CleanerNext
<1>4. QED
  BY <1>2, <1>3

(* config.go:126-136: under the same two conditions, a pass that no write   *)
(* and no rotation disturbed and that could remove what it wanted to leaves *)
(* the directory within all four limits, whatever they are and whatever the *)
(* sizes and the dates of the files; only the file being written may exceed *)
(* them.                                                                    *)
THEOREM PassLeavesLimitsMet ==
  MaxSkew = 0 /\ MaxScanFaults = 0 => (CleanerSpec => []PassMeetsLimits)
<1> SUFFICES ASSUME MaxSkew = 0, MaxScanFaults = 0 PROVE CleanerSpec => []PassMeetsLimits
  OBVIOUS
<1>1. CleanerInit => PassInv
  BY PassInvInit
<1>2. PassInv /\ [CleanerNext]_allVars => PassInv'
  BY PassInvStep
<1>3. PassInv => PassMeetsLimits
  <2> SUFFICES ASSUME PassInv, phase = "done", Undisturbed, faults = 0 PROVE PassMeetsLimits
    BY DEF PassMeetsLimits
  <2>1. CleanerInv /\ FileInv /\ SeenTypes /\ PassShape /\ IsFiniteSet(DOMAIN disk)
    BY DEF PassInv, CleanerInv
  <2>2. Calm
    BY <2>1, FileInvParts DEF ClockTypes, BoundTypes, Calm, Steady, PassShape
  <2>3. /\ ListsExact /\ AgeMet /\ CountMet /\ SizeMet
    BY <2>2 DEF PassInv, LimitsMet
  <2>4. MaxBackups > 0 => Cardinality(DOMAIN disk) <= MaxBackups
    BY <2>3 DEF CountMet
  <2>5. MaxAge > 0 => \A n \in Others : mtime[n] >= started - MaxAge
    BY <2>3 DEF AgeMet, Recent, ListsExact, Others, Active
  <2>6. DirLogTotal = OtherLogs + Weight(DOMAIN disk) /\ Weight(DOMAIN disk) \in Nat
    BY <2>1, DirTotalIs, WeightIs DEF Undisturbed
  <2>7. /\ MaxTotalSize > 0 /\ Others # {} => Weight(DOMAIN disk) <= MaxTotalSize
        /\ MaxDirSize > 0 /\ Others # {} => Weight(DOMAIN disk) <= MaxDirSize - OtherLogs
    BY <2>3 DEF SizeMet, Limited, Met, Allowed
  <2>8. /\ MaxTotalSize > 0 /\ Others # {} => DirLogTotal - OtherLogs <= MaxTotalSize
        /\ MaxDirSize > 0 /\ Others # {} => DirLogTotal <= MaxDirSize
    BY <2>6, <2>7, CleanerConstants
  <2>9. QED
    BY <2>4, <2>5, <2>8 DEF PassMeetsLimits
<1>4. QED
  BY <1>1, <1>2, <1>3, PTL DEF CleanerSpec
=============================================================================
