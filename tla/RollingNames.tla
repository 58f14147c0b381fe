---------------------------- MODULE RollingNames ----------------------------
(***************************************************************************)
(* The names of the files a RollingWriter leaves behind.  RollingWriter     *)
(* itself takes <<stamp, seq>> for the name of a file; here is why it may.  *)
(***************************************************************************)
EXTENDS RollingWriterProps, Naming

CONSTANTS
    Namings,   \* the namings to render the files on disk in
    Layouts    \* pairs of a DateLayout and the time one of its stamps lasts

IsNumber(s) == \E q \in NumbersRead : s = ToString(q)

Ambiguous(nm) == IsNumber(Service(nm)) \/ IsNumber(nm.app)

\* The files whose name is read back as the day and number it was made from.
ReadBack ==
    {n \in {<<t, q>> : t \in Midnights, q \in 0 .. MaxSeq} : \A nm \in Namings :
        (n[2] >= BaseSeqOf(nm) /\ ~Ambiguous(nm)) =>
            ParseFileName(nm, FileName(nm, n[1], n[2]))
                = [ok |-> TRUE, date |-> n[1], seq |-> n[2]]}

StampsExpireInTime == \A l \in Layouts : LayoutGranularity(l[1]) <= l[2]

\* naming.go:248-256: "so either naming pattern can be resumed and cleaned up":
\* from the name of every file on disk parseFileName gets back its day and its
\* number, so no two files share a name, and resuming and cleaning see them
\* all; and a cached stamp is kept no longer than its layout's interval.  Two
\* files are not understood: one whose service is itself a number, and number
\* 0 of a pattern that shows it (a start-up that could not list its directory).
NamesReadBack == DOMAIN disk \subseteq ReadBack /\ StampsExpireInTime
=============================================================================
