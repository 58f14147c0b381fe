--------------------------- MODULE MCAsyncWriter ---------------------------
(* Small instances of AsyncWriter for TLC.                                  *)
EXTENDS AsyncWriterProps, TLC

CONSTANTS e1, e2, e3, p1, p2

(* Info, Error and Debug entries (slcore/level.go: -1, 0, 1, 2, ...).       *)
MixedLevels == [e \in Entries |-> IF e = e1 THEN 2 ELSE 0]
InfoOnly == [e \in Entries |-> 0]

(* Producers, and entries of the same level, are interchangeable.           *)
SymMixed == Permutations({p1, p2}) \cup Permutations({e2, e3})
=============================================================================
