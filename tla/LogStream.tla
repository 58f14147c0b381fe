----------------------------- MODULE LogStream -----------------------------
(***************************************************************************)
(* What a queued log writer promises, free of goroutines, batches and       *)
(* counters: several streams of accepted entries, each delivered to the     *)
(* wrapped writer in the order it was accepted, without gaps; a delivery    *)
(* may lose entries only by a counted error; and the writer is sealed only  *)
(* when everything accepted has been delivered.                             *)
(***************************************************************************)
EXTENDS Naturals, Sequences

CONSTANTS Streams, Entries

VARIABLES
    accepted,   \* stream -> entries accepted, in order
    delivered,  \* stream -> entries handed to the wrapped writer, in order
    failed,     \* entries lost by a failing delivery
    errors,     \* failing deliveries counted
    sealed      \* the wrapped writer is closed

vars == <<accepted, delivered, failed, errors, sealed>>

Init ==
    /\ accepted = [s \in Streams |-> <<>>]
    /\ delivered = [s \in Streams |-> <<>>]
    /\ failed = {}
    /\ errors = 0
    /\ sealed = FALSE

Accept ==
    /\ ~sealed
    /\ \E s \in Streams, e \in Entries :
        accepted' = [accepted EXCEPT ![s] = Append(@, e)]
    /\ UNCHANGED <<delivered, failed, errors, sealed>>

(* What a step hands over of stream s.                                      *)
Fresh(s) == {accepted[s][i] : i \in Len(delivered[s]) + 1 .. Len(delivered'[s])}

Deliver ==
    /\ ~sealed
    /\ DOMAIN delivered' = Streams
    /\ \A s \in Streams :
        /\ Len(delivered'[s]) \in Len(delivered[s]) .. Len(accepted[s])
        /\ delivered'[s] = SubSeq(accepted[s], 1, Len(delivered'[s]))
    /\ failed \subseteq failed'
    /\ failed' \subseteq failed \cup UNION {Fresh(s) : s \in Streams}
    /\ failed' # failed => errors' = errors + 1
    /\ errors' \in {errors, errors + 1}
    /\ UNCHANGED <<accepted, sealed>>

Seal ==
    /\ ~sealed
    /\ delivered = accepted
    /\ sealed' = TRUE
    /\ UNCHANGED <<accepted, delivered, failed, errors>>

Next == Accept \/ Deliver \/ Seal

Spec == Init /\ [][Next]_vars
=============================================================================
