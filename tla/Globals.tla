------------------------------ MODULE Globals ------------------------------
(***************************************************************************)
(* The process-wide loggers of src/global.go: the variables behind L() and *)
(* S(), which ReplaceGlobals swaps under one lock, and the package logger   *)
(* of the standard library, which RedirectStdLogAt points at a logger.  A   *)
(* logger is a number, and 0 is the no-op logger the process starts with.   *)
(*                                                                         *)
(* Both calls return an undo function.  Callers hold them as a stack (a     *)
(* deferred call, a test's cleanup), so the last one taken runs first.      *)
(***************************************************************************)
EXTENDS Sequences, Naturals

CONSTANT MaxUndos    \* bound: undo functions held at a time

VARIABLES
    globalL, globalS,  \* the loggers behind L() and S()
    std,               \* flags, prefix and output of the standard logger
    undos,             \* the undo functions held, the last one taken last
    misdirected        \* a redirect was refused for its level

gvars == <<globalL, globalS, std, undos, misdirected>>

NopLogger == 0
Stderr == {}           \* the output, while it is no logger
Default == "default"   \* flags and prefix as the program set them
Cleared == "cleared"   \* flags 0 and an empty prefix

GlobalsInit ==
    /\ globalL = NopLogger /\ globalS = NopLogger
    /\ std = [flags |-> Default, prefix |-> Default, out |-> Stderr]
    /\ undos = <<>> /\ misdirected = FALSE

\* The levels levelToFunc has a method for.
HasMethod(lvl) ==
    lvl \in {"debug", "info", "warn", "error", "dpanic", "panic", "fatal"}

Install(l) == globalL' = l /\ globalS' = l

ReplaceGlobals(l) ==
    /\ Len(undos) < MaxUndos
    /\ Install(l)
    /\ undos' = Append(undos, [of |-> "globals", prev |-> globalL])
    /\ UNCHANGED <<std, misdirected>>

\* A mutant: the flags are read after they were cleared.
RedirectStdLogAtReadsLate(l, lvl) ==
    /\ Len(undos) < MaxUndos
    /\ HasMethod(lvl)
    /\ std' = [flags |-> Cleared, prefix |-> Cleared, out |-> {l}]
    /\ undos' = Append(undos, [of |-> "std", flags |-> Cleared, prefix |-> std.prefix])
    /\ UNCHANGED <<globalL, globalS, misdirected>>

\* A refused level is found out after flags and prefix were cleared.
RedirectStdLogAt(l, lvl) ==
    /\ Len(undos) < MaxUndos
    /\ IF HasMethod(lvl)
         THEN /\ std' = [flags |-> Cleared, prefix |-> Cleared, out |-> {l}]
              /\ undos' = Append(undos, [of |-> "std", flags |-> std.flags,
                                         prefix |-> std.prefix])
              /\ UNCHANGED misdirected
         ELSE /\ std' = [std EXCEPT !.flags = Cleared, !.prefix = Cleared]
              /\ misdirected' = TRUE
              /\ UNCHANGED undos
    /\ UNCHANGED <<globalL, globalS>>

UndoLast ==
    /\ undos # <<>>
    /\ undos' = SubSeq(undos, 1, Len(undos) - 1)
    /\ LET u == undos[Len(undos)] IN
         IF u.of = "globals"
           THEN Install(u.prev) /\ UNCHANGED std
           ELSE /\ std' = [flags |-> u.flags, prefix |-> u.prefix, out |-> Stderr]
                /\ UNCHANGED <<globalL, globalS>>
    /\ UNCHANGED misdirected
=============================================================================
