----------------------------- MODULE MCLogCall -----------------------------
(* A small instance of LogCall for TLC: the usual pair of outputs, one for  *)
(* everything but DPanic and Panic, one for DPanic and Fatal.               *)
EXTENDS LogCallProps, TLC

CONSTANTS c1, c2

TwoOutputs == <<[allow |-> {}, deny |-> {DPanicLevel, PanicLevel}, min |-> DebugLevel],
                [allow |-> {DPanicLevel, FatalLevel}, deny |-> {}, min |-> DebugLevel]>>
LevelsUsed == {InfoLevel, DPanicLevel, PanicLevel, FatalLevel}
LevelsSet == {InfoLevel, FatalLevel}
BuiltAndRaised == {None, WarnLevel}

SymCalls == Permutations({c1, c2})
=============================================================================
