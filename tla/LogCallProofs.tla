---------------------------- MODULE LogCallProofs ----------------------------
(***************************************************************************)
(* Log calls, for every number of goroutines, every set of outputs, hooks   *)
(* and loggers.  The core of the argument is Apart: from the AddCore that   *)
(* takes a CheckedEntry out of the pool to the end of Write, no other call  *)
(* has it, so what a call wrote into its entry is still there when Write    *)
(* reads it - its own entry, its cores, its terminal behaviour and the      *)
(* destination of its error report.                                         *)
(***************************************************************************)
EXTENDS LogCallProps, FiniteSetTheorems, TLAPS

Pcs == {"new"} \cup Checking \cup Writing \cup Ended

RunRec == [pc : Pcs, via : Levels \cup {None}, lvl : Levels \cup {None},
           ce : Handles \cup {None}, at : 1 .. Len(Outputs) + 1, ent : Calls \cup {None},
           failed : BOOLEAN]

CERec == [entry : Calls \cup {None}, cores : Seq(Outs), after : Hooks,
          errorOutput : BOOLEAN, dirty : BOOLEAN]

RunTypes == run \in [Calls -> RunRec]
CETypes == ces \in [Handles -> CERec]
FileTypes == \A o \in Outs : file[o] \in Seq(Calls) /\ durable[o] \in 0 .. Len(file[o])
PoolTypes == made \subseteq Handles /\ pool \subseteq made
RestTypes ==
    /\ level \in Levels /\ exited \in BOOLEAN
    /\ faults \in 0 .. MaxFaults /\ settings \in 0 .. MaxSettings
    /\ open \in [Calls -> SUBSET Outs] /\ ever \in [Calls -> SUBSET Outs]
    /\ missed \subseteq Calls \X Outs
    /\ reports \in [Calls -> Nat]

LEMMA Types ==
  TypeOK <=> RunTypes /\ CETypes /\ FileTypes /\ PoolTypes /\ RestTypes
BY DEF TypeOK, RunTypes, CETypes, FileTypes, PoolTypes, RestTypes, RunRec, CERec, Pcs

LEMMA TypesAfter ==
  TypeOK' <=> RunTypes' /\ CETypes' /\ FileTypes' /\ PoolTypes' /\ RestTypes'
BY DEF TypeOK, RunTypes, CETypes, FileTypes, PoolTypes, RestTypes, RunRec, CERec, Pcs

LEMMA Basics ==
  /\ Len(Outputs) \in Nat /\ Outs = 1 .. Len(Outputs)
  /\ Settings \subseteq Levels /\ Wanted \subseteq Levels
  /\ Loggers \subseteq Levels \cup {None}
  /\ MaxFaults \in Nat /\ MaxSettings \in Nat
  /\ None \notin Calls /\ None \notin Levels /\ None \notin Handles
  /\ OnPanic \in Hooks /\ OnFatal \in Hooks
<1>1. /\ Settings \subseteq Levels /\ Wanted \subseteq Levels
      /\ Loggers \subseteq Levels \cup {None}
      /\ MaxFaults \in Nat /\ MaxSettings \in Nat
      /\ None \notin Calls /\ None \notin Levels /\ None \notin Handles
      /\ OnPanic \in Hooks /\ OnFatal \in Hooks
  BY ConstantsAssumption, Zenon
<1>2. Len(Outputs) \in Nat /\ Outs = 1 .. Len(Outputs)
  BY ConstantsAssumption DEF Outs
<1>3. QED
  BY <1>1, <1>2

(* What the inductive invariant says of the reports and the end of a call.  *)
ReportsFit(c) ==
    IF run[c].pc \in {"finish"} \cup Ended
    THEN reports[c] = IF \E o \in Outs : <<c, o>> \in missed THEN 1 ELSE 0
    ELSE /\ reports[c] = 0
         /\ run[c].failed <=> \E o \in Outs : <<c, o>> \in missed

EndFits(c) ==
    run[c].pc \in {"skipped", "returned"} =>
        /\ run[c].lvl = PanicLevel => OnPanic = "custom"
        /\ run[c].lvl = DPanicLevel /\ Development => OnPanic = "custom"
        /\ run[c].lvl = FatalLevel => OnFatal = "custom"

(* What a step of call c leaves alone of another call.                      *)
Leaves(d) ==
    /\ run'[d] = run[d]
    /\ run[d].ce # None => ces'[run[d].ce] = ces[run[d].ce]
    /\ reports'[d] = reports[d]
    /\ \A o \in Outs : <<d, o>> \in missed' <=> <<d, o>> \in missed

LEMMA Assemble ==
  ASSUME IInv, TypeOK', Apart', NEW c \in Calls,
         \A d \in Calls \ {c} : Leaves(d),
         CheckingFits(c, run'[c], ces'[run'[c].ce]),
         WritingFits(c, run'[c], ces'[run'[c].ce]),
         ReportsFit(c)', EndFits(c)'
  PROVE  IInv'
<1>1. Fits'
  <2>1. ASSUME NEW d \in Calls \ {c}
        PROVE  /\ CheckingFits(d, run'[d], ces'[run'[d].ce])
               /\ WritingFits(d, run'[d], ces'[run'[d].ce])
    <3>1. run'[d] = run[d] /\ (run[d].ce # None => ces'[run[d].ce] = ces[run[d].ce])
      BY DEF Leaves
    <3>2. CheckingFits(d, run[d], ces[run[d].ce]) /\ WritingFits(d, run[d], ces[run[d].ce])
      BY DEF IInv, Fits
    <3>3. CheckingFits(d, run[d], ces'[run[d].ce])
      BY <3>1, <3>2 DEF CheckingFits
    <3>4. WritingFits(d, run[d], ces'[run[d].ce])
      BY <3>1, <3>2 DEF WritingFits
    <3>5. QED
      BY <3>1, <3>3, <3>4
  <2>2. QED
    BY <2>1 DEF Fits
<1>2. \A d \in Calls : ReportsFit(d)' /\ EndFits(d)'
  <2>1. \A d \in Calls : ReportsFit(d) /\ EndFits(d)
    BY DEF IInv, FailuresKept, FailureIsReported, NoReturnFromTerminal, ReportsFit, EndFits
  <2>2. ASSUME NEW d \in Calls \ {c} PROVE ReportsFit(d)' /\ EndFits(d)'
    BY <2>1, <2>2 DEF Leaves, ReportsFit, EndFits
  <2>3. QED
    BY <2>2
<1>3. FailuresKept' /\ FailureIsReported' /\ NoReturnFromTerminal'
  BY <1>2 DEF FailuresKept, FailureIsReported, NoReturnFromTerminal, ReportsFit, EndFits
<1>4. QED
  BY <1>1, <1>3 DEF IInv

LEMMA InitIInv == Init => IInv
<1> SUFFICES ASSUME Init PROVE IInv
  OBVIOUS
<1>1. Len(Outputs) \in Nat /\ Outs = 1 .. Len(Outputs)
  BY Basics
<1>2. <<>> \in Seq(Outs) /\ <<>> \in Seq(Calls) /\ Len(<<>>) = 0
  OBVIOUS
<1>3. Blank \in CERec
  BY <1>2 DEF Blank, CERec, Hooks
<1>4. Idle \in RunRec
  BY <1>1 DEF Idle, RunRec, Pcs
<1>5. TypeOK
  <2>1. RunTypes /\ CETypes
    BY <1>3, <1>4 DEF Init, RunTypes, CETypes
  <2>2. FileTypes
    BY <1>2 DEF Init, FileTypes
  <2>3. PoolTypes /\ RestTypes
    <3>1. level \in Levels /\ 0 \in 0 .. MaxFaults /\ 0 \in 0 .. MaxSettings
      <4>1. level \in Settings
        BY DEF Init
      <4>2. QED
        BY <4>1, Basics
    <3>2. QED
      BY <3>1 DEF Init, PoolTypes, RestTypes
  <2>4. QED
    BY <2>1, <2>2, <2>3, Types
<1>6. Apart /\ Fits
  BY DEF Init, Apart, Fits, CheckingFits, WritingFits, Idle, Checking, Writing
<1>7. FailuresKept /\ FailureIsReported /\ NoReturnFromTerminal
  BY DEF Init, FailuresKept, FailureIsReported, NoReturnFromTerminal, Idle, Ended
<1>8. QED
  BY <1>5, <1>6, <1>7 DEF IInv

-----------------------------------------------------------------------------
(* Taking, holding and releasing CheckedEntries.                            *)

LEMMA Holding ==
  ASSUME IInv, NEW c \in Calls, NEW h \in Holdable(c)
  PROVE  h \in Handles /\ \A d \in Calls \ {c} : run[d].ce # h
<1>1. PoolTypes /\ RunTypes
  BY Types DEF IInv
<1>2. CASE run[c].ce # None
  <2>1. h = run[c].ce
    BY <1>2 DEF Holdable
  <2>2. QED
    BY <1>1, <1>2, <2>1 DEF IInv, Apart, PoolTypes
<1>3. CASE run[c].ce = None
  <2>1. h \in pool \/ (h \in Handles /\ h \notin made)
    <3>1. CASE h \in pool
      BY <3>1
    <3>2. CASE h \in Fresh
      <4>1. made # Handles
        BY <3>2 DEF Fresh
      <4>2. \E g \in Handles : g \notin made
        BY <1>1, <4>1 DEF PoolTypes
      <4>3. QED
        BY <3>2, <4>1, <4>2 DEF Fresh
    <3>3. QED
      BY <1>3, <3>1, <3>2 DEF Holdable
  <2>2. h \in Handles /\ h # None
    BY <1>1, <2>1, Basics DEF PoolTypes
  <2>3. QED
    BY <2>1, <2>2 DEF IInv, Apart
<1>4. QED
  BY <1>2, <1>3

LEMMA Taking ==
  ASSUME IInv, NEW c \in Calls, NEW h \in Holdable(c),
         made' = made \cup {h}, pool' = pool \ {h},
         run'[c].ce = h, \A d \in Calls \ {c} : run'[d] = run[d]
  PROVE  Apart' /\ PoolTypes'
<1>1. h \in Handles /\ \A d \in Calls \ {c} : run[d].ce # h
  BY Holding
<1>2. PoolTypes
  BY Types DEF IInv
<1>3. PoolTypes'
  BY <1>1, <1>2 DEF PoolTypes
<1>4. ASSUME NEW d \in Calls, run'[d].ce # None
      PROVE  /\ run'[d].ce \in made' \ pool'
             /\ \A e \in Calls \ {d} : run'[e].ce # run'[d].ce
  <2>1. CASE d = c
    BY <1>1, <2>1
  <2>2. CASE d # c
    BY <1>1, <1>4, <2>2 DEF IInv, Apart
  <2>3. QED
    BY <2>1, <2>2
<1>5. QED
  BY <1>3, <1>4 DEF Apart

LEMMA KeepingApart ==
  ASSUME IInv, UNCHANGED <<made, pool>>, \A d \in Calls : run'[d].ce = run[d].ce
  PROVE  Apart'
BY DEF IInv, Apart

(* What AddCore, Before and After find in the CheckedEntry they are given.  *)
LEMMA ContentFits ==
  ASSUME IInv, NEW c \in Calls, run[c].pc \in Checking, NEW h \in Holdable(c)
  PROVE  /\ Content(c, h) \in CERec
         /\ Content(c, h).entry = c /\ ~Content(c, h).dirty
         /\ Len(Content(c, h).cores) < run[c].at
         /\ run[c].ce = None => Content(c, h).cores = <<>>
<1>1. RunTypes /\ CETypes
  BY Types DEF IInv
<1>2. run[c] \in RunRec /\ run[c].at \in Nat /\ run[c].at >= 1
  BY <1>1, Basics DEF RunTypes, RunRec
<1>3. CASE run[c].ce # None
  <2>1. h = run[c].ce /\ h \in Handles /\ Content(c, h) = ces[h]
    BY <1>3, Holding DEF Holdable, Content
  <2>2. CheckingFits(c, run[c], ces[h])
    BY <2>1 DEF IInv, Fits
  <2>3. QED
    BY <1>1, <1>3, <2>1, <2>2 DEF CheckingFits, CETypes
<1>4. CASE run[c].ce = None
  <2>1. Content(c, h) = [Blank EXCEPT !.entry = c]
    BY <1>4 DEF Content, Reset
  <2>2. /\ Content(c, h).cores = <<>> /\ Content(c, h).entry = c /\ ~Content(c, h).dirty
        /\ Content(c, h) = [entry |-> c, cores |-> <<>>, after |-> "none",
                            errorOutput |-> FALSE, dirty |-> FALSE]
    BY <2>1 DEF Blank
  <2>3. <<>> \in Seq(Outs) /\ Len(<<>>) = 0
    OBVIOUS
  <2>4. Content(c, h) \in CERec
    BY <2>2, <2>3 DEF CERec, Hooks
  <2>5. QED
    BY <1>2, <2>2, <2>3, <2>4
<1>5. QED
  BY <1>3, <1>4

-----------------------------------------------------------------------------
(* One lemma per action.                                                    *)

LEMMA BeginStep ==
  ASSUME IInv, NEW c \in Calls, Begin(c)
  PROVE  IInv'
<1>1. PICK l \in Wanted, via \in Loggers :
        /\ run' = [run EXCEPT ![c].lvl = l, ![c].via = via,
                     ![c].pc = IF MaySkip(l) /\ ~CoreEnabled(via, l) THEN "skipped"
                               ELSE IF PassesFilter(via, l) /\ Outputs # <<>> THEN "check"
                               ELSE "annotate"]
        /\ LET now == {o \in Outs : PassesFilter(via, l) /\ GateOpen(o, l, level)} IN
            /\ open' = [open EXCEPT ![c] = now]
            /\ ever' = [ever EXCEPT ![c] = now]
  BY DEF Begin
<1>2. /\ run[c].pc = "new"
      /\ UNCHANGED <<level, ces, made, pool, file, durable, exited, faults, settings, missed, reports>>
  BY DEF Begin, poolVars
<1>3. RunTypes /\ CETypes /\ FileTypes /\ PoolTypes /\ RestTypes
  BY Types DEF IInv
<1>4. run[c] \in RunRec /\ run[c].ce = None /\ run[c].at = 1 /\ ~run[c].failed
  BY <1>2, <1>3 DEF RunTypes, IInv, Fits, CheckingFits
<1>5. /\ run'[c].lvl = l /\ run'[c].ce = None /\ run'[c].at = 1 /\ ~run'[c].failed
      /\ run'[c].pc \in {"skipped", "check", "annotate"}
      /\ run'[c].pc = "skipped" => l < DPanicLevel
      /\ run'[c].pc = "check" => Outputs # <<>>
      /\ \A d \in Calls \ {c} : run'[d] = run[d]
  BY <1>1, <1>3, <1>4 DEF RunTypes, RunRec, MaySkip
<1>6. l \in Levels /\ via \in Levels \cup {None}
  BY Basics
<1>7. RunTypes'
  <2> DEFINE p == IF MaySkip(l) /\ ~CoreEnabled(via, l) THEN "skipped"
                  ELSE IF PassesFilter(via, l) /\ Outputs # <<>> THEN "check"
                  ELSE "annotate"
  <2>1. p \in Pcs
    BY DEF Pcs, Checking, Ended
  <2>2. run' = [run EXCEPT ![c].lvl = l, ![c].via = via, ![c].pc = p]
    BY <1>1
  <2> HIDE DEF p
  <2> DEFINE r == [run[c] EXCEPT !.lvl = l, !.via = via, !.pc = p]
  <2>3. r \in RunRec
    BY <1>4, <1>6, <2>1 DEF RunRec
  <2>4. run' = [run EXCEPT ![c] = r]
    BY <1>3, <1>4, <2>2 DEF RunTypes, RunRec
  <2> HIDE DEF r
  <2>5. QED
    BY <1>3, <2>3, <2>4 DEF RunTypes
<1>8. RestTypes'
  BY <1>1, <1>2, <1>3 DEF RestTypes
<1>9. TypeOK'
  BY <1>2, <1>3, <1>7, <1>8, TypesAfter DEF CETypes, FileTypes, PoolTypes
<1>10. Apart'
  BY <1>2, <1>4, <1>5, KeepingApart
<1>11. \A d \in Calls \ {c} : Leaves(d)
  BY <1>2, <1>5 DEF Leaves
<1>12. Outputs # <<>> => 1 \in Outs
  BY ConstantsAssumption DEF Outs
<1>13. /\ CheckingFits(c, run'[c], ces'[run'[c].ce])
       /\ WritingFits(c, run'[c], ces'[run'[c].ce])
  BY <1>5, <1>12 DEF CheckingFits, WritingFits, Writing
<1>14. ReportsFit(c)'
  BY <1>2, <1>4, <1>5 DEF ReportsFit, IInv, FailuresKept, Ended
<1>15. EndFits(c)'
  BY <1>5, <1>6 DEF EndFits, Levels, DPanicLevel, PanicLevel, FatalLevel, DebugLevel
<1>16. QED
  BY <1>9, <1>10, <1>11, <1>13, <1>14, <1>15, Assemble

LEMMA VisitStep ==
  ASSUME IInv, NEW c \in Calls, Visit(c)
  PROVE  IInv'
<1> DEFINE o == run[c].at
           next == IF o = Len(Outputs) THEN "annotate" ELSE "check"
<1>1. /\ run[c].pc = "check"
      /\ UNCHANGED <<level, file, durable, exited, faults, settings, open, ever, missed, reports>>
  BY DEF Visit, pastVars
<1>2. RunTypes /\ CETypes /\ FileTypes /\ PoolTypes /\ RestTypes
  BY Types DEF IInv
<1>3. run[c] \in RunRec /\ o \in Outs /\ ~run[c].failed
  BY <1>1, <1>2 DEF RunTypes, IInv, Fits, CheckingFits, Checking
<1>4. o \in Nat /\ Len(Outputs) \in Nat /\ o <= Len(Outputs) /\ o + 1 \in 1 .. Len(Outputs) + 1
      /\ (next = "check" => o + 1 \in Outs) /\ next \in Checking
  BY <1>3, Basics DEF Checking
<1>5. RestTypes' /\ FileTypes'
  BY <1>1, <1>2 DEF RestTypes, FileTypes
<1>6. CASE GateOpen(o, run[c].lvl, level)
  <2>1. PICK h \in Holdable(c) :
          /\ Update(c, h, [Content(c, h) EXCEPT !.cores = Append(@, o)])
          /\ run' = [run EXCEPT ![c].ce = h, ![c].at = o + 1, ![c].pc = next]
    BY <1>6 DEF Visit
  <2>2. h \in Handles /\ \A d \in Calls \ {c} : run[d].ce # h
    BY Holding
  <2>3. /\ run'[c].ce = h /\ run'[c].at = o + 1 /\ run'[c].pc = next
        /\ run'[c].failed = run[c].failed
        /\ \A d \in Calls \ {c} : run'[d] = run[d]
    BY <1>2, <1>3, <2>1 DEF RunTypes, RunRec
  <2>4. RunTypes'
    BY <1>2, <1>3, <1>4, <2>1, <2>2 DEF RunTypes, RunRec, Pcs, Checking
  <2> DEFINE ce == [Content(c, h) EXCEPT !.cores = Append(@, o)]
  <2>5. /\ Content(c, h) \in CERec /\ Content(c, h).entry = c /\ ~Content(c, h).dirty
        /\ Len(Content(c, h).cores) < o
    BY <1>1, ContentFits DEF Checking
  <2>6. /\ ce \in CERec /\ ce.entry = c /\ ~ce.dirty
        /\ Len(ce.cores) < o + 1
    <3>1. /\ Content(c, h).cores \in Seq(Outs)
          /\ ce.cores = Append(Content(c, h).cores, o)
          /\ ce.entry = Content(c, h).entry /\ ce.dirty = Content(c, h).dirty
      BY <2>5 DEF CERec
    <3>2. /\ Append(Content(c, h).cores, o) \in Seq(Outs)
          /\ Len(Append(Content(c, h).cores, o)) = Len(Content(c, h).cores) + 1
          /\ Len(Content(c, h).cores) \in Nat
      BY <1>3, <3>1
    <3>3. ce \in CERec
      BY <2>5, <3>1, <3>2 DEF CERec
    <3>4. QED
      BY <1>4, <2>5, <3>1, <3>2, <3>3
  <2>7. ces' = [ces EXCEPT ![h] = ce] /\ made' = made \cup {h} /\ pool' = pool \ {h}
    BY <2>1 DEF Update
  <2> HIDE DEF ce
  <2>8. CETypes' /\ ces'[h] = ce
    BY <1>2, <2>2, <2>6, <2>7 DEF CETypes
  <2>9. Apart' /\ PoolTypes'
    BY <2>3, <2>7, Taking
  <2>10. TypeOK'
    BY <1>5, <2>4, <2>8, <2>9, TypesAfter
  <2>11. \A d \in Calls \ {c} : Leaves(d)
    BY <1>1, <1>2, <2>2, <2>3, <2>7 DEF Leaves, CETypes
  <2>12. CheckingFits(c, run'[c], ces'[run'[c].ce])
    BY <1>3, <1>4, <2>3, <2>6, <2>8 DEF CheckingFits, Checking
  <2>13. WritingFits(c, run'[c], ces'[run'[c].ce])
    BY <1>4, <2>3 DEF WritingFits, Checking, Writing
  <2>14. ReportsFit(c)' /\ EndFits(c)'
    BY <1>1, <1>4, <2>3 DEF ReportsFit, EndFits, IInv, FailuresKept, Ended, Checking
  <2>15. QED
    BY <2>9, <2>10, <2>11, <2>12, <2>13, <2>14, Assemble
<1>7. CASE ~GateOpen(o, run[c].lvl, level)
  <2>1. run' = [run EXCEPT ![c].at = o + 1, ![c].pc = next] /\ UNCHANGED <<ces, made, pool>>
    BY <1>7 DEF Visit, poolVars
  <2>2. /\ run'[c].ce = run[c].ce /\ run'[c].at = o + 1 /\ run'[c].pc = next
        /\ run'[c].failed = run[c].failed
        /\ \A d \in Calls \ {c} : run'[d] = run[d]
    BY <1>2, <1>3, <2>1 DEF RunTypes, RunRec
  <2>3. RunTypes'
    BY <1>2, <1>3, <1>4, <2>1 DEF RunTypes, RunRec, Pcs, Checking
  <2>4. TypeOK'
    BY <1>2, <1>5, <2>1, <2>3, TypesAfter DEF CETypes, PoolTypes
  <2>5. Apart'
    BY <2>1, <2>2, KeepingApart
  <2>6. \A d \in Calls \ {c} : Leaves(d)
    BY <1>1, <2>1, <2>2 DEF Leaves
  <2>7. CheckingFits(c, run[c], ces[run[c].ce])
    BY DEF IInv, Fits
  <2>8. run[c].ce # None => Len(ces[run[c].ce].cores) \in Nat
    BY <1>2, <1>3 DEF CETypes, CERec, RunRec
  <2>9. CheckingFits(c, run'[c], ces'[run'[c].ce])
    BY <1>1, <1>3, <1>4, <2>1, <2>2, <2>7, <2>8 DEF CheckingFits, Checking
  <2>10. WritingFits(c, run'[c], ces'[run'[c].ce])
    BY <1>4, <2>2 DEF WritingFits, Checking, Writing
  <2>11. ReportsFit(c)' /\ EndFits(c)'
    BY <1>1, <1>4, <2>2 DEF ReportsFit, EndFits, IInv, FailuresKept, Ended, Checking
  <2>12. QED
    BY <2>4, <2>5, <2>6, <2>9, <2>10, <2>11, Assemble
<1>8. QED
  BY <1>6, <1>7

LEMMA AnnotateStep ==
  ASSUME IInv, NEW c \in Calls, Annotate(c)
  PROVE  IInv'
<1> DEFINE after == Terminal(run[c].lvl)
           willWrite == run[c].ce # None
<1>1. /\ run[c].pc = "annotate"
      /\ UNCHANGED <<level, file, durable, exited, faults, settings, open, ever, missed, reports>>
  BY DEF Annotate, pastVars
<1>2. RunTypes /\ CETypes /\ FileTypes /\ PoolTypes /\ RestTypes
  BY Types DEF IInv
<1>3. run[c] \in RunRec /\ ~run[c].failed
  BY <1>1, <1>2 DEF RunTypes, IInv, Fits, CheckingFits, Checking
<1>4. after \in Hooks
  BY Basics DEF Terminal, Override, Hooks
<1>5. RestTypes' /\ FileTypes'
  BY <1>1, <1>2 DEF RestTypes, FileTypes
<1>6. CASE willWrite \/ after # "none"
  <2>1. PICK h \in Holdable(c) :
          /\ Update(c, h, [Content(c, h) EXCEPT !.after = after, !.errorOutput = willWrite])
          /\ run' = [run EXCEPT ![c].ce = h, ![c].pc = "run"]
    BY <1>6 DEF Annotate
  <2>2. h \in Handles /\ h # None /\ \A d \in Calls \ {c} : run[d].ce # h
    BY Holding, Basics
  <2>3. /\ run'[c].ce = h /\ run'[c].pc = "run"
        /\ run'[c].failed = run[c].failed /\ run'[c].lvl = run[c].lvl
        /\ \A d \in Calls \ {c} : run'[d] = run[d]
    BY <1>2, <1>3, <2>1 DEF RunTypes, RunRec
  <2>4. RunTypes'
    BY <1>2, <1>3, <2>1, <2>2 DEF RunTypes, RunRec, Pcs, Writing
  <2> DEFINE ce == [Content(c, h) EXCEPT !.after = after, !.errorOutput = willWrite]
  <2>5. /\ Content(c, h) \in CERec /\ Content(c, h).entry = c /\ ~Content(c, h).dirty
        /\ Len(Content(c, h).cores) < run[c].at
        /\ run[c].ce = None => Content(c, h).cores = <<>>
    BY <1>1, ContentFits DEF Checking
  <2>6. willWrite \in BOOLEAN
    OBVIOUS
  <2> HIDE DEF after, willWrite
  <2>7. /\ ce \in CERec /\ ce.entry = c /\ ~ce.dirty /\ ce.after = after
        /\ ce.errorOutput = willWrite /\ ce.cores = Content(c, h).cores
    BY <1>4, <2>5, <2>6 DEF CERec
  <2>8. Len(ce.cores) <= Len(Outputs) /\ (ce.cores # <<>> => ce.errorOutput)
    <3>1. Len(Content(c, h).cores) \in Nat
      BY <2>5 DEF CERec
    <3>2. run[c].at <= Len(Outputs) + 1 /\ run[c].at \in Nat /\ Len(Outputs) \in Nat
      BY <1>3, Basics DEF RunRec
    <3>3. Len(ce.cores) <= Len(Outputs)
      <4>1. Len(Content(c, h).cores) <= Len(Outputs)
        BY <2>5, <3>1, <3>2
      <4>2. QED
        BY <2>7, <4>1
    <3>4. ce.cores # <<>> => ce.errorOutput
      BY <2>5, <2>7 DEF willWrite
    <3>5. QED
      BY <3>3, <3>4
  <2>9. ces' = [ces EXCEPT ![h] = ce] /\ made' = made \cup {h} /\ pool' = pool \ {h}
    BY <2>1 DEF Update
  <2> HIDE DEF ce
  <2>10. CETypes' /\ ces'[h] = ce
    BY <1>2, <2>2, <2>7, <2>9 DEF CETypes
  <2>11. Apart' /\ PoolTypes'
    BY <2>3, <2>9, Taking
  <2>12. TypeOK'
    BY <1>5, <2>4, <2>10, <2>11, TypesAfter
  <2>13. \A d \in Calls \ {c} : Leaves(d)
    BY <1>1, <1>2, <2>2, <2>3, <2>9 DEF Leaves, CETypes
  <2>14. CheckingFits(c, run'[c], ces'[run'[c].ce])
    BY <1>3, <2>3 DEF CheckingFits, Checking
  <2>15. WritingFits(c, run'[c], ces'[run'[c].ce])
    BY <2>2, <2>3, <2>7, <2>8, <2>10 DEF WritingFits, after
  <2>16. ReportsFit(c)' /\ EndFits(c)'
    BY <1>1, <2>3 DEF ReportsFit, EndFits, IInv, FailuresKept, Ended
  <2>17. QED
    BY <2>11, <2>12, <2>13, <2>14, <2>15, <2>16, Assemble
<1>7. CASE ~willWrite /\ after = "none"
  <2>1. run' = [run EXCEPT ![c].pc = "skipped"] /\ UNCHANGED <<ces, made, pool>>
    BY <1>7 DEF Annotate, poolVars
  <2>2. /\ run'[c].ce = run[c].ce /\ run'[c].pc = "skipped" /\ run'[c].lvl = run[c].lvl
        /\ \A d \in Calls \ {c} : run'[d] = run[d]
    BY <1>2, <1>3, <2>1 DEF RunTypes, RunRec
  <2>3. RunTypes'
    BY <1>2, <1>3, <2>1 DEF RunTypes, RunRec, Pcs, Ended
  <2>4. TypeOK'
    BY <1>2, <1>5, <2>1, <2>3, TypesAfter DEF CETypes, PoolTypes
  <2>5. Apart'
    BY <2>1, <2>2, KeepingApart
  <2>6. \A d \in Calls \ {c} : Leaves(d)
    BY <1>1, <2>1, <2>2 DEF Leaves
  <2>7. /\ CheckingFits(c, run'[c], ces'[run'[c].ce])
        /\ WritingFits(c, run'[c], ces'[run'[c].ce])
    BY <2>2 DEF CheckingFits, WritingFits, Checking, Writing
  <2>8. ReportsFit(c)'
    BY <1>1, <1>3, <2>2 DEF ReportsFit, IInv, FailuresKept, Ended
  <2>9. EndFits(c)'
    BY <1>7, <2>2 DEF EndFits, Terminal, Override, PanicLevel, FatalLevel, DPanicLevel
  <2>10. QED
    BY <2>4, <2>5, <2>6, <2>7, <2>8, <2>9, Assemble
<1>8. QED
  BY <1>6, <1>7

(* A call in Write keeps its CheckedEntry, which only its own steps change. *)
LEMMA WritingKeeps ==
  ASSUME IInv, NEW c \in Calls, run[c].pc \in Writing
  PROVE  /\ run[c] \in RunRec /\ run[c].ce \in Handles /\ run[c].ce # None
         /\ ces[run[c].ce] \in CERec
         /\ \A d \in Calls \ {c} : run[d].ce # run[c].ce
         /\ WritingFits(c, run[c], ces[run[c].ce])
         /\ CheckingFits(c, run[c], ces[run[c].ce])
         /\ Len(ces[run[c].ce].cores) \in Nat
<1>1. RunTypes /\ CETypes
  BY Types DEF IInv
<1>2. WritingFits(c, run[c], ces[run[c].ce]) /\ CheckingFits(c, run[c], ces[run[c].ce])
  BY DEF IInv, Fits
<1>3. run[c] \in RunRec /\ run[c].ce # None
  BY <1>1, <1>2 DEF RunTypes, WritingFits
<1>4. run[c].ce \in Handles
  BY <1>3 DEF RunRec
<1>5. ces[run[c].ce] \in CERec
  BY <1>1, <1>4 DEF CETypes
<1>6. QED
  BY <1>2, <1>3, <1>4, <1>5 DEF IInv, Apart, CERec

LEMMA BeginWriteStep ==
  ASSUME IInv, NEW c \in Calls, BeginWrite(c)
  PROVE  IInv'
<1> DEFINE h == run[c].ce
<1>1. run[c].pc = "run" /\ run[c].pc \in Writing
  BY DEF BeginWrite, Writing
<1>2. /\ run[c] \in RunRec /\ h \in Handles /\ h # None /\ ces[h] \in CERec
      /\ \A d \in Calls \ {c} : run[d].ce # h
      /\ WritingFits(c, run[c], ces[h])
      /\ Len(ces[h].cores) \in Nat
  BY <1>1, WritingKeeps
<1>3. ~ces[h].dirty /\ ces[h].entry = c
  BY <1>1, <1>2 DEF WritingFits
<1>4. /\ run' = [run EXCEPT ![c].pc = "write", ![c].at = 1, ![c].ent = c]
      /\ ces' = [ces EXCEPT ![h].dirty = TRUE]
      /\ UNCHANGED <<level, made, pool, file, durable, exited, faults, settings, open, ever, missed, reports>>
  BY <1>3 DEF BeginWrite, pastVars
<1>5. RunTypes /\ CETypes /\ FileTypes /\ PoolTypes /\ RestTypes
  BY Types DEF IInv
<1>6. /\ run'[c].pc = "write" /\ run'[c].at = 1 /\ run'[c].ent = c /\ run'[c].ce = h
      /\ run'[c].lvl = run[c].lvl /\ run'[c].failed = run[c].failed
      /\ \A d \in Calls \ {c} : run'[d] = run[d]
  BY <1>2, <1>4, <1>5 DEF RunTypes, RunRec
<1>7. 1 \in 1 .. Len(Outputs) + 1
  BY Basics
<1>8. RunTypes'
  BY <1>2, <1>4, <1>5, <1>7 DEF RunTypes, RunRec, Pcs, Writing
<1>9. /\ ces'[h].cores = ces[h].cores /\ ces'[h].after = ces[h].after
      /\ ces'[h].entry = ces[h].entry /\ ces'[h].errorOutput = ces[h].errorOutput
      /\ \A g \in Handles : g # h => ces'[g] = ces[g]
      /\ CETypes'
  BY <1>2, <1>4, <1>5 DEF CETypes, CERec
<1>10. TypeOK'
  BY <1>4, <1>5, <1>8, <1>9, TypesAfter DEF FileTypes, PoolTypes, RestTypes
<1>11. Apart'
  BY <1>4, <1>6, KeepingApart
<1>12. \A d \in Calls \ {c} : Leaves(d)
  <2>1. \A d \in Calls : run[d].ce # None => run[d].ce \in Handles
    BY <1>5 DEF RunTypes, RunRec
  <2>2. QED
    BY <1>2, <1>4, <1>6, <1>9, <2>1 DEF Leaves
<1>13. ~run[c].failed
  BY <1>1 DEF IInv, Fits, CheckingFits
<1>14. CheckingFits(c, run'[c], ces'[run'[c].ce])
  BY <1>6 DEF CheckingFits, Checking
<1>15. WritingFits(c, run'[c], ces'[run'[c].ce])
  BY <1>1, <1>2, <1>3, <1>6, <1>9, <1>13 DEF WritingFits, Writing
<1>16. ReportsFit(c)' /\ EndFits(c)'
  BY <1>1, <1>4, <1>6 DEF ReportsFit, EndFits, IInv, FailuresKept, Ended
<1>17. QED
  BY <1>10, <1>11, <1>12, <1>14, <1>15, <1>16, Assemble

(* The core a call in Write is about to serve.                              *)
LEMMA CoreAt ==
  ASSUME IInv, NEW c \in Calls, run[c].pc \in {"write", "sync"}, MoreCores(c)
  PROVE  /\ Core(c) \in Outs
         /\ run[c].at \in Nat /\ run[c].at + 1 \in 1 .. Len(Outputs) + 1
<1>1. /\ run[c] \in RunRec /\ ces[run[c].ce] \in CERec
      /\ WritingFits(c, run[c], ces[run[c].ce])
      /\ Len(ces[run[c].ce].cores) \in Nat
  BY WritingKeeps DEF Writing
<1>2. Len(ces[run[c].ce].cores) <= Len(Outputs)
  BY <1>1 DEF WritingFits, Writing
<1>3. run[c].at \in Nat /\ run[c].at >= 1 /\ Len(Outputs) \in Nat
  BY <1>1, Basics DEF RunRec
<1>4. run[c].at \in 1 .. Len(ces[run[c].ce].cores)
  BY <1>1, <1>3 DEF MoreCores
<1>5. ces[run[c].ce].cores \in Seq(Outs)
  BY <1>1 DEF CERec
<1>6. QED
  BY <1>1, <1>2, <1>3, <1>4, <1>5 DEF Core

LEMMA WriteCoreStep ==
  ASSUME IInv, NEW c \in Calls, WriteCore(c)
  PROVE  IInv'
<1> DEFINE h == run[c].ce
           syncs == SyncsAfter(run[c].lvl)
<1>1. run[c].pc = "write" /\ run[c].pc \in Writing /\ MoreCores(c)
  BY DEF WriteCore, Writing
<1>2. /\ run[c] \in RunRec /\ h # None
      /\ WritingFits(c, run[c], ces[h])
      /\ Len(ces[h].cores) \in Nat
  BY <1>1, WritingKeeps
<1>3. /\ Core(c) \in Outs
      /\ run[c].at \in Nat /\ run[c].at + 1 \in 1 .. Len(Outputs) + 1
  BY <1>1, CoreAt
<1>4. Join(run[c].failed, FALSE) = run[c].failed
  BY <1>2 DEF Join, RunRec
<1>5. /\ run' = [run EXCEPT ![c].failed = run[c].failed,
                           ![c].pc = IF syncs THEN "sync" ELSE "write",
                           ![c].at = IF syncs THEN run[c].at ELSE run[c].at + 1]
      /\ file' = [file EXCEPT ![Core(c)] = Append(@, run[c].ent)]
      /\ UNCHANGED <<level, ces, made, pool, durable, exited, faults, settings, open, ever,
                     missed, reports>>
  BY <1>4 DEF WriteCore, poolVars, pastVars
<1> HIDE DEF syncs
<1>6. RunTypes /\ CETypes /\ FileTypes /\ PoolTypes /\ RestTypes
  BY Types DEF IInv
<1>7. /\ run'[c].pc = IF syncs THEN "sync" ELSE "write"
      /\ run'[c].at = IF syncs THEN run[c].at ELSE run[c].at + 1
      /\ run'[c].ent = run[c].ent /\ run'[c].ce = h
      /\ run'[c].lvl = run[c].lvl /\ run'[c].failed = run[c].failed
      /\ \A d \in Calls \ {c} : run'[d] = run[d]
  BY <1>2, <1>5, <1>6 DEF RunTypes, RunRec
<1>8. RunTypes'
  BY <1>2, <1>3, <1>5, <1>6 DEF RunTypes, RunRec, Pcs, Writing
<1>9. FileTypes'
  <2>1. run[c].ent = c
    BY <1>1, <1>2 DEF WritingFits
  <2>2. ASSUME NEW o \in Outs
        PROVE  file'[o] \in Seq(Calls) /\ durable'[o] \in 0 .. Len(file'[o])
    <3>1. file[o] \in Seq(Calls) /\ durable[o] \in 0 .. Len(file[o])
      BY <1>6 DEF FileTypes
    <3>2. /\ Append(file[o], c) \in Seq(Calls)
          /\ Len(Append(file[o], c)) = Len(file[o]) + 1
          /\ Len(file[o]) \in Nat
      BY <3>1
    <3>3. file'[o] = file[o] \/ file'[o] = Append(file[o], c)
      BY <1>5, <2>1
    <3>4. durable'[o] = durable[o]
      BY <1>5
    <3>5. CASE file'[o] = file[o]
      BY <3>1, <3>4, <3>5
    <3>6. CASE file'[o] = Append(file[o], c)
      <4>1. durable[o] \in 0 .. Len(file[o]) + 1
        BY <3>1, <3>2
      <4>2. QED
        BY <3>2, <3>4, <3>6, <4>1
    <3>7. QED
      BY <3>3, <3>5, <3>6
  <2>3. QED
    BY <2>2 DEF FileTypes
<1>10. TypeOK'
  BY <1>5, <1>6, <1>8, <1>9, TypesAfter DEF CETypes, PoolTypes, RestTypes
<1>11. Apart'
  BY <1>5, <1>7, KeepingApart
<1>12. \A d \in Calls \ {c} : Leaves(d)
  BY <1>5, <1>7 DEF Leaves
<1>13. CheckingFits(c, run'[c], ces'[run'[c].ce])
  BY <1>7 DEF CheckingFits, Checking
<1>14. WritingFits(c, run'[c], ces'[run'[c].ce])
  <2>1. run[c].at <= Len(ces[h].cores)
    BY <1>1 DEF MoreCores
  <2>2. /\ ces[h].entry = c /\ ces[h].after = Terminal(run[c].lvl)
        /\ Len(ces[h].cores) <= Len(Outputs)
        /\ (ces[h].cores # <<>> => ces[h].errorOutput) /\ run[c].ent = c
        /\ (run[c].failed => ces[h].errorOutput)
    BY <1>1, <1>2 DEF WritingFits
  <2>3. run[c].at + 1 <= Len(ces[h].cores) + 1
    BY <1>2, <1>3, <2>1
  <2>4. ces'[run'[c].ce] = ces[h]
    BY <1>5, <1>7
  <2>5. WritingFits(c, run'[c], ces[h])
    BY <1>2, <1>7, <2>1, <2>2, <2>3 DEF WritingFits
  <2>6. QED
    BY <2>4, <2>5
<1>15. ReportsFit(c)' /\ EndFits(c)'
  <2>1. run'[c].pc \notin {"finish"} \cup Ended
    BY <1>7 DEF Ended
  <2>2. ReportsFit(c)
    BY <1>1 DEF ReportsFit, IInv, FailuresKept, Ended
  <2>3. ReportsFit(c)'
    BY <1>1, <1>5, <1>7, <2>1, <2>2 DEF ReportsFit, Ended
  <2>4. QED
    BY <2>1, <2>3 DEF EndFits, Ended
<1>16. QED
  BY <1>10, <1>11, <1>12, <1>13, <1>14, <1>15, Assemble

LEMMA CoreFailsStep ==
  ASSUME IInv, NEW c \in Calls, CoreFails(c)
  PROVE  IInv'
<1> DEFINE h == run[c].ce
<1>1. run[c].pc = "write" /\ run[c].pc \in Writing /\ MoreCores(c)
  BY DEF CoreFails, Writing
<1>2. /\ run[c] \in RunRec /\ h # None
      /\ WritingFits(c, run[c], ces[h])
      /\ Len(ces[h].cores) \in Nat
  BY <1>1, WritingKeeps
<1>3. /\ Core(c) \in Outs
      /\ run[c].at \in Nat /\ run[c].at + 1 \in 1 .. Len(Outputs) + 1
  BY <1>1, CoreAt
<1>4. /\ run' = [run EXCEPT ![c].failed = TRUE, ![c].at = run[c].at + 1]
      /\ faults < MaxFaults /\ faults' = faults + 1
      /\ missed' = missed \cup {<<c, Core(c)>>}
      /\ UNCHANGED <<level, ces, made, pool, file, durable, exited, settings, open, ever, reports>>
  BY DEF CoreFails, poolVars, NextCore, Join
<1>5. RunTypes /\ CETypes /\ FileTypes /\ PoolTypes /\ RestTypes
  BY Types DEF IInv
<1>6. /\ run'[c].pc = "write" /\ run'[c].at = run[c].at + 1
      /\ run'[c].ent = run[c].ent /\ run'[c].ce = h
      /\ run'[c].lvl = run[c].lvl /\ run'[c].failed
      /\ \A d \in Calls \ {c} : run'[d] = run[d]
  BY <1>1, <1>2, <1>4, <1>5 DEF RunTypes, RunRec
<1>7. RunTypes'
  BY <1>2, <1>3, <1>4, <1>5 DEF RunTypes, RunRec
<1>8. RestTypes'
  <2>1. faults' \in 0 .. MaxFaults
    BY <1>4, <1>5, Basics DEF RestTypes
  <2>2. missed' \subseteq Calls \X Outs
    BY <1>3, <1>4, <1>5 DEF RestTypes
  <2>3. QED
    BY <1>4, <1>5, <2>1, <2>2 DEF RestTypes
<1>9. TypeOK'
  BY <1>4, <1>5, <1>7, <1>8, TypesAfter DEF CETypes, PoolTypes, FileTypes
<1>10. Apart'
  BY <1>4, <1>6, KeepingApart
<1>11. \A d \in Calls \ {c} : Leaves(d)
  BY <1>4, <1>6 DEF Leaves
<1>12. CheckingFits(c, run'[c], ces'[run'[c].ce])
  BY <1>6 DEF CheckingFits, Checking
<1>13. WritingFits(c, run'[c], ces'[run'[c].ce])
  <2>1. run[c].at <= Len(ces[h].cores)
    BY <1>1 DEF MoreCores
  <2>2. ces[h].cores # <<>>
    <3>1. Len(ces[h].cores) # 0
      BY <1>2, <1>3, <2>1 DEF RunRec
    <3>2. QED
      BY <3>1
  <2>3. /\ ces[h].entry = c /\ ces[h].after = Terminal(run[c].lvl)
        /\ Len(ces[h].cores) <= Len(Outputs)
        /\ ces[h].errorOutput /\ run[c].ent = c
    BY <1>1, <1>2, <2>2 DEF WritingFits
  <2>4. run[c].at + 1 <= Len(ces[h].cores) + 1
    BY <1>2, <1>3, <2>1
  <2>5. ces'[run'[c].ce] = ces[h]
    BY <1>4, <1>6
  <2>6. WritingFits(c, run'[c], ces[h])
    BY <1>2, <1>6, <2>3, <2>4 DEF WritingFits
  <2>7. QED
    BY <2>5, <2>6
<1>14. ReportsFit(c)' /\ EndFits(c)'
  <2>1. <<c, Core(c)>> \in missed'
    BY <1>4
  <2>2. \E o \in Outs : <<c, o>> \in missed'
    BY <1>3, <2>1
  <2>3. reports'[c] = 0
    BY <1>1, <1>4 DEF IInv, FailuresKept, Ended
  <2>4. run'[c].pc \notin {"finish"} \cup Ended
    BY <1>6 DEF Ended
  <2>5. ReportsFit(c)'
    BY <1>6, <2>2, <2>3, <2>4 DEF ReportsFit
  <2>6. QED
    BY <2>4, <2>5 DEF EndFits, Ended
<1>15. QED
  BY <1>9, <1>10, <1>11, <1>12, <1>13, <1>14, Assemble

LEMMA SyncCoreStep ==
  ASSUME IInv, NEW c \in Calls, SyncCore(c)
  PROVE  IInv'
<1> DEFINE h == run[c].ce
<1>1. run[c].pc = "sync" /\ run[c].pc \in Writing
  BY DEF SyncCore, Writing
<1>2. /\ run[c] \in RunRec /\ h # None
      /\ WritingFits(c, run[c], ces[h])
      /\ Len(ces[h].cores) \in Nat
  BY <1>1, WritingKeeps
<1>3. MoreCores(c)
  BY <1>1, <1>2 DEF WritingFits, MoreCores
<1>4. /\ Core(c) \in Outs
      /\ run[c].at \in Nat /\ run[c].at + 1 \in 1 .. Len(Outputs) + 1
  BY <1>1, <1>3, CoreAt
<1>5. /\ run' = [run EXCEPT ![c].pc = "write", ![c].at = run[c].at + 1]
      /\ durable' = [durable EXCEPT ![Core(c)] = Len(file[Core(c)])]
      /\ UNCHANGED <<level, ces, made, pool, file, exited, faults, settings, open, ever,
                     missed, reports>>
  BY DEF SyncCore, poolVars, pastVars
<1>6. RunTypes /\ CETypes /\ FileTypes /\ PoolTypes /\ RestTypes
  BY Types DEF IInv
<1>7. /\ run'[c].pc = "write" /\ run'[c].at = run[c].at + 1
      /\ run'[c].ent = run[c].ent /\ run'[c].ce = h
      /\ run'[c].lvl = run[c].lvl /\ run'[c].failed = run[c].failed
      /\ \A d \in Calls \ {c} : run'[d] = run[d]
  BY <1>2, <1>5, <1>6 DEF RunTypes, RunRec
<1>8. RunTypes'
  BY <1>2, <1>4, <1>5, <1>6 DEF RunTypes, RunRec, Pcs, Writing
<1>9. FileTypes'
  <2>1. ASSUME NEW o \in Outs
        PROVE  file'[o] \in Seq(Calls) /\ durable'[o] \in 0 .. Len(file'[o])
    <3>1. file[o] \in Seq(Calls) /\ durable[o] \in 0 .. Len(file[o])
      BY <1>6 DEF FileTypes
    <3>2. Len(file[o]) \in Nat
      BY <3>1
    <3>3. file'[o] = file[o] /\ (durable'[o] = durable[o] \/ durable'[o] = Len(file[o]))
      BY <1>5
    <3>4. QED
      BY <3>1, <3>2, <3>3
  <2>2. QED
    BY <2>1 DEF FileTypes
<1>10. TypeOK'
  BY <1>5, <1>6, <1>8, <1>9, TypesAfter DEF CETypes, PoolTypes, RestTypes
<1>11. Apart'
  BY <1>5, <1>7, KeepingApart
<1>12. \A d \in Calls \ {c} : Leaves(d)
  BY <1>5, <1>7 DEF Leaves
<1>13. CheckingFits(c, run'[c], ces'[run'[c].ce])
  BY <1>7 DEF CheckingFits, Checking
<1>14. WritingFits(c, run'[c], ces'[run'[c].ce])
  <2>1. run[c].at <= Len(ces[h].cores)
    BY <1>1, <1>2 DEF WritingFits
  <2>2. /\ ces[h].entry = c /\ ces[h].after = Terminal(run[c].lvl)
        /\ Len(ces[h].cores) <= Len(Outputs)
        /\ (ces[h].cores # <<>> => ces[h].errorOutput) /\ run[c].ent = c
        /\ (run[c].failed => ces[h].errorOutput)
    BY <1>1, <1>2 DEF WritingFits
  <2>3. run[c].at + 1 <= Len(ces[h].cores) + 1
    BY <1>2, <1>4, <2>1
  <2>4. ces'[run'[c].ce] = ces[h]
    BY <1>5, <1>7
  <2>5. run'[c].failed = run[c].failed
    BY <1>7
  <2>6. WritingFits(c, run'[c], ces[h])
    BY <1>2, <1>7, <2>2, <2>3, <2>5 DEF WritingFits
  <2>7. QED
    BY <2>4, <2>6
<1>15. ReportsFit(c)' /\ EndFits(c)'
  BY <1>1, <1>5, <1>7 DEF ReportsFit, EndFits, IInv, FailuresKept, Ended
<1>16. QED
  BY <1>10, <1>11, <1>12, <1>13, <1>14, <1>15, Assemble

LEMMA ReportStep ==
  ASSUME IInv, NEW c \in Calls, Report(c)
  PROVE  IInv'
<1> DEFINE h == run[c].ce
           told == run[c].failed /\ ces[h].errorOutput
<1>1. run[c].pc = "write" /\ run[c].pc \in Writing
  BY DEF Report, Writing
<1>2. /\ run[c] \in RunRec /\ h # None
      /\ WritingFits(c, run[c], ces[h])
  BY <1>1, WritingKeeps
<1>3. /\ run' = [run EXCEPT ![c].pc = "finish"]
      /\ reports' = IF told THEN [reports EXCEPT ![c] = @ + 1] ELSE reports
      /\ UNCHANGED <<level, ces, made, pool, file, durable, exited, faults, settings, open,
                     ever, missed>>
  BY DEF Report, PoolAfterReport
<1>4. RunTypes /\ CETypes /\ FileTypes /\ PoolTypes /\ RestTypes
  BY Types DEF IInv
<1>5. told <=> run[c].failed
  BY <1>1, <1>2 DEF WritingFits
<1> HIDE DEF told
<1>6. /\ run'[c].pc = "finish" /\ run'[c].ce = h /\ run'[c].lvl = run[c].lvl
      /\ \A d \in Calls \ {c} : run'[d] = run[d]
  BY <1>2, <1>3, <1>4 DEF RunTypes, RunRec
<1>7. RunTypes'
  BY <1>2, <1>3, <1>4 DEF RunTypes, RunRec, Pcs, Writing
<1>8. reports[c] = 0 /\ (run[c].failed <=> \E o \in Outs : <<c, o>> \in missed)
  BY <1>1 DEF IInv, FailuresKept, Ended
<1>9. /\ reports'[c] = (IF run[c].failed THEN 1 ELSE 0)
      /\ \A d \in Calls \ {c} : reports'[d] = reports[d]
      /\ reports' \in [Calls -> Nat]
  BY <1>3, <1>4, <1>5, <1>8 DEF RestTypes
<1>10. RestTypes'
  BY <1>3, <1>4, <1>9 DEF RestTypes
<1>11. TypeOK'
  BY <1>3, <1>4, <1>7, <1>10, TypesAfter DEF CETypes, PoolTypes, FileTypes
<1>12. Apart'
  BY <1>3, <1>6, KeepingApart
<1>13. \A d \in Calls \ {c} : Leaves(d)
  BY <1>3, <1>6, <1>9 DEF Leaves
<1>14. CheckingFits(c, run'[c], ces'[run'[c].ce])
  BY <1>6 DEF CheckingFits, Checking
<1>15. WritingFits(c, run'[c], ces'[run'[c].ce])
  BY <1>1, <1>2, <1>3, <1>6 DEF WritingFits
<1>16. ReportsFit(c)' /\ EndFits(c)'
  BY <1>3, <1>6, <1>8, <1>9 DEF ReportsFit, EndFits
<1>17. QED
  BY <1>11, <1>12, <1>13, <1>14, <1>15, <1>16, Assemble

LEMMA FinishStep ==
  ASSUME IInv, NEW c \in Calls, Finish(c)
  PROVE  IInv'
<1> DEFINE h == run[c].ce
<1>1. /\ run[c].pc = "finish" /\ run[c].pc \in Writing
      /\ UNCHANGED <<level, ces, made, file, durable, faults, settings, open, ever, missed, reports>>
  BY DEF Finish, Writing, poolVars, pastVars, Release
<1>2. /\ run[c] \in RunRec /\ h \in Handles /\ h # None
      /\ WritingFits(c, run[c], ces[h])
      /\ \A d \in Calls \ {c} : run[d].ce # h
  BY <1>1, WritingKeeps
<1>3. RunTypes /\ CETypes /\ FileTypes /\ PoolTypes /\ RestTypes
  BY Types DEF IInv
<1>4. ces[h].after = Terminal(run[c].lvl)
  BY <1>1, <1>2 DEF WritingFits
<1>5. reports[c] = IF \E o \in Outs : <<c, o>> \in missed THEN 1 ELSE 0
  BY <1>1 DEF IInv, FailureIsReported
<1>6. CASE /\ ces[h].after \in {"none", "noop", "custom"}
           /\ run' = [run EXCEPT ![c].pc = "returned", ![c].ce = None]
           /\ pool' = pool \cup {h}
           /\ UNCHANGED exited
  <2>1. /\ run'[c].pc = "returned" /\ run'[c].ce = None /\ run'[c].lvl = run[c].lvl
        /\ \A d \in Calls \ {c} : run'[d] = run[d]
    BY <1>2, <1>3, <1>6 DEF RunTypes, RunRec
  <2>2. RunTypes'
    BY <1>2, <1>3, <1>6 DEF RunTypes, RunRec, Pcs, Ended
  <2>3. h \in made
    BY <1>2 DEF IInv, Apart
  <2>4. RestTypes' /\ PoolTypes'
    BY <1>1, <1>3, <1>6, <2>3 DEF RestTypes, PoolTypes
  <2>5. TypeOK'
    BY <1>1, <1>3, <2>2, <2>4, TypesAfter DEF CETypes, FileTypes
  <2>6. Apart'
    <3>1. ASSUME NEW d \in Calls, run'[d].ce # None
          PROVE  /\ run'[d].ce \in made' \ pool'
                 /\ \A e \in Calls \ {d} : run'[e].ce # run'[d].ce
      <4>1. d # c /\ run'[d] = run[d] /\ run[d].ce # None
        BY <2>1, <3>1
      <4>2. /\ run[d].ce \in made \ pool /\ run[d].ce # h
            /\ \A e \in Calls \ {d} : run[e].ce # run[d].ce
        BY <1>2, <4>1 DEF IInv, Apart
      <4>3. \A e \in Calls \ {d} : run'[e].ce # run'[d].ce
        BY <2>1, <4>1, <4>2
      <4>4. run'[d].ce \in made' \ pool'
        <5>1. pool' = pool \cup {h} /\ made' = made
          BY <1>1, <1>6
        <5>2. QED
          BY <4>1, <4>2, <5>1
      <4>5. QED
        BY <4>3, <4>4
    <3>2. QED
      BY <3>1 DEF Apart
  <2>7. \A d \in Calls \ {c} : Leaves(d)
    BY <1>1, <2>1 DEF Leaves
  <2>8. /\ CheckingFits(c, run'[c], ces'[run'[c].ce])
        /\ WritingFits(c, run'[c], ces'[run'[c].ce])
    BY <2>1 DEF CheckingFits, WritingFits, Checking, Writing
  <2>9. ReportsFit(c)'
    BY <1>1, <1>5, <2>1 DEF ReportsFit, Ended
  <2>10. EndFits(c)'
    BY <1>4, <1>6, <2>1 DEF EndFits, Terminal, Override, PanicLevel, FatalLevel, DPanicLevel
  <2>11. QED
    BY <2>5, <2>6, <2>7, <2>8, <2>9, <2>10, Assemble
<1>7. CASE run' = [run EXCEPT ![c].pc = "gone"] /\ UNCHANGED <<pool, exited>>
  <2>1. /\ run'[c].pc = "gone" /\ run'[c].ce = h /\ run'[c].lvl = run[c].lvl
        /\ \A d \in Calls \ {c} : run'[d] = run[d]
    BY <1>2, <1>3, <1>7 DEF RunTypes, RunRec
  <2>2. RunTypes'
    BY <1>2, <1>3, <1>7 DEF RunTypes, RunRec, Pcs, Ended
  <2>3. TypeOK'
    BY <1>1, <1>3, <1>7, <2>2, TypesAfter DEF CETypes, FileTypes, PoolTypes, RestTypes
  <2>4. Apart'
    BY <1>1, <1>7, <2>1, KeepingApart
  <2>5. \A d \in Calls \ {c} : Leaves(d)
    BY <1>1, <2>1 DEF Leaves
  <2>6. /\ CheckingFits(c, run'[c], ces'[run'[c].ce])
        /\ WritingFits(c, run'[c], ces'[run'[c].ce])
    BY <2>1 DEF CheckingFits, WritingFits, Checking, Writing
  <2>7. ReportsFit(c)' /\ EndFits(c)'
    BY <1>1, <1>5, <2>1 DEF ReportsFit, EndFits, Ended
  <2>8. QED
    BY <2>3, <2>4, <2>5, <2>6, <2>7, Assemble
<1>8. CASE exited' = TRUE /\ UNCHANGED <<pool, run>>
  <2>1. TypeOK'
    BY <1>1, <1>3, <1>8, TypesAfter DEF RunTypes, CETypes, FileTypes, PoolTypes, RestTypes
  <2>2. Apart'
    BY <1>1, <1>8, KeepingApart
  <2>3. \A d \in Calls \ {c} : Leaves(d)
    BY <1>1, <1>8 DEF Leaves
  <2>4. /\ CheckingFits(c, run'[c], ces'[run'[c].ce])
        /\ WritingFits(c, run'[c], ces'[run'[c].ce])
    BY <1>1, <1>8 DEF IInv, Fits
  <2>5. ReportsFit(c)' /\ EndFits(c)'
    BY <1>1, <1>5, <1>8 DEF ReportsFit, EndFits
  <2>6. QED
    BY <2>1, <2>2, <2>3, <2>4, <2>5, Assemble
<1>9. QED
  BY <1>6, <1>7, <1>8 DEF Finish, Release, poolVars

LEMMA SetLevelStep ==
  ASSUME IInv, SetLevel
  PROVE  IInv'
<1>1. /\ settings < MaxSettings /\ settings' = settings + 1
      /\ level' \in Settings
      /\ UNCHANGED <<ces, made, pool, run, file, durable, exited, faults, missed, reports>>
  BY DEF SetLevel, poolVars
<1>2. RunTypes /\ CETypes /\ FileTypes /\ PoolTypes /\ RestTypes
  BY Types DEF IInv
<1>3. open' \in [Calls -> SUBSET Outs] /\ ever' \in [Calls -> SUBSET Outs]
  <2>1. PICK lv \in Settings \ {level} :
          LET gates(c) == {o \in Outs : /\ PassesFilter(run[c].via, run[c].lvl)
                                        /\ GateOpen(o, run[c].lvl, lv)}
              asking == {c \in Calls : run[c].pc \in Checking}
          IN /\ open' = [c \in Calls |-> IF c \in asking THEN open[c] \cap gates(c) ELSE open[c]]
             /\ ever' = [c \in Calls |-> IF c \in asking THEN ever[c] \cup gates(c) ELSE ever[c]]
    BY DEF SetLevel
  <2>2. QED
    BY <1>2, <2>1 DEF RestTypes
<1>4. settings' \in 0 .. MaxSettings
  BY <1>1, <1>2, Basics DEF RestTypes
<1>5. level' \in Levels
  BY <1>1, Basics
<1>6. RestTypes'
  BY <1>1, <1>2, <1>3, <1>4, <1>5 DEF RestTypes
<1>7. TypeOK'
  BY <1>1, <1>2, <1>6, TypesAfter DEF RunTypes, CETypes, FileTypes, PoolTypes
<1>8. QED
  BY <1>1, <1>7 DEF IInv, Apart, Fits, CheckingFits, WritingFits, FailuresKept,
                    FailureIsReported, NoReturnFromTerminal

LEMMA NextIInv == IInv /\ [Next]_vars => IInv'
<1> SUFFICES ASSUME IInv, [Next]_vars PROVE IInv'
  OBVIOUS
<1>1. CASE UNCHANGED vars
  <2>1. UNCHANGED <<level, ces, made, pool, run, file, durable, exited, faults, settings,
                    open, ever, missed, reports>>
    BY <1>1 DEF vars, poolVars, pastVars
  <2>2. TypeOK'
    BY <2>1 DEF IInv, TypeOK
  <2>3. QED
    BY <2>1, <2>2 DEF IInv, Apart, Fits, CheckingFits, WritingFits, FailuresKept,
                      FailureIsReported, NoReturnFromTerminal
<1>2. CASE SetLevel
  BY <1>2, SetLevelStep
<1>3. ASSUME NEW c \in Calls, Call(c) PROVE IInv'
  BY <1>3, BeginStep, VisitStep, AnnotateStep, BeginWriteStep, WriteCoreStep, CoreFailsStep,
     SyncCoreStep, ReportStep, FinishStep DEF Call
<1>4. QED
  BY <1>1, <1>2, <1>3 DEF Next

-----------------------------------------------------------------------------
(* The invariant holds in every reachable state.                            *)
THEOREM LogCallInvariance == Spec => []IInv
  BY InitIInv, NextIInv, PTL DEF Spec

(* Every variable of a log call keeps its type; in particular no core index *)
(* is out of range.                                                         *)
THEOREM LogCallTypeCorrect == Spec => []TypeOK
<1>1. IInv => TypeOK
  BY DEF IInv
<1>2. QED
  BY <1>1, LogCallInvariance, PTL

(* slcore/entry.go, _cePool: a CheckedEntry is never in the hands of two    *)
(* calls, nor in the pool while a call works with it.                       *)
THEOREM NoEntrySharedCorrect == Spec => []NoEntryShared
<1>1. IInv => NoEntryShared
  BY DEF IInv, Apart, NoEntryShared, Active
<1>2. QED
  BY <1>1, LogCallInvariance, PTL

(* logger.go, check: no hook, level or output configuration lets a Panic or *)
(* Fatal call go on, unless a hook of the user's own does.                  *)
THEOREM NoReturnFromTerminalCorrect == Spec => []NoReturnFromTerminal
<1>1. IInv => NoReturnFromTerminal
  BY DEF IInv
<1>2. QED
  BY <1>1, LogCallInvariance, PTL

(* slcore/entry.go:234-247: whatever outputs fail and in whatever order, a  *)
(* call that has written its entry has reported its failures exactly once.  *)
THEOREM FailureIsReportedCorrect == Spec => []FailureIsReported
<1>1. IInv => FailureIsReported
  BY DEF IInv
<1>2. QED
  BY <1>1, LogCallInvariance, PTL

-----------------------------------------------------------------------------
(* Which outputs get the entry: RouteInv, on top of IInv.  A call takes its *)
(* cores in the order of the outputs, each at most once, so the one it      *)
(* writes next has had nothing from it yet; and Apart keeps them its own.   *)

LEMMA TakenTypes ==
  ASSUME IInv, NEW c \in Calls
  PROVE  /\ Taken(c) \in Seq(Outs)
         /\ DOMAIN Taken(c) = 1 .. Len(Taken(c)) /\ Len(Taken(c)) \in Nat
         /\ run[c] \in RunRec /\ run[c].at \in Nat /\ run[c].at >= 1
         /\ run[c].lvl \in Levels \cup {None} /\ run[c].pc \in Pcs
<1>1. RunTypes /\ CETypes
  BY Types DEF IInv
<1>2. run[c] \in RunRec
  BY <1>1 DEF RunTypes
<1>3. run[c].at \in Nat /\ run[c].at >= 1
  BY <1>2, Basics DEF RunRec
<1>4. run[c].ce # None => run[c].ce \in Handles
  BY <1>2 DEF RunRec
<1>5. Taken(c) \in Seq(Outs)
  <2>1. CASE run[c].ce = None
    BY <2>1 DEF Taken
  <2>2. CASE run[c].ce # None
    BY <1>1, <1>4, <2>2 DEF Taken, CETypes, CERec
  <2>3. QED
    BY <2>1, <2>2
<1>6. run[c].lvl \in Levels \cup {None} /\ run[c].pc \in Pcs
  BY <1>2 DEF RunRec
<1>7. QED
  BY <1>2, <1>3, <1>5, <1>6

(* What a step of call c has to show of its own call and of the outputs; the *)
(* other calls and their entries stay as they were.                         *)
LEMMA RouteAssemble ==
  ASSUME IInv, RouteInv, NEW c \in Calls, level' = level,
         \A d \in Calls \ {c} : Leaves(d) /\ open'[d] = open[d] /\ ever'[d] = ever[d],
         file' \in [Outs -> Seq(Calls)], durable' \in [Outs -> Nat],
         \A o \in Outs :
            /\ durable'[o] >= durable[o]
            /\ \A i \in DOMAIN file[o] : i \in DOMAIN file'[o] /\ file'[o][i] = file[o][i]
            /\ \A i \in DOMAIN file'[o] : i \in DOMAIN file[o] \/ file'[o][i] = c
            /\ IsInjective(file'[o])
            /\ \A i \in DOMAIN file'[o] : file'[o][i] = c => EntryFits(o, i, c)',
         GatesFit(c)', TakenFits(c)', OpenFits(c)'
  PROVE  RouteInv'
<1>1. ASSUME NEW d \in Calls \ {c}
      PROVE  /\ run'[d] = run[d] /\ Taken(d)' = Taken(d)
             /\ open'[d] = open[d] /\ ever'[d] = ever[d]
             /\ \A o \in Outs : <<d, o>> \in missed' <=> <<d, o>> \in missed
  BY DEF Leaves, Taken
<1>2. \A d \in Calls, o \in Outs : d \in Range(file[o]) => d \in Range(file'[o])
  BY DEF Range
<1>3. ASSUME NEW d \in Calls \ {c}
      PROVE  GatesFit(d)' /\ TakenFits(d)' /\ OpenFits(d)'
  <2>1. GatesFit(d) /\ TakenFits(d) /\ OpenFits(d)
    BY DEF RouteInv
  <2>2. GatesFit(d)'
    BY <1>1, <2>1 DEF GatesFit, GateOpenFor
  <2>3. TakenFits(d)'
    BY <1>1, <2>1 DEF TakenFits
  <2>4. ASSUME NEW o \in Outs, Served(d, o)
        PROVE  Served(d, o)'
    BY <1>1, <1>2, <2>4 DEF Served
  <2>5. OpenFits(d)'
    <3>1. open[d] \subseteq Outs
      BY Types DEF IInv, RestTypes
    <3>2. \A i \in DOMAIN Taken(d) : Taken(d)[i] \in Outs
      BY TakenTypes
    <3>3. \A o \in Outs : Served(d, o) => Served(d, o)'
      BY <2>4
    <3> HIDE DEF Served, Taken
    <3>4. QED
      BY <1>1, <2>1, <3>1, <3>2, <3>3 DEF OpenFits, Passed
  <2>6. QED
    BY <2>2, <2>3, <2>5
<1>4. ASSUME NEW o \in Outs, NEW i \in DOMAIN file'[o]
      PROVE  EntryFits(o, i, file[o][i])'
  <2>1. CASE file'[o][i] = c
    <3>1. EntryFits(o, i, c)'
      BY <2>1
    <3>2. QED
      BY <2>1, <3>1 DEF EntryFits
  <2>2. CASE file'[o][i] # c
    <3>1. i \in DOMAIN file[o] /\ file'[o][i] = file[o][i]
      BY <2>2
    <3>2. PICK d \in Calls \ {c} : file[o][i] = d
      <4>1. file[o] \in Seq(Calls)
        BY DEF RouteInv
      <4>2. file[o][i] \in Calls
        BY <3>1, <4>1
      <4>3. QED
        BY <2>2, <3>1, <4>2
    <3>3. EntryFits(o, i, d)
      BY <3>1, <3>2 DEF RouteInv
    <3>4. EntryFits(o, i, d)'
      <4>1. /\ run'[d] = run[d] /\ Taken(d)' = Taken(d) /\ ever'[d] = ever[d]
            /\ durable'[o] >= durable[o] /\ durable'[o] \in Nat /\ durable[o] \in Nat
        BY <1>1, <3>2 DEF RouteInv
      <4>2. i \in Nat
        <5>1. file[o] \in Seq(Calls)
          BY DEF RouteInv
        <5>2. QED
          BY <3>1, <5>1
      <4>3. durable[o] >= i => durable'[o] >= i
        BY <4>1, <4>2
      <4>4. QED
        BY <3>3, <4>1, <4>3 DEF EntryFits, Passed
    <3>5. QED
      BY <3>1, <3>2, <3>4 DEF EntryFits
  <2>3. QED
    BY <2>1, <2>2
<1>5. QED
  BY <1>3, <1>4 DEF RouteInv

(* Such a step of a call that writes to no output.                          *)
LEMMA RouteQuiet ==
  ASSUME IInv, RouteInv, NEW c \in Calls, UNCHANGED <<level, file, durable>>,
         \A d \in Calls \ {c} : Leaves(d) /\ open'[d] = open[d] /\ ever'[d] = ever[d],
         \A o \in Outs : \A i \in DOMAIN file[o] :
            EntryFits(o, i, c) /\ file[o][i] = c => EntryFits(o, i, c)',
         GatesFit(c)', TakenFits(c)', OpenFits(c)'
  PROVE  RouteInv'
<1>1. \A o \in Outs : \A i \in DOMAIN file[o] : file[o][i] = c => EntryFits(o, i, c)'
  BY DEF RouteInv
<1>2. file' \in [Outs -> Seq(Calls)] /\ durable' \in [Outs -> Nat]
  BY DEF RouteInv
<1>3. \A o \in Outs : IsInjective(file'[o])
  BY DEF RouteInv
<1>4. \A o \in Outs : durable'[o] >= durable[o]
  BY <1>2
<1>5. QED
  BY <1>1, <1>2, <1>3, <1>4, RouteAssemble

(* A call that has not begun to write is in no output.                      *)
LEMMA NotWrittenYet ==
  ASSUME RouteInv, NEW c \in Calls, run[c].pc \in {"new", "run"} \cup Checking,
         NEW o \in Outs, NEW i \in DOMAIN file[o]
  PROVE  file[o][i] # c
<1>1. SUFFICES ASSUME file[o][i] = c PROVE FALSE
  OBVIOUS
<1>2. EntryFits(o, i, c)
  BY <1>1 DEF RouteInv
<1>3. QED
  BY <1>2 DEF EntryFits, Checking, Ended

LEMMA BeginRoute ==
  ASSUME IInv, RouteInv, NEW c \in Calls, Begin(c)
  PROVE  RouteInv'
<1>1. PICK l \in Wanted, via \in Loggers :
        /\ run' = [run EXCEPT ![c].lvl = l, ![c].via = via,
                     ![c].pc = IF MaySkip(l) /\ ~CoreEnabled(via, l) THEN "skipped"
                               ELSE IF PassesFilter(via, l) /\ Outputs # <<>> THEN "check"
                               ELSE "annotate"]
        /\ LET now == {o \in Outs : PassesFilter(via, l) /\ GateOpen(o, l, level)} IN
            /\ open' = [open EXCEPT ![c] = now]
            /\ ever' = [ever EXCEPT ![c] = now]
  BY DEF Begin
<1> DEFINE now == {o \in Outs : PassesFilter(via, l) /\ GateOpen(o, l, level)}
<1>2. /\ run[c].pc = "new"
      /\ UNCHANGED <<level, ces, made, pool, file, durable, exited, faults, settings, missed, reports>>
  BY DEF Begin, poolVars
<1>3. RunTypes /\ RestTypes
  BY Types DEF IInv
<1>4. run[c] \in RunRec /\ run[c].ce = None /\ run[c].at = 1
  BY <1>2, <1>3 DEF RunTypes, IInv, Fits, CheckingFits
<1>5. /\ run'[c].lvl = l /\ run'[c].via = via /\ run'[c].ce = None /\ run'[c].at = 1
      /\ run'[c].pc \in {"skipped", "check", "annotate"}
      /\ run'[c].pc = "skipped" => ~CoreEnabled(via, l)
      /\ run'[c].pc = "check" => PassesFilter(via, l)
      /\ run'[c].pc = "annotate" => ~(PassesFilter(via, l) /\ Outputs # <<>>)
      /\ \A d \in Calls \ {c} : run'[d] = run[d]
  BY <1>1, <1>3, <1>4 DEF RunTypes, RunRec
<1>6. /\ open'[c] = now /\ ever'[c] = now
      /\ \A d \in Calls \ {c} : open'[d] = open[d] /\ ever'[d] = ever[d]
  BY <1>1, <1>3 DEF RestTypes
<1>7. \A d \in Calls \ {c} : Leaves(d)
  BY <1>2, <1>5 DEF Leaves
<1>8. Taken(c)' = <<>>
  BY <1>5 DEF Taken
<1>9. \A o : GateOpenFor(c, o)' <=> PassesFilter(via, l) /\ GateOpen(o, l, level)
  BY <1>2, <1>5 DEF GateOpenFor
<1>10. GatesFit(c)' /\ TakenFits(c)'
  BY <1>5, <1>6, <1>8, <1>9 DEF GatesFit, TakenFits
<1>11. run'[c].pc \in {"skipped", "annotate"} => now = {}
  <2>1. CASE run'[c].pc = "skipped"
    BY <1>5, <2>1 DEF CoreEnabled, PassesFilter
  <2>2. CASE run'[c].pc = "annotate"
    <3>1. Outputs = <<>> => Outs = {}
      BY DEF Outs
    <3>2. QED
      BY <1>5, <2>2, <3>1
  <2>3. QED
    BY <2>1, <2>2
<1>12. OpenFits(c)'
  <2>1. \A o \in Outs : ~(o < 1)
    BY Basics
  <2>2. run'[c].pc = "check" => \A o \in open'[c] : ~(o < run'[c].at)
    BY <1>5, <1>6, <2>1
  <2>3. run'[c].pc # "check" => open'[c] = {}
    BY <1>5, <1>6, <1>11
  <2>4. QED
    BY <1>5, <2>2, <2>3 DEF OpenFits, Ended
<1>13. QED
  BY <1>2, <1>6, <1>7, <1>10, <1>12, NotWrittenYet, RouteQuiet

LEMMA SameCores ==
  ASSUME IInv, NEW c \in Calls, run[c].pc \in Checking, NEW h \in Holdable(c)
  PROVE  h \in Handles /\ h # None /\ Content(c, h).cores = Taken(c)
<1>1. h \in Handles /\ h # None
  BY Holding, Basics
<1>2. CASE run[c].ce # None
  BY <1>1, <1>2 DEF Holdable, Content, Taken
<1>3. CASE run[c].ce = None
  BY <1>1, <1>3, ContentFits DEF Taken
<1>4. QED
  BY <1>1, <1>2, <1>3

LEMMA VisitRoute ==
  ASSUME IInv, RouteInv, NEW c \in Calls, Visit(c)
  PROVE  RouteInv'
<1> DEFINE o == run[c].at
           next == IF o = Len(Outputs) THEN "annotate" ELSE "check"
<1>1. /\ run[c].pc = "check" /\ run[c].pc \in Checking
      /\ UNCHANGED <<level, file, durable, exited, faults, settings, open, ever, missed, reports>>
  BY DEF Visit, pastVars, Checking
<1>2. RunTypes /\ CETypes /\ RestTypes
  BY Types DEF IInv
<1>3. run[c] \in RunRec /\ o \in Outs /\ o \in Nat
  BY <1>1, <1>2, Basics DEF RunTypes, IInv, Fits, CheckingFits
<1>4. /\ Taken(c) \in Seq(Outs) /\ DOMAIN Taken(c) = 1 .. Len(Taken(c)) /\ Len(Taken(c)) \in Nat
      /\ open[c] \subseteq Outs
  BY <1>2, TakenTypes DEF RestTypes
<1>5. GatesFit(c) /\ TakenFits(c) /\ OpenFits(c)
  BY DEF RouteInv
<1>6. next \in {"check", "annotate"} /\ (next = "annotate" => o = Len(Outputs))
  OBVIOUS
<1> HIDE DEF next
<1>7. CASE GateOpen(o, run[c].lvl, level)
  <2>1. PICK h \in Holdable(c) :
          /\ Update(c, h, [Content(c, h) EXCEPT !.cores = Append(@, o)])
          /\ run' = [run EXCEPT ![c].ce = h, ![c].at = o + 1, ![c].pc = next]
    BY <1>7 DEF Visit, next
  <2>2. /\ h \in Handles /\ h # None /\ Content(c, h).cores = Taken(c)
        /\ \A d \in Calls \ {c} : run[d].ce # h
        /\ Content(c, h) \in CERec
    BY <1>1, Holding, SameCores, ContentFits
  <2>3. /\ run'[c].ce = h /\ run'[c].at = o + 1 /\ run'[c].pc = next
        /\ run'[c].lvl = run[c].lvl /\ run'[c].via = run[c].via
        /\ \A d \in Calls \ {c} : run'[d] = run[d]
    BY <1>2, <1>3, <2>1 DEF RunTypes, RunRec
  <2>4. /\ ces'[h].cores = Append(Taken(c), o)
        /\ \A g \in Handles : g # h => ces'[g] = ces[g]
    BY <1>2, <2>1, <2>2 DEF Update, CETypes, CERec
  <2>5. Taken(c)' = Append(Taken(c), o)
    BY <2>2, <2>3, <2>4 DEF Taken
  <2>6. \A d \in Calls \ {c} : Leaves(d)
    BY <1>1, <1>2, <2>2, <2>3, <2>4 DEF Leaves, RunTypes, RunRec
  <2>7. /\ DOMAIN Taken(c)' = 1 .. Len(Taken(c)) + 1
        /\ \A i \in DOMAIN Taken(c) : Taken(c)'[i] = Taken(c)[i] /\ Taken(c)[i] \in Outs
        /\ Taken(c)'[Len(Taken(c)) + 1] = o
    BY <1>3, <1>4, <2>5
  <2>8. GateOpenFor(c, o) /\ o \in ever[c] /\ Routes(o, run[c].lvl)
    BY <1>1, <1>3, <1>5, <1>7 DEF GatesFit, GateOpenFor, GateOpen
  <2>9. GatesFit(c)'
    BY <1>1, <1>5, <1>6, <2>3 DEF GatesFit, GateOpenFor, Checking
  <2>10. TakenFits(c)'
    <3> DEFINE s == Taken(c)  t == Taken(c)'  n == Len(s)
    <3>1. \A i \in DOMAIN s : /\ s[i] \in ever[c] /\ PassesFilter(run[c].via, run[c].lvl)
                              /\ Routes(s[i], run[c].lvl) /\ s[i] < o
                              /\ \A j \in DOMAIN s : i < j => s[i] < s[j]
      BY <1>1, <1>5 DEF TakenFits
    <3>2. \A i \in DOMAIN t : i \in Nat /\ (i \in DOMAIN s \/ i = n + 1)
      BY <1>4, <2>7
    <3>3. \A i \in DOMAIN s : i <= n /\ t[i] = s[i] /\ s[i] \in Nat
      BY <1>4, <2>7, Basics
    <3>4. t[n + 1] = o /\ n \in Nat /\ PassesFilter(run[c].via, run[c].lvl)
      BY <1>4, <2>7, <2>8 DEF GateOpenFor
    <3> HIDE DEF s, t, n
    <3>5. ASSUME NEW i \in DOMAIN t
          PROVE  /\ t[i] \in ever[c] /\ Routes(t[i], run[c].lvl) /\ t[i] < o + 1
                 /\ \A j \in DOMAIN t : i < j => t[i] < t[j]
      <4>1. CASE i \in DOMAIN s
        <5>1. t[i] \in ever[c] /\ Routes(t[i], run[c].lvl) /\ t[i] < o /\ t[i] \in Nat
          BY <3>1, <3>3, <4>1
        <5>2. ASSUME NEW j \in DOMAIN t, i < j PROVE t[i] < t[j]
          BY <3>1, <3>2, <3>3, <3>4, <4>1, <5>1, <5>2
        <5>3. t[i] < o + 1
          BY <1>3, <5>1
        <5>4. QED
          BY <5>1, <5>2, <5>3
      <4>2. CASE i = n + 1
        <5>1. ASSUME NEW j \in DOMAIN t, i < j PROVE FALSE
          BY <3>2, <3>3, <3>4, <4>2, <5>1
        <5>2. o < o + 1
          BY <1>3
        <5>3. QED
          BY <2>8, <3>4, <4>2, <5>1, <5>2
      <4>3. QED
        BY <3>2, <4>1, <4>2
    <3>6. \A i \in DOMAIN t : i \in DOMAIN Taken(c)' /\ t[i] = Taken(c)'[i]
      BY DEF t
    <3>7. t = Taken(c)'
      BY DEF t
    <3>8. QED
      BY <1>1, <2>3, <3>4, <3>5, <3>7 DEF TakenFits
  <2>11. OpenFits(c)'
    <3>1. \A x \in open[c] : x < o => x \in Range(Taken(c))
      BY <1>1, <1>5 DEF OpenFits
    <3>2. Range(Taken(c)) \subseteq Range(Taken(c)') /\ o \in Range(Taken(c)')
      BY <1>4, <2>7 DEF Range
    <3>3. ASSUME NEW x \in open[c], next = "check" => x < o + 1
          PROVE  x \in Range(Taken(c)')
      <4>1. x \in Nat /\ x <= Len(Outputs) /\ Len(Outputs) \in Nat
        BY <1>4, Basics
      <4>2. x < o + 1
        BY <1>6, <3>3, <4>1
      <4>3. x < o \/ x = o
        BY <1>3, <4>1, <4>2
      <4>4. QED
        BY <3>1, <3>2, <4>3
    <3>4. \A x \in open'[c] : (run'[c].pc = "check" => x < run'[c].at) => x \in Range(Taken(c)')
      BY <1>1, <2>3, <3>3
    <3>5. QED
      BY <1>6, <2>3, <3>4 DEF OpenFits, Ended
  <2>12. QED
    BY <1>1, <2>6, <2>9, <2>10, <2>11, NotWrittenYet, RouteQuiet
<1>8. CASE ~GateOpen(o, run[c].lvl, level)
  <2>1. run' = [run EXCEPT ![c].at = o + 1, ![c].pc = next] /\ UNCHANGED <<ces, made, pool>>
    BY <1>8 DEF Visit, poolVars, next
  <2>2. /\ run'[c].ce = run[c].ce /\ run'[c].at = o + 1 /\ run'[c].pc = next
        /\ run'[c].lvl = run[c].lvl /\ run'[c].via = run[c].via
        /\ \A d \in Calls \ {c} : run'[d] = run[d]
    BY <1>2, <1>3, <2>1 DEF RunTypes, RunRec
  <2>3. Taken(c)' = Taken(c)
    BY <2>1, <2>2 DEF Taken
  <2>4. \A d \in Calls \ {c} : Leaves(d)
    BY <1>1, <2>1, <2>2 DEF Leaves
  <2>5. GatesFit(c)'
    BY <1>1, <1>5, <1>6, <2>2 DEF GatesFit, GateOpenFor, Checking
  <2>6. TakenFits(c)'
    <3>1. \A i \in DOMAIN Taken(c) : Taken(c)[i] \in Nat
      BY <1>4, Basics
    <3>2. \A i \in DOMAIN Taken(c) : Taken(c)[i] < o => Taken(c)[i] < o + 1
      BY <1>3, <3>1
    <3>3. QED
      BY <1>1, <1>5, <2>2, <2>3, <3>2 DEF TakenFits
  <2>7. OpenFits(c)'
    <3>1. \A x \in open[c] : x < o => x \in Range(Taken(c))
      BY <1>1, <1>5 DEF OpenFits
    <3>2. o \notin open[c]
      BY <1>1, <1>3, <1>5, <1>8 DEF GatesFit, GateOpenFor
    <3>3. ASSUME NEW x \in open[c], next = "check" => x < o + 1
          PROVE  x \in Range(Taken(c))
      <4>1. x \in Nat /\ x <= Len(Outputs) /\ Len(Outputs) \in Nat
        BY <1>4, Basics
      <4>2. x < o + 1
        BY <1>6, <3>3, <4>1
      <4>3. x < o \/ x = o
        BY <1>3, <4>1, <4>2
      <4>4. QED
        BY <3>1, <3>2, <4>3
    <3>4. \A x \in open'[c] : (run'[c].pc = "check" => x < run'[c].at) => x \in Range(Taken(c)')
      BY <1>1, <2>2, <2>3, <3>3
    <3>5. QED
      BY <1>6, <2>2, <3>4 DEF OpenFits, Ended
  <2>8. QED
    BY <1>1, <2>4, <2>5, <2>6, <2>7, NotWrittenYet, RouteQuiet
<1>9. QED
  BY <1>7, <1>8

LEMMA AnnotateRoute ==
  ASSUME IInv, RouteInv, NEW c \in Calls, Annotate(c)
  PROVE  RouteInv'
<1> DEFINE after == Terminal(run[c].lvl)
           willWrite == run[c].ce # None
<1>1. /\ run[c].pc = "annotate" /\ run[c].pc \in Checking
      /\ UNCHANGED <<level, file, durable, exited, faults, settings, open, ever, missed, reports>>
  BY DEF Annotate, pastVars, Checking
<1>2. RunTypes /\ CETypes
  BY Types DEF IInv
<1>3. run[c] \in RunRec
  BY <1>2 DEF RunTypes
<1>4. GatesFit(c) /\ TakenFits(c) /\ OpenFits(c)
  BY DEF RouteInv
<1>5. \A x \in open[c] : x \in Range(Taken(c))
  BY <1>1, <1>4 DEF OpenFits
<1>6. CASE willWrite \/ after # "none"
  <2>1. PICK h \in Holdable(c) :
          /\ Update(c, h, [Content(c, h) EXCEPT !.after = after, !.errorOutput = willWrite])
          /\ run' = [run EXCEPT ![c].ce = h, ![c].pc = "run"]
    BY <1>6 DEF Annotate
  <2>2. /\ h \in Handles /\ h # None /\ Content(c, h).cores = Taken(c)
        /\ \A d \in Calls \ {c} : run[d].ce # h
        /\ Content(c, h) \in CERec
    BY <1>1, Holding, SameCores, ContentFits
  <2> HIDE DEF after, willWrite
  <2>3. /\ run'[c].ce = h /\ run'[c].at = run[c].at /\ run'[c].pc = "run"
        /\ run'[c].lvl = run[c].lvl /\ run'[c].via = run[c].via
        /\ \A d \in Calls \ {c} : run'[d] = run[d]
    BY <1>2, <1>3, <2>1 DEF RunTypes, RunRec
  <2>4. /\ ces'[h].cores = Taken(c)
        /\ \A g \in Handles : g # h => ces'[g] = ces[g]
    BY <1>2, <2>1, <2>2 DEF Update, CETypes, CERec
  <2>5. Taken(c)' = Taken(c)
    BY <2>2, <2>3, <2>4 DEF Taken
  <2>6. \A d \in Calls \ {c} : Leaves(d)
    BY <1>1, <1>2, <2>2, <2>3, <2>4 DEF Leaves, RunTypes, RunRec
  <2>7. GatesFit(c)'
    BY <2>3 DEF GatesFit, Checking
  <2>8. TakenFits(c)'
    BY <1>1, <1>4, <2>3, <2>5 DEF TakenFits
  <2>9. OpenFits(c)'
    BY <1>1, <1>5, <2>3, <2>5 DEF OpenFits, Ended
  <2>10. QED
    BY <1>1, <2>6, <2>7, <2>8, <2>9, NotWrittenYet, RouteQuiet
<1>7. CASE ~willWrite /\ after = "none"
  <2>1. run' = [run EXCEPT ![c].pc = "skipped"] /\ UNCHANGED <<ces, made, pool>>
    BY <1>7 DEF Annotate, poolVars
  <2>2. /\ run'[c].ce = run[c].ce /\ run'[c].pc = "skipped" /\ run'[c].lvl = run[c].lvl
        /\ \A d \in Calls \ {c} : run'[d] = run[d]
    BY <1>2, <1>3, <2>1 DEF RunTypes, RunRec
  <2>3. \A d \in Calls \ {c} : Leaves(d)
    BY <1>1, <2>1, <2>2 DEF Leaves
  <2>4. open[c] = {}
    <3>1. Taken(c) = <<>>
      BY <1>7 DEF Taken
    <3>2. Range(Taken(c)) = {}
      BY <3>1 DEF Range
    <3>3. QED
      BY <1>5, <3>2
  <2>5. GatesFit(c)' /\ TakenFits(c)' /\ OpenFits(c)'
    BY <1>1, <2>2, <2>4 DEF GatesFit, TakenFits, OpenFits, Checking, Writing
  <2>6. QED
    BY <1>1, <2>3, <2>5, NotWrittenYet, RouteQuiet
<1>8. QED
  BY <1>6, <1>7

LEMMA BeginWriteRoute ==
  ASSUME IInv, RouteInv, NEW c \in Calls, BeginWrite(c)
  PROVE  RouteInv'
<1> DEFINE h == run[c].ce
<1>1. run[c].pc = "run" /\ run[c].pc \in Writing
  BY DEF BeginWrite, Writing
<1>2. /\ run[c] \in RunRec /\ h \in Handles /\ h # None /\ ces[h] \in CERec
      /\ \A d \in Calls \ {c} : run[d].ce # h
      /\ ~ces[h].dirty /\ ces[h].entry = c
  BY <1>1, WritingKeeps DEF WritingFits
<1>3. /\ run' = [run EXCEPT ![c].pc = "write", ![c].at = 1, ![c].ent = c]
      /\ ces' = [ces EXCEPT ![h].dirty = TRUE]
      /\ UNCHANGED <<level, made, pool, file, durable, exited, faults, settings, open, ever, missed, reports>>
  BY <1>1, <1>2 DEF BeginWrite, pastVars
<1>4. RunTypes /\ CETypes
  BY Types DEF IInv
<1>5. /\ run'[c].pc = "write" /\ run'[c].at = 1 /\ run'[c].ce = h
      /\ run'[c].lvl = run[c].lvl /\ run'[c].via = run[c].via
      /\ \A d \in Calls \ {c} : run'[d] = run[d]
  BY <1>2, <1>3, <1>4 DEF RunTypes, RunRec
<1>6. ces'[h].cores = ces[h].cores /\ \A g \in Handles : g # h => ces'[g] = ces[g]
  BY <1>2, <1>3, <1>4 DEF CETypes, CERec
<1>7. Taken(c)' = Taken(c)
  BY <1>2, <1>5, <1>6 DEF Taken
<1>8. \A d \in Calls \ {c} : Leaves(d)
  BY <1>2, <1>3, <1>4, <1>5, <1>6 DEF Leaves, RunTypes, RunRec
<1>9. GatesFit(c) /\ TakenFits(c) /\ OpenFits(c)
  BY DEF RouteInv
<1>10. GatesFit(c)' /\ TakenFits(c)'
  BY <1>1, <1>3, <1>5, <1>7, <1>9 DEF GatesFit, TakenFits, Checking
<1>11. OpenFits(c)'
  <2>1. \A i \in DOMAIN Taken(c) : ~(i < 1)
    BY TakenTypes
  <2>2. QED
    BY <1>1, <1>3, <1>5, <1>7, <1>9, <2>1 DEF OpenFits, Passed, Ended
<1>12. QED
  BY <1>1, <1>3, <1>8, <1>10, <1>11, NotWrittenYet, RouteQuiet

(* The core a call in Write stands at, among those it has taken.            *)
LEMMA CoreTaken ==
  ASSUME IInv, NEW c \in Calls, run[c].pc \in {"write", "sync"}, MoreCores(c)
  PROVE  /\ Core(c) = Taken(c)[run[c].at] /\ run[c].at \in DOMAIN Taken(c)
         /\ Core(c) \in Outs /\ run[c].at \in Nat
<1>1. run[c].ce # None
  BY WritingKeeps DEF Writing
<1>2. Taken(c) = ces[run[c].ce].cores
  BY <1>1 DEF Taken
<1>3. run[c].at \in 1 .. Len(Taken(c))
  BY <1>2, TakenTypes DEF MoreCores
<1>4. QED
  BY <1>2, <1>3, CoreAt, TakenTypes DEF Core

LEMMA WriteCoreRoute ==
  ASSUME IInv, RouteInv, NEW c \in Calls, WriteCore(c)
  PROVE  RouteInv'
<1> DEFINE syncs == SyncsAfter(run[c].lvl)
           at == run[c].at
<1>1. run[c].pc = "write" /\ run[c].pc \in Writing /\ MoreCores(c)
  BY DEF WriteCore, Writing
<1>2. /\ run[c] \in RunRec /\ run[c].ce # None /\ run[c].ent = c
  BY <1>1, WritingKeeps DEF WritingFits
<1>3. PICK x \in Outs : /\ x = Core(c) /\ x = Taken(c)[at]
                        /\ at \in DOMAIN Taken(c) /\ at \in Nat
  BY <1>1, CoreTaken
<1>4. /\ run' = [run EXCEPT ![c].failed = Join(@, FALSE),
                           ![c].pc = IF syncs THEN "sync" ELSE "write",
                           ![c].at = IF syncs THEN at ELSE at + 1]
      /\ file' = [file EXCEPT ![x] = Append(@, c)]
      /\ UNCHANGED <<level, ces, made, pool, durable, exited, faults, settings, open, ever,
                     missed, reports>>
  BY <1>2, <1>3 DEF WriteCore, poolVars, pastVars
<1>5. RunTypes /\ file \in [Outs -> Seq(Calls)] /\ durable \in [Outs -> Nat]
  BY Types DEF IInv, RouteInv
<1> HIDE DEF syncs
<1>6. /\ run'[c].pc = IF syncs THEN "sync" ELSE "write"
      /\ run'[c].at = IF syncs THEN at ELSE at + 1
      /\ run'[c].ce = run[c].ce
      /\ run'[c].lvl = run[c].lvl /\ run'[c].via = run[c].via
      /\ \A d \in Calls \ {c} : run'[d] = run[d]
  BY <1>2, <1>4, <1>5 DEF RunTypes, RunRec
<1>7. /\ file' \in [Outs -> Seq(Calls)] /\ file'[x] = Append(file[x], c)
      /\ \A o \in Outs : o # x => file'[o] = file[o]
  <2>1. Append(file[x], c) \in Seq(Calls)
    BY <1>3, <1>5
  <2>2. QED
    BY <1>3, <1>4, <1>5, <2>1
<1>8. /\ file[x] \in Seq(Calls) /\ Len(file[x]) \in Nat
      /\ DOMAIN file[x] = 1 .. Len(file[x]) /\ DOMAIN file'[x] = 1 .. Len(file[x]) + 1
      /\ file'[x][Len(file[x]) + 1] = c
      /\ \A i \in DOMAIN file[x] : file'[x][i] = file[x][i]
  <2>1. file[x] \in Seq(Calls)
    BY <1>5
  <2> DEFINE s == file[x]
  <2> HIDE DEF s
  <2>2. /\ Len(s) \in Nat /\ DOMAIN s = 1 .. Len(s)
        /\ DOMAIN Append(s, c) = 1 .. Len(s) + 1
        /\ Append(s, c)[Len(s) + 1] = c
        /\ \A i \in 1 .. Len(s) : Append(s, c)[i] = s[i]
    BY <2>1 DEF s
  <2>3. QED
    BY <1>7, <2>1, <2>2 DEF s
<1>9. \A d \in Calls \ {c} : Leaves(d)
  BY <1>4, <1>6 DEF Leaves
<1>10. Taken(c)' = Taken(c)
  BY <1>4, <1>6 DEF Taken
<1>11. GatesFit(c) /\ TakenFits(c) /\ OpenFits(c)
  BY DEF RouteInv
<1>12. GatesFit(c)'
  BY <1>6 DEF GatesFit, Checking
<1>13. TakenFits(c)'
  BY <1>1, <1>4, <1>6, <1>10, <1>11 DEF TakenFits
<1>14. \A o \in Outs : \A d \in Calls : d \in Range(file[o]) => d \in Range(file'[o])
  <2>1. ASSUME NEW o \in Outs, NEW i \in DOMAIN file[o]
        PROVE  i \in DOMAIN file'[o] /\ file'[o][i] = file[o][i]
    <3>1. CASE o = x
      BY <1>8, <3>1
    <3>2. CASE o # x
      BY <1>7, <3>2
    <3>3. QED
      BY <3>1, <3>2
  <2>2. QED
    BY <2>1 DEF Range
<1>15. c \in Range(file'[x])
  BY <1>8 DEF Range
<1>16. \A i \in DOMAIN Taken(c) : i \in Nat /\ Taken(c)[i] \in Outs
  BY TakenTypes
<1>17. \A i \in DOMAIN Taken(c) : i < at => Served(c, Taken(c)[i])'
  <2>1. ASSUME NEW o \in Outs, Served(c, o) PROVE Served(c, o)'
    BY <1>4, <1>14, <2>1 DEF Served
  <2>2. ASSUME NEW i \in DOMAIN Taken(c), i < at PROVE Served(c, Taken(c)[i])'
    <3>1. PICK o \in Outs : o = Taken(c)[i]
      BY <1>16
    <3>2. Served(c, o)'
      BY <1>1, <1>11, <2>1, <2>2, <3>1 DEF OpenFits, Passed
    <3>3. QED
      BY <1>10, <3>1, <3>2 DEF Served
  <2>3. QED
    BY <2>2
<1>18. OpenFits(c)'
  <2>1. \A o \in open[c] : o \in Range(Taken(c))
    BY <1>1, <1>11 DEF OpenFits
  <2>2. Served(c, x)'
    BY <1>15 DEF Served
  <2>3. ASSUME NEW i \in DOMAIN Taken(c), Passed(c, i)' PROVE Served(c, Taken(c)[i])'
    <3>1. i < at \/ i = at
      BY <1>3, <1>6, <1>16, <2>3 DEF Passed
    <3>2. CASE i < at
      BY <1>17, <3>2
    <3>3. CASE i = at
      BY <1>3, <2>2, <3>3, <1>10 DEF Served
    <3>4. QED
      BY <3>1, <3>2, <3>3
  <2>4. \A i \in DOMAIN Taken(c)' : Passed(c, i)' => Served(c, Taken(c)[i])'
    BY <1>10, <2>3
  <2>5. run'[c].pc \in {"write", "sync"}
    BY <1>6
  <2>6. \A o \in open'[c] : o \in Range(Taken(c)')
    BY <1>4, <1>10, <2>1
  <2>7. QED
    BY <2>4, <2>5, <2>6 DEF OpenFits, Ended
<1>19. ASSUME NEW i \in DOMAIN file[x] PROVE file[x][i] # c
  <2>1. SUFFICES ASSUME file[x][i] = c PROVE FALSE
    OBVIOUS
  <2>2. EntryFits(x, i, c)
    BY <1>3, <2>1 DEF RouteInv
  <2>3. PICK j \in DOMAIN Taken(c) : Taken(c)[j] = x /\ j < at
    BY <1>1, <2>2 DEF EntryFits, Passed
  <2>4. Taken(c)[j] < Taken(c)[at]
    BY <1>1, <1>3, <1>11, <2>3 DEF TakenFits
  <2>5. QED
    BY <1>3, <2>3, <2>4, Basics
<1>20. \A o \in Outs : IsInjective(file'[o])
  <2>1. \A o \in Outs : IsInjective(file[o])
    BY DEF RouteInv
  <2>2. IsInjective(file'[x])
    <3>1. \A i, j \in DOMAIN file[x] : file[x][i] = file[x][j] => i = j
      BY <1>3, <2>1 DEF IsInjective
    <3>2. \A i \in DOMAIN file'[x] : i \in DOMAIN file[x] \/ i = Len(file[x]) + 1
      BY <1>8
    <3>3. \A i, j \in DOMAIN file'[x] : file'[x][i] = file'[x][j] => i = j
      BY <1>8, <1>19, <3>1, <3>2
    <3>4. QED
      BY <3>3 DEF IsInjective
  <2>3. QED
    BY <1>7, <2>1, <2>2
<1>21. ASSUME NEW o \in Outs, NEW i \in DOMAIN file'[o], file'[o][i] = c
       PROVE  EntryFits(o, i, c)'
  <2>1. CASE o = x
    <3>1. i = Len(file[x]) + 1
      BY <1>8, <1>19, <1>21, <2>1
    <3>2. x \in ever[c] /\ PassesFilter(run[c].via, run[c].lvl) /\ Routes(x, run[c].lvl)
      BY <1>1, <1>3, <1>11 DEF TakenFits
    <3>3. Taken(c)[at] = x /\ (at < run'[c].at \/ (run'[c].pc = "sync" /\ at = run'[c].at))
      BY <1>3, <1>6
    <3>4. ~SyncsAfter(run[c].lvl) \/ (run'[c].pc = "sync" /\ Taken(c)[run'[c].at] = x)
      BY <1>3, <1>6 DEF syncs
    <3>5. QED
      BY <1>3, <1>4, <1>6, <1>10, <2>1, <3>2, <3>3, <3>4 DEF EntryFits, Passed
  <2>2. CASE o # x
    <3>1. i \in DOMAIN file[o] /\ file[o][i] = c
      BY <1>7, <1>21, <2>2
    <3>2. EntryFits(o, i, c)
      BY <3>1 DEF RouteInv
    <3>3. PICK j \in DOMAIN Taken(c) : Taken(c)[j] = o /\ j < at
      BY <1>1, <3>2 DEF EntryFits, Passed
    <3>4. j < run'[c].at
      BY <1>3, <1>6, <1>16, <3>3
    <3>5. SyncsAfter(run[c].lvl) => durable[o] >= i
      BY <1>1, <3>2 DEF EntryFits, Passed
    <3>6. QED
      BY <1>4, <1>6, <1>10, <3>2, <3>3, <3>4, <3>5 DEF EntryFits, Passed
  <2>3. QED
    BY <2>1, <2>2
<1>22. ASSUME NEW o \in Outs
       PROVE  /\ durable'[o] >= durable[o]
              /\ \A i \in DOMAIN file[o] : i \in DOMAIN file'[o] /\ file'[o][i] = file[o][i]
              /\ \A i \in DOMAIN file'[o] : i \in DOMAIN file[o] \/ file'[o][i] = c
  <2>1. durable'[o] >= durable[o]
    BY <1>4, <1>5
  <2>2. CASE o = x
    BY <1>8, <2>1, <2>2
  <2>3. CASE o # x
    BY <1>7, <2>1, <2>3
  <2>4. QED
    BY <2>2, <2>3
<1>23. durable' \in [Outs -> Nat] /\ level' = level /\ open' = open /\ ever' = ever
  BY <1>4, <1>5
<1>24. QED
  BY <1>7, <1>9, <1>12, <1>13, <1>18, <1>20, <1>21, <1>22, <1>23, RouteAssemble

LEMMA CoreFailsRoute ==
  ASSUME IInv, RouteInv, NEW c \in Calls, CoreFails(c)
  PROVE  RouteInv'
<1> DEFINE at == run[c].at
<1>1. run[c].pc = "write" /\ run[c].pc \in Writing /\ MoreCores(c)
  BY DEF CoreFails, Writing
<1>2. /\ run[c] \in RunRec /\ run[c].ce # None
  BY <1>1, WritingKeeps
<1>3. PICK x \in Outs : /\ x = Core(c) /\ x = Taken(c)[at]
                        /\ at \in DOMAIN Taken(c) /\ at \in Nat
  BY <1>1, CoreTaken
<1>4. /\ run' = [run EXCEPT ![c].failed = TRUE, ![c].at = at + 1]
      /\ missed' = missed \cup {<<c, x>>}
      /\ UNCHANGED <<level, ces, made, pool, file, durable, exited, settings, open, ever, reports>>
  BY <1>3 DEF CoreFails, poolVars, NextCore, Join
<1>5. RunTypes
  BY Types DEF IInv
<1>6. /\ run'[c].pc = "write" /\ run'[c].at = at + 1 /\ run'[c].ce = run[c].ce
      /\ run'[c].lvl = run[c].lvl /\ run'[c].via = run[c].via
      /\ \A d \in Calls \ {c} : run'[d] = run[d]
  BY <1>1, <1>2, <1>4, <1>5 DEF RunTypes, RunRec
<1>7. \A d \in Calls \ {c} : Leaves(d)
  BY <1>4, <1>6 DEF Leaves
<1>8. Taken(c)' = Taken(c)
  BY <1>4, <1>6 DEF Taken
<1>9. GatesFit(c) /\ TakenFits(c) /\ OpenFits(c)
  BY DEF RouteInv
<1>10. GatesFit(c)'
  BY <1>6 DEF GatesFit, Checking
<1>11. TakenFits(c)'
  BY <1>1, <1>4, <1>6, <1>8, <1>9 DEF TakenFits
<1>12. \A i \in DOMAIN Taken(c) : i \in Nat
  BY TakenTypes
<1>13. OpenFits(c)'
  <2>1. \A o \in open[c] : o \in Range(Taken(c))
    BY <1>1, <1>9 DEF OpenFits
  <2>2. ASSUME NEW i \in DOMAIN Taken(c), Passed(c, i)' PROVE Served(c, Taken(c)[i])'
    <3>1. i < at \/ i = at
      BY <1>3, <1>6, <1>12, <2>2 DEF Passed
    <3>2. CASE i < at
      <4>1. Served(c, Taken(c)[i])
        BY <1>1, <1>9, <3>2 DEF OpenFits, Passed
      <4>2. QED
        BY <1>4, <1>8, <4>1 DEF Served
    <3>3. CASE i = at
      BY <1>3, <1>4, <1>8, <3>3 DEF Served
    <3>4. QED
      BY <3>1, <3>2, <3>3
  <2>3. \A i \in DOMAIN Taken(c)' : Passed(c, i)' => Served(c, Taken(c)[i])'
    BY <1>8, <2>2
  <2> HIDE DEF Served
  <2>4. QED
    BY <1>4, <1>6, <1>8, <2>1, <2>3 DEF OpenFits, Ended
<1>14. ASSUME NEW o \in Outs, NEW i \in DOMAIN file[o], EntryFits(o, i, c)
       PROVE  EntryFits(o, i, c)'
  <2>1. PICK j \in DOMAIN Taken(c) : Taken(c)[j] = o /\ j < at
    BY <1>1, <1>14 DEF EntryFits, Passed
  <2>2. j < run'[c].at
    BY <1>3, <1>6, <1>12, <2>1
  <2>3. QED
    BY <1>1, <1>4, <1>6, <1>8, <1>14, <2>1, <2>2 DEF EntryFits, Passed
<1>15. QED
  BY <1>4, <1>7, <1>10, <1>11, <1>13, <1>14, RouteQuiet

LEMMA SyncCoreRoute ==
  ASSUME IInv, RouteInv, NEW c \in Calls, SyncCore(c)
  PROVE  RouteInv'
<1> DEFINE at == run[c].at
<1>1. run[c].pc = "sync" /\ run[c].pc \in Writing
  BY DEF SyncCore, Writing
<1>2. /\ run[c] \in RunRec /\ run[c].ce # None /\ MoreCores(c)
  BY <1>1, WritingKeeps DEF WritingFits, MoreCores
<1>3. PICK x \in Outs : /\ x = Core(c) /\ x = Taken(c)[at]
                        /\ at \in DOMAIN Taken(c) /\ at \in Nat
  BY <1>1, <1>2, CoreTaken
<1>4. /\ run' = [run EXCEPT ![c].pc = "write", ![c].at = at + 1]
      /\ durable' = [durable EXCEPT ![x] = Len(file[x])]
      /\ UNCHANGED <<level, ces, made, pool, file, exited, faults, settings, open, ever,
                     missed, reports>>
  BY <1>3 DEF SyncCore, poolVars, pastVars
<1>5. RunTypes /\ FileTypes /\ file \in [Outs -> Seq(Calls)] /\ durable \in [Outs -> Nat]
  BY Types DEF IInv, RouteInv
<1>6. /\ run'[c].pc = "write" /\ run'[c].at = at + 1 /\ run'[c].ce = run[c].ce
      /\ run'[c].lvl = run[c].lvl /\ run'[c].via = run[c].via
      /\ \A d \in Calls \ {c} : run'[d] = run[d]
  BY <1>2, <1>4, <1>5 DEF RunTypes, RunRec
<1>7. /\ durable' \in [Outs -> Nat] /\ durable'[x] = Len(file[x])
      /\ \A o \in Outs : o # x => durable'[o] = durable[o]
  <2>1. Len(file[x]) \in Nat
    BY <1>3, <1>5
  <2>2. QED
    BY <1>3, <1>4, <1>5, <2>1
<1>8. \A d \in Calls \ {c} : Leaves(d)
  BY <1>4, <1>6 DEF Leaves
<1>9. Taken(c)' = Taken(c)
  BY <1>4, <1>6 DEF Taken
<1>10. GatesFit(c) /\ TakenFits(c) /\ OpenFits(c)
  BY DEF RouteInv
<1>11. GatesFit(c)'
  BY <1>6 DEF GatesFit, Checking
<1>12. TakenFits(c)'
  BY <1>1, <1>4, <1>6, <1>9, <1>10 DEF TakenFits, Writing
<1>13. \A i \in DOMAIN Taken(c) : i \in Nat /\ Taken(c)[i] \in Outs
  BY TakenTypes
<1>14. OpenFits(c)'
  <2>1. \A o \in open[c] : o \in Range(Taken(c))
    BY <1>1, <1>10 DEF OpenFits
  <2>2. ASSUME NEW i \in DOMAIN Taken(c), Passed(c, i)' PROVE Served(c, Taken(c)[i])'
    <3>1. i < at \/ i = at
      BY <1>3, <1>6, <1>13, <2>2 DEF Passed
    <3>2. Passed(c, i)
      BY <1>1, <3>1 DEF Passed
    <3>3. Served(c, Taken(c)[i])
      BY <1>1, <1>10, <3>2 DEF OpenFits
    <3>4. QED
      BY <1>4, <1>9, <3>3 DEF Served
  <2>3. \A i \in DOMAIN Taken(c)' : Passed(c, i)' => Served(c, Taken(c)[i])'
    BY <1>9, <2>2
  <2>4. QED
    BY <1>4, <1>6, <1>9, <2>1, <2>3 DEF OpenFits, Ended
<1>15. \A o \in Outs : \A i \in DOMAIN file[o] : i \in Nat /\ i <= Len(file[o])
  BY <1>5
<1>16. ASSUME NEW o \in Outs, NEW i \in DOMAIN file[o], file[o][i] = c
       PROVE  EntryFits(o, i, c)'
  <2>1. EntryFits(o, i, c)
    BY <1>16 DEF RouteInv
  <2>2. PICK j \in DOMAIN Taken(c) : Taken(c)[j] = o /\ Passed(c, j)
    BY <1>1, <2>1 DEF EntryFits
  <2>3. Passed(c, j)'
    BY <1>3, <1>6, <1>13, <2>2 DEF Passed
  <2>4. SyncsAfter(run[c].lvl) => durable'[o] >= i
    <3>1. CASE o = x
      BY <1>7, <1>15, <3>1
    <3>2. CASE o # x
      BY <1>1, <1>3, <1>7, <2>1, <3>2 DEF EntryFits
    <3>3. QED
      BY <3>1, <3>2
  <2>5. QED
    BY <1>4, <1>6, <1>9, <2>1, <2>2, <2>3, <2>4 DEF EntryFits
<1>17. ASSUME NEW o \in Outs PROVE durable'[o] >= durable[o]
  <2>1. durable[o] \in Nat /\ durable[o] <= Len(file[o]) /\ Len(file[o]) \in Nat
    BY <1>5 DEF FileTypes
  <2>2. QED
    BY <1>7, <2>1
<1>18. /\ file' = file /\ level' = level /\ open' = open /\ ever' = ever
       /\ \A o \in Outs : IsInjective(file'[o])
  BY <1>4 DEF RouteInv
<1>19. QED
  BY <1>5, <1>7, <1>8, <1>11, <1>12, <1>14, <1>16, <1>17, <1>18, RouteAssemble

LEMMA ReportRoute ==
  ASSUME IInv, RouteInv, NEW c \in Calls, Report(c)
  PROVE  RouteInv'
<1> DEFINE told == run[c].failed /\ ces[run[c].ce].errorOutput
<1>1. run[c].pc = "write" /\ run[c].pc \in Writing /\ ~MoreCores(c)
  BY DEF Report, Writing
<1>2. /\ run[c] \in RunRec /\ run[c].ce # None
  BY <1>1, WritingKeeps
<1>3. /\ run' = [run EXCEPT ![c].pc = "finish"]
      /\ reports' = IF told THEN [reports EXCEPT ![c] = @ + 1] ELSE reports
      /\ UNCHANGED <<level, ces, made, pool, file, durable, exited, faults, settings, open,
                     ever, missed>>
  BY DEF Report, PoolAfterReport
<1>4. RunTypes /\ RestTypes
  BY Types DEF IInv
<1> HIDE DEF told
<1>5. /\ run'[c].pc = "finish" /\ run'[c].ce = run[c].ce
      /\ run'[c].lvl = run[c].lvl /\ run'[c].via = run[c].via
      /\ \A d \in Calls \ {c} : run'[d] = run[d]
  BY <1>2, <1>3, <1>4 DEF RunTypes, RunRec
<1>6. \A d \in Calls \ {c} : reports'[d] = reports[d]
  BY <1>3, <1>4 DEF RestTypes
<1>7. \A d \in Calls \ {c} : Leaves(d)
  BY <1>3, <1>5, <1>6 DEF Leaves
<1>8. Taken(c)' = Taken(c)
  BY <1>3, <1>5 DEF Taken
<1>9. GatesFit(c) /\ TakenFits(c) /\ OpenFits(c)
  BY DEF RouteInv
<1>10. GatesFit(c)' /\ TakenFits(c)'
  BY <1>1, <1>3, <1>5, <1>8, <1>9 DEF GatesFit, TakenFits, Checking, Writing
<1>11. \A i \in DOMAIN Taken(c) : Passed(c, i)
  <2>1. ~(run[c].at <= Len(Taken(c)))
    BY <1>1, <1>2 DEF MoreCores, Taken
  <2>2. QED
    BY <2>1, TakenTypes DEF Passed
<1>12. \A o \in open[c] : Served(c, o)
  <2>1. \A o \in open[c] : \E i \in DOMAIN Taken(c) : o = Taken(c)[i]
    BY <1>1, <1>9 DEF OpenFits, Range
  <2>2. QED
    BY <1>1, <1>9, <1>11, <2>1 DEF OpenFits
<1>13. OpenFits(c)'
  BY <1>3, <1>5, <1>12 DEF OpenFits, Served
<1>14. ASSUME NEW o \in Outs, NEW i \in DOMAIN file[o], EntryFits(o, i, c)
       PROVE  EntryFits(o, i, c)'
  BY <1>1, <1>3, <1>5, <1>14 DEF EntryFits
<1>15. QED
  BY <1>3, <1>7, <1>10, <1>13, <1>14, RouteQuiet

LEMMA FinishRoute ==
  ASSUME IInv, RouteInv, NEW c \in Calls, Finish(c)
  PROVE  RouteInv'
<1>1. /\ run[c].pc = "finish" /\ run[c].pc \in Writing
      /\ UNCHANGED <<level, ces, made, file, durable, faults, settings, open, ever, missed, reports>>
  BY DEF Finish, Writing, poolVars, pastVars, Release
<1>2. RunTypes /\ run[c] \in RunRec
  BY <1>1, WritingKeeps, Types DEF IInv
<1>3. GatesFit(c) /\ TakenFits(c) /\ OpenFits(c)
  BY DEF RouteInv
<1>4. CASE UNCHANGED run
  <2>1. \A d \in Calls \ {c} : Leaves(d)
    BY <1>1, <1>4 DEF Leaves
  <2>2. Taken(c)' = Taken(c)
    BY <1>1, <1>4 DEF Taken
  <2>3. GatesFit(c)' /\ TakenFits(c)' /\ OpenFits(c)'
    BY <1>1, <1>3, <1>4, <2>2 DEF GatesFit, TakenFits, OpenFits, Served, Checking, Writing
  <2>4. \A o \in Outs : \A i \in DOMAIN file[o] : EntryFits(o, i, c) => EntryFits(o, i, c)'
    BY <1>1, <1>4, <2>2 DEF EntryFits
  <2>5. QED
    BY <1>1, <2>1, <2>3, <2>4, RouteQuiet
<1>5. CASE /\ run'[c].pc \in {"returned", "gone"} /\ run'[c].lvl = run[c].lvl
           /\ run'[c].via = run[c].via
           /\ \A d \in Calls \ {c} : run'[d] = run[d]
  <2>1. \A d \in Calls \ {c} : Leaves(d)
    BY <1>1, <1>5 DEF Leaves
  <2>2. GatesFit(c)' /\ TakenFits(c)' /\ OpenFits(c)'
    BY <1>1, <1>3, <1>5 DEF GatesFit, TakenFits, OpenFits, Served, Checking, Writing, Ended
  <2>3. \A o \in Outs : \A i \in DOMAIN file[o] : EntryFits(o, i, c) => EntryFits(o, i, c)'
    BY <1>1, <1>5 DEF EntryFits, Ended
  <2>4. QED
    BY <1>1, <2>1, <2>2, <2>3, RouteQuiet
<1>6. UNCHANGED run \/ run' = [run EXCEPT ![c].pc = "gone"]
        \/ run' = [run EXCEPT ![c].pc = "returned", ![c].ce = None]
  BY DEF Finish
<1>7. QED
  BY <1>2, <1>4, <1>5, <1>6 DEF RunTypes, RunRec

(* A step that moves no call, only the gates and what is recorded of them.  *)
LEMMA GatesRoute ==
  ASSUME RouteInv, UNCHANGED <<ces, run, file, durable, missed>>,
         \A c \in Calls :
            /\ open'[c] \subseteq open[c] /\ ever[c] \subseteq ever'[c]
            /\ run[c].pc \in Checking =>
                \A o \in Outs : /\ o \in open'[c] => GateOpenFor(c, o)'
                                /\ GateOpenFor(c, o)' => o \in ever'[c]
  PROVE  RouteInv'
<1>1. \A c \in Calls : Taken(c)' = Taken(c)
  BY DEF Taken
<1>2. ASSUME NEW c \in Calls PROVE GatesFit(c)' /\ TakenFits(c)' /\ OpenFits(c)'
  <2>1. GatesFit(c) /\ TakenFits(c) /\ OpenFits(c)
    BY DEF RouteInv
  <2>2. GatesFit(c)'
    BY <2>1 DEF GatesFit
  <2>3. TakenFits(c)'
    BY <1>1, <2>1 DEF TakenFits
  <2>4. OpenFits(c)'
    BY <1>1, <2>1 DEF OpenFits, Served, Passed
  <2>5. QED
    BY <2>2, <2>3, <2>4
<1>3. ASSUME NEW o \in Outs, NEW i \in DOMAIN file[o] PROVE EntryFits(o, i, file[o][i])'
  <2>1. file[o] \in Seq(Calls)
    BY DEF RouteInv
  <2>2. PICK c \in Calls : c = file[o][i]
    BY <2>1
  <2>3. EntryFits(o, i, c)
    BY <2>2 DEF RouteInv
  <2>4. EntryFits(o, i, c)'
    BY <1>1, <2>3 DEF EntryFits, Passed
  <2>5. QED
    BY <2>2, <2>4 DEF EntryFits
<1>4. QED
  BY <1>2, <1>3 DEF RouteInv

LEMMA SetLevelRoute ==
  ASSUME RouteInv, SetLevel
  PROVE  RouteInv'
<1>1. UNCHANGED <<ces, made, pool, run, file, durable, exited, faults, missed, reports>>
  BY DEF SetLevel, poolVars
<1>2. PICK lv \in Settings \ {level} :
        /\ level' = lv
        /\ LET gates(c) == {o \in Outs : /\ PassesFilter(run[c].via, run[c].lvl)
                                         /\ GateOpen(o, run[c].lvl, lv)}
               asking == {c \in Calls : run[c].pc \in Checking}
           IN /\ open' = [c \in Calls |-> IF c \in asking THEN open[c] \cap gates(c) ELSE open[c]]
              /\ ever' = [c \in Calls |-> IF c \in asking THEN ever[c] \cup gates(c) ELSE ever[c]]
  BY DEF SetLevel
<1>3. ASSUME NEW c \in Calls
      PROVE  /\ open'[c] \subseteq open[c] /\ ever[c] \subseteq ever'[c]
             /\ run[c].pc \in Checking =>
                  \A o \in Outs : /\ o \in open'[c] => GateOpenFor(c, o)'
                                  /\ GateOpenFor(c, o)' => o \in ever'[c]
  <2>1. \A o : GateOpenFor(c, o)' <=> /\ PassesFilter(run[c].via, run[c].lvl)
                                      /\ GateOpen(o, run[c].lvl, lv)
    BY <1>1, <1>2 DEF GateOpenFor
  <2>2. QED
    BY <1>2, <2>1
<1>4. QED
  BY <1>1, <1>3, GatesRoute

LEMMA InitRoute == Init => RouteInv
<1> SUFFICES ASSUME Init PROVE RouteInv
  OBVIOUS
<1>1. /\ run = [c \in Calls |-> Idle] /\ open = [c \in Calls |-> {}]
      /\ file = [o \in Outs |-> <<>>] /\ durable = [o \in Outs |-> 0]
  BY DEF Init
<1>2. file \in [Outs -> Seq(Calls)] /\ durable \in [Outs -> Nat]
  BY <1>1
<1>3. ASSUME NEW c \in Calls PROVE GatesFit(c) /\ TakenFits(c) /\ OpenFits(c)
  BY <1>1 DEF GatesFit, TakenFits, OpenFits, Idle, Checking, Writing, Ended
<1>4. ASSUME NEW o \in Outs PROVE DOMAIN file[o] = {} /\ IsInjective(file[o])
  BY <1>1 DEF IsInjective
<1>5. QED
  BY <1>2, <1>3, <1>4 DEF RouteInv

LEMMA NextRoute == IInv /\ RouteInv /\ [Next]_vars => RouteInv'
<1> SUFFICES ASSUME IInv, RouteInv, [Next]_vars PROVE RouteInv'
  OBVIOUS
<1>1. CASE UNCHANGED vars
  <2>1. UNCHANGED <<level, ces, run, file, durable, open, ever, missed>>
    BY <1>1 DEF vars, poolVars, pastVars
  <2>2. QED
    <3>1. ASSUME NEW c \in Calls
          PROVE  run[c].pc \in Checking =>
                   \A o \in Outs : /\ o \in open'[c] => GateOpenFor(c, o)'
                                   /\ GateOpenFor(c, o)' => o \in ever'[c]
      BY <2>1 DEF RouteInv, GatesFit, GateOpenFor
    <3>2. QED
      BY <2>1, <3>1, GatesRoute
<1>2. CASE SetLevel
  BY <1>2, SetLevelRoute
<1>3. ASSUME NEW c \in Calls, Call(c) PROVE RouteInv'
  BY <1>3, BeginRoute, VisitRoute, AnnotateRoute, BeginWriteRoute, WriteCoreRoute,
     CoreFailsRoute, SyncCoreRoute, ReportRoute, FinishRoute DEF Call
<1>4. QED
  BY <1>1, <1>2, <1>3 DEF Next

-----------------------------------------------------------------------------
(* Which outputs a call's CheckedEntry holds, which of them it has served,  *)
(* and what each output holds of the call, in every reachable state.        *)
THEOREM RouteInvariance == Spec => []RouteInv
<1>1. IInv /\ RouteInv /\ [Next]_vars /\ IInv' => RouteInv'
  BY NextRoute
<1>2. QED
  BY <1>1, InitRoute, LogCallInvariance, PTL DEF Spec

(* slcore/tee.go, config.go, outputLevelEnabler: an entry reaches an output *)
(* at most once, and only one whose routing and filter accept it and whose  *)
(* gate was open during the check, whatever SetLevel and the pool do.       *)
THEOREM OnlyWhereEnabledCorrect == Spec => []OnlyWhereEnabled
<1>1. RouteInv => OnlyWhereEnabled
  <2> SUFFICES ASSUME RouteInv PROVE OnlyWhereEnabled
    OBVIOUS
  <2>1. ASSUME NEW o \in Outs, NEW i \in DOMAIN file[o]
        PROVE  LET c == file[o][i]  l == run[c].lvl IN
                 /\ o \in ever[c] /\ PassesFilter(run[c].via, l)
                 /\ IF Outputs[o].allow = {} THEN l \notin Outputs[o].deny
                                            ELSE l \in Outputs[o].allow
    <3>1. EntryFits(o, i, file[o][i])
      BY DEF RouteInv
    <3>2. QED
      BY <3>1 DEF EntryFits, Routes
  <2>2. \A o \in Outs : IsInjective(file[o])
    BY DEF RouteInv
  <2>3. QED
    BY <2>1, <2>2 DEF OnlyWhereEnabled
<1>2. QED
  BY <1>1, RouteInvariance, PTL

(* slcore/entry.go:234: an output whose gate stayed open during the check   *)
(* gets the entry unless its own write fails, whichever others fail.        *)
THEOREM NoOutputMissedCorrect == Spec => []NoOutputMissed
<1>1. RouteInv => NoOutputMissed
  BY DEF RouteInv, NoOutputMissed, OpenFits, Served
<1>2. QED
  BY <1>1, RouteInvariance, PTL

(* slcore/core.go:88: a Panic or Fatal entry, and all before it in the same *)
(* output, is durable before the terminal behaviour runs.                   *)
THEOREM SevereIsDurableCorrect == Spec => []SevereIsDurable
<1>1. RouteInv => SevereIsDurable
  <2> SUFFICES ASSUME RouteInv,
                      NEW c \in Calls, run[c].pc \in {"finish", "gone"},
                      NEW o \in Outs, NEW i \in DOMAIN file[o],
                      file[o][i] = c, run[c].lvl > ErrorLevel
               PROVE  durable[o] >= i
    BY DEF SevereIsDurable
  <2>1. EntryFits(o, i, c)
    BY DEF RouteInv
  <2>2. QED
    BY <2>1 DEF EntryFits, SyncsAfter
<1>2. QED
  BY <1>1, RouteInvariance, PTL
=============================================================================
