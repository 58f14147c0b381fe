-------------------------- MODULE LifecycleProofs --------------------------
(***************************************************************************)
(* The life of a logger, for every set of configurations, callers, lines    *)
(* and refused files.  The invariant ties what is open to the closers that  *)
(* Build has handed to the logger: every closer names handles of its own    *)
(* logger, a queue's closer stands before that of the rolling writer behind *)
(* it, and whoever closes has closed all the closers passed.  That the list *)
(* Build flattens has every output's closers whole and in order is a lemma  *)
(* of SequenceFacts.                                                        *)
(***************************************************************************)
EXTENDS LifecycleProps, SequenceFacts

Kinds == {"file", "rolling", "async"}
IsHandle(h) == h = Handle(h.logger, h.output, h.kind, h.name) /\ h.kind \in Kinds
Made == DOMAIN queue \cup DOMAIN file

LoggersFit ==
    /\ Len(loggers) \in Nat /\ loggers = [n \in 1 .. Len(loggers) |-> loggers[n]]
    /\ \A n \in DOMAIN loggers :
          loggers[n] = [ok |-> loggers[n].ok, cfg |-> loggers[n].cfg,
                        closers |-> loggers[n].closers, once |-> loggers[n].once]

(* What exists of files, rolling writers and queues, and what holds of it.  *)
HandlesFit ==
    /\ DOMAIN taken = DOMAIN queue
    /\ \A h \in DOMAIN queue : IsHandle(h) /\ h.kind = "async" /\ h.output # 0
    /\ \A h \in DOMAIN file : IsHandle(h) /\ h.kind # "async"
    /\ \A h \in Made : h.logger \in DOMAIN loggers
    /\ open \subseteq Made
    /\ \A h \in Made : h.output = 0 => h \in open

(* A queue and the rolling writer behind it have together what it accepted; *)
(* a closed queue is empty; and an open one has an open writer behind it.   *)
QueuesFit ==
    /\ \A h \in DOMAIN queue : queue[h] \in Seq(Lines) /\ taken[h] \in Seq(Lines)
    /\ \A h \in DOMAIN file : file[h] \in Seq(Lines)
    /\ \A aw \in DOMAIN queue :
        /\ Inner(aw) \in DOMAIN file
        /\ file[Inner(aw)] \o queue[aw] = taken[aw]
        /\ aw \in open => Inner(aw) \in open
        /\ aw \notin open => queue[aw] = <<>>

(* A logger's closers, in their order, close all that was opened for it.    *)
CloseAll(cs, n, made, queues) ==
    /\ Len(cs) \in Nat /\ DOMAIN cs = 1 .. Len(cs)
    /\ \A k \in DOMAIN cs : \A h \in cs[k] : h \in made /\ h.logger = n /\ h.output # 0
    /\ \A h \in made : h.logger = n /\ h.output # 0 => \E k \in DOMAIN cs : h \in cs[k]
    /\ \A aw \in queues : \A k \in DOMAIN cs :
          Inner(aw) \in cs[k] => \E j \in 1 .. k : aw \in cs[j]
ClosersFit == \A n \in Alive : CloseAll(loggers[n].closers, n, Made, DOMAIN queue)

(* What a Build that failed has left behind.                                *)
Nameless(cfg, i) ==
    \/ FiltersByNothing(cfg.outputs[i].levels)
    \/ FiltersByNothing(cfg.outputs[i].exclude)
LeftoversFit ==
    \A h \in open : h.logger \in DOMAIN loggers /\ h.logger \notin Alive =>
        h.output # 0 /\ Nameless(loggers[h.logger].cfg, h.output)

(* How far each Close has come: the closers passed have nothing open.  A    *)
(* logger nobody closes has all that its closers name open.                 *)
ClosedUpTo(k, closers, hs) == \A j \in 1 .. k : closers[j] \cap hs = {}

CallFits(call, ls, hs) ==
    \/ call = Idle
    \/ /\ call.op = "log"
       /\ call = [op |-> "log", logger |-> call.logger, line |-> call.line,
                  output |-> call.output]
       /\ call.line \in Lines /\ call.output \in Nat \ {0}
    \/ call.op = "wait" /\ call.logger \in DOMAIN ls /\ ls[call.logger].ok
    \/ /\ call.op = "close"
       /\ call = [op |-> "close", logger |-> call.logger, closer |-> call.closer]
       /\ call.logger \in DOMAIN ls /\ ls[call.logger].ok
       /\ call.closer \in 0 .. Len(ls[call.logger].closers)
       /\ ls[call.logger].once # "new"
       /\ ClosedUpTo(call.closer - 1, ls[call.logger].closers, hs)

OnceFits(l, hs) ==
    /\ l.once = "new" => UNION ToSet(l.closers) \subseteq hs
    /\ l.once = "done" => ClosedUpTo(Len(l.closers), l.closers, hs)

ClosesFit ==
    /\ DOMAIN pc = Callers
    /\ \A c \in Callers : CallFits(pc[c], loggers, open)
    /\ \A n \in Alive : OnceFits(loggers[n], open)
    /\ \A r \in returned : r[2] \in Alive /\ loggers[r[2]].once = "done"

(* The lowest undo function of a kind takes back to what the process        *)
(* started with.                                                            *)
Lowest(kind, i) == undos[i].of = kind /\ \A j \in 1 .. i - 1 : undos[j].of # kind
UndosFit ==
    /\ globalS = globalL
    /\ Len(undos) \in Nat /\ undos = [i \in 1 .. Len(undos) |-> undos[i]]
    /\ \A i \in DOMAIN undos : undos[i].of \in {"globals", "std"}
    /\ \A i \in DOMAIN undos : Lowest("globals", i) => undos[i].prev = NopLogger
    /\ (\A i \in DOMAIN undos : undos[i].of # "globals") => globalL = NopLogger
    /\ ~misdirected =>
        /\ \A i \in DOMAIN undos : Lowest("std", i) =>
              undos[i].flags = Default /\ undos[i].prefix = Default
        /\ (\A i \in DOMAIN undos : undos[i].of # "std") =>
              std = [flags |-> Default, prefix |-> Default, out |-> Stderr]

IInv ==
    /\ LoggersFit
    /\ HandlesFit
    /\ QueuesFit
    /\ ClosersFit
    /\ LeftoversFit
    /\ ClosesFit
    /\ UndosFit
    /\ RefusalsAreReported

-----------------------------------------------------------------------------
(* Handles.                                                                 *)
LEMMA HandleIs ==
  ASSUME NEW n, NEW i, NEW k \in Kinds, NEW nm, NEW h, h = Handle(n, i, k, nm)
  PROVE  IsHandle(h) /\ h.logger = n /\ h.output = i /\ h.kind = k /\ h.name = nm
BY DEF IsHandle, Handle

LEMMA InnerIs ==
  ASSUME NEW h, IsHandle(h)
  PROVE  /\ Inner(h) = Handle(h.logger, h.output, "rolling", h.name)
         /\ IsHandle(Inner(h))
         /\ Inner(h).logger = h.logger /\ Inner(h).output = h.output
         /\ Inner(h).kind = "rolling"
         /\ h.kind = "async" => [Inner(h) EXCEPT !.kind = "async"] = h
<1>1. Inner(h) = Handle(h.logger, h.output, "rolling", h.name)
  BY DEF IsHandle, Handle, Inner
<1>2. /\ IsHandle(Inner(h)) /\ Inner(h).logger = h.logger /\ Inner(h).output = h.output
      /\ Inner(h).kind = "rolling"
  BY <1>1, HandleIs DEF Kinds
<1>3. [Inner(h) EXCEPT !.kind = "async"] = Handle(h.logger, h.output, "async", h.name)
  BY <1>1 DEF Handle
<1>4. h.kind = "async" => h = Handle(h.logger, h.output, "async", h.name)
  BY DEF IsHandle
<1>5. QED
  BY <1>1, <1>2, <1>3, <1>4

(* What is behind a queue tells which queue it is.                          *)
LEMMA InnerTells ==
  ASSUME NEW g, NEW h, IsHandle(g), IsHandle(h), g.kind = "async", h.kind = "async",
         Inner(g) = Inner(h)
  PROVE  g = h
BY InnerIs

-----------------------------------------------------------------------------
(* What Build opens.  The closers of one output: they name handles of that  *)
(* output, what a queue's closer closes is closed with it, and the queue's  *)
(* closer comes no later than that of the writer behind it.                 *)
In(h, cs) == \E k \in DOMAIN cs : h \in cs[k]

InOrder(cs) ==
    /\ Len(cs) \in Nat /\ DOMAIN cs = 1 .. Len(cs) /\ cs = [k \in 1 .. Len(cs) |-> cs[k]]
    /\ \A k \in DOMAIN cs : \A h \in cs[k] : IsHandle(h)
    /\ \A h : In(h, cs) /\ h.kind = "async" =>
          /\ In(Inner(h), cs)
          /\ \A k \in DOMAIN cs : Inner(h) \in cs[k] => \E j \in 1 .. k : h \in cs[j]

Of(cs, n, i) == \A h : In(h, cs) => h.logger = n /\ h.output = i

LEMMA NothingToClose ==
  ASSUME NEW n, NEW i
  PROVE  InOrder(<<>>) /\ Of(<<>>, n, i) /\ UNION ToSet(<<>>) = {}
BY DEF InOrder, Of, In, ToSet

LEMMA ClosedIs ==
  ASSUME NEW cs
  PROVE  \A h : h \in UNION ToSet(cs) <=> In(h, cs)
BY DEF In, ToSet

LEMMA PathsFit ==
  ASSUME NEW n, NEW i, NEW paths, NEW bad, NEW r, r = OpenWithMode(n, i, paths, bad)
  PROVE  /\ r.ok \in BOOLEAN /\ InOrder(r.closers) /\ Of(r.closers, n, i)
         /\ ~r.ok => r.closers = <<>>
         /\ \A h : In(h, r.closers) => h.kind = "file"
<1>1. \A h \in FileHandles(n, i, paths) : IsHandle(h) /\ h.logger = n /\ h.output = i /\ h.kind = "file"
  BY HandleIs DEF FileHandles, Kinds
<1>2. CASE r = [ok |-> FALSE, closers |-> <<>>]
  BY <1>2, NothingToClose DEF In
<1>3. CASE r = [ok |-> TRUE, closers |-> <<FileHandles(n, i, paths)>>]
  <2>1. \A h : In(h, r.closers) <=> h \in FileHandles(n, i, paths)
    BY <1>3 DEF In
  <2>2. InOrder(r.closers)
    BY <1>1, <1>3, <2>1 DEF InOrder
  <2>3. QED
    BY <1>1, <1>3, <2>1, <2>2 DEF Of
<1>4. QED
  BY <1>2, <1>3 DEF OpenWithMode

LEMMA RollingFits ==
  ASSUME NEW n, NEW i, NEW o, NEW bad, NEW r, r = OpenRolling(n, i, o, bad)
  PROVE  /\ r.ok \in BOOLEAN /\ InOrder(r.closers) /\ Of(r.closers, n, i)
         /\ ~r.ok => r.closers = <<>>
<1> DEFINE rw == Handle(n, i, "rolling", o.dir)
           aw == Handle(n, i, "async", o.dir)
<1>1. IsHandle(rw) /\ rw.logger = n /\ rw.output = i /\ rw.kind = "rolling"
  BY HandleIs DEF Kinds
<1>2. IsHandle(aw) /\ aw.logger = n /\ aw.output = i /\ aw.kind = "async" /\ Inner(aw) = rw
  BY HandleIs, InnerIs DEF Kinds
<1>3. \/ r = [ok |-> FALSE, closers |-> <<>>]
      \/ r = [ok |-> TRUE, closers |-> <<{aw, rw}, {rw}>>]
      \/ r = [ok |-> TRUE, closers |-> <<{rw}>>]
  BY DEF OpenRolling
<1> HIDE DEF rw, aw
<1>4. CASE r = [ok |-> FALSE, closers |-> <<>>]
  BY <1>4, NothingToClose
<1>5. CASE r = [ok |-> TRUE, closers |-> <<{aw, rw}, {rw}>>]
  <2> DEFINE cs == <<{aw, rw}, {rw}>>
  <2>1. r.closers = cs /\ r.ok
    BY <1>5
  <2>2. /\ Len(cs) = 2 /\ DOMAIN cs = 1 .. 2 /\ cs[1] = {aw, rw} /\ cs[2] = {rw}
        /\ cs = [k \in 1 .. Len(cs) |-> cs[k]]
    OBVIOUS
  <2> HIDE DEF cs
  <2>3. \A h : In(h, cs) <=> h \in {aw, rw}
    BY <2>2 DEF In
  <2>4. Of(cs, n, i)
    BY <1>1, <1>2, <2>3 DEF Of
  <2>5. \A k \in 1 .. 2 : aw \in cs[1] /\ 1 \in 1 .. k
    BY <2>2
  <2>6. \A k \in DOMAIN cs : \A h \in cs[k] : IsHandle(h)
    BY <1>1, <1>2, <2>2
  <2>7. ASSUME NEW h, In(h, cs), h.kind = "async"
        PROVE  In(Inner(h), cs) /\ \A k \in DOMAIN cs : \E j \in 1 .. k : h \in cs[j]
    BY <1>1, <1>2, <2>2, <2>3, <2>5, <2>7
  <2>8. InOrder(cs)
    <3>1. Len(cs) \in Nat /\ DOMAIN cs = 1 .. Len(cs) /\ cs = [k \in 1 .. Len(cs) |-> cs[k]]
      BY <2>2
    <3>2. QED
      BY <2>6, <2>7, <3>1 DEF InOrder
  <2>9. QED
    BY <2>1, <2>4, <2>8
<1>6. CASE r = [ok |-> TRUE, closers |-> <<{rw}>>]
  <2>1. \A h : In(h, r.closers) <=> h = rw
    BY <1>6 DEF In
  <2>2. InOrder(r.closers)
    BY <1>1, <1>6, <2>1 DEF InOrder
  <2>3. QED
    BY <1>1, <1>6, <2>1, <2>2 DEF Of
<1>7. QED
  BY <1>3, <1>4, <1>5, <1>6

LEMMA OutputFits ==
  ASSUME NEW n, NEW i, NEW cfg, NEW bad, NEW r, r = BuildOutputCore(n, i, cfg, bad)
  PROVE  /\ r.ok \in BOOLEAN /\ InOrder(r.closers)
         /\ \A h : In(h, r.closers) => h \in r.opened
         /\ r.ok => \A h \in r.opened : In(h, r.closers)
         /\ ~r.ok => r.closers = <<>>
         /\ \A h \in r.opened : /\ IsHandle(h) /\ h.logger = n /\ h.output = i
                                /\ h.kind = "async" => Inner(h) \in r.opened
         /\ ~r.ok /\ r.opened # {} => Nameless(cfg, i)
<1> DEFINE s == OpenOutputFor(n, i, cfg.outputs[i], bad)
<1>1. /\ s.ok \in BOOLEAN /\ InOrder(s.closers) /\ Of(s.closers, n, i)
      /\ ~s.ok => s.closers = <<>>
  BY PathsFit, RollingFits DEF OpenOutputFor
<1>2. \A h : h \in UNION ToSet(s.closers) <=> In(h, s.closers)
  BY ClosedIs
<1>3. \A h \in UNION ToSet(s.closers) :
         /\ IsHandle(h) /\ h.logger = n /\ h.output = i
         /\ h.kind = "async" => Inner(h) \in UNION ToSet(s.closers)
  BY <1>1, <1>2 DEF InOrder, Of, In
<1>4. \/ r = [ok |-> FALSE, closers |-> <<>>, opened |-> {}]
      \/ /\ r = [ok |-> FALSE, closers |-> <<>>, opened |-> UNION ToSet(s.closers)]
         /\ Nameless(cfg, i)
      \/ r = [ok |-> TRUE, closers |-> s.closers, opened |-> UNION ToSet(s.closers)]
  BY DEF BuildOutputCore, Nameless
<1>5. InOrder(<<>>) /\ \A h : ~In(h, <<>>)
  BY NothingToClose DEF In
<1> HIDE DEF s
<1>6. CASE r = [ok |-> FALSE, closers |-> <<>>, opened |-> {}]
  BY <1>5, <1>6
<1>7. CASE /\ r = [ok |-> FALSE, closers |-> <<>>, opened |-> UNION ToSet(s.closers)]
           /\ Nameless(cfg, i)
  BY <1>3, <1>5, <1>7
<1>8. CASE r = [ok |-> TRUE, closers |-> s.closers, opened |-> UNION ToSet(s.closers)]
  BY <1>1, <1>2, <1>3, <1>8
<1>9. QED
  BY <1>4, <1>6, <1>7, <1>8


(* What Build returns.                                                      *)
BuildFits(r, n, cfg) ==
    /\ r.ok \in BOOLEAN
    /\ InOrder(r.closers)
    /\ \A h \in r.open : /\ IsHandle(h) /\ h.logger = n
                         /\ h.kind = "async" => h.output # 0 /\ Inner(h) \in r.open
    /\ r.ok => /\ \A h : In(h, r.closers) => h \in r.open /\ h.output # 0
               /\ \A h \in r.open : h.output # 0 => In(h, r.closers)
    /\ ~r.ok => \A h \in r.open : h.output # 0 /\ Nameless(cfg, h.output)

(* The closers of the outputs 1 .. m, one behind the other.                 *)
LEMMA ClosersFlatten ==
  ASSUME NEW m \in Nat, NEW f, f = [i \in 1 .. m |-> f[i]],
         \A i \in 1 .. m : InOrder(f[i]),
         \A i \in 1 .. m : \A h : In(h, f[i]) => h.output = i,
         NEW cs, cs = FlattenSeq(f)
  PROVE  /\ InOrder(cs)
         /\ \A h : In(h, cs) <=> \E i \in 1 .. m : In(h, f[i])
<1> DEFINE S == SUBSET UNION {UNION ToSet(f[i]) : i \in 1 .. m}
<1>1. ASSUME NEW i \in 1 .. m PROVE f[i] \in Seq(S)
  <2>1. Len(f[i]) \in Nat /\ DOMAIN f[i] = 1 .. Len(f[i])
    BY DEF InOrder
  <2>2. \A k \in 1 .. Len(f[i]) : f[i][k] \in S
    BY <2>1 DEF ToSet
  <2>3. f[i] = [k \in 1 .. Len(f[i]) |-> f[i][k]]
    BY DEF InOrder
  <2> HIDE DEF S
  <2>4. QED
    BY <2>1, <2>2, <2>3, IsASeq
<1> HIDE DEF S
<1>2. f \in Seq(Seq(S)) /\ Len(f) = m
  BY <1>1, IsASeq
<1>5. PICK o \in [1 .. m -> Nat] : Laid(o, f, m, cs)
  BY <1>2, FlattenPlaces
<1>6. /\ Len(cs) \in Nat /\ DOMAIN cs = 1 .. Len(cs) /\ cs = [k \in 1 .. Len(cs) |-> cs[k]]
  <2>1. cs \in Seq(S)
    BY <1>2, FlattenPlaces
  <2>2. QED
    BY <2>1, LenProperties
<1>7. \A i \in 1 .. m : Len(f[i]) \in Nat /\ DOMAIN f[i] = 1 .. Len(f[i]) /\ o[i] \in Nat
  BY <1>5 DEF InOrder
<1>8. ASSUME NEW i \in 1 .. m, NEW k \in DOMAIN f[i]
      PROVE  o[i] + k \in DOMAIN cs /\ cs[o[i] + k] = f[i][k]
  <2>1. k \in 1 .. Len(f[i])
    BY <1>7
  <2>2. o[i] + k \in 1 .. Len(cs) /\ cs[o[i] + k] = f[i][k]
    BY <1>5, <2>1, Zenon DEF Laid
  <2>3. QED
    BY <1>6, <2>2
<1>9. ASSUME NEW q \in DOMAIN cs
      PROVE  \E i \in 1 .. m : \E k \in DOMAIN f[i] : q = o[i] + k /\ cs[q] = f[i][k]
  <2>1. PICK i \in 1 .. m : \E k \in 1 .. Len(f[i]) : q = o[i] + k
    BY <1>5, <1>6 DEF Laid
  <2>2. PICK k \in DOMAIN f[i] : q = o[i] + k
    BY <1>7, <2>1
  <2>3. QED
    BY <1>8, <2>2
<1>10. \A h : In(h, cs) <=> \E i \in 1 .. m : In(h, f[i])
  <2>1. ASSUME NEW h, In(h, cs) PROVE \E i \in 1 .. m : In(h, f[i])
    <3>1. PICK q \in DOMAIN cs : h \in cs[q]
      BY <2>1 DEF In
    <3>2. QED
      BY <1>9, <3>1 DEF In
  <2>2. ASSUME NEW h, NEW i \in 1 .. m, In(h, f[i]) PROVE In(h, cs)
    <3>1. PICK k \in DOMAIN f[i] : h \in f[i][k]
      BY <2>2 DEF In
    <3>2. o[i] + k \in DOMAIN cs /\ h \in cs[o[i] + k]
      BY <1>8, <3>1
    <3>3. QED
      BY <3>2 DEF In
  <2>3. QED
    BY <2>1, <2>2
<1>11. ASSUME NEW q \in DOMAIN cs, NEW h \in cs[q] PROVE IsHandle(h)
  <2>1. PICK i \in 1 .. m : \E k \in DOMAIN f[i] : q = o[i] + k /\ cs[q] = f[i][k]
    BY <1>9
  <2>2. QED
    BY <2>1 DEF InOrder
<1>12. ASSUME NEW h, In(h, cs), h.kind = "async"
       PROVE  /\ In(Inner(h), cs)
              /\ \A q \in DOMAIN cs : Inner(h) \in cs[q] => \E j \in 1 .. q : h \in cs[j]
  <2>1. PICK i \in 1 .. m : In(h, f[i])
    BY <1>10, <1>12
  <2>2. In(Inner(h), f[i]) /\ h.output = i /\ IsHandle(h)
    BY <1>12, <2>1 DEF InOrder, In
  <2>3. ASSUME NEW q \in DOMAIN cs, Inner(h) \in cs[q] PROVE \E j \in 1 .. q : h \in cs[j]
    <3>0. PICK d \in 1 .. m : \E k \in DOMAIN f[d] : q = o[d] + k /\ cs[q] = f[d][k]
      BY <1>9
    <3>1. PICK k \in DOMAIN f[d] : q = o[d] + k /\ cs[q] = f[d][k]
      BY <3>0
    <3>2. In(Inner(h), f[d]) /\ Inner(h).output = h.output
      BY <2>2, <2>3, <3>1, InnerIs DEF In
    <3>3. d = i
      BY <2>2, <3>2
    <3>4. PICK j \in 1 .. k : h \in f[i][j]
      BY <1>12, <2>1, <2>3, <3>1, <3>3 DEF InOrder
    <3>5. j \in DOMAIN f[i] /\ o[i] + j \in 1 .. q
      BY <1>7, <3>1, <3>3
    <3>6. h \in cs[o[i] + j]
      BY <1>8, <3>4, <3>5
    <3>7. QED
      BY <3>5, <3>6
  <2>4. QED
    BY <1>10, <2>2, <2>3
<1>13. QED
  BY <1>6, <1>10, <1>11, <1>12 DEF InOrder

LEMMA FirstFailing ==
  ASSUME NEW T \in SUBSET Nat, T # {}, NEW x, x = Min(T)
  PROVE  x \in T /\ \A y \in T : x <= y
<1>1. \E y \in T : \A z \in T : y <= z
  BY LeastNumber
<1>2. QED
  BY <1>1 DEF Min

LEMMA BuildIs ==
  ASSUME NEW n, NEW cfg \in Configs, NEW bad, NEW r, r = BuildResult(n, cfg, bad)
  PROVE  BuildFits(r, n, cfg)
<1> DEFINE d == Len(cfg.outputs)
           core == [i \in DOMAIN cfg.outputs |-> BuildOutputCore(n, i, cfg, bad)]
           failing == {i \in DOMAIN core : ~core[i].ok}
           tried == IF failing = {} THEN DOMAIN core ELSE 1 .. Min(failing)
           cs == FlattenSeq([i \in 1 .. Cardinality(tried) |-> core[i].closers])
           made == UNION {core[i].opened : i \in tried}
           errs == OpenWithMode(n, 0, OrStderr(cfg.errPaths), bad)
<1>1. d \in Nat /\ DOMAIN cfg.outputs = 1 .. d
  BY ConfigsAreLists
<1>2. ASSUME NEW i \in 1 .. d
      PROVE  /\ core[i].ok \in BOOLEAN /\ InOrder(core[i].closers)
             /\ \A h : In(h, core[i].closers) => h \in core[i].opened
             /\ core[i].ok => \A h \in core[i].opened : In(h, core[i].closers)
             /\ \A h \in core[i].opened : /\ IsHandle(h) /\ h.logger = n /\ h.output = i
                                          /\ h.kind = "async" => Inner(h) \in core[i].opened
             /\ ~core[i].ok => core[i].closers = <<>>
             /\ ~core[i].ok /\ core[i].opened # {} => Nameless(cfg, i)
  BY <1>1, OutputFits
<1>3. DOMAIN core = 1 .. d
  BY <1>1
<1>4. \/ r = [ok |-> FALSE, closers |-> <<>>, open |-> {}]
      \/ failing = {} /\ errs.ok /\ r = [ok |-> TRUE, closers |-> cs, open |-> made \cup UNION ToSet(errs.closers)]
      \/ r = [ok |-> FALSE, closers |-> <<>>, open |-> made \ UNION ToSet(cs)]
  BY DEF BuildResult
<1> HIDE DEF core
<1>5. PICK m \in 0 .. d : /\ tried = 1 .. m
                          /\ \A i \in 1 .. m : i # m => core[i].ok
                          /\ failing = {} => m = d /\ \A i \in 1 .. m : core[i].ok
  <2>1. CASE failing = {}
    BY <1>1, <1>3, <2>1
  <2>2. CASE failing # {}
    <3>1. failing \in SUBSET Nat
      BY <1>1, <1>3
    <3>2. PICK x : x = Min(failing) /\ x \in failing /\ \A y \in failing : x <= y
      <4> HIDE DEF failing
      <4> QED BY <2>2, <3>1, FirstFailing
    <3>3. x \in 1 .. d /\ tried = 1 .. x
      BY <1>3, <2>2, <3>2
    <3>4. ASSUME NEW i \in 1 .. x, i # x PROVE core[i].ok
      <4>1. i \in 1 .. d /\ ~(x <= i)
        BY <1>1, <3>3, <3>4
      <4>2. i \notin failing
        <5> HIDE DEF failing
        <5> QED BY <3>2, <4>1
      <4>3. QED
        BY <1>3, <4>1, <4>2
    <3>5. x \in 0 .. d
      BY <1>1, <3>3
    <3> HIDE DEF tried, failing, d
    <3>6. QED
      BY <2>2, <3>3, <3>4, <3>5
  <2>3. QED
    BY <2>1, <2>2
<1>6. Cardinality(tried) = m /\ m \in Nat
  <2>1. Cardinality(1 .. m) = m
    BY <1>1, FS_Interval
  <2> HIDE DEF tried
  <2>2. QED
    BY <1>1, <1>5, <2>1
<1> HIDE DEF tried, failing, d
<1> DEFINE f == [i \in 1 .. m |-> core[i].closers]
<1>7. \A i \in 1 .. m : i \in 1 .. d /\ f[i] = core[i].closers
  BY <1>1
<1>8. cs = FlattenSeq(f) /\ f = [i \in 1 .. m |-> f[i]]
  BY <1>6
<1> HIDE DEF f
<1>9. /\ InOrder(cs)
      /\ \A h : In(h, cs) <=> \E i \in 1 .. m : In(h, f[i])
  <2>1. \A i \in 1 .. m : InOrder(f[i])
    BY <1>2, <1>7
  <2>2. \A i \in 1 .. m : \A h : In(h, f[i]) => h.output = i
    BY <1>2, <1>7
  <2> HIDE DEF cs
  <2>3. QED
    BY <1>6, <1>8, <2>1, <2>2, ClosersFlatten
<1> HIDE DEF cs
<1>10. \A h : h \in made <=> \E i \in 1 .. m : h \in core[i].opened
  BY <1>5
<1> HIDE DEF made
<1>11. \A h \in made : /\ IsHandle(h) /\ h.logger = n /\ h.output # 0
                       /\ h.kind = "async" => Inner(h) \in made
  BY <1>2, <1>7, <1>10
<1>12. \A h : In(h, cs) => h \in made
  BY <1>2, <1>7, <1>9, <1>10
<1>13. CASE r = [ok |-> FALSE, closers |-> <<>>, open |-> {}]
  BY <1>13, NothingToClose DEF BuildFits
<1>14. CASE failing = {} /\ errs.ok /\ r = [ok |-> TRUE, closers |-> cs, open |-> made \cup UNION ToSet(errs.closers)]
  <2>1. /\ InOrder(errs.closers) /\ Of(errs.closers, n, 0)
        /\ \A h : In(h, errs.closers) => h.kind = "file"
    BY PathsFit
  <2>2. \A h : h \in UNION ToSet(errs.closers) <=> In(h, errs.closers)
    BY ClosedIs
  <2> HIDE DEF errs
  <2>3. \A h \in UNION ToSet(errs.closers) : IsHandle(h) /\ h.logger = n /\ h.output = 0 /\ h.kind = "file"
    BY <2>1, <2>2 DEF InOrder, Of, In
  <2>4. \A h \in made : In(h, cs)
    BY <1>2, <1>5, <1>7, <1>9, <1>10, <1>14
  <2>5. r.ok = TRUE /\ r.closers = cs /\ r.open = made \cup UNION ToSet(errs.closers)
    BY <1>14
  <2>6. QED
    BY <1>9, <1>11, <1>12, <2>3, <2>4, <2>5 DEF BuildFits
<1>15. CASE r = [ok |-> FALSE, closers |-> <<>>, open |-> made \ UNION ToSet(cs)]
  <2>1. \A h : h \in UNION ToSet(cs) <=> In(h, cs)
    BY ClosedIs
  <2>2. ASSUME NEW h \in made, ~In(h, cs)
        PROVE  /\ Nameless(cfg, h.output)
               /\ h.kind = "async" => ~In(Inner(h), cs)
    <3>1. PICK i \in 1 .. m : h \in core[i].opened
      BY <1>10
    <3>2. ~core[i].ok
      BY <1>2, <1>7, <1>9, <2>2, <3>1
    <3>3. Nameless(cfg, h.output)
      BY <1>2, <1>7, <3>1, <3>2
    <3>4. i = m
      BY <1>5, <3>2
    <3>5. \A e \in 1 .. m : In(Inner(h), f[e]) => e = i
      BY <1>2, <1>7, <3>1, InnerIs
    <3>6. ~\E g : In(g, f[i])
      BY <1>2, <1>7, <3>1, <3>2 DEF In
    <3>7. QED
      BY <1>9, <3>3, <3>5, <3>6
  <2>3. QED
    BY <1>11, <1>15, <2>1, <2>2, NothingToClose DEF BuildFits
<1>16. QED
  BY <1>4, <1>13, <1>14, <1>15


-----------------------------------------------------------------------------
(* The globals and their undo functions.                                    *)
LEMMA AppendIs ==
  ASSUME NEW s, Len(s) \in Nat, s = [i \in 1 .. Len(s) |-> s[i]], NEW e,
         NEW t, t = Append(s, e)
  PROVE  /\ Len(t) = Len(s) + 1 /\ t = [i \in 1 .. Len(t) |-> t[i]]
         /\ t[Len(s) + 1] = e /\ \A i \in 1 .. Len(s) : t[i] = s[i]
<1> DEFINE S == {s[i] : i \in 1 .. Len(s)} \cup {e}
<1>1. s \in Seq(S) /\ e \in S
  <2>1. \A i \in 1 .. Len(s) : s[i] \in S
    OBVIOUS
  <2> HIDE DEF S
  <2>2. s \in Seq(S)
    BY <2>1, IsASeq
  <2>3. QED
    BY <2>2 DEF S
<1> HIDE DEF S
<1>2. t \in Seq(S) /\ Len(t) = Len(s) + 1 /\ t[Len(s) + 1] = e /\ \A i \in 1 .. Len(s) : t[i] = s[i]
  BY <1>1, AppendProperties
<1>3. QED
  BY <1>2, LenProperties

LEMMA CutIs ==
  ASSUME NEW s, Len(s) \in Nat, s = [i \in 1 .. Len(s) |-> s[i]], s # <<>>,
         NEW t, t = SubSeq(s, 1, Len(s) - 1)
  PROVE  /\ Len(s) >= 1 /\ Len(t) = Len(s) - 1 /\ t = [i \in 1 .. Len(t) |-> t[i]]
         /\ \A i \in 1 .. Len(t) : t[i] = s[i]
<1> DEFINE S == {s[i] : i \in 1 .. Len(s)}
<1>1. s \in Seq(S)
  <2>1. \A i \in 1 .. Len(s) : s[i] \in S
    OBVIOUS
  <2> HIDE DEF S
  <2>2. QED
    BY <2>1, IsASeq
<1> HIDE DEF S
<1>2. Len(s) >= 1
  BY <1>1, EmptySeq
<1>3. t \in Seq(S) /\ Len(t) = Len(s) - 1 /\ \A i \in 1 .. Len(s) - 1 : t[i] = s[i]
  BY <1>1, <1>2, SubSeqProperties
<1>4. QED
  BY <1>2, <1>3, LenProperties

LEMMA InitUndos == Init => UndosFit
BY DEF Init, GlobalsInit, UndosFit, Lowest

LEMMA UndosStay == UndosFit /\ UNCHANGED gvars => UndosFit'
BY DEF UndosFit, Lowest, gvars

LEMMA ReplaceKeeps ==
  ASSUME UndosFit, NEW l, ReplaceGlobals(l)
  PROVE  UndosFit'
<1> DEFINE m == Len(undos)
<1>1. /\ undos' = Append(undos, [of |-> "globals", prev |-> globalL])
      /\ globalL' = l /\ globalS' = l /\ UNCHANGED <<std, misdirected>>
  BY DEF ReplaceGlobals, Install
<1>2. m \in Nat /\ DOMAIN undos = 1 .. m
  BY DEF UndosFit
<1>3. /\ Len(undos') = m + 1 /\ undos' = [i \in 1 .. Len(undos') |-> undos'[i]]
      /\ undos'[m + 1] = [of |-> "globals", prev |-> globalL]
      /\ \A i \in 1 .. m : undos'[i] = undos[i]
  BY <1>1, AppendIs DEF UndosFit
<1> HIDE DEF m
<1>4. /\ undos'[m + 1].of = "globals" /\ undos'[m + 1].prev = globalL
      /\ DOMAIN undos' = 1 .. m + 1 /\ m + 1 \in 1 .. m + 1
  BY <1>2, <1>3
<1>5. ASSUME NEW k, NEW i \in 1 .. m PROVE Lowest(k, i)' <=> Lowest(k, i)
  <2>1. undos'[i] = undos[i] /\ \A j \in 1 .. i - 1 : undos'[j] = undos[j]
    BY <1>2, <1>3
  <2>2. QED
    BY <2>1 DEF Lowest
<1>6. ASSUME NEW i \in 1 .. m + 1, Lowest("globals", i)' PROVE undos'[i].prev = NopLogger
  <2>1. CASE i \in 1 .. m
    BY <1>2, <1>3, <1>5, <1>6, <2>1 DEF UndosFit
  <2>2. CASE i \notin 1 .. m
    <3>1. i = m + 1
      BY <1>2, <2>2
    <3>2. \A j \in 1 .. m : undos[j].of # "globals"
      BY <1>2, <1>3, <1>6, <3>1 DEF Lowest
    <3>3. QED
      BY <1>2, <1>4, <3>1, <3>2 DEF UndosFit
  <2>3. QED
    BY <2>1, <2>2
<1>7. ~misdirected' =>
        /\ \A i \in 1 .. m + 1 : Lowest("std", i)' =>
              undos'[i].flags = Default /\ undos'[i].prefix = Default
        /\ (\A i \in 1 .. m + 1 : undos'[i].of # "std") =>
              std' = [flags |-> Default, prefix |-> Default, out |-> Stderr]
  <2> SUFFICES ASSUME ~misdirected
               PROVE  /\ \A i \in 1 .. m + 1 : Lowest("std", i)' =>
                            undos'[i].flags = Default /\ undos'[i].prefix = Default
                      /\ (\A i \in 1 .. m + 1 : undos'[i].of # "std") =>
                            std = [flags |-> Default, prefix |-> Default, out |-> Stderr]
    BY <1>1
  <2>1. ASSUME NEW i \in 1 .. m + 1, Lowest("std", i)'
        PROVE  undos'[i].flags = Default /\ undos'[i].prefix = Default
    <3>1. i \in 1 .. m
      BY <1>2, <1>4, <2>1 DEF Lowest
    <3>2. QED
      BY <1>2, <1>3, <1>5, <2>1, <3>1 DEF UndosFit
  <2>2. \A i \in 1 .. m : i \in 1 .. m + 1 /\ undos'[i] = undos[i]
    BY <1>2, <1>3
  <2>3. QED
    BY <1>2, <2>1, <2>2 DEF UndosFit
<1>8. \A i \in 1 .. m + 1 : undos'[i].of \in {"globals", "std"}
  <2>1. \A i \in 1 .. m : undos'[i].of \in {"globals", "std"}
    BY <1>2, <1>3 DEF UndosFit
  <2>2. QED
    BY <1>2, <1>4, <2>1
<1>9. QED
  BY <1>1, <1>2, <1>3, <1>4, <1>6, <1>7, <1>8 DEF UndosFit

LEMMA RedirectKeeps ==
  ASSUME UndosFit, NEW l, NEW lvl, RedirectStdLogAt(l, lvl)
  PROVE  UndosFit'
<1>1. CASE ~HasMethod(lvl)
  <2>1. UNCHANGED <<undos, globalL, globalS>> /\ misdirected' = TRUE
    BY <1>1 DEF RedirectStdLogAt
  <2>2. QED
    BY <2>1 DEF UndosFit, Lowest
<1>2. CASE HasMethod(lvl)
  <2> DEFINE m == Len(undos)
  <2>1. /\ undos' = Append(undos, [of |-> "std", flags |-> std.flags, prefix |-> std.prefix])
        /\ UNCHANGED <<globalL, globalS, misdirected>>
    BY <1>2 DEF RedirectStdLogAt
  <2>2. m \in Nat /\ DOMAIN undos = 1 .. m
    BY DEF UndosFit
  <2>3. /\ Len(undos') = m + 1 /\ undos' = [i \in 1 .. Len(undos') |-> undos'[i]]
        /\ undos'[m + 1] = [of |-> "std", flags |-> std.flags, prefix |-> std.prefix]
        /\ \A i \in 1 .. m : undos'[i] = undos[i]
    BY <2>1, AppendIs DEF UndosFit
  <2> HIDE DEF m
  <2>4. /\ undos'[m + 1].of = "std" /\ undos'[m + 1].flags = std.flags
        /\ undos'[m + 1].prefix = std.prefix
        /\ DOMAIN undos' = 1 .. m + 1 /\ m + 1 \in 1 .. m + 1
    BY <2>2, <2>3
  <2>5. ASSUME NEW k, NEW i \in 1 .. m PROVE Lowest(k, i)' <=> Lowest(k, i)
    <3>1. undos'[i] = undos[i] /\ \A j \in 1 .. i - 1 : undos'[j] = undos[j]
      BY <2>2, <2>3
    <3>2. QED
      BY <3>1 DEF Lowest
  <2>6. ASSUME ~misdirected, NEW i \in 1 .. m + 1, Lowest("std", i)'
        PROVE  undos'[i].flags = Default /\ undos'[i].prefix = Default
    <3>1. CASE i \in 1 .. m
      BY <2>2, <2>3, <2>5, <2>6, <3>1 DEF UndosFit
    <3>2. CASE i \notin 1 .. m
      <4>1. i = m + 1
        BY <2>2, <3>2
      <4>2. \A j \in 1 .. m : undos[j].of # "std"
        BY <2>2, <2>3, <2>6, <4>1 DEF Lowest
      <4>3. std = [flags |-> Default, prefix |-> Default, out |-> Stderr]
        BY <2>2, <2>6, <4>2 DEF UndosFit
      <4>4. QED
        BY <2>4, <4>1, <4>3
    <3>3. QED
      BY <3>1, <3>2
  <2>7. ASSUME NEW i \in 1 .. m + 1, Lowest("globals", i)' PROVE undos'[i].prev = NopLogger
    <3>1. i \in 1 .. m
      BY <2>2, <2>4, <2>7 DEF Lowest
    <3>2. QED
      BY <2>2, <2>3, <2>5, <2>7, <3>1 DEF UndosFit
  <2>8. (\A i \in 1 .. m + 1 : undos'[i].of # "globals") => globalL = NopLogger
    <3>1. \A i \in 1 .. m : i \in 1 .. m + 1 /\ undos'[i] = undos[i]
      BY <2>2, <2>3
    <3>2. QED
      BY <2>2, <3>1 DEF UndosFit
  <2>9. \A i \in 1 .. m + 1 : undos'[i].of \in {"globals", "std"}
    <3>1. \A i \in 1 .. m : undos'[i].of \in {"globals", "std"}
      BY <2>2, <2>3 DEF UndosFit
    <3>2. QED
      BY <2>2, <2>4, <3>1
  <2>10. QED
    BY <2>1, <2>2, <2>3, <2>4, <2>6, <2>7, <2>8, <2>9 DEF UndosFit
<1>3. QED
  BY <1>1, <1>2

LEMMA UndoKeeps ==
  ASSUME UndosFit, UndoLast
  PROVE  UndosFit'
<1> DEFINE m == Len(undos)
<1>1. undos' = SubSeq(undos, 1, m - 1) /\ UNCHANGED misdirected
  BY DEF UndoLast
<1>2. m \in Nat /\ m >= 1 /\ DOMAIN undos = 1 .. m
  BY CutIs DEF UndosFit, UndoLast
<1>3. /\ Len(undos') = m - 1 /\ undos' = [i \in 1 .. Len(undos') |-> undos'[i]]
      /\ \A i \in 1 .. m - 1 : undos'[i] = undos[i]
  BY <1>1, CutIs DEF UndosFit, UndoLast
<1>4. PICK u : u = undos[m]
  OBVIOUS
<1>5. \/ u.of = "globals" /\ globalL' = u.prev /\ globalS' = u.prev /\ UNCHANGED std
      \/ /\ u.of = "std" /\ UNCHANGED <<globalL, globalS>>
         /\ std' = [flags |-> u.flags, prefix |-> u.prefix, out |-> Stderr]
  BY <1>2, <1>4 DEF UndoLast, Install, UndosFit
<1> HIDE DEF m
<1>6. DOMAIN undos' = 1 .. m - 1
  BY <1>3
<1>7. ASSUME NEW k, NEW i \in 1 .. m - 1 PROVE Lowest(k, i)' <=> Lowest(k, i)
  <2>1. undos'[i] = undos[i] /\ \A j \in 1 .. i - 1 : undos'[j] = undos[j]
    BY <1>2, <1>3
  <2>2. QED
    BY <2>1 DEF Lowest
<1>8. \A i \in 1 .. m - 1 : i \in 1 .. m /\ undos'[i] = undos[i]
  BY <1>2, <1>3
<1>9. ASSUME NEW k, \A i \in 1 .. m - 1 : undos'[i].of # k
      PROVE  (u.of = k => Lowest(k, m)) /\ (u.of # k => \A i \in 1 .. m : undos[i].of # k)
  <2>1. \A i \in 1 .. m : i \in 1 .. m - 1 \/ i = m
    BY <1>2
  <2>2. QED
    BY <1>4, <1>8, <1>9, <2>1 DEF Lowest
<1>10. m \in 1 .. m
  BY <1>2
<1>11. globalS' = globalL'
  BY <1>5 DEF UndosFit
<1>12. ASSUME \A i \in 1 .. m - 1 : undos'[i].of # "globals" PROVE globalL' = NopLogger
  <2>1. CASE u.of = "globals"
    <3>1. u.prev = NopLogger
      BY <1>2, <1>4, <1>9, <1>10, <1>12, <2>1 DEF UndosFit
    <3>2. QED
      BY <1>5, <2>1, <3>1
  <2>2. CASE u.of # "globals"
    BY <1>2, <1>5, <1>9, <1>12, <2>2 DEF UndosFit
  <2>3. QED
    BY <2>1, <2>2
<1>13. \A i \in 1 .. m - 1 : Lowest("globals", i)' => undos'[i].prev = NopLogger
  BY <1>2, <1>7, <1>8 DEF UndosFit
<1>14. \A i \in 1 .. m - 1 : undos'[i].of \in {"globals", "std"}
  BY <1>2, <1>8 DEF UndosFit
<1>15. ASSUME ~misdirected
       PROVE  /\ \A i \in 1 .. m - 1 : Lowest("std", i)' =>
                    undos'[i].flags = Default /\ undos'[i].prefix = Default
              /\ (\A i \in 1 .. m - 1 : undos'[i].of # "std") =>
                    std' = [flags |-> Default, prefix |-> Default, out |-> Stderr]
  <2>1. \A i \in 1 .. m - 1 : Lowest("std", i)' =>
           undos'[i].flags = Default /\ undos'[i].prefix = Default
    BY <1>2, <1>7, <1>8, <1>15 DEF UndosFit
  <2>2. ASSUME \A i \in 1 .. m - 1 : undos'[i].of # "std"
        PROVE  std' = [flags |-> Default, prefix |-> Default, out |-> Stderr]
    <3>1. CASE u.of = "std"
      <4>1. u.flags = Default /\ u.prefix = Default
        BY <1>2, <1>4, <1>9, <1>10, <1>15, <2>2, <3>1 DEF UndosFit
      <4>2. QED
        BY <1>5, <3>1, <4>1
    <3>2. CASE u.of # "std"
      BY <1>2, <1>5, <1>9, <1>15, <2>2, <3>2 DEF UndosFit
    <3>3. QED
      BY <3>1, <3>2
  <2>3. QED
    BY <2>1, <2>2
<1>16. Len(undos') \in Nat
  BY <1>2, <1>3
<1>17. QED
  BY <1>1, <1>3, <1>6, <1>11, <1>12, <1>13, <1>14, <1>15, <1>16 DEF UndosFit

LEMMA UndoneAtTheEnd == UndosFit => UndoneIsAsBefore
<1> SUFFICES ASSUME UndosFit PROVE UndoneIsAsBefore
  OBVIOUS
<1>1. undos = <<>> => \A i \in DOMAIN undos : FALSE
  OBVIOUS
<1>2. QED
  BY <1>1 DEF UndosFit, UndoneIsAsBefore


-----------------------------------------------------------------------------
(* The parts of the invariant that speak of loggers and handles.            *)
CoreFits ==
    /\ LoggersFit /\ HandlesFit /\ QueuesFit /\ ClosersFit
    /\ LeftoversFit /\ ClosesFit /\ RefusalsAreReported

LEMMA InitCore == Init => CoreFits
<1> SUFFICES ASSUME Init PROVE CoreFits
  OBVIOUS
<1>1. loggers = <<>> /\ DOMAIN loggers = {} /\ Alive = {}
  BY DEF Init, Alive
<1>2. queue = <<>> /\ taken = <<>> /\ file = <<>> /\ open = {} /\ Made = {}
  BY DEF Init, Made
<1>3. LoggersFit
  BY <1>1 DEF LoggersFit
<1>4. HandlesFit /\ QueuesFit
  BY <1>2 DEF HandlesFit, QueuesFit
<1>5. ClosersFit /\ LeftoversFit /\ RefusalsAreReported
  BY <1>1, <1>2 DEF ClosersFit, CloseAll, LeftoversFit, RefusalsAreReported, Init
<1>6. ClosesFit
  BY <1>1 DEF ClosesFit, CallFits, Init
<1>7. QED
  BY <1>3, <1>4, <1>5, <1>6 DEF CoreFits

coreVars == <<loggers, open, queue, taken, file, reported, refused, pc, returned>>

LEMMA CoreStays == CoreFits /\ UNCHANGED coreVars => CoreFits'
BY DEF CoreFits, coreVars, LoggersFit, HandlesFit, QueuesFit, ClosersFit, CloseAll, LeftoversFit, ClosesFit,
       RefusalsAreReported, Made, Alive

LEMMA LoggersAre ==
  ASSUME LoggersFit
  PROVE  DOMAIN loggers = 1 .. Len(loggers) /\ Alive \subseteq DOMAIN loggers
BY DEF LoggersFit, Alive

(* While no logger but its once changes, and handles only close.            *)
SameLoggers ==
    /\ DOMAIN loggers' = DOMAIN loggers
    /\ \A n \in DOMAIN loggers : /\ loggers'[n].ok = loggers[n].ok
                                 /\ loggers'[n].cfg = loggers[n].cfg
                                 /\ loggers'[n].closers = loggers[n].closers

SameHandles == DOMAIN queue' = DOMAIN queue /\ DOMAIN file' = DOMAIN file

LEMMA ClosersStay ==
  ASSUME ClosersFit, LeftoversFit, SameLoggers, SameHandles, open' \subseteq open
  PROVE  Alive' = Alive /\ Made' = Made /\ ClosersFit' /\ LeftoversFit'
<1>1. Alive' = Alive
  BY DEF Alive, SameLoggers
<1>2. Made' = Made
  BY DEF Made, SameHandles
<1>3. \A n \in Alive : loggers'[n].closers = loggers[n].closers
  BY DEF Alive, SameLoggers
<1>4. ClosersFit'
  BY <1>1, <1>2, <1>3 DEF ClosersFit, SameHandles
<1>5. LeftoversFit'
  BY <1>1 DEF LeftoversFit, SameLoggers
<1>6. QED
  BY <1>1, <1>2, <1>4, <1>5

(* A call in progress is not disturbed by what others open and close.       *)
SameAlive(ls, ls2) ==
    \A n \in DOMAIN ls : ls[n].ok =>
        n \in DOMAIN ls2 /\ ls2[n].ok /\ ls2[n].closers = ls[n].closers
        /\ (ls[n].once # "new" => ls2[n].once # "new")

LEMMA CallStays ==
  ASSUME NEW call, NEW ls, NEW ls2, NEW hs, NEW hs2, CallFits(call, ls, hs), SameAlive(ls, ls2),
         \A n \in DOMAIN ls : ls[n].ok => Len(ls[n].closers) \in Nat,
         \A n \in DOMAIN ls : ls[n].ok =>
            \A j \in 1 .. Len(ls[n].closers) : ls[n].closers[j] \cap hs2 \subseteq hs
  PROVE  CallFits(call, ls2, hs2)
<1>1. CASE call.op = "close" /\ call # Idle
  <2>1. PICK n \in DOMAIN ls : n = call.logger
    BY <1>1 DEF CallFits
  <2>2. PICK k : k = call.closer
    OBVIOUS
  <2>3. /\ ls[n].ok /\ k \in 0 .. Len(ls[n].closers) /\ ls[n].once # "new"
        /\ ClosedUpTo(k - 1, ls[n].closers, hs)
        /\ call = [op |-> "close", logger |-> n, closer |-> k]
    BY <1>1, <2>1, <2>2 DEF CallFits
  <2>4. /\ n \in DOMAIN ls2 /\ ls2[n].ok /\ ls2[n].closers = ls[n].closers
        /\ ls2[n].once # "new"
    BY <2>3 DEF SameAlive
  <2>5. ClosedUpTo(k - 1, ls[n].closers, hs2)
    <3>1. PICK cs : cs = ls[n].closers
      OBVIOUS
    <3>2. PICK z : z = Len(cs)
      OBVIOUS
    <3>3. z \in Nat
      BY <2>3, <3>1, <3>2
    <3>4. \A j \in 1 .. k - 1 : j \in 1 .. z
      BY <2>3, <3>1, <3>2, <3>3
    <3>5. QED
      BY <2>3, <3>1, <3>2, <3>4 DEF ClosedUpTo
  <2>6. QED
    BY <1>1, <2>1, <2>2, <2>3, <2>4, <2>5 DEF CallFits
<1>2. CASE ~(call.op = "close" /\ call # Idle)
  BY <1>2 DEF CallFits, SameAlive
<1>3. QED
  BY <1>1, <1>2

-----------------------------------------------------------------------------
(* Build: new handles belong to a logger with a new number.                 *)
LEMMA BuildKeeps ==
  ASSUME CoreFits, NEW cfg \in Configs, NEW bad, Build(cfg, bad)
  PROVE  CoreFits'
<1>1. PICK n : n = Len(loggers) + 1
  OBVIOUS
<1>2. PICK r : r = BuildResult(n, cfg, bad)
  OBVIOUS
<1>3. PICK qs : qs = {h \in r.open : h.kind = "async"}
  OBVIOUS
<1>4. /\ loggers' = Append(loggers, [ok |-> r.ok, cfg |-> cfg, closers |-> r.closers, once |-> "new"])
      /\ open' = open \cup r.open
      /\ queue' = WithEmpty(queue, qs) /\ taken' = WithEmpty(taken, qs)
      /\ file' = WithEmpty(file, r.open \ qs)
      /\ UNCHANGED <<factories, used, reported, refused, pc, returned, gvars>>
  BY <1>1, <1>2, <1>3 DEF Build
<1>5. BuildFits(r, n, cfg)
  BY <1>2, BuildIs
<1>6. /\ DOMAIN loggers = 1 .. Len(loggers) /\ Len(loggers) \in Nat /\ n \in Nat
      /\ n \notin DOMAIN loggers
  BY <1>1, LoggersAre DEF CoreFits, LoggersFit
<1>7. /\ Len(loggers') = n /\ loggers' = [m \in 1 .. Len(loggers') |-> loggers'[m]]
      /\ DOMAIN loggers' = DOMAIN loggers \cup {n}
      /\ loggers'[n] = [ok |-> r.ok, cfg |-> cfg, closers |-> r.closers, once |-> "new"]
      /\ \A m \in DOMAIN loggers : loggers'[m] = loggers[m]
  <2>1. /\ Len(loggers') = Len(loggers) + 1 /\ loggers' = [m \in 1 .. Len(loggers') |-> loggers'[m]]
        /\ loggers'[Len(loggers) + 1] = [ok |-> r.ok, cfg |-> cfg, closers |-> r.closers, once |-> "new"]
        /\ \A m \in 1 .. Len(loggers) : loggers'[m] = loggers[m]
    BY <1>4, <1>6, AppendIs DEF CoreFits, LoggersFit
  <2>2. DOMAIN loggers' = 1 .. Len(loggers) + 1
    BY <2>1
  <2>3. QED
    BY <1>1, <1>6, <2>1, <2>2
<1>8. /\ loggers'[n].ok = r.ok /\ loggers'[n].cfg = cfg /\ loggers'[n].closers = r.closers
      /\ loggers'[n].once = "new"
  BY <1>7
<1>9. /\ \A m \in DOMAIN loggers : m \in Alive' <=> m \in Alive
      /\ n \in Alive' <=> r.ok
      /\ Alive' \subseteq DOMAIN loggers \cup {n} /\ Alive \subseteq DOMAIN loggers
  BY <1>7, <1>8 DEF Alive
<1>10. /\ DOMAIN queue' = qs \cup DOMAIN queue /\ DOMAIN taken' = qs \cup DOMAIN taken
       /\ DOMAIN file' = (r.open \ qs) \cup DOMAIN file
  BY <1>4 DEF WithEmpty
<1>11. Made' = Made \cup r.open
  BY <1>3, <1>10 DEF Made
<1>12. \A h \in r.open : /\ IsHandle(h) /\ h.logger = n /\ h \notin Made
                         /\ h.kind = "async" => h.output # 0 /\ Inner(h) \in r.open
  BY <1>5, <1>6 DEF BuildFits, CoreFits, HandlesFit
<1>13. \A h \in Made : h \notin r.open /\ h.logger # n /\ IsHandle(h)
  BY <1>6, <1>12 DEF CoreFits, HandlesFit, Made
<1>14. /\ \A h \in DOMAIN queue : queue'[h] = queue[h] /\ taken'[h] = taken[h]
       /\ \A h \in DOMAIN file : file'[h] = file[h]
       /\ \A h \in qs : queue'[h] = <<>> /\ taken'[h] = <<>>
       /\ \A h \in r.open \ qs : file'[h] = <<>>
  <2>1. DOMAIN taken = DOMAIN queue
    BY DEF CoreFits, HandlesFit
  <2>2. \A h \in DOMAIN queue \cup DOMAIN file : h \notin r.open
    BY <1>13 DEF Made
  <2>3. QED
    BY <1>3, <1>4, <2>1, <2>2 DEF WithEmpty
<1>15. \A h \in Made : h \in open' <=> h \in open
  BY <1>4, <1>13
<1>16. LoggersFit'
  BY <1>6, <1>7, <1>8 DEF CoreFits, LoggersFit
<1>17. HandlesFit'
  BY <1>3, <1>4, <1>7, <1>10, <1>11, <1>12 DEF CoreFits, HandlesFit
<1>18. ASSUME NEW aw \in qs
       PROVE  /\ Inner(aw) \in DOMAIN file' /\ file'[Inner(aw)] = <<>> /\ Inner(aw) \in open'
              /\ queue'[aw] = <<>> /\ taken'[aw] = <<>> /\ aw \in open'
  <2>1. Inner(aw) \in r.open /\ Inner(aw).kind = "rolling"
    BY <1>3, <1>12, InnerIs
  <2>2. QED
    BY <1>3, <1>4, <1>10, <1>14, <2>1
<1>19. ASSUME NEW aw \in DOMAIN queue
       PROVE  /\ Inner(aw) \in DOMAIN file /\ file'[Inner(aw)] = file[Inner(aw)]
              /\ aw \in open' <=> aw \in open
              /\ Inner(aw) \in open' <=> Inner(aw) \in open
  BY <1>14, <1>15 DEF CoreFits, QueuesFit, Made
<1>20. QueuesFit'
  <2>1. <<>> \in Seq(Lines) /\ <<>> \o <<>> = <<>>
    OBVIOUS
  <2>2. \A h \in DOMAIN queue' : queue'[h] \in Seq(Lines) /\ taken'[h] \in Seq(Lines)
    BY <1>10, <1>14, <2>1 DEF CoreFits, QueuesFit
  <2>3. \A h \in DOMAIN file' : file'[h] \in Seq(Lines)
    BY <1>10, <1>14, <2>1 DEF CoreFits, QueuesFit
  <2>4. ASSUME NEW aw \in DOMAIN queue'
        PROVE  /\ Inner(aw) \in DOMAIN file'
               /\ file'[Inner(aw)] \o queue'[aw] = taken'[aw]
               /\ aw \in open' => Inner(aw) \in open'
               /\ aw \notin open' => queue'[aw] = <<>>
    <3>1. CASE aw \in qs
      BY <1>18, <2>1, <3>1
    <3>2. CASE aw \in DOMAIN queue
      BY <1>10, <1>14, <1>19, <3>2 DEF CoreFits, QueuesFit
    <3>3. QED
      BY <1>10, <3>1, <3>2
  <2>5. QED
    BY <2>2, <2>3, <2>4 DEF QueuesFit, Inner
<1>21. ClosersFit'
  <2>1. ASSUME NEW m \in Alive', NEW cs, cs = loggers'[m].closers
        PROVE  CloseAll(cs, m, Made', DOMAIN queue')
    <3>1. CASE m = n
      <4>1. /\ cs = r.closers /\ InOrder(cs) /\ r.ok
            /\ \A h : In(h, cs) => h \in r.open /\ h.output # 0
            /\ \A h \in r.open : h.output # 0 => In(h, cs)
        BY <1>5, <1>8, <1>9, <2>1, <3>1 DEF BuildFits
      <4>2. Len(cs) \in Nat /\ DOMAIN cs = 1 .. Len(cs)
        BY <4>1 DEF InOrder
      <4>3. \A k \in DOMAIN cs : \A h \in cs[k] : h \in Made' /\ h.logger = m /\ h.output # 0
        BY <1>11, <1>12, <3>1, <4>1 DEF In
      <4>4. \A h \in Made' : h.logger = m /\ h.output # 0 => In(h, cs)
        BY <1>11, <1>13, <3>1, <4>1
      <4>5. ASSUME NEW aw \in DOMAIN queue', NEW k \in DOMAIN cs, Inner(aw) \in cs[k]
            PROVE  \E j \in 1 .. k : aw \in cs[j]
        <5>1. aw \in Made' /\ aw.kind = "async" /\ aw.output # 0 /\ IsHandle(aw)
          BY <1>17 DEF HandlesFit, Made
        <5>2. aw.logger = m
          BY <4>3, <4>5, <5>1, InnerIs
        <5>3. In(aw, cs)
          BY <4>4, <5>1, <5>2
        <5>4. QED
          BY <4>1, <4>5, <5>1, <5>3 DEF InOrder
      <4>6. QED
        BY <4>2, <4>3, <4>4, <4>5 DEF In, CloseAll
    <3>2. CASE m # n
      <4>1. m \in Alive /\ cs = loggers[m].closers
        BY <1>7, <1>9, <2>1, <3>2
      <4>2. \A k \in DOMAIN cs : \A h \in cs[k] : h \in Made /\ h.logger = m /\ h.output # 0
        BY <4>1 DEF CoreFits, ClosersFit, CloseAll
      <4>3. ASSUME NEW aw \in DOMAIN queue', NEW k \in DOMAIN cs, Inner(aw) \in cs[k]
            PROVE  aw \in DOMAIN queue
        <5>1. IsHandle(aw) /\ Inner(aw).logger = m
          BY <1>17, <4>2, <4>3 DEF HandlesFit
        <5>2. aw.logger # n
          BY <3>2, <5>1, InnerIs
        <5>3. QED
          BY <1>3, <1>10, <1>12, <5>2
      <4>4. \A h \in Made' : h.logger = m => h \in Made
        BY <1>11, <1>12, <3>2
      <4>5. QED
        BY <1>11, <4>1, <4>2, <4>3, <4>4 DEF CoreFits, ClosersFit, CloseAll
    <3>3. QED
      BY <3>1, <3>2
  <2>2. QED
    BY <2>1 DEF ClosersFit
<1>22. LeftoversFit'
  <2>1. ASSUME NEW h \in open', h.logger \notin Alive', h.logger \in DOMAIN loggers'
        PROVE  h.output # 0 /\ Nameless(loggers'[h.logger].cfg, h.output)
    <3>1. CASE h \in r.open
      BY <1>5, <1>8, <1>9, <1>12, <2>1, <3>1 DEF BuildFits
    <3>2. CASE h \in open
      <4>1. h.logger \in DOMAIN loggers
        BY <3>2 DEF CoreFits, HandlesFit
      <4>2. QED
        BY <1>7, <1>9, <2>1, <3>2, <4>1 DEF CoreFits, LeftoversFit
    <3>3. QED
      BY <1>4, <3>1, <3>2
  <2>2. QED
    BY <2>1 DEF LeftoversFit, Nameless
<1>23. ClosesFit'
  <2>1. \A m \in Alive : loggers'[m] = loggers[m] /\ m \in Alive'
    BY <1>7, <1>9
  <2>2. ASSUME NEW m \in Alive, NEW j \in 1 .. Len(loggers[m].closers)
        PROVE  loggers[m].closers[j] \cap r.open = {}
    BY <1>13, <2>2 DEF CoreFits, ClosersFit, CloseAll
  <2>3. \A c \in Callers : CallFits(pc[c], loggers', open')
    <3>1. \A m \in DOMAIN loggers : loggers[m].ok => m \in DOMAIN loggers' /\ loggers'[m] = loggers[m]
      BY <1>7
    <3>2. ASSUME NEW m \in DOMAIN loggers, loggers[m].ok, NEW j \in 1 .. Len(loggers[m].closers)
          PROVE  loggers[m].closers[j] \cap open' \subseteq open
      BY <1>4, <2>2, <3>2 DEF Alive
    <3>3. SameAlive(loggers, loggers')
      BY <3>1 DEF SameAlive
    <3>4. \A m \in DOMAIN loggers : loggers[m].ok => Len(loggers[m].closers) \in Nat
      BY DEF CoreFits, ClosersFit, CloseAll, Alive
    <3>5. QED
      BY <3>2, <3>3, <3>4, CallStays DEF CoreFits, ClosesFit
  <2>4. ASSUME NEW m \in Alive' PROVE OnceFits(loggers'[m], open')
    <3>1. CASE m = n
      <4>1. \A k \in DOMAIN r.closers : r.closers[k] \subseteq r.open
        BY <1>5, <1>9, <2>4, <3>1 DEF BuildFits, In
      <4>2. UNION ToSet(r.closers) \subseteq open'
        BY <1>4, <4>1 DEF ToSet
      <4>3. QED
        BY <1>8, <3>1, <4>2 DEF OnceFits
    <3>2. CASE m # n
      <4>1. m \in Alive /\ loggers'[m] = loggers[m] /\ OnceFits(loggers[m], open)
        BY <1>7, <1>9, <2>4, <3>2 DEF CoreFits, ClosesFit
      <4>2. \A j \in 1 .. Len(loggers[m].closers) : loggers[m].closers[j] \cap r.open = {}
        BY <2>2, <4>1
      <4>3. QED
        BY <1>4, <4>1, <4>2 DEF OnceFits, ClosedUpTo
    <3>3. QED
      BY <3>1, <3>2
  <2>5. \A x \in returned' : x[2] \in Alive' /\ loggers'[x[2]].once = "done"
    BY <1>4, <2>1 DEF CoreFits, ClosesFit
  <2>6. pc' = pc /\ DOMAIN pc = Callers
    BY <1>4 DEF CoreFits, ClosesFit
  <2>7. QED
    BY <2>3, <2>4, <2>5, <2>6 DEF ClosesFit
<1>24. RefusalsAreReported'
  BY <1>4 DEF CoreFits, RefusalsAreReported
<1>25. QED
  BY <1>16, <1>17, <1>20, <1>21, <1>22, <1>23, <1>24 DEF CoreFits

-----------------------------------------------------------------------------
(* Logging.                                                                 *)
LEMMA StartKeeps ==
  ASSUME CoreFits, NEW c \in Callers, NEW n, NEW line \in Lines, StartLog(c, n, line)
  PROVE  CoreFits'
<1>1. /\ DOMAIN pc = Callers
      /\ pc' = [pc EXCEPT ![c] = [op |-> "log", logger |-> n, line |-> line, output |-> 1]]
      /\ UNCHANGED <<loggers, open, queue, taken, file, reported, refused, returned>>
  BY DEF CoreFits, ClosesFit, StartLog
<1>2. \A d \in Callers : CallFits(pc'[d], loggers, open)
  <2>1. CallFits([op |-> "log", logger |-> n, line |-> line, output |-> 1], loggers, open)
    BY DEF CallFits
  <2>2. QED
    BY <1>1, <2>1 DEF CoreFits, ClosesFit
<1>3. ClosesFit'
  BY <1>1, <1>2 DEF CoreFits, ClosesFit, Alive
<1>4. QED
  BY <1>1, <1>3 DEF CoreFits, LoggersFit, HandlesFit, QueuesFit, ClosersFit, CloseAll, LeftoversFit,
                    RefusalsAreReported, Made, Alive

(* What a line is appended to first is a queue, or nothing of its output is *)
(* one.                                                                     *)
LEMMA EntranceIs ==
  ASSUME HandlesFit, NEW n, NEW i, NEW front, front = Entrance(n, i),
         NEW aw \in DOMAIN queue
  PROVE  Inner(aw) \notin front /\ (front \subseteq Made)
<1>1. front \subseteq HandlesOf(n, i)
  BY DEF Entrance
<1>2. IsHandle(aw) /\ aw.kind = "async"
  BY DEF HandlesFit
<1>3. Inner(aw).kind = "rolling" /\ Inner(aw).logger = aw.logger /\ Inner(aw).output = aw.output
  BY <1>2, InnerIs
<1>4. ASSUME Inner(aw) \in front PROVE FALSE
  <2>1. Inner(aw) \in HandlesOf(n, i)
    BY <1>1, <1>4
  <2>2. aw \in {h \in HandlesOf(n, i) : h.kind = "async"}
    BY <1>2, <1>3, <2>1 DEF HandlesOf
  <2>3. Inner(aw).kind = "async"
    BY <1>4, <2>2 DEF Entrance
  <2>4. QED
    BY <1>3, <2>3
<1>5. QED
  BY <1>1, <1>4 DEF HandlesOf, Made

LEMMA AppendsAtTheEnd ==
  ASSUME NEW S, NEW s \in Seq(S), NEW t \in Seq(S), NEW x \in S
  PROVE  s \o Append(t, x) = Append(s \o t, x)
OBVIOUS

LEMMA WriteKeeps ==
  ASSUME CoreFits, NEW c \in Callers, WriteOutput(c)
  PROVE  CoreFits'
<1>1. PICK call : call = pc[c]
  OBVIOUS
<1>2. PICK n, i, line : n = call.logger /\ i = call.output /\ line = call.line
  OBVIOUS
<1>3. PICK front : front = Entrance(n, i)
  OBVIOUS
<1>4. PICK takes : takes = front \cap open
  OBVIOUS
<1>5. /\ queue' = [h \in DOMAIN queue |-> IF h \in takes THEN Append(queue[h], line) ELSE queue[h]]
      /\ taken' = [h \in DOMAIN taken |-> IF h \in takes THEN Append(taken[h], line) ELSE taken[h]]
      /\ file' = [h \in DOMAIN file |-> IF h \in takes THEN Append(file[h], line) ELSE file[h]]
      /\ refused' = IF takes = front THEN refused ELSE refused \cup {<<line, n>>}
      /\ reported' = IF takes # front /\ ErrorOutputIsOpen(n)
                       THEN reported \cup {<<line, n>>} ELSE reported
      /\ pc' = [pc EXCEPT ![c] = IF i = Len(loggers[n].cfg.outputs)
                                   THEN Idle ELSE [@ EXCEPT !.output = i + 1]]
      /\ call.op = "log"
      /\ UNCHANGED <<loggers, open, returned>>
  BY <1>1, <1>2, <1>3, <1>4 DEF WriteOutput
<1>6. /\ call = [op |-> "log", logger |-> n, line |-> line, output |-> i]
      /\ line \in Lines /\ i \in Nat \ {0}
  BY <1>1, <1>2, <1>5 DEF CoreFits, ClosesFit, CallFits, Idle
<1>7. DOMAIN taken = DOMAIN queue /\ DOMAIN pc = Callers
  BY DEF CoreFits, HandlesFit, ClosesFit
<1>8. DOMAIN queue' = DOMAIN queue /\ DOMAIN taken' = DOMAIN taken /\ DOMAIN file' = DOMAIN file
  BY <1>5
<1>9. ErrorOutputIsOpen(n)
  BY DEF CoreFits, HandlesFit, Made, ErrorOutputIsOpen, HandlesOf
<1>10. RefusalsAreReported'
  BY <1>5, <1>9 DEF CoreFits, RefusalsAreReported
<1>11. SameLoggers /\ SameHandles /\ open' \subseteq open
  BY <1>5, <1>8 DEF SameLoggers, SameHandles
<1>12. Alive' = Alive /\ Made' = Made /\ ClosersFit' /\ LeftoversFit'
  BY <1>11, ClosersStay DEF CoreFits
<1>13. LoggersFit'
  BY <1>5 DEF CoreFits, LoggersFit
<1>14. HandlesFit'
  BY <1>5, <1>8, <1>12 DEF CoreFits, HandlesFit
<1>15. QueuesFit'
  <2>1. \A h \in DOMAIN queue' : queue'[h] \in Seq(Lines) /\ taken'[h] \in Seq(Lines)
    BY <1>5, <1>6, <1>7 DEF CoreFits, QueuesFit
  <2>2. \A h \in DOMAIN file' : file'[h] \in Seq(Lines)
    BY <1>5, <1>6 DEF CoreFits, QueuesFit
  <2>3. ASSUME NEW aw \in DOMAIN queue
        PROVE  /\ Inner(aw) \in DOMAIN file'
               /\ file'[Inner(aw)] \o queue'[aw] = taken'[aw]
               /\ aw \in open' => Inner(aw) \in open'
               /\ aw \notin open' => queue'[aw] = <<>>
    <3>1. Inner(aw) \notin takes
      BY <1>3, <1>4, EntranceIs DEF CoreFits
    <3>2. Inner(aw) \in DOMAIN file /\ file[Inner(aw)] \o queue[aw] = taken[aw]
      BY DEF CoreFits, QueuesFit
    <3>3. file'[Inner(aw)] = file[Inner(aw)]
      BY <1>5, <3>1, <3>2
    <3>4. file'[Inner(aw)] \o queue'[aw] = taken'[aw]
      <4>1. CASE aw \in takes
        <5>1. file[Inner(aw)] \in Seq(Lines) /\ queue[aw] \in Seq(Lines)
          BY <3>2 DEF CoreFits, QueuesFit
        <5>2. file[Inner(aw)] \o Append(queue[aw], line) = Append(file[Inner(aw)] \o queue[aw], line)
          <6>1. \A s, t \in Seq(Lines) : \A x \in Lines : s \o Append(t, x) = Append(s \o t, x)
            BY AppendsAtTheEnd
          <6>2. line \in Lines
            BY <1>6
          <6>3. QED
            BY <5>1, <6>1, <6>2, Zenon
        <5>3. queue'[aw] = Append(queue[aw], line) /\ taken'[aw] = Append(taken[aw], line)
          BY <1>5, <1>7, <4>1
        <5>4. QED
          BY <3>2, <3>3, <5>2, <5>3
      <4>2. CASE aw \notin takes
        BY <1>5, <1>7, <3>2, <3>3, <4>2
      <4>3. QED
        BY <4>1, <4>2
    <3>5. aw \in open => Inner(aw) \in open
      BY DEF CoreFits, QueuesFit
    <3>6. aw \notin open => queue'[aw] = <<>>
      BY <1>4, <1>5 DEF CoreFits, QueuesFit
    <3>7. QED
      BY <1>5, <1>8, <3>2, <3>4, <3>5, <3>6
  <2>4. QED
    BY <1>8, <2>1, <2>2, <2>3 DEF QueuesFit, Inner
<1>16. ClosesFit'
  <2>1. \A d \in Callers : d # c => pc'[d] = pc[d]
    BY <1>5, <1>7
  <2>2. \/ pc'[c] = Idle
        \/ pc'[c] = [op |-> "log", logger |-> n, line |-> line, output |-> i + 1]
    BY <1>1, <1>5, <1>6, <1>7
  <2>3. CallFits(pc'[c], loggers, open)
    <3>1. i + 1 \in Nat \ {0}
      BY <1>6
    <3>2. CASE pc'[c] = Idle
      BY <3>2 DEF CallFits
    <3>3. CASE pc'[c] = [op |-> "log", logger |-> n, line |-> line, output |-> i + 1]
      BY <1>6, <3>1, <3>3 DEF CallFits
    <3>4. QED
      BY <2>2, <3>2, <3>3
  <2>4. \A d \in Callers : CallFits(pc'[d], loggers, open)
    BY <2>1, <2>3 DEF CoreFits, ClosesFit
  <2>5. DOMAIN pc' = Callers
    BY <1>5, <1>7
  <2>6. QED
    BY <1>5, <1>12, <2>4, <2>5 DEF CoreFits, ClosesFit
<1>17. QED
  BY <1>10, <1>12, <1>13, <1>14, <1>15, <1>16 DEF CoreFits

-----------------------------------------------------------------------------
(* Draining a queue moves its lines into the files of the writer behind it. *)
LEMMA DrainKeeps ==
  ASSUME HandlesFit, QueuesFit, NEW hs, hs \subseteq DOMAIN queue, hs \subseteq open,
         Drained(hs), UNCHANGED taken, open' \subseteq open,
         \A aw \in DOMAIN queue : aw \in open \ open' => aw \in hs,
         \A aw \in DOMAIN queue : aw \in open' => Inner(aw) \in open'
  PROVE  SameHandles /\ QueuesFit'
<1>1. /\ DOMAIN queue' = DOMAIN queue /\ DOMAIN file' = DOMAIN file /\ DOMAIN taken = DOMAIN queue
      /\ \A h \in DOMAIN queue : queue'[h] = IF h \in hs THEN <<>> ELSE queue[h]
  BY DEF Drained, HandlesFit
<1>2. ASSUME NEW aw \in DOMAIN queue
      PROVE  /\ Inner(aw) \in DOMAIN file
             /\ file'[Inner(aw)] = IF aw \in hs THEN file[Inner(aw)] \o queue[aw]
                                                ELSE file[Inner(aw)]
  <2>1. Inner(aw) \in DOMAIN file /\ (aw \in open => Inner(aw) \in open)
    BY DEF QueuesFit
  <2>2. /\ Inner(aw).kind = "rolling" /\ [Inner(aw) EXCEPT !.kind = "async"] = aw
    BY InnerIs DEF HandlesFit
  <2>3. QED
    BY <2>1, <2>2 DEF Drained
<1>3. ASSUME NEW f \in DOMAIN file PROVE file'[f] \in Seq(Lines)
  <2>1. PICK aw : aw = [f EXCEPT !.kind = "async"]
    OBVIOUS
  <2>2. file'[f] = IF f.kind = "rolling" /\ aw \in hs /\ f \in open
                     THEN file[f] \o queue[aw] ELSE file[f]
    BY <2>1 DEF Drained
  <2>3. file[f] \in Seq(Lines) /\ (aw \in hs => queue[aw] \in Seq(Lines))
    BY DEF QueuesFit
  <2>4. QED
    BY <2>2, <2>3
<1>4. ASSUME NEW h \in DOMAIN queue' PROVE queue'[h] \in Seq(Lines) /\ taken'[h] \in Seq(Lines)
  <2>1. queue[h] \in Seq(Lines) /\ taken[h] \in Seq(Lines)
    BY <1>1, <1>4 DEF QueuesFit
  <2>2. <<>> \in Seq(Lines)
    OBVIOUS
  <2>3. QED
    BY <1>1, <1>4, <2>1, <2>2
<1>5. ASSUME NEW aw \in DOMAIN queue
      PROVE  /\ Inner(aw) \in DOMAIN file'
             /\ file'[Inner(aw)] \o queue'[aw] = taken'[aw]
             /\ aw \in open' => Inner(aw) \in open'
             /\ aw \notin open' => queue'[aw] = <<>>
  <2>1. /\ file[Inner(aw)] \o queue[aw] = taken[aw] /\ taken[aw] \in Seq(Lines)
        /\ aw \notin open => queue[aw] = <<>>
    BY DEF QueuesFit
  <2>2. taken[aw] \o <<>> = taken[aw]
    BY <2>1
  <2>3. file'[Inner(aw)] \o queue'[aw] = taken'[aw]
    BY <1>1, <1>2, <2>1, <2>2
  <2>4. QED
    BY <1>1, <1>2, <2>1, <2>3
<1>6. QED
  BY <1>1, <1>3, <1>4, <1>5 DEF QueuesFit, SameHandles, Inner

LEMMA FlushKeeps ==
  ASSUME CoreFits, NEW aw \in DOMAIN queue, Flush(aw)
  PROVE  CoreFits'
<1>1. /\ Drained({aw}) /\ queue[aw] # <<>>
      /\ UNCHANGED <<loggers, open, taken, reported, refused, pc, returned>>
  BY DEF Flush
<1>2. aw \in open /\ \A h \in DOMAIN queue : h \in open => Inner(h) \in open
  BY <1>1 DEF CoreFits, QueuesFit
<1>3. SameHandles /\ QueuesFit'
  BY <1>1, <1>2, DrainKeeps DEF CoreFits, Inner
<1>4. SameLoggers /\ open' \subseteq open
  BY <1>1 DEF SameLoggers
<1>5. Alive' = Alive /\ Made' = Made /\ ClosersFit' /\ LeftoversFit'
  BY <1>3, <1>4, ClosersStay DEF CoreFits
<1>6. LoggersFit' /\ RefusalsAreReported' /\ ClosesFit'
  BY <1>1, <1>5 DEF CoreFits, LoggersFit, RefusalsAreReported, ClosesFit
<1>7. HandlesFit'
  BY <1>1, <1>3, <1>5 DEF CoreFits, HandlesFit, SameHandles
<1>8. QED
  BY <1>3, <1>5, <1>6, <1>7 DEF CoreFits

-----------------------------------------------------------------------------
(* Closing.                                                                 *)
LEMMA OnceMoves ==
  ASSUME LoggersFit, NEW n \in DOMAIN loggers, NEW o,
         loggers' = [loggers EXCEPT ![n].once = o]
  PROVE  /\ LoggersFit' /\ SameLoggers /\ DOMAIN loggers' = DOMAIN loggers
         /\ loggers'[n].once = o
         /\ \A m \in DOMAIN loggers : m # n => loggers'[m] = loggers[m]
<1>1. PICK l : l = loggers[n]
  OBVIOUS
<1>2. /\ l = [ok |-> l.ok, cfg |-> l.cfg, closers |-> l.closers, once |-> l.once]
      /\ loggers' = [m \in DOMAIN loggers |-> IF m = n THEN [l EXCEPT !.once = o] ELSE loggers[m]]
  BY <1>1 DEF LoggersFit
<1>3. loggers'[n] = [ok |-> l.ok, cfg |-> l.cfg, closers |-> l.closers, once |-> o]
  BY <1>2
<1>4. /\ DOMAIN loggers' = DOMAIN loggers
      /\ \A m \in DOMAIN loggers : m # n => loggers'[m] = loggers[m]
  BY <1>2
<1>5. SameLoggers /\ loggers'[n].once = o
  BY <1>1, <1>3, <1>4 DEF SameLoggers
<1>6. Len(loggers') = Len(loggers) /\ loggers' = [m \in 1 .. Len(loggers') |-> loggers'[m]]
  <2>1. DOMAIN loggers = 1 .. Len(loggers) /\ Len(loggers) \in Nat
    BY DEF LoggersFit
  <2>2. loggers' = [m \in 1 .. Len(loggers) |-> loggers'[m]]
    BY <1>2, <2>1
  <2>3. Len(loggers') = Len(loggers)
    BY <1>4, <2>1, <2>2
  <2>4. QED
    BY <2>2, <2>3
<1>7. \A m \in DOMAIN loggers' :
         loggers'[m] = [ok |-> loggers'[m].ok, cfg |-> loggers'[m].cfg,
                        closers |-> loggers'[m].closers, once |-> loggers'[m].once]
  BY <1>3, <1>4 DEF LoggersFit
<1>8. LoggersFit'
  BY <1>6, <1>7 DEF LoggersFit
<1>9. QED
  BY <1>4, <1>5, <1>8

(* The calls in progress, when one of them moves on and handles close.      *)
LEMMA CallsMove ==
  ASSUME CoreFits, NEW c \in Callers, NEW call, pc' = [pc EXCEPT ![c] = call],
         CallFits(call, loggers', open'), SameLoggers, open' \subseteq open,
         \A n \in Alive : loggers[n].once # "new" => loggers'[n].once # "new"
  PROVE  DOMAIN pc' = Callers /\ \A d \in Callers : CallFits(pc'[d], loggers', open')
<1>1. /\ DOMAIN pc' = Callers /\ pc'[c] = call
      /\ \A d \in Callers : d # c => pc'[d] = pc[d] /\ CallFits(pc[d], loggers, open)
  BY DEF CoreFits, ClosesFit
<1>2. SameAlive(loggers, loggers')
  BY DEF SameAlive, SameLoggers, Alive
<1>3. \A n \in DOMAIN loggers : loggers[n].ok => Len(loggers[n].closers) \in Nat
  BY DEF CoreFits, ClosersFit, CloseAll, Alive
<1>4. \A n \in DOMAIN loggers : loggers[n].ok =>
         \A j \in 1 .. Len(loggers[n].closers) : loggers[n].closers[j] \cap open' \subseteq open
  OBVIOUS
<1>5. ASSUME NEW d \in Callers, d # c PROVE CallFits(pc'[d], loggers', open')
  BY <1>1, <1>2, <1>3, <1>4, <1>5, CallStays
<1>6. QED
  BY <1>1, <1>5

LEMMA CloseBeginKeeps ==
  ASSUME CoreFits, NEW c \in Callers, NEW n \in Alive, CloseBegin(c, n)
  PROVE  CoreFits'
<1>1. n \in DOMAIN loggers /\ loggers[n].ok
  BY DEF Alive
<1>2. UNCHANGED <<open, queue, taken, file, reported, refused, returned>>
  BY DEF CloseBegin
<1>3. CASE loggers[n].once = "new"
  <2>1. /\ loggers' = [loggers EXCEPT ![n].once = "running"]
        /\ pc' = [pc EXCEPT ![c] = [op |-> "close", logger |-> n, closer |-> 0]]
    BY <1>3 DEF CloseBegin
  <2>2. /\ LoggersFit' /\ SameLoggers /\ DOMAIN loggers' = DOMAIN loggers
        /\ loggers'[n].once = "running"
        /\ \A m \in DOMAIN loggers : m # n => loggers'[m] = loggers[m]
    BY <1>1, <2>1, OnceMoves DEF CoreFits
  <2>3. SameHandles /\ open' \subseteq open
    BY <1>2 DEF SameHandles
  <2>4. Alive' = Alive /\ Made' = Made /\ ClosersFit' /\ LeftoversFit'
    BY <2>2, <2>3, ClosersStay DEF CoreFits
  <2>5. HandlesFit' /\ QueuesFit' /\ RefusalsAreReported'
    BY <1>2, <2>2 DEF CoreFits, HandlesFit, QueuesFit, RefusalsAreReported, Made
  <2>6. CallFits([op |-> "close", logger |-> n, closer |-> 0], loggers', open')
    <3>1. 0 \in 0 .. Len(loggers'[n].closers)
      BY <1>1, <2>2 DEF CoreFits, ClosersFit, CloseAll, SameLoggers, Alive
    <3>2. ClosedUpTo(0 - 1, loggers'[n].closers, open')
      BY DEF ClosedUpTo
    <3>3. n \in DOMAIN loggers' /\ loggers'[n].ok
      BY <1>1, <2>2 DEF SameLoggers
    <3>4. QED
      BY <2>2, <3>1, <3>2, <3>3 DEF CallFits
  <2>7. \A m \in Alive : loggers[m].once # "new" => loggers'[m].once # "new"
    BY <2>2 DEF Alive
  <2>8. DOMAIN pc' = Callers /\ \A d \in Callers : CallFits(pc'[d], loggers', open')
    BY <2>1, <2>2, <2>3, <2>6, <2>7, CallsMove
  <2>9. \A m \in Alive' : OnceFits(loggers'[m], open')
    <3>1. ASSUME NEW m \in Alive PROVE OnceFits(loggers'[m], open')
      <4>1. m \in DOMAIN loggers /\ OnceFits(loggers[m], open)
        BY DEF CoreFits, ClosesFit, Alive
      <4>2. QED
        BY <1>2, <2>2, <4>1 DEF OnceFits
    <3>2. QED
      BY <2>4, <3>1
  <2>10. \A r \in returned' : r[2] \in Alive' /\ loggers'[r[2]].once = "done"
    BY <1>2, <1>3, <2>2, <2>4 DEF CoreFits, ClosesFit, Alive
  <2>11. QED
    BY <2>2, <2>4, <2>5, <2>8, <2>9, <2>10 DEF CoreFits, ClosesFit
<1>4. CASE loggers[n].once # "new"
  <2>1. pc' = [pc EXCEPT ![c] = [op |-> "wait", logger |-> n]] /\ UNCHANGED loggers
    BY <1>4 DEF CloseBegin
  <2>2. CallFits([op |-> "wait", logger |-> n], loggers', open')
    BY <1>1, <2>1 DEF CallFits
  <2>3. SameLoggers /\ \A m \in Alive : loggers[m].once # "new" => loggers'[m].once # "new"
    BY <2>1 DEF SameLoggers
  <2>4. DOMAIN pc' = Callers /\ \A d \in Callers : CallFits(pc'[d], loggers', open')
    BY <1>2, <2>1, <2>2, <2>3, CallsMove
  <2>5. ClosesFit'
    BY <1>2, <2>1, <2>4 DEF CoreFits, ClosesFit, Alive
  <2>6. QED
    BY <1>2, <2>1, <2>5 DEF CoreFits, LoggersFit, HandlesFit, QueuesFit, ClosersFit, CloseAll,
                            LeftoversFit, RefusalsAreReported, Made, Alive
<1>5. QED
  BY <1>3, <1>4

LEMMA CloseAgainKeeps ==
  ASSUME CoreFits, NEW c \in Callers, CloseAgain(c)
  PROVE  CoreFits'
<1>1. PICK n : n = pc[c].logger
  OBVIOUS
<1>2. /\ pc' = [pc EXCEPT ![c] = Idle] /\ returned' = returned \cup {<<c, n>>}
      /\ pc[c].op = "wait" /\ loggers[n].once = "done"
      /\ UNCHANGED <<loggers, open, queue, taken, file, reported, refused>>
  BY <1>1 DEF CloseAgain, Finished
<1>3. n \in Alive
  BY <1>1, <1>2 DEF CoreFits, ClosesFit, CallFits, Idle, Alive
<1>4. CallFits(Idle, loggers', open')
  BY DEF CallFits
<1>5. SameLoggers /\ \A m \in Alive : loggers[m].once # "new" => loggers'[m].once # "new"
  BY <1>2 DEF SameLoggers
<1>6. DOMAIN pc' = Callers /\ \A d \in Callers : CallFits(pc'[d], loggers', open')
  BY <1>2, <1>4, <1>5, CallsMove
<1>7. ClosesFit'
  BY <1>2, <1>3, <1>6 DEF CoreFits, ClosesFit, Alive
<1>8. QED
  BY <1>2, <1>7 DEF CoreFits, LoggersFit, HandlesFit, QueuesFit, ClosersFit, CloseAll,
                    LeftoversFit, RefusalsAreReported, Made, Alive

(* A closer never closes the writer behind a queue that is open: the        *)
(* queue's closer came no later.                                            *)
LEMMA CloseStepKeeps ==
  ASSUME CoreFits, NEW c \in Callers, CloseStep(c)
  PROVE  CoreFits'
<1>1. PICK n, k : n = pc[c].logger /\ k = pc[c].closer
  OBVIOUS
<1>2. PICK cs : cs = loggers[n].closers
  OBVIOUS
<1>3. PICK closed : closed = IF k = 0 THEN {} ELSE cs[k] \cap open
  OBVIOUS
<1>4. PICK flushed : flushed = IF k = 0 THEN {h \in open \cap DOMAIN queue : h.logger = n}
                                        ELSE closed \cap DOMAIN queue
  OBVIOUS
<1>5. /\ pc[c].op = "close" /\ Drained(flushed) /\ open' = open \ closed
      /\ IF k = Len(cs)
           THEN /\ loggers' = [loggers EXCEPT ![n].once = "done"]
                /\ pc' = [pc EXCEPT ![c] = Idle]
                /\ returned' = returned \cup {<<c, n>>}
           ELSE /\ pc' = [pc EXCEPT ![c].closer = k + 1]
                /\ UNCHANGED <<loggers, returned>>
      /\ UNCHANGED <<taken, reported, refused>>
  BY <1>1, <1>2, <1>3, <1>4 DEF CloseStep, Finished
<1>6. /\ n \in DOMAIN loggers /\ loggers[n].ok /\ n \in Alive
      /\ pc[c] = [op |-> "close", logger |-> n, closer |-> k]
      /\ k \in 0 .. Len(cs) /\ loggers[n].once # "new"
      /\ ClosedUpTo(k - 1, cs, open)
  BY <1>1, <1>2, <1>5 DEF CoreFits, ClosesFit, CallFits, Idle, Alive
<1>7. /\ Len(cs) \in Nat /\ DOMAIN cs = 1 .. Len(cs)
      /\ \A j \in DOMAIN cs : \A h \in cs[j] : h \in Made /\ h.logger = n /\ h.output # 0
      /\ \A aw \in DOMAIN queue : \A q \in DOMAIN cs :
            Inner(aw) \in cs[q] => \E j \in 1 .. q : aw \in cs[j]
  BY <1>2, <1>6 DEF CoreFits, ClosersFit, CloseAll
<1>8. k # 0 => k \in DOMAIN cs /\ k \in 1 .. Len(cs)
  BY <1>6, <1>7
<1>9. \A h \in closed : h \in open /\ h.logger = n /\ h.output # 0
  BY <1>3, <1>7, <1>8
<1>10. ASSUME NEW aw \in DOMAIN queue, aw \in open' PROVE Inner(aw) \in open'
  <2>1. aw \in open /\ aw \notin closed /\ Inner(aw) \in open
    BY <1>5, <1>10 DEF CoreFits, QueuesFit
  <2>2. ASSUME Inner(aw) \in closed PROVE FALSE
    <3>1. k \in 1 .. Len(cs) /\ Inner(aw) \in cs[k]
      BY <1>3, <1>8, <2>2
    <3>2. PICK j \in 1 .. k : aw \in cs[j]
      BY <1>7, <3>1
    <3>3. j = k \/ j \in 1 .. k - 1
      BY <1>7, <3>1
    <3>4. j # k
      BY <1>3, <2>1, <3>1, <3>2
    <3>5. QED
      BY <1>6, <2>1, <3>2, <3>3, <3>4 DEF ClosedUpTo
  <2>3. QED
    BY <1>5, <2>1, <2>2
<1>11. /\ flushed \subseteq DOMAIN queue /\ flushed \subseteq open /\ open' \subseteq open
       /\ \A aw \in DOMAIN queue : aw \in open \ open' => aw \in flushed
  BY <1>3, <1>4, <1>5
<1>12. SameHandles /\ QueuesFit'
  BY <1>5, <1>10, <1>11, DrainKeeps DEF CoreFits, Inner
<1>13. /\ LoggersFit' /\ SameLoggers
       /\ \A m \in DOMAIN loggers : loggers'[m] = loggers[m] \/ (m = n /\ loggers'[n].once = "done")
       /\ k = Len(cs) => loggers'[n].once = "done"
       /\ k # Len(cs) => loggers' = loggers
  <2>1. CASE k = Len(cs)
    BY <1>5, <1>6, <2>1, OnceMoves DEF CoreFits
  <2>2. CASE k # Len(cs)
    BY <1>5, <2>2 DEF CoreFits, LoggersFit, SameLoggers
  <2>3. QED
    BY <2>1, <2>2
<1>14. Alive' = Alive /\ Made' = Made /\ ClosersFit' /\ LeftoversFit'
  BY <1>11, <1>12, <1>13, ClosersStay DEF CoreFits
<1>15. HandlesFit'
  <2>1. DOMAIN loggers' = DOMAIN loggers
    BY <1>13 DEF SameLoggers
  <2>2. \A h \in Made : h.output = 0 => h \in open'
    BY <1>5, <1>9 DEF CoreFits, HandlesFit
  <2>3. QED
    BY <1>5, <1>11, <1>12, <1>14, <2>1, <2>2 DEF CoreFits, HandlesFit, SameHandles
<1>16. ClosedUpTo(k, cs, open')
  <2>1. ASSUME NEW j \in 1 .. k PROVE cs[j] \cap open' = {}
    <3>1. j = k \/ j \in 1 .. k - 1
      BY <1>6, <1>7
    <3>2. CASE j = k
      BY <1>3, <1>5, <1>6, <1>7, <2>1, <3>2
    <3>3. CASE j \in 1 .. k - 1
      BY <1>6, <1>11, <3>3 DEF ClosedUpTo
    <3>4. QED
      BY <3>1, <3>2, <3>3
  <2>2. QED
    BY <2>1 DEF ClosedUpTo
<1>17. DOMAIN pc' = Callers /\ \A d \in Callers : CallFits(pc'[d], loggers', open')
  <2>1. \A m \in Alive : loggers[m].once # "new" => loggers'[m].once # "new"
    BY <1>13 DEF Alive
  <2>2. CASE k = Len(cs)
    <3>1. pc' = [pc EXCEPT ![c] = Idle] /\ CallFits(Idle, loggers', open')
      BY <1>5, <2>2 DEF CallFits
    <3>2. QED
      BY <1>11, <1>13, <2>1, <3>1, CallsMove
  <2>3. CASE k # Len(cs)
    <3>1. pc' = [pc EXCEPT ![c] = [op |-> "close", logger |-> n, closer |-> k + 1]]
      BY <1>5, <1>6, <2>3
    <3>2. k + 1 \in 0 .. Len(cs) /\ (k + 1) - 1 = k
      BY <1>6, <1>7, <2>3
    <3>3. CallFits([op |-> "close", logger |-> n, closer |-> k + 1], loggers', open')
      BY <1>2, <1>6, <1>13, <1>16, <2>3, <3>2 DEF CallFits
    <3>4. QED
      BY <1>11, <1>13, <2>1, <3>1, <3>3, CallsMove
  <2>4. QED
    BY <2>2, <2>3
<1>18. ASSUME NEW m \in Alive PROVE OnceFits(loggers'[m], open')
  <2>1. m \in DOMAIN loggers /\ OnceFits(loggers[m], open) /\ loggers'[m].closers = loggers[m].closers
    BY <1>13 DEF CoreFits, ClosesFit, Alive, SameLoggers
  <2>2. ASSUME loggers'[m].once = "new" PROVE UNION ToSet(loggers'[m].closers) \subseteq open'
    <3>1. m # n /\ loggers[m].once = "new"
      BY <1>6, <1>13, <2>1, <2>2
    <3>2. UNION ToSet(loggers[m].closers) \subseteq open
      BY <2>1, <3>1 DEF OnceFits
    <3>3. \A h \in UNION ToSet(loggers[m].closers) : h.logger = m
      BY DEF CoreFits, ClosersFit, CloseAll, ToSet
    <3>4. QED
      BY <1>5, <1>9, <2>1, <3>1, <3>2, <3>3
  <2>3. ASSUME loggers'[m].once = "done"
        PROVE  ClosedUpTo(Len(loggers'[m].closers), loggers'[m].closers, open')
    <3>1. CASE loggers'[m] = loggers[m]
      BY <1>11, <2>1, <2>3, <3>1 DEF OnceFits, ClosedUpTo
    <3>2. CASE loggers'[m] # loggers[m]
      <4>1. m = n /\ k = Len(cs)
        BY <1>13, <2>1, <3>2
      <4>2. QED
        BY <1>2, <1>16, <2>1, <4>1
    <3>3. QED
      BY <3>1, <3>2
  <2>4. QED
    BY <2>2, <2>3 DEF OnceFits
<1>19. \A r \in returned' : r[2] \in Alive' /\ loggers'[r[2]].once = "done"
  <2>1. ASSUME NEW r \in returned PROVE r[2] \in Alive /\ loggers'[r[2]].once = "done"
    BY <1>13 DEF CoreFits, ClosesFit, Alive
  <2>2. QED
    BY <1>5, <1>6, <1>13, <1>14, <2>1
<1>20. ClosesFit'
  BY <1>14, <1>17, <1>18, <1>19 DEF ClosesFit
<1>21. RefusalsAreReported'
  BY <1>5 DEF CoreFits, RefusalsAreReported
<1>22. QED
  BY <1>12, <1>13, <1>14, <1>15, <1>20, <1>21 DEF CoreFits

-----------------------------------------------------------------------------
(* The invariant, and what it says.                                         *)
LEMMA InitFits == Init => IInv
<1>1. Init => UndosFit
  BY InitUndos DEF Init
<1>2. QED
  BY <1>1, InitCore DEF CoreFits, IInv

LEMMA LocalSteps ==
  ASSUME CoreFits, UndosFit, UNCHANGED gvars, CoreFits'
  PROVE  IInv'
BY UndosStay DEF CoreFits, IInv

LEMMA NextFits == IInv /\ [Next]_vars => IInv'
<1> SUFFICES ASSUME IInv, [Next]_vars PROVE IInv'
  OBVIOUS
<1>1. CoreFits /\ UndosFit
  BY DEF IInv, CoreFits
<1>2. CASE UNCHANGED vars
  BY <1>1, <1>2, CoreStays, LocalSteps DEF vars, lvars, coreVars
<1>3. ASSUME NEW s \in Spellings, RegisterSink(s) PROVE IInv'
  <2>1. UNCHANGED coreVars /\ UNCHANGED gvars
    BY <1>3 DEF RegisterSink, coreVars
  <2>2. QED
    BY <1>1, <2>1, CoreStays, LocalSteps
<1>4. ASSUME NEW cfg \in Configs, NEW bad \in SUBSET Refusable, Build(cfg, bad) PROVE IInv'
  <2>1. UNCHANGED gvars
    BY <1>4 DEF Build
  <2>2. QED
    BY <1>1, <1>4, <2>1, BuildKeeps, LocalSteps
<1>5. ASSUME NEW c \in Callers, NEW n, NEW line \in Lines, StartLog(c, n, line) PROVE IInv'
  <2>1. UNCHANGED gvars
    BY <1>5 DEF StartLog
  <2>2. QED
    BY <1>1, <1>5, <2>1, StartKeeps, LocalSteps
<1>6. ASSUME NEW c \in Callers, WriteOutput(c) \/ CloseStep(c) \/ CloseAgain(c) PROVE IInv'
  <2>1. UNCHANGED gvars
    BY <1>6 DEF WriteOutput, CloseStep, CloseAgain
  <2>2. QED
    BY <1>1, <1>6, <2>1, WriteKeeps, CloseStepKeeps, CloseAgainKeeps, LocalSteps
<1>7. ASSUME NEW aw \in DOMAIN queue, Flush(aw) PROVE IInv'
  <2>1. UNCHANGED gvars
    BY <1>7 DEF Flush
  <2>2. QED
    BY <1>1, <1>7, <2>1, FlushKeeps, LocalSteps
<1>8. ASSUME NEW c \in Callers, NEW n \in Alive, CloseBegin(c, n) PROVE IInv'
  <2>1. UNCHANGED gvars
    BY <1>8 DEF CloseBegin
  <2>2. QED
    BY <1>1, <1>8, <2>1, CloseBeginKeeps, LocalSteps
<1>9. ASSUME UNCHANGED lvars, UndosFit' PROVE IInv'
  BY <1>1, <1>9, CoreStays DEF IInv, CoreFits, lvars, coreVars
<1>10. ASSUME NEW n, ReplaceGlobals(n), UNCHANGED lvars PROVE IInv'
  BY <1>1, <1>9, <1>10, ReplaceKeeps
<1>11. ASSUME NEW n, NEW lvl, RedirectStdLogAt(n, lvl), UNCHANGED lvars PROVE IInv'
  BY <1>1, <1>9, <1>11, RedirectKeeps
<1>12. ASSUME UndoLast, UNCHANGED lvars PROVE IInv'
  BY <1>1, <1>9, <1>12, UndoKeeps
<1>13. QED
  BY <1>2, <1>3, <1>4, <1>5, <1>6, <1>7, <1>8, <1>10, <1>11, <1>12
  DEF Next, Log, LogGlobal, PrintStd

(* Every reachable state satisfies the invariant, for every configuration   *)
(* given to Config.Build (src/config.go), and with any number of callers of *)
(* Logger.Close and of the undo functions of src/global.go.                 *)
THEOREM LifecycleInvariance == Spec => []IInv
BY InitFits, NextFits, PTL DEF Spec

(* A closer that is an element of a live logger's list, and what it owns.   *)
LEMMA OwnedIs == ASSUME NEW n PROVE \A h : h \in Owned(n) <=> In(h, loggers[n].closers)
BY ClosedIs DEF Owned

LEMMA InvAccounts == IInv => HandlesAreAccountedFor
<1> SUFFICES ASSUME IInv PROVE HandlesAreAccountedFor
  OBVIOUS
<1>1. ASSUME NEW h \in open
      PROVE  \/ h.logger \in Alive /\ (h.output = 0 \/ h \in Owned(h.logger))
             \/ h \in LeftBehind
  <2>1. h \in Made /\ h.logger \in DOMAIN loggers
    BY DEF IInv, HandlesFit
  <2>2. CASE h.logger \in Alive
    BY <2>1, <2>2, OwnedIs DEF IInv, ClosersFit, CloseAll, In
  <2>3. CASE h.logger \notin Alive
    <3>1. h.output # 0 /\ Nameless(loggers[h.logger].cfg, h.output)
      BY <2>1, <2>3 DEF IInv, LeftoversFit
    <3>2. ~loggers[h.logger].ok
      BY <2>1, <2>3 DEF Alive
    <3>3. QED
      BY <3>1, <3>2 DEF LeftBehind, Nameless
  <2>4. QED
    BY <2>2, <2>3
<1>2. ASSUME NEW n \in Alive, loggers[n].once = "new" PROVE Owned(n) \subseteq open
  BY <1>2 DEF IInv, ClosesFit, OnceFits, Owned
<1>3. ASSUME NEW n \in Alive, loggers[n].once = "done" PROVE Owned(n) \cap open = {}
  <2>1. DOMAIN loggers[n].closers = 1 .. Len(loggers[n].closers)
    BY DEF IInv, ClosersFit, CloseAll
  <2>2. ClosedUpTo(Len(loggers[n].closers), loggers[n].closers, open)
    BY <1>3 DEF IInv, ClosesFit, OnceFits
  <2>3. QED
    BY <2>1, <2>2, OwnedIs DEF ClosedUpTo, In
<1>4. QED
  BY <1>1, <1>2, <1>3 DEF HandlesAreAccountedFor

LEMMA InvFinal == IInv => CloseIsFinal
<1> SUFFICES ASSUME IInv, NEW r \in returned
             PROVE  /\ Owned(r[2]) \cap open = {}
                    /\ \A aw \in DOMAIN queue : aw.logger = r[2] => file[Inner(aw)] = taken[aw]
  BY DEF CloseIsFinal
<1>1. PICK n \in Alive : n = r[2] /\ loggers[n].once = "done"
  BY DEF IInv, ClosesFit
<1>2. Owned(n) \cap open = {}
  BY <1>1, InvAccounts DEF HandlesAreAccountedFor
<1>3. ASSUME NEW aw \in DOMAIN queue, aw.logger = n PROVE file[Inner(aw)] = taken[aw]
  <2>1. aw \in Made /\ aw.output # 0
    BY DEF IInv, HandlesFit, Made
  <2>2. aw \in Owned(n)
    BY <1>3, <2>1, OwnedIs DEF IInv, ClosersFit, CloseAll, In
  <2>3. queue[aw] = <<>> /\ Inner(aw) \in DOMAIN file /\ file[Inner(aw)] \o queue[aw] = taken[aw]
    BY <1>2, <2>2 DEF IInv, QueuesFit
  <2>4. file[Inner(aw)] \in Seq(Lines)
    BY <2>3 DEF IInv, QueuesFit
  <2>5. file[Inner(aw)] \o <<>> = file[Inner(aw)]
    BY <2>4
  <2>6. QED
    BY <2>3, <2>5
<1>4. QED
  BY <1>1, <1>2, <1>3

(* Whatever Build opens has an owner that will close it, save the error     *)
(* outputs and what a filter without a level leaves behind; and a logger's  *)
(* own handles are all open before its Close and all closed after it        *)
(* (src/config.go:288-299, 331-350, 387-405).                               *)
THEOREM HandlesAreAccountedForCorrect == Spec => []HandlesAreAccountedFor
BY LifecycleInvariance, InvAccounts, PTL

(* No Close returns, not a second one on a clone either, before the logger's *)
(* writers are closed and its files hold, in order, every line its queues    *)
(* accepted (src/logger.go:244-251, src/config.go:464-471).                  *)
THEOREM CloseIsFinalCorrect == Spec => []CloseIsFinal
BY LifecycleInvariance, InvFinal, PTL

(* A line refused by a closed output is on the error output, which Close     *)
(* never closes (src/config.go:293, 348).                                    *)
THEOREM RefusalsAreReportedCorrect == Spec => []RefusalsAreReported
<1>1. IInv => RefusalsAreReported
  BY DEF IInv
<1>2. QED
  BY <1>1, LifecycleInvariance, PTL

(* With every undo function run, the globals and the standard logger are as  *)
(* the process found them, unless a redirect was refused (src/global.go:     *)
(* 58-65, 104-120).                                                          *)
THEOREM UndoneIsAsBeforeCorrect == Spec => []UndoneIsAsBefore
<1>1. IInv => UndoneIsAsBefore
  BY UndoneAtTheEnd DEF IInv
<1>2. QED
  BY <1>1, LifecycleInvariance, PTL
=============================================================================
