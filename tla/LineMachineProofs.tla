------------------------- MODULE LineMachineProofs -------------------------
(***************************************************************************)
(* Runner implements LineMachine, step by step.                            *)
(***************************************************************************)
EXTENDS RunnerReaderProofs

LEMMA FrontLast ==
  ASSUME NEW S, NEW s \in Seq(S), Len(s) # 0
  PROVE  s = Append(Front(s), Last(s)) /\ Front(s) \in Seq(S) /\ Last(s) \in S
<1> DEFINE n == Len(s)
           rest == SubSeq(s, 1, n - 1)
<1>1. n \in Nat \ {0} /\ n - 1 \in Nat /\ \A i \in 1 .. n - 1 : i \in 1 .. n
  OBVIOUS
<1>2. Last(s) = s[n] /\ s[n] \in S /\ Front(s) = rest
  BY <1>1 DEF Last, Front
<1>3. \A i \in 1 .. n - 1 : s[i] \in S
  BY <1>1
<1>4. rest = [i \in 1 .. n - 1 |-> s[i]]
  BY <1>1
<1> HIDE DEF rest, n
<1>5. rest \in Seq(S) /\ Len(rest) = n - 1 /\ \A i \in 1 .. n - 1 : rest[i] = s[i]
  BY <1>1, <1>3, <1>4
<1>6. /\ Append(rest, s[n]) \in Seq(S) /\ Len(Append(rest, s[n])) = n
      /\ Append(rest, s[n])[n] = s[n]
      /\ \A i \in 1 .. n - 1 : Append(rest, s[n])[i] = s[i]
  BY <1>1, <1>2, <1>5
<1>7. \A i \in 1 .. n : i = n \/ i \in 1 .. n - 1
  BY <1>1
<1>8. \A i \in 1 .. n : Append(rest, s[n])[i] = s[i]
  BY <1>6, <1>7
<1>9. Append(rest, s[n]) = s
  BY <1>6, <1>8, SeqEqual DEF n
<1> QED
  BY <1>2, <1>5, <1>9

(* A frame whose closure waits for nobody is seen as it is.                *)
BareType == [prog : DOMAIN Program, entry : Nat, cond : {0, 1}, thrown : BOOLEAN, code : Nat]
Bare(f) ==
  [prog |-> f.cl.prog, entry |-> f.cl.entry, cond |-> f.cl.cond, thrown |-> f.thrown,
   code |-> f.code]
Bares(frames) == [i \in DOMAIN frames |-> Bare(frames[i])]
Names(jobs) == [i \in DOMAIN jobs |-> jobs[i].cl.prog]

LEMMA BareFacts ==
  ASSUME NEW f \in FrameType
  PROVE  Bare(f) \in BareType
<1>1. f.cl \in ClosureType /\ f.thrown \in BOOLEAN /\ f.code \in Nat
  BY DEF FrameType
<1>2. f.cl.prog \in DOMAIN Program /\ f.cl.entry \in Nat /\ f.cl.cond \in {0, 1}
  BY <1>1 DEF ClosureType
<1> QED
  BY <1>1, <1>2 DEF Bare, BareType

LEMMA BareSame ==
  ASSUME NEW b \in BareType, NEW c \in BareType, b.prog = c.prog, b.entry = c.entry,
         b.cond = c.cond, b.thrown = c.thrown, b.code = c.code
  PROVE  b = c
BY DEF BareType

LEMMA BareMoved ==
  ASSUME NEW b \in BareType, NEW c \in BareType, b.prog = c.prog,
         b.thrown = c.thrown, b.code = c.code
  PROVE  [b EXCEPT !.entry = c.entry, !.cond = c.cond] = c
<1> DEFINE d == [b EXCEPT !.entry = c.entry, !.cond = c.cond]
<1>1. /\ d \in BareType /\ d.prog = b.prog /\ d.entry = c.entry /\ d.cond = c.cond
      /\ d.thrown = b.thrown /\ d.code = b.code
  BY DEF BareType
<1> HIDE DEF d
<1> QED
  BY <1>1, BareSame DEF d

LEMMA BareReplaced ==
  ASSUME NEW b \in BareType, NEW c \in BareType, b.prog = c.prog, b.entry = c.entry
  PROVE  [b EXCEPT !.cond = c.cond, !.thrown = c.thrown, !.code = c.code] = c
<1> DEFINE d == [b EXCEPT !.cond = c.cond, !.thrown = c.thrown, !.code = c.code]
<1>1. /\ d \in BareType /\ d.prog = b.prog /\ d.entry = b.entry /\ d.cond = c.cond
      /\ d.thrown = c.thrown /\ d.code = c.code
  BY DEF BareType
<1> HIDE DEF d
<1> QED
  BY <1>1, BareSame DEF d

LEMMA BaresFacts ==
  ASSUME NEW frames \in Seq(FrameType)
  PROVE  /\ Bares(frames) \in Seq(BareType) /\ Len(Bares(frames)) = Len(frames)
         /\ \A i \in 1 .. Len(frames) : Bares(frames)[i] = Bare(frames[i])
<1>1. /\ Len(frames) \in Nat /\ DOMAIN frames = 1 .. Len(frames)
      /\ \A i \in 1 .. Len(frames) : frames[i] \in FrameType
  OBVIOUS
<1>2. \A i \in 1 .. Len(frames) : Bare(frames[i]) \in BareType
  BY <1>1, BareFacts
<1>3. Bares(frames) = [i \in 1 .. Len(frames) |-> Bare(frames[i])]
  BY <1>1 DEF Bares
<1> HIDE DEF BareType
<1> QED
  BY <1>1, <1>2, <1>3

LEMMA BaresTop ==
  ASSUME NEW frames \in Seq(FrameType), frames # << >>
  PROVE  /\ Last(Bares(frames)) = Bare(frames[Len(frames)])
         /\ Front(Bares(frames)) = Bares(SubSeq(frames, 1, Len(frames) - 1))
         /\ Front(Bares(frames)) \in Seq(BareType)
<1> DEFINE n == Len(frames)
           b == Bares(frames)
           rest == SubSeq(frames, 1, n - 1)
<1>1. n \in Nat \ {0} /\ n - 1 \in Nat /\ n \in 1 .. n
  OBVIOUS
<1>2. /\ b \in Seq(BareType) /\ Len(b) = n
      /\ \A i \in 1 .. n : b[i] = Bare(frames[i])
  BY BaresFacts
<1> HIDE DEF b
<1>3. Last(b) = Bare(frames[n])
  BY <1>1, <1>2 DEF Last
<1>4. \A i \in 1 .. n - 1 : i \in 1 .. n
  BY <1>1
<1>5. /\ rest \in Seq(FrameType) /\ Len(rest) = n - 1
      /\ \A i \in 1 .. n - 1 : rest[i] = frames[i]
  <2>1. \A i \in 1 .. n - 1 : frames[i] \in FrameType
    BY <1>1, <1>4
  <2>2. rest = [i \in 1 .. n - 1 |-> frames[i]]
    BY <1>1
  <2> HIDE DEF rest, n
  <2> QED
    BY <1>1, <2>1, <2>2
<1> HIDE DEF rest
<1>6. /\ Bares(rest) \in Seq(BareType) /\ Len(Bares(rest)) = n - 1
      /\ \A i \in 1 .. n - 1 : Bares(rest)[i] = Bare(rest[i])
  BY <1>5, BaresFacts
<1>7. Front(b) = SubSeq(b, 1, n - 1)
  BY <1>2 DEF Front
<1> HIDE DEF n, BareType
<1>8. /\ SubSeq(b, 1, n - 1) \in Seq(BareType) /\ Len(SubSeq(b, 1, n - 1)) = n - 1
      /\ \A i \in 1 .. n - 1 : SubSeq(b, 1, n - 1)[i] = b[i]
  BY <1>1, <1>2, <1>4
<1>9. \A i \in 1 .. n - 1 : SubSeq(b, 1, n - 1)[i] = Bares(rest)[i]
  BY <1>2, <1>4, <1>5, <1>6, <1>8
<1>10. SubSeq(b, 1, n - 1) = Bares(rest)
  BY <1>6, <1>8, <1>9, SeqEqual
<1> QED
  BY <1>3, <1>7, <1>8, <1>10 DEF n, b, rest

LEMMA BaresAppend ==
  ASSUME NEW frames \in Seq(FrameType), NEW f \in FrameType
  PROVE  Bares(Append(frames, f)) = Append(Bares(frames), Bare(f))
<1> DEFINE n == Len(frames)
           more == Append(frames, f)
           b == Bares(frames)
           c == Bares(more)
<1>1. /\ more \in Seq(FrameType) /\ Len(more) = n + 1 /\ n \in Nat /\ more[n + 1] = f
      /\ \A i \in 1 .. n : more[i] = frames[i]
  OBVIOUS
<1> HIDE DEF more
<1>2. /\ c \in Seq(BareType) /\ Len(c) = n + 1
      /\ \A i \in 1 .. n + 1 : c[i] = Bare(more[i])
  BY <1>1, BaresFacts
<1>3. /\ b \in Seq(BareType) /\ Len(b) = n /\ \A i \in 1 .. n : b[i] = Bare(frames[i])
  BY BaresFacts
<1>4. Bare(f) \in BareType
  BY BareFacts
<1> HIDE DEF BareType, b, c, n
<1>5. /\ Append(b, Bare(f)) \in Seq(BareType) /\ Len(Append(b, Bare(f))) = n + 1
      /\ Append(b, Bare(f))[n + 1] = Bare(f)
      /\ \A i \in 1 .. n : Append(b, Bare(f))[i] = b[i]
  BY <1>1, <1>3, <1>4
<1>6. \A i \in 1 .. n + 1 : c[i] = Append(b, Bare(f))[i]
  <2>1. \A i \in 1 .. n + 1 : i = n + 1 \/ i \in 1 .. n
    BY <1>1
  <2>2. n + 1 \in 1 .. n + 1 /\ \A i \in 1 .. n : i \in 1 .. n + 1
    BY <1>1
  <2> QED
    BY <1>1, <1>2, <1>3, <1>5, <2>1, <2>2
<1> QED
  BY <1>2, <1>5, <1>6, SeqEqual DEF b, c, more

LEMMA BaresEnds ==
  ASSUME NEW f
  PROVE  Bares(<< >>) = << >> /\ Bares(<< f >>) = << Bare(f) >>
BY DEF Bares

-----------------------------------------------------------------------------
(* How Main is seen, in one table and in the next.                         *)

FoldedIn(table, cl) ==
  IF cl.cond = 1 \/ \E c \in Range(cl.waitq) : table[c].status # 0 THEN 1 ELSE 0
ShownIn(table, f) ==
  [prog |-> f.cl.prog, entry |-> f.cl.entry, cond |-> FoldedIn(table, f.cl),
   thrown |-> f.thrown, code |-> f.code]
StackIn(table) == [i \in DOMAIN table[Main].frames |-> ShownIn(table, table[Main].frames[i])]
ModeOf(m) == IF m.state \in {"ending", "zombie"} THEN "over" ELSE m.state
CodeOf(m) == IF ModeOf(m) = "over" THEN m.status ELSE m.code
Settled(m) == \A i \in DOMAIN m.frames : m.frames[i].cl.waitq = << >>

LEMMA SeenNow ==
  /\ MainStack = StackIn(procs) /\ MainMode = ModeOf(procs[Main])
  /\ MainCode = CodeOf(procs[Main]) /\ MainJobs = Names(procs[Main].jobs)
  /\ MainScripts = procs[Main].scripts
BY DEF MainStack, StackIn, Shown, ShownIn, Folded, FoldedIn, MainMode, ModeOf, MainCode, CodeOf,
       MainJobs, Names, MainScripts, Proc

LEMMA SeenNext ==
  /\ MainStack' = StackIn(procs') /\ MainMode' = ModeOf(procs'[Main])
  /\ MainCode' = CodeOf(procs'[Main]) /\ MainJobs' = Names(procs'[Main].jobs)
  /\ MainScripts' = procs'[Main].scripts
BY DEF MainStack, StackIn, Shown, ShownIn, Folded, FoldedIn, MainMode, ModeOf, MainCode, CodeOf,
       MainJobs, Names, MainScripts, Proc

LEMMA SettledSeen ==
  ASSUME NEW table, NEW m, m = table[Main], GoodProcess(m), Settled(m)
  PROVE  StackIn(table) = Bares(m.frames)
<1>1. m.frames \in Seq(FrameType)
  BY DEF GoodProcess, ProcessType
<1>2. ASSUME NEW i \in DOMAIN m.frames
      PROVE  ShownIn(table, m.frames[i]) = Bare(m.frames[i])
  <2> DEFINE cl == m.frames[i].cl
  <2>1. cl.waitq = << >>
    BY DEF Settled
  <2>2. cl.cond \in {0, 1}
    <3>1. cl \in ClosureType
      BY DEF GoodProcess, FramesOK, GoodClosure
    <3> QED
      BY <3>1 DEF ClosureType
  <2>3. Range(cl.waitq) = {}
    BY <2>1 DEF Range
  <2> HIDE DEF cl
  <2>4. FoldedIn(table, cl) = cl.cond
    BY <2>2, <2>3 DEF FoldedIn
  <2> QED
    BY <2>4 DEF ShownIn, Bare, cl
<1> QED
  BY <1>2 DEF StackIn, Bares

(* What a step makes of Main.                                              *)
Becomes(k) == Main \in DOMAIN procs' /\ procs'[Main] = k

LEMMA UpdateBecomes ==
  ASSUME TableOK, Main \in DOMAIN procs, NEW k, Update(Main, k)
  PROVE  Becomes(k)
BY DEF Becomes, Update, TableOK

(* Main as the machine before the step and after it.                       *)
LEMMA SettledNow ==
  ASSUME TableOK, Main \in DOMAIN procs, Settled(procs[Main])
  PROVE  MainStack = Bares(procs[Main].frames)
<1>1. GoodProcess(procs[Main])
  BY ProcessFacts
<1> QED
  BY <1>1, SeenNow, SettledSeen

LEMMA SettledNext ==
  ASSUME NEW k, Becomes(k), GoodProcess(k), Settled(k)
  PROVE  /\ MainStack' = Bares(k.frames) /\ MainMode' = ModeOf(k) /\ MainCode' = CodeOf(k)
         /\ MainJobs' = Names(k.jobs) /\ MainScripts' = k.scripts
<1>1. procs'[Main] = k
  BY DEF Becomes
<1> QED
  BY <1>1, SeenNext, SettledSeen

(* Whoever runs and waits for nobody is settled, whatever replaces its     *)
(* innermost frame.                                                        *)
LEMMA RunsSettled ==
  ASSUME NEW m, GoodProcess(m), m.state = "run", Closure(m).waitq = << >>
  PROVE  Settled(m)
<1>1. /\ DOMAIN m.frames = 1 .. Len(m.frames) /\ Len(m.frames) \in Nat \ {0}
      /\ Closure(m) = m.frames[Len(m.frames)].cl
  BY TopFacts DEF Top
<1>2. \A i \in 1 .. Len(m.frames) - 1 : m.frames[i].cl.waitq = << >>
  BY DEF GoodProcess, FramesOK
<1>3. \A i \in 1 .. Len(m.frames) : i = Len(m.frames) \/ i \in 1 .. Len(m.frames) - 1
  BY <1>1
<1> QED
  BY <1>1, <1>2, <1>3 DEF Settled

LEMMA IdleSettled ==
  ASSUME NEW m, m.frames = << >>
  PROVE  Settled(m) /\ Bares(m.frames) = << >>
<1>1. DOMAIN m.frames = {}
  OBVIOUS
<1> QED
  BY <1>1, BaresEnds DEF Settled

LEMMA SetTopSeen ==
  ASSUME NEW m, GoodProcess(m), m.state = "run",
         NEW f \in FrameType, GoodClosure(f.cl), f.cl.waitq = << >>
  PROVE  /\ Settled(SetTop(m, f))
         /\ Bares(SetTop(m, f).frames) = Append(Front(Bares(m.frames)), Bare(f))
<1> DEFINE k == SetTop(m, f)
           n == Len(m.frames)
           rest == SubSeq(m.frames, 1, n - 1)
<1>1. /\ m.frames \in Seq(FrameType) /\ n \in Nat \ {0} /\ m.frames # << >>
  BY TopFacts
<1>2. /\ GoodProcess(k) /\ SameButFrames(m, k) /\ Top(k) = f /\ Len(k.frames) = n
      /\ \A i \in 1 .. n - 1 : k.frames[i] = m.frames[i]
  BY SetTopGood
<1> HIDE DEF k
<1>3. k.frames \in Seq(FrameType) /\ k.frames[n] = f /\ k.frames # << >>
  BY <1>1, <1>2 DEF GoodProcess, ProcessType, Top
<1>4. SubSeq(k.frames, 1, n - 1) = SubSeq(m.frames, 1, n - 1)
  <2>1. n - 1 \in Nat /\ \A i \in 1 .. n - 1 : i \in 1 .. n
    BY <1>1
  <2>2. /\ SubSeq(k.frames, 1, n - 1) = [i \in 1 .. n - 1 |-> k.frames[i]]
        /\ SubSeq(m.frames, 1, n - 1) = [i \in 1 .. n - 1 |-> m.frames[i]]
    <3> HIDE DEF n
    <3> QED
      BY <1>1, <1>3, <2>1
  <2> HIDE DEF n
  <2> QED
    BY <1>2, <2>2
<1>5. Front(Bares(k.frames)) = Front(Bares(m.frames)) /\ Last(Bares(k.frames)) = Bare(f)
  <2>1. /\ Front(Bares(k.frames)) = Bares(SubSeq(k.frames, 1, n - 1))
        /\ Last(Bares(k.frames)) = Bare(f)
    BY <1>2, <1>3, BaresTop
  <2>2. Front(Bares(m.frames)) = Bares(SubSeq(m.frames, 1, n - 1))
    BY <1>1, BaresTop
  <2> QED
    BY <1>4, <2>1, <2>2
<1>6. Bares(k.frames) = Append(Front(Bares(k.frames)), Last(Bares(k.frames)))
  <2>1. /\ Bares(k.frames) \in Seq(BareType) /\ Len(Bares(k.frames)) = n
    BY <1>2, <1>3, BaresFacts
  <2> HIDE DEF BareType, n
  <2> QED
    BY <1>1, <2>1, FrontLast
<1>7. k.state = "run" /\ Closure(k) = f.cl
  BY <1>2 DEF SameButFrames, Closure
<1>8. Settled(k)
  BY <1>2, <1>7, RunsSettled
<1> QED
  BY <1>5, <1>6, <1>8 DEF k

(* To set the closure is to set the frame.                                 *)
LEMMA ClosureIsTop ==
  ASSUME NEW m, GoodProcess(m), m.state = "run", NEW cl
  PROVE  /\ SetClosure(m, cl) = SetTop(m, [Top(m) EXCEPT !.cl = cl])
         /\ \A old : SetClosure(SetClosure(m, old), cl) = SetClosure(m, cl)
<1> DEFINE n == Len(m.frames)
<1>1. m \in ProcessType /\ m.frames \in Seq(FrameType) /\ n \in DOMAIN m.frames
  BY TopFacts
<1>2. SetClosure(m, cl) = SetTop(m, [Top(m) EXCEPT !.cl = cl])
  BY <1>1 DEF SetClosure, SetTop, Top, ProcessType
<1>3. ASSUME NEW old
      PROVE  SetClosure(SetClosure(m, old), cl) = SetClosure(m, cl)
  <2> DEFINE before == [m.frames EXCEPT ![n].cl = old]
             after == [m.frames EXCEPT ![n].cl = cl]
             j == [m EXCEPT !.frames = before]
             k == [m EXCEPT !.frames = after]
  <2>1. SetClosure(m, old) = j /\ SetClosure(m, cl) = k
    BY <1>1 DEF SetClosure, ProcessType
  <2>2. Len(before) = n /\ [before EXCEPT ![n].cl = cl] = after
    <3>1. DOMAIN before = 1 .. n /\ n \in Nat
      BY <1>1
    <3>2. Len(before) = n
      BY <1>1, <3>1
    <3> QED
      BY <1>1, <3>2 DEF FrameType
  <2> HIDE DEF before, after
  <2>3. j.frames = before
    BY <1>1 DEF ProcessType
  <2>4. SetClosure(j, cl) = k
    BY <1>1, <2>2, <2>3 DEF SetClosure, ProcessType
  <2> QED
    BY <2>1, <2>4
<1> QED
  BY <1>2, <1>3

(* A running process is seen as if it had waited for everybody.            *)
Awaited(table, cl) == [cl EXCEPT !.waitq = << >>, !.cond = FoldedIn(table, cl)]

LEMMA AwaitedFacts ==
  ASSUME NEW table, NEW cl, GoodClosure(cl)
  PROVE  LET left == Awaited(table, cl) IN
         /\ GoodClosure(left) /\ left.waitq = << >> /\ left.prog = cl.prog
         /\ left.entry = cl.entry /\ left.cond = FoldedIn(table, cl)
<1> DEFINE cond == FoldedIn(table, cl)
<1>1. cond \in {0, 1}
  BY DEF FoldedIn
<1>2. << >> \in Seq(Pids)
  OBVIOUS
<1> HIDE DEF cond
<1>3. LET left == [cl EXCEPT !.waitq = << >>, !.cond = cond] IN
      /\ GoodClosure(left) /\ left.waitq = << >> /\ left.prog = cl.prog
      /\ left.entry = cl.entry /\ left.cond = cond
  BY <1>1, <1>2 DEF GoodClosure, ClosureType
<1> QED
  BY <1>3 DEF Awaited, cond

LEMMA FoldedSeen ==
  ASSUME NEW table, NEW m, m = table[Main], GoodProcess(m), m.state = "run"
  PROVE  StackIn(table) = Bares(SetClosure(m, Awaited(table, Closure(m))).frames)
<1> DEFINE n == Len(m.frames)
           cl == Awaited(table, Closure(m))
           f == [Top(m) EXCEPT !.cl = cl]
           k == SetTop(m, f)
<1>1. /\ m.frames \in Seq(FrameType) /\ n \in Nat \ {0} /\ DOMAIN m.frames = 1 .. n
      /\ Top(m) = m.frames[n] /\ Top(m) \in FrameType /\ Closure(m) = Top(m).cl
      /\ GoodClosure(Closure(m))
  BY TopFacts
<1>2. /\ GoodClosure(cl) /\ cl.prog = Closure(m).prog
      /\ cl.entry = Closure(m).entry /\ cl.cond = FoldedIn(table, Closure(m))
  BY <1>1, AwaitedFacts
<1> HIDE DEF cl
<1>3. f \in FrameType /\ f.cl = cl /\ f.thrown = Top(m).thrown /\ f.code = Top(m).code
  BY <1>1, <1>2 DEF FrameType, GoodClosure
<1> HIDE DEF f
<1>4. /\ GoodProcess(k) /\ Top(k) = f /\ Len(k.frames) = n
      /\ \A i \in 1 .. n - 1 : k.frames[i] = m.frames[i]
  BY <1>2, <1>3, SetTopGood
<1> HIDE DEF k
<1>5. DOMAIN k.frames = 1 .. n /\ k.frames[n] = f
  BY <1>1, <1>4 DEF GoodProcess, ProcessType, Top
<1>6. ASSUME NEW i \in 1 .. n
      PROVE  ShownIn(table, m.frames[i]) = Bare(k.frames[i])
  <2>1. CASE i = n
    BY <1>1, <1>2, <1>3, <1>5, <2>1 DEF ShownIn, Bare
  <2>2. CASE i # n
    <3> DEFINE old == m.frames[i].cl
    <3>1. i \in 1 .. n - 1
      BY <1>1, <2>2
    <3>2. old.waitq = << >> /\ GoodClosure(old)
      BY <1>1, <3>1 DEF GoodProcess, FramesOK
    <3>3. old.cond \in {0, 1} /\ Range(old.waitq) = {}
      BY <3>2 DEF GoodClosure, ClosureType, Range
    <3> HIDE DEF old
    <3>4. FoldedIn(table, old) = old.cond
      BY <3>3 DEF FoldedIn
    <3> QED
      BY <1>4, <3>1, <3>4 DEF ShownIn, Bare, old
  <2> QED
    BY <2>1, <2>2
<1>7. StackIn(table) = Bares(k.frames)
  BY <1>1, <1>5, <1>6 DEF StackIn, Bares
<1> QED
  BY <1>7, ClosureIsTop DEF k, f, cl

-----------------------------------------------------------------------------
(* What the machine's operators are where Main enters its closure.         *)

LEMMA SameHelpers ==
  \A s : Machine!Last(s) = Last(s) /\ Machine!Front(s) = Front(s)
BY DEF Machine!Last, Last, Machine!Front, Front

LEMMA RunningSeen ==
  ASSUME TableOK, Main \in DOMAIN procs, NEW m, m = procs[Main], m.state = "run",
         Closure(m).waitq = << >>
  PROVE  /\ GoodProcess(m) /\ Settled(m) /\ MainStack = Bares(m.frames) /\ MainMode = "run"
         /\ Machine!Top = Bare(Top(m)) /\ Machine!Code = Entries(m)
         /\ Bare(Top(m)).entry = Closure(m).entry /\ Bare(Top(m)).cond = Closure(m).cond
         /\ Bare(Top(m)).thrown = Top(m).thrown /\ Bare(Top(m)).prog = Closure(m).prog
<1>1. GoodProcess(m)
  BY ProcessFacts
<1>2. /\ m.frames \in Seq(FrameType) /\ m.frames # << >> /\ Closure(m) = Top(m).cl
      /\ Top(m) = m.frames[Len(m.frames)] /\ GoodClosure(Closure(m))
  BY <1>1, TopFacts
<1>3. Settled(m) /\ MainStack = Bares(m.frames)
  BY <1>1, RunsSettled, SettledNow
<1>4. MainMode = "run"
  BY SeenNow DEF ModeOf
<1>5. Machine!Top = Bare(Top(m))
  BY <1>2, <1>3, BaresTop, SameHelpers DEF Machine!Top
<1>6. /\ Bare(Top(m)).entry = Closure(m).entry /\ Bare(Top(m)).cond = Closure(m).cond
      /\ Bare(Top(m)).thrown = Top(m).thrown /\ Bare(Top(m)).prog = Closure(m).prog
  BY <1>2 DEF Bare
<1>7. Machine!Code = Entries(m)
  BY <1>2, <1>5, <1>6 DEF Machine!Code, Entries, GoodClosure
<1> QED
  BY <1>1, <1>3, <1>4, <1>5, <1>6, <1>7

LEMMA EntersSeen ==
  ASSUME TableOK, NEW op, Enters(Main, op)
  PROVE  Machine!Enters(op) /\ Machine!Entry = Entry(procs[Main])
<1> DEFINE m == procs[Main]
<1>1. /\ Main \in DOMAIN procs /\ m.state = "run" /\ Closure(m).waitq = << >>
      /\ Entry(m).op = op
  BY EnterFacts
<1>2. Closure(m).entry \in DOMAIN Entries(m)
  BY DEF Enters, Proc
<1> HIDE DEF m
<1>3. /\ MainMode = "run" /\ Machine!Top = Bare(Top(m)) /\ Machine!Code = Entries(m)
      /\ Bare(Top(m)).entry = Closure(m).entry
  BY <1>1, RunningSeen DEF m
<1>4. Machine!Entry = Entry(m)
  BY <1>3 DEF Machine!Entry, Entry
<1> QED
  BY <1>1, <1>2, <1>3, <1>4 DEF Machine!Enters, m

(* A step that leaves the jobs and the session alone.                      *)
LEMMA ClosureSeen ==
  ASSUME TableOK, Main \in DOMAIN procs, NEW m, m = procs[Main], m.state = "run",
         Closure(m).waitq = << >>,
         NEW cl, GoodClosure(cl), cl.waitq = << >>, cl.prog = Closure(m).prog
  PROVE  /\ GoodProcess(SetClosure(m, cl)) /\ Settled(SetClosure(m, cl))
         /\ SameButFrames(m, SetClosure(m, cl))
         /\ Bares(SetClosure(m, cl).frames) = Machine!At(cl.entry, cl.cond)
<1> DEFINE f == [Top(m) EXCEPT !.cl = cl]
<1>1. /\ GoodProcess(m) /\ MainStack = Bares(m.frames) /\ Machine!Top = Bare(Top(m))
  BY RunningSeen
<1>2. /\ Top(m) \in FrameType /\ Closure(m) = Top(m).cl
  BY <1>1, TopFacts
<1>3. f \in FrameType /\ f.cl = cl /\ f.thrown = Top(m).thrown /\ f.code = Top(m).code
  BY <1>2 DEF FrameType, GoodClosure
<1>4. SetClosure(m, cl) = SetTop(m, f)
  BY <1>1, ClosureIsTop
<1> HIDE DEF f
<1>5. Bare(f) = [Bare(Top(m)) EXCEPT !.entry = cl.entry, !.cond = cl.cond]
  <2> DEFINE b == Bare(Top(m))
             c == Bare(f)
  <2>1. b \in BareType /\ c \in BareType
    BY <1>2, <1>3, BareFacts
  <2>2. /\ b.prog = c.prog /\ c.entry = cl.entry /\ c.cond = cl.cond
        /\ b.thrown = c.thrown /\ b.code = c.code
    BY <1>2, <1>3 DEF Bare
  <2> HIDE DEF b, c
  <2>3. [b EXCEPT !.entry = c.entry, !.cond = c.cond] = c
    BY <2>1, <2>2, BareMoved
  <2>4. [b EXCEPT !.entry = cl.entry, !.cond = cl.cond] = c
    BY <2>2, <2>3
  <2> QED
    BY <2>4 DEF b, c
<1>6. /\ Settled(SetTop(m, f)) /\ GoodProcess(SetTop(m, f)) /\ SameButFrames(m, SetTop(m, f))
      /\ Bares(SetTop(m, f).frames) = Append(Front(Bares(m.frames)), Bare(f))
  BY <1>1, <1>3, SetTopSeen, SetTopGood
<1>7. Machine!At(cl.entry, cl.cond) = Append(Front(Bares(m.frames)), Bare(f))
  BY <1>1, <1>5, SameHelpers DEF Machine!At, Machine!WithTop
<1> QED
  BY <1>4, <1>6, <1>7

LEMMA BranchSeen ==
  ASSUME TableOK, Main \in DOMAIN procs, NEW m, m = procs[Main], m.state = "run",
         Closure(m).waitq = << >>, NEW tag \in Nat
  PROVE  /\ GoodProcess(Branch(m, tag)) /\ Settled(Branch(m, tag))
         /\ SameButFrames(m, Branch(m, tag))
         /\ Bares(Branch(m, tag).frames) = Machine!At(tag, 0)
<1> DEFINE cl == [Closure(m) EXCEPT !.entry = tag, !.cond = 0]
<1>1. GoodClosure(Closure(m))
  BY RunningSeen, TopFacts
<1>2. /\ GoodClosure(cl) /\ cl.waitq = << >> /\ cl.prog = Closure(m).prog
      /\ cl.entry = tag /\ cl.cond = 0
  BY <1>1 DEF GoodClosure, ClosureType
<1>3. Branch(m, tag) = SetClosure(m, cl)
  BY DEF Branch
<1> HIDE DEF cl
<1>4. /\ GoodProcess(SetClosure(m, cl)) /\ Settled(SetClosure(m, cl))
      /\ SameButFrames(m, SetClosure(m, cl))
      /\ Bares(SetClosure(m, cl).frames) = Machine!At(cl.entry, cl.cond)
  BY <1>2, ClosureSeen
<1> QED
  BY <1>2, <1>3, <1>4

LEMMA MovesSeen ==
  ASSUME TableOK, Main \in DOMAIN procs, NEW m, m = procs[Main], m.state = "run",
         Closure(m).waitq = << >>, NEW tag \in Nat,
         Update(Main, Branch(m, tag)), UNCHANGED <<setting, will>>
  PROVE  Machine!Moves(tag, 0)
<1> DEFINE k == Branch(m, tag)
<1>1. /\ GoodProcess(k) /\ Settled(k) /\ SameButFrames(m, k)
      /\ Bares(k.frames) = Machine!At(tag, 0)
  BY BranchSeen
<1>2. Update(Main, k)
  OBVIOUS
<1> HIDE DEF k
<1>3. /\ MainStack' = Machine!At(tag, 0) /\ MainMode' = ModeOf(k) /\ MainCode' = CodeOf(k)
      /\ MainJobs' = Names(k.jobs) /\ MainScripts' = k.scripts
  BY <1>1, <1>2, SettledNext, UpdateBecomes
<1>4. /\ ModeOf(k) = ModeOf(m) /\ CodeOf(k) = CodeOf(m) /\ Names(k.jobs) = Names(m.jobs)
      /\ k.scripts = m.scripts
  BY <1>1 DEF SameButFrames, ModeOf, CodeOf
<1> QED
  BY <1>3, <1>4, SeenNow DEF Machine!Moves

LEMMA QuitSeen ==
  ASSUME TableOK, Main \in DOMAIN procs, NEW status \in Nat,
         Becomes(Leave(procs[Main], status)), UNCHANGED <<setting, will>>
  PROVE  Machine!Quit(status % 256)
<1> DEFINE m == procs[Main]
           byte == status % 256
           k == Leave(m, status)
<1>1. GoodProcess(m) /\ m \in ProcessType
  BY ProcessFacts
<1>2. GoodProcess(k)
  BY <1>1, LeaveGood
<1>3. k = [m EXCEPT !.state = "ending", !.status = byte, !.frames = << >>, !.jobs = << >>]
  BY DEF Leave
<1>4. Becomes(k)
  OBVIOUS
<1> HIDE DEF k, byte
<1>5. /\ k.state = "ending" /\ k.status = byte /\ k.frames = << >> /\ k.jobs = << >>
      /\ k.scripts = m.scripts
  BY <1>1, <1>3 DEF ProcessType
<1>6. Settled(k) /\ Bares(k.frames) = << >>
  BY <1>5, IdleSettled
<1>7. ModeOf(k) = "over" /\ CodeOf(k) = byte
  BY <1>5 DEF ModeOf, CodeOf
<1>8. Names(k.jobs) = << >>
  BY <1>5 DEF Names
<1>9. /\ MainStack' = << >> /\ MainMode' = "over" /\ MainCode' = byte
      /\ MainJobs' = << >> /\ MainScripts' = MainScripts
  BY <1>2, <1>4, <1>5, <1>6, <1>7, <1>8, SettledNext, SeenNow
<1> QED
  BY <1>9 DEF Machine!Quit, byte

-----------------------------------------------------------------------------
(* The end of a run: Main's frame, its flag and code set, returns.         *)

LEMMA EndsSeen ==
  ASSUME TableOK, Main \in DOMAIN procs, NEW m, m = procs[Main], m.state = "run",
         Closure(m).waitq = << >>,
         NEW f \in FrameType, f.cl = Closure(m),
         Update(Main, Return(SetTop(m, f))), UNCHANGED <<setting, will>>
  PROVE  Machine!Ends(f.code, f.thrown)
<1> DEFINE n == Len(m.frames)
           j == SetTop(m, f)
           k == Return(j)
<1>1. /\ GoodProcess(m) /\ MainStack = Bares(m.frames) /\ MainMode = "run"
  BY RunningSeen
<1>2. /\ m.frames \in Seq(FrameType) /\ n \in Nat \ {0} /\ m.frames # << >>
      /\ GoodClosure(Closure(m))
  BY <1>1, TopFacts
<1>3. /\ GoodProcess(j) /\ SameButFrames(m, j) /\ Top(j) = f /\ Len(j.frames) = n
      /\ \A i \in 1 .. n - 1 : j.frames[i] = m.frames[i]
  BY <1>1, <1>2, SetTopGood
<1>4. j.state = "run" /\ GoodProcess(k)
  BY <1>3, ReturnGood DEF SameButFrames
<1>5. /\ MainMode' = ModeOf(k) /\ MainCode' = CodeOf(k) /\ MainJobs' = Names(k.jobs)
      /\ MainScripts' = k.scripts /\ MainStack' = StackIn(procs')
      /\ Settled(k) => MainStack' = Bares(k.frames)
  <2>1. procs'[Main] = k
    BY DEF Update, TableOK
  <2> HIDE DEF k
  <2> QED
    BY <1>4, <2>1, SeenNext, SettledSeen
<1>6. /\ ModeOf(m) = "run" /\ MainCode = m.code /\ MainJobs = Names(m.jobs)
      /\ MainScripts = m.scripts /\ Len(MainStack) = n
  <2>1. Len(Bares(m.frames)) = n
    BY <1>2, BaresFacts
  <2>2. ModeOf(m) = "run"
    BY DEF ModeOf
  <2>3. CodeOf(m) = m.code
    BY <2>2 DEF CodeOf
  <2> HIDE DEF n
  <2> QED
    BY <1>1, <2>1, <2>2, <2>3, SeenNow
<1>7. CASE n = 1 /\ f.thrown
  <2>1. k = Leave(j, f.code) /\ f.code \in Nat
    BY <1>3, <1>7 DEF Return, FrameType
  <2>2. Leave(j, f.code) = Leave(m, f.code)
    <3>1. j = [m EXCEPT !.frames[n] = f]
      BY DEF SetTop
    <3>2. m \in ProcessType /\ j \in ProcessType
      BY <1>1, <1>3 DEF GoodProcess
    <3> DEFINE byte == f.code % 256
               a == [j EXCEPT !.state = "ending", !.status = byte, !.frames = << >>, !.jobs = << >>]
               b == [m EXCEPT !.state = "ending", !.status = byte, !.frames = << >>, !.jobs = << >>]
    <3> HIDE DEF byte
    <3>3. a = b
      <4> HIDE DEF j
      <4> QED
        BY <1>3, <3>2 DEF ProcessType, SameButFrames
    <3> QED
      BY <3>3 DEF Leave, byte
  <2>3. Machine!Quit(f.code % 256)
    BY <2>1, <2>2, QuitSeen, UpdateBecomes
  <2> QED
    BY <1>6, <1>7, <2>3 DEF Machine!Ends
<1>8. CASE n = 1 /\ ~f.thrown
  <2>1. k = [j EXCEPT !.frames = << >>, !.code = f.code, !.state = "prompt"]
    BY <1>3, <1>8 DEF Return
  <2>2. j \in ProcessType /\ f.code \in Nat
    BY <1>3 DEF GoodProcess, FrameType
  <2> HIDE DEF k, j
  <2>3. /\ k.frames = << >> /\ k.code = f.code /\ k.state = "prompt" /\ k.jobs = m.jobs
        /\ k.scripts = m.scripts
    BY <1>3, <2>1, <2>2 DEF ProcessType, SameButFrames
  <2>4. MainStack' = << >>
    BY <1>5, <2>3, IdleSettled
  <2>5. ModeOf(k) = "prompt" /\ CodeOf(k) = f.code
    BY <2>3 DEF ModeOf, CodeOf
  <2> QED
    BY <1>5, <1>6, <1>8, <2>3, <2>4, <2>5 DEF Machine!Ends
<1>9. CASE n # 1
  <2> DEFINE outer == m.frames[n - 1]
             inner == Outer(j)
             cl == [outer.cl EXCEPT !.cond = IF f.code # 0 THEN 1 ELSE @]
             next == [cl |-> cl, thrown |-> f.thrown,
                      code |-> IF f.thrown THEN f.code ELSE outer.code]
             seen == Front(MainStack)
  <2>1. /\ n - 1 \in 1 .. n - 1 /\ j.frames[n - 1] \in FrameType
        /\ GoodClosure(j.frames[n - 1].cl) /\ j.frames[n - 1].cl.waitq = << >>
        /\ GoodProcess(inner) /\ SameButFrames(j, inner)
        /\ inner.frames = SubSeq(j.frames, 1, n - 1)
        /\ Len(inner.frames) = n - 1 /\ inner.frames[n - 1] = j.frames[n - 1]
    <3>1. n - 1 \in 1 .. n => n - 1 \in 1 .. n - 1
      BY <1>2
    <3> HIDE DEF n, j
    <3> QED
      BY <1>3, <1>4, <1>9, <3>1, OuterGood
  <2>2. /\ outer \in FrameType /\ GoodClosure(outer.cl) /\ outer.cl.waitq = << >>
        /\ j.frames[n - 1] = outer
    BY <1>3, <2>1
  <2>3. k = SetTop(inner, next)
    BY <1>3, <1>9, <2>2 DEF Return, Outer
  <2>4. GoodClosure(cl) /\ cl.waitq = << >> /\ cl.prog = outer.cl.prog /\ cl.entry = outer.cl.entry
        /\ cl.cond = IF f.code # 0 THEN 1 ELSE outer.cl.cond
    BY <2>2 DEF GoodClosure, ClosureType
  <2>5. next \in FrameType /\ next.cl = cl /\ next.thrown = f.thrown
        /\ next.code = IF f.thrown THEN f.code ELSE outer.code
    BY <2>2, <2>4 DEF FrameType, GoodClosure
  <2> HIDE DEF cl, next, inner, j, k, n
  <2>6. inner.state = "run"
    BY <1>4, <2>1 DEF SameButFrames
  <2>7. /\ Settled(k) /\ GoodProcess(k) /\ SameButFrames(inner, k)
        /\ Bares(k.frames) = Append(Front(Bares(inner.frames)), Bare(next))
    BY <2>1, <2>3, <2>4, <2>5, <2>6, SetTopSeen, SetTopGood
  <2>8. Bares(inner.frames) = seen /\ Last(seen) = Bare(outer) /\ inner.frames # << >>
    <3>1. inner.frames \in Seq(FrameType) /\ inner.frames # << >>
      BY <2>1, <2>6 DEF GoodProcess, FramesOK, ProcessType
    <3>2. Last(Bares(inner.frames)) = Bare(outer)
      BY <2>1, <2>2, <3>1, BaresTop
    <3>3. j.frames \in Seq(FrameType) /\ n - 1 \in Nat /\ \A i \in 1 .. n - 1 : i \in 1 .. n
      BY <1>2, <1>3 DEF GoodProcess, ProcessType
    <3>4. SubSeq(j.frames, 1, n - 1) = SubSeq(m.frames, 1, n - 1)
      <4>1. /\ SubSeq(j.frames, 1, n - 1) = [i \in 1 .. n - 1 |-> j.frames[i]]
            /\ SubSeq(m.frames, 1, n - 1) = [i \in 1 .. n - 1 |-> m.frames[i]]
        BY <1>2, <1>3, <3>3 DEF n
      <4> QED
        BY <1>3, <4>1
    <3>5. Front(Bares(m.frames)) = Bares(SubSeq(m.frames, 1, n - 1))
      BY <1>2, BaresTop DEF n
    <3> QED
      BY <1>1, <2>1, <3>1, <3>2, <3>4, <3>5
  <2> DEFINE shown == [Bare(outer) EXCEPT !.cond = IF f.code # 0 THEN 1 ELSE @,
                                          !.thrown = f.thrown,
                                          !.code = IF f.thrown THEN f.code ELSE @]
  <2>9. shown = Bare(next)
    <3> DEFINE b == Bare(outer)
               c == Bare(next)
    <3>1. b \in BareType /\ c \in BareType
      BY <2>2, <2>5, BareFacts
    <3>2. /\ b.prog = c.prog /\ b.entry = c.entry /\ c.thrown = f.thrown
          /\ c.cond = (IF f.code # 0 THEN 1 ELSE b.cond)
          /\ c.code = IF f.thrown THEN f.code ELSE b.code
      BY <2>2, <2>4, <2>5 DEF Bare
    <3>3. shown = [b EXCEPT !.cond = c.cond, !.thrown = c.thrown, !.code = c.code]
      BY <3>1, <3>2 DEF BareType
    <3> HIDE DEF b, c, shown
    <3> QED
      BY <3>1, <3>2, <3>3, BareReplaced DEF c
  <2> HIDE DEF shown
  <2>10. MainStack' = Append(Front(seen), shown)
    BY <1>5, <2>7, <2>8, <2>9
  <2>11. /\ ModeOf(k) = ModeOf(m) /\ CodeOf(k) = CodeOf(m) /\ k.jobs = m.jobs
         /\ k.scripts = m.scripts
    BY <1>3, <2>1, <2>7 DEF SameButFrames, ModeOf, CodeOf
  <2>12. MainMode' = MainMode /\ MainCode' = MainCode /\ MainJobs' = MainJobs
         /\ MainScripts' = MainScripts
    BY <1>5, <2>11, SeenNow
  <2> QED
    BY <1>6, <1>9, <2>8, <2>10, <2>12, SameHelpers DEF Machine!Ends, Machine!WithTop, shown
<1> QED
  BY <1>7, <1>8, <1>9

-----------------------------------------------------------------------------
(* Main is there, nobody's child, and its jobs have not been started.      *)

Fresh(jobs) == \A i \in DOMAIN jobs : jobs[i].cl.entry = 1 /\ jobs[i].cl.cond = 0
MainInv ==
  /\ Main \in DOMAIN procs /\ procs[Main].parent = Nobody
  /\ Fresh(procs[Main].jobs)

LEMMA MainKept ==
  ASSUME MainInv, NEW k, Becomes(k), k.parent = procs[Main].parent, Fresh(k.jobs)
  PROVE  MainInv'
BY DEF MainInv, Becomes

LEMMA NarrowsKept ==
  ASSUME MainInv, NEW k, Becomes(k), k.parent = procs[Main].parent,
         Narrows(procs[Main], k)
  PROVE  MainInv'
<1>1. CASE k.jobs = procs[Main].jobs
  BY <1>1, MainKept DEF MainInv
<1>2. CASE k.jobs = << >>
  <2>1. Fresh(k.jobs)
    BY <1>2 DEF Fresh
  <2> QED
    BY <2>1, MainKept
<1> QED
  BY <1>1, <1>2 DEF Narrows

LEMMA BranchRuns ==
  ASSUME TableOK, MainInv, NEW op, Enters(Main, op), NEW tag \in Nat,
         Update(Main, Branch(procs[Main], tag)), UNCHANGED <<setting, will>>
  PROVE  Machine!Moves(tag, 0) /\ MainInv'
<1> DEFINE m == procs[Main]
           k == Branch(m, tag)
<1>1. /\ Main \in DOMAIN procs /\ m.state = "run" /\ Closure(m).waitq = << >>
      /\ GoodProcess(m)
  BY EnterFacts
<1>2. Machine!Moves(tag, 0)
  BY <1>1, MovesSeen
<1>3. k.jobs = m.jobs /\ k.parent = m.parent
  BY <1>1, BranchGood DEF SameButFrames
<1>4. Update(Main, k)
  OBVIOUS
<1> HIDE DEF k
<1> QED
  BY <1>2, <1>3, <1>4, MainKept, UpdateBecomes DEF MainInv

LEMMA QuitRuns ==
  ASSUME TableOK, MainInv, NEW status \in Nat,
         Becomes(Leave(procs[Main], status)), UNCHANGED <<setting, will>>
  PROVE  Machine!Quit(status % 256) /\ MainInv'
<1> DEFINE m == procs[Main]
           k == Leave(m, status)
<1>1. Main \in DOMAIN procs /\ m \in ProcessType
  BY ProcessFacts DEF MainInv
<1>2. Machine!Quit(status % 256)
  BY <1>1, QuitSeen
<1>3. k.parent = m.parent /\ Narrows(m, k)
  BY <1>1, LeaveGood, LeaveNarrows
<1>4. Becomes(k)
  OBVIOUS
<1> HIDE DEF k
<1> QED
  BY <1>2, <1>3, <1>4, NarrowsKept

-----------------------------------------------------------------------------
(* Main's steps are the machine's.                                         *)

LEMMA BranchesRun ==
  ASSUME TableOK, MainInv, EnterEmpty(Main) \/ EnterTest(Main) \/ EnterSplice(Main)
  PROVE  Machine!Next /\ MainInv'
<1> DEFINE m == procs[Main]
           e == Entry(m)
<1>1. ASSUME NEW op \in {"empty", "splice"}, Enters(Main, op), e.next \in Nat,
             Update(Main, Branch(m, e.next)), UNCHANGED <<setting, launched, will>>
      PROVE  Machine!Pass /\ MainInv'
  <2>1. Machine!Enters(op) /\ Machine!Entry = e
    BY <1>1, EntersSeen
  <2>2. Machine!Moves(e.next, 0) /\ MainInv'
    BY <1>1, BranchRuns
  <2>3. Machine!Enters("empty") \/ Machine!Enters("splice")
    BY <1>1, <2>1
  <2> QED
    BY <1>1, <2>1, <2>2, <2>3 DEF Machine!Pass
<1>2. CASE EnterEmpty(Main)
  <2>1. /\ Enters(Main, "empty") /\ e.next \in Nat /\ Update(Main, Branch(m, e.next))
        /\ UNCHANGED <<setting, launched, will>>
    BY <1>2, EnterFacts DEF EnterEmpty, EntryOK
  <2>2. Machine!Pass /\ MainInv'
    BY <1>1, <2>1
  <2> QED
    BY <2>2 DEF Machine!Next
<1>3. CASE EnterSplice(Main)
  <2>1. /\ Enters(Main, "splice") /\ e.next \in Nat /\ Update(Main, Branch(m, e.next))
        /\ UNCHANGED <<setting, launched, will>>
    BY <1>3, EnterFacts DEF EnterSplice, EntryOK
  <2>2. Machine!Pass /\ MainInv'
    BY <1>1, <2>1
  <2> QED
    BY <2>2 DEF Machine!Next
<1>4. CASE EnterTest(Main)
  <2> DEFINE tag == IF Closure(m).cond = 0 THEN e.direct ELSE e.reverse
  <2>1. /\ Enters(Main, "test") /\ e.direct \in Nat /\ e.reverse \in Nat
        /\ Main \in DOMAIN procs /\ m.state = "run" /\ Closure(m).waitq = << >>
        /\ Update(Main, Branch(m, tag)) /\ UNCHANGED <<setting, launched, will>>
    BY <1>4, EnterFacts DEF EnterTest, EntryOK
  <2>2. tag \in Nat
    BY <2>1
  <2>3. /\ Machine!Enters("test") /\ Machine!Entry = e
    BY <2>1, EntersSeen
  <2> HIDE DEF e, m
  <2>4. Machine!Top.cond = Closure(m).cond
    BY <2>1, RunningSeen DEF m
  <2>5. tag = IF Machine!Top.cond = 0 THEN Machine!Entry.direct ELSE Machine!Entry.reverse
    BY <2>3, <2>4
  <2> HIDE DEF tag
  <2>6. Machine!Moves(tag, 0) /\ MainInv'
    BY <2>1, <2>2, BranchRuns DEF m
  <2>7. Machine!Test
    BY <2>1, <2>3, <2>5, <2>6 DEF Machine!Test
  <2> QED
    BY <2>6, <2>7 DEF Machine!Next
<1> QED
  BY <1>2, <1>3, <1>4

LEMMA EndsRun ==
  ASSUME TableOK, MainInv, EnterLast(Main) \/ EnterExit(Main)
  PROVE  Machine!Next /\ MainInv'
<1> DEFINE m == procs[Main]
           Ended_(code, thrown) == [Top(m) EXCEPT !.thrown = thrown, !.code = code]
<1>1. /\ Main \in DOMAIN procs /\ m.state = "run" /\ Closure(m).waitq = << >>
      /\ GoodProcess(m) /\ Top(m) \in FrameType /\ Closure(m) = Top(m).cl
      /\ Closure(m).cond \in Nat
  <2>1. /\ Main \in DOMAIN procs /\ m.state = "run" /\ Closure(m).waitq = << >>
        /\ GoodProcess(m) /\ Closure(m) \in ClosureType
    BY EnterFacts DEF EnterLast, EnterExit
  <2> QED
    BY <2>1, TopFacts DEF ClosureType
<1>2. CASE EnterLast(Main)
  <2> DEFINE code == Closure(m).cond
             thrown == IF setting.developer /\ setting.interactive THEN Top(m).thrown ELSE TRUE
             f == Ended_(code, thrown)
             k == Done(m, code)
  <2>1. Enters(Main, "last") /\ Update(Main, k) /\ UNCHANGED <<setting, launched, will>>
    BY <1>2 DEF EnterLast, Proc
  <2>2. k = Return(SetTop(m, f))
    <3>1. CASE setting.developer /\ setting.interactive
      <4>1. k = Return(SetTop(m, [Top(m) EXCEPT !.code = code]))
        BY <3>1 DEF Done
      <4>2. thrown = Top(m).thrown
        BY <3>1
      <4> HIDE DEF thrown, code
      <4>3. [Top(m) EXCEPT !.code = code] = f
        BY <1>1, <4>2 DEF FrameType
      <4> QED
        BY <4>1, <4>3
    <3>2. CASE ~(setting.developer /\ setting.interactive)
      BY <3>2 DEF Done, Exit
    <3> QED
      BY <3>1, <3>2
  <2>3. thrown \in BOOLEAN
    BY <1>1 DEF FrameType
  <2>4. code \in Nat
    BY <1>1
  <2>5. Machine!Top.cond = code /\ Machine!Top.thrown = Top(m).thrown
    BY <1>1, RunningSeen
  <2>6. thrown = IF setting.developer /\ setting.interactive THEN Machine!Top.thrown ELSE TRUE
    BY <2>5
  <2> HIDE DEF thrown, code
  <2>7. f \in FrameType /\ f.cl = Closure(m) /\ f.thrown = thrown /\ f.code = code
    BY <1>1, <2>3, <2>4 DEF FrameType
  <2>8. k.parent = m.parent /\ Narrows(m, k)
    BY <1>1, <2>4, DoneGood, DoneNarrows
  <2> HIDE DEF f, k
  <2>9. Machine!Ends(code, thrown)
    BY <1>1, <2>1, <2>2, <2>7, EndsSeen
  <2>10. MainInv'
    BY <1>1, <2>1, <2>8, NarrowsKept, UpdateBecomes
  <2>11. Machine!Finish
    BY <2>1, <2>5, <2>6, <2>9, EntersSeen DEF Machine!Finish
  <2> QED
    BY <2>10, <2>11 DEF Machine!Next
<1>3. CASE EnterExit(Main)
  <2> DEFINE calls == Entry(m).calls
             code == calls[1].arg
             f == Ended_(code, TRUE)
             k == Exit(m, code)
  <2>1. /\ Enters(Main, "step") /\ Update(Main, k) /\ UNCHANGED <<setting, will>>
        /\ ExitsHere(calls) /\ launched' = launched \o Cmds(calls)
        /\ EntryOK(Entry(m), Program[Closure(m).prog].detachables) /\ Entry(m).op = "step"
    BY <1>3, EnterFacts DEF EnterExit, Proc
  <2>2. code \in Nat
    BY <2>1 DEF ExitsHere, IsNumber
  <2>3. k = Return(SetTop(m, f))
    BY DEF Exit
  <2>4. Machine!Entry = Entry(m) /\ Machine!Enters("step")
    BY <2>1, EntersSeen
  <2>5. Machine!Calls = calls
    BY <2>4 DEF Machine!Calls
  <2> HIDE DEF calls
  <2>6. Machine!Cmds = Cmds(calls) /\ Machine!Alone("exit")
    BY <2>1, <2>5 DEF Machine!Cmds, Cmds, Machine!Alone, ExitsHere, Alone
  <2> HIDE DEF code
  <2>7. f \in FrameType /\ f.cl = Closure(m) /\ f.thrown = TRUE /\ f.code = code
    BY <1>1, <2>2 DEF FrameType
  <2>8. k.parent = m.parent /\ Narrows(m, k)
    BY <1>1, <2>2, ExitGood, ExitNarrows
  <2> HIDE DEF f, k
  <2>9. Machine!Ends(code, TRUE)
    BY <1>1, <2>1, <2>3, <2>7, EndsSeen
  <2>10. MainInv'
    BY <1>1, <2>1, <2>8, NarrowsKept, UpdateBecomes
  <2>11. Machine!Exit
    BY <2>1, <2>2, <2>4, <2>5, <2>6, <2>9 DEF Machine!Exit, Machine!IsNumber, code
  <2> QED
    BY <2>10, <2>11 DEF Machine!Next
<1> QED
  BY <1>2, <1>3

LEMMA NowhereRuns ==
  ASSUME TableOK, MainInv, EnterNowhere(Main)
  PROVE  Machine!Next /\ MainInv'
<1> DEFINE m == procs[Main]
<1>1. /\ Main \in DOMAIN procs /\ m.state = "run" /\ Closure(m).waitq = << >>
      /\ Closure(m).entry \notin DOMAIN Entries(m)
      /\ Update(Main, Leave(m, 139)) /\ UNCHANGED <<setting, launched, will>>
  BY DEF EnterNowhere, Running, IsShell, Proc, SIGSEGV
<1> HIDE DEF m
<1>2. MainMode = "run" /\ Machine!Top.entry \notin DOMAIN Machine!Code
  BY <1>1, RunningSeen DEF m
<1>3. Machine!Quit(139 % 256) /\ MainInv' /\ 139 % 256 = 139
  BY <1>1, QuitRuns, UpdateBecomes DEF m
<1>4. Machine!Crash
  BY <1>1, <1>2, <1>3 DEF Machine!Crash
<1> QED
  BY <1>3, <1>4 DEF Machine!Next

LEMMA PushedNames ==
  ASSUME NEW m \in ProcessType, Fresh(m.jobs), NEW job
  PROVE  LET k == Pushed(m, NewClosure(job, 0)) IN
         /\ Names(k.jobs) = << job >> \o Names(m.jobs) /\ Fresh(k.jobs)
         /\ k.scripts = m.scripts /\ k.code = m.code
<1> DEFINE cl == NewClosure(job, 0)
           new == [order |-> m.order, cl |-> cl]
           jobs == << new >> \o m.jobs
           k == Pushed(m, cl)
           Job == [order : Nat, cl : ClosureType]
<1>1. m.jobs \in Seq(Job)
  BY DEF ProcessType
<1>2. new.cl.prog = job /\ new.cl.entry = 1 /\ new.cl.cond = 0
  BY DEF NewClosure
<1> HIDE DEF new
<1>3. k.jobs = jobs /\ k.scripts = m.scripts /\ k.code = m.code
  BY DEF Pushed, ProcessType, new
<1> HIDE DEF k, Job
<1>4. /\ Len(m.jobs) \in Nat /\ DOMAIN m.jobs = 1 .. Len(m.jobs)
      /\ DOMAIN jobs = 1 .. Len(m.jobs) + 1
      /\ \A i \in 1 .. Len(m.jobs) + 1 : jobs[i] = IF i = 1 THEN new ELSE m.jobs[i - 1]
  BY <1>1
<1> DEFINE b == Names(m.jobs)
           c == Names(jobs)
<1>5. /\ b = [i \in 1 .. Len(m.jobs) |-> m.jobs[i].cl.prog] /\ DOMAIN b = 1 .. Len(m.jobs)
      /\ \A i \in 1 .. Len(m.jobs) : b[i] = m.jobs[i].cl.prog
  BY <1>4 DEF Names
<1>6. /\ c = [i \in 1 .. Len(m.jobs) + 1 |-> c[i]]
      /\ \A i \in 1 .. Len(m.jobs) + 1 : c[i] = jobs[i].cl.prog
  BY <1>4 DEF Names
<1> HIDE DEF jobs, b, c
<1>7. \A i \in 1 .. Len(m.jobs) + 1 : i # 1 => i - 1 \in 1 .. Len(m.jobs)
  BY <1>4
<1>8. \A i \in 1 .. Len(m.jobs) + 1 : c[i] = IF i = 1 THEN job ELSE b[i - 1]
  <2>1. SUFFICES ASSUME NEW i \in 1 .. Len(m.jobs) + 1
                 PROVE  c[i] = IF i = 1 THEN job ELSE b[i - 1]
    OBVIOUS
  <2>2. CASE i = 1
    BY <1>2, <1>4, <1>6, <2>2
  <2>3. CASE i # 1
    <3>1. jobs[i] = m.jobs[i - 1] /\ b[i - 1] = m.jobs[i - 1].cl.prog
      BY <1>4, <1>5, <1>7, <2>3
    <3> QED
      BY <1>6, <2>3, <3>1
  <2> QED
    BY <2>2, <2>3
<1>9. Len(b) = Len(m.jobs)
  BY <1>4, <1>5
<1>10. << job >> \o b = [i \in 1 .. Len(m.jobs) + 1 |-> IF i = 1 THEN job ELSE b[i - 1]]
  BY <1>4, <1>9
<1>11. c = << job >> \o b
  BY <1>6, <1>8, <1>10
<1>12. Fresh(jobs)
  <2>1. SUFFICES ASSUME NEW i \in 1 .. Len(m.jobs) + 1
                 PROVE  jobs[i].cl.entry = 1 /\ jobs[i].cl.cond = 0
    BY <1>4 DEF Fresh
  <2>2. CASE i = 1
    BY <1>2, <1>4, <2>2
  <2>3. CASE i # 1
    BY <1>4, <1>7, <2>3 DEF Fresh
  <2> QED
    BY <2>2, <2>3
<1> QED
  BY <1>3, <1>11, <1>12 DEF k, cl, b, c

LEMMA DetachRuns ==
  ASSUME TableOK, MainInv, EnterDetach(Main) \/ EnterDetachUnset(Main)
  PROVE  Machine!Next /\ MainInv'
<1> DEFINE m == procs[Main]
           e == Entry(m)
           jobs == Program[Closure(m).prog].detachables
           job == Last(jobs)
           k == Branch(m, e.next)
           pushed == Pushed(k, NewClosure(job, 0))
           found == Machine!Last(Program[Machine!Top.prog].detachables)
<1>1. /\ Enters(Main, "detach") /\ Main \in DOMAIN procs /\ Proc(Main) = m /\ m.state = "run"
      /\ GoodProcess(m) /\ m \in ProcessType /\ Closure(m).waitq = << >>
      /\ Closure(m) \in ClosureType /\ e.next \in Nat /\ jobs # << >>
  BY EnterFacts DEF EnterDetach, EnterDetachUnset, EntryOK
<1>2. \/ Update(Main, Leave(m, 134)) /\ Program[job].builtins
      \/ Update(Main, Leave(m, 139))
      \/ Update(Main, k)
      \/ Update(Main, pushed) /\ ~Program[job].builtins
  BY <1>1 DEF EnterDetach, EnterDetachUnset, SIGABRT, SIGSEGV
<1>3. UNCHANGED <<setting, launched, will>>
  BY DEF EnterDetach, EnterDetachUnset
<1>4. Machine!Enters("detach") /\ Machine!Entry = e
  BY <1>1, EntersSeen
<1>5. found = job
  <2> HIDE DEF m
  <2>1. Machine!Top.prog = Closure(m).prog
    BY <1>1, RunningSeen DEF m
  <2> QED
    BY <2>1, SameHelpers
<1> HIDE DEF found, job
<1>6. ASSUME \/ Machine!Quit(139)
             \/ Program[job].builtins /\ Machine!Quit(134)
             \/ Machine!Moves(e.next, 0)
             \/ /\ ~Program[job].builtins
                /\ MainStack' = Machine!At(e.next, 0)
                /\ MainJobs' = << job >> \o MainJobs
                /\ UNCHANGED <<setting, MainMode, MainCode, MainScripts, will>>
      PROVE  Machine!Next
  <2>1. Machine!Detach
    BY <1>3, <1>4, <1>5, <1>6 DEF Machine!Detach, found
  <2> QED
    BY <2>1 DEF Machine!Next
<1>7. CASE Update(Main, Leave(m, 134)) /\ Program[job].builtins
  <2>1. Machine!Quit(134 % 256) /\ MainInv' /\ 134 % 256 = 134
    BY <1>1, <1>3, <1>7, QuitRuns, UpdateBecomes
  <2> QED
    BY <1>6, <1>7, <2>1
<1>8. CASE Update(Main, Leave(m, 139))
  <2>1. Machine!Quit(139 % 256) /\ MainInv' /\ 139 % 256 = 139
    BY <1>1, <1>3, <1>8, QuitRuns, UpdateBecomes
  <2> QED
    BY <1>6, <2>1
<1>9. CASE Update(Main, k)
  <2>1. Machine!Moves(e.next, 0) /\ MainInv'
    BY <1>1, <1>3, <1>9, BranchRuns
  <2> QED
    BY <1>6, <2>1
<1>10. CASE Update(Main, pushed) /\ ~Program[job].builtins
  <2>1. jobs \in Seq(DOMAIN Program)
    BY <1>1, ProgramIsCompiled DEF ClosureType
  <2>2. job \in DOMAIN Program
    <3> HIDE DEF jobs
    <3> QED
      BY <1>1, <2>1 DEF Last, job
  <2>3. /\ GoodProcess(k) /\ Settled(k) /\ SameButFrames(m, k)
        /\ Bares(k.frames) = Machine!At(e.next, 0)
    BY <1>1, BranchSeen
  <2> HIDE DEF e, k
  <2>4. k \in ProcessType /\ k.jobs = m.jobs /\ Fresh(k.jobs)
    BY <2>3 DEF GoodProcess, SameButFrames, MainInv
  <2>5. /\ GoodProcess(pushed) /\ pushed.frames = k.frames
        /\ pushed.state = k.state /\ pushed.parent = k.parent
    BY <2>2, <2>3, PushedGood, NewClosureGood
  <2>6. /\ Names(pushed.jobs) = << job >> \o Names(m.jobs) /\ Fresh(pushed.jobs)
        /\ pushed.scripts = k.scripts /\ pushed.code = k.code
    BY <2>4, PushedNames
  <2> HIDE DEF pushed
  <2>7. Settled(pushed)
    BY <2>3, <2>5 DEF Settled
  <2>8. /\ MainStack' = Bares(pushed.frames) /\ MainMode' = ModeOf(pushed)
        /\ MainCode' = CodeOf(pushed) /\ MainJobs' = Names(pushed.jobs)
        /\ MainScripts' = pushed.scripts
    BY <1>1, <1>10, <2>5, <2>7, SettledNext, UpdateBecomes
  <2>9. /\ ModeOf(pushed) = ModeOf(m) /\ CodeOf(pushed) = CodeOf(m)
        /\ pushed.scripts = m.scripts /\ pushed.parent = m.parent
    <3>1. pushed.state = m.state /\ pushed.code = m.code /\ m.state = "run"
          /\ pushed.scripts = m.scripts /\ pushed.parent = m.parent
      BY <1>1, <2>3, <2>5, <2>6 DEF SameButFrames
    <3> QED
      BY <3>1 DEF ModeOf, CodeOf
  <2>10. /\ MainStack' = Machine!At(e.next, 0) /\ MainJobs' = << job >> \o MainJobs
         /\ UNCHANGED <<MainMode, MainCode, MainScripts>>
    BY <2>3, <2>5, <2>6, <2>8, <2>9, SeenNow
  <2>11. Machine!Next
    BY <1>3, <1>6, <1>10, <2>10
  <2>12. MainInv'
    BY <1>1, <1>10, <2>6, <2>9, MainKept, UpdateBecomes
  <2> QED
    BY <2>11, <2>12
<1> QED
  BY <1>2, <1>7, <1>8, <1>9, <1>10

(* A run inside the line, of a closure nothing was run of yet.             *)
LEMMA InsideRuns ==
  ASSUME TableOK, MainInv, NEW old, old = procs[Main], old.state = "run",
         Closure(old).waitq = << >>, Machine!Entry = Entry(old), Entry(old).next \in Nat,
         NEW m, GoodProcess(m), m.state = "run", m.frames = old.frames,
         m.parent = old.parent, m.scripts = old.scripts, m.code = old.code, Fresh(m.jobs),
         NEW cl, GoodClosure(cl), cl.waitq = << >>, cl.entry = 1, cl.cond = 0,
         RunInside(Main, cl, m)
  PROVE  Machine!Inside(cl.prog) /\ MainJobs' = Names(m.jobs) /\ MainInv'
<1> DEFINE tag == Entry(old).next
           m1 == Branch(m, tag)
           f == NewFrame(cl, 0)
           k == [m1 EXCEPT !.frames = Append(@, f)]
<1>1. Main \in DOMAIN procs
  BY DEF MainInv
<1>2. Closure(m) = Closure(old) /\ Entry(m) = Entry(old)
  BY DEF Closure, Top, Entry, Entries
<1>3. /\ Update(Main, k) /\ launched' = Append(launched, Machine!Calls[1].cmd)
      /\ UNCHANGED <<setting, will>>
  BY <1>2 DEF RunInside, Machine!Calls
<1>4. GoodProcess(m1) /\ SameButFrames(m, m1) /\ Closure(m1).waitq = << >>
  BY <1>2, BranchGood
<1>5. Bares(m1.frames) = Machine!At(tag, 0)
  <2> DEFINE old1 == Branch(old, tag)
  <2>1. Bares(old1.frames) = Machine!At(tag, 0)
    BY <1>1, BranchSeen
  <2>2. m1.frames = old1.frames
    <3>1. m \in ProcessType /\ old \in ProcessType
      BY <1>1, ProcessFacts DEF GoodProcess
    <3> DEFINE left == [Closure(old) EXCEPT !.entry = tag, !.cond = 0]
    <3>2. /\ m1 = [m EXCEPT !.frames[Len(m.frames)].cl = left]
          /\ old1 = [old EXCEPT !.frames[Len(old.frames)].cl = left]
      BY <1>2 DEF Branch, SetClosure
    <3> HIDE DEF left, m1, old1
    <3> QED
      BY <3>1, <3>2 DEF ProcessType
  <2> QED
    BY <2>1, <2>2
<1> HIDE DEF m1
<1>6. f \in FrameType /\ f.cl = cl /\ f.thrown = FALSE /\ f.code = 0
  BY DEF NewFrame, FrameType, GoodClosure
<1>7. Bare(f) = Machine!Frame(cl.prog, 0)
  BY <1>6 DEF Bare, Machine!Frame
<1>8. GoodProcess(k) /\ k.state = "run" /\ k.parent = m1.parent /\ Awaits(k, {})
  BY <1>4, NestedGood DEF SameButFrames
<1> HIDE DEF f
<1>9. m1 \in ProcessType /\ m1.frames \in Seq(FrameType) /\ m1.state = "run"
  BY <1>4 DEF GoodProcess, ProcessType, SameButFrames
<1>10. /\ k.frames = Append(m1.frames, f) /\ k.jobs = m.jobs /\ k.scripts = m.scripts
       /\ k.code = m.code /\ k.parent = m.parent
  BY <1>4, <1>9 DEF ProcessType, SameButFrames
<1> HIDE DEF k
<1>11. Closure(k).waitq = << >>
  BY <1>6, <1>9, <1>10 DEF Closure, Top
<1>12. Settled(k)
  BY <1>8, <1>11, RunsSettled
<1>13. /\ MainStack' = Bares(k.frames) /\ MainMode' = ModeOf(k) /\ MainCode' = CodeOf(k)
       /\ MainJobs' = Names(k.jobs) /\ MainScripts' = k.scripts
  BY <1>1, <1>3, <1>8, <1>12, SettledNext, UpdateBecomes
<1>14. Bares(k.frames) = Append(Machine!At(tag, 0), Machine!Frame(cl.prog, 0))
  BY <1>5, <1>6, <1>7, <1>9, <1>10, BaresAppend
<1>15. ModeOf(k) = ModeOf(old) /\ CodeOf(k) = CodeOf(old) /\ k.scripts = old.scripts
  BY <1>8, <1>10 DEF ModeOf, CodeOf
<1>16. UNCHANGED <<MainMode, MainCode, MainScripts>>
  BY <1>13, <1>15, SeenNow
<1>17. Machine!Inside(cl.prog)
  BY <1>3, <1>13, <1>14, <1>16 DEF Machine!Inside
<1>18. MainInv'
  BY <1>1, <1>3, <1>10, MainKept, UpdateBecomes
<1> QED
  BY <1>10, <1>13, <1>17, <1>18

LEMMA AgainRuns ==
  ASSUME TableOK, setting \in Settings, MainInv, EnterAgain(Main)
  PROVE  Machine!Next /\ MainInv'
<1> DEFINE m == procs[Main]
<1>1. /\ Enters(Main, "step") /\ Main \in DOMAIN procs /\ Proc(Main) = m /\ m.state = "run"
      /\ GoodProcess(m) /\ Closure(m).waitq = << >> /\ Entry(m).next \in Nat
  BY EnterFacts DEF EnterAgain, EntryOK
<1>2. PICK name \in setting.again : \E cl \in Compiled(name) : RunInside(Main, cl, m)
  BY <1>1 DEF EnterAgain
<1>3. PICK cl \in Compiled(name) : RunInside(Main, cl, m)
  BY <1>2
<1>4. GoodClosure(cl) /\ cl.waitq = << >>
  BY SettingsAreSettings, CompiledGood
<1>5. cl.prog = name /\ cl.entry = 1 /\ cl.cond = 0
  BY DEF Compiled, NewClosure
<1>6. Machine!Enters("step") /\ Machine!Entry = Entry(m)
  BY <1>1, EntersSeen
<1>7. /\ Machine!Alone("again") /\ setting.interactive
      /\ Machine!IsNumber(Machine!Calls[1].arg)
  BY <1>1, <1>6 DEF EnterAgain, AgainHere, Alone, IsNumber, Machine!Alone, Machine!IsNumber,
                    Machine!Calls
<1>8. Fresh(m.jobs)
  BY DEF MainInv
<1> HIDE DEF m
<1>9. Machine!Inside(name) /\ MainJobs' = Names(m.jobs) /\ MainInv'
  <2>1. Machine!Inside(cl.prog) /\ MainJobs' = Names(m.jobs) /\ MainInv'
    BY <1>1, <1>3, <1>4, <1>5, <1>6, <1>8, InsideRuns DEF m
  <2> QED
    BY <1>5, <2>1
<1>10. UNCHANGED MainJobs
  BY <1>9, SeenNow DEF m
<1>11. Machine!Again
  BY <1>6, <1>7, <1>9, <1>10 DEF Machine!Again
<1> QED
  BY <1>9, <1>11 DEF Machine!Next

LEMMA AgainRefusedRuns ==
  ASSUME TableOK, MainInv, AgainRefused(Main)
  PROVE  Machine!Next /\ MainInv'
<1> DEFINE m == procs[Main]
<1>1. /\ Enters(Main, "step") /\ Main \in DOMAIN procs /\ Proc(Main) = m
      /\ UNCHANGED <<setting, launched, will>>
  BY EnterFacts DEF AgainRefused
<1>2. PICK status \in {1, 134, 139} : Update(Main, Leave(m, status))
  BY <1>1 DEF AgainRefused, Refused, Fail, SIGABRT, SIGSEGV
<1>3. Machine!Enters("step") /\ Machine!Entry = Entry(m)
  BY <1>1, EntersSeen
<1>4. /\ Machine!Alone("again") /\ setting.interactive
      /\ Machine!IsNumber(Machine!Calls[1].arg)
  BY <1>1, <1>3 DEF AgainRefused, AgainHere, Alone, IsNumber, Machine!Alone, Machine!IsNumber,
                    Machine!Calls
<1>5. Becomes(Leave(m, status))
  BY <1>1, <1>2, UpdateBecomes
<1> HIDE DEF m
<1>6. Machine!Quit(status % 256) /\ MainInv'
  BY <1>1, <1>5, QuitRuns DEF m
<1>7. status % 256 = status
  OBVIOUS
<1>8. Machine!Again
  BY <1>1, <1>3, <1>4, <1>6, <1>7 DEF Machine!Again
<1> QED
  BY <1>6, <1>8 DEF Machine!Next

LEMMA FgRuns ==
  ASSUME TableOK, MainInv, EnterFg(Main)
  PROVE  Machine!Next /\ MainInv'
<1> DEFINE m == procs[Main]
           cl == m.jobs[1].cl
           k == [m EXCEPT !.jobs = Tail(@)]
<1>1. /\ Enters(Main, "step") /\ Main \in DOMAIN procs /\ Proc(Main) = m /\ m.state = "run"
      /\ GoodProcess(m) /\ m \in ProcessType /\ Closure(m).waitq = << >> /\ Entry(m).next \in Nat
  BY EnterFacts DEF EnterFg, EntryOK
<1>2. m.jobs # << >> /\ RunInside(Main, cl, k)
  BY <1>1 DEF EnterFg, FgHere
<1>3. Machine!Enters("step") /\ Machine!Entry = Entry(m)
  BY <1>1, EntersSeen
<1>4. Machine!Alone("fg") /\ setting.interactive /\ Machine!Calls[1].arg = 0
  BY <1>1, <1>3 DEF EnterFg, FgHere, Alone, Machine!Alone, Machine!Calls
<1>5. Fresh(m.jobs) /\ MainJobs = Names(m.jobs)
  BY SeenNow DEF MainInv
<1> HIDE DEF m
<1>6. /\ GoodProcess(k) /\ k.frames = m.frames /\ k.state = m.state /\ k.parent = m.parent
      /\ GoodClosure(m.jobs[1].cl) /\ m.jobs[1].cl.waitq = << >>
  BY <1>1, <1>2, PoppedGood
<1>7. k.jobs = Tail(m.jobs) /\ k.scripts = m.scripts /\ k.code = m.code
  BY <1>1 DEF ProcessType
<1>8. /\ Names(m.jobs) # << >> /\ Head(Names(m.jobs)) = cl.prog
      /\ Tail(Names(m.jobs)) = Names(Tail(m.jobs))
      /\ Fresh(Tail(m.jobs)) /\ cl.entry = 1 /\ cl.cond = 0
  <2> DEFINE Job == [order : Nat, cl : ClosureType]
             n == Len(m.jobs)
             names == Names(m.jobs)
  <2>1. m.jobs \in Seq(Job)
    BY <1>1 DEF ProcessType
  <2> HIDE DEF Job
  <2>2. /\ n \in Nat \ {0} /\ DOMAIN m.jobs = 1 .. n /\ Tail(m.jobs) \in Seq(Job)
        /\ DOMAIN Tail(m.jobs) = 1 .. n - 1
        /\ \A i \in 1 .. n - 1 : Tail(m.jobs)[i] = m.jobs[i + 1] /\ i + 1 \in 1 .. n
    BY <1>2, <2>1, HeadTailProperties
  <2> DEFINE Name == {m.jobs[i].cl.prog : i \in 1 .. n}
  <2>3. names \in [1 .. n -> Name] /\ \A i \in 1 .. n : names[i] = m.jobs[i].cl.prog
    BY <2>2 DEF Names
  <2> HIDE DEF n, names, Name
  <2>4. names \in Seq(Name) /\ Len(names) = n /\ names # << >>
    BY <2>2, <2>3
  <2>5. /\ Head(names) = names[1] /\ Tail(names) \in Seq(Name) /\ Len(Tail(names)) = n - 1
        /\ \A i \in 1 .. n - 1 : Tail(names)[i] = names[i + 1]
    BY <2>4, HeadTailProperties
  <2>6. /\ Names(Tail(m.jobs)) \in Seq(Name) /\ Len(Names(Tail(m.jobs))) = n - 1
        /\ \A i \in 1 .. n - 1 : Names(Tail(m.jobs))[i] = m.jobs[i + 1].cl.prog
    <3>1. Names(Tail(m.jobs)) = [i \in 1 .. n - 1 |-> m.jobs[i + 1].cl.prog]
      BY <2>2 DEF Names
    <3>2. n - 1 \in Nat /\ \A i \in 1 .. n - 1 : m.jobs[i + 1].cl.prog \in Name
      BY <2>2 DEF Name
    <3> QED
      BY <3>1, <3>2
  <2>7. Tail(names) = Names(Tail(m.jobs))
    <3>1. \A i \in 1 .. n - 1 : Tail(names)[i] = Names(Tail(m.jobs))[i]
      BY <2>2, <2>3, <2>5, <2>6
    <3> QED
      BY <2>5, <2>6, <3>1, SeqEqual
  <2>8. 1 \in 1 .. n
    BY <2>2
  <2>9. Fresh(Tail(m.jobs)) /\ cl.entry = 1 /\ cl.cond = 0
    BY <1>5, <2>2, <2>8 DEF Fresh
  <2> QED
    BY <2>3, <2>4, <2>5, <2>7, <2>8, <2>9 DEF names
<1> HIDE DEF cl, k
<1>9. GoodClosure(cl) /\ cl.waitq = << >>
  BY <1>6 DEF cl
<1>10. Machine!Inside(cl.prog) /\ MainJobs' = Names(k.jobs) /\ MainInv'
  BY <1>1, <1>2, <1>3, <1>6, <1>7, <1>8, <1>9, InsideRuns DEF m
<1>11. MainJobs # << >> /\ Machine!Inside(Head(MainJobs)) /\ MainJobs' = Tail(MainJobs)
  BY <1>5, <1>7, <1>8, <1>10
<1>12. Machine!Fg
  BY <1>3, <1>4, <1>11 DEF Machine!Fg
<1> QED
  BY <1>10, <1>12 DEF Machine!Next

(* A step: its commands are launched in children, of whom nothing counts   *)
(* but the status each ends with.                                          *)
LEMMA ChildStatus ==
  ASSUME NEW m, GoodProcess(m), m.state = "run", will \in Outcomes,
         NEW calls, NEW i, CallOK(calls[i]), Machine!ReportsError <=> ReportsError(calls),
         calls[i].kind = "regular" \/ Len(m.frames) = 1
  PROVE  /\ Child(m, calls, i) \in ProcessType
         /\ Child(m, calls, i).status = Machine!StatusOf(calls[i])
<1> DEFINE call == calls[i]
           child == Child(m, calls, i)
<1>1. child \in ProcessType
  BY ChildGood DEF GoodProcess
<1>2. CASE call.kind = "regular"
  <2>1. child = Ending(will[call.cmd]) /\ Machine!StatusOf(call) = will[call.cmd]
    BY <1>2 DEF Child, Machine!StatusOf
  <2> QED
    BY <1>1, <2>1 DEF Ending
<1>3. CASE call.kind # "regular" /\ (call.kind = "fg" \/ ReportsError(calls))
  <2>1. child = Ending(1) /\ Machine!StatusOf(call) = 1
    BY <1>3 DEF Child, Machine!StatusOf
  <2> QED
    BY <1>1, <2>1 DEF Ending
<1>4. CASE call.kind \notin {"regular", "fg"} /\ ~ReportsError(calls)
  <2> DEFINE code == IF call.kind = "false" THEN 1 ELSE 0
             f == [Top(m) EXCEPT !.thrown = TRUE, !.code = code]
             j == SetTop(m, f)
  <2>1. child = Exit(m, code) /\ Machine!StatusOf(call) = code
    BY <1>4 DEF Child, Machine!StatusOf
  <2>2. code \in {0, 1} /\ code \in Nat
    OBVIOUS
  <2> HIDE DEF code
  <2>3. Top(m) \in FrameType /\ GoodClosure(Top(m).cl) /\ Len(m.frames) = 1
    BY <1>4, TopFacts
  <2>4. f \in FrameType /\ f.cl = Top(m).cl /\ f.thrown = TRUE /\ f.code = code
    BY <2>2, <2>3 DEF FrameType
  <2>5. Exit(m, code) = Return(j)
    BY DEF Exit
  <2> HIDE DEF f
  <2>6. GoodProcess(j) /\ Top(j) = f /\ Len(j.frames) = 1
    BY <1>4, <2>3, <2>4, SetTopGood
  <2> HIDE DEF j
  <2>7. Return(j) = Leave(j, code)
    BY <2>4, <2>6 DEF Return
  <2>8. Leave(j, code).status = code % 256
    BY <2>6 DEF Leave, GoodProcess, ProcessType
  <2>9. code % 256 = code
    BY <2>2
  <2> QED
    BY <1>1, <2>1, <2>5, <2>7, <2>8, <2>9
<1> QED
  BY <1>2, <1>3, <1>4

LEMMA StepRuns ==
  ASSUME TableOK, RecordOK, MainInv, QuietProcess(procs[Main], Known), EnterStep(Main)
  PROVE  Machine!Next /\ MainInv'
<1> DEFINE m == procs[Main]
           tag == Entry(m).next
           calls == Entry(m).calls
           children == [i \in DOMAIN calls |-> Child(m, calls, i)]
           k == Branch(m, tag)
<1>1. /\ Enters(Main, "step") /\ Main \in DOMAIN procs /\ Proc(Main) = m /\ m.state = "run"
      /\ GoodProcess(m) /\ tag \in Nat /\ Entry(m).op = "step" /\ Closure(m).waitq = << >>
      /\ Len(calls) \in Nat /\ DOMAIN calls = 1 .. Len(calls)
      /\ \A i \in DOMAIN calls : CallOK(calls[i])
      /\ UNCHANGED <<setting, will>> /\ will \in Outcomes
  BY EnterFacts DEF EnterStep, EntryOK, RecordOK
<1>2. PICK pids \in Forked(Len(calls)) :
        /\ \/ ForkAll(Main, children, pids, k)
           \/ ReportsError(calls) /\ Fork(Main, children, pids, Leave(m, 1))
        /\ launched' = launched \o SubSeq(Cmds(calls), 1, Len(pids))
  BY <1>1 DEF EnterStep, Fail
<1> DEFINE n == Len(pids)
           left == [Closure(m) EXCEPT !.entry = tag, !.cond = 0, !.waitq = pids]
           next == SetClosure(m, left)
           cl == WaitFor(Closure(k), pids)
<1>3. \A i \in DOMAIN calls : calls[i].kind = "regular" \/ Len(m.frames) = 1
  <2>1. Closure(m).entry \in DOMAIN Entries(m)
    BY <1>1 DEF Enters
  <2> QED
    BY <1>1, <2>1, BuiltInsBelow
<1>4. Machine!Enters("step") /\ Machine!Entry = Entry(m)
  BY <1>1, EntersSeen
<1>5. /\ Machine!Calls = calls /\ Machine!Cmds = Cmds(calls)
      /\ Machine!Alone("exit") => ~Machine!IsNumber(calls[1].arg)
      /\ Machine!ReportsError <=> ReportsError(calls)
  <2>1. Machine!Calls = calls
    BY <1>4 DEF Machine!Calls
  <2>2. ~ExitsHere(calls)
    BY <1>1 DEF EnterStep
  <2> HIDE DEF calls
  <2> QED
    BY <2>1, <2>2 DEF ExitsHere, Alone, IsNumber, ReportsError, Cmds, Machine!Alone,
                      Machine!IsNumber, Machine!ReportsError, Machine!Cmds
<1> HIDE DEF calls
<1>6. /\ pids \in Seq(Pids) /\ n \in 0 .. Len(calls) /\ EachOnce(pids)
      /\ DOMAIN pids = 1 .. n
      /\ \A i \in DOMAIN pids : pids[i] \notin DOMAIN procs
  BY <1>1, <1>2, ForkedFacts DEF RecordOK
<1>7. Len(children) = Len(calls)
  BY <1>1
<1>8. \A i \in DOMAIN calls : /\ children[i] \in ProcessType
                              /\ children[i].status = Machine!StatusOf(calls[i])
  <2>1. \A i \in DOMAIN calls : children[i] = Child(m, calls, i)
    OBVIOUS
  <2> HIDE DEF m, children
  <2> QED
    BY <1>1, <1>3, <1>5, <2>1, ChildStatus
<1>9. /\ DOMAIN procs' = DOMAIN procs \cup Range(pids)
      /\ \/ procs'[Main] = IF n < Len(calls) THEN Leave(m, 1) ELSE SetClosure(k, cl)
         \/ ReportsError(calls) /\ procs'[Main] = Leave(m, 1)
      /\ \A q \in Range(pids) :
           procs'[q] = [children[CHOOSE i \in DOMAIN pids : pids[i] = q] EXCEPT !.parent = Main]
  <2>1. \A q \in Range(pids) : q \notin DOMAIN procs /\ q # Main
    BY <1>1, <1>6 DEF Range
  <2> HIDE DEF children, m, cl, k
  <2> QED
    BY <1>1, <1>2, <1>7, <2>1 DEF ForkAll, Fork, Fail, cl, m
<1> HIDE DEF children
<1>10. CASE procs'[Main] = Leave(m, 1) /\ (n < Len(calls) \/ ReportsError(calls))
  <2>1. Becomes(Leave(m, 1))
    BY <1>1, <1>9, <1>10 DEF Becomes
  <2>2. Machine!Quit(1 % 256) /\ MainInv' /\ 1 % 256 = 1
    BY <1>1, <2>1, QuitRuns
  <2>3. n \in 0 .. Len(Machine!Calls) /\ (n < Len(Machine!Calls) \/ Machine!ReportsError)
    BY <1>1, <1>5, <1>6, <1>10
  <2>4. Machine!Quit(1) /\ launched' = launched \o SubSeq(Machine!Cmds, 1, n)
    BY <1>2, <1>5, <2>2
  <2>5. Machine!Step
    BY <1>4, <1>5, <2>3, <2>4 DEF Machine!Step
  <2> QED
    BY <2>2, <2>5 DEF Machine!Next
<1>11. CASE n = Len(calls) /\ procs'[Main] = SetClosure(k, cl)
  <2>1. Closure(m) \in ClosureType /\ GoodClosure(Closure(m))
    BY <1>1, TopFacts
  <2>2. /\ GoodClosure(left) /\ left.cond = 0 /\ left.waitq = pids
        /\ left.prog = Closure(m).prog /\ left.entry = tag
    BY <1>1, <1>6, <2>1 DEF GoodClosure, ClosureType
  <2>3. SetClosure(k, cl) = next
    <3> DEFINE moved == [Closure(m) EXCEPT !.entry = tag, !.cond = 0]
    <3>1. k = SetClosure(m, moved)
      BY DEF Branch
    <3>2. GoodClosure(moved)
      BY <1>1, <2>1 DEF GoodClosure, ClosureType
    <3>3. cl = left
      <4>1. Closure(k) = moved
        BY <1>1, <3>1, <3>2, SetClosureGood
      <4> HIDE DEF k
      <4> QED
        BY <2>1, <4>1 DEF WaitFor, ClosureType
    <3> HIDE DEF k, moved, m, cl, left
    <3> QED
      BY <1>1, <3>1, <3>3, ClosureIsTop
  <2> HIDE DEF left
  <2>4. GoodProcess(next) /\ SameButFrames(m, next) /\ Closure(next) = left
    BY <1>1, <2>2, SetClosureGood
  <2>5. Becomes(next)
    BY <1>1, <1>9, <1>11, <2>3 DEF Becomes
  <2> DEFINE cond == FoldedIn(procs', left)
             settled == Awaited(procs', left)
  <2>6. cond = Machine!Condition
    <3>1. Range(pids) = {pids[i] : i \in DOMAIN calls} /\ DOMAIN pids = DOMAIN calls
      BY <1>1, <1>6, <1>11 DEF Range
    <3>2. \A i \in DOMAIN calls : procs'[pids[i]].status = Machine!StatusOf(calls[i])
      <4>1. SUFFICES ASSUME NEW i \in DOMAIN calls
                     PROVE  procs'[pids[i]].status = Machine!StatusOf(calls[i])
        OBVIOUS
      <4>2. (CHOOSE j \in DOMAIN pids : pids[j] = pids[i]) = i
        BY <1>6, <3>1 DEF EachOnce
      <4>3. procs'[pids[i]] = [children[i] EXCEPT !.parent = Main]
        BY <1>9, <3>1, <4>2
      <4> QED
        BY <1>8, <4>3 DEF ProcessType
    <3>3. (\E q \in Range(pids) : procs'[q].status # 0)
            <=> \E i \in DOMAIN calls : Machine!StatusOf(calls[i]) # 0
      BY <3>1, <3>2
    <3> QED
      BY <1>5, <2>2, <3>3 DEF FoldedIn, Machine!Condition
  <2> HIDE DEF cond
  <2>7. /\ GoodClosure(settled) /\ settled.waitq = << >> /\ settled.prog = Closure(m).prog
        /\ settled.entry = tag /\ settled.cond = cond
    BY <2>2, AwaitedFacts DEF cond
  <2>8. MainStack' = Machine!At(tag, cond)
    <3>1. StackIn(procs') = Bares(SetClosure(next, settled).frames)
      <4>1. next = procs'[Main] /\ next.state = "run"
        BY <1>1, <2>4, <2>5 DEF Becomes, SameButFrames
      <4> HIDE DEF next
      <4> QED
        BY <2>4, <4>1, FoldedSeen
    <3> HIDE DEF settled
    <3>2. SetClosure(next, settled) = SetClosure(m, settled)
      BY <1>1, ClosureIsTop
    <3>3. Bares(SetClosure(m, settled).frames) = Machine!At(settled.entry, settled.cond)
      BY <1>1, <2>7, ClosureSeen
    <3> QED
      BY <2>7, <3>1, <3>2, <3>3, SeenNext
  <2> HIDE DEF next
  <2>9. /\ ModeOf(next) = ModeOf(m) /\ CodeOf(next) = CodeOf(m) /\ next.jobs = m.jobs
        /\ next.scripts = m.scripts /\ next.parent = m.parent
    BY <2>4 DEF SameButFrames, ModeOf, CodeOf
  <2>10. UNCHANGED <<MainMode, MainCode, MainJobs, MainScripts>>
    BY <2>5, <2>9, SeenNow, SeenNext DEF Becomes
  <2>11. MainInv'
    BY <2>5, <2>9, MainKept DEF MainInv
  <2>12. launched' = launched \o Machine!Cmds
    <3> DEFINE cmds == Cmds(calls)
    <3>1. cmds = [i \in 1 .. n |-> calls[i].cmd] /\ Len(cmds) = n /\ n \in Nat
      BY <1>1, <1>6, <1>11 DEF Cmds
    <3>2. SubSeq(cmds, 1, n) = cmds
      BY <3>1
    <3> QED
      BY <1>2, <1>5, <3>2
  <2>13. Machine!Moves(Machine!Entry.next, Machine!Condition)
    BY <1>1, <1>4, <2>6, <2>8, <2>10 DEF Machine!Moves
  <2>14. Machine!Step
    BY <1>4, <1>5, <2>12, <2>13 DEF Machine!Step
  <2> QED
    BY <2>11, <2>14 DEF Machine!Next
<1>12. \/ procs'[Main] = Leave(m, 1) /\ (n < Len(calls) \/ ReportsError(calls))
       \/ procs'[Main] = SetClosure(k, cl) /\ n = Len(calls)
  <2>1. Len(calls) \in Nat /\ n \in 0 .. Len(calls)
    BY <1>1, <1>6
  <2> HIDE DEF n, m, k, cl
  <2> QED
    BY <1>9, <2>1
<1> QED
  BY <1>10, <1>11, <1>12

(* The session: a line, a script, an error, the end.                       *)
LEMMA BeginRuns ==
  ASSUME TableOK, MainInv, procs[Main].state = "prompt",
         NEW name \in DOMAIN Program, NEW m, GoodProcess(m), m.parent = procs[Main].parent,
         m.jobs = procs[Main].jobs, m.code = procs[Main].code,
         StartLine(Main, name, m), UNCHANGED setting
  PROVE  Machine!Begin(name) /\ MainScripts' = m.scripts /\ MainInv'
<1>1. PICK cl \in Compiled(name) :
        Update(Main, [m EXCEPT !.state = "run", !.frames = << NewFrame(cl, m.code) >>])
  BY DEF StartLine
<1> DEFINE f == NewFrame(cl, m.code)
           k == [m EXCEPT !.state = "run", !.frames = << f >>]
<1>2. /\ cl \in ClosureType /\ GoodClosure(cl) /\ cl.waitq = << >> /\ cl.prog = name
      /\ cl.entry = 1 /\ cl.cond = 0
  BY CompiledGood DEF Compiled, NewClosure, GoodClosure
<1>3. f.cl = cl /\ f.thrown = FALSE /\ f.code = m.code
  BY DEF NewFrame
<1>4. m \in ProcessType /\ f \in FrameType
  BY <1>2 DEF NewFrame, FrameType, GoodProcess, ProcessType
<1>5. Bare(f) = Machine!Frame(name, m.code)
  BY <1>2, <1>3 DEF Bare, Machine!Frame
<1>6. Main \in DOMAIN procs
  BY DEF MainInv
<1>7. Becomes(k)
  BY <1>1, <1>6, UpdateBecomes
<1> HIDE DEF f
<1>8. DOMAIN << f >> = {1} /\ << f >>[1] = f /\ Len(<< f >>) = 1 /\ << f >> # << >>
      /\ << f >> \in Seq(FrameType) /\ 1 .. 1 - 1 = {}
  BY <1>4
<1>9. /\ k \in ProcessType /\ k.state = "run" /\ k.frames = << f >> /\ k.jobs = m.jobs
      /\ k.parent = m.parent /\ k.code = m.code /\ k.scripts = m.scripts /\ k.order = m.order
  BY <1>4, <1>8 DEF ProcessType
<1> HIDE DEF k
<1>10. GoodProcess(k) /\ Settled(k)
  BY <1>2, <1>3, <1>8, <1>9 DEF GoodProcess, FramesOK, JobsOK, Settled
<1>11. /\ MainStack' = Bares(k.frames) /\ MainMode' = ModeOf(k) /\ MainCode' = CodeOf(k)
       /\ MainJobs' = Names(k.jobs) /\ MainScripts' = k.scripts
  BY <1>7, <1>10, SettledNext
<1>12. ModeOf(k) = "run" /\ CodeOf(k) = m.code /\ Bares(k.frames) = << Bare(f) >>
  BY <1>9, BaresEnds DEF ModeOf, CodeOf
<1>13. MainCode = m.code /\ MainJobs = Names(m.jobs)
  BY SeenNow DEF ModeOf, CodeOf
<1>14. launched' = << >> /\ will' \in Outcomes
  BY DEF StartLine
<1>15. Machine!Begin(name)
  BY <1>5, <1>9, <1>11, <1>12, <1>13, <1>14 DEF Machine!Begin
<1>16. MainInv'
  BY <1>7, <1>9, MainKept DEF MainInv
<1> QED
  BY <1>9, <1>11, <1>15, <1>16

LEMMA SessionRuns ==
  ASSUME RunnerInv, MainInv,
         \/ \E name \in setting.lines : ReadLine(Main, name)
         \/ RunScript(Main) \/ ReadMalformed(Main) \/ EndOfInput(Main)
  PROVE  Machine!Next /\ MainInv'
<1> DEFINE m == procs[Main]
<1>1. /\ Main \in DOMAIN procs /\ m.state = "prompt" /\ Proc(Main) = m /\ TableOK
      /\ setting \in Settings /\ UNCHANGED setting
  BY DEF ReadLine, RunScript, ReadMalformed, EndOfInput, IsShell, Proc, RunnerInv, RecordOK
<1>2. m \in ProcessType /\ GoodProcess(m)
  BY <1>1, ProcessFacts
<1>3. MainMode = "prompt" /\ MainScripts = m.scripts /\ MainCode = m.code
  BY <1>1, SeenNow DEF ModeOf, CodeOf
<1>4. CASE \E name \in setting.lines : ReadLine(Main, name)
  <2>1. PICK name \in setting.lines : StartLine(Main, name, m) /\ setting.interactive
    BY <1>1, <1>4 DEF ReadLine
  <2>2. name \in DOMAIN Program
    BY <1>1, SettingsAreSettings
  <2>3. Machine!Begin(name) /\ MainScripts' = m.scripts /\ MainInv'
    BY <1>1, <1>2, <2>1, <2>2, BeginRuns
  <2>4. Machine!ReadLine
    BY <1>3, <2>1, <2>3 DEF Machine!ReadLine
  <2> QED
    BY <2>3, <2>4 DEF Machine!Next
<1>5. CASE RunScript(Main)
  <2> DEFINE k == [m EXCEPT !.scripts = Tail(@)]
             name == Head(m.scripts)
  <2>1. /\ m.scripts \in Seq(DOMAIN Program) /\ m.scripts # << >>
        /\ StartLine(Main, name, k) /\ ~setting.interactive
    BY <1>1, <1>2, <1>5 DEF RunScript, ProcessType
  <2> HIDE DEF m
  <2>2. name \in DOMAIN Program /\ Tail(m.scripts) \in Seq(DOMAIN Program)
    BY <2>1, HeadTailProperties
  <2>3. /\ k \in ProcessType /\ k.parent = m.parent /\ k.state = m.state /\ k.code = m.code
        /\ k.frames = m.frames /\ k.jobs = m.jobs /\ k.order = m.order
        /\ k.scripts = Tail(m.scripts)
    BY <1>2, <2>2 DEF ProcessType
  <2> HIDE DEF k
  <2>4. GoodProcess(k)
    BY <1>2, <2>3 DEF GoodProcess, FramesOK, JobsOK
  <2>5. Machine!Begin(name) /\ MainScripts' = k.scripts /\ MainInv'
    <3> HIDE DEF name
    <3> QED
      BY <1>1, <2>1, <2>2, <2>3, <2>4, BeginRuns DEF m
  <2>6. Machine!OpenScript
    BY <1>3, <2>1, <2>3, <2>5 DEF Machine!OpenScript
  <2> QED
    BY <2>5, <2>6 DEF Machine!Next
<1>6. CASE ReadMalformed(Main)
  <2>1. PICK status \in {1, 134, 139} : Update(Main, Leave(m, status))
    BY <1>1, <1>6 DEF ReadMalformed, Refused, Fail, SIGABRT, SIGSEGV
  <2>2. /\ ~setting.interactive => m.scripts # << >>
        /\ UNCHANGED <<setting, launched, will>>
    BY <1>1, <1>6 DEF ReadMalformed
  <2>3. Becomes(Leave(m, status))
    BY <1>1, <2>1, UpdateBecomes
  <2> HIDE DEF m
  <2>4. Machine!Quit(status % 256) /\ MainInv'
    BY <1>1, <2>2, <2>3, QuitRuns DEF m
  <2>5. status % 256 = status
    OBVIOUS
  <2>6. Machine!Refuse
    BY <1>3, <2>2, <2>4, <2>5 DEF Machine!Refuse
  <2> QED
    BY <2>4, <2>6 DEF Machine!Next
<1>7. CASE EndOfInput(Main)
  <2>1. /\ Update(Main, Leave(m, m.code)) /\ m.code \in Nat
        /\ ~setting.interactive => m.scripts = << >>
        /\ UNCHANGED <<setting, launched, will>>
    BY <1>1, <1>2, <1>7 DEF EndOfInput, ProcessType
  <2>2. Becomes(Leave(m, m.code))
    BY <1>1, <2>1, UpdateBecomes
  <2>3. Machine!Quit(m.code % 256) /\ MainInv'
    BY <1>1, <2>1, <2>2, QuitRuns
  <2> HIDE DEF m
  <2>4. Machine!EndOfInput
    BY <1>3, <2>1, <2>3 DEF Machine!EndOfInput
  <2> QED
    BY <2>3, <2>4 DEF Machine!Next
<1> QED
  BY <1>4, <1>5, <1>6, <1>7

-----------------------------------------------------------------------------
(* What the machine knows nothing of: a child that is waited for, and the  *)
(* end of a process.                                                       *)

LEMMA SameSeen ==
  ASSUME MainInv, UNCHANGED <<setting, launched, will>>, StackIn(procs') = StackIn(procs),
         NEW k, Becomes(k), k.parent = procs[Main].parent, k.jobs = procs[Main].jobs,
         k.scripts = procs[Main].scripts, ModeOf(k) = ModeOf(procs[Main]),
         CodeOf(k) = CodeOf(procs[Main])
  PROVE  UNCHANGED Machine!vars /\ MainInv'
<1>1. /\ MainStack' = StackIn(procs') /\ MainMode' = ModeOf(k) /\ MainCode' = CodeOf(k)
      /\ MainJobs' = Names(k.jobs) /\ MainScripts' = k.scripts
  BY SeenNext DEF Becomes
<1>2. UNCHANGED <<MainStack, MainMode, MainCode, MainJobs, MainScripts>>
  BY <1>1, SeenNow
<1>3. UNCHANGED Machine!vars
  BY <1>2 DEF Machine!vars
<1>4. MainInv'
  BY MainKept DEF MainInv
<1> QED
  BY <1>3, <1>4

LEMMA ReapStutters ==
  ASSUME TableOK, MainInv, Reap(Main)
  PROVE  UNCHANGED Machine!vars /\ MainInv'
<1> DEFINE m == procs[Main]
           cl == Closure(m)
           child == Head(cl.waitq)
           left == [cl EXCEPT !.waitq = Tail(@),
                              !.cond = IF Proc(child).status # 0 THEN 1 ELSE @]
           k == SetClosure(m, left)
<1>1. /\ Main \in DOMAIN procs /\ m.state = "run" /\ Proc(Main) = m /\ GoodProcess(m)
      /\ m \in ProcessType /\ Awaits(m, ChildrenOf(Main)) /\ cl.waitq # << >>
      /\ UNCHANGED <<setting, launched, will>>
  BY ProcessFacts DEF Reap, Running, IsShell, Proc
<1>2. GoodClosure(cl) /\ cl \in ClosureType
  <2> HIDE DEF m
  <2> QED
    BY <1>1, TopFacts
<1>3. cl.waitq \in Seq(Pids) /\ EachOnce(cl.waitq) /\ Range(cl.waitq) = ChildrenOf(Main)
  BY <1>1, <1>2 DEF Awaits, ClosureType
<1>4. child \in Range(cl.waitq)
  <2> HIDE DEF cl
  <2> QED
    BY <1>1, <1>3 DEF Range
<1>5. /\ child \in DOMAIN procs
      /\ procs' = [q \in DOMAIN procs \ {child} |-> IF q = Main THEN k ELSE procs[q]]
  BY <1>1, <1>3, <1>4 DEF Reap, ChildrenOf, Proc
<1>6. child # Main
  BY <1>3, <1>4 DEF ChildrenOf, Proc, MainInv, Nobody, Main
<1> HIDE DEF m, cl
<1>7. /\ Tail(cl.waitq) \in Seq(Pids)
      /\ Range(Tail(cl.waitq)) = Range(cl.waitq) \ {child}
  BY <1>1, <1>3, TailFacts
<1>8. /\ GoodClosure(left) /\ left.waitq = Tail(cl.waitq)
      /\ left.cond = IF procs[child].status # 0 THEN 1 ELSE cl.cond
  BY <1>2, <1>7 DEF GoodClosure, ClosureType, Proc
<1>9. \A table : Awaited(table, left) = [cl EXCEPT !.waitq = << >>, !.cond = FoldedIn(table, left)]
  BY <1>2 DEF Awaited, ClosureType
<1> HIDE DEF left, child
<1>10. GoodProcess(k) /\ SameButFrames(m, k) /\ Closure(k) = left
  BY <1>1, <1>8, SetClosureGood
<1>11. /\ Becomes(k) /\ DOMAIN procs' = DOMAIN procs \ {child}
       /\ \A q \in DOMAIN procs \ {child} : q # Main => procs'[q] = procs[q]
  BY <1>1, <1>5, <1>6 DEF Becomes
<1>12. FoldedIn(procs', left) = FoldedIn(procs, cl)
  <2>1. Range(left.waitq) = Range(cl.waitq) \ {child} /\ child \in Range(cl.waitq)
    BY <1>4, <1>7, <1>8
  <2>2. \A q \in Range(left.waitq) : procs'[q].status = procs[q].status
    <3>1. \A q \in ChildrenOf(Main) : q \in DOMAIN procs /\ q # Main
      BY DEF ChildrenOf, Proc, MainInv, Nobody, Main
    <3> QED
      BY <1>3, <1>11, <2>1, <3>1
  <2>3. (\E q \in Range(cl.waitq) : procs[q].status # 0)
          <=> \/ procs[child].status # 0
              \/ \E q \in Range(left.waitq) : procs'[q].status # 0
    BY <2>1, <2>2
  <2> QED
    BY <1>8, <2>3 DEF FoldedIn
<1>13. Awaited(procs', left) = Awaited(procs, cl)
  BY <1>9, <1>12 DEF Awaited
<1>14. StackIn(procs) = Bares(SetClosure(m, Awaited(procs, cl)).frames)
  BY <1>1, FoldedSeen DEF m, cl
<1>15. StackIn(procs') = Bares(SetClosure(k, Awaited(procs', left)).frames)
  <2>1. k = procs'[Main] /\ k.state = "run"
    BY <1>1, <1>10, <1>11 DEF Becomes, SameButFrames
  <2> HIDE DEF k
  <2> QED
    BY <1>10, <2>1, FoldedSeen
<1>16. StackIn(procs') = StackIn(procs)
  <2> DEFINE settled == Awaited(procs, cl)
  <2>1. StackIn(procs') = Bares(SetClosure(k, settled).frames)
    BY <1>13, <1>15
  <2> HIDE DEF settled
  <2>2. SetClosure(k, settled) = SetClosure(m, settled)
    BY <1>1, ClosureIsTop
  <2> QED
    BY <1>14, <2>1, <2>2 DEF settled
<1> HIDE DEF k
<1>17. ModeOf(k) = ModeOf(m) /\ CodeOf(k) = CodeOf(m) /\ k.jobs = m.jobs
       /\ k.scripts = m.scripts /\ k.parent = m.parent
  BY <1>10 DEF SameButFrames, ModeOf, CodeOf
<1> QED
  BY <1>1, <1>11, <1>16, <1>17, SameSeen DEF m

LEMMA DieStutters ==
  ASSUME TableOK, MainInv, NEW p, Die(p)
  PROVE  UNCHANGED Machine!vars /\ MainInv'
<1> DEFINE m == procs[Main]
           k == procs'[Main]
           gone == {c \in ChildrenOf(p) : Proc(c).state = "zombie"}
                     \cup (IF Proc(p).parent = Nobody /\ p # Main THEN {p} ELSE {})
<1>1. /\ p \in DOMAIN procs /\ procs[p].state = "ending" /\ UNCHANGED <<setting, launched, will>>
      /\ procs' = [q \in DOMAIN procs \ gone |->
                     IF q = p THEN [procs[q] EXCEPT !.state = "zombie"]
                     ELSE IF q \in ChildrenOf(p) THEN [procs[q] EXCEPT !.parent = Nobody]
                     ELSE procs[q]]
  BY DEF Die, IsShell, Proc
<1>2. Main \in DOMAIN procs /\ m \in ProcessType /\ m.parent = Nobody /\ p # Nobody
  BY <1>1, ProcessFacts DEF MainInv
<1>3. Main \notin gone /\ Main \notin ChildrenOf(p)
  BY <1>2 DEF ChildrenOf, Proc
<1> HIDE DEF gone
<1>4. Becomes(k)
  BY <1>1, <1>2, <1>3 DEF Becomes
<1>5. CASE p # Main
  <2>1. k = m
    BY <1>1, <1>2, <1>3, <1>5
  <2>2. \A q \in ChildrenOf(Main) : q \in DOMAIN procs' /\ procs'[q].status = procs[q].status
    <3>1. SUFFICES ASSUME NEW q \in ChildrenOf(Main)
                   PROVE  q \in DOMAIN procs' /\ procs'[q].status = procs[q].status
      OBVIOUS
    <3>2. q \in DOMAIN procs /\ procs[q].parent = Main /\ procs[q] \in ProcessType
      BY ProcessFacts DEF ChildrenOf, Proc
    <3>3. q \notin gone /\ q \notin ChildrenOf(p)
      BY <1>5, <3>2 DEF gone, ChildrenOf, Proc, Main, Nobody
    <3>4. \/ procs'[q] = [procs[q] EXCEPT !.state = "zombie"]
          \/ procs'[q] = procs[q]
      BY <1>1, <3>2, <3>3
    <3>5. [procs[q] EXCEPT !.state = "zombie"].status = procs[q].status
      BY <3>2 DEF ProcessType
    <3> QED
      BY <1>1, <3>2, <3>3, <3>4, <3>5
  <2>3. \A i \in DOMAIN m.frames : FoldedIn(procs', m.frames[i].cl) = FoldedIn(procs, m.frames[i].cl)
    <3>1. SUFFICES ASSUME NEW i \in DOMAIN m.frames
                   PROVE  Range(m.frames[i].cl.waitq) \subseteq ChildrenOf(Main)
      BY <2>2 DEF FoldedIn
    <3>2. GoodProcess(m) /\ Awaits(m, ChildrenOf(Main)) /\ m.state = "run"
      <4>1. m.frames # << >>
        OBVIOUS
      <4> QED
        BY <1>2, <4>1, ProcessFacts DEF GoodProcess, FramesOK
    <3>3. /\ DOMAIN m.frames = 1 .. Len(m.frames) /\ Len(m.frames) \in Nat \ {0}
          /\ Closure(m) = m.frames[Len(m.frames)].cl
      BY <3>2, TopFacts
    <3>4. CASE i = Len(m.frames)
      BY <3>2, <3>3, <3>4 DEF Awaits
    <3>5. CASE i # Len(m.frames)
      <4>1. i \in 1 .. Len(m.frames) - 1
        BY <3>3, <3>5
      <4>2. m.frames[i].cl.waitq = << >>
        BY <3>2, <4>1 DEF GoodProcess, FramesOK
      <4> QED
        BY <4>2 DEF Range
    <3> QED
      BY <3>4, <3>5
  <2>4. StackIn(procs') = StackIn(procs)
    BY <2>1, <2>3 DEF StackIn, ShownIn
  <2> QED
    BY <1>1, <1>4, <2>1, <2>4, SameSeen
<1>6. CASE p = Main
  <2>1. k = [m EXCEPT !.state = "zombie"] /\ m.state = "ending"
    BY <1>1, <1>2, <1>3, <1>6
  <2>2. m.frames = << >>
    BY <1>2, <2>1, ProcessFacts DEF GoodProcess, FramesOK
  <2> HIDE DEF m, k
  <2>3. /\ k.frames = << >> /\ k.state = "zombie" /\ k.status = m.status /\ k.parent = m.parent
        /\ k.jobs = m.jobs /\ k.scripts = m.scripts
    BY <1>2, <2>1, <2>2 DEF ProcessType
  <2>4. StackIn(procs') = StackIn(procs)
    BY <2>2, <2>3 DEF StackIn, m, k
  <2>5. ModeOf(k) = ModeOf(m) /\ CodeOf(k) = CodeOf(m)
    BY <2>1, <2>3 DEF ModeOf, CodeOf
  <2> QED
    BY <1>1, <1>4, <2>3, <2>4, <2>5, SameSeen DEF m
<1> QED
  BY <1>5, <1>6

-----------------------------------------------------------------------------
(* The refinement.                                                         *)

(* Nothing of a quiet session's expands.                                   *)
LEMMA NothingExpands ==
  ASSUME TableOK, Quiet, Main \in DOMAIN procs, QuietProcess(procs[Main], Known),
         EnterExpand(Main)
  PROVE  FALSE
<1> DEFINE m == procs[Main]
<1>1. /\ m.state = "run" /\ GoodProcess(m) /\ GoodClosure(Closure(m)) /\ Proc(Main) = m
  BY EnterFacts DEF EnterExpand
<1>2. Entry(m).op = "expand" /\ Closure(m).entry \in DOMAIN Entries(m)
  BY <1>1 DEF EnterExpand, Enters
<1>3. Entry(m) \in Range(Program[Closure(m).prog].code)
  BY <1>1, <1>2 DEF GoodClosure, Entry, Entries, Range
<1>4. Closure(m).prog \in Known
  <2>1. Len(m.frames) \in DOMAIN m.frames /\ Closure(m) = m.frames[Len(m.frames)].cl
    BY <1>1, TopFacts
  <2> QED
    BY <2>1 DEF QuietProcess, QuietFrames
<1> QED
  BY <1>2, <1>3, <1>4 DEF Quiet, Expands

LEMMA StaysSeen ==
  ASSUME MainInv, UNCHANGED vars
  PROVE  UNCHANGED Machine!vars /\ MainInv'
<1>1. UNCHANGED <<setting, launched, will, procs>>
  BY DEF vars
<1>2. UNCHANGED <<MainStack, MainMode, MainCode, MainJobs, MainScripts>>
  BY <1>1, SeenNow, SeenNext
<1> QED
  BY <1>1, <1>2 DEF Machine!vars, MainInv

LEMMA QuietStays ==
  ASSUME [Next]_vars
  PROVE  Quiet' <=> Quiet
<1>1. UNCHANGED setting
  <2>1. CASE UNCHANGED vars \/ Over
    BY <2>1 DEF Over, vars
  <2>2. ASSUME NEW p, \/ \E name \in setting.lines : ReadLine(p, name)
                     \/ ReadMalformed(p) \/ EndOfInput(p) \/ Die(p)
        PROVE  UNCHANGED setting
    BY <2>2 DEF ReadLine, ReadMalformed, EndOfInput, Die
  <2>3. ASSUME NEW p, ShellStep(p)
        PROVE  UNCHANGED setting
    BY <2>3 DEF ShellStep, RunScript, Reap, EnterEmpty, EnterTest, EnterLast, EnterDetach,
                EnterDetachUnset, EnterStep, EnterExit, EnterAgain, AgainRefused, EnterFg, RunInside,
                EnterExpand, EnterSplice, EnterNowhere
  <2> QED
    BY <2>1, <2>2, <2>3 DEF Next
<1> QED
  BY <1>1, SettingKept

LEMMA NextRuns ==
  ASSUME RunnerInv, ReaderInv, Quiet, MainInv, [Next]_vars
  PROVE  (Machine!Next \/ UNCHANGED Machine!vars) /\ MainInv'
<1>1. TableOK /\ RecordOK /\ OthersEnd /\ setting \in Settings
  BY DEF RunnerInv, RecordOK, ReaderInv
<1>2. QuietProcess(procs[Main], Known) /\ Main \in DOMAIN procs
  BY <1>1 DEF OthersEnd, MainInv
<1>3. ASSUME NEW p, Running(p) \/ IsShell(p, "prompt")
      PROVE  p = Main
  BY <1>1, <1>3, QuietRunner DEF Running, IsShell, Proc
<1>4. CASE UNCHANGED vars \/ Over
  BY <1>4, StaysSeen DEF Over
<1>5. ASSUME NEW p, Die(p)
      PROVE  UNCHANGED Machine!vars /\ MainInv'
  BY <1>1, <1>5, DieStutters
<1>6. ASSUME NEW p,
             \/ \E name \in setting.lines : ReadLine(p, name)
             \/ RunScript(p) \/ ReadMalformed(p) \/ EndOfInput(p)
      PROVE  Machine!Next /\ MainInv'
  <2>1. p = Main
    BY <1>3, <1>6 DEF ReadLine, RunScript, ReadMalformed, EndOfInput
  <2> QED
    BY <1>6, <2>1, SessionRuns
<1>7. ASSUME NEW p,
             \/ EnterEmpty(p) \/ EnterTest(p) \/ EnterLast(p)
             \/ EnterDetach(p) \/ EnterDetachUnset(p)
             \/ EnterStep(p) \/ EnterExit(p) \/ EnterAgain(p) \/ AgainRefused(p)
             \/ EnterFg(p) \/ EnterExpand(p) \/ EnterSplice(p) \/ EnterNowhere(p)
      PROVE  Machine!Next /\ MainInv'
  <2>1. p = Main
    <3>1. Running(p)
      BY <1>7 DEF EnterEmpty, EnterTest, EnterLast, EnterDetach, EnterDetachUnset, EnterStep,
                  EnterExit, EnterAgain, AgainRefused, EnterFg, EnterExpand, EnterSplice, EnterNowhere, Enters
    <3> QED
      BY <1>3, <3>1
  <2>2. CASE EnterEmpty(p) \/ EnterTest(p) \/ EnterSplice(p)
    BY <1>1, <2>1, <2>2, BranchesRun
  <2>3. CASE EnterLast(p) \/ EnterExit(p)
    BY <1>1, <2>1, <2>3, EndsRun
  <2>4. CASE EnterDetach(p) \/ EnterDetachUnset(p)
    BY <1>1, <2>1, <2>4, DetachRuns
  <2>5. CASE EnterStep(p)
    BY <1>1, <1>2, <2>1, <2>5, StepRuns
  <2>6. CASE EnterAgain(p) \/ AgainRefused(p) \/ EnterFg(p)
    BY <1>1, <2>1, <2>6, AgainRuns, AgainRefusedRuns, FgRuns
  <2>7. CASE EnterExpand(p)
    BY <1>1, <1>2, <2>1, <2>7, NothingExpands
  <2>8. CASE EnterNowhere(p)
    BY <1>1, <2>1, <2>8, NowhereRuns
  <2> QED
    BY <1>7, <2>2, <2>3, <2>4, <2>5, <2>6, <2>7, <2>8
<1>8. ASSUME NEW p, Reap(p)
      PROVE  UNCHANGED Machine!vars /\ MainInv'
  <2>1. p = Main
    BY <1>3, <1>8 DEF Reap
  <2> QED
    BY <1>1, <1>8, <2>1, ReapStutters
<1> QED
  BY <1>4, <1>5, <1>6, <1>7, <1>8 DEF Next, ShellStep

LEMMA InitRuns ==
  ASSUME Init
  PROVE  Machine!Init /\ MainInv
<1>1. /\ Main \in DOMAIN procs /\ procs[Main].parent = Nobody /\ procs[Main].state = "prompt"
      /\ procs[Main].frames = << >> /\ procs[Main].jobs = << >> /\ procs[Main].code = 0
      /\ procs[Main].scripts = setting.scripts /\ launched = << >>
  BY DEF Init
<1>2. will \in Outcomes
  BY InitHolds DEF RunnerInv, RecordOK
<1>3. MainStack = << >> /\ MainJobs = << >>
  BY <1>1, SeenNow DEF StackIn, Names
<1>4. MainMode = "prompt" /\ MainCode = 0 /\ MainScripts = setting.scripts
  BY <1>1, SeenNow DEF ModeOf, CodeOf
<1>5. Machine!Init
  BY <1>1, <1>2, <1>3, <1>4 DEF Machine!Init
<1>6. MainInv
  BY <1>1 DEF MainInv, Fresh
<1> QED
  BY <1>5, <1>6

(* Without expansions and repeated built-ins the shell does what one       *)
(* machine would that executes a line's entries in order, for every        *)
(* program the code generator can emit, every line, script, history and    *)
(* job, every way the commands can turn out and every limit on processes:  *)
(* that fork copies the whole shell, that children end in any order and    *)
(* are waited for in that of the pipe, and that their statuses come one by *)
(* one, cannot be seen.                                                    *)
THEOREM LinesRunInSequence == Spec => Sequential
<1> DEFINE Inv == RunnerInv /\ ReaderInv /\ (Quiet => MainInv)
<1>1. Init => Inv /\ (~Expands /\ ~Repeats => Machine!Init)
  BY InitHolds, InitReads, InitRuns
<1>2. Inv /\ [Next]_vars => Inv' /\ [~Expands /\ ~Repeats => Machine!Next]_(Machine!vars)
  <2>1. SUFFICES ASSUME Inv, [Next]_vars
                 PROVE  Inv' /\ [~Expands /\ ~Repeats => Machine!Next]_(Machine!vars)
    OBVIOUS
  <2>2. RunnerInv' /\ ReaderInv'
    BY <2>1, StepHolds, NextReads
  <2>3. Quiet' <=> Quiet
    BY <2>1, QuietStays
  <2>4. Quiet => (Machine!Next \/ UNCHANGED Machine!vars) /\ MainInv'
    BY <2>1, NextRuns
  <2> QED
    BY <2>2, <2>3, <2>4 DEF Quiet
<1> QED
  BY <1>1, <1>2, PTL DEF Spec, Sequential
=============================================================================
