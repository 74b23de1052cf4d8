---------------------------- MODULE RunnerProofs ----------------------------
(***************************************************************************)
(* Proofs about Runner for any compiled program, any lines and scripts, any*)
(* number of processes, frames and jobs.                                   *)
(*                                                                         *)
(* WaitsForItsChildren is not inductive as it stands: RunnerInv adds that a*)
(* parent is there, is another and has not ended, so that no pid is used   *)
(* again while somebody's child, and that jobs and outer frames wait for   *)
(* nobody, in whatever process a fork copies them to.                      *)
(***************************************************************************)
EXTENDS Runner, SequenceTheorems, FiniteSetTheorems, TLAPS

GoodClosure(cl) == cl \in ClosureType /\ cl.code = Program[cl.prog].code

(* One process by itself.                                                  *)
FramesOK(m) ==
  /\ m.state = "run" <=> m.frames # << >>
  /\ \A i \in DOMAIN m.frames : GoodClosure(m.frames[i].cl)
  /\ \A i \in 1 .. Len(m.frames) - 1 : m.frames[i].cl.waitq = << >>
JobsOK(m) ==
  /\ \A i \in DOMAIN m.jobs :
       /\ GoodClosure(m.jobs[i].cl) /\ m.jobs[i].cl.waitq = << >>
       /\ m.jobs[i].order < m.order
  /\ \A i, j \in DOMAIN m.jobs : i < j => m.jobs[i].order > m.jobs[j].order
GoodProcess(m) == m \in ProcessType /\ FramesOK(m) /\ JobsOK(m)

(* A process and its children.                                             *)
EachOnce(pids) == \A i, j \in DOMAIN pids : pids[i] = pids[j] => i = j
Awaits(m, children) ==
  /\ m.state = "run" => Range(Closure(m).waitq) = children /\ EachOnce(Closure(m).waitq)
  /\ m.state = "prompt" => children = {}

(* The table, and what is recorded beside it.                              *)
ParentLives(q) ==
  \/ procs[q].parent = Nobody
  \/ procs[q].parent \in DOMAIN procs \ {q} /\ procs[procs[q].parent].state # "zombie"
TableOK ==
  /\ procs = [q \in DOMAIN procs |-> procs[q]]
  /\ DOMAIN procs \subseteq Pids
  /\ \A q \in DOMAIN procs :
       GoodProcess(procs[q]) /\ Awaits(procs[q], ChildrenOf(q)) /\ ParentLives(q)
RecordOK ==
  /\ setting \in Settings
  /\ typed \in 0 .. setting.most
  /\ line \in DOMAIN Program \cup {"none"}
  /\ launched \in Seq(STRING)
  /\ Range(nested) \subseteq DOMAIN Program
  /\ will \in Outcomes
RunnerInv == TableOK /\ RecordOK

-----------------------------------------------------------------------------
(* Frames.                                                                 *)

LEMMA TopFacts ==
  ASSUME NEW m, GoodProcess(m), m.state = "run"
  PROVE  /\ m \in ProcessType /\ m.frames \in Seq(FrameType)
         /\ Len(m.frames) \in Nat \ {0} /\ DOMAIN m.frames = 1 .. Len(m.frames)
         /\ Top(m) = m.frames[Len(m.frames)] /\ Top(m) \in FrameType
         /\ Closure(m) = Top(m).cl /\ GoodClosure(Closure(m)) /\ Closure(m) \in ClosureType
<1>1. m \in ProcessType /\ m.frames \in Seq(FrameType) /\ m.frames # << >>
  BY DEF GoodProcess, FramesOK, ProcessType
<1>2. Len(m.frames) \in Nat \ {0} /\ DOMAIN m.frames = 1 .. Len(m.frames)
  BY <1>1
<1>3. Len(m.frames) \in DOMAIN m.frames /\ Top(m) \in FrameType
  BY <1>1, <1>2 DEF Top
<1>4. GoodClosure(Closure(m))
  BY <1>3 DEF GoodProcess, FramesOK, Closure, Top
<1> QED
  BY <1>1, <1>2, <1>3, <1>4 DEF Top, Closure, GoodClosure

(* The innermost frame is replaced.                                        *)
SameButFrames(m, k) ==
  /\ k.parent = m.parent /\ k.state = m.state /\ k.status = m.status
  /\ k.jobs = m.jobs /\ k.order = m.order /\ k.code = m.code /\ k.scripts = m.scripts
LEMMA SetTopGood ==
  ASSUME NEW m, GoodProcess(m), m.state = "run",
         NEW f \in FrameType, GoodClosure(f.cl)
  PROVE  /\ GoodProcess(SetTop(m, f)) /\ SameButFrames(m, SetTop(m, f))
         /\ Top(SetTop(m, f)) = f /\ Len(SetTop(m, f).frames) = Len(m.frames)
         /\ \A i \in 1 .. Len(m.frames) - 1 : SetTop(m, f).frames[i] = m.frames[i]
<1> DEFINE n == Len(m.frames)
           frames == [m.frames EXCEPT ![n] = f]
           k == [m EXCEPT !.frames = frames]
<1>1. /\ m \in ProcessType /\ m.frames \in Seq(FrameType)
      /\ n \in Nat \ {0} /\ DOMAIN m.frames = 1 .. n
  BY TopFacts
<1>2. SetTop(m, f) = k
  BY <1>1 DEF SetTop, ProcessType
<1>3. /\ frames \in Seq(FrameType) /\ Len(frames) = n /\ DOMAIN frames = 1 .. n
      /\ frames[n] = f /\ \A i \in 1 .. n - 1 : frames[i] = m.frames[i]
  BY <1>1
<1> HIDE DEF frames, n
<1>4. k \in ProcessType /\ SameButFrames(m, k) /\ k.frames = frames
  BY <1>1, <1>3 DEF ProcessType, SameButFrames
<1> HIDE DEF k
<1>5. FramesOK(k)
  <2>1. frames # << >>
    BY <1>1, <1>3
  <2>2. \A i \in 1 .. n : i = n \/ i \in 1 .. n - 1
    BY <1>1
  <2>3. \A i \in 1 .. n - 1 : m.frames[i].cl.waitq = << >> /\ GoodClosure(m.frames[i].cl)
    BY <1>1 DEF GoodProcess, FramesOK, n
  <2> QED
    BY <1>3, <1>4, <2>1, <2>2, <2>3 DEF FramesOK, SameButFrames
<1>6. JobsOK(k)
  BY <1>4 DEF GoodProcess, JobsOK, SameButFrames
<1>7. Top(k) = f /\ Len(k.frames) = n
  BY <1>3, <1>4 DEF Top
<1> QED
  BY <1>2, <1>3, <1>4, <1>5, <1>6, <1>7 DEF GoodProcess, n

LEMMA SetClosureGood ==
  ASSUME NEW m, GoodProcess(m), m.state = "run", NEW cl, GoodClosure(cl)
  PROVE  /\ GoodProcess(SetClosure(m, cl)) /\ SameButFrames(m, SetClosure(m, cl))
         /\ Closure(SetClosure(m, cl)) = cl
         /\ Len(SetClosure(m, cl).frames) = Len(m.frames)
         /\ \A i \in 1 .. Len(m.frames) - 1 : SetClosure(m, cl).frames[i] = m.frames[i]
<1> DEFINE f == [Top(m) EXCEPT !.cl = cl]
<1>1. /\ Top(m) \in FrameType /\ m \in ProcessType /\ m.frames \in Seq(FrameType)
      /\ Top(m) = m.frames[Len(m.frames)] /\ Len(m.frames) \in DOMAIN m.frames
  BY TopFacts
<1>2. f \in FrameType /\ f.cl = cl
  BY <1>1 DEF FrameType, GoodClosure
<1>3. SetClosure(m, cl) = SetTop(m, f)
  BY <1>1 DEF SetClosure, SetTop, ProcessType
<1> HIDE DEF f
<1>4. /\ GoodProcess(SetTop(m, f)) /\ SameButFrames(m, SetTop(m, f))
      /\ Top(SetTop(m, f)) = f /\ Len(SetTop(m, f).frames) = Len(m.frames)
      /\ \A i \in 1 .. Len(m.frames) - 1 : SetTop(m, f).frames[i] = m.frames[i]
  BY <1>2, SetTopGood
<1> QED
  BY <1>2, <1>3, <1>4 DEF Closure

LEMMA BranchGood ==
  ASSUME NEW m, GoodProcess(m), m.state = "run", NEW tag \in Nat
  PROVE  /\ GoodProcess(Branch(m, tag)) /\ SameButFrames(m, Branch(m, tag))
         /\ GoodClosure(Closure(Branch(m, tag)))
         /\ Closure(Branch(m, tag)).waitq = Closure(m).waitq
         /\ Len(Branch(m, tag).frames) = Len(m.frames)
<1> DEFINE cl == [Closure(m) EXCEPT !.entry = tag, !.cond = 0]
<1>1. GoodClosure(Closure(m)) /\ Closure(m) \in ClosureType
  BY TopFacts
<1>2. GoodClosure(cl) /\ cl.waitq = Closure(m).waitq
  BY <1>1 DEF GoodClosure, ClosureType
<1> HIDE DEF cl
<1>3. /\ GoodProcess(SetClosure(m, cl)) /\ SameButFrames(m, SetClosure(m, cl))
      /\ Closure(SetClosure(m, cl)) = cl
      /\ Len(SetClosure(m, cl).frames) = Len(m.frames)
  BY <1>2, SetClosureGood
<1>4. Branch(m, tag) = SetClosure(m, cl)
  BY DEF Branch, cl
<1> QED
  BY <1>2, <1>3, <1>4

-----------------------------------------------------------------------------
(* Leaving and returning.                                                  *)

LEMMA NothingLeft ==
  /\ << >> \in Seq(FrameType) /\ << >> \in Seq([order : Nat, cl : ClosureType])
  /\ DOMAIN << >> = {} /\ Len(<< >>) = 0
OBVIOUS

LEMMA LeaveGood ==
  ASSUME NEW m \in ProcessType, NEW status \in Nat
  PROVE  /\ GoodProcess(Leave(m, status)) /\ Leave(m, status).state = "ending"
         /\ Leave(m, status).parent = m.parent
<1> DEFINE byte == status % 256
           k == [m EXCEPT !.state = "ending", !.status = byte, !.frames = << >>, !.jobs = << >>]
<1>1. byte \in 0 .. 255
  OBVIOUS
<1>2. Leave(m, status) = k
  BY DEF Leave
<1> HIDE DEF byte
<1>3. /\ k \in ProcessType /\ k.state = "ending" /\ k.parent = m.parent
      /\ k.frames = << >> /\ k.jobs = << >>
  BY <1>1, NothingLeft DEF ProcessType
<1> HIDE DEF k
<1>4. FramesOK(k) /\ JobsOK(k)
  BY <1>3, NothingLeft DEF FramesOK, JobsOK
<1> QED
  BY <1>2, <1>3, <1>4 DEF GoodProcess

(* What is left of a shell's frames when the innermost one is gone.        *)
Outer(m) == [m EXCEPT !.frames = SubSeq(m.frames, 1, Len(m.frames) - 1)]
LEMMA OuterGood ==
  ASSUME NEW m, GoodProcess(m), m.state = "run", Len(m.frames) # 1
  PROVE  LET n == Len(m.frames) IN
         /\ n - 1 \in 1 .. n /\ m.frames[n - 1] \in FrameType
         /\ GoodClosure(m.frames[n - 1].cl) /\ m.frames[n - 1].cl.waitq = << >>
         /\ GoodProcess(Outer(m)) /\ SameButFrames(m, Outer(m))
         /\ Outer(m).frames = SubSeq(m.frames, 1, n - 1)
         /\ Len(Outer(m).frames) = n - 1 /\ Outer(m).frames[n - 1] = m.frames[n - 1]
<1> DEFINE n == Len(m.frames)
           frames == SubSeq(m.frames, 1, n - 1)
           inner == Outer(m)
<1>1. /\ m \in ProcessType /\ m.frames \in Seq(FrameType)
      /\ n \in Nat \ {0} /\ DOMAIN m.frames = 1 .. n
  BY TopFacts
<1>2. n - 1 \in 1 .. n /\ n - 1 \in Nat \ {0} /\ m.frames[n - 1] \in FrameType
  <2>1. n \in Nat \ {0} /\ n # 1
    BY <1>1
  <2> HIDE DEF n
  <2>2. n - 1 \in 1 .. n /\ n - 1 \in Nat \ {0}
    BY <2>1
  <2> QED
    BY <1>1, <2>2
<1>3. GoodClosure(m.frames[n - 1].cl) /\ m.frames[n - 1].cl.waitq = << >>
  BY <1>1, <1>2 DEF GoodProcess, FramesOK
<1>4. /\ frames \in Seq(FrameType) /\ Len(frames) = n - 1 /\ frames # << >>
      /\ DOMAIN frames = 1 .. n - 1 /\ \A i \in 1 .. n - 1 : frames[i] = m.frames[i]
  <2> HIDE DEF n
  <2>1. frames = [i \in 1 .. n - 1 |-> m.frames[i]]
    BY <1>1, <1>2
  <2>2. \A i \in 1 .. n - 1 : m.frames[i] \in FrameType
    BY <1>1, <1>2
  <2> HIDE DEF frames
  <2>3. frames \in Seq(FrameType) /\ Len(frames) = n - 1 /\ DOMAIN frames = 1 .. n - 1
    BY <1>2, <2>1, <2>2
  <2> QED
    BY <1>2, <2>1, <2>3
<1>5. inner = [m EXCEPT !.frames = frames]
  BY DEF Outer
<1> HIDE DEF frames, inner
<1>6. inner \in ProcessType /\ SameButFrames(m, inner) /\ inner.frames = frames
  BY <1>1, <1>4, <1>5 DEF ProcessType, SameButFrames
<1>7. FramesOK(inner)
  <2>1. /\ \A i \in DOMAIN m.frames : GoodClosure(m.frames[i].cl)
        /\ \A i \in 1 .. n - 1 : m.frames[i].cl.waitq = << >>
    BY DEF GoodProcess, FramesOK
  <2> HIDE DEF n
  <2>2. \A i \in 1 .. n - 1 : GoodClosure(frames[i].cl) /\ frames[i].cl.waitq = << >>
    BY <1>1, <1>4, <2>1
  <2>3. \A i \in 1 .. (n - 1) - 1 : i \in 1 .. n - 1
    BY <1>1
  <2> QED
    BY <1>4, <1>6, <2>2, <2>3 DEF FramesOK, SameButFrames
<1>8. JobsOK(inner)
  BY <1>6 DEF GoodProcess, JobsOK, SameButFrames
<1>9. GoodProcess(inner)
  BY <1>6, <1>7, <1>8 DEF GoodProcess
<1>10. n - 1 \in 1 .. n - 1
  BY <1>2
<1> QED
  BY <1>2, <1>3, <1>4, <1>6, <1>9, <1>10 DEF n, frames, inner

(* The innermost run_unchecked returns when nobody is waited for: nor does *)
(* whoever goes on wait for anybody.                                       *)
LEMMA ReturnGood ==
  ASSUME NEW m, GoodProcess(m), m.state = "run"
  PROVE  /\ GoodProcess(Return(m)) /\ Return(m).parent = m.parent
         /\ Return(m).state # "zombie" /\ Awaits(Return(m), {})
<1> DEFINE n == Len(m.frames)
           f == Top(m)
<1>1. /\ m \in ProcessType /\ m.frames \in Seq(FrameType)
      /\ n \in Nat \ {0} /\ DOMAIN m.frames = 1 .. n /\ f \in FrameType
  BY TopFacts
<1>2. CASE n = 1 /\ f.thrown
  <2>1. Return(m) = Leave(m, f.code) /\ f.code \in Nat
    BY <1>1, <1>2 DEF Return, FrameType
  <2> HIDE DEF f
  <2> QED
    BY <1>1, <2>1, LeaveGood DEF Awaits
<1>3. CASE n = 1 /\ ~f.thrown
  <2> DEFINE k == [m EXCEPT !.frames = << >>, !.code = f.code, !.state = "prompt"]
  <2>1. Return(m) = k
    BY <1>3 DEF Return
  <2> HIDE DEF f
  <2>2. /\ k \in ProcessType /\ k.parent = m.parent /\ k.state = "prompt"
        /\ k.frames = << >> /\ k.jobs = m.jobs /\ k.order = m.order
    BY <1>1, NothingLeft DEF ProcessType, FrameType
  <2> HIDE DEF k
  <2>3. FramesOK(k) /\ JobsOK(k)
    BY <2>2, NothingLeft DEF GoodProcess, FramesOK, JobsOK
  <2> QED
    BY <2>1, <2>2, <2>3 DEF GoodProcess, Awaits
<1>4. CASE n # 1
  <2> DEFINE outer == m.frames[n - 1]
             inner == Outer(m)
             cl == [outer.cl EXCEPT !.cond = IF f.code # 0 THEN 1 ELSE @]
             next == [cl |-> cl, thrown |-> f.thrown,
                      code |-> IF f.thrown THEN f.code ELSE outer.code]
  <2>1. Return(m) = SetTop(inner, next)
    BY <1>4 DEF Return, Outer
  <2>2. /\ outer \in FrameType /\ GoodClosure(outer.cl) /\ outer.cl.waitq = << >>
        /\ GoodProcess(inner) /\ SameButFrames(m, inner)
    BY <1>4, OuterGood
  <2> HIDE DEF inner
  <2>3. GoodClosure(cl) /\ cl.waitq = << >>
    BY <2>2 DEF GoodClosure, ClosureType
  <2>4. next \in FrameType /\ next.cl = cl
    BY <1>1, <2>2, <2>3 DEF FrameType, GoodClosure
  <2> HIDE DEF next, cl, f
  <2>5. /\ GoodProcess(SetTop(inner, next)) /\ SameButFrames(inner, SetTop(inner, next))
        /\ Top(SetTop(inner, next)) = next
    BY <2>2, <2>3, <2>4, SetTopGood DEF SameButFrames
  <2>6. Awaits(SetTop(inner, next), {})
    <3>1. Range(<< >>) = {} /\ EachOnce(<< >>)
      BY DEF Range, EachOnce
    <3> QED
      BY <2>2, <2>3, <2>4, <2>5, <3>1 DEF Awaits, Closure, SameButFrames
  <2> QED
    BY <2>1, <2>2, <2>5, <2>6 DEF SameButFrames
<1> QED
  BY <1>2, <1>3, <1>4

LEMMA ExitGood ==
  ASSUME NEW m, GoodProcess(m), m.state = "run", NEW code \in Nat
  PROVE  /\ GoodProcess(Exit(m, code)) /\ Exit(m, code).parent = m.parent
         /\ Exit(m, code).state # "zombie" /\ Awaits(Exit(m, code), {})
<1> DEFINE f == [Top(m) EXCEPT !.thrown = TRUE, !.code = code]
<1>1. Top(m) \in FrameType /\ GoodClosure(Top(m).cl)
  BY TopFacts
<1>2. f \in FrameType /\ f.cl = Top(m).cl
  BY <1>1 DEF FrameType
<1>3. Exit(m, code) = Return(SetTop(m, f))
  BY DEF Exit
<1> HIDE DEF f
<1>4. GoodProcess(SetTop(m, f)) /\ SameButFrames(m, SetTop(m, f))
  BY <1>1, <1>2, SetTopGood
<1> QED
  BY <1>3, <1>4, ReturnGood DEF SameButFrames

LEMMA DoneGood ==
  ASSUME NEW m, GoodProcess(m), m.state = "run", NEW code \in Nat
  PROVE  /\ GoodProcess(Done(m, code)) /\ Done(m, code).parent = m.parent
         /\ Done(m, code).state # "zombie" /\ Awaits(Done(m, code), {})
<1> DEFINE f == [Top(m) EXCEPT !.code = code]
<1>1. Top(m) \in FrameType /\ GoodClosure(Top(m).cl)
  BY TopFacts
<1>2. f \in FrameType /\ f.cl = Top(m).cl
  BY <1>1 DEF FrameType
<1>3. Done(m, code) = Return(SetTop(m, f)) \/ Done(m, code) = Exit(m, code)
  BY DEF Done
<1> HIDE DEF f
<1>4. GoodProcess(SetTop(m, f)) /\ SameButFrames(m, SetTop(m, f))
  BY <1>1, <1>2, SetTopGood
<1>5. CASE Done(m, code) = Return(SetTop(m, f))
  BY <1>4, <1>5, ReturnGood DEF SameButFrames
<1>6. CASE Done(m, code) = Exit(m, code)
  BY <1>6, ExitGood
<1> QED
  BY <1>3, <1>5, <1>6

-----------------------------------------------------------------------------
(* Closures, jobs and nested runs.                                         *)

LEMMA NewClosureGood ==
  ASSUME NEW name \in DOMAIN Program, NEW slot \in Nat
  PROVE  GoodClosure(NewClosure(name, slot)) /\ NewClosure(name, slot).waitq = << >>
<1>1. << >> \in Seq(Pids)
  OBVIOUS
<1> QED
  BY <1>1 DEF NewClosure, GoodClosure, ClosureType, Codes

LEMMA CompiledGood ==
  ASSUME NEW name \in DOMAIN Program, NEW cl \in Compiled(name)
  PROVE  GoodClosure(cl) /\ cl.waitq = << >>
<1>1. PICK slot \in Nat : cl = NewClosure(name, slot)
  BY Numbers DEF Compiled
<1> QED
  BY <1>1, NewClosureGood

LEMMA RunAwaits ==
  ASSUME NEW m, Closure(m).waitq = << >>, m.state # "prompt"
  PROVE  Awaits(m, {})
BY DEF Awaits, Range, EachOnce

(* A job is pushed in front, under an order above all others,              *)
LEMMA PushedGood ==
  ASSUME NEW m, GoodProcess(m), NEW cl, GoodClosure(cl), cl.waitq = << >>
  PROVE  /\ GoodProcess(Pushed(m, cl)) /\ Pushed(m, cl).frames = m.frames
         /\ Pushed(m, cl).state = m.state /\ Pushed(m, cl).parent = m.parent
<1> DEFINE Job == [order : Nat, cl : ClosureType]
           job == [order |-> m.order, cl |-> cl]
           jobs == << job >> \o m.jobs
           k == [m EXCEPT !.order = @ + 1, !.jobs = jobs]
<1>1. m \in ProcessType /\ m.jobs \in Seq(Job) /\ m.order \in Nat /\ Len(m.jobs) \in Nat
  BY DEF GoodProcess, ProcessType
<1>2. job \in Job
  BY <1>1 DEF GoodClosure
<1>3. /\ jobs \in Seq(Job) /\ Len(jobs) = Len(m.jobs) + 1
      /\ \A i \in 1 .. Len(m.jobs) + 1 : jobs[i] = IF i = 1 THEN job ELSE m.jobs[i - 1]
  <2> HIDE DEF job, Job
  <2>1. << job >> \in Seq(Job) /\ Len(<< job >>) = 1 /\ << job >>[1] = job
    BY <1>2
  <2>2. /\ jobs \in Seq(Job) /\ Len(jobs) = 1 + Len(m.jobs)
        /\ \A i \in 1 .. 1 + Len(m.jobs) :
             jobs[i] = IF i <= 1 THEN << job >>[i] ELSE m.jobs[i - 1]
    BY <1>1, <2>1, ConcatProperties
  <2> HIDE DEF jobs
  <2> QED
    BY <1>1, <2>1, <2>2
<1>4. Pushed(m, cl) = k
  BY DEF Pushed
<1> HIDE DEF jobs
<1>5. /\ k \in ProcessType /\ k.jobs = jobs /\ k.order = m.order + 1
      /\ k.frames = m.frames /\ k.state = m.state /\ k.parent = m.parent
  <2>1. m.order + 1 \in Nat
    BY <1>1
  <2> QED
    BY <1>1, <1>3, <2>1 DEF ProcessType
<1> HIDE DEF k
<1>6. FramesOK(k)
  BY <1>5 DEF GoodProcess, FramesOK
<1>7. JobsOK(k)
  <2>1. DOMAIN jobs = 1 .. Len(m.jobs) + 1 /\ DOMAIN m.jobs = 1 .. Len(m.jobs)
    BY <1>1, <1>3
  <2>2. \A i \in 2 .. Len(m.jobs) + 1 : i - 1 \in DOMAIN m.jobs /\ jobs[i] = m.jobs[i - 1]
    BY <1>1, <1>3, <2>1
  <2>3. jobs[1] = job /\ job.order = m.order /\ job.cl = cl
    BY <1>1, <1>3
  <2>4. \A i \in DOMAIN m.jobs : m.jobs[i].order \in Nat
    <3>1. \A i \in DOMAIN m.jobs : m.jobs[i] \in Job
      <4> HIDE DEF Job
      <4> QED
        BY <1>1
    <3> QED
      BY <3>1
  <2>5. \A i \in DOMAIN jobs : i = 1 \/ i \in 2 .. Len(m.jobs) + 1
    BY <1>1, <2>1
  <2> HIDE DEF job
  <2>6. ASSUME NEW i \in DOMAIN jobs
        PROVE  GoodClosure(jobs[i].cl) /\ jobs[i].cl.waitq = << >> /\ jobs[i].order < m.order + 1
    BY <1>1, <2>2, <2>3, <2>4, <2>5, SMTT(20) DEF GoodProcess, JobsOK
  <2>7. ASSUME NEW i \in DOMAIN jobs, NEW j \in DOMAIN jobs, i < j
        PROVE  jobs[i].order > jobs[j].order
    <3>1. j \in 2 .. Len(m.jobs) + 1 /\ j - 1 \in DOMAIN m.jobs /\ jobs[j] = m.jobs[j - 1]
      BY <1>1, <2>1, <2>2, <2>7
    <3>2. CASE i = 1
      BY <1>1, <2>3, <2>4, <3>1, <3>2 DEF GoodProcess, JobsOK
    <3>3. CASE i # 1
      <4>1. i - 1 \in DOMAIN m.jobs /\ jobs[i] = m.jobs[i - 1] /\ i - 1 < j - 1
        BY <1>1, <2>1, <2>2, <2>5, <2>7, <3>3, SMTT(20)
      <4> QED
        BY <3>1, <4>1 DEF GoodProcess, JobsOK
    <3> QED
      BY <3>2, <3>3
  <2> QED
    BY <1>5, <2>6, <2>7 DEF JobsOK
<1> QED
  BY <1>4, <1>5, <1>6, <1>7 DEF GoodProcess

(* and taken from there.                                                   *)
LEMMA PoppedGood ==
  ASSUME NEW m, GoodProcess(m), m.jobs # << >>
  PROVE  LET k == [m EXCEPT !.jobs = Tail(@)] IN
         /\ GoodProcess(k) /\ k.frames = m.frames /\ k.state = m.state /\ k.parent = m.parent
         /\ GoodClosure(m.jobs[1].cl) /\ m.jobs[1].cl.waitq = << >>
<1> DEFINE Job == [order : Nat, cl : ClosureType]
           jobs == Tail(m.jobs)
           k == [m EXCEPT !.jobs = jobs]
<1>1. m \in ProcessType /\ m.jobs \in Seq(Job) /\ Len(m.jobs) \in Nat \ {0}
  BY DEF GoodProcess, ProcessType
<1>2. /\ jobs \in Seq(Job) /\ DOMAIN jobs = 1 .. Len(m.jobs) - 1
      /\ \A i \in 1 .. Len(m.jobs) - 1 : jobs[i] = m.jobs[i + 1] /\ i + 1 \in DOMAIN m.jobs
  <2> HIDE DEF Job
  <2> QED
    BY <1>1, HeadTailProperties
<1> HIDE DEF jobs
<1>3. /\ k \in ProcessType /\ k.jobs = jobs /\ k.order = m.order
      /\ k.frames = m.frames /\ k.state = m.state /\ k.parent = m.parent
  BY <1>1, <1>2 DEF ProcessType
<1> HIDE DEF k
<1>4. FramesOK(k)
  BY <1>3 DEF GoodProcess, FramesOK
<1>5. JobsOK(k)
  <2>1. \A i \in DOMAIN jobs : jobs[i] = m.jobs[i + 1] /\ i + 1 \in DOMAIN m.jobs
    BY <1>2
  <2>2. \A i, j \in DOMAIN jobs : i < j => jobs[i].order > jobs[j].order
    <3>1. SUFFICES ASSUME NEW i \in DOMAIN jobs, NEW j \in DOMAIN jobs, i < j
                   PROVE  m.jobs[i + 1].order > m.jobs[j + 1].order
      BY <2>1
    <3>2. i + 1 < j + 1
      BY <1>1, <1>2, <3>1
    <3> QED
      BY <2>1, <3>2 DEF GoodProcess, JobsOK
  <2> QED
    BY <1>3, <2>1, <2>2 DEF GoodProcess, JobsOK
<1>6. 1 \in DOMAIN m.jobs
  BY <1>1
<1> QED
  BY <1>3, <1>4, <1>5, <1>6 DEF GoodProcess, JobsOK, k, jobs

(* A run inside a run that waits for nobody.                               *)
LEMMA NestedGood ==
  ASSUME NEW m, GoodProcess(m), m.state = "run", Closure(m).waitq = << >>,
         NEW cl, GoodClosure(cl), cl.waitq = << >>
  PROVE  LET k == [m EXCEPT !.frames = Append(@, NewFrame(cl, 0))] IN
         /\ GoodProcess(k) /\ k.state = "run" /\ k.parent = m.parent /\ Awaits(k, {})
<1> DEFINE n == Len(m.frames)
           f == NewFrame(cl, 0)
           frames == Append(m.frames, f)
           k == [m EXCEPT !.frames = frames]
<1>1. /\ m \in ProcessType /\ m.frames \in Seq(FrameType) /\ n \in Nat \ {0}
      /\ DOMAIN m.frames = 1 .. n /\ Closure(m) = m.frames[n].cl
  BY TopFacts
<1>2. f \in FrameType /\ f.cl = cl
  BY DEF NewFrame, FrameType, GoodClosure
<1> HIDE DEF f
<1>3. /\ frames \in Seq(FrameType) /\ Len(frames) = n + 1 /\ DOMAIN frames = 1 .. n + 1
      /\ frames[n + 1] = f /\ \A i \in 1 .. n : frames[i] = m.frames[i]
  BY <1>1, <1>2
<1>4. /\ \A i \in DOMAIN m.frames : GoodClosure(m.frames[i].cl)
      /\ \A i \in 1 .. n - 1 : m.frames[i].cl.waitq = << >>
  BY DEF GoodProcess, FramesOK
<1> HIDE DEF frames, n
<1>5. k \in ProcessType /\ SameButFrames(m, k) /\ k.frames = frames
  BY <1>1, <1>3 DEF ProcessType, SameButFrames
<1> HIDE DEF k
<1>6. FramesOK(k)
  <2>1. \A i \in 1 .. n + 1 : i = n + 1 \/ i \in 1 .. n
    BY <1>1
  <2>2. \A i \in 1 .. n : frames[i].cl.waitq = << >> /\ GoodClosure(frames[i].cl)
    BY <1>1, <1>3, <1>4
  <2>3. (n + 1) - 1 = n /\ frames # << >>
    BY <1>1, <1>3
  <2> QED
    BY <1>2, <1>3, <1>5, <2>1, <2>2, <2>3 DEF FramesOK, SameButFrames
<1>7. JobsOK(k)
  BY <1>5 DEF GoodProcess, JobsOK, SameButFrames
<1>8. Closure(k) = cl
  BY <1>2, <1>3, <1>5 DEF Closure, Top
<1>9. Awaits(k, {})
  BY <1>5, <1>8, RunAwaits DEF SameButFrames
<1> QED
  BY <1>5, <1>6, <1>7, <1>9 DEF GoodProcess, SameButFrames, k, frames, f

-----------------------------------------------------------------------------
(* The table.                                                              *)

LEMMA ProcessFacts ==
  ASSUME TableOK, NEW p \in DOMAIN procs
  PROVE  /\ GoodProcess(procs[p]) /\ procs[p] \in ProcessType
         /\ Awaits(procs[p], ChildrenOf(p)) /\ ParentLives(p)
         /\ p \in Pids /\ p # Nobody
BY Numbers DEF TableOK, GoodProcess, Nobody

(* A step that changes one process, and not whose child it is.             *)
LEMMA UpdateKeeps ==
  ASSUME TableOK, NEW p \in DOMAIN procs, NEW k, Update(p, k),
         GoodProcess(k), k.parent = procs[p].parent, k.state # "zombie",
         Awaits(k, ChildrenOf(p))
  PROVE  TableOK'
<1>1. /\ DOMAIN procs' = DOMAIN procs /\ procs' = [q \in DOMAIN procs' |-> procs'[q]]
      /\ procs'[p] = k /\ \A q \in DOMAIN procs \ {p} : procs'[q] = procs[q]
  BY DEF Update, TableOK
<1>2. \A q \in DOMAIN procs : procs'[q].parent = procs[q].parent
  BY <1>1
<1>3. \A q \in DOMAIN procs : ChildrenOf(q)' = ChildrenOf(q)
  BY <1>1, <1>2 DEF ChildrenOf, Proc
<1>4. ASSUME NEW q \in DOMAIN procs
      PROVE  GoodProcess(procs'[q]) /\ Awaits(procs'[q], ChildrenOf(q)') /\ ParentLives(q)'
  <2>1. GoodProcess(procs[q]) /\ Awaits(procs[q], ChildrenOf(q)) /\ ParentLives(q)
    BY ProcessFacts
  <2>2. GoodProcess(procs'[q]) /\ Awaits(procs'[q], ChildrenOf(q)')
    BY <1>1, <1>3, <2>1
  <2>3. ParentLives(q)'
    BY <1>1, <1>2, <2>1 DEF ParentLives
  <2> QED
    BY <2>2, <2>3
<1> QED
  BY <1>1, <1>4 DEF TableOK

(* A process that ends keeps its children for now.                         *)
LEMMA LeaveKeeps ==
  ASSUME TableOK, NEW p \in DOMAIN procs, NEW status \in Nat,
         Update(p, Leave(procs[p], status))
  PROVE  TableOK'
<1>1. procs[p] \in ProcessType
  BY ProcessFacts
<1>2. /\ GoodProcess(Leave(procs[p], status)) /\ Leave(procs[p], status).state = "ending"
      /\ Leave(procs[p], status).parent = procs[p].parent
  BY <1>1, LeaveGood
<1>3. Awaits(Leave(procs[p], status), ChildrenOf(p))
  BY <1>2 DEF Awaits
<1> QED
  BY <1>2, <1>3, UpdateKeeps

(* What is known where the marshal enters the closure.                     *)
LEMMA EnterFacts ==
  ASSUME TableOK, NEW p, NEW op, Enters(p, op)
  PROVE  /\ p \in DOMAIN procs /\ Proc(p) = procs[p] /\ procs[p].state = "run"
         /\ GoodProcess(procs[p]) /\ procs[p] \in ProcessType
         /\ Closure(procs[p]).waitq = << >> /\ ChildrenOf(p) = {}
         /\ GoodClosure(Closure(procs[p])) /\ Closure(procs[p]) \in ClosureType
         /\ Entry(procs[p]).op = op
         /\ EntryOK(Entry(procs[p]), Program[Closure(procs[p]).prog].detachables)
<1> DEFINE m == procs[p]
<1>1. p \in DOMAIN procs /\ m.state = "run" /\ Proc(p) = m
  BY DEF Enters, Running, IsShell, Proc
<1>2. /\ GoodProcess(m) /\ m \in ProcessType /\ Awaits(m, ChildrenOf(p))
  BY <1>1, ProcessFacts
<1>3. /\ Closure(m).waitq = << >> /\ Closure(m).entry \in DOMAIN Closure(m).code
      /\ Entry(m) = Closure(m).code[Closure(m).entry] /\ Entry(m).op = op
  BY <1>1 DEF Enters, Entries, Entry
<1> HIDE DEF m
<1>4. GoodClosure(Closure(m)) /\ Closure(m) \in ClosureType
  BY <1>1, <1>2, TopFacts
<1>5. EntryOK(Entry(m), Program[Closure(m).prog].detachables)
  BY <1>3, <1>4, ProgramIsCompiled DEF GoodClosure, ClosureType
<1>6. ChildrenOf(p) = {}
  BY <1>1, <1>2, <1>3 DEF Awaits, Range
<1> QED
  BY <1>1, <1>2, <1>3, <1>4, <1>5, <1>6 DEF m

LEMMA BranchKeeps ==
  ASSUME TableOK, NEW p, NEW op, Enters(p, op), NEW tag \in Nat,
         Update(p, Branch(Proc(p), tag))
  PROVE  TableOK'
<1> DEFINE m == procs[p]
           k == Branch(m, tag)
<1>1. /\ p \in DOMAIN procs /\ Proc(p) = m /\ m.state = "run" /\ GoodProcess(m)
      /\ Closure(m).waitq = << >> /\ ChildrenOf(p) = {}
  BY EnterFacts
<1> HIDE DEF m
<1>2. GoodProcess(k) /\ SameButFrames(m, k) /\ Closure(k).waitq = << >>
  BY <1>1, BranchGood
<1>3. Update(p, k)
  BY <1>1
<1> HIDE DEF k
<1>4. Awaits(k, ChildrenOf(p)) /\ k.parent = m.parent /\ k.state # "zombie"
  BY <1>1, <1>2, RunAwaits DEF SameButFrames
<1> QED
  BY <1>1, <1>2, <1>3, <1>4, UpdateKeeps DEF m

(* The entries that only branch, and the ones that end a run.              *)
LEMMA BranchesKeep ==
  ASSUME TableOK, NEW p, EnterEmpty(p) \/ EnterTest(p) \/ EnterSplice(p)
  PROVE  TableOK'
<1>1. CASE EnterEmpty(p)
  <2>1. Enters(p, "empty") /\ Entry(Proc(p)).next \in Nat
    BY <1>1, EnterFacts DEF EnterEmpty, EntryOK
  <2> QED
    BY <1>1, <2>1, BranchKeeps DEF EnterEmpty
<1>2. CASE EnterSplice(p)
  <2>1. Enters(p, "splice") /\ Entry(Proc(p)).next \in Nat
    BY <1>2, EnterFacts DEF EnterSplice, EntryOK
  <2> QED
    BY <1>2, <2>1, BranchKeeps DEF EnterSplice
<1>3. CASE EnterTest(p)
  <2> DEFINE e == Entry(Proc(p))
             tag == IF Closure(Proc(p)).cond = 0 THEN e.direct ELSE e.reverse
  <2>1. Enters(p, "test") /\ e.direct \in Nat /\ e.reverse \in Nat
    BY <1>3, EnterFacts DEF EnterTest, EntryOK
  <2>2. tag \in Nat /\ Update(p, Branch(Proc(p), tag))
    BY <1>3, <2>1 DEF EnterTest
  <2> HIDE DEF tag
  <2> QED
    BY <2>1, <2>2, BranchKeeps
<1> QED
  BY <1>1, <1>2, <1>3

LEMMA EndsKeep ==
  ASSUME TableOK, NEW p, EnterLast(p) \/ EnterExit(p)
  PROVE  TableOK'
<1> DEFINE m == procs[p]
<1>1. CASE EnterLast(p)
  <2>1. /\ p \in DOMAIN procs /\ m.state = "run" /\ GoodProcess(m) /\ ChildrenOf(p) = {}
        /\ Closure(m).cond \in Nat /\ Update(p, Done(m, Closure(m).cond))
    BY <1>1, EnterFacts DEF EnterLast, ClosureType
  <2> HIDE DEF m
  <2>2. /\ GoodProcess(Done(m, Closure(m).cond)) /\ Done(m, Closure(m).cond).parent = m.parent
        /\ Done(m, Closure(m).cond).state # "zombie" /\ Awaits(Done(m, Closure(m).cond), {})
    BY <2>1, DoneGood
  <2> QED
    BY <2>1, <2>2, UpdateKeeps DEF m
<1>2. CASE EnterExit(p)
  <2> DEFINE code == Entry(m).calls[1].arg
  <2>1. /\ p \in DOMAIN procs /\ m.state = "run" /\ GoodProcess(m) /\ ChildrenOf(p) = {}
        /\ EntryOK(Entry(m), Program[Closure(m).prog].detachables) /\ Entry(m).op = "step"
        /\ ExitsHere(Entry(m).calls) /\ Update(p, Exit(m, code))
    BY <1>2, EnterFacts DEF EnterExit
  <2>2. code \in Nat
    BY <2>1 DEF ExitsHere, Alone, IsNumber
  <2> HIDE DEF m, code
  <2>3. /\ GoodProcess(Exit(m, code)) /\ Exit(m, code).parent = m.parent
        /\ Exit(m, code).state # "zombie" /\ Awaits(Exit(m, code), {})
    BY <2>1, <2>2, ExitGood
  <2> QED
    BY <2>1, <2>3, UpdateKeeps DEF m
<1> QED
  BY <1>1, <1>2

(* Text that does not compile ends the process. *)
LEMMA RefusedKeeps ==
  ASSUME TableOK, NEW p \in DOMAIN procs, Refused(p)
  PROVE  TableOK'
<1>1. \E status \in {1, SIGABRT, SIGSEGV} : Update(p, Leave(procs[p], status))
  BY DEF Refused, Fail, Proc
<1>2. 1 \in Nat /\ SIGABRT \in Nat /\ SIGSEGV \in Nat
  BY DEF SIGABRT, SIGSEGV
<1> QED
  BY <1>1, <1>2, LeaveKeeps

LEMMA NowhereKeeps ==
  ASSUME TableOK, NEW p, EnterNowhere(p)
  PROVE  TableOK'
<1>1. /\ p \in DOMAIN procs /\ Update(p, Leave(procs[p], SIGSEGV)) /\ SIGSEGV \in Nat
  BY DEF EnterNowhere, Running, IsShell, Proc, SIGSEGV
<1> QED
  BY <1>1, LeaveKeeps

(* A detached command is pushed, or the end of the process.                *)
LEMMA DetachKeeps ==
  ASSUME TableOK, NEW p, EnterDetach(p) \/ EnterDetachUnset(p)
  PROVE  TableOK'
<1> DEFINE m == procs[p]
           e == Entry(m)
           jobs == Program[Closure(m).prog].detachables
           job == Last(jobs)
           k == Branch(m, e.next)
           pushed == Pushed(k, NewClosure(job, 0))
<1>1. /\ Enters(p, "detach") /\ p \in DOMAIN procs /\ Proc(p) = m /\ m.state = "run"
      /\ GoodProcess(m) /\ ChildrenOf(p) = {} /\ Closure(m).waitq = << >>
      /\ Closure(m) \in ClosureType /\ e.next \in Nat /\ jobs # << >>
  BY EnterFacts DEF EnterDetach, EnterDetachUnset, EntryOK
<1>2. \/ Update(p, Leave(m, SIGABRT)) \/ Update(p, Leave(m, SIGSEGV))
      \/ Update(p, k) \/ Update(p, pushed)
  BY <1>1 DEF EnterDetach, EnterDetachUnset
<1>3. SIGABRT \in Nat /\ SIGSEGV \in Nat
  BY DEF SIGABRT, SIGSEGV
<1>4. CASE Update(p, Leave(m, SIGABRT)) \/ Update(p, Leave(m, SIGSEGV))
  BY <1>1, <1>3, <1>4, LeaveKeeps
<1>5. CASE Update(p, k)
  BY <1>1, <1>5, BranchKeeps
<1>6. CASE Update(p, pushed)
  <2>1. jobs \in Seq(DOMAIN Program)
    BY <1>1, ProgramIsCompiled DEF ClosureType
  <2>2. job \in DOMAIN Program
    <3> HIDE DEF jobs
    <3> QED
      BY <1>1, <2>1 DEF Last
  <2> HIDE DEF m, e, job
  <2>3. GoodProcess(k) /\ SameButFrames(m, k) /\ Closure(k).waitq = << >>
    BY <1>1, BranchGood
  <2> HIDE DEF k
  <2>4. /\ GoodClosure(NewClosure(job, 0)) /\ NewClosure(job, 0).waitq = << >>
    BY <2>2, NewClosureGood
  <2>5. /\ GoodProcess(pushed) /\ pushed.frames = k.frames
        /\ pushed.state = k.state /\ pushed.parent = k.parent
    BY <2>3, <2>4, PushedGood
  <2> HIDE DEF pushed
  <2>6. Closure(pushed).waitq = << >>
    BY <2>3, <2>5 DEF Closure, Top
  <2>7. Awaits(pushed, {}) /\ pushed.parent = m.parent /\ pushed.state # "zombie"
    BY <1>1, <2>3, <2>5, <2>6, RunAwaits DEF SameButFrames
  <2> QED
    BY <1>1, <1>6, <2>5, <2>7, UpdateKeeps DEF m
<1> QED
  BY <1>2, <1>4, <1>5, <1>6

(* `again' and `fg' run a closure that waits for nobody inside one that    *)
(* waits for nobody.                                                       *)
LEMMA InsideKeeps ==
  ASSUME TableOK, NEW p \in DOMAIN procs, ChildrenOf(p) = {},
         NEW m, GoodProcess(m), m.state = "run", m.parent = procs[p].parent,
         Closure(m).waitq = << >>, Entry(m).next \in Nat,
         NEW cl, GoodClosure(cl), cl.waitq = << >>, RunInside(p, cl, m)
  PROVE  TableOK'
<1> DEFINE m1 == Branch(m, Entry(m).next)
           k == [m1 EXCEPT !.frames = Append(@, NewFrame(cl, 0))]
<1>1. GoodProcess(m1) /\ SameButFrames(m, m1) /\ Closure(m1).waitq = << >>
  BY BranchGood
<1>2. Update(p, k)
  BY DEF RunInside
<1> HIDE DEF m1
<1>3. GoodProcess(k) /\ k.state = "run" /\ k.parent = m1.parent /\ Awaits(k, {})
  BY <1>1, NestedGood DEF SameButFrames
<1> HIDE DEF k
<1> QED
  BY <1>1, <1>2, <1>3, UpdateKeeps DEF SameButFrames

LEMMA AgainKeeps ==
  ASSUME TableOK, setting \in Settings, NEW p, EnterAgain(p)
  PROVE  TableOK'
<1>1. PICK name \in setting.again : \E cl \in Compiled(name) : RunInside(p, cl, Proc(p))
  BY DEF EnterAgain
<1>2. PICK cl \in Compiled(name) : RunInside(p, cl, Proc(p))
  BY <1>1
<1>3. GoodClosure(cl) /\ cl.waitq = << >>
  BY SettingsAreSettings, CompiledGood
<1>4. /\ p \in DOMAIN procs /\ ChildrenOf(p) = {} /\ Proc(p) = procs[p]
      /\ GoodProcess(Proc(p)) /\ Proc(p).state = "run" /\ Closure(Proc(p)).waitq = << >>
      /\ Entry(Proc(p)).next \in Nat
  BY EnterFacts DEF EnterAgain, EntryOK
<1> QED
  BY <1>2, <1>3, <1>4, InsideKeeps

LEMMA FgKeeps ==
  ASSUME TableOK, NEW p, EnterFg(p)
  PROVE  TableOK'
<1> DEFINE m == procs[p]
           k == [m EXCEPT !.jobs = Tail(@)]
<1>1. /\ p \in DOMAIN procs /\ ChildrenOf(p) = {} /\ Proc(p) = m
      /\ GoodProcess(m) /\ m.state = "run" /\ Closure(m).waitq = << >>
      /\ Entry(m).next \in Nat
  BY EnterFacts DEF EnterFg, EntryOK
<1>2. m.jobs # << >> /\ RunInside(p, m.jobs[1].cl, k)
  BY <1>1 DEF EnterFg, FgHere
<1> HIDE DEF m
<1>3. /\ GoodProcess(k) /\ k.frames = m.frames /\ k.state = m.state /\ k.parent = m.parent
      /\ GoodClosure(m.jobs[1].cl) /\ m.jobs[1].cl.waitq = << >>
  BY <1>1, <1>2, PoppedGood
<1> HIDE DEF k
<1>4. Closure(k) = Closure(m) /\ Entry(k) = Entry(m)
  BY <1>3 DEF Closure, Top, Entry, Entries
<1> QED
  BY <1>1, <1>2, <1>3, <1>4, InsideKeeps DEF m

(* main.c: a line, a script, an error, the end.                            *)
LEMMA StartKeeps ==
  ASSUME TableOK, NEW p \in DOMAIN procs, procs[p].state = "prompt",
         NEW name \in DOMAIN Program, NEW m \in ProcessType, GoodProcess(m),
         m.parent = procs[p].parent, StartLine(p, name, m)
  PROVE  TableOK'
<1>1. PICK cl \in Compiled(name) :
        Update(p, [m EXCEPT !.state = "run", !.frames = << NewFrame(cl, m.code) >>])
  BY DEF StartLine
<1> DEFINE f == NewFrame(cl, m.code)
           k == [m EXCEPT !.state = "run", !.frames = << f >>]
<1>2. GoodClosure(cl) /\ cl.waitq = << >> /\ m.code \in Nat
  BY CompiledGood DEF ProcessType
<1>3. f \in FrameType /\ f.cl = cl
  BY <1>2 DEF NewFrame, FrameType, GoodClosure
<1> HIDE DEF f
<1>4. << f >> \in Seq(FrameType) /\ Len(<< f >>) = 1 /\ << f >>[1] = f /\ DOMAIN << f >> = {1}
  BY <1>3
<1>5. /\ k \in ProcessType /\ k.state = "run" /\ k.frames = << f >> /\ k.parent = m.parent
      /\ k.jobs = m.jobs /\ k.order = m.order
  BY <1>4 DEF ProcessType
<1> HIDE DEF k
<1>6. FramesOK(k) /\ JobsOK(k)
  <2>1. 1 .. 1 - 1 = {} /\ << f >> # << >>
    OBVIOUS
  <2> QED
    BY <1>2, <1>3, <1>4, <1>5, <2>1 DEF GoodProcess, FramesOK, JobsOK
<1>7. Closure(k).waitq = << >>
  BY <1>2, <1>3, <1>4, <1>5 DEF Closure, Top
<1>8. ChildrenOf(p) = {}
  BY ProcessFacts DEF Awaits
<1>9. Awaits(k, ChildrenOf(p))
  BY <1>5, <1>7, <1>8, RunAwaits
<1> QED
  BY <1>1, <1>5, <1>6, <1>9, UpdateKeeps DEF GoodProcess, k, f

LEMMA MainKeeps ==
  ASSUME RunnerInv, NEW p,
         \/ \E name \in setting.lines : ReadLine(p, name)
         \/ RunScript(p) \/ ReadMalformed(p) \/ EndOfInput(p)
  PROVE  TableOK'
<1> DEFINE m == procs[p]
<1>1. /\ p \in DOMAIN procs /\ m.state = "prompt" /\ Proc(p) = m /\ TableOK
      /\ setting \in Settings
  BY DEF ReadLine, RunScript, ReadMalformed, EndOfInput, IsShell, Proc, RunnerInv, RecordOK
<1>2. m \in ProcessType /\ GoodProcess(m)
  BY <1>1, ProcessFacts
<1>3. CASE \E name \in setting.lines : ReadLine(p, name)
  <2>1. PICK name \in setting.lines : StartLine(p, name, m)
    BY <1>1, <1>3 DEF ReadLine
  <2>2. name \in DOMAIN Program
    BY <1>1, SettingsAreSettings
  <2> QED
    BY <1>1, <1>2, <2>1, <2>2, StartKeeps
<1>4. CASE RunScript(p)
  <2> DEFINE k == [m EXCEPT !.scripts = Tail(@)]
  <2>1. m.scripts \in Seq(DOMAIN Program) /\ m.scripts # << >>
        /\ StartLine(p, Head(m.scripts), k)
    BY <1>1, <1>2, <1>4 DEF RunScript, ProcessType
  <2> HIDE DEF m
  <2>2. Head(m.scripts) \in DOMAIN Program /\ Tail(m.scripts) \in Seq(DOMAIN Program)
    BY <2>1, HeadTailProperties
  <2>3. /\ k \in ProcessType /\ k.parent = m.parent /\ k.state = m.state
        /\ k.frames = m.frames /\ k.jobs = m.jobs /\ k.order = m.order
    BY <1>2, <2>2 DEF ProcessType
  <2> HIDE DEF k
  <2>4. GoodProcess(k)
    BY <1>2, <2>3 DEF GoodProcess, FramesOK, JobsOK
  <2> QED
    BY <1>1, <2>1, <2>2, <2>3, <2>4, StartKeeps DEF m
<1>5. CASE ReadMalformed(p)
  BY <1>1, <1>5, RefusedKeeps DEF ReadMalformed
<1>6. CASE EndOfInput(p)
  <2>1. Update(p, Leave(m, m.code)) /\ m.code \in Nat
    BY <1>1, <1>2, <1>6 DEF EndOfInput, ProcessType
  <2> QED
    BY <1>1, <2>1, LeaveKeeps
<1> QED
  BY <1>3, <1>4, <1>5, <1>6

-----------------------------------------------------------------------------
(* fork, waitpid and exit.                                                 *)

(* The pids of new children are unused ones, each another.                 *)
LEMMA ForkedFacts ==
  ASSUME TableOK, setting \in Settings, NEW n \in Nat, NEW pids \in Forked(n)
  PROVE  /\ pids \in Seq(Pids) /\ Len(pids) \in 0 .. n /\ EachOnce(pids)
         /\ DOMAIN pids = 1 .. Len(pids)
         /\ \A i \in DOMAIN pids : pids[i] \notin DOMAIN procs
<1> DEFINE free == setting.pids \ DOMAIN procs
           k == IF Cardinality(free) < n THEN Cardinality(free) ELSE n
<1>1. free \subseteq Pids
  BY SettingsAreSettings
<1>2. IsFiniteSet(free)
  BY <1>1, Numbers, FS_Subset
<1>3. Cardinality(free) \in Nat
  BY <1>2, FS_CardinalityType
<1>4. k \in 0 .. n
  BY <1>3
<1>5. pids \in [1 .. k -> free] /\ \A i \in 1 .. k : Cardinality({r \in free : r < pids[i]}) = i - 1
  BY DEF Forked
<1> HIDE DEF k
<1>6. EachOnce(pids)
  <2>1. SUFFICES ASSUME NEW i \in 1 .. k, NEW j \in 1 .. k, pids[i] = pids[j]
                 PROVE  i = j
    BY <1>5 DEF EachOnce
  <2> DEFINE below(q) == {r \in free : r < q}
  <2>2. Cardinality(below(pids[i])) = i - 1 /\ Cardinality(below(pids[j])) = j - 1
    BY <1>5
  <2>3. below(pids[i]) = below(pids[j])
    BY <2>1
  <2> HIDE DEF below
  <2>4. i - 1 = j - 1 /\ i \in Nat /\ j \in Nat
    BY <1>4, <2>2, <2>3
  <2> QED
    BY <2>4
<1>7. \A i \in 1 .. k : pids[i] \in Pids /\ pids[i] \notin DOMAIN procs
  BY <1>1, <1>5
<1>8. pids \in Seq(Pids) /\ Len(pids) = k /\ DOMAIN pids = 1 .. k
  <2> HIDE DEF free
  <2>1. pids \in [1 .. k -> Pids] /\ k \in Nat
    BY <1>4, <1>5, <1>7
  <2> QED
    BY <2>1
<1> QED
  BY <1>4, <1>6, <1>7, <1>8

LEMMA ReparentGood ==
  ASSUME NEW m, GoodProcess(m), NEW p \in Pids, Awaits(m, {})
  PROVE  LET k == [m EXCEPT !.parent = p] IN
         GoodProcess(k) /\ k.parent = p /\ k.state = m.state /\ Awaits(k, {})
<1> DEFINE k == [m EXCEPT !.parent = p]
<1>1. /\ k \in ProcessType /\ k.parent = p /\ k.state = m.state /\ k.frames = m.frames
      /\ k.jobs = m.jobs /\ k.order = m.order
  BY DEF GoodProcess, ProcessType
<1> HIDE DEF k
<1>2. FramesOK(k) /\ JobsOK(k)
  BY <1>1 DEF GoodProcess, FramesOK, JobsOK
<1>3. Awaits(k, {})
  BY <1>1 DEF Awaits, Closure, Top
<1> QED
  BY <1>1, <1>2, <1>3 DEF GoodProcess, k

(* A shell without children forks some, all of them under new pids, and    *)
(* waits for them or is no longer one.                                     *)
LEMMA ForkKeeps ==
  ASSUME TableOK, NEW p \in DOMAIN procs, ChildrenOf(p) = {},
         procs[p].state = "run",
         NEW pids \in Seq(Pids), DOMAIN pids = 1 .. Len(pids), EachOnce(pids),
         \A i \in DOMAIN pids : pids[i] \notin DOMAIN procs,
         NEW children,
         \A i \in DOMAIN pids : /\ GoodProcess(children[i]) /\ Awaits(children[i], {})
                                /\ children[i].state # "zombie",
         NEW next, GoodProcess(next), next.parent = procs[p].parent,
         next.state # "zombie", Awaits(next, Range(pids)),
         Fork(p, children, pids, next)
  PROVE  TableOK'
<1> DEFINE new == Range(pids)
           born(q) == [children[CHOOSE i \in DOMAIN pids : pids[i] = q] EXCEPT !.parent = p]
<1>1. GoodProcess(procs[p]) /\ procs[p] \in ProcessType /\ p \in Pids /\ p # Nobody
  BY ProcessFacts
<1>2. new \subseteq Pids /\ new \cap DOMAIN procs = {}
  BY DEF Range
<1>3. procs' = [q \in DOMAIN procs \cup new |->
                  IF q = p THEN next ELSE IF q \in DOMAIN procs THEN procs[q] ELSE born(q)]
  BY DEF Fork
<1>4. ASSUME NEW q \in new
      PROVE  /\ GoodProcess(born(q)) /\ born(q).parent = p /\ Awaits(born(q), {})
             /\ born(q).state # "zombie"
  <2> DEFINE i == CHOOSE i \in DOMAIN pids : pids[i] = q
  <2>1. i \in DOMAIN pids
    BY DEF Range
  <2> HIDE DEF i
  <2>2. GoodProcess(children[i]) /\ Awaits(children[i], {}) /\ children[i].state # "zombie"
    BY <2>1
  <2>3. LET k == [children[i] EXCEPT !.parent = p] IN
        GoodProcess(k) /\ k.parent = p /\ k.state = children[i].state /\ Awaits(k, {})
    BY <1>1, <2>2, ReparentGood
  <2> QED
    BY <2>2, <2>3 DEF i
<1>5. /\ GoodProcess(next) /\ next.parent = procs[p].parent
      /\ next.state # "zombie" /\ Awaits(next, new)
  OBVIOUS
<1> HIDE DEF born, new
<1>6. /\ DOMAIN procs' = DOMAIN procs \cup new /\ procs' = [q \in DOMAIN procs' |-> procs'[q]]
      /\ procs'[p] = next
      /\ \A q \in DOMAIN procs \ {p} : procs'[q] = procs[q]
      /\ \A q \in new : procs'[q] = born(q)
  BY <1>2, <1>3
<1>7. \A q \in DOMAIN procs : procs'[q].parent = procs[q].parent
  BY <1>5, <1>6
<1>8. ChildrenOf(p)' = new
  BY <1>4, <1>6, <1>7 DEF ChildrenOf, Proc
<1>9. \A q \in DOMAIN procs \ {p} : ChildrenOf(q)' = ChildrenOf(q)
  BY <1>2, <1>4, <1>6, <1>7 DEF ChildrenOf, Proc
<1>10. \A q \in new : ChildrenOf(q)' = {}
  <2>1. SUFFICES ASSUME NEW q \in new, NEW c \in DOMAIN procs', procs'[c].parent = q
                 PROVE  FALSE
    BY DEF ChildrenOf, Proc
  <2>2. c \in DOMAIN procs /\ procs[c].parent = q
    BY <1>2, <1>4, <1>6, <1>7, <2>1
  <2>3. q # Nobody /\ q \notin DOMAIN procs
    BY <1>2, Numbers DEF Nobody
  <2> QED
    BY <2>2, <2>3 DEF TableOK, ParentLives
<1>11. ASSUME NEW q \in DOMAIN procs'
       PROVE  GoodProcess(procs'[q]) /\ Awaits(procs'[q], ChildrenOf(q)')
  <2>1. CASE q = p
    BY <1>5, <1>6, <1>8, <2>1
  <2>2. CASE q \in DOMAIN procs \ {p}
    BY <1>6, <1>9, <2>2, ProcessFacts
  <2>3. CASE q \in new
    BY <1>4, <1>6, <1>10, <2>3
  <2> QED
    BY <1>6, <2>1, <2>2, <2>3
<1>12. ASSUME NEW q \in DOMAIN procs'
       PROVE  ParentLives(q)'
  <2>1. \A r \in DOMAIN procs : procs[r].state # "zombie" => procs'[r].state # "zombie"
    BY <1>5, <1>6
  <2>2. CASE q \in DOMAIN procs
    BY <1>6, <1>7, <2>1, <2>2 DEF TableOK, ParentLives
  <2>3. CASE q \in new
    BY <1>2, <1>4, <1>5, <1>6, <2>3 DEF ParentLives
  <2> QED
    BY <1>6, <2>2, <2>3
<1> QED
  BY <1>1, <1>2, <1>6, <1>11, <1>12 DEF TableOK

(* It goes on when all of its children exist and ends when one does not.   *)
LEMMA ForkAllKeeps ==
  ASSUME TableOK, NEW p \in DOMAIN procs, ChildrenOf(p) = {},
         procs[p].state = "run",
         NEW pids \in Seq(Pids), DOMAIN pids = 1 .. Len(pids), EachOnce(pids),
         \A i \in DOMAIN pids : pids[i] \notin DOMAIN procs,
         NEW children,
         \A i \in DOMAIN pids : /\ GoodProcess(children[i]) /\ Awaits(children[i], {})
                                /\ children[i].state # "zombie",
         NEW m, GoodProcess(m), m.state = "run", m.parent = procs[p].parent,
         ForkAll(p, children, pids, m)
  PROVE  TableOK'
<1> DEFINE cl == WaitFor(Closure(m), pids)
           next == IF Len(pids) < Len(children) THEN Fail(Proc(p)) ELSE SetClosure(m, cl)
<1>1. GoodProcess(procs[p]) /\ procs[p] \in ProcessType
  BY ProcessFacts
<1>2. Fork(p, children, pids, next)
  BY DEF ForkAll
<1>3. /\ GoodProcess(next) /\ next.parent = procs[p].parent /\ next.state # "zombie"
      /\ Awaits(next, Range(pids))
  <2>1. CASE Len(pids) < Len(children)
    <3>1. next = Leave(procs[p], 1) /\ 1 \in Nat
      BY <2>1 DEF Fail, Proc
    <3> HIDE DEF next
    <3> QED
      BY <1>1, <3>1, LeaveGood DEF Awaits
  <2>2. CASE ~(Len(pids) < Len(children))
    <3>1. GoodClosure(Closure(m)) /\ Closure(m) \in ClosureType
      BY TopFacts
    <3>2. GoodClosure(cl) /\ cl.waitq = pids
      BY <3>1 DEF GoodClosure, ClosureType, WaitFor
    <3>3. next = SetClosure(m, cl)
      BY <2>2
    <3> HIDE DEF next, cl
    <3>4. GoodProcess(next) /\ SameButFrames(m, next) /\ Closure(next) = cl
      BY <3>2, <3>3, SetClosureGood
    <3> QED
      BY <3>2, <3>4 DEF SameButFrames, Awaits
  <2> QED
    BY <2>1, <2>2
<1> HIDE DEF next
<1> QED
  BY <1>2, <1>3, ForkKeeps

LEMMA EndingGood ==
  ASSUME NEW status \in 0 .. 255
  PROVE  /\ GoodProcess(Ending(status)) /\ Awaits(Ending(status), {})
         /\ Ending(status).state # "zombie"
<1> DEFINE k == Ending(status)
<1>1. << >> \in Seq(DOMAIN Program)
  OBVIOUS
<1>2. /\ k \in ProcessType /\ k.state = "ending" /\ k.frames = << >> /\ k.jobs = << >>
  BY <1>1, NothingLeft DEF Ending, ProcessType
<1> HIDE DEF k
<1>3. FramesOK(k) /\ JobsOK(k) /\ Awaits(k, {})
  BY <1>2, NothingLeft DEF FramesOK, JobsOK, Awaits
<1> QED
  BY <1>2, <1>3 DEF GoodProcess, k

(* Whatever an invocation's child does, it has nobody to wait for.         *)
LEMMA ChildGood ==
  ASSUME NEW m, GoodProcess(m), m.state = "run", will \in Outcomes,
         NEW calls, NEW i, CallOK(calls[i])
  PROVE  /\ GoodProcess(Child(m, calls, i)) /\ Awaits(Child(m, calls, i), {})
         /\ Child(m, calls, i).state # "zombie"
<1>1. CASE calls[i].kind = "regular"
  <2>1. Child(m, calls, i) = Ending(will[calls[i].cmd])
    BY <1>1 DEF Child
  <2>2. will[calls[i].cmd] \in 0 .. 255
    BY <1>1, StatusesFit DEF CallOK, Outcomes
  <2> QED
    BY <2>1, <2>2, EndingGood
<1>2. CASE calls[i].kind # "regular" /\ (calls[i].kind = "fg" \/ ReportsError(calls))
  <2>1. Child(m, calls, i) = Ending(1)
    BY <1>2 DEF Child
  <2> QED
    BY <2>1, EndingGood
<1>3. CASE calls[i].kind # "regular" /\ ~(calls[i].kind = "fg" \/ ReportsError(calls))
  <2>1. \E code \in Nat : Child(m, calls, i) = Exit(m, code)
    BY <1>3 DEF Child
  <2> QED
    BY <2>1, ExitGood
<1> QED
  BY <1>1, <1>2, <1>3

LEMMA StepKeeps ==
  ASSUME TableOK, RecordOK, NEW p, EnterStep(p)
  PROVE  TableOK'
<1> DEFINE m == procs[p]
           calls == Entry(m).calls
           children == [i \in DOMAIN calls |-> Child(m, calls, i)]
           k == Branch(m, Entry(m).next)
<1>1. /\ p \in DOMAIN procs /\ Proc(p) = m /\ m.state = "run" /\ GoodProcess(m)
      /\ ChildrenOf(p) = {} /\ Entry(m).next \in Nat
      /\ Len(calls) \in Nat /\ DOMAIN calls = 1 .. Len(calls)
      /\ \A i \in DOMAIN calls : CallOK(calls[i])
  BY EnterFacts DEF EnterStep, EntryOK
<1>2. PICK pids \in Forked(Len(calls)) :
        ForkAll(p, children, pids, k) \/ Fork(p, children, pids, Fail(m))
  BY <1>1 DEF EnterStep
<1> HIDE DEF calls
<1>3. /\ pids \in Seq(Pids) /\ Len(pids) \in 0 .. Len(calls) /\ EachOnce(pids)
      /\ DOMAIN pids = 1 .. Len(pids)
      /\ \A i \in DOMAIN pids : pids[i] \notin DOMAIN procs
  BY <1>1, <1>2, ForkedFacts DEF RecordOK
<1> HIDE DEF m
<1>4. \A i \in DOMAIN pids : /\ GoodProcess(children[i]) /\ Awaits(children[i], {})
                             /\ children[i].state # "zombie"
  <2>1. SUFFICES ASSUME NEW i \in DOMAIN pids
                 PROVE  /\ GoodProcess(Child(m, calls, i)) /\ Awaits(Child(m, calls, i), {})
                        /\ Child(m, calls, i).state # "zombie"
    BY <1>1, <1>3
  <2>2. CallOK(calls[i])
    BY <1>1, <1>3
  <2> QED
    BY <1>1, <2>2, ChildGood DEF RecordOK
<1> HIDE DEF children
<1>5. GoodProcess(k) /\ k.state = "run" /\ k.parent = m.parent
  BY <1>1, BranchGood DEF SameButFrames
<1> HIDE DEF k
<1>6. k.parent = procs[p].parent /\ procs[p].state = "run"
  BY <1>1, <1>5 DEF m
<1>7. CASE ForkAll(p, children, pids, k)
  BY <1>1, <1>3, <1>4, <1>5, <1>6, <1>7, ForkAllKeeps
<1>8. CASE Fork(p, children, pids, Fail(m))
  <2>1. /\ GoodProcess(Fail(m)) /\ Fail(m).parent = procs[p].parent
        /\ Fail(m).state = "ending"
    BY <1>1, LeaveGood DEF Fail, GoodProcess, m
  <2>2. Awaits(Fail(m), Range(pids)) /\ Fail(m).state # "zombie"
    BY <2>1 DEF Awaits
  <2> QED
    BY <1>1, <1>3, <1>4, <1>6, <1>8, <2>1, <2>2, ForkKeeps
<1> QED
  BY <1>2, <1>7, <1>8

LEMMA ExpandKeeps ==
  ASSUME TableOK, RecordOK, NEW p, EnterExpand(p)
  PROVE  TableOK'
<1> DEFINE m == procs[p]
           heads == Entry(m).heads
           cl(i) == [Closure(m) EXCEPT !.waitq = << >>, !.entry = heads[i], !.cond = 0]
           children == [i \in DOMAIN heads |-> SetClosure(m, cl(i))]
           k == Branch(m, Entry(m).next)
<1>1. /\ p \in DOMAIN procs /\ Proc(p) = m /\ m.state = "run" /\ GoodProcess(m)
      /\ ChildrenOf(p) = {} /\ Entry(m).next \in Nat /\ heads \in Seq(Nat)
      /\ GoodClosure(Closure(m)) /\ Closure(m) \in ClosureType
  BY EnterFacts DEF EnterExpand, EntryOK
<1>2. PICK pids \in Forked(Len(heads)) : ForkAll(p, children, pids, k)
  BY <1>1 DEF EnterExpand
<1> HIDE DEF heads
<1>3. Len(heads) \in Nat /\ DOMAIN heads = 1 .. Len(heads) /\ \A i \in DOMAIN heads : heads[i] \in Nat
  BY <1>1
<1>4. /\ pids \in Seq(Pids) /\ Len(pids) \in 0 .. Len(heads) /\ EachOnce(pids)
      /\ DOMAIN pids = 1 .. Len(pids)
      /\ \A i \in DOMAIN pids : pids[i] \notin DOMAIN procs
  BY <1>1, <1>2, <1>3, ForkedFacts DEF RecordOK
<1> HIDE DEF m, cl
<1>5. \A i \in DOMAIN pids : /\ GoodProcess(children[i]) /\ Awaits(children[i], {})
                             /\ children[i].state # "zombie"
  <2>1. SUFFICES ASSUME NEW i \in DOMAIN pids
                 PROVE  /\ GoodProcess(SetClosure(m, cl(i))) /\ Awaits(SetClosure(m, cl(i)), {})
                        /\ SetClosure(m, cl(i)).state # "zombie"
    BY <1>3, <1>4
  <2>2. heads[i] \in Nat /\ << >> \in Seq(Pids)
    BY <1>3, <1>4
  <2>3. GoodClosure(cl(i)) /\ cl(i).waitq = << >>
    BY <1>1, <2>2 DEF GoodClosure, ClosureType, cl
  <2>4. /\ GoodProcess(SetClosure(m, cl(i))) /\ SameButFrames(m, SetClosure(m, cl(i)))
        /\ Closure(SetClosure(m, cl(i))) = cl(i)
    BY <1>1, <2>3, SetClosureGood
  <2> QED
    BY <1>1, <2>3, <2>4, RunAwaits DEF SameButFrames
<1> HIDE DEF children
<1>6. GoodProcess(k) /\ k.state = "run" /\ k.parent = m.parent
  BY <1>1, BranchGood DEF SameButFrames
<1> HIDE DEF k
<1>7. k.parent = procs[p].parent /\ procs[p].state = "run"
  BY <1>1, <1>6 DEF m
<1> QED
  BY <1>1, <1>2, <1>4, <1>5, <1>6, <1>7, ForkAllKeeps

(* The head of a queue of different children is awaited no more.           *)
LEMMA TailFacts ==
  ASSUME NEW pids \in Seq(Pids), pids # << >>, EachOnce(pids)
  PROVE  /\ Tail(pids) \in Seq(Pids) /\ EachOnce(Tail(pids))
         /\ Range(Tail(pids)) = Range(pids) \ {Head(pids)}
<1> DEFINE n == Len(pids)
           rest == Tail(pids)
<1>1. n \in Nat \ {0} /\ DOMAIN pids = 1 .. n /\ Head(pids) = pids[1]
  OBVIOUS
<1>2. /\ rest \in Seq(Pids) /\ DOMAIN rest = 1 .. n - 1
      /\ \A i \in 1 .. n - 1 : rest[i] = pids[i + 1] /\ i + 1 \in 2 .. n
  BY <1>1, HeadTailProperties
<1> HIDE DEF rest, n
<1>3. \A i \in 2 .. n : i \in DOMAIN pids /\ i # 1 /\ i - 1 \in DOMAIN rest /\ rest[i - 1] = pids[i]
  BY <1>1, <1>2
<1>4. EachOnce(rest)
  <2>1. SUFFICES ASSUME NEW i \in DOMAIN rest, NEW j \in DOMAIN rest, rest[i] = rest[j]
                 PROVE  i = j
    BY DEF EachOnce
  <2>2. i + 1 = j + 1 /\ i \in Int /\ j \in Int
    BY <1>2, <1>3, <2>1 DEF EachOnce
  <2> QED
    BY <2>2
<1>5. Range(rest) \subseteq Range(pids) \ {Head(pids)}
  <2>1. SUFFICES ASSUME NEW i \in DOMAIN rest
                 PROVE  rest[i] \in Range(pids) /\ rest[i] # pids[1]
    BY <1>1 DEF Range
  <2>2. rest[i] = pids[i + 1] /\ i + 1 \in DOMAIN pids /\ i + 1 # 1 /\ 1 \in DOMAIN pids
    BY <1>1, <1>2, <1>3
  <2> QED
    BY <2>2 DEF Range, EachOnce
<1>6. Range(pids) \ {Head(pids)} \subseteq Range(rest)
  <2>1. SUFFICES ASSUME NEW i \in DOMAIN pids, pids[i] # pids[1]
                 PROVE  pids[i] \in Range(rest)
    BY <1>1 DEF Range
  <2>2. i \in 2 .. n
    BY <1>1, <2>1
  <2> QED
    BY <1>3, <2>2 DEF Range
<1> QED
  BY <1>2, <1>4, <1>5, <1>6 DEF rest

(* waitpid takes one child, of whom nobody is the child, out of the table. *)
LEMMA ReapKeeps ==
  ASSUME TableOK, NEW p, Reap(p)
  PROVE  TableOK'
<1> DEFINE m == procs[p]
           cl == Closure(m)
           child == Head(cl.waitq)
           left == [cl EXCEPT !.waitq = Tail(@),
                              !.cond = IF Proc(child).status # 0 THEN 1 ELSE @]
           k == SetClosure(m, left)
<1>1. /\ p \in DOMAIN procs /\ m.state = "run" /\ Proc(p) = m /\ GoodProcess(m)
      /\ m \in ProcessType /\ Awaits(m, ChildrenOf(p)) /\ cl.waitq # << >>
  BY ProcessFacts DEF Reap, Running, IsShell, Proc
<1>2. CASE child \notin ChildrenOf(p)
  <2>1. Update(p, Leave(m, 1)) /\ 1 \in Nat
    BY <1>1, <1>2 DEF Reap, Fail
  <2> QED
    BY <1>1, <2>1, LeaveKeeps
<1>3. CASE child \in ChildrenOf(p)
  <2>1. /\ procs[child].state = "zombie" /\ child \in DOMAIN procs /\ procs[child].parent = p
        /\ procs' = [q \in DOMAIN procs \ {child} |-> IF q = p THEN k ELSE procs[q]]
    BY <1>1, <1>3 DEF Reap, ChildrenOf, Proc
  <2>2. GoodClosure(cl) /\ cl \in ClosureType
    <3> HIDE DEF m
    <3> QED
      BY <1>1, TopFacts
  <2>3. cl.waitq \in Seq(Pids) /\ EachOnce(cl.waitq) /\ Range(cl.waitq) = ChildrenOf(p)
    BY <1>1, <2>2 DEF Awaits, ClosureType
  <2> HIDE DEF m, cl
  <2>4. /\ Tail(cl.waitq) \in Seq(Pids) /\ EachOnce(Tail(cl.waitq))
        /\ Range(Tail(cl.waitq)) = ChildrenOf(p) \ {child}
    BY <1>1, <2>3, TailFacts
  <2>5. GoodClosure(left) /\ left.waitq = Tail(cl.waitq)
    BY <2>2, <2>4 DEF GoodClosure, ClosureType
  <2> HIDE DEF left, child
  <2>6. GoodProcess(k) /\ SameButFrames(m, k) /\ Closure(k) = left
    BY <1>1, <2>5, SetClosureGood
  <2> HIDE DEF k
  <2>7. Awaits(k, ChildrenOf(p) \ {child}) /\ k.parent = m.parent /\ k.state = "run"
    BY <1>1, <2>4, <2>5, <2>6 DEF Awaits, SameButFrames
  <2>8. child # p
    BY <1>1, <2>1 DEF m
  <2>9. /\ DOMAIN procs' = DOMAIN procs \ {child} /\ procs' = [q \in DOMAIN procs' |-> procs'[q]]
        /\ p \in DOMAIN procs' /\ procs'[p] = k
        /\ \A q \in DOMAIN procs' \ {p} : procs'[q] = procs[q]
    BY <1>1, <2>1, <2>8
  <2>10. \A q \in DOMAIN procs' : procs'[q].parent = procs[q].parent
    BY <2>7, <2>9 DEF m
  <2>11. ChildrenOf(p)' = ChildrenOf(p) \ {child}
    BY <2>9, <2>10 DEF ChildrenOf, Proc
  <2>12. \A q \in DOMAIN procs \ {p} : ChildrenOf(q)' = ChildrenOf(q)
    BY <2>1, <2>9, <2>10 DEF ChildrenOf, Proc
  <2>13. ASSUME NEW q \in DOMAIN procs'
         PROVE  GoodProcess(procs'[q]) /\ Awaits(procs'[q], ChildrenOf(q)')
    <3>1. CASE q = p
      BY <2>6, <2>7, <2>9, <2>11, <3>1
    <3>2. CASE q # p
      BY <2>9, <2>12, <3>2, ProcessFacts
    <3> QED
      BY <3>1, <3>2
  <2>14. ASSUME NEW q \in DOMAIN procs'
         PROVE  ParentLives(q)'
    <3>1. \A r \in DOMAIN procs : procs[r].state # "zombie" =>
            r \in DOMAIN procs' /\ procs'[r].state # "zombie"
      BY <2>1, <2>7, <2>9
    <3>2. ParentLives(q)
      BY <2>9, ProcessFacts
    <3> QED
      BY <2>9, <2>10, <3>1, <3>2 DEF ParentLives
  <2> QED
    BY <2>9, <2>13, <2>14 DEF TableOK
<1> QED
  BY <1>2, <1>3

(* A process ends: it is still there for its parent, its children are      *)
(* nobody's.                                                               *)
LEMMA DieKeeps ==
  ASSUME TableOK, NEW p, Die(p)
  PROVE  TableOK'
<1> DEFINE m == procs[p]
           k == [m EXCEPT !.state = "zombie"]
           orphaned(q) == [procs[q] EXCEPT !.parent = Nobody]
           gone == {c \in ChildrenOf(p) : Proc(c).state = "zombie"}
                     \cup (IF Proc(p).parent = Nobody /\ p # Main THEN {p} ELSE {})
<1>1. /\ p \in DOMAIN procs /\ m.state = "ending" /\ GoodProcess(m) /\ m \in ProcessType
      /\ ParentLives(p) /\ p # Nobody
      /\ procs' = [q \in DOMAIN procs \ gone |->
                     IF q = p THEN k
                     ELSE IF q \in ChildrenOf(p) THEN orphaned(q) ELSE procs[q]]
  BY ProcessFacts DEF Die, IsShell, Proc
<1>2. ASSUME NEW q \in gone
      PROVE  \/ q = p /\ m.parent = Nobody
             \/ q \in ChildrenOf(p) /\ procs[q].state = "zombie"
  <2>1. CASE Proc(p).parent = Nobody /\ p # Main
    BY <2>1 DEF Proc
  <2>2. CASE ~(Proc(p).parent = Nobody /\ p # Main)
    BY <2>2 DEF Proc
  <2> QED
    BY <2>1, <2>2
<1>3. p \notin ChildrenOf(p)
  BY <1>1 DEF ParentLives, ChildrenOf, Proc
<1> HIDE DEF gone
<1>4. GoodProcess(k) /\ k.parent = m.parent /\ k.state = "zombie"
  <2> HIDE DEF m
  <2>1. /\ k \in ProcessType /\ k.parent = m.parent /\ k.state = "zombie"
        /\ k.frames = m.frames /\ k.jobs = m.jobs /\ k.order = m.order
    BY <1>1 DEF ProcessType
  <2> HIDE DEF k
  <2> QED
    BY <1>1, <2>1 DEF GoodProcess, FramesOK, JobsOK
<1> HIDE DEF k
<1>5. ASSUME NEW q \in ChildrenOf(p)
      PROVE  /\ GoodProcess(orphaned(q)) /\ orphaned(q).parent = Nobody
             /\ orphaned(q).state = procs[q].state
             /\ \A children : Awaits(procs[q], children) => Awaits(orphaned(q), children)
  <2> DEFINE c == procs[q]
             o == orphaned(q)
  <2>1. GoodProcess(c) /\ c \in ProcessType
    BY <1>5, ProcessFacts DEF ChildrenOf
  <2> HIDE DEF c
  <2>2. o = [c EXCEPT !.parent = Nobody]
    BY DEF c
  <2> HIDE DEF o
  <2>3. /\ o \in ProcessType /\ o.parent = Nobody /\ o.state = c.state /\ o.frames = c.frames
        /\ o.jobs = c.jobs /\ o.order = c.order
    BY <2>1, <2>2 DEF ProcessType
  <2>4. GoodProcess(o)
    BY <2>1, <2>3 DEF GoodProcess, FramesOK, JobsOK
  <2>5. \A children : Awaits(c, children) => Awaits(o, children)
    BY <2>3 DEF Awaits, Closure, Top
  <2> QED
    BY <2>3, <2>4, <2>5 DEF c, o
<1> HIDE DEF orphaned
<1>6. /\ DOMAIN procs' = DOMAIN procs \ gone /\ procs' = [q \in DOMAIN procs' |-> procs'[q]]
      /\ \A q \in DOMAIN procs' :
           /\ q = p => procs'[q] = k
           /\ q \in ChildrenOf(p) => procs'[q] = orphaned(q)
           /\ q # p /\ q \notin ChildrenOf(p) => procs'[q] = procs[q]
  BY <1>1, <1>3
<1>7. \A q \in DOMAIN procs' :
        procs'[q].parent = IF q \in ChildrenOf(p) THEN Nobody ELSE procs[q].parent
  BY <1>3, <1>4, <1>5, <1>6 DEF m
<1>8. ASSUME NEW q \in DOMAIN procs', q # p
      PROVE  ChildrenOf(q)' = ChildrenOf(q)
  <2>1. q \in DOMAIN procs /\ q # Nobody
    BY <1>6, ProcessFacts
  <2>2. \A c \in ChildrenOf(q) : c \notin ChildrenOf(p) /\ c \notin gone
    BY <1>2, <1>8, <2>1 DEF ChildrenOf, Proc, m
  <2> QED
    BY <1>6, <1>7, <2>1, <2>2 DEF ChildrenOf, Proc
<1>9. ASSUME NEW q \in DOMAIN procs'
      PROVE  GoodProcess(procs'[q]) /\ Awaits(procs'[q], ChildrenOf(q)')
  <2>1. CASE q = p
    BY <1>4, <1>6, <2>1 DEF Awaits
  <2>2. CASE q # p
    <3>1. GoodProcess(procs[q]) /\ Awaits(procs[q], ChildrenOf(q)')
      BY <1>6, <1>8, <2>2, ProcessFacts
    <3> QED
      BY <1>5, <1>6, <2>2, <3>1
  <2> QED
    BY <2>1, <2>2
<1>10. ASSUME NEW q \in DOMAIN procs'
       PROVE  ParentLives(q)'
  <2>1. CASE q \in ChildrenOf(p)
    BY <1>6, <1>7, <2>1 DEF ParentLives
  <2>2. CASE q \notin ChildrenOf(p)
    <3>1. procs'[q].parent = procs[q].parent /\ q \in DOMAIN procs /\ procs[q].parent # p
      BY <1>6, <1>7, <2>2 DEF ChildrenOf, Proc
    <3>2. \A r \in DOMAIN procs \ {p} : procs[r].state # "zombie" =>
            r \in DOMAIN procs' /\ procs'[r].state # "zombie"
      BY <1>2, <1>5, <1>6
    <3> QED
      BY <3>1, <3>2, ProcessFacts DEF ParentLives
  <2> QED
    BY <2>1, <2>2
<1> QED
  BY <1>6, <1>9, <1>10 DEF TableOK

-----------------------------------------------------------------------------
(* What is recorded beside the table.                                      *)

(* A new child's commands are recorded in the order they are launched.     *)
LEMMA LaunchedType ==
  ASSUME TableOK, RecordOK, NEW p, Enters(p, "step"),
         NEW n \in 0 .. Len(Entry(procs[p]).calls)
  PROVE  /\ launched \o SubSeq(Cmds(Entry(procs[p]).calls), 1, n) \in Seq(STRING)
         /\ launched \o Cmds(Entry(procs[p]).calls) \in Seq(STRING)
<1> DEFINE calls == Entry(procs[p]).calls
           cmds == Cmds(calls)
<1>1. /\ Len(calls) \in Nat /\ DOMAIN calls = 1 .. Len(calls)
      /\ \A i \in DOMAIN calls : calls[i].cmd \in STRING
  BY EnterFacts DEF EntryOK, CallOK
<1>2. cmds = [i \in 1 .. Len(calls) |-> calls[i].cmd]
  BY <1>1 DEF Cmds
<1> HIDE DEF calls
<1>3. cmds \in [1 .. Len(calls) -> STRING]
  BY <1>1, <1>2
<1> HIDE DEF cmds
<1>4. cmds \in Seq(STRING) /\ Len(cmds) = Len(calls)
  BY <1>1, <1>3
<1>5. SubSeq(cmds, 1, n) \in Seq(STRING)
  <2>1. \A i \in 1 .. n : cmds[i] \in STRING
    BY <1>1, <1>3 DEF calls
  <2>2. n \in Nat
    BY <1>1 DEF calls
  <2> QED
    BY <1>4, <2>1, <2>2, SubSeqProperties
<1> QED
  BY <1>4, <1>5, ConcatProperties DEF RecordOK, cmds, calls

LEMMA StartRecorded ==
  ASSUME RecordOK, NEW p, NEW name \in DOMAIN Program, NEW m, StartLine(p, name, m)
  PROVE  /\ (line \in DOMAIN Program \cup {"none"})' /\ (launched \in Seq(STRING))'
         /\ (Range(nested) \subseteq DOMAIN Program)' /\ (will \in Outcomes)'
<1>1. CASE p = Main
  <2>1. line' = name /\ launched' = << >> /\ nested' = Nothing /\ will' \in Outcomes
    BY <1>1 DEF StartLine
  <2>2. << >> \in Seq(STRING) /\ Range(Nothing) = {}
    BY DEF Range, Nothing
  <2> QED
    BY <2>1, <2>2
<1>2. CASE p # Main
  BY <1>2 DEF StartLine, RecordOK
<1> QED
  BY <1>1, <1>2

LEMMA InsideRecorded ==
  ASSUME TableOK, RecordOK, NEW p, Enters(p, "step"), Len(Entry(procs[p]).calls) = 1,
         NEW cl, GoodClosure(cl), NEW m, Entry(m).calls = Entry(procs[p]).calls,
         RunInside(p, cl, m), typed' = typed
  PROVE  RecordOK'
<1> DEFINE cmd == Entry(m).calls[1].cmd
<1>1. /\ launched' = Append(launched, cmd)
      /\ nested' = [c \in DOMAIN nested \cup {cmd} |-> IF c = cmd THEN cl.prog ELSE nested[c]]
      /\ UNCHANGED <<setting, typed, line, will>>
  BY DEF RunInside
<1>2. cmd \in STRING
  BY EnterFacts DEF EntryOK, CallOK
<1>3. cl.prog \in DOMAIN Program
  BY DEF GoodClosure, ClosureType
<1>4. launched' \in Seq(STRING)
  BY <1>1, <1>2 DEF RecordOK
<1> HIDE DEF cmd
<1>5. Range(nested') \subseteq DOMAIN Program
  <2>1. SUFFICES ASSUME NEW x \in DOMAIN nested' PROVE nested'[x] \in DOMAIN Program
    BY DEF Range
  <2>2. nested'[x] = cl.prog \/ (x \in DOMAIN nested /\ nested'[x] = nested[x])
    BY <1>1, <2>1
  <2> QED
    BY <1>3, <2>2 DEF RecordOK, Range
<1> QED
  BY <1>1, <1>4, <1>5 DEF RecordOK

LEMMA RecordKeeps ==
  ASSUME RunnerInv, Next
  PROVE  RecordOK'
<1>1. TableOK /\ RecordOK
  BY DEF RunnerInv
<1>2. ASSUME UNCHANGED <<setting, typed, line, launched, nested, will>>
      PROVE  RecordOK'
  BY <1>1, <1>2 DEF RecordOK
<1>3. CASE Over
  BY <1>2, <1>3 DEF Over, vars
<1>4. ASSUME NEW p \in Pids, NEW name \in setting.lines, ReadLine(p, name)
      PROVE  RecordOK'
  <2>1. setting \in Settings /\ name \in DOMAIN Program /\ setting.most \in Nat
    BY <1>1, <1>4, SettingsAreSettings DEF RecordOK
  <2>2. setting' = setting /\ typed' \in 0 .. setting.most
    BY <1>1, <1>4, <2>1 DEF ReadLine, RecordOK
  <2>3. StartLine(p, name, Proc(p))
    BY <1>4 DEF ReadLine
  <2> QED
    BY <1>1, <2>1, <2>2, <2>3, StartRecorded DEF RecordOK
<1>5. ASSUME NEW p \in Pids, RunScript(p)
      PROVE  RecordOK'
  <2>1. /\ p \in DOMAIN procs /\ procs[p].scripts # << >> /\ UNCHANGED <<setting, typed>>
        /\ StartLine(p, Head(procs[p].scripts), [procs[p] EXCEPT !.scripts = Tail(@)])
    BY <1>5 DEF RunScript, IsShell, Proc
  <2>2. procs[p].scripts \in Seq(DOMAIN Program)
    BY <1>1, <2>1, ProcessFacts DEF ProcessType
  <2>3. Head(procs[p].scripts) \in DOMAIN Program
    BY <2>1, <2>2, HeadTailProperties
  <2> QED
    BY <1>1, <2>1, <2>3, StartRecorded DEF RecordOK
<1>6. ASSUME NEW p \in Pids, ReadMalformed(p)
      PROVE  RecordOK'
  BY <1>1, <1>6 DEF ReadMalformed, RecordOK
<1>7. ASSUME NEW p \in Pids,
             \/ EndOfInput(p) \/ Die(p) \/ Reap(p) \/ EnterEmpty(p) \/ EnterTest(p)
             \/ EnterLast(p) \/ EnterDetach(p) \/ EnterDetachUnset(p)
             \/ AgainRefused(p) \/ EnterExpand(p) \/ EnterSplice(p) \/ EnterNowhere(p)
      PROVE  RecordOK'
  BY <1>2, <1>7
  DEF EndOfInput, Die, Reap, EnterEmpty, EnterTest, EnterLast, EnterDetach,
      EnterDetachUnset, AgainRefused, EnterExpand, EnterSplice, EnterNowhere
<1>8. ASSUME NEW p \in Pids, EnterStep(p)
      PROVE  RecordOK'
  <2> DEFINE calls == Entry(procs[p]).calls
  <2>1. /\ Enters(p, "step") /\ Proc(p) = procs[p]
        /\ UNCHANGED <<setting, typed, line, nested, will>>
    BY <1>8 DEF EnterStep, Proc
  <2>2. PICK pids \in Forked(Len(calls)) :
          launched' = launched \o SubSeq(Cmds(calls), 1, Len(pids))
    BY <1>8, <2>1 DEF EnterStep
  <2>3. Len(calls) \in Nat
    BY <1>1, <2>1, EnterFacts DEF EntryOK
  <2> HIDE DEF calls
  <2>4. Len(pids) \in 0 .. Len(calls)
    BY <1>1, <2>2, <2>3, ForkedFacts DEF RecordOK
  <2>5. launched' \in Seq(STRING)
    BY <1>1, <2>1, <2>2, <2>4, LaunchedType DEF calls
  <2> QED
    BY <1>1, <2>1, <2>5 DEF RecordOK
<1>9. ASSUME NEW p \in Pids, EnterExit(p)
      PROVE  RecordOK'
  <2>1. /\ Enters(p, "step") /\ Proc(p) = procs[p]
        /\ UNCHANGED <<setting, typed, line, nested, will>>
        /\ launched' = launched \o Cmds(Entry(procs[p]).calls)
    BY <1>9 DEF EnterExit, Proc
  <2>2. 0 \in 0 .. Len(Entry(procs[p]).calls)
    BY <1>1, <2>1, EnterFacts DEF EntryOK
  <2>3. launched' \in Seq(STRING)
    BY <1>1, <2>1, <2>2, LaunchedType
  <2> QED
    BY <1>1, <2>1, <2>3 DEF RecordOK
<1>10. ASSUME NEW p \in Pids, EnterAgain(p)
       PROVE  RecordOK'
  <2>1. /\ Enters(p, "step") /\ Proc(p) = procs[p] /\ Len(Entry(procs[p]).calls) = 1
    BY <1>10 DEF EnterAgain, AgainHere, Alone, Proc
  <2>2. PICK name \in setting.again : \E cl \in Compiled(name) : RunInside(p, cl, procs[p])
    BY <1>10, <2>1 DEF EnterAgain
  <2>3. PICK cl \in Compiled(name) : RunInside(p, cl, procs[p])
    BY <2>2
  <2>4. GoodClosure(cl) /\ typed' = typed
    BY <1>1, <2>3, SettingsAreSettings, CompiledGood DEF RunInside, RecordOK
  <2> QED
    BY <1>1, <2>1, <2>3, <2>4, InsideRecorded
<1>11. ASSUME NEW p \in Pids, EnterFg(p)
       PROVE  RecordOK'
  <2> DEFINE m == procs[p]
             k == [m EXCEPT !.jobs = Tail(@)]
  <2>1. /\ Enters(p, "step") /\ Len(Entry(m).calls) = 1 /\ m.jobs # << >>
        /\ RunInside(p, m.jobs[1].cl, k)
    BY <1>11 DEF EnterFg, FgHere, Alone, Proc
  <2>2. GoodProcess(m)
    BY <1>1, <2>1, EnterFacts
  <2> HIDE DEF m
  <2>3. GoodClosure(m.jobs[1].cl) /\ k.frames = m.frames
    BY <2>1, <2>2, PoppedGood
  <2> HIDE DEF k
  <2>4. Entry(k).calls = Entry(m).calls /\ typed' = typed
    BY <2>1, <2>3 DEF Entry, Entries, Closure, Top, RunInside
  <2> QED
    BY <1>1, <2>1, <2>3, <2>4, InsideRecorded DEF m
<1> QED
  BY <1>3, <1>4, <1>5, <1>6, <1>7, <1>8, <1>9, <1>10, <1>11 DEF Next, ShellStep

-----------------------------------------------------------------------------
(* The invariant.                                                          *)

LEMMA InitHolds ==
  ASSUME Init
  PROVE  RunnerInv
<1> DEFINE m == procs[Main]
<1>1. /\ setting \in Settings /\ setting.scripts \in Seq(DOMAIN Program) /\ setting.most \in Nat
      /\ Main \in Pids /\ Nobody # Main
  BY SettingsAreSettings DEF Init, Main, Nobody
<1>2. /\ DOMAIN procs = {Main} /\ procs = [q \in DOMAIN procs |-> procs[q]]
      /\ m = [parent |-> Nobody, state |-> "prompt", status |-> 0,
              frames |-> << >>, jobs |-> << >>, order |-> 1,
              code |-> 0, scripts |-> setting.scripts]
  BY DEF Init
<1>3. /\ m \in ProcessType /\ m.state = "prompt" /\ m.frames = << >> /\ m.jobs = << >>
      /\ m.parent = Nobody
  <2> HIDE DEF m
  <2> QED
    BY <1>1, <1>2, NothingLeft DEF ProcessType
<1> HIDE DEF m
<1>4. GoodProcess(m)
  BY <1>3, NothingLeft DEF GoodProcess, FramesOK, JobsOK
<1>5. ChildrenOf(Main) = {}
  BY <1>1, <1>2, <1>3 DEF ChildrenOf, Proc, m
<1>6. TableOK
  <2>1. ParentLives(Main)
    BY <1>3 DEF ParentLives, m
  <2>2. Awaits(m, ChildrenOf(Main))
    BY <1>3, <1>5 DEF Awaits
  <2> QED
    BY <1>1, <1>2, <1>4, <2>1, <2>2 DEF TableOK, m
<1>7. will \in Outcomes
  <2>1. will = [c \in DOMAIN Statuses |-> CHOOSE s \in Statuses[c] : TRUE]
    BY DEF Init
  <2>2. \A c \in DOMAIN Statuses : will[c] \in Statuses[c]
    BY <2>1, StatusesFit
  <2> QED
    BY <2>1, <2>2 DEF Outcomes
<1>8. launched \in Seq(STRING) /\ Range(nested) = {} /\ line = "none" /\ typed = 0
  BY DEF Init, Nothing, Range
<1>9. RecordOK
  BY <1>1, <1>7, <1>8 DEF RecordOK
<1> QED
  BY <1>6, <1>9 DEF RunnerInv

LEMMA StepHolds ==
  ASSUME RunnerInv, [Next]_vars
  PROVE  RunnerInv'
<1>1. TableOK /\ RecordOK
  BY DEF RunnerInv
<1>2. CASE UNCHANGED vars
  BY <1>1, <1>2 DEF vars, RunnerInv, TableOK, RecordOK, ParentLives, ChildrenOf, Proc
<1>3. CASE Next
  <2>1. RecordOK'
    BY <1>3, RecordKeeps
  <2>2. TableOK'
    <3>1. CASE Over
      BY <1>1, <3>1 DEF Over, vars, TableOK, ParentLives, ChildrenOf, Proc
    <3>2. ASSUME NEW p \in Pids,
                 \/ \E name \in setting.lines : ReadLine(p, name)
                 \/ RunScript(p) \/ ReadMalformed(p) \/ EndOfInput(p)
          PROVE  TableOK'
      BY <3>2, MainKeeps
    <3>3. ASSUME NEW p \in Pids, Reap(p) \/ Die(p) \/ EnterNowhere(p) \/ AgainRefused(p)
          PROVE  TableOK'
      <4>1. CASE AgainRefused(p)
        BY <1>1, <4>1, RefusedKeeps DEF AgainRefused, Enters, Running, IsShell
      <4> QED
        BY <1>1, <3>3, <4>1, ReapKeeps, DieKeeps, NowhereKeeps
    <3>4. ASSUME NEW p \in Pids,
                 \/ EnterEmpty(p) \/ EnterTest(p) \/ EnterSplice(p)
                 \/ EnterLast(p) \/ EnterExit(p)
                 \/ EnterDetach(p) \/ EnterDetachUnset(p)
          PROVE  TableOK'
      BY <1>1, <3>4, BranchesKeep, EndsKeep, DetachKeeps
    <3>5. ASSUME NEW p \in Pids,
                 EnterStep(p) \/ EnterExpand(p) \/ EnterAgain(p) \/ EnterFg(p)
          PROVE  TableOK'
      BY <1>1, <3>5, StepKeeps, ExpandKeeps, AgainKeeps, FgKeeps DEF RecordOK
    <3> QED
      BY <1>3, <3>1, <3>2, <3>3, <3>4, <3>5 DEF Next, ShellStep
  <2> QED
    BY <2>1, <2>2 DEF RunnerInv
<1> QED
  BY <1>2, <1>3

(* The invariant of every session of the shell, whatever is typed: nobody  *)
(* waits for a process that is not his child, in no copy of the shell.     *)
THEOREM RunnerHolds == Spec => []RunnerInv
<1>1. Init => RunnerInv
  BY InitHolds
<1>2. RunnerInv /\ [Next]_vars => RunnerInv'
  BY StepHolds
<1> QED
  BY <1>1, <1>2, PTL DEF Spec

(* The shell's memory and the process table keep their shapes: a closure   *)
(* runs the code compiled for it, a status is a byte, a process has frames *)
(* exactly while run_unchecked runs in it.                                 *)
THEOREM RunnerTypeOK == Spec => []TypeOK
<1>1. RunnerInv => TypeOK
  BY DEF RunnerInv, TableOK, RecordOK, GoodProcess, FramesOK, TypeOK, Proc, Running, IsShell
<1> QED
  BY <1>1, RunnerHolds, PTL

(* A queue that names everybody once is as long as they are many.          *)
LEMMA OnceLen ==
  ASSUME NEW pids \in Seq(Pids), EachOnce(pids)
  PROVE  Len(pids) = Cardinality(Range(pids))
<1>1. Len(pids) \in Nat /\ DOMAIN pids = 1 .. Len(pids) /\ pids = [i \in DOMAIN pids |-> pids[i]]
  OBVIOUS
<1>2. pids \in [1 .. Len(pids) -> Range(pids)]
  BY <1>1 DEF Range
<1>3. pids \in Bijection(1 .. Len(pids), Range(pids))
  BY <1>1, <1>2 DEF EachOnce, Range, Bijection, Injection, Surjection, IsInjective
<1> QED
  BY <1>1, <1>3, FS_CountingElements DEF ExistsBijection

(* closure_marshal waits for exactly the children fork gave the shell,     *)
(* each once, whatever the line, however deep `again' and `fg' nest and    *)
(* however many processes the system allows.                               *)
THEOREM ChildrenAreWaitedFor == Spec => []WaitsForItsChildren
<1>1. RunnerInv => WaitsForItsChildren
  <2>1. SUFFICES ASSUME TableOK, NEW p \in DOMAIN procs
                 PROVE  /\ procs[p].state = "run" =>
                             LET m == procs[p]
                                 waitq == Closure(m).waitq
                             IN  /\ Range(waitq) = ChildrenOf(p)
                                 /\ Len(waitq) = Cardinality(ChildrenOf(p))
                                 /\ \A i \in 1 .. Len(m.frames) - 1 :
                                      m.frames[i].cl.waitq = << >>
                                 /\ \A i \in DOMAIN m.jobs : m.jobs[i].cl.waitq = << >>
                        /\ procs[p].state = "prompt" => ChildrenOf(p) = {}
    BY DEF RunnerInv, WaitsForItsChildren, Running, IsShell, Proc
  <2>2. GoodProcess(procs[p]) /\ Awaits(procs[p], ChildrenOf(p))
    BY <2>1, ProcessFacts
  <2>3. CASE procs[p].state = "run"
    <3>1. Closure(procs[p]).waitq \in Seq(Pids)
      BY <2>2, <2>3, TopFacts DEF ClosureType
    <3>2. EachOnce(Closure(procs[p]).waitq) /\ Range(Closure(procs[p]).waitq) = ChildrenOf(p)
      BY <2>2, <2>3 DEF Awaits
    <3>3. Len(Closure(procs[p]).waitq) = Cardinality(ChildrenOf(p))
      BY <3>1, <3>2, OnceLen
    <3> QED
      BY <2>2, <2>3, <3>2, <3>3 DEF GoodProcess, FramesOK, JobsOK
  <2>4. CASE procs[p].state # "run"
    BY <2>2, <2>4 DEF Awaits
  <2> QED
    BY <2>3, <2>4
<1> QED
  BY <1>1, RunnerHolds, PTL

(* j_runner_job_push puts a job before all older ones, and fg takes the    *)
(* newest, in every copy of the job list: orders only descend.             *)
THEOREM JobsStayNewestFirst == Spec => []JobsNewestFirst
<1>1. RunnerInv => JobsNewestFirst
  BY DEF RunnerInv, TableOK, GoodProcess, JobsOK, JobsNewestFirst, Proc
<1> QED
  BY <1>1, RunnerHolds, PTL
=============================================================================
