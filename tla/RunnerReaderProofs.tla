------------------------- MODULE RunnerReaderProofs -------------------------
(***************************************************************************)
(* Proofs about who runs what in Runner: a child made for a built-in only  *)
(* ends, and main's loop belongs to the process the user started.          *)
(*                                                                         *)
(* fork hands a built-in's child all of its shell's frames, and the thrown *)
(* exit takes it out of the innermost one only; that it ends there, and    *)
(* runs none of the others, is because a frame above the first never runs  *)
(* a line with built-ins: ReaderInv keeps that of every frame, and of every*)
(* job and script such a frame could be made from.                         *)
(***************************************************************************)
EXTENDS RunnerProofs

Developing == setting.developer /\ setting.interactive
Quiet == ~Expands /\ ~Repeats
Ended(m) == m.state = "ending" \/ m.state = "zombie"

(* What Main runs, has detached and is still to open, when the session's   *)
(* lines expand nothing and repeat no built-in.                            *)
QuietFrames(m, names) ==
  /\ \A i \in DOMAIN m.frames : m.frames[i].cl.prog \in names
  /\ \A i \in DOMAIN m.frames : i = 1 \/ ~Program[m.frames[i].cl.prog].builtins
QuietJobs(m, names) ==
  \A i \in DOMAIN m.jobs :
    m.jobs[i].cl.prog \in names /\ ~Program[m.jobs[i].cl.prog].builtins
QuietScripts(m, names) == \A i \in DOMAIN m.scripts : m.scripts[i] \in names
QuietProcess(m, names) ==
  QuietFrames(m, names) /\ QuietJobs(m, names) /\ QuietScripts(m, names)

(* Without a developer's interactive shell only Main is ever at the prompt;*)
(* without expansions and repeated built-ins only Main runs at all.        *)
OnlyMainReads ==
  Developing \/ \A p \in DOMAIN procs : p = Main \/ procs[p].state # "prompt"
OthersEnd ==
  Quiet => \A p \in DOMAIN procs :
             IF p = Main THEN QuietProcess(procs[p], Known) ELSE Ended(procs[p])
ReaderInv == OnlyMainReads /\ OthersEnd

LEMMA SettingKept ==
  ASSUME UNCHANGED setting
  PROVE  /\ Known' = Known /\ (Quiet' <=> Quiet) /\ (Developing' <=> Developing)
<1>1. Known' = Known
  BY DEF Known, Lines, Detachable
<1>2. Expands' <=> Expands
  BY <1>1 DEF Expands
<1>3. Repeats' <=> Repeats
  BY DEF Repeats
<1> QED
  BY <1>1, <1>2, <1>3 DEF Quiet, Developing

-----------------------------------------------------------------------------
(* A process that takes on nothing new.                                    *)

Narrows(m, k) ==
  /\ k.jobs = m.jobs \/ k.jobs = << >>
  /\ k.scripts = m.scripts
  /\ Len(k.frames) <= Len(m.frames)
  /\ \A i \in 1 .. Len(k.frames) : k.frames[i].cl.prog = m.frames[i].cl.prog

LEMMA NarrowsQuiet ==
  ASSUME NEW m \in ProcessType, NEW k \in ProcessType, Narrows(m, k),
         NEW names, QuietProcess(m, names)
  PROVE  QuietProcess(k, names)
<1>1. /\ DOMAIN m.frames = 1 .. Len(m.frames) /\ DOMAIN k.frames = 1 .. Len(k.frames)
      /\ Len(m.frames) \in Nat /\ Len(k.frames) \in Nat
  BY DEF ProcessType
<1>2. \A i \in DOMAIN k.frames : i \in DOMAIN m.frames /\ k.frames[i].cl.prog = m.frames[i].cl.prog
  BY <1>1 DEF Narrows
<1>3. QuietFrames(k, names)
  BY <1>2 DEF QuietProcess, QuietFrames
<1>4. QuietJobs(k, names)
  <2>1. CASE k.jobs = m.jobs
    BY <2>1 DEF QuietProcess, QuietJobs
  <2>2. CASE k.jobs = << >>
    BY <2>2, NothingLeft DEF QuietJobs
  <2> QED
    BY <2>1, <2>2 DEF Narrows
<1>5. QuietScripts(k, names)
  BY DEF QuietProcess, QuietScripts, Narrows
<1> QED
  BY <1>3, <1>4, <1>5 DEF QuietProcess

LEMMA NarrowsThrough ==
  ASSUME NEW m \in ProcessType, NEW j \in ProcessType, NEW k \in ProcessType,
         Narrows(m, j), Narrows(j, k)
  PROVE  Narrows(m, k)
<1>1. Len(m.frames) \in Nat /\ Len(j.frames) \in Nat /\ Len(k.frames) \in Nat
  BY SMTT(20) DEF ProcessType
<1>2. Len(k.frames) <= Len(m.frames)
  BY <1>1 DEF Narrows
<1>3. \A i \in 1 .. Len(k.frames) : i \in 1 .. Len(j.frames)
  BY <1>1 DEF Narrows
<1>4. \A i \in 1 .. Len(k.frames) : k.frames[i].cl.prog = m.frames[i].cl.prog
  BY <1>3 DEF Narrows
<1>5. k.jobs = m.jobs \/ k.jobs = << >>
  BY DEF Narrows
<1> QED
  BY <1>2, <1>4, <1>5 DEF Narrows

LEMMA LeaveNarrows ==
  ASSUME NEW m \in ProcessType, NEW status \in Nat
  PROVE  Narrows(m, Leave(m, status)) /\ Leave(m, status).state = "ending"
<1> DEFINE byte == status % 256
           k == Leave(m, status)
<1>1. k = [m EXCEPT !.state = "ending", !.status = byte, !.frames = << >>, !.jobs = << >>]
  BY DEF Leave
<1> HIDE DEF byte, k
<1>2. /\ k.state = "ending" /\ k.frames = << >> /\ k.jobs = << >> /\ k.scripts = m.scripts
  BY <1>1 DEF ProcessType
<1>3. Len(k.frames) = 0 /\ Len(m.frames) \in Nat
  BY <1>2 DEF ProcessType
<1> QED
  BY <1>2, <1>3 DEF Narrows, k

(* The innermost frame goes on with its closure.                           *)
LEMMA TopNarrows ==
  ASSUME NEW m, GoodProcess(m), m.state = "run",
         NEW f \in FrameType, GoodClosure(f.cl), f.cl.prog = Top(m).cl.prog
  PROVE  Narrows(m, SetTop(m, f)) /\ SetTop(m, f).state = "run"
<1> DEFINE n == Len(m.frames)
           k == SetTop(m, f)
<1>1. n \in Nat \ {0} /\ Top(m) = m.frames[n]
  BY TopFacts
<1>2. /\ SameButFrames(m, k) /\ Top(k) = f /\ Len(k.frames) = n
      /\ \A i \in 1 .. n - 1 : k.frames[i] = m.frames[i]
  BY SetTopGood
<1>3. k.frames[n] = f
  BY <1>2 DEF Top
<1> HIDE DEF n, k
<1>4. \A i \in 1 .. n : i = n \/ i \in 1 .. n - 1
  BY <1>1
<1>5. \A i \in 1 .. n : k.frames[i].cl.prog = m.frames[i].cl.prog
  BY <1>1, <1>2, <1>3, <1>4
<1>6. Len(k.frames) <= Len(m.frames)
  BY <1>1, <1>2 DEF n
<1> QED
  BY <1>2, <1>5, <1>6 DEF Narrows, SameButFrames, k, n

LEMMA ClosureNarrows ==
  ASSUME NEW m, GoodProcess(m), m.state = "run",
         NEW cl, GoodClosure(cl), cl.prog = Closure(m).prog
  PROVE  Narrows(m, SetClosure(m, cl)) /\ SetClosure(m, cl).state = "run"
<1> DEFINE f == [Top(m) EXCEPT !.cl = cl]
<1>1. /\ Top(m) \in FrameType /\ m \in ProcessType /\ m.frames \in Seq(FrameType)
      /\ Top(m) = m.frames[Len(m.frames)] /\ Len(m.frames) \in DOMAIN m.frames
      /\ Closure(m) = Top(m).cl
  BY TopFacts
<1>2. f \in FrameType /\ f.cl = cl
  BY <1>1 DEF FrameType, GoodClosure
<1>3. SetClosure(m, cl) = SetTop(m, f)
  BY <1>1 DEF SetClosure, SetTop, ProcessType
<1> HIDE DEF f
<1> QED
  BY <1>1, <1>2, <1>3, TopNarrows

LEMMA BranchNarrows ==
  ASSUME NEW m, GoodProcess(m), m.state = "run", NEW tag \in Nat
  PROVE  /\ Narrows(m, Branch(m, tag)) /\ Branch(m, tag).state = "run"
         /\ GoodProcess(Branch(m, tag)) /\ Branch(m, tag) \in ProcessType
<1> DEFINE cl == [Closure(m) EXCEPT !.entry = tag, !.cond = 0]
<1>1. GoodClosure(Closure(m)) /\ Closure(m) \in ClosureType
  BY TopFacts
<1>2. GoodClosure(cl) /\ cl.prog = Closure(m).prog
  BY <1>1 DEF GoodClosure, ClosureType
<1> HIDE DEF cl
<1>3. Branch(m, tag) = SetClosure(m, cl)
  BY DEF Branch, cl
<1> QED
  BY <1>2, <1>3, ClosureNarrows, BranchGood DEF GoodProcess

(* The innermost run_unchecked returns: to an outer one, or to main, and   *)
(* then out of it if an exit was thrown.                                   *)
LEMMA ReturnNarrows ==
  ASSUME NEW m, GoodProcess(m), m.state = "run"
  PROVE  /\ Narrows(m, Return(m))
         /\ Return(m).state \in {"ending", "prompt", "run"}
         /\ Top(m).thrown => Return(m).state # "prompt"
         /\ Len(m.frames) = 1 => Return(m).state # "run"
<1> DEFINE n == Len(m.frames)
           f == Top(m)
<1>1. /\ m \in ProcessType /\ m.frames \in Seq(FrameType)
      /\ n \in Nat \ {0} /\ DOMAIN m.frames = 1 .. n /\ f \in FrameType
  BY TopFacts
<1>2. CASE n = 1 /\ f.thrown
  <2>1. Return(m) = Leave(m, f.code) /\ f.code \in Nat
    BY <1>1, <1>2 DEF Return, FrameType
  <2> HIDE DEF f
  <2> QED
    BY <1>1, <2>1, LeaveNarrows
<1>3. CASE n = 1 /\ ~f.thrown
  <2> DEFINE k == [m EXCEPT !.frames = << >>, !.code = f.code, !.state = "prompt"]
  <2>1. Return(m) = k
    BY <1>3 DEF Return
  <2> HIDE DEF f
  <2>2. k.state = "prompt" /\ k.frames = << >> /\ k.jobs = m.jobs /\ k.scripts = m.scripts
    BY <1>1 DEF ProcessType
  <2> HIDE DEF k
  <2>3. Narrows(m, k)
    <3>1. Len(k.frames) = 0 /\ Len(k.frames) <= Len(m.frames)
      BY <1>1, <2>2
    <3> QED
      BY <2>2, <3>1 DEF Narrows
  <2> QED
    BY <1>3, <2>1, <2>2, <2>3 DEF f
<1>4. CASE n # 1
  <2> DEFINE frames == SubSeq(m.frames, 1, n - 1)
             outer == m.frames[n - 1]
             inner == [m EXCEPT !.frames = frames]
             cl == [outer.cl EXCEPT !.cond = IF f.code # 0 THEN 1 ELSE @]
             next == [cl |-> cl, thrown |-> f.thrown,
                      code |-> IF f.thrown THEN f.code ELSE outer.code]
             k == SetTop(inner, next)
  <2>1. Return(m) = k
    BY <1>4 DEF Return
  <2>2. n - 1 \in 1 .. n /\ n - 1 \in Nat \ {0} /\ outer \in FrameType
    <3> HIDE DEF n
    <3>1. n \in Nat \ {0} /\ n # 1
      BY <1>1, <1>4
    <3>2. n - 1 \in 1 .. n /\ n - 1 \in Nat \ {0}
      BY <3>1
    <3> QED
      BY <1>1, <3>2
  <2>3. cl.prog = outer.cl.prog
    BY <2>2 DEF FrameType, ClosureType
  <2>4. /\ Len(frames) = n - 1 /\ DOMAIN frames = 1 .. n - 1
        /\ \A i \in 1 .. n - 1 : frames[i] = m.frames[i]
    <3> HIDE DEF n
    <3>1. frames = [i \in 1 .. n - 1 |-> m.frames[i]]
      BY <1>1, <2>2
    <3> HIDE DEF frames
    <3> QED
      BY <2>2, <3>1
  <2> HIDE DEF frames
  <2>5. /\ inner.frames = frames /\ inner.state = "run" /\ inner.jobs = m.jobs
        /\ inner.scripts = m.scripts /\ DOMAIN inner = DOMAIN m
        /\ inner = [m EXCEPT !.frames = frames]
    BY <1>1 DEF ProcessType
  <2> DEFINE last == [frames EXCEPT ![n - 1] = next]
  <2>6. k = [m EXCEPT !.frames = last]
    <3>1. k = [inner EXCEPT !.frames = last]
      BY <2>4, <2>5 DEF SetTop
    <3> HIDE DEF last
    <3> QED
      BY <1>1, <3>1 DEF ProcessType
  <2> HIDE DEF inner, k
  <2>7. /\ k.frames = last /\ k.state = "run" /\ k.jobs = m.jobs /\ k.scripts = m.scripts
    <3> HIDE DEF last
    <3> QED
      BY <1>1, <2>6 DEF ProcessType
  <2>8. DOMAIN last = 1 .. n - 1 /\ last[n - 1] = next /\ next.cl.prog = outer.cl.prog
    <3>1. next.cl.prog = outer.cl.prog
      BY <2>3
    <3> HIDE DEF next, cl
    <3> QED
      BY <2>2, <2>4, <3>1
  <2>9. Len(last) = n - 1
    BY <2>2, <2>8
  <2>10. \A i \in 1 .. n - 1 : last[i].cl.prog = m.frames[i].cl.prog
    <3>1. \A i \in 1 .. n - 1 : i # n - 1 => last[i] = m.frames[i]
      BY <2>4
    <3>2. last[n - 1].cl.prog = m.frames[n - 1].cl.prog
      <4> HIDE DEF last, next, cl
      <4> QED
        BY <2>8
    <3> QED
      BY <3>1, <3>2
  <2> HIDE DEF last
  <2>11. n - 1 <= n
    BY <1>1
  <2>12. Narrows(m, k)
    BY <2>7, <2>9, <2>10, <2>11 DEF Narrows
  <2> QED
    BY <1>4, <2>1, <2>7, <2>12
<1> QED
  BY <1>2, <1>3, <1>4

(* An exit never leads to the prompt, and out of the only frame to the end.*)
LEMMA ExitNarrows ==
  ASSUME NEW m, GoodProcess(m), m.state = "run", NEW code \in Nat
  PROVE  /\ Narrows(m, Exit(m, code))
         /\ Exit(m, code).state \in {"ending", "run"}
         /\ Len(m.frames) = 1 => Exit(m, code).state = "ending"
<1> DEFINE f == [Top(m) EXCEPT !.thrown = TRUE, !.code = code]
           j == SetTop(m, f)
<1>1. Top(m) \in FrameType /\ GoodClosure(Top(m).cl) /\ m \in ProcessType
  BY TopFacts
<1>2. f \in FrameType /\ f.cl = Top(m).cl /\ f.thrown = TRUE
  BY <1>1 DEF FrameType
<1>3. Exit(m, code) = Return(j)
  BY DEF Exit
<1> HIDE DEF f
<1>4. GoodProcess(j) /\ Top(j) = f /\ Len(j.frames) = Len(m.frames)
  BY <1>1, <1>2, SetTopGood
<1>5. Narrows(m, j) /\ j.state = "run"
  BY <1>1, <1>2, TopNarrows
<1> HIDE DEF j
<1>6. /\ Narrows(j, Return(j)) /\ Return(j).state \in {"ending", "prompt", "run"}
      /\ Return(j).state # "prompt"
      /\ Len(m.frames) = 1 => Return(j).state # "run"
  BY <1>2, <1>4, <1>5, ReturnNarrows
<1>7. Return(j) \in ProcessType /\ j \in ProcessType
  BY <1>4, <1>5, ReturnGood DEF GoodProcess
<1>8. Narrows(m, Return(j))
  BY <1>1, <1>5, <1>6, <1>7, NarrowsThrough
<1> QED
  BY <1>3, <1>6, <1>8

LEMMA DoneNarrows ==
  ASSUME NEW m, GoodProcess(m), m.state = "run", NEW code \in Nat
  PROVE  /\ Narrows(m, Done(m, code))
         /\ ~Developing => Done(m, code).state # "prompt"
<1> DEFINE f == [Top(m) EXCEPT !.code = code]
           j == SetTop(m, f)
<1>1. Top(m) \in FrameType /\ GoodClosure(Top(m).cl) /\ m \in ProcessType
  BY TopFacts
<1>2. CASE ~Developing
  <2>1. Done(m, code) = Exit(m, code)
    BY <1>2 DEF Done, Developing
  <2> QED
    BY <2>1, ExitNarrows
<1>3. CASE Developing
  <2>1. f \in FrameType /\ f.cl = Top(m).cl
    BY <1>1 DEF FrameType
  <2>2. Done(m, code) = Return(j)
    BY <1>3 DEF Done, Developing
  <2> HIDE DEF f
  <2>3. GoodProcess(j) /\ Narrows(m, j) /\ j.state = "run"
    BY <1>1, <2>1, SetTopGood, TopNarrows
  <2> HIDE DEF j
  <2>4. Narrows(j, Return(j)) /\ Return(j) \in ProcessType /\ j \in ProcessType
    BY <2>3, ReturnNarrows, ReturnGood DEF GoodProcess
  <2>5. Narrows(m, Return(j))
    BY <1>1, <2>3, <2>4, NarrowsThrough
  <2> QED
    BY <1>3, <2>2, <2>5
<1> QED
  BY <1>2, <1>3

-----------------------------------------------------------------------------
(* One process changes.                                                    *)

(* Whoever runs or reads when the session is quiet is Main.                *)
LEMMA QuietRunner ==
  ASSUME OthersEnd, Quiet, NEW p \in DOMAIN procs,
         procs[p].state = "run" \/ procs[p].state = "prompt"
  PROVE  p = Main /\ QuietProcess(procs[p], Known)
BY DEF OthersEnd, Ended

LEMMA UpdateReads ==
  ASSUME TableOK, ReaderInv, UNCHANGED setting,
         NEW p \in DOMAIN procs, procs[p].state = "run" \/ procs[p].state = "prompt",
         NEW k, Update(p, k),
         k.state = "prompt" => p = Main \/ Developing,
         Quiet /\ QuietProcess(procs[p], Known) => QuietProcess(k, Known)
  PROVE  ReaderInv'
<1>1. /\ DOMAIN procs' = DOMAIN procs /\ procs'[p] = k
      /\ \A q \in DOMAIN procs \ {p} : procs'[q] = procs[q]
  BY DEF Update, TableOK
<1>2. /\ Known' = Known /\ (Quiet' <=> Quiet) /\ (Developing' <=> Developing)
  BY SettingKept
<1>3. OnlyMainReads'
  BY <1>1, <1>2 DEF ReaderInv, OnlyMainReads
<1>4. OthersEnd'
  <2>1. SUFFICES ASSUME Quiet, NEW q \in DOMAIN procs
                 PROVE  IF q = Main THEN QuietProcess(procs'[q], Known) ELSE Ended(procs'[q])
    BY <1>1, <1>2 DEF OthersEnd
  <2>2. p = Main /\ QuietProcess(k, Known)
    BY <2>1, QuietRunner DEF ReaderInv
  <2>3. CASE q = p
    BY <1>1, <2>2, <2>3
  <2>4. CASE q # p
    BY <1>1, <2>1, <2>2, <2>4 DEF ReaderInv, OthersEnd
  <2> QED
    BY <2>3, <2>4
<1> QED
  BY <1>3, <1>4 DEF ReaderInv

LEMMA NarrowReads ==
  ASSUME TableOK, ReaderInv, UNCHANGED setting,
         NEW p \in DOMAIN procs, procs[p].state = "run" \/ procs[p].state = "prompt",
         NEW k \in ProcessType, Update(p, k), Narrows(procs[p], k),
         k.state = "prompt" => p = Main \/ Developing
  PROVE  ReaderInv'
<1>1. procs[p] \in ProcessType
  BY ProcessFacts
<1>2. QuietProcess(procs[p], Known) => QuietProcess(k, Known)
  BY <1>1, NarrowsQuiet
<1> QED
  BY <1>2, UpdateReads

LEMMA LeaveReads ==
  ASSUME TableOK, ReaderInv, UNCHANGED setting,
         NEW p \in DOMAIN procs, procs[p].state = "run" \/ procs[p].state = "prompt",
         NEW status \in Nat, Update(p, Leave(procs[p], status))
  PROVE  ReaderInv'
<1> DEFINE k == Leave(procs[p], status)
<1>1. procs[p] \in ProcessType
  BY ProcessFacts
<1>2. Narrows(procs[p], k) /\ k.state = "ending" /\ k \in ProcessType
  BY <1>1, LeaveGood, LeaveNarrows DEF GoodProcess
<1>3. Update(p, k)
  OBVIOUS
<1> HIDE DEF k
<1> QED
  BY <1>2, <1>3, NarrowReads
-----------------------------------------------------------------------------
(* The entries.                                                            *)

LEMMA EntersReads ==
  ASSUME TableOK, ReaderInv, UNCHANGED setting, NEW p, NEW op, Enters(p, op),
         NEW tag \in Nat, Update(p, Branch(procs[p], tag))
  PROVE  ReaderInv'
<1> DEFINE k == Branch(procs[p], tag)
<1>1. p \in DOMAIN procs /\ procs[p].state = "run" /\ GoodProcess(procs[p])
  BY EnterFacts
<1>2. Narrows(procs[p], k) /\ k.state = "run" /\ k \in ProcessType
  BY <1>1, BranchNarrows
<1>3. Update(p, k)
  OBVIOUS
<1> HIDE DEF k
<1> QED
  BY <1>1, <1>2, <1>3, NarrowReads

LEMMA BranchesRead ==
  ASSUME TableOK, ReaderInv, NEW p, EnterEmpty(p) \/ EnterTest(p) \/ EnterSplice(p)
  PROVE  ReaderInv'
<1>1. CASE EnterEmpty(p)
  <2>1. Enters(p, "empty") /\ Entry(Proc(p)).next \in Nat /\ Proc(p) = procs[p]
    BY <1>1, EnterFacts DEF EnterEmpty, EntryOK
  <2> QED
    BY <1>1, <2>1, EntersReads DEF EnterEmpty
<1>2. CASE EnterSplice(p)
  <2>1. Enters(p, "splice") /\ Entry(Proc(p)).next \in Nat /\ Proc(p) = procs[p]
    BY <1>2, EnterFacts DEF EnterSplice, EntryOK
  <2> QED
    BY <1>2, <2>1, EntersReads DEF EnterSplice
<1>3. CASE EnterTest(p)
  <2> DEFINE e == Entry(Proc(p))
             tag == IF Closure(Proc(p)).cond = 0 THEN e.direct ELSE e.reverse
  <2>1. Enters(p, "test") /\ e.direct \in Nat /\ e.reverse \in Nat /\ Proc(p) = procs[p]
    BY <1>3, EnterFacts DEF EnterTest, EntryOK
  <2>2. tag \in Nat /\ Update(p, Branch(procs[p], tag)) /\ UNCHANGED setting
    BY <1>3, <2>1 DEF EnterTest
  <2> HIDE DEF tag
  <2> QED
    BY <2>1, <2>2, EntersReads
<1> QED
  BY <1>1, <1>2, <1>3

LEMMA EndsRead ==
  ASSUME TableOK, ReaderInv, NEW p, EnterLast(p) \/ EnterExit(p)
  PROVE  ReaderInv'
<1> DEFINE m == procs[p]
<1>1. CASE EnterLast(p)
  <2> DEFINE k == Done(m, Closure(m).cond)
  <2>1. /\ p \in DOMAIN procs /\ m.state = "run" /\ GoodProcess(m)
        /\ Closure(m).cond \in Nat /\ Update(p, k) /\ UNCHANGED setting
    BY <1>1, EnterFacts DEF EnterLast, ClosureType
  <2> HIDE DEF m
  <2>2. GoodProcess(k) /\ Narrows(m, k) /\ (~Developing => k.state # "prompt")
    BY <2>1, DoneGood, DoneNarrows
  <2>3. k \in ProcessType
    BY <2>2 DEF GoodProcess
  <2> HIDE DEF k
  <2> QED
    BY <2>1, <2>2, <2>3, NarrowReads DEF m
<1>2. CASE EnterExit(p)
  <2> DEFINE code == Entry(m).calls[1].arg
             k == Exit(m, code)
  <2>1. /\ p \in DOMAIN procs /\ m.state = "run" /\ GoodProcess(m)
        /\ EntryOK(Entry(m), Program[Closure(m).prog].detachables) /\ Entry(m).op = "step"
        /\ ExitsHere(Entry(m).calls) /\ Update(p, k) /\ UNCHANGED setting
    BY <1>2, EnterFacts DEF EnterExit
  <2>2. code \in Nat
    BY <2>1 DEF ExitsHere, Alone, IsNumber
  <2> HIDE DEF m, code
  <2>3. GoodProcess(k) /\ Narrows(m, k) /\ k.state # "prompt"
    BY <2>1, <2>2, ExitGood, ExitNarrows
  <2>4. k \in ProcessType
    BY <2>3 DEF GoodProcess
  <2> HIDE DEF k
  <2> QED
    BY <2>1, <2>3, <2>4, NarrowReads DEF m
<1> QED
  BY <1>1, <1>2

LEMMA RefusedReads ==
  ASSUME TableOK, ReaderInv, UNCHANGED setting, NEW p \in DOMAIN procs,
         procs[p].state = "run" \/ procs[p].state = "prompt", Refused(p)
  PROVE  ReaderInv'
<1>1. \E status \in {1, SIGABRT, SIGSEGV} : Update(p, Leave(procs[p], status))
  BY DEF Refused, Fail, Proc
<1>2. 1 \in Nat /\ SIGABRT \in Nat /\ SIGSEGV \in Nat
  BY DEF SIGABRT, SIGSEGV
<1> QED
  BY <1>1, <1>2, LeaveReads

LEMMA NowhereReads ==
  ASSUME TableOK, ReaderInv, NEW p, EnterNowhere(p)
  PROVE  ReaderInv'
<1>1. /\ p \in DOMAIN procs /\ procs[p].state = "run" /\ UNCHANGED setting
      /\ Update(p, Leave(procs[p], SIGSEGV)) /\ SIGSEGV \in Nat
  BY DEF EnterNowhere, Running, IsShell, Proc, SIGSEGV
<1> QED
  BY <1>1, LeaveReads

(* A job is compiled from a detached command, and aborts the shell when it *)
(* has built-ins.                                                          *)
LEMMA PushedQuiet ==
  ASSUME NEW m \in ProcessType, NEW job, NEW names, QuietProcess(m, names),
         job \in names, ~Program[job].builtins
  PROVE  QuietProcess(Pushed(m, NewClosure(job, 0)), names)
<1> DEFINE Job == [order : Nat, cl : ClosureType]
           first == [order |-> m.order, cl |-> NewClosure(job, 0)]
           jobs == << first >> \o m.jobs
           k == Pushed(m, NewClosure(job, 0))
<1>1. k = [m EXCEPT !.order = @ + 1, !.jobs = jobs] /\ first.cl.prog = job
  BY DEF Pushed, NewClosure
<1>2. m.jobs \in Seq(Job) /\ Len(m.jobs) \in Nat /\ DOMAIN m.jobs = 1 .. Len(m.jobs)
  BY DEF ProcessType
<1> HIDE DEF first
<1>3. /\ DOMAIN jobs = 1 .. Len(m.jobs) + 1
      /\ \A i \in DOMAIN jobs : \/ jobs[i] = first
                                \/ i - 1 \in DOMAIN m.jobs /\ jobs[i] = m.jobs[i - 1]
  <2> HIDE DEF Job
  <2>1. /\ << first >> \in Seq({first}) /\ Len(<< first >>) = 1 /\ << first >>[1] = first
    OBVIOUS
  <2>2. /\ Len(jobs) = 1 + Len(m.jobs) /\ DOMAIN jobs = 1 .. 1 + Len(m.jobs)
        /\ \A i \in 1 .. 1 + Len(m.jobs) :
             jobs[i] = IF i <= 1 THEN << first >>[i] ELSE m.jobs[i - 1]
    BY <1>2
  <2> HIDE DEF jobs
  <2> QED
    BY <1>2, <2>1, <2>2
<1> HIDE DEF jobs, k
<1>4. k.jobs = jobs /\ k.frames = m.frames /\ k.scripts = m.scripts
  BY <1>1 DEF ProcessType
<1>5. QuietJobs(k, names)
  BY <1>1, <1>3, <1>4 DEF QuietProcess, QuietJobs
<1> QED
  BY <1>4, <1>5 DEF QuietProcess, QuietFrames, QuietScripts, k

LEMMA DetachReads ==
  ASSUME TableOK, ReaderInv, NEW p, EnterDetach(p) \/ EnterDetachUnset(p)
  PROVE  ReaderInv'
<1> DEFINE m == procs[p]
           e == Entry(m)
           jobs == Program[Closure(m).prog].detachables
           job == Last(jobs)
           k == Branch(m, e.next)
           pushed == Pushed(k, NewClosure(job, 0))
<1>1. /\ Enters(p, "detach") /\ p \in DOMAIN procs /\ Proc(p) = m /\ m.state = "run"
      /\ GoodProcess(m) /\ m \in ProcessType
      /\ Closure(m) \in ClosureType /\ e.next \in Nat /\ jobs # << >>
  BY EnterFacts DEF EnterDetach, EnterDetachUnset, EntryOK
<1>2. \/ Update(p, Leave(m, SIGABRT)) \/ Update(p, Leave(m, SIGSEGV))
      \/ Update(p, k)
      \/ Update(p, pushed) /\ ~Program[job].builtins
  BY <1>1 DEF EnterDetach, EnterDetachUnset
<1>3. SIGABRT \in Nat /\ SIGSEGV \in Nat /\ UNCHANGED setting
  BY DEF SIGABRT, SIGSEGV, EnterDetach, EnterDetachUnset
<1>4. CASE Update(p, Leave(m, SIGABRT)) \/ Update(p, Leave(m, SIGSEGV))
  BY <1>1, <1>3, <1>4, LeaveReads
<1>5. CASE Update(p, k)
  BY <1>1, <1>3, <1>5, EntersReads
<1>6. CASE Update(p, pushed) /\ ~Program[job].builtins
  <2>1. jobs \in Seq(DOMAIN Program) /\ Closure(m).prog \in DOMAIN Program
    BY <1>1, ProgramIsCompiled DEF ClosureType
  <2>2. job \in Range(jobs)
    <3> HIDE DEF jobs
    <3> QED
      BY <1>1, <2>1 DEF Last, Range
  <2>3. job \in Known
    BY <2>1, <2>2 DEF Known, Detachable
  <2> HIDE DEF m, e, job
  <2>4. k \in ProcessType /\ k.state = "run" /\ Narrows(m, k)
    BY <1>1, BranchNarrows
  <2> HIDE DEF k
  <2>5. QuietProcess(m, Known) => QuietProcess(pushed, Known)
    BY <1>1, <1>6, <2>3, <2>4, NarrowsQuiet, PushedQuiet
  <2>6. pushed.state = "run"
    BY <2>4 DEF Pushed, ProcessType
  <2> HIDE DEF pushed
  <2> QED
    BY <1>1, <1>3, <1>6, <2>5, <2>6, UpdateReads DEF m
<1> QED
  BY <1>2, <1>4, <1>5, <1>6
(* A run inside a run: the new frame lies above the first, and its line    *)
(* has no built-ins.                                                       *)
LEMMA NestedQuiet ==
  ASSUME NEW m \in ProcessType, m.frames # << >>, NEW cl, NEW names,
         QuietProcess(m, names), cl.prog \in names, ~Program[cl.prog].builtins
  PROVE  LET k == [m EXCEPT !.frames = Append(@, NewFrame(cl, 0))] IN
         QuietProcess(k, names)
<1> DEFINE n == Len(m.frames)
           f == NewFrame(cl, 0)
           frames == Append(m.frames, f)
           k == [m EXCEPT !.frames = frames]
<1>1. m.frames \in Seq(FrameType) /\ n \in Nat \ {0} /\ DOMAIN m.frames = 1 .. n
  BY DEF ProcessType
<1>2. f.cl = cl
  BY DEF NewFrame
<1> HIDE DEF f
<1>3. /\ DOMAIN frames = 1 .. n + 1
      /\ frames[n + 1] = f /\ \A i \in 1 .. n : frames[i] = m.frames[i]
  BY <1>1
<1> HIDE DEF frames
<1>4. k.frames = frames /\ k.jobs = m.jobs /\ k.scripts = m.scripts
  BY DEF ProcessType
<1> HIDE DEF n, k
<1>5. \A i \in DOMAIN frames : \/ i = n + 1
                               \/ i \in DOMAIN m.frames /\ frames[i] = m.frames[i]
  BY <1>1, <1>3
<1>6. QuietFrames(k, names)
  BY <1>2, <1>3, <1>4, <1>5 DEF QuietProcess, QuietFrames
<1> QED
  BY <1>4, <1>6 DEF QuietProcess, QuietJobs, QuietScripts, k, frames, f

LEMMA InsideReads ==
  ASSUME TableOK, ReaderInv, UNCHANGED setting,
         NEW p \in DOMAIN procs, procs[p].state = "run",
         NEW m, GoodProcess(m), m.state = "run", Entry(m).next \in Nat,
         NEW cl, RunInside(p, cl, m),
         Quiet /\ QuietProcess(procs[p], Known) =>
           QuietProcess(m, Known) /\ cl.prog \in Known /\ ~Program[cl.prog].builtins
  PROVE  ReaderInv'
<1> DEFINE m1 == Branch(m, Entry(m).next)
           k == [m1 EXCEPT !.frames = Append(@, NewFrame(cl, 0))]
<1>1. /\ Narrows(m, m1) /\ m1.state = "run" /\ m1 \in ProcessType /\ GoodProcess(m1)
  BY BranchNarrows
<1>2. Update(p, k)
  BY DEF RunInside
<1> HIDE DEF m1
<1>3. m1.frames # << >> /\ m \in ProcessType
  BY <1>1 DEF GoodProcess, FramesOK
<1>4. k.state = "run"
  BY <1>1 DEF ProcessType
<1>5. Quiet /\ QuietProcess(procs[p], Known) => QuietProcess(k, Known)
  BY <1>1, <1>3, NarrowsQuiet, NestedQuiet
<1> HIDE DEF k
<1> QED
  BY <1>2, <1>4, <1>5, UpdateReads

LEMMA AgainReads ==
  ASSUME TableOK, ReaderInv, setting \in Settings, NEW p, EnterAgain(p)
  PROVE  ReaderInv'
<1>1. PICK name \in setting.again : \E cl \in Compiled(name) : RunInside(p, cl, Proc(p))
  BY DEF EnterAgain
<1>2. PICK cl \in Compiled(name) : RunInside(p, cl, Proc(p))
  BY <1>1
<1>3. cl.prog = name
  BY DEF Compiled, NewClosure
<1>4. /\ p \in DOMAIN procs /\ Proc(p) = procs[p] /\ GoodProcess(procs[p])
      /\ procs[p].state = "run" /\ Entry(procs[p]).next \in Nat
  BY EnterFacts DEF EnterAgain, EntryOK
<1>5. name \in Known
  BY DEF Known, Lines
<1>6. Quiet => ~Program[name].builtins
  BY DEF Quiet, Repeats
<1>7. UNCHANGED setting /\ RunInside(p, cl, procs[p])
  BY <1>2, <1>4 DEF RunInside
<1> QED
  BY <1>3, <1>4, <1>5, <1>6, <1>7, InsideReads

LEMMA FgReads ==
  ASSUME TableOK, ReaderInv, NEW p, EnterFg(p)
  PROVE  ReaderInv'
<1> DEFINE m == procs[p]
           k == [m EXCEPT !.jobs = Tail(@)]
           cl == m.jobs[1].cl
<1>1. /\ p \in DOMAIN procs /\ Proc(p) = m /\ GoodProcess(m) /\ m \in ProcessType
      /\ m.state = "run" /\ Entry(m).next \in Nat
  BY EnterFacts DEF EnterFg, EntryOK
<1>2. m.jobs # << >> /\ RunInside(p, cl, k) /\ UNCHANGED setting
  BY <1>1 DEF EnterFg, FgHere, RunInside
<1> HIDE DEF m
<1>3. GoodProcess(k) /\ k.frames = m.frames /\ k.state = m.state
  BY <1>1, <1>2, PoppedGood
<1>4. k.jobs = Tail(m.jobs) /\ k.scripts = m.scripts
  BY <1>1 DEF ProcessType
<1> HIDE DEF k
<1>5. Entry(k) = Entry(m)
  BY <1>3 DEF Closure, Top, Entry, Entries
<1>6. /\ \A i \in DOMAIN Tail(m.jobs) : i + 1 \in DOMAIN m.jobs /\ Tail(m.jobs)[i] = m.jobs[i + 1]
      /\ 1 \in DOMAIN m.jobs
  <2> DEFINE Job == [order : Nat, cl : ClosureType]
  <2>1. m.jobs \in Seq(Job)
    BY <1>1 DEF ProcessType
  <2> HIDE DEF Job
  <2> QED
    BY <1>2, <2>1, HeadTailProperties
<1>7. ASSUME QuietProcess(m, Known)
      PROVE  QuietProcess(k, Known) /\ cl.prog \in Known /\ ~Program[cl.prog].builtins
  <2>1. QuietFrames(k, Known) /\ QuietScripts(k, Known)
    BY <1>3, <1>4, <1>7 DEF QuietProcess, QuietFrames, QuietScripts
  <2>2. QuietJobs(k, Known)
    BY <1>4, <1>6, <1>7 DEF QuietProcess, QuietJobs
  <2> QED
    BY <1>6, <1>7, <2>1, <2>2 DEF QuietProcess, QuietJobs
<1> HIDE DEF cl
<1>8. procs[p].state = "run" /\ k.state = "run" /\ Entry(k).next \in Nat
  BY <1>1, <1>3, <1>5 DEF m
<1> QED
  BY <1>1, <1>2, <1>3, <1>7, <1>8, InsideReads DEF m

-----------------------------------------------------------------------------
(* main.c.                                                                 *)

LEMMA StartReads ==
  ASSUME TableOK, ReaderInv, UNCHANGED setting,
         NEW p \in DOMAIN procs, procs[p].state = "prompt",
         NEW name, NEW m \in ProcessType, StartLine(p, name, m),
         QuietProcess(procs[p], Known) => QuietProcess(m, Known) /\ name \in Known
  PROVE  ReaderInv'
<1>1. PICK cl \in Compiled(name) :
        Update(p, [m EXCEPT !.state = "run", !.frames = << NewFrame(cl, m.code) >>])
  BY DEF StartLine
<1> DEFINE f == NewFrame(cl, m.code)
           k == [m EXCEPT !.state = "run", !.frames = << f >>]
<1>2. f.cl.prog = name
  BY DEF Compiled, NewClosure, NewFrame
<1> HIDE DEF f
<1>3. DOMAIN << f >> = {1} /\ << f >>[1] = f
  OBVIOUS
<1>4. k.state = "run" /\ k.frames = << f >> /\ k.jobs = m.jobs /\ k.scripts = m.scripts
  BY DEF ProcessType
<1>5. Update(p, k)
  BY <1>1 DEF f
<1> HIDE DEF k
<1>6. QuietProcess(m, Known) /\ name \in Known => QuietProcess(k, Known)
  BY <1>2, <1>3, <1>4 DEF QuietProcess, QuietFrames, QuietJobs, QuietScripts
<1> QED
  BY <1>4, <1>5, <1>6, UpdateReads

LEMMA MainReads ==
  ASSUME RunnerInv, ReaderInv, NEW p,
         \/ \E name \in setting.lines : ReadLine(p, name)
         \/ RunScript(p) \/ ReadMalformed(p) \/ EndOfInput(p)
  PROVE  ReaderInv'
<1> DEFINE m == procs[p]
<1>1. /\ p \in DOMAIN procs /\ m.state = "prompt" /\ Proc(p) = m /\ TableOK
      /\ setting \in Settings /\ UNCHANGED setting
  BY DEF ReadLine, RunScript, ReadMalformed, EndOfInput, IsShell, Proc, RunnerInv, RecordOK
<1>2. m \in ProcessType
  BY <1>1, ProcessFacts
<1>3. CASE \E name \in setting.lines : ReadLine(p, name)
  <2>1. PICK name \in setting.lines : StartLine(p, name, m)
    BY <1>1, <1>3 DEF ReadLine
  <2>2. name \in Known
    BY DEF Known, Lines
  <2> QED
    BY <1>1, <1>2, <2>1, <2>2, StartReads
<1>4. CASE RunScript(p)
  <2> DEFINE k == [m EXCEPT !.scripts = Tail(@)]
             name == Head(m.scripts)
  <2>1. m.scripts \in Seq(DOMAIN Program) /\ m.scripts # << >> /\ StartLine(p, name, k)
    BY <1>1, <1>2, <1>4 DEF RunScript, ProcessType
  <2> HIDE DEF m
  <2>2. Tail(m.scripts) \in Seq(DOMAIN Program) /\ name = m.scripts[1] /\ 1 \in DOMAIN m.scripts
    <3>1. Tail(m.scripts) \in Seq(DOMAIN Program)
      BY <2>1, HeadTailProperties
    <3>2. Head(m.scripts) = m.scripts[1]
      BY <2>1
    <3>3. 1 \in DOMAIN m.scripts
      BY <2>1
    <3> QED
      BY <3>1, <3>2, <3>3
  <2>3. \A i \in DOMAIN Tail(m.scripts) :
          i + 1 \in DOMAIN m.scripts /\ Tail(m.scripts)[i] = m.scripts[i + 1]
    BY <2>1, HeadTailProperties
  <2>4. /\ k \in ProcessType /\ k.frames = m.frames
        /\ k.jobs = m.jobs /\ k.scripts = Tail(m.scripts)
    BY <1>2, <2>2 DEF ProcessType
  <2> HIDE DEF k, name
  <2>5. QuietProcess(m, Known) => QuietProcess(k, Known) /\ name \in Known
    BY <2>2, <2>3, <2>4 DEF QuietProcess, QuietFrames, QuietJobs, QuietScripts
  <2> QED
    BY <1>1, <2>1, <2>4, <2>5, StartReads DEF m
<1>5. CASE ReadMalformed(p)
  BY <1>1, <1>5, RefusedReads DEF ReadMalformed
<1>6. CASE EndOfInput(p)
  <2>1. Update(p, Leave(m, m.code)) /\ m.code \in Nat
    BY <1>1, <1>2, <1>6 DEF EndOfInput, ProcessType
  <2> QED
    BY <1>1, <2>1, LeaveReads
<1> QED
  BY <1>3, <1>4, <1>5, <1>6

-----------------------------------------------------------------------------
(* waitpid, exit and fork.                                                 *)

LEMMA ReapReads ==
  ASSUME TableOK, ReaderInv, NEW p, Reap(p)
  PROVE  ReaderInv'
<1> DEFINE m == procs[p]
           cl == Closure(m)
           child == Head(cl.waitq)
           left == [cl EXCEPT !.waitq = Tail(@),
                              !.cond = IF Proc(child).status # 0 THEN 1 ELSE @]
           k == SetClosure(m, left)
<1>1. /\ p \in DOMAIN procs /\ m.state = "run" /\ Proc(p) = m /\ GoodProcess(m)
      /\ m \in ProcessType /\ cl.waitq # << >> /\ UNCHANGED setting
  BY ProcessFacts DEF Reap, Running, IsShell, Proc
<1>2. CASE child \notin ChildrenOf(p)
  <2>1. Update(p, Leave(m, 1)) /\ 1 \in Nat
    BY <1>1, <1>2 DEF Reap, Fail
  <2> QED
    BY <1>1, <2>1, LeaveReads
<1>3. CASE child \in ChildrenOf(p)
  <2>1. /\ procs[child].state = "zombie"
        /\ procs' = [q \in DOMAIN procs \ {child} |-> IF q = p THEN k ELSE procs[q]]
    BY <1>1, <1>3 DEF Reap, ChildrenOf, Proc
  <2>2. GoodClosure(cl) /\ cl \in ClosureType
    <3> HIDE DEF m
    <3> QED
      BY <1>1, TopFacts
  <2> HIDE DEF m, cl
  <2>3. cl.waitq \in Seq(Pids) /\ Tail(cl.waitq) \in Seq(Pids)
    BY <1>1, <2>2 DEF ClosureType
  <2>4. GoodClosure(left) /\ left.prog = cl.prog
    BY <2>2, <2>3 DEF GoodClosure, ClosureType
  <2> HIDE DEF left, child
  <2>5. GoodProcess(k) /\ Narrows(m, k) /\ k.state = "run"
    <3>1. left.prog = Closure(m).prog
      BY <2>4 DEF cl
    <3> QED
      BY <1>1, <2>4, <3>1, SetClosureGood, ClosureNarrows
  <2> HIDE DEF k
  <2>6. k \in ProcessType
    BY <2>5 DEF GoodProcess
  <2>7. /\ Known' = Known /\ (Quiet' <=> Quiet) /\ (Developing' <=> Developing)
    BY <1>1, SettingKept
  <2>8. /\ DOMAIN procs' \subseteq DOMAIN procs
        /\ \A q \in DOMAIN procs' : procs'[q] = IF q = p THEN k ELSE procs[q]
    BY <2>1
  <2>9. OnlyMainReads'
    BY <2>5, <2>7, <2>8 DEF ReaderInv, OnlyMainReads
  <2>10. OthersEnd'
    <3>1. SUFFICES ASSUME Quiet, NEW q \in DOMAIN procs'
                   PROVE  IF q = Main THEN QuietProcess(procs'[q], Known) ELSE Ended(procs'[q])
      BY <2>7 DEF OthersEnd
    <3>2. p = Main /\ QuietProcess(m, Known)
      BY <1>1, <3>1, QuietRunner DEF ReaderInv, m
    <3>3. CASE q = p
      BY <1>1, <2>5, <2>6, <2>8, <3>2, <3>3, NarrowsQuiet
    <3>4. CASE q # p
      BY <2>8, <3>1, <3>2, <3>4 DEF ReaderInv, OthersEnd
    <3> QED
      BY <3>3, <3>4
  <2> QED
    BY <2>9, <2>10 DEF ReaderInv
<1> QED
  BY <1>2, <1>3

(* The dead and the orphaned go on as they were.                           *)
LEMMA DieReads ==
  ASSUME TableOK, ReaderInv, NEW p, Die(p)
  PROVE  ReaderInv'
<1> DEFINE Same(m, k) == /\ k.frames = m.frames /\ k.jobs = m.jobs /\ k.scripts = m.scripts
                         /\ k.state = m.state \/ k.state = "zombie"
<1>1. UNCHANGED setting /\ DOMAIN procs' \subseteq DOMAIN procs
  BY DEF Die
<1>2. ASSUME NEW q \in DOMAIN procs'
      PROVE  q \in DOMAIN procs /\ Same(procs[q], procs'[q])
  <2> DEFINE m == procs[q]
  <2>1. q \in DOMAIN procs /\ m \in ProcessType
    BY <1>1, ProcessFacts
  <2>2. \/ procs'[q] = [m EXCEPT !.state = "zombie"]
        \/ procs'[q] = [m EXCEPT !.parent = Nobody]
        \/ procs'[q] = m
    BY DEF Die
  <2> HIDE DEF m
  <2>3. Same(m, procs'[q])
    BY <2>1, <2>2 DEF ProcessType
  <2> QED
    BY <2>1, <2>3 DEF m
<1>3. /\ Known' = Known /\ (Quiet' <=> Quiet) /\ (Developing' <=> Developing)
  BY <1>1, SettingKept
<1>4. OnlyMainReads'
  BY <1>2, <1>3 DEF ReaderInv, OnlyMainReads
<1>5. OthersEnd'
  <2>1. SUFFICES ASSUME Quiet, NEW q \in DOMAIN procs'
                 PROVE  IF q = Main THEN QuietProcess(procs'[q], Known) ELSE Ended(procs'[q])
    BY <1>3 DEF OthersEnd
  <2>2. IF q = Main THEN QuietProcess(procs[q], Known) ELSE Ended(procs[q])
    BY <1>2, <2>1 DEF ReaderInv, OthersEnd
  <2> QED
    BY <1>2, <2>2 DEF QuietProcess, QuietFrames, QuietJobs, QuietScripts, Ended
<1> QED
  BY <1>4, <1>5 DEF ReaderInv

(* A shell forks, and goes on with what it runs or ends.                   *)
LEMMA ForkReads ==
  ASSUME TableOK, ReaderInv, UNCHANGED setting,
         NEW p \in DOMAIN procs, procs[p].state = "run",
         NEW pids \in Seq(Pids), \A i \in DOMAIN pids : pids[i] \notin DOMAIN procs,
         NEW children,
         \A i \in DOMAIN pids : /\ children[i] \in ProcessType
                                /\ children[i].state # "prompt"
                                /\ Quiet /\ QuietProcess(procs[p], Known) => Ended(children[i]),
         NEW next, next.state # "prompt",
         QuietProcess(procs[p], Known) => QuietProcess(next, Known),
         Fork(p, children, pids, next)
  PROVE  ReaderInv'
<1> DEFINE new == Range(pids)
           born(q) == [children[CHOOSE i \in DOMAIN pids : pids[i] = q] EXCEPT !.parent = p]
<1>1. GoodProcess(procs[p]) /\ procs[p] \in ProcessType
  BY ProcessFacts
<1>2. new \cap DOMAIN procs = {}
  BY DEF Range
<1>3. procs' = [q \in DOMAIN procs \cup new |->
                  IF q = p THEN next ELSE IF q \in DOMAIN procs THEN procs[q] ELSE born(q)]
  BY DEF Fork
<1>4. ASSUME NEW q \in new
      PROVE  /\ born(q).state # "prompt"
             /\ Quiet /\ QuietProcess(procs[p], Known) => Ended(born(q))
  <2> DEFINE i == CHOOSE i \in DOMAIN pids : pids[i] = q
  <2>1. i \in DOMAIN pids
    BY DEF Range
  <2> HIDE DEF i
  <2>2. /\ children[i] \in ProcessType /\ children[i].state # "prompt"
        /\ Quiet /\ QuietProcess(procs[p], Known) => Ended(children[i])
    BY <2>1
  <2>3. [children[i] EXCEPT !.parent = p].state = children[i].state
    BY <2>2 DEF ProcessType
  <2>4. born(q).state = children[i].state
    BY <2>3 DEF i
  <2> QED
    BY <2>2, <2>4 DEF Ended
<1> HIDE DEF born, new
<1>6. /\ DOMAIN procs' = DOMAIN procs \cup new
      /\ procs'[p] = next
      /\ \A q \in DOMAIN procs \ {p} : procs'[q] = procs[q]
      /\ \A q \in new : procs'[q] = born(q)
  BY <1>2, <1>3
<1>7. /\ Known' = Known /\ (Quiet' <=> Quiet) /\ (Developing' <=> Developing)
  BY SettingKept
<1>8. OnlyMainReads'
  BY <1>4, <1>6, <1>7 DEF ReaderInv, OnlyMainReads
<1>9. OthersEnd'
  <2>1. SUFFICES ASSUME Quiet, NEW q \in DOMAIN procs \cup new
                 PROVE  IF q = Main THEN QuietProcess(procs'[q], Known) ELSE Ended(procs'[q])
    BY <1>6, <1>7 DEF OthersEnd
  <2>2. p = Main /\ QuietProcess(procs[p], Known)
    BY <2>1, QuietRunner DEF ReaderInv
  <2>3. CASE q = p
    BY <1>6, <2>2, <2>3
  <2>4. CASE q \in DOMAIN procs \ {p}
    BY <1>6, <2>1, <2>2, <2>4 DEF ReaderInv, OthersEnd
  <2>5. CASE q \in new
    BY <1>2, <1>4, <1>6, <2>1, <2>2, <2>5
  <2> QED
    BY <2>1, <2>3, <2>4, <2>5
<1> QED
  BY <1>8, <1>9 DEF ReaderInv

LEMMA ForkAllReads ==
  ASSUME TableOK, ReaderInv, UNCHANGED setting,
         NEW p \in DOMAIN procs, procs[p].state = "run",
         NEW pids \in Seq(Pids), \A i \in DOMAIN pids : pids[i] \notin DOMAIN procs,
         NEW children,
         \A i \in DOMAIN pids : /\ children[i] \in ProcessType
                                /\ children[i].state # "prompt"
                                /\ Quiet /\ QuietProcess(procs[p], Known) => Ended(children[i]),
         NEW m, GoodProcess(m), m.state = "run", Narrows(procs[p], m),
         ForkAll(p, children, pids, m)
  PROVE  ReaderInv'
<1> DEFINE cl == WaitFor(Closure(m), pids)
           next == IF Len(pids) < Len(children) THEN Fail(Proc(p)) ELSE SetClosure(m, cl)
<1>1. GoodProcess(procs[p]) /\ procs[p] \in ProcessType
  BY ProcessFacts
<1>2. Fork(p, children, pids, next)
  BY DEF ForkAll
<1>5. /\ next.state # "prompt"
      /\ QuietProcess(procs[p], Known) => QuietProcess(next, Known)
  <2>1. CASE Len(pids) < Len(children)
    <3>1. next = Leave(procs[p], 1) /\ 1 \in Nat
      BY <2>1 DEF Fail, Proc
    <3> HIDE DEF next
    <3>2. Narrows(procs[p], next) /\ next.state = "ending" /\ next \in ProcessType
      BY <1>1, <3>1, LeaveNarrows, LeaveGood DEF GoodProcess
    <3> QED
      BY <1>1, <3>2, NarrowsQuiet
  <2>2. CASE ~(Len(pids) < Len(children))
    <3>1. next = SetClosure(m, cl)
      BY <2>2
    <3>2. GoodClosure(Closure(m)) /\ Closure(m) \in ClosureType
      BY TopFacts
    <3>3. GoodClosure(cl) /\ cl.prog = Closure(m).prog
      BY <3>2 DEF GoodClosure, ClosureType, WaitFor
    <3> HIDE DEF next, cl
    <3>4. GoodProcess(next) /\ Narrows(m, next) /\ next.state = "run"
      BY <3>1, <3>3, SetClosureGood, ClosureNarrows
    <3> QED
      BY <1>1, <3>4, NarrowsQuiet DEF GoodProcess
  <2> QED
    BY <2>1, <2>2
<1> HIDE DEF next
<1> QED
  BY <1>2, <1>5, ForkReads

(* A child made for an invocation never comes to the prompt, and a         *)
(* built-in's ends when its shell has a single frame.                      *)
LEMMA ChildReads ==
  ASSUME NEW m, GoodProcess(m), m.state = "run", will \in Outcomes,
         NEW calls, NEW i, CallOK(calls[i])
  PROVE  /\ Child(m, calls, i).state # "prompt"
         /\ calls[i].kind = "regular" \/ Len(m.frames) = 1 => Ended(Child(m, calls, i))
<1> DEFINE ends == calls[i].kind \in {"regular", "fg"} \/ ReportsError(calls)
<1>1. CASE ends
  <2>1. \E status : Child(m, calls, i) = Ending(status)
    BY <1>1 DEF Child
  <2> QED
    BY <2>1 DEF Ending, Ended
<1>2. CASE ~ends
  <2>1. \E code \in Nat : Child(m, calls, i) = Exit(m, code)
    BY <1>2 DEF Child
  <2> QED
    BY <1>2, <2>1, ExitNarrows DEF Ended
<1> QED
  BY <1>1, <1>2

(* A step with a built-in belongs to a line with built-ins, which is the   *)
(* first frame's.                                                          *)
LEMMA BuiltInsBelow ==
  ASSUME NEW m, GoodProcess(m), m.state = "run", NEW names, QuietProcess(m, names),
         Closure(m).entry \in DOMAIN Entries(m), Entry(m).op = "step",
         NEW i \in DOMAIN Entry(m).calls, Entry(m).calls[i].kind # "regular"
  PROVE  Len(m.frames) = 1
<1>1. /\ m.frames \in Seq(FrameType) /\ Len(m.frames) \in DOMAIN m.frames
      /\ Closure(m) = m.frames[Len(m.frames)].cl /\ GoodClosure(Closure(m))
  BY TopFacts
<1>2. Program[Closure(m).prog].builtins
  <2> DEFINE prog == Program[Closure(m).prog]
             e == prog.code[Closure(m).entry]
  <2>1. /\ Closure(m).prog \in DOMAIN Program /\ Closure(m).entry \in DOMAIN prog.code
        /\ Entry(m) = e
    BY <1>1 DEF GoodClosure, ClosureType, Entries, Entry
  <2>2. ~RegularStep(e)
    BY <2>1 DEF RegularStep
  <2>3. prog.builtins \/ RegularStep(e)
    <3>1. prog.builtins \/ \A j \in DOMAIN prog.code : RegularStep(prog.code[j])
      BY <2>1, ProgramIsCompiled
    <3> QED
      BY <2>1, <3>1
  <2> QED
    BY <2>2, <2>3
<1> QED
  BY <1>1, <1>2 DEF QuietProcess, QuietFrames

LEMMA StepReads ==
  ASSUME TableOK, RecordOK, ReaderInv, NEW p, EnterStep(p)
  PROVE  ReaderInv'
<1> DEFINE m == procs[p]
           calls == Entry(m).calls
           children == [i \in DOMAIN calls |-> Child(m, calls, i)]
           k == Branch(m, Entry(m).next)
<1>1. /\ p \in DOMAIN procs /\ Proc(p) = m /\ m.state = "run" /\ GoodProcess(m)
      /\ Entry(m).next \in Nat /\ Entry(m).op = "step" /\ UNCHANGED setting
      /\ Len(calls) \in Nat /\ DOMAIN calls = 1 .. Len(calls)
      /\ \A i \in DOMAIN calls : CallOK(calls[i])
  BY EnterFacts DEF EnterStep, EntryOK
<1>2. PICK pids \in Forked(Len(calls)) :
        ForkAll(p, children, pids, k) \/ Fork(p, children, pids, Fail(m))
  BY <1>1 DEF EnterStep
<1>3. Closure(m).entry \in DOMAIN Entries(m)
  BY <1>1 DEF EnterStep, Enters
<1>4. \A i \in DOMAIN calls : QuietProcess(m, Known) =>
        calls[i].kind = "regular" \/ Len(m.frames) = 1
  BY <1>1, <1>3, BuiltInsBelow
<1> HIDE DEF calls
<1>5. /\ pids \in Seq(Pids) /\ Len(pids) \in 0 .. Len(calls)
      /\ DOMAIN pids = 1 .. Len(pids)
      /\ \A i \in DOMAIN pids : pids[i] \notin DOMAIN procs
  BY <1>1, <1>2, ForkedFacts DEF RecordOK
<1> HIDE DEF m
<1>6. \A i \in DOMAIN pids : /\ children[i] \in ProcessType
                             /\ children[i].state # "prompt"
                             /\ Quiet /\ QuietProcess(m, Known) => Ended(children[i])
  <2>1. SUFFICES ASSUME NEW i \in DOMAIN pids
                 PROVE  /\ Child(m, calls, i) \in ProcessType
                        /\ Child(m, calls, i).state # "prompt"
                        /\ Quiet /\ QuietProcess(m, Known) => Ended(Child(m, calls, i))
    BY <1>1, <1>5
  <2>2. i \in DOMAIN calls /\ CallOK(calls[i])
    BY <1>1, <1>5
  <2>3. Child(m, calls, i) \in ProcessType /\ Child(m, calls, i).state # "prompt"
    <3>1. GoodProcess(Child(m, calls, i))
      BY <1>1, <2>2, ChildGood DEF RecordOK
    <3>2. Child(m, calls, i).state # "prompt"
      BY <1>1, <2>2, ChildReads DEF RecordOK
    <3> QED
      BY <3>1, <3>2 DEF GoodProcess
  <2>4. Quiet /\ QuietProcess(m, Known) => Ended(Child(m, calls, i))
    BY <1>1, <1>4, <2>2, ChildReads DEF RecordOK
  <2> QED
    BY <2>3, <2>4
<1> HIDE DEF children
<1>7. GoodProcess(k) /\ k.state = "run" /\ Narrows(m, k)
  BY <1>1, BranchNarrows
<1> HIDE DEF k
<1>8. CASE ForkAll(p, children, pids, k)
  BY <1>1, <1>5, <1>6, <1>7, <1>8, ForkAllReads DEF m
<1>9. CASE Fork(p, children, pids, Fail(m))
  <2>1. m \in ProcessType /\ Fail(m) = Leave(m, 1) /\ 1 \in Nat
    BY <1>1 DEF GoodProcess, Fail
  <2>2. Narrows(m, Fail(m)) /\ Fail(m).state = "ending" /\ Fail(m) \in ProcessType
    BY <2>1, LeaveNarrows, LeaveGood DEF GoodProcess
  <2>3. QuietProcess(m, Known) => QuietProcess(Fail(m), Known)
    BY <2>1, <2>2, NarrowsQuiet
  <2> QED
    BY <1>1, <1>5, <1>6, <1>9, <2>2, <2>3, ForkReads DEF m
<1> QED
  BY <1>2, <1>8, <1>9

(* A line with an expansion is not quiet.                                  *)
LEMMA ExpandReads ==
  ASSUME TableOK, RecordOK, ReaderInv, NEW p, EnterExpand(p)
  PROVE  ReaderInv'
<1> DEFINE m == procs[p]
           heads == Entry(m).heads
           cl(i) == [Closure(m) EXCEPT !.waitq = << >>, !.entry = heads[i], !.cond = 0]
           children == [i \in DOMAIN heads |-> SetClosure(m, cl(i))]
           k == Branch(m, Entry(m).next)
<1>1. /\ p \in DOMAIN procs /\ Proc(p) = m /\ m.state = "run" /\ GoodProcess(m)
      /\ Entry(m).next \in Nat /\ heads \in Seq(Nat) /\ UNCHANGED setting
      /\ GoodClosure(Closure(m)) /\ Closure(m) \in ClosureType
  BY EnterFacts DEF EnterExpand, EntryOK
<1>2. PICK pids \in Forked(Len(heads)) : ForkAll(p, children, pids, k)
  BY <1>1 DEF EnterExpand
<1>3. ~(Quiet /\ QuietProcess(m, Known))
  <2>1. SUFFICES ASSUME Quiet, QuietProcess(m, Known)
                 PROVE  FALSE
    OBVIOUS
  <2>2. Entry(m).op = "expand" /\ Closure(m).entry \in DOMAIN Entries(m)
    BY <1>1 DEF EnterExpand, Enters
  <2>3. Entry(m) \in Range(Program[Closure(m).prog].code)
    BY <1>1, <2>2 DEF GoodClosure, Entry, Entries, Range
  <2>4. Closure(m).prog \in Known
    <3>1. Len(m.frames) \in DOMAIN m.frames /\ Closure(m) = m.frames[Len(m.frames)].cl
      BY <1>1, TopFacts
    <3> QED
      BY <2>1, <3>1 DEF QuietProcess, QuietFrames
  <2> QED
    BY <2>1, <2>2, <2>3, <2>4 DEF Quiet, Expands
<1> HIDE DEF heads
<1>4. Len(heads) \in Nat /\ DOMAIN heads = 1 .. Len(heads) /\ \A i \in DOMAIN heads : heads[i] \in Nat
  BY <1>1
<1>5. /\ pids \in Seq(Pids) /\ Len(pids) \in 0 .. Len(heads)
      /\ DOMAIN pids = 1 .. Len(pids)
      /\ \A i \in DOMAIN pids : pids[i] \notin DOMAIN procs
  BY <1>1, <1>2, <1>4, ForkedFacts DEF RecordOK
<1> HIDE DEF m, cl
<1>6. \A i \in DOMAIN pids : children[i] \in ProcessType /\ children[i].state # "prompt"
  <2>1. SUFFICES ASSUME NEW i \in DOMAIN pids
                 PROVE  /\ SetClosure(m, cl(i)) \in ProcessType
                        /\ SetClosure(m, cl(i)).state # "prompt"
    BY <1>4, <1>5
  <2>2. heads[i] \in Nat /\ << >> \in Seq(Pids)
    BY <1>4, <1>5
  <2>3. GoodClosure(cl(i)) /\ cl(i).prog = Closure(m).prog
    BY <1>1, <2>2 DEF GoodClosure, ClosureType, cl
  <2> QED
    BY <1>1, <2>3, SetClosureGood, ClosureNarrows DEF GoodProcess
<1> HIDE DEF children
<1>7. GoodProcess(k) /\ k.state = "run" /\ Narrows(m, k)
  BY <1>1, BranchNarrows
<1> HIDE DEF k
<1> QED
  BY <1>1, <1>2, <1>3, <1>5, <1>6, <1>7, ForkAllReads DEF m

-----------------------------------------------------------------------------
(* The invariant.                                                          *)

LEMMA InitReads ==
  ASSUME Init
  PROVE  ReaderInv
<1>1. /\ DOMAIN procs = {Main} /\ procs[Main].frames = << >> /\ procs[Main].jobs = << >>
      /\ procs[Main].scripts = setting.scripts
  BY DEF Init
<1>2. OnlyMainReads
  BY <1>1 DEF OnlyMainReads
<1>3. \A i \in DOMAIN setting.scripts : setting.scripts[i] \in Known
  BY DEF Known, Lines, Range
<1>4. QuietProcess(procs[Main], Known)
  BY <1>1, <1>3, NothingLeft DEF QuietProcess, QuietFrames, QuietJobs, QuietScripts
<1> QED
  BY <1>1, <1>2, <1>4 DEF ReaderInv, OthersEnd

LEMMA NextReads ==
  ASSUME RunnerInv, ReaderInv, [Next]_vars
  PROVE  ReaderInv'
<1>1. TableOK /\ RecordOK
  BY DEF RunnerInv
<1>2. ASSUME UNCHANGED vars
      PROVE  ReaderInv'
  <2>1. UNCHANGED procs /\ UNCHANGED setting
    BY <1>2 DEF vars
  <2> QED
    BY <2>1, SettingKept DEF ReaderInv, OnlyMainReads, OthersEnd
<1>3. CASE Next
  <2>1. CASE Over
    BY <1>2, <2>1 DEF Over
  <2>2. ASSUME NEW p \in Pids,
               \/ \E name \in setting.lines : ReadLine(p, name)
               \/ RunScript(p) \/ ReadMalformed(p) \/ EndOfInput(p)
        PROVE  ReaderInv'
    BY <2>2, MainReads
  <2>3. ASSUME NEW p \in Pids, Reap(p) \/ Die(p) \/ EnterNowhere(p) \/ AgainRefused(p)
        PROVE  ReaderInv'
    <3>1. CASE AgainRefused(p)
      BY <1>1, <3>1, RefusedReads DEF AgainRefused, Enters, Running, IsShell, Proc
    <3> QED
      BY <1>1, <2>3, <3>1, ReapReads, DieReads, NowhereReads
  <2>4. ASSUME NEW p \in Pids,
               \/ EnterEmpty(p) \/ EnterTest(p) \/ EnterSplice(p)
               \/ EnterLast(p) \/ EnterExit(p)
               \/ EnterDetach(p) \/ EnterDetachUnset(p)
        PROVE  ReaderInv'
    BY <1>1, <2>4, BranchesRead, EndsRead, DetachReads
  <2>5. ASSUME NEW p \in Pids,
               EnterStep(p) \/ EnterExpand(p) \/ EnterAgain(p) \/ EnterFg(p)
        PROVE  ReaderInv'
    BY <1>1, <2>5, StepReads, ExpandReads, AgainReads, FgReads DEF RecordOK
  <2> QED
    BY <1>3, <2>1, <2>2, <2>3, <2>4, <2>5 DEF Next, ShellStep
<1> QED
  BY <1>2, <1>3

(* main's loop, and the frames it runs, belong to the process the user     *)
(* started, for every program the code generator can emit, every line,     *)
(* script, history and job list, and however many processes there are: a   *)
(* built-in's child ends where it was forked, unless `again' finds a line  *)
(* with built-ins, and nothing else of the shell runs but an expansion.    *)
THEOREM ChildrenOnlyEnd == Spec => []OnlyMainRuns
<1>1. Init => ReaderInv
  BY InitReads
<1>2. RunnerInv /\ ReaderInv /\ [Next]_vars => ReaderInv'
  BY NextReads
<1>3. ReaderInv => OnlyMainRuns
  <2>1. SUFFICES ASSUME OnlyMainReads, OthersEnd, NEW p \in DOMAIN procs \ {Main}
                 PROVE  /\ procs[p].state = "prompt" => Developing
                        /\ procs[p].state = "run" \/ procs[p].state = "prompt" => ~Quiet
    BY DEF ReaderInv, OnlyMainRuns, IsShell, Running, Proc, Developing, Quiet
  <2>2. procs[p].state = "prompt" => Developing
    BY <2>1 DEF OnlyMainReads
  <2>3. Quiet => Ended(procs[p])
    BY <2>1 DEF OthersEnd
  <2> QED
    BY <2>2, <2>3 DEF Ended
<1> QED
  BY <1>1, <1>2, <1>3, RunnerHolds, PTL DEF Spec
=============================================================================
