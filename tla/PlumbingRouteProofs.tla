------------------------ MODULE PlumbingRouteProofs ------------------------
(***************************************************************************)
(* That a pipe of Plumbing connects one program to one program, for any    *)
(* chains of entries, programs, files and limits.                          *)
(*                                                                         *)
(* PointToPoint speaks of programs; it holds because of the invocations    *)
(* they come from, forked and yet to be forked.  Routes says of every      *)
(* process that forks what it has to hand out, and that nobody else has it.*)
(***************************************************************************)
EXTENDS PlumbingProofs

Worker(m) == m.state \in {"child", "program"}
Sink(m) == IF m.state = "child" THEN SinkOf(m, m.call[1]) ELSE Key(m.fds[1])
Source(m) == IF m.state = "child" THEN SourceOf(m, m.call[1]) ELSE m.fds[0].pipe
PipeOf(m, i) == m.fds[m.pipes[i][1]].pipe
StepPipes(m) == {PipeOf(m, i) : i \in DOMAIN m.pipes}
Offers(m) == {Key(m.fds[1])} \cup StepPipes(m)
ToCome(m, chain) ==
  IF m.state = "forking" THEN m.made + 1 .. Len(chain[m.entry].calls) ELSE {}

(* No two workers have one sink or one source, no two shells offer one; a  *)
(* worker whose sink its shell offers is that shell's child, and invocations*)
(* to come get others than the workers have.                               *)
SameEnd(m, k) ==
  \/ Sink(m) >= 0 /\ Sink(m) = Sink(k)
  \/ Source(m) # 0 /\ Source(m) = Source(k)
Spared(k, m, chain) ==
  \A i \in ToCome(m, chain) :
    LET call == chain[m.entry].calls[i] IN
    /\ Sink(k) >= 0 => Sink(k) # SinkOf(m, call)
    /\ Source(k) # 0 => Source(k) # SourceOf(m, call)
Routes ==
  /\ \A p, q \in DOMAIN procs :
       Worker(procs[p]) /\ Worker(procs[q]) /\ p # q => ~SameEnd(procs[p], procs[q])
  /\ \A p, q \in DOMAIN procs :
       procs[p].state \in AtWork /\ procs[q].state \in AtWork /\ p # q
         => Offers(procs[p]) \cap Offers(procs[q]) = {}
  /\ \A p, q \in DOMAIN procs : procs[p].state \in AtWork /\ Worker(procs[q]) =>
       /\ Sink(procs[q]) \in Offers(procs[p]) => procs[q].parent = p
       /\ Spared(procs[q], procs[p], code)

-----------------------------------------------------------------------------
(* What the ends of a process are.                                         *)

LEMMA CallRoutes ==
  ASSUME NEW m, NEW l, NEW chain, AreLimits(l), IsChain(chain), Good(m, l, chain),
         m.state \in {"forking", "child"}, NEW call \in Range(chain[m.entry].calls)
  PROVE  /\ SinkOf(m, call) = IF call.out = << >> THEN Key(m.fds[1])
                              ELSE IF Piping(call.out) THEN PipeOf(m, call.out[1].number) ELSE -1
         /\ SourceOf(m, call) = IF Piping(call.in) THEN PipeOf(m, call.in[1].number) ELSE 0
         /\ Piping(call.out) => call.out[1].number \in DOMAIN m.pipes
         /\ Piping(call.in) => call.in[1].number \in DOMAIN m.pipes
<1>1. HasFields(m) /\ Typed(m, l) /\ PositionOK(m, chain) /\ DescriptorsOK(m)
  BY GoodFacts
<1>2. /\ m.entry \in DOMAIN chain /\ chain[m.entry].op = "step"
      /\ Len(m.pipes) = chain[m.entry].pipes
  BY <1>1 DEF PositionOK, AtWork
<1>3. CallOK(call, Len(m.pipes))
  BY <1>2, StepFacts DEF Range
<1>4. RedirectOK(call.in, {"<"}, Len(m.pipes)) /\ RedirectOK(call.out, {">", ">>"}, Len(m.pipes))
  BY <1>3 DEF CallOK
<1>5. /\ m.fds[0].pipe = 0 /\ m.state # "zombie" /\ PairsOK(m.fds, m.pipes)
      /\ m.pipes \in Seq(Nat \X Nat) /\ 0 \in {0, 1} /\ 1 \in {0, 1}
  BY <1>1 DEF DescriptorsOK, Typed
<1> DEFINE in == Adjusted(m, call.in, 0)
           out == Adjusted(m, call.out, 1)
<1>6. AdjustedTo(m, in, call.in, 0, "r") /\ AdjustedTo(m, out, call.out, 1, "w")
  <2>1. "r" = (IF 0 = 0 THEN "r" ELSE "w") /\ "w" = (IF 1 = 0 THEN "r" ELSE "w")
    OBVIOUS
  <2> QED
    BY <1>1, <1>4, <1>5, <2>1, AdjustedGood
<1> HIDE DEF in, out
<1>7. 0 + 1 = 1 /\ 1 + 1 = 2
  OBVIOUS
<1>8. /\ call.in = << >> => in.fds[0].pipe = 0
      /\ Piping(call.in) => /\ call.in[1].number \in DOMAIN m.pipes
                            /\ in.fds[0].pipe = PipeOf(m, call.in[1].number)
      /\ call.in # << >> /\ ~Piping(call.in) => in.fds[0].pipe = 0
  BY <1>5, <1>6, <1>7 DEF AdjustedTo, PipeOf
<1>9. /\ call.out = << >> => out.fds[1] = m.fds[1]
      /\ Piping(call.out) => /\ call.out[1].number \in DOMAIN m.pipes
                             /\ out.fds[1].pipe = PipeOf(m, call.out[1].number)
                             /\ out.fds[1].pipe # 0
      /\ call.out # << >> /\ ~Piping(call.out) => out.fds[1].pipe = 0 /\ out.fds[1].file # Terminal
  <2>1. Piping(call.out) =>
          /\ call.out[1].number \in DOMAIN m.pipes
          /\ out.fds[1] = m.fds[m.pipes[call.out[1].number][2]]
    BY <1>6, <1>7 DEF AdjustedTo
  <2>2. Piping(call.out) =>
          /\ m.fds[m.pipes[call.out[1].number][2]].pipe = PipeOf(m, call.out[1].number)
          /\ PipeOf(m, call.out[1].number) # 0
    BY <1>5, <2>1 DEF PairsOK, PipeOf
  <2>3. call.out # << >> /\ ~Piping(call.out) =>
          out.fds[1].pipe = 0 /\ out.fds[1].file = call.out[1].file.value
    BY <1>6 DEF AdjustedTo
  <2>4. call.out # << >> /\ ~Piping(call.out) => call.out[1].file.value # Terminal
    BY <1>4 DEF RedirectOK, Piping, Terminal
  <2>5. call.out = << >> => out.fds[1] = m.fds[1]
    BY <1>6 DEF AdjustedTo
  <2> QED
    BY <2>1, <2>2, <2>3, <2>4, <2>5
<1>10. SinkOf(m, call) = Key(out.fds[1]) /\ SourceOf(m, call) = in.fds[0].pipe
  BY DEF SinkOf, SourceOf, in, out
<1>11. Piping(call.out) => call.out # << >>
  BY DEF Piping
<1>12. Piping(call.in) => call.in # << >>
  BY DEF Piping
<1> QED
  BY <1>8, <1>9, <1>10, <1>11, <1>12 DEF Key

(* A process that has pipes of a step offers those, and what it writes to. *)
LEMMA OfferFacts ==
  ASSUME NEW m, NEW l, NEW chain, AreLimits(l), Good(m, l, chain),
         m.state \notin {"ending", "zombie"}
  PROVE  /\ \A i \in DOMAIN m.pipes : PipeOf(m, i) \in l.pipes /\ PipeOf(m, i) # m.fds[1].pipe
         /\ \A i, j \in DOMAIN m.pipes : i # j => PipeOf(m, i) # PipeOf(m, j)
         /\ m.fds[1].pipe \in l.pipes \cup {0} /\ m.fds[0].pipe \in l.pipes \cup {0}
         /\ 0 \in DOMAIN m.fds /\ 1 \in DOMAIN m.fds
         /\ m.fds[0].way = "r" /\ m.fds[1].way = "w"
         /\ m.state \in AtWork => Key(m.fds[1]) >= 0
         /\ l.pipes \subseteq Nat \ {0}
<1>1. HasFields(m) /\ Typed(m, l) /\ DescriptorsOK(m) /\ PairsOK(m.fds, m.pipes)
  BY GoodFacts DEF DescriptorsOK
<1>2. /\ 0 .. 2 \subseteq DOMAIN m.fds /\ \A n \in DOMAIN m.fds : m.fds[n].pipe \in l.pipes \cup {0}
  BY <1>1 DEF Typed, Descriptor
<1>3. \A i \in DOMAIN m.pipes : PipeOf(m, i) \in l.pipes /\ PipeOf(m, i) # m.fds[1].pipe
  BY <1>1, <1>2 DEF PairsOK, PipeOf
<1>4. \A i, j \in DOMAIN m.pipes : i # j => PipeOf(m, i) # PipeOf(m, j)
  BY <1>1 DEF PairsOK, PipeOf
<1>5. l.pipes \subseteq Nat \ {0}
  BY DEF AreLimits
<1>6. 0 \in DOMAIN m.fds /\ 1 \in DOMAIN m.fds
  BY <1>2
<1>7. m.fds[1].pipe \in l.pipes \cup {0}
  BY <1>2, <1>6
<1>8. m.state \in AtWork => Key(m.fds[1]) >= 0
  BY <1>1, <1>5, <1>7 DEF DescriptorsOK, Key
<1> QED
  BY <1>1, <1>2, <1>3, <1>4, <1>5, <1>6, <1>7, <1>8 DEF DescriptorsOK

(* What a process writes to, reads from or offers is in use.               *)
LEMMA EndUsed ==
  ASSUME NEW p \in DOMAIN procs, NEW n \in DOMAIN procs[p].fds,
         procs[p].fds[n].way \in {"r", "w"}, procs[p].fds[n].pipe # 0
  PROVE  procs[p].fds[n].pipe \in Used(procs)
<1>1. procs[p].fds[n] \in Range(procs[p].fds)
  BY DEF Range
<1>2. \A way : procs[p].fds[n].way = way => procs[p].fds[n].pipe \in Ends(procs, way)
  BY <1>1 DEF Ends
<1> QED
  BY <1>2 DEF Used

LEMMA RoutesUsed ==
  ASSUME PlumbingInv, NEW p \in DOMAIN procs
  PROVE  /\ procs[p].state \in AtWork => Offers(procs[p]) \subseteq Used(procs) \cup {0}
         /\ Worker(procs[p]) => /\ Sink(procs[p]) \in Used(procs) \cup {0, -1}
                                /\ Source(procs[p]) \in Used(procs) \cup {0}
<1> DEFINE m == procs[p]
<1> SUFFICES ASSUME m.state \in AtWork \/ Worker(m)
             PROVE  /\ m.state \in AtWork => Offers(m) \subseteq Used(procs) \cup {0}
                    /\ Worker(m) => /\ Sink(m) \in Used(procs) \cup {0, -1}
                                    /\ Source(m) \in Used(procs) \cup {0}
  OBVIOUS
<1>1. /\ Good(m, limits, code) /\ IsChain(code) /\ AreLimits(limits) /\ Typed(m, limits)
      /\ PositionOK(m, code) /\ m.state \notin {"ending", "zombie"} /\ DescriptorsOK(m)
  <2>1. m.state \notin {"ending", "zombie"}
    BY DEF AtWork, Worker
  <2> QED
    BY <2>1, Invariants, GoodFacts
<1>2. /\ \A n \in DOMAIN m.fds : m.fds[n].way \in {"r", "w"}
      /\ 0 \in DOMAIN m.fds /\ 1 \in DOMAIN m.fds
      /\ \A i \in DOMAIN m.pipes : m.pipes[i][1] \in DOMAIN m.fds
  <2>1. \A n \in DOMAIN m.fds : m.fds[n] \in Descriptor(limits)
    BY <1>1 DEF Typed
  <2> QED
    BY <1>1, <2>1, OfferFacts DEF Descriptor, DescriptorsOK, PairsOK
<1>3. \A n \in DOMAIN m.fds : m.fds[n].pipe # 0 => m.fds[n].pipe \in Used(procs)
  BY <1>2, EndUsed
<1>4. m.fds[1].pipe \in Used(procs) \cup {0} /\ m.fds[0].pipe \in Used(procs) \cup {0}
  BY <1>2, <1>3
<1>5. \A i \in DOMAIN m.pipes : PipeOf(m, i) \in Used(procs)
  <2> SUFFICES ASSUME NEW i \in DOMAIN m.pipes PROVE PipeOf(m, i) \in Used(procs)
    OBVIOUS
  <2>1. PipeOf(m, i) # 0
    BY <1>1, OfferFacts DEF AreLimits
  <2> QED
    BY <1>2, <1>3, <2>1 DEF PipeOf
<1>6. Key(m.fds[1]) \in Used(procs) \cup {0, -1}
  BY <1>4 DEF Key
<1>7. m.state \in AtWork => Offers(m) \subseteq Used(procs) \cup {0}
  <2>1. m.state \in AtWork => Key(m.fds[1]) # -1
    BY <1>1, OfferFacts
  <2> QED
    BY <1>5, <1>6, <2>1 DEF Offers, StepPipes
<1>8. CASE m.state = "child"
  <2>1. m.call[1] \in Range(code[m.entry].calls)
    BY <1>1, <1>8 DEF PositionOK, Range
  <2>2. /\ Sink(m) = SinkOf(m, m.call[1]) /\ Source(m) = SourceOf(m, m.call[1])
    BY <1>8 DEF Sink, Source
  <2> DEFINE call == m.call[1]
  <2>3. /\ SinkOf(m, call) = IF call.out = << >> THEN Key(m.fds[1])
                             ELSE IF Piping(call.out) THEN PipeOf(m, call.out[1].number) ELSE -1
        /\ SourceOf(m, call) = IF Piping(call.in) THEN PipeOf(m, call.in[1].number) ELSE 0
        /\ Piping(call.out) => call.out[1].number \in DOMAIN m.pipes
        /\ Piping(call.in) => call.in[1].number \in DOMAIN m.pipes
    BY <1>1, <1>8, <2>1, CallRoutes
  <2> HIDE DEF call
  <2>4. Sink(m) \in Used(procs) \cup {0, -1} /\ Source(m) \in Used(procs) \cup {0}
    BY <1>5, <1>6, <2>2, <2>3 DEF call
  <2> QED
    BY <1>7, <2>4
<1>9. CASE m.state # "child"
  <2>1. Sink(m) = Key(m.fds[1]) /\ Source(m) = m.fds[0].pipe
    BY <1>9 DEF Sink, Source
  <2> QED
    BY <1>4, <1>6, <1>7, <2>1
<1> QED
  BY <1>8, <1>9

-----------------------------------------------------------------------------
(* Steps that hand out nothing.                                            *)

ContinuesAs(m, k, chain) ==
  /\ Worker(k) => Worker(m) /\ Sink(k) = Sink(m) /\ Source(k) = Source(m)
  /\ k.state \in AtWork => /\ m.state \in AtWork /\ Offers(k) \subseteq Offers(m)
                           /\ \A w : Spared(w, m, chain) => Spared(w, k, chain)

LEMMA RoutesKept ==
  ASSUME Routes, code' = code, DOMAIN procs' \subseteq DOMAIN procs,
         \A q \in DOMAIN procs' : ContinuesAs(procs[q], procs'[q], code),
         \A q \in DOMAIN procs' : Worker(procs'[q]) =>
           \/ procs'[q].parent = procs[q].parent
           \/ \A p \in DOMAIN procs : procs[p].state \in AtWork => procs[q].parent # p
  PROVE  Routes'
<1>1. \A q \in DOMAIN procs' : Worker(procs'[q]) =>
        /\ q \in DOMAIN procs /\ Worker(procs[q])
        /\ Sink(procs'[q]) = Sink(procs[q]) /\ Source(procs'[q]) = Source(procs[q])
  BY DEF ContinuesAs
<1>2. \A q \in DOMAIN procs' : procs'[q].state \in AtWork =>
        /\ q \in DOMAIN procs /\ procs[q].state \in AtWork
        /\ Offers(procs'[q]) \subseteq Offers(procs[q])
        /\ \A w : Spared(w, procs[q], code) => Spared(w, procs'[q], code)
  BY DEF ContinuesAs
<1>3. \A p, q \in DOMAIN procs' :
        Worker(procs'[p]) /\ Worker(procs'[q]) /\ p # q => ~SameEnd(procs'[p], procs'[q])
  BY <1>1 DEF Routes, SameEnd
<1>4. \A p, q \in DOMAIN procs' :
        procs'[p].state \in AtWork /\ procs'[q].state \in AtWork /\ p # q
          => Offers(procs'[p]) \cap Offers(procs'[q]) = {}
  BY <1>2 DEF Routes
<1>5. ASSUME NEW p \in DOMAIN procs', NEW q \in DOMAIN procs',
             procs'[p].state \in AtWork, Worker(procs'[q])
      PROVE  /\ Sink(procs'[q]) \in Offers(procs'[p]) => procs'[q].parent = p
             /\ Spared(procs'[q], procs'[p], code)
  <2>1. /\ p \in DOMAIN procs /\ procs[p].state \in AtWork
        /\ Offers(procs'[p]) \subseteq Offers(procs[p])
        /\ \A w : Spared(w, procs[p], code) => Spared(w, procs'[p], code)
    BY <1>2, <1>5
  <2>2. /\ q \in DOMAIN procs /\ Worker(procs[q])
        /\ Sink(procs'[q]) = Sink(procs[q]) /\ Source(procs'[q]) = Source(procs[q])
    BY <1>1, <1>5
  <2>3. /\ Sink(procs[q]) \in Offers(procs[p]) => procs[q].parent = p
        /\ Spared(procs[q], procs[p], code)
    BY <2>1, <2>2 DEF Routes
  <2>4. Spared(procs'[q], procs[p], code)
    BY <2>2, <2>3 DEF Spared
  <2> QED
    BY <1>5, <2>1, <2>2, <2>3, <2>4
<1> QED
  BY <1>3, <1>4, <1>5 DEF Routes

LEMMA ContinuesItself ==
  ASSUME NEW m, NEW chain
  PROVE  ContinuesAs(m, m, chain)
BY DEF ContinuesAs

LEMMA OneContinues ==
  ASSUME Routes, code' = code, NEW p \in DOMAIN procs, NEW k, procs' = [procs EXCEPT ![p] = k],
         ContinuesAs(procs[p], k, code), Worker(k) => k.parent = procs[p].parent
  PROVE  Routes'
<1>1. /\ DOMAIN procs' = DOMAIN procs /\ procs'[p] = k
      /\ \A q \in DOMAIN procs : q # p => procs'[q] = procs[q]
  OBVIOUS
<1>2. \A q \in DOMAIN procs' : ContinuesAs(procs[q], procs'[q], code)
  BY <1>1, ContinuesItself
<1>3. \A q \in DOMAIN procs' : Worker(procs'[q]) => procs'[q].parent = procs[q].parent
  BY <1>1
<1> QED
  BY <1>1, <1>2, <1>3, RoutesKept

LEMMA EndsRoutes ==
  ASSUME Routes, code' = code, NEW p \in DOMAIN procs, NEW k, procs' = [procs EXCEPT ![p] = k],
         k.state = "ending"
  PROVE  Routes'
<1>1. ContinuesAs(procs[p], k, code) /\ ~Worker(k)
  BY DEF ContinuesAs, Worker, AtWork
<1> QED
  BY <1>1, OneContinues

LEMMA ShellRoutes ==
  ASSUME Routes, code' = code, NEW p \in DOMAIN procs, NEW k, procs' = [procs EXCEPT ![p] = k],
         procs[p].state \in AtWork, k.state \in {"shell", "expanding"},
         k.fds[1] = procs[p].fds[1], k.pipes = << >>
  PROVE  Routes'
<1>1. StepPipes(k) = {}
  BY DEF StepPipes
<1>2. Offers(k) \subseteq Offers(procs[p])
  BY <1>1 DEF Offers
<1>3. ToCome(k, code) = {}
  BY DEF ToCome
<1>4. \A w : Spared(w, k, code)
  BY <1>3 DEF Spared
<1>5. ContinuesAs(procs[p], k, code) /\ ~Worker(k)
  BY <1>2, <1>4 DEF ContinuesAs, Worker
<1> QED
  BY <1>5, OneContinues

LEMMA ProgramRoutes ==
  ASSUME Routes, code' = code, NEW p \in DOMAIN procs, NEW k, procs' = [procs EXCEPT ![p] = k],
         procs[p].state = "program", k.state = "program", k.parent = procs[p].parent,
         k.fds[1] = procs[p].fds[1], k.fds[0].pipe = procs[p].fds[0].pipe
  PROVE  Routes'
<1>1. ContinuesAs(procs[p], k, code)
  BY DEF ContinuesAs, Worker, AtWork, Sink, Source
<1> QED
  BY <1>1, OneContinues

LEMMA ReapRoutes ==
  ASSUME PlumbingInv, Routes, NEW p, Reap(p)
  PROVE  Routes'
<1> DEFINE child == Head(procs[p].waitq)
           k == [procs[p] EXCEPT !.waitq = Tail(@)]
<1>1. /\ p \in DOMAIN procs /\ procs[p].state = "shell" /\ code' = code
      /\ procs' = [q \in DOMAIN procs \ {child} |-> IF q = p THEN k ELSE procs[q]]
  BY DEF Reap, In, Proc, World
<1>2. HasFields(procs[p])
  BY <1>1, Invariants, GoodFacts
<1>3. SameBut(procs[p], k, {"waitq"})
  BY <1>2 DEF SameBut, HasFields, Fields
<1> HIDE DEF k, child
<1>4. /\ k.state = procs[p].state /\ k.fds = procs[p].fds /\ k.pipes = procs[p].pipes
      /\ k.parent = procs[p].parent
  BY <1>3 DEF SameBut, Fields
<1>5. ContinuesAs(procs[p], k, code)
  <2>1. Offers(k) = Offers(procs[p])
    BY <1>4 DEF Offers, StepPipes, PipeOf
  <2>2. ~Worker(k) /\ \A w : Spared(w, k, code)
    BY <1>1, <1>4 DEF Worker, Spared, ToCome
  <2> QED
    BY <1>1, <1>4, <2>1, <2>2 DEF ContinuesAs
<1>6. /\ DOMAIN procs' \subseteq DOMAIN procs
      /\ \A q \in DOMAIN procs' : q # p => procs'[q] = procs[q]
      /\ p \in DOMAIN procs' => procs'[p] = k
  BY <1>1
<1>7. \A q \in DOMAIN procs' : ContinuesAs(procs[q], procs'[q], code)
  BY <1>5, <1>6, ContinuesItself
<1>8. \A q \in DOMAIN procs' : procs'[q].parent = procs[q].parent
  BY <1>4, <1>6
<1> QED
  BY <1>1, <1>6, <1>7, <1>8, RoutesKept

LEMMA DieRoutes ==
  ASSUME PlumbingInv, Routes, NEW p, Die(p)
  PROVE  Routes'
<1>1. /\ p \in DOMAIN procs /\ procs[p].state = "ending" /\ code' = code
      /\ DOMAIN procs' \subseteq DOMAIN procs
      /\ p \in DOMAIN procs' => procs'[p].state = "zombie"
      /\ \A q \in DOMAIN procs' : q # p =>
           procs'[q] = IF q \in ChildrenOf(p) THEN [procs[q] EXCEPT !.parent = Nobody]
                       ELSE procs[q]
  BY DEF Die, In, Proc, World, Shell
<1>2. ASSUME NEW q \in DOMAIN procs'
      PROVE  /\ ContinuesAs(procs[q], procs'[q], code)
             /\ Worker(procs'[q]) =>
                  \/ procs'[q].parent = procs[q].parent
                  \/ \A r \in DOMAIN procs : procs[r].state \in AtWork => procs[q].parent # r
  <2>1. CASE q = p
    BY <1>1, <2>1 DEF ContinuesAs, Worker, AtWork
  <2>2. CASE q # p /\ q \notin ChildrenOf(p)
    BY <1>1, <2>2, ContinuesItself
  <2>3. CASE q # p /\ q \in ChildrenOf(p)
    <3> DEFINE m == procs[q]
               k == [m EXCEPT !.parent = Nobody]
    <3>1. procs'[q] = k /\ q \in DOMAIN procs /\ m.parent = p
      BY <1>1, <2>3 DEF ChildrenOf, Proc
    <3>2. SameBut(m, k, {"parent"})
      <4>1. Good(m, limits, code)
        BY <3>1, Invariants
      <4> QED
        BY <4>1, OrphanGood
    <3> HIDE DEF k, m
    <3>3. /\ k.state = m.state /\ k.fds = m.fds /\ k.pipes = m.pipes /\ k.entry = m.entry
          /\ k.made = m.made /\ k.call = m.call
      BY <3>2 DEF SameBut, Fields
    <3>4. \A call : SinkOf(k, call) = SinkOf(m, call) /\ SourceOf(k, call) = SourceOf(m, call)
      <4>1. HasFields(k) /\ HasFields(m)
        BY <3>1, Invariants, GoodFacts, OrphanGood DEF k, m
      <4> QED
        BY <3>3, <4>1 DEF SinkOf, SourceOf, Adjusted, HasFields, Fields
    <3>5. /\ Offers(k) = Offers(m) /\ ToCome(k, code) = ToCome(m, code)
          /\ Sink(k) = Sink(m) /\ Source(k) = Source(m) /\ Worker(k) = Worker(m)
      BY <3>3, <3>4 DEF Offers, StepPipes, PipeOf, ToCome, Sink, Source, Worker
    <3>6. \A w : Spared(w, m, code) => Spared(w, k, code)
      BY <3>3, <3>4, <3>5 DEF Spared
    <3>7. ContinuesAs(m, k, code)
      BY <3>3, <3>5, <3>6 DEF ContinuesAs
    <3>8. \A r \in DOMAIN procs : procs[r].state \in AtWork => procs[q].parent # r
      BY <1>1, <3>1 DEF AtWork, m
    <3> QED
      BY <3>1, <3>7, <3>8 DEF m
  <2> QED
    BY <2>1, <2>2, <2>3
<1> QED
  BY <1>1, <1>2, RoutesKept

(* A shell that only changes its place, its values or its channels.        *)
LEMMA AtHome ==
  ASSUME PlumbingInv, Routes, code' = code, NEW p \in DOMAIN procs, procs[p].state \in AtWork,
         NEW k, Good(k, limits, code), k.state = "shell",
         \A n \in DOMAIN k.fds : k.fds[n] = procs[p].fds[n],
         procs' = [procs EXCEPT ![p] = k]
  PROVE  Routes'
<1>1. Typed(k, limits) /\ PositionOK(k, code)
  BY GoodFacts
<1>2. k.pipes = << >> /\ 1 \in DOMAIN k.fds
  <2>1. k.pipes = << >>
    BY <1>1 DEF PositionOK
  <2>2. 0 .. 2 \subseteq DOMAIN k.fds
    BY <1>1 DEF Typed
  <2> QED
    BY <2>1, <2>2
<1> QED
  BY <1>2, ShellRoutes

LEMMA ClosePipesRoutes ==
  ASSUME PlumbingInv, Routes, NEW p, ClosePipes(p)
  PROVE  Routes'
<1> DEFINE m == procs[p]
           k == Resumed(m, code[m.entry].next)
<1>1. /\ p \in DOMAIN procs /\ m.state = "forking" /\ code' = code
      /\ procs' = [procs EXCEPT ![p] = k]
  BY DEF ClosePipes, In, Proc, Entry, Resumed, World
<1>2. IsChain(code) /\ Good(m, limits, code)
  BY <1>1, Invariants
<1>3. /\ Good(k, limits, code) /\ k.state = "shell"
      /\ \A n \in DOMAIN k.fds : k.fds[n] = m.fds[n]
  BY <1>1, <1>2, CloseGood
<1> HIDE DEF k
<1>4. procs[p].state \in AtWork
  BY <1>1 DEF AtWork
<1> QED
  BY <1>1, <1>3, <1>4, AtHome

LEMMA ExpansionsMadeRoutes ==
  ASSUME PlumbingInv, Routes, NEW p, ExpansionsMade(p)
  PROVE  Routes'
<1> DEFINE m == procs[p]
           k == Splicing(m, code[m.entry])
<1>1. /\ p \in DOMAIN procs /\ m.state = "expanding" /\ m.made = Len(code[m.entry].heads)
      /\ code' = code /\ procs' = [procs EXCEPT ![p] = k]
  BY DEF ExpansionsMade, In, Proc, Entry, Splicing, World
<1>2. Good(m, limits, code) /\ IsChain(code)
  BY <1>1, Invariants
<1>3. Good(k, limits, code) /\ k.state = "shell" /\ k.fds = m.fds
  BY <1>1, <1>2, MadeGood
<1> HIDE DEF k
<1>4. procs[p].state \in AtWork
  BY <1>1 DEF AtWork
<1> QED
  BY <1>1, <1>3, <1>4, AtHome

LEMMA SpliceReadRoutes ==
  ASSUME PlumbingInv, Routes, NEW p, SpliceRead(p)
  PROVE  Routes'
<1> DEFINE m == procs[p]
           pipe == m.fds[m.channels[m.made + 1]].pipe
           datum == Head(pipes[pipe])
           k == Spliced(m, datum)
<1>1. /\ p \in DOMAIN procs /\ m.state = "shell" /\ code[m.entry].op = "splice"
      /\ code' = code /\ limits' = limits /\ pipes[pipe] # << >>
      /\ procs' = [procs EXCEPT ![p] = IF datum = Unreadable THEN Fail(m) ELSE k]
      /\ pipes' = [pipes EXCEPT ![pipe] = Tail(@)]
  BY DEF SpliceRead, Enters, In, Proc, Entry, Spliced
<1>2. Good(m, limits, code) /\ IsChain(code) /\ PipesOK
  BY <1>1, Invariants
<1>3. pipe \in limits.pipes
  BY <1>1, <1>2, SpliceGood
<1>4. datum \in STRING
  <2> HIDE DEF pipe
  <2> QED
    BY <1>1, <1>2, <1>3, TailPipes
<1> HIDE DEF pipe, datum
<1>5. CASE datum = Unreadable
  <2>1. procs' = [procs EXCEPT ![p] = Ending(m)] /\ Ending(m).state = "ending"
    BY <1>1, <1>5, EndingFields DEF Fail
  <2> QED
    BY <1>1, <2>1, EndsRoutes
<1>6. CASE datum # Unreadable
  <2>1. procs' = [procs EXCEPT ![p] = k]
    BY <1>1, <1>6
  <2>2. Good(k, limits, code) /\ SameBut(m, k, {"values"})
    BY <1>1, <1>2, <1>4, SplicedGood
  <2> HIDE DEF k
  <2>3. k.state = "shell" /\ k.fds = m.fds /\ procs[p].state \in AtWork
    BY <1>1, <2>2 DEF SameBut, Fields, AtWork
  <2> QED
    BY <1>1, <2>1, <2>2, <2>3, AtHome
<1> QED
  BY <1>5, <1>6

LEMMA SpliceEndRoutes ==
  ASSUME PlumbingInv, Routes, NEW p, SpliceEnd(p)
  PROVE  Routes'
<1> DEFINE m == procs[p]
           n == m.channels[m.made + 1]
           k == ReadOn(m, n, code[m.entry])
<1>1. /\ p \in DOMAIN procs /\ m.state = "shell" /\ code[m.entry].op = "splice"
      /\ code' = code /\ procs' = [procs EXCEPT ![p] = k]
  BY DEF SpliceEnd, Enters, In, Proc, Entry, ReadOn, World
<1>2. Good(m, limits, code) /\ IsChain(code)
  BY <1>1, Invariants
<1>3. /\ Good(k, limits, code) /\ k.state = "shell"
      /\ \A j \in DOMAIN k.fds : k.fds[j] = m.fds[j]
  BY <1>1, <1>2, SpliceEndGood, SMTT(60)
<1> HIDE DEF k
<1>4. procs[p].state \in AtWork
  BY <1>1 DEF AtWork
<1> QED
  BY <1>1, <1>3, <1>4, AtHome

LEMMA StartRoutes ==
  ASSUME PlumbingInv, Routes, NEW p, Start(p)
  PROVE  Routes'
<1> DEFINE m == procs[p]
           call == m.call[1]
           in == WithStdin(m)
           out == Rewired(m)
           name == Named(call, Loaded(m, call.argv))
<1>1. /\ p \in DOMAIN procs /\ m.state = "child" /\ code' = code
      /\ \/ procs' = [procs EXCEPT ![p] = Ending(m)]
         \/ procs' = [procs EXCEPT ![p] = Ending(in)]
         \/ name \in DOMAIN Does /\ procs' = [procs EXCEPT ![p] = Executed(out, name)]
         \/ procs' = [procs EXCEPT ![p] = Ending(out)]
  BY DEF Start, In, Proc, World, WithStdin, Rewired
<1>2. Good(m, limits, code) /\ IsChain(code) /\ FilesOpen(m, DOMAIN files \cup {Terminal})
  BY <1>1, Invariants
<1>3. StartOK(m, limits, code, DOMAIN files \cup {Terminal})
  BY <1>1, <1>2, StartGood
<1>4. /\ \A c \in DOMAIN Does :
           /\ Executed(out, c).parent = m.parent /\ Executed(out, c).fds = out.fds
           /\ Executed(out, c).state = "program"
      /\ Key(out.fds[1]) = SinkOf(m, call) /\ out.fds[0].pipe = SourceOf(m, call)
  BY <1>3 DEF StartOK
<1> HIDE DEF in, out, name
<1>5. CASE \/ procs' = [procs EXCEPT ![p] = Ending(m)]
           \/ procs' = [procs EXCEPT ![p] = Ending(in)]
           \/ procs' = [procs EXCEPT ![p] = Ending(out)]
  <2>1. \A x : Ending(x).state = "ending"
    BY EndingFields
  <2> QED
    BY <1>1, <1>5, <2>1, EndsRoutes
<1>6. CASE name \in DOMAIN Does /\ procs' = [procs EXCEPT ![p] = Executed(out, name)]
  <2> DEFINE k == Executed(out, name)
  <2>1. k.parent = m.parent /\ k.fds = out.fds /\ k.state = "program"
    BY <1>4, <1>6
  <2>2. procs' = [procs EXCEPT ![p] = k]
    BY <1>6
  <2> HIDE DEF k
  <2>3. ContinuesAs(m, k, code)
    BY <1>1, <1>4, <2>1 DEF ContinuesAs, Worker, AtWork, Sink, Source
  <2> QED
    BY <1>1, <2>1, <2>2, <2>3, OneContinues
<1> QED
  BY <1>1, <1>5, <1>6

LEMMA ProgramStepRoutes ==
  ASSUME PlumbingInv, Routes, NEW p, ReadPipe(p) \/ ReadFile(p) \/ ReadEnd(p) \/ Write(p)
  PROVE  Routes'
<1> DEFINE m == procs[p]
<1>1. In(p, "program") /\ code' = code
  BY DEF ReadPipe, ReadFile, ReadEnd, Write, Reads
<1>2. /\ p \in DOMAIN procs /\ m.state = "program" /\ HasFields(m) /\ Typed(m, limits)
      /\ 0 \in DOMAIN m.fds /\ 1 \in DOMAIN m.fds
      /\ m.fds[0] \in Descriptor(limits) /\ m.fds \in [DOMAIN m.fds -> Descriptor(limits)]
  BY <1>1, ProgramFacts
<1>3. ASSUME NEW x, procs' = [procs EXCEPT ![p] = x], x.state = m.state, x.parent = m.parent,
             x.fds[1] = m.fds[1], x.fds[0].pipe = m.fds[0].pipe
      PROVE  Routes'
  BY <1>1, <1>2, <1>3, ProgramRoutes
<1>4. CASE ReadPipe(p)
  <2>1. PICK datum : procs' = [procs EXCEPT ![p] = Takes(m, datum)]
    BY <1>4 DEF ReadPipe, Proc
  <2> DEFINE x == Takes(m, datum)
  <2>2. x.fds = m.fds /\ x.state = m.state /\ x.parent = m.parent
    BY <1>2 DEF Takes, HasFields, Fields
  <2> HIDE DEF x
  <2> QED
    BY <1>3, <2>1, <2>2 DEF x
<1>5. CASE ReadFile(p)
  <2>1. PICK datum : procs' = [procs EXCEPT ![p] = TakesFromFile(m, datum)]
    BY <1>5 DEF ReadFile, Proc
  <2> DEFINE x == TakesFromFile(m, datum)
  <2>2. /\ x.fds = [m.fds EXCEPT ![0] = [m.fds[0] EXCEPT !.at = @ + 1]]
        /\ x.state = m.state /\ x.parent = m.parent
    BY <1>2 DEF TakesFromFile, Takes, HasFields, Fields
  <2>3. procs' = [procs EXCEPT ![p] = x]
    BY <2>1
  <2> HIDE DEF x
  <2>4. x.fds[1] = m.fds[1] /\ x.fds[0].pipe = m.fds[0].pipe
    BY <1>2, <2>2 DEF Descriptor
  <2> QED
    BY <1>3, <2>2, <2>3, <2>4
<1>6. CASE ReadEnd(p)
  <2> DEFINE says == Doing(p).says
             x == [m EXCEPT !.eof = TRUE, !.todo = says]
  <2>1. procs' = [procs EXCEPT ![p] = x]
    BY <1>6 DEF ReadEnd
  <2> HIDE DEF says
  <2>2. x.fds = m.fds /\ x.state = m.state /\ x.parent = m.parent
    BY <1>2 DEF HasFields, Fields
  <2> HIDE DEF x
  <2> QED
    BY <1>3, <2>1, <2>2
<1>7. CASE Write(p)
  <2>1. PICK todo : procs' = [procs EXCEPT ![p] = [m EXCEPT !.todo = todo]]
    BY <1>2, <1>7 DEF Write, Said
  <2> DEFINE x == [m EXCEPT !.todo = todo]
  <2>2. x.fds = m.fds /\ x.state = m.state /\ x.parent = m.parent
    BY <1>2 DEF HasFields, Fields
  <2>3. procs' = [procs EXCEPT ![p] = x]
    BY <2>1
  <2> HIDE DEF x
  <2> QED
    BY <1>3, <2>2, <2>3
<1> QED
  BY <1>4, <1>5, <1>6, <1>7

-----------------------------------------------------------------------------
(* Steps that hand something out.                                          *)

LEMMA FreshPipes ==
  ASSUME PlumbingInv, NEW p \in DOMAIN procs
  PROVE  /\ procs[p].state \in AtWork => /\ Offers(procs[p]) \cap FreePipes = {}
                                         /\ -1 \notin Offers(procs[p])
                                         /\ 0 \notin StepPipes(procs[p])
         /\ Worker(procs[p]) => Sink(procs[p]) \notin FreePipes /\ Source(procs[p]) \notin FreePipes
<1>1. AreLimits(limits) /\ Good(procs[p], limits, code)
  BY Invariants
<1>2. FreePipes \cap (Used(procs) \cup {0, -1}) = {}
  BY <1>1 DEF FreePipes, AreLimits
<1>3. ASSUME procs[p].state \in AtWork
      PROVE  /\ -1 \notin Offers(procs[p]) /\ 0 \notin StepPipes(procs[p])
  <2>1. procs[p].state \notin {"ending", "zombie"}
    BY <1>3 DEF AtWork
  <2>2. /\ \A i \in DOMAIN procs[p].pipes : PipeOf(procs[p], i) \in Nat \ {0}
        /\ Key(procs[p].fds[1]) >= 0
    BY <1>1, <1>3, <2>1, OfferFacts
  <2> QED
    BY <2>2 DEF Offers, StepPipes
<1> QED
  BY <1>2, <1>3, RoutesUsed

LEMMA CallOffers ==
  ASSUME NEW m, NEW l, NEW chain, AreLimits(l), IsChain(chain), Good(m, l, chain),
         m.state \in {"forking", "child"}, NEW call \in Range(chain[m.entry].calls)
  PROVE  /\ SinkOf(m, call) \in {Key(m.fds[1]), -1} \cup StepPipes(m)
         /\ SourceOf(m, call) \in StepPipes(m) \cup {0}
BY CallRoutes DEF StepPipes

LEMMA SameEnds ==
  ASSUME NEW m, NEW k, HasFields(m), HasFields(k), k.fds = m.fds, k.pipes = m.pipes
  PROVE  /\ \A call : SinkOf(k, call) = SinkOf(m, call) /\ SourceOf(k, call) = SourceOf(m, call)
         /\ StepPipes(k) = StepPipes(m) /\ Offers(k) = Offers(m)
BY DEF SinkOf, SourceOf, Adjusted, HasFields, Fields, StepPipes, PipeOf, Offers

LEMMA ComingCalls ==
  ASSUME NEW m, NEW l, NEW chain, IsChain(chain), Good(m, l, chain), m.state = "forking"
  PROVE  /\ ToCome(m, chain) \subseteq DOMAIN chain[m.entry].calls
         /\ \A i \in ToCome(m, chain) : chain[m.entry].calls[i] \in Range(chain[m.entry].calls)
         /\ m.made \in Nat /\ Len(chain[m.entry].calls) \in Nat
         /\ DOMAIN chain[m.entry].calls = 1 .. Len(chain[m.entry].calls)
         /\ ConnectsOnce(chain[m.entry].calls)
<1>1. PositionOK(m, chain) /\ Typed(m, l)
  BY GoodFacts
<1>2. m.entry \in DOMAIN chain /\ chain[m.entry].op = "step" /\ m.made \in Nat
  BY <1>1 DEF PositionOK, AtWork, Typed
<1>3. /\ Len(chain[m.entry].calls) \in Nat
      /\ DOMAIN chain[m.entry].calls = 1 .. Len(chain[m.entry].calls)
      /\ ConnectsOnce(chain[m.entry].calls)
  BY <1>2, StepFacts
<1>4. ToCome(m, chain) \subseteq DOMAIN chain[m.entry].calls
  BY <1>2, <1>3 DEF ToCome
<1> QED
  BY <1>2, <1>3, <1>4 DEF Range

LEMMA NoChildren ==
  ASSUME PlumbingInv, NEW p \in DOMAIN procs, procs[p].state \in AtWork, procs[p].waitq = << >>
  PROVE  \A q \in DOMAIN procs : procs[q].parent # p
<1>1. Range(procs[p].waitq) = {}
  BY DEF Range
<1>2. ChildrenOf(p) = {}
  BY <1>1, Invariants DEF Awaits
<1> QED
  BY <1>2 DEF ChildrenOf, Proc

(* A step's pipes are nobody's yet, and its shell, which has waited for all*)
(* its children, is alone with what it writes to.                          *)
LEMMA OpensRoutes ==
  ASSUME PlumbingInv, Routes, code' = code, NEW p \in DOMAIN procs,
         procs[p].state \in AtWork, procs[p].waitq = << >>, procs[p].pipes = << >>,
         NEW k, Good(k, limits, code), k.state = "forking", k.fds[1] = procs[p].fds[1],
         \A i \in DOMAIN k.pipes : PipeOf(k, i) \in FreePipes,
         procs' = [procs EXCEPT ![p] = k]
  PROVE  Routes'
<1> DEFINE m == procs[p]
<1>1. IsChain(code) /\ AreLimits(limits)
  BY Invariants
<1>2. /\ DOMAIN procs' = DOMAIN procs /\ procs'[p] = k /\ ~Worker(k)
      /\ \A q \in DOMAIN procs : q # p => procs'[q] = procs[q]
  BY DEF Worker
<1>3. StepPipes(k) \subseteq FreePipes /\ Key(k.fds[1]) \in Offers(m)
      /\ Offers(k) \subseteq FreePipes \cup Offers(m)
  BY DEF StepPipes, Offers
<1>4. \A q \in DOMAIN procs : procs[q].parent # p
  BY NoChildren
<1>5. ASSUME NEW q \in DOMAIN procs, Worker(procs[q])
      PROVE  Sink(procs[q]) \notin Offers(k) /\ Spared(procs[q], k, code)
  <2>1. Sink(procs[q]) \notin FreePipes /\ Source(procs[q]) \notin FreePipes
    BY <1>5, FreshPipes
  <2>2. Sink(procs[q]) \notin Offers(m)
    BY <1>4, <1>5 DEF Routes
  <2>3. Sink(procs[q]) \notin Offers(k)
    BY <1>3, <2>1, <2>2
  <2>4. ASSUME NEW call \in Range(code[k.entry].calls)
        PROVE  /\ Sink(procs[q]) >= 0 => Sink(procs[q]) # SinkOf(k, call)
               /\ Source(procs[q]) # 0 => Source(procs[q]) # SourceOf(k, call)
    <3>1. /\ SinkOf(k, call) \in {Key(k.fds[1]), -1} \cup StepPipes(k)
          /\ SourceOf(k, call) \in StepPipes(k) \cup {0}
      BY <1>1, CallOffers
    <3>2. SinkOf(k, call) \in Offers(k) \cup {-1}
      BY <3>1 DEF Offers
    <3> QED
      BY <1>3, <2>1, <2>3, <3>1, <3>2
  <2>5. \A i \in ToCome(k, code) : code[k.entry].calls[i] \in Range(code[k.entry].calls)
    BY <1>1, ComingCalls
  <2> QED
    BY <2>3, <2>4, <2>5 DEF Spared
<1>6. \A x, y \in DOMAIN procs' :
        Worker(procs'[x]) /\ Worker(procs'[y]) /\ x # y => ~SameEnd(procs'[x], procs'[y])
  BY <1>2 DEF Routes
<1>7. \A q \in DOMAIN procs : q # p /\ procs[q].state \in AtWork
        => Offers(procs[q]) \cap Offers(k) = {}
  BY <1>3, FreshPipes DEF Routes
<1>8. \A x, y \in DOMAIN procs' :
        procs'[x].state \in AtWork /\ procs'[y].state \in AtWork /\ x # y
          => Offers(procs'[x]) \cap Offers(procs'[y]) = {}
  <2> SUFFICES ASSUME NEW x \in DOMAIN procs', NEW y \in DOMAIN procs', x # y,
                      procs'[x].state \in AtWork, procs'[y].state \in AtWork
               PROVE  Offers(procs'[x]) \cap Offers(procs'[y]) = {}
    OBVIOUS
  <2>1. CASE x = p
    BY <1>2, <1>7, <2>1
  <2>2. CASE y = p
    BY <1>2, <1>7, <2>2
  <2>3. CASE x # p /\ y # p
    BY <1>2, <2>3 DEF Routes
  <2> QED
    BY <2>1, <2>2, <2>3
<1>9. \A x, q \in DOMAIN procs' : procs'[x].state \in AtWork /\ Worker(procs'[q]) =>
        /\ Sink(procs'[q]) \in Offers(procs'[x]) => procs'[q].parent = x
        /\ Spared(procs'[q], procs'[x], code)
  <2> SUFFICES ASSUME NEW x \in DOMAIN procs', NEW q \in DOMAIN procs',
                      procs'[x].state \in AtWork, Worker(procs'[q])
               PROVE  /\ Sink(procs'[q]) \in Offers(procs'[x]) => procs'[q].parent = x
                      /\ Spared(procs'[q], procs'[x], code)
    OBVIOUS
  <2>1. q \in DOMAIN procs /\ procs'[q] = procs[q]
    BY <1>2
  <2>2. CASE x = p
    BY <1>2, <1>5, <2>1, <2>2
  <2>3. CASE x # p
    BY <1>2, <2>1, <2>3 DEF Routes
  <2> QED
    BY <2>2, <2>3
<1> HIDE DEF m
<1>10. code' = code
  OBVIOUS
<1> QED
  BY ONLY <1>6, <1>8, <1>9, <1>10 DEF Routes

LEMMA OpenPipesRoutes ==
  ASSUME PlumbingInv, Routes, NEW p, OpenPipes(p)
  PROVE  Routes'
<1> DEFINE m == procs[p]
           e == code[m.entry]
<1>1. /\ p \in DOMAIN procs /\ m.state = "shell" /\ e.op = "step" /\ m.waitq = << >>
      /\ code' = code
  BY DEF OpenPipes, Enters, In, Proc, Entry
<1>2. /\ IsChain(code) /\ AreLimits(limits) /\ Good(m, limits, code)
      /\ HasFields(m) /\ Typed(m, limits) /\ m.entry \in DOMAIN code /\ m.pipes = << >>
      /\ 1 \in DOMAIN m.fds
  <2>1. IsChain(code) /\ AreLimits(limits) /\ Good(m, limits, code)
    BY <1>1, Invariants
  <2> QED
    BY <1>1, <2>1, GoodFacts DEF PositionOK, AtWork, Typed
<1>3. e.pipes \in Nat
  BY <1>1, <1>2, StepFacts
<1>4. PICK x \in PipeInitMany(m, e.pipes) :
        procs' = [procs EXCEPT ![p] =
          IF Len(x.pipes) < e.pipes THEN Fail(x)
          ELSE [x EXCEPT !.state = "forking", !.made = 0]]
  BY DEF OpenPipes, Proc, Entry, World
<1>5. /\ Typed(x, limits) /\ Opened(m, x) /\ Len(x.pipes) <= e.pipes
      /\ \A i \in DOMAIN x.pipes : x.fds[x.pipes[i][1]].pipe \in FreePipes
  <2>1. m.state \notin {"ending", "zombie"} /\ m.fds = procs[p].fds
    BY <1>1
  <2> HIDE DEF e
  <2> QED
    BY <1>1, <1>2, <1>3, <1>4, <2>1, PipeInitGood
<1>6. CASE Len(x.pipes) < e.pipes
  <2>1. procs' = [procs EXCEPT ![p] = Ending(x)] /\ Ending(x).state = "ending"
    BY <1>4, <1>6, EndingFields DEF Fail
  <2> QED
    BY <1>1, <2>1, EndsRoutes
<1>7. CASE ~(Len(x.pipes) < e.pipes)
  <2> DEFINE k == Forking(x)
  <2>1. procs' = [procs EXCEPT ![p] = k]
    BY <1>4, <1>7 DEF Forking
  <2>2. Len(x.pipes) = e.pipes
    BY <1>3, <1>5, <1>7 DEF Opened
  <2>3. /\ Good(k, limits, code) /\ k.state = "forking" /\ k.fds = x.fds /\ k.pipes = x.pipes
    BY <1>1, <1>2, <1>5, <2>2, OpenGood DEF Opened
  <2> HIDE DEF k
  <2>4. k.fds[1] = m.fds[1] /\ \A i \in DOMAIN k.pipes : PipeOf(k, i) \in FreePipes
    BY <1>2, <1>5, <2>3 DEF Opened, PipeOf
  <2>5. m.state \in AtWork
    BY <1>1 DEF AtWork
  <2> QED
    BY <1>1, <1>2, <2>1, <2>3, <2>4, <2>5, OpensRoutes
<1> QED
  BY <1>6, <1>7

(* A new process in the table.                                             *)
LEMMA TwoPut ==
  ASSUME NEW p \in DOMAIN procs, NEW pid, pid \notin DOMAIN procs, NEW c, NEW k,
         procs' = Put(Put(procs, pid, c), p, k)
  PROVE  /\ DOMAIN procs' = DOMAIN procs \cup {pid} /\ procs'[p] = k /\ procs'[pid] = c
         /\ \A q \in DOMAIN procs : q # p => procs'[q] = procs[q]
<1> DEFINE t == Put(procs, pid, c)
<1>1. /\ DOMAIN t = DOMAIN procs \cup {pid} /\ t[pid] = c
      /\ \A q \in DOMAIN procs \ {pid} : t[q] = procs[q]
  BY DEF Put
<1> HIDE DEF t
<1>2. /\ DOMAIN procs' = DOMAIN t \cup {p} /\ procs'[p] = k
      /\ \A q \in DOMAIN t \ {p} : procs'[q] = t[q]
  <2>1. procs' = Put(t, p, k)
    BY DEF t
  <2> QED
    BY <2>1 DEF Put
<1> QED
  BY <1>1, <1>2

(* Two invocations of a step differ in what they write to and read from.   *)
LEMMA CallsApart ==
  ASSUME NEW m, NEW l, NEW chain, AreLimits(l), IsChain(chain), Good(m, l, chain),
         m.state = "forking",
         NEW i \in DOMAIN chain[m.entry].calls, NEW j \in DOMAIN chain[m.entry].calls, i # j
  PROVE  LET a == chain[m.entry].calls[i]
             b == chain[m.entry].calls[j]
         IN  /\ SinkOf(m, a) >= 0 => SinkOf(m, a) # SinkOf(m, b)
             /\ SourceOf(m, a) # 0 => SourceOf(m, a) # SourceOf(m, b)
<1> DEFINE a == chain[m.entry].calls[i]
           b == chain[m.entry].calls[j]
<1>1. a \in Range(chain[m.entry].calls) /\ b \in Range(chain[m.entry].calls)
  BY DEF Range
<1>2. /\ Piping(a.in) /\ Piping(b.in) => a.in[1].number # b.in[1].number
      /\ Piping(a.out) /\ Piping(b.out) => a.out[1].number # b.out[1].number
      /\ a.out # << >> \/ b.out # << >>
  <2>1. ConnectsOnce(chain[m.entry].calls)
    BY ComingCalls
  <2> QED
    BY <2>1 DEF ConnectsOnce
<1>3. /\ \A n \in DOMAIN m.pipes : PipeOf(m, n) \in Nat \ {0} /\ PipeOf(m, n) # m.fds[1].pipe
      /\ \A n, o \in DOMAIN m.pipes : n # o => PipeOf(m, n) # PipeOf(m, o)
      /\ m.fds[1].pipe \in Nat
  BY OfferFacts
<1>4. /\ SinkOf(m, a) = IF a.out = << >> THEN Key(m.fds[1])
                        ELSE IF Piping(a.out) THEN PipeOf(m, a.out[1].number) ELSE -1
      /\ SourceOf(m, a) = IF Piping(a.in) THEN PipeOf(m, a.in[1].number) ELSE 0
      /\ Piping(a.out) => a.out[1].number \in DOMAIN m.pipes
      /\ Piping(a.in) => a.in[1].number \in DOMAIN m.pipes
  BY <1>1, CallRoutes
<1>5. /\ SinkOf(m, b) = IF b.out = << >> THEN Key(m.fds[1])
                        ELSE IF Piping(b.out) THEN PipeOf(m, b.out[1].number) ELSE -1
      /\ SourceOf(m, b) = IF Piping(b.in) THEN PipeOf(m, b.in[1].number) ELSE 0
      /\ Piping(b.out) => b.out[1].number \in DOMAIN m.pipes
      /\ Piping(b.in) => b.in[1].number \in DOMAIN m.pipes
  BY <1>1, CallRoutes
<1> HIDE DEF a, b
<1>6. \A n \in DOMAIN m.pipes : PipeOf(m, n) # Key(m.fds[1])
  BY <1>3 DEF Key
<1>7. SourceOf(m, a) # 0 => SourceOf(m, a) # SourceOf(m, b)
  BY <1>2, <1>3, <1>4, <1>5
<1>8. SinkOf(m, a) >= 0 => SinkOf(m, a) # SinkOf(m, b)
  <2>1. CASE a.out = << >>
    BY <1>2, <1>3, <1>4, <1>5, <1>6, <2>1 DEF Piping
  <2>2. CASE Piping(a.out)
    BY <1>2, <1>3, <1>4, <1>5, <1>6, <2>2 DEF Piping
  <2>3. CASE a.out # << >> /\ ~Piping(a.out)
    BY <1>4, <2>3
  <2> QED
    BY <2>1, <2>2, <2>3
<1> QED
  BY <1>7, <1>8 DEF a, b

LEMMA ForksRoutes ==
  ASSUME PlumbingInv, Routes, code' = code, NEW p \in DOMAIN procs, procs[p].state = "forking",
         procs[p].made < Len(code[procs[p].entry].calls), NEW pid, pid \notin DOMAIN procs,
         NEW c, HasFields(c), c.fds = procs[p].fds, c.pipes = procs[p].pipes, c.parent = p,
         c.state = "child", c.call = << code[procs[p].entry].calls[procs[p].made + 1] >>,
         NEW k, HasFields(k), SameBut(procs[p], k, {"waitq", "made"}), k.made = procs[p].made + 1,
         procs' = Put(Put(procs, pid, c), p, k)
  PROVE  Routes'
<1> DEFINE m == procs[p]
           i == m.made + 1
           calls == code[m.entry].calls
           call == calls[i]
<1>1. /\ DOMAIN procs' = DOMAIN procs \cup {pid} /\ procs'[p] = k /\ procs'[pid] = c
      /\ \A q \in DOMAIN procs : q # p => procs'[q] = procs[q]
  BY TwoPut
<1>2. /\ IsChain(code) /\ AreLimits(limits) /\ Good(m, limits, code) /\ HasFields(m)
  BY Invariants, GoodFacts
<1>3. k.fds = m.fds /\ k.pipes = m.pipes /\ k.state = "forking" /\ k.entry = m.entry
  BY DEF SameBut, Fields
<1>4. /\ \A x : SinkOf(k, x) = SinkOf(m, x) /\ SourceOf(k, x) = SourceOf(m, x)
      /\ Offers(k) = Offers(m)
  BY <1>2, <1>3, SameEnds
<1>5. Sink(c) = SinkOf(m, call) /\ Source(c) = SourceOf(m, call) /\ Worker(c) /\ ~Worker(k)
  <2>1. \A x : SinkOf(c, x) = SinkOf(m, x) /\ SourceOf(c, x) = SourceOf(m, x)
    BY <1>2, SameEnds
  <2>2. c.call[1] = call
    OBVIOUS
  <2> QED
    BY <1>3, <2>1, <2>2 DEF Sink, Source, Worker
<1>6. /\ i \in DOMAIN calls /\ i \in ToCome(m, code) /\ call \in Range(calls)
      /\ ToCome(k, code) \subseteq ToCome(m, code) \ {i} /\ ToCome(m, code) \subseteq DOMAIN calls
  <2>1. /\ ToCome(m, code) \subseteq DOMAIN calls /\ m.made \in Nat /\ Len(calls) \in Nat
        /\ DOMAIN calls = 1 .. Len(calls)
        /\ \A n \in ToCome(m, code) : calls[n] \in Range(calls)
    BY <1>2, ComingCalls
  <2>2. i \in ToCome(m, code)
    BY <2>1 DEF ToCome
  <2>3. ToCome(k, code) \subseteq ToCome(m, code) \ {i}
    BY <1>3, <2>1 DEF ToCome
  <2> QED
    BY <2>1, <2>2, <2>3
<1>7. Sink(c) \in Offers(m) \cup {-1} /\ Source(c) \in StepPipes(m) \cup {0}
  <2>1. SinkOf(m, call) \in {Key(m.fds[1]), -1} \cup StepPipes(m)
        /\ SourceOf(m, call) \in StepPipes(m) \cup {0}
    BY <1>2, <1>6, CallOffers
  <2> QED
    BY <1>5, <2>1 DEF Offers
<1>8. m.state \in AtWork /\ k.state \in AtWork /\ c.state \notin AtWork
  BY <1>3 DEF AtWork
<1> HIDE DEF m, i, calls, call
<1>9. \A q \in DOMAIN procs : Worker(procs[q]) => ~SameEnd(procs[q], c) /\ ~SameEnd(c, procs[q])
  <2> SUFFICES ASSUME NEW q \in DOMAIN procs, Worker(procs[q])
               PROVE  ~SameEnd(procs[q], c) /\ ~SameEnd(c, procs[q])
    OBVIOUS
  <2>1. Spared(procs[q], m, code)
    BY <1>8 DEF Routes, m
  <2>2. /\ Sink(procs[q]) >= 0 => Sink(procs[q]) # SinkOf(m, call)
        /\ Source(procs[q]) # 0 => Source(procs[q]) # SourceOf(m, call)
    BY <1>6, <2>1 DEF Spared, calls, call
  <2> QED
    BY <1>5, <2>2 DEF SameEnd
<1>10. ASSUME NEW r \in DOMAIN procs, r # p, procs[r].state \in AtWork
       PROVE  Sink(c) \notin Offers(procs[r]) /\ Spared(c, procs[r], code)
  <2> DEFINE o == procs[r]
  <2>1. Offers(o) \cap Offers(m) = {} /\ -1 \notin Offers(o)
    BY <1>8, <1>10, FreshPipes DEF Routes, m
  <2>2. 0 \notin StepPipes(o) /\ StepPipes(o) \subseteq Offers(o) /\ StepPipes(m) \subseteq Offers(m)
    BY <1>10, FreshPipes DEF Offers
  <2>3. ASSUME NEW n \in ToCome(o, code)
        PROVE  /\ Sink(c) >= 0 => Sink(c) # SinkOf(o, code[o.entry].calls[n])
               /\ Source(c) # 0 => Source(c) # SourceOf(o, code[o.entry].calls[n])
    <3>1. o.state = "forking"
      BY <2>3 DEF ToCome
    <3>2. Good(o, limits, code)
      BY Invariants
    <3>3. code[o.entry].calls[n] \in Range(code[o.entry].calls)
      BY <1>2, <3>1, <3>2, ComingCalls
    <3> DEFINE x == code[o.entry].calls[n]
    <3>4. SinkOf(o, x) \in {Key(o.fds[1]), -1} \cup StepPipes(o)
          /\ SourceOf(o, x) \in StepPipes(o) \cup {0}
      BY <1>2, <3>1, <3>2, <3>3, CallOffers
    <3>5. SinkOf(o, x) \in Offers(o) \cup {-1}
      BY <3>4 DEF Offers
    <3> HIDE DEF x, o
    <3>6. Sink(c) >= 0 => Sink(c) \in Offers(m)
      BY <1>7
    <3> QED
      BY <1>7, <2>1, <2>2, <3>4, <3>5, <3>6 DEF x
  <2> QED
    BY <1>7, <2>1, <2>3 DEF Spared
<1>11. Spared(c, k, code)
  <2>1. ASSUME NEW n \in ToCome(k, code)
        PROVE  /\ Sink(c) >= 0 => Sink(c) # SinkOf(k, code[k.entry].calls[n])
               /\ Source(c) # 0 => Source(c) # SourceOf(k, code[k.entry].calls[n])
    <3>1. n \in DOMAIN calls /\ n # i
      BY <1>6, <2>1
    <3>2. m.state = "forking" /\ calls = code[m.entry].calls
      BY DEF m, calls
    <3>3. /\ SinkOf(m, call) >= 0 => SinkOf(m, call) # SinkOf(m, calls[n])
          /\ SourceOf(m, call) # 0 => SourceOf(m, call) # SourceOf(m, calls[n])
      BY <1>2, <1>6, <3>1, <3>2, CallsApart DEF call, calls
    <3> QED
      BY <1>3, <1>4, <1>5, <3>2, <3>3
  <2> QED
    BY <2>1 DEF Spared
<1>12. \A x, y \in DOMAIN procs' :
         Worker(procs'[x]) /\ Worker(procs'[y]) /\ x # y => ~SameEnd(procs'[x], procs'[y])
  <2> SUFFICES ASSUME NEW x \in DOMAIN procs', NEW y \in DOMAIN procs', x # y,
                      Worker(procs'[x]), Worker(procs'[y])
               PROVE  ~SameEnd(procs'[x], procs'[y])
    OBVIOUS
  <2>1. x # p /\ y # p
    BY <1>1, <1>5
  <2>2. CASE x = pid
    BY <1>1, <1>9, <2>1, <2>2
  <2>3. CASE y = pid
    BY <1>1, <1>9, <2>1, <2>3
  <2>4. CASE x # pid /\ y # pid
    BY <1>1, <2>1, <2>4 DEF Routes
  <2> QED
    BY <2>2, <2>3, <2>4
<1>13. \A x \in DOMAIN procs' : procs'[x].state \in AtWork =>
         x \in DOMAIN procs /\ procs[x].state \in AtWork /\ Offers(procs'[x]) = Offers(procs[x])
  BY <1>1, <1>4, <1>8 DEF m
<1>14. \A x, y \in DOMAIN procs' :
         procs'[x].state \in AtWork /\ procs'[y].state \in AtWork /\ x # y
           => Offers(procs'[x]) \cap Offers(procs'[y]) = {}
  BY <1>13 DEF Routes
<1>15. \A x, q \in DOMAIN procs' : procs'[x].state \in AtWork /\ Worker(procs'[q]) =>
         /\ Sink(procs'[q]) \in Offers(procs'[x]) => procs'[q].parent = x
         /\ Spared(procs'[q], procs'[x], code)
  <2> SUFFICES ASSUME NEW x \in DOMAIN procs', NEW q \in DOMAIN procs',
                      procs'[x].state \in AtWork, Worker(procs'[q])
               PROVE  /\ Sink(procs'[q]) \in Offers(procs'[x]) => procs'[q].parent = x
                      /\ Spared(procs'[q], procs'[x], code)
    OBVIOUS
  <2>1. x \in DOMAIN procs /\ procs[x].state \in AtWork /\ Offers(procs'[x]) = Offers(procs[x])
    BY <1>13
  <2>2. CASE q = pid
    <3>1. procs'[q] = c
      BY <1>1, <2>2
    <3>2. CASE x = p
      BY <1>1, <1>11, <3>1, <3>2
    <3>3. CASE x # p
      BY <1>1, <1>10, <2>1, <3>1, <3>3
    <3> QED
      BY <3>2, <3>3
  <2>3. CASE q # pid
    <3>1. q \in DOMAIN procs /\ q # p /\ procs'[q] = procs[q]
      BY <1>1, <1>5, <2>3
    <3>2. /\ Sink(procs[q]) \in Offers(procs[x]) => procs[q].parent = x
          /\ Spared(procs[q], procs[x], code)
      BY <2>1, <3>1 DEF Routes
    <3>3. CASE x = p
      <4>1. Spared(procs[q], k, code)
        BY <1>3, <1>4, <1>6, <3>2, <3>3 DEF Spared, m
      <4> QED
        BY <1>1, <2>1, <3>1, <3>2, <3>3, <4>1
    <3>4. CASE x # p
      BY <1>1, <2>1, <3>1, <3>2, <3>4
    <3> QED
      BY <3>3, <3>4
  <2> QED
    BY <2>2, <2>3
<1>16. code' = code
  OBVIOUS
<1> QED
  BY ONLY <1>12, <1>14, <1>15, <1>16 DEF Routes

LEMMA ForkRoutes ==
  ASSUME PlumbingInv, Routes, NEW p, Fork(p)
  PROVE  Routes'
<1> DEFINE m == procs[p]
           e == code[m.entry]
           call == e.calls[m.made + 1]
           Invoked(c) == [c EXCEPT !.state = "child", !.call = << call >>]
<1>1. /\ p \in DOMAIN procs /\ m.state = "forking" /\ m.made < Len(e.calls) /\ code' = code
  BY DEF Fork, In, Proc, Entry
<1>2. /\ IsChain(code) /\ AreLimits(limits) /\ Good(m, limits, code) /\ p \in limits.pids
  BY <1>1, Invariants
<1>3. IF FreePids = {} THEN World([procs EXCEPT ![p] = Fail(m)]) ELSE ForkInto(p, m, m, Invoked)
  BY DEF Fork, In, Proc, Entry
<1>4. CASE FreePids = {}
  <2>1. procs' = [procs EXCEPT ![p] = Ending(m)] /\ Ending(m).state = "ending"
    BY <1>3, <1>4, EndingFields DEF Fail, World
  <2> QED
    BY <1>1, <2>1, EndsRoutes
<1>5. CASE FreePids # {}
  <2> DEFINE c == InvokedBy(m, p, call)
  <2>1. PICK s \in Lowest(FreePids, 1) :
          World(Put(Put(procs, s[1], c), p, [m EXCEPT !.waitq = Append(@, s[1]), !.made = @ + 1]))
    BY <1>3, <1>5 DEF ForkInto, InvokedBy
  <2> DEFINE pid == s[1]
             k == [m EXCEPT !.waitq = Append(@, pid), !.made = @ + 1]
  <2>2. pid \in limits.pids \ DOMAIN procs
    BY LowestPid
  <2>3. procs' = Put(Put(procs, pid, c), p, k)
    BY <2>1 DEF World
  <2> HIDE DEF pid
  <2>4. /\ Good(c, limits, code) /\ c.parent = p /\ c.state = "child" /\ c.fds = m.fds
        /\ c.pipes = m.pipes /\ c.call = << call >>
    <3> HIDE DEF m
    <3>1. m.made < Len(code[m.entry].calls)
      BY <1>1
    <3> QED
      BY <1>1, <1>2, <3>1, InvokedGood, SMTT(20)
  <2> HIDE DEF c
  <2>5. Good(k, limits, code) /\ SameBut(m, k, {"waitq", "made"}) /\ k.made = m.made + 1
    <3> HIDE DEF m
    <3> QED
      BY <1>1, <1>2, <2>2, ForkedGood
  <2> HIDE DEF k
  <2>6. HasFields(c) /\ HasFields(k)
    BY <2>4, <2>5, GoodFacts
  <2> QED
    BY <1>1, <2>2, <2>3, <2>4, <2>5, <2>6, ForksRoutes
<1> QED
  BY <1>4, <1>5

(* An expansion's shell offers a pipe of its own.                          *)
LEMMA ExpandsRoutes ==
  ASSUME PlumbingInv, Routes, code' = code, NEW p \in DOMAIN procs, procs[p].state \in AtWork,
         NEW pid, pid \notin DOMAIN procs,
         NEW c, c.state = "shell", c.pipes = << >>, c.fds[1].pipe # 0, c.fds[1].pipe \in FreePipes,
         NEW k, k.state = "expanding", k.fds[1] = procs[p].fds[1], k.pipes = << >>,
         procs' = Put(Put(procs, pid, c), p, k)
  PROVE  Routes'
<1> DEFINE m == procs[p]
<1>1. /\ DOMAIN procs' = DOMAIN procs \cup {pid} /\ procs'[p] = k /\ procs'[pid] = c
      /\ \A q \in DOMAIN procs : q # p => procs'[q] = procs[q]
  BY TwoPut
<1>2. ~Worker(c) /\ ~Worker(k) /\ ToCome(c, code) = {} /\ ToCome(k, code) = {}
  BY DEF Worker, ToCome
<1>3. Offers(c) \subseteq FreePipes /\ Offers(k) \subseteq Offers(m)
  BY DEF Offers, StepPipes, Key
<1>4. \A q \in DOMAIN procs' : Worker(procs'[q]) =>
        /\ q \in DOMAIN procs /\ q # p /\ procs'[q] = procs[q] /\ Worker(procs[q])
        /\ Sink(procs[q]) \notin FreePipes
  BY <1>1, <1>2, FreshPipes
<1>5. \A x \in DOMAIN procs' : procs'[x].state \in AtWork /\ x # pid =>
        /\ x \in DOMAIN procs /\ procs[x].state \in AtWork /\ Offers(procs'[x]) \subseteq Offers(procs[x])
        /\ Offers(procs[x]) \cap FreePipes = {}
  BY <1>1, <1>3, FreshPipes
<1>6. \A x, y \in DOMAIN procs' :
        Worker(procs'[x]) /\ Worker(procs'[y]) /\ x # y => ~SameEnd(procs'[x], procs'[y])
  BY <1>4 DEF Routes
<1>7. \A x, y \in DOMAIN procs' :
        procs'[x].state \in AtWork /\ procs'[y].state \in AtWork /\ x # y
          => Offers(procs'[x]) \cap Offers(procs'[y]) = {}
  <2> SUFFICES ASSUME NEW x \in DOMAIN procs', NEW y \in DOMAIN procs', x # y,
                      procs'[x].state \in AtWork, procs'[y].state \in AtWork
               PROVE  Offers(procs'[x]) \cap Offers(procs'[y]) = {}
    OBVIOUS
  <2>1. CASE x = pid
    BY <1>1, <1>3, <1>5, <2>1
  <2>2. CASE y = pid
    BY <1>1, <1>3, <1>5, <2>2
  <2>3. CASE x # pid /\ y # pid
    BY <1>5, <2>3 DEF Routes
  <2> QED
    BY <2>1, <2>2, <2>3
<1>8. \A x, q \in DOMAIN procs' : procs'[x].state \in AtWork /\ Worker(procs'[q]) =>
        /\ Sink(procs'[q]) \in Offers(procs'[x]) => procs'[q].parent = x
        /\ Spared(procs'[q], procs'[x], code)
  <2> SUFFICES ASSUME NEW x \in DOMAIN procs', NEW q \in DOMAIN procs',
                      procs'[x].state \in AtWork, Worker(procs'[q])
               PROVE  /\ Sink(procs'[q]) \in Offers(procs'[x]) => procs'[q].parent = x
                      /\ Spared(procs'[q], procs'[x], code)
    OBVIOUS
  <2>1. /\ q \in DOMAIN procs /\ q # p /\ procs'[q] = procs[q] /\ Worker(procs[q])
        /\ Sink(procs[q]) \notin FreePipes
    BY <1>4
  <2>2. CASE x = pid
    BY <1>1, <1>2, <1>3, <2>1, <2>2 DEF Spared
  <2>3. CASE x # pid
    <3>1. /\ Sink(procs[q]) \in Offers(procs[x]) => procs[q].parent = x
          /\ Spared(procs[q], procs[x], code)
      BY <1>5, <2>1, <2>3 DEF Routes
    <3>2. Spared(procs'[q], procs'[x], code)
      BY <1>1, <1>2, <1>5, <2>1, <2>3, <3>1 DEF Spared
    <3> QED
      BY <1>5, <2>1, <2>3, <3>1, <3>2
  <2> QED
    BY <2>2, <2>3
<1> HIDE DEF m
<1>9. code' = code
  OBVIOUS
<1> QED
  BY ONLY <1>6, <1>7, <1>8, <1>9 DEF Routes

LEMMA ForkExpansionRoutes ==
  ASSUME PlumbingInv, Routes, NEW p, ForkExpansion(p)
  PROVE  Routes'
<1> DEFINE m == procs[p]
           s == Expanding(m)
           e == code[m.entry]
<1>1. /\ p \in DOMAIN procs /\ m.state \in {"shell", "expanding"} /\ code' = code
      /\ m.state = "shell" => e.op = "expand"
      /\ m.made < Len(e.heads)
  BY DEF ForkExpansion, Enters, In, Proc, Entry
<1>2. /\ IsChain(code) /\ AreLimits(limits) /\ Good(m, limits, code) /\ p \in limits.pids
  BY <1>1, Invariants
<1>3. /\ HasFields(s) /\ SameBut(m, s, {"state"}) /\ Typed(s, limits) /\ s.state = "expanding"
      /\ m.pipes = << >>
  BY <1>1, <1>2, ExpandingFields
<1>4. PICK x \in PipeInitMany(s, 1) :
        IF x.pipes = << >> \/ FreePids = {} THEN World([procs EXCEPT ![p] = Fail(x)])
        ELSE ForkInto(p, x, KeepReadEnd(x, x.pipes[1]),
                      LAMBDA c : ExpansionChild(c, x.pipes[1], e.heads[x.made + 1]))
  BY DEF ForkExpansion, Proc, Entry, Expanding
<1> HIDE DEF s
<1>5. s.fds = m.fds /\ s.waitq = m.waitq /\ s.made = m.made /\ s.parent = m.parent
  BY <1>3 DEF SameBut, Fields
<1>6. /\ Typed(x, limits) /\ Opened(s, x) /\ Len(x.pipes) <= 1
      /\ \A i \in DOMAIN x.pipes : x.fds[x.pipes[i][1]].pipe \in FreePipes
  <2>1. /\ m.state \notin {"ending", "zombie"} /\ s.state # "zombie" /\ 1 \in Nat
        /\ s.fds = procs[p].fds
    BY <1>1, <1>3, <1>5
  <2> QED
    BY <1>1, <1>2, <1>3, <2>1, PipeInitGood
<1>7. /\ x.parent = m.parent /\ x.state = "expanding" /\ x.made = m.made
      /\ SameBut(m, x, {"fds", "pipes", "state"}) /\ x.waitq = m.waitq
  BY <1>3, <1>5, <1>6 DEF SameBut, Fields, Opened
<1>8. CASE x.pipes = << >> \/ FreePids = {}
  <2>1. procs' = [procs EXCEPT ![p] = Ending(x)] /\ Ending(x).state = "ending"
    BY <1>4, <1>8, EndingFields DEF Fail, World
  <2> QED
    BY <1>1, <2>1, EndsRoutes
<1>9. CASE x.pipes # << >> /\ FreePids # {}
  <2> DEFINE head == e.heads[m.made + 1]
             c == ExpansionBy(x, p, head)
  <2>1. PICK t \in Lowest(FreePids, 1) : World(Put(Put(procs, t[1], c), p, KeptBy(x, t[1])))
    BY <1>4, <1>7, <1>9 DEF ForkInto, ExpansionBy, KeptBy
  <2> DEFINE pid == t[1]
             k == KeptBy(x, pid)
             r == x.pipes[1][1]
  <2>2. pid \in limits.pids \ DOMAIN procs
    BY LowestPid
  <2>3. procs' = Put(Put(procs, pid, c), p, k)
    BY <2>1 DEF World
  <2> HIDE DEF pid
  <2>4. /\ HasFields(x) /\ Len(x.pipes) = 1 /\ DOMAIN x.pipes = 1 .. 1
        /\ DOMAIN x.fds = DOMAIN m.fds \cup PipeNumbers(x)
        /\ PipeNumbers(x) \cap DOMAIN m.fds = {}
        /\ \A n \in DOMAIN m.fds : x.fds[n] = m.fds[n]
        /\ PairsOK(x.fds, x.pipes)
    <3> DEFINE n == Len(x.pipes)
    <3>1. n \in Nat /\ x.pipes \in Seq(Nat \X Nat) /\ n <= 1
      BY <1>6 DEF Opened, Typed
    <3>2. n # 0
      BY <1>9, <3>1
    <3>3. n = 1
      <4> HIDE DEF n
      <4> QED
        BY <3>1, <3>2
    <3> QED
      BY <1>5, <1>6, <3>3 DEF Opened
  <2>5. IsExpansion(c, x, m, limits, code, p, head)
    BY <1>1, <1>2, <1>6, <1>7, <2>4, ExpansionGood
  <2> HIDE DEF c
  <2>6. /\ k.state = "expanding" /\ k.pipes = << >>
        /\ \A n \in DOMAIN m.fds : k.fds[n] = m.fds[n]
    BY <1>1, <1>2, <1>6, <1>7, <2>2, <2>4, ExpandedGood
  <2> HIDE DEF k
  <2>7. x.fds[r].pipe \in FreePipes
    BY <1>6, <2>4
  <2> HIDE DEF r
  <2>8. /\ c.state = "shell" /\ c.pipes = << >> /\ c.fds[1].pipe # 0
        /\ c.fds[1].pipe \in FreePipes
    BY <2>5, <2>7 DEF IsExpansion, r
  <2>9. k.fds[1] = m.fds[1] /\ m.state \in AtWork
    <3>1. 1 \in DOMAIN m.fds
      BY <1>1, <1>2, OfferFacts
    <3> QED
      BY <1>1, <2>6, <3>1 DEF AtWork
  <2> QED
    BY <1>1, <2>2, <2>3, <2>6, <2>8, <2>9, ExpandsRoutes
<1> QED
  BY <1>8, <1>9

-----------------------------------------------------------------------------
LEMMA LeavingRoutes ==
  ASSUME PlumbingInv, Routes, NEW p, EnterLast(p) \/ Broken(p) \/ Finish(p)
  PROVE  Routes'
<1>1. p \in DOMAIN procs /\ code' = code /\ procs' = [procs EXCEPT ![p] = Ending(procs[p])]
  BY DEF EnterLast, Broken, Finish, Enters, In, Proc
<1>2. Ending(procs[p]).state = "ending"
  BY EndingFields
<1> QED
  BY <1>1, <1>2, EndsRoutes

LEMMA RoutesInit == Init => Routes
<1> SUFFICES ASSUME Init PROVE Routes
  OBVIOUS
<1>1. DOMAIN procs = {Main} /\ procs[Main] = Shell
  BY DEF Init
<1>2. Shell.state = "shell"
  BY DEF Shell
<1> HIDE DEF Init
<1>3. \A p \in DOMAIN procs : ~Worker(procs[p]) /\ p = Main
  BY <1>1, <1>2 DEF Worker
<1> QED
  BY ONLY <1>3 DEF Routes

LEMMA RoutesStep == PlumbingInv /\ Routes /\ [Next]_vars => Routes'
<1> SUFFICES ASSUME PlumbingInv, Routes, [Next]_vars PROVE Routes'
  OBVIOUS
<1>1. CASE UNCHANGED vars
  BY <1>1 DEF vars, Routes
<1>2. CASE Over
  BY <1>2 DEF Over, vars, Routes
<1>3. ASSUME NEW p, ShellStep(p)
      PROVE  Routes'
  BY <1>3, OpenPipesRoutes, ForkRoutes, ClosePipesRoutes, ReapRoutes, ForkExpansionRoutes,
     ExpansionsMadeRoutes, SpliceReadRoutes, SpliceEndRoutes, LeavingRoutes DEF ShellStep
<1>4. ASSUME NEW p, ProgramStep(p)
      PROVE  Routes'
  BY <1>4, StartRoutes, ProgramStepRoutes, LeavingRoutes, DieRoutes DEF ProgramStep
<1> QED
  BY <1>1, <1>2, <1>3, <1>4 DEF Next

LEMMA RoutesMeet == PlumbingInv /\ Routes => PointToPoint
<1> SUFFICES ASSUME PlumbingInv, Routes,
                    NEW p \in DOMAIN procs, NEW q \in DOMAIN procs, p # q,
                    procs[p].state = "program", procs[q].state = "program"
             PROVE  /\ Stdin(p).pipe # 0 => Stdin(p).pipe # Stdin(q).pipe
                    /\ Stdout(p).pipe # 0 => Stdout(p).pipe # Stdout(q).pipe
                    /\ Stdout(p).file = Terminal => Stdout(q).file # Terminal
  BY DEF PointToPoint, In, Proc
<1>1. ~SameEnd(procs[p], procs[q])
  BY DEF Routes, Worker
<1>2. /\ Sink(procs[p]) = Key(Stdout(p)) /\ Source(procs[p]) = Stdin(p).pipe
      /\ Sink(procs[q]) = Key(Stdout(q)) /\ Source(procs[q]) = Stdin(q).pipe
  BY DEF Sink, Source, Stdin, Stdout, Proc
<1>3. ASSUME NEW x \in DOMAIN procs, procs[x].state = "program"
      PROVE  /\ Stdout(x).pipe \in Nat
             /\ Stdout(x).file = Terminal => Stdout(x).pipe = 0
  <2>1. AreLimits(limits) /\ Good(procs[x], limits, code)
    BY Invariants
  <2>2. Typed(procs[x], limits) /\ 1 \in DOMAIN procs[x].fds
    BY <1>3, <2>1, GoodFacts, OfferFacts
  <2>3. Stdout(x) \in Descriptor(limits)
    BY <2>2 DEF Typed, Stdout, Proc
  <2>4. Stdout(x).pipe \in limits.pipes \cup {0} /\ (Stdout(x).pipe # 0 => Stdout(x).file = NoFile)
    BY <2>3 DEF Descriptor
  <2>5. Terminal # NoFile
    BY DEF Terminal, NoFile
  <2> QED
    BY <2>1, <2>4, <2>5 DEF AreLimits
<1>4. \A x \in {p, q} : Stdout(x).file = Terminal => Key(Stdout(x)) = 0
  BY <1>3 DEF Key
<1>5. Stdin(p).pipe # 0 => Stdin(p).pipe # Stdin(q).pipe
  BY <1>1, <1>2 DEF SameEnd
<1>6. Key(Stdout(p)) >= 0 => Key(Stdout(p)) # Key(Stdout(q))
  <2>1. ~(Sink(procs[p]) >= 0 /\ Sink(procs[p]) = Sink(procs[q]))
    BY <1>1 DEF SameEnd
  <2> QED
    BY <1>2, <2>1
<1>7. Stdout(p).pipe # 0 => Stdout(p).pipe # Stdout(q).pipe
  <2>1. /\ Stdout(p).pipe # 0 => Key(Stdout(p)) = Stdout(p).pipe /\ Key(Stdout(p)) >= 0
        /\ Stdout(q).pipe # 0 => Key(Stdout(q)) = Stdout(q).pipe
    BY <1>3 DEF Key
  <2> QED
    BY <1>6, <2>1
<1>8. Stdout(p).file = Terminal => Stdout(q).file # Terminal
  BY <1>4, <1>6
<1> QED
  BY <1>5, <1>7, <1>8

-----------------------------------------------------------------------------
(* In a session that starts with one shell every invocation ever forked    *)
(* has a pipe's end, a file or the terminal that no other worker has, and  *)
(* what a shell still has to hand out nobody else has.                     *)
THEOREM RoutesStay == Spec => []Routes
<1>1. Init => Routes
  BY RoutesInit
<1>2. PlumbingInv /\ Routes /\ [Next]_vars => Routes'
  BY RoutesStep
<1> QED
  BY <1>1, <1>2, PlumbingInvariant, PTL DEF Spec

(* Whatever the lines, the programs and the limits of the system are, and  *)
(* whatever fails, the pipes that j_step_adjust_io and the forks of        *)
(* expansions lay connect one program that writes to one that reads, and at*)
(* most one program writes to the terminal at a time.                      *)
THEOREM PipesArePointToPoint == Spec => []PointToPoint
BY RoutesStay, PlumbingInvariant, RoutesMeet, PTL
=============================================================================
