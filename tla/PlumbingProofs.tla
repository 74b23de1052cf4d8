--------------------------- MODULE PlumbingProofs ---------------------------
(***************************************************************************)
(* Proofs about the descriptors of Plumbing for any chains of entries, any *)
(* programs, files and limits on processes and pipes.                      *)
(*                                                                         *)
(* Neither TypeOK nor NoStrayEnds is inductive: what a program is left with*)
(* depends on what its shell had open when it forked it.  PlumbingInv says *)
(* of a process at every stage which descriptors it has and what for.      *)
(***************************************************************************)
EXTENDS Plumbing, FiniteSetTheorems, TLAPS

(* Where a process is, and what it has gathered on the way there.          *)
AtWork == {"shell", "forking", "expanding"}
PositionOK(m, chain) ==
  LET e == chain[m.entry] IN
  /\ m.state \in AtWork \cup {"child"} =>
       /\ m.entry \in DOMAIN chain
       /\ e.op = "step" => UsesValues(e, Len(m.values))
  /\ m.state = "shell" =>
       IF e.op = "splice"
       THEN Len(m.channels) = e.n /\ Len(m.values) = e.n /\ m.made < e.n
       ELSE m.channels = << >> /\ m.made = 0
  /\ m.state = "expanding" =>
       e.op = "expand" /\ Len(m.channels) = m.made /\ m.made <= Len(e.heads)
  /\ m.state \in {"forking", "child"} =>
       e.op = "step" /\ m.channels = << >> /\ Len(m.pipes) = e.pipes
  /\ m.state = "forking" => m.made <= Len(e.calls)
  /\ m.state = "child" => \E i \in DOMAIN e.calls : m.call = << e.calls[i] >>
  /\ m.state = "program" => m.channels = << >> /\ \E name \in DOMAIN Does : m.call = << name >>
  /\ m.state \in {"shell", "expanding", "program"} => m.pipes = << >>
  /\ m.state \notin AtWork => m.waitq = << >>

(* The numbers a process keeps: its own pipes', and those of the expansions*)
(* it has not read yet.                                                    *)
PipeNumbers(m) == UNION {{m.pipes[i][1], m.pipes[i][2]} : i \in DOMAIN m.pipes}
Unread(m) == IF m.state = "shell" THEN m.made + 1 .. Len(m.channels) ELSE DOMAIN m.channels
ChannelNumbers(m) == {m.channels[i] : i \in Unread(m)}

(* Each pipe has two numbers above the standard ones, is another, and is   *)
(* not what the process writes its own output to.                          *)
PairsOK(fds, pairs) ==
  /\ \A i \in DOMAIN pairs :
       LET r == pairs[i][1]
           w == pairs[i][2]
       IN  /\ r \in DOMAIN fds /\ w \in DOMAIN fds /\ r > 2 /\ w > 2 /\ r # w
           /\ fds[r].way = "r" /\ fds[w].way = "w"
           /\ fds[r].pipe # 0 /\ fds[w].pipe = fds[r].pipe
           /\ fds[1].pipe # fds[r].pipe
  /\ \A i, j \in DOMAIN pairs : i # j => fds[pairs[i][1]].pipe # fds[pairs[j][1]].pipe
ChannelsOK(m) ==
  /\ \A i \in Unread(m) : m.channels[i] \in DOMAIN m.fds /\ m.channels[i] > 2
                          /\ m.fds[m.channels[i]].pipe # 0
  /\ \A i, j \in Unread(m) : i # j => m.channels[i] # m.channels[j]
DescriptorsOK(m) ==
  /\ m.fds[0].way = "r" /\ m.fds[1].way = "w"
  /\ m.state # "program" => m.fds[0].pipe = 0
  /\ m.state \in AtWork => m.fds[1].pipe # 0 \/ m.fds[1].file = Terminal
  /\ m.fds[0].pipe # 0 => m.fds[0].pipe # m.fds[1].pipe
  /\ \A n \in DOMAIN m.fds \ ({0, 1} \cup PipeNumbers(m)) :
       m.fds[n].pipe # 0 => m.fds[n].way = "r"
  /\ PairsOK(m.fds, m.pipes)
  /\ ChannelsOK(m)

(* One process by itself.                                                  *)
FilesOpen(m, names) ==
  \A n \in DOMAIN m.fds : m.fds[n].pipe = 0 => m.fds[n].file \in names
Good(m, l, chain) ==
  /\ IsProcess(m, l)
  /\ PositionOK(m, chain)
  /\ m.state \notin {"ending", "zombie"} => DescriptorsOK(m)

(* A process and its children; Main, and no more than it needs.            *)
EachOnce(pids) == \A i, j \in DOMAIN pids : pids[i] = pids[j] => i = j
Awaits(m, children) ==
  /\ EachOnce(m.waitq)
  /\ m.state \in AtWork => Range(m.waitq) = children
  /\ m.state \in {"child", "program"} => children = {}
MainOK(m) ==
  /\ m.parent = Nobody
  /\ m.state \notin {"child", "program"}
  /\ m.state \in AtWork =>
       DOMAIN m.fds = (0 .. 2) \cup ChannelNumbers(m) \cup PipeNumbers(m)

(* The table, and what is beside it.                                       *)
ParentLives(q) ==
  \/ procs[q].parent = Nobody
  \/ procs[q].parent \in DOMAIN procs \ {q} /\ procs[procs[q].parent].state # "zombie"
TableOK ==
  /\ procs = [q \in DOMAIN procs |-> procs[q]]
  /\ Main \in DOMAIN procs /\ DOMAIN procs \subseteq limits.pids
  /\ \A q \in DOMAIN procs :
       /\ Good(procs[q], limits, code) /\ FilesOpen(procs[q], DOMAIN files \cup {Terminal})
       /\ Awaits(procs[q], ChildrenOf(q)) /\ ParentLives(q)
  /\ MainOK(procs[Main])
SessionOK == line \in Lines /\ code = Program[line] /\ limits \in Limits
PipesOK ==
  /\ pipes \in [limits.pipes -> Seq(STRING)]
  /\ \A pipe \in limits.pipes : Len(pipes[pipe]) <= Capacity
FilesOK == files \in [DOMAIN files -> Seq(STRING)] /\ DOMAIN FilesFound \subseteq DOMAIN files
RecordOK ==
  /\ tty \in Seq(STRING)
  /\ took \in [DOMAIN took -> Seq(STRING)] /\ DOMAIN took \subseteq DOMAIN Does
  /\ argvs \in [DOMAIN argvs -> Seq(Seq(STRING))] /\ DOMAIN argvs \subseteq DOMAIN Does
PlumbingInv == SessionOK /\ TableOK /\ PipesOK /\ FilesOK /\ RecordOK

(* What a process writes to, and what the invocation it was forked for, or *)
(* is going to be, will write to and read from.                            *)
Key(e) == IF e.pipe # 0 THEN e.pipe ELSE IF e.file = Terminal THEN 0 ELSE -1
SinkOf(m, call) == Key(Adjusted(m, call.out, 1).fds[1])
SourceOf(m, call) == Adjusted(m, call.in, 0).fds[0].pipe

-----------------------------------------------------------------------------
(* Processes as records.                                                   *)

Fields == {"parent", "state", "fds", "entry", "waitq", "made", "pipes", "channels", "values",
           "call", "todo", "eof"}
HasFields(m) == m = [f \in Fields |-> m[f]]
Typed(m, l) ==
  /\ m.parent \in l.pids \cup {Nobody} /\ m.state \in States
  /\ m.fds \in [DOMAIN m.fds -> Descriptor(l)] /\ DOMAIN m.fds \subseteq Nat
  /\ m.state # "zombie" => 0 .. 2 \subseteq DOMAIN m.fds
  /\ m.entry \in Nat /\ m.waitq \in Seq(l.pids) /\ m.made \in Nat
  /\ m.pipes \in Seq(Nat \X Nat) /\ m.channels \in Seq(Nat)
  /\ m.values \in Seq(Seq(STRING)) /\ m.todo \in Seq(STRING) /\ m.eof \in BOOLEAN
SameBut(m, k, changed) == \A f \in Fields \ changed : k[f] = m[f]

LEMMA ProcessIs ==
  ASSUME NEW m, NEW l
  PROVE  IsProcess(m, l) <=> HasFields(m) /\ Typed(m, l)
<1>1. IsProcess(m, l) => HasFields(m) /\ Typed(m, l)
  BY DEF IsProcess, HasFields, Fields, Typed
<1>2. ASSUME HasFields(m), Typed(m, l)
      PROVE  IsProcess(m, l)
  <2>1. m \in [parent : l.pids \cup {Nobody}, state : States,
               fds : {m.fds}, entry : Nat, waitq : Seq(l.pids),
               made : Nat, pipes : Seq(Nat \X Nat), channels : Seq(Nat),
               values : Seq(Seq(STRING)), call : {m.call}, todo : Seq(STRING), eof : BOOLEAN]
    BY <1>2 DEF HasFields, Fields, Typed
  <2> QED
    BY <1>2, <2>1 DEF Typed, IsProcess
<1> QED
  BY <1>1, <1>2

LEMMA EmptySeqs ==
  /\ << >> \in Seq(Nat \X Nat) /\ << >> \in Seq(Nat) /\ << >> \in Seq(STRING)
  /\ << >> \in Seq(Seq(STRING)) /\ \A S : << >> \in Seq(S)
  /\ DOMAIN << >> = {} /\ Len(<< >>) = 0
OBVIOUS

(* What the operators on a process change.                                 *)
LEMMA GoesFields ==
  ASSUME NEW m, HasFields(m), NEW tag
  PROVE  LET k == Goes(m, tag) IN
         HasFields(k) /\ SameBut(m, k, {"entry", "made"}) /\ k.entry = tag /\ k.made = 0
BY DEF HasFields, Fields, Goes, SameBut

LEMMA EndingFields ==
  ASSUME NEW m
  PROVE  LET k == Ending(m) IN
         /\ HasFields(k) /\ k.parent = m.parent /\ k.state = "ending" /\ k.fds = m.fds
         /\ k.entry = 1 /\ k.waitq = << >> /\ k.made = 0 /\ k.pipes = << >>
         /\ k.channels = << >> /\ k.values = << >> /\ k.call = << >> /\ k.todo = << >>
         /\ k.eof = FALSE
BY DEF HasFields, Fields, Ending, Shell

LEMMA ClearFields ==
  ASSUME NEW m, HasFields(m)
  PROVE  LET k == PipeClearMany(m) IN
         /\ HasFields(k) /\ SameBut(m, k, {"fds", "pipes"}) /\ k.pipes = << >>
         /\ k.fds = Closed(m.fds, UNION {Range(m.pipes[i]) : i \in DOMAIN m.pipes})
BY DEF HasFields, Fields, PipeClearMany, SameBut

LEMMA EndingGood ==
  ASSUME NEW m, NEW l, NEW chain, IsProcess(m, l), m.state # "zombie"
  PROVE  Good(Ending(m), l, chain)
<1> DEFINE k == Ending(m)
<1>1. /\ HasFields(k) /\ k.parent = m.parent /\ k.state = "ending" /\ k.fds = m.fds
      /\ k.entry = 1 /\ k.waitq = << >> /\ k.made = 0 /\ k.pipes = << >>
      /\ k.channels = << >> /\ k.values = << >> /\ k.call = << >> /\ k.todo = << >>
      /\ k.eof = FALSE
  BY EndingFields
<1>2. Typed(m, l)
  BY ProcessIs
<1> HIDE DEF k
<1>3. Typed(k, l)
  <2>1. k.waitq \in Seq(l.pids) /\ k.pipes \in Seq(Nat \X Nat) /\ k.channels \in Seq(Nat)
        /\ k.values \in Seq(Seq(STRING)) /\ k.todo \in Seq(STRING)
    BY <1>1, EmptySeqs
  <2>2. k.entry \in Nat /\ k.made \in Nat /\ k.state \in States
    <3>1. k.entry = 1 /\ k.made = 0 /\ k.state = "ending"
      BY <1>1
    <3> QED
      BY <3>1 DEF States
  <2>4. k.eof \in BOOLEAN
    BY <1>1
  <2>3. /\ k.fds \in [DOMAIN k.fds -> Descriptor(l)] /\ DOMAIN k.fds \subseteq Nat
        /\ 0 .. 2 \subseteq DOMAIN k.fds /\ k.parent \in l.pids \cup {Nobody}
    BY <1>1, <1>2 DEF Typed
  <2> QED
    BY <2>1, <2>2, <2>3, <2>4 DEF Typed
<1>4. IsProcess(k, l)
  BY <1>1, <1>3, ProcessIs
<1>5. PositionOK(k, chain)
  BY <1>1 DEF PositionOK, AtWork
<1>6. Good(k, l, chain)
  BY <1>1, <1>4, <1>5 DEF Good
<1> QED
  BY <1>6 DEF k

LEMMA AppendSeq ==
  ASSUME NEW S, NEW s \in Seq(S), NEW x \in S
  PROVE  /\ Append(s, x) \in Seq(S) /\ Len(Append(s, x)) = Len(s) + 1
         /\ \A i \in 1 .. Len(s) : Append(s, x)[i] = s[i]
         /\ Append(s, x)[Len(s) + 1] = x
OBVIOUS

LEMMA TailSeq ==
  ASSUME NEW S, NEW s \in Seq(S), s # << >>
  PROVE  /\ Tail(s) \in Seq(S) /\ Len(Tail(s)) = Len(s) - 1 /\ Len(s) > 0
         /\ Head(s) \in S /\ Head(s) = s[1]
         /\ \A i \in 1 .. Len(s) - 1 : Tail(s)[i] = s[i + 1]
OBVIOUS

-----------------------------------------------------------------------------
(* Pipes.                                                                  *)

LEMMA DescriptorIs ==
  ASSUME NEW l
  PROVE  /\ \A pipe \in l.pipes :
              End(pipe, "r") \in Descriptor(l) /\ End(pipe, "w") \in Descriptor(l)
         /\ \A name \in STRING \cup {Terminal} :
              File(name, "r") \in Descriptor(l) /\ File(name, "w") \in Descriptor(l)
         /\ \A p, way : End(p, way).pipe = p /\ End(p, way).way = way /\ End(p, way).file = NoFile
         /\ \A name, way : /\ File(name, way).pipe = 0 /\ File(name, way).way = way
                           /\ File(name, way).file = name
<1>1. \A pipe \in l.pipes : End(pipe, "r") \in Descriptor(l) /\ End(pipe, "w") \in Descriptor(l)
  BY DEF End, Descriptor
<1>2. \A name \in STRING \cup {Terminal} :
        File(name, "r") \in Descriptor(l) /\ File(name, "w") \in Descriptor(l)
  BY DEF File, Descriptor
<1>3. \A p, way : End(p, way).pipe = p /\ End(p, way).way = way /\ End(p, way).file = NoFile
  BY DEF End
<1>4. \A name, way : /\ File(name, way).pipe = 0 /\ File(name, way).way = way
                     /\ File(name, way).file = name
  BY DEF File
<1> QED
  BY <1>1, <1>2, <1>3, <1>4

LEMMA LowestFacts ==
  ASSUME NEW S, NEW k \in Nat, NEW s \in Lowest(S, k)
  PROVE  /\ s \in [1 .. k -> S]
         /\ \A i, j \in 1 .. k : s[i] = s[j] => i = j
<1>1. s \in [1 .. k -> S] /\ \A i \in 1 .. k : Cardinality({x \in S : x < s[i]}) = i - 1
  BY DEF Lowest
<1>2. ASSUME NEW i \in 1 .. k, NEW j \in 1 .. k, s[i] = s[j]
      PROVE  i = j
  <2>1. Cardinality({x \in S : x < s[i]}) = i - 1 /\ Cardinality({x \in S : x < s[j]}) = j - 1
    BY <1>1
  <2>2. i - 1 = j - 1
    BY <1>2, <2>1
  <2> QED
    BY <2>2
<1> QED
  BY <1>1, <1>2

LEMMA Halves ==
  ASSUME NEW k \in Nat
  PROVE  /\ \A i \in 1 .. k : /\ 2 * i - 1 \in 1 .. 2 * k /\ 2 * i \in 1 .. 2 * k
                              /\ ((2 * i - 1) + 1) \div 2 = i /\ (2 * i - 1) % 2 = 1
                              /\ (2 * i + 1) \div 2 = i /\ (2 * i) % 2 = 0
         /\ \A j \in 1 .. 2 * k : \E i \in 1 .. k : j = 2 * i - 1 \/ j = 2 * i
<1>1. ASSUME NEW i \in 1 .. k
      PROVE  /\ 2 * i - 1 \in 1 .. 2 * k /\ 2 * i \in 1 .. 2 * k
             /\ ((2 * i - 1) + 1) \div 2 = i /\ (2 * i - 1) % 2 = 1
             /\ (2 * i + 1) \div 2 = i /\ (2 * i) % 2 = 0
  OBVIOUS
<1>2. ASSUME NEW j \in 1 .. 2 * k
      PROVE  \E i \in 1 .. k : j = 2 * i - 1 \/ j = 2 * i
  <2>1. (j + 1) \div 2 \in 1 .. k /\ (j = 2 * ((j + 1) \div 2) - 1 \/ j = 2 * ((j + 1) \div 2))
    OBVIOUS
  <2> QED
    BY <2>1
<1> QED
  BY <1>1, <1>2

LEMMA PipedGood ==
  ASSUME NEW m, NEW l, AreLimits(l), HasFields(m), Typed(m, l), m.state # "zombie",
         NEW k \in Nat, NEW free \in SUBSET l.pipes, NEW pipe \in Lowest(free, k),
         NEW unused \in SUBSET Nat, unused \cap DOMAIN m.fds = {},
         NEW number \in Lowest(unused, 2 * k), m.fds[1].pipe \notin free
  PROVE  LET x == Piped(m, k, pipe, number) IN
         /\ HasFields(x) /\ SameBut(m, x, {"fds", "pipes"}) /\ Typed(x, l)
         /\ Len(x.pipes) = k /\ DOMAIN x.pipes = 1 .. k
         /\ DOMAIN x.fds = DOMAIN m.fds \cup PipeNumbers(x)
         /\ PipeNumbers(x) \cap DOMAIN m.fds = {}
         /\ \A n \in DOMAIN m.fds : x.fds[n] = m.fds[n]
         /\ PairsOK(x.fds, x.pipes)
         /\ \A i \in 1 .. k : x.fds[x.pipes[i][1]].pipe \in free
         /\ \A n \in PipeNumbers(x) : x.fds[n].pipe # 0
<1> DEFINE End_(fd) == LET i == CHOOSE i \in 1 .. 2 * k : number[i] = fd
                       IN  End(pipe[(i + 1) \div 2], IF i % 2 = 1 THEN "r" ELSE "w")
           x == Piped(m, k, pipe, number)
           fds == [fd \in DOMAIN m.fds \cup Range(number) |->
                     IF fd \in DOMAIN m.fds THEN m.fds[fd] ELSE End_(fd)]
           pairs == [i \in 1 .. k |-> << number[2 * i - 1], number[2 * i] >>]
<1>1. HasFields(x) /\ SameBut(m, x, {"fds", "pipes"}) /\ x.pipes = pairs /\ x.fds = fds
  BY DEF HasFields, Fields, Piped, SameBut
<1>2. /\ pipe \in [1 .. k -> free] /\ \A i, j \in 1 .. k : pipe[i] = pipe[j] => i = j
      /\ 2 * k \in Nat
  BY LowestFacts
<1>3. /\ number \in [1 .. 2 * k -> unused]
      /\ \A i, j \in 1 .. 2 * k : number[i] = number[j] => i = j
  BY <1>2, LowestFacts
<1>4. /\ \A i \in 1 .. k : /\ 2 * i - 1 \in 1 .. 2 * k /\ 2 * i \in 1 .. 2 * k
                           /\ ((2 * i - 1) + 1) \div 2 = i /\ (2 * i - 1) % 2 = 1
                           /\ (2 * i + 1) \div 2 = i /\ (2 * i) % 2 = 0
      /\ \A j \in 1 .. 2 * k : \E i \in 1 .. k : j = 2 * i - 1 \/ j = 2 * i
  BY Halves
<1>5. ASSUME NEW j \in 1 .. 2 * k
      PROVE  /\ number[j] \in unused /\ number[j] \notin DOMAIN m.fds
             /\ number[j] \in Range(number)
             /\ End_(number[j]) = End(pipe[(j + 1) \div 2], IF j % 2 = 1 THEN "r" ELSE "w")
  <2>1. number[j] \in unused /\ number[j] \notin DOMAIN m.fds /\ number[j] \in Range(number)
    BY <1>3 DEF Range
  <2>2. (CHOOSE i \in 1 .. 2 * k : number[i] = number[j]) = j
    BY <1>3
  <2> QED
    BY <2>1, <2>2
<1> HIDE DEF End_
<1>6. ASSUME NEW i \in 1 .. k
      PROVE  /\ fds[number[2 * i - 1]] = End(pipe[i], "r") /\ fds[number[2 * i]] = End(pipe[i], "w")
             /\ pairs[i][1] = number[2 * i - 1] /\ pairs[i][2] = number[2 * i]
             /\ number[2 * i - 1] \in unused /\ number[2 * i] \in unused
             /\ number[2 * i - 1] \in DOMAIN fds /\ number[2 * i] \in DOMAIN fds
             /\ number[2 * i - 1] # number[2 * i]
             /\ pipe[i] \in free /\ pipe[i] \in l.pipes /\ pipe[i] # 0
  <2>1. 2 * i - 1 \in 1 .. 2 * k /\ 2 * i \in 1 .. 2 * k /\ 2 * i - 1 # 2 * i
    BY <1>4
  <2>2. /\ number[2 * i - 1] \in unused /\ number[2 * i] \in unused
        /\ number[2 * i - 1] \in Range(number) /\ number[2 * i] \in Range(number)
        /\ number[2 * i - 1] \notin DOMAIN m.fds /\ number[2 * i] \notin DOMAIN m.fds
    BY <1>5, <2>1
  <2>3. End_(number[2 * i - 1]) = End(pipe[i], "r") /\ End_(number[2 * i]) = End(pipe[i], "w")
    <3>1. End_(number[2 * i - 1]) = End(pipe[((2 * i - 1) + 1) \div 2],
                                         IF (2 * i - 1) % 2 = 1 THEN "r" ELSE "w")
      BY <1>5, <2>1
    <3>2. End_(number[2 * i]) = End(pipe[(2 * i + 1) \div 2],
                                     IF (2 * i) % 2 = 1 THEN "r" ELSE "w")
      BY <1>5, <2>1
    <3>3. /\ ((2 * i - 1) + 1) \div 2 = i /\ (2 * i - 1) % 2 = 1
          /\ (2 * i + 1) \div 2 = i /\ (2 * i) % 2 = 0
      BY <1>4
    <3> QED
      BY <3>1, <3>2, <3>3
  <2>4. pipe[i] \in free /\ pipe[i] \in l.pipes /\ pipe[i] # 0
    BY <1>2 DEF AreLimits
  <2>5. number[2 * i - 1] # number[2 * i]
    BY <1>3, <2>1
  <2> QED
    BY <2>2, <2>3, <2>4, <2>5
<1>7. ASSUME NEW n \in DOMAIN fds
      PROVE  n \in DOMAIN m.fds \/ \E i \in 1 .. k : n = pairs[i][1] \/ n = pairs[i][2]
  <2>1. n \in DOMAIN m.fds \/ n \in Range(number)
    OBVIOUS
  <2>2. ASSUME n \in Range(number)
        PROVE  \E i \in 1 .. k : n = pairs[i][1] \/ n = pairs[i][2]
    <3>1. PICK j \in 1 .. 2 * k : n = number[j]
      BY <1>3, <2>2 DEF Range
    <3>2. PICK i \in 1 .. k : j = 2 * i - 1 \/ j = 2 * i
      BY <1>4
    <3> QED
      BY <1>6, <3>1, <3>2
  <2> QED
    BY <2>1, <2>2
<1>8. \A n \in DOMAIN m.fds : n \in DOMAIN fds /\ fds[n] = m.fds[n]
  OBVIOUS
<1>9. /\ DOMAIN pairs = 1 .. k /\ Len(pairs) = k
      /\ PipeNumbers(x) = UNION {{pairs[i][1], pairs[i][2]} : i \in 1 .. k}
  BY <1>1 DEF PipeNumbers
<1>10. fds = [n \in DOMAIN fds |-> fds[n]]
  OBVIOUS
<1>16. ASSUME NEW n \in PipeNumbers(x)
       PROVE  \E i \in 1 .. k : n = pairs[i][1] \/ n = pairs[i][2]
  BY <1>9
<1> HIDE DEF fds, pairs, x
<1>17. \A i \in 1 .. k :
         /\ fds[pairs[i][1]] = End(pipe[i], "r") /\ fds[pairs[i][2]] = End(pipe[i], "w")
         /\ pairs[i][1] \in unused /\ pairs[i][2] \in unused
         /\ pairs[i][1] \in DOMAIN fds /\ pairs[i][2] \in DOMAIN fds
         /\ pairs[i][1] # pairs[i][2]
         /\ pipe[i] \in free /\ pipe[i] \in l.pipes /\ pipe[i] # 0
  BY <1>6
<1>18. \A p, way : End(p, way).pipe = p /\ End(p, way).way = way
  BY DescriptorIs
<1>11. /\ DOMAIN fds = DOMAIN m.fds \cup PipeNumbers(x)
       /\ PipeNumbers(x) \cap DOMAIN m.fds = {}
  <2>1. \A n \in PipeNumbers(x) : n \in DOMAIN fds /\ n \notin DOMAIN m.fds
    BY <1>16, <1>17
  <2>2. \A n \in DOMAIN fds : n \in DOMAIN m.fds \/ n \in PipeNumbers(x)
    BY <1>7, <1>9
  <2> QED
    BY <1>8, <2>1, <2>2
<1>12. \A n \in PipeNumbers(x) : fds[n] \in Descriptor(l) /\ fds[n].pipe # 0 /\ n \in Nat
  <2>1. ASSUME NEW i \in 1 .. k, NEW n, n = pairs[i][1] \/ n = pairs[i][2]
        PROVE  fds[n] \in Descriptor(l) /\ fds[n].pipe # 0 /\ n \in Nat
    <3>1. n \in Nat /\ pipe[i] \in l.pipes /\ pipe[i] # 0
      BY <1>17, <2>1
    <3>2. fds[n] = End(pipe[i], "r") \/ fds[n] = End(pipe[i], "w")
      BY <1>17, <2>1
    <3>3. End(pipe[i], "r") \in Descriptor(l) /\ End(pipe[i], "w") \in Descriptor(l)
      BY <3>1, DescriptorIs
    <3> QED
      BY <1>18, <3>1, <3>2, <3>3
  <2> QED
    BY <1>16, <2>1
<1>13. Typed(x, l)
  <2>1. fds \in [DOMAIN fds -> Descriptor(l)] /\ DOMAIN fds \subseteq Nat
    <3>1. \A n \in DOMAIN m.fds : m.fds[n] \in Descriptor(l) /\ n \in Nat
      BY DEF Typed
    <3> QED
      BY <1>8, <1>10, <1>11, <1>12, <3>1
  <2>2. pairs \in Seq(Nat \X Nat)
    <3>1. \A i \in 1 .. k : pairs[i] \in Nat \X Nat
      BY <1>6 DEF pairs
    <3>2. pairs = [i \in 1 .. k |-> pairs[i]]
      BY DEF pairs
    <3> QED
      BY <3>1, <3>2
  <2>3. 0 .. 2 \subseteq DOMAIN x.fds
    BY <1>1, <1>8 DEF Typed
  <2> QED
    BY <1>1, <2>1, <2>2, <2>3 DEF Typed, SameBut, Fields
<1>14. PairsOK(fds, pairs)
  <2>1. ASSUME NEW i \in 1 .. k
        PROVE  LET r == pairs[i][1]
                   w == pairs[i][2]
               IN  /\ r \in DOMAIN fds /\ w \in DOMAIN fds /\ r > 2 /\ w > 2 /\ r # w
                   /\ fds[r].way = "r" /\ fds[w].way = "w"
                   /\ fds[r].pipe # 0 /\ fds[w].pipe = fds[r].pipe
                   /\ fds[1].pipe # fds[r].pipe
    <3>1. 0 .. 2 \subseteq DOMAIN m.fds
      BY DEF Typed
    <3>2. pairs[i][1] > 2 /\ pairs[i][2] > 2
      <4>1. /\ pairs[i][1] \in Nat /\ pairs[i][1] \notin 0 .. 2
            /\ pairs[i][2] \in Nat /\ pairs[i][2] \notin 0 .. 2
        BY <1>17, <3>1
      <4> QED
        BY <4>1
    <3>3. fds[1].pipe = m.fds[1].pipe
      BY <1>8, <3>1
    <3>4. m.fds[1].pipe # pipe[i]
      BY <1>17
    <3> QED
      BY <1>17, <1>18, <3>2, <3>3, <3>4
  <2>2. ASSUME NEW i \in 1 .. k, NEW j \in 1 .. k, i # j
        PROVE  fds[pairs[i][1]].pipe # fds[pairs[j][1]].pipe
    BY <1>2, <1>17, <1>18, <2>2
  <2> QED
    BY <1>9, <2>1, <2>2 DEF PairsOK
<1>15. \A i \in 1 .. k : fds[pairs[i][1]].pipe \in free
  BY <1>17, <1>18
<1> QED
  BY <1>1, <1>8, <1>9, <1>11, <1>12, <1>13, <1>14, <1>15 DEF x

-----------------------------------------------------------------------------
(* Positions in a chain.                                                   *)

LEMMA GoodFacts ==
  ASSUME NEW m, NEW l, NEW chain, Good(m, l, chain)
  PROVE  /\ HasFields(m) /\ Typed(m, l) /\ PositionOK(m, chain)
         /\ m.state \notin {"ending", "zombie"} => DescriptorsOK(m)
BY ProcessIs DEF Good

LEMMA StepFacts ==
  ASSUME NEW chain, IsChain(chain), NEW tag \in DOMAIN chain, chain[tag].op = "step"
  PROVE  LET e == chain[tag] IN
         /\ GoesOn(chain, e.next) /\ e.pipes \in Nat /\ Len(e.calls) \in Nat
         /\ DOMAIN e.calls = 1 .. Len(e.calls) /\ ConnectsOnce(e.calls)
         /\ \A i \in DOMAIN e.calls : CallOK(e.calls[i], e.pipes)
BY DEF IsChain, EntryOK

LEMMA ExpandFacts ==
  ASSUME NEW chain, IsChain(chain), NEW tag \in DOMAIN chain, chain[tag].op = "expand"
  PROVE  LET e == chain[tag] IN
         /\ e.heads \in Seq(Nat) /\ Len(e.heads) \in Nat \ {0}
         /\ DOMAIN e.heads = 1 .. Len(e.heads)
         /\ \A i \in DOMAIN e.heads : GoesOn(chain, e.heads[i])
         /\ e.next \in DOMAIN chain /\ chain[e.next].op = "splice"
         /\ chain[e.next].n = Len(e.heads)
<1>1. /\ chain[tag].heads # << >> /\ chain[tag].heads \in Seq(Nat)
      /\ \A i \in DOMAIN chain[tag].heads : GoesOn(chain, chain[tag].heads[i])
      /\ chain[tag].next \in DOMAIN chain /\ chain[chain[tag].next].op = "splice"
      /\ chain[chain[tag].next].n = Len(chain[tag].heads)
  BY DEF IsChain, EntryOK
<1> QED
  BY <1>1

LEMMA SpliceFacts ==
  ASSUME NEW chain, IsChain(chain), NEW tag \in DOMAIN chain, chain[tag].op = "splice"
  PROVE  LET e == chain[tag] IN
         /\ e.n \in Nat \ {0} /\ e.next \in DOMAIN chain /\ chain[e.next].op = "step"
         /\ UsesValues(chain[e.next], e.n)
BY DEF IsChain, EntryOK

LEMMA UsesNone ==
  ASSUME NEW e, NEW n \in Nat, UsesValues(e, 0)
  PROVE  UsesValues(e, n)
BY DEF UsesValues

(* Descriptors that a process closes.                                      *)
LEMMA ClosedTyped ==
  ASSUME NEW m, NEW l, Typed(m, l), NEW numbers, numbers \cap (0 .. 2) = {},
         m.state # "zombie"
  PROVE  LET fds == Closed(m.fds, numbers) IN
         /\ fds \in [DOMAIN fds -> Descriptor(l)] /\ DOMAIN fds \subseteq Nat
         /\ 0 .. 2 \subseteq DOMAIN fds /\ DOMAIN fds = DOMAIN m.fds \ numbers
         /\ \A n \in DOMAIN fds : fds[n] = m.fds[n]
<1> DEFINE fds == Closed(m.fds, numbers)
<1>1. /\ DOMAIN fds = DOMAIN m.fds \ numbers /\ \A n \in DOMAIN fds : fds[n] = m.fds[n]
      /\ fds = [n \in DOMAIN fds |-> fds[n]]
  BY DEF Closed
<1> HIDE DEF fds
<1>2. /\ \A n \in DOMAIN m.fds : m.fds[n] \in Descriptor(l)
      /\ DOMAIN m.fds \subseteq Nat /\ 0 .. 2 \subseteq DOMAIN m.fds
  BY DEF Typed
<1>3. fds \in [DOMAIN fds -> Descriptor(l)]
  BY <1>1, <1>2
<1> QED
  BY <1>1, <1>2, <1>3 DEF fds

LEMMA ClearGood ==
  ASSUME NEW m, NEW l, HasFields(m), Typed(m, l), m.state # "zombie",
         \A i \in DOMAIN m.pipes : m.pipes[i][1] > 2 /\ m.pipes[i][2] > 2
  PROVE  LET k == PipeClearMany(m) IN
         /\ HasFields(k) /\ SameBut(m, k, {"fds", "pipes"}) /\ Typed(k, l)
         /\ k.pipes = << >> /\ PipeNumbers(k) = {}
         /\ DOMAIN k.fds = DOMAIN m.fds \ PipeNumbers(m)
         /\ 0 .. 2 \subseteq DOMAIN k.fds
         /\ \A n \in DOMAIN k.fds : k.fds[n] = m.fds[n]
<1> DEFINE k == PipeClearMany(m)
           numbers == UNION {Range(m.pipes[i]) : i \in DOMAIN m.pipes}
<1>1. /\ HasFields(k) /\ SameBut(m, k, {"fds", "pipes"}) /\ k.pipes = << >>
      /\ k.fds = Closed(m.fds, numbers)
  BY ClearFields
<1>2. numbers = PipeNumbers(m)
  <2>1. ASSUME NEW i \in DOMAIN m.pipes
        PROVE  Range(m.pipes[i]) = {m.pipes[i][1], m.pipes[i][2]}
    <3>1. m.pipes[i] \in Nat \X Nat
      BY DEF Typed
    <3> QED
      BY <3>1 DEF Range
  <2> QED
    BY <2>1 DEF PipeNumbers
<1> HIDE DEF k, numbers
<1>3. numbers \cap (0 .. 2) = {}
  <2>1. ASSUME NEW n \in PipeNumbers(m)
        PROVE  n \notin 0 .. 2
    <3>1. PICK i \in DOMAIN m.pipes : n = m.pipes[i][1] \/ n = m.pipes[i][2]
      BY DEF PipeNumbers
    <3>2. m.pipes[i][1] > 2 /\ m.pipes[i][2] > 2
      OBVIOUS
    <3>3. m.pipes[i] \in Nat \X Nat
      BY DEF Typed
    <3> QED
      BY <3>1, <3>2, <3>3
  <2> QED
    BY <1>2, <2>1
<1>4. /\ k.fds \in [DOMAIN k.fds -> Descriptor(l)] /\ DOMAIN k.fds \subseteq Nat
      /\ 0 .. 2 \subseteq DOMAIN k.fds /\ DOMAIN k.fds = DOMAIN m.fds \ numbers
      /\ \A n \in DOMAIN k.fds : k.fds[n] = m.fds[n]
  <2> DEFINE fds == Closed(m.fds, numbers)
  <2>1. /\ fds \in [DOMAIN fds -> Descriptor(l)] /\ DOMAIN fds \subseteq Nat
        /\ 0 .. 2 \subseteq DOMAIN fds /\ DOMAIN fds = DOMAIN m.fds \ numbers
        /\ \A n \in DOMAIN fds : fds[n] = m.fds[n]
    BY <1>3, ClosedTyped
  <2> HIDE DEF fds
  <2>2. k.fds = fds
    BY <1>1 DEF fds
  <2> QED
    BY <2>1, <2>2
<1>5. Typed(k, l)
  BY <1>1, <1>4, EmptySeqs DEF Typed, SameBut, Fields
<1>6. PipeNumbers(k) = {}
  BY <1>1, EmptySeqs DEF PipeNumbers
<1> QED
  BY <1>1, <1>2, <1>4, <1>5, <1>6 DEF k

LEMMA NoPairs ==
  ASSUME NEW m, m.pipes = << >>
  PROVE  PipeNumbers(m) = {} /\ \A fds : PairsOK(fds, m.pipes)
BY EmptySeqs DEF PipeNumbers, PairsOK
LEMMA NoChannels ==
  ASSUME NEW m, m.channels = << >>, m.made \in Nat
  PROVE  Unread(m) = {} /\ ChannelNumbers(m) = {} /\ ChannelsOK(m)
<1>1. Unread(m) = {}
  BY EmptySeqs DEF Unread
<1> QED
  BY <1>1 DEF ChannelNumbers, ChannelsOK

(* A shell that has come to an entry where it has nothing to read.         *)
LEMMA ShellGood ==
  ASSUME NEW k, NEW l, NEW chain, HasFields(k), Typed(k, l), k.state = "shell",
         k.entry \in DOMAIN chain, chain[k.entry].op # "splice",
         chain[k.entry].op = "step" => UsesValues(chain[k.entry], Len(k.values)),
         k.channels = << >>, k.made = 0, k.pipes = << >>,
         k.fds[0].way = "r", k.fds[0].pipe = 0, k.fds[1].way = "w",
         k.fds[1].pipe # 0 \/ k.fds[1].file = Terminal,
         \A n \in DOMAIN k.fds \ {0, 1} : k.fds[n].pipe # 0 => k.fds[n].way = "r"
  PROVE  Good(k, l, chain) /\ ChannelNumbers(k) = {} /\ PipeNumbers(k) = {}
<1>1. PositionOK(k, chain)
  BY DEF PositionOK, AtWork
<1>2. ChannelsOK(k) /\ ChannelNumbers(k) = {} /\ PipeNumbers(k) = {} /\ PairsOK(k.fds, k.pipes)
  <2>1. k.made \in Nat
    OBVIOUS
  <2> QED
    BY <2>1, NoChannels, NoPairs
<1>3. DescriptorsOK(k)
  BY <1>2 DEF DescriptorsOK, AtWork
<1> QED
  BY <1>1, <1>2, <1>3, ProcessIs DEF Good

LEMMA ArrivesValues ==
  ASSUME NEW k, NEW l, NEW chain, Typed(k, l), GoesOn(chain, k.entry)
  PROVE  /\ k.entry \in DOMAIN chain /\ chain[k.entry].op # "splice"
         /\ chain[k.entry].op = "step" => UsesValues(chain[k.entry], Len(k.values))
<1>1. Len(k.values) \in Nat
  BY DEF Typed
<1> QED
  BY <1>1, UsesNone DEF GoesOn

-----------------------------------------------------------------------------
(* One process, one step.                                                  *)

(* j_pipe_init_many has made all the pipes of the step.                    *)
Forking(x) == [x EXCEPT !.state = "forking", !.made = 0]
LEMMA OpenGood ==
  ASSUME NEW m, NEW l, NEW chain, AreLimits(l), IsChain(chain), Good(m, l, chain),
         m.state = "shell", chain[m.entry].op = "step",
         NEW x, HasFields(x), SameBut(m, x, {"fds", "pipes"}), Typed(x, l),
         Len(x.pipes) = chain[m.entry].pipes,
         DOMAIN x.fds = DOMAIN m.fds \cup PipeNumbers(x),
         \A n \in DOMAIN m.fds : x.fds[n] = m.fds[n],
         PairsOK(x.fds, x.pipes)
  PROVE  LET k == Forking(x) IN
         /\ Good(k, l, chain) /\ k.state = "forking" /\ k.parent = m.parent
         /\ k.waitq = m.waitq /\ k.fds = x.fds /\ k.pipes = x.pipes /\ k.entry = m.entry
         /\ k.made = 0 /\ k.channels = << >>
<1> DEFINE k == Forking(x)
<1>1. /\ HasFields(k) /\ SameBut(x, k, {"state", "made"}) /\ k.state = "forking" /\ k.made = 0
  BY DEF HasFields, Fields, SameBut, Forking
<1> HIDE DEF k
<1>2. /\ k.parent = m.parent /\ k.waitq = m.waitq /\ k.fds = x.fds /\ k.pipes = x.pipes
      /\ k.entry = m.entry /\ k.channels = m.channels /\ k.values = m.values
      /\ k.todo = m.todo /\ k.eof = m.eof /\ k.call = m.call
  BY <1>1 DEF SameBut, Fields
<1>3. Typed(m, l) /\ PositionOK(m, chain) /\ DescriptorsOK(m)
  BY GoodFacts
<1>4. /\ m.entry \in DOMAIN chain /\ UsesValues(chain[m.entry], Len(m.values))
      /\ m.channels = << >> /\ m.pipes = << >>
  BY <1>3 DEF PositionOK, AtWork
<1>5. Typed(k, l)
  <2>1. Typed(x, l)
    OBVIOUS
  <2>2. /\ x.fds \in [DOMAIN x.fds -> Descriptor(l)] /\ DOMAIN x.fds \subseteq Nat
        /\ x.pipes \in Seq(Nat \X Nat) /\ 0 .. 2 \subseteq DOMAIN x.fds
    <3>1. x.state = "shell"
      BY DEF SameBut, Fields
    <3> QED
      BY <3>1 DEF Typed
  <2>3. k.state \in States /\ k.made \in Nat
    <3>1. k.state = "forking" /\ k.made = 0
      BY <1>1
    <3> QED
      BY <3>1 DEF States
  <2> QED
    BY <1>2, <1>3, <2>2, <2>3 DEF Typed
<1>6. PositionOK(k, chain)
  <2>1. /\ k.entry \in DOMAIN chain /\ chain[k.entry].op = "step"
        /\ UsesValues(chain[k.entry], Len(k.values)) /\ k.channels = << >>
        /\ Len(k.pipes) = chain[k.entry].pipes
    BY <1>2, <1>4
  <2>2. 0 <= Len(chain[k.entry].calls)
    BY <2>1, StepFacts
  <2> QED
    BY <1>1, <2>1, <2>2 DEF PositionOK, AtWork
<1>7. DescriptorsOK(k)
  <2>1. /\ m.fds[0].way = "r" /\ m.fds[1].way = "w" /\ m.fds[0].pipe = 0
        /\ (m.fds[1].pipe # 0 \/ m.fds[1].file = Terminal)
        /\ \A n \in DOMAIN m.fds \ {0, 1} : m.fds[n].pipe # 0 => m.fds[n].way = "r"
    BY <1>3, <1>4, NoPairs DEF DescriptorsOK, AtWork
  <2>2. 0 \in DOMAIN m.fds /\ 1 \in DOMAIN m.fds
    BY <1>3 DEF Typed
  <2>3. k.fds[0] = m.fds[0] /\ k.fds[1] = m.fds[1]
    BY <1>2, <2>2
  <2>4. PipeNumbers(k) = PipeNumbers(x)
    BY <1>2 DEF PipeNumbers
  <2>5. \A n \in DOMAIN k.fds \ ({0, 1} \cup PipeNumbers(k)) :
          k.fds[n].pipe # 0 => k.fds[n].way = "r"
    BY <1>2, <2>1, <2>4
  <2>6. ChannelsOK(k)
    BY <1>1, <1>2, <1>4, NoChannels
  <2> QED
    BY <1>1, <1>2, <2>1, <2>3, <2>5, <2>6 DEF DescriptorsOK
<1>8. Good(k, l, chain)
  BY <1>1, <1>5, <1>6, <1>7, ProcessIs DEF Good
<1> QED
  BY <1>1, <1>2, <1>4, <1>8 DEF k

(* fork () in a step: the child of an invocation, and the shell with one   *)
(* more to wait for.                                                       *)
InvokedBy(m, p, call) ==
  [[m EXCEPT !.parent = p, !.waitq = << >>] EXCEPT !.state = "child", !.call = << call >>]

LEMMA InvokedGood ==
  ASSUME NEW m, NEW l, NEW chain, IsChain(chain), Good(m, l, chain),
         m.state = "forking", m.made < Len(chain[m.entry].calls), NEW p \in l.pids
  PROVE  LET call == chain[m.entry].calls[m.made + 1]
             k == InvokedBy(m, p, call)
         IN  /\ Good(k, l, chain) /\ k.parent = p /\ k.state = "child" /\ k.fds = m.fds
             /\ k.pipes = m.pipes /\ k.call = << call >> /\ k.waitq = << >>
             /\ m.made + 1 \in DOMAIN chain[m.entry].calls
<1> DEFINE call == chain[m.entry].calls[m.made + 1]
           k == InvokedBy(m, p, call)
<1>1. HasFields(m) /\ Typed(m, l) /\ PositionOK(m, chain) /\ DescriptorsOK(m)
  BY GoodFacts
<1>2. /\ HasFields(k) /\ SameBut(m, k, {"parent", "waitq", "state", "call"}) /\ k.parent = p
      /\ k.waitq = << >> /\ k.state = "child" /\ k.call = << call >>
  <2> HIDE DEF call
  <2> QED
    BY <1>1 DEF HasFields, Fields, SameBut, InvokedBy
<1>3. /\ m.entry \in DOMAIN chain /\ chain[m.entry].op = "step" /\ m.channels = << >>
      /\ UsesValues(chain[m.entry], Len(m.values)) /\ Len(m.pipes) = chain[m.entry].pipes
  BY <1>1 DEF PositionOK, AtWork
<1>4. m.made + 1 \in DOMAIN chain[m.entry].calls
  <2>1. /\ DOMAIN chain[m.entry].calls = 1 .. Len(chain[m.entry].calls)
        /\ Len(chain[m.entry].calls) \in Nat /\ m.made \in Nat
    BY <1>1, <1>3, StepFacts DEF Typed
  <2> QED
    BY <2>1
<1>5. \E i \in DOMAIN chain[m.entry].calls : k.call = << chain[m.entry].calls[i] >>
  BY <1>2, <1>4
<1> HIDE DEF k, call
<1>6. /\ k.fds = m.fds /\ k.pipes = m.pipes /\ k.entry = m.entry /\ k.channels = m.channels
      /\ k.values = m.values /\ k.todo = m.todo /\ k.eof = m.eof /\ k.made = m.made
  BY <1>2 DEF SameBut, Fields
<1>7. Typed(k, l)
  <2>1. k.waitq \in Seq(l.pids) /\ k.state \in States /\ k.parent \in l.pids
    BY <1>2, EmptySeqs DEF States
  <2> QED
    BY <1>1, <1>2, <1>6, <2>1 DEF Typed
<1>8. PositionOK(k, chain)
  BY <1>2, <1>3, <1>5, <1>6 DEF PositionOK, AtWork
<1>9. DescriptorsOK(k)
  <2>1. ChannelsOK(k) /\ PipeNumbers(k) = PipeNumbers(m)
    BY <1>1, <1>3, <1>6, NoChannels DEF PipeNumbers, Typed
  <2> QED
    BY <1>1, <1>2, <1>6, <2>1 DEF DescriptorsOK, AtWork
<1>10. Good(k, l, chain)
  BY <1>2, <1>7, <1>8, <1>9, ProcessIs DEF Good
<1> QED
  BY <1>2, <1>4, <1>6, <1>10 DEF k, call

LEMMA ForkedGood ==
  ASSUME NEW m, NEW l, NEW chain, IsChain(chain), Good(m, l, chain),
         m.state = "forking", m.made < Len(chain[m.entry].calls), NEW pid \in l.pids
  PROVE  LET k == [m EXCEPT !.waitq = Append(@, pid), !.made = @ + 1] IN
         /\ Good(k, l, chain) /\ SameBut(m, k, {"waitq", "made"})
         /\ k.waitq = Append(m.waitq, pid) /\ k.made = m.made + 1
         /\ ChannelNumbers(k) = ChannelNumbers(m)
<1> DEFINE k == [m EXCEPT !.waitq = Append(@, pid), !.made = @ + 1]
<1>1. HasFields(m) /\ Typed(m, l) /\ PositionOK(m, chain) /\ DescriptorsOK(m)
  BY GoodFacts
<1>2. /\ HasFields(k) /\ SameBut(m, k, {"waitq", "made"})
      /\ k.waitq = Append(m.waitq, pid) /\ k.made = m.made + 1
  BY <1>1 DEF HasFields, Fields, SameBut
<1> HIDE DEF k
<1>3. /\ k.parent = m.parent /\ k.state = m.state /\ k.call = m.call
      /\ k.fds = m.fds /\ k.pipes = m.pipes /\ k.entry = m.entry /\ k.channels = m.channels
      /\ k.values = m.values /\ k.todo = m.todo /\ k.eof = m.eof
  BY <1>2 DEF SameBut, Fields
<1>4. k.made \in Nat /\ k.waitq \in Seq(l.pids)
  <2>1. m.made \in Nat /\ m.waitq \in Seq(l.pids)
    BY <1>1 DEF Typed
  <2>2. k.waitq \in Seq(l.pids)
    BY <1>2, <2>1, AppendSeq, ZenonT(30)
  <2> QED
    BY <1>2, <2>1, <2>2
<1>5. Typed(k, l)
  BY <1>1, <1>3, <1>4 DEF Typed
<1>6. /\ m.entry \in DOMAIN chain /\ chain[m.entry].op = "step" /\ m.channels = << >>
      /\ UsesValues(chain[m.entry], Len(m.values)) /\ Len(m.pipes) = chain[m.entry].pipes
  BY <1>1 DEF PositionOK, AtWork
<1>7. k.made <= Len(chain[k.entry].calls)
  <2>1. Len(chain[m.entry].calls) \in Nat /\ m.made \in Nat
    BY <1>1, <1>6, StepFacts DEF Typed
  <2> QED
    BY <1>2, <1>3, <2>1
<1>8. PositionOK(k, chain)
  BY <1>3, <1>6, <1>7 DEF PositionOK, AtWork
<1>9. /\ ChannelsOK(k) /\ PipeNumbers(k) = PipeNumbers(m)
      /\ ChannelNumbers(k) = {} /\ ChannelNumbers(m) = {}
  <2>1. m.made \in Nat
    BY <1>1 DEF Typed
  <2> QED
    BY <1>3, <1>4, <1>6, <2>1, NoChannels DEF PipeNumbers
<1>10. DescriptorsOK(k)
  BY <1>1, <1>3, <1>9 DEF DescriptorsOK, AtWork
<1>11. Good(k, l, chain)
  BY <1>2, <1>5, <1>8, <1>10, ProcessIs DEF Good
<1> QED
  BY <1>2, <1>9, <1>11 DEF k

(* All invocations made, the shell closes the pipes and goes on.           *)
Resumed(m, next) == [Goes(PipeClearMany(m), next) EXCEPT !.state = "shell"]

LEMMA CloseGood ==
  ASSUME NEW m, NEW l, NEW chain, IsChain(chain), Good(m, l, chain), m.state = "forking"
  PROVE  LET k == Resumed(m, chain[m.entry].next) IN
         /\ Good(k, l, chain) /\ k.parent = m.parent /\ k.state = "shell" /\ k.waitq = m.waitq
         /\ k.pipes = << >> /\ ChannelNumbers(k) = {} /\ PipeNumbers(k) = {}
         /\ ChannelNumbers(m) = {} /\ DOMAIN k.fds = DOMAIN m.fds \ PipeNumbers(m)
         /\ \A n \in DOMAIN k.fds : k.fds[n] = m.fds[n]
<1> DEFINE c == PipeClearMany(m)
           next == chain[m.entry].next
           g == Goes(c, next)
           k == Resumed(m, next)
<1>1. HasFields(m) /\ Typed(m, l) /\ PositionOK(m, chain) /\ DescriptorsOK(m)
  BY GoodFacts
<1>2. \A i \in DOMAIN m.pipes : m.pipes[i][1] > 2 /\ m.pipes[i][2] > 2
  BY <1>1 DEF DescriptorsOK, PairsOK
<1>3. /\ HasFields(c) /\ SameBut(m, c, {"fds", "pipes"}) /\ Typed(c, l)
      /\ c.pipes = << >> /\ DOMAIN c.fds = DOMAIN m.fds \ PipeNumbers(m)
      /\ 0 .. 2 \subseteq DOMAIN c.fds /\ \A n \in DOMAIN c.fds : c.fds[n] = m.fds[n]
  BY <1>1, <1>2, ClearGood
<1> HIDE DEF c
<1>4. /\ HasFields(g) /\ SameBut(c, g, {"entry", "made"}) /\ g.entry = next /\ g.made = 0
  BY <1>3, GoesFields
<1> HIDE DEF g
<1>5. HasFields(k) /\ SameBut(g, k, {"state"}) /\ k.state = "shell"
  BY <1>4 DEF HasFields, Fields, SameBut, Resumed, g, c
<1> HIDE DEF k
<1>6. /\ k.parent = m.parent /\ k.fds = c.fds /\ k.entry = next /\ k.waitq = m.waitq
      /\ k.made = 0 /\ k.pipes = << >> /\ k.channels = m.channels /\ k.values = m.values
      /\ k.todo = m.todo /\ k.eof = m.eof
  BY <1>3, <1>4, <1>5 DEF SameBut, Fields
<1>7. /\ m.entry \in DOMAIN chain /\ chain[m.entry].op = "step" /\ m.channels = << >>
  BY <1>1 DEF PositionOK, AtWork
<1>8. GoesOn(chain, next) /\ next \in Nat
  BY <1>7, StepFacts DEF GoesOn, IsChain
<1>9. Typed(k, l)
  <2>1. k.made \in Nat /\ k.state \in States /\ k.pipes \in Seq(Nat \X Nat)
    BY <1>5, <1>6, EmptySeqs DEF States
  <2> QED
    BY <1>1, <1>3, <1>6, <1>8, <2>1 DEF Typed, SameBut, Fields
<1>10. /\ m.fds[0].way = "r" /\ m.fds[0].pipe = 0 /\ m.fds[1].way = "w"
       /\ (m.fds[1].pipe # 0 \/ m.fds[1].file = Terminal)
       /\ \A n \in DOMAIN m.fds \ ({0, 1} \cup PipeNumbers(m)) :
            m.fds[n].pipe # 0 => m.fds[n].way = "r"
  BY <1>1 DEF DescriptorsOK, AtWork
<1>11. k.fds[0] = m.fds[0] /\ k.fds[1] = m.fds[1]
  BY <1>3, <1>6
<1>12. \A n \in DOMAIN k.fds \ {0, 1} : k.fds[n].pipe # 0 => k.fds[n].way = "r"
  BY <1>3, <1>6, <1>10
<1>13. /\ k.entry \in DOMAIN chain /\ chain[k.entry].op # "splice"
       /\ chain[k.entry].op = "step" => UsesValues(chain[k.entry], Len(k.values))
  BY <1>6, <1>8, <1>9, ArrivesValues
<1>14. Good(k, l, chain) /\ ChannelNumbers(k) = {} /\ PipeNumbers(k) = {}
  BY <1>5, <1>6, <1>7, <1>9, <1>10, <1>11, <1>12, <1>13, ShellGood, ZenonT(30)
<1>15. ChannelNumbers(m) = {}
  BY <1>1, <1>7, NoChannels DEF Typed
<1> QED
  BY <1>3, <1>5, <1>6, <1>14, <1>15 DEF k, g, c

(* wait () for the oldest child.                                           *)
LEMMA ReapedGood ==
  ASSUME NEW m, NEW l, NEW chain, Good(m, l, chain), m.state = "shell", m.waitq # << >>
  PROVE  LET k == [m EXCEPT !.waitq = Tail(@)] IN
         /\ Good(k, l, chain) /\ SameBut(m, k, {"waitq"}) /\ k.waitq = Tail(m.waitq)
         /\ ChannelNumbers(k) = ChannelNumbers(m) /\ PipeNumbers(k) = PipeNumbers(m)
<1> DEFINE k == [m EXCEPT !.waitq = Tail(@)]
<1>1. HasFields(m) /\ Typed(m, l) /\ PositionOK(m, chain) /\ DescriptorsOK(m)
  BY GoodFacts
<1>2. HasFields(k) /\ SameBut(m, k, {"waitq"}) /\ k.waitq = Tail(m.waitq)
  BY <1>1 DEF HasFields, Fields, SameBut
<1> HIDE DEF k
<1>3. /\ k.parent = m.parent /\ k.state = m.state /\ k.call = m.call /\ k.made = m.made
      /\ k.fds = m.fds /\ k.pipes = m.pipes /\ k.entry = m.entry /\ k.channels = m.channels
      /\ k.values = m.values /\ k.todo = m.todo /\ k.eof = m.eof
  BY <1>2 DEF SameBut, Fields
<1>4. Typed(k, l)
  <2>1. m.waitq \in Seq(l.pids)
    BY <1>1 DEF Typed
  <2>2. k.waitq \in Seq(l.pids)
    BY <1>2, <2>1, TailSeq
  <2> QED
    BY <1>1, <1>3, <2>2 DEF Typed
<1>5. PositionOK(k, chain)
  BY <1>1, <1>3 DEF PositionOK, AtWork
<1>6. /\ Unread(k) = Unread(m) /\ ChannelNumbers(k) = ChannelNumbers(m)
      /\ PipeNumbers(k) = PipeNumbers(m)
  BY <1>3 DEF ChannelNumbers, Unread, PipeNumbers
<1>7. DescriptorsOK(k)
  BY <1>1, <1>3, <1>6 DEF DescriptorsOK, ChannelsOK
<1>8. Good(k, l, chain)
  BY <1>2, <1>4, <1>5, <1>7, ProcessIs DEF Good
<1> QED
  BY <1>2, <1>6, <1>8 DEF k

(* j_step_adjust_io: one descriptor, from a file or a pipe of the step.    *)
AdjustedTo(m, k, r, fd, way) ==
  /\ HasFields(k) /\ SameBut(m, k, {"fds"})
  /\ DOMAIN k.fds = DOMAIN m.fds /\ \A n \in DOMAIN m.fds \ {fd} : k.fds[n] = m.fds[n]
  /\ r = << >> => k.fds = m.fds
  /\ Piping(r) => /\ r[1].number \in DOMAIN m.pipes
                  /\ k.fds[fd] = m.fds[m.pipes[r[1].number][fd + 1]]
  /\ r # << >> /\ ~Piping(r) =>
       k.fds[fd].pipe = 0 /\ k.fds[fd].file = r[1].file.value /\ k.fds[fd].way = way

LEMMA AdjustedGood ==
  ASSUME NEW m, NEW l, HasFields(m), Typed(m, l), m.state # "zombie", PairsOK(m.fds, m.pipes),
         NEW fd \in {0, 1}, NEW r, NEW ops, RedirectOK(r, ops, Len(m.pipes)),
         NEW way, way = IF fd = 0 THEN "r" ELSE "w"
  PROVE  Typed(Adjusted(m, r, fd), l) /\ AdjustedTo(m, Adjusted(m, r, fd), r, fd, way)
<1> DEFINE k == Adjusted(m, r, fd)
<1>1. /\ \A n \in DOMAIN m.fds : m.fds[n] \in Descriptor(l)
      /\ DOMAIN m.fds \subseteq Nat /\ 0 .. 2 \subseteq DOMAIN m.fds
      /\ DOMAIN m.pipes = 1 .. Len(m.pipes)
      /\ m.fds = [n \in DOMAIN m.fds |-> m.fds[n]]
  BY DEF Typed
<1>2. fd \in DOMAIN m.fds
  BY <1>1
<1>3. CASE r = << >>
  <2>1. k = m
    BY <1>3 DEF Adjusted
  <2> HIDE DEF k
  <2>2. ~Piping(r)
    BY <1>3 DEF Piping
  <2> QED
    BY <1>3, <2>1, <2>2 DEF SameBut, AdjustedTo, k
<1>4. CASE Piping(r)
  <2> DEFINE n == r[1].number
             from == m.pipes[n][fd + 1]
             fds == Put(m.fds, fd, m.fds[from])
  <2>1. r # << >> /\ r[1].op = "|" /\ n \in DOMAIN m.pipes
    BY <1>1, <1>4 DEF Piping, RedirectOK
  <2>2. from \in DOMAIN m.fds
    BY <2>1 DEF PairsOK
  <2>3. /\ DOMAIN fds = DOMAIN m.fds \cup {fd} /\ fds[fd] = m.fds[from]
        /\ \A y \in DOMAIN m.fds \ {fd} : fds[y] = m.fds[y]
        /\ fds = [y \in DOMAIN fds |-> fds[y]]
    <3> HIDE DEF from
    <3> QED
      BY DEF Put
  <2>4. HasFields(k) /\ SameBut(m, k, {"fds"}) /\ k.fds = fds
    <3>1. k = [m EXCEPT !.fds = Dup2(@, from, fd)]
      BY <2>1 DEF Adjusted
    <3> HIDE DEF k, from
    <3> QED
      BY <3>1 DEF HasFields, Fields, SameBut, Dup2
  <2> HIDE DEF k, fds, from
  <2>5. DOMAIN fds = DOMAIN m.fds
    BY <1>2, <2>3
  <2>6. \A y \in DOMAIN fds : fds[y] \in Descriptor(l)
    BY <1>1, <2>2, <2>3
  <2>7. fds \in [DOMAIN fds -> Descriptor(l)]
    BY <2>3, <2>6
  <2>8. Typed(k, l)
    BY <1>1, <2>4, <2>5, <2>7 DEF Typed, SameBut, Fields
  <2>9. n \in DOMAIN m.pipes /\ k.fds[fd] = m.fds[m.pipes[n][fd + 1]]
    BY <2>1, <2>3, <2>4 DEF from
  <2> QED
    BY <1>4, <2>1, <2>3, <2>4, <2>5, <2>8, <2>9 DEF AdjustedTo, k
<1>5. CASE r # << >> /\ ~Piping(r)
  <2> DEFINE name == r[1].file.value
             f == File(name, way)
             fds == [m.fds EXCEPT ![fd] = f]
  <2>1. r # << >> /\ r[1].op # "|" /\ name \in STRING
    BY <1>5 DEF Piping, RedirectOK
  <2>2. f \in Descriptor(l) /\ f.pipe = 0 /\ f.file = name /\ f.way = way
    <3>1. way \in {"r", "w"} /\ name \in STRING
      BY <2>1
    <3> HIDE DEF name
    <3> QED
      BY <3>1 DEF File, Descriptor
  <2>3. HasFields(k) /\ SameBut(m, k, {"fds"}) /\ k.fds = fds
    <3>1. k = [m EXCEPT !.fds[fd] = f]
      <4>1. k = [m EXCEPT !.fds[fd] = File(name, IF fd = 0 THEN "r" ELSE "w")]
        BY <2>1 DEF Adjusted
      <4> QED
        BY <4>1
    <3> HIDE DEF k, f
    <3> QED
      BY <3>1 DEF HasFields, Fields, SameBut
  <2> HIDE DEF f
  <2>4. /\ DOMAIN fds = DOMAIN m.fds /\ fds[fd] = f
        /\ \A y \in DOMAIN m.fds \ {fd} : fds[y] = m.fds[y]
        /\ fds = [y \in DOMAIN fds |-> fds[y]]
    BY <1>2
  <2> HIDE DEF k, fds
  <2>5. \A y \in DOMAIN fds : fds[y] \in Descriptor(l)
    BY <1>1, <2>2, <2>4
  <2>6. fds \in [DOMAIN fds -> Descriptor(l)]
    BY <2>4, <2>5
  <2>7. Typed(k, l)
    BY <1>1, <2>3, <2>4, <2>6 DEF Typed, SameBut, Fields
  <2> QED
    BY <1>5, <2>2, <2>3, <2>4, <2>7 DEF AdjustedTo, k
<1> QED
  BY <1>3, <1>4, <1>5

(* A child that has come to its program: every pipe of the step is closed, *)
(* and what it reads is not what it writes.                                *)
LEMMA ProgramGood ==
  ASSUME NEW m, NEW l, NEW chain, Good(m, l, chain), m.state \notin {"zombie", "ending"},
         NEW out, Typed(out, l), out.parent = m.parent, 0 .. 2 \subseteq DOMAIN out.fds,
         out.fds[0].way = "r", out.fds[1].way = "w",
         out.fds[0].pipe # 0 => out.fds[0].pipe # out.fds[1].pipe,
         \A n \in DOMAIN out.fds \ {0, 1} : out.fds[n].pipe # 0 => out.fds[n].way = "r",
         NEW name \in DOMAIN Does
  PROVE  LET k == Executed(out, name) IN
         /\ Good(k, l, chain) /\ k.parent = m.parent /\ k.state = "program" /\ k.fds = out.fds
         /\ k.waitq = << >>
<1> DEFINE k == Executed(out, name)
           says == IF Does[name].reads THEN << >> ELSE Does[name].says
           eof == ~Does[name].reads
<1>1. /\ HasFields(k) /\ k.parent = out.parent /\ k.state = "program" /\ k.fds = out.fds
      /\ k.entry = 1 /\ k.waitq = << >> /\ k.made = 0 /\ k.pipes = << >>
      /\ k.channels = << >> /\ k.values = << >> /\ k.call = << name >> /\ k.todo = says
  <2> HIDE DEF says
  <2>1. k = [Shell EXCEPT !.state = "program", !.parent = out.parent, !.fds = out.fds,
                          !.call = << name >>, !.todo = says, !.eof = eof]
    BY DEF Executed, says
  <2> HIDE DEF k, eof
  <2> QED
    BY <2>1 DEF HasFields, Fields, Shell
<1>2. k.eof = eof
  BY DEF Executed, Shell
<1>3. says \in Seq(STRING) /\ eof \in BOOLEAN
  <2>1. Does[name].says \in Seq(STRING) /\ Does[name].reads \in BOOLEAN
    BY DataAreStrings
  <2>2. says \in Seq(STRING)
    BY <2>1, EmptySeqs
  <2> QED
    BY <2>2
<1> HIDE DEF k, says, eof
<1>4. Typed(k, l)
  <2>1. k.waitq \in Seq(l.pids) /\ k.pipes \in Seq(Nat \X Nat) /\ k.channels \in Seq(Nat)
        /\ k.values \in Seq(Seq(STRING)) /\ k.todo \in Seq(STRING)
    BY <1>1, <1>3, EmptySeqs
  <2>2. k.entry \in Nat /\ k.made \in Nat /\ k.state \in States
    <3>1. k.entry = 1 /\ k.made = 0 /\ k.state = "program"
      BY <1>1
    <3> QED
      BY <3>1 DEF States
  <2>3. k.eof \in BOOLEAN
    BY <1>2, <1>3
  <2>4. /\ k.fds \in [DOMAIN k.fds -> Descriptor(l)] /\ DOMAIN k.fds \subseteq Nat
        /\ 0 .. 2 \subseteq DOMAIN k.fds /\ k.parent \in l.pids \cup {Nobody}
    BY <1>1 DEF Typed
  <2> QED
    BY <2>1, <2>2, <2>3, <2>4 DEF Typed
<1>5. PositionOK(k, chain)
  BY <1>1 DEF PositionOK, AtWork
<1>6. ChannelsOK(k) /\ PipeNumbers(k) = {} /\ PairsOK(k.fds, k.pipes)
  <2>1. k.made \in Nat
    BY <1>1
  <2> QED
    BY <1>1, <2>1, NoChannels, NoPairs
<1>7. DescriptorsOK(k)
  BY <1>1, <1>6 DEF DescriptorsOK, AtWork
<1>8. Good(k, l, chain)
  BY <1>1, <1>4, <1>5, <1>7, ProcessIs DEF Good
<1> QED
  BY <1>1, <1>8 DEF k

WithStdin(m) == Adjusted(m, m.call[1].in, 0)
Rewired(m) == PipeClearMany(Adjusted(WithStdin(m), m.call[1].out, 1))
Opens(r) == IF r # << >> /\ ~Piping(r) THEN {r[1].file.value} ELSE {}
StartOK(m, l, chain, names) ==
  LET call == m.call[1]
      out == Rewired(m)
  IN  /\ m.entry \in DOMAIN chain /\ chain[m.entry].op = "step"
      /\ call \in Range(chain[m.entry].calls)
      /\ CallOK(call, Len(m.pipes)) /\ UsesValues(chain[m.entry], Len(m.values))
      /\ Good(Ending(m), l, chain)
      /\ Good(Ending(WithStdin(m)), l, chain) /\ WithStdin(m).parent = m.parent
      /\ FilesOpen(WithStdin(m), names \cup Opens(call.in))
      /\ Good(Ending(out), l, chain) /\ out.parent = m.parent
      /\ FilesOpen(out, names \cup Opens(call.in) \cup Opens(call.out))
      /\ \A name \in DOMAIN Does :
           /\ Good(Executed(out, name), l, chain)
           /\ Executed(out, name).parent = m.parent
           /\ Executed(out, name).fds = out.fds /\ Executed(out, name).waitq = << >>
           /\ Executed(out, name).state = "program"
      /\ Key(out.fds[1]) = SinkOf(m, call) /\ out.fds[0].pipe = SourceOf(m, call)

LEMMA StartGood ==
  ASSUME NEW m, NEW l, NEW chain, IsChain(chain), Good(m, l, chain), m.state = "child",
         NEW names, FilesOpen(m, names)
  PROVE  StartOK(m, l, chain, names)
<1> DEFINE call == m.call[1]
           e == chain[m.entry]
           in == Adjusted(m, call.in, 0)
           a == Adjusted(in, call.out, 1)
           out == PipeClearMany(a)
           n == call.in[1].number
           w == call.out[1].number
<1>1. HasFields(m) /\ Typed(m, l) /\ PositionOK(m, chain) /\ DescriptorsOK(m)
  BY GoodFacts
<1>2. /\ m.entry \in DOMAIN chain /\ e.op = "step" /\ m.channels = << >>
      /\ UsesValues(e, Len(m.values)) /\ Len(m.pipes) = e.pipes
      /\ \E i \in DOMAIN e.calls : m.call = << e.calls[i] >>
  BY <1>1 DEF PositionOK, AtWork
<1>3. PICK i \in DOMAIN e.calls : m.call = << e.calls[i] >>
  BY <1>2
<1>4. call = e.calls[i]
  BY <1>3
<1>5. /\ RedirectOK(call.in, {"<"}, Len(m.pipes)) /\ RedirectOK(call.out, {">", ">>"}, Len(m.pipes))
      /\ CallOK(call, Len(m.pipes))
      /\ Piping(call.in) /\ Piping(call.out) => call.in[1].number # call.out[1].number
  <2>1. CallOK(e.calls[i], e.pipes) /\ ConnectsOnce(e.calls)
    BY <1>2, StepFacts
  <2>2. Piping(e.calls[i].in) /\ Piping(e.calls[i].out)
          => e.calls[i].in[1].number # e.calls[i].out[1].number
    BY <2>1 DEF ConnectsOnce
  <2> QED
    BY <1>2, <1>4, <2>1, <2>2 DEF CallOK
<1>6. call \in Range(e.calls)
  BY <1>4 DEF Range
<1> HIDE DEF call
<1>7. /\ m.fds[0].way = "r" /\ m.fds[0].pipe = 0 /\ m.fds[1].way = "w"
      /\ PairsOK(m.fds, m.pipes)
      /\ \A k \in DOMAIN m.fds \ ({0, 1} \cup PipeNumbers(m)) :
           m.fds[k].pipe # 0 => m.fds[k].way = "r"
  BY <1>1 DEF DescriptorsOK, AtWork
<1>7a. \A j \in DOMAIN m.pipes :
         m.fds[m.pipes[j][1]].pipe # 0 /\ m.fds[m.pipes[j][2]].pipe # 0
  BY <1>7 DEF PairsOK
<1>8. 0 .. 2 \subseteq DOMAIN m.fds
  BY <1>1 DEF Typed
<1>9. /\ HasFields(in) /\ SameBut(m, in, {"fds"}) /\ Typed(in, l)
      /\ DOMAIN in.fds = DOMAIN m.fds /\ \A k \in DOMAIN m.fds \ {0} : in.fds[k] = m.fds[k]
      /\ call.in = << >> => in.fds = m.fds
      /\ Piping(call.in) => /\ n \in DOMAIN m.pipes /\ in.fds[0] = m.fds[m.pipes[n][1]]
      /\ call.in # << >> /\ ~Piping(call.in) =>
           /\ in.fds[0].pipe = 0 /\ in.fds[0].file = call.in[1].file.value
           /\ in.fds[0].way = "r"
  <2>1. 0 \in {0, 1} /\ m.state # "zombie" /\ "r" = IF 0 = 0 THEN "r" ELSE "w"
    OBVIOUS
  <2>2. Typed(in, l) /\ AdjustedTo(m, in, call.in, 0, "r")
    BY <1>1, <1>5, <1>7, <2>1, AdjustedGood
  <2>3. 0 + 1 = 1
    OBVIOUS
  <2> HIDE DEF in
  <2> QED
    BY <2>2, <2>3 DEF AdjustedTo
<1> HIDE DEF in
<1>10. /\ in.pipes = m.pipes /\ in.state = "child" /\ in.parent = m.parent
       /\ \A k \in DOMAIN m.pipes : /\ m.pipes[k][1] > 2 /\ m.pipes[k][2] > 2
                                    /\ m.pipes[k][1] \in DOMAIN m.fds
                                    /\ m.pipes[k][2] \in DOMAIN m.fds
                                    /\ in.fds[m.pipes[k][1]] = m.fds[m.pipes[k][1]]
                                    /\ in.fds[m.pipes[k][2]] = m.fds[m.pipes[k][2]]
       /\ in.fds[1] = m.fds[1]
  <2>1. in.pipes = m.pipes /\ in.state = "child" /\ in.parent = m.parent
    BY <1>9 DEF SameBut, Fields
  <2>2. ASSUME NEW k \in DOMAIN m.pipes
        PROVE  /\ m.pipes[k][1] > 2 /\ m.pipes[k][2] > 2
               /\ m.pipes[k][1] \in DOMAIN m.fds /\ m.pipes[k][2] \in DOMAIN m.fds
               /\ m.pipes[k][1] # 0 /\ m.pipes[k][2] # 0
    <3>1. /\ m.pipes[k][1] > 2 /\ m.pipes[k][2] > 2
          /\ m.pipes[k][1] \in DOMAIN m.fds /\ m.pipes[k][2] \in DOMAIN m.fds
      BY <1>7 DEF PairsOK
    <3>2. DOMAIN m.fds \subseteq Nat
      BY <1>1 DEF Typed
    <3> QED
      BY <3>1, <3>2
  <2>3. 1 \in DOMAIN m.fds \ {0}
    BY <1>8
  <2> QED
    BY <1>9, <2>1, <2>2, <2>3
<1>11. PairsOK(in.fds, in.pipes)
  <2>1. \A k \in DOMAIN m.pipes :
          LET r == m.pipes[k][1]
              v == m.pipes[k][2]
          IN  /\ r # v /\ m.fds[r].way = "r" /\ m.fds[v].way = "w"
              /\ m.fds[r].pipe # 0 /\ m.fds[v].pipe = m.fds[r].pipe
              /\ m.fds[1].pipe # m.fds[r].pipe
    BY <1>7 DEF PairsOK
  <2>2. \A j, k \in DOMAIN m.pipes : j # k => m.fds[m.pipes[j][1]].pipe # m.fds[m.pipes[k][1]].pipe
    BY <1>7 DEF PairsOK
  <2> QED
    BY <1>9, <1>10, <2>1, <2>2, SMTT(20) DEF PairsOK
<1>12. /\ HasFields(a) /\ SameBut(in, a, {"fds"}) /\ Typed(a, l)
       /\ DOMAIN a.fds = DOMAIN m.fds /\ \A k \in DOMAIN m.fds \ {1} : a.fds[k] = in.fds[k]
       /\ call.out = << >> => a.fds = in.fds
       /\ Piping(call.out) => /\ w \in DOMAIN m.pipes
                              /\ a.fds[1] = in.fds[m.pipes[w][2]]
       /\ call.out # << >> /\ ~Piping(call.out) =>
            /\ a.fds[1].pipe = 0 /\ a.fds[1].file = call.out[1].file.value
            /\ a.fds[1].way = "w"
  <2>1. in.state # "zombie" /\ RedirectOK(call.out, {">", ">>"}, Len(in.pipes))
    BY <1>5, <1>10
  <2>2. 1 \in {0, 1} /\ "w" = IF 1 = 0 THEN "r" ELSE "w"
    OBVIOUS
  <2>3. Typed(a, l) /\ AdjustedTo(in, a, call.out, 1, "w")
    BY <1>9, <1>11, <2>1, <2>2, AdjustedGood
  <2>4. 1 + 1 = 2
    OBVIOUS
  <2> HIDE DEF a
  <2> QED
    BY <1>9, <1>10, <2>3, <2>4 DEF AdjustedTo
<1> HIDE DEF a
<1>13. a.pipes = m.pipes /\ a.state = "child" /\ a.parent = m.parent
  BY <1>10, <1>12 DEF SameBut, Fields
<1>14. /\ HasFields(out) /\ SameBut(a, out, {"fds", "pipes"}) /\ Typed(out, l)
       /\ DOMAIN out.fds = DOMAIN m.fds \ PipeNumbers(a)
       /\ 0 .. 2 \subseteq DOMAIN out.fds
       /\ \A k \in DOMAIN out.fds : out.fds[k] = a.fds[k]
  BY <1>10, <1>12, <1>13, ClearGood
<1> HIDE DEF out
<1>15. /\ out.state = "child" /\ out.parent = m.parent /\ PipeNumbers(a) = PipeNumbers(m)
       /\ out.fds[0] = in.fds[0] /\ out.fds[1] = a.fds[1]
  <2>1. 0 \in DOMAIN out.fds /\ 1 \in DOMAIN out.fds /\ 0 \in DOMAIN m.fds \ {1}
    BY <1>8, <1>14
  <2> QED
    BY <1>12, <1>13, <1>14, <2>1 DEF SameBut, Fields, PipeNumbers
<1>16. in.fds[0].way = "r" /\ (in.fds[0].pipe # 0 => Piping(call.in))
  BY <1>7, <1>9 DEF PairsOK
<1>17. a.fds[1].way = "w"
  BY <1>7, <1>10, <1>12 DEF PairsOK
<1>18. out.fds[0].pipe # 0 => out.fds[0].pipe # out.fds[1].pipe
  <2> SUFFICES ASSUME in.fds[0].pipe # 0
               PROVE  in.fds[0].pipe # a.fds[1].pipe
    BY <1>15
  <2>1. Piping(call.in) /\ n \in DOMAIN m.pipes /\ in.fds[0].pipe = m.fds[m.pipes[n][1]].pipe
    BY <1>9, <1>16
  <2>2. CASE call.out = << >>
    <3>1. a.fds[1] = m.fds[1]
      BY <1>10, <1>12, <2>2
    <3>2. m.fds[1].pipe # m.fds[m.pipes[n][1]].pipe
      BY <1>7, <2>1 DEF PairsOK
    <3> QED
      BY <2>1, <3>1, <3>2
  <2>3. CASE Piping(call.out)
    <3>1. w \in DOMAIN m.pipes /\ a.fds[1].pipe = m.fds[m.pipes[w][2]].pipe /\ w # n
      BY <1>5, <1>10, <1>12, <2>1, <2>3
    <3>2. m.fds[m.pipes[w][2]].pipe = m.fds[m.pipes[w][1]].pipe
      BY <1>7, <3>1 DEF PairsOK
    <3>3. m.fds[m.pipes[w][1]].pipe # m.fds[m.pipes[n][1]].pipe
      BY <1>7, <2>1, <3>1 DEF PairsOK
    <3> QED
      BY <2>1, <3>1, <3>2, <3>3
  <2>4. CASE call.out # << >> /\ ~Piping(call.out)
    BY <1>12, <2>4
  <2> QED
    BY <2>2, <2>3, <2>4
<1>19. \A k \in DOMAIN out.fds \ {0, 1} : out.fds[k].pipe # 0 => out.fds[k].way = "r"
  <2> SUFFICES ASSUME NEW k \in DOMAIN out.fds \ {0, 1}
               PROVE  out.fds[k].pipe # 0 => out.fds[k].way = "r"
    OBVIOUS
  <2>1. out.fds[k] = m.fds[k] /\ k \in DOMAIN m.fds \ ({0, 1} \cup PipeNumbers(m))
    BY <1>9, <1>12, <1>14, <1>15
  <2> QED
    BY <1>7, <2>1
<1>20. /\ Good(Ending(m), l, chain) /\ Good(Ending(in), l, chain) /\ Good(Ending(out), l, chain)
  <2>1. /\ IsProcess(m, l) /\ IsProcess(in, l) /\ IsProcess(out, l)
        /\ m.state # "zombie" /\ in.state # "zombie" /\ out.state # "zombie"
    BY <1>1, <1>9, <1>10, <1>14, <1>15, ProcessIs
  <2> QED
    BY <2>1, EndingGood
<1>21. ASSUME NEW name \in DOMAIN Does
       PROVE  /\ Good(Executed(out, name), l, chain)
              /\ Executed(out, name).parent = m.parent
              /\ Executed(out, name).fds = out.fds /\ Executed(out, name).waitq = << >>
              /\ Executed(out, name).state = "program"
  <2>1. out.fds[0].way = "r" /\ out.fds[1].way = "w" /\ m.state \notin {"zombie", "ending"}
    BY <1>15, <1>16, <1>17
  <2> QED
    BY <1>14, <1>15, <1>18, <1>19, <2>1, ProgramGood
<1>22. FilesOpen(in, names \cup Opens(call.in))
  <2> SUFFICES ASSUME NEW k \in DOMAIN in.fds, in.fds[k].pipe = 0
               PROVE  in.fds[k].file \in names \cup Opens(call.in)
    BY DEF FilesOpen
  <2>1. \A j \in DOMAIN m.fds : m.fds[j].pipe = 0 => m.fds[j].file \in names
    BY DEF FilesOpen
  <2>2. CASE k # 0
    BY <1>9, <2>1, <2>2
  <2>3. CASE k = 0 /\ call.in = << >>
    BY <1>9, <2>1, <2>3
  <2>4. CASE k = 0 /\ Piping(call.in)
    <3>1. n \in DOMAIN m.pipes /\ in.fds[k] = m.fds[m.pipes[n][1]]
      BY <1>9, <2>4
    <3>2. m.fds[m.pipes[n][1]].pipe # 0
      BY <1>7a, <3>1
    <3> QED
      BY <3>1, <3>2
  <2>5. CASE k = 0 /\ call.in # << >> /\ ~Piping(call.in)
    BY <1>9, <2>5 DEF Opens
  <2> QED
    BY <2>2, <2>3, <2>4, <2>5
<1>23. FilesOpen(out, names \cup Opens(call.in) \cup Opens(call.out))
  <2> SUFFICES ASSUME NEW k \in DOMAIN out.fds, out.fds[k].pipe = 0
               PROVE  out.fds[k].file \in names \cup Opens(call.in) \cup Opens(call.out)
    BY DEF FilesOpen
  <2>1. \A j \in DOMAIN in.fds : in.fds[j].pipe = 0 => in.fds[j].file \in names \cup Opens(call.in)
    BY <1>22 DEF FilesOpen
  <2>2. k \in DOMAIN m.fds /\ out.fds[k] = a.fds[k]
    BY <1>14
  <2>3. CASE k # 1
    BY <1>9, <1>12, <2>1, <2>2, <2>3
  <2>4. CASE k = 1 /\ call.out = << >>
    BY <1>9, <1>12, <2>1, <2>2, <2>4
  <2>5. CASE k = 1 /\ Piping(call.out)
    <3>1. /\ w \in DOMAIN m.pipes /\ out.fds[k].pipe = m.fds[m.pipes[w][2]].pipe
      BY <1>10, <1>12, <2>2, <2>5, SMTT(20)
    <3>2. m.fds[m.pipes[w][2]].pipe # 0
      BY <1>7a, <3>1
    <3> QED
      BY <3>1, <3>2
  <2>6. CASE k = 1 /\ call.out # << >> /\ ~Piping(call.out)
    BY <1>12, <2>2, <2>6 DEF Opens
  <2> QED
    BY <2>3, <2>4, <2>5, <2>6
<1>24. Key(out.fds[1]) = SinkOf(m, call) /\ out.fds[0].pipe = SourceOf(m, call)
  <2> DEFINE b == Adjusted(m, call.out, 1)
  <2>1. /\ call.out = << >> => b.fds = m.fds
        /\ Piping(call.out) => b.fds[1] = m.fds[m.pipes[w][2]]
        /\ call.out # << >> /\ ~Piping(call.out) =>
             b.fds[1].pipe = 0 /\ b.fds[1].file = call.out[1].file.value
    <3>1. 1 \in {0, 1} /\ m.state # "zombie" /\ "w" = IF 1 = 0 THEN "r" ELSE "w"
      OBVIOUS
    <3>2. Typed(b, l) /\ AdjustedTo(m, b, call.out, 1, "w")
      BY <1>1, <1>5, <1>7, <3>1, AdjustedGood
    <3>3. 1 + 1 = 2
      OBVIOUS
    <3> HIDE DEF b
    <3> QED
      BY <3>2, <3>3 DEF AdjustedTo
  <2> HIDE DEF b
  <2>2. Key(a.fds[1]) = Key(b.fds[1])
    <3>1. CASE call.out = << >>
      BY <1>10, <1>12, <2>1, <3>1
    <3>2. CASE Piping(call.out)
      <4>1. w \in DOMAIN m.pipes /\ a.fds[1] = in.fds[m.pipes[w][2]]
        BY <1>12, <3>2
      <4>2. in.fds[m.pipes[w][2]] = m.fds[m.pipes[w][2]]
        BY <1>10, <4>1
      <4>3. b.fds[1] = m.fds[m.pipes[w][2]]
        BY <2>1, <3>2
      <4> QED
        BY <4>1, <4>2, <4>3
    <3>3. CASE call.out # << >> /\ ~Piping(call.out)
      BY <1>12, <2>1, <3>3 DEF Key
    <3> QED
      BY <3>1, <3>2, <3>3
  <2> QED
    BY <1>15, <2>2 DEF SinkOf, SourceOf, in, b
<1> QED
  <2>1. Len(m.pipes) = e.pipes
    BY <1>2
  <2> QED
    BY <1>2, <1>5, <1>6, <1>10, <1>15, <1>20, <1>21, <1>22, <1>23, <1>24
    DEF StartOK, Rewired, WithStdin, out, a, in, call

(* The shell that makes the pipe of its next expansion.                    *)
Expanding(m) == [m EXCEPT !.state = "expanding"]

LEMMA ExpandingFields ==
  ASSUME NEW m, NEW l, NEW chain, Good(m, l, chain), m.state \in {"shell", "expanding"},
         m.state = "shell" => chain[m.entry].op = "expand"
  PROVE  LET s == Expanding(m) IN
         /\ HasFields(s) /\ SameBut(m, s, {"state"}) /\ Typed(s, l) /\ s.state = "expanding"
         /\ m.pipes = << >> /\ Len(m.channels) = m.made
         /\ m.entry \in DOMAIN chain /\ chain[m.entry].op = "expand"
         /\ ChannelNumbers(m) = {m.channels[i] : i \in DOMAIN m.channels}
         /\ \A i \in DOMAIN m.channels : m.channels[i] \in DOMAIN m.fds /\ m.channels[i] > 2
                                         /\ m.fds[m.channels[i]].pipe # 0
         /\ \A i, j \in DOMAIN m.channels : i # j => m.channels[i] # m.channels[j]
<1> DEFINE s == Expanding(m)
<1>1. HasFields(m) /\ Typed(m, l) /\ PositionOK(m, chain) /\ DescriptorsOK(m)
  BY GoodFacts
<1>2. HasFields(s) /\ SameBut(m, s, {"state"}) /\ s.state = "expanding"
  BY <1>1 DEF HasFields, Fields, SameBut, Expanding
<1> HIDE DEF s
<1>3. Typed(s, l)
  <2>1. s.state \in States
    BY <1>2 DEF States
  <2> QED
    BY <1>1, <1>2, <2>1 DEF Typed, SameBut, Fields
<1>4. /\ m.pipes = << >> /\ Len(m.channels) = m.made
      /\ m.entry \in DOMAIN chain /\ chain[m.entry].op = "expand"
      /\ m.state = "shell" => m.channels = << >>
  BY <1>1, EmptySeqs DEF PositionOK, AtWork
<1>5. Unread(m) = DOMAIN m.channels
  <2>1. CASE m.state = "shell"
    <3>1. m.channels = << >> /\ m.made \in Nat
      BY <1>1, <1>4, <2>1 DEF Typed
    <3> QED
      BY <3>1, NoChannels, EmptySeqs
  <2>2. CASE m.state # "shell"
    BY <2>2 DEF Unread
  <2> QED
    BY <2>1, <2>2
<1>6. ChannelsOK(m)
  BY <1>1 DEF DescriptorsOK
<1> QED
  BY <1>2, <1>3, <1>4, <1>5, <1>6 DEF ChannelsOK, ChannelNumbers, s

(* Its child, whose output the pipe is.                                    *)
ExpansionBy(x, p, head) ==
  ExpansionChild([x EXCEPT !.parent = p, !.waitq = << >>], x.pipes[1], head)

IsExpansion(k, x, m, l, chain, p, head) ==
  /\ Good(k, l, chain) /\ k.parent = p /\ k.state = "shell" /\ k.waitq = << >>
  /\ k.fds[1].pipe = x.fds[x.pipes[1][1]].pipe /\ k.fds[1].pipe # 0
  /\ k.pipes = << >> /\ k.entry = head
  /\ \A n \in DOMAIN k.fds \ {1} : n \in DOMAIN m.fds /\ k.fds[n] = m.fds[n]

LEMMA ExpansionGood ==
  ASSUME NEW m, NEW l, NEW chain, IsChain(chain), Good(m, l, chain),
         m.state \in {"shell", "expanding"}, m.state = "shell" => chain[m.entry].op = "expand",
         NEW x, HasFields(x), SameBut(m, x, {"fds", "pipes", "state"}), Typed(x, l),
         x.state = "expanding", Len(x.pipes) = 1, DOMAIN x.pipes = 1 .. 1,
         DOMAIN x.fds = DOMAIN m.fds \cup PipeNumbers(x),
         PipeNumbers(x) \cap DOMAIN m.fds = {},
         \A n \in DOMAIN m.fds : x.fds[n] = m.fds[n],
         PairsOK(x.fds, x.pipes),
         m.made < Len(chain[m.entry].heads), NEW p \in l.pids
  PROVE  IsExpansion(ExpansionBy(x, p, chain[m.entry].heads[m.made + 1]),
                     x, m, l, chain, p, chain[m.entry].heads[m.made + 1])
<1> DEFINE head == chain[m.entry].heads[m.made + 1]
           c == [x EXCEPT !.parent = p, !.waitq = << >>]
           r == x.pipes[1][1]
           w == x.pipes[1][2]
           fds == Put(x.fds, 1, x.fds[w])
           d == [c EXCEPT !.fds = Dup2(@, w, 1)]
           b == PipeClearMany(d)
           k == ExpansionBy(x, p, head)
<1>1. HasFields(m) /\ Typed(m, l) /\ PositionOK(m, chain) /\ DescriptorsOK(m)
  BY GoodFacts
<1>2. /\ m.entry \in DOMAIN chain /\ chain[m.entry].op = "expand" /\ m.pipes = << >>
  BY ExpandingFields
<1>3. GoesOn(chain, head) /\ head \in Nat
  <2>1. /\ DOMAIN chain[m.entry].heads = 1 .. Len(chain[m.entry].heads)
        /\ Len(chain[m.entry].heads) \in Nat /\ m.made \in Nat
        /\ \A i \in DOMAIN chain[m.entry].heads : GoesOn(chain, chain[m.entry].heads[i])
    BY <1>1, <1>2, ExpandFacts, SMTT(20) DEF Typed
  <2>2. m.made + 1 \in DOMAIN chain[m.entry].heads
    BY <2>1
  <2> QED
    BY <2>1, <2>2 DEF GoesOn, IsChain
<1> HIDE DEF head
<1>4. /\ HasFields(c) /\ SameBut(x, c, {"parent", "waitq"}) /\ c.parent = p /\ c.waitq = << >>
  BY DEF HasFields, Fields, SameBut
<1>5. /\ r \in DOMAIN x.fds /\ w \in DOMAIN x.fds /\ r > 2 /\ w > 2 /\ r # w
      /\ x.fds[r].way = "r" /\ x.fds[w].way = "w" /\ x.fds[r].pipe # 0
      /\ x.fds[w].pipe = x.fds[r].pipe /\ PipeNumbers(x) = {r, w}
  <2>1. 1 \in DOMAIN x.pipes
    OBVIOUS
  <2>2. \A i \in DOMAIN x.pipes : i = 1
    OBVIOUS
  <2> QED
    BY <2>1, <2>2 DEF PairsOK, PipeNumbers
<1>6. /\ \A n \in DOMAIN x.fds : x.fds[n] \in Descriptor(l)
      /\ DOMAIN x.fds \subseteq Nat /\ 0 .. 2 \subseteq DOMAIN x.fds
      /\ 0 .. 2 \subseteq DOMAIN m.fds
  BY <1>1 DEF Typed
<1> HIDE DEF c
<1>7. c.fds = x.fds /\ c.pipes = x.pipes
  BY <1>4 DEF SameBut, Fields
<1>8. /\ HasFields(d) /\ SameBut(c, d, {"fds"}) /\ d.fds = fds
  <2> HIDE DEF w
  <2> QED
    BY <1>4, <1>7 DEF HasFields, Fields, SameBut, Dup2
<1>9. /\ DOMAIN fds = DOMAIN x.fds /\ fds[1] = x.fds[w]
      /\ \A n \in DOMAIN x.fds \ {1} : fds[n] = x.fds[n]
      /\ fds = [n \in DOMAIN fds |-> fds[n]]
  <2> HIDE DEF w
  <2> QED
    BY <1>6 DEF Put
<1>10. k = [b EXCEPT !.state = "shell", !.entry = head, !.made = 0, !.channels = << >>]
  BY DEF ExpansionChild, ExpansionBy, c
<1> HIDE DEF d, fds, k
<1>11. d.parent = p /\ d.waitq = << >> /\ d.pipes = x.pipes /\ d.state = "expanding"
       /\ d.values = m.values /\ d.todo = m.todo /\ d.eof = m.eof
  BY <1>4, <1>8 DEF SameBut, Fields
<1>12. Typed(d, l)
  <2>1. \A n \in DOMAIN fds : fds[n] \in Descriptor(l)
    BY <1>5, <1>6, <1>9
  <2>2. fds \in [DOMAIN fds -> Descriptor(l)]
    BY <1>9, <2>1
  <2>3. d.waitq \in Seq(l.pids) /\ d.parent \in l.pids \cup {Nobody}
    BY <1>11, EmptySeqs
  <2>4. /\ d.state = x.state /\ d.entry = x.entry /\ d.made = x.made /\ d.pipes = x.pipes
        /\ d.channels = x.channels /\ d.values = x.values /\ d.todo = x.todo /\ d.eof = x.eof
    BY <1>4, <1>8 DEF SameBut, Fields
  <2>5. DOMAIN d.fds \subseteq Nat /\ 0 .. 2 \subseteq DOMAIN d.fds
    BY <1>6, <1>8, <1>9
  <2> QED
    BY <1>8, <2>2, <2>3, <2>4, <2>5 DEF Typed
<1>13. /\ HasFields(b) /\ SameBut(d, b, {"fds", "pipes"}) /\ Typed(b, l) /\ b.pipes = << >>
       /\ DOMAIN b.fds = DOMAIN d.fds \ PipeNumbers(d) /\ 0 .. 2 \subseteq DOMAIN b.fds
       /\ \A n \in DOMAIN b.fds : b.fds[n] = d.fds[n]
  <2>1. \A i \in DOMAIN d.pipes : d.pipes[i][1] > 2 /\ d.pipes[i][2] > 2
    BY <1>11 DEF PairsOK
  <2>2. d.state # "zombie"
    BY <1>11
  <2> QED
    BY <1>8, <1>12, <2>1, <2>2, ClearGood
<1> HIDE DEF b
<1>14. /\ HasFields(k) /\ SameBut(b, k, {"state", "entry", "made", "channels"})
       /\ k.state = "shell" /\ k.entry = head /\ k.made = 0 /\ k.channels = << >>
  BY <1>10, <1>13 DEF HasFields, Fields, SameBut
<1>15. /\ k.parent = p /\ k.waitq = << >> /\ k.pipes = << >> /\ k.fds = b.fds
       /\ k.values = m.values /\ PipeNumbers(d) = PipeNumbers(x)
  BY <1>11, <1>13, <1>14 DEF SameBut, Fields, PipeNumbers
<1>16. Typed(k, l)
  <2>1. k.state \in States /\ k.made \in Nat /\ k.channels \in Seq(Nat)
    BY <1>14, EmptySeqs DEF States
  <2> QED
    BY <1>3, <1>13, <1>14, <2>1 DEF Typed, SameBut, Fields
<1>17. \A n \in DOMAIN k.fds \ {1} : n \in DOMAIN m.fds /\ k.fds[n] = m.fds[n]
  <2> SUFFICES ASSUME NEW n \in DOMAIN k.fds \ {1}
               PROVE  n \in DOMAIN m.fds /\ k.fds[n] = m.fds[n]
    OBVIOUS
  <2>1. n \in DOMAIN x.fds /\ n \notin PipeNumbers(x) /\ k.fds[n] = fds[n]
    BY <1>8, <1>9, <1>13, <1>15
  <2> QED
    BY <1>9, <2>1
<1>18. k.fds[1] = x.fds[w] /\ k.fds[0] = m.fds[0]
  <2>1. 0 \in DOMAIN k.fds /\ 1 \in DOMAIN k.fds
    BY <1>13, <1>15
  <2> QED
    BY <1>8, <1>9, <1>13, <1>15, <1>17, <2>1
<1>19. /\ m.fds[0].way = "r" /\ m.fds[0].pipe = 0
       /\ \A n \in DOMAIN m.fds \ {0, 1} : m.fds[n].pipe # 0 => m.fds[n].way = "r"
  BY <1>1, <1>2, NoPairs DEF DescriptorsOK
<1>20. \A n \in DOMAIN k.fds \ {0, 1} : k.fds[n].pipe # 0 => k.fds[n].way = "r"
  BY <1>17, <1>19
<1>21. /\ k.entry \in DOMAIN chain /\ chain[k.entry].op # "splice"
       /\ chain[k.entry].op = "step" => UsesValues(chain[k.entry], Len(k.values))
  BY <1>3, <1>14, <1>16, ArrivesValues
<1>22. k.fds[1].pipe # 0 /\ k.fds[1].way = "w" /\ k.fds[0].way = "r" /\ k.fds[0].pipe = 0
  BY <1>5, <1>18, <1>19
<1>23. Good(k, l, chain)
  BY <1>14, <1>15, <1>16, <1>20, <1>21, <1>22, ShellGood
<1>24. IsExpansion(k, x, m, l, chain, p, head)
  BY <1>5, <1>14, <1>15, <1>17, <1>18, <1>22, <1>23 DEF IsExpansion, c
<1> QED
  BY <1>24 DEF k, head

(* The shell, which keeps the end to read from.                            *)
KeptBy(x, pid) ==
  [KeepReadEnd(x, x.pipes[1]) EXCEPT !.waitq = Append(@, pid), !.made = @ + 1]

LEMMA ExpandedGood ==
  ASSUME NEW m, NEW l, NEW chain, IsChain(chain), Good(m, l, chain),
         m.state \in {"shell", "expanding"}, m.state = "shell" => chain[m.entry].op = "expand",
         NEW x, HasFields(x), SameBut(m, x, {"fds", "pipes", "state"}), Typed(x, l),
         x.state = "expanding", Len(x.pipes) = 1, DOMAIN x.pipes = 1 .. 1,
         DOMAIN x.fds = DOMAIN m.fds \cup PipeNumbers(x),
         PipeNumbers(x) \cap DOMAIN m.fds = {},
         \A n \in DOMAIN m.fds : x.fds[n] = m.fds[n],
         PairsOK(x.fds, x.pipes),
         m.made < Len(chain[m.entry].heads), NEW pid \in l.pids
  PROVE  LET k == KeptBy(x, pid)
             r == x.pipes[1][1]
         IN  /\ Good(k, l, chain) /\ k.parent = m.parent /\ k.state = "expanding"
             /\ k.waitq = Append(m.waitq, pid) /\ k.pipes = << >> /\ k.entry = m.entry
             /\ DOMAIN k.fds = DOMAIN m.fds \cup {r} /\ k.fds[r].pipe # 0
             /\ \A n \in DOMAIN m.fds : k.fds[n] = m.fds[n]
             /\ ChannelNumbers(k) = ChannelNumbers(m) \cup {r} /\ PipeNumbers(k) = {}
             /\ PipeNumbers(m) = {}
<1> DEFINE r == x.pipes[1][1]
           w == x.pipes[1][2]
           fds == Closed(x.fds, {w})
           channels == Append(m.channels, r)
           g == KeepReadEnd(x, x.pipes[1])
           k == KeptBy(x, pid)
<1>1. HasFields(m) /\ Typed(m, l) /\ PositionOK(m, chain) /\ DescriptorsOK(m)
  BY GoodFacts
<1>2. /\ m.entry \in DOMAIN chain /\ chain[m.entry].op = "expand" /\ m.pipes = << >>
      /\ Len(m.channels) = m.made
      /\ ChannelNumbers(m) = {m.channels[i] : i \in DOMAIN m.channels}
      /\ \A i \in DOMAIN m.channels : m.channels[i] \in DOMAIN m.fds /\ m.channels[i] > 2
                                      /\ m.fds[m.channels[i]].pipe # 0
      /\ \A i, j \in DOMAIN m.channels : i # j => m.channels[i] # m.channels[j]
  BY ExpandingFields
<1>3. /\ x.channels = m.channels /\ x.waitq = m.waitq /\ x.made = m.made /\ x.parent = m.parent
      /\ x.entry = m.entry /\ x.values = m.values /\ x.todo = m.todo /\ x.eof = m.eof
  BY DEF SameBut, Fields
<1>4. /\ r \in DOMAIN x.fds /\ w \in DOMAIN x.fds /\ r > 2 /\ w > 2 /\ r # w
      /\ x.fds[r].way = "r" /\ x.fds[w].way = "w" /\ x.fds[r].pipe # 0
      /\ x.fds[w].pipe = x.fds[r].pipe /\ PipeNumbers(x) = {r, w} /\ r \in Nat /\ w \in Nat
  <2>1. 1 \in DOMAIN x.pipes
    OBVIOUS
  <2>2. \A i \in DOMAIN x.pipes : i = 1
    OBVIOUS
  <2>3. DOMAIN x.fds \subseteq Nat
    BY DEF Typed
  <2> QED
    BY <2>1, <2>2, <2>3 DEF PairsOK, PipeNumbers
<1>5. /\ HasFields(g) /\ SameBut(x, g, {"fds", "pipes", "channels"}) /\ g.pipes = << >>
      /\ g.fds = fds /\ g.channels = channels
  <2>1. g = [x EXCEPT !.fds = Closed(@, {w}), !.pipes = << >>, !.channels = Append(@, r)]
    BY DEF KeepReadEnd
  <2> HIDE DEF g, r, w
  <2> QED
    BY <1>3, <2>1 DEF HasFields, Fields, SameBut
<1> HIDE DEF g
<1>6. /\ HasFields(k) /\ SameBut(g, k, {"waitq", "made"})
      /\ k.waitq = Append(g.waitq, pid) /\ k.made = g.made + 1
  BY <1>5 DEF HasFields, Fields, SameBut, KeptBy, g
<1> HIDE DEF k
<1>7. /\ k.parent = m.parent /\ k.state = "expanding" /\ k.pipes = << >> /\ k.entry = m.entry
      /\ k.values = m.values /\ k.todo = m.todo /\ k.eof = m.eof /\ k.fds = fds
      /\ k.waitq = Append(m.waitq, pid) /\ k.made = m.made + 1 /\ k.channels = channels
  BY <1>3, <1>5, <1>6 DEF SameBut, Fields
<1>8. /\ m.channels \in Seq(Nat) /\ m.waitq \in Seq(l.pids) /\ m.made \in Nat
      /\ 0 .. 2 \subseteq DOMAIN m.fds
  BY <1>1 DEF Typed
<1>9. /\ channels \in Seq(Nat) /\ Len(channels) = Len(m.channels) + 1
      /\ \A i \in 1 .. Len(m.channels) : channels[i] = m.channels[i]
      /\ channels[Len(m.channels) + 1] = r
  BY <1>4, <1>8, AppendSeq
<1>10. /\ DOMAIN m.channels = 1 .. Len(m.channels) /\ DOMAIN channels = 1 .. Len(channels)
       /\ Len(m.channels) \in Nat
  BY <1>8, <1>9
<1>11. /\ DOMAIN fds = DOMAIN m.fds \cup {r} /\ fds[r] = x.fds[r]
       /\ \A n \in DOMAIN m.fds : fds[n] = m.fds[n]
       /\ r \notin DOMAIN m.fds
  <2>1. DOMAIN fds = DOMAIN x.fds \ {w} /\ \A n \in DOMAIN x.fds \ {w} : fds[n] = x.fds[n]
    BY DEF Closed
  <2> HIDE DEF fds
  <2> QED
    BY <1>4, <2>1
<1>12. fds \in [DOMAIN fds -> Descriptor(l)] /\ DOMAIN fds \subseteq Nat
  <2>1. \A n \in DOMAIN x.fds : x.fds[n] \in Descriptor(l) /\ n \in Nat
    BY DEF Typed
  <2>2. \A n \in DOMAIN fds : fds[n] \in Descriptor(l) /\ n \in Nat
    BY <1>4, <1>11, <2>1
  <2>3. fds = [n \in DOMAIN fds |-> fds[n]]
    BY DEF Closed
  <2> HIDE DEF fds
  <2> QED
    BY <2>2, <2>3
<1> HIDE DEF fds, channels, r, w
<1>13. Typed(k, l)
  <2>1. k.waitq \in Seq(l.pids)
    <3>1. Append(m.waitq, pid) \in Seq(l.pids)
      BY <1>8, AppendSeq
    <3> QED
      BY <1>7, <3>1
  <2>2. k.made \in Nat
    BY <1>7, <1>8
  <2>3. k.state \in States /\ k.pipes \in Seq(Nat \X Nat) /\ k.channels \in Seq(Nat)
    BY <1>7, <1>9, EmptySeqs DEF States
  <2>4. 0 .. 2 \subseteq DOMAIN k.fds
    BY <1>7, <1>8, <1>11
  <2> QED
    BY <1>1, <1>7, <1>12, <2>1, <2>2, <2>3, <2>4 DEF Typed
<1>14. PositionOK(k, chain)
  <2>1. k.made <= Len(chain[k.entry].heads) /\ Len(k.channels) = k.made
    <3>1. Len(chain[m.entry].heads) \in Nat
      BY <1>2, ExpandFacts
    <3> QED
      BY <1>2, <1>7, <1>8, <1>9, <3>1
  <2> QED
    BY <1>2, <1>7, <2>1 DEF PositionOK, AtWork
<1>15. Unread(k) = DOMAIN channels
  BY <1>7 DEF Unread
<1>16. ChannelNumbers(k) = ChannelNumbers(m) \cup {r}
  <2>1. \A i \in DOMAIN channels : i \in DOMAIN m.channels \/ i = Len(m.channels) + 1
    BY <1>9, <1>10
  <2>2. \A i \in DOMAIN m.channels : i \in DOMAIN channels /\ channels[i] = m.channels[i]
    BY <1>9, <1>10
  <2>3. Len(m.channels) + 1 \in DOMAIN channels /\ channels[Len(m.channels) + 1] = r
    BY <1>9, <1>10
  <2>4. ChannelNumbers(k) = {channels[i] : i \in DOMAIN channels}
    BY <1>7, <1>15 DEF ChannelNumbers
  <2> QED
    BY <1>2, <2>1, <2>2, <2>3, <2>4
<1>17. ChannelsOK(k)
  <2>1. ASSUME NEW i \in DOMAIN channels
        PROVE  \/ i \in DOMAIN m.channels /\ channels[i] = m.channels[i]
               \/ i = Len(m.channels) + 1 /\ channels[i] = r
    BY <1>9, <1>10
  <2>2. ASSUME NEW i \in DOMAIN channels
        PROVE  channels[i] \in DOMAIN fds /\ channels[i] > 2 /\ fds[channels[i]].pipe # 0
    BY <1>2, <1>4, <1>11, <2>1
  <2>3. ASSUME NEW i \in DOMAIN channels, NEW j \in DOMAIN channels, i # j
        PROVE  channels[i] # channels[j]
    BY <1>2, <1>11, <2>1, <2>3
  <2> QED
    BY <1>7, <1>15, <2>2, <2>3 DEF ChannelsOK
<1>18. PipeNumbers(k) = {} /\ PairsOK(k.fds, k.pipes) /\ PipeNumbers(m) = {}
  BY <1>2, <1>7, NoPairs
<1>19. DescriptorsOK(k)
  <2>1. /\ m.fds[0].way = "r" /\ m.fds[0].pipe = 0 /\ m.fds[1].way = "w"
        /\ (m.fds[1].pipe # 0 \/ m.fds[1].file = Terminal)
        /\ \A n \in DOMAIN m.fds \ {0, 1} : m.fds[n].pipe # 0 => m.fds[n].way = "r"
    BY <1>1, <1>18 DEF DescriptorsOK, AtWork
  <2>2. k.fds[0] = m.fds[0] /\ k.fds[1] = m.fds[1]
    BY <1>7, <1>8, <1>11
  <2>3. \A n \in DOMAIN k.fds \ {0, 1} : k.fds[n].pipe # 0 => k.fds[n].way = "r"
    BY <1>4, <1>7, <1>11, <2>1
  <2> QED
    BY <1>7, <1>17, <1>18, <2>1, <2>2, <2>3 DEF DescriptorsOK
<1>20. Good(k, l, chain)
  BY <1>6, <1>13, <1>14, <1>19, ProcessIs DEF Good
<1> QED
  BY <1>4, <1>7, <1>11, <1>16, <1>18, <1>20 DEF k, g, r

(* All expansions of the entry have been forked.                           *)
Splicing(m, e) ==
  [Goes(m, e.next) EXCEPT !.state = "shell", !.values = [i \in DOMAIN e.heads |-> << >>]]

LEMMA MadeGood ==
  ASSUME NEW m, NEW l, NEW chain, IsChain(chain), Good(m, l, chain), m.state = "expanding",
         m.made = Len(chain[m.entry].heads)
  PROVE  LET e == chain[m.entry]
             k == Splicing(m, e)
         IN  /\ Good(k, l, chain) /\ k.parent = m.parent /\ k.state = "shell"
             /\ k.waitq = m.waitq /\ k.fds = m.fds /\ k.pipes = << >> /\ k.entry = e.next
             /\ ChannelNumbers(k) = ChannelNumbers(m)
             /\ PipeNumbers(k) = {} /\ PipeNumbers(m) = {}
<1> DEFINE e == chain[m.entry]
           values == [i \in DOMAIN e.heads |-> << >>]
           next == e.next
           g == Goes(m, next)
           k == Splicing(m, e)
<1>1. HasFields(m) /\ Typed(m, l) /\ PositionOK(m, chain) /\ DescriptorsOK(m)
  BY GoodFacts
<1>2. /\ m.entry \in DOMAIN chain /\ e.op = "expand" /\ m.pipes = << >>
      /\ Len(m.channels) = m.made
  BY <1>1 DEF PositionOK, AtWork
<1>3. /\ DOMAIN e.heads = 1 .. Len(e.heads) /\ Len(e.heads) \in Nat \ {0}
      /\ next \in DOMAIN chain /\ chain[next].op = "splice" /\ chain[next].n = Len(e.heads)
  BY <1>2, ExpandFacts
<1>4. next \in Nat
  BY <1>3 DEF IsChain
<1>5. values \in Seq(Seq(STRING)) /\ Len(values) = Len(e.heads)
  <2> DEFINE n == Len(e.heads)
  <2>1. n \in Nat /\ values = [i \in 1 .. n |-> << >>]
    BY <1>3
  <2> HIDE DEF values, n
  <2>2. << >> \in Seq(STRING)
    OBVIOUS
  <2>3. values \in Seq(Seq(STRING)) /\ Len(values) = n
    BY <2>1, <2>2
  <2> QED
    BY <2>3 DEF n
<1> HIDE DEF values, next
<1>6. HasFields(g) /\ SameBut(m, g, {"entry", "made"}) /\ g.entry = next /\ g.made = 0
  BY <1>1, GoesFields
<1> HIDE DEF g
<1>7. /\ HasFields(k) /\ SameBut(g, k, {"state", "values"}) /\ k.state = "shell"
      /\ k.values = values
  <2>1. k = [g EXCEPT !.state = "shell", !.values = values]
    BY DEF Splicing, g, values, next
  <2> HIDE DEF k
  <2> QED
    BY <1>6, <2>1 DEF HasFields, Fields, SameBut
<1> HIDE DEF k
<1>8. /\ k.parent = m.parent /\ k.waitq = m.waitq /\ k.fds = m.fds /\ k.pipes = m.pipes
      /\ k.entry = next /\ k.made = 0 /\ k.channels = m.channels /\ k.todo = m.todo
      /\ k.eof = m.eof
  BY <1>6, <1>7 DEF SameBut, Fields
<1>9. Typed(k, l)
  <2>1. k.made \in Nat /\ k.state \in States
    BY <1>7, <1>8 DEF States
  <2> QED
    BY <1>1, <1>4, <1>5, <1>7, <1>8, <2>1 DEF Typed
<1>10. PositionOK(k, chain)
  BY <1>2, <1>3, <1>5, <1>7, <1>8 DEF PositionOK, AtWork
<1>11. Unread(k) = DOMAIN m.channels /\ Unread(m) = DOMAIN m.channels
  <2>1. m.channels \in Seq(Nat)
    BY <1>1 DEF Typed
  <2> QED
    BY <1>7, <1>8, <2>1 DEF Unread
<1>12. ChannelNumbers(k) = ChannelNumbers(m) /\ ChannelsOK(k)
  BY <1>1, <1>8, <1>11 DEF ChannelNumbers, ChannelsOK, DescriptorsOK
<1>13. PipeNumbers(k) = {} /\ PipeNumbers(m) = {} /\ PairsOK(k.fds, k.pipes)
  BY <1>2, <1>8, NoPairs
<1>14. DescriptorsOK(k)
  BY <1>1, <1>7, <1>8, <1>12, <1>13 DEF DescriptorsOK, AtWork
<1>15. Good(k, l, chain)
  BY <1>7, <1>9, <1>10, <1>14, ProcessIs DEF Good
<1> QED
  BY <1>2, <1>7, <1>8, <1>12, <1>13, <1>15 DEF k, g, values, next

(* The shell that reads the output of its expansions.                      *)
LEMMA SpliceGood ==
  ASSUME NEW m, NEW l, NEW chain, IsChain(chain), Good(m, l, chain), m.state = "shell",
         chain[m.entry].op = "splice"
  PROVE  LET n == m.channels[m.made + 1] IN
         /\ m.entry \in DOMAIN chain /\ m.pipes = << >> /\ m.made + 1 \in Unread(m)
         /\ Len(m.channels) = chain[m.entry].n /\ Len(m.values) = chain[m.entry].n
         /\ chain[m.entry].n \in Nat /\ m.made \in Nat /\ m.made < chain[m.entry].n
         /\ n \in DOMAIN m.fds /\ n > 2 /\ m.fds[n].pipe # 0 /\ m.fds[n].pipe \in l.pipes
<1>1. HasFields(m) /\ Typed(m, l) /\ PositionOK(m, chain) /\ DescriptorsOK(m)
  BY GoodFacts
<1>2. /\ m.entry \in DOMAIN chain /\ m.pipes = << >>
      /\ Len(m.channels) = chain[m.entry].n /\ Len(m.values) = chain[m.entry].n
      /\ m.made < chain[m.entry].n
  BY <1>1 DEF PositionOK, AtWork
<1>3. chain[m.entry].n \in Nat /\ m.made \in Nat
  BY <1>1, <1>2, SpliceFacts DEF Typed
<1>4. m.made + 1 \in Unread(m)
  BY <1>2, <1>3 DEF Unread
<1>5. /\ m.channels[m.made + 1] \in DOMAIN m.fds /\ m.channels[m.made + 1] > 2
      /\ m.fds[m.channels[m.made + 1]].pipe # 0
  BY <1>1, <1>4 DEF DescriptorsOK, ChannelsOK
<1>6. m.fds[m.channels[m.made + 1]].pipe \in l.pipes \cup {0}
  <2> DEFINE n == m.channels[m.made + 1]
  <2>1. n \in DOMAIN m.fds
    BY <1>5
  <2> HIDE DEF n
  <2>2. m.fds[n] \in Descriptor(l)
    BY <1>1, <2>1 DEF Typed
  <2>3. m.fds[n].pipe \in l.pipes \cup {0}
    BY <2>2 DEF Descriptor
  <2> QED
    BY <2>3 DEF n
<1> QED
  BY <1>2, <1>3, <1>4, <1>5, <1>6

Spliced(m, datum) == [m EXCEPT !.values[m.made + 1] = Append(@, datum)]

LEMMA SplicedGood ==
  ASSUME NEW m, NEW l, NEW chain, IsChain(chain), Good(m, l, chain), m.state = "shell",
         chain[m.entry].op = "splice", NEW datum \in STRING
  PROVE  LET k == Spliced(m, datum) IN
         /\ Good(k, l, chain) /\ SameBut(m, k, {"values"})
         /\ ChannelNumbers(k) = ChannelNumbers(m) /\ PipeNumbers(k) = PipeNumbers(m)
<1> DEFINE i == m.made + 1
           value == Append(m.values[i], datum)
           values == [m.values EXCEPT ![i] = value]
           k == Spliced(m, datum)
<1>1. HasFields(m) /\ Typed(m, l) /\ PositionOK(m, chain) /\ DescriptorsOK(m)
  BY GoodFacts
<1>2. /\ m.entry \in DOMAIN chain /\ Len(m.values) = chain[m.entry].n
      /\ chain[m.entry].n \in Nat /\ m.made \in Nat /\ m.made < chain[m.entry].n
  BY SpliceGood
<1>3. k = [m EXCEPT !.values = values]
  BY DEF Spliced
<1>4. values \in Seq(Seq(STRING)) /\ Len(values) = Len(m.values)
  <2>1. m.values \in Seq(Seq(STRING)) /\ i \in 1 .. Len(m.values)
    BY <1>1, <1>2, SMTT(20) DEF Typed
  <2> HIDE DEF i
  <2>2. m.values[i] \in Seq(STRING)
    BY <2>1
  <2>3. value \in Seq(STRING)
    BY <2>2, AppendSeq
  <2> HIDE DEF value
  <2> QED
    BY <2>1, <2>3
<1> HIDE DEF values, k
<1>5. HasFields(k) /\ SameBut(m, k, {"values"}) /\ k.values = values
  BY <1>1, <1>3 DEF HasFields, Fields, SameBut
<1>6. /\ k.parent = m.parent /\ k.state = m.state /\ k.call = m.call /\ k.made = m.made
      /\ k.fds = m.fds /\ k.pipes = m.pipes /\ k.entry = m.entry /\ k.channels = m.channels
      /\ k.waitq = m.waitq /\ k.todo = m.todo /\ k.eof = m.eof
  BY <1>5 DEF SameBut, Fields
<1>7. Typed(k, l)
  BY <1>1, <1>4, <1>5, <1>6 DEF Typed
<1>8. PositionOK(k, chain)
  BY <1>1, <1>4, <1>5, <1>6 DEF PositionOK, AtWork
<1>9. /\ Unread(k) = Unread(m) /\ ChannelNumbers(k) = ChannelNumbers(m)
      /\ PipeNumbers(k) = PipeNumbers(m)
  BY <1>6 DEF ChannelNumbers, Unread, PipeNumbers
<1>10. DescriptorsOK(k)
  BY <1>1, <1>6, <1>9 DEF DescriptorsOK, ChannelsOK
<1>11. Good(k, l, chain)
  BY <1>5, <1>7, <1>8, <1>10, ProcessIs DEF Good
<1> QED
  BY <1>5, <1>9, <1>11 DEF k

(* The end of an expansion's output: its channel is closed, and after the  *)
(* last one the shell goes on.                                             *)
ReadOn(m, n, e) ==
  LET m1 == [m EXCEPT !.fds = Closed(@, {n}), !.made = @ + 1]
  IN  IF m1.made < e.n THEN m1 ELSE [Goes(m1, e.next) EXCEPT !.channels = << >>]

LEMMA SpliceEndGood ==
  ASSUME NEW m, NEW l, NEW chain, IsChain(chain), Good(m, l, chain), m.state = "shell",
         chain[m.entry].op = "splice"
  PROVE  LET n == m.channels[m.made + 1]
             k == ReadOn(m, n, chain[m.entry])
         IN  /\ Good(k, l, chain) /\ k.parent = m.parent /\ k.state = "shell"
             /\ k.waitq = m.waitq /\ k.pipes = << >>
             /\ DOMAIN k.fds = DOMAIN m.fds \ {n}
             /\ \A j \in DOMAIN k.fds : k.fds[j] = m.fds[j]
             /\ ChannelNumbers(k) = ChannelNumbers(m) \ {n} /\ n > 2
             /\ PipeNumbers(k) = {} /\ PipeNumbers(m) = {}
<1> DEFINE e == chain[m.entry]
           i == m.made + 1
           n == m.channels[i]
           next == e.next
           fds == Closed(m.fds, {n})
           m1 == [m EXCEPT !.fds = fds, !.made = @ + 1]
           g == Goes(m1, next)
           h == [g EXCEPT !.channels = << >>]
<1>1. HasFields(m) /\ Typed(m, l) /\ PositionOK(m, chain) /\ DescriptorsOK(m)
  BY GoodFacts
<1>2. /\ m.entry \in DOMAIN chain /\ m.pipes = << >> /\ i \in Unread(m)
      /\ Len(m.channels) = e.n /\ Len(m.values) = e.n
      /\ e.n \in Nat /\ m.made \in Nat /\ m.made < e.n
      /\ n \in DOMAIN m.fds /\ n > 2 /\ m.fds[n].pipe # 0
  BY SpliceGood
<1>3. /\ next \in DOMAIN chain /\ chain[next].op = "step" /\ UsesValues(chain[next], e.n)
      /\ next \in Nat
  BY <1>2, SpliceFacts DEF IsChain
<1>4. \A j, k \in Unread(m) : j # k => m.channels[j] # m.channels[k]
  BY <1>1 DEF DescriptorsOK, ChannelsOK
<1>5. Unread(m) = m.made + 1 .. Len(m.channels)
  BY DEF Unread
<1> HIDE DEF n, next
<1>6. /\ fds \in [DOMAIN fds -> Descriptor(l)] /\ DOMAIN fds \subseteq Nat
      /\ 0 .. 2 \subseteq DOMAIN fds /\ DOMAIN fds = DOMAIN m.fds \ {n}
      /\ \A j \in DOMAIN fds : fds[j] = m.fds[j]
  <2>1. {n} \cap (0 .. 2) = {} /\ m.state # "zombie"
    BY <1>2
  <2> QED
    BY <1>1, <2>1, ClosedTyped
<1> HIDE DEF fds
<1>7. HasFields(m1) /\ SameBut(m, m1, {"fds", "made"}) /\ m1.fds = fds /\ m1.made = i
  BY <1>1 DEF HasFields, Fields, SameBut
<1> HIDE DEF m1
<1>8. /\ m1.parent = m.parent /\ m1.state = "shell" /\ m1.waitq = m.waitq /\ m1.pipes = << >>
      /\ m1.entry = m.entry /\ m1.channels = m.channels /\ m1.values = m.values
      /\ m1.todo = m.todo /\ m1.eof = m.eof
  BY <1>2, <1>7 DEF SameBut, Fields
<1>9. Typed(m1, l)
  <2>1. m1.made \in Nat /\ m1.pipes \in Seq(Nat \X Nat)
    BY <1>2, <1>7, <1>8, EmptySeqs
  <2> QED
    BY <1>1, <1>6, <1>7, <1>8, <2>1 DEF Typed
<1>10. Unread(m1) = Unread(m) \ {i} /\ ChannelNumbers(m1) = ChannelNumbers(m) \ {n}
  <2>1. Unread(m1) = i + 1 .. Len(m.channels)
    BY <1>7, <1>8 DEF Unread
  <2>2. Unread(m1) = Unread(m) \ {i}
    <3>1. Len(m.channels) \in Nat
      BY <1>2
    <3> QED
      BY <1>2, <1>5, <2>1, <3>1
  <2>3. ChannelNumbers(m1) = {m.channels[j] : j \in Unread(m) \ {i}}
    BY <1>8, <2>2 DEF ChannelNumbers
  <2>4. \A j \in Unread(m) \ {i} : m.channels[j] # n
    BY <1>2, <1>4 DEF n
  <2>5. ChannelNumbers(m) = {m.channels[j] : j \in Unread(m)}
    BY DEF ChannelNumbers
  <2> HIDE DEF i
  <2>6. n = m.channels[i]
    BY DEF n, i
  <2> QED
    BY <2>2, <2>3, <2>4, <2>5, <2>6
<1>11. /\ m.fds[0].way = "r" /\ m.fds[0].pipe = 0 /\ m.fds[1].way = "w"
       /\ (m.fds[1].pipe # 0 \/ m.fds[1].file = Terminal)
       /\ \A j \in DOMAIN m.fds \ {0, 1} : m.fds[j].pipe # 0 => m.fds[j].way = "r"
       /\ ChannelsOK(m)
  BY <1>1, <1>2, NoPairs DEF DescriptorsOK, AtWork
<1>12. /\ fds[0] = m.fds[0] /\ fds[1] = m.fds[1]
       /\ \A j \in DOMAIN fds \ {0, 1} : fds[j].pipe # 0 => fds[j].way = "r"
  BY <1>6, <1>11
<1>13. PipeNumbers(m) = {} /\ PipeNumbers(m1) = {} /\ PairsOK(m1.fds, m1.pipes)
  BY <1>2, <1>8, NoPairs
<1>14. CASE m1.made < e.n
  <2>1. PositionOK(m1, chain)
    BY <1>1, <1>2, <1>8, <1>14 DEF PositionOK, AtWork
  <2>2. ChannelsOK(m1)
    <3>1. \A j \in Unread(m1) :
            /\ m.channels[j] \in DOMAIN m.fds /\ m.channels[j] > 2
            /\ m.fds[m.channels[j]].pipe # 0 /\ m.channels[j] # n
      BY <1>2, <1>4, <1>10, <1>11 DEF ChannelsOK, n
    <3>2. \A j, k \in Unread(m1) : j # k => m.channels[j] # m.channels[k]
      BY <1>4, <1>10
    <3> QED
      BY <1>6, <1>7, <1>8, <3>1, <3>2 DEF ChannelsOK
  <2>3. DescriptorsOK(m1)
    BY <1>7, <1>8, <1>11, <1>12, <1>13, <2>2 DEF DescriptorsOK, AtWork
  <2>4. Good(m1, l, chain)
    BY <1>7, <1>9, <2>1, <2>3, ProcessIs DEF Good
  <2> QED
    <3>1. ReadOn(m, n, e) = m1
      BY <1>14 DEF ReadOn, m1, fds
    <3> QED
      BY <1>2, <1>6, <1>7, <1>8, <1>10, <1>13, <2>4, <3>1 DEF n
<1>15. CASE ~(m1.made < e.n)
  <2>1. HasFields(g) /\ SameBut(m1, g, {"entry", "made"}) /\ g.entry = next /\ g.made = 0
    BY <1>7, GoesFields
  <2> HIDE DEF g
  <2>2. HasFields(h) /\ SameBut(g, h, {"channels"}) /\ h.channels = << >>
    BY <2>1 DEF HasFields, Fields, SameBut
  <2> HIDE DEF h
  <2>3. /\ h.parent = m.parent /\ h.state = "shell" /\ h.waitq = m.waitq /\ h.pipes = << >>
        /\ h.entry = next /\ h.values = m.values /\ h.todo = m.todo
        /\ h.eof = m.eof /\ h.fds = fds /\ h.made = 0
    BY <1>7, <1>8, <2>1, <2>2 DEF SameBut, Fields
  <2>4. Typed(h, l)
    <3>1. h.made \in Nat /\ h.channels \in Seq(Nat) /\ h.entry \in Nat
      BY <1>3, <2>2, <2>3, EmptySeqs
    <3>2. /\ m1.parent \in l.pids \cup {Nobody} /\ m1.state \in States /\ m1.waitq \in Seq(l.pids)
          /\ m1.pipes \in Seq(Nat \X Nat) /\ m1.values \in Seq(Seq(STRING))
          /\ m1.todo \in Seq(STRING) /\ m1.eof \in BOOLEAN
      BY <1>9 DEF Typed
    <3> QED
      BY <1>6, <1>8, <2>3, <3>1, <3>2 DEF Typed
  <2>5. UsesValues(chain[h.entry], Len(h.values))
    BY <1>2, <1>3, <2>3
  <2>6. Good(h, l, chain) /\ ChannelNumbers(h) = {} /\ PipeNumbers(h) = {}
    <3>1. /\ h.fds[0].way = "r" /\ h.fds[0].pipe = 0 /\ h.fds[1].way = "w"
          /\ (h.fds[1].pipe # 0 \/ h.fds[1].file = Terminal)
          /\ \A j \in DOMAIN h.fds \ {0, 1} : h.fds[j].pipe # 0 => h.fds[j].way = "r"
      BY <1>11, <1>12, <2>3
    <3>2. h.entry \in DOMAIN chain /\ chain[h.entry].op # "splice"
      BY <1>3, <2>3
    <3> QED
      BY <2>2, <2>3, <2>4, <2>5, <3>1, <3>2, ShellGood
  <2>7. ChannelNumbers(m) \ {n} = {}
    <3>1. Unread(m) = {i}
      BY <1>2, <1>5, <1>7, <1>15
    <3> QED
      BY <1>10, <3>1 DEF ChannelNumbers
  <2> QED
    <3>1. ReadOn(m, n, e) = h
      BY <1>15 DEF ReadOn, h, g, m1, fds, next
    <3> QED
      BY <1>2, <1>6, <1>13, <2>3, <2>6, <2>7, <3>1 DEF n
<1> QED
  BY <1>14, <1>15

(* What a program does to itself.                                          *)
LEMMA RunningGood ==
  ASSUME NEW m, NEW l, NEW chain, Good(m, l, chain), m.state = "program",
         NEW k, HasFields(k), SameBut(m, k, {"fds", "todo", "eof"}),
         k.todo \in Seq(STRING), k.eof \in BOOLEAN,
         k.fds \in [DOMAIN m.fds -> Descriptor(l)],
         \A n \in DOMAIN m.fds : k.fds[n].pipe = m.fds[n].pipe /\ k.fds[n].way = m.fds[n].way
  PROVE  Good(k, l, chain)
<1>1. HasFields(m) /\ Typed(m, l) /\ PositionOK(m, chain) /\ DescriptorsOK(m)
  BY GoodFacts
<1>2. /\ k.parent = m.parent /\ k.state = m.state /\ k.call = m.call /\ k.made = m.made
      /\ k.pipes = m.pipes /\ k.entry = m.entry /\ k.channels = m.channels
      /\ k.waitq = m.waitq /\ k.values = m.values
  BY DEF SameBut, Fields
<1>3. Typed(k, l)
  BY <1>1, <1>2 DEF Typed
<1>4. PositionOK(k, chain)
  BY <1>1, <1>2 DEF PositionOK, AtWork
<1>5. DescriptorsOK(k)
  <2>1. m.pipes = << >> /\ m.channels = << >> /\ m.made \in Nat /\ 0 .. 2 \subseteq DOMAIN m.fds
    BY <1>1 DEF PositionOK, Typed
  <2>2. /\ PipeNumbers(k) = {} /\ PipeNumbers(m) = {} /\ PairsOK(k.fds, k.pipes)
        /\ ChannelsOK(k)
    BY <1>2, <2>1, NoPairs, NoChannels
  <2>3. k.fds[0].pipe = m.fds[0].pipe /\ k.fds[1].pipe = m.fds[1].pipe
        /\ k.fds[0].way = m.fds[0].way /\ k.fds[1].way = m.fds[1].way
    BY <2>1
  <2>4. DOMAIN k.fds = DOMAIN m.fds
    OBVIOUS
  <2> QED
    BY <1>1, <1>2, <2>2, <2>3, <2>4 DEF DescriptorsOK, AtWork
<1> QED
  BY <1>2, <1>3, <1>4, <1>5, ProcessIs DEF Good

-----------------------------------------------------------------------------
(* The table of processes.                                                 *)

LEMMA TableFacts ==
  ASSUME TableOK, NEW q \in DOMAIN procs
  PROVE  /\ Good(procs[q], limits, code) /\ FilesOpen(procs[q], DOMAIN files \cup {Terminal})
         /\ Awaits(procs[q], ChildrenOf(q)) /\ ParentLives(q) /\ q \in limits.pids
BY DEF TableOK

LEMMA OneChanges ==
  ASSUME TableOK, code' = code, limits' = limits, NEW p \in DOMAIN procs, NEW k,
         Good(k, limits, code), FilesOpen(k, DOMAIN files' \cup {Terminal}),
         DOMAIN files \subseteq DOMAIN files',
         k.parent = procs[p].parent, k.state # "zombie", Awaits(k, ChildrenOf(p)),
         p = Main => MainOK(k), procs' = [procs EXCEPT ![p] = k]
  PROVE  TableOK'
<1>1. /\ DOMAIN procs' = DOMAIN procs /\ procs'[p] = k
      /\ \A q \in DOMAIN procs : q # p => procs'[q] = procs[q]
      /\ procs' = [q \in DOMAIN procs' |-> procs'[q]]
  BY DEF TableOK
<1>2. \A q \in DOMAIN procs : procs'[q].parent = procs[q].parent
  BY <1>1
<1>3. \A q : ChildrenOf(q)' = ChildrenOf(q)
  BY <1>1, <1>2 DEF ChildrenOf, Proc
<1>4. ASSUME NEW q \in DOMAIN procs'
      PROVE  /\ Good(procs'[q], limits', code')
             /\ FilesOpen(procs'[q], DOMAIN files' \cup {Terminal})
             /\ Awaits(procs'[q], ChildrenOf(q)') /\ ParentLives(q)'
  <2>1. ParentLives(q)'
    <3>1. ParentLives(q)
      BY <1>1, TableFacts
    <3> QED
      BY <1>1, <1>2, <3>1 DEF ParentLives
  <2>2. CASE q = p
    BY <1>1, <1>3, <2>1, <2>2
  <2>3. CASE q # p
    <3>1. /\ Good(procs[q], limits, code) /\ FilesOpen(procs[q], DOMAIN files \cup {Terminal})
          /\ Awaits(procs[q], ChildrenOf(q)) /\ procs'[q] = procs[q]
      BY <1>1, <2>3, TableFacts
    <3>2. FilesOpen(procs[q], DOMAIN files' \cup {Terminal})
      BY <3>1 DEF FilesOpen
    <3> QED
      BY <1>3, <2>1, <3>1, <3>2
  <2> QED
    BY <2>2, <2>3
<1>5. MainOK(procs'[Main])
  BY <1>1 DEF TableOK
<1>6. Main \in DOMAIN procs' /\ DOMAIN procs' \subseteq limits'.pids
  BY <1>1 DEF TableOK
<1> QED
  BY <1>1, <1>4, <1>5, <1>6 DEF TableOK

(* fork ()                                                                 *)
LEMMA OneForks ==
  ASSUME TableOK, AreLimits(limits), code' = code, limits' = limits, files' = files,
         NEW p \in DOMAIN procs,
         procs[p].state \in AtWork, NEW pid \in limits.pids \ DOMAIN procs, NEW c, NEW k,
         Good(c, limits, code), FilesOpen(c, DOMAIN files \cup {Terminal}),
         c.parent = p, c.state \in {"child", "shell"}, c.waitq = << >>,
         Good(k, limits, code), FilesOpen(k, DOMAIN files \cup {Terminal}),
         k.parent = procs[p].parent, k.state \in AtWork, k.waitq = Append(procs[p].waitq, pid),
         p = Main => MainOK(k), procs' = Put(Put(procs, pid, c), p, k)
  PROVE  TableOK'
<1>1. /\ DOMAIN procs' = DOMAIN procs \cup {pid} /\ procs'[p] = k /\ procs'[pid] = c
      /\ \A q \in DOMAIN procs : q # p => procs'[q] = procs[q]
      /\ procs' = [q \in DOMAIN procs' |-> procs'[q]] /\ p # pid
  <2> DEFINE t == Put(procs, pid, c)
  <2>1. /\ DOMAIN t = DOMAIN procs \cup {pid} /\ t[pid] = c
        /\ \A q \in DOMAIN procs \ {pid} : t[q] = procs[q]
    BY DEF Put
  <2> HIDE DEF t
  <2>2. /\ DOMAIN procs' = DOMAIN t \cup {p} /\ procs'[p] = k
        /\ \A q \in DOMAIN t \ {p} : procs'[q] = t[q]
        /\ procs' = [q \in DOMAIN procs' |-> procs'[q]]
    <3>1. procs' = Put(t, p, k)
      BY DEF t
    <3> QED
      BY <3>1 DEF Put
  <2> QED
    BY <2>1, <2>2
<1>2. \A q \in DOMAIN procs : procs'[q].parent = procs[q].parent
  BY <1>1
<1>3. /\ p \in limits.pids /\ p # Nobody /\ pid # Nobody
  BY DEF TableOK, AreLimits
<1>4. \A q \in DOMAIN procs : procs[q].parent # pid
  <2> SUFFICES ASSUME NEW q \in DOMAIN procs
               PROVE  procs[q].parent # pid
    OBVIOUS
  <2>1. ParentLives(q)
    BY TableFacts
  <2> QED
    BY <1>3, <2>1 DEF ParentLives
<1>5. /\ ChildrenOf(p)' = ChildrenOf(p) \cup {pid} /\ ChildrenOf(pid)' = {}
      /\ \A q \in DOMAIN procs : q # p => ChildrenOf(q)' = ChildrenOf(q)
      /\ pid \notin ChildrenOf(p)
  BY <1>1, <1>2, <1>4 DEF ChildrenOf, Proc
<1>6. Awaits(k, ChildrenOf(p) \cup {pid})
  <2> DEFINE s == procs[p].waitq
  <2>1. Awaits(procs[p], ChildrenOf(p)) /\ s \in Seq(limits.pids)
    BY TableFacts, GoodFacts DEF Typed
  <2>2. EachOnce(s) /\ Range(s) = ChildrenOf(p)
    BY <2>1 DEF Awaits
  <2>3. k.waitq = Append(s, pid)
    OBVIOUS
  <2> HIDE DEF s
  <2>4. /\ Append(s, pid) \in Seq(limits.pids) /\ Len(Append(s, pid)) = Len(s) + 1
        /\ \A i \in 1 .. Len(s) : Append(s, pid)[i] = s[i]
        /\ Append(s, pid)[Len(s) + 1] = pid
    BY <2>1, AppendSeq
  <2> DEFINE a == Append(s, pid)
  <2>5. /\ DOMAIN s = 1 .. Len(s) /\ DOMAIN a = 1 .. Len(s) + 1 /\ Len(s) \in Nat
    BY <2>1, <2>4
  <2>6. /\ \A i \in DOMAIN a : \/ i \in DOMAIN s /\ a[i] = s[i]
                               \/ i = Len(s) + 1 /\ a[i] = pid
        /\ \A i \in DOMAIN s : i \in DOMAIN a /\ a[i] = s[i]
        /\ Len(s) + 1 \in DOMAIN a /\ a[Len(s) + 1] = pid
    BY <2>4, <2>5
  <2>7. \A i \in DOMAIN s : s[i] # pid
    BY <1>5, <2>2 DEF Range
  <2> HIDE DEF a
  <2>8. EachOnce(a)
    BY <2>2, <2>6, <2>7 DEF EachOnce
  <2>9. Range(a) = Range(s) \cup {pid}
    BY <2>6 DEF Range
  <2> QED
    <3>1. k.waitq = a /\ k.state \notin {"child", "program"}
      BY <2>3 DEF a, AtWork
    <3> QED
      BY <2>2, <2>8, <2>9, <3>1 DEF Awaits
<1>7. Awaits(c, {})
  BY EmptySeqs DEF Awaits, EachOnce, Range
<1>8. ASSUME NEW q \in DOMAIN procs'
      PROVE  /\ Good(procs'[q], limits', code')
             /\ FilesOpen(procs'[q], DOMAIN files' \cup {Terminal})
             /\ Awaits(procs'[q], ChildrenOf(q)') /\ ParentLives(q)'
  <2>1. CASE q = pid
    <3>1. ParentLives(q)'
      BY <1>1, <2>1 DEF ParentLives, AtWork
    <3> QED
      BY <1>1, <1>5, <1>7, <2>1, <3>1
  <2>2. CASE q \in DOMAIN procs
    <3>1. ParentLives(q)'
      <4>1. ParentLives(q)
        BY <2>2, TableFacts
      <4>2. k.state # "zombie"
        BY DEF AtWork
      <4> QED
        BY <1>1, <1>2, <2>2, <4>1, <4>2 DEF ParentLives
    <3>2. CASE q = p
      BY <1>1, <1>5, <1>6, <3>1, <3>2
    <3>3. CASE q # p
      <4>1. /\ Good(procs[q], limits, code) /\ FilesOpen(procs[q], DOMAIN files \cup {Terminal})
            /\ Awaits(procs[q], ChildrenOf(q)) /\ procs'[q] = procs[q]
        BY <1>1, <2>2, <3>3, TableFacts
      <4> QED
        BY <1>5, <2>2, <3>1, <3>3, <4>1
    <3> QED
      BY <3>2, <3>3
  <2> QED
    BY <1>1, <2>1, <2>2
<1>9. MainOK(procs'[Main])
  BY <1>1 DEF TableOK
<1>10. Main \in DOMAIN procs' /\ DOMAIN procs' \subseteq limits'.pids
  BY <1>1 DEF TableOK
<1> QED
  BY <1>1, <1>8, <1>9, <1>10 DEF TableOK

(* wait (): the oldest child has left.                                     *)
LEMMA OneReaps ==
  ASSUME TableOK, AreLimits(limits), code' = code, limits' = limits, files' = files,
         NEW p \in DOMAIN procs, procs[p].state = "shell", procs[p].waitq # << >>,
         NEW child, child = Head(procs[p].waitq), child \in DOMAIN procs,
         procs[child].state = "zombie", NEW k,
         Good(k, limits, code), SameBut(procs[p], k, {"waitq"}), k.waitq = Tail(procs[p].waitq),
         p = Main => MainOK(k),
         procs' = [q \in DOMAIN procs \ {child} |-> IF q = p THEN k ELSE procs[q]]
  PROVE  TableOK'
<1> DEFINE s == procs[p].waitq
<1>1. Awaits(procs[p], ChildrenOf(p)) /\ s \in Seq(limits.pids)
  BY TableFacts, GoodFacts DEF Typed
<1>2. EachOnce(s) /\ Range(s) = ChildrenOf(p) /\ s # << >> /\ child = Head(s)
  BY <1>1 DEF Awaits, AtWork
<1>3. k.waitq = Tail(s) /\ k.fds = procs[p].fds /\ k.parent = procs[p].parent
      /\ k.state = "shell"
  BY DEF SameBut, Fields
<1> HIDE DEF s
<1>4. /\ Tail(s) \in Seq(limits.pids) /\ Len(Tail(s)) = Len(s) - 1 /\ Len(s) > 0
      /\ Head(s) = s[1] /\ \A i \in 1 .. Len(s) - 1 : Tail(s)[i] = s[i + 1]
  BY <1>1, <1>2, TailSeq
<1>5. DOMAIN s = 1 .. Len(s) /\ DOMAIN Tail(s) = 1 .. Len(s) - 1 /\ Len(s) \in Nat
  BY <1>1, <1>4
<1>6. child \in ChildrenOf(p) /\ procs[child].parent = p
  <2>1. child \in Range(s)
    BY <1>2, <1>4, <1>5 DEF Range
  <2> QED
    BY <1>2, <2>1 DEF ChildrenOf, Proc
<1>7. child # p /\ child # Main /\ p # Nobody
  <2>1. ParentLives(child) /\ p # Nobody
    BY TableFacts DEF AreLimits
  <2>2. procs[Main].parent = Nobody
    BY DEF TableOK, MainOK
  <2> QED
    BY <1>6, <2>1, <2>2 DEF ParentLives
<1>8. /\ DOMAIN procs' = DOMAIN procs \ {child} /\ procs'[p] = k
      /\ \A q \in DOMAIN procs' : q # p => procs'[q] = procs[q]
      /\ procs' = [q \in DOMAIN procs' |-> procs'[q]]
  BY <1>7
<1>9. \A q \in DOMAIN procs' : procs'[q].parent = procs[q].parent
  BY <1>3, <1>8
<1>10. /\ ChildrenOf(p)' = ChildrenOf(p) \ {child}
       /\ \A q \in DOMAIN procs' : q # p => ChildrenOf(q)' = ChildrenOf(q)
  BY <1>6, <1>8, <1>9 DEF ChildrenOf, Proc
<1>11. Awaits(k, ChildrenOf(p) \ {child})
  <2> DEFINE t == Tail(s)
  <2>1. \A i \in DOMAIN t : i + 1 \in DOMAIN s /\ t[i] = s[i + 1] /\ i + 1 # 1 /\ i \in Nat
    BY <1>4, <1>5
  <2>2. \A i \in DOMAIN s : i = 1 \/ (i - 1 \in DOMAIN t /\ t[i - 1] = s[i])
    BY <1>4, <1>5
  <2>3. \A i \in DOMAIN s : s[i] = child => i = 1
    <3>1. 1 \in DOMAIN s /\ s[1] = child
      BY <1>2, <1>4, <1>5
    <3> QED
      BY <1>2, <3>1 DEF EachOnce
  <2> HIDE DEF t
  <2>4. EachOnce(t)
    <3> SUFFICES ASSUME NEW i \in DOMAIN t, NEW j \in DOMAIN t, t[i] = t[j]
                 PROVE  i = j
      BY DEF EachOnce
    <3>1. i + 1 = j + 1
      BY <1>2, <2>1 DEF EachOnce
    <3> QED
      BY <2>1, <3>1
  <2>5. Range(t) = Range(s) \ {child}
    <3>1. \A i \in DOMAIN t : t[i] \in Range(s) \ {child}
      BY <2>1, <2>3 DEF Range
    <3>2. \A i \in DOMAIN s : s[i] # child => s[i] \in Range(t)
      <4>1. s[1] = child
        BY <1>2, <1>4
      <4> QED
        BY <2>2, <4>1 DEF Range
    <3> QED
      BY <3>1, <3>2 DEF Range
  <2>6. k.waitq = t
    BY <1>3 DEF t
  <2> QED
    BY <1>2, <1>3, <2>4, <2>5, <2>6 DEF Awaits
<1>12. ASSUME NEW q \in DOMAIN procs'
       PROVE  /\ Good(procs'[q], limits', code')
              /\ FilesOpen(procs'[q], DOMAIN files' \cup {Terminal})
              /\ Awaits(procs'[q], ChildrenOf(q)') /\ ParentLives(q)'
  <2>1. ParentLives(q)'
    <3>1. ParentLives(q)
      BY <1>8, TableFacts
    <3> QED
      BY <1>3, <1>8, <1>9, <3>1 DEF ParentLives
  <2>2. CASE q = p
    <3>1. FilesOpen(k, DOMAIN files \cup {Terminal})
      <4>1. FilesOpen(procs[p], DOMAIN files \cup {Terminal})
        BY TableFacts
      <4> QED
        BY <1>3, <4>1 DEF FilesOpen
    <3> QED
      BY <1>8, <1>10, <1>11, <2>1, <2>2, <3>1
  <2>3. CASE q # p
    <3>1. /\ Good(procs[q], limits, code) /\ FilesOpen(procs[q], DOMAIN files \cup {Terminal})
          /\ Awaits(procs[q], ChildrenOf(q)) /\ procs'[q] = procs[q]
      BY <1>8, <2>3, TableFacts
    <3> QED
      BY <1>10, <2>1, <2>3, <3>1
  <2> QED
    BY <2>2, <2>3
<1>13. MainOK(procs'[Main])
  BY <1>7, <1>8 DEF TableOK
<1>14. Main \in DOMAIN procs' /\ DOMAIN procs' \subseteq limits'.pids
  BY <1>7, <1>8 DEF TableOK
<1> QED
  BY <1>8, <1>12, <1>13, <1>14 DEF TableOK

(* _exit (), and the children it leaves to the system.                     *)
LEMMA ZombieGood ==
  ASSUME NEW l, NEW chain, NEW parent \in l.pids \cup {Nobody}
  PROVE  LET k == [Shell EXCEPT !.state = "zombie", !.parent = parent, !.fds = << >>] IN
         /\ Good(k, l, chain) /\ k.parent = parent /\ k.state = "zombie" /\ k.waitq = << >>
         /\ k.fds = << >>
<1> DEFINE k == [Shell EXCEPT !.state = "zombie", !.parent = parent, !.fds = << >>]
<1>1. /\ HasFields(k) /\ k.parent = parent /\ k.state = "zombie" /\ k.fds = << >>
      /\ k.entry = 1 /\ k.waitq = << >> /\ k.made = 0 /\ k.pipes = << >>
      /\ k.channels = << >> /\ k.values = << >> /\ k.call = << >> /\ k.todo = << >>
      /\ k.eof = FALSE
  BY DEF HasFields, Fields, Shell
<1> HIDE DEF k
<1>2. Typed(k, l)
  <2>1. k.waitq \in Seq(l.pids) /\ k.pipes \in Seq(Nat \X Nat) /\ k.channels \in Seq(Nat)
        /\ k.values \in Seq(Seq(STRING)) /\ k.todo \in Seq(STRING)
    BY <1>1, EmptySeqs
  <2>2. k.entry \in Nat /\ k.made \in Nat /\ k.state \in States
    <3>1. k.entry = 1 /\ k.made = 0 /\ k.state = "zombie"
      BY <1>1
    <3> QED
      BY <3>1 DEF States
  <2>3. k.eof \in BOOLEAN
    BY <1>1
  <2>4. k.fds \in [DOMAIN k.fds -> Descriptor(l)] /\ DOMAIN k.fds \subseteq Nat
    BY <1>1
  <2>5. k.parent \in l.pids \cup {Nobody} /\ k.state = "zombie"
    BY <1>1
  <2> QED
    BY <2>1, <2>2, <2>3, <2>4, <2>5 DEF Typed
<1>3. PositionOK(k, chain)
  BY <1>1 DEF PositionOK, AtWork
<1>4. Good(k, l, chain)
  BY <1>1, <1>2, <1>3, ProcessIs DEF Good
<1> QED
  BY <1>1, <1>4 DEF k

LEMMA OrphanGood ==
  ASSUME NEW m, NEW l, NEW chain, Good(m, l, chain)
  PROVE  LET k == [m EXCEPT !.parent = Nobody] IN
         Good(k, l, chain) /\ SameBut(m, k, {"parent"}) /\ k.parent = Nobody
<1> DEFINE k == [m EXCEPT !.parent = Nobody]
<1>1. HasFields(m) /\ Typed(m, l) /\ PositionOK(m, chain)
  BY GoodFacts
<1>2. HasFields(k) /\ SameBut(m, k, {"parent"}) /\ k.parent = Nobody
  BY <1>1 DEF HasFields, Fields, SameBut
<1> HIDE DEF k
<1>3. /\ k.state = m.state /\ k.call = m.call /\ k.made = m.made
      /\ k.fds = m.fds /\ k.pipes = m.pipes /\ k.entry = m.entry /\ k.channels = m.channels
      /\ k.waitq = m.waitq /\ k.todo = m.todo /\ k.eof = m.eof /\ k.values = m.values
  BY <1>2 DEF SameBut, Fields
<1>4. Typed(k, l)
  BY <1>1, <1>2, <1>3 DEF Typed
<1>5. PositionOK(k, chain)
  BY <1>1, <1>3 DEF PositionOK, AtWork
<1>6. m.state \notin {"ending", "zombie"} => DescriptorsOK(k)
  <2>1. Unread(k) = Unread(m) /\ PipeNumbers(k) = PipeNumbers(m)
    BY <1>3 DEF Unread, PipeNumbers
  <2>2. m.state \notin {"ending", "zombie"} => DescriptorsOK(m)
    BY GoodFacts
  <2> QED
    BY <1>3, <2>1, <2>2 DEF DescriptorsOK, ChannelsOK
<1>7. Good(k, l, chain)
  BY <1>2, <1>3, <1>4, <1>5, <1>6, ProcessIs DEF Good
<1> QED
  BY <1>2, <1>7 DEF k

LEMMA OneDies ==
  ASSUME TableOK, AreLimits(limits), code' = code, limits' = limits, files' = files,
         NEW p \in DOMAIN procs, procs[p].state = "ending",
         NEW gone, gone = {c \in ChildrenOf(p) : procs[c].state = "zombie"}
                          \cup (IF procs[p].parent = Nobody /\ p # Main THEN {p} ELSE {}),
         NEW zombie, Good(zombie, limits, code), zombie.parent = procs[p].parent,
         zombie.state = "zombie", zombie.waitq = << >>, zombie.fds = << >>,
         procs' = [q \in DOMAIN procs \ gone |->
                     IF q = p THEN zombie
                     ELSE IF q \in ChildrenOf(p) THEN [procs[q] EXCEPT !.parent = Nobody]
                     ELSE procs[q]]
  PROVE  TableOK'
<1>1. p # Nobody /\ p \notin ChildrenOf(p) /\ Main \notin ChildrenOf(p)
  <2>1. ParentLives(p) /\ p # Nobody
    BY TableFacts DEF AreLimits
  <2>2. procs[Main].parent = Nobody
    BY DEF TableOK, MainOK
  <2> QED
    BY <2>1, <2>2 DEF ParentLives, ChildrenOf, Proc
<1>2. /\ DOMAIN procs' = DOMAIN procs \ gone
      /\ p \in DOMAIN procs' => procs'[p] = zombie
      /\ \A q \in DOMAIN procs' : q # p /\ q \notin ChildrenOf(p) => procs'[q] = procs[q]
      /\ \A q \in DOMAIN procs' : q \in ChildrenOf(p) =>
           procs'[q] = [procs[q] EXCEPT !.parent = Nobody]
      /\ procs' = [q \in DOMAIN procs' |-> procs'[q]]
  BY <1>1
<1>3. ASSUME NEW q \in DOMAIN procs', q \in ChildrenOf(p)
      PROVE  /\ Good(procs'[q], limits, code) /\ SameBut(procs[q], procs'[q], {"parent"})
             /\ procs'[q].parent = Nobody /\ procs[q].parent = p /\ q \in DOMAIN procs
             /\ procs'[q].waitq = procs[q].waitq /\ procs'[q].state = procs[q].state
             /\ procs'[q].fds = procs[q].fds
  <2>1. Good(procs[q], limits, code)
    BY <1>2, TableFacts
  <2>2. Good(procs'[q], limits, code) /\ SameBut(procs[q], procs'[q], {"parent"})
        /\ procs'[q].parent = Nobody
    <3> DEFINE k == [procs[q] EXCEPT !.parent = Nobody]
    <3>1. procs'[q] = k
      BY <1>2, <1>3
    <3>2. Good(k, limits, code) /\ SameBut(procs[q], k, {"parent"}) /\ k.parent = Nobody
      BY <2>1, OrphanGood
    <3> HIDE DEF k
    <3> QED
      BY <3>1, <3>2
  <2> QED
    BY <1>2, <1>3, <2>2 DEF SameBut, Fields, ChildrenOf, Proc
<1>4. \A q \in DOMAIN procs' : q \notin ChildrenOf(p) => procs'[q].parent = procs[q].parent
  BY <1>2
<1>5. \A q \in DOMAIN procs' : q \notin ChildrenOf(p) => procs[q].parent # p
  BY <1>2 DEF ChildrenOf, Proc
<1>6. ChildrenOf(p)' = {}
  BY <1>1, <1>2, <1>3, <1>4, <1>5 DEF ChildrenOf, Proc
<1>7. ASSUME NEW q \in DOMAIN procs', q # p
      PROVE  ChildrenOf(q)' = ChildrenOf(q)
  <2>1. q # Nobody
    BY <1>2, TableFacts DEF AreLimits
  <2>2. \A c \in ChildrenOf(q) : c \in DOMAIN procs' /\ c \notin ChildrenOf(p)
    <3> SUFFICES ASSUME NEW c \in ChildrenOf(q)
                 PROVE  c \in DOMAIN procs' /\ c \notin ChildrenOf(p)
      OBVIOUS
    <3>1. c \in DOMAIN procs /\ procs[c].parent = q
      BY DEF ChildrenOf, Proc
    <3>2. c \notin ChildrenOf(p)
      BY <1>7, <3>1 DEF ChildrenOf, Proc
    <3>3. c \notin gone
      BY <2>1, <3>1, <3>2
    <3> QED
      BY <1>2, <3>1, <3>2, <3>3
  <2>3. \A c \in ChildrenOf(q)' : c \in ChildrenOf(q)
    <3> SUFFICES ASSUME NEW c \in DOMAIN procs', procs'[c].parent = q
                 PROVE  c \in ChildrenOf(q)
      BY DEF ChildrenOf, Proc
    <3>1. c \notin ChildrenOf(p)
      BY <1>3, <2>1
    <3> QED
      BY <1>2, <1>4, <3>1 DEF ChildrenOf, Proc
  <2>4. \A c \in ChildrenOf(q) : c \in ChildrenOf(q)'
    <3> SUFFICES ASSUME NEW c \in ChildrenOf(q)
                 PROVE  c \in DOMAIN procs' /\ procs'[c].parent = q
      BY DEF ChildrenOf, Proc
    <3> QED
      BY <1>4, <2>2 DEF ChildrenOf, Proc
  <2> QED
    BY <2>3, <2>4
<1>8. ASSUME NEW q \in DOMAIN procs'
      PROVE  ParentLives(q)'
  <2>1. ParentLives(q) /\ q \in DOMAIN procs
    BY <1>2, TableFacts
  <2>2. CASE q \in ChildrenOf(p)
    BY <1>3, <2>2 DEF ParentLives
  <2>3. CASE q \notin ChildrenOf(p) /\ procs[q].parent = Nobody
    BY <1>4, <2>3 DEF ParentLives
  <2>4. CASE q \notin ChildrenOf(p) /\ procs[q].parent # Nobody
    <3> DEFINE r == procs[q].parent
    <3>1. r \in DOMAIN procs \ {q} /\ procs[r].state # "zombie"
      BY <2>1, <2>4 DEF ParentLives
    <3>2. r # p
      BY <1>5, <2>4
    <3>3. r \in DOMAIN procs'
      BY <1>2, <3>1, <3>2
    <3>4. procs'[r].state = procs[r].state
      <4>1. CASE r \in ChildrenOf(p)
        BY <1>3, <3>3, <4>1
      <4>2. CASE r \notin ChildrenOf(p)
        BY <1>2, <3>2, <3>3, <4>2
      <4> QED
        BY <4>1, <4>2
    <3>5. procs'[q].parent = r
      BY <1>4, <2>4
    <3> HIDE DEF r
    <3> QED
      BY <3>1, <3>3, <3>4, <3>5 DEF ParentLives
  <2> QED
    BY <2>2, <2>3, <2>4
<1>9. ASSUME NEW q \in DOMAIN procs'
      PROVE  /\ Good(procs'[q], limits', code')
             /\ FilesOpen(procs'[q], DOMAIN files' \cup {Terminal})
             /\ Awaits(procs'[q], ChildrenOf(q)')
  <2>0. q \in DOMAIN procs
    BY <1>2
  <2>1. CASE q = p
    <3>1. Awaits(zombie, {}) /\ FilesOpen(zombie, DOMAIN files \cup {Terminal})
      BY EmptySeqs DEF Awaits, EachOnce, Range, FilesOpen, AtWork
    <3> QED
      BY <1>2, <1>6, <2>1, <3>1
  <2>2. CASE q # p
    <3>1. /\ Good(procs[q], limits, code) /\ FilesOpen(procs[q], DOMAIN files \cup {Terminal})
          /\ Awaits(procs[q], ChildrenOf(q)) /\ ChildrenOf(q)' = ChildrenOf(q)
      BY <1>7, <2>0, <2>2, TableFacts
    <3>2. CASE q \in ChildrenOf(p)
      <4>1. /\ Good(procs'[q], limits, code) /\ procs'[q].waitq = procs[q].waitq
            /\ procs'[q].state = procs[q].state /\ procs'[q].fds = procs[q].fds
        BY <1>3, <3>2
      <4>2. FilesOpen(procs'[q], DOMAIN files \cup {Terminal})
        BY <3>1, <4>1 DEF FilesOpen
      <4>3. Awaits(procs'[q], ChildrenOf(q))
        BY <3>1, <4>1 DEF Awaits
      <4> QED
        BY <3>1, <4>1, <4>2, <4>3
    <3>3. CASE q \notin ChildrenOf(p)
      BY <1>2, <2>2, <3>1, <3>3
    <3> QED
      BY <3>2, <3>3
  <2> QED
    BY <2>1, <2>2
<1>10. Main \in DOMAIN procs' /\ DOMAIN procs' \subseteq limits'.pids
  BY <1>1, <1>2 DEF TableOK
<1>11. MainOK(procs'[Main])
  <2>1. MainOK(procs[Main])
    BY DEF TableOK
  <2>2. CASE p = Main
    <3>1. procs'[Main] = zombie /\ zombie.parent = Nobody
      BY <1>2, <1>10, <2>1, <2>2 DEF MainOK
    <3> QED
      BY <3>1 DEF MainOK, AtWork
  <2>3. CASE p # Main
    BY <1>1, <1>2, <1>10, <2>1, <2>3
  <2> QED
    BY <2>2, <2>3
<1> QED
  BY <1>2, <1>8, <1>9, <1>10, <1>11 DEF TableOK

-----------------------------------------------------------------------------
(* The steps of the shell.                                                 *)

LEMMA SessionFacts ==
  ASSUME SessionOK
  PROVE  IsChain(code) /\ AreLimits(limits)
BY LinesAreChains, LimitsAreLimits DEF SessionOK

LEMMA WorldPipes ==
  ASSUME PipesOK, limits' = limits,
         pipes' = [pipe \in DOMAIN pipes |-> IF pipe \in Used(procs') THEN pipes[pipe] ELSE << >>]
  PROVE  PipesOK'
<1>1. DOMAIN pipes = limits.pipes /\ \A pipe \in limits.pipes : pipes[pipe] \in Seq(STRING)
  BY DEF PipesOK
<1>2. << >> \in Seq(STRING) /\ Len(<< >>) <= Capacity
  BY EmptySeqs, DataAreStrings
<1>3. \A pipe \in limits.pipes : pipes'[pipe] = pipes[pipe] \/ pipes'[pipe] = << >>
  BY <1>1
<1>4. \A pipe \in limits.pipes : pipes'[pipe] \in Seq(STRING) /\ Len(pipes'[pipe]) <= Capacity
  BY <1>1, <1>2, <1>3 DEF PipesOK
<1>5. pipes' = [pipe \in limits.pipes |-> pipes'[pipe]]
  BY <1>1
<1> QED
  BY <1>4, <1>5 DEF PipesOK

LEMMA OneEnds ==
  ASSUME TableOK, code' = code, limits' = limits, NEW p \in DOMAIN procs, NEW x,
         IsProcess(x, limits), x.state # "zombie", x.parent = procs[p].parent,
         FilesOpen(x, DOMAIN files' \cup {Terminal}), DOMAIN files \subseteq DOMAIN files',
         procs' = [procs EXCEPT ![p] = Ending(x)]
  PROVE  TableOK'
<1> DEFINE k == Ending(x)
<1>1. /\ Good(k, limits, code) /\ k.parent = procs[p].parent /\ k.state = "ending"
      /\ k.waitq = << >> /\ k.fds = x.fds
  BY EndingGood, EndingFields
<1>2. FilesOpen(k, DOMAIN files' \cup {Terminal})
  BY <1>1 DEF FilesOpen
<1>3. procs' = [procs EXCEPT ![p] = k]
  OBVIOUS
<1> HIDE DEF k
<1>4. Awaits(k, ChildrenOf(p))
  BY <1>1, EmptySeqs DEF Awaits, EachOnce, AtWork
<1>5. p = Main => MainOK(k)
  BY <1>1 DEF TableOK, MainOK, AtWork
<1> QED
  BY <1>1, <1>2, <1>3, <1>4, <1>5, OneChanges

(* What the pipes of a step, or of an expansion, add to a shell.           *)
Opened(m, x) ==
  /\ HasFields(x) /\ SameBut(m, x, {"fds", "pipes"})
  /\ Len(x.pipes) \in Nat /\ DOMAIN x.pipes = 1 .. Len(x.pipes)
  /\ DOMAIN x.fds = DOMAIN m.fds \cup PipeNumbers(x)
  /\ PipeNumbers(x) \cap DOMAIN m.fds = {}
  /\ \A n \in DOMAIN m.fds : x.fds[n] = m.fds[n]
  /\ PairsOK(x.fds, x.pipes)
  /\ \A n \in PipeNumbers(x) : x.fds[n].pipe # 0

LEMMA StdoutUsed ==
  ASSUME NEW p \in DOMAIN procs, Good(procs[p], limits, code), AreLimits(limits),
         procs[p].state \notin {"ending", "zombie"}
  PROVE  procs[p].fds[1].pipe \notin FreePipes
<1>1. procs[p].fds[1].way = "w" /\ 1 \in DOMAIN procs[p].fds
  BY GoodFacts DEF DescriptorsOK, Typed
<1>2. procs[p].fds[1] \in {e \in Range(procs[p].fds) : e.way = "w"}
  BY <1>1 DEF Range
<1>3. procs[p].fds[1].pipe \in Ends(procs, "w") \cup {0}
  BY <1>2 DEF Ends
<1> QED
  BY <1>3 DEF FreePipes, Used, AreLimits

LEMMA PipeInitGood ==
  ASSUME AreLimits(limits), NEW p \in DOMAIN procs, Good(procs[p], limits, code),
         procs[p].state \notin {"ending", "zombie"},
         NEW m, HasFields(m), Typed(m, limits), m.fds = procs[p].fds, m.state # "zombie",
         NEW n \in Nat, NEW x \in PipeInitMany(m, n)
  PROVE  /\ Typed(x, limits) /\ Opened(m, x) /\ Len(x.pipes) <= n
         /\ \A i \in DOMAIN x.pipes : x.fds[x.pipes[i][1]].pipe \in FreePipes
<1> DEFINE free == FreePipes
           k == Min({n, Cardinality(free)})
           unused == (0 .. Cardinality(DOMAIN m.fds) + 2 * k) \ DOMAIN m.fds
<1>1. PICK pipe \in Lowest(free, k), number \in Lowest(unused, 2 * k) :
        x = Piped(m, k, pipe, number)
  <2>1. x \in PipesFrom(m, k, free, unused)
    BY DEF PipeInitMany
  <2> HIDE DEF k, unused, free
  <2> QED
    BY <2>1 DEF PipesFrom
<1>2. free \in SUBSET limits.pipes
  BY DEF FreePipes
<1>3. k \in Nat /\ k <= n
  <2>1. Cardinality(free) \in Nat
    BY <1>2, FS_Subset, FS_CardinalityType DEF AreLimits
  <2>2. \A a, b \in Nat : Min({a, b}) \in {a, b} /\ Min({a, b}) <= a
    <3> SUFFICES ASSUME NEW a \in Nat, NEW b \in Nat
                 PROVE  Min({a, b}) \in {a, b} /\ Min({a, b}) <= a
      OBVIOUS
    <3>1. \E y \in {a, b} : \A z \in {a, b} : y =< z
      OBVIOUS
    <3> QED
      BY <3>1 DEF Min
  <2> QED
    BY <2>1, <2>2
<1>4. m.fds[1].pipe \notin free
  BY StdoutUsed
<1> HIDE DEF free, k
<1>5. unused \in SUBSET Nat /\ unused \cap DOMAIN m.fds = {}
  OBVIOUS
<1> HIDE DEF unused
<1>6. LET y == Piped(m, k, pipe, number) IN
      /\ HasFields(y) /\ SameBut(m, y, {"fds", "pipes"}) /\ Typed(y, limits)
      /\ Len(y.pipes) = k /\ DOMAIN y.pipes = 1 .. k
      /\ DOMAIN y.fds = DOMAIN m.fds \cup PipeNumbers(y)
      /\ PipeNumbers(y) \cap DOMAIN m.fds = {}
      /\ \A j \in DOMAIN m.fds : y.fds[j] = m.fds[j]
      /\ PairsOK(y.fds, y.pipes)
      /\ \A i \in 1 .. k : y.fds[y.pipes[i][1]].pipe \in free
      /\ \A j \in PipeNumbers(y) : y.fds[j].pipe # 0
  BY <1>2, <1>3, <1>4, <1>5, PipedGood
<1> QED
  BY <1>1, <1>3, <1>6 DEF Opened, free

LEMMA OpenedFiles ==
  ASSUME NEW m, NEW x, Opened(m, x), NEW names, FilesOpen(m, names)
  PROVE  FilesOpen(x, names)
BY DEF Opened, FilesOpen

LEMMA AfterWorld ==
  ASSUME PlumbingInv, TableOK', UNCHANGED <<line, code, limits, files, tty, took, argvs>>,
         NEW ps, World(ps)
  PROVE  PlumbingInv'
<1>1. SessionOK' /\ FilesOK' /\ RecordOK'
  BY DEF PlumbingInv, SessionOK, FilesOK, RecordOK
<1>2. PipesOK'
  BY WorldPipes DEF PlumbingInv, World
<1> QED
  BY <1>1, <1>2 DEF PlumbingInv

LEMMA Invariants ==
  ASSUME PlumbingInv, NEW p \in DOMAIN procs
  PROVE  /\ TableOK /\ SessionOK /\ PipesOK /\ FilesOK /\ RecordOK
         /\ IsChain(code) /\ AreLimits(limits) /\ p \in limits.pids
         /\ Good(procs[p], limits, code) /\ FilesOpen(procs[p], DOMAIN files \cup {Terminal})
         /\ Awaits(procs[p], ChildrenOf(p)) /\ (p = Main => MainOK(procs[p]))
BY SessionFacts, TableFacts DEF PlumbingInv, TableOK

LEMMA OpenPipesKeeps ==
  ASSUME PlumbingInv, NEW p, OpenPipes(p)
  PROVE  PlumbingInv'
<1> DEFINE m == procs[p]
           e == code[m.entry]
<1>1. /\ p \in DOMAIN procs /\ m.state = "shell" /\ e.op = "step"
      /\ UNCHANGED <<line, code, limits, files, tty, took, argvs>>
  BY DEF OpenPipes, Enters, In, Proc, Entry
<1>2. /\ TableOK /\ IsChain(code) /\ AreLimits(limits) /\ Good(m, limits, code)
      /\ FilesOpen(m, DOMAIN files \cup {Terminal}) /\ Awaits(m, ChildrenOf(p))
      /\ p = Main => MainOK(m)
  BY <1>1, Invariants
<1>3. /\ HasFields(m) /\ Typed(m, limits) /\ m.entry \in DOMAIN code /\ m.pipes = << >>
      /\ m.channels = << >> /\ m.made = 0
  BY <1>1, <1>2, GoodFacts DEF PositionOK, AtWork
<1>4. e.pipes \in Nat
  BY <1>1, <1>2, <1>3, StepFacts
<1>5. PICK x \in PipeInitMany(m, e.pipes) :
        World([procs EXCEPT ![p] =
          IF Len(x.pipes) < e.pipes THEN Fail(x)
          ELSE [x EXCEPT !.state = "forking", !.made = 0]])
  BY DEF OpenPipes, Proc, Entry
<1>6. Typed(x, limits) /\ Opened(m, x) /\ Len(x.pipes) <= e.pipes
  <2>1. m.state \notin {"ending", "zombie"} /\ m.fds = procs[p].fds
    BY <1>1
  <2> HIDE DEF e
  <2> QED
    BY <1>1, <1>2, <1>3, <1>4, <2>1, PipeInitGood
<1>7. FilesOpen(x, DOMAIN files \cup {Terminal})
  BY <1>2, <1>6, OpenedFiles
<1>8. CASE Len(x.pipes) < e.pipes
  <2>1. procs' = [procs EXCEPT ![p] = Ending(x)]
    BY <1>5, <1>8 DEF World, Fail
  <2>2. IsProcess(x, limits) /\ x.state # "zombie" /\ x.parent = procs[p].parent
    BY <1>1, <1>6, ProcessIs DEF Opened, SameBut, Fields
  <2>3. TableOK'
    BY <1>1, <1>2, <1>7, <2>1, <2>2, OneEnds
  <2> QED
    BY <1>1, <1>5, <2>3, AfterWorld
<1>9. CASE ~(Len(x.pipes) < e.pipes)
  <2> DEFINE k == Forking(x)
  <2>1. procs' = [procs EXCEPT ![p] = k]
    BY <1>5, <1>9 DEF World, Forking
  <2>2. Len(x.pipes) = e.pipes
    BY <1>4, <1>6, <1>9 DEF Opened
  <2>3. /\ Good(k, limits, code) /\ k.state = "forking" /\ k.parent = m.parent
        /\ k.waitq = m.waitq /\ k.fds = x.fds /\ k.pipes = x.pipes /\ k.entry = m.entry
        /\ k.made = 0 /\ k.channels = << >>
    BY <1>1, <1>2, <1>6, <2>2, OpenGood DEF Opened
  <2> HIDE DEF k
  <2>4. FilesOpen(k, DOMAIN files \cup {Terminal})
    BY <1>7, <2>3 DEF FilesOpen
  <2>5. Awaits(k, ChildrenOf(p))
    BY <1>1, <1>2, <2>3 DEF Awaits, AtWork
  <2>6. p = Main => MainOK(k)
    <3> SUFFICES ASSUME p = Main
                 PROVE  MainOK(k)
      OBVIOUS
    <3>1. /\ m.parent = Nobody
          /\ DOMAIN m.fds = (0 .. 2) \cup ChannelNumbers(m) \cup PipeNumbers(m)
      BY <1>1, <1>2 DEF MainOK, AtWork
    <3>2. ChannelNumbers(m) = {} /\ PipeNumbers(m) = {} /\ ChannelNumbers(k) = {}
      BY <1>3, <2>3, NoChannels, NoPairs
    <3>3. DOMAIN k.fds = DOMAIN m.fds \cup PipeNumbers(k)
      BY <1>6, <2>3 DEF Opened, PipeNumbers
    <3> QED
      BY <2>3, <3>1, <3>2, <3>3 DEF MainOK, AtWork
  <2>7. TableOK'
    <3>1. k.state # "zombie" /\ k.parent = procs[p].parent
      BY <2>3
    <3> QED
      BY <1>1, <1>2, <2>1, <2>3, <2>4, <2>5, <2>6, <3>1, OneChanges
  <2> QED
    BY <1>1, <1>5, <2>7, AfterWorld
<1> QED
  BY <1>8, <1>9

LEMMA LowestPid ==
  ASSUME NEW s \in Lowest(FreePids, 1)
  PROVE  s[1] \in limits.pids \ DOMAIN procs
BY LowestFacts DEF FreePids

LEMMA ForkKeeps ==
  ASSUME PlumbingInv, NEW p, Fork(p)
  PROVE  PlumbingInv'
<1> DEFINE m == procs[p]
           e == code[m.entry]
           call == e.calls[m.made + 1]
           Invoked(c) == [c EXCEPT !.state = "child", !.call = << call >>]
<1>1. /\ p \in DOMAIN procs /\ m.state = "forking" /\ m.made < Len(e.calls)
      /\ UNCHANGED <<line, code, limits, files, tty, took, argvs>>
  BY DEF Fork, In, Proc, Entry
<1>2. /\ TableOK /\ IsChain(code) /\ AreLimits(limits) /\ Good(m, limits, code)
      /\ FilesOpen(m, DOMAIN files \cup {Terminal}) /\ Awaits(m, ChildrenOf(p))
      /\ p = Main => MainOK(m)
      /\ p \in limits.pids
  BY <1>1, Invariants
<1>3. IF FreePids = {} THEN World([procs EXCEPT ![p] = Fail(m)]) ELSE ForkInto(p, m, m, Invoked)
  BY DEF Fork, In, Proc, Entry
<1>4. CASE FreePids = {}
  <2>1. World([procs EXCEPT ![p] = Ending(m)])
    BY <1>3, <1>4 DEF Fail
  <2>2. IsProcess(m, limits) /\ m.state # "zombie"
    BY <1>1, <1>2 DEF Good
  <2>3. procs' = [procs EXCEPT ![p] = Ending(m)] /\ DOMAIN files \subseteq DOMAIN files'
    BY <1>1, <2>1 DEF World
  <2>4. TableOK'
    BY <1>1, <1>2, <2>2, <2>3, OneEnds
  <2> QED
    BY <1>1, <2>1, <2>4, AfterWorld
<1>5. CASE FreePids # {}
  <2> DEFINE c == InvokedBy(m, p, call)
  <2>1. PICK s \in Lowest(FreePids, 1) :
          World(Put(Put(procs, s[1], c), p, [m EXCEPT !.waitq = Append(@, s[1]), !.made = @ + 1]))
    BY <1>3, <1>5 DEF ForkInto, InvokedBy
  <2> DEFINE pid == s[1]
             k == [m EXCEPT !.waitq = Append(@, pid), !.made = @ + 1]
  <2>2. pid \in limits.pids \ DOMAIN procs
    BY LowestPid
  <2>3. procs' = Put(Put(procs, pid, c), p, k)
    BY <2>1 DEF World
  <2> HIDE DEF pid
  <2>4. /\ Good(c, limits, code) /\ c.parent = p /\ c.state = "child" /\ c.fds = m.fds
        /\ c.waitq = << >>
    <3> HIDE DEF m
    <3>1. m.made < Len(code[m.entry].calls)
      BY <1>1
    <3> QED
      BY <1>1, <1>2, <3>1, InvokedGood
  <2> HIDE DEF c
  <2>5. /\ Good(k, limits, code) /\ SameBut(m, k, {"waitq", "made"})
        /\ k.waitq = Append(m.waitq, pid) /\ ChannelNumbers(k) = ChannelNumbers(m)
    <3> HIDE DEF m
    <3> QED
      BY <1>1, <1>2, <2>2, ForkedGood
  <2> HIDE DEF k
  <2>6. k.parent = m.parent /\ k.state = "forking" /\ k.fds = m.fds /\ k.pipes = m.pipes
    BY <1>1, <2>5 DEF SameBut, Fields
  <2>7. FilesOpen(c, DOMAIN files \cup {Terminal}) /\ FilesOpen(k, DOMAIN files \cup {Terminal})
    BY <1>2, <2>4, <2>6 DEF FilesOpen
  <2>8. p = Main => MainOK(k)
    BY <1>1, <1>2, <2>5, <2>6 DEF MainOK, PipeNumbers, AtWork
  <2>9. TableOK'
    <3>1. /\ procs[p].state \in AtWork /\ k.state \in AtWork /\ c.state \in {"child", "shell"}
          /\ k.parent = procs[p].parent /\ k.waitq = Append(procs[p].waitq, pid)
      BY <1>1, <2>4, <2>5, <2>6 DEF AtWork
    <3> QED
      BY <1>1, <1>2, <2>2, <2>3, <2>4, <2>5, <2>7, <2>8, <3>1, OneForks
  <2> QED
    BY <1>1, <2>1, <2>9, AfterWorld
<1> QED
  BY <1>4, <1>5

LEMMA ClosePipesKeeps ==
  ASSUME PlumbingInv, NEW p, ClosePipes(p)
  PROVE  PlumbingInv'
<1> DEFINE m == procs[p]
           k == Resumed(m, code[m.entry].next)
<1>1. /\ p \in DOMAIN procs /\ m.state = "forking"
      /\ UNCHANGED <<line, code, limits, files, tty, took, argvs>>
      /\ World([procs EXCEPT ![p] = k])
  BY DEF ClosePipes, In, Proc, Entry, Resumed
<1>2. /\ TableOK /\ IsChain(code) /\ AreLimits(limits) /\ Good(m, limits, code)
      /\ FilesOpen(m, DOMAIN files \cup {Terminal}) /\ Awaits(m, ChildrenOf(p))
      /\ p = Main => MainOK(m)
  BY <1>1, Invariants
<1>3. procs' = [procs EXCEPT ![p] = k]
  BY <1>1 DEF World
<1>4. /\ Good(k, limits, code) /\ k.parent = m.parent /\ k.state = "shell" /\ k.waitq = m.waitq
      /\ ChannelNumbers(k) = {} /\ PipeNumbers(k) = {}
      /\ ChannelNumbers(m) = {} /\ DOMAIN k.fds = DOMAIN m.fds \ PipeNumbers(m)
      /\ \A n \in DOMAIN k.fds : k.fds[n] = m.fds[n]
  BY <1>1, <1>2, CloseGood
<1> HIDE DEF k
<1>5. FilesOpen(k, DOMAIN files \cup {Terminal})
  BY <1>2, <1>4 DEF FilesOpen
<1>6. Awaits(k, ChildrenOf(p))
  BY <1>1, <1>2, <1>4 DEF Awaits, AtWork
<1>7. p = Main => MainOK(k)
  <2> SUFFICES ASSUME p = Main
               PROVE  MainOK(k)
    OBVIOUS
  <2>1. /\ m.parent = Nobody
        /\ DOMAIN m.fds = (0 .. 2) \cup PipeNumbers(m)
    BY <1>1, <1>2, <1>4 DEF MainOK, AtWork
  <2>2. 0 .. 2 \subseteq DOMAIN k.fds
    BY <1>4, GoodFacts DEF Typed
  <2> QED
    BY <1>4, <2>1, <2>2 DEF MainOK, AtWork
<1>8. TableOK'
  <2>1. k.state # "zombie" /\ k.parent = procs[p].parent /\ DOMAIN files \subseteq DOMAIN files'
        /\ DOMAIN files' = DOMAIN files
    BY <1>1, <1>4
  <2> QED
    BY <1>1, <1>2, <1>3, <1>4, <1>5, <1>6, <1>7, <2>1, OneChanges
<1> QED
  BY <1>1, <1>8, AfterWorld

LEMMA ReapKeeps ==
  ASSUME PlumbingInv, NEW p, Reap(p)
  PROVE  PlumbingInv'
<1> DEFINE m == procs[p]
           child == Head(m.waitq)
           k == [m EXCEPT !.waitq = Tail(@)]
<1>1. /\ p \in DOMAIN procs /\ m.state = "shell" /\ m.waitq # << >>
      /\ child \in DOMAIN procs /\ procs[child].state = "zombie"
      /\ UNCHANGED <<line, code, limits, files, tty, took, argvs>>
      /\ World([q \in DOMAIN procs \ {child} |->
                  IF q = p THEN [procs[q] EXCEPT !.waitq = Tail(@)] ELSE procs[q]])
  BY DEF Reap, In, Proc
<1>2. /\ TableOK /\ IsChain(code) /\ AreLimits(limits) /\ Good(m, limits, code)
      /\ p = Main => MainOK(m)
  BY <1>1, Invariants
<1>3. procs' = [q \in DOMAIN procs \ {child} |-> IF q = p THEN k ELSE procs[q]]
  BY <1>1 DEF World
<1>4. /\ Good(k, limits, code) /\ SameBut(m, k, {"waitq"}) /\ k.waitq = Tail(m.waitq)
      /\ ChannelNumbers(k) = ChannelNumbers(m) /\ PipeNumbers(k) = PipeNumbers(m)
  <2> HIDE DEF m
  <2> QED
    BY <1>1, <1>2, ReapedGood
<1> HIDE DEF k, child
<1>5. p = Main => MainOK(k)
  <2>1. k.parent = m.parent /\ k.state = m.state /\ k.fds = m.fds
    BY <1>4 DEF SameBut, Fields
  <2> QED
    BY <1>2, <1>4, <2>1 DEF MainOK
<1>6. TableOK'
  BY <1>1, <1>2, <1>3, <1>4, <1>5, OneReaps DEF child
<1> QED
  BY <1>1, <1>6, AfterWorld

LEMMA ForkExpansionKeeps ==
  ASSUME PlumbingInv, NEW p, ForkExpansion(p)
  PROVE  PlumbingInv'
<1> DEFINE m == procs[p]
           s == Expanding(m)
           e == code[m.entry]
<1>1. /\ p \in DOMAIN procs /\ m.state \in {"shell", "expanding"}
      /\ m.state = "shell" => e.op = "expand"
      /\ m.made < Len(e.heads)
      /\ UNCHANGED <<line, code, limits, files, tty, took, argvs>>
  BY DEF ForkExpansion, Enters, In, Proc, Entry
<1>2. /\ TableOK /\ IsChain(code) /\ AreLimits(limits) /\ Good(m, limits, code)
      /\ FilesOpen(m, DOMAIN files \cup {Terminal}) /\ Awaits(m, ChildrenOf(p))
      /\ p = Main => MainOK(m)
      /\ p \in limits.pids
  BY <1>1, Invariants
<1>3. /\ HasFields(s) /\ SameBut(m, s, {"state"}) /\ Typed(s, limits) /\ s.state = "expanding"
      /\ m.pipes = << >>
  BY <1>1, <1>2, ExpandingFields
<1>4. PICK x \in PipeInitMany(s, 1) :
        IF x.pipes = << >> \/ FreePids = {} THEN World([procs EXCEPT ![p] = Fail(x)])
        ELSE ForkInto(p, x, KeepReadEnd(x, x.pipes[1]),
                      LAMBDA c : ExpansionChild(c, x.pipes[1], e.heads[x.made + 1]))
  BY DEF ForkExpansion, Proc, Entry, Expanding
<1> HIDE DEF s
<1>5. s.fds = m.fds /\ s.waitq = m.waitq /\ s.made = m.made /\ s.parent = m.parent
  BY <1>3 DEF SameBut, Fields
<1>6. Typed(x, limits) /\ Opened(s, x) /\ Len(x.pipes) <= 1
  <2>1. /\ m.state \notin {"ending", "zombie"} /\ s.state # "zombie" /\ 1 \in Nat
        /\ s.fds = procs[p].fds
    BY <1>1, <1>3, <1>5
  <2> QED
    BY <1>1, <1>2, <1>3, <2>1, PipeInitGood
<1>7. /\ x.parent = m.parent /\ x.state = "expanding" /\ x.made = m.made
      /\ SameBut(m, x, {"fds", "pipes", "state"}) /\ x.waitq = m.waitq
  BY <1>3, <1>5, <1>6 DEF SameBut, Fields, Opened
<1>8. FilesOpen(x, DOMAIN files \cup {Terminal})
  <2>1. FilesOpen(s, DOMAIN files \cup {Terminal})
    BY <1>2, <1>5 DEF FilesOpen
  <2> QED
    BY <1>6, <2>1, OpenedFiles
<1>9. CASE x.pipes = << >> \/ FreePids = {}
  <2>1. World([procs EXCEPT ![p] = Ending(x)])
    BY <1>4, <1>9 DEF Fail
  <2>2. /\ procs' = [procs EXCEPT ![p] = Ending(x)] /\ DOMAIN files \subseteq DOMAIN files'
        /\ DOMAIN files' = DOMAIN files
    BY <1>1, <2>1 DEF World
  <2>3. IsProcess(x, limits) /\ x.state # "zombie" /\ x.parent = procs[p].parent
    BY <1>6, <1>7, ProcessIs DEF Opened
  <2>4. TableOK'
    BY <1>1, <1>2, <1>8, <2>2, <2>3, OneEnds
  <2> QED
    BY <1>1, <2>1, <2>4, AfterWorld
<1>10. CASE x.pipes # << >> /\ FreePids # {}
  <2> DEFINE head == e.heads[m.made + 1]
             c == ExpansionBy(x, p, head)
  <2>1. PICK t \in Lowest(FreePids, 1) : World(Put(Put(procs, t[1], c), p, KeptBy(x, t[1])))
    BY <1>4, <1>7, <1>10 DEF ForkInto, ExpansionBy, KeptBy
  <2> DEFINE pid == t[1]
             k == KeptBy(x, pid)
             r == x.pipes[1][1]
  <2>2. pid \in limits.pids \ DOMAIN procs
    BY LowestPid
  <2>3. procs' = Put(Put(procs, pid, c), p, k)
    BY <2>1 DEF World
  <2> HIDE DEF pid
  <2>4. /\ HasFields(x) /\ Len(x.pipes) = 1 /\ DOMAIN x.pipes = 1 .. 1
        /\ DOMAIN x.fds = DOMAIN m.fds \cup PipeNumbers(x)
        /\ PipeNumbers(x) \cap DOMAIN m.fds = {}
        /\ \A n \in DOMAIN m.fds : x.fds[n] = m.fds[n]
        /\ PairsOK(x.fds, x.pipes)
    <3> DEFINE n == Len(x.pipes)
    <3>1. n \in Nat /\ x.pipes \in Seq(Nat \X Nat) /\ n <= 1
      BY <1>6 DEF Opened, Typed
    <3>2. n # 0
      BY <1>10, <3>1
    <3>3. n = 1
      <4> HIDE DEF n
      <4> QED
        BY <3>1, <3>2
    <3> QED
      BY <1>5, <1>6, <3>3 DEF Opened
  <2>5. IsExpansion(c, x, m, limits, code, p, head)
    BY <1>1, <1>2, <1>6, <1>7, <2>4, ExpansionGood
  <2> HIDE DEF c
  <2>6. /\ Good(k, limits, code) /\ k.parent = m.parent /\ k.state = "expanding"
        /\ k.waitq = Append(m.waitq, pid)
        /\ DOMAIN k.fds = DOMAIN m.fds \cup {r} /\ k.fds[r].pipe # 0
        /\ \A n \in DOMAIN m.fds : k.fds[n] = m.fds[n]
        /\ ChannelNumbers(k) = ChannelNumbers(m) \cup {r} /\ PipeNumbers(k) = {}
        /\ PipeNumbers(m) = {}
    BY <1>1, <1>2, <1>6, <1>7, <2>2, <2>4, ExpandedGood
  <2> HIDE DEF k, r
  <2>7. FilesOpen(c, DOMAIN files \cup {Terminal}) /\ FilesOpen(k, DOMAIN files \cup {Terminal})
    BY <1>2, <2>5, <2>6 DEF FilesOpen, IsExpansion
  <2>8. p = Main => MainOK(k)
    BY <1>1, <1>2, <2>6 DEF MainOK, AtWork
  <2>9. TableOK'
    <3>1. /\ procs[p].state \in AtWork /\ k.state \in AtWork /\ c.state \in {"child", "shell"}
          /\ k.parent = procs[p].parent /\ k.waitq = Append(procs[p].waitq, pid)
          /\ code' = code /\ limits' = limits /\ files' = files
      BY <1>1, <2>5, <2>6 DEF AtWork, IsExpansion
    <3> QED
      BY <1>1, <1>2, <2>2, <2>3, <2>5, <2>6, <2>7, <2>8, <3>1, OneForks DEF IsExpansion
  <2> QED
    BY <1>1, <2>1, <2>9, AfterWorld
<1> QED
  BY <1>9, <1>10

(* A shell that only changes its place, its values or its channels.        *)
LEMMA MovesOn ==
  ASSUME PlumbingInv, code' = code, limits' = limits, files' = files,
         NEW p \in DOMAIN procs, procs[p].state \in AtWork, NEW k, Good(k, limits, code),
         k.parent = procs[p].parent, k.state \in AtWork, k.waitq = procs[p].waitq,
         \A n \in DOMAIN k.fds : n \in DOMAIN procs[p].fds /\ k.fds[n] = procs[p].fds[n],
         p = Main => DOMAIN k.fds = (0 .. 2) \cup ChannelNumbers(k) \cup PipeNumbers(k),
         procs' = [procs EXCEPT ![p] = k]
  PROVE  TableOK'
<1>1. /\ TableOK /\ FilesOpen(procs[p], DOMAIN files \cup {Terminal})
      /\ Awaits(procs[p], ChildrenOf(p)) /\ (p = Main => MainOK(procs[p]))
  BY Invariants
<1>2. FilesOpen(k, DOMAIN files \cup {Terminal})
  BY <1>1 DEF FilesOpen
<1>3. Awaits(k, ChildrenOf(p))
  BY <1>1 DEF Awaits, AtWork
<1>4. p = Main => MainOK(k)
  BY <1>1 DEF MainOK, AtWork
<1>5. k.state # "zombie"
  BY DEF AtWork
<1> QED
  BY <1>1, <1>2, <1>3, <1>4, <1>5, OneChanges

LEMMA ExpansionsMadeKeeps ==
  ASSUME PlumbingInv, NEW p, ExpansionsMade(p)
  PROVE  PlumbingInv'
<1> DEFINE m == procs[p]
           k == Splicing(m, code[m.entry])
<1>1. /\ p \in DOMAIN procs /\ m.state = "expanding" /\ m.made = Len(code[m.entry].heads)
      /\ UNCHANGED <<line, code, limits, files, tty, took, argvs>>
      /\ World([procs EXCEPT ![p] = k])
  BY DEF ExpansionsMade, In, Proc, Entry, Splicing
<1>2. Good(m, limits, code) /\ IsChain(code) /\ (p = Main => MainOK(m))
  BY <1>1, Invariants
<1>3. /\ Good(k, limits, code) /\ k.parent = m.parent /\ k.state = "shell"
      /\ k.waitq = m.waitq /\ k.fds = m.fds /\ ChannelNumbers(k) = ChannelNumbers(m)
      /\ PipeNumbers(k) = {} /\ PipeNumbers(m) = {}
  BY <1>1, <1>2, MadeGood
<1>4. procs' = [procs EXCEPT ![p] = k]
  BY <1>1 DEF World
<1> HIDE DEF k
<1>5. p = Main => DOMAIN k.fds = (0 .. 2) \cup ChannelNumbers(k) \cup PipeNumbers(k)
  BY <1>1, <1>2, <1>3 DEF MainOK, AtWork
<1>6. TableOK'
  <2>1. m.state \in AtWork /\ k.state \in AtWork
    BY <1>1, <1>3 DEF AtWork
  <2> QED
    BY <1>1, <1>3, <1>4, <1>5, <2>1, MovesOn
<1> QED
  BY <1>1, <1>6, AfterWorld

LEMMA TailPipes ==
  ASSUME PipesOK, limits' = limits, NEW pipe \in limits.pipes, pipes[pipe] # << >>,
         pipes' = [pipes EXCEPT ![pipe] = Tail(@)]
  PROVE  PipesOK' /\ Head(pipes[pipe]) \in STRING
<1>1. /\ DOMAIN pipes = limits.pipes /\ \A x \in limits.pipes : pipes[x] \in Seq(STRING)
      /\ \A x \in limits.pipes : Len(pipes[x]) <= Capacity
      /\ pipes = [x \in limits.pipes |-> pipes[x]]
  BY DEF PipesOK
<1> DEFINE s == pipes[pipe]
<1>2. /\ Tail(s) \in Seq(STRING) /\ Len(Tail(s)) = Len(s) - 1 /\ Len(s) > 0
      /\ Head(s) \in STRING
  BY <1>1, TailSeq
<1>3. Len(s) <= Capacity /\ Len(s) \in Nat /\ Capacity \in Nat
  <2>1. Capacity \in Nat
    BY DataAreStrings
  <2>2. s \in Seq(STRING) /\ Len(s) <= Capacity
    BY <1>1
  <2> HIDE DEF s
  <2> QED
    BY <2>1, <2>2
<1>4. /\ pipes'[pipe] = Tail(s) /\ \A x \in limits.pipes : x # pipe => pipes'[x] = pipes[x]
      /\ pipes' = [x \in limits.pipes |-> pipes'[x]]
  BY <1>1
<1> HIDE DEF s
<1>5. \A x \in limits.pipes : pipes'[x] \in Seq(STRING) /\ Len(pipes'[x]) <= Capacity
  <2>1. Len(Tail(s)) <= Capacity
    BY <1>2, <1>3
  <2> QED
    BY <1>1, <1>2, <1>4, <2>1
<1> QED
  BY <1>2, <1>4, <1>5 DEF PipesOK, s

LEMMA SpliceReadKeeps ==
  ASSUME PlumbingInv, NEW p, SpliceRead(p)
  PROVE  PlumbingInv'
<1> DEFINE m == procs[p]
           pipe == m.fds[m.channels[m.made + 1]].pipe
           datum == Head(pipes[pipe])
           k == Spliced(m, datum)
<1>1. /\ p \in DOMAIN procs /\ m.state = "shell" /\ code[m.entry].op = "splice"
      /\ UNCHANGED <<line, code, limits, files, tty, took, argvs>>
      /\ pipes[pipe] # << >>
      /\ procs' = [procs EXCEPT ![p] = IF datum = Unreadable THEN Fail(m) ELSE k]
      /\ pipes' = [pipes EXCEPT ![pipe] = Tail(@)]
  BY DEF SpliceRead, Enters, In, Proc, Entry, Spliced
<1>2. /\ Good(m, limits, code) /\ IsChain(code) /\ TableOK /\ PipesOK
      /\ FilesOpen(m, DOMAIN files \cup {Terminal}) /\ (p = Main => MainOK(m))
  BY <1>1, Invariants
<1>3. pipe \in limits.pipes
  BY <1>1, <1>2, SpliceGood
<1>4. PipesOK' /\ datum \in STRING
  <2> HIDE DEF pipe
  <2> QED
    BY <1>1, <1>2, <1>3, TailPipes
<1> HIDE DEF pipe, datum
<1>5. TableOK'
  <2>1. CASE datum = Unreadable
    <3>1. procs' = [procs EXCEPT ![p] = Ending(m)]
      BY <1>1, <2>1 DEF Fail
    <3>2. IsProcess(m, limits) /\ m.state # "zombie" /\ DOMAIN files \subseteq DOMAIN files'
          /\ DOMAIN files' = DOMAIN files
      BY <1>1, <1>2 DEF Good
    <3> QED
      BY <1>1, <1>2, <3>1, <3>2, OneEnds
  <2>2. CASE datum # Unreadable
    <3>1. procs' = [procs EXCEPT ![p] = k]
      BY <1>1, <2>2
    <3>2. /\ Good(k, limits, code) /\ SameBut(m, k, {"values"})
          /\ ChannelNumbers(k) = ChannelNumbers(m) /\ PipeNumbers(k) = PipeNumbers(m)
      BY <1>1, <1>2, <1>4, SplicedGood
    <3> HIDE DEF k
    <3>3. k.parent = m.parent /\ k.state = "shell" /\ k.fds = m.fds /\ k.waitq = m.waitq
      BY <1>1, <3>2 DEF SameBut, Fields
    <3>4. p = Main => DOMAIN k.fds = (0 .. 2) \cup ChannelNumbers(k) \cup PipeNumbers(k)
      BY <1>1, <1>2, <3>2, <3>3 DEF MainOK, AtWork
    <3>5. m.state \in AtWork /\ k.state \in AtWork
      BY <1>1, <3>3 DEF AtWork
    <3> QED
      BY <1>1, <3>1, <3>2, <3>3, <3>4, <3>5, MovesOn
  <2> QED
    BY <2>1, <2>2
<1>6. SessionOK' /\ FilesOK' /\ RecordOK'
  BY <1>1 DEF PlumbingInv, SessionOK, FilesOK, RecordOK
<1> QED
  BY <1>4, <1>5, <1>6 DEF PlumbingInv

LEMMA SpliceEndKeeps ==
  ASSUME PlumbingInv, NEW p, SpliceEnd(p)
  PROVE  PlumbingInv'
<1> DEFINE m == procs[p]
           n == m.channels[m.made + 1]
           k == ReadOn(m, n, code[m.entry])
<1>1. /\ p \in DOMAIN procs /\ m.state = "shell" /\ code[m.entry].op = "splice"
      /\ UNCHANGED <<line, code, limits, files, tty, took, argvs>>
      /\ World([procs EXCEPT ![p] = k])
  BY DEF SpliceEnd, Enters, In, Proc, Entry, ReadOn
<1>2. Good(m, limits, code) /\ IsChain(code) /\ (p = Main => MainOK(m))
  BY <1>1, Invariants
<1>3. /\ Good(k, limits, code) /\ k.parent = m.parent /\ k.state = "shell"
      /\ k.waitq = m.waitq /\ DOMAIN k.fds = DOMAIN m.fds \ {n}
      /\ \A j \in DOMAIN k.fds : k.fds[j] = m.fds[j]
      /\ ChannelNumbers(k) = ChannelNumbers(m) \ {n} /\ n > 2
      /\ PipeNumbers(k) = {} /\ PipeNumbers(m) = {}
  BY <1>1, <1>2, SpliceEndGood, SMTT(60)
<1>4. procs' = [procs EXCEPT ![p] = k]
  BY <1>1 DEF World
<1> HIDE DEF k, n
<1>5. p = Main => DOMAIN k.fds = (0 .. 2) \cup ChannelNumbers(k) \cup PipeNumbers(k)
  <2>1. n \notin 0 .. 2
    BY <1>3
  <2> QED
    BY <1>1, <1>2, <1>3, <2>1 DEF MainOK, AtWork
<1>6. TableOK'
  <2>1. m.state \in AtWork /\ k.state \in AtWork
    BY <1>1, <1>3 DEF AtWork
  <2> QED
    BY <1>1, <1>3, <1>4, <1>5, <2>1, MovesOn
<1> QED
  BY <1>1, <1>6, AfterWorld

(* A process that ends and touches nothing but itself.                     *)
LEMMA EndingKeeps ==
  ASSUME PlumbingInv, NEW p \in DOMAIN procs, procs[p].state # "zombie",
         procs' = [procs EXCEPT ![p] = Ending(@)],
         UNCHANGED <<line, code, limits, pipes, files, tty, took, argvs>>
  PROVE  PlumbingInv'
<1>1. /\ Good(procs[p], limits, code) /\ TableOK /\ FilesOpen(procs[p], DOMAIN files \cup {Terminal})
  BY Invariants
<1>2. TableOK'
  <2>1. /\ IsProcess(procs[p], limits) /\ DOMAIN files \subseteq DOMAIN files'
        /\ DOMAIN files' = DOMAIN files /\ code' = code /\ limits' = limits
        /\ procs' = [procs EXCEPT ![p] = Ending(procs[p])]
    BY <1>1 DEF Good
  <2> QED
    BY <1>1, <2>1, OneEnds
<1> QED
  BY <1>2 DEF PlumbingInv, SessionOK, PipesOK, FilesOK, RecordOK

LEMMA EnterLastKeeps ==
  ASSUME PlumbingInv, NEW p, EnterLast(p)
  PROVE  PlumbingInv'
BY EndingKeeps DEF EnterLast, Enters, In, Proc

(* Programs: a command started, or not; what it reads and says.            *)
LEMMA IsSeq ==
  ASSUME NEW S, NEW n \in Nat, NEW f \in [1 .. n -> S]
  PROVE  f \in Seq(S)
OBVIOUS

LEMMA LoadedWords ==
  ASSUME NEW m, NEW l, Typed(m, l), NEW call, NEW n, CallOK(call, n),
         \A k \in DOMAIN call.argv :
           "word" \in DOMAIN call.argv[k] \/ call.argv[k].value \in 1 .. Len(m.values)
  PROVE  Loaded(m, call.argv) \in Seq(Seq(STRING))
<1> DEFINE argv == call.argv
           words == Loaded(m, argv)
           len == Len(argv)
<1>1. len \in Nat /\ DOMAIN argv = 1 .. len
  BY DEF CallOK
<1>2. \A i \in DOMAIN argv : words[i] \in Seq(STRING)
  <2> SUFFICES ASSUME NEW i \in DOMAIN argv PROVE words[i] \in Seq(STRING)
    OBVIOUS
  <2>1. CASE "word" \in DOMAIN argv[i]
    <3>1. words[i] = << argv[i].word >> /\ argv[i].word \in STRING
      BY <2>1 DEF Loaded, CallOK
    <3> QED
      BY <3>1
  <2>2. CASE "word" \notin DOMAIN argv[i]
    <3>1. words[i] = m.values[argv[i].value] /\ argv[i].value \in 1 .. Len(m.values)
      BY <2>2 DEF Loaded
    <3>2. m.values \in Seq(Seq(STRING))
      BY DEF Typed
    <3> QED
      BY <3>1, <3>2
  <2> QED
    BY <2>1, <2>2
<1>3. words = [i \in DOMAIN argv |-> words[i]]
  BY DEF Loaded
<1> HIDE DEF words, argv, len
<1>4. words \in [1 .. len -> Seq(STRING)]
  BY <1>1, <1>2, <1>3
<1>5. words \in Seq(Seq(STRING))
  BY <1>1, <1>4, IsSeq
<1> QED
  BY <1>5 DEF words, argv

(* A process that is no shell becomes a program, or is about to end.       *)
LEMMA Leaves ==
  ASSUME TableOK, code' = code, limits' = limits, NEW p \in DOMAIN procs, NEW k,
         Good(k, limits, code), k.state \in {"program", "ending"}, k.waitq = << >>,
         k.parent = procs[p].parent, FilesOpen(k, DOMAIN files' \cup {Terminal}),
         DOMAIN files \subseteq DOMAIN files', procs[p].state \in {"child", "program"},
         procs' = [procs EXCEPT ![p] = k]
  PROVE  TableOK'
<1>1. Awaits(procs[p], ChildrenOf(p)) /\ (p = Main => MainOK(procs[p]))
  BY DEF TableOK
<1>2. p # Main /\ ChildrenOf(p) = {}
  BY <1>1 DEF MainOK, Awaits
<1>3. Awaits(k, ChildrenOf(p))
  BY <1>2 DEF Awaits, AtWork, EachOnce
<1>4. k.state # "zombie"
  OBVIOUS
<1> QED
  BY <1>2, <1>3, <1>4, OneChanges

LEMMA StartKeeps ==
  ASSUME PlumbingInv, NEW p, Start(p)
  PROVE  PlumbingInv'
<1> DEFINE m == procs[p]
           call == m.call[1]
           in == WithStdin(m)
           out == Rewired(m)
           words == Loaded(m, call.argv)
           name == Named(call, words)
           names == DOMAIN files \cup {Terminal}
<1>1. /\ p \in DOMAIN procs /\ m.state = "child"
      /\ UNCHANGED <<line, code, limits, tty, took>>
      /\ \/ procs' = [procs EXCEPT ![p] = Ending(m)] /\ UNCHANGED <<files, argvs>>
         \/ /\ ~Cannot(call.in) /\ procs' = [procs EXCEPT ![p] = Ending(in)]
            /\ UNCHANGED <<files, argvs>>
         \/ /\ ~Cannot(call.in) /\ ~Cannot(call.out) /\ files' = Truncated(call.out)
            /\ \/ /\ name \in DOMAIN Does /\ procs' = [procs EXCEPT ![p] = Executed(out, name)]
                  /\ argvs' = Put(argvs, name, words)
               \/ procs' = [procs EXCEPT ![p] = Ending(out)] /\ UNCHANGED argvs
  BY DEF Start, In, Proc, World, WithStdin, Rewired
<1>2. pipes' = [pipe \in DOMAIN pipes |-> IF pipe \in Used(procs') THEN pipes[pipe] ELSE << >>]
  BY DEF Start, World
<1>3. /\ TableOK /\ IsChain(code) /\ Good(m, limits, code) /\ FilesOpen(m, names)
      /\ PipesOK /\ FilesOK /\ RecordOK /\ SessionOK /\ Typed(m, limits)
  BY <1>1, Invariants, GoodFacts
<1>4. StartOK(m, limits, code, names)
  BY <1>1, <1>3, StartGood
<1> HIDE DEF m, in, out
<1>5. /\ Good(Ending(m), limits, code) /\ Good(Ending(in), limits, code) /\ in.parent = m.parent
      /\ Good(Ending(out), limits, code) /\ out.parent = m.parent
      /\ FilesOpen(in, names \cup Opens(call.in))
      /\ FilesOpen(out, names \cup Opens(call.in) \cup Opens(call.out))
      /\ CallOK(call, Len(m.pipes)) /\ call \in Range(code[m.entry].calls)
      /\ UsesValues(code[m.entry], Len(m.values))
      /\ \A c \in DOMAIN Does :
           /\ Good(Executed(out, c), limits, code)
           /\ Executed(out, c).parent = m.parent
           /\ Executed(out, c).fds = out.fds /\ Executed(out, c).waitq = << >>
           /\ Executed(out, c).state = "program"
  BY <1>4 DEF StartOK, in, out
<1>6. words \in Seq(Seq(STRING))
  <2>1. \A k \in DOMAIN call.argv :
          "word" \in DOMAIN call.argv[k] \/ call.argv[k].value \in 1 .. Len(m.values)
    BY <1>5 DEF UsesValues, Range
  <2> QED
    BY <1>3, <1>5, <2>1, LoadedWords
<1> HIDE DEF words, name
<1>7. SessionOK' /\ PipesOK'
  BY <1>1, <1>2, <1>3, WorldPipes DEF SessionOK
<1>8. ASSUME ~Cannot(call.in), DOMAIN files \subseteq DOMAIN files'
      PROVE  FilesOpen(in, DOMAIN files' \cup {Terminal})
  <2>1. Opens(call.in) \subseteq DOMAIN files
    BY <1>5, <1>8 DEF Opens, Cannot, Exists, CallOK, RedirectOK, Piping
  <2> QED
    BY <1>5, <1>8, <2>1 DEF FilesOpen
<1>9. ASSUME ~Cannot(call.in), ~Cannot(call.out), files' = Truncated(call.out)
      PROVE  /\ FilesOK' /\ DOMAIN files \subseteq DOMAIN files'
             /\ FilesOpen(out, DOMAIN files' \cup {Terminal})
  <2>1. FilesOK' /\ DOMAIN files \subseteq DOMAIN files' /\ Opens(call.out) \subseteq DOMAIN files'
    <3>1. CASE call.out # << >> /\ call.out[1].op = ">"
      <4>1. files' = Put(files, call.out[1].file.value, << >>) /\ << >> \in Seq(STRING)
        BY <1>9, <3>1, EmptySeqs DEF Truncated
      <4>2. files \in [DOMAIN files -> Seq(STRING)] /\ DOMAIN FilesFound \subseteq DOMAIN files
        BY <1>3 DEF FilesOK
      <4>3. /\ files' \in [DOMAIN files' -> Seq(STRING)]
            /\ DOMAIN files' = DOMAIN files \cup {call.out[1].file.value}
        BY <4>1, <4>2 DEF Put
      <4> QED
        BY <4>2, <4>3 DEF FilesOK, Opens
    <3>2. CASE ~(call.out # << >> /\ call.out[1].op = ">")
      <4>1. files' = files
        BY <1>9, <3>2 DEF Truncated
      <4>2. Opens(call.out) \subseteq DOMAIN files
        BY <1>5, <1>9, <3>2 DEF Opens, Cannot, Exists, CallOK, RedirectOK, Piping
      <4> QED
        BY <1>3, <4>1, <4>2 DEF FilesOK
    <3> QED
      BY <3>1, <3>2
  <2>2. Opens(call.in) \subseteq DOMAIN files
    BY <1>5, <1>9 DEF Opens, Cannot, Exists, CallOK, RedirectOK, Piping
  <2> QED
    BY <1>5, <2>1, <2>2 DEF FilesOpen
<1>10. TableOK' /\ FilesOK' /\ RecordOK'
  <2>1. CASE procs' = [procs EXCEPT ![p] = Ending(m)] /\ UNCHANGED <<files, argvs>>
    <3>1. /\ Ending(m).state = "ending" /\ Ending(m).waitq = << >> /\ Ending(m).fds = m.fds
          /\ Ending(m).parent = m.parent
      BY EndingFields
    <3>2. FilesOpen(Ending(m), DOMAIN files' \cup {Terminal})
      BY <1>3, <2>1, <3>1 DEF FilesOpen
    <3>3. TableOK'
      BY <1>1, <1>3, <1>5, <2>1, <3>1, <3>2, Leaves DEF m
    <3> QED
      BY <1>1, <1>3, <2>1, <3>3 DEF FilesOK, RecordOK
  <2>2. CASE /\ ~Cannot(call.in) /\ procs' = [procs EXCEPT ![p] = Ending(in)]
             /\ UNCHANGED <<files, argvs>>
    <3>1. /\ Ending(in).state = "ending" /\ Ending(in).waitq = << >> /\ Ending(in).fds = in.fds
          /\ Ending(in).parent = m.parent
      BY <1>5, EndingFields
    <3>2. FilesOpen(Ending(in), DOMAIN files' \cup {Terminal})
      BY <1>8, <2>2, <3>1 DEF FilesOpen
    <3>3. TableOK'
      BY <1>1, <1>3, <1>5, <2>2, <3>1, <3>2, Leaves DEF m
    <3> QED
      BY <1>1, <1>3, <2>2, <3>3 DEF FilesOK, RecordOK
  <2>3. CASE /\ ~Cannot(call.in) /\ ~Cannot(call.out) /\ files' = Truncated(call.out)
             /\ procs' = [procs EXCEPT ![p] = Ending(out)] /\ UNCHANGED argvs
    <3>1. /\ Ending(out).state = "ending" /\ Ending(out).waitq = << >> /\ Ending(out).fds = out.fds
          /\ Ending(out).parent = m.parent
      BY <1>5, EndingFields
    <3>2. FilesOpen(Ending(out), DOMAIN files' \cup {Terminal}) /\ FilesOK'
          /\ DOMAIN files \subseteq DOMAIN files'
      BY <1>9, <2>3, <3>1 DEF FilesOpen
    <3>3. TableOK'
      BY <1>1, <1>3, <1>5, <2>3, <3>1, <3>2, Leaves DEF m
    <3> QED
      BY <1>1, <1>3, <2>3, <3>2, <3>3 DEF RecordOK
  <2>4. CASE /\ ~Cannot(call.in) /\ ~Cannot(call.out) /\ files' = Truncated(call.out)
             /\ name \in DOMAIN Does /\ procs' = [procs EXCEPT ![p] = Executed(out, name)]
             /\ argvs' = Put(argvs, name, words)
    <3>1. /\ Good(Executed(out, name), limits, code)
          /\ Executed(out, name).parent = m.parent
          /\ Executed(out, name).fds = out.fds /\ Executed(out, name).waitq = << >>
          /\ Executed(out, name).state = "program"
      BY <1>5, <2>4
    <3>2. FilesOpen(Executed(out, name), DOMAIN files' \cup {Terminal}) /\ FilesOK'
          /\ DOMAIN files \subseteq DOMAIN files'
      BY <1>9, <2>4, <3>1 DEF FilesOpen
    <3>3. TableOK'
      BY <1>1, <1>3, <2>4, <3>1, <3>2, Leaves DEF m
    <3>4. /\ argvs' \in [DOMAIN argvs' -> Seq(Seq(STRING))] /\ DOMAIN argvs' \subseteq DOMAIN Does
      <4>1. argvs \in [DOMAIN argvs -> Seq(Seq(STRING))] /\ DOMAIN argvs \subseteq DOMAIN Does
        BY <1>3 DEF RecordOK
      <4>2. argvs' = Put(argvs, name, words) /\ name \in DOMAIN Does
        BY <2>4
      <4>3. argvs' \in [DOMAIN argvs' -> Seq(Seq(STRING))]
            /\ DOMAIN argvs' = DOMAIN argvs \cup {name}
        BY <1>6, <4>1, <4>2 DEF Put
      <4> QED
        BY <4>1, <4>2, <4>3
    <3> QED
      BY <1>1, <1>3, <3>2, <3>3, <3>4 DEF RecordOK
  <2> QED
    BY <1>1, <2>1, <2>2, <2>3, <2>4
<1> QED
  BY <1>7, <1>10 DEF PlumbingInv

LEMMA RunKeeps ==
  ASSUME PlumbingInv, NEW p \in DOMAIN procs, procs[p].state = "program", NEW k, HasFields(k),
         SameBut(procs[p], k, {"fds", "todo", "eof"}), k.todo \in Seq(STRING), k.eof \in BOOLEAN,
         k.fds \in [DOMAIN procs[p].fds -> Descriptor(limits)],
         \A n \in DOMAIN procs[p].fds :
           /\ k.fds[n].pipe = procs[p].fds[n].pipe /\ k.fds[n].way = procs[p].fds[n].way
           /\ k.fds[n].file = procs[p].fds[n].file,
         line' = line, code' = code, limits' = limits, DOMAIN files' = DOMAIN files,
         procs' = [procs EXCEPT ![p] = k]
  PROVE  TableOK' /\ SessionOK'
<1> DEFINE m == procs[p]
<1>1. /\ TableOK /\ Good(m, limits, code) /\ FilesOpen(m, DOMAIN files \cup {Terminal})
      /\ SessionOK /\ HasFields(m) /\ PositionOK(m, code)
  BY Invariants, GoodFacts
<1>2. Good(k, limits, code)
  BY <1>1, RunningGood
<1>3. k.state = "program" /\ k.parent = m.parent /\ k.waitq = << >>
  BY <1>1 DEF SameBut, Fields, PositionOK, AtWork
<1>4. FilesOpen(k, DOMAIN files' \cup {Terminal})
  BY <1>1 DEF FilesOpen
<1>5. TableOK'
  BY <1>1, <1>2, <1>3, <1>4, Leaves
<1> QED
  BY <1>1, <1>5 DEF SessionOK

(* What every step of a program starts from.                               *)
LEMMA ProgramFacts ==
  ASSUME PlumbingInv, NEW p, In(p, "program")
  PROVE  LET m == procs[p] IN
         /\ p \in DOMAIN procs /\ m.state = "program" /\ HasFields(m) /\ Typed(m, limits)
         /\ FilesOpen(m, DOMAIN files \cup {Terminal}) /\ AreLimits(limits)
         /\ m.todo \in Seq(STRING) /\ m.eof \in BOOLEAN
         /\ m.call[1] \in DOMAIN Does
         /\ 0 \in DOMAIN m.fds /\ 1 \in DOMAIN m.fds
         /\ m.fds \in [DOMAIN m.fds -> Descriptor(limits)]
         /\ m.fds[0] \in Descriptor(limits) /\ m.fds[1] \in Descriptor(limits)
         /\ PipesOK /\ FilesOK /\ RecordOK /\ SessionOK
<1>1. p \in DOMAIN procs /\ procs[p].state = "program"
  BY DEF In, Proc
<1>2. /\ HasFields(procs[p]) /\ Typed(procs[p], limits) /\ PositionOK(procs[p], code)
      /\ FilesOpen(procs[p], DOMAIN files \cup {Terminal}) /\ AreLimits(limits)
      /\ PipesOK /\ FilesOK /\ RecordOK /\ SessionOK
  BY <1>1, Invariants, GoodFacts
<1>3. procs[p].call[1] \in DOMAIN Does
  BY <1>1, <1>2 DEF PositionOK
<1>4. /\ 0 .. 2 \subseteq DOMAIN procs[p].fds
      /\ procs[p].fds \in [DOMAIN procs[p].fds -> Descriptor(limits)]
  BY <1>1, <1>2 DEF Typed
<1> QED
  BY <1>1, <1>2, <1>3, <1>4 DEF Typed

LEMMA TookKeeps ==
  ASSUME PlumbingInv, NEW p, In(p, "program"), NEW datum \in STRING, TookMore(p, datum),
         UNCHANGED <<tty, argvs>>
  PROVE  RecordOK'
<1> DEFINE name == procs[p].call[1]
           before == IF name \in DOMAIN took THEN took[name] ELSE << >>
           after == Append(before, datum)
<1>1. name \in DOMAIN Does /\ RecordOK
  BY ProgramFacts
<1>2. took' = Put(took, name, after)
  BY DEF TookMore, Proc
<1>3. before \in Seq(STRING)
  BY <1>1, EmptySeqs DEF RecordOK
<1> HIDE DEF name, before
<1>4. after \in Seq(STRING)
  BY <1>3, AppendSeq
<1> HIDE DEF after
<1>5. took \in [DOMAIN took -> Seq(STRING)]
  BY <1>1 DEF RecordOK
<1>6. took' \in [DOMAIN took' -> Seq(STRING)] /\ DOMAIN took' = DOMAIN took \cup {name}
  BY <1>2, <1>4, <1>5 DEF Put
<1> QED
  BY <1>1, <1>6 DEF RecordOK

LEMMA ReadPipeKeeps ==
  ASSUME PlumbingInv, NEW p, ReadPipe(p)
  PROVE  PlumbingInv'
<1> DEFINE m == procs[p]
           pipe == m.fds[0].pipe
           datum == Head(pipes[pipe])
           k == Takes(m, datum)
<1>1. /\ In(p, "program") /\ pipe # 0 /\ pipes[pipe] # << >>
      /\ TookMore(p, datum) /\ procs' = [procs EXCEPT ![p] = k]
      /\ pipes' = [pipes EXCEPT ![pipe] = Tail(@)]
      /\ UNCHANGED <<line, code, limits, files, tty, argvs>>
  BY DEF ReadPipe, Reads, Stdin, Proc
<1>2. /\ p \in DOMAIN procs /\ m.state = "program" /\ HasFields(m) /\ Typed(m, limits)
      /\ m.eof \in BOOLEAN /\ m.fds \in [DOMAIN m.fds -> Descriptor(limits)]
      /\ m.fds[0] \in Descriptor(limits) /\ PipesOK /\ FilesOK
  BY <1>1, ProgramFacts
<1>3. pipe \in limits.pipes
  BY <1>1, <1>2 DEF Descriptor
<1>4. PipesOK' /\ datum \in STRING
  <2> HIDE DEF pipe
  <2> QED
    BY <1>1, <1>2, <1>3, TailPipes
<1>5. RecordOK'
  BY <1>1, <1>4, TookKeeps
<1>6. /\ HasFields(k) /\ SameBut(m, k, {"fds", "todo", "eof"}) /\ k.fds = m.fds
      /\ k.todo = << datum >> /\ k.eof = m.eof
  BY <1>2 DEF Takes, HasFields, Fields, SameBut
<1> HIDE DEF k, datum, pipe
<1>7. k.todo \in Seq(STRING)
  BY <1>4, <1>6
<1>8. TableOK' /\ SessionOK'
  BY <1>1, <1>2, <1>6, <1>7, RunKeeps
<1> QED
  BY <1>1, <1>2, <1>4, <1>5, <1>8 DEF PlumbingInv, FilesOK

LEMMA ReadFileKeeps ==
  ASSUME PlumbingInv, NEW p, ReadFile(p)
  PROVE  PlumbingInv'
<1> DEFINE m == procs[p]
           in == m.fds[0]
           datum == files[in.file][in.at + 1]
           k == TakesFromFile(m, datum)
<1>1. /\ In(p, "program") /\ HasMore(in)
      /\ TookMore(p, datum) /\ procs' = [procs EXCEPT ![p] = k]
      /\ UNCHANGED <<line, code, limits, pipes, files, tty, argvs>>
  <2>1. In(p, "program") /\ HasMore(in)
    BY DEF ReadFile, Reads, Stdin, Proc
  <2>2. TookMore(p, datum) /\ UNCHANGED <<line, code, limits, pipes, files, tty, argvs>>
    BY DEF ReadFile, Stdin, Proc
  <2>3. procs' = [procs EXCEPT ![p] = k]
    BY DEF ReadFile, Stdin, Proc
  <2> QED
    BY <2>1, <2>2, <2>3
<1>2. /\ p \in DOMAIN procs /\ m.state = "program" /\ HasFields(m) /\ Typed(m, limits)
      /\ m.eof \in BOOLEAN /\ m.fds \in [DOMAIN m.fds -> Descriptor(limits)]
      /\ in \in Descriptor(limits) /\ PipesOK /\ FilesOK /\ 0 \in DOMAIN m.fds
      /\ FilesOpen(m, DOMAIN files \cup {Terminal})
  BY <1>1, ProgramFacts
<1>3. /\ in.pipe = 0 /\ in.file # Terminal /\ in.at \in Nat /\ in.at < Len(files[in.file])
  BY <1>1, <1>2 DEF HasMore, Descriptor
<1>4. datum \in STRING
  <2>1. in.file \in DOMAIN files
    BY <1>2, <1>3 DEF FilesOpen
  <2>2. files[in.file] \in Seq(STRING)
    BY <1>2, <2>1 DEF FilesOK
  <2> HIDE DEF in
  <2> QED
    BY <1>3, <2>2
<1>5. RecordOK'
  BY <1>1, <1>4, TookKeeps
<1>6. /\ HasFields(k) /\ SameBut(m, k, {"fds", "todo", "eof"})
      /\ k.fds = [m.fds EXCEPT ![0] = [in EXCEPT !.at = @ + 1]]
      /\ k.todo = << datum >> /\ k.eof = m.eof
  BY <1>2 DEF TakesFromFile, Takes, HasFields, Fields, SameBut
<1> HIDE DEF k, datum
<1>7. [in EXCEPT !.at = @ + 1] \in Descriptor(limits)
  BY <1>2, <1>3 DEF Descriptor
<1>8. /\ k.fds \in [DOMAIN m.fds -> Descriptor(limits)]
      /\ \A n \in DOMAIN m.fds : k.fds[n].pipe = m.fds[n].pipe /\ k.fds[n].way = m.fds[n].way
                                 /\ k.fds[n].file = m.fds[n].file
  <2>1. /\ DOMAIN k.fds = DOMAIN m.fds /\ k.fds = [n \in DOMAIN m.fds |-> k.fds[n]]
        /\ \A n \in DOMAIN m.fds \ {0} : k.fds[n] = m.fds[n]
        /\ k.fds[0] = [in EXCEPT !.at = @ + 1]
    BY <1>2, <1>6
  <2>2. k.fds[0].pipe = in.pipe /\ k.fds[0].way = in.way /\ k.fds[0].file = in.file
    BY <1>2, <2>1 DEF Descriptor
  <2>3. \A n \in DOMAIN m.fds : k.fds[n] \in Descriptor(limits)
    BY <1>2, <1>7, <2>1
  <2> QED
    BY <2>1, <2>2, <2>3
<1>9. k.todo \in Seq(STRING)
  BY <1>4, <1>6
<1>10. TableOK' /\ SessionOK'
  BY <1>1, <1>2, <1>6, <1>8, <1>9, RunKeeps
<1> QED
  BY <1>1, <1>2, <1>5, <1>10 DEF PlumbingInv, FilesOK, PipesOK

LEMMA ReadEndKeeps ==
  ASSUME PlumbingInv, NEW p, ReadEnd(p)
  PROVE  PlumbingInv'
<1> DEFINE m == procs[p]
           says == Does[m.call[1]].says
           k == [m EXCEPT !.eof = TRUE, !.todo = says]
<1>1. /\ In(p, "program") /\ procs' = [procs EXCEPT ![p] = k]
      /\ UNCHANGED <<line, code, limits, pipes, files, tty, took, argvs>>
  BY DEF ReadEnd, Reads, Doing, Proc
<1>2. /\ p \in DOMAIN procs /\ m.state = "program" /\ HasFields(m) /\ Typed(m, limits)
      /\ m.fds \in [DOMAIN m.fds -> Descriptor(limits)] /\ m.call[1] \in DOMAIN Does
      /\ PipesOK /\ FilesOK /\ RecordOK
  BY <1>1, ProgramFacts
<1>3. says \in Seq(STRING)
  BY <1>2, DataAreStrings
<1> HIDE DEF says
<1>4. /\ HasFields(k) /\ SameBut(m, k, {"fds", "todo", "eof"}) /\ k.fds = m.fds
      /\ k.todo = says /\ k.eof = TRUE
  BY <1>2 DEF HasFields, Fields, SameBut
<1> HIDE DEF k
<1>5. k.eof \in BOOLEAN
  BY <1>4
<1>6. TableOK' /\ SessionOK'
  BY <1>1, <1>2, <1>3, <1>4, <1>5, RunKeeps
<1> QED
  BY <1>1, <1>2, <1>6 DEF PlumbingInv, FilesOK, PipesOK, RecordOK

LEMMA WriteKeeps ==
  ASSUME PlumbingInv, NEW p, Write(p)
  PROVE  PlumbingInv'
<1> DEFINE m == procs[p]
           out == m.fds[1]
           datum == Head(m.todo)
           does == Does[m.call[1]]
           todo == IF does.endless /\ Len(m.todo) = 1 THEN does.says ELSE Tail(m.todo)
           k == [m EXCEPT !.todo = todo]
<1>1. /\ In(p, "program") /\ m.todo # << >>
      /\ UNCHANGED <<line, code, limits, took, argvs>>
      /\ \/ /\ out.pipe # 0 /\ Len(pipes[out.pipe]) < Capacity
            /\ pipes' = [pipes EXCEPT ![out.pipe] = Append(@, datum)]
            /\ UNCHANGED <<files, tty>>
         \/ /\ tty' = Append(tty, datum)
            /\ UNCHANGED <<pipes, files>>
         \/ /\ files' = [files EXCEPT ![out.file] = Append(@, datum)]
            /\ UNCHANGED <<pipes, tty>>
  BY DEF Write, Stdout, Proc
<1>2. /\ p \in DOMAIN procs /\ m.state = "program" /\ HasFields(m) /\ Typed(m, limits)
      /\ m.eof \in BOOLEAN /\ m.todo \in Seq(STRING)
      /\ m.fds \in [DOMAIN m.fds -> Descriptor(limits)] /\ m.call[1] \in DOMAIN Does
      /\ out \in Descriptor(limits) /\ PipesOK /\ FilesOK /\ RecordOK
  BY <1>1, ProgramFacts
<1>3. procs' = [procs EXCEPT ![p] = k]
  BY <1>2 DEF Write, Said, Doing, Proc
<1>4. datum \in STRING /\ Tail(m.todo) \in Seq(STRING)
  BY <1>1, <1>2, TailSeq
<1>5. todo \in Seq(STRING)
  BY <1>2, <1>4, DataAreStrings
<1> HIDE DEF todo, datum
<1>6. /\ HasFields(k) /\ SameBut(m, k, {"fds", "todo", "eof"}) /\ k.fds = m.fds
      /\ k.todo = todo /\ k.eof = m.eof
  BY <1>2 DEF HasFields, Fields, SameBut
<1> HIDE DEF k
<1>7. PipesOK' /\ FilesOK' /\ RecordOK' /\ DOMAIN files' = DOMAIN files
  <2>1. CASE /\ out.pipe # 0 /\ Len(pipes[out.pipe]) < Capacity
             /\ pipes' = [pipes EXCEPT ![out.pipe] = Append(@, datum)]
             /\ UNCHANGED <<files, tty>>
    <3> DEFINE pipe == out.pipe
               s == pipes[pipe]
    <3>1. /\ pipe \in limits.pipes /\ s \in Seq(STRING) /\ DOMAIN pipes = limits.pipes
          /\ \A x \in limits.pipes : pipes[x] \in Seq(STRING) /\ Len(pipes[x]) <= Capacity
      BY <1>2, <2>1 DEF Descriptor, PipesOK
    <3> HIDE DEF pipe
    <3>2. Append(s, datum) \in Seq(STRING) /\ Len(Append(s, datum)) = Len(s) + 1
      BY <1>4, <3>1, AppendSeq
    <3>3. Len(s) + 1 <= Capacity
      <4>1. Len(s) \in Nat /\ Capacity \in Nat /\ Len(s) < Capacity
        BY <2>1, <3>1, DataAreStrings DEF pipe
      <4> HIDE DEF s
      <4> QED
        BY <4>1
    <3>4. /\ pipes' = [x \in limits.pipes |-> pipes'[x]] /\ pipes'[pipe] = Append(s, datum)
          /\ \A x \in limits.pipes \ {pipe} : pipes'[x] = pipes[x]
      BY <2>1, <3>1 DEF pipe
    <3>5. \A x \in limits.pipes : pipes'[x] \in Seq(STRING) /\ Len(pipes'[x]) <= Capacity
      BY <3>1, <3>2, <3>3, <3>4
    <3>6. PipesOK'
      BY <1>1, <3>4, <3>5 DEF PipesOK
    <3> QED
      BY <1>1, <1>2, <2>1, <3>6 DEF FilesOK, RecordOK
  <2>2. CASE tty' = Append(tty, datum) /\ UNCHANGED <<pipes, files>>
    <3>1. tty' \in Seq(STRING)
      BY <1>2, <1>4, <2>2, AppendSeq DEF RecordOK
    <3> QED
      BY <1>1, <1>2, <2>2, <3>1 DEF FilesOK, PipesOK, RecordOK
  <2>3. CASE /\ files' = [files EXCEPT ![out.file] = Append(@, datum)]
             /\ UNCHANGED <<pipes, tty>>
    <3> DEFINE name == out.file
    <3>1. /\ DOMAIN files' = DOMAIN files /\ files' = [x \in DOMAIN files |-> files'[x]]
          /\ \A x \in DOMAIN files \ {name} : files'[x] = files[x]
          /\ name \in DOMAIN files => files'[name] = Append(files[name], datum)
      BY <1>2, <2>3 DEF FilesOK
    <3> HIDE DEF name
    <3>2. \A x \in DOMAIN files : files[x] \in Seq(STRING)
      BY <1>2 DEF FilesOK
    <3>3. name \in DOMAIN files => files'[name] \in Seq(STRING)
      BY <1>4, <3>1, <3>2, AppendSeq
    <3>4. \A x \in DOMAIN files : files'[x] \in Seq(STRING)
      BY <3>1, <3>2, <3>3
    <3>5. FilesOK'
      BY <1>2, <3>1, <3>4 DEF FilesOK
    <3> QED
      BY <1>1, <1>2, <2>3, <3>1, <3>5 DEF PipesOK, RecordOK
  <2> QED
    BY <1>1, <2>1, <2>2, <2>3
<1>8. TableOK' /\ SessionOK'
  BY <1>1, <1>2, <1>3, <1>5, <1>6, <1>7, RunKeeps
<1> QED
  BY <1>7, <1>8 DEF PlumbingInv

LEMMA DieKeeps ==
  ASSUME PlumbingInv, NEW p, Die(p)
  PROVE  PlumbingInv'
<1> DEFINE gone == {c \in ChildrenOf(p) : procs[c].state = "zombie"}
                     \cup (IF procs[p].parent = Nobody /\ p # Main THEN {p} ELSE {})
           zombie == [Shell EXCEPT !.state = "zombie", !.parent = procs[p].parent, !.fds = << >>]
           ps == [q \in DOMAIN procs \ gone |->
                    IF q = p THEN zombie
                    ELSE IF q \in ChildrenOf(p) THEN [procs[q] EXCEPT !.parent = Nobody]
                    ELSE procs[q]]
<1>1. /\ p \in DOMAIN procs /\ procs[p].state = "ending" /\ World(ps)
      /\ UNCHANGED <<line, code, limits, files, tty, took, argvs>>
  BY DEF Die, In, Proc
<1>2. TableOK /\ AreLimits(limits) /\ Good(procs[p], limits, code)
  BY <1>1, Invariants
<1>3. procs[p].parent \in limits.pids \cup {Nobody}
  BY <1>2, GoodFacts DEF Typed
<1>4. /\ Good(zombie, limits, code) /\ zombie.parent = procs[p].parent
      /\ zombie.state = "zombie" /\ zombie.waitq = << >> /\ zombie.fds = << >>
  BY <1>3, ZombieGood
<1>5. procs' = ps
  BY <1>1 DEF World
<1>6. TableOK'
  <2> HIDE DEF zombie
  <2> QED
    BY <1>1, <1>2, <1>4, <1>5, OneDies
<1> QED
  BY <1>1, <1>6, AfterWorld

LEMMA InitialInv == Init => PlumbingInv
<1> SUFFICES ASSUME Init PROVE PlumbingInv
  OBVIOUS
<1>1. SessionOK /\ IsChain(code) /\ AreLimits(limits)
  BY SessionFacts DEF Init, SessionOK
<1>2. /\ HasFields(Shell) /\ Shell.parent = Nobody /\ Shell.state = "shell"
      /\ Shell.fds = Standard /\ Shell.entry = 1 /\ Shell.waitq = << >> /\ Shell.made = 0
      /\ Shell.pipes = << >> /\ Shell.channels = << >> /\ Shell.values = << >>
      /\ Shell.todo = << >> /\ Shell.eof = FALSE
  BY DEF HasFields, Fields, Shell
<1>3. /\ DOMAIN Standard = 0 .. 2 /\ Standard = [n \in DOMAIN Standard |-> Standard[n]]
      /\ Standard[0].way = "r" /\ Standard[1].way = "w"
      /\ \A n \in 0 .. 2 : Standard[n].pipe = 0 /\ Standard[n].file = Terminal
                           /\ Standard[n] \in Descriptor(limits)
  <2>1. \A n \in 0 .. 2 : Standard[n] = File(Terminal, IF n = 0 THEN "r" ELSE "w")
    BY DEF Standard
  <2>2. \A n \in 0 .. 2 : Standard[n] \in Descriptor(limits)
    BY <2>1 DEF File, Descriptor
  <2> QED
    BY <2>1, <2>2 DEF File, Standard
<1>4. Typed(Shell, limits)
  <2>1. /\ Shell.state \in States /\ Shell.entry \in Nat /\ Shell.made \in Nat
        /\ Shell.parent \in limits.pids \cup {Nobody}
    BY <1>2 DEF States
  <2>4. Shell.eof \in BOOLEAN
    BY <1>2
  <2>2. /\ Shell.waitq \in Seq(limits.pids) /\ Shell.pipes \in Seq(Nat \X Nat)
        /\ Shell.channels \in Seq(Nat) /\ Shell.values \in Seq(Seq(STRING))
        /\ Shell.todo \in Seq(STRING)
    BY <1>2, EmptySeqs
  <2>3. /\ Standard \in [DOMAIN Standard -> Descriptor(limits)]
        /\ DOMAIN Standard \subseteq Nat /\ 0 .. 2 \subseteq DOMAIN Standard
    BY <1>3
  <2> QED
    BY <1>2, <2>1, <2>2, <2>3, <2>4 DEF Typed
<1>5. /\ 1 \in DOMAIN code /\ code[1].op # "splice"
      /\ code[1].op = "step" => UsesValues(code[1], Len(Shell.values))
  BY <1>1, <1>2, <1>4, ArrivesValues DEF IsChain
<1>6. Good(Shell, limits, code) /\ ChannelNumbers(Shell) = {} /\ PipeNumbers(Shell) = {}
  <2>1. /\ Shell.fds[0].way = "r" /\ Shell.fds[1].way = "w"
        /\ \A n \in DOMAIN Shell.fds : Shell.fds[n].pipe = 0
        /\ Shell.fds[0].pipe = 0 /\ Shell.fds[1].file = Terminal
    BY <1>2, <1>3
  <2>2. \A n \in DOMAIN Shell.fds \ {0, 1} :
          Shell.fds[n].pipe # 0 => Shell.fds[n].way = "r"
    BY <2>1
  <2>3. /\ Shell.entry \in DOMAIN code /\ code[Shell.entry].op # "splice"
        /\ code[Shell.entry].op = "step" => UsesValues(code[Shell.entry], Len(Shell.values))
    BY <1>2, <1>5
  <2> QED
    BY <1>2, <1>4, <2>1, <2>2, <2>3, ShellGood
<1>7. DOMAIN procs = {Main} /\ procs[Main] = Shell /\ procs = [q \in DOMAIN procs |-> procs[q]]
  BY DEF Init
<1>8. ChildrenOf(Main) = {}
  BY <1>2, <1>7 DEF ChildrenOf, Proc, Main, Nobody
<1>9. FilesOpen(Shell, DOMAIN files \cup {Terminal})
  BY <1>2, <1>3 DEF FilesOpen
<1>10. Awaits(Shell, ChildrenOf(Main))
  <2>1. EachOnce(<< >>) /\ Range(<< >>) = {}
    BY DEF EachOnce, Range
  <2> QED
    BY <1>2, <1>8, <2>1 DEF Awaits
<1>11. MainOK(Shell)
  BY <1>2, <1>3, <1>6 DEF MainOK
<1>12. ParentLives(Main)
  BY <1>2, <1>7 DEF ParentLives
<1>13. Main \in DOMAIN procs /\ DOMAIN procs \subseteq limits.pids
  BY <1>1, <1>7 DEF AreLimits
<1>14. TableOK
  <2> HIDE DEF Main
  <2> QED
    BY <1>6, <1>7, <1>9, <1>10, <1>11, <1>12, <1>13 DEF TableOK
<1>15. PipesOK
  <2>1. << >> \in Seq(STRING) /\ Len(<< >>) <= Capacity
    BY EmptySeqs, DataAreStrings
  <2> QED
    BY <2>1 DEF Init, PipesOK
<1>16. FilesOK /\ RecordOK
  BY EmptySeqs, DataAreStrings DEF Init, FilesOK, RecordOK
<1> QED
  BY <1>1, <1>14, <1>15, <1>16 DEF PlumbingInv

LEMMA StepKeeps == PlumbingInv /\ [Next]_vars => PlumbingInv'
<1> SUFFICES ASSUME PlumbingInv, [Next]_vars
             PROVE  PlumbingInv'
  OBVIOUS
<1>1. CASE UNCHANGED vars
  <2>1. UNCHANGED <<line, code, limits, procs, pipes, files, tty, took, argvs>>
    BY <1>1 DEF vars
  <2>2. TableOK'
    BY <2>1, ZenonT(30) DEF PlumbingInv, TableOK, ParentLives, ChildrenOf, Proc
  <2> QED
    BY <2>1, <2>2 DEF PlumbingInv, SessionOK, PipesOK, FilesOK, RecordOK
<1>2. CASE Over
  BY <1>1, <1>2 DEF Over
<1>3. ASSUME NEW p \in Pids, ShellStep(p)
      PROVE  PlumbingInv'
  BY <1>3, OpenPipesKeeps, ForkKeeps, ClosePipesKeeps, ReapKeeps, ForkExpansionKeeps,
     ExpansionsMadeKeeps, SpliceReadKeeps, SpliceEndKeeps, EnterLastKeeps DEF ShellStep
<1>4. ASSUME NEW p \in Pids, ProgramStep(p)
      PROVE  PlumbingInv'
  <2>1. ASSUME Broken(p) \/ Finish(p) PROVE PlumbingInv'
    <3>1. /\ p \in DOMAIN procs /\ procs[p].state # "zombie"
          /\ procs' = [procs EXCEPT ![p] = Ending(@)]
          /\ UNCHANGED <<line, code, limits, pipes, files, tty, took, argvs>>
      BY <2>1 DEF Broken, Finish, In, Proc
    <3> QED
      BY <3>1, EndingKeeps
  <2> QED
    BY <1>4, <2>1, StartKeeps, ReadPipeKeeps, ReadFileKeeps, ReadEndKeeps, WriteKeeps, DieKeeps
    DEF ProgramStep
<1> QED
  BY <1>1, <1>2, <1>3, <1>4 DEF Next

THEOREM PlumbingInvariant == Spec => []PlumbingInv
BY InitialInv, StepKeeps, PTL DEF Spec

-----------------------------------------------------------------------------
(* TypeOK: whatever the chains, the programs and the limits, every process *)
(* of a line keeps its three standard descriptors until it has ended, what *)
(* is open is a pipe of the session or a file that exists, and no pipe ever*)
(* holds more than its capacity.                                           *)
LEMMA InvTypes == PlumbingInv => TypeOK
<1> SUFFICES ASSUME PlumbingInv PROVE TypeOK
  OBVIOUS
<1>1. \A p \in DOMAIN procs : IsProcess(procs[p], limits)
  BY DEF PlumbingInv, TableOK, Good
<1>2. \A p \in DOMAIN procs : \A n \in DOMAIN procs[p].fds :
        procs[p].fds[n].pipe = 0 => procs[p].fds[n].file \in DOMAIN files \cup {Terminal}
  BY DEF PlumbingInv, TableOK, FilesOpen
<1> QED
  BY <1>1, <1>2
  DEF PlumbingInv, SessionOK, TableOK, PipesOK, FilesOK, RecordOK, TypeOK, Proc

THEOREM PlumbingTypeOK == Spec => []TypeOK
BY PlumbingInvariant, InvTypes, PTL

(* NoStrayEnds: whatever the chains and however the processes interleave,  *)
(* no program holds an end to write to but its stdout, and the waiting main*)
(* shell none of a pipe it does not read: a reader that waits for the end  *)
(* of its input waits for the other programs of its line and for nobody    *)
(* else.                                                                   *)
LEMMA InvEnds == PlumbingInv => NoStrayEnds
<1> SUFFICES ASSUME PlumbingInv, NEW p \in DOMAIN procs
             PROVE  LET m == Proc(p)
                        OnlyReads(numbers) ==
                          \A n \in DOMAIN m.fds \cap numbers :
                            m.fds[n].pipe # 0 => m.fds[n].way = "r"
                    IN  /\ m.state \in {"program", "shell"} => OnlyReads(DOMAIN m.fds \ {1})
                        /\ m.state = "program" /\ Stdin(p).pipe # 0
                             => Stdin(p).pipe # Stdout(p).pipe
                        /\ m.state = "shell" /\ p = Main =>
                             DOMAIN m.fds = (0 .. 2) \cup
                               {m.channels[i] : i \in m.made + 1 .. Len(m.channels)}
  BY DEF NoStrayEnds
<1> DEFINE m == procs[p]
<1>1. /\ Typed(m, limits) /\ PositionOK(m, code)
      /\ m.state \notin {"ending", "zombie"} => DescriptorsOK(m)
      /\ p = Main => MainOK(m)
  BY Invariants, GoodFacts
<1>2. ASSUME m.state \in {"program", "shell"}
      PROVE  \A n \in DOMAIN m.fds \ {1} : m.fds[n].pipe # 0 => m.fds[n].way = "r"
  BY <1>1, <1>2, NoPairs DEF PositionOK, DescriptorsOK
<1>3. ASSUME m.state = "program"
      PROVE  m.fds[0].pipe # 0 => m.fds[0].pipe # m.fds[1].pipe
  BY <1>1, <1>3 DEF DescriptorsOK
<1>4. ASSUME m.state = "shell", p = Main
      PROVE  DOMAIN m.fds = (0 .. 2) \cup {m.channels[i] : i \in m.made + 1 .. Len(m.channels)}
  <2>1. PipeNumbers(m) = {}
    BY <1>1, <1>4, NoPairs DEF PositionOK
  <2> QED
    BY <1>1, <1>4, <2>1 DEF MainOK, AtWork, ChannelNumbers, Unread
<1> QED
  BY <1>2, <1>3, <1>4 DEF Proc, Stdin, Stdout

THEOREM NoEndsAstray == Spec => []NoStrayEnds
BY PlumbingInvariant, InvEnds, PTL
=============================================================================
