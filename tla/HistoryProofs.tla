--------------------------- MODULE HistoryProofs ----------------------------
(***************************************************************************)
(* Proofs about History for any number of sessions, any lines and files and*)
(* any sizes of the list and of the file.                                  *)
(*                                                                         *)
(* InTypedOrder and NoNeighboursAlike are not inductive as they stand:     *)
(* HistInv adds that no entry is younger than the last line typed, that a  *)
(* line still to be entered is younger than every entry of its process's   *)
(* list, that a file being truncated is there, and that what a process is  *)
(* about to cut the file to is as good as a file.                          *)
(***************************************************************************)
EXTENDS History, TLAPS

(* What a list or a file may hold when so many lines have been typed.      *)
Good(entries, last) ==
  /\ entries \in Seq(Entry)
  /\ Ordered(entries)
  /\ NeighboursApart(entries)
  /\ \A i \in DOMAIN entries : entries[i].no <= last

(* Who wrote a file, and after which line.                                 *)
Recent(who, last) == who = << >> \/ who \in Sessions \X (0 .. last)

GoodProcess(m, last) ==
  /\ m \in Process
  /\ m.no <= last
  /\ Len(m.list) <= HistSize
  /\ Good(m.list, last)
  /\ Good(m.tail, last) /\ Recent(m.from, last)
  /\ m.at \in {"running", "adding"} => \A i \in DOMAIN m.list : m.list[i].no < m.no

HistInv ==
  /\ typed \in 0 .. MaxTyped /\ starts \in 0 .. MaxStarts
  /\ writer = << >> \/ writer \in Sessions \X (0 .. typed)
  /\ file # NoFile => Good(file, typed)
  /\ procs \in [Procs -> Process]
  /\ \A p \in Procs : GoodProcess(procs[p], typed)
  /\ \A p \in Procs : At(p) = "truncating" => Good(file, typed)

-----------------------------------------------------------------------------
(* Lists.                                                                  *)

(* The end of a good list is good, and no longer than asked for.           *)
LEMMA LastOfGood ==
  ASSUME NEW entries, NEW last \in Int, NEW n \in Nat, Good(entries, last)
  PROVE  Good(LastOf(entries, n), last) /\ Len(LastOf(entries, n)) <= n
<1>1. entries \in Seq(Entry) /\ Len(entries) \in Nat
  BY DEF Good
<1>2. CASE Len(entries) <= n
  BY <1>2 DEF LastOf
<1>3. CASE ~(Len(entries) <= n)
  <2> DEFINE k == Len(entries) - n
             s == SubSeq(entries, k + 1, Len(entries))
  <2>1. k \in 1 .. Len(entries)
    BY <1>1, <1>3
  <2>2. s \in Seq(Entry) /\ Len(s) = n /\ \A i \in 1 .. n : s[i] = entries[i + k]
    BY <1>1, <2>1
  <2>3. DOMAIN s = 1 .. n /\ \A i \in 1 .. n : i + k \in DOMAIN entries
    BY <1>1, <2>1, <2>2
  <2> HIDE DEF s, k
  <2>4. Ordered(s)
    <3>1. SUFFICES ASSUME NEW i \in 1 .. n, NEW j \in 1 .. n, i < j
                   PROVE  entries[i + k].no < entries[j + k].no
      BY <2>2, <2>3 DEF Ordered
    <3>2. i + k \in DOMAIN entries /\ j + k \in DOMAIN entries /\ i + k < j + k
      BY <2>1, <2>3, <3>1
    <3> QED
      BY <3>2 DEF Good, Ordered
  <2>5. NeighboursApart(s)
    <3>1. SUFFICES ASSUME NEW i \in 1 .. n, NEW j \in 1 .. n, j = i + 1, entries[j + k].apart
                   PROVE  entries[i + k].text # entries[j + k].text
      BY <2>2, <2>3 DEF NeighboursApart
    <3>2. i + k \in DOMAIN entries /\ j + k \in DOMAIN entries /\ j + k = (i + k) + 1
      BY <1>1, <2>1, <2>3, <3>1
    <3> QED
      BY <3>1, <3>2 DEF Good, NeighboursApart
  <2>6. \A i \in DOMAIN s : s[i].no <= last
    BY <2>2, <2>3 DEF Good
  <2> QED
    BY <1>3, <2>2, <2>4, <2>5, <2>6 DEF LastOf, Good, s, k
<1> QED
  BY <1>1, <1>2, <1>3

(* A list without its first entry.                                         *)
LEMMA TailGood ==
  ASSUME NEW entries, NEW last \in Int, Good(entries, last), Len(entries) > 0
  PROVE  /\ Good(Tail(entries), last) /\ Len(Tail(entries)) = Len(entries) - 1
         /\ \A i \in DOMAIN Tail(entries) : i + 1 \in DOMAIN entries /\ Tail(entries)[i] = entries[i + 1]
<1>1. entries \in Seq(Entry) /\ entries # << >> /\ Len(entries) \in Nat
  BY DEF Good
<1>2. /\ Tail(entries) \in Seq(Entry) /\ Len(Tail(entries)) = Len(entries) - 1
      /\ DOMAIN Tail(entries) = 1 .. Len(entries) - 1
  BY <1>1
<1>3. \A i \in 1 .. Len(entries) - 1 : i + 1 \in DOMAIN entries /\ Tail(entries)[i] = entries[i + 1]
  BY <1>1
<1>4. Ordered(Tail(entries))
  BY <1>1, <1>2, <1>3 DEF Good, Ordered
<1>5. NeighboursApart(Tail(entries))
  BY <1>1, <1>2, <1>3 DEF Good, NeighboursApart
<1>6. \A i \in DOMAIN Tail(entries) : Tail(entries)[i].no <= last
  BY <1>1, <1>2, <1>3 DEF Good
<1> QED
  BY <1>2, <1>3, <1>4, <1>5, <1>6 DEF Good

(* A younger entry at the end, unlike its neighbour if it is to be apart.  *)
LEMMA AppendGood ==
  ASSUME NEW entries, NEW last \in Int, Good(entries, last),
         NEW entry \in Entry, entry.no <= last,
         \A i \in DOMAIN entries : entries[i].no < entry.no,
         Len(entries) > 0 /\ entry.apart => entries[Len(entries)].text # entry.text
  PROVE  Good(Append(entries, entry), last) /\ Len(Append(entries, entry)) = Len(entries) + 1
<1> DEFINE s == Append(entries, entry)
<1>1. entries \in Seq(Entry) /\ Len(entries) \in Nat /\ DOMAIN entries = 1 .. Len(entries)
  BY DEF Good
<1>2. s \in Seq(Entry) /\ Len(s) = Len(entries) + 1 /\ DOMAIN s = 1 .. Len(entries) + 1
  BY <1>1
<1>3. s[Len(entries) + 1] = entry /\ \A i \in 1 .. Len(entries) : s[i] = entries[i]
  BY <1>1
<1>4. Ordered(s)
  BY <1>1, <1>2, <1>3 DEF Good, Ordered
<1>5. NeighboursApart(s)
  BY <1>1, <1>2, <1>3 DEF Good, NeighboursApart
<1>6. \A i \in DOMAIN s : s[i].no <= last
  BY <1>1, <1>2, <1>3 DEF Good
<1> QED
  BY <1>2, <1>4, <1>5, <1>6 DEF Good

LEMMA EmptyGood ==
  ASSUME NEW last \in Int
  PROVE  Good(<< >>, last) /\ Len(<< >>) = 0 /\ DOMAIN << >> = {}
BY DEF Good, Ordered, NeighboursApart

(* Lines typed later do not disturb a list.                                *)
LEMMA StaysGood ==
  ASSUME NEW entries, NEW last \in Int, NEW later \in Int, last <= later, Good(entries, last)
  PROVE  Good(entries, later)
<1>1. \A i \in DOMAIN entries : entries[i] \in Entry
  BY DEF Good
<1> QED
  BY <1>1 DEF Good, Entry

-----------------------------------------------------------------------------
(* Processes.                                                              *)

LEMMA QuietIsLine == \A text \in Text : QuietLine(text) \in Line
BY DEF QuietLine, Line

LEMMA GoneIsProcess ==
  ASSUME NEW at \in Ended
  PROVE  /\ Gone(at) \in Process /\ Gone(at).at = at
         /\ Gone(at).list = << >> /\ Gone(at).no = 0 /\ Gone(at).base = 1
         /\ Gone(at).tail = << >> /\ Gone(at).from = << >>
<1>1. QuietLine(Null) \in Line
  BY QuietIsLine DEF Text
<1> QED
  BY <1>1, Sizes DEF Gone, Process, DefaultFlags, Ended

(* The line an entry is when it runs.                                      *)
LEMMA LineOfIsLine ==
  ASSUME NEW entry \in Entry
  PROVE  LineOf(entry) \in Line
<1>1. CASE \E l \in Lines : l.text = entry.text
  BY <1>1, LinesAreLines DEF LineOf
<1>2. CASE ~\E l \in Lines : l.text = entry.text
  BY <1>2, QuietIsLine DEF LineOf, Entry
<1> QED
  BY <1>1, <1>2

(* history_get answers with an entry, or NULL.                             *)
LEMMA RepeatedIsEntry ==
  ASSUME NEW m \in Process, Repeated(m) # Null
  PROVE  Repeated(m) \in Entry
<1>1. m.list \in Seq(Entry)
  BY DEF Process
<1> QED
  BY <1>1 DEF Repeated, HistoryGet

LEMMA ControlFlags ==
  ASSUME NEW words
  PROVE  ParseControl(words) \subseteq DefaultFlags
<1>1. \A w \in DOMAIN Control : Control[w] \subseteq DefaultFlags
  BY DEF Control, DefaultFlags
<1> QED
  BY <1>1 DEF ParseControl

(* Setting a variable changes how lines are entered, never what is there.  *)
LEMMA AssignedIsProcess ==
  ASSUME NEW m \in Process, NEW l \in Line
  PROVE  /\ Assigned(l, m) \in Process
         /\ Assigned(l, m).list = m.list /\ Assigned(l, m).no = m.no
         /\ Assigned(l, m).tail = m.tail /\ Assigned(l, m).from = m.from
         /\ Assigned(l, m).at \in {m.at, "crashed"}
<1> DEFINE flags == IF Sets(l, "HISTCONTROL") THEN ParseControl(l.words)
                    ELSE IF Unsets(l, "HISTCONTROL") THEN DefaultFlags ELSE m.flags
           size == IF Sets(l, "HISTFILESIZE") /\ ~Aborts(l) THEN l.number
                   ELSE IF Unsets(l, "HISTFILESIZE") THEN FileSize ELSE m.file_size
           at == IF Aborts(l) THEN "crashed" ELSE m.at
<1>1. flags \subseteq DefaultFlags
  BY ControlFlags DEF Process
<1>2. size \in Nat
  BY Sizes DEF Process, Line, Sets, Unsets, Aborts
<1>3. Assigned(l, m) = [m EXCEPT !.flags = flags, !.file_size = size, !.at = at]
  BY DEF Assigned
<1> HIDE DEF flags, size
<1> QED
  BY <1>1, <1>2, <1>3, ZenonT(30) DEF Process, Ended

LEMMA GoneIsGood ==
  ASSUME NEW at \in Ended, NEW last \in Nat
  PROVE  GoodProcess(Gone(at), last) /\ Gone(at).at = at
<1>1. /\ Gone(at) \in Process /\ Gone(at).at = at /\ Gone(at).list = << >> /\ Gone(at).no = 0
      /\ Gone(at).tail = << >> /\ Gone(at).from = << >>
  BY GoneIsProcess
<1>2. at \notin {"running", "adding"}
  BY DEF Ended
<1> QED
  BY <1>1, <1>2, EmptyGood, Sizes DEF GoodProcess, Recent

(* A list that never dropped an entry answers history_get with its last    *)
(* entry for its length.                                                   *)
LEMMA ComparedIsLast ==
  ASSUME NEW m \in Process, m.base = 1, Compared(m) # Null
  PROVE  Len(m.list) > 0 /\ Compared(m) = m.list[Len(m.list)]
BY DEF Process, Compared, HistoryGet

(* Entering the line keeps a process good.                                 *)
LEMMA AddedGood ==
  ASSUME NEW m, NEW last \in Int, GoodProcess(m, last), m.at = "adding"
  PROVE  GoodProcess(Added(m), last) /\ Added(m).at \in {"crashed", "saving", "prompt"}
<1> DEFINE entry == EntryOf(m)
<1>1. /\ m \in Process /\ m.no <= last /\ m.list \in Seq(Entry) /\ Len(m.list) \in Nat
      /\ Good(m.list, last) /\ \A i \in DOMAIN m.list : m.list[i].no < m.no
  BY DEF GoodProcess, Process
<1>2. entry \in Entry /\ entry.no = m.no /\ entry.text = m.line.text
  BY <1>1 DEF EntryOf, Entry, Process, Line
<1>3. CASE Crashes(m)
  BY <1>1, <1>3 DEF Added, GoodProcess, Process, Ended
<1>4. CASE ~Crashes(m) /\ Ignored(m)
  <2> DEFINE at == IF m.finish THEN "saving" ELSE "prompt"
  <2>1. Added(m) = [m EXCEPT !.at = at]
    BY <1>4 DEF Added
  <2> QED
    BY <1>1, <2>1 DEF GoodProcess, Process, Ended
<1>5. CASE ~Crashes(m) /\ ~Ignored(m)
  <2> DEFINE at == IF m.finish THEN "saving" ELSE "prompt"
             next == AddHistory(m, entry)
  <2>1. Added(m) = [next EXCEPT !.at = at]
    BY <1>5 DEF Added
  <2>2. Len(m.list) > 0 /\ entry.apart => m.list[Len(m.list)].text # entry.text
    <3>1. SUFFICES ASSUME Len(m.list) > 0, entry.apart
                   PROVE  m.list[Len(m.list)].text # m.line.text
      BY <1>2
    <3>2. "dups" \in m.flags /\ m.base = 1 /\ ~m.line.lead /\ ~m.line.trail
      BY <3>1 DEF EntryOf
    <3>3. Compared(m) # Null
      BY <1>5, <3>2 DEF Crashes
    <3>4. Compared(m).text # m.line.text
      BY <1>5, <3>2 DEF Ignored, CheckDuplicated
    <3> QED
      BY <1>1, <3>2, <3>3, <3>4, ComparedIsLast
  <2>3. CASE Len(m.list) < HistSize
    <3> DEFINE s == Append(m.list, entry)
    <3>1. next = [m EXCEPT !.list = s]
      BY <2>3 DEF AddHistory
    <3>2. Good(s, last) /\ Len(s) <= HistSize /\ s \in Seq(Entry)
      BY <1>1, <1>2, <2>2, <2>3, AppendGood, Sizes DEF Good
    <3>3. at \in {"saving", "prompt"}
      OBVIOUS
    <3>4. Added(m) = [m EXCEPT !.list = s, !.at = at]
      BY <1>1, <2>1, <3>1 DEF Process
    <3> HIDE DEF s, at, next
    <3> QED
      BY <1>1, <3>2, <3>3, <3>4 DEF GoodProcess, Process
  <2>4. CASE ~(Len(m.list) < HistSize)
    <3> DEFINE t == Tail(m.list)
               s == Append(t, entry)
    <3>1. next = [m EXCEPT !.list = s, !.base = @ + 1]
      BY <2>4 DEF AddHistory
    <3>2. Len(m.list) = HistSize /\ Len(m.list) > 0
      BY <2>4, <1>1, Sizes DEF GoodProcess
    <3>3. Good(t, last) /\ Len(t) = Len(m.list) - 1
          /\ \A i \in DOMAIN t : i + 1 \in DOMAIN m.list /\ t[i] = m.list[i + 1]
      BY <1>1, <3>2, TailGood
    <3>4. \A i \in DOMAIN t : t[i].no < entry.no
      BY <1>1, <1>2, <3>3
    <3>5. Len(t) > 0 => t[Len(t)] = m.list[Len(m.list)]
      BY <1>1, <3>3 DEF Good
    <3>6. Good(s, last) /\ Len(s) <= HistSize /\ s \in Seq(Entry)
      <4>1. Len(t) > 0 /\ entry.apart => t[Len(t)].text # entry.text
        BY <2>2, <3>2, <3>5
      <4>2. entry.no <= last
        BY <1>1, <1>2
      <4> HIDE DEF t, entry
      <4>3. Good(s, last) /\ Len(s) = Len(t) + 1
        BY <1>2, <3>3, <3>4, <4>1, <4>2, AppendGood
      <4> QED
        BY <1>1, <3>2, <3>3, <4>3 DEF Good
    <3>7. at \in {"saving", "prompt"}
      OBVIOUS
    <3>8. Added(m) = [m EXCEPT !.list = s, !.base = @ + 1, !.at = at]
      BY <1>1, <2>1, <3>1 DEF Process
    <3> HIDE DEF s, t, at, next
    <3>9. m.base + 1 \in Nat \ {0}
      BY <1>1 DEF Process
    <3> QED
      BY <1>1, <3>6, <3>7, <3>8, <3>9 DEF GoodProcess, Process
  <2> QED
    BY <2>3, <2>4
<1> QED
  BY <1>3, <1>4, <1>5

-----------------------------------------------------------------------------
(* Steps.                                                                  *)

(* A step that only changes one process keeps the invariant if it keeps    *)
(* that process good.                                                      *)
LEMMA BecomeKeeps ==
  ASSUME HistInv, NEW p \in Procs, NEW m, Become(p, m),
         GoodProcess(m, typed), m.at = "truncating" => Good(file, typed),
         UNCHANGED <<file, writer, typed>>, starts' \in 0 .. MaxStarts
  PROVE  HistInv'
<1>1. m \in Process /\ procs' = [procs EXCEPT ![p] = m]
  BY DEF GoodProcess, Become
<1>2. procs' \in [Procs -> Process]
  BY <1>1 DEF HistInv
<1>3. ASSUME NEW q \in Procs
      PROVE  GoodProcess(procs'[q], typed) /\ (procs'[q].at = "truncating" => Good(file, typed))
  BY <1>1 DEF HistInv, At
<1> QED
  BY <1>2, <1>3 DEF HistInv, At

(* The same for a session's shell and child together.                      *)
LEMMA BothKeep ==
  ASSUME HistInv, NEW s \in Sessions, NEW m, NEW c,
         procs' = [procs EXCEPT ![ShellOf(s)] = m, ![ChildOf(s)] = c],
         GoodProcess(m, typed), m.at # "truncating",
         GoodProcess(c, typed), c.at # "truncating",
         UNCHANGED <<file, writer, typed, starts>>
  PROVE  HistInv'
<1>1. m \in Process /\ c \in Process
  BY DEF GoodProcess
<1>2. procs' \in [Procs -> Process]
  BY <1>1 DEF HistInv
<1>3. ASSUME NEW q \in Procs
      PROVE  GoodProcess(procs'[q], typed) /\ (procs'[q].at = "truncating" => Good(file, typed))
  BY <1>1 DEF HistInv, At, Procs, ShellOf, ChildOf
<1> QED
  BY <1>2, <1>3 DEF HistInv, At

LEMMA ShellsAreProcs ==
  ASSUME NEW s \in Sessions
  PROVE  ShellOf(s) \in Procs /\ ChildOf(s) \in Procs
BY DEF Procs, ShellOf, ChildOf

(* What HistInv says of one process.                                       *)
LEMMA ProcessFacts ==
  ASSUME HistInv, NEW p \in Procs
  PROVE  /\ GoodProcess(procs[p], typed) /\ procs[p] \in Process
         /\ typed \in Nat /\ starts \in 0 .. MaxStarts /\ starts \in Nat
BY Bounds DEF HistInv, GoodProcess

LEMMA InitHolds == Init => HistInv
<1>1. SUFFICES ASSUME Init PROVE HistInv
  OBVIOUS
<1>2. typed = 0 /\ 0 \in 0 .. MaxTyped /\ 0 \in 0 .. MaxStarts
  BY <1>1, Bounds DEF Init
<1>3. file # NoFile => Good(file, 0)
  BY <1>1, FilesAreFiles DEF Init, Good
<1>4. GoodProcess(Fresh, 0) /\ Fresh.at = "off" /\ Fresh \in Process
  BY GoneIsGood DEF Fresh, Ended, GoodProcess
<1> HIDE DEF Fresh
<1> QED
  BY <1>1, <1>2, <1>3, <1>4 DEF Init, HistInv, At

LEMMA LoadKeeps ==
  ASSUME HistInv, NEW s \in Sessions, Load(s)
  PROVE  HistInv'
<1> DEFINE saving == [Fresh EXCEPT !.at = "saving"]
           loaded == [ReadHistory(Fresh, file) EXCEPT !.at = "prompt"]
<1>1. starts' \in 0 .. MaxStarts
  BY ShellsAreProcs, ProcessFacts, Bounds DEF Load
<1>2. /\ Fresh \in Process /\ Fresh.list = << >> /\ Fresh.no = 0 /\ Fresh.base = 1
      /\ Fresh.tail = << >> /\ Fresh.from = << >>
  BY GoneIsProcess DEF Fresh, Ended
<1>3. /\ typed \in Nat /\ Good(<< >>, typed) /\ HistSize \in Nat \ {0} /\ Len(<< >>) = 0
  BY ShellsAreProcs, ProcessFacts, EmptyGood, Sizes
<1> HIDE DEF Fresh
<1>4. CASE file = NoFile
  <2>1. /\ saving \in Process /\ saving.at = "saving" /\ saving.no = 0
        /\ saving.list = << >> /\ saving.tail = << >> /\ saving.from = << >>
    BY <1>2 DEF Process
  <2> HIDE DEF saving
  <2>2. GoodProcess(saving, typed)
    BY <1>3, <2>1 DEF GoodProcess, Recent
  <2> QED
    BY <1>1, <1>4, <2>1, <2>2, ShellsAreProcs, BecomeKeeps DEF Load, saving
<1>5. CASE file # NoFile
  <2> DEFINE end == LastOf(file, HistSize)
             base == IF Len(file) > HistSize THEN Fresh.base + Len(file) - HistSize ELSE Fresh.base
  <2>1. Good(file, typed) /\ Len(file) \in Nat
    BY <1>5 DEF HistInv, Good
  <2>2. Good(end, typed) /\ Len(end) <= HistSize /\ end \in Seq(Entry)
    <3>1. HistSize \in Nat /\ typed \in Int
      BY <1>3
    <3>2. Good(end, typed) /\ Len(end) <= HistSize
      BY <2>1, <3>1, LastOfGood
    <3> QED
      BY <3>2 DEF Good
  <2>3. base \in Nat \ {0}
    BY <1>2, <1>3, <2>1
  <2>4. loaded = [Fresh EXCEPT !.list = end, !.base = base, !.at = "prompt"]
    BY <1>2 DEF ReadHistory, Process
  <2> HIDE DEF end, base
  <2> DEFINE m == [Fresh EXCEPT !.list = end, !.base = base, !.at = "prompt"]
  <2>5. /\ m \in Process /\ m.at = "prompt" /\ m.list = end /\ m.no = 0
        /\ m.tail = << >> /\ m.from = << >>
    BY <1>2, <2>2, <2>3 DEF Process
  <2>6. GoodProcess(m, typed)
    <3> HIDE DEF m
    <3> QED
      BY <1>3, <2>2, <2>5 DEF GoodProcess, Recent
  <2>7. Become(ShellOf(s), m) /\ UNCHANGED <<file, writer, typed>>
    BY <1>5, <2>4 DEF Load
  <2> QED
    BY <1>1, <2>6, <2>5, <2>7, ShellsAreProcs, BecomeKeeps
<1> QED
  BY <1>4, <1>5

LEMMA LoadFailsKeeps ==
  ASSUME HistInv, NEW s \in Sessions, LoadFails(s)
  PROVE  HistInv'
<1>1. starts' \in 0 .. MaxStarts /\ typed \in Nat
  BY ShellsAreProcs, ProcessFacts, Bounds DEF LoadFails
<1>2. GoodProcess(Gone("over"), typed) /\ Gone("over").at = "over"
  BY <1>1, GoneIsGood DEF Ended
<1> QED
  BY <1>1, <1>2, ShellsAreProcs, BecomeKeeps DEF LoadFails

(* A variable that is set leaves a process good.                           *)
LEMMA AssignedIsGood ==
  ASSUME NEW m, NEW last \in Int, GoodProcess(m, last), NEW l \in Line
  PROVE  /\ GoodProcess(Assigned(l, m), last)
         /\ m.at # "truncating" => Assigned(l, m).at # "truncating"
<1>1. m \in Process
  BY DEF GoodProcess
<1>2. /\ Assigned(l, m) \in Process
      /\ Assigned(l, m).list = m.list /\ Assigned(l, m).no = m.no
      /\ Assigned(l, m).tail = m.tail /\ Assigned(l, m).from = m.from
      /\ Assigned(l, m).at \in {m.at, "crashed"}
  BY <1>1, AssignedIsProcess
<1> HIDE DEF Assigned
<1> QED
  BY <1>2 DEF GoodProcess

LEMMA RecentStays ==
  ASSUME NEW last \in Nat, NEW who, Recent(who, last)
  PROVE  Recent(who, last + 1)
<1>1. 0 .. last \subseteq 0 .. last + 1
  OBVIOUS
<1> QED
  BY <1>1 DEF Recent

LEMMA TypeLineKeeps ==
  ASSUME HistInv, NEW s \in Sessions, NEW l \in Lines, TypeLine(s, l)
  PROVE  HistInv'
<1> DEFINE m == procs[ShellOf(s)]
           running == [m EXCEPT !.at = "running", !.line = l, !.no = typed + 1, !.doing = l,
                                !.nested = 0, !.forked = FALSE]
           after == Assigned(l, running)
<1>1. /\ ShellOf(s) \in Procs /\ m \in Process /\ GoodProcess(m, typed)
      /\ typed \in Nat /\ l \in Line
  BY ShellsAreProcs, ProcessFacts, LinesAreLines
<1>2. /\ typed' = typed + 1 /\ typed < MaxTyped /\ Become(ShellOf(s), after)
      /\ UNCHANGED <<file, writer, starts>>
  BY DEF TypeLine
<1>3. ASSUME NEW list, Good(list, typed)
      PROVE  Good(list, typed + 1)
  <2>1. typed \in Int /\ typed + 1 \in Int /\ typed <= typed + 1
    BY <1>1
  <2> HIDE DEF m
  <2> QED
    BY <1>3, <2>1, StaysGood
<1>4. GoodProcess(running, typed + 1) /\ running.at = "running"
  <2>1. /\ running \in Process /\ running.list = m.list /\ running.no = typed + 1
        /\ running.tail = m.tail /\ running.from = m.from /\ running.at = "running"
    <3>1. typed + 1 \in Nat
      BY <1>1
    <3> HIDE DEF m
    <3> QED
      BY <1>1, <3>1 DEF Process
  <2>2. /\ Good(m.list, typed) /\ Good(m.list, typed + 1) /\ Len(m.list) <= HistSize
        /\ Good(m.tail, typed + 1) /\ Recent(m.from, typed + 1)
    BY <1>1, <1>3, RecentStays DEF GoodProcess
  <2>3. \A i \in DOMAIN m.list : m.list[i] \in Entry
    BY <2>2 DEF Good
  <2>4. \A i \in DOMAIN m.list : m.list[i].no < typed + 1
    BY <1>1, <2>2, <2>3 DEF Good, Entry
  <2> HIDE DEF running, m
  <2> QED
    BY <1>1, <2>1, <2>2, <2>4 DEF GoodProcess
<1> HIDE DEF running
<1>5. GoodProcess(after, typed + 1) /\ after.at # "truncating" /\ after \in Process
  BY <1>1, <1>4, AssignedIsGood DEF GoodProcess
<1> HIDE DEF after
<1>6. procs' \in [Procs -> Process] /\ procs' = [procs EXCEPT ![ShellOf(s)] = after]
  BY <1>1, <1>2, <1>5 DEF HistInv, Become
<1>7. ASSUME NEW q \in Procs
      PROVE  /\ GoodProcess(procs'[q], typed + 1)
             /\ procs'[q].at = "truncating" => Good(file, typed + 1)
  <2>1. CASE q = ShellOf(s)
    BY <1>1, <1>5, <1>6, <2>1 DEF HistInv
  <2>2. CASE q # ShellOf(s)
    <3>1. procs'[q] = procs[q] /\ GoodProcess(procs[q], typed)
      BY <1>6, <2>2 DEF HistInv
    <3>2. GoodProcess(procs[q], typed + 1)
      BY <1>1, <1>3, <3>1, RecentStays, SMTT(20) DEF GoodProcess, Process
    <3> QED
      BY <1>3, <3>1, <3>2 DEF HistInv, At
  <2> QED
    BY <2>1, <2>2
<1>8. typed + 1 \in 0 .. MaxTyped /\ (writer = << >> \/ writer \in Sessions \X (0 .. typed + 1))
  BY <1>1, <1>2, Bounds DEF HistInv
<1>9. file # NoFile => Good(file, typed + 1)
  BY <1>3 DEF HistInv
<1> QED
  BY <1>2, <1>6, <1>7, <1>8, <1>9 DEF HistInv, At

LEMMA AgainKeeps ==
  ASSUME HistInv, NEW s \in Sessions, Again(s)
  PROVE  HistInv'
<1> DEFINE m == procs[ShellOf(s)]
           line == LineOf(Repeated(m))
           nested == [m EXCEPT !.doing = line, !.nested = @ + 1]
           after == Assigned(line, nested)
<1>1. /\ ShellOf(s) \in Procs /\ m \in Process /\ GoodProcess(m, typed)
      /\ typed \in Int /\ starts \in 0 .. MaxStarts
  BY ShellsAreProcs, ProcessFacts
<1>2. /\ m.at = "running" /\ Repeated(m) # Null /\ Become(ShellOf(s), after)
      /\ UNCHANGED <<file, writer, typed, starts>>
  BY DEF Again, Repeats
<1> HIDE DEF m
<1>3. line \in Line
  BY <1>1, <1>2, RepeatedIsEntry, LineOfIsLine
<1> HIDE DEF line
<1>4. /\ nested \in Process /\ nested.list = m.list /\ nested.no = m.no /\ nested.at = m.at
      /\ nested.tail = m.tail /\ nested.from = m.from
  <2>1. m.nested + 1 \in Nat
    BY <1>1 DEF Process
  <2> QED
    BY <1>1, <1>3, <2>1 DEF Process
<1> HIDE DEF nested
<1>5. GoodProcess(nested, typed) /\ nested.at # "truncating"
  BY <1>1, <1>2, <1>4 DEF GoodProcess
<1>6. GoodProcess(after, typed) /\ after.at # "truncating"
  BY <1>1, <1>3, <1>5, AssignedIsGood
<1> HIDE DEF after
<1> QED
  BY <1>1, <1>2, <1>6, BecomeKeeps

(* A process that moves on with its list as it is.                         *)
LEMMA MovesKeeps ==
  ASSUME NEW m, NEW last \in Int, GoodProcess(m, last), NEW k \in Process,
         k.list = m.list, k.no = m.no, k.tail = m.tail, k.from = m.from,
         k.at \in {"running", "adding"} => m.at \in {"running", "adding"}
  PROVE  GoodProcess(k, last)
BY DEF GoodProcess

LEMMA PromptKeeps ==
  ASSUME HistInv, NEW s \in Sessions, Interrupt(s) \/ InputEnds(s) \/ ReadEof(s)
  PROVE  HistInv'
<1> DEFINE m == procs[ShellOf(s)]
<1>1. /\ ShellOf(s) \in Procs /\ m \in Process /\ GoodProcess(m, typed)
      /\ typed \in Int /\ starts \in 0 .. MaxStarts
  BY ShellsAreProcs, ProcessFacts
<1>2. m.at = "prompt" /\ UNCHANGED <<file, writer, typed, starts>>
  BY DEF Interrupt, InputEnds, ReadEof, At
<1>3. \/ Become(ShellOf(s), [m EXCEPT !.signaled = TRUE])
      \/ Become(ShellOf(s), [m EXCEPT !.eof = TRUE])
      \/ Become(ShellOf(s), [m EXCEPT !.at = "saving", !.finish = TRUE])
      \/ Become(ShellOf(s), m)
  BY DEF Interrupt, InputEnds, ReadEof
<1> HIDE DEF m
<1>4. PICK k : /\ Become(ShellOf(s), k)
               /\ k \in {[m EXCEPT !.signaled = TRUE], [m EXCEPT !.eof = TRUE],
                         [m EXCEPT !.at = "saving", !.finish = TRUE], m}
  BY <1>3
<1>5. /\ k \in Process /\ k.list = m.list /\ k.no = m.no /\ k.at \in {"prompt", "saving"}
      /\ k.tail = m.tail /\ k.from = m.from
  <2>1. CASE k = [m EXCEPT !.signaled = TRUE]
    BY <1>1, <1>2, <2>1 DEF Process
  <2>2. CASE k = [m EXCEPT !.eof = TRUE]
    BY <1>1, <1>2, <2>2 DEF Process
  <2>3. CASE k = [m EXCEPT !.at = "saving", !.finish = TRUE]
    BY <1>1, <2>3 DEF Process
  <2>4. CASE k = m
    BY <1>1, <1>2, <2>4
  <2> QED
    BY <1>4, <2>1, <2>2, <2>3, <2>4
<1>6. GoodProcess(k, typed)
  BY <1>1, <1>5, MovesKeeps
<1> QED
  BY <1>1, <1>2, <1>4, <1>5, <1>6, BecomeKeeps

LEMMA RunningKeeps ==
  ASSUME HistInv, NEW s \in Sessions, AgainForEver(s) \/ EndLine(s)
  PROVE  HistInv'
<1> DEFINE m == procs[ShellOf(s)]
           at == m.doing.does = "exit"
<1>1. /\ ShellOf(s) \in Procs /\ m \in Process /\ GoodProcess(m, typed)
      /\ typed \in Nat /\ starts \in 0 .. MaxStarts
  BY ShellsAreProcs, ProcessFacts
<1>2. m.at = "running" /\ UNCHANGED <<file, writer, typed, starts>>
  BY DEF AgainForEver, EndLine, Repeats
<1>3. \/ Become(ShellOf(s), [m EXCEPT !.at = "crashed"])
      \/ Become(ShellOf(s), Gone("over"))
      \/ Become(ShellOf(s), [m EXCEPT !.at = "adding", !.finish = at])
  BY DEF AgainForEver, EndLine
<1>4. at \in BOOLEAN
  OBVIOUS
<1> HIDE DEF m, at
<1>5. GoodProcess(Gone("over"), typed) /\ Gone("over").at # "truncating"
  BY <1>1, GoneIsGood DEF Ended
<1>6. ASSUME NEW k \in {[m EXCEPT !.at = "crashed"], [m EXCEPT !.at = "adding", !.finish = at]}
      PROVE  GoodProcess(k, typed) /\ k.at # "truncating"
  <2>1. CASE k = [m EXCEPT !.at = "crashed"]
    <3>1. /\ k \in Process /\ k.list = m.list /\ k.no = m.no /\ k.at = "crashed"
          /\ k.tail = m.tail /\ k.from = m.from
      BY <1>1, <2>1 DEF Process, Ended
    <3> QED
      BY <1>1, <3>1, MovesKeeps
  <2>2. CASE k = [m EXCEPT !.at = "adding", !.finish = at]
    <3>1. /\ k \in Process /\ k.list = m.list /\ k.no = m.no /\ k.at = "adding"
          /\ k.tail = m.tail /\ k.from = m.from
      BY <1>1, <1>4, <2>2 DEF Process, Ended
    <3> QED
      BY <1>1, <1>2, <3>1, MovesKeeps
  <2> QED
    BY <1>6, <2>1, <2>2
<1> QED
  BY <1>1, <1>2, <1>3, <1>5, <1>6, BecomeKeeps

LEMMA ForkBuiltinKeeps ==
  ASSUME HistInv, NEW s \in Sessions, ForkBuiltin(s)
  PROVE  HistInv'
<1> DEFINE m == procs[ShellOf(s)]
           shell == [m EXCEPT !.forked = TRUE]
           child == [m EXCEPT !.at = "adding", !.finish = TRUE]
<1>1. m \in Process /\ GoodProcess(m, typed) /\ typed \in Int
  BY ShellsAreProcs, ProcessFacts
<1>2. /\ m.at = "running" /\ UNCHANGED <<file, writer, typed, starts>>
      /\ procs' = [procs EXCEPT ![ShellOf(s)] = shell, ![ChildOf(s)] = child]
  BY DEF ForkBuiltin
<1> HIDE DEF m
<1>3. /\ shell \in Process /\ shell.list = m.list /\ shell.no = m.no /\ shell.at = "running"
      /\ shell.tail = m.tail /\ shell.from = m.from
  BY <1>1, <1>2 DEF Process
<1>4. /\ child \in Process /\ child.list = m.list /\ child.no = m.no /\ child.at = "adding"
      /\ child.tail = m.tail /\ child.from = m.from
  BY <1>1, <1>2 DEF Process
<1> HIDE DEF shell, child
<1>5. GoodProcess(shell, typed) /\ GoodProcess(child, typed)
  BY <1>1, <1>2, <1>3, <1>4, MovesKeeps
<1> QED
  BY <1>2, <1>3, <1>4, <1>5, BothKeep

LEMMA KillKeeps ==
  ASSUME HistInv, NEW p \in Procs, SaveFails(p) \/ Kill(p)
  PROVE  HistInv'
<1>1. typed \in Nat /\ starts \in 0 .. MaxStarts
  BY ProcessFacts
<1>2. GoodProcess(Gone("over"), typed) /\ Gone("over").at # "truncating"
  BY <1>1, GoneIsGood DEF Ended
<1> QED
  BY <1>1, <1>2, BecomeKeeps DEF SaveFails, Kill

LEMMA AddKeeps ==
  ASSUME HistInv, NEW p \in Procs, Add(p)
  PROVE  HistInv'
<1>1. /\ GoodProcess(procs[p], typed) /\ typed \in Int /\ starts \in 0 .. MaxStarts
      /\ procs[p].at = "adding"
  BY ProcessFacts DEF Add, At
<1>2. GoodProcess(Added(procs[p]), typed) /\ Added(procs[p]).at # "truncating"
  BY <1>1, AddedGood
<1> QED
  BY <1>1, <1>2, BecomeKeeps DEF Add

LEMMA WriteKeeps ==
  ASSUME HistInv, NEW p \in Procs, Write(p)
  PROVE  HistInv'
<1> DEFINE m == procs[p]
           k == [m EXCEPT !.at = "truncating"]
<1>1. /\ m \in Process /\ GoodProcess(m, typed) /\ typed \in Nat /\ m.at = "saving"
  BY ProcessFacts DEF Write, At
<1>2. /\ file' = m.list /\ writer' = <<p[1], m.no>> /\ procs' = [procs EXCEPT ![p] = k]
      /\ UNCHANGED <<typed, starts>>
  BY DEF Write, Become
<1>3. p[1] \in Sessions /\ m.no \in 0 .. typed
  BY <1>1 DEF Procs, GoodProcess, Process
<1>4. Good(m.list, typed)
  BY <1>1 DEF GoodProcess
<1> HIDE DEF m
<1>5. /\ k \in Process /\ k.list = m.list /\ k.no = m.no /\ k.at = "truncating"
      /\ k.tail = m.tail /\ k.from = m.from
  BY <1>1 DEF Process
<1>6. GoodProcess(k, typed)
  <2>1. typed \in Int
    BY <1>1
  <2> HIDE DEF k
  <2> QED
    BY <1>1, <1>5, <2>1, MovesKeeps
<1> HIDE DEF k
<1>7. procs' \in [Procs -> Process]
  BY <1>2, <1>5 DEF HistInv
<1>8. \A q \in Procs : GoodProcess(procs'[q], typed)
  BY <1>2, <1>6 DEF HistInv
<1> QED
  BY <1>2, <1>3, <1>4, <1>7, <1>8 DEF HistInv

(* A process that has saved goes on with its list as it is.               *)
LEMMA SavedGood ==
  ASSUME NEW m, NEW last \in Int, GoodProcess(m, last)
  PROVE  /\ Saved(m) \in Process /\ GoodProcess(Saved(m), last)
         /\ Saved(m).at = IF m.finish THEN "over" ELSE "prompt"
         /\ Saved(m).list = m.list /\ Saved(m).no = m.no
         /\ Saved(m).file_size = m.file_size
         /\ Saved(m).tail = << >> /\ Saved(m).from = << >>
<1> DEFINE at == IF m.finish THEN "over" ELSE "prompt"
           k == [m EXCEPT !.at = at, !.tail = << >>, !.from = << >>]
<1>1. m \in Process /\ at \in {"over", "prompt"} /\ << >> \in Seq(Entry)
  BY DEF GoodProcess
<1>2. Saved(m) = k
  BY DEF Saved
<1> HIDE DEF at
<1>3. /\ k \in Process /\ k.at = at /\ k.list = m.list /\ k.no = m.no
      /\ k.file_size = m.file_size /\ k.tail = << >> /\ k.from = << >>
  BY <1>1 DEF Process, Ended
<1> HIDE DEF k
<1>4. GoodProcess(k, last)
  BY <1>1, <1>3, EmptyGood DEF GoodProcess, Recent
<1> QED
  BY <1>2, <1>3, <1>4 DEF at

LEMMA TruncateKeeps ==
  ASSUME HistInv, NEW p \in Procs, Truncate(p)
  PROVE  HistInv'
<1> DEFINE m == procs[p]
           end == LastOf(file, m.file_size)
           k == [m EXCEPT !.at = "cutting", !.tail = end, !.from = writer]
<1>1. /\ m \in Process /\ GoodProcess(m, typed) /\ typed \in Int /\ m.at = "truncating"
      /\ Good(file, typed) /\ starts \in 0 .. MaxStarts /\ Recent(writer, typed)
      /\ typed \in Nat
  BY ProcessFacts DEF Truncate, At, HistInv, Recent
<1>2. /\ Become(p, Saved(m)) \/ Become(p, k)
      /\ UNCHANGED <<file, writer, typed, starts>>
  BY DEF Truncate
<1> HIDE DEF m
<1>3. Good(end, typed) /\ end \in Seq(Entry)
  <2>1. m.file_size \in Nat
    BY <1>1 DEF Process
  <2>2. Good(end, typed)
    BY <1>1, <2>1, LastOfGood
  <2> QED
    BY <2>2 DEF Good
<1> HIDE DEF end
<1>4. GoodProcess(Saved(m), typed) /\ Saved(m).at # "truncating"
  BY <1>1, SavedGood
<1>5. GoodProcess(k, typed) /\ k.at # "truncating"
  <2>1. writer \in {<< >>} \cup Sessions \X Nat
    BY <1>1 DEF Recent
  <2>2. /\ k \in Process /\ k.at = "cutting" /\ k.list = m.list /\ k.no = m.no
        /\ k.tail = end /\ k.from = writer
    BY <1>1, <1>3, <2>1 DEF Process
  <2> HIDE DEF k
  <2> QED
    BY <1>1, <1>3, <2>2 DEF GoodProcess
<1> HIDE DEF k
<1> QED
  BY <1>1, <1>2, <1>4, <1>5, BecomeKeeps

LEMMA CutKeeps ==
  ASSUME HistInv, NEW p \in Procs, Cut(p)
  PROVE  HistInv'
<1> DEFINE m == procs[p]
           k == Saved(m)
<1>1. /\ m \in Process /\ GoodProcess(m, typed) /\ typed \in Int
      /\ Good(m.tail, typed) /\ Recent(m.from, typed)
  BY ProcessFacts DEF GoodProcess
<1>2. /\ file' = m.tail /\ writer' = m.from /\ procs' = [procs EXCEPT ![p] = k]
      /\ UNCHANGED <<typed, starts>>
  BY DEF Cut, Become
<1> HIDE DEF m
<1>3. k \in Process /\ GoodProcess(k, typed)
  BY <1>1, SavedGood
<1> HIDE DEF k
<1>4. procs' \in [Procs -> Process]
  BY <1>2, <1>3 DEF HistInv
<1>5. \A q \in Procs : GoodProcess(procs'[q], typed)
  BY <1>2, <1>3 DEF HistInv
<1> QED
  BY <1>1, <1>2, <1>4, <1>5 DEF HistInv, Recent

LEMMA StutterKeeps == HistInv /\ UNCHANGED vars => HistInv'
BY DEF HistInv, vars, At, GoodProcess, Good

LEMMA StepHolds == HistInv /\ [Next]_vars => HistInv'
<1>1. SUFFICES ASSUME HistInv, Next PROVE HistInv'
  BY StutterKeeps
<1>2. ASSUME NEW s \in Sessions, Load(s) \/ LoadFails(s)
      PROVE  HistInv'
  BY <1>1, <1>2, LoadKeeps, LoadFailsKeeps
<1>3. ASSUME NEW s \in Sessions, NEW l \in Lines, TypeLine(s, l)
      PROVE  HistInv'
  BY <1>1, <1>3, TypeLineKeeps
<1>4. ASSUME NEW s \in Sessions, Interrupt(s) \/ InputEnds(s)
      PROVE  HistInv'
  BY <1>1, <1>4, PromptKeeps
<1>5. ASSUME NEW s \in Sessions, Proceed(s)
      PROVE  HistInv'
  BY <1>1, <1>5, PromptKeeps, AgainKeeps, RunningKeeps, ForkBuiltinKeeps DEF Proceed
<1>6. ASSUME NEW p \in Procs, Keep(p) \/ SaveFails(p) \/ Kill(p)
      PROVE  HistInv'
  BY <1>1, <1>6, AddKeeps, WriteKeeps, TruncateKeeps, CutKeeps, KillKeeps DEF Keep
<1>7. CASE Over
  BY <1>1, <1>7, StutterKeeps DEF Over
<1> QED
  BY <1>1, <1>2, <1>3, <1>4, <1>5, <1>6, <1>7 DEF Next

-----------------------------------------------------------------------------
LEMMA HistInvHolds == Spec => []HistInv
BY InitHolds, StepHolds, PTL DEF Spec

(* History's variables have their types: whatever sessions, children and   *)
(* failures overwrite, the file and every list are lists of entries, and no*)
(* list is longer than stifle_history was told.                            *)
THEOREM HistoryTypeOK == Spec => []TypeOK
<1>1. HistInv => TypeOK
  BY DEF HistInv, TypeOK, GoodProcess, Good
<1> QED
  BY <1>1, HistInvHolds, PTL

(* No line is entered twice and none moves, in any list and in the file    *)
(* that j_readline_history_save overwrites, for any number of sessions.    *)
THEOREM HistoryIsOrdered == Spec => []InTypedOrder
<1>1. HistInv => InTypedOrder
  BY DEF HistInv, InTypedOrder, GoodProcess, Good
<1> QED
  BY <1>1, HistInvHolds, PTL

(* ignoredups keeps neighbours apart under the conditions that `apart'     *)
(* names, through any file and any other session.                          *)
THEOREM DuplicatesStayOut == Spec => []NoNeighboursAlike
<1>1. HistInv => NoNeighboursAlike
  BY DEF HistInv, NoNeighboursAlike, GoodProcess, Good
<1> QED
  BY <1>1, HistInvHolds, PTL

-----------------------------------------------------------------------------
(* Why a shell goes down.  CrashesOnlySo is not inductive: a line nested by*)
(* `again' has to be known to be one of the list.                          *)
Accounted(m) ==
  /\ m.at = "crashed" => MayCrash(m)
  /\ m.at = "running" /\ m.nested # 0 => \E i \in DOMAIN m.list : m.doing = LineOf(m.list[i])
CrashInv == HistInv /\ \A p \in Procs : Accounted(procs[p])

(* A step that only changes one process, *)
LEMMA BecomeAccounts ==
  ASSUME CrashInv, NEW p \in Procs, NEW m, Become(p, m), Accounted(m)
  PROVE  \A q \in Procs : Accounted(procs'[q])
BY DEF CrashInv, HistInv, Become

(* to where nothing has to be accounted for.                               *)
LEMMA ElsewhereAccounts ==
  ASSUME NEW m, m.at \notin {"crashed", "running"}
  PROVE  Accounted(m)
BY DEF Accounted

LEMMA AssignedAccounts ==
  ASSUME NEW m \in Process, NEW l \in Line, m.doing = l, m.at = "running",
         m.nested # 0 => \E i \in DOMAIN m.list : l = LineOf(m.list[i])
  PROVE  Accounted(Assigned(l, m))
<1> DEFINE after == Assigned(l, m)
<1>1. /\ after.at = IF Aborts(l) THEN "crashed" ELSE "running"
      /\ after.doing = l /\ after.list = m.list /\ after.nested = m.nested
  BY DEF Assigned, Process
<1> HIDE DEF after
<1>2. Accounted(after)
  BY <1>1 DEF Accounted, MayCrash
<1> QED
  BY <1>2 DEF after

LEMMA TypeLineAccounts ==
  ASSUME CrashInv, NEW s \in Sessions, NEW l \in Lines, TypeLine(s, l)
  PROVE  \A q \in Procs : Accounted(procs'[q])
<1> DEFINE m == procs[ShellOf(s)]
           running == [m EXCEPT !.at = "running", !.line = l, !.no = typed + 1, !.doing = l,
                                !.nested = 0, !.forked = FALSE]
<1>1. m \in Process /\ ShellOf(s) \in Procs /\ l \in Line /\ typed + 1 \in Nat
  BY ShellsAreProcs, ProcessFacts, LinesAreLines DEF CrashInv
<1>2. Become(ShellOf(s), Assigned(l, running))
  BY DEF TypeLine
<1> HIDE DEF m
<1>3. running \in Process /\ running.at = "running" /\ running.doing = l /\ running.nested = 0
  BY <1>1 DEF Process
<1> HIDE DEF running
<1> QED
  BY <1>1, <1>2, <1>3, AssignedAccounts, BecomeAccounts

LEMMA AgainAccounts ==
  ASSUME CrashInv, NEW s \in Sessions, Again(s)
  PROVE  \A q \in Procs : Accounted(procs'[q])
<1> DEFINE m == procs[ShellOf(s)]
           line == LineOf(Repeated(m))
           nested == [m EXCEPT !.doing = line, !.nested = @ + 1]
<1>1. m \in Process /\ ShellOf(s) \in Procs
  BY ShellsAreProcs, ProcessFacts DEF CrashInv
<1>2. m.at = "running" /\ Repeated(m) # Null /\ Become(ShellOf(s), Assigned(line, nested))
  BY DEF Again, Repeats
<1> HIDE DEF m
<1>3. line \in Line
  BY <1>1, <1>2, RepeatedIsEntry, LineOfIsLine
<1>4. \E i \in DOMAIN m.list : line = LineOf(m.list[i])
  BY <1>1, <1>2 DEF Repeated, HistoryGet
<1> HIDE DEF line
<1>5. nested \in Process /\ nested.at = "running" /\ nested.doing = line /\ nested.list = m.list
  <2>1. m.nested + 1 \in Nat
    BY <1>1 DEF Process
  <2> QED
    BY <1>1, <1>2, <1>3, <2>1 DEF Process
<1> HIDE DEF nested
<1> QED
  BY <1>1, <1>2, <1>3, <1>4, <1>5, AssignedAccounts, BecomeAccounts

(* More lines nested than there are entries: the one that runs is one of   *)
(* them, and does `again'.                                                 *)
LEMMA AgainForEverAccounts ==
  ASSUME CrashInv, NEW s \in Sessions, AgainForEver(s)
  PROVE  \A q \in Procs : Accounted(procs'[q])
<1> DEFINE m == procs[ShellOf(s)]
           k == [m EXCEPT !.at = "crashed"]
<1>1. m \in Process /\ ShellOf(s) \in Procs /\ Accounted(m)
  BY ShellsAreProcs, ProcessFacts DEF CrashInv
<1>2. m.at = "running" /\ m.doing.does = "again" /\ m.nested > Len(m.list) /\ Become(ShellOf(s), k)
  BY DEF AgainForEver, Repeats
<1> HIDE DEF m
<1>3. m.nested # 0
  BY <1>1, <1>2 DEF Process
<1>4. \E i \in DOMAIN m.list : m.doing = LineOf(m.list[i])
  BY <1>1, <1>2, <1>3 DEF Accounted
<1>5. k.at = "crashed" /\ k.list = m.list /\ k.doing = m.doing
  BY <1>1 DEF Process
<1> HIDE DEF k
<1>6. Accounted(k)
  BY <1>2, <1>4, <1>5 DEF Accounted, MayCrash
<1> QED
  BY <1>1, <1>2, <1>6, BecomeAccounts

LEMMA AddAccounts ==
  ASSUME CrashInv, NEW p \in Procs, Add(p)
  PROVE  \A q \in Procs : Accounted(procs'[q])
<1> DEFINE m == procs[p]
           k == [m EXCEPT !.at = "crashed"]
<1>1. /\ m \in Process /\ GoodProcess(m, typed) /\ m.at = "adding" /\ typed \in Int
      /\ Become(p, Added(m))
  BY ProcessFacts DEF CrashInv, Add, At
<1> HIDE DEF m
<1>2. CASE ~Crashes(m)
  <2>1. Added(m).at \in {"saving", "prompt"}
    BY <1>1, <1>2 DEF Added, AddHistory, Process
  <2> QED
    BY <1>1, <2>1, ElsewhereAccounts, BecomeAccounts
<1>3. CASE Crashes(m)
  <2>1. Added(m) = k
    BY <1>3 DEF Added
  <2>2. m.list \in Seq(Entry) /\ Len(m.list) \in Nat /\ m.base \in Nat \ {0}
    BY <1>1 DEF Process
  <2>3. "dups" \in m.flags /\ HistoryGet(m, Len(m.list)) = Null
    BY <1>3 DEF Crashes, Compared
  <2>4. Len(m.list) - m.base + 1 \notin DOMAIN m.list
    <3>1. SUFFICES ASSUME Len(m.list) - m.base + 1 \in DOMAIN m.list PROVE FALSE
      OBVIOUS
    <3>2. m.list[Len(m.list) - m.base + 1] \in Entry
      BY <2>2, <3>1
    <3> QED
      BY <2>3, <3>1, <3>2, NullIsNoEntry DEF HistoryGet
  <2>5. m.base > Len(m.list)
    BY <2>2, <2>4
  <2>6. k.at = "crashed" /\ k.list = m.list /\ k.base = m.base /\ k.flags = m.flags
    BY <1>1 DEF Process
  <2> HIDE DEF k
  <2>7. Accounted(k)
    BY <2>3, <2>5, <2>6 DEF Accounted, MayCrash
  <2> QED
    BY <1>1, <2>1, <2>7, BecomeAccounts
<1> QED
  BY <1>2, <1>3

(* What is left of the steps leaves a process at another place, or changes *)
(* nothing that is accounted for.                                          *)
LEMMA SessionAccounts ==
  ASSUME CrashInv, NEW s \in Sessions,
         \/ Load(s) \/ LoadFails(s) \/ Interrupt(s) \/ InputEnds(s)
         \/ ReadEof(s) \/ ForkBuiltin(s) \/ EndLine(s)
  PROVE  \A q \in Procs : Accounted(procs'[q])
<1> DEFINE m == procs[ShellOf(s)]
<1>1. /\ m \in Process /\ ShellOf(s) \in Procs /\ ChildOf(s) \in Procs /\ Accounted(m)
      /\ \A q \in Procs : Accounted(procs[q])
  BY ShellsAreProcs, ProcessFacts DEF CrashInv
<1>2. Gone("over").at = "over"
  BY GoneIsProcess DEF Ended
<1>3. Fresh \in Process
  BY GoneIsProcess DEF Fresh, Ended
<1> HIDE DEF Fresh, Gone, m
<1>4. CASE Load(s)
  <2> DEFINE k == [Fresh EXCEPT !.at = "saving"]
             read == ReadHistory(Fresh, file)
             l == [read EXCEPT !.at = "prompt"]
  <2>1. Become(ShellOf(s), k) \/ Become(ShellOf(s), l)
    BY <1>4 DEF Load
  <2>2. k.at = "saving"
    BY <1>3 DEF Process
  <2>3. l.at = "prompt"
    BY <1>3 DEF ReadHistory, Process
  <2> HIDE DEF k, l
  <2>4. Accounted(k) /\ Accounted(l)
    BY <2>2, <2>3, ElsewhereAccounts
  <2> QED
    BY <1>1, <2>1, <2>4, BecomeAccounts
<1>5. CASE LoadFails(s)
  BY <1>1, <1>2, <1>5, ElsewhereAccounts, BecomeAccounts DEF LoadFails
<1>6. CASE Interrupt(s) \/ InputEnds(s) \/ ReadEof(s)
  <2>1. m.at = "prompt"
    BY <1>6 DEF Interrupt, InputEnds, ReadEof, At, m
  <2> DEFINE ends == [m EXCEPT !.at = "saving", !.finish = TRUE]
             jumps == [m EXCEPT !.signaled = TRUE]
             stops == [m EXCEPT !.eof = TRUE]
  <2>2. \E k \in {ends, jumps, stops, m} : Become(ShellOf(s), k)
    BY <1>6 DEF Interrupt, InputEnds, ReadEof, m
  <2>3. \A k \in {ends, jumps, stops, m} : k.at \in {"saving", "prompt"}
    BY <1>1, <2>1 DEF Process
  <2> HIDE DEF ends, jumps, stops
  <2> QED
    BY <1>1, <2>2, <2>3, ElsewhereAccounts, BecomeAccounts
<1>7. CASE EndLine(s)
  <2> DEFINE k == [m EXCEPT !.at = "adding", !.finish = m.doing.does = "exit"]
  <2>1. Become(ShellOf(s), Gone("over")) \/ Become(ShellOf(s), k)
    BY <1>7 DEF EndLine, m
  <2>2. k.at = "adding"
    BY <1>1 DEF Process
  <2> HIDE DEF k
  <2> QED
    BY <1>1, <1>2, <2>1, <2>2, ElsewhereAccounts, BecomeAccounts
<1>8. CASE ForkBuiltin(s)
  <2> DEFINE shell == [m EXCEPT !.forked = TRUE]
             child == [m EXCEPT !.at = "adding", !.finish = TRUE]
  <2>1. procs' = [procs EXCEPT ![ShellOf(s)] = shell, ![ChildOf(s)] = child]
    BY <1>8 DEF ForkBuiltin, m
  <2>2. Accounted(child)
    BY <1>1, ElsewhereAccounts DEF Process
  <2>3. /\ shell.at = m.at /\ shell.nested = m.nested /\ shell.doing = m.doing
        /\ shell.list = m.list /\ shell.base = m.base /\ shell.flags = m.flags
    BY <1>1 DEF Process
  <2> HIDE DEF shell, child
  <2>4. Accounted(shell)
    BY <1>1, <2>3 DEF Accounted, MayCrash
  <2> QED
    BY <1>1, <2>1, <2>2, <2>4 DEF CrashInv, HistInv
<1> QED
  BY <1>4, <1>5, <1>6, <1>7, <1>8

LEMMA KeepAccounts ==
  ASSUME CrashInv, NEW p \in Procs,
         Write(p) \/ Truncate(p) \/ Cut(p) \/ SaveFails(p) \/ Kill(p)
  PROVE  \A q \in Procs : Accounted(procs'[q])
<1>1. procs[p] \in Process
  BY ProcessFacts DEF CrashInv
<1>2. Gone("over").at = "over"
  BY GoneIsProcess DEF Ended
<1> HIDE DEF Gone
<1> DEFINE written == [procs[p] EXCEPT !.at = "truncating"]
           read == [procs[p] EXCEPT !.at = "cutting", !.tail = LastOf(file, procs[p].file_size),
                                    !.from = writer]
           saved == Saved(procs[p])
<1>3. \E k \in {written, read, saved, Gone("over")} : Become(p, k)
  BY DEF Write, Truncate, Cut, SaveFails, Kill
<1>4. written.at = "truncating" /\ read.at = "cutting" /\ saved.at \in {"over", "prompt"}
  BY <1>1 DEF Process, Saved
<1> HIDE DEF written, read, saved
<1> QED
  BY <1>2, <1>3, <1>4, ElsewhereAccounts, BecomeAccounts

LEMMA CrashStep == CrashInv /\ [Next]_vars => CrashInv'
<1>1. SUFFICES ASSUME CrashInv, [Next]_vars PROVE \A p \in Procs : Accounted(procs'[p])
  BY StepHolds DEF CrashInv
<1>2. CASE UNCHANGED vars
  BY <1>1, <1>2 DEF CrashInv, vars
<1>3. ASSUME NEW s \in Sessions,
             Load(s) \/ LoadFails(s) \/ Interrupt(s) \/ InputEnds(s)
      PROVE  \A p \in Procs : Accounted(procs'[p])
  BY <1>1, <1>3, SessionAccounts
<1>4. ASSUME NEW s \in Sessions, NEW l \in Lines, TypeLine(s, l)
      PROVE  \A p \in Procs : Accounted(procs'[p])
  BY <1>1, <1>4, TypeLineAccounts
<1>5. ASSUME NEW s \in Sessions, Proceed(s)
      PROVE  \A p \in Procs : Accounted(procs'[p])
  BY <1>1, <1>5, SessionAccounts, AgainAccounts, AgainForEverAccounts DEF Proceed
<1>6. ASSUME NEW p \in Procs, Keep(p) \/ SaveFails(p) \/ Kill(p)
      PROVE  \A q \in Procs : Accounted(procs'[q])
  BY <1>1, <1>6, AddAccounts, KeepAccounts DEF Keep
<1> QED
  BY <1>1, <1>2, <1>3, <1>4, <1>5, <1>6 DEF Next, Over

(* A line takes the shell down in the three ways MayCrash names and in no  *)
(* other: whatever is typed, repeated, interrupted or written by others.   *)
THEOREM CrashesAreAccounted == Spec => []CrashesOnlySo
<1>1. Init => CrashInv
  <2>1. Init => \A p \in Procs : Accounted(procs[p])
    <3>1. Fresh.at = "off"
      BY GoneIsProcess DEF Fresh, Ended
    <3> HIDE DEF Fresh
    <3> QED
      BY <3>1, ElsewhereAccounts DEF Init
  <2> QED
    BY <2>1, InitHolds DEF CrashInv
<1>2. CrashInv => CrashesOnlySo
  BY DEF CrashInv, Accounted, CrashesOnlySo, At
<1> QED
  BY <1>1, <1>2, CrashStep, PTL DEF Spec
-----------------------------------------------------------------------------
(* What a session enters is what it saves, however many sessions overwrite *)
(* the file.  A line is entered twice, by the child of a built-in and by   *)
(* its shell, into copies of one list; the file is written between the     *)
(* two.  KeptBy says what the file has to hold at each point of that.      *)

(* The file is the end of a list, cut no further than to a file size.      *)
EndOf(entries, list) ==
  /\ entries \in Seq(Entry)
  /\ Len(entries) <= Len(list)
  /\ \A i \in 1 .. Len(entries) : entries[i] = list[Len(list) - Len(entries) + i]
Holds(entries, list) ==
  /\ EndOf(entries, list)
  /\ Len(entries) = Len(list) \/ \E n \in FileSizes : n <= Len(entries)

(* The list of a process once it has entered its line.                     *)
Entered(m) ==
  IF Crashes(m) \/ Ignored(m) THEN m.list ELSE AddHistory(m, EntryOf(m)).list

(* Of the shell m and the child c of session s, a file and its writer.  A  *)
(* child its shell does not wait for outlived it.                          *)
Rests(m) == m.at \in {"prompt", "saving", "truncating", "cutting", "over"} /\ m.no > 0
Active == {"adding", "saving", "truncating", "cutting"}
Waits(m) == m.at = "running" /\ m.forked
KeptBy(s, m, c, entries, who) ==
  /\ Rests(m) /\ who = <<s, m.no>> => Holds(entries, m.list)
  /\ (m.at = "adding" \/ Waits(m)) /\ who = <<s, m.no>> => Holds(entries, Entered(m))
  /\ m.at = "running" /\ ~m.forked => who # <<s, m.no>>
  /\ Waits(m) => Forks(m)
  /\ c.at \notin {"prompt", "running"}
  /\ c.at \in Active => c.finish /\ (Waits(m) \/ (m.at = "over" /\ m.no = 0))
  /\ Waits(m) /\ c.at \in Active =>
       /\ c.no = m.no
       /\ IF c.at = "adding" THEN Entered(c) = Entered(m) ELSE c.list = Entered(m)

(* What the file holds, or a process is about to cut it to.                *)
Image(entries, who) ==
  \/ entries = file /\ who = writer
  \/ \E p \in Procs : entries = procs[p].tail /\ who = procs[p].from
KeptIn(s) ==
  \A entries, who :
    Image(entries, who) => KeptBy(s, procs[ShellOf(s)], procs[ChildOf(s)], entries, who)

SavedInv ==
  /\ HistInv
  /\ \A p \in Procs : procs[p].file_size \in FileSizes
  /\ \A s \in Sessions : KeptIn(s)

-----------------------------------------------------------------------------
(* Ends of lists.                                                          *)

LEMMA EndIsSuffix ==
  ASSUME NEW entries, NEW list \in Seq(Entry), EndOf(entries, list)
  PROVE  IsSuffix(entries, list)
<1> DEFINE r == Reverse(entries)
           t == Reverse(list)
<1>1. /\ entries \in Seq(Entry) /\ Len(entries) \in Nat /\ Len(list) \in Nat
      /\ Len(entries) <= Len(list)
      /\ \A i \in 1 .. Len(entries) : entries[i] = list[Len(list) - Len(entries) + i]
  BY DEF EndOf
<1>2. /\ r \in Seq(Entry) /\ Len(r) = Len(entries)
      /\ \A i \in 1 .. Len(entries) : r[i] = entries[Len(entries) - i + 1]
  <2>1. \A i \in 1 .. Len(entries) : entries[Len(entries) - i + 1] \in Entry
    BY <1>1
  <2> QED
    BY <1>1, <2>1 DEF Reverse
<1>3. /\ t \in Seq(Entry) /\ Len(t) = Len(list)
      /\ \A i \in 1 .. Len(list) : t[i] = list[Len(list) - i + 1]
  <2>1. \A i \in 1 .. Len(list) : list[Len(list) - i + 1] \in Entry
    BY <1>1
  <2> QED
    BY <1>1, <2>1 DEF Reverse
<1> HIDE DEF r, t
<1>4. ASSUME NEW i \in 1 .. Len(entries)
      PROVE  r[i] = t[i]
  <2>1. Len(entries) - i + 1 \in 1 .. Len(entries) /\ i \in 1 .. Len(list)
    BY <1>1
  <2>2. Len(list) - Len(entries) + (Len(entries) - i + 1) = Len(list) - i + 1
    BY <1>1
  <2> QED
    BY <1>1, <1>2, <1>3, <2>1, <2>2
<1>5. SubSeq(r, 1, Len(r)) = SubSeq(t, 1, Len(r))
  <2>1. /\ SubSeq(r, 1, Len(r)) = [i \in 1 .. Len(r) |-> r[i]]
        /\ SubSeq(t, 1, Len(r)) = [i \in 1 .. Len(r) |-> t[i]]
    BY <1>1, <1>2, <1>3
  <2> QED
    BY <1>2, <1>4, <2>1
<1> QED
  BY <1>1, <1>2, <1>3, <1>5 DEF IsSuffix, IsPrefix, r, t

LEMMA WholeIsEnd ==
  ASSUME NEW list \in Seq(Entry)
  PROVE  Holds(list, list)
BY DEF Holds, EndOf

(* Truncating leaves the end of the end.                                   *)
LEMMA LastOfEnd ==
  ASSUME NEW entries, NEW list \in Seq(Entry), Holds(entries, list),
         NEW n \in FileSizes, n \in Nat
  PROVE  Holds(LastOf(entries, n), list)
<1>1. /\ entries \in Seq(Entry) /\ Len(entries) \in Nat /\ Len(list) \in Nat
      /\ Len(entries) <= Len(list)
      /\ \A i \in 1 .. Len(entries) : entries[i] = list[Len(list) - Len(entries) + i]
  BY DEF Holds, EndOf
<1>2. CASE Len(entries) <= n
  BY <1>2 DEF LastOf
<1>3. CASE ~(Len(entries) <= n)
  <2> DEFINE k == Len(entries) - n
             s == SubSeq(entries, k + 1, Len(entries))
  <2>1. k \in 1 .. Len(entries)
    BY <1>1, <1>3
  <2>2. s \in Seq(Entry) /\ Len(s) = n /\ \A i \in 1 .. n : s[i] = entries[i + k]
    BY <1>1, <2>1
  <2>3. \A i \in 1 .. n : i + k \in 1 .. Len(entries)
    BY <1>1, <2>1
  <2>4. \A i \in 1 .. n : Len(list) - n + i = Len(list) - Len(entries) + (i + k)
    BY <1>1
  <2>5. LastOf(entries, n) = s
    BY <1>3 DEF LastOf
  <2>6. \A i \in 1 .. n : s[i] = list[Len(list) - n + i]
    BY <1>1, <2>2, <2>3, <2>4
  <2>7. n <= Len(list)
    BY <1>1, <1>3
  <2> HIDE DEF s, k
  <2> QED
    BY <2>2, <2>5, <2>6, <2>7 DEF Holds, EndOf
<1> QED
  BY <1>1, <1>2, <1>3

LEMMA SizesAreNumbers == \A n \in FileSizes : n \in Nat
BY Sizes, LinesAreLines DEF FileSizes, Line

-----------------------------------------------------------------------------
(* Entering the line.                                                      *)

LEMMA EnteredIsList ==
  ASSUME NEW m \in Process
  PROVE  Entered(m) \in Seq(Entry)
<1>1. m.list \in Seq(Entry) /\ EntryOf(m) \in Entry /\ Len(m.list) \in Nat
  BY DEF EntryOf, Entry, Process, Line
<1>2. CASE Len(m.list) < HistSize
  <2>1. AddHistory(m, EntryOf(m)).list = Append(m.list, EntryOf(m))
    BY <1>2 DEF AddHistory, Process
  <2> HIDE DEF AddHistory, EntryOf
  <2> QED
    BY <1>1, <2>1 DEF Entered
<1>3. CASE ~(Len(m.list) < HistSize)
  <2>1. AddHistory(m, EntryOf(m)).list = Append(Tail(m.list), EntryOf(m))
    BY <1>3 DEF AddHistory, Process
  <2>2. m.list # << >>
    BY <1>1, <1>3, Sizes
  <2>3. Tail(m.list) \in Seq(Entry)
    BY <1>1, <2>2
  <2> HIDE DEF AddHistory, EntryOf
  <2> QED
    BY <1>1, <2>1, <2>3 DEF Entered
<1> QED
  BY <1>2, <1>3

(* What is entered depends on the line, the list and the flags only.       *)
Alike(m, k) ==
  /\ k.list = m.list /\ k.base = m.base /\ k.flags = m.flags
  /\ k.line = m.line /\ k.no = m.no
LEMMA AlikeEnter ==
  ASSUME NEW m \in Process, NEW k \in Process, Alike(m, k)
  PROVE  Entered(k) = Entered(m)
<1>1. Compared(k) = Compared(m)
  BY DEF Alike, Compared, HistoryGet
<1>2. /\ Crashes(k) <=> Crashes(m)
      /\ Ignored(k) <=> Ignored(m)
  BY <1>1 DEF Alike, Crashes, Ignored, CheckDuplicated
<1>3. EntryOf(k) = EntryOf(m)
  BY DEF Alike, EntryOf
<1>4. \A entry : AddHistory(k, entry).list = AddHistory(m, entry).list
  BY DEF Alike, AddHistory, Process
<1> QED
  BY <1>2, <1>3, <1>4 DEF Alike, Entered

(* Add enters the line, and the process goes on.                           *)
LEMMA AddedEnters ==
  ASSUME NEW m \in Process
  PROVE  /\ Added(m).at = "crashed" \/ Added(m).list = Entered(m)
         /\ Added(m).no = m.no /\ Added(m).file_size = m.file_size
         /\ Added(m).finish = m.finish
         /\ Added(m).tail = m.tail /\ Added(m).from = m.from
         /\ Added(m).at = "crashed" \/ Added(m).at = IF m.finish THEN "saving" ELSE "prompt"
<1>1. CASE Crashes(m)
  BY <1>1 DEF Added, Process
<1>2. CASE ~Crashes(m) /\ Ignored(m)
  BY <1>2 DEF Added, Entered, Process
<1>3. CASE ~Crashes(m) /\ ~Ignored(m)
  <2> DEFINE next == AddHistory(m, EntryOf(m))
             at == IF m.finish THEN "saving" ELSE "prompt"
  <2>1. Added(m) = [next EXCEPT !.at = at]
    BY <1>3 DEF Added
  <2>2. Entered(m) = next.list
    BY <1>3 DEF Entered
  <2>3. \E list, base : next = [m EXCEPT !.list = list, !.base = base]
    <3>1. AddHistory(m, EntryOf(m)) = [m EXCEPT !.list = Append(m.list, EntryOf(m)), !.base = m.base]
          \/ AddHistory(m, EntryOf(m)) = [m EXCEPT !.list = Append(Tail(m.list), EntryOf(m)), !.base = m.base + 1]
      BY DEF AddHistory, Process
    <3> QED
      BY <3>1
  <2> HIDE DEF next, at
  <2>4. /\ Added(m).list = next.list /\ Added(m).no = m.no /\ Added(m).at = at
        /\ Added(m).file_size = m.file_size /\ Added(m).finish = m.finish
        /\ Added(m).tail = m.tail /\ Added(m).from = m.from
    BY <2>1, <2>3 DEF Process
  <2> QED
    BY <2>2, <2>4 DEF at
<1> QED
  BY <1>1, <1>2, <1>3

-----------------------------------------------------------------------------
(* Steps.                                                                  *)

(* What SavedInv says of one session.                                      *)
LEMMA SessionFacts ==
  ASSUME SavedInv, NEW s \in Sessions
  PROVE  /\ ShellOf(s) \in Procs /\ ChildOf(s) \in Procs /\ ShellOf(s) # ChildOf(s)
         /\ procs[ShellOf(s)] \in Process /\ procs[ChildOf(s)] \in Process
         /\ KeptBy(s, procs[ShellOf(s)], procs[ChildOf(s)], file, writer)
         /\ procs[ShellOf(s)].file_size \in FileSizes
         /\ procs[ChildOf(s)].file_size \in FileSizes
         /\ typed \in Nat
BY ShellsAreProcs, ProcessFacts DEF SavedInv, KeptIn, Image, ShellOf, ChildOf

LEMMA ImageFacts ==
  ASSUME SavedInv, NEW s \in Sessions, NEW entries, NEW who, Image(entries, who)
  PROVE  /\ KeptBy(s, procs[ShellOf(s)], procs[ChildOf(s)], entries, who)
         /\ Recent(who, typed)
<1>1. KeptBy(s, procs[ShellOf(s)], procs[ChildOf(s)], entries, who)
  BY DEF SavedInv, KeptIn
<1>2. Recent(who, typed)
  <2>1. Recent(writer, typed)
    BY DEF SavedInv, HistInv, Recent
  <2>2. \A p \in Procs : Recent(procs[p].from, typed)
    BY DEF SavedInv, HistInv, GoodProcess
  <2> QED
    BY <2>1, <2>2 DEF Image
<1> QED
  BY <1>1, <1>2

(* Nothing is asked of a file nobody has written.                          *)
LEMMA NothingKept ==
  ASSUME NEW s, NEW m, NEW c, NEW entries, NEW who, KeptBy(s, m, c, entries, who)
  PROVE  KeptBy(s, m, c, << >>, << >>)
<1>1. \A n : << >> # <<s, n>>
  OBVIOUS
<1> QED
  BY <1>1 DEF KeptBy

(* Nor of one another session wrote.                                       *)
LEMMA OthersKept ==
  ASSUME NEW s, NEW m, NEW c, NEW entries, NEW who, KeptBy(s, m, c, entries, who),
         NEW written, NEW t, t # s, NEW n
  PROVE  KeptBy(s, m, c, written, <<t, n>>)
<1>1. \A no : <<t, n>> # <<s, no>>
  OBVIOUS
<1> QED
  BY <1>1 DEF KeptBy

(* A step that only changes a session's own processes, and what it leaves  *)
(* in the file or about to be in it.                                       *)
LEMMA SessionKeeps ==
  ASSUME SavedInv, HistInv', NEW s \in Sessions,
         \A p \in Procs \ {ShellOf(s), ChildOf(s)} : procs'[p] = procs[p],
         procs'[ShellOf(s)].file_size \in FileSizes,
         procs'[ChildOf(s)].file_size \in FileSizes,
         \A entries, who : Image(entries, who)' =>
           /\ KeptBy(s, procs'[ShellOf(s)], procs'[ChildOf(s)], entries, who)
           /\ \A t \in Sessions \ {s} :
                KeptBy(t, procs[ShellOf(t)], procs[ChildOf(t)], entries, who)
  PROVE  SavedInv'
<1>1. ASSUME NEW p \in Procs
      PROVE  procs'[p].file_size \in FileSizes
  BY DEF SavedInv
<1>2. ASSUME NEW t \in Sessions, NEW entries, NEW who, Image(entries, who)'
      PROVE  KeptBy(t, procs'[ShellOf(t)], procs'[ChildOf(t)], entries, who)
  <2>1. CASE t = s
    BY <1>2, <2>1
  <2>2. CASE t # s
    <3>1. ShellOf(t) \in Procs \ {ShellOf(s), ChildOf(s)} /\ ChildOf(t) \in Procs \ {ShellOf(s), ChildOf(s)}
      BY <2>2 DEF ShellOf, ChildOf, Procs
    <3> QED
      BY <1>2, <2>2, <3>1
  <2> QED
    BY <2>1, <2>2
<1>3. ASSUME NEW t \in Sessions
      PROVE  KeptIn(t)'
  BY <1>2 DEF KeptIn, ShellOf, ChildOf
<1> QED
  BY <1>1, <1>3 DEF SavedInv

(* A step that writes nothing, and after which its processes are about to  *)
(* cut the file to nothing new.                                            *)
OldTail(k) ==
  Image(k.tail, k.from) \/ (k.tail = << >> /\ k.from = << >>)
LEMMA QuietKeeps ==
  ASSUME SavedInv, HistInv', NEW s \in Sessions, UNCHANGED <<file, writer>>,
         NEW k, NEW d, procs'[ShellOf(s)] = k, procs'[ChildOf(s)] = d,
         \A p \in Procs \ {ShellOf(s), ChildOf(s)} : procs'[p] = procs[p],
         k.file_size \in FileSizes, d.file_size \in FileSizes,
         OldTail(k), OldTail(d),
         \A entries, who : Image(entries, who) => KeptBy(s, k, d, entries, who)
  PROVE  SavedInv'
<1>1. ASSUME NEW entries, NEW who, Image(entries, who)'
      PROVE  Image(entries, who) \/ (entries = << >> /\ who = << >>)
  <2>1. CASE entries = file' /\ who = writer'
    BY <2>1 DEF Image
  <2>2. ASSUME NEW p \in Procs, entries = procs'[p].tail, who = procs'[p].from
        PROVE  Image(entries, who) \/ (entries = << >> /\ who = << >>)
    <3>1. CASE p \in {ShellOf(s), ChildOf(s)}
      BY <2>2, <3>1 DEF OldTail
    <3>2. CASE p \notin {ShellOf(s), ChildOf(s)}
      BY <2>2, <3>2 DEF Image
    <3> QED
      BY <3>1, <3>2
  <2> QED
    BY <1>1, <2>1, <2>2 DEF Image
<1>2. Image(file, writer)
  BY DEF Image
<1>3. KeptBy(s, k, d, << >>, << >>)
  BY <1>2, NothingKept
<1>4. ASSUME NEW t \in Sessions
      PROVE  KeptBy(t, procs[ShellOf(t)], procs[ChildOf(t)], << >>, << >>)
  BY SessionFacts, NothingKept
<1>5. ASSUME NEW entries, NEW who, Image(entries, who)'
      PROVE  /\ KeptBy(s, k, d, entries, who)
             /\ \A t \in Sessions \ {s} :
                  KeptBy(t, procs[ShellOf(t)], procs[ChildOf(t)], entries, who)
  <2>1. CASE Image(entries, who)
    BY <2>1, ImageFacts
  <2>2. CASE entries = << >> /\ who = << >>
    BY <2>2, <1>3, <1>4
  <2> QED
    BY <1>1, <1>5, <2>1, <2>2
<1> QED
  BY <1>5, SessionKeeps

(* A process is about to cut the file to an image.                         *)
LEMMA TailIsImage ==
  ASSUME NEW p \in Procs
  PROVE  OldTail(procs[p])
BY DEF OldTail, Image

(* A step of the shell alone.                                              *)
LEMMA ShellKeeps ==
  ASSUME SavedInv, HistInv', NEW s \in Sessions, NEW k, Become(ShellOf(s), k),
         UNCHANGED <<file, writer>>, k.file_size \in FileSizes, OldTail(k),
         \A entries, who : Image(entries, who) =>
           KeptBy(s, k, procs[ChildOf(s)], entries, who)
  PROVE  SavedInv'
<1>1. /\ ShellOf(s) \in Procs /\ ChildOf(s) \in Procs /\ ShellOf(s) # ChildOf(s)
      /\ procs[ChildOf(s)].file_size \in FileSizes
  BY SessionFacts
<1>2. /\ procs'[ShellOf(s)] = k /\ procs'[ChildOf(s)] = procs[ChildOf(s)]
      /\ \A p \in Procs \ {ShellOf(s)} : procs'[p] = procs[p]
  BY <1>1 DEF Become, SavedInv, HistInv
<1>3. OldTail(procs[ChildOf(s)])
  BY <1>1, TailIsImage
<1> QED
  BY <1>1, <1>2, <1>3, QuietKeeps

(* A step of the child alone.                                              *)
LEMMA ChildKeeps ==
  ASSUME SavedInv, HistInv', NEW s \in Sessions, NEW k, Become(ChildOf(s), k),
         UNCHANGED <<file, writer>>, k.file_size \in FileSizes, OldTail(k),
         \A entries, who : Image(entries, who) =>
           KeptBy(s, procs[ShellOf(s)], k, entries, who)
  PROVE  SavedInv'
<1>1. /\ ShellOf(s) \in Procs /\ ChildOf(s) \in Procs /\ ShellOf(s) # ChildOf(s)
      /\ procs[ShellOf(s)].file_size \in FileSizes
  BY SessionFacts
<1>2. /\ procs'[ChildOf(s)] = k /\ procs'[ShellOf(s)] = procs[ShellOf(s)]
      /\ \A p \in Procs \ {ChildOf(s)} : procs'[p] = procs[p]
  BY <1>1 DEF Become, SavedInv, HistInv
<1>3. OldTail(procs[ShellOf(s)])
  BY <1>1, TailIsImage
<1> QED
  BY <1>1, <1>2, <1>3, QuietKeeps

LEMMA GoneRests ==
  ASSUME NEW at \in Ended
  PROVE  /\ Gone(at).at = at /\ Gone(at).no = 0 /\ Gone(at).file_size \in FileSizes
         /\ Gone(at) \in Process /\ OldTail(Gone(at))
         /\ Gone(at).list = << >> /\ Gone(at).tail = << >> /\ Gone(at).from = << >>
BY GoneIsProcess DEF FileSizes, Gone, OldTail

LEMMA LoadSaves ==
  ASSUME SavedInv, HistInv', NEW s \in Sessions, Load(s) \/ LoadFails(s)
  PROVE  SavedInv'
<1> DEFINE c == procs[ChildOf(s)]
           saving == [Fresh EXCEPT !.at = "saving"]
           loaded == [ReadHistory(Fresh, file) EXCEPT !.at = "prompt"]
<1>1. c.at \in Ended /\ UNCHANGED <<file, writer>>
  BY DEF Load, LoadFails, At
<1>2. \E k \in {saving, loaded, Gone("over")} : Become(ShellOf(s), k)
  BY DEF Load, LoadFails
<1>3. /\ Fresh \in Process /\ Fresh.no = 0 /\ Fresh.file_size \in FileSizes
      /\ Fresh.tail = << >> /\ Fresh.from = << >>
  BY GoneRests DEF Fresh, Ended
<1>4. /\ Gone("over").at = "over" /\ Gone("over").no = 0
      /\ Gone("over").file_size \in FileSizes /\ OldTail(Gone("over"))
  BY GoneRests DEF Ended
<1> HIDE DEF Fresh, Gone, c
<1>5. /\ saving.at = "saving" /\ saving.no = 0 /\ saving.file_size \in FileSizes
      /\ OldTail(saving)
  BY <1>3 DEF Process, OldTail
<1>6. /\ loaded.at = "prompt" /\ loaded.no = 0 /\ loaded.file_size \in FileSizes
      /\ OldTail(loaded)
  BY <1>3 DEF ReadHistory, Process, OldTail
<1> HIDE DEF saving, loaded
<1>7. PICK k \in {saving, loaded, Gone("over")} : Become(ShellOf(s), k)
  BY <1>2
<1>8. k.at \in {"saving", "prompt", "over"} /\ k.no = 0 /\ k.file_size \in FileSizes /\ OldTail(k)
  BY <1>4, <1>5, <1>6, <1>7
<1>9. ASSUME NEW entries, NEW who
      PROVE  KeptBy(s, k, c, entries, who)
  BY <1>1, <1>8 DEF KeptBy, Rests, Waits, Ended, Active
<1> QED
  BY <1>1, <1>7, <1>8, <1>9, ShellKeeps DEF c

(* A child that has something to do has a shell that waits for it or is    *)
(* gone.                                                                   *)
Idle(c) == c.at \notin {"prompt", "running"} \cup Active
LEMMA ChildIdle ==
  ASSUME NEW s, NEW m, NEW c, NEW entries, NEW who, KeptBy(s, m, c, entries, who),
         ~Waits(m), m.at # "over"
  PROVE  Idle(c)
BY DEF KeptBy, Idle

(* Variables keep their sizes among the known ones, whatever is assigned.  *)
LEMMA AssignedSizes ==
  ASSUME NEW m \in Process, NEW l \in Line, m.file_size \in FileSizes,
         l \in Lines \/ l.does = "quiet"
  PROVE  /\ Assigned(l, m).file_size \in FileSizes
         /\ Assigned(l, m).forked = m.forked /\ Assigned(l, m).no = m.no
         /\ Assigned(l, m).at \in {m.at, "crashed"}
         /\ Assigned(l, m).tail = m.tail /\ Assigned(l, m).from = m.from
<1> DEFINE size == IF Sets(l, "HISTFILESIZE") /\ ~Aborts(l) THEN l.number
                   ELSE IF Unsets(l, "HISTFILESIZE") THEN FileSize ELSE m.file_size
<1>1. size \in FileSizes
  <2>1. Sets(l, "HISTFILESIZE") /\ ~Aborts(l) => l \in Lines /\ l.name = "HISTFILESIZE" /\ l.number # Null
    BY DEF Sets, Aborts
  <2> QED
    BY <2>1 DEF FileSizes
<1>2. /\ Assigned(l, m).file_size = size
      /\ Assigned(l, m).forked = m.forked /\ Assigned(l, m).no = m.no
      /\ Assigned(l, m).at \in {m.at, "crashed"}
      /\ Assigned(l, m).tail = m.tail /\ Assigned(l, m).from = m.from
  BY DEF Assigned, Process
<1> QED
  BY <1>1, <1>2

LEMMA LineOfIsKnown ==
  ASSUME NEW entry \in Entry
  PROVE  LineOf(entry) \in Lines \/ LineOf(entry).does = "quiet"
<1>1. CASE \E l \in Lines : l.text = entry.text
  BY <1>1 DEF LineOf
<1>2. CASE ~\E l \in Lines : l.text = entry.text
  BY <1>2 DEF LineOf, QuietLine
<1> QED
  BY <1>1, <1>2

LEMMA TypeLineSaves ==
  ASSUME SavedInv, HistInv', NEW s \in Sessions, NEW l \in Lines, TypeLine(s, l)
  PROVE  SavedInv'
<1> DEFINE m == procs[ShellOf(s)]
           c == procs[ChildOf(s)]
           running == [m EXCEPT !.at = "running", !.line = l, !.no = typed + 1, !.doing = l,
                                !.nested = 0, !.forked = FALSE]
           after == Assigned(l, running)
<1>1. /\ m \in Process /\ m.file_size \in FileSizes /\ typed \in Nat /\ OldTail(m)
      /\ KeptBy(s, m, c, file, writer) /\ l \in Line
  BY SessionFacts, TailIsImage, LinesAreLines
<1>2. m.at = "prompt" /\ Become(ShellOf(s), after) /\ UNCHANGED <<file, writer>>
  BY DEF TypeLine
<1>3. \A who : Recent(who, typed) => who # <<s, typed + 1>>
  <2>1. ASSUME NEW t, NEW n \in 0 .. typed
        PROVE  <<t, n>> # <<s, typed + 1>>
    BY <1>1
  <2>2. << >> # <<s, typed + 1>>
    OBVIOUS
  <2> QED
    BY <2>1, <2>2 DEF Recent
<1>4. Idle(c)
  BY <1>1, <1>2, ChildIdle DEF Waits
<1> HIDE DEF m, c
<1>5. /\ running \in Process /\ running.at = "running" /\ ~running.forked
      /\ running.no = typed + 1 /\ running.file_size \in FileSizes
      /\ running.tail = m.tail /\ running.from = m.from
  <2>1. typed + 1 \in Nat
    BY <1>1
  <2> QED
    BY <1>1, <2>1 DEF Process
<1> HIDE DEF running
<1>6. /\ after.file_size \in FileSizes /\ ~after.forked /\ after.no = typed + 1
      /\ after.at \in {"running", "crashed"}
      /\ after.tail = m.tail /\ after.from = m.from
  BY <1>1, <1>5, AssignedSizes
<1> HIDE DEF after
<1>7. ASSUME NEW entries, NEW who, Image(entries, who)
      PROVE  KeptBy(s, after, c, entries, who)
  <2>1. Recent(who, typed)
    BY <1>7, ImageFacts
  <2> QED
    BY <1>3, <1>4, <1>6, <2>1 DEF KeptBy, Rests, Waits, Idle
<1>8. OldTail(after)
  BY <1>1, <1>6 DEF OldTail
<1> QED
  BY <1>2, <1>6, <1>7, <1>8, ShellKeeps DEF c

LEMMA AgainSaves ==
  ASSUME SavedInv, HistInv', NEW s \in Sessions, Again(s) \/ AgainForEver(s)
  PROVE  SavedInv'
<1> DEFINE m == procs[ShellOf(s)]
           c == procs[ChildOf(s)]
           line == LineOf(Repeated(m))
           nested == [m EXCEPT !.doing = line, !.nested = @ + 1]
           after == Assigned(line, nested)
           lost == [m EXCEPT !.at = "crashed"]
<1>1. /\ m \in Process /\ m.file_size \in FileSizes /\ OldTail(m)
      /\ KeptBy(s, m, c, file, writer)
      /\ \A entries, who : Image(entries, who) => KeptBy(s, m, c, entries, who)
  BY SessionFacts, ImageFacts, TailIsImage
<1>2. /\ m.at = "running" /\ m.doing.does = "again" /\ Repeated(m) # Null
      /\ Become(ShellOf(s), after) \/ Become(ShellOf(s), lost)
      /\ UNCHANGED <<file, writer>>
  BY DEF Again, AgainForEver, Repeats
<1> HIDE DEF m, c
<1>3. ~m.forked
  BY <1>1, <1>2 DEF KeptBy, Waits, Forks
<1>4. Idle(c)
  BY <1>1, <1>2, <1>3, ChildIdle DEF Waits
<1>5. line \in Line /\ (line \in Lines \/ line.does = "quiet")
  BY <1>1, <1>2, RepeatedIsEntry, LineOfIsLine, LineOfIsKnown
<1> HIDE DEF line
<1>6. /\ nested \in Process /\ nested.at = "running" /\ ~nested.forked
      /\ nested.no = m.no /\ nested.file_size \in FileSizes
      /\ nested.tail = m.tail /\ nested.from = m.from
  <2>1. m.nested + 1 \in Nat
    BY <1>1 DEF Process
  <2> QED
    BY <1>1, <1>2, <1>3, <1>5, <2>1 DEF Process
<1> HIDE DEF nested
<1>7. /\ after.file_size \in FileSizes /\ ~after.forked /\ after.no = m.no
      /\ after.at \in {"running", "crashed"}
      /\ after.tail = m.tail /\ after.from = m.from
  BY <1>5, <1>6, AssignedSizes
<1>8. /\ lost.file_size \in FileSizes /\ ~lost.forked /\ lost.no = m.no /\ lost.at = "crashed"
      /\ lost.tail = m.tail /\ lost.from = m.from
  BY <1>1, <1>3 DEF Process
<1> HIDE DEF after, lost
<1>9. ASSUME NEW entries, NEW who, Image(entries, who)
      PROVE  KeptBy(s, after, c, entries, who) /\ KeptBy(s, lost, c, entries, who)
  <2>1. who # <<s, m.no>>
    BY <1>1, <1>2, <1>3, <1>9 DEF KeptBy
  <2> QED
    BY <1>4, <1>7, <1>8, <2>1 DEF KeptBy, Rests, Waits, Idle
<1>10. OldTail(after) /\ OldTail(lost)
  BY <1>1, <1>7, <1>8 DEF OldTail
<1> QED
  BY <1>2, <1>7, <1>8, <1>9, <1>10, ShellKeeps DEF c

LEMMA PromptSaves ==
  ASSUME SavedInv, HistInv', NEW s \in Sessions, Interrupt(s) \/ InputEnds(s) \/ ReadEof(s)
  PROVE  SavedInv'
<1> DEFINE m == procs[ShellOf(s)]
           c == procs[ChildOf(s)]
           steps == {[m EXCEPT !.signaled = TRUE], [m EXCEPT !.eof = TRUE],
                     [m EXCEPT !.at = "saving", !.finish = TRUE], m}
<1>1. /\ m \in Process /\ m.file_size \in FileSizes /\ OldTail(m)
      /\ KeptBy(s, m, c, file, writer)
      /\ \A entries, who : Image(entries, who) => KeptBy(s, m, c, entries, who)
  BY SessionFacts, ImageFacts, TailIsImage
<1>2. m.at = "prompt" /\ UNCHANGED <<file, writer>> /\ \E k \in steps : Become(ShellOf(s), k)
  BY DEF Interrupt, InputEnds, ReadEof, At
<1> HIDE DEF m, c
<1>3. Idle(c)
  BY <1>1, <1>2, ChildIdle DEF Waits
<1>4. PICK k \in steps : Become(ShellOf(s), k)
  BY <1>2
<1>5. /\ k.at \in {"prompt", "saving"} /\ k.list = m.list /\ k.no = m.no
      /\ k.file_size \in FileSizes /\ k.tail = m.tail /\ k.from = m.from
  BY <1>1, <1>2, ZenonT(30) DEF Process
<1>6. ASSUME NEW entries, NEW who, Image(entries, who)
      PROVE  KeptBy(s, k, c, entries, who)
  <2>1. KeptBy(s, m, c, entries, who)
    BY <1>1, <1>6
  <2> QED
    BY <1>2, <1>3, <1>5, <2>1 DEF KeptBy, Rests, Waits, Idle
<1>7. OldTail(k)
  BY <1>1, <1>5 DEF OldTail
<1> QED
  BY <1>2, <1>4, <1>5, <1>6, <1>7, ShellKeeps DEF c

LEMMA ForkBuiltinSaves ==
  ASSUME SavedInv, HistInv', NEW s \in Sessions, ForkBuiltin(s)
  PROVE  SavedInv'
<1> DEFINE m == procs[ShellOf(s)]
           c == procs[ChildOf(s)]
           shell == [m EXCEPT !.forked = TRUE]
           child == [m EXCEPT !.at = "adding", !.finish = TRUE]
<1>1. /\ m \in Process /\ m.file_size \in FileSizes /\ OldTail(m)
      /\ \A entries, who : Image(entries, who) => KeptBy(s, m, c, entries, who)
  BY SessionFacts, ImageFacts, TailIsImage
<1>2. /\ m.at = "running" /\ Forks(m) /\ ~m.forked /\ UNCHANGED <<file, writer>>
      /\ procs' = [procs EXCEPT ![ShellOf(s)] = shell, ![ChildOf(s)] = child]
  BY DEF ForkBuiltin
<1> HIDE DEF m, c
<1>3. /\ shell \in Process /\ shell.at = "running" /\ shell.forked
      /\ shell.file_size \in FileSizes /\ Alike(m, shell) /\ shell.doing = m.doing
      /\ shell.tail = m.tail /\ shell.from = m.from
  BY <1>1, <1>2 DEF Process, Alike
<1>4. /\ child \in Process /\ child.at = "adding" /\ child.finish
      /\ child.file_size \in FileSizes /\ Alike(m, child)
      /\ child.tail = m.tail /\ child.from = m.from
  BY <1>1, <1>2 DEF Process, Alike
<1> HIDE DEF shell, child
<1>5. Entered(child) = Entered(m) /\ Entered(shell) = Entered(m)
  BY <1>1, <1>3, <1>4, AlikeEnter
<1>6. Forks(shell)
  BY <1>2, <1>3 DEF Forks, Repeated, HistoryGet, Alike
<1>7. ASSUME NEW entries, NEW who, Image(entries, who)
      PROVE  KeptBy(s, shell, child, entries, who)
  <2>1. shell.no = m.no /\ child.no = shell.no
    BY <1>3, <1>4 DEF Alike
  <2>2. Waits(shell) /\ ~Rests(shell) /\ shell.at # "adding"
    BY <1>3 DEF Rests, Waits
  <2>3. Entered(child) = Entered(shell)
    BY <1>5
  <2>4. who # <<s, shell.no>>
    BY <1>1, <1>2, <1>7, <2>1 DEF KeptBy
  <2>5. /\ child.at \notin {"prompt", "running"} /\ child.finish
        /\ IF child.at = "adding" THEN Entered(child) = Entered(shell)
           ELSE child.list = Entered(shell)
    BY <1>4, <2>3
  <2>6. shell.at = "running" /\ ~shell.forked => who # <<s, shell.no>>
    BY <1>3
  <2> QED
    BY <1>6, <2>1, <2>2, <2>4, <2>5, <2>6 DEF KeptBy
<1>8. OldTail(shell) /\ OldTail(child)
  BY <1>1, <1>3, <1>4 DEF OldTail
<1>9. /\ procs'[ShellOf(s)] = shell /\ procs'[ChildOf(s)] = child
      /\ \A p \in Procs \ {ShellOf(s), ChildOf(s)} : procs'[p] = procs[p]
  BY <1>2, SessionFacts DEF SavedInv, HistInv
<1> QED
  BY <1>2, <1>3, <1>4, <1>7, <1>8, <1>9, QuietKeeps

LEMMA EndLineSaves ==
  ASSUME SavedInv, HistInv', NEW s \in Sessions, EndLine(s)
  PROVE  SavedInv'
<1> DEFINE m == procs[ShellOf(s)]
           c == procs[ChildOf(s)]
           exits == m.doing.does = "exit"
           k == [m EXCEPT !.at = "adding", !.finish = exits]
<1>1. /\ m \in Process /\ m.file_size \in FileSizes /\ OldTail(m)
      /\ \A entries, who : Image(entries, who) => KeptBy(s, m, c, entries, who)
  BY SessionFacts, ImageFacts, TailIsImage
<1>2. /\ m.at = "running" /\ c.at \in Ended /\ UNCHANGED <<file, writer>>
      /\ Become(ShellOf(s), Gone("over")) \/ Become(ShellOf(s), k)
  BY DEF EndLine, At
<1>3. exits \in BOOLEAN
  OBVIOUS
<1> HIDE DEF m, c, exits
<1>4. CASE Become(ShellOf(s), Gone("over"))
  <2>1. /\ Gone("over").at = "over" /\ Gone("over").no = 0
        /\ Gone("over").file_size \in FileSizes /\ OldTail(Gone("over"))
    BY GoneRests DEF Ended
  <2> HIDE DEF Gone
  <2>2. ASSUME NEW entries, NEW who
        PROVE  KeptBy(s, Gone("over"), c, entries, who)
    BY <1>2, <2>1 DEF KeptBy, Rests, Waits, Ended, Active
  <2> QED
    BY <1>2, <1>4, <2>1, <2>2, ShellKeeps DEF c
<1>5. CASE Become(ShellOf(s), k)
  <2>1. /\ k \in Process /\ k.at = "adding" /\ k.file_size \in FileSizes /\ Alike(m, k)
        /\ k.tail = m.tail /\ k.from = m.from
    BY <1>1, <1>3 DEF Process, Alike
  <2> HIDE DEF k
  <2>2. Entered(k) = Entered(m) /\ k.no = m.no
    BY <1>1, <2>1, AlikeEnter DEF Alike
  <2>3. ASSUME NEW entries, NEW who, Image(entries, who)
        PROVE  KeptBy(s, k, c, entries, who)
    <3>1. KeptBy(s, m, c, entries, who)
      BY <1>1, <2>3
    <3> QED
      BY <1>2, <2>1, <2>2, <3>1 DEF KeptBy, Rests, Waits, Ended, Active
  <2>4. OldTail(k)
    BY <1>1, <2>1 DEF OldTail
  <2> QED
    BY <1>2, <1>5, <2>1, <2>3, <2>4, ShellKeeps DEF c
<1> QED
  BY <1>2, <1>4, <1>5

(* Every process is the shell or the child of a session.                   *)
LEMMA ShellOrChild ==
  ASSUME NEW p \in Procs
  PROVE  p[1] \in Sessions /\ (p = ShellOf(p[1]) \/ p = ChildOf(p[1]))
BY DEF Procs, ShellOf, ChildOf

LEMMA AddSaves ==
  ASSUME SavedInv, HistInv', NEW p \in Procs, Add(p)
  PROVE  SavedInv'
<1> DEFINE s == p[1]
           m == procs[ShellOf(s)]
           c == procs[ChildOf(s)]
<1>1. s \in Sessions /\ (p = ShellOf(s) \/ p = ChildOf(s))
  BY ShellOrChild
<1>2. /\ m \in Process /\ c \in Process /\ OldTail(m) /\ OldTail(c)
      /\ m.file_size \in FileSizes /\ c.file_size \in FileSizes
      /\ KeptBy(s, m, c, file, writer)
      /\ \A entries, who : Image(entries, who) => KeptBy(s, m, c, entries, who)
  BY <1>1, SessionFacts, ImageFacts, TailIsImage
<1>3. procs[p].at = "adding" /\ Become(p, Added(procs[p])) /\ UNCHANGED <<file, writer>>
  BY DEF Add, At
<1>4. CASE p = ShellOf(s)
  <2> DEFINE k == Added(m)
  <2>1. m.at = "adding" /\ Become(ShellOf(s), k)
    BY <1>3, <1>4
  <2> HIDE DEF m, c
  <2>2. /\ k.at = "crashed" \/ (k.list = Entered(m) /\ k.at \in {"saving", "prompt"})
        /\ k.no = m.no /\ k.file_size = m.file_size
        /\ k.tail = m.tail /\ k.from = m.from
    BY <1>2, AddedEnters
  <2>3. Idle(c)
    BY <1>2, <2>1, ChildIdle DEF Waits
  <2> HIDE DEF k
  <2>4. ASSUME NEW entries, NEW who, Image(entries, who)
        PROVE  KeptBy(s, k, c, entries, who)
    <3>1. KeptBy(s, m, c, entries, who)
      BY <1>2, <2>4
    <3> QED
      BY <2>1, <2>2, <2>3, <3>1 DEF KeptBy, Rests, Waits, Idle
  <2>5. OldTail(k)
    BY <1>2, <2>2 DEF OldTail
  <2> HIDE DEF s
  <2> QED
    BY <1>1, <1>2, <1>3, <2>1, <2>2, <2>4, <2>5, ShellKeeps DEF c
<1>5. CASE p = ChildOf(s)
  <2> DEFINE k == Added(c)
  <2>1. c.at = "adding" /\ Become(ChildOf(s), k)
    BY <1>3, <1>5
  <2> HIDE DEF m, c
  <2>2. /\ c.finish /\ (Waits(m) \/ (m.at = "over" /\ m.no = 0))
        /\ Waits(m) => c.no = m.no /\ Entered(c) = Entered(m)
    BY <1>2, <2>1 DEF KeptBy, Active
  <2>3. /\ k.at = "crashed" \/ (k.list = Entered(c) /\ k.at = "saving")
        /\ k.no = c.no /\ k.file_size = c.file_size /\ k.finish
        /\ k.tail = c.tail /\ k.from = c.from
    BY <1>2, <2>2, AddedEnters
  <2> HIDE DEF k
  <2>4. ASSUME NEW entries, NEW who, Image(entries, who)
        PROVE  KeptBy(s, m, k, entries, who)
    <3>1. KeptBy(s, m, c, entries, who)
      BY <1>2, <2>4
    <3> QED
      BY <2>2, <2>3, <3>1 DEF KeptBy, Active
  <2>5. OldTail(k)
    BY <1>2, <2>3 DEF OldTail
  <2> HIDE DEF s
  <2> QED
    BY <1>1, <1>2, <1>3, <2>1, <2>3, <2>4, <2>5, ChildKeeps DEF m
<1> QED
  BY <1>1, <1>4, <1>5

(* A process that is killed, or fails to save, asks for nothing more; its  *)
(* child, if it has one, goes on alone.                                    *)
LEMMA KillSaves ==
  ASSUME SavedInv, HistInv', NEW p \in Procs, SaveFails(p) \/ Kill(p)
  PROVE  SavedInv'
<1> DEFINE s == p[1]
           m == procs[ShellOf(s)]
           c == procs[ChildOf(s)]
           gone == Gone("over")
<1>1. s \in Sessions /\ (p = ShellOf(s) \/ p = ChildOf(s))
  BY ShellOrChild
<1>2. \A entries, who : Image(entries, who) => KeptBy(s, m, c, entries, who)
  BY <1>1, ImageFacts
<1>3. Become(p, gone) /\ UNCHANGED <<file, writer>>
  BY DEF SaveFails, Kill
<1>4. gone.at = "over" /\ gone.no = 0 /\ gone.file_size \in FileSizes /\ OldTail(gone)
  BY GoneRests DEF Ended
<1> HIDE DEF gone
<1>5. CASE p = ShellOf(s)
  <2> HIDE DEF m, c
  <2>1. ASSUME NEW entries, NEW who, Image(entries, who)
        PROVE  KeptBy(s, gone, c, entries, who)
    <3>1. KeptBy(s, m, c, entries, who)
      BY <1>2, <2>1
    <3> QED
      BY <1>4, <3>1 DEF KeptBy, Rests, Waits
  <2> HIDE DEF s
  <2> QED
    BY <1>1, <1>3, <1>4, <1>5, <2>1, ShellKeeps DEF c
<1>6. CASE p = ChildOf(s)
  <2> HIDE DEF m, c
  <2>1. ASSUME NEW entries, NEW who, Image(entries, who)
        PROVE  KeptBy(s, m, gone, entries, who)
    <3>1. KeptBy(s, m, c, entries, who)
      BY <1>2, <2>1
    <3> QED
      BY <1>4, <3>1 DEF KeptBy, Active
  <2> HIDE DEF s
  <2> QED
    BY <1>1, <1>3, <1>4, <1>6, <2>1, ChildKeeps DEF m
<1> QED
  BY <1>1, <1>5, <1>6

(* A process that goes on saving, and leaves images everybody is content   *)
(* with.                                                                   *)
LEMMA SavingOn ==
  ASSUME SavedInv, HistInv', NEW p \in Procs, NEW k, Become(p, k),
         procs[p].at \in {"saving", "truncating", "cutting"},
         k.at \in {"truncating", "cutting", "prompt", "over"},
         k.at = "prompt" => ~procs[p].finish,
         k.list = procs[p].list, k.no = procs[p].no, k.finish = procs[p].finish,
         k.file_size \in FileSizes,
         \A entries, who : Image(entries, who)' =>
           \A t \in Sessions : KeptBy(t, procs[ShellOf(t)], procs[ChildOf(t)], entries, who)
  PROVE  SavedInv'
<1> DEFINE s == p[1]
           m == procs[ShellOf(s)]
           c == procs[ChildOf(s)]
<1>1. s \in Sessions /\ (p = ShellOf(s) \/ p = ChildOf(s))
  BY ShellOrChild
<1>2. /\ m.file_size \in FileSizes /\ c.file_size \in FileSizes
      /\ KeptBy(s, m, c, file, writer)
      /\ ShellOf(s) \in Procs /\ ChildOf(s) \in Procs /\ ShellOf(s) # ChildOf(s)
  BY <1>1, SessionFacts
<1>3. procs'[p] = k /\ \A q \in Procs \ {p} : procs'[q] = procs[q]
  BY DEF Become, SavedInv, HistInv
<1>4. CASE p = ShellOf(s)
  <2>1. procs'[ShellOf(s)] = k /\ procs'[ChildOf(s)] = c /\ procs[p] = m
    BY <1>2, <1>3, <1>4
  <2>2. Idle(c)
    BY <1>2, <2>1, ChildIdle DEF Waits
  <2>3. ASSUME NEW entries, NEW who, KeptBy(s, m, c, entries, who)
        PROVE  KeptBy(s, k, c, entries, who)
    <3> HIDE DEF m, c
    <3> QED
      BY <2>1, <2>2, <2>3 DEF KeptBy, Rests, Waits, Idle
  <2> HIDE DEF s
  <2> QED
    BY <1>1, <1>2, <1>3, <1>4, <2>1, <2>3, SessionKeeps
<1>5. CASE p = ChildOf(s)
  <2>1. procs'[ShellOf(s)] = m /\ procs'[ChildOf(s)] = k /\ procs[p] = c
    BY <1>2, <1>3, <1>5
  <2>2. c.finish
    BY <1>2, <2>1 DEF KeptBy, Active
  <2>3. ASSUME NEW entries, NEW who, KeptBy(s, m, c, entries, who)
        PROVE  KeptBy(s, m, k, entries, who)
    <3> HIDE DEF m, c
    <3> QED
      BY <2>1, <2>2, <2>3 DEF KeptBy, Active
  <2> HIDE DEF s
  <2> QED
    BY <1>1, <1>2, <1>3, <1>5, <2>1, <2>3, SessionKeeps
<1> QED
  BY <1>1, <1>4, <1>5

LEMMA WriteSaves ==
  ASSUME SavedInv, HistInv', NEW p \in Procs, Write(p)
  PROVE  SavedInv'
<1> DEFINE s == p[1]
           m == procs[ShellOf(s)]
           c == procs[ChildOf(s)]
           k == [procs[p] EXCEPT !.at = "truncating"]
<1>1. s \in Sessions /\ (p = ShellOf(s) \/ p = ChildOf(s))
  BY ShellOrChild
<1>2. /\ m \in Process /\ c \in Process
      /\ m.file_size \in FileSizes /\ c.file_size \in FileSizes
      /\ KeptBy(s, m, c, file, writer)
  BY <1>1, SessionFacts
<1>3. /\ procs[p].at = "saving" /\ Become(p, k)
      /\ file' = procs[p].list /\ writer' = <<s, procs[p].no>>
  BY DEF Write, At
<1>4. /\ k.at = "truncating" /\ k.list = procs[p].list /\ k.no = procs[p].no
      /\ k.finish = procs[p].finish /\ k.file_size \in FileSizes
      /\ k.tail = procs[p].tail /\ k.from = procs[p].from
  BY <1>1, <1>2 DEF Process
<1> HIDE DEF k
<1>5. KeptBy(s, m, c, file', writer')
  <2>1. CASE p = ShellOf(s)
    <3>1. m.at = "saving" /\ file' = m.list /\ writer' = <<s, m.no>>
      BY <1>3, <2>1
    <3> HIDE DEF m, c
    <3>2. Holds(m.list, m.list)
      BY <1>2, WholeIsEnd DEF Process
    <3> QED
      BY <1>2, <3>1, <3>2 DEF KeptBy, Rests, Waits
  <2>2. CASE p = ChildOf(s)
    <3>1. c.at = "saving" /\ file' = c.list /\ writer' = <<s, c.no>>
      BY <1>3, <2>2
    <3> HIDE DEF m, c
    <3>2. Holds(c.list, c.list)
      BY <1>2, WholeIsEnd DEF Process
    <3>3. CASE Waits(m)
      <4>1. c.list = Entered(m)
        BY <1>2, <3>1, <3>3 DEF KeptBy, Active
      <4> QED
        BY <1>2, <3>1, <3>2, <3>3, <4>1 DEF KeptBy, Rests, Waits
    <3>4. CASE ~Waits(m)
      <4>1. m.at = "over" /\ m.no = 0
        BY <1>2, <3>1, <3>4 DEF KeptBy, Active
      <4> QED
        BY <1>2, <4>1 DEF KeptBy, Rests, Waits
    <3> QED
      BY <3>3, <3>4
  <2> QED
    BY <1>1, <2>1, <2>2
<1>6. ASSUME NEW t \in Sessions
      PROVE  KeptBy(t, procs[ShellOf(t)], procs[ChildOf(t)], file', writer')
  <2>1. CASE t = s
    BY <1>5, <2>1
  <2>2. CASE t # s
    BY <1>3, <2>2, SessionFacts, OthersKept
  <2> QED
    BY <2>1, <2>2
<1>7. ASSUME NEW entries, NEW who, Image(entries, who)'
      PROVE  Image(entries, who) \/ (entries = file' /\ who = writer')
  <2>1. procs'[p] = k /\ \A q \in Procs \ {p} : procs'[q] = procs[q]
    BY <1>3 DEF Become, SavedInv, HistInv
  <2>2. \A q \in Procs : procs'[q].tail = procs[q].tail /\ procs'[q].from = procs[q].from
    BY <1>4, <2>1
  <2> QED
    BY <1>7, <2>2 DEF Image
<1>8. ASSUME NEW entries, NEW who, Image(entries, who)', NEW t \in Sessions
      PROVE  KeptBy(t, procs[ShellOf(t)], procs[ChildOf(t)], entries, who)
  BY <1>6, <1>7, <1>8, ImageFacts
<1> QED
  BY <1>3, <1>4, <1>8, SavingOn

(* The file is cut to one of the sizes: it is still the end of every list  *)
(* it was the end of.                                                      *)
LEMMA EndKeeps ==
  ASSUME NEW s, NEW m \in Process, NEW c, NEW entries, NEW who,
         KeptBy(s, m, c, entries, who), NEW n \in FileSizes
  PROVE  KeptBy(s, m, c, LastOf(entries, n), who)
<1>1. n \in Nat /\ m.list \in Seq(Entry) /\ Entered(m) \in Seq(Entry)
  BY SizesAreNumbers, EnteredIsList DEF Process
<1>2. \A list \in Seq(Entry) : Holds(entries, list) => Holds(LastOf(entries, n), list)
  BY <1>1, LastOfEnd
<1> QED
  BY <1>1, <1>2 DEF KeptBy

LEMMA SavedIsDone ==
  ASSUME NEW m \in Process
  PROVE  /\ Saved(m).at \in {"over", "prompt"} /\ (m.finish => Saved(m).at = "over")
         /\ Saved(m).list = m.list /\ Saved(m).no = m.no /\ Saved(m).finish = m.finish
         /\ Saved(m).file_size = m.file_size
         /\ Saved(m).tail = << >> /\ Saved(m).from = << >>
BY DEF Saved, Process

LEMMA TruncateSaves ==
  ASSUME SavedInv, HistInv', NEW p \in Procs, Truncate(p)
  PROVE  SavedInv'
<1> DEFINE m == procs[p]
           end == LastOf(file, m.file_size)
           cutting == [m EXCEPT !.at = "cutting", !.tail = end, !.from = writer]
<1>1. /\ m \in Process /\ m.file_size \in FileSizes /\ m.at = "truncating"
      /\ UNCHANGED <<file, writer>>
  BY ProcessFacts DEF SavedInv, Truncate, At
<1>2. Become(p, Saved(m)) \/ Become(p, cutting)
  BY DEF Truncate
<1> HIDE DEF end
<1>3. /\ cutting.at = "cutting" /\ cutting.list = m.list /\ cutting.no = m.no
      /\ cutting.finish = m.finish /\ cutting.file_size = m.file_size
      /\ cutting.tail = end /\ cutting.from = writer
  BY <1>1 DEF Process
<1>4. PICK k \in {Saved(m), cutting} : Become(p, k)
  BY <1>2
<1> HIDE DEF cutting
<1>5. /\ k.at \in {"cutting", "over", "prompt"} /\ (m.finish => k.at # "prompt")
      /\ k.list = m.list /\ k.no = m.no /\ k.finish = m.finish /\ k.file_size \in FileSizes
      /\ \/ k.tail = << >> /\ k.from = << >>
         \/ k.tail = end /\ k.from = writer
  BY <1>1, <1>3, <1>4, SavedIsDone
<1>6. procs'[p] = k /\ \A q \in Procs \ {p} : procs'[q] = procs[q]
  BY <1>4 DEF Become, SavedInv, HistInv
<1>7. ASSUME NEW entries, NEW who, Image(entries, who)'
      PROVE  \/ Image(entries, who)
             \/ entries = << >> /\ who = << >>
             \/ entries = end /\ who = writer
  <2>1. CASE entries = file' /\ who = writer'
    BY <1>1, <2>1 DEF Image
  <2>2. ASSUME NEW q \in Procs, entries = procs'[q].tail, who = procs'[q].from
        PROVE  \/ Image(entries, who)
               \/ entries = << >> /\ who = << >>
               \/ entries = end /\ who = writer
    <3>1. CASE q = p
      BY <1>5, <1>6, <2>2, <3>1
    <3>2. CASE q # p
      BY <1>6, <2>2, <3>2 DEF Image
    <3> QED
      BY <3>1, <3>2
  <2> QED
    BY <1>7, <2>1, <2>2 DEF Image
<1>8. ASSUME NEW t \in Sessions
      PROVE  /\ KeptBy(t, procs[ShellOf(t)], procs[ChildOf(t)], << >>, << >>)
             /\ KeptBy(t, procs[ShellOf(t)], procs[ChildOf(t)], end, writer)
  <2>1. /\ procs[ShellOf(t)] \in Process
        /\ KeptBy(t, procs[ShellOf(t)], procs[ChildOf(t)], file, writer)
    BY SessionFacts
  <2> QED
    BY <1>1, <2>1, NothingKept, EndKeeps DEF end
<1>9. ASSUME NEW entries, NEW who, Image(entries, who)', NEW t \in Sessions
      PROVE  KeptBy(t, procs[ShellOf(t)], procs[ChildOf(t)], entries, who)
  BY <1>7, <1>8, <1>9, ImageFacts
<1> HIDE DEF m
<1>10. /\ procs[p].at \in {"saving", "truncating", "cutting"}
       /\ k.at \in {"truncating", "cutting", "prompt", "over"}
       /\ k.at = "prompt" => ~procs[p].finish
       /\ k.list = procs[p].list /\ k.no = procs[p].no /\ k.finish = procs[p].finish
  BY <1>1, <1>5 DEF m
<1> QED
  BY <1>4, <1>5, <1>9, <1>10, SavingOn

LEMMA CutSaves ==
  ASSUME SavedInv, HistInv', NEW p \in Procs, Cut(p)
  PROVE  SavedInv'
<1> DEFINE m == procs[p]
           k == Saved(m)
<1>1. /\ m \in Process /\ m.file_size \in FileSizes /\ m.at = "cutting"
      /\ file' = m.tail /\ writer' = m.from /\ Become(p, k)
  BY ProcessFacts DEF SavedInv, Cut, At
<1>2. /\ k.at \in {"over", "prompt"} /\ (m.finish => k.at = "over")
      /\ k.list = m.list /\ k.no = m.no /\ k.finish = m.finish
      /\ k.file_size \in FileSizes /\ k.tail = << >> /\ k.from = << >>
  BY <1>1, SavedIsDone
<1> HIDE DEF k
<1>3. procs'[p] = k /\ \A q \in Procs \ {p} : procs'[q] = procs[q]
  BY <1>1 DEF Become, SavedInv, HistInv
<1>4. ASSUME NEW entries, NEW who, Image(entries, who)'
      PROVE  Image(entries, who) \/ (entries = << >> /\ who = << >>)
  <2>1. CASE entries = file' /\ who = writer'
    BY <1>1, <2>1 DEF Image
  <2>2. ASSUME NEW q \in Procs, entries = procs'[q].tail, who = procs'[q].from
        PROVE  Image(entries, who) \/ (entries = << >> /\ who = << >>)
    <3>1. CASE q = p
      BY <1>2, <1>3, <2>2, <3>1
    <3>2. CASE q # p
      BY <1>3, <2>2, <3>2 DEF Image
    <3> QED
      BY <3>1, <3>2
  <2> QED
    BY <1>4, <2>1, <2>2 DEF Image
<1>5. ASSUME NEW t \in Sessions
      PROVE  KeptBy(t, procs[ShellOf(t)], procs[ChildOf(t)], << >>, << >>)
  BY SessionFacts, NothingKept
<1>6. ASSUME NEW entries, NEW who, Image(entries, who)', NEW t \in Sessions
      PROVE  KeptBy(t, procs[ShellOf(t)], procs[ChildOf(t)], entries, who)
  BY <1>4, <1>5, <1>6, ImageFacts
<1> QED
  BY <1>1, <1>2, <1>6, SavingOn

-----------------------------------------------------------------------------
LEMMA SavedInit == Init => SavedInv
<1>1. SUFFICES ASSUME Init PROVE SavedInv
  OBVIOUS
<1>2. Fresh.at = "off" /\ Fresh.no = 0 /\ Fresh.file_size \in FileSizes
  BY GoneRests DEF Fresh, Ended
<1> HIDE DEF Fresh
<1>3. \A p \in Procs : procs[p] = Fresh
  BY <1>1 DEF Init
<1>4. \A s \in Sessions : KeptIn(s)
  BY <1>2, <1>3, ShellsAreProcs DEF KeptIn, KeptBy, Rests, Waits, Active
<1> QED
  BY <1>1, <1>2, <1>3, <1>4, InitHolds DEF SavedInv

LEMMA SavedStutters == SavedInv /\ UNCHANGED vars => SavedInv'
<1>1. SUFFICES ASSUME SavedInv, UNCHANGED vars PROVE SavedInv'
  OBVIOUS
<1>2. HistInv'
  BY <1>1, StutterKeeps DEF SavedInv
<1> QED
  BY <1>1, <1>2 DEF SavedInv, KeptIn, Image, vars

LEMMA SavedStep == SavedInv /\ [Next]_vars => SavedInv'
<1>1. SUFFICES ASSUME SavedInv, Next PROVE SavedInv'
  BY SavedStutters
<1>2. HistInv'
  BY <1>1, StepHolds DEF SavedInv
<1>3. ASSUME NEW s \in Sessions, Load(s) \/ LoadFails(s)
      PROVE  SavedInv'
  BY <1>1, <1>2, <1>3, LoadSaves
<1>4. ASSUME NEW s \in Sessions, NEW l \in Lines, TypeLine(s, l)
      PROVE  SavedInv'
  BY <1>1, <1>2, <1>4, TypeLineSaves
<1>5. ASSUME NEW s \in Sessions, Interrupt(s) \/ InputEnds(s)
      PROVE  SavedInv'
  BY <1>1, <1>2, <1>5, PromptSaves
<1>6. ASSUME NEW s \in Sessions, Proceed(s)
      PROVE  SavedInv'
  BY <1>1, <1>2, <1>6, PromptSaves, AgainSaves, EndLineSaves, ForkBuiltinSaves DEF Proceed
<1>7. ASSUME NEW p \in Procs, Keep(p) \/ SaveFails(p) \/ Kill(p)
      PROVE  SavedInv'
  BY <1>1, <1>2, <1>7, AddSaves, WriteSaves, TruncateSaves, CutSaves, KillSaves DEF Keep
<1>8. CASE Over
  BY <1>1, <1>8, SavedStutters DEF Over
<1> QED
  BY <1>1, <1>3, <1>4, <1>5, <1>6, <1>7, <1>8 DEF Next

(* What a session has entered is what it has saved: a file last written for*)
(* the line a shell has finished, by the shell itself or by the child of a *)
(* built-in, and cut by any process since, is the end of the shell's list. *)
THEOREM SavedStaysKept == Spec => []SavedIsKept
<1>1. SavedInv => SavedIsKept
  <2>1. SUFFICES ASSUME SavedInv, NEW s \in Sessions,
                        Rests(procs[ShellOf(s)]), writer = <<s, procs[ShellOf(s)].no>>
                 PROVE  /\ IsSuffix(file, procs[ShellOf(s)].list)
                        /\ \/ Len(file) = Len(procs[ShellOf(s)].list)
                           \/ \E n \in FileSizes : n <= Len(file)
    BY DEF SavedIsKept, Rests
  <2>2. procs[ShellOf(s)].list \in Seq(Entry) /\ Holds(file, procs[ShellOf(s)].list)
    BY <2>1, SessionFacts DEF KeptBy, Process
  <2> QED
    BY <2>2, EndIsSuffix DEF Holds
<1> QED
  BY <1>1, SavedInit, SavedStep, PTL DEF Spec
=============================================================================
