--------------------------- MODULE JobTableProofs ---------------------------
(***************************************************************************)
(* Proofs about JobTable for every set of closures, every width of the     *)
(* order bit-field and every bound on the orders.                          *)
(*                                                                         *)
(* The properties of the module are not inductive as they stand.  LinkInv  *)
(* adds what the two containers agree on (the links descend from the head  *)
(* of the queue, an order below 2^31 is its link's name, the keys of the   *)
(* tree are the links of the queue); RefInv adds the exact number of       *)
(* references a closure has in each of its places.                         *)
(***************************************************************************)
EXTENDS JobTable, SequenceTheorems, TLAPS

Links == {background[i].link : i \in DOMAIN background}

LinksDescend ==
  \A i, j \in DOMAIN background : i < j => background[i].link > background[j].link

OrdersNameLinks ==
  \A i \in DOMAIN background :
    /\ background[i].link \in 1 .. next_order - 1
    /\ background[i].link < OrderMod => background[i].order = background[i].link

KeysAreLinks ==
  next_order <= OrderMod =>
    /\ DOMAIN background_ref = Links
    /\ \A k \in Links : background_ref[k] = k

(* Past 2^31 the tree keeps keys whose links are gone, but none of them is *)
(* an order that fits the bit-field.                                       *)
SmallKeysAreLinks ==
  \A k \in DOMAIN background_ref :
    background_ref[k] = k /\ (k < OrderMod => k \in Links)

LinkInv == LinksDescend /\ OrdersNameLinks /\ KeysAreLinks /\ SmallKeysAreLinks

Ran == {running[i] : i \in DOMAIN running}

(* A queued closure is held by the code generator and by its job, one that *)
(* runs by the code generator and by its frame, one just popped by the     *)
(* code generator alone.                                                   *)
RefsExact ==
  /\ InUse \subseteq DOMAIN refs
  /\ \A c \in Queued \cup Ran : refs[c] = 2
  /\ answer.got # None => refs[answer.got] = 1

RefInv == OneOwner /\ RefsExact

-----------------------------------------------------------------------------
(* A queue without its i-th element.                                       *)
LEMMA WithoutIsSeq ==
  ASSUME NEW S, NEW s \in Seq(S), NEW i \in DOMAIN s
  PROVE  /\ Without(s, i) \in Seq(S)
         /\ DOMAIN Without(s, i) = 1 .. Len(s) - 1
         /\ Len(Without(s, i)) = Len(s) - 1
         /\ \A j \in 1 .. Len(s) - 1 :
              Without(s, i)[j] = IF j < i THEN s[j] ELSE s[j + 1]
<1>1. Len(s) \in Nat /\ DOMAIN s = 1 .. Len(s) /\ i \in 1 .. Len(s)
  OBVIOUS
<1>2. DOMAIN Without(s, i) = 1 .. Len(s) - 1
  BY DEF Without
<1>3. \A j \in 1 .. Len(s) - 1 : Without(s, i)[j] = IF j < i THEN s[j] ELSE s[j + 1]
  BY DEF Without
<1>4. \A j \in 1 .. Len(s) - 1 : Without(s, i)[j] \in S
  BY <1>1, <1>3
<1>5. Without(s, i) \in [1 .. Len(s) - 1 -> S]
  BY <1>2, <1>4 DEF Without
<1>6. Len(s) - 1 \in Nat
  BY <1>1
<1> QED
  BY <1>2, <1>3, <1>5, <1>6

(* The elements left are elements of s, from positions that keep their     *)
(* order and are not i.                                                    *)
LEMMA WithoutFrom ==
  ASSUME NEW S, NEW s \in Seq(S), NEW i \in DOMAIN s,
         NEW j \in DOMAIN Without(s, i)
  PROVE  \E k \in DOMAIN s :
           k = (IF j < i THEN j ELSE j + 1) /\ k # i /\ Without(s, i)[j] = s[k]
<1>1. Len(s) \in Nat /\ DOMAIN s = 1 .. Len(s) /\ i \in 1 .. Len(s)
  OBVIOUS
<1>2. j \in 1 .. Len(s) - 1 /\ Without(s, i)[j] = IF j < i THEN s[j] ELSE s[j + 1]
  BY WithoutIsSeq
<1>3. CASE j < i
  BY <1>1, <1>2, <1>3
<1>4. CASE ~(j < i)
  BY <1>1, <1>2, <1>4
<1> QED
  BY <1>3, <1>4

(* Every element but the i-th is still there.                              *)
LEMMA WithoutKeeps ==
  ASSUME NEW S, NEW s \in Seq(S), NEW i \in DOMAIN s,
         NEW k \in DOMAIN s, k # i
  PROVE  \E j \in DOMAIN Without(s, i) : Without(s, i)[j] = s[k]
<1>1. Len(s) \in Nat /\ DOMAIN s = 1 .. Len(s) /\ i \in 1 .. Len(s) /\ k \in 1 .. Len(s)
  OBVIOUS
<1>2. /\ DOMAIN Without(s, i) = 1 .. Len(s) - 1
      /\ \A j \in 1 .. Len(s) - 1 :
           Without(s, i)[j] = IF j < i THEN s[j] ELSE s[j + 1]
  BY WithoutIsSeq
<1>3. CASE k < i
  <2>1. k \in 1 .. Len(s) - 1
    BY <1>1, <1>3
  <2> QED
    BY <1>2, <1>3, <2>1
<1>4. CASE i < k
  <2>1. k - 1 \in 1 .. Len(s) - 1 /\ ~(k - 1 < i) /\ (k - 1) + 1 = k
    BY <1>1, <1>4
  <2> QED
    BY <1>2, <2>1
<1> QED
  BY <1>1, <1>3, <1>4

(* A sequence with a new head.                                             *)
LEMMA PushIsSeq ==
  ASSUME NEW S, NEW s \in Seq(S), NEW e \in S
  PROVE  /\ << e >> \o s \in Seq(S)
         /\ DOMAIN (<< e >> \o s) = 1 .. Len(s) + 1
         /\ (<< e >> \o s)[1] = e
         /\ \A j \in 2 .. Len(s) + 1 : (<< e >> \o s)[j] = s[j - 1]
BY ConcatProperties

(* An order below the width of the bit-field is stored whole.              *)
LEMMA SmallMod ==
  ASSUME NEW n \in Nat, NEW m \in Nat, n < m
  PROVE  n % m = n
OBVIOUS

(* A bit-field holds a natural number.                                     *)
LEMMA ModNat ==
  ASSUME NEW n \in Nat, NEW m \in Nat \ {0}
  PROVE  n % m \in Nat
OBVIOUS

-----------------------------------------------------------------------------
(* What the two pops leave behind is well typed.                           *)
LEMMA TakeType ==
  ASSUME TypeOK, NEW i \in DOMAIN background, NEW asked \in 0 .. MaxOrder,
         Take(i, asked),
         background[i].closure \in DOMAIN refs, refs[background[i].closure] >= 1
  PROVE  TypeOK'
<1> DEFINE job == background[i]
<1>1. job \in Job
  BY DEF TypeOK
<1>2. background' \in Seq(Job)
  BY WithoutIsSeq DEF TypeOK, Take
<1>3. /\ DOMAIN background_ref' \subseteq 1 .. MaxOrder
      /\ \A k \in DOMAIN background_ref' : background_ref'[k] \in Nat
  BY DEF TypeOK, Take, TreeRemove
<1>4. DOMAIN refs' \subseteq Closures /\ \A c \in DOMAIN refs' : refs'[c] \in Nat
  <2>1. refs' = [refs EXCEPT ![job.closure] = @ - 1]
    BY DEF Take, Unref
  <2>2. refs[job.closure] - 1 \in Nat
    BY DEF TypeOK
  <2> QED
    BY <2>1, <2>2 DEF TypeOK
<1>5. answer' \in [asked : 0 .. MaxOrder, got : Closures \cup {None}]
  BY <1>1 DEF Take, Job
<1> QED
  BY <1>2, <1>3, <1>4, <1>5 DEF TypeOK, Take

(* A reference is only dropped by somebody who holds one: RefInv is what   *)
(* keeps the counters from going below zero.                               *)
LEMMA TypeStep ==
  ASSUME TypeOK, RefInv, [Next]_vars
  PROVE  TypeOK'
<1> USE NoneIsNoClosure, OrderModIsPos, MaxOrderFits
<1>1. ASSUME NEW c \in Closures, RunLine(c)
      PROVE  TypeOK'
  BY <1>1 DEF TypeOK, RunLine, Emitted, Idle
<1>2. ASSUME NEW c \in Closures, Detach(c)
      PROVE  TypeOK'
  <2> DEFINE job == [order |-> next_order % OrderMod, link |-> next_order, closure |-> c]
  <2>1. next_order \in Nat /\ next_order \in 1 .. MaxOrder
    BY <1>2 DEF TypeOK, Detach
  <2>2. job \in Job
    BY <2>1, ModNat DEF Job
  <2>3. background' \in Seq(Job)
    BY <1>2, <2>2, PushIsSeq DEF TypeOK, Detach
  <2>4. /\ DOMAIN background_ref' \subseteq 1 .. MaxOrder
        /\ \A k \in DOMAIN background_ref' : background_ref'[k] \in Nat
    BY <1>2, <2>1 DEF TypeOK, Detach, TreeInsert
  <2>5. DOMAIN refs' \subseteq Closures /\ \A d \in DOMAIN refs' : refs'[d] \in Nat
    BY <1>2 DEF TypeOK, Detach, Emitted
  <2>6. next_order' \in 1 .. MaxOrder + 1
    BY <1>2, <2>1 DEF Detach
  <2> QED
    BY <1>2, <2>3, <2>4, <2>5, <2>6 DEF TypeOK, Detach, Idle
<1>3. ASSUME NEW i \in DOMAIN background
      PROVE  background[i].closure \in DOMAIN refs /\ refs[background[i].closure] >= 1
  BY DEF RefInv, RefsExact, InUse, Queued
<1>4. CASE JobPop
  <2>1. 1 \in DOMAIN background
    BY <1>4 DEF JobPop, TypeOK
  <2> QED
    BY <1>3, <1>4, <2>1, TakeType DEF JobPop
<1>5. ASSUME NEW order \in 1 .. MaxOrder, JobPopNth(order)
      PROVE  TypeOK'
  <2>1. PICK i \in DOMAIN background : Take(i, order)
    BY <1>5 DEF JobPopNth
  <2> QED
    BY <1>3, <2>1, TakeType
<1>7. ASSUME NEW order \in 0 .. MaxOrder, JobPopNull(order)
      PROVE  TypeOK'
  BY <1>7 DEF TypeOK, JobPopNull
<1>8. CASE BringToFront
  <2>1. answer.got \in Closures
    BY <1>8 DEF TypeOK, BringToFront
  <2>2. running' \in Seq(Closures)
    BY <1>8, <2>1 DEF TypeOK, BringToFront
  <2>3. DOMAIN refs' \subseteq Closures /\ \A c \in DOMAIN refs' : refs'[c] \in Nat
    BY <1>8 DEF TypeOK, BringToFront, Ref
  <2> QED
    BY <1>8, <2>2, <2>3 DEF TypeOK, BringToFront, Idle
<1>9. CASE EndRun
  <2> DEFINE c == running[Len(running)]
  <2>1. c \in Ran
    BY <1>9 DEF TypeOK, EndRun, Ran
  <2>2. c \in DOMAIN refs /\ refs[c] = 2
    BY <2>1 DEF RefInv, RefsExact, InUse, Ran
  <2>3. DOMAIN refs' \subseteq Closures /\ \A d \in DOMAIN refs' : refs'[d] \in Nat
    BY <1>9, <2>2 DEF TypeOK, EndRun, Unref
  <2>4. running' \in Seq(Closures)
    BY <1>9 DEF TypeOK, EndRun
  <2> QED
    BY <1>9, <2>3, <2>4 DEF TypeOK, EndRun, Idle
<1>10. CASE Dispose
  <2>1. DOMAIN refs' \subseteq Closures /\ \A c \in DOMAIN refs' : refs'[c] \in Nat
    BY <1>10 DEF TypeOK, Dispose, RefInv, RefsExact
  <2> QED
    BY <1>10, <2>1 DEF TypeOK, Dispose, Idle
<1>11. CASE UNCHANGED vars
  BY <1>11 DEF TypeOK, vars
<1> QED
  BY <1>1, <1>2, <1>4, <1>5, <1>7, <1>8, <1>9, <1>10, <1>11 DEF Next

-----------------------------------------------------------------------------
(* The queue and the tree.                                                 *)

(* Both pops take the same job out of both containers.                     *)
LEMMA TakeLinks ==
  ASSUME TypeOK, LinkInv, NEW i \in DOMAIN background, NEW asked, Take(i, asked)
  PROVE  LinkInv'
<1> USE OrderModIsPos
<1> DEFINE link == background[i].link
<1>1. /\ Len(background) \in Nat
      /\ DOMAIN background = 1 .. Len(background)
      /\ \A j \in DOMAIN background : background[j] \in Job
      /\ background' = Without(background, i)
      /\ next_order' = next_order /\ next_order \in Nat
  BY DEF TypeOK, Take
<1>2. ASSUME NEW j \in DOMAIN background'
      PROVE  \E k \in DOMAIN background :
               k = (IF j < i THEN j ELSE j + 1) /\ k # i /\ background'[j] = background[k]
  BY <1>1, WithoutFrom DEF TypeOK
<1>3. ASSUME NEW k \in DOMAIN background, k # i
      PROVE  \E j \in DOMAIN background' : background'[j] = background[k]
  BY <1>1, <1>3, WithoutKeeps DEF TypeOK
<1>4. LinksDescend'
  <2> SUFFICES ASSUME NEW j1 \in DOMAIN background', NEW j2 \in DOMAIN background', j1 < j2
               PROVE  background'[j1].link > background'[j2].link
    BY DEF LinksDescend
  <2>0. j1 \in Int /\ j2 \in Int /\ i \in Int
    <3>1. DOMAIN background' = 1 .. Len(background) - 1
      BY <1>1, WithoutIsSeq DEF TypeOK
    <3> QED
      BY <1>1, <3>1
  <2>1. PICK k1 \in DOMAIN background :
          k1 = (IF j1 < i THEN j1 ELSE j1 + 1) /\ background'[j1] = background[k1]
    BY <1>2
  <2>2. PICK k2 \in DOMAIN background :
          k2 = (IF j2 < i THEN j2 ELSE j2 + 1) /\ background'[j2] = background[k2]
    BY <1>2
  <2>3. k1 < k2
    BY <2>0, <2>1, <2>2
  <2> QED
    BY <2>1, <2>2, <2>3 DEF LinkInv, LinksDescend
<1>5. OrdersNameLinks'
  BY <1>1, <1>2 DEF LinkInv, OrdersNameLinks
<1>6. ASSUME NEW k \in DOMAIN background, k # i
      PROVE  background[k].link # link
  <2>1. k < i \/ i < k
    BY <1>1, <1>6
  <2>2. background[k].link \in Nat /\ link \in Nat
    BY <1>1 DEF Job
  <2> QED
    BY <2>1, <2>2 DEF LinkInv, LinksDescend
<1>7. Links' = Links \ {link}
  BY <1>2, <1>3, <1>6 DEF Links
<1>8. KeysAreLinks'
  <2> SUFFICES ASSUME next_order <= OrderMod
               PROVE  /\ DOMAIN background_ref' = Links'
                      /\ \A k \in Links' : background_ref'[k] = k
    BY <1>1 DEF KeysAreLinks
  <2>1. background[i].order = link
    BY <1>1 DEF LinkInv, OrdersNameLinks, Job
  <2>2. background_ref' = [k \in DOMAIN background_ref \ {link} |-> background_ref[k]]
    BY <2>1 DEF Take, TreeRemove
  <2> QED
    BY <1>7, <2>2 DEF LinkInv, KeysAreLinks
<1>9. SmallKeysAreLinks'
  <2> SUFFICES ASSUME NEW k \in DOMAIN background_ref'
               PROVE  background_ref'[k] = k /\ (k < OrderMod => k \in Links')
    BY DEF SmallKeysAreLinks
  <2>1. background_ref' = TreeRemove(background_ref, background[i].order)
    BY DEF Take
  <2>2. /\ k \in DOMAIN background_ref /\ k # background[i].order
        /\ background_ref'[k] = background_ref[k]
    BY <2>1 DEF TreeRemove
  <2>3. link < OrderMod => background[i].order = link
    BY DEF LinkInv, OrdersNameLinks
  <2> QED
    BY <1>7, <2>2, <2>3 DEF LinkInv, SmallKeysAreLinks
<1> QED
  BY <1>4, <1>5, <1>8, <1>9 DEF LinkInv

LEMMA DetachLinks ==
  ASSUME TypeOK, LinkInv, NEW c \in Closures, Detach(c)
  PROVE  LinkInv'
<1> USE OrderModIsPos
<1> DEFINE job == [order |-> next_order % OrderMod, link |-> next_order, closure |-> c]
<1>1. /\ Len(background) \in Nat
      /\ DOMAIN background = 1 .. Len(background)
      /\ \A j \in DOMAIN background : background[j] \in Job
      /\ background' = << job >> \o background
      /\ next_order' = next_order + 1 /\ next_order \in Nat
  BY DEF TypeOK, Detach
<1>2. job \in Job
  BY <1>1, ModNat DEF Job
<1>3. /\ DOMAIN background' = 1 .. Len(background) + 1
      /\ background'[1] = job
      /\ \A j \in 2 .. Len(background) + 1 : background'[j] = background[j - 1]
  BY <1>1, <1>2, PushIsSeq DEF TypeOK
<1>4. LinksDescend'
  <2> SUFFICES ASSUME NEW j1 \in DOMAIN background', NEW j2 \in DOMAIN background', j1 < j2
               PROVE  background'[j1].link > background'[j2].link
    BY DEF LinksDescend
  <2>1. j2 \in 2 .. Len(background) + 1 /\ j2 - 1 \in DOMAIN background
    BY <1>1, <1>3
  <2>2. background'[j2].link = background[j2 - 1].link
    BY <1>3, <2>1
  <2>3. CASE j1 = 1
    <3>1. background[j2 - 1].link \in 1 .. next_order - 1
      BY <2>1 DEF LinkInv, OrdersNameLinks
    <3> QED
      BY <1>1, <1>3, <2>2, <2>3, <3>1
  <2>4. CASE j1 # 1
    <3>1. j1 - 1 \in DOMAIN background /\ j1 - 1 < j2 - 1
      BY <1>1, <1>3, <2>4
    <3>2. background'[j1].link = background[j1 - 1].link
      BY <1>1, <1>3, <2>4
    <3> QED
      BY <2>1, <2>2, <3>1, <3>2 DEF LinkInv, LinksDescend
  <2> QED
    BY <2>3, <2>4
<1>5. OrdersNameLinks'
  <2> SUFFICES ASSUME NEW j \in DOMAIN background'
               PROVE  /\ background'[j].link \in 1 .. next_order
                      /\ background'[j].link < OrderMod =>
                           background'[j].order = background'[j].link
    BY <1>1 DEF OrdersNameLinks
  <2>1. CASE j = 1
    <3>1. next_order \in 1 .. next_order
      BY DEF TypeOK
    <3>2. next_order < OrderMod => next_order % OrderMod = next_order
      BY <1>1, SmallMod
    <3> QED
      BY <1>3, <2>1, <3>1, <3>2
  <2>2. CASE j # 1
    <3>1. j - 1 \in DOMAIN background /\ background'[j] = background[j - 1]
      BY <1>1, <1>3, <2>2
    <3> QED
      BY <1>1, <3>1 DEF LinkInv, OrdersNameLinks
  <2> QED
    BY <2>1, <2>2
<1>6. Links' = Links \cup {next_order}
  <2>1. ASSUME NEW j \in DOMAIN background
        PROVE  j + 1 \in DOMAIN background' /\ background'[j + 1] = background[j]
    <3>1. j + 1 \in 2 .. Len(background) + 1 /\ (j + 1) - 1 = j
      BY <1>1
    <3> QED
      BY <1>3, <3>1
  <2>2. ASSUME NEW j \in DOMAIN background', j # 1
        PROVE  j - 1 \in DOMAIN background /\ background'[j] = background[j - 1]
    BY <1>1, <1>3, <2>2
  <2>3. 1 \in DOMAIN background' /\ background'[1].link = next_order
    BY <1>1, <1>3
  <2> QED
    BY <2>1, <2>2, <2>3 DEF Links
<1>7. KeysAreLinks'
  <2> SUFFICES ASSUME next_order + 1 <= OrderMod
               PROVE  /\ DOMAIN background_ref' = Links'
                      /\ \A k \in Links' : background_ref'[k] = k
    BY <1>1 DEF KeysAreLinks
  <2>1. next_order <= OrderMod
    BY <1>1
  <2>2. background_ref' = [k \in DOMAIN background_ref \cup {next_order} |->
                             IF k = next_order THEN next_order ELSE background_ref[k]]
    BY DEF Detach, TreeInsert
  <2> QED
    BY <1>6, <2>1, <2>2 DEF LinkInv, KeysAreLinks
<1>8. SmallKeysAreLinks'
  <2>1. background_ref' = [k \in DOMAIN background_ref \cup {next_order} |->
                             IF k = next_order THEN next_order ELSE background_ref[k]]
    BY DEF Detach, TreeInsert
  <2> QED
    BY <1>6, <2>1 DEF LinkInv, SmallKeysAreLinks
<1> QED
  BY <1>4, <1>5, <1>7, <1>8 DEF LinkInv

(* Every step keeps what the queue and the tree agree on.                  *)
LEMMA LinkStep ==
  ASSUME TypeOK, LinkInv, [Next]_vars
  PROVE  LinkInv'
<1> USE OrderModIsPos
<1>1. ASSUME NEW c \in Closures, RunLine(c)
      PROVE  LinkInv'
  BY <1>1 DEF RunLine, LinkInv, LinksDescend, OrdersNameLinks, KeysAreLinks, Links,
              SmallKeysAreLinks
<1>2. ASSUME NEW c \in Closures, Detach(c)
      PROVE  LinkInv'
  BY <1>2, DetachLinks
<1>3. CASE JobPop
  <2>1. 1 \in DOMAIN background
    BY <1>3 DEF JobPop, TypeOK
  <2> QED
    BY <1>3, <2>1, TakeLinks DEF JobPop
<1>4. ASSUME NEW order \in 1 .. MaxOrder, JobPopNth(order)
      PROVE  LinkInv'
  BY <1>4, TakeLinks DEF JobPopNth
<1>6. ASSUME NEW order \in 0 .. MaxOrder, JobPopNull(order)
      PROVE  LinkInv'
  BY <1>6 DEF JobPopNull, LinkInv, LinksDescend, OrdersNameLinks, KeysAreLinks, Links,
              SmallKeysAreLinks
<1>7. CASE BringToFront
  BY <1>7 DEF BringToFront, LinkInv, LinksDescend, OrdersNameLinks, KeysAreLinks, Links,
              SmallKeysAreLinks
<1>8. CASE EndRun
  BY <1>8 DEF EndRun, LinkInv, LinksDescend, OrdersNameLinks, KeysAreLinks, Links,
              SmallKeysAreLinks
<1>9. CASE Dispose
  <2>1. background' = << >> /\ background_ref' = [k \in {} |-> k]
    BY <1>9 DEF Dispose
  <2>2. Links' = {} /\ DOMAIN background_ref' = {}
    BY <2>1 DEF Links
  <2> QED
    BY <2>1, <2>2 DEF LinkInv, LinksDescend, OrdersNameLinks, KeysAreLinks, SmallKeysAreLinks
<1>10. CASE UNCHANGED vars
  BY <1>10 DEF vars, LinkInv, LinksDescend, OrdersNameLinks, KeysAreLinks, Links,
               SmallKeysAreLinks
<1> QED
  BY <1>1, <1>2, <1>3, <1>4, <1>6, <1>7, <1>8, <1>9, <1>10 DEF Next

-----------------------------------------------------------------------------
(* The references.                                                         *)

(* A pop moves one closure from the queue to the caller, and the reference *)
(* that goes is the job's.                                                 *)
LEMMA TakeRefs ==
  ASSUME TypeOK, RefInv, Ready, NEW i \in DOMAIN background, NEW asked, Take(i, asked)
  PROVE  RefInv'
<1> USE NoneIsNoClosure
<1> DEFINE c == background[i].closure
<1>1. /\ \A j \in DOMAIN background : background[j] \in Job
      /\ background' = Without(background, i)
      /\ refs' = [refs EXCEPT ![c] = @ - 1]
      /\ answer'.got = c
      /\ running' = running
      /\ c \in Closures
  <2>1. \A j \in DOMAIN background : background[j] \in Job
    BY DEF TypeOK
  <2>2. c \in Closures
    BY <2>1 DEF Job
  <2> QED
    BY <2>1, <2>2 DEF Take, Unref
<1>2. ASSUME NEW j \in DOMAIN background'
      PROVE  \E k \in DOMAIN background :
               k = (IF j < i THEN j ELSE j + 1) /\ k # i /\ background'[j] = background[k]
  BY <1>1, WithoutFrom DEF TypeOK
<1>3. ASSUME NEW j1 \in DOMAIN background', NEW j2 \in DOMAIN background',
             background'[j1].closure = background'[j2].closure
      PROVE  j1 = j2
  <2>1. DOMAIN background' \subseteq Int /\ i \in Int
    BY <1>1, WithoutIsSeq, SMTT(20) DEF TypeOK
  <2>2. PICK k1 \in DOMAIN background :
          k1 = (IF j1 < i THEN j1 ELSE j1 + 1) /\ background'[j1] = background[k1]
    BY <1>2
  <2>3. PICK k2 \in DOMAIN background :
          k2 = (IF j2 < i THEN j2 ELSE j2 + 1) /\ background'[j2] = background[k2]
    BY <1>2
  <2>4. k1 = k2
    BY <1>3, <2>2, <2>3 DEF RefInv, OneOwner
  <2>5. j1 \in Int /\ j2 \in Int
    BY <2>1
  <2> QED
    BY <2>1, <2>2, <2>3, <2>4, <2>5
<1>4. Queued' \subseteq Queued \ {c}
  BY <1>2 DEF Queued, RefInv, OneOwner
<1>5. c \notin Ran /\ c \in Queued
  BY DEF Ran, Queued, RefInv, OneOwner
<1>6. OneOwner'
  BY <1>1, <1>2, <1>3, <1>4, <1>5 DEF RefInv, OneOwner, Ran, Queued
<1>7. c \in DOMAIN refs /\ refs[c] = 2
  BY <1>5 DEF RefInv, RefsExact, InUse
<1>8. Ran' = Ran
  BY <1>1 DEF Ran
<1>9. InUse' \subseteq DOMAIN refs'
  <2>1. InUse' = Queued' \cup Ran' \cup ({answer'.got} \ {None})
    BY DEF InUse, Ran
  <2>2. Queued \cup Ran \subseteq DOMAIN refs
    BY DEF RefInv, RefsExact, InUse, Ran
  <2> QED
    BY <1>1, <1>4, <1>7, <1>8, <2>1, <2>2
<1>10. \A d \in Queued' \cup Ran' : refs'[d] = 2
  <2> SUFFICES ASSUME NEW d \in Queued' \cup Ran'
               PROVE  refs'[d] = 2
    OBVIOUS
  <2>1. d # c /\ d \in Queued \cup Ran
    BY <1>4, <1>5, <1>8
  <2>2. d \in DOMAIN refs /\ refs[d] = 2
    BY <2>1 DEF RefInv, RefsExact, InUse, Ran
  <2> QED
    BY <1>1, <2>1, <2>2
<1>11. refs'[c] = 1
  BY <1>1, <1>7
<1> QED
  BY <1>1, <1>6, <1>9, <1>10, <1>11 DEF RefInv, RefsExact

LEMMA DetachRefs ==
  ASSUME TypeOK, RefInv, NEW c \in Closures, Detach(c)
  PROVE  RefInv'
<1> USE NoneIsNoClosure
<1> DEFINE job == [order |-> next_order % OrderMod, link |-> next_order, closure |-> c]
<1>1. /\ Len(background) \in Nat
      /\ DOMAIN background = 1 .. Len(background)
      /\ background' = << job >> \o background
      /\ refs' = [d \in DOMAIN refs \cup {c} |-> IF d = c THEN 2 ELSE refs[d]]
      /\ answer'.got = None
      /\ running' = running
      /\ c \notin DOMAIN refs
  BY DEF TypeOK, Detach, Emitted, Idle
<1>2. job \in Job
  BY ModNat, OrderModIsPos DEF Job, TypeOK
<1>3. /\ DOMAIN background' = 1 .. Len(background) + 1
      /\ background'[1] = job
      /\ \A j \in 2 .. Len(background) + 1 : background'[j] = background[j - 1]
  BY <1>1, <1>2, PushIsSeq DEF TypeOK
<1>4. ASSUME NEW j \in DOMAIN background', j # 1
      PROVE  j - 1 \in DOMAIN background /\ background'[j] = background[j - 1]
  BY <1>1, <1>3, <1>4
<1>5. c \notin Queued /\ c \notin Ran
  BY <1>1 DEF RefInv, RefsExact, InUse, Ran
<1>6. Queued' \subseteq Queued \cup {c}
  BY <1>3, <1>4 DEF Queued
<1>7. ASSUME NEW j1 \in DOMAIN background', NEW j2 \in DOMAIN background',
             background'[j1].closure = background'[j2].closure
      PROVE  j1 = j2
  <2>1. ASSUME NEW j \in DOMAIN background', j # 1
        PROVE  background'[j].closure \in Queued
    BY <1>4, <2>1 DEF Queued
  <2>2. CASE j1 = 1 \/ j2 = 1
    BY <1>3, <1>5, <1>7, <2>1, <2>2
  <2>3. CASE j1 # 1 /\ j2 # 1
    <3>1. j1 - 1 = j2 - 1
      BY <1>4, <1>7, <2>3 DEF RefInv, OneOwner
    <3> QED
      BY <1>1, <1>3, <3>1
  <2> QED
    BY <2>2, <2>3
<1>8. Ran' = Ran
  BY <1>1 DEF Ran
<1>9. \A j \in DOMAIN background', k \in DOMAIN running' :
        background'[j].closure # running'[k]
  <2>1. Ran \cap Queued = {}
    BY DEF Ran, Queued, RefInv, OneOwner
  <2>2. \A j \in DOMAIN background' : background'[j].closure \in Queued'
    BY DEF Queued
  <2>3. \A k \in DOMAIN running' : running'[k] \in Ran
    BY <1>8 DEF Ran
  <2> QED
    BY <1>5, <1>6, <2>1, <2>2, <2>3
<1>10. OneOwner'
  BY <1>1, <1>7, <1>9 DEF RefInv, OneOwner
<1>11. RefsExact'
  <2>1. Queued \cup Ran \subseteq DOMAIN refs /\ \A d \in Queued \cup Ran : refs[d] = 2
    BY DEF RefInv, RefsExact, InUse, Ran
  <2>2. InUse' = Queued' \cup Ran'
    BY <1>1 DEF InUse, Ran
  <2> QED
    BY <1>1, <1>5, <1>6, <1>8, <2>1, <2>2 DEF RefsExact
<1> QED
  BY <1>10, <1>11 DEF RefInv

(* A closure starts to run in a frame of its own, inside the others.       *)
LEMMA RunRefs ==
  ASSUME TypeOK, RefInv, NEW c \in Closures,
         c \notin Queued \cup Ran,
         running' = Append(running, c),
         background' = background,
         answer'.got = None,
         refs' = [d \in DOMAIN refs \cup {c} |-> IF d = c THEN 2 ELSE refs[d]]
  PROVE  RefInv'
<1>1. /\ Len(running) \in Nat
      /\ DOMAIN running = 1 .. Len(running)
      /\ DOMAIN running' = 1 .. Len(running) + 1
      /\ running'[Len(running) + 1] = c
      /\ \A i \in DOMAIN running : running'[i] = running[i]
  BY DEF TypeOK
<1>2. ASSUME NEW i \in DOMAIN running', i # Len(running) + 1
      PROVE  i \in DOMAIN running /\ running'[i] = running[i] /\ running[i] \in Ran
  BY <1>1, <1>2 DEF Ran
<1>3. Ran' \subseteq Ran \cup {c} /\ Queued' = Queued
  BY <1>1, <1>2 DEF Ran, Queued
<1>4. ASSUME NEW i \in DOMAIN running', NEW j \in DOMAIN running', running'[i] = running'[j]
      PROVE  i = j
  BY <1>1, <1>2, <1>4 DEF RefInv, OneOwner
<1>5. \A i \in DOMAIN background', j \in DOMAIN running' :
        background'[i].closure # running'[j]
  <2>1. \A i \in DOMAIN background : background[i].closure \in Queued
    BY DEF Queued
  <2>2. Ran \cap Queued = {}
    BY DEF Ran, Queued, RefInv, OneOwner
  <2> QED
    BY <1>1, <1>2, <2>1, <2>2
<1>6. OneOwner'
  BY <1>4, <1>5 DEF RefInv, OneOwner
<1>7. RefsExact'
  <2>1. Queued \cup Ran \subseteq DOMAIN refs /\ \A d \in Queued \cup Ran : refs[d] = 2
    BY DEF RefInv, RefsExact, InUse, Ran
  <2>2. InUse' = Queued' \cup Ran'
    BY DEF InUse, Ran
  <2> QED
    BY <1>3, <2>1, <2>2 DEF RefsExact
<1> QED
  BY <1>6, <1>7 DEF RefInv

LEMMA EndRefs ==
  ASSUME TypeOK, RefInv, EndRun
  PROVE  RefInv'
<1> DEFINE n == Len(running)
<1> DEFINE c == running[n]
<1>1. /\ n \in Nat \ {0}
      /\ DOMAIN running = 1 .. n
      /\ running' = SubSeq(running, 1, n - 1)
      /\ background' = background
      /\ answer'.got = None
      /\ refs' = [refs EXCEPT ![c] = @ - 1]
  BY DEF TypeOK, EndRun, Unref, Idle
<1>2. /\ DOMAIN running' = 1 .. n - 1
      /\ \A i \in 1 .. n - 1 : running'[i] = running[i]
  BY <1>1 DEF TypeOK
<1>3. \A i \in DOMAIN running' : i \in DOMAIN running /\ running'[i] = running[i] /\ i # n
  BY <1>1, <1>2
<1>4. n \in DOMAIN running /\ c \in Ran
  BY <1>1 DEF Ran
<1>5. Ran' \subseteq Ran \ {c} /\ Queued' = Queued
  BY <1>1, <1>3, <1>4 DEF Ran, Queued, RefInv, OneOwner
<1>6. OneOwner'
  BY <1>1, <1>3 DEF RefInv, OneOwner
<1>7. c \notin Queued
  BY <1>4 DEF Queued, RefInv, OneOwner
<1>8. RefsExact'
  <2>1. Queued \cup Ran \subseteq DOMAIN refs /\ \A d \in Queued \cup Ran : refs[d] = 2
    BY DEF RefInv, RefsExact, InUse, Ran
  <2>2. InUse' = Queued' \cup Ran'
    BY <1>1 DEF InUse, Ran
  <2> QED
    BY <1>1, <1>5, <1>7, <2>1, <2>2 DEF RefsExact
<1> QED
  BY <1>6, <1>8 DEF RefInv

(* Nothing the repository's calls do leaves a closure in two places, or in *)
(* one with fewer references than holders.                                 *)
LEMMA RefStep ==
  ASSUME TypeOK, RefInv, [Next]_vars
  PROVE  RefInv'
<1> USE NoneIsNoClosure
<1>1. ASSUME NEW c \in Closures, RunLine(c)
      PROVE  RefInv'
  <2>1. c \notin Queued \cup Ran
    BY <1>1 DEF RunLine, RefInv, RefsExact, InUse, Ran
  <2> QED
    BY <1>1, <2>1, RunRefs DEF RunLine, Emitted, Idle
<1>2. ASSUME NEW c \in Closures, Detach(c)
      PROVE  RefInv'
  BY <1>2, DetachRefs
<1>3. CASE JobPop
  <2>1. 1 \in DOMAIN background
    BY <1>3 DEF JobPop, TypeOK
  <2> QED
    BY <1>3, <2>1, TakeRefs DEF JobPop
<1>4. ASSUME NEW order \in 1 .. MaxOrder, JobPopNth(order)
      PROVE  RefInv'
  BY <1>4, TakeRefs DEF JobPopNth
<1>6. ASSUME NEW order \in 0 .. MaxOrder, JobPopNull(order)
      PROVE  RefInv'
  <2>1. answer'.got = None
    BY <1>6 DEF JobPopNull
  <2>2. InUse' \subseteq InUse /\ Queued' = Queued /\ Ran' = Ran
    BY <1>6, <2>1 DEF JobPopNull, InUse, Queued, Ran
  <2> QED
    BY <1>6, <2>1, <2>2 DEF JobPopNull, RefInv, OneOwner, RefsExact
<1>7. CASE BringToFront
  <2> DEFINE c == answer.got
  <2>1. c \in Closures /\ c \notin Queued \cup Ran
    BY <1>7 DEF BringToFront, TypeOK, RefInv, OneOwner, Ran
  <2>2. c \in DOMAIN refs /\ refs[c] = 1
    BY <1>7 DEF BringToFront, RefInv, RefsExact, InUse
  <2>3. refs' = [d \in DOMAIN refs \cup {c} |-> IF d = c THEN 2 ELSE refs[d]]
    <3>1. refs' = [refs EXCEPT ![c] = 2]
      BY <1>7, <2>2 DEF BringToFront, Ref
    <3>2. DOMAIN refs \cup {c} = DOMAIN refs
      BY <2>2
    <3>3. refs' = [d \in DOMAIN refs |-> IF d = c THEN 2 ELSE refs[d]]
      BY <3>1
    <3> QED
      BY <3>2, <3>3
  <2> QED
    BY <1>7, <2>1, <2>3, RunRefs DEF BringToFront, Idle
<1>8. CASE EndRun
  BY <1>8, EndRefs
<1>9. CASE Dispose
  <2>1. background' = << >> /\ running' = << >> /\ answer'.got = None
    BY <1>9 DEF Dispose, Idle
  <2>2. InUse' = {} /\ Queued' = {} /\ Ran' = {}
    BY <2>1 DEF InUse, Queued, Ran
  <2> QED
    BY <2>1, <2>2 DEF RefInv, OneOwner, RefsExact
<1>10. CASE UNCHANGED vars
  BY <1>10 DEF vars, RefInv, OneOwner, RefsExact, InUse, Queued, Ran
<1> QED
  BY <1>1, <1>2, <1>3, <1>4, <1>6, <1>7, <1>8, <1>9, <1>10 DEF Next

-----------------------------------------------------------------------------
(* The theorems.                                                           *)

IInv == TypeOK /\ LinkInv /\ RefInv

LEMMA InitIInv == Init => IInv
<1> SUFFICES ASSUME Init
             PROVE  IInv
  OBVIOUS
<1> USE NoneIsNoClosure, OrderModIsPos, MaxOrderFits
<1>1. TypeOK
  <2>1. background \in Seq(Job) /\ running \in Seq(Closures)
    BY DEF Init
  <2>2. /\ DOMAIN background_ref \subseteq 1 .. MaxOrder
        /\ \A k \in DOMAIN background_ref : background_ref[k] \in Nat
    BY DEF Init
  <2>3. DOMAIN refs \subseteq Closures /\ \A c \in DOMAIN refs : refs[c] \in Nat
    BY DEF Init
  <2>4. answer \in [asked : 0 .. MaxOrder, got : Closures \cup {None}]
    BY DEF Init, Idle
  <2>5. next_order \in 1 .. MaxOrder + 1
    BY DEF Init
  <2>6. disposed \in BOOLEAN
    BY DEF Init
  <2> QED
    BY <2>1, <2>2, <2>3, <2>4, <2>5, <2>6 DEF TypeOK
<1>2. background = << >> /\ running = << >> /\ answer.got = None
  BY DEF Init, Idle
<1>3. LinkInv
  BY <1>2 DEF Init, LinkInv, LinksDescend, OrdersNameLinks, KeysAreLinks, SmallKeysAreLinks, Links
<1>4. RefInv
  BY <1>2 DEF RefInv, OneOwner, RefsExact, InUse, Queued, Ran
<1> QED
  BY <1>1, <1>3, <1>4 DEF IInv

LEMMA IInvStep == IInv /\ [Next]_vars => IInv'
BY TypeStep, LinkStep, RefStep DEF IInv

(* The inductive invariant holds in every state of the job table.          *)
THEOREM Inductive == Spec => []IInv
<1>1. Init => IInv
  BY InitIInv
<1>2. IInv /\ [Next]_vars => IInv'
  BY IInvStep
<1> QED
  BY <1>1, <1>2, PTL DEF Spec

(* The variables of the job table keep their types; in particular no       *)
(* reference count falls below zero.                                       *)
THEOREM TypeCorrect == Spec => []TypeOK
<1>1. IInv => TypeOK
  BY DEF IInv
<1> QED
  BY <1>1, Inductive, PTL

(* Before 2^31 jobs have been detached the tree holds exactly the orders   *)
(* of the queued jobs, each leading to its own link.                       *)
THEOREM TreeMirrorsQueue == Spec => []TreeIndexesQueue
<1>1. IInv => TreeIndexesQueue
  <2> SUFFICES ASSUME IInv, next_order <= OrderMod
               PROVE  /\ \A i \in DOMAIN background :
                           /\ background[i].order \in DOMAIN background_ref
                           /\ background_ref[background[i].order] = background[i].link
                      /\ \A k \in DOMAIN background_ref :
                           \E i \in DOMAIN background : background[i].order = k
    BY DEF TreeIndexesQueue
  <2>1. \A i \in DOMAIN background : background[i].order = background[i].link
    BY OrderModIsPos DEF IInv, TypeOK, LinkInv, OrdersNameLinks
  <2> QED
    BY <2>1 DEF IInv, LinkInv, KeysAreLinks, Links
<1> QED
  BY <1>1, Inductive, PTL

(* j_runner_job_pop_nth follows no freed link, however many jobs have been *)
(* detached.                                                               *)
THEOREM NoStaleLinkFollowed == Spec => []NoStaleLink
<1>1. IInv => NoStaleLink
  BY DEF IInv, LinkInv, SmallKeysAreLinks, NoStaleLink, Links
<1> QED
  BY <1>1, Inductive, PTL

(* Nobody uses a closure that may have been freed: in particular the one   *)
(* a pop returns, whose job has just been freed, is still alive.           *)
THEOREM ClosuresStayAlive == Spec => []ClosureAlive
<1>1. IInv => ClosureAlive
  <2> SUFFICES ASSUME IInv, NEW c \in InUse
               PROVE  c \in DOMAIN refs /\ refs[c] >= 1
    BY DEF ClosureAlive
  <2>1. c \in DOMAIN refs
    BY DEF IInv, RefInv, RefsExact
  <2>2. CASE c \in Queued \cup Ran
    BY <2>1, <2>2 DEF IInv, RefInv, RefsExact
  <2>3. CASE c \notin Queued \cup Ran
    BY <2>1, <2>3 DEF IInv, RefInv, RefsExact, InUse, Ran
  <2> QED
    BY <2>2, <2>3
<1> QED
  BY <1>1, Inductive, PTL

(* A closure is in one place: the queue, a pop's answer or one frame.      *)
THEOREM ClosuresHaveOneOwner == Spec => []OneOwner
<1>1. IInv => OneOwner
  BY DEF IInv, RefInv
<1> QED
  BY <1>1, Inductive, PTL

-----------------------------------------------------------------------------
(* The refinement: as long as every order fits the bit-field the queue,    *)
(* the tree and the counter together are the job list of JobStack.         *)

Live == [i \in DOMAIN background |->
          [order |-> background[i].order, closure |-> background[i].closure]]

(* Below 2^31 a job's order is its link's name, the tree finds the jobs    *)
(* under their orders and finds nothing else.                              *)
LEMMA OrdersFit ==
  ASSUME IInv, MaxOrder < OrderMod
  PROVE  /\ next_order <= OrderMod
         /\ \A i \in DOMAIN background : background[i].order = background[i].link
         /\ DOMAIN background_ref = Links
         /\ \A k \in Links : background_ref[k] = k
<1>1. next_order <= OrderMod
  BY OrderModIsPos, MaxOrderFits DEF IInv, TypeOK
<1>2. \A i \in DOMAIN background : background[i].order = background[i].link
  BY <1>1, OrderModIsPos DEF IInv, TypeOK, LinkInv, OrdersNameLinks
<1> QED
  BY <1>1, <1>2 DEF IInv, LinkInv, KeysAreLinks

(* Taking a job out of the queue takes it out of the list.                 *)
LEMMA LiveWithout ==
  ASSUME TypeOK, NEW i \in DOMAIN background, background' = Without(background, i)
  PROVE  Live' = Stack!Without(Live, i)
<1>1. /\ Len(background) \in Nat
      /\ DOMAIN background = 1 .. Len(background)
  BY DEF TypeOK
<1>2. DOMAIN Live = 1 .. Len(background) /\ Len(Live) = Len(background)
  BY <1>1 DEF Live
<1>3. DOMAIN background' = 1 .. Len(background) - 1
  BY WithoutIsSeq DEF TypeOK
<1>4. Live' = [j \in 1 .. Len(background) - 1 |->
                [order |-> background'[j].order, closure |-> background'[j].closure]]
  BY <1>3 DEF Live
<1>5. ASSUME NEW j \in 1 .. Len(background) - 1
      PROVE  [order |-> background'[j].order, closure |-> background'[j].closure]
               = IF j < i THEN Live[j] ELSE Live[j + 1]
  <2>1. background'[j] = IF j < i THEN background[j] ELSE background[j + 1]
    BY WithoutIsSeq DEF TypeOK
  <2>2. j \in DOMAIN background /\ j + 1 \in DOMAIN background
    BY <1>1
  <2> QED
    BY <2>1, <2>2 DEF Live
<1>6. Stack!Without(Live, i) =
        [j \in 1 .. Len(background) - 1 |-> IF j < i THEN Live[j] ELSE Live[j + 1]]
  BY <1>2 DEF Stack!Without
<1> QED
  BY <1>4, <1>5, <1>6

(* Pushing a job pushes it on the list, under the counter's value.         *)
LEMMA LivePush ==
  ASSUME TypeOK, MaxOrder < OrderMod, NEW c \in Closures, Detach(c)
  PROVE  Live' = << [order |-> next_order, closure |-> c] >> \o Live
<1> DEFINE job == [order |-> next_order % OrderMod, link |-> next_order, closure |-> c]
<1> DEFINE e == [order |-> next_order, closure |-> c]
<1> DEFINE S == [order : Nat, closure : Closures]
<1>1. /\ Len(background) \in Nat
      /\ DOMAIN background = 1 .. Len(background)
      /\ \A j \in DOMAIN background : background[j] \in Job
      /\ background' = << job >> \o background
      /\ next_order \in Nat
  BY DEF TypeOK, Detach
<1>2. next_order % OrderMod = next_order
  <2>1. next_order < OrderMod
    BY MaxOrderFits, OrderModIsPos DEF TypeOK, Detach
  <2> QED
    BY <1>1, <2>1, SmallMod, OrderModIsPos
<1>3. job \in Job
  BY <1>1, <1>2 DEF Job
<1>4. /\ DOMAIN background' = 1 .. Len(background) + 1
      /\ background'[1] = job
      /\ \A j \in 2 .. Len(background) + 1 : background'[j] = background[j - 1]
  BY <1>1, <1>3, PushIsSeq DEF TypeOK
<1>5. Live \in Seq(S) /\ Len(Live) = Len(background) /\ e \in S
  BY <1>1 DEF Live, Job
<1>6. /\ << e >> \o Live \in Seq(S)
      /\ DOMAIN (<< e >> \o Live) = 1 .. Len(background) + 1
      /\ (<< e >> \o Live)[1] = e
      /\ \A j \in 2 .. Len(background) + 1 : (<< e >> \o Live)[j] = Live[j - 1]
  BY <1>5, PushIsSeq
<1>7. Live' = [j \in 1 .. Len(background) + 1 |->
                [order |-> background'[j].order, closure |-> background'[j].closure]]
  BY <1>4 DEF Live
<1>8. ASSUME NEW j \in 1 .. Len(background) + 1
      PROVE  [order |-> background'[j].order, closure |-> background'[j].closure]
               = (<< e >> \o Live)[j]
  <2>1. CASE j = 1
    BY <1>2, <1>4, <1>6, <2>1
  <2>2. CASE j # 1
    <3>1. j \in 2 .. Len(background) + 1 /\ j - 1 \in DOMAIN background
      BY <1>1, <2>2
    <3>2. Live[j - 1] = [order |-> background[j - 1].order,
                         closure |-> background[j - 1].closure]
      BY <3>1 DEF Live
    <3> QED
      BY <1>4, <1>6, <3>1, <3>2
  <2> QED
    BY <2>1, <2>2
<1>9. << e >> \o Live = [j \in 1 .. Len(background) + 1 |-> (<< e >> \o Live)[j]]
  BY <1>6
<1> QED
  BY <1>7, <1>8, <1>9

(* Taking the i-th job, the one under the order asked for if one was.      *)
LEMMA LiveTake ==
  ASSUME TypeOK, NEW i \in DOMAIN background, NEW asked, Take(i, asked)
  PROVE  /\ i \in DOMAIN Live
         /\ Live[i] = [order |-> background[i].order, closure |-> background[i].closure]
         /\ Live' = Stack!Without(Live, i)
         /\ answer' = [asked |-> asked, got |-> Live[i].closure]
         /\ next_order' = next_order
<1>1. i \in DOMAIN Live
  BY DEF Live
<1>2. Live[i] = [order |-> background[i].order, closure |-> background[i].closure]
  BY DEF Live
<1>3. Live' = Stack!Without(Live, i)
  BY LiveWithout DEF Take
<1> QED
  BY <1>1, <1>2, <1>3 DEF Take

LEMMA StackStep ==
  ASSUME IInv, IInv', MaxOrder < OrderMod, [Next]_vars
  PROVE  [Stack!Next]_(Stack!vars)
<1> USE DEF Live
<1>0. TypeOK
  BY DEF IInv
<1>1. ASSUME answer' = Idle, background' = background, next_order' = next_order
      PROVE  Stack!Next
  <2>1. Stack!Use
    BY <1>1 DEF Stack!Use, Stack!Idle, Idle
  <2> QED
    BY <2>1 DEF Stack!Next
<1>2. ASSUME NEW c \in Closures, RunLine(c)
      PROVE  Stack!Next
  BY <1>1, <1>2 DEF RunLine
<1>3. ASSUME NEW c \in Closures, Detach(c)
      PROVE  Stack!Next
  <2>1. Live' = << [order |-> next_order, closure |-> c] >> \o Live
    BY <1>0, <1>3, LivePush
  <2>2. Stack!Push(c)
    BY <1>3, <2>1 DEF Detach, Stack!Push, Stack!Idle, Idle
  <2> QED
    BY <2>2 DEF Stack!Next
<1>4. CASE JobPop
  <2>1. 1 \in DOMAIN background /\ Take(1, 0)
    BY <1>0, <1>4 DEF JobPop, TypeOK
  <2>2. /\ 1 \in DOMAIN Live
        /\ Live' = Stack!Without(Live, 1)
        /\ answer' = [asked |-> 0, got |-> Live[1].closure]
        /\ next_order' = next_order
    BY <1>0, <2>1, LiveTake
  <2>3. Live # << >>
    BY <2>2
  <2>4. Stack!PopNewest
    BY <2>2, <2>3 DEF Stack!PopNewest
  <2> QED
    BY <2>4 DEF Stack!Next
<1>5. ASSUME NEW order \in 1 .. MaxOrder, JobPopNth(order)
      PROVE  Stack!Next
  <2>1. PICK i \in DOMAIN background :
          background[i].link = background_ref[order] /\ Take(i, order)
    BY <1>5 DEF JobPopNth
  <2>2. background[i].order = order
    BY <1>5, <2>1, OrdersFit DEF JobPopNth
  <2>3. /\ i \in DOMAIN Live
        /\ Live[i].order = order
        /\ Live' = Stack!Without(Live, i)
        /\ answer' = [asked |-> order, got |-> Live[i].closure]
        /\ next_order' = next_order
    BY <1>0, <2>1, <2>2, LiveTake
  <2>4. order > 0 /\ order \in 0 .. MaxOrder
    OBVIOUS
  <2>5. Stack!PopNth(order)
    BY <2>3, <2>4 DEF Stack!PopNth
  <2> QED
    BY <2>4, <2>5 DEF Stack!Next
<1>7. ASSUME NEW order \in 0 .. MaxOrder, JobPopNull(order)
      PROVE  Stack!Next
  <2>1. /\ answer' = [asked |-> order, got |-> None]
        /\ Live' = Live /\ next_order' = next_order
    BY <1>7 DEF JobPopNull
  <2>2. CASE order = 0
    <3>1. Live = << >>
      BY <1>7, <2>2 DEF JobPopNull
    <3> QED
      BY <2>1, <2>2, <3>1 DEF Stack!PopNothing, Stack!Next
  <2>3. CASE order # 0
    <3>1. \A i \in DOMAIN Live : Live[i].order # order
      <4>1. order \notin Links
        <5>1. ~(order >= OrderMod)
          BY OrderModIsPos, MaxOrderFits
        <5> QED
          BY <1>7, <2>3, <5>1, OrdersFit DEF JobPopNull
      <4>2. \A i \in DOMAIN background : background[i].order # order
        BY <4>1, OrdersFit DEF Links
      <4> QED
        BY <4>2
    <3>2. order > 0
      BY <2>3
    <3>3. Stack!PopNothing(order)
      BY <2>1, <3>1, <3>2 DEF Stack!PopNothing
    <3> QED
      BY <3>3 DEF Stack!Next
  <2> QED
    BY <2>2, <2>3
<1>8. CASE BringToFront
  BY <1>1, <1>8 DEF BringToFront
<1>9. CASE EndRun
  BY <1>1, <1>9 DEF EndRun
<1>10. CASE Dispose
  <2>1. background' = << >> /\ answer' = Idle /\ next_order' = next_order
    BY <1>10 DEF Dispose
  <2>2. Live' = << >>
    BY <2>1
  <2>3. Stack!Dispose
    BY <2>1, <2>2 DEF Stack!Dispose, Stack!Idle, Idle
  <2> QED
    BY <2>3 DEF Stack!Next
<1>11. CASE UNCHANGED vars
  BY <1>11 DEF vars, Stack!vars
<1> QED
  BY <1>2, <1>3, <1>4, <1>5, <1>7, <1>8, <1>9, <1>10, <1>11 DEF Next

(* The queue, the tree and the counter implement the job list: fresh       *)
(* orders, the newest job first, the job with a given order, and NULL only *)
(* when there is none.                                                     *)
THEOREM Implements ==
  ASSUME MaxOrder < OrderMod
  PROVE  Spec => StackSpec
<1>1. Init => Stack!Init
  <2> SUFFICES ASSUME Init
               PROVE  Stack!Init
    OBVIOUS
  <2>1. Live = << >>
    BY DEF Init, Live
  <2> QED
    BY <2>1 DEF Init, Stack!Init, Stack!Idle, Idle, Live
<1>2. IInv /\ IInv' /\ [Next]_vars => [Stack!Next]_(Stack!vars)
  BY StackStep
<1> QED
  BY <1>1, <1>2, Inductive, PTL DEF Spec, StackSpec, Stack!Spec
=============================================================================
