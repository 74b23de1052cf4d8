------------------------------ MODULE JobTable ------------------------------
(***************************************************************************)
(* The job table of runtime/runner.c: the GQueue `background' (newest job  *)
(* at its head), the GTree `background_ref' from an order to the job's     *)
(* GList link, the counter `next_order', and the references that keep a    *)
(* detached closure alive between the `&' that queues it, the `fg' that    *)
(* pops it and the end of its nested run.                                  *)
(*                                                                         *)
(* The shell is one thread; an action is one call of runner.c, or one arm  *)
(* of run_unchecked between two closure invocations.  The orders given to  *)
(* j_runner_job_pop_nth range over every order a caller may have in mind:  *)
(* what the emitted code really passes is modelled in Runner.              *)
(***************************************************************************)
EXTENDS Integers, Sequences

CONSTANTS
  Closures,   \* the closures the code generator may emit in this session
  None,       \* NULL
  OrderMod,   \* 2^31: Job.order is a bit-field one bit shorter than guint
  MaxOrder    \* bound: the last order given before the model stops pushing

ASSUME NoneIsNoClosure == None \notin Closures
ASSUME OrderModIsPos == OrderMod \in Nat \ {0}
(* next_order itself is a full guint: the model stops before it wraps.     *)
ASSUME MaxOrderFits == MaxOrder \in Nat /\ MaxOrder < 2 * OrderMod

VARIABLES
  next_order,      \* the static counter of runner.c
  background,      \* the queue: jobs with their bit-field order and their link
  background_ref,  \* the tree: key (a full guint) -> link
  refs,            \* reference count of every closure emitted so far
  answer,          \* what the last pop was asked and what it returned
  running,         \* the closures of the nested run_unchecked frames, inner last
  disposed         \* the runner object is gone

vars == <<next_order, background, background_ref, refs, answer, running,
          disposed>>

(* A link is named by the counter's value when it was allocated.           *)
Job == [order : Nat, link : Nat, closure : Closures]

Idle == [asked |-> 0, got |-> None]

(* Mistaken: the element stays.                                            *)
WithoutNone(s, i) == s

Without(s, i) ==
  [j \in 1 .. Len(s) - 1 |-> IF j < i THEN s[j] ELSE s[j + 1]]

(* Mistaken: a pop leaves the tree as it is.                               *)
TreeRemoveNothing(tree, key) == tree

(* g_tree_remove and g_tree_insert.                                        *)
TreeRemove(tree, key) == [k \in DOMAIN tree \ {key} |-> tree[k]]
TreeInsert(tree, key, link) ==
  [k \in DOMAIN tree \cup {key} |-> IF k = key THEN link ELSE tree[k]]

(* Mistaken: one unref too many.                                           *)
UnrefTwice(c) == [refs EXCEPT ![c] = @ - 2]

Ref(c)   == [refs EXCEPT ![c] = @ + 1]
Unref(c) == [refs EXCEPT ![c] = @ - 1]

(* Mistaken: parse_staged returns the closure without a reference for its  *)
(* caller.                                                                 *)
EmittedUnowned(c, n) ==
  [d \in DOMAIN refs \cup {c} |-> IF d = c THEN n - 1 ELSE refs[d]]

(* parse_staged on text or on an AST: j_codegen_emit keeps the reference   *)
(* of its ref and sink, STAGE_COMPLETE adds the caller's.                  *)
Emitted(c, n) ==
  [d \in DOMAIN refs \cup {c} |-> IF d = c THEN n ELSE refs[d]]

Ready == answer.got = None /\ ~disposed

-----------------------------------------------------------------------------

Init ==
  /\ next_order = 1
  /\ background = << >>
  /\ background_ref = [k \in {} |-> k]
  /\ refs = [c \in {} |-> 0]
  /\ answer = Idle
  /\ running = << >>
  /\ disposed = FALSE

(* j_runner_run_line and j_runner_run_file at the prompt, and the nested   *)
(* run of a history line by `again'.                                       *)
RunLine(c) ==
  /\ Ready
  /\ c \notin DOMAIN refs
  /\ refs' = Emitted(c, 2)
  /\ running' = Append(running, c)
  /\ answer' = Idle
  /\ UNCHANGED <<next_order, background, background_ref, disposed>>

(* The `&' arm of run_unchecked: emit, j_runner_job_push (which takes its  *)
(* own reference), then the unref at the end of the arm.                   *)
Detach(c) ==
  /\ Ready
  /\ running # << >>
  /\ c \notin DOMAIN refs
  /\ next_order <= MaxOrder
  /\ LET job == [order |-> next_order % OrderMod, link |-> next_order,
                 closure |-> c]
     IN  background' = << job >> \o background
  /\ background_ref' = TreeInsert(background_ref, next_order, next_order)
  /\ next_order' = next_order + 1
  /\ refs' = Emitted(c, 2 + 1 - 1)
  /\ answer' = Idle
  /\ UNCHANGED <<running, disposed>>

(* The body the two pops share, on the job at position i.                  *)
Take(i, asked) ==
  LET job == background[i] IN
  /\ background' = Without(background, i)
  /\ background_ref' = TreeRemove(background_ref, job.order)
  /\ refs' = Unref(job.closure)
  /\ answer' = [asked |-> asked, got |-> job.closure]
  /\ UNCHANGED <<next_order, running, disposed>>

(* Mistaken: the oldest job is popped.                                     *)
JobPopOldest ==
  /\ Ready
  /\ running # << >>
  /\ background # << >>
  /\ Take(Len(background), 0)

(* j_runner_job_pop *)
JobPop ==
  /\ Ready
  /\ running # << >>
  /\ background # << >>
  /\ Take(1, 0)

(* j_runner_job_pop_nth finding a link in the tree.  Its argument is a     *)
(* gint: an order that needs the bit the bit-field lacks reads as a        *)
(* negative number, and those are refused.                                 *)
JobPopNth(order) ==
  /\ Ready
  /\ running # << >>
  /\ order \in 1 .. OrderMod - 1
  /\ order \in DOMAIN background_ref
  /\ \E i \in DOMAIN background :
       /\ background[i].link = background_ref[order]
       /\ Take(i, order)

(* Both pops returning NULL, j_runner_job_pop_nth for an order it refuses  *)
(* too.  Order 0 stands for j_runner_job_pop.                              *)
JobPopNull(order) ==
  /\ Ready
  /\ running # << >>
  /\ IF order = 0 THEN background = << >>
                  ELSE order >= OrderMod \/ order \notin DOMAIN background_ref
  /\ answer' = [asked |-> order, got |-> None]
  /\ UNCHANGED <<next_order, background, background_ref, refs, running,
                 disposed>>

(* run_unchecked on the interrupt `fg' raises: the closure travels in a    *)
(* static boxed value, parse_staged references it, a nested run starts.    *)
BringToFront ==
  /\ answer.got # None
  /\ refs' = Ref(answer.got)
  /\ running' = Append(running, answer.got)
  /\ answer' = Idle
  /\ UNCHANGED <<next_order, background, background_ref, disposed>>

(* The innermost run_unchecked returned and its caller drops the closure.  *)
EndRun ==
  /\ Ready
  /\ running # << >>
  /\ refs' = Unref(running[Len(running)])
  /\ running' = SubSeq(running, 1, Len(running) - 1)
  /\ answer' = Idle
  /\ UNCHANGED <<next_order, background, background_ref, disposed>>

Queued == {background[i].closure : i \in DOMAIN background}

(* j_runner_class_dispose, from cleanup () in main.c. *)
Dispose ==
  /\ Ready
  /\ running = << >>
  /\ refs' = [c \in DOMAIN refs |-> IF c \in Queued THEN refs[c] - 1 ELSE refs[c]]
  /\ background' = << >>
  /\ background_ref' = [k \in {} |-> k]
  /\ answer' = Idle
  /\ disposed' = TRUE
  /\ UNCHANGED <<next_order, running>>

Next ==
  \/ \E c \in Closures : RunLine(c) \/ Detach(c)
  \/ JobPop
  \/ \E order \in 1 .. MaxOrder : JobPopNth(order)
  \/ \E order \in 0 .. MaxOrder : JobPopNull(order)
  \/ BringToFront
  \/ EndRun
  \/ Dispose

Spec == Init /\ [][Next]_vars

-----------------------------------------------------------------------------
(* Type invariant. *)
TypeOK ==
  /\ next_order \in 1 .. MaxOrder + 1
  /\ background \in Seq(Job)
  /\ DOMAIN background_ref \subseteq 1 .. MaxOrder
  /\ \A k \in DOMAIN background_ref : background_ref[k] \in Nat
  /\ DOMAIN refs \subseteq Closures
  /\ \A c \in DOMAIN refs : refs[c] \in Nat
  /\ answer \in [asked : 0 .. MaxOrder, got : Closures \cup {None}]
  /\ running \in Seq(Closures)
  /\ disposed \in BOOLEAN

(* The tree is the index of the queue.  As long as no order has needed the *)
(* bit the bit-field lacks, every queued job is found under its order, and *)
(* every key of the tree leads to a queued job: the pair of updates in     *)
(* j_runner_job_push, _pop and _pop_nth never gets out of step.            *)
TreeIndexesQueue ==
  next_order <= OrderMod =>
    /\ \A i \in DOMAIN background :
         /\ background[i].order \in DOMAIN background_ref
         /\ background_ref[background[i].order] = background[i].link
    /\ \A k \in DOMAIN background_ref :
         \E i \in DOMAIN background : background[i].order = k

(* A link under an order j_runner_job_pop_nth accepts is the link of a     *)
(* queued job, so the pop never reads a freed one: past 2^31 jobs too,     *)
(* when the order the pops take out of the tree is no longer the key that  *)
(* j_runner_job_push put in and freed links do stay in the tree.           *)
NoStaleLink ==
  \A key \in DOMAIN background_ref :
    key < OrderMod =>
      \E i \in DOMAIN background : background[i].link = background_ref[key]

(* A closure somebody is about to use is alive: a queued one, one a pop    *)
(* has just returned (job_free has dropped the job's reference before the  *)
(* caller takes its own), and one being run.                               *)
InUse == Queued \cup {running[i] : i \in DOMAIN running}
                \cup ({answer.got} \ {None})
ClosureAlive == \A c \in InUse : c \in DOMAIN refs /\ refs[c] >= 1

(* A closure carries the state of its run (entry, condition, waitq), so it *)
(* has one owner: it is queued once, or popped, or run by one frame.       *)
OneOwner ==
  /\ \A i, j \in DOMAIN background :
       background[i].closure = background[j].closure => i = j
  /\ \A i, j \in DOMAIN running : running[i] = running[j] => i = j
  /\ \A i \in DOMAIN background, j \in DOMAIN running :
       background[i].closure # running[j]
  /\ answer.got # None =>
       /\ answer.got \notin Queued
       /\ \A j \in DOMAIN running : running[j] # answer.got

(* The table implements the job list runner.h promises: fresh orders,      *)
(* newest first, and NULL only for an order no job has.                    *)
Stack == INSTANCE JobStack
  WITH live <- [i \in DOMAIN background |->
                  [order |-> background[i].order,
                   closure |-> background[i].closure]],
       next <- next_order,
       Orders <- 0 .. MaxOrder
StackSpec == Stack!Spec
=============================================================================
