------------------------------ MODULE JobStack ------------------------------
(***************************************************************************)
(* What runtime/runner.h offers the rest of the shell as the list of       *)
(* detached jobs, whatever keeps it: j_runner_job_push names a job with    *)
(* an order nobody had before, j_runner_job_pop hands back the newest job  *)
(* and j_runner_job_pop_nth the one with a given order, or nothing when    *)
(* there is none.  JobTable, the two linked containers of runner.c, is     *)
(* shown to implement it.                                                  *)
(***************************************************************************)
EXTENDS Integers, Sequences

CONSTANTS
  Closures,   \* the compiled commands that may become jobs
  None,       \* the NULL a pop returns
  Orders      \* the orders a caller may ask for

VARIABLES
  live,       \* the detached jobs, newest first
  next,       \* the order the next job gets
  answer      \* what the last pop was asked and what it returned

vars == <<live, next, answer>>

Job == [order : Nat, closure : Closures]

(* No pop has returned a closure that still waits to be used. *)
Idle == [asked |-> 0, got |-> None]

(* s without its i-th element. *)
Without(s, i) ==
  [j \in 1 .. Len(s) - 1 |-> IF j < i THEN s[j] ELSE s[j + 1]]

Init ==
  /\ live = << >>
  /\ next = 1
  /\ answer = Idle

Push(c) ==
  /\ live' = << [order |-> next, closure |-> c] >> \o live
  /\ next' = next + 1
  /\ answer' = Idle

PopNewest ==
  /\ live # << >>
  /\ answer' = [asked |-> 0, got |-> live[1].closure]
  /\ live' = Without(live, 1)
  /\ UNCHANGED next

PopNth(order) ==
  /\ order > 0
  /\ \E i \in DOMAIN live :
       /\ live[i].order = order
       /\ answer' = [asked |-> order, got |-> live[i].closure]
       /\ live' = Without(live, i)
  /\ UNCHANGED next

(* NULL: legal for an order no live job has, and for no order at all only  *)
(* when there is no job.                                                   *)
PopNothing(order) ==
  /\ \/ order > 0 /\ \A i \in DOMAIN live : live[i].order # order
     \/ order = 0 /\ live = << >>
  /\ answer' = [asked |-> order, got |-> None]
  /\ UNCHANGED <<live, next>>

(* The caller goes on with the closure it was given. *)
Use ==
  /\ answer' = Idle
  /\ UNCHANGED <<live, next>>

Dispose ==
  /\ live' = << >>
  /\ answer' = Idle
  /\ UNCHANGED next

Next ==
  \/ \E c \in Closures : Push(c)
  \/ PopNewest
  \/ \E order \in Orders : PopNth(order) \/ PopNothing(order)
  \/ Use
  \/ Dispose

Spec == Init /\ [][Next]_vars
=============================================================================
