------------------------------ MODULE SharedBudget ------------------------------
(***************************************************************************)
(* Threads that charge one budget tracker at once: a run's agents, or the  *)
(* probe of INV-12, which releases them together with a barrier            *)
(* (dvah/guardrails/budget.py, conformance/builtin_adapter.py). The        *)
(* increment is a read and a write; the reference tracker has a lock       *)
(* around the test and both.                                               *)
(***************************************************************************)
EXTENDS Naturals, FiniteSets

CONSTANTS
  Thread,     \* the threads that charge, once each
  Limit,      \* the shared limit
  NoThread    \* the lock is free

VARIABLES
  tracker,    \* the class of the tracker: "atomic", "racy" or "per agent"
  used,       \* its count
  lock,       \* who holds its lock
  thread,     \* where each thread is
  read        \* the count each thread read last

budget == <<tracker, used, lock, thread, read>>

ASSUME SharedBudgetAssumption ==
  Limit \in Nat /\ IsFiniteSet(Thread) /\ NoThread \notin Thread

Trackers == {"atomic", "racy", "per agent"}
Points == {"charging", "testing", "reading", "writing", "charged", "denied"}

Goto(t, at) == thread' = [thread EXCEPT ![t] = at]

\* A tracker without a lock, and one that only asks the caller's own context.
Enter(t) ==
  /\ thread[t] = "charging"
  /\ CASE tracker = "atomic" -> lock = NoThread /\ lock' = t /\ Goto(t, "testing")
       [] tracker = "racy" -> Goto(t, "testing") /\ UNCHANGED lock
       [] tracker = "per agent" ->
            Goto(t, IF Limit > 0 THEN "charged" ELSE "denied") /\ UNCHANGED lock
  /\ UNCHANGED <<tracker, used, read>>

Release(t) == lock' = IF tracker = "atomic" THEN NoThread ELSE lock

\* Defect: the lock is around the test alone.
TestReleasing(t) ==
  /\ thread[t] = "testing"
  /\ Goto(t, IF used >= Limit THEN "denied" ELSE "reading") /\ Release(t)
  /\ UNCHANGED <<tracker, used, read>>

Test(t) ==
  /\ thread[t] = "testing"
  /\ IF used >= Limit THEN Goto(t, "denied") /\ Release(t)
     ELSE Goto(t, "reading") /\ UNCHANGED lock
  /\ UNCHANGED <<tracker, used, read>>

ReadCount(t) ==
  /\ thread[t] = "reading"
  /\ read' = [read EXCEPT ![t] = used]
  /\ Goto(t, "writing")
  /\ UNCHANGED <<tracker, used, lock>>

WriteCount(t) ==
  /\ thread[t] = "writing"
  /\ used' = read[t] + 1
  /\ Goto(t, "charged") /\ Release(t)
  /\ UNCHANGED <<tracker, read>>

Charge(t) == Enter(t) \/ Test(t) \/ ReadCount(t) \/ WriteCount(t)

Through == {t \in Thread : thread[t] = "charged"}
Raced == \A t \in Thread : thread[t] \in {"charged", "denied"}

RaceInit ==
  /\ tracker \in Trackers /\ used = 0 /\ lock = NoThread
  /\ thread = [t \in Thread |-> "charging"] /\ read = [t \in Thread |-> 0]

RaceNext == \E t \in Thread : Charge(t)

RaceSpec == RaceInit /\ [][RaceNext]_budget

\* However its threads interleave, the tracker with the lock never lets more of
\* them through than the limit they share, and counts every one it let through.
WithinLimit ==
  tracker = "atomic" =>
    /\ Cardinality(Through) <= Limit
    /\ Raced => used = Cardinality(Through)
===============================================================================
