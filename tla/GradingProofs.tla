----------------------------- MODULE GradingProofs -----------------------------
(***************************************************************************)
(* Theorems of SharedBudget and Grading.  The lock of the reference        *)
(* tracker bounds what any number of threads charge, for every limit and   *)
(* every interleaving.  A grade keeps its types whatever the learner does  *)
(* and the code under test prints; and across the process boundary the     *)
(* battery is the battery (Battery), step by step, unless it prints.       *)
(***************************************************************************)
EXTENDS Grading, FiniteSetTheorems, SequenceTheorems, TLAPS

-----------------------------------------------------------------------------
(* The race for a shared limit.                                             *)

Inside == {"testing", "reading", "writing"}

\* The lock is held by exactly the thread between its test and its write, who
\* read the count as it still is, below the limit; and the count is the number
\* of those who are through.
Locked ==
  tracker = "atomic" =>
    /\ \A t \in Thread : thread[t] \in Inside <=> lock = t
    /\ \A t \in Thread : thread[t] \in {"reading", "writing"} => used < Limit
    /\ \A t \in Thread : thread[t] = "writing" => read[t] = used
    /\ used = Cardinality(Through) /\ used <= Limit

RaceTyped ==
  /\ tracker \in Trackers
  /\ used \in Nat
  /\ lock \in Thread \cup {NoThread}
  /\ thread \in [Thread -> Points]
  /\ read \in [Thread -> Nat]

LEMMA Finite == IsFiniteSet(Through) /\ Cardinality(Through) \in Nat
  <1>1. IsFiniteSet(Thread) /\ Through \subseteq Thread
    BY SharedBudgetAssumption DEF SharedBudgetAssumption, Through
  <1> QED
    BY <1>1, FS_Subset, FS_CardinalityType

LEMMA RaceTypedInit == RaceInit => RaceTyped
  <1> SUFFICES ASSUME RaceInit
               PROVE  RaceTyped
    OBVIOUS
  <1>1. read \in [Thread -> Nat]
    BY DEF RaceInit
  <1>2. thread \in [Thread -> Points]
    BY DEF RaceInit, Points
  <1> QED
    BY <1>1, <1>2 DEF RaceInit, RaceTyped

LEMMA RaceTypedNext == RaceTyped /\ [RaceNext]_budget => RaceTyped'
  <1> SUFFICES ASSUME RaceTyped, [RaceNext]_budget
               PROVE  RaceTyped'
    OBVIOUS
  <1>1. ASSUME NEW t \in Thread, Enter(t)
        PROVE  RaceTyped'
    BY <1>1 DEF Enter, Goto, RaceTyped, Points, Trackers
  <1>2. ASSUME NEW t \in Thread, Test(t)
        PROVE  RaceTyped'
    BY <1>2 DEF Test, Goto, Release, RaceTyped, Points
  <1>3. ASSUME NEW t \in Thread, ReadCount(t)
        PROVE  RaceTyped'
    BY <1>3 DEF ReadCount, Goto, RaceTyped, Points
  <1>4. ASSUME NEW t \in Thread, WriteCount(t)
        PROVE  RaceTyped'
    <2>1. PICK n \in Nat : used' = n + 1
      BY <1>4 DEF WriteCount, RaceTyped
    <2>2. used' \in Nat
      BY <2>1
    <2> QED
      BY <1>4, <2>2 DEF WriteCount, Goto, Release, RaceTyped, Points
  <1>5. CASE UNCHANGED budget
    BY <1>5 DEF budget, RaceTyped
  <1> QED
    BY <1>1, <1>2, <1>3, <1>4, <1>5 DEF RaceNext, Charge

\* Only a write lets a thread of the locked tracker through, and just that one.
LEMMA ThroughKept ==
  ASSUME RaceTyped, NEW t \in Thread, NEW point \in Points \ {"charged"},
         thread[t] # "charged", Goto(t, point)
  PROVE  Through' = Through
  BY DEF RaceTyped, Through, Goto

LEMMA LockedInit == RaceInit => Locked
  <1> SUFFICES ASSUME RaceInit
               PROVE  Locked
    OBVIOUS
  <1>1. Through = {}
    BY DEF RaceInit, Through
  <1>2. Cardinality(Through) = 0
    BY <1>1, FS_EmptySet
  <1> QED
    BY <1>2, SharedBudgetAssumption DEF SharedBudgetAssumption, RaceInit, Locked, Inside

LEMMA LockedNext == RaceTyped /\ Locked /\ [RaceNext]_budget => Locked'
  <1> SUFFICES ASSUME RaceTyped, Locked, [RaceNext]_budget
               PROVE  Locked'
    OBVIOUS
  <1> USE SharedBudgetAssumption DEF SharedBudgetAssumption
  <1>1. CASE UNCHANGED budget
    BY <1>1 DEF budget, Locked, Through
  <1>2. ASSUME NEW t \in Thread, Charge(t), tracker # "atomic"
        PROVE  Locked'
    BY <1>2 DEF Locked, Charge, Enter, Test, ReadCount, WriteCount
  <1>3. ASSUME NEW t \in Thread, Charge(t), tracker = "atomic"
        PROVE  Locked'
    <2> USE <1>3
    <2>1. CASE Enter(t)
      <3>1. Through' = Through
        BY <2>1, ThroughKept DEF Enter, Points
      <3> QED
        BY <2>1, <3>1 DEF Enter, Goto, Locked, Inside, RaceTyped
    <2>2. CASE Test(t)
      <3>1. Through' = Through
        BY <2>2, ThroughKept DEF Test, Points
      <3> QED
        BY <2>2, <3>1 DEF Test, Goto, Release, Locked, Inside, RaceTyped
    <2>3. CASE ReadCount(t)
      <3>1. Through' = Through
        BY <2>3, ThroughKept DEF ReadCount, Points
      <3> QED
        BY <2>3, <3>1 DEF ReadCount, Goto, Locked, Inside, RaceTyped
    <2>4. CASE WriteCount(t)
      <3>1. Through' = Through \cup {t} /\ t \notin Through
        BY <2>4 DEF WriteCount, Goto, Through, RaceTyped
      <3>2. Cardinality(Through') = Cardinality(Through) + 1
        BY <3>1, Finite, FS_AddElement
      <3> QED
        BY <2>4, <3>1, <3>2 DEF WriteCount, Goto, Release, Locked, Inside, RaceTyped
    <2> QED
      BY <2>1, <2>2, <2>3, <2>4 DEF Charge
  <1> QED
    BY <1>1, <1>2, <1>3 DEF RaceNext

\* budget.py "atomic": a limit that runs or threads share is never passed, in
\* whatever order they test, read and write the count.
THEOREM LimitHolds == RaceSpec => []WithinLimit
  <1>1. RaceInit => RaceTyped /\ Locked
    BY RaceTypedInit, LockedInit
  <1>2. RaceTyped /\ Locked /\ [RaceNext]_budget => (RaceTyped /\ Locked)'
    BY RaceTypedNext, LockedNext
  <1>3. RaceTyped /\ Locked => WithinLimit
    BY DEF Locked, WithinLimit
  <1> QED
    BY <1>1, <1>2, <1>3, PTL DEF RaceSpec

-----------------------------------------------------------------------------
(* What a race of the probe comes to: its limit is one.                     *)

\* Nobody has counted more than are through; a thread is denied only after
\* another one was through, and never by a tracker of its own.
Fortunes ==
  /\ used <= Cardinality(Through)
  /\ \A t \in Thread : read[t] <= Cardinality(Through)
  /\ tracker # "per agent" /\ (\E t \in Thread : thread[t] = "denied") => Through # {}
  /\ tracker = "per agent" => \A t \in Thread : thread[t] \in {"charging", "charged"}

LEMMA FortunesInit == RaceTyped /\ used = 0 /\ thread = [t \in Thread |-> "charging"]
                      /\ read = [t \in Thread |-> 0] => Fortunes
  <1> SUFFICES ASSUME RaceTyped, used = 0, thread = [t \in Thread |-> "charging"],
                      read = [t \in Thread |-> 0]
               PROVE  Fortunes
    OBVIOUS
  <1>1. Cardinality(Through) \in Nat
    BY Finite
  <1> QED
    BY <1>1 DEF Fortunes

LEMMA FortunesNext ==
  ASSUME Limit = 1, RaceTyped, Fortunes, NEW t \in Thread, Charge(t)
  PROVE  Fortunes'
  <1>1. /\ Cardinality(Through) \in Nat /\ IsFiniteSet(Through)
        /\ used \in Nat /\ \A q \in Thread : read[q] \in Nat
    BY Finite DEF RaceTyped
  <1>a. PICK n \in Nat : n = Cardinality(Through)
    BY <1>1
  <1>b. used <= n /\ \A q \in Thread : read[q] <= n
    BY <1>a DEF Fortunes
  <1>2. CASE Enter(t)
    <2>1. CASE tracker = "per agent"
      <3>0. (IF Limit > 0 THEN "charged" ELSE "denied") = "charged"
        OBVIOUS
      <3>1. Goto(t, "charged") /\ UNCHANGED <<tracker, used, read>> /\ thread[t] = "charging"
        BY <1>2, <2>1, <3>0 DEF Enter, Goto
      <3>2. Through' = Through \cup {t} /\ t \notin Through
        BY <3>1 DEF Goto, Through, RaceTyped
      <3>3. Cardinality(Through') = n + 1
        BY <1>1, <1>a, <3>2, FS_AddElement
      <3>5. used <= n + 1 /\ \A q \in Thread : read[q] <= n + 1
        BY <1>1, <1>b
      <3>4. \A q \in Thread : thread'[q] = IF q = t THEN "charged" ELSE thread[q]
        BY <3>1 DEF Goto, RaceTyped
      <3> QED
        BY <2>1, <3>1, <3>3, <3>4, <3>5 DEF Fortunes
    <2>2. CASE tracker # "per agent"
      <3>1. Goto(t, "testing") /\ UNCHANGED <<tracker, used, read>> /\ thread[t] = "charging"
        BY <1>2, <2>2 DEF Enter, RaceTyped, Trackers
      <3>2. Through' = Through
        BY <3>1, ThroughKept DEF Points
      <3>3. \A q \in Thread : thread'[q] = IF q = t THEN "testing" ELSE thread[q]
        BY <3>1 DEF Goto, RaceTyped
      <3> QED
        BY <2>2, <3>1, <3>2, <3>3 DEF Fortunes
    <2> QED
      BY <2>1, <2>2
  <1>3. CASE Test(t)
    <2>1. CASE used >= Limit
      <3>1. Goto(t, "denied") /\ UNCHANGED <<tracker, used, read>> /\ thread[t] = "testing"
        BY <1>3, <2>1 DEF Test
      <3>2. Through' = Through
        BY <3>1, ThroughKept DEF Points
      <3>3. \A q \in Thread : thread'[q] = IF q = t THEN "denied" ELSE thread[q]
        BY <3>1 DEF Goto, RaceTyped
      <3>4. Through # {}
        <4>1. n # 0
          BY <1>1, <1>b, <2>1
        <4> QED
          BY <1>a, <4>1, FS_EmptySet
      <3>5. tracker # "per agent"
        BY <3>1 DEF Fortunes
      <3> QED
        BY <3>1, <3>2, <3>3, <3>4, <3>5 DEF Fortunes
    <2>2. CASE ~(used >= Limit)
      <3>1. Goto(t, "reading") /\ UNCHANGED <<tracker, used, read>> /\ thread[t] = "testing"
        BY <1>3, <2>2 DEF Test
      <3>2. Through' = Through
        BY <3>1, ThroughKept DEF Points
      <3>3. \A q \in Thread : thread'[q] = IF q = t THEN "reading" ELSE thread[q]
        BY <3>1 DEF Goto, RaceTyped
      <3>4. tracker # "per agent"
        BY <3>1 DEF Fortunes
      <3> QED
        BY <3>1, <3>2, <3>3, <3>4 DEF Fortunes
    <2> QED
      BY <2>1, <2>2
  <1>4. CASE ReadCount(t)
    <2>1. Goto(t, "writing") /\ UNCHANGED <<tracker, used>> /\ thread[t] = "reading"
          /\ \A q \in Thread : read'[q] = IF q = t THEN used ELSE read[q]
      BY <1>4 DEF ReadCount, RaceTyped
    <2>2. Through' = Through
      BY <2>1, ThroughKept DEF Points
    <2>3. \A q \in Thread : thread'[q] = IF q = t THEN "writing" ELSE thread[q]
      BY <2>1 DEF Goto, RaceTyped
    <2>4. tracker # "per agent"
      BY <2>1 DEF Fortunes
    <2> QED
      BY <2>1, <2>2, <2>3, <2>4 DEF Fortunes
  <1>5. CASE WriteCount(t)
    <2>1. Goto(t, "charged") /\ UNCHANGED <<tracker, read>> /\ thread[t] = "writing"
          /\ used' = read[t] + 1
      BY <1>5 DEF WriteCount
    <2>2. Through' = Through \cup {t} /\ t \notin Through
      BY <2>1 DEF Goto, Through, RaceTyped
    <2>3. Cardinality(Through') = n + 1
      BY <1>1, <1>a, <2>2, FS_AddElement
    <2>4. \A q \in Thread : thread'[q] = IF q = t THEN "charged" ELSE thread[q]
      BY <2>1 DEF Goto, RaceTyped
    <2>5. tracker # "per agent" /\ Through' # {}
      BY <2>1, <2>2 DEF Fortunes
    <2>6. \A q \in Thread : read[q] <= n + 1 /\ read[q] + 1 <= n + 1
      BY <1>1, <1>b
    <2>7. used' <= n + 1
      BY <2>1, <2>6
    <2> QED
      BY <2>1, <2>3, <2>5, <2>6, <2>7 DEF Fortunes
  <1> QED
    BY <1>2, <1>3, <1>4, <1>5 DEF Charge

\* The tracker with the lock lets one through, one without at least one, and
\* one per agent everybody.
LEMMA RaceComesTo ==
  ASSUME Limit = 1, Thread # {}, RaceTyped, Locked, Fortunes, Raced
  PROVE  /\ tracker = "atomic" => Cardinality(Through) = 1
         /\ Cardinality(Through) \in 1 .. Cardinality(Thread)
         /\ tracker = "per agent" => Cardinality(Through) = Cardinality(Thread)
  <1>1. Through \subseteq Thread /\ IsFiniteSet(Thread)
    BY SharedBudgetAssumption DEF SharedBudgetAssumption, Through
  <1>2. /\ Cardinality(Through) <= Cardinality(Thread)
        /\ Cardinality(Through) \in Nat /\ Cardinality(Thread) \in Nat
    BY <1>1, FS_Subset, FS_CardinalityType
  <1>3. Through # {}
    <2>1. CASE \E t \in Thread : thread[t] = "denied"
      BY <2>1 DEF Fortunes
    <2>2. CASE \A t \in Thread : thread[t] # "denied"
      BY <2>2 DEF Raced, Through
    <2> QED
      BY <2>1, <2>2
  <1>4. Cardinality(Through) # 0
    BY <1>1, <1>3, FS_Subset, FS_EmptySet
  <1>5. tracker = "atomic" => Cardinality(Through) <= 1
    BY <1>2 DEF Locked
  <1>6. tracker = "per agent" => Through = Thread
    BY DEF Fortunes, Raced, Through
  <1>7. PICK n, m \in Nat : n = Cardinality(Through) /\ m = Cardinality(Thread)
    BY <1>2
  <1>8. n <= m /\ n # 0
    BY <1>2, <1>4, <1>7
  <1>9. n \in 1 .. m /\ (n <= 1 => n = 1)
    BY <1>8
  <1> QED
    BY <1>5, <1>6, <1>7, <1>9

Methods == {"run_plan", "derive_child", "approve", "validate", "compile_context", "skill_grant",
            "authorize_attribution", "authorize", "recall_memory", "budget_used_racing",
            "external_tool_trust"}

LEMMA ProbeTable ==
  /\ Len(Probes) = 15 /\ DOMAIN Probes = 1 .. 15
  /\ \A p \in 1 .. 15 :
       /\ Len(CallsOf(p)) \in 1 .. 2
       /\ \A n \in 1 .. Len(CallsOf(p)) : CallsOf(p)[n] \in Methods
  <1>1. Len(Probes) = 15 /\ DOMAIN Probes = 1 .. 15
    BY DEF Probes
  <1>2. ASSUME NEW p \in 1 .. 15
        PROVE  CallsOf(p) \in {<<m>> : m \in Methods} \cup {<<"approve", "validate">>}
    BY <1>2 DEF CallsOf, Probes, Methods
  <1>3. ASSUME NEW p \in 1 .. 15
        PROVE  /\ Len(CallsOf(p)) \in 1 .. 2
               /\ \A n \in 1 .. Len(CallsOf(p)) : CallsOf(p)[n] \in Methods
    <2>1. ASSUME NEW m \in Methods, CallsOf(p) = <<m>>
          PROVE  Len(CallsOf(p)) = 1 /\ CallsOf(p)[1] \in Methods
      BY <2>1
    <2>2. ASSUME CallsOf(p) = <<"approve", "validate">>
          PROVE  /\ Len(CallsOf(p)) = 2
                 /\ CallsOf(p)[1] \in Methods /\ CallsOf(p)[2] \in Methods
      BY <2>2 DEF Methods
    <2>3. (\E m \in Methods : CallsOf(p) = <<m>>) \/ CallsOf(p) = <<"approve", "validate">>
      BY <1>2
    <2>4. Len(CallsOf(p)) = 1 => \A n \in 1 .. Len(CallsOf(p)) : n = 1
      OBVIOUS
    <2>5. Len(CallsOf(p)) = 2 => \A n \in 1 .. Len(CallsOf(p)) : n = 1 \/ n = 2
      OBVIOUS
    <2> QED
      BY <2>1, <2>2, <2>3, <2>4, <2>5
  <1> QED
    BY <1>1, <1>3

LEMMA Shapes ==
  ASSUME NEW m \in Methods
  PROVE  ShapeOf(m) \notin {"error", "noise"}
  BY DEF Methods, ShapeOf

\* What the code under test may be.
Known == B!Codes \cup {[lab |-> "none", version |-> "none"]}

\* The trackers the slots hold.
LEMMA BudgetSlots ==
  ASSUME NEW c \in Known, c.version # "torn"
  PROVE  SlotsOf(c).budget \in {"builtin", "racy", "per agent"}
  <1>1. "budget" \in Slot
    <2>1. "L006" \in DOMAIN Challenges /\ Challenges["L006"].slot = "budget"
      BY DEF Challenges, Override
    <2> QED
      BY <2>1 DEF Slot
  <1>2. Reference.budget = "builtin"
    BY <1>1 DEF Reference
  <1>3. External.budget = "builtin"
    BY <1>1, <1>2 DEF External, Reference
  <1>4. ASSUME NEW l \in Lab, Challenges[l].slot = "budget"
        PROVE  /\ Challenges[l].vulnerable \in {"racy", "per agent"}
               /\ Challenges[l].solution = "builtin"
    <2>1. l \in {"L001", "L002", "L003", "L004", "L005", "L006", "L007", "L008", "L009", "L010",
                "L011", "L012", "L013", "L014"}
      BY DEF Lab, Challenges
    <2>2. l = "L006" \/ l = "L013"
      <3> SUFFICES ASSUME l # "L006", l # "L013"
                   PROVE  Challenges[l].slot # "budget"
        BY <1>4
      <3>1. /\ Challenges.L001.slot # "budget" /\ Challenges.L002.slot # "budget"
            /\ Challenges.L003.slot # "budget"
            /\ Challenges.L004.slot # "budget" /\ Challenges.L005.slot # "budget"
            /\ Challenges.L007.slot # "budget"
            /\ Challenges.L008.slot # "budget" /\ Challenges.L009.slot # "budget"
            /\ Challenges.L010.slot # "budget"
            /\ Challenges.L011.slot # "budget" /\ Challenges.L012.slot # "budget"
            /\ Challenges.L014.slot # "budget"
        BY DEF Challenges, Override
      <3> QED
        BY <2>1, <3>1
    <2>3. CASE l = "L006"
      BY <2>3 DEF Challenges, Override
    <2>4. CASE l = "L013"
      BY <2>4 DEF Challenges, Override
    <2> QED
      BY <2>2, <2>3, <2>4
  <1>5. c.lab \in Lab => c.version \in {"vulnerable", "solution"}
    <2>1. Lab \cap {"builtin", "external", "none"} = {}
      BY DEF Lab, Challenges
    <2> QED
      BY <2>1 DEF Known, B!Codes, Lab, B!Lab
  <1> QED
    BY <1>1, <1>2, <1>3, <1>4, <1>5 DEF SlotsOf, Slots, Reference

-----------------------------------------------------------------------------
(* Tuples, whatever they hold.                                              *)

Items(s) == {s[i] : i \in 1 .. Len(s)}
IsTuple(s) == s \in Seq(Items(s))

LEMMA TupleOf ==
  ASSUME NEW S, NEW s \in Seq(S)
  PROVE  IsTuple(s) /\ Len(s) \in Nat
  <1>1. Len(s) \in Nat /\ s \in [1 .. Len(s) -> S]
    BY LenProperties
  <1>2. s \in [1 .. Len(s) -> Items(s)]
    BY <1>1 DEF Items
  <1> DEFINE n == Len(s)
             T == Items(s)
  <1>3. n \in Nat /\ s \in [1 .. n -> T]
    BY <1>1, <1>2
  <1> HIDE DEF n, T
  <1>4. s \in Seq(T)
    BY <1>3
  <1> QED
    BY <1>1, <1>4 DEF IsTuple, T

LEMMA TupleAppend ==
  ASSUME NEW s, IsTuple(s), NEW e
  PROVE  /\ IsTuple(Append(s, e))
         /\ Len(s) \in Nat /\ Len(Append(s, e)) = Len(s) + 1
         /\ s # <<>> => Head(Append(s, e)) = Head(s)
         /\ Append(s, e) # <<>>
  <1> DEFINE S == Items(s) \cup {e}
  <1>1. s \in Seq(S)
    BY SeqMonotonic DEF IsTuple
  <1> HIDE DEF S
  <1>2. e \in S
    BY DEF S
  <1>3. Append(s, e) \in Seq(S)
    BY <1>1, <1>2
  <1>4. /\ Len(s) \in Nat /\ Len(Append(s, e)) = Len(s) + 1
        /\ \A i \in 1 .. Len(s) : Append(s, e)[i] = s[i]
    BY <1>1, <1>2
  <1>5. s # <<>> => Head(Append(s, e)) = Head(s)
    <2>1. s # <<>> => Len(s) \in Nat \ {0}
      BY <1>1, EmptySeq
    <2>2. s # <<>> => 1 \in 1 .. Len(s)
      BY <2>1
    <2>3. Head(Append(s, e)) = Append(s, e)[1] /\ Head(s) = s[1]
      OBVIOUS
    <2> QED
      BY <1>4, <2>2, <2>3
  <1>6. Append(s, e) # <<>>
    BY <1>4
  <1> QED
    BY <1>3, <1>4, <1>5, <1>6, TupleOf

LEMMA TupleTail ==
  ASSUME NEW s, IsTuple(s), s # <<>>
  PROVE  IsTuple(Tail(s))
  BY TupleOf, HeadTailProperties DEF IsTuple

\* As long as answers are missing there is a call that comes next.
LEMMA CallComes ==
  ASSUME NEW p \in 1 .. 15, NEW g, IsTuple(g), Len(g) < Len(CallsOf(p))
  PROVE  Len(g) + 1 \in 1 .. Len(CallsOf(p))
  <1>1. Len(g) \in Nat
    BY DEF IsTuple
  <1> DEFINE n == Len(CallsOf(p))
  <1>2. n \in 1 .. 2
    BY ProbeTable
  <1>3. Len(g) < n
    OBVIOUS
  <1> HIDE DEF n
  <1>4. Len(g) + 1 \in 1 .. n
    BY <1>1, <1>2, <1>3
  <1> QED
    BY <1>4 DEF n

-----------------------------------------------------------------------------
(* Types.                                                                   *)

Ats == {"idle", "assembling", "calling", "awaiting", "closing", "removing", "done"}
Servers == {"none", "loading", "serving", "racing", "dead"}

\* A server answers only code it could load.
Typed ==
  /\ at \in Ats /\ server \in Servers
  /\ file \in {"vulnerable", "solution", "torn", "gone"} /\ saves \in 0 .. MaxSaves
  /\ submission \in Submissions \cup {[lab |-> "none", by |-> "none"]}
  /\ at = "assembling" => submission \in Submissions
  /\ workspace \in BOOLEAN /\ raised \in BOOLEAN /\ mimic \in BOOLEAN /\ strays \in 0 .. MaxStray
  /\ code \in Known
  /\ server \in {"serving", "racing"} => code.version # "torn"
  /\ at \in {"idle", "assembling"} => server = "none"

\* One result for every probe put so far, and no more answers than calls.
Tally ==
  /\ probe \in 0 .. 16
  /\ results \in Seq(BOOLEAN) /\ Len(results) = IF probe = 0 THEN 0 ELSE probe - 1
  /\ IsTuple(got)
  /\ Judging => Len(got) <= Len(CallsOf(probe))
  /\ at = "awaiting" => Judging /\ Len(got) < Len(CallsOf(probe))
  /\ at \in {"idle", "assembling"} => probe = 0 /\ got = <<>>

\* The class of the tracker that races.
Class == IF SlotsOf(code).budget = "builtin" THEN "atomic" ELSE SlotsOf(code).budget

Heats ==
  /\ RaceTyped /\ Locked /\ Fortunes
  /\ IsTuple(requests)
  /\ server = "racing" => requests # <<>> /\ Racing(Head(requests)) /\ tracker = Class

LEMMA LearnerTyped == Typed /\ Learner => Typed'
  <1> SUFFICES ASSUME Typed, Learner
               PROVE  Typed'
    OBVIOUS
  <1>1. CASE Save
    <2>1. saves' \in 0 .. MaxSaves
      BY <1>1, GradingAssumption DEF GradingAssumption, Save, Typed
    <2> QED
      BY <1>1, <2>1 DEF Save, Typed, battery, grader, process
  <1>2. CASE Saved \/ Leave
    BY <1>2 DEF Saved, Leave, Typed, battery, grader, process
  <1> QED
    BY <1>1, <1>2 DEF Learner

LEMMA CodesKnown ==
  /\ \A c \in Runtimes : /\ [lab |-> c, version |-> "none"] \in B!Codes
                         /\ [lab |-> c, version |-> "none"] \in Known
  /\ \A s \in Submissions, v \in {"vulnerable", "solution", "torn"} :
       /\ [lab |-> s.lab, version |-> v] \in B!Codes
       /\ [lab |-> s.lab, version |-> v] \in Known
  <1>1. B!Lab = Lab
    BY DEF B!Lab, Lab, B!Challenges, Challenges, B!Override, Override
  <1> QED
    BY <1>1, GradingAssumption DEF GradingAssumption, B!Codes, Known

LEMMA GraderTyped ==
  ASSUME Typed,
         \/ Grader \/ (\E s \in Submissions : Begin(s))
         \/ (\E runtime \in Runtimes : BeginInProcess(runtime))
  PROVE  Typed'
  <1> USE DEF Typed, Ats, Servers, battery, learner, grader, process
  <1>1. ASSUME NEW s \in Submissions, Begin(s)
        PROVE  Typed'
    BY <1>1 DEF Begin
  <1>2. ASSUME NEW runtime \in Runtimes, BeginInProcess(runtime)
        PROVE  Typed'
    <2>1. code' \in Known /\ code'.version = "none"
      BY <1>2, CodesKnown DEF BeginInProcess, Load
    <2> QED
      BY <1>2, <2>1 DEF BeginInProcess, Load
  <1>3. CASE Assemble
    <2> DEFINE version == IF submission.by = "reference" THEN "solution" ELSE file
    <2>1. CASE version = "gone"
      BY <1>3, <2>1 DEF Assemble
    <2>2. CASE version # "gone"
      <3>1. Load([lab |-> submission.lab, version |-> version]) /\ server' = "loading"
        BY <1>3, <2>2 DEF Assemble
      <3>2. submission \in Submissions /\ version \in {"vulnerable", "solution", "torn"}
        BY <1>3, <2>2 DEF Assemble
      <3>3. code' \in Known
        BY <3>1, <3>2, CodesKnown DEF Load
      <3> QED
        BY <1>3, <3>1, <3>3 DEF Assemble, Load
    <2> QED
      BY <2>1, <2>2
  <1>4. CASE Ask \/ Close \/ Kill \/ Remove
    BY <1>4 DEF Ask, Close, Kill, Remove
  <1>5. CASE Receive
    BY <1>5 DEF Receive, Verdict
  <1>6. CASE Judge
    BY <1>6 DEF Judge, Verdict
  <1> QED
    BY <1>1, <1>2, <1>3, <1>4, <1>5, <1>6 DEF Grader

\* What is printed is bounded and not taken back.
LEMMA PrintsBounded ==
  ASSUME Typed, NEW lines, NEW mayPrint, Write(lines, mayPrint)
  PROVE  strays' \in 0 .. MaxStray /\ strays <= strays' /\ mimic' \in BOOLEAN /\ (mimic => mimic')
  <1>1. MaxStray \in Nat /\ strays \in 0 .. MaxStray
    BY GradingAssumption DEF GradingAssumption, Typed
  <1>2. PICK n \in 0 .. (IF mayPrint /\ LearnersCode THEN MaxStray - strays ELSE 0) :
          strays' = strays + n
    BY DEF Write
  <1>3. n \in 0 .. (MaxStray - strays)
    BY <1>1, <1>2
  <1>4. strays' \in 0 .. MaxStray /\ strays <= strays'
    BY <1>1, <1>2, <1>3
  <1>5. mimic' \in BOOLEAN /\ (mimic => mimic')
    BY DEF Write, Typed
  <1> QED
    BY <1>4, <1>5

LEMMA ServerTyped ==
  ASSUME Typed,
         \/ Server \/ Exit \/ Crash
         \/ \E r \in {requests[i] : i \in DOMAIN requests} : Fail(r)
  PROVE  Typed'
  <1> USE DEF Typed, Ats, Servers, battery, learner, grader
  <1>1. CASE Import
    <2>1. CASE code.version = "torn"
      BY <1>1, <2>1 DEF Import
    <2>2. CASE code.version # "torn"
      <3>1. Write(<<>>, TRUE) /\ server' = "serving"
        BY <1>1, <2>2 DEF Import
      <3>2. strays' \in 0 .. MaxStray /\ mimic' \in BOOLEAN
        BY <3>1, PrintsBounded
      <3> QED
        BY <1>1, <2>2, <3>1, <3>2 DEF Import
    <2> QED
      BY <2>1, <2>2
  <1>2. CASE Race
    BY <1>2 DEF Race, process
  <1>3. CASE EndRace
    <2>1. strays' \in 0 .. MaxStray /\ mimic' \in BOOLEAN
      BY <1>3, PrintsBounded DEF EndRace
    <2> QED
      BY <1>3, <2>1 DEF EndRace
  <1>4. ASSUME NEW r, Dispatch(r)
        PROVE  Typed'
    <2>1. strays' \in 0 .. MaxStray /\ mimic' \in BOOLEAN
      BY <1>4, PrintsBounded DEF Dispatch
    <2> QED
      BY <1>4, <2>1 DEF Dispatch
  <1>5. ASSUME NEW r, StartRace(r)
        PROVE  Typed'
    BY <1>5 DEF StartRace, Serving
  <1>6. ASSUME NEW r, Fail(r)
        PROVE  Typed'
    <2>1. strays' \in 0 .. MaxStray /\ mimic' \in BOOLEAN
      BY <1>6, PrintsBounded DEF Fail
    <2> QED
      BY <1>6, <2>1 DEF Fail
  <1>7. CASE Exit
    BY <1>7 DEF Exit
  <1>8. CASE Crash
    BY <1>8 DEF Crash
  <1> QED
    BY <1>1, <1>2, <1>3, <1>4, <1>5, <1>6, <1>7, <1>8 DEF Server

LEMMA TypedInit == Init => Typed
  <1> SUFFICES ASSUME Init
               PROVE  Typed
    OBVIOUS
  <1>1. MaxSaves \in Nat /\ MaxStray \in Nat
    BY GradingAssumption DEF GradingAssumption
  <1>2. code \in Known
    BY DEF Init, Known
  <1>3. saves \in 0 .. MaxSaves /\ strays \in 0 .. MaxStray
    BY <1>1 DEF Init
  <1> QED
    BY <1>2, <1>3 DEF Init, Typed, Ats, Servers

LEMMA TypedNext == Typed /\ [Next]_vars => Typed'
  <1> SUFFICES ASSUME Typed, [Next]_vars
               PROVE  Typed'
    OBVIOUS
  <1>1. CASE UNCHANGED vars
    BY <1>1 DEF vars, battery, learner, grader, process, Typed
  <1> QED
    BY <1>1, LearnerTyped, GraderTyped, ServerTyped DEF Next

-----------------------------------------------------------------------------
(* One result for every probe.                                              *)

\* What a caller may do arithmetic with is a number.
Sane(line) ==
  /\ line.shape = "outcome" => line.value.recorded \in Int /\ line.value.count \in Int
  /\ line.shape = "number" => line.value \in Int

\* The answers a probe has so far unpack.
Unpacked ==
  Judging => \A n \in 1 .. Len(got) : Sane(got[n]) /\ Unpacks(CallsOf(probe)[n], got[n])

LEMMA VerdictsAre ==
  ASSUME Unpacked, Answered
  PROVE  Holds(probe, got) \in BOOLEAN
  <1>1. /\ probe \in 1 .. 15
        /\ Inv(probe) \in {"INV-01", "INV-02", "INV-03", "INV-04", "INV-05", "INV-06-instr",
                           "INV-06-budget", "INV-07", "INV-08", "INV-09", "INV-10", "INV-11",
                           "INV-12", "INV-13", "INV-14"}
    <2>1. probe \in 1 .. 15
      BY ProbeTable DEF Answered, Judging
    <2> QED
      BY <2>1 DEF Inv, Probes
  <1>2. CASE Inv(probe) \in {"INV-01", "INV-02", "INV-07"}
    BY <1>2 DEF Holds
  <1>3. CASE Inv(probe) \in {"INV-03", "INV-11", "INV-14"}
    BY <1>3 DEF Holds
  <1>4. CASE Inv(probe) \in {"INV-04", "INV-06-instr", "INV-08", "INV-09", "INV-13"}
    BY <1>4 DEF Holds
  <1>5. CASE Inv(probe) = "INV-10"
    BY <1>5 DEF Holds
  <1> DEFINE r == got[Len(got)]
  <1>6. Sane(r) /\ Unpacks(CallsOf(probe)[Len(got)], r) /\ Len(got) = Len(CallsOf(probe))
    <2>1. Judging /\ Len(got) = Len(CallsOf(probe)) /\ Len(CallsOf(probe)) \in 1 .. 2
      BY <1>1, ProbeTable DEF Answered
    <2>2. Len(got) \in 1 .. Len(got)
      BY <2>1
    <2> QED
      BY <2>1, <2>2 DEF Unpacked
  <1>7. CASE Inv(probe) \in {"INV-05", "INV-06-budget"}
    <2>1. CallsOf(probe) = <<"run_plan">>
      BY <1>1, <1>7 DEF Inv, CallsOf, Probes
    <2>2. r.shape = "outcome"
      BY <1>6, <2>1 DEF Unpacks, ShapeOf
    <2>3. r.value.recorded \in Int /\ r.value.count \in Int
      BY <1>6, <2>2 DEF Sane
    <2>4. (r.value.recorded >= 1) \in BOOLEAN /\ (r.value.count <= 3) \in BOOLEAN
      BY <2>3
    <2> QED
      BY <1>7, <2>4 DEF Holds
  <1>8. CASE Inv(probe) = "INV-12"
    <2>1. CallsOf(probe) = <<"budget_used_racing">>
      BY <1>1, <1>8 DEF Inv, CallsOf, Probes
    <2>2. r.shape = "number" \/ r.shape = "boolean"
      BY <1>6, <2>1 DEF Unpacks, ShapeOf
    <2>3. r.shape # "boolean" => r.value \in Int
      BY <1>6, <2>2 DEF Sane
    <2>4. r.shape # "boolean" => (r.value <= 1) \in BOOLEAN
      BY <2>3
    <2> QED
      BY <1>8, <2>4 DEF Holds
  <1> QED
    BY <1>1, <1>2, <1>3, <1>4, <1>5, <1>7, <1>8

LEMMA VerdictTallied ==
  ASSUME Tally, Judging, NEW v \in BOOLEAN, Verdict(v),
         at' \notin {"awaiting", "idle", "assembling"}
  PROVE  Tally'
  <1>1. /\ probe \in 1 .. 15 /\ results \in Seq(BOOLEAN) /\ Len(results) = probe - 1
    BY ProbeTable DEF Tally, Judging
  <1>2. results' = Append(results, v) /\ probe' = probe + 1 /\ got' = <<>>
    BY DEF Verdict
  <1>3. results' \in Seq(BOOLEAN) /\ Len(results') = Len(results) + 1
    BY <1>1, <1>2, AppendProperties
  <1>4. probe' \in 1 .. 16 /\ Len(results') = probe' - 1
    BY <1>1, <1>2, <1>3
  <1>5. IsTuple(got') /\ Len(got') = 0
    BY <1>2, EmptySeq, TupleOf
  <1>6. Judging' => Len(got') <= Len(CallsOf(probe'))
    BY <1>5, ProbeTable DEF Judging
  <1>7. probe' \in 0 .. 16 /\ probe' # 0
    BY <1>4
  <1>8. /\ at' = "awaiting" => Judging' /\ Len(got') < Len(CallsOf(probe'))
        /\ at' \in {"idle", "assembling"} => probe' = 0 /\ got' = <<>>
    OBVIOUS
  <1> QED
    BY <1>3, <1>4, <1>5, <1>6, <1>7, <1>8 DEF Tally

LEMMA TallySame ==
  ASSUME Tally, UNCHANGED <<probe, got, results>>,
         \/ at' = at \/ at' \notin {"awaiting", "idle", "assembling"}
         \/ at = "idle" /\ at' = "assembling"
  PROVE  Tally'
  BY DEF Tally, Judging

LEMMA LoadTallied ==
  ASSUME Tally, at \in {"idle", "assembling"}, NEW c, Load(c)
  PROVE  Tally'
  <1>1. probe' = 1 /\ at' = "calling" /\ UNCHANGED <<got, results>> /\ probe = 0 /\ got = <<>>
        /\ results \in Seq(BOOLEAN) /\ Len(results) = 0
    BY DEF Load, Tally
  <1>2. IsTuple(got') /\ Len(got') = 0
    BY <1>1, EmptySeq, TupleOf
  <1>3. Len(got') <= Len(CallsOf(probe'))
    BY <1>1, <1>2, ProbeTable
  <1> QED
    BY <1>1, <1>2, <1>3 DEF Tally

LEMMA ReceiveTallied ==
  ASSUME Tally, Receive
  PROVE  Tally'
  <1>1. Judging /\ IsTuple(got) /\ Len(got) < Len(CallsOf(probe)) /\ at' = "calling"
        /\ Len(CallsOf(probe)) \in Nat /\ probe \in 1 .. 15
    BY ProbeTable DEF Tally, Receive, Judging
  <1>2. CASE Verdict(FALSE)
    BY <1>1, <1>2, VerdictTallied
  <1>3. CASE got' = Append(got, Head(pipe)) /\ UNCHANGED <<code, probe, results, memory>>
    <2>1. IsTuple(got') /\ Len(got) \in Nat /\ Len(got') = Len(got) + 1
      BY <1>1, <1>3, TupleAppend
    <2>2. Len(got') <= Len(CallsOf(probe'))
      BY <1>1, <1>3, <2>1
    <2> QED
      BY <1>1, <1>3, <2>1, <2>2 DEF Tally, Judging
  <1> QED
    BY <1>2, <1>3 DEF Receive

LEMMA AskTallied ==
  ASSUME Tally, Ask
  PROVE  Tally'
  <1>1. /\ Judging /\ Len(got) <= Len(CallsOf(probe)) /\ Len(got) # Len(CallsOf(probe))
        /\ IsTuple(got) /\ Len(CallsOf(probe)) \in Nat
    BY ProbeTable DEF Tally, Ask, Judging, Answered
  <1>2. Len(got) \in Nat
    BY <1>1, TupleOf DEF IsTuple
  <1>3. Len(got) < Len(CallsOf(probe))
    BY <1>1, <1>2
  <1> QED
    BY <1>1, <1>3 DEF Ask, Tally, Judging, battery

LEMMA JudgeTallied ==
  ASSUME Tally, Unpacked, Judge
  PROVE  Tally'
  <1>1. Judging /\ probe \in 1 .. 15 /\ at = "calling" /\ at' = at
    BY ProbeTable DEF Judge, Answered, Judging, grader
  <1>2. Holds(probe, got) \in BOOLEAN
    BY VerdictsAre DEF Judge
  <1> QED
    BY <1>1, <1>2, VerdictTallied DEF Judge

LEMMA TallyInit == Init => Tally
  <1> SUFFICES ASSUME Init
               PROVE  Tally
    OBVIOUS
  <1>1. IsTuple(<<>>) /\ <<>> \in Seq(BOOLEAN) /\ Len(<<>>) = 0
    BY EmptySeq, TupleOf
  <1> QED
    BY <1>1, ProbeTable DEF Init, Tally, Judging

LEMMA TallyNext == Tally /\ Unpacked /\ [Next]_vars => Tally'
  <1> SUFFICES ASSUME Tally, Unpacked, [Next]_vars
               PROVE  Tally'
    OBVIOUS
  <1>1. CASE UNCHANGED vars
    BY <1>1, TallySame DEF vars, battery, grader
  <1>2. CASE Learner
    BY <1>2, TallySame DEF Learner, Save, Saved, Leave, battery, grader
  <1>3. CASE \E s \in Submissions : Begin(s)
    BY <1>3, TallySame DEF Begin, battery
  <1>4. CASE \E runtime \in Runtimes : BeginInProcess(runtime)
    BY <1>4, LoadTallied DEF BeginInProcess
  <1>5. CASE Assemble
    <2>1. CASE at' = "removing" /\ UNCHANGED battery
      BY <2>1, TallySame DEF battery
    <2>2. CASE \E c : Load(c)
      BY <1>5, <2>2, LoadTallied DEF Assemble
    <2> QED
      BY <1>5, <2>1, <2>2 DEF Assemble
  <1>6. CASE Ask \/ Receive \/ Judge
    BY <1>6, AskTallied, ReceiveTallied, JudgeTallied
  <1>7. CASE Close \/ Kill \/ Remove
    BY <1>7, TallySame DEF Close, Kill, Remove, battery
  <1>8. CASE Server
    BY <1>8, TallySame DEF Server, Import, Race, EndRace, Dispatch, StartRace, battery, grader
  <1>9. CASE (\E r \in {requests[i] : i \in DOMAIN requests} : Fail(r)) \/ Exit \/ Crash
    BY <1>9, TallySame DEF Fail, Exit, Crash, battery, grader
  <1> QED
    BY <1>1, <1>2, <1>3, <1>4, <1>5, <1>6, <1>7, <1>8, <1>9 DEF Next, Grader

-----------------------------------------------------------------------------
(* What is on the way.                                                      *)

Asked(r) == r.probe \in 1 .. 15 /\ r.call \in 1 .. Len(CallsOf(r.probe))

Lines(s) == IsTuple(s) /\ \A i \in 1 .. Len(s) : Sane(s[i])

\* Lines that are calls of probes, and lines that are as sane as they say.
Chatter ==
  /\ Lines(pipe)
  /\ IsTuple(requests) /\ \A i \in 1 .. Len(requests) : Asked(requests[i])

LEMMA LinesConcat ==
  ASSUME NEW s, Lines(s), NEW t, Lines(t)
  PROVE  Lines(s \o t)
  <1> DEFINE S == Items(s) \cup Items(t)
  <1>1. s \in Seq(S) /\ t \in Seq(S)
    BY SeqMonotonic DEF Lines, IsTuple
  <1>2. /\ s \o t \in Seq(S) /\ Len(s) \in Nat /\ Len(t) \in Nat
        /\ Len(s \o t) = Len(s) + Len(t)
        /\ \A i \in 1 .. Len(s) + Len(t) :
             (s \o t)[i] = IF i <= Len(s) THEN s[i] ELSE t[i - Len(s)]
    BY <1>1, ConcatProperties, LenProperties
  <1>3. IsTuple(s \o t)
    BY <1>2, TupleOf
  <1> HIDE DEF S
  <1>4. ASSUME NEW i \in 1 .. Len(s \o t)
        PROVE  Sane((s \o t)[i])
    <2>1. CASE i <= Len(s)
      <3>1. i \in 1 .. Len(s) /\ (s \o t)[i] = s[i]
        BY <1>2, <2>1
      <3> QED
        BY <3>1 DEF Lines
    <2>2. CASE ~(i <= Len(s))
      <3>1. i - Len(s) \in 1 .. Len(t) /\ (s \o t)[i] = t[i - Len(s)]
        BY <1>2, <2>2
      <3> QED
        BY <3>1 DEF Lines
    <2> QED
      BY <2>1, <2>2
  <1> QED
    BY <1>3, <1>4 DEF Lines

LEMMA NoLines == Lines(<<>>)
  <1>1. <<>> \in Seq({}) /\ Len(<<>>) = 0
    OBVIOUS
  <1>2. IsTuple(<<>>)
    BY <1>1, TupleOf
  <1> QED
    BY <1>1, <1>2 DEF Lines

LEMMA OneLine ==
  ASSUME NEW line, Sane(line)
  PROVE  Lines(<<line>>)
  <1>1. <<line>> \in Seq({line}) /\ Len(<<line>>) = 1 /\ <<line>>[1] = line
    OBVIOUS
  <1>2. IsTuple(<<line>>)
    BY <1>1, TupleOf
  <1> QED
    BY <1>1, <1>2 DEF Lines

LEMMA PrintedLines ==
  ASSUME NEW n \in Nat, NEW shape \in [1 .. n -> Printable]
  PROVE  Lines([i \in 1 .. n |-> Printed(shape[i])])
  <1> DEFINE s == [i \in 1 .. n |-> Printed(shape[i])]
             P == {Printed(p) : p \in Printable}
  <1>1. s \in Seq(P) /\ Len(s) = n /\ \A i \in 1 .. n : s[i] = Printed(shape[i])
    OBVIOUS
  <1>2. \A p \in Printable : Sane(Printed(p))
    <2> SUFFICES ASSUME NEW p \in Printable
                 PROVE  Sane(Printed(p))
      OBVIOUS
    <2>1. Printed(p).shape = p /\ Printed(p).value = Wanted(p)
      BY DEF Printed
    <2> DEFINE nothing == [executed |-> {}, authorized |-> {}, count |-> 0, recorded |-> 1]
    <2>2. /\ p = "outcome" => Wanted(p) = nothing
          /\ p = "number" => Wanted(p) = 1
      BY DEF Wanted
    <2>3. nothing.recorded \in Int /\ nothing.count \in Int
      OBVIOUS
    <2> HIDE DEF nothing
    <2> QED
      BY <2>1, <2>2, <2>3 DEF Sane
  <1> HIDE DEF s, P
  <1>3. IsTuple(s)
    BY <1>1, TupleOf
  <1>4. Lines(s)
    BY <1>1, <1>2, <1>3 DEF Lines
  <1> QED
    BY <1>4 DEF s

LEMMA WritesLines ==
  ASSUME Typed, Lines(pipe), NEW lines, Lines(lines), NEW mayPrint, Write(lines, mayPrint)
  PROVE  Lines(pipe')
  <1>1. PICK n \in 0 .. (IF mayPrint /\ LearnersCode THEN MaxStray - strays ELSE 0) :
          \E shape \in [1 .. n -> Printable] :
            pipe' = pipe \o [i \in 1 .. n |-> Printed(shape[i])] \o lines
    BY DEF Write
  <1>2. PICK shape \in [1 .. n -> Printable] :
          pipe' = pipe \o [i \in 1 .. n |-> Printed(shape[i])] \o lines
    BY <1>1
  <1>3. n \in Nat
    BY <1>1, GradingAssumption DEF GradingAssumption, Typed
  <1> DEFINE printed == [i \in 1 .. n |-> Printed(shape[i])]
  <1>4. Lines(printed)
    BY <1>3, PrintedLines
  <1>5. pipe' = (pipe \o printed) \o lines
    BY <1>2
  <1> HIDE DEF printed
  <1>6. Lines((pipe \o printed) \o lines)
    BY <1>4, LinesConcat
  <1> QED
    BY <1>5, <1>6

\* An outcome counts and records so many steps.
LEMMA PlansCount ==
  ASSUME NEW slots, NEW cached, NEW inv, NEW max \in {3, 20}
  PROVE  /\ RunPlan(slots, cached, Plan(inv), max).recorded \in Int
         /\ RunPlan(slots, cached, Plan(inv), max).count \in Int
         /\ ExternalRunPlan(Plan(inv), max).recorded \in Int
         /\ ExternalRunPlan(Plan(inv), max).count \in Int
  <1> DEFINE plan == Plan(inv)
             I == DOMAIN plan.steps
  <1>1. I \in {1 .. 1, 1 .. 2, 1 .. 6}
    BY DEF Plan, Plans, Reads, Issues
  <1>2. IsFiniteSet(I)
    <2>1. PICK n \in {1, 2, 6} : I = 1 .. n
      BY <1>1
    <2> HIDE DEF I
    <2>2. n \in Int
      OBVIOUS
    <2>3. IsFiniteSet(1 .. n)
      BY <2>2, FS_Interval
    <2> QED
      BY <2>1, <2>3
  <1>3. \A s \in SUBSET I : Cardinality(s) \in Nat
    BY <1>2, FS_Subset, FS_CardinalityType
  <1> HIDE DEF plan
  <1>4. {i \in I : i <= max} \in SUBSET I /\ Charged(slots, plan.steps, max) \in SUBSET I
    BY DEF Charged
  <1>5. /\ RunPlan(slots, cached, plan, max).recorded \in Int
        /\ RunPlan(slots, cached, plan, max).count \in Int
    <2> DEFINE own == {i \in I : plan.steps[i].agent = "root"}
               run == IF ~Allows(slots, cached, plan.caps, plan.op, {}) THEN {}
                      ELSE IF slots.executor = "authorizes once" THEN own
                      ELSE Charged(slots, plan.steps, max)
               more == IF slots.executor = "authorizes once" /\ run # {} /\ own # I THEN 1 ELSE 0
    <2>1. run \in SUBSET I
      BY <1>4
    <2>2. Cardinality(run) \in Nat /\ more \in {0, 1}
      BY <1>3, <2>1
    <2>3. /\ RunPlan(slots, cached, plan, max).count = Cardinality(run) + more
          /\ RunPlan(slots, cached, plan, max).recorded \in {0, Cardinality(run)}
      BY DEF RunPlan
    <2> HIDE DEF run, more
    <2>4. Cardinality(run) + more \in Int /\ Cardinality(run) \in Int
      BY <2>2
    <2> QED
      BY <2>3, <2>4
  <1>6. /\ ExternalRunPlan(plan, max).recorded \in Int
        /\ ExternalRunPlan(plan, max).count \in Int
    BY <1>3, <1>4 DEF ExternalRunPlan
  <1> QED
    BY <1>5, <1>6 DEF plan

LEMMA ResultSane ==
  ASSUME NEW c, NEW m, NEW p \in 1 .. 15, NEW n \in 1 .. Len(CallsOf(p)), NEW g,
         NEW v \in ResultsOf(c, m, p, n, g)
  PROVE  Sane(Result(p, n, v))
  <1> DEFINE method == CallsOf(p)[n]
  <1>1. method \in Methods
    BY ProbeTable
  <1>2. CASE method = "run_plan"
    <2>1. v = (IF c.lab = "external" THEN ExternalRunPlan(Plan(Inv(p)), MaxActions(Inv(p)))
               ELSE RunPlan(SlotsOf(c), m.cached, Plan(Inv(p)), MaxActions(Inv(p))))
      BY <1>2 DEF ResultsOf
    <2>2. MaxActions(Inv(p)) \in {3, 20}
      BY DEF MaxActions
    <2>3. v.recorded \in Int /\ v.count \in Int
      BY <2>1, <2>2, PlansCount
    <2>4. ShapeOf(method) = "outcome"
      BY <1>2 DEF ShapeOf
    <2> HIDE DEF method
    <2>5. Result(p, n, v).shape = ShapeOf(method) /\ Result(p, n, v).value = v
      BY DEF Result, method
    <2> QED
      BY <2>3, <2>4, <2>5 DEF Sane
  <1>3. CASE method = "budget_used_racing"
    <2>1. v \in RaceOutcomes(SlotsOf(c), 1, Concurrent)
      BY <1>3 DEF ResultsOf
    <2>2. Concurrent \in Nat
      BY GradingAssumption, SharedBudgetAssumption, FS_CardinalityType
         DEF GradingAssumption, SharedBudgetAssumption
    <2>3. RaceOutcomes(SlotsOf(c), 1, Concurrent) \in {{Concurrent}, 1 .. Concurrent, {1}}
      BY DEF RaceOutcomes
    <2>4. v \in Int
      BY <2>1, <2>2, <2>3
    <2>5. ShapeOf(method) = "number"
      BY <1>3 DEF ShapeOf
    <2> HIDE DEF method
    <2>6. Result(p, n, v).shape = ShapeOf(method) /\ Result(p, n, v).value = v
      BY DEF Result, method
    <2> QED
      BY <2>4, <2>5, <2>6 DEF Sane
  <1>4. CASE method \notin {"run_plan", "budget_used_racing"}
    <2>1. ShapeOf(method) \notin {"outcome", "number"}
      BY <1>1, <1>4 DEF ShapeOf, Methods
    <2> HIDE DEF method
    <2>2. Result(p, n, v).shape = ShapeOf(method)
      BY DEF Result, method
    <2> QED
      BY <2>1, <2>2 DEF Sane
  <1> QED
    BY <1>2, <1>3, <1>4

Talk == Typed /\ Tally /\ Unpacked /\ Chatter /\ Heats

LEMMA UnpackedNext == Tally /\ Chatter /\ Unpacked /\ [Next]_vars => Unpacked'
  <1> SUFFICES ASSUME Tally, Chatter, Unpacked, [Next]_vars
               PROVE  Unpacked'
    OBVIOUS
  <1>1. ASSUME got' = <<>> PROVE Unpacked'
    <2>1. Len(got') = 0
      BY <1>1
    <2> QED
      BY <2>1 DEF Unpacked
  <1>2. ASSUME UNCHANGED <<probe, got>> PROVE Unpacked'
    BY <1>2 DEF Unpacked, Judging
  <1>3. CASE Receive
    <2>1. CASE Verdict(FALSE)
      BY <1>1, <2>1 DEF Verdict
    <2>2. CASE /\ pipe # <<>> /\ Unpacks(CallsOf(probe)[Len(got) + 1], Head(pipe))
               /\ got' = Append(got, Head(pipe)) /\ probe' = probe
      <3>1. Judging /\ IsTuple(got)
        BY <1>3 DEF Receive, Tally
      <3>2. Sane(Head(pipe))
        <4>1. pipe \in Seq(Items(pipe)) /\ Len(pipe) \in Nat \ {0}
          BY <2>2, EmptySeq DEF Chatter, Lines, IsTuple
        <4>2. 1 \in 1 .. Len(pipe) /\ Head(pipe) = pipe[1]
          BY <4>1
        <4> QED
          BY <4>2 DEF Chatter, Lines
      <3>3. /\ Len(got) \in Nat /\ Len(got') = Len(got) + 1
            /\ got'[Len(got) + 1] = Head(pipe)
            /\ \A i \in 1 .. Len(got) : got'[i] = got[i]
        <4> DEFINE S == Items(got) \cup {Head(pipe)}
        <4>1. got \in Seq(S)
          BY <3>1, SeqMonotonic DEF IsTuple
        <4> HIDE DEF S
        <4>2. Head(pipe) \in S
          BY DEF S
        <4> QED
          BY <2>2, <4>1, <4>2, AppendProperties, LenProperties
      <3>4. ASSUME NEW n \in 1 .. Len(got')
            PROVE  Sane(got'[n]) /\ Unpacks(CallsOf(probe)[n], got'[n])
        <4>1. CASE n = Len(got) + 1
          BY <2>2, <3>2, <3>3, <4>1
        <4>2. CASE n # Len(got) + 1
          <5>1. n \in 1 .. Len(got)
            BY <3>3, <4>2
          <5> QED
            BY <3>1, <3>3, <5>1 DEF Unpacked
        <4> QED
          BY <4>1, <4>2
      <3> QED
        BY <2>2, <3>4 DEF Unpacked
    <2> QED
      BY <1>3, <2>1, <2>2 DEF Receive
  <1>4. CASE Judge
    BY <1>1, <1>4 DEF Judge, Verdict
  <1>5. CASE Assemble
    <2>1. CASE UNCHANGED battery
      BY <1>2, <2>1 DEF battery
    <2>2. CASE \E c : Load(c)
      BY <1>1, <1>5, <2>2 DEF Assemble, Load, Tally
    <2> QED
      BY <1>5, <2>1, <2>2 DEF Assemble
  <1>6. CASE \E runtime \in Runtimes : BeginInProcess(runtime)
    BY <1>1, <1>6 DEF BeginInProcess, Load, Tally
  <1>7. CASE UNCHANGED vars \/ Learner
    BY <1>2, <1>7 DEF vars, Learner, Save, Saved, Leave, battery
  <1>8. CASE (\E s \in Submissions : Begin(s)) \/ Ask \/ Close \/ Kill \/ Remove
    BY <1>2, <1>8 DEF Begin, Ask, Close, Kill, Remove, battery
  <1>9. CASE Server
    BY <1>2, <1>9 DEF Server, Import, Race, EndRace, Dispatch, StartRace, battery
  <1>10. CASE (\E r \in {requests[i] : i \in DOMAIN requests} : Fail(r)) \/ Exit \/ Crash
    BY <1>2, <1>10 DEF Fail, Exit, Crash, battery
  <1> QED
    BY <1>3, <1>4, <1>5, <1>6, <1>7, <1>8, <1>9, <1>10 DEF Next, Grader

LEMMA HeadAsked ==
  ASSUME Chatter, requests # <<>>
  PROVE  /\ Asked(Head(requests))
         /\ IsTuple(Tail(requests)) /\ \A i \in 1 .. Len(Tail(requests)) : Asked(Tail(requests)[i])
  <1>1. requests \in Seq(Items(requests)) /\ Len(requests) \in Nat \ {0}
    BY EmptySeq DEF Chatter, IsTuple
  <1>2. 1 \in 1 .. Len(requests) /\ Head(requests) = requests[1]
    BY <1>1
  <1>3. Len(Tail(requests)) = Len(requests) - 1
        /\ \A i \in 1 .. Len(Tail(requests)) : Tail(requests)[i] = requests[i + 1]
    BY <1>1, HeadTailProperties
  <1>4. \A i \in 1 .. Len(Tail(requests)) : i + 1 \in 1 .. Len(requests)
    BY <1>1, <1>3
  <1> QED
    BY <1>2, <1>3, <1>4, TupleTail DEF Chatter

LEMMA LinesTail ==
  ASSUME Lines(pipe), pipe # <<>>
  PROVE  Lines(Tail(pipe))
  <1>1. pipe \in Seq(Items(pipe)) /\ Len(pipe) \in Nat \ {0}
    BY EmptySeq DEF Lines, IsTuple
  <1>2. Len(Tail(pipe)) = Len(pipe) - 1
        /\ \A i \in 1 .. Len(Tail(pipe)) : Tail(pipe)[i] = pipe[i + 1]
    BY <1>1, HeadTailProperties
  <1>3. \A i \in 1 .. Len(Tail(pipe)) : i + 1 \in 1 .. Len(pipe)
    BY <1>1, <1>2
  <1> QED
    BY <1>2, <1>3, TupleTail DEF Lines

LEMMA ChatterNext == Typed /\ Tally /\ Chatter /\ Heats /\ [Next]_vars => Chatter'
  <1> SUFFICES ASSUME Typed, Tally, Chatter, Heats, [Next]_vars
               PROVE  Chatter'
    OBVIOUS
  <1>1. ASSUME requests' = requests, Lines(pipe') PROVE Chatter'
    BY <1>1 DEF Chatter
  <1>2. ASSUME requests # <<>>, requests' = Tail(requests), Lines(pipe') PROVE Chatter'
    BY <1>2, HeadAsked DEF Chatter
  <1>3. ASSUME UNCHANGED <<requests, pipe>> PROVE Chatter'
    BY <1>1, <1>3 DEF Chatter
  <1>4. CASE Ask
    <2>1. /\ probe \in 1 .. 15 /\ IsTuple(got) /\ Len(got) # Len(CallsOf(probe))
          /\ Len(got) <= Len(CallsOf(probe)) /\ Len(CallsOf(probe)) \in Nat
      BY <1>4, ProbeTable DEF Ask, Tally, Judging, Answered
    <2>2. Len(got) \in Nat
      BY <2>1, TupleOf DEF IsTuple
    <2> DEFINE r == [probe |-> probe, call |-> Len(got) + 1, got |-> got]
    <2>3. Asked(r)
      BY <2>1, <2>2 DEF Asked
    <2>4. requests' = Append(requests, r) /\ pipe' = pipe
      BY <1>4 DEF Ask
    <2> HIDE DEF r
    <2> DEFINE S == Items(requests) \cup {r}
    <2>5. requests \in Seq(S)
      BY SeqMonotonic DEF Chatter, IsTuple
    <2>6. r \in S
      OBVIOUS
    <2> HIDE DEF S
    <2>7. /\ requests' \in Seq(S) /\ Len(requests) \in Nat /\ Len(requests') = Len(requests) + 1
          /\ \A i \in 1 .. Len(requests) : requests'[i] = requests[i]
          /\ requests'[Len(requests) + 1] = r
      BY <2>4, <2>5, <2>6, AppendProperties, LenProperties
    <2>8. ASSUME NEW i \in 1 .. Len(requests') PROVE Asked(requests'[i])
      <3>1. CASE i = Len(requests) + 1
        BY <2>3, <2>7, <3>1
      <3>2. CASE i # Len(requests) + 1
        <4>1. i \in 1 .. Len(requests)
          BY <2>7, <3>2
        <4> QED
          BY <2>7, <4>1 DEF Chatter
      <3> QED
        BY <3>1, <3>2
    <2> QED
      BY <2>4, <2>7, <2>8, TupleOf DEF Chatter
  <1>5. CASE Receive
    BY <1>1, <1>5, LinesTail DEF Receive, Chatter
  <1>6. CASE Import
    <2>1. CASE UNCHANGED pipe
      BY <1>3, <1>6, <2>1 DEF Import
    <2>2. CASE Write(<<>>, TRUE)
      BY <1>1, <1>6, <2>2, NoLines, WritesLines DEF Import, Chatter
    <2> QED
      BY <1>6, <2>1, <2>2 DEF Import
  <1>7. ASSUME NEW r, Dispatch(r) PROVE Chatter'
    <2>1. requests # <<>> /\ r = Head(requests) /\ requests' = Tail(requests)
      BY <1>7 DEF Dispatch, Serving
    <2>2. Asked(r)
      BY <2>1, HeadAsked
    <2>3. PICK v \in ResultsOf(code, memory, r.probe, r.call, r.got) :
            Write(<<Result(r.probe, r.call, v)>>, Own(r))
      BY <1>7 DEF Dispatch
    <2>4. Sane(Result(r.probe, r.call, v))
      BY <2>2, ResultSane DEF Asked
    <2>5. Lines(<<Result(r.probe, r.call, v)>>)
      BY <2>4, OneLine
    <2>6. Lines(pipe')
      BY <2>3, <2>5, WritesLines DEF Chatter
    <2> QED
      BY <1>2, <2>1, <2>6
  <1>8. ASSUME NEW r, Fail(r) PROVE Chatter'
    <2>1. /\ requests # <<>> /\ requests' = Tail(requests)
          /\ Write(<<Raised(r.probe, r.call)>>, Answerable(r))
      BY <1>8 DEF Fail, Serving
    <2>2. Lines(<<Raised(r.probe, r.call)>>)
      BY OneLine DEF Raised, Sane
    <2>3. Lines(pipe')
      BY <2>1, <2>2, WritesLines DEF Chatter
    <2> QED
      BY <1>2, <2>1, <2>3
  <1>9. CASE EndRace
    <2> DEFINE r == Head(requests)
               line == Result(r.probe, r.call, Cardinality(Through))
    <2>1. requests # <<>> /\ Racing(r) /\ requests' = Tail(requests) /\ Write(<<line>>, Own(r))
      BY <1>9 DEF EndRace, Heats
    <2>2. Sane(line)
      BY <2>1, Finite DEF Racing, Result, ShapeOf, Sane
    <2>3. Lines(<<line>>)
      BY <2>2, OneLine
    <2>4. Lines(pipe')
      BY <2>1, <2>3, WritesLines DEF Chatter
    <2> QED
      BY <1>2, <2>1, <2>4
  <1>10. CASE UNCHANGED vars \/ Learner
    BY <1>3, <1>10 DEF vars, Learner, Save, Saved, Leave, process
  <1>11. CASE (\E s \in Submissions : Begin(s)) \/ Assemble \/ Judge \/ Close \/ Kill \/ Remove
    BY <1>3, <1>11 DEF Begin, Assemble, Judge, Close, Kill, Remove, process
  <1>12. CASE \E runtime \in Runtimes : BeginInProcess(runtime)
    BY <1>3, <1>12 DEF BeginInProcess
  <1>13. CASE Race \/ (\E r \in {requests[i] : i \in DOMAIN requests} : StartRace(r))
    BY <1>3, <1>13 DEF Race, StartRace, process
  <1>14. CASE Exit \/ Crash
    BY <1>3, <1>14 DEF Exit, Crash
  <1> QED
    BY <1>4, <1>5, <1>6, <1>7, <1>8, <1>9, <1>10, <1>11, <1>12, <1>13, <1>14
       DEF Next, Grader, Server

LEMMA HeatsSame ==
  ASSUME Heats, UNCHANGED budget, IsTuple(requests'), NEW next \in Servers, server' = next,
         next = "racing" => server = "racing" /\ code' = code /\ Head(requests') = Head(requests)
                            /\ requests' # <<>>
  PROVE  Heats'
  <1>1. RaceTyped'
    BY RaceTypedNext DEF Heats
  <1>2. Locked'
    BY LockedNext DEF Heats
  <1>3. Fortunes'
    BY DEF Heats, Fortunes, budget, Through
  <1>4. server' = "racing" => requests' # <<>> /\ Racing(Head(requests))' /\ tracker' = Class'
    BY DEF Heats, Racing, Class, budget
  <1> QED
    BY <1>1, <1>2, <1>3, <1>4 DEF Heats

LEMMA RaceHeats ==
  ASSUME Heats, Race
  PROVE  Heats'
  <1>1. PICK t \in Thread : Charge(t)
    BY DEF Race
  <1>2. tracker' = tracker /\ UNCHANGED <<code, server, requests>>
    BY <1>1 DEF Race, battery, process, Charge, Enter, Test, ReadCount, WriteCount
  <1>3. RaceTyped' /\ Locked'
    BY <1>1, RaceTypedNext, LockedNext DEF Heats, RaceNext
  <1>4. Fortunes'
    BY <1>1, GradingAssumption, FortunesNext DEF GradingAssumption, Heats
  <1>5. server' = "racing" => requests' # <<>> /\ Racing(Head(requests))' /\ tracker' = Class'
    BY <1>2 DEF Heats, Racing, Class
  <1> QED
    BY <1>2, <1>3, <1>4, <1>5 DEF Heats

LEMMA StartRaceHeats ==
  ASSUME Typed, Heats, NEW r, StartRace(r)
  PROVE  Heats'
  <1>1. /\ requests # <<>> /\ r = Head(requests) /\ Racing(r) /\ UNCHANGED <<code, requests>>
        /\ tracker' = Class /\ server = "serving"
        /\ used' = 0 /\ lock' = NoThread
        /\ thread' = [t \in Thread |-> "charging"] /\ read' = [t \in Thread |-> 0]
    BY DEF StartRace, Serving, Class, battery
  <1>2. code \in Known /\ code.version # "torn"
    BY <1>1 DEF Typed
  <1>3. Class \in Trackers
    BY <1>2, BudgetSlots DEF Class, Trackers
  <1>4. RaceInit'
    BY <1>1, <1>3 DEF RaceInit
  <1>5. RaceTyped'
    BY <1>4, RaceTypedInit, PTL
  <1>6. Locked'
    BY <1>4, LockedInit, PTL
  <1>7. Fortunes'
    <2>1. (RaceTyped /\ used = 0 /\ thread = [t \in Thread |-> "charging"]
           /\ read = [t \in Thread |-> 0])'
      BY <1>1, <1>5
    <2> QED
      BY <2>1, FortunesInit, PTL
  <1>8. requests' # <<>> /\ Racing(Head(requests))' /\ tracker' = Class'
    BY <1>1 DEF Racing, Class
  <1> QED
    BY <1>1, <1>5, <1>6, <1>7, <1>8 DEF Heats

LEMMA HeatsNext == Typed /\ Chatter /\ Heats /\ Chatter' /\ [Next]_vars => Heats'
  <1> SUFFICES ASSUME Typed, Chatter, Heats, Chatter', [Next]_vars
               PROVE  Heats'
    OBVIOUS
  <1>1. IsTuple(requests')
    BY DEF Chatter
  <1>2. ASSUME UNCHANGED <<code, server, requests, budget>> PROVE Heats'
    BY <1>1, <1>2, HeatsSame DEF Typed, Heats
  <1>3. ASSUME server' \in Servers \ {"racing"}, UNCHANGED budget PROVE Heats'
    BY <1>1, <1>3, HeatsSame
  <1>4. CASE UNCHANGED vars \/ Learner
    BY <1>2, <1>4 DEF vars, Learner, Save, Saved, Leave, battery, process
  <1>5. CASE (\E s \in Submissions : Begin(s)) \/ Remove
    BY <1>2, <1>5 DEF Begin, Remove, battery, process
  <1>6. CASE \E runtime \in Runtimes : BeginInProcess(runtime)
    BY <1>3, <1>6 DEF BeginInProcess, Servers
  <1>7. CASE Assemble
    BY <1>3, <1>7 DEF Assemble, Servers, Typed, battery
  <1>8. CASE Ask
    <2>1. requests # <<>> => Head(requests') = Head(requests)
      BY <1>8, TupleAppend DEF Ask, Chatter
    <2>2. requests' # <<>>
      BY <1>8, TupleAppend DEF Ask, Chatter
    <2> QED
      BY <1>1, <1>8, <2>1, <2>2, HeatsSame DEF Ask, battery, Typed, Heats
  <1>9. CASE Receive \/ Judge
    BY <1>2, <1>9 DEF Receive, Judge, Verdict, process
  <1>10. CASE Close
    <2>1. CASE UNCHANGED server
      BY <1>2, <1>10, <2>1 DEF Close, battery
    <2>2. CASE server' = "none"
      BY <1>3, <1>10, <2>2 DEF Close, Servers
    <2> QED
      BY <1>10, <2>1, <2>2 DEF Close
  <1>11. CASE Kill \/ Exit \/ Crash
    BY <1>3, <1>11 DEF Kill, Exit, Crash, Servers
  <1>12. CASE Import \/ EndRace
    BY <1>3, <1>12 DEF Import, EndRace, Servers
  <1>13. ASSUME NEW r, Dispatch(r) \/ Fail(r) PROVE Heats'
    BY <1>3, <1>13 DEF Dispatch, Fail, Serving, Servers
  <1>14. CASE Race
    BY <1>14, RaceHeats
  <1>15. ASSUME NEW r, StartRace(r) PROVE Heats'
    BY <1>15, StartRaceHeats
  <1> QED
    BY <1>4, <1>5, <1>6, <1>7, <1>8, <1>9, <1>10, <1>11, <1>12, <1>13, <1>14, <1>15
       DEF Next, Grader, Server

LEMMA TalkInit == Init => Talk
  <1> SUFFICES ASSUME Init
               PROVE  Talk
    OBVIOUS
  <1>1. Len(got) = 0 /\ IsTuple(requests) /\ Len(requests) = 0 /\ Lines(pipe)
    BY NoLines DEF Init, Lines
  <1>2. Unpacked /\ Chatter
    BY <1>1 DEF Unpacked, Chatter
  <1>3. RaceTyped /\ Locked /\ Fortunes
    BY RaceTypedInit, LockedInit, FortunesInit DEF Init, RaceInit
  <1>4. Heats
    BY <1>1, <1>3 DEF Init, Heats
  <1> QED
    BY <1>2, <1>4, TypedInit, TallyInit DEF Talk

LEMMA TalkNext == Talk /\ [Next]_vars => Talk'
  BY TypedNext, TallyNext, UnpackedNext, ChatterNext, HeatsNext DEF Talk

LEMMA TalkInvariance == Spec => []Talk
  BY TalkInit, TalkNext, PTL DEF Spec

\* Whatever a learner saves, and whatever the code under test prints, raises
\* or ends: every line of the protocol and every verdict has its type, there is
\* one result for each probe put so far, and nobody counts more charges than
\* there are threads.
THEOREM TypeCorrect == Spec => []TypeOK
  <1>1. ASSUME Talk
        PROVE  TypeOK
    <2>1. used \in 0 .. Cardinality(Thread)
      <3>1. Through \subseteq Thread /\ IsFiniteSet(Thread)
        BY SharedBudgetAssumption DEF SharedBudgetAssumption, Through
      <3>2. Cardinality(Through) <= Cardinality(Thread) /\ Cardinality(Through) \in Nat
            /\ Cardinality(Thread) \in Nat
        BY <3>1, FS_Subset, FS_CardinalityType
      <3>3. used \in Nat /\ used <= Cardinality(Through)
        BY <1>1 DEF Talk, Heats, RaceTyped, Fortunes
      <3>4. PICK n, m \in Nat : n = Cardinality(Through) /\ m = Cardinality(Thread)
        BY <3>2
      <3>5. used \in 0 .. m
        BY <3>2, <3>3, <3>4
      <3> QED
        BY <3>4, <3>5
    <2>2. probe \in 0 .. (Len(Probes) + 1)
      BY <1>1, ProbeTable DEF Talk, Tally
    <2>3. Typed /\ Tally /\ RaceTyped
      BY <1>1 DEF Talk, Heats
    <2> QED
      BY <2>1, <2>2, <2>3 DEF Typed, Tally, RaceTyped, Ats, Servers, TypeOK
  <1> QED
    BY <1>1, TalkInvariance, PTL

\* probe_budget_used_racing: in a grade, too, the reference tracker lets no more
\* threads through than the limit of the probe and counts every one it lets
\* through.
THEOREM ProbeLimitHolds == Spec => []WithinLimit
  <1>1. Talk => WithinLimit
    BY DEF Talk, Heats, Locked, WithinLimit
  <1> QED
    BY <1>1, TalkInvariance, PTL

-----------------------------------------------------------------------------
(* The battery is put to the same harnesses wherever they run.              *)

LEMMA SameHarnesses ==
  /\ B!Challenges = Challenges /\ B!Lab = Lab /\ B!Slot = Slot /\ B!Reference = Reference
  /\ \A c : B!SlotsOf(c) = SlotsOf(c)
  /\ B!Fresh = Fresh
  <1>1. B!Challenges = Challenges
    BY DEF B!Challenges, Challenges, B!Override, Override
  <1>2. B!Lab = Lab /\ B!Slot = Slot
    BY <1>1 DEF B!Lab, Lab, B!Slot, Slot
  <1>3. B!Reference = Reference
    BY <1>2 DEF B!Reference, Reference
  <1>4. B!External = External
    BY <1>3 DEF B!External, External
  <1>5. \A c : B!Slots(c) = Slots(c)
    BY <1>1, <1>2, <1>3 DEF B!Slots, Slots
  <1>6. \A c : B!SlotsOf(c) = SlotsOf(c)
    BY <1>4, <1>5 DEF B!SlotsOf, SlotsOf
  <1> QED
    BY <1>1, <1>2, <1>3, <1>6 DEF B!Fresh, Fresh

LEMMA SameProbes ==
  /\ B!Probes = Probes
  /\ \A p : B!Inv(p) = Inv(p) /\ B!CallsOf(p) = CallsOf(p)
  /\ \A m : B!ShapeOf(m) = ShapeOf(m)
  /\ \A p, n, v : B!Result(p, n, v) = Result(p, n, v)
  <1>1. B!Probes = Probes
    BY DEF B!Probes, Probes
  <1>2. \A p : B!Inv(p) = Inv(p) /\ B!CallsOf(p) = CallsOf(p)
    BY <1>1 DEF B!Inv, Inv, B!CallsOf, CallsOf
  <1>3. \A m : B!ShapeOf(m) = ShapeOf(m)
    BY DEF B!ShapeOf, ShapeOf
  <1>4. \A p, n, v : B!Result(p, n, v) = Result(p, n, v)
    BY <1>2, <1>3 DEF B!Result, Result
  <1> QED
    BY <1>1, <1>2, <1>3, <1>4

LEMMA SameQuestions ==
  /\ \A ns, act : B!Cap(ns, act) = Cap(ns, act)
  /\ B!IssueRead = IssueRead /\ B!Comment = Comment /\ B!Delete = Delete
  /\ \A inv : /\ B!Plan(inv) = Plan(inv) /\ B!MaxActions(inv) = MaxActions(inv)
              /\ B!Question(inv) = Question(inv)
              /\ B!Approved(inv) = Approved(inv) /\ B!Presented(inv) = Presented(inv)
  <1>1. \A ns, act : B!Cap(ns, act) = Cap(ns, act)
    BY DEF B!Cap, Cap
  <1>2. B!IssueRead = IssueRead /\ B!Comment = Comment /\ B!Delete = Delete
    BY DEF B!Cap, Cap, B!IssueRead, IssueRead, B!Comment, Comment, B!Delete, Delete
  <1>3. B!Plans = Plans
    BY DEF B!Plans, Plans, B!Reads, Reads, B!Issues, Issues, B!Cap, Cap, B!IssueRead, IssueRead,
           B!Step, Step
  <1>4. \A inv : B!Plan(inv) = Plan(inv)
    BY <1>3 DEF B!Plan, Plan
  <1>5. \A inv : B!MaxActions(inv) = MaxActions(inv) /\ B!Question(inv) = Question(inv)
    BY <1>2 DEF B!MaxActions, MaxActions, B!Question, Question, B!Cap, Cap
  <1>6. \A inv : B!Approved(inv) = Approved(inv) /\ B!Presented(inv) = Presented(inv)
    BY DEF B!Approved, Approved, B!Presented, Presented, B!Action, Action
  <1> QED
    BY <1>1, <1>2, <1>4, <1>5, <1>6

LEMMA SameMethods ==
  /\ \A s, cached, caps, op, revoked :
       B!Allows(s, cached, caps, op, revoked) = Allows(s, cached, caps, op, revoked)
  /\ \A s, cached, caps, op : B!Cached(s, cached, caps, op) = Cached(s, cached, caps, op)
  /\ \A s, a : B!Binding(s, a) = Binding(s, a)
  /\ \A s, g, a : B!Validates(s, g, a) = Validates(s, g, a)
  /\ \A s, secret : B!CompileContext(s, secret) = CompileContext(s, secret)
  <1>1. \A class : B!Rebuilt(class) = Rebuilt(class)
    BY DEF B!Rebuilt, Rebuilt
  <1>2. \A ns, act : B!Cap(ns, act) = Cap(ns, act)
    BY DEF B!Cap, Cap
  <1>3. \A s, cached, caps, op, revoked :
       B!Allows(s, cached, caps, op, revoked) = Allows(s, cached, caps, op, revoked)
    <2> TAKE s, cached, caps, op, revoked
    <2> QED
      BY <1>1, <1>2 DEF B!Allows, Allows
  <1>4. \A s, cached, caps, op : B!Cached(s, cached, caps, op) = Cached(s, cached, caps, op)
    BY DEF B!Cached, Cached
  <1>5. \A s, a : B!Binding(s, a) = Binding(s, a)
    BY DEF B!Binding, Binding
  <1>6. \A s, g, a : B!Validates(s, g, a) = Validates(s, g, a)
    BY <1>5 DEF B!Validates, Validates
  <1>7. \A s, secret : B!CompileContext(s, secret) = CompileContext(s, secret)
    BY <1>1 DEF B!CompileContext, CompileContext
  <1> QED
    BY <1>3, <1>4, <1>5, <1>6, <1>7

LEMMA SameCardinality ==
  ASSUME NEW S
  PROVE  B!Cardinality(S) = Cardinality(S)
  <1>1. B!IsFiniteSet(S) = IsFiniteSet(S)
    BY DEF B!IsFiniteSet, IsFiniteSet
  <1> QED
    BY <1>1 DEF B!Cardinality, Cardinality

\* The steps of a plan that run, and what a run of them comes to.
Ran(s, plan, allowed, charged) ==
  IF ~allowed THEN {}
  ELSE IF s.executor = "authorizes once"
       THEN {i \in DOMAIN plan.steps : plan.steps[i].agent = "root"}
  ELSE charged

Deeds(plan, is) == {plan.steps[i].what : i \in is}

Delegated(s, plan, run) ==
  IF s.executor = "authorizes once" /\ run # {}
     /\ {i \in DOMAIN plan.steps : plan.steps[i].agent = "root"} # DOMAIN plan.steps THEN 1 ELSE 0

Outcome(s, plan, run, size) ==
  [executed |-> Deeds(plan, run)
                  \cup (IF Delegated(s, plan, run) = 1 THEN {"delegate"} ELSE {}),
   authorized |-> IF s.executor = "authorizes once" THEN Deeds(plan, run \cap {1})
                  ELSE Deeds(plan, run),
   count |-> size + Delegated(s, plan, run),
   recorded |-> IF s.executor = "authorizes once" THEN 0 ELSE size]

LEMMA PlanRuns ==
  ASSUME NEW s, NEW cached, NEW plan, NEW max
  PROVE  LET run == Ran(s, plan, Allows(s, cached, plan.caps, plan.op, {}),
                        Charged(s, plan.steps, max))
         IN RunPlan(s, cached, plan, max) = Outcome(s, plan, run, Cardinality(run))
  BY DEF RunPlan, Ran, Outcome, Deeds, Delegated

LEMMA SamePlans ==
  /\ \A s, cached, plan, max : B!RunPlan(s, cached, plan, max) = RunPlan(s, cached, plan, max)
  /\ \A plan, max : B!ExternalRunPlan(plan, max) = ExternalRunPlan(plan, max)
  <1>1. \A s, steps, max : B!Charged(s, steps, max) = Charged(s, steps, max)
    BY SameCardinality DEF B!Charged, Charged
  <1>2. \A s, cached, plan, max : B!RunPlan(s, cached, plan, max) = RunPlan(s, cached, plan, max)
    <2> TAKE s, cached, plan, max
    <2> DEFINE run == Ran(s, plan, Allows(s, cached, plan.caps, plan.op, {}),
                          Charged(s, plan.steps, max))
               same == Ran(s, plan, B!Allows(s, cached, plan.caps, plan.op, {}),
                           B!Charged(s, plan.steps, max))
    <2>1. RunPlan(s, cached, plan, max) = Outcome(s, plan, run, Cardinality(run))
      BY PlanRuns
    <2>2. B!RunPlan(s, cached, plan, max) = Outcome(s, plan, same, B!Cardinality(same))
      BY DEF B!RunPlan, Ran, Outcome, Deeds, Delegated
    <2>3. same = run
      BY <1>1, SameMethods
    <2> HIDE DEF same, run
    <2> QED
      BY <2>1, <2>2, <2>3, SameCardinality
  <1>3. \A plan, max : B!ExternalRunPlan(plan, max) = ExternalRunPlan(plan, max)
    BY SameCardinality DEF B!ExternalRunPlan, ExternalRunPlan
  <1> QED
    BY <1>2, <1>3

LEMMA SameResults ==
  ASSUME NEW c, NEW m, NEW p, NEW n, NEW g
  PROVE  B!ResultsOf(c, m, p, n, g) = ResultsOf(c, m, p, n, g)
  BY SameHarnesses, SameProbes, SameQuestions, SameMethods, SamePlans
     DEF B!ResultsOf, ResultsOf, B!DeriveChild, DeriveChild, B!SkillGrant, SkillGrant,
         B!Attributed, Attributed, B!Recall, Recall, B!AssignedTrust, AssignedTrust,
         B!RaceOutcomes, RaceOutcomes

LEMMA SameMemory ==
  ASSUME NEW c, NEW m, NEW p, NEW n
  PROVE  B!Remembers(c, m, p, n) = Remembers(c, m, p, n)
  BY SameHarnesses, SameProbes, SameQuestions, SameMethods DEF B!Remembers, Remembers

LEMMA SameVerdicts ==
  ASSUME NEW p, NEW g
  PROVE  B!Holds(p, g) = Holds(p, g)
  BY SameProbes, SameQuestions DEF B!Holds, Holds

-----------------------------------------------------------------------------
(* One call at a time: where nothing is printed, the wire holds the call    *)
(* that is awaited, or its answer, or, once the server is dead, nothing.    *)

Call == [probe |-> probe, call |-> Len(got) + 1, got |-> got]
Answers(line) ==
  \/ line.shape = "error" /\ raised
  \/ line.shape = ShapeOf(CallsOf(probe)[Len(got) + 1])

Waits ==
  /\ pipe = <<>>
  /\ requests = <<>> \/ server = "dead" \/ (at = "done" /\ server = "none")
Lost == pipe = <<>> /\ server = "dead"
Pending == pipe = <<>> /\ requests = <<Call>>
Replied == requests = <<>> /\ \E line : pipe = <<line>> /\ Answers(line)

Wire ==
  strays = 0 =>
    /\ at # "awaiting" => Waits
    /\ at \in {"idle", "assembling"} => requests = <<>>
    /\ at = "awaiting" => Lost \/ Pending \/ Replied

LEMMA WritesAlone ==
  ASSUME Typed, Lines(pipe), NEW lines, IsTuple(lines), NEW mayPrint, Write(lines, mayPrint),
         strays' = 0
  PROVE  /\ strays = 0
         /\ pipe = <<>> => pipe' = lines
         /\ lines = <<>> => pipe' = pipe
  <1>1. PICK n \in 0 .. (IF mayPrint /\ LearnersCode THEN MaxStray - strays ELSE 0) :
          \E shape \in [1 .. n -> Printable] :
            /\ strays' = strays + n
            /\ pipe' = pipe \o [i \in 1 .. n |-> Printed(shape[i])] \o lines
    BY DEF Write
  <1>2. PICK shape \in [1 .. n -> Printable] :
          /\ strays' = strays + n
          /\ pipe' = pipe \o [i \in 1 .. n |-> Printed(shape[i])] \o lines
    BY <1>1
  <1>3. strays \in Nat /\ n \in Nat
    BY <1>1, GradingAssumption DEF GradingAssumption, Typed
  <1>4. strays = 0 /\ n = 0
    BY <1>2, <1>3
  <1> DEFINE S == Items(pipe) \cup Items(lines)
             printed == [i \in 1 .. n |-> Printed(shape[i])]
  <1>5. printed = <<>>
    BY <1>4
  <1>6. pipe \in Seq(S) /\ lines \in Seq(S)
    BY SeqMonotonic DEF Lines, IsTuple
  <1> HIDE DEF S
  <1>7. pipe \o <<>> = pipe /\ lines = <<>> \o lines
    BY <1>6
  <1> QED
    BY <1>2, <1>4, <1>5, <1>7

\* The request at hand is the call that is awaited.
LEMMA Served ==
  ASSUME Wire, strays = 0, server \in {"serving", "racing"}, requests # <<>>
  PROVE  at = "awaiting" /\ Pending /\ Head(requests) = Call /\ Tail(requests) = <<>>
  <1>1. at = "awaiting" /\ Pending
    BY DEF Wire, Waits, Lost, Replied
  <1> QED
    BY <1>1 DEF Pending

\* A line written in answer to it is the reply.
LEMMA Replies ==
  ASSUME Typed, Chatter, Wire, server \in {"serving", "racing"}, requests # <<>>,
         NEW line,
         \/ line.shape = "error" /\ raised'
         \/ line.shape = ShapeOf(CallsOf(Call.probe)[Call.call]),
         NEW mayPrint, Write(<<line>>, mayPrint), strays' = 0,
         requests' = Tail(requests), at' = at, UNCHANGED <<probe, got>>
  PROVE  Wire' /\ Pending /\ pipe' = <<line>> /\ Call = Head(requests)
  <1>1. IsTuple(<<line>>)
    <2>1. <<line>> \in Seq({line})
      OBVIOUS
    <2> QED
      BY <2>1, TupleOf
  <1>2. strays = 0 /\ (pipe = <<>> => pipe' = <<line>>)
    BY <1>1, WritesAlone DEF Chatter
  <1>3. at = "awaiting" /\ Pending /\ Head(requests) = Call /\ requests' = <<>>
    BY <1>2, Served
  <1>4. pipe' = <<line>>
    BY <1>2, <1>3 DEF Pending
  <1>5. Answers(line)'
    BY DEF Answers, Call
  <1>6. Replied'
    BY <1>3, <1>4, <1>5 DEF Replied
  <1> QED
    BY <1>3, <1>4, <1>6 DEF Wire

LEMMA GraderWire ==
  ASSUME Tally, Chatter, Wire, Grader, strays' = 0
  PROVE  Wire'
  <1>1. strays = 0
    BY DEF Grader, Assemble, Ask, Receive, Judge, Close, Kill, Remove, process
  <1>2. CASE Assemble
    BY <1>1, <1>2 DEF Assemble, Load, Wire, Waits
  <1>3. CASE Ask
    <2>1. Waits /\ at' = "awaiting" /\ requests' = Append(requests, Call)
          /\ UNCHANGED <<probe, got, pipe, server>>
      BY <1>1, <1>3 DEF Ask, Wire, Call, battery
    <2>2. CASE requests = <<>>
      <3>1. requests' = <<Call>>
        BY <2>1, <2>2
      <3>2. Pending'
        BY <2>1, <3>1 DEF Pending, Waits, Call
      <3> QED
        BY <2>1, <3>2 DEF Wire
    <2>3. CASE server = "dead"
      BY <2>1, <2>3 DEF Wire, Waits, Lost
    <2>4. at = "calling"
      BY <1>3 DEF Ask
    <2> QED
      BY <2>1, <2>2, <2>3, <2>4 DEF Waits
  <1>4. CASE Receive
    <2>1. at = "awaiting" /\ at' = "calling" /\ UNCHANGED <<requests, server>>
          /\ (Lost \/ Pending \/ Replied)
      BY <1>1, <1>4 DEF Receive, Wire
    <2>2. CASE pipe = <<>>
      <3>1. server = "dead" /\ pipe' = <<>>
        BY <1>4, <2>2 DEF Receive
      <3> QED
        BY <2>1, <3>1 DEF Wire, Waits
    <2>3. CASE pipe # <<>>
      <3>1. PICK line : requests = <<>> /\ pipe = <<line>>
        BY <2>1, <2>3 DEF Lost, Pending, Replied
      <3>2. pipe' = Tail(pipe)
        BY <1>4, <2>3 DEF Receive
      <3>3. pipe' = <<>>
        BY <3>1, <3>2
      <3> QED
        BY <2>1, <3>1, <3>3 DEF Wire, Waits
    <2> QED
      BY <2>2, <2>3
  <1>5. CASE Judge \/ Close \/ Kill \/ Remove
    BY <1>1, <1>5 DEF Judge, Close, Kill, Remove, Verdict, Wire, Waits, grader, process
  <1> QED
    BY <1>2, <1>3, <1>4, <1>5 DEF Grader

LEMMA ServerWire ==
  ASSUME Typed, Chatter, Heats, Wire, strays' = 0,
         \/ Server \/ Exit \/ Crash
         \/ \E r \in {requests[i] : i \in DOMAIN requests} : Fail(r)
  PROVE  Wire'
  <1>1. CASE Import
    <2>1. strays = 0 /\ pipe' = pipe
      <3>1. IsTuple(<<>>)
        BY TupleOf, EmptySeq
      <3> QED
        BY <1>1, <3>1, WritesAlone DEF Import, Chatter
    <2>2. server = "loading" /\ server' \in {"dead", "serving"}
          /\ UNCHANGED <<battery, at, requests, raised>>
      BY <1>1 DEF Import, grader
    <2>3. UNCHANGED <<probe, got>>
      BY <2>2 DEF battery
    <2>4. UNCHANGED Call /\ (Replied => Replied')
      BY <2>1, <2>2, <2>3 DEF Call, Replied, Answers
    <2> QED
      BY <2>1, <2>2, <2>4 DEF Wire, Waits, Lost, Pending
  <1>2. CASE Race
    BY <1>2 DEF Race, Wire, Waits, Lost, Pending, Replied, Answers, Call, battery, process, grader
  <1>3. CASE EndRace
    <2> DEFINE r == Head(requests)
               line == Result(r.probe, r.call, Cardinality(Through))
    <2>1. /\ server = "racing" /\ requests # <<>> /\ requests' = Tail(requests)
          /\ Write(<<line>>, Own(r))
          /\ at' = at /\ UNCHANGED <<probe, got>>
      BY <1>3 DEF EndRace, Heats, battery, grader
    <2>2. line.shape = ShapeOf(CallsOf(r.probe)[r.call])
      BY DEF Result
    <2> HIDE DEF line
    <2>3. strays = 0
      BY <2>1, PrintsBounded, GradingAssumption DEF GradingAssumption, Typed
    <2>4. r = Call
      BY <2>1, <2>3, Served
    <2> QED
      BY <2>1, <2>2, <2>4, Replies
  <1>4. ASSUME NEW r, Dispatch(r)
        PROVE  Wire'
    <2>1. PICK v : Write(<<Result(r.probe, r.call, v)>>, Own(r))
      BY <1>4 DEF Dispatch
    <2> DEFINE line == Result(r.probe, r.call, v)
    <2>2. line.shape = ShapeOf(CallsOf(r.probe)[r.call])
      BY DEF Result
    <2>3. Write(<<line>>, Own(r))
      BY <2>1
    <2> HIDE DEF line
    <2>4. /\ server = "serving" /\ requests # <<>> /\ r = Head(requests)
          /\ requests' = Tail(requests) /\ at' = at /\ UNCHANGED <<probe, got>>
      BY <1>4 DEF Dispatch, Serving, grader
    <2>5. strays = 0
      BY <2>3, PrintsBounded, GradingAssumption DEF GradingAssumption, Typed
    <2>6. r = Call
      BY <2>4, <2>5, Served
    <2> QED
      BY <2>2, <2>3, <2>4, <2>6, Replies
  <1>5. ASSUME NEW r, Fail(r)
        PROVE  Wire'
    <2> DEFINE line == Raised(r.probe, r.call)
    <2>1. line.shape = "error" /\ raised' /\ Write(<<line>>, Answerable(r))
      BY <1>5 DEF Fail, Raised
    <2> HIDE DEF line
    <2>3. PICK mayPrint : Write(<<line>>, mayPrint)
      BY <2>1
    <2>2. /\ server = "serving" /\ requests # <<>>
          /\ requests' = Tail(requests) /\ at' = at /\ UNCHANGED <<probe, got>>
      BY <1>5 DEF Fail, Serving, battery, grader
    <2> QED
      BY <2>1, <2>2, <2>3, Replies
  <1>6. ASSUME NEW r, StartRace(r)
        PROVE  Wire'
    BY <1>6 DEF StartRace, Serving, Wire, Waits, Lost, Pending, Replied, Answers, Call, battery,
                grader
  <1>7. CASE Exit \/ Crash
    BY <1>7 DEF Exit, Crash, Wire, Waits, Lost, Pending, Replied, Answers, Call, battery, grader
  <1> QED
    BY <1>1, <1>2, <1>3, <1>4, <1>5, <1>6, <1>7 DEF Server

LEMMA WireInit == Init => Wire
  BY DEF Init, Wire, Waits

LEMMA WireNext == Talk /\ Wire /\ [Next]_vars => Wire'
  <1> SUFFICES ASSUME Talk, Wire, [Next]_vars, strays' = 0
               PROVE  Wire'
    BY DEF Wire
  <1>1. Typed /\ Tally /\ Chatter /\ Heats
    BY DEF Talk
  <1>2. CASE Grader
    BY <1>1, <1>2, GraderWire
  <1>3. CASE \/ Server \/ Exit \/ Crash
             \/ \E r \in {requests[i] : i \in DOMAIN requests} : Fail(r)
    BY <1>1, <1>3, ServerWire
  <1>4. CASE UNCHANGED vars \/ Learner
    BY <1>4 DEF vars, Learner, Save, Saved, Leave, Wire, Waits, Lost, Pending, Replied, Answers,
                Call, battery, grader, process
  <1>5. CASE \E s \in Submissions : Begin(s)
    BY <1>5 DEF Begin, Wire, Waits, process
  <1>6. CASE \E runtime \in Runtimes : BeginInProcess(runtime)
    BY <1>6 DEF BeginInProcess, Load, Wire, Waits
  <1> QED
    BY <1>2, <1>3, <1>4, <1>5, <1>6 DEF Next

\* What a probe error is due to.
Fault == raised \/ code.version = "torn"

\* A server that dies on a grader was ended by the code under test, or had
\* half a file to load.
Blame == at \in {"calling", "awaiting"} /\ server = "dead" => Fault

LEMMA BlameNext == Typed /\ Blame /\ [Next]_vars => Blame'
  <1> SUFFICES ASSUME Typed, Blame, [Next]_vars
               PROVE  Blame'
    OBVIOUS
  <1>1. CASE UNCHANGED vars \/ Learner \/ (\E s \in Submissions : Begin(s))
    BY <1>1 DEF vars, Learner, Save, Saved, Leave, Begin, Blame, Fault, battery, grader, process
  <1>2. CASE (\E runtime \in Runtimes : BeginInProcess(runtime)) \/ Assemble
    BY <1>2 DEF BeginInProcess, Assemble, Blame
  <1>3. CASE Ask \/ Receive \/ Judge \/ Close \/ Kill \/ Remove
    BY <1>3 DEF Ask, Receive, Judge, Close, Kill, Remove, Verdict, Blame, Fault, battery, grader,
                process
  <1>4. CASE Import \/ Exit \/ Crash \/ Race \/ EndRace
    BY <1>4 DEF Import, Exit, Crash, Race, EndRace, Blame, Fault, battery, grader, process
  <1>5. ASSUME NEW r, Dispatch(r) \/ Fail(r) \/ StartRace(r) PROVE Blame'
    BY <1>5 DEF Dispatch, Fail, StartRace, Serving, Blame, Fault, battery, grader
  <1> QED
    BY <1>1, <1>2, <1>3, <1>4, <1>5 DEF Next, Grader, Server

-----------------------------------------------------------------------------
(* Every step is a step of the battery.                                     *)

Steps ==
  (\E c \in B!Codes : B!Start(c)) \/ B!Answer \/ B!Judge \/ (B!Error /\ Fault)

LEMMA Stutters ==
  ASSUME UNCHANGED <<battery, pipe>>
  PROVE  UNCHANGED B!vars
  BY DEF battery, B!vars, Heard

LEMMA LoadImplements ==
  ASSUME NEW c \in B!Codes, Load(c), probe = 0, UNCHANGED pipe
  PROVE  Steps
  BY SameHarnesses DEF Load, B!Start, Heard, Steps

LEMMA VerdictImplements ==
  ASSUME NEW v, Verdict(v), Heard = got, pipe' = <<>>
  PROVE  B!Verdict(v)
  BY DEF Verdict, B!Verdict, Heard

LEMMA JudgeImplements ==
  ASSUME Judge, pipe = <<>>
  PROVE  Steps
  <1>1. Heard = got /\ pipe' = <<>>
    BY DEF Judge, Heard, process
  <1>2. B!Verdict(Holds(probe, got))
    BY <1>1, VerdictImplements DEF Judge
  <1>3. B!Judge
    BY <1>1, <1>2, SameProbes, SameVerdicts DEF Judge, Answered, Judging, B!Judge, B!Judging
  <1> QED
    BY <1>3 DEF Steps

LEMMA ErrorImplements ==
  ASSUME Judging, Verdict(FALSE), Heard = got, pipe' = <<>>, Fault
  PROVE  Steps
  <1>1. B!Verdict(FALSE)
    BY VerdictImplements
  <1>2. B!Error
    BY <1>1, SameProbes DEF Judging, B!Judging, B!Error
  <1> QED
    BY <1>2 DEF Steps

LEMMA ReceiveImplements ==
  ASSUME Tally, Wire, Blame, strays = 0, Receive
  PROVE  [Steps]_(B!vars)
  <1>1. Judging /\ (Lost \/ Pending \/ Replied)
    BY DEF Tally, Wire, Receive
  <1>2. CASE pipe = <<>>
    <2>1. Verdict(FALSE) /\ pipe' = <<>> /\ Fault
      BY <1>2 DEF Receive, Blame
    <2> QED
      BY <1>1, <1>2, <2>1, ErrorImplements DEF Heard
  <1>3. CASE pipe # <<>>
    <2> DEFINE method == CallsOf(probe)[Len(got) + 1]
    <2>1. PICK line : /\ pipe = <<line>>
                      /\ (line.shape = "error" /\ raised) \/ line.shape = ShapeOf(method)
      BY <1>1, <1>3 DEF Lost, Pending, Replied, Answers
    <2>2. pipe' = Tail(pipe) /\ Head(pipe) = line /\ Tail(pipe) = <<>>
      BY <1>3, <2>1 DEF Receive
    <2>3. method \in Methods
      <3>1. Len(got) < Len(CallsOf(probe)) /\ IsTuple(got)
        BY DEF Tally, Receive
      <3>2. probe \in 1 .. 15
        BY <1>1, ProbeTable DEF Judging
      <3>3. Len(got) + 1 \in 1 .. Len(CallsOf(probe))
        BY <3>1, <3>2, CallComes
      <3> QED
        BY <3>2, <3>3, ProbeTable
    <2>4. ShapeOf(method) # "error"
      BY <2>3, Shapes
    <2>5. CASE line.shape = "error"
      <3>1. ~Unpacks(method, line)
        BY <2>4, <2>5 DEF Unpacks
      <3>2. Verdict(FALSE)
        BY <1>3, <2>2, <3>1 DEF Receive
      <3>3. Heard = got
        BY <2>2, <2>5 DEF Heard
      <3> QED
        BY <1>1, <2>1, <2>2, <2>4, <2>5, <3>2, <3>3, ErrorImplements DEF Fault
    <2>6. CASE line.shape = ShapeOf(method)
      <3>1. Unpacks(method, line)
        BY <2>6 DEF Unpacks
      <3>2. got' = Append(got, line) /\ UNCHANGED <<code, probe, results, memory>>
        BY <1>3, <2>2, <3>1 DEF Receive
      <3>3. Heard = Append(got, line) /\ Heard' = got'
        BY <1>3, <2>2, <2>4, <2>6 DEF Heard
      <3> QED
        BY <3>2, <3>3 DEF B!vars
    <2> QED
      BY <2>1, <2>5, <2>6
  <1> QED
    BY <1>2, <1>3

\* An answer written is an answer given.
LEMMA AnswerImplements ==
  ASSUME Tally, code.version # "torn", at = "awaiting",
         pipe = <<>>, NEW v \in ResultsOf(code, memory, probe, Len(got) + 1, got),
         pipe' = <<Result(probe, Len(got) + 1, v)>>,
         memory' = Remembers(code, memory, probe, Len(got) + 1),
         UNCHANGED <<code, probe, got, results>>
  PROVE  Steps
  <1> DEFINE n == Len(got) + 1
             line == Result(probe, n, v)
  <1>1. Judging /\ Len(got) + 1 \in 1 .. Len(CallsOf(probe)) /\ probe \in 1 .. 15
    <2>1. Judging /\ Len(got) < Len(CallsOf(probe)) /\ IsTuple(got)
      BY DEF Tally
    <2>2. probe \in 1 .. 15
      BY <2>1, ProbeTable DEF Judging
    <2>3. Len(got) + 1 \in 1 .. Len(CallsOf(probe))
      BY <2>1, <2>2, CallComes
    <2> QED
      BY <2>1, <2>2, <2>3
  <1>2. line.shape # "error"
    BY <1>1, ProbeTable, Shapes DEF Result
  <1>3. pipe' # <<>> /\ Head(pipe') = line
    BY DEF line
  <1> HIDE DEF line
  <1>4. Heard = got /\ Heard' = Append(got, line)
    BY <1>2, <1>3 DEF Heard
  <1>5. B!Judging /\ n <= Len(B!CallsOf(probe))
    BY <1>1, SameProbes DEF Judging, B!Judging
  <1>6. /\ v \in B!ResultsOf(code, memory, probe, n, got)
        /\ memory' = B!Remembers(code, memory, probe, n)
        /\ line = B!Result(probe, n, v)
    BY SameResults, SameMemory, SameProbes DEF line
  <1>7. B!Answer
    BY <1>4, <1>5, <1>6 DEF B!Answer
  <1> QED
    BY <1>7 DEF Steps

LEMMA DispatchImplements ==
  ASSUME Talk, Wire, Wire', NEW r, Dispatch(r), strays' = 0
  PROVE  Steps
  <1>1. PICK v \in ResultsOf(code, memory, r.probe, r.call, r.got) :
          Write(<<Result(r.probe, r.call, v)>>, Own(r))
    BY DEF Dispatch
  <1> DEFINE line == Result(r.probe, r.call, v)
  <1>2. line.shape = ShapeOf(CallsOf(r.probe)[r.call]) /\ Write(<<line>>, Own(r))
    BY <1>1 DEF Result
  <1> HIDE DEF line
  <1>3. /\ server = "serving" /\ requests # <<>> /\ r = Head(requests)
        /\ requests' = Tail(requests) /\ at' = at /\ UNCHANGED <<code, probe, got, results>>
        /\ memory' = Remembers(code, memory, r.probe, r.call)
    BY DEF Dispatch, Serving, grader
  <1>4. Typed /\ Tally /\ Chatter
    BY DEF Talk
  <1>5. strays = 0
    BY <1>2, <1>4, PrintsBounded, GradingAssumption DEF GradingAssumption, Typed
  <1>6. at = "awaiting" /\ r = Call
    BY <1>3, <1>5, Served
  <1>7. Pending /\ pipe' = <<line>>
    BY <1>2, <1>3, <1>4, <1>6, Replies
  <1>8. r.probe = probe /\ r.call = Len(got) + 1 /\ r.got = got
    BY <1>6 DEF Call
  <1>9. code.version # "torn"
    BY <1>3, <1>4 DEF Typed
  <1> QED
    BY <1>1, <1>3, <1>4, <1>6, <1>7, <1>8, <1>9, AnswerImplements DEF Pending, line

LEMMA EndRaceImplements ==
  ASSUME Talk, Wire, Wire', EndRace, strays' = 0
  PROVE  Steps
  <1> DEFINE r == Head(requests)
             v == Cardinality(Through)
             line == Result(r.probe, r.call, v)
  <1>1. Typed /\ Tally /\ Chatter /\ Heats
    BY DEF Talk
  <1>2. /\ server = "racing" /\ requests # <<>> /\ Raced
        /\ requests' = Tail(requests) /\ at' = at /\ UNCHANGED <<code, probe, got, results, memory>>
        /\ Write(<<line>>, Own(r))
        /\ Racing(r) /\ tracker = Class
    BY <1>1 DEF EndRace, Heats, battery, grader
  <1>3. line.shape = ShapeOf(CallsOf(r.probe)[r.call])
    BY DEF Result
  <1> HIDE DEF line
  <1>4. strays = 0
    BY <1>1, <1>2, PrintsBounded, GradingAssumption DEF GradingAssumption, Typed
  <1>5. at = "awaiting" /\ r = Call
    BY <1>2, <1>4, Served
  <1>6. Pending /\ pipe' = <<line>>
    BY <1>1, <1>2, <1>3, <1>5, Replies
  <1>7. r.probe = probe /\ r.call = Len(got) + 1
    BY <1>5 DEF Call
  <1>8. code.version # "torn" /\ code \in Known
    BY <1>1, <1>2 DEF Typed
  <1> HIDE DEF r
  <1>9. CallsOf(probe)[Len(got) + 1] = "budget_used_racing" /\ code.lab # "external"
    BY <1>2, <1>7 DEF Racing
  <1>10. v \in RaceOutcomes(SlotsOf(code), 1, Concurrent)
    <2>1. /\ tracker = "atomic" => v = 1
          /\ v \in 1 .. Concurrent
          /\ tracker = "per agent" => v = Concurrent
      BY <1>1, <1>2, RaceComesTo, GradingAssumption DEF GradingAssumption, Heats
    <2>2. SlotsOf(code).budget \in {"builtin", "racy", "per agent"}
      BY <1>8, BudgetSlots
    <2> HIDE DEF v
    <2> QED
      BY <1>2, <2>1, <2>2 DEF Class, RaceOutcomes
  <1>11. v \in ResultsOf(code, memory, probe, Len(got) + 1, got)
    BY <1>9, <1>10 DEF ResultsOf
  <1>12. memory' = Remembers(code, memory, probe, Len(got) + 1)
    BY <1>2, <1>9 DEF Remembers
  <1> HIDE DEF v
  <1> QED
    BY <1>1, <1>2, <1>5, <1>6, <1>7, <1>8, <1>11, <1>12, AnswerImplements DEF Pending, line

LEMMA FailImplements ==
  ASSUME Talk, Wire, NEW r, Fail(r), strays' = 0
  PROVE  UNCHANGED B!vars
  <1> DEFINE line == Raised(r.probe, r.call)
  <1>1. line.shape = "error" /\ raised' /\ Write(<<line>>, Answerable(r))
    BY DEF Fail, Raised
  <1> HIDE DEF line
  <1>2. PICK mayPrint : Write(<<line>>, mayPrint)
    BY <1>1
  <1>3. /\ server = "serving" /\ requests # <<>>
        /\ requests' = Tail(requests) /\ at' = at /\ UNCHANGED <<code, probe, got, results, memory>>
    BY DEF Fail, Serving, battery, grader
  <1>4. Typed /\ Chatter
    BY DEF Talk
  <1>5. Pending /\ pipe' = <<line>>
    BY <1>1, <1>2, <1>3, <1>4, Replies
  <1>6. Heard = got /\ Heard' = got'
    BY <1>1, <1>5 DEF Heard, Pending
  <1> QED
    BY <1>3, <1>6 DEF B!vars

LEMMA StepImplements ==
  ASSUME Talk, Wire, Wire', Blame, [Next]_vars, strays' = 0
  PROVE  [Steps]_(B!vars)
  <1>1. Typed /\ Tally /\ Chatter
    BY DEF Talk
  <1>2. CASE UNCHANGED vars \/ Learner \/ (\E s \in Submissions : Begin(s))
    BY <1>2, Stutters DEF vars, Learner, Save, Saved, Leave, Begin, process
  <1>3. ASSUME NEW runtime \in Runtimes, BeginInProcess(runtime)
        PROVE  Steps
    <2>1. probe = 0
      BY <1>1, <1>3 DEF Tally, BeginInProcess
    <2> QED
      BY <1>3, <2>1, CodesKnown, LoadImplements DEF BeginInProcess
  <1>4. CASE Assemble
    <2> DEFINE version == IF submission.by = "reference" THEN "solution" ELSE file
               c == [lab |-> submission.lab, version |-> version]
    <2>1. CASE version = "gone"
      BY <1>4, <2>1, Stutters DEF Assemble
    <2>2. CASE version # "gone"
      <3>1. submission \in Submissions /\ version \in {"vulnerable", "solution", "torn"}
        BY <1>1, <1>4, <2>2 DEF Typed, Assemble
      <3>2. c \in B!Codes
        BY <3>1, CodesKnown
      <3>3. Load(c) /\ probe = 0 /\ UNCHANGED pipe
        BY <1>1, <1>4, <2>2 DEF Assemble, Tally
      <3> HIDE DEF c
      <3> QED
        BY <3>2, <3>3, LoadImplements
    <2> QED
      BY <2>1, <2>2
  <1>5. CASE Receive
    <2>1. strays = 0
      BY <1>5 DEF Receive
    <2> QED
      BY <1>1, <1>5, <2>1, ReceiveImplements
  <1>6. CASE Judge
    <2>1. strays = 0 /\ at = "calling"
      BY <1>6 DEF Judge, process
    <2> QED
      BY <1>6, <2>1, JudgeImplements DEF Wire, Waits
  <1>7. CASE Ask \/ Close \/ Kill \/ Remove
    BY <1>7, Stutters DEF Ask, Close, Kill, Remove, process
  <1>8. CASE Import
    <2>1. pipe' = pipe
      <3>1. IsTuple(<<>>)
        BY TupleOf, EmptySeq
      <3> QED
        BY <1>1, <1>8, <3>1, WritesAlone DEF Import, Chatter
    <2> QED
      BY <1>8, <2>1, Stutters DEF Import
  <1>9. CASE Race \/ Exit \/ Crash
    BY <1>9, Stutters DEF Race, Exit, Crash, process
  <1>10. CASE EndRace
    BY <1>10, EndRaceImplements
  <1>11. ASSUME NEW r, Dispatch(r) PROVE Steps
    BY <1>11, DispatchImplements
  <1>12. ASSUME NEW r, StartRace(r) PROVE UNCHANGED B!vars
    BY <1>12, Stutters DEF StartRace
  <1>13. ASSUME NEW r, Fail(r) PROVE UNCHANGED B!vars
    BY <1>13, FailImplements
  <1> QED
    BY <1>2, <1>3, <1>4, <1>5, <1>6, <1>7, <1>8, <1>9, <1>10, <1>11, <1>12, <1>13
       DEF Next, Grader, Server

\* run_battery: across the process boundary, whatever the learner saves and
\* wherever the code under test raises or ends, a grade is a run of the battery
\* in process, as long as that code prints nothing.
THEOREM GradesAreBatteries == Spec => ImplementsBattery
  <1>1. Init => B!Init
    BY SameHarnesses DEF Init, B!Init, Heard
  <1>2. Init => Blame
    BY DEF Init, Blame
  <1>3. Talk /\ Blame /\ [Next]_vars => Blame'
    BY BlameNext DEF Talk
  <1>4. ASSUME Talk, Talk', Wire, Wire', Blame, [Next]_vars
        PROVE  [strays' > 0 \/ B!Next]_(B!vars)
    <2>1. strays' \in 0 .. MaxStray /\ MaxStray \in Nat
      BY <1>4, GradingAssumption DEF GradingAssumption, Talk, Typed
    <2>2. CASE strays' = 0
      BY <1>4, <2>2, StepImplements DEF Steps, B!Next
    <2>3. CASE strays' > 0
      BY <2>3
    <2> QED
      BY <2>1, <2>2, <2>3
  <1> QED
    BY <1>1, <1>2, <1>3, <1>4, TalkInvariance, WireInit, WireNext, PTL DEF Spec, ImplementsBattery
===============================================================================
