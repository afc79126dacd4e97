-------------------------------- MODULE Battery --------------------------------
(***************************************************************************)
(* run_battery (dvah/conformance/battery.py): the probes are put to one    *)
(* adapter in order, each is judged on the answers to its own calls, and   *)
(* one that raises counts as an invariant that does not hold. What a       *)
(* grader promises, wherever the adapter runs.                             *)
(***************************************************************************)
EXTENDS Adapters

VARIABLES
  code,     \* the harness under test
  probe,    \* the probe at hand, 0 before the first
  got,      \* the answers to its calls
  results,  \* ConformanceRun.results: what each probe so far came to
  memory    \* what the adapter's objects remember

vars == <<code, probe, got, results, memory>>

Judging == probe \in DOMAIN Probes

Verdict(v) ==
  /\ results' = Append(results, v)
  /\ probe' = probe + 1
  /\ got' = <<>>
  /\ UNCHANGED <<code, memory>>

Start(c) ==
  /\ probe = 0
  /\ code' = c /\ probe' = 1 /\ memory' = Fresh
  /\ UNCHANGED <<got, results>>

\* Code that cannot be loaded answers nothing.
Answer ==
  LET n == Len(got) + 1
  IN /\ Judging /\ n <= Len(CallsOf(probe)) /\ code.version # "torn"
     /\ \E v \in ResultsOf(code, memory, probe, n, got) : got' = Append(got, Result(probe, n, v))
     /\ memory' = Remembers(code, memory, probe, n)
     /\ UNCHANGED <<code, probe, results>>

Judge ==
  /\ Judging /\ Len(got) = Len(CallsOf(probe))
  /\ Verdict(Holds(probe, got))

\* A probe error, of the adapter or on the way to it.
Error == Judging /\ Verdict(FALSE)

Init ==
  /\ code = [lab |-> "none", version |-> "none"]
  /\ probe = 0 /\ got = <<>> /\ results = <<>> /\ memory = Fresh

Codes == [lab : Lab, version : {"vulnerable", "solution", "torn"}]
         \cup [lab : {"builtin", "external"}, version : {"none"}]

Next == (\E c \in Codes : Start(c)) \/ Answer \/ Judge \/ Error

Spec == Init /\ [][Next]_vars
===============================================================================
