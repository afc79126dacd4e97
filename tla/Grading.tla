-------------------------------- MODULE Grading --------------------------------
(***************************************************************************)
(* A grade across a process boundary: grade_rpc copies the code under test *)
(* into a throwaway workspace, a server process loads it there, and the    *)
(* battery's calls and answers are lines on the server's stdin and stdout  *)
(* (dvah/grading/, webapi/app.py). The same battery put to an adapter in   *)
(* process is `dvah conformance`: its calls cannot fail in between.        *)
(*                                                                         *)
(* The learner saves, or gives up the session, at any moment; the learner's *)
(* code may raise, end the process, or print to the stdout it shares with  *)
(* the protocol, a line that is itself an answer among what it prints. It  *)
(* is taken to return: readline has no timeout.                            *)
(***************************************************************************)
EXTENDS Adapters, SharedBudget

CONSTANTS
  Submissions,  \* what may be graded: [lab, by], by the learner or by reference
  Runtimes,     \* the adapters graded in process
  MaxSaves,     \* bound: saves of the learner
  MaxStray      \* bound: lines the learner's code prints

VARIABLES
  code, probe, got, results, memory,   \* as in Battery
  file,        \* the learner's copy: its version, "torn" while written, or "gone"
  saves,       \* bound: the saves so far
  submission,  \* what is being graded
  at,          \* where the grader is
  workspace,   \* its temporary directory exists
  server,      \* the adapter's process, or the adapter
  requests,    \* the lines on its stdin
  pipe,        \* the lines on its stdout
  strays,      \* bound: the lines printed so far
  mimic,    \* history: a printed line was an answer
  raised       \* history: a call raised, or the code under test ended its process

battery == <<code, probe, got, results, memory>>
learner == <<file, saves>>
grader == <<submission, at, workspace>>
process == <<server, requests, pipe, strays, mimic, raised>>
vars == <<battery, learner, grader, process, budget>>

ASSUME GradingAssumption ==
  /\ Submissions \subseteq [lab : Lab, by : {"learner", "reference"}]
  /\ Runtimes \subseteq {"builtin", "external"}
  /\ MaxSaves \in Nat /\ MaxStray \in Nat
  /\ Thread # {} /\ Limit = 1 /\ Concurrent = Cardinality(Thread)

-----------------------------------------------------------------------------
InProcess == code.lab \in {"builtin", "external"}
LearnersCode == ~InProcess /\ submission.by = "learner"

Judging == probe \in DOMAIN Probes
Answered == Judging /\ Len(got) = Len(CallsOf(probe))

Raised(p, n) == [call |-> <<p, n>>, shape |-> "error", value |-> FALSE]

\* A printed line that is no answer; one that has the form of an answer, which
\* says what the probes want to hear. One that says otherwise breaks its probe as
\* noise does.
Printable == {"noise", "outcome", "capabilities", "grant", "boolean", "view", "decision",
              "items", "number", "trust"}

Wanted(shape) ==
  CASE shape = "outcome" -> [executed |-> {}, authorized |-> {}, count |-> 0, recorded |-> 1]
    [] shape \in {"capabilities", "items"} -> {}
    [] shape \in {"grant", "number"} -> 1
    [] shape = "view" -> [instructed |-> FALSE, leaks |-> FALSE]
    [] shape = "trust" -> "untrusted"
    [] OTHER -> FALSE

Printed(shape) == [call |-> <<0, 0>>, shape |-> shape, value |-> Wanted(shape)]

\* Lines on stdout, with what the code under test prints before them.
Write(lines, mayPrint) ==
  \E n \in 0..(IF mayPrint /\ LearnersCode THEN MaxStray - strays ELSE 0) :
  \E shape \in [1..n -> Printable] :
    /\ strays' = strays + n
    /\ mimic' = (mimic \/ \E i \in 1..n : shape[i] # "noise")
    /\ pipe' = pipe \o [i \in 1..n |-> Printed(shape[i])] \o lines

-----------------------------------------------------------------------------
(* The learner's session. What happens to it after the copy belongs to the  *)
(* next grade.                                                              *)

Copied == at \notin {"idle", "assembling"}

\* write_text empties the file before it writes it.
Save ==
  /\ file \in {"vulnerable", "solution"} /\ saves < MaxSaves /\ ~Copied
  /\ file' = "torn" /\ saves' = saves + 1
  /\ UNCHANGED <<battery, grader, process, budget>>

Saved ==
  /\ file = "torn" /\ ~Copied
  /\ file' \in {"vulnerable", "solution"}
  /\ UNCHANGED <<battery, saves, grader, process, budget>>

Leave ==
  /\ file # "gone" /\ ~Copied
  /\ file' = "gone"
  /\ UNCHANGED <<battery, saves, grader, process, budget>>

-----------------------------------------------------------------------------
(* The grader.                                                              *)

Load(c) ==
  /\ code' = c /\ probe' = 1 /\ memory' = Fresh
  /\ at' = "calling"
  /\ UNCHANGED <<got, results>>

\* grade_rpc: a workspace of its own.
Begin(s) ==
  /\ at = "idle"
  /\ submission' = s /\ workspace' = TRUE /\ at' = "assembling"
  /\ UNCHANGED <<battery, learner, process, budget>>

\* dvah conformance.
BeginInProcess(runtime) ==
  /\ at = "idle"
  /\ Load([lab |-> runtime, version |-> "none"])
  /\ server' = "serving"
  /\ UNCHANGED <<learner, submission, workspace, requests, pipe, strays, mimic, raised, budget>>

\* Defect: what raises before the try leaves the workspace.
AssembleUnguarded ==
  LET version == IF submission.by = "reference" THEN "solution" ELSE file
  IN /\ at = "assembling"
     /\ IF version = "gone"
        THEN /\ at' = "done"
             /\ UNCHANGED <<battery, server>>
        ELSE /\ Load([lab |-> submission.lab, version |-> version])
             /\ server' = "loading"
     /\ UNCHANGED <<learner, submission, workspace, requests, pipe, strays, mimic, raised, budget>>

\* assemble_server_workspace, which raises when there is nothing to copy.
Assemble ==
  LET version == IF submission.by = "reference" THEN "solution" ELSE file
  IN /\ at = "assembling"
     /\ IF version = "gone"
        THEN /\ at' = "removing"
             /\ UNCHANGED <<battery, server>>
        ELSE /\ Load([lab |-> submission.lab, version |-> version])
             /\ server' = "loading"
     /\ UNCHANGED <<learner, submission, workspace, requests, pipe, strays, mimic, raised, budget>>

\* RpcAdapter._call: a line is written, and the next line that comes is read.
Ask ==
  /\ at = "calling" /\ Judging /\ ~Answered
  /\ requests' = Append(requests, [probe |-> probe, call |-> Len(got) + 1, got |-> got])
  /\ at' = "awaiting"
  /\ UNCHANGED <<battery, learner, submission, workspace, server, pipe, strays, mimic,
                 raised, budget>>

\* Defect: a probe that does not hold is left out of the results.
VerdictIfHolds(v) ==
  /\ results' = IF v THEN Append(results, v) ELSE results
  /\ probe' = probe + 1
  /\ got' = <<>>
  /\ UNCHANGED <<code, memory>>

Verdict(v) ==
  /\ results' = Append(results, v)
  /\ probe' = probe + 1
  /\ got' = <<>>
  /\ UNCHANGED <<code, memory>>

\* Defect: no answer, nothing broken.
ReceiveForgiving ==
  /\ at = "awaiting" /\ at' = "calling"
  /\ \/ /\ pipe # <<>> /\ pipe' = Tail(pipe)
        /\ IF Unpacks(CallsOf(probe)[Len(got) + 1], Head(pipe))
           THEN got' = Append(got, Head(pipe)) /\ UNCHANGED <<code, probe, results, memory>>
           ELSE Verdict(FALSE)
     \/ /\ pipe = <<>> /\ server = "dead" /\ UNCHANGED pipe
        /\ Verdict(TRUE)
  /\ UNCHANGED <<learner, submission, workspace, server, requests, strays, mimic, raised, budget>>

\* The answer, or a probe error: no line but the end of the stream, no JSON, an
\* error of the adapter, or nothing the caller can unpack.
Receive ==
  /\ at = "awaiting" /\ at' = "calling"
  /\ \/ /\ pipe # <<>> /\ pipe' = Tail(pipe)
        /\ IF Unpacks(CallsOf(probe)[Len(got) + 1], Head(pipe))
           THEN got' = Append(got, Head(pipe)) /\ UNCHANGED <<code, probe, results, memory>>
           ELSE Verdict(FALSE)
     \/ /\ pipe = <<>> /\ server = "dead" /\ UNCHANGED pipe
        /\ Verdict(FALSE)
  /\ UNCHANGED <<learner, submission, workspace, server, requests, strays, mimic, raised, budget>>

Judge ==
  /\ at = "calling" /\ Answered
  /\ Verdict(Holds(probe, got))
  /\ UNCHANGED <<learner, grader, process, budget>>

\* close: stdin first, and 5 s for the server to end by itself.
Close ==
  /\ at = "calling" /\ ~Judging
  /\ IF InProcess THEN at' = "done" /\ server' = "none"
     ELSE at' = "closing" /\ UNCHANGED server
  /\ UNCHANGED <<battery, learner, submission, workspace, requests, pipe, strays, mimic,
                 raised, budget>>

Kill ==
  /\ at = "closing" /\ at' = "removing"
  /\ server' = "dead"
  /\ UNCHANGED <<battery, learner, submission, workspace, requests, pipe, strays, mimic,
                 raised, budget>>

\* finally: rmtree.
Remove ==
  /\ at = "removing" /\ at' = "done"
  /\ workspace' = FALSE
  /\ UNCHANGED <<battery, learner, submission, process, budget>>

-----------------------------------------------------------------------------
(* AdapterServer.                                                           *)

\* load_challenge imports the code; an empty file has no class to build.
Import ==
  /\ server = "loading"
  /\ IF code.version = "torn" THEN server' = "dead" /\ UNCHANGED <<pipe, strays, mimic>>
     ELSE server' = "serving" /\ Write(<<>>, TRUE)
  /\ UNCHANGED <<battery, learner, grader, requests, raised, budget>>

Serving(r) == server = "serving" /\ requests # <<>> /\ r = Head(requests)
Racing(r) == CallsOf(r.probe)[r.call] = "budget_used_racing" /\ code.lab # "external"
Own(r) == LearnersCode /\ Exercises(Challenges[code.lab].slot, r.probe, r.call)

\* A grant known by an index the server has given out.
Answerable(r) == ResultsOf(code, memory, r.probe, r.call, r.got) # {}

\* Defect: a line is answered twice.
DispatchAgain(r) ==
  /\ Serving(r) /\ ~Racing(r)
  /\ requests' = Tail(requests)
  /\ \E v \in ResultsOf(code, memory, r.probe, r.call, r.got) :
       Write([i \in 1..2 |-> Result(r.probe, r.call, v)], Own(r))
  /\ memory' = Remembers(code, memory, r.probe, r.call)
  /\ UNCHANGED <<code, probe, got, results, learner, grader, server, raised, budget>>

Dispatch(r) ==
  /\ Serving(r) /\ ~Racing(r)
  /\ requests' = Tail(requests)
  /\ \E v \in ResultsOf(code, memory, r.probe, r.call, r.got) :
       Write(<<Result(r.probe, r.call, v)>>, Own(r))
  /\ memory' = Remembers(code, memory, r.probe, r.call)
  /\ UNCHANGED <<code, probe, got, results, learner, grader, server, raised, budget>>

\* What a call raises goes back as an error: the code under test, or the look-up
\* of a grant.
Fail(r) ==
  /\ Serving(r) /\ (Answerable(r) => Own(r))
  /\ requests' = Tail(requests)
  /\ Write(<<Raised(r.probe, r.call)>>, Answerable(r))
  /\ raised' = TRUE
  /\ UNCHANGED <<battery, learner, grader, server, budget>>

\* budget_used_racing: a tracker with the probe's limit, and its threads.
StartRace(r) ==
  /\ Serving(r) /\ Racing(r)
  /\ server' = "racing"
  /\ tracker' = CASE SlotsOf(code).budget = "builtin" -> "atomic"
                  [] OTHER -> SlotsOf(code).budget
  /\ used' = 0 /\ lock' = NoThread
  /\ thread' = [t \in Thread |-> "charging"] /\ read' = [t \in Thread |-> 0]
  /\ UNCHANGED <<battery, learner, grader, requests, pipe, strays, mimic, raised>>

Race ==
  /\ server = "racing"
  /\ \E t \in Thread : Charge(t)
  /\ UNCHANGED <<battery, learner, grader, process>>

EndRace ==
  LET r == Head(requests)
  IN /\ server = "racing" /\ Raced
     /\ server' = "serving" /\ requests' = Tail(requests)
     /\ Write(<<Result(r.probe, r.call, Cardinality(Through))>>, Own(r))
     /\ UNCHANGED <<battery, learner, grader, raised, budget>>

\* The end of stdin ends the server; the code under test may end it before.
Exit ==
  /\ at = "closing" /\ server = "serving" /\ requests = <<>>
  /\ server' = "dead"
  /\ UNCHANGED <<battery, learner, grader, requests, pipe, strays, mimic, raised, budget>>

Crash ==
  /\ LearnersCode /\ server \in {"loading", "serving", "racing"}
  /\ server' = "dead" /\ raised' = TRUE
  /\ UNCHANGED <<battery, learner, grader, requests, pipe, strays, mimic, budget>>

-----------------------------------------------------------------------------
Init ==
  /\ code = [lab |-> "none", version |-> "none"]
  /\ probe = 0 /\ got = <<>> /\ results = <<>> /\ memory = Fresh
  /\ file = "vulnerable" /\ saves = 0
  /\ submission = [lab |-> "none", by |-> "none"] /\ at = "idle" /\ workspace = FALSE
  /\ server = "none" /\ requests = <<>> /\ pipe = <<>> /\ strays = 0
  /\ mimic = FALSE /\ raised = FALSE
  /\ RaceInit /\ tracker = "atomic"

Learner == Save \/ Saved \/ Leave
Grader == Assemble \/ Ask \/ Receive \/ Judge \/ Close \/ Kill \/ Remove
Server ==
  \/ Import \/ Race \/ EndRace
  \/ \E r \in {requests[i] : i \in DOMAIN requests} : Dispatch(r) \/ StartRace(r)

Next ==
  \/ Learner \/ Grader \/ Server
  \/ (\E s \in Submissions : Begin(s)) \/ (\E runtime \in Runtimes : BeginInProcess(runtime))
  \/ (\E r \in {requests[i] : i \in DOMAIN requests} : Fail(r)) \/ Exit \/ Crash

\* Both processes are run by the system, and the calls return; the learner does
\* as they please, and neither an error nor a crash of their code need happen.
Refuse == \E r \in {requests[i] : i \in DOMAIN requests} : Fail(r) /\ ~Answerable(r)

Fairness == WF_vars(Grader) /\ WF_vars(Server \/ Refuse)

Spec == Init /\ [][Next]_vars /\ Fairness
-----------------------------------------------------------------------------
(* Properties.                                                              *)

TypeOK ==
  /\ at \in {"idle", "assembling", "calling", "awaiting", "closing", "removing", "done"}
  /\ server \in {"none", "loading", "serving", "racing", "dead"}
  /\ file \in {"vulnerable", "solution", "torn", "gone"} /\ saves \in 0..MaxSaves
  /\ submission \in Submissions \cup {[lab |-> "none", by |-> "none"]}
  /\ workspace \in BOOLEAN /\ raised \in BOOLEAN /\ mimic \in BOOLEAN /\ strays \in 0..MaxStray
  /\ probe \in 0..(Len(Probes) + 1) /\ results \in Seq(BOOLEAN)
  /\ Len(results) = IF probe = 0 THEN 0 ELSE probe - 1
  /\ Judging => Len(got) <= Len(CallsOf(probe))
  /\ tracker \in Trackers /\ used \in 0..Cardinality(Thread)
  /\ lock \in Thread \cup {NoThread} /\ thread \in [Thread -> Points]

Broken == {Inv(p) : p \in {q \in DOMAIN results : ~results[q]}}
Finished == at = "done" /\ code.lab # "none"
Passed == Finished /\ Broken = {}

\* The defects the battery does not see, whatever the schedule or on some.
Blind == {"L005", "L013", "L014"}

\* A pass is of a harness without the defect, unless its code printed answers:
\* "a dishonest or buggy adapter can report a pass it didn't earn"
\* (docs/CONFORMANCE.md). No crash, error, other stray line, half written file or
\* race between the copy and a save makes a defect pass that the battery covers.
PassMeansFixed ==
  Passed /\ ~mimic => code.version \in {"solution", "none"} \/ code.lab \in Blind

\* Where nothing fails on the way, the verdict is exact: a solution breaks
\* nothing, though the probes share the harness's long-lived objects; a defect
\* breaks what its scenario says; the foreign runtime breaks its two.
FaultFreeVerdicts ==
  Finished /\ strays = 0 /\ ~raised /\ code.version # "torn" =>
    CASE code.lab = "builtin" -> Broken = {}
      [] code.lab = "external" -> Broken = {"INV-01", "INV-11"}
      [] code.version = "solution" -> code.lab = "L004" \/ Broken = {}
      [] OTHER -> code.lab \in Blind \cup {"L011"} \/ Challenges[code.lab].inv \in Broken

\* "The reference solution holds" (tests/webapi/test_rpc_grader.py).
SolutionsHold ==
  Finished /\ submission.by = "reference" => Broken = {}

\* A probe that holds was judged on the answers to its own calls: "request ->
\* response" (grading/rpc.py). Even of code that prints no answer itself.
VerdictsEarned ==
  ~mimic /\ Answered /\ Holds(probe, got) => \A n \in DOMAIN got : got[n].call = <<probe, n>>

\* Every grade that is begun ends, its process ended and its copy removed,
\* wherever the code under test fails.
Graded ==
  at = "assembling" ~> at = "done" /\ ~workspace /\ server \in {"none", "dead"}

\* An answer counts from when it is on its way.
Heard == IF pipe = <<>> \/ Head(pipe).shape = "error" THEN got ELSE Append(got, Head(pipe))

B == INSTANCE Battery WITH got <- Heard

\* Across the process boundary the battery is what it is in process, unless the
\* code under test prints: every probe on its own answers, once, in order.
ImplementsBattery == B!Init /\ [][strays' > 0 \/ B!Next]_(B!vars)
===============================================================================
