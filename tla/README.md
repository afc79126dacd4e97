# Formal model of the DVAH agent harness

DVAH is a lab about agent runtimes: a model proposes actions, and a *harness*
decides which of them happen. The lab ships a correct harness
(`dvah/harness`, `dvah/guardrails`), fourteen challenges that replace one of its
parts by a broken one, a mutation engine that breaks several at once, and a web
application in which learners edit, run and grade code. This directory models
that system in TLA+, model-checks it with TLC and proves what matters most with
TLAPS.

`PROJECT.json` is the machine-readable side of this document: for every
definition the lines of source it stands for, for every run and theorem what it
establishes, and for every property a small defect of the code that breaks it.

## 1. The system

| Part | State it keeps | Operations | What makes it hard | Correct means |
|---|---|---|---|---|
| Agent loop, executor, delegation (`harness/loop.py`, `executor.py`, `agent.py`, `context.py`) | the Python call stack; immutable contexts; one mutable field `last_ctx` | `run_session`, `execute_plan`, `delegate`, `reflect` | every nested call writes `last_ctx`, and the caller resumes from it; reflections throw their context away | the stack spells one delegation chain of narrowing authority; a run ends |
| Broker gate (`harness/broker.py`) | none of its own: policy, approvals, budget, provenance, trace | `run_step`: authorize, approve, charge, execute, record | authority may be revoked between any two of these; the tool may fail or raise | nothing executes unless it is permitted, approved and paid for |
| Policy, capabilities, revocation (`guardrails/policy.py`, `capabilities.py`, `revocation.py`) | the live registry | `authorize`, `derive_child`, `revoke` | the registry is shared and mutable | a revocation takes effect with the next action |
| Approvals (`guardrails/approvals.py`) | grants, consumed ids | `find`, `request`, `validate`, `consume` | grants travel in contexts that are copied and dropped | a grant licenses its own action, once |
| Budget (`guardrails/budget.py`) | one counter under a lock | `charge` | shared by the whole delegation tree | never exceeded, never duplicated |
| Provenance, compiler (`guardrails/provenance.py`, `harness/compiler.py`) | instructions and data with source and trust | `record`, `merge`, `compile` | data accumulates over hops and comes back in later prompts | observed data never becomes an instruction |
| Trace (`observability/trace.py`, `scoring.py`) | an append-only log | `emit` and the queries that score a run | ids are derived, not drawn | scores follow from the log |
| Model routing, settings, tutor (`providers/router_model.py`, `bedrock_model.py`, `webapi/settings.py`, `tutor.py`, `app.py`) | process-wide settings, one environment variable, a router per run | update settings, live run, ask the tutor | requests on different threads read and write them in pieces | a key reaches only its provider; fallbacks are announced; the environment is put back |
| Web sessions and runner (`webapi/sessions.py`, `app.py`, `runner.py`) | four dictionaries under a lock, a directory per session, a semaphore | create, edit, reset, run, stream, delete; expiry and eviction | the lock covers the dictionaries and not the directories; runs outlive sessions | registered sessions exist on disk, what else does is accounted for, everyone is answered |
| Mutation engine (`mutation/`) | flags, broken slots, fifteen probes | `apply`, `run` | defeats are tested one by one and not in combination | a probe breaks exactly when its invariant is defeated |
| Simulated services (`services/`, `dvah/services/world_state.py`) | a store, a recorder and an event loop per service | the endpoints, reset | plain endpoints run on threads and async ones on the loop, with no lock; handlers outlive the calls that asked for them | what was done is recorded, every request is served |
| Tool providers (`providers/http_tools.py`, `mcp_tools.py`, `router.py`, `native_tools.py`) | the MCP provider's egress and blocked lists | `invoke` | timeouts, killed servers, rejected identities | what a caller claims was recorded; nothing crosses the boundary that was not allowed |
| Conformance battery (`conformance/`) | an adapter's long-lived objects | fifteen probes, `run_battery`, `reconcile` | the probes share the adapter; a slot is rebuilt with the probe's argument or used as it is | a verdict is earned: on its own answers, exact where nothing fails |
| Grading (`grading/`) | a temporary directory, a child process, its two pipes | `grade_rpc`, `AdapterServer.serve`, `RpcAdapter` | the learner saves and leaves meanwhile; the code under test prints, raises and dies | no defect passes that its code does not answer for; nothing is left behind |
| Replay (`replay.py`), scheduler, hints and catalog, secrets, memory, scenario loading, CLI, web UI | see section 8 | | | |

How they interact: the web API starts a run by loading a scenario into a
harness and calling `run_session`; the loop asks a model session for a turn and
hands its plan to the executor; the executor sends operations one by one to the
broker and calls back into the loop for delegation and reflection; the broker
calls the guardrails and the tool, and everybody writes to one trace. A harness
run is one thread. Threads meet in the web API, over the session manager, the
runner's semaphore, the settings and the environment; in the services, over
their stores; and in the battery's probe of INV-12, over one budget. Processes
meet in grading, over the two pipes of the adapter's server, and in a fetch of
the MCP provider.

## 2. Modules

| Module | Models | Extends / uses |
|---|---|---|
| `Guardrails` | the decisions of the guardrails as operators, no state | |
| `Harness` | one run of the harness | `Guardrails` |
| `Mediation` | the abstract gate: what is promised about effects | refined by `Harness` |
| `HarnessProofs` | types, lineage and provenance of `Harness`, proved | `Harness`, `TLAPS` |
| `EffectProofs` | budget, revocation, approvals, mediation accounting, origin of effects, and that `Harness` implements `Mediation`, proved | `HarnessProofs` |
| `Workspaces` | web requests over sessions, directories and the runner | |
| `WorkspacesProofs` | types, the runner's slots, deleted sessions, directories, orphans, the cap and resets, proved | `Workspaces`, `TLAPS` |
| `LiveModel` | settings, live runs, the tutor, the Bedrock token | |
| `LiveModelProofs` | its types, fallbacks, keys and the environment, proved | `LiveModel`, `TLAPS` |
| `MutationMatrix` | the mutation engine, all combinations | `Guardrails` |
| `MatrixProofs` | which defeats its probes see, proved | `MutationMatrix`, `TLAPS` |
| `World` | the abstract world: operations at one moment, a log, claims | refined by `Services` |
| `Services` | the simulated services and the providers that call them | `World` |
| `ServicesProofs` | its types, claims, egress and reconciliation, and that it implements `World`, proved | `Services`, `TLAPS` |
| `SharedBudget` | threads that charge one tracker | |
| `Adapters` | the probes, the adapters' methods and the challenges as operators, no state | |
| `Battery` | `run_battery`: the abstract grade | `Adapters`; refined by `Grading` |
| `Grading` | `grade_rpc` and `dvah conformance` | `Adapters`, `SharedBudget`, `Battery` |
| `GradingProofs` | the race, the protocol's types, and that a grade is a battery, proved | `Grading`, `TLAPS` |
| `VerdictProofs` | what a pass and a failure say of the code, proved | `GradingProofs` |
| `MCHarness`, `MCWorkspaces`, `MCLiveModel`, `MCServices`, `MCGrading` | small instances | |

Definitions named in a comment as a *Defect* are wrong on purpose. They stand
beside the operator they would replace, belong to no specification, and show
that the property named with them in `PROJECT.json` can fail.

### Harness

The Python call stack is the variable `stack`. A session frame is a call of
`Harness.run_session`, a plan frame a call of `BuiltinExecutor.execute_plan`;
the last two control points of a plan frame are the inside of
`Broker.run_step`. `run_step` is split in three, at the two places where the
world can move: before a human approves and before the tool is called.

| Code | Action |
|---|---|
| `session.next` and the loop's bound | `NextTurn`, `EndTurn`, `ProviderRaises` |
| `execute_plan` returning, `last_ctx` | `EndPlan` |
| `AgentRuntime.delegate` | `Delegate` |
| `Harness.reflect` | `Reflect` |
| resolve, hash, authorize, decision event | `BrokerAuthorize` |
| find, request and validate a grant | `BrokerApprove` |
| charge, tool call, merge, consume, executed event | `BrokerExecute`, `BudgetExhausted`, `ToolRaises` |
| `RevocationRegistry.revoke` by anyone, any time | `Revoke` |
| `RecursionError` | `RecursionLimit` |

An exception is caught by nobody inside the harness, so it ends the run: the
status becomes `denied` or `failed`. Data is abstract: a tool output is the set
of actions embedded in it, a hash is the record it is computed from (the code
takes SHA-256 over exactly these fields), a skill is what it requires and
whether it contributes instructions. `history` is kept for the properties only;
no action reads it.

### Mediation and the refinement

`Mediation` knows effects, a stack of powers, an account and one pending
admission. `Harness` implements it (`ImplementsMediation`) under the mapping at
the end of `Harness.tla`: powers are what the capabilities of each frame
permit, the pending effect is the operation between `BrokerAuthorize` and
`BrokerExecute`, performed is the length of the history. It is a statement
about order: admission against every level of the stack and against what is
withdrawn *at that moment*, then payment, then the effect, and nothing after the
run is over.

### Workspaces

Requests are threads. A step is a stretch no other thread can tell apart: what
`SessionManager` does under its lock becomes visible when the lock is released,
so the dictionaries change in one step; the file system is visible all the
time, so `rmtree` scans, unlinks and removes in separate steps, and `copytree`
creates the directory and copies file by file. `reset` and `write_file` do
their work without the lock. The four actions `TakeSlot`, `TimeOut`, `EndRun`
and `Board` are `SubprocessRunner.run`; `Record` is `record_run`. An expired
session is removed by whichever lookup meets it, as in `SessionManager.path`.

Between `TakeSlot` and `EndRun` the child lives in the session's directory, and
`Scribble` is what it writes there: the caches of what it imports (its
environment does not turn them off) and whatever the learner's code makes, in
`guardrails/vulnerable` or elsewhere (`beside`), as often as it likes, until it is
reaped. It may make again what `rmtree` has taken. A creation may fail before
it registers (`Materialize`), with or without a directory left. `strays` is
history: the ids whose directory was written to when it was no longer, or not for long,
the manager's (`Unkept`), or whose creation failed. No action reads it. Of a
child it is assumed that it removes nothing, keeps to its own session's
directory and leaves no process behind.

### LiveModel

`update` is two steps, because it assigns the provider and some statements
later files the key under whichever provider is current. A live run passes a
gate (`Gate`), reads its key again on a worker thread (`Build`) and asks the
candidates of its router in turn (`Replay`, `Connect` or `Enter`, `Call`,
`Leave`, `FallBack`). `Enter` and `Leave` are the two halves of
`bedrock_model._bearer_env`: the environment variable is process-wide, so
another thread may run between them. The remote providers are external; all
the model says of them is that a call succeeds or fails. Model names and the
run mode are left out: nothing under `webapi` decides by them.

### MutationMatrix

The fourteen flags are chosen freely at the start. A probe that asks one
guardrail one question is a formula over the flags, written with the operators
of `Guardrails`, correct or defeated; the three probes that run a plan through
executor, policy and budget (`INV-01`, `INV-06-budget`, `INV-13`) are executed
step by step, because there the defeats meet.

### World and Services

`World` is what the in-process stores do behind `NativeToolProvider`: an
operation takes effect at one moment and is logged with its outcome, a caller
claims only what is logged, a reset puts one system back. `Services` is the same
behind HTTP. A call is identified by its client and number; `handler` says where
the endpoint that serves it is, `recorder` which calls were recorded. An
endpoint is its test (`Check`), its access to the store (`Fetch`, `Pop`, `Take`,
`Place`) and its `Record`. The async endpoints keep the event loop of their
service from `Check` to the answer, because there is no `await` in between; the
plain ones are on threads and interleave with everything; the list of the cloud
walks over its own dictionary there (`cloud/app.py`), and fails if another handler
changes it meanwhile. `POST /_reset` is
async and is two steps, the recorder and then the store, between which threads
run. `GiveUp` is the client's five seconds: the client goes on and the handler
is not told. A fetch of the MCP provider is `Reach`, then `Fetched` or
`KillServer` after fifteen seconds, and `Conclude` decides what is recorded.

`ImplementsWorld` maps the store, the outcomes and the claims, with a file on
its way to its new name counted as there. It is a conditional refinement: two
history variables note when two handlers met on a key (`contended`) or a handler
was at work across a reset (`late`), and until then every step is a step of
`World` or none. So it says what the departures from atomicity are, and that
there are no others.

### Adapters, Battery and Grading

`Adapters` has the fifteen probes with their arguments and assertions, and the
methods of the adapters as operators of three things: the classes in the slots
of the harness (`Challenges` is the table of all fourteen `scenario.yaml`), what
its long-lived objects remember (a cached decision, the grants), and the
arguments. `Rebuilt` is the loaded adapter's habit of building a slot again with
the probe's argument and falling back to the loaded object. Plans are sequences
of steps with the agent each belongs to; hashes and texts are the names of what
they are of.

`Battery` is `run_battery` over an adapter in process. `Grading` is the same
across a process: `Assemble` copies the code under test, `Import` loads it in the
child, `Ask` writes a line and waits for the next line on `pipe`, whichever that
is, `Dispatch`, `Fail`, `StartRace`/`Race`/`EndRace` are the server's answers,
and `Close`, `Kill`, `Remove` the two `finally` blocks. The code under test may
print before any answer of a call that reaches it, raise, or end the process.
Answers carry the shape the caller unpacks, so a wrong answer of the right shape
is accepted and one of the wrong shape is a probe error, as in `RpcAdapter`.
What is printed (`Write`) is any sequence of lines, each noise or an answer of one
of the shapes, with what its probe wants to hear: `_call` cannot tell such a line
from the server's. `mimic` notes that one was printed. Only whole lines
are printed, by code that is running for the call or the import: no thread of the
code under test prints later, and no print is left without its newline.
`BeginInProcess` is `dvah conformance`. The race of INV-12 is executed with the
threads of `SharedBudget`, in which the increment is a read and a write.

## 3. Runs

| Run | Expect | Asks | States, about |
|---|---|---|---|
| `tree` | pass | nesting: delegation with and without skills, reflection over data from outside, an external namespace, one revocation | 87,000 |
| `approvals` | pass | grants carried, requested, expired and spent, against revocations at any moment | 640,000 |
| `lifecycle` | pass | creations that may fail, a reset file by file, a save, a deletion, a run and a stream with children that write, over a cap of two sessions that expire | 211,000 |
| `mutations` | pass | all 16,384 combinations of defeats | 438,000 |
| `live_model` | pass | one settings update, one live run and the tutor, all providers, keys and failures; a variable that is set, one that is empty, one that is not there | 176,000 |
| `services` | pass | two harnesses, a verifying MCP provider, threads against the loop, a reset, timeouts | 125,000 |
| `grading` | pass | fourteen challenges, learner's and reference version, both runtimes; saves, prints of noise and of answers, errors, crashes | 1,444,000 |
| `inherited_skills` | violation | a statement of the documentation the harness does not meet | |
| `orphaned_workspace` | violation | one the session manager does not meet | |
| `egress_record` | violation | one the MCP provider does not meet | |
| `stray_line`, `reference_fails` | violation | two the rpc grader does not meet | |

`tree` checks `TypeOK`, `LineageWellFormed`, `TreeWithinBudget`,
`EveryExecutionLicensed`, `ProvenanceCoversObservations`, `DataNeverActs`,
`EffectsWithinLineage`, `ImplementsMediation` and `Termination`; `approvals` checks `RevocationBites`,
`ApprovalBindsExecution` and `OneTimeGrantLicensesOne`. `lifecycle` checks
`WithinCap`, `RegisteredOnDisk`, `OrphansAreStrays`, `DeletedStaysDeleted`,
`ResetShowsAll`, `RunsWithinSlots` and `Answered`. `services` checks
`ClaimsRecorded`, `HonestReconciles`, `EgressContained`, `ImplementsWorld` and
`EveryRequestServed`; `grading` checks `PassMeansFixed`, `FaultFreeVerdicts`,
`WithinLimit`, `ImplementsBattery` and `Graded`. Each property is explained
where it is defined.

`PassMeansFixed` is about code that prints no answers. Of code that does the
grader can promise nothing, and the repository says so: an adapter "can report a
pass it didn't earn" (`docs/CONFORMANCE.md:12-15`; `battery.py:33-36` is the
`TODO` to the same effect). The model has the case: without its condition the property
is violated by a submission of DVAH-012 that prints four lines, a setting too large to
keep as a run; three do not suffice there, as each also shifts the answers that follow.

What `grading` says of the battery itself: of the fourteen defects, it never
sees those of DVAH-005 and DVAH-014, sees that of DVAH-013 on some schedules
only, and finds DVAH-011 by another invariant than its own (`INV-06-instr`). These are
named in `Blind` and in `FaultFreeVerdicts`; for DVAH-014 and the memory of
DVAH-011, `loaded_adapter.py` says that pytest grades them.

### Bounds, and why they are enough

* **Harness.** Two agents, two namespaces of which one is external, a budget of
  three, two actions per agent, delegation depth two, six frames. Budget three
  is the least at which a parent and two children can compete for the last
  unit; depth two is the least at which a grandchild exists and the third level
  is refused; two actions per agent let the loop's own bound cut a session
  before the budget does. Six frames let a reflection reflect again inside a
  delegated plan, and the `RecursionLimit` action fire. Plans are a handful of
  sequences chosen so that each kind of step is followed by each other kind;
  the model picks one anew at every turn.
* **Approvals.** The same, with root contexts that carry no grant, a valid one,
  an expired one and two for the same action.
* **Workspaces.** Three concurrent requests, a cap of two with at most three
  sessions, a clock of one tick after which a session has expired, one runner
  slot; two editable files, so that a reset or a removal has a middle, and one name for all that
  children make. Three threads are what it takes for one to evict what the
  second is using while the third waits for the lock. One request resets:
  of two, `ResetShowsAll` is false (section 5).
* **LiveModel.** Three providers, of which one is Bedrock, with their three kinds of
  variable (a key, empty, not set); two keys; one update and two callers. The
  other providers differ from each other in name only.
* **MutationMatrix.** None: the flags are all there are.
* **Services.** Two harnesses, one with two calls and one with one, and a reset
  of the file service: a call given up, its client's next call and a stranger's
  are the least with which a late handler and a new one meet on a key across a
  reset. Two files, one repository, one mailbox, one instance; hosts inside and
  outside the allowlist; one client pins its MCP server and one does not.
* **Grading.** Every challenge and both runtimes, one grade; one save and one
  stray line, since a second shifts by two what one shifts by one; three racing
  threads where the probe has eight, two being what a lost update takes and the
  third what is denied beside it. What the learner does after the copy belongs to the next
  grade and is left out.

`MaxFrames`, `MaxSid`, `MaxClock`, `MaxCalls`, `MaxResets`, `MaxSaves`,
`MaxStray` and `Concurrent` are the bounds that exist in the models and not in
the code as such; the first stands for the interpreter's recursion limit. Deadlock is looked for
in the runs of `Harness`, `Workspaces`, `LiveModel` and `MutationMatrix`, where
what is over stutters by an action of its own (`Ended`, `Quiet`, `Done`). In
`Services` and `Grading` it is not: when the clients have used up their calls, or
the one grade is given, the system stops, and that nothing stops earlier is what
`EveryRequestServed` and `Graded` say.

### Fairness

* `Harness`: weak fairness of `Run`. The harness is one thread and every tool
  and model call returns or raises; nobody owes a revocation, so `Revoke` has
  none. `Termination` then rests on the budget, the loop's bound and the stack
  limit.
* `Workspaces`: weak fairness of `Serve(r)` for every request, none for
  arrivals, the clock and what children write (`Scribble`). A thread waiting for the lock or for a slot is
  enabled when it is free. Weak fairness is enough because requests are finite
  in number: whoever holds the lock or a slot gives it back. A run ends because
  `communicate(timeout)` bounds it and the killed process group closes its
  pipe.
* `LiveModel`: weak fairness of `Serve(r)`. A remote call ends by the client
  library's own timeout if by nothing else; the code sets none.
* `Services`: weak fairness of every handler and of a reset that has begun. The
  pool's threads and the event loop are run by the server; clients, their
  timeouts and the beginning of resets owe nothing. `EveryRequestServed` then
  says that nobody keeps the loop.
* `Grading`: weak fairness of the grader and of the server as processes. That a
  call of the code under test returns is an assumption and a real one:
  `readline` (`rpc.py:122`) has no timeout. A crash or an error of the code under
  test has no fairness; the server's own error, for a grant it never gave out (a
  probe that was told a printed one asks for it), is an answer like the others
  (`Refuse`).

## 4. Proofs

A theorem holds for every value of the constants that satisfies the assumptions
its module names, where a run shows the same on one small instance.

* `GuardrailsAssumption` and `HarnessAssumption`: any agents, operations, plans,
  tool results, grants, limits, and any sets of revocations; a root context
  starts its own chain with nothing observed, the model's scripts are marked as
  the model's, and the two sentinels are not values of the sets they stand
  beside.
* `ServicesAssumption` and `OperationAssumption`: any clients, calls, keys and
  resets; a routed call goes to a service that is there, and an endpoint looks up
  a key of the store. `StoresAssumption`: the services are processes with a store
  each (`src/services/*/app.py`), so no two hold one key, an operation on a store
  reaches the store of its own service only, and the mark of a free key is not a key.
* `SharedBudgetAssumption`: any limit, any finite set of threads.
* `GradingAssumption`: any submissions, saves and stray lines, any number of
  racing threads but zero, and the limit of one that
  `probe_budget_used_racing` sets.
* `WorkspacesAssumption`: any finite set of requests, any positive cap and number
  of slots, and fewer creations than session ids.
* `LiveModelAssumption`: any requests, providers, keys and variables of the
  environment; Bedrock is a provider and the oracle is none.

Some theorems assume more, because the code does. `PolicyHoldsRegistry`: the policy
consults the registry that is revoked; the scenario loader does not arrange it
(section 5). `OneResetter` and `OneEditor`: no two requests may reset, or update the
settings. Without each of them what it
guards is false, and section 5 says how. Every run that checks the property meets
the assumption.

| Theorem | Statement |
|---|---|
| `Invariance` | `[]IInv` |
| `TypeCorrect` | `[]TypeOK`, the budget within its limit included |
| `Lineage` | `[]LineageWellFormed` |
| `EffectsStayWithinLineage` | `EffectsWithinLineage`, an action property |
| `BudgetIsShared` | `[]TreeWithinBudget` |
| `RevocationTakesEffect` | `[]RevocationBites`, assuming `PolicyHoldsRegistry` |
| `ApprovalIsBound` | `[]ApprovalBindsExecution` |
| `OneTimeIsOnce` | `[]OneTimeGrantLicensesOne` |
| `ObservedDataNeverActs` | `[]DataNeverActs` |
| `ExecutionsAreLicensed` | `[]EveryExecutionLicensed`, the mediation accounting of INV-01 |
| `ObservationsAreAccounted` | `[]ProvenanceCoversObservations` |
| `HarnessIsGate` | `ImplementsMediation`, assuming `PolicyHoldsRegistry` |
| `RunsFitSlots` (`Workspaces`) | `[]RunsWithinSlots` |
| `DeletedIsGone` (`Workspaces`) | `[]DeletedStaysDeleted` |
| `RegisteredKeepDirectories` (`Workspaces`) | `[]RegisteredOnDisk` |
| `OrphansWereWrittenLate` (`Workspaces`) | `[]OrphansAreStrays` |
| `CapHolds` (`Workspaces`) | `[]WithinCap` |
| `TypeCorrect` (`Workspaces`) | `[]TypeOK` |
| `ResetsShowAll` (`Workspaces`) | `[]ResetShowsAll`, assuming `OneResetter` |
| `TypeCorrect` (`LiveModel`) | `[]TypeOK` |
| `FallbackIsTraced` (`LiveModel`) | `[]FallbackTraced` |
| `RunsDegrade` (`LiveModel`) | `[]DegradesToOracle` |
| `EnvIsRestored` (`LiveModel`) | `[]EnvRestoredInTurn` |
| `KeysReachTheirProvider` (`LiveModel`) | `[]KeyReachesItsProvider`, assuming `OneEditor` |
| `TypeCorrect` (`Services`) | `[]TypeOK` |
| `ClaimsAreRecorded` (`Services`) | `[]ClaimsRecorded` |
| `EgressIsContained` (`Services`) | `[]EgressContained` |
| `HonestRunsReconcile` (`Services`) | `[]HonestReconciles` |
| `ServicesImplementWorld` (`Services`) | `ImplementsWorld` |
| `NoFalseAlarm` (`MutationMatrix`) | `[]OnlyDefeatedBreak` |
| `DefeatsAreSeen` (`MutationMatrix`) | `[]DefeatsShow` |
| `LimitHolds` (`SharedBudget`) | `RaceSpec => []WithinLimit` |
| `TypeCorrect` (`Grading`) | `[]TypeOK` |
| `ProbeLimitHolds` (`Grading`) | `[]WithinLimit` |
| `GradesAreBatteries` (`Grading`) | `ImplementsBattery` |
| `PassesAreFixed` (`Grading`) | `[]PassMeansFixed` |
| `VerdictsAreExact` (`Grading`) | `[]FaultFreeVerdicts` |

**`IInv`** is `TypeOK /\ Linked(stack) /\ Resumable`. `LineageWellFormed`
alone is not inductive: when a plan ends, the session below continues with
`last_ctx`, and nothing in the property says whose context that is.
`Resumable` says it: at the moment a session resumes, `last_ctx` belongs to
that session's agent, with its chain and its capabilities.
`Linked` strengthens the chain property in the other direction: every frame is
within the authority of *every* frame below it, plan frames run for the same
agent as their session, and an operation in the broker's hands has passed the
policy. From it `EffectsStayWithinLineage` follows in one step.
The proof has one lemma for each way the stack changes (replace the top, push,
pop) and one for each action.

**`EInv`** is `Paid /\ Revocable /\ Granted /\ DataNeverActs`. `Granted` adds to
the two approval properties what makes them inductive: the grant held between
approval and execution is bound to the operation on top of the stack and, if it
is one-time, is not among the consumed; and every one-time grant in the history
is. That set belongs to the service and not to the context, which is why a
reflection that loses its context does not bring a spent grant back.
`Revocable` adds that an operation that was admitted before its revocation is
the only one that can be late. `PolicyHoldsRegistry` is a real assumption: the
scenario loader does not meet it (section 5).

**`LInv`** is for the occurrence ids, which repeat. It does not try to tell
equal occurrences apart but counts them: for every occurrence the trace holds at
least as many allowing decisions as executions (`Balanced`), and one more while
the broker holds a step of that occurrence (`InHand`). Appending an event that
is no execution keeps both sides in order; the execution uses up the one more.

**`PInv`** says that every context on the stack, *and the one in `last_ctx`*,
has a tag for each of its observations. The second half is needed for the same
reason as `Resumable`; that merging keeps the tags there were is the lemma.

**The refinement** needs no invariant beyond `IInv`: for each action a lemma
names the step of the gate it is, or that it is none. The stack of
authorities is moved by the same three ways the call stack is, and an admission
is allowed at every level because of `Linked`.

**`Workspaces`.** `Accounted` adds the free slots and the children that run and
finds the semaphore's size: each step of a request takes one, gives one back, or
neither, whether the run ends, times out or fails to start. `Fated` follows a
session id. An id is drawn once (`Unshared`), nobody has been told of it
before its creation ends (`Creating`), only a creation registers, and a request
that came after the deletion was answered gets no further than the lookup. So what
reset, eviction and expiry do to directories meanwhile does not matter for it.

`Kept` is about the directories: `Store` of the registry and the disk, `Ward` of
each request. Victims are chosen, unregistered and removed by the holder of the
lock, so each victim of a removal is still registered and nobody else's; and a creation
registers under the same lock after `_reap_locked` has made room for it
(`ReapMakesRoom`), which keeps the entries within the cap however many create at
once. That a registered session has its directory holds with no assumption, since a
directory is removed under the lock with its entry, and a reset empties a part
of it only. That no directory is left over is false, and `orphaned_workspace` shows
how. What is proved is which ones are: a directory without an owner is a stray, one that
a save, a reset or a child wrote to after its removal began, or that a failed creation
left. So the manager's own steps, in any interleaving, leave none: a victim's
directory that nobody touched since the listing has lost every file listed, and its
`rmdir` succeeds. The cap on directories follows, strays not counted. The order of eviction is a well-founded minimum (`Minimum`), as induction over the
set is out of the prover's reach.

`Restores` follows a reset from file to file: what it has copied back is there, or
its session is on its way out (`Going`). Nobody else may take a file away: a save
replaces, and a removal takes the whole session, its entry included, under the lock.
`Going` is stable (`GoingGoes`), because ids are not used twice, and the handler's
last lookup waits for the lock under which the removal runs, so a reset that lost
files this way is turned away instead of answered. A second reset is the one thing
that empties a directory that stays, hence `OneResetter`.

**`LiveModel`.** Besides types, `Inv` has three parts. `Routed`: where a request is in the code
decides its operation, its model and how often the router has fallen back, so
each step of the router has one place to come from. `Sourced`: every key at rest,
in a request or in the environment was meant for whoever reads it. It needs
`OneEditor`, as the second half of an update files the key under a provider the
first half set. `Restorable`: if every scope found the variable as it was, the
variable is as it was or a scope is open. That is inductive without counting scopes: one
that leaves puts back what it found, and overlapping ones do not all find it so.

**`Services`.** Each step of a handler has a lemma that says what it may do
to its call, the recorder and the loop; then what is answered was recorded or
refused (`AnsweredRecorded`), and a reset takes the answers of its service out of
what the property speaks of. `Boundary` follows a fetch from `Reach` to the line
in the egress or the blocked record. Reconciliation is the converse of
`ClaimsRecorded`, that the recorder holds nothing its owners were not told, and
it is about everybody else: whatever a handler recorded, its endpoint has ended
(`Deeds`), and whoever is at work on a service or stands in its recorder was asked
for since its last reset, unless `late` says otherwise (`Owned`). What makes the
two steps of a reset as good as one is `Exclusive`: the loop belongs to one async
handler or to the reset, and a handler that is on the loop holds it.

That `Services` implements `World` until a handler is late or two meet
needs `RInv`, which is `SInv` and four parts more. `Course`: what a handler has done
and found by where it is. `Disowned`: while a service is being reset no call of it
belongs to a run. `Apart`: in a service where nothing is late, met or being reset
(`Calm`), the handlers at work have their keys to themselves. `Agreed`: so there what
an endpoint's test found is still so when it acts, and is what it did. Of these
only the last is what the refinement wants; it is not inductive without the others,
as a key looked up may be taken by another handler, and is then kept by `Apart`.
The mapping is looked at key by key (`ShowsIt`): a file that is off its old name
and not yet at its new one shows at the new one, and no other handler is heading
there. Then the step at which `did` is set is the step of `World`, with its entry
in the log (`Does`, `Performs`); an answer that arrives is its claim; the first half
of a reset is its reset, as the store of a service under reset shows as it will be;
all the rest changes nothing that shows (`Unseen`). Each part of `RInv` was put to
TLC as an invariant of the `services` run before it was proved.

**`MutationMatrix`.** A probe that asks one question is a lemma of its own, and
`DirectFact` joins them: it holds exactly if its defeat is off. A probe that runs a plan
needs to know how the plan goes: `Mediates` and `Operates` are short, and `Shares`
has the three agents of the budget probe step by step where each has a budget of
its own (`Course`), because only the whole of it comes to six executions. `Hidden`
appears there: with the plan-time executor on, the plan is taken whole and comes to
three. TLC checks the whole of the invariant (`MInv`), too.

**`SharedBudget`.** `Locked`: between test and increment a thread holds the
lock, and what it read is what the count is. `Fortunes` adds what the three trackers
can come to with a limit of one.

**`Grading`.** `Talk` types the protocol: every line is an answer of the shape of
some call or a stray one, so whatever a probe computes with, having unpacked it,
is a number, and each probe has left one result. `Wire` says that a process that
prints nothing has one call on the way at most: the call, or its answer, or a dead
server. `Blame` says a dead server raised or was torn. With `Wire` every step of
grader and server is a step of `Battery` or none (`GradesAreBatteries`); the one that is
not obvious is the race, whose outcome, after any interleaving, is among those
`Battery` allows (`RaceComesTo`). The mapping takes an answer for given
when it is at the head of the pipe (`Heard`).

**Verdicts.** `VerdictProofs` first goes through the tables as the code has them:
fifteen probes, ten slots, fourteen challenges. `Truthful` is what a harness may
answer a call of a probe with, given what it may remember; `MayHold` and `MayBreak`
say that some such answers satisfy the probe's assertion, or fail it. A solution may break
no probe (`FixedHold`; DVAH-004 apart), the foreign runtime two (`ExternalHolds`),
and each defect that the battery covers fails a probe always (`VulnerableBreaks`, with
`Witness` naming the probe). Then the run: answers are those of the harness to that
call (`Told`), what the long-lived objects remember is harmless until the probe that
is denied (`Recalls`), so every verdict is one the harness may earn (`Scored`), which
is an invariant of `Battery` and carries over by the refinement. Stray lines are not
covered by that. `Spoilt` says what they cost, as long as none of them is an answer (`mimic`):
the first one is read as the answer awaited and fails its probe, whatever comes
after. So a grade that passes was told no stray line, or was told answers that its own code
printed; and in the first case its verdicts are earned. `Spoilt`, `Stages` and the part about
memory were put to TLC as invariants of the `grading` run before they were proved.

**Model-checked only.** Every invariant and action property that a passing run
checks, and each refinement, has its theorem above. `MutationMatrix` has no
constants, so its run is the whole of it; what the proofs add there is the
reason, probe by probe. Liveness (`Termination`, `Answered`, `EveryRequestServed`,
`Graded`) and whatever rests on `ENABLED` are outside what the prover handles and
stay with TLC.

## 5. What the code does otherwise than it says

Five have a run that ends in a counterexample.

* **Skills outlive the authority that loaded them** (`inherited_skills`).
  `RunContext.child` resets what it names and keeps skills, so a child with
  fewer capabilities speaks with a skill its own load would have flagged.
* **Directories that nobody owns** (`orphaned_workspace`). `_remove_locked` drops
  the entry of a directory whatever `rmtree(ignore_errors=True)` could not remove
  (`sessions.py:208`). A child that runs beside an eviction, an expiry or a
  deletion writes its caches or the learner's files there, a save or a reset works
  outside the lock: between listing and `rmdir` any of them makes the directory
  stay, and afterwards a reset (`sessions.py:315`) or a child can make it
  again. A `create` whose copy raises (`sessions.py:233`) leaves one that was never
  registered. Nothing will remove these.
* **Hosts that were reached and are not recorded** (`egress_record`). `MCPToolProvider`
  "records every host it actually reaches" (`mcp_tools.py:35`), but returns before it
  does so when a pinned server fails to identify itself (`mcp_tools.py:64`), be it
  that the server was killed after 15 s with the fetch under way. Without a pin it is the
  other way round: a server killed before it sent anything has its host recorded.
  `EgressContained` is what holds: nothing outside the allowlist is reached or
  recorded, and a record is incomplete only where a pinned server was rejected.
* **A stray line shifts every answer** (`stray_line`). The code under test shares
  the child's stdout with the protocol, and `_call` (`rpc.py:122`) takes the next
  line for its answer. One line printed during import is the answer to the first
  request, and from then on each probe is judged by the answer to the one
  before: INV-09 holds by what was answered for INV-08.
* **A reference solution fails the battery** (`reference_fails`).
  `loaded_adapter.py:104` rebuilds the broker with credentials; the solution of
  DVAH-004 takes none, the fallback redacts its own credential only, and INV-04
  counts as broken.

Met while modelling and without a run of their own:

* *Harness.* A charge the budget refuses and a delegation the depth limit
  refuses raise `Denied` and leave no `denied` event, from which `scoring.py`
  derives `blocked` (`broker.py:77`). The loader builds the policy without a
  registry and nothing reads `HarnessConfig.revocation` (`loader.py:263`).
  Occurrence ids repeat between siblings and between reflections
  (`context.py:47`); the accounting survives because it counts.
  `authorized_hashes` also reports approvals that were refused (`trace.py:66`).
  `find` stops at the first bound grant even if it is spent
  (`approvals.py:69`). A tool that reports failure spends the one-time grant
  (`broker.py:84`).
* *Models and settings.* Two overlapping Bedrock calls: the second remembers the
  first's token as what was there before, and puts it back last
  (`bedrock_model.py:28`). With `ANTHROPIC_API_KEY=` as in `.env.example`,
  `api_key` returns the empty string, the gate tests for `None`, and a live run is
  admitted that then degrades to the oracle. Two settings updates at once can
  file a key under the other's provider (`settings.py:111`).
* *Sessions.* Two resets of one session can answer with files missing
  (`sessions.py:314`). Of two concurrent runs the one that ends last decides
  `last_failing`, whichever code it ran (`app.py:133`).
* *Grading.* The rpc grader's result has no `tests`: the stream swallows the
  `KeyError` and closes without `done` (`app.py:209`), and `record_run` given
  such a result notes no failing test and no first green. An rpc grade holds no
  slot of the runner. `readline` (`rpc.py:122`) has no timeout. The container
  runner lets `TimeoutExpired` through and runs the directory `tests` where the
  other runs `evals`.
* *Battery.* Of the fourteen defects it never sees those of DVAH-005 and
  DVAH-014, sees DVAH-013 by schedule only (`docs/CONFORMANCE.md:28-32` reads as if
  the race always showed), and DVAH-011 by another invariant. Code under test that
  prints answers can pass with its defect (section 3).
* *Services.* Two concurrent deletions of one key both find it and are both
  recorded as done (`world_state.py:25`); a handler whose caller gave up acts and
  records in the run after the reset (`http_tools.py:41`). A list of the cloud's
  instances that meets a termination raises (`cloud/app.py:20`). No property covers the
  first two: `ImplementsWorld` and `HonestReconciles` except them by name.
* *Mutations.* Of the 16,384 combinations of defeats there is one way of hiding a
  defeat: a budget each agent has for itself is not seen while the plan-time
  executor is on, because that executor never delegates (`Hidden` in
  `MutationMatrix`).

## 6. Hazards

`PROJECT.json` lists, line by line, what in this code is hard to test. Most fall
in six groups: contexts that travel through a mutable field or are thrown away
(`loop.py`, `context.py`, `approvals.py`); authority that changes between its
examination and its use (`policy.py`, `broker.py`); directories used after the
lock under which they were looked up (`sessions.py`, `app.py`, `runner.py`,
`assembly.py`); process-wide state that threads write in pieces (`settings.py`,
`bedrock_model.py`); handlers that outlive the calls and the resets around them
(`services/`, `http_tools.py`, `mcp_tools.py`); and a battery that shares one
stdout with the code it tests, one harness among its probes, and rebuilds slots by
their type (`rpc.py`, `battery.py`, `loaded_adapter.py`). A hazard without a
property says why.

## 7. Plan

*Done.* `Guardrails`, `Harness`, `Mediation`; `Workspaces`; `MutationMatrix`;
`LiveModel`; the tools (`World`, `Services`), one budget under several threads
(`SharedBudget`), grading (`Adapters`, `Battery`, `Grading`); the theorems of section 4.

*Left.*

1. **Replay**: a recorded run fed back turn by turn reproduces decisions, as a
   refinement of `Harness` with a deterministic provider.
2. **Shared approvals**: `validate` and `consume` are two calls with the tool
   call between them. Nothing in the repository shares a service among threads
   today; it would be the next module if something did.
3. **`grade`**: the pytest path over an assembled copy, composed with the
   runner's slots of `Workspaces`.
4. **Lab page**: the browser's side of `Workspaces`, late answers of an earlier
   session.

## 8. Not modelled

* **Replay and the scheduler**: the first drives the modelled loop with recorded
  turns and is planned; the second runs callables in the order a test gives it,
  and `SharedBudget` has every order.
* **Hints, catalog and progress** read, or append, one value per request.
* **Secrets and memory** beyond what the battery asks of them: masking is a matter
  of characters, and no code under `harness/` recalls memory.
* **YAML and Markdown** matter through the state a run starts in, which is the
  constant `RootCtx`, and through the table `Challenges`.
* **`grade`**, which runs pytest over a copy: its runner is in `Workspaces`, over
  a session's directory, and its report is read there as a whole.
* **Replies of live models** are parsed into turns by string matching; a turn is
  any plan of `Plans`.
* **Learner code that removes files, writes outside its session's directory or
  leaves a process behind** after its child is reaped; the limits of the
  runner do not prevent it, and nothing about directories would then hold.
* **Prints of a background thread, and prints without a newline**, of code that is
  graded: their lines would come before, after or inside any answer.
* **The other commands of the CLI and the web pages** parse, start what is
  modelled, print and render.

## 9. Running

    tlc -workers 2 -config Tree.cfg MCHarness
    tlc -workers 2 -config Grading.cfg MCGrading
    tlapm HarnessProofs.tla

Runs and their configurations are listed in `PROJECT.json`; each takes between a
second and three minutes. The proofs take about twenty minutes.
