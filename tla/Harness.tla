------------------------------- MODULE Harness -------------------------------
(***************************************************************************)
(* One run of the DVAH agent harness: sessions that ask a model for turns, *)
(* plans executed step by step, delegation to child sessions, reflection   *)
(* on the accumulated context, and the broker that mediates every action   *)
(* (dvah/harness/{loop,executor,agent,broker,context}.py).                 *)
(*                                                                         *)
(* The Python call stack is the variable "stack": a session frame is a     *)
(* call of Harness.run_session, a plan frame a call of                     *)
(* BuiltinExecutor.execute_plan, and the broker's run_step is the last two *)
(* control points of a plan frame.  Only the top frame runs.  An exception *)
(* is caught by nobody below the caller of the run, so it ends the run.    *)
(*                                                                         *)
(* The environment revokes authority at any moment: the registry is a live *)
(* object shared with whoever holds it.  What the model proposes and what  *)
(* the tools answer are arbitrary members of Plans and Results.            *)
(***************************************************************************)
EXTENDS Guardrails, SequencesExt

CONSTANTS
  RootCtx,     \* the contexts a run may start with (scenario loader)
  Plans,       \* the plans a model may propose
  Results,     \* the results a tool may return
  Limit,       \* BuiltinBudgetTracker limit
  MaxActions,  \* constraints.max_actions, the loop's own bound
  MaxDepth,    \* constraints.delegation_depth
  MaxFrames,   \* the interpreter's recursion limit, in frames of this model
  PolicyHoldsRegistry, \* the policy was built with the live registry
  Revocations, \* the sets of <<namespace, action>> one revocation may add
  NoContext    \* Harness.last_ctx before the first plan

VARIABLES
  stack,       \* the frames of the running calls, innermost last
  lastCtx,     \* Harness.last_ctx
  spent,       \* BuiltinBudgetTracker._used
  nextGrant,   \* next id of BuiltinApprovalService._ids
  consumed,    \* BuiltinApprovalService._consumed
  revoked,     \* RevocationRegistry: the revoked <<namespace, action>> pairs
  status,      \* "running", or how the run ended
  trace,       \* TraceLog: the events that carry an action hash
  history      \* history variable: the executions with what licensed them

vars == <<stack, lastCtx, spent, nextGrant, consumed, revoked, status, trace,
          history>>

-----------------------------------------------------------------------------
(* The values of a run.                                                     *)

Ctx == [actor : Agent, chain : Seq(Agent), caps : SUBSET Capability,
        grants : Seq(Grant), observations : Seq(Observation),
        provenance : Provenance, used : Nat, skills : SUBSET Skill]

\* A step of a plan: an operation for the broker, or one of the executor's
\* two own actions.  "origin" says who proposed an operation: the model's
\* script, or an action embedded in the compiled context.
OpStep(op, origin) == [type |-> "op", op |-> op, origin |-> origin]

Step ==
  [type : {"op"}, op : Operation, origin : {"model", "context"}]
    \cup [type : {"delegate"}, child : Agent, requested : SUBSET Capability,
          policy : SUBSET Capability, skills : SUBSET Skill]
    \cup [type : {"reflect"}, scripted : BOOLEAN]

SessionAt == {"ask", "ran", "turned"}
PlanAt == {"step", "approve", "invoke"}

Frame == [at : SessionAt \cup PlanAt, ctx : Ctx, steps : Seq(Step),
          scripted : BOOLEAN, final : BOOLEAN, grant : Grant \cup {NoGrant}]

Session(ctx, scripted) ==
  [at |-> "ask", ctx |-> ctx, steps |-> << >>, scripted |-> scripted,
   final |-> FALSE, grant |-> NoGrant]

Plan(ctx, steps) ==
  [at |-> "step", ctx |-> ctx, steps |-> steps, scripted |-> TRUE,
   final |-> TRUE, grant |-> NoGrant]

Event == [kind : {"decision", "denied", "approval.used", "executed"},
          id : Int \X Nat, hash : Hash, verdict : Verdicts \cup {"none"}]

Execution == [actor : Agent, chain : Seq(Agent), op : Operation,
              grant : Grant \cup {NoGrant}, origin : {"model", "context"},
              late : BOOLEAN, ok : BOOLEAN]

ASSUME HarnessAssumption ==
  /\ RootCtx \subseteq Ctx
  /\ \A ctx \in RootCtx : ctx.chain = <<ctx.actor>> /\ ctx.used = 0
                          /\ ctx.observations = << >>
  /\ Plans \subseteq Seq(Step)
  /\ \A plan \in Plans : \A i \in DOMAIN plan : plan[i].type = "op" => plan[i].origin = "model"
  /\ Results \subseteq ToolResult
  /\ Revocations \subseteq SUBSET (Namespace \X ActionName)
  /\ Limit \in Nat /\ MaxActions \in Nat /\ MaxDepth \in Nat /\ MaxFrames \in Nat
  /\ PolicyHoldsRegistry \in BOOLEAN
  /\ NoGrant \notin Grant /\ NoContext \notin Ctx

-----------------------------------------------------------------------------
(* The stack.                                                               *)

Top == stack[Len(stack)]
Below == SubSeq(stack, 1, Len(stack) - 1)
WithTop(frame) == [stack EXCEPT ![Len(stack)] = frame]

Running(at) == status = "running" /\ Top.at = at

\* The top plan is at a step of this type.
AtStep(type) == Running("step") /\ Top.steps # << >> /\ Head(Top.steps).type = type

\* The top frame once its current step is done.
Advanced(ctx) == [Top EXCEPT !.at = "step", !.ctx = ctx, !.steps = Tail(@), !.grant = NoGrant]

\* The operation, hash and occurrence id of the step in the broker's hands.
TheOp == Head(Top.steps).op
TheHash == ActionHash(Top.ctx, TheOp)
TheEvent(kind, verdict) ==
  [kind |-> kind, id |-> NextActionId(Top.ctx), hash |-> TheHash, verdict |-> verdict]

-----------------------------------------------------------------------------
(* The agent loop: Harness.run_session.                                     *)

\* A turn that is not final proposes an operation of its own, as those of the one
\* session of the repository that goes on do (tests/integration/test_agent_loop.py).
Acts(plan) == \E i \in DOMAIN plan : plan[i].type = "op"

NextTurn ==
  /\ Running("ask")
  /\ \E plan \in Plans, final \in BOOLEAN :
       /\ Top.scripted => final
       /\ final \/ Acts(plan)
       /\ stack' = IF plan = << >>
                   THEN WithTop([Top EXCEPT !.at = "turned", !.final = final])
                   ELSE Append(WithTop([Top EXCEPT !.at = "ran", !.final = final]),
                               Plan(Top.ctx, plan))
  /\ UNCHANGED <<lastCtx, spent, nextGrant, consumed, revoked, status, trace, history>>

\* session.next raises: no provider could answer.
ProviderRaises ==
  /\ Running("ask")
  /\ status' = "failed"
  /\ UNCHANGED <<stack, lastCtx, spent, nextGrant, consumed, revoked, trace, history>>

\* After a plan the session resumes with the context the executor left in
\* last_ctx; a turn without calls left the session's context alone.
Resumed ==
  IF Top.at = "ran" /\ lastCtx # NoContext THEN lastCtx ELSE Top.ctx

\* Defect: the scripted session's end of script is not noticed.
LoopEndsAtBound == Resumed.used >= MaxActions

LoopEnds == Top.final \/ Resumed.used >= MaxActions

\* Defect: the context a child left in last_ctx becomes its caller's.
ReturnedWithLast ==
  IF Below = << >> \/ lastCtx = NoContext THEN Below
  ELSE [Below EXCEPT ![Len(Below)].ctx = lastCtx]

\* The caller of a finished session goes on with its own context.
Returned == Below

EndTurn ==
  /\ Running("ran") \/ Running("turned")
  /\ IF LoopEnds
     THEN /\ stack' = Returned
          /\ status' = IF Below = << >> THEN "finished" ELSE status
     ELSE /\ stack' = WithTop([Top EXCEPT !.at = "ask", !.ctx = Resumed])
          /\ UNCHANGED status
  /\ UNCHANGED <<lastCtx, spent, nextGrant, consumed, revoked, trace, history>>

-----------------------------------------------------------------------------
(* The executor: BuiltinExecutor.execute_plan and the calls it makes.       *)

EndPlan ==
  /\ Running("step")
  /\ Top.steps = << >>
  /\ lastCtx' = Top.ctx
  /\ stack' = Below
  /\ UNCHANGED <<spent, nextGrant, consumed, revoked, status, trace, history>>

\* attach_skill, called with no explicit approval and no pin: the approved
\* set is what the agent holds.
Attachable(skills, caps) ==
  {s \in skills : ~RequiresReapproval(LoadSkill(s, caps, TRUE))}

ChildCtx(ctx, step) ==
  LET caps == DeriveChild(step.requested, ctx.caps, step.policy)
  IN [ctx EXCEPT !.actor = step.child, !.chain = Append(@, step.child), !.caps = caps,
                 !.grants = << >>, !.observations = << >>, !.used = 0,
                 !.skills = @ \cup Attachable(step.skills, caps)]

Delegate ==
  /\ AtStep("delegate")
  /\ LET step == Head(Top.steps)
         child == ChildCtx(Top.ctx, step)
     IN IF Depth(Top.ctx) + 1 > MaxDepth
        THEN /\ status' = "denied"
             /\ UNCHANGED stack
        ELSE /\ Len(stack) < MaxFrames
             /\ stack' = Append(WithTop(Advanced(Top.ctx)), Session(child, TRUE))
             /\ UNCHANGED status
  /\ UNCHANGED <<lastCtx, spent, nextGrant, consumed, revoked, trace, history>>

\* What the model answers to the compiled context: a known follow-up task has
\* a script, otherwise it follows the instructions it finds there.
Reaction(ctx) ==
  {[i \in DOMAIN ops |-> OpStep(ops[i], "context")] :
      ops \in SetToSeqs(EmbeddedInstructions(ctx))}

Reflect ==
  /\ AtStep("reflect")
  /\ Len(stack) < MaxFrames
  /\ \E plan \in IF Head(Top.steps).scripted THEN Plans ELSE Reaction(Top.ctx) :
       stack' = Append(WithTop(Advanced(Top.ctx)), Plan(Top.ctx, plan))
  /\ UNCHANGED <<lastCtx, spent, nextGrant, consumed, revoked, status, trace, history>>

\* Python's recursion limit: a call that would nest deeper raises.
RecursionLimit ==
  /\ AtStep("delegate") \/ AtStep("reflect")
  /\ AtStep("delegate") => Depth(Top.ctx) + 1 <= MaxDepth
  /\ Len(stack) >= MaxFrames
  /\ status' = "failed"
  /\ UNCHANGED <<stack, lastCtx, spent, nextGrant, consumed, revoked, trace, history>>

-----------------------------------------------------------------------------
(* The broker: ActionBroker.run_step, in the three parts between which the  *)
(* rest of the world can act (an approval and a tool call take time).       *)

\* BuiltinPolicy consults the registry it was constructed with, if any.
Consulted == IF PolicyHoldsRegistry THEN revoked ELSE {}

BrokerAuthorize ==
  /\ AtStep("op")
  /\ LET verdict == Authorize(Top.ctx, TheOp, Consulted)
         decided == Append(trace, TheEvent("decision", verdict))
     IN /\ trace' = IF verdict = "deny" THEN Append(decided, TheEvent("denied", "none"))
                                        ELSE decided
        /\ status' = IF verdict = "deny" THEN "denied" ELSE status
        /\ stack' = CASE verdict = "deny"           -> stack
                      [] verdict = "needs_approval" -> WithTop([Top EXCEPT !.at = "approve"])
                      [] verdict = "allow"          -> WithTop([Top EXCEPT !.at = "invoke"])
  /\ UNCHANGED <<lastCtx, spent, nextGrant, consumed, revoked, history>>

\* The rest of the approval step once the grant is found or requested.
Approved(grant) ==
  IF ValidGrant(grant, TheHash, consumed)
  THEN /\ stack' = WithTop([Top EXCEPT !.at = "invoke", !.grant = grant,
                                       !.ctx.grants = Append(@, grant)])
       /\ trace' = Append(trace, TheEvent("approval.used", "none"))
       /\ UNCHANGED status
  ELSE /\ status' = "denied"
       /\ trace' = Append(trace, TheEvent("denied", "none"))
       /\ UNCHANGED stack

BrokerApprove ==
  /\ Running("approve")
  /\ \/ /\ \E i \in DOMAIN Top.ctx.grants :
             /\ IsFirstBound(Top.ctx.grants, TheHash, i)
             /\ Approved(Top.ctx.grants[i])
        /\ UNCHANGED nextGrant
     \/ /\ ~HasBound(Top.ctx.grants, TheHash)
        /\ Approved(FreshGrant(nextGrant, TheHash))
        /\ nextGrant' = nextGrant + 1
  /\ UNCHANGED <<lastCtx, spent, consumed, revoked, history>>

\* Defects: the limit is tested one too late; only the root agent's account
\* counts (mutation/broken.py, PerAgentBudgetTracker).
AffordableAtLimit == spent <= Limit
ChargedToRoot == IF Depth(Top.ctx) = 0 THEN spent + 1 ELSE spent

\* budget.charge: one account for the whole delegation tree.
Affordable == spent < Limit
Charged == spent + 1

\* The charge is refused: the run ends, and no event says so.
BudgetExhausted ==
  /\ Running("invoke")
  /\ ~Affordable
  /\ status' = "denied"
  /\ UNCHANGED <<stack, lastCtx, spent, nextGrant, consumed, revoked, trace, history>>

\* tools.invoke raises after the charge.
ToolRaises ==
  /\ Running("invoke")
  /\ Affordable
  /\ spent' = Charged
  /\ status' = "failed"
  /\ UNCHANGED <<stack, lastCtx, nextGrant, consumed, revoked, trace, history>>

\* The context after a result: tagged, merged, observed, ticked.
Observed(ctx, ns, result) ==
  LET trust == AssignedTrust(ns, result.trust)
  IN [ctx EXCEPT !.provenance = Merge(@, [source |-> ns, trust |-> trust]),
                 !.observations = Append(@, [source |-> ns, trust |-> trust,
                                             embeds |-> result.embeds]),
                 !.used = @ + 1]

\* Defect: a failed call is retried under the decision of the first try.
AfterRetry(result) ==
  IF result.ok THEN Advanced(Observed(Top.ctx, TheOp.ns, result)) ELSE Top

\* A result, failed or not, ends the step.
AfterResult(result) == Advanced(Observed(Top.ctx, TheOp.ns, result))

\* Defect: a one-time grant is never consumed.
SpentByNone(grant) == {}

SpentBy(grant) == IF grant # NoGrant /\ grant.oneTime THEN {grant.id} ELSE {}

BrokerExecute ==
  /\ Running("invoke")
  /\ Affordable
  /\ \E result \in Results :
       /\ stack' = WithTop(AfterResult(result))
       /\ history' = Append(history,
            [actor |-> Top.ctx.actor, chain |-> Top.ctx.chain, op |-> TheOp,
             grant |-> Top.grant, origin |-> Head(Top.steps).origin,
             late |-> Kind(TheOp) \in revoked, ok |-> result.ok])
  /\ spent' = Charged
  /\ trace' = Append(trace, TheEvent("executed", "none"))
  /\ consumed' = consumed \cup SpentBy(Top.grant)
  /\ UNCHANGED <<lastCtx, nextGrant, revoked, status>>

-----------------------------------------------------------------------------
(* The environment: RevocationRegistry.revoke_action, a singleton, and      *)
(* revoke_principal: the run has one principal, so all operations at once.  *)

Revoke ==
  /\ status = "running"
  /\ \E kinds \in Revocations : revoked' = revoked \cup kinds
  /\ revoked' # revoked
  /\ UNCHANGED <<stack, lastCtx, spent, nextGrant, consumed, status, trace, history>>

-----------------------------------------------------------------------------

Init ==
  /\ \E ctx \in RootCtx, scripted \in BOOLEAN : stack = <<Session(ctx, scripted)>>
  /\ lastCtx = NoContext
  /\ spent = 0
  /\ nextGrant = Len(stack[1].ctx.grants) + 1
  /\ consumed = {}
  /\ revoked = {}
  /\ status = "running"
  /\ trace = << >>
  /\ history = << >>

Run ==
  \/ NextTurn \/ ProviderRaises \/ EndTurn
  \/ EndPlan \/ Delegate \/ Reflect \/ RecursionLimit
  \/ BrokerAuthorize \/ BrokerApprove
  \/ BudgetExhausted \/ ToolRaises \/ BrokerExecute

Ended == status # "running" /\ UNCHANGED vars

Next == Run \/ Revoke \/ Ended

\* The harness is one thread that keeps running; nobody owes a revocation.
Spec == Init /\ [][Next]_vars /\ WF_vars(Run)

-----------------------------------------------------------------------------
(* Properties.                                                              *)

\* Type invariant; the budget never exceeds its limit.
TypeOK ==
  /\ stack \in Seq(Frame)
  /\ lastCtx \in Ctx \cup {NoContext}
  /\ spent \in 0 .. Limit
  /\ nextGrant \in Nat
  /\ consumed \subseteq Nat
  /\ revoked \subseteq Namespace \X ActionName
  /\ status \in {"running", "finished", "denied", "failed"}
  /\ trace \in Seq(Event)
  /\ history \in Seq(Execution)

\* INV-08, INV-02: at every moment the contexts on the call stack spell one
\* delegation chain, each call running for exactly the agent that was
\* delegated to and with no more authority than its caller, however contexts
\* travel through last_ctx (loop.py:84, executor.py:48).
LineageWellFormed ==
  \A i \in DOMAIN stack :
    LET ctx == stack[i].ctx
    IN IF i = 1 THEN ctx.chain = <<ctx.actor>>
       ELSE LET caller == stack[i - 1].ctx
            IN /\ ctx.caps \subseteq caller.caps
               /\ ctx.chain = IF stack[i].at \in SessionAt
                              THEN Append(caller.chain, ctx.actor)
                              ELSE caller.chain

\* INV-02, INV-13: whatever executes is permitted to every agent that waits
\* for it up the delegation chain, not only to the one that asked.
EffectsWithinLineage ==
  [][history' # history =>
       \A i \in DOMAIN stack : Permits(stack[i].ctx.caps, history'[Len(history')].op)]_vars

\* INV-06: every execution anywhere in the delegation tree is paid for from
\* the one account, so a child session brings no budget of its own.
TreeWithinBudget == Len(history) <= spent /\ spent <= Limit

\* INV-09: once an operation is revoked, at most the one execution that was
\* already past its authorization still happens.
RevocationBites ==
  \A i, j \in DOMAIN history :
    history[i].late /\ history[j].late /\ i < j => Kind(history[i].op) # Kind(history[j].op)

\* INV-03: an execution that needs approval used a grant for this very
\* action, resource and chain included.
ApprovalBindsExecution ==
  \A i \in DOMAIN history :
    Kind(history[i].op) \in ApprovalAction =>
      /\ history[i].grant # NoGrant
      /\ history[i].grant.hash =
           [actor |-> history[i].actor, chain |-> history[i].chain, op |-> history[i].op]

\* INV-03: a one-time grant licenses one execution, even when the context
\* that used it is discarded (a reflection) and the action comes up again.
OneTimeGrantLicensesOne ==
  \A i, j \in DOMAIN history :
    i # j /\ history[i].grant # NoGrant /\ history[i].grant.oneTime =>
      history[i].grant # history[j].grant

\* INV-01: TraceLog.unauthorized_executions() is empty: up to every executed
\* event there are at least as many allowing decisions for its occurrence id
\* and hash as executions.
SameOccurrence(e, f) == e.id = f.id /\ e.hash = f.hash
Allowing(e) == e.kind = "decision" /\ e.verdict \in {"allow", "needs_approval"}
EveryExecutionLicensed ==
  \A n \in DOMAIN trace : trace[n].kind = "executed" =>
    Cardinality({i \in 1 .. n : trace[i].kind = "executed" /\ SameOccurrence(trace[i], trace[n])})
      <= Cardinality({i \in 1 .. n : Allowing(trace[i]) /\ SameOccurrence(trace[i], trace[n])})

\* INV-05: whatever an agent has observed is still accounted for in its
\* provenance, source and trust, after any number of hops.
Tags(provenance) == ToSet(provenance.instructions) \cup ToSet(provenance.data)
ProvenanceCoversObservations ==
  \A i \in DOMAIN stack : \A n \in DOMAIN stack[i].ctx.observations :
    LET seen == stack[i].ctx.observations[n]
    IN [source |-> seen.source, trust |-> seen.trust] \in Tags(stack[i].ctx.provenance)

\* INV-06: no operation that a tool output carried is executed because the
\* model reflected on it.
DataNeverActs == \A i \in DOMAIN history : history[i].origin = "model"

\* A run ends, whatever the model proposes, by the budget and the loop bound.
Termination == <>(status # "running")

\* The harness implements the gate.
Powers(caps) == {op \in Operation : Permits(caps, op)}
Gate == INSTANCE Mediation WITH
          Effect <- Operation,
          authority <- [i \in DOMAIN stack |-> Powers(stack[i].ctx.caps)],
          withdrawn <- {op \in Operation : Kind(op) \in revoked},
          pending <- IF Running("approve") \/ Running("invoke") THEN {TheOp} ELSE {},
          performed <- Len(history),
          over <- status # "running"
ImplementsMediation == Gate!Spec

-----------------------------------------------------------------------------
(* A statement of the documentation that the code does not meet.            *)

\* An agent carries only skills its own capabilities could have loaded.
SkillsLoadedForHolder ==
  \A i \in DOMAIN stack : \A skill \in stack[i].ctx.skills :
    ~RequiresReapproval(LoadSkill(skill, stack[i].ctx.caps, TRUE))
===============================================================================
