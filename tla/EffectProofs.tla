---------------------------- MODULE EffectProofs ----------------------------
(***************************************************************************)
(* What is proved of the executions themselves: that they are paid for,    *)
(* authorized, approved for what they are, and asked for by the model.     *)
(* The module HarnessProofs says where the frames of the stack stand; the  *)
(* invariant here relates the step in the broker's hands to the history    *)
(* (EInv), and to the decisions of the trace, counted (LInv).  The last    *)
(* part is the refinement: every step of a run is a step of the gate of    *)
(* Mediation under the mapping of Harness, or changes nothing that the     *)
(* gate knows.                                                             *)
(***************************************************************************)
EXTENDS HarnessProofs

InBroker == Running("approve") \/ Running("invoke")

\* Executions that slipped past a revocation are of revoked kinds, and what
\* the broker has admitted since is of another kind.
LateAreRevoked ==
  \A i \in DOMAIN history : history[i].late => Kind(history[i].op) \in revoked
AdmittedIsFresh ==
  InBroker => \A i \in DOMAIN history : history[i].late => Kind(history[i].op) # Kind(TheOp)

\* The grant in the broker's hands is for this action and still unspent.
AdmittedIsBound ==
  Running("invoke") =>
    /\ Kind(TheOp) \in ApprovalAction => Top.grant # NoGrant
    /\ Top.grant # NoGrant =>
         Top.grant.hash = TheHash /\ ~(Top.grant.oneTime /\ Top.grant.id \in consumed)

UsedAreConsumed ==
  \A i \in DOMAIN history :
    history[i].grant # NoGrant /\ history[i].grant.oneTime => history[i].grant.id \in consumed

Paid == Len(history) <= spent

\* A revocation that the policy consults.
Revocable == PolicyHoldsRegistry => LateAreRevoked /\ AdmittedIsFresh /\ RevocationBites

Granted ==
  AdmittedIsBound /\ UsedAreConsumed /\ ApprovalBindsExecution /\ OneTimeGrantLicensesOne

EInv == Paid /\ Revocable /\ Granted /\ DataNeverActs

LEMMA InitEffects == Init => EInv
<1>1. SUFFICES ASSUME Init PROVE EInv
  OBVIOUS
<1>2. history = << >> /\ DOMAIN history = {} /\ Len(history) = 0 /\ spent = 0
  BY <1>1 DEF Init
<1>3. ~InBroker
  <2>1. PICK ctx \in RootCtx, scripted \in BOOLEAN : stack = <<Session(ctx, scripted)>>
    BY <1>1 DEF Init
  <2>2. Top.at = "ask"
    BY <2>1 DEF Top, Session
  <2>. QED
    BY <2>2 DEF InBroker, Running
<1>. QED
  BY <1>2, <1>3
  DEF EInv, Paid, Revocable, Granted, LateAreRevoked, AdmittedIsFresh, RevocationBites,
      AdmittedIsBound, UsedAreConsumed, ApprovalBindsExecution, OneTimeGrantLicensesOne,
      DataNeverActs, InBroker

\* A step that executes nothing and leaves nothing admitted.
LEMMA QuietStep ==
  ASSUME IInv, EInv, Settled',
         UNCHANGED <<history, consumed>>, revoked \subseteq revoked',
         spent' = spent \/ spent' = spent + 1
  PROVE  EInv'
<1>1. Paid'
  BY DEF EInv, Paid, IInv, TypeOK
<1>2. Revocable'
  BY DEF EInv, Revocable, LateAreRevoked, AdmittedIsFresh, InBroker, RevocationBites, Settled
<1>3. Granted'
  BY DEF EInv, Granted, AdmittedIsBound, UsedAreConsumed, ApprovalBindsExecution,
     OneTimeGrantLicensesOne, Settled
<1>4. DataNeverActs'
  BY DEF EInv, DataNeverActs
<1>. QED
  BY <1>1, <1>2, <1>3, <1>4 DEF EInv

\* A step that moves nothing but the registry, the budget or the status.
LEMMA StandingStep ==
  ASSUME IInv, EInv, UNCHANGED <<stack, history, consumed>>, revoked \subseteq revoked',
         status' = "running" => status = "running",
         spent' = spent \/ spent' = spent + 1
  PROVE  EInv'
<1>1. Paid'
  BY DEF EInv, Paid, IInv, TypeOK
<1>2. Top' = Top /\ TheOp' = TheOp /\ TheHash' = TheHash
  BY DEF Top, TheOp, TheHash
<1>3. (Running("approve")' => Running("approve")) /\ (Running("invoke")' => Running("invoke"))
  BY <1>2 DEF Running
<1>4. Revocable'
  BY <1>2, <1>3 DEF EInv, Revocable, LateAreRevoked, AdmittedIsFresh, InBroker, RevocationBites
<1>5. Granted'
  BY <1>2, <1>3 DEF EInv, Granted, AdmittedIsBound, UsedAreConsumed, ApprovalBindsExecution,
     OneTimeGrantLicensesOne
<1>6. DataNeverActs'
  BY DEF EInv, DataNeverActs
<1>. QED
  BY <1>1, <1>4, <1>5, <1>6 DEF EInv

\* What the broker does to the top of the stack.
LEMMA BrokerTop ==
  ASSUME IInv, status = "running", NEW frame, stack' = WithTop(frame)
  PROVE  Top' = frame
<1>1. stack \in Seq(Frame) /\ stack # << >>
  BY RunningTop
<1>2. PICK n \in Nat : n = Len(stack) /\ n >= 1 /\ DOMAIN stack = 1 .. n
  BY <1>1, LastElement
<1>3. stack' = [stack EXCEPT ![n] = frame]
  BY <1>2 DEF WithTop
<1>4. Len(stack') = n
  BY <1>1, <1>2, <1>3
<1>5. stack'[n] = frame
  BY <1>1, <1>2, <1>3
<1>. QED
  BY <1>4, <1>5 DEF Top

\* Authorization consults the registry, and what it admits without approval
\* needs none.
LEMMA AuthorizeEffects ==
  ASSUME IInv, EInv, BrokerAuthorize PROVE EInv'
<1>1. /\ status = "running" /\ Top.at = "step"
      /\ Top.steps # << >> /\ Head(Top.steps).type = "op"
      /\ UNCHANGED <<spent, consumed, revoked, history>>
  BY DEF BrokerAuthorize, AtStep, Running
<1>2. Top \in Frame /\ Sound(Top)
  BY <1>1, RunningTop
<1> DEFINE verdict == Authorize(Top.ctx, TheOp, Consulted)
<1>3. /\ verdict \in Verdicts
      /\ verdict # "deny" => Kind(TheOp) \notin Consulted
      /\ verdict = "allow" => Kind(TheOp) \notin ApprovalAction
  BY AuthorizeVerdict
<1> HIDE DEF verdict
<1>4. CASE verdict = "deny"
  BY <1>1, <1>4, StandingStep DEF BrokerAuthorize, verdict
<1>5. CASE verdict # "deny"
  <2>1. PICK at \in {"approve", "invoke"} :
          /\ stack' = WithTop([Top EXCEPT !.at = at]) /\ status' = status
          /\ at = "invoke" => verdict = "allow"
    BY <1>3, <1>5 DEF BrokerAuthorize, verdict, Verdicts
  <2>2. Top' = [Top EXCEPT !.at = at]
    BY <1>1, <2>1, BrokerTop
  <2>3. /\ Top'.at = at /\ Top'.ctx = Top.ctx /\ Top'.steps = Top.steps
        /\ Top'.grant = NoGrant
    BY <1>1, <1>2, <2>2, AtFrame DEF PlanAt, Sound
  <2>4. TheOp' = TheOp /\ TheHash' = TheHash
    BY <2>3 DEF TheOp, TheHash
  <2>5. Paid'
    BY <1>1 DEF EInv, Paid
  <2>6. Revocable'
    <3>1. SUFFICES ASSUME PolicyHoldsRegistry
                   PROVE  (LateAreRevoked /\ AdmittedIsFresh /\ RevocationBites)'
      BY DEF Revocable
    <3>2. Kind(TheOp) \notin revoked
      BY <1>3, <1>5, <3>1 DEF Consulted
    <3>. QED
      BY <1>1, <2>4, <3>1, <3>2
      DEF EInv, Revocable, LateAreRevoked, AdmittedIsFresh, RevocationBites
  <2>7. Granted'
    <3>1. AdmittedIsBound'
      BY <1>3, <2>1, <2>3, <2>4 DEF AdmittedIsBound, Running
    <3>. QED
      BY <1>1, <3>1
      DEF EInv, Granted, UsedAreConsumed, ApprovalBindsExecution, OneTimeGrantLicensesOne
  <2>8. DataNeverActs'
    BY <1>1 DEF EInv, DataNeverActs
  <2>. QED
    BY <2>5, <2>6, <2>7, <2>8 DEF EInv
<1>. QED
  BY <1>4, <1>5

\* A valid grant is bound to this action and unspent; which action it is does
\* not change while the approval is awaited.
LEMMA ApproveEffects ==
  ASSUME IInv, EInv, BrokerApprove PROVE EInv'
<1>1. /\ status = "running" /\ Top.at = "approve" /\ Running("approve")
      /\ UNCHANGED <<spent, consumed, revoked, history>>
  BY DEF BrokerApprove, Running
<1>2. Top \in Frame /\ Top.ctx \in Ctx
  BY <1>1, RunningTop
<1>3. PICK grant :
        /\ Approved(grant)
        /\ \/ \E i \in DOMAIN Top.ctx.grants : grant = Top.ctx.grants[i]
           \/ grant = FreshGrant(nextGrant, TheHash)
  BY DEF BrokerApprove
<1>4. CASE ~ValidGrant(grant, TheHash, consumed)
  BY <1>1, <1>3, <1>4, StandingStep DEF Approved
<1>5. CASE ValidGrant(grant, TheHash, consumed)
  <2>1. /\ stack' = WithTop([Top EXCEPT !.at = "invoke", !.grant = grant,
                                        !.ctx.grants = Append(@, grant)])
        /\ status' = status
    BY <1>3, <1>5 DEF Approved
  <2>2. Top' = [Top EXCEPT !.at = "invoke", !.grant = grant, !.ctx.grants = Append(@, grant)]
    BY <1>1, <2>1, BrokerTop
  <2>3. /\ Top'.at = "invoke" /\ Top'.steps = Top.steps /\ Top'.grant = grant
        /\ Top'.ctx.actor = Top.ctx.actor /\ Top'.ctx.chain = Top.ctx.chain
    BY <1>2, <2>2 DEF Frame, Ctx
  <2>4. TheOp' = TheOp /\ TheHash' = TheHash
    BY <2>3 DEF TheOp, TheHash, ActionHash
  <2>5. grant.hash = TheHash /\ ~(grant.oneTime /\ grant.id \in consumed)
    BY <1>5 DEF ValidGrant
  <2>6. grant # NoGrant
    <3>1. CASE \E i \in DOMAIN Top.ctx.grants : grant = Top.ctx.grants[i]
      BY <1>2, <3>1, HarnessAssumption DEF Ctx
    <3>2. CASE grant = FreshGrant(nextGrant, TheHash)
      <4>1. TheHash \in Hash
        BY <1>1, RunningTop, TheStep DEF Sound
      <4>2. grant \in Grant
        BY <3>2, <4>1 DEF FreshGrant, Grant, IInv, TypeOK
      <4>. QED
        BY <4>2, HarnessAssumption
    <3>. QED
      BY <1>3, <3>1, <3>2
  <2>7. Paid'
    BY <1>1 DEF EInv, Paid
  <2>8. Revocable'
    BY <1>1, <2>4 DEF EInv, Revocable, LateAreRevoked, AdmittedIsFresh, InBroker, RevocationBites
  <2>9. Granted'
    <3>1. AdmittedIsBound'
      BY <1>1, <2>3, <2>4, <2>5, <2>6 DEF AdmittedIsBound
    <3>. QED
      BY <1>1, <3>1
      DEF EInv, Granted, UsedAreConsumed, ApprovalBindsExecution, OneTimeGrantLicensesOne
  <2>10. DataNeverActs'
    BY <1>1 DEF EInv, DataNeverActs
  <2>. QED
    BY <2>7, <2>8, <2>9, <2>10 DEF EInv
<1>. QED
  BY <1>4, <1>5

\* An execution appends itself to the history.
LEMMA ExecuteEffects ==
  ASSUME IInv, EInv, BrokerExecute PROVE EInv'
<1>1. /\ status = "running" /\ Top.at = "invoke" /\ Running("invoke")
      /\ spent' = spent + 1 /\ revoked' = revoked
      /\ consumed' = consumed \cup SpentBy(Top.grant)
  BY DEF BrokerExecute, Running, Charged
<1>2. Settled'
  BY BrokerExecuteStep
<1>3. Top \in Frame /\ Sound(Top) /\ TypeOK
  BY <1>1, RunningTop
<1> DEFINE late == Kind(TheOp) \in revoked
<1>4. PICK execution :
        /\ history' = Append(history, execution)
        /\ execution.actor = Top.ctx.actor /\ execution.chain = Top.ctx.chain
        /\ execution.op = TheOp /\ execution.grant = Top.grant
        /\ execution.origin = Head(Top.steps).origin
        /\ execution.late = late
  BY DEF BrokerExecute
<1>5. PICK n \in Nat : n = Len(history)
  BY <1>3 DEF TypeOK
<1>6. /\ DOMAIN history = 1 .. n /\ DOMAIN history' = 1 .. n + 1 /\ Len(history') = n + 1
      /\ history'[n + 1] = execution
      /\ \A i \in 1 .. n : history'[i] = history[i]
  <2>1. history \in Seq(Execution)
    BY <1>3 DEF TypeOK
  <2>. QED
    BY <1>4, <1>5, <2>1
<1>7. Paid'
  BY <1>1, <1>3, <1>5, <1>6 DEF EInv, Paid, TypeOK
<1>8. Revocable'
  <2>1. SUFFICES ASSUME PolicyHoldsRegistry
                 PROVE  (LateAreRevoked /\ AdmittedIsFresh /\ RevocationBites)'
    BY DEF Revocable
  <2>2. LateAreRevoked /\ AdmittedIsFresh /\ RevocationBites
    BY <2>1 DEF EInv, Revocable
  <2>3. LateAreRevoked'
    <3>1. execution.late => Kind(execution.op) \in revoked
      BY <1>4
    <3> HIDE DEF late
    <3>2. ASSUME NEW i \in 1 .. n + 1, history'[i].late
          PROVE  Kind(history'[i].op) \in revoked
      <4>1. CASE i \in 1 .. n
        BY <1>6, <2>2, <3>2, <4>1 DEF LateAreRevoked
      <4>2. CASE i = n + 1
        BY <1>6, <3>1, <3>2, <4>2
      <4>. QED
        BY <4>1, <4>2
    <3>. QED
      BY <1>1, <1>6, <3>2 DEF LateAreRevoked
  <2>4. AdmittedIsFresh'
    BY <1>2 DEF AdmittedIsFresh, InBroker, Settled
  <2>5. \A i \in 1 .. n : history[i].late => Kind(history[i].op) # Kind(execution.op)
    BY <1>1, <1>4, <1>6, <2>2 DEF AdmittedIsFresh, InBroker
  <2>6. RevocationBites'
    <3>1. SUFFICES ASSUME NEW i \in 1 .. n + 1, NEW j \in 1 .. n + 1,
                          history'[i].late, history'[j].late, i < j
                   PROVE  Kind(history'[i].op) # Kind(history'[j].op)
      BY <1>6 DEF RevocationBites
    <3>2. i \in 1 .. n /\ history'[i] = history[i]
      BY <1>6, <3>1
    <3>3. CASE j = n + 1
      BY <1>6, <2>5, <3>1, <3>2, <3>3
    <3>4. CASE j \in 1 .. n
      BY <1>6, <2>2, <3>1, <3>2, <3>4 DEF RevocationBites
    <3>. QED
      BY <3>1, <3>3, <3>4
  <2>. QED
    BY <2>3, <2>4, <2>6
<1>9. Granted'
  <2>1. /\ Kind(TheOp) \in ApprovalAction => Top.grant # NoGrant
        /\ Top.grant # NoGrant =>
             Top.grant.hash = TheHash /\ ~(Top.grant.oneTime /\ Top.grant.id \in consumed)
        /\ UsedAreConsumed /\ ApprovalBindsExecution /\ OneTimeGrantLicensesOne
    BY <1>1 DEF EInv, Granted, AdmittedIsBound
  <2>2. AdmittedIsBound'
    BY <1>2 DEF AdmittedIsBound, Settled
  <2>3. UsedAreConsumed'
    <3>1. execution.grant # NoGrant /\ execution.grant.oneTime =>
            execution.grant.id \in consumed'
      BY <1>1, <1>4 DEF SpentBy
    <3>. QED
      BY <1>1, <1>6, <2>1, <3>1 DEF UsedAreConsumed
  <2>4. ApprovalBindsExecution'
    <3>1. TheHash = [actor |-> execution.actor, chain |-> execution.chain, op |-> execution.op]
      BY <1>4 DEF TheHash, ActionHash
    <3>2. Kind(execution.op) \in ApprovalAction =>
            /\ execution.grant # NoGrant
            /\ execution.grant.hash =
                 [actor |-> execution.actor, chain |-> execution.chain, op |-> execution.op]
      BY <1>4, <2>1, <3>1
    <3>. QED
      BY <1>6, <2>1, <3>2 DEF ApprovalBindsExecution
  <2>5. OneTimeGrantLicensesOne'
    <3>1. \A i \in 1 .. n : history[i].grant # NoGrant /\ history[i].grant.oneTime =>
            history[i].grant # execution.grant
      BY <1>4, <1>6, <2>1 DEF UsedAreConsumed
    <3>2. SUFFICES ASSUME NEW i \in 1 .. n + 1, NEW j \in 1 .. n + 1, i # j,
                          history'[i].grant # NoGrant, history'[i].grant.oneTime
                   PROVE  history'[i].grant # history'[j].grant
      BY <1>6 DEF OneTimeGrantLicensesOne
    <3>3. CASE i \in 1 .. n /\ j \in 1 .. n
      BY <1>6, <2>1, <3>2, <3>3 DEF OneTimeGrantLicensesOne
    <3>4. CASE i \in 1 .. n /\ j = n + 1
      BY <1>6, <3>1, <3>2, <3>4
    <3>5. CASE i = n + 1 /\ j \in 1 .. n
      BY <1>6, <3>1, <3>2, <3>5
    <3>. QED
      BY <3>2, <3>3, <3>4, <3>5
  <2>. QED
    BY <2>2, <2>3, <2>4, <2>5 DEF Granted
<1>10. DataNeverActs'
  <2>1. execution.origin = "model"
    BY <1>1, <1>3, <1>4, TheStep DEF Sound
  <2>. QED
    BY <1>6, <2>1 DEF EInv, DataNeverActs
<1>. QED
  BY <1>7, <1>8, <1>9, <1>10 DEF EInv

LEMMA NextEffects == IInv /\ EInv /\ [Next]_vars => EInv'
<1>1. SUFFICES ASSUME IInv, EInv, [Next]_vars PROVE EInv'
  OBVIOUS
<1>2. CASE NextTurn
  <2>1. UNCHANGED <<history, consumed, revoked, spent>>
    BY <1>2 DEF NextTurn
  <2>. QED
    BY <1>1, <1>2, <2>1, NextTurnStep, QuietStep
<1>3. CASE EndTurn
  <2>1. UNCHANGED <<history, consumed, revoked, spent>>
    BY <1>3 DEF EndTurn
  <2>. QED
    BY <1>1, <1>3, <2>1, EndTurnStep, QuietStep
<1>4. CASE EndPlan
  <2>1. UNCHANGED <<history, consumed, revoked, spent>>
    BY <1>4 DEF EndPlan
  <2>. QED
    BY <1>1, <1>4, <2>1, EndPlanStep, QuietStep
<1>5. CASE Delegate
  <2>1. UNCHANGED <<history, consumed, revoked, spent>>
    BY <1>5 DEF Delegate
  <2>. QED
    BY <1>1, <1>5, <2>1, DelegateStep, QuietStep
<1>6. CASE Reflect
  <2>1. UNCHANGED <<history, consumed, revoked, spent>>
    BY <1>6 DEF Reflect
  <2>. QED
    BY <1>1, <1>6, <2>1, ReflectStep, QuietStep
<1>7. CASE BrokerAuthorize
  BY <1>1, <1>7, AuthorizeEffects
<1>8. CASE BrokerApprove
  BY <1>1, <1>8, ApproveEffects
<1>9. CASE BrokerExecute
  BY <1>1, <1>9, ExecuteEffects
<1>10. CASE ProviderRaises \/ RecursionLimit \/ BudgetExhausted \/ ToolRaises
  <2>1. /\ UNCHANGED <<stack, history, consumed, revoked>>
        /\ status' # "running"
        /\ spent' = spent \/ spent' = spent + 1
    BY <1>10 DEF ProviderRaises, RecursionLimit, BudgetExhausted, ToolRaises, Charged
  <2>. QED
    BY <1>1, <2>1, StandingStep
<1>11. CASE Revoke
  <2>1. /\ UNCHANGED <<stack, history, consumed, spent, status>>
        /\ revoked \subseteq revoked'
    BY <1>11 DEF Revoke
  <2>. QED
    BY <1>1, <2>1, StandingStep
<1>12. CASE UNCHANGED vars
  <2>1. UNCHANGED <<stack, history, consumed, spent, status, revoked>>
    BY <1>12 DEF vars
  <2>. QED
    BY <1>1, <2>1, StandingStep
<1>. QED
  BY <1>1, <1>2, <1>3, <1>4, <1>5, <1>6, <1>7, <1>8, <1>9, <1>10, <1>11, <1>12
  DEF Next, Run, Ended

LEMMA EffectInvariance == Spec => [](IInv /\ EInv)
<1>1. Init => IInv /\ EInv
  BY InitInvariant, InitEffects
<1>2. (IInv /\ EInv) /\ [Next]_vars => (IInv /\ EInv)'
  BY NextInvariant, NextEffects
<1>. QED
  BY <1>1, <1>2, PTL DEF Spec

-----------------------------------------------------------------------------

\* INV-06: every execution of the delegation tree has been paid for from the
\* one account, and the account never exceeds its limit (budget.py:36).
THEOREM BudgetIsShared == Spec => []TreeWithinBudget
<1>1. IInv /\ EInv => TreeWithinBudget
  BY HarnessAssumption DEF IInv, EInv, TypeOK, Paid, TreeWithinBudget
<1>. QED
  BY <1>1, EffectInvariance, PTL

\* INV-09: of each revoked kind of operation at most one execution slips past
\* the revocation, provided the policy holds the live registry (policy.py:84).
THEOREM RevocationTakesEffect ==
  ASSUME PolicyHoldsRegistry PROVE Spec => []RevocationBites
<1>1. IInv /\ EInv => RevocationBites
  BY DEF EInv, Revocable
<1>. QED
  BY <1>1, EffectInvariance, PTL

\* INV-03: what needed approval was executed with a grant bound to exactly
\* that action, resource and chain (broker.py:58).
THEOREM ApprovalIsBound == Spec => []ApprovalBindsExecution
<1>1. IInv /\ EInv => ApprovalBindsExecution
  BY DEF EInv, Granted
<1>. QED
  BY <1>1, EffectInvariance, PTL

\* INV-03: no two executions share a one-time grant, across reflections and
\* delegations that forget that it was used (approvals.py:57).
THEOREM OneTimeIsOnce == Spec => []OneTimeGrantLicensesOne
<1>1. IInv /\ EInv => OneTimeGrantLicensesOne
  BY DEF EInv, Granted
<1>. QED
  BY <1>1, EffectInvariance, PTL

\* INV-06: an operation that a tool output carried is never executed because
\* the model saw it (compiler.py:83).
THEOREM ObservedDataNeverActs == Spec => []DataNeverActs
<1>1. IInv /\ EInv => DataNeverActs
  BY DEF EInv
<1>. QED
  BY <1>1, EffectInvariance, PTL

-----------------------------------------------------------------------------
(* Executions and the decisions that allowed them, counted: occurrence ids  *)
(* repeat between siblings and reflections, so that one decision could seem *)
(* to license two executions.  For every occurrence the trace has at least  *)
(* as many allowing decisions as executions, and one more while the broker  *)
(* holds the step.                                                          *)

Executed(t, e) == {i \in DOMAIN t : t[i].kind = "executed" /\ SameOccurrence(t[i], e)}
Licences(t, e) == {i \in DOMAIN t : Allowing(t[i]) /\ SameOccurrence(t[i], e)}

\* EveryExecutionLicensed of any trace.
Licit(t) ==
  \A n \in DOMAIN t : t[n].kind = "executed" =>
    Cardinality({i \in 1 .. n : t[i].kind = "executed" /\ SameOccurrence(t[i], t[n])})
      <= Cardinality({i \in 1 .. n : Allowing(t[i]) /\ SameOccurrence(t[i], t[n])})

Balanced(t) == \A e \in Event : Cardinality(Executed(t, e)) <= Cardinality(Licences(t, e))

\* The event that the step in the broker's hands will leave.
Held == TheEvent("executed", "none")

InHand ==
  InBroker =>
    \A e \in Event : SameOccurrence(Held, e) =>
      Cardinality(Executed(trace, e)) + 1 <= Cardinality(Licences(trace, e))

LInv == Licit(trace) /\ Balanced(trace) /\ InHand

-----------------------------------------------------------------------------
(* Traces.                                                                  *)

LEMMA Counted ==
  ASSUME NEW t \in Seq(Event), NEW e
  PROVE  /\ IsFiniteSet(Executed(t, e)) /\ Cardinality(Executed(t, e)) \in Nat
         /\ IsFiniteSet(Licences(t, e)) /\ Cardinality(Licences(t, e)) \in Nat
<1>1. DOMAIN t = 1 .. Len(t) /\ Len(t) \in Nat
  OBVIOUS
<1>2. IsFiniteSet(DOMAIN t)
  BY <1>1, FS_Interval
<1>3. Executed(t, e) \subseteq DOMAIN t /\ Licences(t, e) \subseteq DOMAIN t
  BY DEF Executed, Licences
<1>. QED
  BY <1>2, <1>3, FS_Subset, FS_CardinalityType

LEMMA Appended ==
  ASSUME NEW t \in Seq(Event), NEW ev \in Event
  PROVE  LET u == Append(t, ev)
         IN /\ u \in Seq(Event) /\ Len(t) \in Nat
            /\ DOMAIN t = 1 .. Len(t) /\ DOMAIN u = 1 .. Len(t) + 1
            /\ \A i \in 1 .. Len(t) : u[i] = t[i]
            /\ u[Len(t) + 1] = ev
OBVIOUS

\* An event counts once, as an execution or as a licence of its occurrence.
LEMMA AppendCounts ==
  ASSUME NEW t \in Seq(Event), NEW ev \in Event, NEW e
  PROVE  LET u == Append(t, ev)
         IN /\ Cardinality(Executed(u, e)) =
                 IF ev.kind = "executed" /\ SameOccurrence(ev, e)
                 THEN Cardinality(Executed(t, e)) + 1 ELSE Cardinality(Executed(t, e))
            /\ Cardinality(Licences(u, e)) =
                 IF Allowing(ev) /\ SameOccurrence(ev, e)
                 THEN Cardinality(Licences(t, e)) + 1 ELSE Cardinality(Licences(t, e))
<1> DEFINE u == Append(t, ev)
           last == Len(t) + 1
<1>1. /\ u \in Seq(Event) /\ Len(t) \in Nat
      /\ DOMAIN t = 1 .. Len(t) /\ DOMAIN u = 1 .. Len(t) + 1
      /\ \A i \in 1 .. Len(t) : u[i] = t[i]
      /\ u[Len(t) + 1] = ev
  BY Appended
<1> HIDE DEF u
<1>2. /\ last \notin DOMAIN t /\ DOMAIN u = DOMAIN t \cup {last}
      /\ u[last] = ev /\ \A i \in DOMAIN t : u[i] = t[i]
  BY <1>1
<1> HIDE DEF last
<1>3. Cardinality(Executed(u, e)) =
        IF ev.kind = "executed" /\ SameOccurrence(ev, e)
        THEN Cardinality(Executed(t, e)) + 1 ELSE Cardinality(Executed(t, e))
  <2>1. CASE ev.kind = "executed" /\ SameOccurrence(ev, e)
    <3>1. Executed(u, e) = Executed(t, e) \cup {last} /\ last \notin Executed(t, e)
      BY <1>2, <2>1 DEF Executed
    <3>. QED
      BY <2>1, <3>1, Counted, FS_AddElement
  <2>2. CASE ~(ev.kind = "executed" /\ SameOccurrence(ev, e))
    <3>1. Executed(u, e) = Executed(t, e)
      BY <1>2, <2>2 DEF Executed
    <3>. QED
      BY <2>2, <3>1
  <2>. QED
    BY <2>1, <2>2
<1>4. Cardinality(Licences(u, e)) =
        IF Allowing(ev) /\ SameOccurrence(ev, e)
        THEN Cardinality(Licences(t, e)) + 1 ELSE Cardinality(Licences(t, e))
  <2>1. CASE Allowing(ev) /\ SameOccurrence(ev, e)
    <3>1. Licences(u, e) = Licences(t, e) \cup {last} /\ last \notin Licences(t, e)
      BY <1>2, <2>1 DEF Licences
    <3>. QED
      BY <2>1, <3>1, Counted, FS_AddElement
  <2>2. CASE ~(Allowing(ev) /\ SameOccurrence(ev, e))
    <3>1. Licences(u, e) = Licences(t, e)
      BY <1>2, <2>2 DEF Licences
    <3>. QED
      BY <2>2, <3>1
  <2>. QED
    BY <2>1, <2>2
<1>. QED
  BY <1>3, <1>4 DEF u

\* What a trace said up to an event stays said.
LEMMA LicitAppend ==
  ASSUME NEW t \in Seq(Event), NEW ev \in Event, Licit(t),
         ev.kind = "executed" =>
           Cardinality(Executed(Append(t, ev), ev)) <= Cardinality(Licences(Append(t, ev), ev))
  PROVE  Licit(Append(t, ev))
<1> DEFINE u == Append(t, ev)
<1>1. /\ u \in Seq(Event) /\ Len(t) \in Nat
      /\ DOMAIN t = 1 .. Len(t) /\ DOMAIN u = 1 .. Len(t) + 1
      /\ \A i \in 1 .. Len(t) : u[i] = t[i]
      /\ u[Len(t) + 1] = ev
  BY Appended
<1>2. ev.kind = "executed" => Cardinality(Executed(u, ev)) <= Cardinality(Licences(u, ev))
  OBVIOUS
<1> HIDE DEF u
<1>3. ASSUME NEW n \in DOMAIN u, u[n].kind = "executed"
      PROVE  Cardinality({i \in 1 .. n : u[i].kind = "executed" /\ SameOccurrence(u[i], u[n])})
               <= Cardinality({i \in 1 .. n : Allowing(u[i]) /\ SameOccurrence(u[i], u[n])})
  <2>1. CASE n = Len(t) + 1
    <3>1. /\ {i \in 1 .. n : u[i].kind = "executed" /\ SameOccurrence(u[i], u[n])} =
               Executed(u, ev)
          /\ {i \in 1 .. n : Allowing(u[i]) /\ SameOccurrence(u[i], u[n])} = Licences(u, ev)
      BY <1>1, <2>1 DEF Executed, Licences
    <3>. QED
      BY <1>1, <1>2, <1>3, <2>1, <3>1
  <2>2. CASE n # Len(t) + 1
    <3>1. n \in 1 .. Len(t) /\ n \in DOMAIN t /\ u[n] = t[n]
      BY <1>1, <1>3, <2>2
    <3>2. \A i \in 1 .. n : u[i] = t[i]
      BY <1>1, <3>1
    <3>3. /\ {i \in 1 .. n : u[i].kind = "executed" /\ SameOccurrence(u[i], u[n])} =
               {i \in 1 .. n : t[i].kind = "executed" /\ SameOccurrence(t[i], t[n])}
          /\ {i \in 1 .. n : Allowing(u[i]) /\ SameOccurrence(u[i], u[n])} =
               {i \in 1 .. n : Allowing(t[i]) /\ SameOccurrence(t[i], t[n])}
      BY <3>1, <3>2
    <3>. QED
      BY <1>3, <3>1, <3>3 DEF Licit
  <2>. QED
    BY <2>1, <2>2
<1>4. Licit(u)
  BY <1>3 DEF Licit
<1>. QED
  BY <1>4 DEF u

\* An event that is no execution leaves the counts balanced and the trace
\* licit.
LEMMA HarmlessAppend ==
  ASSUME NEW t \in Seq(Event), NEW ev \in Event, ev.kind # "executed",
         Licit(t), Balanced(t)
  PROVE  Licit(Append(t, ev)) /\ Balanced(Append(t, ev))
<1>1. Licit(Append(t, ev))
  BY LicitAppend
<1>2. ASSUME NEW e \in Event
      PROVE  Cardinality(Executed(Append(t, ev), e)) <= Cardinality(Licences(Append(t, ev), e))
  <2>1. Cardinality(Executed(t, e)) \in Nat /\ Cardinality(Licences(t, e)) \in Nat
    BY Counted
  <2>2. Cardinality(Executed(t, e)) <= Cardinality(Licences(t, e))
    BY DEF Balanced
  <2>. QED
    BY <2>1, <2>2, AppendCounts
<1>. QED
  BY <1>1, <1>2 DEF Balanced

-----------------------------------------------------------------------------
(* The steps.                                                               *)

LEMMA InitLicensed == Init => LInv
<1>1. SUFFICES ASSUME Init PROVE LInv
  OBVIOUS
<1>2. trace = << >> /\ DOMAIN trace = {}
  BY <1>1 DEF Init
<1>3. \A e : Executed(trace, e) = {} /\ Licences(trace, e) = {}
  BY <1>2 DEF Executed, Licences
<1>4. Balanced(trace)
  <2>1. ASSUME NEW e \in Event
        PROVE  Cardinality(Executed(trace, e)) <= Cardinality(Licences(trace, e))
    <3>1. Executed(trace, e) = {} /\ Licences(trace, e) = {}
      BY <1>3
    <3>2. Cardinality({}) = 0
      BY FS_EmptySet
    <3>. QED
      BY <3>1, <3>2
  <2>. QED
    BY <2>1 DEF Balanced
<1>5. ~InBroker
  <2>1. PICK ctx \in RootCtx, scripted \in BOOLEAN : stack = <<Session(ctx, scripted)>>
    BY <1>1 DEF Init
  <2>2. Top.at = "ask"
    BY <2>1 DEF Top, Session
  <2>. QED
    BY <2>2 DEF InBroker, Running
<1>. QED
  BY <1>2, <1>4, <1>5 DEF LInv, Licit, InHand

\* A step that leaves the trace alone and nothing in the broker's hands.
LEMMA SettledLicensed ==
  ASSUME LInv, Settled', UNCHANGED trace
  PROVE  LInv'
BY DEF LInv, InHand, InBroker, Settled

\* A step that moves nothing the occurrence of the held step depends on.
LEMMA StandingLicensed ==
  ASSUME LInv, UNCHANGED <<stack, trace>>, status' = "running" => status = "running"
  PROVE  LInv'
<1>1. Top' = Top /\ Held' = Held
  BY DEF Top, Held, TheEvent, TheHash, TheOp
<1>2. InBroker' => InBroker
  BY <1>1 DEF InBroker, Running
<1>. QED
  BY <1>1, <1>2 DEF LInv, InHand

\* The decision that admits a step is its licence.
LEMMA AuthorizeLicensed ==
  ASSUME IInv, LInv, BrokerAuthorize PROVE LInv'
<1>1. /\ status = "running" /\ Top.at = "step"
      /\ Top.steps # << >> /\ Head(Top.steps).type = "op"
  BY DEF BrokerAuthorize, AtStep, Running
<1>2. Top \in Frame /\ trace \in Seq(Event)
  BY <1>1, RunningTop DEF TypeOK
<1> DEFINE verdict == Authorize(Top.ctx, TheOp, Consulted)
           decision == TheEvent("decision", verdict)
<1>3. verdict \in Verdicts
  BY AuthorizeVerdict
<1> HIDE DEF verdict
<1>4. /\ decision \in Event /\ decision.kind = "decision" /\ decision.verdict = verdict
      /\ SameOccurrence(decision, Held) /\ Held \in Event
  BY <1>1, <1>3, EventType DEF TheEvent, Held, SameOccurrence
<1> HIDE DEF decision
<1>5. Licit(Append(trace, decision)) /\ Balanced(Append(trace, decision))
  BY <1>2, <1>4, HarmlessAppend DEF LInv
<1>6. CASE verdict = "deny"
  <2>1. TheEvent("denied", "none") \in Event /\ TheEvent("denied", "none").kind = "denied"
    BY <1>1, EventType DEF TheEvent
  <2>2. trace' = Append(Append(trace, decision), TheEvent("denied", "none")) /\ status' = "denied"
    BY <1>6 DEF BrokerAuthorize, verdict, decision
  <2>3. Append(trace, decision) \in Seq(Event)
    BY <1>2, <1>4
  <2>4. Licit(trace') /\ Balanced(trace')
    BY <1>5, <2>1, <2>2, <2>3, HarmlessAppend
  <2>. QED
    BY <2>2, <2>4 DEF LInv, InHand, InBroker, Running
<1>7. CASE verdict # "deny"
  <2>1. PICK at \in {"approve", "invoke"} : stack' = WithTop([Top EXCEPT !.at = at])
    BY <1>3, <1>7 DEF BrokerAuthorize, verdict, Verdicts
  <2>2. trace' = Append(trace, decision)
    BY <1>7 DEF BrokerAuthorize, verdict, decision
  <2>3. Top' = [Top EXCEPT !.at = at]
    BY <1>1, <2>1, BrokerTop
  <2>4. Top'.ctx = Top.ctx /\ Top'.steps = Top.steps
    BY <1>2, <2>3 DEF Frame
  <2>5. Held' = Held
    BY <2>4 DEF Held, TheEvent, TheHash, TheOp
  <2>6. Allowing(decision)
    BY <1>3, <1>4, <1>7 DEF Allowing, Verdicts
  <2>7. ASSUME NEW e \in Event, SameOccurrence(Held, e)
        PROVE  Cardinality(Executed(trace', e)) + 1 <= Cardinality(Licences(trace', e))
    <3>1. SameOccurrence(decision, e)
      BY <1>4, <2>7 DEF SameOccurrence
    <3>2. /\ Cardinality(Executed(trace', e)) = Cardinality(Executed(trace, e))
          /\ Cardinality(Licences(trace', e)) = Cardinality(Licences(trace, e)) + 1
      BY <1>2, <1>4, <2>2, <2>6, <3>1, AppendCounts
    <3>3. Cardinality(Executed(trace, e)) <= Cardinality(Licences(trace, e))
      BY DEF LInv, Balanced
    <3>4. Cardinality(Executed(trace, e)) \in Nat /\ Cardinality(Licences(trace, e)) \in Nat
      BY <1>2, Counted
    <3>. QED
      BY <3>2, <3>3, <3>4
  <2>8. InHand'
    BY <2>5, <2>7 DEF InHand
  <2>. QED
    BY <1>5, <2>2, <2>8 DEF LInv
<1>. QED
  BY <1>6, <1>7

\* An approval is waited for by the same occurrence.
LEMMA ApproveLicensed ==
  ASSUME IInv, LInv, BrokerApprove PROVE LInv'
<1>1. status = "running" /\ Top.at = "approve" /\ InBroker
  BY DEF BrokerApprove, Running, InBroker
<1>2. Top \in Frame /\ Top.ctx \in Ctx /\ trace \in Seq(Event)
      /\ Top.steps # << >> /\ Head(Top.steps).type = "op"
  BY <1>1, RunningTop DEF TypeOK, Sound
<1>3. PICK grant : Approved(grant)
  BY DEF BrokerApprove
<1>4. PICK kind \in {"approval.used", "denied"} :
        /\ trace' = Append(trace, TheEvent(kind, "none"))
        /\ kind = "denied" => status' = "denied"
        /\ kind = "approval.used" =>
             stack' = WithTop([Top EXCEPT !.at = "invoke", !.grant = grant,
                                          !.ctx.grants = Append(@, grant)])
  BY <1>3 DEF Approved
<1> DEFINE ev == TheEvent(kind, "none")
<1>5. ev \in Event /\ ev.kind # "executed" /\ ~Allowing(ev)
  BY <1>1, <1>2, EventType DEF TheEvent, Allowing
<1> HIDE DEF ev
<1>6. trace' = Append(trace, ev)
  BY <1>4 DEF ev
<1>7. Licit(trace') /\ Balanced(trace')
  BY <1>2, <1>5, <1>6, HarmlessAppend DEF LInv
<1>8. CASE kind = "denied"
  BY <1>4, <1>7, <1>8 DEF LInv, InHand, InBroker, Running
<1>9. CASE kind = "approval.used"
  <2>1. Top' = [Top EXCEPT !.at = "invoke", !.grant = grant, !.ctx.grants = Append(@, grant)]
    BY <1>1, <1>4, <1>9, BrokerTop
  <2>2. /\ Top'.steps = Top.steps /\ Top'.ctx.actor = Top.ctx.actor
        /\ Top'.ctx.chain = Top.ctx.chain /\ Top'.ctx.used = Top.ctx.used
    BY <1>2, <2>1 DEF Frame, Ctx
  <2>3. Held' = Held
    BY <2>2 DEF Held, TheEvent, TheHash, TheOp, ActionHash, NextActionId, Depth
  <2>4. \A e \in Event :
          /\ Cardinality(Executed(trace', e)) = Cardinality(Executed(trace, e))
          /\ Cardinality(Licences(trace', e)) = Cardinality(Licences(trace, e))
    BY <1>2, <1>5, <1>6, AppendCounts
  <2>5. InHand'
    BY <1>1, <2>3, <2>4 DEF LInv, InHand
  <2>. QED
    BY <1>7, <2>5 DEF LInv
<1>. QED
  BY <1>8, <1>9

\* An execution uses up the licence of its occurrence that was left.
LEMMA ExecuteLicensed ==
  ASSUME IInv, LInv, BrokerExecute PROVE LInv'
<1>1. status = "running" /\ Top.at = "invoke" /\ InBroker
  BY DEF BrokerExecute, Running, InBroker
<1>2. /\ trace \in Seq(Event)
      /\ Top.steps # << >> /\ Head(Top.steps).type = "op"
  BY <1>1, RunningTop DEF TypeOK, Sound
<1>3. Held \in Event /\ Held.kind = "executed" /\ ~Allowing(Held)
  BY <1>1, <1>2, EventType DEF TheEvent, Held, Allowing
<1>4. trace' = Append(trace, Held)
  BY DEF BrokerExecute, Held
<1>5. Settled'
  BY BrokerExecuteStep
<1>6. ASSUME NEW e \in Event
      PROVE  Cardinality(Executed(trace', e)) <= Cardinality(Licences(trace', e))
  <2>1. Cardinality(Licences(trace', e)) = Cardinality(Licences(trace, e))
    BY <1>2, <1>3, <1>4, AppendCounts
  <2>2. CASE SameOccurrence(Held, e)
    <3>1. Cardinality(Executed(trace', e)) = Cardinality(Executed(trace, e)) + 1
      BY <1>2, <1>3, <1>4, <2>2, AppendCounts
    <3>. QED
      BY <1>1, <2>1, <2>2, <3>1 DEF LInv, InHand
  <2>3. CASE ~SameOccurrence(Held, e)
    <3>1. Cardinality(Executed(trace', e)) = Cardinality(Executed(trace, e))
      BY <1>2, <1>3, <1>4, <2>3, AppendCounts
    <3>. QED
      BY <2>1, <3>1 DEF LInv, Balanced
  <2>. QED
    BY <2>2, <2>3
<1>7. Licit(trace')
  BY <1>2, <1>3, <1>4, <1>6, LicitAppend DEF LInv
<1>8. Balanced(trace')
  BY <1>6 DEF Balanced
<1>. QED
  BY <1>5, <1>7, <1>8 DEF LInv, InHand, InBroker, Settled

LEMMA NextLicensed == IInv /\ LInv /\ [Next]_vars => LInv'
<1>1. SUFFICES ASSUME IInv, LInv, [Next]_vars PROVE LInv'
  OBVIOUS
<1>2. CASE NextTurn \/ EndTurn \/ EndPlan \/ Delegate \/ Reflect
  <2>1. UNCHANGED trace
    BY <1>2 DEF NextTurn, EndTurn, EndPlan, Delegate, Reflect
  <2>2. Settled'
    BY <1>1, <1>2, NextTurnStep, EndTurnStep, EndPlanStep, DelegateStep, ReflectStep
  <2>. QED
    BY <1>1, <2>1, <2>2, SettledLicensed
<1>3. CASE BrokerAuthorize
  BY <1>1, <1>3, AuthorizeLicensed
<1>4. CASE BrokerApprove
  BY <1>1, <1>4, ApproveLicensed
<1>5. CASE BrokerExecute
  BY <1>1, <1>5, ExecuteLicensed
<1>6. CASE ProviderRaises \/ RecursionLimit \/ BudgetExhausted \/ ToolRaises
  <2>1. UNCHANGED <<stack, trace>> /\ status' # "running"
    BY <1>6 DEF ProviderRaises, RecursionLimit, BudgetExhausted, ToolRaises
  <2>. QED
    BY <1>1, <2>1, StandingLicensed
<1>7. CASE Revoke \/ UNCHANGED vars
  <2>1. UNCHANGED <<stack, trace, status>>
    BY <1>7 DEF Revoke, vars
  <2>. QED
    BY <1>1, <2>1, StandingLicensed
<1>. QED
  BY <1>1, <1>2, <1>3, <1>4, <1>5, <1>6, <1>7 DEF Next, Run, Ended

\* INV-01: in every run, up to every executed event, the trace has for its
\* occurrence and hash as many allowing decisions as executions.
THEOREM ExecutionsAreLicensed == Spec => []EveryExecutionLicensed
<1>1. LInv => EveryExecutionLicensed
  BY DEF LInv, Licit, EveryExecutionLicensed
<1>. QED
  BY <1>1, InitLicensed, NextLicensed, Invariance, PTL DEF Spec

-----------------------------------------------------------------------------
(* The harness implements the gate.                                         *)

\* The mapping, by the names of the gate's variables.
AuthorityOf(s) == [i \in DOMAIN s |-> Powers(s[i].ctx.caps)]
Withdrawn == {op \in Operation : Kind(op) \in revoked}
Pending == IF Running("approve") \/ Running("invoke") THEN {TheOp} ELSE {}
Over == status # "running"

-----------------------------------------------------------------------------
(* Authority along the stack.                                               *)

LEMMA AuthoritySeq ==
  ASSUME NEW s \in Seq(Frame)
  PROVE  /\ AuthorityOf(s) \in Seq(SUBSET Operation)
         /\ Len(AuthorityOf(s)) = Len(s)
         /\ DOMAIN AuthorityOf(s) = 1 .. Len(s)
         /\ \A i \in 1 .. Len(s) : AuthorityOf(s)[i] = Powers(s[i].ctx.caps)
<1>1. DOMAIN s = 1 .. Len(s) /\ Len(s) \in Nat
  OBVIOUS
<1>2. \A i \in DOMAIN s : Powers(s[i].ctx.caps) \in SUBSET Operation
  BY DEF Powers
<1>3. AuthorityOf(s) \in [1 .. Len(s) -> SUBSET Operation]
  BY <1>1, <1>2 DEF AuthorityOf
<1>4. AuthorityOf(s) \in Seq(SUBSET Operation)
  BY <1>1, <1>3
<1>. QED
  BY <1>1, <1>3, <1>4 DEF AuthorityOf

LEMMA AuthorityReplace ==
  ASSUME IInv, status = "running", NEW frame, frame.ctx.caps = Top.ctx.caps
  PROVE  AuthorityOf(WithTop(frame)) = AuthorityOf(stack)
<1>1. stack \in Seq(Frame) /\ stack # << >>
  BY RunningTop
<1>2. DOMAIN WithTop(frame) = DOMAIN stack
  BY DEF WithTop
<1>3. \A i \in DOMAIN stack : WithTop(frame)[i].ctx.caps = stack[i].ctx.caps
  BY <1>1, LastElement DEF WithTop, Top
<1>. QED
  BY <1>2, <1>3 DEF AuthorityOf

LEMMA AuthorityPush ==
  ASSUME IInv, status = "running", NEW frame \in Frame, frame.ctx.caps = Top.ctx.caps,
         NEW pushed \in Frame
  PROVE  AuthorityOf(Append(WithTop(frame), pushed)) =
           Append(AuthorityOf(stack), Powers(pushed.ctx.caps))
<1>1. stack \in Seq(Frame) /\ stack # << >>
  BY RunningTop
<1> DEFINE s == WithTop(frame)
<1>2. s \in Seq(Frame)
  BY <1>1, ReplaceLast DEF WithTop
<1>3. AuthorityOf(s) = AuthorityOf(stack)
  BY AuthorityReplace
<1> HIDE DEF s
<1>4. /\ Append(s, pushed) \in Seq(Frame)
      /\ Len(Append(s, pushed)) = Len(s) + 1
      /\ DOMAIN Append(s, pushed) = 1 .. Len(s) + 1 /\ DOMAIN s = 1 .. Len(s) /\ Len(s) \in Nat
      /\ \A i \in 1 .. Len(s) : Append(s, pushed)[i] = s[i]
      /\ Append(s, pushed)[Len(s) + 1] = pushed
  BY <1>2, PushLast
<1> DEFINE a == AuthorityOf(s)
           b == AuthorityOf(Append(s, pushed))
           p == Powers(pushed.ctx.caps)
<1>5. /\ a \in Seq(SUBSET Operation) /\ Len(a) = Len(s)
      /\ \A i \in 1 .. Len(s) : a[i] = Powers(s[i].ctx.caps)
  BY <1>2, AuthoritySeq
<1>6. /\ b \in Seq(SUBSET Operation) /\ Len(b) = Len(s) + 1
      /\ \A i \in 1 .. Len(s) + 1 : b[i] = Powers(Append(s, pushed)[i].ctx.caps)
  BY <1>4, AuthoritySeq
<1>7. p \in SUBSET Operation
  BY DEF Powers
<1>8. /\ \A i \in 1 .. Len(s) : b[i] = a[i]
      /\ b[Len(s) + 1] = p
  BY <1>4, <1>5, <1>6
<1> HIDE DEF a, b, p
<1>9. b = Append(a, p)
  BY <1>4, <1>5, <1>6, <1>7, <1>8
<1>. QED
  BY <1>3, <1>9 DEF a, b, p, s

LEMMA AuthorityPop ==
  ASSUME IInv, status = "running"
  PROVE  /\ AuthorityOf(Below) =
              SubSeq(AuthorityOf(stack), 1, Len(AuthorityOf(stack)) - 1)
         /\ AuthorityOf(Below) = << >> <=> Below = << >>
<1>1. stack \in Seq(Frame) /\ stack # << >>
  BY RunningTop
<1>2. PICK n \in Nat : n = Len(stack) /\ n >= 1 /\ DOMAIN stack = 1 .. n
  BY <1>1, LastElement
<1>3. /\ Below \in Seq(Frame) /\ Len(Below) = n - 1 /\ DOMAIN Below = 1 .. n - 1
      /\ \A i \in 1 .. n - 1 : Below[i] = stack[i]
  BY <1>1, <1>2, PopLast DEF Below
<1> DEFINE a == AuthorityOf(stack)
           b == AuthorityOf(Below)
<1>4. /\ a \in Seq(SUBSET Operation) /\ Len(a) = n /\ a # << >>
      /\ \A i \in 1 .. n : a[i] = Powers(stack[i].ctx.caps)
  BY <1>1, <1>2, AuthoritySeq
<1>5. /\ b \in Seq(SUBSET Operation) /\ Len(b) = n - 1
      /\ \A i \in 1 .. n - 1 : b[i] = Powers(Below[i].ctx.caps)
  BY <1>3, AuthoritySeq
<1>6. \A i \in 1 .. n - 1 : b[i] = a[i]
  BY <1>2, <1>3, <1>4, <1>5
<1> HIDE DEF a, b
<1>7. /\ SubSeq(a, 1, Len(a) - 1) \in Seq(SUBSET Operation)
      /\ Len(SubSeq(a, 1, Len(a) - 1)) = n - 1
      /\ \A i \in 1 .. n - 1 : SubSeq(a, 1, Len(a) - 1)[i] = a[i]
  BY <1>2, <1>4, PopLast
<1>8. b = SubSeq(a, 1, Len(a) - 1)
  BY <1>2, <1>5, <1>6, <1>7
<1>9. b = << >> <=> Below = << >>
  BY <1>3, <1>5
<1>. QED
  BY <1>8, <1>9 DEF a, b

-----------------------------------------------------------------------------
(* The gate's steps, in the terms of the mapping.                           *)

LEMMA GateStutter ==
  ASSUME UNCHANGED <<AuthorityOf(stack), Withdrawn, Pending, spent, history, Over>>
  PROVE  UNCHANGED Gate!vars
BY DEF Gate!vars, AuthorityOf, Withdrawn, Pending, Over

LEMMA GateEnter ==
  ASSUME NEW powers \in SUBSET Operation, status = "running", Pending = {},
         powers \subseteq AuthorityOf(stack)[Len(AuthorityOf(stack))],
         AuthorityOf(stack)' = Append(AuthorityOf(stack), powers),
         UNCHANGED <<Withdrawn, Pending, spent, history, Over>>
  PROVE  Gate!Next
<1>1. Gate!Enter(powers)
  BY DEF Gate!Enter, Gate!Idle, AuthorityOf, Withdrawn, Pending, Over
<1>. QED
  BY <1>1 DEF Gate!Next

LEMMA GateLeave ==
  ASSUME status = "running", Pending = {}, Pending' = {},
         AuthorityOf(stack)' = SubSeq(AuthorityOf(stack), 1, Len(AuthorityOf(stack)) - 1),
         Over' = (AuthorityOf(stack)' = << >>),
         UNCHANGED <<Withdrawn, spent, history>>
  PROVE  Gate!Next
<1>1. Gate!Leave
  BY DEF Gate!Leave, Gate!Idle, AuthorityOf, Withdrawn, Pending, Over
<1>. QED
  BY <1>1 DEF Gate!Next

LEMMA GateAdmit ==
  ASSUME NEW effect \in Operation, status = "running", Pending = {}, Pending' = {effect},
         effect \notin Withdrawn,
         \A i \in DOMAIN AuthorityOf(stack) : effect \in AuthorityOf(stack)[i],
         UNCHANGED <<AuthorityOf(stack), Withdrawn, spent, history, Over>>
  PROVE  Gate!Next
<1>1. Gate!Admit(effect)
  BY DEF Gate!Admit, Gate!Idle, AuthorityOf, Withdrawn, Pending, Over
<1>. QED
  BY <1>1 DEF Gate!Next

LEMMA GatePerform ==
  ASSUME status = "running", Pending # {}, Pending' = {}, spent < Limit, spent' = spent + 1,
         Len(history') = Len(history) + 1,
         UNCHANGED <<AuthorityOf(stack), Withdrawn, Over>>
  PROVE  Gate!Next
<1>1. Gate!Perform
  BY DEF Gate!Perform, AuthorityOf, Withdrawn, Pending, Over
<1>. QED
  BY <1>1 DEF Gate!Next

LEMMA GateStop ==
  ASSUME status = "running", status' # "running",
         spent' = spent \/ (Pending # {} /\ spent < Limit /\ spent' = spent + 1),
         UNCHANGED <<stack, revoked, history>>
  PROVE  Gate!Next
<1>1. Pending' = {}
  BY DEF Pending, Running
<1>2. Gate!Stop
  BY <1>1 DEF Gate!Stop, AuthorityOf, Withdrawn, Pending, Over
<1>. QED
  BY <1>2 DEF Gate!Next

LEMMA GateWithdraw ==
  ASSUME NEW effects \in SUBSET Operation, status = "running",
         Withdrawn' = Withdrawn \cup effects,
         UNCHANGED <<AuthorityOf(stack), Pending, spent, history, Over>>
  PROVE  Gate!Next
<1>1. Gate!Withdraw(effects)
  BY DEF Gate!Withdraw, AuthorityOf, Withdrawn, Pending, Over
<1>. QED
  BY <1>1 DEF Gate!Next

LEMMA SettledPending == (Settled => Pending = {}) /\ (Settled' => Pending' = {})
BY DEF Settled, Pending

\* Nothing is pending while the top of the stack is anywhere else.
LEMMA IdlePending ==
  ASSUME Top.at \notin {"approve", "invoke"}
  PROVE  Pending = {}
BY DEF Pending, Running

\* The level on top of the stack.
LEMMA TopAuthority ==
  ASSUME IInv, status = "running"
  PROVE  /\ AuthorityOf(stack)[Len(AuthorityOf(stack))] = Powers(Top.ctx.caps)
         /\ \A op \in Operation : Permits(Top.ctx.caps, op) =>
              \A i \in DOMAIN AuthorityOf(stack) : op \in AuthorityOf(stack)[i]
<1>1. stack \in Seq(Frame) /\ stack # << >> /\ Linked(stack) /\ Top = stack[Len(stack)]
  BY RunningTop
<1>2. PICK n \in Nat : n = Len(stack) /\ n >= 1 /\ DOMAIN stack = 1 .. n
  BY <1>1, LastElement
<1>3. /\ Len(AuthorityOf(stack)) = n /\ DOMAIN AuthorityOf(stack) = 1 .. n
      /\ \A i \in 1 .. n : AuthorityOf(stack)[i] = Powers(stack[i].ctx.caps)
  BY <1>1, <1>2, AuthoritySeq
<1>4. AuthorityOf(stack)[n] = Powers(Top.ctx.caps)
  BY <1>1, <1>2, <1>3
<1>5. Link(stack, n)
  BY <1>1, <1>2 DEF Linked
<1>6. \A i \in 1 .. n : Top.ctx.caps \subseteq stack[i].ctx.caps
  BY <1>1, <1>2, <1>5 DEF Link
<1>7. ASSUME NEW op \in Operation, Permits(Top.ctx.caps, op), NEW i \in 1 .. n
      PROVE  op \in AuthorityOf(stack)[i]
  BY <1>3, <1>6, <1>7, PermitsMonotone DEF Powers
<1>. QED
  BY <1>3, <1>4, <1>7

-----------------------------------------------------------------------------
(* The steps of the harness.                                                *)

LEMMA PowersWithin ==
  ASSUME NEW caps, NEW more, caps \subseteq more
  PROVE  Powers(caps) \in SUBSET Operation /\ Powers(caps) \subseteq Powers(more)
BY PermitsMonotone DEF Powers

LEMMA InitGate == Init => Gate!Init
<1>1. SUFFICES ASSUME Init PROVE Gate!Init
  OBVIOUS
<1>2. PICK ctx \in RootCtx, scripted \in BOOLEAN : stack = <<Session(ctx, scripted)>>
  BY <1>1 DEF Init
<1>3. /\ stack \in Seq(Frame) /\ Len(stack) = 1 /\ Top.at = "ask"
      /\ stack[1].ctx.caps = ctx.caps
  BY <1>1, <1>2, InitInvariant DEF Session, Top, IInv, TypeOK
<1>4. AuthorityOf(stack) = <<Powers(ctx.caps)>>
  <2>1. /\ AuthorityOf(stack) \in Seq(SUBSET Operation)
        /\ Len(AuthorityOf(stack)) = 1 /\ AuthorityOf(stack)[1] = Powers(ctx.caps)
    BY <1>3, AuthoritySeq
  <2>. QED
    BY <2>1
<1>5. Powers(ctx.caps) \in SUBSET Operation
  BY DEF Powers
<1>6. Pending = {} /\ Withdrawn = {} /\ ~Over /\ spent = 0 /\ Len(history) = 0
  BY <1>1, <1>3 DEF Init, Pending, Running, Withdrawn, Over
<1>. QED
  BY <1>4, <1>5, <1>6 DEF Gate!Init, AuthorityOf, Pending, Withdrawn, Over

LEMMA NextTurnGate ==
  ASSUME IInv, NextTurn PROVE Gate!Next \/ UNCHANGED Gate!vars
<1>1. /\ status = "running" /\ Top.at = "ask"
      /\ UNCHANGED <<spent, revoked, status, history>>
  BY DEF NextTurn, Running
<1>2. Top \in Frame /\ Top.ctx \in Ctx
  BY <1>1, RunningTop
<1>3. Pending = {} /\ Pending' = {}
  BY <1>1, NextTurnStep, IdlePending, SettledPending
<1>4. UNCHANGED <<Withdrawn, Over, Pending, history, spent>>
  BY <1>1, <1>3 DEF Withdrawn, Over
<1>5. PICK plan \in Plans, final \in BOOLEAN :
        stack' = IF plan = << >>
                 THEN WithTop([Top EXCEPT !.at = "turned", !.final = final])
                 ELSE Append(WithTop([Top EXCEPT !.at = "ran", !.final = final]),
                             Plan(Top.ctx, plan))
  BY DEF NextTurn
<1>6. ASSUME NEW at \in {"turned", "ran"}
      PROVE  LET frame == [Top EXCEPT !.at = at, !.final = final]
             IN frame \in Frame /\ frame.ctx = Top.ctx
  BY <1>2, <1>6 DEF Frame, SessionAt, PlanAt
<1>7. CASE plan = << >>
  <2> DEFINE frame == [Top EXCEPT !.at = "turned", !.final = final]
  <2>1. frame.ctx = Top.ctx
    BY <1>6
  <2> HIDE DEF frame
  <2>2. stack' = WithTop(frame)
    BY <1>5, <1>7 DEF frame
  <2>3. AuthorityOf(stack') = AuthorityOf(stack)
    BY <1>1, <2>1, <2>2, AuthorityReplace
  <2>. QED
    BY <1>4, <2>3, GateStutter
<1>8. CASE plan # << >>
  <2> DEFINE frame == [Top EXCEPT !.at = "ran", !.final = final]
  <2>1. frame \in Frame /\ frame.ctx = Top.ctx
    BY <1>6
  <2> HIDE DEF frame
  <2>2. stack' = Append(WithTop(frame), Plan(Top.ctx, plan))
    BY <1>5, <1>8 DEF frame
  <2>3. /\ plan \in Seq(Step)
        /\ \A k \in DOMAIN plan : plan[k].type = "op" => plan[k].origin = "model"
    BY HarnessAssumption
  <2>4. Plan(Top.ctx, plan) \in Frame /\ Plan(Top.ctx, plan).ctx = Top.ctx
    BY <1>2, <2>3, PlanFrame
  <2>5. AuthorityOf(stack') = Append(AuthorityOf(stack), Powers(Top.ctx.caps))
    BY <1>1, <2>1, <2>2, <2>4, AuthorityPush
  <2>6. /\ Powers(Top.ctx.caps) \in SUBSET Operation
        /\ Powers(Top.ctx.caps) \subseteq AuthorityOf(stack)[Len(AuthorityOf(stack))]
    BY <1>1, PowersWithin, TopAuthority
  <2>. QED
    BY <1>1, <1>3, <1>4, <2>5, <2>6, GateEnter
<1>. QED
  BY <1>7, <1>8

LEMMA EndTurnGate ==
  ASSUME IInv, EndTurn PROVE Gate!Next \/ UNCHANGED Gate!vars
<1>1. /\ status = "running" /\ Top.at \in {"ran", "turned"}
      /\ UNCHANGED <<spent, revoked, history>>
  BY DEF EndTurn, Running
<1>2. Top \in Frame /\ Top.ctx \in Ctx
  BY <1>1, RunningTop
<1>3. Pending = {} /\ Pending' = {}
  BY <1>1, EndTurnStep, IdlePending, SettledPending
<1>4. UNCHANGED <<Withdrawn, Pending, history, spent>>
  BY <1>1, <1>3 DEF Withdrawn
<1>5. CASE LoopEnds
  <2>1. stack' = Below /\ status' = IF Below = << >> THEN "finished" ELSE status
    BY <1>5 DEF EndTurn, Returned
  <2>2. /\ AuthorityOf(stack') = SubSeq(AuthorityOf(stack), 1, Len(AuthorityOf(stack)) - 1)
        /\ AuthorityOf(stack') = << >> <=> Below = << >>
    BY <1>1, <2>1, AuthorityPop
  <2>3. Over' = (AuthorityOf(stack') = << >>)
    BY <1>1, <2>1, <2>2 DEF Over
  <2>. QED
    BY <1>1, <1>3, <1>4, <2>2, <2>3, GateLeave
<1>6. CASE ~LoopEnds
  <2> DEFINE frame == [Top EXCEPT !.at = "ask", !.ctx = Resumed]
  <2>1. Resumed.caps = Top.ctx.caps
    BY <1>1 DEF Resumed, IInv, Resumable, SameAgent
  <2>2. frame.ctx = Resumed
    BY <1>2 DEF Frame
  <2> HIDE DEF frame
  <2>3. stack' = WithTop(frame) /\ status' = status
    BY <1>6 DEF EndTurn, frame
  <2>4. AuthorityOf(stack') = AuthorityOf(stack)
    BY <1>1, <2>1, <2>2, <2>3, AuthorityReplace
  <2>5. UNCHANGED Over
    BY <2>3 DEF Over
  <2>. QED
    BY <1>4, <2>4, <2>5, GateStutter
<1>. QED
  BY <1>5, <1>6

LEMMA EndPlanGate ==
  ASSUME IInv, EndPlan PROVE Gate!Next \/ UNCHANGED Gate!vars
<1>1. /\ status = "running" /\ Top.at = "step" /\ stack' = Below
      /\ UNCHANGED <<spent, revoked, history, status>>
  BY DEF EndPlan, Running
<1>2. Pending = {} /\ Pending' = {}
  BY <1>1, EndPlanStep, IdlePending, SettledPending
<1>3. /\ AuthorityOf(stack') = SubSeq(AuthorityOf(stack), 1, Len(AuthorityOf(stack)) - 1)
      /\ AuthorityOf(stack') = << >> <=> Below = << >>
  BY <1>1, AuthorityPop
<1>4. Below # << >>
  BY <1>1, RunningTop, PopTop DEF SessionAt
<1>5. Over' = (AuthorityOf(stack') = << >>)
  BY <1>1, <1>3, <1>4 DEF Over
<1>6. UNCHANGED <<Withdrawn, spent, history>>
  BY <1>1 DEF Withdrawn
<1>. QED
  BY <1>1, <1>2, <1>3, <1>5, <1>6, GateLeave

LEMMA DelegateGate ==
  ASSUME IInv, Delegate PROVE Gate!Next \/ UNCHANGED Gate!vars
<1>1. /\ status = "running" /\ Top.at = "step"
      /\ Top.steps # << >> /\ Head(Top.steps).type = "delegate"
      /\ UNCHANGED <<spent, revoked, history>>
  BY DEF Delegate, AtStep, Running
<1>2. TypeOK /\ stack # << >> /\ Top \in Frame /\ Top.ctx \in Ctx /\ Sound(Top)
  BY <1>1, RunningTop
<1>3. CASE Depth(Top.ctx) + 1 > MaxDepth
  <2>1. stack' = stack /\ status' = "denied"
    BY <1>3 DEF Delegate
  <2>. QED
    BY <1>1, <2>1, GateStop
<1>4. CASE ~(Depth(Top.ctx) + 1 > MaxDepth)
  <2> DEFINE child == ChildCtx(Top.ctx, Head(Top.steps))
  <2>1. Head(Top.steps) \in Step
    BY <1>1, <1>2, FrameFields
  <2>2. child \in Ctx /\ child.caps \subseteq Top.ctx.caps
    BY <1>1, <1>2, <2>1, ChildContext
  <2> HIDE DEF child
  <2>3. Session(child, TRUE) \in Frame /\ Session(child, TRUE).ctx = child
    BY <2>2, SessionFrame
  <2>4. Advanced(Top.ctx) \in Frame /\ Advanced(Top.ctx).ctx = Top.ctx
    BY <1>1, <1>2, AdvancedFrame
  <2>5. stack' = Append(WithTop(Advanced(Top.ctx)), Session(child, TRUE)) /\ status' = status
    BY <1>4 DEF Delegate, child
  <2>6. AuthorityOf(stack') = Append(AuthorityOf(stack), Powers(child.caps))
    BY <1>1, <2>3, <2>4, <2>5, AuthorityPush
  <2>7. /\ Powers(child.caps) \in SUBSET Operation
        /\ Powers(child.caps) \subseteq AuthorityOf(stack)[Len(AuthorityOf(stack))]
    BY <1>1, <2>2, PowersWithin, TopAuthority
  <2>8. Pending = {} /\ Pending' = {}
    BY <1>1, DelegateStep, IdlePending, SettledPending
  <2>9. UNCHANGED <<Withdrawn, Over, Pending, history, spent>>
    BY <1>1, <2>5, <2>8 DEF Withdrawn, Over
  <2>. QED
    BY <1>1, <2>6, <2>7, <2>8, <2>9, GateEnter
<1>. QED
  BY <1>3, <1>4

LEMMA ReflectGate ==
  ASSUME IInv, Reflect PROVE Gate!Next \/ UNCHANGED Gate!vars
<1>1. /\ status = "running" /\ Top.at = "step"
      /\ Top.steps # << >> /\ Head(Top.steps).type = "reflect"
      /\ UNCHANGED <<spent, revoked, status, history>>
  BY DEF Reflect, AtStep, Running
<1>2. TypeOK /\ stack # << >> /\ Top \in Frame /\ Top.ctx \in Ctx /\ Sound(Top)
  BY <1>1, RunningTop
<1>3. PICK plan \in IF Head(Top.steps).scripted THEN Plans ELSE Reaction(Top.ctx) :
        stack' = Append(WithTop(Advanced(Top.ctx)), Plan(Top.ctx, plan))
  BY DEF Reflect
<1>4. /\ plan \in Seq(Step)
      /\ \A k \in DOMAIN plan : plan[k].type = "op" => plan[k].origin = "model"
  BY <1>3, ReflectedPlan
<1>5. Plan(Top.ctx, plan) \in Frame /\ Plan(Top.ctx, plan).ctx = Top.ctx
  BY <1>2, <1>4, PlanFrame
<1>6. Advanced(Top.ctx) \in Frame /\ Advanced(Top.ctx).ctx = Top.ctx
  BY <1>1, <1>2, AdvancedFrame
<1>7. AuthorityOf(stack') = Append(AuthorityOf(stack), Powers(Top.ctx.caps))
  BY <1>1, <1>3, <1>5, <1>6, AuthorityPush
<1>8. /\ Powers(Top.ctx.caps) \in SUBSET Operation
      /\ Powers(Top.ctx.caps) \subseteq AuthorityOf(stack)[Len(AuthorityOf(stack))]
  BY <1>1, PowersWithin, TopAuthority
<1>9. Pending = {} /\ Pending' = {}
  BY <1>1, ReflectStep, IdlePending, SettledPending
<1>10. UNCHANGED <<Withdrawn, Over, Pending, history, spent>>
  BY <1>1, <1>9 DEF Withdrawn, Over
<1>. QED
  BY <1>1, <1>7, <1>8, <1>9, <1>10, GateEnter

\* What the policy admits is permitted at every level of the stack, and not
\* withdrawn at that moment if the policy holds the registry.
LEMMA AuthorizeGate ==
  ASSUME PolicyHoldsRegistry, IInv, BrokerAuthorize PROVE Gate!Next \/ UNCHANGED Gate!vars
<1>1. /\ status = "running" /\ Top.at = "step"
      /\ Top.steps # << >> /\ Head(Top.steps).type = "op"
      /\ UNCHANGED <<spent, revoked, history>>
  BY DEF BrokerAuthorize, AtStep, Running
<1>2. Top \in Frame /\ Top.ctx \in Ctx /\ TheOp \in Operation
  BY <1>1, RunningTop, TheStep
<1> DEFINE verdict == Authorize(Top.ctx, TheOp, Consulted)
<1>3. /\ verdict \in Verdicts
      /\ verdict # "deny" => Permits(Top.ctx.caps, TheOp) /\ Kind(TheOp) \notin Consulted
  BY AuthorizeVerdict
<1> HIDE DEF verdict
<1>4. CASE verdict = "deny"
  <2>1. stack' = stack /\ status' = "denied"
    BY <1>4 DEF BrokerAuthorize, verdict
  <2>. QED
    BY <1>1, <2>1, GateStop
<1>5. CASE verdict # "deny"
  <2>1. PICK at \in {"approve", "invoke"} :
          stack' = WithTop([Top EXCEPT !.at = at]) /\ status' = status
    BY <1>3, <1>5 DEF BrokerAuthorize, verdict, Verdicts
  <2>2. Top' = [Top EXCEPT !.at = at]
    BY <1>1, <2>1, BrokerTop
  <2> DEFINE frame == [Top EXCEPT !.at = at]
  <2>3. frame.ctx = Top.ctx /\ frame.at = at /\ frame.steps = Top.steps
    BY <1>2 DEF Frame
  <2>4. stack' = WithTop(frame) /\ Top' = frame
    BY <2>1, <2>2
  <2> HIDE DEF frame
  <2>5. TheOp' = TheOp
    BY <2>3, <2>4 DEF TheOp
  <2>6. AuthorityOf(stack') = AuthorityOf(stack)
    BY <1>1, <2>3, <2>4, AuthorityReplace
  <2>7. Pending = {}
    BY <1>1, IdlePending
  <2>8. Pending' = {TheOp}
    BY <1>1, <2>1, <2>3, <2>4, <2>5 DEF Pending, Running
  <2>9. TheOp \notin Withdrawn
    BY <1>3, <1>5 DEF Consulted, Withdrawn
  <2>10. \A i \in DOMAIN AuthorityOf(stack) : TheOp \in AuthorityOf(stack)[i]
    BY <1>1, <1>2, <1>3, <1>5, TopAuthority
  <2>11. UNCHANGED <<Withdrawn, spent, history, Over>>
    BY <1>1, <2>1 DEF Withdrawn, Over
  <2>. QED
    BY <1>1, <1>2, <2>6, <2>7, <2>8, <2>9, <2>10, <2>11, GateAdmit
<1>. QED
  BY <1>4, <1>5

LEMMA ApproveGate ==
  ASSUME IInv, BrokerApprove PROVE Gate!Next \/ UNCHANGED Gate!vars
<1>1. /\ status = "running" /\ Top.at = "approve"
      /\ UNCHANGED <<spent, revoked, history>>
  BY DEF BrokerApprove, Running
<1>2. Top \in Frame /\ Top.ctx \in Ctx
  BY <1>1, RunningTop
<1>3. PICK grant : Approved(grant)
  BY DEF BrokerApprove
<1>4. CASE stack' = stack /\ status' = "denied"
  BY <1>1, <1>4, GateStop
<1>5. CASE /\ stack' = WithTop([Top EXCEPT !.at = "invoke", !.grant = grant,
                                          !.ctx.grants = Append(@, grant)])
           /\ status' = status
  <2> DEFINE frame == [Top EXCEPT !.at = "invoke", !.grant = grant,
                                  !.ctx.grants = Append(@, grant)]
  <2>1. frame.ctx.caps = Top.ctx.caps /\ frame.at = "invoke" /\ frame.steps = Top.steps
    BY <1>2 DEF Frame, Ctx
  <2>2. stack' = WithTop(frame)
    BY <1>5
  <2> HIDE DEF frame
  <2>3. Top' = frame
    BY <1>1, <2>2, BrokerTop
  <2>4. AuthorityOf(stack') = AuthorityOf(stack)
    BY <1>1, <2>1, <2>2, AuthorityReplace
  <2>5. TheOp' = TheOp
    BY <2>1, <2>3 DEF TheOp
  <2>6. Pending' = Pending
    BY <1>1, <1>5, <2>1, <2>3, <2>5 DEF Pending, Running
  <2>7. UNCHANGED <<Withdrawn, spent, history, Over>>
    BY <1>1, <1>5 DEF Withdrawn, Over
  <2>. QED
    BY <2>4, <2>6, <2>7, GateStutter
<1>. QED
  BY <1>3, <1>4, <1>5 DEF Approved

LEMMA ExecuteGate ==
  ASSUME IInv, BrokerExecute PROVE Gate!Next \/ UNCHANGED Gate!vars
<1>1. /\ status = "running" /\ Top.at = "invoke" /\ Running("invoke")
      /\ spent < Limit /\ spent' = spent + 1 /\ UNCHANGED <<revoked, status>>
  BY DEF BrokerExecute, Running, Affordable, Charged
<1>2. /\ TypeOK /\ stack # << >> /\ Top \in Frame /\ Top.ctx \in Ctx /\ Sound(Top)
  BY <1>1, RunningTop
<1>3. Top.steps # << >> /\ Head(Top.steps).type = "op"
  BY <1>1, <1>2 DEF Sound
<1>4. TheOp.ns \in Namespace
  BY <1>1, <1>3, TheStep DEF Operation
<1>5. PICK result \in Results :
        /\ stack' = WithTop(AfterResult(result))
        /\ \E execution : history' = Append(history, execution)
  BY DEF BrokerExecute
<1>6. result \in ToolResult
  BY HarnessAssumption
<1> DEFINE ctx == Observed(Top.ctx, TheOp.ns, result)
<1>7. ctx \in Ctx /\ ctx.caps = Top.ctx.caps
  BY <1>2, <1>4, <1>6, ObservedCtx DEF SameAgent
<1>8. stack' = WithTop(Advanced(ctx))
  BY <1>5 DEF AfterResult
<1> HIDE DEF ctx
<1>9. Advanced(ctx).ctx = ctx
  BY <1>2, <1>3, <1>7, AdvancedFrame
<1>10. AuthorityOf(stack') = AuthorityOf(stack)
  BY <1>1, <1>7, <1>8, <1>9, AuthorityReplace
<1>11. Len(history') = Len(history) + 1
  <2>1. history \in Seq(Execution)
    BY <1>2 DEF TypeOK
  <2>2. PICK execution : history' = Append(history, execution)
    BY <1>5
  <2>. QED
    BY <2>1, <2>2
<1>12. Pending # {} /\ Pending' = {}
  BY <1>1, BrokerExecuteStep, SettledPending DEF Pending
<1>13. UNCHANGED <<Withdrawn, Over>>
  BY <1>1 DEF Withdrawn, Over
<1>. QED
  BY <1>1, <1>10, <1>11, <1>12, <1>13, GatePerform

LEMMA StopGate ==
  ASSUME IInv, ProviderRaises \/ RecursionLimit \/ BudgetExhausted \/ ToolRaises
  PROVE  Gate!Next
<1>1. /\ status = "running" /\ status' # "running"
      /\ UNCHANGED <<stack, revoked, history>>
      /\ \/ spent' = spent
         \/ Running("invoke") /\ spent < Limit /\ spent' = spent + 1
  BY DEF ProviderRaises, RecursionLimit, BudgetExhausted, ToolRaises, AtStep, Running,
     Affordable, Charged
<1>2. Running("invoke") => Pending # {}
  BY DEF Pending
<1>. QED
  BY <1>1, <1>2, GateStop

LEMMA RevokeGate ==
  ASSUME IInv, Revoke PROVE Gate!Next
<1>1. PICK kinds \in Revocations : revoked' = revoked \cup kinds
  BY DEF Revoke
<1>2. status = "running" /\ UNCHANGED <<stack, spent, status, history>>
  BY DEF Revoke
<1> DEFINE effects == {op \in Operation : Kind(op) \in kinds}
<1>3. Withdrawn' = Withdrawn \cup effects /\ effects \in SUBSET Operation
  BY <1>1 DEF Withdrawn
<1> HIDE DEF effects
<1>4. UNCHANGED <<AuthorityOf(stack), Pending, Over>>
  BY <1>2 DEF AuthorityOf, Pending, Running, Top, TheOp, Over
<1>. QED
  BY <1>2, <1>3, <1>4, GateWithdraw

LEMMA NextGate ==
  ASSUME PolicyHoldsRegistry, IInv, [Next]_vars PROVE [Gate!Next]_(Gate!vars)
<1>1. CASE UNCHANGED vars
  <2>1. UNCHANGED <<AuthorityOf(stack), Withdrawn, Pending, spent, history, Over>>
    BY <1>1 DEF vars, AuthorityOf, Withdrawn, Pending, Running, Top, TheOp, Over
  <2>. QED
    BY <2>1, GateStutter
<1>2. CASE NextTurn \/ EndTurn \/ EndPlan
  BY <1>2, NextTurnGate, EndTurnGate, EndPlanGate
<1>3. CASE Delegate \/ Reflect
  BY <1>3, DelegateGate, ReflectGate
<1>4. CASE BrokerAuthorize \/ BrokerApprove \/ BrokerExecute
  BY <1>4, AuthorizeGate, ApproveGate, ExecuteGate
<1>5. CASE ProviderRaises \/ RecursionLimit \/ BudgetExhausted \/ ToolRaises \/ Revoke
  BY <1>5, StopGate, RevokeGate
<1>. QED
  BY <1>1, <1>2, <1>3, <1>4, <1>5 DEF Next, Run, Ended

\* broker.py, executor.py, loop.py: with the live registry in the policy, a
\* run of the harness is a run of the gate: nothing happens but what was
\* admitted, at that moment and by every level, and paid for.
THEOREM HarnessIsGate ==
  ASSUME PolicyHoldsRegistry PROVE Spec => ImplementsMediation
<1>1. Init => Gate!Init
  BY InitGate
<1>2. IInv /\ [Next]_vars => [Gate!Next]_(Gate!vars)
  BY NextGate
<1>. QED
  BY <1>1, <1>2, Invariance, PTL DEF Spec, ImplementsMediation, Gate!Spec
===============================================================================
