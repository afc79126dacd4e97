---------------------------- MODULE HarnessProofs ----------------------------
(***************************************************************************)
(* Proofs about Harness, for all values of its constants: types and the    *)
(* chain of narrowing authority on the call stack (IInv), and, at the end, *)
(* that provenance accounts for what a context has observed (PInv).        *)
(***************************************************************************)
EXTENDS Harness, SequenceTheorems, FiniteSetTheorems, TLAPS

-----------------------------------------------------------------------------
(* Sequences: what replacing, pushing and popping the last element do.      *)

LEMMA LastElement ==
  ASSUME NEW S, NEW s \in Seq(S), s # << >>
  PROVE  Len(s) \in Nat /\ Len(s) >= 1 /\ DOMAIN s = 1 .. Len(s) /\ s[Len(s)] \in S
OBVIOUS

LEMMA ReplaceLast ==
  ASSUME NEW S, NEW s \in Seq(S), s # << >>, NEW e \in S
  PROVE  LET t == [s EXCEPT ![Len(s)] = e]
         IN /\ t \in Seq(S) /\ t # << >>
            /\ Len(t) = Len(s)
            /\ DOMAIN t = 1 .. Len(s)
            /\ \A i \in 1 .. Len(s) - 1 : t[i] = s[i]
            /\ t[Len(s)] = e
OBVIOUS

LEMMA PushLast ==
  ASSUME NEW S, NEW s \in Seq(S), NEW e \in S
  PROVE  LET t == Append(s, e)
         IN /\ t \in Seq(S) /\ t # << >>
            /\ Len(t) = Len(s) + 1
            /\ DOMAIN t = 1 .. Len(s) + 1
            /\ \A i \in 1 .. Len(s) : t[i] = s[i]
            /\ t[Len(s) + 1] = e
OBVIOUS

LEMMA PopLast ==
  ASSUME NEW S, NEW s \in Seq(S), s # << >>
  PROVE  LET t == SubSeq(s, 1, Len(s) - 1)
         IN /\ t \in Seq(S)
            /\ Len(t) = Len(s) - 1
            /\ DOMAIN t = 1 .. Len(s) - 1
            /\ \A i \in 1 .. Len(s) - 1 : t[i] = s[i]
<1>1. \A i \in 1 .. Len(s) - 1 : s[i] \in S
  OBVIOUS
<1>2. PICK n \in Nat : n = Len(s) /\ n >= 1
  OBVIOUS
<1> DEFINE t == SubSeq(s, 1, n - 1)
<1>3. /\ t \in Seq(S)
      /\ Len(t) = IF 1 <= n - 1 THEN (n - 1) - 1 + 1 ELSE 0
      /\ \A i \in 1 .. (n - 1) - 1 + 1 : t[i] = s[1 + i - 1]
  BY <1>1, <1>2, SubSeqProperties
<1> HIDE DEF t
<1>4. (n - 1) - 1 + 1 = n - 1 /\ (n = 1 \/ 1 <= n - 1) /\ n - 1 \in Nat
  BY <1>2
<1>5. Len(t) = n - 1
  BY <1>3, <1>4
<1>6. DOMAIN t = 1 .. Len(t)
  BY <1>3
<1>7. \A i \in 1 .. n - 1 : t[i] = s[i]
  BY <1>3, <1>4
<1>. QED
  BY <1>2, <1>3, <1>5, <1>6, <1>7 DEF t

-----------------------------------------------------------------------------
(* The guardrails' algebra.                                                 *)

\* INV-02: a child's capabilities are among those requested, those of its
\* parent and those the policy grants it (capabilities.py:28).
LEMMA ChildAttenuated ==
  ASSUME NEW requested, NEW parent, NEW policy
  PROVE  /\ DeriveChild(requested, parent, policy) \subseteq requested
         /\ DeriveChild(requested, parent, policy) \subseteq parent
         /\ DeriveChild(requested, parent, policy) \subseteq policy
BY DEF DeriveChild

\* Fewer capabilities permit no more.
LEMMA PermitsMonotone ==
  ASSUME NEW caps, NEW more, caps \subseteq more, NEW op, Permits(caps, op)
  PROVE  Permits(more, op)
BY DEF Permits

\* INV-06: the builtin compiler puts nothing that can be executed in the
\* instruction channel, whatever was observed (compiler.py:58).
LEMMA NothingEmbedded ==
  ASSUME NEW ctx
  PROVE  EmbeddedInstructions(ctx) = {}
BY DEF EmbeddedInstructions, Compile, Item

LEMMA EmptyReaction ==
  ASSUME NEW ctx, NEW plan \in Reaction(ctx)
  PROVE  plan = << >>
<1>1. EmbeddedInstructions(ctx) = {}
  BY NothingEmbedded
<1>2. PICK ops \in SetToSeqs({}) : plan = [i \in DOMAIN ops |-> OpStep(ops[i], "context")]
  BY <1>1 DEF Reaction
<1>3. Cardinality({}) = 0
  BY FS_EmptySet
<1>4. ops \in [1 .. 0 -> {}]
  BY <1>2, <1>3 DEF SetToSeqs
<1>5. DOMAIN ops = {}
  BY <1>4
<1>. QED
  BY <1>2, <1>5

-----------------------------------------------------------------------------
(* The inductive invariant.  A call's frame relates to the frame of its     *)
(* caller; the relations below are what every push, pop and replacement of  *)
(* the top frame preserves.                                                 *)

\* The same agent with the same authority: what executing steps never changes.
SameAgent(ctx, other) ==
  /\ ctx.actor = other.actor
  /\ ctx.chain = other.chain
  /\ ctx.caps = other.caps

\* What holds of a frame by itself.
Sound(frame) ==
  /\ frame.at \in {"approve", "invoke"} =>
       /\ frame.steps # << >>
       /\ Head(frame.steps).type = "op"
       /\ Permits(frame.ctx.caps, Head(frame.steps).op)
  /\ frame.at \in {"step", "approve"} => frame.grant = NoGrant
  /\ \A k \in DOMAIN frame.steps :
       frame.steps[k].type = "op" => frame.steps[k].origin = "model"

\* What holds of a frame and those below it.
Link(s, i) ==
  /\ i = 1 => s[i].at \in SessionAt /\ s[i].ctx.chain = <<s[i].ctx.actor>>
  /\ i > 1 /\ s[i].at \in SessionAt =>
       /\ s[i - 1].at = "step"
       /\ s[i].ctx.chain = Append(s[i - 1].ctx.chain, s[i].ctx.actor)
  /\ i > 1 /\ s[i].at \in PlanAt =>
       /\ s[i - 1].at \in {"ran", "step"}
       /\ SameAgent(s[i].ctx, s[i - 1].ctx)
  /\ \A j \in 1 .. i : s[i].ctx.caps \subseteq s[j].ctx.caps
  /\ Sound(s[i])

Linked(s) == \A i \in DOMAIN s : Link(s, i)

\* A session that resumes finds its own agent in last_ctx: a finished plan
\* left it there, and no other call ends on top of a session.
Resumable ==
  status = "running" =>
    /\ stack # << >>
    /\ Top.at = "ran" => lastCtx \in Ctx /\ SameAgent(lastCtx, Top.ctx)

IInv == TypeOK /\ Linked(stack) /\ Resumable

\* Nothing is in the broker's hands.
Settled == ~Running("approve") /\ ~Running("invoke")

LEMMA LinkedReplace ==
  ASSUME NEW s \in Seq(Frame), s # << >>, Linked(s),
         NEW frame \in Frame, SameAgent(frame.ctx, s[Len(s)].ctx), Sound(frame),
         \/ frame.at \in SessionAt /\ s[Len(s)].at \in SessionAt
         \/ frame.at \in PlanAt /\ s[Len(s)].at \in PlanAt
  PROVE  Linked([s EXCEPT ![Len(s)] = frame])
<1>1. PICK n \in Nat : n = Len(s) /\ n >= 1 /\ DOMAIN s = 1 .. n
  BY LastElement
<1> DEFINE t == [s EXCEPT ![n] = frame]
<1>2. DOMAIN t = 1 .. n /\ t[n] = frame /\ \A i \in 1 .. n - 1 : t[i] = s[i]
  BY <1>1, ReplaceLast
<1> HIDE DEF t
<1>3. SUFFICES ASSUME NEW i \in 1 .. n PROVE Link(t, i)
  BY <1>1, <1>2 DEF Linked, t
<1>4. Link(s, i) /\ Link(s, n)
  BY <1>1 DEF Linked
<1>5. CASE i < n
  <2>1. t[i] = s[i] /\ (i > 1 => t[i - 1] = s[i - 1]) /\ \A j \in 1 .. i : t[j] = s[j]
    BY <1>1, <1>2, <1>5
  <2>. QED
    BY <1>4, <2>1 DEF Link
<1>6. CASE i = n
  <2>1. t[n] = frame /\ (n > 1 => t[n - 1] = s[n - 1])
    BY <1>1, <1>2
  <2>2. \A j \in 1 .. n : frame.ctx.caps \subseteq t[j].ctx.caps
    <3>1. TAKE j \in 1 .. n
    <3>2. CASE j = n
      BY <3>2, <1>2
    <3>3. CASE j < n
      <4>1. t[j] = s[j] /\ s[n].ctx.caps \subseteq s[j].ctx.caps
        BY <3>3, <1>2, <1>4 DEF Link
      <4>. QED
        BY <4>1, <1>1 DEF SameAgent
    <3>. QED
      BY <3>2, <3>3
  <2>3. n = 1 => frame.at \in SessionAt /\ frame.ctx.chain = <<frame.ctx.actor>>
    BY <1>1, <1>4 DEF Link, SameAgent, SessionAt, PlanAt
  <2>4. n > 1 /\ frame.at \in SessionAt =>
          /\ s[n - 1].at = "step"
          /\ frame.ctx.chain = Append(s[n - 1].ctx.chain, frame.ctx.actor)
    BY <1>1, <1>4 DEF Link, SameAgent, SessionAt, PlanAt
  <2>5. n > 1 /\ frame.at \in PlanAt =>
          s[n - 1].at \in {"ran", "step"} /\ SameAgent(frame.ctx, s[n - 1].ctx)
    BY <1>1, <1>4 DEF Link, SameAgent, SessionAt, PlanAt
  <2>. QED
    BY <1>6, <2>1, <2>2, <2>3, <2>4, <2>5 DEF Link
<1>. QED
  BY <1>1, <1>5, <1>6

LEMMA LinkedPush ==
  ASSUME NEW s \in Seq(Frame), s # << >>, Linked(s),
         NEW frame \in Frame, Sound(frame),
         frame.ctx.caps \subseteq s[Len(s)].ctx.caps,
         \/ /\ frame.at \in SessionAt
            /\ s[Len(s)].at = "step"
            /\ frame.ctx.chain = Append(s[Len(s)].ctx.chain, frame.ctx.actor)
         \/ /\ frame.at \in PlanAt
            /\ s[Len(s)].at \in {"ran", "step"}
            /\ SameAgent(frame.ctx, s[Len(s)].ctx)
  PROVE  Linked(Append(s, frame))
<1>1. PICK n \in Nat : n = Len(s) /\ n >= 1 /\ DOMAIN s = 1 .. n
  BY LastElement
<1> DEFINE t == Append(s, frame)
<1>2. DOMAIN t = 1 .. n + 1 /\ t[n + 1] = frame /\ \A i \in 1 .. n : t[i] = s[i]
  BY <1>1, PushLast
<1> HIDE DEF t
<1>3. SUFFICES ASSUME NEW i \in 1 .. n + 1 PROVE Link(t, i)
  BY <1>2 DEF Linked, t
<1>4. CASE i <= n
  <2>1. Link(s, i)
    BY <1>1, <1>4 DEF Linked
  <2>2. t[i] = s[i] /\ (i > 1 => t[i - 1] = s[i - 1]) /\ \A j \in 1 .. i : t[j] = s[j]
    BY <1>1, <1>2, <1>4
  <2>. QED
    BY <2>1, <2>2 DEF Link
<1>5. CASE i = n + 1
  <2>1. t[n + 1] = frame /\ t[n] = s[n] /\ i - 1 = n /\ i > 1
    BY <1>1, <1>2, <1>5
  <2>2. \A j \in 1 .. n + 1 : frame.ctx.caps \subseteq t[j].ctx.caps
    <3>1. TAKE j \in 1 .. n + 1
    <3>2. CASE j = n + 1
      BY <3>2, <1>2
    <3>3. CASE j <= n
      <4>1. Link(s, n)
        BY <1>1 DEF Linked
      <4>2. j \in 1 .. n /\ t[j] = s[j]
        BY <1>1, <1>2, <3>3
      <4>3. s[n].ctx.caps \subseteq s[j].ctx.caps
        BY <4>1, <4>2 DEF Link
      <4>. QED
        BY <4>2, <4>3, <1>1
    <3>. QED
      BY <3>2, <3>3
  <2>3. frame.at \in SessionAt =>
          s[n].at = "step" /\ frame.ctx.chain = Append(s[n].ctx.chain, frame.ctx.actor)
    BY <1>1 DEF SessionAt, PlanAt
  <2>4. frame.at \in PlanAt =>
          s[n].at \in {"ran", "step"} /\ SameAgent(frame.ctx, s[n].ctx)
    BY <1>1 DEF SessionAt, PlanAt
  <2>5. i # 1 /\ t[i] = frame /\ t[i - 1] = s[n]
    BY <2>1, <1>5
  <2>6. \A j \in 1 .. i : t[i].ctx.caps \subseteq t[j].ctx.caps
    BY <2>2, <2>5, <1>5
  <2>. QED
    BY <2>3, <2>4, <2>5, <2>6 DEF Link
<1>. QED
  BY <1>1, <1>4, <1>5

LEMMA LinkedPop ==
  ASSUME NEW s \in Seq(Frame), s # << >>, Linked(s)
  PROVE  Linked(SubSeq(s, 1, Len(s) - 1))
<1>1. PICK n \in Nat : n = Len(s) /\ n >= 1 /\ DOMAIN s = 1 .. n
  BY LastElement
<1> DEFINE t == SubSeq(s, 1, n - 1)
<1>2. DOMAIN t = 1 .. n - 1 /\ \A i \in 1 .. n - 1 : t[i] = s[i]
  BY <1>1, PopLast
<1> HIDE DEF t
<1>3. SUFFICES ASSUME NEW i \in 1 .. n - 1 PROVE Link(t, i)
  BY <1>1, <1>2 DEF Linked, t
<1>4. Link(s, i)
  BY <1>1 DEF Linked
<1>5. t[i] = s[i] /\ (i > 1 => t[i - 1] = s[i - 1]) /\ \A j \in 1 .. i : t[j] = s[j]
  BY <1>1, <1>2
<1>. QED
  BY <1>4, <1>5 DEF Link

-----------------------------------------------------------------------------
(* Types of the frames and contexts the steps build.                        *)

LEMMA StepFields ==
  ASSUME NEW step \in Step
  PROVE  /\ step.type \in {"op", "delegate", "reflect"}
         /\ step.type = "op" =>
              step.op \in Operation /\ step.origin \in {"model", "context"}
         /\ step.type = "delegate" =>
              /\ step.child \in Agent
              /\ step.requested \in SUBSET Capability
              /\ step.policy \in SUBSET Capability
              /\ step.skills \in SUBSET Skill
BY DEF Step

LEMMA FrameFields ==
  ASSUME NEW frame \in Frame
  PROVE  /\ frame.at \in SessionAt \cup PlanAt
         /\ frame.ctx \in Ctx
         /\ frame.steps \in Seq(Step)
         /\ frame.scripted \in BOOLEAN
         /\ frame.final \in BOOLEAN
         /\ frame.grant \in Grant \cup {NoGrant}
         /\ frame.steps # << >> => Head(frame.steps) \in Step
BY DEF Frame

LEMMA SessionFrame ==
  ASSUME NEW ctx \in Ctx, NEW scripted \in BOOLEAN
  PROVE  /\ Session(ctx, scripted) \in Frame
         /\ Session(ctx, scripted).at = "ask"
         /\ Session(ctx, scripted).ctx = ctx
         /\ Sound(Session(ctx, scripted))
BY DEF Session, Frame, SessionAt, Sound

LEMMA PlanFrame ==
  ASSUME NEW ctx \in Ctx, NEW steps \in Seq(Step),
         \A k \in DOMAIN steps : steps[k].type = "op" => steps[k].origin = "model"
  PROVE  /\ Plan(ctx, steps) \in Frame
         /\ Plan(ctx, steps).at = "step"
         /\ Plan(ctx, steps).ctx = ctx
         /\ Sound(Plan(ctx, steps))
<1>1. /\ Plan(ctx, steps).at = "step"
      /\ Plan(ctx, steps).ctx = ctx
      /\ Plan(ctx, steps).steps = steps
      /\ Plan(ctx, steps).grant = NoGrant
  BY DEF Plan
<1>2. Plan(ctx, steps) \in Frame
  BY DEF Plan, Frame, PlanAt
<1>. QED
  BY <1>1, <1>2 DEF Sound

LEMMA AtFrame ==
  ASSUME NEW frame \in Frame, NEW at \in SessionAt \cup PlanAt
  PROVE  LET new == [frame EXCEPT !.at = at]
         IN /\ new \in Frame
            /\ new.at = at
            /\ new.ctx = frame.ctx
            /\ new.steps = frame.steps
            /\ new.grant = frame.grant
BY DEF Frame

LEMMA AdvancedFrame ==
  ASSUME TypeOK, stack # << >>, Sound(Top), Top.steps # << >>, NEW ctx \in Ctx
  PROVE  /\ Advanced(ctx) \in Frame
         /\ Advanced(ctx).at = "step"
         /\ Advanced(ctx).ctx = ctx
         /\ Sound(Advanced(ctx))
<1>1. Top \in Frame
  BY LastElement DEF TypeOK, Top
<1>2. Tail(Top.steps) \in Seq(Step)
  BY <1>1, FrameFields
<1>3. \A k \in DOMAIN Tail(Top.steps) :
        Tail(Top.steps)[k].type = "op" => Tail(Top.steps)[k].origin = "model"
  <2>1. Top.steps \in Seq(Step)
    BY <1>1, FrameFields
  <2>2. PICK n \in Nat : n = Len(Top.steps) /\ n >= 1 /\ DOMAIN Top.steps = 1 .. n
    BY <2>1, LastElement
  <2>3. /\ Len(Tail(Top.steps)) = n - 1
        /\ \A k \in 1 .. n - 1 : Tail(Top.steps)[k] = Top.steps[k + 1]
    BY <2>1, <2>2, HeadTailProperties
  <2>4. DOMAIN Tail(Top.steps) = 1 .. n - 1
    BY <1>2, <2>3
  <2>. QED
    BY <2>2, <2>3, <2>4 DEF Sound
<1>4. /\ Advanced(ctx) \in Frame
      /\ Advanced(ctx).at = "step"
      /\ Advanced(ctx).ctx = ctx
      /\ Advanced(ctx).steps = Tail(Top.steps)
      /\ Advanced(ctx).grant = NoGrant
  BY <1>1, <1>2 DEF Advanced, Frame, PlanAt
<1>. QED
  BY <1>3, <1>4 DEF Sound

LEMMA MergeType ==
  ASSUME NEW record \in Provenance, NEW tag \in Tag
  PROVE  Merge(record, tag) \in Provenance
<1>1. record.instructions \in Seq(Tag) /\ record.data \in Seq(Tag)
  BY DEF Provenance
<1>2. Append(record.instructions, tag) \in Seq(Tag) /\ Append(record.data, tag) \in Seq(Tag)
  BY <1>1
<1>. QED
  BY <1>1, <1>2 DEF Merge, Provenance

\* A tool result changes what an agent has seen, not who it is (broker.py:107).
LEMMA ObservedCtx ==
  ASSUME NEW ctx \in Ctx, NEW ns \in Namespace, NEW result \in ToolResult
  PROVE  /\ Observed(ctx, ns, result) \in Ctx
         /\ SameAgent(Observed(ctx, ns, result), ctx)
<1> DEFINE trust == AssignedTrust(ns, result.trust)
           tag == [source |-> ns, trust |-> trust]
           seen == [source |-> ns, trust |-> trust, embeds |-> result.embeds]
<1>1. trust \in Trust
  BY DEF AssignedTrust, ToolResult, Trust
<1>2. seen \in Observation /\ tag \in Tag
  BY <1>1 DEF Observation, Tag, ToolResult
<1>3. Merge(ctx.provenance, tag) \in Provenance
  <2>1. ctx.provenance \in Provenance
    BY DEF Ctx
  <2>. QED
    BY <1>2, <2>1, MergeType
<1>4. Append(ctx.observations, seen) \in Seq(Observation) /\ ctx.used + 1 \in Nat
  BY <1>2 DEF Ctx
<1> HIDE DEF tag, seen
<1>5. Observed(ctx, ns, result) =
        [ctx EXCEPT !.provenance = Merge(@, tag),
                    !.observations = Append(@, seen), !.used = @ + 1]
  BY DEF Observed, tag, seen
<1>. QED
  BY <1>3, <1>4, <1>5 DEF Ctx, SameAgent

\* INV-02: a child context is its parent's with fewer capabilities and a
\* longer chain (context.py:64).
LEMMA ChildContext ==
  ASSUME NEW ctx \in Ctx, NEW step \in Step, step.type = "delegate"
  PROVE  /\ ChildCtx(ctx, step) \in Ctx
         /\ ChildCtx(ctx, step).caps \subseteq ctx.caps
         /\ ChildCtx(ctx, step).chain = Append(ctx.chain, ChildCtx(ctx, step).actor)
<1> DEFINE caps == DeriveChild(step.requested, ctx.caps, step.policy)
           skills == ctx.skills \cup Attachable(step.skills, caps)
<1>1. /\ step.child \in Agent
      /\ step.skills \in SUBSET Skill
  BY StepFields
<1>2. caps \subseteq ctx.caps /\ caps \in SUBSET Capability
  BY ChildAttenuated DEF Ctx
<1>3. skills \in SUBSET Skill
  BY <1>1 DEF Ctx, Attachable
<1>4. Append(ctx.chain, step.child) \in Seq(Agent)
  BY <1>1 DEF Ctx
<1> HIDE DEF caps, skills
<1>5. ChildCtx(ctx, step) =
        [ctx EXCEPT !.actor = step.child, !.chain = Append(@, step.child), !.caps = caps,
                    !.grants = << >>, !.observations = << >>, !.used = 0, !.skills = skills]
  BY DEF ChildCtx, caps, skills, Ctx
<1>6. << >> \in Seq(Grant) /\ << >> \in Seq(Observation) /\ 0 \in Nat
  OBVIOUS
<1>7. ChildCtx(ctx, step) =
        [actor |-> step.child, chain |-> Append(ctx.chain, step.child), caps |-> caps,
         grants |-> << >>, observations |-> << >>, provenance |-> ctx.provenance,
         used |-> 0, skills |-> skills]
  BY <1>5 DEF Ctx
<1>8. ctx.provenance \in Provenance
  BY DEF Ctx
<1>9. ChildCtx(ctx, step) \in Ctx
  BY <1>1, <1>2, <1>3, <1>4, <1>6, <1>7, <1>8 DEF Ctx
<1>. QED
  BY <1>2, <1>7, <1>9

LEMMA AuthorizeVerdict ==
  ASSUME NEW ctx, NEW op, NEW withdrawn
  PROVE  /\ Authorize(ctx, op, withdrawn) \in Verdicts
         /\ Authorize(ctx, op, withdrawn) # "deny" =>
              Permits(ctx.caps, op) /\ Kind(op) \notin withdrawn
         /\ Authorize(ctx, op, withdrawn) = "allow" => Kind(op) \notin ApprovalAction
BY DEF Authorize, Verdicts

-----------------------------------------------------------------------------
(* What a step may do to the stack, under the invariant.                    *)

LEMMA TopSound ==
  ASSUME TypeOK, Linked(stack), stack # << >>
  PROVE  /\ stack \in Seq(Frame)
         /\ Top = stack[Len(stack)]
         /\ Top \in Frame
         /\ Top.ctx \in Ctx
         /\ Sound(Top)
<1>1. stack \in Seq(Frame)
  BY DEF TypeOK
<1>2. Top \in Frame /\ Len(stack) \in DOMAIN stack
  BY <1>1, LastElement DEF Top
<1>3. Link(stack, Len(stack))
  BY <1>2 DEF Linked
<1>. QED
  BY <1>1, <1>2, <1>3, FrameFields DEF Link, Top

LEMMA ReplaceTop ==
  ASSUME TypeOK, Linked(stack), stack # << >>,
         NEW frame \in Frame, SameAgent(frame.ctx, Top.ctx), Sound(frame),
         \/ frame.at \in SessionAt /\ Top.at \in SessionAt
         \/ frame.at \in PlanAt /\ Top.at \in PlanAt
  PROVE  /\ WithTop(frame) \in Seq(Frame)
         /\ WithTop(frame) # << >>
         /\ Linked(WithTop(frame))
         /\ WithTop(frame)[Len(WithTop(frame))] = frame
<1>1. stack \in Seq(Frame) /\ Top = stack[Len(stack)]
  BY TopSound
<1>2. Linked(WithTop(frame))
  BY <1>1, LinkedReplace DEF WithTop
<1>. QED
  BY <1>1, <1>2, ReplaceLast DEF WithTop

LEMMA PushOnTop ==
  ASSUME TypeOK, Linked(stack), stack # << >>,
         NEW frame \in Frame, SameAgent(frame.ctx, Top.ctx), Sound(frame),
         \/ frame.at \in SessionAt /\ Top.at \in SessionAt
         \/ frame.at \in PlanAt /\ Top.at \in PlanAt,
         NEW callee \in Frame, Sound(callee), callee.ctx.caps \subseteq frame.ctx.caps,
         \/ /\ callee.at \in SessionAt
            /\ frame.at = "step"
            /\ callee.ctx.chain = Append(frame.ctx.chain, callee.ctx.actor)
         \/ /\ callee.at \in PlanAt
            /\ frame.at \in {"ran", "step"}
            /\ SameAgent(callee.ctx, frame.ctx)
  PROVE  LET called == Append(WithTop(frame), callee)
         IN /\ called \in Seq(Frame)
            /\ called # << >>
            /\ Linked(called)
            /\ called[Len(called)] = callee
<1>1. /\ WithTop(frame) \in Seq(Frame)
      /\ WithTop(frame) # << >>
      /\ Linked(WithTop(frame))
      /\ WithTop(frame)[Len(WithTop(frame))] = frame
  BY ReplaceTop
<1>2. Linked(Append(WithTop(frame), callee))
  BY <1>1, LinkedPush
<1>3. PICK n \in Nat : n = Len(WithTop(frame))
  BY <1>1
<1>. QED
  BY <1>1, <1>2, <1>3, PushLast

LEMMA PopTop ==
  ASSUME TypeOK, Linked(stack), stack # << >>
  PROVE  /\ Below \in Seq(Frame)
         /\ Linked(Below)
         /\ Below = << >> => Top.at \in SessionAt
         /\ Below # << >> =>
              LET caller == Below[Len(Below)]
              IN /\ Top.at \in SessionAt => caller.at = "step"
                 /\ Top.at \in PlanAt =>
                      caller.at \in {"ran", "step"} /\ SameAgent(Top.ctx, caller.ctx)
<1>1. stack \in Seq(Frame) /\ Top = stack[Len(stack)]
  BY TopSound
<1>2. Linked(Below)
  BY <1>1, LinkedPop DEF Below
<1>3. PICK n \in Nat : n = Len(stack) /\ n >= 1 /\ DOMAIN stack = 1 .. n
  BY <1>1, LastElement
<1>4. /\ Below \in Seq(Frame)
      /\ Len(Below) = n - 1
      /\ \A i \in 1 .. n - 1 : Below[i] = stack[i]
  BY <1>1, <1>3, PopLast DEF Below
<1>5. Link(stack, n)
  BY <1>3 DEF Linked
<1>6. Top = stack[n]
  BY <1>1, <1>3
<1>7. CASE Below = << >>
  <2>1. n = 1
    <3>1. Len(Below) = 0
      BY <1>7
    <3>2. n - 1 = 0
      BY <3>1, <1>4
    <3>. QED
      BY <3>2, <1>3
  <2>. QED
    BY <1>2, <1>4, <1>5, <1>6, <1>7, <2>1 DEF Link
<1>8. CASE Below # << >>
  <2>1. n > 1
    <3>1. Len(Below) # 0
      BY <1>4, <1>8
    <3>. QED
      BY <3>1, <1>3, <1>4
  <2>2. Below[Len(Below)] = stack[n - 1]
    BY <2>1, <1>4
  <2>. QED
    BY <1>2, <1>4, <1>5, <1>6, <1>8, <2>1, <2>2 DEF Link
<1>. QED
  BY <1>7, <1>8

-----------------------------------------------------------------------------
(* The invariant holds at the start, and every step preserves it.           *)

LEMMA InitInvariant == Init => IInv
<1>1. SUFFICES ASSUME Init PROVE IInv
  OBVIOUS
<1>2. PICK ctx \in RootCtx, scripted \in BOOLEAN : stack = <<Session(ctx, scripted)>>
  BY <1>1 DEF Init
<1>3. ctx \in Ctx /\ ctx.chain = <<ctx.actor>>
  BY HarnessAssumption
<1>4. /\ Session(ctx, scripted) \in Frame
      /\ Session(ctx, scripted).at = "ask"
      /\ Session(ctx, scripted).ctx = ctx
      /\ Sound(Session(ctx, scripted))
  BY <1>3, SessionFrame
<1>5. /\ stack \in Seq(Frame) /\ stack # << >>
      /\ Len(stack) = 1 /\ DOMAIN stack = {1}
      /\ stack[1] = Session(ctx, scripted)
  BY <1>2, <1>4
<1>6. Linked(stack)
  BY <1>3, <1>4, <1>5 DEF Linked, Link, SessionAt
<1>7. Resumable
  BY <1>4, <1>5 DEF Resumable, Top
<1>8. TypeOK
  <2>1. Len(ctx.grants) \in Nat
    BY <1>3 DEF Ctx
  <2>2. nextGrant \in Nat
    BY <1>1, <1>4, <1>5, <2>1 DEF Init
  <2>3. spent \in 0 .. Limit
    BY <1>1, HarnessAssumption DEF Init
  <2>. QED
    BY <1>1, <1>5, <2>2, <2>3 DEF Init, TypeOK
<1>. QED
  BY <1>6, <1>7, <1>8 DEF IInv

LEMMA RunningTop ==
  ASSUME IInv, status = "running"
  PROVE  /\ TypeOK /\ Linked(stack) /\ stack # << >>
         /\ stack \in Seq(Frame)
         /\ Top = stack[Len(stack)]
         /\ Top \in Frame
         /\ Top.ctx \in Ctx
         /\ Sound(Top)
<1>1. TypeOK /\ Linked(stack) /\ stack # << >>
  BY DEF IInv, Resumable
<1>. QED
  BY <1>1, TopSound

LEMMA SameAgentReflexive == \A ctx : SameAgent(ctx, ctx)
BY DEF SameAgent

LEMMA NextTurnStep ==
  ASSUME IInv, NextTurn PROVE IInv' /\ Settled'
<1>1. status = "running" /\ Top.at = "ask"
  BY DEF NextTurn, Running
<1>2. /\ TypeOK /\ Linked(stack) /\ stack # << >>
      /\ Top \in Frame /\ Top.ctx \in Ctx /\ Sound(Top)
  BY <1>1, RunningTop
<1>3. PICK plan \in Plans, final \in BOOLEAN :
        stack' = IF plan = << >>
                 THEN WithTop([Top EXCEPT !.at = "turned", !.final = final])
                 ELSE Append(WithTop([Top EXCEPT !.at = "ran", !.final = final]),
                             Plan(Top.ctx, plan))
  BY DEF NextTurn
<1>4. ASSUME NEW at \in {"turned", "ran"}
      PROVE  LET frame == [Top EXCEPT !.at = at, !.final = final]
             IN /\ frame \in Frame /\ frame.at = at /\ frame.ctx = Top.ctx /\ Sound(frame)
                /\ SameAgent(frame.ctx, Top.ctx)
  BY <1>2, <1>4 DEF Frame, SessionAt, PlanAt, Sound, SameAgent
<1>5. /\ stack' \in Seq(Frame) /\ stack' # << >> /\ Linked(stack')
      /\ stack'[Len(stack')].at \in {"turned", "step"}
  <2>1. CASE plan = << >>
    <3> DEFINE frame == [Top EXCEPT !.at = "turned", !.final = final]
    <3>1. /\ frame \in Frame /\ frame.at = "turned" /\ Sound(frame)
          /\ SameAgent(frame.ctx, Top.ctx)
      BY <1>4
    <3> HIDE DEF frame
    <3>2. stack' = WithTop(frame)
      BY <1>3, <2>1 DEF frame
    <3>. QED
      BY <1>1, <1>2, <3>1, <3>2, ReplaceTop DEF SessionAt
  <2>2. CASE plan # << >>
    <3> DEFINE frame == [Top EXCEPT !.at = "ran", !.final = final]
    <3>1. /\ frame \in Frame /\ frame.at = "ran" /\ frame.ctx = Top.ctx /\ Sound(frame)
          /\ SameAgent(frame.ctx, Top.ctx)
      BY <1>4
    <3> HIDE DEF frame
    <3>2. stack' = Append(WithTop(frame), Plan(Top.ctx, plan))
      BY <1>3, <2>2 DEF frame
    <3>3. /\ plan \in Seq(Step)
          /\ \A k \in DOMAIN plan : plan[k].type = "op" => plan[k].origin = "model"
      BY HarnessAssumption
    <3>4. /\ Plan(Top.ctx, plan) \in Frame
          /\ Plan(Top.ctx, plan).at = "step"
          /\ Plan(Top.ctx, plan).ctx = Top.ctx
          /\ Sound(Plan(Top.ctx, plan))
      BY <1>2, <3>3, PlanFrame
    <3>5. /\ Plan(Top.ctx, plan).ctx.caps \subseteq frame.ctx.caps
          /\ SameAgent(Plan(Top.ctx, plan).ctx, frame.ctx)
      BY <3>1, <3>4, SameAgentReflexive
    <3>6. /\ frame.at \in SessionAt /\ Top.at \in SessionAt
          /\ Plan(Top.ctx, plan).at \in PlanAt /\ frame.at \in {"ran", "step"}
      BY <1>1, <3>1, <3>4 DEF SessionAt, PlanAt
    <3>. QED
      BY <1>2, <3>1, <3>2, <3>4, <3>5, <3>6, PushOnTop
  <2>. QED
    BY <2>1, <2>2
<1>6. Resumable'
  BY <1>5 DEF Resumable, Top
<1>7. TypeOK'
  BY <1>2, <1>5 DEF NextTurn, TypeOK
<1>8. Settled'
  BY <1>5 DEF Settled, Running, Top
<1>. QED
  BY <1>5, <1>6, <1>7, <1>8 DEF IInv

LEMMA EndTurnStep ==
  ASSUME IInv, EndTurn PROVE IInv' /\ Settled'
<1>1. status = "running" /\ Top.at \in {"ran", "turned"}
  BY DEF EndTurn, Running
<1>2. /\ TypeOK /\ Linked(stack) /\ stack # << >>
      /\ Top \in Frame /\ Top.ctx \in Ctx /\ Sound(Top)
  BY <1>1, RunningTop
<1>3. Top.at \in SessionAt /\ Top.at \notin PlanAt
  BY <1>1 DEF SessionAt, PlanAt
<1>4. CASE LoopEnds
  <2>1. stack' = Below /\ status' = IF Below = << >> THEN "finished" ELSE status
    BY <1>4 DEF EndTurn, Returned
  <2>2. /\ Below \in Seq(Frame) /\ Linked(Below)
        /\ Below # << >> => Below[Len(Below)].at = "step"
    BY <1>2, <1>3, PopTop
  <2>3. Resumable'
    BY <2>1, <2>2 DEF Resumable, Top
  <2>4. TypeOK'
    BY <1>2, <2>1, <2>2 DEF EndTurn, TypeOK
  <2>5. Settled'
    BY <2>1, <2>2 DEF Settled, Running, Top
  <2>. QED
    BY <2>1, <2>2, <2>3, <2>4, <2>5 DEF IInv
<1>5. CASE ~LoopEnds
  <2> DEFINE frame == [Top EXCEPT !.at = "ask", !.ctx = Resumed]
  <2>1. Resumed \in Ctx /\ SameAgent(Resumed, Top.ctx)
    BY <1>1, <1>2, SameAgentReflexive DEF Resumed, IInv, Resumable
  <2>2. /\ frame \in Frame /\ frame.at = "ask" /\ frame.ctx = Resumed
        /\ frame.steps = Top.steps
    BY <1>2, <2>1 DEF Frame, SessionAt
  <2>3. Sound(frame)
    BY <1>2, <2>2 DEF Sound
  <2> HIDE DEF frame
  <2>4. stack' = WithTop(frame) /\ status' = status
    BY <1>5 DEF EndTurn, frame
  <2>5. frame.at \in SessionAt
    BY <2>2 DEF SessionAt
  <2>6. /\ stack' \in Seq(Frame) /\ stack' # << >> /\ Linked(stack')
        /\ stack'[Len(stack')].at = "ask"
    BY <1>2, <1>3, <2>1, <2>2, <2>3, <2>4, <2>5, ReplaceTop
  <2>7. Resumable'
    BY <2>6 DEF Resumable, Top
  <2>8. TypeOK'
    BY <1>2, <2>4, <2>6 DEF EndTurn, TypeOK
  <2>9. Settled'
    BY <2>6 DEF Settled, Running, Top
  <2>. QED
    BY <2>6, <2>7, <2>8, <2>9 DEF IInv
<1>. QED
  BY <1>4, <1>5

LEMMA EndPlanStep ==
  ASSUME IInv, EndPlan PROVE IInv' /\ Settled'
<1>1. status = "running" /\ Top.at = "step" /\ stack' = Below /\ lastCtx' = Top.ctx
  BY DEF EndPlan, Running
<1>2. TypeOK /\ Linked(stack) /\ stack # << >> /\ Top.ctx \in Ctx
  BY <1>1, RunningTop
<1>3. Top.at \in PlanAt /\ Top.at \notin SessionAt
  BY <1>1 DEF SessionAt, PlanAt
<1>4. /\ stack' \in Seq(Frame) /\ stack' # << >> /\ Linked(stack')
      /\ stack'[Len(stack')].at \in {"ran", "step"}
      /\ SameAgent(Top.ctx, stack'[Len(stack')].ctx)
  BY <1>1, <1>2, <1>3, PopTop
<1>5. Resumable'
  BY <1>1, <1>2, <1>4 DEF Resumable, Top
<1>6. TypeOK'
  BY <1>1, <1>2, <1>4 DEF EndPlan, TypeOK
<1>7. Settled'
  BY <1>4 DEF Settled, Running, Top
<1>. QED
  BY <1>4, <1>5, <1>6, <1>7 DEF IInv

\* A run that ends where it stands keeps the invariant.
LEMMA StoppedStep ==
  ASSUME IInv, UNCHANGED stack, TypeOK', status' # "running"
  PROVE  IInv'
BY DEF IInv, Resumable

LEMMA DelegateStep ==
  ASSUME IInv, Delegate PROVE IInv' /\ Settled'
<1>1. /\ status = "running" /\ Top.at = "step"
      /\ Top.steps # << >> /\ Head(Top.steps).type = "delegate"
  BY DEF Delegate, AtStep, Running
<1>2. /\ TypeOK /\ Linked(stack) /\ stack # << >>
      /\ Top \in Frame /\ Top.ctx \in Ctx /\ Sound(Top)
  BY <1>1, RunningTop
<1>3. Head(Top.steps) \in Step
  BY <1>1, <1>2, FrameFields
<1> DEFINE child == ChildCtx(Top.ctx, Head(Top.steps))
<1>4. /\ child \in Ctx
      /\ child.caps \subseteq Top.ctx.caps
      /\ child.chain = Append(Top.ctx.chain, child.actor)
  BY <1>1, <1>2, <1>3, ChildContext
<1> HIDE DEF child
<1>5. CASE Depth(Top.ctx) + 1 > MaxDepth
  <2>1. status' = "denied" /\ UNCHANGED stack
    BY <1>5 DEF Delegate
  <2>2. TypeOK'
    BY <1>2, <1>5 DEF Delegate, TypeOK
  <2>. QED
    BY <2>1, <2>2, StoppedStep DEF Settled, Running
<1>6. CASE ~(Depth(Top.ctx) + 1 > MaxDepth)
  <2>1. /\ stack' = Append(WithTop(Advanced(Top.ctx)), Session(child, TRUE))
        /\ status' = status
    BY <1>6 DEF Delegate, child
  <2>2. /\ Advanced(Top.ctx) \in Frame /\ Advanced(Top.ctx).at = "step"
        /\ Advanced(Top.ctx).ctx = Top.ctx /\ Sound(Advanced(Top.ctx))
    BY <1>1, <1>2, AdvancedFrame
  <2>3. /\ Session(child, TRUE) \in Frame /\ Session(child, TRUE).at = "ask"
        /\ Session(child, TRUE).ctx = child /\ Sound(Session(child, TRUE))
    BY <1>4, SessionFrame
  <2>4. /\ Advanced(Top.ctx).at \in PlanAt /\ Top.at \in PlanAt
        /\ Session(child, TRUE).at \in SessionAt
    BY <1>1, <2>2, <2>3 DEF SessionAt, PlanAt
  <2>5. /\ Session(child, TRUE).ctx.caps \subseteq Advanced(Top.ctx).ctx.caps
        /\ Session(child, TRUE).ctx.chain =
             Append(Advanced(Top.ctx).ctx.chain, Session(child, TRUE).ctx.actor)
        /\ SameAgent(Advanced(Top.ctx).ctx, Top.ctx)
    BY <1>4, <2>2, <2>3, SameAgentReflexive
  <2>6. /\ stack' \in Seq(Frame) /\ stack' # << >> /\ Linked(stack')
        /\ stack'[Len(stack')].at = "ask"
    BY <1>2, <2>1, <2>2, <2>3, <2>4, <2>5, PushOnTop
  <2>7. Resumable'
    BY <2>6 DEF Resumable, Top
  <2>9. TypeOK'
    BY <1>2, <2>1, <2>6 DEF Delegate, TypeOK
  <2>10. Settled'
    BY <2>6 DEF Settled, Running, Top
  <2>. QED
    BY <2>6, <2>7, <2>9, <2>10 DEF IInv
<1>. QED
  BY <1>5, <1>6

\* What a reflection starts is proposed by the model's scripts or is nothing.
LEMMA ReflectedPlan ==
  ASSUME NEW ctx, NEW scripted \in BOOLEAN,
         NEW plan \in IF scripted THEN Plans ELSE Reaction(ctx)
  PROVE  /\ plan \in Seq(Step)
         /\ \A k \in DOMAIN plan : plan[k].type = "op" => plan[k].origin = "model"
<1>1. CASE scripted
  BY <1>1, HarnessAssumption
<1>2. CASE ~scripted
  <2>1. plan = << >>
    BY <1>2, EmptyReaction
  <2>. QED
    BY <2>1
<1>. QED
  BY <1>1, <1>2

LEMMA ReflectStep ==
  ASSUME IInv, Reflect PROVE IInv' /\ Settled'
<1>1. /\ status = "running" /\ Top.at = "step"
      /\ Top.steps # << >> /\ Head(Top.steps).type = "reflect"
  BY DEF Reflect, AtStep, Running
<1>2. /\ TypeOK /\ Linked(stack) /\ stack # << >>
      /\ Top \in Frame /\ Top.ctx \in Ctx /\ Sound(Top)
  BY <1>1, RunningTop
<1>3. Head(Top.steps).scripted \in BOOLEAN
  <2>1. Head(Top.steps) \in Step
    BY <1>1, <1>2, FrameFields
  <2>. QED
    BY <1>1, <2>1 DEF Step
<1>4. PICK plan \in IF Head(Top.steps).scripted THEN Plans ELSE Reaction(Top.ctx) :
        stack' = Append(WithTop(Advanced(Top.ctx)), Plan(Top.ctx, plan))
  BY DEF Reflect
<1>5. /\ plan \in Seq(Step)
      /\ \A k \in DOMAIN plan : plan[k].type = "op" => plan[k].origin = "model"
  BY <1>3, <1>4, ReflectedPlan
<1>6. /\ Plan(Top.ctx, plan) \in Frame /\ Plan(Top.ctx, plan).at = "step"
      /\ Plan(Top.ctx, plan).ctx = Top.ctx /\ Sound(Plan(Top.ctx, plan))
  BY <1>2, <1>5, PlanFrame
<1>7. /\ Advanced(Top.ctx) \in Frame /\ Advanced(Top.ctx).at = "step"
      /\ Advanced(Top.ctx).ctx = Top.ctx /\ Sound(Advanced(Top.ctx))
  BY <1>1, <1>2, AdvancedFrame
<1>8. /\ Advanced(Top.ctx).at \in PlanAt /\ Top.at \in PlanAt
      /\ Plan(Top.ctx, plan).at \in PlanAt /\ Advanced(Top.ctx).at \in {"ran", "step"}
  BY <1>1, <1>6, <1>7 DEF PlanAt
<1>9. /\ Plan(Top.ctx, plan).ctx.caps \subseteq Advanced(Top.ctx).ctx.caps
      /\ SameAgent(Advanced(Top.ctx).ctx, Top.ctx)
      /\ SameAgent(Plan(Top.ctx, plan).ctx, Advanced(Top.ctx).ctx)
  BY <1>6, <1>7, SameAgentReflexive
<1>10. /\ stack' \in Seq(Frame) /\ stack' # << >> /\ Linked(stack')
       /\ stack'[Len(stack')].at = "step"
  BY <1>2, <1>4, <1>6, <1>7, <1>8, <1>9, PushOnTop
<1>11. Resumable'
  BY <1>10 DEF Resumable, Top
<1>12. TypeOK'
  BY <1>2, <1>10 DEF Reflect, TypeOK
<1>13. Settled'
  BY <1>10 DEF Settled, Running, Top
<1>. QED
  BY <1>10, <1>11, <1>12, <1>13 DEF IInv

\* The step in the broker's hands.
LEMMA TheStep ==
  ASSUME IInv, status = "running", Top.steps # << >>, Head(Top.steps).type = "op"
  PROVE  /\ TheOp \in Operation
         /\ Head(Top.steps).origin = "model"
         /\ TheHash \in Hash
         /\ NextActionId(Top.ctx) \in Int \X Nat
<1>1. Top \in Frame /\ Top.ctx \in Ctx /\ Sound(Top)
  BY RunningTop
<1>2. Head(Top.steps) \in Step /\ Top.steps \in Seq(Step)
  BY <1>1, FrameFields
<1>3. TheOp \in Operation
  BY <1>2, StepFields DEF TheOp
<1>4. Head(Top.steps).origin = "model"
  <2>1. 1 \in DOMAIN Top.steps /\ Head(Top.steps) = Top.steps[1]
    BY <1>2
  <2>. QED
    BY <1>1, <2>1 DEF Sound
<1>5. TheHash \in Hash
  BY <1>1, <1>3 DEF TheHash, ActionHash, Hash, Ctx
<1>6. NextActionId(Top.ctx) \in Int \X Nat
  BY <1>1 DEF NextActionId, Depth, Ctx
<1>. QED
  BY <1>3, <1>4, <1>5, <1>6

LEMMA EventType ==
  ASSUME IInv, status = "running", Top.steps # << >>, Head(Top.steps).type = "op",
         NEW kind \in {"decision", "denied", "approval.used", "executed"},
         NEW verdict \in Verdicts \cup {"none"}
  PROVE  TheEvent(kind, verdict) \in Event
BY TheStep DEF TheEvent, Event

LEMMA BrokerAuthorizeStep ==
  ASSUME IInv, BrokerAuthorize PROVE IInv'
<1>1. /\ status = "running" /\ Top.at = "step"
      /\ Top.steps # << >> /\ Head(Top.steps).type = "op"
  BY DEF BrokerAuthorize, AtStep, Running
<1>2. /\ TypeOK /\ Linked(stack) /\ stack # << >>
      /\ Top \in Frame /\ Top.ctx \in Ctx /\ Sound(Top)
  BY <1>1, RunningTop
<1> DEFINE verdict == Authorize(Top.ctx, TheOp, Consulted)
<1>3. /\ verdict \in Verdicts
      /\ verdict # "deny" => Permits(Top.ctx.caps, TheOp)
  BY AuthorizeVerdict
<1>4. trace' \in Seq(Event)
  <2>1. TheEvent("decision", verdict) \in Event /\ TheEvent("denied", "none") \in Event
    BY <1>1, <1>3, EventType
  <2>2. trace \in Seq(Event)
    BY <1>2 DEF TypeOK
  <2>3. /\ Append(trace, TheEvent("decision", verdict)) \in Seq(Event)
        /\ Append(Append(trace, TheEvent("decision", verdict)), TheEvent("denied", "none"))
             \in Seq(Event)
    BY <2>1, <2>2
  <2>. QED
    BY <2>3 DEF BrokerAuthorize
<1> HIDE DEF verdict
<1>5. CASE verdict = "deny"
  <2>1. status' = "denied" /\ UNCHANGED stack
    BY <1>5 DEF BrokerAuthorize, verdict
  <2>2. TypeOK'
    BY <1>2, <1>4, <2>1 DEF BrokerAuthorize, TypeOK
  <2>. QED
    BY <2>1, <2>2, StoppedStep
<1>6. CASE verdict # "deny"
  <2>1. PICK at \in {"approve", "invoke"} :
          stack' = WithTop([Top EXCEPT !.at = at]) /\ status' = status
    BY <1>3, <1>6 DEF BrokerAuthorize, verdict, Verdicts
  <2> DEFINE frame == [Top EXCEPT !.at = at]
  <2>2. /\ frame \in Frame /\ frame.at = at /\ frame.ctx = Top.ctx
        /\ frame.steps = Top.steps /\ frame.grant = Top.grant
    BY <1>2, AtFrame DEF PlanAt
  <2> HIDE DEF frame
  <2>3. Sound(frame)
    BY <1>1, <1>2, <1>3, <1>6, <2>2 DEF Sound, TheOp
  <2>4. frame.at \in PlanAt /\ Top.at \in PlanAt /\ SameAgent(frame.ctx, Top.ctx)
    BY <1>1, <2>2, SameAgentReflexive DEF PlanAt
  <2>5. /\ stack' \in Seq(Frame) /\ stack' # << >> /\ Linked(stack')
        /\ stack'[Len(stack')] = frame
    BY <1>2, <2>1, <2>2, <2>3, <2>4, ReplaceTop DEF frame
  <2>6. Resumable'
    BY <2>2, <2>5 DEF Resumable, Top
  <2>7. TypeOK'
    BY <1>2, <1>4, <2>1, <2>5 DEF BrokerAuthorize, TypeOK
  <2>. QED
    BY <2>5, <2>6, <2>7 DEF IInv
<1>. QED
  BY <1>5, <1>6

\* Approving with any grant, found or fresh, keeps the invariant.
LEMMA ApprovedStep ==
  ASSUME IInv, Running("approve"), NEW grant \in Grant, Approved(grant), nextGrant' \in Nat,
         UNCHANGED <<lastCtx, spent, consumed, revoked, history>>
  PROVE  IInv'
<1>1. status = "running" /\ Top.at = "approve"
  BY DEF Running
<1>2. /\ TypeOK /\ Linked(stack) /\ stack # << >>
      /\ Top \in Frame /\ Top.ctx \in Ctx /\ Sound(Top)
  BY <1>1, RunningTop
<1>3. Top.steps # << >> /\ Head(Top.steps).type = "op"
  BY <1>1, <1>2 DEF Sound
<1>4. trace' \in Seq(Event)
  <2>1. TheEvent("approval.used", "none") \in Event /\ TheEvent("denied", "none") \in Event
    BY <1>1, <1>3, EventType
  <2>2. trace \in Seq(Event)
    BY <1>2 DEF TypeOK
  <2>3. /\ Append(trace, TheEvent("approval.used", "none")) \in Seq(Event)
        /\ Append(trace, TheEvent("denied", "none")) \in Seq(Event)
    BY <2>1, <2>2
  <2>. QED
    BY <2>3 DEF Approved
<1>5. CASE ~ValidGrant(grant, TheHash, consumed)
  <2>1. status' = "denied" /\ UNCHANGED stack
    BY <1>5 DEF Approved
  <2>2. TypeOK'
    BY <1>2, <1>4, <2>1 DEF TypeOK
  <2>. QED
    BY <2>1, <2>2, StoppedStep
<1>6. CASE ValidGrant(grant, TheHash, consumed)
  <2> DEFINE frame == [Top EXCEPT !.at = "invoke", !.grant = grant,
                                  !.ctx.grants = Append(@, grant)]
             ctx == [Top.ctx EXCEPT !.grants = Append(@, grant)]
  <2>1. stack' = WithTop(frame) /\ status' = status
    BY <1>6 DEF Approved
  <2>2. Append(Top.ctx.grants, grant) \in Seq(Grant)
    BY <1>2 DEF Ctx
  <2>3. frame.ctx = ctx /\ frame.at = "invoke" /\ frame.steps = Top.steps
    BY <1>2 DEF Frame
  <2>4. frame.ctx \in Ctx /\ SameAgent(frame.ctx, Top.ctx)
    <3>1. ctx \in Ctx /\ SameAgent(ctx, Top.ctx)
      BY <1>2, <2>2 DEF Ctx, SameAgent
    <3> HIDE DEF ctx, frame
    <3>. QED
      BY <2>3, <3>1
  <2>5. frame \in Frame
    <3>1. frame = [Top EXCEPT !.at = "invoke", !.grant = grant, !.ctx = frame.ctx]
      BY <1>2 DEF Frame
    <3>2. "invoke" \in SessionAt \cup PlanAt
      BY DEF PlanAt
    <3> HIDE DEF frame
    <3>. QED
      BY <1>2, <2>4, <3>1, <3>2 DEF Frame
  <2> HIDE DEF frame
  <2>6. Sound(frame)
    BY <1>1, <1>2, <2>3, <2>4 DEF Sound, SameAgent
  <2>7. frame.at \in PlanAt /\ Top.at \in PlanAt
    BY <1>1, <2>3 DEF PlanAt
  <2>8. /\ stack' \in Seq(Frame) /\ stack' # << >> /\ Linked(stack')
        /\ stack'[Len(stack')] = frame
    BY <1>2, <2>1, <2>4, <2>5, <2>6, <2>7, ReplaceTop
  <2>9. Resumable'
    BY <2>3, <2>8 DEF Resumable, Top
  <2>10. TypeOK'
    BY <1>2, <1>4, <2>1, <2>8 DEF TypeOK
  <2>. QED
    BY <2>8, <2>9, <2>10 DEF IInv
<1>. QED
  BY <1>5, <1>6

LEMMA BrokerApproveStep ==
  ASSUME IInv, BrokerApprove PROVE IInv'
<1>1. Running("approve") /\ status = "running" /\ Top.at = "approve"
  BY DEF BrokerApprove, Running
<1>2. TypeOK /\ Top.ctx \in Ctx /\ Sound(Top)
  BY <1>1, RunningTop
<1>3. TheHash \in Hash
  BY <1>1, <1>2, TheStep DEF Sound
<1>4. PICK grant \in Grant : Approved(grant) /\ nextGrant' \in Nat
  <2>1. CASE \E i \in DOMAIN Top.ctx.grants : Approved(Top.ctx.grants[i]) /\ nextGrant' = nextGrant
    BY <1>2, <2>1 DEF TypeOK, Ctx
  <2>2. CASE Approved(FreshGrant(nextGrant, TheHash)) /\ nextGrant' = nextGrant + 1
    <3>1. FreshGrant(nextGrant, TheHash) \in Grant
      BY <1>2, <1>3 DEF FreshGrant, Grant, TypeOK
    <3>2. nextGrant' \in Nat
      BY <1>2, <2>2 DEF TypeOK
    <3>. QED
      BY <2>2, <3>1, <3>2
  <2>. QED
    BY <2>1, <2>2 DEF BrokerApprove
<1>. QED
  BY <1>1, <1>4, ApprovedStep DEF BrokerApprove

LEMMA BrokerExecuteStep ==
  ASSUME IInv, BrokerExecute PROVE IInv' /\ Settled'
<1>1. status = "running" /\ Top.at = "invoke" /\ spent < Limit /\ spent' = spent + 1
  BY DEF BrokerExecute, Running, Affordable, Charged
<1>2. /\ TypeOK /\ Linked(stack) /\ stack # << >>
      /\ Top \in Frame /\ Top.ctx \in Ctx /\ Sound(Top)
  BY <1>1, RunningTop
<1>3. Top.steps # << >> /\ Head(Top.steps).type = "op"
  BY <1>1, <1>2 DEF Sound
<1>4. TheOp \in Operation /\ Head(Top.steps).origin = "model" /\ TheOp.ns \in Namespace
  BY <1>1, <1>3, TheStep DEF Operation
<1>5. PICK result \in Results :
        /\ stack' = WithTop(AfterResult(result))
        /\ history' = Append(history,
             [actor |-> Top.ctx.actor, chain |-> Top.ctx.chain, op |-> TheOp,
              grant |-> Top.grant, origin |-> Head(Top.steps).origin,
              late |-> Kind(TheOp) \in revoked, ok |-> result.ok])
  BY DEF BrokerExecute
<1>6. result \in ToolResult
  BY HarnessAssumption
<1> DEFINE ctx == Observed(Top.ctx, TheOp.ns, result)
<1>7. ctx \in Ctx /\ SameAgent(ctx, Top.ctx)
  BY <1>2, <1>4, <1>6, ObservedCtx
<1> HIDE DEF ctx
<1>8. /\ Advanced(ctx) \in Frame /\ Advanced(ctx).at = "step"
      /\ Advanced(ctx).ctx = ctx /\ Sound(Advanced(ctx))
  BY <1>2, <1>3, <1>7, AdvancedFrame
<1>9. Advanced(ctx).at \in PlanAt /\ Top.at \in PlanAt
  BY <1>1, <1>8 DEF PlanAt
<1>10. stack' = WithTop(Advanced(ctx))
  BY <1>5 DEF AfterResult, ctx
<1>11. /\ stack' \in Seq(Frame) /\ stack' # << >> /\ Linked(stack')
       /\ stack'[Len(stack')] = Advanced(ctx)
  BY <1>2, <1>7, <1>8, <1>9, <1>10, ReplaceTop
<1>12. Resumable'
  BY <1>8, <1>11 DEF Resumable, Top
<1>13. trace' \in Seq(Event)
  <2>1. TheEvent("executed", "none") \in Event
    BY <1>1, <1>3, EventType
  <2>2. trace \in Seq(Event)
    BY <1>2 DEF TypeOK
  <2>3. Append(trace, TheEvent("executed", "none")) \in Seq(Event)
    BY <2>1, <2>2
  <2>. QED
    BY <2>3 DEF BrokerExecute
<1>14. history' \in Seq(Execution)
  <2> DEFINE late == Kind(TheOp) \in revoked
             execution ==
               [actor |-> Top.ctx.actor, chain |-> Top.ctx.chain, op |-> TheOp,
                grant |-> Top.grant, origin |-> Head(Top.steps).origin,
                late |-> late, ok |-> result.ok]
  <2>1. Top.ctx.actor \in Agent /\ Top.ctx.chain \in Seq(Agent)
    BY <1>2 DEF Ctx
  <2>2. Top.grant \in Grant \cup {NoGrant}
    BY <1>2, FrameFields
  <2>3. result.ok \in BOOLEAN
    BY <1>6 DEF ToolResult
  <2>4. late \in BOOLEAN
    OBVIOUS
  <2> HIDE DEF late
  <2>5. execution \in Execution
    BY <1>4, <2>1, <2>2, <2>3, <2>4 DEF Execution
  <2> HIDE DEF execution
  <2>6. history \in Seq(Execution)
    BY <1>2 DEF TypeOK
  <2>7. Append(history, execution) \in Seq(Execution)
    BY <2>5, <2>6
  <2>. QED
    BY <1>5, <2>7 DEF execution, late
<1>15. consumed' \subseteq Nat
  <2>1. Top.grant \in Grant \cup {NoGrant} /\ consumed \subseteq Nat
    BY <1>2, FrameFields DEF TypeOK
  <2>2. SpentBy(Top.grant) \subseteq Nat
    BY <2>1 DEF SpentBy, Grant
  <2>. QED
    BY <2>1, <2>2 DEF BrokerExecute
<1>16. spent' \in 0 .. Limit
  BY <1>1, <1>2, HarnessAssumption DEF TypeOK
<1>17. TypeOK'
  BY <1>2, <1>11, <1>13, <1>14, <1>15, <1>16 DEF BrokerExecute, TypeOK
<1>18. Settled'
  BY <1>8, <1>11 DEF Settled, Running, Top
<1>. QED
  BY <1>11, <1>12, <1>17, <1>18 DEF IInv

LEMMA StopSteps ==
  ASSUME IInv, ProviderRaises \/ RecursionLimit \/ BudgetExhausted \/ ToolRaises
  PROVE  IInv'
<1>1. UNCHANGED stack /\ status' \in {"failed", "denied"}
  BY DEF ProviderRaises, RecursionLimit, BudgetExhausted, ToolRaises
<1>2. spent' \in 0 .. Limit
  BY HarnessAssumption
  DEF IInv, TypeOK, ProviderRaises, RecursionLimit, BudgetExhausted, ToolRaises,
      Affordable, Charged
<1>3. UNCHANGED <<lastCtx, nextGrant, consumed, revoked, trace, history>>
  BY DEF ProviderRaises, RecursionLimit, BudgetExhausted, ToolRaises
<1>4. TypeOK'
  BY <1>1, <1>2, <1>3 DEF IInv, TypeOK
<1>. QED
  BY <1>1, <1>4, StoppedStep

LEMMA RevokeStep ==
  ASSUME IInv, Revoke PROVE IInv'
<1>1. UNCHANGED <<stack, lastCtx, status>>
  BY DEF Revoke
<1>2. revoked' \subseteq Namespace \X ActionName
  BY HarnessAssumption DEF IInv, TypeOK, Revoke
<1>3. TypeOK'
  BY <1>2 DEF IInv, TypeOK, Revoke
<1>. QED
  BY <1>1, <1>3 DEF IInv, Resumable, Top

LEMMA StutterStep ==
  ASSUME IInv, UNCHANGED vars PROVE IInv'
BY DEF IInv, vars, TypeOK, Resumable, Top

LEMMA NextInvariant == IInv /\ [Next]_vars => IInv'
<1>1. SUFFICES ASSUME IInv, [Next]_vars PROVE IInv'
  OBVIOUS
<1>2. CASE NextTurn
  BY <1>1, <1>2, NextTurnStep
<1>3. CASE EndTurn
  BY <1>1, <1>3, EndTurnStep
<1>4. CASE EndPlan
  BY <1>1, <1>4, EndPlanStep
<1>5. CASE Delegate
  BY <1>1, <1>5, DelegateStep
<1>6. CASE Reflect
  BY <1>1, <1>6, ReflectStep
<1>7. CASE BrokerAuthorize
  BY <1>1, <1>7, BrokerAuthorizeStep
<1>8. CASE BrokerApprove
  BY <1>1, <1>8, BrokerApproveStep
<1>9. CASE BrokerExecute
  BY <1>1, <1>9, BrokerExecuteStep
<1>10. CASE ProviderRaises \/ RecursionLimit \/ BudgetExhausted \/ ToolRaises
  BY <1>1, <1>10, StopSteps
<1>11. CASE Revoke
  BY <1>1, <1>11, RevokeStep
<1>12. CASE UNCHANGED vars
  BY <1>1, <1>12, StutterStep
<1>. QED
  BY <1>1, <1>2, <1>3, <1>4, <1>5, <1>6, <1>7, <1>8, <1>9, <1>10, <1>11, <1>12
  DEF Next, Run, Ended

\* The invariant: types, the chain of callers, and last_ctx naming the
\* session that resumes.
THEOREM Invariance == Spec => []IInv
<1>1. Init => IInv
  BY InitInvariant
<1>2. IInv /\ [Next]_vars => IInv'
  BY NextInvariant
<1>. QED
  BY <1>1, <1>2, PTL DEF Spec

-----------------------------------------------------------------------------
(* What follows from it.                                                    *)

\* Every variable keeps its type, and the account of the whole delegation
\* tree never exceeds its limit (budget.py:36).
THEOREM TypeCorrect == Spec => []TypeOK
<1>1. IInv => TypeOK
  BY DEF IInv
<1>. QED
  BY <1>1, Invariance, PTL

\* INV-08, INV-02: the call stack spells one delegation chain of narrowing
\* authority, for every nesting of delegations and reflections.
THEOREM Lineage == Spec => []LineageWellFormed
<1>1. IInv => LineageWellFormed
  <2>1. SUFFICES ASSUME IInv, NEW i \in DOMAIN stack
                 PROVE  LET ctx == stack[i].ctx
                        IN IF i = 1 THEN ctx.chain = <<ctx.actor>>
                           ELSE LET caller == stack[i - 1].ctx
                                IN /\ ctx.caps \subseteq caller.caps
                                   /\ ctx.chain = IF stack[i].at \in SessionAt
                                                  THEN Append(caller.chain, ctx.actor)
                                                  ELSE caller.chain
    BY DEF LineageWellFormed
  <2>2. stack \in Seq(Frame) /\ Link(stack, i)
    BY <2>1 DEF IInv, TypeOK, Linked
  <2>3. i \in Nat /\ i >= 1 /\ stack[i] \in Frame
    BY <2>1, <2>2
  <2>4. stack[i].at \in SessionAt \cup PlanAt
    BY <2>3, FrameFields
  <2>5. CASE i = 1
    BY <2>2, <2>5 DEF Link
  <2>6. CASE i > 1
    <3>1. i - 1 \in 1 .. i /\ i # 1
      BY <2>3, <2>6
    <3>2. stack[i].ctx.caps \subseteq stack[i - 1].ctx.caps
      BY <2>2, <3>1 DEF Link
    <3>3. CASE stack[i].at \in SessionAt
      BY <2>2, <2>6, <3>1, <3>2, <3>3 DEF Link
    <3>4. CASE stack[i].at \notin SessionAt
      BY <2>2, <2>4, <2>6, <3>1, <3>2, <3>4 DEF Link, SameAgent
    <3>. QED
      BY <3>3, <3>4
  <2>. QED
    BY <2>3, <2>5, <2>6
<1>. QED
  BY <1>1, Invariance, PTL

\* INV-02, INV-13: an execution is permitted to every agent up the chain.
THEOREM EffectsStayWithinLineage == Spec => EffectsWithinLineage
<1> DEFINE Within == history' # history =>
             \A i \in DOMAIN stack : Permits(stack[i].ctx.caps, history'[Len(history')].op)
<1>1. ASSUME IInv, [Next]_vars, history' # history
      PROVE  \A i \in DOMAIN stack : Permits(stack[i].ctx.caps, history'[Len(history')].op)
  <2>1. BrokerExecute
    BY <1>1 DEF Next, Run, Ended, vars, NextTurn, ProviderRaises, EndTurn, EndPlan, Delegate,
       Reflect, RecursionLimit, BrokerAuthorize, BrokerApprove, BudgetExhausted, ToolRaises,
       Revoke
  <2>2. status = "running" /\ Top.at = "invoke"
    BY <2>1 DEF BrokerExecute, Running
  <2>3. /\ TypeOK /\ Linked(stack) /\ stack # << >> /\ stack \in Seq(Frame)
        /\ Top = stack[Len(stack)] /\ Sound(Top)
    BY <1>1, <2>2, RunningTop
  <2>4. Permits(Top.ctx.caps, TheOp)
    BY <2>2, <2>3 DEF Sound, TheOp
  <2>5. history'[Len(history')].op = TheOp
    <3>1. PICK execution : history' = Append(history, execution) /\ execution.op = TheOp
      BY <2>1 DEF BrokerExecute
    <3>2. history \in Seq(Execution)
      BY <2>3 DEF TypeOK
    <3>. QED
      BY <3>1, <3>2
  <2>6. PICK n \in Nat : n = Len(stack) /\ n >= 1 /\ DOMAIN stack = 1 .. n
    BY <2>3, LastElement
  <2>7. Link(stack, n)
    BY <2>3, <2>6 DEF Linked
  <2>8. \A i \in 1 .. n : Top.ctx.caps \subseteq stack[i].ctx.caps
    BY <2>3, <2>6, <2>7 DEF Link
  <2>. QED
    BY <2>4, <2>5, <2>6, <2>8, PermitsMonotone
<1>2. IInv /\ [Next]_vars => [Within]_vars
  BY <1>1
<1>3. [][Within]_vars => EffectsWithinLineage
  BY DEF EffectsWithinLineage
<1>. QED
  BY <1>2, <1>3, Invariance, PTL DEF Spec

-----------------------------------------------------------------------------
(* Nothing that was observed is forgotten: along every way a context        *)
(* travels, through last_ctx, delegation and reflection, its provenance     *)
(* covers its observations.                                                 *)

TagOf(seen) == [source |-> seen.source, trust |-> seen.trust]

Accounted(ctx) ==
  \A n \in DOMAIN ctx.observations : TagOf(ctx.observations[n]) \in Tags(ctx.provenance)

AllAccounted(s) == \A i \in DOMAIN s : Accounted(s[i].ctx)

PInv == AllAccounted(stack) /\ (lastCtx # NoContext => Accounted(lastCtx))

-----------------------------------------------------------------------------
(* Contexts.                                                                *)

\* Merging a tag adds it and keeps the others (provenance.py:28).
LEMMA MergeKeeps ==
  ASSUME NEW record \in Provenance, NEW tag \in Tag
  PROVE  Tags(Merge(record, tag)) = Tags(record) \cup {tag}
<1>1. ASSUME NEW s \in Seq(Tag)
      PROVE  ToSet(Append(s, tag)) = ToSet(s) \cup {tag}
  <2>1. /\ Append(s, tag) \in Seq(Tag)
        /\ Len(Append(s, tag)) = Len(s) + 1 /\ Len(s) \in Nat
        /\ \A i \in 1 .. Len(s) : Append(s, tag)[i] = s[i]
        /\ Append(s, tag)[Len(s) + 1] = tag
    BY <1>1
  <2>2. DOMAIN Append(s, tag) = 1 .. Len(s) + 1 /\ DOMAIN s = 1 .. Len(s)
    BY <1>1, <2>1
  <2>. QED
    BY <2>1, <2>2 DEF ToSet
<1>2. record.instructions \in Seq(Tag) /\ record.data \in Seq(Tag)
  BY DEF Provenance
<1>3. CASE tag.trust \in InstructionTrust
  <2>1. /\ Merge(record, tag).instructions = Append(record.instructions, tag)
        /\ Merge(record, tag).data = record.data
    BY <1>3 DEF Merge, Provenance
  <2>. QED
    BY <1>1, <1>2, <2>1 DEF Tags
<1>4. CASE tag.trust \notin InstructionTrust
  <2>1. /\ Merge(record, tag).instructions = record.instructions
        /\ Merge(record, tag).data = Append(record.data, tag)
    BY <1>4 DEF Merge, Provenance
  <2>. QED
    BY <1>1, <1>2, <2>1 DEF Tags
<1>. QED
  BY <1>3, <1>4

\* A result is tagged and merged before it is observed (broker.py:107).
LEMMA ObservedAccounted ==
  ASSUME NEW ctx \in Ctx, Accounted(ctx), NEW ns \in Namespace, NEW result \in ToolResult
  PROVE  Accounted(Observed(ctx, ns, result))
<1> DEFINE trust == AssignedTrust(ns, result.trust)
           tag == [source |-> ns, trust |-> trust]
           seen == [source |-> ns, trust |-> trust, embeds |-> result.embeds]
           new == Observed(ctx, ns, result)
<1>1. tag \in Tag /\ seen \in Observation /\ TagOf(seen) = tag
  BY DEF AssignedTrust, ToolResult, Trust, InstructionTrust, Tag, Observation, TagOf
<1>2. ctx.provenance \in Provenance /\ ctx.observations \in Seq(Observation)
  BY DEF Ctx
<1> HIDE DEF tag, seen
<1>3. /\ new.provenance = Merge(ctx.provenance, tag)
      /\ new.observations = Append(ctx.observations, seen)
  BY DEF Observed, Ctx, tag, seen
<1> HIDE DEF new
<1>4. Tags(new.provenance) = Tags(ctx.provenance) \cup {tag}
  BY <1>1, <1>2, <1>3, MergeKeeps
<1>5. \A n \in DOMAIN new.observations :
        \/ n \in DOMAIN ctx.observations /\ new.observations[n] = ctx.observations[n]
        \/ new.observations[n] = seen
  BY <1>1, <1>2, <1>3
<1>6. Accounted(new)
  BY <1>1, <1>4, <1>5 DEF Accounted
<1>. QED
  BY <1>6 DEF new

-----------------------------------------------------------------------------
(* The stack.                                                               *)

LEMMA AccountedTop ==
  ASSUME IInv, AllAccounted(stack), status = "running"
  PROVE  Accounted(Top.ctx)
<1>1. stack \in Seq(Frame) /\ stack # << >>
  BY RunningTop
<1>2. Len(stack) \in DOMAIN stack
  BY <1>1, LastElement
<1>. QED
  BY <1>2 DEF AllAccounted, Top

LEMMA AccountedReplace ==
  ASSUME IInv, AllAccounted(stack), status = "running", NEW frame, Accounted(frame.ctx)
  PROVE  AllAccounted(WithTop(frame))
<1>1. stack \in Seq(Frame) /\ stack # << >>
  BY RunningTop
<1>. QED
  BY <1>1, LastElement DEF AllAccounted, WithTop

LEMMA AccountedPush ==
  ASSUME IInv, AllAccounted(stack), status = "running",
         NEW frame \in Frame, Accounted(frame.ctx), NEW pushed \in Frame, Accounted(pushed.ctx)
  PROVE  AllAccounted(Append(WithTop(frame), pushed))
<1>1. stack \in Seq(Frame) /\ stack # << >>
  BY RunningTop
<1> DEFINE s == WithTop(frame)
<1>2. s \in Seq(Frame)
  BY <1>1, ReplaceLast DEF WithTop
<1>3. AllAccounted(s)
  BY AccountedReplace
<1> HIDE DEF s
<1>4. /\ DOMAIN Append(s, pushed) = 1 .. Len(s) + 1 /\ DOMAIN s = 1 .. Len(s) /\ Len(s) \in Nat
      /\ \A i \in 1 .. Len(s) : Append(s, pushed)[i] = s[i]
      /\ Append(s, pushed)[Len(s) + 1] = pushed
  BY <1>2, PushLast
<1>5. AllAccounted(Append(s, pushed))
  BY <1>3, <1>4 DEF AllAccounted
<1>. QED
  BY <1>5 DEF s

LEMMA AccountedPop ==
  ASSUME IInv, AllAccounted(stack), status = "running"
  PROVE  AllAccounted(Below)
<1>1. stack \in Seq(Frame) /\ stack # << >>
  BY RunningTop
<1>2. /\ DOMAIN Below = 1 .. Len(stack) - 1
      /\ \A i \in 1 .. Len(stack) - 1 : Below[i] = stack[i]
  BY <1>1, PopLast DEF Below
<1>3. DOMAIN stack = 1 .. Len(stack) /\ Len(stack) \in Nat
  BY <1>1, LastElement
<1>. QED
  BY <1>2, <1>3 DEF AllAccounted

-----------------------------------------------------------------------------
(* The steps.                                                               *)

LEMMA InitAccounted == Init => PInv
<1>1. SUFFICES ASSUME Init PROVE PInv
  OBVIOUS
<1>2. PICK ctx \in RootCtx, scripted \in BOOLEAN : stack = <<Session(ctx, scripted)>>
  BY <1>1 DEF Init
<1>3. DOMAIN stack = {1} /\ stack[1].ctx = ctx
  BY <1>2 DEF Session
<1>4. DOMAIN ctx.observations = {}
  BY HarnessAssumption
<1>. QED
  BY <1>1, <1>3, <1>4 DEF Init, PInv, AllAccounted, Accounted

LEMMA NextTurnAccounted ==
  ASSUME IInv, PInv, NextTurn PROVE PInv'
<1>1. status = "running" /\ UNCHANGED lastCtx
  BY DEF NextTurn, Running
<1>2. Top \in Frame /\ Top.ctx \in Ctx
  BY <1>1, RunningTop
<1>3. Accounted(Top.ctx)
  BY <1>1, AccountedTop DEF PInv
<1>4. PICK plan \in Plans, final \in BOOLEAN :
        stack' = IF plan = << >>
                 THEN WithTop([Top EXCEPT !.at = "turned", !.final = final])
                 ELSE Append(WithTop([Top EXCEPT !.at = "ran", !.final = final]),
                             Plan(Top.ctx, plan))
  BY DEF NextTurn
<1>5. ASSUME NEW at \in {"turned", "ran"}
      PROVE  LET frame == [Top EXCEPT !.at = at, !.final = final]
             IN frame \in Frame /\ frame.ctx = Top.ctx
  BY <1>2, <1>5 DEF Frame, SessionAt, PlanAt
<1>6. CASE plan = << >>
  <2> DEFINE frame == [Top EXCEPT !.at = "turned", !.final = final]
  <2>1. frame.ctx = Top.ctx
    BY <1>5
  <2> HIDE DEF frame
  <2>2. stack' = WithTop(frame)
    BY <1>4, <1>6 DEF frame
  <2>3. AllAccounted(stack')
    BY <1>1, <1>3, <2>1, <2>2, AccountedReplace DEF PInv
  <2>. QED
    BY <1>1, <2>3 DEF PInv
<1>7. CASE plan # << >>
  <2> DEFINE frame == [Top EXCEPT !.at = "ran", !.final = final]
  <2>1. frame \in Frame /\ frame.ctx = Top.ctx
    BY <1>5
  <2> HIDE DEF frame
  <2>2. stack' = Append(WithTop(frame), Plan(Top.ctx, plan))
    BY <1>4, <1>7 DEF frame
  <2>3. /\ plan \in Seq(Step)
        /\ \A k \in DOMAIN plan : plan[k].type = "op" => plan[k].origin = "model"
    BY HarnessAssumption
  <2>4. Plan(Top.ctx, plan) \in Frame /\ Plan(Top.ctx, plan).ctx = Top.ctx
    BY <1>2, <2>3, PlanFrame
  <2>5. AllAccounted(stack')
    BY <1>1, <1>3, <2>1, <2>2, <2>4, AccountedPush DEF PInv
  <2>. QED
    BY <1>1, <2>5 DEF PInv
<1>. QED
  BY <1>6, <1>7

LEMMA EndTurnAccounted ==
  ASSUME IInv, PInv, EndTurn PROVE PInv'
<1>1. status = "running" /\ UNCHANGED lastCtx
  BY DEF EndTurn, Running
<1>2. Top \in Frame
  BY <1>1, RunningTop
<1>3. CASE LoopEnds
  <2>1. stack' = Below
    BY <1>3 DEF EndTurn, Returned
  <2>. QED
    BY <1>1, <2>1, AccountedPop DEF PInv
<1>4. CASE ~LoopEnds
  <2> DEFINE frame == [Top EXCEPT !.at = "ask", !.ctx = Resumed]
  <2>1. frame.ctx = Resumed
    BY <1>2 DEF Frame
  <2>2. Accounted(Resumed)
    BY <1>1, AccountedTop DEF PInv, Resumed
  <2> HIDE DEF frame
  <2>3. stack' = WithTop(frame)
    BY <1>4 DEF EndTurn, frame
  <2>4. AllAccounted(stack')
    BY <1>1, <2>1, <2>2, <2>3, AccountedReplace DEF PInv
  <2>. QED
    BY <1>1, <2>4 DEF PInv
<1>. QED
  BY <1>3, <1>4

LEMMA EndPlanAccounted ==
  ASSUME IInv, PInv, EndPlan PROVE PInv'
<1>1. status = "running" /\ stack' = Below /\ lastCtx' = Top.ctx
  BY DEF EndPlan, Running
<1>. QED
  BY <1>1, AccountedTop, AccountedPop DEF PInv

\* A child has observed nothing yet.
LEMMA DelegateAccounted ==
  ASSUME IInv, PInv, Delegate PROVE PInv'
<1>1. /\ status = "running" /\ UNCHANGED lastCtx
      /\ Top.steps # << >> /\ Head(Top.steps).type = "delegate"
  BY DEF Delegate, AtStep, Running
<1>2. TypeOK /\ stack # << >> /\ Top \in Frame /\ Top.ctx \in Ctx /\ Sound(Top)
  BY <1>1, RunningTop
<1>3. Accounted(Top.ctx)
  BY <1>1, AccountedTop DEF PInv
<1>4. CASE stack' = stack
  BY <1>1, <1>4 DEF PInv
<1>5. CASE stack' # stack
  <2> DEFINE child == ChildCtx(Top.ctx, Head(Top.steps))
  <2>1. Head(Top.steps) \in Step
    BY <1>1, <1>2, FrameFields
  <2>2. child \in Ctx
    BY <1>1, <1>2, <2>1, ChildContext
  <2>3. child.observations = << >>
    BY <1>2 DEF ChildCtx, Ctx
  <2> HIDE DEF child
  <2>4. DOMAIN child.observations = {}
    BY <2>3
  <2>5. Accounted(child)
    BY <2>4 DEF Accounted
  <2>6. Session(child, TRUE) \in Frame /\ Session(child, TRUE).ctx = child
    BY <2>2, SessionFrame
  <2>7. Advanced(Top.ctx) \in Frame /\ Advanced(Top.ctx).ctx = Top.ctx
    BY <1>1, <1>2, AdvancedFrame
  <2>8. stack' = Append(WithTop(Advanced(Top.ctx)), Session(child, TRUE))
    BY <1>5 DEF Delegate, child
  <2>9. AllAccounted(stack')
    BY <1>1, <1>3, <2>5, <2>6, <2>7, <2>8, AccountedPush DEF PInv
  <2>. QED
    BY <1>1, <2>9 DEF PInv
<1>. QED
  BY <1>4, <1>5

LEMMA ReflectAccounted ==
  ASSUME IInv, PInv, Reflect PROVE PInv'
<1>1. /\ status = "running" /\ UNCHANGED lastCtx
      /\ Top.steps # << >> /\ Head(Top.steps).type = "reflect"
  BY DEF Reflect, AtStep, Running
<1>2. TypeOK /\ stack # << >> /\ Top \in Frame /\ Top.ctx \in Ctx /\ Sound(Top)
  BY <1>1, RunningTop
<1>3. Accounted(Top.ctx)
  BY <1>1, AccountedTop DEF PInv
<1>4. PICK plan \in IF Head(Top.steps).scripted THEN Plans ELSE Reaction(Top.ctx) :
        stack' = Append(WithTop(Advanced(Top.ctx)), Plan(Top.ctx, plan))
  BY DEF Reflect
<1>5. /\ plan \in Seq(Step)
      /\ \A k \in DOMAIN plan : plan[k].type = "op" => plan[k].origin = "model"
  BY <1>4, ReflectedPlan
<1>6. Plan(Top.ctx, plan) \in Frame /\ Plan(Top.ctx, plan).ctx = Top.ctx
  BY <1>2, <1>5, PlanFrame
<1>7. Advanced(Top.ctx) \in Frame /\ Advanced(Top.ctx).ctx = Top.ctx
  BY <1>1, <1>2, AdvancedFrame
<1>8. AllAccounted(stack')
  BY <1>1, <1>3, <1>4, <1>6, <1>7, AccountedPush DEF PInv
<1>. QED
  BY <1>1, <1>8 DEF PInv

\* Authorizing and approving change what is held, never what was seen.
LEMMA AdmitAccounted ==
  ASSUME IInv, PInv, BrokerAuthorize \/ BrokerApprove PROVE PInv'
<1>1. status = "running" /\ UNCHANGED lastCtx
  BY DEF BrokerAuthorize, BrokerApprove, AtStep, Running
<1>2. Top \in Frame /\ Top.ctx \in Ctx
  BY <1>1, RunningTop
<1>3. Accounted(Top.ctx)
  BY <1>1, AccountedTop DEF PInv
<1>4. CASE stack' = stack
  BY <1>1, <1>4 DEF PInv
<1>5. ASSUME NEW frame, stack' = WithTop(frame), Accounted(frame.ctx)
      PROVE  PInv'
  <2>1. AllAccounted(stack')
    BY <1>1, <1>5, AccountedReplace DEF PInv
  <2>. QED
    BY <1>1, <2>1 DEF PInv
<1>6. CASE BrokerAuthorize /\ stack' # stack
  <2>1. PICK at \in {"approve", "invoke"} : stack' = WithTop([Top EXCEPT !.at = at])
    BY <1>6, AuthorizeVerdict DEF BrokerAuthorize, Verdicts
  <2>2. [Top EXCEPT !.at = at].ctx = Top.ctx
    BY <1>2 DEF Frame
  <2>. QED
    BY <1>3, <1>5, <2>1, <2>2
<1>7. CASE BrokerApprove /\ stack' # stack
  <2>1. PICK grant : stack' = WithTop([Top EXCEPT !.at = "invoke", !.grant = grant,
                                                  !.ctx.grants = Append(@, grant)])
    BY <1>7 DEF BrokerApprove, Approved
  <2> DEFINE frame == [Top EXCEPT !.at = "invoke", !.grant = grant,
                                  !.ctx.grants = Append(@, grant)]
  <2>2. /\ frame.ctx.observations = Top.ctx.observations
        /\ frame.ctx.provenance = Top.ctx.provenance
    BY <1>2 DEF Frame, Ctx
  <2>3. stack' = WithTop(frame)
    BY <2>1
  <2> HIDE DEF frame
  <2>4. Accounted(frame.ctx)
    BY <1>3, <2>2 DEF Accounted
  <2>. QED
    BY <1>5, <2>3, <2>4
<1>. QED
  BY <1>4, <1>6, <1>7

LEMMA ExecuteAccounted ==
  ASSUME IInv, PInv, BrokerExecute PROVE PInv'
<1>1. status = "running" /\ Top.at = "invoke" /\ UNCHANGED lastCtx
  BY DEF BrokerExecute, Running
<1>2. /\ TypeOK /\ stack # << >>
      /\ Top \in Frame /\ Top.ctx \in Ctx /\ Sound(Top)
  BY <1>1, RunningTop
<1>3. Top.steps # << >> /\ Head(Top.steps).type = "op"
  BY <1>1, <1>2 DEF Sound
<1>4. TheOp.ns \in Namespace
  BY <1>1, <1>3, TheStep DEF Operation
<1>5. PICK result \in Results : stack' = WithTop(AfterResult(result))
  BY DEF BrokerExecute
<1>6. result \in ToolResult
  BY HarnessAssumption
<1> DEFINE ctx == Observed(Top.ctx, TheOp.ns, result)
<1>7. Accounted(ctx) /\ ctx \in Ctx
  BY <1>1, <1>2, <1>4, <1>6, AccountedTop, ObservedAccounted, ObservedCtx DEF PInv
<1>8. stack' = WithTop(Advanced(ctx))
  BY <1>5 DEF AfterResult
<1> HIDE DEF ctx
<1>9. Advanced(ctx).ctx = ctx
  BY <1>2, <1>3, <1>7, AdvancedFrame
<1>10. AllAccounted(stack')
  BY <1>1, <1>7, <1>8, <1>9, AccountedReplace DEF PInv
<1>. QED
  BY <1>1, <1>10 DEF PInv

LEMMA NextAccounted == IInv /\ PInv /\ [Next]_vars => PInv'
<1>1. SUFFICES ASSUME IInv, PInv, [Next]_vars PROVE PInv'
  OBVIOUS
<1>2. CASE UNCHANGED <<stack, lastCtx>>
  BY <1>1, <1>2 DEF PInv
<1>3. CASE ProviderRaises \/ RecursionLimit \/ BudgetExhausted \/ ToolRaises \/ Revoke
  BY <1>2, <1>3 DEF ProviderRaises, RecursionLimit, BudgetExhausted, ToolRaises, Revoke
<1>4. CASE NextTurn \/ EndTurn \/ EndPlan
  BY <1>1, <1>4, NextTurnAccounted, EndTurnAccounted, EndPlanAccounted
<1>5. CASE Delegate \/ Reflect
  BY <1>1, <1>5, DelegateAccounted, ReflectAccounted
<1>6. CASE BrokerAuthorize \/ BrokerApprove \/ BrokerExecute
  BY <1>1, <1>6, AdmitAccounted, ExecuteAccounted
<1>. QED
  BY <1>1, <1>2, <1>3, <1>4, <1>5, <1>6 DEF Next, Run, Ended, vars

\* INV-05: however deep the delegation and however often an agent reflects,
\* what it has observed is in its provenance with its source and trust.
THEOREM ObservationsAreAccounted == Spec => []ProvenanceCoversObservations
<1>1. PInv => ProvenanceCoversObservations
  BY DEF PInv, AllAccounted, Accounted, TagOf, ProvenanceCoversObservations
<1>. QED
  BY <1>1, InitAccounted, NextAccounted, Invariance, PTL DEF Spec
===============================================================================
