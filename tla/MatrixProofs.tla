----------------------------- MODULE MatrixProofs -----------------------------
(***************************************************************************)
(* Proofs about MutationMatrix, in every combination of the defeats.       *)
(***************************************************************************)
EXTENDS MutationMatrix, SequenceTheorems, TLAPS

\* The policy slot, for an agent at the head of its own chain.
LEMMA PolicyAsks ==
  ASSUME NEW caps, NEW op
  PROVE  Allowed(caps, op) <=> IF On("tool_vs_operation") THEN \E cap \in caps : op.ns = cap.ns
                               ELSE \E cap \in caps : cap.ns = op.ns /\ cap.act \in {"*", op.act}
  <1>1. G!Attributed(Context(caps)) /\ Context(caps).caps = caps
    BY DEF G!Attributed, Context
  <1>2. G!Authorize(Context(caps), op, {}) = "allow" <=> G!Permits(caps, op)
    BY <1>1 DEF G!Authorize
  <1> QED
    BY <1>2 DEF Allowed, G!Permits, G!Covers

LEMMA ReadAllowed ==
  ASSUME NEW r
  PROVE  Allowed({Cap("files", "read")}, Op("files", "read", r))
  BY PolicyAsks DEF Cap, Op

LEMMA IssueAllowed ==
  ASSUME NEW r
  PROVE  Allowed(ReadIssues, Op("github", "issue.read", r))
  BY PolicyAsks DEF ReadIssues, Cap, Op

LEMMA DeleteAllowed ==
  ASSUME NEW r
  PROVE  Allowed(ReadIssues, Op("github", "repository.delete", r)) <=> On("tool_vs_operation")
  <1> DEFINE cap == Cap("github", "issue.read")
             op == Op("github", "repository.delete", r)
  <1>1. ReadIssues = {cap} /\ cap.ns = op.ns /\ cap.act \notin {"*", op.act}
    BY DEF ReadIssues, Cap, Op
  <1> HIDE DEF cap, op
  <1>2. /\ \E c \in ReadIssues : op.ns = c.ns
        /\ ~ \E c \in ReadIssues : c.ns = op.ns /\ c.act \in {"*", op.act}
    BY <1>1
  <1>3. Allowed(ReadIssues, op) <=> On("tool_vs_operation")
    BY <1>2, PolicyAsks
  <1> QED
    BY <1>3 DEF op

-----------------------------------------------------------------------------
(* A probe that asks one question fails if and only if its defeat is on.    *)

LEMMA AttenuatedFact == Attenuated <=> ~On("delegation_attenuation")
  BY DEF Attenuated, G!DeriveChild, G!DeriveChildFromPolicy, ReadAndComment, ReadIssues, Cap

LEMMA ActionBoundFact == ActionBound <=> ~On("approval_binding")
  BY DEF ActionBound, Binding, G!ActionHash, Op

LEMMA ProvenanceFact == ProvenanceRecorded <=> ~On("provenance_propagation")
  <1> DEFINE op == Op("github", "issue.read", "a")
             tag == [source |-> "github", trust |-> "untrusted_data"]
             none == [instructions |-> << >>, data |-> << >>]
  <1>1. Observed(ReadIssues, op, {}).provenance
          = IF On("provenance_propagation") THEN G!MergeDropping(none, tag)
            ELSE G!Merge(none, tag)
    BY IssueAllowed DEF Observed, Context, Op
  <1>2. G!MergeDropping(none, tag).data = << >>
    BY DEF G!MergeDropping
  <1>3. G!Merge(none, tag).data = Append(<< >>, tag)
    BY DEF G!Merge, G!InstructionTrust
  <1>4. Append(<< >>, tag) # << >>
    OBVIOUS
  <1> QED
    BY <1>1, <1>2, <1>3, <1>4 DEF ProvenanceRecorded

LEMMA SecretFact == SecretHidden <=> ~On("secret_redaction")
  <1> DEFINE op == Op("files", "read", "a")
             seen == Observed({Cap("files", "read")}, op, {op}).observations
             one == [source |-> "files", trust |-> "untrusted_data", embeds |-> {op}]
             clean == [i \in DOMAIN seen |-> [seen[i] EXCEPT !.embeds = {}]]
  <1>1. seen = Append(<< >>, one)
    BY ReadAllowed DEF Observed, Context, Op
  <1>2. DOMAIN seen = {1} /\ seen[1] = one
    BY <1>1
  <1>3. seen[1].embeds # {}
    BY <1>2
  <1>4. \A i \in DOMAIN clean : clean[i].embeds = {}
    BY <1>2
  <1>5. SecretHidden <=> \A i \in DOMAIN (IF On("secret_redaction") THEN seen ELSE clean) :
                           (IF On("secret_redaction") THEN seen ELSE clean)[i].embeds = {}
    BY DEF SecretHidden
  <1> QED
    BY <1>2, <1>3, <1>4, <1>5

LEMMA SeparatedFact == Separated <=> ~On("instruction_separation")
  <1> DEFINE op == Op("github", "issue.read", "a")
             injected == Op("github", "issue.comment", "a")
             ctx == Observed(ReadIssues, op, {injected})
             one == [source |-> "github", trust |-> "untrusted_data", embeds |-> {injected}]
  <1>1. ctx.observations = Append(<< >>, one) /\ ctx.skills = {}
    BY IssueAllowed DEF Observed, Context, Op
  <1>2. DOMAIN ctx.observations = {1} /\ ctx.observations[1] = one
    BY <1>1
  <1> HIDE DEF ctx
  <1>3. G!CompileFlat(ctx) = {G!Item("instruction", "untrusted_data", {injected})}
    BY <1>2 DEF G!CompileFlat
  <1>4. \A item \in G!Compile(ctx) :
          item.channel = "instruction" => item.trust \in G!InstructionTrust
    BY <1>1 DEF G!Compile, G!Item, G!InstructionTrust
  <1>5. ~ \A item \in G!CompileFlat(ctx) :
            item.channel = "instruction" => item.trust \in G!InstructionTrust
    BY <1>3 DEF G!Item, G!InstructionTrust
  <1> QED
    BY <1>4, <1>5 DEF Separated, Compiled, ctx

LEMMA UpgradeFact == UpgradeNotGranted <=> ~On("skill_upgrade")
  <1> DEFINE delete == Cap("github", "repository.delete")
             op == Op("github", "repository.delete", "a")
             upgraded == [permissions |-> ReadIssues \cup {delete}, speaks |-> FALSE]
  <1>1. G!LoadSkill(upgraded, ReadIssues, FALSE).granted = {}
    BY DEF G!LoadSkill
  <1>2. ~G!Permits({}, op)
    BY DEF G!Permits
  <1>3. G!Permits(upgraded.permissions, op)
    <2>1. delete \in upgraded.permissions
      OBVIOUS
    <2>2. G!Covers(delete, op)
      BY DEF G!Covers, Cap, Op
    <2> QED
      BY <2>1, <2>2 DEF G!Permits
  <1> QED
    BY <1>1, <1>2, <1>3 DEF UpgradeNotGranted

LEMMA ForgeryFact == ForgeryDenied <=> ~On("attribution_forgery")
  BY DEF ForgeryDenied

LEMMA RevocationFact == RevocationDenies <=> ~On("revocation_check")
  <1> DEFINE op == Op("files", "delete", "a")
             caps == {Cap("files", "delete")}
  <1>1. G!Attributed(Context(caps)) /\ Context(caps).caps = caps
    BY DEF G!Attributed, Context
  <1>2. G!Permits(caps, op)
    BY DEF G!Permits, G!Covers, Cap, Op
  <1>3. G!Authorize(Context(caps), op, {}) = "allow"
    BY <1>1, <1>2 DEF G!Authorize
  <1>4. G!Authorize(Context(caps), op, {G!Kind(op)}) = "deny"
    BY DEF G!Authorize
  <1> QED
    BY <1>3, <1>4 DEF RevocationDenies

LEMMA MemoryFact == MemoryScoped <=> ~On("memory_scope")
  <1> DEFINE all == {<<tenant, "user_instruction">> : tenant \in {"acme", "evil"}}
  <1>1. <<"acme", "user_instruction">> \in all
    OBVIOUS
  <1>2. <<"acme", "user_instruction">> # <<"acme", "memory">>
    OBVIOUS
  <1>3. all # {<<"acme", "memory">>}
    BY <1>1, <1>2
  <1> QED
    BY <1>3 DEF MemoryScoped

LEMMA DigestFact == DigestBound <=> ~On("tool_digest")
  BY DEF DigestBound

LEMMA AtomicFact == Atomic <=> ~On("atomicity")
  BY DEF Atomic

LEMMA DowngradedFact == TrustDowngraded
  BY ReadAllowed DEF TrustDowngraded, G!AssignedTrust, G!InstructionTrust

LEMMA DirectFact ==
  /\ \A f \in Flag : Defeats[f] \notin PlanProbes => (Direct(Defeats[f]) <=> ~On(f))
  /\ Direct("INV-14")
  BY AttenuatedFact, ActionBoundFact, ProvenanceFact, SecretFact, SeparatedFact, UpgradeFact,
     ForgeryFact, RevocationFact, MemoryFact, DigestFact, AtomicFact, DowngradedFact
  DEF Direct, Flag, Defeats, PlanProbes

-----------------------------------------------------------------------------
(* The probes that run a plan.                                              *)

Issue == Op("github", "issue.read", "a")
ToChild == Op("agent", "delegate", "child")
ToGrandchild == Op("agent", "delegate", "gc")

Ops == {Op("files", "read", "a"), Op("files", "read", "b"),
        Op("github", "repository.delete", "a"), Issue, ToChild, ToGrandchild}

Agents == [steps : Seq(Ops), used : Nat]
Runs == [stack : Seq(Agents), spent : Nat, executed : Nat, unauthorized : Nat,
         deleted : BOOLEAN, going : BOOLEAN]
Names == {Probes[i] : i \in DOMAIN Probes}

Typed ==
  /\ flags \subseteq Flag /\ pending \in Seq(Names)
  /\ run \in Runs

Left(steps, used) == [steps |-> steps, used |-> used]

\* INV-01: only an executor that decides once for the plan skips decisions.
Mediates ==
  IF On("execution_authz")
  THEN \/ run.stack = <<Agent("t")>>
       \/ run.stack = << >> /\ run.unauthorized = 1
  ELSE run.unauthorized = 0

\* INV-13: only a policy that looks at the tool lets the deletion through.
Operates ==
  \/ run.stack = <<Agent("del")>> /\ run.spent = 0 /\ ~run.deleted
  \/ run.stack = <<Left(<< >>, 1)>> /\ ~On("execution_authz")
       /\ run.deleted /\ On("tool_vs_operation")
  \/ run.stack = << >> /\ (run.deleted <=> On("tool_vs_operation"))

\* The agents of INV-06-budget: two that read twice and delegate, one that
\* reads twice.
First(end) == Left(<<Issue, Issue, end>>, 0)
Second(end) == Left(<<Issue, end>>, 1)
Third(end) == Left(<<end>>, 2)
Reads == Left(<<Issue, Issue>>, 0)
Read == Left(<<Issue>>, 1)
Spent == Left(<< >>, 2)

\* The three of them with a budget each, step by step.
Course ==
  \/ run.stack = <<First(ToChild)>> /\ run.executed = 0
  \/ run.stack = <<Second(ToChild)>> /\ run.executed = 1
  \/ run.stack = <<Third(ToChild)>> /\ run.executed = 2
  \/ run.stack = <<Spent, First(ToGrandchild)>> /\ run.executed = 2
  \/ run.stack = <<Spent, Second(ToGrandchild)>> /\ run.executed = 3
  \/ run.stack = <<Spent, Third(ToGrandchild)>> /\ run.executed = 4
  \/ run.stack = <<Spent, Spent, Reads>> /\ run.executed = 4
  \/ run.stack = <<Spent, Spent, Read>> /\ run.executed = 5
  \/ /\ run.stack \in {<< >>, <<Spent>>, <<Spent, Spent>>, <<Spent, Spent, Spent>>}
     /\ run.executed = 6

\* INV-06-budget: nothing but a budget for each agent exceeds the limit, and
\* it does unless the plan is taken whole.
Shares ==
  IF On("execution_authz")
  THEN \/ run.stack = <<Agent("root")>>
       \/ run.stack = << >> /\ run.executed <= 3
  ELSE IF On("budget_sharing") THEN Course
  ELSE run.executed = run.spent /\ run.executed <= 3

Planned ==
  /\ run.going => /\ pending # << >> /\ Probe \in PlanProbes
                  /\ Probe = "INV-01" => Mediates
                  /\ Probe = "INV-13" => Operates
                  /\ Probe = "INV-06-budget" => Shares
  /\ ~run.going => run = NoRun

MInv == Typed /\ Planned /\ OnlyDefeatedBreak /\ DefeatsShow
-----------------------------------------------------------------------------
(* Stacks, agents and scripts.                                              *)

LEMMA Stacked ==
  ASSUME NEW S, NEW s \in Seq(S), s # << >>
  PROVE  Last(s) \in S /\ Front(s) \in Seq(S)
  BY DEF Last, Front

\* Sequences of one or two elements.
LEMMA IsOne ==
  ASSUME NEW S, NEW s \in Seq(S), NEW a \in S, Len(s) = 1, s[1] = a
  PROVE  s = <<a>>
  <1> DEFINE t == <<a>>
  <1>1. t \in Seq(S) /\ Len(t) = 1 /\ t[1] = a
    OBVIOUS
  <1> HIDE DEF t
  <1>2. \A i \in 1..Len(s) : s[i] = t[i]
    BY <1>1
  <1>3. s = t
    BY <1>1, <1>2, SeqEqual
  <1> QED
    BY <1>3 DEF t

LEMMA IsTwo ==
  ASSUME NEW S, NEW s \in Seq(S), NEW a \in S, NEW b \in S, Len(s) = 2, s[1] = a, s[2] = b
  PROVE  s = <<a, b>>
  <1> DEFINE t == <<a, b>>
  <1>1. t \in Seq(S) /\ Len(t) = 2 /\ t[1] = a /\ t[2] = b
    OBVIOUS
  <1> HIDE DEF t
  <1>2. \A i \in 1..Len(s) : s[i] = t[i]
    BY <1>1
  <1>3. s = t
    BY <1>1, <1>2, SeqEqual
  <1> QED
    BY <1>3 DEF t

LEMMA IsThree ==
  ASSUME NEW S, NEW s \in Seq(S), NEW a \in S, NEW b \in S, NEW c \in S,
         Len(s) = 3, s[1] = a, s[2] = b, s[3] = c
  PROVE  s = <<a, b, c>>
  <1> DEFINE t == <<a, b, c>>
  <1>1. t \in Seq(S) /\ Len(t) = 3 /\ t[1] = a /\ t[2] = b /\ t[3] = c
    OBVIOUS
  <1> HIDE DEF t
  <1>2. \A i \in 1..Len(s) : s[i] = t[i]
    BY <1>1
  <1>3. s = t
    BY <1>1, <1>2, SeqEqual
  <1> QED
    BY <1>3 DEF t

\* The ends of a short stack.
LEMMA Single ==
  ASSUME NEW S, NEW a \in S, NEW b \in S
  PROVE  Last(<<a>>) = a /\ Front(<<a>>) = << >> /\ Append(<< >>, a) = <<a>>
  <1>1. Front(<<a>>) = << >>
    BY SubSeqEmpty DEF Front
  <1>2. Append(<< >>, a) \in Seq(S) /\ Len(Append(<< >>, a)) = 1 /\ Append(<< >>, a)[1] = a
    BY EmptySeq
  <1> QED
    BY <1>1, <1>2, IsOne DEF Last

LEMMA Couple ==
  ASSUME NEW S, NEW a \in S, NEW b \in S
  PROVE  Last(<<a, b>>) = b /\ Front(<<a, b>>) = <<a>> /\ Append(<<a>>, b) = <<a, b>>
  <1>1. /\ <<a>> \in Seq(S) /\ Len(<<a>>) = 1
        /\ <<a, b>> \in Seq(S) /\ Len(<<a, b>>) = 2
    OBVIOUS
  <1>2. /\ Front(<<a, b>>) \in Seq(S) /\ Len(Front(<<a, b>>)) = 1
        /\ Front(<<a, b>>)[1] = a
    BY <1>1, SubSeqProperties DEF Front
  <1>3. /\ Append(<<a>>, b) \in Seq(S) /\ Len(Append(<<a>>, b)) = 2
        /\ Append(<<a>>, b)[1] = a /\ Append(<<a>>, b)[2] = b
    BY <1>1
  <1>4. Last(<<a, b>>) = b
    BY <1>1 DEF Last
  <1>5. Front(<<a, b>>) = <<a>>
    BY <1>2, IsOne
  <1>6. Append(<<a>>, b) = <<a, b>>
    BY <1>3, IsTwo
  <1> QED
    BY <1>4, <1>5, <1>6

LEMMA Triple ==
  ASSUME NEW S, NEW a \in S, NEW b \in S, NEW c \in S
  PROVE  /\ Last(<<a, b, c>>) = c /\ Front(<<a, b, c>>) = <<a, b>>
         /\ Append(<<a, b>>, c) = <<a, b, c>>
  <1>1. /\ <<a, b>> \in Seq(S) /\ Len(<<a, b>>) = 2
        /\ <<a, b, c>> \in Seq(S) /\ Len(<<a, b, c>>) = 3
    OBVIOUS
  <1>2. /\ Front(<<a, b, c>>) \in Seq(S) /\ Len(Front(<<a, b, c>>)) = 2
        /\ Front(<<a, b, c>>)[1] = a /\ Front(<<a, b, c>>)[2] = b
    BY <1>1, SubSeqProperties DEF Front
  <1>3. /\ Append(<<a, b>>, c) \in Seq(S) /\ Len(Append(<<a, b>>, c)) = 3
        /\ Append(<<a, b>>, c)[1] = a /\ Append(<<a, b>>, c)[2] = b
        /\ Append(<<a, b>>, c)[3] = c
    BY <1>1
  <1>4. Last(<<a, b, c>>) = c
    BY <1>1 DEF Last
  <1>5. Front(<<a, b, c>>) = <<a, b>>
    BY <1>2, IsTwo
  <1>6. Append(<<a, b>>, c) = <<a, b, c>>
    <2> DEFINE s == Append(<<a, b>>, c)
    <2>1. s \in Seq(S) /\ Len(s) = 3 /\ s[1] = a /\ s[2] = b /\ s[3] = c
      BY <1>3
    <2> HIDE DEF s
    <2>2. s = <<a, b, c>>
      BY <2>1, IsThree
    <2> QED
      BY <2>2 DEF s
  <1> QED
    BY <1>4, <1>5, <1>6

LEMMA Delegated == \A op \in Ops : op.act = "delegate" => op.res \in {"child", "gc"}
  <1>1. \A act \in {"read", "repository.delete", "issue.read"} : act # "delegate"
    OBVIOUS
  <1>2. \A ns, act, res : Op(ns, act, res).act = act /\ Op(ns, act, res).res = res
    BY DEF Op
  <1> QED
    BY <1>1, <1>2 DEF Ops, Issue, ToChild, ToGrandchild

\* The agents as they start.
LEMMA AgentFact ==
  /\ Agent("t") = Left(<<Op("files", "read", "a"), Op("files", "read", "b")>>, 0)
  /\ Agent("del") = Left(<<Op("github", "repository.delete", "a")>>, 0)
  /\ Agent("root") = Left(<<Issue, Issue, ToChild>>, 0)
  /\ Agent("child") = Left(<<Issue, Issue, ToGrandchild>>, 0)
  /\ Agent("gc") = Left(<<Issue, Issue>>, 0)
  BY DEF Agent, Script, Left, Issue, ToChild, ToGrandchild

LEMMA AgentTyped == \A task \in {"t", "del", "root", "child", "gc"} : Agent(task) \in Agents
  <1>1. \A steps \in Seq(Ops) : Left(steps, 0) \in Agents
    BY DEF Left, Agents
  <1> USE DEF Ops
  <1>2. <<Op("files", "read", "a"), Op("files", "read", "b")>> \in Seq(Ops)
    OBVIOUS
  <1>3. <<Op("github", "repository.delete", "a")>> \in Seq(Ops)
    OBVIOUS
  <1>4. <<Issue, Issue, ToChild>> \in Seq(Ops)
    OBVIOUS
  <1>5. <<Issue, Issue, ToGrandchild>> \in Seq(Ops)
    OBVIOUS
  <1>6. <<Issue, Issue>> \in Seq(Ops)
    OBVIOUS
  <1> HIDE DEF Ops
  <1> QED
    BY <1>1, <1>2, <1>3, <1>4, <1>5, <1>6, AgentFact

LEMMA TopFact ==
  ASSUME Typed, run.stack # << >>
  PROVE  /\ Top \in Agents /\ Front(run.stack) \in Seq(Agents)
         /\ \A agent \in Agents : OnTop(agent) \in Seq(Agents)
  <1>1. run.stack \in Seq(Agents)
    BY DEF Typed, Runs
  <1>2. Top \in Agents /\ Front(run.stack) \in Seq(Agents)
    BY <1>1, Stacked DEF Top
  <1> QED
    BY <1>2 DEF OnTop

LEMMA RestFact ==
  ASSUME Typed, run.stack # << >>, Top.steps # << >>
  PROVE  /\ Step \in Ops /\ Rest(Top) \in Agents
         /\ Rest(Top) = Left(Tail(Top.steps), Top.used)
         /\ [Rest(Top) EXCEPT !.used = @ + 1] = Left(Tail(Top.steps), Top.used + 1)
         /\ [Rest(Top) EXCEPT !.used = @ + 1] \in Agents
  <1>1. PICK steps \in Seq(Ops), used \in Nat : Top = Left(steps, used)
    BY TopFact DEF Agents, Left
  <1>2. Top.steps = steps /\ Top.used = used
    BY <1>1 DEF Left
  <1>3. Head(steps) \in Ops /\ Tail(steps) \in Seq(Ops)
    BY <1>2
  <1>4. Rest(Left(steps, used)) = Left(Tail(steps), used)
    <2> DEFINE others == Tail(steps)
    <2>1. Rest(Left(steps, used)) = [Left(steps, used) EXCEPT !.steps = others]
      BY DEF Rest, Left
    <2> HIDE DEF others
    <2>2. [Left(steps, used) EXCEPT !.steps = others] = Left(others, used)
      BY DEF Left
    <2> QED
      BY <2>1, <2>2 DEF others
  <1>5. [Left(Tail(steps), used) EXCEPT !.used = @ + 1] = Left(Tail(steps), used + 1)
    <2> DEFINE others == Tail(steps)
    <2> HIDE DEF others
    <2>1. [Left(others, used) EXCEPT !.used = @ + 1] = Left(others, used + 1)
      BY DEF Left
    <2> QED
      BY <2>1 DEF others
  <1>6. \A n \in Nat : Left(Tail(steps), n) \in Agents
    BY <1>3 DEF Left, Agents
  <1> QED
    BY <1>1, <1>2, <1>3, <1>4, <1>5, <1>6 DEF Step

-----------------------------------------------------------------------------
(* What each action does to a run, field by field.                          *)

LEMMA StartFacts ==
  ASSUME Start
  PROVE  /\ run'.stack = <<Agent(RootTask(Probe))>> /\ run'.going /\ run' \in Runs
         /\ run'.spent = 0 /\ run'.executed = 0 /\ run'.unauthorized = 0 /\ ~run'.deleted
         /\ UNCHANGED <<flags, pending, broken>> /\ pending # << >> /\ Probe \in PlanProbes
  <1> DEFINE stack == <<Agent(RootTask(Probe))>>
  <1>1. RootTask(Probe) \in {"t", "root", "del"} /\ Probe \in PlanProbes
    BY DEF Start, RootTask, PlanProbes
  <1>2. Agent(RootTask(Probe)) \in Agents
    BY <1>1, AgentTyped
  <1>3. stack \in Seq(Agents)
    BY <1>2
  <1>4. run' = [NoRun EXCEPT !.stack = stack, !.going = TRUE]
    BY DEF Start
  <1> HIDE DEF stack
  <1>5. run' = [stack |-> stack, spent |-> 0, executed |-> 0, unauthorized |-> 0,
                deleted |-> FALSE, going |-> TRUE]
    BY <1>4 DEF NoRun
  <1>6. /\ run' \in Runs /\ run'.stack = stack /\ run'.going
        /\ run'.spent = 0 /\ run'.executed = 0 /\ run'.unauthorized = 0 /\ ~run'.deleted
    BY <1>3, <1>5 DEF Runs
  <1> QED
    BY <1>1, <1>6 DEF Start, stack

LEMMA StackMoves ==
  ASSUME Typed, NEW stack \in Seq(Agents), run' = [run EXCEPT !.stack = stack]
  PROVE  /\ run' \in Runs /\ run'.stack = stack /\ run'.going = run.going
         /\ run'.spent = run.spent /\ run'.executed = run.executed
         /\ run'.unauthorized = run.unauthorized /\ run'.deleted = run.deleted
  BY DEF Typed, Runs

LEMMA ReturnFacts ==
  ASSUME Typed, Return
  PROVE  /\ run' \in Runs /\ run'.stack = Front(run.stack) /\ run'.going = run.going
         /\ run'.spent = run.spent /\ run'.executed = run.executed
         /\ run'.unauthorized = run.unauthorized /\ run'.deleted = run.deleted
  <1>1. Front(run.stack) \in Seq(Agents)
    BY TopFact DEF Return
  <1>2. run' = [run EXCEPT !.stack = Front(run.stack)]
    BY DEF Return, Typed, Runs
  <1> HIDE DEF Return
  <1> QED
    BY <1>1, <1>2, StackMoves

LEMMA DelegateFacts ==
  ASSUME Typed, Delegate
  PROVE  /\ run' \in Runs /\ run'.going = run.going
         /\ run'.stack = Append(OnTop(Rest(Top)), Agent(Step.res))
         /\ run'.spent = run.spent /\ run'.executed = run.executed
         /\ run'.unauthorized = run.unauthorized /\ run'.deleted = run.deleted
  <1>1. run.stack # << >> /\ Top.steps # << >> /\ Step.act = "delegate"
        /\ run' = [run EXCEPT !.stack = Append(OnTop(Rest(Top)), Agent(Step.res))]
    BY DEF Delegate
  <1>2. Agent(Step.res) \in Agents
    BY <1>1, RestFact, Delegated, AgentTyped
  <1>3. OnTop(Rest(Top)) \in Seq(Agents)
    BY <1>1, RestFact, TopFact
  <1> DEFINE stack == Append(OnTop(Rest(Top)), Agent(Step.res))
  <1>4. stack \in Seq(Agents)
    BY <1>2, <1>3
  <1> HIDE DEF stack
  <1>5. run' = [run EXCEPT !.stack = stack]
    BY <1>1 DEF stack
  <1> QED
    BY <1>4, <1>5, StackMoves DEF stack

LEMMA GatedFacts ==
  ASSUME Typed, GatedStep
  PROVE  /\ run' \in Runs /\ run'.going = run.going /\ run'.unauthorized = run.unauthorized
         /\ IF Allowed(Caps(Probe), Step) /\ Affordable
            THEN /\ run'.stack = OnTop(Left(Tail(Top.steps), Top.used + 1))
                 /\ run'.spent = run.spent + 1 /\ run'.executed = run.executed + 1
                 /\ run'.deleted <=> run.deleted \/ Deletes(Step)
            ELSE /\ run'.stack = << >> /\ run'.spent = run.spent
                 /\ run'.executed = run.executed /\ run'.deleted = run.deleted
  <1>1. run.stack # << >> /\ Top.steps # << >>
    BY DEF GatedStep
  <1> DEFINE stack == OnTop([Rest(Top) EXCEPT !.used = @ + 1])
             deletes == Deletes(Step)
  <1>2. stack \in Seq(Agents) /\ stack = OnTop(Left(Tail(Top.steps), Top.used + 1))
    BY <1>1, RestFact, TopFact
  <1>3. deletes \in BOOLEAN
    BY DEF Deletes
  <1>4. CASE Allowed(Caps(Probe), Step) /\ Affordable
    <2>1. run' = [run EXCEPT !.stack = stack, !.spent = @ + 1, !.executed = @ + 1,
                             !.deleted = @ \/ deletes]
      BY <1>4 DEF GatedStep
    <2> HIDE DEF stack, deletes
    <2>2. /\ run'.going = run.going /\ run'.unauthorized = run.unauthorized
          /\ run'.stack = stack /\ run'.spent = run.spent + 1
          /\ run'.executed = run.executed + 1
      BY <2>1 DEF Typed, Runs
    <2>3. run' \in Runs
      <3> DEFINE spent == run.spent + 1
                 executed == run.executed + 1
                 deleted == run.deleted \/ deletes
      <3>1. spent \in Nat /\ executed \in Nat /\ deleted \in BOOLEAN /\ run \in Runs
        BY DEF Typed, Runs
      <3>2. run' = [run EXCEPT !.stack = stack, !.spent = spent, !.executed = executed,
                               !.deleted = deleted]
        BY <2>1, <3>1 DEF Runs
      <3> HIDE DEF spent, executed, deleted
      <3> QED
        BY <1>2, <3>1, <3>2 DEF Runs
    <2>4. run'.deleted <=> run.deleted \/ deletes
      BY <1>3, <2>1 DEF Typed, Runs
    <2> QED
      BY <1>2, <1>4, <2>2, <2>3, <2>4 DEF deletes
  <1>5. CASE ~(Allowed(Caps(Probe), Step) /\ Affordable)
    <2>1. run' = [run EXCEPT !.stack = << >>]
      BY <1>5 DEF GatedStep
    <2> QED
      BY <1>5, <2>1, StackMoves, EmptySeq
  <1> QED
    BY <1>4, <1>5

LEMMA RawFacts ==
  ASSUME Typed, RawPlan, Top.steps # << >>
  PROVE  /\ run' \in Runs /\ run'.going = run.going /\ run'.stack = << >>
         /\ IF Allowed(Caps(Probe), Step)
            THEN /\ run'.executed = Len(Top.steps)
                 /\ run'.unauthorized = Len(Top.steps) - 1
                 /\ run'.deleted <=> \E i \in DOMAIN Top.steps : Deletes(Top.steps[i])
            ELSE /\ run'.executed = run.executed /\ run'.deleted = run.deleted
                 /\ run'.unauthorized = run.unauthorized
  <1> DEFINE deletes == \E i \in DOMAIN Top.steps : Deletes(Top.steps[i])
             n == Len(Top.steps)
  <1>1. n \in Nat /\ n # 0
    <2>1. Top \in Agents
      BY TopFact DEF RawPlan
    <2> QED
      BY <2>1 DEF Agents
  <1>2. deletes \in BOOLEAN
    OBVIOUS
  <1>3. CASE Allowed(Caps(Probe), Step)
    <2>1. run' = [run EXCEPT !.stack = << >>, !.executed = n, !.unauthorized = n - 1,
                             !.deleted = deletes]
      BY <1>3 DEF RawPlan, Unauthorized
    <2> HIDE DEF deletes, n
    <2>2. n - 1 \in Nat
      BY <1>1
    <2>3. /\ run' \in Runs /\ run'.going = run.going /\ run'.stack = << >>
          /\ run'.executed = n /\ run'.unauthorized = n - 1
      BY <1>1, <1>2, <2>1, <2>2, EmptySeq DEF Typed, Runs
    <2>4. run'.deleted <=> deletes
      BY <1>2, <2>1 DEF Typed, Runs
    <2> QED
      BY <1>3, <2>3, <2>4 DEF n, deletes
  <1>4. CASE ~Allowed(Caps(Probe), Step)
    <2>1. run' = [run EXCEPT !.stack = << >>]
      BY <1>4 DEF RawPlan
    <2> QED
      BY <1>4, <2>1, StackMoves, EmptySeq
  <1> QED
    BY <1>3, <1>4
-----------------------------------------------------------------------------
(* How each of the three plans goes.                                        *)

PlanStep == RawPlan \/ GatedStep \/ Delegate \/ Return

LEMMA SameFlags ==
  ASSUME PlanStep
  PROVE  flags' = flags /\ pending' = pending /\ broken' = broken /\ run.stack # << >>
  BY DEF PlanStep, RawPlan, GatedStep, Delegate, Return

\* An agent at the start of its script, alone on the stack.
LEMMA Alone ==
  ASSUME NEW agent \in Agents, run.stack = <<agent>>
  PROVE  /\ Top = agent /\ Front(run.stack) = << >>
         /\ \A other \in Agents : OnTop(other) = <<other>>
  BY Single DEF Top, OnTop

\* Two agents on the stack, and three.
LEMMA OfTwo ==
  ASSUME NEW a \in Agents, NEW b \in Agents, run.stack = <<a, b>>
  PROVE  /\ Top = b /\ Front(run.stack) = <<a>>
         /\ \A other \in Agents : OnTop(other) = <<a, other>>
  BY Couple DEF Top, OnTop

LEMMA OfThree ==
  ASSUME NEW a \in Agents, NEW b \in Agents, NEW c \in Agents, run.stack = <<a, b, c>>
  PROVE  /\ Top = c /\ Front(run.stack) = <<a, b>>
         /\ \A other \in Agents : OnTop(other) = <<a, b, other>>
  <1>1. Last(<<a, b, c>>) = c /\ Front(<<a, b, c>>) = <<a, b>>
    BY Triple, Zenon
  <1>2. ASSUME NEW other \in Agents
        PROVE  OnTop(other) = <<a, b, other>>
    <2>1. Append(<<a, b>>, other) = <<a, b, other>>
      BY Triple, Zenon
    <2> QED
      BY <1>1, <2>1 DEF OnTop
  <1> QED
    BY <1>1, <1>2 DEF Top

LEMMA MediatesNext ==
  ASSUME Typed, Probe = "INV-01", Mediates, PlanStep
  PROVE  Mediates'
  <1> DEFINE first == Op("files", "read", "a")
             second == Op("files", "read", "b")
  <1>1. \A f : On(f)' <=> On(f)
    BY SameFlags DEF On
  <1>2. CASE On("execution_authz")
    <2>1. run.stack = <<Agent("t")>>
      BY <1>2, SameFlags DEF Mediates
    <2>2. Agent("t") \in Agents /\ Agent("t").steps = <<first, second>>
      BY AgentTyped, AgentFact DEF Left
    <2>3. Top.steps = <<first, second>>
      BY <2>1, <2>2, Alone
    <2> HIDE DEF first, second
    <2>4. Top.steps # << >> /\ Len(Top.steps) = 2 /\ Step = first
      BY <2>3 DEF Step
    <2>5. RawPlan
      BY <1>2, <2>4 DEF PlanStep, GatedStep, Delegate, Return
    <2>6. Allowed(Caps(Probe), Step)
      BY <2>4, ReadAllowed DEF Caps, first
    <2>7. run'.stack = << >> /\ run'.unauthorized = 1
      BY <2>4, <2>5, <2>6, RawFacts
    <2> QED
      BY <1>1, <1>2, <2>7 DEF Mediates
  <1>3. CASE ~On("execution_authz")
    <2>1. run'.unauthorized = run.unauthorized
      BY <1>3, GatedFacts, DelegateFacts, ReturnFacts DEF PlanStep, RawPlan
    <2> QED
      BY <1>1, <1>3, <2>1 DEF Mediates
  <1> QED
    BY <1>2, <1>3

LEMMA OperatesNext ==
  ASSUME Typed, Probe = "INV-13", Operates, PlanStep
  PROVE  Operates'
  <1> DEFINE delete == Op("github", "repository.delete", "a")
             last == Left(<< >>, 1)
  <1>1. \A f : On(f)' <=> On(f)
    BY SameFlags DEF On
  <1>2. last \in Agents /\ last.steps = << >>
    BY DEF Left, Agents
  <1>3. CASE run.stack = <<Agent("del")>> /\ run.spent = 0 /\ ~run.deleted
    <2>1. /\ Agent("del") \in Agents /\ Agent("del").steps = <<delete>>
          /\ Agent("del").used = 0
      BY AgentTyped, AgentFact DEF Left
    <2>2. Top.steps = <<delete>> /\ Top.used = 0 /\ OnTop(last) = <<last>>
      BY <1>2, <1>3, <2>1, Alone
    <2>3. Deletes(delete) /\ delete.act # "delegate"
      BY DEF Deletes, G!Kind, Op
    <2>4. Allowed(Caps(Probe), delete) <=> On("tool_vs_operation")
      BY DeleteAllowed DEF Caps
    <2> HIDE DEF delete
    <2>5. /\ Top.steps # << >> /\ Step = delete /\ Tail(Top.steps) = << >>
          /\ DOMAIN Top.steps = {1} /\ Top.steps[1] = delete
      BY <2>2 DEF Step
    <2>6. CASE RawPlan
      <3>1. run'.stack = << >> /\ (run'.deleted <=> On("tool_vs_operation"))
        BY <1>3, <2>3, <2>4, <2>5, <2>6, RawFacts
      <3> QED
        BY <1>1, <3>1 DEF Operates
    <2>7. CASE GatedStep
      <3>1. Affordable
        BY <1>3, <2>2 DEF Affordable, Limit
      <3>2. CASE On("tool_vs_operation")
        <4>1. run'.stack = <<last>> /\ run'.deleted
          BY <2>2, <2>3, <2>4, <2>5, <2>7, <3>1, <3>2, GatedFacts
        <4> QED
          BY <1>1, <2>7, <3>2, <4>1 DEF Operates, GatedStep
      <3>3. CASE ~On("tool_vs_operation")
        <4>1. run'.stack = << >> /\ ~run'.deleted
          BY <1>3, <2>4, <2>5, <2>7, <3>3, GatedFacts
        <4> QED
          BY <1>1, <3>3, <4>1 DEF Operates
      <3> QED
        BY <3>2, <3>3
    <2> QED
      BY <2>3, <2>5, <2>6, <2>7 DEF PlanStep, Delegate, Return
  <1>4. CASE /\ run.stack = <<last>> /\ ~On("execution_authz")
             /\ run.deleted /\ On("tool_vs_operation")
    <2>1. Top.steps = << >> /\ Front(run.stack) = << >>
      BY <1>2, <1>4, Alone
    <2>2. Return
      BY <1>4, <2>1 DEF PlanStep, RawPlan, GatedStep, Delegate
    <2>3. run'.stack = << >> /\ run'.deleted
      BY <1>4, <2>1, <2>2, ReturnFacts
    <2> QED
      BY <1>1, <1>4, <2>3 DEF Operates
  <1> QED
    BY <1>3, <1>4, SameFlags DEF Operates
\* Where the agents have a budget each and are under the gate.
Apart == Probe = "INV-06-budget" /\ ~On("execution_authz") /\ On("budget_sharing")

LEMMA Issues ==
  ASSUME Typed, Apart, PlanStep, NEW steps, NEW used \in 0..2,
         Top = Left(steps, used), steps # << >>, Head(steps) = Issue
  PROVE  /\ run'.stack = OnTop(Left(Tail(steps), used + 1))
         /\ run'.executed = run.executed + 1
  <1>1. Top.steps = steps /\ Top.used = used
    BY DEF Left
  <1>2. Step = Issue /\ Issue.act # "delegate"
    BY <1>1 DEF Step, Issue, Op
  <1>3. Allowed(Caps(Probe), Step) /\ Affordable
    BY <1>1, <1>2, IssueAllowed DEF Apart, Caps, Issue, Affordable, Limit
  <1>4. GatedStep
    BY <1>1, <1>2 DEF Apart, PlanStep, RawPlan, Delegate, Return
  <1> QED
    BY <1>1, <1>3, <1>4, GatedFacts

LEMMA Descends ==
  ASSUME Typed, Apart, PlanStep, NEW steps, NEW used,
         Top = Left(steps, used), steps # << >>, Head(steps) \in {ToChild, ToGrandchild}
  PROVE  /\ run'.stack = Append(OnTop(Left(Tail(steps), used)), Agent(Head(steps).res))
         /\ run'.executed = run.executed
  <1>1. Top.steps = steps /\ Top.used = used
    BY DEF Left
  <1>2. Step = Head(steps) /\ Step.act = "delegate"
    BY <1>1 DEF Step, ToChild, ToGrandchild, Op
  <1>3. Delegate
    BY <1>1, <1>2 DEF Apart, PlanStep, RawPlan, GatedStep, Return
  <1>4. Rest(Top) = Left(Tail(steps), used)
    BY <1>1, RestFact, SameFlags
  <1> QED
    BY <1>2, <1>3, <1>4, DelegateFacts

LEMMA Ascends ==
  ASSUME Typed, Apart, PlanStep, Top.steps = << >>
  PROVE  run'.stack = Front(run.stack) /\ run'.executed = run.executed
  BY ReturnFacts DEF Apart, PlanStep, RawPlan, GatedStep, Delegate

\* What is left of the scripts.
LEMMA Tails ==
  ASSUME NEW end \in Ops
  PROVE  /\ Head(<<Issue, Issue, end>>) = Issue /\ Tail(<<Issue, Issue, end>>) = <<Issue, end>>
         /\ Head(<<Issue, end>>) = Issue /\ Tail(<<Issue, end>>) = <<end>>
         /\ Head(<<end>>) = end /\ Tail(<<end>>) = << >>
         /\ <<Issue, Issue, end>> # << >> /\ <<Issue, end>> # << >> /\ <<end>> # << >>
  <1>1. Issue \in Ops
    BY DEF Ops
  <1> DEFINE three == <<Issue, Issue, end>>
             two == <<Issue, end>>
             t == Tail(three)
             u == Tail(two)
  <1>2. /\ three \in Seq(Ops) /\ Len(three) = 3 /\ three # << >>
        /\ three[2] = Issue /\ three[3] = end
    BY <1>1
  <1>3. two \in Seq(Ops) /\ Len(two) = 2 /\ two # << >> /\ two[2] = end
    BY <1>1
  <1> HIDE DEF three, two
  <1>4. t \in Seq(Ops) /\ Len(t) = 2
    BY <1>2
  <1>5. t[1] = Issue /\ t[2] = end
    <2>1. \A i \in 1..Len(Tail(three)) : Tail(three)[i] = three[i + 1]
      BY <1>2, HeadTailProperties, Zenon
    <2>2. Len(Tail(three)) = 2
      BY <1>4
    <2>3. Tail(three)[1] = three[2]
      BY <2>1, <2>2
    <2>4. Tail(three)[2] = three[3]
      BY <2>1, <2>2
    <2> QED
      BY <1>2, <2>3, <2>4
  <1>6. u \in Seq(Ops) /\ Len(u) = 1
    BY <1>3
  <1>7. u[1] = end
    <2>1. \A i \in 1..Len(Tail(two)) : Tail(two)[i] = two[i + 1]
      BY <1>3, HeadTailProperties, Zenon
    <2>2. Len(Tail(two)) = 1
      BY <1>6
    <2>3. Tail(two)[1] = two[2]
      BY <2>1, <2>2
    <2> QED
      BY <1>3, <2>3
  <1> HIDE DEF t, u
  <1>8. t = <<Issue, end>>
    BY <1>1, <1>4, <1>5, IsTwo
  <1>9. u = <<end>>
    BY <1>6, <1>7, IsOne
  <1> QED
    BY <1>8, <1>9 DEF three, two, t, u

LEMMA FirstGoes ==
  ASSUME Typed, Apart, PlanStep, NEW end \in Ops, Top = First(end)
  PROVE  run'.stack = OnTop(Second(end)) /\ run'.executed = run.executed + 1
  <1>1. Top = Left(<<Issue, Issue, end>>, 0) /\ 0 \in 0..2 /\ 0 + 1 = 1
    BY DEF First
  <1> QED
    BY <1>1, Tails, Issues, Zenon DEF Second

LEMMA SecondGoes ==
  ASSUME Typed, Apart, PlanStep, NEW end \in Ops, Top = Second(end)
  PROVE  run'.stack = OnTop(Third(end)) /\ run'.executed = run.executed + 1
  <1>1. Top = Left(<<Issue, end>>, 1) /\ 1 \in 0..2 /\ 1 + 1 = 2
    BY DEF Second
  <1> QED
    BY <1>1, Tails, Issues, Zenon DEF Third

LEMMA ThirdGoes ==
  ASSUME Typed, Apart, PlanStep, NEW end \in {ToChild, ToGrandchild}, Top = Third(end)
  PROVE  run'.stack = Append(OnTop(Spent), Agent(end.res)) /\ run'.executed = run.executed
  <1>1. end \in Ops
    BY DEF Ops
  <1> QED
    BY <1>1, Tails, Descends DEF Third, Spent

LEMMA ReadsGoes ==
  ASSUME Typed, Apart, PlanStep, Top = Reads
  PROVE  run'.stack = OnTop(Read) /\ run'.executed = run.executed + 1
  <1>1. Top = Left(<<Issue, Issue>>, 0) /\ 0 \in 0..2 /\ 0 + 1 = 1 /\ Issue \in Ops
    BY DEF Reads, Ops
  <1> QED
    BY <1>1, Tails, Issues, Zenon DEF Read

LEMMA ReadGoes ==
  ASSUME Typed, Apart, PlanStep, Top = Read
  PROVE  run'.stack = OnTop(Spent) /\ run'.executed = run.executed + 1
  <1>1. Top = Left(<<Issue>>, 1) /\ 1 \in 0..2 /\ 1 + 1 = 2 /\ Issue \in Ops
    BY DEF Read, Ops
  <1> QED
    BY <1>1, Tails, Issues, Zenon DEF Spent

LEMMA SpentGoes ==
  ASSUME Typed, Apart, PlanStep, Top = Spent
  PROVE  run'.stack = Front(run.stack) /\ run'.executed = run.executed
  BY Ascends DEF Spent, Left

LEMMA Readers ==
  /\ Spent \in Agents /\ Reads \in Agents /\ Read \in Agents
  /\ \A end \in {ToChild, ToGrandchild} :
       end \in Ops /\ First(end) \in Agents /\ Second(end) \in Agents /\ Third(end) \in Agents
  /\ Agent(ToChild.res) = First(ToGrandchild) /\ Agent(ToGrandchild.res) = Reads
  <1>1. Issue \in Ops /\ ToChild \in Ops /\ ToGrandchild \in Ops
    BY DEF Ops
  <1>2. \A steps \in Seq(Ops) : \A used \in Nat : Left(steps, used) \in Agents
    BY DEF Left, Agents
  <1>3. ASSUME NEW end \in Ops
        PROVE  First(end) \in Agents /\ Second(end) \in Agents /\ Third(end) \in Agents
    <2>1. /\ <<Issue, Issue, end>> \in Seq(Ops) /\ <<Issue, end>> \in Seq(Ops)
          /\ <<end>> \in Seq(Ops)
      BY <1>1
    <2> QED
      BY <1>2, <2>1 DEF First, Second, Third
  <1>4. Spent \in Agents /\ Reads \in Agents /\ Read \in Agents
    <2>1. /\ <<Issue, Issue>> \in Seq(Ops) /\ <<Issue>> \in Seq(Ops) /\ << >> \in Seq(Ops)
      BY <1>1
    <2> QED
      BY <1>2, <2>1 DEF Spent, Reads, Read
  <1>5. ToChild.res = "child" /\ ToGrandchild.res = "gc"
    BY DEF ToChild, ToGrandchild, Op
  <1> QED
    BY <1>1, <1>3, <1>4, <1>5, AgentFact DEF First, Reads

LEMMA CourseNext ==
  ASSUME Typed, Apart, Course, PlanStep
  PROVE  Course'
  <1>1. CASE run.stack = <<First(ToChild)>> /\ run.executed = 0
    <2>1. Top = First(ToChild) /\ OnTop(Second(ToChild)) = <<Second(ToChild)>>
      BY <1>1, Readers, Alone
    <2>2. run'.stack = <<Second(ToChild)>> /\ run'.executed = 1
      BY <1>1, <2>1, Readers, FirstGoes
    <2> QED
      BY <2>2, Zenon DEF Course
  <1>2. CASE run.stack = <<Second(ToChild)>> /\ run.executed = 1
    <2>1. Top = Second(ToChild) /\ OnTop(Third(ToChild)) = <<Third(ToChild)>>
      BY <1>2, Readers, Alone
    <2>2. run'.stack = <<Third(ToChild)>> /\ run'.executed = 2
      BY <1>2, <2>1, Readers, SecondGoes
    <2> QED
      BY <2>2, Zenon DEF Course
  <1>3. CASE run.stack = <<Third(ToChild)>> /\ run.executed = 2
    <2>1. Top = Third(ToChild) /\ OnTop(Spent) = <<Spent>>
      BY <1>3, Readers, Alone
    <2>2. run'.stack = Append(<<Spent>>, First(ToGrandchild)) /\ run'.executed = 2
      BY <1>3, <2>1, Readers, ThirdGoes
    <2>3. run'.stack = <<Spent, First(ToGrandchild)>>
      BY <2>2, Readers, Couple
    <2> QED
      BY <2>2, <2>3, Zenon DEF Course
  <1>4. CASE run.stack = <<Spent, First(ToGrandchild)>> /\ run.executed = 2
    <2>1. Top = First(ToGrandchild) /\ OnTop(Second(ToGrandchild)) = <<Spent, Second(ToGrandchild)>>
      BY <1>4, Readers, OfTwo
    <2>2. run'.stack = <<Spent, Second(ToGrandchild)>> /\ run'.executed = 3
      BY <1>4, <2>1, Readers, FirstGoes
    <2> QED
      BY <2>2, Zenon DEF Course
  <1>5. CASE run.stack = <<Spent, Second(ToGrandchild)>> /\ run.executed = 3
    <2>1. Top = Second(ToGrandchild) /\ OnTop(Third(ToGrandchild)) = <<Spent, Third(ToGrandchild)>>
      BY <1>5, Readers, OfTwo
    <2>2. run'.stack = <<Spent, Third(ToGrandchild)>> /\ run'.executed = 4
      BY <1>5, <2>1, Readers, SecondGoes
    <2> QED
      BY <2>2, Zenon DEF Course
  <1>6. CASE run.stack = <<Spent, Third(ToGrandchild)>> /\ run.executed = 4
    <2>1. Top = Third(ToGrandchild) /\ OnTop(Spent) = <<Spent, Spent>>
      BY <1>6, Readers, OfTwo
    <2>2. run'.stack = Append(<<Spent, Spent>>, Reads) /\ run'.executed = 4
      BY <1>6, <2>1, Readers, ThirdGoes
    <2>3. run'.stack = <<Spent, Spent, Reads>>
      BY <2>2, Readers, Triple
    <2> QED
      BY <2>2, <2>3, Zenon DEF Course
  <1>7. CASE run.stack = <<Spent, Spent, Reads>> /\ run.executed = 4
    <2>1. Top = Reads /\ OnTop(Read) = <<Spent, Spent, Read>>
      BY <1>7, Readers, OfThree
    <2>2. run'.stack = <<Spent, Spent, Read>> /\ run'.executed = 5
      BY <1>7, <2>1, Readers, ReadsGoes
    <2> QED
      BY <2>2, Zenon DEF Course
  <1>8. CASE run.stack = <<Spent, Spent, Read>> /\ run.executed = 5
    <2>1. Top = Read /\ OnTop(Spent) = <<Spent, Spent, Spent>>
      BY <1>8, Readers, OfThree
    <2>2. run'.stack = <<Spent, Spent, Spent>> /\ run'.executed = 6
      BY <1>8, <2>1, Readers, ReadGoes
    <2> QED
      BY <2>2, Zenon DEF Course
  <1>9. CASE run.stack = <<Spent>> /\ run.executed = 6
    <2>1. Top = Spent /\ Front(run.stack) = << >>
      BY <1>9, Readers, Alone
    <2>2. run'.stack = << >> /\ run'.executed = 6
      BY <1>9, <2>1, SpentGoes
    <2> QED
      BY <2>2, Zenon DEF Course
  <1>10. CASE run.stack = <<Spent, Spent>> /\ run.executed = 6
    <2>1. Top = Spent /\ Front(run.stack) = <<Spent>>
      BY <1>10, Readers, OfTwo
    <2>2. run'.stack = <<Spent>> /\ run'.executed = 6
      BY <1>10, <2>1, SpentGoes
    <2> QED
      BY <2>2, Zenon DEF Course
  <1>11. CASE run.stack = <<Spent, Spent, Spent>> /\ run.executed = 6
    <2>1. Top = Spent /\ Front(run.stack) = <<Spent, Spent>>
      BY <1>11, Readers, OfThree
    <2>2. run'.stack = <<Spent, Spent>> /\ run'.executed = 6
      BY <1>11, <2>1, SpentGoes
    <2> QED
      BY <2>2, Zenon DEF Course
  <1> QED
    BY SameFlags, <1>1, <1>2, <1>3, <1>4, <1>5, <1>6, <1>7, <1>8,
       <1>9, <1>10, <1>11, Zenon DEF Course
LEMMA SharesNext ==
  ASSUME Typed, Probe = "INV-06-budget", Shares, PlanStep
  PROVE  Shares'
  <1>1. \A f : On(f)' <=> On(f)
    BY SameFlags DEF On
  <1>2. CASE On("execution_authz")
    <2>1. run.stack = <<Agent("root")>>
      BY <1>2, SameFlags DEF Shares
    <2>2. /\ Agent("root") \in Agents /\ Agent("root").steps = <<Issue, Issue, ToChild>>
          /\ ToChild \in Ops
      BY AgentTyped, AgentFact, Readers DEF Left
    <2>3. Top.steps = <<Issue, Issue, ToChild>>
      BY <2>1, <2>2, Alone
    <2>4. Len(Top.steps) = 3
      BY <2>3
    <2>5. Top.steps # << >> /\ Step = Issue
      BY <2>2, <2>3, Tails DEF Step
    <2>6. RawPlan
      BY <1>2, <2>5 DEF PlanStep, GatedStep, Delegate, Return
    <2>7. Allowed(Caps(Probe), Step)
      BY <2>5, IssueAllowed DEF Caps, Issue
    <2>8. run'.stack = << >> /\ run'.executed = 3
      BY <2>4, <2>5, <2>6, <2>7, RawFacts
    <2> QED
      BY <1>1, <1>2, <2>8 DEF Shares
  <1>3. CASE ~On("execution_authz") /\ On("budget_sharing")
    <2>1. Course'
      BY <1>3, CourseNext DEF Shares, Apart
    <2> QED
      BY <1>1, <1>3, <2>1 DEF Shares
  <1>4. CASE ~On("execution_authz") /\ ~On("budget_sharing")
    <2>1. run.executed = run.spent /\ run.executed <= 3 /\ run.spent \in Nat
      BY <1>4 DEF Shares, Typed, Runs
    <2>2. CASE GatedStep
      <3>1. Affordable => run.spent < 3
        BY <1>4 DEF Affordable, Limit
      <3>2. /\ run'.executed = run'.spent
            /\ run'.executed = run.executed \/ (Affordable /\ run'.executed = run.executed + 1)
        BY <2>1, <2>2, GatedFacts
      <3> QED
        BY <1>1, <1>4, <2>1, <3>1, <3>2 DEF Shares
    <2>3. CASE Delegate \/ Return
      <3>1. run'.executed = run.executed /\ run'.spent = run.spent
        BY <2>3, DelegateFacts, ReturnFacts
      <3> QED
        BY <1>1, <1>4, <2>1, <3>1 DEF Shares
    <2> QED
      BY <1>4, <2>2, <2>3 DEF PlanStep, RawPlan
  <1> QED
    BY <1>2, <1>3, <1>4

-----------------------------------------------------------------------------
(* What a probe finds is what is on.                                        *)

LEMMA OneDefeatEach ==
  /\ \A f, g \in Flag : Defeats[f] = Defeats[g] => f = g
  /\ \A f \in Flag : /\ Defeats[f] = "INV-01" <=> f = "execution_authz"
                     /\ Defeats[f] = "INV-13" <=> f = "tool_vs_operation"
                     /\ Defeats[f] = "INV-06-budget" <=> f = "budget_sharing"
                     /\ Defeats[f] # "INV-14" /\ Defeats[f] \in Names
  /\ Names = {Defeats[f] : f \in Flag} \cup {"INV-14"}
  /\ \A f \in Flag : Defeats[f] \in ToSet(Probes)
  BY DEF Flag, Defeats, Names, Probes, ToSet

\* What a probe is to answer.
Earned == \A f \in flags : Defeats[f] = Probe => Hidden(f)

LEMMA DirectEarned ==
  ASSUME Typed, pending # << >>, Probe \notin PlanProbes
  PROVE  Direct(Probe) <=> Earned
  <1>1. Probe \in Names
    BY DEF Typed, Probe
  <1>2. \A f \in flags : Hidden(f) => Defeats[f] \in PlanProbes
    BY OneDefeatEach DEF Hidden, Typed, PlanProbes
  <1>3. Earned <=> \A f \in flags : Defeats[f] # Probe
    BY <1>2 DEF Earned
  <1>4. CASE Probe = "INV-14"
    BY <1>3, <1>4, DirectFact, OneDefeatEach DEF Typed
  <1>5. ASSUME NEW f \in Flag, Probe = Defeats[f]
        PROVE  Direct(Probe) <=> Earned
    <2>1. Direct(Probe) <=> ~On(f)
      BY <1>5, DirectFact
    <2>2. On(f) <=> \E g \in flags : Defeats[g] = Probe
      BY <1>5, OneDefeatEach DEF On, Typed
    <2> QED
      BY <1>3, <2>1, <2>2
  <1> QED
    BY <1>1, <1>4, <1>5, OneDefeatEach

LEMMA PlanEarned ==
  ASSUME Typed, Planned, run.going, run.stack = << >>
  PROVE  Verdict <=> Earned
  <1>1. CASE Probe = "INV-01"
    <2>1. Verdict <=> run.unauthorized = 0
      BY <1>1 DEF Verdict
    <2>2. Verdict <=> ~On("execution_authz")
      BY <1>1, <2>1, AgentTyped DEF Planned, Mediates
    <2>3. Earned <=> ~On("execution_authz")
      BY <1>1, OneDefeatEach DEF Earned, Hidden, On, Typed
    <2> QED
      BY <2>2, <2>3
  <1>2. CASE Probe = "INV-13"
    <2>1. Verdict <=> ~run.deleted
      BY <1>2 DEF Verdict
    <2>2. Verdict <=> ~On("tool_vs_operation")
      BY <1>2, <2>1 DEF Planned, Operates
    <2>3. Earned <=> ~On("tool_vs_operation")
      BY <1>2, OneDefeatEach DEF Earned, Hidden, On, Typed
    <2> QED
      BY <2>2, <2>3
  <1>3. CASE Probe = "INV-06-budget"
    <2>1. Verdict <=> run.executed <= 3
      BY <1>3 DEF Verdict, Limit
    <2>2. Verdict <=> ~(On("budget_sharing") /\ ~On("execution_authz"))
      BY <1>3, <2>1 DEF Planned, Shares, Course
    <2>3. Earned <=> ~(On("budget_sharing") /\ ~On("execution_authz"))
      BY <1>3, OneDefeatEach DEF Earned, Hidden, On, Typed
    <2> QED
      BY <2>2, <2>3
  <1> QED
    BY <1>1, <1>2, <1>3 DEF Planned, PlanProbes

LEMMA HeadOrTail ==
  ASSUME NEW S, NEW s \in Seq(S), s # << >>
  PROVE  ToSet(s) \subseteq {Head(s)} \cup ToSet(Tail(s))
  <1> SUFFICES ASSUME NEW i \in 1..Len(s), i # 1
               PROVE  s[i] \in ToSet(Tail(s))
    BY DEF ToSet
  <1>1. i - 1 \in 1..Len(Tail(s)) /\ Tail(s)[i - 1] = s[i]
    BY HeadTailProperties
  <1>2. DOMAIN Tail(s) = 1..Len(Tail(s))
    OBVIOUS
  <1> QED
    BY <1>1, <1>2 DEF ToSet

LEMMA Reports ==
  ASSUME Typed, OnlyDefeatedBreak, DefeatsShow, pending # << >>, Judged(Earned)
  PROVE  OnlyDefeatedBreak' /\ DefeatsShow'
  <1>1. /\ flags' = flags /\ pending' = Tail(pending)
        /\ broken' = IF Earned THEN broken ELSE broken \cup {Probe}
    BY DEF Judged
  <1>2. \A f : Hidden(f)' <=> Hidden(f)
    BY <1>1 DEF Hidden, On
  <1>3. OnlyDefeatedBreak'
    BY <1>1 DEF OnlyDefeatedBreak, Earned
  <1>4. ASSUME NEW f \in flags, ~Hidden(f)
        PROVE  Defeats[f] \in broken' \/ Defeats[f] \in ToSet(Tail(pending))
    <2>1. Defeats[f] \in broken \/ Defeats[f] = Probe \/ Defeats[f] \in ToSet(Tail(pending))
      BY <1>4, HeadOrTail DEF DefeatsShow, Typed, Probe
    <2>2. Defeats[f] = Probe => ~Earned
      BY <1>4 DEF Earned
    <2> QED
      BY <1>1, <2>1, <2>2
  <1> QED
    BY <1>1, <1>2, <1>3, <1>4 DEF DefeatsShow
-----------------------------------------------------------------------------
(* The invariant.                                                           *)

LEMMA MInvInit == Init => MInv
  <1> SUFFICES ASSUME Init
               PROVE  MInv
    OBVIOUS
  <1>1. Probes \in Seq(Names)
    <2>1. DOMAIN Probes = 1..15
      BY DEF Probes
    <2>2. \A i \in 1..15 : Probes[i] \in Names
      BY <2>1 DEF Names
    <2> QED
      BY <2>1, <2>2 DEF Probes, Names
  <1>2. NoRun \in Runs
    BY EmptySeq DEF NoRun, Runs
  <1>3. ~run.going
    BY DEF Init, NoRun
  <1>4. DefeatsShow
    BY OneDefeatEach DEF Init, DefeatsShow
  <1> QED
    BY <1>1, <1>2, <1>3, <1>4 DEF Init, MInv, Typed, Planned, OnlyDefeatedBreak

LEMMA PlanGoes ==
  ASSUME MInv, PlanStep
  PROVE  MInv'
  <1>0. Typed /\ Planned
    BY DEF MInv
  <1>1. /\ flags' = flags /\ pending' = pending /\ broken' = broken
        /\ run.stack # << >> /\ run.going
    BY <1>0, SameFlags DEF Planned, NoRun
  <1>2. Probe' = Probe /\ \A f : (On(f)' <=> On(f)) /\ (Hidden(f)' <=> Hidden(f))
    BY <1>1 DEF Probe, On, Hidden
  <1>3. run' \in Runs /\ run'.going
    <2>1. CASE RawPlan
      <3>1. On("execution_authz")
        BY <2>1 DEF RawPlan
      <3>2. run.stack \in {<<Agent("t")>>, <<Agent("del")>>, <<Agent("root")>>}
        BY <1>0, <1>1, <3>1 DEF Planned, PlanProbes, Mediates, Operates, Shares
      <3>3. \A task \in {"t", "del", "root"} :
              Agent(task) \in Agents /\ Agent(task).steps # << >>
        BY AgentTyped, AgentFact DEF Left
      <3>4. Top.steps # << >>
        BY <3>2, <3>3, Alone
      <3> QED
        BY <1>0, <1>1, <2>1, <3>4, RawFacts
    <2> QED
      BY <1>0, <1>1, <2>1, GatedFacts, DelegateFacts, ReturnFacts DEF PlanStep
  <1>4. Typed'
    BY <1>0, <1>1, <1>3 DEF Typed
  <1>5. Planned'
    BY <1>0, <1>1, <1>2, <1>3, MediatesNext, OperatesNext, SharesNext DEF Planned
  <1>6. OnlyDefeatedBreak' /\ DefeatsShow'
    BY <1>1, <1>2 DEF MInv, OnlyDefeatedBreak, DefeatsShow
  <1> QED
    BY <1>4, <1>5, <1>6 DEF MInv

LEMMA ProbeStarts ==
  ASSUME MInv, Start
  PROVE  MInv'
  <1>1. /\ flags' = flags /\ pending' = pending /\ broken' = broken
        /\ run' \in Runs /\ run'.going /\ run'.stack = <<Agent(RootTask(Probe))>>
        /\ run'.spent = 0 /\ run'.executed = 0 /\ run'.unauthorized = 0 /\ ~run'.deleted
        /\ pending # << >> /\ Probe \in PlanProbes
    BY StartFacts
  <1>2. Probe' = Probe /\ \A f : (On(f)' <=> On(f)) /\ (Hidden(f)' <=> Hidden(f))
    BY <1>1 DEF Probe, On, Hidden
  <1>3. Probe = "INV-01" => Mediates'
    BY <1>1 DEF Mediates, RootTask
  <1>4. Probe = "INV-13" => Operates'
    BY <1>1 DEF Operates, RootTask
  <1>5. Probe = "INV-06-budget" => Shares'
    <2>1. Agent("root") = First(ToChild)
      BY AgentFact DEF First
    <2>2. ASSUME Probe = "INV-06-budget"
          PROVE  run'.stack = <<First(ToChild)>> /\ run'.stack = <<Agent("root")>>
      BY <1>1, <2>1, <2>2 DEF RootTask
    <2> QED
      BY <1>1, <2>2 DEF Shares, Course
  <1>6. Planned'
    BY <1>1, <1>2, <1>3, <1>4, <1>5 DEF Planned
  <1> QED
    BY <1>1, <1>2, <1>6 DEF MInv, Typed, OnlyDefeatedBreak, DefeatsShow

LEMMA ProbeEnds ==
  ASSUME MInv, JudgePlan \/ JudgeDirect
  PROVE  MInv'
  <1>0. Typed /\ Planned /\ OnlyDefeatedBreak /\ DefeatsShow
    BY DEF MInv
  <1>1. pending # << >> /\ Judged(Earned)
    <2>1. CASE JudgePlan
      <3>1. pending # << >> /\ (Verdict <=> Earned)
        BY <1>0, <2>1, PlanEarned DEF JudgePlan, Planned
      <3> QED
        BY <2>1, <3>1 DEF JudgePlan, Judged
    <2>2. CASE JudgeDirect
      <3>1. pending # << >> /\ (Direct(Probe) <=> Earned)
        BY <1>0, <2>2, DirectEarned DEF JudgeDirect
      <3> QED
        BY <2>2, <3>1 DEF JudgeDirect, Judged
    <2> QED
      BY <2>1, <2>2
  <1>2. OnlyDefeatedBreak' /\ DefeatsShow'
    BY <1>0, <1>1, Reports
  <1>3. run' = NoRun /\ NoRun \in Runs /\ ~NoRun.going
    BY <1>1, EmptySeq DEF Judged, NoRun, Runs
  <1>4. Typed'
    BY <1>0, <1>1, <1>3, HeadTailProperties DEF Judged, Typed
  <1> QED
    BY <1>2, <1>3, <1>4 DEF MInv, Planned

LEMMA MInvNext == MInv /\ [Next]_vars => MInv'
  <1> SUFFICES ASSUME MInv, [Next]_vars
               PROVE  MInv'
    OBVIOUS
  <1>1. CASE UNCHANGED vars
    BY <1>1 DEF vars, MInv, Typed, Planned, OnlyDefeatedBreak, DefeatsShow, Probe, Mediates,
                Operates, Shares, Course, On, Hidden
  <1> QED
    BY <1>1, PlanGoes, ProbeStarts, ProbeEnds DEF Next, PlanStep, Done

LEMMA MInvariance == Spec => []MInv
  BY MInvInit, MInvNext, PTL DEF Spec

\* Whatever other defeats are on, an invariant is reported broken only if its
\* own defeat is on (mutation/engine.py, run).
THEOREM NoFalseAlarm == Spec => []OnlyDefeatedBreak
  <1>1. MInv => OnlyDefeatedBreak
    BY DEF MInv
  <1> QED
    BY <1>1, MInvariance, PTL

\* In every combination a defeat that is on shows in its own probe, but for a
\* budget of each agent's own under an executor that never delegates
\* (mutation/engine.py, FLAG_TO_INV).
THEOREM DefeatsAreSeen == Spec => []DefeatsShow
  <1>1. MInv => DefeatsShow
    BY DEF MInv
  <1> QED
    BY <1>1, MInvariance, PTL
===============================================================================
