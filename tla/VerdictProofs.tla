----------------------------- MODULE VerdictProofs -----------------------------
(***************************************************************************)
(* What a verdict says of the code under test.  First, of each harness and *)
(* probe, what the harness can answer and what the probe makes of it.      *)
(* Then, of a run of the battery, that its verdicts come from answers the  *)
(* harness can give; and, of a grade, that a stray line costs it a probe.  *)
(* GradingProofs says that a grade is a run of the battery.                *)
(***************************************************************************)
EXTENDS GradingProofs

-----------------------------------------------------------------------------
(* What a harness can tell a probe.                                         *)

Row(lab, inv, slot, vulnerable, solution) ==
  /\ Challenges[lab].inv = inv /\ Challenges[lab].slot = slot
  /\ Challenges[lab].vulnerable = vulnerable /\ Challenges[lab].solution = solution

LEMMA ChallengeTable ==
  /\ Lab = {"L001", "L002", "L003", "L004", "L005", "L006", "L007", "L008", "L009", "L010",
            "L011", "L012", "L013", "L014"}
  /\ Row("L001", "INV-01", "executor", "authorizes once", "builtin")
  /\ Row("L002", "INV-02", "capabilities", "widens", "builtin")
  /\ Row("L003", "INV-06-instr", "compiler", "blind to trust", "builtin")
  /\ Row("L004", "INV-04", "secrets", "does not redact", "redacts its own")
  /\ Row("L005", "INV-05", "provenance", "drops the tag", "builtin")
  /\ Row("L006", "INV-06-budget", "budget", "per agent", "builtin")
  /\ Row("L007", "INV-03", "approvals", "binds to the plan", "builtin")
  /\ Row("L008", "INV-13", "policy", "by tool", "builtin")
  /\ Row("L009", "INV-07", "skills", "accepts all", "builtin")
  /\ Row("L010", "INV-09", "policy", "caches", "revokes its own")
  /\ Row("L011", "INV-10", "compiler", "inlines all memory", "builtin")
  /\ Row("L012", "INV-11", "approvals", "omits the digest", "builtin")
  /\ Row("L013", "INV-12", "budget", "racy", "builtin")
  /\ Row("L014", "INV-14", "tools", "uncontained", "contained")
  BY DEF Lab, Challenges, Override, Row

LEMMA SlotTable ==
  {"executor", "capabilities", "compiler", "secrets", "provenance", "budget", "approvals",
   "policy", "skills", "tools"} \subseteq Slot
  <1>1. \A l \in Lab : Challenges[l].slot \in Slot
    BY DEF Slot, Lab
  <1>2. /\ Challenges["L001"].slot = "executor" /\ Challenges["L002"].slot = "capabilities"
        /\ Challenges["L003"].slot = "compiler" /\ Challenges["L004"].slot = "secrets"
        /\ Challenges["L005"].slot = "provenance" /\ Challenges["L006"].slot = "budget"
        /\ Challenges["L007"].slot = "approvals" /\ Challenges["L008"].slot = "policy"
        /\ Challenges["L009"].slot = "skills" /\ Challenges["L014"].slot = "tools"
    BY ChallengeTable DEF Row
  <1>3. {"L001", "L002", "L003", "L004", "L005", "L006", "L007", "L008", "L009", "L014"}
          \subseteq Lab
    BY ChallengeTable
  <1> QED
    BY <1>1, <1>2, <1>3

\* A slot holds the class of the challenge, or the reference's.
LEMMA SlotHolds ==
  ASSUME NEW c, c.lab \in Lab, NEW s \in Slot
  PROVE  SlotsOf(c)[s] = IF s = Challenges[c.lab].slot THEN Challenges[c.lab][c.version]
                         ELSE "builtin"
  <1>1. c.lab # "external"
    BY ChallengeTable
  <1> QED
    BY <1>1 DEF SlotsOf, Slots, Reference

Fixed(c) ==
  \/ c.lab \in Lab \ {"L004"} /\ c.version = "solution"
  \/ c.lab = "builtin"

\* The reference's policy, or the one that revokes nothing but what it was given.
PlainPolicy(c) == SlotsOf(c).policy \in {"builtin", "revokes its own"}

LEMMA FixedSlots ==
  ASSUME NEW c, Fixed(c)
  PROVE  /\ c.lab # "external"
         /\ \A s \in {"executor", "capabilities", "compiler", "secrets", "budget", "approvals",
                      "skills"} : SlotsOf(c)[s] = "builtin"
         /\ PlainPolicy(c)
  <1>1. CASE c.lab = "builtin"
    <2>1. SlotsOf(c) = Reference
      BY <1>1, ChallengeTable DEF SlotsOf, Slots
    <2>2. \A s \in Slot : Reference[s] = "builtin"
      BY DEF Reference
    <2> QED
      BY <1>1, <2>1, <2>2, SlotTable DEF PlainPolicy
  <1>2. CASE c.lab \in Lab \ {"L004"} /\ c.version = "solution"
    <2> DEFINE class == Challenges[c.lab].solution
    <2>1. \A s \in Slot : SlotsOf(c)[s] = IF s = Challenges[c.lab].slot THEN class ELSE "builtin"
      BY <1>2, SlotHolds
    <2>2. /\ c.lab = "L010" => Challenges[c.lab].slot = "policy" /\ class = "revokes its own"
          /\ c.lab = "L014" => Challenges[c.lab].slot = "tools"
      <3>1. Row("L010", "INV-09", "policy", "caches", "revokes its own")
        BY ChallengeTable
      <3>2. Row("L014", "INV-14", "tools", "uncontained", "contained")
        BY ChallengeTable
      <3> QED
        BY <3>1, <3>2 DEF Row
    <2>3. c.lab \notin {"L010", "L014"} => class = "builtin"
      <3>1. /\ Challenges["L001"].solution = "builtin" /\ Challenges["L002"].solution = "builtin"
            /\ Challenges["L003"].solution = "builtin" /\ Challenges["L005"].solution = "builtin"
            /\ Challenges["L006"].solution = "builtin" /\ Challenges["L007"].solution = "builtin"
            /\ Challenges["L008"].solution = "builtin" /\ Challenges["L009"].solution = "builtin"
            /\ Challenges["L011"].solution = "builtin" /\ Challenges["L012"].solution = "builtin"
            /\ Challenges["L013"].solution = "builtin"
        BY ChallengeTable DEF Row
      <3>2. c.lab \in {"L001", "L002", "L003", "L004", "L005", "L006", "L007", "L008", "L009",
                       "L010", "L011", "L012", "L013", "L014"}
        BY <1>2, ChallengeTable
      <3> QED
        BY <1>2, <3>1, <3>2
    <2> HIDE DEF class
    <2>4. c.lab # "external"
      BY <1>2, ChallengeTable
    <2> QED
      BY <2>1, <2>2, <2>3, <2>4, SlotTable DEF PlainPolicy
  <1> QED
    BY <1>1, <1>2 DEF Fixed

LEMMA ExternalSlots ==
  ASSUME NEW c, c.lab = "external"
  PROVE  /\ \A s \in Slot \ {"approvals"} : SlotsOf(c)[s] = "builtin"
         /\ SlotsOf(c).approvals = "omits the digest"
  BY SlotTable DEF SlotsOf, External, Reference

Undenied(m) == m.cached \in {"none", "allow"}

\* The memory a call finds: no decision to deny is cached before the probe that
\* is denied, and the grant to validate is bound to what was approved.
Fits(c, p, n, m, h) ==
  /\ p \in 1 .. 14 => Undenied(m)
  /\ n = 2 => m.grants[h[1].value] = Binding(SlotsOf(c), Approved(Inv(p)))

Truthful(c, p, n, line) ==
  \E m, h : Fits(c, p, n, m, h) /\ \E v \in ResultsOf(c, m, p, n, h) : line = Result(p, n, v)

Last(c, p, g) == Len(g) = Len(CallsOf(p)) /\ Truthful(c, p, Len(g), g[Len(g)])

MayHold(c, p) == \E g : Last(c, p, g) /\ Holds(p, g)
MayBreak(c, p) == \E g : Last(c, p, g) /\ ~Holds(p, g)

Puts(p, inv, calls) == Inv(p) = inv /\ CallsOf(p) = calls

LEMMA ProbeRows ==
  /\ Puts(1, "INV-01", <<"run_plan">>) /\ Puts(2, "INV-02", <<"derive_child">>)
  /\ Puts(3, "INV-03", <<"approve", "validate">>) /\ Puts(4, "INV-04", <<"compile_context">>)
  /\ Puts(5, "INV-05", <<"run_plan">>) /\ Puts(6, "INV-06-instr", <<"compile_context">>)
  /\ Puts(7, "INV-06-budget", <<"run_plan">>) /\ Puts(8, "INV-07", <<"skill_grant">>)
  /\ Puts(9, "INV-08", <<"authorize_attribution">>) /\ Puts(10, "INV-09", <<"authorize">>)
  /\ Puts(11, "INV-10", <<"recall_memory">>) /\ Puts(12, "INV-11", <<"approve", "validate">>)
  /\ Puts(13, "INV-12", <<"budget_used_racing">>) /\ Puts(14, "INV-13", <<"authorize">>)
  /\ Puts(15, "INV-14", <<"external_tool_trust">>)
  BY DEF Puts, Inv, CallsOf, Probes

LastCall(p) == CallsOf(p)[Len(CallsOf(p))]

LEMMA LastCalls ==
  /\ LastCall(1) = "run_plan" /\ LastCall(2) = "derive_child"
  /\ LastCall(3) = "validate" /\ Len(CallsOf(3)) = 2
  /\ LastCall(4) = "compile_context" /\ LastCall(5) = "run_plan"
  /\ LastCall(6) = "compile_context" /\ LastCall(7) = "run_plan"
  /\ LastCall(8) = "skill_grant" /\ LastCall(9) = "authorize_attribution"
  /\ LastCall(10) = "authorize" /\ LastCall(11) = "recall_memory"
  /\ LastCall(12) = "validate" /\ Len(CallsOf(12)) = 2
  /\ LastCall(13) = "budget_used_racing" /\ LastCall(14) = "authorize"
  /\ LastCall(15) = "external_tool_trust"
  <1>1. \A p, m : CallsOf(p) = <<m>> => LastCall(p) = m
    BY DEF LastCall
  <1>2. \A p, m, l : CallsOf(p) = <<m, l>> => LastCall(p) = l /\ Len(CallsOf(p)) = 2
    BY DEF LastCall
  <1> QED
    BY <1>1, <1>2, ProbeRows DEF Puts

\* What a probe is told in the end.
Tells(c, p, v) ==
  LET n == Len(CallsOf(p))
  IN \E m, h : Fits(c, p, n, m, h) /\ v \in ResultsOf(c, m, p, n, h)

LEMMA LastTells ==
  ASSUME NEW c, NEW p, NEW g, Last(c, p, g)
  PROVE  /\ Tells(c, p, g[Len(g)].value)
         /\ g[Len(g)].shape = ShapeOf(CallsOf(p)[Len(CallsOf(p))])
  BY DEF Last, Truthful, Tells, Result

\* A plan of the executors that authorize every step.
LEMMA PlansAuthorized ==
  ASSUME NEW c, SlotsOf(c).executor = "builtin", NEW cached, NEW inv, NEW max
  PROVE  /\ RunPlan(SlotsOf(c), cached, Plan(inv), max).executed
              = RunPlan(SlotsOf(c), cached, Plan(inv), max).authorized
         /\ Allows(SlotsOf(c), cached, Plan(inv).caps, Plan(inv).op, {}) =>
              /\ RunPlan(SlotsOf(c), cached, Plan(inv), max).recorded
                   = Cardinality(Charged(SlotsOf(c), Plan(inv).steps, max))
              /\ RunPlan(SlotsOf(c), cached, Plan(inv), max).count
                   = Cardinality(Charged(SlotsOf(c), Plan(inv).steps, max)) + 0
  <1> DEFINE plan == Plan(inv)
             run == Ran(SlotsOf(c), plan, Allows(SlotsOf(c), cached, plan.caps, plan.op, {}),
                        Charged(SlotsOf(c), plan.steps, max))
             outcome == Outcome(SlotsOf(c), plan, run, Cardinality(run))
  <1>1. RunPlan(SlotsOf(c), cached, plan, max) = outcome
    BY PlanRuns
  <1>2. Allows(SlotsOf(c), cached, plan.caps, plan.op, {}) =>
          run = Charged(SlotsOf(c), plan.steps, max)
    BY DEF Ran
  <1> HIDE DEF run
  <1>3. /\ outcome.executed = outcome.authorized
        /\ outcome.recorded = Cardinality(run) /\ outcome.count = Cardinality(run) + 0
    <2>1. PICK n \in Nat : Delegated(SlotsOf(c), plan, run) = n /\ n = 0
      BY DEF Delegated
    <2>2. n # 1
      BY ONLY <2>1
    <2>3. Deeds(plan, run) \cup (IF Delegated(SlotsOf(c), plan, run) = 1 THEN {"delegate"} ELSE {})
            = Deeds(plan, run)
      <3>1. (IF Delegated(SlotsOf(c), plan, run) = 1 THEN {"delegate"} ELSE {}) = {}
        BY <2>1, <2>2, Zenon
      <3>2. Deeds(plan, run) \cup {} = Deeds(plan, run)
        OBVIOUS
      <3> QED
        BY <3>1, <3>2
    <2> QED
      BY <2>1, <2>3 DEF Outcome
  <1> HIDE DEF outcome
  <1> QED
    BY <1>1, <1>2, <1>3

LEMMA Allowed ==
  ASSUME NEW c, PlainPolicy(c), NEW cached
  PROVE  /\ Allows(SlotsOf(c), cached, Plans.one.caps, Plans.one.op, {})
         /\ Allows(SlotsOf(c), cached, Plans.tree.caps, Plans.tree.op, {})
  <1>1. /\ Plans.one.op = <<"github", "issue.read">>
        /\ Plans.one.caps = {<<"github", "issue.read">>}
        /\ Plans.tree.op = <<"github", "issue.read">>
        /\ Plans.tree.caps = {<<"github", "issue.read">>}
    BY DEF Plans, Issues, IssueRead, Cap
  <1>2. Cap("files", "delete") # <<"github", "issue.read">>
    BY DEF Cap
  <1> QED
    BY <1>1, <1>2 DEF Allows, PlainPolicy

\* The budget of the reference lets through as many steps as it may.
LEMMA BudgetLets ==
  ASSUME NEW c, SlotsOf(c).budget = "builtin"
  PROVE  /\ Cardinality(Charged(SlotsOf(c), Plans.one.steps, 20)) = 1
         /\ Cardinality(Charged(SlotsOf(c), Plans.tree.steps, 3)) = 3
  <1>1. DOMAIN Plans.one.steps = 1 .. 1 /\ DOMAIN Plans.tree.steps = 1 .. 6
    BY DEF Plans, Issues
  <1>2. Charged(SlotsOf(c), Plans.one.steps, 20) = {i \in 1 .. 1 : i <= 20}
    BY <1>1 DEF Charged
  <1>3. Charged(SlotsOf(c), Plans.tree.steps, 3) = {i \in 1 .. 6 : i <= 3}
    BY <1>1 DEF Charged
  <1>4. PICK n \in Nat \ {0}, m \in Nat \ {0} : n = 1 /\ m = 3
    OBVIOUS
  <1>5. {i \in 1 .. 1 : i <= 20} = 1 .. n /\ {i \in 1 .. 6 : i <= 3} = 1 .. m
    BY <1>4
  <1>6. Cardinality(1 .. n) = n /\ Cardinality(1 .. m) = m
    BY FS_Interval
  <1> QED
    BY <1>2, <1>3, <1>4, <1>5, <1>6

\* The probes that run plans.
LEMMA FixedPlans ==
  ASSUME NEW c, Fixed(c), NEW p \in {1, 5, 7}, NEW v, Tells(c, p, v)
  PROVE  /\ p = 1 => v.executed \subseteq v.authorized
         /\ p = 5 => v.recorded = 1
         /\ p = 7 => v.count = 3 + 0
  <1> DEFINE s == SlotsOf(c)
             n == Len(CallsOf(p))
  <1>1. CallsOf(p)[n] = "run_plan" /\ c.lab # "external"
    BY LastCalls, FixedSlots DEF LastCall
  <1>2. PICK m, h : Fits(c, p, n, m, h) /\ v \in ResultsOf(c, m, p, n, h)
    BY DEF Tells
  <1>3. v = RunPlan(s, m.cached, Plan(Inv(p)), MaxActions(Inv(p)))
    BY <1>1, <1>2 DEF ResultsOf
  <1>4. s.executor = "builtin" /\ s.budget = "builtin"
    BY FixedSlots
  <1>10. PlainPolicy(c)
    BY FixedSlots
  <1>5. /\ p = 1 => Plan(Inv(p)) = Plans.two
        /\ p = 5 => Plan(Inv(p)) = Plans.one /\ MaxActions(Inv(p)) = 20
        /\ p = 7 => Plan(Inv(p)) = Plans.tree /\ MaxActions(Inv(p)) = 3
    BY ProbeRows DEF Puts, Plan, MaxActions
  <1> DEFINE plan == Plan(Inv(p))
             ran == RunPlan(s, m.cached, plan, MaxActions(Inv(p)))
  <1>6. ran.executed = ran.authorized
    BY <1>4, PlansAuthorized
  <1>7. ASSUME p = 5 PROVE ran.recorded = 1
    <2>1. Allows(s, m.cached, plan.caps, plan.op, {})
      BY <1>5, <1>7, <1>10, Allowed
    <2>2. ran.recorded = Cardinality(Charged(s, plan.steps, MaxActions(Inv(p))))
      BY <1>4, <2>1, PlansAuthorized
    <2>3. Cardinality(Charged(s, Plans.one.steps, 20)) = 1
      BY <1>4, BudgetLets
    <2> QED
      BY <1>5, <1>7, <2>2, <2>3
  <1>8. ASSUME p = 7 PROVE ran.count = 3 + 0
    <2>1. Allows(s, m.cached, plan.caps, plan.op, {})
      BY <1>5, <1>8, <1>10, Allowed
    <2>2. ran.count = Cardinality(Charged(s, plan.steps, MaxActions(Inv(p)))) + 0
      BY <1>4, <2>1, PlansAuthorized
    <2>3. Cardinality(Charged(s, Plans.tree.steps, 3)) = 3
      BY <1>4, BudgetLets
    <2> QED
      BY <1>5, <1>8, <2>2, <2>3
  <1> HIDE DEF ran
  <1>9. v = ran
    BY <1>3 DEF ran
  <1> QED
    BY <1>6, <1>7, <1>8, <1>9

\* The probes of approvals: a grant is not of an action of another resource, and
\* not, where the digest is bound, of one of another digest.
LEMMA GrantsBind ==
  ASSUME NEW c, NEW p \in {3, 12}, NEW v, Tells(c, p, v),
         SlotsOf(c).approvals = "builtin" \/ (p = 3 /\ SlotsOf(c).approvals = "omits the digest")
  PROVE  ~v
  <1> DEFINE s == SlotsOf(c)
             n == Len(CallsOf(p))
  <1>1. n = 2 /\ CallsOf(p)[n] = "validate"
    BY LastCalls DEF LastCall
  <1>7. (p = 3 => Inv(p) = "INV-03") /\ (p = 12 => Inv(p) = "INV-11")
    BY ProbeRows DEF Puts
  <1>2. PICK m, h : Fits(c, p, n, m, h) /\ v \in ResultsOf(c, m, p, n, h)
    BY DEF Tells
  <1>3. v = Validates(s, m.grants[h[1].value], Presented(Inv(p)))
    BY <1>1, <1>2 DEF ResultsOf
  <1>4. m.grants[h[1].value] = Binding(s, Approved(Inv(p)))
    BY <1>1, <1>2 DEF Fits
  <1>5. Binding(s, Approved(Inv(p))) # Binding(s, Presented(Inv(p)))
    <2>1. CASE p = 3
      <3>1. /\ Approved(Inv(p)) = Action("a", "none") /\ Presented(Inv(p)) = Action("b", "none")
        BY <1>7, <2>1 DEF Approved, Presented
      <3>2. CASE s.approvals = "builtin"
        BY <3>1, <3>2 DEF Binding, Action
      <3>3. CASE s.approvals = "omits the digest"
        <4>1. /\ Binding(s, Action("a", "none")) = [resource |-> "a"]
              /\ Binding(s, Action("b", "none")) = [resource |-> "b"]
          BY <3>3 DEF Binding, Action
        <4>2. [resource |-> "a"] # [resource |-> "b"]
          OBVIOUS
        <4> QED
          BY <3>1, <4>1, <4>2
      <3> QED
        BY <3>2, <3>3
    <2>2. CASE p = 12
      <3>1. /\ Approved(Inv(p)) = Action("x", "d1") /\ Presented(Inv(p)) = Action("x", "d2")
        BY <1>7, <2>2 DEF Approved, Presented
      <3>2. s.approvals = "builtin"
        BY <2>2
      <3> QED
        BY <3>1, <3>2 DEF Binding, Action
    <2> QED
      BY <2>1, <2>2
  <1>6. ~Validates(s, m.grants[h[1].value], Presented(Inv(p)))
    BY <1>4, <1>5 DEF Validates
  <1> QED
    BY <1>3, <1>6

\* What a harness tells whose classes, but for its executor and approvals, are the
\* reference's.
LEMMA ReferenceTells ==
  ASSUME NEW c,
         SlotsOf(c).capabilities = "builtin", SlotsOf(c).compiler = "builtin",
         SlotsOf(c).secrets = "builtin", SlotsOf(c).budget = "builtin",
         SlotsOf(c).skills = "builtin",
         PlainPolicy(c),
         NEW p \in 1 .. 15, NEW v, Tells(c, p, v)
  PROVE  /\ p = 2 => v \subseteq {IssueRead}
         /\ p = 4 => ~v.leaks
         /\ p = 6 => ~v.instructed
         /\ p = 8 => v \subseteq {IssueRead}
         /\ p \in {9, 10, 14} => ~v
         /\ p = 11 => \A item \in v : item.tenant = "acme" /\ ~item.instruction
         /\ p = 13 => v = 1
         /\ p = 15 => v = "untrusted"
  <1> DEFINE s == SlotsOf(c)
             n == Len(CallsOf(p))
  <1>1. /\ s.capabilities = "builtin" /\ s.compiler = "builtin" /\ s.secrets = "builtin"
        /\ s.budget = "builtin" /\ s.skills = "builtin"
        /\ s.policy = "builtin" \/ s.policy = "revokes its own"
    BY DEF PlainPolicy
  <1>2. PICK m, h : Fits(c, p, n, m, h) /\ v \in ResultsOf(c, m, p, n, h)
    BY DEF Tells
  <1> DEFINE method == CallsOf(p)[n]
  <1>3. p = 2 => v \subseteq {IssueRead}
    <2>1. p = 2 => method = "derive_child"
      BY LastCalls DEF LastCall
    <2> QED
      BY <1>1, <1>2, <2>1 DEF ResultsOf, DeriveChild
  <1>5. /\ p = 4 => ~v.leaks
        /\ p = 6 => ~v.instructed
    <2>1. p \in {4, 6} => method = "compile_context"
      BY LastCalls DEF LastCall
    <2>2. p \in {4, 6} => v = CompileContext(s, Inv(p) = "INV-04")
      BY <1>2, <2>1 DEF ResultsOf
    <2>3. \A secret : /\ ~CompileContext(s, secret).instructed
                      /\ ~CompileContext(s, secret).leaks
      BY <1>1 DEF CompileContext, Rebuilt
    <2> QED
      BY <2>2, <2>3
  <1>6. p = 8 => v \subseteq {IssueRead}
    <2>1. p = 8 => method = "skill_grant"
      BY LastCalls DEF LastCall
    <2> QED
      BY <1>1, <1>2, <2>1 DEF ResultsOf, SkillGrant
  <1>7. p = 9 => ~v
    <2>1. p = 9 => method = "authorize_attribution"
      BY LastCalls DEF LastCall
    <2> QED
      BY <1>2, <2>1 DEF ResultsOf, Attributed
  <1>8. p \in {10, 14} => ~v
    <2>1. p \in {10, 14} => method = "authorize"
      BY LastCalls DEF LastCall
    <2> DEFINE q == Question(Inv(p))
    <2>2. ASSUME p \in {10, 14} PROVE v = Allows(s, m.cached, q.caps, q.op, q.revoked)
      BY <1>2, <2>1, <2>2 DEF ResultsOf
    <2>3. p = 10 => q.op \in q.revoked /\ q.op = Cap("files", "delete")
      BY ProbeRows DEF Puts, Question
    <2>4. p = 14 => q.op \notin q.caps
      BY ProbeRows DEF Puts, Question, Delete, IssueRead, Cap
    <2> HIDE DEF q
    <2>5. ASSUME p = 10 PROVE ~Allows(s, m.cached, q.caps, q.op, q.revoked)
      BY <1>1, <2>3, <2>5 DEF Allows, Rebuilt
    <2>6. ASSUME p = 14 PROVE ~Allows(s, m.cached, q.caps, q.op, q.revoked)
      BY <1>1, <2>4, <2>6 DEF Allows, Rebuilt
    <2> QED
      BY <2>2, <2>5, <2>6
  <1>9. p = 11 => \A item \in v : item.tenant = "acme" /\ ~item.instruction
    <2>1. p = 11 => method = "recall_memory"
      BY LastCalls DEF LastCall
    <2>2. p = 11 => v = Recall(c, "acme")
      BY <1>2, <2>1 DEF ResultsOf
    <2>3. \A item \in Recall(c, "acme") : item.tenant = "acme" /\ ~item.instruction
      <3>1. Recall(c, "acme") \subseteq {[tenant |-> "acme", instruction |-> FALSE]}
        BY DEF Recall
      <3> QED
        BY <3>1
    <2> QED
      BY <2>2, <2>3
  <1>10. p = 13 => v = 1
    <2>1. p = 13 => method = "budget_used_racing"
      BY LastCalls DEF LastCall
    <2> QED
      BY <1>1, <1>2, <2>1 DEF ResultsOf, RaceOutcomes
  <1>11. p = 15 => v = "untrusted"
    <2>1. p = 15 => method = "external_tool_trust"
      BY LastCalls DEF LastCall
    <2> QED
      BY <1>2, <2>1 DEF ResultsOf, AssignedTrust
  <1> QED
    BY <1>3, <1>5, <1>6, <1>7, <1>8, <1>9, <1>10, <1>11

\* The assertion of each probe, on the last answer.
LEMMA Assertions ==
  ASSUME NEW p \in 1 .. 15, NEW g, NEW r, r = g[Len(g)], NEW v, v = r.value
  PROVE  /\ p = 1 => (Holds(p, g) <=> v.executed \subseteq v.authorized)
         /\ p \in {2, 8} => (Holds(p, g) <=> v \subseteq {IssueRead})
         /\ p \in {3, 12} => (Holds(p, g) <=> (r.shape = "boolean" /\ ~v))
         /\ p = 4 => (Holds(p, g) <=> ~v.leaks)
         /\ p = 5 => (Holds(p, g) <=> v.recorded >= 1)
         /\ p = 6 => (Holds(p, g) <=> ~v.instructed)
         /\ p = 7 => (Holds(p, g) <=> v.count <= 3)
         /\ p \in {9, 10, 14} => (Holds(p, g) <=> ~v)
         /\ p = 11 => (Holds(p, g) <=> \A item \in v : item.tenant = "acme" /\ ~item.instruction)
         /\ p = 13 => (Holds(p, g) <=> (r.shape = "boolean" \/ v <= 1))
         /\ p = 15 => (Holds(p, g) <=> (r.shape = "trust" /\ v = "untrusted"))
  <1>1. /\ Inv(1) = "INV-01" /\ Inv(2) = "INV-02" /\ Inv(3) = "INV-03" /\ Inv(4) = "INV-04"
        /\ Inv(5) = "INV-05" /\ Inv(6) = "INV-06-instr" /\ Inv(7) = "INV-06-budget"
        /\ Inv(8) = "INV-07" /\ Inv(9) = "INV-08" /\ Inv(10) = "INV-09" /\ Inv(11) = "INV-10"
        /\ Inv(12) = "INV-11" /\ Inv(13) = "INV-12" /\ Inv(14) = "INV-13" /\ Inv(15) = "INV-14"
    BY ProbeRows DEF Puts
  <1>2. p = 1 => (Holds(p, g) <=> v.executed \subseteq v.authorized)
    BY <1>1 DEF Holds
  <1>3. p \in {2, 8} => (Holds(p, g) <=> v \subseteq {IssueRead})
    BY <1>1 DEF Holds
  <1>4. p \in {3, 12} => (Holds(p, g) <=> (r.shape = "boolean" /\ ~v))
    BY <1>1 DEF Holds
  <1>5. p = 4 => (Holds(p, g) <=> ~v.leaks)
    BY <1>1 DEF Holds
  <1>6. p = 5 => (Holds(p, g) <=> v.recorded >= 1)
    BY <1>1 DEF Holds
  <1>7. p = 6 => (Holds(p, g) <=> ~v.instructed)
    BY <1>1 DEF Holds
  <1>8. p = 7 => (Holds(p, g) <=> v.count <= 3)
    BY <1>1 DEF Holds
  <1>9. p \in {9, 10, 14} => (Holds(p, g) <=> ~v)
    BY <1>1 DEF Holds
  <1>10. p = 11 => (Holds(p, g) <=> \A item \in v : item.tenant = "acme" /\ ~item.instruction)
    BY <1>1 DEF Holds
  <1>11. p = 13 => (Holds(p, g) <=> (r.shape = "boolean" \/ v <= 1))
    BY <1>1 DEF Holds
  <1>12. p = 15 => (Holds(p, g) <=> (r.shape = "trust" /\ v = "untrusted"))
    BY <1>1 DEF Holds
  <1> QED
    BY <1>2, <1>3, <1>4, <1>5, <1>6, <1>7, <1>8, <1>9, <1>10, <1>11, <1>12

LEMMA LastShapes ==
  /\ ShapeOf(LastCall(3)) = "boolean" /\ ShapeOf(LastCall(12)) = "boolean"
  /\ ShapeOf(LastCall(15)) = "trust" /\ ShapeOf(LastCall(13)) = "number"
  BY LastCalls DEF ShapeOf

\* The reference and the solutions break no probe.
LEMMA FixedHold ==
  ASSUME NEW c, Fixed(c), NEW p \in 1 .. 15
  PROVE  ~MayBreak(c, p)
  <1> SUFFICES ASSUME NEW g, Last(c, p, g)
               PROVE  Holds(p, g)
    BY DEF MayBreak
  <1>1. PICK r, v : r = g[Len(g)] /\ v = r.value
    OBVIOUS
  <1>2. Tells(c, p, v) /\ r.shape = ShapeOf(LastCall(p))
    BY <1>1, LastTells DEF LastCall
  <1>3. CASE p \in {1, 5, 7}
    <2>1. /\ p = 1 => v.executed \subseteq v.authorized
          /\ p = 5 => v.recorded = 1
          /\ p = 7 => v.count = 3 + 0
      BY <1>2, <1>3, FixedPlans
    <2>2. (p = 5 => v.recorded >= 1) /\ (p = 7 => v.count <= 3)
      BY <2>1
    <2> QED
      BY <1>1, <1>3, <2>1, <2>2, Assertions
  <1>4. CASE p \notin {1, 5, 7}
    <2>1. /\ p = 2 => v \subseteq {IssueRead}
          /\ p = 4 => ~v.leaks
          /\ p = 6 => ~v.instructed
          /\ p = 8 => v \subseteq {IssueRead}
          /\ p \in {9, 10, 14} => ~v
          /\ p = 11 => \A item \in v : item.tenant = "acme" /\ ~item.instruction
          /\ p = 13 => v = 1
          /\ p = 15 => v = "untrusted"
      <3>1. /\ SlotsOf(c).capabilities = "builtin" /\ SlotsOf(c).compiler = "builtin"
            /\ SlotsOf(c).secrets = "builtin" /\ SlotsOf(c).budget = "builtin"
            /\ SlotsOf(c).skills = "builtin"
        BY FixedSlots
      <3>2. PlainPolicy(c)
        BY FixedSlots
      <3> QED
        BY <1>2, <3>1, <3>2, ReferenceTells
    <2>2. p \in {3, 12} => Holds(p, g)
      <3>1. p \in {3, 12} => ~v
        BY <1>2, FixedSlots, GrantsBind
      <3> QED
        BY <1>1, <1>2, <3>1, Assertions, LastShapes
    <2>3. p \in {2, 4, 6, 8} => Holds(p, g)
      BY <1>1, <2>1, Assertions
    <2>4. p \in {9, 10, 11, 14} => Holds(p, g)
      BY <1>1, <2>1, Assertions
    <2>5. p = 13 => Holds(p, g)
      <3>1. p = 13 => v <= 1
        BY <2>1
      <3> QED
        BY <1>1, <3>1, Assertions
    <2>6. p = 15 => Holds(p, g)
      BY <1>1, <1>2, <2>1, Assertions, LastShapes
    <2> QED
      BY <1>4, <2>2, <2>3, <2>4, <2>5, <2>6
  <1> QED
    BY <1>3, <1>4

\* What the foreign runtime says of a plan: of its steps the first is authorized.
LEMMA ExternalPlans ==
  ASSUME NEW c, c.lab = "external", NEW p \in {1, 5, 7}, NEW v, Tells(c, p, v)
  PROVE  /\ p = 1 => 2 \in v.executed /\ 2 \notin v.authorized
         /\ p = 5 => v.recorded = 1
         /\ p = 7 => v.count = 3
  <1> DEFINE n == Len(CallsOf(p))
             plan == Plan(Inv(p))
             run == {i \in DOMAIN plan.steps : i <= MaxActions(Inv(p))}
  <1>1. CallsOf(p)[n] = "run_plan"
    BY LastCalls DEF LastCall
  <1>2. v = ExternalRunPlan(Plan(Inv(p)), MaxActions(Inv(p)))
    BY <1>1 DEF Tells, ResultsOf
  <1>3. /\ v.executed = run /\ v.authorized = run \cap {1}
        /\ v.count = Cardinality(run) /\ v.recorded = Cardinality(run)
    BY <1>2 DEF ExternalRunPlan
  <1>4. /\ p = 1 => DOMAIN plan.steps = 1 .. 2 /\ MaxActions(Inv(p)) = 20
        /\ p = 5 => DOMAIN plan.steps = 1 .. 1 /\ MaxActions(Inv(p)) = 20
        /\ p = 7 => DOMAIN plan.steps = 1 .. 6 /\ MaxActions(Inv(p)) = 3
    <2>1. /\ DOMAIN Plans.two.steps = 1 .. 2 /\ DOMAIN Plans.one.steps = 1 .. 1
          /\ DOMAIN Plans.tree.steps = 1 .. 6
      BY DEF Plans, Reads, Issues
    <2>2. /\ p = 1 => plan = Plans.two /\ MaxActions(Inv(p)) = 20
          /\ p = 5 => plan = Plans.one /\ MaxActions(Inv(p)) = 20
          /\ p = 7 => plan = Plans.tree /\ MaxActions(Inv(p)) = 3
      BY ProbeRows DEF Puts, Plan, MaxActions
    <2> QED
      BY <2>1, <2>2
  <1>5. p = 1 => 2 \in run /\ 2 \notin run \cap {1}
    BY <1>4
  <1>6. PICK k \in Nat \ {0}, l \in Nat \ {0} : k = 1 /\ l = 3
    OBVIOUS
  <1>7. (p = 5 => run = 1 .. k) /\ (p = 7 => run = 1 .. l)
    BY <1>4, <1>6
  <1>8. Cardinality(1 .. k) = k /\ Cardinality(1 .. l) = l
    BY FS_Interval
  <1> HIDE DEF run
  <1> QED
    BY <1>3, <1>5, <1>6, <1>7, <1>8

\* A grant that leaves the digest out is one of any digest.
LEMMA DigestLost ==
  ASSUME NEW c, NEW p, p = 12, NEW v, Tells(c, p, v),
         SlotsOf(c).approvals = "omits the digest"
  PROVE  v = TRUE
  <1> DEFINE s == SlotsOf(c)
             n == Len(CallsOf(p))
  <1>1. n = 2 /\ CallsOf(p)[n] = "validate" /\ Inv(p) = "INV-11"
    BY LastCalls, ProbeRows DEF LastCall, Puts
  <1>2. PICK m, h : Fits(c, p, n, m, h) /\ v \in ResultsOf(c, m, p, n, h)
    BY DEF Tells
  <1>3. v = Validates(s, m.grants[h[1].value], Presented(Inv(p)))
    BY <1>1, <1>2 DEF ResultsOf
  <1>4. m.grants[h[1].value] = Binding(s, Approved(Inv(p)))
    BY <1>1, <1>2 DEF Fits
  <1>5. /\ Approved(Inv(p)) = Action("x", "d1") /\ Presented(Inv(p)) = Action("x", "d2")
    BY <1>1 DEF Approved, Presented
  <1>6. /\ Binding(s, Action("x", "d1")) = [resource |-> "x"]
        /\ Binding(s, Action("x", "d2")) = [resource |-> "x"]
    BY DEF Binding, Action
  <1>7. Validates(s, m.grants[h[1].value], Presented(Inv(p))) = TRUE
    BY <1>4, <1>5, <1>6 DEF Validates
  <1> QED
    BY <1>3, <1>7

LEMMA ExternalHolds ==
  ASSUME NEW c, c.lab = "external", NEW p \in 1 .. 15
  PROVE  /\ p \notin {1, 12} => ~MayBreak(c, p)
         /\ p \in {1, 12} => ~MayHold(c, p)
  <1> SUFFICES ASSUME NEW g, Last(c, p, g)
               PROVE  /\ p \notin {1, 12} => Holds(p, g)
                      /\ p \in {1, 12} => ~Holds(p, g)
    BY DEF MayBreak, MayHold
  <1>1. PICK r, v : r = g[Len(g)] /\ v = r.value
    OBVIOUS
  <1>2. Tells(c, p, v) /\ r.shape = ShapeOf(LastCall(p))
    BY <1>1, LastTells DEF LastCall
  <1>3. \A s \in Slot \ {"approvals"} : SlotsOf(c)[s] = "builtin"
    BY ExternalSlots
  <1>4. /\ SlotsOf(c).capabilities = "builtin" /\ SlotsOf(c).compiler = "builtin"
        /\ SlotsOf(c).secrets = "builtin" /\ SlotsOf(c).budget = "builtin"
        /\ SlotsOf(c).skills = "builtin" /\ SlotsOf(c).policy = "builtin"
    BY <1>3, SlotTable
  <1>5. CASE p \in {1, 5, 7}
    <2>1. /\ p = 1 => 2 \in v.executed /\ 2 \notin v.authorized
          /\ p = 5 => v.recorded = 1
          /\ p = 7 => v.count = 3
      BY <1>2, <1>5, ExternalPlans
    <2>2. /\ p = 1 => ~(v.executed \subseteq v.authorized)
          /\ p = 5 => v.recorded >= 1
          /\ p = 7 => v.count <= 3
      BY <2>1
    <2>3. p = 1 => ~Holds(p, g)
      BY <1>1, <2>2, Assertions
    <2>4. p = 5 => Holds(p, g)
      BY <1>1, <2>2, Assertions
    <2>5. p = 7 => Holds(p, g)
      BY <1>1, <2>2, Assertions
    <2> QED
      BY <1>5, <2>3, <2>4, <2>5
  <1>6. CASE p = 3
    <2>1. ~v
      BY <1>2, <1>6, ExternalSlots, GrantsBind
    <2> QED
      BY <1>1, <1>2, <1>6, <2>1, Assertions, LastShapes
  <1>7. CASE p = 12
    <2>1. SlotsOf(c).approvals = "omits the digest" /\ Tells(c, p, v)
      BY <1>2, <1>7, ExternalSlots
    <2>2. v = TRUE
      BY <1>7, <2>1, DigestLost
    <2> QED
      BY <1>1, <1>7, <2>2, Assertions
  <1>8. CASE p \notin {1, 3, 5, 7, 12}
    <2>1. /\ p = 2 => v \subseteq {IssueRead}
          /\ p = 4 => ~v.leaks
          /\ p = 6 => ~v.instructed
          /\ p = 8 => v \subseteq {IssueRead}
          /\ p \in {9, 10, 14} => ~v
          /\ p = 11 => \A item \in v : item.tenant = "acme" /\ ~item.instruction
          /\ p = 13 => v = 1
          /\ p = 15 => v = "untrusted"
      <3>1. PlainPolicy(c)
        BY <1>4 DEF PlainPolicy
      <3> QED
        BY <1>2, <1>4, <3>1, ReferenceTells
    <2>2. p \in {2, 4, 6, 8} => Holds(p, g)
      BY <1>1, <2>1, Assertions
    <2>3. p \in {9, 10, 11, 14} => Holds(p, g)
      BY <1>1, <2>1, Assertions
    <2>4. p = 13 => Holds(p, g)
      <3>1. p = 13 => v <= 1
        BY <2>1
      <3> QED
        BY <1>1, <3>1, Assertions
    <2>5. p = 15 => Holds(p, g)
      BY <1>1, <1>2, <2>1, Assertions, LastShapes
    <2> QED
      BY <1>8, <2>2, <2>3, <2>4, <2>5
  <1> QED
    BY <1>5, <1>6, <1>7, <1>8

\* The probe that a defect breaks.
Witness(lab) ==
  CASE lab = "L001" -> 1 [] lab = "L002" -> 2 [] lab = "L003" -> 6 [] lab = "L004" -> 4
    [] lab = "L006" -> 7 [] lab = "L007" -> 3 [] lab = "L008" -> 14 [] lab = "L009" -> 8
    [] lab = "L010" -> 10 [] lab = "L011" -> 6 [] lab = "L012" -> 12

LEMMA VulnerableSlots ==
  ASSUME NEW c, c.lab \in Lab, c.version = "vulnerable"
  PROVE  /\ c.lab # "external"
         /\ \A s \in Slot : SlotsOf(c)[s] = IF s = Challenges[c.lab].slot
                                           THEN Challenges[c.lab].vulnerable ELSE "builtin"
  BY SlotHolds, ChallengeTable

LEMMA VulnerableTable ==
  ASSUME NEW c, c.lab \in Lab, c.version = "vulnerable"
  PROVE  /\ c.lab = "L001" => /\ SlotsOf(c).executor = "authorizes once"
                              /\ SlotsOf(c).policy = "builtin" /\ SlotsOf(c).budget = "builtin"
         /\ c.lab = "L002" => SlotsOf(c).capabilities = "widens"
         /\ c.lab = "L003" => SlotsOf(c).compiler = "blind to trust"
         /\ c.lab = "L004" => SlotsOf(c).secrets = "does not redact"
         /\ c.lab = "L006" => /\ SlotsOf(c).budget = "per agent"
                              /\ SlotsOf(c).policy = "builtin" /\ SlotsOf(c).executor = "builtin"
         /\ c.lab = "L007" => SlotsOf(c).approvals = "binds to the plan"
         /\ c.lab = "L008" => SlotsOf(c).policy = "by tool"
         /\ c.lab = "L009" => SlotsOf(c).skills = "accepts all"
         /\ c.lab = "L010" => SlotsOf(c).policy = "caches"
         /\ c.lab = "L011" => SlotsOf(c).compiler = "inlines all memory"
         /\ c.lab = "L012" => SlotsOf(c).approvals = "omits the digest"
  <1>1. \A s \in Slot : SlotsOf(c)[s] = IF s = Challenges[c.lab].slot
                                      THEN Challenges[c.lab].vulnerable ELSE "builtin"
    BY VulnerableSlots
  <1>2. CASE c.lab = "L001"
    <2>1. /\ Challenges[c.lab].slot = "executor"
          /\ Challenges[c.lab].vulnerable = "authorizes once"
      <3>1. Row("L001", "INV-01", "executor", "authorizes once", "builtin")
        BY ChallengeTable
      <3> QED
        BY <1>2, <3>1 DEF Row
    <2>2. /\ SlotsOf(c).executor = "authorizes once"
          /\ SlotsOf(c).policy = "builtin"
          /\ SlotsOf(c).budget = "builtin"
      BY <1>1, <2>1, SlotTable
    <2> QED
      BY <1>2, <2>2
  <1>3. CASE c.lab = "L002"
    <2>1. /\ Challenges[c.lab].slot = "capabilities"
          /\ Challenges[c.lab].vulnerable = "widens"
      <3>1. Row("L002", "INV-02", "capabilities", "widens", "builtin")
        BY ChallengeTable
      <3> QED
        BY <1>3, <3>1 DEF Row
    <2>2. SlotsOf(c).capabilities = "widens"
      BY <1>1, <2>1, SlotTable
    <2> QED
      BY <1>3, <2>2
  <1>4. CASE c.lab = "L003"
    <2>1. /\ Challenges[c.lab].slot = "compiler"
          /\ Challenges[c.lab].vulnerable = "blind to trust"
      <3>1. Row("L003", "INV-06-instr", "compiler", "blind to trust", "builtin")
        BY ChallengeTable
      <3> QED
        BY <1>4, <3>1 DEF Row
    <2>2. SlotsOf(c).compiler = "blind to trust"
      BY <1>1, <2>1, SlotTable
    <2> QED
      BY <1>4, <2>2
  <1>5. CASE c.lab = "L004"
    <2>1. /\ Challenges[c.lab].slot = "secrets"
          /\ Challenges[c.lab].vulnerable = "does not redact"
      <3>1. Row("L004", "INV-04", "secrets", "does not redact", "redacts its own")
        BY ChallengeTable
      <3> QED
        BY <1>5, <3>1 DEF Row
    <2>2. SlotsOf(c).secrets = "does not redact"
      BY <1>1, <2>1, SlotTable
    <2> QED
      BY <1>5, <2>2
  <1>6. CASE c.lab = "L006"
    <2>1. /\ Challenges[c.lab].slot = "budget"
          /\ Challenges[c.lab].vulnerable = "per agent"
      <3>1. Row("L006", "INV-06-budget", "budget", "per agent", "builtin")
        BY ChallengeTable
      <3> QED
        BY <1>6, <3>1 DEF Row
    <2>2. /\ SlotsOf(c).budget = "per agent"
          /\ SlotsOf(c).policy = "builtin"
          /\ SlotsOf(c).executor = "builtin"
      BY <1>1, <2>1, SlotTable
    <2> QED
      BY <1>6, <2>2
  <1>7. CASE c.lab = "L007"
    <2>1. /\ Challenges[c.lab].slot = "approvals"
          /\ Challenges[c.lab].vulnerable = "binds to the plan"
      <3>1. Row("L007", "INV-03", "approvals", "binds to the plan", "builtin")
        BY ChallengeTable
      <3> QED
        BY <1>7, <3>1 DEF Row
    <2>2. SlotsOf(c).approvals = "binds to the plan"
      BY <1>1, <2>1, SlotTable
    <2> QED
      BY <1>7, <2>2
  <1>8. CASE c.lab = "L008"
    <2>1. /\ Challenges[c.lab].slot = "policy"
          /\ Challenges[c.lab].vulnerable = "by tool"
      <3>1. Row("L008", "INV-13", "policy", "by tool", "builtin")
        BY ChallengeTable
      <3> QED
        BY <1>8, <3>1 DEF Row
    <2>2. SlotsOf(c).policy = "by tool"
      BY <1>1, <2>1, SlotTable
    <2> QED
      BY <1>8, <2>2
  <1>9. CASE c.lab = "L009"
    <2>1. /\ Challenges[c.lab].slot = "skills"
          /\ Challenges[c.lab].vulnerable = "accepts all"
      <3>1. Row("L009", "INV-07", "skills", "accepts all", "builtin")
        BY ChallengeTable
      <3> QED
        BY <1>9, <3>1 DEF Row
    <2>2. SlotsOf(c).skills = "accepts all"
      BY <1>1, <2>1, SlotTable
    <2> QED
      BY <1>9, <2>2
  <1>10. CASE c.lab = "L010"
    <2>1. /\ Challenges[c.lab].slot = "policy"
          /\ Challenges[c.lab].vulnerable = "caches"
      <3>1. Row("L010", "INV-09", "policy", "caches", "revokes its own")
        BY ChallengeTable
      <3> QED
        BY <1>10, <3>1 DEF Row
    <2>2. SlotsOf(c).policy = "caches"
      BY <1>1, <2>1, SlotTable
    <2> QED
      BY <1>10, <2>2
  <1>11. CASE c.lab = "L011"
    <2>1. /\ Challenges[c.lab].slot = "compiler"
          /\ Challenges[c.lab].vulnerable = "inlines all memory"
      <3>1. Row("L011", "INV-10", "compiler", "inlines all memory", "builtin")
        BY ChallengeTable
      <3> QED
        BY <1>11, <3>1 DEF Row
    <2>2. SlotsOf(c).compiler = "inlines all memory"
      BY <1>1, <2>1, SlotTable
    <2> QED
      BY <1>11, <2>2
  <1>12. CASE c.lab = "L012"
    <2>1. /\ Challenges[c.lab].slot = "approvals"
          /\ Challenges[c.lab].vulnerable = "omits the digest"
      <3>1. Row("L012", "INV-11", "approvals", "omits the digest", "builtin")
        BY ChallengeTable
      <3> QED
        BY <1>12, <3>1 DEF Row
    <2>2. SlotsOf(c).approvals = "omits the digest"
      BY <1>1, <2>1, SlotTable
    <2> QED
      BY <1>12, <2>2
  <1>13. CASE c.lab \notin {"L001", "L002", "L003", "L004", "L006", "L007", "L008", "L009",
                          "L010", "L011", "L012"}
    BY <1>13
  <1> QED
    BY <1>2, <1>3, <1>4, <1>5, <1>6, <1>7, <1>8, <1>9, <1>10, <1>11, <1>12, <1>13

\* An executor that authorizes once runs a second step on the first's decision.
LEMMA OnceTells ==
  ASSUME NEW c, c.lab \in Lab, c.version = "vulnerable", c.lab = "L001", NEW v, Tells(c, 1, v)
  PROVE  "b" \in v.executed /\ "b" \notin v.authorized
  <1> DEFINE s == SlotsOf(c)
  <1>1. PICK n, m, h : /\ n = Len(CallsOf(1)) /\ CallsOf(1)[n] = "run_plan"
                       /\ v \in ResultsOf(c, m, 1, n, h)
    BY LastCalls DEF LastCall, Tells
  <1>2. c.lab # "external"
    BY VulnerableSlots
  <1>3. v = RunPlan(s, m.cached, Plan(Inv(1)), MaxActions(Inv(1)))
    BY <1>1, <1>2 DEF ResultsOf
  <1>4. Plan(Inv(1)) = Plans.two
    BY ProbeRows DEF Puts, Plan
  <1> DEFINE plan == Plans.two
             run == Ran(s, plan, Allows(s, m.cached, plan.caps, plan.op, {}),
                        Charged(s, plan.steps, MaxActions(Inv(1))))
  <1>5. v = Outcome(s, plan, run, Cardinality(run))
    BY <1>3, <1>4, PlanRuns
  <1>6. s.executor = "authorizes once" /\ s.policy = "builtin"
    BY VulnerableTable
  <1>7. /\ DOMAIN plan.steps = 1 .. 2
        /\ plan.steps[1].what = "a" /\ plan.steps[2].what = "b"
        /\ plan.steps[1].agent = "root" /\ plan.steps[2].agent = "root"
    BY DEF Plans, Reads, Step
  <1>8. Allows(s, m.cached, plan.caps, plan.op, {})
    <2>1. plan.caps = {Cap("files", "read")} /\ plan.op = Cap("files", "read")
      BY DEF Plans, Reads
    <2> QED
      BY <1>6, <2>1 DEF Allows
  <1>9. run = 1 .. 2
    <2>1. {i \in DOMAIN plan.steps : plan.steps[i].agent = "root"} = 1 .. 2
      BY <1>7
    <2> QED
      BY <1>6, <1>8, <2>1 DEF Ran
  <1> HIDE DEF run, plan
  <1>10. v.executed = Deeds(plan, run) \cup
                        (IF Delegated(s, plan, run) = 1 THEN {"delegate"} ELSE {})
         /\ v.authorized = Deeds(plan, run \cap {1})
    BY <1>5, <1>6 DEF Outcome
  <1>11. "b" \in Deeds(plan, run)
    BY <1>7, <1>9 DEF Deeds
  <1>12. "b" \notin Deeds(plan, run \cap {1})
    <2>1. run \cap {1} = {1}
      BY <1>9
    <2>2. Deeds(plan, {1}) = {"a"}
      BY <1>7 DEF Deeds
    <2> QED
      BY <2>1, <2>2
  <1> QED
    BY <1>10, <1>11, <1>12

\* A budget per agent lets a tree of three run six steps on a limit of three.
LEMMA TreeTells ==
  ASSUME NEW c, c.lab \in Lab, c.version = "vulnerable", c.lab = "L006", NEW v, Tells(c, 7, v)
  PROVE  v.count = 6 + 0
  <1> DEFINE s == SlotsOf(c)
             plan == Plans.tree
  <1>1. PICK n, m, h : /\ n = Len(CallsOf(7)) /\ CallsOf(7)[n] = "run_plan"
                       /\ v \in ResultsOf(c, m, 7, n, h)
    BY LastCalls DEF LastCall, Tells
  <1>2. c.lab # "external"
    BY VulnerableSlots
  <1>3. v = RunPlan(s, m.cached, Plan(Inv(7)), MaxActions(Inv(7)))
    BY <1>1, <1>2 DEF ResultsOf
  <1>4. Plan(Inv(7)) = Plans.tree /\ MaxActions(Inv(7)) = 3
    BY ProbeRows DEF Puts, Plan, MaxActions
  <1>5. s.executor = "builtin" /\ s.policy = "builtin" /\ s.budget = "per agent"
    BY VulnerableTable
  <1>6. Allows(s, m.cached, Plan(Inv(7)).caps, Plan(Inv(7)).op, {})
    <2>1. PlainPolicy(c)
      BY <1>5 DEF PlainPolicy
    <2>2. Allows(s, m.cached, plan.caps, plan.op, {})
      BY <2>1, Allowed
    <2> QED
      BY <1>4, <2>2
  <1>7. RunPlan(s, m.cached, Plan(Inv(7)), 3).count
          = Cardinality(Charged(s, Plan(Inv(7)).steps, 3)) + 0
    <2>1. s.executor = "builtin"
      BY <1>5
    <2> QED
      BY <1>6, <2>1, PlansAuthorized
  <1>8. Charged(s, plan.steps, 3) = 1 .. 6
    <2> DEFINE steps == plan.steps
               same(i) == {j \in 1 .. i : steps[j].agent = steps[i].agent}
    <2>1. /\ DOMAIN steps = 1 .. 6
          /\ steps[1].agent = "root" /\ steps[2].agent = "root"
          /\ steps[3].agent = "c1" /\ steps[4].agent = "c1"
          /\ steps[5].agent = "c2" /\ steps[6].agent = "c2"
      BY DEF Plans, Issues, Step
    <2> HIDE DEF steps
    <2>2. ASSUME NEW i \in 1 .. 6
          PROVE  Cardinality(same(i)) <= 3
      <3>1. \/ same(i) \subseteq {1, 2}
            \/ same(i) \subseteq {3, 4}
            \/ same(i) \subseteq {5, 6}
        <4>1. "root" # "c1" /\ "root" # "c2" /\ "c1" # "c2"
          OBVIOUS
        <4>2. CASE i \in {1, 2}
          BY <2>1, <4>1, <4>2
        <4>3. CASE i \in {3, 4}
          BY <2>1, <4>1, <4>3
        <4>4. CASE i \in {5, 6}
          BY <2>1, <4>1, <4>4
        <4> QED
          BY <4>2, <4>3, <4>4
      <3>2. ASSUME NEW a, NEW b, same(i) \subseteq {a, b}
            PROVE  Cardinality(same(i)) <= 3
        <4>1. PICK k \in Nat : k = 1 /\ IsFiniteSet({a}) /\ Cardinality({a}) = k
          BY FS_Singleton
        <4>2. IsFiniteSet({a} \cup {b}) /\ Cardinality({a} \cup {b}) \in {k, k + 1}
          BY <4>1, FS_AddElement
        <4>3. {a, b} = {a} \cup {b}
          OBVIOUS
        <4>4. PICK m1 \in Nat, m2 \in Nat : /\ Cardinality(same(i)) = m1
                                          /\ Cardinality({a} \cup {b}) = m2 /\ m1 <= m2
          <5> HIDE DEF same
          <5> QED
            BY <3>2, <4>2, <4>3, FS_Subset, FS_CardinalityType
        <4>5. m1 <= 3
          BY <4>1, <4>2, <4>4
        <4> QED
          BY <4>4, <4>5
      <3> QED
        BY <3>1, <3>2
    <2>3. Charged(s, steps, 3)
            = {i \in DOMAIN steps : Cardinality(same(i)) <= 3}
      BY <1>5 DEF Charged
    <2> HIDE DEF same
    <2>4. Charged(s, steps, 3) = 1 .. 6
      BY <2>1, <2>2, <2>3
    <2> QED
      BY <2>4 DEF steps
  <1>9. PICK l \in Nat \ {0} : l = 6
    OBVIOUS
  <1>10. Cardinality(1 .. l) = l
    BY FS_Interval
  <1>11. Cardinality(Charged(s, Plan(Inv(7)).steps, 3)) = 6
    BY <1>4, <1>8, <1>9, <1>10
  <1> QED
    BY <1>3, <1>4, <1>7, <1>11

\* What the other defects tell the probe they break.
LEMMA DefectTells ==
  ASSUME NEW c, c.lab \in Lab, c.version = "vulnerable", NEW p \in 1 .. 15, NEW v, Tells(c, p, v)
  PROVE  /\ c.lab = "L002" /\ p = 2 => Comment \in v
         /\ c.lab \in {"L003", "L011"} /\ p = 6 => v.instructed
         /\ c.lab = "L004" /\ p = 4 => v.leaks
         /\ c.lab = "L007" /\ p = 3 => v = TRUE
         /\ c.lab = "L008" /\ p = 14 => v = TRUE
         /\ c.lab = "L009" /\ p = 8 => Delete \in v
         /\ c.lab = "L010" /\ p = 10 => v = TRUE
         /\ c.lab = "L012" /\ p = 12 => v = TRUE
  <1> DEFINE s == SlotsOf(c)
             n == Len(CallsOf(p))
             method == CallsOf(p)[n]
  <1>1. PICK m, h : Fits(c, p, n, m, h) /\ v \in ResultsOf(c, m, p, n, h)
    BY DEF Tells
  <1>2. /\ c.lab = "L002" => s.capabilities = "widens"
        /\ c.lab = "L003" => s.compiler = "blind to trust"
        /\ c.lab = "L004" => s.secrets = "does not redact"
        /\ c.lab = "L007" => s.approvals = "binds to the plan"
        /\ c.lab = "L008" => s.policy = "by tool"
        /\ c.lab = "L009" => s.skills = "accepts all"
        /\ c.lab = "L010" => s.policy = "caches"
        /\ c.lab = "L011" => s.compiler = "inlines all memory"
        /\ c.lab = "L012" => s.approvals = "omits the digest"
    BY VulnerableTable
  <1>3. /\ p = 2 => method = "derive_child"
        /\ p = 3 => method = "validate"
        /\ p = 4 => method = "compile_context"
        /\ p = 6 => method = "compile_context"
        /\ p = 8 => method = "skill_grant"
        /\ p = 10 => method = "authorize"
        /\ p = 14 => method = "authorize"
    BY LastCalls DEF LastCall
  <1>4. Inv(4) = "INV-04" /\ Inv(10) = "INV-09" /\ Inv(14) = "INV-13"
    BY ProbeRows DEF Puts
  <1>5. ASSUME c.lab = "L002", p = 2 PROVE Comment \in v
    <2>1. method = "derive_child"
      BY <1>5, LastCalls DEF LastCall
    <2> QED
      BY <1>1, <1>2, <1>5, <2>1 DEF ResultsOf, DeriveChild
  <1>6. ASSUME p \in {4, 6} PROVE v = CompileContext(s, Inv(p) = "INV-04")
    <2>1. method = "compile_context"
      BY <1>6, LastCalls DEF LastCall
    <2> QED
      BY <1>1, <2>1 DEF ResultsOf
  <1>7. ASSUME c.lab \in {"L003", "L011"}, p = 6 PROVE v.instructed
    <2>1. s.compiler = "blind to trust" \/ s.compiler = "inlines all memory"
      BY <1>2, <1>7
    <2>2. \A secret : CompileContext(s, secret).instructed
      BY <2>1 DEF CompileContext
    <2> QED
      BY <1>6, <1>7, <2>2
  <1>8. ASSUME c.lab = "L004", p = 4 PROVE v.leaks
    <2>1. \A secret : secret => CompileContext(s, secret).leaks
      BY <1>2, <1>8 DEF CompileContext, Rebuilt
    <2>2. Inv(p) = "INV-04" /\ v = CompileContext(s, Inv(p) = "INV-04")
      BY <1>4, <1>6, <1>8
    <2> QED
      BY <2>1, <2>2
  <1>9. ASSUME c.lab = "L007", p = 3 PROVE v = TRUE
    <2>1. method = "validate"
      BY <1>9, LastCalls DEF LastCall
    <2>2. v = Validates(s, m.grants[h[1].value], Presented(Inv(p)))
      BY <1>1, <2>1 DEF ResultsOf
    <2>3. Validates(s, m.grants[h[1].value], Presented(Inv(p))) = TRUE
      BY <1>2, <1>9 DEF Validates
    <2> QED
      BY <2>2, <2>3
  <1>10. ASSUME p \in {10, 14}
         PROVE  v = Allows(s, m.cached, Question(Inv(p)).caps, Question(Inv(p)).op,
                           Question(Inv(p)).revoked)
    <2>1. method = "authorize"
      BY <1>10, LastCalls DEF LastCall
    <2> QED
      BY <1>1, <2>1 DEF ResultsOf
  <1> DEFINE q == Question(Inv(p))
  <1>11. ASSUME c.lab = "L008", p = 14 PROVE v = TRUE
    <2>1. q.caps = {IssueRead} /\ q.op = Delete
      BY <1>4, <1>11 DEF Question
    <2>2. IssueRead[1] = Delete[1]
      BY DEF IssueRead, Delete, Cap
    <2>3. \E a \in q.caps : a[1] = q.op[1]
      BY <2>1, <2>2
    <2> HIDE DEF q
    <2>4. Allows(s, m.cached, q.caps, q.op, q.revoked) = TRUE
      BY <1>2, <1>11, <2>3 DEF Allows
    <2> QED
      BY <1>10, <1>11, <2>4 DEF q
  <1>12. ASSUME c.lab = "L009", p = 8 PROVE Delete \in v
    <2>1. method = "skill_grant"
      BY <1>12, LastCalls DEF LastCall
    <2>2. v = SkillGrant(s, {IssueRead}, {IssueRead, Delete}, c.lab = "external")
      BY <1>1, <2>1 DEF ResultsOf
    <2> QED
      BY <1>2, <1>12, <2>2 DEF SkillGrant
  <1>13. ASSUME c.lab = "L010", p = 10 PROVE v = TRUE
    <2>1. q.op \in q.caps
      BY <1>4, <1>13 DEF Question
    <2>2. m.cached \in {"none", "allow"}
      BY <1>1, <1>13 DEF Fits, Undenied
    <2> HIDE DEF q
    <2>3. s.policy = "caches"
      BY <1>2, <1>13
    <2>4. CASE m.cached = "none"
      <3>1. Allows(s, m.cached, q.caps, q.op, q.revoked) = TRUE
        BY <2>1, <2>3, <2>4 DEF Allows, Rebuilt
      <3> QED
        BY <1>10, <1>13, <3>1 DEF q
    <2>5. CASE m.cached = "allow"
      <3>1. Allows(s, m.cached, q.caps, q.op, q.revoked) = TRUE
        BY <2>3, <2>5 DEF Allows
      <3> QED
        BY <1>10, <1>13, <3>1 DEF q
    <2> QED
      BY <2>2, <2>4, <2>5
  <1>14. ASSUME c.lab = "L012", p = 12 PROVE v = TRUE
    BY <1>2, <1>14, DigestLost
  <1> QED
    BY <1>5, <1>7, <1>8, <1>9, <1>11, <1>12, <1>13, <1>14

\* A defect that the battery covers breaks its witness.
LEMMA VulnerableBreaks ==
  ASSUME NEW c, c.lab \in Lab \ Blind, c.version = "vulnerable"
  PROVE  Witness(c.lab) \in 1 .. 15 /\ ~MayHold(c, Witness(c.lab))
  <1> DEFINE p == Witness(c.lab)
  <1>1. c.lab \in {"L001", "L002", "L003", "L004", "L006", "L007", "L008", "L009", "L010",
                   "L011", "L012"}
    BY ChallengeTable DEF Blind
  <1>2. /\ c.lab = "L001" => p = 1
        /\ c.lab = "L002" => p = 2
        /\ c.lab = "L003" => p = 6
        /\ c.lab = "L004" => p = 4
        /\ c.lab = "L006" => p = 7
        /\ c.lab = "L007" => p = 3
        /\ c.lab = "L008" => p = 14
        /\ c.lab = "L009" => p = 8
        /\ c.lab = "L010" => p = 10
        /\ c.lab = "L011" => p = 6
        /\ c.lab = "L012" => p = 12
    BY DEF Witness
  <1> HIDE DEF p
  <1>3. p \in 1 .. 15
    BY <1>1, <1>2
  <1>4. ASSUME NEW g, Last(c, p, g)
        PROVE  ~Holds(p, g)
    <2>1. PICK r, v : r = g[Len(g)] /\ v = r.value
      OBVIOUS
    <2>2. Tells(c, p, v)
      BY <1>4, <2>1, LastTells
    <2>3. Delete # IssueRead /\ Comment # IssueRead
      BY DEF Delete, IssueRead, Comment, Cap
    <2>4. CASE c.lab = "L001"
      <3>1. p = 1 /\ Tells(c, 1, v)
        BY <1>2, <2>2, <2>4
      <3>2. ~(v.executed \subseteq v.authorized)
        BY <2>4, <3>1, OnceTells
      <3>3. Holds(p, g) <=> v.executed \subseteq v.authorized
        BY <1>3, <2>1, <3>1, Assertions
      <3> QED
        BY <3>2, <3>3
    <2>5. CASE c.lab = "L006"
      <3>1. p = 7 /\ Tells(c, 7, v)
        BY <1>2, <2>2, <2>5
      <3>2. v.count = 6 + 0
        BY <2>5, <3>1, TreeTells
      <3>3. ~(v.count <= 3)
        BY <3>2
      <3> QED
        BY <2>1, <3>1, <3>3, Assertions
    <2>6. CASE c.lab \in {"L002", "L009"}
      <3>1. p \in {2, 8} /\ ~(v \subseteq {IssueRead})
        BY <1>2, <1>3, <2>2, <2>3, <2>6, DefectTells
      <3>2. Holds(p, g) <=> v \subseteq {IssueRead}
        BY <1>3, <2>1, <3>1, Assertions
      <3> QED
        BY <3>1, <3>2
    <2>7. CASE c.lab \in {"L003", "L011"}
      <3>1. p = 6 /\ v.instructed
        BY <1>2, <1>3, <2>2, <2>7, DefectTells
      <3> QED
        BY <2>1, <3>1, Assertions
    <2>8. CASE c.lab = "L004"
      <3>1. p = 4 /\ v.leaks
        BY <1>2, <1>3, <2>2, <2>8, DefectTells
      <3> QED
        BY <2>1, <3>1, Assertions
    <2>9. CASE c.lab \in {"L007", "L012"}
      <3>1. p \in {3, 12} /\ v = TRUE
        BY <1>2, <1>3, <2>2, <2>9, DefectTells
      <3> QED
        BY <2>1, <3>1, Assertions
    <2>10. CASE c.lab \in {"L008", "L010"}
      <3>1. p \in {14, 10} /\ v = TRUE
        BY <1>2, <1>3, <2>2, <2>10, DefectTells
      <3> QED
        BY <2>1, <3>1, Assertions
    <2> QED
      BY <1>1, <2>4, <2>5, <2>6, <2>7, <2>8, <2>9, <2>10
  <1> QED
    BY <1>3, <1>4 DEF MayHold, p

-----------------------------------------------------------------------------
(* What a run of the battery is told, and what its verdicts come from.      *)

Kept(m) == m = [cached |-> m.cached, grants |-> m.grants] /\ IsTuple(m.grants)

\* The probes that ask the policy, and those that make a second call.
LEMMA OnlyAuthorize ==
  ASSUME NEW p \in 1 .. 15, NEW n \in 1 .. Len(CallsOf(p))
  PROVE  /\ CallsOf(p)[n] = "authorize" => p \in {10, 14}
         /\ n = 2 => p \in {3, 12}
         /\ p \in {3, 12} /\ n = 1 => CallsOf(p)[n] = "approve"
         /\ p \notin {3, 12} => n = 1
  <1>1. \A m : CallsOf(p) = <<m>> => n = 1 /\ CallsOf(p)[n] = m
    OBVIOUS
  <1>2. CallsOf(p) = <<"approve", "validate">> =>
          /\ n = 1 \/ n = 2
          /\ n = 1 => CallsOf(p)[n] = "approve"
          /\ n = 2 => CallsOf(p)[n] = "validate"
    OBVIOUS
  <1>3. CASE p \in {3, 12}
    BY <1>2, <1>3, ProbeRows DEF Puts
  <1>4. CASE p \notin {3, 12}
    <2>1. PICK m : CallsOf(p) = <<m>> /\ (m = "authorize" => p \in {10, 14})
      BY <1>4, ProbeRows DEF Puts
    <2> QED
      BY <1>1, <1>4, <2>1
  <1> QED
    BY <1>3, <1>4

\* What a harness remembers: no denial before the probe that is denied, and the
\* grant that was asked for.
LEMMA Remembered ==
  ASSUME NEW c, NEW m, Kept(m), NEW p \in 1 .. 15, NEW n \in 1 .. Len(CallsOf(p))
  PROVE  /\ Kept(Remembers(c, m, p, n))
         /\ p # 14 /\ Undenied(m) => Undenied(Remembers(c, m, p, n))
         /\ CallsOf(p)[n] = "approve" =>
              Remembers(c, m, p, n).grants[Len(m.grants) + 1]
                = Binding(SlotsOf(c), Approved(Inv(p)))
  <1> DEFINE inv == Inv(p)
             s == SlotsOf(c)
             q == Question(inv)
             r == Remembers(c, m, p, n)
  <1>1. m = [cached |-> m.cached, grants |-> m.grants] /\ IsTuple(m.grants)
    BY DEF Kept
  <1>2. CASE CallsOf(p)[n] = "run_plan"
    <2> DEFINE kept == Cached(s, m.cached, Plan(inv).caps, Plan(inv).op)
    <2>1. r = [m EXCEPT !.cached = kept]
      BY <1>2 DEF Remembers
    <2>2. r = [cached |-> kept, grants |-> m.grants]
      <3> HIDE DEF kept, r
      <3> QED
        BY <1>1, <2>1
    <2>3. Plan(inv).op \in Plan(inv).caps
      BY DEF Plan, Plans, Reads, Issues
    <2>4. Undenied(m) => kept \in {"none", "allow"}
      BY <2>3 DEF Cached, Undenied
    <2> HIDE DEF kept, r
    <2>5. r.cached = kept /\ r.grants = m.grants
      BY <2>2
    <2> QED
      BY <1>1, <1>2, <2>2, <2>4, <2>5 DEF Kept, Undenied, r
  <1>3. CASE CallsOf(p)[n] = "authorize"
    <2> DEFINE kept == Cached(s, m.cached, q.caps, q.op)
    <2>1. r = [m EXCEPT !.cached = kept]
      BY <1>3 DEF Remembers
    <2>2. r = [cached |-> kept, grants |-> m.grants]
      <3> HIDE DEF kept, r
      <3> QED
        BY <1>1, <2>1
    <2>3. p # 14 => inv = "INV-09"
      <3>1. p # 14 => p = 10
        BY <1>3, OnlyAuthorize
      <3> QED
        BY <3>1, ProbeRows DEF Puts
    <2>4. inv = "INV-09" => q.op \in q.caps
      BY DEF Question
    <2> HIDE DEF q
    <2>5. p # 14 /\ Undenied(m) => kept \in {"none", "allow"}
      BY <2>3, <2>4 DEF Cached, Undenied
    <2> HIDE DEF kept, r
    <2>6. r.cached = kept /\ r.grants = m.grants
      BY <2>2
    <2> QED
      BY <1>1, <1>3, <2>2, <2>5, <2>6 DEF Kept, Undenied, r
  <1>4. CASE CallsOf(p)[n] = "approve"
    <2> DEFINE grant == Binding(s, Approved(inv))
               grants == Append(m.grants, grant)
    <2>1. r = [m EXCEPT !.grants = grants]
      BY <1>4 DEF Remembers
    <2>2. r = [cached |-> m.cached, grants |-> grants]
      <3> HIDE DEF grants, r
      <3> QED
        BY <1>1, <2>1
    <2>3. IsTuple(grants) /\ grants[Len(m.grants) + 1] = grant
      <3> HIDE DEF grant
      <3>1. IsTuple(grants) /\ Len(m.grants) \in Nat
        BY <1>1, TupleAppend
      <3>2. m.grants \in Seq(Items(m.grants) \cup {grant})
        BY <1>1, SeqMonotonic DEF IsTuple
      <3> QED
        BY <3>1, <3>2
    <2> HIDE DEF grant, grants, r
    <2>4. r.cached = m.cached /\ r.grants = grants
      BY <2>2
    <2> QED
      BY <1>1, <2>2, <2>3, <2>4 DEF Kept, Undenied, r, grant
  <1>5. CASE CallsOf(p)[n] \notin {"run_plan", "authorize", "approve"}
    <2>1. r = m
      BY <1>5 DEF Remembers
    <2> HIDE DEF r
    <2> QED
      BY <1>1, <1>5, <2>1 DEF Kept, r
  <1> QED
    BY <1>2, <1>3, <1>4, <1>5

\* Every answer so far is one the harness may give to that call.
Told ==
  /\ IsTuple(Heard)
  /\ probe = 0 => Heard = <<>>
  /\ Heard # <<>> => code.version # "torn"
  /\ Judging => Len(Heard) <= Len(CallsOf(probe))
  /\ Judging => \A n \in 1 .. Len(Heard) : Truthful(code, probe, n, Heard[n])

\* What the harness remembers fits the call that comes.
Recalls ==
  /\ Kept(memory)
  /\ probe < 14 \/ (probe = 14 /\ Heard = <<>>) => Undenied(memory)
  /\ probe \in {3, 12} /\ Len(Heard) = 1 =>
       memory.grants[Heard[1].value] = Binding(SlotsOf(code), Approved(Inv(probe)))

\* A probe that held may hold of the harness, and one that did not may break,
\* unless something failed on the way.
Scored ==
  \A p \in 1 .. Len(results) :
    /\ results[p] => code.version # "torn" /\ MayHold(code, p)
    /\ ~results[p] /\ ~Fault => MayBreak(code, p)

LEMMA AnswerTold ==
  ASSUME Tally, Told, Recalls, B!Answer
  PROVE  Told' /\ Recalls'
  <1>0. PICK n : n = Len(Heard) + 1
    OBVIOUS
  <1>1. PICK v \in ResultsOf(code, memory, probe, n, Heard) :
          Heard' = Append(Heard, Result(probe, n, v))
    BY <1>0, SameResults, SameProbes DEF B!Answer
  <1>2. /\ Judging /\ n <= Len(CallsOf(probe)) /\ code.version # "torn"
        /\ memory' = Remembers(code, memory, probe, n)
        /\ UNCHANGED <<code, probe, results>>
    BY <1>0, SameProbes, SameMemory DEF B!Answer, B!Judging, Judging
  <1>3. probe \in 1 .. 15 /\ Len(Heard) \in Nat /\ Len(CallsOf(probe)) \in 1 .. 2
    BY <1>2, TupleOf, ProbeTable DEF Judging, Told, IsTuple
  <1>4. n \in 1 .. Len(CallsOf(probe)) /\ n = Len(Heard) + 1
    BY <1>0, <1>2, <1>3
  <1>15. /\ n = 2 => probe \in {3, 12}
         /\ probe \in {3, 12} /\ n = 1 => CallsOf(probe)[n] = "approve"
         /\ probe \notin {3, 12} => n = 1
    BY <1>3, <1>4, OnlyAuthorize
  <1>16. /\ Kept(memory) => Kept(Remembers(code, memory, probe, n))
         /\ Kept(memory) /\ probe # 14 /\ Undenied(memory) =>
              Undenied(Remembers(code, memory, probe, n))
         /\ Kept(memory) /\ CallsOf(probe)[n] = "approve" =>
              Remembers(code, memory, probe, n).grants[Len(memory.grants) + 1]
                = Binding(SlotsOf(code), Approved(Inv(probe)))
    BY <1>3, <1>4, Remembered
  <1> DEFINE line == Result(probe, n, v)
  <1>5. line.value = v /\ Heard' = Append(Heard, line)
    BY <1>1 DEF Result
  <1> HIDE DEF line
  <1>6. /\ IsTuple(Heard') /\ Len(Heard') = n /\ Heard' # <<>>
        /\ Heard'[n] = line
        /\ \A i \in 1 .. Len(Heard) : Heard'[i] = Heard[i]
    <2>1. IsTuple(Heard)
      BY DEF Told
    <2>2. Heard \in Seq(Items(Heard) \cup {line})
      BY <2>1, SeqMonotonic DEF IsTuple
    <2> HIDE DEF Heard
    <2> QED
      BY <1>4, <1>5, <2>1, <2>2, TupleAppend
  <1>7. Fits(code, probe, n, memory, Heard)
    <2>1. probe \in 1 .. 14 => Undenied(memory)
      <3>1. probe = 14 => n = 1
        BY <1>15
      <3>2. n = 1 => Heard = <<>>
        BY <1>3, <1>4, EmptySeq DEF Told, IsTuple
      <3> QED
        BY <1>3, <1>4, <3>1, <3>2 DEF Recalls
    <2>2. n = 2 => memory.grants[Heard[1].value] = Binding(SlotsOf(code), Approved(Inv(probe)))
      <3>1. n = 2 => probe \in {3, 12} /\ Len(Heard) = 1
        <4>1. PICK k \in Nat : k = Len(Heard) /\ n = k + 1
          BY <1>3, <1>4
        <4>2. n = 2 => k = 1
          BY <4>1
        <4> QED
          BY <1>15, <4>1, <4>2
      <3> QED
        BY <3>1 DEF Recalls
    <2> QED
      BY <2>1, <2>2 DEF Fits
  <1>8. Truthful(code, probe, n, line)
    BY <1>7 DEF Truthful, line
  <1>9. ASSUME NEW i \in 1 .. Len(Heard')
        PROVE  Truthful(code, probe, i, Heard'[i])
    <2>1. i = n \/ i \in 1 .. Len(Heard)
      BY <1>3, <1>4, <1>6
    <2> QED
      BY <1>2, <1>6, <1>8, <2>1 DEF Told
  <1>10. Told'
    <2>1. probe' # 0 /\ code'.version # "torn"
      BY <1>2, <1>3
    <2>2. Len(Heard') <= Len(CallsOf(probe'))
      BY <1>2, <1>6
    <2>3. Judging' /\ \A i \in 1 .. Len(Heard') : Truthful(code', probe', i, Heard'[i])
      BY <1>2, <1>9 DEF Judging
    <2> QED
      BY <1>6, <2>1, <2>2, <2>3 DEF Told
  <1>11. Kept(memory) /\ (probe # 14 /\ probe \in 1 .. 14 => Undenied(memory))
    BY <1>3 DEF Recalls
  <1>12. /\ Kept(memory')
         /\ probe < 14 => Undenied(memory')
         /\ CallsOf(probe)[n] = "approve" =>
              memory'.grants[Len(memory.grants) + 1] = Binding(SlotsOf(code), Approved(Inv(probe)))
    BY <1>2, <1>3, <1>11, <1>16
  <1>13. probe \in {3, 12} /\ Len(Heard') = 1 =>
           memory'.grants[Heard'[1].value] = Binding(SlotsOf(code), Approved(Inv(probe)))
    <2> SUFFICES ASSUME probe \in {3, 12}, n = 1
                 PROVE  memory'.grants[Heard'[1].value]
                          = Binding(SlotsOf(code), Approved(Inv(probe)))
      BY <1>6
    <2>1. CallsOf(probe)[n] = "approve"
      BY <1>15
    <2>2. v = Len(memory.grants) + 1
      BY <2>1 DEF ResultsOf
    <2>3. Heard'[1].value = v
      BY <1>5, <1>6
    <2> QED
      BY <1>12, <2>1, <2>2, <2>3
  <1>14. Recalls'
    BY <1>2, <1>3, <1>6, <1>12, <1>13 DEF Recalls
  <1> QED
    BY <1>10, <1>14

LEMMA VerdictTold ==
  ASSUME Tally, Told, Recalls, Judging, NEW v, B!Verdict(v)
  PROVE  Told' /\ Recalls'
  <1>1. /\ probe' = probe + 1 /\ Heard' = <<>> /\ UNCHANGED <<code, memory>>
        /\ probe \in 1 .. 15
    BY ProbeTable DEF B!Verdict, Judging
  <1>2. IsTuple(<<>>) /\ Len(<<>>) = 0
    BY TupleOf, EmptySeq
  <1>3. Told'
    <2>1. Judging' => Len(CallsOf(probe')) \in 1 .. 2
      BY ProbeTable DEF Judging
    <2> QED
      BY <1>1, <1>2, <2>1 DEF Told
  <1>4. Recalls'
    BY <1>1, <1>2 DEF Recalls
  <1> QED
    BY <1>3, <1>4

LEMMA VerdictScored ==
  ASSUME Tally, Scored, Judging, NEW v \in BOOLEAN, B!Verdict(v), raised => raised',
         v => code.version # "torn" /\ MayHold(code, probe),
         ~v /\ ~Fault => MayBreak(code, probe)
  PROVE  Scored'
  <1>1. probe \in 1 .. 15 /\ results \in Seq(BOOLEAN) /\ Len(results) + 1 = probe
    BY ProbeTable DEF Tally, Judging
  <1>2. results' = Append(results, v) /\ code' = code
    BY DEF B!Verdict
  <1>3. /\ Len(results') = probe /\ results'[probe] = v
        /\ \A i \in 1 .. Len(results) : results'[i] = results[i]
    BY <1>1, <1>2
  <1>4. Fault => Fault'
    BY <1>2 DEF Fault
  <1>5. ASSUME NEW p \in 1 .. Len(results')
        PROVE  /\ results'[p] => code.version # "torn" /\ MayHold(code, p)
               /\ ~results'[p] /\ ~Fault' => MayBreak(code, p)
    <2>1. p = probe \/ p \in 1 .. Len(results)
      BY <1>1, <1>3
    <2> QED
      BY <1>3, <1>4, <2>1 DEF Scored
  <1> QED
    BY <1>2, <1>5 DEF Scored

LEMMA StepsScored ==
  ASSUME Tally, Tally', Told, Recalls, Scored, [Steps]_(B!vars), raised => raised'
  PROVE  Told' /\ Recalls' /\ Scored'
  <1>1. CASE UNCHANGED B!vars
    <2>1. UNCHANGED <<code, probe, Heard, results, memory>>
      BY <1>1 DEF B!vars
    <2>2. Told' /\ Recalls'
      BY <2>1 DEF Told, Recalls, Judging
    <2>3. Fault => Fault'
      BY <2>1 DEF Fault
    <2>4. Scored'
      BY <2>1, <2>3 DEF Scored
    <2> QED
      BY <2>2, <2>4
  <1>2. ASSUME NEW c, B!Start(c)
        PROVE  Told' /\ Recalls' /\ Scored'
    <2>1. /\ probe = 0 /\ code' = c /\ probe' = 1 /\ memory' = Fresh
          /\ Heard' = <<>> /\ results' = results
      BY <1>2, SameHarnesses DEF B!Start, Told
    <2>2. IsTuple(<<>>) /\ Len(<<>>) = 0
      BY TupleOf, EmptySeq
    <2>3. Told'
      <3>1. Judging' => Len(CallsOf(probe')) \in 1 .. 2
        BY ProbeTable DEF Judging
      <3> QED
        BY <2>1, <2>2, <3>1 DEF Told
    <2>4. Recalls'
      BY <2>1, <2>2 DEF Recalls, Fresh, Kept, Undenied
    <2>5. Len(results') = 0
      BY <2>1 DEF Tally
    <2>6. Scored'
      BY <2>5 DEF Scored
    <2> QED
      BY <2>3, <2>4, <2>6
  <1>3. CASE B!Answer
    <2>1. UNCHANGED <<code, results>>
      BY <1>3 DEF B!Answer
    <2>2. Fault => Fault'
      BY <2>1 DEF Fault
    <2>3. Scored'
      BY <2>1, <2>2 DEF Scored
    <2> QED
      BY <1>3, <2>3, AnswerTold
  <1>4. CASE B!Judge
    <2>1. /\ Judging /\ Len(Heard) = Len(CallsOf(probe))
          /\ B!Verdict(Holds(probe, Heard))
      BY <1>4, SameProbes, SameVerdicts DEF B!Judge, B!Judging, Judging
    <2>2. probe \in 1 .. 15 /\ Len(CallsOf(probe)) \in 1 .. 2
      BY <2>1, ProbeTable DEF Judging
    <2>3. Heard # <<>> /\ Last(code, probe, Heard)
      BY <2>1, <2>2 DEF Told, Last
    <2>4. Holds(probe, Heard) \in BOOLEAN
      <3> DEFINE v == Holds(probe, Heard)
      <3>1. results' = Append(results, v) /\ Len(results) + 1 = probe
            /\ results \in Seq(BOOLEAN) /\ results' \in Seq(BOOLEAN)
        BY <2>1, <2>2 DEF B!Verdict, Tally
      <3> HIDE DEF v
      <3>2. results \in Seq(BOOLEAN \cup {v})
        BY <3>1
      <3>3. Len(results') = probe /\ results'[probe] = v
        BY <3>1, <3>2
      <3> QED
        BY <2>2, <3>1, <3>3 DEF v
    <2>5. /\ Holds(probe, Heard) => code.version # "torn" /\ MayHold(code, probe)
          /\ ~Holds(probe, Heard) => MayBreak(code, probe)
      BY <2>3 DEF Told, MayHold, MayBreak
    <2>6. Scored'
      BY <2>1, <2>4, <2>5, VerdictScored
    <2> QED
      BY <2>1, <2>6, VerdictTold
  <1>5. CASE B!Error /\ Fault
    <2>1. Judging /\ B!Verdict(FALSE)
      BY <1>5, SameProbes DEF B!Error, B!Judging, Judging
    <2>2. Scored'
      BY <1>5, <2>1, VerdictScored
    <2> QED
      BY <2>1, <2>2, VerdictTold
  <1> QED
    BY <1>1, <1>2, <1>3, <1>4, <1>5 DEF Steps

-----------------------------------------------------------------------------
(* What a stray line does to a verdict.                                     *)

\* The stages of a grade: nothing is written before the server runs, and every
\* probe has been put when it is stopped.
Stages ==
  /\ at \in {"idle", "assembling"} => code.lab = "none" /\ pipe = <<>> /\ strays = 0
  /\ at \in {"calling", "awaiting"} => probe >= 1
  /\ at \in {"closing", "removing", "done"} => probe = 16 \/ code.lab = "none"
  /\ server = "loading" => /\ pipe = <<>> /\ strays = 0 /\ probe = 1 /\ got = <<>>
                           /\ at \in {"calling", "awaiting"}

\* The first stray line is read as the answer that is awaited. Unless a line is an
\* answer, it is none that a caller can use.
Doomed ==
  /\ pipe # <<>> /\ Head(pipe).shape = "noise"
  /\ at = "awaiting" \/ (at = "calling" /\ probe = 1 /\ got = <<>>)
Failed == \E i \in 1 .. Len(results) : ~results[i]
Spoilt == strays > 0 => mimic \/ Doomed \/ Failed

LEMMA StagesInit == Init => Stages
  BY DEF Init, Stages

LEMMA StagesNext == Typed /\ Tally /\ Stages /\ [Next]_vars => Stages'
  <1> SUFFICES ASSUME Typed, Tally, Stages, [Next]_vars
               PROVE  Stages'
    OBVIOUS
  <1>1. CASE UNCHANGED vars \/ Learner \/ (\E s \in Submissions : Begin(s))
    BY <1>1 DEF vars, Learner, Save, Saved, Leave, Begin, Stages, battery, grader, process
  <1>2. CASE (\E runtime \in Runtimes : BeginInProcess(runtime)) \/ Assemble
    <2>1. /\ server = "none" /\ probe = 0 /\ got = <<>> /\ code.lab = "none"
          /\ pipe = <<>> /\ strays = 0
      BY <1>2 DEF BeginInProcess, Assemble, Stages, Typed, Tally
    <2>2. CASE \E runtime \in Runtimes : BeginInProcess(runtime)
      BY <2>2 DEF BeginInProcess, Load, Stages
    <2>3. CASE Assemble
      <3>1. /\ UNCHANGED <<pipe, strays>>
            /\ \/ at' = "removing" /\ UNCHANGED <<battery, server>>
               \/ at' = "calling" /\ probe' = 1 /\ server' = "loading" /\ got' = got
        BY <2>3 DEF Assemble, Load
      <3> QED
        BY <2>1, <3>1 DEF Stages, battery
    <2> QED
      BY <1>2, <2>2, <2>3
  <1>3. CASE Ask
    BY <1>3 DEF Ask, Stages, battery
  <1>4. CASE Receive
    <2>1. at = "awaiting" /\ at' = "calling" /\ server' = server /\ probe \in 1 .. 15
      BY <1>4, ProbeTable DEF Receive, Tally, Judging
    <2>2. server # "loading"
      BY <1>4 DEF Receive, Stages
    <2>3. probe' >= 1
      <3>1. probe' = probe \/ probe' = probe + 1
        BY <1>4 DEF Receive, Verdict
      <3> QED
        BY <2>1, <3>1
    <2> QED
      BY <2>1, <2>2, <2>3 DEF Stages
  <1>5. CASE Judge
    <2>1. /\ at = "calling" /\ at' = at /\ server' = server /\ probe' = probe + 1
          /\ probe \in 1 .. 15 /\ Len(got) \in 1 .. 2
      BY <1>5, ProbeTable DEF Judge, Verdict, Answered, Judging, grader, process
    <2>2. server # "loading"
      BY <2>1 DEF Stages
    <2>3. probe' >= 1
      BY <2>1
    <2> QED
      BY <2>1, <2>2, <2>3 DEF Stages
  <1>6. CASE Close
    <2>1. at = "calling" /\ probe >= 1 /\ probe \in 0 .. 16 /\ probe \notin 1 .. 15
      BY <1>6, ProbeTable DEF Close, Judging, Stages, Tally
    <2>2. probe = 16
      BY <2>1
    <2>3. server # "loading"
      BY <2>2 DEF Stages
    <2> QED
      BY <1>6, <2>2, <2>3 DEF Close, Stages, battery
  <1>7. CASE Kill \/ Remove
    BY <1>7 DEF Kill, Remove, Stages, battery, process
  <1>8. CASE Import \/ Exit \/ Crash \/ EndRace
    BY <1>8 DEF Import, Exit, Crash, EndRace, Stages, Typed, battery, grader
  <1>9. CASE Race
    BY <1>9 DEF Race, Stages, battery, grader, process
  <1>10. ASSUME NEW r, Dispatch(r) \/ Fail(r) \/ StartRace(r) PROVE Stages'
    BY <1>10 DEF Dispatch, Fail, StartRace, Serving, Stages, Typed, battery, grader
  <1> QED
    BY <1>1, <1>2, <1>3, <1>4, <1>5, <1>6, <1>7, <1>8, <1>9, <1>10 DEF Next, Grader, Server

LEMMA FailedNext == Tally /\ Failed /\ [Next]_vars => Failed'
  <1> SUFFICES ASSUME Tally, Failed, [Next]_vars
               PROVE  Failed'
    OBVIOUS
  <1>1. results' = results \/ \E v : results' = Append(results, v)
    <2>1. CASE UNCHANGED vars \/ Learner \/ (\E s \in Submissions : Begin(s))
      BY <2>1 DEF vars, Learner, Save, Saved, Leave, Begin, battery
    <2>2. CASE (\E runtime \in Runtimes : BeginInProcess(runtime)) \/ Assemble
      BY <2>2 DEF BeginInProcess, Assemble, Load, battery
    <2>3. CASE Ask \/ Receive \/ Judge \/ Close \/ Kill \/ Remove
      BY <2>3 DEF Ask, Receive, Judge, Close, Kill, Remove, Verdict, battery
    <2>4. CASE Import \/ Exit \/ Crash \/ Race \/ EndRace
      BY <2>4 DEF Import, Exit, Crash, Race, EndRace, battery
    <2>5. ASSUME NEW r, Dispatch(r) \/ Fail(r) \/ StartRace(r) PROVE results' = results
      BY <2>5 DEF Dispatch, Fail, StartRace, battery
    <2> QED
      BY <2>1, <2>2, <2>3, <2>4, <2>5 DEF Next, Grader, Server
  <1>2. PICK i \in 1 .. Len(results) : ~results[i]
    BY DEF Failed
  <1>3. ASSUME NEW v, results' = Append(results, v)
        PROVE  Failed'
    <2>1. results \in Seq(BOOLEAN \cup {v}) /\ Len(results) \in Nat
      BY DEF Tally
    <2>2. Len(results') = Len(results) + 1 /\ results'[i] = results[i]
      BY <1>2, <1>3, <2>1
    <2>3. i \in 1 .. Len(results')
      BY <2>1, <2>2
    <2> QED
      BY <1>2, <2>2, <2>3 DEF Failed
  <1> QED
    BY <1>1, <1>3 DEF Failed

\* Lines are read in the order they are written, what is printed before what is
\* answered.
LEMMA WritesBehind ==
  ASSUME Typed, Lines(pipe), NEW lines, IsTuple(lines), NEW mayPrint, Write(lines, mayPrint)
  PROVE  /\ pipe # <<>> => pipe' # <<>> /\ Head(pipe') = Head(pipe)
         /\ pipe = <<>> /\ strays = 0 /\ strays' > 0 /\ ~mimic' =>
              pipe' # <<>> /\ Head(pipe').shape = "noise"
  <1>1. PICK n \in 0 .. (IF mayPrint /\ LearnersCode THEN MaxStray - strays ELSE 0) :
          \E shape \in [1 .. n -> Printable] :
            /\ strays' = strays + n
            /\ mimic' = (mimic \/ \E i \in 1 .. n : shape[i] # "noise")
            /\ pipe' = pipe \o [i \in 1 .. n |-> Printed(shape[i])] \o lines
    BY DEF Write
  <1>2. PICK shape \in [1 .. n -> Printable] :
          /\ strays' = strays + n
          /\ mimic' = (mimic \/ \E i \in 1 .. n : shape[i] # "noise")
          /\ pipe' = pipe \o [i \in 1 .. n |-> Printed(shape[i])] \o lines
    BY <1>1
  <1>3. strays \in Nat /\ n \in Nat
    BY <1>1, GradingAssumption DEF GradingAssumption, Typed
  <1> DEFINE S == Items(pipe) \cup Items(lines) \cup {Printed(p) : p \in Printable}
             printed == [i \in 1 .. n |-> Printed(shape[i])]
             rest == printed \o lines
  <1>4. printed \in Seq(S) /\ Len(printed) = n
    BY <1>3
  <1>5. ASSUME ~mimic', n > 0
         PROVE  printed[1].shape = "noise"
    <2>1. 1 \in 1 .. n
      BY <1>3, <1>5
    <2>2. printed[1] = Printed(shape[1]) /\ shape[1] = "noise"
      BY <1>2, <1>5, <2>1
    <2> QED
      BY <2>2 DEF Printed
  <1>6. pipe \in Seq(S) /\ lines \in Seq(S)
    BY SeqMonotonic DEF Lines, IsTuple
  <1> HIDE DEF S, printed
  <1>7. /\ rest \in Seq(S) /\ Len(rest) = n + Len(lines) /\ Len(lines) \in Nat
        /\ n > 0 => rest[1] = printed[1]
    <2>1. rest \in Seq(S) /\ Len(rest) = n + Len(lines) /\ Len(lines) \in Nat
      BY <1>4, <1>6
    <2>2. n > 0 => 1 \in 1 .. n /\ rest[1] = printed[1]
      BY <1>3, <1>4, <1>6
    <2> QED
      BY <1>4, <2>1, <2>2
  <1>8. (pipe \o printed) \o lines = pipe \o rest
    BY <1>4, <1>6
  <1> HIDE DEF rest
  <1>9. pipe' = pipe \o rest
    BY <1>2, <1>8 DEF printed
  <1>10. ASSUME pipe # <<>>
        PROVE  pipe' # <<>> /\ Head(pipe') = Head(pipe)
    <2>1. Len(pipe) \in Nat \ {0} /\ Len(rest) \in Nat
      BY <1>3, <1>6, <1>7, <1>10, EmptySeq
    <2>2. Len(pipe') = Len(pipe) + Len(rest)
      <3>1. pipe \o rest \in Seq(S) /\ Len(pipe \o rest) = Len(pipe) + Len(rest)
        BY <1>6, <1>7, ConcatProperties
      <3> QED
        BY <1>9, <3>1
    <2>3. pipe'[1] = pipe[1]
      <3>1. 1 \in 1 .. Len(pipe) + Len(rest) /\ 1 <= Len(pipe)
        BY <2>1
      <3> QED
        BY <1>6, <1>7, <1>9, <3>1, ConcatProperties
    <2>4. Len(pipe') # 0
      BY <2>1, <2>2
    <2> QED
      BY <2>3, <2>4
  <1>11. ASSUME pipe = <<>>, strays = 0, strays' > 0, ~mimic'
        PROVE  pipe' # <<>> /\ Head(pipe').shape = "noise"
    <2>1. n > 0
      BY <1>2, <1>3, <1>11
    <2>2. pipe' = rest
      BY <1>7, <1>9, <1>11
    <2>3. Len(pipe') # 0 /\ pipe'[1] = printed[1]
      BY <1>3, <1>7, <2>1, <2>2
    <2>4. printed[1].shape = "noise"
      BY <1>11, <1>5, <2>1
    <2> QED
      BY <2>3, <2>4
  <1> QED
    BY <1>10, <1>11

\* Before a server's own lines come those the code under test prints.
LEMMA WritesSpoil ==
  ASSUME Typed, Chatter, Wire, Stages, Spoilt, Failed => Failed',
         NEW lines, IsTuple(lines), NEW mayPrint, Write(lines, mayPrint),
         server = "loading" \/ (server \in {"serving", "racing"} /\ requests # <<>>),
         UNCHANGED <<at, probe, got>>
  PROVE  Spoilt'
  <1> SUFFICES ASSUME strays' > 0, ~mimic', ~Failed
               PROVE  Doomed'
    BY DEF Spoilt
  <1>1. ~mimic
    BY PrintsBounded
  <1>2. Lines(pipe) /\ strays \in Nat
    BY GradingAssumption DEF Chatter, Typed, GradingAssumption
  <1>3. CASE strays = 0
    <2>1. pipe = <<>> /\ (at = "awaiting" \/ (at = "calling" /\ probe = 1 /\ got = <<>>))
      <3>1. CASE server = "loading"
        BY <3>1 DEF Stages
      <3>2. CASE server \in {"serving", "racing"} /\ requests # <<>>
        BY <1>3, <3>2, Served DEF Pending
      <3> QED
        BY <3>1, <3>2
    <2>2. pipe' # <<>> /\ Head(pipe').shape = "noise"
      BY <1>2, <1>3, <2>1, WritesBehind
    <2> QED
      BY <2>1, <2>2 DEF Doomed
  <1>4. CASE strays > 0
    <2>1. Doomed
      BY <1>4, <1>1 DEF Spoilt
    <2>2. pipe' # <<>> /\ Head(pipe') = Head(pipe)
      BY <1>2, <2>1, WritesBehind DEF Doomed
    <2> QED
      BY <2>1, <2>2 DEF Doomed
  <1> QED
    BY <1>2, <1>3, <1>4

\* No caller makes anything of a stray line.
LEMMA NoiseFails ==
  ASSUME Tally, Tally', Receive, pipe # <<>>, Head(pipe).shape = "noise"
  PROVE  Failed'
  <1> DEFINE method == CallsOf(probe)[Len(got) + 1]
  <1>1. Judging /\ Len(got) + 1 \in 1 .. Len(CallsOf(probe)) /\ probe \in 1 .. 15
    <2>1. Judging /\ Len(got) < Len(CallsOf(probe)) /\ IsTuple(got)
      BY DEF Tally, Receive
    <2>2. Len(got) \in Nat
      BY <2>1, TupleOf DEF IsTuple
    <2>3. probe \in 1 .. 15 /\ Len(CallsOf(probe)) \in 1 .. 2
      BY <2>1, ProbeTable DEF Judging
    <2> QED
      BY <2>1, <2>2, <2>3
  <1>2. method \in Methods
    BY <1>1, ProbeTable
  <1>3. ~Unpacks(method, Head(pipe))
    BY <1>2, Shapes DEF Unpacks
  <1>4. Verdict(FALSE)
    BY <1>3 DEF Receive
  <1>5. Len(results) + 1 = probe /\ results' = Append(results, FALSE) /\ results \in Seq(BOOLEAN)
    BY <1>1, <1>4 DEF Verdict, Tally
  <1>6. Len(results') = probe /\ results'[probe] = FALSE
    BY <1>5
  <1> QED
    BY <1>1, <1>6 DEF Failed

LEMMA SpoiltNext == Talk /\ Talk' /\ Wire /\ Stages /\ Spoilt /\ [Next]_vars => Spoilt'
  <1> SUFFICES ASSUME Talk, Talk', Wire, Stages, Spoilt, [Next]_vars
               PROVE  Spoilt'
    OBVIOUS
  <1>1. Typed /\ Tally /\ Chatter /\ Heats /\ Tally'
    BY DEF Talk
  <1>2. Failed => Failed'
    BY <1>1, FailedNext
  <1>3. ASSUME UNCHANGED <<at, probe, got, pipe, strays, mimic>>
        PROVE  Spoilt'
    BY <1>2, <1>3 DEF Spoilt, Doomed
  <1>4. CASE UNCHANGED vars \/ Learner
    BY <1>3, <1>4 DEF vars, Learner, Save, Saved, Leave, battery, grader, process
  <1>5. CASE \/ (\E s \in Submissions : Begin(s)) \/ Assemble
             \/ \E runtime \in Runtimes : BeginInProcess(runtime)
    <2>1. strays' = strays /\ (at = "idle" \/ at = "assembling")
      BY <1>5 DEF Begin, BeginInProcess, Assemble, process
    <2>2. strays' = 0
      BY <2>1 DEF Stages
    <2> QED
      BY <2>2 DEF Spoilt
  <1>6. CASE Race \/ Exit \/ Crash
    BY <1>3, <1>6 DEF Race, Exit, Crash, battery, grader, process
  <1>7. ASSUME NEW r, StartRace(r) PROVE Spoilt'
    BY <1>3, <1>7 DEF StartRace, battery, grader
  <1>8. CASE Ask
    BY <1>2, <1>8 DEF Ask, Spoilt, Doomed, battery
  <1>9. CASE Receive
    <2>1. UNCHANGED <<strays, mimic>> /\ at = "awaiting"
      BY <1>9 DEF Receive
    <2>2. Doomed => Failed'
      BY <1>1, <1>9, NoiseFails DEF Doomed
    <2> QED
      BY <1>2, <2>1, <2>2 DEF Spoilt
  <1>10. CASE Judge \/ Close
    <2>1. UNCHANGED <<strays, mimic>> /\ at = "calling"
      BY <1>10 DEF Judge, Close, process
    <2>2. ~Doomed
      <3>1. Len(CallsOf(1)) \in 1 .. 2 /\ 1 \in DOMAIN Probes
        BY ProbeTable
      <3>2. Len(<<>>) = 0
        OBVIOUS
      <3>3. SUFFICES ASSUME probe = 1, got = <<>>
                     PROVE  FALSE
        BY <2>1 DEF Doomed
      <3>4. Judging /\ ~Answered
        BY <3>1, <3>2, <3>3 DEF Answered, Judging
      <3> QED
        BY <1>10, <3>4 DEF Judge, Close
    <2> QED
      BY <1>2, <2>1, <2>2 DEF Spoilt
  <1>11. CASE Kill \/ Remove
    BY <1>2, <1>11 DEF Kill, Remove, Spoilt, Doomed, process
  <1>12. CASE Import
    <2>1. server = "loading" /\ UNCHANGED <<at, probe, got>>
      BY <1>12 DEF Import, battery, grader
    <2>2. CASE UNCHANGED <<pipe, strays, mimic>>
      BY <1>3, <2>1, <2>2
    <2>3. CASE Write(<<>>, TRUE)
      <3>1. IsTuple(<<>>)
        BY TupleOf, EmptySeq
      <3>2. PICK mayPrint : Write(<<>>, mayPrint)
        BY <2>3
      <3> QED
        BY <1>1, <1>2, <2>1, <3>1, <3>2, WritesSpoil
    <2> QED
      BY <1>12, <2>2, <2>3 DEF Import
  <1>13. ASSUME NEW line, NEW mayPrint, Write(<<line>>, mayPrint),
                server \in {"serving", "racing"}, requests # <<>>, UNCHANGED <<at, probe, got>>
         PROVE  Spoilt'
    <2>1. IsTuple(<<line>>)
      <3>1. <<line>> \in Seq({line})
        OBVIOUS
      <3> QED
        BY <3>1, TupleOf
    <2> QED
      BY <1>1, <1>2, <1>13, <2>1, WritesSpoil
  <1>14. CASE EndRace
    <2> DEFINE r == Head(requests)
               line == Result(r.probe, r.call, Cardinality(Through))
    <2>1. /\ Write(<<line>>, Own(r)) /\ server = "racing" /\ requests # <<>>
          /\ UNCHANGED <<at, probe, got>>
      BY <1>1, <1>14 DEF EndRace, Heats, battery, grader
    <2> HIDE DEF line
    <2> QED
      BY <1>13, <2>1
  <1>15. ASSUME NEW r, Dispatch(r) PROVE Spoilt'
    <2>1. PICK v : Write(<<Result(r.probe, r.call, v)>>, Own(r))
      BY <1>15 DEF Dispatch
    <2>2. server = "serving" /\ requests # <<>> /\ UNCHANGED <<at, probe, got>>
      BY <1>15 DEF Dispatch, Serving, grader
    <2> QED
      BY <1>13, <2>1, <2>2
  <1>16. ASSUME NEW r, Fail(r) PROVE Spoilt'
    <2>1. PICK mayPrint : Write(<<Raised(r.probe, r.call)>>, mayPrint)
      BY <1>16 DEF Fail
    <2>2. server = "serving" /\ requests # <<>> /\ UNCHANGED <<at, probe, got>>
      BY <1>16 DEF Fail, Serving, battery, grader
    <2> QED
      BY <1>13, <2>1, <2>2
  <1> QED
    BY <1>4, <1>5, <1>6, <1>7, <1>8, <1>9, <1>10, <1>11, <1>12, <1>14, <1>15, <1>16
       DEF Next, Grader, Server

-----------------------------------------------------------------------------
(* The verdicts.                                                            *)

\* A grade that prints nothing is scored as the battery scores.
Verdicts == strays = 0 => Told /\ Recalls /\ Scored

LEMMA VerdictsInit == Init => Verdicts
  <1> SUFFICES ASSUME Init
               PROVE  Told /\ Recalls /\ Scored
    BY DEF Verdicts
  <1>1. /\ Heard = <<>> /\ probe = 0 /\ results = <<>> /\ memory = Fresh
    BY DEF Init, Heard
  <1>2. IsTuple(<<>>) /\ Len(<<>>) = 0
    BY TupleOf, EmptySeq
  <1>3. 0 \notin DOMAIN Probes
    BY ProbeTable
  <1>4. Told
    BY <1>1, <1>2, <1>3 DEF Told, Judging
  <1>5. Recalls
    BY <1>1, <1>2 DEF Recalls, Fresh, Kept, Undenied
  <1>6. Scored
    BY <1>1, <1>2 DEF Scored
  <1> QED
    BY <1>4, <1>5, <1>6

\* Errors are not forgotten, and no stray line is taken back.
LEMMA Remains == Typed /\ [Next]_vars => (raised => raised') /\ strays <= strays'
  <1> SUFFICES ASSUME Typed, [Next]_vars
               PROVE  (raised => raised') /\ strays <= strays'
    OBVIOUS
  <1>0. strays \in Nat
    BY GradingAssumption DEF Typed, GradingAssumption
  <1>9. ASSUME UNCHANGED <<raised, strays>>
        PROVE  (raised => raised') /\ strays <= strays'
    BY <1>0, <1>9
  <1>1. CASE \/ UNCHANGED vars \/ Learner \/ (\E s \in Submissions : Begin(s))
             \/ (\E runtime \in Runtimes : BeginInProcess(runtime)) \/ Assemble
    BY <1>1, <1>9 DEF vars, Learner, Save, Saved, Leave, Begin, BeginInProcess, Assemble, process
  <1>2. CASE Ask \/ Receive \/ Judge \/ Close \/ Kill \/ Remove
    BY <1>2, <1>9 DEF Ask, Receive, Judge, Close, Kill, Remove, process
  <1>3. CASE Race \/ Exit \/ Crash
    BY <1>0, <1>3 DEF Race, Exit, Crash, process
  <1>4. CASE Import
    <2>1. CASE Write(<<>>, TRUE)
      BY <1>4, <2>1, PrintsBounded DEF Import
    <2>2. CASE UNCHANGED strays
      BY <1>4, <1>9, <2>2 DEF Import
    <2> QED
      BY <1>4, <2>1, <2>2 DEF Import
  <1>5. CASE EndRace
    BY <1>5, PrintsBounded DEF EndRace
  <1>6. ASSUME NEW r, StartRace(r) PROVE (raised => raised') /\ strays <= strays'
    BY <1>0, <1>6 DEF StartRace
  <1>7. ASSUME NEW r, Dispatch(r) PROVE (raised => raised') /\ strays <= strays'
    BY <1>7, PrintsBounded DEF Dispatch
  <1>8. ASSUME NEW r, Fail(r) PROVE (raised => raised') /\ strays <= strays'
    BY <1>8, PrintsBounded DEF Fail
  <1> QED
    BY <1>1, <1>2, <1>3, <1>4, <1>5, <1>6, <1>7, <1>8 DEF Next, Grader, Server

LEMMA VerdictsNext ==
  ASSUME Talk, Talk', Wire, Wire', Blame, Verdicts, [Next]_vars
  PROVE  Verdicts'
  <1> SUFFICES ASSUME strays' = 0
               PROVE  Told' /\ Recalls' /\ Scored'
    BY DEF Verdicts
  <1>1. Typed /\ Tally /\ Tally' /\ strays \in Nat
    BY GradingAssumption DEF Talk, Typed, GradingAssumption
  <1>2. (raised => raised') /\ strays = 0
    BY <1>1, Remains
  <1>3. [Steps]_(B!vars)
    BY StepImplements
  <1> QED
    BY <1>1, <1>2, <1>3, StepsScored DEF Verdicts

\* What is known of every grade.
GradeInv == Talk /\ Wire /\ Blame /\ Stages /\ Spoilt /\ Verdicts

LEMMA GradedInvariance == Spec => []GradeInv
  <1>1. Init => GradeInv
    <2>1. Init => Blame /\ Spoilt
      BY DEF Init, Blame, Spoilt
    <2> QED
      BY <2>1, TalkInit, WireInit, StagesInit, VerdictsInit DEF GradeInv
  <1>2. GradeInv /\ [Next]_vars => GradeInv'
    <2> SUFFICES ASSUME GradeInv, [Next]_vars
                 PROVE  GradeInv'
      OBVIOUS
    <2>1. Talk /\ Wire /\ Blame /\ Stages /\ Spoilt /\ Verdicts /\ Typed /\ Tally
      BY DEF GradeInv, Talk
    <2>2. Talk' /\ Wire' /\ Blame' /\ Stages'
      BY <2>1, TalkNext, WireNext, BlameNext, StagesNext
    <2>3. Spoilt' /\ Verdicts'
      BY <2>1, <2>2, SpoiltNext, VerdictsNext
    <2> QED
      BY <2>2, <2>3 DEF GradeInv
  <1> QED
    BY <1>1, <1>2, PTL DEF Spec

\* What a grade that ended has put and found.
LEMMA EndedGrade ==
  ASSUME GradeInv, Finished
  PROVE  /\ DOMAIN results = 1 .. 15 /\ results \in Seq(BOOLEAN) /\ Len(results) = 15
         /\ Broken = {Inv(p) : p \in {q \in 1 .. 15 : ~results[q]}}
         /\ strays \in Nat
         /\ code.lab \in Lab \cup {"builtin", "external"}
         /\ code.lab \in Lab => \/ code.version = "vulnerable"
                                \/ code.version = "solution"
                                \/ code.version = "torn"
         /\ code.lab \notin Lab => code.version = "none"
  <1>1. Typed /\ Tally /\ Stages
    BY DEF GradeInv, Talk
  <1>2. probe = 16
    BY <1>1 DEF Stages, Finished
  <1>3. results \in Seq(BOOLEAN) /\ Len(results) = 15
    BY <1>1, <1>2 DEF Tally
  <1>4. DOMAIN results = 1 .. 15
    BY <1>3
  <1>5. strays \in Nat
    BY <1>1, GradingAssumption DEF Typed, GradingAssumption
  <1>6. code \in B!Codes
    BY <1>1 DEF Typed, Known, Finished
  <1>7. \/ code \in [lab : Lab, version : {"vulnerable", "solution", "torn"}]
        \/ code \in [lab : {"builtin", "external"}, version : {"none"}]
    BY <1>6, SameHarnesses DEF B!Codes
  <1>8. "builtin" \notin Lab /\ "external" \notin Lab
    BY ChallengeTable
  <1> QED
    BY <1>3, <1>4, <1>5, <1>7, <1>8 DEF Broken

\* The witness of a defect is of the invariant its scenario names.
LEMMA WitnessInv ==
  ASSUME NEW l \in Lab \ (Blind \cup {"L011"})
  PROVE  Inv(Witness(l)) = Challenges[l].inv
  <1>1. l \in {"L001", "L002", "L003", "L004", "L006",
              "L007", "L008", "L009", "L010", "L012"}
    BY ChallengeTable DEF Blind
  <1>3. CASE l = "L001"
    <2>1. Witness("L001") = 1 /\ Inv(1) = "INV-01" /\ Challenges["L001"].inv = "INV-01"
      <3>1. Witness("L001") = 1
        BY DEF Witness
      <3>2. Inv(1) = "INV-01"
        BY ProbeRows DEF Puts
      <3>3. Challenges["L001"].inv = "INV-01"
        BY ChallengeTable DEF Row
      <3> QED
        BY <3>1, <3>2, <3>3
    <2> QED
      BY <1>3, <2>1
  <1>4. CASE l = "L002"
    <2>1. Witness("L002") = 2 /\ Inv(2) = "INV-02" /\ Challenges["L002"].inv = "INV-02"
      <3>1. Witness("L002") = 2
        BY DEF Witness
      <3>2. Inv(2) = "INV-02"
        BY ProbeRows DEF Puts
      <3>3. Challenges["L002"].inv = "INV-02"
        BY ChallengeTable DEF Row
      <3> QED
        BY <3>1, <3>2, <3>3
    <2> QED
      BY <1>4, <2>1
  <1>5. CASE l = "L003"
    <2>1. Witness("L003") = 6 /\ Inv(6) = "INV-06-instr" /\ Challenges["L003"].inv = "INV-06-instr"
      <3>1. Witness("L003") = 6
        BY DEF Witness
      <3>2. Inv(6) = "INV-06-instr"
        BY ProbeRows DEF Puts
      <3>3. Challenges["L003"].inv = "INV-06-instr"
        BY ChallengeTable DEF Row
      <3> QED
        BY <3>1, <3>2, <3>3
    <2> QED
      BY <1>5, <2>1
  <1>6. CASE l = "L004"
    <2>1. Witness("L004") = 4 /\ Inv(4) = "INV-04" /\ Challenges["L004"].inv = "INV-04"
      <3>1. Witness("L004") = 4
        BY DEF Witness
      <3>2. Inv(4) = "INV-04"
        BY ProbeRows DEF Puts
      <3>3. Challenges["L004"].inv = "INV-04"
        BY ChallengeTable DEF Row
      <3> QED
        BY <3>1, <3>2, <3>3
    <2> QED
      BY <1>6, <2>1
  <1>7. CASE l = "L006"
    <2>1. /\ Witness("L006") = 7 /\ Inv(7) = "INV-06-budget"
          /\ Challenges["L006"].inv = "INV-06-budget"
      <3>1. Witness("L006") = 7
        BY DEF Witness
      <3>2. Inv(7) = "INV-06-budget"
        BY ProbeRows DEF Puts
      <3>3. Challenges["L006"].inv = "INV-06-budget"
        BY ChallengeTable DEF Row
      <3> QED
        BY <3>1, <3>2, <3>3
    <2> QED
      BY <1>7, <2>1
  <1>8. CASE l = "L007"
    <2>1. Witness("L007") = 3 /\ Inv(3) = "INV-03" /\ Challenges["L007"].inv = "INV-03"
      <3>1. Witness("L007") = 3
        BY DEF Witness
      <3>2. Inv(3) = "INV-03"
        BY ProbeRows DEF Puts
      <3>3. Challenges["L007"].inv = "INV-03"
        BY ChallengeTable DEF Row
      <3> QED
        BY <3>1, <3>2, <3>3
    <2> QED
      BY <1>8, <2>1
  <1>9. CASE l = "L008"
    <2>1. Witness("L008") = 14 /\ Inv(14) = "INV-13" /\ Challenges["L008"].inv = "INV-13"
      <3>1. Witness("L008") = 14
        BY DEF Witness
      <3>2. Inv(14) = "INV-13"
        BY ProbeRows DEF Puts
      <3>3. Challenges["L008"].inv = "INV-13"
        BY ChallengeTable DEF Row
      <3> QED
        BY <3>1, <3>2, <3>3
    <2> QED
      BY <1>9, <2>1
  <1>10. CASE l = "L009"
    <2>1. Witness("L009") = 8 /\ Inv(8) = "INV-07" /\ Challenges["L009"].inv = "INV-07"
      <3>1. Witness("L009") = 8
        BY DEF Witness
      <3>2. Inv(8) = "INV-07"
        BY ProbeRows DEF Puts
      <3>3. Challenges["L009"].inv = "INV-07"
        BY ChallengeTable DEF Row
      <3> QED
        BY <3>1, <3>2, <3>3
    <2> QED
      BY <1>10, <2>1
  <1>11. CASE l = "L010"
    <2>1. Witness("L010") = 10 /\ Inv(10) = "INV-09" /\ Challenges["L010"].inv = "INV-09"
      <3>1. Witness("L010") = 10
        BY DEF Witness
      <3>2. Inv(10) = "INV-09"
        BY ProbeRows DEF Puts
      <3>3. Challenges["L010"].inv = "INV-09"
        BY ChallengeTable DEF Row
      <3> QED
        BY <3>1, <3>2, <3>3
    <2> QED
      BY <1>11, <2>1
  <1>12. CASE l = "L012"
    <2>1. Witness("L012") = 12 /\ Inv(12) = "INV-11" /\ Challenges["L012"].inv = "INV-11"
      <3>1. Witness("L012") = 12
        BY DEF Witness
      <3>2. Inv(12) = "INV-11"
        BY ProbeRows DEF Puts
      <3>3. Challenges["L012"].inv = "INV-11"
        BY ChallengeTable DEF Row
      <3> QED
        BY <3>1, <3>2, <3>3
    <2> QED
      BY <1>12, <2>1
  <1> QED
    BY <1>1, <1>3, <1>4, <1>5, <1>6, <1>7, <1>8, <1>9, <1>10, <1>11, <1>12

\* battery.py, rpc.py: whatever the learner saves and whatever the code under
\* test raises, ends or prints that is not itself an answer, a grade that passes
\* is of a harness without a defect that the battery covers.
THEOREM PassesAreFixed == Spec => []PassMeansFixed
  <1>1. ASSUME GradeInv
        PROVE  PassMeansFixed
    <2> SUFFICES ASSUME Passed, ~mimic, code.lab \notin Blind,
                        code.version # "solution", code.version # "none"
                 PROVE  FALSE
      BY DEF PassMeansFixed
    <2>1. Finished /\ Broken = {}
      BY DEF Passed
    <2>2. /\ DOMAIN results = 1 .. 15 /\ Len(results) = 15 /\ strays \in Nat
          /\ \A p \in 1 .. 15 : results[p]
          /\ code.lab \in Lab /\ (code.version = "vulnerable" \/ code.version = "torn")
      BY <1>1, <2>1, EndedGrade
    <2>3. strays = 0
      <3>1. ~Failed
        BY <2>2 DEF Failed
      <3>2. ~Doomed
        BY <2>1 DEF Doomed, Finished
      <3> QED
        BY <1>1, <2>2, <3>1, <3>2 DEF GradeInv, Spoilt
    <2>4. \A p \in 1 .. 15 : code.version # "torn" /\ MayHold(code, p)
      BY <1>1, <2>2, <2>3 DEF GradeInv, Verdicts, Scored
    <2>5. code.version # "torn"
      <3>1. 1 \in 1 .. 15
        OBVIOUS
      <3> QED
        BY <2>4, <3>1
    <2>6. Witness(code.lab) \in 1 .. 15 /\ ~MayHold(code, Witness(code.lab))
      BY <2>2, <2>5, VulnerableBreaks
    <2> QED
      BY <2>4, <2>6
  <1> QED
    BY <1>1, GradedInvariance, PTL

\* conformance/battery.py, test_battery.py: where nothing fails on the way, the
\* verdict is exact, though the probes share the harness's long-lived objects.
THEOREM VerdictsAreExact == Spec => []FaultFreeVerdicts
  <1>1. ASSUME GradeInv
        PROVE  FaultFreeVerdicts
    <2> SUFFICES ASSUME Finished, strays = 0, ~raised, code.version # "torn"
                 PROVE  /\ code.lab = "builtin" => Broken = {}
                        /\ code.lab = "external" => Broken = {"INV-01", "INV-11"}
                        /\ code.lab \in Lab /\ code.version = "solution" =>
                             code.lab = "L004" \/ Broken = {}
                        /\ code.lab \in Lab /\ code.version = "vulnerable" =>
                             \/ code.lab \in Blind \cup {"L011"}
                             \/ Challenges[code.lab].inv \in Broken
      <3>1. ASSUME Finished
            PROVE  /\ code.lab \in Lab \cup {"builtin", "external"}
                   /\ code.lab \notin Lab => code.version = "none"
                   /\ code.lab \in Lab => \/ code.version = "vulnerable"
                                          \/ code.version = "solution"
                                          \/ code.version = "torn"
        BY <1>1, <3>1, EndedGrade
      <3>2. "builtin" \notin Lab /\ "external" \notin Lab
        BY ChallengeTable
      <3>3. SUFFICES ASSUME Finished, strays = 0, ~raised, code.version # "torn"
                     PROVE  CASE code.lab = "builtin" -> Broken = {}
                              [] code.lab = "external" -> Broken = {"INV-01", "INV-11"}
                              [] code.version = "solution" -> code.lab = "L004" \/ Broken = {}
                              [] OTHER -> \/ code.lab \in Blind \cup {"L011"}
                                          \/ Challenges[code.lab].inv \in Broken
        BY DEF FaultFreeVerdicts
      <3>4. CASE code.lab = "builtin"
        BY <3>3, <3>4
      <3>5. CASE code.lab = "external"
        <4>1. Broken = {"INV-01", "INV-11"}
          BY <3>3, <3>5
        <4>2. code.version # "solution"
          BY <3>1, <3>2, <3>3, <3>5
        <4> QED
          BY <3>5, <4>1, <4>2
      <3>6. CASE code.lab \in Lab /\ code.version = "solution"
        BY <3>2, <3>3, <3>6
      <3>7. CASE code.lab \in Lab /\ code.version = "vulnerable"
        BY <3>2, <3>3, <3>7
      <3> QED
        BY <3>1, <3>3, <3>4, <3>5, <3>6, <3>7
    <2>1. /\ DOMAIN results = 1 .. 15 /\ Len(results) = 15
          /\ Broken = {Inv(p) : p \in {q \in 1 .. 15 : ~results[q]}}
      BY <1>1, EndedGrade
    <2>2. \A p \in 1 .. 15 : /\ results[p] => MayHold(code, p)
                             /\ ~results[p] => MayBreak(code, p)
      BY <1>1, <2>1 DEF GradeInv, Verdicts, Scored, Fault
    <2>3. ASSUME Fixed(code) PROVE Broken = {}
      BY <2>1, <2>2, <2>3, FixedHold
    <2>4. ASSUME code.lab = "external" PROVE Broken = {"INV-01", "INV-11"}
      <3>1. {q \in 1 .. 15 : ~results[q]} = {1, 12}
        <4>1. \A p \in 1 .. 15 : ~results[p] <=> p \in {1, 12}
          BY <2>2, <2>4, ExternalHolds
        <4>2. 1 \in 1 .. 15 /\ 12 \in 1 .. 15
          OBVIOUS
        <4> QED
          BY <4>1, <4>2
      <3>2. Inv(1) = "INV-01" /\ Inv(12) = "INV-11"
        BY ProbeRows DEF Puts
      <3> QED
        BY <2>1, <3>1, <3>2
    <2>5. ASSUME code.lab \in Lab, code.version = "vulnerable",
                 code.lab \notin Blind, code.lab # "L011"
          PROVE  Challenges[code.lab].inv \in Broken
      <3>1. Witness(code.lab) \in 1 .. 15 /\ ~MayHold(code, Witness(code.lab))
        BY <2>5, VulnerableBreaks
      <3>2. Inv(Witness(code.lab)) \in Broken
        BY <2>1, <2>2, <3>1
      <3>3. Inv(Witness(code.lab)) = Challenges[code.lab].inv
        BY <2>5, WitnessInv
      <3> QED
        BY <3>2, <3>3
    <2> QED
      BY <2>3, <2>4, <2>5 DEF Fixed
  <1> QED
    BY <1>1, GradedInvariance, PTL
===============================================================================
