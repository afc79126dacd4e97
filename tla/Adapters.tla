-------------------------------- MODULE Adapters --------------------------------
(***************************************************************************)
(* The conformance battery's probes and the harnesses they are put to: the *)
(* reference, the mock of a foreign runtime, and every challenge loaded    *)
(* with its vulnerable or its reference slot (dvah/conformance/,           *)
(* challenges/*/scenario.yaml).                                            *)
(*                                                                         *)
(* An adapter's method is an operator from the slots of the harness, what  *)
(* its long-lived objects remember, and the arguments of the probe, to the *)
(* answer. Hashes and texts are the names of the steps and values they     *)
(* are of.                                                                 *)
(***************************************************************************)
EXTENDS Naturals, Sequences, FiniteSets

-----------------------------------------------------------------------------
(* Harnesses under test: the invariant a challenge is about, the slot it    *)
(* overrides, its defective class and the class of its reference solution   *)
(* (scenario.yaml).                                                         *)

Override(inv, slot, vulnerable, solution) ==
  [inv |-> inv, slot |-> slot, vulnerable |-> vulnerable, solution |-> solution]

Challenges == [
  L001 |-> Override("INV-01", "executor", "authorizes once", "builtin"),
  L002 |-> Override("INV-02", "capabilities", "widens", "builtin"),
  L003 |-> Override("INV-06-instr", "compiler", "blind to trust", "builtin"),
  L004 |-> Override("INV-04", "secrets", "does not redact", "redacts its own"),
  L005 |-> Override("INV-05", "provenance", "drops the tag", "builtin"),
  L006 |-> Override("INV-06-budget", "budget", "per agent", "builtin"),
  L007 |-> Override("INV-03", "approvals", "binds to the plan", "builtin"),
  L008 |-> Override("INV-13", "policy", "by tool", "builtin"),
  L009 |-> Override("INV-07", "skills", "accepts all", "builtin"),
  L010 |-> Override("INV-09", "policy", "caches", "revokes its own"),
  L011 |-> Override("INV-10", "compiler", "inlines all memory", "builtin"),
  L012 |-> Override("INV-11", "approvals", "omits the digest", "builtin"),
  L013 |-> Override("INV-12", "budget", "racy", "builtin"),
  L014 |-> Override("INV-14", "tools", "uncontained", "contained")]

Slot == {Challenges[c].slot : c \in DOMAIN Challenges}
Lab == DOMAIN Challenges

Reference == [slot \in Slot |-> "builtin"]

\* load_challenge: the reference harness but for the overridden slot.
Slots(code) ==
  IF code.lab \notin Lab THEN Reference
  ELSE [Reference EXCEPT ![Challenges[code.lab].slot] = Challenges[code.lab][code.version]]

\* The constructors that take the argument the loaded adapter rebuilds a slot
\* with; the objects of the others are used as they are.
Rebuilt(class) == class \in {"builtin", "racy"}

-----------------------------------------------------------------------------
(* The adapters' methods.                                                   *)

Cap(ns, act) == <<ns, act>>

\* The policy in the slot: CachingPolicy remembers its first decision for good.
Allows(slots, cached, caps, op, revoked) ==
  CASE slots.policy = "by tool" -> \E c \in caps : c[1] = op[1]
    [] slots.policy = "caches" /\ cached # "none" -> cached = "allow"
    [] slots.policy = "revokes its own" -> op \in caps \ {Cap("files", "delete")}
    [] OTHER -> op \in caps /\ (Rebuilt(slots.policy) => op \notin revoked)

Cached(slots, cached, caps, op) ==
  IF slots.policy # "caches" \/ cached # "none" THEN cached
  ELSE IF op \in caps THEN "allow" ELSE "deny"

\* The steps of a plan in the order they are run, delegations expanded. The
\* agent a step belongs to, and what it does.
Step(agent, what) == [agent |-> agent, what |-> what]

\* Which steps a budget lets through: those of each agent's own count, or the
\* first of all of them.
Charged(slots, steps, max) ==
  IF slots.budget = "per agent"
  THEN {i \in DOMAIN steps :
          Cardinality({j \in 1..i : steps[j].agent = steps[i].agent}) <= max}
  ELSE {i \in DOMAIN steps : i <= max}

\* PlanTimeExecutor runs the root's steps, a delegation among them, with one
\* decision, no budget and no provenance.
RunPlan(slots, cached, plan, max) ==
  LET What(is) == {plan.steps[i].what : i \in is}
      own == {i \in DOMAIN plan.steps : plan.steps[i].agent = "root"}
      run == IF ~Allows(slots, cached, plan.caps, plan.op, {}) THEN {}
             ELSE IF slots.executor = "authorizes once" THEN own
             ELSE Charged(slots, plan.steps, max)
      delegations == IF slots.executor = "authorizes once" /\ run # {} /\ own # DOMAIN plan.steps
                     THEN 1 ELSE 0
  IN [executed |-> What(run) \cup (IF delegations = 1 THEN {"delegate"} ELSE {}),
      authorized |-> IF slots.executor = "authorizes once" THEN What(run \cap {1}) ELSE What(run),
      count |-> Cardinality(run) + delegations,
      recorded |-> IF slots.executor = "authorizes once" THEN 0 ELSE Cardinality(run)]

DeriveChild(slots, requested, parent, policy) ==
  IF slots.capabilities = "widens" THEN policy ELSE (requested \cap parent) \cap policy

\* What of an action a grant is bound to; as a defect, one that leaves the tool's
\* digest out.
BindingWithoutDigest(slots, action) ==
  IF slots.approvals = "binds to the plan" THEN [plan |-> TRUE] ELSE [resource |-> action.resource]

Binding(slots, action) ==
  CASE slots.approvals = "binds to the plan" -> [plan |-> TRUE]
    [] slots.approvals = "omits the digest" -> [resource |-> action.resource]
    [] OTHER -> action

Validates(slots, grant, action) ==
  slots.approvals = "binds to the plan" \/ grant = Binding(slots, action)

\* Observations and recalled memory are untrusted; a broker that is not rebuilt
\* does not know the probe's secret.
CompileContext(slots, secret) ==
  [instructed |-> slots.compiler \in {"blind to trust", "inlines all memory"},
   leaks |-> secret /\ ~Rebuilt(slots.secrets)]

SkillGrant(slots, approved, requested, pinned) ==
  CASE slots.skills = "accepts all" -> requested
    [] slots.skills = "builtin" -> IF pinned THEN requested \cap approved ELSE {}

\* authorize_attribution and external_tool_trust are the reference's own.
Attributed(principal, root, tip, actor) == root = principal /\ tip = actor
AssignedTrust(declared) == IF declared = "instruction" THEN "untrusted" ELSE declared

\* A loaded challenge's memory is empty.
Recall(code, tenant) ==
  IF code.lab = "builtin" THEN {[tenant |-> tenant, instruction |-> FALSE]} ELSE {}

\* How many of the racing charges may succeed; a racy tracker may be lucky.
RaceOutcomes(slots, limit, concurrent) ==
  CASE slots.budget = "per agent" -> {concurrent}
    [] slots.budget = "racy" -> limit..concurrent
    [] OTHER -> {limit}

-----------------------------------------------------------------------------
(* The probes, in the order of INVARIANTS: the calls each of them makes.    *)

CONSTANT Concurrent   \* bound: the threads that race for a shared limit of one

IssueRead == Cap("github", "issue.read")
Reads(steps) == [caps |-> {Cap("files", "read")}, op |-> Cap("files", "read"), steps |-> steps]
Issues(steps) == [caps |-> {IssueRead}, op |-> IssueRead, steps |-> steps]

Plans == [
  two  |-> Reads(<<Step("root", "a"), Step("root", "b")>>),
  one  |-> Issues(<<Step("root", "x")>>),
  tree |-> Issues(<<Step("root", "x"), Step("root", "x"), Step("c1", "x"), Step("c1", "x"),
                    Step("c2", "x"), Step("c2", "x")>>)]

Probes == <<
  [inv |-> "INV-01", calls |-> <<"run_plan">>],
  [inv |-> "INV-02", calls |-> <<"derive_child">>],
  [inv |-> "INV-03", calls |-> <<"approve", "validate">>],
  [inv |-> "INV-04", calls |-> <<"compile_context">>],
  [inv |-> "INV-05", calls |-> <<"run_plan">>],
  [inv |-> "INV-06-instr", calls |-> <<"compile_context">>],
  [inv |-> "INV-06-budget", calls |-> <<"run_plan">>],
  [inv |-> "INV-07", calls |-> <<"skill_grant">>],
  [inv |-> "INV-08", calls |-> <<"authorize_attribution">>],
  [inv |-> "INV-09", calls |-> <<"authorize">>],
  [inv |-> "INV-10", calls |-> <<"recall_memory">>],
  [inv |-> "INV-11", calls |-> <<"approve", "validate">>],
  [inv |-> "INV-12", calls |-> <<"budget_used_racing">>],
  [inv |-> "INV-13", calls |-> <<"authorize">>],
  [inv |-> "INV-14", calls |-> <<"external_tool_trust">>] >>

Inv(p) == Probes[p].inv
CallsOf(p) == Probes[p].calls

Action(resource, digest) == [resource |-> resource, digest |-> digest]
Approved(inv) == IF inv = "INV-03" THEN Action("a", "none") ELSE Action("x", "d1")
Presented(inv) == IF inv = "INV-03" THEN Action("b", "none") ELSE Action("x", "d2")

Plan(inv) == CASE inv = "INV-01" -> Plans.two [] inv = "INV-05" -> Plans.one [] OTHER -> Plans.tree
MaxActions(inv) == IF inv = "INV-06-budget" THEN 3 ELSE 20

Comment == Cap("github", "issue.comment")
Delete == Cap("github", "repository.delete")

\* caps, operation and revocations of the two probes that ask the policy.
Question(inv) ==
  IF inv = "INV-09"
  THEN [caps |-> {Cap("files", "delete")}, op |-> Cap("files", "delete"),
        revoked |-> {Cap("files", "delete")}]
  ELSE [caps |-> {IssueRead}, op |-> Delete, revoked |-> {}]
-----------------------------------------------------------------------------
(* Calls and answers.                                                       *)

\* ExternalHarness: like the reference, but for its approvals and its plans.
External == [Reference EXCEPT !.approvals = "omits the digest"]

ExternalRunPlan(plan, max) ==
  LET run == {i \in DOMAIN plan.steps : i <= max}
  IN [executed |-> run, authorized |-> run \cap {1}, count |-> Cardinality(run),
      recorded |-> Cardinality(run)]

Fresh == [cached |-> "none", grants |-> <<>>]

SlotsOf(code) == IF code.lab = "external" THEN External ELSE Slots(code)

\* What the shape of a result tells the caller that unpacks it.
ShapeOf(method) ==
  CASE method = "run_plan" -> "outcome"
    [] method \in {"derive_child", "skill_grant"} -> "capabilities"
    [] method = "approve" -> "grant"
    [] method = "validate" -> "boolean"
    [] method = "compile_context" -> "view"
    [] method \in {"authorize", "authorize_attribution"} -> "decision"
    [] method = "recall_memory" -> "items"
    [] method = "budget_used_racing" -> "number"
    [] method = "external_tool_trust" -> "trust"

\* The results call n of probe p may have; a grant is known by its index, and there
\* is no result when there is no such grant.
ResultsOf(code, memory, p, n, got) ==
  LET slots == SlotsOf(code)
      inv == Inv(p)
      method == CallsOf(p)[n]
      q == Question(inv)
  IN CASE method = "run_plan" ->
            {IF code.lab = "external" THEN ExternalRunPlan(Plan(inv), MaxActions(inv))
             ELSE RunPlan(slots, memory.cached, Plan(inv), MaxActions(inv))}
       [] method = "derive_child" ->
            {DeriveChild(slots, {IssueRead, Comment}, {IssueRead}, {IssueRead, Comment})}
       [] method = "approve" -> {Len(memory.grants) + 1}
       [] method = "validate" ->
            {Validates(slots, memory.grants[g], Presented(inv)) :
               g \in {got[1].value} \cap DOMAIN memory.grants}
       [] method = "compile_context" -> {CompileContext(slots, inv = "INV-04")}
       [] method = "skill_grant" ->
            {SkillGrant(slots, {IssueRead}, {IssueRead, Delete}, code.lab = "external")}
       [] method = "authorize_attribution" -> {Attributed("alice", "mallory", "agent", "agent")}
       [] method = "authorize" -> {Allows(slots, memory.cached, q.caps, q.op, q.revoked)}
       [] method = "recall_memory" -> {Recall(code, "acme")}
       [] method = "budget_used_racing" -> RaceOutcomes(slots, 1, Concurrent)
       [] method = "external_tool_trust" -> {AssignedTrust("instruction")}

\* What the adapter remembers after it.
Remembers(code, memory, p, n) ==
  LET slots == SlotsOf(code)
      inv == Inv(p)
      q == Question(inv)
  IN CASE CallsOf(p)[n] = "run_plan" ->
            [memory EXCEPT !.cached = Cached(slots, @, Plan(inv).caps, Plan(inv).op)]
       [] CallsOf(p)[n] = "authorize" ->
            [memory EXCEPT !.cached = Cached(slots, @, q.caps, q.op)]
       [] CallsOf(p)[n] = "approve" ->
            [memory EXCEPT !.grants = Append(@, Binding(slots, Approved(inv)))]
       [] OTHER -> memory

\* Which calls run the code in a slot: a print or an error of its own shows there.
Exercises(slot, p, n) ==
  LET method == CallsOf(p)[n]
  IN CASE slot \in {"executor", "provenance"} -> method = "run_plan"
       [] slot \in {"compiler", "secrets"} -> method \in {"run_plan", "compile_context"}
       [] slot = "policy" -> method \in {"run_plan", "authorize"}
       [] slot = "budget" -> method \in {"run_plan", "budget_used_racing"}
       [] slot = "capabilities" -> method = "derive_child" \/ Inv(p) = "INV-06-budget"
       [] slot = "approvals" -> method \in {"approve", "validate"}
       [] slot = "skills" -> method = "skill_grant"
       [] slot = "tools" -> FALSE

Result(p, n, value) ==
  [call |-> <<p, n>>, shape |-> ShapeOf(CallsOf(p)[n]), value |-> value]

\* The caller of a method can make something of a result. A flag counts as a
\* number; whether a grant is valid is only asked for its truth, and the trust
\* assigned is only compared.
Unpacks(method, result) ==
  \/ result.shape = ShapeOf(method)
  \/ method = "budget_used_racing" /\ result.shape = "boolean"
  \/ method \in {"validate", "external_tool_trust"} /\ result.shape \notin {"noise", "error"}

\* The assertions of the probes.
Holds(p, got) ==
  LET r == got[Len(got)]
      v == r.value
  IN CASE Inv(p) = "INV-01" -> v.executed \subseteq v.authorized
       [] Inv(p) = "INV-02" -> v \subseteq {IssueRead}
       [] Inv(p) \in {"INV-03", "INV-11"} -> r.shape = "boolean" /\ ~v
       [] Inv(p) = "INV-04" -> ~v.leaks
       [] Inv(p) = "INV-05" -> v.recorded >= 1
       [] Inv(p) = "INV-06-instr" -> ~v.instructed
       [] Inv(p) = "INV-06-budget" -> v.count <= 3
       [] Inv(p) = "INV-07" -> v \subseteq {IssueRead}
       [] Inv(p) \in {"INV-08", "INV-09", "INV-13"} -> ~v
       [] Inv(p) = "INV-10" -> \A item \in v : item.tenant = "acme" /\ ~item.instruction
       [] Inv(p) = "INV-12" -> (IF r.shape = "boolean" THEN TRUE ELSE v <= 1)
       [] Inv(p) = "INV-14" -> r.shape = "trust" /\ v = "untrusted"
===============================================================================
