---------------------------- MODULE MutationMatrix ----------------------------
(***************************************************************************)
(* The mutation engine: a hidden set of defeats is switched on, fifteen    *)
(* probes each build a small harness with the defeated slots in it, and    *)
(* the answer is which invariants still hold (dvah/mutation).              *)
(*                                                                         *)
(* A probe that asks one guardrail one question is a formula over the      *)
(* flags, written with the operators of Guardrails: the correct ones, and  *)
(* beside them the defects broken.py installs.  The probes that run a plan *)
(* are executed step by step, because there the defeats meet: executor,    *)
(* policy and budget are slots of the same run.                            *)
(***************************************************************************)
EXTENDS Naturals, Sequences, SequencesExt

VARIABLES
  flags,    \* the active defeats (MutationFlags.active)
  pending,  \* the probes still to be run, in the order of PROBES
  run,      \* the plan a probe is running, or NoRun
  broken    \* the invariants found not to hold (MutationRun.broken)

vars == <<flags, pending, run, broken>>

Flag == {"execution_authz", "delegation_attenuation", "approval_binding", "secret_redaction",
         "provenance_propagation", "instruction_separation", "budget_sharing",
         "tool_vs_operation", "attribution_forgery", "skill_upgrade", "revocation_check",
         "memory_scope", "tool_digest", "atomicity"}

\* FLAG_TO_INV.
Defeats ==
  [execution_authz |-> "INV-01", delegation_attenuation |-> "INV-02",
   approval_binding |-> "INV-03", secret_redaction |-> "INV-04",
   provenance_propagation |-> "INV-05", instruction_separation |-> "INV-06-instr",
   budget_sharing |-> "INV-06-budget", tool_vs_operation |-> "INV-13",
   attribution_forgery |-> "INV-08", skill_upgrade |-> "INV-07",
   revocation_check |-> "INV-09", memory_scope |-> "INV-10", tool_digest |-> "INV-11",
   atomicity |-> "INV-12"]

Probes ==
  <<"INV-01", "INV-02", "INV-03", "INV-04", "INV-05", "INV-06-instr", "INV-06-budget",
    "INV-07", "INV-08", "INV-13", "INV-09", "INV-10", "INV-11", "INV-12", "INV-14">>

On(flag) == flag \in flags

G == INSTANCE Guardrails WITH
       Agent <- {"agent"}, Namespace <- {"files", "github", "agent"},
       ActionName <- {"read", "delete", "issue.read", "issue.comment", "repository.delete",
                      "delegate"},
       AnyAction <- "*", Resource <- {"a", "b"}, ApprovalAction <- {}, External <- {"files"},
       NoGrant <- "none"

Cap(ns, act) == [ns |-> ns, act |-> act]
Op(ns, act, res) == [ns |-> ns, act |-> act, res |-> res]

Context(caps) ==
  [actor |-> "agent", chain |-> <<"agent">>, caps |-> caps, skills |-> {},
   observations |-> << >>, provenance |-> [instructions |-> << >>, data |-> << >>]]

-----------------------------------------------------------------------------
(* The policy slot, which every probe that executes goes through.           *)

\* ToolNamePolicy looks at the namespace alone.
Allowed(caps, op) ==
  IF On("tool_vs_operation") THEN op.ns \in {cap.ns : cap \in caps}
  ELSE G!Authorize(Context(caps), op, {}) = "allow"

\* One step through the broker on a fresh context: what comes back is an
\* observation and a line of provenance, or nothing if the step was denied.
Observed(caps, op, embeds) ==
  LET ctx == Context(caps)
      tag == [source |-> op.ns, trust |-> "untrusted_data"]
  IN IF ~Allowed(caps, op) THEN ctx
     ELSE [ctx EXCEPT
             !.observations = Append(@, [source |-> op.ns, trust |-> "untrusted_data",
                                         embeds |-> embeds]),
             !.provenance = IF On("provenance_propagation") THEN G!MergeDropping(@, tag)
                            ELSE G!Merge(@, tag)]

Compiled(ctx) ==
  IF On("instruction_separation") THEN G!CompileFlat(ctx) ELSE G!Compile(ctx)

-----------------------------------------------------------------------------
(* Probes that ask one guardrail one question.                              *)

ReadIssues == {Cap("github", "issue.read")}
ReadAndComment == ReadIssues \cup {Cap("github", "issue.comment")}

Attenuated ==
  LET child == IF On("delegation_attenuation")
               THEN G!DeriveChildFromPolicy(ReadAndComment, ReadIssues, ReadAndComment)
               ELSE G!DeriveChild(ReadAndComment, ReadIssues, ReadAndComment)
  IN child \subseteq ReadIssues

\* What a grant is bound to, and what it is compared with: the hash, a plan
\* token, or for the digest probe everything but the digest.
Binding(op) ==
  IF On("approval_binding") THEN "plan" ELSE G!ActionHash(Context({}), op)

ActionBound == Binding(Op("files", "delete", "a")) # Binding(Op("files", "delete", "b"))

\* The only text a credential could be in is what the tool answered.
SecretHidden ==
  LET op == Op("files", "read", "a")
      seen == Observed({Cap("files", "read")}, op, {op}).observations
      redacted == IF On("secret_redaction") THEN seen
                  ELSE [i \in DOMAIN seen |-> [seen[i] EXCEPT !.embeds = {}]]
  IN \A i \in DOMAIN redacted : redacted[i].embeds = {}

ProvenanceRecorded ==
  Observed(ReadIssues, Op("github", "issue.read", "a"), {}).provenance.data # << >>

Separated ==
  LET injected == Op("github", "issue.comment", "a")
  IN \A item \in Compiled(Observed(ReadIssues, Op("github", "issue.read", "a"), {injected})) :
       item.channel = "instruction" => item.trust \in G!InstructionTrust

\* The upgraded skill asks for more, and its digest is not the pinned one.
UpgradeNotGranted ==
  LET delete == Cap("github", "repository.delete")
      upgraded == [permissions |-> ReadIssues \cup {delete}, speaks |-> FALSE]
      granted == IF On("skill_upgrade") THEN upgraded.permissions
                 ELSE G!LoadSkill(upgraded, ReadIssues, FALSE).granted
  IN ~G!Permits(granted, Op("github", "repository.delete", "a"))

\* The chain ends in the actor and starts from somebody else than the principal.
ForgeryDenied ==
  LET corresponds == "mallory" = "alice" /\ G!Attributed(Context({}))
  IN ~(On("attribution_forgery") \/ corresponds)

RevocationDenies ==
  LET op == Op("files", "delete", "a")
      revoked == IF On("revocation_check") THEN {} ELSE {G!Kind(op)}
  IN G!Authorize(Context({Cap("files", "delete")}), op, revoked) = "deny"

\* Notes of two tenants; the provider asks for those of acme.
MemoryScoped ==
  LET recalled == IF On("memory_scope")
                  THEN {<<tenant, "user_instruction">> : tenant \in {"acme", "evil"}}
                  ELSE {<<"acme", "memory">>}
  IN recalled = {<<"acme", "memory">>}

DigestBound ==
  LET bound(digest) == IF On("tool_digest") THEN <<"op">> ELSE <<"op", digest>>
  IN bound("d1") # bound("d2")

\* Two agents and a limit of one: with check and commit apart, both checks
\* come before either commit.
Atomic ==
  LET seen == IF On("atomicity") THEN <<0, 0>> ELSE <<0, 1>>
  IN \A i, j \in DOMAIN seen : seen[i] < 1 /\ seen[j] < 1 => i = j

TrustDowngraded ==
  /\ Allowed({Cap("files", "read")}, Op("files", "read", "a"))
  /\ G!AssignedTrust("files", "trusted_instruction") # "trusted_instruction"

Direct(probe) ==
  CASE probe = "INV-02" -> Attenuated         [] probe = "INV-03" -> ActionBound
    [] probe = "INV-04" -> SecretHidden       [] probe = "INV-05" -> ProvenanceRecorded
    [] probe = "INV-06-instr" -> Separated    [] probe = "INV-07" -> UpgradeNotGranted
    [] probe = "INV-08" -> ForgeryDenied      [] probe = "INV-09" -> RevocationDenies
    [] probe = "INV-10" -> MemoryScoped       [] probe = "INV-11" -> DigestBound
    [] probe = "INV-12" -> Atomic             [] probe = "INV-14" -> TrustDowngraded

-----------------------------------------------------------------------------
(* Probes that run a plan.                                                  *)

PlanProbes == {"INV-01", "INV-06-budget", "INV-13"}

Script ==
  [t |-> <<Op("files", "read", "a"), Op("files", "read", "b")>>,
   del |-> <<Op("github", "repository.delete", "a")>>,
   root |-> <<Op("github", "issue.read", "a"), Op("github", "issue.read", "a"),
              Op("agent", "delegate", "child")>>,
   child |-> <<Op("github", "issue.read", "a"), Op("github", "issue.read", "a"),
               Op("agent", "delegate", "gc")>>,
   gc |-> <<Op("github", "issue.read", "a"), Op("github", "issue.read", "a")>>]

RootTask(probe) ==
  CASE probe = "INV-01" -> "t" [] probe = "INV-06-budget" -> "root" [] probe = "INV-13" -> "del"
Caps(probe) == IF probe = "INV-01" THEN {Cap("files", "read")} ELSE ReadIssues
Limit(probe) == IF probe = "INV-06-budget" THEN 3 ELSE 20

NoRun == [stack |-> << >>, spent |-> 0, executed |-> 0, unauthorized |-> 0, deleted |-> FALSE,
          going |-> FALSE]

Agent(task) == [steps |-> Script[task], used |-> 0]

Probe == Head(pending)
Top == Last(run.stack)
Step == Head(Top.steps)
Rest(agent) == [agent EXCEPT !.steps = Tail(@)]
OnTop(agent) == Append(Front(run.stack), agent)

Start ==
  /\ pending # << >> /\ Probe \in PlanProbes /\ ~run.going
  /\ run' = [NoRun EXCEPT !.stack = <<Agent(RootTask(Probe))>>, !.going = TRUE]
  /\ UNCHANGED <<flags, pending, broken>>

Deletes(op) == G!Kind(op) = <<"github", "repository.delete">>

\* Defect: every step is given its own decision again.
UnauthorizedOfGated(steps) == 0

\* Executions without a decision of their own when only the first step had one.
Unauthorized(steps) == Len(steps) - 1

\* PlanTimeExecutor takes the whole plan: one decision, then every step raw,
\* a delegation included, which no tool provider knows and no agent sees.
RawPlan ==
  /\ run.stack # << >> /\ On("execution_authz")
  /\ run' = IF Allowed(Caps(Probe), Step)
            THEN [run EXCEPT !.stack = << >>, !.executed = Len(Top.steps),
                             !.unauthorized = Unauthorized(Top.steps),
                             !.deleted = \E i \in DOMAIN Top.steps : Deletes(Top.steps[i])]
            ELSE [run EXCEPT !.stack = << >>]
  /\ UNCHANGED <<flags, pending, broken>>

\* Defect: one more action than the limit.
AffordableAtLimit == run.spent <= Limit(Probe)

\* PerAgentBudgetTracker looks at the agent's own count.
Affordable ==
  IF On("budget_sharing") THEN Top.used < Limit(Probe) ELSE run.spent < Limit(Probe)

\* A step through the broker; a denial ends the run and the probe catches it.
GatedStep ==
  /\ run.stack # << >> /\ ~On("execution_authz")
  /\ Top.steps # << >> /\ Step.act # "delegate"
  /\ run' = IF Allowed(Caps(Probe), Step) /\ Affordable
            THEN [run EXCEPT !.stack = OnTop([Rest(Top) EXCEPT !.used = @ + 1]),
                             !.spent = @ + 1, !.executed = @ + 1,
                             !.deleted = @ \/ Deletes(Step)]
            ELSE [run EXCEPT !.stack = << >>]
  /\ UNCHANGED <<flags, pending, broken>>

Delegate ==
  /\ run.stack # << >> /\ ~On("execution_authz")
  /\ Top.steps # << >> /\ Step.act = "delegate"
  /\ run' = [run EXCEPT !.stack = Append(OnTop(Rest(Top)), Agent(Step.res))]
  /\ UNCHANGED <<flags, pending, broken>>

Return ==
  /\ run.stack # << >> /\ Top.steps = << >>
  /\ run' = [run EXCEPT !.stack = Front(@)]
  /\ UNCHANGED <<flags, pending, broken>>

Verdict ==
  CASE Probe = "INV-01"        -> run.unauthorized = 0
    [] Probe = "INV-06-budget" -> run.executed <= Limit(Probe)
    [] Probe = "INV-13"        -> ~run.deleted

Judged(holds) ==
  /\ broken' = IF holds THEN broken ELSE broken \cup {Probe}
  /\ pending' = Tail(pending)
  /\ run' = NoRun
  /\ UNCHANGED flags

JudgePlan == run.going /\ run.stack = << >> /\ Judged(Verdict)

JudgeDirect == pending # << >> /\ Probe \notin PlanProbes /\ Judged(Direct(Probe))

Init ==
  /\ flags \in SUBSET Flag
  /\ pending = Probes
  /\ run = NoRun
  /\ broken = {}

Done == pending = << >> /\ UNCHANGED vars

Next == Start \/ RawPlan \/ GatedStep \/ Delegate \/ Return \/ JudgePlan \/ JudgeDirect \/ Done

Spec == Init /\ [][Next]_vars

-----------------------------------------------------------------------------
(* Properties.                                                              *)

\* run: whatever other defeats are on, an invariant is reported broken only
\* if the defeat of that invariant is on.
OnlyDefeatedBreak == broken \subseteq {Defeats[f] : f \in flags}

\* A plan-time executor never delegates, so a budget each agent has for
\* itself is not seen to be exceeded.
Hidden(f) == f = "budget_sharing" /\ On("execution_authz")

\* FLAG_TO_INV: a defeat that is on shows in its own probe, in every
\* combination with the thirteen others but the one above.
DefeatsShow ==
  \A f \in flags : ~Hidden(f) =>
    \/ Defeats[f] \in broken
    \/ Defeats[f] \in ToSet(pending)
===============================================================================
