------------------------------ MODULE Guardrails ------------------------------
(***************************************************************************)
(* The reference guardrails of DVAH as pure operators: what the builtin    *)
(* policy, capability resolver, skill loader, approval service, provenance *)
(* tracker and context compiler answer when the harness calls them         *)
(* (dvah/guardrails, dvah/models, dvah/harness/compiler.py).  The state    *)
(* these answers depend on (revocations, spent grants) is passed in; the   *)
(* module Harness owns it.                                                 *)
(*                                                                         *)
(* One run has one principal, one tenant and one tool/skill definition, so *)
(* those fields of the envelope are constant and are left out of the hash. *)
(***************************************************************************)
EXTENDS Naturals, Sequences, FiniteSets

CONSTANTS
  Agent,           \* agent ids
  Namespace,       \* tool namespaces
  ActionName,      \* action names inside a namespace
  AnyAction,       \* the wildcard action "*" of a capability
  Resource,        \* resolved resources together with bound parameters
  ApprovalAction,  \* <<namespace, action>> pairs that need a human approval
  External,        \* namespaces served across an external boundary
  NoGrant          \* the absent approval grant (None)

ASSUME GuardrailsAssumption ==
  /\ AnyAction \notin ActionName
  /\ ApprovalAction \subseteq Namespace \X ActionName
  /\ External \subseteq Namespace

Operation == [ns : Namespace, act : ActionName, res : Resource]

Capability == [ns : Namespace, act : ActionName \cup {AnyAction}]

\* The pair revocation and approval requirements are keyed on.
Kind(op) == <<op.ns, op.act>>

-----------------------------------------------------------------------------
(* Capabilities (INV-02, INV-13) *)

Covers(cap, op) == cap.ns = op.ns /\ cap.act \in {AnyAction, op.act}

Permits(caps, op) == \E cap \in caps : Covers(cap, op)

\* Defect: the policy's set alone (mutation/broken.py, UnionCapabilityResolver).
DeriveChildFromPolicy(requested, parent, policy) == policy

DeriveChild(requested, parent, policy) == (requested \cap parent) \cap policy

-----------------------------------------------------------------------------
(* Skills (INV-07).  "speaks" is a skill with an instruction fragment or    *)
(* contributed tools; digestOk is "no pin, or the pin is the digest".       *)

Skill == [permissions : SUBSET Capability, speaks : BOOLEAN]

LoadSkill(skill, approved, digestOk) ==
  [granted  |-> IF digestOk THEN skill.permissions \cap approved ELSE {},
   expanded |-> skill.permissions \ approved,
   trusted  |-> digestOk]

RequiresReapproval(load) == load.expanded # {} \/ ~load.trusted

-----------------------------------------------------------------------------
(* Identity of a resolved action: actor, chain and operation.               *)

Hash == [actor : Agent, chain : Seq(Agent), op : Operation]

\* Defect: the resource and its parameters are left out of the hash.
ActionHashOfKind(ctx, op) ==
  [actor |-> ctx.actor, chain |-> ctx.chain,
   op |-> [op EXCEPT !.res = CHOOSE r \in Resource : TRUE]]

ActionHash(ctx, op) == [actor |-> ctx.actor, chain |-> ctx.chain, op |-> op]

\* "act-d{depth}-{actions_used}", with depth = len(chain) - 1.
Depth(ctx) == Len(ctx.chain) - 1

NextActionId(ctx) == <<Depth(ctx), ctx.used>>

-----------------------------------------------------------------------------
(* Policy (INV-01, INV-08, INV-09)                                          *)

Attributed(ctx) == ctx.chain # << >> /\ ctx.chain[Len(ctx.chain)] = ctx.actor

Verdicts == {"allow", "needs_approval", "deny"}

\* Defect: live revocations are not consulted.
AuthorizeOnCapabilities(ctx, op, revoked) ==
  IF ~Attributed(ctx) \/ ~Permits(ctx.caps, op) THEN "deny"
  ELSE IF Kind(op) \in ApprovalAction THEN "needs_approval" ELSE "allow"

Authorize(ctx, op, revoked) ==
  IF ~Attributed(ctx) \/ Kind(op) \in revoked \/ ~Permits(ctx.caps, op) THEN "deny"
  ELSE IF Kind(op) \in ApprovalAction THEN "needs_approval" ELSE "allow"

-----------------------------------------------------------------------------
(* Approvals (INV-03).  The service has one fixed clock, so whether a grant *)
(* has expired never changes during a run.                                  *)

Grant == [id : Nat, hash : Hash, oneTime : BOOLEAN, expired : BOOLEAN]

\* find: index i holds the first carried grant bound to the action's hash.
IsFirstBound(grants, hash, i) ==
  /\ i \in DOMAIN grants
  /\ grants[i].hash = hash
  /\ \A j \in 1 .. i - 1 : grants[j].hash # hash

HasBound(grants, hash) == \E i \in DOMAIN grants : grants[i].hash = hash

FreshGrant(id, hash) ==
  [id |-> id, hash |-> hash, oneTime |-> FALSE, expired |-> FALSE]

ValidGrant(grant, hash, consumed) ==
  /\ grant.hash = hash
  /\ ~grant.expired
  /\ ~(grant.oneTime /\ grant.id \in consumed)

-----------------------------------------------------------------------------
(* Provenance (INV-05, INV-14) and the context compiler (INV-06).  What a   *)
(* tool output says is abstracted to the actions embedded in it.            *)

InstructionTrust == {"trusted_instruction", "user_instruction"}

Trust == InstructionTrust \cup {"untrusted_data", "tool_metadata", "memory"}

ToolResult == [ok : BOOLEAN, trust : Trust, embeds : SUBSET Operation]

Tag == [source : Namespace, trust : Trust]

Provenance == [instructions : Seq(Tag), data : Seq(Tag)]

Observation == [source : Namespace, trust : Trust, embeds : SUBSET Operation]

\* The trust the harness assigns to a result: instruction trust is not
\* believed across an external boundary.
AssignedTrust(ns, declared) ==
  IF ns \in External /\ declared \in InstructionTrust THEN "untrusted_data" ELSE declared

\* Defect: the tag is dropped (mutation/broken.py, DroppingProvenanceTracker).
MergeDropping(record, tag) == record

Merge(record, tag) ==
  IF tag.trust \in InstructionTrust
  THEN [record EXCEPT !.instructions = Append(@, tag)]
  ELSE [record EXCEPT !.data = Append(@, tag)]

Item(channel, trust, embeds) == [channel |-> channel, trust |-> trust, embeds |-> embeds]

\* Defect: observations are flattened into the instruction channel
\* (mutation/broken.py, FlatteningContextCompiler).
CompileFlat(ctx) ==
  {Item("instruction", ctx.observations[i].trust, ctx.observations[i].embeds) :
     i \in DOMAIN ctx.observations}

\* The compiled context: the task and the attached skills are instructions,
\* every observation is data. No action is embedded in a skill's item: its text and
\* its tools are strings (models/skill.py), and the model follows dictionaries only.
Compile(ctx) ==
  {Item("instruction", "user_instruction", {})}
    \cup {Item("instruction", "trusted_instruction", {}) :
            s \in {t \in ctx.skills : t.speaks}}
    \cup {Item("data", ctx.observations[i].trust, ctx.observations[i].embeds) :
            i \in DOMAIN ctx.observations}

\* ContextActionModel on an unscripted task: the actions embedded in the
\* instruction channel.
EmbeddedInstructions(ctx) ==
  UNION {item.embeds : item \in {c \in Compile(ctx) : c.channel = "instruction"}}
===============================================================================
