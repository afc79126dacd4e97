------------------------------ MODULE MCHarness ------------------------------
(* Small instances of Harness for TLC. *)
EXTENDS Harness

Read == [ns |-> "files", act |-> "read", res |-> "r1"]
Delete1 == [ns |-> "files", act |-> "delete", res |-> "r1"]
Delete2 == [ns |-> "files", act |-> "delete", res |-> "r2"]
Fetch == [ns |-> "mcp", act |-> "read", res |-> "r1"]

MCAgent == {"root", "helper"}
MCNamespace == {"files", "mcp"}
MCActionName == {"read", "delete"}
MCResource == {"r1", "r2"}
MCApprovalAction == {<<"files", "delete">>}
MCExternal == {"mcp"}
MCRevocations == {{<<"files", "delete">>}, MCNamespace \X MCActionName}
McpRevocations == {{<<"mcp", "read">>}}
NoRevocations == {}

AllFiles == [ns |-> "files", act |-> AnyAction]
ReadFiles == [ns |-> "files", act |-> "read"]
ReadMcp == [ns |-> "mcp", act |-> "read"]

EmptyProvenance == [instructions |-> << >>, data |-> << >>]

Root(caps, grants, skills) ==
  [actor |-> "root", chain |-> <<"root">>, caps |-> caps, grants |-> grants,
   observations |-> << >>, provenance |-> EmptyProvenance, used |-> 0,
   skills |-> skills]

OneTime(id, op, expired) ==
  [id |-> id, hash |-> [actor |-> "root", chain |-> <<"root">>, op |-> op],
   oneTime |-> TRUE, expired |-> expired]

FileSkill == [permissions |-> {AllFiles}, speaks |-> TRUE]
McpSkill == [permissions |-> {ReadMcp}, speaks |-> TRUE]

Do(op) == OpStep(op, "model")
Child(requested, policy, skills) ==
  [type |-> "delegate", child |-> "helper", requested |-> requested,
   policy |-> policy, skills |-> skills]
Ponder(scripted) == [type |-> "reflect", scripted |-> scripted]

\* Delegation and reflection: what nests, and what comes back.
TreePlans ==
  { << >>,
    <<Do(Read)>>,
    <<Child({AllFiles}, {AllFiles, ReadMcp}, {FileSkill}), Do(Fetch)>>,
    <<Child({ReadFiles, ReadMcp}, {ReadFiles, ReadMcp}, {}), Child({ReadMcp}, {ReadMcp}, {})>>,
    <<Do(Fetch), Ponder(FALSE), Ponder(TRUE), Do(Read)>> }
TreeRoots == {Root({AllFiles, ReadMcp}, << >>, {McpSkill})}
TreeResults ==
  { [ok |-> TRUE, trust |-> "trusted_instruction", embeds |-> {Delete1}],
    [ok |-> FALSE, trust |-> "untrusted_data", embeds |-> {}] }

\* Approvals: grants carried into the run, requested, spent, replayed.
ApprovalPlans ==
  { <<Do(Delete1), Do(Delete1)>>,
    <<Do(Delete1), Do(Delete2)>>,
    <<Ponder(TRUE), Do(Delete1)>>,
    <<Child({AllFiles}, {AllFiles}, {}), Do(Delete1)>>,
    <<Do(Read)>> }
ApprovalRoots ==
  {Root({AllFiles}, grants, {}) :
     grants \in {<< >>, <<OneTime(1, Delete1, FALSE)>>,
                 <<OneTime(1, Delete1, TRUE)>>,
                 <<OneTime(1, Delete1, FALSE), OneTime(2, Delete1, FALSE)>>}}
===============================================================================
