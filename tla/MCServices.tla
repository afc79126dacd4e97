------------------------------ MODULE MCServices ------------------------------
(* Small instances of Services. *)
EXTENDS Services

MCHeld == [files |-> {"a", "b"}, github |-> {"repo"}, email |-> {"inbox"}, cloud |-> {"vm"}]
MCSeed == [key \in {"a", "b", "repo", "inbox", "vm"} |-> IF key = "b" THEN Absent ELSE "seeded"]

Does(s, a, key) == [service |-> s, action |-> a, key |-> key, dest |-> Absent]
Moves(key, dest) == [service |-> "files", action |-> "rename", key |-> key, dest |-> dest]

\* Two clients meet on one file and on the cloud; the second has other systems to
\* itself, and asks for what the cloud does not offer.
MCAsks == [
  one |-> {Moves("a", "b"), Does("cloud", "instance.terminate", "vm"),
           Does("mcp", "fetch", "inside")},
  two |-> {Does("files", "read", "a"), Does("files", "delete", "a"),
           Does("github", "issue.comment", "repo"), Does("email", "send", "inbox"),
           Does("cloud", "instance.list", "vm"), Does("cloud", "instance.start", "vm"),
           Does("mcp", "fetch", "inside"), Does("mcp", "fetch", "outside")}]

MCOperation == MCAsks["one"] \cup MCAsks["two"]

MCCalls == [one |-> 2, two |-> 1]
MCResets == [s \in {"files", "github", "email", "cloud"} |-> IF s = "files" THEN 1 ELSE 0]
===============================================================================
