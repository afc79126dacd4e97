----------------------------- MODULE MCWorkspaces -----------------------------
(* Small instances of Workspaces for TLC. *)
EXTENDS Workspaces, TLC

CONSTANTS r1, r2, r3

MCRequest == {r1, r2, r3}
TwoRequests == {r1, r2}

\* Creations, a reset, a save, a deletion and two runs, over sessions that expire
\* and are evicted.
Lifecycles ==
  (r1 :> {"create", "reset"}) @@ (r2 :> {"create", "run", "delete"}) @@ (r3 :> {"put", "stream"})

ResetAndDelete == (r1 :> {"reset"}) @@ (r2 :> {"delete"})
===============================================================================
