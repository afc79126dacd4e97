------------------------------ MODULE Mediation ------------------------------
(***************************************************************************)
(* What the harness promises about effects, without sessions, plans,       *)
(* traces or grants.  Authority is a stack that only narrows upwards; an   *)
(* effect is admitted one at a time, against every level of that stack and *)
(* against what is withdrawn at that moment; performing it pays one unit   *)
(* from one account; an admission is used at most once; and once the run   *)
(* is over nothing is performed any more.                                  *)
(***************************************************************************)
EXTENDS Naturals, Sequences

CONSTANTS
  Effect,  \* what may be asked of the world
  Limit    \* the account the whole run draws from

VARIABLES
  authority,  \* per nested session or plan, the effects it may ask for
  withdrawn,  \* effects whose authority has been revoked
  pending,    \* the admitted effect, if any: a set of at most one
  spent,      \* units drawn from the account
  performed,  \* number of effects performed
  over        \* the run has ended

vars == <<authority, withdrawn, pending, spent, performed, over>>

Init ==
  /\ \E powers \in SUBSET Effect : authority = <<powers>>
  /\ withdrawn = {}
  /\ pending = {}
  /\ spent = 0
  /\ performed = 0
  /\ over = FALSE

Idle == ~over /\ pending = {}

Enter(powers) ==
  /\ Idle
  /\ powers \subseteq authority[Len(authority)]
  /\ authority' = Append(authority, powers)
  /\ UNCHANGED <<withdrawn, pending, spent, performed, over>>

Leave ==
  /\ Idle
  /\ authority' = SubSeq(authority, 1, Len(authority) - 1)
  /\ over' = (authority' = << >>)
  /\ UNCHANGED <<withdrawn, pending, spent, performed>>

Admit(effect) ==
  /\ Idle
  /\ effect \notin withdrawn
  /\ \A i \in DOMAIN authority : effect \in authority[i]
  /\ pending' = {effect}
  /\ UNCHANGED <<authority, withdrawn, spent, performed, over>>

Perform ==
  /\ ~over /\ pending # {}
  /\ spent < Limit
  /\ spent' = spent + 1
  /\ performed' = performed + 1
  /\ pending' = {}
  /\ UNCHANGED <<authority, withdrawn, over>>

\* The run gives up; an admitted effect may have been paid for in vain.
Stop ==
  /\ ~over
  /\ over' = TRUE
  /\ pending' = {}
  /\ \/ spent' = spent
     \/ pending # {} /\ spent < Limit /\ spent' = spent + 1
  /\ UNCHANGED <<authority, withdrawn, performed>>

Withdraw(effects) ==
  /\ ~over
  /\ withdrawn' = withdrawn \cup effects
  /\ UNCHANGED <<authority, pending, spent, performed, over>>

Next ==
  \/ \E powers \in SUBSET Effect : Enter(powers)
  \/ Leave
  \/ \E effect \in Effect : Admit(effect)
  \/ Perform
  \/ Stop
  \/ \E effects \in SUBSET Effect : Withdraw(effects)

Spec == Init /\ [][Next]_vars
===============================================================================
