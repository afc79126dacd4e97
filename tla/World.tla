--------------------------------- MODULE World ---------------------------------
(***************************************************************************)
(* What the simulated external systems promise, whatever carries the       *)
(* calls: an operation takes effect at one moment, the log has what was    *)
(* done, and a caller claims nothing that the log does not have. Taken     *)
(* from the in-memory stores as NativeToolProvider calls them, in process  *)
(* (dvah/services/world_state.py, dvah/providers/native_tools.py).         *)
(***************************************************************************)
CONSTANTS
  Call,       \* the calls that may be made
  Service,    \* the systems: files, github, email, cloud
  Key,        \* what their stores are keyed by
  Held,       \* the keys of each of them
  Absent,     \* nothing is stored under a key
  Seed,       \* what a reset puts there
  Operation   \* the operations that are asked for

VARIABLES
  store,      \* what is stored under each key
  log,        \* what was done since its system was reset, an event per call
  claims      \* the events that callers were told of

vars == <<store, log, claims>>

\* The acts that change something, or are recorded as if they did.
Effects == {"delete", "rename", "comment", "send"}

Event(k, op, ok) ==
  [call |-> k, service |-> op.service, act |-> op.act, key |-> op.key, ok |-> ok]
Without(s, events) == {e \in events : e.service # s}

Exists(op) == store[op.key] # Absent

\* Whether it is done: mail always goes out.
Succeeds(op) == op.act = "send" \/ Exists(op)

\* The stores' own methods: what is there after an operation.
After(op) ==
  CASE op.act = "delete" -> [store EXCEPT ![op.key] = Absent]
    [] op.act = "rename" /\ Exists(op) ->
         [store EXCEPT ![op.key] = Absent, ![op.dest] = store[op.key]]
    [] OTHER -> store

Perform(k, op) ==
  /\ op.act \in Effects /\ \A e \in log : e.call # k
  /\ store' = After(op)
  /\ log' = log \cup {Event(k, op, Succeeds(op))}
  /\ UNCHANGED claims

Claim(e) ==
  /\ claims' = claims \cup {e}
  /\ UNCHANGED <<store, log>>

Reset(s) ==
  /\ store' = [k \in Key |-> IF k \in Held[s] THEN Seed[k] ELSE store[k]]
  /\ log' = Without(s, log)
  /\ claims' = Without(s, claims)

Init == store = Seed /\ log = {} /\ claims = {}

Next ==
  \/ \E k \in Call, op \in Operation : Perform(k, op)
  \/ \E e \in log : Claim(e)
  \/ \E s \in Service : Reset(s)

Spec == Init /\ [][Next]_vars
===============================================================================
