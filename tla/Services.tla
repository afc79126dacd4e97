------------------------------- MODULE Services -------------------------------
(***************************************************************************)
(* The tool providers that leave the process: HttpToolProvider calling the *)
(* simulated services over HTTP, and MCPToolProvider spawning a server per *)
(* fetch, dispatched by ToolRouter (dvah/providers/http_tools.py,          *)
(* mcp_tools.py, router.py, services/).                                    *)
(*                                                                         *)
(* A service runs its plain endpoints on a pool of threads and its async   *)
(* endpoints, the reset among them, on one event loop, all over one store  *)
(* and one recorder with no lock. A call that is given up is not undone:   *)
(* its handler goes on. What a call did is kept per call, as history.      *)
(***************************************************************************)
EXTENDS Naturals, FiniteSets, TLC

CONSTANTS
  Client,     \* the harnesses that call, one call at a time each
  Verifying,  \* those whose MCP provider pins the server's identity
  Service, Key, Held, Absent, Seed,  \* as in World
  Host,       \* what a fetch may name
  Allowed,    \* allow_hosts
  Operation,  \* the operations, [service, action, key, dest]
  Asks,       \* those each client may ask for
  MaxCalls,   \* bound: calls of each client
  MaxResets   \* bound: resets of each service

VARIABLES
  store,      \* the stores of the services
  recorder,   \* Recorder._events: the calls that were recorded
  loop,       \* what each service's event loop is running
  calls,      \* how many calls each client has made
  waiting,    \* whether it waits for the last of them
  handler,    \* what became of each call
  reached,    \* history: the fetches that got to their host
  egress,     \* MCPToolProvider.egress
  blocked,    \* MCPToolProvider.blocked
  resets,     \* bound: the resets so far
  late,       \* history: a handler was at work on the service across its last reset
  contended   \* history: two handlers met on one key since then

service == <<store, recorder, loop>>
client == <<calls, waiting>>
boundary == <<reached, egress, blocked>>
history == <<late, contended>>
vars == <<service, client, handler, boundary, resets, history>>

ASSUME ServicesAssumption ==
  /\ Held \in [Service -> SUBSET Key] /\ Seed \in [Key -> STRING] /\ Absent \in STRING
  /\ Asks \in [Client -> SUBSET Operation]
  /\ MaxCalls \in [Client -> Nat] /\ MaxResets \in [Service -> Nat]
  /\ Verifying \subseteq Client /\ Allowed \subseteq Host
  /\ Service \subseteq {"files", "github", "email", "cloud"}

-----------------------------------------------------------------------------
(* Which endpoint serves an operation.                                      *)

FilesService == [read |-> "read", delete |-> "delete", rename |-> "rename"]
GithubService == "issue.read" :> "list" @@ "issue.comment" :> "comment"
                 @@ "repository.delete" :> "delete"
EmailService == "send" :> "send"
CloudService == "instance.list" :> "walk" @@ "instance.terminate" :> "delete"

Routes == [files |-> FilesService, github |-> GithubService, email |-> EmailService,
           cloud |-> CloudService, mcp |-> "fetch" :> "fetch"]

\* ToolRouter and the providers answer what they do not know themselves.
Routed(op) == op.service \in DOMAIN Routes /\ op.action \in DOMAIN Routes[op.service]

Act(op) == IF Routed(op) THEN Routes[op.service][op.action] ELSE "none"

\* A routed call goes to a service that is there, and what an endpoint looks up
\* is a key of its store.
ASSUME OperationAssumption ==
  \A op \in Operation :
    /\ Act(op) \notin {"none", "fetch"} => op.service \in Service
    /\ Act(op) \in {"read", "delete", "rename", "comment"} => op.key \in Key

\* Each service is a process with a store of its own, and its endpoints reach
\* no other; what marks a key as free is not a key.
ASSUME StoresAssumption ==
  /\ Absent \notin Key
  /\ \A s, t \in Service : s # t => Held[s] \cap Held[t] = {}
  /\ \A op \in Operation :
       /\ Act(op) \in {"read", "delete", "rename", "comment"} => op.key \in Held[op.service]
       /\ Act(op) = "rename" => op.dest \in Held[op.service]

\* The endpoints declared async run on the event loop, the others on threads.
OnLoop(op) == Act(op) \in {"rename", "comment", "send"}
Effects == {"delete", "rename", "comment", "send"}

-----------------------------------------------------------------------------
Call == UNION {{c} \X (1..MaxCalls[c]) : c \in Client}
Current(c) == <<c, calls[c]>>
OfService(k, s) == handler[k].op.service = s

NoOp == [service |-> "none", action |-> "none", key |-> Absent, dest |-> Absent]
Unasked == [op |-> NoOp, at |-> "unasked", found |-> FALSE, held |-> Absent,
            did |-> "not yet", own |-> FALSE]

\* A handler has begun and not yet answered; or may still begin.
Working(k) == handler[k].at \in {"checked", "taken", "acted"}
Pending(k) == Working(k) \/ handler[k].at = "arrived"

Touches(k) == {handler[k].op.key, handler[k].op.dest} \ {Absent}
Meets(k) == \E j \in Call \ {k} : Working(j) /\ Touches(j) \cap Touches(k) # {}

Free(s) == loop[s] = "free"
Resetting(s) == loop[s] = "reset"

-----------------------------------------------------------------------------
(* The client's side of a call.                                             *)

\* invoke of the router: nothing leaves the process for what it cannot route.
Ask(c, op) ==
  /\ ~waiting[c] /\ calls[c] < MaxCalls[c] /\ op \in Asks[c]
  /\ calls' = [calls EXCEPT ![c] = @ + 1]
  /\ LET k == <<c, calls[c] + 1>>
         Enter(at) == [Unasked EXCEPT !.op = op, !.at = at]
     IN CASE Act(op) = "none" ->
               /\ handler' = [handler EXCEPT ![k] = Enter("refused")]
               /\ UNCHANGED <<waiting, boundary>>
          [] Act(op) = "fetch" /\ op.key \notin Allowed ->
               /\ handler' = [handler EXCEPT ![k] = Enter("refused")]
               /\ blocked' = blocked \cup {k}
               /\ UNCHANGED <<waiting, reached, egress>>
          [] Act(op) = "fetch" /\ op.key \in Allowed ->
               /\ handler' = [handler EXCEPT ![k] = Enter("spawned")]
               /\ waiting' = [waiting EXCEPT ![c] = TRUE]
               /\ UNCHANGED boundary
          [] OTHER ->
               /\ handler' = [handler EXCEPT
                                ![k] = [Enter("arrived") EXCEPT !.own = ~Resetting(op.service)]]
               /\ waiting' = [waiting EXCEPT ![c] = TRUE]
               /\ UNCHANGED boundary
  /\ UNCHANGED <<service, resets, history>>

\* The answer of a service, a 500 included: that one is no JSON and raises.
Receive(c) ==
  /\ waiting[c] /\ handler[Current(c)].at \in {"answered", "failed"}
  /\ waiting' = [waiting EXCEPT ![c] = FALSE]
  /\ handler' = [handler EXCEPT ![Current(c)].at = IF @ = "answered" THEN "claimed" ELSE "raised"]
  /\ UNCHANGED <<service, calls, boundary, resets, history>>

\* httpx gives up after 5 s and the run halts; the handler is not told.
GiveUp(c) ==
  /\ waiting[c] /\ OfService(Current(c), "mcp") = FALSE
  /\ waiting' = [waiting EXCEPT ![c] = FALSE]
  /\ UNCHANGED <<service, calls, handler, boundary, resets, history>>

-----------------------------------------------------------------------------
(* MCPToolProvider.                                                         *)

Reach(c) ==
  /\ waiting[c] /\ handler[Current(c)].at = "spawned"
  /\ handler' = [handler EXCEPT ![Current(c)].at = "reached"]
  /\ reached' = reached \cup {Current(c)}
  /\ UNCHANGED <<service, client, egress, blocked, resets, history>>

\* Defect: what does not say who it is is never entered, pinned or not.
ConcludeIfIdentified(c, identified) ==
  LET rejected == c \in Verifying /\ ~identified
  IN /\ egress' = IF identified THEN egress \cup {Current(c)} ELSE egress
     /\ handler' = [handler EXCEPT ![Current(c)].at = IF rejected THEN "rejected" ELSE "fetched"]
     /\ waiting' = [waiting EXCEPT ![c] = FALSE]
     /\ UNCHANGED <<service, calls, reached, blocked, resets, history>>

\* What invoke does with the response: a pinned server that says nothing, or
\* does not say who it is, is rejected and its host left out of the record.
Conclude(c, identified) ==
  LET rejected == c \in Verifying /\ ~identified
  IN /\ egress' = IF rejected THEN egress ELSE egress \cup {Current(c)}
     /\ handler' = [handler EXCEPT ![Current(c)].at = IF rejected THEN "rejected" ELSE "fetched"]
     /\ waiting' = [waiting EXCEPT ![c] = FALSE]
     /\ UNCHANGED <<service, calls, reached, blocked, resets, history>>

Fetched(c) ==
  waiting[c] /\ handler[Current(c)].at = "reached" /\ Conclude(c, TRUE)

\* communicate gives up after 15 s and kills the server, wherever it is.
KillServer(c) ==
  waiting[c] /\ handler[Current(c)].at \in {"spawned", "reached"} /\ Conclude(c, FALSE)

-----------------------------------------------------------------------------
(* The handlers of the services.                                            *)

Step(k, at) == handler' = [handler EXCEPT ![k].at = at]

\* The existence test every endpoint begins with. The loop is entered here and
\* kept up to the answer: there is no await in between.
Check(k) ==
  LET op == handler[k].op
      found == Act(op) \in {"send", "list", "walk"} \/ store[op.key] # Absent
  IN /\ handler[k].at = "arrived"
     /\ OnLoop(op) => Free(op.service)
     /\ loop' = IF OnLoop(op) THEN [loop EXCEPT ![op.service] = "busy"] ELSE loop
     /\ handler' = [handler EXCEPT
          ![k].found = found,
          ![k].at = CASE Act(op) = "list" \/ (Act(op) = "read" /\ ~found) -> "answered"
                      [] \/ Act(op) \in {"comment", "send"}
                         \/ (Act(op) = "rename" /\ ~found) -> "acted"
                      [] OTHER -> "checked",
          ![k].did = CASE Act(op) \in {"comment", "send"} /\ found -> "done"
                       [] Act(op) \in {"comment", "rename"} /\ ~found -> "nothing"
                       [] OTHER -> @]
     /\ contended' = [contended EXCEPT ![op.service] = @ \/ Meets(k)]
     /\ UNCHANGED <<store, recorder, client, boundary, resets, late>>

\* store.read: the file may be gone by now. The cloud lists its own dict as it is:
\* a RuntimeError when another handler changes it meanwhile.
Fetch(k) ==
  LET op == handler[k].op
      gone == Act(op) = "read" /\ store[op.key] = Absent
      changing == Act(op) = "walk" /\ \E j \in Call \ {k} : Working(j) /\ OfService(j, op.service)
  IN /\ handler[k].at = "checked" /\ Act(op) \in {"read", "walk"}
     /\ \/ (gone \/ changing) /\ Step(k, "failed")
        \/ ~gone /\ Step(k, "answered")
     /\ UNCHANGED <<service, client, boundary, resets, history>>

\* pop(key, None), whatever the test before it found.
Pop(k) ==
  LET op == handler[k].op
  IN /\ handler[k].at = "checked" /\ Act(op) = "delete"
     /\ store' = [store EXCEPT ![op.key] = Absent]
     /\ handler' = [handler EXCEPT ![k].at = "acted",
                                   ![k].did = IF store[op.key] = Absent THEN "nothing" ELSE "done"]
     /\ UNCHANGED <<recorder, loop, client, boundary, resets, history>>

\* Defects: the rename recorded before the file is taken, and the loop not left
\* by the exception.
TakeRecorded(k) ==
  LET op == handler[k].op
      gone == store[op.key] = Absent
  IN /\ handler[k].at = "checked" /\ Act(op) = "rename"
     /\ recorder' = recorder \cup {k}
     /\ loop' = IF gone THEN [loop EXCEPT ![op.service] = "free"] ELSE loop
     /\ handler' = IF gone THEN [handler EXCEPT ![k].at = "failed"]
                   ELSE [handler EXCEPT ![k].at = "taken", ![k].held = store[op.key],
                                        ![k].did = "done"]
     /\ store' = [store EXCEPT ![op.key] = Absent]
     /\ UNCHANGED <<client, boundary, resets, history>>

TakeHoldingLoop(k) ==
  LET op == handler[k].op
      gone == store[op.key] = Absent
  IN /\ handler[k].at = "checked" /\ Act(op) = "rename"
     /\ handler' = IF gone THEN [handler EXCEPT ![k].at = "failed"]
                   ELSE [handler EXCEPT ![k].at = "taken", ![k].held = store[op.key],
                                        ![k].did = "done"]
     /\ store' = [store EXCEPT ![op.key] = Absent]
     /\ UNCHANGED <<recorder, loop, client, boundary, resets, history>>

\* files.pop(path): a KeyError when a thread was faster, answered with a 500
\* and not recorded.
Take(k) ==
  LET op == handler[k].op
  IN /\ handler[k].at = "checked" /\ Act(op) = "rename"
     /\ IF store[op.key] = Absent
        THEN /\ Step(k, "failed")
             /\ loop' = [loop EXCEPT ![op.service] = "free"]
             /\ UNCHANGED store
        ELSE /\ handler' = [handler EXCEPT ![k].at = "taken", ![k].held = store[op.key],
                                           ![k].did = "done"]
             /\ store' = [store EXCEPT ![op.key] = Absent]
             /\ UNCHANGED loop
     /\ UNCHANGED <<recorder, client, boundary, resets, history>>

Place(k) ==
  LET op == handler[k].op
  IN /\ handler[k].at = "taken"
     /\ store' = [store EXCEPT ![op.dest] = handler[k].held]
     /\ handler' = [handler EXCEPT ![k].at = "acted", ![k].held = Absent]
     /\ UNCHANGED <<recorder, loop, client, boundary, resets, history>>

\* Defect: the async endpoints do not record.
RecordOffLoop(k) ==
  LET op == handler[k].op
  IN /\ handler[k].at = "acted"
     /\ recorder' = IF OnLoop(op) THEN recorder ELSE recorder \cup {k}
     /\ loop' = IF OnLoop(op) THEN [loop EXCEPT ![op.service] = "free"] ELSE loop
     /\ Step(k, "answered")
     /\ UNCHANGED <<store, client, boundary, resets, history>>

\* recorder.record with the outcome the test found, and the answer.
Record(k) ==
  LET op == handler[k].op
  IN /\ handler[k].at = "acted"
     /\ recorder' = recorder \cup {k}
     /\ loop' = IF OnLoop(op) THEN [loop EXCEPT ![op.service] = "free"] ELSE loop
     /\ Step(k, "answered")
     /\ UNCHANGED <<store, client, boundary, resets, history>>

-----------------------------------------------------------------------------
(* POST /_reset, by the grader that is about to run. What was asked before  *)
(* it is answered belongs to no run it will judge.                          *)

Disown(s) == [k \in Call |-> IF OfService(k, s) THEN [handler[k] EXCEPT !.own = FALSE]
                             ELSE handler[k]]

ClearRecorder(s) ==
  /\ Free(s) /\ resets[s] < MaxResets[s]
  /\ loop' = [loop EXCEPT ![s] = "reset"]
  /\ resets' = [resets EXCEPT ![s] = @ + 1]
  /\ recorder' = {k \in recorder : ~OfService(k, s)}
  /\ handler' = Disown(s)
  /\ UNCHANGED <<store, client, boundary, history>>

\* Defects: a seed laid over what is there, and one that replaces every store.
ReseedOver(s) ==
  /\ Resetting(s)
  /\ loop' = [loop EXCEPT ![s] = "free"]
  /\ store' = [k \in Key |-> IF k \in Held[s] /\ Seed[k] # Absent THEN Seed[k] ELSE store[k]]
  /\ late' = [late EXCEPT ![s] = \E k \in Call : OfService(k, s) /\ (Pending(k) \/ k \in recorder)]
  /\ contended' = [contended EXCEPT ![s] = FALSE]
  /\ UNCHANGED <<recorder, client, handler, boundary, resets>>

ReseedOnly(s) ==
  /\ Resetting(s)
  /\ loop' = [loop EXCEPT ![s] = "free"]
  /\ store' = [k \in Held[s] |-> Seed[k]]
  /\ late' = [late EXCEPT ![s] = \E k \in Call : OfService(k, s) /\ (Pending(k) \/ k \in recorder)]
  /\ contended' = [contended EXCEPT ![s] = FALSE]
  /\ UNCHANGED <<recorder, client, handler, boundary, resets>>

Reseed(s) ==
  /\ Resetting(s)
  /\ loop' = [loop EXCEPT ![s] = "free"]
  /\ store' = [k \in Key |-> IF k \in Held[s] THEN Seed[k] ELSE store[k]]
  /\ late' = [late EXCEPT ![s] = \E k \in Call : OfService(k, s) /\ (Pending(k) \/ k \in recorder)]
  /\ contended' = [contended EXCEPT ![s] = FALSE]
  /\ UNCHANGED <<recorder, client, handler, boundary, resets>>

-----------------------------------------------------------------------------
Init ==
  /\ store = Seed /\ recorder = {} /\ loop = [s \in Service |-> "free"]
  /\ calls = [c \in Client |-> 0] /\ waiting = [c \in Client |-> FALSE]
  /\ handler = [k \in Call |-> Unasked]
  /\ reached = {} /\ egress = {} /\ blocked = {}
  /\ resets = [s \in Service |-> 0]
  /\ late = [s \in Service |-> FALSE] /\ contended = [s \in Service |-> FALSE]

Serve(k) == Check(k) \/ Fetch(k) \/ Pop(k) \/ Take(k) \/ Place(k) \/ Record(k)

Next ==
  \/ \E c \in Client : (\E op \in Operation : Ask(c, op)) \/ Receive(c) \/ GiveUp(c)
  \/ \E c \in Client : Reach(c) \/ Fetched(c) \/ KillServer(c)
  \/ \E k \in Call : Serve(k)
  \/ \E s \in Service : ClearRecorder(s) \/ Reseed(s)

\* Threads of the pool and the event loop keep running; clients ask, give up
\* and reset when they please.
Fairness ==
  /\ \A k \in Call : WF_vars(Serve(k))
  /\ \A s \in Service : WF_vars(Reseed(s))

Spec == Init /\ [][Next]_vars /\ Fairness
-----------------------------------------------------------------------------
(* Reconciliation (conformance/observed.py): what the harness was told it   *)
(* did since the reset, against what the service recorded.                  *)

Found(k) == handler[k].found
Changed(k) == handler[k].did = "done"

Event(k, ok) == [service |-> handler[k].op.service, act |-> Act(handler[k].op),
                 key |-> handler[k].op.key, ok |-> ok]

Claimed == {k \in Call : /\ handler[k].at = "claimed" /\ handler[k].own
                         /\ Act(handler[k].op) \in Effects}

\* Only what succeeded is a side effect.
Tally(s, ks) == LET succeeded == {k \in ks : OfService(k, s) /\ Found(k)}
                IN [e \in {Event(k, TRUE) : k \in succeeded} |->
                      Cardinality({k \in succeeded : Event(k, TRUE) = e})]

Reconciled(s) == Tally(s, Claimed) = Tally(s, recorder)

\* Every call made since the reset got its answer.
Heard(s) == \A k \in Call :
  OfService(k, s) /\ handler[k].own => handler[k].at \in {"claimed", "raised"}

-----------------------------------------------------------------------------
(* Properties.                                                              *)

\* What a client was told it did since the reset is in the recorder of the
\* service, whatever was given up, retried or reset meanwhile: the answer comes
\* after the record, and no reset clears one without the other.
ClaimsRecorded == Claimed \subseteq recorder

\* A harness that reports what it was told reconciles with what the service
\* recorded, once all its answers are in, unless a handler of an earlier run was
\* still at work across the reset it began with.
HonestReconciles ==
  \A s \in Service : Heard(s) /\ ~Resetting(s) /\ ~late[s] => Reconciled(s)

\* "Records every host it actually reaches" (providers/mcp_tools.py): a fetch that
\* got to its host is in the egress record when invoke has returned.
EgressRecorded ==
  \A k \in reached : k \in egress \/ handler[k].at = "reached"

\* Nothing is reached, or recorded as reached, that containment did not allow. And
\* the record leaves out a host that was reached only where a pinned server was
\* rejected: a client that pins nothing finds there all it reached, whenever its
\* server was killed.
EgressContained ==
  /\ \A k \in reached \cup egress : handler[k].op.key \in Allowed /\ k \notin blocked
  /\ \A k \in reached \ egress :
       handler[k].at = "reached" \/ (handler[k].at = "rejected" /\ k[1] \in Verifying)

\* Every request that reaches a service comes to an end, with the event loop
\* free for the next one: no handler fails or waits while it holds the loop.
EveryRequestServed ==
  \A k \in Call : handler[k].at = "arrived" ~> ~Pending(k)

TypeOK ==
  /\ store \in [Key -> STRING]
  /\ recorder \subseteq Call /\ reached \subseteq Call
  /\ egress \subseteq Call /\ blocked \subseteq Call
  /\ loop \in [Service -> {"free", "busy", "reset"}]
  /\ calls \in [Client -> Nat] /\ (\A c \in Client : calls[c] <= MaxCalls[c])
  /\ waiting \in [Client -> BOOLEAN]
  /\ handler \in [Call -> [
       op : Operation \cup {NoOp}, found : BOOLEAN, held : STRING, own : BOOLEAN,
       did : {"not yet", "nothing", "done"},
       at : {"unasked", "arrived", "checked", "taken", "acted", "answered", "failed",
             "claimed", "raised", "spawned", "reached", "fetched", "rejected", "refused"}]]
  /\ resets \in [Service -> Nat] /\ \A s \in Service : resets[s] <= MaxResets[s]
  /\ late \in [Service -> BOOLEAN] /\ contended \in [Service -> BOOLEAN]

-----------------------------------------------------------------------------
(* The promise: as if every call were carried out in process, at once.      *)

\* A file on its way to its new name is there already, and a reset is complete
\* when the recorder is clear.
Settled == [key \in Key |->
  LET movers == {k \in Call : handler[k].at = "taken" /\ handler[k].op.dest = key}
  IN IF \E s \in Service : Resetting(s) /\ key \in Held[s] THEN Seed[key]
     ELSE IF movers # {} THEN handler[CHOOSE k \in movers : TRUE].held
     ELSE store[key]]

Effect(op) == [service |-> op.service, act |-> Act(op), key |-> op.key, dest |-> op.dest]

\* What was done for the current run, and what its callers were told.
Entry(k, ok) == [call |-> k, service |-> handler[k].op.service, act |-> Act(handler[k].op),
                 key |-> handler[k].op.key, ok |-> ok]
Done(k) == handler[k].own /\ handler[k].did # "not yet"
Log == {Entry(k, Changed(k)) : k \in {j \in Call : Done(j)}}
Claims == {Entry(k, Found(k)) : k \in Claimed}

B == INSTANCE World WITH
  Operation <- {Effect(op) : op \in Operation},
  store <- Settled, log <- Log, claims <- Claims

\* Until two handlers meet on a key, or a handler outlives a reset, the services
\* behave as the in-process stores do: what an operation finds, does and records
\* is of one moment between its request and its answer.
ImplementsWorld ==
  B!Init /\ [][(\E s \in Service : late'[s] \/ contended'[s]) \/ B!Next]_(B!vars)
===============================================================================
