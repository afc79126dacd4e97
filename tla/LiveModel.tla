------------------------------- MODULE LiveModel -------------------------------
(***************************************************************************)
(* Live runs and the tutor: requests of the UI served by concurrent        *)
(* threads over one process-wide settings object and one environment       *)
(* variable (dvah/webapi/settings.py, app.py, tutor.py,                    *)
(* dvah/providers/router_model.py, bedrock_model.py).                      *)
(*                                                                         *)
(* A step ends where another thread may run and tell the difference: each  *)
(* assignment of a settings update, the gate of a live run and the reading *)
(* of its key on a worker thread, and every entry to and exit from the     *)
(* scope in which the Bedrock token is in the environment.                 *)
(***************************************************************************)
EXTENDS Naturals, Sequences

CONSTANTS
  Request,       \* the requests that arrive, each served by its own thread
  Asks,          \* the operations each of them may ask for
  Provider,      \* PROVIDERS
  Bedrock,       \* the provider whose key travels in the environment
  Deterministic, \* the scripted oracle
  Key,           \* credentials a user may type in, or the environment may hold
  Unset,         \* None: a variable, a key or a parameter that is not there
  Empty,         \* the empty string
  EnvKey,        \* the credential variables of the environment at startup
  AwsChain       \* an AWS access key or profile is configured

VARIABLES
  provider, \* RuntimeSettings.tutor_provider()
  keys,     \* RuntimeSettings._api_keys
  tutorOn,  \* RuntimeSettings.tutor_enabled()
  bearer,   \* os.environ["AWS_BEARER_TOKEN_BEDROCK"]
  request   \* the state of every request

vars == <<provider, keys, tutorOn, bearer, request>>

Operations == {"update", "live", "tutor"}

ASSUME LiveModelAssumption ==
  /\ Asks \in [Request -> SUBSET Operations]
  /\ Bedrock \in Provider /\ Deterministic \notin Provider
  /\ Unset \notin Key \cup Provider \cup {Deterministic, Empty} /\ Empty \notin Key
  /\ EnvKey \in [Provider -> Key \cup {Unset, Empty}]
  /\ AwsChain \in BOOLEAN

at(r) == request[r].at
Goto(r, next) == request' = [request EXCEPT ![r].at = next]
Answer(r, answer) == request' = [request EXCEPT ![r].at = "answered", ![r].answer = answer]

-----------------------------------------------------------------------------
(* Credentials.                                                             *)

Environment(p) == IF p = Bedrock THEN bearer ELSE EnvKey[p]

\* Defect: one key for the model in use, whichever provider is called.
SharedKey(p) ==
  IF keys[p] # Unset THEN keys[p]
  ELSE IF keys[provider] # Unset THEN keys[provider]
  ELSE Environment(p)

\* Only keys that are not empty are ever stored.
ApiKey(p) == IF keys[p] # Unset THEN keys[p] ELSE Environment(p)

Ready(p) == ApiKey(p) # Unset \/ (p = Bedrock /\ AwsChain)

Admits(p) == p \in Provider => ApiKey(p) # Unset

-----------------------------------------------------------------------------
(* Arrival.                                                                 *)

NoUpdate == [provider |-> Unset, key |-> Unset, tutor |-> FALSE]
Updates == [provider : Provider \cup {Deterministic, Unset}, key : Key \cup {Unset},
            tutor : BOOLEAN]

Idle == [at |-> "idle", op |-> "none", ask |-> NoUpdate, with |-> Unset, key |-> Unset,
         scripted |-> TRUE, idx |-> 1, found |-> EnvKey[Bedrock], ok |-> FALSE,
         fellBack |-> {}, turn |-> Unset, answer |-> "none"]

\* A live run names a provider, the oracle, or nothing; its task has a script
\* or was made up by the client.
Begin(r) ==
  /\ at(r) = "idle"
  /\ \/ /\ "update" \in Asks[r]
        /\ \E ask \in Updates :
             request' = [request EXCEPT ![r].op = "update", ![r].at = "provider", ![r].ask = ask]
     \/ /\ "live" \in Asks[r]
        /\ \E p \in Provider \cup {Deterministic, Unset}, scripted \in BOOLEAN :
             request' = [request EXCEPT ![r].op = "live", ![r].at = "gate", ![r].with = p,
                                        ![r].scripted = scripted]
     \/ /\ "tutor" \in Asks[r]
        /\ request' = [request EXCEPT ![r].op = "tutor", ![r].at = "enabled"]
  /\ UNCHANGED <<provider, keys, tutorOn, bearer>>

-----------------------------------------------------------------------------
(* RuntimeSettings.update, assignment by assignment.                        *)

SetProvider(r) ==
  /\ at(r) = "provider"
  /\ LET p == request[r].ask.provider
     IN IF p \in Provider \cup {Unset}
        THEN /\ provider' = IF p = Unset THEN provider ELSE p
             /\ Goto(r, "store")
        ELSE /\ Answer(r, "refused")
             /\ UNCHANGED provider
  /\ UNCHANGED <<keys, tutorOn, bearer>>

\* The key is filed under the provider that is current by now.
StoreKey(r) ==
  /\ at(r) = "store"
  /\ tutorOn' = request[r].ask.tutor
  /\ keys' = IF request[r].ask.key = Unset THEN keys
             ELSE [keys EXCEPT ![provider] = request[r].ask.key]
  /\ Answer(r, "ok")
  /\ UNCHANGED <<provider, bearer>>

-----------------------------------------------------------------------------
(* live_run_session and build_model_session.                                *)

Selected(r) == IF request[r].with = Unset THEN provider ELSE request[r].with

Gate(r) ==
  /\ at(r) = "gate"
  /\ \/ Answer(r, "missing")
     \/ /\ ~Admits(Selected(r))
        /\ Answer(r, "refused")
     \/ /\ Admits(Selected(r))
        /\ request' = [request EXCEPT ![r].at = "build", ![r].with = Selected(r)]
  /\ UNCHANGED <<provider, keys, tutorOn, bearer>>

\* On the worker thread: the challenge is loaded, which fails if its
\* directory has gone, and the key is read for the adapter.
Build(r) ==
  /\ at(r) = "build"
  /\ \/ Answer(r, "error")
     \/ request' = [request EXCEPT ![r].at = "next",
                      ![r].key = IF request[r].with = Deterministic THEN Unset
                                 ELSE ApiKey(request[r].with)]
  /\ UNCHANGED <<provider, keys, tutorOn, bearer>>

Candidates(r) ==
  IF request[r].op = "tutor" \/ request[r].with = Deterministic THEN <<request[r].with>>
  ELSE <<request[r].with, Deterministic>>

Active(r) == Candidates(r)[request[r].idx]

\* ScriptedSession.next
Replay(r) ==
  /\ at(r) = "next" /\ Active(r) = Deterministic
  /\ IF request[r].scripted
     THEN request' = [request EXCEPT ![r].at = "answered", ![r].answer = "ok",
                                     ![r].turn = Deterministic]
     ELSE Goto(r, "failed")
  /\ UNCHANGED <<provider, keys, tutorOn, bearer>>

\* Defect: the router gives up one candidate early.
LastButOne(r) == request[r].idx + 1 >= Len(Candidates(r))

\* No candidate is left to fall through to.
NoneLeft(r) == request[r].idx + 1 > Len(Candidates(r))

\* Defect: the event is emitted only when a candidate after the next is left.
TraceUnlessLast(r) ==
  IF request[r].idx + 1 = Len(Candidates(r)) THEN {} ELSE {<<Active(r), Deterministic>>}

\* model.fallback, from the failed candidate to the next.
FallbackEvent(r) == {<<Active(r), Candidates(r)[request[r].idx + 1]>>}

\* Defect: the failed candidate is tried again.
Again(r) == request[r].idx

\* Defect: the index is advanced where the error is caught and once more.
Twice(r) == request[r].idx + 2

Following(r) == request[r].idx + 1

\* ModelRouter.next after an error; once nobody is left, the run is halted.
FallBack(r) ==
  /\ at(r) = "failed"
  /\ IF NoneLeft(r) THEN Answer(r, "halted")
     ELSE request' = [request EXCEPT ![r].at = "next", ![r].idx = Following(r),
                                     ![r].fellBack = @ \cup FallbackEvent(r)]
  /\ UNCHANGED <<provider, keys, tutorOn, bearer>>

-----------------------------------------------------------------------------
(* A call of a remote provider and the scope of the Bedrock token.          *)

InScope(r) == request[r].with = Bedrock /\ request[r].key \in Key

\* The token goes into the environment; what was there is remembered.
Enter(r) ==
  /\ at(r) = "next" /\ Active(r) = Bedrock /\ InScope(r)
  /\ bearer' = request[r].key
  /\ request' = [request EXCEPT ![r].at = "calling", ![r].found = bearer]
  /\ UNCHANGED <<provider, keys, tutorOn>>

\* Other providers, and Bedrock by way of the AWS chain.
Connect(r) ==
  /\ at(r) = "next" /\ Active(r) \in Provider /\ ~InScope(r)
  /\ Goto(r, "calling")
  /\ UNCHANGED <<provider, keys, tutorOn, bearer>>

Outcome(r, ok) ==
  CASE ok -> request' = [request EXCEPT ![r].at = "answered", ![r].answer = "ok",
                                        ![r].turn = request[r].with]
    [] ~ok /\ request[r].op = "tutor" -> Answer(r, "error")
    [] ~ok /\ request[r].op = "live" -> Goto(r, "failed")

\* The provider answers, refuses, or cannot be reached; the SDK may be absent.
Call(r) ==
  /\ at(r) = "calling"
  /\ \E ok \in BOOLEAN :
       IF InScope(r) THEN request' = [request EXCEPT ![r].at = "leave", ![r].ok = ok]
       ELSE Outcome(r, ok)
  /\ UNCHANGED <<provider, keys, tutorOn, bearer>>

\* Defect: no finally, so an error leaves the token where it is.
RestoredAfterSuccess(r) == IF request[r].ok THEN request[r].found ELSE bearer

Restored(r) == request[r].found

Leave(r) ==
  /\ at(r) = "leave"
  /\ bearer' = Restored(r)
  /\ Outcome(r, request[r].ok)
  /\ UNCHANGED <<provider, keys, tutorOn>>

-----------------------------------------------------------------------------
(* The tutor.                                                               *)

TutorGate(r) ==
  /\ at(r) = "enabled"
  /\ \/ /\ ~(tutorOn /\ Ready(provider))
        /\ Answer(r, "refused")
     \/ /\ tutorOn /\ Ready(provider)
        /\ Answer(r, "missing") \/ Goto(r, "adapter")
  /\ UNCHANGED <<provider, keys, tutorOn, bearer>>

\* The provider is read once more, then its key; the client is made outside
\* the scope of the token.
Adapter(r) ==
  /\ at(r) = "adapter"
  /\ \/ Answer(r, "error")
     \/ request' = [request EXCEPT ![r].at = "next", ![r].with = provider,
                                   ![r].key = ApiKey(provider)]
  /\ UNCHANGED <<provider, keys, tutorOn, bearer>>

-----------------------------------------------------------------------------

Init ==
  /\ provider \in Provider
  /\ keys = [p \in Provider |-> Unset]
  /\ tutorOn \in BOOLEAN
  /\ bearer = EnvKey[Bedrock]
  /\ request = [r \in Request |-> Idle]

Serve(r) ==
  \/ SetProvider(r) \/ StoreKey(r)
  \/ Gate(r) \/ Build(r) \/ Replay(r) \/ FallBack(r)
  \/ Enter(r) \/ Connect(r) \/ Call(r) \/ Leave(r)
  \/ TutorGate(r) \/ Adapter(r)

Quiet == (\A r \in Request : at(r) = "answered") /\ UNCHANGED vars

Next == (\E r \in Request : Begin(r) \/ Serve(r)) \/ Quiet

\* A thread that can go on does; a remote call ends, by the client's own
\* timeout if by nothing else.
Spec == Init /\ [][Next]_vars /\ \A r \in Request : WF_vars(Serve(r))

-----------------------------------------------------------------------------
(* Properties.                                                              *)

Places == {"idle", "answered", "provider", "store", "gate", "build", "next", "failed",
           "calling", "leave", "enabled", "adapter"}

\* Every variable has its type; a router's index stays within its candidates.
TypeOK ==
  /\ provider \in Provider /\ tutorOn \in BOOLEAN
  /\ keys \in [Provider -> Key \cup {Unset}]
  /\ bearer \in Key \cup {Unset, Empty}
  /\ \A r \in Request :
       /\ at(r) \in Places
       /\ request[r].op \in Operations \cup {"none"}
       /\ request[r].key \in Key \cup {Unset, Empty}
       /\ request[r].idx \in 1 .. Len(Candidates(r))

\* router_model.py: a turn of the oracle in a run that asked for a live model
\* is announced by a model.fallback event, and a turn of the live model by
\* none.
FallbackTraced ==
  \A r \in Request :
    request[r].op = "live" /\ request[r].turn # Unset =>
      request[r].fellBack = IF request[r].turn = request[r].with THEN {}
                            ELSE {<<request[r].with, Deterministic>>}

\* _run_live "never hard-fails a run": once the router is built, a task that
\* has a script gets its turn, whatever the provider does.
DegradesToOracle ==
  \A r \in Request : request[r].scripted => request[r].answer # "halted"

\* RuntimeSettings: a key that a provider is called with was entered for it,
\* or for whichever provider was current, or came from its own variable.
KeyReachesItsProvider ==
  \A r \in Request :
    at(r) \in {"calling", "leave"} /\ request[r].key \in Key =>
      \/ request[r].key = EnvKey[request[r].with]
      \/ \E u \in Request : /\ request[u].op = "update"
                            /\ request[u].ask.key = request[r].key
                            /\ request[u].ask.provider \in {request[r].with, Unset}

Calling == {r \in Request : at(r) \in {"calling", "leave"} /\ InScope(r)}

\* _bearer_env "Temporarily set AWS_BEARER_TOKEN_BEDROCK, then restore — no
\* global pollution": with no call under way the variable is what it was when
\* the process started, provided the calls did not overlap, so that each found
\* it so.
EnvRestoredInTurn ==
  Calling = {} /\ (\A r \in Request : request[r].found = EnvKey[Bedrock]) =>
    bearer = EnvKey[Bedrock]

\* Every request that arrived is answered.
Answered == \A r \in Request : (at(r) # "idle") ~> (at(r) = "answered")
===============================================================================
