---------------------------- MODULE LiveModelProofs ----------------------------
(***************************************************************************)
(* Theorems of LiveModel, for any number of threads, providers and keys:   *)
(* where each request is and what its router has done (Routed), where the  *)
(* keys come from (Sourced), and when the variable of the environment is   *)
(* what it was (Restorable).                                               *)
(***************************************************************************)
EXTENDS LiveModel, TLAPS

Model == Provider \cup {Deterministic}
Value == Key \cup {Unset, Empty}

Field == {"at", "op", "ask", "with", "key", "scripted", "idx", "found", "ok", "fellBack",
          "turn", "answer"}

\* A request is a record with the types of its fields.
Record(q) ==
  /\ Field \subseteq DOMAIN q
  /\ q.at \in Places /\ q.op \in Operations \cup {"none"}
  /\ q.ask \in Updates
  /\ q.with \in Model \cup {Unset} /\ q.key \in Value
  /\ q.idx \in {1, 2} /\ q.found \in Value /\ q.ok \in BOOLEAN

Typed ==
  /\ provider \in Provider /\ tutorOn \in BOOLEAN
  /\ keys \in [Provider -> Key \cup {Unset}]
  /\ bearer \in Value
  /\ DOMAIN request = Request

\* The operation of a request tells where it may be, and once its model is
\* chosen that does not change.
Placed(q) ==
  /\ q.at = "idle" => q.op = "none"
  /\ q.at \in {"provider", "store"} => q.op = "update"
  /\ q.at \in {"gate", "build", "failed"} => q.op = "live"
  /\ q.at \in {"enabled", "adapter"} => q.op = "tutor"
  /\ q.at \in {"next", "calling", "leave"} => q.op \in {"live", "tutor"}
  /\ q.at \in {"build", "next", "failed"} => q.with \in Model
  /\ q.at = "next" /\ q.op = "tutor" => q.with \in Provider
  /\ q.at \in {"calling", "leave"} => q.with \in Provider
  /\ q.at \in {"idle", "provider", "store", "gate", "build", "enabled", "adapter"} =>
       q.key = Unset

\* The router is at its first candidate and has announced nothing, or at the
\* oracle after a provider, and has announced that.
Fallen(q) ==
  /\ q.idx = 1 => q.fellBack = {}
  /\ q.idx = 2 =>
       /\ q.op = "live" /\ q.with \in Provider
       /\ q.at \in {"next", "failed", "answered"}
       /\ q.fellBack = {<<q.with, Deterministic>>}
  /\ q.turn # Unset => q.at = "answered" /\ q.turn = IF q.idx = 1 THEN q.with ELSE Deterministic
  /\ q.at = "failed" /\ q.scripted => q.idx = 1 /\ q.with \in Provider
  /\ q.answer = "halted" => q.at = "answered" /\ ~q.scripted

Good(q) == Record(q) /\ Placed(q) /\ Fallen(q)

\* Everybody does what they may ask for.
Routed ==
  \A r \in Request :
    /\ Good(request[r])
    /\ request[r].op # "none" => request[r].op \in Asks[r]

-----------------------------------------------------------------------------
(* Types.                                                                   *)

LEMMA ApiKeyTyped ==
  ASSUME Typed, NEW p \in Provider
  PROVE  ApiKey(p) \in Value
  BY LiveModelAssumption DEF LiveModelAssumption, ApiKey, Environment, Value, Typed

LEMMA TypedInit == Init => Typed
  <1> SUFFICES ASSUME Init
               PROVE  Typed
    OBVIOUS
  <1>1. EnvKey[Bedrock] \in Value
    BY LiveModelAssumption DEF LiveModelAssumption, Value
  <1> QED
    BY <1>1 DEF Init, Typed

LEMMA RoutedInit == Init => Routed
  <1> SUFFICES ASSUME Init
               PROVE  Routed
    OBVIOUS
  <1>1. EnvKey[Bedrock] \in Value
    BY LiveModelAssumption DEF LiveModelAssumption, Value
  <1>2. NoUpdate \in Updates
    BY DEF NoUpdate, Updates
  <1>3. Good(Idle)
    BY <1>1, <1>2 DEF Idle, Good, Record, Placed, Fallen, Places, Operations, Model, Value, Field
  <1> QED
    BY <1>3 DEF Init, Routed, Idle

-----------------------------------------------------------------------------
(* Where keys come from, and the variable of the environment.               *)

\* Entered for the provider, or for the current one, or its own variable.
Meant(p, key) ==
  \/ key = EnvKey[p]
  \/ \E u \in Request : /\ request[u].op = "update"
                        /\ request[u].ask.key = key
                        /\ request[u].ask.provider \in {p, Unset}

\* No two updates of the settings at once.
OneEditor ==
  \A r, u \in Request : "update" \in Asks[r] /\ "update" \in Asks[u] => r = u

Stored ==
  /\ \A p \in Provider : keys[p] \in Key => Meant(p, keys[p])
  /\ bearer \in Key => Meant(Bedrock, bearer)

Carries(r) ==
  /\ request[r].found \in Key => Meant(Bedrock, request[r].found)
  /\ request[r].with \in Provider /\ request[r].key \in Key =>
       Meant(request[r].with, request[r].key)
  /\ request[r].at = "store" /\ request[r].ask.provider # Unset =>
       provider = request[r].ask.provider

Sourced == Stored /\ \A r \in Request : Carries(r)

\* If every scope found the variable as it was at the start, it is so, or a
\* scope is open.
Restorable ==
  (\A r \in Request : request[r].found = EnvKey[Bedrock]) =>
    bearer = EnvKey[Bedrock] \/ Calling # {}

Inv == Typed /\ Routed /\ (OneEditor => Sourced) /\ Restorable

\* What all steps of a request but the first, the update and the scope share.
Advances(r) ==
  /\ DOMAIN request' = Request
  /\ \A u \in Request \ {r} : request'[u] = request[u]
  /\ Good(request'[r]) /\ request'[r].at # "store"
  /\ request'[r].op = request[r].op /\ request'[r].ask = request[r].ask
  /\ request'[r].found = request[r].found
  /\ \/ request'[r].with = request[r].with /\ request'[r].key = request[r].key
     \/ request'[r].key = Unset
     \/ request'[r].key = ApiKey(request'[r].with)
  /\ at(r) = "calling" /\ InScope(r) => at(r)' = "leave" /\ InScope(r)'
  /\ at(r) # "leave"
  /\ UNCHANGED <<provider, keys, tutorOn, bearer>>

LEMMA MeantStays ==
  ASSUME \A u \in Request : request[u].op = "update" =>
           request'[u].op = "update" /\ request'[u].ask = request[u].ask,
         NEW p, NEW key, Meant(p, key)
  PROVE  Meant(p, key)'
  BY DEF Meant

LEMMA AdvancesKeeps ==
  ASSUME Inv, NEW r \in Request, Advances(r)
  PROVE  Inv'
  <1>1. Typed' /\ Routed'
    BY DEF Inv, Typed, Routed, Advances
  <1>2. ASSUME NEW p, NEW key, Meant(p, key) PROVE Meant(p, key)'
    BY <1>2, MeantStays DEF Advances
  <1>3. ASSUME OneEditor, Sourced PROVE Sourced'
    <2>1. ASSUME request'[r].with \in Provider, request'[r].key \in Key
          PROVE  Meant(request'[r].with, request'[r].key)
      <3>1. CASE request'[r].with = request[r].with /\ request'[r].key = request[r].key
        BY <1>3, <2>1, <3>1 DEF Sourced, Stored, Carries
      <3>2. CASE request'[r].key = ApiKey(request'[r].with)
        BY <1>3, <2>1, <3>2, LiveModelAssumption
           DEF LiveModelAssumption, Sourced, Stored, Carries, ApiKey, Environment, Meant
      <3> QED
        BY <2>1, <3>1, <3>2, LiveModelAssumption DEF Advances, LiveModelAssumption
    <2> QED
      BY <1>2, <1>3, <2>1 DEF Sourced, Stored, Carries, Advances, at
  <1>4. Restorable'
    <2> SUFFICES ASSUME \A u \in Request : request'[u].found = EnvKey[Bedrock],
                        bearer # EnvKey[Bedrock]
                 PROVE  Calling' # {}
      BY DEF Restorable, Advances
    <2>1. PICK c \in Request : at(c) \in {"calling", "leave"} /\ InScope(c)
      BY DEF Inv, Restorable, Advances, Calling
    <2>2. at(c)' \in {"calling", "leave"} /\ InScope(c)'
      BY <2>1 DEF Advances, at, InScope
    <2> QED
      BY <2>2 DEF Calling
  <1> QED
    BY <1>1, <1>3, <1>4 DEF Inv, OneEditor

-----------------------------------------------------------------------------
(* One lemma per group of actions.                                          *)

\* What a step of a request leaves alone of its record.
Keeps(q, p) == p.op = q.op /\ p.ask = q.ask /\ p.found = q.found

\* What every step below has been shown to do once its record is known.
LEMMA Advance ==
  ASSUME Inv, NEW r \in Request, at(r) # "leave",
         \A u \in Request \ {r} : request'[u] = request[u], DOMAIN request' = Request,
         UNCHANGED <<provider, keys, tutorOn, bearer>>,
         Good(request'[r]), Keeps(request[r], request'[r]), request'[r].at # "store",
         at(r) = "calling" /\ InScope(r) => at(r)' = "leave" /\ InScope(r)',
         \/ request'[r].with = request[r].with /\ request'[r].key = request[r].key
         \/ request'[r].key = Unset
         \/ request'[r].key = ApiKey(request'[r].with)
  PROVE  Advances(r)
  BY DEF Advances, Keeps

LEMMA GateAdvances ==
  ASSUME Inv, NEW r \in Request, Gate(r) \/ Build(r)
  PROVE  Advances(r)
  <1> DEFINE q == request[r]
             p == request'[r]
  <1>1. Good(q) /\ DOMAIN request = Request
    BY DEF Inv, Typed, Routed
  <1>2. /\ q.at \in {"gate", "build"}
        /\ \/ \E answer \in {"missing", "refused", "error"} :
                p = [q EXCEPT !.at = "answered", !.answer = answer]
           \/ /\ q.at = "gate" /\ Selected(r) \in Model
              /\ p = [q EXCEPT !.at = "build", !.with = Selected(r)]
           \/ /\ q.at = "build"
              /\ \E key \in {Unset, ApiKey(q.with)} :
                   /\ key \in Value
                   /\ p = [q EXCEPT !.at = "next", !.key = key]
        /\ \A u \in Request \ {r} : request'[u] = request[u]
        /\ DOMAIN request' = Request
        /\ UNCHANGED <<provider, keys, tutorOn, bearer>>
    <2>1. Selected(r) \in Model \/ q.at # "gate"
      BY <1>1 DEF Selected, Inv, Typed, Model, Good, Record
    <2>2. q.at = "build" /\ q.with # Deterministic => ApiKey(q.with) \in Value
      BY <1>1, ApiKeyTyped DEF Inv, Good, Placed, Model
    <2>3. CASE Gate(r)
      BY <1>1, <2>1, <2>3 DEF Gate, at, Answer
    <2>4. CASE Build(r)
      BY <1>1, <2>2, <2>4 DEF Build, at, Answer, Value
    <2> QED
      BY <2>3, <2>4
  <1> HIDE DEF p, q
  <1>3. /\ Good(p) /\ Keeps(q, p) /\ p.at # "store"
        /\ \/ p.with = q.with /\ p.key = q.key
           \/ p.key = Unset
           \/ p.key = ApiKey(p.with)
    <2>1. CASE \E answer \in {"missing", "refused", "error"} :
                 p = [q EXCEPT !.at = "answered", !.answer = answer]
      BY <1>1, <1>2, <2>1, LiveModelAssumption
         DEF LiveModelAssumption, Good, Record, Placed, Fallen, Field, Places, Operations,
             Model, Value, Keeps
    <2>2. CASE /\ q.at = "gate" /\ Selected(r) \in Model
               /\ p = [q EXCEPT !.at = "build", !.with = Selected(r)]
      BY <1>1, <2>2, LiveModelAssumption
         DEF LiveModelAssumption, Good, Record, Placed, Fallen, Field, Places, Operations, Model,
             Value, Keeps
    <2>3. ASSUME q.at = "build",
                 NEW key \in {Unset, ApiKey(q.with)}, key \in Value,
                 p = [q EXCEPT !.at = "next", !.key = key]
          PROVE  Good(p) /\ Keeps(q, p) /\ p.at # "store" /\ p.key = key /\ p.with = q.with
      BY <1>1, <2>3, LiveModelAssumption
         DEF LiveModelAssumption, Good, Record, Placed, Fallen, Field, Places, Operations, Model,
             Value, Keeps
    <2> QED
      BY <1>2, <2>1, <2>2, <2>3
  <1> QED
    BY <1>2, <1>3, Advance DEF at, p, q

\* ScriptedSession.next and ModelRouter.next after an error.
LEMMA OracleAdvances ==
  ASSUME Inv, NEW r \in Request, Replay(r) \/ FallBack(r)
  PROVE  Advances(r)
  <1> DEFINE q == request[r]
             p == request'[r]
  <1>1. Good(q) /\ DOMAIN request = Request
    BY DEF Inv, Typed, Routed
  <1>2. /\ \A u \in Request \ {r} : request'[u] = request[u]
        /\ DOMAIN request' = Request
        /\ UNCHANGED <<provider, keys, tutorOn, bearer>>
        /\ q.at \in {"next", "failed"}
    BY <1>1 DEF Replay, FallBack, at, Goto, Answer
  <1>3. CASE Replay(r)
    <2>1. /\ q.at = "next"
          /\ \/ /\ q.scripted
                /\ p = [q EXCEPT !.at = "answered", !.answer = "ok", !.turn = Deterministic]
             \/ ~q.scripted /\ p = [q EXCEPT !.at = "failed"]
          /\ q.op = "live" /\ (q.idx = 1 => q.with = Deterministic)
      <3>1. q.op = "live" /\ (q.idx = 1 => q.with = Deterministic)
        BY <1>1, <1>3, LiveModelAssumption
           DEF Replay, at, Active, Candidates, Good, Record, Placed, Fallen, LiveModelAssumption
      <3> QED
        BY <1>1, <1>3, <3>1 DEF Replay, at, Goto
    <2> HIDE DEF p, q
    <2>2. Good(p) /\ Keeps(q, p) /\ p.at # "store" /\ p.with = q.with /\ p.key = q.key
      <3>1. CASE q.scripted
        <4>1. /\ p.at = "answered" /\ p.turn = Deterministic /\ p.answer = "ok"
              /\ \A f \in Field \ {"at", "turn", "answer"} : p[f] = q[f]
              /\ Field \subseteq DOMAIN p
          BY <1>1, <2>1, <3>1 DEF Good, Record, Field
        <4>2. /\ p.op = q.op /\ p.ask = q.ask /\ p.with = q.with /\ p.key = q.key
              /\ p.scripted = q.scripted /\ p.idx = q.idx /\ p.found = q.found
              /\ p.fellBack = q.fellBack /\ p.ok = q.ok
          BY <4>1 DEF Field
        <4> QED
          BY <1>1, <2>1, <4>1, <4>2, LiveModelAssumption
             DEF LiveModelAssumption, Good, Record, Placed, Fallen, Places, Keeps, Model
      <3>2. CASE ~q.scripted
        BY <1>1, <2>1, <3>2, LiveModelAssumption
           DEF LiveModelAssumption, Good, Record, Placed, Fallen, Field, Places, Operations,
               Model, Value, Keeps
      <3> QED
        BY <3>1, <3>2
    <2> QED
      BY <1>2, <2>2, Advance DEF at, p, q
  <1>4. CASE FallBack(r)
    <2>1. /\ q.at = "failed"
          /\ \/ p = [q EXCEPT !.at = "answered", !.answer = "halted"] /\ ~q.scripted
             \/ /\ q.idx = 1 /\ q.with \in Provider
                /\ p = [q EXCEPT !.at = "next", !.idx = 2, !.fellBack = {<<q.with, Deterministic>>}]
      <3>1. q.at = "failed" /\ q.op = "live" /\ q.with \in Model /\ q.idx \in {1, 2}
        BY <1>1, <1>4 DEF FallBack, at, Good, Placed, Record
      <3>2. CASE NoneLeft(r)
        <4>1. q.idx = 2 \/ q.with = Deterministic
          BY <3>1, <3>2 DEF NoneLeft, Candidates
        <4>2. ~q.scripted
          BY <1>1, <3>1, <4>1, LiveModelAssumption DEF Good, Fallen, LiveModelAssumption
        <4> QED
          BY <1>1, <1>4, <3>1, <3>2, <4>2 DEF FallBack, Answer
      <3>3. CASE ~NoneLeft(r)
        <4>1. q.idx = 1 /\ q.with \in Provider /\ Candidates(r) = <<q.with, Deterministic>>
          BY <3>1, <3>3 DEF NoneLeft, Candidates, Model
        <4>2. q.fellBack = {} /\ Following(r) = 2 /\ FallbackEvent(r) = {<<q.with, Deterministic>>}
          BY <1>1, <4>1 DEF Good, Fallen, Following, FallbackEvent, Active
        <4>3. request' = [request EXCEPT ![r].at = "next", ![r].idx = 2,
                            ![r].fellBack = @ \cup {<<q.with, Deterministic>>}]
          BY <1>4, <3>3, <4>2 DEF FallBack
        <4>4. q.fellBack \cup {<<q.with, Deterministic>>} = {<<q.with, Deterministic>>}
          BY <4>2
        <4> QED
          BY <1>1, <3>1, <4>1, <4>3, <4>4
      <3> QED
        BY <3>2, <3>3
    <2> HIDE DEF p, q
    <2>2. Good(p) /\ Keeps(q, p) /\ p.at # "store" /\ p.with = q.with /\ p.key = q.key
      <3>1. CASE p = [q EXCEPT !.at = "answered", !.answer = "halted"] /\ ~q.scripted
        BY <1>1, <2>1, <3>1, LiveModelAssumption
           DEF LiveModelAssumption, Good, Record, Placed, Fallen, Field, Places, Operations,
               Model, Value, Keeps
      <3>2. CASE /\ q.idx = 1 /\ q.with \in Provider
                 /\ p = [q EXCEPT !.at = "next", !.idx = 2,
                                  !.fellBack = {<<q.with, Deterministic>>}]
        BY <1>1, <2>1, <3>2, LiveModelAssumption
           DEF LiveModelAssumption, Good, Record, Placed, Fallen, Field, Places, Operations,
               Model, Value, Keeps
      <3> QED
        BY <2>1, <3>1, <3>2
    <2> QED
      BY <1>2, <2>2, Advance DEF at, p, q
  <1> QED
    BY <1>3, <1>4

\* The active candidate of a call is the provider that was selected.
LEMMA ActiveProvider ==
  ASSUME NEW r \in Request, Good(request[r]), at(r) = "next", Active(r) \in Provider
  PROVE  request[r].idx = 1 /\ Active(r) = request[r].with
  BY LiveModelAssumption
     DEF LiveModelAssumption, Active, Candidates, Good, Record, Placed, Fallen, at, Model

\* How a call ends, in its scope or out of it.
LEMMA OutcomeGood ==
  ASSUME Inv, NEW r \in Request, NEW ok \in BOOLEAN, at(r) \in {"calling", "leave"}, Outcome(r, ok)
  PROVE  /\ Good(request'[r]) /\ Keeps(request[r], request'[r])
         /\ request'[r].at \in {"answered", "failed"}
         /\ request'[r].with = request[r].with /\ request'[r].key = request[r].key
         /\ \A u \in Request \ {r} : request'[u] = request[u]
         /\ DOMAIN request' = Request
  <1> DEFINE q == request[r]
             p == request'[r]
  <1>1. Good(q) /\ DOMAIN request = Request /\ q.at \in {"calling", "leave"}
    BY DEF Inv, Typed, Routed, at
  <1>2. q.idx = 1 /\ q.with \in Provider /\ q.op \in {"live", "tutor"}
    BY <1>1 DEF Good, Record, Placed, Fallen
  <1>3. /\ \/ p = [q EXCEPT !.at = "answered", !.answer = "ok", !.turn = q.with]
           \/ p = [q EXCEPT !.at = "answered", !.answer = "error"]
           \/ q.op = "live" /\ p = [q EXCEPT !.at = "failed"]
        /\ \A u \in Request \ {r} : request'[u] = request[u]
        /\ DOMAIN request' = Request
    <2>1. CASE ok
      BY <1>1, <2>1 DEF Outcome
    <2>2. CASE ~ok /\ q.op = "tutor"
      BY <1>1, <2>2 DEF Outcome, Answer
    <2>3. CASE ~ok /\ q.op = "live"
      BY <1>1, <2>3 DEF Outcome, Goto
    <2> QED
      BY <1>2, <2>1, <2>2, <2>3
  <1> HIDE DEF p, q
  <1>4. /\ Good(p) /\ Keeps(q, p) /\ p.at \in {"answered", "failed"}
        /\ p.with = q.with /\ p.key = q.key
    <2>1. CASE p = [q EXCEPT !.at = "answered", !.answer = "ok", !.turn = q.with]
      BY <1>1, <1>2, <2>1, LiveModelAssumption
         DEF LiveModelAssumption, Good, Record, Placed, Fallen, Field, Places, Operations,
             Model, Value, Keeps
    <2>2. CASE p = [q EXCEPT !.at = "answered", !.answer = "error"]
      BY <1>1, <1>2, <2>2, LiveModelAssumption
         DEF LiveModelAssumption, Good, Record, Placed, Fallen, Field, Places, Operations,
             Model, Value, Keeps
    <2>3. CASE q.op = "live" /\ p = [q EXCEPT !.at = "failed"]
      BY <1>1, <1>2, <2>3, LiveModelAssumption
         DEF LiveModelAssumption, Good, Record, Placed, Fallen, Field, Places, Operations,
             Model, Value, Keeps
    <2> QED
      BY <1>3, <2>1, <2>2, <2>3
  <1> QED
    BY <1>3, <1>4 DEF p, q

LEMMA CallAdvances ==
  ASSUME Inv, NEW r \in Request, Connect(r) \/ Call(r)
  PROVE  Advances(r)
  <1> DEFINE q == request[r]
             p == request'[r]
  <1>1. Good(q) /\ DOMAIN request = Request
    BY DEF Inv, Typed, Routed
  <1>2. CASE Connect(r)
    <2>1. /\ q.at = "next" /\ q.idx = 1 /\ q.with \in Provider
          /\ p = [q EXCEPT !.at = "calling"]
          /\ \A u \in Request \ {r} : request'[u] = request[u]
          /\ DOMAIN request' = Request
      BY <1>1, <1>2, ActiveProvider DEF Connect, Goto, at
    <2> HIDE DEF p, q
    <2>2. Good(p) /\ Keeps(q, p) /\ p.at # "store" /\ p.with = q.with /\ p.key = q.key
      BY <1>1, <2>1, LiveModelAssumption
         DEF LiveModelAssumption, Good, Record, Placed, Fallen, Field, Places, Operations,
             Model, Value, Keeps
    <2> QED
      BY <1>2, <2>1, <2>2, Advance DEF at, p, q, Connect
  <1>3. CASE Call(r) /\ InScope(r)
    <2>1. PICK ok \in BOOLEAN : p = [q EXCEPT !.at = "leave", !.ok = ok]
      BY <1>1, <1>3 DEF Call
    <2>2. /\ \A u \in Request \ {r} : request'[u] = request[u]
          /\ DOMAIN request' = Request /\ q.at = "calling"
      BY <1>1, <1>3 DEF Call, at
    <2> HIDE DEF p, q
    <2>3. Good(p) /\ Keeps(q, p) /\ p.at = "leave" /\ p.with = q.with /\ p.key = q.key
      BY <1>1, <2>1, <2>2, LiveModelAssumption
         DEF LiveModelAssumption, Good, Record, Placed, Fallen, Field, Places, Operations,
             Model, Value, Keeps
    <2>4. InScope(r)' /\ at(r)' = "leave"
      BY <1>3, <2>3 DEF InScope, p, q, at
    <2> QED
      BY <1>3, <2>2, <2>3, <2>4, Advance DEF at, p, q, Call
  <1>4. CASE Call(r) /\ ~InScope(r)
    BY <1>4, OutcomeGood, Advance DEF Call, at
  <1> QED
    BY <1>2, <1>3, <1>4

LEMMA TutorAdvances ==
  ASSUME Inv, NEW r \in Request, TutorGate(r) \/ Adapter(r)
  PROVE  Advances(r)
  <1> DEFINE q == request[r]
             p == request'[r]
  <1>1. Good(q) /\ DOMAIN request = Request /\ provider \in Provider /\ ApiKey(provider) \in Value
    BY ApiKeyTyped DEF Inv, Typed, Routed
  <1>2. /\ q.at \in {"enabled", "adapter"}
        /\ \/ \E answer \in {"missing", "refused", "error"} :
                p = [q EXCEPT !.at = "answered", !.answer = answer]
           \/ q.at = "enabled" /\ p = [q EXCEPT !.at = "adapter"]
           \/ /\ q.at = "adapter"
              /\ p = [q EXCEPT !.at = "next", !.with = provider, !.key = ApiKey(provider)]
        /\ \A u \in Request \ {r} : request'[u] = request[u]
        /\ DOMAIN request' = Request
        /\ UNCHANGED <<provider, keys, tutorOn, bearer>>
    BY <1>1 DEF TutorGate, Adapter, at, Answer, Goto
  <1> HIDE DEF p, q
  <1>3. /\ Good(p) /\ Keeps(q, p) /\ p.at # "store"
        /\ \/ p.with = q.with /\ p.key = q.key
           \/ p.key = ApiKey(p.with)
    <2>1. CASE \E answer \in {"missing", "refused", "error"} :
                 p = [q EXCEPT !.at = "answered", !.answer = answer]
      BY <1>1, <1>2, <2>1, LiveModelAssumption
         DEF LiveModelAssumption, Good, Record, Placed, Fallen, Field, Places, Operations,
             Model, Value, Keeps
    <2>2. CASE q.at = "enabled" /\ p = [q EXCEPT !.at = "adapter"]
      BY <1>1, <2>2, LiveModelAssumption
         DEF LiveModelAssumption, Good, Record, Placed, Fallen, Field, Places, Operations,
             Model, Value, Keeps
    <2>3. CASE /\ q.at = "adapter"
               /\ p = [q EXCEPT !.at = "next", !.with = provider, !.key = ApiKey(provider)]
      <3>1. p.with = provider /\ p.key = ApiKey(provider)
        BY <1>1, <2>3 DEF Good, Record, Field
      <3>2. Good(p) /\ Keeps(q, p) /\ p.at # "store"
        BY <1>1, <2>3, LiveModelAssumption
           DEF LiveModelAssumption, Good, Record, Placed, Fallen, Field, Places, Operations,
               Model, Value, Keeps
      <3> QED
        BY <3>1, <3>2
    <2> QED
      BY <1>2, <2>1, <2>2, <2>3
  <1> QED
    BY <1>2, <1>3, Advance DEF at, p, q

\* The scope of the token: what it finds there was meant for Bedrock, and so
\* is what it leaves.
LEMMA ScopeKeeps ==
  ASSUME Inv, NEW r \in Request, Enter(r) \/ Leave(r)
  PROVE  Inv'
  <1> DEFINE q == request[r]
             p == request'[r]
  <1>1. /\ Good(q) /\ DOMAIN request = Request
        /\ \A u \in Request : u # r => Good(request[u])
    BY DEF Inv, Typed, Routed
  <1>2. CASE Enter(r)
    <2>1. /\ q.at = "next" /\ q.idx = 1 /\ q.with = Bedrock /\ q.key \in Key
          /\ p = [q EXCEPT !.at = "calling", !.found = bearer]
          /\ \A u \in Request \ {r} : request'[u] = request[u]
          /\ DOMAIN request' = Request /\ bearer' = q.key /\ bearer \in Value
          /\ UNCHANGED <<provider, keys, tutorOn>>
      BY <1>1, <1>2, ActiveProvider, LiveModelAssumption
         DEF LiveModelAssumption, Enter, at, InScope, Inv, Typed
    <2> HIDE DEF p, q
    <2>2. /\ Good(p) /\ p.op = q.op /\ p.ask = q.ask /\ p.found = bearer /\ p.at = "calling"
          /\ p.with = q.with /\ p.key = q.key
      BY <1>1, <2>1, LiveModelAssumption
         DEF LiveModelAssumption, Good, Record, Placed, Fallen, Field, Places, Operations,
             Model, Value, Keeps
    <2>3. Typed' /\ Routed'
      BY <1>1, <2>1, <2>2 DEF Inv, Typed, Routed, p, q, Value
    <2>4. ASSUME OneEditor, Sourced PROVE Sourced'
      <3>1. ASSUME NEW v, NEW key, Meant(v, key) PROVE Meant(v, key)'
        BY <2>1, <2>2, <3>1, MeantStays DEF p, q
      <3>2. Meant(Bedrock, q.key)
        BY <2>1, <2>4, LiveModelAssumption DEF LiveModelAssumption, Sourced, Stored, Carries, q
      <3>3. Stored'
        BY <2>1, <2>4, <3>1, <3>2 DEF Sourced, Stored
      <3>4. ASSUME NEW u \in Request
            PROVE  Carries(u)'
        <4>1. CASE u = r
          BY <2>1, <2>2, <2>4, <3>1, <4>1 DEF Sourced, Stored, Carries, p, q
        <4>2. CASE u # r
          BY <2>1, <2>4, <3>1, <4>2 DEF Sourced, Stored, Carries, at
        <4> QED
          BY <4>1, <4>2
      <3> QED
        BY <3>3, <3>4 DEF Sourced
    <2>5. Calling' # {}
      BY <2>1, <2>2 DEF Calling, InScope, at, p
    <2> QED
      BY <2>3, <2>4, <2>5 DEF Inv, OneEditor, Restorable
  <1>3. CASE Leave(r)
    <2>1. q.at = "leave" /\ bearer' = q.found /\ UNCHANGED <<provider, keys, tutorOn>>
      BY <1>3 DEF Leave, at, Restored
    <2>2. /\ Good(p) /\ Keeps(q, p) /\ p.at \in {"answered", "failed"}
          /\ p.with = q.with /\ p.key = q.key
          /\ \A u \in Request \ {r} : request'[u] = request[u]
          /\ DOMAIN request' = Request
      <3>1. q.ok \in BOOLEAN
        BY <1>1 DEF Good, Record
      <3>2. at(r) \in {"calling", "leave"} /\ Outcome(r, q.ok)
        BY <1>3 DEF Leave, at
      <3> QED
        BY <3>1, <3>2, OutcomeGood
    <2>3. Typed' /\ Routed'
      BY <1>1, <2>1, <2>2 DEF Inv, Typed, Routed, Keeps, p, q, Good, Record
    <2>4. ASSUME OneEditor, Sourced PROVE Sourced'
      <3>1. ASSUME NEW v, NEW key, Meant(v, key) PROVE Meant(v, key)'
        BY <2>2, <3>1, MeantStays DEF p, q, Keeps
      <3>2. Stored'
        BY <2>1, <2>4, <3>1 DEF Sourced, Stored, Carries, q
      <3>3. ASSUME NEW u \in Request
            PROVE  Carries(u)'
        <4>1. CASE u = r
          BY <2>1, <2>2, <2>4, <3>1, <4>1 DEF Sourced, Stored, Carries, p, q, Keeps
        <4>2. CASE u # r
          BY <2>1, <2>2, <2>4, <3>1, <4>2 DEF Sourced, Stored, Carries, at
        <4> QED
          BY <4>1, <4>2
      <3> QED
        BY <3>2, <3>3 DEF Sourced
    <2>5. (\A u \in Request : request'[u].found = EnvKey[Bedrock]) => bearer' = EnvKey[Bedrock]
      BY <2>1, <2>2 DEF p, q, Keeps
    <2> QED
      BY <2>3, <2>4, <2>5 DEF Inv, OneEditor, Restorable
  <1> QED
    BY <1>2, <1>3

\* RuntimeSettings.update: with one editor the provider is still the one it
\* set when the key is filed.
LEMMA UpdateKeeps ==
  ASSUME Inv, NEW r \in Request, SetProvider(r) \/ StoreKey(r)
  PROVE  Inv'
  <1> DEFINE q == request[r]
             p == request'[r]
  <1>1. /\ Good(q) /\ DOMAIN request = Request /\ provider \in Provider
        /\ \A u \in Request : Good(request[u])
        /\ q.op = "update" /\ "update" \in Asks[r]
    BY DEF Inv, Typed, Routed, SetProvider, StoreKey, at, Good, Placed
  <1>2. /\ q.at \in {"provider", "store"}
        /\ \/ q.at = "provider" /\ p = [q EXCEPT !.at = "store"]
           \/ \E answer \in {"refused", "ok"} : p = [q EXCEPT !.at = "answered", !.answer = answer]
        /\ \A u \in Request \ {r} : request'[u] = request[u]
        /\ DOMAIN request' = Request /\ bearer' = bearer
    BY <1>1 DEF SetProvider, StoreKey, at, Goto, Answer
  <1>3. /\ provider' \in Provider /\ tutorOn' \in BOOLEAN
        /\ \/ keys' = keys
           \/ keys' = [keys EXCEPT ![provider] = q.ask.key] /\ q.ask.key \in Key
        /\ q.at = "store" => provider' = provider
        /\ q.at = "provider" => keys' = keys
    <2>1. /\ q.ask.key \in Key \cup {Unset} /\ q.ask.tutor \in BOOLEAN
          /\ tutorOn \in BOOLEAN
      BY <1>1 DEF Inv, Typed, Updates, Good, Record
    <2>2. CASE SetProvider(r)
      BY <1>1, <2>1, <2>2 DEF SetProvider, at
    <2>3. CASE StoreKey(r)
      BY <1>1, <2>1, <2>3 DEF StoreKey, at
    <2> QED
      BY <2>2, <2>3
  <1>4. q.at = "provider" /\ p.at = "store" /\ q.ask.provider # Unset => provider' = q.ask.provider
    <2> SUFFICES ASSUME q.at = "provider", p.at = "store"
                 PROVE  q.ask.provider # Unset => provider' = q.ask.provider
      OBVIOUS
    <2>1. SetProvider(r)
      BY DEF StoreKey, at
    <2>2. ~Answer(r, "refused")
      <3>1. "at" \in DOMAIN q
        BY <1>1 DEF Good, Record, Field
      <3> QED
        BY <1>1, <3>1 DEF Answer
    <2> QED
      BY <2>1, <2>2 DEF SetProvider
  <1> HIDE DEF p, q
  <1>5. Good(p) /\ Keeps(q, p) /\ p.with = q.with /\ p.key = q.key
    <2>1. CASE q.at = "provider" /\ p = [q EXCEPT !.at = "store"]
      BY <1>1, <2>1, LiveModelAssumption
         DEF LiveModelAssumption, Good, Record, Placed, Fallen, Field, Places, Operations,
             Model, Value, Keeps
    <2>2. CASE \E answer \in {"refused", "ok"} :
                 p = [q EXCEPT !.at = "answered", !.answer = answer]
      BY <1>1, <1>2, <2>2, LiveModelAssumption
         DEF LiveModelAssumption, Good, Record, Placed, Fallen, Field, Places, Operations,
             Model, Value, Keeps
    <2> QED
      BY <1>2, <2>1, <2>2
  <1>6. p.at = "store" => q.at = "provider"
    BY <1>1, <1>2 DEF Good, Record, Field
  <1>7. Typed' /\ Routed'
    BY <1>1, <1>2, <1>3, <1>5 DEF Inv, Typed, Routed, p, q, Keeps
  <1>8. ASSUME OneEditor, Sourced PROVE Sourced'
    <2>1. ASSUME NEW v, NEW key, Meant(v, key) PROVE Meant(v, key)'
      BY <1>2, <1>5, <2>1, MeantStays DEF p, q, Keeps
    <2>2. ASSUME NEW v \in Provider, keys'[v] \in Key
          PROVE  Meant(v, keys[v])'
      <3>1. CASE keys'[v] = keys[v]
        BY <1>8, <2>1, <2>2, <3>1 DEF Sourced, Stored, Carries
      <3>2. CASE keys'[v] # keys[v]
        <4>1. v = provider /\ keys'[v] = q.ask.key /\ q.at = "store"
          BY <1>2, <1>3, <2>2, <3>2 DEF Inv, Typed
        <4>2. q.ask.provider \in {provider, Unset}
          BY <1>8, <4>1 DEF Sourced, Stored, Carries, at, q
        <4> QED
          BY <1>1, <2>1, <4>1, <4>2 DEF Meant, q
      <3> QED
        BY <3>1, <3>2
    <2>3. bearer' \in Key => Meant(Bedrock, bearer)'
      BY <1>2, <1>8, <2>1 DEF Sourced, Stored, Carries
    <2>4. ASSUME NEW u \in Request
          PROVE  Carries(u)'
      <3>1. CASE u = r
        BY <1>4, <1>5, <1>6, <1>8, <2>1, <3>1 DEF Sourced, Stored, Carries, p, q, Keeps
      <3>2. CASE u # r
        <4>1. request'[u] = request[u] /\ request[u].at # "store"
          BY <1>1, <1>2, <1>8, <3>2 DEF Inv, Routed, OneEditor, Good, Placed
        <4> QED
          BY <1>8, <2>1, <4>1 DEF Sourced, Stored, Carries
      <3> QED
        BY <3>1, <3>2
    <2> QED
      BY <2>2, <2>3, <2>4 DEF Sourced, Stored
  <1>9. Restorable'
    <2> SUFFICES ASSUME \A u \in Request : request'[u].found = EnvKey[Bedrock],
                        bearer # EnvKey[Bedrock]
                 PROVE  Calling' # {}
      BY <1>2 DEF Restorable
    <2>1. PICK c \in Request : at(c) \in {"calling", "leave"} /\ InScope(c)
      BY <1>2, <1>5 DEF Inv, Restorable, Calling, p, q, Keeps
    <2>2. c # r
      BY <1>2, <2>1 DEF at, q
    <2> QED
      BY <1>2, <2>1, <2>2 DEF Calling, at, InScope
  <1> QED
    BY <1>7, <1>8, <1>9 DEF Inv, OneEditor

LEMMA BeginKeeps ==
  ASSUME Inv, NEW r \in Request, Begin(r)
  PROVE  Inv'
  <1> DEFINE q == request[r]
             p == request'[r]
  <1>1. /\ Good(q) /\ DOMAIN request = Request
        /\ \A u \in Request : Good(request[u])
    BY DEF Inv, Typed, Routed
  <1>2. /\ q.at = "idle"
        /\ \/ "update" \in Asks[r] /\ \E ask \in Updates :
                p = [q EXCEPT !.op = "update", !.at = "provider", !.ask = ask]
           \/ "live" \in Asks[r] /\ \E m \in Model \cup {Unset}, scripted \in BOOLEAN :
                p = [q EXCEPT !.op = "live", !.at = "gate", !.with = m, !.scripted = scripted]
           \/ "tutor" \in Asks[r] /\ p = [q EXCEPT !.op = "tutor", !.at = "enabled"]
        /\ \A u \in Request \ {r} : request'[u] = request[u]
        /\ DOMAIN request' = Request
        /\ UNCHANGED <<provider, keys, tutorOn, bearer>>
    <2>1. CASE "update" \in Asks[r] /\ \E ask \in Updates :
                 request' = [request EXCEPT ![r].op = "update", ![r].at = "provider",
                                            ![r].ask = ask]
      BY <1>1, <2>1 DEF Begin, at
    <2>2. CASE "live" \in Asks[r] /\ \E m \in Model \cup {Unset}, scripted \in BOOLEAN :
                 request' = [request EXCEPT ![r].op = "live", ![r].at = "gate", ![r].with = m,
                                            ![r].scripted = scripted]
      <3>1. PICK m \in Model \cup {Unset}, scripted \in BOOLEAN :
              request' = [request EXCEPT ![r].op = "live", ![r].at = "gate", ![r].with = m,
                                         ![r].scripted = scripted]
        BY <2>2
      <3>2. p = [q EXCEPT !.op = "live", !.at = "gate", !.with = m, !.scripted = scripted]
        BY <1>1, <3>1
      <3>3. (\A u \in Request \ {r} : request'[u] = request[u]) /\ DOMAIN request' = Request
        BY <1>1, <3>1
      <3> HIDE DEF p, q
      <3> QED
        BY <2>2, <3>2, <3>3 DEF Begin, at, q
    <2>3. CASE /\ "tutor" \in Asks[r]
               /\ request' = [request EXCEPT ![r].op = "tutor", ![r].at = "enabled"]
      BY <1>1, <2>3 DEF Begin, at
    <2> QED
      BY <2>1, <2>2, <2>3 DEF Begin, Model
  <1> HIDE DEF p, q
  <1> DEFINE Begun == /\ Good(p) /\ p.op \in Asks[r] /\ p.at \notin {"store", "calling", "leave"}
                      /\ q.op = "none" /\ p.key = Unset /\ p.found = q.found
  <1>3. Begun
    <2>1. ASSUME NEW ask \in Updates, "update" \in Asks[r],
                 p = [q EXCEPT !.op = "update", !.at = "provider", !.ask = ask]
          PROVE  Begun
      BY <1>1, <1>2, <2>1, LiveModelAssumption
         DEF LiveModelAssumption, Good, Record, Placed, Fallen, Field, Places, Operations,
             Model, Value
    <2>2. ASSUME NEW m \in Model \cup {Unset}, NEW scripted \in BOOLEAN, "live" \in Asks[r],
                 p = [q EXCEPT !.op = "live", !.at = "gate", !.with = m, !.scripted = scripted]
          PROVE  Begun
      BY <1>1, <1>2, <2>2, LiveModelAssumption
         DEF LiveModelAssumption, Good, Record, Placed, Fallen, Field, Places, Operations,
             Model, Value
    <2>3. ASSUME "tutor" \in Asks[r], p = [q EXCEPT !.op = "tutor", !.at = "enabled"]
          PROVE  Begun
      BY <1>1, <1>2, <2>3, LiveModelAssumption
         DEF LiveModelAssumption, Good, Record, Placed, Fallen, Field, Places, Operations,
             Model, Value
    <2> QED
      BY <1>2, <2>1, <2>2, <2>3
  <1>4. Typed' /\ Routed'
    BY <1>1, <1>2, <1>3 DEF Inv, Typed, Routed, p
  <1>5. ASSUME OneEditor, Sourced PROVE Sourced'
    <2>1. ASSUME NEW v, NEW key, Meant(v, key) PROVE Meant(v, key)'
      BY <1>2, <1>3, <2>1, MeantStays DEF p, q
    <2>2. Stored'
      BY <1>2, <1>5, <2>1 DEF Sourced, Stored, Carries
    <2>3. ASSUME NEW u \in Request
          PROVE  Carries(u)'
      <3>1. CASE u = r
        BY <1>3, <1>5, <2>1, <3>1, LiveModelAssumption
           DEF Sourced, Stored, Carries, p, q, LiveModelAssumption
      <3>2. CASE u # r
        BY <1>2, <1>5, <2>1, <3>2 DEF Sourced, Stored, Carries, at
      <3> QED
        BY <3>1, <3>2
    <2> QED
      BY <2>2, <2>3 DEF Sourced
  <1>6. Restorable'
    <2> SUFFICES ASSUME \A u \in Request : request'[u].found = EnvKey[Bedrock],
                        bearer # EnvKey[Bedrock]
                 PROVE  Calling' # {}
      BY <1>2 DEF Restorable
    <2>1. PICK c \in Request : at(c) \in {"calling", "leave"} /\ InScope(c)
      BY <1>2, <1>3 DEF Inv, Restorable, Calling, p, q
    <2>2. c # r
      BY <1>2, <2>1 DEF at, q
    <2> QED
      BY <1>2, <2>1, <2>2 DEF Calling, at, InScope
  <1> QED
    BY <1>4, <1>5, <1>6 DEF Inv, OneEditor

-----------------------------------------------------------------------------
(* The inductive invariant, and the five properties it gives.               *)

LEMMA InvInit == Init => Inv
  <1> SUFFICES ASSUME Init
               PROVE  Inv
    OBVIOUS
  <1>1. /\ \A r \in Request : request[r] = Idle
        /\ bearer = EnvKey[Bedrock] /\ \A p \in Provider : keys[p] = Unset
    BY DEF Init
  <1>2. Sourced
    BY <1>1, LiveModelAssumption DEF LiveModelAssumption, Sourced, Stored, Carries,
                                             Meant, Idle
  <1>3. Restorable
    BY <1>1 DEF Restorable
  <1> QED
    BY <1>2, <1>3, TypedInit, RoutedInit DEF Inv

LEMMA InvNext == Inv /\ [Next]_vars => Inv'
  <1> SUFFICES ASSUME Inv, [Next]_vars
               PROVE  Inv'
    OBVIOUS
  <1>1. CASE UNCHANGED vars
    BY <1>1 DEF vars, Inv, Typed, Routed, OneEditor, Sourced, Stored, Carries, Restorable, Meant,
                Calling, InScope, at
  <1>2. ASSUME NEW r \in Request, Begin(r) PROVE Inv'
    BY <1>2, BeginKeeps
  <1>3. ASSUME NEW r \in Request, Serve(r) PROVE Inv'
    <2>1. CASE SetProvider(r) \/ StoreKey(r)
      BY <2>1, UpdateKeeps
    <2>2. CASE Gate(r) \/ Build(r)
      BY <2>2, GateAdvances, AdvancesKeeps
    <2>3. CASE Replay(r) \/ FallBack(r)
      BY <2>3, OracleAdvances, AdvancesKeeps
    <2>4. CASE Enter(r) \/ Leave(r)
      BY <2>4, ScopeKeeps
    <2>5. CASE Connect(r) \/ Call(r)
      BY <2>5, CallAdvances, AdvancesKeeps
    <2>6. CASE TutorGate(r) \/ Adapter(r)
      BY <2>6, TutorAdvances, AdvancesKeeps
    <2> QED
      BY <1>3, <2>1, <2>2, <2>3, <2>4, <2>5, <2>6 DEF Serve
  <1> QED
    BY <1>1, <1>2, <1>3 DEF Next, Quiet

LEMMA Invariance == Spec => []Inv
  BY InvInit, InvNext, PTL DEF Spec

\* Every variable has its type, and ModelRouter's index stays within the
\* candidates of its request (router_model.py).
THEOREM TypeCorrect == Spec => []TypeOK
  <1>1. Inv => TypeOK
    <2> SUFFICES ASSUME Inv, NEW r \in Request
                 PROVE  /\ at(r) \in Places
                        /\ request[r].op \in Operations \cup {"none"}
                        /\ request[r].key \in Key \cup {Unset, Empty}
                        /\ request[r].idx \in 1 .. Len(Candidates(r))
      BY DEF Inv, Typed, TypeOK, Value
    <2>1. Good(request[r])
      BY DEF Inv, Routed
    <2>2. request[r].idx = 1 \/ (request[r].idx = 2 /\ Len(Candidates(r)) = 2)
      BY <2>1, LiveModelAssumption
         DEF LiveModelAssumption, Good, Record, Fallen, Candidates
    <2>3. Len(Candidates(r)) \in {1, 2}
      BY DEF Candidates
    <2>4. request[r].idx \in 1 .. Len(Candidates(r))
      <3>1. CASE Len(Candidates(r)) = 1
        BY <2>2, <3>1
      <3>2. CASE Len(Candidates(r)) = 2
        BY <2>2, <3>2
      <3> QED
        BY <2>3, <3>1, <3>2
    <2>5. /\ at(r) \in Places /\ request[r].op \in Operations \cup {"none"}
          /\ request[r].key \in Key \cup {Unset, Empty}
      BY <2>1 DEF Good, Record, at, Value
    <2> QED
      BY <2>4, <2>5
  <1> QED
    BY <1>1, Invariance, PTL

\* A turn of the oracle in a run that asked for a live model is announced by
\* exactly one model.fallback event, and a turn of the live model by none
\* (ModelRouter.next).
THEOREM FallbackIsTraced == Spec => []FallbackTraced
  <1>1. Inv => FallbackTraced
    <2> SUFFICES ASSUME Inv, NEW r \in Request, request[r].turn # Unset
                 PROVE  request[r].fellBack = IF request[r].turn = request[r].with THEN {}
                                              ELSE {<<request[r].with, Deterministic>>}
      BY DEF FallbackTraced
    <2>1. Fallen(request[r]) /\ request[r].idx \in {1, 2}
      BY DEF Inv, Routed, Good, Record
    <2>2. CASE request[r].idx = 1
      BY <2>1, <2>2 DEF Fallen
    <2>3. CASE request[r].idx = 2
      <3>1. request[r].turn = Deterministic /\ request[r].with \in Provider
        BY <2>1, <2>3 DEF Fallen
      <3>2. request[r].turn # request[r].with
        BY <3>1, LiveModelAssumption DEF LiveModelAssumption
      <3> QED
        BY <2>1, <2>3, <3>2 DEF Fallen
    <2> QED
      BY <2>1, <2>2, <2>3
  <1> QED
    BY <1>1, Invariance, PTL

\* A task that has a script is never halted, however the providers fail: the
\* router always has the oracle left (_run_live, build_model_session).
THEOREM RunsDegrade == Spec => []DegradesToOracle
  <1>1. Inv => DegradesToOracle
    BY DEF Inv, Routed, Good, Fallen, DegradesToOracle
  <1> QED
    BY <1>1, Invariance, PTL

\* With no call under way the variable of the environment is what it was at
\* the start, if the calls did not overlap, whichever way each ended
\* (_bearer_env).
THEOREM EnvIsRestored == Spec => []EnvRestoredInTurn
  <1>1. Inv => EnvRestoredInTurn
    BY DEF Inv, Restorable, EnvRestoredInTurn
  <1> QED
    BY <1>1, Invariance, PTL

\* If only one request may update the settings, a provider is called with a
\* key entered for it, or for whichever was current, or with its own variable
\* (RuntimeSettings.update, api_key, the scope of the token). Two updates at
\* once can file a key under the other's provider.
THEOREM KeysReachTheirProvider == ASSUME OneEditor PROVE Spec => []KeyReachesItsProvider
  <1>1. Inv => KeyReachesItsProvider
    <2> SUFFICES ASSUME Inv, NEW r \in Request, at(r) \in {"calling", "leave"},
                        request[r].key \in Key
                 PROVE  Meant(request[r].with, request[r].key)
      BY DEF KeyReachesItsProvider, Meant
    <2>1. request[r].with \in Provider
      BY DEF Inv, Routed, Good, Placed, at
    <2> QED
      BY <2>1, OneEditor DEF Inv, Sourced, Stored, Carries
  <1> QED
    BY <1>1, Invariance, PTL
===============================================================================
