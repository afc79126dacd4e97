----------------------------- MODULE ServicesProofs -----------------------------
(***************************************************************************)
(* Proofs about Services, for any clients, services and operations: its    *)
(* types, its three invariants and, from RInv on, that it implements World *)
(* as long as nothing is late and no two handlers meet.                    *)
(***************************************************************************)
EXTENDS Services, TLAPS

Places == {"unasked", "arrived", "checked", "taken", "acted", "answered", "failed",
           "claimed", "raised", "spawned", "reached", "fetched", "rejected", "refused"}

Handlers == [op : Operation \cup {NoOp}, found : BOOLEAN, held : STRING, own : BOOLEAN,
             did : {"not yet", "nothing", "done"}, at : Places]

\* What the variables that the two properties are about can be.
Typed ==
  /\ recorder \subseteq Call
  /\ calls \in [Client -> Nat] /\ waiting \in [Client -> BOOLEAN]
  /\ store \in [Key -> STRING]
  /\ handler \in [Call -> Handlers]
  /\ \A c \in Client : waiting[c] => calls[c] \in 1..MaxCalls[c]

-----------------------------------------------------------------------------
LEMMA CallOf ==
  ASSUME NEW c \in Client, NEW n \in 1..MaxCalls[c]
  PROVE  <<c, n>> \in Call
  BY DEF Call

LEMMA CallShape ==
  ASSUME NEW k \in Call
  PROVE  \E c \in Client : \E n \in 1..MaxCalls[c] : k = <<c, n>>
  BY DEF Call

LEMMA NextCall ==
  ASSUME Typed, NEW c \in Client, calls[c] < MaxCalls[c]
  PROVE  calls[c] + 1 \in 1..MaxCalls[c] /\ <<c, calls[c] + 1>> \in Call
  <1>1. PICK n \in Nat : n = calls[c]
    BY DEF Typed
  <1>2. PICK m \in Nat : m = MaxCalls[c]
    BY ServicesAssumption DEF ServicesAssumption
  <1>3. n + 1 \in 1..m
    BY <1>1, <1>2
  <1> QED
    BY <1>1, <1>2, <1>3, CallOf

LEMMA CurrentCall ==
  ASSUME Typed, NEW c \in Client, waiting[c]
  PROVE  Current(c) \in Call
  BY CallOf DEF Typed, Current

\* Moving one call on keeps what it is of.
LEMMA StepTyped ==
  ASSUME Typed, NEW k \in Call, NEW at \in Places,
         handler' = [handler EXCEPT ![k].at = at]
  PROVE  /\ handler' \in [Call -> Handlers]
         /\ handler'[k].at = at /\ handler'[k].op = handler[k].op
         /\ handler'[k].own = handler[k].own
         /\ \A j \in Call \ {k} : handler'[j] = handler[j]
  BY DEF Typed, Handlers

LEMMA UnaskedTyped == Unasked \in Handlers
  BY ServicesAssumption DEF ServicesAssumption, Unasked, Handlers, Places, NoOp

-----------------------------------------------------------------------------
(* What a step does to one call.                                            *)

\* A call moves on, as itself, and the others stay where they are.
Moves(k, froms, tos) ==
  /\ handler' \in [Call -> Handlers]
  /\ handler[k].at \in froms /\ handler'[k].at \in tos
  /\ handler'[k].op = handler[k].op /\ handler'[k].own = handler[k].own
  /\ \A j \in Call \ {k} : handler'[j] = handler[j]

InService == {"arrived", "checked", "taken", "acted"}
Onward == {"checked", "taken", "acted", "answered", "failed"}

\* The parts of Serve, as far as the properties see them: the record comes
\* before the answer.
ServedShape(k) ==
  /\ Moves(k, InService, Onward)
  /\ store' \in [Key -> STRING]
  /\ recorder \subseteq recorder' /\ recorder' \subseteq recorder \cup {k}
  /\ handler'[k].at = "answered" /\ Act(handler[k].op) \in Effects => k \in recorder'
  /\ UNCHANGED <<client, boundary>>

\* A call whose record is replaced by one of the same operation.
LEMMA MovesTo ==
  ASSUME Typed, NEW k \in Call, NEW h \in Handlers, NEW froms, NEW tos,
         handler' = [handler EXCEPT ![k] = h],
         handler[k].at \in froms, h.at \in tos,
         h.op = handler[k].op, h.own = handler[k].own
  PROVE  Moves(k, froms, tos) /\ handler'[k] = h
  BY DEF Typed, Moves

LEMMA CheckShape ==
  ASSUME Typed, NEW k \in Call, Check(k)
  PROVE  ServedShape(k)
  <1> DEFINE op == handler[k].op
             found == Act(op) \in {"send", "list", "walk"} \/ store[op.key] # Absent
             at == CASE Act(op) = "list" \/ (Act(op) = "read" /\ ~found) -> "answered"
                     [] Act(op) \in {"comment", "send"} \/ (Act(op) = "rename" /\ ~found) -> "acted"
                     [] OTHER -> "checked"
             did == CASE Act(op) \in {"comment", "send"} /\ found -> "done"
                      [] Act(op) \in {"comment", "rename"} /\ ~found -> "nothing"
                      [] OTHER -> handler[k].did
  <1>1. handler' = [handler EXCEPT ![k].found = found, ![k].at = at, ![k].did = did]
    BY DEF Check
  <1>2. /\ found \in BOOLEAN /\ at \in {"answered", "acted", "checked"}
        /\ did \in {"not yet", "nothing", "done"}
        /\ at = "answered" => Act(op) \in {"list", "read"}
    BY DEF Typed, Handlers
  <1>3. handler[k].at = "arrived" /\ UNCHANGED <<store, recorder, client, boundary>>
    BY DEF Check
  <1> HIDE DEF found, at, did
  <1>4. Moves(k, InService, Onward) /\ handler'[k].at = at
    <2> DEFINE h == [handler[k] EXCEPT !.found = found, !.at = at, !.did = did]
    <2>1. handler[k] \in Handlers
      BY DEF Typed
    <2>2. /\ h \in Handlers /\ h.at = at
          /\ h.op = handler[k].op /\ h.own = handler[k].own
      BY <1>2, <2>1 DEF Handlers, Places
    <2>3. handler' = [handler EXCEPT ![k] = h]
      BY <1>1
    <2>4. handler[k].at \in InService /\ at \in Onward
      BY <1>2, <1>3 DEF InService, Onward
    <2> HIDE DEF h
    <2> QED
      BY <2>2, <2>3, <2>4, MovesTo
  <1> QED
    BY <1>2, <1>3, <1>4 DEF ServedShape, Effects, Typed

LEMMA FetchShape ==
  ASSUME Typed, NEW k \in Call, Fetch(k)
  PROVE  ServedShape(k)
  <1>1. PICK at \in {"failed", "answered"} : Step(k, at)
    BY DEF Fetch
  <1>2. /\ handler[k].at = "checked" /\ Act(handler[k].op) \in {"read", "walk"}
        /\ UNCHANGED <<service, client, boundary>>
    BY DEF Fetch
  <1>3. Moves(k, InService, Onward)
    BY <1>1, <1>2, StepTyped DEF Step, Moves, InService, Onward, Places
  <1> QED
    BY <1>2, <1>3 DEF ServedShape, Effects, service, Typed

LEMMA PopShape ==
  ASSUME Typed, NEW k \in Call, Pop(k)
  PROVE  ServedShape(k)
  <1>1. PICK did \in {"nothing", "done"} :
          handler' = [handler EXCEPT ![k].at = "acted", ![k].did = did]
    BY DEF Pop
  <1>2. /\ handler[k].at = "checked" /\ UNCHANGED <<recorder, client, boundary>>
        /\ store' = [store EXCEPT ![handler[k].op.key] = Absent]
    BY DEF Pop
  <1>3. Moves(k, InService, Onward) /\ handler'[k].at = "acted"
    <2> DEFINE h == [handler[k] EXCEPT !.at = "acted", !.did = did]
    <2>1. handler[k] \in Handlers
      BY DEF Typed
    <2>2. /\ h \in Handlers /\ h.at = "acted"
          /\ h.op = handler[k].op /\ h.own = handler[k].own
      BY <2>1 DEF Handlers, Places
    <2>3. handler' = [handler EXCEPT ![k] = h]
      BY <1>1
    <2>4. handler[k].at \in InService /\ h.at \in Onward
      BY <1>2, <2>2 DEF InService, Onward
    <2> HIDE DEF h
    <2> QED
      BY <2>2, <2>3, <2>4, MovesTo
  <1>4. store' \in [Key -> STRING]
    BY <1>2, ServicesAssumption DEF ServicesAssumption, Typed
  <1> QED
    BY <1>2, <1>3, <1>4 DEF ServedShape

LEMMA TakeShape ==
  ASSUME Typed, NEW k \in Call, Take(k)
  PROVE  ServedShape(k)
  <1>1. handler[k].at = "checked" /\ UNCHANGED <<recorder, client, boundary>>
    BY DEF Take
  <1>2. CASE store[handler[k].op.key] = Absent
    <2>1. Step(k, "failed") /\ UNCHANGED store
      BY <1>2 DEF Take
    <2>2. Moves(k, InService, Onward) /\ handler'[k].at = "failed"
      BY <1>1, <2>1, StepTyped DEF Step, Moves, InService, Onward, Places
    <2> QED
      BY <1>1, <2>1, <2>2 DEF ServedShape, Typed
  <1>3. CASE store[handler[k].op.key] # Absent
    <2>1. /\ handler' = [handler EXCEPT ![k].at = "taken", ![k].held = store[handler[k].op.key],
                                        ![k].did = "done"]
          /\ store' = [store EXCEPT ![handler[k].op.key] = Absent]
      BY <1>3 DEF Take
    <2>2. handler[k].op \in Operation \cup {NoOp} /\ Act(handler[k].op) = "rename"
      BY DEF Take, Typed, Handlers
    <2>3. Act(NoOp) = "none"
      BY DEF Act, Routed, NoOp, Routes
    <2>4. store[handler[k].op.key] \in STRING
      BY <2>2, <2>3, OperationAssumption DEF OperationAssumption, Typed
    <2>5. Moves(k, InService, Onward) /\ handler'[k].at = "taken"
      <3> DEFINE h == [handler[k] EXCEPT !.at = "taken", !.held = store[handler[k].op.key],
                                         !.did = "done"]
      <3>1. handler[k] \in Handlers
        BY DEF Typed
      <3>2. /\ h \in Handlers /\ h.at = "taken"
            /\ h.op = handler[k].op /\ h.own = handler[k].own
        BY <2>4, <3>1 DEF Handlers, Places
      <3>3. handler' = [handler EXCEPT ![k] = h]
        BY <2>1
      <3>4. handler[k].at \in InService /\ "taken" \in Onward
        BY <1>1 DEF InService, Onward
      <3> HIDE DEF h
      <3> QED
        BY <3>2, <3>3, <3>4, MovesTo
    <2>6. store' \in [Key -> STRING]
      BY <2>1, ServicesAssumption DEF ServicesAssumption, Typed
    <2> QED
      BY <1>1, <2>5, <2>6 DEF ServedShape
  <1> QED
    BY <1>2, <1>3

LEMMA PlaceShape ==
  ASSUME Typed, NEW k \in Call, Place(k)
  PROVE  ServedShape(k)
  <1>1. /\ handler[k].at = "taken" /\ UNCHANGED <<recorder, client, boundary>>
        /\ store' = [store EXCEPT ![handler[k].op.dest] = handler[k].held]
        /\ handler' = [handler EXCEPT ![k].at = "acted", ![k].held = Absent]
    BY DEF Place
  <1>2. Moves(k, InService, Onward) /\ handler'[k].at = "acted"
    <2> DEFINE h == [handler[k] EXCEPT !.at = "acted", !.held = Absent]
    <2>1. handler[k] \in Handlers
      BY DEF Typed
    <2>2. /\ h \in Handlers /\ h.at = "acted"
          /\ h.op = handler[k].op /\ h.own = handler[k].own
      BY <2>1, ServicesAssumption DEF ServicesAssumption, Handlers, Places
    <2>3. handler' = [handler EXCEPT ![k] = h]
      BY <1>1
    <2>4. handler[k].at \in InService /\ "acted" \in Onward
      BY <1>1 DEF InService, Onward
    <2> HIDE DEF h
    <2> QED
      BY <2>2, <2>3, <2>4, MovesTo
  <1>3. store' \in [Key -> STRING]
    BY <1>1 DEF Typed, Handlers
  <1> QED
    BY <1>1, <1>2, <1>3 DEF ServedShape

LEMMA RecordShape ==
  ASSUME Typed, NEW k \in Call, Record(k)
  PROVE  ServedShape(k)
  <1>1. /\ handler[k].at = "acted" /\ UNCHANGED <<store, client, boundary>>
        /\ recorder' = recorder \cup {k} /\ Step(k, "answered")
    BY DEF Record
  <1>2. Moves(k, InService, Onward)
    BY <1>1, StepTyped DEF Step, Moves, InService, Onward, Places
  <1> QED
    BY <1>1, <1>2 DEF ServedShape, Typed

LEMMA ServeShape ==
  ASSUME Typed, NEW k \in Call, Serve(k)
  PROVE  ServedShape(k)
  BY CheckShape, FetchShape, PopShape, TakeShape, PlaceShape, RecordShape DEF Serve

\* A new call, of which nothing is known yet.
AskedShape(c, k) ==
  /\ calls' = [calls EXCEPT ![c] = @ + 1]
  /\ waiting' \in {waiting, [waiting EXCEPT ![c] = TRUE]}
  /\ handler' \in [Call -> Handlers]
  /\ handler'[k].at \in {"refused", "spawned", "arrived"}
  /\ handler'[k].at = "spawned" => handler'[k].op.key \in Allowed
  /\ \A j \in Call \ {k} : handler'[j] = handler[j]
  /\ blocked' = blocked \/ (blocked' = blocked \cup {k} /\ handler'[k].at = "refused")
  /\ UNCHANGED <<store, recorder, reached, egress>>

LEMMA EnterTyped ==
  ASSUME NEW op \in Operation, NEW at \in Places, NEW own \in BOOLEAN
  PROVE  LET h == [Unasked EXCEPT !.op = op, !.at = at]
         IN /\ h \in Handlers /\ h.at = at /\ h.op = op
  BY UnaskedTyped DEF Handlers

LEMMA OwnTyped ==
  ASSUME NEW h \in Handlers, NEW own \in BOOLEAN
  PROVE  [h EXCEPT !.own = own] \in Handlers /\ [h EXCEPT !.own = own].at = h.at
  BY DEF Handlers

LEMMA AskShape ==
  ASSUME Typed, NEW c \in Client, NEW op \in Operation, Ask(c, op)
  PROVE  AskedShape(c, <<c, calls[c] + 1>>)
  <1> DEFINE k == <<c, calls[c] + 1>>
             Enter(at) == [Unasked EXCEPT !.op = op, !.at = at]
  <1>1. /\ k \in Call
        /\ calls' = [calls EXCEPT ![c] = @ + 1]
        /\ UNCHANGED service
    BY NextCall DEF Ask
  <1>2. \A at \in Places : Enter(at) \in Handlers /\ Enter(at).at = at /\ Enter(at).op = op
    BY EnterTyped
  <1>3. CASE Act(op) = "none"
    <2>1. handler' = [handler EXCEPT ![k] = Enter("refused")] /\ UNCHANGED <<waiting, boundary>>
      BY <1>3 DEF Ask
    <2>2. Enter("refused") \in Handlers /\ Enter("refused").at = "refused"
      BY <1>2 DEF Places
    <2> HIDE DEF Enter, k
    <2> QED
      BY <1>1, <2>1, <2>2 DEF AskedShape, boundary, service, Typed, k
  <1>4. CASE Act(op) = "fetch" /\ op.key \notin Allowed
    <2>1. /\ handler' = [handler EXCEPT ![k] = Enter("refused")] /\ blocked' = blocked \cup {k}
          /\ UNCHANGED <<waiting, reached, egress>>
      BY <1>4 DEF Ask
    <2>2. Enter("refused") \in Handlers /\ Enter("refused").at = "refused"
      BY <1>2 DEF Places
    <2> HIDE DEF Enter, k
    <2> QED
      BY <1>1, <2>1, <2>2 DEF AskedShape, service, Typed, k
  <1>5. CASE Act(op) = "fetch" /\ op.key \in Allowed
    <2>1. /\ handler' = [handler EXCEPT ![k] = Enter("spawned")]
          /\ waiting' = [waiting EXCEPT ![c] = TRUE] /\ UNCHANGED boundary
      BY <1>5 DEF Ask
    <2>2. /\ Enter("spawned") \in Handlers /\ Enter("spawned").at = "spawned"
          /\ Enter("spawned").op.key \in Allowed
      BY <1>2, <1>5 DEF Places
    <2> HIDE DEF Enter, k
    <2> QED
      BY <1>1, <2>1, <2>2 DEF AskedShape, boundary, service, Typed, k
  <1>6. CASE Act(op) # "none" /\ Act(op) # "fetch"
    <2> DEFINE own == ~Resetting(op.service)
               h == [Enter("arrived") EXCEPT !.own = own]
    <2>1. /\ handler' = [handler EXCEPT ![k] = h]
          /\ waiting' = [waiting EXCEPT ![c] = TRUE] /\ UNCHANGED boundary
      BY <1>6 DEF Ask
    <2>2. h \in Handlers /\ h.at = "arrived"
      <3>1. own \in BOOLEAN /\ "arrived" \in Places
        BY DEF Resetting, Places
      <3>2. Enter("arrived") \in Handlers /\ Enter("arrived").at = "arrived"
        BY <1>2, <3>1
      <3> HIDE DEF own, Enter
      <3> QED
        BY <3>1, <3>2, OwnTyped
    <2> HIDE DEF h, Enter, k
    <2> QED
      BY <1>1, <2>1, <2>2 DEF AskedShape, boundary, service, Typed, k
  <1> QED
    BY <1>3, <1>4, <1>5, <1>6

\* What the client does about the call it waits for.
LEMMA ReceiveShape ==
  ASSUME Typed, NEW c \in Client, Receive(c)
  PROVE  /\ Current(c) \in Call
         /\ Moves(Current(c), {"answered", "failed"}, {"claimed", "raised"})
         /\ handler'[Current(c)].at = "claimed" <=> handler[Current(c)].at = "answered"
         /\ waiting' = [waiting EXCEPT ![c] = FALSE]
         /\ UNCHANGED <<store, recorder, calls, boundary>>
  <1>1. PICK k \in Call : k = Current(c)
    BY CurrentCall DEF Receive
  <1> DEFINE at == IF handler[k].at = "answered" THEN "claimed" ELSE "raised"
  <1>2. handler' = [handler EXCEPT ![k].at = at] /\ at \in {"claimed", "raised"}
    BY <1>1 DEF Receive
  <1>3. handler[k].at \in {"answered", "failed"}
    BY <1>1 DEF Receive
  <1>4. at = "claimed" <=> handler[k].at = "answered"
    OBVIOUS
  <1> HIDE DEF at
  <1>5. Moves(k, {"answered", "failed"}, {"claimed", "raised"}) /\ handler'[k].at = at
    BY <1>2, <1>3, StepTyped DEF Moves, Places
  <1> QED
    BY <1>1, <1>4, <1>5 DEF Receive, service

LEMMA ReachShape ==
  ASSUME Typed, NEW c \in Client, Reach(c)
  PROVE  /\ Current(c) \in Call /\ Moves(Current(c), {"spawned"}, {"reached"})
         /\ reached' = reached \cup {Current(c)}
         /\ UNCHANGED <<store, recorder, client, egress, blocked>>
  <1>1. PICK k \in Call : k = Current(c)
    BY CurrentCall DEF Reach
  <1>2. handler' = [handler EXCEPT ![k].at = "reached"] /\ handler[k].at = "spawned"
    BY <1>1 DEF Reach
  <1>3. Moves(k, {"spawned"}, {"reached"})
    BY <1>2, StepTyped DEF Moves, Places
  <1> QED
    BY <1>1, <1>3 DEF Reach, service

\* A response is rejected, or its host is in the record.
LEMMA ConcludeShape ==
  ASSUME Typed, NEW c \in Client, Fetched(c) \/ KillServer(c)
  PROVE  /\ Current(c) \in Call
         /\ Moves(Current(c), {"spawned", "reached"}, {"rejected", "fetched"})
         /\ handler'[Current(c)].at = "fetched" => Current(c) \in egress'
         /\ handler'[Current(c)].at = "rejected" =>
              egress' = egress /\ Current(c)[1] \in Verifying
         /\ egress \subseteq egress' /\ egress' \subseteq egress \cup {Current(c)}
         /\ waiting' = [waiting EXCEPT ![c] = FALSE]
         /\ UNCHANGED <<store, recorder, calls, reached, blocked>>
  <1>1. PICK k \in Call : k = Current(c)
    BY CurrentCall DEF Fetched, KillServer
  <1>2. handler[k].at \in {"spawned", "reached"}
    BY <1>1 DEF Fetched, KillServer
  <1>3. PICK identified \in BOOLEAN : Conclude(c, identified)
    BY DEF Fetched, KillServer
  <1> DEFINE rejected == c \in Verifying /\ ~identified
             at == IF rejected THEN "rejected" ELSE "fetched"
  <1>4. /\ handler' = [handler EXCEPT ![k].at = at] /\ at \in {"rejected", "fetched"}
        /\ egress' = IF rejected THEN egress ELSE egress \cup {k}
        /\ waiting' = [waiting EXCEPT ![c] = FALSE]
        /\ UNCHANGED <<service, calls, reached, blocked>>
    BY <1>1, <1>3 DEF Conclude
  <1>5. Moves(k, {"spawned", "reached"}, {"rejected", "fetched"}) /\ handler'[k].at = at
    BY <1>2, <1>4, StepTyped DEF Moves, Places
  <1>6. handler'[k].at = "rejected" => egress' = egress /\ Current(c)[1] \in Verifying
    BY <1>4, <1>5 DEF Current
  <1> QED
    BY <1>1, <1>4, <1>5, <1>6 DEF service

\* A reset disowns the calls whose records it drops.
LEMMA ClearShape ==
  ASSUME Typed, NEW s \in Service, ClearRecorder(s)
  PROVE  /\ handler' \in [Call -> Handlers]
         /\ recorder' = {k \in recorder : ~OfService(k, s)}
         /\ \A k \in Call : /\ handler'[k].at = handler[k].at /\ handler'[k].op = handler[k].op
                            /\ handler'[k].own => handler[k].own /\ ~OfService(k, s)
         /\ UNCHANGED <<store, client, boundary>>
  <1>1. /\ handler' = Disown(s) /\ recorder' = {k \in recorder : ~OfService(k, s)}
        /\ UNCHANGED <<store, client, boundary>>
    BY DEF ClearRecorder
  <1>2. \A k \in Call : handler[k] \in Handlers
    BY DEF Typed
  <1>3. ASSUME NEW k \in Call
        PROVE  LET h == Disown(s)[k]
               IN /\ h \in Handlers /\ h.at = handler[k].at /\ h.op = handler[k].op
                  /\ h.own => handler[k].own /\ ~OfService(k, s)
    BY <1>2 DEF Disown, Handlers
  <1>4. Disown(s) \in [Call -> Handlers]
    BY <1>3 DEF Disown
  <1> QED
    BY <1>1, <1>3, <1>4

LEMMA ReseedShape ==
  ASSUME Typed, NEW s \in Service, Reseed(s)
  PROVE  store' \in [Key -> STRING] /\ UNCHANGED <<handler, recorder, client, boundary>>
  BY ServicesAssumption DEF ServicesAssumption, Reseed, Typed

-----------------------------------------------------------------------------
(* Types and the numbering of calls.                                        *)

\* A call that was not made yet is not asked for: what a client asks next is new.
Numbered ==
  \A c \in Client : \A n \in 1..MaxCalls[c] : n > calls[c] => handler[<<c, n>>].at = "unasked"

LEMMA InitCalls ==
  ASSUME Init, NEW k \in Call
  PROVE  handler[k].at = "unasked" /\ handler[k].own = FALSE
  BY DEF Init, Unasked

LEMMA TypedInit == Init => Typed /\ Numbered
  <1> SUFFICES ASSUME Init
               PROVE  Typed /\ Numbered
    OBVIOUS
  <1>1. handler \in [Call -> Handlers]
    BY UnaskedTyped DEF Init
  <1>2. Typed
    BY <1>1, ServicesAssumption DEF ServicesAssumption, Init, Typed
  <1> QED
    BY <1>2, InitCalls, CallOf DEF Numbered

\* Moving a call that is under way keeps both.
LEMMA MovesKeep ==
  ASSUME Typed, Numbered, NEW k \in Call, NEW froms, NEW tos, "unasked" \notin froms,
         Moves(k, froms, tos), UNCHANGED calls
  PROVE  Numbered'
  BY CallOf DEF Moves, Numbered

LEMMA TypedNext == Typed /\ Numbered /\ [Next]_vars => (Typed /\ Numbered)'
  <1> SUFFICES ASSUME Typed, Numbered, [Next]_vars
               PROVE  (Typed /\ Numbered)'
    OBVIOUS
  <1>1. ASSUME NEW c \in Client, NEW op \in Operation, Ask(c, op)
        PROVE  (Typed /\ Numbered)'
    <2>1. AskedShape(c, <<c, calls[c] + 1>>) /\ calls[c] + 1 \in 1..MaxCalls[c]
      BY <1>1, AskShape, NextCall DEF Ask
    <2>2. PICK n \in Nat : n = calls[c]
      BY DEF Typed
    <2>3. calls' \in [Client -> Nat] /\ calls'[c] = n + 1
      BY <2>1, <2>2 DEF AskedShape, Typed
    <2>4. /\ waiting' \in [Client -> BOOLEAN]
          /\ \A d \in Client : waiting'[d] => calls'[d] \in 1..MaxCalls[d]
      BY <2>1, <2>2, <2>3 DEF AskedShape, Typed
    <2>5. Typed'
      BY <2>1, <2>3, <2>4 DEF AskedShape, Typed
    <2>6. ASSUME NEW d \in Client, NEW m \in 1..MaxCalls[d], m > calls'[d]
          PROVE  handler'[<<d, m>>].at = "unasked"
      <3>1. m > calls[d] /\ <<d, m>> # <<c, calls[c] + 1>> /\ <<d, m>> \in Call
        <4>1. CASE d = c
          BY <2>2, <2>3, <2>6, <4>1, CallOf
        <4>2. CASE d # c
          BY <2>1, <2>6, <4>2, CallOf DEF AskedShape, Typed
        <4> QED
          BY <4>1, <4>2
      <3> QED
        BY <2>1, <3>1 DEF AskedShape, Numbered
    <2> QED
      BY <2>5, <2>6 DEF Numbered
  <1>2. ASSUME NEW c \in Client, Receive(c)
        PROVE  (Typed /\ Numbered)'
    BY <1>2, ReceiveShape, MovesKeep DEF Moves, Typed
  <1>3. ASSUME NEW c \in Client, GiveUp(c)
        PROVE  (Typed /\ Numbered)'
    BY <1>3 DEF GiveUp, service, Typed, Numbered
  <1>4. ASSUME NEW c \in Client, Reach(c)
        PROVE  (Typed /\ Numbered)'
    BY <1>4, ReachShape, MovesKeep DEF Moves, Typed, client
  <1>5. ASSUME NEW c \in Client, Fetched(c) \/ KillServer(c)
        PROVE  (Typed /\ Numbered)'
    BY <1>5, ConcludeShape, MovesKeep DEF Moves, Typed
  <1>6. ASSUME NEW k \in Call, Serve(k)
        PROVE  (Typed /\ Numbered)'
    <2>1. ServedShape(k) /\ "unasked" \notin InService
      BY <1>6, ServeShape DEF InService
    <2> QED
      BY <2>1, MovesKeep DEF ServedShape, Moves, Typed, client
  <1>7. ASSUME NEW s \in Service, ClearRecorder(s)
        PROVE  (Typed /\ Numbered)'
    BY <1>7, ClearShape, CallOf DEF Typed, Numbered, client
  <1>8. ASSUME NEW s \in Service, Reseed(s)
        PROVE  (Typed /\ Numbered)'
    BY <1>8, ReseedShape DEF Typed, Numbered, client
  <1>9. CASE UNCHANGED vars
    BY <1>9 DEF vars, service, client, Typed, Numbered
  <1> QED
    BY <1>1, <1>2, <1>3, <1>4, <1>5, <1>6, <1>7, <1>8, <1>9 DEF Next

-----------------------------------------------------------------------------
(* What is claimed was recorded.                                            *)

\* The answer to a call of this run is behind its record, heard or not.
AnsweredRecorded ==
  \A k \in Call :
    handler[k].own /\ handler[k].at \in {"answered", "claimed"} /\ Act(handler[k].op) \in Effects
      => k \in recorder

LEMMA RecordedNext ==
  Typed /\ Numbered /\ AnsweredRecorded /\ [Next]_vars => AnsweredRecorded'
  <1> SUFFICES ASSUME Typed, Numbered, AnsweredRecorded, [Next]_vars
               PROVE  AnsweredRecorded'
    OBVIOUS
  <1>1. ASSUME NEW c \in Client, NEW op \in Operation, Ask(c, op)
        PROVE  AnsweredRecorded'
    BY <1>1, AskShape DEF AskedShape, AnsweredRecorded
  <1>2. ASSUME NEW c \in Client, Receive(c)
        PROVE  AnsweredRecorded'
    BY <1>2, ReceiveShape DEF Moves, AnsweredRecorded
  <1>3. ASSUME NEW c \in Client, GiveUp(c)
        PROVE  AnsweredRecorded'
    BY <1>3 DEF GiveUp, service, AnsweredRecorded
  <1>4. ASSUME NEW c \in Client, Reach(c)
        PROVE  AnsweredRecorded'
    BY <1>4, ReachShape DEF Moves, AnsweredRecorded
  <1>5. ASSUME NEW c \in Client, Fetched(c) \/ KillServer(c)
        PROVE  AnsweredRecorded'
    BY <1>5, ConcludeShape DEF Moves, AnsweredRecorded
  <1>6. ASSUME NEW k \in Call, Serve(k)
        PROVE  AnsweredRecorded'
    <2>1. ServedShape(k)
      BY <1>6, ServeShape
    <2> QED
      BY <2>1 DEF ServedShape, Moves, Onward, AnsweredRecorded
  <1>7. ASSUME NEW s \in Service, ClearRecorder(s)
        PROVE  AnsweredRecorded'
    BY <1>7, ClearShape DEF AnsweredRecorded
  <1>8. ASSUME NEW s \in Service, Reseed(s)
        PROVE  AnsweredRecorded'
    BY <1>8, ReseedShape DEF AnsweredRecorded
  <1>9. CASE UNCHANGED vars
    BY <1>9 DEF vars, service, AnsweredRecorded
  <1> QED
    BY <1>1, <1>2, <1>3, <1>4, <1>5, <1>6, <1>7, <1>8, <1>9 DEF Next

\* For any clients, services and resets: whatever a client was told it did since
\* the reset is in the recorder that reconciliation reads.
THEOREM ClaimsAreRecorded == Spec => []ClaimsRecorded
  <1> DEFINE IInv == Typed /\ Numbered /\ AnsweredRecorded
  <1>1. Init => IInv
    <2>1. Init => AnsweredRecorded
      BY InitCalls DEF AnsweredRecorded
    <2> QED
      BY <2>1, TypedInit
  <1>2. IInv /\ [Next]_vars => IInv'
    BY TypedNext, RecordedNext
  <1>3. IInv => ClaimsRecorded
    BY DEF AnsweredRecorded, ClaimsRecorded, Claimed
  <1> QED
    BY <1>1, <1>2, <1>3, PTL DEF Spec

-----------------------------------------------------------------------------
(* What is reached is accounted for.                                        *)

Boundary ==
  /\ reached \subseteq Call /\ blocked \subseteq Call /\ egress \subseteq Call
  /\ \A k \in blocked : handler[k].at = "refused"
  /\ \A k \in egress : handler[k].at = "fetched"
  /\ \A k \in Call : handler[k].at = "rejected" => k[1] \in Verifying
  /\ \A k \in reached : /\ handler[k].at \in {"reached", "fetched", "rejected"}
                        /\ handler[k].at = "fetched" => k \in egress
  /\ \A k \in Call : handler[k].at \in {"spawned", "reached", "fetched", "rejected"}
                      => handler[k].op.key \in Allowed

LEMMA BoundaryNext == Typed /\ Numbered /\ Boundary /\ [Next]_vars => Boundary'
  <1> SUFFICES ASSUME Typed, Numbered, Boundary, [Next]_vars
               PROVE  Boundary'
    OBVIOUS
  <1>1. ASSUME NEW c \in Client, NEW op \in Operation, Ask(c, op)
        PROVE  Boundary'
    <2>1. PICK k : k = <<c, calls[c] + 1>>
      OBVIOUS
    <2>2. AskedShape(c, k) /\ k \in Call
      BY <1>1, <2>1, AskShape, NextCall DEF Ask
    <2>3. handler[k].at = "unasked"
      <3>1. PICK n \in Nat : n = calls[c]
        BY DEF Typed
      <3> QED
        BY <1>1, <2>1, <3>1, NextCall DEF Ask, Numbered
    <2>4. k \notin reached /\ k \notin blocked /\ k \notin egress
      BY <2>3 DEF Boundary
    <2> QED
      BY <2>2, <2>4 DEF AskedShape, Boundary
  <1>2. ASSUME NEW c \in Client, Receive(c)
        PROVE  Boundary'
    BY <1>2, ReceiveShape DEF Moves, Boundary, boundary
  <1>3. ASSUME NEW c \in Client, GiveUp(c)
        PROVE  Boundary'
    BY <1>3 DEF GiveUp, boundary, Boundary
  <1>4. ASSUME NEW c \in Client, Reach(c)
        PROVE  Boundary'
    BY <1>4, ReachShape DEF Moves, Boundary
  <1>5. ASSUME NEW c \in Client, Fetched(c) \/ KillServer(c)
        PROVE  Boundary'
    BY <1>5, ConcludeShape DEF Moves, Boundary
  <1>6. ASSUME NEW k \in Call, Serve(k)
        PROVE  Boundary'
    <2>1. ServedShape(k)
      BY <1>6, ServeShape
    <2> QED
      BY <2>1 DEF ServedShape, Moves, InService, Onward, Boundary, boundary
  <1>7. ASSUME NEW s \in Service, ClearRecorder(s)
        PROVE  Boundary'
    BY <1>7, ClearShape DEF Boundary, boundary
  <1>8. ASSUME NEW s \in Service, Reseed(s)
        PROVE  Boundary'
    BY <1>8, ReseedShape DEF Boundary, boundary
  <1>9. CASE UNCHANGED vars
    BY <1>9 DEF vars, boundary, Boundary
  <1> QED
    BY <1>1, <1>2, <1>3, <1>4, <1>5, <1>6, <1>7, <1>8, <1>9 DEF Next

\* Whatever a fetch meets - a slow server, a kill before or after its host was
\* reached, a missing identity - what is reached or recorded was allowed, and a
\* reached host is missing from the record only where a pinned server was rejected
\* (MCPToolProvider.invoke, _call_server).
THEOREM EgressIsContained == Spec => []EgressContained
  <1> DEFINE IInv == Typed /\ Numbered /\ Boundary
  <1>1. Init => IInv
    <2>1. Init => Boundary
      <3> SUFFICES ASSUME Init
                   PROVE  Boundary
        OBVIOUS
      <3>1. reached = {} /\ blocked = {} /\ egress = {}
        BY DEF Init
      <3> QED
        BY <3>1, InitCalls DEF Boundary
    <2> QED
      BY <2>1, TypedInit
  <1>2. IInv /\ [Next]_vars => IInv'
    BY TypedNext, BoundaryNext
  <1>3. IInv => EgressContained
    BY DEF Boundary, EgressContained
  <1> QED
    BY <1>1, <1>2, <1>3, PTL DEF Spec

-----------------------------------------------------------------------------
(* The event loop of a service is held by one handler, or by its reset.     *)

Holds(k) == Working(k) /\ OnLoop(handler[k].op)

\* Only what is an effect is taken, acted upon and recorded, and a record comes
\* with the answer.
Deeds ==
  /\ \A k \in Call : handler[k].at \in {"taken", "acted"} => Act(handler[k].op) \in Effects
  /\ \A k \in recorder : /\ Act(handler[k].op) \in Effects
                         /\ handler[k].at \in {"answered", "claimed"}

Exclusive ==
  /\ loop \in [Service -> {"free", "busy", "reset"}]
  /\ \A k \in Call : Holds(k) => loop[handler[k].op.service] = "busy"
  /\ \A j, k \in Call : Holds(j) /\ Holds(k) /\ handler[j].op.service = handler[k].op.service
                          => j = k

\* What is at work on a service, or in its recorder, was asked for since its
\* last reset.
Owned ==
  \A s \in Service : ~late[s] /\ ~Resetting(s) =>
    \A k \in Call : OfService(k, s) /\ (Pending(k) \/ k \in recorder) => handler[k].own

\* The loop is entered with the test, and left with the answer or the error.
LoopShape(k) ==
  LET op == handler[k].op
  IN /\ ~OnLoop(op) => loop' = loop
     /\ OnLoop(op) /\ handler[k].at = "arrived" =>
          /\ loop[op.service] = "free" /\ loop' = [loop EXCEPT ![op.service] = "busy"]
     /\ OnLoop(op) /\ handler[k].at # "arrived" =>
          loop' = IF handler'[k].at \in {"checked", "taken", "acted"} THEN loop
                  ELSE [loop EXCEPT ![op.service] = "free"]
     /\ OnLoop(op) /\ handler[k].at = "arrived" => handler'[k].at \in {"checked", "acted"}

DeedShape(k) ==
  /\ \/ recorder' = recorder
     \/ handler[k].at = "acted" /\ handler'[k].at = "answered" /\ recorder' = recorder \cup {k}
  /\ handler'[k].at \in {"taken", "acted"} =>
       Act(handler[k].op) \in Effects \/ handler[k].at = "taken"

LEMMA ServeLoop ==
  ASSUME Typed, NEW k \in Call, Serve(k)
  PROVE  LoopShape(k) /\ DeedShape(k)
  <1> DEFINE op == handler[k].op
  <1>1. DOMAIN handler = Call /\ handler[k] \in Handlers
    BY DEF Typed
  <1>2. CASE Check(k)
    <2> DEFINE found == Act(op) \in {"send", "list", "walk"} \/ store[op.key] # Absent
               at == CASE Act(op) = "list" \/ (Act(op) = "read" /\ ~found) -> "answered"
                       [] \/ Act(op) \in {"comment", "send"}
                          \/ (Act(op) = "rename" /\ ~found) -> "acted"
                       [] OTHER -> "checked"
    <2>1. /\ handler[k].at = "arrived" /\ recorder' = recorder
          /\ OnLoop(op) => loop[op.service] = "free"
          /\ loop' = IF OnLoop(op) THEN [loop EXCEPT ![op.service] = "busy"] ELSE loop
      BY <1>2 DEF Check, Free
    <2>2. handler'[k].at = at
      BY <1>1, <1>2 DEF Check, Handlers
    <2>3. /\ at \in {"answered", "acted", "checked"}
          /\ at = "acted" => Act(op) \in Effects
          /\ OnLoop(op) => at \in {"checked", "acted"}
      BY DEF OnLoop, Effects
    <2> HIDE DEF at
    <2> QED
      BY <2>1, <2>2, <2>3 DEF LoopShape, DeedShape
  <1>3. CASE Fetch(k)
    <2>1. PICK at \in {"failed", "answered"} : handler' = [handler EXCEPT ![k].at = at]
      BY <1>3 DEF Fetch, Step
    <2>2. handler'[k].at = at
      BY <1>1, <2>1 DEF Handlers
    <2>3. ~OnLoop(op) /\ UNCHANGED <<loop, recorder>>
      BY <1>3 DEF Fetch, OnLoop, service
    <2> QED
      BY <2>1, <2>2, <2>3 DEF LoopShape, DeedShape
  <1>4. CASE Pop(k)
    <2>1. handler[k].at = "checked" /\ Act(op) = "delete" /\ UNCHANGED <<loop, recorder>>
      BY <1>4 DEF Pop
    <2>2. PICK did : handler' = [handler EXCEPT ![k].at = "acted", ![k].did = did]
      BY <1>4 DEF Pop
    <2>3. handler'[k].at = "acted"
      BY <1>1, <2>2 DEF Handlers
    <2>4. ~OnLoop(op) /\ Act(op) \in Effects
      BY <2>1 DEF OnLoop, Effects
    <2> QED
      BY <2>1, <2>3, <2>4 DEF LoopShape, DeedShape
  <1>5. CASE Take(k)
    <2>1. handler[k].at = "checked" /\ Act(op) = "rename" /\ recorder' = recorder
      BY <1>5 DEF Take
    <2>2. OnLoop(op) /\ Act(op) \in Effects
      <3>1. \A any : Act(any) = "rename" => OnLoop(any) /\ Act(any) \in Effects
        BY DEF OnLoop, Effects
      <3> QED
        BY <2>1, <3>1
    <2>3. \/ handler'[k].at = "failed" /\ loop' = [loop EXCEPT ![op.service] = "free"]
          \/ handler'[k].at = "taken" /\ loop' = loop
      <3>1. CASE store[op.key] = Absent
        <4>1. /\ loop' = [loop EXCEPT ![op.service] = "free"]
              /\ handler' = [handler EXCEPT ![k].at = "failed"]
          BY <1>5, <3>1 DEF Take, Step
        <4>2. handler'[k].at = "failed"
          BY <1>1, <4>1 DEF Handlers
        <4> QED
          BY <4>1, <4>2
      <3>2. CASE store[op.key] # Absent
        <4>1. /\ loop' = loop
              /\ handler' = [handler EXCEPT ![k].at = "taken", ![k].held = store[op.key],
                                            ![k].did = "done"]
          BY <1>5, <3>2 DEF Take
        <4>2. handler'[k].at = "taken"
          BY <1>1, <4>1 DEF Handlers
        <4> QED
          BY <4>1, <4>2
      <3> QED
        BY <3>1, <3>2
    <2> QED
      BY <2>1, <2>2, <2>3 DEF LoopShape, DeedShape
  <1>6. CASE Place(k)
    <2>1. handler'[k].at = "acted"
      BY <1>1, <1>6 DEF Place, Handlers
    <2> QED
      BY <1>6, <2>1 DEF Place, LoopShape, DeedShape
  <1>7. CASE Record(k)
    <2>1. handler'[k].at = "answered"
      BY <1>1, <1>7 DEF Record, Step, Handlers
    <2> QED
      BY <1>7, <2>1 DEF Record, LoopShape, DeedShape
  <1> QED
    BY <1>2, <1>3, <1>4, <1>5, <1>6, <1>7 DEF Serve

LEMMA ServiceOfLoop ==
  ASSUME Typed, NEW k \in Call, OnLoop(handler[k].op)
  PROVE  handler[k].op.service \in Service
  <1>1. handler[k].op \in Operation \cup {NoOp}
    BY DEF Typed, Handlers
  <1>2. Act(NoOp) = "none"
    BY DEF Act, Routed, NoOp, Routes
  <1> QED
    BY <1>1, <1>2, OperationAssumption DEF OperationAssumption, OnLoop

LEMMA ServeExclusive ==
  ASSUME Typed, Exclusive, NEW k \in Call, Serve(k)
  PROVE  /\ Exclusive'
         /\ \A s \in Service : (loop[s] = "reset") <=> (loop'[s] = "reset")
  <1> DEFINE op == handler[k].op
  <1>1. /\ ServedShape(k) /\ LoopShape(k)
        /\ \A j \in Call \ {k} : handler'[j] = handler[j]
        /\ handler'[k].op = op
        /\ handler[k].at \in InService /\ handler'[k].at \in Onward
    BY ServeShape, ServeLoop DEF ServedShape, Moves
  <1>2. CASE ~OnLoop(op)
    <2>1. loop' = loop /\ ~Holds(k)'
      BY <1>1, <1>2 DEF LoopShape, Holds
    <2>2. \A j \in Call \ {k} : Holds(j)' <=> Holds(j)
      BY <1>1 DEF Holds, Working
    <2> QED
      BY <1>1, <2>1, <2>2 DEF Exclusive
  <1>3. CASE OnLoop(op)
    <2>0. op.service \in Service
      BY <1>3, ServiceOfLoop
    <2>1. \A j \in Call \ {k} : Holds(j)' <=> Holds(j)
      BY <1>1 DEF Holds, Working
    <2>2. CASE handler[k].at = "arrived"
      <3>1. loop[op.service] = "free" /\ loop' = [loop EXCEPT ![op.service] = "busy"]
        BY <1>1, <1>3, <2>2 DEF LoopShape
      <3>2. \A j \in Call \ {k} : Holds(j) => handler[j].op.service # op.service
        BY <3>1 DEF Exclusive
      <3> QED
        BY <1>1, <2>0, <2>1, <3>1, <3>2 DEF Exclusive
    <2>3. CASE handler[k].at # "arrived"
      <3>1. Holds(k) /\ loop[op.service] = "busy"
        BY <1>1, <1>3, <2>3 DEF Holds, Working, InService, Exclusive
      <3>2. \A j \in Call \ {k} : Holds(j) => handler[j].op.service # op.service
        BY <3>1 DEF Exclusive
      <3>3. CASE handler'[k].at \in {"checked", "taken", "acted"}
        <4>1. loop' = loop
          BY <1>1, <1>3, <2>3, <3>3 DEF LoopShape
        <4> QED
          BY <1>1, <2>1, <3>1, <3>2, <4>1 DEF Exclusive
      <3>4. CASE handler'[k].at \notin {"checked", "taken", "acted"}
        <4>1. loop' = [loop EXCEPT ![op.service] = "free"] /\ ~Holds(k)'
          BY <1>1, <1>3, <2>3, <3>4 DEF LoopShape, Holds, Working
        <4> QED
          BY <1>1, <2>0, <2>1, <3>1, <3>2, <4>1 DEF Exclusive
      <3> QED
        BY <3>3, <3>4
    <2> QED
      BY <2>2, <2>3
  <1> QED
    BY <1>2, <1>3

\* A call that is not in a handler before or after leaves the loops alone.
LEMMA MovesExclusive ==
  ASSUME Exclusive, NEW k \in Call, NEW froms, NEW tos, Moves(k, froms, tos),
         (froms \cup tos) \cap {"checked", "taken", "acted"} = {}, loop' = loop
  PROVE  Exclusive'
  BY DEF Exclusive, Moves, Holds, Working

LEMMA NewCall ==
  ASSUME Typed, Numbered, NEW c \in Client, NEW op \in Operation, Ask(c, op)
  PROVE  LET k == <<c, calls[c] + 1>>
         IN k \in Call /\ handler[k].at = "unasked" /\ AskedShape(c, k)
  <1>1. PICK n \in Nat : n = calls[c]
    BY DEF Typed
  <1>2. calls[c] + 1 \in 1..MaxCalls[c] /\ <<c, calls[c] + 1>> \in Call /\ n + 1 > n
    BY <1>1, NextCall DEF Ask
  <1>3. handler[<<c, calls[c] + 1>>].at = "unasked"
    BY <1>1, <1>2 DEF Numbered
  <1> QED
    BY <1>2, <1>3, AskShape

LEMMA ExclusiveNext == Typed /\ Numbered /\ Exclusive /\ [Next]_vars => Exclusive'
  <1> SUFFICES ASSUME Typed, Numbered, Exclusive, [Next]_vars
               PROVE  Exclusive'
    OBVIOUS
  <1>1. ASSUME NEW c \in Client, NEW op \in Operation, Ask(c, op)
        PROVE  Exclusive'
    <2>1. PICK k \in Call : handler[k].at = "unasked" /\ AskedShape(c, k)
      BY <1>1, NewCall
    <2>2. loop' = loop
      BY <1>1 DEF Ask, service
    <2>3. ~Holds(k) /\ ~Holds(k)' /\ \A j \in Call \ {k} : Holds(j)' <=> Holds(j)
      BY <2>1 DEF AskedShape, Holds, Working
    <2> QED
      BY <2>1, <2>2, <2>3 DEF AskedShape, Exclusive
  <1>2. ASSUME NEW c \in Client, Receive(c)
        PROVE  Exclusive'
    BY <1>2, ReceiveShape, MovesExclusive DEF Receive, service
  <1>3. ASSUME NEW c \in Client, GiveUp(c)
        PROVE  Exclusive'
    BY <1>3 DEF GiveUp, service, Exclusive, Holds, Working
  <1>4. ASSUME NEW c \in Client, Reach(c)
        PROVE  Exclusive'
    BY <1>4, ReachShape, MovesExclusive DEF Reach, service
  <1>5. ASSUME NEW c \in Client, Fetched(c) \/ KillServer(c)
        PROVE  Exclusive'
    <2>1. loop' = loop
      BY <1>5 DEF Fetched, KillServer, Conclude, service
    <2> QED
      BY <1>5, <2>1, ConcludeShape, MovesExclusive
  <1>6. ASSUME NEW k \in Call, Serve(k)
        PROVE  Exclusive'
    BY <1>6, ServeExclusive
  <1>7. ASSUME NEW s \in Service, ClearRecorder(s)
        PROVE  Exclusive'
    <2>1. loop[s] = "free" /\ loop' = [loop EXCEPT ![s] = "reset"]
      BY <1>7 DEF ClearRecorder, Free
    <2>2. \A k \in Call : /\ Holds(k)' <=> Holds(k)
                          /\ handler'[k].op = handler[k].op
      BY <1>7, ClearShape DEF Holds, Working
    <2> QED
      BY <2>1, <2>2 DEF Exclusive
  <1>8. ASSUME NEW s \in Service, Reseed(s)
        PROVE  Exclusive'
    BY <1>8 DEF Reseed, Resetting, Exclusive, Holds, Working
  <1>9. CASE UNCHANGED vars
    BY <1>9 DEF vars, service, Exclusive, Holds, Working
  <1> QED
    BY <1>1, <1>2, <1>3, <1>4, <1>5, <1>6, <1>7, <1>8, <1>9 DEF Next

LEMMA DeedsNext == Typed /\ Numbered /\ Deeds /\ [Next]_vars => Deeds'
  <1> SUFFICES ASSUME Typed, Numbered, Deeds, [Next]_vars
               PROVE  Deeds'
    OBVIOUS
  <1>1. ASSUME NEW c \in Client, NEW op \in Operation, Ask(c, op)
        PROVE  Deeds'
    BY <1>1, NewCall DEF AskedShape, Deeds, Typed
  <1>2. ASSUME NEW c \in Client, Receive(c)
        PROVE  Deeds'
    BY <1>2, ReceiveShape DEF Moves, Deeds, Typed
  <1>3. ASSUME NEW c \in Client, GiveUp(c)
        PROVE  Deeds'
    BY <1>3 DEF GiveUp, service, Deeds
  <1>4. ASSUME NEW c \in Client, Reach(c)
        PROVE  Deeds'
    BY <1>4, ReachShape DEF Moves, Deeds, Typed
  <1>5. ASSUME NEW c \in Client, Fetched(c) \/ KillServer(c)
        PROVE  Deeds'
    BY <1>5, ConcludeShape DEF Moves, Deeds, Typed
  <1>6. ASSUME NEW k \in Call, Serve(k)
        PROVE  Deeds'
    <2>1. /\ DeedShape(k) /\ handler'[k].op = handler[k].op /\ handler[k].at \in InService
          /\ \A j \in Call \ {k} : handler'[j] = handler[j]
      BY <1>6, ServeShape, ServeLoop DEF ServedShape, Moves
    <2>2. \A j \in Call : handler'[j].at \in {"taken", "acted"} => Act(handler'[j].op) \in Effects
      BY <2>1 DEF DeedShape, Deeds
    <2>3. \A j \in recorder : j # k
      BY <2>1 DEF Deeds, InService
    <2> QED
      BY <2>1, <2>2, <2>3 DEF DeedShape, Deeds, Typed
  <1>7. ASSUME NEW s \in Service, ClearRecorder(s)
        PROVE  Deeds'
    BY <1>7, ClearShape DEF Deeds, Typed
  <1>8. ASSUME NEW s \in Service, Reseed(s)
        PROVE  Deeds'
    BY <1>8, ReseedShape DEF Deeds
  <1>9. CASE UNCHANGED vars
    BY <1>9 DEF vars, service, Deeds
  <1> QED
    BY <1>1, <1>2, <1>3, <1>4, <1>5, <1>6, <1>7, <1>8, <1>9 DEF Next

\* The rest of the types, and the bounds.
Kept ==
  /\ egress \subseteq Call /\ \A c \in Client : calls[c] <= MaxCalls[c]
  /\ resets \in [Service -> Nat] /\ \A s \in Service : resets[s] <= MaxResets[s]
  /\ late \in [Service -> BOOLEAN] /\ contended \in [Service -> BOOLEAN]

LEMMA KeptNext == Typed /\ Numbered /\ Kept /\ [Next]_vars => Kept'
  <1> SUFFICES ASSUME Typed, Numbered, Kept, [Next]_vars
               PROVE  Kept'
    OBVIOUS
  <1>1. ASSUME NEW c \in Client, NEW op \in Operation, Ask(c, op)
        PROVE  Kept'
    <2>1. PICK n \in Nat : n = calls[c]
      BY DEF Typed
    <2>2. PICK m \in Nat : m = MaxCalls[c]
      BY ServicesAssumption DEF ServicesAssumption
    <2>3. /\ AskedShape(c, <<c, calls[c] + 1>>) /\ n < m
          /\ UNCHANGED <<resets, late, contended>>
      BY <1>1, <2>1, <2>2, AskShape DEF Ask, history
    <2>4. calls' = [calls EXCEPT ![c] = n + 1] /\ n + 1 <= m
      BY <2>1, <2>3 DEF AskedShape
    <2> QED
      BY <2>2, <2>3, <2>4 DEF AskedShape, Kept, Typed
  <1>2. ASSUME NEW c \in Client, Receive(c)
        PROVE  Kept'
    BY <1>2 DEF Receive, boundary, history, Kept
  <1>3. ASSUME NEW c \in Client, GiveUp(c)
        PROVE  Kept'
    BY <1>3 DEF GiveUp, boundary, history, Kept
  <1>4. ASSUME NEW c \in Client, Reach(c)
        PROVE  Kept'
    BY <1>4 DEF Reach, client, history, Kept
  <1>5. ASSUME NEW c \in Client, Fetched(c) \/ KillServer(c)
        PROVE  Kept'
    <2>1. UNCHANGED <<resets, late, contended>>
      BY <1>5 DEF Fetched, KillServer, Conclude, history
    <2> QED
      BY <1>5, <2>1, ConcludeShape DEF Kept
  <1>6. ASSUME NEW k \in Call, Serve(k)
        PROVE  Kept'
    <2>1. UNCHANGED <<calls, egress, resets, late>>
      BY <1>6 DEF Serve, Check, Fetch, Pop, Take, Place, Record, client, boundary, history
    <2>2. contended' \in [Service -> BOOLEAN]
      <3>1. CASE Check(k)
        BY <3>1 DEF Check, Kept
      <3>2. CASE ~Check(k)
        BY <1>6, <3>2 DEF Serve, Fetch, Pop, Take, Place, Record, history, Kept
      <3> QED
        BY <3>1, <3>2
    <2> QED
      BY <2>1, <2>2 DEF Kept
  <1>7. ASSUME NEW s \in Service, ClearRecorder(s)
        PROVE  Kept'
    <2>1. PICK n \in Nat : n = resets[s]
      BY DEF Kept
    <2>2. PICK m \in Nat : m = MaxResets[s]
      BY ServicesAssumption DEF ServicesAssumption
    <2>3. resets' = [resets EXCEPT ![s] = n + 1] /\ n + 1 <= m
      BY <1>7, <2>1, <2>2 DEF ClearRecorder
    <2> QED
      BY <1>7, <2>2, <2>3 DEF ClearRecorder, client, boundary, history, Kept
  <1>8. ASSUME NEW s \in Service, Reseed(s)
        PROVE  Kept'
    BY <1>8 DEF Reseed, client, boundary, Kept
  <1>9. CASE UNCHANGED vars
    BY <1>9 DEF vars, client, boundary, history, Kept
  <1> QED
    BY <1>1, <1>2, <1>3, <1>4, <1>5, <1>6, <1>7, <1>8, <1>9 DEF Next

LEMMA AskOwn ==
  ASSUME Typed, NEW c \in Client, NEW op \in Operation, Ask(c, op),
         handler'[<<c, calls[c] + 1>>].at = "arrived"
  PROVE  LET h == handler'[<<c, calls[c] + 1>>]
         IN h.op = op /\ h.own = ~Resetting(op.service)
  <1> DEFINE k == <<c, calls[c] + 1>>
             Enter(at) == [Unasked EXCEPT !.op = op, !.at = at]
  <1>1. k \in Call /\ handler \in [Call -> Handlers]
    BY NextCall DEF Ask, Typed
  <1>2. \A at \in Places : Enter(at) \in Handlers /\ Enter(at).at = at /\ Enter(at).op = op
    BY EnterTyped
  <1>3. ASSUME NEW at \in Places \ {"arrived"}
        PROVE  handler' # [handler EXCEPT ![k] = Enter(at)]
    BY <1>1, <1>2, <1>3
  <1>4. handler' = [handler EXCEPT ![k] = [Enter("arrived") EXCEPT !.own = ~Resetting(op.service)]]
    BY <1>3 DEF Ask, Places
  <1>5. Enter("arrived") \in Handlers /\ Enter("arrived").op = op
    BY <1>2 DEF Places
  <1> HIDE DEF Enter, k
  <1>6. /\ [Enter("arrived") EXCEPT !.own = ~Resetting(op.service)].op = op
        /\ [Enter("arrived") EXCEPT !.own = ~Resetting(op.service)].own = ~Resetting(op.service)
    BY <1>5 DEF Handlers
  <1> QED
    BY <1>1, <1>4, <1>6 DEF k

LEMMA OwnedNext ==
  Typed /\ Numbered /\ Kept /\ Deeds /\ Exclusive /\ Owned /\ [Next]_vars => Owned'
  <1> SUFFICES ASSUME Typed, Numbered, Kept, Deeds, Exclusive, Owned, [Next]_vars
               PROVE  Owned'
    OBVIOUS
  <1>1. ASSUME NEW c \in Client, NEW op \in Operation, Ask(c, op)
        PROVE  Owned'
    <2>1. PICK k \in Call : /\ k = <<c, calls[c] + 1>>
                            /\ handler[k].at = "unasked" /\ AskedShape(c, k)
      BY <1>1, NewCall
    <2>2. loop' = loop /\ late' = late
      BY <1>1 DEF Ask, service, history
    <2>3. k \notin recorder'
      BY <2>1 DEF AskedShape, Deeds
    <2>4. handler'[k].at = "arrived" => handler'[k].own = ~Resetting(handler'[k].op.service)
      BY <1>1, <2>1, AskOwn
    <2>5. \A j \in Call \ {k} : /\ Pending(j)' <=> Pending(j)
                                /\ j \in recorder' <=> j \in recorder
                                /\ handler'[j] = handler[j]
      BY <2>1 DEF AskedShape, Pending, Working
    <2>6. Pending(k)' => handler'[k].at = "arrived"
      BY <2>1 DEF AskedShape, Pending, Working
    <2> QED
      BY <2>2, <2>3, <2>4, <2>5, <2>6 DEF Owned, OfService, Resetting
  <1>2. ASSUME NEW c \in Client, Receive(c)
        PROVE  Owned'
    <2>1. UNCHANGED <<loop, late>>
      BY <1>2 DEF Receive, service, history
    <2> QED
      BY <1>2, <2>1, ReceiveShape DEF Moves, Owned, OfService, Resetting, Pending, Working
  <1>3. ASSUME NEW c \in Client, GiveUp(c)
        PROVE  Owned'
    BY <1>3 DEF GiveUp, service, history, Owned, OfService, Resetting, Pending, Working
  <1>4. ASSUME NEW c \in Client, Reach(c)
        PROVE  Owned'
    <2>1. UNCHANGED <<loop, late>>
      BY <1>4 DEF Reach, service, history
    <2> QED
      BY <1>4, <2>1, ReachShape DEF Moves, Owned, OfService, Resetting, Pending, Working
  <1>5. ASSUME NEW c \in Client, Fetched(c) \/ KillServer(c)
        PROVE  Owned'
    <2>1. UNCHANGED <<loop, late>>
      BY <1>5 DEF Fetched, KillServer, Conclude, service, history
    <2> QED
      BY <1>5, <2>1, ConcludeShape DEF Moves, Owned, OfService, Resetting, Pending, Working
  <1>6. ASSUME NEW k \in Call, Serve(k)
        PROVE  Owned'
    <2>1. /\ ServedShape(k) /\ Pending(k)
          /\ \A s \in Service : Resetting(s)' <=> Resetting(s)
      BY <1>6, ServeShape, ServeExclusive
         DEF ServedShape, Moves, InService, Pending, Working, Resetting
    <2>2. late' = late
      BY <1>6 DEF Serve, Check, Fetch, Pop, Take, Place, Record, history
    <2> QED
      BY <2>1, <2>2 DEF ServedShape, Moves, Owned, OfService, Pending, Working
  <1>7. ASSUME NEW s \in Service, ClearRecorder(s)
        PROVE  Owned'
    <2>1. loop' = [loop EXCEPT ![s] = "reset"] /\ late' = late
      BY <1>7 DEF ClearRecorder, history
    <2>2. \A k \in Call : ~OfService(k, s) => handler'[k] = handler[k]
      BY <1>7 DEF ClearRecorder, Disown
    <2> QED
      BY <1>7, <2>1, <2>2, ClearShape DEF Exclusive, Owned, OfService, Resetting, Pending, Working
  <1>8. ASSUME NEW s \in Service, Reseed(s)
        PROVE  Owned'
    <2>1. /\ loop' = [loop EXCEPT ![s] = "free"] /\ UNCHANGED <<handler, recorder>>
          /\ late' = [late EXCEPT ![s] =
                        \E k \in Call : OfService(k, s) /\ (Pending(k) \/ k \in recorder)]
      BY <1>8 DEF Reseed
    <2> QED
      BY <2>1 DEF Kept, Exclusive, Owned, OfService, Resetting, Pending, Working
  <1>9. CASE UNCHANGED vars
    BY <1>9 DEF vars, service, history, Owned, OfService, Resetting, Pending, Working
  <1> QED
    BY <1>1, <1>2, <1>3, <1>4, <1>5, <1>6, <1>7, <1>8, <1>9 DEF Next

-----------------------------------------------------------------------------
(* The inductive invariant of the services, and what it gives.              *)

SInv == Typed /\ Numbered /\ AnsweredRecorded /\ Boundary /\ Kept /\ Deeds /\ Exclusive /\ Owned

LEMMA SInvInit == Init => SInv
  <1> SUFFICES ASSUME Init
               PROVE  SInv
    OBVIOUS
  <1>1. /\ recorder = {} /\ egress = {} /\ reached = {} /\ blocked = {}
        /\ \A k \in Call : handler[k].at = "unasked" /\ handler[k].own = FALSE
        /\ loop = [s \in Service |-> "free"]
    BY InitCalls DEF Init
  <1>2. Typed /\ Numbered
    BY TypedInit
  <1>3. AnsweredRecorded /\ Boundary
    BY <1>1 DEF AnsweredRecorded, Boundary
  <1>4. Kept
    <2>1. /\ \A c \in Client : calls[c] = 0 /\ MaxCalls[c] \in Nat
          /\ \A s \in Service : resets[s] = 0 /\ MaxResets[s] \in Nat
      BY ServicesAssumption DEF ServicesAssumption, Init
    <2> QED
      BY <2>1, <1>1 DEF Init, Kept
  <1>5. Deeds /\ Exclusive /\ Owned
    BY <1>1 DEF Deeds, Exclusive, Owned, Holds, Pending, Working
  <1> QED
    BY <1>2, <1>3, <1>4, <1>5 DEF SInv

LEMMA SInvNext == SInv /\ [Next]_vars => SInv'
  BY TypedNext, RecordedNext, BoundaryNext, KeptNext, DeedsNext, ExclusiveNext, OwnedNext DEF SInv

LEMMA SInvariance == Spec => []SInv
  BY SInvInit, SInvNext, PTL DEF Spec

\* Every variable has its type and every bound is kept.
THEOREM TypeCorrect == Spec => []TypeOK
  <1>1. SInv => TypeOK
    BY DEF SInv, Typed, Kept, Boundary, Exclusive, TypeOK, Handlers, Places
  <1> QED
    BY <1>1, SInvariance, PTL

\* For any clients, services, calls and resets: a harness that reports what it
\* was told, and has heard of all its calls, reconciles with the service's
\* recorder, whatever other clients did meanwhile, unless a handler was at work
\* across the reset (HttpToolProvider, Recorder, conformance/observed.py). The
\* loop that a reset has to itself is what makes its two steps one.
THEOREM HonestRunsReconcile == Spec => []HonestReconciles
  <1>1. SInv => HonestReconciles
    <2> SUFFICES ASSUME SInv, NEW s \in Service, Heard(s), ~Resetting(s), ~late[s]
                 PROVE  Reconciled(s)
      BY DEF HonestReconciles
    <2>1. ASSUME NEW k \in recorder, OfService(k, s)
          PROVE  k \in Claimed
      <3>1. k \in Call /\ handler[k].own
        BY <2>1 DEF SInv, Owned, Typed
      <3>2. handler[k].at \in {"claimed", "raised"} \cap {"answered", "claimed"}
        BY <2>1, <3>1 DEF SInv, Heard, Deeds
      <3> QED
        BY <2>1, <3>1, <3>2 DEF SInv, Claimed, Deeds
    <2>2. Claimed \subseteq recorder
      BY DEF SInv, AnsweredRecorded, Claimed
    <2>3. {k \in Claimed : OfService(k, s) /\ Found(k)}
            = {k \in recorder : OfService(k, s) /\ Found(k)}
      BY <2>1, <2>2
    <2> QED
      BY <2>3 DEF Reconciled, Tally
  <1> QED
    BY <1>1, SInvariance, PTL

-----------------------------------------------------------------------------
(* What each step does to its call, field by field.                         *)

\* Only where the call is changes.
Goes(k, at) ==
  /\ handler' \in [Call -> Handlers] /\ handler'[k].at = at
  /\ handler'[k].op = handler[k].op /\ handler'[k].own = handler[k].own
  /\ handler'[k].found = handler[k].found /\ handler'[k].did = handler[k].did
  /\ handler'[k].held = handler[k].held
  /\ \A j \in Call \ {k} : handler'[j] = handler[j]

LEMMA StepGoes ==
  ASSUME Typed, NEW k \in Call, NEW at \in Places, handler' = [handler EXCEPT ![k].at = at]
  PROVE  Goes(k, at)
  BY DEF Typed, Handlers, Goes

\* An operation that reaches a store reaches the one of its service.
LEMMA Reaches ==
  ASSUME Typed, NEW k \in Call,
         Act(handler[k].op) \in {"read", "delete", "rename", "comment", "send"}
  PROVE  LET op == handler[k].op
         IN /\ op \in Operation /\ op.service \in Service
            /\ Act(op) # "send" => /\ op.key \in Key /\ op.key # Absent
                                   /\ op.key \in Held[op.service]
            /\ Act(op) = "rename" => /\ op.dest \in Key /\ op.dest # Absent
                                     /\ op.dest \in Held[op.service]
  <1> DEFINE op == handler[k].op
  <1>1. op \in Operation \cup {NoOp}
    BY DEF Typed, Handlers
  <1>2. Act(NoOp) = "none"
    BY DEF Act, Routed, NoOp, Routes
  <1>3. op \in Operation
    BY <1>1, <1>2
  <1> HIDE DEF op
  <1>4. op.service \in Service
    BY <1>3, OperationAssumption DEF OperationAssumption, op
  <1>5. Act(op) # "send" => op.key \in Held[op.service]
    BY <1>3, StoresAssumption DEF StoresAssumption, op
  <1>6. Act(op) = "rename" => op.dest \in Held[op.service]
    BY <1>3, StoresAssumption DEF StoresAssumption
  <1>7. Held[op.service] \subseteq Key /\ Absent \notin Key
    BY <1>4, ServicesAssumption, StoresAssumption DEF ServicesAssumption, StoresAssumption
  <1> QED
    BY <1>3, <1>4, <1>5, <1>6, <1>7 DEF op

LEMMA CheckFacts ==
  ASSUME Typed, NEW k \in Call, Check(k)
  PROVE  LET h == handler[k]
             g == handler'[k]
             act == Act(handler[k].op)
         IN /\ handler' \in [Call -> Handlers] /\ h.at = "arrived"
            /\ g.op = h.op /\ g.own = h.own /\ g.held = h.held
            /\ g.found <=> (act \in {"send", "list", "walk"} \/ store[h.op.key] # Absent)
            /\ g.at \in {"checked", "acted", "answered"}
            /\ act \in {"delete"} => g.at = "checked"
            /\ act \in {"comment", "send"} => g.at = "acted"
            /\ act = "rename" => g.at = IF g.found THEN "checked" ELSE "acted"
            /\ act \notin Effects => g.at \in {"checked", "answered"}
            /\ g.at = "acted" => g.did = IF g.found THEN "done" ELSE "nothing"
            /\ g.at # "acted" => g.did = h.did
            /\ \A j \in Call \ {k} : handler'[j] = handler[j]
            /\ UNCHANGED store
  <1> DEFINE op == handler[k].op
             found == Act(op) \in {"send", "list", "walk"} \/ store[op.key] # Absent
             at == CASE Act(op) = "list" \/ (Act(op) = "read" /\ ~found) -> "answered"
                     [] Act(op) \in {"comment", "send"} \/ (Act(op) = "rename" /\ ~found) -> "acted"
                     [] OTHER -> "checked"
             did == CASE Act(op) \in {"comment", "send"} /\ found -> "done"
                      [] Act(op) \in {"comment", "rename"} /\ ~found -> "nothing"
                      [] OTHER -> handler[k].did
             h == [handler[k] EXCEPT !.found = found, !.at = at, !.did = did]
  <1>1. handler' = [handler EXCEPT ![k].found = found, ![k].at = at, ![k].did = did]
    BY DEF Check
  <1>2. handler[k].at = "arrived" /\ UNCHANGED store
    BY DEF Check
  <1>3. handler[k] \in Handlers /\ handler \in [Call -> Handlers]
    BY DEF Typed
  <1>4. /\ found \in BOOLEAN /\ at \in {"answered", "acted", "checked"}
        /\ did \in {"not yet", "nothing", "done"}
    BY <1>3 DEF Handlers
  <1>5. /\ Act(op) \in {"delete"} => at = "checked"
        /\ Act(op) \in {"comment", "send"} => at = "acted"
        /\ Act(op) = "rename" => at = IF found THEN "checked" ELSE "acted"
        /\ Act(op) \notin Effects => at \in {"checked", "answered"}
    BY DEF Effects
  <1>6. /\ at = "acted" => did = IF found THEN "done" ELSE "nothing"
        /\ at # "acted" => did = handler[k].did
    OBVIOUS
  <1>7. found <=> (Act(op) \in {"send", "list", "walk"} \/ store[op.key] # Absent)
    OBVIOUS
  <1> HIDE DEF found, at, did
  <1>8. /\ h.op = op /\ h.own = handler[k].own /\ h.held = handler[k].held
        /\ h.found = found /\ h.at = at /\ h.did = did
    BY <1>3 DEF Handlers
  <1>9. h \in Handlers /\ handler' = [handler EXCEPT ![k] = h]
    <2>1. at \in Places
      BY <1>4 DEF Places
    <2>2. h \in Handlers
      BY <1>3, <1>4, <2>1 DEF Handlers
    <2> QED
      BY <1>1, <2>2
  <1> HIDE DEF h
  <1>10. handler'[k] = h /\ handler' \in [Call -> Handlers]
         /\ \A j \in Call \ {k} : handler'[j] = handler[j]
    BY <1>3, <1>8, <1>9
  <1> HIDE DEF op
  <1> QED
    BY <1>2, <1>4, <1>5, <1>6, <1>7, <1>8, <1>10 DEF op

LEMMA FetchGoes ==
  ASSUME Typed, NEW k \in Call, Fetch(k)
  PROVE  /\ handler[k].at = "checked" /\ Act(handler[k].op) \in {"read", "walk"}
         /\ Goes(k, "failed") \/ Goes(k, "answered")
         /\ UNCHANGED <<store, loop, history>>
  <1>1. PICK at \in {"failed", "answered"} : handler' = [handler EXCEPT ![k].at = at]
    BY DEF Fetch, Step
  <1>2. Goes(k, at)
    BY <1>1, StepGoes DEF Places
  <1> QED
    BY <1>2 DEF Fetch, service

LEMMA PopFacts ==
  ASSUME Typed, NEW k \in Call, Pop(k)
  PROVE  LET h == handler[k]
             g == handler'[k]
         IN /\ h.at = "checked" /\ Act(h.op) = "delete"
            /\ store' = [store EXCEPT ![h.op.key] = Absent]
            /\ g.at = "acted" /\ g.op = h.op /\ g.own = h.own /\ g.found = h.found
            /\ g.held = h.held
            /\ g.did = IF store[h.op.key] = Absent THEN "nothing" ELSE "done"
            /\ \A j \in Call \ {k} : handler'[j] = handler[j]
            /\ UNCHANGED <<loop, history>>
  <1> DEFINE did == IF store[handler[k].op.key] = Absent THEN "nothing" ELSE "done"
             h == [handler[k] EXCEPT !.at = "acted", !.did = did]
  <1>1. handler[k] \in Handlers /\ DOMAIN handler = Call
    BY DEF Typed
  <1>2. handler' = [handler EXCEPT ![k] = h]
    BY DEF Pop
  <1> HIDE DEF did
  <1>3. /\ h.at = "acted" /\ h.did = did /\ h.op = handler[k].op /\ h.own = handler[k].own
        /\ h.found = handler[k].found /\ h.held = handler[k].held
    BY <1>1 DEF Handlers
  <1>4. handler'[k] = h /\ \A j \in Call \ {k} : handler'[j] = handler[j]
    BY <1>1, <1>2
  <1> HIDE DEF h
  <1> QED
    BY <1>3, <1>4 DEF Pop, did

LEMMA TakeFacts ==
  ASSUME Typed, NEW k \in Call, Take(k)
  PROVE  LET h == handler[k]
             g == handler'[k]
         IN /\ h.at = "checked" /\ Act(h.op) = "rename" /\ UNCHANGED history
            /\ \/ store[h.op.key] = Absent /\ Goes(k, "failed") /\ UNCHANGED store
               \/ /\ store[h.op.key] # Absent /\ store' = [store EXCEPT ![h.op.key] = Absent]
                  /\ g.at = "taken" /\ g.op = h.op /\ g.own = h.own /\ g.found = h.found
                  /\ g.held = store[h.op.key] /\ g.did = "done"
                  /\ \A j \in Call \ {k} : handler'[j] = handler[j]
  <1>1. handler[k] \in Handlers /\ DOMAIN handler = Call
    BY DEF Typed
  <1>2. handler[k].at = "checked" /\ Act(handler[k].op) = "rename" /\ UNCHANGED history
    BY DEF Take
  <1>3. CASE store[handler[k].op.key] = Absent
    <2>1. Goes(k, "failed") /\ UNCHANGED store
      BY <1>3, StepGoes DEF Take, Step, Places
    <2> QED
      BY <1>2, <1>3, <2>1
  <1>4. CASE store[handler[k].op.key] # Absent
    <2> DEFINE file == store[handler[k].op.key]
               h == [handler[k] EXCEPT !.at = "taken", !.held = file, !.did = "done"]
    <2>1. /\ handler' = [handler EXCEPT ![k] = h]
          /\ store' = [store EXCEPT ![handler[k].op.key] = Absent]
      BY <1>4 DEF Take
    <2> HIDE DEF file
    <2>2. /\ h.at = "taken" /\ h.did = "done" /\ h.op = handler[k].op /\ h.own = handler[k].own
          /\ h.found = handler[k].found /\ h.held = file
      BY <1>1 DEF Handlers
    <2>3. handler'[k] = h /\ \A j \in Call \ {k} : handler'[j] = handler[j]
      BY <1>1, <2>1
    <2> HIDE DEF h
    <2> QED
      BY <1>2, <1>4, <2>1, <2>2, <2>3 DEF file
  <1> QED
    BY <1>3, <1>4

LEMMA PlaceFacts ==
  ASSUME Typed, NEW k \in Call, Place(k)
  PROVE  LET h == handler[k]
             g == handler'[k]
         IN /\ h.at = "taken" /\ store' = [store EXCEPT ![h.op.dest] = h.held]
            /\ g.at = "acted" /\ g.op = h.op /\ g.own = h.own /\ g.found = h.found
            /\ g.did = h.did
            /\ \A j \in Call \ {k} : handler'[j] = handler[j]
            /\ UNCHANGED <<loop, history>>
  <1> DEFINE h == [handler[k] EXCEPT !.at = "acted", !.held = Absent]
  <1>1. handler[k] \in Handlers /\ DOMAIN handler = Call
    BY DEF Typed
  <1>2. handler' = [handler EXCEPT ![k] = h]
    BY DEF Place
  <1>3. /\ h.at = "acted" /\ h.did = handler[k].did /\ h.op = handler[k].op
        /\ h.own = handler[k].own /\ h.found = handler[k].found
    BY <1>1 DEF Handlers
  <1>4. handler'[k] = h /\ \A j \in Call \ {k} : handler'[j] = handler[j]
    BY <1>1, <1>2
  <1> HIDE DEF h
  <1> QED
    BY <1>3, <1>4 DEF Place

LEMMA RecordGoes ==
  ASSUME Typed, NEW k \in Call, Record(k)
  PROVE  handler[k].at = "acted" /\ Goes(k, "answered") /\ UNCHANGED <<store, history>>
  BY StepGoes DEF Record, Step, Places

LEMMA ReceiveGoes ==
  ASSUME Typed, NEW c \in Client, Receive(c)
  PROVE  \E k \in Call : /\ \/ handler[k].at = "answered" /\ Goes(k, "claimed")
                            \/ handler[k].at = "failed" /\ Goes(k, "raised")
                         /\ UNCHANGED <<store, loop, history>>
  <1>1. PICK k \in Call : k = Current(c)
    BY CurrentCall DEF Receive
  <1>2. handler[k].at \in {"answered", "failed"} /\ UNCHANGED <<store, loop, history>>
    BY <1>1 DEF Receive, service
  <1>3. CASE handler[k].at = "answered"
    <2>1. handler' = [handler EXCEPT ![k].at = "claimed"]
      BY <1>1, <1>3 DEF Receive
    <2> QED
      BY <1>2, <1>3, <2>1, StepGoes DEF Places
  <1>4. CASE handler[k].at = "failed"
    <2>1. handler' = [handler EXCEPT ![k].at = "raised"]
      BY <1>1, <1>4 DEF Receive
    <2> QED
      BY <1>2, <1>4, <2>1, StepGoes DEF Places
  <1> QED
    BY <1>2, <1>3, <1>4

\* A fetch stays with its client's provider.
LEMMA FetchingGoes ==
  ASSUME Typed, NEW c \in Client, Reach(c) \/ Fetched(c) \/ KillServer(c)
  PROVE  \E k \in Call : \E at \in {"reached", "rejected", "fetched"} :
           /\ handler[k].at \in {"spawned", "reached"} /\ Goes(k, at)
           /\ UNCHANGED <<store, loop, history>>
  <1>1. PICK k \in Call : k = Current(c)
    BY CurrentCall DEF Reach, Fetched, KillServer
  <1>2. handler[k].at \in {"spawned", "reached"} /\ UNCHANGED <<store, loop, history>>
    BY <1>1 DEF Reach, Fetched, KillServer, Conclude, service
  <1>3. \E at \in {"reached", "rejected", "fetched"} : handler' = [handler EXCEPT ![k].at = at]
    BY <1>1 DEF Reach, Fetched, KillServer, Conclude
  <1> QED
    BY <1>2, <1>3, StepGoes DEF Places

LEMMA AskFacts ==
  ASSUME Typed, Numbered, NEW c \in Client, NEW op \in Operation, Ask(c, op)
  PROVE  \E k \in Call :
           /\ handler[k].at = "unasked" /\ handler'[k].at \in {"refused", "spawned", "arrived"}
           /\ handler'[k].own => ~Resetting(handler'[k].op.service)
           /\ \A j \in Call \ {k} : handler'[j] = handler[j]
           /\ handler' \in [Call -> Handlers]
           /\ handler'[k].did = "not yet"
           /\ UNCHANGED <<store, loop, history>>
  <1>1. PICK k \in Call : /\ k = <<c, calls[c] + 1>>
                          /\ handler[k].at = "unasked" /\ AskedShape(c, k)
    BY NewCall
  <1>2. UNCHANGED <<store, loop, history>>
    BY DEF Ask, service
  <1> DEFINE Enter(at) == [Unasked EXCEPT !.op = op, !.at = at]
             Own(own) == [Enter("arrived") EXCEPT !.own = own]
  <1>3. \/ \E at \in {"refused", "spawned"} : handler' = [handler EXCEPT ![k] = Enter(at)]
        \/ handler' = [handler EXCEPT ![k] = Own(~Resetting(op.service))]
    BY <1>1 DEF Ask
  <1>4. ASSUME NEW at \in Places
        PROVE  Enter(at).did = "not yet" /\ Enter(at).own = FALSE /\ Enter(at).op = op
    BY DEF Unasked
  <1>5. ASSUME NEW own \in BOOLEAN
        PROVE  Own(own).did = "not yet" /\ Own(own).own = own /\ Own(own).op = op
    BY DEF Unasked
  <1>6. handler'[k].did = "not yet" /\ (handler'[k].own => ~Resetting(handler'[k].op.service))
    <2>1. ASSUME NEW at \in {"refused", "spawned"}, handler' = [handler EXCEPT ![k] = Enter(at)]
          PROVE  handler'[k].did = "not yet" /\ handler'[k].own = FALSE
      <3> HIDE DEF Enter
      <3>1. handler'[k] = Enter(at)
        BY <2>1 DEF Typed
      <3> QED
        BY <1>4, <3>1 DEF Places
    <2>2. ASSUME handler' = [handler EXCEPT ![k] = Own(~Resetting(op.service))]
          PROVE  /\ handler'[k].did = "not yet" /\ handler'[k].op = op
                 /\ handler'[k].own = ~Resetting(op.service)
      <3>0. (~Resetting(op.service)) \in BOOLEAN
        BY DEF Resetting
      <3> HIDE DEF Own
      <3>1. handler'[k] = Own(~Resetting(op.service))
        BY <2>2 DEF Typed
      <3> QED
        BY <1>5, <3>0, <3>1
    <2> QED
      BY <1>3, <2>1, <2>2
  <1> QED
    BY <1>1, <1>2, <1>6 DEF AskedShape

LEMMA ClearFacts ==
  ASSUME Typed, NEW s \in Service, ClearRecorder(s)
  PROVE  /\ loop[s] = "free" /\ loop' = [loop EXCEPT ![s] = "reset"]
         /\ \A k \in Call :
              /\ handler'[k].at = handler[k].at /\ handler'[k].op = handler[k].op
              /\ handler'[k].found = handler[k].found /\ handler'[k].did = handler[k].did
              /\ handler'[k].held = handler[k].held
              /\ OfService(k, s) => handler'[k].own = FALSE
              /\ ~OfService(k, s) => handler'[k] = handler[k]
         /\ UNCHANGED <<store, history>>
  <1>1. ASSUME NEW k \in Call
        PROVE  LET h == Disown(s)[k]
               IN /\ h.at = handler[k].at /\ h.op = handler[k].op
                  /\ h.found = handler[k].found /\ h.did = handler[k].did
                  /\ h.held = handler[k].held
                  /\ OfService(k, s) => h.own = FALSE
                  /\ ~OfService(k, s) => h = handler[k]
    <2>1. handler[k] \in Handlers
      BY DEF Typed
    <2>2. CASE OfService(k, s)
      <3>1. Disown(s)[k] = [handler[k] EXCEPT !.own = FALSE]
        BY <2>2 DEF Disown
      <3> QED
        BY <2>1, <2>2, <3>1 DEF Handlers
    <2>3. CASE ~OfService(k, s)
      BY <2>3 DEF Disown
    <2> QED
      BY <2>2, <2>3
  <1> QED
    BY <1>1 DEF ClearRecorder, Free

-----------------------------------------------------------------------------
(* How an operation's finding, its deed and its record stay in step.        *)

\* What a service did since its reset is not mixed up, and it is not being reset.
Calm(s) == ~late[s] /\ ~contended[s] /\ ~Resetting(s)

\* What a handler has done by where it is.
CourseOf(k) ==
  /\ handler[k].at \notin {"taken", "acted", "answered", "failed", "claimed", "raised"} =>
       handler[k].did = "not yet"
  /\ handler[k].at = "checked" /\ Act(handler[k].op) = "rename" => Found(k)
  /\ handler[k].at = "taken" => Act(handler[k].op) = "rename" /\ Found(k) /\ Changed(k)
  /\ handler[k].at \in {"acted", "answered", "claimed"} /\ Act(handler[k].op) \in Effects =>
       handler[k].did # "not yet"

Course == \A k \in Call : CourseOf(k)

\* During a reset nothing belongs to a run.
Disowned ==
  \A s \in Service : Resetting(s) => \A k \in Call : OfService(k, s) => ~handler[k].own

\* In a calm service the handlers have their keys to themselves.
Apart ==
  \A s \in Service : Calm(s) =>
    \A j, k \in Call : /\ OfService(j, s) /\ Working(j)
                       /\ OfService(k, s) /\ Working(k) /\ j # k
                       => Touches(j) \cap Touches(k) = {}

\* So what the test found is still so when the operation acts on it, and is
\* what the operation did.
Agrees(k) ==
  /\ handler[k].at = "checked" /\ Act(handler[k].op) \in {"delete", "rename"} =>
       (Found(k) <=> store[handler[k].op.key] # Absent)
  /\ handler[k].at \in {"acted", "answered", "claimed"} /\ Act(handler[k].op) \in Effects =>
       (Found(k) <=> Changed(k))

Agreed ==
  \A s \in Service : Calm(s) =>
    \A k \in Call : OfService(k, s) /\ handler[k].own => Agrees(k)

LEMMA CourseStep ==
  ASSUME Course, NEW k \in Call, \A j \in Call \ {k} : handler'[j] = handler[j], CourseOf(k)'
  PROVE  Course'
  <1>1. \A j \in Call \ {k} : CourseOf(j)'
    BY DEF Course, CourseOf, Found, Changed
  <1> QED
    BY <1>1 DEF Course

LEMMA CourseNext == SInv /\ Course /\ [Next]_vars => Course'
  <1> SUFFICES ASSUME SInv, Course, [Next]_vars
               PROVE  Course'
    OBVIOUS
  <1>0. Typed /\ Numbered
    BY DEF SInv
  <1>1. ASSUME NEW c \in Client, NEW op \in Operation, Ask(c, op)
        PROVE  Course'
    <2>1. PICK k \in Call : /\ handler'[k].at \in {"refused", "spawned", "arrived"}
                            /\ handler'[k].did = "not yet"
                            /\ \A j \in Call \ {k} : handler'[j] = handler[j]
      BY <1>0, <1>1, AskFacts
    <2>2. CourseOf(k)'
      BY <2>1 DEF Course, CourseOf, Found, Changed
    <2> QED
      BY <2>1, <2>2, CourseStep
  <1>2. ASSUME NEW c \in Client, Receive(c)
        PROVE  Course'
    <2>1. PICK k \in Call : \/ handler[k].at = "answered" /\ Goes(k, "claimed")
                            \/ handler[k].at = "failed" /\ Goes(k, "raised")
      BY <1>0, <1>2, ReceiveGoes
    <2>2. CourseOf(k)'
      BY <2>1 DEF Goes, Course, CourseOf, Found, Changed
    <2> QED
      BY <2>1, <2>2, CourseStep DEF Goes
  <1>3. ASSUME NEW c \in Client, GiveUp(c)
        PROVE  Course'
    BY <1>3 DEF GiveUp, Course, CourseOf, Found, Changed
  <1>4. ASSUME NEW c \in Client, Reach(c) \/ Fetched(c) \/ KillServer(c)
        PROVE  Course'
    <2>1. PICK k \in Call : \E at \in {"reached", "rejected", "fetched"} :
            handler[k].at \in {"spawned", "reached"} /\ Goes(k, at)
      BY <1>0, <1>4, FetchingGoes
    <2>2. CourseOf(k)'
      BY <2>1 DEF Goes, Course, CourseOf, Found, Changed
    <2> QED
      BY <2>1, <2>2, CourseStep DEF Goes
  <1>5. ASSUME NEW k \in Call, Serve(k)
        PROVE  Course'
    <2>1. CASE Check(k)
      <3>1. ASSUME NEW h, h = handler'[k]
            PROVE  /\ h.at \notin {"taken", "answered", "failed", "claimed", "raised", "acted"}
                        => h.did = "not yet"
                   /\ h.at = "checked" /\ Act(h.op) = "rename" => h.found
                   /\ h.at # "taken"
                   /\ h.at \in {"acted", "answered", "claimed"} /\ Act(h.op) \in Effects
                        => h.did # "not yet"
        <4>1. handler[k].did = "not yet"
          BY <1>0, <2>1, CheckFacts DEF Course, CourseOf
        <4>2. /\ h.at \in {"checked", "acted", "answered"} /\ h.op = handler[k].op
              /\ Act(h.op) \in {"delete", "comment", "send", "rename"} => h.at # "answered"
              /\ Act(h.op) = "rename" => h.at = IF h.found THEN "checked" ELSE "acted"
          BY <1>0, <2>1, <3>1, CheckFacts
        <4>3. /\ h.at = "acted" => h.did \in {"done", "nothing"}
              /\ h.at # "acted" => h.did = "not yet"
          BY <1>0, <2>1, <3>1, <4>1, CheckFacts
        <4> QED
          BY <4>2, <4>3 DEF Effects
      <3>2. \A j \in Call \ {k} : handler'[j] = handler[j]
        BY <1>0, <2>1, CheckFacts
      <3>3. CourseOf(k)'
        BY <3>1, <3>2 DEF Course, CourseOf, Found, Changed
      <3> QED
        BY <3>1, <3>2, <3>3, CourseStep
    <2>2. CASE Fetch(k)
      <3>1. /\ Act(handler[k].op) \in {"read", "walk"} /\ handler[k].at = "checked"
            /\ Goes(k, "failed") \/ Goes(k, "answered")
        BY <1>0, <2>2, FetchGoes
      <3>2. \A op : Act(op) \in {"read", "walk"} => Act(op) \notin Effects
        BY DEF Effects
      <3>3. Act(handler[k].op) \notin Effects
        BY <3>1, <3>2
      <3>4. CourseOf(k)'
        BY <3>1, <3>3 DEF Goes, Course, CourseOf, Found, Changed
      <3> QED
        BY <3>1, <3>3, <3>4, CourseStep DEF Goes
    <2>3. CASE Pop(k)
      <3>1. /\ handler'[k].at = "acted" /\ handler'[k].did \in {"nothing", "done"}
            /\ \A j \in Call \ {k} : handler'[j] = handler[j]
        BY <1>0, <2>3, PopFacts
      <3>2. CourseOf(k)'
        BY <3>1 DEF Course, CourseOf, Found, Changed
      <3> QED
        BY <3>1, <3>2, CourseStep
    <2>4. CASE Take(k)
      <3>1. /\ handler[k].at = "checked" /\ Act(handler[k].op) = "rename"
            /\ \/ Goes(k, "failed")
               \/ /\ handler'[k].at = "taken" /\ handler'[k].op = handler[k].op
                  /\ handler'[k].found = handler[k].found /\ handler'[k].did = "done"
                  /\ \A j \in Call \ {k} : handler'[j] = handler[j]
        BY <1>0, <2>4, TakeFacts
      <3>2. CourseOf(k)'
        BY <3>1 DEF Goes, Course, CourseOf, Found, Changed
      <3> QED
        BY <3>1, <3>2, CourseStep DEF Goes
    <2>5. CASE Place(k)
      <3>1. /\ handler[k].at = "taken" /\ handler'[k].at = "acted"
            /\ handler'[k].did = handler[k].did
            /\ \A j \in Call \ {k} : handler'[j] = handler[j]
        BY <1>0, <2>5, PlaceFacts
      <3>2. CourseOf(k)'
        BY <3>1 DEF Course, CourseOf, Found, Changed
      <3> QED
        BY <3>1, <3>2, CourseStep
    <2>6. CASE Record(k)
      <3>1. handler[k].at = "acted" /\ Goes(k, "answered")
        BY <1>0, <2>6, RecordGoes
      <3>2. CourseOf(k)'
        BY <3>1 DEF Goes, Course, CourseOf, Found, Changed
      <3> QED
        BY <3>1, <3>2, CourseStep DEF Goes
    <2> QED
      BY <1>5, <2>1, <2>2, <2>3, <2>4, <2>5, <2>6 DEF Serve
  <1>6. ASSUME NEW s \in Service, ClearRecorder(s)
        PROVE  Course'
    <2>1. \A k \in Call : /\ handler'[k].at = handler[k].at /\ handler'[k].op = handler[k].op
                          /\ handler'[k].found = handler[k].found
                          /\ handler'[k].did = handler[k].did
      BY <1>0, <1>6, ClearFacts
    <2>2. ASSUME NEW k \in Call
          PROVE  CourseOf(k)'
      BY <2>1 DEF Course, CourseOf, Found, Changed
    <2> QED
      BY <2>2 DEF Course
  <1>7. ASSUME NEW s \in Service, Reseed(s)
        PROVE  Course'
    BY <1>7 DEF Reseed, Course, CourseOf, Found, Changed
  <1>8. CASE UNCHANGED vars
    BY <1>8 DEF vars, Course, CourseOf, Found, Changed
  <1> QED
    BY <1>1, <1>2, <1>3, <1>4, <1>5, <1>6, <1>7, <1>8 DEF Next

\* Where a handler is in its service, as a step of it leaves it.
LEMMA ServeBrief ==
  ASSUME SInv, NEW k \in Call, Serve(k)
  PROVE  /\ handler'[k].op = handler[k].op /\ handler'[k].own = handler[k].own
         /\ \A j \in Call \ {k} : handler'[j] = handler[j]
         /\ \A s \in Service : Resetting(s)' <=> Resetting(s)
         /\ late' = late
  <1>1. ServedShape(k) /\ \A s \in Service : Resetting(s)' <=> Resetting(s)
    BY ServeShape, ServeExclusive DEF SInv, Resetting
  <1>2. late' = late
    BY DEF Serve, Check, Fetch, Pop, Take, Place, Record, history
  <1> QED
    BY <1>1, <1>2 DEF ServedShape, Moves

\* Only a reset calms a service.
LEMMA CalmBefore ==
  ASSUME SInv, [Next]_vars, NEW s \in Service, Calm(s)', ~Reseed(s)
  PROVE  Calm(s)
  <1>1. ASSUME NEW k \in Call, Serve(k)
        PROVE  Calm(s)
    <2>1. late' = late /\ (Resetting(s)' <=> Resetting(s))
      BY <1>1, ServeBrief
    <2>2. contended[s] => contended'[s]
      <3>1. CASE Check(k)
        BY <3>1 DEF Check, SInv, Kept
      <3>2. CASE ~Check(k)
        BY <1>1, <3>2 DEF Serve, Fetch, Pop, Take, Place, Record, history
      <3> QED
        BY <3>1, <3>2
    <2> QED
      BY <2>1, <2>2 DEF Calm
  <1>2. ASSUME NEW c \in Client,
               (\E op \in Operation : Ask(c, op)) \/ Receive(c) \/ GiveUp(c)
               \/ Reach(c) \/ Fetched(c) \/ KillServer(c)
        PROVE  Calm(s)
    <2>1. UNCHANGED <<loop, late, contended>>
      BY <1>2 DEF Ask, Receive, GiveUp, Reach, Fetched, KillServer, Conclude, service, history
    <2> QED
      BY <2>1 DEF Calm, Resetting
  <1>3. ASSUME NEW t \in Service, ClearRecorder(t)
        PROVE  Calm(s)
    <2>1. loop[t] = "free" /\ loop' = [loop EXCEPT ![t] = "reset"] /\ UNCHANGED <<late, contended>>
      BY <1>3 DEF ClearRecorder, Free, history
    <2> QED
      BY <2>1 DEF SInv, Exclusive, Calm, Resetting
  <1>4. ASSUME NEW t \in Service, Reseed(t), t # s
        PROVE  Calm(s)
    BY <1>4 DEF Reseed, Calm, Resetting, SInv, Exclusive, Kept
  <1>5. CASE UNCHANGED vars
    BY <1>5 DEF vars, service, history, Calm, Resetting
  <1> QED
    BY <1>1, <1>2, <1>3, <1>4, <1>5 DEF Next

LEMMA DisownedNext == SInv /\ Disowned /\ [Next]_vars => Disowned'
  <1> SUFFICES ASSUME SInv, Disowned, [Next]_vars
               PROVE  Disowned'
    OBVIOUS
  <1>0. Typed /\ Numbered
    BY DEF SInv
  <1>1. ASSUME NEW c \in Client, NEW op \in Operation, Ask(c, op)
        PROVE  Disowned'
    <2>1. PICK k \in Call : /\ handler'[k].own => ~Resetting(handler'[k].op.service)
                            /\ \A j \in Call \ {k} : handler'[j] = handler[j]
                            /\ UNCHANGED loop
      BY <1>0, <1>1, AskFacts
    <2> QED
      BY <2>1 DEF Disowned, Resetting, OfService
  <1>2. ASSUME NEW c \in Client, Receive(c)
        PROVE  Disowned'
    <2>1. PICK k \in Call : /\ handler'[k].own = handler[k].own /\ handler'[k].op = handler[k].op
                            /\ \A j \in Call \ {k} : handler'[j] = handler[j]
                            /\ UNCHANGED loop
      BY <1>0, <1>2, ReceiveGoes DEF Goes
    <2> QED
      BY <2>1 DEF Disowned, Resetting, OfService
  <1>3. ASSUME NEW c \in Client, GiveUp(c)
        PROVE  Disowned'
    BY <1>3 DEF GiveUp, service, Disowned, Resetting, OfService
  <1>4. ASSUME NEW c \in Client, Reach(c) \/ Fetched(c) \/ KillServer(c)
        PROVE  Disowned'
    <2>1. PICK k \in Call : /\ handler'[k].own = handler[k].own /\ handler'[k].op = handler[k].op
                            /\ \A j \in Call \ {k} : handler'[j] = handler[j]
                            /\ UNCHANGED loop
      BY <1>0, <1>4, FetchingGoes DEF Goes
    <2> QED
      BY <2>1 DEF Disowned, Resetting, OfService
  <1>5. ASSUME NEW k \in Call, Serve(k)
        PROVE  Disowned'
    BY <1>5, ServeBrief DEF Disowned, OfService
  <1>6. ASSUME NEW s \in Service, ClearRecorder(s)
        PROVE  Disowned'
    <2>1. /\ loop' = [loop EXCEPT ![s] = "reset"]
          /\ \A k \in Call : /\ handler'[k].op = handler[k].op
                             /\ OfService(k, s) => handler'[k].own = FALSE
                             /\ ~OfService(k, s) => handler'[k] = handler[k]
      BY <1>0, <1>6, ClearFacts
    <2>2. \A t \in Service \ {s} : Resetting(t)' => Resetting(t)
      BY <2>1 DEF Resetting, SInv, Exclusive
    <2>3. ASSUME NEW t \in Service, Resetting(t)', NEW k \in Call, OfService(k, t)'
          PROVE  ~handler'[k].own
      <3>1. OfService(k, t)
        BY <2>1, <2>3 DEF OfService
      <3>2. CASE OfService(k, s)
        BY <2>1, <3>2
      <3>3. CASE ~OfService(k, s)
        <4>1. t # s /\ handler'[k] = handler[k]
          BY <2>1, <3>1, <3>3
        <4> QED
          BY <2>2, <2>3, <3>1, <4>1 DEF Disowned
      <3> QED
        BY <3>2, <3>3
    <2> QED
      BY <2>3 DEF Disowned
  <1>7. ASSUME NEW s \in Service, Reseed(s)
        PROVE  Disowned'
    BY <1>7 DEF Reseed, Disowned, Resetting, OfService, SInv, Exclusive
  <1>8. CASE UNCHANGED vars
    BY <1>8 DEF vars, service, Disowned, Resetting, OfService
  <1> QED
    BY <1>1, <1>2, <1>3, <1>4, <1>5, <1>6, <1>7, <1>8 DEF Next

-----------------------------------------------------------------------------
(* The handlers of a calm service stay apart.                               *)

\* Nothing new is at work, for services that were calm.
LEMMA ApartKept ==
  ASSUME Apart, \A k \in Call : Working(k)' => Working(k) /\ handler'[k].op = handler[k].op,
         NEW s \in Service, Calm(s)
  PROVE  \A j, k \in Call : /\ OfService(j, s)' /\ Working(j)'
                            /\ OfService(k, s)' /\ Working(k)' /\ j # k
                            => Touches(j)' \cap Touches(k)' = {}
  BY DEF Apart, OfService, Touches

\* A handler that begins to work met none, or the service is not calm.
LEMMA CheckApart ==
  ASSUME SInv, Apart, NEW k \in Call, Check(k), NEW s \in Service, Calm(s)', Calm(s)
  PROVE  \A i, j \in Call : /\ OfService(i, s)' /\ Working(i)'
                            /\ OfService(j, s)' /\ Working(j)' /\ i # j
                            => Touches(i)' \cap Touches(j)' = {}
  <1>1. /\ \A j \in Call \ {k} : handler'[j] = handler[j]
        /\ handler'[k].op = handler[k].op
    BY CheckFacts DEF SInv
  <1>2. \A j \in Call : /\ OfService(j, s)' <=> OfService(j, s)
                        /\ Touches(j)' = Touches(j)
    BY <1>1 DEF OfService, Touches
  <1>3. \A j \in Call \ {k} : Working(j)' <=> Working(j)
    BY <1>1 DEF Working
  <1>4. CASE OfService(k, s)
    <2>1. ~Meets(k)
      BY <1>4 DEF Check, OfService, SInv, Kept, Calm
    <2>2. \A j \in Call \ {k} : Working(j) => Touches(j) \cap Touches(k) = {}
      BY <2>1 DEF Meets
    <2> QED
      BY <1>2, <1>3, <2>2 DEF Apart
  <1>5. CASE ~OfService(k, s)
    BY <1>2, <1>3, <1>5 DEF Apart
  <1> QED
    BY <1>4, <1>5

LEMMA NothingNew ==
  ASSUME SInv, [Next]_vars, \A k \in Call : ~Check(k)
  PROVE  \A k \in Call : Working(k)' => Working(k) /\ handler'[k].op = handler[k].op
  <1>0. Typed /\ Numbered
    BY DEF SInv
  <1>1. ASSUME NEW c \in Client, NEW op \in Operation, Ask(c, op)
        PROVE  \A k \in Call : Working(k)' => Working(k) /\ handler'[k].op = handler[k].op
    <2>1. PICK k \in Call : /\ handler'[k].at \in {"refused", "spawned", "arrived"}
                            /\ \A j \in Call \ {k} : handler'[j] = handler[j]
      BY <1>0, <1>1, AskFacts
    <2> QED
      BY <2>1 DEF Working
  <1>2. ASSUME NEW c \in Client, Receive(c)
        PROVE  \A k \in Call : Working(k)' => Working(k) /\ handler'[k].op = handler[k].op
    <2>1. PICK k \in Call : Goes(k, "claimed") \/ Goes(k, "raised")
      BY <1>0, <1>2, ReceiveGoes
    <2> QED
      BY <2>1 DEF Goes, Working
  <1>3. ASSUME NEW c \in Client, GiveUp(c)
        PROVE  \A k \in Call : Working(k)' => Working(k) /\ handler'[k].op = handler[k].op
    BY <1>3 DEF GiveUp, Working
  <1>4. ASSUME NEW c \in Client, Reach(c) \/ Fetched(c) \/ KillServer(c)
        PROVE  \A k \in Call : Working(k)' => Working(k) /\ handler'[k].op = handler[k].op
    <2>1. PICK k \in Call : \E at \in {"reached", "rejected", "fetched"} : Goes(k, at)
      BY <1>0, <1>4, FetchingGoes
    <2> QED
      BY <2>1 DEF Goes, Working
  <1>5. ASSUME NEW k \in Call, Serve(k)
        PROVE  \A j \in Call : Working(j)' => Working(j) /\ handler'[j].op = handler[j].op
    <2>1. handler[k].at \in {"checked", "taken", "acted"}
      BY <1>5 DEF Serve, Fetch, Pop, Take, Place, Record
    <2> QED
      BY <1>5, <2>1, ServeBrief DEF Working
  <1>6. ASSUME NEW s \in Service, ClearRecorder(s)
        PROVE  \A k \in Call : Working(k)' => Working(k) /\ handler'[k].op = handler[k].op
    BY <1>0, <1>6, ClearFacts DEF Working
  <1>7. ASSUME NEW s \in Service, Reseed(s)
        PROVE  \A k \in Call : Working(k)' => Working(k) /\ handler'[k].op = handler[k].op
    BY <1>7 DEF Reseed, Working
  <1>8. CASE UNCHANGED vars
    BY <1>8 DEF vars, Working
  <1> QED
    BY <1>1, <1>2, <1>3, <1>4, <1>5, <1>6, <1>7, <1>8 DEF Next

\* What a reset leaves calm has nobody at work.
LEMMA ReseedCalms ==
  ASSUME SInv, NEW s \in Service, Reseed(s), ~late'[s]
  PROVE  \A k \in Call : OfService(k, s) => ~Pending(k) /\ ~Working(k)
  BY DEF Reseed, SInv, Kept, Pending

LEMMA ApartNext == SInv /\ Apart /\ [Next]_vars => Apart'
  <1> SUFFICES ASSUME SInv, Apart, [Next]_vars, NEW s \in Service, Calm(s)'
               PROVE  \A j, k \in Call : /\ OfService(j, s)' /\ Working(j)'
                                         /\ OfService(k, s)' /\ Working(k)' /\ j # k
                                         => Touches(j)' \cap Touches(k)' = {}
    BY DEF Apart
  <1>1. CASE Reseed(s)
    <2>1. \A k \in Call : OfService(k, s) => ~Working(k)
      BY <1>1, ReseedCalms DEF Calm
    <2>2. handler' = handler
      BY <1>1 DEF Reseed
    <2> QED
      BY <2>1, <2>2 DEF OfService, Working
  <1>2. CASE ~Reseed(s)
    <2>1. Calm(s)
      BY <1>2, CalmBefore
    <2>2. CASE \E k \in Call : Check(k)
      BY <2>1, <2>2, CheckApart
    <2>3. CASE \A k \in Call : ~Check(k)
      BY <2>1, <2>3, NothingNew, ApartKept
    <2> QED
      BY <2>2, <2>3
  <1> QED
    BY <1>1, <1>2

-----------------------------------------------------------------------------
(* What a handler found stays true while its service is calm.               *)

\* A handler leaves the key that another one has looked up alone.
LEMMA LeavesAlone ==
  ASSUME SInv, Apart, NEW j \in Call, NEW k \in Call, j # k, Working(j), Working(k),
         Act(handler[j].op) \in {"delete", "rename"}, Act(handler[k].op) \in {"delete", "rename"},
         Calm(handler[j].op.service)
  PROVE  /\ handler[j].op.key # handler[k].op.key
         /\ Act(handler[k].op) = "rename" => handler[j].op.key # handler[k].op.dest
  <1> DEFINE mine == handler[j].op
             other == handler[k].op
  <1>1. /\ mine.service \in Service /\ mine.key # Absent /\ mine.key \in Held[mine.service]
        /\ other.service \in Service /\ other.key # Absent /\ other.key \in Held[other.service]
        /\ Act(other) = "rename" => other.dest # Absent /\ other.dest \in Held[other.service]
    BY Reaches DEF SInv
  <1>2. CASE mine.service = other.service
    <2>1. Touches(j) \cap Touches(k) = {}
      BY <1>1, <1>2 DEF Apart, OfService
    <2> QED
      BY <1>1, <2>1 DEF Touches
  <1>3. CASE mine.service # other.service
    <2>1. Held[mine.service] \cap Held[other.service] = {}
      BY <1>1, <1>3, StoresAssumption DEF StoresAssumption
    <2> QED
      BY <1>1, <2>1
  <1> QED
    BY <1>2, <1>3

LEMMA AgreesSame ==
  ASSUME NEW k \in Call, Agrees(k), handler'[k] = handler[k],
         handler[k].at = "checked" /\ Act(handler[k].op) \in {"delete", "rename"} =>
           store'[handler[k].op.key] = store[handler[k].op.key]
  PROVE  Agrees(k)'
  BY DEF Agrees, Found, Changed

\* The step of a handler, as the others of its service find it.
LEMMA OthersAgree ==
  ASSUME SInv, Course, Apart, Agreed, NEW k \in Call, Serve(k),
         NEW j \in Call \ {k}, handler[j].op.service \in Service,
         Calm(handler[j].op.service), handler[j].own
  PROVE  Agrees(j)'
  <1>0. Typed
    BY DEF SInv
  <1>1. handler'[j] = handler[j] /\ Agrees(j)
    BY ServeBrief DEF Agreed, OfService
  <1>2. CASE ~(handler[j].at = "checked" /\ Act(handler[j].op) \in {"delete", "rename"})
    BY <1>1, <1>2, AgreesSame
  <1>3. CASE handler[j].at = "checked" /\ Act(handler[j].op) \in {"delete", "rename"}
    <2> DEFINE key == handler[j].op.key
    <2>1. Working(j) /\ key \in Key
      BY <1>0, <1>3, Reaches DEF Working
    <2> HIDE DEF key
    <2>2. CASE Check(k) \/ Fetch(k) \/ Record(k)
      <3>1. store' = store
        BY <1>0, <2>2, CheckFacts, FetchGoes, RecordGoes
      <3> QED
        BY <1>1, <3>1, AgreesSame DEF key
    <2>3. CASE Pop(k)
      <3>1. /\ handler[k].at = "checked" /\ Act(handler[k].op) = "delete"
            /\ store' = [store EXCEPT ![handler[k].op.key] = Absent]
        BY <1>0, <2>3, PopFacts
      <3>2. key # handler[k].op.key
        BY <1>3, <2>1, <3>1, LeavesAlone DEF Working, key
      <3>3. store'[key] = store[key]
        BY <1>0, <2>1, <3>1, <3>2 DEF Typed
      <3> QED
        BY <1>1, <3>3, AgreesSame DEF key
    <2>4. CASE Take(k)
      <3>1. /\ handler[k].at = "checked" /\ Act(handler[k].op) = "rename"
            /\ store' = store \/ store' = [store EXCEPT ![handler[k].op.key] = Absent]
        BY <1>0, <2>4, TakeFacts
      <3>2. key # handler[k].op.key
        BY <1>3, <2>1, <3>1, LeavesAlone DEF Working, key
      <3>3. store'[key] = store[key]
        BY <1>0, <2>1, <3>1, <3>2 DEF Typed
      <3> QED
        BY <1>1, <3>3, AgreesSame DEF key
    <2>5. CASE Place(k)
      <3>1. /\ handler[k].at = "taken"
            /\ store' = [store EXCEPT ![handler[k].op.dest] = handler[k].held]
        BY <1>0, <2>5, PlaceFacts
      <3>2. Act(handler[k].op) = "rename"
        BY <3>1 DEF Course, CourseOf
      <3>3. key # handler[k].op.dest
        BY <1>3, <2>1, <3>1, <3>2, LeavesAlone DEF Working, key
      <3>4. store'[key] = store[key]
        BY <1>0, <2>1, <3>1, <3>3 DEF Typed
      <3> QED
        BY <1>1, <3>4, AgreesSame DEF key
    <2> QED
      BY <2>2, <2>3, <2>4, <2>5 DEF Serve
  <1> QED
    BY <1>2, <1>3

\* And as it leaves itself.
LEMMA SelfAgrees ==
  ASSUME SInv, Course, NEW k \in Call, Serve(k), Agrees(k)
  PROVE  Agrees(k)'
  <1>0. Typed
    BY DEF SInv
  <1> DEFINE op == handler[k].op
             g == handler'[k]
  <1>1. CASE Check(k)
    <2>1. /\ g.op = op /\ store' = store /\ g.at \in {"checked", "acted", "answered"}
          /\ g.found <=> (Act(op) \in {"send", "list", "walk"} \/ store[op.key] # Absent)
          /\ g.at = "acted" => g.did = IF g.found THEN "done" ELSE "nothing"
          /\ g.at = "answered" => Act(op) \notin Effects
      BY <1>0, <1>1, CheckFacts DEF Effects
    <2> HIDE DEF g, op
    <2>2. g.at = "acted" => (g.found <=> g.did = "done")
      BY <2>1
    <2>3. g.at = "checked" /\ Act(op) \in {"delete", "rename"} =>
            (g.found <=> store'[op.key] # Absent)
      BY <2>1
    <2> QED
      BY <2>1, <2>2, <2>3 DEF Agrees, Found, Changed, g
  <1>2. CASE Fetch(k)
    <2>1. Act(op) \in {"read", "walk"} /\ g.op = op
      BY <1>0, <1>2, FetchGoes DEF Goes
    <2>2. Act(op) \notin Effects /\ Act(op) \notin {"delete", "rename"}
      BY <2>1 DEF Effects
    <2> QED
      BY <2>1, <2>2 DEF Agrees
  <1>3. CASE Pop(k)
    <2>1. /\ handler[k].at = "checked" /\ Act(op) = "delete" /\ g.op = op
          /\ g.at = "acted" /\ g.found = handler[k].found
          /\ g.did = IF store[op.key] = Absent THEN "nothing" ELSE "done"
      BY <1>0, <1>3, PopFacts
    <2>2. handler[k].found <=> store[op.key] # Absent
      BY <2>1 DEF Agrees, Found
    <2> QED
      BY <2>1, <2>2 DEF Agrees, Found, Changed
  <1>4. CASE Take(k)
    <2>1. g.at \in {"failed", "taken"}
      BY <1>0, <1>4, TakeFacts DEF Goes
    <2> QED
      BY <2>1 DEF Agrees
  <1>5. CASE Place(k)
    <2>1. /\ handler[k].at = "taken" /\ g.at = "acted" /\ g.found = handler[k].found
          /\ g.did = handler[k].did
      BY <1>0, <1>5, PlaceFacts
    <2> QED
      BY <2>1 DEF Agrees, Course, CourseOf, Found, Changed
  <1>6. CASE Record(k)
    <2>1. /\ handler[k].at = "acted" /\ g.at = "answered" /\ g.op = op
          /\ g.found = handler[k].found /\ g.did = handler[k].did
      BY <1>0, <1>6, RecordGoes DEF Goes
    <2> QED
      BY <2>1 DEF Agrees, Found, Changed
  <1> QED
    BY <1>1, <1>2, <1>3, <1>4, <1>5, <1>6 DEF Serve

LEMMA AgreedNext ==
  SInv /\ Course /\ Disowned /\ Apart /\ Agreed /\ [Next]_vars => Agreed'
  <1> SUFFICES ASSUME SInv, Course, Disowned, Apart, Agreed, [Next]_vars,
                      NEW s \in Service, Calm(s)',
                      NEW j \in Call, OfService(j, s)', handler'[j].own
               PROVE  Agrees(j)'
    BY DEF Agreed
  <1>0. Typed /\ Numbered
    BY DEF SInv
  <1>1. CASE Reseed(s)
    BY <1>1 DEF Reseed, Disowned, OfService
  <1> SUFFICES ASSUME Calm(s)
               PROVE  Agrees(j)'
    BY <1>1, CalmBefore
  <1>2. ASSUME NEW c \in Client, NEW op \in Operation, Ask(c, op)
        PROVE  Agrees(j)'
    <2>1. PICK k \in Call : /\ handler'[k].at \in {"refused", "spawned", "arrived"}
                            /\ \A i \in Call \ {k} : handler'[i] = handler[i]
                            /\ store' = store
      BY <1>0, <1>2, AskFacts
    <2>2. CASE j = k
      BY <2>1, <2>2 DEF Agrees
    <2>3. CASE j # k
      <3>1. handler'[j] = handler[j] /\ Agrees(j)
        BY <2>1, <2>3 DEF Agreed, OfService
      <3> QED
        BY <2>1, <3>1, AgreesSame
    <2> QED
      BY <2>2, <2>3
  <1>3. ASSUME NEW c \in Client, Receive(c)
        PROVE  Agrees(j)'
    <2>1. PICK k \in Call : /\ \/ handler[k].at = "answered" /\ Goes(k, "claimed")
                               \/ handler[k].at = "failed" /\ Goes(k, "raised")
                            /\ store' = store
      BY <1>0, <1>3, ReceiveGoes
    <2>2. Agrees(j)
      BY <2>1 DEF Goes, Agreed, OfService
    <2>3. CASE j = k
      BY <2>1, <2>2, <2>3 DEF Goes, Agrees, Found, Changed
    <2>4. CASE j # k
      BY <2>1, <2>2, <2>4, AgreesSame DEF Goes
    <2> QED
      BY <2>3, <2>4
  <1>4. ASSUME NEW c \in Client, GiveUp(c)
        PROVE  Agrees(j)'
    <2>1. UNCHANGED <<store, handler>>
      BY <1>4 DEF GiveUp, service
    <2> QED
      BY <2>1, AgreesSame DEF Agreed, OfService
  <1>5. ASSUME NEW c \in Client, Reach(c) \/ Fetched(c) \/ KillServer(c)
        PROVE  Agrees(j)'
    <2>1. PICK k \in Call : /\ \E at \in {"reached", "rejected", "fetched"} : Goes(k, at)
                            /\ store' = store
      BY <1>0, <1>5, FetchingGoes
    <2>2. CASE j = k
      BY <2>1, <2>2 DEF Goes, Agrees
    <2>3. CASE j # k
      BY <2>1, <2>3, AgreesSame DEF Goes, Agreed, OfService
    <2> QED
      BY <2>2, <2>3
  <1>6. ASSUME NEW k \in Call, Serve(k)
        PROVE  Agrees(j)'
    <2>1. handler'[j].op = handler[j].op /\ handler'[j].own = handler[j].own
      BY <1>6, ServeBrief
    <2>2. handler[j].op.service = s /\ handler[j].own /\ Agrees(j)
      BY <2>1 DEF OfService, Agreed
    <2> QED
      BY <1>6, <2>2, SelfAgrees, OthersAgree
  <1>7. ASSUME NEW t \in Service, ClearRecorder(t)
        PROVE  Agrees(j)'
    <2>1. /\ handler'[j].op = handler[j].op /\ store' = store
          /\ OfService(j, t) => handler'[j].own = FALSE
          /\ ~OfService(j, t) => handler'[j] = handler[j]
      BY <1>0, <1>7, ClearFacts
    <2>2. handler'[j] = handler[j] /\ Agrees(j)
      BY <2>1 DEF OfService, Agreed
    <2> QED
      BY <2>1, <2>2, AgreesSame
  <1>8. ASSUME NEW t \in Service, Reseed(t)
        PROVE  Agrees(j)'
    <2>1. /\ store' = [key \in Key |-> IF key \in Held[t] THEN Seed[key] ELSE store[key]]
          /\ UNCHANGED handler
      BY <1>8 DEF Reseed
    <2>2. t # s
      BY <1>8 DEF Reseed, Calm
    <2>3. Agrees(j) /\ handler[j].op.service = s
      BY <2>1 DEF OfService, Agreed
    <2>4. ASSUME Act(handler[j].op) \in {"delete", "rename"}
          PROVE  store'[handler[j].op.key] = store[handler[j].op.key]
      <3>1. handler[j].op.key \in Key /\ handler[j].op.key \in Held[s]
        BY <1>0, <2>3, <2>4, Reaches
      <3>2. Held[s] \cap Held[t] = {}
        BY <2>2, StoresAssumption DEF StoresAssumption
      <3> QED
        BY <2>1, <3>1, <3>2
    <2> QED
      BY <2>1, <2>3, <2>4, AgreesSame
  <1>9. CASE UNCHANGED vars
    <2>1. UNCHANGED <<store, handler>>
      BY <1>9 DEF vars, service
    <2> QED
      BY <2>1, AgreesSame DEF Agreed, OfService
  <1> QED
    BY <1>2, <1>3, <1>4, <1>5, <1>6, <1>7, <1>8, <1>9 DEF Next

-----------------------------------------------------------------------------
RInv == SInv /\ Course /\ Disowned /\ Apart /\ Agreed

LEMMA RInvInit == Init => RInv
  <1> SUFFICES ASSUME Init
               PROVE  RInv
    OBVIOUS
  <1>1. \A k \in Call : /\ handler[k].at = "unasked" /\ handler[k].own = FALSE
                        /\ handler[k].did = "not yet"
    BY DEF Init, Unasked
  <1>2. Course /\ Disowned /\ Apart /\ Agreed
    BY <1>1 DEF Course, CourseOf, Disowned, Apart, Agreed, Agrees, Working
  <1> QED
    BY <1>2, SInvInit DEF RInv

LEMMA RInvNext == RInv /\ [Next]_vars => RInv'
  BY SInvNext, CourseNext, DisownedNext, ApartNext, AgreedNext DEF RInv

LEMMA RInvariance == Spec => []RInv
  BY RInvInit, RInvNext, PTL DEF Spec

-----------------------------------------------------------------------------
(* What the mapping to World reads off a state.                             *)

Frozen(key) == \E s \in Service : Resetting(s) /\ key \in Held[s]
Heading(k, key) == handler[k].at = "taken" /\ handler[k].op.dest = key

LEMMA SettledAll ==
  /\ Settled = [key \in Key |-> Settled[key]]
  /\ Settled' = [key \in Key |-> Settled'[key]]
  BY DEF Settled

\* What Settled shows under a key.
Shows(key) ==
  /\ Frozen(key) => Settled[key] = Seed[key]
  /\ ~Frozen(key) /\ (\A k \in Call : ~Heading(k, key)) => Settled[key] = store[key]
  /\ \A k \in Call :
       /\ ~Frozen(key) /\ Heading(k, key)
       /\ \A j \in Call : Heading(j, key) => j = k
       => Settled[key] = handler[k].held

LEMMA ShowsIt == \A key \in Key : Shows(key)
  BY DEF Settled, Shows, Frozen, Heading

LEMMA ShowsItPrimed == \A key \in Key : Shows(key)'
  BY DEF Settled, Shows, Frozen, Heading

\* Two files are never on their way to one name.
LEMMA OneHeading ==
  ASSUME RInv, NEW key, NEW j \in Call, NEW k \in Call, Heading(j, key), Heading(k, key)
  PROVE  j = k
  <1>1. /\ Act(handler[j].op) = "rename" /\ Working(j)
        /\ Act(handler[k].op) = "rename" /\ Working(k)
    BY DEF RInv, Course, CourseOf, Heading, Working
  <1>2. /\ handler[j].op.service \in Service /\ key \in Held[handler[j].op.service]
        /\ handler[k].op.service \in Service /\ key \in Held[handler[k].op.service]
    BY <1>1, Reaches DEF RInv, SInv, Heading
  <1>3. handler[j].op.service = handler[k].op.service
    BY <1>2, StoresAssumption DEF StoresAssumption
  <1>4. Holds(j) /\ Holds(k)
    BY <1>1 DEF Holds, OnLoop
  <1> QED
    BY <1>3, <1>4 DEF RInv, SInv, Exclusive

\* What a key shows changes with its store, the reset and the file on its way.
LEMMA ShowsSame ==
  ASSUME RInv, NEW key \in Key, Frozen(key)' <=> Frozen(key),
         \/ Frozen(key)
         \/ /\ store'[key] = store[key]
            /\ \A k \in Call : /\ Heading(k, key)' <=> Heading(k, key)
                               /\ Heading(k, key) => handler'[k].held = handler[k].held
  PROVE  Settled'[key] = Settled[key]
  <1>1. Shows(key) /\ Shows(key)'
    BY ShowsIt, ShowsItPrimed
  <1>2. CASE Frozen(key)
    BY <1>1, <1>2 DEF Shows
  <1>3. CASE ~Frozen(key) /\ \A k \in Call : ~Heading(k, key)
    BY <1>1, <1>3 DEF Shows
  <1>4. ASSUME NEW k \in Call, ~Frozen(key), Heading(k, key)
        PROVE  Settled'[key] = Settled[key]
    <2>1. \A j \in Call : Heading(j, key) => j = k
      BY <1>4, OneHeading
    <2>2. Settled[key] = handler[k].held
      BY <1>1, <1>4, <2>1 DEF Shows
    <2>3. Settled'[key] = handler'[k].held
      BY <1>1, <1>4, <2>1 DEF Shows
    <2> QED
      BY <1>4, <2>2, <2>3
  <1> QED
    BY <1>2, <1>3, <1>4

LEMMA SettledSame ==
  ASSUME \A key \in Key : Settled'[key] = Settled[key]
  PROVE  Settled' = Settled
  BY SettledAll

\* The log and the claims change with the calls they are made of.
LEMMA LogSame ==
  ASSUME \A k \in Call : /\ Done(k)' <=> Done(k)
                         /\ Done(k) => /\ handler'[k].op = handler[k].op
                                       /\ handler'[k].did = handler[k].did
  PROVE  Log' = Log
  BY DEF Log, Entry, Changed

LEMMA ClaimsSame ==
  ASSUME \A k \in Call : /\ k \in Claimed' <=> k \in Claimed
                         /\ k \in Claimed => /\ handler'[k].op = handler[k].op
                                             /\ handler'[k].found = handler[k].found
  PROVE  Claims' = Claims
  <1>1. Claimed \subseteq Call /\ Claimed' \subseteq Call
    BY DEF Claimed
  <1>2. Claimed' = Claimed
    BY <1>1
  <1>3. \A k \in Claimed : Entry(k, Found(k))' = Entry(k, Found(k))
    BY <1>1 DEF Entry, Found
  <1> QED
    BY <1>2, <1>3 DEF Claims

-----------------------------------------------------------------------------
(* The steps that World does not see.                                       *)

\* Nothing is late and no two handlers have met.
Quiet == \A s \in Service : ~late[s] /\ ~contended[s]

Unseen == Settled' = Settled /\ Log' = Log /\ Claims' = Claims

SameResets == \A s \in Service : Resetting(s)' <=> Resetting(s)

LEMMA FrozenSame ==
  ASSUME SameResets
  PROVE  \A key : Frozen(key)' <=> Frozen(key)
  BY DEF SameResets, Frozen

LEMMA GoesUnseen ==
  ASSUME RInv, NEW k \in Call, NEW at, Goes(k, at), handler[k].at # "taken", at # "taken",
         store' = store, SameResets, k \in Claimed' <=> k \in Claimed
  PROVE  Unseen
  <1>1. Log' = Log
    BY LogSame DEF Goes, Done
  <1>2. Claims' = Claims
    <2>1. \A j \in Call \ {k} : j \in Claimed' <=> j \in Claimed
      BY DEF Goes, Claimed
    <2> QED
      BY <2>1, ClaimsSame DEF Goes
  <1>3. ASSUME NEW key \in Key
        PROVE  Settled'[key] = Settled[key]
    <2>1. \A j \in Call : /\ Heading(j, key)' <=> Heading(j, key)
                          /\ handler'[j].held = handler[j].held
      BY DEF Goes, Heading
    <2> QED
      BY <2>1, FrozenSame, ShowsSame
  <1> QED
    BY <1>1, <1>2, <1>3, SettledSame DEF Unseen

LEMMA AskUnseen ==
  ASSUME RInv, NEW c \in Client, NEW op \in Operation, Ask(c, op)
  PROVE  Unseen
  <1>1. PICK k \in Call : /\ handler[k].at = "unasked"
                          /\ handler'[k].at \in {"refused", "spawned", "arrived"}
                          /\ \A j \in Call \ {k} : handler'[j] = handler[j]
                          /\ handler'[k].did = "not yet"
                          /\ UNCHANGED <<store, loop>>
    BY AskFacts DEF RInv, SInv
  <1>2. handler[k].did = "not yet"
    BY <1>1 DEF RInv, Course, CourseOf
  <1>3. Log' = Log
    BY <1>1, <1>2, LogSame DEF Done
  <1>4. Claims' = Claims
    <2>1. \A j \in Call : j \in Claimed' <=> j \in Claimed
      BY <1>1 DEF Claimed
    <2>2. \A j \in Call : j \in Claimed => j # k
      BY <1>1 DEF Claimed
    <2> QED
      BY <1>1, <2>1, <2>2, ClaimsSame
  <1>5. ASSUME NEW key \in Key
        PROVE  Settled'[key] = Settled[key]
    <2>1. \A j \in Call : /\ Heading(j, key)' <=> Heading(j, key)
                          /\ Heading(j, key) => handler'[j].held = handler[j].held
      BY <1>1 DEF Heading
    <2>2. SameResets
      BY <1>1 DEF SameResets, Resetting
    <2> QED
      BY <1>1, <2>1, <2>2, FrozenSame, ShowsSame
  <1> QED
    BY <1>3, <1>4, <1>5, SettledSame DEF Unseen

LEMMA StillUnseen ==
  ASSUME RInv, UNCHANGED <<store, handler, loop>>
  PROVE  Unseen
  <1>1. Log' = Log /\ Claims' = Claims
    BY LogSame, ClaimsSame DEF Done, Claimed
  <1>2. ASSUME NEW key \in Key
        PROVE  Settled'[key] = Settled[key]
    <2>1. \A j \in Call : Heading(j, key)' <=> Heading(j, key)
      BY DEF Heading
    <2>2. SameResets
      BY DEF SameResets, Resetting
    <2> QED
      BY <2>1, <2>2, FrozenSame, ShowsSame
  <1> QED
    BY <1>1, <1>2, SettledSame DEF Unseen

LEMMA FetchingUnseen ==
  ASSUME RInv, NEW c \in Client, Reach(c) \/ Fetched(c) \/ KillServer(c)
  PROVE  Unseen
  <1>1. PICK k \in Call, at \in {"reached", "rejected", "fetched"} :
          /\ handler[k].at \in {"spawned", "reached"} /\ Goes(k, at)
          /\ UNCHANGED <<store, loop>>
    BY FetchingGoes DEF RInv, SInv
  <1>2. k \notin Claimed /\ k \notin Claimed'
    BY <1>1 DEF Claimed, Goes
  <1>3. SameResets
    BY <1>1 DEF SameResets, Resetting
  <1> QED
    BY <1>1, <1>2, <1>3, GoesUnseen

\* A handler reaches nothing but the store of its service.
LEMMA Local ==
  ASSUME RInv, NEW k \in Call, Serve(k), NEW key \in Key, key \notin Held[handler[k].op.service]
  PROVE  store'[key] = store[key] /\ ~Heading(k, key) /\ ~Heading(k, key)'
  <1>0. Typed
    BY DEF RInv, SInv
  <1> DEFINE op == handler[k].op
  <1>1. Act(op) \in {"delete", "rename"} => op.key # key
    BY <1>0, Reaches
  <1>2. Act(op) = "rename" => op.dest # key
    BY <1>0, Reaches
  <1>3. ~Heading(k, key)
    BY <1>2 DEF Heading, RInv, Course, CourseOf
  <1>4. CASE Check(k) \/ Fetch(k) \/ Record(k)
    <2>1. store' = store /\ handler'[k].at # "taken"
      BY <1>0, <1>4, CheckFacts, FetchGoes, RecordGoes DEF Goes
    <2> QED
      BY <1>3, <2>1 DEF Heading
  <1>5. CASE Pop(k)
    <2>1. /\ Act(op) = "delete" /\ store' = [store EXCEPT ![op.key] = Absent]
          /\ handler'[k].at = "acted"
      BY <1>0, <1>5, PopFacts
    <2> QED
      BY <1>0, <1>1, <1>3, <2>1 DEF Heading, Typed
  <1>6. CASE Take(k)
    <2>1. /\ Act(op) = "rename" /\ handler'[k].op = op
          /\ store' = store \/ store' = [store EXCEPT ![op.key] = Absent]
      BY <1>0, <1>6, TakeFacts DEF Goes
    <2> QED
      BY <1>0, <1>1, <1>2, <1>3, <2>1 DEF Heading, Typed
  <1>7. CASE Place(k)
    <2>1. /\ handler[k].at = "taken" /\ handler'[k].at = "acted"
          /\ store' = [store EXCEPT ![op.dest] = handler[k].held]
      BY <1>0, <1>7, PlaceFacts
    <2>2. op.dest # key
      BY <1>2, <2>1 DEF RInv, Course, CourseOf
    <2> QED
      BY <1>0, <1>3, <2>1, <2>2 DEF Heading, Typed
  <1> QED
    BY <1>4, <1>5, <1>6, <1>7 DEF Serve

LEMMA NotClaimed ==
  ASSUME RInv, NEW k \in Call, Serve(k)
  PROVE  /\ k \notin Claimed /\ k \notin Claimed'
         /\ \A j \in Call : j \in Claimed' <=> j \in Claimed
         /\ Claims' = Claims
  <1>1. handler[k].at \in InService /\ handler'[k].at \in Onward
    BY ServeShape DEF RInv, SInv, ServedShape, Moves
  <1>2. \A j \in Call \ {k} : handler'[j] = handler[j]
    BY ServeBrief DEF RInv
  <1>3. k \notin Claimed /\ k \notin Claimed'
    BY <1>1 DEF Claimed, InService, Onward
  <1>4. \A j \in Call : j \in Claimed' <=> j \in Claimed
    BY <1>2, <1>3 DEF Claimed
  <1>5. \A j \in Call : j \in Claimed => j # k
    BY <1>3
  <1> QED
    BY <1>2, <1>3, <1>4, <1>5, ClaimsSame

\* What an earlier run left at work during a reset is wiped out with the rest.
LEMMA ForeignUnseen ==
  ASSUME RInv, NEW k \in Call, Serve(k), ~handler[k].own,
         handler[k].op.service \in Service, Resetting(handler[k].op.service)
  PROVE  Unseen
  <1>1. /\ handler'[k].own = handler[k].own /\ SameResets
        /\ \A j \in Call \ {k} : handler'[j] = handler[j]
    BY ServeBrief DEF RInv, SameResets
  <1>2. Claims' = Claims
    BY NotClaimed
  <1>3. Log' = Log
    BY <1>1, LogSame DEF Done
  <1>4. ASSUME NEW key \in Key
        PROVE  Settled'[key] = Settled[key]
    <2>1. Frozen(key)' <=> Frozen(key)
      BY <1>1, FrozenSame
    <2>2. CASE Frozen(key)
      BY <2>1, <2>2, ShowsSame
    <2>3. CASE ~Frozen(key)
      <3>1. key \notin Held[handler[k].op.service]
        BY <2>3 DEF Frozen
      <3>2. store'[key] = store[key] /\ ~Heading(k, key) /\ ~Heading(k, key)'
        BY <3>1, Local
      <3>3. \A j \in Call : /\ Heading(j, key)' <=> Heading(j, key)
                            /\ Heading(j, key) => handler'[j].held = handler[j].held
        BY <1>1, <3>2 DEF Heading
      <3> QED
        BY <2>1, <3>2, <3>3, ShowsSame
    <2> QED
      BY <2>2, <2>3
  <1> QED
    BY <1>2, <1>3, <1>4, SettledSame DEF Unseen

\* The file is in its new place as soon as it is taken from the old one.
LEMMA PlaceUnseen ==
  ASSUME RInv, NEW k \in Call, Place(k)
  PROVE  Unseen
  <1>0. Typed /\ Serve(k)
    BY DEF RInv, SInv, Serve
  <1> DEFINE dest == handler[k].op.dest
  <1>1. /\ handler[k].at = "taken" /\ store' = [store EXCEPT ![dest] = handler[k].held]
        /\ handler'[k].at = "acted" /\ handler'[k].op = handler[k].op
        /\ handler'[k].own = handler[k].own /\ handler'[k].did = handler[k].did
        /\ \A j \in Call \ {k} : handler'[j] = handler[j]
    BY <1>0, PlaceFacts
  <1>2. dest \in Key
    BY <1>0, <1>1, Reaches DEF RInv, Course, CourseOf
  <1>3. Claims' = Claims
    BY <1>0, NotClaimed
  <1>4. Log' = Log
    BY <1>1, LogSame DEF Done
  <1>5. SameResets
    BY <1>0, ServeBrief DEF RInv, SameResets
  <1>6. \A key \in Key \ {dest} : Settled'[key] = Settled[key]
    <2> SUFFICES ASSUME NEW key \in Key, key # dest
                 PROVE  Settled'[key] = Settled[key]
      OBVIOUS
    <2>1. store'[key] = store[key]
      BY <1>0, <1>1 DEF Typed
    <2>2. \A j \in Call : /\ Heading(j, key)' <=> Heading(j, key)
                          /\ Heading(j, key) => handler'[j].held = handler[j].held
      BY <1>1 DEF Heading
    <2> QED
      BY <1>5, <2>1, <2>2, FrozenSame, ShowsSame
  <1>7. PICK place \in Key : place = dest
    BY <1>2
  <1>8. Settled'[place] = Settled[place]
    <2>1. Frozen(place)' <=> Frozen(place)
      BY <1>5, FrozenSame
    <2>2. CASE Frozen(place)
      BY <2>1, <2>2, ShowsSame
    <2>3. CASE ~Frozen(place)
      <3>1. Heading(k, place) /\ \A j \in Call : Heading(j, place) => j = k
        BY <1>1, <1>7, OneHeading DEF Heading
      <3>2. Settled[place] = handler[k].held
        BY <2>3, <3>1, ShowsIt DEF Shows
      <3>3. \A j \in Call : ~Heading(j, place)'
        BY <1>1, <3>1 DEF Heading
      <3>4. Settled'[place] = store'[place]
        BY <2>1, <2>3, <3>3, ShowsItPrimed DEF Shows
      <3>5. store'[place] = handler[k].held
        BY <1>0, <1>1, <1>7 DEF Typed
      <3> QED
        BY <3>2, <3>4, <3>5
    <2> QED
      BY <2>2, <2>3
  <1> QED
    BY <1>3, <1>4, <1>6, <1>7, <1>8, SettledSame DEF Unseen

\* A reset that nothing outlived shows what it showed when it began.
LEMMA ReseedUnseen ==
  ASSUME RInv, NEW s \in Service, Reseed(s), ~late'[s]
  PROVE  Unseen
  <1>1. /\ store' = [key \in Key |-> IF key \in Held[s] THEN Seed[key] ELSE store[key]]
        /\ Resetting(s) /\ loop' = [loop EXCEPT ![s] = "free"] /\ handler' = handler
    BY DEF Reseed
  <1>2. \A t \in Service \ {s} : Resetting(t)' <=> Resetting(t)
    BY <1>1 DEF Resetting, RInv, SInv, Exclusive
  <1>3. Log' = Log /\ Claims' = Claims
    BY <1>1, LogSame, ClaimsSame DEF Done, Claimed
  <1>4. ASSUME NEW key \in Key, key \notin Held[s]
        PROVE  Settled'[key] = Settled[key]
    <2>1. Frozen(key)' <=> Frozen(key)
      BY <1>2, <1>4 DEF Frozen
    <2>2. store'[key] = store[key] /\ \A j \in Call : Heading(j, key)' <=> Heading(j, key)
      BY <1>1, <1>4 DEF Heading
    <2> QED
      BY <1>1, <2>1, <2>2, ShowsSame
  <1>5. ASSUME NEW key \in Key, key \in Held[s]
        PROVE  Settled'[key] = Settled[key]
    <2>1. Settled[key] = Seed[key]
      BY <1>1, <1>5, ShowsIt DEF Frozen, Shows
    <2>2. \A k \in Call : ~Heading(k, key)
      <3> SUFFICES ASSUME NEW k \in Call, Heading(k, key)
                   PROVE  FALSE
        OBVIOUS
      <3>1. Act(handler[k].op) = "rename" /\ Working(k)
        BY DEF RInv, Course, CourseOf, Heading, Working
      <3>2. /\ handler[k].op.service \in Service
            /\ key \in Held[handler[k].op.service]
        BY <3>1, Reaches DEF RInv, SInv, Heading
      <3>3. OfService(k, s)
        BY <1>5, <3>2, StoresAssumption DEF StoresAssumption, OfService
      <3> QED
        BY <3>1, <3>3, ReseedCalms DEF RInv
    <2>3. \A k \in Call : ~Heading(k, key)'
      BY <1>1, <2>2 DEF Heading
    <2>4. store'[key] = Seed[key]
      BY <1>1, <1>5
    <2> QED
      BY <2>1, <2>3, <2>4, ShowsItPrimed DEF Shows
  <1> QED
    BY <1>3, <1>4, <1>5, SettledSame DEF Unseen

-----------------------------------------------------------------------------
(* The steps that World sees.                                               *)

\* A step that does one operation of the run, and nothing else.
Does(k) ==
  /\ handler[k].own /\ handler'[k].own /\ handler'[k].op = handler[k].op
  /\ handler[k].did = "not yet" /\ handler'[k].did # "not yet"
  /\ \A j \in Call \ {k} : handler'[j] = handler[j]

LEMMA LogsIt ==
  ASSUME RInv, NEW k \in Call, Does(k), NEW ok \in BOOLEAN, Changed(k)' <=> ok
  PROVE  /\ \A e \in Log : e.call # k
         /\ Log' = Log \cup {Entry(k, ok)}
  <1>1. Log = {Entry(j, Changed(j)) : j \in {i \in Call : Done(i)}}
    BY DEF Log
  <1>2. Log' = {Entry(j, Changed(j))' : j \in {i \in Call : Done(i)'}}
    BY DEF Log
  <1>3. \A j \in Call : Done(j)' <=> Done(j) \/ j = k
    BY DEF Does, Done
  <1>4. ~Done(k)
    BY DEF Does, Done
  <1>5. \A j \in Call \ {k} : Entry(j, Changed(j))' = Entry(j, Changed(j))
    BY DEF Does, Entry, Changed
  <1>6. Entry(k, Changed(k))' = Entry(k, ok)
    <2>1. Changed(k)' = ok
      BY DEF Changed
    <2> QED
      BY <2>1 DEF Does, Entry
  <1>7. \A e \in Log : e.call # k
    <2>1. \A j \in Call : Entry(j, Changed(j)).call = j
      BY DEF Entry
    <2> QED
      BY <1>1, <1>4, <2>1
  <1>8. Log' = Log \cup {Entry(k, ok)}
    BY <1>1, <1>2, <1>3, <1>4, <1>5, <1>6
  <1> QED
    BY <1>7, <1>8

\* Such a step is World's, if the stores follow.
LEMMA Performs ==
  ASSUME RInv, NEW k \in Call, Serve(k), Does(k), NEW op \in Operation, handler[k].op = op,
         Act(op) \in Effects,
         Changed(k)' <=> B!Succeeds(Effect(op)),
         Settled' = B!After(Effect(op))
  PROVE  B!Next
  <1> DEFINE ok == B!Succeeds(Effect(op))
             done == Effect(op)
  <1>1. ok \in BOOLEAN
    BY DEF B!Succeeds, B!Exists
  <1>2. (\A e \in Log : e.call # k) /\ Log' = Log \cup {Entry(k, ok)}
    <2> HIDE DEF ok
    <2>1. Changed(k)' <=> ok
      BY DEF ok
    <2> QED
      BY <1>1, <2>1, LogsIt
  <1>3. Entry(k, ok) = B!Event(k, done, ok)
    BY DEF Entry, B!Event, Effect
  <1>4. Claims' = Claims
    BY NotClaimed
  <1>5. done.act \in B!Effects
    BY DEF Effect, B!Effects, Effects
  <1>6. B!Perform(k, done)
    BY <1>2, <1>3, <1>4, <1>5 DEF B!Perform
  <1>7. done \in {Effect(o) : o \in Operation}
    OBVIOUS
  <1> QED
    BY <1>6, <1>7 DEF B!Next

\* When nothing is on its way to a key of a service, its store is what shows.
LEMMA ShowsStore ==
  ASSUME NEW s \in Service, NEW key \in Key, key \in Held[s], ~Resetting(s),
         \A j \in Call : ~Heading(j, key)
  PROVE  Settled[key] = store[key] /\ ~Frozen(key)
  <1>1. ~Frozen(key)
    BY StoresAssumption DEF StoresAssumption, Frozen
  <1> QED
    BY <1>1, ShowsIt DEF Shows

\* No file is on its way to a key that a handler has to itself.
LEMMA NoneHeading ==
  ASSUME RInv, NEW k \in Call, NEW key, key \in Touches(k), key \in Held[handler[k].op.service],
         handler[k].op.service \in Service, handler[k].at # "taken",
         \A j \in Call \ {k} : /\ OfService(j, handler[k].op.service) /\ Working(j)
                               => Touches(j) \cap Touches(k) = {}
  PROVE  \A j \in Call : ~Heading(j, key)
  <1> SUFFICES ASSUME NEW j \in Call, Heading(j, key)
               PROVE  FALSE
    OBVIOUS
  <1>1. j # k /\ Act(handler[j].op) = "rename" /\ Working(j)
    BY DEF RInv, Course, CourseOf, Heading, Working
  <1>2. handler[j].op.service \in Service /\ key \in Held[handler[j].op.service] /\ key # Absent
    BY <1>1, Reaches DEF RInv, SInv, Heading
  <1>3. OfService(j, handler[k].op.service)
    BY <1>2, StoresAssumption DEF StoresAssumption, OfService
  <1>4. key \in Touches(j)
    BY <1>2 DEF Touches, Heading
  <1> QED
    BY <1>1, <1>3, <1>4

LEMMA CheckSeen ==
  ASSUME RInv, NEW k \in Call, Check(k), handler'[k].at = "acted", handler[k].own,
         Calm(handler[k].op.service), Quiet'
  PROVE  B!Next
  <1>0. Typed /\ Serve(k)
    BY DEF RInv, SInv, Serve
  <1>1. PICK op : op = handler[k].op
    OBVIOUS
  <1>2. /\ Act(op) \in Effects /\ handler'[k].at = "acted" /\ store' = store
        /\ handler'[k].found <=> (Act(op) = "send" \/ store[op.key] # Absent)
        /\ handler'[k].did = IF handler'[k].found THEN "done" ELSE "nothing"
        /\ Act(op) = "rename" => ~handler'[k].found
        /\ Act(op) # "delete"
        /\ handler[k].at = "arrived"
        /\ \A j \in Call \ {k} : handler'[j] = handler[j]
    BY <1>0, <1>1, CheckFacts DEF Effects
  <1>3. /\ op \in Operation /\ op.service \in Service
        /\ Act(op) # "send" => op.key \in Key /\ op.key # Absent /\ op.key \in Held[op.service]
    BY <1>0, <1>1, <1>2, Reaches DEF Effects
  <1>4. Does(k)
    <2>1. handler[k].did = "not yet"
      BY <1>2 DEF RInv, Course, CourseOf
    <2> QED
      BY <1>0, <1>2, <2>1, ServeBrief DEF RInv, Does
  <1>5. Act(op) # "send" => Settled[op.key] = store[op.key]
    <2> SUFFICES ASSUME Act(op) # "send"
                 PROVE  Settled[op.key] = store[op.key]
      OBVIOUS
    <2>1. ~Meets(k)
      BY <1>1, <1>3 DEF Check, Quiet, RInv, SInv, Kept
    <2>2. \A j \in Call \ {k} : Working(j) => Touches(j) \cap Touches(k) = {}
      BY <2>1 DEF Meets
    <2>3. op.key \in Touches(k)
      BY <1>1, <1>3 DEF Touches
    <2>4. \A j \in Call : ~Heading(j, op.key)
      BY <1>1, <1>2, <1>3, <2>2, <2>3, NoneHeading
    <2> QED
      BY <1>1, <1>3, <2>4, ShowsStore DEF Calm
  <1>6. Changed(k)' <=> B!Succeeds(Effect(op))
    <2>1. Changed(k)' <=> (Act(op) = "send" \/ store[op.key] # Absent)
      BY <1>2 DEF Changed
    <2>2. B!Succeeds(Effect(op)) <=> (Act(op) = "send" \/ Settled[op.key] # Absent)
      BY DEF B!Succeeds, B!Exists, Effect
    <2> QED
      BY <1>5, <2>1, <2>2
  <1>7. Settled' = Settled
    <2>1. SameResets
      BY <1>0, ServeBrief DEF RInv, SameResets
    <2>2. ASSUME NEW key \in Key
          PROVE  Settled'[key] = Settled[key]
      <3>1. \A j \in Call : /\ Heading(j, key)' <=> Heading(j, key)
                            /\ Heading(j, key) => handler'[j].held = handler[j].held
        BY <1>2 DEF Heading
      <3> QED
        BY <1>2, <2>1, <3>1, FrozenSame, ShowsSame
    <2> QED
      BY <2>2, SettledSame
  <1>8. B!After(Effect(op)) = Settled
    <2>1. Act(op) = "rename" => Settled[op.key] = Absent
      BY <1>2, <1>5
    <2> QED
      BY <1>2, <2>1 DEF B!After, B!Exists, Effect
  <1> QED
    BY <1>0, <1>1, <1>2, <1>3, <1>4, <1>6, <1>7, <1>8, Performs

LEMMA PopSeen ==
  ASSUME RInv, NEW k \in Call, Pop(k), handler[k].own, Calm(handler[k].op.service)
  PROVE  B!Next
  <1>0. Typed /\ Serve(k)
    BY DEF RInv, SInv, Serve
  <1>1. PICK op : op = handler[k].op
    OBVIOUS
  <1>2. /\ Act(op) = "delete" /\ handler[k].at = "checked" /\ handler'[k].at = "acted"
        /\ store' = [store EXCEPT ![op.key] = Absent]
        /\ handler'[k].did = IF store[op.key] = Absent THEN "nothing" ELSE "done"
        /\ \A j \in Call \ {k} : handler'[j] = handler[j]
    BY <1>0, <1>1, PopFacts
  <1>3. /\ op \in Operation /\ op.service \in Service
        /\ op.key \in Key /\ op.key # Absent /\ op.key \in Held[op.service]
    BY <1>0, <1>1, <1>2, Reaches
  <1>4. Does(k)
    <2>1. handler[k].did = "not yet"
      BY <1>2 DEF RInv, Course, CourseOf
    <2>2. handler'[k].did # "not yet"
      BY <1>2
    <2> QED
      BY <1>0, <1>2, <2>1, <2>2, ServeBrief DEF RInv, Does
  <1>5. \A j \in Call : ~Heading(j, op.key)
    <2>1. op.key \in Touches(k) /\ Working(k) /\ OfService(k, op.service)
      BY <1>1, <1>2, <1>3 DEF Touches, Working, OfService
    <2>2. \A j \in Call \ {k} : /\ OfService(j, op.service) /\ Working(j)
                                => Touches(j) \cap Touches(k) = {}
      BY <1>1, <1>3, <2>1 DEF RInv, Apart
    <2> QED
      BY <1>1, <1>2, <1>3, <2>1, <2>2, NoneHeading
  <1>6. Settled[op.key] = store[op.key] /\ ~Frozen(op.key)
    BY <1>1, <1>3, <1>5, ShowsStore DEF Calm
  <1>7. Changed(k)' <=> B!Succeeds(Effect(op))
    <2>1. Changed(k)' <=> store[op.key] # Absent
      BY <1>2 DEF Changed
    <2>2. B!Succeeds(Effect(op)) <=> Settled[op.key] # Absent
      BY <1>2 DEF B!Succeeds, B!Exists, Effect
    <2> QED
      BY <1>6, <2>1, <2>2
  <1>8. SameResets
    BY <1>0, ServeBrief DEF RInv, SameResets
  <1>9. ASSUME NEW key \in Key
        PROVE  \A j \in Call : Heading(j, key)' <=> Heading(j, key)
    BY <1>2 DEF Heading
  <1>10. \A key \in Key \ {op.key} : Settled'[key] = Settled[key]
    <2> SUFFICES ASSUME NEW key \in Key, key # op.key
                 PROVE  Settled'[key] = Settled[key]
      OBVIOUS
    <2>1. store'[key] = store[key]
      BY <1>0, <1>2 DEF Typed
    <2>2. \A j \in Call : /\ Heading(j, key)' <=> Heading(j, key)
                          /\ Heading(j, key) => handler'[j].held = handler[j].held
      BY <1>2, <1>9 DEF Heading
    <2> QED
      BY <1>8, <2>1, <2>2, FrozenSame, ShowsSame
  <1>11. Settled'[op.key] = Absent
    <2>1. ~Frozen(op.key)' /\ \A j \in Call : ~Heading(j, op.key)'
      BY <1>3, <1>5, <1>6, <1>8, <1>9, FrozenSame
    <2>2. Settled'[op.key] = store'[op.key]
      BY <1>3, <2>1, ShowsItPrimed DEF Shows
    <2> QED
      BY <1>0, <1>2, <1>3, <2>2 DEF Typed
  <1>12. B!After(Effect(op)) = [Settled EXCEPT ![op.key] = Absent]
    BY <1>2 DEF B!After, Effect
  <1>13. Settled' = [Settled EXCEPT ![op.key] = Absent]
    BY <1>3, <1>10, <1>11, SettledAll
  <1> QED
    BY <1>0, <1>1, <1>2, <1>3, <1>4, <1>7, <1>12, <1>13, Performs DEF Effects

LEMMA TakeSeen ==
  ASSUME RInv, NEW k \in Call, Take(k), handler[k].own, Calm(handler[k].op.service)
  PROVE  B!Next
  <1>0. Typed /\ Serve(k)
    BY DEF RInv, SInv, Serve
  <1>1. PICK op : op = handler[k].op
    OBVIOUS
  <1>2. Act(op) = "rename" /\ handler[k].at = "checked"
    BY <1>0, <1>1, TakeFacts
  <1>3. /\ op \in Operation /\ op.service \in Service
        /\ op.key \in Key /\ op.key # Absent /\ op.key \in Held[op.service]
        /\ op.dest \in Key /\ op.dest # Absent /\ op.dest \in Held[op.service]
    BY <1>0, <1>1, <1>2, Reaches
  <1>4. store[op.key] # Absent
    <2>1. Found(k)
      BY <1>1, <1>2 DEF RInv, Course, CourseOf
    <2>2. Agrees(k)
      BY <1>1, <1>3 DEF RInv, Agreed, OfService
    <2> QED
      BY <1>1, <1>2, <2>1, <2>2 DEF Agrees
  <1>5. /\ store' = [store EXCEPT ![op.key] = Absent]
        /\ handler'[k].at = "taken" /\ handler'[k].op = op
        /\ handler'[k].held = store[op.key] /\ handler'[k].did = "done"
        /\ \A j \in Call \ {k} : handler'[j] = handler[j]
    BY <1>0, <1>1, <1>4, TakeFacts
  <1>6. Does(k)
    <2>1. handler[k].did = "not yet"
      BY <1>2 DEF RInv, Course, CourseOf
    <2> QED
      BY <1>0, <1>5, <2>1, ServeBrief DEF RInv, Does
  <1>7. \A j \in Call : ~Heading(j, op.key) /\ ~Heading(j, op.dest)
    <2>1. /\ op.key \in Touches(k) /\ op.dest \in Touches(k)
          /\ Working(k) /\ OfService(k, op.service)
      BY <1>1, <1>2, <1>3 DEF Touches, Working, OfService
    <2>2. \A j \in Call \ {k} : /\ OfService(j, op.service) /\ Working(j)
                                => Touches(j) \cap Touches(k) = {}
      BY <1>1, <1>3, <2>1 DEF RInv, Apart
    <2> QED
      BY <1>1, <1>2, <1>3, <2>1, <2>2, NoneHeading
  <1>8. Settled[op.key] = store[op.key] /\ ~Frozen(op.key) /\ ~Frozen(op.dest)
    BY <1>1, <1>3, <1>7, ShowsStore DEF Calm
  <1>9. Changed(k)' /\ B!Succeeds(Effect(op))
    BY <1>4, <1>5, <1>8 DEF Changed, B!Succeeds, B!Exists, Effect
  <1>10. SameResets
    BY <1>0, ServeBrief DEF RInv, SameResets
  <1>11. ASSUME NEW key \in Key, NEW j \in Call
         PROVE  Heading(j, key)' <=> Heading(j, key) \/ (j = k /\ key = op.dest)
    BY <1>2, <1>5 DEF Heading
  <1>12. \A key \in Key \ {op.key, op.dest} : Settled'[key] = Settled[key]
    <2> SUFFICES ASSUME NEW key \in Key, key # op.key, key # op.dest
                 PROVE  Settled'[key] = Settled[key]
      OBVIOUS
    <2>1. store'[key] = store[key]
      BY <1>0, <1>5 DEF Typed
    <2>2. \A j \in Call : /\ Heading(j, key)' <=> Heading(j, key)
                          /\ Heading(j, key) => handler'[j].held = handler[j].held
      BY <1>2, <1>5, <1>11 DEF Heading
    <2> QED
      BY <1>10, <2>1, <2>2, FrozenSame, ShowsSame
  <1>13. Settled'[op.dest] = Settled[op.key]
    <2>1. Heading(k, op.dest)' /\ \A j \in Call : Heading(j, op.dest)' => j = k
      BY <1>3, <1>7, <1>11
    <2>2. ~Frozen(op.dest)'
      BY <1>8, <1>10, FrozenSame
    <2>3. Settled'[op.dest] = handler'[k].held
      BY <1>3, <2>1, <2>2, ShowsItPrimed DEF Shows
    <2> QED
      BY <1>5, <1>8, <2>3
  <1>14. op.key # op.dest => Settled'[op.key] = Absent
    <2> SUFFICES ASSUME op.key # op.dest
                 PROVE  Settled'[op.key] = Absent
      OBVIOUS
    <2>1. ~Frozen(op.key)' /\ \A j \in Call : ~Heading(j, op.key)'
      BY <1>3, <1>7, <1>8, <1>10, <1>11, FrozenSame
    <2>2. Settled'[op.key] = store'[op.key]
      BY <1>3, <2>1, ShowsItPrimed DEF Shows
    <2> QED
      BY <1>0, <1>3, <1>5, <2>2 DEF Typed
  <1>15. B!After(Effect(op)) = [Settled EXCEPT ![op.key] = Absent, ![op.dest] = Settled[op.key]]
    BY <1>2, <1>4, <1>8 DEF B!After, B!Exists, Effect
  <1>16. Settled' = [Settled EXCEPT ![op.key] = Absent, ![op.dest] = Settled[op.key]]
    BY <1>3, <1>12, <1>13, <1>14, SettledAll
  <1> QED
    BY <1>0, <1>1, <1>2, <1>3, <1>6, <1>9, <1>15, <1>16, Performs DEF Effects

\* An answer that arrives claims what the log has.
LEMMA ReceiveSeen ==
  ASSUME RInv, Quiet, NEW c \in Client, Receive(c)
  PROVE  B!Next \/ Unseen
  <1>0. Typed
    BY DEF RInv, SInv
  <1>1. PICK k \in Call : /\ \/ handler[k].at = "answered" /\ Goes(k, "claimed")
                             \/ handler[k].at = "failed" /\ Goes(k, "raised")
                          /\ UNCHANGED <<store, loop>>
    BY <1>0, ReceiveGoes
  <1>2. SameResets
    BY <1>1 DEF SameResets, Resetting
  <1>3. CASE k \notin Claimed'
    <2>1. k \notin Claimed
      BY <1>1 DEF Claimed
    <2> QED
      BY <1>1, <1>2, <1>3, <2>1, GoesUnseen
  <1>4. CASE k \in Claimed'
    <2>1. /\ handler[k].at = "answered" /\ Goes(k, "claimed")
          /\ handler[k].own /\ Act(handler[k].op) \in Effects
      BY <1>1, <1>4 DEF Claimed, Goes
    <2>2. handler[k].op.service \in Service
      BY <1>0, <2>1, Reaches DEF Effects
    <2>3. Calm(handler[k].op.service)
      BY <2>1, <2>2 DEF Quiet, Calm, RInv, Disowned, OfService
    <2>4. Found(k) = Changed(k)
      <3>1. Found(k) <=> Changed(k)
        BY <2>1, <2>2, <2>3 DEF RInv, Agreed, Agrees, OfService
      <3>2. Found(k) \in BOOLEAN
        BY <1>0 DEF Typed, Handlers, Found
      <3>3. Changed(k) \in BOOLEAN
        BY DEF Changed
      <3> QED
        BY <3>1, <3>2, <3>3
    <2>5. Done(k)
      BY <2>1 DEF RInv, Course, CourseOf, Done
    <2>6. Entry(k, Found(k)) \in Log
      BY <2>4, <2>5 DEF Log
    <2>7. Claims' = Claims \cup {Entry(k, Found(k))}
      <3>1. k \notin Claimed /\ \A j \in Call : j \in Claimed' <=> j \in Claimed \/ j = k
        BY <1>4, <2>1 DEF Claimed, Goes
      <3>2. Claimed' = Claimed \cup {k}
        BY <3>1 DEF Claimed
      <3>3. \A j \in Claimed' : Entry(j, Found(j))' = Entry(j, Found(j))
        BY <2>1 DEF Goes, Entry, Found, Claimed
      <3> QED
        BY <3>2, <3>3 DEF Claims
    <2>8. Settled' = Settled /\ Log' = Log
      <3>1. Log' = Log
        BY <2>1, LogSame DEF Goes, Done
      <3>2. ASSUME NEW key \in Key
            PROVE  Settled'[key] = Settled[key]
        <4>1. \A j \in Call : /\ Heading(j, key)' <=> Heading(j, key)
                              /\ handler'[j].held = handler[j].held
          BY <2>1 DEF Goes, Heading
        <4> QED
          BY <1>1, <1>2, <4>1, FrozenSame, ShowsSame
      <3> QED
        BY <3>1, <3>2, SettledSame
    <2>9. B!Claim(Entry(k, Found(k)))
      BY <2>7, <2>8 DEF B!Claim
    <2> QED
      BY <2>6, <2>9 DEF B!Next
  <1> QED
    BY <1>3, <1>4

\* A reset is World's as soon as the recorder is clear.
LEMMA ClearSeen ==
  ASSUME RInv, NEW s \in Service, ClearRecorder(s)
  PROVE  B!Next
  <1>1. /\ loop[s] = "free" /\ loop' = [loop EXCEPT ![s] = "reset"] /\ store' = store
        /\ \A k \in Call :
             /\ handler'[k].at = handler[k].at /\ handler'[k].op = handler[k].op
             /\ handler'[k].found = handler[k].found /\ handler'[k].did = handler[k].did
             /\ handler'[k].held = handler[k].held
             /\ OfService(k, s) => handler'[k].own = FALSE
             /\ ~OfService(k, s) => handler'[k] = handler[k]
    BY ClearFacts DEF RInv, SInv
  <1>2. Resetting(s)' /\ \A t \in Service \ {s} : Resetting(t)' <=> Resetting(t)
    BY <1>1 DEF Resetting, RInv, SInv, Exclusive
  <1>3. Settled' = [key \in Key |-> IF key \in Held[s] THEN Seed[key] ELSE Settled[key]]
    <2>1. ASSUME NEW key \in Key, key \in Held[s]
          PROVE  Settled'[key] = Seed[key]
      BY <1>2, <2>1, ShowsItPrimed DEF Shows, Frozen
    <2>2. ASSUME NEW key \in Key, key \notin Held[s]
          PROVE  Settled'[key] = Settled[key]
      <3>1. Frozen(key)' <=> Frozen(key)
        BY <1>2, <2>2 DEF Frozen
      <3>2. \A j \in Call : Heading(j, key)' <=> Heading(j, key)
        BY <1>1 DEF Heading
      <3> QED
        BY <1>1, <3>1, <3>2, ShowsSame
    <2> QED
      BY <2>1, <2>2, SettledAll
  <1>4. \A k \in Call : \A ok : /\ Entry(k, ok).service = s <=> OfService(k, s)
                                /\ Entry(k, ok)' = Entry(k, ok)
    BY <1>1 DEF Entry, OfService
  <1>5. Log' = {e \in Log : e.service # s}
    <2>1. Log = {Entry(j, Changed(j)) : j \in {i \in Call : Done(i)}}
      BY DEF Log
    <2>2. Log' = {Entry(j, Changed(j))' : j \in {i \in Call : Done(i)'}}
      BY DEF Log
    <2>3. \A k \in Call : Done(k)' <=> Done(k) /\ ~OfService(k, s)
      BY <1>1 DEF Done
    <2>4. \A k \in Call : Entry(k, Changed(k))' = Entry(k, Changed(k))
      BY <1>1 DEF Entry, Changed
    <2> QED
      BY <1>4, <2>1, <2>2, <2>3, <2>4
  <1>6. Claims' = {e \in Claims : e.service # s}
    <2>1. Claims = {Entry(j, Found(j)) : j \in Claimed}
      BY DEF Claims
    <2>2. Claims' = {Entry(j, Found(j))' : j \in Claimed'}
      BY DEF Claims
    <2>3. /\ Claimed \subseteq Call /\ Claimed' \subseteq Call
          /\ \A k \in Call : k \in Claimed' <=> k \in Claimed /\ ~OfService(k, s)
      BY <1>1 DEF Claimed
    <2>4. \A k \in Call : Entry(k, Found(k))' = Entry(k, Found(k))
      BY <1>1 DEF Entry, Found
    <2> QED
      BY <1>4, <2>1, <2>2, <2>3, <2>4
  <1>7. B!Reset(s)
    BY <1>3, <1>5, <1>6 DEF B!Reset, B!Without
  <1> QED
    BY <1>7 DEF B!Next

\* A handler at work on a quiet service is of the run, or under a reset.
LEMMA Where ==
  ASSUME RInv, Quiet, NEW k \in Call, Serve(k), handler[k].op.service \in Service
  PROVE  \/ handler[k].own /\ Calm(handler[k].op.service)
         \/ ~handler[k].own /\ Resetting(handler[k].op.service)
  <1>1. Pending(k)
    BY ServeShape DEF RInv, SInv, ServedShape, Moves, InService, Pending, Working
  <1> QED
    BY <1>1 DEF RInv, SInv, Owned, Disowned, Quiet, Calm, OfService

LEMMA ServeSeen ==
  ASSUME RInv, Quiet, Quiet', NEW k \in Call, Serve(k)
  PROVE  B!Next \/ Unseen
  <1>0. Typed
    BY DEF RInv, SInv
  <1>1. SameResets /\ k \notin Claimed /\ k \notin Claimed' /\ Claims' = Claims
    BY ServeBrief, NotClaimed DEF RInv, SameResets
  <1>2. CASE Check(k) /\ handler'[k].at # "acted"
    <2>1. /\ handler[k].at = "arrived" /\ handler'[k].at \in {"checked", "answered"}
          /\ handler'[k].own = handler[k].own /\ handler'[k].did = handler[k].did
          /\ handler'[k].op = handler[k].op /\ store' = store
          /\ \A j \in Call \ {k} : handler'[j] = handler[j]
      BY <1>0, <1>2, CheckFacts
    <2>2. Log' = Log
      BY <2>1, LogSame DEF Done
    <2>3. ASSUME NEW key \in Key
          PROVE  Settled'[key] = Settled[key]
      <3>1. \A j \in Call : /\ Heading(j, key)' <=> Heading(j, key)
                            /\ Heading(j, key) => handler'[j].held = handler[j].held
        BY <2>1 DEF Heading
      <3> QED
        BY <1>1, <2>1, <3>1, FrozenSame, ShowsSame
    <2> QED
      BY <1>1, <2>2, <2>3, SettledSame DEF Unseen
  <1>3. CASE Check(k) /\ handler'[k].at = "acted"
    <2>1. Act(handler[k].op) \in Effects
      BY <1>0, <1>3, CheckFacts
    <2>2. handler[k].op.service \in Service
      BY <1>0, <2>1, Reaches DEF Effects
    <2> QED
      BY <1>3, <2>2, Where, CheckSeen, ForeignUnseen
  <1>4. CASE Fetch(k)
    <2>1. /\ handler[k].at = "checked" /\ store' = store
          /\ \E at \in {"failed", "answered"} : Goes(k, at)
      BY <1>0, <1>4, FetchGoes
    <2> QED
      BY <1>1, <2>1, GoesUnseen
  <1>5. CASE Pop(k)
    <2>1. Act(handler[k].op) = "delete"
      BY <1>0, <1>5, PopFacts
    <2>2. handler[k].op.service \in Service
      BY <1>0, <2>1, Reaches
    <2> QED
      BY <1>5, <2>2, Where, PopSeen, ForeignUnseen
  <1>6. CASE Take(k)
    <2>1. Act(handler[k].op) = "rename"
      BY <1>0, <1>6, TakeFacts
    <2>2. handler[k].op.service \in Service
      BY <1>0, <2>1, Reaches
    <2> QED
      BY <1>6, <2>2, Where, TakeSeen, ForeignUnseen
  <1>7. CASE Place(k)
    BY <1>7, PlaceUnseen
  <1>8. CASE Record(k)
    <2>1. handler[k].at = "acted" /\ Goes(k, "answered") /\ store' = store
      BY <1>0, <1>8, RecordGoes
    <2> QED
      BY <1>1, <2>1, GoesUnseen
  <1> QED
    BY <1>2, <1>3, <1>4, <1>5, <1>6, <1>7, <1>8 DEF Serve

\* A quiet state is one that a quiet state, or a reset, led to.
LEMMA QuietBefore ==
  ASSUME RInv, [Next]_vars, Quiet', \A s \in Service : ~Reseed(s)
  PROVE  Quiet
  <1>1. ASSUME NEW k \in Call, Serve(k)
        PROVE  UNCHANGED late /\ \A s \in Service : contended[s] => contended'[s]
    <2>1. CASE Check(k)
      BY <2>1 DEF Check, RInv, SInv, Kept
    <2>2. CASE ~Check(k)
      BY <1>1, <2>2 DEF Serve, Fetch, Pop, Take, Place, Record, history
    <2> QED
      BY <2>1, <2>2
  <1>2. ASSUME NEW c \in Client,
               (\E op \in Operation : Ask(c, op)) \/ Receive(c) \/ GiveUp(c)
               \/ Reach(c) \/ Fetched(c) \/ KillServer(c)
        PROVE  UNCHANGED <<late, contended>>
    BY <1>2 DEF Ask, Receive, GiveUp, Reach, Fetched, KillServer, Conclude, history
  <1>3. ASSUME NEW s \in Service, ClearRecorder(s)
        PROVE  UNCHANGED <<late, contended>>
    BY <1>3 DEF ClearRecorder, history
  <1>4. CASE UNCHANGED vars
    BY <1>4 DEF vars, history, Quiet
  <1> QED
    BY <1>1, <1>2, <1>3, <1>4 DEF Next, Quiet

LEMMA StepSeen ==
  ASSUME RInv, [Next]_vars, Quiet'
  PROVE  B!Next \/ Unseen
  <1>1. ASSUME NEW s \in Service, Reseed(s)
        PROVE  Unseen
    BY <1>1, ReseedUnseen DEF Quiet
  <1>2. ASSUME NEW c \in Client, NEW op \in Operation, Ask(c, op)
        PROVE  Unseen
    BY <1>2, AskUnseen
  <1>3. ASSUME NEW c \in Client, GiveUp(c)
        PROVE  Unseen
    BY <1>3, StillUnseen DEF GiveUp, service
  <1>4. ASSUME NEW c \in Client, Reach(c) \/ Fetched(c) \/ KillServer(c)
        PROVE  Unseen
    BY <1>4, FetchingUnseen
  <1>5. ASSUME NEW s \in Service, ClearRecorder(s)
        PROVE  B!Next
    BY <1>5, ClearSeen
  <1>6. CASE UNCHANGED vars
    BY <1>6, StillUnseen DEF vars, service
  <1>7. ASSUME \A s \in Service : ~Reseed(s)
        PROVE  Quiet
    BY <1>7, QuietBefore
  <1>8. ASSUME NEW c \in Client, Receive(c), Quiet
        PROVE  B!Next \/ Unseen
    BY <1>8, ReceiveSeen
  <1>9. ASSUME NEW k \in Call, Serve(k), Quiet
        PROVE  B!Next \/ Unseen
    BY <1>9, ServeSeen
  <1> QED
    BY <1>1, <1>2, <1>3, <1>4, <1>5, <1>6, <1>7, <1>8, <1>9 DEF Next

LEMMA StartSeen == Init => B!Init
  <1> SUFFICES ASSUME Init
               PROVE  B!Init
    OBVIOUS
  <1>1. \A k \in Call : /\ handler[k].at = "unasked" /\ handler[k].own = FALSE
    BY InitCalls
  <1>2. Log = {} /\ Claims = {}
    BY <1>1 DEF Log, Done, Claims, Claimed
  <1>3. \A key \in Key : Settled[key] = Seed[key]
    <2>1. \A key \in Key : ~Frozen(key) /\ \A k \in Call : ~Heading(k, key)
      BY <1>1 DEF Init, Frozen, Resetting, Heading
    <2> QED
      BY <2>1, ShowsIt DEF Init, Shows
  <1>4. Settled = Seed
    BY <1>3, SettledAll, ServicesAssumption DEF ServicesAssumption
  <1> QED
    BY <1>2, <1>4 DEF B!Init

\* For any clients, services, operations, calls and resets: until two handlers
\* meet on a key or one outlives a reset, the services over HTTP do what the
\* in-process stores would: each operation takes effect at one moment between its
\* request and its answer, its record and its answer say what it did, and a reset
\* is of one moment too (http_tools.py and services/ against world_state.py).
THEOREM ServicesImplementWorld == Spec => ImplementsWorld
  <1>1. RInv /\ [Next]_vars =>
          [(\E s \in Service : late'[s] \/ contended'[s]) \/ B!Next]_(B!vars)
    <2> SUFFICES ASSUME RInv, [Next]_vars, Quiet'
                 PROVE  B!Next \/ UNCHANGED (B!vars)
      BY DEF Quiet
    <2>1. Unseen => UNCHANGED (B!vars)
      BY DEF Unseen, B!vars
    <2> QED
      BY <2>1, StepSeen
  <1> QED
    BY <1>1, StartSeen, RInvariance, PTL DEF Spec, ImplementsWorld
===============================================================================
