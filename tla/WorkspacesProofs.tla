---------------------------- MODULE WorkspacesProofs ----------------------------
(***************************************************************************)
(* Theorems of Workspaces, for any number of requests that create, edit,   *)
(* run and delete sessions at once: the semaphore of the sandboxed runner  *)
(* (Accounted), the fate of deleted sessions (Fated), the directories and  *)
(* the cap on them (Kept), types (Typed), and resets (Restores).           *)
(***************************************************************************)
EXTENDS Workspaces, FiniteSetTheorems, TLAPS

Held == {"running", "killed"}

\* Requests are records that say where they are; the first lookup of a
\* handler knows whose handler it is.
Shaped ==
  /\ request = [r \in Request |-> request[r]]
  /\ \A r \in Request :
       /\ {"at", "op"} \subseteq DOMAIN request[r]
       /\ at(r) = "path" => request[r].op \in Operations \ {"create"}

\* Slots are neither lost nor made: each is free or held by a child.
Accounted == slots \in Nat /\ slots + Cardinality(Children) = MaxConcurrent

\* What a step of a request may do to the slots.
Elsewhere(r) ==
  /\ at(r) \notin Held /\ request'[r].at \notin Held
  /\ slots' = slots

Stays(r) ==
  /\ at(r) \in Held /\ request'[r].at \in Held
  /\ slots' = slots

Takes(r) ==
  /\ at(r) \notin Held /\ request'[r].at \in Held
  /\ slots > 0 /\ slots' = slots - 1

Returns(r) ==
  /\ at(r) \in Held /\ request'[r].at \notin Held
  /\ slots' = slots + 1

Moves(r) ==
  /\ Shaped'
  /\ \A q \in Request \ {r} : request'[q] = request[q]
  /\ Elsewhere(r) \/ Stays(r) \/ Takes(r) \/ Returns(r)

LEMMA Finite == IsFiniteSet(Children) /\ Cardinality(Children) \in Nat
  <1>1. IsFiniteSet(Request) /\ Children \subseteq Request
    BY WorkspacesAssumption DEF WorkspacesAssumption, Children
  <1> QED
    BY <1>1, FS_Subset, FS_CardinalityType

LEMMA BeginMoves ==
  ASSUME Shaped, NEW r \in Request, Begin(r)
  PROVE  Moves(r)
  <1>1. Asks[r] \subseteq Operations
    BY WorkspacesAssumption DEF WorkspacesAssumption
  <1>2. PICK op \in Asks[r] :
          IF op = "create"
          THEN request' = [request EXCEPT ![r].op = op, ![r].at = "materialize"]
          ELSE \E s \in known :
                 request' = [request EXCEPT ![r].op = op, ![r].sid = s, ![r].at = "path",
                                            ![r].stale = s \in deleted]
    BY DEF Begin
  <1>3. at(r) = "idle" /\ slots' = slots
    BY DEF Begin
  <1>4. CASE op = "create"
    <2>1. request' = [request EXCEPT ![r].op = "create", ![r].at = "materialize"]
      BY <1>2, <1>4
    <2> QED
      BY <1>3, <2>1 DEF Shaped, at, Held, Moves, Elsewhere
  <1>5. CASE op # "create"
    <2>1. PICK s \in known :
            request' = [request EXCEPT ![r].op = op, ![r].sid = s, ![r].at = "path",
                                       ![r].stale = s \in deleted]
      BY <1>2, <1>5
    <2>2. op \in Operations \ {"create"}
      BY <1>1, <1>5
    <2> QED
      BY <1>3, <2>1, <2>2 DEF Shaped, at, Held, Moves, Elsewhere
  <1> QED
    BY <1>4, <1>5

LEMMA PathMoves ==
  ASSUME Shaped, NEW r \in Request, Path(r)
  PROVE  Moves(r)
  <1> USE DEF Shaped, at, Held, Moves, Elsewhere
  <1>1. CASE Answer(r, Refusal(at(r)))
    BY <1>1 DEF Path, Answer
  <1>2. CASE request' = [request EXCEPT ![r].at = "remove", ![r].victims = {sid(r)},
                                        ![r].answer = Refusal(at(r))]
    BY <1>2 DEF Path
  <1>3. CASE Answer(r, "ok")
    BY <1>3 DEF Path, Answer
  <1>4. CASE at(r) # "readonly" /\ Goto(r, AfterPath(request[r].op, at(r)))
    <2>1. AfterPath(request[r].op, at(r)) \in
            {"writable", "dest", "again", "slot", "cleanup", "write", "scan"}
      BY <1>4 DEF Path, AfterPath, Operations
    <2> QED
      BY <1>4, <2>1 DEF Path, Goto
  <1> QED
    BY <1>1, <1>2, <1>3, <1>4 DEF Path

\* What saving, removing, unlinking and copying a file do to their request.
LEMMA WriteStep ==
  ASSUME NEW r \in Request, Write(r)
  PROVE  /\ at(r) = "write" /\ UNCHANGED <<now, lock, session, slots, issued, known, deleted>>
         /\ Answer(r, "ok") \/ Answer(r, "error")
  BY DEF Write

LEMMA RemoveFileStep ==
  ASSUME NEW r \in Request, RemoveFile(r)
  PROVE  /\ at(r) = "unlink" /\ UNCHANGED <<now, lock, session, slots, issued, known, deleted>>
         /\ \E todo : request' = [request EXCEPT ![r].todo = todo]
  <1>1. PICK f \in request[r].todo : request' = [request EXCEPT ![r].todo = @ \ {f}]
    BY DEF RemoveFile
  <1> QED
    BY <1>1 DEF RemoveFile

LEMMA UnlinkStep ==
  ASSUME NEW r \in Request, ResetUnlink(r)
  PROVE  /\ at(r) = "clear" /\ UNCHANGED <<now, lock, session, slots, issued, known, deleted>>
         /\ \/ Answer(r, "error")
            \/ \E todo : request' = [request EXCEPT ![r].todo = todo]
  <1>1. PICK f \in request[r].todo :
          Answer(r, "error") \/ request' = [request EXCEPT ![r].todo = @ \ {f}]
    BY DEF ResetUnlink
  <1> QED
    BY <1>1 DEF ResetUnlink

LEMMA CopyStep ==
  ASSUME NEW r \in Request, ResetCopy(r)
  PROVE  /\ at(r) = "copy" /\ UNCHANGED <<now, lock, session, slots, issued, known, deleted>>
         /\ \E todo, failed :
              request' = [request EXCEPT ![r].todo = todo, ![r].failed = failed]
  <1>1. PICK f \in request[r].todo :
          request' = [request EXCEPT ![r].todo = @ \ {f},
                                     ![r].failed = @ \/ ~disk[sid(r)].vulnerable]
    BY DEF ResetCopy
  <1> QED
    BY <1>1 DEF ResetCopy

\* Deleting, creating and editing touch no slot.
LEMMA RemovalMoves ==
  ASSUME Shaped, NEW r \in Request,
         RemoveScan(r) \/ RemoveFile(r) \/ RemoveDir(r) \/ Cleanup(r)
  PROVE  Moves(r)
  <1> USE DEF Shaped, at, Held, Moves, Elsewhere
  <1>1. CASE RemoveScan(r)
    BY <1>1 DEF RemoveScan
  <1>2. CASE RemoveFile(r)
    <2>1. at(r) = "unlink" /\ slots' = slots
      BY <1>2, RemoveFileStep
    <2>2. PICK todo : request' = [request EXCEPT ![r].todo = todo]
      BY <1>2, RemoveFileStep
    <2> QED
      BY <2>1, <2>2
  <1>3. CASE RemoveDir(r)
    BY <1>3 DEF RemoveDir
  <1>4. CASE Cleanup(r)
    BY <1>4 DEF Cleanup, Answer
  <1> QED
    BY <1>1, <1>2, <1>3, <1>4

LEMMA CreationMoves ==
  ASSUME Shaped, NEW r \in Request,
         Materialize(r) \/ Register(r) \/ Add(r) \/ Created(r)
  PROVE  Moves(r)
  <1> USE DEF Shaped, at, Held, Moves, Elsewhere
  <1>1. CASE Materialize(r)
    BY <1>1 DEF Materialize
  <1>2. CASE Register(r)
    BY <1>2 DEF Register
  <1>3. CASE Add(r)
    BY <1>3 DEF Add, Goto
  <1>4. CASE Created(r)
    BY <1>4 DEF Created, Answer
  <1> QED
    BY <1>1, <1>2, <1>3, <1>4

LEMMA EditingMoves ==
  ASSUME Shaped, NEW r \in Request,
         \/ Write(r) \/ ResetScan(r) \/ ResetUnlink(r) \/ ResetRmdir(r) \/ ResetMkdir(r)
         \/ ResetCopy(r) \/ ResetRead(r)
  PROVE  Moves(r)
  <1> USE DEF Shaped, at, Held, Moves, Elsewhere
  <1>1. CASE Write(r)
    <2>1. /\ at(r) = "write"
          /\ UNCHANGED <<now, lock, session, slots, issued, known, deleted>>
          /\ Answer(r, "ok") \/ Answer(r, "error")
      BY <1>1, WriteStep
    <2> QED
      BY <2>1 DEF Answer
  <1>2. CASE ResetScan(r)
    BY <1>2 DEF ResetScan, Answer
  <1>3. CASE ResetUnlink(r)
    <2>1. /\ at(r) = "clear"
          /\ UNCHANGED <<now, lock, session, slots, issued, known, deleted>>
          /\ \/ Answer(r, "error")
             \/ \E todo : request' = [request EXCEPT ![r].todo = todo]
      BY <1>3, UnlinkStep
    <2> QED
      BY <2>1 DEF Answer
  <1>4. CASE ResetRmdir(r)
    BY <1>4 DEF ResetRmdir, Answer, Goto
  <1>5. CASE ResetMkdir(r)
    BY <1>5 DEF ResetMkdir, Answer
  <1>6. CASE ResetCopy(r)
    <2>1. /\ at(r) = "copy"
          /\ UNCHANGED <<now, lock, session, slots, issued, known, deleted>>
          /\ \E todo, failed :
               request' = [request EXCEPT ![r].todo = todo, ![r].failed = failed]
      BY <1>6, CopyStep
    <2> QED
      BY <2>1
  <1>7. CASE ResetRead(r)
    BY <1>7 DEF ResetRead, Reading, Answer
  <1> QED
    BY <1>1, <1>2, <1>3, <1>4, <1>5, <1>6, <1>7

\* A run takes a slot before its child exists and gives it back after the
\* child is gone, killed or not.
LEMMA RunMoves ==
  ASSUME Shaped, NEW r \in Request,
         TakeSlot(r) \/ TimeOut(r) \/ EndRun(r) \/ Board(r) \/ Record(r)
  PROVE  Moves(r)
  <1> USE DEF Shaped, at, Held, Moves
  <1>1. CASE TakeSlot(r)
    BY <1>1 DEF TakeSlot, Answer, Goto, Elsewhere, Takes
  <1>2. CASE TimeOut(r)
    BY <1>2 DEF TimeOut, Deadline, Goto, Stays
  <1>3. CASE EndRun(r)
    BY <1>3 DEF EndRun, GiveBack, Goto, Returns
  <1>4. CASE Board(r)
    BY <1>4 DEF Board, Answer, Goto, Elsewhere
  <1>5. CASE Record(r)
    BY <1>5 DEF Record, Answer, Elsewhere
  <1> QED
    BY <1>1, <1>2, <1>3, <1>4, <1>5

LEMMA MovesAccount ==
  ASSUME Shaped, Accounted, NEW r \in Request, Moves(r)
  PROVE  Accounted'
  <1> USE DEF Accounted
  <1>1. MaxConcurrent \in Nat
    BY WorkspacesAssumption DEF WorkspacesAssumption
  <1>2. CASE Elsewhere(r) \/ Stays(r)
    <2>1. Children' = Children
      BY <1>2 DEF Moves, Elsewhere, Stays, Children, Held, at
    <2> QED
      BY <1>2, <2>1 DEF Elsewhere, Stays
  <1>3. CASE Takes(r)
    <2>1. Children' = Children \cup {r} /\ r \notin Children
      BY <1>3 DEF Moves, Takes, Children, Held, at
    <2>2. Cardinality(Children') = Cardinality(Children) + 1
      BY <2>1, Finite, FS_AddElement
    <2> QED
      BY <1>1, <1>3, <2>2, Finite DEF Takes
  <1>4. CASE Returns(r)
    <2>1. Children' = Children \ {r} /\ r \in Children
      BY <1>4 DEF Moves, Returns, Children, Held, at
    <2>2. Cardinality(Children') = Cardinality(Children) - 1
      BY <2>1, Finite, FS_RemoveElement
    <2> QED
      BY <1>1, <1>4, <2>2, Finite DEF Returns
  <1> QED
    BY <1>2, <1>3, <1>4 DEF Moves

LEMMA AccountedInit == Init => Shaped /\ Accounted
  <1> SUFFICES ASSUME Init
               PROVE  Shaped /\ Accounted
    OBVIOUS
  <1>1. Shaped
    BY DEF Init, Shaped, Idle, at
  <1>2. Children = {}
    BY DEF Init, Idle, Children, at
  <1>3. Cardinality(Children) = 0
    BY <1>2, FS_EmptySet
  <1>4. slots = MaxConcurrent /\ MaxConcurrent \in Nat
    BY WorkspacesAssumption DEF WorkspacesAssumption, Init
  <1> QED
    BY <1>1, <1>3, <1>4 DEF Accounted

LEMMA AccountedNext == Shaped /\ Accounted /\ [Next]_vars => (Shaped /\ Accounted)'
  <1> SUFFICES ASSUME Shaped, Accounted, [Next]_vars
               PROVE  Shaped' /\ Accounted'
    OBVIOUS
  <1>1. ASSUME NEW r \in Request, Begin(r) \/ Serve(r)
        PROVE  Shaped' /\ Accounted'
    <2>1. Moves(r)
      BY <1>1, BeginMoves, PathMoves, RemovalMoves, CreationMoves, EditingMoves, RunMoves
         DEF Serve
    <2> QED
      BY <2>1, MovesAccount DEF Moves
  <1>2. CASE UNCHANGED <<request, slots>>
    BY <1>2 DEF Shaped, Accounted, Children, at
  <1> QED
    BY <1>1, <1>2 DEF Next, Scribble, Tick, Quiet, vars

\* runner._slots: at no moment are there more children, killed but not yet
\* reaped ones included, than DVAH_RUN_CONCURRENCY.
THEOREM RunsFitSlots == Spec => []RunsWithinSlots
  <1>1. Shaped /\ Accounted => RunsWithinSlots
    BY Finite, WorkspacesAssumption DEF WorkspacesAssumption, Accounted, RunsWithinSlots
  <1> QED
    BY <1>1, AccountedInit, AccountedNext, PTL DEF Spec

-----------------------------------------------------------------------------
(* Deletion.  An id is created once, deleted at most once, and never again  *)
(* registered: what a request that comes later finds is nothing.            *)

op(r) == request[r].op
Making == {"materialize", "register", "remove", "unlink", "add", "created"}
Creating(r) == op(r) = "create" /\ at(r) \notin {"materialize", "answered"}
Fields == {"at", "op", "sid", "victims", "stale", "answer"}

\* A creation has an id nobody has been told of; every other request has one
\* it was told of; and one whose id was deleted before gets no further than
\* its handler's lookup.
Fate(r) ==
  /\ Fields \subseteq DOMAIN request[r]
  /\ op(r) \in Operations \cup {"none"}
  /\ op(r) = "none" => at(r) = "idle"
  /\ at(r) = "idle" => request[r].answer = "none"
  /\ op(r) = "create" => at(r) \in Making \cup {"answered"}
  /\ at(r) \in Making \ {"remove", "unlink"} => op(r) = "create"
  /\ at(r) = "cleanup" => op(r) = "delete"
  /\ Creating(r) => sid(r) \in (1 .. issued) \ known
  /\ op(r) \in Operations \ {"create"} => sid(r) \in known
  /\ op(r) = "delete" /\ at(r) \in {"remove", "unlink"} => request[r].victims = {sid(r)}
  /\ request[r].stale \in BOOLEAN
  /\ request[r].stale =>
       /\ sid(r) \in deleted
       /\ at(r) = "path" \/ at(r) = "answered"
       /\ request[r].answer # "ok"

Registry ==
  /\ issued \in Nat
  /\ known \subseteq 1 .. issued
  /\ deleted \subseteq known
  /\ DOMAIN session \cap deleted = {}

Unshared == \A q, r \in Request : q # r /\ Creating(q) /\ Creating(r) => sid(q) # sid(r)

Fated ==
  /\ request = [r \in Request |-> request[r]]
  /\ Registry /\ Unshared
  /\ \A r \in Request : Fate(r)

\* A step that creates, tells and deletes nothing, and keeps what its request
\* is about.
Plain(r) ==
  /\ request' = [request EXCEPT ![r] = request'[r]]
  /\ DOMAIN session' = DOMAIN session
  /\ UNCHANGED <<issued, known, deleted>>
  /\ op(r)' = op(r) /\ sid(r)' = sid(r)
  /\ Creating(r)' => Creating(r)
  /\ Fate(r)'

LEMMA PlainFated ==
  ASSUME Fated, NEW r \in Request, Plain(r)
  PROVE  Fated'
  <1>1. \A q \in Request \ {r} : request'[q] = request[q]
    BY DEF Fated, Plain
  <1>2. request' = [q \in Request |-> request'[q]]
    BY DEF Fated, Plain
  <1>3. Registry'
    BY DEF Fated, Plain, Registry
  <1>4. \A q \in Request : Fate(q)'
    BY <1>1 DEF Fated, Plain, Fate, Creating, op, at, sid
  <1>5. Unshared'
    BY <1>1 DEF Fated, Plain, Unshared, Creating, op, at, sid
  <1> QED
    BY <1>2, <1>3, <1>4, <1>5 DEF Fated

LEMMA PathFated ==
  ASSUME Fated, NEW r \in Request, Path(r)
  PROVE  Fated'
  <1> USE DEF Plain, Fate, Making, Creating, Fields, op, at, sid
  <1>1. Fate(r) /\ request = [q \in Request |-> request[q]]
    BY DEF Fated
  <1>2. CASE sid(r) \notin DOMAIN session
    <2>1. Answer(r, Refusal(at(r)))
      BY <1>2 DEF Path
    <2>2. Plain(r)
      BY <1>1, <2>1 DEF Path, Answer, Refusal
    <2> QED
      BY <2>2, PlainFated
  <1>3. CASE sid(r) \in DOMAIN session
    <2>1. ~request[r].stale
      BY <1>1, <1>3 DEF Fated, Registry
    <2>2. CASE Answer(r, Refusal(at(r))) \/ Answer(r, "ok")
      <3>1. Plain(r)
        BY <1>1, <2>1, <2>2 DEF Path, Answer
      <3> QED
        BY <3>1, PlainFated
    <2>3. CASE request' = [request EXCEPT ![r].at = "remove", ![r].victims = {sid(r)},
                                          ![r].answer = Refusal(at(r))]
      <3>1. Plain(r)
        BY <1>1, <2>1, <2>3 DEF Path
      <3> QED
        BY <3>1, PlainFated
    <2>4. CASE at(r) # "readonly" /\ Goto(r, AfterPath(request[r].op, at(r)))
      <3>1. /\ AfterPath(op(r), at(r)) \in
                 {"writable", "dest", "again", "slot", "cleanup", "write", "scan"}
            /\ AfterPath(op(r), at(r)) = "cleanup" => op(r) = "delete"
        BY <1>1, <2>4 DEF Path, AfterPath, Operations
      <3>2. Plain(r)
        BY <1>1, <2>1, <2>4, <3>1 DEF Path, Goto
      <3> QED
        BY <3>2, PlainFated
    <2> QED
      BY <1>3, <2>2, <2>3, <2>4 DEF Path
  <1> QED
    BY <1>2, <1>3

\* The steps that only move a request along.
LEMMA SimpleFated ==
  ASSUME Fated, NEW r \in Request,
         \/ RemoveScan(r) \/ RemoveFile(r) \/ Register(r)
         \/ Write(r) \/ ResetScan(r) \/ ResetUnlink(r) \/ ResetRmdir(r) \/ ResetMkdir(r)
         \/ ResetCopy(r) \/ ResetRead(r)
         \/ TakeSlot(r) \/ TimeOut(r) \/ EndRun(r) \/ Board(r) \/ Record(r)
  PROVE  Fated'
  <1> USE DEF Plain, Fate, Making, Creating, Fields, op, at, sid
  <1>1. Fate(r) /\ request = [q \in Request |-> request[q]]
    BY DEF Fated
  <1>2. CASE RemoveScan(r)
    <2>1. Plain(r)
      BY <1>1, <1>2 DEF RemoveScan
    <2> QED
      BY <2>1, PlainFated
  <1>3. CASE RemoveFile(r)
    <2>1. at(r) = "unlink" /\ UNCHANGED <<now, lock, session, slots, issued, known, deleted>>
      BY <1>3, RemoveFileStep
    <2>2. PICK todo : request' = [request EXCEPT ![r].todo = todo]
      BY <1>3, RemoveFileStep
    <2>3. Plain(r)
      BY <1>1, <2>1, <2>2
    <2> QED
      BY <2>3, PlainFated
  <1>4. CASE Register(r)
    <2>1. /\ at(r) = "register" /\ UNCHANGED <<now, session, disk, slots, issued, known, deleted>>
      BY <1>4 DEF Register
    <2> DEFINE live == DOMAIN session \ Expired
               victims == Expired \cup Oldest(live, Excess(live))
               next == IF victims = {} THEN "add" ELSE "remove"
    <2>2. /\ request' = [request EXCEPT ![r].victims = victims, ![r].at = next]
          /\ next \in {"add", "remove"}
      BY <1>4 DEF Register
    <2> HIDE DEF victims, next
    <2>3. Plain(r)
      BY <1>1, <2>1, <2>2
    <2> QED
      BY <2>3, PlainFated
  <1>5. CASE Write(r)
    <2>1. /\ at(r) = "write"
          /\ UNCHANGED <<now, lock, session, slots, issued, known, deleted>>
          /\ Answer(r, "ok") \/ Answer(r, "error")
      BY <1>5, WriteStep
    <2>2. Plain(r)
      BY <1>1, <2>1 DEF Answer
    <2> QED
      BY <2>2, PlainFated
  <1>6. CASE ResetScan(r)
    BY <1>1, <1>6, PlainFated DEF ResetScan, Answer
  <1>7. CASE ResetUnlink(r)
    <2>1. /\ at(r) = "clear"
          /\ UNCHANGED <<now, lock, session, slots, issued, known, deleted>>
          /\ \/ Answer(r, "error")
             \/ \E todo : request' = [request EXCEPT ![r].todo = todo]
      BY <1>7, UnlinkStep
    <2>2. Plain(r)
      BY <1>1, <2>1 DEF Answer
    <2> QED
      BY <2>2, PlainFated
  <1>8. CASE ResetRmdir(r)
    BY <1>1, <1>8, PlainFated DEF ResetRmdir, Answer, Goto
  <1>9. CASE ResetMkdir(r)
    BY <1>1, <1>9, PlainFated DEF ResetMkdir, Answer
  <1>10. CASE ResetCopy(r)
    <2>1. at(r) = "copy" /\ UNCHANGED <<now, lock, session, slots, issued, known, deleted>>
      BY <1>10, CopyStep
    <2>2. PICK todo, failed :
            request' = [request EXCEPT ![r].todo = todo, ![r].failed = failed]
      BY <1>10, CopyStep
    <2>3. /\ at(r)' = "copy" /\ op(r)' = op(r) /\ sid(r)' = sid(r)
          /\ request'[r].stale = request[r].stale /\ request'[r].answer = request[r].answer
          /\ DOMAIN request'[r] = DOMAIN request[r]
          /\ request' = [request EXCEPT ![r] = request'[r]]
      <3>1. request = [q \in Request |-> request[q]] /\ Fields \subseteq DOMAIN request[r]
        BY <1>1
      <3> QED
        BY ONLY <2>1, <2>2, <3>1, r \in Request
    <2>4. Plain(r)
      BY <1>1, <2>1, <2>2, <2>3
    <2> QED
      BY <2>4, PlainFated
  <1>11. CASE ResetRead(r)
    BY <1>1, <1>11, PlainFated DEF ResetRead, Reading, Answer
  <1>12. CASE TakeSlot(r)
    BY <1>1, <1>12, PlainFated DEF TakeSlot, Answer, Goto
  <1>13. CASE TimeOut(r)
    BY <1>1, <1>13, PlainFated DEF TimeOut, Goto
  <1>14. CASE EndRun(r)
    BY <1>1, <1>14, PlainFated DEF EndRun, Goto
  <1>15. CASE Board(r)
    BY <1>1, <1>15, PlainFated DEF Board, Answer, Goto
  <1>16. CASE Record(r)
    BY <1>1, <1>16, PlainFated DEF Record, Answer
  <1> QED
    BY <1>2, <1>3, <1>4, <1>5, <1>6, <1>7, <1>8, <1>9, <1>10, <1>11, <1>12, <1>13, <1>14,
       <1>15, <1>16

\* A request that begins is for an id its client was told of; if that id is
\* deleted already the request is stale.
LEMMA BeginFated ==
  ASSUME Fated, NEW r \in Request, Begin(r)
  PROVE  Fated'
  <1> USE DEF Plain, Fate, Making, Creating, Fields, op, at, sid
  <1>1. Fate(r) /\ request = [q \in Request |-> request[q]]
    BY DEF Fated
  <1>2. Asks[r] \subseteq Operations
    BY WorkspacesAssumption DEF WorkspacesAssumption
  <1>3. PICK asked \in Asks[r] :
          IF asked = "create"
          THEN request' = [request EXCEPT ![r].op = asked, ![r].at = "materialize"]
          ELSE \E s \in known :
                 request' = [request EXCEPT ![r].op = asked, ![r].sid = s, ![r].at = "path",
                                            ![r].stale = s \in deleted]
    BY DEF Begin
  <1>4. at(r) = "idle" /\ UNCHANGED <<session, issued, known, deleted>>
    BY DEF Begin
  <1>5. ~request[r].stale
    BY <1>1, <1>4
  <1>6. \A q \in Request \ {r} : request'[q] = request[q]
    BY <1>1, <1>3
  <1>7. request' = [q \in Request |-> request'[q]]
    BY <1>1, <1>3
  <1>8. Fate(r)' /\ ~Creating(r)'
    <2>1. CASE asked = "create"
      <3>1. request' = [request EXCEPT ![r].op = "create", ![r].at = "materialize"]
        BY <1>3, <2>1
      <3> QED
        BY <1>1, <1>4, <1>5, <3>1 DEF Operations
    <2>2. CASE asked # "create"
      <3>1. PICK s \in known :
              request' = [request EXCEPT ![r].op = asked, ![r].sid = s, ![r].at = "path",
                                         ![r].stale = s \in deleted]
        BY <1>3, <2>2
      <3>2. asked \in Operations \ {"create"} /\ asked # "none"
        BY <1>2, <2>2 DEF Operations
      <3>3. /\ request'[r].op = asked /\ request'[r].sid = s /\ request'[r].at = "path"
            /\ Fields \subseteq DOMAIN request'[r] /\ s \in known
            /\ request'[r].answer = "none"
        BY <1>1, <1>4, <3>1
      <3>4. request'[r].stale = (s \in deleted)
        BY <1>1, <3>1
      <3>5. CASE s \in deleted
        <4>1. request'[r].stale = TRUE
          BY <3>4, <3>5, Zenon
        <4> QED
          BY <1>4, <3>2, <3>3, <3>5, <4>1
      <3>6. CASE s \notin deleted
        <4>1. request'[r].stale = FALSE
          <5>1. (s \in deleted) = FALSE
            BY <3>6
          <5> QED
            BY <3>4, <5>1
        <4> QED
          BY <1>4, <3>2, <3>3, <4>1
      <3> QED
        BY <3>5, <3>6
    <2> QED
      BY <2>1, <2>2
  <1>9. Registry'
    BY <1>4 DEF Fated, Registry
  <1>10. \A q \in Request : Fate(q)'
    BY <1>4, <1>6, <1>8 DEF Fated
  <1>11. Unshared'
    BY <1>6, <1>8 DEF Fated, Unshared
  <1> QED
    BY <1>7, <1>9, <1>10, <1>11 DEF Fated

LEMMA CreationFated ==
  ASSUME Fated, NEW r \in Request, Materialize(r) \/ Add(r) \/ Created(r)
  PROVE  Fated'
  <1> USE DEF Fate, Making, Creating, Fields, op, at, sid
  <1>1. Fate(r) /\ request = [q \in Request |-> request[q]] /\ op(r) = "create"
    BY DEF Fated, Materialize, Add, Created
  <1>2. ~request[r].stale
    BY <1>1 DEF Materialize, Add, Created
  <1>3. CASE Materialize(r)
    <2>1. \/ request' = [request EXCEPT ![r].at = "register", ![r].sid = issued + 1]
          \/ request' = [request EXCEPT ![r].at = "answered", ![r].sid = issued + 1,
                                        ![r].answer = "error"]
      BY <1>3 DEF Materialize
    <2>2. \A q \in Request \ {r} : request'[q] = request[q]
      BY <1>1, <2>1
    <2>3. issued \in Nat /\ issued' = issued + 1 /\ UNCHANGED <<session, known, deleted>>
      BY <1>3 DEF Materialize, Fated, Registry
    <2>4. /\ request'[r].at \in {"register", "answered"} /\ request'[r].sid = issued + 1
          /\ request'[r].op = "create" /\ request'[r].stale = request[r].stale
          /\ Fields \subseteq DOMAIN request'[r]
      <3>1. CASE request' = [request EXCEPT ![r].at = "register", ![r].sid = issued + 1]
        BY <1>1, <3>1
      <3>2. CASE request' = [request EXCEPT ![r].at = "answered", ![r].sid = issued + 1,
                                            ![r].answer = "error"]
        BY <1>1, <3>2
      <3> QED
        BY <2>1, <3>1, <3>2
    <2>5. Registry'
      BY <2>3 DEF Fated, Registry
    <2>6. Fate(r)'
      <3>1. issued + 1 \in (1 .. issued') \ known'
        BY <2>3 DEF Fated, Registry
      <3> QED
        BY <1>1, <1>2, <2>4, <3>1
    <2>7. \A q \in Request \ {r} : Fate(q)'
      BY <2>2, <2>3 DEF Fated
    <2>8. \A q \in Request \ {r} : Creating(q)' => sid(q)' \in 1 .. issued
      BY <2>2 DEF Fated
    <2>9. Unshared'
      <3>1. sid(r)' = issued + 1
        BY <2>4
      <3>2. \A q \in Request \ {r} : Creating(q)' => sid(q)' # sid(r)'
        BY <2>3, <2>8, <3>1
      <3> QED
        BY <2>2, <3>2 DEF Fated, Unshared
    <2>10. request' = [q \in Request |-> request'[q]]
      BY <1>1, <2>1
    <2> QED
      BY <2>5, <2>6, <2>7, <2>9, <2>10 DEF Fated
  <1>4. CASE Add(r)
    <2>1. request' = [request EXCEPT ![r].at = "created"]
      BY <1>4 DEF Add, Goto
    <2>2. \A q \in Request \ {r} : request'[q] = request[q]
      BY <1>1, <2>1
    <2>3. DOMAIN session' = DOMAIN session \cup {sid(r)} /\ UNCHANGED <<issued, known, deleted>>
      BY <1>4 DEF Add
    <2>4. sid(r) \notin known
      BY <1>1, <1>4 DEF Add
    <2>5. Registry'
      BY <2>3, <2>4 DEF Fated, Registry
    <2>6. \A q \in Request : Fate(q)'
      BY <1>1, <1>2, <1>4, <2>1, <2>2, <2>3 DEF Fated, Add
    <2>7. Unshared'
      BY <1>1, <1>4, <2>1, <2>2 DEF Fated, Unshared, Add
    <2>8. request' = [q \in Request |-> request'[q]]
      BY <1>1, <2>1
    <2> QED
      BY <2>5, <2>6, <2>7, <2>8 DEF Fated
  <1>5. CASE Created(r)
    <2>1. PICK answer \in {"ok", "error"} :
            /\ request' = [request EXCEPT ![r].at = "answered", ![r].answer = answer]
            /\ known' = known \/ known' = known \cup {sid(r)}
            /\ UNCHANGED <<session, issued, deleted>>
      BY <1>5 DEF Created, Answer
    <2>2. \A q \in Request \ {r} : request'[q] = request[q]
      BY <1>1, <2>1
    <2>3. Creating(r)
      BY <1>1, <1>5 DEF Created
    <2>4. Registry'
      BY <1>1, <2>1, <2>3 DEF Fated, Registry
    <2>5. Fate(r)'
      BY <1>1, <1>2, <2>1
    <2>6. \A q \in Request \ {r} : Creating(q) => sid(q) # sid(r)
      BY <2>3 DEF Fated, Unshared
    <2>7. \A q \in Request \ {r} : Fate(q)'
      BY <2>1, <2>2, <2>6 DEF Fated
    <2>8. Unshared'
      BY <1>1, <2>1, <2>2 DEF Fated, Unshared
    <2>9. request' = [q \in Request |-> request'[q]]
      BY <1>1, <2>1
    <2> QED
      BY <2>4, <2>5, <2>7, <2>8, <2>9 DEF Fated
  <1> QED
    BY <1>3, <1>4, <1>5

LEMMA DeletionFated ==
  ASSUME Fated, NEW r \in Request, RemoveDir(r) \/ Cleanup(r)
  PROVE  Fated'
  <1> USE DEF Fate, Making, Creating, Fields, op, at, sid
  <1>1. Fate(r) /\ request = [q \in Request |-> request[q]] /\ ~request[r].stale
    BY DEF Fated, RemoveDir, Cleanup
  <1>2. CASE RemoveDir(r)
    <2> DEFINE s == Victim(r)
    <2>1. op(r) = "delete" => s = sid(r) /\ sid(r) \in known
      BY <1>1, <1>2 DEF RemoveDir, Victim, Operations
    <2>2. /\ DOMAIN session' = DOMAIN session \ {s}
          /\ UNCHANGED <<issued, known>>
          /\ deleted' = IF op(r) = "delete" THEN deleted \cup {s} ELSE deleted
      BY <1>2 DEF RemoveDir, Without
    <2>3. request' = [request EXCEPT ![r].victims = request[r].victims \ {s},
                        ![r].at = IF request[r].victims \ {s} # {} THEN "remove"
                                  ELSE IF op(r) = "create" THEN "add" ELSE "answered"]
      BY <1>2 DEF RemoveDir
    <2>4. \A q \in Request \ {r} : request'[q] = request[q]
      BY <1>1, <2>3
    <2> HIDE DEF s
    <2>5. Registry'
      BY <2>1, <2>2 DEF Fated, Registry
    <2>6. Fate(r)'
      <3>1. /\ request'[r].victims = request[r].victims \ {s}
            /\ op(r)' = op(r) /\ sid(r)' = sid(r) /\ Fields \subseteq DOMAIN request'[r]
            /\ request'[r].stale = request[r].stale
            /\ at(r)' = IF request[r].victims \ {s} # {} THEN "remove"
                        ELSE IF op(r) = "create" THEN "add" ELSE "answered"
        BY <1>1, <2>3
      <3>2. at(r) = "unlink"
        BY <1>2 DEF RemoveDir
      <3>3. op(r) = "delete" => at(r)' = "answered"
        BY <1>1, <2>1, <3>1, <3>2
      <3> QED
        BY <1>1, <2>2, <3>1, <3>2, <3>3
    <2>7. \A q \in Request \ {r} : Fate(q)'
      BY <2>2, <2>4 DEF Fated
    <2>8. Unshared'
      <3>1. op(r)' = op(r) /\ sid(r)' = sid(r)
        BY <1>1, <2>3
      <3>2. at(r) = "unlink"
        BY <1>2 DEF RemoveDir
      <3>3. Creating(r)' => Creating(r)
        BY <3>1, <3>2
      <3> QED
        BY <2>4, <3>1, <3>3 DEF Fated, Unshared
    <2>9. request' = [q \in Request |-> request'[q]]
      BY <1>1, <2>3
    <2> QED
      BY <2>5, <2>6, <2>7, <2>8, <2>9 DEF Fated
  <1>3. CASE Cleanup(r) /\ sid(r) \in DOMAIN session
    <2>1. /\ request' = [request EXCEPT ![r].at = "remove", ![r].victims = {sid(r)},
                                         ![r].answer = "ok"]
          /\ UNCHANGED <<session, issued, known, deleted>>
      BY <1>3 DEF Cleanup
    <2>2. op(r) = "delete"
      BY <1>1, <1>3 DEF Cleanup
    <2>3. Fate(r)'
      BY <1>1, <2>1, <2>2
    <2>4. /\ at(r)' = "remove" /\ op(r)' = op(r) /\ sid(r)' = sid(r)
          /\ request' = [request EXCEPT ![r] = request'[r]]
      BY <1>1, <2>1
    <2>5. ~Creating(r)'
      BY <2>2, <2>4
    <2>6. Plain(r)
      BY ONLY <2>1, <2>3, <2>4, <2>5 DEF Plain
    <2> QED
      BY <2>6, PlainFated
  <1>4. CASE Cleanup(r) /\ sid(r) \notin DOMAIN session
    <2>1. /\ request' = [request EXCEPT ![r].at = "answered", ![r].answer = "ok"]
          /\ deleted' = deleted \cup {sid(r)}
          /\ UNCHANGED <<session, issued, known>>
      BY <1>4 DEF Cleanup, Answer
    <2>2. sid(r) \in known
      BY <1>1, <1>4 DEF Cleanup, Operations
    <2>3. \A q \in Request \ {r} : request'[q] = request[q]
      BY <1>1, <2>1
    <2>4. Registry'
      BY <1>4, <2>1, <2>2 DEF Fated, Registry
    <2>5. \A q \in Request : Fate(q)'
      <3>1. Fate(r)'
        BY <1>1, <1>4, <2>1, <2>2 DEF Cleanup
      <3>2. \A q \in Request \ {r} : Fate(q)'
        BY <2>1, <2>3 DEF Fated
      <3> QED
        BY <3>1, <3>2
    <2>6. Unshared'
      BY <1>1, <2>1, <2>3 DEF Fated, Unshared
    <2> QED
      <3>1. request' = [q \in Request |-> request'[q]]
        BY <1>1, <2>1
      <3> QED
        BY <2>4, <2>5, <2>6, <3>1 DEF Fated
  <1> QED
    BY <1>2, <1>3, <1>4

LEMMA FatedInit == Init => Fated
  <1> SUFFICES ASSUME Init
               PROVE  Fated
    OBVIOUS
  <1>1. \A r \in Request : request[r] = Idle
    BY DEF Init
  <1>2. request = [r \in Request |-> request[r]]
    BY DEF Init
  <1>3. Registry
    BY DEF Init, Registry
  <1>4. \A r \in Request : Fate(r)
    <2>1. /\ Fields \subseteq DOMAIN Idle
          /\ Idle.op = "none" /\ Idle.at = "idle" /\ Idle.stale = FALSE
          /\ Idle.answer = "none"
      BY DEF Fields, Idle
    <2>2. "none" \notin Operations
      BY DEF Operations
    <2> QED
      BY <1>1, <2>1, <2>2 DEF Fate, Making, Creating, op, at, sid
  <1>5. Unshared
    BY <1>1 DEF Unshared, Creating, Idle, op
  <1> QED
    BY <1>2, <1>3, <1>4, <1>5 DEF Fated

LEMMA FatedNext == Fated /\ [Next]_vars => Fated'
  <1> SUFFICES ASSUME Fated, [Next]_vars
               PROVE  Fated'
    OBVIOUS
  <1>1. ASSUME NEW r \in Request, Begin(r) \/ Serve(r)
        PROVE  Fated'
    BY <1>1, BeginFated, PathFated, SimpleFated, CreationFated, DeletionFated DEF Serve
  <1>2. CASE UNCHANGED <<request, session, issued, known, deleted>>
    BY <1>2 DEF Fated, Registry, Unshared, Fate, Creating, op, at, sid
  <1> QED
    BY <1>1, <1>2 DEF Next, Scribble, Tick, Quiet, vars

\* delete_session: whatever else runs, resets that bring the directory back
\* included, a request that arrives after a deletion was answered is turned
\* away.
THEOREM DeletedIsGone == Spec => []DeletedStaysDeleted
  <1>1. Fated => DeletedStaysDeleted
    BY DEF Fated, Fate, DeletedStaysDeleted
  <1> QED
    BY <1>1, FatedInit, FatedNext, PTL DEF Spec

-----------------------------------------------------------------------------
(* Natural numbers: the entry registered first, and a count for the next.   *)

LEMMA Minimum ==
  ASSUME NEW S \in SUBSET Nat, S # {}
  PROVE  \E x \in S : \A y \in S : x <= y
  <1>1. PICK x \in S : \A y \in S : <<y, x>> \notin OpToRel(<, Nat)
    BY NatLessThanWellFounded, WFMin
  <1>2. \A y \in S : y \in Nat /\ x \in Nat /\ ~(y < x)
    BY <1>1 DEF OpToRel
  <1> QED
    BY <1>2

\* A finite set has a greatest element, else there would be a smallest one
\* that has none.
LEMMA Maximum ==
  ASSUME NEW S \in SUBSET Nat, IsFiniteSet(S), S # {}
  PROVE  Max(S) \in S /\ \A y \in S : Max(S) >= y
  <1> DEFINE Above(T) == \E x \in T : \A y \in T : x >= y
             sizes == {Cardinality(T) : T \in {T \in SUBSET S : T # {} /\ ~Above(T)}}
  <1>1. \A T \in SUBSET S : IsFiniteSet(T) /\ Cardinality(T) \in Nat
    BY FS_Subset, FS_CardinalityType
  <1>2. CASE sizes = {}
    <2>1. Above(S)
      BY <1>2
    <2> QED
      BY <2>1 DEF Max
  <1>3. CASE sizes # {}
    <2>1. sizes \in SUBSET Nat
      BY <1>1
    <2> HIDE DEF sizes
    <2>2. PICK n \in sizes : \A m \in sizes : n <= m
      BY <1>3, <2>1, Minimum
    <2>3. PICK T \in SUBSET S : T # {} /\ ~Above(T) /\ Cardinality(T) = n
      BY <2>2 DEF sizes
    <2>4. PICK x \in T : TRUE
      BY <2>3
    <2> DEFINE U == T \ {x}
    <2>5. U \in SUBSET S /\ Cardinality(U) = n - 1 /\ n \in Nat
      BY <1>1, <2>3, <2>4, FS_RemoveElement
    <2>6. CASE U = {}
      BY <2>3, <2>4, <2>6
    <2>7. CASE U # {}
      <3>1. Above(U)
        <4>1. Cardinality(U) \notin sizes
          BY <2>2, <2>5
        <4> QED
          BY <2>5, <2>7, <4>1 DEF sizes
      <3>2. PICK z \in U : \A y \in U : z >= y
        BY <3>1
      <3>3. x \in Nat /\ z \in Nat /\ \A y \in T : y = x \/ y \in U
        BY <2>3, <2>4
      <3>4. (x >= z => \A y \in T : x >= y) /\ (z >= x => \A y \in T : z >= y)
        BY <3>2, <3>3, <2>3
      <3> QED
        BY <2>3, <3>3, <3>4
    <2> QED
      BY <2>6, <2>7
  <1> QED
    BY <1>2, <1>3

-----------------------------------------------------------------------------
(* Directories and the cap.  Entries leave the dictionaries together with   *)
(* their directories, one holder of the lock at a time; a creation reserves *)
(* its place before it lets go of the lock.                                 *)

Critical == {"remove", "unlink", "add"}
Waiting(r) == op(r) = "create" /\ at(r) \in {"register"} \cup Critical
Registered == DOMAIN session

\* What a removal has still to remove, it has listed.
Listed(s, removal) ==
  /\ Present(s) \subseteq removal.todo
  /\ disk[s].vulnerable => removal.saw
  /\ ~disk[s].beside

Ward(r) ==
  /\ {"todo", "saw"} \subseteq DOMAIN request[r]
  /\ at(r) \in Critical => lock = r
  /\ at(r) \in {"remove", "unlink"} =>
       request[r].victims # {} /\ request[r].victims \subseteq Registered
  /\ Waiting(r) =>
       /\ sid(r) \in Sid \ Registered
       /\ disk[sid(r)].root /\ disk[sid(r)].rest
       /\ at(r) \in {"remove", "unlink"} =>
            Cardinality(Registered \ request[r].victims) < MaxSessions
  /\ at(r) = "add" => Cardinality(Registered) < MaxSessions
  /\ at(r) = "unlink" /\ Victim(r) \notin strays => Listed(Victim(r), request[r])

Ordered(e) ==
  /\ \A s \in DOMAIN e : "nth" \in DOMAIN e[s] /\ e[s].nth \in Nat
  /\ \A s, v \in DOMAIN e : s # v => e[s].nth # e[v].nth

Homes ==
  \A s \in Sid : disk[s].root =>
    s \in Registered \/ s \in strays \/ \E r \in Request : Waiting(r) /\ sid(r) = s

Store ==
  /\ issued \in Sid /\ Registered \subseteq 1 .. issued
  /\ disk \in [Sid -> Workspace]
  /\ Ordered(session)
  /\ \A s \in Registered : disk[s].root /\ disk[s].rest
  /\ Cardinality(Registered) <= MaxSessions
  /\ strays \subseteq Sid /\ Homes

Kept == Store /\ \A r \in Request : Ward(r)

\* The victim that goes next is the one registered first.
Least(V, e) == CHOOSE s \in V : \A v \in V \ {s} : e[s].nth < e[v].nth

LEMMA LeastIs ==
  ASSUME NEW e, Ordered(e), NEW V \in SUBSET DOMAIN e, V # {}
  PROVE  Least(V, e) \in V /\ \A v \in V \ {Least(V, e)} : e[Least(V, e)].nth < e[v].nth
  <1> DEFINE N == {e[s].nth : s \in V}
  <1>1. N \in SUBSET Nat /\ N # {}
    BY DEF Ordered
  <1>2. PICK n \in N : \A m \in N : n <= m
    BY <1>1, Minimum
  <1>3. PICK s \in V : e[s].nth = n
    BY <1>2
  <1>4. \A v \in V \ {s} : e[s].nth < e[v].nth
    <2> SUFFICES ASSUME NEW v \in V \ {s}
                 PROVE  e[s].nth < e[v].nth
      OBVIOUS
    <2>1. e[v].nth \in N /\ e[s].nth <= e[v].nth
      BY <1>2, <1>3
    <2>2. e[s].nth # e[v].nth /\ e[s].nth \in Nat /\ e[v].nth \in Nat
      BY DEF Ordered
    <2> QED
      BY <2>1, <2>2
  <1> QED
    BY <1>4 DEF Least

\* Which one it is depends on the numbers of the entries only.
LEMMA LeastSame ==
  ASSUME NEW e, Ordered(e), NEW d, Ordered(d), NEW V, V # {},
         V \subseteq DOMAIN e, V \subseteq DOMAIN d,
         \A s \in V : d[s].nth = e[s].nth
  PROVE  Least(V, d) = Least(V, e)
  <1> DEFINE s == Least(V, e)
             t == Least(V, d)
  <1>1. s \in V /\ \A v \in V \ {s} : e[s].nth < e[v].nth
    BY LeastIs
  <1>2. t \in V /\ \A v \in V \ {t} : d[t].nth < d[v].nth
    BY LeastIs
  <1> HIDE DEF s, t
  <1>3. CASE s # t
    <2>1. e[s].nth < e[t].nth /\ d[t].nth < d[s].nth
      BY <1>1, <1>2, <1>3
    <2>2. e[s].nth \in Nat /\ e[t].nth \in Nat /\ d[t].nth = e[t].nth /\ d[s].nth = e[s].nth
      BY <1>1, <1>2 DEF Ordered
    <2> QED
      BY <2>1, <2>2
  <1> QED
    BY <1>3 DEF s, t

LEMMA VictimIs ==
  ASSUME Kept, NEW r \in Request, at(r) \in {"remove", "unlink"}
  PROVE  /\ Victim(r) = Least(request[r].victims, session)
         /\ Victim(r) \in request[r].victims /\ Victim(r) \in Registered /\ Victim(r) \in Sid
  <1>1. Victim(r) = Least(request[r].victims, session)
    BY DEF Victim, Least
  <1>2. /\ request[r].victims # {} /\ request[r].victims \subseteq DOMAIN session
        /\ Ordered(session)
    BY DEF Kept, Store, Ward, Registered
  <1>3. Victim(r) \in request[r].victims
    BY <1>1, <1>2, LeastIs
  <1>4. Registered \subseteq Sid
    BY WorkspacesAssumption DEF WorkspacesAssumption, Kept, Store, Sid
  <1> QED
    BY <1>1, <1>2, <1>3, <1>4 DEF Registered

\* The numbers of the entries, and which they are, stay.
Same ==
  /\ DOMAIN session' = DOMAIN session
  /\ \A s \in Registered : /\ "nth" \in DOMAIN session'[s]
                           /\ session'[s].nth = session[s].nth

\* A step that leaves a directory alone, or makes less of it.
Spared(s) ==
  /\ disk'[s].root => disk[s].root
  /\ disk'[s].vulnerable => disk[s].vulnerable
  /\ disk'[s].beside => disk[s].beside
  /\ Present(s)' \subseteq Present(s)

\* A step adds to a directory that is not the manager's to remove only on record.
Recorded ==
  /\ strays \subseteq strays' /\ strays' \subseteq Sid
  /\ \A s \in Sid \ strays' : Unkept(s) => Spared(s)

\* It loses no directory either.
Safe ==
  /\ disk' \in [Sid -> Workspace]
  /\ \A s \in Sid : (disk[s].root => disk'[s].root) /\ (disk[s].rest => disk'[s].rest)
  /\ Recorded

\* A step that registers, removes and copies no session: it may take the lock
\* if it is free.
Still(r) ==
  /\ \A q \in Request \ {r} : request'[q] = request[q]
  /\ Same /\ issued' = issued
  /\ lock' = lock \/ lock = NoRequest
  /\ Safe
  /\ Waiting(r)' <=> Waiting(r)
  /\ Waiting(r) => sid(r)' = sid(r)

LEMMA SameOrder ==
  ASSUME Ordered(session), Same
  PROVE  Ordered(session')
  BY DEF Ordered, Same, Registered

LEMMA StillKept ==
  ASSUME Kept, NEW r \in Request, Still(r), Ward(r)'
  PROVE  Kept'
  <1>1. Ordered(session) /\ Ordered(session') /\ Registered' = Registered
    BY SameOrder DEF Kept, Store, Still, Same, Registered
  <1>2. NoRequest \notin Request /\ Registered \subseteq Sid
    BY WorkspacesAssumption DEF WorkspacesAssumption, Kept, Store, Sid
  <1>3. ASSUME NEW q \in Request \ {r} PROVE Ward(q)'
    <2>1. /\ request'[q] = request[q] /\ Ward(q)
          /\ at(q)' = at(q) /\ op(q)' = op(q) /\ sid(q)' = sid(q)
      BY DEF Still, Kept, at, op, sid
    <2>2. Waiting(q)' <=> Waiting(q)
      BY <2>1 DEF Waiting
    <2>3. at(q) \in Critical => lock = q /\ lock' = q /\ lock # r
      BY <1>2, <2>1 DEF Ward, Still
    <2>4. Waiting(q) => sid(q) \in Sid /\ disk'[sid(q)].root /\ disk'[sid(q)].rest
      BY <2>1 DEF Ward, Still, Safe
    <2>5. at(q) = "unlink" => Victim(q)' = Victim(q)
      <3>1. ASSUME at(q) = "unlink"
            PROVE  Victim(q)' = Victim(q)
        <4>1. Victim(q) = Least(request[q].victims, session)
          BY DEF Victim, Least
        <4>2. Victim(q)' = Least(request[q].victims, session')
          BY <2>1 DEF Victim, Least
        <4>3. request[q].victims # {} /\ request[q].victims \subseteq Registered
          BY <2>1, <3>1 DEF Ward
        <4>4. DOMAIN session' = Registered
              /\ \A s \in request[q].victims : session'[s].nth = session[s].nth
          BY <4>3 DEF Still, Same, Registered
        <4> QED
          BY <1>1, <4>1, <4>2, <4>3, <4>4, LeastSame DEF Registered
      <3> QED
        BY <3>1
    <2>6. ASSUME at(q) = "unlink", Victim(q)' \notin strays'
          PROVE  Listed(Victim(q), request[q])'
      <3> DEFINE v == Victim(q)
      <3>1. Victim(q) \in Sid /\ Unkept(Victim(q))
        BY <2>6, VictimIs DEF Unkept
      <3>2. v' = v
        BY <2>5, <2>6
      <3>3. v \in Sid \ strays' /\ v \notin strays /\ Unkept(v)
        BY <2>6, <3>1, <3>2 DEF Still, Safe, Recorded
      <3>4. Listed(v, request[q])
        BY <2>1, <2>6, <3>3 DEF Ward
      <3>5. Spared(v)
        BY <3>3 DEF Still, Safe, Recorded
      <3>6. v \in Sid \ strays'
        BY <3>3
      <3> HIDE DEF v
      <3>7. Listed(v, request[q])'
        BY <2>1, <3>2, <3>4, <3>5 DEF Listed, Spared, Present
      <3> QED
        BY <3>7 DEF v
    <2> QED
      BY <1>1, <2>1, <2>2, <2>3, <2>4, <2>6 DEF Ward
  <1>4. Homes'
    <2> SUFFICES ASSUME NEW s \in Sid, disk'[s].root, s \notin Registered, s \notin strays'
                 PROVE  \E q \in Request : Waiting(q)' /\ sid(q)' = s
      BY <1>1 DEF Homes
    <2>1. disk[s].root /\ s \notin strays
      BY DEF Still, Safe, Recorded, Spared, Unkept, Registered
    <2>2. PICK q \in Request : Waiting(q) /\ sid(q) = s
      BY <2>1 DEF Kept, Store, Homes
    <2>3. Waiting(q)' /\ sid(q)' = s
      <3>1. CASE q = r
        BY <2>2, <3>1 DEF Still
      <3>2. CASE q # r
        BY <2>2, <3>2 DEF Still, Waiting, at, op, sid
      <3> QED
        BY <3>1, <3>2
    <2> QED
      BY <2>3
  <1>5. Store'
    <2>1. \A s \in Registered : disk'[s].root /\ disk'[s].rest
      BY <1>2 DEF Kept, Store, Still, Safe
    <2> QED
      BY <1>1, <1>4, <2>1 DEF Kept, Store, Still, Safe, Recorded
  <1> QED
    BY <1>3, <1>5 DEF Kept

\* What is on disk stays where a step leaves it alone.
LEMMA DiskStill ==
  ASSUME Kept, UNCHANGED <<disk, strays>>
  PROVE  Safe
  BY DEF Kept, Store, Safe, Recorded, Spared, Present

\* What is added to a directory is on record.
LEMMA TouchSafe ==
  ASSUME Kept, NEW s \in Sid, NEW d \in Workspace, disk' = [disk EXCEPT ![s] = d],
         disk[s].root => d.root, disk[s].rest => d.rest, Touch(s)
  PROVE  Safe
  <1>1. disk \in [Sid -> Workspace] /\ strays \subseteq Sid
    BY DEF Kept, Store
  <1>2. /\ disk' \in [Sid -> Workspace] /\ disk'[s] = d
        /\ \A v \in Sid \ {s} : disk'[v] = disk[v]
    BY <1>1
  <1>3. /\ strays \subseteq strays' /\ strays' \subseteq Sid
        /\ Unkept(s) => s \in strays'
    BY <1>1 DEF Touch
  <1>4. \A v \in Sid \ {s} : Spared(v)
    BY <1>2 DEF Spared, Present
  <1>5. Recorded
    BY <1>3, <1>4 DEF Recorded
  <1> QED
    BY <1>2, <1>5 DEF Safe

\* What is taken from one need not be.
Lessens(d, e) ==
  /\ d.root = e.root /\ d.rest = e.rest
  /\ d.vulnerable => e.vulnerable
  /\ d.beside => e.beside
  /\ \A f \in Name : d.code[f] # "absent" => e.code[f] # "absent"

LEMMA SpareSafe ==
  ASSUME Kept, NEW s \in Sid, NEW d \in Workspace, disk' = [disk EXCEPT ![s] = d],
         Lessens(d, disk[s]), strays' = strays
  PROVE  Safe /\ Spared(s)
  <1>1. disk \in [Sid -> Workspace] /\ strays \subseteq Sid
    BY DEF Kept, Store
  <1>2. /\ disk' \in [Sid -> Workspace] /\ disk'[s] = d
        /\ \A v \in Sid \ {s} : disk'[v] = disk[v]
    BY <1>1
  <1>3. \A v \in Sid : Spared(v)
    BY <1>2 DEF Spared, Present, Lessens
  <1>4. Recorded
    BY <1>1, <1>3 DEF Recorded
  <1> QED
    BY <1>2, <1>3, <1>4 DEF Safe, Lessens

\* A step of a request that neither holds the lock nor is to register: all
\* that matters is where it goes.
Walks(r) ==
  /\ \A q \in Request \ {r} : request'[q] = request[q]
  /\ at(r) \notin Critical /\ ~Waiting(r) /\ at(r)' \notin Critical /\ ~Waiting(r)'
  /\ DOMAIN request[r] \subseteq DOMAIN request'[r]

LEMMA WalksKept ==
  ASSUME Kept, NEW r \in Request, Walks(r), Same, UNCHANGED <<lock, disk, issued, strays>>
  PROVE  Kept'
  <1>1. Still(r)
    BY DiskStill DEF Walks, Still
  <1>2. {"todo", "saw"} \subseteq DOMAIN request[r]
    BY DEF Kept, Ward
  <1>3. Ward(r)'
    BY <1>2 DEF Walks, Ward, Critical
  <1> QED
    BY <1>1, <1>3, StillKept

LEMMA SessionSame ==
  ASSUME Kept, session' = session
  PROVE  Same
  BY DEF Kept, Store, Ordered, Same, Registered

LEMMA BeginKept ==
  ASSUME Fated, Kept, NEW r \in Request, Begin(r)
  PROVE  Kept'
  <1>1. Fate(r) /\ Ward(r) /\ request = [q \in Request |-> request[q]] /\ at(r) = "idle"
    BY DEF Fated, Kept, Begin
  <1>2. Asks[r] \subseteq Operations
    BY WorkspacesAssumption DEF WorkspacesAssumption
  <1>3. PICK asked \in Asks[r] :
          IF asked = "create"
          THEN request' = [request EXCEPT ![r].op = asked, ![r].at = "materialize"]
          ELSE \E s \in known :
                 request' = [request EXCEPT ![r].op = asked, ![r].sid = s, ![r].at = "path",
                                            ![r].stale = s \in deleted]
    BY DEF Begin
  <1>4. {"op", "at"} \subseteq DOMAIN request[r]
    BY <1>1 DEF Fate, Fields
  <1>5. /\ \A q \in Request \ {r} : request'[q] = request[q]
        /\ DOMAIN request[r] \subseteq DOMAIN request'[r]
        /\ request'[r].op = asked /\ request'[r].at \in {"materialize", "path"}
    <2>1. CASE asked = "create"
      <3>1. request' = [request EXCEPT ![r].op = asked, ![r].at = "materialize"]
        BY <1>3, <2>1
      <3> QED
        BY <1>1, <1>4, <3>1
    <2>2. CASE asked # "create"
      <3>1. PICK s \in known :
              request' = [request EXCEPT ![r].op = asked, ![r].sid = s, ![r].at = "path",
                                         ![r].stale = s \in deleted]
        BY <1>3, <2>2
      <3> QED
        BY <1>1, <1>4, <3>1
    <2> QED
      BY <2>1, <2>2
  <1>6. Walks(r)
    BY <1>1, <1>5 DEF Walks, Waiting, Critical, at, op
  <1>7. Same /\ UNCHANGED <<lock, disk, issued, strays>>
    BY SessionSame DEF Begin
  <1> QED
    BY <1>6, <1>7, WalksKept

\* The answers of the lookups, and runs, which read directories only.
LEMMA RunKept ==
  ASSUME Fated, Kept, NEW r \in Request,
         TakeSlot(r) \/ TimeOut(r) \/ EndRun(r) \/ Board(r) \/ Record(r) \/ Created(r)
  PROVE  Kept'
  <1>1. Fate(r) /\ Ward(r) /\ request = [q \in Request |-> request[q]]
    BY DEF Fated, Kept
  <1>2. {"op", "at", "answer"} \subseteq DOMAIN request[r]
    BY <1>1 DEF Fate, Fields
  <1>3. /\ at(r) \in {"slot", "running", "killed", "board", "record", "created"}
        /\ \/ \E next \in {"running", "killed", "board", "record"} : Goto(r, next)
           \/ \E answer \in {"ok", "error"} : Answer(r, answer)
        /\ UNCHANGED <<lock, disk, issued, strays>>
    BY DEF TakeSlot, TimeOut, EndRun, Board, Record, Created
  <1>4. /\ \A q \in Request \ {r} : request'[q] = request[q]
        /\ DOMAIN request[r] \subseteq DOMAIN request'[r]
        /\ request'[r].op = op(r)
        /\ request'[r].at \in {"running", "killed", "board", "record", "answered"}
    BY <1>1, <1>2, <1>3 DEF Goto, Answer, op
  <1>5. Walks(r)
    BY <1>1, <1>3, <1>4 DEF Ward, Walks, Waiting, Critical, at, op
  <1>6. Same
    <2>1. CASE session' = session
      BY <2>1, SessionSame
    <2>2. CASE /\ sid(r) \in DOMAIN session
               /\ session' = [session EXCEPT ![sid(r)].runs = @ + 1]
      <3>1. \A s \in Registered : "nth" \in DOMAIN session[s]
        BY DEF Kept, Store, Ordered, Registered
      <3> QED
        BY <2>2, <3>1 DEF Same, Registered
    <2> QED
      BY <2>1, <2>2 DEF TakeSlot, TimeOut, EndRun, Board, Record, Created
  <1> QED
    BY <1>3, <1>5, <1>6, WalksKept

\* An entry about to be removed by a lookup or a deletion: the lock was free.
Doomed(r) ==
  /\ \A q \in Request \ {r} : request'[q] = request[q]
  /\ DOMAIN request[r] \subseteq DOMAIN request'[r]
  /\ request'[r].op = op(r) /\ request'[r].at = "remove" /\ request'[r].victims = {sid(r)}

LEMMA VictimKept ==
  ASSUME Fated, Kept, NEW r \in Request,
         at(r) \in {"path", "writable", "dest", "again", "readonly", "cleanup"},
         sid(r) \in DOMAIN session, lock = NoRequest, lock' = r, Doomed(r),
         UNCHANGED <<session, disk, issued, strays>>
  PROVE  Kept'
  <1>1. Fate(r) /\ Ward(r) /\ request = [q \in Request |-> request[q]]
    BY DEF Fated, Kept
  <1>2. op(r) # "create"
    BY <1>1 DEF Fate, Making
  <1>3. ~Waiting(r) /\ ~Waiting(r)'
    BY <1>2 DEF Waiting, Doomed, op
  <1>4. Still(r)
    BY <1>3, DiskStill, SessionSame DEF Still, Doomed
  <1>5. Ward(r)'
    BY <1>1, <1>3 DEF Ward, Critical, Registered, Doomed, at, op
  <1> QED
    BY <1>4, <1>5, StillKept

LEMMA PathKept ==
  ASSUME Fated, Kept, NEW r \in Request, Path(r)
  PROVE  Kept'
  <1>1. Fate(r) /\ Ward(r) /\ request = [q \in Request |-> request[q]]
    BY DEF Fated, Kept
  <1>2. {"op", "at", "answer", "victims"} \subseteq DOMAIN request[r]
    BY <1>1 DEF Fate, Fields
  <1>3. /\ at(r) \in {"path", "writable", "dest", "again", "readonly"}
        /\ lock = NoRequest /\ Same /\ UNCHANGED <<session, disk, issued, strays>>
    BY SessionSame DEF Path
  <1>4. CASE lock' = lock /\ (Answer(r, "ok") \/ Answer(r, Refusal(at(r))))
    <2>1. /\ \A q \in Request \ {r} : request'[q] = request[q]
          /\ DOMAIN request[r] \subseteq DOMAIN request'[r]
          /\ request'[r].op = op(r) /\ request'[r].at = "answered"
      BY <1>1, <1>2, <1>4 DEF Answer, op
    <2>2. Walks(r)
      BY <1>1, <1>3, <2>1 DEF Ward, Walks, Waiting, Critical, at, op
    <2> QED
      BY <1>3, <1>4, <2>2, WalksKept
  <1>5. CASE lock' = lock /\ at(r) # "readonly" /\ Goto(r, AfterPath(request[r].op, at(r)))
    <2> DEFINE next == AfterPath(request[r].op, at(r))
    <2>1. next \in {"writable", "dest", "again", "slot", "cleanup", "write", "scan"}
      BY <1>1, <1>3, <1>5 DEF AfterPath, Fate, Operations, Making, op, at
    <2> HIDE DEF next
    <2>2. /\ \A q \in Request \ {r} : request'[q] = request[q]
          /\ DOMAIN request[r] \subseteq DOMAIN request'[r]
          /\ request'[r].op = op(r) /\ request'[r].at = next
      BY <1>1, <1>2, <1>5 DEF Goto, op, next
    <2>3. Walks(r)
      BY <1>1, <1>3, <2>1, <2>2 DEF Ward, Walks, Waiting, Critical, at, op
    <2> QED
      BY <1>3, <1>5, <2>3, WalksKept
  <1>6. CASE /\ sid(r) \in DOMAIN session /\ lock' = r
             /\ request' = [request EXCEPT ![r].at = "remove", ![r].victims = {sid(r)},
                                           ![r].answer = Refusal(at(r))]
    <2>1. Doomed(r)
      BY <1>1, <1>2, <1>6 DEF Doomed, op
    <2> QED
      BY <1>3, <1>6, <2>1, VictimKept
  <1> QED
    BY <1>4, <1>5, <1>6 DEF Path

LEMMA CleanupKept ==
  ASSUME Fated, Kept, NEW r \in Request, Cleanup(r)
  PROVE  Kept'
  <1>1. Fate(r) /\ Ward(r) /\ request = [q \in Request |-> request[q]]
    BY DEF Fated, Kept
  <1>2. {"op", "at", "answer", "victims"} \subseteq DOMAIN request[r]
    BY <1>1 DEF Fate, Fields
  <1>3. CASE sid(r) \in DOMAIN session
    <2>1. /\ at(r) = "cleanup" /\ lock = NoRequest /\ lock' = r
          /\ request' = [request EXCEPT ![r].at = "remove", ![r].victims = {sid(r)},
                                        ![r].answer = "ok"]
          /\ UNCHANGED <<session, disk, issued, strays>>
      BY <1>3 DEF Cleanup
    <2>2. Doomed(r)
      BY <1>1, <1>2, <2>1 DEF Doomed, op
    <2> QED
      BY <1>3, <2>1, <2>2, VictimKept
  <1>4. CASE sid(r) \notin DOMAIN session
    <2>1. at(r) = "cleanup" /\ Answer(r, "ok") /\ Same /\ UNCHANGED <<lock, disk, issued, strays>>
      BY <1>4, SessionSame DEF Cleanup
    <2>2. /\ \A q \in Request \ {r} : request'[q] = request[q]
          /\ DOMAIN request[r] \subseteq DOMAIN request'[r]
          /\ request'[r].op = op(r) /\ request'[r].at = "answered"
      BY <1>1, <1>2, <2>1 DEF Answer, op
    <2>3. Walks(r)
      BY <1>1, <2>1, <2>2 DEF Ward, Walks, Waiting, Critical, at, op
    <2> QED
      BY <2>1, <2>3, WalksKept
  <1> QED
    BY <1>3, <1>4

\* _reap_locked leaves room for one more.
LEMMA ReapMakesRoom ==
  ASSUME Kept
  PROVE  LET live == DOMAIN session \ Expired
             victims == Expired \cup Oldest(live, Excess(live))
         IN victims \subseteq Registered /\ Cardinality(Registered \ victims) < MaxSessions
  <1> DEFINE live == DOMAIN session \ Expired
             victims == Expired \cup Oldest(live, Excess(live))
  <1>1. MaxSessions \in Nat \ {0} /\ MaxSid \in Nat
    BY WorkspacesAssumption DEF WorkspacesAssumption
  <1>2. IsFiniteSet(Registered) /\ Cardinality(Registered) <= MaxSessions
    <2>1. IsFiniteSet(1 .. issued) /\ Registered \subseteq 1 .. issued
      BY <1>1, FS_Interval DEF Kept, Store, Sid
    <2> QED
      BY <2>1, FS_Subset DEF Kept, Store
  <1>3. /\ live \subseteq Registered /\ victims \subseteq Registered
        /\ Registered \ victims \subseteq live
    BY DEF Registered, Expired, Oldest
  <1>4. /\ IsFiniteSet(live) /\ Cardinality(live) \in Nat
        /\ Cardinality(live) <= Cardinality(Registered) /\ Cardinality(Registered) \in Nat
    BY <1>2, <1>3, FS_Subset, FS_CardinalityType
  <1>5. ASSUME Cardinality(live) < MaxSessions
        PROVE  Cardinality(Registered \ victims) < MaxSessions
    <2>1. Cardinality(Registered \ victims) <= Cardinality(live)
          /\ Cardinality(Registered \ victims) \in Nat
      BY <1>3, <1>4, FS_Subset, FS_CardinalityType
    <2> QED
      BY <1>1, <1>3, <1>4, <1>5, <2>1
  <1>6. ASSUME Cardinality(live) >= MaxSessions
        PROVE  Cardinality(Registered \ victims) < MaxSessions
    <2>1. live # {}
      BY <1>1, <1>6, FS_EmptySet
    <2>2. Ordered(session) /\ live \in SUBSET DOMAIN session
      BY <1>3 DEF Kept, Store, Registered
    <2> DEFINE s == Least(live, session)
    <2>3. s \in live /\ \A v \in live \ {s} : session[s].nth < session[v].nth
      BY <2>1, <2>2, LeastIs
    <2> HIDE DEF s, live
    <2>4. \A v \in live : ~(session[v].nth < session[s].nth)
      <3>1. \A v \in live : session[v].nth \in Nat /\ session[s].nth \in Nat
        BY <2>2, <2>3 DEF Ordered
      <3> QED
        BY <2>3, <3>1
    <2>5. {v \in live : session[v].nth < session[s].nth} = {}
      BY <2>4
    <2>6. Cardinality({v \in live : session[v].nth < session[s].nth}) = 0
      BY <2>5, FS_EmptySet
    <2>7. Excess(live) > 0
      BY <1>1, <1>4, <1>6 DEF Excess
    <2>8. s \in victims
      BY <2>3, <2>6, <2>7 DEF Oldest
    <2>9. Registered \ victims \subseteq live \ {s}
      BY <1>3, <2>8
    <2>10. IsFiniteSet(live \ {s}) /\ Cardinality(live \ {s}) = Cardinality(live) - 1
      BY <1>4, <2>3, FS_RemoveElement
    <2>11. Cardinality(Registered \ victims) <= Cardinality(live) - 1
           /\ Cardinality(Registered \ victims) \in Nat
      BY <2>9, <2>10, FS_Subset, FS_CardinalityType
    <2> HIDE DEF victims
    <2> QED
      BY <1>1, <1>2, <1>4, <2>11
  <1>7. victims \subseteq Registered /\ Cardinality(Registered \ victims) < MaxSessions
    <2> HIDE DEF live, victims
    <2> QED
      BY <1>1, <1>3, <1>4, <1>5, <1>6
  <1> QED
    BY <1>7

LEMMA RegisterKept ==
  ASSUME Fated, Kept, NEW r \in Request, Register(r)
  PROVE  Kept'
  <1>1. Fate(r) /\ Ward(r) /\ request = [q \in Request |-> request[q]]
    BY DEF Fated, Kept
  <1>2. {"op", "at", "sid", "victims"} \subseteq DOMAIN request[r]
    BY <1>1 DEF Fate, Fields
  <1>3. op(r) = "create" /\ Waiting(r)
    BY <1>1 DEF Register, Fate, Making, Waiting
  <1>4. PICK victims :
          /\ victims \subseteq Registered /\ Cardinality(Registered \ victims) < MaxSessions
          /\ request' = [request EXCEPT ![r].victims = victims,
                                        ![r].at = IF victims = {} THEN "add" ELSE "remove"]
    BY ReapMakesRoom DEF Register
  <1>5. lock = NoRequest /\ lock' = r /\ Same /\ UNCHANGED <<session, disk, issued, strays>>
    BY SessionSame DEF Register
  <1>6. /\ \A q \in Request \ {r} : request'[q] = request[q]
        /\ DOMAIN request[r] \subseteq DOMAIN request'[r]
        /\ request'[r].op = op(r) /\ request'[r].sid = sid(r)
        /\ request'[r].victims = victims
        /\ request'[r].at = IF victims = {} THEN "add" ELSE "remove"
    BY <1>1, <1>2, <1>4 DEF op, sid
  <1>7. Waiting(r)'
    BY <1>3, <1>6 DEF Waiting, Critical, op, at
  <1>8. Still(r)
    BY <1>3, <1>5, <1>6, <1>7, DiskStill DEF Still, sid
  <1>9. Registered' = Registered
    BY <1>5 DEF Registered
  <1>10. victims = {} => Cardinality(Registered) < MaxSessions
    <2>1. ASSUME victims = {} PROVE Registered \ victims = Registered
      BY <2>1
    <2> QED
      BY <1>4, <2>1
  <1>11. Ward(r)'
    <2>1. sid(r) \in Sid \ Registered /\ disk[sid(r)].root /\ disk[sid(r)].rest
      BY <1>1, <1>3 DEF Ward
    <2>2. sid(r)' = sid(r) /\ op(r)' = op(r) /\ at(r)' \in {"add", "remove"}
      BY <1>6 DEF sid, op, at
    <2>3. at(r)' = IF victims = {} THEN "add" ELSE "remove"
      BY <1>6 DEF at
    <2>4. UNCHANGED disk /\ lock' = r /\ request'[r].victims = victims
      BY <1>5, <1>6
    <2>5. {"todo", "saw"} \subseteq DOMAIN request'[r]
      BY <1>1, <1>6 DEF Ward
    <2>6. Cardinality(Registered \ request[r].victims)' = Cardinality(Registered \ victims)
      BY <1>9, <2>4
    <2>7. Cardinality(Registered)' = Cardinality(Registered)
      BY <1>9
    <2> QED
      BY <1>4, <1>9, <1>10, <2>1, <2>2, <2>3, <2>4, <2>5, <2>6, <2>7
         DEF Ward, Critical
  <1> QED
    BY <1>8, <1>11, StillKept

\* rmtree, before the directory itself goes: what it has listed and not yet
\* removed is all that is left, as long as nobody adds to it.
LEMMA UnlinkKept ==
  ASSUME Fated, Kept, NEW r \in Request, RemoveScan(r) \/ RemoveFile(r)
  PROVE  Kept'
  <1>1. Fate(r) /\ Ward(r) /\ request = [q \in Request |-> request[q]] /\ Store
    BY DEF Fated, Kept
  <1>2. {"op", "at", "sid", "victims", "todo", "saw"} \subseteq DOMAIN request[r]
    BY <1>1 DEF Fate, Fields, Ward
  <1>3. at(r) \in {"remove", "unlink"} /\ lock = r
    BY <1>1 DEF RemoveScan, RemoveFile, Ward, Critical
  <1>4. Victim(r) \in Sid
    BY <1>3, VictimIs
  <1>5. /\ \A q \in Request \ {r} : request'[q] = request[q]
        /\ DOMAIN request[r] \subseteq DOMAIN request'[r]
        /\ request'[r].op = op(r) /\ request'[r].sid = sid(r)
        /\ request'[r].victims = request[r].victims /\ request'[r].at = "unlink"
    <2>1. CASE RemoveScan(r)
      BY <1>1, <1>2, <2>1 DEF RemoveScan, op, sid
    <2>2. CASE RemoveFile(r)
      BY <1>1, <1>2, <2>2 DEF RemoveFile, op, sid, at
    <2> QED
      BY <2>1, <2>2
  <1>6. Same /\ UNCHANGED <<session, lock, issued>>
    BY SessionSame DEF RemoveScan, RemoveFile
  <1>7. Victim(r)' = Victim(r)
    BY <1>5, <1>6 DEF Victim
  <1>8. disk \in [Sid -> Workspace] /\ strays' = strays
    BY <1>1 DEF RemoveScan, RemoveFile, Store
  <1>9. Safe /\ (Listed(Victim(r), request[r])' \/ Victim(r) \in strays')
    <2>1. CASE RemoveScan(r)
      <3> DEFINE d == [disk[Victim(r)] EXCEPT !.beside = FALSE]
      <3>1. disk' = [disk EXCEPT ![Victim(r)] = d]
        BY <2>1 DEF RemoveScan
      <3>2. /\ d \in Workspace /\ Lessens(d, disk[Victim(r)])
            /\ d.vulnerable = disk[Victim(r)].vulnerable /\ ~d.beside
        BY <1>4, <1>8 DEF Workspace, Lessens
      <3>3. /\ request'[r].todo = Present(Victim(r))
            /\ request'[r].saw = disk[Victim(r)].vulnerable
        BY <1>1, <1>2, <2>1 DEF RemoveScan
      <3> HIDE DEF d
      <3>4. Safe /\ Spared(Victim(r)) /\ disk'[Victim(r)] = d
        BY <1>4, <1>8, <3>1, <3>2, SpareSafe
      <3>5. /\ Present(Victim(r))' \subseteq request'[r].todo
            /\ disk'[Victim(r)].vulnerable => request'[r].saw
            /\ ~disk'[Victim(r)].beside
        BY <1>7, <3>2, <3>3, <3>4 DEF Spared, Present
      <3> QED
        BY <1>7, <3>4, <3>5 DEF Listed
    <2>2. CASE RemoveFile(r)
      <3>1. PICK f \in request[r].todo :
              /\ disk' = [disk EXCEPT ![Victim(r)].code[f] = "absent"]
              /\ request' = [request EXCEPT ![r].todo = @ \ {f}]
        BY <2>2 DEF RemoveFile
      <3> DEFINE d == [disk[Victim(r)] EXCEPT !.code[f] = "absent"]
      <3>2. disk' = [disk EXCEPT ![Victim(r)] = d]
        BY <3>1
      <3>3. /\ d \in Workspace /\ Lessens(d, disk[Victim(r)])
            /\ d.beside = disk[Victim(r)].beside
            /\ d.vulnerable = disk[Victim(r)].vulnerable
            /\ \A g \in Name :
                 d.code[g] = IF g = f THEN "absent" ELSE disk[Victim(r)].code[g]
        BY <1>4, <1>8 DEF Workspace, Code, Lessens
      <3>4. request'[r].todo = request[r].todo \ {f} /\ request'[r].saw = request[r].saw
        BY <1>1, <1>2, <3>1
      <3>5. at(r) = "unlink"
        BY <2>2 DEF RemoveFile
      <3> HIDE DEF d
      <3>6. Safe /\ Spared(Victim(r)) /\ disk'[Victim(r)] = d
        BY <1>4, <1>8, <3>2, <3>3, SpareSafe
      <3>7. Listed(Victim(r), request[r]) \/ Victim(r) \in strays'
        BY <1>1, <1>8, <3>5 DEF Ward
      <3>8. ASSUME Listed(Victim(r), request[r])
            PROVE  /\ Present(Victim(r))' \subseteq request'[r].todo
                   /\ disk'[Victim(r)].vulnerable => request'[r].saw
                   /\ ~disk'[Victim(r)].beside
        BY <1>7, <3>3, <3>4, <3>6, <3>8 DEF Present, Listed
      <3> QED
        BY <1>7, <3>6, <3>7, <3>8 DEF Listed
    <2> QED
      BY <2>1, <2>2
  <1>10. Waiting(r)' <=> Waiting(r)
    BY <1>3, <1>5 DEF Waiting, Critical, op, at
  <1>11. Still(r)
    BY <1>5, <1>6, <1>9, <1>10 DEF Still, sid
  <1>12. Ward(r)'
    <2>1. Registered' = Registered
      BY <1>6 DEF Registered
    <2>2. op(r)' = op(r) /\ sid(r)' = sid(r) /\ at(r)' = "unlink"
      BY <1>5 DEF op, sid, at
    <2>3. Victim(r)' \notin strays' => Listed(Victim(r), request[r])'
      BY <1>7, <1>9
    <2>4. Waiting(r) => disk'[sid(r)].root /\ disk'[sid(r)].rest
      BY <1>1, <1>9 DEF Safe, Ward
    <2> QED
      BY <1>1, <1>2, <1>3, <1>5, <1>6, <1>10, <2>1, <2>2, <2>3, <2>4 DEF Ward, Critical
  <1> QED
    BY <1>11, <1>12, StillKept

\* The sessions clients ask for are directories of the store.
LEMMA KnownIds ==
  ASSUME Fated, Kept, NEW r \in Request, op(r) \in Operations \ {"create"}
  PROVE  sid(r) \in Sid
  BY WorkspacesAssumption
     DEF WorkspacesAssumption, Fated, Fate, Registry, Kept, Store, Sid

\* Saves and resets work without the lock, on what directories hold.
LEMMA EditKept ==
  ASSUME Fated, Kept, NEW r \in Request,
         \/ Write(r) \/ ResetScan(r) \/ ResetUnlink(r) \/ ResetRmdir(r) \/ ResetMkdir(r)
         \/ ResetCopy(r) \/ ResetRead(r)
  PROVE  Kept'
  <1>1. Fate(r) /\ Ward(r) /\ request = [q \in Request |-> request[q]] /\ Store
    BY DEF Fated, Kept
  <1>2. {"op", "at", "sid", "victims", "answer", "todo", "saw"} \subseteq DOMAIN request[r]
    BY <1>1 DEF Fate, Fields, Ward
  <1>3. at(r) \in {"write", "scan", "clear", "mkdir", "copy"}
    BY DEF Write, ResetScan, ResetUnlink, ResetRmdir, ResetMkdir, ResetCopy, ResetRead
  <1>4. op(r) # "create" /\ at(r) \notin Critical /\ sid(r) \in Sid
    <2>1. op(r) \in Operations \ {"create"}
      BY <1>1, <1>3 DEF Fate, Making
    <2> QED
      BY <1>3, <2>1, KnownIds DEF Critical
  <1>5. /\ \A q \in Request \ {r} : request'[q] = request[q]
        /\ DOMAIN request[r] \subseteq DOMAIN request'[r]
        /\ request'[r].op = op(r)
        /\ request'[r].at \in {"answered", "clear", "mkdir", "copy", "readonly"}
    <2>1. CASE Write(r)
      BY <1>1, <1>2, <2>1 DEF Write, Answer, op
    <2>2. CASE ResetScan(r)
      BY <1>1, <1>2, <2>2 DEF ResetScan, Answer, op
    <2>3. CASE ResetUnlink(r)
      BY <1>1, <1>2, <2>3 DEF ResetUnlink, Answer, op, at
    <2>4. CASE ResetRmdir(r)
      BY <1>1, <1>2, <2>4 DEF ResetRmdir, Answer, Goto, op
    <2>5. CASE ResetMkdir(r)
      BY <1>1, <1>2, <2>5 DEF ResetMkdir, Answer, op
    <2>6. CASE ResetCopy(r)
      <3>1. PICK f \in request[r].todo :
              request' = [request EXCEPT ![r].todo = @ \ {f},
                                         ![r].failed = @ \/ ~disk[sid(r)].vulnerable]
        BY <2>6 DEF ResetCopy
      <3>2. at(r) = "copy"
        BY <2>6 DEF ResetCopy
      <3> QED
        BY <1>1, <1>2, <3>1, <3>2 DEF op, at
    <2>7. CASE ResetRead(r)
      BY <1>1, <1>2, <2>7 DEF ResetRead, Reading, Answer, op
    <2> QED
      BY <2>1, <2>2, <2>3, <2>4, <2>5, <2>6, <2>7
  <1>6. ~Waiting(r) /\ ~Waiting(r)' /\ at(r)' \notin Critical
    BY <1>4, <1>5 DEF Waiting, Critical, op, at
  <1>7. Same /\ UNCHANGED <<session, lock, issued>>
    BY SessionSame
       DEF Write, ResetScan, ResetUnlink, ResetRmdir, ResetMkdir, ResetCopy, ResetRead
  <1>8. Safe
    <2> DEFINE here == disk[sid(r)]
    <2>1. disk \in [Sid -> Workspace] /\ here \in Workspace
      BY <1>1, <1>4 DEF Store
    <2>2. CASE UNCHANGED <<disk, strays>>
      BY <2>2, DiskStill
    <2>3. ASSUME NEW f, NEW text \in Text, Touch(sid(r)),
                 disk' = [disk EXCEPT ![sid(r)].code[f] = text]
          PROVE  Safe
      <3> DEFINE d == [here EXCEPT !.code[f] = text]
      <3>1. d \in Workspace /\ d.root = here.root /\ d.rest = here.rest
        BY <2>1 DEF Workspace, Code
      <3>2. disk' = [disk EXCEPT ![sid(r)] = d]
        BY <2>3
      <3> HIDE DEF d
      <3> QED
        BY <1>4, <2>3, <3>1, <3>2, TouchSafe
    <2>4. CASE /\ disk' = [disk EXCEPT ![sid(r)].vulnerable = TRUE, ![sid(r)].root = TRUE]
               /\ Touch(sid(r))
      <3> DEFINE d == [here EXCEPT !.vulnerable = TRUE, !.root = TRUE]
      <3>1. d \in Workspace /\ d.root /\ d.rest = here.rest
        BY <2>1 DEF Workspace
      <3>2. disk' = [disk EXCEPT ![sid(r)] = d]
        BY <1>4, <2>1, <2>4
      <3> HIDE DEF d
      <3> QED
        BY <1>4, <2>4, <3>1, <3>2, TouchSafe
    <2>5. ASSUME NEW f, disk' = [disk EXCEPT ![sid(r)].code[f] = "absent"], strays' = strays
          PROVE  Safe
      <3> DEFINE d == [here EXCEPT !.code[f] = "absent"]
      <3>1. d \in Workspace /\ Lessens(d, here)
        BY <2>1 DEF Workspace, Code, Lessens
      <3>2. disk' = [disk EXCEPT ![sid(r)] = d]
        BY <2>5
      <3> HIDE DEF d
      <3> QED
        BY <1>4, <2>5, <3>1, <3>2, SpareSafe
    <2>6. CASE disk' = [disk EXCEPT ![sid(r)].vulnerable = FALSE] /\ strays' = strays
      <3> DEFINE d == [here EXCEPT !.vulnerable = FALSE]
      <3>1. d \in Workspace /\ Lessens(d, here)
        BY <2>1 DEF Workspace, Lessens
      <3>2. disk' = [disk EXCEPT ![sid(r)] = d]
        BY <2>6
      <3> HIDE DEF d
      <3> QED
        BY <1>4, <2>6, <3>1, <3>2, SpareSafe
    <2>7. CASE Write(r)
      BY <2>2, <2>3, <2>7 DEF Write, Text
    <2>8. CASE ResetUnlink(r)
      BY <2>2, <2>5, <2>8 DEF ResetUnlink
    <2>9. CASE ResetCopy(r)
      <3>1. PICK f \in request[r].todo :
              \/ disk' = [disk EXCEPT ![sid(r)].code[f] = "lab"] /\ Touch(sid(r))
              \/ UNCHANGED <<disk, strays>>
        BY <2>9 DEF ResetCopy
      <3> QED
        BY <2>2, <2>3, <3>1 DEF Text
    <2>10. CASE ResetScan(r) \/ ResetRead(r)
      BY <2>2, <2>10 DEF ResetScan, ResetRead
    <2>11. CASE ResetRmdir(r)
      BY <2>2, <2>6, <2>11 DEF ResetRmdir
    <2>12. CASE ResetMkdir(r)
      BY <2>2, <2>4, <2>12 DEF ResetMkdir
    <2> QED
      BY <2>7, <2>8, <2>9, <2>10, <2>11, <2>12
  <1>9. Still(r)
    BY <1>5, <1>6, <1>7, <1>8 DEF Still
  <1>10. Ward(r)'
    <2>1. {"todo", "saw"} \subseteq DOMAIN request'[r]
      BY <1>2, <1>5
    <2> QED
      BY <1>6, <2>1 DEF Ward, Critical
  <1> QED
    BY <1>9, <1>10, StillKept

\* So does the child of a run.
LEMMA ScribbleKept ==
  ASSUME Fated, Kept, NEW r \in Request, Scribble(r)
  PROVE  Kept'
  <1>1. at(r) \in {"running", "killed"} /\ Fate(r) /\ Ward(r)
    BY DEF Scribble, Fated, Kept
  <1>2. sid(r) \in Sid /\ ~Waiting(r)
    <2>1. op(r) \in Operations \ {"create"}
      BY <1>1 DEF Fate, Making
    <2> QED
      BY <2>1, KnownIds DEF Waiting
  <1>3. UNCHANGED <<request, lock, session, issued>> /\ Touch(sid(r))
    BY DEF Scribble
  <1>4. Safe
    <2> DEFINE here == disk[sid(r)]
               inside == [here EXCEPT !.code[Litter] = "edit", !.vulnerable = TRUE, !.root = TRUE]
               outside == [here EXCEPT !.beside = TRUE, !.root = TRUE]
    <2>1. disk \in [Sid -> Workspace] /\ here \in Workspace
      BY <1>2 DEF Kept, Store
    <2>2. /\ inside \in Workspace /\ inside.root /\ inside.rest = here.rest
          /\ outside \in Workspace /\ outside.root /\ outside.rest = here.rest
      BY <2>1 DEF Workspace, Code, Text, Name
    <2>3. disk' = [disk EXCEPT ![sid(r)] = inside] \/ disk' = [disk EXCEPT ![sid(r)] = outside]
      BY <1>2, <2>1 DEF Scribble
    <2> HIDE DEF inside, outside
    <2> QED
      BY <1>2, <1>3, <2>2, <2>3, TouchSafe
  <1>5. Still(r)
    BY <1>2, <1>3, <1>4, SessionSame DEF Still, Waiting, at, op, sid
  <1>6. Ward(r)'
    BY <1>1, <1>2, <1>3 DEF Ward, Critical, Waiting, at, op
  <1> QED
    BY <1>5, <1>6, StillKept

\* A creation copies under an id of its own; one that fails leaves on record what
\* it leaves.
LEMMA MaterializeKept ==
  ASSUME Fated, Kept, NEW r \in Request, Materialize(r)
  PROVE  Kept'
  <1>1. Fate(r) /\ Ward(r) /\ request = [q \in Request |-> request[q]] /\ Store
    BY DEF Fated, Kept
  <1>2. {"op", "at", "sid"} \subseteq DOMAIN request[r] /\ MaxSid \in Nat
    BY <1>1, WorkspacesAssumption DEF Fate, Fields, WorkspacesAssumption
  <1> DEFINE n == issued + 1
  <1>3. n \in Sid /\ issued \in Nat /\ n \notin Registered /\ issued' = n
        /\ at(r) = "materialize" /\ n = issued + 1
    BY <1>1, <1>2 DEF Materialize, Store, Sid
  <1>4. op(r) = "create" /\ ~Waiting(r)
    BY <1>1, <1>3 DEF Fate, Making, Waiting, Critical
  <1>5. /\ UNCHANGED <<session, lock>>
        /\ \/ /\ disk' = [disk EXCEPT ![n] = Fresh] /\ strays' = strays
              /\ request' = [request EXCEPT ![r].at = "register", ![r].sid = n]
           \/ /\ \/ /\ disk' = [disk EXCEPT ![n] = [NoWorkspace EXCEPT !.root = TRUE]]
                    /\ strays' = strays \cup {n}
                 \/ UNCHANGED <<disk, strays>>
              /\ request' = [request EXCEPT ![r].at = "answered", ![r].sid = n,
                                            ![r].answer = "error"]
    BY <1>3 DEF Materialize
  <1>6. /\ \A q \in Request \ {r} : request'[q] = request[q]
        /\ DOMAIN request[r] \subseteq DOMAIN request'[r]
        /\ request'[r].op = op(r) /\ request'[r].sid = n
        /\ request'[r].at \in {"register", "answered"}
    <2>1. CASE request' = [request EXCEPT ![r].at = "register", ![r].sid = n]
      BY <1>1, <1>2, <2>1 DEF op
    <2>2. CASE request' = [request EXCEPT ![r].at = "answered", ![r].sid = n,
                                          ![r].answer = "error"]
      BY <1>1, <1>2, <2>2 DEF op
    <2> QED
      BY <1>5, <2>1, <2>2
  <1> HIDE DEF n
  <1>7. /\ disk' \in [Sid -> Workspace] /\ \A s \in Sid \ {n} : disk'[s] = disk[s]
        /\ strays \subseteq strays' /\ strays' \subseteq Sid
    <2>1. Fresh \in Workspace /\ [NoWorkspace EXCEPT !.root = TRUE] \in Workspace
      BY DEF Fresh, NoWorkspace, Nothing, Workspace, Code, Text, Whole
    <2>2. disk \in [Sid -> Workspace] /\ strays \subseteq Sid
      BY <1>1 DEF Store
    <2> QED
      BY <1>3, <1>5, <2>1, <2>2
  <1>8. /\ request'[r].at = "register" => disk'[n].root /\ disk'[n].rest
        /\ disk'[n].root => \/ request'[r].at = "register" \/ n \in strays'
                           \/ disk[n].root
    <2>1. disk \in [Sid -> Workspace] /\ n \in Sid
      BY <1>1, <1>3 DEF Store
    <2>2. CASE disk' = [disk EXCEPT ![n] = Fresh]
               /\ request' = [request EXCEPT ![r].at = "register", ![r].sid = n]
      <3>1. request'[r].at = "register"
        BY <1>1, <1>2, <2>2
      <3> QED
        BY <2>1, <2>2, <3>1 DEF Fresh
    <2>3. CASE /\ disk' = disk \/ n \in strays'
               /\ request' = [request EXCEPT ![r].at = "answered", ![r].sid = n,
                                             ![r].answer = "error"]
      <3>1. request'[r].at = "answered"
        BY <1>1, <1>2, <2>3
      <3> QED
        BY <2>3, <3>1
    <2> QED
      BY <1>5, <2>2, <2>3
  <1>9. Registered' = Registered /\ Registered \subseteq Sid \ {n}
    BY <1>1, <1>2, <1>3, <1>5 DEF Registered, Store, Sid
  <1>10. (Waiting(r)' <=> at(r)' = "register") /\ sid(r)' = n
    BY <1>4, <1>6 DEF Waiting, Critical, op, at, sid
  <1>11. \A q \in Request \ {r} :
           /\ at(q)' = at(q) /\ op(q)' = op(q) /\ sid(q)' = sid(q)
           /\ Waiting(q)' <=> Waiting(q)
    BY <1>6 DEF Waiting, op, at, sid
  <1>12. Ward(r)'
    <2>1. op(r)' = op(r) /\ at(r)' \in {"register", "answered"} /\ at(r)' = request'[r].at
      BY <1>6 DEF op, at
    <2>2. {"todo", "saw"} \subseteq DOMAIN request'[r]
      BY <1>1, <1>6 DEF Ward
    <2> QED
      BY <1>3, <1>4, <1>8, <1>9, <1>10, <2>1, <2>2 DEF Ward, Critical
  <1>13. ASSUME NEW q \in Request \ {r} PROVE Ward(q)'
    <2>1. Ward(q) /\ request'[q] = request[q]
      BY <1>6 DEF Kept
    <2>2. Waiting(q) => disk'[sid(q)].root /\ disk'[sid(q)].rest
      <3>1. Waiting(q) => sid(q) # n
        <4>1. Waiting(q) => sid(q) \in 1 .. issued
          BY DEF Waiting, Critical, Creating, Fated, Fate, Making
        <4> QED
          BY <1>3, <4>1
      <3> QED
        BY <1>7, <2>1, <3>1 DEF Ward
    <2>3. Victim(q)' = Victim(q)
      BY <1>5, <2>1 DEF Victim
    <2>4. at(q) = "unlink" => Victim(q) \in Sid \ {n}
      BY <1>9, VictimIs
    <2>5. at(q) = "unlink" => disk'[Victim(q)] = disk[Victim(q)]
      BY <1>7, <2>4
    <2>6. /\ at(q)' = at(q) /\ op(q)' = op(q) /\ sid(q)' = sid(q)
          /\ Waiting(q)' <=> Waiting(q)
          /\ lock' = lock /\ Registered' = Registered
      BY <1>5, <1>9, <1>11
    <2>7. (Waiting(q) =>
             /\ sid(q) \in Sid \ Registered
             /\ disk[sid(q)].root /\ disk[sid(q)].rest
             /\ at(q) \in {"remove", "unlink"} =>
                  Cardinality(Registered \ request[q].victims) < MaxSessions)'
      BY <2>1, <2>2, <2>6 DEF Ward
    <2>8. (at(q) \in {"remove", "unlink"} =>
             request[q].victims # {} /\ request[q].victims \subseteq Registered)'
      BY <2>1, <2>6 DEF Ward
    <2>9. (at(q) = "unlink" /\ Victim(q) \notin strays => Listed(Victim(q), request[q]))'
      <3> DEFINE v == Victim(q)
      <3>1. v' = v
        BY <2>3
      <3>2. at(q) = "unlink" /\ v \notin strays' => Listed(v, request[q])
        BY <1>7, <2>1 DEF Ward
      <3>3. at(q) = "unlink" => disk'[v] = disk[v]
        BY <2>5
      <3> HIDE DEF v
      <3>4. (at(q) = "unlink" /\ v \notin strays => Listed(v, request[q]))'
        BY <2>1, <2>6, <3>1, <3>2, <3>3 DEF Listed, Present
      <3> QED
        BY <3>4 DEF v
    <2> QED
      BY <2>1, <2>6, <2>7, <2>8, <2>9 DEF Ward
  <1>14. Store'
    <2>1. issued' \in Sid /\ Registered' \subseteq 1 .. issued'
      BY <1>1, <1>3, <1>9 DEF Store
    <2>2. Ordered(session)' /\ Cardinality(Registered)' <= MaxSessions
      BY <1>1, <1>5, <1>9 DEF Store
    <2>3. \A s \in Registered' : disk'[s].root /\ disk'[s].rest
      BY <1>1, <1>7, <1>9 DEF Store
    <2>4. Homes'
      <3> SUFFICES ASSUME NEW s \in Sid, disk'[s].root, s \notin Registered, s \notin strays'
                   PROVE  \E q \in Request : Waiting(q)' /\ sid(q)' = s
        BY <1>9 DEF Homes
      <3>1. CASE s = n /\ request'[r].at = "register"
        BY <1>10, <3>1 DEF at
      <3>2. CASE s # n \/ disk[n].root
        <4>1. PICK q \in Request : Waiting(q) /\ sid(q) = s
          BY <1>1, <1>7, <3>2 DEF Store, Homes
        <4> QED
          BY <1>4, <1>11, <4>1
      <3> QED
        BY <1>8, <3>1, <3>2
    <2> QED
      BY <1>7, <2>1, <2>2, <2>3, <2>4 DEF Store
  <1> QED
    BY <1>12, <1>13, <1>14 DEF Kept

LEMMA Numbers ==
  ASSUME NEW e, Ordered(e), IsFiniteSet(DOMAIN e)
  PROVE  LET N == {0} \cup {e[s].nth : s \in DOMAIN e}
         IN /\ 1 + Max(N) \in Nat
            /\ \A s \in DOMAIN e : e[s].nth < 1 + Max(N)
  <1> DEFINE M == {e[s].nth : s \in DOMAIN e}
             N == {0} \cup M
             f == [s \in DOMAIN e |-> e[s].nth]
  <1>1. f \in Surjection(DOMAIN e, M)
    BY DEF Surjection
  <1>2. IsFiniteSet(M)
    BY <1>1, FS_Surjection
  <1>3. N = M \cup {0}
    OBVIOUS
  <1>4. IsFiniteSet(N)
    BY <1>2, <1>3, FS_AddElement
  <1>5. N \in SUBSET Nat /\ N # {}
    BY DEF Ordered
  <1>6. Max(N) \in N /\ \A n \in N : Max(N) >= n
    BY <1>4, <1>5, Maximum
  <1>7. \A s \in DOMAIN e : e[s].nth \in N
    OBVIOUS
  <1> HIDE DEF N
  <1>8. 1 + Max(N) \in Nat /\ \A n \in N : n \in Nat /\ n < 1 + Max(N)
    <2> DEFINE m == Max(N)
    <2>1. m \in Nat /\ \A n \in N : n \in Nat /\ m >= n
      BY <1>5, <1>6
    <2> HIDE DEF m
    <2>2. 1 + m \in Nat /\ \A n \in N : n \in Nat /\ n < 1 + m
      BY <2>1
    <2> QED
      BY <2>2 DEF m
  <1>9. 1 + Max(N) \in Nat /\ \A s \in DOMAIN e : e[s].nth < 1 + Max(N)
    BY <1>7, <1>8
  <1> QED
    BY <1>9 DEF N

\* create: the entry takes the place that was kept for it.
LEMMA AddKept ==
  ASSUME Fated, Kept, NEW r \in Request, Add(r)
  PROVE  Kept'
  <1>1. Fate(r) /\ Ward(r) /\ request = [q \in Request |-> request[q]] /\ Store
    BY DEF Fated, Kept
  <1>2. {"op", "at", "sid"} \subseteq DOMAIN request[r]
    BY <1>1 DEF Fate, Fields
  <1>3. at(r) = "add" /\ lock = r /\ Waiting(r) /\ Creating(r)
    BY <1>1 DEF Add, Ward, Critical, Fate, Making, Waiting, Creating
  <1>4. /\ sid(r) \in Sid \ Registered /\ disk[sid(r)].root /\ disk[sid(r)].rest
        /\ Cardinality(Registered) < MaxSessions
    BY <1>1, <1>3 DEF Ward
  <1>5. UNCHANGED <<disk, issued, strays>> /\ lock' = NoRequest
    BY DEF Add
  <1>6. /\ \A q \in Request \ {r} : request'[q] = request[q]
        /\ DOMAIN request[r] \subseteq DOMAIN request'[r]
        /\ request'[r].op = op(r) /\ request'[r].at = "created"
    BY <1>1, <1>2 DEF Add, Goto, op
  <1>7. Registered' = Registered \cup {sid(r)}
    BY DEF Add, Registered
  <1>8. /\ session'[sid(r)] = NewEntry
        /\ \A s \in Registered : session'[s] = session[s]
    BY <1>4 DEF Add, Registered
  <1>9. IsFiniteSet(Registered) /\ Cardinality(Registered) \in Nat
    <2>1. IsFiniteSet(1 .. issued) /\ Registered \subseteq 1 .. issued
      BY <1>1, FS_Interval DEF Store, Sid
    <2> QED
      BY <2>1, FS_Subset, FS_CardinalityType
  <1>10. ~Waiting(r)' /\ at(r)' \notin Critical
    BY <1>6 DEF Waiting, Critical, at
  <1>11. ASSUME NEW q \in Request \ {r}
         PROVE  /\ Ward(q)
                /\ request'[q] = request[q]
                /\ at(q)' = at(q) /\ op(q)' = op(q) /\ sid(q)' = sid(q)
                /\ Waiting(q)' <=> Waiting(q)
                /\ at(q) \notin Critical
                /\ Waiting(q) => sid(q) # sid(r)
    <2>1. Ward(q) /\ request'[q] = request[q]
      BY <1>6 DEF Kept
    <2>2. at(q)' = at(q) /\ op(q)' = op(q) /\ sid(q)' = sid(q)
      BY <2>1 DEF at, op, sid
    <2>3. at(q) \notin Critical
      BY <1>3, <2>1 DEF Ward
    <2>4. Waiting(q) => Creating(q)
      BY DEF Waiting, Creating, Critical
    <2> QED
      BY <1>3, <2>1, <2>2, <2>3, <2>4 DEF Waiting, Fated, Unshared
  <1>12. ASSUME NEW q \in Request \ {r} PROVE Ward(q)'
    <2>1. Waiting(q)' => /\ sid(q)' \in Sid \ Registered'
                         /\ disk'[sid(q)'].root /\ disk'[sid(q)'].rest
      BY <1>5, <1>7, <1>11 DEF Ward
    <2>2. at(q)' \notin Critical /\ request'[q] = request[q]
      BY <1>11
    <2> QED
      BY <1>11, <2>1, <2>2 DEF Ward, Critical
  <1>13. Ward(r)'
    <2>1. op(r)' = op(r) /\ at(r)' = "created" /\ op(r) = "create"
      BY <1>3, <1>6 DEF Waiting, op, at
    <2>2. {"todo", "saw"} \subseteq DOMAIN request'[r]
      BY <1>1, <1>6 DEF Ward
    <2> QED
      BY <1>10, <2>1, <2>2 DEF Ward, Critical
  <1>14. Ordered(session')
    <2>1. Ordered(session) /\ DOMAIN session = Registered /\ DOMAIN session' = Registered'
      BY <1>1 DEF Store, Registered
    <2>2. /\ "nth" \in DOMAIN NewEntry /\ NewEntry.nth \in Nat
          /\ \A s \in Registered : session[s].nth < NewEntry.nth
      <3> DEFINE N == {0} \cup {session[s].nth : s \in DOMAIN session}
      <3>1. 1 + Max(N) \in Nat /\ \A s \in DOMAIN session : session[s].nth < 1 + Max(N)
        BY <1>9, <2>1, Numbers
      <3>2. "nth" \in DOMAIN NewEntry /\ NewEntry.nth = 1 + Max(N)
        BY DEF NewEntry
      <3> QED
        BY <2>1, <3>1, <3>2
    <2>3. \A s \in Registered :
            "nth" \in DOMAIN session[s] /\ session[s].nth \in Nat /\ session[s].nth # NewEntry.nth
      BY <2>1, <2>2 DEF Ordered
    <2> HIDE DEF NewEntry
    <2>4. \A s \in Registered' : "nth" \in DOMAIN session'[s] /\ session'[s].nth \in Nat
      BY <1>7, <1>8, <2>2, <2>3
    <2>5. \A s, v \in Registered' : s # v => session'[s].nth # session'[v].nth
      BY <1>7, <1>8, <2>1, <2>3 DEF Ordered
    <2> QED
      BY <2>1, <2>4, <2>5 DEF Ordered
  <1>15. Store'
    <2>1. sid(r) \in 1 .. issued
      BY <1>3 DEF Fated, Fate
    <2>2. Cardinality(Registered)' <= MaxSessions
      <3>1. Cardinality(Registered)' = Cardinality(Registered) + 1
        BY <1>4, <1>7, <1>9, FS_AddElement
      <3>2. MaxSessions \in Nat
        BY WorkspacesAssumption DEF WorkspacesAssumption
      <3> QED
        BY <1>4, <1>9, <3>1, <3>2
    <2>3. Homes'
      <3> SUFFICES ASSUME NEW s \in Sid, disk'[s].root, s \notin Registered', s \notin strays'
                   PROVE  \E q \in Request : Waiting(q)' /\ sid(q)' = s
        BY DEF Homes
      <3>1. PICK q \in Request : Waiting(q) /\ sid(q) = s
        BY <1>1, <1>5, <1>7 DEF Store, Homes
      <3>2. q # r
        BY <1>7, <3>1
      <3> QED
        BY <1>11, <3>1, <3>2
    <2>4. disk' = disk /\ issued' = issued /\ strays' = strays
      BY <1>5
    <2>5. \A s \in Registered' : disk'[s].root /\ disk'[s].rest
      BY <1>1, <1>4, <1>7, <2>4 DEF Store
    <2>6. Registered' \subseteq 1 .. issued'
      BY <1>1, <1>7, <2>1, <2>4 DEF Store
    <2> QED
      BY <1>1, <1>14, <2>2, <2>3, <2>4, <2>5, <2>6 DEF Store
  <1> QED
    BY <1>12, <1>13, <1>15 DEF Kept

\* An entry and its directory go in one step, under the lock; if nobody
\* added to the directory, nothing of it is left.
LEMMA RemoveDirKept ==
  ASSUME Fated, Kept, NEW r \in Request, RemoveDir(r)
  PROVE  Kept'
  <1>1. Fate(r) /\ Ward(r) /\ request = [q \in Request |-> request[q]] /\ Store
    BY DEF Fated, Kept
  <1>2. {"op", "at", "sid", "victims", "todo", "saw"} \subseteq DOMAIN request[r]
    BY <1>1 DEF Fate, Fields, Ward
  <1> DEFINE s == Victim(r)
             left == request[r].victims \ {s}
  <1>3. at(r) = "unlink" /\ lock = r /\ request[r].todo = {}
    BY <1>1 DEF RemoveDir, Ward, Critical
  <1>4. s \in request[r].victims /\ s \in Registered /\ s \in Sid
    BY <1>3, VictimIs
  <1>5. disk' = [disk EXCEPT ![s] = Emptied(s, request[r].saw)] /\ UNCHANGED <<issued, strays>>
    BY DEF RemoveDir
  <1>6. Registered' = Registered \ {s} /\ \A v \in Registered \ {s} : session'[v] = session[v]
    BY DEF RemoveDir, Without, Registered
  <1>7. /\ \A q \in Request \ {r} : request'[q] = request[q]
        /\ DOMAIN request[r] \subseteq DOMAIN request'[r]
        /\ request'[r].op = op(r) /\ request'[r].sid = sid(r)
        /\ request'[r].victims = left
        /\ request'[r].at = IF left # {} THEN "remove"
                            ELSE IF op(r) = "create" THEN "add" ELSE "answered"
    BY <1>1, <1>2 DEF RemoveDir, op, sid
  <1>8. lock' = IF left = {} /\ op(r) # "create" THEN NoRequest ELSE r
    BY <1>3 DEF RemoveDir, Release, op
  <1>9. /\ disk' \in [Sid -> Workspace]
        /\ \A v \in Sid \ {s} : disk'[v] = disk[v]
        /\ s \notin strays => ~disk'[s].root
    <2> DEFINE d == Emptied(s, request[r].saw)
    <2>1. disk \in [Sid -> Workspace]
      BY <1>1 DEF Store
    <2>2. d \in Workspace
      BY <1>4, <2>1 DEF Emptied, Workspace
    <2>3. s \notin strays => ~d.root
      <3> SUFFICES ASSUME s \notin strays PROVE ~d.root
        OBVIOUS
      <3>1. Present(s) = {} /\ (disk[s].vulnerable => request[r].saw) /\ ~disk[s].beside
        BY <1>1, <1>3 DEF Ward, Listed
      <3> QED
        BY <1>4, <2>1, <3>1 DEF Emptied, Workspace
    <2> HIDE DEF d, s
    <2>4. disk' = [disk EXCEPT ![s] = d]
      BY <1>5 DEF d
    <2> QED
      BY <1>4, <2>1, <2>2, <2>3, <2>4
  <1> HIDE DEF s
  <1>10. op(r)' = op(r) /\ sid(r)' = sid(r)
         /\ at(r)' = IF left # {} THEN "remove" ELSE IF op(r) = "create" THEN "add" ELSE "answered"
    BY <1>7 DEF op, sid, at
  <1>11. Waiting(r) <=> op(r) = "create"
    BY <1>3 DEF Waiting, Critical
  <1>12. Waiting(r)' <=> Waiting(r)
    BY <1>10, <1>11 DEF Waiting, Critical
  <1>13. IsFiniteSet(Registered) /\ Cardinality(Registered) \in Nat /\ MaxSessions \in Nat
    <2>1. IsFiniteSet(1 .. issued) /\ Registered \subseteq 1 .. issued
      BY <1>1, FS_Interval DEF Store, Sid
    <2> QED
      BY <2>1, FS_Subset, FS_CardinalityType, WorkspacesAssumption DEF WorkspacesAssumption
  <1>14. ASSUME NEW q \in Request \ {r}
         PROVE  /\ Ward(q)
                /\ request'[q] = request[q]
                /\ at(q)' = at(q) /\ op(q)' = op(q) /\ sid(q)' = sid(q)
                /\ Waiting(q)' <=> Waiting(q)
                /\ at(q) \notin Critical
    <2>1. Ward(q) /\ request'[q] = request[q]
      BY <1>7 DEF Kept
    <2>2. at(q)' = at(q) /\ op(q)' = op(q) /\ sid(q)' = sid(q)
      BY <2>1 DEF at, op, sid
    <2> QED
      BY <1>3, <2>1, <2>2 DEF Ward, Waiting
  <1>15. ASSUME NEW q \in Request \ {r} PROVE Ward(q)'
    <2>1. Waiting(q)' => /\ sid(q)' \in Sid \ Registered'
                         /\ disk'[sid(q)'].root /\ disk'[sid(q)'].rest
      <3> SUFFICES ASSUME Waiting(q)
                   PROVE  /\ sid(q) \in Sid \ Registered'
                          /\ disk'[sid(q)].root /\ disk'[sid(q)].rest
        BY <1>14
      <3>1. sid(q) \in Sid \ Registered /\ disk[sid(q)].root /\ disk[sid(q)].rest
        BY <1>14 DEF Ward
      <3> QED
        BY <1>4, <1>6, <1>9, <3>1
    <2>2. at(q)' \notin Critical /\ request'[q] = request[q]
      BY <1>14
    <2> QED
      BY <1>14, <2>1, <2>2 DEF Ward, Critical
  <1>16. Ward(r)'
    <2>1. left \subseteq Registered'
      BY <1>1, <1>3, <1>6 DEF Ward
    <2>2. Waiting(r) =>
            /\ sid(r) \in Sid \ Registered'
            /\ disk'[sid(r)].root /\ disk'[sid(r)].rest
            /\ Cardinality(Registered' \ left) < MaxSessions
      <3> SUFFICES ASSUME Waiting(r)
                   PROVE  /\ sid(r) \in Sid \ Registered'
                          /\ disk'[sid(r)].root /\ disk'[sid(r)].rest
                          /\ Cardinality(Registered' \ left) < MaxSessions
        OBVIOUS
      <3>1. /\ sid(r) \in Sid \ Registered
            /\ disk[sid(r)].root /\ disk[sid(r)].rest
            /\ Cardinality(Registered \ request[r].victims) < MaxSessions
        BY <1>1, <1>3 DEF Ward
      <3>2. Registered' \ left \subseteq Registered \ request[r].victims
        BY <1>6
      <3>3. IsFiniteSet(Registered \ request[r].victims)
        BY <1>13, FS_Subset
      <3>4. /\ Cardinality(Registered' \ left) <= Cardinality(Registered \ request[r].victims)
            /\ Cardinality(Registered' \ left) \in Nat
            /\ Cardinality(Registered \ request[r].victims) \in Nat
        BY <3>2, <3>3, FS_Subset, FS_CardinalityType
      <3> QED
        BY <1>4, <1>6, <1>9, <1>13, <3>1, <3>4
    <2>3. left = {} => Registered' \ left = Registered'
      OBVIOUS
    <2>4. /\ {"todo", "saw"} \subseteq DOMAIN request'[r]
          /\ request'[r].victims = left
      BY <1>1, <1>7 DEF Ward
    <2>5. at(r)' = "add" => Waiting(r) /\ Cardinality(Registered') < MaxSessions
      BY <1>10, <1>11, <2>2, <2>3
    <2> HIDE DEF left
    <2> QED
      BY <1>8, <1>10, <1>12, <2>1, <2>2, <2>4, <2>5 DEF Ward, Critical
  <1>17. Store'
    <2>1. Ordered(session')
      <3>1. DOMAIN session = Registered /\ DOMAIN session' = Registered'
        BY DEF Registered
      <3> QED
        BY <1>1, <1>6, <3>1 DEF Store, Ordered
    <2>2. Cardinality(Registered)' <= MaxSessions
      <3>1. Cardinality(Registered') <= Cardinality(Registered) /\ Cardinality(Registered') \in Nat
        BY <1>6, <1>13, FS_Subset, FS_CardinalityType
      <3> QED
        BY <1>1, <1>13, <3>1 DEF Store
    <2>3. Homes'
      <3> SUFFICES ASSUME NEW v \in Sid, disk'[v].root, v \notin Registered', v \notin strays'
                   PROVE  \E q \in Request : Waiting(q)' /\ sid(q)' = v
        BY DEF Homes
      <3>1. v # s /\ disk[v].root /\ v \notin Registered /\ v \notin strays
        BY <1>5, <1>6, <1>9
      <3>2. PICK q \in Request : Waiting(q) /\ sid(q) = v
        BY <1>1, <3>1 DEF Store, Homes
      <3> QED
        BY <1>10, <1>12, <1>14, <3>2
    <2>4. \A v \in Registered' : disk'[v].root /\ disk'[v].rest
      <3>1. Registered \subseteq Sid
        BY <1>1, WorkspacesAssumption DEF WorkspacesAssumption, Store, Sid
      <3> QED
        BY <1>1, <1>6, <1>9, <3>1 DEF Store
    <2>5. issued' \in Sid /\ Registered' \subseteq 1 .. issued'
      BY <1>1, <1>5, <1>6 DEF Store
    <2>6. strays' \subseteq Sid
      BY <1>1, <1>5 DEF Store
    <2> QED
      BY <1>9, <2>1, <2>2, <2>3, <2>4, <2>5, <2>6 DEF Store
  <1> QED
    BY <1>15, <1>16, <1>17 DEF Kept

LEMMA KeptInit == Init => Kept
  <1> SUFFICES ASSUME Init
               PROVE  Kept
    OBVIOUS
  <1>1. MaxSid \in Nat \ {0} /\ MaxSessions \in Nat \ {0}
    BY WorkspacesAssumption DEF WorkspacesAssumption
  <1>2. Registered = {1} /\ session[1].nth = 1 /\ "nth" \in DOMAIN session[1]
    BY DEF Init, Registered
  <1>3. disk \in [Sid -> Workspace] /\ disk[1] = Fresh
        /\ \A s \in Sid \ {1} : disk[s] = NoWorkspace
    <2>1. Fresh \in Workspace /\ NoWorkspace \in Workspace /\ 1 \in Sid
      BY <1>1 DEF Fresh, NoWorkspace, Nothing, Workspace, Code, Text, Whole, Sid
    <2> QED
      BY <2>1 DEF Init
  <1>4. Ordered(session)
    BY <1>2 DEF Ordered, Registered
  <1>5. Homes /\ \A s \in Registered : disk[s].root /\ disk[s].rest
    BY <1>2, <1>3 DEF Homes, Fresh, NoWorkspace
  <1>6. Cardinality(Registered) <= MaxSessions
    BY <1>1, <1>2, FS_Singleton
  <1>7. issued \in Sid /\ Registered \subseteq 1 .. issued /\ strays \subseteq Sid
    BY <1>1, <1>2 DEF Init, Sid
  <1>8. ASSUME NEW r \in Request PROVE Ward(r)
    <2>1. request[r] = Idle
      BY DEF Init
    <2>2. at(r) = "idle" /\ op(r) = "none" /\ {"todo", "saw"} \subseteq DOMAIN request[r]
      BY <2>1 DEF Idle, at, op
    <2> QED
      BY <2>2 DEF Ward, Waiting, Critical
  <1> QED
    BY <1>3, <1>4, <1>5, <1>6, <1>7, <1>8 DEF Kept, Store

LEMMA KeptNext == Fated /\ Kept /\ [Next]_vars => Kept'
  <1> SUFFICES ASSUME Fated, Kept, [Next]_vars
               PROVE  Kept'
    OBVIOUS
  <1>1. ASSUME NEW r \in Request, Begin(r) \/ Serve(r)
        PROVE  Kept'
    BY <1>1, BeginKept, PathKept, UnlinkKept, RemoveDirKept, CleanupKept, MaterializeKept,
       RegisterKept, AddKept, EditKept, RunKept DEF Serve
  <1>2. CASE UNCHANGED <<lock, session, disk, request, issued, strays>>
    <2>1. ASSUME NEW r \in Request PROVE Ward(r)'
      <3>1. Ward(r)
        BY DEF Kept
      <3>2. /\ at(r)' = at(r) /\ op(r)' = op(r) /\ sid(r)' = sid(r)
            /\ (Waiting(r)' <=> Waiting(r)) /\ Victim(r)' = Victim(r)
            /\ request'[r] = request[r] /\ lock' = lock
        BY <1>2 DEF at, op, sid, Waiting, Victim
      <3>3. Registered' = Registered /\ disk' = disk /\ strays' = strays
        BY <1>2 DEF Registered
      <3>4. Listed(Victim(r), request[r])' <=> Listed(Victim(r), request[r])
        BY <3>2, <3>3 DEF Listed, Present
      <3> QED
        BY <3>1, <3>2, <3>3, <3>4 DEF Ward
    <2>2. Store'
      <3>1. UNCHANGED <<issued, disk, session, Registered, strays>> /\ (Homes' <=> Homes)
        BY <1>2 DEF Registered, Homes, Waiting, at, op, sid
      <3> QED
        BY <3>1 DEF Kept, Store
    <2> QED
      BY <2>1, <2>2 DEF Kept
  <1> QED
    BY <1>1, <1>2, ScribbleKept DEF Next, Tick, Quiet, vars

LEMMA StorageInvariance == Spec => []Kept
  BY FatedInit, FatedNext, KeptInit, KeptNext, PTL DEF Spec

\* _remove_locked and create: whatever is evicted, expired, deleted, edited
\* and reset at once, a registered session has its directory.
THEOREM RegisteredKeepDirectories == Spec => []RegisteredOnDisk
  <1>1. Kept => RegisteredOnDisk
    BY DEF Kept, Store, Registered, RegisteredOnDisk
  <1> QED
    BY <1>1, StorageInvariance, PTL

\* _remove_locked and create: a directory is registered or about to be, unless it
\* was written to by a save, a reset or a child once its removal had begun, or is
\* left of a creation that failed.
THEOREM OrphansWereWrittenLate == Spec => []OrphansAreStrays
  <1>1. Kept => OrphansAreStrays
    BY DEF Kept, Store, Homes, Waiting, Critical, Registered, OrphansAreStrays, Owned, op
  <1> QED
    BY <1>1, StorageInvariance, PTL

\* _reap_locked: DVAH_MAX_SESSIONS bounds the entries, and with the creations
\* under way and the strays the directories, however many create at the same time.
THEOREM CapHolds == Spec => []WithinCap
  <1>1. ASSUME Kept PROVE WithinCap
    <2> DEFINE W == {r \in Request : Waiting(r)}
               C == {r \in Request : request[r].op = "create" /\ at(r) # "answered"}
               T == {sid(r) : r \in W}
               R == {s \in Sid : disk[s].root} \ strays
               f == [r \in W |-> sid(r)]
    <2>1. W \subseteq C /\ C \subseteq Request
      BY DEF Waiting, Critical, op
    <2>2. IsFiniteSet(C) /\ Cardinality(C) \in Nat
      BY <2>1, FS_Subset, FS_CardinalityType, WorkspacesAssumption DEF WorkspacesAssumption
    <2>3. IsFiniteSet(W) /\ Cardinality(W) <= Cardinality(C) /\ Cardinality(W) \in Nat
      BY <2>1, <2>2, FS_Subset, FS_CardinalityType
    <2>4. f \in Surjection(W, T)
      BY DEF Surjection
    <2>5. IsFiniteSet(T) /\ Cardinality(T) <= Cardinality(W) /\ Cardinality(T) \in Nat
      BY <2>3, <2>4, FS_Surjection, FS_CardinalityType
    <2>6. /\ IsFiniteSet(Registered) /\ Cardinality(Registered) \in Nat
          /\ Cardinality(Registered) <= MaxSessions /\ MaxSessions \in Nat
      <3>1. IsFiniteSet(1 .. issued) /\ Registered \subseteq 1 .. issued
        BY <1>1, FS_Interval DEF Kept, Store, Sid
      <3> QED
        BY <1>1, <3>1, FS_Subset, FS_CardinalityType, WorkspacesAssumption
           DEF WorkspacesAssumption, Kept, Store
    <2>7. R \subseteq Registered \cup T
      BY <1>1 DEF Kept, Store, Homes
    <2>8. IsFiniteSet(Registered \cup T) /\ Cardinality(Registered \cup T) \in Nat
      BY <2>5, <2>6, FS_Union, FS_CardinalityType
    <2>9. Cardinality(Registered \cup T) <= Cardinality(Registered) + Cardinality(T)
      <3>1. Cardinality(Registered \cap T) \in Nat
        BY <2>6, FS_Subset, FS_CardinalityType
      <3>2. Cardinality(Registered \cup T) =
              Cardinality(Registered) + Cardinality(T) - Cardinality(Registered \cap T)
        BY <2>5, <2>6, FS_Union
      <3> QED
        BY <2>5, <2>6, <3>1, <3>2
    <2>10. Cardinality(R) <= Cardinality(Registered \cup T) /\ Cardinality(R) \in Nat
      BY <2>7, <2>8, FS_Subset, FS_CardinalityType
    <2> HIDE DEF W, T, f
    <2>11. Cardinality(R) <= MaxSessions + Cardinality(C)
      <3> HIDE DEF R, C
      <3> QED
        BY <2>2, <2>3, <2>5, <2>6, <2>8, <2>9, <2>10
    <2> QED
      BY <2>6, <2>11 DEF WithinCap, Registered
  <1> QED
    BY <1>1, StorageInvariance, PTL

-----------------------------------------------------------------------------
(* Types: what is left once slots, ids and directories are accounted for.   *)

Sound(r) ==
  /\ at(r) \in Places
  /\ sid(r) \in 0 .. MaxSid
  /\ request[r].answer \in Answers

Typed ==
  /\ now \in 0 .. MaxClock
  /\ lock \in Request \cup {NoRequest}
  /\ \A s \in DOMAIN session : session[s] \in Entry
  /\ \A r \in Request : Sound(r)

\* A step that keeps the clock and the entries, and moves its own request.
Orderly(r) ==
  /\ now' = now
  /\ lock' \in {lock, r, NoRequest}
  /\ \A s \in DOMAIN session' : session'[s] \in Entry
  /\ \A q \in Request \ {r} : request'[q] = request[q]
  /\ Sound(r)'

LEMMA OrderlyTyped ==
  ASSUME Typed, NEW r \in Request, Orderly(r)
  PROVE  Typed'
  <1>1. ASSUME NEW q \in Request PROVE Sound(q)'
    BY DEF Typed, Orderly, Sound, at, sid
  <1> QED
    BY <1>1 DEF Typed, Orderly

LEMMA BeginTyped ==
  ASSUME Fated, Kept, Typed, NEW r \in Request, Begin(r)
  PROVE  Typed'
  <1> USE DEF Sound, at, sid
  <1>1. Sound(r) /\ Fields \subseteq DOMAIN request[r] /\ request = [q \in Request |-> request[q]]
    BY DEF Typed, Fated, Fate
  <1>2. known \subseteq 1 .. issued /\ issued \in 1 .. MaxSid /\ MaxSid \in Nat
    BY WorkspacesAssumption DEF WorkspacesAssumption, Fated, Registry, Kept, Store, Sid
  <1>3. PICK asked \in Asks[r] :
          IF asked = "create"
          THEN request' = [request EXCEPT ![r].op = asked, ![r].at = "materialize"]
          ELSE \E s \in known :
                 request' = [request EXCEPT ![r].op = asked, ![r].sid = s, ![r].at = "path",
                                            ![r].stale = s \in deleted]
    BY DEF Begin
  <1>4. UNCHANGED <<now, lock, session>>
    BY DEF Begin
  <1>5. CASE asked = "create"
    <2>1. request' = [request EXCEPT ![r].op = asked, ![r].at = "materialize"]
      BY <1>3, <1>5
    <2>2. Sound(r)' /\ \A q \in Request \ {r} : request'[q] = request[q]
      BY <1>1, <2>1 DEF Fields, Places
    <2> QED
      BY <1>4, <2>2, OrderlyTyped DEF Orderly, Typed
  <1>6. CASE asked # "create"
    <2>1. PICK s \in known :
            request' = [request EXCEPT ![r].op = asked, ![r].sid = s, ![r].at = "path",
                                       ![r].stale = s \in deleted]
      BY <1>3, <1>6
    <2>2. s \in 0 .. MaxSid
      BY <1>2
    <2>3. Sound(r)' /\ \A q \in Request \ {r} : request'[q] = request[q]
      BY <1>1, <2>1, <2>2 DEF Fields, Places
    <2> QED
      BY <1>4, <2>3, OrderlyTyped DEF Orderly, Typed
  <1> QED
    BY <1>5, <1>6

\* Where a lookup leads is a place of the program.
LEMMA PathTyped ==
  ASSUME Shaped, Fated, Typed, NEW r \in Request, Path(r)
  PROVE  Typed'
  <1> USE DEF Sound, at, sid
  <1>1. Sound(r) /\ Fields \subseteq DOMAIN request[r] /\ request = [q \in Request |-> request[q]]
    BY DEF Typed, Fated, Fate
  <1>2. UNCHANGED <<now, session>> /\ lock' \in {lock, r}
    BY DEF Path
  <1>3. Sound(r)' /\ \A q \in Request \ {r} : request'[q] = request[q]
    <2>1. CASE Answer(r, Refusal(at(r)))
      BY <1>1, <2>1 DEF Answer, Refusal, Fields, Places, Answers
    <2>2. CASE request' = [request EXCEPT ![r].at = "remove", ![r].victims = {sid(r)},
                                          ![r].answer = Refusal(at(r))]
      BY <1>1, <2>2 DEF Refusal, Fields, Places, Answers
    <2>3. CASE Answer(r, "ok")
      BY <1>1, <2>3 DEF Answer, Fields, Places, Answers
    <2>4. CASE at(r) # "readonly" /\ Goto(r, AfterPath(request[r].op, at(r)))
      <3>1. AfterPath(request[r].op, at(r)) \in
              {"writable", "dest", "again", "slot", "cleanup", "write", "scan"}
        BY <2>4 DEF Path, AfterPath, Operations, Shaped
      <3> QED
        BY <1>1, <2>4, <3>1 DEF Goto, Fields, Places
    <2> QED
      BY <2>1, <2>2, <2>3, <2>4 DEF Path
  <1> QED
    BY <1>2, <1>3, OrderlyTyped DEF Orderly, Typed

LEMMA DeletionTyped ==
  ASSUME Fated, Typed, NEW r \in Request,
         RemoveScan(r) \/ RemoveFile(r) \/ RemoveDir(r) \/ Cleanup(r)
  PROVE  Typed'
  <1> USE DEF Sound, at, sid
  <1>1. Sound(r) /\ Fields \subseteq DOMAIN request[r] /\ request = [q \in Request |-> request[q]]
    BY DEF Typed, Fated, Fate
  <1>2. Sound(r)' /\ \A q \in Request \ {r} : request'[q] = request[q]
    <2>1. CASE RemoveScan(r)
      BY <1>1, <2>1 DEF RemoveScan, Fields, Places
    <2>2. CASE RemoveFile(r)
      BY <1>1, <2>2 DEF RemoveFile, Fields, Places
    <2>3. CASE RemoveDir(r)
      BY <1>1, <2>3 DEF RemoveDir, Fields, Places
    <2>4. CASE Cleanup(r)
      BY <1>1, <2>4 DEF Cleanup, Answer, Fields, Places, Answers
    <2> QED
      BY <2>1, <2>2, <2>3, <2>4
  <1>3. now' = now /\ lock' \in {lock, r, NoRequest}
    BY DEF RemoveScan, RemoveFile, RemoveDir, Release, Cleanup
  <1>4. \A s \in DOMAIN session' : session'[s] \in Entry
    BY DEF Typed, RemoveScan, RemoveFile, RemoveDir, Without, Cleanup
  <1> QED
    BY <1>2, <1>3, <1>4, OrderlyTyped DEF Orderly

LEMMA CreationTyped ==
  ASSUME Fated, Kept, Typed, NEW r \in Request,
         Materialize(r) \/ Register(r) \/ Add(r) \/ Created(r)
  PROVE  Typed'
  <1> USE DEF Sound, at, sid
  <1>1. Sound(r) /\ Fields \subseteq DOMAIN request[r] /\ request = [q \in Request |-> request[q]]
    BY DEF Typed, Fated, Fate
  <1>2. Sound(r)' /\ \A q \in Request \ {r} : request'[q] = request[q]
    <2>1. CASE Materialize(r)
      <3>1. issued' \in 0 .. MaxSid
        BY <2>1, WorkspacesAssumption
           DEF Materialize, WorkspacesAssumption, Fated, Registry
      <3> QED
        BY <1>1, <2>1, <3>1 DEF Materialize, Fields, Places
    <2>2. CASE Register(r)
      BY <1>1, <2>2 DEF Register, Fields, Places
    <2>3. CASE Add(r)
      BY <1>1, <2>3 DEF Add, Goto, Fields, Places
    <2>4. CASE Created(r)
      BY <1>1, <2>4 DEF Created, Answer, Fields, Places, Answers
    <2> QED
      BY <2>1, <2>2, <2>3, <2>4
  <1>3. now' = now /\ lock' \in {lock, r, NoRequest}
    BY DEF Materialize, Register, Add, Created
  <1>4. \A s \in DOMAIN session' : session'[s] \in Entry
    <2>1. CASE Add(r)
      <3>1. NewEntry \in Entry
        <4>1. IsFiniteSet(1 .. issued) /\ DOMAIN session \subseteq 1 .. issued
          BY FS_Interval DEF Kept, Store, Sid, Registered
        <4>2. 1 + Max({0} \cup {session[s].nth : s \in DOMAIN session}) \in Nat
          BY <4>1, FS_Subset, Numbers DEF Kept, Store
        <4>3. now \in Nat
          BY WorkspacesAssumption DEF WorkspacesAssumption, Typed
        <4> QED
          BY <4>2, <4>3 DEF NewEntry, Entry
      <3> QED
        BY <2>1, <3>1 DEF Add, Typed
    <2>2. CASE session' = session
      BY <2>2 DEF Typed
    <2> QED
      BY <2>1, <2>2 DEF Materialize, Register, Created
  <1> QED
    BY <1>2, <1>3, <1>4, OrderlyTyped DEF Orderly

LEMMA EditTyped ==
  ASSUME Fated, Typed, NEW r \in Request,
         \/ Write(r) \/ ResetScan(r) \/ ResetUnlink(r) \/ ResetRmdir(r) \/ ResetMkdir(r)
         \/ ResetCopy(r) \/ ResetRead(r)
  PROVE  Typed'
  <1> USE DEF Sound, at, sid
  <1>1. Sound(r) /\ Fields \subseteq DOMAIN request[r] /\ request = [q \in Request |-> request[q]]
    BY DEF Typed, Fated, Fate
  <1>2. Sound(r)' /\ \A q \in Request \ {r} : request'[q] = request[q]
    <2> USE DEF Answer, Goto, Fields, Places, Answers
    <2>1. CASE Write(r)
      <3>1. /\ at(r) = "write"
            /\ UNCHANGED <<now, lock, session, slots, issued, known, deleted>>
            /\ Answer(r, "ok") \/ Answer(r, "error")
        BY <2>1, WriteStep
      <3> QED
        BY <1>1, <3>1
    <2>2. CASE ResetScan(r)
      BY <1>1, <2>2 DEF ResetScan
    <2>3. CASE ResetUnlink(r)
      <3>1. /\ at(r) = "clear"
            /\ UNCHANGED <<now, lock, session, slots, issued, known, deleted>>
            /\ \/ Answer(r, "error")
               \/ \E todo : request' = [request EXCEPT ![r].todo = todo]
        BY <2>3, UnlinkStep
      <3> QED
        BY <1>1, <3>1
    <2>4. CASE ResetRmdir(r)
      BY <1>1, <2>4 DEF ResetRmdir
    <2>5. CASE ResetMkdir(r)
      BY <1>1, <2>5 DEF ResetMkdir
    <2>6. CASE ResetCopy(r)
      <3>1. /\ at(r) = "copy"
            /\ UNCHANGED <<now, lock, session, slots, issued, known, deleted>>
            /\ \E todo, failed :
                 request' = [request EXCEPT ![r].todo = todo, ![r].failed = failed]
        BY <2>6, CopyStep
      <3> QED
        BY <1>1, <3>1
    <2>7. CASE ResetRead(r)
      BY <1>1, <2>7 DEF ResetRead, Reading
    <2> QED
      BY <2>1, <2>2, <2>3, <2>4, <2>5, <2>6, <2>7
  <1>3. UNCHANGED <<now, lock, session>>
    BY DEF Write, ResetScan, ResetUnlink, ResetRmdir, ResetMkdir, ResetCopy, ResetRead
  <1> QED
    BY <1>2, <1>3, OrderlyTyped DEF Orderly, Typed

LEMMA RunTyped ==
  ASSUME Fated, Typed, NEW r \in Request,
         TakeSlot(r) \/ TimeOut(r) \/ EndRun(r) \/ Board(r) \/ Record(r)
  PROVE  Typed'
  <1> USE DEF Sound, at, sid
  <1>1. Sound(r) /\ Fields \subseteq DOMAIN request[r] /\ request = [q \in Request |-> request[q]]
    BY DEF Typed, Fated, Fate
  <1>2. Sound(r)' /\ \A q \in Request \ {r} : request'[q] = request[q]
    <2> USE DEF Answer, Goto, Fields, Places, Answers
    <2>1. CASE TakeSlot(r)
      BY <1>1, <2>1 DEF TakeSlot
    <2>2. CASE TimeOut(r)
      BY <1>1, <2>2 DEF TimeOut
    <2>3. CASE EndRun(r)
      BY <1>1, <2>3 DEF EndRun
    <2>4. CASE Board(r)
      BY <1>1, <2>4 DEF Board
    <2>5. CASE Record(r)
      BY <1>1, <2>5 DEF Record
    <2> QED
      BY <2>1, <2>2, <2>3, <2>4, <2>5
  <1>3. UNCHANGED <<now, lock>>
    BY DEF TakeSlot, TimeOut, EndRun, Board, Record
  <1>4. \A s \in DOMAIN session' : session'[s] \in Entry
    BY DEF Typed, Entry, TakeSlot, TimeOut, EndRun, Board, Record
  <1> QED
    BY <1>2, <1>3, <1>4, OrderlyTyped DEF Orderly

LEMMA TypedInit == Init => Typed
  <1> SUFFICES ASSUME Init
               PROVE  Typed
    OBVIOUS
  <1>1. MaxClock \in Nat /\ MaxSid \in Nat
    BY WorkspacesAssumption DEF WorkspacesAssumption
  <1>2. ASSUME NEW r \in Request PROVE Sound(r)
    BY <1>1 DEF Init, Idle, Sound, at, sid, Places, Answers
  <1>3. \A s \in DOMAIN session : session[s] \in Entry
    BY DEF Init, Entry
  <1> QED
    BY <1>1, <1>2, <1>3 DEF Init, Typed

LEMMA TypedNext == Shaped /\ Fated /\ Kept /\ Typed /\ [Next]_vars => Typed'
  <1> SUFFICES ASSUME Shaped, Fated, Kept, Typed, [Next]_vars
               PROVE  Typed'
    OBVIOUS
  <1>1. ASSUME NEW r \in Request, Begin(r) \/ Serve(r)
        PROVE  Typed'
    BY <1>1, BeginTyped, PathTyped, DeletionTyped, CreationTyped, EditTyped, RunTyped DEF Serve
  <1>2. CASE Tick
    <2>1. now' \in 0 .. MaxClock
      BY <1>2, WorkspacesAssumption DEF WorkspacesAssumption, Tick, Typed
    <2> QED
      BY <1>2, <2>1 DEF Tick, Typed, Sound, at, sid
  <1>3. CASE UNCHANGED <<now, lock, session, request>>
    BY <1>3 DEF Typed, Sound, at, sid
  <1> QED
    BY <1>1, <1>2, <1>3 DEF Next, Scribble, Quiet, vars

\* Whatever the requests ask for, every variable keeps its type: no id beyond
\* the ones handed out is told or deleted, no directory holds anything but
\* the lab's text or a learner's, and the semaphore never has more slots than
\* it was made with.
THEOREM TypeCorrect == Spec => []TypeOK
  <1>1. ASSUME Shaped, Accounted, Fated, Kept, Typed
        PROVE  TypeOK
    <2>1. slots \in 0 .. MaxConcurrent
      BY <1>1, Finite, WorkspacesAssumption DEF WorkspacesAssumption, Accounted
    <2>2. /\ issued \in Sid /\ 1 .. issued \subseteq Sid
          /\ known \subseteq Sid /\ deleted \subseteq Sid /\ DOMAIN session \subseteq Sid
          /\ strays \subseteq Sid
      BY <1>1, WorkspacesAssumption
         DEF WorkspacesAssumption, Fated, Registry, Kept, Store, Sid, Registered
    <2>3. disk \in [Sid -> Workspace]
      BY <1>1 DEF Kept, Store
    <2>4. ASSUME NEW r \in Request
          PROVE  /\ at(r) \in Places /\ request[r].op \in Operations \cup {"none"}
                 /\ sid(r) \in 0 .. MaxSid /\ request[r].answer \in Answers
      BY <1>1 DEF Typed, Sound, Fated, Fate, op
    <2> QED
      BY <1>1, <2>1, <2>2, <2>3, <2>4 DEF Typed, TypeOK
  <1> QED
    BY <1>1, AccountedInit, AccountedNext, FatedInit, FatedNext, KeptInit, KeptNext,
       TypedInit, TypedNext, PTL DEF Spec

-----------------------------------------------------------------------------
(* Resetting without the lock.  What a reset copied another request may     *)
(* remove, but only one that takes the whole session with it.               *)

\* Two resets at once empty the directory under each other: the second is
\* shown what the first has not copied back.
OneResetter == \A q, r \in Request : "reset" \in Asks[q] /\ "reset" \in Asks[r] => q = r

\* The session is gone, or goes before the lock is free again.
Going(s) ==
  \/ s \notin Registered
  \/ \E q \in Request : at(q) \in {"remove", "unlink"} /\ s \in request[q].victims

Restoring == {"dest", "scan", "clear", "mkdir", "copy", "readonly"}

\* A reset that has not failed has copied back every file but those it has
\* still to copy, or its session is going.
Restores(r) ==
  /\ {"todo", "failed", "code"} \subseteq DOMAIN request[r] /\ request[r].failed \in BOOLEAN
  /\ op(r) \in Asks[r] \cup {"none"}
  /\ at(r) \in Restoring => op(r) = "reset"
  /\ op(r) = "reset" => at(r) \in {"path", "remove", "unlink", "answered"} \cup Restoring
  /\ op(r) = "reset" /\ request[r].answer = "ok" =>
       at(r) = "answered" /\ \A f \in File : request[r].code[f] # "absent"
  /\ at(r) = "copy" /\ ~request[r].failed =>
       \/ Going(sid(r))
       \/ \A f \in File \ request[r].todo : disk[sid(r)].code[f] # "absent"
  /\ at(r) = "readonly" =>
       Going(sid(r)) \/ \A f \in File : request[r].code[f] # "absent"

\* A request is moved by its own thread alone.
LEMMA OnlyItself ==
  ASSUME Fated, NEW r \in Request, Begin(r) \/ Serve(r)
  PROVE  \A q \in Request \ {r} : request'[q] = request[q]
  <1>0. request = [q \in Request |-> request[q]]
    BY DEF Fated
  <1> USE <1>0 DEF Answer, Goto
  <1>1. CASE Begin(r)
    BY <1>1 DEF Begin
  <1>2. CASE Path(r)
    BY <1>2 DEF Path
  <1>3. CASE RemoveScan(r) \/ RemoveFile(r) \/ RemoveDir(r) \/ Cleanup(r)
    BY <1>3 DEF RemoveScan, RemoveFile, RemoveDir, Cleanup
  <1>4. CASE Materialize(r) \/ Register(r) \/ Add(r) \/ Created(r)
    BY <1>4 DEF Materialize, Register, Add, Created
  <1>5. CASE \/ Write(r) \/ ResetScan(r) \/ ResetUnlink(r) \/ ResetRmdir(r) \/ ResetMkdir(r)
             \/ ResetCopy(r) \/ ResetRead(r)
    BY <1>5 DEF Write, ResetScan, ResetUnlink, ResetRmdir, ResetMkdir, ResetCopy, ResetRead
  <1>6. CASE TakeSlot(r) \/ TimeOut(r) \/ EndRun(r) \/ Board(r) \/ Record(r)
    BY <1>6 DEF TakeSlot, TimeOut, EndRun, Board, Record
  <1> QED
    BY <1>1, <1>2, <1>3, <1>4, <1>5, <1>6 DEF Serve

\* Once a session clients know of is going, it is never back.
LEMMA GoingGoes ==
  ASSUME Fated, Kept, NEW r \in Request, Begin(r) \/ Serve(r), NEW s \in known, Going(s)
  PROVE  Going(s)'
  <1>1. Fate(r) /\ request = [q \in Request |-> request[q]]
    BY DEF Fated
  <1>2. {"at", "victims"} \subseteq DOMAIN request[r]
    BY <1>1 DEF Fate, Fields
  <1>3. \A q \in Request \ {r} : request'[q] = request[q]
    BY OnlyItself
  <1>4. s \notin Registered => s \notin Registered'
    <2>1. CASE Add(r)
      <3>1. Creating(r)
        BY <1>1, <2>1 DEF Add, Fate, Making, Creating
      <3>2. sid(r) # s
        BY <1>1, <3>1 DEF Fate
      <3> QED
        BY <2>1, <3>2 DEF Add, Registered
    <2>2. CASE RemoveDir(r)
      BY <2>2 DEF RemoveDir, Without, Registered
    <2>3. CASE Record(r)
      BY <2>3 DEF Record, Registered
    <2>4. CASE session' = session
      BY <2>4 DEF Registered
    <2> QED
      BY <2>1, <2>2, <2>3, <2>4
         DEF Serve, Begin, Path, RemoveScan, RemoveFile, Cleanup, Materialize, Register, Created,
             Write, ResetScan, ResetUnlink, ResetRmdir, ResetMkdir, ResetCopy, ResetRead,
             TakeSlot, TimeOut, EndRun, Board
  <1>5. ASSUME NEW q \in Request \ {r}, at(q) \in {"remove", "unlink"}, s \in request[q].victims
        PROVE  Going(s)'
    BY <1>3, <1>5 DEF Going, at
  <1>6. ASSUME at(r) \in {"remove", "unlink"}, s \in request[r].victims
        PROVE  Going(s)'
    <2>1. CASE RemoveScan(r) \/ RemoveFile(r)
      BY <1>1, <1>2, <1>6, <2>1 DEF RemoveScan, RemoveFile, Going, at
    <2>2. CASE RemoveDir(r)
      <3>1. CASE s = Victim(r)
        BY <2>2, <3>1 DEF RemoveDir, Without, Going, Registered
      <3>2. CASE s # Victim(r)
        <4> DEFINE left == request[r].victims \ {Victim(r)}
        <4>1. s \in left /\ left # {}
          BY <1>6, <3>2
        <4>2. request' = [request EXCEPT ![r].victims = left, ![r].at = "remove"]
          BY <2>2, <4>1 DEF RemoveDir
        <4> HIDE DEF left
        <4>3. at(r)' = "remove" /\ request'[r].victims = left
          BY <1>1, <1>2, <4>2 DEF at
        <4> QED
          BY <4>1, <4>3 DEF Going
      <3> QED
        BY <3>1, <3>2
    <2> QED
      BY <1>6, <2>1, <2>2
         DEF Serve, Begin, Path, Cleanup, Materialize, Register, Add, Created,
             Write, ResetScan, ResetUnlink, ResetRmdir, ResetMkdir, ResetCopy, ResetRead,
             TakeSlot, TimeOut, EndRun, Board, Record
  <1> QED
    BY <1>4, <1>5, <1>6 DEF Going

\* A file goes missing with its session, or while a reset empties the
\* directory.
LEMMA FilesStay ==
  ASSUME Fated, Kept, NEW r \in Request, Begin(r) \/ Serve(r), at(r) # "clear",
         NEW s \in known, NEW f \in File, disk[s].code[f] # "absent"
  PROVE  Going(s)' \/ disk'[s].code[f] # "absent"
  <1>1. Fate(r) /\ request = [q \in Request |-> request[q]]
    BY DEF Fated
  <1>2. /\ disk \in [Sid -> Workspace] /\ issued \in Nat
        /\ s \in Sid /\ s \in 1 .. issued
    <2>1. MaxSid \in Nat
      BY WorkspacesAssumption DEF WorkspacesAssumption
    <2> QED
      BY <2>1 DEF Kept, Store, Fated, Registry, Sid
  <1>3. CASE RemoveFile(r)
    <2>1. at(r) = "unlink" /\ Victim(r) \in request[r].victims /\ Victim(r) \in Sid
      BY <1>3, VictimIs DEF RemoveFile
    <2>2. PICK g \in request[r].todo :
            /\ disk' = [disk EXCEPT ![Victim(r)].code[g] = "absent"]
            /\ request' = [request EXCEPT ![r].todo = @ \ {g}]
      BY <1>3 DEF RemoveFile
    <2>3. CASE s = Victim(r)
      <3>1. at(r)' = "unlink" /\ request'[r].victims = request[r].victims
        BY <1>1, <2>1, <2>2 DEF at, Fate, Fields
      <3> QED
        BY <2>1, <2>3, <3>1 DEF Going
    <2>4. CASE s # Victim(r)
      BY <1>2, <2>1, <2>2, <2>4
    <2> QED
      BY <2>3, <2>4
  <1>4. CASE RemoveDir(r)
    <2>1. Victim(r) \in Sid
      BY <1>4, VictimIs DEF RemoveDir
    <2> DEFINE v == Victim(r)
               d == Emptied(v, request[r].saw)
    <2>2. d.code = disk[v].code
      BY <1>2, <2>1 DEF Emptied, Workspace
    <2>3. disk' = [disk EXCEPT ![v] = d]
      BY <1>4 DEF RemoveDir
    <2> HIDE DEF v, d
    <2> QED
      BY <1>2, <2>2, <2>3
  <1>5. CASE Materialize(r)
    <2>1. /\ \/ disk' = disk
             \/ \E d : disk' = [disk EXCEPT ![issued + 1] = d]
          /\ s # issued + 1
      BY <1>2, <1>5 DEF Materialize
    <2> QED
      BY <1>2, <2>1
  <1>6. CASE Write(r)
    BY <1>2, <1>6 DEF Write, Workspace, Code, Name
  <1>7. CASE ResetRmdir(r) \/ ResetMkdir(r)
    BY <1>2, <1>7 DEF ResetRmdir, ResetMkdir, Workspace
  <1>8. CASE ResetCopy(r)
    BY <1>2, <1>8 DEF ResetCopy, Workspace, Code, Name
  <1>9. CASE RemoveScan(r)
    BY <1>2, <1>9 DEF RemoveScan, Workspace
  <1>10. CASE disk' = disk
    BY <1>10
  <1> QED
    BY <1>3, <1>4, <1>5, <1>6, <1>7, <1>8, <1>9, <1>10
       DEF Serve, Begin, Path, Cleanup, Register, Add, Created,
           ResetScan, ResetUnlink, ResetRead, TakeSlot, TimeOut, EndRun, Board, Record

\* A step of a request that is not resetting, or leaves off.
LEMMA OthersRestore ==
  ASSUME Fated, Kept, OneResetter, NEW r \in Request, Begin(r) \/ Serve(r),
         \A q \in Request : Restores(q),
         NEW q \in Request \ {r}, request'[q] = request[q]
  PROVE  Restores(q)'
  <1>1. /\ at(q)' = at(q) /\ op(q)' = op(q) /\ sid(q)' = sid(q)
        /\ Restores(q) /\ Restores(r) /\ Fate(q)
    BY DEF at, op, sid, Fated
  <1>2. at(q) \in Restoring => at(r) # "clear" /\ sid(q) \in known
    <2>1. at(q) \in Restoring => op(q) = "reset" /\ "reset" \in Asks[q]
      BY <1>1 DEF Restores
    <2>2. at(r) = "clear" => "reset" \in Asks[r]
      BY <1>1 DEF Restores, Restoring
    <2>3. op(q) = "reset" => sid(q) \in known
      BY <1>1 DEF Fate, Operations
    <2> QED
      BY <2>1, <2>2, <2>3 DEF OneResetter
  <1>3. at(q) \in Restoring /\ Going(sid(q)) => Going(sid(q))'
    BY <1>1, <1>2, GoingGoes
  <1>4. ASSUME at(q) = "copy", ~request[q].failed
        PROVE  \/ Going(sid(q))'
               \/ \A f \in File \ request[q].todo : disk'[sid(q)].code[f] # "absent"
    <2>1. sid(q) \in known /\ at(r) # "clear"
      BY <1>2, <1>4 DEF Restoring
    <2>2. CASE Going(sid(q))
      BY <1>3, <1>4, <2>2 DEF Restoring
    <2>3. CASE \A f \in File \ request[q].todo : disk[sid(q)].code[f] # "absent"
      <3> DEFINE s == sid(q)
      <3>1. s \in known /\ s' = s
        BY <1>1, <2>1
      <3> HIDE DEF s
      <3>2. ASSUME NEW f \in File, disk[s].code[f] # "absent"
            PROVE  Going(s)' \/ disk'[s].code[f] # "absent"
        <4>1. PICK t \in known : t = s
          BY <3>1
        <4>2. Going(t)' \/ disk'[t].code[f] # "absent"
          BY <2>1, <3>2, <4>1, FilesStay
        <4> QED
          BY <3>1, <4>1, <4>2
      <3> QED
        BY <1>1, <2>3, <3>1, <3>2 DEF s
    <2> QED
      BY <1>1, <1>4, <2>2, <2>3 DEF Restores
  <1>5. at(q) = "readonly" =>
          Going(sid(q))' \/ \A f \in File : request[q].code[f] # "absent"
    BY <1>1, <1>3 DEF Restores, Restoring
  <1> QED
    BY <1>1, <1>4, <1>5 DEF Restores

\* The lookups of a reset: the last one answers only if the session is there
\* and nobody is removing it.
LEMMA PathRestores ==
  ASSUME Shaped, Fated, Kept, NEW r \in Request, Path(r), Restores(r)
  PROVE  Restores(r)'
  <1> USE DEF at, op, sid
  <1>1. /\ Fate(r) /\ request = [q \in Request |-> request[q]]
        /\ Fields \cup {"todo", "failed", "code"} \subseteq DOMAIN request[r]
    BY DEF Fated, Fate, Restores
  <1>2. at(r) \in {"path", "writable", "dest", "again", "readonly"} /\ lock = NoRequest
    BY DEF Path
  <1>3. CASE Answer(r, Refusal(at(r)))
    BY <1>1, <1>2, <1>3 DEF Answer, Refusal, Restores, Restoring, Fields
  <1>4. CASE request' = [request EXCEPT ![r].at = "remove", ![r].victims = {sid(r)},
                                        ![r].answer = Refusal(at(r))]
    BY <1>1, <1>2, <1>4 DEF Refusal, Restores, Restoring, Fields
  <1>5. CASE at(r) = "readonly" /\ sid(r) \in DOMAIN session /\ Answer(r, "ok")
    <2>1. ~Going(sid(r))
      <3>1. \A q \in Request : at(q) \notin {"remove", "unlink"}
        BY <1>2, WorkspacesAssumption DEF WorkspacesAssumption, Kept, Ward, Critical
      <3> QED
        BY <1>5, <3>1 DEF Going, Registered
    <2>2. \A f \in File : request[r].code[f] # "absent"
      BY <1>5, <2>1 DEF Restores
    <2> QED
      BY <1>1, <1>5, <2>2 DEF Answer, Restores, Restoring, Fields
  <1>6. CASE at(r) # "readonly" /\ Goto(r, AfterPath(request[r].op, at(r)))
    <2>1. /\ AfterPath(op(r), at(r)) \in
               {"writable", "dest", "again", "slot", "cleanup", "write", "scan"}
          /\ op(r) = "reset" => AfterPath(op(r), at(r)) \in {"dest", "scan"}
          /\ op(r) # "reset" => AfterPath(op(r), at(r)) \notin {"dest", "scan"}
      BY <1>2, <1>6 DEF AfterPath, Operations, Shaped, Restores, Restoring
    <2> QED
      BY <1>1, <1>2, <1>6, <2>1 DEF Goto, Restores, Restoring, Fields
  <1> QED
    BY <1>3, <1>4, <1>5, <1>6 DEF Path

\* The steps of the reset itself.
LEMMA ResetRestores ==
  ASSUME Fated, Kept, NEW r \in Request, Restores(r),
         ResetScan(r) \/ ResetUnlink(r) \/ ResetRmdir(r) \/ ResetMkdir(r) \/ ResetCopy(r)
           \/ ResetRead(r)
  PROVE  Restores(r)'
  <1> USE DEF at, op, sid
  <1>1. /\ Fate(r) /\ request = [q \in Request |-> request[q]]
        /\ Fields \cup {"todo", "failed", "code"} \subseteq DOMAIN request[r]
        /\ request[r].failed \in BOOLEAN
    BY DEF Fated, Fate, Restores
  <1>2. CASE ResetScan(r) \/ ResetUnlink(r) \/ ResetRmdir(r) \/ ResetMkdir(r)
    <2> USE <1>1 DEF Answer, Goto, Restores, Restoring, Fields
    <2>1. CASE ResetScan(r)
      BY <2>1 DEF ResetScan
    <2>2. CASE ResetUnlink(r)
      <3>1. /\ at(r) = "clear"
            /\ UNCHANGED <<now, lock, session, slots, issued, known, deleted>>
            /\ \/ Answer(r, "error")
               \/ \E todo : request' = [request EXCEPT ![r].todo = todo]
        BY <2>2, UnlinkStep
      <3> QED
        BY <3>1
    <2>3. CASE ResetRmdir(r)
      BY <2>3 DEF ResetRmdir
    <2>4. CASE ResetMkdir(r)
      <3>1. CASE Answer(r, "error")
        BY <2>4, <3>1 DEF ResetMkdir
      <3>2. CASE request' = [request EXCEPT ![r].at = "copy", ![r].todo = File]
        <4>1. /\ at(r)' = "copy" /\ op(r)' = op(r) /\ request'[r].todo = File
              /\ request'[r].answer = request[r].answer
              /\ request'[r].failed = request[r].failed
              /\ DOMAIN request'[r] = DOMAIN request[r]
          BY <3>2
        <4> QED
          BY <2>4, <4>1 DEF ResetMkdir
      <3> QED
        BY <2>4, <3>1, <3>2 DEF ResetMkdir
    <2> QED
      BY <1>2, <2>1, <2>2, <2>3, <2>4
  <1>3. CASE ResetCopy(r)
    <2>1. PICK f \in request[r].todo :
            /\ disk' = IF disk[sid(r)].vulnerable
                       THEN [disk EXCEPT ![sid(r)].code[f] = "lab"] ELSE disk
            /\ request' = [request EXCEPT ![r].todo = @ \ {f},
                                          ![r].failed = @ \/ ~disk[sid(r)].vulnerable]
      BY <1>3 DEF ResetCopy
    <2> DEFINE bad == request[r].failed \/ ~disk[sid(r)].vulnerable
    <2>2. /\ bad \in BOOLEAN
          /\ request' = [request EXCEPT ![r].todo = @ \ {f}, ![r].failed = bad]
      BY <2>1
    <2>3. ~bad => ~request[r].failed /\ disk' = [disk EXCEPT ![sid(r)].code[f] = "lab"]
      BY <2>1
    <2>4. sid(r) \in known /\ sid(r) \in Sid /\ disk \in [Sid -> Workspace]
      <3>1. sid(r) \in known
        BY <1>1, <1>3 DEF ResetCopy, Restores, Restoring, Fate, Operations
      <3> QED
        BY <3>1, WorkspacesAssumption DEF WorkspacesAssumption, Kept, Store, Fated, Registry, Sid
    <2> HIDE DEF bad
    <2>5. /\ request'[r].todo = request[r].todo \ {f} /\ request'[r].failed = bad
          /\ at(r)' = "copy" /\ op(r)' = op(r) /\ sid(r)' = sid(r)
          /\ request'[r].answer = request[r].answer /\ request'[r].code = request[r].code
          /\ DOMAIN request'[r] = DOMAIN request[r]
      BY <1>1, <1>3, <2>2 DEF ResetCopy, Fields
    <2>6. ~bad => \/ Going(sid(r))'
                  \/ \A g \in File \ request'[r].todo : disk'[sid(r)].code[g] # "absent"
      <3> SUFFICES ASSUME ~bad, ~Going(sid(r))'
                   PROVE  \A g \in File \ request'[r].todo : disk'[sid(r)].code[g] # "absent"
        OBVIOUS
      <3>1. \A g \in File \ request[r].todo : disk[sid(r)].code[g] # "absent"
        <4>1. ~Going(sid(r))
          BY <1>3, <2>4, <2>5, GoingGoes DEF Serve
        <4> QED
          BY <1>3, <2>3, <4>1 DEF ResetCopy, Restores
      <3>2. disk'[sid(r)].code = [disk[sid(r)].code EXCEPT ![f] = "lab"]
        BY <2>3, <2>4 DEF Workspace
      <3>3. disk[sid(r)].code \in Code
        BY <2>4 DEF Workspace
      <3> QED
        BY <2>5, <3>1, <3>2, <3>3 DEF Code, Name
    <2>7. /\ {"todo", "failed", "code"} \subseteq DOMAIN request'[r]
          /\ request'[r].failed \in BOOLEAN
      BY <1>1, <2>2, <2>5
    <2>8. /\ op(r)' = "reset" /\ op(r)' \in Asks[r] \cup {"none"}
          /\ request'[r].answer # "ok"
      BY <1>3, <2>5 DEF ResetCopy, Restores, Restoring
    <2>9. at(r)' = "copy" /\ sid(r)' = sid(r) /\ (~request'[r].failed => ~bad)
      BY <2>5
    <2> QED
      BY <2>6, <2>7, <2>8, <2>9 DEF Restores, Restoring
  <1>4. CASE ResetRead(r)
    <2>1. CASE request[r].failed
      BY <1>1, <1>4, <2>1 DEF ResetRead, Answer, Restores, Restoring, Fields
    <2>2. CASE ~request[r].failed
      <3>1. request' = [request EXCEPT ![r].at = "readonly", ![r].code = disk[sid(r)].code,
                                       ![r].answer = @]
        BY <1>4, <2>2 DEF ResetRead, Reading
      <3>2. /\ at(r)' = "readonly" /\ op(r)' = op(r) /\ sid(r)' = sid(r)
            /\ request'[r].answer = request[r].answer
            /\ request'[r].code = disk[sid(r)].code
            /\ request'[r].failed = request[r].failed
            /\ DOMAIN request'[r] = DOMAIN request[r]
        BY <1>1, <3>1 DEF Fields
      <3>3. sid(r) \in known
        BY <1>1, <1>4 DEF ResetRead, Restores, Restoring, Fate, Operations
      <3>4. Going(sid(r)) => Going(sid(r))'
        BY <1>4, <3>2, <3>3, GoingGoes DEF Serve
      <3>5. Going(sid(r)) \/ \A f \in File : disk[sid(r)].code[f] # "absent"
        BY <1>4, <2>2 DEF ResetRead, Restores
      <3> QED
        BY <1>1, <1>4, <3>2, <3>4, <3>5 DEF ResetRead, Restores, Restoring
    <2> QED
      BY <2>1, <2>2
  <1> QED
    BY <1>2, <1>3, <1>4

\* Nobody else's step is a reset's.
LEMMA ElseRestores ==
  ASSUME Fated, NEW r \in Request, Restores(r),
         \/ Begin(r) \/ RemoveScan(r) \/ RemoveFile(r) \/ RemoveDir(r) \/ Cleanup(r)
         \/ Materialize(r) \/ Register(r) \/ Add(r) \/ Created(r) \/ Write(r)
         \/ TakeSlot(r) \/ TimeOut(r) \/ EndRun(r) \/ Board(r) \/ Record(r)
  PROVE  Restores(r)'
  <1> USE DEF at, op, sid, Restores, Restoring, Fields
  <1>1. /\ Fate(r) /\ request = [q \in Request |-> request[q]]
        /\ Fields \cup {"todo", "failed", "code"} \subseteq DOMAIN request[r]
    BY DEF Fated, Fate
  <1>2. CASE Begin(r)
    <2>1. PICK asked \in Asks[r] :
            IF asked = "create"
            THEN request' = [request EXCEPT ![r].op = asked, ![r].at = "materialize"]
            ELSE \E s \in known :
                   request' = [request EXCEPT ![r].op = asked, ![r].sid = s, ![r].at = "path",
                                              ![r].stale = s \in deleted]
      BY <1>2 DEF Begin
    <2>2. CASE asked = "create"
      <3>1. request' = [request EXCEPT ![r].op = "create", ![r].at = "materialize"]
        BY <2>1, <2>2
      <3> QED
        BY <1>1, <2>2, <3>1
    <2>3. CASE asked # "create"
      <3>1. PICK s \in known :
              request' = [request EXCEPT ![r].op = asked, ![r].sid = s, ![r].at = "path",
                                         ![r].stale = s \in deleted]
        BY <2>1, <2>3
      <3>2. /\ at(r)' = "path" /\ op(r)' = asked /\ request'[r].answer = request[r].answer
            /\ request'[r].failed = request[r].failed
            /\ DOMAIN request'[r] = DOMAIN request[r]
        BY <1>1, <3>1
      <3>3. request[r].answer # "ok"
        BY <1>1, <1>2 DEF Begin, Fate
      <3> QED
        BY <1>1, <3>2, <3>3
    <2> QED
      BY <2>2, <2>3
  <1>3. CASE RemoveScan(r) \/ RemoveFile(r)
    <2>1. CASE RemoveScan(r)
      BY <1>1, <2>1 DEF RemoveScan
    <2>2. CASE RemoveFile(r)
      <3>1. at(r) = "unlink"
        BY <2>2, RemoveFileStep
      <3>2. PICK todo : request' = [request EXCEPT ![r].todo = todo]
        BY <2>2, RemoveFileStep
      <3> QED
        BY <1>1, <3>1, <3>2
    <2> QED
      BY <1>3, <2>1, <2>2
  <1>4. CASE RemoveDir(r)
    BY <1>1, <1>4 DEF RemoveDir
  <1>5. CASE Cleanup(r)
    BY <1>1, <1>5 DEF Cleanup, Answer, Fate
  <1>6. CASE Materialize(r) \/ Register(r) \/ Add(r) \/ Created(r)
    <2>0. op(r) = "create"
      BY <1>1, <1>6 DEF Materialize, Register, Add, Created, Fate, Making
    <2>1. CASE Materialize(r)
      BY <1>1, <2>0, <2>1 DEF Materialize
    <2>2. CASE Register(r)
      BY <1>1, <2>0, <2>2 DEF Register
    <2>3. CASE Add(r)
      BY <1>1, <2>0, <2>3 DEF Add, Goto
    <2>4. CASE Created(r)
      BY <1>1, <2>0, <2>4 DEF Created, Answer
    <2> QED
      BY <1>6, <2>1, <2>2, <2>3, <2>4
  <1>7. CASE Write(r)
    <2>1. /\ at(r) = "write"
          /\ UNCHANGED <<now, lock, session, slots, issued, known, deleted>>
          /\ Answer(r, "ok") \/ Answer(r, "error")
      BY <1>7, WriteStep
    <2> QED
      BY <1>1, <2>1 DEF Answer
  <1>8. CASE TakeSlot(r) \/ TimeOut(r) \/ EndRun(r) \/ Board(r) \/ Record(r)
    <2>0. at(r) \in {"slot", "running", "killed", "board", "record"}
      BY <1>8 DEF TakeSlot, TimeOut, EndRun, Board, Record
    <2>1. op(r) # "reset"
      BY <2>0
    <2>2. CASE TakeSlot(r)
      BY <1>1, <2>1, <2>2 DEF TakeSlot, Answer, Goto
    <2>3. CASE TimeOut(r)
      BY <1>1, <2>1, <2>3 DEF TimeOut, Answer, Goto
    <2>4. CASE EndRun(r)
      BY <1>1, <2>1, <2>4 DEF EndRun, Answer, Goto
    <2>5. CASE Board(r)
      BY <1>1, <2>1, <2>5 DEF Board, Answer, Goto
    <2>6. CASE Record(r)
      BY <1>1, <2>1, <2>6 DEF Record, Answer, Goto
    <2> QED
      BY <1>8, <2>2, <2>3, <2>4, <2>5, <2>6
  <1> QED
    BY <1>2, <1>3, <1>4, <1>5, <1>6, <1>7, <1>8

\* What a child makes is none of the files a reset copies.
LEMMA ScribbleRestores ==
  ASSUME Fated, Kept, NEW r \in Request, Scribble(r), NEW q \in Request, Restores(q)
  PROVE  Restores(q)'
  <1>1. UNCHANGED <<request, session>>
    BY DEF Scribble
  <1>2. \A s \in Sid, f \in File : disk'[s].code[f] = disk[s].code[f]
    <2>1. disk \in [Sid -> Workspace] /\ Litter \notin File
      BY WorkspacesAssumption DEF WorkspacesAssumption, Kept, Store
    <2> QED
      BY <2>1 DEF Scribble, Workspace, Code, Name
  <1>3. at(q) = "copy" => sid(q) \in Sid
    <2>1. at(q) = "copy" => op(q) \in Operations \ {"create"}
      BY DEF Restores, Restoring, Operations
    <2> QED
      BY <2>1, KnownIds
  <1>4. Going(sid(q))' <=> Going(sid(q))
    BY <1>1 DEF Going, Registered, at, sid
  <1> QED
    BY <1>1, <1>2, <1>3, <1>4 DEF Restores, at, op, sid

LEMMA RestoresInit == Init => \A r \in Request : Restores(r)
  <1> SUFFICES ASSUME Init, NEW r \in Request
               PROVE  Restores(r)
    OBVIOUS
  <1>1. request[r] = Idle
    BY DEF Init
  <1>2. /\ at(r) = "idle" /\ op(r) = "none" /\ request[r].failed = FALSE
        /\ {"todo", "failed", "code"} \subseteq DOMAIN request[r]
    BY <1>1 DEF Idle, at, op
  <1> QED
    BY <1>2 DEF Restores, Restoring

LEMMA RestoresNext ==
  ASSUME OneResetter
  PROVE  Shaped /\ Fated /\ Kept /\ (\A r \in Request : Restores(r)) /\ [Next]_vars
           => (\A r \in Request : Restores(r))'
  <1> SUFFICES ASSUME Shaped, Fated, Kept, \A r \in Request : Restores(r), [Next]_vars,
                      NEW q \in Request
               PROVE  Restores(q)'
    OBVIOUS
  <1>1. ASSUME NEW r \in Request, Begin(r) \/ Serve(r)
        PROVE  Restores(q)'
    <2>1. CASE q = r
      BY <1>1, <2>1, PathRestores, ResetRestores, ElseRestores DEF Serve
    <2>2. CASE q # r
      <3>1. request'[q] = request[q]
        BY <1>1, <2>2, OnlyItself
      <3> QED
        BY <1>1, <2>2, <3>1, OthersRestore
    <2> QED
      BY <2>1, <2>2
  <1>2. CASE UNCHANGED <<session, disk, request>>
    BY <1>2 DEF Restores, Going, Registered, at, op, sid
  <1> QED
    BY <1>1, <1>2, ScribbleRestores DEF Next, Tick, Quiet, vars

\* reset_session: as long as no two requests may reset, whatever saves, runs,
\* expires, evicts and deletes beside it, an answer that lists the files after
\* a reset lists all of them: files that vanished vanished with the session,
\* and the last lookup of the handler waits for the lock and turns it away.
THEOREM ResetsShowAll == ASSUME OneResetter PROVE Spec => []ResetShowsAll
  <1>1. (\A r \in Request : Restores(r)) => ResetShowsAll
    BY DEF Restores, ResetShowsAll, op
  <1> QED
    BY <1>1, AccountedInit, AccountedNext, FatedInit, FatedNext, KeptInit, KeptNext,
       RestoresInit, RestoresNext, PTL DEF Spec
===============================================================================
