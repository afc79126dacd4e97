------------------------------ MODULE Workspaces ------------------------------
(***************************************************************************)
(* The ephemeral workspaces of the web API: requests of the UI served by   *)
(* concurrent threads over one SessionManager, one directory per session   *)
(* and a bounded pool of pytest subprocesses (dvah/webapi/sessions.py,     *)
(* app.py, runner.py).                                                     *)
(*                                                                         *)
(* A step is a stretch of code that no other thread can tell apart: what   *)
(* the manager does under its lock is visible outside only when the lock   *)
(* is released, so the four dictionaries are one function; the file system *)
(* is visible all the time, so directories are scanned, emptied and filled *)
(* one file at a time.  The editable directory guardrails/vulnerable is    *)
(* kept file by file, everything else in a workspace is one flag.          *)
(*                                                                         *)
(* The child of a run works in the directory of its session and writes     *)
(* there: bytecode caches, and what the learner's code makes.  It is taken *)
(* to remove nothing and to leave the other sessions alone.                *)
(***************************************************************************)
EXTENDS Naturals, FiniteSetsExt

CONSTANTS
  Request,       \* the requests that arrive, each served by its own thread
  Asks,          \* the operations each of them may ask for
  File,          \* the editable files of a challenge
  Litter,        \* what a child makes beside them: __pycache__, files of the learner's code
  MaxSid,        \* bound on the session ids handed out, one more than may be created
  Ttl,           \* DVAH_SESSION_TTL, in ticks
  MaxSessions,   \* DVAH_MAX_SESSIONS
  MaxConcurrent, \* DVAH_RUN_CONCURRENCY
  MaxClock,      \* bound on the clock
  NoRequest      \* the lock is free

VARIABLES
  now,      \* time.time()
  lock,     \* the holder of SessionManager._lock
  session,  \* _challenge, _dirs, _created and _meta: the registered sessions
  disk,     \* the session directories
  slots,    \* free slots of runner._slots
  request,  \* the state of every request
  issued,   \* number of session ids handed out
  known,    \* session ids a client has been told of
  deleted,  \* session ids whose deletion has been answered
  strays    \* history: ids written to once their removal had begun, or whose creation failed

vars == <<now, lock, session, disk, slots, request, issued, known, deleted, strays>>

Operations == {"create", "put", "reset", "run", "stream", "delete"}

ASSUME WorkspacesAssumption ==
  /\ IsFiniteSet(Request) /\ IsFiniteSet(File) /\ Litter \notin File /\ NoRequest \notin Request
  /\ Asks \in [Request -> SUBSET Operations]
  /\ Cardinality({r \in Request : "create" \in Asks[r]}) < MaxSid
  /\ MaxSid \in Nat \ {0} /\ Ttl \in Nat /\ MaxClock \in Nat
  /\ MaxSessions \in Nat \ {0} /\ MaxConcurrent \in Nat \ {0}

Sid == 1 .. MaxSid

\* "lab" is the text the challenge ships, "edit" whatever a learner wrote.
Text == {"lab", "edit"}
Name == File \cup {Litter}
Code == [Name -> Text \cup {"absent"}]
Whole == [f \in Name |-> IF f = Litter THEN "absent" ELSE "lab"]
Nothing == [f \in Name |-> "absent"]

\* beside: a child has left something outside guardrails/vulnerable.
Workspace ==
  [root : BOOLEAN, rest : BOOLEAN, beside : BOOLEAN, vulnerable : BOOLEAN, code : Code]
NoWorkspace ==
  [root |-> FALSE, rest |-> FALSE, beside |-> FALSE, vulnerable |-> FALSE, code |-> Nothing]
Fresh ==
  [root |-> TRUE, rest |-> TRUE, beside |-> FALSE, vulnerable |-> TRUE, code |-> Whole]

\* When it was registered, in which order, and the runs recorded for it.
Entry == [born : Nat, nth : Nat, runs : Nat]

Answers == {"none", "ok", "missing", "error"}

Present(s) == {f \in Name : disk[s].code[f] # "absent"}

at(r) == request[r].at
sid(r) == request[r].sid
Goto(r, next) == request' = [request EXCEPT ![r].at = next]
Answer(r, answer) == request' = [request EXCEPT ![r].at = "answered", ![r].answer = answer]

-----------------------------------------------------------------------------
(* Requests and SessionManager.path.                                        *)

Idle == [at |-> "idle", op |-> "none", sid |-> 0, todo |-> {}, saw |-> FALSE, failed |-> FALSE,
         victims |-> {}, code |-> Nothing,
         stale |-> FALSE, answer |-> "none"]

Begin(r) ==
  /\ at(r) = "idle"
  /\ \E op \in Asks[r] :
       IF op = "create"
       THEN request' = [request EXCEPT ![r].op = op, ![r].at = "materialize"]
       ELSE \E s \in known :
              request' = [request EXCEPT ![r].op = op, ![r].sid = s, ![r].at = "path",
                                         ![r].stale = s \in deleted]
  /\ UNCHANGED <<now, lock, session, disk, slots, issued, known, deleted, strays>>

IsExpired(s) == now - session[s].born > Ttl

\* Where a request goes once path() has answered: the handler's own lookup
\* comes first, put, reset and stream then look the session up again.
AfterPath(op, here) ==
  IF here = "path"
  THEN [put |-> "writable", reset |-> "dest", stream |-> "again", run |-> "slot",
        delete |-> "cleanup"][op]
  ELSE [writable |-> "write", dest |-> "scan", again |-> "slot"][here]

\* KeyError becomes a 404 in the handler's own lookup and in the websocket.
Refusal(here) == IF here \in {"path", "again"} THEN "missing" ELSE "error"

Path(r) ==
  /\ at(r) \in {"path", "writable", "dest", "again", "readonly"}
  /\ lock = NoRequest
  /\ \/ /\ sid(r) \notin DOMAIN session
        /\ Answer(r, Refusal(at(r)))
        /\ UNCHANGED lock
     \/ /\ sid(r) \in DOMAIN session
        /\ IsExpired(sid(r))
        /\ lock' = r
        /\ request' = [request EXCEPT ![r].at = "remove", ![r].victims = {sid(r)},
                                      ![r].answer = Refusal(at(r))]
     \/ /\ sid(r) \in DOMAIN session
        /\ ~IsExpired(sid(r))
        /\ IF ~disk[sid(r)].root THEN Answer(r, Refusal(at(r)))
           ELSE IF at(r) = "readonly" THEN Answer(r, "ok")
           ELSE Goto(r, AfterPath(request[r].op, at(r)))
        /\ UNCHANGED lock
  /\ UNCHANGED <<now, session, disk, slots, issued, known, deleted, strays>>

-----------------------------------------------------------------------------
(* SessionManager._remove_locked: rmtree(ignore_errors) and the four pops.  *)

\* The victims go in the order in which they were registered.
Victim(r) == CHOOSE s \in request[r].victims :
               \A v \in request[r].victims \ {s} : session[s].nth < session[v].nth

\* What is found outside guardrails/vulnerable is as good as gone: nobody looks
\* at it before the directory is.
RemoveScan(r) ==
  /\ at(r) = "remove"
  /\ request' = [request EXCEPT ![r].at = "unlink", ![r].todo = Present(Victim(r)),
                                ![r].saw = disk[Victim(r)].vulnerable]
  /\ disk' = [disk EXCEPT ![Victim(r)].beside = FALSE]
  /\ UNCHANGED <<now, lock, session, slots, issued, known, deleted, strays>>

\* It is not, or not for long, the manager's to remove.
Unkept(s) == s \notin DOMAIN session \/ \E r \in Request : at(r) = "unlink" /\ s = Victim(r)

\* The history of writing to a session's directory.
Touch(s) == strays' = IF Unkept(s) THEN strays \cup {s} ELSE strays

RemoveFile(r) ==
  /\ at(r) = "unlink"
  /\ \E f \in request[r].todo :
       /\ disk' = [disk EXCEPT ![Victim(r)].code[f] = "absent"]
       /\ request' = [request EXCEPT ![r].todo = @ \ {f}]
  /\ UNCHANGED <<now, lock, session, slots, issued, known, deleted, strays>>

\* Defect: a directory is removed only if it is empty.
EmptiedByRmdir(s, saw) == disk[s]

\* A directory that is not empty, or was not there to be scanned, stays.
Emptied(s, saw) ==
  LET stays == disk[s].vulnerable /\ (~saw \/ Present(s) # {})
  IN [disk[s] EXCEPT !.rest = FALSE, !.vulnerable = stays, !.root = stays \/ disk[s].beside]

\* Defect: the dictionaries keep the entry of a directory that was removed.
Keeping(s) == session

Without(s) == [v \in DOMAIN session \ {s} |-> session[v]]

\* Defect: the exception for an expired session leaves the lock taken.
ReleaseOnReturn(r, left) ==
  lock' = IF left = {} /\ at(r) = "unlink" /\ request[r].answer = "ok" THEN NoRequest ELSE lock

\* The end of the block of the lock in path() and cleanup().
Release(r, left) ==
  lock' = IF left = {} /\ request[r].op # "create" THEN NoRequest ELSE lock

\* The last victim gone, path() and cleanup() release the lock and answer;
\* create() goes on under it.
RemoveDir(r) ==
  LET s == Victim(r)
      left == request[r].victims \ {s}
  IN /\ at(r) = "unlink" /\ request[r].todo = {}
     /\ disk' = [disk EXCEPT ![s] = Emptied(s, request[r].saw)]
     /\ session' = Without(s)
     /\ request' = [request EXCEPT ![r].victims = left,
                      ![r].at = IF left # {} THEN "remove"
                                ELSE IF request[r].op = "create" THEN "add" ELSE "answered"]
     /\ Release(r, left)
     /\ deleted' = IF request[r].op = "delete" THEN deleted \cup {s} ELSE deleted
     /\ UNCHANGED <<now, slots, issued, known, strays>>

Cleanup(r) ==
  /\ at(r) = "cleanup"
  /\ lock = NoRequest
  /\ IF sid(r) \in DOMAIN session
     THEN /\ lock' = r
          /\ request' = [request EXCEPT ![r].at = "remove", ![r].victims = {sid(r)},
                                        ![r].answer = "ok"]
          /\ UNCHANGED deleted
     ELSE /\ Answer(r, "ok")
          /\ deleted' = deleted \cup {sid(r)}
          /\ UNCHANGED lock
  /\ UNCHANGED <<now, session, disk, slots, issued, known, strays>>

-----------------------------------------------------------------------------
(* SessionManager.create and _reap_locked.                                  *)

\* Until it is registered nobody else knows of the copy: of one that fails on the
\* way it only matters that it is there.
Materialize(r) ==
  /\ at(r) = "materialize"
  /\ issued < MaxSid
  /\ issued' = issued + 1
  /\ \/ /\ disk' = [disk EXCEPT ![issued'] = Fresh]
        /\ request' = [request EXCEPT ![r].at = "register", ![r].sid = issued']
        /\ UNCHANGED strays
     \/ /\ request' = [request EXCEPT ![r].at = "answered", ![r].sid = issued',
                                      ![r].answer = "error"]
        /\ \/ /\ disk' = [disk EXCEPT ![issued'] = [NoWorkspace EXCEPT !.root = TRUE]]
              /\ strays' = strays \cup {issued'}
           \/ UNCHANGED <<disk, strays>>
  /\ UNCHANGED <<now, lock, session, slots, known, deleted>>

Expired == {s \in DOMAIN session : IsExpired(s)}

\* The k sessions registered first.
Oldest(sessions, k) ==
  {s \in sessions : Cardinality({v \in sessions : session[v].nth < session[s].nth}) < k}

\* Defect: the cap is tested before the new session is counted.
ExcessAfter(live) == IF Cardinality(live) > MaxSessions THEN Cardinality(live) - MaxSessions ELSE 0

\* How many of the unexpired sessions must go for one more to fit.
Excess(live) ==
  IF Cardinality(live) >= MaxSessions THEN Cardinality(live) - MaxSessions + 1 ELSE 0

Register(r) ==
  /\ at(r) = "register"
  /\ lock = NoRequest
  /\ lock' = r
  /\ LET live == DOMAIN session \ Expired
         victims == Expired \cup Oldest(live, Excess(live))
     IN request' = [request EXCEPT ![r].victims = victims,
                                   ![r].at = IF victims = {} THEN "add" ELSE "remove"]
  /\ UNCHANGED <<now, session, disk, slots, issued, known, deleted, strays>>

NewEntry ==
  [born |-> now, nth |-> 1 + Max({0} \cup {session[s].nth : s \in DOMAIN session}),
   runs |-> 0]

Add(r) ==
  /\ at(r) = "add"
  /\ session' = [s \in DOMAIN session \cup {sid(r)} |->
                   IF s = sid(r) THEN NewEntry ELSE session[s]]
  /\ lock' = NoRequest
  /\ Goto(r, "created")
  /\ UNCHANGED <<now, disk, slots, issued, known, deleted, strays>>

\* The files are read after the lock is released; one that vanishes between
\* the listing and its reading raises.
Created(r) ==
  /\ at(r) = "created"
  /\ \/ /\ Answer(r, "ok")
        /\ known' = known \cup {sid(r)}
     \/ /\ disk[sid(r)].code # Whole
        /\ Answer(r, "error")
        /\ UNCHANGED known
  /\ UNCHANGED <<now, lock, session, disk, slots, issued, deleted, strays>>

-----------------------------------------------------------------------------
(* Editing: write_file and reset work on the directory without the lock.    *)

Write(r) ==
  /\ at(r) = "write"
  /\ IF disk[sid(r)].vulnerable
     THEN /\ \E f \in File : disk' = [disk EXCEPT ![sid(r)].code[f] = "edit"]
          /\ Touch(sid(r))
          /\ Answer(r, "ok")
     ELSE /\ Answer(r, "error")
          /\ UNCHANGED <<disk, strays>>
  /\ UNCHANGED <<now, lock, session, slots, issued, known, deleted>>

ResetScan(r) ==
  /\ at(r) = "scan"
  /\ IF disk[sid(r)].vulnerable
     THEN request' = [request EXCEPT ![r].at = "clear", ![r].todo = Present(sid(r))]
     ELSE Answer(r, "error")
  /\ UNCHANGED <<now, lock, session, disk, slots, issued, known, deleted, strays>>

\* A listed file that is gone raises up to Python 3.12 and is passed over
\* from 3.13 on.
ResetUnlink(r) ==
  /\ at(r) = "clear"
  /\ \E f \in request[r].todo :
       \/ /\ disk' = [disk EXCEPT ![sid(r)].code[f] = "absent"]
          /\ request' = [request EXCEPT ![r].todo = @ \ {f}]
       \/ /\ f \notin Present(sid(r))
          /\ Answer(r, "error")
          /\ UNCHANGED disk
  /\ UNCHANGED <<now, lock, session, slots, issued, known, deleted, strays>>

ResetRmdir(r) ==
  /\ at(r) = "clear" /\ request[r].todo = {}
  /\ IF disk[sid(r)].vulnerable /\ Present(sid(r)) = {}
     THEN /\ disk' = [disk EXCEPT ![sid(r)].vulnerable = FALSE]
          /\ Goto(r, "mkdir")
     ELSE /\ Answer(r, "error")
          /\ UNCHANGED disk
  /\ UNCHANGED <<now, lock, session, slots, issued, known, deleted, strays>>

\* copytree makes the directory and every parent that is missing.
ResetMkdir(r) ==
  /\ at(r) = "mkdir"
  /\ IF disk[sid(r)].vulnerable
     THEN /\ Answer(r, "error")
          /\ UNCHANGED <<disk, strays>>
     ELSE /\ disk' = [disk EXCEPT ![sid(r)].vulnerable = TRUE, ![sid(r)].root = TRUE]
          /\ Touch(sid(r))
          /\ request' = [request EXCEPT ![r].at = "copy", ![r].todo = File]
  /\ UNCHANGED <<now, lock, session, slots, issued, known, deleted>>

\* copytree goes on after a file that cannot be copied and raises at the end.
ResetCopy(r) ==
  /\ at(r) = "copy"
  /\ \E f \in request[r].todo :
       /\ IF disk[sid(r)].vulnerable
          THEN disk' = [disk EXCEPT ![sid(r)].code[f] = "lab"] /\ Touch(sid(r))
          ELSE UNCHANGED <<disk, strays>>
       /\ request' = [request EXCEPT ![r].todo = @ \ {f},
                                     ![r].failed = @ \/ ~disk[sid(r)].vulnerable]
  /\ UNCHANGED <<now, lock, session, slots, issued, known, deleted>>

\* Defect: the answer is sent without looking the session up once more.
Shown == "answered"

\* SESSIONS.readonly_files, which looks the session up a third time.
Reading == "readonly"

\* What the answer will show is read here.
ResetRead(r) ==
  /\ at(r) = "copy" /\ request[r].todo = {}
  /\ IF request[r].failed THEN Answer(r, "error")
     ELSE request' = [request EXCEPT ![r].at = Reading, ![r].code = disk[sid(r)].code,
                                    ![r].answer = IF Reading = "answered" THEN "ok" ELSE @]
  /\ UNCHANGED <<now, lock, session, disk, slots, issued, known, deleted, strays>>

-----------------------------------------------------------------------------
(* Runs: SubprocessRunner.run, the invariant board and record_run.          *)

\* Defect: the slot is given back when the deadline passes, before the
\* process has been killed and reaped.
RanOut(r) == slots' = slots + 1

\* communicate(timeout): the deadline has passed and the group is killed.
Deadline(r) == slots' = slots

\* Leaving the block of the semaphore, by return or by exception.
GiveBack(r) == slots' = slots + 1

TakeSlot(r) ==
  /\ at(r) = "slot"
  /\ slots > 0
  /\ IF disk[sid(r)].root
     THEN /\ slots' = slots - 1
          /\ Goto(r, "running")
     ELSE /\ Answer(r, "error")
          /\ UNCHANGED slots
  /\ UNCHANGED <<now, lock, session, disk, issued, known, deleted, strays>>

TimeOut(r) ==
  /\ at(r) = "running"
  /\ Deadline(r)
  /\ Goto(r, "killed")
  /\ UNCHANGED <<now, lock, session, disk, issued, known, deleted, strays>>

\* The code that is tested, and the caches of what it imports, until the child is
\* reaped: in guardrails/vulnerable or elsewhere, and missing directories are made.
\* A file of the learner's that it overwrites is like one that is saved.
Scribble(r) ==
  /\ at(r) \in {"running", "killed"}
  /\ \/ disk' = [disk EXCEPT ![sid(r)].code[Litter] = "edit", ![sid(r)].vulnerable = TRUE,
                            ![sid(r)].root = TRUE]
     \/ disk' = [disk EXCEPT ![sid(r)].beside = TRUE, ![sid(r)].root = TRUE]
  /\ Touch(sid(r))
  /\ UNCHANGED <<now, lock, session, slots, request, issued, known, deleted>>

\* The process has ended, its report is read, whole or not at all, and the
\* block of the semaphore is left.
EndRun(r) ==
  /\ at(r) \in {"running", "killed"}
  /\ GiveBack(r)
  /\ Goto(r, "board")
  /\ UNCHANGED <<now, lock, session, disk, issued, known, deleted, strays>>

\* _invariant_board reads the workspace's scenario.yaml.
Board(r) ==
  /\ at(r) = "board"
  /\ IF ~disk[sid(r)].rest THEN Answer(r, "error")
     ELSE IF request[r].op = "stream" THEN Answer(r, "ok")
     ELSE Goto(r, "record")
  /\ UNCHANGED <<now, lock, session, disk, slots, issued, known, deleted, strays>>

Record(r) ==
  /\ at(r) = "record"
  /\ lock = NoRequest
  /\ session' = IF sid(r) \notin DOMAIN session THEN session
                ELSE [session EXCEPT ![sid(r)].runs = @ + 1]
  /\ Answer(r, "ok")
  /\ UNCHANGED <<now, lock, disk, slots, issued, known, deleted, strays>>

-----------------------------------------------------------------------------

Init ==
  /\ now = 0
  /\ lock = NoRequest
  /\ session = [s \in {1} |-> [born |-> 0, nth |-> 1, runs |-> 0]]
  /\ disk = [s \in Sid |-> IF s = 1 THEN Fresh ELSE NoWorkspace]
  /\ slots = MaxConcurrent
  /\ request = [r \in Request |-> Idle]
  /\ issued = 1
  /\ known = {1}
  /\ deleted = {} /\ strays = {}

Serve(r) ==
  \/ Path(r) \/ RemoveScan(r) \/ RemoveFile(r) \/ RemoveDir(r) \/ Cleanup(r)
  \/ Materialize(r) \/ Register(r) \/ Add(r) \/ Created(r)
  \/ Write(r) \/ ResetScan(r) \/ ResetUnlink(r) \/ ResetRmdir(r) \/ ResetMkdir(r)
  \/ ResetCopy(r) \/ ResetRead(r)
  \/ TakeSlot(r) \/ TimeOut(r) \/ EndRun(r) \/ Board(r) \/ Record(r)

Tick ==
  /\ now < MaxClock
  /\ now' = now + 1
  /\ UNCHANGED <<lock, session, disk, slots, request, issued, known, deleted, strays>>

AllAnswered == \A r \in Request : at(r) = "answered"

Quiet == AllAnswered /\ UNCHANGED vars

Next == (\E r \in Request : Begin(r) \/ Serve(r) \/ Scribble(r)) \/ Tick \/ Quiet

\* Threads that can go on do; the clock, the clients and the learner's code owe
\* nothing.
Spec == Init /\ [][Next]_vars /\ \A r \in Request : WF_vars(Serve(r))

-----------------------------------------------------------------------------
(* Properties.                                                              *)

Children == {r \in Request : at(r) \in {"running", "killed"}}
Places == {"idle", "answered", "path", "writable", "dest", "again", "readonly", "remove",
           "unlink", "cleanup", "materialize", "register", "add", "created", "write", "scan",
           "clear", "mkdir", "copy", "slot", "running", "killed", "board", "record"}

\* Every variable has its type; in particular the semaphore never has more
\* slots than it was made with.
TypeOK ==
  /\ now \in 0 .. MaxClock /\ lock \in Request \cup {NoRequest}
  /\ slots \in 0 .. MaxConcurrent /\ issued \in Sid
  /\ known \cup deleted \cup strays \subseteq Sid
  /\ DOMAIN session \subseteq Sid /\ \A s \in DOMAIN session : session[s] \in Entry
  /\ disk \in [Sid -> Workspace]
  /\ \A r \in Request :
       /\ at(r) \in Places /\ request[r].op \in Operations \cup {"none"}
       /\ sid(r) \in 0 .. MaxSid /\ request[r].answer \in Answers

\* _reap_locked: whoever creates at the same time, the registered sessions
\* never exceed DVAH_MAX_SESSIONS, and beyond them the disk holds only the
\* copies of the creations still under way and the strays.
WithinCap ==
  /\ Cardinality(DOMAIN session) <= MaxSessions
  /\ Cardinality({s \in Sid : disk[s].root} \ strays) <=
       MaxSessions + Cardinality({r \in Request : request[r].op = "create" /\ at(r) # "answered"})

\* _remove_locked and create: while nobody holds the lock, a session that is
\* registered has its directory, however many threads evict, expire, delete
\* and create.
RegisteredOnDisk ==
  lock = NoRequest => \A s \in DOMAIN session : disk[s].root /\ disk[s].rest

\* Registered, so that expiry, eviction or deletion will remove it, or about to be
\* registered by a creation still under way.
Owned(s) ==
  \/ s \in DOMAIN session
  \/ \E r \in Request : /\ request[r].op = "create" /\ sid(r) = s
                        /\ at(r) \in {"register", "remove", "unlink", "add"}

\* SessionManager "creates, serves, and cleans up" workspaces: every directory
\* is one that something will remove.
NoOrphans == \A s \in Sid : disk[s].root => Owned(s)

\* What there is of it: rmtree(ignore_errors) gives up on a directory only to who
\* writes to it meanwhile, so a directory nobody owns was written to by a save, a
\* reset or a child after its removal began, or is left of a creation that failed.
OrphansAreStrays == \A s \in Sid : disk[s].root => Owned(s) \/ s \in strays

\* delete_session: a request that arrives after a deletion was answered is
\* turned away, whatever a reset still running does to the directory.
DeletedStaysDeleted == \A r \in Request : request[r].stale => request[r].answer # "ok"

\* reset_session: an answer that lists the files after a reset lists all of
\* them.
ResetShowsAll ==
  \A r \in Request :
    request[r].op = "reset" /\ request[r].answer = "ok" =>
      \A f \in File : request[r].code[f] # "absent"

\* runner._slots: a child that was killed but not yet reaped still counts.
RunsWithinSlots == Cardinality(Children) <= MaxConcurrent

\* Every request that arrived is answered: nobody waits for the lock or for a
\* slot for ever.
Answered == \A r \in Request : (at(r) # "idle") ~> (at(r) = "answered")
===============================================================================
