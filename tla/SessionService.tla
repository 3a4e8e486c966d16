--------------------------- MODULE SessionService --------------------------
(***************************************************************************)
(* The sessions of internal/server/server.go: the maps s.sessions and      *)
(* s.snapshots, and the handlers that create, serve, commit and expire     *)
(* them.  A handler holds s.mu only around single accesses of the maps, so *)
(* each runs in steps between which any other may run: requests are        *)
(* processes with a program counter.                                       *)
(*                                                                         *)
(* The lock table is the set of modules IsLocked answers for; the index of *)
(* a module (SnapshotIndexer) is a number that a rebuild raises.           *)
(***************************************************************************)
EXTENDS Integers, FiniteSets

CONSTANTS
  Modules,
  Requests,    \* the requests in flight, each with a token for
  TokenOf,     \* one module
  TTL,         \* SnapshotTTL, in ticks
  MaxNow,      \* bound on the clock
  MaxIndex,    \* bound on the rebuilds
  FineClock    \* do two requests never read the same UnixNano?

ASSUME SessionConstants ==
  /\ TokenOf \in [Requests -> Modules]
  /\ TTL \in Nat /\ MaxNow \in Nat /\ MaxIndex \in Nat
  /\ FineClock \in BOOLEAN

VARIABLES
  now,        \* the clock; a session's ID is the time it was named at
  locked,     \* the modules whose lock is held
  index,      \* the index of each module
  sessions,   \* s.sessions: a set of records, one per ID
  snapshots,  \* s.snapshots: likewise; the snapshot's ID is the session's
  req         \* the state of every request

vars == <<now, locked, index, sessions, snapshots, req>>

NoSid == -1

\* What a handler holds between two of its steps, and its answer.
Request(pc, module, sid, made, answer) ==
  [pc |-> pc, module |-> module, sid |-> sid, made |-> made, answer |-> answer]

Idle(r) == Request("idle", TokenOf[r], NoSid, 0, "none")

Session(sid, module, made, status) ==
  [sid |-> sid, module |-> module, createdAt |-> made, status |-> status]
Snapshot(sid, module, version) ==
  [sid |-> sid, module |-> module, version |-> version]

\* Writing a map entry, deleting map entries.
Put(recs, new) == {x \in recs : x.sid # new.sid} \cup {new}
Delete(recs, sids) == {x \in recs : x.sid \notin sids}

Init ==
  /\ now = 0 /\ locked = {}
  /\ index = [m \in Modules |-> 0]
  /\ sessions = {} /\ snapshots = {}
  /\ req = [r \in Requests |-> Idle(r)]

At(r, pc) == req[r].pc = pc
Become(r, state) == req' = [req EXCEPT ![r] = state]
Finish(r, answer) ==
  Become(r, [req[r] EXCEPT !.pc = "done", !.answer = answer])
-----------------------------------------------------------------------------
(***************************************************************************)
(* handleSessionCreate: the lock is checked, the snapshot is built from    *)
(* the index of that moment, and both records are stored.                  *)
(***************************************************************************)
\* m is the module the request names, which has to be its token's.
CreateCheck(r, m) ==
  /\ At(r, "idle")
  /\ \/ m # TokenOf[r] /\ Finish(r, "unauthorized")
     \/ m = TokenOf[r] /\ m \in locked /\ Finish(r, "locked")
     \/ m = TokenOf[r] /\ m \notin locked /\ Become(r, [req[r] EXCEPT !.pc = "create"])
  /\ UNCHANGED <<now, locked, index, sessions, snapshots>>

\* The source path is invalid, or an exclude pattern is.
CreateRefused(r) ==
  /\ At(r, "create")
  /\ Finish(r, "refused")
  /\ UNCHANGED <<now, locked, index, sessions, snapshots>>

\* A mutant: the ID is taken from a clock of half the resolution.
CoarseSid(time) == time - (time % 2)
\* strconv.FormatInt(time.Now().UnixNano(), 36)
NewSid(time) == time

\* made is the index the snapshot was built from; the session's CreatedAt is
\* read after it.
CreateBuild(r) ==
  /\ At(r, "create")
  /\ now < MaxNow
  /\ Become(r, [req[r] EXCEPT !.pc = "built", !.sid = NewSid(now),
                              !.made = index[TokenOf[r]]])
  /\ now' \in IF FineClock THEN {now + 1} ELSE {now, now + 1}
  /\ UNCHANGED <<locked, index, sessions, snapshots>>

\* A mutant: sessions of exactly the TTL's age are dropped too.
ExpiredEarly(created) == now - created >= TTL
Expired(created) == now - created > TTL

\* A mutant: the snapshots of expired sessions are forgotten in their map.
LeakSnapshots(ss, snaps) ==
  <<{s \in ss : ~Expired(s.createdAt)}, snaps>>
\* cleanupExpiredLocked
CleanupExpired(ss, snaps) ==
  LET gone == {s.sid : s \in {x \in ss : Expired(x.createdAt)}}
  IN <<Delete(ss, gone), Delete(snaps, gone)>>

CreateStore(r) ==
  /\ At(r, "built")
  /\ \E created \in req[r].sid .. now :
       LET stored == CleanupExpired(
             Put(sessions, Session(req[r].sid, req[r].module, created, "active")),
             Put(snapshots, Snapshot(req[r].sid, req[r].module, req[r].made)))
       IN sessions' = stored[1] /\ snapshots' = stored[2]
  /\ Finish(r, "ready")
  /\ UNCHANGED <<now, locked, index>>
-----------------------------------------------------------------------------
(***************************************************************************)
(* handleManifest and handleObject find the session of a snapshot, check   *)
(* the token against its module, and only then look the snapshot up.       *)
(***************************************************************************)
FetchAuthorize(r, sid) ==
  /\ At(r, "idle")
  /\ \/ /\ \E s \in sessions : s.sid = sid /\ s.module = TokenOf[r]
        /\ Become(r, [req[r] EXCEPT !.pc = "fetch", !.sid = sid])
     \/ /\ ~\E s \in sessions : s.sid = sid /\ s.module = TokenOf[r]
        /\ Finish(r, "unauthorized")
  /\ UNCHANGED <<now, locked, index, sessions, snapshots>>

FetchServe(r) ==
  /\ At(r, "fetch")
  /\ \/ \E snap \in snapshots :
          /\ snap.sid = req[r].sid
          /\ Become(r, [req[r] EXCEPT !.pc = "done", !.answer = "served",
                                      !.module = snap.module, !.made = snap.version])
     \/ /\ ~\E snap \in snapshots : snap.sid = req[r].sid
        /\ Finish(r, "notFound")
  /\ UNCHANGED <<now, locked, index, sessions, snapshots>>
-----------------------------------------------------------------------------
(***************************************************************************)
(* handleSessionCommit looks the session up twice.                         *)
(***************************************************************************)
CommitFind(r, sid) ==
  /\ At(r, "idle")
  /\ \/ /\ \E s \in sessions : s.sid = sid /\ s.module = TokenOf[r]
        /\ Become(r, [req[r] EXCEPT !.pc = "commit", !.sid = sid])
     \/ /\ ~\E s \in sessions : s.sid = sid /\ s.module = TokenOf[r]
        /\ Finish(r, "refused")
  /\ UNCHANGED <<now, locked, index, sessions, snapshots>>

\* A mutant: a committed copy is added to the one in the map.
CommitBeside(sid, module) ==
  sessions \cup {Session(sid, module, now, "committed")}
\* Only a session that is still in the map is marked.
CommitMark(sid, module) ==
  {[s EXCEPT !.status = IF s.sid = sid THEN "committed" ELSE @] : s \in sessions}

Commit(r) ==
  /\ At(r, "commit")
  /\ sessions' = CommitMark(req[r].sid, req[r].module)
  /\ Finish(r, "ok")
  /\ UNCHANGED <<now, locked, index, snapshots>>
-----------------------------------------------------------------------------
(***************************************************************************)
(* handleLockWaitWS polls the lock, tells the client what it found, and    *)
(* sleeps until the next tick, until the lock is free or the client gone.  *)
(***************************************************************************)
WaitStart(r, m) ==
  /\ At(r, "idle")
  /\ \/ m # TokenOf[r] /\ Finish(r, "unauthorized")
     \/ m = TokenOf[r] /\ Become(r, [req[r] EXCEPT !.pc = "wait"])
  /\ UNCHANGED <<now, locked, index, sessions, snapshots>>

\* The event "unlocked" is the last whether or not it can be written; a failed
\* write of "locked" ends the handler, too.
WaitPoll(r) ==
  /\ At(r, "wait")
  /\ \/ TokenOf[r] \notin locked /\ Finish(r, "unlocked")
     \/ TokenOf[r] \in locked /\ Become(r, [req[r] EXCEPT !.pc = "asleep"])
     \/ TokenOf[r] \in locked /\ Finish(r, "disconnected")
  /\ UNCHANGED <<now, locked, index, sessions, snapshots>>

\* The ticker fires, or the request's context is done.
WaitWake(r) ==
  /\ At(r, "asleep")
  /\ Become(r, [req[r] EXCEPT !.pc = "wait"]) \/ Finish(r, "disconnected")
  /\ UNCHANGED <<now, locked, index, sessions, snapshots>>
-----------------------------------------------------------------------------
(***************************************************************************)
(* The surroundings: lock holders, index rebuilds, time, new requests, and *)
(* a restart, which loses both maps and every connection.                  *)
(***************************************************************************)
LockOrUnlock(m) ==
  /\ locked' = IF m \in locked THEN locked \ {m} ELSE locked \cup {m}
  /\ UNCHANGED <<now, index, sessions, snapshots, req>>

Rebuild(m) ==
  /\ index[m] < MaxIndex
  /\ index' = [index EXCEPT ![m] = @ + 1]
  /\ UNCHANGED <<now, locked, sessions, snapshots, req>>

Tick ==
  /\ now < MaxNow
  /\ now' = now + 1
  /\ UNCHANGED <<locked, index, sessions, snapshots, req>>

NextRequest(r) ==
  /\ At(r, "done")
  /\ Become(r, Idle(r))
  /\ UNCHANGED <<now, locked, index, sessions, snapshots>>

Restart ==
  /\ sessions' = {} /\ snapshots' = {}
  /\ req' = [r \in Requests |-> Idle(r)]
  /\ UNCHANGED <<now, locked, index>>

Handler(r) ==
  \/ \E m \in Modules : CreateCheck(r, m) \/ WaitStart(r, m)
  \/ CreateRefused(r) \/ CreateBuild(r) \/ CreateStore(r)
  \/ \E sid \in 0 .. MaxNow : FetchAuthorize(r, sid) \/ CommitFind(r, sid)
  \/ FetchServe(r)
  \/ Commit(r)
  \/ WaitPoll(r) \/ WaitWake(r)
  \/ NextRequest(r)

Next ==
  \/ \E r \in Requests : Handler(r)
  \/ \E m \in Modules : LockOrUnlock(m) \/ Rebuild(m)
  \/ Tick
  \/ Restart

Spec == Init /\ [][Next]_vars
-----------------------------------------------------------------------------
SessionStates == [sid : 0 .. MaxNow, module : Modules, createdAt : 0 .. MaxNow,
                  status : {"active", "committed"}]
SnapshotStates == [sid : 0 .. MaxNow, module : Modules, version : 0 .. MaxIndex]
RequestStates ==
  [pc : {"idle", "create", "built", "fetch", "commit", "wait", "asleep",
         "done"},
   module : Modules, sid : {NoSid} \cup 0 .. MaxNow, made : 0 .. MaxIndex,
   answer : {"none", "locked", "refused", "ready", "unauthorized", "served",
             "notFound", "ok", "unlocked", "disconnected"}]

\* A map has one record per ID.
OnePerSid(recs) == \A s, t \in recs : s.sid = t.sid => s = t

TypeOK ==
  /\ now \in 0 .. MaxNow /\ locked \subseteq Modules
  /\ index \in [Modules -> 0 .. MaxIndex]
  /\ sessions \subseteq SessionStates /\ OnePerSid(sessions)
  /\ snapshots \subseteq SnapshotStates /\ OnePerSid(snapshots)
  /\ req \in [Requests -> RequestStates]

\* Which module an ID stands for.
Owners(recs) == {<<s.sid, s.module>> : s \in recs}

\* A session always has its snapshot and a snapshot its session, of the same
\* module: no interleaving of creations, commits and clean-ups loses one or
\* keeps the other for ever (server.go:465-469, 633-637, 644-652).
SessionsHaveSnapshots == Owners(sessions) = Owners(snapshots)

\* Whoever is served gets the snapshot of a module that its token is for,
\* although the module is checked before the snapshot is read
\* (server.go:497-509).
ServedIsAuthorized ==
  \A r \in Requests : req[r].answer = "served" => req[r].module = TokenOf[r]

\* The snapshots that can be fetched, or will be when their creation is answered,
\* and what was fetched of them.
Table ==
  {snap \in snapshots : <<snap.sid, snap.module>> \in Owners(sessions)}
    \cup {Snapshot(req[r].sid, req[r].module, req[r].made) : r \in
            {q \in Requests : At(q, "built")}}
Given ==
  [r \in Requests |-> IF req[r].answer = "served"
                      THEN {Snapshot(req[r].sid, req[r].module, req[r].made)} ELSE {}]

Promise == INSTANCE SessionTable WITH table <- Table, given <- Given

\* The two maps and the steps of the handlers behave as one table whose records
\* are made at once, from the index of that instant: all pages and objects that
\* a client fetches under an ID are of this index and of its token's module,
\* however often the index is rebuilt meanwhile and sessions expire, and no
\* other session ever gets the ID (server.go:437-509, 633-652).
ImplementsTable == Promise!Spec

\* A session is dropped only when it is older than the TTL, or by a restart: no
\* creation, commit or clean-up takes the session of a client that is still
\* downloading (server.go:465-469, 633-637, 644-652).
YoungSessionsStay ==
  [][\A s \in sessions :
       \/ \E t \in sessions' : t.sid = s.sid /\ t.createdAt = s.createdAt
       \/ now - s.createdAt > TTL
       \/ Restart]_vars
=============================================================================
