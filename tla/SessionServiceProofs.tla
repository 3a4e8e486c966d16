------------------------- MODULE SessionServiceProofs ------------------------
(***************************************************************************)
(* The sessions of SessionService for any modules, requests in flight, TTL *)
(* and numbers of rebuilds.  What depends on the IDs is proved for a clock *)
(* that no two requests read alike.                                        *)
(***************************************************************************)
EXTENDS SessionService, TLAPS

\* The two maps, as any handler leaves them.
Stored(ss, snaps) ==
  /\ ss \subseteq SessionStates /\ OnePerSid(ss)
  /\ snaps \subseteq SnapshotStates /\ OnePerSid(snaps)
  /\ Owners(ss) = Owners(snaps)

\* A request under way is about its own module, and a creation that has built
\* its snapshot has named it.
NamedIn(state, r, time) ==
  /\ state.pc # "done" => state.module = TokenOf[r]
  /\ state.pc = "built" => state.sid \in 0 .. time

Named == \A r \in Requests : NamedIn(req[r], r, now)

SInv == TypeOK /\ SessionsHaveSnapshots /\ Named
-----------------------------------------------------------------------------
LEMMA InitHolds == Init => SInv
<1> SUFFICES ASSUME Init PROVE SInv
  OBVIOUS
<1>1. \A r \in Requests : Idle(r) \in RequestStates /\ NamedIn(Idle(r), r, 0)
  BY SessionConstants DEF Idle, Request, RequestStates, NoSid, NamedIn
<1>2. req \in [Requests -> RequestStates] /\ \A r \in Requests : NamedIn(req[r], r, 0)
  BY <1>1 DEF Init
<1>3. TypeOK
  <2>1. index \in [Modules -> 0 .. MaxIndex] /\ now \in 0 .. MaxNow
    BY SessionConstants DEF Init
  <2> QED  BY <1>2, <2>1 DEF Init, TypeOK, OnePerSid
<1>4. SessionsHaveSnapshots /\ Named
  BY <1>2 DEF Init, SessionsHaveSnapshots, Owners, Named
<1> QED  BY <1>3, <1>4 DEF SInv

\* Storing a session beside its snapshot keeps the maps in step.
LEMMA PutStored ==
  ASSUME NEW ss, NEW snaps, Stored(ss, snaps),
         NEW s \in SessionStates, NEW snap \in SnapshotStates,
         s.sid = snap.sid, s.module = snap.module
  PROVE  Stored(Put(ss, s), Put(snaps, snap))
<1> DEFINE both == {o \in Owners(ss) : o[1] # s.sid} \cup {<<s.sid, s.module>>}
<1>1. Owners(Put(ss, s)) = both
  BY DEF Owners, Put
<1>2. Owners(Put(snaps, snap)) = {o \in Owners(snaps) : o[1] # snap.sid}
                                   \cup {<<snap.sid, snap.module>>}
  BY DEF Owners, Put
<1>3. Owners(Put(ss, s)) = Owners(Put(snaps, snap))
  BY <1>1, <1>2 DEF Stored
<1>4. OnePerSid(Put(ss, s)) /\ OnePerSid(Put(snaps, snap))
  BY DEF Stored, OnePerSid, Put
<1>5. Put(ss, s) \subseteq SessionStates /\ Put(snaps, snap) \subseteq SnapshotStates
  BY DEF Stored, Put
<1> QED  BY <1>3, <1>4, <1>5 DEF Stored

\* Deleting the same IDs from both keeps them in step.
LEMMA DeleteStored ==
  ASSUME NEW ss, NEW snaps, Stored(ss, snaps), NEW gone
  PROVE  Stored(Delete(ss, gone), Delete(snaps, gone))
<1>1. Owners(Delete(ss, gone)) = {o \in Owners(ss) : o[1] \notin gone}
  BY DEF Owners, Delete
<1>2. Owners(Delete(snaps, gone)) = {o \in Owners(snaps) : o[1] \notin gone}
  BY DEF Owners, Delete
<1>3. OnePerSid(Delete(ss, gone)) /\ OnePerSid(Delete(snaps, gone))
  BY DEF Stored, OnePerSid, Delete
<1>4. Delete(ss, gone) \subseteq SessionStates /\ Delete(snaps, gone) \subseteq SnapshotStates
  BY DEF Stored, Delete
<1> QED  BY <1>1, <1>2, <1>3, <1>4 DEF Stored

LEMMA CleanupStored ==
  ASSUME NEW ss, NEW snaps, Stored(ss, snaps)
  PROVE  Stored(CleanupExpired(ss, snaps)[1], CleanupExpired(ss, snaps)[2])
BY DeleteStored DEF CleanupExpired

\* What CreateStore stores, before the clean-up.
LEMMA StoreTypes ==
  ASSUME SInv, NEW r \in Requests, At(r, "built"), NEW created \in req[r].sid .. now,
         NEW status \in {"active", "committed"}
  PROVE  /\ Session(req[r].sid, req[r].module, created, status) \in SessionStates
         /\ Snapshot(req[r].sid, req[r].module, req[r].made) \in SnapshotStates
<1>1. req[r] \in RequestStates /\ req[r].sid \in 0 .. now /\ now \in 0 .. MaxNow
  BY DEF SInv, TypeOK, Named, NamedIn, At
<1>2. req[r].sid \in 0 .. MaxNow /\ created \in 0 .. MaxNow
  BY <1>1, SessionConstants
<1> QED  BY <1>1, <1>2 DEF Session, Snapshot, SessionStates, SnapshotStates, RequestStates

\* A step of one request keeps the invariant if the maps are stored together.
LEMMA BecomeStep ==
  ASSUME SInv, NEW r \in Requests, NEW state \in RequestStates, Become(r, state),
         NamedIn(state, r, now'),
         Stored(sessions', snapshots'), UNCHANGED <<locked, index>>,
         now' \in 0 .. MaxNow, now <= now'
  PROVE  SInv'
<1>1. req' \in [Requests -> RequestStates]
  BY DEF SInv, TypeOK, Become
<1>2. TypeOK' /\ SessionsHaveSnapshots'
  BY <1>1 DEF SInv, TypeOK, SessionsHaveSnapshots, Stored
<1>3. Named'
  <2> SUFFICES ASSUME NEW q \in Requests PROVE NamedIn(req'[q], q, now')
    BY DEF Named
  <2>1. CASE q = r
    BY <2>1 DEF SInv, TypeOK, Become
  <2>2. CASE q # r
    <3>1. req'[q] = req[q] /\ NamedIn(req[q], q, now)
      BY <2>2 DEF SInv, TypeOK, Become, Named
    <3>2. now \in Int /\ now' \in Int
      BY SessionConstants DEF SInv, TypeOK
    <3> QED  BY <3>1, <3>2 DEF NamedIn
  <2> QED  BY <2>1, <2>2
<1> QED  BY <1>2, <1>3 DEF SInv

\* A step of one request that leaves maps and clock alone.
LEMMA QuietStep ==
  ASSUME SInv, NEW r \in Requests, NEW state \in RequestStates, Become(r, state),
         state.pc # "built", state.pc = "done" \/ state.module = TokenOf[r],
         UNCHANGED <<now, locked, index, sessions, snapshots>>
  PROVE  SInv'
<1>1. Stored(sessions', snapshots') /\ now' \in 0 .. MaxNow /\ now <= now'
  BY DEF SInv, TypeOK, SessionsHaveSnapshots, Stored
<1> QED  BY <1>1, BecomeStep DEF NamedIn

\* A request and its session, as the type invariant has them.
LEMMA RequestFacts ==
  ASSUME SInv, NEW r \in Requests
  PROVE  req[r] \in RequestStates /\ NamedIn(req[r], r, now)
BY DEF SInv, TypeOK, Named

Answers == {"locked", "refused", "unauthorized", "notFound", "ok", "unlocked",
            "disconnected", "ready"}

\* An answer that brings no data.
LEMMA FinishState ==
  ASSUME SInv, NEW r \in Requests, NEW answer \in Answers, Finish(r, answer)
  PROVE  \E state \in RequestStates :
           state.pc = "done" /\ Become(r, state)
<1> DEFINE state == [req[r] EXCEPT !.pc = "done", !.answer = answer]
<1>1. state \in RequestStates /\ state.pc = "done"
  BY RequestFacts DEF RequestStates, Answers
<1>2. Become(r, state)
  BY DEF Finish
<1> HIDE DEF state
<1> QED  BY <1>1, <1>2

LEMMA FinishStep ==
  ASSUME SInv, NEW r \in Requests, NEW answer \in Answers, Finish(r, answer),
         UNCHANGED <<now, locked, index, sessions, snapshots>>
  PROVE  SInv'
BY FinishState, QuietStep

\* A step to the next part of a handler, with the session it found.
LEMMA GoStep ==
  ASSUME SInv, NEW r \in Requests, req[r].pc = "idle" \/ req[r].pc = "create",
         NEW pc \in {"create", "fetch", "commit", "wait"},
         NEW sid \in {NoSid} \cup 0 .. MaxNow,
         Become(r, [req[r] EXCEPT !.pc = pc, !.sid = sid]),
         UNCHANGED <<now, locked, index, sessions, snapshots>>
  PROVE  SInv'
<1> DEFINE state == [req[r] EXCEPT !.pc = pc, !.sid = sid]
<1>1. state \in RequestStates /\ state.pc = pc /\ state.module = TokenOf[r]
  BY RequestFacts DEF RequestStates, NamedIn
<1>2. Become(r, state)
  OBVIOUS
<1> HIDE DEF state
<1> QED  BY <1>1, <1>2, QuietStep

\* Where a handler has not asked for an ID.
Waiting == {"idle", "wait", "asleep"}

LEMMA StayStep ==
  ASSUME SInv, NEW r \in Requests, req[r].pc \in Waiting,
         NEW pc \in {"create", "wait", "asleep"}, Become(r, [req[r] EXCEPT !.pc = pc]),
         UNCHANGED <<now, locked, index, sessions, snapshots>>
  PROVE  SInv'
<1> DEFINE state == [req[r] EXCEPT !.pc = pc]
<1>1. state \in RequestStates /\ state.pc = pc /\ state.module = TokenOf[r]
  BY RequestFacts DEF RequestStates, NamedIn, Waiting
<1>2. Become(r, state)
  OBVIOUS
<1> HIDE DEF state
<1> QED  BY <1>1, <1>2, QuietStep
-----------------------------------------------------------------------------
LEMMA BuildKeeps ==
  ASSUME SInv, NEW r \in Requests, CreateBuild(r)
  PROVE  SInv'
<1> DEFINE state == [req[r] EXCEPT !.pc = "built", !.sid = NewSid(now),
                                   !.made = index[TokenOf[r]]]
<1>1. now \in 0 .. MaxNow /\ index[TokenOf[r]] \in 0 .. MaxIndex /\ req[r] \in RequestStates
  BY SessionConstants DEF SInv, TypeOK
<1>2. now' \in 0 .. MaxNow /\ now <= now' /\ now \in 0 .. now'
  BY <1>1, SessionConstants DEF CreateBuild
<1>3. state \in RequestStates /\ NamedIn(state, r, now')
  BY <1>1, <1>2, RequestFacts DEF RequestStates, NewSid, NamedIn, CreateBuild, At
<1>4. Stored(sessions', snapshots') /\ Become(r, state) /\ UNCHANGED <<locked, index>>
  BY DEF CreateBuild, SInv, TypeOK, SessionsHaveSnapshots, Stored
<1> HIDE DEF state
<1> QED  BY <1>2, <1>3, <1>4, BecomeStep

LEMMA StoreKeeps ==
  ASSUME SInv, NEW r \in Requests, CreateStore(r)
  PROVE  SInv'
<1>1. PICK created \in req[r].sid .. now :
        LET stored == CleanupExpired(
              Put(sessions, Session(req[r].sid, req[r].module, created, "active")),
              Put(snapshots, Snapshot(req[r].sid, req[r].module, req[r].made)))
        IN sessions' = stored[1] /\ snapshots' = stored[2]
  BY DEF CreateStore
<1> DEFINE s == Session(req[r].sid, req[r].module, created, "active")
           snap == Snapshot(req[r].sid, req[r].module, req[r].made)
<1>2. At(r, "built") /\ Finish(r, "ready") /\ UNCHANGED <<now, locked, index>>
  BY DEF CreateStore
<1>3. s \in SessionStates /\ snap \in SnapshotStates
  BY <1>2, StoreTypes
<1>4. s.sid = snap.sid /\ s.module = snap.module
  BY DEF Session, Snapshot
<1>5. Stored(sessions, snapshots)
  BY DEF SInv, TypeOK, SessionsHaveSnapshots, Stored
<1> HIDE DEF s, snap
<1>6. Stored(Put(sessions, s), Put(snapshots, snap))
  BY <1>3, <1>4, <1>5, PutStored
<1>7. Stored(sessions', snapshots')
  BY <1>1, <1>6, CleanupStored DEF s, snap
<1>8. PICK state \in RequestStates : state.pc = "done" /\ Become(r, state)
  BY <1>2, FinishState DEF Answers
<1>9. NamedIn(state, r, now') /\ now' \in 0 .. MaxNow /\ now <= now'
  BY <1>2, <1>8, SessionConstants DEF NamedIn, SInv, TypeOK
<1> QED  BY <1>2, <1>7, <1>8, <1>9, BecomeStep

LEMMA CommitKeeps ==
  ASSUME SInv, NEW r \in Requests, Commit(r)
  PROVE  SInv'
<1> DEFINE ss == CommitMark(req[r].sid, req[r].module)
           mark(s) == [s EXCEPT !.status = IF s.sid = req[r].sid THEN "committed" ELSE @]
<1>1. PICK state \in RequestStates : state.pc = "done" /\ Become(r, state)
  BY FinishState DEF Commit, Answers
<1>2. \A s \in sessions :
        /\ mark(s) \in SessionStates /\ mark(s).sid = s.sid /\ mark(s).module = s.module
        /\ mark(s).createdAt = s.createdAt
  BY DEF SInv, TypeOK, SessionStates
<1>3. ss = {mark(s) : s \in sessions}
  BY DEF CommitMark
<1> HIDE DEF mark, ss
<1>4. ss \subseteq SessionStates /\ OnePerSid(ss)
  BY <1>2, <1>3 DEF SInv, TypeOK, OnePerSid
<1>5. Owners(ss) = Owners(sessions)
  BY <1>2, <1>3 DEF Owners
<1>6. Stored(sessions', snapshots')
  BY <1>4, <1>5 DEF ss, Commit, Stored, SInv, TypeOK, SessionsHaveSnapshots
<1>7. /\ NamedIn(state, r, now') /\ now' \in 0 .. MaxNow /\ now <= now'
      /\ UNCHANGED <<locked, index>>
  BY <1>1, SessionConstants DEF NamedIn, SInv, TypeOK, Commit
<1> QED  BY <1>1, <1>6, <1>7, BecomeStep

LEMMA RestartKeeps == SInv /\ Restart => SInv'
<1> SUFFICES ASSUME SInv, Restart PROVE SInv'
  OBVIOUS
<1>1. \A r \in Requests : Idle(r) \in RequestStates /\ NamedIn(Idle(r), r, now')
  BY SessionConstants DEF Idle, Request, RequestStates, NoSid, NamedIn
<1>2. TypeOK'
  BY <1>1 DEF SInv, TypeOK, Restart, OnePerSid
<1>3. SessionsHaveSnapshots' /\ Named'
  BY <1>1 DEF Restart, SessionsHaveSnapshots, Owners, Named
<1> QED  BY <1>2, <1>3 DEF SInv

\* A step that leaves maps and requests alone.
LEMMA OutsideKeeps ==
  ASSUME SInv, UNCHANGED <<sessions, snapshots, req>>, locked' \subseteq Modules,
         index' \in [Modules -> 0 .. MaxIndex], now' \in 0 .. MaxNow, now <= now'
  PROVE  SInv'
<1>1. TypeOK' /\ SessionsHaveSnapshots'
  BY DEF SInv, TypeOK, SessionsHaveSnapshots
<1>2. now \in Int /\ now' \in Int
  BY SessionConstants DEF SInv, TypeOK
<1>3. Named'
  BY <1>2 DEF SInv, Named, NamedIn
<1> QED  BY <1>1, <1>3 DEF SInv

LEMMA HandlerKeeps ==
  ASSUME SInv, NEW r \in Requests, Handler(r)
  PROVE  SInv'
<1>1. CASE \E m \in Modules : CreateCheck(r, m)
  BY <1>1, FinishStep, StayStep DEF CreateCheck, At, Answers, Waiting
<1>2. CASE CreateRefused(r)
  BY <1>2, FinishStep DEF CreateRefused, Answers
<1>3. CASE CreateBuild(r)
  BY <1>3, BuildKeeps
<1>4. CASE CreateStore(r)
  BY <1>4, StoreKeeps
<1>5. ASSUME NEW sid \in 0 .. MaxNow, FetchAuthorize(r, sid) PROVE SInv'
  BY <1>5, FinishStep, GoStep DEF FetchAuthorize, At, Answers
<1>6. ASSUME NEW sid \in 0 .. MaxNow, CommitFind(r, sid) PROVE SInv'
  BY <1>6, FinishStep, GoStep DEF CommitFind, At, Answers
<1>7. CASE FetchServe(r)
  <2>1. ASSUME NEW snap \in snapshots,
               Become(r, [req[r] EXCEPT !.pc = "done", !.answer = "served",
                                        !.module = snap.module, !.made = snap.version])
        PROVE  SInv'
    <3> DEFINE state == [req[r] EXCEPT !.pc = "done", !.answer = "served",
                                       !.module = snap.module, !.made = snap.version]
    <3>1. snap \in SnapshotStates
      BY DEF SInv, TypeOK
    <3>2. state \in RequestStates /\ state.pc = "done"
      BY <3>1, RequestFacts DEF RequestStates, SnapshotStates
    <3>3. Become(r, state)
      BY <2>1
    <3> HIDE DEF state
    <3> QED  BY <1>7, <3>2, <3>3, QuietStep DEF FetchServe
  <2> QED  BY <1>7, <2>1, FinishStep DEF FetchServe, Answers
<1>8. CASE Commit(r)
  BY <1>8, CommitKeeps
<1>9. CASE \E m \in Modules : WaitStart(r, m)
  BY <1>9, FinishStep, StayStep DEF WaitStart, At, Answers, Waiting
<1>10. CASE WaitPoll(r) \/ WaitWake(r)
  BY <1>10, FinishStep, StayStep DEF WaitPoll, WaitWake, At, Answers, Waiting
<1>11. CASE NextRequest(r)
  <2>1. Idle(r) \in RequestStates /\ Idle(r).pc = "idle" /\ Idle(r).module = TokenOf[r]
    BY SessionConstants DEF Idle, Request, RequestStates, NoSid
  <2> QED  BY <1>11, <2>1, QuietStep DEF NextRequest
<1> QED  BY <1>1, <1>2, <1>3, <1>4, <1>5, <1>6, <1>7, <1>8, <1>9, <1>10, <1>11 DEF Handler

LEMMA StepKeeps == SInv /\ [Next]_vars => SInv'
<1> SUFFICES ASSUME SInv, [Next]_vars PROVE SInv'
  OBVIOUS
<1>0. now \in 0 .. MaxNow /\ MaxNow \in Nat /\ MaxIndex \in Nat
  BY SessionConstants DEF SInv, TypeOK
<1>1. ASSUME NEW r \in Requests, Handler(r) PROVE SInv'
  BY <1>1, HandlerKeeps
<1>2. ASSUME NEW m \in Modules, LockOrUnlock(m) PROVE SInv'
  <2>1. locked' \subseteq Modules
    BY <1>2 DEF LockOrUnlock, SInv, TypeOK
  <2> QED  BY <1>0, <1>2, <2>1, OutsideKeeps DEF LockOrUnlock, SInv, TypeOK
<1>3. ASSUME NEW m \in Modules, Rebuild(m) PROVE SInv'
  <2>1. index' \in [Modules -> 0 .. MaxIndex]
    BY <1>0, <1>3 DEF Rebuild, SInv, TypeOK
  <2> QED  BY <1>0, <1>3, <2>1, OutsideKeeps DEF Rebuild, SInv, TypeOK
<1>4. CASE Tick
  BY <1>0, <1>4, OutsideKeeps DEF Tick, SInv, TypeOK
<1>5. CASE Restart
  BY <1>5, RestartKeeps
<1>6. CASE UNCHANGED vars
  BY <1>0, <1>6, OutsideKeeps DEF vars, SInv, TypeOK
<1> QED  BY <1>1, <1>2, <1>3, <1>4, <1>5, <1>6 DEF Next

LEMMA Always == Spec => []SInv
<1> QED  BY InitHolds, StepKeeps, PTL DEF Spec

\* The maps hold records of the server's types, one per ID, and a request is in
\* one of the steps of its handler (server.go:37-55).
THEOREM ServiceTypeCorrect == Spec => []TypeOK
<1>1. SInv => TypeOK
  BY DEF SInv
<1> QED  BY <1>1, Always, PTL

\* No creation, commit, clean-up or restart, in any order, leaves a session
\* without its snapshot or a snapshot without its session
\* (server.go:465-469, 633-637, 644-652).
THEOREM NoneLeftBehind == Spec => []SessionsHaveSnapshots
<1>1. SInv => SessionsHaveSnapshots
  BY DEF SInv
<1> QED  BY <1>1, Always, PTL
-----------------------------------------------------------------------------
(***************************************************************************)
(* With a fine clock an ID is never given twice: what is named later has a *)
(* later time.                                                             *)
(***************************************************************************)
Sids(recs) == {s.sid : s \in recs}

\* What a request knows of its ID holds of the maps.
Sound(state, r, ss, snaps, time) ==
  /\ state.sid < time
  /\ state.pc = "built" => state.sid \notin Sids(ss) \cup Sids(snaps)
  /\ state.pc = "fetch" =>
       \A s \in snaps : s.sid = state.sid => s.module = TokenOf[r]
  /\ state.answer = "served" => state.module = TokenOf[r]

\* Nobody else has the ID of a session that is being created.
Apart(p, q) ==
  p.pc = "built" /\ q.pc \in {"built", "fetch"} => p.sid # q.sid

FInv ==
  /\ \A sid \in Sids(sessions) \cup Sids(snapshots) : sid < now
  /\ \A r \in Requests : Sound(req[r], r, sessions, snapshots, now)
  /\ \A r, q \in Requests : r # q => Apart(req[r], req[q])

LEMMA FreshInit == Init => FInv
<1> SUFFICES ASSUME Init PROVE FInv
  OBVIOUS
<1>1. \A r \in Requests : req[r].pc = "idle" /\ req[r].answer = "none" /\ req[r].sid = NoSid
  BY DEF Init, Idle, Request
<1>2. Sids(sessions) = {} /\ Sids(snapshots) = {} /\ NoSid < now
  BY DEF Init, Sids, NoSid
<1>3. \A r \in Requests : Sound(req[r], r, sessions, snapshots, now)
  BY <1>1, <1>2 DEF Sound
<1>4. \A r, q \in Requests : Apart(req[r], req[q])
  BY <1>1 DEF Apart
<1> QED  BY <1>2, <1>3, <1>4 DEF FInv

\* A step of one request, judged by what the others make of it.
LEMMA FreshStep ==
  ASSUME SInv, FInv, NEW r \in Requests, NEW state, Become(r, state),
         \A sid \in Sids(sessions') \cup Sids(snapshots') : sid < now',
         Sound(state, r, sessions', snapshots', now'),
         \A q \in Requests \ {r} :
           /\ Sound(req[q], q, sessions', snapshots', now')
           /\ Apart(state, req[q]) /\ Apart(req[q], state)
  PROVE  FInv'
<1>1. req'[r] = state /\ \A q \in Requests \ {r} : req'[q] = req[q]
  BY DEF SInv, TypeOK, Become
<1>2. \A q \in Requests : Sound(req'[q], q, sessions', snapshots', now')
  BY <1>1
<1>3. \A q, p \in Requests : q # p => Apart(req'[q], req'[p])
  BY <1>1 DEF FInv
<1> QED  BY <1>2, <1>3 DEF FInv

\* A step that starts no creation and changes no map.
LEMMA FreshQuiet ==
  ASSUME SInv, FInv, NEW r \in Requests, NEW state, Become(r, state),
         UNCHANGED <<now, sessions, snapshots>>,
         Sound(state, r, sessions, snapshots, now),
         state.pc # "built",
         \A q \in Requests \ {r} : Apart(req[q], state)
  PROVE  FInv'
<1>1. \A q \in Requests : Sound(req[q], q, sessions', snapshots', now')
  BY DEF FInv
<1>2. \A q \in Requests : Apart(state, req[q])
  BY DEF Apart
<1>3. \A sid \in Sids(sessions') \cup Sids(snapshots') : sid < now'
  BY DEF FInv
<1> QED  BY <1>1, <1>2, <1>3, FreshStep

\* So does a request that is answered without data, or that waits.
LEMMA FreshPlain ==
  ASSUME SInv, FInv, NEW r \in Requests, NEW state, Become(r, state),
         UNCHANGED <<now, sessions, snapshots>>, state.sid < now,
         state.pc \notin {"built", "fetch"},
         state.answer = "served" => state.module = TokenOf[r]
  PROVE  FInv'
<1>1. Sound(state, r, sessions, snapshots, now)
  BY DEF Sound
<1>2. \A q \in Requests : Apart(req[q], state)
  BY DEF Apart
<1> QED  BY <1>1, <1>2, FreshQuiet

LEMMA FreshFinish ==
  ASSUME SInv, FInv, NEW r \in Requests, NEW answer \in Answers, Finish(r, answer),
         UNCHANGED <<now, sessions, snapshots>>
  PROVE  FInv'
<1> DEFINE state == [req[r] EXCEPT !.pc = "done", !.answer = answer]
<1>1. state.pc = "done" /\ state.answer # "served" /\ state.sid = req[r].sid
  BY RequestFacts DEF RequestStates, Answers
<1>2. Become(r, state) /\ req[r].sid < now
  BY DEF Finish, FInv, Sound
<1> HIDE DEF state
<1> QED  BY <1>1, <1>2, FreshPlain

\* The sessions of an ID are those of its snapshot.
LEMMA OwnerOfSid ==
  ASSUME SInv, NEW s \in sessions, NEW snap \in snapshots, s.sid = snap.sid
  PROVE  s.module = snap.module
<1>1. <<snap.sid, snap.module>> \in Owners(sessions)
  BY DEF SInv, SessionsHaveSnapshots, Owners
<1>2. PICK t \in sessions : t.sid = snap.sid /\ t.module = snap.module
  BY <1>1 DEF Owners
<1> QED  BY <1>2 DEF SInv, TypeOK, OnePerSid

LEMMA FreshFetch ==
  ASSUME SInv, FInv, NEW r \in Requests, NEW sid \in 0 .. MaxNow, FetchAuthorize(r, sid)
  PROVE  FInv'
<1>1. CASE Finish(r, "unauthorized")
  BY <1>1, FreshFinish DEF FetchAuthorize, Answers
<1>2. ASSUME NEW s \in sessions, s.sid = sid, s.module = TokenOf[r],
             Become(r, [req[r] EXCEPT !.pc = "fetch", !.sid = sid])
      PROVE  FInv'
  <2> DEFINE state == [req[r] EXCEPT !.pc = "fetch", !.sid = sid]
  <2>1. /\ state.pc = "fetch" /\ state.sid = sid /\ state.answer = req[r].answer
        /\ state.module = req[r].module
    BY RequestFacts DEF RequestStates
  <2>2. Become(r, state)
    BY <1>2
  <2> HIDE DEF state
  <2>3. sid \in Sids(sessions) /\ sid < now
    BY <1>2 DEF Sids, FInv
  <2>4. \A snap \in snapshots : snap.sid = sid => snap.module = TokenOf[r]
    BY <1>2, OwnerOfSid
  <2>5. Sound(state, r, sessions, snapshots, now)
    BY <2>1, <2>3, <2>4 DEF Sound, FInv
  <2>6. \A q \in Requests : Apart(req[q], state)
    BY <2>1, <2>3 DEF Apart, FInv, Sound
  <2> QED  BY <2>1, <2>2, <2>5, <2>6, FreshQuiet DEF FetchAuthorize
<1> QED  BY <1>1, <1>2 DEF FetchAuthorize

LEMMA FreshServe ==
  ASSUME SInv, FInv, NEW r \in Requests, FetchServe(r)
  PROVE  FInv'
<1>1. CASE Finish(r, "notFound")
  BY <1>1, FreshFinish DEF FetchServe, Answers
<1>2. ASSUME NEW snap \in snapshots, snap.sid = req[r].sid,
             Become(r, [req[r] EXCEPT !.pc = "done", !.answer = "served",
                                      !.module = snap.module, !.made = snap.version])
      PROVE  FInv'
  <2> DEFINE state == [req[r] EXCEPT !.pc = "done", !.answer = "served",
                                     !.module = snap.module, !.made = snap.version]
  <2>1. state.pc = "done" /\ state.sid = req[r].sid /\ state.module = snap.module
    BY RequestFacts DEF RequestStates
  <2>2. Become(r, state)
    BY <1>2
  <2> HIDE DEF state
  <2>3. snap.module = TokenOf[r] /\ req[r].sid < now
    BY <1>2 DEF FetchServe, At, FInv, Sound
  <2> QED  BY <2>1, <2>2, <2>3, FreshPlain DEF FetchServe
<1> QED  BY <1>1, <1>2 DEF FetchServe
-----------------------------------------------------------------------------
\* The clock moves on when an ID is taken from it.
LEMMA FreshBuild ==
  ASSUME SInv, FInv, FineClock, NEW r \in Requests, CreateBuild(r)
  PROVE  FInv'
<1> DEFINE state == [req[r] EXCEPT !.pc = "built", !.sid = NewSid(now),
                                   !.made = index[TokenOf[r]]]
<1>1. /\ state.pc = "built" /\ state.sid = now /\ state.answer = req[r].answer
      /\ state.module = req[r].module
  BY RequestFacts DEF RequestStates, NewSid
<1>2. /\ Become(r, state) /\ now' = now + 1 /\ now \in Int
      /\ UNCHANGED <<sessions, snapshots>>
  BY SessionConstants DEF CreateBuild, SInv, TypeOK
<1> HIDE DEF state
<1>3. \A q \in Requests : req[q].sid < now /\ req[q].sid \in Int
  <2>1. \A q \in Requests : req[q].sid \in Int
    BY SessionConstants, RequestFacts DEF RequestStates, NoSid
  <2> QED  BY <2>1 DEF FInv, Sound
<1>4. \A sid \in Sids(sessions) \cup Sids(snapshots) : sid < now /\ sid \in Int
  BY DEF FInv, Sids, SInv, TypeOK, SessionStates, SnapshotStates
<1>5. \A sid \in Sids(sessions') \cup Sids(snapshots') : sid < now'
  BY <1>2, <1>4
<1>6. Sound(state, r, sessions', snapshots', now')
  BY <1>1, <1>2, <1>4 DEF Sound, FInv
<1>7. ASSUME NEW q \in Requests
      PROVE  Sound(req[q], q, sessions', snapshots', now')
  BY <1>2, <1>3 DEF Sound, FInv
<1>8. \A q \in Requests : Apart(state, req[q]) /\ Apart(req[q], state)
  BY <1>1, <1>3 DEF Apart
<1> QED  BY <1>2, <1>5, <1>6, <1>7, <1>8, FreshStep

\* What CreateStore makes of the maps: it may drop old records, and adds one
\* under a new ID.
LEMMA StoreEffect ==
  ASSUME SInv, FInv, NEW r \in Requests, CreateStore(r)
  PROVE  /\ At(r, "built") /\ Finish(r, "ready") /\ now' = now
         /\ req[r].sid \notin Sids(sessions) \cup Sids(snapshots)
         /\ Sids(sessions') \subseteq Sids(sessions) \cup {req[r].sid}
         /\ \A t \in snapshots' :
              t \in snapshots \/ (t.sid = req[r].sid /\ t.module = TokenOf[r])
         /\ \A s \in sessions : s \in sessions' \/ Expired(s.createdAt)
<1>1. PICK created \in req[r].sid .. now :
        LET stored == CleanupExpired(
              Put(sessions, Session(req[r].sid, req[r].module, created, "active")),
              Put(snapshots, Snapshot(req[r].sid, req[r].module, req[r].made)))
        IN sessions' = stored[1] /\ snapshots' = stored[2]
  BY DEF CreateStore
<1> DEFINE new == Session(req[r].sid, req[r].module, created, "active")
           snap == Snapshot(req[r].sid, req[r].module, req[r].made)
           ss == Put(sessions, new)
           snaps == Put(snapshots, snap)
           gone == {s.sid : s \in {x \in ss : Expired(x.createdAt)}}
<1>2. At(r, "built") /\ Finish(r, "ready") /\ now' = now
  BY DEF CreateStore
<1>3. req[r].sid \notin Sids(sessions) \cup Sids(snapshots)
  BY <1>2 DEF FInv, Sound, At
<1>4. new.sid = req[r].sid /\ snap.sid = req[r].sid /\ snap.module = TokenOf[r]
  BY <1>2, RequestFacts DEF Session, Snapshot, NamedIn, At
<1> HIDE DEF new, snap
<1>5. sessions' = Delete(ss, gone) /\ snapshots' = Delete(snaps, gone)
  BY <1>1 DEF CleanupExpired, new, snap
<1>6. ss = sessions \cup {new} /\ snaps = snapshots \cup {snap}
  BY <1>3, <1>4 DEF Put, Sids
<1> HIDE DEF ss, snaps
<1>7. Sids(sessions') \subseteq Sids(sessions) \cup {req[r].sid}
  BY <1>4, <1>5, <1>6 DEF Delete, Sids
<1>8. \A t \in snapshots' :
        t \in snapshots \/ (t.sid = req[r].sid /\ t.module = TokenOf[r])
  BY <1>4, <1>5, <1>6 DEF Delete
<1>9. ASSUME NEW s \in sessions, s \notin sessions'
      PROVE  Expired(s.createdAt)
  <2>1. s \in ss /\ s.sid \in gone
    BY <1>5, <1>6, <1>9 DEF Delete
  <2>2. PICK x \in ss : Expired(x.createdAt) /\ x.sid = s.sid
    BY <2>1
  <2>3. x = s
    BY <1>3, <1>4, <1>6, <2>2 DEF SInv, TypeOK, OnePerSid, Sids
  <2> QED  BY <2>2, <2>3
<1> QED  BY <1>2, <1>3, <1>7, <1>8, <1>9

LEMMA FreshStore ==
  ASSUME SInv, FInv, NEW r \in Requests, CreateStore(r)
  PROVE  FInv'
<1> DEFINE state == [req[r] EXCEPT !.pc = "done", !.answer = "ready"]
<1>1. state.pc = "done" /\ state.answer = "ready" /\ state.sid = req[r].sid
  BY RequestFacts DEF RequestStates
<1>2. Become(r, state)
  BY StoreEffect DEF Finish
<1> HIDE DEF state
<1>3. req[r].sid < now /\ req[r].pc = "built" /\ now' = now
  BY StoreEffect DEF FInv, Sound, At
<1>4. \A sid \in Sids(snapshots') : sid \in Sids(snapshots) \cup {req[r].sid}
  BY StoreEffect DEF Sids
<1>5. \A sid \in Sids(sessions') \cup Sids(snapshots') : sid < now'
  BY <1>3, <1>4, StoreEffect DEF FInv
<1>6. Sound(state, r, sessions', snapshots', now')
  BY <1>1, <1>3 DEF Sound
<1>7. ASSUME NEW q \in Requests \ {r}
      PROVE  Sound(req[q], q, sessions', snapshots', now')
  <2>1. Sound(req[q], q, sessions, snapshots, now) /\ Apart(req[r], req[q])
    BY DEF FInv
  <2>2. req[q].pc \in {"built", "fetch"} => req[q].sid # req[r].sid
    BY <1>3, <2>1 DEF Apart
  <2>3. req[q].pc = "built" => req[q].sid \notin Sids(sessions') \cup Sids(snapshots')
    BY <1>4, <2>1, <2>2, StoreEffect DEF Sound
  <2>4. req[q].pc = "fetch" =>
          \A t \in snapshots' : t.sid = req[q].sid => t.module = TokenOf[q]
    BY <2>1, <2>2, StoreEffect DEF Sound
  <2> QED  BY <1>3, <2>1, <2>3, <2>4 DEF Sound
<1>8. \A q \in Requests : Apart(state, req[q]) /\ Apart(req[q], state)
  BY <1>1 DEF Apart
<1> QED  BY <1>2, <1>5, <1>6, <1>7, <1>8, FreshStep

\* Marking a session moves no ID.
LEMMA CommitEffect ==
  ASSUME SInv, NEW r \in Requests, Commit(r)
  PROVE  /\ Sids(sessions') = Sids(sessions)
         /\ \A s \in sessions : \E t \in sessions' :
              t.sid = s.sid /\ t.createdAt = s.createdAt
<1> DEFINE mark(s) == [s EXCEPT !.status = IF s.sid = req[r].sid THEN "committed" ELSE @]
<1>1. \A s \in sessions : mark(s).sid = s.sid /\ mark(s).createdAt = s.createdAt
  BY DEF SInv, TypeOK, SessionStates
<1>2. sessions' = {mark(s) : s \in sessions}
  BY DEF Commit, CommitMark
<1> HIDE DEF mark
<1> QED  BY <1>1, <1>2 DEF Sids

LEMMA FreshCommit ==
  ASSUME SInv, FInv, NEW r \in Requests, Commit(r)
  PROVE  FInv'
<1> DEFINE state == [req[r] EXCEPT !.pc = "done", !.answer = "ok"]
<1>1. state.pc = "done" /\ state.answer = "ok" /\ state.sid = req[r].sid
  BY RequestFacts DEF RequestStates
<1>2. Become(r, state) /\ UNCHANGED <<now, snapshots>> /\ Sids(sessions') = Sids(sessions)
  BY CommitEffect DEF Commit, Finish
<1> HIDE DEF state
<1>3. \A q \in Requests : Sound(req[q], q, sessions', snapshots', now')
  BY <1>2 DEF FInv, Sound
<1>4. Sound(state, r, sessions', snapshots', now')
  BY <1>1, <1>3, <1>2 DEF Sound
<1>5. \A q \in Requests : Apart(state, req[q]) /\ Apart(req[q], state)
  BY <1>1 DEF Apart
<1>6. \A sid \in Sids(sessions') \cup Sids(snapshots') : sid < now'
  BY <1>2 DEF FInv
<1> QED  BY <1>2, <1>3, <1>4, <1>5, <1>6, FreshStep

LEMMA FreshHandler ==
  ASSUME SInv, FInv, FineClock, NEW r \in Requests, Handler(r)
  PROVE  FInv'
<1> DEFINE Asked(pc) == [req[r] EXCEPT !.pc = pc]
<1>0. ASSUME NEW pc \in {"create", "wait", "asleep"}, Become(r, Asked(pc)),
             UNCHANGED <<now, sessions, snapshots>>
      PROVE  FInv'
  <2> DEFINE state == Asked(pc)
  <2>1. /\ state.pc = pc /\ state.sid = req[r].sid /\ state.module = req[r].module
        /\ state.answer = req[r].answer
    BY RequestFacts DEF RequestStates
  <2>2. Become(r, state)
    BY <1>0
  <2> HIDE DEF state
  <2>3. state.sid < now /\ (state.answer = "served" => state.module = TokenOf[r])
    BY <2>1 DEF FInv, Sound
  <2> QED  BY <1>0, <2>1, <2>2, <2>3, FreshPlain
<1>1. CASE \E m \in Modules : CreateCheck(r, m)
  BY <1>0, <1>1, FreshFinish DEF CreateCheck, Answers
<1>2. CASE CreateRefused(r)
  BY <1>2, FreshFinish DEF CreateRefused, Answers
<1>3. CASE CreateBuild(r)
  BY <1>3, FreshBuild
<1>4. CASE CreateStore(r)
  BY <1>4, FreshStore
<1>5. ASSUME NEW sid \in 0 .. MaxNow, FetchAuthorize(r, sid) PROVE FInv'
  BY <1>5, FreshFetch
<1>6. ASSUME NEW sid \in 0 .. MaxNow, CommitFind(r, sid) PROVE FInv'
  <2>1. CASE Finish(r, "refused")
    BY <1>6, <2>1, FreshFinish DEF CommitFind, Answers
  <2>2. ASSUME NEW s \in sessions, s.sid = sid,
               Become(r, [req[r] EXCEPT !.pc = "commit", !.sid = sid])
        PROVE  FInv'
    <3> DEFINE state == [req[r] EXCEPT !.pc = "commit", !.sid = sid]
    <3>1. /\ state.pc = "commit" /\ state.sid = sid /\ state.module = req[r].module
          /\ state.answer = req[r].answer
      BY RequestFacts DEF RequestStates
    <3>2. Become(r, state)
      BY <2>2
    <3> HIDE DEF state
    <3>3. sid < now /\ (state.answer = "served" => state.module = TokenOf[r])
      BY <2>2, <3>1 DEF FInv, Sound, Sids
    <3> QED  BY <1>6, <3>1, <3>2, <3>3, FreshPlain DEF CommitFind
  <2> QED  BY <1>6, <2>1, <2>2 DEF CommitFind
<1>7. CASE FetchServe(r)
  BY <1>7, FreshServe
<1>8. CASE Commit(r)
  BY <1>8, FreshCommit
<1>9. CASE \E m \in Modules : WaitStart(r, m)
  BY <1>0, <1>9, FreshFinish DEF WaitStart, Answers
<1>10. CASE WaitPoll(r) \/ WaitWake(r)
  BY <1>0, <1>10, FreshFinish DEF WaitPoll, WaitWake, Answers
<1>11. CASE NextRequest(r)
  <2>1. Idle(r).pc = "idle" /\ Idle(r).sid = NoSid /\ Idle(r).answer = "none" /\ NoSid < now
    BY SessionConstants DEF Idle, Request, NoSid, SInv, TypeOK
  <2> QED  BY <1>11, <2>1, FreshPlain DEF NextRequest
<1> QED  BY <1>1, <1>2, <1>3, <1>4, <1>5, <1>6, <1>7, <1>8, <1>9, <1>10, <1>11 DEF Handler

LEMMA FreshNext == FineClock /\ SInv /\ FInv /\ [Next]_vars => FInv'
<1> SUFFICES ASSUME FineClock, SInv, FInv, [Next]_vars PROVE FInv'
  OBVIOUS
<1>1. ASSUME NEW r \in Requests, Handler(r) PROVE FInv'
  BY <1>1, FreshHandler
<1>2. CASE Tick
  <2>1. now \in Int /\ now' = now + 1 /\ UNCHANGED <<sessions, snapshots, req>>
    BY <1>2, SessionConstants DEF Tick, SInv, TypeOK
  <2>2. \A r \in Requests : req[r].sid \in Int
    BY SessionConstants, RequestFacts DEF RequestStates, NoSid
  <2>3. \A sid \in Sids(sessions) \cup Sids(snapshots) : sid \in Int
    BY DEF Sids, SInv, TypeOK, SessionStates, SnapshotStates
  <2> QED  BY <2>1, <2>2, <2>3 DEF FInv, Sound
<1>3. CASE Restart
  <2>1. \A r \in Requests : /\ req'[r].pc = "idle" /\ req'[r].answer = "none"
                             /\ req'[r].sid = NoSid
    BY <1>3 DEF Restart, Idle, Request
  <2>2. Sids(sessions') = {} /\ Sids(snapshots') = {} /\ NoSid < now'
    BY <1>3, SessionConstants DEF Restart, Sids, NoSid, SInv, TypeOK
  <2>3. \A r \in Requests : Sound(req'[r], r, sessions', snapshots', now')
    BY <2>1, <2>2 DEF Sound
  <2>4. \A r, q \in Requests : Apart(req'[r], req'[q])
    BY <2>1 DEF Apart
  <2> QED  BY <2>2, <2>3, <2>4 DEF FInv
<1>4. ASSUME UNCHANGED <<now, sessions, snapshots, req>> PROVE FInv'
  BY <1>4 DEF FInv
<1> QED  BY <1>1, <1>2, <1>3, <1>4 DEF Next, LockOrUnlock, Rebuild, vars

LEMMA FreshAlways ==
  ASSUME FineClock
  PROVE  Spec => [](SInv /\ FInv)
<1>1. SInv /\ FInv /\ [Next]_vars => FInv'
  BY FreshNext
<1> QED  BY <1>1, InitHolds, FreshInit, StepKeeps, PTL DEF Spec

\* If no two requests read one time, whoever is served gets the snapshot of a
\* module that its token is for, although the handler checks the module before
\* it reads the snapshot (server.go:497-509).
THEOREM ServedOwnModule ==
  ASSUME FineClock
  PROVE  Spec => []ServedIsAuthorized
<1>1. SInv /\ FInv => ServedIsAuthorized
  BY DEF FInv, Sound, ServedIsAuthorized
<1> QED  BY <1>1, FreshAlways, PTL

\* If no two requests read one time, only age or a restart ends a session: no
\* creation, commit or clean-up takes the session of a client that is still
\* downloading (server.go:465-469, 633-637, 644-652).
THEOREM OnlyAgeEndsSessions ==
  ASSUME FineClock
  PROVE  Spec => YoungSessionsStay
<1> DEFINE Stays(s) ==
             \/ \E t \in sessions' : t.sid = s.sid /\ t.createdAt = s.createdAt
             \/ now - s.createdAt > TTL
             \/ Restart
<1>1. SInv /\ FInv /\ [Next]_vars => \A s \in sessions : Stays(s)
  <2> SUFFICES ASSUME SInv, FInv, [Next]_vars, NEW s \in sessions PROVE Stays(s)
    OBVIOUS
  <2>1. ASSUME NEW r \in Requests, CreateStore(r) PROVE Stays(s)
    BY <2>1, StoreEffect DEF Expired
  <2>2. ASSUME NEW r \in Requests, Commit(r) PROVE Stays(s)
    BY <2>2, CommitEffect
  <2>3. CASE sessions' = sessions
    BY <2>3
  <2>4. CASE Restart
    BY <2>4
  <2> HIDE DEF Stays
  <2> QED
    BY <2>1, <2>2, <2>3, <2>4
       DEF Next, Handler, CreateCheck, CreateRefused, CreateBuild, FetchAuthorize,
           CommitFind, FetchServe, WaitStart, WaitPoll, WaitWake,
           NextRequest, LockOrUnlock, Rebuild, Tick, vars
<1>2. SInv /\ FInv /\ [Next]_vars => [\A s \in sessions : Stays(s)]_vars
  BY <1>1
<1> QED  BY <1>2, FreshAlways, PTL DEF YoungSessionsStay, Spec
-----------------------------------------------------------------------------
(***************************************************************************)
(* The service keeps SessionTable: a creation takes place when it builds   *)
(* its snapshot, a request that is served when it reads one.               *)
(***************************************************************************)
Pending == {Snapshot(req[r].sid, req[r].module, req[r].made) : r \in
              {q \in Requests : At(q, "built")}}
GivenTo(state) ==
  IF state.answer = "served" THEN {Snapshot(state.sid, state.module, state.made)} ELSE {}

\* A request has its answer at the end of its handler and not before, and no
\* session was created before it was named.
TInv ==
  /\ \A r \in Requests : req[r].pc # "done" => req[r].answer = "none"
  /\ \A s \in sessions : s.sid <= s.createdAt

LEMMA TimedInit == Init => TInv
BY DEF Init, TInv, Idle, Request

\* A step of one request that leaves the sessions their times.
LEMMA TimedStep ==
  ASSUME SInv, TInv, NEW r \in Requests, NEW state, Become(r, state),
         state.pc # "done" => state.answer = "none",
         \A s \in sessions' : s.sid <= s.createdAt
  PROVE  TInv'
<1>1. req'[r] = state /\ \A q \in Requests \ {r} : req'[q] = req[q]
  BY DEF SInv, TypeOK, Become
<1> QED  BY <1>1 DEF TInv

LEMMA TimedFinish ==
  ASSUME SInv, TInv, NEW r \in Requests, NEW answer, Finish(r, answer),
         \A s \in sessions' : s.sid <= s.createdAt
  PROVE  TInv'
<1> DEFINE state == [req[r] EXCEPT !.pc = "done", !.answer = answer]
<1>1. state.pc = "done" /\ Become(r, state)
  BY RequestFacts DEF RequestStates, Finish
<1> HIDE DEF state
<1> QED  BY <1>1, TimedStep

\* What CreateStore makes of the snapshots: its own is added, and old ones go.
LEMMA StoreSnapshots ==
  ASSUME SInv, FInv, TInv, NEW r \in Requests, CreateStore(r)
  PROVE  LET snap == Snapshot(req[r].sid, req[r].module, req[r].made)
         IN /\ snapshots' \subseteq snapshots \cup {snap}
            /\ \A t \in snapshots \cup {snap} : t \in snapshots' \/ now - t.sid > TTL
            /\ \A s \in sessions' : s.sid <= s.createdAt
<1>1. PICK created \in req[r].sid .. now :
        LET stored == CleanupExpired(
              Put(sessions, Session(req[r].sid, req[r].module, created, "active")),
              Put(snapshots, Snapshot(req[r].sid, req[r].module, req[r].made)))
        IN sessions' = stored[1] /\ snapshots' = stored[2]
  BY DEF CreateStore
<1> DEFINE new == Session(req[r].sid, req[r].module, created, "active")
           snap == Snapshot(req[r].sid, req[r].module, req[r].made)
           ss == Put(sessions, new)
           snaps == Put(snapshots, snap)
           gone == {s.sid : s \in {x \in ss : Expired(x.createdAt)}}
<1>2. At(r, "built")
  BY DEF CreateStore
<1>3. req[r].sid \notin Sids(sessions) \cup Sids(snapshots)
  BY <1>2 DEF FInv, Sound, At
<1>4. new.sid = req[r].sid /\ new.createdAt = created /\ snap.sid = req[r].sid
  BY DEF Session, Snapshot
<1>5. req[r].sid \in Int /\ created \in Int /\ req[r].sid <= created /\ now \in Int
  BY <1>1, <1>2, SessionConstants, RequestFacts DEF NamedIn, At, SInv, TypeOK
<1> HIDE DEF new, snap
<1>6. sessions' = Delete(ss, gone) /\ snapshots' = Delete(snaps, gone)
  BY <1>1 DEF CleanupExpired, new, snap
<1>7. ss = sessions \cup {new} /\ snaps = snapshots \cup {snap}
  BY <1>3, <1>4 DEF Put, Sids
<1> HIDE DEF ss, snaps
<1>8. \A s \in ss : s.sid \in Int /\ s.createdAt \in Int /\ s.sid <= s.createdAt
  BY <1>4, <1>5, <1>7, SessionConstants DEF TInv, SInv, TypeOK, SessionStates
<1>9. \A sid \in gone : now - sid > TTL
  BY <1>5, <1>8, SessionConstants DEF Expired
<1> HIDE DEF gone
<1>10. snapshots' \subseteq snapshots \cup {snap} /\ sessions' \subseteq ss
  BY <1>6, <1>7 DEF Delete
<1>11. \A t \in snapshots \cup {snap} : t \in snapshots' \/ now - t.sid > TTL
  BY <1>6, <1>7, <1>9 DEF Delete
<1> QED  BY <1>8, <1>10, <1>11 DEF snap

LEMMA TimedHandler ==
  ASSUME SInv, FInv, TInv, NEW r \in Requests, Handler(r)
  PROVE  TInv'
<1> DEFINE Asked(pc, sid, made) == [req[r] EXCEPT !.pc = pc, !.sid = sid, !.made = made]
<1>0. \A s \in sessions : s.sid <= s.createdAt
  BY DEF TInv
<1>1. CASE CreateStore(r)
  BY <1>1, StoreSnapshots, TimedFinish DEF CreateStore
<1>2. CASE Commit(r)
  <2>1. \A s \in sessions' : s.sid <= s.createdAt
    <3> DEFINE mark(s) == [s EXCEPT !.status = IF s.sid = req[r].sid THEN "committed" ELSE @]
    <3>1. \A s \in sessions : mark(s).sid = s.sid /\ mark(s).createdAt = s.createdAt
      BY DEF SInv, TypeOK, SessionStates
    <3>2. sessions' = {mark(s) : s \in sessions}
      BY <1>2 DEF Commit, CommitMark
    <3> HIDE DEF mark
    <3> QED  BY <1>0, <3>1, <3>2
  <2> QED  BY <1>2, <2>1, TimedFinish DEF Commit
<1>3. ASSUME UNCHANGED sessions, NEW state, Become(r, state), req[r].pc # "done",
             state.answer = req[r].answer \/ state.pc = "done"
      PROVE  TInv'
  BY <1>0, <1>3, TimedStep DEF TInv
<1>4. ASSUME UNCHANGED sessions, NEW pc \in {"create", "wait", "asleep"},
             req[r].pc \in Waiting, Become(r, [req[r] EXCEPT !.pc = pc])
      PROVE  TInv'
  <2>1. [req[r] EXCEPT !.pc = pc].answer = req[r].answer
    BY RequestFacts DEF RequestStates
  <2> QED  BY <1>3, <1>4, <2>1 DEF Waiting
<1>5. ASSUME UNCHANGED sessions, NEW pc \in {"fetch", "commit"}, NEW sid, req[r].pc = "idle",
             Become(r, [req[r] EXCEPT !.pc = pc, !.sid = sid])
      PROVE  TInv'
  <2>1. [req[r] EXCEPT !.pc = pc, !.sid = sid].answer = req[r].answer
    BY RequestFacts DEF RequestStates
  <2> QED  BY <1>3, <1>5, <2>1
<1>6. ASSUME UNCHANGED sessions, NEW answer, Finish(r, answer)
      PROVE  TInv'
  BY <1>0, <1>6, TimedFinish
<1>7. CASE CreateBuild(r)
  <2> DEFINE state == [req[r] EXCEPT !.pc = "built", !.sid = NewSid(now),
                                     !.made = index[TokenOf[r]]]
  <2>1. state.answer = req[r].answer
    BY RequestFacts DEF RequestStates
  <2>2. Become(r, state) /\ req[r].pc = "create" /\ UNCHANGED sessions
    BY <1>7 DEF CreateBuild, At
  <2> HIDE DEF state
  <2> QED  BY <1>3, <2>1, <2>2
<1>8. CASE FetchServe(r)
  <2>1. CASE Finish(r, "notFound")
    BY <1>6, <1>8, <2>1 DEF FetchServe
  <2>2. ASSUME NEW snap \in snapshots,
               Become(r, [req[r] EXCEPT !.pc = "done", !.answer = "served",
                                        !.module = snap.module, !.made = snap.version])
        PROVE  TInv'
    <3> DEFINE state == [req[r] EXCEPT !.pc = "done", !.answer = "served",
                                       !.module = snap.module, !.made = snap.version]
    <3>1. state.pc = "done"
      BY RequestFacts DEF RequestStates
    <3> HIDE DEF state
    <3>2. Become(r, state) /\ req[r].pc = "fetch" /\ UNCHANGED sessions
      BY <1>8, <2>2 DEF FetchServe, At, state
    <3> QED  BY <1>3, <3>1, <3>2
  <2> QED  BY <1>8, <2>1, <2>2 DEF FetchServe
<1>9. CASE NextRequest(r)
  <2>1. Idle(r).answer = "none"
    BY DEF Idle, Request
  <2> QED  BY <1>0, <1>9, <2>1, TimedStep DEF NextRequest
<1>10. CASE \/ \E m \in Modules : CreateCheck(r, m) \/ WaitStart(r, m)
            \/ CreateRefused(r) \/ WaitPoll(r) \/ WaitWake(r)
  BY <1>4, <1>6, <1>10
     DEF CreateCheck, CreateRefused, WaitStart, WaitPoll, WaitWake, At, Waiting
<1>11. ASSUME NEW sid \in 0 .. MaxNow, FetchAuthorize(r, sid) \/ CommitFind(r, sid)
       PROVE  TInv'
  BY <1>5, <1>6, <1>11 DEF FetchAuthorize, CommitFind, At
<1> QED  BY <1>1, <1>2, <1>7, <1>8, <1>9, <1>10, <1>11 DEF Handler

LEMMA TimedNext == SInv /\ FInv /\ TInv /\ [Next]_vars => TInv'
<1> SUFFICES ASSUME SInv, FInv, TInv, [Next]_vars PROVE TInv'
  OBVIOUS
<1>1. ASSUME NEW r \in Requests, Handler(r) PROVE TInv'
  BY <1>1, TimedHandler
<1>2. CASE Restart
  BY <1>2 DEF Restart, TInv, Idle, Request
<1>3. ASSUME UNCHANGED <<sessions, req>> PROVE TInv'
  BY <1>3 DEF TInv
<1> QED  BY <1>1, <1>2, <1>3 DEF Next, LockOrUnlock, Rebuild, Tick, vars
-----------------------------------------------------------------------------
LEMMA TableIs ==
  /\ SInv => Table = snapshots \cup Pending
  /\ SInv' => Table' = snapshots' \cup Pending'
BY DEF SInv, SessionsHaveSnapshots, Owners, Table, Pending

\* What a step of one request changes of what was given and is pending.
LEMMA StepGives ==
  ASSUME SInv, NEW r \in Requests, NEW state, Become(r, state)
  PROVE  /\ Given' = [Given EXCEPT ![r] = GivenTo(state)]
         /\ state.pc # "built" /\ ~At(r, "built") => Pending' = Pending
<1>1. /\ req'[r] = state /\ \A q \in Requests \ {r} : req'[q] = req[q]
      /\ DOMAIN req' = Requests
  BY DEF SInv, TypeOK, Become
<1>2. Given' = [q \in Requests |-> GivenTo(req'[q])]
  BY DEF Given, GivenTo
<1>3. Given = [q \in Requests |-> GivenTo(req[q])]
  BY DEF Given, GivenTo
<1>4. Given' = [Given EXCEPT ![r] = GivenTo(state)]
  BY <1>1, <1>2, <1>3
<1>5. ASSUME state.pc # "built", ~At(r, "built") PROVE Pending' = Pending
  <2>1. \A q \in Requests : At(q, "built")' <=> At(q, "built")
    BY <1>1, <1>5 DEF At
  <2>2. \A q \in Requests : At(q, "built") => req'[q] = req[q]
    BY <1>1, <1>5
  <2> QED  BY <2>1, <2>2 DEF Pending
<1> QED  BY <1>4, <1>5

\* A step that brings no data and no record.
LEMMA PlainForgets ==
  ASSUME SInv, SInv', NEW r \in Requests, NEW state, Become(r, state),
         state.pc # "built", ~At(r, "built"), state.answer # "served",
         UNCHANGED <<now, index, snapshots>>
  PROVE  Promise!Forget(r)
<1>1. Given' = [Given EXCEPT ![r] = {}] /\ Pending' = Pending
  BY StepGives DEF GivenTo
<1>2. Table' = Table
  BY <1>1, TableIs
<1> QED  BY <1>1, <1>2 DEF Promise!Forget

LEMMA FinishForgets ==
  ASSUME SInv, SInv', NEW r \in Requests, NEW answer \in Answers, Finish(r, answer),
         ~At(r, "built"), UNCHANGED <<now, index, snapshots>>
  PROVE  Promise!Forget(r)
<1> DEFINE state == [req[r] EXCEPT !.pc = "done", !.answer = answer]
<1>1. state.pc = "done" /\ state.answer = answer /\ Become(r, state)
  BY RequestFacts DEF RequestStates, Finish
<1> HIDE DEF state
<1> QED  BY <1>1, PlainForgets DEF Answers

LEMMA BuildCreates ==
  ASSUME FineClock, SInv, SInv', TInv, NEW r \in Requests, CreateBuild(r)
  PROVE  Promise!Create(r)
<1> DEFINE state == [req[r] EXCEPT !.pc = "built", !.sid = NewSid(now),
                                   !.made = index[TokenOf[r]]]
           rec == [sid |-> now, module |-> TokenOf[r], version |-> index[TokenOf[r]]]
<1>1. /\ state.pc = "built" /\ state.answer = "none" /\ state.module = TokenOf[r]
      /\ Snapshot(state.sid, state.module, state.made) = rec
  BY RequestFacts DEF RequestStates, CreateBuild, At, TInv, NamedIn, NewSid, Snapshot
<1>2. Become(r, state) /\ now' = now + 1 /\ UNCHANGED <<index, snapshots>> /\ At(r, "create")
  BY DEF CreateBuild
<1>3. req[r].answer = "none"
  BY <1>2 DEF TInv, At
<1> HIDE DEF state, rec
<1>4. Given' = Given
  BY <1>1, <1>2, <1>3, StepGives DEF GivenTo, Given
<1>5. Pending' = Pending \cup {rec}
  <2>1. req'[r] = state /\ \A q \in Requests \ {r} : req'[q] = req[q]
    BY <1>2 DEF SInv, TypeOK, Become
  <2>2. \A q \in Requests : At(q, "built")' <=> q = r \/ At(q, "built")
    BY <1>1, <2>1 DEF At
  <2> QED  BY <1>1, <1>2, <2>1, <2>2 DEF Pending, At
<1>6. Table' = Table \cup {rec}
  BY <1>2, <1>5, TableIs
<1> QED  BY <1>2, <1>4, <1>6 DEF Promise!Create, rec

\* A creation that is stored leaves the table as it was, but for what is old.
LEMMA StoreExpires ==
  ASSUME SInv, SInv', FInv, TInv, NEW r \in Requests, CreateStore(r)
  PROVE  Promise!Expire
<1> DEFINE state == [req[r] EXCEPT !.pc = "done", !.answer = "ready"]
           snap == Snapshot(req[r].sid, req[r].module, req[r].made)
<1>1. state.pc = "done" /\ state.answer = "ready"
  BY RequestFacts DEF RequestStates
<1>2. /\ Become(r, state) /\ UNCHANGED <<now, index>> /\ At(r, "built")
      /\ req[r].answer = "none"
  BY DEF CreateStore, Finish, TInv, At
<1> HIDE DEF state
<1>3. Given' = Given
  BY <1>1, <1>2, StepGives DEF GivenTo, Given
<1>4. Pending = Pending' \cup {snap}
  <2>1. req'[r] = state /\ \A q \in Requests \ {r} : req'[q] = req[q]
    BY <1>2 DEF SInv, TypeOK, Become
  <2>2. \A q \in Requests : At(q, "built") <=> q = r \/ At(q, "built")'
    BY <1>1, <1>2, <2>1 DEF At
  <2>3. \A q \in Requests : At(q, "built")' => req'[q] = req[q]
    BY <1>1, <2>1 DEF At
  <2> QED  BY <1>2, <2>2, <2>3 DEF Pending
<1>5. /\ snapshots' \subseteq snapshots \cup {snap}
      /\ \A t \in snapshots \cup {snap} : t \in snapshots' \/ now - t.sid > TTL
  BY StoreSnapshots
<1> HIDE DEF snap
<1>6. Table = snapshots \cup Pending /\ Table' = snapshots' \cup Pending'
  BY TableIs
<1> QED  BY <1>2, <1>3, <1>4, <1>5, <1>6 DEF Promise!Expire

LEMMA FetchServes ==
  ASSUME SInv, SInv', FInv, NEW r \in Requests, FetchServe(r)
  PROVE  Promise!Serve(r) \/ Promise!Forget(r)
<1>1. At(r, "fetch") /\ ~At(r, "built") /\ UNCHANGED <<now, index, snapshots>>
  BY DEF FetchServe, At
<1>2. CASE Finish(r, "notFound")
  BY <1>1, <1>2, FinishForgets DEF Answers
<1>3. ASSUME NEW snap \in snapshots, snap.sid = req[r].sid,
             Become(r, [req[r] EXCEPT !.pc = "done", !.answer = "served",
                                      !.module = snap.module, !.made = snap.version])
      PROVE  Promise!Serve(r)
  <2> DEFINE state == [req[r] EXCEPT !.pc = "done", !.answer = "served",
                                     !.module = snap.module, !.made = snap.version]
  <2>1. /\ state.pc = "done" /\ state.answer = "served"
        /\ Snapshot(state.sid, state.module, state.made) = snap
    BY <1>3, RequestFacts DEF RequestStates, Snapshot, SInv, TypeOK, SnapshotStates
  <2>2. Become(r, state)
    BY <1>3
  <2> HIDE DEF state
  <2>3. Given' = [Given EXCEPT ![r] = {snap}] /\ Pending' = Pending
    BY <1>1, <2>1, <2>2, StepGives DEF GivenTo
  <2>4. Table' = Table /\ snap \in Table
    BY <1>1, <2>3, TableIs
  <2>5. snap.module = TokenOf[r]
    BY <1>1, <1>3 DEF FInv, Sound, At
  <2> QED  BY <1>1, <2>3, <2>4, <2>5 DEF Promise!Serve
<1> QED  BY <1>2, <1>3 DEF FetchServe

LEMMA HandlerRefines ==
  ASSUME FineClock, SInv, SInv', FInv, TInv, NEW r \in Requests, Handler(r)
  PROVE  Promise!Next
<1>1. CASE CreateBuild(r)
  BY <1>1, BuildCreates DEF Promise!Next
<1>2. CASE CreateStore(r)
  BY <1>2, StoreExpires DEF Promise!Next
<1>3. CASE FetchServe(r)
  BY <1>3, FetchServes DEF Promise!Next
<1>4. ASSUME NEW answer \in Answers, Finish(r, answer), ~At(r, "built"),
             UNCHANGED <<now, index, snapshots>>
      PROVE  Promise!Forget(r)
  BY <1>4, FinishForgets
<1>5. ASSUME NEW pc \in {"create", "wait", "asleep"}, req[r].pc \in Waiting,
             Become(r, [req[r] EXCEPT !.pc = pc]), UNCHANGED <<now, index, snapshots>>
      PROVE  Promise!Forget(r)
  <2> DEFINE state == [req[r] EXCEPT !.pc = pc]
  <2>1. state.pc # "built" /\ state.answer = "none" /\ ~At(r, "built")
    BY <1>5, RequestFacts DEF RequestStates, At, TInv, Waiting
  <2>2. Become(r, state)
    BY <1>5
  <2> HIDE DEF state
  <2> QED  BY <1>5, <2>1, <2>2, PlainForgets
<1>6. ASSUME NEW pc \in {"fetch", "commit"}, NEW sid, At(r, "idle"),
             Become(r, [req[r] EXCEPT !.pc = pc, !.sid = sid]),
             UNCHANGED <<now, index, snapshots>>
      PROVE  Promise!Forget(r)
  <2> DEFINE state == [req[r] EXCEPT !.pc = pc, !.sid = sid]
  <2>1. state.pc # "built" /\ state.answer = "none" /\ ~At(r, "built")
    BY <1>6, RequestFacts DEF RequestStates, At, TInv
  <2>2. Become(r, state)
    BY <1>6
  <2> HIDE DEF state
  <2> QED  BY <1>6, <2>1, <2>2, PlainForgets
<1>7. CASE NextRequest(r)
  <2>1. Idle(r).pc = "idle" /\ Idle(r).answer = "none"
    BY DEF Idle, Request
  <2>2. Promise!Forget(r)
    BY <1>7, <2>1, PlainForgets DEF NextRequest, At
  <2> QED  BY <2>2 DEF Promise!Next
<1>8. CASE \/ \E m \in Modules : CreateCheck(r, m) \/ WaitStart(r, m)
           \/ CreateRefused(r) \/ Commit(r) \/ WaitPoll(r) \/ WaitWake(r)
  <2>1. Promise!Forget(r)
    BY <1>4, <1>5, <1>8
       DEF CreateCheck, CreateRefused, Commit, WaitStart, WaitPoll, WaitWake, At,
           Answers, Waiting
  <2> QED  BY <2>1 DEF Promise!Next
<1>9. ASSUME NEW sid \in 0 .. MaxNow, FetchAuthorize(r, sid) \/ CommitFind(r, sid)
      PROVE  Promise!Next
  <2>1. Promise!Forget(r)
    BY <1>4, <1>6, <1>9 DEF FetchAuthorize, CommitFind, At, Answers
  <2> QED  BY <2>1 DEF Promise!Next
<1> QED  BY <1>1, <1>2, <1>3, <1>7, <1>8, <1>9 DEF Handler

LEMMA StepRefines ==
  FineClock /\ SInv /\ SInv' /\ FInv /\ TInv /\ [Next]_vars
    => [Promise!Next]_(Promise!vars)
<1> SUFFICES ASSUME FineClock, SInv, SInv', FInv, TInv, [Next]_vars
             PROVE  [Promise!Next]_(Promise!vars)
  OBVIOUS
<1>1. ASSUME NEW r \in Requests, Handler(r) PROVE Promise!Next
  BY <1>1, HandlerRefines
<1>2. CASE Restart
  <2>1. \A r \in Requests : req'[r].pc = "idle" /\ req'[r].answer = "none"
    BY <1>2 DEF Restart, Idle, Request
  <2>2. Given' = [r \in Requests |-> {}] /\ Pending' = {}
    BY <2>1 DEF Given, Pending, At
  <2>3. Table' = {}
    BY <1>2, <2>2, TableIs DEF Restart
  <2> QED  BY <1>2, <2>2, <2>3 DEF Restart, Promise!Next, Promise!Restart
<1>3. ASSUME UNCHANGED <<sessions, snapshots, req>>
      PROVE  UNCHANGED <<Table, Given>>
  BY <1>3 DEF Table, Given, At, Owners
<1>4. CASE Tick
  BY <1>3, <1>4 DEF Tick, Promise!Next, Promise!Tick
<1>5. ASSUME NEW m \in Modules, Rebuild(m) PROVE Promise!Next
  BY <1>3, <1>5 DEF Rebuild, Promise!Next, Promise!Rebuild
<1>6. CASE UNCHANGED <<now, index, sessions, snapshots, req>>
  BY <1>3, <1>6 DEF Promise!vars
<1> QED  BY <1>1, <1>2, <1>4, <1>5, <1>6 DEF Next, LockOrUnlock, vars

LEMMA InitRefines == Init => Promise!Init
<1> SUFFICES ASSUME Init PROVE Promise!Init
  OBVIOUS
<1>1. \A r \in Requests : req[r].pc = "idle" /\ req[r].answer = "none"
  BY DEF Init, Idle, Request
<1>2. Table = {} /\ Given = [r \in Requests |-> {}]
  BY <1>1 DEF Init, Table, Given, At
<1> QED  BY <1>2 DEF Init, Promise!Init

\* If no two requests read one time, the two maps and the steps of the handlers
\* are one table of records made at once: all that is served under an ID is of
\* the index of one instant and of the token's module, nothing else ever gets
\* the ID, and only age or a restart ends it (server.go:437-509, 633-652).
THEOREM ServiceIsTable ==
  ASSUME FineClock
  PROVE  Spec => ImplementsTable
<1>1. SInv /\ FInv /\ TInv /\ [Next]_vars => TInv'
  BY TimedNext
<1>2. SInv /\ SInv' /\ FInv /\ TInv /\ [Next]_vars => [Promise!Next]_(Promise!vars)
  BY StepRefines
<1> QED
  BY <1>1, <1>2, TimedInit, InitRefines, FreshAlways, PTL
     DEF Spec, ImplementsTable, Promise!Spec
=============================================================================
