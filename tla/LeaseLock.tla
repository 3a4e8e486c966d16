----------------------------- MODULE LeaseLock -----------------------------
(***************************************************************************)
(* What the lock API promises its callers, with no faults and no stale     *)
(* records or files: leases that the running server holds and leases that  *)
(* are written down, which are those a restart leaves.  A lease lasts in   *)
(* the server until its owner gives it up or its time is over, and every   *)
(* answer tells the state at that instant.                                 *)
(***************************************************************************)
EXTENDS LockPaths

CONSTANTS
  Paths,        \* the clean lock paths
  Owners,       \* the names lock holders give themselves
  PipedOwners,  \* those whose leases cannot be written down
  NoOwner,      \* the empty owner name
  TTLs          \* lease durations, in ticks

VARIABLES
  held,      \* the leases the server holds
  written,   \* the leases that outlast it
  now,       \* the clock
  reply      \* the last call and its answer

vars == <<held, written, now, reply>>

Answer(op, path, owner, result) ==
  [op |-> op, path |-> path, owner |-> owner, result |-> result]

Restarted == Answer("restart", << >>, NoOwner, "done")

Blocked(path) == \E l \in held \cup written : overlaps(path, l.path)

Init ==
  /\ held = {} /\ written = {}
  /\ now = 0
  /\ reply = Restarted

Refuse(path, owner) ==
  /\ Blocked(path)
  /\ reply' = Answer("acquire", path, owner, "locked")
  /\ UNCHANGED <<held, written, now>>

Grant(path, owner, ttl) ==
  /\ ~Blocked(path)
  /\ LET lease == [path |-> path, owner |-> owner, expiresAt |-> now + ttl]
     IN /\ held' = held \cup {lease}
        /\ written' = IF owner \in PipedOwners THEN written ELSE written \cup {lease}
  /\ reply' = Answer("acquire", path, owner, "granted")
  /\ UNCHANGED now

\* The lease could not be recorded, and the caller is told so.
Fail(path, owner) ==
  /\ ~Blocked(path)
  /\ reply' = Answer("acquire", path, owner, "failed")
  /\ UNCHANGED <<held, written, now>>

\* The server's lease ends when the caller names it as its own, or names no
\* owner; the written one ends whoever asks, so that a lease somebody else
\* has released does not outlast the server.
Release(path, owner) ==
  /\ held' = {l \in held : ~(l.path = path /\ owner \in {NoOwner, l.owner})}
  /\ written' = {l \in written : l.path # path}
  /\ reply' = Answer("release", path, owner, "done")
  /\ UNCHANGED now

Query(path) ==
  /\ reply' = Answer("query", path, NoOwner,
                     IF Blocked(path) THEN "locked" ELSE "unlocked")
  /\ UNCHANGED <<held, written, now>>

\* What is written down is in force after a restart.
Restart ==
  /\ held' = {}
  /\ reply' = Restarted
  /\ UNCHANGED <<written, now>>

\* A lease is still in force in its last tick, and gone in the next.
Tick ==
  /\ now' = now + 1
  /\ held' = {l \in held : l.expiresAt >= now'}
  /\ written' = {l \in written : l.expiresAt >= now'}
  /\ UNCHANGED reply

Next ==
  \/ \E path \in Paths, owner \in Owners :
       \/ Refuse(path, owner)
       \/ \E ttl \in TTLs : Grant(path, owner, ttl)
       \/ Fail(path, owner)
  \/ \E path \in Paths, owner \in Owners \cup {NoOwner} : Release(path, owner)
  \/ \E path \in Paths : Query(path)
  \/ Restart
  \/ Tick

Spec == Init /\ [][Next]_vars
=============================================================================
