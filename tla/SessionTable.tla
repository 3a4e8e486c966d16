---------------------------- MODULE SessionTable ----------------------------
(***************************************************************************)
(* What the sessions of the server promise its clients, with no second map *)
(* and no steps within a handler: one table of the snapshots that can be   *)
(* fetched.  A record is made in one step, from the index of that instant  *)
(* and with the instant for an ID, so that no ID is ever given twice; it   *)
(* never changes, and only its age or a restart ends it.                   *)
(***************************************************************************)
EXTENDS Integers

CONSTANTS
  Modules,
  Requests,
  TokenOf,   \* the module of a request's token
  TTL        \* how long a record lasts at least

VARIABLES
  now,       \* the clock
  index,     \* the index of each module
  table,     \* the records
  given      \* the record each request was served from, if it was

vars == <<now, index, table, given>>

Init ==
  /\ now = 0 /\ index = [m \in Modules |-> 0]
  /\ table = {} /\ given = [r \in Requests |-> {}]

Create(r) ==
  /\ table' = table \cup
       {[sid |-> now, module |-> TokenOf[r], version |-> index[TokenOf[r]]]}
  /\ now' = now + 1
  /\ UNCHANGED <<index, given>>

Serve(r) ==
  /\ \E rec \in table : rec.module = TokenOf[r] /\ given' = [given EXCEPT ![r] = {rec}]
  /\ UNCHANGED <<now, index, table>>

\* The request is over.
Forget(r) ==
  /\ given' = [given EXCEPT ![r] = {}]
  /\ UNCHANGED <<now, index, table>>

Expire ==
  /\ table' \subseteq table
  /\ \A rec \in table \ table' : now - rec.sid > TTL
  /\ UNCHANGED <<now, index, given>>

Rebuild(m) ==
  /\ index' = [index EXCEPT ![m] = @ + 1]
  /\ UNCHANGED <<now, table, given>>

Tick ==
  /\ now' = now + 1
  /\ UNCHANGED <<index, table, given>>

Restart ==
  /\ table' = {} /\ given' = [r \in Requests |-> {}]
  /\ UNCHANGED <<now, index>>

Next ==
  \/ \E r \in Requests : Create(r) \/ Serve(r) \/ Forget(r)
  \/ Expire
  \/ \E m \in Modules : Rebuild(m)
  \/ Tick
  \/ Restart

Spec == Init /\ [][Next]_vars
=============================================================================
