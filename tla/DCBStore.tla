------------------------------ MODULE DCBStore ------------------------------
(***************************************************************************)
(* What `append` promises its callers, without transactions: each call     *)
(* takes effect in at most one atomic step, which adds all its events at   *)
(* fresh, increasing positions and is possible only while none of its      *)
(* conditions selects a stored event.  A call that returns ok returns the  *)
(* position its own step gave to its last event; it is refused only if     *)
(* some condition selects an event.  A call may fail, and after a failure  *)
(* its events may or may not be in the store; a call that returned ok or   *)
(* was refused is never in doubt.                                          *)
(*                                                                         *)
(* DCBAppend, the transactional protocol of append.rs, implements this     *)
(* module.  Conditions are evaluated here over the events themselves       *)
(* (Matches), in DCBAppend over the index keys.                            *)
(***************************************************************************)
EXTENDS DCBIndex

CONSTANT Calls       \* calls of append

VARIABLES
    version,     \* version of the last step that wrote
    stored,      \* the events in the store
    phase,       \* where each call is
    request,     \* what each call asked for
    at,          \* the version of the step in which each call wrote
    reply        \* the position a call returned

storeVars == <<version, stored, phase, request, at, reply>>

Phase == {"idle", "pending", "written", "ok", "refused", "failed"}

\* The events a request writes at version v, in batch order.
Batch(req, v) ==
    {[pos  |-> [ver |-> v, idx |-> i - 1],
      type |-> req.events[i].type,
      tags |-> Range(req.events[i].tags)] : i \in DOMAIN req.events}

\* Bug: the items of a query are joined by AND.
MutEveryItem(req) ==
    \E cond \in req.conds : \A item \in cond.items :
        Selected(stored, item, cond.after) # {}

\* Bug: the bound itself is not excluded.
MutAtBound(req) ==
    \E cond \in req.conds : \E item \in cond.items : \E e \in stored :
        Matches(e, item) /\ ~Before(e.pos, cond.after)

\* Some condition of the request selects a stored event.
Violated(req) ==
    \E cond \in req.conds : \E item \in cond.items :
        Selected(stored, item, cond.after) # {}

NoRequest == [events |-> <<>>, conds |-> {}]

StoreInit ==
    /\ version = 0
    /\ stored = {}
    /\ phase = [c \in Calls |-> "idle"]
    /\ request = [c \in Calls |-> NoRequest]
    /\ at = [c \in Calls |-> 0]
    /\ reply = [c \in Calls |-> Origin]

\* The caller issues a request, of which this specification fixes nothing;
\* the arguments may be found invalid at once.
Ask(c) ==
    /\ phase[c] = "idle"
    /\ phase' \in {[phase EXCEPT ![c] = p] : p \in {"pending", "failed"}}
    /\ request' = [request EXCEPT ![c] = request'[c]]
    /\ UNCHANGED <<version, stored, at, reply>>

\* The atomic step: check and write.
Write(c) ==
    /\ phase[c] = "pending"
    /\ ~Violated(request[c])
    /\ version' = version + 1
    /\ stored' = stored \union Batch(request[c], version')
    /\ at' = [at EXCEPT ![c] = version']
    /\ phase' = [phase EXCEPT ![c] = "written"]
    /\ UNCHANGED <<request, reply>>

\* Bug: the version is that of the store when the call returns.
MutLatestVersion(c) ==
    /\ phase[c] = "written"
    /\ reply' = [reply EXCEPT ![c] =
                    [ver |-> version, idx |-> Len(request[c].events) - 1]]
    /\ phase' = [phase EXCEPT ![c] = "ok"]
    /\ UNCHANGED <<version, stored, request, at>>

\* The call returns the position of the last event of its batch.
Succeed(c) ==
    /\ phase[c] = "written"
    /\ reply' = [reply EXCEPT ![c] =
                    [ver |-> at[c], idx |-> Len(request[c].events) - 1]]
    /\ phase' = [phase EXCEPT ![c] = "ok"]
    /\ UNCHANGED <<version, stored, request, at>>

Refuse(c) ==
    /\ phase[c] = "pending"
    /\ Violated(request[c])
    /\ phase' = [phase EXCEPT ![c] = "refused"]
    /\ UNCHANGED <<version, stored, request, at, reply>>

\* An error, or the caller is gone.
Fail(c) ==
    /\ phase[c] \in {"pending", "written"}
    /\ phase' = [phase EXCEPT ![c] = "failed"]
    /\ UNCHANGED <<version, stored, request, at, reply>>

StoreNext == \E c \in Calls : \/ Ask(c) \/ Write(c) \/ Succeed(c)
                              \/ Refuse(c) \/ Fail(c)

StoreSpec == StoreInit /\ [][StoreNext]_storeVars
=============================================================================
