----------------------------- MODULE DCBAppend ------------------------------
(***************************************************************************)
(* FdbStore::append (append.rs): an optimistic transaction that probes the *)
(* conditions, writes the batch and commits, in a loop over the client's   *)
(* on_error.                                                               *)
(*                                                                         *)
(* FoundationDB is modelled by its contract.                               *)
(*   - A transaction reads one snapshot, that of its read version.  Event  *)
(*     and index keys are only ever added and end with the versionstamp of *)
(*     the commit that added them, so the snapshot of version v is the     *)
(*     keys stamped v or earlier.                                          *)
(*   - A commit is refused when a key written after the read version lies  *)
(*     in a read conflict range; it may also fail for any other reason.    *)
(*   - The answer to a commit can be lost.  With an idempotency id the     *)
(*     client finds out by itself whether the commit was applied; without  *)
(*     one it reports commit_unknown_result, a retryable error.            *)
(*   - on_error resets the transaction, options included, but not the      *)
(*     retry limit; it gives up when the limit is used up or the error is  *)
(*     not retryable.                                                      *)
(*                                                                         *)
(* An element of Calls is one call of append; an application that tries    *)
(* again makes another call.                                               *)
(***************************************************************************)
EXTENDS DCBIndex, FiniteSets

CONSTANTS
    Calls,       \* calls of append
    Requests,    \* what a call may ask: [events, queries]
    OtherBounds, \* bounds of a condition that are the position of no stored
                 \* event: later ones, those of another store
    RetryLimit,  \* APPEND_RETRY_LIMIT
    MaxTags,     \* tags an event may carry
    U16Max       \* u16::MAX, the largest batch and batch index

RawEvent == [type : Types, tags : Seq(Tags)]

ASSUME RequestsAssumption ==
    \A r \in Requests : /\ r.events \in Seq(RawEvent)
                        /\ r.queries \in SUBSET (SUBSET QueryItem)
ASSUME BoundsAssumption == OtherBounds \subseteq Position
ASSUME LimitsAssumption ==
    /\ RetryLimit \in Nat
    /\ MaxTags \in Nat
    /\ U16Max \in Nat

VARIABLES
    \* the database
    version,     \* version of the last commit
    events,      \* the primary subspace [ns, "e"]
    index,       \* the index subspace [ns, "i"]
    sentinel,    \* the value of [ns, "lastvs"]: version that wrote it, 0 if none
    \* the calls
    pc,          \* where each call is
    request,     \* its arguments: events, and conditions with their `after`
    retries,     \* errors the client has counted against the retry limit
    tr,          \* its transaction: read version, conflict ranges, options
    stamp,       \* its versionstamp future
    result,      \* what it returned
    \* history
    commits      \* the call and the request behind each committed version

dbVars   == <<version, events, index, sentinel>>
callVars == <<pc, request, retries, tr, stamp, result>>
vars     == <<version, events, index, sentinel,
              pc, request, retries, tr, stamp, result, commits>>

Stage == {"idle", "ready", "committing", "applied", "acked", "done", "crashed"}
Verdict == {"none", "ok", "condition_failed", "invalid", "fdb_error"}
Condition == [items : SUBSET QueryItem, after : Position]

NoRequest == [events |-> <<>>, conds |-> {}]
Err(kind) == [kind |-> kind, pos |-> Origin]
NoResult  == Err("none")
\* A transaction as create_trx or on_error leaves it.
FreshTr   == [idem |-> FALSE, rv |-> 0, reads |-> {}]

Init ==
    /\ version = 0
    /\ events = {}
    /\ index = {}
    /\ sentinel = 0
    /\ pc = [c \in Calls |-> "idle"]
    /\ request = [c \in Calls |-> NoRequest]
    /\ retries = [c \in Calls |-> 0]
    /\ tr = [c \in Calls |-> FreshTr]
    /\ stamp = [c \in Calls |-> 0]
    /\ result = [c \in Calls |-> NoResult]
    /\ commits = <<>>

-----------------------------------------------------------------------------
(***************************************************************************)
(* The arguments.                                                          *)
(***************************************************************************)

\* Bug: batches are not limited.
MutAnyLength(batch) == batch # <<>>

\* Neither EmptyEvents nor BatchTooLarge.
valid_length(batch) == batch # <<>> /\ Len(batch) <= U16Max

\* None of MissingEventType, TooManyTags (duplicates count), ReservedTag.
valid_event(event) ==
    /\ event.type # ""
    /\ Len(event.tags) <= MaxTags
    /\ "_" \notin Range(event.tags)

\* Neither InvalidQuery nor ReservedTag.
valid_query(items) ==
    /\ items # {}
    /\ \A item \in items : /\ item.types # {} \/ item.tags # {}
                           /\ "_" \notin item.tags

valid(req) ==
    /\ valid_length(req.events)
    /\ \A i \in DOMAIN req.events : valid_event(req.events[i])
    /\ \A cond \in req.conds : valid_query(cond.items)

\* A caller bounds a condition by a position it has seen, by any other, or not
\* at all.
Bounds == {Origin} \union {e.pos : e \in events} \union OtherBounds

Call(c) ==
    /\ pc[c] = "idle"
    /\ \E r \in Requests : \E after \in [r.queries -> Bounds] :
          LET req == [events |-> r.events,
                      conds |-> {[items |-> q, after |-> after[q]] : q \in r.queries}]
          IN  /\ request' = [request EXCEPT ![c] = req]
              /\ pc' = [pc EXCEPT ![c] = IF valid(req) THEN "ready" ELSE "done"]
              /\ result' = [result EXCEPT ![c] =
                               IF valid(req) THEN @ ELSE Err("invalid")]
    /\ UNCHANGED <<version, events, index, sentinel, retries, tr, stamp, commits>>

-----------------------------------------------------------------------------
(***************************************************************************)
(* The database, as the transactions use it.                               *)
(***************************************************************************)
snapshot(v) == {k \in index : k.pos.ver <= v}

\* A key committed after the transaction's read version lies in one of its
\* read conflict ranges.
Conflict(t) == \E k \in index \ snapshot(t.rv) : \E r \in t.reads : InRange(k, r)

\* Bug: RetryLimit is set before the first attempt, on no other.
MutNoLimit(c) ==
    /\ retries' = [retries EXCEPT ![c] = @ + 1]
    /\ pc' = [pc EXCEPT ![c] = "ready"]
    /\ tr' = [tr EXCEPT ![c] = FreshTr]
    /\ UNCHANGED <<version, events, index, sentinel, request, stamp, result, commits>>

\* Bug: the loop creates a new transaction for each attempt, and with it a
\* new retry limit.
MutNewLimit(c) ==
    /\ pc' = [pc EXCEPT ![c] = "ready"]
    /\ tr' = [tr EXCEPT ![c] = FreshTr]
    /\ UNCHANGED <<version, events, index, sentinel, request, retries, stamp,
                   result, commits>>

\* on_error resets the transaction and the loop goes round again.
Retry(c) ==
    /\ retries[c] < RetryLimit
    /\ retries' = [retries EXCEPT ![c] = @ + 1]
    /\ pc' = [pc EXCEPT ![c] = "ready"]
    /\ tr' = [tr EXCEPT ![c] = FreshTr]
    /\ UNCHANGED <<version, events, index, sentinel, request, stamp, result, commits>>

\* Not retryable, or the limit is used up: append returns Err(Fdb).
GiveUp(c) ==
    /\ pc' = [pc EXCEPT ![c] = "done"]
    /\ result' = [result EXCEPT ![c] = Err("fdb_error")]
    /\ UNCHANGED <<version, events, index, sentinel, request, retries, tr,
                   stamp, commits>>

on_error(c) == Retry(c) \/ GiveUp(c)

-----------------------------------------------------------------------------
(***************************************************************************)
(* The loop.  The probes of one attempt all read the same snapshot, so     *)
(* their outcome is fixed when the read version is: one step, after which  *)
(* other calls may commit.                                                 *)
(***************************************************************************)

matched(conds, keys) ==
    \E cond \in conds : \E item \in cond.items :
        query_item_exists(item, cond.after, keys)

probe_ranges(conds, keys) ==
    UNION {UNION {read_conflict_ranges(item, cond.after, keys) : item \in cond.items} :
              cond \in conds}

\* A probe fails: the error wins over any verdict of the other probes.
\* Without conditions there is no probe; setting the options can still fail,
\* which is not retried.
ProbeError(c) ==
    /\ pc[c] = "ready"
    /\ on_error(c)
    /\ request[c].conds = {} => GiveUp(c)

\* A probe finds a key: AppendConditionFailed.
ProbeMatched(c) ==
    /\ pc[c] = "ready"
    /\ matched(request[c].conds, index)
    /\ pc' = [pc EXCEPT ![c] = "done"]
    /\ result' = [result EXCEPT ![c] = Err("condition_failed")]
    /\ UNCHANGED <<version, events, index, sentinel, request, retries, tr,
                   stamp, commits>>

\* Bug: AutomaticIdempotency is set where the transaction is created, before
\* the loop, and on_error takes it away.
MutIdempotencyOnce(c) ==
    /\ pc[c] = "ready"
    /\ ~matched(request[c].conds, index)
    /\ tr' = [tr EXCEPT ![c] =
                 [idem  |-> retries[c] = 0,
                  rv    |-> version,
                  reads |-> probe_ranges(request[c].conds, index)]]
    /\ pc' = [pc EXCEPT ![c] = "committing"]
    /\ UNCHANGED <<version, events, index, sentinel, request, retries, stamp,
                   result, commits>>

\* No probe finds a key: the batch is buffered and the commit is sent.
ProbeClear(c) ==
    /\ pc[c] = "ready"
    /\ ~matched(request[c].conds, index)
    /\ tr' = [tr EXCEPT ![c] =
                 [idem  |-> TRUE,
                  rv    |-> version,
                  reads |-> probe_ranges(request[c].conds, index)]]
    /\ pc' = [pc EXCEPT ![c] = "committing"]
    /\ UNCHANGED <<version, events, index, sentinel, request, retries, stamp,
                   result, commits>>

as_u16(n) == n % (U16Max + 1)

\* The events of a batch as stored by a commit of version v.
stamped(batch, v) ==
    {[pos  |-> [ver |-> v, idx |-> as_u16(i - 1)],
      type |-> batch[i].type,
      tags |-> sort_tags(batch[i].tags)] : i \in DOMAIN batch}

\* Bug: the sentinel is set to a constant.
MutConstantSentinel(v) == 1

\* SetVersionstampedValue: the value is the commit's own version.
sentinel_val(v) == v

\* The database applies the commit.  The answer is on its way.
Commit(c) ==
    /\ pc[c] = "committing"
    /\ ~Conflict(tr[c])
    /\ LET new == stamped(request[c].events, version + 1)
       IN  /\ events' = events \union new
           /\ index' = index \union UNION {index_keys(e) : e \in new}
    /\ version' = version + 1
    /\ sentinel' = sentinel_val(version + 1)
    /\ stamp' = [stamp EXCEPT ![c] = version + 1]
    /\ pc' = [pc EXCEPT ![c] = "applied"]
    /\ commits' = Append(commits, [call |-> c, request |-> request[c]])
    /\ UNCHANGED <<request, retries, tr, result>>

\* The database refuses the commit, for a conflict or any other reason.
CommitRejected(c) ==
    /\ pc[c] = "committing"
    /\ on_error(c)

\* The client learns that the commit was applied.
Acked(c) ==
    /\ pc' = [pc EXCEPT ![c] = "acked"]
    /\ UNCHANGED <<version, events, index, sentinel, request, retries, tr,
                   stamp, result, commits>>

CommitOk(c) ==
    /\ pc[c] = "applied"
    /\ Acked(c)

\* The answer is lost and the commit will not be applied any more.  The
\* client looks its idempotency id up, if it has one.
CommitUnknown(c) ==
    /\ pc[c] \in {"committing", "applied"}
    /\ IF pc[c] = "applied" /\ tr[c].idem THEN Acked(c) ELSE on_error(c)

\* Bug: the position of the first event of the batch.
MutFirstPosition(c) == [ver |-> stamp[c], idx |-> 0]

\* tx_version || (n - 1) as u16.
last_vs(c) == [ver |-> stamp[c], idx |-> as_u16(Len(request[c].events) - 1)]

ReturnOk(c) ==
    /\ pc[c] = "acked"
    /\ pc' = [pc EXCEPT ![c] = "done"]
    /\ result' = [result EXCEPT ![c] = [kind |-> "ok", pos |-> last_vs(c)]]
    /\ UNCHANGED <<version, events, index, sentinel, request, retries, tr,
                   stamp, commits>>

\* The versionstamp future fails after the commit: Err(Fdb) of a batch that
\* is in the store.
StampError(c) ==
    /\ pc[c] = "acked"
    /\ GiveUp(c)

\* The caller's process is gone, at any point of the call.  Nobody can tell
\* a commit that was in flight and is applied after the crash from one that
\* was applied just before it, so the latter stands for both.
Crash(c) ==
    /\ pc[c] \in {"ready", "committing", "applied", "acked"}
    /\ pc' = [pc EXCEPT ![c] = "crashed"]
    /\ UNCHANGED <<version, events, index, sentinel, request, retries, tr,
                   stamp, result, commits>>

Step(c) == \/ ProbeError(c) \/ ProbeMatched(c) \/ ProbeClear(c)
           \/ Commit(c) \/ CommitRejected(c) \/ CommitOk(c) \/ CommitUnknown(c)
           \/ ReturnOk(c) \/ StampError(c)

Returned(c) == pc[c] \in {"done", "crashed"}

\* Every call has ended: nothing is left to do.
AllReturned == (\A c \in Calls : Returned(c)) /\ UNCHANGED vars

Next == (\E c \in Calls : Call(c) \/ Step(c) \/ Crash(c)) \/ AllReturned

Spec == Init /\ [][Next]_vars

\* The cluster answers every request of a call that is under way, with a
\* result or an error; nothing forces a caller to call, or to crash.
FairSpec == Spec /\ \A c \in Calls : WF_vars(Step(c))

-----------------------------------------------------------------------------
(***************************************************************************)
(* Properties.                                                             *)
(***************************************************************************)
TypeOK ==
    /\ version \in Nat
    /\ events \in SUBSET StoredEvent
    /\ index \in SUBSET IndexKey
    /\ sentinel \in Nat
    /\ pc \in [Calls -> Stage]
    /\ request \in [Calls -> [events : Seq(RawEvent), conds : SUBSET Condition]]
    /\ retries \in [Calls -> 0..RetryLimit]
    /\ tr \in [Calls -> [idem : BOOLEAN, rv : Nat, reads : SUBSET KeyRange]]
    /\ stamp \in [Calls -> Nat]
    /\ result \in [Calls -> [kind : Verdict, pos : Position]]
    /\ commits \in Seq([call : Calls,
                        request : [events : Seq(RawEvent), conds : SUBSET Condition]])

\* A batch is in the store only if, when it was committed, no event stored by
\* an earlier commit matched a condition of its call after the bound: the
\* guarantee of append (append.rs), whatever commits between the probes and
\* the commit, and whatever type an event has that a tags-only condition did
\* not discover.
ConditionsHeld ==
    \A v \in DOMAIN commits :
        \A cond \in commits[v].request.conds : \A item \in cond.items :
            \A e \in Selected(events, item, cond.after) : e.pos.ver >= v

\* However often the loop retries, no call commits its batch twice: an
\* unknown commit outcome is resolved, never retried over an applied commit.
AppliedOnce ==
    \A u, v \in DOMAIN commits : commits[u].call = commits[v].call => u = v

Committed(c) == \E v \in DOMAIN commits : commits[v].call = c

\* What append returned to a call agrees with the store.
Truthful(c) ==
    /\ result[c].kind = "ok" =>
          /\ Committed(c)
          /\ \E e \in events : e.pos = result[c].pos
          /\ \A e \in events : e.pos.ver = result[c].pos.ver =>
                 /\ ~Before(result[c].pos, e.pos)
                 /\ commits[e.pos.ver].call = c
    /\ result[c].kind = "condition_failed" =>
          /\ ~Committed(c)
          /\ \E cond \in request[c].conds : \E item \in cond.items :
                Selected(events, item, cond.after) # {}
    /\ result[c].kind = "invalid" => ~Committed(c)

\* What append returns is true.  Ok: the batch is in the store, and the
\* position is that of its last event, so a cursor set to it skips the batch
\* and nothing else.  AppendConditionFailed: the batch is not in the store,
\* and an event that a condition selects is.  Invalid arguments: the batch
\* is not in the store.
TruthfulVerdict == \A c \in Calls : Truthful(c)

\* A batch is stored whole and in its own order: the positions of a commit,
\* read in order, give the events of the request, none lost to a batch index
\* that does not fit its two bytes.
BatchInOrder ==
    \A v \in DOMAIN commits :
        LET stored == {e \in events : e.pos.ver = v}
            batch  == commits[v].request.events
        IN  /\ Cardinality(stored) = Len(batch)
            /\ \A e \in stored :
                  LET i == Cardinality({f \in stored : ~Before(e.pos, f.pos)})
                  IN  e.type = batch[i].type /\ e.tags = Range(batch[i].tags)

\* Where a call is, as its caller sees it.
CallerPhase(c) ==
    CASE pc[c] = "idle"                     -> "idle"
      [] pc[c] \in {"ready", "committing"}  -> "pending"
      [] pc[c] \in {"applied", "acked"}     -> "written"
      [] pc[c] = "crashed"                  -> "failed"
      [] pc[c] = "done" -> CASE result[c].kind = "ok"               -> "ok"
                             [] result[c].kind = "condition_failed" -> "refused"
                             [] OTHER                               -> "failed"

Store == INSTANCE DCBStore WITH
             stored <- events,
             phase  <- [c \in Calls |-> CallerPhase(c)],
             at     <- stamp,
             reply  <- [c \in Calls |-> result[c].pos]

\* The transactional protocol implements the atomic conditional append: a
\* call takes effect at its Commit, with the conditions true of the events
\* stored then, and a refusal is justified by the events stored then.
ImplementsStore == Store!StoreSpec

\* Every call ends, although the cluster may fail every attempt: the retry
\* limit survives the resets of the transaction.
EveryCallReturns == \A c \in Calls : pc[c] = "ready" ~> Returned(c)
-----------------------------------------------------------------------------
(***************************************************************************)
(* The inductive invariant behind the safety properties.                   *)
(***************************************************************************)

\* Every stored event has exactly its keys in the index.
IndexExact == index = UNION {index_keys(e) : e \in events}

\* The store is the batches of the committed calls, each at its version.
Ledger ==
    /\ version = Len(commits)
    /\ \A e \in events : e.pos.ver \in 1..version
    /\ \A v \in DOMAIN commits :
          /\ commits[v].request = request[commits[v].call]
          /\ valid_length(commits[v].request.events)
          /\ {e \in events : e.pos.ver = v} = stamped(commits[v].request.events, v)

\* While a commit is under way, the transaction has seen that no condition
\* matched in its snapshot, holds the conflict ranges that say so, and will
\* not be retried after it is applied.
Transaction(c) ==
    /\ tr[c].rv <= version
    /\ pc[c] = "committing" =>
          /\ tr[c].idem
          /\ ~matched(request[c].conds, snapshot(tr[c].rv))
          /\ tr[c].reads = probe_ranges(request[c].conds, snapshot(tr[c].rv))
    /\ pc[c] = "applied" => tr[c].idem

\* Where a call is tells whether it has committed, and at which version.
Progress(c) ==
    /\ pc[c] \in {"ready", "committing"} => valid_length(request[c].events)
    /\ pc[c] \in {"idle", "ready", "committing"} => ~Committed(c)
    /\ pc[c] \in {"applied", "acked"} =>
          /\ stamp[c] \in DOMAIN commits
          /\ commits[stamp[c]].call = c
    /\ pc[c] # "done" => result[c] = NoResult

Inv ==
    /\ TypeOK
    /\ IndexExact
    /\ Ledger
    /\ \A c \in Calls : Transaction(c) /\ Progress(c)
    /\ ConditionsHeld
    /\ AppliedOnce
    /\ TruthfulVerdict
=============================================================================
