-------------------------- MODULE DCBAppend_proofs --------------------------
(***************************************************************************)
(* Proofs about DCBAppend, for every set of calls and of requests and for  *)
(* every limit.                                                            *)
(***************************************************************************)
EXTENDS DCBAppend, DCBIndex_proofs, SequenceTheorems

(***************************************************************************)
(* Type correctness.                                                       *)
(***************************************************************************)
LEMMA OriginType == Origin \in Position
  BY DEF Origin, Position

LEMMA ErrType ==
    ASSUME NEW kind \in Verdict
    PROVE  Err(kind) \in [kind : Verdict, pos : Position]
  BY OriginType DEF Err

LEMMA BatchIndexType ==
    ASSUME NEW n \in Int
    PROVE  as_u16(n) \in Nat
<1>1. U16Max + 1 \in Nat \ {0}
  BY LimitsAssumption
<1> QED
  BY <1>1 DEF as_u16

LEMMA StampedType ==
    ASSUME NEW batch \in Seq(RawEvent), NEW v \in Nat
    PROVE  stamped(batch, v) \in SUBSET StoredEvent
<1> SUFFICES ASSUME NEW i \in DOMAIN batch
             PROVE  [pos  |-> [ver |-> v, idx |-> as_u16(i - 1)],
                     type |-> batch[i].type,
                     tags |-> sort_tags(batch[i].tags)] \in StoredEvent
  BY DEF stamped
<1>1. batch[i] \in RawEvent
  OBVIOUS
<1>2. i - 1 \in Int
  OBVIOUS
<1>3. as_u16(i - 1) \in Nat
  BY <1>2, BatchIndexType
<1>4. sort_tags(batch[i].tags) \in SUBSET Tags
  BY <1>1 DEF RawEvent, sort_tags, Range
<1> QED
  BY <1>1, <1>3, <1>4 DEF StoredEvent, Position, RawEvent

LEMMA IndexKeysType ==
    ASSUME NEW e \in StoredEvent
    PROVE  index_keys(e) \in SUBSET IndexKey
  BY DEF StoredEvent, index_keys, generate_superset_presorted, IndexKey

LEMMA ProbeRangesType ==
    ASSUME NEW conds \in SUBSET Condition, NEW keys \in SUBSET IndexKey
    PROVE  probe_ranges(conds, keys) \in SUBSET KeyRange
<1> SUFFICES ASSUME NEW cond \in conds, NEW item \in cond.items,
                    NEW r \in read_conflict_ranges(item, cond.after, keys)
             PROVE  r \in KeyRange
  BY DEF probe_ranges
<1>1. cond.after \in Position /\ item.types \in SUBSET Types /\ item.tags \in SUBSET Tags
  BY DEF Condition, QueryItem
<1>2. discover_types_in_tag_subspace(item.tags, keys) \in SUBSET Types
  BY DEF discover_types_in_tag_subspace, IndexKey
<1>3. ASSUME NEW t \in Types
      PROVE  tag_type_range(item.tags, t, cond.after) \in KeyRange
  BY <1>1 DEF tag_type_range, KeyRange
<1>4. events_in_tag_range(item.tags) \in KeyRange
  BY <1>1, OriginType DEF events_in_tag_range, KeyRange
<1>5. build_query_ranges(item, cond.after, keys) \in SUBSET KeyRange
  BY <1>1, <1>2, <1>3 DEF build_query_ranges
<1> QED
  BY <1>4, <1>5 DEF read_conflict_ranges

LEMMA InitTypeOK == Init => TypeOK
<1> SUFFICES ASSUME Init PROVE TypeOK
  OBVIOUS
<1>1. NoRequest \in [events : Seq(RawEvent), conds : SUBSET Condition]
  BY DEF NoRequest
<1>2. FreshTr \in [idem : BOOLEAN, rv : Nat, reads : SUBSET KeyRange]
  BY DEF FreshTr
<1>3. NoResult \in [kind : Verdict, pos : Position]
  BY ErrType DEF NoResult, Verdict
<1>4. 0 \in 0..RetryLimit
  BY LimitsAssumption
<1>5. <<>> \in Seq([call : Calls, request : [events : Seq(RawEvent), conds : SUBSET Condition]])
  OBVIOUS
<1> QED
  BY <1>1, <1>2, <1>3, <1>4, <1>5 DEF Init, TypeOK, Stage

LEMMA CallTypeOK ==
    ASSUME TypeOK, NEW c \in Calls, Call(c)
    PROVE  TypeOK'
<1>1. PICK r \in Requests : \E after \in [r.queries -> Bounds] :
        LET req == [events |-> r.events,
                    conds |-> {[items |-> q, after |-> after[q]] : q \in r.queries}]
        IN  /\ request' = [request EXCEPT ![c] = req]
            /\ pc' = [pc EXCEPT ![c] = IF valid(req) THEN "ready" ELSE "done"]
            /\ result' = [result EXCEPT ![c] =
                             IF valid(req) THEN @ ELSE Err("invalid")]
  BY DEF Call
<1>2. PICK after \in [r.queries -> Bounds] :
        LET req == [events |-> r.events,
                    conds |-> {[items |-> q, after |-> after[q]] : q \in r.queries}]
        IN  /\ request' = [request EXCEPT ![c] = req]
            /\ pc' = [pc EXCEPT ![c] = IF valid(req) THEN "ready" ELSE "done"]
            /\ result' = [result EXCEPT ![c] =
                             IF valid(req) THEN @ ELSE Err("invalid")]
  BY <1>1
<1> DEFINE req == [events |-> r.events,
                   conds |-> {[items |-> q, after |-> after[q]] : q \in r.queries}]
<1>3. Bounds \in SUBSET Position
  BY OriginType, BoundsAssumption DEF TypeOK, Bounds, StoredEvent
<1>4. ASSUME NEW q \in r.queries
      PROVE  [items |-> q, after |-> after[q]] \in Condition
  BY <1>3, RequestsAssumption DEF Condition
<1>5. req \in [events : Seq(RawEvent), conds : SUBSET Condition]
  BY <1>4, RequestsAssumption
<1>6. request' \in [Calls -> [events : Seq(RawEvent), conds : SUBSET Condition]]
  BY <1>2, <1>5 DEF TypeOK
<1>7. pc' \in [Calls -> Stage]
  BY <1>2 DEF TypeOK, Stage
<1>8. result' \in [Calls -> [kind : Verdict, pos : Position]]
  BY <1>2, ErrType DEF TypeOK, Verdict
<1> QED
  BY <1>6, <1>7, <1>8 DEF TypeOK, Call

LEMMA OnErrorTypeOK ==
    ASSUME TypeOK, NEW c \in Calls, on_error(c)
    PROVE  TypeOK'
<1>1. CASE Retry(c)
  <2>1. retries[c] + 1 \in 0..RetryLimit
    BY <1>1, LimitsAssumption DEF Retry, TypeOK
  <2>2. FreshTr \in [idem : BOOLEAN, rv : Nat, reads : SUBSET KeyRange]
    BY DEF FreshTr
  <2> QED
    BY <1>1, <2>1, <2>2 DEF Retry, TypeOK, Stage
<1>2. CASE GiveUp(c)
  BY <1>2, ErrType DEF GiveUp, TypeOK, Stage, Verdict
<1> QED
  BY <1>1, <1>2 DEF on_error

LEMMA CommitTypeOK ==
    ASSUME TypeOK, NEW c \in Calls, Commit(c)
    PROVE  TypeOK'
<1> DEFINE new == stamped(request[c].events, version + 1)
<1>1. request[c].events \in Seq(RawEvent) /\ version + 1 \in Nat
  BY DEF TypeOK
<1>2. new \in SUBSET StoredEvent
  BY <1>1, StampedType
<1>3. UNION {index_keys(e) : e \in new} \in SUBSET IndexKey
  BY <1>2, IndexKeysType
<1>4. events' \in SUBSET StoredEvent /\ index' \in SUBSET IndexKey
  BY <1>2, <1>3 DEF Commit, TypeOK
<1>5. commits' \in Seq([call : Calls, request : [events : Seq(RawEvent), conds : SUBSET Condition]])
  BY DEF Commit, TypeOK
<1>6. pc' \in [Calls -> Stage] /\ stamp' \in [Calls -> Nat]
  BY <1>1 DEF Commit, TypeOK, Stage
<1> QED
  BY <1>1, <1>4, <1>5, <1>6 DEF Commit, TypeOK, sentinel_val

LEMMA StepTypeOK ==
    ASSUME TypeOK, [Next]_vars
    PROVE  TypeOK'
<1>1. ASSUME NEW c \in Calls, Call(c)
      PROVE  TypeOK'
  BY <1>1, CallTypeOK
<1>2. ASSUME NEW c \in Calls, Step(c)
      PROVE  TypeOK'
  <2>1. CASE ProbeError(c) \/ CommitRejected(c)
    BY <2>1, OnErrorTypeOK DEF ProbeError, CommitRejected
  <2>2. CASE ProbeMatched(c)
    BY <2>2, ErrType DEF ProbeMatched, TypeOK, Stage, Verdict
  <2>3. CASE ProbeClear(c)
    <3>1. probe_ranges(request[c].conds, index) \in SUBSET KeyRange
      BY ProbeRangesType DEF TypeOK
    <3> QED
      BY <2>3, <3>1 DEF ProbeClear, TypeOK, Stage
  <2>4. CASE Commit(c)
    BY <2>4, CommitTypeOK
  <2>5. CASE CommitOk(c)
    BY <2>5 DEF CommitOk, Acked, TypeOK, Stage
  <2>6. CASE CommitUnknown(c)
    <3>1. CASE Acked(c)
      BY <3>1 DEF Acked, TypeOK, Stage
    <3> QED
      BY <2>6, <3>1, OnErrorTypeOK DEF CommitUnknown
  <2>7. CASE ReturnOk(c)
    <3>1. Len(request[c].events) - 1 \in Int
      BY DEF TypeOK
    <3>2. last_vs(c) \in Position
      BY <3>1, BatchIndexType DEF last_vs, TypeOK, Position
    <3> QED
      BY <2>7, <3>2 DEF ReturnOk, TypeOK, Stage, Verdict
  <2>8. CASE StampError(c)
    BY <2>8, OnErrorTypeOK DEF StampError, on_error
  <2> QED
    BY <1>2, <2>1, <2>2, <2>3, <2>4, <2>5, <2>6, <2>7, <2>8 DEF Step
<1>3. ASSUME NEW c \in Calls, Crash(c)
      PROVE  TypeOK'
  BY <1>3 DEF Crash, TypeOK, Stage
<1>4. CASE UNCHANGED vars
  BY <1>4 DEF vars, TypeOK
<1> QED
  BY <1>1, <1>2, <1>3, <1>4 DEF Next, AllReturned

\* Every reachable state is well typed; in particular no call is retried
\* more often than the limit allows.
THEOREM TypeCorrect == Spec => []TypeOK
<1>1. Init => TypeOK
  BY InitTypeOK
<1>2. TypeOK /\ [Next]_vars => TypeOK'
  BY StepTypeOK
<1> QED
  BY <1>1, <1>2, PTL DEF Spec
-----------------------------------------------------------------------------
(***************************************************************************)
(* The snapshot a transaction reads, and the condition it stands for.      *)
(***************************************************************************)

\* The batch index of an event that passed valid_length fits its two bytes.
LEMMA BatchIndexFits ==
    ASSUME NEW n \in 0..U16Max
    PROVE  as_u16(n) = n
  BY LimitsAssumption DEF as_u16

LEMMA SnapshotIndex ==
    ASSUME IndexExact, NEW v
    PROVE  snapshot(v) = IndexOf({e \in events : e.pos.ver <= v})
<1> DEFINE old == {e \in events : e.pos.ver <= v}
<1>1. ASSUME NEW k \in snapshot(v) PROVE k \in IndexOf(old)
  <2>1. PICK e \in events : k \in index_keys(e)
    BY DEF snapshot, IndexExact
  <2>2. k.pos = e.pos
    BY <2>1 DEF index_keys
  <2> QED
    BY <2>1, <2>2 DEF snapshot, IndexOf
<1>2. ASSUME NEW k \in IndexOf(old) PROVE k \in snapshot(v)
  <2>1. PICK e \in old : k \in index_keys(e)
    BY DEF IndexOf
  <2>2. k.pos = e.pos
    BY <2>1 DEF index_keys
  <2> QED
    BY <2>1, <2>2 DEF snapshot, IndexExact
<1> QED
  BY <1>1, <1>2

LEMMA LedgerStamped ==
    ASSUME Ledger, TypeOK
    PROVE  Stamped(events)
  BY DEF Ledger, TypeOK, Stamped, Before, Origin, StoredEvent, Position

(***************************************************************************)
(* The heart of the protocol: when the database accepts a commit, none of  *)
(* the events stored until then, read by the probes or not, matches a      *)
(* condition of the call after its bound.                                  *)
(***************************************************************************)
LEMMA CommitFindsNothing ==
    ASSUME Inv, NEW c \in Calls, Commit(c),
           NEW cond \in request[c].conds, NEW item \in cond.items
    PROVE  Selected(events, item, cond.after) = {}
<1> SUFFICES ASSUME NEW e \in events, Before(cond.after, e.pos), Matches(e, item)
             PROVE  FALSE
  BY DEF Selected
<1> DEFINE rv == tr[c].rv
           old == {f \in events : f.pos.ver <= rv}
<1>1. /\ cond.after \in Position /\ item \in QueryItem
      /\ e \in StoredEvent /\ old \in SUBSET StoredEvent
  BY DEF Inv, TypeOK, Condition
<1>2. Stamped(events) /\ Stamped(old)
  BY LedgerStamped DEF Inv, Stamped
<1>3. /\ ~matched(request[c].conds, snapshot(rv))
      /\ tr[c].reads = probe_ranges(request[c].conds, snapshot(rv))
      /\ ~Conflict(tr[c])
      /\ rv \in Nat /\ e.pos.ver \in Nat
  BY <1>1 DEF Inv, Transaction, Commit, TypeOK, StoredEvent, Position
<1>4. CASE e.pos.ver <= rv
  <2>1. Selected(old, item, cond.after) # {}
    BY <1>4 DEF Selected
  <2>2. query_item_exists(item, cond.after, IndexOf(old))
    BY <1>1, <1>2, <2>1, ConflictIffMatches
  <2>3. query_item_exists(item, cond.after, snapshot(rv))
    BY <2>2, SnapshotIndex DEF Inv
  <2> QED
    BY <1>3, <2>3 DEF matched
<1>5. CASE ~(e.pos.ver <= rv)
  <2>1. Before(Origin, e.pos)
    BY <1>2 DEF Stamped
  <2>2. PICK k \in index_keys(e), r \in read_conflict_ranges(item, cond.after, snapshot(rv)) :
           InRange(k, r)
    BY <1>1, <2>1, ConflictRangesCover
  <2>3. k \in index /\ k.pos = e.pos
    BY <2>2 DEF Inv, IndexExact, index_keys
  <2>4. r \in tr[c].reads
    BY <1>3, <2>2 DEF probe_ranges
  <2> QED
    BY <1>3, <1>5, <2>2, <2>3, <2>4 DEF Conflict, snapshot
<1> QED
  BY <1>4, <1>5
-----------------------------------------------------------------------------
(***************************************************************************)
(* The invariant is inductive.  First the steps that leave the database    *)
(* alone: they disturb what the invariant says of one call.                *)
(***************************************************************************)
Quiet == UNCHANGED <<version, events, index, commits, stamp>>

\* Only call c moves.
Only(c) == \A d \in Calls \ {c} :
              /\ pc'[d] = pc[d]
              /\ request'[d] = request[d]
              /\ tr'[d] = tr[d]
              /\ stamp'[d] = stamp[d]
              /\ result'[d] = result[d]

LEMMA CommitsType ==
    ASSUME TypeOK, NEW v \in DOMAIN commits
    PROVE  /\ commits[v].call \in Calls
           /\ commits[v].request \in [events : Seq(RawEvent), conds : SUBSET Condition]
<1> DEFINE C == [call : Calls, request : [events : Seq(RawEvent), conds : SUBSET Condition]]
<1>1. commits \in Seq(C)
  BY DEF TypeOK
<1> HIDE DEF C
<1>2. commits[v] \in C
  BY <1>1
<1> QED
  BY <1>2 DEF C

LEMMA QuietStep ==
    ASSUME Inv, TypeOK', NEW c \in Calls, Quiet, Only(c),
           request'[c] = request[c] \/ ~Committed(c),
           Transaction(c)', Progress(c)', Truthful(c)'
    PROVE  Inv'
<1>1. IndexExact' /\ ConditionsHeld' /\ AppliedOnce'
  BY DEF Inv, Quiet, IndexExact, ConditionsHeld, AppliedOnce
<1>2. Ledger'
  <2> SUFFICES ASSUME NEW v \in DOMAIN commits
               PROVE  commits[v].request = request'[commits[v].call]
    BY DEF Inv, Quiet, Ledger
  <2>1. commits[v].call \in Calls
    BY CommitsType DEF Inv
  <2> QED
    BY <2>1 DEF Inv, Ledger, Only, Committed
<1>3. ASSUME NEW d \in Calls \ {c}
      PROVE  Transaction(d)' /\ Progress(d)' /\ Truthful(d)'
  <2>1. Transaction(d)'
    BY DEF Inv, Quiet, Only, Transaction, snapshot
  <2>2. Progress(d)'
    BY DEF Inv, Quiet, Only, Progress, Committed
  <2>3. Truthful(d)'
    <3>1. Truthful(d)
      BY DEF Inv, TruthfulVerdict
    <3>2. /\ result'[d] = result[d] /\ request'[d] = request[d]
          /\ events' = events /\ commits' = commits
      BY DEF Quiet, Only
    <3> QED
      BY <3>1, <3>2 DEF Truthful, Committed
  <2> QED
    BY <2>1, <2>2, <2>3
<1> QED
  BY <1>1, <1>2, <1>3 DEF Inv, TruthfulVerdict

LEMMA CallInv ==
    ASSUME Inv, TypeOK', NEW c \in Calls, Call(c)
    PROVE  Inv'
<1>1. Quiet /\ Only(c) /\ tr'[c] = tr[c] /\ stamp'[c] = stamp[c]
  BY DEF Call, Quiet, Only, Inv, TypeOK
<1>2. pc[c] = "idle" /\ ~Committed(c) /\ result[c] = NoResult
  BY DEF Call, Inv, Progress, NoResult, Err
<1>3. \/ pc'[c] = "ready" /\ valid_length(request'[c].events) /\ result'[c] = result[c]
      \/ pc'[c] = "done" /\ result'[c] = Err("invalid")
  BY DEF Call, Inv, TypeOK, valid
<1>4. ~Committed(c)'
  BY <1>1, <1>2 DEF Committed, Quiet
<1>5. Transaction(c)'
  BY <1>1, <1>3 DEF Transaction, Inv, Quiet
<1>6. Progress(c)'
  BY <1>2, <1>3, <1>4 DEF Progress
<1>7. Truthful(c)'
  BY <1>2, <1>3, <1>4 DEF Truthful, NoResult, Err
<1> QED
  BY <1>1, <1>2, <1>5, <1>6, <1>7, QuietStep

LEMMA RetryInv ==
    ASSUME Inv, TypeOK', NEW c \in Calls, Retry(c), pc[c] \in {"ready", "committing"}
    PROVE  Inv'
<1>1. /\ Quiet /\ Only(c)
      /\ request'[c] = request[c] /\ result'[c] = result[c]
      /\ pc'[c] = "ready" /\ tr'[c] = FreshTr
  BY DEF Retry, Quiet, Only, Inv, TypeOK
<1>2. Transaction(c)'
  BY <1>1 DEF Transaction, FreshTr, Inv, TypeOK, Quiet
<1>3. Progress(c)'
  BY <1>1 DEF Progress, Inv, Committed, Quiet
<1>4. Truthful(c)'
  BY <1>1 DEF Truthful, Inv, Progress, NoResult, Err
<1> QED
  BY <1>1, <1>2, <1>3, <1>4, QuietStep

LEMMA GiveUpInv ==
    ASSUME Inv, TypeOK', NEW c \in Calls, GiveUp(c)
    PROVE  Inv'
<1>1. /\ Quiet /\ Only(c)
      /\ request'[c] = request[c] /\ result'[c] = Err("fdb_error")
      /\ pc'[c] = "done" /\ tr'[c] = tr[c]
  BY DEF GiveUp, Quiet, Only, Inv, TypeOK
<1>2. Transaction(c)'
  BY <1>1 DEF Transaction, Inv, Quiet
<1>3. Progress(c)'
  BY <1>1 DEF Progress
<1>4. Truthful(c)'
  BY <1>1 DEF Truthful, Err
<1> QED
  BY <1>1, <1>2, <1>3, <1>4, QuietStep

LEMMA ProbeMatchedInv ==
    ASSUME Inv, TypeOK', NEW c \in Calls, ProbeMatched(c)
    PROVE  Inv'
<1>1. /\ Quiet /\ Only(c)
      /\ request'[c] = request[c] /\ result'[c] = Err("condition_failed")
      /\ pc'[c] = "done" /\ tr'[c] = tr[c]
  BY DEF ProbeMatched, Quiet, Only, Inv, TypeOK
<1>2. Transaction(c)'
  BY <1>1 DEF Transaction, Inv, Quiet
<1>3. Progress(c)'
  BY <1>1 DEF Progress
<1>4. ~Committed(c)
  BY DEF ProbeMatched, Inv, Progress
<1>5. PICK cond \in request[c].conds : \E item \in cond.items :
          query_item_exists(item, cond.after, index)
  BY DEF ProbeMatched, matched
<1>6. PICK item \in cond.items : query_item_exists(item, cond.after, index)
  BY <1>5
<1>7. cond.after \in Position /\ item \in QueryItem /\ events \in SUBSET StoredEvent
  BY DEF Inv, TypeOK, Condition
<1>8. index = IndexOf(events) /\ Stamped(events)
  BY LedgerStamped DEF Inv, IndexExact, IndexOf
<1>9. Selected(events, item, cond.after) # {}
  BY <1>6, <1>7, <1>8, ConflictIffMatches
<1>10. Truthful(c)'
  BY <1>1, <1>4, <1>9 DEF Truthful, Err, Committed, Quiet
<1> QED
  BY <1>1, <1>2, <1>3, <1>10, QuietStep

LEMMA ProbeClearInv ==
    ASSUME Inv, TypeOK', NEW c \in Calls, ProbeClear(c)
    PROVE  Inv'
<1>1. /\ Quiet /\ Only(c)
      /\ request'[c] = request[c] /\ result'[c] = result[c]
      /\ pc'[c] = "committing"
      /\ tr'[c] = [idem |-> TRUE, rv |-> version,
                   reads |-> probe_ranges(request[c].conds, index)]
  BY DEF ProbeClear, Quiet, Only, Inv, TypeOK
<1>2. snapshot(version) = index
  <2> SUFFICES ASSUME NEW k \in index PROVE k.pos.ver <= version
    BY DEF snapshot
  <2>1. PICK e \in events : k \in index_keys(e)
    BY DEF Inv, IndexExact
  <2> QED
    BY <2>1 DEF index_keys, Inv, Ledger, TypeOK
<1>3. snapshot(version)' = index
  BY <1>1, <1>2 DEF snapshot, Quiet
<1>4. Transaction(c)'
  <2>1. version' = version /\ index' = index /\ version \in Nat
    BY <1>1 DEF Quiet, Inv, TypeOK
  <2>2. ~matched(request[c].conds, index)
    BY DEF ProbeClear
  <2> QED
    BY <1>1, <1>2, <2>1, <2>2 DEF Transaction, snapshot
<1>5. Progress(c)'
  BY <1>1 DEF Progress, Inv, ProbeClear, Committed, Quiet
<1>6. Truthful(c)'
  BY <1>1 DEF Truthful, Inv, Progress, NoResult, Err, ProbeClear
<1> QED
  BY <1>1, <1>4, <1>5, <1>6, QuietStep

LEMMA AckedInv ==
    ASSUME Inv, TypeOK', NEW c \in Calls, Acked(c), pc[c] = "applied"
    PROVE  Inv'
<1>1. /\ Quiet /\ Only(c)
      /\ request'[c] = request[c] /\ result'[c] = result[c]
      /\ pc'[c] = "acked" /\ tr'[c] = tr[c] /\ stamp'[c] = stamp[c]
  BY DEF Acked, Quiet, Only, Inv, TypeOK
<1>2. Transaction(c)'
  BY <1>1 DEF Transaction, Inv, Quiet
<1>3. Progress(c)'
  BY <1>1 DEF Progress, Inv, Quiet
<1>4. Truthful(c)'
  BY <1>1 DEF Truthful, Inv, Progress, NoResult, Err
<1> QED
  BY <1>1, <1>2, <1>3, <1>4, QuietStep

LEMMA CrashInv ==
    ASSUME Inv, TypeOK', NEW c \in Calls, Crash(c)
    PROVE  Inv'
<1>1. /\ Quiet /\ Only(c)
      /\ request'[c] = request[c] /\ result'[c] = result[c]
      /\ pc'[c] = "crashed" /\ tr'[c] = tr[c]
  BY DEF Crash, Quiet, Only, Inv, TypeOK
<1>2. Transaction(c)'
  BY <1>1 DEF Transaction, Inv, Quiet
<1>3. result[c] = NoResult
  BY DEF Crash, Inv, Progress
<1>4. Progress(c)' /\ Truthful(c)'
  BY <1>1, <1>3 DEF Progress, Truthful, NoResult, Err
<1> QED
  BY <1>1, <1>2, <1>4, QuietStep

\* The position returned is that of the last event of the batch.
LEMMA ReturnOkInv ==
    ASSUME Inv, TypeOK', NEW c \in Calls, ReturnOk(c)
    PROVE  Inv'
<1> DEFINE v == stamp[c]
           batch == request[c].events
<1>1. /\ Quiet /\ Only(c)
      /\ request'[c] = request[c] /\ tr'[c] = tr[c] /\ pc'[c] = "done"
      /\ result'[c] = [kind |-> "ok", pos |-> last_vs(c)]
  BY DEF ReturnOk, Quiet, Only, Inv, TypeOK
<1>2. v \in DOMAIN commits /\ commits[v].call = c
  BY DEF ReturnOk, Inv, Progress
<1>3. /\ {e \in events : e.pos.ver = v} = stamped(batch, v)
      /\ batch \in Seq(RawEvent) /\ Len(batch) \in 1..U16Max
      /\ v \in Nat /\ U16Max \in Nat
  <2>1. {e \in events : e.pos.ver = v} = stamped(batch, v) /\ valid_length(batch)
    BY <1>2 DEF Inv, Ledger
  <2>2. batch \in Seq(RawEvent) /\ v \in Nat /\ U16Max \in Nat
    BY LimitsAssumption DEF Inv, TypeOK
  <2>3. Len(batch) \in 1..U16Max
    BY <2>1, <2>2 DEF valid_length
  <2> QED
    BY <2>1, <2>2, <2>3
<1>4. last_vs(c) = [ver |-> v, idx |-> Len(batch) - 1]
  BY <1>3, BatchIndexFits DEF last_vs
<1>5. \E e \in events : e.pos = last_vs(c)
  <2>1. as_u16(Len(batch) - 1) = Len(batch) - 1
    BY <1>3, BatchIndexFits
  <2>2. [pos |-> [ver |-> v, idx |-> as_u16(Len(batch) - 1)],
         type |-> batch[Len(batch)].type,
         tags |-> sort_tags(batch[Len(batch)].tags)] \in stamped(batch, v)
    BY <1>3 DEF stamped
  <2> QED
    BY <1>3, <1>4, <2>1, <2>2
<1>6. ASSUME NEW e \in events, e.pos.ver = v
      PROVE  ~Before(last_vs(c), e.pos) /\ commits[e.pos.ver].call = c
  <2>1. PICK i \in DOMAIN batch : e.pos = [ver |-> v, idx |-> as_u16(i - 1)]
    BY <1>3, <1>6 DEF stamped
  <2>2. i \in 1..Len(batch)
    BY <1>3, <2>1
  <2>3. e.pos.idx = i - 1
    BY <1>3, <2>1, <2>2, BatchIndexFits
  <2> QED
    BY <1>2, <1>3, <1>4, <1>6, <2>1, <2>2, <2>3 DEF Before
<1>7. Transaction(c)'
  BY <1>1 DEF Transaction, Inv, Quiet
<1>8. Progress(c)'
  BY <1>1 DEF Progress
<1>9. Truthful(c)'
  <2>1. result'[c].kind = "ok" /\ result'[c].pos = last_vs(c) /\ last_vs(c).ver = v
    BY <1>1, <1>4
  <2>2. Committed(c)'
    BY <1>1, <1>2 DEF Committed, Quiet
  <2> QED
    BY <1>1, <1>5, <1>6, <2>1, <2>2 DEF Truthful, Quiet
<1> QED
  BY <1>1, <1>7, <1>8, <1>9, QuietStep
(***************************************************************************)
(* The step that writes.                                                   *)
(***************************************************************************)
LEMMA CommitInv ==
    ASSUME Inv, TypeOK', NEW c \in Calls, Commit(c)
    PROVE  Inv'
<1> DEFINE v   == version + 1
           new == stamped(request[c].events, v)
<1>1. /\ events' = events \union new
      /\ index' = index \union UNION {index_keys(e) : e \in new}
      /\ version' = v /\ version \in Nat
      /\ commits' = Append(commits, [call |-> c, request |-> request[c]])
      /\ request' = request /\ result' = result /\ tr' = tr
      /\ pc' = [pc EXCEPT ![c] = "applied"]
      /\ stamp' = [stamp EXCEPT ![c] = v]
  BY DEF Commit, Inv, TypeOK
<1>2. /\ DOMAIN commits' = 1..v /\ DOMAIN commits = 1..version
      /\ commits'[v] = [call |-> c, request |-> request[c]]
      /\ \A u \in 1..version : commits'[u] = commits[u]
  BY <1>1 DEF Inv, Ledger, TypeOK
<1>3. \A e \in new : e.pos.ver = v
  BY DEF stamped
<1>4. \A e \in events : e.pos.ver \in 1..version
  BY DEF Inv, Ledger
<1>5. /\ pc[c] = "committing" /\ ~Committed(c) /\ valid_length(request[c].events)
      /\ result[c] = NoResult /\ tr[c].idem
  BY DEF Commit, Inv, Progress, Transaction
<1>6. IndexExact'
  BY <1>1 DEF Inv, IndexExact
<1>7. Ledger'
  <2>1. version' = Len(commits')
    BY <1>1 DEF Inv, Ledger, TypeOK
  <2>2. \A e \in events' : e.pos.ver \in 1..version'
    BY <1>1, <1>3, <1>4
  <2>3. ASSUME NEW u \in 1..version
        PROVE  /\ commits'[u].request = request'[commits'[u].call]
               /\ valid_length(commits'[u].request.events)
               /\ {e \in events' : e.pos.ver = u} = stamped(commits'[u].request.events, u)
    <3>1. {e \in events' : e.pos.ver = u} = {e \in events : e.pos.ver = u}
      BY <1>1, <1>3
    <3> QED
      BY <1>1, <1>2, <3>1 DEF Inv, Ledger
  <2>4. /\ commits'[v].request = request'[commits'[v].call]
        /\ valid_length(commits'[v].request.events)
    BY <1>1, <1>2, <1>5
  <2>5. {e \in events' : e.pos.ver = v} = stamped(commits'[v].request.events, v)
    <3>1. {e \in events' : e.pos.ver = v} = new
      BY <1>1, <1>3, <1>4
    <3> QED
      BY <1>2, <3>1
  <2>6. \A u \in DOMAIN commits' : u \in 1..version \/ u = v
    BY <1>1, <1>2
  <2> QED
    BY <2>1, <2>2, <2>3, <2>4, <2>5, <2>6 DEF Ledger
<1>8. ConditionsHeld'
  <2> SUFFICES ASSUME NEW u \in DOMAIN commits',
                      NEW cond \in commits'[u].request.conds, NEW item \in cond.items,
                      NEW e \in events', Before(cond.after, e.pos), Matches(e, item),
                      ~(e.pos.ver >= u)
               PROVE  FALSE
    BY DEF ConditionsHeld, Selected
  <2>1. e \in events
    BY <1>1, <1>2, <1>3
  <2>2. CASE u = v
    <3>1. cond \in request[c].conds
      BY <1>2, <2>2
    <3> QED
      BY <2>1, <3>1, CommitFindsNothing DEF Selected
  <2>3. CASE u \in 1..version
    BY <1>2, <2>1, <2>3 DEF Inv, ConditionsHeld, Selected
  <2> QED
    BY <1>1, <1>2, <2>2, <2>3
<1>9. \A u \in 1..version : commits[u].call # c
  BY <1>2, <1>5 DEF Committed
<1>10. AppliedOnce'
  BY <1>1, <1>2, <1>9 DEF Inv, AppliedOnce
<1>11. \A d \in Calls \ {c} : Committed(d)' <=> Committed(d)
  BY <1>1, <1>2 DEF Committed
<1>12. ASSUME NEW d \in Calls
       PROVE  snapshot(tr[d].rv)' = snapshot(tr[d].rv) /\ tr[d].rv <= version
  <2>1. tr[d].rv <= version /\ tr[d].rv \in Nat
    BY DEF Inv, Transaction, TypeOK
  <2>2. ASSUME NEW k \in UNION {index_keys(e) : e \in new}
        PROVE  k.pos.ver = v
    BY <1>3 DEF index_keys
  <2>3. \A k \in index' : k.pos.ver <= tr[d].rv => k \in index
    BY <1>1, <2>1, <2>2
  <2> QED
    BY <1>1, <2>1, <2>3 DEF snapshot
<1>13. ASSUME NEW d \in Calls \ {c}
       PROVE  Transaction(d)' /\ Progress(d)' /\ Truthful(d)'
  <2>1. pc'[d] = pc[d] /\ stamp'[d] = stamp[d]
    BY <1>1 DEF Inv, TypeOK
  <2>2. Transaction(d)'
    <3>1. tr'[d].rv <= version'
      BY <1>1, <1>12 DEF Inv, TypeOK
    <3> QED
      BY <1>1, <1>12, <2>1, <3>1 DEF Inv, Transaction, snapshot
  <2>3. Progress(d)'
    BY <1>1, <1>2, <1>11, <2>1 DEF Inv, Progress
  <2>4. Truthful(d)'
    <3>1. ASSUME result[d].kind = "ok"
          PROVE  /\ Committed(d)'
                 /\ \E e \in events' : e.pos = result[d].pos
                 /\ \A e \in events' : e.pos.ver = result[d].pos.ver =>
                        /\ ~Before(result[d].pos, e.pos)
                        /\ commits'[e.pos.ver].call = d
      <4>1. PICK f \in events : f.pos = result[d].pos
        BY <3>1 DEF Inv, TruthfulVerdict, Truthful
      <4>2. result[d].pos.ver \in 1..version
        BY <1>4, <4>1
      <4>3. \A e \in events' : e.pos.ver = result[d].pos.ver => e \in events
        BY <1>1, <1>3, <4>2
      <4> QED
        BY <1>1, <1>2, <1>4, <1>11, <3>1, <4>1, <4>3
           DEF Inv, TruthfulVerdict, Truthful
    <3>2. ASSUME result[d].kind = "condition_failed"
          PROVE  \E cond \in request[d].conds : \E item \in cond.items :
                     Selected(events', item, cond.after) # {}
      <4>1. PICK cond \in request[d].conds : \E item \in cond.items :
                     Selected(events, item, cond.after) # {}
        BY <3>2 DEF Inv, TruthfulVerdict, Truthful
      <4>2. PICK item \in cond.items : Selected(events, item, cond.after) # {}
        BY <4>1
      <4>3. Selected(events', item, cond.after) # {}
        BY <1>1, <4>2 DEF Selected
      <4> QED
        BY <4>3
    <3> QED
      BY <1>1, <1>11, <3>1, <3>2 DEF Inv, TruthfulVerdict, Truthful, Selected
  <2> QED
    BY <2>2, <2>3, <2>4
<1>14. pc'[c] = "applied" /\ stamp'[c] = v
  BY <1>1 DEF Inv, TypeOK
<1>15. Transaction(c)'
  <2>1. tr'[c].rv <= version'
    BY <1>1, <1>12 DEF Inv, TypeOK
  <2> QED
    BY <1>1, <1>5, <1>14, <2>1 DEF Transaction
<1>16. Progress(c)'
  BY <1>1, <1>2, <1>5, <1>14 DEF Progress
<1>17. Truthful(c)'
  BY <1>1, <1>5 DEF Truthful, NoResult, Err
<1> QED
  BY <1>6, <1>7, <1>8, <1>10, <1>13, <1>15, <1>16, <1>17 DEF Inv, TruthfulVerdict
LEMMA OnErrorInv ==
    ASSUME Inv, TypeOK', NEW c \in Calls, on_error(c), pc[c] \in {"ready", "committing"}
    PROVE  Inv'
  BY RetryInv, GiveUpInv DEF on_error

LEMMA InitInv == Init => Inv
<1> SUFFICES ASSUME Init PROVE Inv
  OBVIOUS
<1>1. TypeOK
  BY InitTypeOK
<1>2. IndexExact
  BY DEF Init, IndexExact
<1>3. DOMAIN commits = {} /\ Len(commits) = 0
  BY DEF Init
<1>4. Ledger /\ ConditionsHeld /\ AppliedOnce
  BY <1>3 DEF Init, Ledger, ConditionsHeld, AppliedOnce
<1>5. ASSUME NEW c \in Calls
      PROVE  Transaction(c) /\ Progress(c) /\ Truthful(c)
  BY <1>3 DEF Init, Transaction, Progress, Truthful, Committed, FreshTr, NoResult, Err
<1> QED
  BY <1>1, <1>2, <1>4, <1>5 DEF Inv, TruthfulVerdict

LEMMA NextInv ==
    ASSUME Inv, [Next]_vars
    PROVE  Inv'
<1>1. TypeOK'
  BY StepTypeOK DEF Inv
<1>2. ASSUME NEW c \in Calls, Step(c)
      PROVE  Inv'
  <2>1. CASE ProbeError(c)
    BY <1>1, <2>1, OnErrorInv DEF ProbeError
  <2>2. CASE ProbeMatched(c)
    BY <1>1, <2>2, ProbeMatchedInv
  <2>3. CASE ProbeClear(c)
    BY <1>1, <2>3, ProbeClearInv
  <2>4. CASE Commit(c)
    BY <1>1, <2>4, CommitInv
  <2>5. CASE CommitRejected(c)
    BY <1>1, <2>5, OnErrorInv DEF CommitRejected
  <2>6. CASE CommitOk(c)
    BY <1>1, <2>6, AckedInv DEF CommitOk
  <2>7. CASE CommitUnknown(c)
    \* The idempotency id is what rules out a retry of an applied commit.
    <3>1. pc[c] = "applied" => tr[c].idem
      BY DEF Inv, Transaction
    <3> QED
      BY <1>1, <2>7, <3>1, AckedInv, OnErrorInv DEF CommitUnknown
  <2>8. CASE ReturnOk(c)
    BY <1>1, <2>8, ReturnOkInv
  <2>9. CASE StampError(c)
    BY <1>1, <2>9, GiveUpInv DEF StampError
  <2> QED
    BY <1>2, <2>1, <2>2, <2>3, <2>4, <2>5, <2>6, <2>7, <2>8, <2>9 DEF Step
<1>3. ASSUME NEW c \in Calls, Call(c)
      PROVE  Inv'
  BY <1>1, <1>3, CallInv
<1>4. ASSUME NEW c \in Calls, Crash(c)
      PROVE  Inv'
  BY <1>1, <1>4, CrashInv
<1>5. CASE UNCHANGED vars
  <2>1. IndexExact' /\ Ledger' /\ ConditionsHeld' /\ AppliedOnce'
    BY <1>5 DEF Inv, vars, IndexExact, Ledger, ConditionsHeld, AppliedOnce
  <2>2. ASSUME NEW c \in Calls
        PROVE  Transaction(c)' /\ Progress(c)' /\ Truthful(c)'
    <3>1. Transaction(c)'
      BY <1>5 DEF Inv, vars, Transaction, snapshot
    <3>2. Progress(c)'
      BY <1>5 DEF Inv, vars, Progress, Committed
    <3>3. Truthful(c)'
      BY <1>5 DEF Inv, vars, TruthfulVerdict, Truthful, Committed
    <3> QED
      BY <3>1, <3>2, <3>3
  <2> QED
    BY <1>1, <2>1, <2>2 DEF Inv, TruthfulVerdict
<1> QED
  BY <1>2, <1>3, <1>4, <1>5 DEF Next, AllReturned

\* The inductive invariant holds of every reachable state.
THEOREM Invariant == Spec => []Inv
<1>1. Init => Inv
  BY InitInv
<1>2. Inv /\ [Next]_vars => Inv'
  BY NextInv
<1> QED
  BY <1>1, <1>2, PTL DEF Spec

\* The guarantee of append: a committed batch found no event, stored by an
\* earlier commit, that one of its conditions excludes, for any number of
\* concurrent calls, any interleaving and any outcome of their commits.
THEOREM ConditionsAlwaysHeld == Spec => []ConditionsHeld
<1>1. Inv => ConditionsHeld
  BY DEF Inv
<1> QED
  BY <1>1, Invariant, PTL

\* No retry applies a batch twice.
THEOREM NoDoubleApply == Spec => []AppliedOnce
<1>1. Inv => AppliedOnce
  BY DEF Inv
<1> QED
  BY <1>1, Invariant, PTL

\* The verdict of every call that has returned agrees with the store.
THEOREM VerdictsTruthful == Spec => []TruthfulVerdict
<1>1. Inv => TruthfulVerdict
  BY DEF Inv
<1> QED
  BY <1>1, Invariant, PTL
(***************************************************************************)
(* Counting the events of a batch.                                         *)
(***************************************************************************)
\* The i-th event of a batch, as stored by a commit of version v.
EventAt(batch, v, i) == [pos  |-> [ver |-> v, idx |-> i - 1],
                         type |-> batch[i].type,
                         tags |-> Range(batch[i].tags)]

\* The first n events of a batch are n events: their batch indexes differ.
LEMMA CountFirst ==
    ASSUME NEW batch, NEW v, NEW n \in Nat
    PROVE  Cardinality({EventAt(batch, v, i) : i \in 1..n}) = n
<1> DEFINE S == {EventAt(batch, v, i) : i \in 1..n}
           f == [i \in 1..n |-> EventAt(batch, v, i)]
<1>1. f \in [1..n -> S]
  OBVIOUS
<1>2. ASSUME NEW i \in 1..n, NEW j \in 1..n, f[i] = f[j]
      PROVE  i = j
  <2>1. EventAt(batch, v, i).pos.idx = EventAt(batch, v, j).pos.idx
    BY <1>2
  <2>2. i - 1 = j - 1
    BY <2>1 DEF EventAt
  <2> QED
    BY <2>2
<1>3. IsInjective(f)
  BY <1>2 DEF IsInjective
<1>4. \A t \in S : \E i \in 1..n : f[i] = t
  OBVIOUS
<1>5. f \in Bijection(1..n, S)
  BY <1>1, <1>3, <1>4 DEF Bijection, Injection, Surjection
<1> HIDE DEF f, S
<1>6. ExistsBijection(1..n, S)
  BY <1>5 DEF ExistsBijection
<1>7. Cardinality(S) = n
  BY <1>6, FS_CountingElements
<1> QED
  BY <1>7 DEF S

\* A stored batch that is not too long has as many events as the request,
\* and its n-th event by position is the n-th of the request.
LEMMA StampedInOrder ==
    ASSUME NEW batch \in Seq(RawEvent), valid_length(batch), NEW v \in Nat
    PROVE  LET stored == stamped(batch, v)
           IN  /\ Cardinality(stored) = Len(batch)
               /\ \A e \in stored :
                     LET i == Cardinality({f \in stored : ~Before(e.pos, f.pos)})
                     IN  e.type = batch[i].type /\ e.tags = Range(batch[i].tags)
<1> DEFINE stored == stamped(batch, v)
<1>1. Len(batch) \in Nat /\ DOMAIN batch = 1..Len(batch) /\ Len(batch) <= U16Max
  BY DEF valid_length
<1>2. ASSUME NEW i \in DOMAIN batch
      PROVE  as_u16(i - 1) = i - 1
  BY <1>1, BatchIndexFits, LimitsAssumption
<1>3. stored = {EventAt(batch, v, i) : i \in 1..Len(batch)}
  BY <1>1, <1>2 DEF stamped, sort_tags, EventAt
<1>4. Cardinality(stored) = Len(batch)
  <2>1. Cardinality({EventAt(batch, v, i) : i \in 1..Len(batch)}) = Len(batch)
    BY SMTT(30), <1>1, CountFirst
  <2> HIDE DEF stored
  <2> QED
    BY <1>3, <2>1
<1>5. ASSUME NEW e \in stored
      PROVE  LET i == Cardinality({f \in stored : ~Before(e.pos, f.pos)})
             IN  e.type = batch[i].type /\ e.tags = Range(batch[i].tags)
  <2>1. PICK n \in 1..Len(batch) : e = EventAt(batch, v, n)
    BY <1>3
  <2>2. ASSUME NEW m \in 1..Len(batch)
        PROVE  ~Before(e.pos, EventAt(batch, v, m).pos) <=> m <= n
    BY <2>1, <1>1 DEF EventAt, Before
  <2>3. {f \in stored : ~Before(e.pos, f.pos)} = {EventAt(batch, v, m) : m \in 1..n}
    BY <1>1, <1>3, <2>2
  <2>4. Cardinality({f \in stored : ~Before(e.pos, f.pos)}) = n
    BY <2>3, CountFirst
  <2> QED
    BY <2>1, <2>4 DEF EventAt
<1> QED
  BY <1>4, <1>5

\* Every committed batch is stored whole and in its own order, however long
\* it is as long as append takes it: no batch index wraps.
THEOREM BatchesInOrder == Spec => []BatchInOrder
<1>1. Inv => BatchInOrder
  <2> SUFFICES ASSUME Inv, NEW v \in DOMAIN commits
               PROVE  LET stored == {e \in events : e.pos.ver = v}
                          batch  == commits[v].request.events
                      IN  /\ Cardinality(stored) = Len(batch)
                          /\ \A e \in stored :
                                LET i == Cardinality({f \in stored : ~Before(e.pos, f.pos)})
                                IN  e.type = batch[i].type /\ e.tags = Range(batch[i].tags)
    BY DEF BatchInOrder
  <2>1. commits[v].request.events \in Seq(RawEvent)
    BY CommitsType DEF Inv
  <2>2. v \in Nat
    BY DEF Inv, TypeOK
  <2>3. /\ valid_length(commits[v].request.events)
        /\ {e \in events : e.pos.ver = v} = stamped(commits[v].request.events, v)
    BY DEF Inv, Ledger
  <2> DEFINE batch == commits[v].request.events
  <2>4. LET stored == stamped(batch, v)
        IN  /\ Cardinality(stored) = Len(batch)
            /\ \A e \in stored :
                  LET i == Cardinality({f \in stored : ~Before(e.pos, f.pos)})
                  IN  e.type = batch[i].type /\ e.tags = Range(batch[i].tags)
    <3> HIDE DEF batch
    <3>1. batch \in Seq(RawEvent) /\ valid_length(batch)
      BY <2>1, <2>3 DEF batch
    <3> QED
      BY <2>2, <3>1, StampedInOrder
  <2> QED
    BY <2>3, <2>4
<1> QED
  BY <1>1, Invariant, PTL
-----------------------------------------------------------------------------
(***************************************************************************)
(* The transactional protocol implements the atomic store.                 *)
(***************************************************************************)
Phases == [c \in Calls |-> CallerPhase(c)]

\* The batches of DCBStore and of DCBAppend are the same when they fit.
LEMMA BatchesAgree ==
    ASSUME NEW req \in [events : Seq(RawEvent), conds : SUBSET Condition],
           valid_length(req.events), NEW v \in Nat
    PROVE  stamped(req.events, v) = Store!Batch(req, v)
<1>1. DOMAIN req.events = 1..Len(req.events) /\ Len(req.events) \in Nat
  OBVIOUS
<1>2. ASSUME NEW i \in DOMAIN req.events
      PROVE  as_u16(i - 1) = i - 1
  BY <1>1, BatchIndexFits, LimitsAssumption DEF valid_length
<1> QED
  BY <1>2 DEF stamped, sort_tags, Range, Store!Batch, Store!Range

\* A condition the probes find matched is violated, and the other way round.
LEMMA MatchedIffViolated ==
    ASSUME Inv, NEW c \in Calls
    PROVE  matched(request[c].conds, index) <=> Store!Violated(request[c])
<1>1. index = IndexOf(events) /\ Stamped(events) /\ events \in SUBSET StoredEvent
  BY LedgerStamped DEF Inv, IndexExact, IndexOf, TypeOK
<1>2. ASSUME NEW cond \in request[c].conds, NEW item \in cond.items
      PROVE  query_item_exists(item, cond.after, index)
               <=> Selected(events, item, cond.after) # {}
  <2>1. cond.after \in Position /\ item \in QueryItem
    BY DEF Inv, TypeOK, Condition
  <2> QED
    BY <1>1, <2>1, ConflictIffMatches
<1>3. \A item, after : Store!Selected(events, item, after) = Selected(events, item, after)
  BY DEF Selected, Store!Selected, Before, Store!Before, Matches, Store!Matches
<1> QED
  BY <1>2, <1>3 DEF matched, Store!Violated

LEMMA StoreInitMaps == Init => Store!StoreInit
<1> SUFFICES ASSUME Init PROVE Store!StoreInit
  OBVIOUS
<1>1. \A c \in Calls : CallerPhase(c) = "idle" /\ result[c].pos = Origin
  BY DEF Init, CallerPhase, NoResult, Err
<1> QED
  BY <1>1 DEF Init, Store!StoreInit, NoRequest, Store!NoRequest, Origin, Store!Origin

\* What a step of call c does to the phases.
LEMMA PhaseChange ==
    ASSUME TypeOK, TypeOK', NEW c \in Calls,
           \A d \in Calls \ {c} : pc'[d] = pc[d] /\ result'[d] = result[d]
    PROVE  /\ Phases' = [Phases EXCEPT ![c] = CallerPhase(c)']
           /\ \A d \in Calls \ {c} : result'[d].pos = result[d].pos
<1>1. \A d \in Calls \ {c} : CallerPhase(d)' = CallerPhase(d)
  BY DEF CallerPhase
<1> QED
  BY <1>1 DEF Phases
\* A step that moves nothing but a call, from a pending or written phase to
\* the failed one, is a Fail; a step that leaves its phase is a stutter.
LEMMA QuietMaps ==
    ASSUME TypeOK, TypeOK', NEW c \in Calls, Quiet, Only(c),
           request' = request, result'[c].pos = result[c].pos,
           \/ CallerPhase(c)' = CallerPhase(c)
           \/ CallerPhase(c) \in {"pending", "written"} /\ CallerPhase(c)' = "failed"
    PROVE  [Store!StoreNext]_(Store!storeVars)
<1>1. /\ Phases' = [Phases EXCEPT ![c] = CallerPhase(c)']
      /\ \A d \in Calls : result'[d].pos = result[d].pos
  BY PhaseChange DEF Only
<1>2. [d \in Calls |-> result[d].pos]' = [d \in Calls |-> result[d].pos]
  BY <1>1
<1>3. CASE CallerPhase(c)' = CallerPhase(c)
  <2>1. Phases' = Phases
    BY <1>1, <1>3 DEF Phases
  <2> QED
    BY <1>2, <2>1 DEF Store!storeVars, Quiet, Phases
<1>4. CASE CallerPhase(c) \in {"pending", "written"} /\ CallerPhase(c)' = "failed"
  <2>1. Store!Fail(c)
    BY <1>1, <1>2, <1>4 DEF Store!Fail, Quiet, Phases
  <2> QED
    BY <2>1 DEF Store!StoreNext
<1> QED
  BY <1>3, <1>4

LEMMA GiveUpMaps ==
    ASSUME Inv, TypeOK', NEW c \in Calls, GiveUp(c),
           pc[c] \in {"ready", "committing", "acked"}
    PROVE  [Store!StoreNext]_(Store!storeVars)
<1>1. TypeOK
  BY DEF Inv
<1>2. Quiet /\ Only(c) /\ request' = request
  BY <1>1 DEF GiveUp, Quiet, Only, TypeOK
<1>3. pc'[c] = "done" /\ result'[c] = Err("fdb_error")
  BY <1>1 DEF GiveUp, TypeOK
<1>4. CallerPhase(c) \in {"pending", "written"}
  BY DEF CallerPhase
<1>5. CallerPhase(c)' = "failed"
  BY <1>3 DEF CallerPhase, Err
<1>6. result[c].pos = Origin
  BY DEF Inv, Progress, NoResult, Err
<1> QED
  BY <1>1, <1>2, <1>3, <1>4, <1>5, <1>6, QuietMaps DEF Err
LEMMA RetryMaps ==
    ASSUME Inv, TypeOK', NEW c \in Calls, Retry(c), pc[c] \in {"ready", "committing"}
    PROVE  [Store!StoreNext]_(Store!storeVars)
<1>1. TypeOK
  BY DEF Inv
<1>2. Quiet /\ Only(c) /\ request' = request /\ result' = result /\ pc'[c] = "ready"
  BY <1>1 DEF Retry, Quiet, Only, TypeOK
<1>3. CallerPhase(c)' = CallerPhase(c)
  BY <1>2 DEF CallerPhase
<1> QED
  BY <1>1, <1>2, <1>3, QuietMaps

LEMMA OnErrorMaps ==
    ASSUME Inv, TypeOK', NEW c \in Calls, on_error(c), pc[c] \in {"ready", "committing"}
    PROVE  [Store!StoreNext]_(Store!storeVars)
  BY RetryMaps, GiveUpMaps DEF on_error

LEMMA CallMaps ==
    ASSUME Inv, TypeOK', NEW c \in Calls, Call(c)
    PROVE  [Store!StoreNext]_(Store!storeVars)
<1>1. TypeOK /\ Quiet /\ Only(c)
  BY DEF Call, Quiet, Only, Inv, TypeOK
<1>2. \/ pc'[c] = "ready" /\ result'[c] = result[c]
      \/ pc'[c] = "done" /\ result'[c] = Err("invalid")
  BY DEF Call, Inv, TypeOK
<1>3. CallerPhase(c) = "idle" /\ CallerPhase(c)' \in {"pending", "failed"}
  BY <1>2 DEF Call, CallerPhase, Err
<1>4. Phases' = [Phases EXCEPT ![c] = CallerPhase(c)']
  BY <1>1, PhaseChange DEF Only
<1>5. \A d \in Calls : result'[d].pos = result[d].pos
  BY <1>1, <1>2 DEF Only, Inv, Progress, Call, NoResult, Err
<1>6. [d \in Calls |-> result[d].pos]' = [d \in Calls |-> result[d].pos]
  BY <1>5
<1>7. request' = [request EXCEPT ![c] = request'[c]]
  BY DEF Call, Inv, TypeOK
<1>8. Store!Ask(c)
  BY <1>1, <1>3, <1>4, <1>6, <1>7 DEF Store!Ask, Quiet, Phases
<1> QED
  BY <1>8 DEF Store!StoreNext

LEMMA ProbeMatchedMaps ==
    ASSUME Inv, TypeOK', NEW c \in Calls, ProbeMatched(c)
    PROVE  [Store!StoreNext]_(Store!storeVars)
<1>1. /\ TypeOK /\ Quiet /\ Only(c) /\ request' = request
      /\ pc'[c] = "done" /\ result'[c] = Err("condition_failed")
  BY DEF ProbeMatched, Quiet, Only, Inv, TypeOK
<1>2. CallerPhase(c) = "pending" /\ CallerPhase(c)' = "refused"
  BY <1>1 DEF ProbeMatched, CallerPhase, Err
<1>3. Phases' = [Phases EXCEPT ![c] = CallerPhase(c)']
  BY <1>1, PhaseChange DEF Only
<1>4. \A d \in Calls : result'[d].pos = result[d].pos
  BY <1>1 DEF Only, Inv, Progress, ProbeMatched, NoResult, Err
<1>5. [d \in Calls |-> result[d].pos]' = [d \in Calls |-> result[d].pos]
  BY <1>4
<1>6. Store!Violated(request[c])
  BY MatchedIffViolated DEF ProbeMatched
<1>7. Store!Refuse(c)
  BY <1>1, <1>2, <1>3, <1>5, <1>6 DEF Store!Refuse, Quiet, Phases
<1> QED
  BY <1>7 DEF Store!StoreNext

LEMMA ProbeClearMaps ==
    ASSUME Inv, TypeOK', NEW c \in Calls, ProbeClear(c)
    PROVE  [Store!StoreNext]_(Store!storeVars)
<1>1. TypeOK /\ Quiet /\ Only(c) /\ request' = request /\ result' = result
  BY DEF ProbeClear, Quiet, Only, Inv, TypeOK
<1>2. CallerPhase(c)' = CallerPhase(c)
  BY DEF ProbeClear, CallerPhase, Inv, TypeOK
<1> QED
  BY <1>1, <1>2, QuietMaps DEF Inv

LEMMA AckedMaps ==
    ASSUME Inv, TypeOK', NEW c \in Calls, Acked(c), pc[c] = "applied"
    PROVE  [Store!StoreNext]_(Store!storeVars)
<1>1. TypeOK /\ Quiet /\ Only(c) /\ request' = request /\ result' = result
  BY DEF Acked, Quiet, Only, Inv, TypeOK
<1>2. CallerPhase(c)' = CallerPhase(c)
  BY DEF Acked, CallerPhase, Inv, TypeOK
<1> QED
  BY <1>1, <1>2, QuietMaps DEF Inv

LEMMA CrashMaps ==
    ASSUME Inv, TypeOK', NEW c \in Calls, Crash(c)
    PROVE  [Store!StoreNext]_(Store!storeVars)
<1>1. TypeOK /\ Quiet /\ Only(c) /\ request' = request /\ result' = result
  BY DEF Crash, Quiet, Only, Inv, TypeOK
<1>2. CallerPhase(c) \in {"pending", "written"} /\ CallerPhase(c)' = "failed"
  BY DEF Crash, CallerPhase, Inv, TypeOK
<1> QED
  BY <1>1, <1>2, QuietMaps DEF Inv

\* The commit is the atomic step of the call.
LEMMA CommitMaps ==
    ASSUME Inv, TypeOK', NEW c \in Calls, Commit(c)
    PROVE  [Store!StoreNext]_(Store!storeVars)
<1>1. /\ TypeOK /\ request' = request /\ result' = result
      /\ pc' = [pc EXCEPT ![c] = "applied"]
      /\ version' = version + 1 /\ version \in Nat
      /\ stamp' = [stamp EXCEPT ![c] = version + 1]
      /\ events' = events \union stamped(request[c].events, version + 1)
  BY DEF Commit, Inv, TypeOK
<1>2. CallerPhase(c) = "pending" /\ CallerPhase(c)' = "written"
  BY <1>1 DEF Commit, CallerPhase, TypeOK
<1>3. \A d \in Calls \ {c} : pc'[d] = pc[d] /\ result'[d] = result[d]
  BY <1>1 DEF TypeOK
<1>4. Phases' = [Phases EXCEPT ![c] = CallerPhase(c)']
  BY <1>1, <1>3, PhaseChange
<1>5. ~Store!Violated(request[c])
  <2>1. \A cond \in request[c].conds : \A item \in cond.items :
           Selected(events, item, cond.after) = {}
    BY CommitFindsNothing
  <2>2. \A item, after : Store!Selected(events, item, after) = Selected(events, item, after)
    BY DEF Selected, Store!Selected, Before, Store!Before, Matches, Store!Matches
  <2> QED
    BY <2>1, <2>2 DEF Store!Violated
<1>6. stamped(request[c].events, version + 1) = Store!Batch(request[c], version')
  <2>1. valid_length(request[c].events)
    BY DEF Inv, Progress, Commit
  <2>2. request[c] \in [events : Seq(RawEvent), conds : SUBSET Condition] /\ version + 1 \in Nat
    BY <1>1 DEF TypeOK
  <2> QED
    BY <1>1, <2>1, <2>2, BatchesAgree
<1>7. [d \in Calls |-> result[d].pos]' = [d \in Calls |-> result[d].pos]
  BY <1>1
<1>8. Store!Write(c)
  BY <1>1, <1>2, <1>4, <1>5, <1>6, <1>7 DEF Store!Write, Phases
<1> QED
  BY <1>8 DEF Store!StoreNext

LEMMA ReturnOkMaps ==
    ASSUME Inv, TypeOK', NEW c \in Calls, ReturnOk(c)
    PROVE  [Store!StoreNext]_(Store!storeVars)
<1> DEFINE batch == request[c].events
<1>1. /\ TypeOK /\ Quiet /\ Only(c) /\ request' = request /\ pc'[c] = "done"
      /\ result'[c] = [kind |-> "ok", pos |-> last_vs(c)]
  BY DEF ReturnOk, Quiet, Only, Inv, TypeOK
<1>2. CallerPhase(c) = "written" /\ CallerPhase(c)' = "ok"
  BY <1>1 DEF ReturnOk, CallerPhase
<1>3. /\ Phases' = [Phases EXCEPT ![c] = CallerPhase(c)']
      /\ \A d \in Calls \ {c} : result'[d].pos = result[d].pos
  BY <1>1, PhaseChange DEF Only
<1>4. valid_length(batch)
  BY DEF ReturnOk, Inv, Progress, Ledger
<1>5. request[c] \in [events : Seq(RawEvent), conds : SUBSET Condition]
  BY <1>1 DEF TypeOK
<1>6. Len(batch) \in 1..U16Max /\ Len(batch) \in DOMAIN batch /\ U16Max \in Nat
  BY <1>4, <1>5, LimitsAssumption DEF valid_length
<1>7. last_vs(c) = [ver |-> stamp[c], idx |-> Len(batch) - 1]
  BY <1>6, BatchIndexFits DEF last_vs
<1>8. [d \in Calls |-> result[d].pos]'
         = [[d \in Calls |-> result[d].pos] EXCEPT ![c] = last_vs(c)]
  <2>1. result'[c].pos = last_vs(c)
    BY <1>1
  <2> QED
    BY <1>3, <2>1
<1>9. Store!Succeed(c)
  BY <1>1, <1>2, <1>3, <1>7, <1>8 DEF Store!Succeed, Quiet, Phases
<1> QED
  BY <1>9 DEF Store!StoreNext

LEMMA NextMaps ==
    ASSUME Inv, Inv', [Next]_vars
    PROVE  [Store!StoreNext]_(Store!storeVars)
<1>1. TypeOK'
  BY DEF Inv
<1>2. ASSUME NEW c \in Calls, Step(c)
      PROVE  [Store!StoreNext]_(Store!storeVars)
  <2>1. CASE ProbeError(c)
    BY <1>1, <2>1, OnErrorMaps DEF ProbeError
  <2>2. CASE ProbeMatched(c)
    BY <1>1, <2>2, ProbeMatchedMaps
  <2>3. CASE ProbeClear(c)
    BY <1>1, <2>3, ProbeClearMaps
  <2>4. CASE Commit(c)
    BY <1>1, <2>4, CommitMaps
  <2>5. CASE CommitRejected(c)
    BY <1>1, <2>5, OnErrorMaps DEF CommitRejected
  <2>6. CASE CommitOk(c)
    BY <1>1, <2>6, AckedMaps DEF CommitOk
  <2>7. CASE CommitUnknown(c)
    <3>1. pc[c] = "applied" => tr[c].idem
      BY DEF Inv, Transaction
    <3> QED
      BY <1>1, <2>7, <3>1, AckedMaps, OnErrorMaps DEF CommitUnknown
  <2>8. CASE ReturnOk(c)
    BY <1>1, <2>8, ReturnOkMaps
  <2>9. CASE StampError(c)
    BY <1>1, <2>9, GiveUpMaps DEF StampError
  <2> QED
    BY <1>2, <2>1, <2>2, <2>3, <2>4, <2>5, <2>6, <2>7, <2>8, <2>9 DEF Step
<1>3. ASSUME NEW c \in Calls, Call(c)
      PROVE  [Store!StoreNext]_(Store!storeVars)
  BY <1>1, <1>3, CallMaps
<1>4. ASSUME NEW c \in Calls, Crash(c)
      PROVE  [Store!StoreNext]_(Store!storeVars)
  BY <1>1, <1>4, CrashMaps
<1>5. CASE UNCHANGED vars
  BY <1>5 DEF vars, Store!storeVars, CallerPhase
<1> QED
  BY <1>2, <1>3, <1>4, <1>5 DEF Next, AllReturned

\* append implements the atomic conditional append: initial states map to
\* initial states and every step maps to a step of DCBStore or a stutter.
THEOREM AppendImplementsStore == Spec => ImplementsStore
<1>1. Init => Store!StoreInit
  BY StoreInitMaps
<1>2. Inv /\ Inv' /\ [Next]_vars => [Store!StoreNext]_(Store!storeVars)
  BY NextMaps
<1> QED
  BY <1>1, <1>2, Invariant, PTL DEF Spec, ImplementsStore, Store!StoreSpec
=============================================================================
