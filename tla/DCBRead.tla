------------------------------- MODULE DCBRead -------------------------------
(***************************************************************************)
(* FdbStore::read and read_all (read.rs): one transaction that merges the  *)
(* ranges of a query and fetches the events, run again on a database       *)
(* error, and a caller that pages through the store with `limit` and       *)
(* `after` while appends go on.                                            *)
(*                                                                         *)
(* One reader: a read writes nothing, and its snapshot reads conflict with *)
(* nobody.  The database is what DCBAppend makes of it: a commit adds the  *)
(* events of a batch, at the next version, and exactly their index keys    *)
(* (IndexExact there), so the index is a function of the events.           *)
(***************************************************************************)
EXTENDS DCBIndex, FiniteSets

CONSTANTS
    Batches,         \* batches that are appended: sequences of [type, tags]
    MaxVersion,      \* bound on the commits
    Queries,         \* sequences of query items
    Limits,          \* values of ReadOptions.limit, 0 for none
    ReadRetryLimit   \* READ_RETRY_LIMIT

ASSUME ReadAssumption ==
    /\ Batches \subseteq Seq([type : Types, tags : SUBSET Tags])
    /\ MaxVersion \in Nat
    /\ Queries \subseteq Seq(QueryItem)
    /\ Limits \subseteq Nat
    /\ ReadRetryLimit \in Nat

VARIABLES
    version,        \* version of the last commit
    events,         \* the primary subspace
    pc,             \* where the read is
    ask,            \* its arguments, or that it is a read_all
    since,          \* history: the version when it was called
    retries,        \* attempts that failed
    rv,             \* read version of the attempt
    streams,        \* what each of its streams has not yielded yet
    heap,           \* MergeHeap
    last_emitted,   \* Origin for None
    ordered_vses,   \* the merged positions
    result,         \* what it returned
    start, paged    \* history: where the caller began to page, what it got

dbVars   == <<version, events>>
callVars == <<ask, since, start, paged>>
vars     == <<version, events, pc, ask, since, retries, rv, streams, heap,
              last_emitted, ordered_vses, result, start, paged>>

Ask == [all : BOOLEAN, items : Seq(QueryItem), after : Position, limit : Nat,
        reverse : BOOLEAN]

Err(kind) == [kind |-> kind, events |-> <<>>]

ReadInit ==
    /\ version = 0 /\ events = {}
    /\ pc = "idle"
    /\ ask = [all |-> TRUE, items |-> <<>>, after |-> Origin, limit |-> 0,
              reverse |-> FALSE]
    /\ since = 0 /\ retries = 0 /\ rv = 0
    /\ streams = <<>> /\ heap = {}
    /\ last_emitted = Origin /\ ordered_vses = <<>>
    /\ result = Err("none")
    /\ start = Origin /\ paged = {}

\* A commit of append, as in DCBAppend.
Commit ==
    /\ version < MaxVersion
    /\ \E batch \in Batches :
          events' = events \union
              {[pos |-> [ver |-> version + 1, idx |-> i - 1],
                type |-> batch[i].type, tags |-> batch[i].tags] : i \in DOMAIN batch}
    /\ version' = version + 1
    /\ UNCHANGED <<pc, ask, since, retries, rv, streams, heap, last_emitted,
                   ordered_vses, result, start, paged>>

-----------------------------------------------------------------------------
(***************************************************************************)
(* The calls.                                                              *)
(***************************************************************************)
Begin(a) ==
    /\ ask' = a
    /\ since' = version
    /\ pc' = "ready"
    /\ retries' = 0
    /\ result' = Err("none")
    /\ UNCHANGED <<version, events, rv, streams, heap, last_emitted, ordered_vses>>

Read ==
    /\ pc = "idle"
    /\ \E items \in Queries, limit \in Limits, reverse \in BOOLEAN,
          after \in {Origin} \union {e.pos : e \in events} :
          /\ Begin([all |-> FALSE, items |-> items, after |-> after,
                    limit |-> limit, reverse |-> reverse])
          /\ start' = after
    /\ paged' = {}

ReadAll ==
    /\ pc = "idle"
    /\ Begin([all |-> TRUE, items |-> <<>>, after |-> Origin, limit |-> 0,
              reverse |-> FALSE])
    /\ start' = Origin
    /\ paged' = {}

\* The caller asks for the next page, after the last event of this one.
NextPage ==
    /\ pc = "done" /\ result.kind = "ok" /\ result.events # <<>>
    /\ ~ask.all /\ ~ask.reverse
    /\ Begin([ask EXCEPT !.after = result.events[Len(result.events)].pos])
    /\ paged' = paged \union Range(result.events)
    /\ UNCHANGED start

-----------------------------------------------------------------------------
(***************************************************************************)
(* One attempt.                                                            *)
(***************************************************************************)
Return(r) ==
    /\ pc' = "done"
    /\ result' = r
    /\ UNCHANGED <<version, events, callVars, retries>>

\* p is read before q: ascending positions, descending with `reverse`.
Precedes(p, q) == IF ask.reverse THEN Before(q, p) ELSE Before(p, q)

First(set) == CHOOSE p \in set : \A q \in set : ~Precedes(q, p)

\* Bug: the range of a stream is limited from its beginning, also in reverse.
MutLimitForward(set) ==
    IF ask.limit = 0
    THEN set
    ELSE {p \in set : Cardinality({q \in set : Before(q, p)}) < ask.limit}

\* The first `limit` of a set of positions, all of it without a limit.
Limited(set) ==
    IF ask.limit = 0
    THEN set
    ELSE {p \in set : Cardinality({q \in set : Precedes(q, p)}) < ask.limit}

events_at(v) == {e \in events : e.pos.ver <= v}
index_at(v)  == UNION {index_keys(e) : e \in events_at(v)}

stream_of(r) == Limited({k.pos : k \in {j \in index_at(version) : InRange(j, r)}})

\* One stream per range of each item.
StreamIds(items, keys) ==
    UNION {{[item |-> i, range |-> r] :
                r \in build_query_ranges(items[i], ask.after, keys)} : i \in DOMAIN items}

reserved  == \E i \in DOMAIN ask.items : "_" \in ask.items[i].tags
invalid   == \E i \in DOMAIN ask.items : ask.items[i] = [types |-> {}, tags |-> {}]

\* Errors of the caller end the call: they are not the database's.
Reject ==
    /\ pc = "ready"
    /\ reserved \/ invalid
    /\ Return(Err(IF reserved THEN "reserved_tag" ELSE "invalid_query"))
    /\ UNCHANGED <<rv, streams, heap, last_emitted, ordered_vses>>

\* The ranges are built and a stream is opened on each, of one snapshot.  A
\* query that selects no range is answered at once; a single range and a
\* read_all take the fast path.
Open ==
    /\ pc = "ready"
    /\ ~reserved /\ ~invalid
    /\ rv' = version
    /\ streams' = IF ask.all
                  THEN <<{e.pos : e \in events}>>
                  ELSE [id \in StreamIds(ask.items, index_at(version)) |-> stream_of(id.range)]
    /\ heap' = {} /\ last_emitted' = Origin /\ ordered_vses' = <<>>
    /\ IF DOMAIN streams' = {}
       THEN Return([kind |-> "ok", events |-> <<>>])
       ELSE /\ pc' = IF \A id, other \in DOMAIN streams' : id = other
                     THEN "scanning" ELSE "seeding"
            /\ UNCHANGED <<version, events, callVars, retries, result>>

full(vses) == ask.limit > 0 /\ Len(vses) >= ask.limit

\* The fast path: the next key of the only stream.
Scan ==
    /\ pc = "scanning"
    /\ \E id \in DOMAIN streams :
          IF streams[id] = {}
          THEN pc' = "fetching" /\ UNCHANGED <<streams, ordered_vses>>
          ELSE /\ streams' = [streams EXCEPT ![id] = @ \ {First(@)}]
               /\ ordered_vses' = Append(ordered_vses, First(streams[id]))
               /\ pc' = IF full(ordered_vses') THEN "fetching" ELSE pc
    /\ UNCHANGED <<version, events, callVars, retries, rv, heap, last_emitted, result>>

\* next_vs of some streams: their heads go to the heap.
advance(ids, rest) ==
    LET more == {id \in ids : streams[id] # {}}
    IN  /\ heap' = rest \union {[vs |-> First(streams[id]), iter |-> id] : id \in more}
        /\ streams' = [id \in DOMAIN streams |->
                          IF id \in more THEN streams[id] \ {First(streams[id])}
                                         ELSE streams[id]]

Seed ==
    /\ pc = "seeding"
    /\ advance(DOMAIN streams, {})
    /\ pc' = "merging"
    /\ UNCHANGED <<version, events, callVars, retries, rv, last_emitted,
                   ordered_vses, result>>

\* What the heap may yield: its order is by position and then by stream,
\* either of which is fine among equal positions.
tops == {item \in heap : \A other \in heap : ~Precedes(other.vs, item.vs)}

\* Bug: no comparison with last_emitted.
MutNoDedup ==
    /\ pc = "merging"
    /\ \E item \in tops :
          /\ ordered_vses' = Append(ordered_vses, item.vs)
          /\ last_emitted' = item.vs
          /\ IF full(ordered_vses')
             THEN pc' = "fetching" /\ UNCHANGED <<streams, heap>>
             ELSE pc' = pc /\ advance({item.iter}, heap \ {item})
    /\ UNCHANGED <<version, events, callVars, retries, rv, result>>

\* Bug: a stream whose head is a duplicate is not advanced.
MutDropStream ==
    /\ pc = "merging"
    /\ \E item \in tops :
          IF item.vs = last_emitted
          THEN /\ heap' = heap \ {item}
               /\ UNCHANGED <<pc, streams, last_emitted, ordered_vses>>
          ELSE /\ ordered_vses' = Append(ordered_vses, item.vs)
               /\ last_emitted' = item.vs
               /\ IF full(ordered_vses')
                  THEN pc' = "fetching" /\ UNCHANGED <<streams, heap>>
                  ELSE pc' = pc /\ advance({item.iter}, heap \ {item})
    /\ UNCHANGED <<version, events, callVars, retries, rv, result>>

\* One round of the merge: emit the position unless it was just emitted, and
\* replace it in the heap by the next one of its stream.
Pop ==
    /\ pc = "merging"
    /\ \E item \in tops :
          IF item.vs = last_emitted
          THEN /\ advance({item.iter}, heap \ {item})
               /\ UNCHANGED <<pc, last_emitted, ordered_vses>>
          ELSE /\ ordered_vses' = Append(ordered_vses, item.vs)
               /\ last_emitted' = item.vs
               /\ IF full(ordered_vses')
                  THEN pc' = "fetching" /\ UNCHANGED <<streams, heap>>
                  ELSE pc' = pc /\ advance({item.iter}, heap \ {item})
    /\ UNCHANGED <<version, events, callVars, retries, rv, result>>

MergeEnd ==
    /\ pc = "merging"
    /\ heap = {}
    /\ pc' = "fetching"
    /\ UNCHANGED <<version, events, callVars, retries, rv, streams, heap,
                   last_emitted, ordered_vses, result>>

\* The primary event at each position, in the snapshot of the attempt.
fetched(p) == {e \in events_at(rv) : e.pos = p}

Fetch ==
    /\ pc = "fetching"
    /\ Return(IF \E i \in DOMAIN ordered_vses : fetched(ordered_vses[i]) = {}
              THEN Err("event_not_found")
              ELSE [kind |-> "ok",
                    events |-> [i \in DOMAIN ordered_vses |->
                                   CHOOSE e \in fetched(ordered_vses[i]) : TRUE]])
    /\ UNCHANGED <<rv, streams, heap, last_emitted, ordered_vses>>

\* Bug: no retry_limit in the transact option.
MutRetryForever ==
    /\ pc \in {"ready", "scanning", "seeding", "merging", "fetching"}
    /\ pc' = "ready"
    /\ UNCHANGED <<version, events, callVars, retries, result>>
    /\ UNCHANGED <<rv, streams, heap, last_emitted, ordered_vses>>

\* Bug: the attempts are counted and the count is never looked at.
MutUncapped ==
    /\ pc \in {"ready", "scanning", "seeding", "merging", "fetching"}
    /\ retries' = retries + 1
    /\ pc' = "ready"
    /\ UNCHANGED <<version, events, callVars, result>>
    /\ UNCHANGED <<rv, streams, heap, last_emitted, ordered_vses>>

\* A read of the transaction fails, transaction_too_old included, or its
\* empty commit does.  transact_boxed runs a new attempt from the start, up
\* to the limit, or returns the error.
DatabaseError ==
    /\ pc \in {"ready", "scanning", "seeding", "merging", "fetching"}
    /\ \/ /\ retries < ReadRetryLimit
          /\ retries' = retries + 1
          /\ pc' = "ready"
          /\ UNCHANGED <<version, events, callVars, result>>
       \/ Return(Err("fdb_error"))
    /\ UNCHANGED <<rv, streams, heap, last_emitted, ordered_vses>>

Step == \/ Reject \/ Open \/ Scan \/ Seed \/ Pop \/ MergeEnd \/ Fetch
        \/ DatabaseError

ReadNext == Commit \/ Read \/ ReadAll \/ NextPage \/ Step

\* The cluster answers a read with data or an error.
ReadSpec == ReadInit /\ [][ReadNext]_vars /\ WF_vars(Step)

-----------------------------------------------------------------------------
(***************************************************************************)
(* Properties.                                                             *)
(***************************************************************************)
ReadTypeOK ==
    /\ version \in Nat /\ since \in Nat /\ rv \in Nat
    /\ events \in SUBSET StoredEvent
    /\ pc \in {"idle", "ready", "scanning", "seeding", "merging", "fetching", "done"}
    /\ ask \in Ask
    /\ retries \in 0..ReadRetryLimit
    /\ \A id \in DOMAIN streams : streams[id] \in SUBSET Position
    /\ \A item \in heap : item.vs \in Position /\ item.iter \in DOMAIN streams
    /\ last_emitted \in Position
    /\ ordered_vses \in Seq(Position)
    /\ result.events \in Seq(StoredEvent)
    /\ start \in Position
    /\ paged \in SUBSET StoredEvent

\* What a query selects, the items being alternatives, after a position.
Wanted(after, v) ==
    IF ask.all
    THEN events_at(v)
    ELSE UNION {Selected(events_at(v), ask.items[i], after) : i \in DOMAIN ask.items}

\* The positions of the answer at the read version.
Answer == {e.pos : e \in Wanted(ask.after, rv)}

\* A sequence holds the first of a set of positions, in the order asked for.
Heads(seq, set) ==
    \A i \in DOMAIN seq :
        /\ seq[i] \in set
        /\ {p \in set : Precedes(p, seq[i])} = {seq[j] : j \in 1..(i - 1)}

\* While the streams are merged, what has been emitted is the beginning of
\* the answer at the read version: no position twice, none left out, however
\* many ranges it is in and whichever stream runs dry.
MergeIsPrefix ==
    pc \in {"scanning", "merging", "fetching"} =>
        Heads(ordered_vses, Answer)

\* A read returns the answer of one version not older than the call: exactly
\* the events the query selects there, in order, the first `limit` of them.
\* It never finds a key in the index and no event for it, and it rejects only
\* what the caller got wrong.
ExactAnswer ==
    pc = "done" =>
        CASE result.kind = "ok" ->
                LET wanted == Wanted(ask.after, rv)
                    got    == result.events
                IN  /\ since <= rv
                    /\ Range(got) \subseteq wanted
                    /\ Heads([i \in DOMAIN got |-> got[i].pos], Answer)
                    /\ Len(got) = IF full(got) THEN ask.limit ELSE Cardinality(wanted)
          [] result.kind = "reserved_tag"  -> reserved
          [] result.kind = "invalid_query" -> invalid
          [] OTHER -> result.kind = "fdb_error"

\* Pages read one after the other, in different transactions and while
\* batches are appended, leave no gap and overlap nowhere: they hold what the
\* query selects, as of now, up to the last position read (ADR 0010:
\* "positions make this safe for append-only data").
PagesAddUp ==
    pc # "idle" /\ paged # {} =>
        /\ paged = {e \in Wanted(start, version) : ~Before(ask.after, e.pos)}
        /\ \A i \in DOMAIN result.events : result.events[i] \notin paged

\* Every read returns, although every attempt may fail.
EveryReadReturns == pc = "ready" ~> pc = "done"
-----------------------------------------------------------------------------
(***************************************************************************)
(* The inductive invariant behind the safety properties.                   *)
(***************************************************************************)
Attempt == {"scanning", "seeding", "merging", "fetching"}

\* What the streams, or their heads in the heap, have still to give.
Left == (UNION {streams[id] : id \in DOMAIN streams}) \union {item.vs : item \in heap}

\* A position that no stream needs to give: the limit is reached before it.
BeyondLimit(p) ==
    ask.limit # 0 /\ Cardinality({q \in Answer : Precedes(q, p)}) >= ask.limit

\* Positions name events, and every one is of a commit.
Recorded ==
    /\ IsFiniteSet(events)
    /\ \A e \in events : e.pos.ver \in 1..version
    /\ \A e, f \in events : e.pos = f.pos => e = f

\* A read_all has no options, nobody refers to a version to come, and only a
\* read that succeeded returned anything.
Asked ==
    /\ rv <= version /\ since <= version
    /\ ask.after.ver <= version /\ start.ver <= version
    /\ ask.all => ask.items = <<>> /\ ask.after = Origin /\ ask.limit = 0 /\ ~ask.reverse
    /\ pc \in Attempt => since <= rv
    /\ pc # "done" => result.kind = "none"
    /\ result.kind # "ok" => result.events = <<>>

\* Every position of the answer is emitted, still to come, or beyond the
\* limit; and nothing that is still to come belongs before the last emitted.
Merging ==
    pc \in Attempt \ {"fetching"} =>
        /\ ~full(ordered_vses)
        /\ Left \subseteq Answer
        /\ \A p \in Answer : p \in Range(ordered_vses) \/ p \in Left \/ BeyondLimit(p)
        /\ \A p \in Left : \A q \in Range(ordered_vses) : ~Precedes(p, q)

\* The only stream gives every position once.
ScanLeads ==
    pc = "scanning" =>
        /\ heap = {}
        /\ \A p \in Left : p \notin Range(ordered_vses)
        /\ \A id, other \in DOMAIN streams : id = other

\* The heap holds the head of every stream that is not used up, and
\* last_emitted is the end of what was emitted.
HeapLeads ==
    /\ pc = "seeding" => heap = {} /\ ordered_vses = <<>> /\ last_emitted = Origin
    /\ pc = "merging" =>
          /\ \A id \in DOMAIN streams : \A p \in streams[id] :
                \E item \in heap : item.iter = id /\ ~Precedes(p, item.vs)
          /\ last_emitted = IF ordered_vses = <<>> THEN Origin
                            ELSE ordered_vses[Len(ordered_vses)]

\* The merge ends with the whole answer or the first `limit` of it.
Merged ==
    pc = "fetching" => IF full(ordered_vses) THEN Len(ordered_vses) = ask.limit
                       ELSE Range(ordered_vses) = Answer

\* What a caller that pages forward has got is what there is up to `after`.
Paging ==
    pc # "idle" =>
        /\ ~Before(ask.after, start)
        /\ paged = IF ask.all \/ ask.reverse THEN {}
                   ELSE {e \in Wanted(start, version) : ~Before(ask.after, e.pos)}

ReadInv ==
    /\ ReadTypeOK
    /\ Recorded /\ Asked
    /\ MergeIsPrefix /\ Merging /\ ScanLeads /\ HeapLeads /\ Merged
    /\ ExactAnswer
    /\ Paging
=============================================================================
