# A verification of dcb-layer

`dcb-layer` is an event store on FoundationDB with *dynamic consistency
boundaries*: `append` writes a batch of events atomically, provided that no event
matching its conditions was stored after a position the caller has seen; `read`
returns the events that match a query; a sentinel key and named cursors let
consumers tail the store; an Elixir binding exposes all of it. This directory holds TLA+ models of the store, the TLC
runs that check them on small instances, and proofs checked by TLAPS.

Paths below are relative to the repository unless they name a module here.

## 1. Inventory

| Component | Code | State it keeps | Operations | What makes it correct |
|---|---|---|---|---|
| Index encoding, queries | `dcb-layer/src/{encoding,query,types}.rs` | none (key layout: `[ns,"e",vs]`, `[ns,"i",tags…,"_",type,vs]`) | `append_single`'s keys, `build_query_ranges`, type discovery, value codec | a query item's ranges hold exactly the events it selects; a probe that finds nothing leaves conflict ranges over every event that could match later; the order of keys is that of positions; namespaces and subspaces do not touch |
| Append | `dcb-layer/src/append.rs` | primary keys, index keys, sentinel, in FDB; per call: a transaction, a retry count, a versionstamp future | `append` | conditions hold at commit; at most one commit per call; results agree with the store; batches whole and ordered; calls end |
| Decision pattern | the example of `dcb-layer/src/lib.rs`; clients | events known, last position | read, decide, `append` with `after` | a stored decision was taken on everything its query selects; rules over those events hold; a refused client learns why |
| Read | `dcb-layer/src/read.rs` | per read: snapshot, streams, heap | `read`, `read_all` | the exact answer of one snapshot, in order, within the limit; pages add up; calls end |
| Subscriptions | `dcb-layer/src/subscribe.rs` | `[ns,"lastvs"]` sentinel, `[ns,"subs",name]` cursors, watches | `get_cursor`, `set_cursor`, `register_sentinel_watch`, `wait_for_sentinel_change` | no wake-up is lost; no event goes unhandled, through crashes and late cursor writes |
| FoundationDB | external | versions, snapshots, conflict ranges | transactions, `on_error`, idempotency ids, versionstamps, watches | modelled by its contract |
| Elixir NIF | `dcb-layer-ex/native/dcb_layer_nif/src/lib.rs` | one task per watch, mailboxes, dirty threads | one blocking call per operation; `watch` | a registered watch leads to exactly one message; no hot loop; waiting holds no thread; subscribers catch up through deaths |
| Elixir API | `dcb-layer-ex/lib/dcb/*.ex` | none | delegations | the message it documents is the one that is sent |
| Lean proof, tests, CI | `_doc/model_proof`, `*/tests`, `.github` | - | - | - |

How they interact: `append` and `read` share the index layout and
`build_query_ranges`; every `append` also sets the sentinel, which fires the
watches; decisions combine `read`, its last position and `append`; consumers combine `get_cursor`, a watch, `read` with `limit` and `after`,
and `set_cursor`. All shared state is in FoundationDB, so the concurrency is that
of its transactions: a call's probes see one snapshot, other calls commit before
its own commit is decided, answers get lost, and processes die in between.

Hard behaviours: the interval between probes and commit; conditions by tag only,
whose types are discovered in the snapshot; `commit_unknown_result` and the
transaction options `on_error` clears; a commit whose caller never hears of it;
batch indexes of two bytes; the merge of overlapping ranges; pages in different
transactions; arming a watch before or after the last read; cursors whose last
writer is a dead process; strings whose packed form extends another's; byte order
across a carry; NIF calls that outlive their process; watch tasks that outlive the
wait they were meant for. `PROJECT.json` lists them as hazards, with the line
where each bites and the properties that watch it.

## 2. Modules

```
DCBIndex ──────────────┬── DCBStore           (abstract: atomic conditional append)
  (constant level)     │     └ DecisionLoop ── MCDecisionLoop  (run decide)
                       ├── DCBAppend ─────────── implements DCBStore
                       │     ├── MCAppend         (runs contend, calls)
                       │     └── Subscription ── MCSubscription  (runs tail, shared, fresh)
                       ├── DCBRead ── MCRead      (run read)
                       └── TupleKeys ── MCTupleKeys  (runs bytes, nul)
                             INSTANCE DCBIndex: what the byte ranges should hold
NifWatch ── MCNifWatch  (runs nif, threads, message)
```

Theorems are in a module beside each: `DCBIndex_proofs`, `DCBAppend_proofs`, `DCBRead_proofs`,
`Subscription_proofs`, `DecisionLoop_proofs`, `NifWatch_proofs`, `TupleKeys_proofs`; and `TupleStore_proofs`, which takes the lemmas of
the last to the invariants of `TupleKeys`.

**DCBIndex** — keys and ranges, without state. A key is the record of what is packed
in it (tag set, type, position), a range is the set of keys it covers.
`index_keys` is the loop of `append_single` over `generate_superset_presorted`;
`build_query_ranges`, `discover_types_in_tag_subspace` and `query_item_exists` are
the functions of those names; `read_conflict_ranges` is what FDB remembers of
non-snapshot reads that returned nothing. `Matches` and `Selected` say what a query
item means; they are the reference and are used by no step of the code's models
except through these.

**DCBStore** — what `append` promises, with no transaction in sight: `Write` checks
the conditions over the stored events and adds the batch in one step, and `Succeed`
returns the position that very step gave to the last event (`at` is the version a call
wrote at).

**DCBAppend** — the loop of `append.rs`. A call goes `idle → ready → committing →
applied → acked → done`; `Call` does the validation; `ProbeError`, `ProbeMatched`
and `ProbeClear` are the three outcomes of the probes (database error first, then
a match, then none), `Commit`, `CommitRejected` and `CommitUnknown` what can become
of the commit, `CommitOk`, `ReturnOk` and `StampError` how the caller learns of it, and
`Crash` a caller that dies at any of these points. Each is a step of its own, so
that everything other calls can do in between is explored. The probes are one step:
all of them read the snapshot of one read version. `commits` is a history variable:
which call and request is behind each version.

**DCBRead** — `transact_boxed` over `read_events`. `Open` fixes the snapshot and
the streams, `Scan` is the fast path (and `read_all`), `Seed`, `Pop` and `MergeEnd` the
k-way merge, `Fetch` the second phase, `DatabaseError` a failure at any await. The
database grows all the while (`Commit`), and `NextPage` is a caller that goes on from
the last position. The heap breaks ties by stream number; the model allows either
order, as the properties must not depend on it.

**Subscription** — consumers in the order the store documents (arm, catch up, park)
beside the calls of `DCBAppend`, which it extends: what it tails is written by that protocol. `Start`, `Register`, `SaveOk`/`SaveUnknown`/`SaveError` and
`Park`/`Wake` are `get_cursor`, `register_sentinel_watch`, `set_cursor` (whose error a live consumer sees, and
reads on) and the wait; the loop itself and `Handle` are the application's. `Die` loses everything that was not
saved, and leaves a cursor write in flight behind (`LateSave`). With `WaitsOnFresh`
the consumer parks in `wait_for_sentinel_change`, which arms a new watch.

**TupleKeys** — the same index one level down: keys and values are byte sequences, ranges
are pairs of them, and the database is a function from one to the other. `pack` and
`unpack` are the format of the tuple layer (code, NUL escape, terminator), which is
external; everything above it (`pack_event_key`, `pack_tag_index_key`, `strinc`,
`after_range`, `discover_types_in_tag_subspace`, `extract_vs`, `encode_event_value`, …) is named and
built as in `encoding.rs`, `query.rs` and `read.rs`. `generate_superset_presorted` goes through the masks over a
sorted list as the code does; `sort_tags` is the list its loop ends with, the one that is `increasing`. Several namespaces share the database, and
the history variables `stored`, `appended` and `cursors` say what each was told.

**DecisionLoop** — the pattern of the example in `lib.rs`, which ADR 0003 calls the entire concurrency
protocol: `Read`, `Decide` with `condition`, and what a client does with each answer, over an
instance of `DCBStore`. The append of a client may still be written after the client
has died and been replaced (`Die`), fail after it was written, or be refused. `basis` remembers
on which events each call was decided.

**NifWatch** — the binding: processes, the dirty I/O threads their calls hold (`Enter`,
`Return`), watch tasks (`Notify`, `WatchFails`, `NotifyFailed`), messages. A subscriber reads
its cursor, then calls `watch`, reads and saves its cursor until nothing is new, and waits; an operation may answer with an
error, and an append or a cursor write that does may have been applied (`ReturnError`);
it may give up waiting (`Timeout`) and may die at any moment (`Die`), when its call and its
tasks go on without it and its successor has another pid. Time is counted in back-offs
(`Tick`), so that a hot loop can be told from a slow one.

Names are those of the source where there is one. Definitions called `Mut…` are
plausible bugs, not part of any specification: `PROJECT.json` says which property each
one breaks when it replaces the definition that follows it.

### Abstractions

- Outside `TupleKeys`, strings are model values in effect: equality, `""` and `"_"` are all the
  code looks at, and ranges are exact. `RangesExact` is what justifies that, for types
  without NUL; section 4 says what happens with it.
- In `TupleKeys`, a versionstamp has two bytes of version instead of ten (and two of batch index, as
  in the code), and of each commit one event is followed, at any index of its batch.
- In `DecisionLoop`, a read is one step: it returns the answer of one snapshot, as `DCBRead` shows, and
  clients read again from the last position they know.
- In `NifWatch`, the store is its sentinel and the cursors: an append increases the sentinel, a read
  returns it. That the real sentinel and reads behave so is what `DCBAppend`, `DCBRead` and
  `Subscription` are about. Decoding of terms can only make a call return an error.
- Tags are compared as sets, since `sort_tags` sorts and removes duplicates before a key or
  a range is made; validation sees the list, duplicates included. Data payloads and the order
  in which the value stores its tags are left out.
- A versionstamp is a pair (commit version, batch index); versions count commits.
- `APPEND_RETRY_LIMIT` (100), `READ_RETRY_LIMIT` (10), the limit of 10 tags and `u16::MAX` are
  constants of the models.

### FoundationDB

Modelled by its contract, inside the modules that use it: a transaction reads one
snapshot not older than any commit acknowledged before; a commit is refused if a key
in one of its read conflict ranges was written since, and may fail for any other
reason; versionstamps grow in commit order; `on_error` resets the transaction and its
options except the retry limit; with an idempotency id the client finds out by itself
whether an unanswered commit was applied; a watch fires when the value differs from
that of the registering transaction, or for nothing.

## 3. Runs

| Run | Instance | Checks |
|---|---|---|
| `contend` | 3 calls, 4 kinds of conditional request with every kind of item, 2 types, 2 tags, 1 retry | `TypeOK`, `ConditionsHeld` |
| `calls` | 2 calls, all 13 kinds of request incl. rejected ones, bounds of any event or of a position to come, 2 retries | `AppliedOnce`, `TruthfulVerdict`, `BatchInOrder`, `Inv`, `ImplementsStore`, `EveryCallReturns` |
| `read` | 3 commits, 7 queries, limits 0, 1, 2, both directions, 1 retry | `ReadTypeOK`, `MergeIsPrefix`, `ExactAnswer`, `PagesAddUp`, `ReadInv`, `EveryReadReturns` |
| `tail` | 1 consumer, 2 appends of 3 events, of which it wants the first and the last, page of 1, 2 crashes | `SubTypeOK`, `NoLostWake`, `NothingSkipped`, `SubInv`, `EventuallyHandled` |
| `shared` | 2 consumers under one cursor, 2 appends, 1 crash | `NothingSkipped` |
| `fresh` | as `tail`, waiting in `wait_for_sentinel_change` | `NoLostWake` is violated |
| `bytes` | 2 namespaces, 3 types, 2 tags, 3 events out of 4 kinds, 4 positions around the carries, 1 cursor | `BytesTypeOK`, `RangesExact`, `ScansInOrder`, `NamespacesApart`, `KeysInv` |
| `nul` | as `bytes`, with the types "A" and "A\0B" | `ReadsOnlyAfter` is violated |
| `decide` | 2 clients with 2 and 1 calls, 1 other call, a rule with room for 2, reads of one event or all | `LoopTypeOK`, `RuleKept`, `DecisionsCurrent`, `RefusalIsNews`, `LoopInv` |
| `nif` | 1 subscriber, 1 writer, 2 threads, 2 appends, 2 errors, 1 death, 1 wait given up, 2 back-offs | `NifTypeOK`, `WakeOnItsWay`, `OneWakePerWatch`, `NoHotLoop`, `NifInv` |
| `threads` | 2 subscribers, 1 writer, 1 thread, 1 append, 1 error, 1 death | `CaughtUp`, `AppendsReturn` |
| `message` | 1 subscriber that waits for the documented message | `CaughtUp` is violated |

What they show:

- *ConditionsHeld*: no committed batch has, among the events committed before it, one that
  a condition of its call selects after the bound. Three calls are needed for a call to be
  overtaken twice, two types for a type the discovery did not see.
- *AppliedOnce*: two retries are needed for the id to be lost by the reset and missed by the
  second attempt.
- *TruthfulVerdict*: ok means stored, with the last position of the batch; refused means not
  stored, and justified; invalid means not stored.
- *BatchInOrder*: `u16::MAX` is 2 in the runs, so a batch of 2 fits, one of 3 would fill
  the index space and one of 4 is above the limit and has to be rejected.
- *ImplementsStore*: the protocol refines the atomic store.
- *MergeIsPrefix*, *ExactAnswer*, *PagesAddUp*: while it merges, a read has emitted the beginning of the
  right answer; what it returns is the answer of one snapshot not older than the call;
  consecutive pages leave no gap. Batches of two with a page of one make pages end inside a batch.
- *NoLostWake*, *NothingSkipped*, *EventuallyHandled*: a parked consumer whose watch has not
  fired has nothing to do; every wanted event up to a saved cursor was handled, by some consumer, before the
  cursor was saved, also when a dead consumer's write arrives late or two consumers share the name; everything is
  handled in the end. Two crashes are needed for a late write to matter: the first leaves the write behind, which sets back
  what the successor saved, and after the second the cursor is read again.
  `NothingSkipped` is about consumers together: section 4 says what it leaves out when two of them share a cursor.

- *RangesExact*, *ScansInOrder*, *NamespacesApart*: the byte ranges hold the keys of the abstract ranges
  and no other, in the order of positions, and each namespace reads back exactly what it was told. The
  strings of the instance are chosen to be taken for one another: types that extend each other or equal
  the separator, tags that sort before it or extend it, a namespace that spells, NUL included,
  another one and its subspace, a subscription named like the sentinel, payloads of 0x00 and 0xFF; positions lie on both
  sides of the carry of the batch index and of the version.
- *DecisionsCurrent*, *RuleKept*: an append that is stored was decided on everything its query selected at that
  moment, so a rule that spans all those events is kept by clients that know only a position. Three
  calls compete for two places; the other's events reach the query through another item.
- *RefusalIsNews*: what a client was refused for is something it had not read, its own events included, so it
  does not retry for nothing.
- *WakeOnItsWay*, *OneWakePerWatch*, *NoHotLoop*: a subscriber that waits with something left to see has a message or a
  task about to send one, never more of them than watches it called, and failing watches do
  not wake it faster than the back-off.
- *Inv*, *ReadInv*, *SubInv*, *LoopInv*, *NifInv*, *KeysInv*: the inductive invariants of section 5 hold in every reachable
  state of the runs.
- *CaughtUp*, *AppendsReturn*: with a single thread, subscribers that wait do not keep the append out that would wake
  them, and every one sees it, through a death and an error. (With one append, a cursor write of a dead process cannot set a
  cursor back; that is `tail`'s and `shared`'s question.)

Bounds: calls, requests, retries and crashes are the constants above, in the `.cfg` files;
`MaxVersion` and `MaxCrashes` appear in guards (`Commit` of `DCBRead`, `Die`), `MaxEvents` and `MaxCursors` in those of
`TupleKeys`, `MaxCalls` in `Decide`, and `MaxAppends`, `MaxErrors`, `MaxDeaths`, `MaxTimeouts` and `MaxTime` in those of `NifWatch` (`WatchFails`
also needs time for its back-off); nothing else is cut. These runs end when the bounds are used up, so they check no deadlock. A reader that got an error may stop, so `read` checks
no deadlock; in `DCBAppend` the end is the explicit step `AllReturned`.

Symmetry is used where only safety is checked (`contend`, `shared`), over call and
consumer identities.

### Fairness

- `FairSpec` (append): weak fairness of each call's steps. The client library answers every
  request with a result or an error, and `append` does nothing else than await. Which outcome
  comes is not fair: every attempt may fail, and the call ends because of the retry limit.
- `ReadSpec`: the same for the reader's steps.
- `SubSpec`: weak fairness of each consumer's own progress: it is restarted, its requests are
  answered in the end, a watch whose value has changed fires. Nothing is assumed of late
  writes, spurious wakes or lost answers, nor of the appends.
- `NifWatch`: weak fairness of calls in progress (the cluster answers), of tasks, of a process that has the message it waits
  for, and of time; strong fairness of a process's entry into a dirty thread, because the
  emulator's queue of dirty jobs is first in, first out: threads come free again and again and nobody is passed over for
  ever. Nothing is assumed of errors, deaths or time-outs.

## 4. Disagreements between documents and code

*The order of waiting.* `_ADRs/0009-sentinel-watch-plus-durable-named-cursors.md:27` gives the order
`register_sentinel_watch`, read, `wait_for_sentinel_change`, "closing the wake-loss
window". `wait_for_sentinel_change` (`subscribe.rs:68`) registers another watch, so an
append between the last read and that registration wakes nobody until the next one. The
run `fresh` exhibits it. Awaiting the future that `register_sentinel_watch` returned, as the
NIF does and as the comment in `subscribe.rs:44-47` describes, is what `tail` checks.

*Two consumers under one cursor.* `_ADRs/0019-cursor-concurrency-semantics.md:8` says that two instances of a consumer that
coexist may be "silently rewinding or skipping progress under LWW" (last writer wins). The model agrees, and no run claims
the contrary. Rewinding: `set_cursor` is a blind write, so `SaveOk` of the slower consumer and `LateSave` of a dead one set the cursor
back, and events are handled again. Skipping: a consumer that starts from a cursor another one saved never sees the events
before it. What `shared` checks is weaker than "no instance skips": every wanted event up to a saved cursor was
handled by one of the consumers before that cursor was saved. Nothing is left out by all of them, but an instance with
state of its own, such as a projection, can miss events the other one handled. The compare-and-swap cursor the ADR proposes is not in the code.

*Types with NUL.* `lib.rs:131` says of `after`: "Only return events after this position". The range of a type begins
and ends with the packed type (`query.rs:35-43`); the packed "A" (`02 41 00`) is a prefix of the packed
"A\0B" (`02 41 00 FF 42 00`), and the escape `FF` is above the `33` of a versionstamp, so the keys of
"A\0B" are in the range of "A", after every bound. A read of "A" keeps returning such events, whatever
its `after`, and a condition on "A" with any `after` is refused once one is stored. `append` accepts the type. The run `nul`
exhibits it; in `bytes`, whose types have no NUL, the ranges are exact (the tags and namespaces there do contain NUL).
`RangesStayExact` and `ReadsStayAfter` (section 5) prove that types with NUL are the only exception.

*The message of a watch.* `store.ex:79` and the binding's `README.md:95` say a subscriber is sent
`{:dcb_store_changed, store}`; the NIF sends `{:fdb_watch_fired}` (`lib.rs:311`). The run `message` shows a subscriber
that follows the documentation and sleeps for ever; `nif` and `threads` wait for what is sent, as the binding's test does.

## 5. Proofs

For all values of the constants, with no bound on calls, consumers, processes, batches, pages or strings.
The assumptions are named in the modules. They say that constants are of the types the API gives them
(`RequestsAssumption`, `LimitsAssumption`, `ReadAssumption`, `SubscriptionAssumption`, `NifAssumption`,
`LoopAssumption`: lists of events, sets of query items, naturals, at least one thread, a page of at least one event;
callers outside the pattern are others than its clients; in `StringsAssumption` of `TupleKeys`, that strings are
sequences of bytes, the limit on tags is a natural and the two parts of a position are words; in `BoundsAssumption`, that the bounds
callers give beside those of stored events are positions), and, in `PatternAssumption`, what the pattern asks of its users: the query
selects the event that counts, and nobody stores that event outside the pattern. The theorems of `TupleKeys_proofs`, and
`UnpackPack`, `SubsetsSorted` and `ValueRoundTrip`, need none: they quantify over the byte strings and positions themselves.

Safety invariants are seldom inductive. Each module with behaviour therefore states the invariant its proofs rest on
as named conjuncts (`Inv`, `ReadInv`, `SubInv`, `LoopInv`, `NifInv`, `KeysInv`), TLC checks it on the instances, and the proof
has one lemma per action.

`DCBIndex_proofs`, about the index and the order of positions:
- `ConflictIffMatches`: over an index that has exactly the keys of the stored events, the
  probes of an item find a key iff a stored event after the bound matches it.
- `ConflictRangesCover`: if they find none, each later event the item selects, of any type,
  has a key in the conflict ranges left behind. For a tags-only item this is the work of the
  discovery scan, which covers the whole tag subspace.
- `RangesSelect`: the ranges of an item cover exactly the positions of the events it selects after the bound.

`DCBAppend_proofs`:
- `TypeCorrect`, `Invariant`, `ConditionsAlwaysHeld`, `NoDoubleApply`, `VerdictsTruthful`, `BatchesInOrder`
  for `TypeOK`, `Inv`, `ConditionsHeld`, `AppliedOnce`, `TruthfulVerdict`, `BatchInOrder`;
- `AppendImplementsStore`: `Spec => ImplementsStore`.

`ConditionsHeld` is not inductive: that a commit does not conflict says nothing
unless the conflict ranges are those of probes that found nothing. `Inv` adds that
(`Transaction`), that the index is exact (`IndexExact`), that the store is the batches of the
committed calls at their versions (`Ledger`), and what a call's stage says about its commit
(`Progress`). Only `Commit` disturbs the first properties: suppose an event committed
earlier matches a condition. If it is in the snapshot, the probes would have found it
(`ConflictIffMatches`). If it is not, it has a key in the conflict ranges
(`ConflictRangesCover`) and the commit would have been refused. `AppliedOnce` rests on the
idempotency id being set for every attempt: an applied commit whose answer is lost goes to
`acked` and never back to `ready`. The refinement maps a call's stage to its phase, the events
to the events, its versionstamp to the version it wrote at and results to replies; the invariant gives the guard of the abstract `Write` and
`Refuse`. `BatchInOrder` follows from `Ledger` and the limit on a batch: an accepted batch has fewer events than
batch indexes, so no index wraps.

`DCBRead_proofs`: `ReadTypeCorrect`, `ReadInvariant`, `MergesArePrefixes`, `AnswersExact`, `PagesComplete` for `ReadTypeOK`,
`ReadInv`, `MergeIsPrefix`, `ExactAnswer`, `PagesAddUp`. What makes the merge inductive is an account of every position of
the answer (`Merging`): it is emitted, or left in a stream or the heap, or beyond the limit, and nothing that is left
belongs before the last one emitted. `HeapLeads` gives the step: the heap has the head of every stream that is not used up, so
its first entry is the first of all that is left; a position that overlapping ranges give twice comes from the heap twice in a row
and is recognised by `last_emitted`. When the merge ends, what is left is nothing or beyond the limit, and `RangesSelect` says that
the answer is the query's. `Paging` carries that from page to page while commits go on: what a caller has got is all there is up to
its position. That a finite set of positions has a first one, by which streams and answers are ordered, is
proved from well-foundedness.

`Subscription_proofs`: `WritersUndisturbed` (`Inv` of append holds with consumers beside it, whose only writes are cursors), `SubTypeCorrect`,
`SubscriptionInvariant`, `NoEventSkipped` (no event that nobody handled is passed), for `Inv`, `SubTypeOK`, `SubInv`, `NothingSkipped`, and `RegisteredWatchHolds`, for `NoLostWake`
when consumers wait on the watch they registered; for the other order the run `fresh` shows it false. `NothingSkipped` alone
does not say that the page in hand has no gap. `SubInv` adds that a page is a beginning of what the consumer
wants next (`PageExact`), which appends cannot undo because they commit above every position held (`OfThePast`); and
`WatchHolds`, that after the empty read only an append that fires the watch brings something new. A cursor written late by a dead
consumer is a position of which `NothingSkipped` already held.

`DecisionLoop_proofs`: `LoopTypeCorrect`, `PatternInvariant`, `CapacityRespected`, `DecisionsAreCurrent`, `RefusalsAreNews` for `LoopTypeOK`,
`LoopInv`, `RuleKept`, `DecisionsCurrent`, `RefusalIsNews`. The argument is that position and knowledge of a client agree
(`KnowsItsPrefix`: it knows exactly the events of its query up to its position), and that a pending call's bound and basis are such
a pair (`DecidedOnPrefix`). When the store writes the call, nothing that the query selects lies after the bound, so the basis is all
the query selects then, and the rule that held of the basis holds of the store. Clients call the store through
the actions of `DCBStore`, which `AppendImplementsStore` shows the protocol to provide.

`NifWatch_proofs`: `NifTypeCorrect`, `NifInvariant`, `WakesNotLost`, `WakesCounted`, `FailuresThrottled` for `NifTypeOK`, `NifInv`, `WakeOnItsWay`,
`OneWakePerWatch`, `NoHotLoop`. `WatchCovers`: from its call of `watch` to the next, a subscriber has a task or a message, and the task
of a subscriber that waits was armed before it last read. `WakesBounded` and `FailuresSpaced` count messages with tasks that will send
one, and failed ones with tasks that have slept; that the calls of a dead process belong to another pid (`PidsKnown`,
`OneCallPerProcess`) keeps them out of the count.

`TupleKeys_proofs`, for strings and keys of any length and bytes:
- `PrefixRangeExact`: a key is in `[prefix, strinc(prefix))` iff it begins with the prefix, also where that ends in FF bytes;
- `StampRoundTrip`, `StampsInOrder`: a versionstamp's bytes give the position back and are ordered like it, over every carry;
- `KeysInOrder`, `OwnKeysInRange`: keys of a type and tag set are in the order of positions, and the range after a bound holds exactly those
  strictly after it: the trailing 00 of `after_range` cuts off the bound's key and no other;
- `RangeWithinPrefix`: whatever the bound, a range of a type holds only keys that begin with the packed type.

Two keys differ first at a least index; that there is one comes from the library's well-founded order of the naturals, which
replaces induction over the strings. `FlattenSeq` is treated likewise: where a concatenation would first
disagree there is a least counterexample.

`TupleStore_proofs`, about the specification of `TupleKeys`, for any strings (NUL included, where nothing else is said),
events, positions and number of writes:
- `UnpackPack`: the parser gives back the elements that were packed;
- `SubsetsSorted`: the masks over a sorted list of tags give exactly the subsets of the tags, each sorted;
- `ValueRoundTrip`: decoding the value of an event gives the event, tags in their order and with duplicates;
- `KeysInvariant`, `BytesTypeCorrect`, `NamespacesStayApart` for `KeysInv`, `BytesTypeOK`, `NamespacesApart`;
- `RangesStayExact`, `ScansStayInOrder`, `ReadsStayAfter` for `RangesExact`, `ScansInOrder`, `ReadsOnlyAfter`, under the hypothesis
  `NoNulTypes`: no type contains NUL. The run `nul` shows that without it `ReadsOnlyAfter` fails, and why. Tags, namespaces,
  names and data may contain anything: in a key another string, whose code is not FF, follows a namespace and a tag, and no range ends in a name or in data.

The parser is a fold over the bytes, whose state after a string, a stamp or a bracket is known from the state before
(`Reads`); that it gets through the packing of a whole list is shown at the least element where it would not, and so is
that the masks over a sorted list are its subsets and that a set of strings can be sorted. From `UnpackPack`, keys with different
elements are different keys, so what a key stands for can be read off it: namespace, subspace, and then position, name, or tags and type. That is
what makes `KeysInv` inductive: the keys in the database are those of what each namespace was told (`DOMAIN db`), the value
under each is the last one written (`Values`), and what was told is accepted events at positions of their own (`Told`). An
`append` overwrites its own namespace's sentinel and nothing else, since its position is new; `set_cursor` overwrites one cursor. A range
holds what begins with its prefix (`PrefixRangeExact`, `RangeWithinPrefix`), and a packed list that begins with another begins with its elements
(`PrefixLeads`), except that the last string may go on after a NUL. For the range of a type that last string is the type, which is where
`NoNulTypes` is needed; the `"_"` before it, no accepted event has as a tag. For the scan of types it is `"_"` itself: keys with a tag that
goes on after `"_"` and a NUL are scanned too, but their events have the tags looked for, so their types belong to the answer.

Only model-checked:
- liveness (`EveryCallReturns`, `EveryReadReturns`, `EventuallyHandled`, `CaughtUp`, `AppendsReturn`), which is out of the prover's reach.
  All invariants of the passing runs are proved;
- `NoLostWake` for `WaitsOnFresh` is not an invariant: `fresh` violates it.

## 6. Not modelled, and why

- Opening a store, booting the client library and `read_all` of the binding: no state of the store or of a
  subscriber changes; `read_all` is in `DCBRead`.
- Conversion between Elixir terms and Rust values, and the defaults of options: pure data.
- UTF-8: `decode_event_value` fails on strings that are not; the API takes strings that are.
- The retry loop of `set_cursor` (`subscribe.rs:32`) has no limit: it ends when the cluster answers, which is what fairness
  assumes, and there is no bound to check.
- Time and size limits (5 s, 10 MB): a transaction that exceeds them is one of the errors a
  transaction may fail with.
- `AllFfKey`, `TupleEncode`: a prefix that begins with a tuple type code is never all 0xFF. `TupleDecode` is a result of
  `extract_vs`, `get` and `decode_event_value` in `TupleKeys` that `ScansInOrder` and `NamespacesApart` exclude.
- The Lean development, tests, CI: not behaviour of the store.

## 7. Plan

Done: (1) index and append, (2) read, (3) subscriptions, (4) bytes, (5) the binding, (6) the
decision pattern, each with its runs; proofs of every safety property of all six, (4) for types without NUL where the
code needs that. What is left:

1. Liveness stays with TLC, as the provers cannot reason about fairness here.
2. If the packing of types changes so that no packed type begins another's keys (section 4), `nul` becomes a passing run and `NoNulTypes` should
   go from the three theorems that have it: the places are the uses of `PrefixLeads` for `tag_type_prefix`.
