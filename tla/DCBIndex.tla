------------------------------ MODULE DCBIndex ------------------------------
(***************************************************************************)
(* The index of the store and the key ranges a query is translated to.     *)
(*                                                                         *)
(* append_single writes, for an event with tag set S, one index key        *)
(*     [ns, "i", sorted subset of S ..., "_", type, versionstamp]          *)
(* for every subset of S; a query item is answered by prefix ranges over   *)
(* these keys.  A key is modelled by the data in it (tag set, type,        *)
(* position) and a range by the keys it covers.  Sorting and removing      *)
(* duplicates (sort_tags) makes the sequence of tags a canonical name of   *)
(* its set, so the model uses the set.                                     *)
(*                                                                         *)
(* Everything here is constant-level: no state, and no RECURSIVE operator. *)
(***************************************************************************)
EXTENDS Integers, Sequences, Functions

CONSTANTS
    Types,    \* strings a caller can give as an event type ("" is one)
    Tags      \* strings a caller can give as a tag ("_" is one)

(***************************************************************************)
(* Positions.  A Versionstamp is 10 bytes of transaction version followed  *)
(* by 2 bytes of batch index, compared as bytes: lexicographic order.      *)
(***************************************************************************)
Position == [ver : Nat, idx : Nat]

\* Bug: the batch index is left out of the comparison.
MutVersionOnly(p, q) == p.ver < q.ver

Before(p, q) == \/ p.ver < q.ver
                \/ p.ver = q.ver /\ p.idx < q.idx

\* No versionstamp FDB hands out is this low: it stands for `after: None`.
Origin == [ver |-> 0, idx |-> 0]

StoredEvent == [pos : Position, type : Types, tags : SUBSET Tags]

\* A query item: any of these types (all when empty), all of these tags.
QueryItem == [types : SUBSET Types, tags : SUBSET Tags]

(***************************************************************************)
(* What a query item selects, in the words of the API: the reference the   *)
(* ranges below are compared with.                                         *)
(***************************************************************************)
Matches(e, item) == /\ item.types = {} \/ e.type \in item.types
                    /\ item.tags \subseteq e.tags

Selected(events, item, after) ==
    {e \in events : Before(after, e.pos) /\ Matches(e, item)}

-----------------------------------------------------------------------------
(***************************************************************************)
(* Writing.                                                                *)
(***************************************************************************)
sort_tags(tags) == Range(tags)

\* Bug: the loop over masks starts at 1, so no key is written for {}.
MutNoRootSubset(tags) == SUBSET tags \ {{}}

generate_superset_presorted(tags) == SUBSET tags

IndexKey == [tags : SUBSET Tags, type : Types, pos : Position]

\* The index keys append_single writes for an event.
index_keys(e) ==
    {[tags |-> s, type |-> e.type, pos |-> e.pos] :
        s \in generate_superset_presorted(e.tags)}

-----------------------------------------------------------------------------
(***************************************************************************)
(* Reading.  A range covers the keys under one tag set, of the types given *)
(* and, when it is cut by `after`, strictly after that position.           *)
(***************************************************************************)
KeyRange == [tags : SUBSET Tags, types : SUBSET Types, after : Position]

\* Bug: after_range leaves out the trailing 0x00 and includes `after`.
MutInclusiveAfter(k, r) == /\ k.tags = r.tags
                           /\ k.type \in r.types
                           /\ ~Before(k.pos, r.after)

InRange(k, r) == /\ k.tags = r.tags
                 /\ k.type \in r.types
                 /\ Before(r.after, k.pos)

\* [ns, "i", tags, "_", type] from `after` on: prefix_range or after_range.
tag_type_range(tags, type, after) ==
    [tags |-> tags, types |-> {type}, after |-> after]

\* [ns, "i", tags, "_"]: the whole subspace, whatever `after` is.
events_in_tag_range(tags) ==
    [tags |-> tags, types |-> Types, after |-> Origin]

\* The types found under a tag set by a scan of `keys`.
discover_types_in_tag_subspace(tags, keys) ==
    {k.type : k \in {j \in keys : InRange(j, events_in_tag_range(tags))}}

build_query_ranges(item, after, keys) ==
    LET types == IF item.types # {}
                 THEN item.types
                 ELSE discover_types_in_tag_subspace(item.tags, keys)
    IN  {tag_type_range(item.tags, t, after) : t \in types}

\* query_item_exists: some probe (limit 1) of some range returns a key.
query_item_exists(item, after, keys) ==
    \E r \in build_query_ranges(item, after, keys) :
        \E k \in keys : InRange(k, r)

\* Bug: the discovery scan is a snapshot read and leaves no conflict range.
MutSnapshotDiscovery(item, after, keys) == build_query_ranges(item, after, keys)

\* The read conflict ranges the probes of one item leave on a transaction
\* when none of them returns a key (a probe that finds nothing has read its
\* whole range): the ranges probed and, for a tags-only item, the
\* discovery scan, which is not a snapshot read either.
read_conflict_ranges(item, after, keys) ==
    build_query_ranges(item, after, keys)
        \union {events_in_tag_range(tags) :
                    tags \in IF item.types = {} THEN {item.tags} ELSE {}}
=============================================================================
