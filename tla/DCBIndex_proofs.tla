--------------------------- MODULE DCBIndex_proofs ---------------------------
(***************************************************************************)
(* What the index promises, for every set of types, of tags and of stored  *)
(* events: the probes of a query item find a key exactly when an event     *)
(* matches the item (Exact), and the conflict ranges they leave on a       *)
(* transaction cover every event that can match later (Covers).            *)
(***************************************************************************)
EXTENDS DCBIndex, FiniteSetTheorems, TLAPS

\* Every event has exactly its keys in the index.
IndexOf(events) == UNION {index_keys(e) : e \in events}

\* Every versionstamp is above Origin.
Stamped(events) == \A e \in events : Before(Origin, e.pos)

(***************************************************************************)
(* A key of the index is found under a subset of its event's tags, with    *)
(* its event's type and position.                                          *)
(***************************************************************************)
LEMMA IndexKeyOrigin ==
    ASSUME NEW events, NEW k \in IndexOf(events)
    PROVE  \E e \in events : /\ k.tags \subseteq e.tags
                             /\ k.type = e.type
                             /\ k.pos = e.pos
<1>1. PICK e \in events : k \in index_keys(e)
  BY DEF IndexOf
<1>2. PICK s \in SUBSET e.tags : k = [tags |-> s, type |-> e.type, pos |-> e.pos]
  BY <1>1 DEF index_keys, generate_superset_presorted
<1> QED
  BY <1>2

(***************************************************************************)
(* Every subset of an event's tags leads to it.                            *)
(***************************************************************************)
LEMMA IndexKeyPresent ==
    ASSUME NEW events, NEW e \in events, NEW s \in SUBSET e.tags
    PROVE  [tags |-> s, type |-> e.type, pos |-> e.pos] \in IndexOf(events)
<1>1. [tags |-> s, type |-> e.type, pos |-> e.pos] \in index_keys(e)
  BY DEF index_keys, generate_superset_presorted
<1> QED
  BY <1>1 DEF IndexOf

\* The positions of the keys that some ranges cover.
Covered(ranges, keys) == {k.pos : k \in {j \in keys : \E r \in ranges : InRange(j, r)}}

(***************************************************************************)
(* Precision and completeness of the ranges (build_query_ranges): the keys *)
(* a query item's ranges cover in the index are those of the events after  *)
(* the bound that match the item, no more and no less.                     *)
(***************************************************************************)
THEOREM RangesSelect ==
    ASSUME NEW events \in SUBSET StoredEvent, Stamped(events),
           NEW item \in QueryItem, NEW after \in Position
    PROVE  Covered(build_query_ranges(item, after, IndexOf(events)), IndexOf(events))
             = {e.pos : e \in Selected(events, item, after)}
<1> DEFINE keys == IndexOf(events)
<1>1. ASSUME NEW r \in build_query_ranges(item, after, keys), NEW k \in keys, InRange(k, r)
      PROVE  \E e \in Selected(events, item, after) : e.pos = k.pos
  <2>1. PICK e \in events : k.tags \subseteq e.tags /\ k.type = e.type /\ k.pos = e.pos
    BY IndexKeyOrigin
  <2>2. r.tags = item.tags /\ r.after = after /\ (item.types # {} => r.types \subseteq item.types)
    BY DEF build_query_ranges, tag_type_range
  <2>3. Before(after, e.pos) /\ Matches(e, item)
    BY <1>1, <2>1, <2>2 DEF InRange, Matches
  <2> QED
    BY <2>1, <2>3 DEF Selected
<1>2. ASSUME NEW e \in events, Before(after, e.pos), Matches(e, item)
      PROVE  \E r \in build_query_ranges(item, after, keys) :
                 \E k \in keys : InRange(k, r) /\ k.pos = e.pos
  <2> DEFINE k == [tags |-> item.tags, type |-> e.type, pos |-> e.pos]
             r == tag_type_range(item.tags, e.type, after)
  <2>1. k \in keys
    BY <1>2, IndexKeyPresent DEF Matches
  <2>2. InRange(k, r) /\ k.pos = e.pos
    BY <1>2 DEF InRange, tag_type_range
  <2>3. r \in build_query_ranges(item, after, keys)
    <3>1. CASE item.types # {}
      BY <3>1, <1>2 DEF build_query_ranges, Matches
    <3>2. CASE item.types = {}
      <4>1. InRange(k, events_in_tag_range(item.tags))
        BY DEF InRange, events_in_tag_range, Stamped, StoredEvent
      <4>2. e.type \in discover_types_in_tag_subspace(item.tags, keys)
        BY <2>1, <4>1 DEF discover_types_in_tag_subspace
      <4> QED
        BY <3>2, <4>2 DEF build_query_ranges
    <3> QED
      BY <3>1, <3>2
  <2> QED
    BY <2>1, <2>2, <2>3
<1> QED
  BY <1>1, <1>2 DEF Selected, Covered

(***************************************************************************)
(* A probe of a query item over the index finds a key if and only if some  *)
(* stored event after the bound matches the item (query_item_exists).      *)
(***************************************************************************)
THEOREM ConflictIffMatches ==
    ASSUME NEW events \in SUBSET StoredEvent, Stamped(events),
           NEW item \in QueryItem, NEW after \in Position
    PROVE  query_item_exists(item, after, IndexOf(events))
             <=> Selected(events, item, after) # {}
<1> DEFINE keys   == IndexOf(events)
           ranges == build_query_ranges(item, after, keys)
<1>1. Covered(ranges, keys) = {e.pos : e \in Selected(events, item, after)}
  BY RangesSelect
<1>2. query_item_exists(item, after, keys) <=> Covered(ranges, keys) # {}
  <2> HIDE DEF keys
  <2> QED BY DEF query_item_exists, Covered
<1> QED
  BY <1>1, <1>2

(***************************************************************************)
(* The conflict ranges cover what the probes cannot have seen: whatever    *)
(* the index held when it was probed (`keys`), every event that matches    *)
(* the item after the bound has an index key in a range the probes left on *)
(* the transaction (read_conflict_ranges), also an event of a type that    *)
(* the discovery scan had not met.                                         *)
(***************************************************************************)
THEOREM ConflictRangesCover ==
    ASSUME NEW keys, NEW item \in QueryItem, NEW after \in Position,
           NEW e \in StoredEvent, Before(Origin, e.pos),
           Before(after, e.pos), Matches(e, item)
    PROVE  \E k \in index_keys(e) :
               \E r \in read_conflict_ranges(item, after, keys) : InRange(k, r)
<1> DEFINE k == [tags |-> item.tags, type |-> e.type, pos |-> e.pos]
<1>1. k \in index_keys(e)
  BY DEF index_keys, generate_superset_presorted, Matches
<1>2. CASE item.types # {}
  <2>1. tag_type_range(item.tags, e.type, after) \in read_conflict_ranges(item, after, keys)
    BY <1>2 DEF read_conflict_ranges, build_query_ranges, Matches
  <2>2. InRange(k, tag_type_range(item.tags, e.type, after))
    BY DEF InRange, tag_type_range
  <2> QED
    BY <1>1, <2>1, <2>2
<1>3. CASE item.types = {}
  <2>1. events_in_tag_range(item.tags) \in read_conflict_ranges(item, after, keys)
    BY <1>3 DEF read_conflict_ranges
  <2>2. InRange(k, events_in_tag_range(item.tags))
    BY DEF InRange, events_in_tag_range, StoredEvent
  <2> QED
    BY <1>1, <2>1, <2>2
<1> QED
  BY <1>2, <1>3
-----------------------------------------------------------------------------
(***************************************************************************)
(* Positions are totally ordered.                                          *)
(***************************************************************************)
\* Before is a strict total order of positions (the byte order of versionstamps).
LEMMA BeforeOrder ==
    ASSUME NEW p \in Position, NEW q \in Position, NEW r \in Position
    PROVE  /\ ~Before(p, p)
           /\ Before(p, q) /\ Before(q, r) => Before(p, r)
           /\ Before(p, q) => ~Before(q, p)
           /\ ~Before(p, q) /\ ~Before(q, r) => ~Before(p, r)
           /\ ~Before(p, q) /\ ~Before(q, p) => p = q
  BY DEF Position, Before

\* A finite set of events that is not empty has a first event.
LEMMA FirstEvent ==
    ASSUME NEW S \in SUBSET StoredEvent, IsFiniteSet(S), S # {}
    PROVE  \E e \in S : \A f \in S : ~Before(f.pos, e.pos)
<1> DEFINE Earlier(e) == {f \in S : Before(f.pos, e.pos)}
           T == {Earlier(e) : e \in S}
<1>1. IsWellFoundedOn(StrictSubsetOrdering(S), SUBSET S)
  BY FS_StrictSubsetOrderingWellFounded, FS_FiniteSubsetsOfFinite
<1>2. T \subseteq SUBSET S /\ T # {}
  OBVIOUS
<1>3. PICK x \in T : \A y \in T : ~(<<y, x>> \in StrictSubsetOrdering(S))
  <2> HIDE DEF T
  <2> QED BY <1>1, <1>2, WFMin
<1>4. PICK e \in S : x = Earlier(e)
  BY <1>3
<1>5. ASSUME NEW f \in S, Before(f.pos, e.pos)
      PROVE  FALSE
  <2>1. /\ e.pos \in Position /\ f.pos \in Position
        /\ \A g \in S : g.pos \in Position
    BY DEF StoredEvent
  <2>2. Earlier(f) \subseteq Earlier(e)
    BY <1>5, <2>1, BeforeOrder
  <2>3. f \in Earlier(e) /\ f \notin Earlier(f)
    BY <1>5, <2>1, BeforeOrder
  <2>4. <<Earlier(f), Earlier(e)>> \in StrictSubsetOrdering(S)
    BY <2>2, <2>3 DEF StrictSubsetOrdering
  <2> QED
    BY <2>4, <1>3, <1>4
<1> QED
  BY <1>5

\* A finite set of events that is not empty has a last event.
LEMMA LastEvent ==
    ASSUME NEW S \in SUBSET StoredEvent, IsFiniteSet(S), S # {}
    PROVE  \E e \in S : \A f \in S : ~Before(e.pos, f.pos)
<1> DEFINE Later(e) == {f \in S : Before(e.pos, f.pos)}
           T == {Later(e) : e \in S}
<1>1. IsWellFoundedOn(StrictSubsetOrdering(S), SUBSET S)
  BY FS_StrictSubsetOrderingWellFounded, FS_FiniteSubsetsOfFinite
<1>2. T \subseteq SUBSET S /\ T # {}
  OBVIOUS
<1>3. PICK x \in T : \A y \in T : ~(<<y, x>> \in StrictSubsetOrdering(S))
  <2> HIDE DEF T
  <2> QED BY <1>1, <1>2, WFMin
<1>4. PICK e \in S : x = Later(e)
  BY <1>3
<1>5. ASSUME NEW f \in S, Before(e.pos, f.pos)
      PROVE  FALSE
  <2>1. /\ e.pos \in Position /\ f.pos \in Position
        /\ \A g \in S : g.pos \in Position
    BY DEF StoredEvent
  <2>2. Later(f) \subseteq Later(e)
    BY <1>5, <2>1, BeforeOrder
  <2>3. f \in Later(e) /\ f \notin Later(f)
    BY <1>5, <2>1, BeforeOrder
  <2>4. <<Later(f), Later(e)>> \in StrictSubsetOrdering(S)
    BY <2>2, <2>3 DEF StrictSubsetOrdering
  <2> QED
    BY <2>4, <1>3, <1>4
<1> QED
  BY <1>5

(***************************************************************************)
(* The beginning of a set of events: its first `limit`.                    *)
(***************************************************************************)
Leading(S, limit) ==
    {e \in S : Cardinality({f \in S : Before(f.pos, e.pos)}) < limit}

\* With an event it has all that are not after it.
LEMMA LeadingIsPrefix ==
    ASSUME NEW S \in SUBSET StoredEvent, IsFiniteSet(S), NEW limit \in Nat,
           NEW e \in Leading(S, limit), NEW f \in S, ~Before(e.pos, f.pos)
    PROVE  f \in Leading(S, limit)
<1> DEFINE Earlier(g) == {h \in S : Before(h.pos, g.pos)}
<1>1. e \in S /\ Cardinality(Earlier(e)) < limit
  BY DEF Leading
<1>2. \A g \in S : g.pos \in Position
  BY DEF StoredEvent
<1>3. Earlier(f) \subseteq Earlier(e)
  BY <1>1, <1>2, BeforeOrder DEF Before, Position
<1>4. IsFiniteSet(Earlier(e))
  BY FS_Subset
<1>5. Cardinality(Earlier(f)) <= Cardinality(Earlier(e))
  BY <1>3, <1>4, FS_Subset
<1>6. Cardinality(Earlier(f)) \in Nat /\ Cardinality(Earlier(e)) \in Nat
  BY <1>3, <1>4, FS_Subset, FS_CardinalityType
<1>7. Cardinality(Earlier(f)) < limit
  BY <1>1, <1>5, <1>6
<1> QED
  BY <1>7 DEF Leading

\* A beginning of something is something.
LEMMA LeadingNotEmpty ==
    ASSUME NEW S \in SUBSET StoredEvent, IsFiniteSet(S), S # {}, NEW limit \in Nat \ {0}
    PROVE  Leading(S, limit) # {}
<1>1. PICK e \in S : \A f \in S : ~Before(f.pos, e.pos)
  BY FirstEvent
<1>2. {f \in S : Before(f.pos, e.pos)} = {}
  BY <1>1
<1>3. Cardinality({f \in S : Before(f.pos, e.pos)}) = 0
  BY <1>2, FS_EmptySet
<1> QED
  BY <1>3 DEF Leading
=============================================================================
