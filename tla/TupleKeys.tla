------------------------------ MODULE TupleKeys ------------------------------
(***************************************************************************)
(* The store at the level of bytes: how encoding.rs packs keys and values, *)
(* how query.rs turns a query item into byte ranges and read.rs takes them *)
(* apart again, for several namespaces in one database.                    *)
(*                                                                         *)
(* A string is the sequence of its bytes and keys are compared             *)
(* lexicographically.  The tuple layer is modelled by its format: a string *)
(* is 02, a byte string 01, each NUL in it followed by FF, and a NUL at    *)
(* the end; a versionstamp is 33 and its bytes, unescaped; a nested tuple  *)
(* is 05, its elements and a NUL.  A versionstamp has 2 bytes of version   *)
(* here instead of 10.                                                     *)
(*                                                                         *)
(* What the ranges should hold is said by DCBIndex, over the same strings. *)
(***************************************************************************)
EXTENDS Integers, Sequences, SequencesExt, Functions, FiniteSets

CONSTANTS
    Namespaces,  \* namespaces of the stores that share the database
    Names,       \* names of subscriptions
    Types, Tags, \* strings given as a type, as a tag
    Inputs,      \* events given to append: [type, tags, data]
    Positions,   \* versionstamps the database may hand out: [ver, idx]
    MaxTags,     \* tags an event may carry
    MaxEvents, MaxCursors   \* bounds on the writes

Byte == 0..255
Word == 0..65535

\* A versionstamp, of two words.
Position == [ver : Word, idx : Word]

\* Strings are of bytes.
ASSUME StringsAssumption ==
    /\ Namespaces \union Names \union Types \union Tags \subseteq Seq(Byte)
    /\ Inputs \subseteq [type : Types, tags : Seq(Seq(Byte)), data : Seq(Byte)]
    /\ Positions \subseteq Position
    /\ MaxTags \in Nat

VARIABLES
    db,          \* the database: byte sequences to byte sequences
    last,        \* the last position handed out
    \* history: what each namespace was told
    stored,      \* its events
    appended,    \* the version of its last append
    cursors      \* the positions saved under each name

vars == <<db, last, stored, appended, cursors>>

Origin == [ver |-> 0, idx |-> 0]

\* Results of a failed decoding, Error::TupleDecode.
NoPosition == [ver |-> -1, idx |-> -1]
NoEvent    == [type |-> <<>>, tags |-> <<>>, data |-> <<>>]

Index == INSTANCE DCBIndex

-----------------------------------------------------------------------------
(***************************************************************************)
(* Tuples: sequences of elements, those of a nested tuple in brackets.     *)
(***************************************************************************)
Str(s)  == [code |-> 2, bytes |-> s]
Blob(s) == [code |-> 1, bytes |-> s]
Vs(s)   == [code |-> 51, bytes |-> s]
Open    == [code |-> 5, bytes |-> <<>>]
Close   == [code |-> 0, bytes |-> <<>>]

VsLen == 4

escape(s) == FlattenSeq([i \in DOMAIN s |-> IF s[i] = 0 THEN <<0, 255>> ELSE <<s[i]>>])

pack_element(e) ==
    <<e.code>> \o (IF e.code \in {1, 2} THEN escape(e.bytes) \o <<0>> ELSE e.bytes)

pack(elems) == FlattenSeq([i \in DOMAIN elems |-> pack_element(elems[i])])

\* The parser of the tuple layer, byte by byte.  `mode` tells what b belongs
\* to: the next element, a string, a NUL of a string that may be its end, or
\* a versionstamp.
unpack_byte(s, b) ==
    LET n       == Len(s.elems)
        extend  == [s.elems EXCEPT ![n].bytes = Append(@, b)]
        element == [elems |-> Append(s.elems, [code |-> b, bytes |-> <<>>]),
                    mode  |-> CASE b \in {1, 2} -> "string"
                                [] b = 51       -> "stamp"
                                [] OTHER        -> "next"]
    IN  CASE s.mode = "string" /\ b = 0   -> [s EXCEPT !.mode = "nul"]
          [] s.mode = "string" /\ b # 0   -> [s EXCEPT !.elems = extend]
          [] s.mode = "nul" /\ b = 255    ->
                [elems |-> [s.elems EXCEPT ![n].bytes = Append(@, 0)], mode |-> "string"]
          [] s.mode = "stamp" /\ Len(s.elems[n].bytes) < VsLen -> [s EXCEPT !.elems = extend]
          [] OTHER                        -> element

unpack(bytes) ==
    LET parsed[i \in 0..Len(bytes)] ==
            IF i = 0 THEN [elems |-> <<>>, mode |-> "next"]
                     ELSE unpack_byte(parsed[i - 1], bytes[i])
    IN  parsed[Len(bytes)].elems

\* The order of the database.
Less(a, b) ==
    \/ IsStrictPrefix(a, b)
    \/ \E i \in DOMAIN a \intersect DOMAIN b :
          /\ a[i] < b[i]
          /\ \A j \in 1..(i - 1) : a[j] = b[j]

-----------------------------------------------------------------------------
(***************************************************************************)
(* encoding.rs.                                                            *)
(***************************************************************************)

\* Bug: one byte for the batch index.
MutShortVs(p) == <<p.ver \div 256, p.ver % 256, p.idx % 256>>

\* Bug: the batch index is written in the order of a small-endian machine.
MutLittleEndian(p) == <<p.ver \div 256, p.ver % 256, p.idx % 256, p.idx \div 256>>

\* Transaction version, then batch index, both big-endian.
vs_bytes(p) == <<p.ver \div 256, p.ver % 256, p.idx \div 256, p.idx % 256>>

EVENTS_SUB == <<101>>                         \* "e"
INDEXES_SUB == <<105>>                        \* "i"
EVENTS_IN_INDEXES_SUB == <<95>>               \* "_"
SENTINEL_SUB == <<108, 97, 115, 116, 118, 115>>   \* "lastvs"
SUBS_SUB == <<115, 117, 98, 115>>             \* "subs"

increasing(s) == \A i, j \in DOMAIN s : i < j => Less(s[i], s[j])

\* Sorted, without duplicates.
sort_tags(tags) == CHOOSE s \in [1..Cardinality(tags) -> tags] : increasing(s)

\* The elements of a list whose index is in the mask.
masked(sorted, mask) ==
    LET kept[i \in 0..Len(sorted)] ==
            CASE i = 0       -> <<>>
              [] i \in mask  -> Append(kept[i - 1], sorted[i])
              [] OTHER       -> kept[i - 1]
    IN  kept[Len(sorted)]

\* The subsets of a sorted list of tags.
generate_superset_presorted(sorted) == {masked(sorted, mask) : mask \in SUBSET DOMAIN sorted}

pack_sentinel_key(ns) == pack(<<Str(ns), Str(SENTINEL_SUB)>>)

\* Bug: cursors have no subspace of their own.
MutNoSubspace(ns, name) == pack(<<Str(ns), Str(name)>>)

pack_cursor_key(ns, name) == pack(<<Str(ns), Str(SUBS_SUB), Str(name)>>)

pack_events_prefix(ns) == pack(<<Str(ns), Str(EVENTS_SUB)>>)

\* Bug: events of one batch are not told apart by their batch index.
MutNoBatchIndex(ns, p) == pack(<<Str(ns), Str(EVENTS_SUB), Vs(vs_bytes([p EXCEPT !.idx = 0]))>>)

pack_event_key(ns, p) == pack(<<Str(ns), Str(EVENTS_SUB), Vs(vs_bytes(p))>>)

tag_sentinel_elems(ns, sorted) ==
    <<Str(ns), Str(INDEXES_SUB)>> \o [i \in DOMAIN sorted |-> Str(sorted[i])]
        \o <<Str(EVENTS_IN_INDEXES_SUB)>>

pack_tag_index_key(ns, sorted, type, p) ==
    pack(tag_sentinel_elems(ns, sorted) \o <<Str(type), Vs(vs_bytes(p))>>)

\* Type, tags as given, data.
encode_event_value(e) ==
    pack(<<Str(e.type), Open>> \o [i \in DOMAIN e.tags |-> Str(e.tags[i])]
            \o <<Close, Blob(e.data)>>)

decode_event_value(bytes) ==
    LET elems == unpack(bytes)
        n     == Len(elems)
        tags  == SubSeq(elems, 3, n - 2)
    IN  IF /\ n >= 4
           /\ <<elems[1].code, elems[2].code, elems[n - 1].code, elems[n].code>> = <<2, 5, 0, 1>>
           /\ \A i \in DOMAIN tags : tags[i].code = 2
        THEN [type |-> elems[1].bytes,
              tags |-> [i \in DOMAIN tags |-> tags[i].bytes],
              data |-> elems[n].bytes]
        ELSE NoEvent

-----------------------------------------------------------------------------
(***************************************************************************)
(* Ranges: query.rs.                                                       *)
(***************************************************************************)

\* The least sequence above all those that begin with `key`, for a key with
\* a byte other than FF.
strinc(key) ==
    LET i == CHOOSE i \in DOMAIN key :
                 key[i] # 255 /\ \A j \in (i + 1)..Len(key) : key[j] = 255
    IN  [SubSeq(key, 1, i) EXCEPT ![i] = @ + 1]

prefix_range(prefix) == [begin |-> prefix, end |-> strinc(prefix)]

after_range(prefix, after) ==
    [begin |-> prefix \o pack(<<Vs(vs_bytes(after))>>) \o <<0>>, end |-> strinc(prefix)]

get_range(r) == {k \in DOMAIN db : ~Less(k, r.begin) /\ Less(k, r.end)}

tag_type_prefix(ns, sorted, type) == pack(Append(tag_sentinel_elems(ns, sorted), Str(type)))

events_in_tag_prefix(ns, sorted) == pack(tag_sentinel_elems(ns, sorted))

\* The element before the last of each key that is long enough.
discover_types_in_tag_subspace(ns, sorted) ==
    LET keys == {unpack(k) : k \in get_range(prefix_range(events_in_tag_prefix(ns, sorted)))}
    IN  {k[Len(k) - 1].bytes : k \in {j \in keys : /\ Len(j) >= Len(sorted) + 5
                                                   /\ j[Len(j) - 1].code = 2}}

type_range(ns, sorted, type, after) ==
    LET prefix == tag_type_prefix(ns, sorted, type)
    IN  IF after = Origin THEN prefix_range(prefix) ELSE after_range(prefix, after)

build_query_ranges(ns, item, after) ==
    LET sorted == sort_tags(item.tags)
        types  == IF item.types # {} THEN item.types
                                     ELSE discover_types_in_tag_subspace(ns, sorted)
    IN  {type_range(ns, sorted, t, after) : t \in types}

position_of(b) == [ver |-> 256 * b[1] + b[2], idx |-> 256 * b[3] + b[4]]

\* The position at the end of a key.
extract_vs(key) ==
    LET n == Len(key) - VsLen
    IN  IF n > 0 /\ key[n] = 51 THEN position_of(SubSeq(key, n + 1, Len(key)))
                                ELSE NoPosition

\* scan_all_events.
read_all(ns) ==
    {[pos |-> extract_vs(k), event |-> decode_event_value(db[k])] :
        k \in get_range(prefix_range(pack_events_prefix(ns)))}

\* The value of a cursor or of the sentinel, None if there is none.
get(key) ==
    IF key \notin DOMAIN db THEN Origin
    ELSE IF Len(db[key]) = VsLen THEN position_of(db[key]) ELSE NoPosition

-----------------------------------------------------------------------------
(***************************************************************************)
(* The operations.                                                         *)
(***************************************************************************)
Init ==
    /\ db = [k \in {} |-> <<>>]
    /\ last = Origin
    /\ stored = [ns \in Namespaces |-> {}]
    /\ appended = [ns \in Namespaces |-> 0]
    /\ cursors = [ns \in Namespaces |-> [name \in Names |-> Origin]]

\* Bug: the reserved tag is not rejected.
MutNotReserved(e) == e.type # <<>> /\ Len(e.tags) <= MaxTags

\* None of MissingEventType, TooManyTags (duplicates count), ReservedTag.
accepted(e) ==
    /\ e.type # <<>>
    /\ Len(e.tags) <= MaxTags
    /\ EVENTS_IN_INDEXES_SUB \notin Range(e.tags)

index_keys(ns, e, p) ==
    {pack_tag_index_key(ns, subset, e.type, p) :
        subset \in generate_superset_presorted(sort_tags(Range(e.tags)))}

\* A commit of append, of which one event is followed, at any index in its
\* batch: append_single's keys with the versionstamp filled in, and the
\* sentinel.  Positions grow over all namespaces; two events of one version
\* are of one batch.
append(ns, e, p) ==
    /\ Index!Before(last, p)
    /\ p.ver = last.ver => appended[ns] = p.ver
    /\ accepted(e)
    /\ db' = [k \in DOMAIN db \union {pack_event_key(ns, p), pack_sentinel_key(ns)}
                      \union index_keys(ns, e, p) |->
                 CASE k = pack_event_key(ns, p)  -> encode_event_value(e)
                   [] k = pack_sentinel_key(ns)  -> vs_bytes([p EXCEPT !.idx = 0])
                   [] k \in index_keys(ns, e, p) -> <<>>
                   [] OTHER                      -> db[k]]
    /\ last' = p
    /\ stored' = [stored EXCEPT ![ns] = @ \union {[pos |-> p, event |-> e]}]
    /\ appended' = [appended EXCEPT ![ns] = p.ver]
    /\ UNCHANGED cursors

\* A subscription saves the position of an event it has read.
set_cursor(ns, name, p) ==
    LET key == pack_cursor_key(ns, name)
    IN  /\ p \in {e.pos : e \in stored[ns]}
        /\ db' = [k \in DOMAIN db \union {key} |-> IF k = key THEN vs_bytes(p) ELSE db[k]]
        /\ cursors' = [cursors EXCEPT ![ns][name] = p]
        /\ UNCHANGED <<last, stored, appended>>

AppendEvent ==
    /\ Cardinality(UNION Range(stored)) < MaxEvents
    /\ \E ns \in Namespaces, e \in Inputs, p \in Positions : append(ns, e, p)

SetCursor ==
    /\ Cardinality({x \in Namespaces \X Names : cursors[x[1]][x[2]] # Origin}) < MaxCursors
    /\ \E ns \in Namespaces, name \in Names, p \in Positions : set_cursor(ns, name, p)

Next == AppendEvent \/ SetCursor

Spec == Init /\ [][Next]_vars

-----------------------------------------------------------------------------
(***************************************************************************)
(* Properties.                                                             *)
(***************************************************************************)
\* The keys whose value is a versionstamp.
MetaKeys == {pack_sentinel_key(ns) : ns \in Namespaces}
                \union {pack_cursor_key(ns, name) : ns \in Namespaces, name \in Names}

BytesTypeOK ==
    /\ \A k \in DOMAIN db : Range(k) \subseteq Byte /\ Range(db[k]) \subseteq Byte
    /\ \A k \in DOMAIN db \intersect MetaKeys : Len(db[k]) = VsLen
    /\ last \in {Origin} \union Positions

\* The events of a namespace and its index keys, as DCBIndex sees them.
Abstract(ns) ==
    {[pos |-> e.pos, type |-> e.event.type, tags |-> Range(e.event.tags)] : e \in stored[ns]}
AbstractKeys(ns) == UNION {Index!index_keys(e) : e \in Abstract(ns)}

Bounds(ns) == {Origin} \union {e.pos : e \in UNION Range(stored)}

\* The tags of a query.
QueryTags == {tags \in SUBSET Tags : IsFiniteSet(tags)}

\* The bytes behind an abstract key.
Packed(ns, k) == pack_tag_index_key(ns, sort_tags(k.tags), k.type, k.pos)

\* Every byte range holds exactly the keys of the abstract range it stands for
\* in DCBIndex, and the scan for types finds the same types: strinc, the
\* byte after `after` and the reserved "_" neither cut a key off nor let one
\* in, of another type, tag set, namespace or subspace.
RangesExact ==
    \A ns \in Namespaces, tags \in QueryTags :
        LET sorted   == sort_tags(tags)
            abstract == AbstractKeys(ns)
        IN  /\ discover_types_in_tag_subspace(ns, sorted)
                   = Index!discover_types_in_tag_subspace(tags, abstract)
            /\ \A type \in Types, after \in Bounds(ns) :
                  get_range(type_range(ns, sorted, type, after))
                    = {Packed(ns, k) : k \in
                          {j \in abstract : Index!InRange(j, Index!tag_type_range(tags, type, after))}}

\* All ranges that a read of the namespace can scan.
Ranges(ns) ==
    {prefix_range(pack_events_prefix(ns))} \union
    {type_range(ns, sort_tags(tags), type, after) :
        tags \in QueryTags, type \in Types, after \in Bounds(ns)}

\* Within a range the database's order of keys is the order of positions,
\* across the carry of every byte: what makes a stream sorted, the merge
\* right and a limit the first events.
ScansInOrder ==
    \A ns \in Namespaces : \A r \in Ranges(ns) : \A k, l \in get_range(r) :
        /\ extract_vs(k) \in Positions
        /\ Less(k, l) <=> Index!Before(extract_vs(k), extract_vs(l))

\* Each namespace reads back what it was told and nothing else, whatever is
\* written in others and whatever bytes its strings contain: its events with
\* their values, its sentinel, and its cursors, one of which may be named like
\* another subspace (ADR 0011: "fully disjoint key ranges").
NamespacesApart ==
    \A ns \in Namespaces :
        /\ read_all(ns) = stored[ns]
        /\ get(pack_sentinel_key(ns)) = [ver |-> appended[ns], idx |-> 0]
        /\ \A name \in Names : get(pack_cursor_key(ns, name)) = cursors[ns][name]

\* A read with `after` returns positions after it only (lib.rs, ReadOptions:
\* "Only return events after this position").
ReadsOnlyAfter ==
    \A ns \in Namespaces : \A r \in {[types |-> {t}, tags |-> {}] : t \in Types} :
        \A after \in Bounds(ns) \ {Origin} :
            \A range \in build_query_ranges(ns, r, after) : \A k \in get_range(range) :
                Index!Before(after, extract_vs(k))

-----------------------------------------------------------------------------
(***************************************************************************)
(* The inductive invariant behind the safety properties.                   *)
(***************************************************************************)

\* The keys of a namespace: of its events, of their index, of its sentinel and of
\* its cursors.
IndexKeys(ns) == UNION {index_keys(ns, e.event, e.pos) : e \in stored[ns]}
Saved(ns)     == {name \in Names : cursors[ns][name] # Origin}

Keys(ns) ==
    {pack_event_key(ns, e.pos) : e \in stored[ns]} \union IndexKeys(ns)
        \union {pack_sentinel_key(ns) : e \in stored[ns]}
        \union {pack_cursor_key(ns, name) : name \in Saved(ns)}

\* The value under each key is the last one written for it.
Values(ns) ==
    /\ \A e \in stored[ns] :
          /\ db[pack_event_key(ns, e.pos)] = encode_event_value(e.event)
          /\ db[pack_sentinel_key(ns)] = vs_bytes([ver |-> appended[ns], idx |-> 0])
    /\ \A k \in IndexKeys(ns) : db[k] = <<>>
    /\ \A name \in Saved(ns) : db[pack_cursor_key(ns, name)] = vs_bytes(cursors[ns][name])

\* What is stored was accepted, at a position of its own that was handed out;
\* the sentinel and the cursors are positions of stored events.
Told ==
    /\ stored \in [Namespaces -> SUBSET [pos : Positions, event : Inputs]]
    /\ appended \in [Namespaces -> Word]
    /\ cursors \in [Namespaces -> [Names -> {Origin} \union Positions]]
    /\ last \in {Origin} \union Positions
    /\ \A ns \in Namespaces :
          /\ \A e \in stored[ns] : /\ accepted(e.event)
                                   /\ Index!Before(Origin, e.pos) /\ ~Index!Before(last, e.pos)
          /\ stored[ns] = {} => appended[ns] = 0
    /\ \A m, n \in Namespaces : \A e \in stored[m], f \in stored[n] :
          e.pos = f.pos => m = n /\ e = f

KeysInv ==
    /\ Told
    /\ DOMAIN db = UNION {Keys(ns) : ns \in Namespaces}
    /\ \A ns \in Namespaces : Values(ns)
=============================================================================
