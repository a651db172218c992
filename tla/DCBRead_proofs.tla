---------------------------- MODULE DCBRead_proofs ----------------------------
(***************************************************************************)
(* Proofs about DCBRead, for every set of batches, queries and limits and  *)
(* any number of commits.                                                  *)
(***************************************************************************)
EXTENDS DCBRead, DCBIndex_proofs, SequenceTheorems

(***************************************************************************)
(* The order of a read, as an operator of its direction.                   *)
(***************************************************************************)
Prec(rev, p, q) == IF rev THEN Before(q, p) ELSE Before(p, q)

\* Either direction is a strict total order of positions.
LEMMA PrecOrder ==
    ASSUME NEW rev, NEW p \in Position, NEW q \in Position, NEW r \in Position
    PROVE  /\ ~Prec(rev, p, p)
           /\ Prec(rev, p, q) /\ Prec(rev, q, r) => Prec(rev, p, r)
           /\ Prec(rev, p, q) => ~Prec(rev, q, p)
           /\ ~Prec(rev, p, q) /\ ~Prec(rev, q, r) => ~Prec(rev, p, r)
           /\ ~Prec(rev, p, q) /\ ~Prec(rev, q, p) => p = q
  BY BeforeOrder DEF Prec

\* A finite set of positions that is not empty has a first position.
LEMMA FirstPosition ==
    ASSUME NEW rev, NEW S \in SUBSET Position, IsFiniteSet(S), S # {}
    PROVE  \E p \in S : \A q \in S : ~Prec(rev, q, p)
<1> DEFINE Earlier(p) == {q \in S : Prec(rev, q, p)}
           T == {Earlier(p) : p \in S}
<1>1. IsWellFoundedOn(StrictSubsetOrdering(S), SUBSET S)
  BY FS_StrictSubsetOrderingWellFounded, FS_FiniteSubsetsOfFinite
<1>2. T \subseteq SUBSET S /\ T # {}
  OBVIOUS
<1>3. PICK x \in T : \A y \in T : ~(<<y, x>> \in StrictSubsetOrdering(S))
  <2> HIDE DEF T
  <2> QED BY <1>1, <1>2, WFMin
<1>4. PICK p \in S : x = Earlier(p)
  BY <1>3
<1>5. ASSUME NEW q \in S, Prec(rev, q, p)
      PROVE  FALSE
  <2>1. Earlier(q) \subseteq Earlier(p)
    BY <1>5, PrecOrder
  <2>2. q \in Earlier(p) /\ q \notin Earlier(q)
    BY <1>5, PrecOrder
  <2>3. <<Earlier(q), Earlier(p)>> \in StrictSubsetOrdering(S)
    BY <2>1, <2>2 DEF StrictSubsetOrdering
  <2> QED
    BY <2>3, <1>3, <1>4
<1> QED
  BY <1>5

(***************************************************************************)
(* Limits.                                                                 *)
(***************************************************************************)
\* How many positions of a set come before p, and whether these fill a page.
Ahead(rev, set, p) == {q \in set : Prec(rev, q, p)}
Cut(rev, limit, set, p) == limit # 0 /\ Cardinality(Ahead(rev, set, p)) >= limit
Page(rev, limit, set) == {p \in set : ~Cut(rev, limit, set, p)}

\* What a stream leaves out for its limit is out of reach of the whole read.
LEMMA CutInMore ==
    ASSUME NEW rev, NEW limit \in Nat, NEW set, IsFiniteSet(set),
           NEW part \in SUBSET set, NEW p, Cut(rev, limit, part, p)
    PROVE  Cut(rev, limit, set, p)
<1>1. Ahead(rev, part, p) \subseteq Ahead(rev, set, p)
  BY DEF Ahead
<1>2. IsFiniteSet(Ahead(rev, set, p))
  BY FS_Subset DEF Ahead
<1>3. Cardinality(Ahead(rev, part, p)) <= Cardinality(Ahead(rev, set, p))
  BY <1>1, <1>2, FS_Subset
<1>4. /\ Cardinality(Ahead(rev, set, p)) \in Nat
      /\ Cardinality(Ahead(rev, part, p)) \in Nat
  BY <1>1, <1>2, FS_Subset, FS_CardinalityType
<1> QED
  BY <1>3, <1>4 DEF Cut

\* A set of elements of a sequence is no larger than the sequence is long.
LEMMA ElementsBounded ==
    ASSUME NEW S, NEW seq \in Seq(S), NEW set \in SUBSET Range(seq)
    PROVE  IsFiniteSet(set) /\ Cardinality(set) \in Nat /\ Cardinality(set) <= Len(seq)
<1>1. Len(seq) \in Nat /\ DOMAIN seq = 1..Len(seq)
  OBVIOUS
<1>2. seq \in Surjection(1..Len(seq), Range(seq))
  BY <1>1 DEF Surjection, Range
<1>3. IsFiniteSet(1..Len(seq)) /\ Cardinality(1..Len(seq)) = Len(seq)
  BY <1>1, FS_Interval
<1>4. IsFiniteSet(Range(seq)) /\ Cardinality(Range(seq)) <= Len(seq)
  BY <1>2, <1>3, FS_Surjection
<1>5. IsFiniteSet(set) /\ Cardinality(set) <= Cardinality(Range(seq))
  BY <1>4, FS_Subset
<1>6. Cardinality(set) \in Nat /\ Cardinality(Range(seq)) \in Nat
  BY <1>4, <1>5, FS_CardinalityType
<1> QED
  BY <1>1, <1>4, <1>5, <1>6

\* While less than a page is emitted, a beginning of the answer of which
\* every position is emitted or cut is emitted: its first position that is
\* not would have a whole page of emitted positions ahead of it.
LEMMA NoneCut ==
    ASSUME NEW rev, NEW limit \in Nat, NEW W \in SUBSET Position, IsFiniteSet(W),
           NEW seq \in Seq(Position), limit = 0 \/ Len(seq) < limit,
           NEW D \in SUBSET W,
           \A q \in D : \A r \in W : Prec(rev, r, q) => r \in D,
           \A q \in D : q \in Range(seq) \/ Cut(rev, limit, W, q)
    PROVE  D \subseteq Range(seq)
<1> DEFINE X == {q \in D : q \notin Range(seq)}
<1> SUFFICES ASSUME X # {} PROVE FALSE
  OBVIOUS
<1>1. X \in SUBSET Position /\ IsFiniteSet(X)
  BY FS_Subset
<1>2. PICK q \in X : \A r \in X : ~Prec(rev, r, q)
  BY <1>1, FirstPosition
<1>3. limit # 0 /\ Cardinality(Ahead(rev, W, q)) >= limit
  BY DEF Cut
<1>4. Ahead(rev, W, q) \in SUBSET Range(seq)
  BY <1>2 DEF Ahead
<1>5. Cardinality(Ahead(rev, W, q)) \in Nat /\ Cardinality(Ahead(rev, W, q)) <= Len(seq)
  BY <1>4, ElementsBounded
<1>6. Len(seq) \in Nat
  OBVIOUS
<1> QED
  BY <1>3, <1>5, <1>6

(***************************************************************************)
(* Emitting.                                                               *)
(***************************************************************************)
HeadsOf(rev, seq, set) ==
    \A i \in DOMAIN seq :
        /\ seq[i] \in set
        /\ Ahead(rev, set, seq[i]) = {seq[j] : j \in 1..(i - 1)}

\* The first positions of a set are in order, none of them twice.
LEMMA HeadsInOrder ==
    ASSUME NEW rev, NEW set \in SUBSET Position, NEW seq \in Seq(Position),
           HeadsOf(rev, seq, set), NEW i \in DOMAIN seq, NEW j \in DOMAIN seq, i < j
    PROVE  Prec(rev, seq[i], seq[j]) /\ seq[i] # seq[j]
<1>1. i \in 1..(j - 1)
  OBVIOUS
<1>2. seq[i] \in Ahead(rev, set, seq[j])
  BY <1>1 DEF HeadsOf
<1>3. seq[i] \in Position /\ seq[j] \in Position
  BY DEF HeadsOf
<1> QED
  BY <1>2, <1>3, PrecOrder DEF Ahead

LEMMA AppendHeads ==
    ASSUME NEW rev, NEW set \in SUBSET Position, NEW seq \in Seq(Position),
           HeadsOf(rev, seq, set), NEW p \in set, Ahead(rev, set, p) = Range(seq)
    PROVE  HeadsOf(rev, Append(seq, p), set)
<1> DEFINE new == Append(seq, p)
<1>1. /\ Len(seq) \in Nat /\ DOMAIN seq = 1..Len(seq) /\ DOMAIN new = 1..(Len(seq) + 1)
      /\ new[Len(seq) + 1] = p
      /\ \A i \in 1..Len(seq) : new[i] = seq[i]
  OBVIOUS
<1> HIDE DEF new
<1>2. ASSUME NEW i \in 1..Len(seq)
      PROVE  new[i] \in set /\ Ahead(rev, set, new[i]) = {new[j] : j \in 1..(i - 1)}
  <2>1. {new[j] : j \in 1..(i - 1)} = {seq[j] : j \in 1..(i - 1)}
    BY <1>1
  <2> QED
    BY <1>1, <2>1 DEF HeadsOf
<1>3. Range(seq) = {new[j] : j \in 1..Len(seq)}
  BY <1>1 DEF Range
<1>4. ASSUME NEW i \in DOMAIN new
      PROVE  new[i] \in set /\ Ahead(rev, set, new[i]) = {new[j] : j \in 1..(i - 1)}
  <2>1. CASE i \in 1..Len(seq)
    BY <1>2, <2>1
  <2>2. CASE i = Len(seq) + 1
    <3>1. new[i] = p /\ i - 1 = Len(seq)
      BY <1>1, <2>2
    <3> QED
      BY <1>3, <3>1
  <2> QED
    BY <1>1, <2>1, <2>2
<1>5. HeadsOf(rev, new, set)
  BY <1>4 DEF HeadsOf
<1> QED
  BY <1>5 DEF new

LEMMA AppendRange ==
    ASSUME NEW S, NEW seq \in Seq(S), NEW p \in S
    PROVE  /\ Append(seq, p) \in Seq(S)
           /\ Len(Append(seq, p)) = Len(seq) + 1
           /\ Append(seq, p)[Len(seq) + 1] = p
           /\ Range(Append(seq, p)) = Range(seq) \union {p}
<1>1. /\ Len(seq) \in Nat /\ DOMAIN seq = 1..Len(seq)
      /\ DOMAIN Append(seq, p) = 1..(Len(seq) + 1)
      /\ Append(seq, p)[Len(seq) + 1] = p
      /\ \A i \in 1..Len(seq) : Append(seq, p)[i] = seq[i]
      /\ Len(Append(seq, p)) = Len(seq) + 1
      /\ Append(seq, p) \in Seq(S)
  OBVIOUS
<1> DEFINE new == Append(seq, p)
<1> HIDE DEF new
<1>2. ASSUME NEW i \in DOMAIN new
      PROVE  new[i] \in Range(seq) \union {p}
  <2>1. i \in 1..Len(seq) \/ i = Len(seq) + 1
    BY <1>1 DEF new
  <2> QED
    BY <1>1, <2>1 DEF new, Range
<1>3. \A i \in DOMAIN seq : i \in DOMAIN new /\ new[i] = seq[i]
  BY <1>1 DEF new
<1>4. Len(seq) + 1 \in DOMAIN new /\ new[Len(seq) + 1] = p
  BY <1>1 DEF new
<1>5. Range(new) = Range(seq) \union {p}
  BY <1>2, <1>3, <1>4 DEF Range
<1> QED
  BY <1>1, <1>5 DEF new

\* What a merge that goes on keeps: less than a page is emitted, and what is
\* neither emitted nor left is cut.
Gives(rev, limit, W, seq, left) ==
    /\ limit = 0 \/ Len(seq) < limit
    /\ left \subseteq W
    /\ \A p \in W : p \in Range(seq) \/ p \in left \/ Cut(rev, limit, W, p)
    /\ \A p \in left : \A q \in Range(seq) : ~Prec(rev, p, q)

\* The first of what is left, unless it is the last emitted, comes next.
LEMMA Emit ==
    ASSUME NEW rev, NEW limit \in Nat, NEW W \in SUBSET Position, IsFiniteSet(W),
           NEW seq \in Seq(Position), HeadsOf(rev, seq, W),
           NEW left, Gives(rev, limit, W, seq, left),
           NEW p \in left, p \notin Range(seq), \A q \in left : ~Prec(rev, q, p)
    PROVE  HeadsOf(rev, Append(seq, p), W)
<1> DEFINE D == Ahead(rev, W, p)
<1>1. p \in W /\ p \in Position
  BY DEF Gives
<1>2. \A q \in Range(seq) : q \in W /\ q \in Position
  BY DEF HeadsOf, Range
<1>3. \A q \in Range(seq) : Prec(rev, q, p)
  BY <1>1, <1>2, PrecOrder DEF Gives
<1>4. D \in SUBSET W
  BY DEF Ahead
<1>5. \A q \in D : \A r \in W : Prec(rev, r, q) => r \in D
  BY <1>1, PrecOrder DEF Ahead
<1>6. \A q \in D : q \in Range(seq) \/ Cut(rev, limit, W, q)
  BY DEF Gives, Ahead
<1>7. limit = 0 \/ Len(seq) < limit
  BY DEF Gives
<1>8. D \subseteq Range(seq)
  <2> HIDE DEF D
  <2> QED BY <1>4, <1>5, <1>6, <1>7, NoneCut
<1>9. Ahead(rev, W, p) = Range(seq)
  BY <1>2, <1>3, <1>8 DEF Ahead
<1> QED
  BY <1>1, <1>9, AppendHeads

\* After it is emitted, what is left is after it or is it again.
LEMMA EmitGives ==
    ASSUME NEW rev, NEW limit \in Nat, NEW W \in SUBSET Position,
           NEW seq \in Seq(Position), HeadsOf(rev, seq, W),
           NEW left, Gives(rev, limit, W, seq, left),
           NEW p \in left, \A q \in left : ~Prec(rev, q, p),
           NEW rest \in SUBSET left, left \subseteq rest \union {p},
           limit = 0 \/ Len(seq) + 1 < limit
    PROVE  Gives(rev, limit, W, Append(seq, p), rest)
<1>1. p \in Position
  BY DEF Gives
<1>2. /\ Len(Append(seq, p)) = Len(seq) + 1
      /\ Range(Append(seq, p)) = Range(seq) \union {p}
  BY <1>1, AppendRange
<1> QED
  BY <1>1, <1>2 DEF Gives

\* When nothing is left, the answer has been emitted.
LEMMA EmittedAll ==
    ASSUME NEW rev, NEW limit \in Nat, NEW W \in SUBSET Position, IsFiniteSet(W),
           NEW seq \in Seq(Position), HeadsOf(rev, seq, W), Gives(rev, limit, W, seq, {})
    PROVE  Range(seq) = W
<1>1. W \subseteq Range(seq)
  BY NoneCut DEF Gives
<1>2. Range(seq) \subseteq W
  BY DEF HeadsOf, Range
<1> QED
  BY <1>1, <1>2

(***************************************************************************)
(* The merge as an operator of its state.                                  *)
(***************************************************************************)
LeftIn(str, hp) == (UNION {str[id] : id \in DOMAIN str}) \union {item.vs : item \in hp}

LEMMA InLeft ==
    ASSUME NEW str, NEW hp, NEW p
    PROVE  p \in LeftIn(str, hp) <=> \/ \E id \in DOMAIN str : p \in str[id]
                                     \/ \E item \in hp : p = item.vs
<1>1. p \in UNION {str[id] : id \in DOMAIN str} <=> \E id \in DOMAIN str : p \in str[id]
  BY Zenon
<1>2. p \in {item.vs : item \in hp} <=> \E item \in hp : p = item.vs
  BY Zenon
<1> QED
  BY <1>1, <1>2, Zenon DEF LeftIn

ScanOK(str, hp, seq) ==
    /\ hp = {}
    /\ \A p \in LeftIn(str, hp) : p \notin Range(seq)
    /\ \A id, other \in DOMAIN str : id = other

\* The heap leads the streams.
LeadsIn(rev, str, hp) ==
    \A id \in DOMAIN str : \A p \in str[id] :
        \E item \in hp : item.iter = id /\ ~Prec(rev, p, item.vs)

LastIs(seq, last) == last = IF seq = <<>> THEN Origin ELSE seq[Len(seq)]

MergedOK(limit, W, seq) ==
    IF limit # 0 /\ Len(seq) >= limit THEN Len(seq) = limit ELSE Range(seq) = W

AttemptOK(stage, rev, limit, W, str, hp, last, seq) ==
    /\ stage = "seeding" =>
          /\ hp = {} /\ seq = <<>> /\ last = Origin
          /\ Gives(rev, limit, W, seq, LeftIn(str, hp))
    /\ stage = "scanning" =>
          /\ HeadsOf(rev, seq, W)
          /\ Gives(rev, limit, W, seq, LeftIn(str, hp))
          /\ ScanOK(str, hp, seq)
    /\ stage = "merging" =>
          /\ HeadsOf(rev, seq, W)
          /\ Gives(rev, limit, W, seq, LeftIn(str, hp))
          /\ LeadsIn(rev, str, hp)
          /\ LastIs(seq, last)
    /\ stage = "fetching" =>
          /\ HeadsOf(rev, seq, W)
          /\ MergedOK(limit, W, seq)

LEMMA AttemptState ==
    ASSUME ReadTypeOK
    PROVE  MergeIsPrefix /\ Merging /\ ScanLeads /\ HeapLeads /\ Merged
             <=> AttemptOK(pc, ask.reverse, ask.limit, Answer, streams, heap,
                           last_emitted, ordered_vses)
<1>1. ask.limit \in Nat /\ Len(ordered_vses) \in Nat
  BY DEF ReadTypeOK, Ask
<1>2. full(ordered_vses) <=> ask.limit # 0 /\ Len(ordered_vses) >= ask.limit
  BY <1>1 DEF full
<1>3. MergeIsPrefix <=> (pc \in {"scanning", "merging", "fetching"} =>
                            HeadsOf(ask.reverse, ordered_vses, Answer))
  BY DEF MergeIsPrefix, Heads, HeadsOf, Precedes, Prec, Ahead
<1>4. Merging <=> (pc \in {"scanning", "seeding", "merging"} =>
                      Gives(ask.reverse, ask.limit, Answer, ordered_vses, LeftIn(streams, heap)))
  <2>1. ~full(ordered_vses) <=> ask.limit = 0 \/ Len(ordered_vses) < ask.limit
    BY <1>1, <1>2
  <2>2. Left = LeftIn(streams, heap)
    BY DEF Left, LeftIn
  <2>3. \A p : BeyondLimit(p) <=> Cut(ask.reverse, ask.limit, Answer, p)
    BY DEF BeyondLimit, Cut, Ahead, Precedes, Prec
  <2>4. \A p, q : Precedes(p, q) <=> Prec(ask.reverse, p, q)
    BY DEF Precedes, Prec
  <2> QED
    BY <2>1, <2>2, <2>3, <2>4 DEF Merging, Attempt, Gives
<1>5. ScanLeads <=> (pc = "scanning" => ScanOK(streams, heap, ordered_vses))
  BY DEF ScanLeads, ScanOK, LeftIn, Left
<1>6. HeapLeads <=>
         /\ pc = "seeding" => heap = {} /\ ordered_vses = <<>> /\ last_emitted = Origin
         /\ pc = "merging" => /\ LeadsIn(ask.reverse, streams, heap)
                              /\ LastIs(ordered_vses, last_emitted)
  BY DEF HeapLeads, LeadsIn, LastIs, Precedes, Prec
<1>7. Merged <=> (pc = "fetching" => MergedOK(ask.limit, Answer, ordered_vses))
  BY <1>2 DEF Merged, MergedOK
<1> QED
  BY <1>3, <1>4, <1>5, <1>6, <1>7 DEF AttemptOK

LEMMA AttemptStateNext ==
    ASSUME ReadTypeOK'
    PROVE  (MergeIsPrefix /\ Merging /\ ScanLeads /\ HeapLeads /\ Merged)'
             <=> AttemptOK(pc', ask'.reverse, ask'.limit, Answer', streams', heap',
                           last_emitted', ordered_vses')
<1>1. ask'.limit \in Nat /\ Len(ordered_vses') \in Nat
  BY DEF ReadTypeOK, Ask
<1>2. full(ordered_vses)' <=> ask'.limit # 0 /\ Len(ordered_vses') >= ask'.limit
  BY <1>1 DEF full
<1>3. MergeIsPrefix' <=> (pc' \in {"scanning", "merging", "fetching"} =>
                            HeadsOf(ask'.reverse, ordered_vses', Answer'))
  BY DEF MergeIsPrefix, Heads, HeadsOf, Precedes, Prec, Ahead
<1>4. Merging' <=> (pc' \in {"scanning", "seeding", "merging"} =>
                      Gives(ask'.reverse, ask'.limit, Answer', ordered_vses', LeftIn(streams', heap')))
  <2>1. ~full(ordered_vses)' <=> ask'.limit = 0 \/ Len(ordered_vses') < ask'.limit
    BY <1>1, <1>2
  <2>2. Left' = LeftIn(streams', heap')
    BY DEF Left, LeftIn
  <2>3. \A p : BeyondLimit(p)' <=> Cut(ask'.reverse, ask'.limit, Answer', p)
    BY DEF BeyondLimit, Cut, Ahead, Precedes, Prec
  <2>4. \A p, q : Precedes(p, q)' <=> Prec(ask'.reverse, p, q)
    BY DEF Precedes, Prec
  <2> QED
    BY <2>1, <2>2, <2>3, <2>4 DEF Merging, Attempt, Gives
<1>5. ScanLeads' <=> (pc' = "scanning" => ScanOK(streams', heap', ordered_vses'))
  BY DEF ScanLeads, ScanOK, LeftIn, Left
<1>6. HeapLeads' <=>
         /\ pc' = "seeding" => heap' = {} /\ ordered_vses' = <<>> /\ last_emitted' = Origin
         /\ pc' = "merging" => /\ LeadsIn(ask'.reverse, streams', heap')
                               /\ LastIs(ordered_vses', last_emitted')
  BY DEF HeapLeads, LeadsIn, LastIs, Precedes, Prec
<1>7. Merged' <=> (pc' = "fetching" => MergedOK(ask'.limit, Answer', ordered_vses'))
  BY <1>2 DEF Merged, MergedOK
<1> QED
  BY <1>3, <1>4, <1>5, <1>6, <1>7 DEF AttemptOK

(***************************************************************************)
(* The answer.                                                             *)
(***************************************************************************)
LEMMA PositionsFinite ==
    ASSUME NEW S \in SUBSET StoredEvent, IsFiniteSet(S)
    PROVE  {e.pos : e \in S} \in SUBSET Position /\ IsFiniteSet({e.pos : e \in S})
<1> DEFINE P == {e.pos : e \in S}
           f == [e \in S |-> e.pos]
<1>1. P \subseteq Position
  BY DEF StoredEvent
<1>2. f \in Surjection(S, P)
  BY DEF Surjection
<1> HIDE DEF f, P
<1>3. IsFiniteSet(P)
  BY <1>2, FS_Surjection
<1> QED
  BY <1>1, <1>3 DEF P

\* An answer is made of stored events, up to the version it is of.
LEMMA WantedStored ==
    ASSUME NEW after, NEW v
    PROVE  Wanted(after, v) \subseteq events_at(v) /\ events_at(v) \subseteq events
  BY DEF Wanted, Selected, events_at

LEMMA AnswerType ==
    ASSUME ReadTypeOK, Recorded
    PROVE  /\ Answer \in SUBSET Position
           /\ IsFiniteSet(Answer)
           /\ Origin \notin Answer
<1>1. Wanted(ask.after, rv) \subseteq events
  BY WantedStored
<1>2. Wanted(ask.after, rv) \in SUBSET StoredEvent /\ IsFiniteSet(Wanted(ask.after, rv))
  BY <1>1, FS_Subset DEF ReadTypeOK, Recorded
<1>3. \A e \in Wanted(ask.after, rv) : e.pos.ver # 0
  BY <1>1 DEF ReadTypeOK, Recorded
<1> QED
  BY <1>2, <1>3, PositionsFinite DEF Answer, Origin

LEMMA FirstIs ==
    ASSUME NEW set \in SUBSET Position, IsFiniteSet(set), set # {}
    PROVE  First(set) \in set /\ \A q \in set : ~Prec(ask.reverse, q, First(set))
<1> DEFINE Is(p) == \A q \in set : ~Prec(ask.reverse, q, p)
<1>1. \E p \in set : Is(p)
  BY FirstPosition
<1>2. First(set) = CHOOSE p \in set : Is(p)
  BY DEF First, Precedes, Prec
<1>3. First(set) \in set /\ Is(First(set))
  <2> HIDE DEF Is
  <2> QED BY <1>1, <1>2
<1> QED
  BY <1>3

\* A step of an attempt has only the merge to look after.
LEMMA WithinAttempt ==
    ASSUME ReadInv, ReadTypeOK',
           UNCHANGED <<version, events, callVars, result>>,
           pc \notin {"idle", "done"}, pc' \in Attempt \union {"ready"},
           rv' \in {rv, version}, pc' \in Attempt => since <= rv',
           AttemptOK(pc', ask'.reverse, ask'.limit, Answer', streams', heap',
                     last_emitted', ordered_vses')
    PROVE  ReadInv'
<1>1. UNCHANGED <<version, events, ask, since, start, paged, result>>
  BY DEF callVars
<1>2. Recorded'
  BY <1>1 DEF ReadInv, Recorded
<1>3. pc' # "idle" /\ pc' # "done"
  BY DEF Attempt
<1>4. Asked'
  <2>1. version \in Nat
    BY DEF ReadInv, ReadTypeOK
  <2> QED
    BY <1>1, <1>3, <2>1 DEF ReadInv, Asked
<1>5. ExactAnswer'
  BY <1>3 DEF ExactAnswer
<1>6. Paging'
  <2>1. Wanted(start, version)' = Wanted(start, version)
    BY <1>1 DEF Wanted, Selected, events_at
  <2> QED
    BY <1>1, <2>1 DEF ReadInv, Paging
<1> QED
  BY <1>2, <1>4, <1>5, <1>6, AttemptStateNext DEF ReadInv

LEMMA SameAnswer ==
    ASSUME UNCHANGED <<events, ask, rv>>
    PROVE  Answer' = Answer
  BY DEF Answer, Wanted, Selected, events_at

\* The types of what a merge step changes.
LEMMA MergeTypes ==
    ASSUME ReadTypeOK, UNCHANGED <<version, events, callVars, retries, rv, result>>,
           pc' \in Attempt,
           \A id \in DOMAIN streams' : streams'[id] \in SUBSET Position,
           \A item \in heap' : item.vs \in Position /\ item.iter \in DOMAIN streams',
           last_emitted' \in Position, ordered_vses' \in Seq(Position)
    PROVE  ReadTypeOK'
  BY DEF ReadTypeOK, callVars, Attempt

LEMMA ScanInv ==
    ASSUME ReadInv, Scan
    PROVE  ReadInv'
<1> PICK rev, limit, W, seq : /\ rev = ask.reverse /\ limit = ask.limit
                              /\ W = Answer /\ seq = ordered_vses
  OBVIOUS
<1>1. PICK id \in DOMAIN streams :
          IF streams[id] = {}
          THEN pc' = "fetching" /\ UNCHANGED <<streams, ordered_vses>>
          ELSE /\ streams' = [streams EXCEPT ![id] = @ \ {First(@)}]
               /\ ordered_vses' = Append(ordered_vses, First(streams[id]))
               /\ pc' = IF full(ordered_vses') THEN "fetching" ELSE pc
  BY DEF Scan
<1>2. /\ pc = "scanning"
      /\ UNCHANGED <<version, events, callVars, retries, rv, heap, last_emitted, result>>
  BY DEF Scan
<1>3. UNCHANGED <<version, events, ask, rv>>
  BY <1>2 DEF callVars
<1>4. /\ limit \in Nat /\ seq \in Seq(Position) /\ Len(seq) \in Nat
      /\ \A i \in DOMAIN streams : streams[i] \in SUBSET Position
      /\ last_emitted \in Position
  BY DEF ReadInv, ReadTypeOK, Ask
<1>5. W \in SUBSET Position /\ IsFiniteSet(W) /\ Answer' = W
  BY <1>3, AnswerType, SameAnswer DEF ReadInv
<1>6. /\ HeadsOf(rev, seq, W) /\ Gives(rev, limit, W, seq, LeftIn(streams, heap))
      /\ ScanOK(streams, heap, seq)
  BY <1>2, AttemptState DEF ReadInv, AttemptOK
<1>7. heap = {} /\ LeftIn(streams, heap) = streams[id] /\ DOMAIN streams = {id}
  BY <1>6 DEF ScanOK, LeftIn
<1>8. since <= rv
  BY <1>2 DEF ReadInv, Asked, Attempt
<1>9. CASE streams[id] = {}
  <2>1. pc' = "fetching" /\ UNCHANGED <<streams, ordered_vses>>
    BY <1>1, <1>9
  <2>2. Range(seq) = W
    <3>1. Gives(rev, limit, W, seq, {})
      BY <1>6, <1>7, <1>9
    <3> QED
      BY <1>4, <1>5, <1>6, <3>1, EmittedAll
  <2>3. MergedOK(limit, W, seq)
    BY <1>4, <1>6, <2>2 DEF MergedOK, Gives
  <2>4. ReadTypeOK'
    BY <1>2, <1>4, <1>7, <2>1, MergeTypes DEF ReadInv, Attempt
  <2>5. AttemptOK(pc', ask'.reverse, ask'.limit, Answer', streams', heap',
                  last_emitted', ordered_vses')
    BY <1>3, <1>5, <1>6, <2>1, <2>3 DEF AttemptOK
  <2> QED
    BY <1>2, <1>3, <1>8, <2>1, <2>4, <2>5, WithinAttempt DEF Attempt
<1>10. CASE streams[id] # {}
  <2> PICK p : p = First(streams[id])
    OBVIOUS
  <2>1. /\ streams' = [streams EXCEPT ![id] = @ \ {p}]
        /\ ordered_vses' = Append(seq, p)
        /\ pc' = IF full(ordered_vses') THEN "fetching" ELSE "scanning"
    BY <1>1, <1>2, <1>10
  <2>2. IsFiniteSet(streams[id])
    BY <1>5, <1>6, <1>7, FS_Subset DEF Gives
  <2>3. p \in streams[id] /\ \A q \in streams[id] : ~Prec(rev, q, p)
    BY <1>4, <1>10, <2>2, FirstIs
  <2>4. p \notin Range(seq) /\ p \in Position
    BY <1>4, <1>6, <1>7, <2>3 DEF ScanOK
  <2>5. HeadsOf(rev, Append(seq, p), W)
    BY <1>4, <1>5, <1>6, <1>7, <2>3, <2>4, Emit
  <2>6. /\ Append(seq, p) \in Seq(Position)
        /\ Len(Append(seq, p)) = Len(seq) + 1
        /\ Range(Append(seq, p)) = Range(seq) \union {p}
    BY <1>4, <2>4, AppendRange
  <2>7. DOMAIN streams' = {id} /\ streams'[id] = streams[id] \ {p}
    BY <1>7, <2>1
  <2>8. LeftIn(streams', heap') = streams[id] \ {p}
    BY <1>2, <1>7, <2>7 DEF LeftIn
  <2>9. ReadTypeOK'
    <3>1. pc' \in Attempt
      BY <2>1 DEF Attempt
    <3> QED
      BY <1>2, <1>4, <1>7, <2>1, <2>6, <2>7, <3>1, MergeTypes DEF ReadInv
  <2>10. full(ordered_vses') <=> limit # 0 /\ Len(seq) + 1 >= limit
    BY <1>4, <2>1, <2>6 DEF full
  <2>11. CASE limit # 0 /\ Len(seq) + 1 >= limit
    <3>1. MergedOK(limit, W, Append(seq, p))
      BY <1>4, <1>6, <2>6, <2>11 DEF MergedOK, Gives
    <3>2. pc' = "fetching"
      BY <2>1, <2>10, <2>11
    <3>3. AttemptOK(pc', ask'.reverse, ask'.limit, Answer', streams', heap',
                    last_emitted', ordered_vses')
      BY <1>3, <1>5, <2>1, <2>5, <3>1, <3>2 DEF AttemptOK
    <3> QED
      BY <1>2, <1>3, <1>8, <2>9, <3>2, <3>3, WithinAttempt DEF Attempt
  <2>12. CASE ~(limit # 0 /\ Len(seq) + 1 >= limit)
    <3>1. limit = 0 \/ Len(seq) + 1 < limit
      BY <1>4, <2>12
    <3>2. Gives(rev, limit, W, Append(seq, p), streams[id] \ {p})
      BY <1>4, <1>5, <1>6, <1>7, <2>3, <3>1, EmitGives
    <3>3. ScanOK(streams', heap', Append(seq, p))
      BY <1>2, <1>6, <1>7, <2>6, <2>7, <2>8 DEF ScanOK
    <3>4. pc' = "scanning"
      BY <2>1, <2>10, <2>12
    <3>5. AttemptOK(pc', ask'.reverse, ask'.limit, Answer', streams', heap',
                    last_emitted', ordered_vses')
      BY <1>3, <1>5, <2>1, <2>5, <2>8, <3>2, <3>3, <3>4 DEF AttemptOK
    <3> QED
      BY <1>2, <1>3, <1>8, <2>9, <3>4, <3>5, WithinAttempt DEF Attempt
  <2> QED
    BY <2>11, <2>12
<1> QED
  BY <1>9, <1>10

(***************************************************************************)
(* The heap.                                                               *)
(***************************************************************************)
\* Advancing some streams moves their heads to the heap: nothing is lost, and
\* the heap leads again if it led the others.
LEMMA AdvanceStreams ==
    ASSUME \A id \in DOMAIN streams : streams[id] \in SUBSET Position /\ IsFiniteSet(streams[id]),
           \A item \in heap : item.vs \in Position /\ item.iter \in DOMAIN streams,
           NEW ids \in SUBSET DOMAIN streams, NEW rest \in SUBSET heap, advance(ids, rest),
           \A id \in DOMAIN streams \ ids : \A p \in streams[id] :
               \E item \in rest : item.iter = id /\ ~Prec(ask.reverse, p, item.vs)
    PROVE  /\ \A id \in DOMAIN streams' : streams'[id] \in SUBSET Position
           /\ \A item \in heap' : item.vs \in Position /\ item.iter \in DOMAIN streams'
           /\ LeftIn(streams', heap') \subseteq LeftIn(streams, heap)
           /\ LeftIn(streams, heap) \subseteq
                  LeftIn(streams', heap') \union {item.vs : item \in heap \ rest}
           /\ LeadsIn(ask.reverse, streams', heap')
<1> DEFINE more == {id \in ids : streams[id] # {}}
           head(id) == First(streams[id])
<1>1. /\ heap' = rest \union {[vs |-> head(id), iter |-> id] : id \in more}
      /\ streams' = [id \in DOMAIN streams |-> IF id \in more THEN streams[id] \ {head(id)}
                                                             ELSE streams[id]]
  BY DEF advance
<1>2. \A id \in more : /\ head(id) \in streams[id]
                       /\ \A q \in streams[id] : ~Prec(ask.reverse, q, head(id))
  BY FirstIs
<1> HIDE DEF head
<1>3. DOMAIN streams' = DOMAIN streams
  BY <1>1
<1>4. \A id \in DOMAIN streams :
          /\ id \in more => streams'[id] = streams[id] \ {head(id)}
          /\ id \notin more => streams'[id] = streams[id]
  BY <1>1
<1>5. \A id \in more : id \in DOMAIN streams
  OBVIOUS
<1>6. /\ \A id \in DOMAIN streams' : streams'[id] \in SUBSET Position
      /\ \A item \in heap' : item.vs \in Position /\ item.iter \in DOMAIN streams'
  BY <1>1, <1>2, <1>3, <1>4, <1>5
<1>7. ASSUME NEW p \in LeftIn(streams', heap')
      PROVE  p \in LeftIn(streams, heap)
  <2>1. \/ \E id \in DOMAIN streams' : p \in streams'[id]
        \/ \E item \in heap' : p = item.vs
    BY InLeft
  <2>2. \/ \E id \in DOMAIN streams : p \in streams[id]
        \/ \E item \in heap : p = item.vs
    BY <1>1, <1>2, <1>3, <1>4, <1>5, <2>1
  <2> QED
    BY <2>2, InLeft
<1>8. ASSUME NEW p \in LeftIn(streams, heap)
      PROVE  p \in LeftIn(streams', heap') \union {item.vs : item \in heap \ rest}
  <2>1. \/ \E id \in DOMAIN streams : p \in streams[id]
        \/ \E item \in heap : p = item.vs
    BY InLeft
  <2>2. \/ \E id \in DOMAIN streams' : p \in streams'[id]
        \/ \E item \in heap' : p = item.vs
        \/ \E item \in heap \ rest : p = item.vs
    <3>1. ASSUME NEW id \in DOMAIN streams, p \in streams[id]
          PROVE  p \in streams'[id] \/ \E item \in heap' : p = item.vs
      <4>1. CASE id \in more /\ p = head(id)
        <5>1. [vs |-> head(id), iter |-> id] \in heap'
          BY <1>1, <4>1
        <5>2. [vs |-> head(id), iter |-> id].vs = p
          BY <4>1
        <5> QED
          BY <5>1, <5>2
      <4>2. CASE ~(id \in more /\ p = head(id))
        BY <1>4, <3>1, <4>2
      <4> QED
        BY <4>1, <4>2
    <3>2. ASSUME NEW item \in heap, p = item.vs
          PROVE  (\E i \in heap' : p = i.vs) \/ \E i \in heap \ rest : p = i.vs
      BY <1>1, <3>2
    <3> QED
      BY <1>3, <2>1, <3>1, <3>2
  <2>3. p \in LeftIn(streams', heap') \/ \E item \in heap \ rest : p = item.vs
    BY <2>2, InLeft
  <2> QED
    BY <2>3
<1>9. LeadsIn(ask.reverse, streams', heap')
  <2> SUFFICES ASSUME NEW id \in DOMAIN streams, NEW p \in streams'[id]
               PROVE  \E item \in heap' : item.iter = id /\ ~Prec(ask.reverse, p, item.vs)
    BY <1>3 DEF LeadsIn
  <2>1. CASE id \in more
    <3>1. [vs |-> head(id), iter |-> id] \in heap'
      BY <1>1, <2>1
    <3>2. ~Prec(ask.reverse, p, head(id))
      BY <1>2, <1>4, <2>1
    <3> QED
      BY <3>1, <3>2
  <2>2. CASE id \notin more
    <3>1. id \in DOMAIN streams \ ids /\ p \in streams[id]
      BY <1>4, <2>2
    <3> QED
      BY <1>1, <3>1
  <2> QED
    BY <2>1, <2>2
<1> QED
  BY <1>6, <1>7, <1>8, <1>9

\* The streams of an attempt are finite.
LEMMA StreamsType ==
    ASSUME ReadInv, pc \in {"seeding", "merging"}
    PROVE  /\ \A id \in DOMAIN streams : streams[id] \in SUBSET Position /\ IsFiniteSet(streams[id])
           /\ \A item \in heap : item.vs \in Position /\ item.iter \in DOMAIN streams
           /\ ask.limit \in Nat /\ ordered_vses \in Seq(Position) /\ Len(ordered_vses) \in Nat
           /\ last_emitted \in Position
           /\ since <= rv
<1>1. LeftIn(streams, heap) \subseteq Answer
  BY AttemptState DEF ReadInv, AttemptOK, Gives
<1>2. \A id \in DOMAIN streams : streams[id] \in SUBSET Answer
  BY <1>1 DEF LeftIn
<1>3. \A id \in DOMAIN streams : IsFiniteSet(streams[id])
  BY <1>2, AnswerType, FS_Subset DEF ReadInv
<1> QED
  BY <1>3 DEF ReadInv, ReadTypeOK, Ask, Asked, Attempt

LEMMA SeedInv ==
    ASSUME ReadInv, Seed
    PROVE  ReadInv'
<1>1. /\ pc = "seeding" /\ pc' = "merging" /\ advance(DOMAIN streams, {})
      /\ UNCHANGED <<version, events, callVars, retries, rv, last_emitted, ordered_vses, result>>
  BY DEF Seed
<1>2. UNCHANGED <<version, events, ask, rv>>
  BY <1>1 DEF callVars
<1>3. /\ heap = {} /\ ordered_vses = <<>> /\ last_emitted = Origin
      /\ Gives(ask.reverse, ask.limit, Answer, ordered_vses, LeftIn(streams, heap))
  BY <1>1, AttemptState DEF ReadInv, AttemptOK
<1>4. /\ \A id \in DOMAIN streams' : streams'[id] \in SUBSET Position
      /\ \A item \in heap' : item.vs \in Position /\ item.iter \in DOMAIN streams'
      /\ LeftIn(streams', heap') \subseteq LeftIn(streams, heap)
      /\ LeftIn(streams, heap) \subseteq
             LeftIn(streams', heap') \union {item.vs : item \in heap \ {}}
      /\ LeadsIn(ask.reverse, streams', heap')
  <2>1. \A id \in DOMAIN streams \ DOMAIN streams : \A p \in streams[id] :
            \E item \in {} : item.iter = id /\ ~Prec(ask.reverse, p, item.vs)
    OBVIOUS
  <2> QED
    BY <1>1, <2>1, StreamsType, AdvanceStreams
<1>5. LeftIn(streams', heap') = LeftIn(streams, heap)
  BY <1>3, <1>4
<1>6. HeadsOf(ask.reverse, ordered_vses, Answer)
  BY <1>3 DEF HeadsOf
<1>7. LastIs(ordered_vses, last_emitted)
  BY <1>3 DEF LastIs
<1>8. Answer' = Answer
  BY <1>2, SameAnswer
<1>9. AttemptOK(pc', ask'.reverse, ask'.limit, Answer', streams', heap',
                last_emitted', ordered_vses')
  BY <1>1, <1>2, <1>3, <1>4, <1>5, <1>6, <1>7, <1>8 DEF AttemptOK
<1>10. ReadTypeOK'
  BY <1>1, <1>4, StreamsType, MergeTypes DEF ReadInv, Attempt
<1> QED
  BY <1>1, <1>2, <1>9, <1>10, StreamsType, WithinAttempt DEF Attempt

LEMMA MergeEndInv ==
    ASSUME ReadInv, MergeEnd
    PROVE  ReadInv'
<1>1. /\ pc = "merging" /\ pc' = "fetching" /\ heap = {}
      /\ UNCHANGED <<version, events, callVars, retries, rv, streams, heap,
                     last_emitted, ordered_vses, result>>
  BY DEF MergeEnd
<1>2. UNCHANGED <<version, events, ask, rv>>
  BY <1>1 DEF callVars
<1>3. /\ HeadsOf(ask.reverse, ordered_vses, Answer)
      /\ Gives(ask.reverse, ask.limit, Answer, ordered_vses, LeftIn(streams, heap))
      /\ LeadsIn(ask.reverse, streams, heap)
  BY <1>1, AttemptState DEF ReadInv, AttemptOK
<1>4. LeftIn(streams, heap) = {}
  BY <1>1, <1>3 DEF LeadsIn, LeftIn
<1>5. Range(ordered_vses) = Answer
  <2>1. Gives(ask.reverse, ask.limit, Answer, ordered_vses, {})
    BY <1>3, <1>4
  <2> QED
    BY <1>1, <1>3, <2>1, StreamsType, AnswerType, EmittedAll DEF ReadInv
<1>6. MergedOK(ask.limit, Answer, ordered_vses)
  BY <1>1, <1>3, <1>5, StreamsType DEF MergedOK, Gives
<1>7. Answer' = Answer
  BY <1>2, SameAnswer
<1>8. AttemptOK(pc', ask'.reverse, ask'.limit, Answer', streams', heap',
                last_emitted', ordered_vses')
  BY <1>1, <1>2, <1>3, <1>6, <1>7 DEF AttemptOK
<1>9. ReadTypeOK'
  BY <1>1, StreamsType, MergeTypes DEF ReadInv, Attempt
<1> QED
  BY <1>1, <1>2, <1>8, <1>9, StreamsType, WithinAttempt DEF Attempt

\* A position that is neither the last emitted nor before it is new.
LEMMA NotEmitted ==
    ASSUME NEW rev, NEW W \in SUBSET Position, NEW seq \in Seq(Position),
           HeadsOf(rev, seq, W), NEW last, LastIs(seq, last),
           NEW p \in Position, p # last, \A q \in Range(seq) : ~Prec(rev, p, q)
    PROVE  p \notin Range(seq)
<1> SUFFICES ASSUME NEW j \in DOMAIN seq, p = seq[j]
             PROVE  FALSE
  BY DEF Range
<1>1. Len(seq) \in Nat /\ DOMAIN seq = 1..Len(seq) /\ Len(seq) \in DOMAIN seq
  OBVIOUS
<1>2. last = seq[Len(seq)]
  BY <1>1 DEF LastIs
<1>3. j < Len(seq)
  BY <1>1, <1>2
<1>4. Prec(rev, seq[j], seq[Len(seq)])
  BY <1>1, <1>3, HeadsInOrder
<1>5. seq[Len(seq)] \in Range(seq)
  BY <1>1 DEF Range
<1> QED
  BY <1>4, <1>5

\* The top of the heap is the first of all that is left: emitted once, it is
\* skipped when another stream gives it again.
LEMMA PopInv ==
    ASSUME ReadInv, Pop
    PROVE  ReadInv'
<1> PICK rev, limit, W, seq, left : /\ rev = ask.reverse /\ limit = ask.limit
                                    /\ W = Answer /\ seq = ordered_vses
                                    /\ left = LeftIn(streams, heap)
  OBVIOUS
<1>1. PICK item \in tops :
          IF item.vs = last_emitted
          THEN /\ advance({item.iter}, heap \ {item})
               /\ UNCHANGED <<pc, last_emitted, ordered_vses>>
          ELSE /\ ordered_vses' = Append(ordered_vses, item.vs)
               /\ last_emitted' = item.vs
               /\ IF full(ordered_vses')
                  THEN pc' = "fetching" /\ UNCHANGED <<streams, heap>>
                  ELSE pc' = pc /\ advance({item.iter}, heap \ {item})
  BY DEF Pop
<1>2. pc = "merging" /\ UNCHANGED <<version, events, callVars, retries, rv, result>>
  BY DEF Pop
<1> PICK p : p = item.vs
  OBVIOUS
<1>3. UNCHANGED <<version, events, ask, rv>>
  BY <1>2 DEF callVars
<1>4. /\ \A id \in DOMAIN streams : streams[id] \in SUBSET Position /\ IsFiniteSet(streams[id])
      /\ \A i \in heap : i.vs \in Position /\ i.iter \in DOMAIN streams
      /\ limit \in Nat /\ seq \in Seq(Position) /\ Len(seq) \in Nat
      /\ last_emitted \in Position /\ since <= rv
  BY <1>2, StreamsType
<1>5. W \in SUBSET Position /\ IsFiniteSet(W) /\ Answer' = W /\ Origin \notin W
  BY <1>3, AnswerType, SameAnswer DEF ReadInv
<1>6. /\ HeadsOf(rev, seq, W) /\ Gives(rev, limit, W, seq, left)
      /\ LeadsIn(rev, streams, heap) /\ LastIs(seq, last_emitted)
  BY <1>2, AttemptState DEF ReadInv, AttemptOK
<1>7. item \in heap /\ \A other \in heap : ~Prec(rev, other.vs, p)
  BY DEF tops, Precedes, Prec
<1>8. p \in left /\ p \in Position /\ p \in W
  <2>1. p \in left
    BY <1>7, InLeft
  <2> QED
    BY <1>5, <1>6, <2>1 DEF Gives
<1>9. \A q \in left : ~Prec(rev, q, p)
  <2> SUFFICES ASSUME NEW q \in left PROVE ~Prec(rev, q, p)
    OBVIOUS
  <2>1. CASE \E id \in DOMAIN streams : q \in streams[id]
    <3>1. PICK other \in heap : ~Prec(rev, q, other.vs)
      BY <1>6, <2>1 DEF LeadsIn
    <3> QED
      BY <1>4, <1>7, <1>8, <2>1, <3>1, PrecOrder
  <2>2. CASE \E other \in heap : q = other.vs
    BY <1>7, <2>2
  <2> QED
    BY <2>1, <2>2, InLeft
<1>10. ASSUME advance({item.iter}, heap \ {item})
       PROVE  /\ \A id \in DOMAIN streams' : streams'[id] \in SUBSET Position
              /\ \A i \in heap' : i.vs \in Position /\ i.iter \in DOMAIN streams'
              /\ LeftIn(streams', heap') \subseteq left
              /\ left \subseteq LeftIn(streams', heap') \union {p}
              /\ LeadsIn(rev, streams', heap')
  <2>1. {item.iter} \in SUBSET DOMAIN streams /\ heap \ {item} \in SUBSET heap
    BY <1>4, <1>7
  <2>2. \A id \in DOMAIN streams \ {item.iter} : \A q \in streams[id] :
            \E i \in heap \ {item} : i.iter = id /\ ~Prec(rev, q, i.vs)
    BY <1>6 DEF LeadsIn
  <2>3. {i.vs : i \in heap \ (heap \ {item})} \subseteq {p}
    OBVIOUS
  <2> QED
    BY <1>4, <1>10, <2>1, <2>2, <2>3, AdvanceStreams
<1>11. CASE p = last_emitted
  <2>1. /\ advance({item.iter}, heap \ {item})
        /\ pc' = "merging" /\ UNCHANGED <<last_emitted, ordered_vses>>
    BY <1>1, <1>2, <1>11
  <2>2. p \in Range(seq)
    <3>1. seq # <<>> /\ p = seq[Len(seq)]
      BY <1>5, <1>6, <1>8, <1>11 DEF LastIs
    <3>2. Len(seq) \in DOMAIN seq
      BY <1>4, <3>1
    <3> QED
      BY <3>1, <3>2 DEF Range
  <2>3. Gives(rev, limit, W, seq, LeftIn(streams', heap'))
    BY <1>6, <1>10, <2>1, <2>2 DEF Gives
  <2>4. AttemptOK(pc', ask'.reverse, ask'.limit, Answer', streams', heap',
                  last_emitted', ordered_vses')
    BY <1>3, <1>5, <1>6, <1>10, <2>1, <2>3 DEF AttemptOK
  <2>5. ReadTypeOK'
    BY <1>2, <1>4, <1>10, <2>1, MergeTypes DEF ReadInv, Attempt
  <2> QED
    BY <1>2, <1>3, <1>4, <2>1, <2>4, <2>5, WithinAttempt DEF Attempt
<1>12. CASE p # last_emitted
  <2>1. /\ ordered_vses' = Append(seq, p) /\ last_emitted' = p
        /\ IF full(ordered_vses')
           THEN pc' = "fetching" /\ UNCHANGED <<streams, heap>>
           ELSE pc' = "merging" /\ advance({item.iter}, heap \ {item})
    BY <1>1, <1>2, <1>12
  <2>2. p \notin Range(seq)
    <3>1. \A q \in Range(seq) : ~Prec(rev, p, q)
      BY <1>6, <1>8 DEF Gives
    <3> QED
      BY <1>4, <1>5, <1>6, <1>8, <1>12, <3>1, NotEmitted
  <2>3. HeadsOf(rev, Append(seq, p), W)
    BY <1>4, <1>5, <1>6, <1>8, <1>9, <2>2, Emit
  <2>4. /\ Append(seq, p) \in Seq(Position)
        /\ Len(Append(seq, p)) = Len(seq) + 1
        /\ Append(seq, p)[Len(seq) + 1] = p
    BY <1>4, <1>8, AppendRange
  <2>5. full(ordered_vses') <=> limit # 0 /\ Len(seq) + 1 >= limit
    BY <1>4, <2>1, <2>4 DEF full
  <2>6. CASE limit # 0 /\ Len(seq) + 1 >= limit
    <3>1. pc' = "fetching" /\ UNCHANGED <<streams, heap>>
      BY <2>1, <2>5, <2>6
    <3>2. MergedOK(limit, W, Append(seq, p))
      BY <1>4, <1>6, <2>4, <2>6 DEF MergedOK, Gives
    <3>3. AttemptOK(pc', ask'.reverse, ask'.limit, Answer', streams', heap',
                    last_emitted', ordered_vses')
      BY <1>3, <1>5, <2>1, <2>3, <3>1, <3>2 DEF AttemptOK
    <3>4. ReadTypeOK'
      BY <1>2, <1>4, <1>8, <2>1, <2>4, <3>1, MergeTypes DEF ReadInv, Attempt
    <3> QED
      BY <1>2, <1>3, <1>4, <3>1, <3>3, <3>4, WithinAttempt DEF Attempt
  <2>7. CASE ~(limit # 0 /\ Len(seq) + 1 >= limit)
    <3>1. pc' = "merging" /\ advance({item.iter}, heap \ {item})
      BY <2>1, <2>5, <2>7
    <3>2. limit = 0 \/ Len(seq) + 1 < limit
      BY <1>4, <2>7
    <3>3. LeftIn(streams', heap') \in SUBSET left
          /\ left \subseteq LeftIn(streams', heap') \union {p}
      BY <1>10, <3>1
    <3>4. Gives(rev, limit, W, Append(seq, p), LeftIn(streams', heap'))
      BY <1>4, <1>5, <1>6, <1>8, <1>9, <3>2, <3>3, EmitGives
    <3>5. LastIs(Append(seq, p), p)
      <4>1. Append(seq, p) # <<>>
        BY <1>4, <2>4
      <4> QED
        BY <2>4, <4>1 DEF LastIs
    <3>6. AttemptOK(pc', ask'.reverse, ask'.limit, Answer', streams', heap',
                    last_emitted', ordered_vses')
      BY <1>3, <1>5, <1>10, <2>1, <2>3, <3>1, <3>4, <3>5 DEF AttemptOK
    <3>7. ReadTypeOK'
      BY <1>2, <1>8, <1>10, <2>1, <2>4, <3>1, MergeTypes DEF ReadInv, Attempt
    <3> QED
      BY <1>2, <1>3, <1>4, <3>1, <3>6, <3>7, WithinAttempt DEF Attempt
  <2> QED
    BY <2>6, <2>7
<1> QED
  BY <1>11, <1>12

(***************************************************************************)
(* Returning.                                                              *)
(***************************************************************************)
LEMMA ReturnInv ==
    ASSUME ReadInv, NEW r, r = result', pc # "idle", pc' = "done", r.events \in Seq(StoredEvent),
           UNCHANGED <<version, events, callVars, retries>>,
           \/ UNCHANGED <<streams, heap, last_emitted, ordered_vses>>
           \/ /\ DOMAIN streams' = {} /\ heap' = {}
              /\ last_emitted' = Origin /\ ordered_vses' = <<>>,
           rv' \in {rv, version},
           r.kind # "ok" => r.events = <<>>,
           ExactAnswer'
    PROVE  ReadInv'
<1>1. UNCHANGED <<version, events, ask, since, start, paged>>
  BY DEF callVars
<1>2. version \in Nat
  BY DEF ReadInv, ReadTypeOK
<1>3. ReadTypeOK'
  <2>1. Origin \in Position
    BY DEF Origin, Position
  <2>2. /\ \A id \in DOMAIN streams' : streams'[id] \in SUBSET Position
        /\ \A item \in heap' : item.vs \in Position /\ item.iter \in DOMAIN streams'
        /\ last_emitted' \in Position /\ ordered_vses' \in Seq(Position)
    <3>1. CASE UNCHANGED <<streams, heap, last_emitted, ordered_vses>>
      BY <3>1 DEF ReadInv, ReadTypeOK
    <3>2. CASE /\ DOMAIN streams' = {} /\ heap' = {}
               /\ last_emitted' = Origin /\ ordered_vses' = <<>>
      BY <2>1, <3>2
    <3> QED
      BY <3>1, <3>2
  <2> QED
    BY <1>1, <1>2, <2>2 DEF ReadInv, ReadTypeOK
<1>4. Recorded'
  BY <1>1 DEF ReadInv, Recorded
<1>5. Asked'
  BY <1>1, <1>2 DEF ReadInv, Asked, Attempt
<1>6. AttemptOK(pc', ask'.reverse, ask'.limit, Answer', streams', heap',
                last_emitted', ordered_vses')
  BY DEF AttemptOK
<1>7. Paging'
  <2>1. Wanted(start, version)' = Wanted(start, version)
    BY <1>1 DEF Wanted, Selected, events_at
  <2> QED
    BY <1>1, <2>1 DEF ReadInv, Paging, Asked
<1> QED
  BY <1>3, <1>4, <1>5, <1>6, <1>7, AttemptStateNext DEF ReadInv

\* An error of the database, of the caller, or none at all.
LEMMA ErrInv ==
    ASSUME ReadInv, pc # "idle",
           NEW kind \in {"reserved_tag", "invalid_query", "fdb_error"}, Return(Err(kind)),
           UNCHANGED <<rv, streams, heap, last_emitted, ordered_vses>>,
           kind = "reserved_tag" => reserved,
           kind = "invalid_query" => invalid
    PROVE  ReadInv'
<1>1. /\ pc' = "done" /\ result' = Err(kind)
      /\ UNCHANGED <<version, events, callVars, retries>>
  BY DEF Return
<1>2. UNCHANGED ask
  BY <1>1 DEF callVars
<1>3. /\ Err(kind).events = <<>> /\ Err(kind).kind = kind
      /\ Err(kind).events \in Seq(StoredEvent)
  BY DEF Err
<1>4. ExactAnswer'
  <2>1. kind = "reserved_tag" => reserved'
    BY <1>2 DEF reserved
  <2>2. kind = "invalid_query" => invalid'
    BY <1>2 DEF invalid
  <2> QED
    BY <1>1, <1>3, <2>1, <2>2 DEF ExactAnswer
<1> QED
  BY <1>1, <1>3, <1>4, ReturnInv

LEMMA RejectInv ==
    ASSUME ReadInv, Reject
    PROVE  ReadInv'
<1>1. CASE reserved
  BY <1>1, ErrInv DEF Reject
<1>2. CASE ~reserved
  BY <1>2, ErrInv DEF Reject
<1> QED
  BY <1>1, <1>2

LEMMA DatabaseErrorInv ==
    ASSUME ReadInv, DatabaseError
    PROVE  ReadInv'
<1>1. /\ pc \in {"ready", "scanning", "seeding", "merging", "fetching"}
      /\ UNCHANGED <<rv, streams, heap, last_emitted, ordered_vses>>
  BY DEF DatabaseError
<1>2. CASE Return(Err("fdb_error"))
  BY <1>1, <1>2, ErrInv
<1>3. CASE /\ retries < ReadRetryLimit
           /\ retries' = retries + 1
           /\ pc' = "ready"
           /\ UNCHANGED <<version, events, callVars, result>>
  <2>1. ReadTypeOK'
    <3>1. retries' \in 0..ReadRetryLimit
      BY <1>3, ReadAssumption DEF ReadInv, ReadTypeOK
    <3> QED
      BY <1>1, <1>3, <3>1 DEF ReadInv, ReadTypeOK, callVars
  <2>2. AttemptOK(pc', ask'.reverse, ask'.limit, Answer', streams', heap',
                  last_emitted', ordered_vses')
    BY <1>3 DEF AttemptOK
  <2> QED
    BY <1>1, <1>3, <2>1, <2>2, WithinAttempt DEF Attempt
<1> QED
  BY <1>2, <1>3 DEF DatabaseError

\* Every position of the answer names one event, which the fetch finds.
LEMMA FetchedEvent ==
    ASSUME ReadTypeOK, Recorded, NEW p \in Answer
    PROVE  \E e \in Wanted(ask.after, rv) : e.pos = p /\ fetched(p) = {e}
<1>1. PICK e \in Wanted(ask.after, rv) : e.pos = p
  BY DEF Answer
<1>2. e \in events_at(rv) /\ events_at(rv) \subseteq events
  BY WantedStored
<1>3. fetched(p) = {e}
  BY <1>1, <1>2 DEF fetched, Recorded
<1> QED
  BY <1>1, <1>3

\* A merge that ended gives the answer of the read version.
LEMMA FetchInv ==
    ASSUME ReadInv, Fetch
    PROVE  ReadInv'
<1> PICK seq, W, S, got : /\ seq = ordered_vses /\ W = Answer /\ S = Wanted(ask.after, rv)
                          /\ got = [i \in DOMAIN seq |-> CHOOSE e \in fetched(seq[i]) : TRUE]
  OBVIOUS
<1>1. pc = "fetching" /\ UNCHANGED <<rv, streams, heap, last_emitted, ordered_vses>>
  BY DEF Fetch
<1>2. /\ Return(IF \E i \in DOMAIN seq : fetched(seq[i]) = {} THEN Err("event_not_found")
                ELSE [kind |-> "ok", events |-> got])
  BY DEF Fetch
<1>3. HeadsOf(ask.reverse, seq, W) /\ MergedOK(ask.limit, W, seq)
  BY <1>1, AttemptState DEF ReadInv, AttemptOK
<1>4. /\ seq \in Seq(Position) /\ Len(seq) \in Nat /\ DOMAIN seq = 1..Len(seq)
      /\ ask.limit \in Nat
  BY DEF ReadInv, ReadTypeOK, Ask
<1>5. W \in SUBSET Position /\ W = {e.pos : e \in S}
  BY AnswerType DEF ReadInv, Answer
<1>6. ASSUME NEW i \in DOMAIN seq
      PROVE  got[i] \in S /\ got[i].pos = seq[i] /\ fetched(seq[i]) # {}
  <2>1. seq[i] \in W
    BY <1>3 DEF HeadsOf
  <2>2. PICK e \in S : e.pos = seq[i] /\ fetched(seq[i]) = {e}
    BY <2>1, FetchedEvent DEF ReadInv
  <2>3. (CHOOSE x \in {e} : TRUE) = e
    OBVIOUS
  <2> QED
    BY <2>2, <2>3
<1>7. /\ pc' = "done" /\ result' = [kind |-> "ok", events |-> got]
      /\ UNCHANGED <<version, events, callVars, retries>>
  BY <1>2, <1>6 DEF Return
<1>8. UNCHANGED <<ask, since>>
  BY <1>7 DEF callVars
<1>9. DOMAIN got = DOMAIN seq
  OBVIOUS
<1>10. S \subseteq events /\ events \in SUBSET StoredEvent
  BY WantedStored DEF ReadInv, ReadTypeOK
<1>11. got \in Seq(StoredEvent) /\ Len(got) = Len(seq)
  <2>1. got \in [1..Len(seq) -> StoredEvent]
    BY <1>4, <1>6, <1>10
  <2> QED
    BY <1>4, <1>9, <2>1, IsASeq
<1>12. Range(got) \subseteq S
  BY <1>6, <1>9 DEF Range
<1>13. [i \in DOMAIN got |-> got[i].pos] = seq
  BY <1>4, <1>6, <1>9
<1>14. ask.limit = 0 \/ Len(seq) < ask.limit => Cardinality(S) = Len(seq)
  <2> SUFFICES ASSUME ask.limit = 0 \/ Len(seq) < ask.limit
               PROVE  Cardinality(S) = Len(seq)
    OBVIOUS
  <2>1. Range(seq) = W
    BY <1>3, <1>4 DEF MergedOK
  <2>2. got \in [1..Len(seq) -> S]
    BY <1>4, <1>6
  <2>3. ASSUME NEW i \in 1..Len(seq), NEW j \in 1..Len(seq), got[i] = got[j]
        PROVE  i = j
    <3>1. i \in DOMAIN seq /\ j \in DOMAIN seq /\ seq[i] = seq[j]
      BY <1>4, <1>6, <2>3
    <3>2. CASE i < j
      BY <1>3, <1>4, <1>5, <3>1, <3>2, HeadsInOrder
    <3>3. CASE j < i
      BY <1>3, <1>4, <1>5, <3>1, <3>3, HeadsInOrder
    <3> QED
      BY <3>2, <3>3
  <2>4. ASSUME NEW e \in S
        PROVE  \E i \in 1..Len(seq) : got[i] = e
    <3>1. PICK i \in DOMAIN seq : seq[i] = e.pos
      BY <1>5, <2>1 DEF Range
    <3>2. got[i] \in events /\ e \in events /\ got[i].pos = e.pos
      BY <1>6, <1>10, <3>1
    <3> QED
      BY <1>4, <3>2 DEF ReadInv, Recorded
  <2>5. got \in Bijection(1..Len(seq), S)
    <3>1. IsInjective(got)
      BY <1>4, <1>9, <2>3 DEF IsInjective
    <3>2. got \in Injection(1..Len(seq), S)
      BY <2>2, <3>1 DEF Injection
    <3>3. got \in Surjection(1..Len(seq), S)
      BY <2>2, <2>4 DEF Surjection
    <3> QED
      BY <3>2, <3>3 DEF Bijection
  <2>6. ExistsBijection(1..Len(seq), S)
    BY <2>5 DEF ExistsBijection
  <2> QED
    BY <1>4, <2>6, FS_CountingElements
<1>15. ExactAnswer'
  <2>1. Wanted(ask.after, rv)' = S
    BY <1>1, <1>7, <1>8 DEF Wanted, Selected, events_at
  <2>2. Answer' = W
    BY <1>1, <1>7, <1>8, SameAnswer
  <2>3. Heads(seq, Answer)'
    BY <1>1, <1>3, <1>8, <2>2 DEF Heads, HeadsOf, Ahead, Precedes, Prec
  <2>4. since' <= rv'
    BY <1>1, <1>8 DEF ReadInv, Asked, Attempt
  <2>5. Len(got) = IF full(got)' THEN ask'.limit ELSE Cardinality(S)
    BY <1>3, <1>4, <1>8, <1>11, <1>14 DEF full, MergedOK
  <2>6. result'.kind = "ok" /\ result'.events = got
    BY <1>7
  <2>7. Heads([i \in DOMAIN got |-> got[i].pos], Answer)'
    BY <1>13, <2>3
  <2> QED
    BY <1>12, <2>1, <2>4, <2>5, <2>6, <2>7 DEF ExactAnswer
<1> PICK r : r = [kind |-> "ok", events |-> got]
  OBVIOUS
<1>16. r = result' /\ r.events \in Seq(StoredEvent) /\ r.kind = "ok"
  BY <1>7, <1>11
<1> QED
  BY <1>1, <1>7, <1>15, <1>16, ReturnInv
(***************************************************************************)
(* Opening the streams.                                                    *)
(***************************************************************************)
\* The positions a range covers in the index.
CoveredBy(r, keys) == {k.pos : k \in {j \in keys : InRange(j, r)}}

\* A range that covers nothing gives a stream, and every stream a range.
LEMMA IdOfRange ==
    ASSUME NEW items, NEW keys, NEW id
    PROVE  id \in StreamIds(items, keys)
             <=> \E i \in DOMAIN items :
                    \E r \in build_query_ranges(items[i], ask.after, keys) :
                        id = [item |-> i, range |-> r]
  BY DEF StreamIds

\* All that is stored is stored at the last version.
LEMMA StoredNow ==
    ASSUME ReadTypeOK, Recorded
    PROVE  /\ events_at(version) = events
           /\ index_at(version) = IndexOf(events)
           /\ Stamped(events)
<1>1. \A e \in events : e.pos.ver \in 1..version
  BY DEF Recorded
<1>2. events_at(version) = events
  BY <1>1 DEF ReadTypeOK, events_at
<1>3. index_at(version) = IndexOf(events)
  BY <1>2 DEF index_at, IndexOf
<1>4. Stamped(events)
  BY <1>1 DEF Stamped, Before, Origin, ReadTypeOK
<1> QED
  BY <1>2, <1>3, <1>4

\* Together the streams of a query hold, but for the limit, what it selects.
LEMMA StreamsCover ==
    ASSUME ReadTypeOK, Recorded, ~ask.all, NEW p
    PROVE  (\E e \in Wanted(ask.after, version) : p = e.pos)
             <=> \E id \in StreamIds(ask.items, IndexOf(events)) :
                    p \in CoveredBy(id.range, IndexOf(events))
<1> DEFINE keys == IndexOf(events)
           ranges(i) == build_query_ranges(ask.items[i], ask.after, keys)
<1>1. \A i \in DOMAIN ask.items : ask.items[i] \in QueryItem
  BY DEF ReadTypeOK, Ask
<1>2. ask.after \in Position /\ events \in SUBSET StoredEvent
  BY DEF ReadTypeOK, Ask
<1>3. \A i \in DOMAIN ask.items :
          Covered(ranges(i), keys) = {e.pos : e \in Selected(events, ask.items[i], ask.after)}
  BY <1>1, <1>2, StoredNow, RangesSelect
<1>4. (\E e \in Wanted(ask.after, version) : p = e.pos)
        <=> \E i \in DOMAIN ask.items :
                \E e \in Selected(events, ask.items[i], ask.after) : p = e.pos
  BY StoredNow DEF Wanted
<1>5. \A i \in DOMAIN ask.items :
          (\E e \in Selected(events, ask.items[i], ask.after) : p = e.pos)
             <=> p \in Covered(ranges(i), keys)
  BY <1>3
<1> HIDE DEF ranges, keys
<1>6. \A i : p \in Covered(ranges(i), keys)
               <=> \E r \in ranges(i) : p \in CoveredBy(r, keys)
  BY DEF Covered, CoveredBy
<1>7. ASSUME NEW i \in DOMAIN ask.items, NEW r \in ranges(i), p \in CoveredBy(r, keys)
      PROVE  \E id \in StreamIds(ask.items, keys) : p \in CoveredBy(id.range, keys)
  <2> PICK id : id = [item |-> i, range |-> r]
    OBVIOUS
  <2>1. id \in StreamIds(ask.items, keys)
    BY IdOfRange DEF ranges
  <2>2. id.range = r
    OBVIOUS
  <2> QED
    BY <1>7, <2>1, <2>2
<1>8. ASSUME NEW id \in StreamIds(ask.items, keys), p \in CoveredBy(id.range, keys)
      PROVE  \E i \in DOMAIN ask.items : \E r \in ranges(i) : p \in CoveredBy(r, keys)
  <2>1. PICK i \in DOMAIN ask.items : \E r \in ranges(i) : id = [item |-> i, range |-> r]
    BY IdOfRange DEF ranges
  <2>2. PICK r \in ranges(i) : id = [item |-> i, range |-> r]
    BY <2>1
  <2>3. id.range = r
    BY <2>2
  <2> QED
    BY <1>8, <2>3
<1> QED
  BY <1>4, <1>5, <1>6, <1>7, <1>8 DEF keys

\* A stream gives the positions of its range, or the first `limit` of them.
LEMMA StreamOf ==
    ASSUME ReadTypeOK, Recorded, NEW r
    PROVE  /\ IsFiniteSet(CoveredBy(r, IndexOf(events)))
           /\ stream_of(r) = Page(ask.reverse, ask.limit, CoveredBy(r, IndexOf(events)))
<1> PICK all : all = CoveredBy(r, IndexOf(events))
  OBVIOUS
<1>1. all \subseteq {e.pos : e \in events}
  BY IndexKeyOrigin DEF CoveredBy
<1>2. IsFiniteSet(all)
  BY <1>1, PositionsFinite, FS_Subset DEF ReadTypeOK, Recorded
<1>3. stream_of(r) = Limited(all)
  BY StoredNow DEF stream_of, CoveredBy
<1>4. ask.limit \in Nat
  BY DEF ReadTypeOK, Ask
<1>5. \A p \in all : Cardinality(Ahead(ask.reverse, all, p)) \in Nat
  BY <1>2, FS_Subset, FS_CardinalityType DEF Ahead
<1>6. Limited(all) = Page(ask.reverse, ask.limit, all)
  <2>1. CASE ask.limit = 0
    BY <2>1 DEF Limited, Page, Cut
  <2>2. CASE ask.limit # 0
    <3>1. Limited(all) = {p \in all : Cardinality(Ahead(ask.reverse, all, p)) < ask.limit}
      BY <2>2 DEF Limited, Ahead, Precedes, Prec
    <3>2. \A p \in all : Cardinality(Ahead(ask.reverse, all, p)) < ask.limit
                           <=> ~Cut(ask.reverse, ask.limit, all, p)
      BY <1>4, <1>5, <2>2 DEF Cut
    <3> QED
      BY <3>1, <3>2 DEF Page
  <2> QED
    BY <2>1, <2>2
<1> QED
  BY <1>2, <1>3, <1>6
\* What the streams leave out for their limit is cut from the answer too.
LEMMA OpenGives ==
    ASSUME NEW rev, NEW limit \in Nat, NEW W \in SUBSET Position, IsFiniteSet(W),
           NEW str, NEW all,
           \A p : p \in W <=> \E id \in DOMAIN str : p \in all[id],
           \A id \in DOMAIN str : str[id] = Page(rev, limit, all[id])
    PROVE  Gives(rev, limit, W, <<>>, LeftIn(str, {}))
<1>1. \A p : p \in LeftIn(str, {}) <=> \E id \in DOMAIN str : p \in str[id]
  BY InLeft
<1>2. LeftIn(str, {}) \subseteq W
  BY <1>1 DEF Page
<1>3. ASSUME NEW p \in W
      PROVE  p \in LeftIn(str, {}) \/ Cut(rev, limit, W, p)
  <2>1. PICK id \in DOMAIN str : p \in all[id]
    OBVIOUS
  <2>2. CASE Cut(rev, limit, all[id], p)
    <3>1. all[id] \in SUBSET W
      OBVIOUS
    <3> PICK part : part = all[id]
      OBVIOUS
    <3> QED
      BY <2>2, <3>1, CutInMore
  <2>3. CASE ~Cut(rev, limit, all[id], p)
    BY <1>1, <2>1, <2>3 DEF Page
  <2> QED
    BY <2>2, <2>3
<1>4. Range(<<>>) = {} /\ Len(<<>>) = 0
  BY DEF Range
<1>5. limit = 0 \/ Len(<<>>) < limit
  BY <1>4
<1> QED
  BY <1>2, <1>3, <1>4, <1>5 DEF Gives

\* The streams of a read just opened hold the answer at the read version.
LEMMA OpenStreams ==
    ASSUME ReadInv, Open
    PROVE  /\ Gives(ask.reverse, ask.limit, Answer', <<>>, LeftIn(streams', {}))
           /\ \A id \in DOMAIN streams' : streams'[id] \in SUBSET Position
           /\ Answer' \in SUBSET Position
           /\ DOMAIN streams' = {} => Answer' = {}
<1> PICK rev, limit, keys, S, W : /\ rev = ask.reverse /\ limit = ask.limit
                                  /\ keys = IndexOf(events) /\ S = Wanted(ask.after, version)
                                  /\ W = {e.pos : e \in S}
  OBVIOUS
<1>1. /\ rv' = version
      /\ streams' = IF ask.all
                    THEN <<{e.pos : e \in events}>>
                    ELSE [id \in StreamIds(ask.items, index_at(version)) |-> stream_of(id.range)]
  BY DEF Open
<1>2. UNCHANGED <<version, events, ask>>
  BY DEF Open, Return, callVars
<1>3. Answer' = W
  BY <1>1, <1>2 DEF Answer, Wanted, Selected, events_at
<1>4. S \subseteq events /\ events \in SUBSET StoredEvent /\ IsFiniteSet(events)
  BY WantedStored DEF ReadInv, ReadTypeOK, Recorded
<1>5. W \in SUBSET Position /\ IsFiniteSet(W) /\ limit \in Nat
  BY <1>4, FS_Subset, PositionsFinite DEF ReadInv, ReadTypeOK, Ask
<1>6. CASE ask.all
  <2>1. S = events /\ limit = 0
    BY <1>6, StoredNow DEF ReadInv, Wanted, Asked
  <2>2. streams' = <<W>>
    BY <1>1, <1>6, <2>1
  <2>3. DOMAIN streams' = {1} /\ streams'[1] = W
    BY <2>2
  <2>4. LeftIn(streams', {}) = W
    BY <2>3 DEF LeftIn
  <2>5. Range(<<>>) = {}
    BY DEF Range
  <2>6. Gives(rev, limit, W, <<>>, W)
    BY <2>1, <2>5 DEF Gives
  <2> QED
    BY <1>3, <1>5, <2>3, <2>4, <2>6
<1>7. CASE ~ask.all
  <2>1. /\ DOMAIN streams' = StreamIds(ask.items, keys)
        /\ \A id \in DOMAIN streams' : streams'[id] = stream_of(id.range)
    BY <1>1, <1>7, StoredNow DEF ReadInv
  <2>2. \A id \in DOMAIN streams' : streams'[id] = Page(rev, limit, CoveredBy(id.range, keys))
    BY <2>1, StreamOf DEF ReadInv
  <2>3. \A p : p \in W <=> \E id \in DOMAIN streams' : p \in CoveredBy(id.range, keys)
    <3>1. \A p : p \in W <=> \E e \in S : p = e.pos
      OBVIOUS
    <3>2. \A p : (\E e \in Wanted(ask.after, version) : p = e.pos)
                   <=> \E id \in StreamIds(ask.items, IndexOf(events)) :
                          p \in CoveredBy(id.range, IndexOf(events))
      BY <1>7, StreamsCover DEF ReadInv
    <3> QED
      BY <2>1, <3>1, <3>2
  <2>4. Gives(rev, limit, W, <<>>, LeftIn(streams', {}))
    <3> PICK str, all : /\ str = streams'
                        /\ all = [id \in DOMAIN str |-> CoveredBy(id.range, keys)]
      OBVIOUS
    <3>1. \A id \in DOMAIN str : all[id] = CoveredBy(id.range, keys)
      OBVIOUS
    <3>2. \A p : p \in W <=> \E id \in DOMAIN str : p \in all[id]
      BY <2>3, <3>1
    <3>3. \A id \in DOMAIN str : str[id] = Page(rev, limit, all[id])
      BY <2>2, <3>1
    <3> QED
      BY <1>5, <3>2, <3>3, OpenGives
  <2>5. \A id \in DOMAIN streams' : streams'[id] \subseteq W
    BY <2>2, <2>3 DEF Page
  <2>6. DOMAIN streams' = {} => W = {}
    BY <2>3
  <2> QED
    BY <1>3, <1>5, <2>4, <2>5, <2>6
<1> QED
  BY <1>6, <1>7

LEMMA OpenInv ==
    ASSUME ReadInv, Open
    PROVE  ReadInv'
<1>1. /\ pc = "ready" /\ rv' = version
      /\ heap' = {} /\ last_emitted' = Origin /\ ordered_vses' = <<>>
  BY DEF Open
<1>2. UNCHANGED <<version, events, callVars, retries>>
  BY DEF Open, Return
<1>3. UNCHANGED <<ask, since>>
  BY <1>2 DEF callVars
<1>4. /\ version \in Nat /\ since <= version /\ ask.limit \in Nat
  BY DEF ReadInv, ReadTypeOK, Asked, Ask
<1>5. Range(<<>>) = {} /\ Len(<<>>) = 0 /\ DOMAIN <<>> = {} /\ <<>> \in Seq(StoredEvent)
  BY DEF Range
<1>6. CASE DOMAIN streams' = {}
  <2> PICK r : r = [kind |-> "ok", events |-> <<>>]
    OBVIOUS
  <2>1. pc' = "done" /\ r = result' /\ r.events = <<>> /\ r.kind = "ok"
    BY <1>6 DEF Open, Return
  <2>2. Wanted(ask.after, rv)' = {}
    BY <1>6, OpenStreams DEF Answer
  <2>3. Cardinality(Wanted(ask.after, rv)') = 0
    BY <2>2, FS_EmptySet
  <2>4. Heads([i \in DOMAIN r.events |-> r.events[i].pos], Answer)'
    BY <1>5, <2>1 DEF Heads
  <2>5. Len(r.events) = IF full(r.events)' THEN ask'.limit ELSE Cardinality(Wanted(ask.after, rv)')
    BY <1>3, <1>4, <1>5, <2>1, <2>3 DEF full
  <2>6. ExactAnswer'
    BY <1>1, <1>3, <1>4, <1>5, <2>1, <2>4, <2>5 DEF ExactAnswer
  <2> QED
    BY <1>1, <1>2, <1>5, <1>6, <2>1, <2>6, ReturnInv
<1>7. CASE DOMAIN streams' # {}
  <2>1. /\ pc' = IF \A id, other \in DOMAIN streams' : id = other THEN "scanning" ELSE "seeding"
        /\ UNCHANGED <<version, events, callVars, retries, result>>
    BY <1>7 DEF Open
  <2>2. /\ \A id \in DOMAIN streams' : streams'[id] \in SUBSET Position
        /\ Gives(ask.reverse, ask.limit, Answer', <<>>, LeftIn(streams', {}))
    BY OpenStreams
  <2>3. ReadTypeOK'
    <3>1. Origin \in Position
      BY DEF Origin, Position
    <3> QED
      BY <1>1, <1>4, <2>1, <2>2, <3>1 DEF ReadInv, ReadTypeOK, callVars
  <2>4. HeadsOf(ask.reverse, <<>>, Answer')
    BY <1>5 DEF HeadsOf
  <2>5. (\A id, other \in DOMAIN streams' : id = other) => ScanOK(streams', {}, <<>>)
    BY <1>5 DEF ScanOK
  <2>6. AttemptOK(pc', ask'.reverse, ask'.limit, Answer', streams', heap',
                  last_emitted', ordered_vses')
    BY <1>1, <1>3, <2>1, <2>2, <2>4, <2>5 DEF AttemptOK
  <2> QED
    BY <1>1, <1>4, <2>1, <2>3, <2>6, WithinAttempt DEF Attempt
<1> QED
  BY <1>6, <1>7
(***************************************************************************)
(* A commit in the meantime.                                               *)
(***************************************************************************)
\* The events a batch adds after version v.
Added(batch, v) ==
    {[pos |-> [ver |-> v + 1, idx |-> i - 1],
      type |-> batch[i].type, tags |-> batch[i].tags] : i \in DOMAIN batch}

\* The events of a batch are new, and each has a position of its own.
LEMMA BatchEvents ==
    ASSUME NEW batch \in Batches, NEW v \in Nat, NEW new, new = Added(batch, v)
    PROVE  /\ new \in SUBSET StoredEvent /\ IsFiniteSet(new)
           /\ \A e \in new : e.pos.ver = v + 1
           /\ \A e, f \in new : e.pos = f.pos => e = f
<1> DEFINE event(i) == [pos |-> [ver |-> v + 1, idx |-> i - 1],
                        type |-> batch[i].type, tags |-> batch[i].tags]
           g == [i \in DOMAIN batch |-> event(i)]
<1>1. /\ batch \in Seq([type : Types, tags : SUBSET Tags])
      /\ DOMAIN batch = 1..Len(batch) /\ Len(batch) \in Nat
  <2>1. batch \in Seq([type : Types, tags : SUBSET Tags])
    BY ReadAssumption
  <2> QED
    BY <2>1
<1>2. \A i \in DOMAIN batch : /\ batch[i].type \in Types /\ batch[i].tags \in SUBSET Tags
                              /\ i - 1 \in Nat
  <2>1. \A i \in DOMAIN batch : batch[i] \in [type : Types, tags : SUBSET Tags]
    BY <1>1, ElementOfSeq
  <2> QED
    BY <1>1, <2>1
<1>3. new = {event(i) : i \in DOMAIN batch}
  BY DEF Added
<1>4. new \in SUBSET StoredEvent
  BY <1>2, <1>3 DEF StoredEvent, Position
<1>5. IsFiniteSet(DOMAIN batch)
  BY <1>1, FS_Interval
<1>6. g \in Surjection(DOMAIN batch, new)
  <2>1. g \in [DOMAIN batch -> new] /\ \A e \in new : \E i \in DOMAIN batch : g[i] = e
    BY <1>3
  <2> QED
    BY <2>1 DEF Surjection
<1>7. IsFiniteSet(new)
  <2> HIDE DEF g
  <2> QED BY <1>5, <1>6, FS_Surjection
<1>8. \A e \in new : e.pos.ver = v + 1
  BY <1>3
<1>9. ASSUME NEW i \in DOMAIN batch, NEW j \in DOMAIN batch, event(i).pos = event(j).pos
      PROVE  i = j
  <2>1. event(i).pos.idx = event(j).pos.idx
    BY <1>9
  <2>2. i - 1 = j - 1
    BY <2>1
  <2> QED
    BY <1>1, <2>2
<1>10. \A e, f \in new : e.pos = f.pos => e = f
  <2> HIDE DEF event
  <2> QED BY <1>3, <1>9
<1> QED
  BY <1>4, <1>7, <1>8, <1>10

LEMMA CommitInv ==
    ASSUME ReadInv, Commit
    PROVE  ReadInv'
<1>1. PICK batch \in Batches : events' = events \union
              {[pos |-> [ver |-> version + 1, idx |-> i - 1],
                type |-> batch[i].type, tags |-> batch[i].tags] : i \in DOMAIN batch}
  BY DEF Commit
<1>2. /\ version' = version + 1
      /\ UNCHANGED <<pc, ask, since, retries, rv, streams, heap, last_emitted,
                     ordered_vses, result, start, paged>>
  BY DEF Commit
<1> PICK new : new = Added(batch, version)
  OBVIOUS
<1>3. /\ version \in Nat /\ events \in SUBSET StoredEvent /\ rv \in Nat
      /\ rv <= version /\ since <= version /\ since \in Nat
      /\ ask.after \in Position /\ start \in Position
      /\ ask.after.ver <= version /\ start.ver <= version
  BY DEF ReadInv, ReadTypeOK, Asked, Ask
<1>4. /\ new \in SUBSET StoredEvent /\ IsFiniteSet(new) /\ events' = events \union new
      /\ \A e \in new : e.pos.ver = version + 1
      /\ \A e, f \in new : e.pos = f.pos => e = f
  <2>1. events' = events \union new
    BY <1>1 DEF Added
  <2> QED
    BY <1>3, <2>1, BatchEvents
<1>5. \A e \in events : e.pos.ver \in 1..version
  BY DEF ReadInv, Recorded
<1>6. ReadTypeOK'
  BY <1>2, <1>3, <1>4 DEF ReadInv, ReadTypeOK
<1>7. Recorded'
  <2>1. IsFiniteSet(events')
    BY <1>4, FS_Union DEF ReadInv, Recorded
  <2>2. \A e \in events' : e.pos.ver \in 1..(version + 1)
    BY <1>3, <1>4, <1>5
  <2>3. \A e, f \in events' : e.pos = f.pos => e = f
    <3>1. \A e \in events, f \in new : e.pos # f.pos
      BY <1>3, <1>4, <1>5
    <3> QED
      BY <1>4, <3>1 DEF ReadInv, Recorded
  <2> QED
    BY <1>2, <2>1, <2>2, <2>3 DEF Recorded
<1>8. Asked'
  <2>1. /\ since <= version + 1 /\ rv <= version + 1
        /\ ask.after.ver <= version + 1 /\ start.ver <= version + 1
    <3>1. ask.after.ver \in Nat /\ start.ver \in Nat
      BY <1>3 DEF Position
    <3> QED
      BY <1>3, <3>1
  <2> QED
    BY <1>2, <2>1 DEF ReadInv, Asked
<1>9. events_at(rv)' = events_at(rv)
  <2>1. \A e \in new : ~(e.pos.ver <= rv)
    BY <1>3, <1>4
  <2> QED
    BY <1>2, <1>4, <2>1 DEF events_at
<1>10. Wanted(ask.after, rv)' = Wanted(ask.after, rv)
  BY <1>2, <1>9 DEF Wanted
<1>11. Answer' = Answer
  BY <1>10 DEF Answer
<1>12. (MergeIsPrefix /\ Merging /\ ScanLeads /\ HeapLeads /\ Merged)'
  <2>1. AttemptOK(pc, ask.reverse, ask.limit, Answer, streams, heap, last_emitted, ordered_vses)
    BY AttemptState DEF ReadInv
  <2>2. AttemptOK(pc', ask'.reverse, ask'.limit, Answer', streams', heap',
                  last_emitted', ordered_vses')
    BY <1>2, <1>11, <2>1
  <2> QED
    BY <1>6, <2>2, AttemptStateNext
<1>13. ExactAnswer'
  <2>1. Heads([i \in DOMAIN result.events |-> result.events[i].pos], Answer)'
           <=> Heads([i \in DOMAIN result.events |-> result.events[i].pos], Answer)
    BY <1>2, <1>11 DEF Heads, Precedes
  <2>2. (reserved' <=> reserved) /\ (invalid' <=> invalid)
    BY <1>2 DEF reserved, invalid
  <2>3. full(result.events)' <=> full(result.events)
    BY <1>2 DEF full
  <2> QED
    BY <1>2, <1>10, <2>1, <2>2, <2>3 DEF ReadInv, ExactAnswer
<1>14. Paging'
  <2> SUFFICES ASSUME pc # "idle", ~ask.all
               PROVE  {e \in Wanted(start, version) : ~Before(ask.after, e.pos)}'
                        = {e \in Wanted(start, version) : ~Before(ask.after, e.pos)}
    BY <1>2 DEF ReadInv, Paging
  <2>1. events_at(version)' = events \union new /\ events_at(version) = events
    <3>1. \A e \in events \union new : e.pos.ver <= version + 1
      BY <1>3, <1>4, <1>5
    <3> QED
      BY <1>2, <1>4, <3>1, StoredNow DEF ReadInv, events_at
  <2>2. \A e \in new : Before(ask.after, e.pos)
    <3>1. ask.after.ver \in Nat
      BY <1>3 DEF Position
    <3> QED
      BY <1>3, <1>4, <3>1 DEF Before
  <2>3. \A e : /\ e \in Wanted(start, version)'
                     <=> \E i \in DOMAIN ask.items : e \in Selected(events \union new, ask.items[i], start)
               /\ e \in Wanted(start, version)
                     <=> \E i \in DOMAIN ask.items : e \in Selected(events, ask.items[i], start)
    BY <1>2, <2>1 DEF Wanted
  <2>4. \A e : ~Before(ask.after, e.pos) =>
                   (e \in Wanted(start, version)' <=> e \in Wanted(start, version))
    BY <2>2, <2>3 DEF Selected
  <2>5. UNCHANGED ask
    BY <1>2
  <2> QED
    BY <2>4, <2>5
<1> QED
  BY <1>6, <1>7, <1>8, <1>12, <1>13, <1>14 DEF ReadInv
(***************************************************************************)
(* The calls.                                                              *)
(***************************************************************************)
\* A call that begins has only its arguments and the caller's pages to show.
LEMMA BeginInv ==
    ASSUME ReadInv, NEW a \in Ask, Begin(a),
           a.after.ver <= version, start' \in Position, start'.ver <= version,
           paged' \in SUBSET StoredEvent,
           a.all => a.items = <<>> /\ a.after = Origin /\ a.limit = 0 /\ ~a.reverse,
           Paging'
    PROVE  ReadInv'
<1>1. /\ ask' = a /\ since' = version /\ pc' = "ready" /\ retries' = 0
      /\ result' = Err("none")
      /\ UNCHANGED <<version, events, rv, streams, heap, last_emitted, ordered_vses>>
  BY DEF Begin
<1>2. Err("none").events = <<>> /\ Err("none").kind = "none"
  BY DEF Err
<1>3. ReadTypeOK'
  <2>1. 0 \in 0..ReadRetryLimit
    BY ReadAssumption
  <2>2. /\ version' \in Nat /\ since' \in Nat /\ rv' \in Nat
        /\ events' \in SUBSET StoredEvent
        /\ last_emitted' \in Position /\ ordered_vses' \in Seq(Position)
    BY <1>1 DEF ReadInv, ReadTypeOK
  <2>3. /\ \A id \in DOMAIN streams' : streams'[id] \in SUBSET Position
        /\ \A item \in heap' : item.vs \in Position /\ item.iter \in DOMAIN streams'
    BY <1>1 DEF ReadInv, ReadTypeOK
  <2>4. ask' \in Ask /\ retries' \in 0..ReadRetryLimit /\ result'.events \in Seq(StoredEvent)
    <3>1. result'.events = <<>>
      BY <1>1, <1>2
    <3>2. <<>> \in Seq(StoredEvent)
      OBVIOUS
    <3>3. ask' \in Ask /\ retries' \in 0..ReadRetryLimit
      BY <1>1, <2>1
    <3> QED
      BY <3>1, <3>2, <3>3
  <2> QED
    BY <1>1, <2>2, <2>3, <2>4 DEF ReadTypeOK
<1>4. Recorded'
  BY <1>1 DEF ReadInv, Recorded
<1>5. Asked'
  BY <1>1, <1>2 DEF ReadInv, ReadTypeOK, Asked, Attempt
<1>6. AttemptOK(pc', ask'.reverse, ask'.limit, Answer', streams', heap',
                last_emitted', ordered_vses')
  BY <1>1 DEF AttemptOK
<1>7. ExactAnswer'
  BY <1>1 DEF ExactAnswer
<1> QED
  BY <1>3, <1>4, <1>5, <1>6, <1>7, AttemptStateNext DEF ReadInv

LEMMA ReadBegins ==
    ASSUME ReadInv, Read
    PROVE  ReadInv'
<1>1. PICK items \in Queries, limit \in Limits, reverse \in BOOLEAN,
           after \in {Origin} \union {e.pos : e \in events} :
          /\ Begin([all |-> FALSE, items |-> items, after |-> after,
                    limit |-> limit, reverse |-> reverse])
          /\ start' = after
  BY DEF Read
<1> PICK a : a = [all |-> FALSE, items |-> items, after |-> after,
                  limit |-> limit, reverse |-> reverse]
  OBVIOUS
<1>2. after \in Position /\ after.ver <= version
  <2>1. version \in Nat /\ Origin \in Position /\ Origin.ver = 0
    BY DEF ReadInv, ReadTypeOK, Origin, Position
  <2>2. \A e \in events : e.pos \in Position /\ e.pos.ver <= version
    <3>1. \A e \in events : e.pos \in Position
      BY DEF ReadInv, ReadTypeOK, StoredEvent
    <3> QED
      BY <2>1, <3>1 DEF ReadInv, Recorded
  <2> QED
    BY <2>1, <2>2
<1>3. a \in Ask /\ a.after = after /\ ~a.all
  BY <1>2, ReadAssumption DEF Ask
<1>4. paged' = {} /\ ask' = a /\ version' = version
  BY <1>1 DEF Read, Begin
<1>5. Paging'
  <2>1. ~Before(after, after)
    BY <1>2, BeforeOrder
  <2>2. {e \in Wanted(after, version)' : ~Before(after, e.pos)} = {}
    BY <1>3, <1>4 DEF Wanted, Selected
  <2> QED
    BY <1>1, <1>3, <1>4, <2>1, <2>2 DEF Paging
<1> QED
  BY <1>1, <1>2, <1>3, <1>4, <1>5, BeginInv

LEMMA ReadAllBegins ==
    ASSUME ReadInv, ReadAll
    PROVE  ReadInv'
<1> PICK a : a = [all |-> TRUE, items |-> <<>>, after |-> Origin, limit |-> 0,
                  reverse |-> FALSE]
  OBVIOUS
<1>1. Begin(a) /\ start' = Origin /\ paged' = {}
  BY DEF ReadAll
<1>2. Origin \in Position /\ Origin.ver = 0 /\ version \in Nat
  BY DEF ReadInv, ReadTypeOK, Origin, Position
<1>3. a \in Ask
  BY <1>2 DEF Ask
<1>4. Paging'
  BY <1>1, <1>2, BeforeOrder DEF Paging, Begin
<1> QED
  BY <1>1, <1>2, <1>3, <1>4, BeginInv

\* A page: it is a beginning of what is after the last one, and nothing is
\* added to what it covers.
LEMMA PageEnds ==
    ASSUME ReadInv, pc = "done", result.kind = "ok", result.events # <<>>,
           ~ask.all, ~ask.reverse,
           NEW last, last = result.events[Len(result.events)].pos
    PROVE  /\ last \in Position /\ last.ver <= rv /\ Before(ask.after, last)
           /\ \A e \in Wanted(start, version) :
                  Before(ask.after, e.pos) /\ ~Before(last, e.pos) => e \in Range(result.events)
           /\ \A e \in Range(result.events) :
                  /\ e \in Wanted(start, version)
                  /\ Before(ask.after, e.pos) /\ ~Before(last, e.pos)
<1> PICK got, seq : got = result.events /\ seq = [i \in DOMAIN got |-> got[i].pos]
  OBVIOUS
<1>1. /\ got \in Seq(StoredEvent) /\ Len(got) \in Nat /\ DOMAIN got = 1..Len(got)
      /\ Len(got) \in DOMAIN got
  BY DEF ReadInv, ReadTypeOK
<1>2. Range(got) \subseteq Wanted(ask.after, rv) /\ Heads(seq, Answer)
  BY DEF ReadInv, ExactAnswer
<1>3. /\ ask.after \in Position /\ start \in Position /\ events \in SUBSET StoredEvent
      /\ rv \in Nat /\ version \in Nat /\ rv <= version
      /\ ~Before(ask.after, start)
      /\ \A e, f \in events : e.pos = f.pos => e = f
  BY DEF ReadInv, ReadTypeOK, Ask, Asked, Paging, Recorded
<1>4. \A e \in events : e.pos \in Position /\ e.pos.ver \in Nat
  BY <1>3 DEF StoredEvent, Position
<1>5. \A e, after, v : e \in Wanted(after, v)
         <=> /\ e \in events /\ e.pos.ver <= v /\ Before(after, e.pos)
             /\ \E i \in DOMAIN ask.items : Matches(e, ask.items[i])
  BY DEF Wanted, Selected, events_at
<1>6. /\ HeadsOf(FALSE, seq, Answer) /\ seq \in Seq(Position) /\ Len(seq) = Len(got)
      /\ DOMAIN seq = DOMAIN got
      /\ \A i \in DOMAIN got : seq[i] = got[i].pos
  <2>1. \A i \in DOMAIN got : got[i] \in events
    BY <1>2, <1>5 DEF Range
  <2>2. seq \in [1..Len(got) -> Position]
    BY <1>1, <1>4, <2>1
  <2>3. seq \in Seq(Position) /\ Len(seq) = Len(got)
    BY <1>1, <2>2, IsASeq
  <2>4. HeadsOf(FALSE, seq, Answer)
    BY <1>2 DEF Heads, HeadsOf, Ahead, Prec, Precedes
  <2> QED
    BY <2>3, <2>4
<1>7. Answer \in SUBSET Position
  BY AnswerType DEF ReadInv
<1>8. last = seq[Len(seq)] /\ got[Len(got)] \in Range(got)
  BY <1>1, <1>6 DEF Range
<1>9. got[Len(got)] \in Wanted(ask.after, rv) /\ got[Len(got)].pos = last
  BY <1>2, <1>8
<1>10. last \in Position /\ last.ver <= rv /\ Before(ask.after, last) /\ last.ver \in Nat
  BY <1>4, <1>5, <1>9
<1>11. ASSUME NEW e \in Wanted(start, version), Before(ask.after, e.pos), ~Before(last, e.pos)
       PROVE  e \in Range(got)
  <2>1. e \in events /\ e.pos \in Position /\ e.pos.ver \in Nat
    BY <1>4, <1>5
  <2>2. e.pos.ver <= rv
    BY <1>3, <1>10, <1>11, <2>1 DEF Before, Position
  <2>3. e \in Wanted(ask.after, rv)
    BY <1>5, <1>11, <2>2
  <2>4. CASE e.pos = last
    <3>1. got[Len(got)] \in events /\ got[Len(got)].pos = e.pos
      BY <1>5, <1>9, <2>4
    <3>2. got[Len(got)] = e
      BY <1>3, <2>1, <3>1
    <3> QED
      BY <1>8, <3>2
  <2>5. CASE e.pos # last
    <3>1. Prec(FALSE, e.pos, last)
      BY <1>10, <1>11, <2>1, <2>5, BeforeOrder DEF Prec
    <3>2. e.pos \in Ahead(FALSE, Answer, last)
      BY <2>3, <3>1 DEF Ahead, Answer
    <3>3. e.pos \in {seq[j] : j \in 1..(Len(seq) - 1)}
      BY <1>1, <1>6, <1>8, <3>2 DEF HeadsOf
    <3>4. PICK j \in DOMAIN got : seq[j] = e.pos
      <4>1. PICK j \in 1..(Len(seq) - 1) : seq[j] = e.pos
        BY <3>3
      <4>2. j \in DOMAIN got
        BY <1>1, <1>6
      <4> QED
        BY <4>1, <4>2
    <3>5. got[j].pos = e.pos /\ got[j] \in events
      BY <1>2, <1>5, <1>6, <3>4 DEF Range
    <3>6. got[j] = e
      BY <1>3, <2>1, <3>5
    <3> QED
      BY <3>6 DEF Range
  <2> QED
    BY <2>4, <2>5
<1>12. ASSUME NEW e \in Range(got)
       PROVE  /\ e \in Wanted(start, version)
              /\ Before(ask.after, e.pos) /\ ~Before(last, e.pos)
  <2>1. e \in Wanted(ask.after, rv)
    BY <1>2
  <2>2. /\ e \in events /\ e.pos \in Position /\ e.pos.ver \in Nat
        /\ e.pos.ver <= rv /\ Before(ask.after, e.pos)
    BY <1>4, <1>5, <2>1
  <2>3. Before(start, e.pos)
    <3>1. Before(start, ask.after) \/ start = ask.after
      BY <1>3, BeforeOrder
    <3> QED
      BY <1>3, <2>2, <3>1, BeforeOrder
  <2>4. e.pos.ver <= version
    BY <1>3, <2>2
  <2>5. e \in Wanted(start, version)
    BY <1>5, <2>1, <2>2, <2>3, <2>4
  <2>6. ~Before(last, e.pos)
    <3>1. PICK j \in DOMAIN got : got[j] = e
      BY DEF Range
    <3>2. CASE j = Len(got)
      BY SMTT(30), <1>8, <1>6, <1>10, <3>1, <3>2, BeforeOrder
    <3>3. CASE j < Len(got)
      <4>1. Prec(FALSE, seq[j], seq[Len(seq)])
        BY <1>1, <1>6, <1>7, <3>3, HeadsInOrder
      <4>2. Before(e.pos, last)
        BY <1>6, <1>8, <3>1, <4>1 DEF Prec
      <4> QED
        BY <1>10, <2>2, <4>2, BeforeOrder
    <3> QED
      BY <1>1, <3>2, <3>3
  <2> QED
    BY <2>2, <2>5, <2>6
<1> QED
  BY <1>10, <1>11, <1>12

LEMMA NextPageBegins ==
    ASSUME ReadInv, NextPage
    PROVE  ReadInv'
<1> PICK last, a : /\ last = result.events[Len(result.events)].pos
                   /\ a = [ask EXCEPT !.after = last]
  OBVIOUS
<1>1. /\ pc = "done" /\ result.kind = "ok" /\ result.events # <<>>
      /\ ~ask.all /\ ~ask.reverse
      /\ Begin(a) /\ paged' = paged \union Range(result.events) /\ start' = start
  BY DEF NextPage
<1>2. ask \in Ask /\ result.events \in Seq(StoredEvent) /\ paged \in SUBSET StoredEvent
      /\ start \in Position /\ start.ver <= version /\ version \in Nat /\ rv \in Nat
      /\ rv <= version /\ ask.after \in Position /\ ~Before(ask.after, start)
  BY <1>1 DEF ReadInv, ReadTypeOK, Asked, Ask, Paging
<1>3. last \in Position /\ last.ver <= rv /\ Before(ask.after, last) /\ last.ver \in Nat
  BY <1>1, PageEnds DEF Position
<1>4. a \in Ask /\ ~a.all /\ ~a.reverse /\ a.after = last /\ a.items = ask.items
  BY <1>1, <1>2, <1>3 DEF Ask
<1>5. last.ver <= version
  BY <1>2, <1>3
<1>6. paged' \in SUBSET StoredEvent
  BY <1>1, <1>2 DEF Range
<1>7. Paging'
  <2>1. ~Before(last, start)
    BY <1>2, <1>3, BeforeOrder
  <2>2. ask' = a /\ version' = version /\ events' = events
    BY <1>1 DEF Begin
  <2>3. Wanted(start, version)' = Wanted(start, version)
    BY <1>1, <1>4, <2>2 DEF Wanted, Selected, events_at
  <2>4. paged = {e \in Wanted(start, version) : ~Before(ask.after, e.pos)}
    BY <1>1 DEF ReadInv, Paging
  <2>5. \A e \in Wanted(start, version) : e.pos \in Position
    BY WantedStored DEF ReadInv, ReadTypeOK, StoredEvent
  <2>6. \A e \in Wanted(start, version) : ~Before(ask.after, e.pos) => ~Before(last, e.pos)
    BY <1>2, <1>3, <2>5, BeforeOrder
  <2>7. paged \union Range(result.events)
           = {e \in Wanted(start, version) : ~Before(last, e.pos)}
    BY <1>1, <2>4, <2>6, PageEnds
  <2> QED
    BY <1>1, <1>4, <2>1, <2>2, <2>3, <2>7 DEF Paging
<1> QED
  BY <1>1, <1>2, <1>4, <1>5, <1>6, <1>7, BeginInv
(***************************************************************************)
(* The invariant and what follows from it.                                 *)
(***************************************************************************)
LEMMA InitInv ==
    ASSUME ReadInit
    PROVE  ReadInv
<1>1. /\ version = 0 /\ events = {} /\ pc = "idle"
      /\ ask = [all |-> TRUE, items |-> <<>>, after |-> Origin, limit |-> 0, reverse |-> FALSE]
      /\ since = 0 /\ retries = 0 /\ rv = 0 /\ streams = <<>> /\ heap = {}
      /\ last_emitted = Origin /\ ordered_vses = <<>> /\ result = Err("none")
      /\ start = Origin /\ paged = {}
  BY DEF ReadInit
<1>2. Origin \in Position /\ Origin.ver = 0
  BY DEF Origin, Position
<1>3. Err("none").events = <<>> /\ Err("none").kind = "none"
  BY DEF Err
<1>4. ask \in Ask
  BY <1>1, <1>2 DEF Ask
<1>5. ReadTypeOK
  <2>1. retries \in 0..ReadRetryLimit
    BY <1>1, ReadAssumption
  <2>2. result.events \in Seq(StoredEvent) /\ ordered_vses \in Seq(Position)
    <3>1. result.events = <<>> /\ ordered_vses = <<>>
      BY <1>1, <1>3
    <3>2. <<>> \in Seq(StoredEvent) /\ <<>> \in Seq(Position)
      OBVIOUS
    <3> QED
      BY <3>1, <3>2
  <2>3. DOMAIN streams = {} /\ heap = {}
    BY <1>1
  <2> QED
    BY <1>1, <1>2, <1>4, <2>1, <2>2, <2>3 DEF ReadTypeOK
<1>6. Recorded
  BY <1>1, FS_EmptySet DEF Recorded
<1>7. Asked
  BY <1>1, <1>2, <1>3 DEF Asked, Attempt
<1>8. AttemptOK(pc, ask.reverse, ask.limit, Answer, streams, heap, last_emitted, ordered_vses)
  BY <1>1 DEF AttemptOK
<1>9. ExactAnswer /\ Paging
  BY <1>1 DEF ExactAnswer, Paging
<1> QED
  BY <1>5, <1>6, <1>7, <1>8, <1>9, AttemptState DEF ReadInv

LEMMA StutterInv ==
    ASSUME ReadInv, UNCHANGED vars
    PROVE  ReadInv'
<1>1. /\ UNCHANGED <<version, events, pc, ask, since, retries, rv, streams, heap>>
      /\ UNCHANGED <<last_emitted, ordered_vses, result, start, paged>>
  BY DEF vars
<1>2. ReadTypeOK' /\ Recorded' /\ Asked'
  BY <1>1 DEF ReadInv, ReadTypeOK, Recorded, Asked
<1>3. (MergeIsPrefix /\ Merging /\ ScanLeads /\ HeapLeads /\ Merged)'
  <2>1. AttemptOK(pc, ask.reverse, ask.limit, Answer, streams, heap, last_emitted, ordered_vses)
    BY AttemptState DEF ReadInv
  <2>2. Answer' = Answer
    BY <1>1, SameAnswer
  <2>3. AttemptOK(pc', ask'.reverse, ask'.limit, Answer', streams', heap',
                  last_emitted', ordered_vses')
    BY <1>1, <2>1, <2>2
  <2> QED
    BY <1>2, <2>3, AttemptStateNext
<1>4. /\ Wanted(ask.after, rv)' = Wanted(ask.after, rv)
      /\ Wanted(start, version)' = Wanted(start, version)
  BY <1>1 DEF Wanted, Selected, events_at
<1>5. ExactAnswer'
  <2>1. Answer' = Answer
    BY <1>4 DEF Answer
  <2>2. Heads([i \in DOMAIN result.events |-> result.events[i].pos], Answer)'
           <=> Heads([i \in DOMAIN result.events |-> result.events[i].pos], Answer)
    BY <1>1, <2>1 DEF Heads, Precedes
  <2>3. (reserved' <=> reserved) /\ (invalid' <=> invalid)
    BY <1>1 DEF reserved, invalid
  <2>4. full(result.events)' <=> full(result.events)
    BY <1>1 DEF full
  <2> QED
    BY <1>1, <1>4, <2>2, <2>3, <2>4 DEF ReadInv, ExactAnswer
<1>6. Paging'
  BY <1>1, <1>4 DEF ReadInv, Paging
<1> QED
  BY <1>2, <1>3, <1>5, <1>6 DEF ReadInv

LEMMA NextInv ==
    ASSUME ReadInv, [ReadNext]_vars
    PROVE  ReadInv'
<1>1. CASE Commit
  BY <1>1, CommitInv
<1>2. CASE Read
  BY <1>2, ReadBegins
<1>3. CASE ReadAll
  BY <1>3, ReadAllBegins
<1>4. CASE NextPage
  BY <1>4, NextPageBegins
<1>5. CASE Reject
  BY <1>5, RejectInv
<1>6. CASE Open
  BY <1>6, OpenInv
<1>7. CASE Scan
  BY <1>7, ScanInv
<1>8. CASE Seed
  BY <1>8, SeedInv
<1>9. CASE Pop
  BY <1>9, PopInv
<1>10. CASE MergeEnd
  BY <1>10, MergeEndInv
<1>11. CASE Fetch
  BY <1>11, FetchInv
<1>12. CASE DatabaseError
  BY <1>12, DatabaseErrorInv
<1>13. CASE UNCHANGED vars
  BY <1>13, StutterInv
<1> QED
  BY <1>1, <1>2, <1>3, <1>4, <1>5, <1>6, <1>7, <1>8, <1>9, <1>10, <1>11, <1>12, <1>13
     DEF ReadNext, Step

\* The invariant of a reader: every position of the answer at the version it
\* reads is emitted, left in a stream or the heap, or beyond the limit
\* (read.rs, the merge of the streams; FdbStore::read, its caller's pages).
THEOREM ReadInvariant == ReadSpec => []ReadInv
<1>1. ReadInit => ReadInv
  BY InitInv
<1>2. ReadInv /\ [ReadNext]_vars => ReadInv'
  BY NextInv
<1> QED
  BY <1>1, <1>2, PTL DEF ReadSpec

\* Every variable of the model of read.rs keeps its type.
THEOREM ReadTypeCorrect == ReadSpec => []ReadTypeOK
<1>1. ReadInv => ReadTypeOK
  BY DEF ReadInv
<1> QED
  BY <1>1, ReadInvariant, PTL

\* The merge of read.rs emits the answer from its first position on: no
\* position twice and none left out, for any number of ranges, any limit and
\* either direction, whichever stream runs dry first.
THEOREM MergesArePrefixes == ReadSpec => []MergeIsPrefix
<1>1. ReadInv => MergeIsPrefix
  BY DEF ReadInv
<1> QED
  BY <1>1, ReadInvariant, PTL

\* A read returns the answer of one version not older than the call, and
\* never an entry of the index with no event behind it.
THEOREM AnswersExact == ReadSpec => []ExactAnswer
<1>1. ReadInv => ExactAnswer
  BY DEF ReadInv
<1> QED
  BY <1>1, ReadInvariant, PTL

\* Pages read in different transactions, with `after` the last position of
\* the page before, leave no gap and do not overlap, whatever is appended in
\* the meantime.
THEOREM PagesComplete == ReadSpec => []PagesAddUp
<1>1. ASSUME ReadInv, pc # "idle", paged # {}
      PROVE  /\ paged = {e \in Wanted(start, version) : ~Before(ask.after, e.pos)}
             /\ \A i \in DOMAIN result.events : result.events[i] \notin paged
  <2>1. ~ask.all /\ ~ask.reverse
        /\ paged = {e \in Wanted(start, version) : ~Before(ask.after, e.pos)}
    BY <1>1 DEF ReadInv, Paging
  <2>2. ASSUME NEW i \in DOMAIN result.events, result.events[i] \in paged
        PROVE  FALSE
    <3>1. result.events # <<>>
      BY <2>2
    <3>2. pc = "done" /\ result.kind = "ok"
      BY <1>1, <3>1 DEF ReadInv, Asked
    <3>3. result.events[i] \in Wanted(ask.after, rv)
      BY <1>1, <3>2 DEF ReadInv, ExactAnswer, Range
    <3>4. Before(ask.after, result.events[i].pos)
      BY <2>1, <3>3 DEF Wanted, Selected
    <3> QED
      BY <2>1, <2>2, <3>4
  <2> QED
    BY <2>1, <2>2
<1>2. ReadInv => PagesAddUp
  BY <1>1 DEF PagesAddUp
<1> QED
  BY <1>2, ReadInvariant, PTL
=============================================================================
