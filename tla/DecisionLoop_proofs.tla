------------------------ MODULE DecisionLoop_proofs ------------------------
(***************************************************************************)
(* Proofs about DecisionLoop, for every set of clients, of other callers   *)
(* and of events, every query, capacity and page limit.                    *)
(***************************************************************************)
EXTENDS DecisionLoop, DCBIndex_proofs

(***************************************************************************)
(* Pages.                                                                  *)
(***************************************************************************)
\* A page is a beginning of the set it is taken from: with an event it has
\* all that are not after it.
LEMMA PageIsPrefix ==
    ASSUME NEW S \in SUBSET StoredEvent, IsFiniteSet(S), NEW limit \in Nat,
           NEW e \in Page(S, limit), NEW f \in S, ~Before(e.pos, f.pos)
    PROVE  f \in Page(S, limit)
  BY LeadingIsPrefix DEF Page, Leading

\* A page of something is something.
LEMMA PageNotEmpty ==
    ASSUME NEW S \in SUBSET StoredEvent, IsFiniteSet(S), S # {}, NEW limit \in Nat
    PROVE  Page(S, limit) # {}
  BY LeadingNotEmpty DEF Page, Leading

LEMMA PageSubset ==
    ASSUME NEW S, NEW limit
    PROVE  Page(S, limit) \subseteq S
  BY DEF Page

\* The last position of a read is that of its last event.
LEMMA LastPosition ==
    ASSUME NEW k, NEW R \in SUBSET StoredEvent, IsFiniteSet(R), R # {}
    PROVE  /\ \E e \in R : last_position(k, R) = e.pos
           /\ \A e \in R : ~Before(last_position(k, R), e.pos)
<1>1. PICK e \in R : \A f \in R : ~Before(e.pos, f.pos)
  BY LastEvent
<1> DEFINE Is(p) == \A f \in R : ~Before(p, f.pos)
<1>2. e.pos \in {f.pos : f \in R} /\ Is(e.pos)
  BY <1>1
<1>3. last_position(k, R) = CHOOSE p \in {f.pos : f \in R} : Is(p)
  BY DEF last_position
<1>4. last_position(k, R) \in {f.pos : f \in R} /\ Is(last_position(k, R))
  <2> HIDE DEF Is
  <2> QED BY <1>2, <1>3
<1> QED
  BY <1>4

(***************************************************************************)
(* The events of the query.                                                *)
(***************************************************************************)
\* What a read after a position can return: the relevant events after it.
LEMMA WantedEvents ==
    ASSUME NEW p
    PROVE  Wanted(p) = {e \in stored : Before(p, e.pos) /\ Relevant(e)}
  BY DEF Wanted, Selected, Relevant

\* The batch of a call with one event is that event.
LEMMA BatchOfOne ==
    ASSUME NEW e, NEW conds, NEW v \in Nat
    PROVE  Store!Batch([events |-> <<e>>, conds |-> conds], v)
             = {[pos |-> [ver |-> v, idx |-> 0], type |-> e.type, tags |-> Range(e.tags)]}
<1>1. DOMAIN <<e>> = {1} /\ <<e>>[1] = e
  OBVIOUS
<1> QED
  BY <1>1 DEF Store!Batch, Range, Store!Range

\* The claim is an event as the store has them, and the query selects it.
LEMMA ClaimType ==
    ASSUME NEW v \in Nat
    PROVE  ClaimAt(v) \in StoredEvent /\ Relevant(ClaimAt(v))
<1>1. Claim.type \in Types /\ Claim.tags \in Seq(Tags)
  BY LoopAssumption
<1>2. Range(Claim.tags) \subseteq Tags
  BY <1>1 DEF Range
<1>3. ClaimAt(v) \in StoredEvent
  BY <1>1, <1>2 DEF ClaimAt, StoredEvent, Position
<1>4. PICK item \in Query : Matches([type |-> Claim.type, tags |-> Range(Claim.tags)], item)
  BY PatternAssumption
<1>5. Matches(ClaimAt(v), item)
  BY <1>4 DEF Matches, ClaimAt
<1> QED
  BY <1>3, <1>5 DEF Relevant

\* A read turns an exact prefix of the query's events into an exact prefix:
\* whatever the limit of the page, the client knows all up to its new
\* position.
LEMMA ReadKeepsPrefix ==
    ASSUME LoopTypeOK, Ledger, KnowsItsPrefix,
           NEW k \in Clients, NEW limit \in Nat, NEW R, R = Page(Wanted(position[k]), limit)
    PROVE  /\ last_position(k, R) \in Position
           /\ last_position(k, R).ver <= version
           /\ known[k] \union R = UpTo(stored, last_position(k, R))
           /\ R \subseteq stored
<1> DEFINE p == position[k]
           q == last_position(k, R)
<1>1. /\ p \in Position /\ p.ver <= version /\ known[k] = UpTo(stored, p)
      /\ stored \subseteq StoredEvent /\ version \in Nat
      /\ \A e \in stored : e.pos \in Position /\ e.pos.ver <= version
  BY DEF LoopTypeOK, Ledger, KnowsItsPrefix, StoredEvent, Position
<1>2. /\ Wanted(p) = {e \in stored : Before(p, e.pos) /\ Relevant(e)}
      /\ R \subseteq Wanted(p)
  BY WantedEvents, PageSubset
<1>3. Wanted(p) \in SUBSET StoredEvent /\ IsFiniteSet(Wanted(p))
  BY <1>1, <1>2, FS_Subset DEF Ledger
<1>4. CASE R = {}
  <2>1. Wanted(p) = {}
    BY <1>3, <1>4, PageNotEmpty
  <2>2. q = p
    BY <1>4 DEF last_position
  <2> QED
    BY <1>1, <1>4, <2>2
<1>5. CASE R # {}
  <2>1. R \in SUBSET StoredEvent /\ IsFiniteSet(R)
    BY <1>2, <1>3, FS_Subset
  <2>2. PICK l \in R : q = l.pos
    BY <1>5, <2>1, LastPosition
  <2>3. \A e \in R : ~Before(q, e.pos)
    BY <1>5, <2>1, LastPosition
  <2>4. q \in Position /\ q.ver <= version /\ Before(p, q)
    BY <1>1, <1>2, <2>2
  <2>5. ASSUME NEW e \in known[k] \union R
        PROVE  e \in UpTo(stored, q)
    <3>1. CASE e \in known[k]
      <4>1. e \in stored /\ Relevant(e) /\ ~Before(p, e.pos)
        BY <1>1, <3>1 DEF UpTo
      <4>2. ~Before(q, e.pos)
        BY <1>1, <2>4, <4>1, BeforeOrder
      <4> QED
        BY <4>1, <4>2 DEF UpTo
    <3>2. CASE e \in R
      BY <1>2, <2>3, <3>2 DEF UpTo
    <3> QED
      BY <2>5, <3>1, <3>2
  <2>6. ASSUME NEW e \in UpTo(stored, q)
        PROVE  e \in known[k] \union R
    <3>1. e \in stored /\ Relevant(e) /\ ~Before(q, e.pos)
      BY <2>6 DEF UpTo
    <3>2. CASE Before(p, e.pos)
      <4>1. e \in Wanted(p)
        BY <1>2, <3>1, <3>2
      <4> QED
        BY <1>3, <2>2, <3>1, <4>1, PageIsPrefix
    <3>3. CASE ~Before(p, e.pos)
      BY <1>1, <3>1, <3>3 DEF UpTo
    <3> QED
      BY <3>2, <3>3
  <2> QED
    BY <1>2, <2>4, <2>5, <2>6
<1> QED
  BY <1>4, <1>5

\* Events of a later version are after every position read so far.
LEMMA LaterEventsAreAfter ==
    ASSUME LoopTypeOK, NEW e, e.pos \in Position, e.pos.ver = version + 1,
           NEW p \in Position, p.ver <= version
    PROVE  /\ Before(p, e.pos)
           /\ UpTo(stored \union {e}, p) = UpTo(stored, p)
<1>1. Before(p, e.pos)
  BY DEF Before, Position, LoopTypeOK
<1> QED
  BY <1>1 DEF UpTo

(***************************************************************************)
(* Calls.                                                                  *)
(***************************************************************************)
\* The calls of clients are numbered, and none is a call of others.
LEMMA DecidedCalls ==
    /\ \A k \in Clients : \A n \in 1..MaxCalls[k] :
           <<k, n>> \in Decided /\ <<k, n>> \in Calls /\ <<k, n>> \notin Others
    /\ \A c \in Decided : \E k \in Clients : \E n \in 1..MaxCalls[k] : c = <<k, n>>
    /\ \A k \in Clients : MaxCalls[k] \in Nat
    /\ \A c \in Calls : c \in Decided \/ c \in Others
    /\ Others \subseteq Calls
<1>1. \A k \in Clients : MaxCalls[k] \in Nat
  BY LoopAssumption
<1>2. \A k \in Clients : \A n \in 1..MaxCalls[k] : <<k, n>> \in Decided
  BY DEF Decided
<1>3. \A k \in Clients : \A n \in 1..MaxCalls[k] : <<k, n>> \in Clients \X Nat
  BY <1>1
<1>4. Others \intersect (Clients \X Nat) = {}
  BY LoopAssumption
<1>5. \A c \in Decided : \E k \in Clients : c \in {k} \X (1..MaxCalls[k])
  BY DEF Decided
<1> QED
  BY <1>1, <1>2, <1>3, <1>4, <1>5 DEF Calls

\* A request with the condition of position p is refused by what is relevant
\* and stored after p.
LEMMA ClaimViolated ==
    ASSUME NEW p \in Position
    PROVE  Store!Violated(Claiming(p)) <=> \E e \in stored : Relevant(e) /\ Before(p, e.pos)
<1>1. \A item : Store!Selected(stored, item, p) = Selected(stored, item, p)
  BY DEF Selected, Store!Selected, Before, Store!Before, Matches, Store!Matches
<1>2. Store!Violated(Claiming(p)) <=> \E item \in Query : Store!Selected(stored, item, p) # {}
  <2> DEFINE cond == [items |-> Query, after |-> p]
  <2>1. Claiming(p).conds = {cond} /\ cond.items = Query /\ cond.after = p
    BY DEF Claiming
  <2> HIDE DEF cond
  <2>2. Store!Violated(Claiming(p)) <=>
            \E item \in cond.items : Store!Selected(stored, item, cond.after) # {}
    BY <2>1 DEF Store!Violated
  <2> QED
    BY <2>1, <2>2
<1>3. Store!Violated(Claiming(p)) <=> \E item \in Query : Selected(stored, item, p) # {}
  BY <1>1, <1>2
<1> QED
  BY <1>3 DEF Selected, Relevant

LEMMA ClaimBatch ==
    ASSUME NEW p, NEW v \in Nat
    PROVE  Store!Batch(Claiming(p), v) = {ClaimAt(v)}
  BY BatchOfOne DEF Claiming, ClaimAt

LEMMA ClaimingType ==
    ASSUME NEW p \in Position
    PROVE  Claiming(p) \in Request
<1>1. Claim \in [type : Types, tags : Seq(Tags)] /\ Query \in SUBSET QueryItem
  BY LoopAssumption
<1>2. <<Claim>> \in Seq([type : Types, tags : Seq(Tags)])
  BY <1>1
<1> QED
  BY <1>1, <1>2 DEF Claiming, Request

\* A condition determines its position.
LEMMA ClaimBound ==
    ASSUME NEW p
    PROVE  {cond.after : cond \in Claiming(p).conds} = {p}
  BY DEF Claiming

LEMMA BoundOfClaim ==
    ASSUME NEW c, NEW p, request[c] = Claiming(p)
    PROVE  Bounds(c) = {p}
  BY DEF Bounds, Claiming

(***************************************************************************)
(* The invariant is inductive.                                             *)
(***************************************************************************)
LEMMA InitInv == LoopInit => LoopInv
<1> SUFFICES ASSUME LoopInit PROVE LoopInv
  OBVIOUS
<1> USE DEF LoopInit, Store!StoreInit
<1>1. /\ version = 0 /\ stored = {} /\ phase = [c \in Calls |-> "idle"]
      /\ Origin \in Position /\ Store!Origin = Origin /\ Origin.ver = 0
  BY DEF Position, Origin, Store!Origin
<1>2. Store!NoRequest \in Request
  BY DEF Store!NoRequest, Request
<1>3. LoopTypeOK
  BY <1>1, <1>2 DEF LoopTypeOK, Store!Phase
<1>4. Ledger
  BY <1>1, FS_EmptySet DEF Ledger
<1>5. KnowsItsPrefix
  BY <1>1 DEF KnowsItsPrefix, UpTo
<1>6. CallsDecided
  <2> SUFFICES ASSUME NEW k \in Clients, NEW n \in 1..MaxCalls[k]
               PROVE  n > calls[k] /\ phase[<<k, n>>] = "idle"
    BY DEF CallsDecided
  <2>1. calls[k] = 0 /\ n > 0
    BY DecidedCalls
  <2> QED
    BY <1>1, <2>1, DecidedCalls
<1>7. OthersUnconditional
  BY <1>1, DecidedCalls DEF OthersUnconditional
<1>8. WrittenOnBasis
  BY <1>1 DEF WrittenOnBasis
<1>9. WaitsWhereDecided
  BY DecidedCalls DEF WaitsWhereDecided
<1>10. RuleKept
  BY <1>1, FS_EmptySet, LoopAssumption DEF RuleKept, Claims
<1> QED
  BY <1>3, <1>4, <1>5, <1>6, <1>7, <1>8, <1>9, <1>10 DEF LoopInv

\* What the store and the calls are does not depend on what a client learns.
LEMMA ClientStep ==
    ASSUME LoopInv, UNCHANGED <<version, stored, phase, request, at, reply, calls, basis>>
    PROVE  Ledger' /\ CallsDecided' /\ OthersUnconditional' /\ WrittenOnBasis' /\ RuleKept'
<1>1. Ledger'
  BY DEF LoopInv, Ledger
<1>2. CallsDecided'
  BY DEF LoopInv, CallsDecided, DecidedOnPrefix, Bounds
<1>3. OthersUnconditional'
  BY DEF LoopInv, OthersUnconditional
<1>4. WrittenOnBasis'
  BY DEF LoopInv, WrittenOnBasis
<1>5. RuleKept'
  BY DEF LoopInv, RuleKept
<1> QED
  BY <1>1, <1>2, <1>3, <1>4, <1>5

LEMMA ReadInv ==
    ASSUME LoopInv, NEW k \in Clients, Read(k)
    PROVE  LoopInv'
<1> USE DEF LoopInv
<1>1. /\ UNCHANGED <<version, stored, phase, request, at, reply, calls, basis>>
      /\ step[k] = "reading" /\ step' = [step EXCEPT ![k] = "deciding"]
  BY DEF Read, Goto
<1>2. PICK limit \in Limits :
          /\ known' = [known EXCEPT ![k] = @ \union Page(Wanted(position[k]), limit)]
          /\ position' = [position EXCEPT ![k] =
                             last_position(k, Page(Wanted(position[k]), limit))]
  BY DEF Read
<1> DEFINE R == Page(Wanted(position[k]), limit)
           q == last_position(k, R)
<1>3. limit \in Nat
  BY LoopAssumption
<1>4. /\ q \in Position /\ q.ver <= version
      /\ known[k] \union R = UpTo(stored, q) /\ R \subseteq stored
  BY <1>3, ReadKeepsPrefix
<1> HIDE DEF R, q
<1>5. known' = [known EXCEPT ![k] = known[k] \union R] /\ position' = [position EXCEPT ![k] = q]
  BY <1>2 DEF R, q
<1>6. LoopTypeOK'
  BY <1>1, <1>4, <1>5 DEF LoopTypeOK
<1>7. KnowsItsPrefix'
  BY <1>1, <1>4, <1>5 DEF KnowsItsPrefix, LoopTypeOK
<1>8. WaitsWhereDecided'
  BY <1>1, <1>5 DEF WaitsWhereDecided, LoopTypeOK, Call, Bounds
<1> QED
  BY <1>1, <1>6, <1>7, <1>8, ClientStep

\* A call that a client has made was decided on the prefix its condition ends.
LEMMA CallMade ==
    ASSUME LoopInv, NEW k \in Clients, NEW n \in 1..calls[k]
    PROVE  /\ <<k, n>> \in Decided /\ <<k, n>> \in Calls
           /\ phase[<<k, n>>] # "idle" /\ DecidedOnPrefix(<<k, n>>)
<1>1. calls[k] \in Nat /\ calls[k] <= MaxCalls[k] /\ MaxCalls[k] \in Nat
  BY DecidedCalls DEF LoopInv, LoopTypeOK, WaitsWhereDecided
<1>2. n \in 1..MaxCalls[k] /\ ~(n > calls[k])
  BY <1>1
<1> QED
  BY <1>2, DecidedCalls DEF LoopInv, CallsDecided

LEMMA LearnOkInv ==
    ASSUME LoopInv, NEW k \in Clients, LearnOk(k)
    PROVE  LoopInv'
<1> USE DEF LoopInv
<1> DEFINE c == <<k, calls[k]>>
           batch == Store!Batch(request[c], reply[c].ver)
<1>1. /\ UNCHANGED <<version, stored, phase, request, at, reply, calls, basis>>
      /\ step[k] = "waiting" /\ step' = [step EXCEPT ![k] = "deciding"]
      /\ phase[c] = "ok"
      /\ position' = [position EXCEPT ![k] = reply[c]]
      /\ known' = [known EXCEPT ![k] = @ \union batch]
  BY DEF LearnOk, Goto, Call
<1>2. calls[k] \in 1..calls[k] /\ request[c] = Claiming(position[k])
  BY <1>1 DEF WaitsWhereDecided, LoopTypeOK, Call
<1>3. c \in Decided /\ c \in Calls /\ DecidedOnPrefix(c)
  BY <1>2, CallMade
<1>4. /\ at[c] \in 1..version /\ reply[c] = [ver |-> at[c], idx |-> 0]
      /\ ClaimAt(at[c]) \in stored
      /\ UpTo(stored, [ver |-> at[c], idx |-> 0]) = basis[c] \union {ClaimAt(at[c])}
  BY <1>1, <1>3 DEF WrittenOnBasis
<1>5. basis[c] = known[k]
  <2>1. Bounds(c) = {position[k]}
    BY <1>2, BoundOfClaim
  <2> QED
    BY <1>3, <2>1 DEF DecidedOnPrefix, KnowsItsPrefix
<1>6. batch = {ClaimAt(at[c])}
  BY <1>2, <1>4, ClaimBatch
<1>7. version \in Nat /\ reply[c] \in Position /\ reply[c].ver <= version
  BY <1>4 DEF LoopTypeOK, Position
<1>8. known[k] \union batch = UpTo(stored, reply[c]) /\ batch \subseteq stored
  BY <1>4, <1>5, <1>6
<1> HIDE DEF c, batch
<1>9. LoopTypeOK'
  BY <1>1, <1>7, <1>8 DEF LoopTypeOK
<1>10. KnowsItsPrefix'
  BY <1>1, <1>7, <1>8 DEF KnowsItsPrefix, LoopTypeOK
<1>11. WaitsWhereDecided'
  BY <1>1 DEF WaitsWhereDecided, LoopTypeOK, Call, Bounds
<1> QED
  BY <1>1, <1>9, <1>10, <1>11, ClientStep

LEMMA LearnErrorInv ==
    ASSUME LoopInv, NEW k \in Clients, LearnError(k)
    PROVE  LoopInv'
<1> USE DEF LoopInv
<1>1. /\ UNCHANGED <<version, stored, phase, request, at, reply, calls, basis, known, position>>
      /\ step[k] = "waiting" /\ step' = [step EXCEPT ![k] = "reading"]
  BY DEF LearnError, Goto
<1>2. LoopTypeOK' /\ KnowsItsPrefix'
  BY <1>1 DEF LoopTypeOK, KnowsItsPrefix
<1>3. \E p \in Bounds(Call(k)) : ~Before(p, position[k])
  <2>1. Bounds(Call(k)) = {position[k]}
    BY <1>1, BoundOfClaim DEF WaitsWhereDecided
  <2> QED
    BY <2>1, BeforeOrder DEF LoopTypeOK
<1>4. WaitsWhereDecided'
  BY <1>1, <1>3 DEF WaitsWhereDecided, LoopTypeOK, Call, Bounds
<1> QED
  BY <1>1, <1>2, <1>4, ClientStep

LEMMA DieInv ==
    ASSUME LoopInv, NEW k \in Clients, Die(k)
    PROVE  LoopInv'
<1> USE DEF LoopInv
<1>1. /\ UNCHANGED <<version, stored, phase, request, at, reply, calls, basis>>
      /\ step[k] = "waiting" /\ step' = [step EXCEPT ![k] = "reading"]
      /\ known' = [known EXCEPT ![k] = {}] /\ position' = [position EXCEPT ![k] = Origin]
  BY DEF Die, Goto
<1>2. Origin \in Position /\ Origin.ver = 0 /\ 0 <= version
  BY DEF Origin, Position, LoopTypeOK
<1>3. LoopTypeOK'
  BY <1>1, <1>2 DEF LoopTypeOK
<1>4. UpTo(stored, Origin) = {}
  BY DEF UpTo, Ledger, Before, Origin, LoopTypeOK
<1>5. KnowsItsPrefix'
  BY <1>1, <1>2, <1>4 DEF KnowsItsPrefix, LoopTypeOK
<1>6. \E p \in Bounds(Call(k)) : ~Before(p, Origin)
  <2>1. Bounds(Call(k)) = {position[k]} /\ position[k] \in Position
    BY <1>1, BoundOfClaim DEF WaitsWhereDecided, LoopTypeOK
  <2> QED
    BY <2>1 DEF Before, Origin, Position
<1>7. WaitsWhereDecided'
  BY <1>1, <1>6 DEF WaitsWhereDecided, LoopTypeOK, Call, Bounds
<1> QED
  BY <1>1, <1>3, <1>5, <1>7, ClientStep

LEMMA DecideInv ==
    ASSUME LoopInv, NEW k \in Clients, Decide(k)
    PROVE  LoopInv'
<1> USE DEF LoopInv
<1>1. CASE ~(Cardinality(Claims(known[k])) < Capacity /\ calls[k] < MaxCalls[k])
  <2>1. /\ UNCHANGED <<version, stored, phase, request, at, reply, calls, basis, known, position>>
        /\ step' = [step EXCEPT ![k] = "stopped"]
    BY <1>1 DEF Decide, Goto
  <2>2. LoopTypeOK' /\ KnowsItsPrefix'
    BY <2>1 DEF LoopTypeOK, KnowsItsPrefix
  <2>3. WaitsWhereDecided'
    BY <2>1 DEF WaitsWhereDecided, LoopTypeOK, Call, Bounds
  <2> QED
    BY <2>1, <2>2, <2>3, ClientStep
<1>2. CASE Cardinality(Claims(known[k])) < Capacity /\ calls[k] < MaxCalls[k]
  <2>n. PICK n : n = calls[k] + 1
    OBVIOUS
  <2>c. PICK c : c = <<k, n>>
    OBVIOUS
  <2> DEFINE req == Claiming(position[k])
  <2>1. /\ UNCHANGED <<version, stored, at, reply, known, position>>
        /\ phase[c] = "idle"
        /\ phase' \in {[phase EXCEPT ![c] = p] : p \in {"pending", "failed"}}
        /\ request' = [request EXCEPT ![c] = req]
        /\ calls' = [calls EXCEPT ![k] = n]
        /\ basis' = [basis EXCEPT ![c] = known[k]]
        /\ step[k] = "deciding"
        /\ step' = [step EXCEPT ![k] = "waiting"]
    BY <1>2, <2>n, <2>c DEF Decide, Goto, Store!Ask, condition, Claiming
  <2>2. /\ calls[k] \in Nat /\ n \in 1..MaxCalls[k] /\ n \in Nat
        /\ c \in Calls /\ c \in Decided /\ c \notin Others
    BY <1>2, <2>n, <2>c, DecidedCalls DEF LoopTypeOK
  <2>3. req \in Request
    BY ClaimingType DEF LoopTypeOK
  <2> HIDE DEF req
  <2>4. PICK p \in {"pending", "failed"} : phase' = [phase EXCEPT ![c] = p]
    BY <2>1
  <2>5. LoopTypeOK'
    BY <2>1, <2>2, <2>3, <2>4 DEF LoopTypeOK, Store!Phase
  <2>6. Ledger' /\ KnowsItsPrefix' /\ RuleKept'
    BY <2>1 DEF Ledger, KnowsItsPrefix, RuleKept
  <2>7. /\ phase'[c] = p /\ request'[c] = req /\ basis'[c] = known[k] /\ calls'[k] = n
    BY <2>1, <2>2, <2>4 DEF LoopTypeOK
  <2>8. Bounds(c)' = {position[k]}
    BY <2>7, ClaimBound DEF Bounds, req
  <2>9. DecidedOnPrefix(c)'
    BY <1>2, <2>1, <2>4, <2>7, <2>8 DEF DecidedOnPrefix, KnowsItsPrefix, req
  <2>10. CallsDecided'
    <3> SUFFICES ASSUME NEW j \in Clients, NEW m \in 1..MaxCalls[j]
                 PROVE  IF m > calls'[j] THEN phase'[<<j, m>>] = "idle"
                        ELSE phase'[<<j, m>>] # "idle" /\ DecidedOnPrefix(<<j, m>>)'
      BY DEF CallsDecided
    <3>1. CASE j = k /\ m = n
      <4>1. phase'[c] # "idle" /\ ~(n > calls'[k]) /\ DecidedOnPrefix(c)'
        BY <2>2, <2>4, <2>7, <2>9
      <4> QED
        BY <4>1, <3>1, <2>c
    <3>2. CASE ~(j = k /\ m = n)
      <4>1. <<j, m>> # c /\ <<j, m>> \in Calls
        BY <3>2, <2>c, DecidedCalls
      <4>2. /\ phase'[<<j, m>>] = phase[<<j, m>>] /\ request'[<<j, m>>] = request[<<j, m>>]
            /\ basis'[<<j, m>>] = basis[<<j, m>>]
        BY <2>1, <2>4, <4>1 DEF LoopTypeOK
      <4>3. DecidedOnPrefix(<<j, m>>) => DecidedOnPrefix(<<j, m>>)'
        BY <2>1, <4>2 DEF DecidedOnPrefix, Bounds
      <4>4. m > calls'[j] <=> m > calls[j]
        <5>1. m \in Nat /\ calls[j] \in Nat
          BY DecidedCalls DEF LoopTypeOK
        <5>2. CASE j = k
          BY <2>2, <2>7, <3>2, <2>n, <5>1, <5>2
        <5>3. CASE j # k
          BY <2>1, <5>3 DEF LoopTypeOK
        <5> QED
          BY <5>2, <5>3
      <4> QED
        BY <4>2, <4>3, <4>4 DEF CallsDecided
    <3> QED
      BY <3>1, <3>2
  <2>11. OthersUnconditional'
    BY <2>1, <2>2, <2>4, DecidedCalls DEF OthersUnconditional, LoopTypeOK
  <2>12. WrittenOnBasis'
    <3> SUFFICES ASSUME NEW d \in Calls, phase'[d] \in {"written", "ok"}
                 PROVE  d # c
      BY <2>1, <2>4 DEF WrittenOnBasis, LoopTypeOK
    <3> QED
      BY <2>4, <2>7
  <2>13. WaitsWhereDecided'
    <3> SUFFICES ASSUME NEW j \in Clients
                 PROVE  /\ calls'[j] <= MaxCalls[j]
                        /\ step'[j] = "waiting" => /\ calls'[j] > 0
                                                   /\ request'[<<j, calls'[j]>>] = Claiming(position'[j])
                        /\ step'[j] = "reading" /\ calls'[j] > 0 =>
                               \E q \in {cond.after : cond \in request'[<<j, calls'[j]>>].conds} :
                                   ~Before(q, position'[j])
      BY DEF WaitsWhereDecided, Call, Bounds
    <3>1. CASE j = k
      BY <2>1, <2>2, <2>7, <2>c, <3>1, BeforeOrder DEF req, LoopTypeOK, Claiming
    <3>2. CASE j # k
      <4>1. /\ calls'[j] = calls[j] /\ step'[j] = step[j] /\ position'[j] = position[j]
            /\ calls[j] \in Nat /\ calls[j] <= MaxCalls[j]
        BY <2>1, <3>2 DEF LoopTypeOK, WaitsWhereDecided
      <4>2. <<j, calls[j]>> # c
        BY <2>c, <3>2
      <4>3. request'[<<j, calls[j]>>] = request[<<j, calls[j]>>]
        BY <2>1, <4>2 DEF LoopTypeOK
      <4> QED
        BY <4>1, <4>3 DEF WaitsWhereDecided, Call, Bounds
    <3> QED
      BY <3>1, <3>2
  <2> QED
    BY <2>5, <2>6, <2>10, <2>11, <2>12, <2>13
<1> QED
  BY <1>1, <1>2

\* A call that goes on without writing: only its phase and its reply change,
\* and it is refused only by an event after its condition's position.
LEMMA CallStep ==
    ASSUME LoopInv, NEW c \in Calls, NEW v \in {"ok", "refused", "failed"},
           phase[c] # "idle", phase' = [phase EXCEPT ![c] = v],
           v = "refused" => Store!Violated(request[c]),
           UNCHANGED <<version, stored, request, at>>, UNCHANGED clientVars
    PROVE  /\ Ledger' /\ KnowsItsPrefix' /\ CallsDecided' /\ OthersUnconditional'
           /\ WaitsWhereDecided' /\ RuleKept'
<1> USE DEF LoopInv, clientVars
<1>1. Ledger' /\ KnowsItsPrefix' /\ RuleKept'
  BY DEF Ledger, KnowsItsPrefix, RuleKept
<1>2. WaitsWhereDecided'
  BY DEF WaitsWhereDecided, Call, Bounds
<1>3. OthersUnconditional'
  BY DecidedCalls DEF OthersUnconditional, LoopTypeOK
<1>4. CallsDecided'
  <2> SUFFICES ASSUME NEW j \in Clients, NEW m \in 1..MaxCalls[j], NEW d, d = <<j, m>>
               PROVE  IF m > calls[j] THEN phase'[d] = "idle"
                      ELSE phase'[d] # "idle" /\ DecidedOnPrefix(d)'
    BY DEF CallsDecided
  <2>1. d \in Calls
    BY DecidedCalls
  <2>2. CASE d # c
    <3>1. phase'[d] = phase[d]
      BY <2>1, <2>2 DEF LoopTypeOK
    <3>2. DecidedOnPrefix(d) => DecidedOnPrefix(d)'
      BY <3>1 DEF DecidedOnPrefix, Bounds
    <3> QED
      BY <3>1, <3>2 DEF CallsDecided
  <2>3. CASE d = c
    <3>1. ~(m > calls[j]) /\ DecidedOnPrefix(d)
      BY <2>3 DEF CallsDecided
    <3>2. phase'[d] = v
      BY <2>1, <2>3 DEF LoopTypeOK
    <3>3. PICK p \in Bounds(d) :
              /\ request[d] = Claiming(p) /\ p.ver <= version /\ basis[d] = UpTo(stored, p)
              /\ Cardinality(Claims(basis[d])) < Capacity
      BY <3>1 DEF DecidedOnPrefix
    <3>4. p \in Position
      <4>1. request[d] \in Request /\ [items |-> Query, after |-> p] \in request[d].conds
        BY <2>1, <3>3 DEF LoopTypeOK, Claiming
      <4>2. [items |-> Query, after |-> p] \in [items : SUBSET QueryItem, after : Position]
        BY <4>1 DEF Request
      <4>3. [items |-> Query, after |-> p].after \in Position
        BY <4>2
      <4> QED
        BY <4>3
    <3>5. v = "refused" => \E e \in stored : Relevant(e) /\ Before(p, e.pos)
      BY <2>3, <3>3, <3>4, ClaimViolated
    <3>6. DecidedOnPrefix(d)'
      BY <3>2, <3>3, <3>5 DEF DecidedOnPrefix, Bounds
    <3> QED
      BY <3>1, <3>2, <3>6
  <2> QED
    BY <2>2, <2>3
<1> QED
  BY <1>1, <1>2, <1>3, <1>4

LEMMA SucceedInv ==
    ASSUME LoopInv, NEW c \in Calls, Store!Succeed(c), UNCHANGED clientVars
    PROVE  LoopInv'
<1> USE DEF LoopInv
<1> DEFINE p == [ver |-> at[c], idx |-> Len(request[c].events) - 1]
<1>1. /\ UNCHANGED <<version, stored, request, at>>
      /\ phase[c] = "written" /\ phase' = [phase EXCEPT ![c] = "ok"]
      /\ reply' = [reply EXCEPT ![c] = p]
  BY DEF Store!Succeed
<1>2. Len(request[c].events) = 1
  <2>2. CASE c \in Others
    <3>1. PICK e \in OtherEvents : request[c] = [events |-> <<e>>, conds |-> {}]
      BY <1>1, <2>2 DEF OthersUnconditional
    <3> QED
      BY <3>1
  <2>3. CASE c \in Decided
    <3>1. PICK k \in Clients : \E n \in 1..MaxCalls[k] : c = <<k, n>>
      BY <2>3, DecidedCalls
    <3>2. DecidedOnPrefix(c)
      BY <1>1, <3>1 DEF CallsDecided
    <3> QED
      BY <3>2 DEF DecidedOnPrefix, Claiming
  <2> QED
    BY <2>2, <2>3, DecidedCalls
<1>3. p = [ver |-> at[c], idx |-> 0] /\ p \in Position
  BY <1>2 DEF LoopTypeOK, Position
<1> HIDE DEF p
<1>4. LoopTypeOK'
  BY <1>1, <1>3 DEF LoopTypeOK, Store!Phase, clientVars
<1>5. WrittenOnBasis'
  BY <1>1, <1>3 DEF WrittenOnBasis, LoopTypeOK, clientVars
<1> QED
  BY <1>1, <1>4, <1>5, CallStep

LEMMA RefuseInv ==
    ASSUME LoopInv, NEW c \in Calls, Store!Refuse(c), UNCHANGED clientVars
    PROVE  LoopInv'
<1> USE DEF LoopInv
<1>1. /\ UNCHANGED <<version, stored, request, at, reply>>
      /\ phase[c] = "pending" /\ phase' = [phase EXCEPT ![c] = "refused"]
      /\ Store!Violated(request[c])
  BY DEF Store!Refuse
<1>2. LoopTypeOK'
  BY <1>1 DEF LoopTypeOK, Store!Phase, clientVars
<1>3. WrittenOnBasis'
  BY <1>1 DEF WrittenOnBasis, LoopTypeOK, clientVars
<1> QED
  BY <1>1, <1>2, <1>3, CallStep

LEMMA FailInv ==
    ASSUME LoopInv, NEW c \in Calls, Store!Fail(c), UNCHANGED clientVars
    PROVE  LoopInv'
<1> USE DEF LoopInv
<1>1. /\ UNCHANGED <<version, stored, request, at, reply>>
      /\ phase[c] \in {"pending", "written"} /\ phase' = [phase EXCEPT ![c] = "failed"]
  BY DEF Store!Fail
<1>2. LoopTypeOK'
  BY <1>1 DEF LoopTypeOK, Store!Phase, clientVars
<1>3. WrittenOnBasis'
  BY <1>1 DEF WrittenOnBasis, LoopTypeOK, clientVars
<1> QED
  BY <1>1, <1>2, <1>3, CallStep

LEMMA OtherInv ==
    ASSUME LoopInv, NEW c \in Others, Other(c)
    PROVE  LoopInv'
<1> USE DEF LoopInv, clientVars
<1>1. PICK e \in OtherEvents :
          request' = [request EXCEPT ![c] = [events |-> <<e>>, conds |-> {}]]
  BY DEF Other
<1>2. /\ UNCHANGED <<version, stored, at, reply, step, calls, known, position, basis>>
      /\ phase[c] = "idle"
      /\ phase' \in {[phase EXCEPT ![c] = p] : p \in {"pending", "failed"}}
  BY DEF Other, Store!Ask
<1>3. PICK p \in {"pending", "failed"} : phase' = [phase EXCEPT ![c] = p]
  BY <1>2
<1>4. [events |-> <<e>>, conds |-> {}] \in Request
  <2>1. e \in [type : Types, tags : Seq(Tags)]
    BY LoopAssumption
  <2>2. <<e>> \in Seq([type : Types, tags : Seq(Tags)])
    BY <2>1
  <2> QED
    BY <2>2 DEF Request
<1>5. c \in Calls /\ c \notin Decided
  BY DecidedCalls
<1>6. LoopTypeOK'
  BY <1>1, <1>2, <1>3, <1>4, <1>5 DEF LoopTypeOK, Store!Phase
<1>7. Ledger' /\ KnowsItsPrefix' /\ RuleKept'
  BY <1>2 DEF Ledger, KnowsItsPrefix, RuleKept
<1>8. \A d \in Calls : d # c => phase'[d] = phase[d] /\ request'[d] = request[d]
  BY <1>1, <1>3 DEF LoopTypeOK
<1>9. CallsDecided'
  <2> SUFFICES ASSUME NEW j \in Clients, NEW m \in 1..MaxCalls[j], NEW d, d = <<j, m>>
               PROVE  IF m > calls[j] THEN phase'[d] = "idle"
                      ELSE phase'[d] # "idle" /\ DecidedOnPrefix(d)'
    BY <1>2 DEF CallsDecided
  <2>1. phase'[d] = phase[d] /\ request'[d] = request[d]
    BY <1>5, <1>8, DecidedCalls
  <2>2. DecidedOnPrefix(d) => DecidedOnPrefix(d)'
    BY <1>2, <2>1 DEF DecidedOnPrefix, Bounds
  <2> QED
    BY <2>1, <2>2 DEF CallsDecided
<1>10. OthersUnconditional'
  BY <1>1, <1>5, <1>8, DecidedCalls DEF OthersUnconditional, LoopTypeOK
<1>11. WrittenOnBasis'
  BY <1>2, <1>3, <1>8 DEF WrittenOnBasis, LoopTypeOK
<1>12. WaitsWhereDecided'
  <2> SUFFICES ASSUME NEW j \in Clients
               PROVE  /\ calls[j] <= MaxCalls[j]
                      /\ step[j] = "waiting" => /\ calls[j] > 0
                                                /\ request'[<<j, calls[j]>>] = Claiming(position[j])
                      /\ step[j] = "reading" /\ calls[j] > 0 =>
                             \E q \in {cond.after : cond \in request'[<<j, calls[j]>>].conds} :
                                 ~Before(q, position[j])
    BY <1>2 DEF WaitsWhereDecided, Call, Bounds
  <2>1. calls[j] > 0 => request'[<<j, calls[j]>>] = request[<<j, calls[j]>>]
    <3> SUFFICES ASSUME calls[j] > 0 PROVE request'[<<j, calls[j]>>] = request[<<j, calls[j]>>]
      OBVIOUS
    <3>1. calls[j] \in 1..calls[j]
      BY DEF LoopTypeOK
    <3> QED
      BY <1>5, <1>8, <3>1, CallMade
  <2> QED
    BY <2>1 DEF WaitsWhereDecided, Call, Bounds
<1> QED
  BY <1>6, <1>7, <1>9, <1>10, <1>11, <1>12

\* The condition of a call that a client has made, and what it was decided on.
LEMMA DecidedCall ==
    ASSUME LoopInv, NEW c \in Decided, phase[c] # "idle"
    PROVE  \E p \in Position :
               /\ request[c] = Claiming(p) /\ p.ver <= version
               /\ basis[c] = UpTo(stored, p)
               /\ Cardinality(Claims(basis[c])) < Capacity
<1>1. PICK j \in Clients : \E n \in 1..MaxCalls[j] : c = <<j, n>>
  BY DecidedCalls
<1>2. c \in Calls /\ DecidedOnPrefix(c)
  BY <1>1, DecidedCalls DEF LoopInv, CallsDecided
<1>3. PICK p \in Bounds(c) :
          /\ request[c] = Claiming(p) /\ p.ver <= version /\ basis[c] = UpTo(stored, p)
          /\ Cardinality(Claims(basis[c])) < Capacity
  BY <1>2 DEF DecidedOnPrefix
<1>4. request[c] \in Request /\ [items |-> Query, after |-> p] \in request[c].conds
  <2>1. request[c] \in Request
    BY <1>2 DEF LoopInv, LoopTypeOK
  <2> QED
    BY <1>3, <2>1 DEF Claiming
<1>5. [items |-> Query, after |-> p] \in [items : SUBSET QueryItem, after : Position]
  BY <1>4 DEF Request
<1>6. [items |-> Query, after |-> p].after \in Position
  BY <1>5
<1> QED
  BY <1>3, <1>6

\* A claim that is written was decided on all the relevant events there are.
LEMMA WriteIsCurrent ==
    ASSUME LoopInv, NEW c \in Decided, phase[c] = "pending", ~Store!Violated(request[c])
    PROVE  /\ basis[c] = {e \in stored : Relevant(e)}
           /\ Cardinality(Claims(basis[c])) < Capacity
           /\ \E p : request[c] = Claiming(p)
<1>1. PICK p \in Position :
          /\ request[c] = Claiming(p) /\ basis[c] = UpTo(stored, p)
          /\ Cardinality(Claims(basis[c])) < Capacity
  BY DecidedCall
<1>2. \A e \in stored : Relevant(e) => ~Before(p, e.pos)
  BY <1>1, ClaimViolated
<1> QED
  BY <1>1, <1>2 DEF UpTo

\* One more event of the type counted makes at most one more.
LEMMA OneMoreClaim ==
    ASSUME NEW S, IsFiniteSet(S), NEW x
    PROVE  /\ Cardinality(Claims(S)) \in Nat
           /\ Cardinality(Claims(S \union {x})) <= Cardinality(Claims(S)) + 1
           /\ x.type # Claim.type => Claims(S \union {x}) = Claims(S)
<1>1. IsFiniteSet(Claims(S))
  BY FS_Subset DEF Claims
<1>2. Cardinality(Claims(S)) \in Nat
  BY <1>1, FS_CardinalityType
<1>3. Claims(S \union {x}) = Claims(S) \/ Claims(S \union {x}) = Claims(S) \union {x}
  BY DEF Claims
<1>4. Cardinality(Claims(S) \union {x}) <= Cardinality(Claims(S)) + 1
  BY <1>1, <1>2, FS_AddElement
<1>5. x.type # Claim.type => Claims(S \union {x}) = Claims(S)
  BY DEF Claims
<1>6. Cardinality(Claims(S \union {x})) <= Cardinality(Claims(S)) + 1
  <2>1. CASE Claims(S \union {x}) = Claims(S)
    <3>1. Cardinality(Claims(S \union {x})) = Cardinality(Claims(S))
      BY <2>1
    <3> QED
      BY <1>2, <3>1
  <2>2. CASE Claims(S \union {x}) = Claims(S) \union {x}
    <3>1. Cardinality(Claims(S \union {x})) = Cardinality(Claims(S) \union {x})
      BY <2>2
    <3> QED
      BY <1>4, <3>1
  <2> QED
    BY <1>3, <2>1, <2>2
<1> QED
  BY <1>2, <1>5, <1>6

\* The event a call writes: alone in its batch, and counted only if it is the
\* claim of a client.
LEMMA EventWritten ==
    ASSUME LoopInv, NEW c \in Calls, phase[c] = "pending"
    PROVE  \E x \in StoredEvent :
               /\ Store!Batch(request[c], version + 1) = {x}
               /\ x.pos = [ver |-> version + 1, idx |-> 0]
               /\ c \in Decided => x = ClaimAt(version + 1)
               /\ x.type = Claim.type => Relevant(x)
               /\ c \notin Decided => x.type # Claim.type
<1>1. version + 1 \in Nat
  BY DEF LoopInv, LoopTypeOK
<1>2. CASE c \in Decided
  <2>1. PICK p \in Position : request[c] = Claiming(p)
    BY <1>2, DecidedCall
  <2>2. Store!Batch(request[c], version + 1) = {ClaimAt(version + 1)}
    BY <1>1, <2>1, ClaimBatch
  <2>3. ClaimAt(version + 1).pos = [ver |-> version + 1, idx |-> 0]
    BY DEF ClaimAt
  <2> QED
    BY <1>1, <1>2, <2>2, <2>3, ClaimType
<1>3. CASE c \notin Decided
  <2>1. PICK e \in OtherEvents : request[c] = [events |-> <<e>>, conds |-> {}]
    BY <1>3, DecidedCalls DEF LoopInv, OthersUnconditional
  <2> DEFINE x == [pos |-> [ver |-> version + 1, idx |-> 0], type |-> e.type, tags |-> Range(e.tags)]
  <2>2. Store!Batch(request[c], version + 1) = {x}
    BY <1>1, <2>1, BatchOfOne
  <2>3. e.type \in Types /\ e.tags \in Seq(Tags) /\ e.type # Claim.type
    BY LoopAssumption, PatternAssumption
  <2>4. Range(e.tags) \subseteq Tags
    BY <2>3 DEF Range
  <2>5. x \in StoredEvent
    BY <1>1, <2>3, <2>4 DEF StoredEvent, Position
  <2> QED
    BY <1>3, <2>2, <2>3, <2>5
<1> QED
  BY <1>2, <1>3

LEMMA WriteInv ==
    ASSUME LoopInv, NEW c \in Calls, Store!Write(c), UNCHANGED clientVars
    PROVE  LoopInv'
<1> USE DEF LoopInv, clientVars
<1>1. PICK x \in StoredEvent :
          /\ Store!Batch(request[c], version + 1) = {x}
          /\ x.pos = [ver |-> version + 1, idx |-> 0]
          /\ c \in Decided => x = ClaimAt(version + 1)
          /\ x.type = Claim.type => Relevant(x)
          /\ c \notin Decided => x.type # Claim.type
  BY EventWritten DEF Store!Write
<1>2. /\ phase[c] = "pending" /\ ~Store!Violated(request[c])
      /\ version' = version + 1
      /\ stored' = stored \union {x}
      /\ at' = [at EXCEPT ![c] = version + 1]
      /\ phase' = [phase EXCEPT ![c] = "written"]
      /\ UNCHANGED <<request, reply, step, calls, known, position, basis>>
  BY <1>1 DEF Store!Write
<1>3. version \in Nat /\ x.pos \in Position /\ x.pos.ver = version + 1 /\ x.pos.idx = 0
  BY <1>1 DEF LoopTypeOK, Position
<1>4. LoopTypeOK'
  BY <1>2, <1>3 DEF LoopTypeOK, Store!Phase
<1>5. \A p \in Position : p.ver <= version => UpTo(stored', p) = UpTo(stored, p)
  BY <1>2, <1>3, LaterEventsAreAfter
<1>6. Ledger'
  <2>1. IsFiniteSet(stored')
    BY <1>2, FS_AddElement DEF Ledger
  <2>2. ASSUME NEW e \in stored'
        PROVE  /\ e.pos.ver \in 1..version' /\ e.pos.idx = 0
               /\ e.type = Claim.type => Relevant(e)
    BY <1>1, <1>2, <1>3, <2>2 DEF Ledger
  <2> QED
    BY <2>1, <2>2 DEF Ledger
<1>7. KnowsItsPrefix'
  <2> SUFFICES ASSUME NEW k \in Clients
               PROVE  position[k].ver <= version + 1 /\ known[k] = UpTo(stored', position[k])
    BY <1>2 DEF KnowsItsPrefix
  <2>1. /\ position[k] \in Position /\ position[k].ver \in Nat
        /\ position[k].ver <= version /\ known[k] = UpTo(stored, position[k])
    BY DEF KnowsItsPrefix, LoopTypeOK, Position
  <2> QED
    BY <1>3, <1>5, <2>1
<1>8. \A d \in Calls : d # c => phase'[d] = phase[d] /\ at'[d] = at[d]
  BY <1>2 DEF LoopTypeOK
<1>9. phase'[c] = "written" /\ at'[c] = version + 1
  BY <1>2 DEF LoopTypeOK
<1>10. CallsDecided'
  <2> SUFFICES ASSUME NEW j \in Clients, NEW m \in 1..MaxCalls[j], NEW d, d = <<j, m>>
               PROVE  IF m > calls[j] THEN phase'[d] = "idle"
                      ELSE phase'[d] # "idle" /\ DecidedOnPrefix(d)'
    BY <1>2 DEF CallsDecided
  <2>1. d \in Calls /\ d \in Decided
    BY DecidedCalls
  <2>2. phase'[d] = "idle" <=> phase[d] = "idle"
    BY <1>2, <1>8, <1>9, <2>1
  <2>3. ASSUME ~(m > calls[j])
        PROVE  DecidedOnPrefix(d)'
    <3>1. phase[d] # "idle" /\ DecidedOnPrefix(d)
      BY <2>3 DEF CallsDecided
    <3>2. PICK p \in Position : /\ request[d] = Claiming(p) /\ p.ver <= version
                                /\ basis[d] = UpTo(stored, p)
                                /\ Cardinality(Claims(basis[d])) < Capacity
      BY <2>1, <3>1, DecidedCall
    <3>3. Bounds(d) = {p}
      BY <3>2, BoundOfClaim
    <3>4. phase[d] = "refused" => \E e \in stored : Relevant(e) /\ Before(p, e.pos)
      BY <3>1, <3>3 DEF DecidedOnPrefix
    <3>5. phase'[d] = "refused" => phase[d] = "refused"
      BY <1>8, <1>9, <2>1
    <3>6. p \in Bounds(d)' /\ p.ver <= version' /\ basis'[d] = UpTo(stored', p)
      <4>1. Bounds(d)' = Bounds(d)
        BY <1>2 DEF Bounds
      <4>2. p.ver \in Nat
        BY DEF Position
      <4>3. UpTo(stored', p) = UpTo(stored, p)
        BY <1>5, <3>2
      <4> QED
        BY <1>2, <1>3, <3>2, <3>3, <4>1, <4>2, <4>3
    <3> QED
      BY <1>2, <3>2, <3>4, <3>5, <3>6 DEF DecidedOnPrefix
  <2> QED
    BY <2>2, <2>3 DEF CallsDecided
<1>11. OthersUnconditional'
  BY <1>2, <1>8, DecidedCalls DEF OthersUnconditional
<1>12. WaitsWhereDecided'
  BY <1>2 DEF WaitsWhereDecided, Call, Bounds
<1>13. WrittenOnBasis'
  <2> SUFFICES ASSUME NEW d \in Calls, phase'[d] \in {"written", "ok"}
               PROVE  /\ at'[d] \in 1..version'
                      /\ phase'[d] = "ok" => reply'[d] = [ver |-> at'[d], idx |-> 0]
                      /\ d \in Decided => /\ ClaimAt(at'[d]) \in stored'
                                          /\ UpTo(stored', [ver |-> at'[d], idx |-> 0])
                                               = basis[d] \union {ClaimAt(at'[d])}
    BY <1>2 DEF WrittenOnBasis
  <2>1. CASE d # c
    <3>1. /\ phase[d] \in {"written", "ok"} /\ at'[d] = at[d] /\ phase'[d] = phase[d]
          /\ at[d] \in 1..version
      BY <1>8, <2>1 DEF WrittenOnBasis
    <3>2. [ver |-> at[d], idx |-> 0] \in Position
      BY <1>3, <3>1 DEF Position
    <3>3. UpTo(stored', [ver |-> at[d], idx |-> 0]) = UpTo(stored, [ver |-> at[d], idx |-> 0])
      BY <1>3, <1>5, <3>1, <3>2
    <3> QED
      BY <1>2, <1>3, <3>1, <3>3 DEF WrittenOnBasis
  <2>2. CASE d = c
    <3>1. at'[d] = version + 1 /\ phase'[d] = "written" /\ version + 1 \in 1..version'
      BY <1>2, <1>3, <1>9, <2>2
    <3>2. ASSUME c \in Decided
          PROVE  /\ ClaimAt(version + 1) \in stored'
                 /\ UpTo(stored', [ver |-> version + 1, idx |-> 0])
                      = basis[c] \union {ClaimAt(version + 1)}
      <4> DEFINE q == [ver |-> version + 1, idx |-> 0]
      <4>1. x = ClaimAt(version + 1) /\ Relevant(x)
        BY <1>1, <1>3, <3>2, ClaimType
      <4>2. basis[c] = {e \in stored : Relevant(e)}
        BY <1>2, <3>2, WriteIsCurrent
      <4>3. \A e \in stored' : ~Before(q, e.pos)
        BY <1>1, <1>2, <1>3 DEF Ledger, Before
      <4>4. UpTo(stored', q) = {e \in stored' : Relevant(e)}
        BY <4>3 DEF UpTo
      <4> QED
        BY <1>2, <4>1, <4>2, <4>4
    <3> QED
      BY <2>2, <3>1, <3>2
  <2> QED
    BY <2>1, <2>2
<1>14. RuleKept'
  <2>1. IsFiniteSet(stored) /\ Capacity \in Nat
    BY LoopAssumption DEF Ledger
  <2>2. CASE c \in Decided
    <3>1. /\ basis[c] = {e \in stored : Relevant(e)}
          /\ Cardinality(Claims(basis[c])) < Capacity
      BY <1>2, <2>2, WriteIsCurrent
    <3>2. Claims(basis[c]) = Claims(stored)
      BY <3>1 DEF Claims, Ledger
    <3> QED
      <4>1. /\ Cardinality(Claims(stored)) \in Nat
            /\ Cardinality(Claims(stored \union {x})) <= Cardinality(Claims(stored)) + 1
        BY <2>1, OneMoreClaim
      <4>2. Cardinality(Claims(stored \union {x})) \in Nat
        BY <2>1, FS_AddElement, OneMoreClaim
      <4>3. Cardinality(Claims(stored \union {x})) <= Capacity
        BY <2>1, <3>1, <3>2, <4>1, <4>2
      <4> QED
        BY <1>2, <4>3 DEF RuleKept
  <2>3. CASE c \notin Decided
    <3>1. Claims(stored') = Claims(stored)
      BY <1>1, <1>2, <2>1, <2>3, OneMoreClaim
    <3> QED
      BY <3>1 DEF RuleKept
  <2> QED
    BY <2>2, <2>3
<1> QED
  BY <1>4, <1>6, <1>7, <1>10, <1>11, <1>12, <1>13, <1>14

(***************************************************************************)
(* The theorems.                                                           *)
(***************************************************************************)
\* Every step keeps the invariant.
LEMMA NextInv == LoopInv /\ [LoopNext]_vars => LoopInv'
<1> SUFFICES ASSUME LoopInv, [LoopNext]_vars PROVE LoopInv'
  OBVIOUS
<1>1. CASE UNCHANGED vars
  <2>1. /\ UNCHANGED <<version, stored, phase, request, at, reply, calls, basis>>
        /\ UNCHANGED <<step, known, position>>
    BY <1>1 DEF vars
  <2>2. LoopTypeOK' /\ KnowsItsPrefix' /\ WaitsWhereDecided'
    BY <2>1 DEF LoopInv, LoopTypeOK, KnowsItsPrefix, WaitsWhereDecided, Call, Bounds
  <2> QED
    BY <2>1, <2>2, ClientStep DEF LoopInv
<1>2. ASSUME NEW k \in Clients,
             Read(k) \/ Decide(k) \/ LearnOk(k) \/ LearnError(k) \/ Die(k)
      PROVE  LoopInv'
  BY <1>2, ReadInv, DecideInv, LearnOkInv, LearnErrorInv, DieInv
<1>3. ASSUME NEW c \in Others, Other(c)
      PROVE  LoopInv'
  BY <1>3, OtherInv
<1>4. ASSUME NEW c \in Calls, Serve(c)
      PROVE  LoopInv'
  BY <1>4, WriteInv, SucceedInv, RefuseInv, FailInv DEF Serve
<1> QED
  BY <1>1, <1>2, <1>3, <1>4 DEF LoopNext

\* A client knows exactly the events of its query up to its position, the
\* condition of every call is the end of what it was decided on, and the rule
\* holds: through refusals, errors, deaths and reads of any size.
THEOREM PatternInvariant == LoopSpec => []LoopInv
<1>1. LoopInit => LoopInv
  BY InitInv
<1>2. LoopInv /\ [LoopNext]_vars => LoopInv'
  BY NextInv
<1> QED
  BY <1>1, <1>2, PTL DEF LoopSpec

\* Every variable has its type, and clients know only what is stored.
THEOREM LoopTypeCorrect == LoopSpec => []LoopTypeOK
<1>1. LoopInv => LoopTypeOK
  BY DEF LoopInv
<1> QED
  BY <1>1, PatternInvariant, PTL

\* There are never more than Capacity claims in the store: the condition of
\* the append is enough to keep a rule over the events of the query.
THEOREM CapacityRespected == LoopSpec => []RuleKept
<1>1. LoopInv => RuleKept
  BY DEF LoopInv
<1> QED
  BY <1>1, PatternInvariant, PTL

\* Only the atomic step of the store makes a pending call a written one.
LEMMA OnlyWriteWrites ==
    ASSUME LoopInv, LoopNext, NEW c \in Calls, phase[c] = "pending", phase'[c] = "written"
    PROVE  Store!Write(c)
<1> USE DEF LoopInv
<1>1. phase \in [Calls -> Store!Phase]
  BY DEF LoopTypeOK
<1>2. CASE phase' = phase
  BY <1>2
<1>3. ASSUME NEW d, \E p \in {"pending", "failed"} : phase' = [phase EXCEPT ![d] = p]
      PROVE  FALSE
  BY <1>1, <1>3
<1>4. ASSUME NEW k \in Clients,
             Read(k) \/ Decide(k) \/ LearnOk(k) \/ LearnError(k) \/ Die(k)
      PROVE  phase' = phase \/ \E d : \E p \in {"pending", "failed"} : phase' = [phase EXCEPT ![d] = p]
  BY <1>4 DEF Read, Decide, LearnOk, LearnError, Die, Store!Ask
<1>5. ASSUME NEW d \in Others, Other(d)
      PROVE  \E p \in {"pending", "failed"} : phase' = [phase EXCEPT ![d] = p]
  BY <1>5 DEF Other, Store!Ask
<1>6. ASSUME NEW d \in Calls, Serve(d)
      PROVE  Store!Write(c)
  <2>1. CASE d # c
    <3>1. phase'[c] = phase[c]
      BY <1>1, <1>6, <2>1 DEF Serve, Store!Write, Store!Succeed, Store!Refuse, Store!Fail
    <3> QED
      BY <3>1
  <2>2. CASE d = c
    BY <1>1, <1>6, <2>2 DEF Serve, Store!Write, Store!Succeed, Store!Refuse, Store!Fail
  <2> QED
    BY <2>1, <2>2
<1> QED
  BY <1>2, <1>3, <1>4, <1>5, <1>6 DEF LoopNext

\* A claim is stored only if it was decided on all that the query selects
\* when it is stored.
THEOREM DecisionsAreCurrent == LoopSpec => DecisionsCurrent
<1>1. LoopInv /\ [LoopNext]_vars =>
          [\A c \in Decided :
              phase[c] = "pending" /\ phase'[c] = "written" => basis[c] = Wanted(Origin)]_vars
  <2> SUFFICES ASSUME LoopInv, LoopNext, NEW c \in Decided,
                      phase[c] = "pending", phase'[c] = "written"
               PROVE  basis[c] = Wanted(Origin)
    OBVIOUS
  <2>1. c \in Calls
    BY DEF Calls
  <2>2. Store!Write(c)
    BY <2>1, OnlyWriteWrites
  <2>3. basis[c] = {e \in stored : Relevant(e)}
    BY <2>2, WriteIsCurrent DEF Store!Write
  <2>4. \A e \in stored : Before(Origin, e.pos)
    BY DEF LoopInv, LoopTypeOK, Ledger, Before, Origin
  <2> QED
    BY <2>3, <2>4, WantedEvents
<1> QED
  BY <1>1, PatternInvariant, PTL DEF LoopSpec, DecisionsCurrent

\* What refused a call is there to be read: the next read returns something.
LEMMA RefusalIsRead ==
    ASSUME LoopInv, NEW k \in Clients, Read(k), calls[k] > 0, phase[Call(k)] = "refused"
    PROVE  known'[k] # known[k]
<1> USE DEF LoopInv
<1>1. PICK limit \in Limits :
          known' = [known EXCEPT ![k] = @ \union Page(Wanted(position[k]), limit)]
  BY DEF Read
<1>2. PICK p \in Bounds(Call(k)) : ~Before(p, position[k])
  BY DEF Read, WaitsWhereDecided
<1>3. <<k, calls[k]>> \in Decided /\ DecidedOnPrefix(<<k, calls[k]>>)
  <2>1. calls[k] \in 1..calls[k]
    BY DEF LoopTypeOK
  <2> QED
    BY <2>1, CallMade
<1>4. PICK q \in Position : request[Call(k)] = Claiming(q)
  BY <1>3, DecidedCall DEF Call
<1>5. p = q /\ p \in Position
  BY <1>2, <1>4, BoundOfClaim
<1>6. PICK e \in stored : Relevant(e) /\ Before(p, e.pos)
  BY <1>3, <1>4, <1>5, BoundOfClaim DEF DecidedOnPrefix, Call
<1>7. e.pos \in Position /\ position[k] \in Position /\ stored \subseteq StoredEvent
  BY DEF LoopTypeOK, StoredEvent
<1>8. Before(position[k], e.pos)
  BY <1>2, <1>5, <1>6, <1>7, BeforeOrder
<1>9. e \in Wanted(position[k])
  BY <1>6, <1>8, WantedEvents
<1>10. Wanted(position[k]) \in SUBSET StoredEvent /\ IsFiniteSet(Wanted(position[k]))
  BY <1>7, WantedEvents, FS_Subset DEF Ledger
<1>11. PICK f : f \in Page(Wanted(position[k]), limit)
  BY <1>9, <1>10, PageNotEmpty, LoopAssumption
<1>12. f \in Wanted(position[k])
  BY <1>11, PageSubset
<1>13. f \notin known[k]
  BY <1>12, WantedEvents DEF KnowsItsPrefix, UpTo
<1> QED
  BY <1>1, <1>11, <1>13 DEF LoopTypeOK

\* A client that was refused learns something when it reads on, so it does
\* not retry for nothing.
THEOREM RefusalsAreNews == LoopSpec => RefusalIsNews
<1>1. LoopInv /\ [LoopNext]_vars =>
          [\A k \in Clients :
              /\ step[k] = "reading" /\ step'[k] = "deciding"
              /\ calls[k] > 0 /\ phase[Call(k)] = "refused"
              => known'[k] # known[k]]_vars
  <2> SUFFICES ASSUME LoopInv, LoopNext, NEW k \in Clients,
                      step[k] = "reading", step'[k] = "deciding",
                      calls[k] > 0, phase[Call(k)] = "refused"
               PROVE  known'[k] # known[k]
    OBVIOUS
  <2>1. step \in [Clients -> {"reading", "deciding", "waiting", "stopped"}]
    BY DEF LoopInv, LoopTypeOK
  <2>2. \A c : ~(Other(c) \/ Serve(c))
    BY DEF Other, Serve, clientVars
  <2>3. Read(k)
    <3>1. PICK j \in Clients : Read(j) \/ Decide(j) \/ LearnOk(j) \/ LearnError(j) \/ Die(j)
      BY <2>2 DEF LoopNext
    <3>2. j = k
      BY <2>1, <3>1 DEF Read, Decide, LearnOk, LearnError, Die, Goto
    <3>3. ~(Decide(k) \/ LearnOk(k) \/ LearnError(k) \/ Die(k))
      BY DEF Decide, LearnOk, LearnError, Die
    <3> QED
      BY <3>1, <3>2, <3>3
  <2> QED
    BY <2>3, RefusalIsRead
<1> QED
  BY <1>1, PatternInvariant, PTL DEF LoopSpec, RefusalIsNews
=============================================================================
