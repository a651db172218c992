------------------------- MODULE Subscription_proofs -------------------------
(***************************************************************************)
(* Proofs about Subscription, for every set of calls, requests and         *)
(* consumers, every query and page size, and any number of crashes.  What  *)
(* is proved of DCBAppend holds here as well: its calls are the writers.   *)
(***************************************************************************)
EXTENDS Subscription, DCBAppend_proofs

(***************************************************************************)
(* The writers.                                                            *)
(***************************************************************************)
\* A batch is a finite set of events.
LEMMA StampedFinite ==
    ASSUME NEW batch \in Seq(RawEvent), NEW v
    PROVE  IsFiniteSet(stamped(batch, v))
<1> DEFINE S == stamped(batch, v)
           At(i) == [pos  |-> [ver |-> v, idx |-> as_u16(i - 1)],
                     type |-> batch[i].type,
                     tags |-> sort_tags(batch[i].tags)]
           f == [i \in 1..Len(batch) |-> At(i)]
<1>1. DOMAIN batch = 1..Len(batch) /\ Len(batch) \in Nat
  OBVIOUS
<1>2. S = {At(i) : i \in 1..Len(batch)}
  BY <1>1 DEF stamped
<1> HIDE DEF S, At
<1>3. f \in Surjection(1..Len(batch), S)
  BY <1>2 DEF Surjection
<1>4. IsFiniteSet(1..Len(batch))
  BY <1>1, FS_Interval
<1> HIDE DEF f
<1>5. IsFiniteSet(S)
  BY <1>3, <1>4, FS_Surjection
<1> QED
  BY <1>5 DEF S

\* A step of a writer leaves the store alone, or adds a batch of the next
\* version and sets the sentinel to it.
LEMMA WriterStep ==
    ASSUME Inv, Next
    PROVE  \/ UNCHANGED <<version, events, sentinel>>
           \/ /\ version' = version + 1
              /\ sentinel' = version + 1
              /\ events \subseteq events'
              /\ \A e \in events' \ events : e.pos.ver = version + 1
              /\ IsFiniteSet(events) => IsFiniteSet(events')
<1>1. ASSUME NEW c \in Calls, Commit(c)
      PROVE  /\ version' = version + 1
             /\ sentinel' = version + 1
             /\ events \subseteq events'
             /\ \A e \in events' \ events : e.pos.ver = version + 1
             /\ IsFiniteSet(events) => IsFiniteSet(events')
  <2>1. request[c].events \in Seq(RawEvent)
    BY DEF Inv, TypeOK
  <2>2. events' = events \union stamped(request[c].events, version + 1)
    BY <1>1 DEF Commit
  <2>3. IsFiniteSet(stamped(request[c].events, version + 1))
    BY <2>1, StampedFinite
  <2>4. IsFiniteSet(events) => IsFiniteSet(events')
    BY <2>2, <2>3, FS_Union
  <2>5. \A e \in stamped(request[c].events, version + 1) : e.pos.ver = version + 1
    BY DEF stamped
  <2> QED
    BY <1>1, <2>2, <2>4, <2>5 DEF Commit, sentinel_val
<1>2. ASSUME NEW c \in Calls, Call(c) \/ Crash(c)
      PROVE  UNCHANGED <<version, events, sentinel>>
  BY <1>2 DEF Call, Crash
<1>3. ASSUME NEW c \in Calls, Step(c), ~Commit(c)
      PROVE  UNCHANGED <<version, events, sentinel>>
  BY <1>3 DEF Step, ProbeError, ProbeMatched, ProbeClear, CommitRejected, CommitOk,
              CommitUnknown, ReturnOk, StampError, Acked, on_error, Retry, GiveUp
<1> QED
  BY <1>1, <1>2, <1>3 DEF Next, AllReturned, vars

\* The writers do not know of the consumers.
THEOREM WritersUndisturbed == SubSafeSpec => []Inv
<1>1. SubInit => Inv
  BY InitInv DEF SubInit
<1>2. Inv /\ [SubNext]_allVars => Inv'
  BY NextInv DEF SubNext, allVars
<1> QED
  BY <1>1, <1>2, PTL DEF SubSafeSpec

(***************************************************************************)
(* What a consumer wants, and a page of it.                                *)
(***************************************************************************)
Relevant(e) == \E item \in Query : Matches(e, item)

\* Wanted, of any set of events.
Among(set, p) == {e \in set : Before(p, e.pos) /\ Relevant(e)}

LEMMA WantedEvents ==
    ASSUME NEW p
    PROVE  Wanted(p) = Among(events, p)
  BY DEF Wanted, Selected, Relevant, Among

LEMMA WantedAfterStep ==
    ASSUME NEW s
    PROVE  Wanted(position[s])' = Among(events', position'[s])
  BY DEF Wanted, Selected, Relevant, Among

\* Positions and versions: an event of a version to come is after every
\* position there is, and every event is after Origin.
LEMMA StoredEvents ==
    ASSUME Inv
    PROVE  /\ version \in Nat
           /\ \A e \in events : /\ e \in StoredEvent /\ e.pos \in Position
                                /\ e.pos.ver <= version
                                /\ Before(Origin, e.pos)
<1>1. version \in Nat /\ events \in SUBSET StoredEvent
  BY DEF Inv, TypeOK
<1>2. \A e \in events : e.pos.ver \in 1..version
  BY DEF Inv, Ledger
<1>3. \A e \in events : e \in StoredEvent /\ e.pos \in Position
  BY <1>1 DEF StoredEvent
<1> QED
  BY <1>1, <1>2, <1>3 DEF Position, Before, Origin

LEMMA FirstOfWanted ==
    ASSUME Inv, IsFiniteSet(events), NEW p \in Position
    PROVE  LET R == FirstOf(Wanted(p), PageSize)
           IN  /\ R \subseteq Wanted(p)
               /\ R = {} => Wanted(p) = {}
               /\ \A f \in R : \A e \in Wanted(p) : ~Before(f.pos, e.pos) => e \in R
<1> DEFINE W == Wanted(p)
           R == FirstOf(W, PageSize)
<1>1. W \subseteq events
  BY WantedEvents DEF Among
<1>2. W \in SUBSET StoredEvent /\ IsFiniteSet(W)
  BY <1>1, StoredEvents, FS_Subset
<1>3. PageSize \in Nat \ {0} /\ PageSize \in Nat
  BY SubscriptionAssumption
<1> HIDE DEF W
<1>4. R = Leading(W, PageSize)
  BY DEF FirstOf, Leading
<1>5. R \subseteq W
  BY DEF FirstOf
<1> HIDE DEF R
<1>6. R = {} => W = {}
  BY <1>2, <1>3, <1>4, LeadingNotEmpty
<1>7. \A f \in R : \A e \in W : ~Before(f.pos, e.pos) => e \in R
  BY <1>2, <1>3, <1>4, LeadingIsPrefix
<1> QED
  BY <1>5, <1>6, <1>7 DEF W, R

(***************************************************************************)
(* The inductive invariant.                                                *)
(***************************************************************************)
LEMMA SubInitInv == SubInit => SubInv
<1> SUFFICES ASSUME SubInit PROVE SubInv
  OBVIOUS
<1>1. /\ version = 0 /\ events = {} /\ sentinel = 0
      /\ cursor = Origin /\ late = {} /\ crashes = 0 /\ delivered = {}
      /\ doing = [s \in Consumers |-> "down"]
      /\ position = [s \in Consumers |-> Origin]
      /\ page = [s \in Consumers |-> {}]
      /\ baseline = [s \in Consumers |-> 0]
  BY DEF SubInit, Init
<1>2. SubTypeOK
  BY <1>1, OriginType, SubscriptionAssumption DEF SubTypeOK, Doing
<1>3. IsFiniteSet(events)
  BY <1>1, FS_EmptySet
<1>4. OfThePast
  BY <1>1 DEF OfThePast, Saved, Origin
<1>5. NothingSkipped
  BY <1>1, WantedEvents DEF NothingSkipped, Among
<1>6. \A s \in Consumers : PageExact(s) /\ WatchHolds(s)
  BY <1>1 DEF PageExact, WatchHolds
<1> QED
  BY <1>2, <1>3, <1>4, <1>5, <1>6 DEF SubInv

\* Appends leave the pages exact, the watches sound and the positions past.
LEMMA WriterInv ==
    ASSUME Inv, Inv', SubInv, Next, UNCHANGED subVars
    PROVE  SubInv'
<1>1. CASE UNCHANGED <<version, events, sentinel>>
  BY <1>1 DEF subVars, SubInv, SubTypeOK, OfThePast, Saved, PageExact, WatchHolds, Fired,
              NothingSkipped, Wanted, Selected
<1>2. CASE /\ version' = version + 1
           /\ sentinel' = version + 1
           /\ events \subseteq events'
           /\ \A e \in events' \ events : e.pos.ver = version + 1
           /\ IsFiniteSet(events) => IsFiniteSet(events')
  <2>1. UNCHANGED <<cursor, doing, position, page, baseline, late, crashes, delivered>>
    BY DEF subVars
  <2>2. version \in Nat
    BY StoredEvents
  <2>3. SubTypeOK'
    BY <1>2, <2>1 DEF SubInv, SubTypeOK
  <2>4. \A p \in Saved : p \in Position /\ p.ver <= version
    BY DEF SubInv, SubTypeOK, OfThePast, Saved
  <2>5. OfThePast'
    <3>1. Saved' = Saved
      BY <2>1 DEF Saved
    <3>2. \A s \in Consumers : baseline[s] \in Nat /\ baseline[s] <= version
      BY DEF SubInv, SubTypeOK, OfThePast
    <3>3. \A p \in Saved : p.ver <= version + 1
      BY <2>2, <2>4 DEF Position
    <3> QED
      BY <1>2, <2>1, <2>2, <3>1, <3>2, <3>3 DEF OfThePast
  <2>6. ASSUME NEW p \in Position, p.ver <= version, NEW e \in events', ~Before(p, e.pos)
        PROVE  e \in events
    BY <1>2, <2>2, <2>6 DEF Before, Position
  <2>7. NothingSkipped'
    <3>1. Saved' = Saved
      BY <2>1 DEF Saved
    <3>2. Wanted(Origin)' = Among(events', Origin)
      BY DEF Wanted, Selected, Relevant, Among
    <3>3. ASSUME NEW p \in Saved, NEW e \in Among(events', Origin), ~Before(p, e.pos)
          PROVE  e \in delivered
      <4>1. e \in events
        BY <2>4, <2>6, <3>3 DEF Among
      <4>2. e \in Wanted(Origin)
        BY <4>1, WantedEvents DEF Among
      <4> QED
        BY <3>3, <4>2 DEF SubInv, NothingSkipped
    <3> QED
      BY <2>1, <3>1, <3>2, <3>3 DEF NothingSkipped
  <2>8. ASSUME NEW s \in Consumers
        PROVE  PageExact(s)'
    <3>1. Wanted(position[s])' = Among(events', position[s])
      BY <2>1, WantedAfterStep
    <3>2. Wanted(position[s]) = Among(events, position[s])
      BY WantedEvents
    <3>3. \A f \in page[s] : f \in events
      BY DEF SubInv, SubTypeOK
    <3>4. \A f \in page[s] : f.pos \in Position /\ f.pos.ver <= version
      BY <3>3, StoredEvents
    <3>5. ASSUME doing[s] = "handling"
          PROVE  /\ page[s] # {}
                 /\ page[s] \subseteq Among(events, position[s])
                 /\ \A f \in page[s] : \A e \in Among(events, position[s]) :
                        ~Before(f.pos, e.pos) => e \in page[s]
      BY <3>2, <3>5 DEF SubInv, PageExact
    <3>6. \A f \in page[s] : \A e \in Among(events', position[s]) :
              ~Before(f.pos, e.pos) => e \in Among(events, position[s])
      BY <2>6, <3>4 DEF Among
    <3>7. Among(events, position[s]) \subseteq Among(events', position[s])
      BY <1>2 DEF Among
    <3> QED
      BY <2>1, <3>1, <3>5, <3>6, <3>7 DEF PageExact
  <2>9. ASSUME NEW s \in Consumers
        PROVE  WatchHolds(s)'
    <3>1. baseline[s] \in Nat /\ baseline[s] <= version
      BY DEF SubInv, SubTypeOK, OfThePast
    <3>2. Fired(s)'
      BY <1>2, <2>1, <2>2, <3>1 DEF Fired
    <3> QED
      BY <3>2 DEF WatchHolds
  <2> QED
    BY <1>2, <2>3, <2>5, <2>7, <2>8, <2>9 DEF SubInv
<1> QED
  BY <1>1, <1>2, WriterStep

\* Only consumer s moves, and the writers do not.
Alone(s) ==
    /\ UNCHANGED vars
    /\ \A t \in Consumers \ {s} : /\ doing'[t] = doing[t]
                                  /\ position'[t] = position[t]
                                  /\ page'[t] = page[t]
                                  /\ baseline'[t] = baseline[t]

\* A step of one consumer that keeps to the positions there are.
LEMMA QuietConsumer ==
    ASSUME Inv, SubInv, SubTypeOK', NEW s \in Consumers, Alone(s),
           Saved' \subseteq Saved \union {Origin},
           delivered' = delivered,
           baseline'[s] <= version,
           PageExact(s)',
           ~WaitsOnFresh => WatchHolds(s)'
    PROVE  SubInv'
<1>1. UNCHANGED <<version, events, sentinel>>
  BY DEF Alone, vars
<1>2. IsFiniteSet(events)'
  BY <1>1 DEF SubInv
<1>3. OfThePast'
  <2>1. \A p \in Saved' : p.ver <= version
    BY StoredEvents DEF SubInv, OfThePast, Origin
  <2>2. \A t \in Consumers : baseline'[t] <= version
    BY DEF SubInv, OfThePast, Alone
  <2> QED
    BY <1>1, <2>1, <2>2 DEF SubInv, OfThePast
<1>4. NothingSkipped'
  <2>1. Wanted(Origin)' = Wanted(Origin)
    BY <1>1 DEF Wanted, Selected
  <2>2. \A e \in Wanted(Origin) : Before(Origin, e.pos)
    BY WantedEvents DEF Among
  <2> QED
    BY <2>1, <2>2 DEF SubInv, NothingSkipped
<1>5. ASSUME NEW t \in Consumers, t # s
      PROVE  PageExact(t)' /\ (~WaitsOnFresh => WatchHolds(t)')
  <2>1. /\ doing'[t] = doing[t] /\ position'[t] = position[t]
        /\ page'[t] = page[t] /\ baseline'[t] = baseline[t]
    BY <1>5 DEF Alone
  <2>2. Wanted(position[t])' = Wanted(position[t])
    BY <1>1, <2>1 DEF Wanted, Selected
  <2> QED
    BY <1>1, <2>1, <2>2 DEF SubInv, PageExact, WatchHolds, Fired
<1> QED
  BY <1>2, <1>3, <1>4, <1>5 DEF SubInv

\* What every consumer step starts from.
LEMMA ConsumerTypes ==
    ASSUME Inv, SubInv, NEW s \in Consumers
    PROVE  /\ cursor \in Position /\ late \subseteq Position
           /\ doing \in [Consumers -> Doing]
           /\ position \in [Consumers -> Position] /\ position[s] \in Position
           /\ page \in [Consumers -> SUBSET events]
           /\ baseline \in [Consumers -> Nat]
           /\ crashes \in 0..MaxCrashes /\ MaxCrashes \in Nat
           /\ delivered \subseteq events
           /\ version \in Nat /\ sentinel = version
           /\ \A t \in Consumers : baseline[t] <= version
  BY StoredEvents, SubscriptionAssumption DEF SubInv, SubTypeOK, OfThePast

LEMMA StartInv ==
    ASSUME Inv, SubInv, NEW s \in Consumers, Start(s), UNCHANGED vars
    PROVE  SubInv'
<1>1. /\ doing[s] = "down" /\ doing' = [doing EXCEPT ![s] = "arming"]
      /\ position' = [position EXCEPT ![s] = cursor]
      /\ UNCHANGED <<cursor, page, baseline, late, crashes, delivered, events, version, sentinel>>
  BY DEF Start, Goto, vars
<1>2. SubTypeOK'
  BY <1>1, ConsumerTypes DEF SubTypeOK, Doing
<1>3. Saved' \subseteq Saved \union {Origin}
  BY <1>1, ConsumerTypes DEF Saved
<1>4. doing'[s] = "arming" /\ baseline'[s] <= version
  BY <1>1, ConsumerTypes
<1>5. Alone(s)
  BY <1>1, ConsumerTypes DEF Alone
<1> QED
  BY <1>1, <1>2, <1>3, <1>4, <1>5, QuietConsumer DEF PageExact, WatchHolds

LEMMA RegisterInv ==
    ASSUME Inv, SubInv, NEW s \in Consumers, Register(s), UNCHANGED vars
    PROVE  SubInv'
<1>1. /\ doing' = [doing EXCEPT ![s] = "reading"]
      /\ baseline' = [baseline EXCEPT ![s] = sentinel]
      /\ UNCHANGED <<cursor, position, page, late, crashes, delivered, events, version, sentinel>>
  BY DEF Register, watch, Goto, vars
<1>2. SubTypeOK'
  BY <1>1, ConsumerTypes DEF SubTypeOK, Doing
<1>3. Saved' = Saved
  BY <1>1 DEF Saved
<1>4. doing'[s] = "reading" /\ baseline'[s] <= version
  BY <1>1, ConsumerTypes
<1>5. Alone(s)
  BY <1>1, ConsumerTypes DEF Alone
<1> QED
  BY <1>1, <1>2, <1>3, <1>4, <1>5, QuietConsumer DEF PageExact, WatchHolds

\* An empty page means that nothing is wanted, and any other is exact.
LEMMA ReadInv ==
    ASSUME Inv, SubInv, NEW s \in Consumers, Read(s), UNCHANGED vars
    PROVE  SubInv'
<1> PICK R : R = FirstOf(Wanted(position[s]), PageSize)
  OBVIOUS
<1>1. /\ page' = [page EXCEPT ![s] = R]
      /\ doing' = [doing EXCEPT ![s] = IF page'[s] = {} THEN "parking" ELSE "handling"]
      /\ UNCHANGED <<cursor, position, baseline, late, crashes, delivered, events, version, sentinel>>
  BY DEF Read, Goto, vars
<1>2. page'[s] = R /\ doing'[s] = IF R = {} THEN "parking" ELSE "handling"
  BY <1>1, ConsumerTypes
<1>3. /\ R \subseteq Wanted(position[s])
      /\ R = {} => Wanted(position[s]) = {}
      /\ \A f \in R : \A e \in Wanted(position[s]) : ~Before(f.pos, e.pos) => e \in R
  BY ConsumerTypes, FirstOfWanted DEF SubInv
<1>4. Wanted(position[s])' = Wanted(position[s])
  BY <1>1 DEF Wanted, Selected
<1>5. SubTypeOK'
  <2>1. R \subseteq events
    BY <1>3, WantedEvents DEF Among
  <2> QED
    BY <1>1, <2>1, ConsumerTypes DEF SubTypeOK, Doing
<1>6. Saved' = Saved
  BY <1>1 DEF Saved
<1>7. Alone(s)
  BY <1>1, ConsumerTypes DEF Alone
<1>8. PageExact(s)' /\ WatchHolds(s)'
  BY <1>1, <1>2, <1>3, <1>4 DEF PageExact, WatchHolds
<1>9. baseline'[s] <= version
  BY <1>1, ConsumerTypes
<1> QED
  BY <1>1, <1>5, <1>6, <1>7, <1>8, <1>9, QuietConsumer

\* The new position is that of the last event of the page: all that is wanted
\* up to it was handled before, or is in the page.
LEMMA HandleInv ==
    ASSUME Inv, SubInv, NEW s \in Consumers, Handle(s), UNCHANGED vars
    PROVE  SubInv'
<1> DEFINE Last(p) == \A e \in page[s] : ~Before(p, e.pos)
<1> PICK q : q = CHOOSE p \in {e.pos : e \in page[s]} : Last(p)
  OBVIOUS
<1>1. /\ doing[s] = "handling" /\ doing' = [doing EXCEPT ![s] = "saving"]
      /\ position' = [position EXCEPT ![s] = q]
      /\ delivered' = delivered \union page[s]
      /\ UNCHANGED <<cursor, page, baseline, late, crashes, events, version, sentinel>>
  BY DEF Handle, Goto, vars
<1>2. /\ page[s] # {} /\ page[s] \subseteq Wanted(position[s])
      /\ \A f \in page[s] : \A e \in Wanted(position[s]) :
             ~Before(f.pos, e.pos) => e \in page[s]
  BY <1>1 DEF SubInv, PageExact
<1>3. page[s] \in SUBSET StoredEvent /\ IsFiniteSet(page[s])
  BY ConsumerTypes, StoredEvents, FS_Subset DEF SubInv
<1>4. PICK f \in page[s] : q = f.pos
  <2>1. PICK e \in page[s] : Last(e.pos)
    BY <1>2, <1>3, LastEvent
  <2>2. e.pos \in {g.pos : g \in page[s]}
    BY <2>1
  <2>3. \E p \in {g.pos : g \in page[s]} : Last(p)
    BY <2>1, <2>2
  <2>4. q \in {g.pos : g \in page[s]}
    <3> HIDE DEF Last
    <3> QED BY <2>3
  <2> QED
    BY <2>4
<1>5. page[s] \subseteq events
  BY ConsumerTypes
<1>6. q \in Position /\ q.ver <= version
  BY <1>4, <1>5, StoredEvents
<1>7. SubTypeOK'
  BY <1>1, <1>5, <1>6, ConsumerTypes DEF SubTypeOK, Doing
<1>8. Saved' \subseteq Saved \union {q}
  BY <1>1, ConsumerTypes DEF Saved
<1>9. OfThePast'
  BY <1>1, <1>6, <1>8 DEF SubInv, OfThePast
<1>10. NothingSkipped'
  <2>1. Wanted(Origin)' = Wanted(Origin)
    BY <1>1 DEF Wanted, Selected
  <2>2. ASSUME NEW e \in Wanted(Origin), ~Before(q, e.pos)
        PROVE  e \in delivered \union page[s]
    <3>1. e \in events /\ Relevant(e)
      BY WantedEvents DEF Among
    <3>2. CASE ~Before(position[s], e.pos)
      BY <3>2 DEF SubInv, NothingSkipped, Saved
    <3>3. CASE Before(position[s], e.pos)
      <4>1. e \in Wanted(position[s])
        BY <3>1, <3>3, WantedEvents DEF Among
      <4> QED
        BY <1>2, <1>4, <2>2, <4>1
    <3> QED
      BY <3>2, <3>3
  <2>3. \A p \in Saved : \A e \in Wanted(Origin) : ~Before(p, e.pos) => e \in delivered
    BY DEF SubInv, NothingSkipped
  <2> QED
    BY <1>1, <1>8, <2>1, <2>2, <2>3 DEF NothingSkipped
<1>11. ASSUME NEW t \in Consumers
       PROVE  PageExact(t)' /\ (~WaitsOnFresh => WatchHolds(t)')
  <2>1. CASE t = s
    <3>1. doing'[s] = "saving"
      BY <1>1, ConsumerTypes
    <3> QED
      BY <2>1, <3>1 DEF PageExact, WatchHolds
  <2>2. CASE t # s
    <3>1. doing'[t] = doing[t] /\ position'[t] = position[t]
      BY <1>1, <2>2, ConsumerTypes
    <3>2. Wanted(position[t])' = Wanted(position[t])
      <4>1. Wanted(position[t])' = Among(events', position'[t])
        BY WantedAfterStep
      <4>2. Wanted(position[t]) = Among(events, position[t])
        BY WantedEvents
      <4> QED
        BY <1>1, <3>1, <4>1, <4>2
    <3> QED
      BY <1>1, <3>1, <3>2 DEF SubInv, PageExact, WatchHolds, Fired
  <2> QED
    BY <2>1, <2>2
<1>12. IsFiniteSet(events)'
  BY <1>1 DEF SubInv
<1> QED
  BY <1>7, <1>9, <1>10, <1>11, <1>12 DEF SubInv

LEMMA SaveInv ==
    ASSUME Inv, SubInv, NEW s \in Consumers, SaveOk(s) \/ SaveUnknown(s) \/ SaveError(s),
           UNCHANGED vars
    PROVE  SubInv'
<1>1. /\ doing[s] = "saving"
      /\ \/ doing' = [doing EXCEPT ![s] = "reading"]
         \/ doing' = doing
      /\ cursor' \in {cursor, position[s]}
      /\ UNCHANGED <<position, page, baseline, late, crashes, delivered, events, version, sentinel>>
  BY DEF SaveOk, SaveUnknown, SaveError, set_cursor, Goto, vars
<1>2. SubTypeOK'
  BY <1>1, ConsumerTypes DEF SubTypeOK, Doing
<1>3. Saved' \subseteq Saved
  BY <1>1 DEF Saved
<1>4. doing'[s] \in {"saving", "reading"} /\ baseline'[s] <= version
  BY <1>1, ConsumerTypes
<1>5. Alone(s)
  BY <1>1, ConsumerTypes DEF Alone
<1> QED
  BY <1>1, <1>2, <1>3, <1>4, <1>5, QuietConsumer DEF PageExact, WatchHolds

\* Parking on the watch that was registered changes nothing of it.
LEMMA ParkInv ==
    ASSUME Inv, SubInv, NEW s \in Consumers, Park(s), UNCHANGED vars
    PROVE  SubInv'
<1>1. /\ doing[s] = "parking" /\ doing' = [doing EXCEPT ![s] = "parked"]
      /\ IF WaitsOnFresh THEN baseline' = [baseline EXCEPT ![s] = sentinel]
                         ELSE baseline' = baseline
      /\ UNCHANGED <<cursor, position, page, late, crashes, delivered, events, version, sentinel>>
  BY DEF Park, watch, Goto, vars
<1>2. SubTypeOK'
  BY <1>1, ConsumerTypes DEF SubTypeOK, Doing
<1>3. Saved' = Saved
  BY <1>1 DEF Saved
<1>4. doing'[s] = "parked" /\ baseline'[s] <= version
  BY <1>1, ConsumerTypes
<1>5. Alone(s)
  BY <1>1, ConsumerTypes DEF Alone
<1>6. ~WaitsOnFresh => WatchHolds(s)'
  <2>1. Wanted(position[s])' = Wanted(position[s])
    BY <1>1 DEF Wanted, Selected
  <2> QED
    BY <1>1, <2>1 DEF SubInv, WatchHolds, Fired
<1> QED
  BY <1>1, <1>2, <1>3, <1>4, <1>5, <1>6, QuietConsumer DEF PageExact

LEMMA WakeInv ==
    ASSUME Inv, SubInv, NEW s \in Consumers, Wake(s) \/ SpuriousWake(s), UNCHANGED vars
    PROVE  SubInv'
<1>1. /\ doing' = [doing EXCEPT ![s] = "arming"]
      /\ UNCHANGED <<cursor, position, page, baseline, late, crashes, delivered,
                     events, version, sentinel>>
  BY DEF Wake, SpuriousWake, Goto, vars
<1>2. SubTypeOK'
  BY <1>1, ConsumerTypes DEF SubTypeOK, Doing
<1>3. Saved' = Saved
  BY <1>1 DEF Saved
<1>4. doing'[s] = "arming" /\ baseline'[s] <= version
  BY <1>1, ConsumerTypes
<1>5. Alone(s)
  BY <1>1, ConsumerTypes DEF Alone
<1> QED
  BY <1>1, <1>2, <1>3, <1>4, <1>5, QuietConsumer DEF PageExact, WatchHolds

LEMMA DieInv ==
    ASSUME Inv, SubInv, NEW s \in Consumers, Die(s), UNCHANGED vars
    PROVE  SubInv'
<1>1. /\ crashes < MaxCrashes /\ crashes' = crashes + 1
      /\ late' \in {late, late \union {position[s]}}
      /\ position' = [position EXCEPT ![s] = Origin]
      /\ page' = [page EXCEPT ![s] = {}]
      /\ baseline' = [baseline EXCEPT ![s] = 0]
      /\ doing' = [doing EXCEPT ![s] = "down"]
      /\ UNCHANGED <<cursor, delivered, events, version, sentinel>>
  BY DEF Die, Goto, vars
<1>2. SubTypeOK'
  <2>1. crashes' \in 0..MaxCrashes
    BY <1>1, ConsumerTypes
  <2>2. late' \in SUBSET Position
    BY <1>1, ConsumerTypes
  <2> QED
    BY <1>1, <2>1, <2>2, ConsumerTypes, OriginType DEF SubTypeOK, Doing
<1>3. Saved' \subseteq Saved \union {Origin}
  BY <1>1, ConsumerTypes DEF Saved
<1>4. doing'[s] = "down" /\ baseline'[s] <= version
  BY <1>1, ConsumerTypes
<1>5. Alone(s)
  BY <1>1, ConsumerTypes DEF Alone
<1> QED
  BY <1>1, <1>2, <1>3, <1>4, <1>5, QuietConsumer DEF PageExact, WatchHolds

\* A late write moves the cursor to where a consumer that is gone has been.
LEMMA LateSaveInv ==
    ASSUME Inv, SubInv, LateSave, UNCHANGED vars
    PROVE  SubInv'
<1>1. PICK p \in late : cursor' = p /\ late' = late \ {p}
  BY DEF LateSave
<1>2. UNCHANGED <<doing, position, page, baseline, crashes, delivered, events, version, sentinel>>
  BY DEF LateSave, vars
<1>3. SubTypeOK'
  BY <1>1, <1>2 DEF SubInv, SubTypeOK
<1>4. Saved' \subseteq Saved
  BY <1>1, <1>2 DEF Saved
<1>5. OfThePast' /\ IsFiniteSet(events)'
  BY <1>2, <1>4 DEF SubInv, OfThePast
<1>6. NothingSkipped'
  <2>1. Wanted(Origin)' = Wanted(Origin)
    BY <1>2 DEF Wanted, Selected
  <2> QED
    BY <1>2, <1>4, <2>1 DEF SubInv, NothingSkipped
<1>7. ASSUME NEW t \in Consumers
      PROVE  PageExact(t)' /\ (~WaitsOnFresh => WatchHolds(t)')
  <2>1. Wanted(position[t])' = Wanted(position[t])
    BY <1>2 DEF Wanted, Selected
  <2> QED
    BY <1>2, <2>1 DEF SubInv, PageExact, WatchHolds, Fired
<1> QED
  BY <1>3, <1>5, <1>6, <1>7 DEF SubInv

LEMMA SubNextInv ==
    ASSUME Inv, Inv', SubInv, [SubNext]_allVars
    PROVE  SubInv'
<1>1. CASE Next /\ UNCHANGED subVars
  BY <1>1, WriterInv
<1>2. ASSUME NEW s \in Consumers, Consumer(s), UNCHANGED vars
      PROVE  SubInv'
  BY <1>2, StartInv, RegisterInv, ReadInv, HandleInv, SaveInv, ParkInv, WakeInv, DieInv
     DEF Consumer, Advance
<1>3. CASE LateSave /\ UNCHANGED vars
  BY <1>3, LateSaveInv
<1>4. CASE UNCHANGED allVars
  <2>1. UNCHANGED subVars /\ UNCHANGED <<version, events, sentinel>>
    BY <1>4 DEF allVars, vars
  <2> QED
    BY <2>1 DEF subVars, SubInv, SubTypeOK, OfThePast, Saved, PageExact, WatchHolds,
                Fired, NothingSkipped, Wanted, Selected
<1> QED
  BY <1>1, <1>2, <1>3, <1>4 DEF SubNext

\* The inductive invariant holds of every reachable state.
THEOREM SubscriptionInvariant == SubSafeSpec => []SubInv
<1>1. SubInit => SubInv
  BY SubInitInv
<1>2. Inv /\ Inv' /\ SubInv /\ [SubNext]_allVars => SubInv'
  BY SubNextInv
<1> QED
  BY <1>1, <1>2, WritersUndisturbed, PTL DEF SubSafeSpec

\* Every reachable state is well typed: what is paged and handled is stored.
THEOREM SubTypeCorrect == SubSafeSpec => []SubTypeOK
<1>1. SubInv => SubTypeOK
  BY DEF SubInv
<1> QED
  BY <1>1, SubscriptionInvariant, PTL

\* No event is left out by all the consumers, however many share the cursor,
\* whatever crashes and however late a cursor write is applied: it was handled
\* by one of them before a cursor past it was saved (subscribe.rs: set_cursor).
THEOREM NoEventSkipped == SubSafeSpec => []NothingSkipped
<1>1. SubInv => NothingSkipped
  BY DEF SubInv
<1> QED
  BY <1>1, SubscriptionInvariant, PTL

\* A consumer that waits on the watch it registered before it caught up
\* misses no append, whenever it comes.
THEOREM RegisteredWatchHolds ==
    ASSUME ~WaitsOnFresh
    PROVE  SubSafeSpec => []NoLostWake
<1>1. SubInv => NoLostWake
  BY DEF SubInv, WatchHolds, NoLostWake
<1> QED
  BY <1>1, SubscriptionInvariant, PTL
=============================================================================
