---------------------------- MODULE Subscription ----------------------------
(***************************************************************************)
(* Tailing the store: the sentinel watch and the durable cursor            *)
(* (subscribe.rs), used by consumers in the order the store documents,     *)
(* over a database that calls of append (DCBAppend) write to.              *)
(*                                                                         *)
(* A consumer reads its cursor and then, round after round, registers a    *)
(* watch, reads pages after its position until one is empty, handling each *)
(* page and saving the cursor, and parks on the watch.  The store's own    *)
(* code is get_cursor, set_cursor, register_sentinel_watch and             *)
(* wait_for_sentinel_change; the loop around them is the application's.    *)
(*                                                                         *)
(* A watch fires when the sentinel differs from the value it had in the    *)
(* registering transaction; it may also fail, or fire for nothing, which   *)
(* the consumer treats alike.                                              *)
(***************************************************************************)
EXTENDS DCBAppend

CONSTANTS
    Consumers,      \* consumers that share one cursor name
    Query,          \* the items of the consumers' query
    PageSize,       \* the limit of their reads
    WaitsOnFresh,   \* they park in wait_for_sentinel_change, not on the watch
                    \* they registered
    MaxCrashes      \* bound on the consumers' crashes

ASSUME SubscriptionAssumption ==
    /\ Query \in SUBSET QueryItem
    /\ PageSize \in Nat \ {0}
    /\ WaitsOnFresh \in BOOLEAN
    /\ MaxCrashes \in Nat

VARIABLES
    cursor,      \* [ns, "subs", name], Origin if never set
    doing,       \* what each consumer does next
    position,    \* up to where each consumer has handled the store
    page,        \* the events it has read and not yet handled
    baseline,    \* the sentinel value its watch compares with
    late,        \* cursor writes still under way after their consumer died
    crashes,     \* crashes so far
    delivered    \* history: the events some consumer has handled

subVars == <<cursor, doing, position, page, baseline, late, crashes, delivered>>
allVars == <<vars, subVars>>

Doing == {"down", "arming", "reading", "handling", "saving", "parking", "parked"}

SubInit ==
    /\ Init
    /\ cursor = Origin
    /\ doing = [s \in Consumers |-> "down"]
    /\ position = [s \in Consumers |-> Origin]
    /\ page = [s \in Consumers |-> {}]
    /\ baseline = [s \in Consumers |-> 0]
    /\ late = {}
    /\ crashes = 0
    /\ delivered = {}

Goto(s, next) == doing' = [doing EXCEPT ![s] = next]

-----------------------------------------------------------------------------
\* Bug: a consumer without a cursor starts from now.
MutStartFromNow(s) ==
    /\ doing[s] = "down"
    /\ position' = [position EXCEPT ![s] =
                       IF cursor = Origin THEN [ver |-> version, idx |-> U16Max] ELSE cursor]
    /\ Goto(s, "arming")
    /\ UNCHANGED <<cursor, page, baseline, late, crashes, delivered>>

\* (Re)start: get_cursor.
Start(s) ==
    /\ doing[s] = "down"
    /\ position' = [position EXCEPT ![s] = cursor]
    /\ Goto(s, "arming")
    /\ UNCHANGED <<cursor, page, baseline, late, crashes, delivered>>

\* A watch on the sentinel as it is now.
watch(s) == baseline' = [baseline EXCEPT ![s] = sentinel]

\* register_sentinel_watch returns Ok.
Register(s) ==
    /\ doing[s] = "arming"
    /\ watch(s)
    /\ Goto(s, "reading")
    /\ UNCHANGED <<cursor, position, page, late, crashes, delivered>>

Wanted(after) == UNION {Selected(events, item, after) : item \in Query}

\* Bug: the range is read in reverse, and the limit keeps the last events.
MutLastOf(set, limit) ==
    {e \in set : Cardinality({f \in set : Before(e.pos, f.pos)}) < limit}

\* The first `limit` of a set of events.
FirstOf(set, limit) ==
    {e \in set : Cardinality({f \in set : Before(f.pos, e.pos)}) < limit}

\* read with `limit` and `after`.
Read(s) ==
    /\ doing[s] = "reading"
    /\ page' = [page EXCEPT ![s] = FirstOf(Wanted(position[s]), PageSize)]
    /\ Goto(s, IF page'[s] = {} THEN "parking" ELSE "handling")
    /\ UNCHANGED <<cursor, position, baseline, late, crashes, delivered>>

\* The application handles the page.
Handle(s) ==
    /\ doing[s] = "handling"
    /\ position' = [position EXCEPT ![s] =
                       CHOOSE p \in {e.pos : e \in page[s]} :
                           \A e \in page[s] : ~Before(p, e.pos)]
    /\ delivered' = delivered \union page[s]
    /\ Goto(s, "saving")
    /\ UNCHANGED <<cursor, page, baseline, late, crashes>>

\* Bug: the cursor loses its last two bytes.
MutShortCursor(s) == cursor' = [ver |-> position[s].ver]

\* Bug: the cursor is taken from the sentinel, which other appends move.
MutCursorFromSentinel(s) == cursor' = [ver |-> sentinel, idx |-> U16Max]

\* set_cursor: a blind write, the last one wins.
set_cursor(s) == cursor' = position[s]

\* Its commit is answered Ok.
SaveOk(s) ==
    /\ doing[s] = "saving"
    /\ set_cursor(s)
    /\ Goto(s, "reading")
    /\ UNCHANGED <<position, page, baseline, late, crashes, delivered>>

\* The commit is applied and its answer lost: the loop writes again, as
\* often as it takes.
SaveUnknown(s) ==
    /\ doing[s] = "saving"
    /\ set_cursor(s)
    /\ UNCHANGED <<doing, position, page, baseline, late, crashes, delivered>>

\* set_cursor returns Err, which the loop does not retry, of a write that was
\* not applied (one that was looks to the store like SaveOk): the consumer
\* reads on, and the cursor stays behind what it has handled.
SaveError(s) ==
    /\ doing[s] = "saving"
    /\ Goto(s, "reading")
    /\ UNCHANGED <<cursor, position, page, baseline, late, crashes, delivered>>

\* Bug: what ADR 0009 describes; the watch registered first is not the one
\* waited on.
MutParkFresh(s) ==
    /\ doing[s] = "parking"
    /\ watch(s)
    /\ Goto(s, "parked")
    /\ UNCHANGED <<cursor, position, page, late, crashes, delivered>>

\* Nothing left to read: wait for the watch that was registered, or in
\* wait_for_sentinel_change, which registers another one first.
Park(s) ==
    /\ doing[s] = "parking"
    /\ IF WaitsOnFresh THEN watch(s) ELSE baseline' = baseline
    /\ Goto(s, "parked")
    /\ UNCHANGED <<cursor, position, page, late, crashes, delivered>>

Fired(s) == sentinel # baseline[s]

Wake(s) ==
    /\ doing[s] = "parked"
    /\ Fired(s)
    /\ Goto(s, "arming")
    /\ UNCHANGED <<cursor, position, page, baseline, late, crashes, delivered>>

\* The watch fails or fires for nothing.
SpuriousWake(s) ==
    /\ doing[s] = "parked"
    /\ ~Fired(s)
    /\ Goto(s, "arming")
    /\ UNCHANGED <<cursor, position, page, baseline, late, crashes, delivered>>

\* The consumer dies, and with it everything it had not saved; a set_cursor
\* on its way may still be applied later.
Die(s) ==
    /\ doing[s] # "down"
    /\ crashes < MaxCrashes
    /\ crashes' = crashes + 1
    /\ late' = IF doing[s] = "saving" THEN late \union {position[s]} ELSE late
    /\ position' = [position EXCEPT ![s] = Origin]
    /\ page' = [page EXCEPT ![s] = {}]
    /\ baseline' = [baseline EXCEPT ![s] = 0]
    /\ Goto(s, "down")
    /\ UNCHANGED <<cursor, delivered>>

LateSave ==
    /\ \E p \in late : cursor' = p /\ late' = late \ {p}
    /\ UNCHANGED <<doing, position, page, baseline, crashes, delivered>>

Advance(s) == \/ Start(s) \/ Register(s) \/ Read(s) \/ Handle(s)
              \/ SaveOk(s) \/ Park(s) \/ Wake(s)

Consumer(s) == Advance(s) \/ SaveUnknown(s) \/ SaveError(s) \/ SpuriousWake(s) \/ Die(s)

SubNext ==
    \/ Next /\ UNCHANGED subVars
    \/ (\E s \in Consumers : Consumer(s)) /\ UNCHANGED vars
    \/ LateSave /\ UNCHANGED vars

SubSafeSpec == SubInit /\ [][SubNext]_allVars

\* A consumer that is down is restarted, its requests are answered, and a
\* watch whose value has changed fires.
SubSpec ==
    /\ SubSafeSpec
    /\ \A s \in Consumers : WF_allVars(Advance(s) /\ UNCHANGED vars)

-----------------------------------------------------------------------------
(***************************************************************************)
(* Properties.                                                             *)
(***************************************************************************)
SubTypeOK ==
    /\ cursor \in Position
    /\ doing \in [Consumers -> Doing]
    /\ position \in [Consumers -> Position]
    /\ page \in [Consumers -> SUBSET events]
    /\ baseline \in [Consumers -> Nat]
    /\ late \in SUBSET Position
    /\ crashes \in 0..MaxCrashes
    /\ delivered \in SUBSET events

\* A consumer that is parked on a watch that has not fired has handled every
\* event it wants: no append can slip between the last read and the wait
\* (register_sentinel_watch: "Registering the watch BEFORE catching up closes
\* the wake-loss race").
NoLostWake ==
    \A s \in Consumers :
        doing[s] = "parked" /\ ~Fired(s) => Wanted(position[s]) = {}

\* What has been saved, may yet be saved, or will be when a page is handled.
Saved == {cursor} \union late \union {position[s] : s \in Consumers}

\* No event is left out by all: whoever saved the cursor, however late, and
\* wherever in a batch it stands, every wanted event up to it has been handled,
\* by some consumer, before the cursor was saved.  A consumer that starts from
\* a cursor another one has saved need not see what the other handled, and the
\* cursor may go back (ADR 0019).
NothingSkipped ==
    \A p \in Saved :
        \A e \in Wanted(Origin) : ~Before(p, e.pos) => e \in delivered

\* Every event the consumers want is handled in the end, through crashes,
\* lost answers and cursors set back by a late writer.
EventuallyHandled ==
    \A v \in 1..Cardinality(Calls) :
        version >= v ~> \A e \in Wanted(Origin) : e.pos.ver = v => e \in delivered
-----------------------------------------------------------------------------
(***************************************************************************)
(* The inductive invariant behind the safety properties.                   *)
(***************************************************************************)

\* The sentinel is the version of the last commit, and nobody holds a
\* position or a sentinel value of a version that is still to come.
OfThePast ==
    /\ sentinel = version
    /\ \A p \in Saved : p.ver <= version
    /\ \A s \in Consumers : baseline[s] <= version

\* A page that waits to be handled is a beginning of what the consumer wants
\* next, whatever is appended in the meantime.
PageExact(s) ==
    doing[s] = "handling" =>
        /\ page[s] # {}
        /\ page[s] \subseteq Wanted(position[s])
        /\ \A f \in page[s] : \A e \in Wanted(position[s]) :
               ~Before(f.pos, e.pos) => e \in page[s]

\* From the empty read on, only an append that fires the watch can bring the
\* consumer something to handle.
WatchHolds(s) ==
    doing[s] \in {"parking", "parked"} /\ ~Fired(s) => Wanted(position[s]) = {}

\* The part of the consumers: DCBAppend's Inv holds beside it.
SubInv ==
    /\ SubTypeOK
    /\ IsFiniteSet(events)
    /\ OfThePast
    /\ \A s \in Consumers : PageExact(s)
    /\ ~WaitsOnFresh => \A s \in Consumers : WatchHolds(s)
    /\ NothingSkipped
=============================================================================
