---------------------------- MODULE DecisionLoop ----------------------------
(***************************************************************************)
(* The way the store is meant to be used (lib.rs, AppendCondition): read   *)
(* the events of a query, note the last position, decide, and append with  *)
(* the condition that no event of the query was stored after that          *)
(* position.                                                               *)
(*                                                                         *)
(* Clients that follow it, over the promise of append (DCBStore, which     *)
(* DCBAppend implements) and beside callers that append without            *)
(* conditions.  The decision is one that must not be taken twice: there    *)
(* is room for Capacity events of the claimed type.  A read is atomic: it  *)
(* returns the answer of one version, as DCBRead shows.                    *)
(*                                                                         *)
(* A client that was refused or got an error reads on from its last        *)
(* position; one that succeeded goes on from the position append returned; *)
(* one that died starts from nothing while its call may still be applied.  *)
(***************************************************************************)
EXTENDS DCBIndex, FiniteSets

CONSTANTS
    Clients,     \* clients that decide
    MaxCalls,    \* bound on the calls of each of them, a function
    Others,      \* calls of others, who append without conditions
    Query,       \* the items of the clients' query
    Claim,       \* the event they append
    Capacity,    \* how many claims there may be
    OtherEvents, \* events the others append
    Limits       \* limits of the clients' reads, 0 for none

ASSUME LoopAssumption ==
    /\ MaxCalls \in [Clients -> Nat] /\ Capacity \in Nat /\ Limits \subseteq Nat
    /\ Query \in SUBSET QueryItem
    /\ {Claim} \union OtherEvents \subseteq [type : Types, tags : Seq(Tags)]
    /\ Others \intersect (Clients \X Nat) = {}

\* What the pattern asks of its users: the query selects the events that the
\* decision counts, and whoever appends such an event does it with the condition.
ASSUME PatternAssumption ==
    /\ \E item \in Query : Matches([type |-> Claim.type, tags |-> Range(Claim.tags)], item)
    /\ \A e \in OtherEvents : e.type # Claim.type

Decided == UNION {{k} \X (1..MaxCalls[k]) : k \in Clients}
Calls == Decided \union Others

VARIABLES
    version, stored, phase, request, at, reply,   \* those of DCBStore
    step,        \* what each client does
    calls,       \* calls each client has made
    known,       \* the events of the query a client has read
    position,    \* the last position it has seen
    basis        \* history: the events a call was decided on

clientVars == <<step, calls, known, position, basis>>
vars == <<version, stored, phase, request, at, reply, step, calls, known, position, basis>>

Store == INSTANCE DCBStore

LoopInit ==
    /\ Store!StoreInit
    /\ step = [k \in Clients |-> "reading"]
    /\ calls = [k \in Clients |-> 0]
    /\ known = [k \in Clients |-> {}]
    /\ position = [k \in Clients |-> Origin]
    /\ basis = [c \in Calls |-> {}]

Goto(k, next) == step' = [step EXCEPT ![k] = next]

-----------------------------------------------------------------------------
Wanted(after) == UNION {Selected(stored, item, after) : item \in Query}

\* The first `limit` of a set of events, all of it without a limit.
Page(set, limit) ==
    IF limit = 0 THEN set
    ELSE {e \in set : Cardinality({f \in set : Before(f.pos, e.pos)}) < limit}

\* Bug: the position noted is that of the first event of the results.
MutFirstPosition(k, results) ==
    IF results = {} THEN position[k]
    ELSE CHOOSE p \in {e.pos : e \in results} : \A e \in results : ~Before(e.pos, p)

\* results.last(), or what it was before if there are no results.
last_position(k, results) ==
    IF results = {} THEN position[k]
    ELSE CHOOSE p \in {e.pos : e \in results} : \A e \in results : ~Before(p, e.pos)

\* 1. Read the events after the last position, note the new one.
Read(k) ==
    /\ step[k] = "reading"
    /\ \E limit \in Limits :
          LET results == Page(Wanted(position[k]), limit)
          IN  /\ known' = [known EXCEPT ![k] = @ \union results]
              /\ position' = [position EXCEPT ![k] = last_position(k, results)]
    /\ Goto(k, "deciding")
    /\ UNCHANGED <<version, stored, phase, request, at, reply, calls, basis>>

Claims(set) == {e \in set : e.type = Claim.type}

\* Bug: the position is that of the store when the condition is made.
MutAfterNow(k) ==
    [items |-> Query,
     after |-> last_position(k, stored)]

\* The condition: nothing of the query after what was read.
condition(k) == [items |-> Query, after |-> position[k]]

\* 2., 3. Decide on the events known; append if there is room.
Decide(k) ==
    /\ step[k] = "deciding"
    /\ IF Cardinality(Claims(known[k])) < Capacity /\ calls[k] < MaxCalls[k]
       THEN LET c == <<k, calls[k] + 1>>
            IN  /\ request' = [request EXCEPT ![c] =
                                  [events |-> <<Claim>>, conds |-> {condition(k)}]]
                /\ Store!Ask(c)
                /\ calls' = [calls EXCEPT ![k] = @ + 1]
                /\ basis' = [basis EXCEPT ![c] = known[k]]
                /\ Goto(k, "waiting")
       ELSE /\ Goto(k, "stopped")
            /\ UNCHANGED <<version, stored, phase, request, at, reply, calls, basis>>
    /\ UNCHANGED <<known, position>>

Call(k) == <<k, calls[k]>>

\* Ok(position): the client knows its own event and everything before it.
LearnOk(k) ==
    /\ step[k] = "waiting"
    /\ phase[Call(k)] = "ok"
    /\ position' = [position EXCEPT ![k] = reply[Call(k)]]
    /\ known' = [known EXCEPT ![k] = @ \union Store!Batch(request[Call(k)], reply[Call(k)].ver)]
    /\ Goto(k, "deciding")
    /\ UNCHANGED <<version, stored, phase, request, at, reply, calls, basis>>

\* AppendConditionFailed, or an error of which it does not know what it means:
\* the client reads again.
LearnError(k) ==
    /\ step[k] = "waiting"
    /\ phase[Call(k)] \in {"refused", "failed"}
    /\ Goto(k, "reading")
    /\ UNCHANGED <<version, stored, phase, request, at, reply, calls, known, position, basis>>

\* The client is replaced by one that knows nothing.
Die(k) ==
    /\ step[k] = "waiting"
    /\ known' = [known EXCEPT ![k] = {}]
    /\ position' = [position EXCEPT ![k] = Origin]
    /\ Goto(k, "reading")
    /\ UNCHANGED <<version, stored, phase, request, at, reply, calls, basis>>

\* Somebody appends an event without conditions.
Other(c) ==
    /\ \E e \in OtherEvents :
          request' = [request EXCEPT ![c] = [events |-> <<e>>, conds |-> {}]]
    /\ Store!Ask(c)
    /\ UNCHANGED clientVars

\* append goes on.
Serve(c) ==
    /\ Store!Write(c) \/ Store!Succeed(c) \/ Store!Refuse(c) \/ Store!Fail(c)
    /\ UNCHANGED clientVars

LoopNext ==
    \/ \E k \in Clients : Read(k) \/ Decide(k) \/ LearnOk(k) \/ LearnError(k) \/ Die(k)
    \/ \E c \in Others : Other(c)
    \/ \E c \in Calls : Serve(c)

LoopSpec == LoopInit /\ [][LoopNext]_vars

-----------------------------------------------------------------------------
(***************************************************************************)
(* Properties.                                                             *)
(***************************************************************************)
Request == [events : Seq([type : Types, tags : Seq(Tags)]),
            conds  : SUBSET [items : SUBSET QueryItem, after : Position]]

LoopTypeOK ==
    /\ version \in Nat
    /\ stored \subseteq StoredEvent
    /\ phase \in [Calls -> Store!Phase]
    /\ request \in [Calls -> Request]
    /\ at \in [Calls -> Nat]
    /\ reply \in [Calls -> Position]
    /\ step \in [Clients -> {"reading", "deciding", "waiting", "stopped"}]
    /\ calls \in [Clients -> Nat]
    /\ known \in [Clients -> SUBSET stored]
    /\ position \in [Clients -> Position]
    /\ basis \in [Calls -> SUBSET stored]

\* A decision is stored only if it was taken on everything the query selects
\* at that moment: whoever appended in between, whatever part of the events
\* the client had read, and however it came to know them, by reading or by
\* the position of its own append.
DecisionsCurrent ==
    [][\A c \in Decided :
          phase[c] = "pending" /\ phase'[c] = "written" => basis[c] = Wanted(Origin)]_vars

\* So a rule over those events holds, through refusals, errors of batches
\* that are stored nevertheless, and clients that died with a call under way.
RuleKept == Cardinality(Claims(stored)) <= Capacity

\* A client whose append was refused learns something new when it reads on:
\* it is not refused for what it knew, its own events included, and does not
\* retry for nothing.
RefusalIsNews ==
    [][\A k \in Clients :
          /\ step[k] = "reading" /\ step'[k] = "deciding"
          /\ calls[k] > 0 /\ phase[Call(k)] = "refused"
          => known'[k] # known[k]]_vars

-----------------------------------------------------------------------------
(***************************************************************************)
(* The inductive invariant: what the pattern keeps true.                   *)
(***************************************************************************)
Relevant(e) == \E item \in Query : Matches(e, item)

\* The events of the query up to a position.
UpTo(set, p) == {e \in set : Relevant(e) /\ ~Before(p, e.pos)}

\* The request of a client whose position is p, and its event.
Claiming(p) == [events |-> <<Claim>>, conds |-> {[items |-> Query, after |-> p]}]

ClaimAt(v) == [pos |-> [ver |-> v, idx |-> 0], type |-> Claim.type, tags |-> Range(Claim.tags)]

\* Every event was stored by a version up to this one, alone in its batch,
\* and the query selects those that count.
Ledger ==
    /\ IsFiniteSet(stored)
    /\ \A e \in stored : /\ e.pos.ver \in 1..version /\ e.pos.idx = 0
                         /\ e.type = Claim.type => Relevant(e)

\* A client knows the events of the query up to its position, all of them
\* and no others.
KnowsItsPrefix ==
    \A k \in Clients : /\ position[k].ver <= version
                       /\ known[k] = UpTo(stored, position[k])

Bounds(c) == {cond.after : cond \in request[c].conds}

\* The condition a call was made with is the end of what it was decided on,
\* and there was room then.
DecidedOnPrefix(c) ==
    \E p \in Bounds(c) :
        /\ request[c] = Claiming(p)
        /\ p.ver <= version
        /\ basis[c] = UpTo(stored, p)
        /\ Cardinality(Claims(basis[c])) < Capacity
        /\ phase[c] = "refused" => \E e \in stored : Relevant(e) /\ Before(p, e.pos)

CallsDecided ==
    \A k \in Clients : \A n \in 1..MaxCalls[k] :
        IF n > calls[k] THEN phase[<<k, n>>] = "idle"
        ELSE phase[<<k, n>>] # "idle" /\ DecidedOnPrefix(<<k, n>>)

\* Others have no conditions and do not store what counts.
OthersUnconditional ==
    \A c \in Others :
        phase[c] # "idle" => \E e \in OtherEvents : request[c] = [events |-> <<e>>, conds |-> {}]

\* A call that wrote did it on top of its basis: nothing of the query is
\* between the two.
WrittenOnBasis ==
    \A c \in Calls :
        phase[c] \in {"written", "ok"} =>
            /\ at[c] \in 1..version
            /\ phase[c] = "ok" => reply[c] = [ver |-> at[c], idx |-> 0]
            /\ c \in Decided => /\ ClaimAt(at[c]) \in stored
                                /\ UpTo(stored, [ver |-> at[c], idx |-> 0])
                                     = basis[c] \union {ClaimAt(at[c])}

\* A client that waits is where its call was decided; one that reads again
\* is there or behind it.
WaitsWhereDecided ==
    \A k \in Clients :
        /\ calls[k] <= MaxCalls[k]
        /\ step[k] = "waiting" => /\ calls[k] > 0
                                  /\ request[Call(k)] = Claiming(position[k])
        /\ step[k] = "reading" /\ calls[k] > 0 =>
               \E p \in Bounds(Call(k)) : ~Before(p, position[k])

\* All of it: the invariant the theorems about the pattern rest on.
LoopInv ==
    /\ LoopTypeOK /\ Ledger /\ KnowsItsPrefix
    /\ CallsDecided /\ OthersUnconditional /\ WrittenOnBasis /\ WaitsWhereDecided
    /\ RuleKept
=============================================================================
