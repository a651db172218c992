------------------------------ MODULE NifWatch ------------------------------
(***************************************************************************)
(* The Elixir binding (dcb_layer_nif/src/lib.rs, Dcb.Store): processes     *)
(* that subscribe to the store and processes that append to it.            *)
(*                                                                         *)
(* Every operation is a NIF on a dirty I/O thread, which it holds until    *)
(* its future has resolved, even when its process dies.  `watch` holds it  *)
(* only while the watch is registered; a task then waits for the watch and *)
(* sends the process one message.  A task whose watch fails sleeps before  *)
(* it sends.                                                               *)
(*                                                                         *)
(* A subscriber reads its cursor and then, round after round, calls watch, *)
(* reads and saves its cursor until there is nothing new, and waits for    *)
(* the message; it may stop waiting and call watch again.  The store is    *)
(* reduced to its sentinel, which each append increases, and to cursors;   *)
(* that is what DCBAppend and Subscription make of them.                   *)
(***************************************************************************)
EXTENDS Naturals, FiniteSets

CONSTANTS
    Subscribers, Writers,   \* processes
    Threads,                \* dirty I/O threads
    Accepts,                \* the message subscribers wait for
    MaxAppends, MaxErrors, MaxDeaths, MaxTimeouts, MaxTime   \* bounds

ASSUME NifAssumption ==
    /\ Threads \in Nat \ {0}
    /\ {MaxAppends, MaxErrors, MaxDeaths, MaxTimeouts, MaxTime} \subseteq Nat
    /\ Subscribers \intersect Writers = {}

VARIABLES
    sentinel,   \* the value of the sentinel key: appends so far
    cursor,     \* the cursor of each subscriber's name
    life,       \* which process in succession, and so which pid, it is
    doing,      \* what each process does: an operation, or "idle"
    seen,       \* up to where it has read
    inbox,      \* messages in its mailbox
    calls,      \* NIF calls that hold a thread
    tasks,      \* watch tasks
    armed,      \* watches registered by this process
    now,        \* time, in units of the back-off
    asked, errors, deaths,   \* appends asked for, errors and deaths so far
    timeouts,   \* history: waits this process gave up
    failed      \* history: messages of failed watches it was sent

system == <<sentinel, cursor>>
vars == <<sentinel, cursor, life, doing, seen, inbox, calls, tasks, armed, now,
          asked, errors, deaths, timeouts, failed>>

Processes == Subscribers \union Writers
Operation == {"get_cursor", "watch", "read", "set_cursor", "append"}

Init ==
    /\ sentinel = 0
    /\ cursor = [s \in Subscribers |-> 0]
    /\ life = [p \in Processes |-> 0]
    /\ doing = [p \in Processes |-> IF p \in Subscribers THEN "get_cursor" ELSE "idle"]
    /\ seen = [s \in Subscribers |-> 0]
    /\ inbox = [s \in Subscribers |-> 0]
    /\ calls = {} /\ tasks = {}
    /\ armed = [s \in Subscribers |-> 0]
    /\ now = 0 /\ asked = 0 /\ errors = 0 /\ deaths = 0
    /\ timeouts = [s \in Subscribers |-> 0]
    /\ failed = [s \in Subscribers |-> 0]

Goto(p, next) == doing' = [doing EXCEPT ![p] = next]

-----------------------------------------------------------------------------
(***************************************************************************)
(* Calls.                                                                  *)
(***************************************************************************)

\* The process of a pid is still alive.
Alive(pid) == life[pid[1]] = pid[2]

\* Bug: the thread of a call is taken to be free when the caller dies.
MutFreeOnDeath == Cardinality({c \in calls : Alive(c.pid)})

\* Bug: watch waits for its watch on the thread it was called on.
MutBlockInNif == Cardinality(calls) + Cardinality(tasks)

threads_in_use == Cardinality(calls)

\* The process calls the operation it is at; it is suspended until the NIF
\* returns.
Enter(p) ==
    /\ doing[p] \in Operation
    /\ ~\E c \in calls : c.pid = <<p, life[p]>>
    /\ threads_in_use < Threads
    /\ calls' = calls \union
          {[pid |-> <<p, life[p]>>, op |-> doing[p],
            arg |-> IF doing[p] = "set_cursor" THEN seen[p] ELSE 0]}
    /\ UNCHANGED <<system, life, doing, seen, inbox, tasks, armed, now,
                   asked, errors, deaths, timeouts, failed>>

\* A NIF returns: the process goes on at `next`, if it is still there.
Return(c, next) ==
    /\ calls' = calls \ {c}
    /\ IF Alive(c.pid) THEN Goto(c.pid[1], next) ELSE UNCHANGED doing
    /\ UNCHANGED <<life, inbox, now, asked, deaths, timeouts, failed>>

\* What append and set_cursor write.
append == sentinel' = sentinel + 1 /\ UNCHANGED cursor
set_cursor(c) == cursor' = [cursor EXCEPT ![c.pid[1]] = c.arg] /\ UNCHANGED sentinel

\* {:error, reason}, of an append or a cursor write that may have been applied
\* all the same: the subscriber calls again, a writer gives up.
ReturnError(c) ==
    /\ errors < MaxErrors
    /\ errors' = errors + 1
    /\ \/ UNCHANGED system
       \/ c.op = "append" /\ append
       \/ c.op = "set_cursor" /\ set_cursor(c)
    /\ Return(c, IF c.op = "append" THEN "idle" ELSE c.op)
    /\ UNCHANGED <<seen, tasks, armed>>

dcb_store_append(c) ==
    /\ c.op = "append"
    /\ append
    /\ Return(c, "idle")
    /\ UNCHANGED <<seen, tasks, armed, errors>>

\* Bug: no cursor yet is an error, not {:ok, nil}.
MutNilIsError(c) ==
    /\ c.op = "get_cursor"
    /\ seen' = IF Alive(c.pid) THEN [seen EXCEPT ![c.pid[1]] = cursor[c.pid[1]]] ELSE seen
    /\ Return(c, IF cursor[c.pid[1]] = 0 THEN "get_cursor" ELSE "watch")
    /\ UNCHANGED <<system, tasks, armed, errors>>

dcb_store_get_cursor(c) ==
    /\ c.op = "get_cursor"
    /\ seen' = IF Alive(c.pid) THEN [seen EXCEPT ![c.pid[1]] = cursor[c.pid[1]]] ELSE seen
    /\ Return(c, "watch")
    /\ UNCHANGED <<system, tasks, armed, errors>>

dcb_store_set_cursor(c) ==
    /\ c.op = "set_cursor"
    /\ set_cursor(c)
    /\ Return(c, "read")
    /\ UNCHANGED <<seen, tasks, armed, errors>>

\* Everything after `seen`; a subscriber that finds nothing new waits.
dcb_store_read(c) ==
    /\ c.op = "read"
    /\ LET s == c.pid[1]
       IN  /\ seen' = IF Alive(c.pid) THEN [seen EXCEPT ![s] = sentinel] ELSE seen
           /\ Return(c, IF seen[s] = sentinel THEN "idle" ELSE "set_cursor")
    /\ UNCHANGED <<system, tasks, armed, errors>>

\* The watch is registered and the task spawned, for a process that may be
\* dead by now.
dcb_store_watch(c) ==
    /\ c.op = "watch"
    /\ LET s == c.pid[1]
       IN  /\ armed' = IF Alive(c.pid) THEN [armed EXCEPT ![s] = @ + 1] ELSE armed
           /\ tasks' = tasks \union
                 {[pid |-> c.pid, n |-> IF Alive(c.pid) THEN armed'[s] ELSE 0,
                   baseline |-> sentinel, due |-> 0]}
    /\ Return(c, "read")
    /\ UNCHANGED <<system, seen, errors>>

Finish(c) == \/ dcb_store_append(c) \/ dcb_store_get_cursor(c) \/ dcb_store_set_cursor(c)
             \/ dcb_store_read(c) \/ dcb_store_watch(c)

-----------------------------------------------------------------------------
(***************************************************************************)
(* Watch tasks.                                                            *)
(***************************************************************************)
Fired(t) == t.due = 0 /\ t.baseline # sentinel

\* The message reaches the process, or nobody.
send(t) ==
    inbox' = IF Alive(t.pid) THEN [inbox EXCEPT ![t.pid[1]] = @ + 1] ELSE inbox

\* Bug: the task goes on watching instead of ending.
MutKeepWatching(t) ==
    /\ Fired(t)
    /\ send(t)
    /\ tasks' = (tasks \ {t}) \union {[t EXCEPT !.baseline = sentinel]}
    /\ UNCHANGED <<system, life, doing, seen, calls, armed, now, asked, errors, deaths,
                   timeouts, failed>>

\* The watch fires.
Notify(t) ==
    /\ Fired(t)
    /\ send(t)
    /\ tasks' = tasks \ {t}
    /\ UNCHANGED <<system, life, doing, seen, calls, armed, now, asked, errors, deaths,
                   timeouts, failed>>

\* Bug: a task whose watch fails ends without a message.
MutSilentFailure(t) ==
    /\ t.due = 0
    /\ errors < MaxErrors /\ now < MaxTime
    /\ errors' = errors + 1
    /\ tasks' = tasks \ {t}
    /\ UNCHANGED <<system, life, doing, seen, inbox, calls, armed, now, asked, deaths,
                   timeouts, failed>>

\* The watch fails, and the task sleeps.
WatchFails(t) ==
    /\ t.due = 0
    /\ errors < MaxErrors /\ now < MaxTime
    /\ errors' = errors + 1
    /\ tasks' = (tasks \ {t}) \union {[t EXCEPT !.due = now + 1]}
    /\ UNCHANGED <<system, life, doing, seen, inbox, calls, armed, now, asked, deaths,
                   timeouts, failed>>

\* Bug: no back-off.
MutNoSleep(t) == t.due > 0

slept(t) == t.due \in 1..now

\* The task has slept, and sends.
NotifyFailed(t) ==
    /\ slept(t)
    /\ send(t)
    /\ failed' = IF Alive(t.pid) THEN [failed EXCEPT ![t.pid[1]] = @ + 1] ELSE failed
    /\ tasks' = tasks \ {t}
    /\ UNCHANGED <<system, life, doing, seen, calls, armed, now, asked, errors, deaths,
                   timeouts>>

-----------------------------------------------------------------------------
(***************************************************************************)
(* Processes and time.                                                     *)
(***************************************************************************)
Ask(w) ==
    /\ doing[w] = "idle"
    /\ asked < MaxAppends
    /\ asked' = asked + 1
    /\ Goto(w, "append")
    /\ UNCHANGED <<system, life, seen, inbox, calls, tasks, armed, now, errors, deaths,
                   timeouts, failed>>

\* What a task sends.
message == "fdb_watch_fired"

\* A message the subscriber is waiting for: the watch was one-shot, and it
\* calls watch again.
Receive(s) ==
    /\ doing[s] = "idle"
    /\ inbox[s] > 0
    /\ message = Accepts
    /\ inbox' = [inbox EXCEPT ![s] = @ - 1]
    /\ Goto(s, "watch")
    /\ UNCHANGED <<system, life, seen, calls, tasks, armed, now, asked, errors, deaths,
                   timeouts, failed>>

\* It gives up waiting and calls watch again.  The task it leaves goes on.
Timeout(s) ==
    /\ doing[s] = "idle"
    /\ timeouts[s] < MaxTimeouts
    /\ timeouts' = [timeouts EXCEPT ![s] = @ + 1]
    /\ Goto(s, "watch")
    /\ UNCHANGED <<system, life, seen, inbox, calls, tasks, armed, now, asked, errors,
                   deaths, failed>>

\* It dies and is restarted, with another pid and an empty mailbox.  Its call
\* goes on without it, and so do its tasks.
Die(s) ==
    /\ deaths < MaxDeaths
    /\ deaths' = deaths + 1
    /\ life' = [life EXCEPT ![s] = @ + 1]
    /\ Goto(s, "get_cursor")
    /\ seen' = [seen EXCEPT ![s] = 0]
    /\ inbox' = [inbox EXCEPT ![s] = 0]
    /\ armed' = [armed EXCEPT ![s] = 0]
    /\ timeouts' = [timeouts EXCEPT ![s] = 0]
    /\ failed' = [failed EXCEPT ![s] = 0]
    /\ UNCHANGED <<system, calls, tasks, now, asked, errors>>

Tick ==
    /\ now < MaxTime
    /\ now' = now + 1
    /\ UNCHANGED <<system, life, doing, seen, inbox, calls, tasks, armed, asked, errors,
                   deaths, timeouts, failed>>

Call(p) == \E c \in calls : c.pid[1] = p /\ (Finish(c) \/ ReturnError(c))
Task(t) == Notify(t) \/ WatchFails(t) \/ NotifyFailed(t)
TaskOf(s) == \E t \in tasks : t.pid[1] = s /\ Task(t)

Next == \/ \E p \in Processes : Enter(p) \/ Call(p)
        \/ \E w \in Writers : Ask(w)
        \/ \E s \in Subscribers : TaskOf(s) \/ Receive(s) \/ Timeout(s) \/ Die(s)
        \/ Tick

\* The cluster answers, tasks run, time passes, and a call that waits for a
\* thread gets one when threads keep coming free: their queue is first in,
\* first out.
Spec ==
    /\ Init /\ [][Next]_vars
    /\ \A p \in Processes : SF_vars(Enter(p)) /\ WF_vars(Call(p))
    /\ \A s \in Subscribers : WF_vars(TaskOf(s)) /\ WF_vars(Receive(s))
    /\ WF_vars(Tick)

-----------------------------------------------------------------------------
(***************************************************************************)
(* Properties.                                                             *)
(***************************************************************************)
Pid == Processes \X Nat
NifCall == [pid : Pid, op : Operation, arg : Nat]
WatchTask == [pid : Subscribers \X Nat, n : Nat, baseline : Nat, due : Nat]

NifTypeOK ==
    /\ sentinel \in 0..asked /\ asked \in 0..MaxAppends
    /\ errors \in 0..MaxErrors /\ deaths \in 0..MaxDeaths /\ now \in 0..MaxTime
    /\ cursor \in [Subscribers -> 0..sentinel] /\ seen \in [Subscribers -> 0..sentinel]
    /\ life \in [Processes -> 0..MaxDeaths]
    /\ doing \in [Processes -> Operation \union {"idle"}]
    /\ inbox \in [Subscribers -> Nat] /\ armed \in [Subscribers -> Nat]
    /\ IsFiniteSet(calls) /\ Cardinality(calls) <= Threads
    /\ calls \subseteq NifCall /\ \A c \in calls : c.arg <= sentinel
    /\ IsFiniteSet(tasks) /\ tasks \subseteq WatchTask
    /\ \A t \in tasks : t.baseline <= sentinel /\ t.due <= now + 1
    /\ timeouts \in [Subscribers -> 0..MaxTimeouts] /\ failed \in [Subscribers -> Nat]

TasksOf(s) == {t \in tasks : t.pid = <<s, life[s]>>}

\* A subscriber that waits and has not seen everything has a message, or a
\* task that is about to send one, whether its watch fired or failed
\* (lib.rs:283: "any append committing after this call fires the watch").
WakeOnItsWay ==
    \A s \in Subscribers : doing[s] = "idle" /\ seen[s] # sentinel =>
        inbox[s] > 0 \/ \E t \in TasksOf(s) : Fired(t) \/ t.due > 0

\* One wake-up per watch: a subscriber has never more messages and tasks than
\* the one it waits for and those of the waits it gave up; so its mailbox
\* does not fill however often it dies, and however watches fail.
OneWakePerWatch ==
    \A s \in Subscribers : inbox[s] + Cardinality(TasksOf(s)) <= 1 + timeouts[s]

\* Failing watches wake a subscriber at most once per back-off and watch
\* outstanding ("persistent errors cannot drive a hot re-arm loop").
NoHotLoop == \A s \in Subscribers : failed[s] <= now * (1 + timeouts[s])

(***************************************************************************)
(* The inductive invariant behind them.                                    *)
(***************************************************************************)
\* A pid is that of a process that lives or of one that died.
PidsKnown ==
    /\ \A p \in Processes : life[p] <= deaths
    /\ \A w \in Writers : life[w] = 0
    /\ \A c \in calls : c.pid[2] <= life[c.pid[1]]
    /\ \A t \in tasks : t.pid[2] <= life[t.pid[1]]

Appending == {w \in Writers : doing[w] = "append"}

\* Writers append and subscribers subscribe; an append that runs was asked for.
Roles ==
    /\ \A w \in Writers : doing[w] \in {"idle", "append"}
    /\ \A s \in Subscribers : doing[s] # "append"
    /\ \A c \in calls : c.op = "append" <=> c.pid[1] \in Writers
    /\ IsFiniteSet(Appending) /\ sentinel + Cardinality(Appending) <= asked

\* A process is in at most one NIF, and where it called it as long as it lives.
OneCallPerProcess ==
    /\ \A c, d \in calls : c.pid = d.pid => c = d
    /\ \A c \in calls : Alive(c.pid) => doing[c.pid[1]] = c.op

\* From the registration of its watch to the next one, a subscriber has the
\* watch's task or its message; and what it waits with was registered before
\* it last read.
WatchCovers ==
    \A s \in Subscribers :
        /\ doing[s] \in {"read", "set_cursor", "idle"} => inbox[s] > 0 \/ TasksOf(s) # {}
        /\ doing[s] = "idle" => \A t \in TasksOf(s) : t.baseline <= seen[s]

\* A subscriber about to call watch has at most what it gave up waiting for.
WakesBounded ==
    \A s \in Subscribers :
        inbox[s] + Cardinality(TasksOf(s))
            <= timeouts[s] + IF doing[s] \in {"get_cursor", "watch"} THEN 0 ELSE 1

\* The tasks that have slept count as messages already sent.
FailuresSpaced ==
    \A s \in Subscribers :
        failed[s] + Cardinality({t \in TasksOf(s) : slept(t)}) <= now * (1 + timeouts[s])

NifInv ==
    /\ NifTypeOK /\ PidsKnown /\ Roles /\ OneCallPerProcess
    /\ WatchCovers /\ WakesBounded /\ FailuresSpaced

\* Every subscriber sees every append, or a restart of it does.
CaughtUp ==
    \A s \in Subscribers : \A v \in 1..MaxAppends : sentinel >= v ~> seen[s] >= v

\* Appends return, however many processes wait: waiting holds no thread.
AppendsReturn == \A w \in Writers : doing[w] = "append" ~> doing[w] = "idle"
=============================================================================
