-------------------------- MODULE NifWatch_proofs --------------------------
(***************************************************************************)
(* Proofs about NifWatch, for every set of processes, number of threads    *)
(* and message, and for all bounds.                                        *)
(***************************************************************************)
EXTENDS NifWatch, FiniteSetTheorems, TLAPS

(***************************************************************************)
(* Finite sets.                                                            *)
(***************************************************************************)
\* Adding an element makes a finite set at most one larger.
LEMMA AddOne ==
    ASSUME NEW S, IsFiniteSet(S), NEW x
    PROVE  /\ IsFiniteSet(S \union {x})
           /\ Cardinality(S) \in Nat /\ Cardinality(S \union {x}) \in Nat
           /\ Cardinality(S \union {x}) <= Cardinality(S) + 1
<1>1. IsFiniteSet(S \union {x}) /\ Cardinality(S) \in Nat /\ Cardinality(S \union {x}) \in Nat
  BY FS_AddElement, FS_CardinalityType
<1>2. Cardinality(S \union {x}) = Cardinality(S) \/ Cardinality(S \union {x}) = Cardinality(S) + 1
  BY FS_AddElement
<1> QED
  BY <1>1, <1>2

\* Removing an element of a finite set makes it one smaller.
LEMMA RemoveOne ==
    ASSUME NEW S, IsFiniteSet(S), NEW x \in S
    PROVE  /\ IsFiniteSet(S \ {x})
           /\ Cardinality(S) \in Nat /\ Cardinality(S \ {x}) \in Nat
           /\ Cardinality(S \ {x}) = Cardinality(S) - 1
<1>1. IsFiniteSet(S \ {x}) /\ Cardinality(S) \in Nat /\ Cardinality(S \ {x}) \in Nat
  BY FS_RemoveElement, FS_CardinalityType
<1>2. Cardinality(S \ {x}) = Cardinality(S) - 1
  BY FS_RemoveElement
<1> QED
  BY <1>1, <1>2

\* The cardinality of a finite set and of its parts.
LEMMA PartOf ==
    ASSUME NEW S, IsFiniteSet(S), NEW T \in SUBSET S
    PROVE  /\ IsFiniteSet(T) /\ Cardinality(S) \in Nat /\ Cardinality(T) \in Nat
           /\ Cardinality(T) <= Cardinality(S)
  BY FS_Subset, FS_CardinalityType

(***************************************************************************)
(* Pids.                                                                   *)
(***************************************************************************)
\* A pid is a process and its number in succession; two pids of a process
\* that are alive are one.
LEMMA Pids ==
    ASSUME NifTypeOK
    PROVE  /\ \A c \in calls : /\ c.pid[1] \in Processes /\ c.pid[2] \in Nat
                               /\ c.pid = <<c.pid[1], c.pid[2]>>
                               /\ c.op \in Operation /\ c.arg \in Nat
           /\ \A t \in tasks : /\ t.pid[1] \in Subscribers /\ t.pid[2] \in Nat
                               /\ t.pid = <<t.pid[1], t.pid[2]>>
                               /\ t.due \in Nat /\ t.baseline \in Nat /\ t.n \in Nat
           /\ Subscribers \subseteq Processes /\ Writers \subseteq Processes
           /\ \A p \in Processes : life[p] \in Nat
  BY DEF NifTypeOK, NifCall, WatchTask, Pid, Processes

LEMMA TasksFinite ==
    ASSUME NifTypeOK, NEW s
    PROVE  /\ IsFiniteSet(TasksOf(s)) /\ Cardinality(TasksOf(s)) \in Nat
           /\ IsFiniteSet({t \in TasksOf(s) : slept(t)})
           /\ Cardinality({t \in TasksOf(s) : slept(t)}) \in Nat
           /\ Cardinality({t \in TasksOf(s) : slept(t)}) <= Cardinality(TasksOf(s))
<1>1. IsFiniteSet(TasksOf(s)) /\ Cardinality(TasksOf(s)) \in Nat
  BY PartOf DEF NifTypeOK, TasksOf
<1> QED
  BY <1>1, PartOf

(***************************************************************************)
(* The invariant is inductive.                                             *)
(***************************************************************************)
LEMMA InitInv == Init => NifInv
<1> SUFFICES ASSUME Init PROVE NifInv
  OBVIOUS
<1> USE DEF Init
<1>1. IsFiniteSet({}) /\ Cardinality({}) = 0
  BY FS_EmptySet
<1>2. NifTypeOK
  BY <1>1, NifAssumption DEF NifTypeOK, Operation
<1>3. PidsKnown
  BY DEF PidsKnown, Processes
<1>4. Roles
  <2>1. Appending = {}
    BY NifAssumption DEF Appending, Processes
  <2>2. \A s \in Subscribers : doing[s] = "get_cursor"
    BY DEF Processes
  <2>3. \A w \in Writers : doing[w] = "idle"
    BY NifAssumption DEF Processes
  <2> QED
    BY <1>1, <2>1, <2>2, <2>3 DEF Roles
<1>5. OneCallPerProcess
  BY DEF OneCallPerProcess
<1>6. \A s \in Subscribers : doing[s] = "get_cursor" /\ TasksOf(s) = {}
  BY DEF TasksOf, Processes
<1>7. WatchCovers
  BY <1>6 DEF WatchCovers
<1>8. WakesBounded
  BY <1>1, <1>6 DEF WakesBounded
<1>9. FailuresSpaced
  <2>1. \A s \in Subscribers : {t \in TasksOf(s) : slept(t)} = {}
    BY <1>6
  <2> QED
    BY <1>1, <2>1 DEF FailuresSpaced
<1> QED
  BY <1>2, <1>3, <1>4, <1>5, <1>7, <1>8, <1>9 DEF NifInv

\* A step that leaves the watch tasks, the mailboxes and the time alone, and
\* moves no subscriber to a wait it was not in.
LEMMA NoWakeStep ==
    ASSUME NifInv, UNCHANGED <<life, inbox, tasks, now, timeouts, failed>>,
           \A s \in Subscribers :
               \/ doing'[s] = doing[s] /\ seen'[s] = seen[s]
               \/ doing[s] \in {"get_cursor", "watch"} /\ doing'[s] \in {"get_cursor", "watch"}
               \/ /\ doing[s] \in {"read", "set_cursor"}
                  /\ doing'[s] \in {"read", "set_cursor"}
               \/ /\ doing[s] \in {"read", "set_cursor"} /\ doing'[s] = "idle"
                  /\ seen'[s] = sentinel
    PROVE  WatchCovers' /\ WakesBounded' /\ FailuresSpaced'
<1> USE DEF NifInv
<1>1. \A s : TasksOf(s)' = TasksOf(s)
  BY DEF TasksOf
<1>2. WatchCovers'
  <2> SUFFICES ASSUME NEW s \in Subscribers
               PROVE  /\ doing'[s] \in {"read", "set_cursor", "idle"} => inbox[s] > 0 \/ TasksOf(s) # {}
                      /\ doing'[s] = "idle" => \A t \in TasksOf(s) : t.baseline <= seen'[s]
    BY <1>1 DEF WatchCovers
  <2>1. \A t \in TasksOf(s) : t.baseline <= sentinel
    BY DEF TasksOf, NifTypeOK
  <2> QED
    BY <2>1 DEF WatchCovers
<1>3. WakesBounded'
  <2> SUFFICES ASSUME NEW s \in Subscribers
               PROVE  inbox[s] + Cardinality(TasksOf(s))
                        <= timeouts[s] + IF doing'[s] \in {"get_cursor", "watch"} THEN 0 ELSE 1
    BY <1>1 DEF WakesBounded
  <2> QED
    BY DEF WakesBounded
<1>4. FailuresSpaced'
  <2>1. \A s : {t \in TasksOf(s) : slept(t)}' = {t \in TasksOf(s) : slept(t)}
    BY <1>1 DEF slept
  <2> QED
    BY <2>1 DEF FailuresSpaced
<1> QED
  BY <1>2, <1>3, <1>4

\* A NIF returns: its process goes on at `next` if it lives, every other call
\* and process is where it was.
LEMMA ReturnStep ==
    ASSUME NifInv, NEW c \in calls, NEW next \in Operation \union {"idle"}, Return(c, next)
    PROVE  /\ \A p \in Processes :
                  doing'[p] = IF p = c.pid[1] /\ Alive(c.pid) THEN next ELSE doing[p]
           /\ doing' \in [Processes -> Operation \union {"idle"}]
           /\ IsFiniteSet(calls') /\ Cardinality(calls') <= Threads
           /\ calls' \subseteq calls
           /\ OneCallPerProcess'
           /\ UNCHANGED <<life, inbox, now, asked, deaths, timeouts, failed>>
<1> USE DEF NifInv
<1>1. /\ calls' = calls \ {c}
      /\ UNCHANGED <<life, inbox, now, asked, deaths, timeouts, failed>>
      /\ doing \in [Processes -> Operation \union {"idle"}] /\ c.pid[1] \in Processes
  BY Pids DEF Return, NifTypeOK
<1>2. doing' = IF Alive(c.pid) THEN [doing EXCEPT ![c.pid[1]] = next] ELSE doing
  BY DEF Return, Goto
<1>3. \A p \in Processes :
          doing'[p] = IF p = c.pid[1] /\ Alive(c.pid) THEN next ELSE doing[p]
  BY <1>1, <1>2
<1>4. doing' \in [Processes -> Operation \union {"idle"}]
  BY <1>1, <1>2
<1>5. IsFiniteSet(calls') /\ Cardinality(calls') <= Threads
  <2>1. IsFiniteSet(calls) /\ Cardinality(calls) <= Threads /\ Threads \in Nat
    BY NifAssumption DEF NifTypeOK
  <2> QED
    BY <1>1, <2>1, RemoveOne
<1>6. OneCallPerProcess'
  <2>1. ASSUME NEW d \in calls', life[d.pid[1]] = d.pid[2]
        PROVE  doing'[d.pid[1]] = d.op
    <3>1. d \in calls /\ d # c /\ Alive(d.pid) /\ d.pid[1] \in Processes
      BY <1>1, <2>1, Pids DEF Alive
    <3>2. CASE d.pid[1] = c.pid[1] /\ Alive(c.pid)
      <4>1. d.pid = c.pid
        BY <3>1, <3>2, Pids DEF Alive
      <4> QED
        BY <3>1, <4>1 DEF OneCallPerProcess
    <3>3. CASE ~(d.pid[1] = c.pid[1] /\ Alive(c.pid))
      BY <1>3, <3>1, <3>3 DEF OneCallPerProcess
    <3> QED
      BY <3>2, <3>3
  <2> QED
    BY <1>1, <2>1 DEF OneCallPerProcess, Alive
<1> QED
  BY <1>1, <1>3, <1>4, <1>5, <1>6

\* Which processes append does not depend on what a subscriber does.
LEMMA SubscriberStep ==
    ASSUME NifInv, \A w \in Writers : doing'[w] = doing[w], UNCHANGED <<sentinel, asked>>
    PROVE  /\ \A w \in Writers : doing'[w] \in {"idle", "append"}
           /\ IsFiniteSet(Appending') /\ sentinel' + Cardinality(Appending') <= asked'
<1>1. Appending' = Appending
  BY DEF Appending
<1> QED
  BY <1>1 DEF NifInv, Roles

LEMMA EnterInv ==
    ASSUME NifInv, NEW p \in Processes, Enter(p)
    PROVE  NifInv'
<1> USE DEF NifInv
<1>1. PICK c : c = [pid |-> <<p, life[p]>>, op |-> doing[p],
                    arg |-> IF doing[p] = "set_cursor" THEN seen[p] ELSE 0]
  OBVIOUS
<1>2. /\ doing[p] \in Operation
      /\ ~\E d \in calls : d.pid = <<p, life[p]>>
      /\ Cardinality(calls) < Threads
      /\ calls' = calls \union {c}
      /\ UNCHANGED <<sentinel, cursor, life, doing, seen, inbox, tasks, armed, now,
                     asked, errors, deaths, timeouts, failed>>
  BY <1>1 DEF Enter, system, threads_in_use
<1>3. p \in Writers => doing[p] = "append"
  BY <1>2 DEF Roles, Operation
<1>4. c.arg \in Nat /\ c.arg <= sentinel
  <2>1. CASE doing[p] = "set_cursor"
    <3>1. p \in Subscribers
      BY <1>3, <2>1 DEF Processes
    <3> QED
      BY <1>1, <2>1, <3>1 DEF NifTypeOK
  <2>2. CASE doing[p] # "set_cursor"
    BY <1>1, <2>2 DEF NifTypeOK
  <2> QED
    BY <2>1, <2>2
<1>5. c \in NifCall
  <2>1. <<p, life[p]>> \in Pid
    BY Pids DEF Pid
  <2> QED
    BY <1>1, <1>2, <1>4, <2>1 DEF NifCall
<1>6. IsFiniteSet(calls') /\ Cardinality(calls') <= Threads
  <2>1. IsFiniteSet(calls) /\ Threads \in Nat
    BY NifAssumption DEF NifTypeOK
  <2>2. /\ IsFiniteSet(calls \union {c})
        /\ Cardinality(calls) \in Nat /\ Cardinality(calls \union {c}) \in Nat
        /\ Cardinality(calls \union {c}) <= Cardinality(calls) + 1
    BY <2>1, AddOne
  <2>3. Cardinality(calls \union {c}) <= Threads
    BY <1>2, <2>1, <2>2
  <2> QED
    BY <1>2, <2>2, <2>3
<1>7. NifTypeOK'
  BY <1>2, <1>4, <1>5, <1>6 DEF NifTypeOK
<1>8. c.pid[1] = p /\ c.pid[2] = life[p] /\ c.op = doing[p] /\ c.pid = <<p, life[p]>>
  BY <1>1
<1>9. PidsKnown'
  BY <1>2, <1>8, Pids DEF PidsKnown
<1>10. Roles'
  <2>1. c.op = "append" <=> c.pid[1] \in Writers
    BY <1>3, <1>8 DEF Roles, Processes
  <2>2. Appending' = Appending
    BY <1>2 DEF Appending
  <2> QED
    BY <1>2, <2>1, <2>2 DEF Roles
<1>11. OneCallPerProcess'
  BY <1>2, <1>8 DEF OneCallPerProcess, Alive
<1> QED
  BY <1>2, <1>7, <1>9, <1>10, <1>11, NoWakeStep

\* An append is applied, and its caller is told so or gets an error.
LEMMA AppendInv ==
    ASSUME NifInv, NEW c \in calls, c.op = "append", append, Return(c, "idle"),
           UNCHANGED <<seen, tasks, armed>>, errors' \in 0..MaxErrors
    PROVE  NifInv'
<1> USE DEF NifInv
<1>1. /\ c.op = "append" /\ sentinel' = sentinel + 1
      /\ Return(c, "idle")
      /\ UNCHANGED <<cursor, seen, tasks, armed>>
  BY DEF append
<1>2. /\ \A p \in Processes :
             doing'[p] = IF p = c.pid[1] /\ Alive(c.pid) THEN "idle" ELSE doing[p]
      /\ doing' \in [Processes -> Operation \union {"idle"}]
      /\ IsFiniteSet(calls') /\ Cardinality(calls') <= Threads
      /\ calls' \subseteq calls
      /\ OneCallPerProcess'
      /\ UNCHANGED <<life, inbox, now, asked, deaths, timeouts, failed>>
  BY <1>1, ReturnStep
<1>3. c.pid[1] \in Writers /\ Alive(c.pid) /\ c.pid[1] \in Appending
  <2>1. c.pid[1] \in Writers /\ c.pid[2] \in Nat /\ c.pid[2] <= life[c.pid[1]]
    BY <1>1, Pids DEF Roles, PidsKnown
  <2>2. Alive(c.pid)
    BY <2>1 DEF Alive, PidsKnown
  <2> QED
    BY <1>1, <2>1, <2>2 DEF OneCallPerProcess, Appending
<1>4. Appending' = Appending \ {c.pid[1]}
  BY <1>2, <1>3 DEF Appending, Processes
<1>5. /\ IsFiniteSet(Appending') /\ sentinel' + Cardinality(Appending') <= asked'
      /\ sentinel' <= asked'
  <2>1. /\ IsFiniteSet(Appending \ {c.pid[1]})
        /\ Cardinality(Appending) \in Nat /\ Cardinality(Appending \ {c.pid[1]}) \in Nat
        /\ Cardinality(Appending \ {c.pid[1]}) = Cardinality(Appending) - 1
    BY <1>3, RemoveOne DEF Roles
  <2>2. sentinel + 1 + Cardinality(Appending \ {c.pid[1]}) <= asked
    BY <2>1 DEF Roles, NifTypeOK
  <2> QED
    BY <1>1, <1>2, <1>4, <2>1, <2>2 DEF NifTypeOK
<1>6. NifTypeOK'
  <2>1. /\ sentinel \in Nat /\ asked \in Nat /\ sentinel' \in 0..asked'
        /\ 0..sentinel \subseteq 0..sentinel'
    BY <1>1, <1>2, <1>5 DEF NifTypeOK
  <2>2. cursor' \in [Subscribers -> 0..sentinel'] /\ seen' \in [Subscribers -> 0..sentinel']
    BY <1>1, <2>1 DEF NifTypeOK
  <2>3. \A d \in calls' : d.arg <= sentinel'
    BY <1>1, <1>2, <2>1, Pids DEF NifTypeOK
  <2>4. \A t \in tasks' : t.baseline <= sentinel' /\ t.due <= now' + 1
    BY <1>1, <1>2, <2>1, Pids DEF NifTypeOK
  <2> QED
    BY <1>1, <1>2, <2>1, <2>2, <2>3, <2>4 DEF NifTypeOK
<1>7. PidsKnown'
  BY <1>1, <1>2 DEF PidsKnown
<1>8. \A s \in Subscribers : doing'[s] = doing[s]
  BY <1>2, <1>3, NifAssumption DEF Processes
<1>9. Roles'
  <2>1. \A w \in Writers : doing'[w] \in {"idle", "append"}
    BY <1>2 DEF Roles, Processes
  <2> QED
    BY <1>1, <1>2, <1>5, <1>8, <2>1 DEF Roles
<1> QED
  BY <1>1, <1>2, <1>6, <1>7, <1>8, <1>9, NoWakeStep

\* A call of a subscriber returns: roles, pids and calls are in order.
LEMMA SubscriberReturn ==
    ASSUME NifInv, NEW c \in calls, c.op # "append",
           NEW next \in (Operation \union {"idle"}) \ {"append"},
           Return(c, next), UNCHANGED sentinel
    PROVE  /\ c.pid[1] \in Subscribers
           /\ Alive(c.pid) => doing[c.pid[1]] = c.op
           /\ \A s \in Subscribers :
                  doing'[s] = IF s = c.pid[1] /\ Alive(c.pid) THEN next ELSE doing[s]
           /\ doing' \in [Processes -> Operation \union {"idle"}]
           /\ IsFiniteSet(calls') /\ Cardinality(calls') <= Threads
           /\ calls' \subseteq calls
           /\ OneCallPerProcess' /\ Roles'
           /\ UNCHANGED <<life, inbox, now, asked, deaths, timeouts, failed>>
<1> USE DEF NifInv
<1>1. /\ \A p \in Processes :
             doing'[p] = IF p = c.pid[1] /\ Alive(c.pid) THEN next ELSE doing[p]
      /\ doing' \in [Processes -> Operation \union {"idle"}]
      /\ IsFiniteSet(calls') /\ Cardinality(calls') <= Threads
      /\ calls' \subseteq calls
      /\ OneCallPerProcess'
      /\ UNCHANGED <<life, inbox, now, asked, deaths, timeouts, failed>>
  BY ReturnStep
<1>2. c.pid[1] \in Subscribers /\ c.pid[1] \notin Writers
  BY Pids DEF Roles, Processes
<1>3. Alive(c.pid) => doing[c.pid[1]] = c.op
  BY DEF OneCallPerProcess
<1>4. \A w \in Writers : doing'[w] = doing[w]
  BY <1>1, <1>2 DEF Processes
<1>5. /\ \A w \in Writers : doing'[w] \in {"idle", "append"}
      /\ IsFiniteSet(Appending') /\ sentinel' + Cardinality(Appending') <= asked'
  BY <1>1, <1>4, SubscriberStep
<1>6. \A s \in Subscribers : doing'[s] # "append"
  BY <1>1 DEF Roles, Processes
<1>7. Roles'
  BY <1>1, <1>5, <1>6 DEF Roles
<1> QED
  BY <1>1, <1>2, <1>3, <1>7 DEF Processes

LEMMA GetCursorInv ==
    ASSUME NifInv, NEW c \in calls, dcb_store_get_cursor(c)
    PROVE  NifInv'
<1> USE DEF NifInv
<1>1. /\ c.op = "get_cursor" /\ Return(c, "watch")
      /\ seen' = IF Alive(c.pid) THEN [seen EXCEPT ![c.pid[1]] = cursor[c.pid[1]]] ELSE seen
      /\ UNCHANGED <<sentinel, cursor, tasks, armed, errors>>
  BY DEF dcb_store_get_cursor, system
<1>2. /\ c.pid[1] \in Subscribers
      /\ Alive(c.pid) => doing[c.pid[1]] = c.op
      /\ \A s \in Subscribers :
             doing'[s] = IF s = c.pid[1] /\ Alive(c.pid) THEN "watch" ELSE doing[s]
      /\ doing' \in [Processes -> Operation \union {"idle"}]
      /\ IsFiniteSet(calls') /\ Cardinality(calls') <= Threads
      /\ calls' \subseteq calls
      /\ OneCallPerProcess' /\ Roles'
      /\ UNCHANGED <<life, inbox, now, asked, deaths, timeouts, failed>>
  BY <1>1, SubscriberReturn DEF Operation
<1>3. NifTypeOK'
  BY <1>1, <1>2 DEF NifTypeOK
<1>4. PidsKnown'
  BY <1>1, <1>2 DEF PidsKnown
<1>5. ASSUME NEW s \in Subscribers
      PROVE  \/ doing'[s] = doing[s] /\ seen'[s] = seen[s]
             \/ doing[s] \in {"get_cursor", "watch"} /\ doing'[s] \in {"get_cursor", "watch"}
  BY <1>1, <1>2 DEF NifTypeOK
<1> QED
  BY <1>1, <1>2, <1>3, <1>4, <1>5, NoWakeStep

\* A cursor is written, and its subscriber goes on to read, or writes it again.
LEMMA SetCursorInv ==
    ASSUME NifInv, NEW c \in calls, c.op = "set_cursor", set_cursor(c),
           NEW next \in {"read", "set_cursor"}, Return(c, next),
           UNCHANGED <<seen, tasks, armed>>, errors' \in 0..MaxErrors
    PROVE  NifInv'
<1> USE DEF NifInv
<1>1. /\ c.op = "set_cursor" /\ Return(c, next)
      /\ cursor' = [cursor EXCEPT ![c.pid[1]] = c.arg]
      /\ UNCHANGED <<sentinel, seen, tasks, armed>>
  BY DEF set_cursor
<1>2. /\ c.pid[1] \in Subscribers
      /\ Alive(c.pid) => doing[c.pid[1]] = c.op
      /\ \A s \in Subscribers :
             doing'[s] = IF s = c.pid[1] /\ Alive(c.pid) THEN next ELSE doing[s]
      /\ doing' \in [Processes -> Operation \union {"idle"}]
      /\ IsFiniteSet(calls') /\ Cardinality(calls') <= Threads
      /\ calls' \subseteq calls
      /\ OneCallPerProcess' /\ Roles'
      /\ UNCHANGED <<life, inbox, now, asked, deaths, timeouts, failed>>
  BY <1>1, SubscriberReturn DEF Operation
<1>3. NifTypeOK'
  <2>1. c.arg \in 0..sentinel
    BY Pids DEF NifTypeOK
  <2> QED
    BY <1>1, <1>2, <2>1 DEF NifTypeOK
<1>4. PidsKnown'
  BY <1>1, <1>2 DEF PidsKnown
<1>5. ASSUME NEW s \in Subscribers
      PROVE  \/ doing'[s] = doing[s] /\ seen'[s] = seen[s]
             \/ /\ doing[s] \in {"read", "set_cursor"}
                /\ doing'[s] \in {"read", "set_cursor"}
  BY <1>1, <1>2
<1> QED
  BY <1>1, <1>2, <1>3, <1>4, <1>5, NoWakeStep

\* An error of a call that had no effect.
LEMMA NoEffectInv ==
    ASSUME NifInv, NEW c \in calls, ReturnError(c), UNCHANGED system
    PROVE  NifInv'
<1> USE DEF NifInv
<1> DEFINE next == IF c.op = "append" THEN "idle" ELSE c.op
<1>1. /\ errors < MaxErrors /\ errors' = errors + 1
      /\ Return(c, next)
      /\ UNCHANGED <<sentinel, cursor, seen, tasks, armed>>
  BY DEF ReturnError, system
<1>2. next \in Operation \union {"idle"} /\ c.pid[1] \in Processes
  BY Pids
<1>3. /\ \A p \in Processes :
             doing'[p] = IF p = c.pid[1] /\ Alive(c.pid) THEN next ELSE doing[p]
      /\ doing' \in [Processes -> Operation \union {"idle"}]
      /\ IsFiniteSet(calls') /\ Cardinality(calls') <= Threads
      /\ calls' \subseteq calls
      /\ OneCallPerProcess'
      /\ UNCHANGED <<life, inbox, now, asked, deaths, timeouts, failed>>
  BY <1>1, <1>2, ReturnStep
<1>4. NifTypeOK'
  BY <1>1, <1>3, NifAssumption DEF NifTypeOK
<1>5. PidsKnown'
  BY <1>1, <1>3 DEF PidsKnown
<1>6. Alive(c.pid) => doing[c.pid[1]] = c.op
  BY DEF OneCallPerProcess
<1>7. \A s \in Subscribers : doing'[s] = doing[s]
  BY <1>3, <1>6, NifAssumption DEF Processes, Roles
<1>8. Roles'
  <2>1. \A w \in Writers : doing'[w] \in {"idle", "append"}
    BY <1>3, <1>6 DEF Roles, Processes
  <2>2. Appending' \subseteq Appending
    BY <1>3, <1>6 DEF Appending, Processes
  <2>3. IsFiniteSet(Appending') /\ Cardinality(Appending') <= Cardinality(Appending)
        /\ Cardinality(Appending) \in Nat /\ Cardinality(Appending') \in Nat
    BY <2>2, PartOf DEF Roles
  <2>4. sentinel' + Cardinality(Appending') <= asked'
    BY <1>1, <1>3, <2>3 DEF Roles, NifTypeOK
  <2> QED
    BY <1>1, <1>3, <1>7, <2>1, <2>3, <2>4 DEF Roles
<1> QED
  BY <1>1, <1>3, <1>4, <1>5, <1>7, <1>8, NoWakeStep

LEMMA ErrorInv ==
    ASSUME NifInv, NEW c \in calls, ReturnError(c)
    PROVE  NifInv'
<1>1. errors' \in 0..MaxErrors /\ UNCHANGED <<seen, tasks, armed>>
  BY NifAssumption DEF ReturnError, NifInv, NifTypeOK
<1>2. CASE UNCHANGED system
  BY <1>2, NoEffectInv
<1>3. CASE c.op = "append" /\ append
  <2>1. Return(c, "idle")
    BY <1>3 DEF ReturnError
  <2> QED
    BY <1>1, <1>3, <2>1, AppendInv
<1>4. CASE c.op = "set_cursor" /\ set_cursor(c)
  <2>1. Return(c, "set_cursor")
    BY <1>4 DEF ReturnError
  <2> QED
    BY <1>1, <1>4, <2>1, SetCursorInv
<1> QED
  BY <1>2, <1>3, <1>4 DEF ReturnError

LEMMA ReadInv ==
    ASSUME NifInv, NEW c \in calls, dcb_store_read(c)
    PROVE  NifInv'
<1> USE DEF NifInv
<1> DEFINE next == IF seen[c.pid[1]] = sentinel THEN "idle" ELSE "set_cursor"
<1>1. /\ c.op = "read" /\ Return(c, next)
      /\ seen' = IF Alive(c.pid) THEN [seen EXCEPT ![c.pid[1]] = sentinel] ELSE seen
      /\ UNCHANGED <<sentinel, cursor, tasks, armed, errors>>
  BY DEF dcb_store_read, system
<1>2. next \in {"idle", "set_cursor"}
  OBVIOUS
<1> HIDE DEF next
<1>3. /\ c.pid[1] \in Subscribers
      /\ Alive(c.pid) => doing[c.pid[1]] = c.op
      /\ \A s \in Subscribers :
             doing'[s] = IF s = c.pid[1] /\ Alive(c.pid) THEN next ELSE doing[s]
      /\ doing' \in [Processes -> Operation \union {"idle"}]
      /\ IsFiniteSet(calls') /\ Cardinality(calls') <= Threads
      /\ calls' \subseteq calls
      /\ OneCallPerProcess' /\ Roles'
      /\ UNCHANGED <<life, inbox, now, asked, deaths, timeouts, failed>>
  BY <1>1, <1>2, SubscriberReturn DEF Operation
<1>4. NifTypeOK'
  <2>1. sentinel \in 0..sentinel
    BY DEF NifTypeOK
  <2> QED
    BY <1>1, <1>3, <2>1 DEF NifTypeOK
<1>5. PidsKnown'
  BY <1>1, <1>3 DEF PidsKnown
<1>6. ASSUME NEW s \in Subscribers
      PROVE  \/ doing'[s] = doing[s] /\ seen'[s] = seen[s]
             \/ /\ doing[s] \in {"read", "set_cursor"}
                /\ doing'[s] \in {"read", "set_cursor"}
             \/ /\ doing[s] \in {"read", "set_cursor"} /\ doing'[s] = "idle"
                /\ seen'[s] = sentinel
  BY <1>1, <1>2, <1>3 DEF NifTypeOK
<1> QED
  BY <1>1, <1>3, <1>4, <1>5, <1>6, NoWakeStep

\* A watch is registered: the one subscriber it belongs to, if it lives, has
\* one task more, which has not slept.
LEMMA WatchInv ==
    ASSUME NifInv, NEW c \in calls, dcb_store_watch(c)
    PROVE  NifInv'
<1> USE DEF NifInv
<1>0. PICK r : r = c.pid[1]
  OBVIOUS
<1>1. /\ c.op = "watch" /\ Return(c, "read")
      /\ armed' = IF Alive(c.pid) THEN [armed EXCEPT ![r] = @ + 1] ELSE armed
      /\ tasks' = tasks \union
             {[pid |-> c.pid, n |-> IF Alive(c.pid) THEN armed'[r] ELSE 0,
               baseline |-> sentinel, due |-> 0]}
      /\ UNCHANGED <<sentinel, cursor, seen, errors>>
  BY <1>0 DEF dcb_store_watch, system
<1>2. /\ r \in Subscribers
      /\ Alive(c.pid) => doing[r] = "watch"
      /\ \A s \in Subscribers :
             doing'[s] = IF s = r /\ Alive(c.pid) THEN "read" ELSE doing[s]
      /\ doing' \in [Processes -> Operation \union {"idle"}]
      /\ IsFiniteSet(calls') /\ Cardinality(calls') <= Threads
      /\ calls' \subseteq calls
      /\ OneCallPerProcess' /\ Roles'
      /\ UNCHANGED <<life, inbox, now, asked, deaths, timeouts, failed>>
  BY <1>0, <1>1, SubscriberReturn DEF Operation
<1>3. PICK t : t = [pid |-> c.pid, n |-> IF Alive(c.pid) THEN armed'[r] ELSE 0,
                    baseline |-> sentinel, due |-> 0]
  OBVIOUS
<1>4. /\ armed' \in [Subscribers -> Nat] /\ t.n \in Nat /\ t \in WatchTask
      /\ t.pid = c.pid /\ t.pid[1] = r /\ t.baseline = sentinel /\ t.due = 0
      /\ tasks' = tasks \union {t}
  <2>1. armed' \in [Subscribers -> Nat]
    BY <1>1, <1>2 DEF NifTypeOK
  <2>2. (IF Alive(c.pid) THEN armed'[r] ELSE 0) \in Nat
    BY <1>2, <2>1
  <2>3. c.pid \in Subscribers \X Nat /\ sentinel \in Nat
    <3>1. c.pid = <<r, c.pid[2]>> /\ c.pid[2] \in Nat
      BY <1>0, Pids
    <3>2. <<r, c.pid[2]>> \in Subscribers \X Nat
      BY <1>2, <3>1
    <3>3. c.pid \in Subscribers \X Nat
      BY <3>1, <3>2
    <3>4. sentinel \in Nat
      BY DEF NifTypeOK
    <3> QED
      BY <3>3, <3>4
  <2> QED
    BY <1>0, <1>1, <1>3, <2>1, <2>2, <2>3 DEF WatchTask
<1>5. NifTypeOK'
  <2>1. IsFiniteSet(tasks')
    BY <1>4, AddOne DEF NifTypeOK
  <2>2. \A u \in tasks' : u.baseline <= sentinel /\ u.due <= now + 1
    BY <1>4 DEF NifTypeOK
  <2> QED
    BY <1>1, <1>2, <1>4, <2>1, <2>2 DEF NifTypeOK
<1>6. PidsKnown'
  <2>1. c.pid[2] <= life[r]
    BY <1>0 DEF PidsKnown
  <2> QED
    BY <1>1, <1>2, <1>4, <2>1 DEF PidsKnown
<1>7. ASSUME NEW s \in Subscribers
      PROVE  IF s = r /\ Alive(c.pid) THEN TasksOf(s)' = TasksOf(s) \union {t}
             ELSE TasksOf(s)' = TasksOf(s)
  <2>1. c.pid = <<s, life[s]>> <=> s = r /\ Alive(c.pid)
    BY <1>0, Pids DEF Alive
  <2> QED
    BY <1>2, <1>4, <2>1 DEF TasksOf
<1>8. WatchCovers'
  <2> SUFFICES ASSUME NEW s \in Subscribers
               PROVE  /\ doing'[s] \in {"read", "set_cursor", "idle"} =>
                             inbox'[s] > 0 \/ TasksOf(s)' # {}
                      /\ doing'[s] = "idle" => \A u \in TasksOf(s)' : u.baseline <= seen'[s]
    BY DEF WatchCovers
  <2>1. CASE s = r /\ Alive(c.pid)
    BY <1>2, <1>7, <2>1
  <2>2. CASE ~(s = r /\ Alive(c.pid))
    BY <1>1, <1>2, <1>7, <2>2 DEF WatchCovers
  <2> QED
    BY <2>1, <2>2
<1>9. WakesBounded'
  <2> SUFFICES ASSUME NEW s \in Subscribers
               PROVE  inbox'[s] + Cardinality(TasksOf(s)')
                        <= timeouts'[s] + IF doing'[s] \in {"get_cursor", "watch"} THEN 0 ELSE 1
    BY DEF WakesBounded
  <2>1. CASE s = r /\ Alive(c.pid)
    <3>1. inbox[s] + Cardinality(TasksOf(s)) <= timeouts[s]
      BY <1>2, <2>1 DEF WakesBounded, NifTypeOK
    <3>2. /\ Cardinality(TasksOf(s)) \in Nat /\ Cardinality(TasksOf(s) \union {t}) \in Nat
          /\ Cardinality(TasksOf(s) \union {t}) <= Cardinality(TasksOf(s)) + 1
      BY TasksFinite, AddOne
    <3>3. inbox[s] \in Nat /\ timeouts[s] \in Nat
      BY DEF NifTypeOK
    <3>4. inbox[s] + Cardinality(TasksOf(s) \union {t}) <= timeouts[s] + 1
      BY <3>1, <3>2, <3>3
    <3> QED
      BY <1>2, <1>7, <2>1, <3>4
  <2>2. CASE ~(s = r /\ Alive(c.pid))
    BY <1>2, <1>7, <2>2 DEF WakesBounded
  <2> QED
    BY <2>1, <2>2
<1>10. FailuresSpaced'
  <2> SUFFICES ASSUME NEW s \in Subscribers
               PROVE  failed'[s] + Cardinality({u \in TasksOf(s)' : u.due \in 1..now'})
                        <= now' * (1 + timeouts'[s])
    BY DEF FailuresSpaced, slept
  <2>1. {u \in TasksOf(s)' : u.due \in 1..now'} = {u \in TasksOf(s) : slept(u)}
    BY <1>2, <1>4, <1>7 DEF slept
  <2> QED
    BY <1>2, <2>1 DEF FailuresSpaced
<1> QED
  BY <1>2, <1>5, <1>6, <1>8, <1>9, <1>10

\* A task that is alone in a set of one that ends, and in none otherwise.
LEMMA TaskEnds ==
    ASSUME NifInv, NEW t \in tasks, tasks' = tasks \ {t}, UNCHANGED life,
           NEW s \in Subscribers
    PROVE  IF s = t.pid[1] /\ Alive(t.pid)
           THEN t \in TasksOf(s) /\ TasksOf(s)' = TasksOf(s) \ {t}
           ELSE TasksOf(s)' = TasksOf(s)
<1>1. t.pid = <<s, life[s]>> <=> s = t.pid[1] /\ Alive(t.pid)
  BY Pids DEF Alive, NifInv
<1> QED
  BY <1>1 DEF TasksOf

\* A task sends its message and ends: its subscriber, if it lives, has a
\* message for a task.
LEMMA SendStep ==
    ASSUME NifInv, NEW t \in tasks, send(t), tasks' = tasks \ {t},
           UNCHANGED <<sentinel, cursor, life, doing, seen, calls, armed, now, asked, errors,
                       deaths, timeouts>>
    PROVE  /\ PidsKnown' /\ Roles' /\ OneCallPerProcess' /\ WatchCovers' /\ WakesBounded'
           /\ inbox' \in [Subscribers -> Nat]
           /\ IsFiniteSet(tasks') /\ tasks' \subseteq tasks
<1> USE DEF NifInv
<1>1. inbox' = IF Alive(t.pid) THEN [inbox EXCEPT ![t.pid[1]] = @ + 1] ELSE inbox
  BY DEF send
<1>2. inbox' \in [Subscribers -> Nat] /\ t.pid[1] \in Subscribers
  BY <1>1, Pids DEF NifTypeOK
<1>3. IsFiniteSet(tasks') /\ tasks' \subseteq tasks
  BY RemoveOne DEF NifTypeOK
<1>4. PidsKnown' /\ OneCallPerProcess'
  BY DEF PidsKnown, OneCallPerProcess, Alive
<1>5. Roles'
  BY DEF Roles, Appending
<1>6. ASSUME NEW s \in Subscribers
      PROVE  inbox'[s] = IF s = t.pid[1] /\ Alive(t.pid) THEN inbox[s] + 1 ELSE inbox[s]
  BY <1>1 DEF NifTypeOK
<1>7. WatchCovers'
  <2> SUFFICES ASSUME NEW s \in Subscribers
               PROVE  /\ doing[s] \in {"read", "set_cursor", "idle"} =>
                             inbox'[s] > 0 \/ TasksOf(s)' # {}
                      /\ doing[s] = "idle" => \A u \in TasksOf(s)' : u.baseline <= seen[s]
    BY DEF WatchCovers
  <2>1. CASE s = t.pid[1] /\ Alive(t.pid)
    <3>1. inbox'[s] > 0 /\ TasksOf(s)' \subseteq TasksOf(s)
      BY <1>6, <2>1, TaskEnds DEF NifTypeOK
    <3> QED
      BY <3>1 DEF WatchCovers
  <2>2. CASE ~(s = t.pid[1] /\ Alive(t.pid))
    <3>1. inbox'[s] = inbox[s] /\ TasksOf(s)' = TasksOf(s)
      BY <1>6, <2>2, TaskEnds
    <3> QED
      BY <3>1 DEF WatchCovers
  <2> QED
    BY <2>1, <2>2
<1>8. WakesBounded'
  <2> SUFFICES ASSUME NEW s \in Subscribers
               PROVE  inbox'[s] + Cardinality(TasksOf(s)')
                        <= timeouts[s] + IF doing[s] \in {"get_cursor", "watch"} THEN 0 ELSE 1
    BY DEF WakesBounded
  <2>1. inbox'[s] + Cardinality(TasksOf(s)') = inbox[s] + Cardinality(TasksOf(s))
    <3>1. CASE s = t.pid[1] /\ Alive(t.pid)
      <4>1. t \in TasksOf(s) /\ TasksOf(s)' = TasksOf(s) \ {t} /\ inbox'[s] = inbox[s] + 1
        BY <1>6, <3>1, TaskEnds
      <4>2. /\ Cardinality(TasksOf(s) \ {t}) = Cardinality(TasksOf(s)) - 1
            /\ Cardinality(TasksOf(s)) \in Nat
        BY <4>1, TasksFinite, RemoveOne
      <4>3. inbox[s] \in Nat
        BY DEF NifTypeOK
      <4> QED
        BY <4>1, <4>2, <4>3
    <3>2. CASE ~(s = t.pid[1] /\ Alive(t.pid))
      <4>1. inbox'[s] = inbox[s] /\ TasksOf(s)' = TasksOf(s)
        BY <1>6, <3>2, TaskEnds
      <4> QED
        BY <4>1
    <3> QED
      BY <3>1, <3>2
  <2> QED
    BY <2>1 DEF WakesBounded
<1> QED
  BY <1>2, <1>3, <1>4, <1>5, <1>7, <1>8

LEMMA NotifyInv ==
    ASSUME NifInv, NEW t \in tasks, Notify(t)
    PROVE  NifInv'
<1> USE DEF NifInv
<1>1. /\ t.due = 0 /\ send(t) /\ tasks' = tasks \ {t}
      /\ UNCHANGED <<sentinel, cursor, life, doing, seen, calls, armed, now, asked, errors,
                     deaths, timeouts, failed>>
  BY DEF Notify, Fired, system
<1>2. /\ PidsKnown' /\ Roles' /\ OneCallPerProcess' /\ WatchCovers' /\ WakesBounded'
      /\ inbox' \in [Subscribers -> Nat]
      /\ IsFiniteSet(tasks') /\ tasks' \subseteq tasks
  BY <1>1, SendStep
<1>3. NifTypeOK'
  BY <1>1, <1>2 DEF NifTypeOK
<1>4. FailuresSpaced'
  <2> SUFFICES ASSUME NEW s \in Subscribers
               PROVE  failed[s] + Cardinality({u \in TasksOf(s)' : u.due \in 1..now})
                        <= now * (1 + timeouts[s])
    BY <1>1 DEF FailuresSpaced, slept
  <2>1. {u \in TasksOf(s)' : u.due \in 1..now} = {u \in TasksOf(s) : slept(u)}
    BY <1>1, TaskEnds DEF slept
  <2> QED
    BY <2>1 DEF FailuresSpaced
<1> QED
  BY <1>2, <1>3, <1>4

LEMMA NotifyFailedInv ==
    ASSUME NifInv, NEW t \in tasks, NotifyFailed(t)
    PROVE  NifInv'
<1> USE DEF NifInv
<1>1. /\ slept(t) /\ send(t) /\ tasks' = tasks \ {t}
      /\ failed' = IF Alive(t.pid) THEN [failed EXCEPT ![t.pid[1]] = @ + 1] ELSE failed
      /\ UNCHANGED <<sentinel, cursor, life, doing, seen, calls, armed, now, asked, errors,
                     deaths, timeouts>>
  BY DEF NotifyFailed, system
<1>2. /\ PidsKnown' /\ Roles' /\ OneCallPerProcess' /\ WatchCovers' /\ WakesBounded'
      /\ inbox' \in [Subscribers -> Nat]
      /\ IsFiniteSet(tasks') /\ tasks' \subseteq tasks
  BY <1>1, SendStep
<1>3. failed' \in [Subscribers -> Nat]
  BY <1>1, Pids DEF NifTypeOK
<1>4. NifTypeOK'
  BY <1>1, <1>2, <1>3 DEF NifTypeOK
<1>5. FailuresSpaced'
  <2> SUFFICES ASSUME NEW s \in Subscribers
               PROVE  failed'[s] + Cardinality({u \in TasksOf(s)' : u.due \in 1..now})
                        <= now * (1 + timeouts[s])
    BY <1>1 DEF FailuresSpaced, slept
  <2> DEFINE S == {u \in TasksOf(s) : slept(u)}
  <2>1. CASE s = t.pid[1] /\ Alive(t.pid)
    <3>1. t \in S /\ {u \in TasksOf(s)' : u.due \in 1..now} = S \ {t}
      BY <1>1, <2>1, TaskEnds DEF slept
    <3>2. failed'[s] = failed[s] + 1 /\ failed[s] \in Nat
      BY <1>1, <2>1 DEF NifTypeOK
    <3>3. Cardinality(S \ {t}) = Cardinality(S) - 1 /\ Cardinality(S) \in Nat
      <4> HIDE DEF S
      <4>1. IsFiniteSet(S)
        BY TasksFinite DEF S
      <4> QED
        BY <3>1, <4>1, RemoveOne
    <3>4. failed'[s] + Cardinality(S \ {t}) = failed[s] + Cardinality(S)
      BY <3>2, <3>3
    <3> QED
      BY <3>1, <3>4 DEF FailuresSpaced
  <2>2. CASE ~(s = t.pid[1] /\ Alive(t.pid))
    <3>1. {u \in TasksOf(s)' : u.due \in 1..now} = S
      BY <1>1, <2>2, TaskEnds DEF slept
    <3>2. failed'[s] = failed[s]
      BY <1>1, <2>2 DEF NifTypeOK
    <3> QED
      BY <3>1, <3>2 DEF FailuresSpaced
  <2> QED
    BY <2>1, <2>2
<1> QED
  BY <1>2, <1>4, <1>5

\* A watch fails: its task goes to sleep.
LEMMA WatchFailsInv ==
    ASSUME NifInv, NEW t \in tasks, WatchFails(t)
    PROVE  NifInv'
<1> USE DEF NifInv
<1>1. PICK u : u = [t EXCEPT !.due = now + 1]
  OBVIOUS
<1>2. /\ t.due = 0 /\ errors < MaxErrors /\ now < MaxTime
      /\ errors' = errors + 1
      /\ tasks' = (tasks \ {t}) \union {u}
      /\ UNCHANGED <<sentinel, cursor, life, doing, seen, inbox, calls, armed, now, asked,
                     deaths, timeouts, failed>>
  BY <1>1 DEF WatchFails, system
<1>3. now \in Nat /\ t \in WatchTask
  BY DEF NifTypeOK
<1>4. /\ u \in WatchTask /\ u.pid = t.pid /\ u.baseline = t.baseline /\ u.due = now + 1
  BY <1>1, <1>3 DEF WatchTask
<1>5. IsFiniteSet(tasks')
  <2>1. IsFiniteSet(tasks \ {t})
    BY RemoveOne DEF NifTypeOK
  <2> QED
    BY <1>2, <2>1, AddOne
<1>6. NifTypeOK'
  <2>1. \A v \in tasks' : v.baseline <= sentinel /\ v.due <= now + 1
    BY <1>2, <1>3, <1>4 DEF NifTypeOK
  <2>2. errors' \in 0..MaxErrors
    BY <1>2, NifAssumption DEF NifTypeOK
  <2> QED
    BY <1>2, <1>4, <1>5, <2>1, <2>2 DEF NifTypeOK
<1>7. PidsKnown'
  BY <1>2, <1>4 DEF PidsKnown
<1>8. Roles' /\ OneCallPerProcess'
  BY <1>2 DEF Roles, Appending, OneCallPerProcess, Alive
<1>9. ASSUME NEW s \in Subscribers
      PROVE  IF s = t.pid[1] /\ Alive(t.pid)
             THEN t \in TasksOf(s) /\ TasksOf(s)' = (TasksOf(s) \ {t}) \union {u}
             ELSE TasksOf(s)' = TasksOf(s)
  <2>1. t.pid = <<s, life[s]>> <=> s = t.pid[1] /\ Alive(t.pid)
    BY Pids DEF Alive
  <2> QED
    BY <1>2, <1>4, <2>1 DEF TasksOf
<1>10. ASSUME NEW s \in Subscribers
       PROVE  /\ TasksOf(s) # {} => TasksOf(s)' # {}
              /\ \A v \in TasksOf(s)' : \E w \in TasksOf(s) : v.baseline = w.baseline
              /\ {v \in TasksOf(s)' : v.due \in 1..now} = {v \in TasksOf(s) : slept(v)}
  BY <1>2, <1>3, <1>4, <1>9 DEF slept
<1>11. WatchCovers'
  <2> SUFFICES ASSUME NEW s \in Subscribers
               PROVE  /\ doing[s] \in {"read", "set_cursor", "idle"} =>
                             inbox[s] > 0 \/ TasksOf(s)' # {}
                      /\ doing[s] = "idle" => \A v \in TasksOf(s)' : v.baseline <= seen[s]
    BY <1>2 DEF WatchCovers
  <2> QED
    BY <1>10 DEF WatchCovers
<1>12. WakesBounded'
  <2> SUFFICES ASSUME NEW s \in Subscribers
               PROVE  inbox[s] + Cardinality(TasksOf(s)')
                        <= timeouts[s] + IF doing[s] \in {"get_cursor", "watch"} THEN 0 ELSE 1
    BY <1>2 DEF WakesBounded
  <2>1. /\ Cardinality(TasksOf(s)') \in Nat /\ Cardinality(TasksOf(s)) \in Nat
        /\ Cardinality(TasksOf(s)') <= Cardinality(TasksOf(s))
    <3>1. CASE s = t.pid[1] /\ Alive(t.pid)
      <4>1. t \in TasksOf(s) /\ TasksOf(s)' = (TasksOf(s) \ {t}) \union {u}
        BY <1>9, <3>1
      <4>2. /\ IsFiniteSet(TasksOf(s) \ {t})
            /\ Cardinality(TasksOf(s)) \in Nat
            /\ Cardinality(TasksOf(s) \ {t}) = Cardinality(TasksOf(s)) - 1
        BY <4>1, TasksFinite, RemoveOne
      <4>3. /\ Cardinality((TasksOf(s) \ {t}) \union {u}) \in Nat
            /\ Cardinality((TasksOf(s) \ {t}) \union {u}) <= Cardinality(TasksOf(s) \ {t}) + 1
        BY <4>2, AddOne
      <4> QED
        BY <4>1, <4>2, <4>3
    <3>2. CASE ~(s = t.pid[1] /\ Alive(t.pid))
      <4>1. TasksOf(s)' = TasksOf(s) /\ Cardinality(TasksOf(s)) \in Nat
        BY <1>9, <3>2, TasksFinite
      <4> QED
        BY <4>1
    <3> QED
      BY <3>1, <3>2
  <2>2. inbox[s] \in Nat /\ timeouts[s] \in Nat
    BY DEF NifTypeOK
  <2>3. inbox[s] + Cardinality(TasksOf(s))
          <= timeouts[s] + IF doing[s] \in {"get_cursor", "watch"} THEN 0 ELSE 1
    BY DEF WakesBounded
  <2> QED
    BY <2>1, <2>2, <2>3
<1>13. FailuresSpaced'
  <2> SUFFICES ASSUME NEW s \in Subscribers
               PROVE  failed[s] + Cardinality({v \in TasksOf(s)' : v.due \in 1..now})
                        <= now * (1 + timeouts[s])
    BY <1>2 DEF FailuresSpaced, slept
  <2> QED
    BY <1>10 DEF FailuresSpaced
<1> QED
  BY <1>6, <1>7, <1>8, <1>11, <1>12, <1>13

LEMMA AskInv ==
    ASSUME NifInv, NEW w \in Writers, Ask(w)
    PROVE  NifInv'
<1> USE DEF NifInv
<1>1. /\ doing[w] = "idle" /\ asked < MaxAppends
      /\ asked' = asked + 1
      /\ doing' = [doing EXCEPT ![w] = "append"]
      /\ UNCHANGED <<sentinel, cursor, life, seen, inbox, calls, tasks, armed, now, errors,
                     deaths, timeouts, failed>>
  BY DEF Ask, system, Goto
<1>2. w \in Processes /\ w \notin Subscribers
  BY NifAssumption DEF Processes
<1>3. NifTypeOK'
  <2>1. asked' \in 0..MaxAppends /\ sentinel' \in 0..asked'
    BY <1>1, NifAssumption DEF NifTypeOK
  <2>2. doing' \in [Processes -> Operation \union {"idle"}]
    BY <1>1 DEF NifTypeOK, Operation
  <2> QED
    BY <1>1, <2>1, <2>2 DEF NifTypeOK
<1>4. PidsKnown'
  BY <1>1 DEF PidsKnown
<1>5. Roles'
  <2>1. Appending' = Appending \union {w}
    BY <1>1, <1>2 DEF Appending, NifTypeOK, Processes
  <2>2. /\ IsFiniteSet(Appending \union {w})
        /\ Cardinality(Appending) \in Nat /\ Cardinality(Appending \union {w}) \in Nat
        /\ Cardinality(Appending \union {w}) <= Cardinality(Appending) + 1
    BY AddOne DEF Roles
  <2>3. sentinel + Cardinality(Appending \union {w}) <= asked + 1
    BY <2>2 DEF Roles, NifTypeOK
  <2>4. \A v \in Writers : doing'[v] \in {"idle", "append"}
    BY <1>1, <1>2 DEF Roles, NifTypeOK, Processes
  <2>5. \A s \in Subscribers : doing'[s] # "append"
    BY <1>1, <1>2 DEF Roles, NifTypeOK, Processes
  <2> QED
    BY <1>1, <2>1, <2>2, <2>3, <2>4, <2>5 DEF Roles
<1>6. OneCallPerProcess'
  <2>1. ASSUME NEW c \in calls, Alive(c.pid)
        PROVE  doing'[c.pid[1]] = c.op
    <3>1. doing[c.pid[1]] = c.op /\ c.op # "idle" /\ c.pid[1] \in Processes
      BY <2>1, Pids DEF OneCallPerProcess, Operation
    <3> QED
      BY <1>1, <3>1 DEF NifTypeOK
  <2> QED
    BY <1>1, <2>1 DEF OneCallPerProcess, Alive
<1>7. \A s \in Subscribers : doing'[s] = doing[s] /\ seen'[s] = seen[s]
  BY <1>1, <1>2 DEF NifTypeOK, Processes
<1> QED
  BY <1>1, <1>3, <1>4, <1>5, <1>6, <1>7, NoWakeStep

\* A subscriber stops waiting: what it waited for, or a message, goes to its
\* account.
LEMMA StopWaiting ==
    ASSUME NifInv, NEW s \in Subscribers, doing[s] = "idle",
           doing' = [doing EXCEPT ![s] = "watch"],
           UNCHANGED <<sentinel, cursor, life, seen, calls, tasks, armed, now, asked, errors,
                       deaths, failed>>,
           \A r \in Subscribers : r # s => inbox'[r] = inbox[r] /\ timeouts'[r] = timeouts[r],
           inbox'[s] \in Nat, timeouts'[s] \in Nat, timeouts'[s] >= timeouts[s],
           inbox'[s] + timeouts[s] + 1 = inbox[s] + timeouts'[s]
    PROVE  /\ doing' \in [Processes -> Operation \union {"idle"}]
           /\ PidsKnown' /\ Roles' /\ OneCallPerProcess'
           /\ WatchCovers' /\ WakesBounded' /\ FailuresSpaced'
<1> USE DEF NifInv
<1>1. /\ s \in Processes /\ s \notin Writers /\ doing' \in [Processes -> Operation \union {"idle"}]
      /\ \A p \in Processes : doing'[p] = IF p = s THEN "watch" ELSE doing[p]
  BY NifAssumption DEF Processes, NifTypeOK, Operation
<1>2. PidsKnown'
  BY DEF PidsKnown
<1>3. Roles'
  <2>1. \A w \in Writers : doing'[w] = doing[w]
    BY <1>1 DEF Processes
  <2>2. \A r \in Subscribers : doing'[r] # "append"
    BY <1>1 DEF Roles, Processes
  <2> QED
    BY <2>1, <2>2, SubscriberStep DEF Roles
<1>4. OneCallPerProcess'
  <2>1. ASSUME NEW c \in calls, Alive(c.pid)
        PROVE  doing'[c.pid[1]] = c.op
    <3>1. doing[c.pid[1]] = c.op /\ c.op # "idle" /\ c.pid[1] \in Processes
      BY <2>1, Pids DEF OneCallPerProcess, Operation
    <3> QED
      BY <1>1, <3>1
  <2> QED
    BY <2>1 DEF OneCallPerProcess, Alive
<1>5. \A r : TasksOf(r)' = TasksOf(r)
  BY DEF TasksOf
<1>6. WatchCovers'
  <2> SUFFICES ASSUME NEW r \in Subscribers
               PROVE  /\ doing'[r] \in {"read", "set_cursor", "idle"} =>
                             inbox'[r] > 0 \/ TasksOf(r) # {}
                      /\ doing'[r] = "idle" => \A t \in TasksOf(r) : t.baseline <= seen[r]
    BY <1>5 DEF WatchCovers
  <2> QED
    BY <1>1 DEF WatchCovers, Processes
<1>7. WakesBounded'
  <2> SUFFICES ASSUME NEW r \in Subscribers
               PROVE  inbox'[r] + Cardinality(TasksOf(r))
                        <= timeouts'[r] + IF doing'[r] \in {"get_cursor", "watch"} THEN 0 ELSE 1
    BY <1>5 DEF WakesBounded
  <2>1. CASE r = s
    <3>1. inbox[s] + Cardinality(TasksOf(s)) <= timeouts[s] + 1
      BY DEF WakesBounded
    <3>2. inbox[s] \in Nat /\ timeouts[s] \in Nat /\ Cardinality(TasksOf(s)) \in Nat
      <4>1. Cardinality(TasksOf(s)) \in Nat
        BY TasksFinite
      <4>2. inbox[s] \in Nat /\ timeouts[s] \in Nat
        BY DEF NifTypeOK
      <4> QED
        BY <4>1, <4>2
    <3>3. inbox'[s] + Cardinality(TasksOf(s)) <= timeouts'[s]
      BY <3>1, <3>2
    <3> QED
      BY <1>1, <2>1, <3>3
  <2>2. CASE r # s
    BY <1>1, <2>2 DEF WakesBounded, Processes
  <2> QED
    BY <2>1, <2>2
<1>8. FailuresSpaced'
  <2>0. \A r : {t \in TasksOf(r) : slept(t)}' = {t \in TasksOf(r) : slept(t)}
    BY <1>5 DEF slept
  <2> SUFFICES ASSUME NEW r \in Subscribers
               PROVE  failed[r] + Cardinality({t \in TasksOf(r) : slept(t)})
                        <= now * (1 + timeouts'[r])
    BY <2>0 DEF FailuresSpaced
  <2>1. failed[r] + Cardinality({t \in TasksOf(r) : slept(t)}) <= now * (1 + timeouts[r])
    BY DEF FailuresSpaced
  <2>2. /\ now \in Nat /\ timeouts[r] \in Nat /\ timeouts'[r] \in Nat /\ timeouts[r] <= timeouts'[r]
        /\ failed[r] \in Nat /\ Cardinality({t \in TasksOf(r) : slept(t)}) \in Nat
    BY TasksFinite DEF NifTypeOK
  <2>3. now * (1 + timeouts[r]) <= now * (1 + timeouts'[r])
    <3>1. \A a, b, m \in Nat : a <= b => m * (1 + a) <= m * (1 + b)
      OBVIOUS
    <3> QED
      BY <2>2, <3>1
  <2>4. now * (1 + timeouts[r]) \in Nat /\ now * (1 + timeouts'[r]) \in Nat
    BY <2>2
  <2> QED
    BY <2>1, <2>2, <2>3, <2>4
<1> QED
  BY <1>1, <1>2, <1>3, <1>4, <1>6, <1>7, <1>8

LEMMA ReceiveInv ==
    ASSUME NifInv, NEW s \in Subscribers, Receive(s)
    PROVE  NifInv'
<1> USE DEF NifInv
<1>1. /\ doing[s] = "idle" /\ inbox[s] > 0
      /\ inbox' = [inbox EXCEPT ![s] = @ - 1]
      /\ doing' = [doing EXCEPT ![s] = "watch"]
      /\ UNCHANGED <<sentinel, cursor, life, seen, calls, tasks, armed, now, asked, errors,
                     deaths, timeouts, failed>>
  BY DEF Receive, system, Goto
<1>2. /\ inbox' \in [Subscribers -> Nat] /\ inbox'[s] = inbox[s] - 1 /\ inbox[s] \in Nat
      /\ \A r \in Subscribers : r # s => inbox'[r] = inbox[r]
  BY <1>1 DEF NifTypeOK
<1>3. /\ timeouts[s] \in Nat /\ timeouts'[s] = timeouts[s] /\ timeouts'[s] >= timeouts[s]
      /\ inbox'[s] \in Nat /\ inbox'[s] + timeouts[s] + 1 = inbox[s] + timeouts'[s]
      /\ \A r \in Subscribers : r # s => inbox'[r] = inbox[r] /\ timeouts'[r] = timeouts[r]
  BY <1>1, <1>2 DEF NifTypeOK
<1>4. /\ doing' \in [Processes -> Operation \union {"idle"}]
      /\ PidsKnown' /\ Roles' /\ OneCallPerProcess'
      /\ WatchCovers' /\ WakesBounded' /\ FailuresSpaced'
  BY <1>1, <1>2, <1>3, StopWaiting
<1>5. NifTypeOK'
  BY <1>1, <1>2, <1>4 DEF NifTypeOK
<1> QED
  BY <1>4, <1>5

LEMMA TimeoutInv ==
    ASSUME NifInv, NEW s \in Subscribers, Timeout(s)
    PROVE  NifInv'
<1> USE DEF NifInv
<1>1. /\ doing[s] = "idle" /\ timeouts[s] < MaxTimeouts
      /\ timeouts' = [timeouts EXCEPT ![s] = @ + 1]
      /\ doing' = [doing EXCEPT ![s] = "watch"]
      /\ UNCHANGED <<sentinel, cursor, life, seen, inbox, calls, tasks, armed, now, asked, errors,
                     deaths, failed>>
  BY DEF Timeout, system, Goto
<1>2. /\ timeouts[s] \in Nat /\ timeouts'[s] = timeouts[s] + 1
      /\ \A r \in Subscribers : r # s => timeouts'[r] = timeouts[r]
      /\ timeouts' \in [Subscribers -> 0..MaxTimeouts]
  BY <1>1, NifAssumption DEF NifTypeOK
<1>3. /\ inbox[s] \in Nat /\ inbox'[s] \in Nat /\ timeouts'[s] \in Nat
      /\ timeouts'[s] >= timeouts[s]
      /\ inbox'[s] + timeouts[s] + 1 = inbox[s] + timeouts'[s]
      /\ \A r \in Subscribers : r # s => inbox'[r] = inbox[r] /\ timeouts'[r] = timeouts[r]
  BY <1>1, <1>2 DEF NifTypeOK
<1>4. /\ doing' \in [Processes -> Operation \union {"idle"}]
      /\ PidsKnown' /\ Roles' /\ OneCallPerProcess'
      /\ WatchCovers' /\ WakesBounded' /\ FailuresSpaced'
  BY <1>1, <1>2, <1>3, StopWaiting
<1>5. NifTypeOK'
  BY <1>1, <1>2, <1>4 DEF NifTypeOK
<1> QED
  BY <1>4, <1>5

\* A subscriber dies: its next life has no call, no task and no message.
LEMMA DieInv ==
    ASSUME NifInv, NEW s \in Subscribers, Die(s)
    PROVE  NifInv'
<1> USE DEF NifInv
<1>1. /\ deaths < MaxDeaths /\ deaths' = deaths + 1
      /\ life' = [life EXCEPT ![s] = @ + 1]
      /\ doing' = [doing EXCEPT ![s] = "get_cursor"]
      /\ seen' = [seen EXCEPT ![s] = 0] /\ inbox' = [inbox EXCEPT ![s] = 0]
      /\ armed' = [armed EXCEPT ![s] = 0] /\ timeouts' = [timeouts EXCEPT ![s] = 0]
      /\ failed' = [failed EXCEPT ![s] = 0]
      /\ UNCHANGED <<sentinel, cursor, calls, tasks, now, asked, errors>>
  BY DEF Die, system, Goto
<1>2. /\ s \in Processes /\ s \notin Writers
      /\ \A p \in Processes : life'[p] = IF p = s THEN life[p] + 1 ELSE life[p]
      /\ \A p \in Processes : doing'[p] = IF p = s THEN "get_cursor" ELSE doing[p]
      /\ deaths \in Nat
  BY <1>1, NifAssumption DEF Processes, NifTypeOK
<1>3. NifTypeOK'
  <2>1. deaths' \in 0..MaxDeaths
    BY <1>1, NifAssumption DEF NifTypeOK
  <2>2. life' \in [Processes -> 0..MaxDeaths]
    <3>1. life[s] \in Nat /\ life[s] <= deaths
      BY <1>2, Pids DEF PidsKnown
    <3>2. life[s] + 1 \in 0..MaxDeaths
      BY <1>1, <1>2, <3>1, NifAssumption
    <3> QED
      BY <1>1, <3>2 DEF NifTypeOK
  <2>3. /\ 0 \in 0..sentinel /\ seen' \in [Subscribers -> 0..sentinel]
        /\ timeouts' \in [Subscribers -> 0..MaxTimeouts]
    BY <1>1, NifAssumption DEF NifTypeOK
  <2>4. /\ inbox' \in [Subscribers -> Nat] /\ armed' \in [Subscribers -> Nat]
        /\ failed' \in [Subscribers -> Nat] /\ doing' \in [Processes -> Operation \union {"idle"}]
    BY <1>1 DEF NifTypeOK, Operation
  <2> QED
    BY <1>1, <2>1, <2>2, <2>3, <2>4 DEF NifTypeOK
<1>4. PidsKnown'
  <2>1. \A p \in Processes : life'[p] <= deaths'
    BY <1>1, <1>2, Pids DEF PidsKnown
  <2>2. \A p \in Processes : life[p] <= life'[p] /\ life'[p] \in Nat
    BY <1>2, Pids
  <2>3. \A c \in calls : c.pid[2] <= life'[c.pid[1]]
    BY <2>2, Pids DEF PidsKnown
  <2>4. \A t \in tasks : t.pid[2] <= life'[t.pid[1]]
    BY <2>2, Pids DEF PidsKnown
  <2>5. \A w \in Writers : life'[w] = 0
    BY <1>2 DEF PidsKnown, Processes
  <2> QED
    BY <1>1, <2>1, <2>3, <2>4, <2>5 DEF PidsKnown
<1>5. Roles'
  <2>1. \A w \in Writers : doing'[w] = doing[w]
    BY <1>2 DEF Processes
  <2>2. \A r \in Subscribers : doing'[r] # "append"
    BY <1>2 DEF Roles, Processes
  <2> QED
    BY <1>1, <2>1, <2>2, SubscriberStep DEF Roles
<1>6. OneCallPerProcess'
  <2>1. ASSUME NEW c \in calls, life'[c.pid[1]] = c.pid[2]
        PROVE  doing'[c.pid[1]] = c.op
    <3>1. c.pid[1] # s
      BY <1>2, <2>1, Pids DEF PidsKnown
    <3>2. Alive(c.pid) /\ doing'[c.pid[1]] = doing[c.pid[1]]
      BY <1>2, <2>1, <3>1, Pids DEF Alive
    <3> QED
      BY <3>2 DEF OneCallPerProcess
  <2> QED
    BY <1>1, <2>1 DEF OneCallPerProcess, Alive
<1>7. TasksOf(s)' = {} /\ \A r \in Subscribers : r # s => TasksOf(r)' = TasksOf(r)
  <2>1. ASSUME NEW t \in tasks PROVE t.pid # <<s, life'[s]>>
    <3>1. t.pid[2] <= life[t.pid[1]] /\ t.pid[2] \in Nat
      BY Pids DEF PidsKnown
    <3>2. life'[s] = life[s] + 1 /\ life[s] \in Nat
      BY <1>2, Pids
    <3>3. <<s, life'[s]>>[1] = s /\ <<s, life'[s]>>[2] = life'[s]
      OBVIOUS
    <3> QED
      BY <3>1, <3>2, <3>3
  <2>2. TasksOf(s)' = {}
    BY <1>1, <2>1 DEF TasksOf
  <2>3. \A r \in Subscribers : r # s => life'[r] = life[r]
    BY <1>2 DEF Processes
  <2> QED
    BY <1>1, <2>2, <2>3 DEF TasksOf
<1>8. /\ inbox'[s] = 0 /\ timeouts'[s] = 0 /\ failed'[s] = 0 /\ doing'[s] = "get_cursor"
      /\ \A r \in Subscribers : r # s =>
             /\ inbox'[r] = inbox[r] /\ timeouts'[r] = timeouts[r] /\ failed'[r] = failed[r]
             /\ doing'[r] = doing[r] /\ seen'[r] = seen[r]
  BY <1>1, <1>2 DEF NifTypeOK, Processes
<1>9. WatchCovers'
  <2> SUFFICES ASSUME NEW r \in Subscribers
               PROVE  /\ doing'[r] \in {"read", "set_cursor", "idle"} =>
                             inbox'[r] > 0 \/ TasksOf(r)' # {}
                      /\ doing'[r] = "idle" => \A t \in TasksOf(r)' : t.baseline <= seen'[r]
    BY DEF WatchCovers
  <2>1. CASE r = s
    BY <1>8, <2>1
  <2>2. CASE r # s
    BY <1>7, <1>8, <2>2 DEF WatchCovers
  <2> QED
    BY <2>1, <2>2
<1>10. WakesBounded'
  <2> SUFFICES ASSUME NEW r \in Subscribers
               PROVE  inbox'[r] + Cardinality(TasksOf(r)')
                        <= timeouts'[r] + IF doing'[r] \in {"get_cursor", "watch"} THEN 0 ELSE 1
    BY DEF WakesBounded
  <2>1. CASE r = s
    <3>1. Cardinality(TasksOf(s)') = 0
      BY <1>7, FS_EmptySet
    <3> QED
      BY <1>8, <2>1, <3>1
  <2>2. CASE r # s
    BY <1>7, <1>8, <2>2 DEF WakesBounded
  <2> QED
    BY <2>1, <2>2
<1>11. FailuresSpaced'
  <2> SUFFICES ASSUME NEW r \in Subscribers
               PROVE  failed'[r] + Cardinality({t \in TasksOf(r)' : t.due \in 1..now})
                        <= now * (1 + timeouts'[r])
    BY <1>1 DEF FailuresSpaced, slept
  <2>1. CASE r = s
    <3>1. {t \in TasksOf(r)' : t.due \in 1..now} = {}
      BY <1>7, <2>1
    <3>2. now * (1 + 0) = now /\ now >= 0
      BY DEF NifTypeOK
    <3> QED
      <4>1. Cardinality({t \in TasksOf(r)' : t.due \in 1..now}) = 0
        BY <3>1, FS_EmptySet
      <4>2. failed'[r] = 0 /\ timeouts'[r] = 0 /\ now \in Nat
        BY <1>8, <2>1 DEF NifTypeOK
      <4> QED
        BY <3>2, <4>1, <4>2
  <2>2. CASE r # s
    <3>1. {t \in TasksOf(r)' : t.due \in 1..now} = {t \in TasksOf(r) : slept(t)}
      BY <1>7, <2>2 DEF slept
    <3> QED
      BY <1>8, <2>2, <3>1 DEF FailuresSpaced
  <2> QED
    BY <2>1, <2>2
<1> QED
  BY <1>3, <1>4, <1>5, <1>6, <1>9, <1>10, <1>11

\* A unit of time passes: the tasks that have slept now are among those the
\* subscriber has, which are at most one more than the waits it gave up.
LEMMA TickInv ==
    ASSUME NifInv, Tick
    PROVE  NifInv'
<1> USE DEF NifInv
<1>1. /\ now < MaxTime /\ now' = now + 1
      /\ UNCHANGED <<sentinel, cursor, life, doing, seen, inbox, calls, tasks, armed, asked, errors,
                     deaths, timeouts, failed>>
  BY DEF Tick, system
<1>2. now \in Nat
  BY DEF NifTypeOK
<1>3. NifTypeOK'
  <2>1. now' \in 0..MaxTime
    BY <1>1, <1>2, NifAssumption
  <2>2. \A t \in tasks : t.due <= now' + 1
    BY <1>1, <1>2, Pids DEF NifTypeOK
  <2> QED
    BY <1>1, <2>1, <2>2 DEF NifTypeOK
<1>4. PidsKnown' /\ OneCallPerProcess'
  BY <1>1 DEF PidsKnown, OneCallPerProcess, Alive
<1>5. Roles'
  BY <1>1 DEF Roles, Appending
<1>6. \A s : TasksOf(s)' = TasksOf(s)
  BY <1>1 DEF TasksOf
<1>7. WatchCovers'
  BY <1>1, <1>6 DEF WatchCovers
<1>8. WakesBounded'
  BY <1>1, <1>6 DEF WakesBounded
<1>9. FailuresSpaced'
  <2> SUFFICES ASSUME NEW s \in Subscribers
               PROVE  failed[s] + Cardinality({t \in TasksOf(s) : t.due \in 1..(now + 1)})
                        <= (now + 1) * (1 + timeouts[s])
    BY <1>1, <1>6 DEF FailuresSpaced, slept
  <2> DEFINE Old == {t \in TasksOf(s) : slept(t)}
             New == {t \in TasksOf(s) : t.due = now + 1}
  <2>1. {t \in TasksOf(s) : t.due \in 1..(now + 1)} = Old \union New
    <3>1. \A t \in TasksOf(s) : t.due \in Nat
      BY Pids DEF TasksOf
    <3> QED
      BY <1>2, <3>1 DEF slept
  <2>2. /\ IsFiniteSet(Old) /\ IsFiniteSet(New) /\ Old \intersect New = {}
        /\ Cardinality(Old) \in Nat /\ Cardinality(New) \in Nat
        /\ Cardinality(New) <= Cardinality(TasksOf(s))
        /\ Cardinality(TasksOf(s)) \in Nat
    <3>1. IsFiniteSet(TasksOf(s)) /\ New \in SUBSET TasksOf(s)
      BY TasksFinite
    <3>2. /\ IsFiniteSet(New) /\ Cardinality(TasksOf(s)) \in Nat /\ Cardinality(New) \in Nat
          /\ Cardinality(New) <= Cardinality(TasksOf(s))
      BY <3>1, PartOf
    <3>3. IsFiniteSet(Old) /\ Cardinality(Old) \in Nat
      BY TasksFinite
    <3>4. Old \intersect New = {}
      BY <1>2 DEF slept
    <3> QED
      BY <3>2, <3>3, <3>4
  <2>3. Cardinality(Old \union New) = Cardinality(Old) + Cardinality(New)
    <3> HIDE DEF Old, New
    <3>1. Cardinality(Old \intersect New) = 0
      BY <2>2, FS_EmptySet
    <3>2. Cardinality(Old \union New) =
            Cardinality(Old) + Cardinality(New) - Cardinality(Old \intersect New)
      BY <2>2, FS_Union
    <3> QED
      BY <2>2, <3>1, <3>2
  <2>4. Cardinality(New) <= 1 + timeouts[s]
    <3>1. inbox[s] \in Nat /\ timeouts[s] \in Nat
      BY DEF NifTypeOK
    <3>2. inbox[s] + Cardinality(TasksOf(s)) <= timeouts[s] + 1
      BY <2>2, <3>1 DEF WakesBounded
    <3> QED
      BY <2>2, <3>1, <3>2
  <2>5. failed[s] + Cardinality(Old) <= now * (1 + timeouts[s])
    BY DEF FailuresSpaced
  <2>6. /\ (now + 1) * (1 + timeouts[s]) = now * (1 + timeouts[s]) + (1 + timeouts[s])
        /\ now * (1 + timeouts[s]) \in Nat /\ timeouts[s] \in Nat /\ failed[s] \in Nat
    <3>1. timeouts[s] \in Nat /\ failed[s] \in Nat
      BY DEF NifTypeOK
    <3>2. \A m, b \in Nat : (m + 1) * b = m * b + b /\ m * b \in Nat
      OBVIOUS
    <3> QED
      BY <1>2, <3>1, <3>2
  <2> HIDE DEF Old, New
  <2>7. failed[s] + Cardinality(Old \union New) <= (now + 1) * (1 + timeouts[s])
    BY <2>2, <2>3, <2>4, <2>5, <2>6
  <2> QED
    BY <2>1, <2>7
<1> QED
  BY <1>3, <1>4, <1>5, <1>7, <1>8, <1>9

(***************************************************************************)
(* The theorems.                                                           *)
(***************************************************************************)
\* Every step keeps the invariant.
LEMMA NextInv == NifInv /\ [Next]_vars => NifInv'
<1> SUFFICES ASSUME NifInv, [Next]_vars PROVE NifInv'
  OBVIOUS
<1>1. CASE UNCHANGED vars
  <2>1. UNCHANGED <<sentinel, cursor, life, doing, seen, inbox, calls, tasks, armed, now,
                    asked, errors, deaths, timeouts, failed>>
    BY <1>1 DEF vars, system
  <2>2. \A s : TasksOf(s)' = TasksOf(s)
    BY <2>1 DEF TasksOf
  <2>3. NifTypeOK' /\ PidsKnown'
    BY <2>1 DEF NifInv, NifTypeOK, PidsKnown
  <2>4. Roles' /\ OneCallPerProcess'
    BY <2>1 DEF NifInv, Roles, Appending, OneCallPerProcess, Alive
  <2> QED
    BY <2>1, <2>3, <2>4, NoWakeStep DEF NifInv
<1>2. ASSUME NEW p \in Processes, Enter(p) PROVE NifInv'
  BY <1>2, EnterInv
<1>3. ASSUME NEW p \in Processes, Call(p) PROVE NifInv'
  <2>1. PICK c \in calls : Finish(c) \/ ReturnError(c)
    BY <1>3 DEF Call
  <2>2. NifTypeOK
    BY DEF NifInv
  <2>3. CASE dcb_store_append(c)
    BY <2>2, <2>3, AppendInv DEF dcb_store_append, NifTypeOK
  <2>4. CASE dcb_store_set_cursor(c)
    BY <2>2, <2>4, SetCursorInv DEF dcb_store_set_cursor, NifTypeOK
  <2> QED
    BY <2>1, <2>3, <2>4, ErrorInv, GetCursorInv, ReadInv, WatchInv DEF Finish
<1>4. ASSUME NEW w \in Writers, Ask(w) PROVE NifInv'
  BY <1>4, AskInv
<1>5. ASSUME NEW s \in Subscribers, TaskOf(s) PROVE NifInv'
  BY <1>5, NotifyInv, WatchFailsInv, NotifyFailedInv DEF TaskOf, Task
<1>6. ASSUME NEW s \in Subscribers, Receive(s) \/ Timeout(s) \/ Die(s) PROVE NifInv'
  BY <1>6, ReceiveInv, TimeoutInv, DieInv
<1>7. CASE Tick
  BY <1>7, TickInv
<1> QED
  BY <1>1, <1>2, <1>3, <1>4, <1>5, <1>6, <1>7 DEF Next

\* The bookkeeping of the binding: one call per process, a task or a message
\* for every wait, one wake-up per watch, one failure per back-off.
THEOREM NifInvariant == Spec => []NifInv
<1>1. Init => NifInv
  BY InitInv
<1>2. NifInv /\ [Next]_vars => NifInv'
  BY NextInv
<1> QED
  BY <1>1, <1>2, PTL DEF Spec

\* Every variable has its type, calls never outnumber the threads, and
\* cursors are never ahead of the store.
THEOREM NifTypeCorrect == Spec => []NifTypeOK
<1>1. NifInv => NifTypeOK
  BY DEF NifInv
<1> QED
  BY <1>1, NifInvariant, PTL

\* No wake-up is lost: a subscriber that waits and is behind has a message or
\* a task that is about to send one.
THEOREM WakesNotLost == Spec => []WakeOnItsWay
<1>1. NifInv => WakeOnItsWay
  <2> SUFFICES ASSUME NifInv, NEW s \in Subscribers, doing[s] = "idle", seen[s] # sentinel,
                      ~(inbox[s] > 0)
               PROVE  \E t \in TasksOf(s) : Fired(t) \/ t.due > 0
    BY DEF WakeOnItsWay
  <2>1. PICK t \in TasksOf(s) : t.baseline <= seen[s]
    BY DEF NifInv, WatchCovers
  <2>2. t \in tasks /\ t.baseline \in Nat /\ t.due \in Nat
    BY Pids DEF TasksOf, NifInv
  <2>3. seen[s] \in 0..sentinel /\ sentinel \in Nat
    BY DEF NifInv, NifTypeOK
  <2>4. t.baseline # sentinel
    BY <2>1, <2>2, <2>3
  <2> QED
    BY <2>1, <2>2, <2>4 DEF Fired
<1> QED
  BY <1>1, NifInvariant, PTL

\* One message per watch: mailboxes do not fill.
THEOREM WakesCounted == Spec => []OneWakePerWatch
<1>1. NifInv => OneWakePerWatch
  <2> SUFFICES ASSUME NifInv, NEW s \in Subscribers
               PROVE  inbox[s] + Cardinality(TasksOf(s)) <= 1 + timeouts[s]
    BY DEF OneWakePerWatch
  <2>1. inbox[s] \in Nat /\ timeouts[s] \in Nat
    BY DEF NifInv, NifTypeOK
  <2>2. Cardinality(TasksOf(s)) \in Nat
    BY TasksFinite DEF NifInv
  <2> QED
    BY <2>1, <2>2 DEF NifInv, WakesBounded
<1> QED
  BY <1>1, NifInvariant, PTL

\* Watches that fail persistently wake a subscriber once per back-off and
\* watch outstanding, not in a hot loop.
THEOREM FailuresThrottled == Spec => []NoHotLoop
<1>1. NifInv => NoHotLoop
  <2> SUFFICES ASSUME NifInv, NEW s \in Subscribers
               PROVE  failed[s] <= now * (1 + timeouts[s])
    BY DEF NoHotLoop
  <2>1. failed[s] \in Nat /\ Cardinality({t \in TasksOf(s) : slept(t)}) \in Nat
    BY TasksFinite DEF NifInv, NifTypeOK
  <2>2. now * (1 + timeouts[s]) \in Nat
    BY DEF NifInv, NifTypeOK
  <2> QED
    BY <2>1, <2>2 DEF NifInv, FailuresSpaced
<1> QED
  BY <1>1, NifInvariant, PTL
=============================================================================
