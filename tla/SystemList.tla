----------------------------- MODULE SystemList -----------------------------
(***************************************************************************)
(* SystemContainer of ecs/src/engine/systems.ts, the loop of update        *)
(* (engine/index.ts) that walks it, and the task queue of systems/async-   *)
(* task.ts, which is one of the systems.                                   *)
(*                                                                         *)
(* The loop walks the live array by index.  A system may add and remove    *)
(* systems while it runs, throw, or queue tasks.  What a tick does after   *)
(* the systems (release the removed entities, send) waits for a tick that  *)
(* gets there.                                                             *)
(*                                                                         *)
(* Ghosts: ran (how often each system ran in the tick), atStart (those in  *)
(* the array at its start and since), before (removals and additions of    *)
(* the tick at or before the one that runs), started (of each task).       *)
(***************************************************************************)
EXTENDS Integers, FiniteSets, Sequences, Functions

CONSTANTS
  Systems,
  Priority,        \* of each system
  TaskSystem,      \* the system that starts the tasks, one of Systems
  Tasks,
  MaxListCalls     \* bound on the calls of the scene, for model checking

ListAssumption == TaskSystem \in Systems

VARIABLES list

vars == <<list>>

ListInit ==
  list = [systems |-> <<TaskSystem>>,
          cursor  |-> 0,             \* 0 outside the loop
          tasks   |-> <<>>,
          pending |-> FALSE,         \* an entity waits for its release
          released |-> FALSE,        \* by the last tick
          ran     |-> [s \in Systems |-> 0],
          atStart |-> {},
          removedBefore |-> 0, addedBefore |-> 0,
          started |-> [t \in Tasks |-> 0],
          calls   |-> 0]

Init == ListInit

(* Type invariant: a system is in the array once, sorted by priority.      *)
TypeOK ==
  /\ \A i, j \in DOMAIN list.systems : i < j =>
       /\ list.systems[i] # list.systems[j]
       /\ Priority[list.systems[i]] >= Priority[list.systems[j]]
  /\ list.cursor \in 0 .. Cardinality(Systems)
  /\ Range(list.tasks) \subseteq Tasks
-----------------------------------------------------------------------------
Running == list.cursor # 0
(* Where Array.sort, which is stable, leaves a system pushed: after those  *)
(* of its priority.                                                        *)
Place(systems, s) ==
  1 + Cardinality({i \in DOMAIN systems : Priority[systems[i]] >= Priority[s]})

(* Faulty variant: the systems of the same priority are put behind.        *)
InsertedFirst(systems, s) == <<s>> \o systems

Inserted(systems, s) ==
  LET p == Place(systems, s)
  IN  SubSeq(systems, 1, p - 1) \o <<s>> \o SubSeq(systems, p, Len(systems))

(* add; of a system that is there it throws and changes nothing.           *)
Added(l, s) ==
  [l EXCEPT !.systems = Inserted(@, s),
            !.addedBefore = IF Place(l.systems, s) <= l.cursor THEN @ + 1 ELSE @]

(* remove, by function or by name: the one at an index.                    *)
Removed(l, i) ==
  [l EXCEPT !.systems = SubSeq(@, 1, i - 1) \o SubSeq(@, i + 1, Len(@)),
            !.atStart = @ \ {l.systems[i]},
            !.removedBefore = IF i <= l.cursor THEN @ + 1 ELSE @]

Call(l) ==
  /\ list.calls < MaxListCalls
  /\ list' = [l EXCEPT !.calls = @ + 1]

addSystem(s)    == s \notin Range(list.systems) /\ Call(Added(list, s))
removeSystem(i) == Call(Removed(list, i))

(* executeTask: a task of the scene, queued by a system or in between.     *)
executeTask(t) ==
  /\ list.started[t] = 0 /\ t \notin Range(list.tasks)
  /\ Call([list EXCEPT !.tasks = Append(@, t)])

removeEntity == Call([list EXCEPT !.pending = TRUE])

(* The loop runs the system at the cursor; the task system starts what was *)
(* queued.  Calls made while it runs are the actions above.                *)
RunAt(l, i) ==
  LET s    == l.systems[i]
      once == [l EXCEPT !.cursor = i, !.ran[s] = @ + 1]
  IN  IF s # TaskSystem THEN once
      ELSE [once EXCEPT !.tasks = <<>>,
                        !.started = [t \in Tasks |->
                           IF t \in Range(l.tasks) THEN @[t] + 1 ELSE @[t]]]

TickStart ==
  /\ ~Running /\ list.systems # <<>>
  /\ list' = RunAt([list EXCEPT !.ran = [s \in Systems |-> 0], !.released = FALSE,
                                !.atStart = Range(list.systems),
                                !.removedBefore = 0, !.addedBefore = 0], 1)

(* The next index of the live array.                                       *)
TickStep ==
  /\ Running /\ list.cursor < Len(list.systems)
  /\ list' = RunAt(list, list.cursor + 1)

(* releaseRemovedEntities and sendMessages.                                *)
TickEnd ==
  /\ Running /\ list.cursor >= Len(list.systems)
  /\ list' = [list EXCEPT !.cursor = 0, !.pending = FALSE, !.released = TRUE]

(* A system that throws, or returns a promise, ends update there.          *)
Throw ==
  /\ Running
  /\ Call([list EXCEPT !.cursor = 0])

Next ==
  \/ TickStart \/ TickStep \/ TickEnd \/ Throw \/ removeEntity
  \/ \E s \in Systems : addSystem(s)
  \/ \E i \in DOMAIN list.systems : removeSystem(i)
  \/ \E t \in Tasks : executeTask(t)

Spec == Init /\ [][Next]_vars
-----------------------------------------------------------------------------
(* When the loop has gone through, of the systems that were in the array   *)
(* all along, as many were skipped as calls removed a system at or before  *)
(* the running one, at most, and as many ran again as calls added one      *)
(* there.  So a tick without such a call runs every system once.           *)
SkipsOnlyByRemoval ==
  list.released /\ ~Running =>
    /\ Cardinality({s \in list.atStart : list.ran[s] = 0}) <= list.removedBefore
    /\ Cardinality(UNION {{s} \X (2 .. list.ran[s]) : s \in list.atStart}) <= list.addedBefore

(* A task is started once.                                                 *)
HeardAtMostOnce == \A t \in Tasks : list.started[t] <= 1
=============================================================================
