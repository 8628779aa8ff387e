--------------------------- MODULE GrowOnlyValueSet ---------------------------
(***************************************************************************)
(* The grow-only value set of engine/grow-only-value-set-component-        *)
(* definition.ts (pointer events, trigger results, ...), for one component *)
(* of one entity held by several engines.                                  *)
(*                                                                         *)
(* A value carries its own timestamp; a row keeps the newest maxElements   *)
(* values in timestamp order.  Values added locally are applied at once    *)
(* and queued; getCrdtUpdates drains the queue into one APPEND_VALUE per   *)
(* value.  Each message reaches each other engine once, in any order.      *)
(*                                                                         *)
(* log is what a row was built from since the entity was last deleted; no  *)
(* code keeps it.                                                          *)
(***************************************************************************)
EXTENDS Integers, FiniteSets, Sequences, SequencesExt

CONSTANTS
  Engines,
  Elements,     \* values: records with an id and a timestamp
  maxElements,
  MaxDeletions  \* bound on entity deletions, for model checking

ValueSetAssumption ==
  /\ maxElements \in Nat \ {0}
  /\ MaxDeletions \in Nat
  /\ \A v \in Elements : v.timestamp \in Nat

VARIABLES
  raw,             \* the row of each engine
  queuedCommands,  \* values added and not flushed yet, per engine
  inbox,           \* APPEND_VALUE messages on their way, a bag per engine
  added,           \* values some engine has added
  log,             \* values applied since the last deletion, per engine
  deletions

vars == <<raw, queuedCommands, inbox, added, log, deletions>>

Init ==
  /\ raw = [e \in Engines |-> <<>>]
  /\ queuedCommands = [e \in Engines |-> <<>>]
  /\ inbox = [e \in Engines |-> [v \in Elements |-> 0]]
  /\ added = {}
  /\ log = [e \in Engines |-> <<>>]
  /\ deletions = 0
-----------------------------------------------------------------------------
timestampFunction(v) == v.timestamp

(* Array.prototype.sort by timestamp is stable: an element moves before    *)
(* those with a later timestamp and keeps its place among equals.          *)
StableSort(s) ==
  LET Rank(i) == Cardinality({j \in DOMAIN s :
                   \/ timestampFunction(s[j]) < timestampFunction(s[i])
                   \/ timestampFunction(s[j]) = timestampFunction(s[i]) /\ j <= i})
  IN  [k \in DOMAIN s |-> s[CHOOSE i \in DOMAIN s : Rank(i) = k]]

(* Faulty variant of shouldSort.                                           *)
shouldSortNever(row) == FALSE

shouldSort(row) ==
  /\ Len(row) > 1
  /\ timestampFunction(row[Len(row)]) <= timestampFunction(row[Len(row) - 1])

(* Faulty variants of KeepNewest.                                          *)
KeepAll(row) == row

KeepFirst(row) == SubSeq(row, 1, IF Len(row) > maxElements THEN maxElements ELSE Len(row))

KeepNewest(row) ==
  SubSeq(row, IF Len(row) > maxElements THEN Len(row) - maxElements + 1 ELSE 1, Len(row))

gotUpdated(row) == KeepNewest(IF shouldSort(row) THEN StableSort(row) ELSE row)

append(e, v) ==
  /\ raw' = [raw EXCEPT ![e] = gotUpdated(Append(@, v))]
  /\ log' = [log EXCEPT ![e] = Append(@, v)]

addValue(e, v) ==
  /\ v \notin added
  /\ append(e, v)
  /\ queuedCommands' = [queuedCommands EXCEPT ![e] = Append(@, v)]
  /\ added' = added \cup {v}
  /\ UNCHANGED <<inbox, deletions>>

Occurrences(v, s) == Cardinality({i \in DOMAIN s : s[i] = v})

Deliver(e, commands) ==
  inbox' = [f \in Engines |->
              IF f = e THEN inbox[f]
              ELSE [v \in Elements |-> inbox[f][v] + Occurrences(v, commands)]]

(* Faulty variant of getCrdtUpdates.                                       *)
getCrdtUpdatesKeepsQueue(e) ==
  /\ queuedCommands[e] # <<>>
  /\ Deliver(e, queuedCommands[e])
  /\ UNCHANGED <<raw, queuedCommands, added, log, deletions>>

getCrdtUpdates(e) ==
  /\ queuedCommands[e] # <<>>
  /\ Deliver(e, queuedCommands[e])
  /\ queuedCommands' = [queuedCommands EXCEPT ![e] = <<>>]
  /\ UNCHANGED <<raw, added, log, deletions>>

updateFromCrdt(e, v) ==
  /\ inbox[e][v] > 0
  /\ append(e, v)
  /\ inbox' = [inbox EXCEPT ![e][v] = @ - 1]
  /\ UNCHANGED <<queuedCommands, added, deletions>>

(* The queue of commands survives the deletion of the entity.              *)
entityDeleted(e) ==
  /\ deletions < MaxDeletions
  /\ deletions' = deletions + 1
  /\ raw' = [raw EXCEPT ![e] = <<>>]
  /\ log' = [log EXCEPT ![e] = <<>>]
  /\ UNCHANGED <<queuedCommands, inbox, added>>

Next == \E e \in Engines :
  \/ \E v \in Elements : addValue(e, v)
  \/ getCrdtUpdates(e)
  \/ \E v \in Elements : updateFromCrdt(e, v)
  \/ entityDeleted(e)

Spec == Init /\ [][Next]_vars
-----------------------------------------------------------------------------
(* Type invariant: rows, queues and messages hold values; rows are bounded.*)
TypeOK ==
  /\ \A e \in Engines :
       /\ Len(raw[e]) <= maxElements /\ ToSet(raw[e]) \subseteq Elements
       /\ ToSet(queuedCommands[e]) \subseteq added
       /\ inbox[e] \in [Elements -> Nat]
  /\ added \subseteq Elements
  /\ deletions \in 0 .. MaxDeletions

LaterThan(s, i) ==
  Cardinality({j \in DOMAIN s :
    \/ timestampFunction(s[j]) > timestampFunction(s[i])
    \/ timestampFunction(s[j]) = timestampFunction(s[i]) /\ j > i})

(* Sorting lazily and trimming one append at a time computes the same row  *)
(* as ranking everything the row was built from and keeping the newest     *)
(* maxElements in order: a late value never displaces a newer one.         *)
RowIsNewestOfLog ==
  \A e \in Engines :
    /\ Len(raw[e]) = IF Len(log[e]) < maxElements THEN Len(log[e]) ELSE maxElements
    /\ \A k \in DOMAIN raw[e] : \E i \in DOMAIN log[e] :
         raw[e][k] = log[e][i] /\ LaterThan(log[e], i) = Len(raw[e]) - k

DistinctTimestamps(s) ==
  \A i, j \in DOMAIN s : timestampFunction(s[i]) = timestampFunction(s[j]) => i = j

(* Two engines that applied the same values since the entity was deleted   *)
(* hold the same row, in the same order, whatever the order of arrival -   *)
(* as long as no two of the values share a timestamp.                      *)
RowsConverge ==
  \A e, f \in Engines :
    /\ DistinctTimestamps(log[e])
    /\ ToSet(log[e]) = ToSet(log[f])
    /\ Len(log[e]) = Len(log[f])
    => raw[e] = raw[f]

(* A value is applied once per engine: the flush empties the queue before  *)
(* the messages leave, so no value is announced twice.                     *)
AppliedOnce ==
  \A e \in Engines : \A v \in Elements : Occurrences(v, log[e]) + inbox[e][v] <= 1
=============================================================================
