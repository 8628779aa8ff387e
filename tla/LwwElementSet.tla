---------------------------- MODULE LwwElementSet ----------------------------
(***************************************************************************)
(* The last-write-wins element set of engine/lww-element-set-component-    *)
(* definition.ts, for one component of one entity held by several engines  *)
(* (scene instances and renderers) that exchange PUT_COMPONENT and         *)
(* DELETE_COMPONENT messages.                                              *)
(*                                                                         *)
(* A replica is the entity's entry in the four closures' maps: data,       *)
(* timestamps, dirtyIterator and lastSentData.  It processes its inbox     *)
(* at the start of a tick, runs its systems, and flushes at the end        *)
(* (Engine.update).  The medium is the set of all messages ever sent: a    *)
(* replica may receive any of them, in any order, again and again, or      *)
(* never.  seen is what it has processed or sent; no code reads it.        *)
(*                                                                         *)
(* A serialized value is a positive number, ordered as dataCompare orders  *)
(* byte arrays; None stands for the absent entry, which compares below     *)
(* every value (null in dataCompare).  A timestamp of 0 is an absent one.  *)
(***************************************************************************)
EXTENDS Integers, FiniteSets, TLC

CONSTANTS
  Replicas,
  Values,              \* serialized values, in dataCompare order
  MaxTimestamp,        \* bound on the Lamport clock, for model checking
  WritesBetweenTicks,  \* async callbacks write outside Engine.update
  SilentDeletes,       \* deleteFrom(entity, false) is called
  Snapshots            \* newcomers are sent state dumps

ASSUME LwwAssumption ==
  /\ Values \subseteq Nat \ {0}
  /\ MaxTimestamp \in Nat
  /\ WritesBetweenTicks \in BOOLEAN
  /\ SilentDeletes \in BOOLEAN
  /\ Snapshots \in BOOLEAN

None == 0

VARIABLES
  data, timestamps, dirty, lastSentData,  \* the maps, per replica
  phase,                                  \* "receive" or "systems", per replica
  sent, seen                              \* messages sent by all, seen by each

replica == <<data, timestamps, dirty, lastSentData>>
vars == <<data, timestamps, dirty, lastSentData, phase, sent, seen>>

(* A message with data None is a DELETE_COMPONENT, any other one a         *)
(* PUT_COMPONENT.                                                          *)
Message == [timestamp : Nat \ {0}, data : Values \cup {None}]

Init ==
  /\ data = [r \in Replicas |-> None]
  /\ timestamps = [r \in Replicas |-> 0]
  /\ dirty = [r \in Replicas |-> FALSE]
  /\ lastSentData = [r \in Replicas |-> None]
  /\ phase = [r \in Replicas |-> "receive"]
  /\ sent = {}
  /\ seen = [r \in Replicas |-> {}]
-----------------------------------------------------------------------------
(* Local operations.  They run inside a system, or at any moment when the  *)
(* scene writes from asynchronous callbacks.                               *)
MayWrite(r) == WritesBetweenTicks \/ phase[r] = "systems"

Write(r, v) ==
  /\ data' = [data EXCEPT ![r] = v]
  /\ dirty' = [dirty EXCEPT ![r] = TRUE]
  /\ UNCHANGED <<timestamps, phase, sent, seen>>

create(r, v) ==
  /\ MayWrite(r)
  /\ data[r] = None
  /\ Write(r, v)
  /\ UNCHANGED lastSentData

createOrReplace(r, v) ==
  /\ MayWrite(r)
  /\ Write(r, v)
  /\ lastSentData' = [lastSentData EXCEPT ![r] = None]

(* getMutable, getMutableOrNull and getOrCreateMutable of a present value, *)
(* followed by the caller's writes; v may be the value it already had.     *)
getMutable(r, v) ==
  /\ MayWrite(r)
  /\ data[r] # None
  /\ Write(r, v)
  /\ UNCHANGED lastSentData

(* deleteFrom and entityDeleted.                                           *)
deleteFrom(r, markAsDirty) ==
  /\ MayWrite(r)
  /\ markAsDirty \/ SilentDeletes
  /\ data' = [data EXCEPT ![r] = None]
  /\ dirty' = [dirty EXCEPT ![r] = @ \/ (markAsDirty /\ data[r] # None)]
  /\ lastSentData' = [lastSentData EXCEPT ![r] = None]
  /\ UNCHANGED <<timestamps, phase, sent, seen>>
-----------------------------------------------------------------------------
(* Faulty variant of AcceptedBy.                                           *)
RuleKeepsTies(r, m) == m.timestamp > timestamps[r]

(* crdtRuleForCurrentState: the higher timestamp wins, then the greater    *)
(* data.  The replica's current data is compared, flushed or not.          *)
AcceptedBy(r, m) ==
  \/ m.timestamp > timestamps[r]
  \/ m.timestamp = timestamps[r] /\ m.data > data[r]

(* Faulty variant of updateFromCrdt.                                       *)
ReceiveKeepsLastSent(r, m) ==
  /\ phase[r] = "receive"
  /\ m \in sent
  /\ seen' = [seen EXCEPT ![r] = @ \cup {m}]
  /\ IF AcceptedBy(r, m)
     THEN /\ timestamps' = [timestamps EXCEPT ![r] = m.timestamp]
          /\ data' = [data EXCEPT ![r] = m.data]
     ELSE UNCHANGED <<timestamps, data>>
  /\ UNCHANGED <<dirty, lastSentData, phase, sent>>

(* updateFromCrdt.  A losing message is answered with a correction that    *)
(* receiveMessages drops, so it changes nothing anywhere.                  *)
updateFromCrdt(r, m) ==
  /\ phase[r] = "receive"
  /\ m \in sent
  /\ seen' = [seen EXCEPT ![r] = @ \cup {m}]
  /\ IF AcceptedBy(r, m)
     THEN /\ timestamps' = [timestamps EXCEPT ![r] = m.timestamp]
          /\ data' = [data EXCEPT ![r] = m.data]
          /\ lastSentData' = [lastSentData EXCEPT ![r] = m.data]
     ELSE UNCHANGED <<timestamps, data, lastSentData>>
  /\ UNCHANGED <<dirty, phase, sent>>

(* The inbox is drained; the systems run.                                  *)
RunSystems(r) ==
  /\ phase[r] = "receive"
  /\ phase' = [phase EXCEPT ![r] = "systems"]
  /\ UNCHANGED <<data, timestamps, dirty, lastSentData, sent, seen>>

(* A dirty entry is sent unless it serializes to the bytes last sent or    *)
(* accepted.  A dirty absent entry is always sent, as a deletion.          *)
Suppressed(r) == data[r] # None /\ data[r] = lastSentData[r]

(* Faulty variant of NextTimestamp.                                        *)
NotIncremented(r) == timestamps[r]

(* incrementTimestamp.                                                     *)
NextTimestamp(r) == timestamps[r] + 1

(* getCrdtUpdates, drained by sendMessages at the end of the tick.         *)
getCrdtUpdates(r) ==
  /\ phase[r] = "systems"
  /\ phase' = [phase EXCEPT ![r] = "receive"]
  /\ dirty' = [dirty EXCEPT ![r] = FALSE]
  /\ IF dirty[r] /\ ~Suppressed(r)
     THEN LET m == [timestamp |-> NextTimestamp(r), data |-> data[r]]
          IN  /\ m.timestamp <= MaxTimestamp
              /\ timestamps' = [timestamps EXCEPT ![r] = m.timestamp]
              /\ lastSentData' = [lastSentData EXCEPT ![r] = data[r]]
              /\ sent' = sent \cup {m}
              /\ seen' = [seen EXCEPT ![r] = @ \cup {m}]
     ELSE UNCHANGED <<timestamps, lastSentData, sent, seen>>
  /\ UNCHANGED data

(* dumpCrdtStateToBuffer: a state snapshot for a newcomer, taken between   *)
(* two ticks, pairs the current data with the timestamp of the last commit.*)
dumpCrdtStateToBuffer(r) ==
  /\ Snapshots
  /\ phase[r] = "receive"
  /\ timestamps[r] > 0
  /\ sent' = sent \cup {[timestamp |-> timestamps[r], data |-> data[r]]}
  /\ UNCHANGED <<data, timestamps, dirty, lastSentData, phase, seen>>
-----------------------------------------------------------------------------
Next == \E r \in Replicas :
  \/ \E v \in Values : create(r, v)
  \/ \E v \in Values : createOrReplace(r, v)
  \/ \E v \in Values : getMutable(r, v)
  \/ \E markAsDirty \in BOOLEAN : deleteFrom(r, markAsDirty)
  \/ \E m \in sent : updateFromCrdt(r, m)
  \/ RunSystems(r)
  \/ getCrdtUpdates(r)
  \/ dumpCrdtStateToBuffer(r)

Spec == Init /\ [][Next]_vars
-----------------------------------------------------------------------------
(* Type invariant: the maps of every replica and the messages on the wire. *)
TypeOK ==
  /\ data \in [Replicas -> Values \cup {None}]
  /\ timestamps \in [Replicas -> Nat]
  /\ dirty \in [Replicas -> BOOLEAN]
  /\ lastSentData \in [Replicas -> Values \cup {None}]
  /\ phase \in [Replicas -> {"receive", "systems"}]
  /\ sent \subseteq Message
  /\ seen \in [Replicas -> SUBSET Message]

Dominates(timestamp, value, m) ==
  \/ m.timestamp < timestamp
  \/ m.timestamp = timestamp /\ m.data <= value

(* <<timestamp, value>> is the greatest message of the set, or nothing was *)
(* ever written.                                                           *)
IsJoin(timestamp, value, messages) ==
  /\ \A m \in messages : Dominates(timestamp, value, m)
  /\ \/ [timestamp |-> timestamp, data |-> value] \in messages
     \/ timestamp = 0 /\ value = None

(* Conflict resolution is a join: whatever the order, the repetition and   *)
(* the loss of messages, a replica with nothing to flush holds the greatest*)
(* message it has processed or sent (crdtRuleForCurrentState).             *)
CleanReplicaHoldsJoin ==
  \A r \in Replicas : ~dirty[r] => IsJoin(timestamps[r], data[r], seen[r])

(* "automatically converges" (docs/ai-agent-context.md:48): two replicas   *)
(* that processed the same messages and have nothing to flush agree.       *)
Convergence ==
  \A r, s \in Replicas :
    ~dirty[r] /\ ~dirty[s] /\ seen[r] = seen[s]
      => data[r] = data[s] /\ timestamps[r] = timestamps[s]

(* "The getMutable path is safe because the correction message carries the *)
(* same bytes" (docs/crdt-unchanged-mutable-suppression.md): when a dirty  *)
(* write is not sent, the value is the one every peer that processed the   *)
(* same messages holds.                                                    *)
SuppressionLosesNothing ==
  \A r \in Replicas :
    dirty[r] /\ Suppressed(r) => IsJoin(timestamps[r], data[r], seen[r])

(* A flushed write outranks everything its author had processed: its       *)
(* timestamp is above all of it, even when the scene writes between ticks. *)
ClockCoversSeen ==
  \A r \in Replicas : \A m \in seen[r] : m.timestamp <= timestamps[r]
-----------------------------------------------------------------------------
(* Replicas are interchangeable.                                           *)
Symmetry == Permutations(Replicas)
=============================================================================
