------------------------- MODULE LwwElementSetProofs -------------------------
(***************************************************************************)
(* Convergence of the last-write-wins element set, for any number of       *)
(* replicas and values and without bound on the clock's use, for a scene   *)
(* that writes only inside Engine.update.                                  *)
(*                                                                         *)
(* The argument is per replica.  Its committed state is the join of what   *)
(* it has seen; while it has writes to flush, the snapshot of the bytes    *)
(* last sent still names that join, so a suppressed flush returns to it    *)
(* and a flush that sends steps above it.  No message is processed while   *)
(* there are writes to flush.                                              *)
(***************************************************************************)
EXTENDS LwwElementSet, TLAPS

CleanJoin(r) == ~dirty[r] => IsJoin(timestamps[r], data[r], seen[r])

SnapshotJoin(r) ==
  lastSentData[r] # None => IsJoin(timestamps[r], lastSentData[r], seen[r])

Covers(r) == \A m \in seen[r] : m.timestamp <= timestamps[r]

NoWriteWhileReceiving(r) == phase[r] = "receive" => ~dirty[r]

RInv(r) == CleanJoin(r) /\ SnapshotJoin(r) /\ Covers(r) /\ NoWriteWhileReceiving(r)

IInv == TypeOK /\ \A r \in Replicas : RInv(r)

WritesOnlyInSystems == ~WritesBetweenTicks /\ ~SilentDeletes

LEMMA InitIInv == Init => IInv
  BY DEF Init, IInv, TypeOK, RInv, CleanJoin, SnapshotJoin, Covers,
     NoWriteWhileReceiving, IsJoin, Message, None

(* What a step of one replica must do for the invariant to survive it: all *)
(* the others are left alone, so only its own part needs looking at.       *)
LEMMA OneReplicaMoves ==
  ASSUME IInv, TypeOK', NEW r \in Replicas, RInv(r)',
         \A q \in Replicas \ {r} :
            /\ data'[q] = data[q] /\ timestamps'[q] = timestamps[q] /\ dirty'[q] = dirty[q]
            /\ lastSentData'[q] = lastSentData[q] /\ phase'[q] = phase[q] /\ seen'[q] = seen[q]
  PROVE  IInv'
  <1>1. ASSUME NEW q \in Replicas \ {r} PROVE RInv(q)'
    BY <1>1 DEF IInv, RInv, CleanJoin, SnapshotJoin, Covers, NoWriteWhileReceiving, IsJoin, Dominates
  <1> QED
    BY <1>1 DEF IInv
-----------------------------------------------------------------------------
(* A write leaves the replica with something to flush, and the snapshot    *)
(* either as it was or forgotten.                                          *)
LEMMA WriteKeepsIInv ==
  ASSUME IInv, WritesOnlyInSystems, NEW r \in Replicas, NEW v \in Values,
         create(r, v) \/ createOrReplace(r, v) \/ getMutable(r, v)
  PROVE  IInv'
  <1> USE DEF create, createOrReplace, getMutable, Write
  <1>1. TypeOK'
    BY DEF IInv, TypeOK, None
  <1>2. /\ phase'[r] = "systems" /\ dirty'[r] /\ timestamps'[r] = timestamps[r]
        /\ seen'[r] = seen[r]
        /\ lastSentData'[r] = lastSentData[r] \/ lastSentData'[r] = None
    BY DEF WritesOnlyInSystems, MayWrite, IInv, TypeOK
  <1>3. RInv(r)
    BY DEF IInv
  <1>4. RInv(r)'
    BY <1>2, <1>3
    DEF RInv, CleanJoin, SnapshotJoin, Covers, NoWriteWhileReceiving, IsJoin, Dominates
  <1> QED
    BY <1>1, <1>4, OneReplicaMoves DEF IInv, TypeOK

(* A deletion of a present value leaves something to flush; one of an      *)
(* absent value changes nothing the invariant looks at.                    *)
LEMMA DeleteKeepsIInv ==
  ASSUME IInv, WritesOnlyInSystems, NEW r \in Replicas, NEW markAsDirty \in BOOLEAN,
         deleteFrom(r, markAsDirty)
  PROVE  IInv'
  <1> USE DEF deleteFrom
  <1>1. TypeOK'
    BY DEF IInv, TypeOK, None
  <1>2. /\ markAsDirty /\ phase'[r] = "systems" /\ timestamps'[r] = timestamps[r]
        /\ seen'[r] = seen[r] /\ lastSentData'[r] = None /\ data'[r] = None
        /\ dirty'[r] = (dirty[r] \/ data[r] # None)
    BY DEF WritesOnlyInSystems, MayWrite, IInv, TypeOK
  <1>3. RInv(r)
    BY DEF IInv
  <1>4. RInv(r)'
    BY <1>2, <1>3
    DEF RInv, CleanJoin, SnapshotJoin, Covers, NoWriteWhileReceiving, IsJoin, Dominates
  <1> QED
    BY <1>1, <1>4, OneReplicaMoves DEF IInv, TypeOK

(* Serialized values, None included, are numbers, and so are the fields of *)
(* a message.                                                              *)
LEMMA ValuesAreNumbers ==
  /\ Values \cup {None} \subseteq Nat
  /\ \A m \in Message : /\ m.timestamp \in Nat \ {0} /\ m.data \in Nat
                         /\ m.data \in Values \cup {None}
                         /\ m = [timestamp |-> m.timestamp, data |-> m.data]
  <1>1. Values \cup {None} \subseteq Nat
    BY LwwAssumption DEF None
  <1> QED
    BY <1>1 DEF Message

(* The join of a set of messages is unique.                                *)
LEMMA JoinIsUnique ==
  ASSUME NEW messages \in SUBSET Message,
         NEW t \in Nat, NEW u \in Nat, NEW v \in Values \cup {None}, NEW w \in Values \cup {None},
         IsJoin(t, v, messages), IsJoin(u, w, messages)
  PROVE  t = u /\ v = w
  <1>1. v \in Nat /\ w \in Nat
    BY ValuesAreNumbers
  <1>2. CASE [timestamp |-> t, data |-> v] \in messages /\ [timestamp |-> u, data |-> w] \in messages
    BY <1>1, <1>2 DEF IsJoin, Dominates
  <1>3. CASE [timestamp |-> t, data |-> v] \notin messages
    <2>1. t = 0 /\ v = None /\ [timestamp |-> u, data |-> w] \notin messages
      BY <1>1, <1>3, ValuesAreNumbers DEF IsJoin, Dominates, None
    <2> QED
      BY <2>1 DEF IsJoin
  <1>4. CASE [timestamp |-> u, data |-> w] \notin messages
    <2>1. u = 0 /\ w = None /\ [timestamp |-> t, data |-> v] \notin messages
      BY <1>1, <1>4, ValuesAreNumbers DEF IsJoin, Dominates, None
    <2> QED
      BY <2>1 DEF IsJoin
  <1> QED
    BY <1>2, <1>3, <1>4

(* Processing a message joins it to what the replica has seen.             *)
LEMMA ReceiveKeepsIInv ==
  ASSUME IInv, NEW r \in Replicas, NEW m \in sent, updateFromCrdt(r, m)
  PROVE  IInv'
  <1>0. /\ m \in Message /\ m.timestamp \in Nat \ {0} /\ m.data \in Values \cup {None} /\ m.data \in Nat
        /\ timestamps[r] \in Nat /\ data[r] \in Values \cup {None} /\ data[r] \in Nat
        /\ seen[r] \subseteq Message
        /\ \A k \in seen[r] : k.timestamp \in Nat /\ k.data \in Nat
    BY ValuesAreNumbers DEF IInv, TypeOK
  <1>1. TypeOK'
    BY <1>0 DEF updateFromCrdt, IInv, TypeOK
  <1>2. RInv(r) /\ ~dirty[r] /\ ~dirty'[r] /\ seen'[r] = seen[r] \cup {m}
    BY DEF updateFromCrdt, IInv, RInv, NoWriteWhileReceiving, TypeOK
  <1>3. \A q \in Replicas \ {r} :
            /\ data'[q] = data[q] /\ timestamps'[q] = timestamps[q] /\ dirty'[q] = dirty[q]
            /\ lastSentData'[q] = lastSentData[q] /\ phase'[q] = phase[q] /\ seen'[q] = seen[q]
    BY DEF updateFromCrdt, IInv, TypeOK
  <1>4. IsJoin(timestamps[r], data[r], seen[r])
    BY <1>2 DEF RInv, CleanJoin
  <1>5. CASE AcceptedBy(r, m)
    <2>1. /\ timestamps'[r] = m.timestamp /\ data'[r] = m.data /\ lastSentData'[r] = m.data
      BY <1>5 DEF updateFromCrdt, IInv, TypeOK
    <2>2. \A k \in seen[r] : Dominates(m.timestamp, m.data, k)
      BY <1>0, <1>4, <1>5 DEF AcceptedBy, IsJoin, Dominates
    <2>3. Dominates(m.timestamp, m.data, m)
      BY <1>0 DEF Dominates
    <2>4. IsJoin(m.timestamp, m.data, seen[r] \cup {m})
      BY <1>0, <2>2, <2>3, ValuesAreNumbers DEF IsJoin
    <2>5. \A k \in seen[r] \cup {m} : k.timestamp <= m.timestamp
      BY <1>0, <2>2 DEF Dominates
    <2>6. RInv(r)'
      BY <1>2, <2>1, <2>4, <2>5
      DEF RInv, CleanJoin, SnapshotJoin, Covers, NoWriteWhileReceiving, IsJoin, Dominates
    <2> QED
      BY <1>1, <1>3, <2>6, OneReplicaMoves
  <1>6. CASE ~AcceptedBy(r, m)
    <2>1. UNCHANGED <<timestamps, data, lastSentData>>
      BY <1>6 DEF updateFromCrdt
    <2>2. Dominates(timestamps[r], data[r], m)
      BY <1>0, <1>6 DEF AcceptedBy, Dominates
    <2>3. IsJoin(timestamps[r], data[r], seen[r] \cup {m})
      BY <1>4, <2>2 DEF IsJoin
    <2>4. lastSentData[r] # None => lastSentData[r] = data[r]
      <3>1. lastSentData[r] \in Values \cup {None}
        BY DEF IInv, TypeOK
      <3> QED
        BY <1>0, <1>2, <1>4, <3>1, JoinIsUnique DEF RInv, SnapshotJoin
    <2>5. \A k \in seen[r] \cup {m} : k.timestamp <= timestamps[r]
      BY <1>0, <2>3 DEF IsJoin, Dominates
    <2>6. RInv(r)'
      BY <1>2, <2>1, <2>3, <2>4, <2>5
      DEF RInv, CleanJoin, SnapshotJoin, Covers, NoWriteWhileReceiving, IsJoin, Dominates
    <2> QED
      BY <1>1, <1>3, <2>6, OneReplicaMoves
  <1> QED
    BY <1>5, <1>6

(* A flush that sends steps above everything seen; one that is suppressed  *)
(* returns to the join the snapshot names.                                 *)
LEMMA FlushKeepsIInv ==
  ASSUME IInv, NEW r \in Replicas, getCrdtUpdates(r)
  PROVE  IInv'
  <1> DEFINE m == [timestamp |-> NextTimestamp(r), data |-> data[r]]
  <1>0. /\ timestamps[r] \in Nat /\ data[r] \in Values \cup {None} /\ data[r] \in Nat
        /\ \A k \in seen[r] : k.timestamp \in Nat /\ k.data \in Nat
        /\ m \in Message /\ m.timestamp = timestamps[r] + 1 /\ m.data = data[r]
    BY ValuesAreNumbers DEF IInv, TypeOK, Message, NextTimestamp
  <1> HIDE DEF m
  <1>1. TypeOK'
    BY <1>0 DEF getCrdtUpdates, IInv, TypeOK, m
  <1>2. RInv(r) /\ ~dirty'[r] /\ data' = data
    BY DEF getCrdtUpdates, IInv, TypeOK
  <1>3. \A q \in Replicas \ {r} :
            /\ data'[q] = data[q] /\ timestamps'[q] = timestamps[q] /\ dirty'[q] = dirty[q]
            /\ lastSentData'[q] = lastSentData[q] /\ phase'[q] = phase[q] /\ seen'[q] = seen[q]
    BY DEF getCrdtUpdates, IInv, TypeOK
  <1>4. CASE dirty[r] /\ ~Suppressed(r)
    <2>1. /\ timestamps'[r] = m.timestamp /\ data'[r] = m.data /\ lastSentData'[r] = m.data
          /\ seen'[r] = seen[r] \cup {m}
      BY <1>0, <1>2, <1>4 DEF getCrdtUpdates, IInv, TypeOK, m
    <2>2. \A k \in seen[r] \cup {m} : k.timestamp <= m.timestamp /\ Dominates(m.timestamp, m.data, k)
      BY <1>0, <1>2 DEF RInv, Covers, Dominates
    <2>3. IsJoin(m.timestamp, m.data, seen[r] \cup {m})
      BY <1>0, <2>2, ValuesAreNumbers DEF IsJoin
    <2>4. RInv(r)'
      BY <1>2, <2>1, <2>2, <2>3
      DEF RInv, CleanJoin, SnapshotJoin, Covers, NoWriteWhileReceiving, IsJoin, Dominates
    <2> QED
      BY <1>1, <1>3, <2>4, OneReplicaMoves
  <1>5. CASE ~(dirty[r] /\ ~Suppressed(r))
    <2>1. UNCHANGED <<timestamps, lastSentData, seen>>
      BY <1>5 DEF getCrdtUpdates
    <2>2. IsJoin(timestamps[r], data[r], seen[r])
      BY <1>2, <1>5 DEF RInv, CleanJoin, SnapshotJoin, Suppressed
    <2>3. RInv(r)'
      BY <1>2, <2>1, <2>2
      DEF RInv, CleanJoin, SnapshotJoin, Covers, NoWriteWhileReceiving, IsJoin, Dominates
    <2> QED
      BY <1>1, <1>3, <2>3, OneReplicaMoves
  <1> QED
    BY <1>4, <1>5

LEMMA NextIInv ==
  ASSUME IInv, WritesOnlyInSystems, [Next]_vars
  PROVE  IInv'
  <1>1. ASSUME NEW r \in Replicas, RunSystems(r) PROVE IInv'
    <2>1. TypeOK'
      BY <1>1 DEF RunSystems, IInv, TypeOK
    <2>2. RInv(r)'
      BY <1>1 DEF RunSystems, IInv, TypeOK, RInv, CleanJoin, SnapshotJoin, Covers,
         NoWriteWhileReceiving, IsJoin, Dominates
    <2> QED
      BY <1>1, <2>1, <2>2, OneReplicaMoves DEF RunSystems, IInv, TypeOK
  <1>2. ASSUME NEW r \in Replicas, dumpCrdtStateToBuffer(r) PROVE IInv'
    <2>1. TypeOK'
      BY <1>2 DEF dumpCrdtStateToBuffer, IInv, TypeOK, Message
    <2>2. RInv(r)'
      BY <1>2 DEF dumpCrdtStateToBuffer, IInv, RInv, CleanJoin, SnapshotJoin, Covers,
         NoWriteWhileReceiving, IsJoin, Dominates
    <2> QED
      BY <1>2, <2>1, <2>2, OneReplicaMoves DEF dumpCrdtStateToBuffer, IInv, TypeOK
  <1>3. CASE UNCHANGED vars
    BY <1>3 DEF vars, IInv, TypeOK, RInv, CleanJoin, SnapshotJoin, Covers,
       NoWriteWhileReceiving, IsJoin, Dominates
  <1> QED
    BY <1>1, <1>2, <1>3, WriteKeepsIInv, DeleteKeepsIInv, ReceiveKeepsIInv, FlushKeepsIInv DEF Next

LEMMA IInvHolds == WritesOnlyInSystems /\ Spec => []IInv
  <1>1. WritesOnlyInSystems /\ IInv /\ [Next]_vars => IInv'
    BY NextIInv
  <1>2. WritesOnlyInSystems => WritesOnlyInSystems'
    BY DEF WritesOnlyInSystems
  <1> QED
    BY <1>1, <1>2, InitIInv, PTL DEF Spec
-----------------------------------------------------------------------------
(* Whatever messages are lost, repeated or reordered, a replica with       *)
(* nothing to flush holds the greatest message it has seen.                *)
THEOREM CleanReplicasHoldJoin == WritesOnlyInSystems /\ Spec => []CleanReplicaHoldsJoin
  <1>1. IInv => CleanReplicaHoldsJoin
    BY DEF IInv, RInv, CleanJoin, CleanReplicaHoldsJoin
  <1> QED
    BY <1>1, IInvHolds, PTL

(* Strong eventual consistency: replicas that saw the same messages agree. *)
THEOREM ReplicasConverge == WritesOnlyInSystems /\ Spec => []Convergence
  <1>1. ASSUME IInv PROVE Convergence
    <2> SUFFICES ASSUME NEW r \in Replicas, NEW s \in Replicas,
                        ~dirty[r], ~dirty[s], seen[r] = seen[s]
                 PROVE  data[r] = data[s] /\ timestamps[r] = timestamps[s]
      BY DEF Convergence
    <2>1. IsJoin(timestamps[r], data[r], seen[r]) /\ IsJoin(timestamps[s], data[s], seen[r])
      BY <1>1 DEF IInv, RInv, CleanJoin
    <2>2. /\ timestamps[r] \in Nat /\ timestamps[s] \in Nat /\ seen[r] \in SUBSET Message
          /\ data[r] \in Values \cup {None} /\ data[s] \in Values \cup {None}
      BY <1>1 DEF IInv, TypeOK
    <2> QED
      BY <2>1, <2>2, JoinIsUnique
  <1> QED
    BY <1>1, IInvHolds, PTL

(* A write that getCrdtUpdates suppresses is the join of what was seen, so *)
(* no peer with the same messages is left with another value.              *)
THEOREM SuppressionIsSafe == WritesOnlyInSystems /\ Spec => []SuppressionLosesNothing
  <1>1. IInv => SuppressionLosesNothing
    BY DEF IInv, RInv, SnapshotJoin, SuppressionLosesNothing, Suppressed
  <1> QED
    BY <1>1, IInvHolds, PTL
-----------------------------------------------------------------------------
(* The facts that need no discipline from the scene.                       *)
AsyncInv == TypeOK /\ ClockCoversSeen

LEMMA NextAsyncInv == AsyncInv /\ [Next]_vars => AsyncInv'
  <1> SUFFICES ASSUME AsyncInv, [Next]_vars PROVE AsyncInv'
    OBVIOUS
  <1> USE DEF AsyncInv
  <1>1. ASSUME NEW r \in Replicas, NEW v \in Values,
               create(r, v) \/ createOrReplace(r, v) \/ getMutable(r, v)
        PROVE  AsyncInv'
    BY <1>1 DEF create, createOrReplace, getMutable, Write, TypeOK, ClockCoversSeen, None
  <1>2. ASSUME NEW r \in Replicas, NEW b \in BOOLEAN, deleteFrom(r, b) PROVE AsyncInv'
    BY <1>2 DEF deleteFrom, TypeOK, ClockCoversSeen, None
  <1>3. ASSUME NEW r \in Replicas, NEW m \in sent, updateFromCrdt(r, m) PROVE AsyncInv'
    <2>1. /\ m \in Message /\ m.timestamp \in Nat \ {0} /\ m.data \in Values \cup {None}
          /\ timestamps[r] \in Nat /\ \A k \in seen[r] : k.timestamp \in Nat
      BY ValuesAreNumbers DEF TypeOK
    <2>2. TypeOK'
      BY <1>3, <2>1 DEF updateFromCrdt, TypeOK
    <2>3. \A k \in seen'[r] : k.timestamp <= timestamps'[r]
      <3>1. seen'[r] = seen[r] \cup {m}
        BY <1>3 DEF updateFromCrdt, TypeOK
      <3>2. CASE AcceptedBy(r, m)
        <4>1. timestamps'[r] = m.timestamp
          BY <1>3, <3>2 DEF updateFromCrdt, TypeOK
        <4> QED
          BY <2>1, <3>1, <3>2, <4>1 DEF AcceptedBy, ClockCoversSeen
      <3>3. CASE ~AcceptedBy(r, m)
        <4>1. timestamps'[r] = timestamps[r]
          BY <1>3, <3>3 DEF updateFromCrdt
        <4> QED
          BY <2>1, <3>1, <3>3, <4>1 DEF AcceptedBy, ClockCoversSeen
      <3> QED
        BY <3>2, <3>3
    <2>4. \A q \in Replicas \ {r} : seen'[q] = seen[q] /\ timestamps'[q] = timestamps[q]
      BY <1>3 DEF updateFromCrdt, TypeOK
    <2> QED
      BY <2>2, <2>3, <2>4 DEF ClockCoversSeen
  <1>4. ASSUME NEW r \in Replicas, getCrdtUpdates(r) PROVE AsyncInv'
    <2> DEFINE m == [timestamp |-> NextTimestamp(r), data |-> data[r]]
    <2>1. /\ m \in Message /\ m.timestamp = timestamps[r] + 1
          /\ timestamps[r] \in Nat /\ \A k \in seen[r] : k.timestamp \in Nat
      BY ValuesAreNumbers DEF TypeOK, Message, NextTimestamp
    <2>2. /\ \A q \in Replicas \ {r} : seen'[q] = seen[q] /\ timestamps'[q] = timestamps[q]
          /\ \/ seen' = seen /\ timestamps' = timestamps
             \/ seen'[r] = seen[r] \cup {m} /\ timestamps'[r] = m.timestamp
      BY <1>4 DEF getCrdtUpdates, TypeOK
    <2> HIDE DEF m
    <2>3. ClockCoversSeen'
      BY <2>1, <2>2 DEF ClockCoversSeen
    <2>4. TypeOK'
      BY <1>4, <2>1 DEF getCrdtUpdates, TypeOK, m
    <2> QED
      BY <2>3, <2>4
  <1>5. ASSUME NEW r \in Replicas, RunSystems(r) PROVE AsyncInv'
    BY <1>5 DEF RunSystems, TypeOK, ClockCoversSeen
  <1>6. ASSUME NEW r \in Replicas, dumpCrdtStateToBuffer(r) PROVE AsyncInv'
    BY <1>6 DEF dumpCrdtStateToBuffer, TypeOK, ClockCoversSeen, Message
  <1>7. CASE UNCHANGED vars
    BY <1>7 DEF vars, TypeOK, ClockCoversSeen
  <1> QED
    BY <1>1, <1>2, <1>3, <1>4, <1>5, <1>6, <1>7 DEF Next

(* The maps keep their types whatever the scene does, when it does it.     *)
THEOREM TypeCorrect == Spec => []TypeOK
  <1>1. Init => AsyncInv
    BY DEF Init, AsyncInv, TypeOK, ClockCoversSeen, Message, None
  <1>2. AsyncInv => TypeOK
    BY DEF AsyncInv
  <1> QED
    BY <1>1, <1>2, NextAsyncInv, PTL DEF Spec

(* No replica's clock is ever behind a message it has processed or sent,   *)
(* so its next write outranks all of them, even for a scene that writes    *)
(* between ticks or deletes silently.                                      *)
THEOREM WritesOutrankWhatWasSeen == Spec => []ClockCoversSeen
  <1>1. Init => AsyncInv
    BY DEF Init, AsyncInv, TypeOK, ClockCoversSeen, Message, None
  <1>2. AsyncInv => ClockCoversSeen
    BY DEF AsyncInv
  <1> QED
    BY <1>1, <1>2, NextAsyncInv, PTL DEF Spec
=============================================================================
