-------------------------- MODULE SceneEngineProofs --------------------------
(***************************************************************************)
(* Theorems about SceneEngine, for any number of engines, entities,        *)
(* versions, values and calls: it is type correct; an entity that was      *)
(* removed is not in use and keeps no data; and engines with nothing in    *)
(* flight agree.                                                           *)
(*                                                                         *)
(* The last two are of disciplined scenes only: they call the engine in    *)
(* the tick, and the build has told the engine how far the numbers of      *)
(* main.crdt go.  Without the second addEntity may return a preloaded      *)
(* entity that is pending removal (SceneEnginePending.cfg).                *)
(*                                                                         *)
(* The invariant has three parts.  EntityInv is about one engine at a time *)
(* and about what Scene has heard of; RemovalInv says how far a removal    *)
(* has got between Scene and a peer; ValueInv how far a value has got.     *)
(***************************************************************************)
EXTENDS SceneEngine, SequenceFacts

(* Versions and numbers are small integers, and finitely many.             *)
LEMMA EntityIsFinite ==
  /\ IsFiniteSet(Entity)
  /\ \A e \in Entity : /\ e[1] \in Numbers /\ e[2] \in Versions
                       /\ e[1] \in Nat /\ e[2] \in Nat /\ e = <<e[1], e[2]>>
  /\ \A n \in Numbers, v \in Versions : <<n, v>> \in Entity
  <1>1. IsFiniteSet(Versions)
    BY SceneAssumption, FS_Interval DEF Versions
  <1>2. IsFiniteSet(Entity)
    BY <1>1, SceneAssumption, FS_Product DEF Entity
  <1>3. Versions \subseteq Nat /\ Numbers \subseteq Nat
    BY SceneAssumption DEF Versions
  <1>4. \A e \in Numbers \X Versions : e[1] \in Numbers /\ e[2] \in Versions /\ e = <<e[1], e[2]>>
    OBVIOUS
  <1>5. \A n \in Numbers, v \in Versions : <<n, v>> \in Numbers \X Versions
    OBVIOUS
  <1> QED
    BY <1>2, <1>3, <1>4, <1>5 DEF Entity

Tombs == [Numbers -> Versions \cup {Absent}]

(* A tombstone is a version, or there is none.                             *)
LEMMA TombsAreIntegers ==
  ASSUME NEW r \in Tombs, NEW n \in Numbers
  PROVE  r[n] \in Versions \cup {Absent} /\ r[n] \in Int /\ r[n] >= -1 /\ r[n] <= MaxVersion
  BY SceneAssumption DEF Tombs, Versions, Absent

(* Tombstones keeps, by number, the last version there was or was added.   *)
LEMMA TombstonesAreLast ==
  ASSUME NEW r \in Tombs, NEW es \in SUBSET Entity
  PROVE  /\ Tombstones(r, es) \in Tombs
         /\ \A n \in Numbers :
              /\ Tombstones(r, es)[n] >= r[n]
              /\ \A e \in es : e[1] = n => Tombstones(r, es)[n] >= e[2]
              /\ Tombstones(r, es)[n] = r[n] \/ \E e \in es : e[1] = n /\ Tombstones(r, es)[n] = e[2]
  <1> DEFINE All(n) == {r[n]} \cup {e[2] : e \in {d \in es : d[1] = n}}
  <1>1. ASSUME NEW n \in Numbers
        PROVE  Max(All(n)) \in All(n) /\ \A x \in All(n) : Max(All(n)) >= x
    <2>1. All(n) \in SUBSET Int /\ All(n) # {} /\ \A x \in All(n) : x <= MaxVersion
      BY EntityIsFinite, TombsAreIntegers, SceneAssumption DEF Versions
    <2> DEFINE A == All(n)
    <2>2. A \in SUBSET Int /\ A # {} /\ \A x \in A : x <= MaxVersion
      BY <2>1
    <2>3. MaxVersion \in Int
      BY SceneAssumption
    <2>4. Max(A) \in A /\ \A x \in A : Max(A) >= x
      <3> HIDE DEF A
      <3> QED
        BY <2>2, <2>3, MaxIsGreatest
    <2> QED
      BY <2>4
  <1>2. \A n \in Numbers : Tombstones(r, es)[n] = Max(All(n))
    BY DEF Tombstones
  <1>3. \A n \in Numbers : All(n) \subseteq Versions \cup {Absent}
    BY EntityIsFinite DEF Tombs
  <1>4. Tombstones(r, es) \in Tombs
    BY <1>1, <1>2, <1>3 DEF Tombstones, Tombs
  <1>5. ASSUME NEW n \in Numbers
        PROVE  /\ r[n] \in All(n)
               /\ \A e \in es : e[1] = n => e[2] \in All(n)
               /\ \A x \in All(n) : x = r[n] \/ \E e \in es : e[1] = n /\ x = e[2]
    OBVIOUS
  <1> HIDE DEF All
  <1> QED
    BY <1>1, <1>2, <1>4, <1>5

(* Serialized values, and no value, are compared as numbers.               *)
LEMMA ValuesAreNumbers == Values \cup {None} \subseteq Nat
  BY SceneAssumption DEF None

(* What the fields of an entity container are.                             *)
LEMMA ContainerFields ==
  ASSUME NEW c \in Containers
  PROVE  /\ c.usedEntities \subseteq Entity /\ c.toRemoveEntities \subseteq Entity
         /\ c.removedEntities \in Tombs /\ c.entityCounter \in Nat
  BY DEF Containers, Tombs

(* Removing and releasing entities keeps the container well formed.        *)
LEMMA RemovalTypes ==
  ASSUME NEW c \in Containers, NEW es \in SUBSET Entity
  PROVE  /\ updateRemovedEntity(c, es) \in Containers
         /\ releaseRemovedEntities(c) \in Containers
  <1>1. c.toRemoveEntities \subseteq Entity /\ c.removedEntities \in Tombs
    BY DEF Containers, Tombs
  <1>2. updateRemovedEntity(c, es) \in Containers
    BY <1>1, TombstonesAreLast DEF updateRemovedEntity, Containers, Tombs
  <1>3. releaseRemovedEntities(c) \in Containers
    BY <1>1, TombstonesAreLast DEF releaseRemovedEntities, Containers, Tombs
  <1> QED
    BY <1>2, <1>3

(* So does taking an entity in use, and removing one.                      *)
LEMMA ContainerTypes ==
  ASSUME NEW c \in Containers, NEW e \in Entity
  PROVE  /\ updateUsedEntity(c, e) \in Containers
         /\ removeFromContainer(c, e) \in Containers
  <1>1. c.usedEntities \subseteq Entity /\ c.toRemoveEntities \subseteq Entity /\ c.removedEntities \in Tombs
    BY DEF Containers, Tombs
  <1>2. updateUsedEntity(c, e) \in Containers
    <2>1. CASE e[2] > 0
      <3>1. <<e[1], e[2] - 1>> \in Entity
        <4>1. e[1] \in Numbers /\ e[2] - 1 \in Versions
          BY <2>1, EntityIsFinite, SceneAssumption DEF Versions
        <4> QED
          BY <4>1, EntityIsFinite
      <3> QED
        BY <1>1, <2>1, <3>1, TombstonesAreLast, ZenonT(60) DEF updateUsedEntity, Containers, Tombs
    <2>2. CASE ~(e[2] > 0)
      BY <1>1, <2>2 DEF updateUsedEntity, Containers, Tombs
    <2> QED
      BY <2>1, <2>2
  <1>3. removeFromContainer(c, e) \in Containers
    BY RemovalTypes DEF removeFromContainer, Containers
  <1> QED
    BY <1>2, <1>3

(* A generated id is an entity: its version is at most MaxVersion.         *)
LEMMA GeneratedTypes ==
  ASSUME NEW c \in Containers, NEW d \in generateEntity(c)
  PROVE  d \in Containers
  <1>1. c.usedEntities \subseteq Entity /\ c.toRemoveEntities \subseteq Entity /\ c.removedEntities \in Tombs
    BY DEF Containers, Tombs
  <1>2. CASE d \in generateNewEntity(c)
    <2>1. PICK n \in Numbers : /\ c.removedEntities[n] < MaxVersion
            /\ d = [c EXCEPT !.usedEntities = @ \cup {<<n, c.removedEntities[n] + 1>>}, !.entityCounter = n + 1]
      BY <1>2 DEF generateNewEntity, FreshNumbers
    <2>2. <<n, c.removedEntities[n] + 1>> \in Entity
      BY <1>1, <2>1, TombsAreIntegers, SceneAssumption, EntityIsFinite DEF Versions
    <2>3. n + 1 \in Nat
      BY SceneAssumption
    <2>4. c.usedEntities \cup {<<n, c.removedEntities[n] + 1>>} \in SUBSET Entity
      BY <1>1, <2>2
    <2> DEFINE used == c.usedEntities \cup {<<n, c.removedEntities[n] + 1>>}
    <2> HIDE DEF used
    <2>5. d = [c EXCEPT !.usedEntities = used, !.entityCounter = n + 1]
      BY <2>1 DEF used
    <2> QED
      BY <2>3, <2>4, <2>5 DEF Containers, used
  <1>3. CASE d \notin generateNewEntity(c)
    BY <1>3 DEF generateEntity, Recycled, Containers
  <1> QED
    BY <1>2, <1>3

(* A write keeps the component well formed.                                *)
LEMMA ComponentTypes ==
  ASSUME NEW d \in Components, NEW e \in Entity, NEW v \in Values
  PROVE  createOrReplace(d, e, v) \in Components /\ mutate(d, e, v) \in Components
  BY DEF createOrReplace, mutate, Components

(* So does the deletion of an entity, and a flush, which sends entities.   *)
LEMMA CleaningTypes ==
  ASSUME NEW d \in Components, NEW es \in SUBSET Entity
  PROVE  /\ entityDeleted(d, es) \in Components
         /\ Flushed(d) \in Components
         /\ ToSend(d) \subseteq Entity
  <1> USE DEF Components
  <1>1. entityDeleted(d, es) \in Components
    BY DEF entityDeleted
  <1>2. Flushed(d) \in Components
    <2> DEFINE ts == [f \in Entity |-> IF f \in ToSend(d) THEN d.timestamps[f] + 1 ELSE d.timestamps[f]]
               last == [f \in Entity |-> IF f \in ToSend(d) THEN d.data[f] ELSE d.lastSentData[f]]
    <2>1. ts \in [Entity -> Nat] /\ last \in [Entity -> Values \cup {None}]
      OBVIOUS
    <2>2. Flushed(d) = [d EXCEPT !.dirty = {}, !.timestamps = ts, !.lastSentData = last]
      BY DEF Flushed
    <2> HIDE DEF ts, last
    <2> QED
      BY <2>1, <2>2
  <1>3. ToSend(d) \subseteq Entity
    BY DEF ToSend
  <1> QED
    BY <1>1, <1>2, <1>3
-----------------------------------------------------------------------------
(* What is in flight is an update or a deletion of an entity.              *)
LEMMA SentFields ==
  ASSUME NEW m \in Sent
  PROVE  /\ m.from \in Engines /\ m.message \in Messages /\ m.message.entity \in Entity
         /\ m = [from |-> m.from, message |-> m.message]
         /\ \/ /\ m.message.type = "DELETE_ENTITY" /\ m.message = DeleteEntity(m.message.entity)
            \/ /\ m.message.type = "COMPONENT"
               /\ m.message.timestamp \in Nat /\ m.message.data \in Values \cup {None}
               /\ m.message.data \in Nat
               /\ \A e \in Entity : m.message # DeleteEntity(e)
  BY ValuesAreNumbers DEF Sent, Messages, DeleteEntity

AtMost(t, v, u, w) == t < u \/ (t = u /\ v <= w)

(* Every id in use or about to be removed is the next version of its       *)
(* number.                                                                 *)
NextVersions(c) ==
  \A e \in c.usedEntities \cup c.toRemoveEntities : e[2] = c.removedEntities[e[1]] + 1

(* An engine that hears of an unknown entity takes it in use: the versions *)
(* before it are removed from then on, and no others.                      *)
LEMMA UseOfUnknown ==
  ASSUME NEW c \in Containers, NEW e \in Entity, ~IsRemoved(c, e),
         c.toRemoveEntities = {}, NextVersions(c)
  PROVE  LET d == updateUsedEntity(c, e)
         IN  /\ NextVersions(d) /\ d.toRemoveEntities = {} /\ d.entityCounter = c.entityCounter
             /\ d.usedEntities \subseteq c.usedEntities \cup {e}
             /\ \A f \in Entity :
                  IsRemoved(d, f) <=> IsRemoved(c, f) \/ (f[1] = e[1] /\ f[2] < e[2])
  <1> DEFINE d == updateUsedEntity(c, e)
             older == <<e[1], e[2] - 1>>
  <1>1. /\ c.usedEntities \subseteq Entity /\ c.removedEntities \in Tombs
        /\ c.removedEntities[e[1]] < e[2] /\ e[1] \in Numbers /\ e[2] \in Nat
    BY ContainerFields, EntityIsFinite, TombsAreIntegers DEF IsRemoved
  <1>2. /\ d.usedEntities = {f \in c.usedEntities : f[1] = e[1] => f[2] >= e[2]} \cup {e}
        /\ d.toRemoveEntities = {} /\ d.entityCounter = c.entityCounter
        /\ d.removedEntities = IF e[2] > 0 THEN Tombstones(c.removedEntities, {older})
                               ELSE c.removedEntities
    BY DEF updateUsedEntity, Containers
  <1>3. d.removedEntities \in Tombs
    BY ContainerTypes, ContainerFields
  <1>4. /\ d.removedEntities[e[1]] = e[2] - 1
        /\ \A n \in Numbers \ {e[1]} : d.removedEntities[n] = c.removedEntities[n]
    <2>1. CASE e[2] > 0
      <3>1. older \in Entity /\ older[1] = e[1] /\ older[2] = e[2] - 1
        <4>1. e[1] \in Numbers /\ e[2] - 1 \in Versions
          BY <2>1, EntityIsFinite, SceneAssumption DEF Versions
        <4> QED
          BY <4>1, EntityIsFinite
      <3>2. \A n \in Numbers :
              /\ Tombstones(c.removedEntities, {older})[n] >= c.removedEntities[n]
              /\ e[1] = n => Tombstones(c.removedEntities, {older})[n] >= e[2] - 1
              /\ \/ Tombstones(c.removedEntities, {older})[n] = c.removedEntities[n]
                 \/ e[1] = n /\ Tombstones(c.removedEntities, {older})[n] = e[2] - 1
        BY <1>1, <3>1, TombstonesAreLast
      <3> HIDE DEF older, d
      <3>3. \A n \in Numbers : c.removedEntities[n] \in Int /\ d.removedEntities[n] \in Int
        BY <1>1, <1>3, TombsAreIntegers
      <3>4. d.removedEntities = Tombstones(c.removedEntities, {older})
        BY <1>2, <2>1
      <3>5. \A n \in Numbers \ {e[1]} : d.removedEntities[n] = c.removedEntities[n]
        BY <3>2, <3>4
      <3>6. d.removedEntities[e[1]] = e[2] - 1
        BY <1>1, <3>2, <3>3, <3>4
      <3> QED
        BY <3>5, <3>6
    <2>2. CASE ~(e[2] > 0)
      <3>1. e[2] = 0 /\ c.removedEntities[e[1]] = -1
        BY <1>1, <2>2, TombsAreIntegers
      <3> QED
        BY <1>2, <2>2, <3>1
    <2> QED
      BY <2>1, <2>2
  <1> HIDE DEF d
  <1>5. \A f \in Entity : f[1] \in Numbers /\ f[2] \in Nat /\ f = <<f[1], f[2]>>
                          /\ c.removedEntities[f[1]] \in Int
    BY <1>1, EntityIsFinite, TombsAreIntegers
  <1>6. NextVersions(d)
    <2>1. SUFFICES ASSUME NEW f \in d.usedEntities PROVE f[2] = d.removedEntities[f[1]] + 1
      BY <1>2 DEF NextVersions
    <2>2. CASE f = e
      BY <1>1, <1>4, <2>2
    <2>3. CASE f # e /\ f[1] # e[1]
      BY <1>1, <1>2, <1>4, <1>5, <2>3 DEF NextVersions
    <2>4. CASE f # e /\ f[1] = e[1]
      <3>1. f \in c.usedEntities /\ f[2] >= e[2] /\ f[2] = c.removedEntities[e[1]] + 1
        BY <1>2, <2>4 DEF NextVersions
      <3> QED
        BY <1>1, <1>5, <2>4, <3>1
    <2> QED
      BY <2>2, <2>3, <2>4
  <1>7. \A f \in Entity : IsRemoved(d, f) <=> IsRemoved(c, f) \/ (f[1] = e[1] /\ f[2] < e[2])
    BY <1>1, <1>4, <1>5 DEF IsRemoved
  <1> QED
    BY <1>2, <1>6, <1>7 DEF d
-----------------------------------------------------------------------------
(* What processing the inbox has done to an engine, in terms of the set of *)
(* messages processed so far; first is the engine's state before.          *)
Readings == [container : Containers, component : Components,
             toClean : SUBSET Entity, broadcast : Seq(Sent)]

AtRest(st) ==
  /\ st \in Readings /\ st.toClean = {} /\ st.broadcast = <<>>
  /\ st.container.toRemoveEntities = {} /\ NextVersions(st.container)
  /\ st.component.dirty = {} /\ st.component.lastSentData = st.component.data

OfComponent(m, e) == m.message.type = "COMPONENT" /\ m.message.entity = e

ContainerRead(first, st, seen) ==
  /\ st.container.toRemoveEntities = {} /\ NextVersions(st.container)
  /\ st.container.entityCounter = first.container.entityCounter
  /\ st.container.usedEntities \subseteq
       first.container.usedEntities \cup {m.message.entity : m \in seen}
  /\ \A e \in Entity :
       /\ IsRemoved(first.container, e) => IsRemoved(st.container, e)
       /\ IsRemoved(st.container, e) =>
            \/ IsRemoved(first.container, e)
            \/ \E m \in seen : m.message.entity[1] = e[1] /\ m.message.entity[2] > e[2]
  /\ (\A m \in seen : getEntityState(first.container, m.message.entity) # "Unknown")
       => st.container = first.container

ComponentRead(first, st, seen) ==
  /\ st.component.dirty = {} /\ st.component.lastSentData = st.component.data
  /\ \A e \in Entity :
       LET before == first.component  now == st.component
       IN  /\ AtMost(before.timestamps[e], before.data[e], now.timestamps[e], now.data[e])
           /\ \/ now.timestamps[e] = before.timestamps[e] /\ now.data[e] = before.data[e]
              \/ /\ ~IsRemoved(first.container, e)
                 /\ \E m \in Range(st.broadcast) :
                      OfComponent(m, e) /\ m.message.timestamp = now.timestamps[e]
                                        /\ m.message.data = now.data[e]

BroadcastRead(st, seen) ==
  /\ st.toClean = {e \in Entity : \E m \in seen : m.message = DeleteEntity(e)}
  /\ Range(st.broadcast) \subseteq seen
  /\ \A m \in seen : m.message.type = "DELETE_ENTITY" => m \in Range(st.broadcast)
  /\ \A m \in seen, e \in Entity :
       OfComponent(m, e) /\ (m \in Range(st.broadcast) \/ ~IsRemoved(st.container, e))
         => AtMost(m.message.timestamp, m.message.data,
                   st.component.timestamps[e], st.component.data[e])

Read(first, st, seen) ==
  /\ st \in Readings /\ seen \in SUBSET Sent
  /\ ContainerRead(first, st, seen) /\ ComponentRead(first, st, seen) /\ BroadcastRead(st, seen)

(* Before the first message.                                               *)
LEMMA ReadNothing ==
  ASSUME NEW first, AtRest(first)
  PROVE  Read(first, first, {})
  <1>1. first.component \in Components
    BY DEF AtRest, Readings
  <1>2. \A e \in Entity : first.component.timestamps[e] \in Nat /\ first.component.data[e] \in Nat
    BY <1>1, ValuesAreNumbers DEF Components
  <1> QED
    BY <1>2, RangeOfEmpty DEF AtRest, Read, ContainerRead, ComponentRead, BroadcastRead, AtMost

(* What the fields of an engine in the middle of its inbox are.            *)
LEMMA ReadingFields ==
  ASSUME NEW st \in Readings, NEW m \in Sent
  PROVE  /\ st.container \in Containers /\ st.component \in Components
         /\ st.toClean \subseteq Entity /\ st.broadcast \in Seq(Sent)
         /\ \A e \in Entity : /\ st.component.timestamps[e] \in Nat
                              /\ st.component.data[e] \in Nat
  BY ValuesAreNumbers DEF Readings, Components

(* A deletion is noted, and forwarded.                                     *)
LEMMA ReadDeletion ==
  ASSUME NEW first, NEW st, NEW seen, Read(first, st, seen), NEW m \in Sent,
         m.message.type = "DELETE_ENTITY"
  PROVE  Read(first, ProcessMessage(st, m), seen \cup {m})
  <1> DEFINE new == ProcessMessage(st, m)
  <1>1. st \in Readings /\ seen \in SUBSET Sent
    BY DEF Read
  <1>2. new = [st EXCEPT !.toClean = @ \cup {m.message.entity}, !.broadcast = Append(@, m)]
    BY DEF ProcessMessage
  <1>3. /\ new.container = st.container /\ new.component = st.component
        /\ new.toClean = st.toClean \cup {m.message.entity} /\ new.broadcast = Append(st.broadcast, m)
    BY <1>1, <1>2 DEF Readings
  <1>4. /\ new.broadcast \in Seq(Sent) /\ Range(new.broadcast) = Range(st.broadcast) \cup {m}
    <2> DEFINE b == st.broadcast
    <2>1. b \in Seq(Sent)
      BY <1>1 DEF Readings
    <2>2. Append(b, m) \in Seq(Sent) /\ Range(Append(b, m)) = Range(b) \cup {m}
      <3> HIDE DEF b
      <3> QED
        BY <2>1, RangeOfAppend
    <2> QED
      BY <1>3, <2>2
  <1>5. m.message = DeleteEntity(m.message.entity) /\ m.message.entity \in Entity
    BY SentFields DEF Messages, Sent
  <1>6. new \in Readings
    <2>1. new = [container |-> st.container, component |-> st.component,
                 toClean |-> new.toClean, broadcast |-> new.broadcast]
      BY <1>1, <1>2 DEF Readings
    <2>2. new.toClean \in SUBSET Entity
      BY <1>1, <1>3, <1>5 DEF Readings
    <2> HIDE DEF new
    <2> QED
      BY <1>1, <1>4, <2>1, <2>2 DEF Readings
  <1>7. ContainerRead(first, new, seen \cup {m})
    BY <1>3 DEF Read, ContainerRead
  <1>8. ComponentRead(first, new, seen \cup {m})
    BY <1>3, <1>4 DEF Read, ComponentRead
  <1>9. BroadcastRead(new, seen \cup {m})
    <2>1. \A e \in Entity : m.message = DeleteEntity(e) <=> e = m.message.entity
      BY <1>5 DEF DeleteEntity
    <2>2. \A e \in Entity : ~OfComponent(m, e)
      BY DEF OfComponent
    <2> QED
      BY <1>3, <1>4, <1>5, <2>1, <2>2 DEF Read, BroadcastRead
  <1> HIDE DEF new
  <1>10. seen \cup {m} \in SUBSET Sent
    BY <1>1
  <1>11. Read(first, new, seen \cup {m})
    BY <1>6, <1>7, <1>8, <1>9, <1>10 DEF Read
  <1> QED
    BY <1>11 DEF new

(* An update of a removed entity is dropped.                               *)
LEMMA ReadSkipped ==
  ASSUME NEW first, NEW st, NEW seen, Read(first, st, seen), NEW m \in Sent,
         m.message.type = "COMPONENT", getEntityState(st.container, m.message.entity) = "Removed"
  PROVE  Read(first, ProcessMessage(st, m), seen \cup {m})
  <1>1. ProcessMessage(st, m) = st
    BY DEF ProcessMessage
  <1>2. IsRemoved(st.container, m.message.entity) /\ m.message.entity \in Entity
    BY SentFields DEF getEntityState
  <1>3. \A e \in Entity : m.message # DeleteEntity(e)
    BY SentFields
  <1>4. ContainerRead(first, st, seen \cup {m})
    BY DEF Read, ContainerRead
  <1>5. ComponentRead(first, st, seen \cup {m})
    BY DEF Read, ComponentRead
  <1>6. BroadcastRead(st, seen \cup {m})
    BY <1>2, <1>3 DEF Read, BroadcastRead, OfComponent
  <1>7. seen \cup {m} \in SUBSET Sent
    BY DEF Read
  <1> QED
    BY <1>1, <1>4, <1>5, <1>6, <1>7 DEF Read

(* An update of an entity in use, or not known yet, is compared with the   *)
(* value there is, and forwarded unless it loses.                          *)
LEMMA ReadUpdate ==
  ASSUME NEW first, NEW st, NEW seen, Read(first, st, seen), AtRest(first), NEW m \in Sent,
         m.message.type = "COMPONENT", getEntityState(st.container, m.message.entity) # "Removed"
  PROVE  Read(first, ProcessMessage(st, m), seen \cup {m})
  <1> DEFINE new == ProcessMessage(st, m)
             x == m.message
  <1>1. st \in Readings /\ seen \in SUBSET Sent /\ first \in Readings
    BY DEF Read, AtRest
  <1>2. /\ x.type = "COMPONENT" /\ x.entity \in Entity /\ x.timestamp \in Nat
        /\ x.data \in Values \cup {None} /\ x.data \in Nat /\ \A e \in Entity : x # DeleteEntity(e)
    BY SentFields
  <1>3. /\ st.container \in Containers /\ st.component \in Components
        /\ st.toClean \in SUBSET Entity /\ st.broadcast \in Seq(Sent)
        /\ \A e \in Entity : st.component.timestamps[e] \in Nat /\ st.component.data[e] \in Nat
        /\ \A e \in Entity : first.component.timestamps[e] \in Nat /\ first.component.data[e] \in Nat
    BY <1>1, ReadingFields
  <1>4. /\ new.container = IF getEntityState(st.container, x.entity) = "Unknown"
                           THEN updateUsedEntity(st.container, x.entity) ELSE st.container
        /\ new.component = updateFromCrdt(st.component, x)
        /\ new.toClean = st.toClean
        /\ new.broadcast = IF Loses(st.component, x) THEN st.broadcast ELSE Append(st.broadcast, m)
        /\ new = [container |-> new.container, component |-> new.component,
                  toClean |-> new.toClean, broadcast |-> new.broadcast]
    BY <1>1, <1>2 DEF ProcessMessage, Readings
  <1>5. /\ new.broadcast \in Seq(Sent)
        /\ Range(new.broadcast) = IF Loses(st.component, x) THEN Range(st.broadcast)
                                  ELSE Range(st.broadcast) \cup {m}
    <2> DEFINE b == st.broadcast
    <2>1. Append(b, m) \in Seq(Sent) /\ Range(Append(b, m)) = Range(b) \cup {m}
      <3>1. b \in Seq(Sent)
        BY <1>3
      <3> HIDE DEF b
      <3> QED
        BY <3>1, RangeOfAppend
    <2> QED
      BY <1>3, <1>4, <2>1
  <1>6. /\ new.component \in Components /\ new.component.dirty = st.component.dirty
        /\ \A e \in Entity :
             IF e = x.entity /\ Wins(st.component, x)
             THEN /\ new.component.timestamps[e] = x.timestamp /\ new.component.data[e] = x.data
                  /\ new.component.lastSentData[e] = x.data
             ELSE /\ new.component.timestamps[e] = st.component.timestamps[e]
                  /\ new.component.data[e] = st.component.data[e]
                  /\ new.component.lastSentData[e] = st.component.lastSentData[e]
    <2> DEFINE d == st.component
    <2> HIDE DEF x, d
    <2>1. CASE Wins(d, x)
      <3>1. updateFromCrdt(d, x) =
              [data |-> [d.data EXCEPT ![x.entity] = x.data],
               timestamps |-> [d.timestamps EXCEPT ![x.entity] = x.timestamp],
               dirty |-> d.dirty,
               lastSentData |-> [d.lastSentData EXCEPT ![x.entity] = x.data]]
        BY <1>3, <2>1 DEF updateFromCrdt, Components, d
      <3>2. /\ d.data \in [Entity -> Values \cup {None}] /\ d.timestamps \in [Entity -> Nat]
            /\ d.lastSentData \in [Entity -> Values \cup {None}] /\ d.dirty \in SUBSET Entity
        BY <1>3 DEF Components, d
      <3> QED
        BY <1>2, <1>4, <2>1, <3>1, <3>2 DEF Components, d
    <2>2. CASE ~Wins(d, x)
      BY <1>3, <1>4, <2>2 DEF updateFromCrdt, d
    <2> QED
      BY <2>1, <2>2 DEF d
  <1>7. new.container \in Containers
    BY <1>2, <1>3, <1>4, ContainerTypes
  <1> HIDE DEF new
  <1>8. new \in Readings
    BY <1>3, <1>4, <1>5, <1>6, <1>7 DEF Readings
  <1>9. ContainerRead(first, new, seen \cup {m})
    <2>1. CASE getEntityState(st.container, x.entity) = "Unknown"
      <3> DEFINE c == updateUsedEntity(st.container, x.entity)
      <3>1. new.container = c /\ ~IsRemoved(st.container, x.entity)
            /\ x.entity \notin st.container.usedEntities
        BY <1>4, <2>1 DEF getEntityState
      <3>2. /\ NextVersions(c) /\ c.toRemoveEntities = {} /\ c.entityCounter = st.container.entityCounter
            /\ c.usedEntities \subseteq st.container.usedEntities \cup {x.entity}
            /\ \A f \in Entity :
                 IsRemoved(c, f) <=> IsRemoved(st.container, f) \/ (f[1] = x.entity[1] /\ f[2] < x.entity[2])
        BY <1>2, <1>3, <3>1, UseOfUnknown DEF Read, ContainerRead
      <3> HIDE DEF c
      <3>3. \A e \in Entity :
              /\ IsRemoved(first.container, e) => IsRemoved(c, e)
              /\ IsRemoved(c, e) =>
                   \/ IsRemoved(first.container, e)
                   \/ \E k \in seen \cup {m} : k.message.entity[1] = e[1] /\ k.message.entity[2] > e[2]
        <4>1. ASSUME NEW e \in Entity, e[1] = x.entity[1], e[2] < x.entity[2]
              PROVE  \E k \in seen \cup {m} : k.message.entity[1] = e[1] /\ k.message.entity[2] > e[2]
          BY <1>2, <4>1, EntityIsFinite
        <4> QED
          BY <3>2, <4>1 DEF Read, ContainerRead
      <3>4. (\A k \in seen \cup {m} : getEntityState(first.container, k.message.entity) # "Unknown")
             => new.container = first.container
        <4>1. SUFFICES ASSUME \A k \in seen \cup {m} : getEntityState(first.container, k.message.entity) # "Unknown"
                       PROVE  FALSE
          OBVIOUS
        <4>2. st.container = first.container
          BY <4>1 DEF Read, ContainerRead
        <4> QED
          BY <2>1, <4>1, <4>2
      <3> QED
        BY <3>1, <3>2, <3>3, <3>4 DEF Read, ContainerRead
    <2>2. CASE getEntityState(st.container, x.entity) # "Unknown"
      <3>1. new.container = st.container
        BY <1>4, <2>2
      <3> QED
        BY <3>1 DEF Read, ContainerRead
    <2> QED
      BY <2>1, <2>2
  <1>10. ComponentRead(first, new, seen \cup {m})
    <2>1. new.component.dirty = {} /\ new.component.lastSentData = new.component.data
      <3>1. st.component.dirty = {} /\ st.component.lastSentData = st.component.data
        BY DEF Read, ComponentRead
      <3>2. \A e \in Entity : new.component.lastSentData[e] = new.component.data[e]
        BY <1>6, <3>1
      <3> QED
        BY <1>6, <3>1, <3>2 DEF Components
    <2>2. ASSUME NEW e \in Entity, e = x.entity, Wins(st.component, x)
          PROVE  /\ AtMost(st.component.timestamps[e], st.component.data[e], x.timestamp, x.data)
                 /\ ~Loses(st.component, x)
      BY <1>2, <1>3, <2>2 DEF Wins, Loses, AtMost
    <2>3. ASSUME NEW e \in Entity, e = x.entity, Wins(st.component, x)
          PROVE  ~IsRemoved(first.container, e)
      <3>1. getEntityState(st.container, e) # "Removed"
        BY <2>3
      <3>2. ~IsRemoved(st.container, e)
        <4>1. CASE e \in st.container.usedEntities
          <5>1. e[2] = st.container.removedEntities[e[1]] + 1
            BY <4>1 DEF Read, ContainerRead, NextVersions
          <5>2. e[1] \in Numbers /\ st.container.removedEntities \in Tombs
            BY <1>3, ContainerFields, EntityIsFinite
          <5>3. st.container.removedEntities[e[1]] \in Int
            BY <5>2, TombsAreIntegers
          <5> QED
            BY <5>1, <5>3 DEF IsRemoved
        <4>2. CASE e \notin st.container.usedEntities
          BY <3>1, <4>2 DEF getEntityState
        <4> QED
          BY <4>1, <4>2
      <3> QED
        BY <3>2 DEF Read, ContainerRead
    <2>4. \A e \in Entity :
            AtMost(first.component.timestamps[e], first.component.data[e],
                   st.component.timestamps[e], st.component.data[e])
      BY DEF Read, ComponentRead
    <2>5. SUFFICES ASSUME NEW e \in Entity
          PROVE  /\ AtMost(first.component.timestamps[e], first.component.data[e],
                           new.component.timestamps[e], new.component.data[e])
                 /\ \/ /\ new.component.timestamps[e] = first.component.timestamps[e]
                       /\ new.component.data[e] = first.component.data[e]
                    \/ /\ ~IsRemoved(first.container, e)
                       /\ \E k \in Range(new.broadcast) :
                            OfComponent(k, e) /\ k.message.timestamp = new.component.timestamps[e]
                                              /\ k.message.data = new.component.data[e]
      BY <2>1 DEF ComponentRead
    <2>6. CASE e = x.entity /\ Wins(st.component, x)
      <3>1. m \in Range(new.broadcast) /\ OfComponent(m, e)
        BY <1>2, <1>5, <2>2, <2>6 DEF OfComponent
      <3>2. AtMost(first.component.timestamps[e], first.component.data[e],
                   new.component.timestamps[e], new.component.data[e])
        BY <1>2, <1>3, <1>6, <2>2, <2>4, <2>6, SMTT(30) DEF AtMost
      <3> QED
        BY <1>6, <2>3, <2>6, <3>1, <3>2
    <2>7. CASE ~(e = x.entity /\ Wins(st.component, x))
      <3>1. new.component.timestamps[e] = st.component.timestamps[e]
            /\ new.component.data[e] = st.component.data[e]
        BY <1>6, <2>7
      <3>2. Range(st.broadcast) \subseteq Range(new.broadcast)
        BY <1>5
      <3> QED
        BY <2>4, <3>1, <3>2 DEF Read, ComponentRead
    <2> QED
      BY <2>6, <2>7
  <1>11. BroadcastRead(new, seen \cup {m})
    <2>1. new.toClean = {e \in Entity : \E k \in seen \cup {m} : k.message = DeleteEntity(e)}
      BY <1>2, <1>4 DEF Read, BroadcastRead
    <2>2. Range(new.broadcast) \subseteq seen \cup {m}
      BY <1>5 DEF Read, BroadcastRead
    <2>3. \A k \in seen \cup {m} : k.message.type = "DELETE_ENTITY" => k \in Range(new.broadcast)
      BY <1>2, <1>5 DEF Read, BroadcastRead
    <2>4. \A e \in Entity :
            AtMost(st.component.timestamps[e], st.component.data[e],
                   new.component.timestamps[e], new.component.data[e])
      BY <1>2, <1>3, <1>6 DEF Wins, AtMost
    <2>5. \A e \in Entity : ~IsRemoved(new.container, e) => ~IsRemoved(st.container, e)
      <3>1. CASE new.container = st.container
        BY <3>1
      <3>2. CASE new.container # st.container
        <4>1. new.container = updateUsedEntity(st.container, x.entity) /\ ~IsRemoved(st.container, x.entity)
          BY <1>4, <3>2 DEF getEntityState
        <4> QED
          BY <1>2, <1>3, <4>1, UseOfUnknown DEF Read, ContainerRead
      <3> QED
        BY <3>1, <3>2
    <2>6. /\ new.component.timestamps[x.entity] \in Nat /\ new.component.data[x.entity] \in Nat
          /\ AtMost(x.timestamp, x.data, new.component.timestamps[x.entity], new.component.data[x.entity])
      <3>1. CASE Wins(st.component, x)
        BY <1>2, <1>6, <3>1 DEF AtMost
      <3>2. CASE ~Wins(st.component, x)
        BY <1>2, <1>3, <1>6, <3>2, SMTT(30) DEF Wins, AtMost
      <3> QED
        BY <3>1, <3>2
    <2>7. ASSUME NEW k \in seen \cup {m}, NEW e \in Entity, OfComponent(k, e),
                 k \in Range(new.broadcast) \/ ~IsRemoved(new.container, e)
          PROVE  AtMost(k.message.timestamp, k.message.data,
                        new.component.timestamps[e], new.component.data[e])
      <3>1. CASE k = m
        BY <2>6, <2>7, <3>1 DEF OfComponent
      <3>2. CASE k # m
        <4>1. k \in seen /\ (k \in Range(st.broadcast) \/ ~IsRemoved(st.container, e))
          BY <1>5, <2>5, <2>7, <3>2
        <4>2. AtMost(k.message.timestamp, k.message.data,
                     st.component.timestamps[e], st.component.data[e])
          BY <2>7, <4>1 DEF Read, BroadcastRead
        <4>3. k.message.timestamp \in Nat /\ k.message.data \in Nat
          BY <1>1, <2>7, <4>1, SentFields DEF OfComponent
        <4>4. new.component.timestamps[e] \in Nat /\ new.component.data[e] \in Nat
          BY <1>6, ValuesAreNumbers DEF Components
        <4> QED
          BY <1>3, <2>4, <4>2, <4>3, <4>4 DEF AtMost
      <3> QED
        BY <3>1, <3>2
    <2> QED
      BY <2>1, <2>2, <2>3, <2>7 DEF BroadcastRead
  <1>12. seen \cup {m} \in SUBSET Sent
    BY <1>1
  <1>13. Read(first, new, seen \cup {m})
    BY <1>8, <1>9, <1>10, <1>11, <1>12 DEF Read
  <1> QED
    BY <1>13 DEF new

(* One more message.                                                       *)
LEMMA ReadOne ==
  ASSUME NEW first, NEW st, NEW seen, Read(first, st, seen), AtRest(first), NEW m \in Sent
  PROVE  Read(first, ProcessMessage(st, m), seen \cup {m})
  BY ReadDeletion, ReadSkipped, ReadUpdate, SentFields

(* The recursion of Processed, unfolded.                                   *)
LEMMA ProcessedSteps ==
  ASSUME NEW st, NEW messages, Len(messages) \in Nat
  PROVE  \E after : /\ after[0] = st
                    /\ \A i \in 1 .. Len(messages) : after[i] = ProcessMessage(after[i - 1], messages[i])
                    /\ Processed(st, messages) = after[Len(messages)]
  <1> DEFINE n == Len(messages)
             Is(f, k) == f = [i \in 0 .. k |->
                                IF i = 0 THEN st ELSE ProcessMessage(f[i - 1], messages[i])]
             Defined == {k \in Nat : \E f : Is(f, k)}
  <1>1. 0 \in Defined
    <2>1. Is([i \in 0 .. 0 |-> st], 0)
      OBVIOUS
    <2> QED
      BY <2>1
  <1>2. ASSUME NEW k \in Nat, k \in Defined PROVE k + 1 \in Defined
    <2>1. PICK f : Is(f, k)
      BY <1>2
    <2> DEFINE g == [i \in 0 .. k + 1 |->
                      IF i = k + 1 THEN ProcessMessage(f[k], messages[k + 1]) ELSE f[i]]
    <2>2. \A i \in 0 .. k : g[i] = f[i]
      OBVIOUS
    <2>3. ASSUME NEW i \in 0 .. k + 1
          PROVE  g[i] = IF i = 0 THEN st ELSE ProcessMessage(g[i - 1], messages[i])
      <3>1. CASE i = k + 1
        BY <3>1
      <3>2. CASE i # k + 1
        <4>1. i \in 0 .. k /\ (i # 0 => i - 1 \in 0 .. k)
          BY <3>2
        <4>2. f[i] = IF i = 0 THEN st ELSE ProcessMessage(f[i - 1], messages[i])
          BY <2>1, <4>1
        <4> QED
          BY <2>2, <4>1, <4>2
      <3> QED
        BY <3>1, <3>2
    <2>4. Is(g, k + 1)
      BY <2>3
    <2> HIDE DEF g, Is
    <2> QED
      BY <2>4
  <1>3. n \in Defined
    <2> HIDE DEF Defined
    <2> QED
      BY <1>1, <1>2, Induction
  <1> DEFINE after == CHOOSE f : Is(f, n)
  <1>4. Is(after, n)
    BY <1>3
  <1>5. Processed(st, messages) = after[n]
    BY DEF Processed
  <1> HIDE DEF after
  <1>6. /\ after[0] = st
        /\ \A i \in 1 .. n : after[i] = ProcessMessage(after[i - 1], messages[i])
    BY <1>4
  <1> QED
    BY <1>5, <1>6

(* Every message of the inbox, by induction over its length.               *)
LEMMA ReadAll ==
  ASSUME NEW first, AtRest(first), NEW messages \in Seq(Sent)
  PROVE  Read(first, Processed(first, messages), Range(messages))
  <1>0. Len(messages) \in Nat
    OBVIOUS
  <1>2. PICK after : /\ after[0] = first
                     /\ \A i \in 1 .. Len(messages) :
                          after[i] = ProcessMessage(after[i - 1], messages[i])
                     /\ Processed(first, messages) = after[Len(messages)]
    BY <1>0, ProcessedSteps
  <1> DEFINE n == Len(messages)
  <1>1. n \in Nat /\ \A i \in 1 .. n : messages[i] \in Sent
    OBVIOUS
  <1> DEFINE Upto(i) == {messages[j] : j \in 1 .. i}
             Done == {i \in Nat : i <= n => Read(first, after[i], Upto(i))}
  <1>3. 0 \in Done
    <2>1. Upto(0) = {}
      OBVIOUS
    <2> QED
      BY <1>2, <2>1, ReadNothing
  <1>4. ASSUME NEW i \in Nat, i \in Done PROVE i + 1 \in Done
    <2>1. SUFFICES ASSUME i + 1 <= n PROVE Read(first, after[i + 1], Upto(i + 1))
      OBVIOUS
    <2>2. i + 1 \in 1 .. n /\ i <= n /\ (i + 1) - 1 = i
      BY <1>1, <2>1
    <2>3. after[i + 1] = ProcessMessage(after[i], messages[i + 1])
      BY <1>2, <2>2
    <2>4. Upto(i + 1) = Upto(i) \cup {messages[i + 1]}
      <3>1. 1 .. i + 1 = (1 .. i) \cup {i + 1}
        OBVIOUS
      <3> QED
        BY <3>1
    <2>5. Read(first, after[i], Upto(i)) /\ messages[i + 1] \in Sent
      BY <1>1, <1>4, <2>2
    <2> HIDE DEF Upto
    <2> QED
      BY <2>3, <2>4, <2>5, ReadOne
  <1>5. n \in Done
    <2> HIDE DEF Done
    <2> QED
      BY <1>1, <1>3, <1>4, Induction
  <1>6. Upto(n) = Range(messages)
    BY RangeOfSequence
  <1> QED
    BY <1>1, <1>2, <1>5, <1>6
-----------------------------------------------------------------------------
(* What a flush puts on the wire.                                          *)
From(g, message) == [from |-> g, message |-> message]

UpdateOf(d, e) == ComponentMessage(e, d.timestamps[e] + 1, d.data[e])

(* The messages an engine sends of its own.                                *)
LEMMA OwnIsSent ==
  ASSUME NEW g \in Engines, NEW messages \in Seq(Messages)
  PROVE  /\ Own(g, messages) \in Seq(Sent)
         /\ Range(Own(g, messages)) = {From(g, m) : m \in Range(messages)}
  <1>1. /\ DOMAIN messages = 1 .. Len(messages) /\ Len(messages) \in Nat
        /\ \A i \in 1 .. Len(messages) : messages[i] \in Messages
    OBVIOUS
  <1>2. Own(g, messages) \in [1 .. Len(messages) -> Sent]
    BY <1>1 DEF Own, Sent
  <1>3. Own(g, messages) \in Seq(Sent)
    BY <1>1, <1>2
  <1>4. Range(Own(g, messages)) = {From(g, m) : m \in Range(messages)}
    BY <1>1 DEF Own, Range, From
  <1> QED
    BY <1>3, <1>4

(* getCrdtUpdates sends one update for each entity that is dirty and not   *)
(* suppressed.                                                             *)
LEMMA UpdatesAreSent ==
  ASSUME NEW d \in Components
  PROVE  /\ getCrdtUpdates(d) \in Seq(Messages)
         /\ Range(getCrdtUpdates(d)) = {UpdateOf(d, e) : e \in ToSend(d)}
  <1> DEFINE S == ToSend(d)
             entities == SetToSeq(S)
  <1>1. S \subseteq Entity /\ IsFiniteSet(S)
    BY EntityIsFinite, FS_Subset DEF ToSend, Components
  <1>2. entities \in Seq(Entity) /\ Range(entities) = S
    <2> HIDE DEF S
    <2> QED
      BY <1>1, SetToSeqIsSequence
  <1>3. \A e \in Entity : UpdateOf(d, e) \in Messages
    BY DEF UpdateOf, ComponentMessage, Messages, Components
  <1>4. getCrdtUpdates(d) = [i \in DOMAIN entities |-> UpdateOf(d, entities[i])]
    BY DEF getCrdtUpdates, UpdateOf
  <1> HIDE DEF entities, S
  <1>5. /\ DOMAIN entities = 1 .. Len(entities) /\ Len(entities) \in Nat
        /\ \A i \in 1 .. Len(entities) : entities[i] \in Entity
    BY <1>2
  <1>6. getCrdtUpdates(d) \in [1 .. Len(entities) -> Messages]
    BY <1>3, <1>4, <1>5
  <1>7. getCrdtUpdates(d) \in Seq(Messages)
    BY <1>5, <1>6
  <1>8. Range(getCrdtUpdates(d)) = {UpdateOf(d, e) : e \in Range(entities)}
    BY <1>4 DEF Range
  <1> QED
    BY <1>2, <1>7, <1>8 DEF S

(* And one deletion for each entity pending removal.                       *)
LEMMA DeletionsAreSent ==
  ASSUME NEW es \in SUBSET Entity
  PROVE  /\ Deletions(es) \in Seq(Messages)
         /\ Range(Deletions(es)) = {DeleteEntity(e) : e \in es}
  <1> DEFINE entities == SetToSeq(es)
  <1>1. IsFiniteSet(es)
    BY EntityIsFinite, FS_Subset
  <1>2. entities \in Seq(Entity) /\ Range(entities) = es
    BY <1>1, SetToSeqIsSequence
  <1>3. \A e \in Entity : DeleteEntity(e) \in Messages
    BY DEF DeleteEntity, Messages
  <1>4. Deletions(es) = [i \in DOMAIN entities |-> DeleteEntity(entities[i])]
    BY DEF Deletions
  <1> HIDE DEF entities
  <1>5. /\ DOMAIN entities = 1 .. Len(entities) /\ Len(entities) \in Nat
        /\ \A i \in 1 .. Len(entities) : entities[i] \in Entity
    BY <1>2
  <1>6. Deletions(es) \in [1 .. Len(entities) -> Messages]
    BY <1>3, <1>4, <1>5
  <1>7. Deletions(es) \in Seq(Messages)
    BY <1>5, <1>6
  <1>8. Range(Deletions(es)) = {DeleteEntity(e) : e \in Range(entities)}
    BY <1>4 DEF Range
  <1> QED
    BY <1>2, <1>7, <1>8

(* A flush sends what was processed, the updates and the deletions.        *)
LEMMA OutgoingIs ==
  ASSUME TypeOK, NEW g \in Engines
  PROVE  /\ Outgoing(g) \in Seq(Sent)
         /\ Range(Outgoing(g)) =
              Range(broadcastMessages[g])
                \cup {From(g, UpdateOf(component[g], e)) : e \in ToSend(component[g])}
                \cup {From(g, DeleteEntity(e)) : e \in container[g].toRemoveEntities}
  <1> DEFINE forwarded == broadcastMessages[g]
             updates == Own(g, getCrdtUpdates(component[g]))
             deletions == Own(g, Deletions(container[g].toRemoveEntities))
  <1>1. /\ forwarded \in Seq(Sent) /\ component[g] \in Components
        /\ container[g].toRemoveEntities \in SUBSET Entity
    BY DEF TypeOK, Containers
  <1>2. /\ updates \in Seq(Sent)
        /\ Range(updates) = {From(g, UpdateOf(component[g], e)) : e \in ToSend(component[g])}
    <2>1. /\ getCrdtUpdates(component[g]) \in Seq(Messages)
          /\ Range(getCrdtUpdates(component[g])) = {UpdateOf(component[g], e) : e \in ToSend(component[g])}
      BY <1>1, UpdatesAreSent
    <2> QED
      BY <2>1, OwnIsSent
  <1>3. /\ deletions \in Seq(Sent)
        /\ Range(deletions) = {From(g, DeleteEntity(e)) : e \in container[g].toRemoveEntities}
    <2>1. /\ Deletions(container[g].toRemoveEntities) \in Seq(Messages)
          /\ Range(Deletions(container[g].toRemoveEntities))
               = {DeleteEntity(e) : e \in container[g].toRemoveEntities}
      BY <1>1, DeletionsAreSent
    <2> QED
      BY <2>1, OwnIsSent
  <1>4. Outgoing(g) = (forwarded \o updates) \o deletions
    BY DEF Outgoing
  <1> HIDE DEF forwarded, updates, deletions
  <1> DEFINE both == forwarded \o updates
  <1>5. both \in Seq(Sent) /\ Range(both) = Range(forwarded) \cup Range(updates)
    BY <1>1, <1>2, RangeOfConcat
  <1>6. Outgoing(g) \in Seq(Sent) /\ Range(Outgoing(g)) = Range(both) \cup Range(deletions)
    <2>1. Outgoing(g) = both \o deletions
      BY <1>4
    <2> HIDE DEF both
    <2> QED
      BY <1>3, <1>5, <2>1, RangeOfConcat
  <1> QED
    BY <1>2, <1>3, <1>5, <1>6 DEF forwarded

(* The recursion of Relayed, unfolded.                                     *)
LEMMA RelayedSteps ==
  ASSUME NEW g, NEW h, NEW outgoing, Len(outgoing) \in Nat
  PROVE  \E kept :
           /\ kept[0] = <<>>
           /\ \A i \in 1 .. Len(outgoing) :
                kept[i] = IF Accepts(h, outgoing[i])
                          THEN Append(kept[i - 1], [from |-> g, message |-> outgoing[i].message])
                          ELSE kept[i - 1]
           /\ Relayed(g, h, outgoing) = kept[Len(outgoing)]
  <1> DEFINE n == Len(outgoing)
             More(s, i) == IF Accepts(h, outgoing[i])
                           THEN Append(s, [from |-> g, message |-> outgoing[i].message])
                           ELSE s
             Is(f, k) == f = [i \in 0 .. k |-> IF i = 0 THEN <<>> ELSE More(f[i - 1], i)]
             Defined == {k \in Nat : \E f : Is(f, k)}
  <1>1. 0 \in Defined
    <2>1. Is([i \in 0 .. 0 |-> <<>>], 0)
      OBVIOUS
    <2> QED
      BY <2>1
  <1>2. ASSUME NEW k \in Nat, k \in Defined PROVE k + 1 \in Defined
    <2> HIDE DEF More
    <2>1. PICK f : Is(f, k)
      BY <1>2
    <2> DEFINE new == [i \in 0 .. k + 1 |-> IF i = k + 1 THEN More(f[k], k + 1) ELSE f[i]]
    <2>2. \A i \in 0 .. k : new[i] = f[i]
      OBVIOUS
    <2>3. ASSUME NEW i \in 0 .. k + 1
          PROVE  new[i] = IF i = 0 THEN <<>> ELSE More(new[i - 1], i)
      <3>1. CASE i = k + 1
        BY <3>1
      <3>2. CASE i # k + 1
        <4>1. i \in 0 .. k /\ (i # 0 => i - 1 \in 0 .. k)
          BY <3>2
        <4>2. f[i] = IF i = 0 THEN <<>> ELSE More(f[i - 1], i)
          BY <2>1, <4>1
        <4> QED
          BY <2>2, <4>1, <4>2
      <3> QED
        BY <3>1, <3>2
    <2>4. Is(new, k + 1)
      BY <2>3, SMTT(30)
    <2> HIDE DEF new, Is
    <2> QED
      BY <2>4
  <1>3. n \in Defined
    <2> HIDE DEF Defined
    <2> QED
      BY <1>1, <1>2, Induction
  <1> DEFINE kept == CHOOSE f : Is(f, n)
  <1>4. Is(kept, n)
    BY <1>3, Zenon
  <1>5. Relayed(g, h, outgoing) = kept[n]
    BY DEF Relayed
  <1> HIDE DEF kept
  <1>6. kept[0] = <<>> /\ \A i \in 1 .. n : kept[i] = More(kept[i - 1], i)
    <2> HIDE DEF More
    <2> QED
      BY <1>4
  <1> QED
    BY <1>5, <1>6

(* The echo filter: a transport is not sent what came from it.             *)
LEMMA RelayedIs ==
  ASSUME NEW g \in Engines, NEW h, NEW outgoing \in Seq(Sent)
  PROVE  /\ Relayed(g, h, outgoing) \in Seq(Sent)
         /\ Range(Relayed(g, h, outgoing)) =
              {From(g, m.message) : m \in {k \in Range(outgoing) : k.from # h}}
  <1> DEFINE n == Len(outgoing)
             Upto(i) == {From(g, outgoing[j].message) : j \in {k \in 1 .. i : outgoing[k].from # h}}
  <1>1. n \in Nat /\ \A i \in 1 .. n : outgoing[i] \in Sent
    OBVIOUS
  <1>2. PICK kept :
           /\ kept[0] = <<>>
           /\ \A i \in 1 .. n :
                kept[i] = IF Accepts(h, outgoing[i])
                          THEN Append(kept[i - 1], [from |-> g, message |-> outgoing[i].message])
                          ELSE kept[i - 1]
           /\ Relayed(g, h, outgoing) = kept[n]
    BY <1>1, RelayedSteps
  <1> DEFINE Done == {i \in Nat : i <= n => kept[i] \in Seq(Sent) /\ Range(kept[i]) = Upto(i)}
  <1>3. 0 \in Done
    <2>1. Upto(0) = {} /\ <<>> \in Seq(Sent)
      OBVIOUS
    <2> HIDE DEF Upto
    <2>2. kept[0] \in Seq(Sent) /\ Range(kept[0]) = Upto(0)
      BY <1>2, <2>1, RangeOfEmpty
    <2> QED
      BY <2>2
  <1>4. ASSUME NEW i \in Nat, i \in Done PROVE i + 1 \in Done
    <2>1. SUFFICES ASSUME i + 1 <= n
                   PROVE  kept[i + 1] \in Seq(Sent) /\ Range(kept[i + 1]) = Upto(i + 1)
      OBVIOUS
    <2> DEFINE m == outgoing[i + 1]
               s == kept[i]
    <2>2. i + 1 \in 1 .. n /\ i <= n /\ (i + 1) - 1 = i
      BY <1>1, <2>1
    <2>3. s \in Seq(Sent) /\ Range(s) = Upto(i)
      BY <1>4, <2>2
    <2>4. m \in Sent /\ From(g, m.message) \in Sent
      BY <1>1, <2>2, SentFields DEF From, Sent
    <2>5. 1 .. i + 1 = (1 .. i) \cup {i + 1}
      OBVIOUS
    <2>6. CASE m.from # h
      <3>1. kept[i + 1] = Append(s, From(g, m.message))
        BY <1>2, <2>2, <2>6 DEF Accepts, From
      <3>2. Upto(i + 1) = Upto(i) \cup {From(g, m.message)}
        BY <2>5, <2>6
      <3> DEFINE x == From(g, m.message)
      <3>3. x \in Sent /\ s \in Seq(Sent)
        BY <2>3, <2>4
      <3>4. Append(s, x) \in Seq(Sent) /\ Range(Append(s, x)) = Range(s) \cup {x}
        <4> HIDE DEF x, s
        <4> QED
          BY <3>3, RangeOfAppend
      <3> HIDE DEF Upto
      <3> QED
        BY <2>3, <3>1, <3>2, <3>4
    <2>7. CASE m.from = h
      <3>1. kept[i + 1] = s
        BY <1>2, <2>2, <2>7 DEF Accepts
      <3>2. Upto(i + 1) = Upto(i)
        BY <2>5, <2>7
      <3> QED
        BY <2>3, <3>1, <3>2
    <2> QED
      BY <2>6, <2>7
  <1>5. n \in Done
    <2> HIDE DEF Done
    <2> QED
      BY <1>1, <1>3, <1>4, Induction
  <1>6. Upto(n) = {From(g, m.message) : m \in {k \in Range(outgoing) : k.from # h}}
    <2>1. Range(outgoing) = {outgoing[i] : i \in 1 .. n}
      BY RangeOfSequence
    <2> QED
      BY <2>1
  <1> QED
    BY <1>1, <1>2, <1>5, <1>6
-----------------------------------------------------------------------------
(* The types, whenever scene code runs.                                    *)
LEMMA ReadingStays ==
  ASSUME NEW st \in Readings, NEW m \in Sent
  PROVE  ProcessMessage(st, m) \in Readings
  <1> DEFINE b == st.broadcast
             x == m.message
  <1>1. /\ st.container \in Containers /\ st.component \in Components
        /\ st.toClean \in SUBSET Entity /\ b \in Seq(Sent)
    BY DEF Readings
  <1>2. Append(b, m) \in Seq(Sent)
    <2> HIDE DEF b
    <2> QED
      BY <1>1, RangeOfAppend
  <1>3. x.entity \in Entity
    BY SentFields
  <1>4. CASE x.type = "DELETE_ENTITY"
    <2>1. ProcessMessage(st, m) = [container |-> st.container, component |-> st.component,
             toClean |-> st.toClean \cup {x.entity}, broadcast |-> Append(b, m)]
      BY <1>4 DEF ProcessMessage, Readings
    <2> HIDE DEF b, x
    <2> QED
      BY <1>1, <1>2, <1>3, <2>1 DEF Readings
  <1>5. CASE x.type # "DELETE_ENTITY" /\ getEntityState(st.container, x.entity) = "Removed"
    BY <1>5 DEF ProcessMessage
  <1>6. CASE x.type # "DELETE_ENTITY" /\ getEntityState(st.container, x.entity) # "Removed"
    <2> DEFINE c == IF getEntityState(st.container, x.entity) = "Unknown"
                    THEN updateUsedEntity(st.container, x.entity) ELSE st.container
               d == updateFromCrdt(st.component, x)
               s == IF Loses(st.component, x) THEN b ELSE Append(b, m)
    <2>1. ProcessMessage(st, m) =
            [container |-> c, component |-> d, toClean |-> st.toClean, broadcast |-> s]
      BY <1>6 DEF ProcessMessage, Readings
    <2>2. c \in Containers
      BY <1>1, <1>3, ContainerTypes
    <2>3. d \in Components
      <3>1. x.timestamp \in Nat /\ x.data \in Values \cup {None}
        BY <1>6, SentFields
      <3> DEFINE e == st.component
      <3>2. CASE Wins(e, x)
        <4>1. updateFromCrdt(e, x) =
                [data |-> [e.data EXCEPT ![x.entity] = x.data],
                 timestamps |-> [e.timestamps EXCEPT ![x.entity] = x.timestamp],
                 dirty |-> e.dirty,
                 lastSentData |-> [e.lastSentData EXCEPT ![x.entity] = x.data]]
          BY <1>1, <3>2 DEF updateFromCrdt, Components
        <4>2. /\ e.data \in [Entity -> Values \cup {None}] /\ e.timestamps \in [Entity -> Nat]
              /\ e.lastSentData \in [Entity -> Values \cup {None}] /\ e.dirty \in SUBSET Entity
          BY <1>1 DEF Components
        <4>3. d = updateFromCrdt(e, x)
          OBVIOUS
        <4> HIDE DEF d, e, x
        <4> QED
          BY <1>3, <3>1, <4>1, <4>2, <4>3 DEF Components
      <3>3. CASE ~Wins(e, x)
        BY <1>1, <3>3 DEF updateFromCrdt
      <3> QED
        BY <3>2, <3>3
    <2>4. s \in Seq(Sent)
      BY <1>1, <1>2
    <2> HIDE DEF c, d, s
    <2> QED
      BY <1>1, <2>1, <2>2, <2>3, <2>4 DEF Readings
  <1> QED
    BY <1>4, <1>5, <1>6

(* Processing the inbox keeps the engine well formed.                      *)
LEMMA ProcessedType ==
  ASSUME NEW st \in Readings, NEW messages \in Seq(Sent)
  PROVE  Processed(st, messages) \in Readings
  <1> DEFINE n == Len(messages)
  <1>1. n \in Nat /\ \A i \in 1 .. n : messages[i] \in Sent
    OBVIOUS
  <1>2. PICK after : /\ after[0] = st
                     /\ \A i \in 1 .. n : after[i] = ProcessMessage(after[i - 1], messages[i])
                     /\ Processed(st, messages) = after[n]
    BY <1>1, ProcessedSteps
  <1> DEFINE Done == {i \in Nat : i <= n => after[i] \in Readings}
  <1>3. 0 \in Done
    BY <1>2
  <1>4. ASSUME NEW i \in Nat, i \in Done PROVE i + 1 \in Done
    <2>1. SUFFICES ASSUME i + 1 <= n PROVE after[i + 1] \in Readings
      OBVIOUS
    <2>2. i + 1 \in 1 .. n /\ i <= n /\ (i + 1) - 1 = i
      BY <1>1, <2>1
    <2>3. after[i + 1] = ProcessMessage(after[i], messages[i + 1])
      BY <1>2, <2>2
    <2> QED
      BY <1>1, <1>4, <2>2, <2>3, ReadingStays
  <1>5. n \in Done
    <2> HIDE DEF Done
    <2> QED
      BY <1>1, <1>3, <1>4, Induction
  <1> QED
    BY <1>1, <1>2, <1>5

(* So it is when receiveMessages starts.                                   *)
LEMMA StartType ==
  ASSUME TypeOK, NEW g \in Engines
  PROVE  Start(g) \in Readings /\ receivedMessages[g] \in Seq(Sent)
  BY DEF TypeOK, Start, Readings

(* Cleaning changes the container and the component, and forwards nothing. *)
LEMMA CleanedIs ==
  ASSUME NEW st \in Readings
  PROVE  /\ Cleaned(st) \in Readings
         /\ Cleaned(st).container = updateRemovedEntity(st.container, st.toClean)
         /\ Cleaned(st).component = entityDeleted(st.component, st.toClean)
         /\ Cleaned(st).broadcast = st.broadcast
  <1> DEFINE c == updateRemovedEntity(st.container, st.toClean)
             d == entityDeleted(st.component, st.toClean)
  <1>1. Cleaned(st) = [container |-> c, component |-> d,
                       toClean |-> st.toClean, broadcast |-> st.broadcast]
    <2>1. Cleaned(st) = [st EXCEPT !.container = c, !.component = d]
      BY DEF Cleaned, Readings
    <2> HIDE DEF c, d
    <2> QED
      BY <2>1 DEF Readings
  <1>2. c \in Containers /\ d \in Components
    <2>1. st.container \in Containers /\ st.component \in Components /\ st.toClean \in SUBSET Entity
      BY DEF Readings
    <2> QED
      BY <2>1, RemovalTypes, CleaningTypes
  <1> HIDE DEF c, d
  <1> QED
    BY <1>1, <1>2 DEF Readings, c, d

(* What receiveMessages and sendMessages do to the engine that ticks; the  *)
(* other engines only have messages delivered to them.                     *)
LEMMA ReceiveEffect ==
  ASSUME TypeOK, NEW g \in Engines, receiveMessages(g)
  PROVE  LET st == Processed(Start(g), receivedMessages[g])
         IN  /\ st \in Readings /\ phase[g] = "idle" /\ phase' = [phase EXCEPT ![g] = "systems"]
             /\ container' = [container EXCEPT ![g] = updateRemovedEntity(st.container, st.toClean)]
             /\ component' = [component EXCEPT ![g] = entityDeleted(st.component, st.toClean)]
             /\ broadcastMessages' = [broadcastMessages EXCEPT ![g] = st.broadcast]
             /\ receivedMessages' = [receivedMessages EXCEPT ![g] = <<>>]
             /\ calls' = calls
  <1> DEFINE st == Processed(Start(g), receivedMessages[g])
  <1>1. st \in Readings
    BY StartType, ProcessedType
  <1>2. /\ phase[g] = "idle" /\ phase' = [phase EXCEPT ![g] = "systems"]
        /\ container' = [container EXCEPT ![g] = Cleaned(st).container]
        /\ component' = [component EXCEPT ![g] = Cleaned(st).component]
        /\ broadcastMessages' = [broadcastMessages EXCEPT ![g] = Cleaned(st).broadcast]
        /\ receivedMessages' = [receivedMessages EXCEPT ![g] = <<>>]
        /\ calls' = calls
    BY DEF receiveMessages
  <1> HIDE DEF st
  <1>3. /\ Cleaned(st).container = updateRemovedEntity(st.container, st.toClean)
        /\ Cleaned(st).component = entityDeleted(st.component, st.toClean)
        /\ Cleaned(st).broadcast = st.broadcast
    BY <1>1, CleanedIs
  <1> QED
    BY <1>1, <1>2, <1>3 DEF st

(* And sendMessages, in the action's own terms.                             *)
LEMMA SendEffect ==
  ASSUME TypeOK, NEW g \in Engines, sendMessages(g)
  PROVE  /\ phase[g] = "systems" /\ phase' = [phase EXCEPT ![g] = "idle"]
         /\ container' = [container EXCEPT ![g] = releaseRemovedEntities(@)]
         /\ component' = [component EXCEPT ![g] = Flushed(@)]
         /\ broadcastMessages' = [broadcastMessages EXCEPT ![g] = <<>>]
         /\ receivedMessages' \in [Engines -> Seq(Sent)]
         /\ \A h \in Engines \ Neighbours(g) : receivedMessages'[h] = receivedMessages[h]
         /\ \A h \in Neighbours(g) :
              Range(receivedMessages'[h]) =
                Range(receivedMessages[h])
                  \cup {From(g, m.message) : m \in {k \in Range(Outgoing(g)) : k.from # h}}
         /\ calls' = calls
  <1> DEFINE out == Outgoing(g)
  <1>1. out \in Seq(Sent)
    BY OutgoingIs
  <1>2. receivedMessages' = [h \in Engines |->
           IF h \in Neighbours(g) THEN receivedMessages[h] \o Relayed(g, h, out)
           ELSE receivedMessages[h]]
    BY DEF sendMessages
  <1>3. ASSUME NEW h \in Engines
        PROVE  /\ receivedMessages[h] \o Relayed(g, h, out) \in Seq(Sent)
               /\ Range(receivedMessages[h] \o Relayed(g, h, out)) =
                    Range(receivedMessages[h])
                      \cup {From(g, m.message) : m \in {k \in Range(out) : k.from # h}}
    <2> DEFINE s == receivedMessages[h]
               t == Relayed(g, h, out)
    <2>1. s \in Seq(Sent)
      BY DEF TypeOK
    <2>2. /\ t \in Seq(Sent)
          /\ Range(t) = {From(g, m.message) : m \in {k \in Range(out) : k.from # h}}
      <3> HIDE DEF out
      <3> QED
        BY <1>1, RelayedIs
    <2>3. s \o t \in Seq(Sent) /\ Range(s \o t) = Range(s) \cup Range(t)
      <3> HIDE DEF s, t
      <3> QED
        BY <2>1, <2>2, RangeOfConcat
    <2> QED
      BY <2>2, <2>3
  <1> HIDE DEF out
  <1>4. receivedMessages' \in [Engines -> Seq(Sent)]
    BY <1>2, <1>3 DEF TypeOK
  <1>5. Neighbours(g) \subseteq Engines
    BY DEF Neighbours, Engines
  <1>6. /\ \A h \in Engines \ Neighbours(g) : receivedMessages'[h] = receivedMessages[h]
        /\ \A h \in Neighbours(g) :
              Range(receivedMessages'[h]) =
                Range(receivedMessages[h])
                  \cup {From(g, m.message) : m \in {k \in Range(out) : k.from # h}}
    BY <1>2, <1>3, <1>5
  <1> QED
    BY <1>4, <1>6 DEF sendMessages, out

(* Preloaded entities are first versions.                                  *)
LEMMA PreloadedAre ==
  \A e \in PreloadedEntities : e \in Entity /\ e[1] \in PreloadedNumbers /\ e[2] = 0
  <1>1. 0 \in Versions
    BY SceneAssumption DEF Versions
  <1>2. \A e \in PreloadedNumbers \X {0} :
          e[1] \in PreloadedNumbers /\ e[2] = 0 /\ e = <<e[1], e[2]>>
    OBVIOUS
  <1>3. \A e \in PreloadedEntities : e[1] \in PreloadedNumbers /\ e[2] = 0 /\ e = <<e[1], e[2]>>
    BY <1>2 DEF PreloadedEntities
  <1>4. \A n \in PreloadedNumbers : <<n, 0>> \in Entity
    BY <1>1, SceneAssumption, EntityIsFinite
  <1> QED
    BY <1>3, <1>4

(* Type correctness holds at the start, and every step keeps it.           *)
LEMMA InitTypeOK == Init => TypeOK
  <1> SUFFICES ASSUME Init PROVE TypeOK
    OBVIOUS
  <1>1. FirstValue \in Values /\ FirstCounter \in Nat /\ PreloadedEntities \subseteq Entity
    <2>1. FirstValue \in Values
      BY SceneAssumption DEF FirstValue
    <2>2. FirstCounter \in Nat
      BY SceneAssumption DEF FirstCounter
    <2> QED
      BY <2>1, <2>2, PreloadedAre
  <1>2. \A g \in Engines : container[g] \in Containers /\ component[g] \in Components
    BY <1>1 DEF Init, Containers, Components, Versions
  <1>3. container \in [Engines -> Containers] /\ component \in [Engines -> Components]
    BY <1>2 DEF Init
  <1>4. calls \in 0 .. MaxCalls
    BY SceneAssumption DEF Init
  <1>5. /\ phase \in [Engines -> {"idle", "systems"}]
        /\ receivedMessages \in [Engines -> Seq(Sent)] /\ broadcastMessages \in [Engines -> Seq(Sent)]
    BY DEF Init
  <1> QED
    BY <1>3, <1>4, <1>5 DEF TypeOK

(* One step per action: the engine that acts stays well formed.            *)
LEMMA NextTypeOK == TypeOK /\ [Next]_vars => TypeOK'
  <1> SUFFICES ASSUME TypeOK, [Next]_vars PROVE TypeOK'
    OBVIOUS
  <1>1. CASE UNCHANGED vars
    BY <1>1 DEF vars, TypeOK
  <1>2. ASSUME NEW g \in Engines, MayCall(g) PROVE calls' \in 0 .. MaxCalls
    BY <1>2, SceneAssumption DEF MayCall, TypeOK
  <1>3. CASE addEntity
    <2>1. PICK c \in generateEntity(container[Scene]) : container' = [container EXCEPT ![Scene] = c]
      BY <1>3 DEF addEntity
    <2>2. Scene \in Engines /\ container[Scene] \in Containers
      BY DEF Engines, TypeOK
    <2>3. c \in Containers
      BY <2>1, <2>2, GeneratedTypes
    <2> QED
      BY <1>2, <1>3, <2>1, <2>2, <2>3 DEF addEntity, TypeOK
  <1>4. ASSUME NEW g \in Engines, NEW e \in Entity, NEW v \in Values, write(g, e, v) PROVE TypeOK'
    <2>1. component[g] \in Components
      BY DEF TypeOK
    <2>2. createOrReplace(component[g], e, v) \in Components /\ mutate(component[g], e, v) \in Components
      BY <2>1, ComponentTypes
    <2>3. component' \in [Engines -> Components]
      BY <1>4, <2>2 DEF write, TypeOK
    <2> QED
      BY <1>2, <1>4, <2>3 DEF write, TypeOK
  <1>5. ASSUME NEW g \in Engines, NEW e \in Entity, deleteFrom(g, e) PROVE TypeOK'
    <2>1. component[g] \in Components /\ {e} \in SUBSET Entity
      BY DEF TypeOK
    <2>2. entityDeleted(component[g], {e}) \in Components
      BY <2>1, CleaningTypes
    <2> QED
      BY <1>2, <1>5, <2>2 DEF deleteFrom, TypeOK
  <1>6. ASSUME NEW g \in Engines, NEW e \in Entity, removeEntity(g, e) PROVE TypeOK'
    <2>1. component[g] \in Components /\ container[g] \in Containers /\ {e} \in SUBSET Entity
      BY DEF TypeOK
    <2>2. entityDeleted(component[g], {e}) \in Components /\ removeFromContainer(container[g], e) \in Containers
      BY <2>1, CleaningTypes, ContainerTypes
    <2> QED
      BY <1>2, <1>6, <2>2 DEF removeEntity, TypeOK
  <1>7. ASSUME NEW g \in Engines, receiveMessages(g) PROVE TypeOK'
    <2> DEFINE st == Processed(Start(g), receivedMessages[g])
               c == updateRemovedEntity(st.container, st.toClean)
               d == entityDeleted(st.component, st.toClean)
    <2>1. /\ st \in Readings /\ phase' = [phase EXCEPT ![g] = "systems"]
          /\ container' = [container EXCEPT ![g] = c] /\ component' = [component EXCEPT ![g] = d]
          /\ broadcastMessages' = [broadcastMessages EXCEPT ![g] = st.broadcast]
          /\ receivedMessages' = [receivedMessages EXCEPT ![g] = <<>>] /\ calls' = calls
      BY <1>7, ReceiveEffect
    <2>2. /\ st.container \in Containers /\ st.component \in Components
          /\ st.toClean \in SUBSET Entity /\ st.broadcast \in Seq(Sent)
      <3> HIDE DEF st
      <3> QED
        BY <2>1 DEF Readings
    <2>3. c \in Containers /\ d \in Components
      <3> HIDE DEF st
      <3> QED
        BY <2>2, RemovalTypes, CleaningTypes
    <2> HIDE DEF st, c, d
    <2> QED
      BY <2>1, <2>2, <2>3 DEF TypeOK
  <1>8. ASSUME NEW g \in Engines, sendMessages(g) PROVE TypeOK'
    <2>1. container[g] \in Containers /\ component[g] \in Components
      BY DEF TypeOK
    <2>2. releaseRemovedEntities(container[g]) \in Containers /\ Flushed(component[g]) \in Components
      BY <2>1, RemovalTypes, CleaningTypes
    <2>3. /\ phase' = [phase EXCEPT ![g] = "idle"]
          /\ container' = [container EXCEPT ![g] = releaseRemovedEntities(@)]
          /\ component' = [component EXCEPT ![g] = Flushed(@)]
          /\ broadcastMessages' = [broadcastMessages EXCEPT ![g] = <<>>]
          /\ receivedMessages' \in [Engines -> Seq(Sent)] /\ calls' = calls
      BY <1>8, SendEffect
    <2>4. container' \in [Engines -> Containers] /\ component' \in [Engines -> Components]
      BY <2>2, <2>3 DEF TypeOK
    <2>5. phase' \in [Engines -> {"idle", "systems"}] /\ broadcastMessages' \in [Engines -> Seq(Sent)]
      BY <2>3 DEF TypeOK
    <2> QED
      BY <2>3, <2>4, <2>5 DEF TypeOK
  <1> QED
    BY <1>1, <1>3, <1>4, <1>5, <1>6, <1>7, <1>8 DEF Next

(* The maps keep their keys and ranges, no id outgrows its versions, and   *)
(* whatever is in flight is a message about an entity (engine/index.ts).   *)
THEOREM TypeCorrect == Spec => []TypeOK
  BY InitTypeOK, NextTypeOK, PTL DEF Spec
-----------------------------------------------------------------------------
(* What the operations do, field by field.                                 *)
LEMMA WriteMeaning ==
  ASSUME NEW d \in Components, NEW e \in Entity, NEW v \in Values,
         NEW new, new = createOrReplace(d, e, v) \/ new = mutate(d, e, v)
  PROVE  /\ new.dirty = d.dirty \cup {e} /\ new.timestamps = d.timestamps
         /\ new.data[e] = v
         /\ new.lastSentData[e] = None \/ new.lastSentData[e] = d.lastSentData[e]
         /\ \A f \in Entity \ {e} : /\ new.data[f] = d.data[f]
                                    /\ new.lastSentData[f] = d.lastSentData[f]
  <1>1. CASE new = createOrReplace(d, e, v)
    <2>1. /\ new.dirty = d.dirty \cup {e} /\ new.timestamps = d.timestamps
          /\ new.data = [d.data EXCEPT ![e] = v]
          /\ new.lastSentData = [d.lastSentData EXCEPT ![e] = None]
      BY <1>1 DEF createOrReplace, Components
    <2>2. d.data \in [Entity -> Values \cup {None}] /\ d.lastSentData \in [Entity -> Values \cup {None}]
      BY DEF Components
    <2> QED
      BY <2>1, <2>2
  <1>2. CASE new = mutate(d, e, v)
    <2>1. /\ new.dirty = d.dirty \cup {e} /\ new.timestamps = d.timestamps
          /\ new.data = [d.data EXCEPT ![e] = v] /\ new.lastSentData = d.lastSentData
      BY <1>2 DEF mutate, Components
    <2>2. d.data \in [Entity -> Values \cup {None}]
      BY DEF Components
    <2> QED
      BY <2>1, <2>2
  <1> QED
    BY <1>1, <1>2

(* A deleted entity has no value; it is dirty if it had one.               *)
LEMMA DeletionMeaning ==
  ASSUME NEW d \in Components, NEW es \in SUBSET Entity
  PROVE  LET new == entityDeleted(d, es)
         IN  /\ new.timestamps = d.timestamps
             /\ new.dirty = d.dirty \cup {e \in es : d.data[e] # None}
             /\ \A f \in Entity :
                  /\ new.data[f] = IF f \in es THEN None ELSE d.data[f]
                  /\ new.lastSentData[f] = IF f \in es THEN None ELSE d.lastSentData[f]
  BY DEF entityDeleted, Components

(* A flush stamps what it sends, and leaves nothing dirty.                 *)
LEMMA FlushMeaning ==
  ASSUME NEW d \in Components
  PROVE  LET new == Flushed(d)
         IN  /\ new.dirty = {} /\ new.data = d.data
             /\ \A f \in Entity :
                  /\ new.timestamps[f] = IF f \in ToSend(d) THEN d.timestamps[f] + 1 ELSE d.timestamps[f]
                  /\ new.lastSentData[f] = IF f \in ToSend(d) THEN d.data[f] ELSE d.lastSentData[f]
  BY DEF Flushed, Components

(* The tombstones once the entities of es are added to those of c.         *)
LEMMA TombstonesMeaning ==
  ASSUME NEW c \in Containers, NEW es \in SUBSET Entity, NEW d,
         d.removedEntities = Tombstones(c.removedEntities, es)
  PROVE  \A f \in Entity :
           IsRemoved(d, f) <=> IsRemoved(c, f) \/ \E e \in es : e[1] = f[1] /\ e[2] >= f[2]
  <1> DEFINE r == c.removedEntities
             t == Tombstones(r, es)
  <1>1. r \in Tombs
    BY ContainerFields
  <1>2. /\ t \in Tombs
        /\ \A n \in Numbers :
             /\ t[n] >= r[n] /\ \A e \in es : e[1] = n => t[n] >= e[2]
             /\ t[n] = r[n] \/ \E e \in es : e[1] = n /\ t[n] = e[2]
    BY <1>1, TombstonesAreLast
  <1> HIDE DEF r, t
  <1>3. ASSUME NEW f \in Entity
        PROVE  t[f[1]] >= f[2] <=> r[f[1]] >= f[2] \/ \E e \in es : e[1] = f[1] /\ e[2] >= f[2]
    <2>1. f[1] \in Numbers /\ f[2] \in Int /\ t[f[1]] \in Int /\ r[f[1]] \in Int
          /\ \A e \in es : e[2] \in Int
      BY <1>1, <1>2, EntityIsFinite, TombsAreIntegers
    <2> QED
      BY <1>2, <2>1
  <1> QED
    BY <1>3 DEF IsRemoved, r, t

(* In terms of the next version of each number.                            *)
LEMMA NextVersionIsNotRemoved ==
  ASSUME NEW c \in Containers, NextVersions(c),
         NEW e \in c.usedEntities \cup c.toRemoveEntities
  PROVE  /\ e \in Entity /\ ~IsRemoved(c, e)
         /\ \A f \in Entity : f[1] = e[1] => (IsRemoved(c, f) <=> f[2] < e[2])
  <1>1. e \in Entity /\ c.removedEntities \in Tombs
    BY ContainerFields
  <1>2. e[1] \in Numbers /\ e[2] \in Int /\ c.removedEntities[e[1]] \in Int
    BY <1>1, EntityIsFinite, TombsAreIntegers
  <1>3. e[2] = c.removedEntities[e[1]] + 1
    BY DEF NextVersions
  <1>4. \A f \in Entity : f[2] \in Int
    BY EntityIsFinite
  <1> QED
    BY <1>1, <1>2, <1>3, <1>4 DEF IsRemoved

(* An inbound deletion: the version and those before it are removed, and   *)
(* what is in use stays the next version of its number.                    *)
LEMMA RemovalMeaning ==
  ASSUME NEW c \in Containers, NextVersions(c), c.toRemoveEntities = {}, NEW es \in SUBSET Entity
  PROVE  LET d == updateRemovedEntity(c, es)
         IN  /\ NextVersions(d) /\ d.toRemoveEntities = {} /\ d.entityCounter = c.entityCounter
             /\ d.usedEntities = {f \in c.usedEntities : \A e \in es : f[1] = e[1] => f[2] > e[2]}
             /\ \A f \in Entity :
                  IsRemoved(d, f) <=> IsRemoved(c, f) \/ \E e \in es : e[1] = f[1] /\ e[2] >= f[2]
  <1> DEFINE d == updateRemovedEntity(c, es)
  <1>1. /\ d.removedEntities = Tombstones(c.removedEntities, es)
        /\ d.usedEntities = {f \in c.usedEntities : \A e \in es : f[1] = e[1] => f[2] > e[2]}
        /\ d.toRemoveEntities = {} /\ d.entityCounter = c.entityCounter
    BY DEF updateRemovedEntity, Containers
  <1> HIDE DEF d
  <1>2. \A f \in Entity :
          IsRemoved(d, f) <=> IsRemoved(c, f) \/ \E e \in es : e[1] = f[1] /\ e[2] >= f[2]
    BY <1>1, TombstonesMeaning
  <1>3. NextVersions(d)
    <2>1. SUFFICES ASSUME NEW f \in d.usedEntities PROVE f[2] = d.removedEntities[f[1]] + 1
      BY <1>1 DEF NextVersions
    <2>2. f \in c.usedEntities /\ f \in Entity /\ \A e \in es : f[1] = e[1] => f[2] > e[2]
      BY <1>1, ContainerFields
    <2>3. f[1] \in Numbers /\ f[2] \in Int /\ c.removedEntities \in Tombs /\ \A e \in es : e[2] \in Int
      BY <2>2, ContainerFields, EntityIsFinite
    <2>4. /\ d.removedEntities[f[1]] \in Int /\ c.removedEntities[f[1]] \in Int
          /\ d.removedEntities[f[1]] >= c.removedEntities[f[1]]
          /\ \/ d.removedEntities[f[1]] = c.removedEntities[f[1]]
             \/ \E e \in es : e[1] = f[1] /\ d.removedEntities[f[1]] = e[2]
      <3>1. Tombstones(c.removedEntities, es) \in Tombs
        BY <2>3, TombstonesAreLast
      <3> QED
        BY <1>1, <2>3, <3>1, TombstonesAreLast, TombsAreIntegers
    <2>5. f[2] = c.removedEntities[f[1]] + 1
      BY <2>2 DEF NextVersions
    <2> QED
      BY <2>2, <2>3, <2>4, <2>5
  <1> QED
    BY <1>1, <1>2, <1>3 DEF d

(* At the end of the tick exactly the entities pending removal get their   *)
(* tombstone.                                                              *)
LEMMA ReleaseMeaning ==
  ASSUME NEW c \in Containers, NextVersions(c), c.usedEntities \cap c.toRemoveEntities = {}
  PROVE  LET d == releaseRemovedEntities(c)
         IN  /\ NextVersions(d) /\ d.toRemoveEntities = {} /\ d.entityCounter = c.entityCounter
             /\ d.usedEntities = c.usedEntities
             /\ \A f \in Entity : IsRemoved(d, f) <=> IsRemoved(c, f) \/ f \in c.toRemoveEntities
  <1> DEFINE d == releaseRemovedEntities(c)
             es == c.toRemoveEntities
  <1>0. es \in SUBSET Entity
    BY ContainerFields
  <1>1. /\ d.removedEntities = Tombstones(c.removedEntities, es)
        /\ d.usedEntities = c.usedEntities
        /\ d.toRemoveEntities = {} /\ d.entityCounter = c.entityCounter
    BY DEF releaseRemovedEntities, Containers
  <1> HIDE DEF d
  <1>2. \A f \in Entity :
          IsRemoved(d, f) <=> IsRemoved(c, f) \/ \E e \in es : e[1] = f[1] /\ e[2] >= f[2]
    BY <1>0, <1>1, TombstonesMeaning
  <1>3. ASSUME NEW e \in es
        PROVE  /\ e \in Entity /\ e[2] \in Int
               /\ \A f \in Entity : f[1] = e[1] => (IsRemoved(c, f) <=> f[2] < e[2])
    BY <1>0, NextVersionIsNotRemoved, EntityIsFinite
  <1>4. \A f \in Entity : IsRemoved(d, f) <=> IsRemoved(c, f) \/ f \in es
    <2>1. SUFFICES ASSUME NEW f \in Entity PROVE IsRemoved(d, f) <=> IsRemoved(c, f) \/ f \in es
      OBVIOUS
    <2>2. f[2] \in Int /\ f = <<f[1], f[2]>>
      BY EntityIsFinite
    <2>3. ASSUME NEW e \in es, e[1] = f[1], e[2] >= f[2] PROVE IsRemoved(c, f) \/ f \in es
      <3>1. e = <<e[1], e[2]>>
        BY <1>3, EntityIsFinite
      <3>2. CASE e[2] = f[2]
        BY <2>2, <2>3, <3>1, <3>2
      <3>3. CASE e[2] # f[2]
        BY <1>3, <2>2, <2>3, <3>3
      <3> QED
        BY <3>2, <3>3
    <2> QED
      BY <1>2, <2>2, <2>3
  <1>5. NextVersions(d)
    <2>1. SUFFICES ASSUME NEW f \in d.usedEntities PROVE f[2] = d.removedEntities[f[1]] + 1
      BY <1>1 DEF NextVersions
    <2>2. f \in c.usedEntities /\ f \in Entity /\ f \notin es
      BY <1>1, ContainerFields
    <2>3. f[1] \in Numbers /\ f[2] \in Int /\ c.removedEntities \in Tombs /\ f = <<f[1], f[2]>>
      BY <2>2, ContainerFields, EntityIsFinite
    <2>4. \/ d.removedEntities[f[1]] = c.removedEntities[f[1]]
          \/ \E e \in es : e[1] = f[1] /\ d.removedEntities[f[1]] = e[2]
      BY <1>0, <1>1, <2>3, TombstonesAreLast
    <2>5. f[2] = c.removedEntities[f[1]] + 1
      BY <2>2 DEF NextVersions
    <2>6. ASSUME NEW e \in es, e[1] = f[1] PROVE FALSE
      <3>1. e[2] = c.removedEntities[f[1]] + 1
        BY <2>6 DEF NextVersions
      <3>2. e = <<e[1], e[2]>>
        BY <1>3, EntityIsFinite
      <3> QED
        BY <2>2, <2>3, <2>5, <2>6, <3>1, <3>2
    <2> QED
      BY <2>4, <2>5, <2>6
  <1> QED
    BY <1>1, <1>4, <1>5 DEF d
-----------------------------------------------------------------------------
(* The invariant: first what holds engine by engine, and which entities    *)
(* the engine in the middle has heard of.                                  *)
Live(c) == c.usedEntities \cup c.toRemoveEntities

Inbox(g)   == Range(receivedMessages[g])
Forward(g) == Range(broadcastMessages[g])

Local(g) ==
  /\ phase[g] = "idle" => /\ container[g].toRemoveEntities = {}
                          /\ component[g].dirty = {} /\ broadcastMessages[g] = <<>>
  /\ NextVersions(container[g])
  /\ container[g].usedEntities \cap container[g].toRemoveEntities = {}
  /\ \A e \in Entity \ component[g].dirty : component[g].lastSentData[e] = component[g].data[e]

Senders ==
  /\ \A p \in Peers : \A m \in Inbox(p) \cup Forward(p) : m.from = Scene
  /\ \A m \in Inbox(Scene) \cup Forward(Scene) : m.from \in Peers

Known(e) == e \in Live(container[Scene]) \/ IsRemoved(container[Scene], e)

Counted == \A e \in Entity : Known(e) => e[1] < container[Scene].entityCounter

AllKnown ==
  \A g \in Engines :
    /\ \A m \in Inbox(g) \cup Forward(g) : Known(m.message.entity)
    /\ \A e \in Entity :
         e \in Live(container[g]) \/ e \in component[g].dirty \/ component[g].data[e] # None
           => Known(e)

EntityInv == TypeOK /\ (\A g \in Engines : Local(g)) /\ Senders /\ Counted /\ AllKnown

(* Scene code runs inside the tick, and the build told the engine how far  *)
(* the numbers of main.crdt go (DCL_MAX_COMPOSITE_ENTITY).                 *)
Disciplined == ~WritesBetweenTicks /\ \A n \in PreloadedNumbers : n < FirstCounter

Reading(g) == Processed(Start(g), receivedMessages[g])

Announced(g) == {e \in Entity : \E m \in Inbox(g) : m.message = DeleteEntity(e)}

(* The engine in the middle and the others.                                *)
LEMMA EnginesAre == Scene \in Engines /\ Peers \subseteq Engines /\ Scene \notin Peers
                    /\ \A g \in Engines : g = Scene \/ g \in Peers
  BY SceneAssumption DEF Engines

(* Type correctness, engine by engine.                                     *)
LEMMA FieldTypes ==
  ASSUME TypeOK, NEW g \in Engines
  PROVE  /\ container[g] \in Containers /\ component[g] \in Components
         /\ Inbox(g) \subseteq Sent /\ Forward(g) \subseteq Sent
         /\ Live(container[g]) \subseteq Entity /\ component[g].dirty \subseteq Entity
         /\ \A e \in Entity : /\ component[g].timestamps[e] \in Nat
                              /\ component[g].data[e] \in Nat /\ component[g].lastSentData[e] \in Nat
  <1>1. container[g] \in Containers /\ component[g] \in Components
    BY DEF TypeOK
  <1>2. Inbox(g) \subseteq Sent /\ Forward(g) \subseteq Sent
    BY RangeOfSequence DEF TypeOK, Inbox, Forward
  <1> QED
    BY <1>1, <1>2, ContainerFields, ValuesAreNumbers DEF Live, Components

(* The whole inbox of an engine that is between two ticks.                 *)
LEMMA AllRead ==
  ASSUME TypeOK, NEW g \in Engines, Local(g), phase[g] = "idle"
  PROVE  Read(Start(g), Reading(g), Inbox(g)) /\ AtRest(Start(g))
  <1>1. AtRest(Start(g))
    <2>1. Start(g) \in Readings
      BY StartType
    <2>2. component[g].lastSentData = component[g].data
      <3>1. component[g] \in Components /\ component[g].dirty = {}
        BY DEF TypeOK, Local
      <3>2. \A e \in Entity : component[g].lastSentData[e] = component[g].data[e]
        BY <3>1 DEF Local
      <3> QED
        BY <3>1, <3>2 DEF Components
    <2> QED
      BY <2>1, <2>2 DEF AtRest, Start, Local
  <1>2. receivedMessages[g] \in Seq(Sent)
    BY DEF TypeOK
  <1> QED
    BY <1>1, <1>2, ReadAll DEF Reading, Inbox

(* What receiving has done to the entities of the engine.                  *)
LEMMA ReceivedContainer ==
  ASSUME TypeOK, NEW g \in Engines, Local(g), receiveMessages(g)
  PROVE  /\ NextVersions(container'[g]) /\ container'[g].toRemoveEntities = {}
         /\ container'[g].entityCounter = container[g].entityCounter
         /\ container'[g].usedEntities \subseteq
              container[g].usedEntities \cup {m.message.entity : m \in Inbox(g)}
         /\ \A e \in Entity :
              /\ IsRemoved(container[g], e) \/ e \in Announced(g) => IsRemoved(container'[g], e)
              /\ IsRemoved(container'[g], e) =>
                   \/ IsRemoved(container[g], e) \/ e \in Announced(g)
                   \/ \E m \in Inbox(g) : m.message.entity[1] = e[1] /\ m.message.entity[2] > e[2]
  <1> DEFINE st == Reading(g)
             c == container'[g]
  <1>1. /\ st \in Readings /\ phase[g] = "idle"
        /\ c = updateRemovedEntity(st.container, st.toClean)
    BY ReceiveEffect DEF TypeOK, Reading
  <1>2. Read(Start(g), st, Inbox(g)) /\ Start(g).container = container[g]
    BY <1>1, AllRead DEF Start
  <1> HIDE DEF st, c
  <1>3. /\ st.container \in Containers /\ NextVersions(st.container)
        /\ st.container.toRemoveEntities = {}
        /\ st.container.entityCounter = container[g].entityCounter
        /\ st.container.usedEntities \subseteq
             container[g].usedEntities \cup {m.message.entity : m \in Inbox(g)}
        /\ st.toClean \in SUBSET Entity /\ st.toClean = Announced(g)
    BY <1>1, <1>2 DEF Read, ContainerRead, BroadcastRead, Readings, Announced
  <1>4. \A e \in Entity :
          /\ IsRemoved(container[g], e) => IsRemoved(st.container, e)
          /\ IsRemoved(st.container, e) =>
               \/ IsRemoved(container[g], e)
               \/ \E m \in Inbox(g) : m.message.entity[1] = e[1] /\ m.message.entity[2] > e[2]
    BY <1>2 DEF Read, ContainerRead
  <1>5. /\ NextVersions(c) /\ c.toRemoveEntities = {}
        /\ c.entityCounter = st.container.entityCounter
        /\ c.usedEntities \subseteq st.container.usedEntities
        /\ \A f \in Entity : IsRemoved(c, f) <=>
             IsRemoved(st.container, f) \/ \E e \in Announced(g) : e[1] = f[1] /\ e[2] >= f[2]
    BY <1>1, <1>3, RemovalMeaning
  <1>6. ASSUME NEW e \in Announced(g), NEW f \in Entity, e[1] = f[1], e[2] >= f[2]
        PROVE  \/ f \in Announced(g)
               \/ \E m \in Inbox(g) : m.message.entity[1] = f[1] /\ m.message.entity[2] > f[2]
    <2>1. PICK m \in Inbox(g) : m.message = DeleteEntity(e)
      BY DEF Announced
    <2>2. e \in Entity /\ m.message.entity = e
      BY <2>1 DEF Announced, DeleteEntity
    <2>3. e[2] \in Nat /\ f[2] \in Nat /\ e = <<e[1], e[2]>> /\ f = <<f[1], f[2]>>
      BY <2>2, EntityIsFinite
    <2>4. e[2] > f[2] \/ e = f
      BY <1>6, <2>3
    <2> QED
      BY <1>6, <2>2, <2>4
  <1>7. \A e \in Announced(g) : e[2] >= e[2]
    BY EntityIsFinite DEF Announced
  <1> QED
    BY <1>3, <1>4, <1>5, <1>6, <1>7 DEF c

(* At the engine in the middle, which knows every entity it hears of.      *)
LEMMA ReceivedAtScene ==
  ASSUME EntityInv, receiveMessages(Scene)
  PROVE  /\ container'[Scene].usedEntities \subseteq container[Scene].usedEntities
         /\ \A e \in Entity :
              IsRemoved(container'[Scene], e) <=> IsRemoved(container[Scene], e) \/ e \in Announced(Scene)
         /\ \A e \in Entity : Known(e) <=> Known(e)'
  <1> DEFINE st == Reading(Scene)
             c == container[Scene]
             d == container'[Scene]
  <1>0. TypeOK /\ Scene \in Engines /\ Local(Scene)
    BY EnginesAre DEF EntityInv
  <1>1. /\ st \in Readings /\ phase[Scene] = "idle"
        /\ d = updateRemovedEntity(st.container, st.toClean)
    BY <1>0, ReceiveEffect DEF TypeOK, Reading
  <1>2. Read(Start(Scene), st, Inbox(Scene)) /\ Start(Scene).container = c
    BY <1>0, <1>1, AllRead DEF Start
  <1>3. c.toRemoveEntities = {} /\ c \in Containers /\ NextVersions(c)
    BY <1>0, <1>1 DEF Local, TypeOK
  <1>4. \A m \in Inbox(Scene) : m.message.entity \in c.usedEntities \/ IsRemoved(c, m.message.entity)
    BY <1>0, <1>3 DEF EntityInv, AllKnown, Known, Live
  <1>5. st.container = c /\ st.toClean = Announced(Scene) /\ Announced(Scene) \in SUBSET Entity
    BY <1>2, <1>4 DEF Read, ContainerRead, BroadcastRead, getEntityState, Announced
  <1> HIDE DEF st, c, d
  <1>6. /\ d.toRemoveEntities = {}
        /\ d.usedEntities = {f \in c.usedEntities : \A e \in Announced(Scene) : f[1] = e[1] => f[2] > e[2]}
        /\ \A f \in Entity : IsRemoved(d, f) <=>
             IsRemoved(c, f) \/ \E e \in Announced(Scene) : e[1] = f[1] /\ e[2] >= f[2]
    BY <1>1, <1>3, <1>5, RemovalMeaning
  <1>7. ASSUME NEW e \in Announced(Scene)
        PROVE  /\ e \in Entity /\ e[2] \in Nat /\ e = <<e[1], e[2]>>
               /\ e \in c.usedEntities \/ IsRemoved(c, e)
    BY <1>4, EntityIsFinite DEF Announced, DeleteEntity
  <1>8. ASSUME NEW e \in Announced(Scene), NEW f \in Entity, e[1] = f[1], e[2] >= f[2]
        PROVE  IsRemoved(c, f) \/ f = e
    <2>1. f[2] \in Nat /\ f = <<f[1], f[2]>>
      BY EntityIsFinite
    <2>2. CASE e \in c.usedEntities
      <3>1. IsRemoved(c, f) <=> f[2] < e[2]
        BY <1>3, <1>8, <2>2, NextVersionIsNotRemoved
      <3> QED
        BY <1>7, <1>8, <2>1, <3>1
    <2>3. CASE IsRemoved(c, e)
      <3>1. c.removedEntities[e[1]] \in Int
        BY <1>3, <1>7, ContainerFields, EntityIsFinite, TombsAreIntegers
      <3> QED
        BY <1>7, <1>8, <2>1, <2>3, <3>1 DEF IsRemoved
    <2> QED
      BY <1>7, <2>2, <2>3
  <1>9. \A f \in Entity : IsRemoved(d, f) <=> IsRemoved(c, f) \/ f \in Announced(Scene)
    BY <1>6, <1>7, <1>8
  <1>10. d.usedEntities \subseteq c.usedEntities
    BY <1>6
  <1>11. \A f \in Entity : f \in Live(d) \/ IsRemoved(d, f) <=> f \in Live(c) \/ IsRemoved(c, f)
    <2>1. ASSUME NEW f \in c.usedEntities, f \notin d.usedEntities PROVE IsRemoved(d, f)
      <3>1. PICK e \in Announced(Scene) : f[1] = e[1] /\ ~(f[2] > e[2])
        BY <1>6, <2>1
      <3>2. f \in Entity /\ f[2] \in Nat
        BY <1>3, ContainerFields, EntityIsFinite
      <3> QED
        BY <1>6, <1>7, <3>1, <3>2
    <2>2. ASSUME NEW f \in Announced(Scene) PROVE f \in Live(c) \/ IsRemoved(c, f)
      BY <1>7 DEF Live
    <2> QED
      BY <1>3, <1>6, <1>9, <2>1, <2>2 DEF Live
  <1> QED
    BY <1>9, <1>10, <1>11 DEF c, d, Known

(* The least stamp that what the engine sends next may carry: that of the  *)
(* bytes it sent last, or the next one if it has forgotten them and will   *)
(* send.                                                                   *)
Forgotten(d, e) == e \in d.dirty /\ d.lastSentData[e] = None

LowTime(d, e) == IF Forgotten(d, e) THEN d.timestamps[e] + 1 ELSE d.timestamps[e]

LowData(d, e) == d.lastSentData[e]

(* What receiving has done to the component, and what will be forwarded.   *)
LEMMA ReceivedComponent ==
  ASSUME TypeOK, NEW g \in Engines, Local(g), receiveMessages(g)
  PROVE  /\ component[g].dirty = {}
         /\ Forward(g)' \subseteq Inbox(g)
         /\ \A m \in Inbox(g) : m.message.type = "DELETE_ENTITY" => m \in Forward(g)'
         /\ \A e \in Entity :
              LET d == component[g]  new == component'[g]
              IN  /\ d.lastSentData[e] = d.data[e]
                  /\ e \notin Announced(g) => e \notin new.dirty /\ new.lastSentData[e] = new.data[e]
                  /\ e \in Announced(g) => new.data[e] = None /\ new.lastSentData[e] = None
                  /\ AtMost(d.timestamps[e], d.data[e], LowTime(new, e), LowData(new, e))
                  /\ \/ e \in Announced(g)
                     \/ new.timestamps[e] = d.timestamps[e] /\ new.data[e] = d.data[e]
                     \/ /\ ~IsRemoved(container[g], e)
                        /\ \E m \in Forward(g)' : /\ OfComponent(m, e)
                                                  /\ m.message.timestamp = new.timestamps[e]
                                                  /\ m.message.data = new.data[e]
         /\ \A m \in Inbox(g), e \in Entity :
              OfComponent(m, e) /\ (m \in Forward(g)' \/ ~IsRemoved(container'[g], e))
                => AtMost(m.message.timestamp, m.message.data,
                          LowTime(component'[g], e), LowData(component'[g], e))
  <1> DEFINE st == Reading(g)
             d == component[g]
             new == component'[g]
             gone == Announced(g)
  <1>1. /\ st \in Readings /\ phase[g] = "idle"
        /\ container'[g] = updateRemovedEntity(st.container, st.toClean)
        /\ new = entityDeleted(st.component, st.toClean) /\ Forward(g)' = Range(st.broadcast)
    BY ReceiveEffect DEF TypeOK, Reading, Forward
  <1>2. Read(Start(g), st, Inbox(g)) /\ AtRest(Start(g)) /\ Start(g).component = d
        /\ Start(g).container = container[g]
    BY <1>1, AllRead DEF Start
  <1>3. d.dirty = {} /\ d.lastSentData = d.data
    BY <1>2 DEF AtRest
  <1> HIDE DEF st, d, new, gone
  <1>4. /\ st.container \in Containers /\ st.component \in Components
        /\ st.toClean = gone /\ gone \in SUBSET Entity
        /\ NextVersions(st.container) /\ st.container.toRemoveEntities = {}
        /\ st.component.dirty = {} /\ st.component.lastSentData = st.component.data
    BY <1>1, <1>2 DEF Read, ContainerRead, ComponentRead, BroadcastRead, Readings, Announced, gone
  <1>5. /\ new.timestamps = st.component.timestamps
        /\ new.dirty = {e \in gone : st.component.data[e] # None}
        /\ \A e \in Entity :
             /\ new.data[e] = IF e \in gone THEN None ELSE st.component.data[e]
             /\ new.lastSentData[e] = IF e \in gone THEN None ELSE st.component.data[e]
    BY <1>1, <1>4, DeletionMeaning
  <1>6. \A e \in Entity : /\ st.component.timestamps[e] \in Nat /\ st.component.data[e] \in Nat
                          /\ d.timestamps[e] \in Nat /\ d.data[e] \in Nat
    <2>1. d \in Components
      BY DEF TypeOK, d
    <2> QED
      BY <1>4, <2>1, ValuesAreNumbers DEF Components
  <1>7. ASSUME NEW e \in Entity, NEW t \in Nat, NEW v \in Nat,
               AtMost(t, v, st.component.timestamps[e], st.component.data[e])
        PROVE  AtMost(t, v, LowTime(new, e), LowData(new, e))
    <2>1. CASE e \notin gone
      BY <1>5, <1>7, <2>1 DEF LowTime, LowData, Forgotten
    <2>2. CASE e \in gone /\ st.component.data[e] = None
      BY <1>5, <1>7, <2>2 DEF LowTime, LowData, Forgotten
    <2>3. CASE e \in gone /\ st.component.data[e] # None
      BY <1>5, <1>6, <1>7, <2>3 DEF LowTime, LowData, Forgotten, AtMost
    <2> QED
      BY <2>1, <2>2, <2>3
  <1>8. /\ Forward(g)' \subseteq Inbox(g)
        /\ \A m \in Inbox(g) : m.message.type = "DELETE_ENTITY" => m \in Forward(g)'
    BY <1>1, <1>2 DEF Read, BroadcastRead
  <1>9. ASSUME NEW e \in Entity
        PROVE  /\ AtMost(d.timestamps[e], d.data[e], LowTime(new, e), LowData(new, e))
               /\ \/ e \in gone
                  \/ new.timestamps[e] = d.timestamps[e] /\ new.data[e] = d.data[e]
                  \/ /\ ~IsRemoved(container[g], e)
                     /\ \E m \in Forward(g)' : /\ OfComponent(m, e)
                                               /\ m.message.timestamp = new.timestamps[e]
                                               /\ m.message.data = new.data[e]
    <2>1. /\ AtMost(d.timestamps[e], d.data[e], st.component.timestamps[e], st.component.data[e])
          /\ \/ st.component.timestamps[e] = d.timestamps[e] /\ st.component.data[e] = d.data[e]
             \/ /\ ~IsRemoved(container[g], e)
                /\ \E m \in Forward(g)' : /\ OfComponent(m, e)
                                          /\ m.message.timestamp = st.component.timestamps[e]
                                          /\ m.message.data = st.component.data[e]
      BY <1>1, <1>2 DEF Read, ComponentRead
    <2>2. AtMost(d.timestamps[e], d.data[e], LowTime(new, e), LowData(new, e))
      BY <1>6, <1>7, <2>1
    <2> QED
      BY <1>5, <2>1, <2>2
  <1>10. ASSUME NEW m \in Inbox(g), NEW e \in Entity, OfComponent(m, e),
                m \in Forward(g)' \/ ~IsRemoved(container'[g], e)
         PROVE  AtMost(m.message.timestamp, m.message.data, LowTime(new, e), LowData(new, e))
    <2>1. IsRemoved(st.container, e) => IsRemoved(container'[g], e)
      BY <1>1, <1>4, RemovalMeaning
    <2>2. AtMost(m.message.timestamp, m.message.data, st.component.timestamps[e], st.component.data[e])
      BY <1>1, <1>2, <1>10, <2>1 DEF Read, BroadcastRead
    <2>3. m.message.timestamp \in Nat /\ m.message.data \in Nat
      BY <1>10, FieldTypes, SentFields DEF OfComponent
    <2> QED
      BY <1>7, <2>2, <2>3
  <1>11. \A e \in Entity :
           /\ d.lastSentData[e] = d.data[e]
           /\ e \notin gone => e \notin new.dirty /\ new.lastSentData[e] = new.data[e]
           /\ e \in gone => new.data[e] = None /\ new.lastSentData[e] = None
    BY <1>3, <1>5
  <1> QED
    BY <1>3, <1>8, <1>9, <1>10, <1>11 DEF d, new, gone
-----------------------------------------------------------------------------
(* A generated id is the next version of its number, is not pending        *)
(* removal, and is below the counter afterwards.                           *)
LEMMA GeneratedMeaning ==
  ASSUME EntityInv, NEW d \in generateEntity(container[Scene])
  PROVE  LET c == container[Scene]
         IN  \E e \in Entity :
               /\ d.usedEntities = c.usedEntities \cup {e} /\ d.toRemoveEntities = c.toRemoveEntities
               /\ d.removedEntities = c.removedEntities
               /\ e[2] = c.removedEntities[e[1]] + 1 /\ e \notin c.toRemoveEntities
               /\ d.entityCounter \in Nat /\ d.entityCounter >= c.entityCounter
               /\ e[1] < d.entityCounter
  <1> DEFINE c == container[Scene]
  <1>1. /\ c \in Containers /\ c.removedEntities \in Tombs /\ c.entityCounter \in Nat
        /\ \A e \in Entity : e \in c.toRemoveEntities \/ IsRemoved(c, e) => e[1] < c.entityCounter
    BY EnginesAre, ContainerFields DEF EntityInv, TypeOK, Counted, Known, Live
  <1>2. d \in generateEntity(c)
    OBVIOUS
  <1> HIDE DEF c
  <1>3. CASE d \in generateNewEntity(c)
    <2>1. PICK n \in Numbers :
            /\ n >= c.entityCounter /\ c.removedEntities[n] < MaxVersion
            /\ d = [c EXCEPT !.usedEntities = @ \cup {<<n, c.removedEntities[n] + 1>>}, !.entityCounter = n + 1]
      BY <1>3 DEF generateNewEntity, FreshNumbers
    <2> DEFINE e == <<n, c.removedEntities[n] + 1>>
    <2>2. e \in Entity /\ e[1] = n /\ e[2] = c.removedEntities[n] + 1 /\ n \in Nat
      BY <1>1, <2>1, TombsAreIntegers, SceneAssumption, EntityIsFinite DEF Versions
    <2>3. /\ d.usedEntities = c.usedEntities \cup {e} /\ d.toRemoveEntities = c.toRemoveEntities
          /\ d.removedEntities = c.removedEntities /\ d.entityCounter = n + 1
      BY <1>1, <2>1 DEF Containers
    <2> HIDE DEF e
    <2>4. e \notin c.toRemoveEntities
      BY <1>1, <2>1, <2>2
    <2>5. n + 1 \in Nat /\ n + 1 >= c.entityCounter /\ n < n + 1
      BY <1>1, <2>1, <2>2
    <2> QED
      BY <2>2, <2>3, <2>4, <2>5 DEF c
  <1>4. CASE d \notin generateNewEntity(c)
    <2>1. PICK e \in Recycled(c) : d = [c EXCEPT !.usedEntities = @ \cup {e}]
      BY <1>2, <1>4 DEF generateEntity
    <2>2. /\ e \in Entity /\ c.removedEntities[e[1]] # Absent
          /\ e[2] = c.removedEntities[e[1]] + 1 /\ e \notin c.toRemoveEntities
      BY <2>1 DEF Recycled
    <2> DEFINE f == <<e[1], c.removedEntities[e[1]]>>
    <2>3. f \in Entity /\ f[1] = e[1] /\ IsRemoved(c, f)
      <3>1. e[1] \in Numbers
        BY <2>2, EntityIsFinite
      <3>2. c.removedEntities[e[1]] \in Versions /\ c.removedEntities[e[1]] \in Int
        BY <1>1, <2>2, <3>1, TombsAreIntegers
      <3> QED
        BY <3>1, <3>2, EntityIsFinite DEF IsRemoved
    <2> HIDE DEF f
    <2>4. e[1] < c.entityCounter
      BY <1>1, <2>3
    <2>5. /\ d.usedEntities = c.usedEntities \cup {e} /\ d.toRemoveEntities = c.toRemoveEntities
          /\ d.removedEntities = c.removedEntities /\ d.entityCounter = c.entityCounter
      BY <1>1, <2>1 DEF Containers
    <2> QED
      BY <1>1, <2>2, <2>4, <2>5 DEF c
  <1> QED
    BY <1>3, <1>4

(* An engine that is left alone, but for what is delivered to it.          *)
LEMMA LocalKept ==
  ASSUME NEW g, Local(g),
         container'[g] = container[g], component'[g] = component[g], phase'[g] = phase[g],
         broadcastMessages'[g] = broadcastMessages[g]
  PROVE  Local(g)'
  BY DEF Local, NextVersions

(* At the start every engine uses the preloaded entities, below the        *)
(* counter.                                                                *)
LEMMA InitEntityInv == Init /\ Disciplined => EntityInv
  <1> SUFFICES ASSUME Init, Disciplined PROVE EntityInv
    OBVIOUS
  <1>1. TypeOK
    BY InitTypeOK
  <1>2. \A e \in PreloadedEntities : e \in Entity /\ e[1] \in PreloadedNumbers /\ e[2] = 0
    BY PreloadedAre
  <1>3. \A g \in Engines :
          /\ container[g].usedEntities = PreloadedEntities /\ container[g].toRemoveEntities = {}
          /\ container[g].entityCounter = FirstCounter
          /\ \A n \in Numbers : container[g].removedEntities[n] = -1
          /\ component[g].dirty = {} /\ component[g].lastSentData = component[g].data
          /\ \A e \in Entity : component[g].data[e] # None => e \in PreloadedEntities
          /\ Inbox(g) = {} /\ Forward(g) = {} /\ broadcastMessages[g] = <<>>
    BY RangeOfEmpty DEF Init, Inbox, Forward, Absent
  <1>4. PreloadedEntities \subseteq Entity
    BY PreloadedAre
  <1>5. \A g \in Engines : Local(g)
    <2>1. SUFFICES ASSUME NEW g \in Engines PROVE NextVersions(container[g])
      BY <1>3 DEF Local
    <2>2. \A e \in PreloadedEntities : e[2] = 0 /\ e[1] \in Numbers
      BY <1>2, <1>4, EntityIsFinite
    <2> QED
      BY <1>3, <2>1, <2>2 DEF NextVersions
  <1>6. Senders
    BY <1>3, EnginesAre DEF Senders
  <1>7. \A e \in Entity : Known(e) <=> e \in PreloadedEntities
    BY <1>3, EnginesAre, EntityIsFinite DEF Known, Live, IsRemoved
  <1>8. Counted
    BY <1>2, <1>3, <1>7, EnginesAre DEF Counted, Disciplined
  <1>9. AllKnown
    BY <1>3, <1>4, <1>7 DEF AllKnown, Live
  <1> QED
    BY <1>1, <1>5, <1>6, <1>8, <1>9 DEF EntityInv
-----------------------------------------------------------------------------
(* What a flush delivers: to the peers, what Scene forwards to them and    *)
(* its own messages; to Scene, only the peer's own messages.               *)
Delivers(g, h, x) ==
  \/ \E m \in Forward(g) : m.from # h /\ x = From(g, m.message)
  \/ \E e \in ToSend(component[g]) : x = From(g, UpdateOf(component[g], e))
  \/ \E e \in container[g].toRemoveEntities : x = From(g, DeleteEntity(e))

(* What sendMessages does, with the messages as sets.                      *)
LEMMA SentEffect ==
  ASSUME TypeOK, NEW g \in Engines, Local(g), sendMessages(g)
  PROVE  /\ phase[g] = "systems" /\ phase'[g] = "idle"
         /\ container'[g] = releaseRemovedEntities(container[g])
         /\ component'[g] = Flushed(component[g])
         /\ broadcastMessages'[g] = <<>> /\ Forward(g)' = {}
         /\ \A h \in Engines \ Neighbours(g) : Inbox(h)' = Inbox(h)
         /\ \A h \in Neighbours(g) : \A x : x \in Inbox(h)' <=> x \in Inbox(h) \/ Delivers(g, h, x)
         /\ \A h \in Engines \ {g} :
              /\ container'[h] = container[h] /\ component'[h] = component[h]
              /\ phase'[h] = phase[h] /\ broadcastMessages'[h] = broadcastMessages[h]
              /\ Forward(h)' = Forward(h)
  <1>1. /\ phase[g] = "systems" /\ phase' = [phase EXCEPT ![g] = "idle"]
        /\ container' = [container EXCEPT ![g] = releaseRemovedEntities(@)]
        /\ component' = [component EXCEPT ![g] = Flushed(@)]
        /\ broadcastMessages' = [broadcastMessages EXCEPT ![g] = <<>>]
        /\ \A h \in Engines \ Neighbours(g) : receivedMessages'[h] = receivedMessages[h]
        /\ \A h \in Neighbours(g) :
              Range(receivedMessages'[h]) =
                Range(receivedMessages[h])
                  \cup {From(g, m.message) : m \in {k \in Range(Outgoing(g)) : k.from # h}}
    BY SendEffect
  <1>2. Range(Outgoing(g)) =
           Forward(g)
             \cup {From(g, UpdateOf(component[g], e)) : e \in ToSend(component[g])}
             \cup {From(g, DeleteEntity(e)) : e \in container[g].toRemoveEntities}
    BY OutgoingIs DEF Forward
  <1>3. \A h \in Neighbours(g) : h # g
    BY EnginesAre DEF Neighbours
  <1>4. ASSUME NEW h \in Neighbours(g), NEW x
        PROVE  x \in {From(g, m.message) : m \in {k \in Range(Outgoing(g)) : k.from # h}}
                 <=> Delivers(g, h, x)
    <2> DEFINE out == Range(Outgoing(g))
    <2>1. \A k : k \in out <=> \/ k \in Forward(g)
                               \/ \E e \in ToSend(component[g]) : k = From(g, UpdateOf(component[g], e))
                               \/ \E e \in container[g].toRemoveEntities : k = From(g, DeleteEntity(e))
      BY <1>2
    <2>2. \A message : From(g, message).from # h /\ From(g, message).message = message
      BY <1>3 DEF From
    <2> HIDE DEF out
    <2>3. (\E m \in out : m.from # h /\ x = From(g, m.message)) <=> Delivers(g, h, x)
      BY <2>1, <2>2 DEF Delivers
    <2> QED
      BY <2>3 DEF out
  <1>5. \A h \in Neighbours(g) : \A x : x \in Inbox(h)' <=> x \in Inbox(h) \/ Delivers(g, h, x)
    BY <1>1, <1>4 DEF Inbox
  <1>6. \A h \in Engines \ Neighbours(g) : Inbox(h)' = Inbox(h)
    BY <1>1 DEF Inbox
  <1>7. /\ phase'[g] = "idle"
        /\ container'[g] = releaseRemovedEntities(container[g])
        /\ component'[g] = Flushed(component[g])
        /\ broadcastMessages'[g] = <<>>
        /\ \A h \in Engines \ {g} :
              /\ container'[h] = container[h] /\ component'[h] = component[h]
              /\ phase'[h] = phase[h] /\ broadcastMessages'[h] = broadcastMessages[h]
    BY <1>1 DEF TypeOK
  <1>8. Forward(g)' = {} /\ \A h \in Engines \ {g} : Forward(h)' = Forward(h)
    BY <1>7, RangeOfEmpty DEF Forward
  <1> QED
    BY <1>1, <1>5, <1>6, <1>7, <1>8

(* The calls of scene code change one engine, in the middle of its tick.   *)
LEMMA CallEffect ==
  ASSUME TypeOK, ~WritesBetweenTicks, NEW g \in Engines, MayCall(g)
  PROVE  phase[g] = "systems"
  BY DEF MayCall

(* What has to be shown of the step of one engine: the others only see     *)
(* their inbox grow.                                                       *)
LEMMA StepEntityInv ==
  ASSUME EntityInv, TypeOK', NEW g \in Engines,
         \A h \in Engines \ {g} : /\ container'[h] = container[h] /\ component'[h] = component[h]
                                  /\ phase'[h] = phase[h] /\ broadcastMessages'[h] = broadcastMessages[h],
         Local(g)', Senders', Counted',
         \A e \in Entity : Known(e) => Known(e)',
         \A h \in Engines : \A m \in Inbox(h)' \cup Forward(h)' : Known(m.message.entity)',
         \A e \in Entity :
           e \in Live(container'[g]) \/ e \in component'[g].dirty \/ component'[g].data[e] # None
             => Known(e)'
  PROVE  EntityInv'
  <1>1. \A h \in Engines \ {g} : Local(h)'
    BY LocalKept DEF EntityInv
  <1>2. ASSUME NEW h \in Engines, NEW e \in Entity,
               e \in Live(container'[h]) \/ e \in component'[h].dirty \/ component'[h].data[e] # None
        PROVE  Known(e)'
    <2>1. CASE h = g
      BY <1>2, <2>1
    <2>2. CASE h # g
      <3>1. Known(e)
        BY <1>2, <2>2 DEF EntityInv, AllKnown, Live
      <3> QED
        BY <3>1
    <2> QED
      BY <2>1, <2>2
  <1>3. AllKnown'
    BY <1>2 DEF AllKnown
  <1> QED
    BY <1>1, <1>3 DEF EntityInv

(* And of a call, which delivers nothing.                                  *)
LEMMA CallEntityInv ==
  ASSUME EntityInv, ~WritesBetweenTicks, TypeOK', NEW g \in Engines, MayCall(g),
         UNCHANGED <<phase, receivedMessages, broadcastMessages>>,
         \A h \in Engines \ {g} : container'[h] = container[h] /\ component'[h] = component[h],
         NextVersions(container'[g]), container'[g].usedEntities \cap container'[g].toRemoveEntities = {},
         \A e \in Entity \ component'[g].dirty : component'[g].lastSentData[e] = component'[g].data[e],
         Counted', \A e \in Entity : Known(e) => Known(e)',
         \A e \in Entity :
           e \in Live(container'[g]) \/ e \in component'[g].dirty \/ component'[g].data[e] # None
             => Known(e)'
  PROVE  EntityInv'
  <1>1. phase'[g] = "systems"
    BY CallEffect DEF EntityInv
  <1>2. Local(g)'
    BY <1>1 DEF Local, NextVersions
  <1>3. \A h \in Engines : Inbox(h)' = Inbox(h) /\ Forward(h)' = Forward(h)
    BY DEF Inbox, Forward
  <1>4. Senders'
    BY <1>3, EnginesAre DEF EntityInv, Senders
  <1>5. \A h \in Engines : \A m \in Inbox(h)' \cup Forward(h)' : Known(m.message.entity)'
    <2>1. SUFFICES ASSUME NEW h \in Engines, NEW m \in Inbox(h) \cup Forward(h)
                   PROVE  Known(m.message.entity)'
      BY <1>3
    <2>2. Known(m.message.entity)
      BY DEF EntityInv, AllKnown
    <2>3. m.message.entity \in Entity
      BY FieldTypes, SentFields DEF EntityInv
    <2> QED
      BY <2>2, <2>3
  <1> QED
    BY <1>2, <1>4, <1>5, StepEntityInv

(* addEntity: the generated id is known, and below the counter.            *)
LEMMA AddEntityInv == EntityInv /\ Disciplined /\ addEntity /\ TypeOK' => EntityInv'
  <1> SUFFICES ASSUME EntityInv, Disciplined, addEntity, TypeOK' PROVE EntityInv'
    OBVIOUS
  <1> DEFINE c == container[Scene]
             d == container'[Scene]
  <1>1. /\ MayCall(Scene) /\ Scene \in Engines /\ ~WritesBetweenTicks
        /\ UNCHANGED <<component, phase, receivedMessages, broadcastMessages>>
        /\ d \in generateEntity(c) /\ \A h \in Engines \ {Scene} : container'[h] = container[h]
    BY EnginesAre DEF addEntity, EntityInv, TypeOK, Disciplined
  <1>2. PICK e \in Entity :
          /\ d.usedEntities = c.usedEntities \cup {e} /\ d.toRemoveEntities = c.toRemoveEntities
          /\ d.removedEntities = c.removedEntities
          /\ e[2] = c.removedEntities[e[1]] + 1 /\ e \notin c.toRemoveEntities
          /\ d.entityCounter \in Nat /\ d.entityCounter >= c.entityCounter
          /\ e[1] < d.entityCounter
    BY <1>1, GeneratedMeaning
  <1>3. c \in Containers /\ NextVersions(c) /\ c.usedEntities \cap c.toRemoveEntities = {}
    BY <1>1 DEF EntityInv, TypeOK, Local
  <1> HIDE DEF c, d
  <1>4. /\ \A f \in Entity : IsRemoved(d, f) <=> IsRemoved(c, f)
        /\ Live(d) = Live(c) \cup {e}
    BY <1>2 DEF IsRemoved, Live
  <1>5. \A f \in Entity : Known(f)' <=> Known(f) \/ f = e
    BY <1>4 DEF Known, c, d
  <1>6. NextVersions(d) /\ d.usedEntities \cap d.toRemoveEntities = {}
    BY <1>2, <1>3 DEF NextVersions
  <1>7. Counted'
    <2>1. \A f \in Entity : Known(f) => f[1] < c.entityCounter
      BY DEF EntityInv, Counted, c
    <2>2. c.entityCounter \in Nat /\ \A f \in Entity : f[1] \in Nat
      BY <1>3, ContainerFields, EntityIsFinite
    <2>3. \A f \in Entity : Known(f)' => f[1] < d.entityCounter
      BY <1>2, <1>5, <2>1, <2>2
    <2> QED
      BY <2>3 DEF Counted, d
  <1>8. /\ \A f \in Entity \ component[Scene].dirty : component[Scene].lastSentData[f] = component[Scene].data[f]
        /\ \A f \in Entity : f \in component[Scene].dirty \/ component[Scene].data[f] # None => Known(f)
    BY <1>1 DEF EntityInv, Local, AllKnown
  <1>9. \A f \in Entity : f \in Live(d) => Known(f)'
    BY DEF Known, d
  <1> QED
    BY <1>1, <1>5, <1>6, <1>7, <1>8, <1>9, CallEntityInv DEF d

(* A write is to an entity in use.                                         *)
LEMMA WriteEntityInv ==
  ASSUME EntityInv, Disciplined, NEW g \in Engines, NEW e \in Entity, NEW v \in Values, write(g, e, v), TypeOK'
  PROVE  EntityInv'
  <1> DEFINE d == component[g]
             new == component'[g]
  <1>1. /\ MayCall(g) /\ ~WritesBetweenTicks /\ e \in container[g].usedEntities
        /\ UNCHANGED <<container, phase, receivedMessages, broadcastMessages>>
        /\ new = createOrReplace(d, e, v) \/ new = mutate(d, e, v)
        /\ \A h \in Engines \ {g} : component'[h] = component[h]
    BY DEF write, EntityInv, TypeOK, Disciplined
  <1>2. d \in Components /\ Local(g)
    BY DEF EntityInv, TypeOK
  <1> HIDE DEF d, new
  <1>3. /\ new.dirty = d.dirty \cup {e}
        /\ \A f \in Entity \ {e} : new.data[f] = d.data[f] /\ new.lastSentData[f] = d.lastSentData[f]
    BY <1>1, <1>2, WriteMeaning
  <1>4. \A f \in Entity : Known(f)' <=> Known(f)
    BY <1>1 DEF Known
  <1>5. \A f \in Entity : f \in Live(container[g]) \/ f \in d.dirty \/ d.data[f] # None => Known(f)
    BY DEF EntityInv, AllKnown, d
  <1>6. Known(e)
    BY <1>1, <1>5 DEF Live
  <1>7. Counted'
    BY <1>1, <1>4 DEF EntityInv, Counted
  <1>8. NextVersions(container'[g]) /\ container'[g].usedEntities \cap container'[g].toRemoveEntities = {}
    BY <1>1, <1>2 DEF Local, NextVersions
  <1>9. \A f \in Entity \ new.dirty : new.lastSentData[f] = new.data[f]
    BY <1>2, <1>3 DEF Local, d
  <1>10. \A f \in Entity : f \in Live(container'[g]) \/ f \in new.dirty \/ new.data[f] # None => Known(f)'
    BY <1>1, <1>3, <1>4, <1>5, <1>6
  <1> QED
    BY <1>1, <1>4, <1>7, <1>8, <1>9, <1>10, CallEntityInv DEF new

(* deleteFrom touches a component that is there.                           *)
LEMMA DeleteEntityInv ==
  ASSUME EntityInv, Disciplined, NEW g \in Engines, NEW e \in Entity, deleteFrom(g, e), TypeOK'
  PROVE  EntityInv'
  <1> DEFINE d == component[g]
             new == component'[g]
  <1>1. /\ MayCall(g) /\ ~WritesBetweenTicks /\ d.data[e] # None
        /\ UNCHANGED <<container, phase, receivedMessages, broadcastMessages>>
        /\ new = entityDeleted(d, {e})
        /\ \A h \in Engines \ {g} : component'[h] = component[h]
    BY DEF deleteFrom, EntityInv, TypeOK, Disciplined
  <1>2. d \in Components /\ Local(g)
    BY DEF EntityInv, TypeOK
  <1> HIDE DEF d, new
  <1>3. /\ new.dirty = d.dirty \cup {f \in {e} : d.data[f] # None}
        /\ \A f \in Entity : /\ new.data[f] = IF f \in {e} THEN None ELSE d.data[f]
                             /\ new.lastSentData[f] = IF f \in {e} THEN None ELSE d.lastSentData[f]
    BY <1>1, <1>2, DeletionMeaning
  <1>4. \A f \in Entity : Known(f)' <=> Known(f)
    BY <1>1 DEF Known
  <1>5. \A f \in Entity : f \in Live(container[g]) \/ f \in d.dirty \/ d.data[f] # None => Known(f)
    BY DEF EntityInv, AllKnown, d
  <1>7. Counted'
    BY <1>1, <1>4 DEF EntityInv, Counted
  <1>8. NextVersions(container'[g]) /\ container'[g].usedEntities \cap container'[g].toRemoveEntities = {}
    BY <1>1, <1>2 DEF Local, NextVersions
  <1>9. \A f \in Entity \ new.dirty : new.lastSentData[f] = new.data[f]
    BY <1>2, <1>3 DEF Local, d
  <1>10. \A f \in Entity : f \in Live(container'[g]) \/ f \in new.dirty \/ new.data[f] # None => Known(f)'
    BY <1>1, <1>3, <1>4, <1>5
  <1> QED
    BY <1>1, <1>4, <1>7, <1>8, <1>9, <1>10, CallEntityInv DEF new

(* removeEntity: what is in use becomes pending.                           *)
LEMMA RemoveEntityInv ==
  ASSUME EntityInv, Disciplined, NEW g \in Engines, NEW e \in Entity, removeEntity(g, e), TypeOK'
  PROVE  EntityInv'
  <1> DEFINE c == container[g]
             u == container'[g]
             d == component[g]
             new == component'[g]
  <1>1. /\ MayCall(g) /\ ~WritesBetweenTicks /\ e \in c.usedEntities
        /\ UNCHANGED <<phase, receivedMessages, broadcastMessages>>
        /\ new = entityDeleted(d, {e}) /\ u = removeFromContainer(c, e)
        /\ \A h \in Engines \ {g} : component'[h] = component[h] /\ container'[h] = container[h]
    BY DEF removeEntity, EntityInv, TypeOK, Disciplined
  <1>2. d \in Components /\ Local(g) /\ c \in Containers
    BY DEF EntityInv, TypeOK
  <1>3. /\ u.usedEntities = c.usedEntities \ {e} /\ u.toRemoveEntities = c.toRemoveEntities \cup {e}
        /\ u.removedEntities = c.removedEntities /\ u.entityCounter = c.entityCounter
    <2> HIDE DEF c, u
    <2> QED
      BY <1>1, <1>2 DEF removeFromContainer, Containers
  <1> HIDE DEF c, u, d, new
  <1>4. /\ new.dirty = d.dirty \cup {f \in {e} : d.data[f] # None}
        /\ \A f \in Entity : /\ new.data[f] = IF f \in {e} THEN None ELSE d.data[f]
                             /\ new.lastSentData[f] = IF f \in {e} THEN None ELSE d.lastSentData[f]
    BY <1>1, <1>2, DeletionMeaning
  <1>5. Live(u) = Live(c) /\ \A f \in Entity : IsRemoved(u, f) <=> IsRemoved(c, f)
    BY <1>1, <1>3 DEF Live, IsRemoved
  <1>6. \A f \in Entity : Known(f)' <=> Known(f)
    <2>1. CASE g = Scene
      BY <1>5, <2>1 DEF Known, c, u
    <2>2. CASE g # Scene
      BY <1>1, <2>2, EnginesAre DEF Known
    <2> QED
      BY <2>1, <2>2
  <1>7. container'[Scene].entityCounter = container[Scene].entityCounter
    <2>1. CASE g = Scene
      BY <1>3, <2>1 DEF c, u
    <2>2. CASE g # Scene
      BY <1>1, <2>2, EnginesAre
    <2> QED
      BY <2>1, <2>2
  <1>8. Counted'
    BY <1>6, <1>7 DEF EntityInv, Counted
  <1>9. \A f \in Entity : f \in Live(c) \/ f \in d.dirty \/ d.data[f] # None => Known(f)
    BY DEF EntityInv, AllKnown, c, d
  <1>10. NextVersions(u) /\ u.usedEntities \cap u.toRemoveEntities = {}
    BY <1>1, <1>2, <1>3 DEF Local, NextVersions, c
  <1>11. \A f \in Entity \ new.dirty : new.lastSentData[f] = new.data[f]
    BY <1>2, <1>4 DEF Local, d
  <1>12. \A f \in Entity : f \in Live(u) \/ f \in new.dirty \/ new.data[f] # None => Known(f)'
    BY <1>4, <1>5, <1>6, <1>9
  <1> QED
    BY <1>1, <1>6, <1>8, <1>10, <1>11, <1>12, CallEntityInv DEF u, new

(* What receiveMessages leaves alone.                                      *)
LEMMA ReceivedEffect ==
  ASSUME TypeOK, NEW g \in Engines, receiveMessages(g)
  PROVE  /\ phase[g] = "idle" /\ phase'[g] = "systems" /\ Inbox(g)' = {}
         /\ \A h \in Engines \ {g} :
              /\ container'[h] = container[h] /\ component'[h] = component[h]
              /\ phase'[h] = phase[h] /\ broadcastMessages'[h] = broadcastMessages[h]
              /\ Inbox(h)' = Inbox(h) /\ Forward(h)' = Forward(h)
  <1> DEFINE st == Processed(Start(g), receivedMessages[g])
  <1>1. /\ phase[g] = "idle" /\ phase' = [phase EXCEPT ![g] = "systems"]
        /\ container' = [container EXCEPT ![g] = updateRemovedEntity(st.container, st.toClean)]
        /\ component' = [component EXCEPT ![g] = entityDeleted(st.component, st.toClean)]
        /\ broadcastMessages' = [broadcastMessages EXCEPT ![g] = st.broadcast]
        /\ receivedMessages' = [receivedMessages EXCEPT ![g] = <<>>]
    BY ReceiveEffect
  <1> HIDE DEF st
  <1>2. /\ phase'[g] = "systems" /\ receivedMessages'[g] = <<>>
        /\ \A h \in Engines \ {g} :
              /\ container'[h] = container[h] /\ component'[h] = component[h]
              /\ phase'[h] = phase[h] /\ broadcastMessages'[h] = broadcastMessages[h]
              /\ receivedMessages'[h] = receivedMessages[h]
    BY <1>1 DEF TypeOK
  <1> QED
    BY <1>1, <1>2, RangeOfEmpty DEF Inbox, Forward

(* The entities whose deletion waits in the inbox.                         *)
LEMMA AnnouncedAre ==
  ASSUME NEW g, NEW e \in Announced(g)
  PROVE  e \in Entity /\ \E m \in Inbox(g) : m.message = DeleteEntity(e) /\ m.message.entity = e
  BY DEF Announced, DeleteEntity

(* Receiving takes in use only what the engine in the middle knows.        *)
LEMMA ReceiveEntityInv ==
  ASSUME EntityInv, NEW g \in Engines, receiveMessages(g), TypeOK'
  PROVE  EntityInv'
  <1>1. /\ phase'[g] = "systems" /\ Inbox(g)' = {}
        /\ \A h \in Engines \ {g} :
              /\ container'[h] = container[h] /\ component'[h] = component[h]
              /\ phase'[h] = phase[h] /\ broadcastMessages'[h] = broadcastMessages[h]
              /\ Inbox(h)' = Inbox(h) /\ Forward(h)' = Forward(h)
    BY ReceivedEffect DEF EntityInv
  <1>2. TypeOK /\ Local(g)
    BY DEF EntityInv
  <1>3. /\ NextVersions(container'[g]) /\ container'[g].toRemoveEntities = {}
        /\ container'[g].entityCounter = container[g].entityCounter
        /\ container'[g].usedEntities \subseteq
             container[g].usedEntities \cup {m.message.entity : m \in Inbox(g)}
    BY <1>2, ReceivedContainer
  <1>4. /\ Forward(g)' \subseteq Inbox(g)
        /\ \A e \in Entity :
             /\ e \notin Announced(g) => e \notin component'[g].dirty
                                         /\ component'[g].lastSentData[e] = component'[g].data[e]
             /\ e \in Announced(g) => component'[g].data[e] = None /\ component'[g].lastSentData[e] = None
             /\ \/ e \in Announced(g)
                \/ component'[g].data[e] = component[g].data[e]
                \/ \E m \in Forward(g)' : OfComponent(m, e)
    BY <1>2, ReceivedComponent
  <1>5. Local(g)'
    BY <1>1, <1>3, <1>4 DEF Local, NextVersions
  <1>6. \A e \in Entity : Known(e)' <=> Known(e)
    <2>1. CASE g = Scene
      BY <2>1, ReceivedAtScene
    <2>2. CASE g # Scene
      BY <1>1, <2>2, EnginesAre DEF Known
    <2> QED
      BY <2>1, <2>2
  <1>7. Counted'
    <2>1. container'[Scene].entityCounter = container[Scene].entityCounter
      BY <1>1, <1>3, EnginesAre
    <2> QED
      BY <1>6, <2>1 DEF EntityInv, Counted
  <1>8. \A h \in Engines : Inbox(h)' \subseteq Inbox(h) /\ Forward(h)' \subseteq Inbox(h) \cup Forward(h)
    BY <1>1, <1>4
  <1>9. Senders'
    BY <1>8, EnginesAre DEF EntityInv, Senders
  <1>10. \A h \in Engines : \A m \in Inbox(h) \cup Forward(h) :
           Known(m.message.entity) /\ m.message.entity \in Entity
    BY FieldTypes, SentFields DEF EntityInv, AllKnown
  <1>11. \A h \in Engines : \A m \in Inbox(h)' \cup Forward(h)' : Known(m.message.entity)'
    BY <1>6, <1>8, <1>10
  <1>12. ASSUME NEW e \in Entity,
                e \in Live(container'[g]) \/ e \in component'[g].dirty \/ component'[g].data[e] # None
         PROVE  Known(e)'
    <2>1. CASE \E m \in Inbox(g) : m.message.entity = e
      BY <1>6, <1>10, <2>1
    <2>2. CASE e \in Live(container[g]) \/ component[g].data[e] # None
      BY <1>6, <2>2 DEF EntityInv, AllKnown
    <2>3. e \in Announced(g) => \E m \in Inbox(g) : m.message.entity = e
      BY AnnouncedAre
    <2>4. CASE e \in Live(container'[g])
      BY <1>3, <2>1, <2>2, <2>4 DEF Live
    <2>5. CASE e \in component'[g].dirty
      BY <1>4, <2>1, <2>3, <2>5
    <2>6. CASE component'[g].data[e] # None
      BY <1>4, <2>1, <2>2, <2>3, <2>6 DEF OfComponent
    <2> QED
      BY <1>12, <2>4, <2>5, <2>6
  <1>13. \A h \in Engines \ {g} : /\ container'[h] = container[h] /\ component'[h] = component[h]
                                  /\ phase'[h] = phase[h] /\ broadcastMessages'[h] = broadcastMessages[h]
    BY <1>1
  <1> HIDE DEF EntityInv
  <1> QED
    BY <1>5, <1>6, <1>7, <1>9, <1>11, <1>12, <1>13, StepEntityInv

(* Sending: the end of the tick leaves nothing pending, and what is        *)
(* delivered is known.                                                     *)
LEMMA SendEntityInv ==
  ASSUME EntityInv, NEW g \in Engines, sendMessages(g), TypeOK'
  PROVE  EntityInv'
  <1> DEFINE c == container[g]
             u == container'[g]
             d == component[g]
             new == component'[g]
  <1>1. /\ phase'[g] = "idle" /\ u = releaseRemovedEntities(c) /\ new = Flushed(d)
        /\ broadcastMessages'[g] = <<>> /\ Forward(g)' = {}
        /\ \A h \in Engines \ Neighbours(g) : Inbox(h)' = Inbox(h)
        /\ \A h \in Neighbours(g) : \A x : x \in Inbox(h)' <=> x \in Inbox(h) \/ Delivers(g, h, x)
        /\ \A h \in Engines \ {g} :
              /\ container'[h] = container[h] /\ component'[h] = component[h]
              /\ phase'[h] = phase[h] /\ broadcastMessages'[h] = broadcastMessages[h]
              /\ Forward(h)' = Forward(h)
    BY SentEffect DEF EntityInv
  <1>2. c \in Containers /\ d \in Components /\ Local(g)
    BY DEF EntityInv, TypeOK
  <1>3. NextVersions(c) /\ c.usedEntities \cap c.toRemoveEntities = {}
    BY <1>2 DEF Local
  <1> HIDE DEF c, u, d, new
  <1>4. /\ NextVersions(u) /\ u.toRemoveEntities = {} /\ u.entityCounter = c.entityCounter
        /\ u.usedEntities = c.usedEntities
        /\ \A f \in Entity : IsRemoved(u, f) <=> IsRemoved(c, f) \/ f \in c.toRemoveEntities
    BY <1>1, <1>2, <1>3, ReleaseMeaning
  <1>5. /\ new.dirty = {} /\ new.data = d.data
        /\ \A f \in Entity : new.lastSentData[f] = IF f \in ToSend(d) THEN d.data[f] ELSE d.lastSentData[f]
    BY <1>1, <1>2, FlushMeaning
  <1>6. \A f \in Entity : new.lastSentData[f] = new.data[f]
    <2>1. \A f \in Entity \ d.dirty : d.lastSentData[f] = d.data[f]
      BY <1>2 DEF Local, d
    <2> QED
      BY <1>5, <2>1 DEF ToSend
  <1>7. Local(g)'
    BY <1>1, <1>4, <1>5, <1>6 DEF Local, NextVersions, u, new
  <1>8. \A f \in Entity : f \in Live(u) \/ IsRemoved(u, f) <=> f \in Live(c) \/ IsRemoved(c, f)
    BY <1>4 DEF Live
  <1>9. \A f \in Entity : Known(f)' <=> Known(f)
    <2>1. CASE g = Scene
      BY <1>8, <2>1 DEF Known, c, u
    <2>2. CASE g # Scene
      BY <1>1, <2>2, EnginesAre DEF Known
    <2> QED
      BY <2>1, <2>2
  <1>10. Counted'
    <2>1. container'[Scene].entityCounter = container[Scene].entityCounter
      BY <1>1, <1>4, EnginesAre DEF c, u
    <2> QED
      BY <1>9, <2>1 DEF EntityInv, Counted
  <1>11. \A h \in Engines : \A m \in Inbox(h) \cup Forward(h) :
           Known(m.message.entity) /\ m.message.entity \in Entity
    BY FieldTypes, SentFields DEF EntityInv, AllKnown
  <1>12. \A f \in Entity : f \in Live(c) \/ f \in d.dirty \/ d.data[f] # None => Known(f)
    BY DEF EntityInv, AllKnown, c, d
  <1>13. ASSUME NEW h \in Neighbours(g), NEW x, Delivers(g, h, x)
         PROVE  x.from = g /\ x.message.entity \in Entity /\ Known(x.message.entity)
    <2>1. ASSUME NEW m \in Forward(g), x = From(g, m.message)
          PROVE  x.from = g /\ x.message.entity \in Entity /\ Known(x.message.entity)
      BY <1>11, <2>1 DEF From
    <2>2. ASSUME NEW f \in ToSend(d), x = From(g, UpdateOf(d, f))
          PROVE  x.from = g /\ x.message.entity \in Entity /\ Known(x.message.entity)
      <3>1. f \in d.dirty /\ f \in Entity
        BY <1>2, <2>2 DEF ToSend, Components
      <3> QED
        BY <1>12, <2>2, <3>1 DEF From, UpdateOf, ComponentMessage
    <2>3. ASSUME NEW f \in c.toRemoveEntities, x = From(g, DeleteEntity(f))
          PROVE  x.from = g /\ x.message.entity \in Entity /\ Known(x.message.entity)
      <3>1. f \in Live(c) /\ f \in Entity
        BY <1>2, <2>3, ContainerFields DEF Live
      <3> QED
        BY <1>12, <2>3, <3>1 DEF From, DeleteEntity
    <2> QED
      BY <1>13, <2>1, <2>2, <2>3 DEF Delivers, c, d
  <1>14. ASSUME NEW h \in Engines
         PROVE  /\ \A m \in Inbox(h)' :
                     m \in Inbox(h) \/ (h \in Neighbours(g) /\ m.from = g /\ m.message.entity \in Entity
                                        /\ Known(m.message.entity))
                /\ Forward(h)' \subseteq Forward(h)
    BY <1>1, <1>13
  <1>15. Senders'
    BY <1>14, EnginesAre DEF EntityInv, Senders, Neighbours
  <1>16. \A h \in Engines : \A m \in Inbox(h)' \cup Forward(h)' : Known(m.message.entity)'
    BY <1>9, <1>11, <1>14
  <1>17. \A f \in Entity : f \in Live(u) \/ f \in new.dirty \/ new.data[f] # None => Known(f)'
    BY <1>4, <1>5, <1>9, <1>12 DEF Live
  <1> HIDE DEF EntityInv
  <1> QED
    BY <1>1, <1>7, <1>9, <1>10, <1>15, <1>16, <1>17, StepEntityInv DEF u, new

(* One step per action.                                                    *)
LEMMA NextEntityInv == EntityInv /\ Disciplined /\ [Next]_vars => EntityInv'
  <1> SUFFICES ASSUME EntityInv, Disciplined, [Next]_vars PROVE EntityInv'
    OBVIOUS
  <1>1. TypeOK'
    BY NextTypeOK DEF EntityInv
  <1>2. CASE UNCHANGED vars
    BY <1>2 DEF vars, EntityInv, TypeOK, Local, NextVersions, Senders, Counted, AllKnown, Known, Inbox, Forward
  <1>3. CASE addEntity
    BY <1>1, <1>3, AddEntityInv
  <1>4. ASSUME NEW g \in Engines, NEW e \in Entity, NEW v \in Values, write(g, e, v) PROVE EntityInv'
    BY <1>1, <1>4, WriteEntityInv
  <1>5. ASSUME NEW g \in Engines, NEW e \in Entity, deleteFrom(g, e) PROVE EntityInv'
    BY <1>1, <1>5, DeleteEntityInv
  <1>6. ASSUME NEW g \in Engines, NEW e \in Entity, removeEntity(g, e) PROVE EntityInv'
    BY <1>1, <1>6, RemoveEntityInv
  <1>7. ASSUME NEW g \in Engines, receiveMessages(g) PROVE EntityInv'
    BY <1>1, <1>7, ReceiveEntityInv
  <1>8. ASSUME NEW g \in Engines, sendMessages(g) PROVE EntityInv'
    BY <1>1, <1>8, SendEntityInv
  <1> QED
    BY <1>2, <1>3, <1>4, <1>5, <1>6, <1>7, <1>8 DEF Next
-----------------------------------------------------------------------------
(* Where the removal of an entity has got to, between Scene and a peer: a  *)
(* removal one has made the other has made, or is about to hear of; and    *)
(* whoever announces or relays one has made it.  A message about a version *)
(* comes after the removals of the versions before it.                     *)
Del(g, e) == From(g, DeleteEntity(e))

Removed(g, e) == IsRemoved(container[g], e)

RemovalReachesPeer(p) ==
  \A e \in Entity : Removed(Scene, e) =>
    \/ Removed(p, e)
    \/ Del(Scene, e) \in Inbox(p)
    \/ \E q \in Peers \ {p} : Del(q, e) \in Forward(Scene)

RemovalReachesScene(p) ==
  \A e \in Entity : Removed(p, e) => Removed(Scene, e) \/ Del(p, e) \in Inbox(Scene)

PeerAnnouncesItsRemovals(p) ==
  \A e \in Entity : Del(p, e) \in Inbox(Scene) \cup Forward(Scene) => Removed(p, e)

SceneRelaysItsRemovals(p) ==
  \A e \in Entity : Del(Scene, e) \in Inbox(p) \/ Del(p, e) \in Forward(Scene) => Removed(Scene, e)

EarlierVersionsFirst(p) ==
  \A m \in Inbox(p), e \in Entity :
    e[1] = m.message.entity[1] /\ e[2] < m.message.entity[2]
      => Removed(p, e) \/ Del(Scene, e) \in Inbox(p)

Removals(p) ==
  /\ RemovalReachesPeer(p) /\ RemovalReachesScene(p)
  /\ PeerAnnouncesItsRemovals(p) /\ SceneRelaysItsRemovals(p) /\ EarlierVersionsFirst(p)

(* A removed entity keeps no data, even before the end of the tick.        *)
DataIsOfUsed(g) ==
  \A e \in Entity : e \in container[g].toRemoveEntities \/ Removed(g, e) => component[g].data[e] = None

RemovalInv == EntityInv /\ (\A g \in Engines : DataIsOfUsed(g)) /\ \A p \in Peers : Removals(p)

(* At the start nothing is removed.                                        *)
LEMMA InitRemovalInv == Init /\ Disciplined => RemovalInv
  <1> SUFFICES ASSUME Init, Disciplined PROVE RemovalInv
    OBVIOUS
  <1>1. EntityInv
    BY InitEntityInv
  <1>2. \A g \in Engines : /\ container[g].toRemoveEntities = {}
                           /\ \A n \in Numbers : container[g].removedEntities[n] = -1
                           /\ Inbox(g) = {} /\ Forward(g) = {}
    BY RangeOfEmpty DEF Init, Inbox, Forward, Absent
  <1>3. \A g \in Engines, e \in Entity : ~Removed(g, e)
    BY <1>2, EntityIsFinite DEF Removed, IsRemoved
  <1> QED
    BY <1>1, <1>2, <1>3, EnginesAre
       DEF RemovalInv, DataIsOfUsed, Removals, RemovalReachesPeer, RemovalReachesScene,
           PeerAnnouncesItsRemovals, SceneRelaysItsRemovals, EarlierVersionsFirst

(* The calls of scene code leave the tombstones and the messages alone.    *)
LEMMA RemovalsKept ==
  ASSUME NEW p \in Peers, Removals(p),
         \A g \in Engines : Inbox(g)' = Inbox(g) /\ Forward(g)' = Forward(g),
         \A g \in Engines, e \in Entity : Removed(g, e)' <=> Removed(g, e)
  PROVE  Removals(p)'
  BY EnginesAre
     DEF Removals, RemovalReachesPeer, RemovalReachesScene,
         PeerAnnouncesItsRemovals, SceneRelaysItsRemovals, EarlierVersionsFirst

(* What has to be shown of a call: that no value is written to a removed   *)
(* entity.                                                                 *)
LEMMA CallRemovalInv ==
  ASSUME RemovalInv, EntityInv', NEW g \in Engines, UNCHANGED <<receivedMessages, broadcastMessages>>,
         \A h \in Engines \ {g} : container'[h] = container[h] /\ component'[h] = component[h],
         container'[g].removedEntities = container[g].removedEntities, DataIsOfUsed(g)'
  PROVE  RemovalInv'
  <1>1. \A h \in Engines, e \in Entity : Removed(h, e)' <=> Removed(h, e)
    BY DEF Removed, IsRemoved
  <1>2. \A h \in Engines : Inbox(h)' = Inbox(h) /\ Forward(h)' = Forward(h)
    BY DEF Inbox, Forward
  <1>3. \A p \in Peers : Removals(p)'
    BY <1>1, <1>2, RemovalsKept DEF RemovalInv
  <1>4. \A h \in Engines : DataIsOfUsed(h)'
    BY <1>1 DEF RemovalInv, DataIsOfUsed
  <1> QED
    BY <1>3, <1>4 DEF RemovalInv

(* A generated id is neither removed nor pending.                          *)
LEMMA AddRemovalInv == RemovalInv /\ addEntity /\ EntityInv' => RemovalInv'
  <1> SUFFICES ASSUME RemovalInv, addEntity, EntityInv' PROVE RemovalInv'
    OBVIOUS
  <1>1. /\ Scene \in Engines /\ UNCHANGED <<component, receivedMessages, broadcastMessages>>
        /\ container'[Scene] \in generateEntity(container[Scene])
        /\ \A h \in Engines \ {Scene} : container'[h] = container[h]
    BY EnginesAre DEF addEntity, RemovalInv, EntityInv, TypeOK
  <1>2. /\ container'[Scene].toRemoveEntities = container[Scene].toRemoveEntities
        /\ container'[Scene].removedEntities = container[Scene].removedEntities
    BY <1>1, GeneratedMeaning DEF RemovalInv
  <1>3. DataIsOfUsed(Scene)'
    BY <1>1, <1>2 DEF RemovalInv, DataIsOfUsed, Removed, IsRemoved
  <1> QED
    BY <1>1, <1>2, <1>3, CallRemovalInv

(* What is in use is neither removed nor pending.                          *)
LEMMA WriteRemovalInv ==
  ASSUME RemovalInv, NEW g \in Engines, NEW e \in Entity, NEW v \in Values, write(g, e, v), EntityInv'
  PROVE  RemovalInv'
  <1> DEFINE d == component[g]
             new == component'[g]
             c == container[g]
  <1>1. /\ e \in c.usedEntities /\ UNCHANGED <<container, receivedMessages, broadcastMessages>>
        /\ new = createOrReplace(d, e, v) \/ new = mutate(d, e, v)
        /\ \A h \in Engines \ {g} : component'[h] = component[h]
    BY DEF write, RemovalInv, EntityInv, TypeOK
  <1>2. /\ d \in Components /\ c \in Containers /\ NextVersions(c)
        /\ c.usedEntities \cap c.toRemoveEntities = {}
    BY DEF RemovalInv, EntityInv, TypeOK, Local
  <1> HIDE DEF d, new, c
  <1>3. \A f \in Entity \ {e} : new.data[f] = d.data[f]
    BY <1>1, <1>2, WriteMeaning
  <1>4. e \notin c.toRemoveEntities /\ ~IsRemoved(c, e)
    BY <1>1, <1>2, NextVersionIsNotRemoved
  <1>5. \A f \in Entity : f \in c.toRemoveEntities \/ IsRemoved(c, f) => d.data[f] = None
    BY DEF RemovalInv, DataIsOfUsed, Removed, c, d
  <1>6. DataIsOfUsed(g)'
    BY <1>1, <1>3, <1>4, <1>5 DEF DataIsOfUsed, Removed, c, new
  <1> QED
    BY <1>1, <1>6, CallRemovalInv

(* Deleting takes the value away.                                          *)
LEMMA DeleteRemovalInv ==
  ASSUME RemovalInv, NEW g \in Engines, NEW e \in Entity, deleteFrom(g, e) \/ removeEntity(g, e), EntityInv'
  PROVE  RemovalInv'
  <1> DEFINE d == component[g]
             new == component'[g]
             c == container[g]
             u == container'[g]
  <1>1. /\ UNCHANGED <<receivedMessages, broadcastMessages>> /\ new = entityDeleted(d, {e})
        /\ u = c \/ (e \in c.usedEntities /\ u = removeFromContainer(c, e))
        /\ \A h \in Engines \ {g} : component'[h] = component[h] /\ container'[h] = container[h]
    BY DEF deleteFrom, removeEntity, RemovalInv, EntityInv, TypeOK
  <1>2. d \in Components /\ c \in Containers
    BY DEF RemovalInv, EntityInv, TypeOK
  <1>3. \A f \in Entity : f \in c.toRemoveEntities \/ IsRemoved(c, f) => d.data[f] = None
    BY DEF RemovalInv, DataIsOfUsed, Removed
  <1> HIDE DEF d, new, c, u
  <1>4. /\ u.removedEntities = c.removedEntities
        /\ u.toRemoveEntities \subseteq c.toRemoveEntities \cup {e}
    BY <1>1, <1>2 DEF removeFromContainer, Containers
  <1>5. \A f \in Entity : new.data[f] = IF f \in {e} THEN None ELSE d.data[f]
    BY <1>1, <1>2, DeletionMeaning
  <1>6. \A f \in Entity : f \in u.toRemoveEntities \/ IsRemoved(u, f) => new.data[f] = None
    BY <1>3, <1>4, <1>5 DEF IsRemoved
  <1>7. DataIsOfUsed(g)'
    BY <1>6 DEF DataIsOfUsed, Removed, u, new
  <1> QED
    BY <1>1, <1>4, <1>7, CallRemovalInv DEF c, u

(* Whom a deletion comes from.                                             *)
LEMMA DeletionSenders ==
  ASSUME EntityInv
  PROVE  /\ \A p \in Peers, e \in Entity : e \in Announced(p) <=> Del(Scene, e) \in Inbox(p)
         /\ \A e \in Entity : e \in Announced(Scene) <=> \E q \in Peers : Del(q, e) \in Inbox(Scene)
         /\ \A m \in Forward(Scene) : m.from \in Peers /\ m = From(m.from, m.message)
  <1>1. \A g \in Engines : \A m \in Inbox(g) \cup Forward(g) : m = From(m.from, m.message)
    BY FieldTypes, SentFields DEF EntityInv, From
  <1>2. /\ \A p \in Peers : \A m \in Inbox(p) \cup Forward(p) : m.from = Scene
        /\ \A m \in Inbox(Scene) \cup Forward(Scene) : m.from \in Peers
    BY DEF EntityInv, Senders
  <1>3. \A g, e : Del(g, e).message = DeleteEntity(e)
    BY DEF Del, From
  <1> QED
    BY <1>1, <1>2, <1>3, EnginesAre DEF Announced, Del

(* Scene removes exactly what is announced to it, and forwards each        *)
(* deletion.                                                               *)
LEMMA SceneReceivesRemovalInv ==
  ASSUME RemovalInv, receiveMessages(Scene), EntityInv'
  PROVE  RemovalInv'
  <1>1. /\ EntityInv /\ TypeOK /\ Local(Scene) /\ Scene \in Engines
        /\ \A p \in Peers : Removals(p) /\ p \in Engines /\ p # Scene
        /\ \A g \in Engines : DataIsOfUsed(g)
    BY EnginesAre DEF RemovalInv, EntityInv
  <1>2. /\ Inbox(Scene)' = {} /\ phase[Scene] = "idle"
        /\ \A p \in Peers : /\ container'[p] = container[p] /\ component'[p] = component[p]
                            /\ Inbox(p)' = Inbox(p) /\ Forward(p)' = Forward(p)
    BY <1>1, ReceivedEffect
  <1>3. Forward(Scene) = {}
    BY <1>1, <1>2, RangeOfEmpty DEF Local, Forward
  <1>4. \A e \in Entity : Removed(Scene, e)' <=> Removed(Scene, e) \/ \E q \in Peers : Del(q, e) \in Inbox(Scene)
    BY <1>1, ReceivedAtScene, DeletionSenders DEF Removed
  <1>5. /\ Forward(Scene)' \subseteq Inbox(Scene)
        /\ \A q, e : Del(q, e) \in Inbox(Scene) => Del(q, e) \in Forward(Scene)'
        /\ \A e \in Entity : \/ component'[Scene].data[e] = None
                             \/ component'[Scene].data[e] = component[Scene].data[e]
                             \/ ~Removed(Scene, e)
        /\ \A e \in Announced(Scene) : component'[Scene].data[e] = None
    <2>1. \A q, e : Del(q, e).message.type = "DELETE_ENTITY"
      BY DEF Del, From, DeleteEntity
    <2>2. Announced(Scene) \subseteq Entity
      BY DEF Announced
    <2> QED
      BY <1>1, <2>1, <2>2, ReceivedComponent DEF Removed
  <1>6. container'[Scene].toRemoveEntities = {}
    BY <1>1, ReceivedContainer
  <1>7. \A p \in Peers, e \in Entity : Removed(p, e)' <=> Removed(p, e)
    BY <1>2 DEF Removed
  <1>8. ASSUME NEW p \in Peers PROVE Removals(p)'
    <2>1. RemovalReachesPeer(p)'
      BY <1>1, <1>2, <1>3, <1>4, <1>5, <1>7 DEF Removals, RemovalReachesPeer, PeerAnnouncesItsRemovals
    <2>2. RemovalReachesScene(p)'
      BY <1>1, <1>2, <1>4, <1>7 DEF Removals, RemovalReachesScene
    <2>3. PeerAnnouncesItsRemovals(p)'
      BY <1>1, <1>2, <1>5, <1>7 DEF Removals, PeerAnnouncesItsRemovals
    <2>4. SceneRelaysItsRemovals(p)'
      BY <1>1, <1>2, <1>4, <1>5 DEF Removals, SceneRelaysItsRemovals
    <2>5. EarlierVersionsFirst(p)'
      BY <1>1, <1>2, <1>7 DEF Removals, EarlierVersionsFirst
    <2> QED
      BY <2>1, <2>2, <2>3, <2>4, <2>5 DEF Removals
  <1>9. DataIsOfUsed(Scene)'
    <2>1. ASSUME NEW e \in Entity, Removed(Scene, e)' PROVE component'[Scene].data[e] = None
      BY <1>1, <1>4, <1>5, <2>1, DeletionSenders DEF DataIsOfUsed
    <2> QED
      BY <1>6, <2>1 DEF DataIsOfUsed
  <1>10. \A p \in Peers : DataIsOfUsed(p)'
    BY <1>1, <1>2, <1>7 DEF DataIsOfUsed
  <1> QED
    BY <1>8, <1>9, <1>10, EnginesAre DEF RemovalInv

(* A peer removes exactly what is announced to it: the versions before an  *)
(* entity it hears of were announced earlier.                              *)
LEMMA PeerReceivesRemovalInv ==
  ASSUME RemovalInv, NEW p \in Peers, receiveMessages(p), EntityInv'
  PROVE  RemovalInv'
  <1>1. /\ EntityInv /\ TypeOK /\ Local(p) /\ Scene \in Engines /\ p \in Engines /\ p # Scene
        /\ \A q \in Peers : Removals(q) /\ q \in Engines /\ q # Scene
        /\ \A g \in Engines : DataIsOfUsed(g)
    BY EnginesAre DEF RemovalInv, EntityInv
  <1>2. /\ Inbox(p)' = {}
        /\ \A h \in Engines \ {p} : /\ container'[h] = container[h] /\ component'[h] = component[h]
                                    /\ Inbox(h)' = Inbox(h) /\ Forward(h)' = Forward(h)
    BY <1>1, ReceivedEffect
  <1>3. \A e \in Entity : Removed(p, e)' <=> Removed(p, e) \/ Del(Scene, e) \in Inbox(p)
    <2>1. \A e \in Entity :
            /\ Removed(p, e) \/ e \in Announced(p) => Removed(p, e)'
            /\ Removed(p, e)' => \/ Removed(p, e) \/ e \in Announced(p)
                                 \/ \E m \in Inbox(p) : m.message.entity[1] = e[1] /\ m.message.entity[2] > e[2]
      BY <1>1, ReceivedContainer DEF Removed
    <2>2. \A m \in Inbox(p) : m.message.entity[2] \in Nat
      BY <1>1, FieldTypes, SentFields, EntityIsFinite
    <2> QED
      BY <1>1, <2>1, <2>2, DeletionSenders, EntityIsFinite DEF Removals, EarlierVersionsFirst
  <1>4. /\ \A e \in Entity : \/ component'[p].data[e] = None
                             \/ component'[p].data[e] = component[p].data[e]
                             \/ ~Removed(p, e)
        /\ \A e \in Announced(p) : component'[p].data[e] = None
    <2>1. Announced(p) \subseteq Entity
      BY DEF Announced
    <2> QED
      BY <1>1, <2>1, ReceivedComponent DEF Removed
  <1>5. container'[p].toRemoveEntities = {}
    BY <1>1, ReceivedContainer
  <1>6. \A h \in Engines \ {p}, e \in Entity : Removed(h, e)' <=> Removed(h, e)
    BY <1>2 DEF Removed
  <1>7. ASSUME NEW q \in Peers PROVE Removals(q)'
    <2>1. RemovalReachesPeer(q)'
      BY <1>1, <1>2, <1>3, <1>6 DEF Removals, RemovalReachesPeer
    <2>2. RemovalReachesScene(q)'
      BY <1>1, <1>2, <1>3, <1>6 DEF Removals, RemovalReachesScene, SceneRelaysItsRemovals
    <2>3. PeerAnnouncesItsRemovals(q)'
      BY <1>1, <1>2, <1>3, <1>6 DEF Removals, PeerAnnouncesItsRemovals
    <2>4. SceneRelaysItsRemovals(q)'
      BY <1>1, <1>2, <1>6 DEF Removals, SceneRelaysItsRemovals
    <2>5. EarlierVersionsFirst(q)'
      BY <1>1, <1>2, <1>6 DEF Removals, EarlierVersionsFirst
    <2> QED
      BY <2>1, <2>2, <2>3, <2>4, <2>5 DEF Removals
  <1>8. DataIsOfUsed(p)'
    <2>1. ASSUME NEW e \in Entity, Removed(p, e)' PROVE component'[p].data[e] = None
      BY <1>1, <1>3, <1>4, <2>1, DeletionSenders DEF DataIsOfUsed
    <2> QED
      BY <1>5, <2>1 DEF DataIsOfUsed
  <1>9. \A h \in Engines \ {p} : DataIsOfUsed(h)'
    BY <1>1, <1>2, <1>6 DEF DataIsOfUsed
  <1> QED
    BY <1>7, <1>8, <1>9 DEF RemovalInv

(* A flush gives a tombstone to what is pending, and to nothing else.      *)
LEMMA SentRemovals ==
  ASSUME RemovalInv, NEW g \in Engines, sendMessages(g)
  PROVE  /\ \A e \in Entity : Removed(g, e)' <=> Removed(g, e) \/ e \in container[g].toRemoveEntities
         /\ DataIsOfUsed(g)'
         /\ \A h \in Engines \ {g} : DataIsOfUsed(h)' /\ \A e \in Entity : Removed(h, e)' <=> Removed(h, e)
  <1> DEFINE c == container[g]
             u == container'[g]
             d == component[g]
             new == component'[g]
  <1>1. /\ u = releaseRemovedEntities(c) /\ new = Flushed(d)
        /\ \A h \in Engines \ {g} : container'[h] = container[h] /\ component'[h] = component[h]
    BY SentEffect DEF RemovalInv, EntityInv
  <1>2. /\ c \in Containers /\ d \in Components /\ NextVersions(c)
        /\ c.usedEntities \cap c.toRemoveEntities = {}
    BY DEF RemovalInv, EntityInv, TypeOK, Local
  <1>3. \A f \in Entity : f \in c.toRemoveEntities \/ IsRemoved(c, f) => d.data[f] = None
    BY DEF RemovalInv, DataIsOfUsed, Removed
  <1> HIDE DEF c, u, d, new
  <1>4. /\ u.toRemoveEntities = {} /\ new.data = d.data
        /\ \A f \in Entity : IsRemoved(u, f) <=> IsRemoved(c, f) \/ f \in c.toRemoveEntities
    BY <1>1, <1>2, ReleaseMeaning, FlushMeaning
  <1>5. DataIsOfUsed(g)'
    BY <1>3, <1>4 DEF DataIsOfUsed, Removed, u, new
  <1>6. \A e \in Entity : Removed(g, e)' <=> Removed(g, e) \/ e \in container[g].toRemoveEntities
    BY <1>4 DEF Removed, c, u
  <1>7. \A h \in Engines \ {g} : DataIsOfUsed(h)' /\ \A e \in Entity : Removed(h, e)' <=> Removed(h, e)
    BY <1>1 DEF RemovalInv, DataIsOfUsed, Removed
  <1> QED
    BY <1>5, <1>6, <1>7

(* The deletions that a flush delivers.                                    *)
LEMMA DeliveredDeletions ==
  ASSUME EntityInv, NEW g \in Engines, NEW h, NEW k, NEW e \in Entity
  PROVE  Delivers(g, h, Del(k, e)) <=>
           k = g /\ (\/ \E q \in Engines \ {h} : Del(q, e) \in Forward(g)
                     \/ e \in container[g].toRemoveEntities)
  <1>1. \A m \in Forward(g) : m.from \in Engines /\ m = From(m.from, m.message)
    BY FieldTypes, SentFields DEF EntityInv, From
  <1>2. \A a, b, m, n : From(a, m) = From(b, n) <=> a = b /\ m = n
    BY DEF From
  <1>3. \A d, f : DeleteEntity(e) # UpdateOf(d, f)
    BY DEF DeleteEntity, UpdateOf, ComponentMessage
  <1>4. \A f : DeleteEntity(e) = DeleteEntity(f) <=> e = f
    BY DEF DeleteEntity
  <1>5. \A q \in Engines : Del(q, e).from = q /\ Del(q, e).message = DeleteEntity(e)
    BY DEF Del, From
  <1> QED
    BY <1>1, <1>2, <1>3, <1>4, <1>5 DEF Delivers, Del

(* Scene delivers the deletions it forwards to every peer but the one they *)
(* came from, and its own to all.                                          *)
LEMMA SceneSendsRemovalInv ==
  ASSUME RemovalInv, sendMessages(Scene), EntityInv'
  PROVE  RemovalInv'
  <1>1. /\ EntityInv /\ TypeOK /\ Local(Scene) /\ Scene \in Engines
        /\ \A p \in Peers : Removals(p) /\ p \in Engines /\ p # Scene
    BY EnginesAre DEF RemovalInv, EntityInv
  <1>2. /\ Forward(Scene)' = {} /\ Inbox(Scene)' = Inbox(Scene)
        /\ \A p \in Peers : \A x : x \in Inbox(p)' <=> x \in Inbox(p) \/ Delivers(Scene, p, x)
    BY <1>1, SentEffect DEF Neighbours
  <1>3. /\ \A e \in Entity : Removed(Scene, e)' <=> Removed(Scene, e) \/ e \in container[Scene].toRemoveEntities
        /\ DataIsOfUsed(Scene)'
        /\ \A h \in Peers : DataIsOfUsed(h)' /\ \A e \in Entity : Removed(h, e)' <=> Removed(h, e)
    BY <1>1, SentRemovals
  <1>4. ASSUME NEW p \in Peers, NEW e \in Entity
        PROVE  Del(Scene, e) \in Inbox(p)' <=>
                 \/ Del(Scene, e) \in Inbox(p) \/ e \in container[Scene].toRemoveEntities
                 \/ \E q \in Peers \ {p} : Del(q, e) \in Forward(Scene)
    <2>1. \A q \in Engines : Del(q, e) \in Forward(Scene) => q \in Peers
      <3>1. \A q : Del(q, e).from = q
        BY DEF Del, From
      <3> QED
        BY <1>1, <3>1, DeletionSenders
    <2> QED
      BY <1>1, <1>2, <2>1, DeliveredDeletions
  <1>5. ASSUME NEW e \in Entity, Known(e), NEW f \in Entity, f[1] = e[1], f[2] < e[2]
        PROVE  Removed(Scene, f)
    <2>1. container[Scene] \in Containers /\ NextVersions(container[Scene])
      BY <1>1 DEF TypeOK, Local
    <2>2. CASE e \in Live(container[Scene])
      BY <1>5, <2>1, <2>2, NextVersionIsNotRemoved DEF Live, Removed
    <2>3. CASE IsRemoved(container[Scene], e)
      <3>1. container[Scene].removedEntities[e[1]] \in Int /\ e[2] \in Nat /\ f[2] \in Nat
        BY <2>1, ContainerFields, EntityIsFinite, TombsAreIntegers
      <3> QED
        BY <1>5, <2>3, <3>1 DEF Removed, IsRemoved
    <2> QED
      BY <1>5, <2>2, <2>3 DEF Known
  <1>6. ASSUME NEW p \in Peers, NEW x, Delivers(Scene, p, x)
        PROVE  x.message.entity \in Entity /\ Known(x.message.entity)
    <2>1. ASSUME NEW m \in Forward(Scene), x = From(Scene, m.message)
          PROVE  x.message.entity \in Entity /\ Known(x.message.entity)
      BY <1>1, <2>1, FieldTypes, SentFields DEF From, EntityInv, AllKnown
    <2>2. ASSUME NEW f \in ToSend(component[Scene]), x = From(Scene, UpdateOf(component[Scene], f))
          PROVE  x.message.entity \in Entity /\ Known(x.message.entity)
      <3>1. f \in component[Scene].dirty /\ f \in Entity
        BY <1>1, <2>2, FieldTypes DEF ToSend
      <3> QED
        BY <1>1, <2>2, <3>1 DEF From, UpdateOf, ComponentMessage, EntityInv, AllKnown
    <2>3. ASSUME NEW f \in container[Scene].toRemoveEntities, x = From(Scene, DeleteEntity(f))
          PROVE  x.message.entity \in Entity /\ Known(x.message.entity)
      <3>1. f \in Live(container[Scene]) /\ f \in Entity
        BY <1>1, <2>3, FieldTypes DEF Live
      <3> QED
        BY <1>1, <2>3, <3>1 DEF From, DeleteEntity, EntityInv, AllKnown
    <2> QED
      BY <1>6, <2>1, <2>2, <2>3 DEF Delivers
  <1>7. ASSUME NEW p \in Peers PROVE Removals(p)'
    <2>1. RemovalReachesPeer(p)'
      BY <1>1, <1>3, <1>4 DEF Removals, RemovalReachesPeer
    <2>2. RemovalReachesScene(p)'
      BY <1>1, <1>2, <1>3 DEF Removals, RemovalReachesScene
    <2>3. PeerAnnouncesItsRemovals(p)'
      BY <1>1, <1>2, <1>3 DEF Removals, PeerAnnouncesItsRemovals
    <2>4. SceneRelaysItsRemovals(p)'
      BY <1>1, <1>2, <1>3, <1>4 DEF Removals, SceneRelaysItsRemovals
    <2>5. EarlierVersionsFirst(p)'
      <3>1. SUFFICES ASSUME NEW m \in Inbox(p)', NEW e \in Entity,
                            e[1] = m.message.entity[1], e[2] < m.message.entity[2]
                     PROVE  Removed(p, e) \/ Del(Scene, e) \in Inbox(p)'
        BY <1>3 DEF EarlierVersionsFirst
      <3>2. CASE m \in Inbox(p)
        BY <1>1, <1>4, <3>1, <3>2 DEF Removals, EarlierVersionsFirst
      <3>3. CASE Delivers(Scene, p, m)
        <4>1. Removed(Scene, e)
          BY <1>5, <1>6, <3>1, <3>3
        <4> QED
          BY <1>1, <1>4, <4>1 DEF Removals, RemovalReachesPeer
      <3> QED
        BY <1>2, <3>2, <3>3
    <2> QED
      BY <2>1, <2>2, <2>3, <2>4, <2>5 DEF Removals
  <1> QED
    BY <1>3, <1>7, EnginesAre DEF RemovalInv

(* A peer delivers its own deletions, and forwards nothing.                *)
LEMMA PeerSendsRemovalInv ==
  ASSUME RemovalInv, NEW p \in Peers, sendMessages(p), EntityInv'
  PROVE  RemovalInv'
  <1>1. /\ EntityInv /\ TypeOK /\ Local(p) /\ Scene \in Engines /\ p \in Engines /\ p # Scene
        /\ \A q \in Peers : Removals(q) /\ q \in Engines /\ q # Scene
    BY EnginesAre DEF RemovalInv, EntityInv
  <1>2. /\ \A q \in Peers : Inbox(q)' = Inbox(q)
        /\ \A x : x \in Inbox(Scene)' <=> x \in Inbox(Scene) \/ Delivers(p, Scene, x)
        /\ Forward(Scene)' = Forward(Scene)
    BY <1>1, SentEffect DEF Neighbours
  <1>3. /\ \A e \in Entity : Removed(p, e)' <=> Removed(p, e) \/ e \in container[p].toRemoveEntities
        /\ DataIsOfUsed(p)'
        /\ \A h \in Engines \ {p} : DataIsOfUsed(h)' /\ \A e \in Entity : Removed(h, e)' <=> Removed(h, e)
    BY <1>1, SentRemovals
  <1>4. ASSUME NEW q \in Peers, NEW e \in Entity
        PROVE  Del(q, e) \in Inbox(Scene)' <=>
                 Del(q, e) \in Inbox(Scene) \/ (q = p /\ e \in container[p].toRemoveEntities)
    <2>1. \A k : Del(k, e) \in Forward(p) => k = Scene
      <3>1. \A k : Del(k, e).from = k
        BY DEF Del, From
      <3> QED
        BY <1>1, <3>1 DEF EntityInv, Senders
    <2> QED
      BY <1>1, <1>2, <2>1, DeliveredDeletions
  <1>5. ASSUME NEW q \in Peers PROVE Removals(q)'
    <2>1. RemovalReachesPeer(q)'
      BY <1>1, <1>2, <1>3 DEF Removals, RemovalReachesPeer
    <2>2. RemovalReachesScene(q)'
      BY <1>1, <1>3, <1>4 DEF Removals, RemovalReachesScene
    <2>3. PeerAnnouncesItsRemovals(q)'
      BY <1>1, <1>2, <1>3, <1>4 DEF Removals, PeerAnnouncesItsRemovals
    <2>4. SceneRelaysItsRemovals(q)'
      BY <1>1, <1>2, <1>3 DEF Removals, SceneRelaysItsRemovals
    <2>5. EarlierVersionsFirst(q)'
      BY <1>1, <1>2, <1>3 DEF Removals, EarlierVersionsFirst
    <2> QED
      BY <2>1, <2>2, <2>3, <2>4, <2>5 DEF Removals
  <1> QED
    BY <1>3, <1>5 DEF RemovalInv

(* One step per action.                                                    *)
LEMMA NextRemovalInv == RemovalInv /\ Disciplined /\ [Next]_vars => RemovalInv'
  <1> SUFFICES ASSUME RemovalInv, Disciplined, [Next]_vars PROVE RemovalInv'
    OBVIOUS
  <1>1. EntityInv'
    BY NextEntityInv DEF RemovalInv
  <1>2. CASE UNCHANGED vars
    <2>1. /\ \A g \in Engines : Inbox(g)' = Inbox(g) /\ Forward(g)' = Forward(g)
          /\ \A g \in Engines, e \in Entity : Removed(g, e)' <=> Removed(g, e)
      BY <1>2 DEF vars, Inbox, Forward, Removed
    <2>2. \A p \in Peers : Removals(p)'
      BY <2>1, RemovalsKept DEF RemovalInv
    <2>3. \A g \in Engines : DataIsOfUsed(g)'
      BY <1>2, <2>1 DEF vars, RemovalInv, DataIsOfUsed
    <2> QED
      BY <1>1, <2>2, <2>3 DEF RemovalInv
  <1>3. CASE addEntity
    BY <1>1, <1>3, AddRemovalInv
  <1>4. ASSUME NEW g \in Engines, NEW e \in Entity, NEW v \in Values, write(g, e, v) PROVE RemovalInv'
    BY <1>1, <1>4, WriteRemovalInv
  <1>5. ASSUME NEW g \in Engines, NEW e \in Entity, deleteFrom(g, e) \/ removeEntity(g, e) PROVE RemovalInv'
    BY <1>1, <1>5, DeleteRemovalInv
  <1>6. ASSUME NEW g \in Engines, receiveMessages(g) PROVE RemovalInv'
    BY <1>1, <1>6, EnginesAre, SceneReceivesRemovalInv, PeerReceivesRemovalInv
  <1>7. ASSUME NEW g \in Engines, sendMessages(g) PROVE RemovalInv'
    BY <1>1, <1>7, EnginesAre, SceneSendsRemovalInv, PeerSendsRemovalInv
  <1> QED
    BY <1>2, <1>3, <1>4, <1>5, <1>6, <1>7 DEF Next

(* The invariant is stronger than what is checked: it holds inside a tick  *)
(* as well.                                                                *)
LEMMA RemovalInvSuffices == RemovalInv => RemovedIsNotUsed
  <1> SUFFICES ASSUME RemovalInv, NEW g \in Engines, NEW e \in Entity, IsRemoved(container[g], e)
               PROVE  e \notin container[g].usedEntities /\ component[g].data[e] = None
    BY DEF RemovedIsNotUsed
  <1>1. component[g].data[e] = None
    BY DEF RemovalInv, DataIsOfUsed, Removed
  <1>2. container[g] \in Containers /\ NextVersions(container[g])
    BY DEF RemovalInv, EntityInv, TypeOK, Local
  <1> QED
    BY <1>1, <1>2, NextVersionIsNotRemoved

(* An id that was removed is not in use any more and keeps no component    *)
(* data, at any engine, when scene code runs inside the tick and the build *)
(* told the engine how far the numbers of main.crdt go                     *)
(* (engine/entity.ts, systems/crdt/index.ts).                              *)
THEOREM RemovedStaysRemoved == ASSUME Disciplined PROVE Spec => []RemovedIsNotUsed
  <1>1. Init => RemovalInv
    BY InitRemovalInv
  <1>2. RemovalInv /\ [Next]_vars => RemovalInv'
    BY NextRemovalInv
  <1> QED
    BY <1>1, <1>2, RemovalInvSuffices, PTL DEF Spec
-----------------------------------------------------------------------------
(* Stamps are ordered by timestamp, then by value, as updateFromCrdt       *)
(* compares them.                                                          *)
Stamps == Nat \X Nat

Earlier(a, b) == AtMost(a[1], a[2], b[1], b[2])

(* A total order, of which the proofs need these.                          *)
LEMMA StampOrder ==
  /\ \A a \in Stamps : Earlier(a, a)
  /\ \A a, b, c \in Stamps : Earlier(a, b) /\ Earlier(b, c) => Earlier(a, c)
  /\ \A a, b \in Stamps : Earlier(a, b) /\ Earlier(b, a) => a = b
  <1>1. \A a \in Nat \X Nat : a[1] \in Nat /\ a[2] \in Nat /\ a = <<a[1], a[2]>>
    OBVIOUS
  <1>2. \A a, b \in Nat \X Nat : a[1] = b[1] /\ a[2] = b[2] => a = b
    BY <1>1
  <1>3. \A a \in Stamps : a[1] \in Nat /\ a[2] \in Nat
    BY <1>1 DEF Stamps
  <1> QED
    BY <1>2, <1>3 DEF Earlier, AtMost, Stamps

Low(d, e) == <<LowTime(d, e), LowData(d, e)>>

LowOf(g, e) == Low(component[g], e)

Forgot(g, e) == Forgotten(component[g], e)

StampOf(m) == <<m.message.timestamp, m.message.data>>

(* Low is a stamp.                                                         *)
LEMMA LowIsStamp ==
  ASSUME NEW d \in Components, NEW e \in Entity
  PROVE  Low(d, e) \in Stamps
  <1>1. d.timestamps[e] \in Nat /\ d.lastSentData[e] \in Nat
    BY ValuesAreNumbers DEF Components
  <1> QED
    BY <1>1 DEF Low, LowTime, LowData, Stamps

(* So is what a message carries.                                           *)
LEMMA StampTypes ==
  ASSUME TypeOK, NEW g \in Engines
  PROVE  /\ \A e \in Entity : LowOf(g, e) \in Stamps
         /\ \A m \in Inbox(g) \cup Forward(g), e \in Entity : OfComponent(m, e) => StampOf(m) \in Stamps
  <1>1. \A e \in Entity : LowOf(g, e) \in Stamps
    BY FieldTypes, LowIsStamp DEF LowOf
  <1>2. \A m \in Inbox(g) \cup Forward(g), e \in Entity :
          OfComponent(m, e) => m.message.timestamp \in Nat /\ m.message.data \in Nat
    BY FieldTypes, SentFields DEF OfComponent
  <1>3. \A a, b \in Nat : <<a, b>> \in Stamps
    BY DEF Stamps
  <1> QED
    BY <1>1, <1>2, <1>3 DEF StampOf

(* How far a stamp has got: whatever is on its way is at most what its     *)
(* sender may send next; and what an engine holds, unless it has forgotten *)
(* what it sent last, the other holds or is about to hear of.              *)
PeerIsAheadOfItsMessages(p) ==
  \A e \in Entity, m \in Inbox(Scene) \cup Forward(Scene) :
    m.from = p /\ OfComponent(m, e) => Earlier(StampOf(m), LowOf(p, e))

SceneIsAheadOfItsMessages(p) ==
  \A e \in Entity, m \in Inbox(p) \cup Forward(Scene) :
    OfComponent(m, e) => Earlier(StampOf(m), LowOf(Scene, e))

ValueReachesPeer(p) ==
  \A e \in Entity : ~Removed(Scene, e) /\ ~Removed(p, e) /\ ~Forgot(Scene, e) =>
    \/ Earlier(LowOf(Scene, e), LowOf(p, e))
    \/ \E m \in Inbox(p) : OfComponent(m, e) /\ Earlier(LowOf(Scene, e), StampOf(m))
    \/ \E m \in Forward(Scene) : m.from # p /\ OfComponent(m, e) /\ Earlier(LowOf(Scene, e), StampOf(m))

ValueReachesScene(p) ==
  \A e \in Entity : ~Removed(Scene, e) /\ ~Removed(p, e) /\ ~Forgot(p, e) =>
    \/ Earlier(LowOf(p, e), LowOf(Scene, e))
    \/ \E m \in Inbox(Scene) : m.from = p /\ OfComponent(m, e) /\ Earlier(LowOf(p, e), StampOf(m))

Stamped(p) ==
  /\ PeerIsAheadOfItsMessages(p) /\ SceneIsAheadOfItsMessages(p)
  /\ ValueReachesPeer(p) /\ ValueReachesScene(p)

ValueInv == RemovalInv /\ \A p \in Peers : Stamped(p)

(* At the start all engines hold the same.                                 *)
LEMMA InitValueInv == Init /\ Disciplined => ValueInv
  <1> SUFFICES ASSUME Init, Disciplined PROVE ValueInv
    OBVIOUS
  <1>1. RemovalInv /\ TypeOK
    BY InitRemovalInv DEF RemovalInv, EntityInv
  <1>2. \A g \in Engines : Inbox(g) = {} /\ Forward(g) = {}
    BY RangeOfEmpty DEF Init, Inbox, Forward
  <1>3. \A p \in Peers : component[p] = component[Scene]
    BY EnginesAre DEF Init
  <1>4. \A p \in Peers, e \in Entity : Earlier(LowOf(Scene, e), LowOf(p, e)) /\ Earlier(LowOf(p, e), LowOf(Scene, e))
    BY <1>1, <1>3, EnginesAre, StampTypes, StampOrder DEF LowOf
  <1> QED
    BY <1>1, <1>2, <1>4, EnginesAre
       DEF ValueInv, Stamped, PeerIsAheadOfItsMessages, SceneIsAheadOfItsMessages, ValueReachesPeer, ValueReachesScene

(* What a call does to the least stamp to come.                            *)
LEMMA CallStamps ==
  ASSUME NEW d \in Components, NEW e \in Entity, NEW v \in Values, NEW new,
         \A f \in Entity \ d.dirty : d.lastSentData[f] = d.data[f],
         new \in {createOrReplace(d, e, v), mutate(d, e, v), entityDeleted(d, {e})}
  PROVE  \A f \in Entity : /\ Earlier(Low(d, f), Low(new, f))
                           /\ Forgotten(d, f) => Forgotten(new, f)
                           /\ Forgotten(new, f) \/ Low(new, f) = Low(d, f)
  <1> SUFFICES ASSUME NEW f \in Entity
               PROVE  /\ Earlier(Low(d, f), Low(new, f))
                      /\ Forgotten(d, f) => Forgotten(new, f)
                      /\ Forgotten(new, f) \/ Low(new, f) = Low(d, f)
    OBVIOUS
  <1>1. /\ d.timestamps[f] \in Nat /\ d.lastSentData[f] \in Nat /\ d.data[f] \in Nat
        /\ None \in Nat
    BY ValuesAreNumbers DEF Components, None
  <1>2. /\ new.timestamps = d.timestamps /\ d.dirty \subseteq new.dirty
        /\ \/ new.lastSentData[f] = d.lastSentData[f] /\ (f \in new.dirty => f \in d.dirty)
           \/ new.lastSentData[f] \in {None, d.lastSentData[f]} /\ f \in new.dirty
           \/ new.lastSentData[f] = None /\ d.data[f] = None /\ new.dirty = d.dirty
    <2>1. CASE new \in {createOrReplace(d, e, v), mutate(d, e, v)}
      <3>1. /\ new.dirty = d.dirty \cup {e} /\ new.timestamps = d.timestamps
            /\ new.lastSentData[e] = None \/ new.lastSentData[e] = d.lastSentData[e]
            /\ \A k \in Entity \ {e} : new.lastSentData[k] = d.lastSentData[k]
        BY <2>1, WriteMeaning
      <3> QED
        BY <3>1
    <2>2. CASE new = entityDeleted(d, {e})
      <3>1. /\ new.timestamps = d.timestamps
            /\ new.dirty = d.dirty \cup {k \in {e} : d.data[k] # None}
            /\ \A k \in Entity : new.lastSentData[k] = IF k \in {e} THEN None ELSE d.lastSentData[k]
        BY <2>2, DeletionMeaning
      <3> QED
        BY <3>1
    <2> QED
      BY <2>1, <2>2
  <1>3. /\ Forgotten(d, f) => Forgotten(new, f)
        /\ Forgotten(new, f) \/ (LowTime(new, f) = LowTime(d, f) /\ LowData(new, f) = LowData(d, f))
        /\ AtMost(LowTime(d, f), LowData(d, f), LowTime(new, f), LowData(new, f))
    BY <1>1, <1>2 DEF Forgotten, LowTime, LowData, AtMost, None
  <1>4. Earlier(Low(d, f), Low(new, f))
    BY <1>3 DEF Earlier, Low
  <1>5. Forgotten(new, f) \/ Low(new, f) = Low(d, f)
    BY <1>3 DEF Low
  <1> QED
    BY <1>3, <1>4, <1>5

(* What has to be shown of a call: the least stamp to come only grows, and *)
(* a value that was sent is forgotten only to be sent anew.                *)
LEMMA CallValueInv ==
  ASSUME ValueInv, RemovalInv', NEW g \in Engines, UNCHANGED <<receivedMessages, broadcastMessages>>,
         \A h \in Engines : container'[h].removedEntities = container[h].removedEntities,
         \A h \in Engines \ {g} : component'[h] = component[h],
         \A e \in Entity : /\ Earlier(LowOf(g, e), LowOf(g, e)')
                           /\ Forgot(g, e) => Forgot(g, e)'
                           /\ Forgot(g, e)' \/ LowOf(g, e)' = LowOf(g, e)
  PROVE  ValueInv'
  <1>1. /\ \A h \in Engines, e \in Entity : Removed(h, e)' <=> Removed(h, e)
        /\ \A h \in Engines : Inbox(h)' = Inbox(h) /\ Forward(h)' = Forward(h)
    BY DEF Removed, IsRemoved, Inbox, Forward
  <1>2. TypeOK /\ TypeOK'
    BY DEF ValueInv, RemovalInv, EntityInv
  <1>3. /\ \A h \in Engines, e \in Entity : LowOf(h, e) \in Stamps
        /\ \A h \in Engines, e \in Entity : LowOf(h, e)' \in Stamps
        /\ \A h \in Engines : \A m \in Inbox(h) \cup Forward(h), e \in Entity : OfComponent(m, e) => StampOf(m) \in Stamps
    <2>1. \A h \in Engines, e \in Entity : LowOf(h, e)' \in Stamps
      BY <1>2, LowIsStamp DEF LowOf, TypeOK
    <2> QED
      BY <1>2, <2>1, StampTypes
  <1>4. \A h \in Engines, e \in Entity :
          /\ Earlier(LowOf(h, e), LowOf(h, e)')
          /\ Forgot(h, e) => Forgot(h, e)'
          /\ Forgot(h, e)' \/ LowOf(h, e)' = LowOf(h, e)
    <2>1. ASSUME NEW h \in Engines \ {g}, NEW e \in Entity
          PROVE  LowOf(h, e)' = LowOf(h, e) /\ (Forgot(h, e)' <=> Forgot(h, e))
      BY DEF LowOf, Forgot
    <2> QED
      BY <1>3, <2>1, StampOrder
  <1>5. ASSUME NEW p \in Peers PROVE Stamped(p)'
    <2>1. p \in Engines /\ Scene \in Engines /\ Stamped(p)
      BY EnginesAre DEF ValueInv
    <2>2. PeerIsAheadOfItsMessages(p)'
      <3>1. \A e \in Entity, m \in Inbox(Scene) \cup Forward(Scene) :
              m.from = p /\ OfComponent(m, e) => Earlier(StampOf(m), LowOf(p, e))
        BY <2>1 DEF Stamped, PeerIsAheadOfItsMessages
      <3>2. \A e \in Entity, m \in Inbox(Scene) \cup Forward(Scene) :
              m.from = p /\ OfComponent(m, e) => Earlier(StampOf(m), LowOf(p, e)')
        BY <1>3, <1>4, <2>1, <3>1, StampOrder
      <3> QED
        BY <1>1, <2>1, <3>2 DEF PeerIsAheadOfItsMessages
    <2>3. SceneIsAheadOfItsMessages(p)'
      <3>1. \A e \in Entity, m \in Inbox(p) \cup Forward(Scene) :
              OfComponent(m, e) => Earlier(StampOf(m), LowOf(Scene, e))
        BY <2>1 DEF Stamped, SceneIsAheadOfItsMessages
      <3>2. \A e \in Entity, m \in Inbox(p) \cup Forward(Scene) :
              OfComponent(m, e) => Earlier(StampOf(m), LowOf(Scene, e)')
        BY <1>3, <1>4, <2>1, <3>1, StampOrder
      <3> QED
        BY <1>1, <2>1, <3>2 DEF SceneIsAheadOfItsMessages
    <2>4. ValueReachesPeer(p)'
      <3>1. SUFFICES ASSUME NEW e \in Entity, ~Removed(Scene, e), ~Removed(p, e), ~Forgot(Scene, e)'
                     PROVE  \/ Earlier(LowOf(Scene, e)', LowOf(p, e)')
                            \/ \E m \in Inbox(p) : OfComponent(m, e) /\ Earlier(LowOf(Scene, e)', StampOf(m))
                            \/ \E m \in Forward(Scene) : /\ m.from # p /\ OfComponent(m, e)
                                                         /\ Earlier(LowOf(Scene, e)', StampOf(m))
        BY <1>1, <2>1 DEF ValueReachesPeer
      <3>2. ~Forgot(Scene, e) /\ LowOf(Scene, e)' = LowOf(Scene, e)
        BY <1>4, <2>1, <3>1
      <3>3. Earlier(LowOf(Scene, e), LowOf(p, e)) => Earlier(LowOf(Scene, e), LowOf(p, e)')
        BY <1>3, <1>4, <2>1, StampOrder
      <3> QED
        BY <2>1, <3>1, <3>2, <3>3 DEF Stamped, ValueReachesPeer
    <2>5. ValueReachesScene(p)'
      <3>1. SUFFICES ASSUME NEW e \in Entity, ~Removed(Scene, e), ~Removed(p, e), ~Forgot(p, e)'
                     PROVE  \/ Earlier(LowOf(p, e)', LowOf(Scene, e)')
                            \/ \E m \in Inbox(Scene) : /\ m.from = p /\ OfComponent(m, e)
                                                       /\ Earlier(LowOf(p, e)', StampOf(m))
        BY <1>1, <2>1 DEF ValueReachesScene
      <3>2. ~Forgot(p, e) /\ LowOf(p, e)' = LowOf(p, e)
        BY <1>4, <2>1, <3>1
      <3>3. Earlier(LowOf(p, e), LowOf(Scene, e)) => Earlier(LowOf(p, e), LowOf(Scene, e)')
        BY <1>3, <1>4, <2>1, StampOrder
      <3> QED
        BY <2>1, <3>1, <3>2, <3>3 DEF Stamped, ValueReachesScene
    <2> QED
      BY <2>2, <2>3, <2>4, <2>5 DEF Stamped
  <1> QED
    BY <1>5 DEF ValueInv

(* Every call of scene code.                                               *)
LEMMA CallsValueInv ==
  ASSUME ValueInv, RemovalInv', NEW g \in Engines, NEW e \in Entity, NEW v \in Values,
         addEntity \/ write(g, e, v) \/ deleteFrom(g, e) \/ removeEntity(g, e)
  PROVE  ValueInv'
  <1>1. TypeOK /\ Local(g) /\ component[g] \in Components
    BY DEF ValueInv, RemovalInv, EntityInv, TypeOK
  <1>2. CASE addEntity
    <2>1. /\ Scene \in Engines /\ UNCHANGED <<component, receivedMessages, broadcastMessages>>
          /\ container'[Scene] \in generateEntity(container[Scene])
          /\ \A h \in Engines \ {Scene} : container'[h] = container[h]
      BY <1>1, <1>2, EnginesAre DEF addEntity, TypeOK
    <2>2. container'[Scene].removedEntities = container[Scene].removedEntities
      BY <2>1, GeneratedMeaning DEF ValueInv, RemovalInv
    <2>3. \A f \in Entity : LowOf(Scene, f)' = LowOf(Scene, f) /\ (Forgot(Scene, f)' <=> Forgot(Scene, f))
                            /\ LowOf(Scene, f) \in Stamps
      BY <1>1, <2>1, StampTypes DEF LowOf, Forgot
    <2>4. \A f \in Entity : /\ Earlier(LowOf(Scene, f), LowOf(Scene, f)')
                            /\ Forgot(Scene, f) => Forgot(Scene, f)'
                            /\ Forgot(Scene, f)' \/ LowOf(Scene, f)' = LowOf(Scene, f)
      BY <2>3, StampOrder
    <2> QED
      BY <2>1, <2>2, <2>4, CallValueInv
  <1>3. CASE write(g, e, v) \/ deleteFrom(g, e) \/ removeEntity(g, e)
    <2>1. /\ UNCHANGED <<receivedMessages, broadcastMessages>>
          /\ component'[g] \in {createOrReplace(component[g], e, v), mutate(component[g], e, v),
                                entityDeleted(component[g], {e})}
          /\ \A h \in Engines \ {g} : component'[h] = component[h] /\ container'[h] = container[h]
          /\ \/ container'[g] = container[g]
             \/ /\ e \in container[g].usedEntities
                /\ container'[g] = removeFromContainer(container[g], e)
      BY <1>1, <1>3 DEF write, deleteFrom, removeEntity, TypeOK
    <2>2. container'[g].removedEntities = container[g].removedEntities
      <3>1. container[g] \in Containers
        BY <1>1 DEF TypeOK
      <3> QED
        BY <2>1, <3>1 DEF removeFromContainer, Containers
    <2>3. \A f \in Entity \ component[g].dirty : component[g].lastSentData[f] = component[g].data[f]
      BY <1>1 DEF Local
    <2>4. \A f \in Entity : /\ Earlier(Low(component[g], f), Low(component'[g], f))
                            /\ Forgotten(component[g], f) => Forgotten(component'[g], f)
                            /\ Forgotten(component'[g], f) \/ Low(component'[g], f) = Low(component[g], f)
      BY <1>1, <2>1, <2>3, CallStamps
    <2>5. \A f \in Entity : /\ Earlier(LowOf(g, f), LowOf(g, f)')
                            /\ Forgot(g, f) => Forgot(g, f)'
                            /\ Forgot(g, f)' \/ LowOf(g, f)' = LowOf(g, f)
      BY <2>4 DEF LowOf, Forgot
    <2> QED
      BY <2>1, <2>2, <2>5, CallValueInv
  <1> QED
    BY <1>2, <1>3

(* What receiving does to the stamps of the entities that are not removed. *)
LEMMA ReceivedStamps ==
  ASSUME ValueInv, NEW g \in Engines, receiveMessages(g)
  PROVE  /\ Forward(g)' \subseteq Inbox(g)
         /\ \A e \in Entity : Earlier(LowOf(g, e), LowOf(g, e)') /\ ~Forgot(g, e)
         /\ \A e \in Entity : ~Removed(g, e)' =>
              /\ ~Removed(g, e) /\ ~Forgot(g, e)'
              /\ \/ LowOf(g, e)' = LowOf(g, e)
                 \/ \E m \in Forward(g)' : OfComponent(m, e) /\ StampOf(m) = LowOf(g, e)'
         /\ \A m \in Inbox(g), e \in Entity :
              OfComponent(m, e) /\ (m \in Forward(g)' \/ ~Removed(g, e)')
                => Earlier(StampOf(m), LowOf(g, e)')
  <1> DEFINE d == component[g]
             new == component'[g]
  <1>1. TypeOK /\ Local(g)
    BY DEF ValueInv, RemovalInv, EntityInv
  <1>2. /\ d.dirty = {} /\ Forward(g)' \subseteq Inbox(g)
        /\ \A e \in Entity :
             /\ d.lastSentData[e] = d.data[e]
             /\ e \notin Announced(g) => e \notin new.dirty /\ new.lastSentData[e] = new.data[e]
             /\ AtMost(d.timestamps[e], d.data[e], LowTime(new, e), LowData(new, e))
             /\ \/ e \in Announced(g)
                \/ new.timestamps[e] = d.timestamps[e] /\ new.data[e] = d.data[e]
                \/ \E m \in Forward(g)' : /\ OfComponent(m, e)
                                          /\ m.message.timestamp = new.timestamps[e]
                                          /\ m.message.data = new.data[e]
        /\ \A m \in Inbox(g), e \in Entity :
              OfComponent(m, e) /\ (m \in Forward(g)' \/ ~Removed(g, e)')
                => AtMost(m.message.timestamp, m.message.data, LowTime(new, e), LowData(new, e))
    BY <1>1, ReceivedComponent DEF Removed
  <1>3. \A e \in Entity : ~Removed(g, e)' => ~Removed(g, e) /\ e \notin Announced(g)
    BY <1>1, ReceivedContainer DEF Removed
  <1>4. \A e \in Entity : ~Forgotten(d, e) /\ Low(d, e) = <<d.timestamps[e], d.data[e]>>
    BY <1>2 DEF Forgotten, Low, LowTime, LowData
  <1>5. \A e \in Entity : e \notin Announced(g) =>
          ~Forgotten(new, e) /\ Low(new, e) = <<new.timestamps[e], new.data[e]>>
    BY <1>2 DEF Forgotten, Low, LowTime, LowData
  <1>6. \A e \in Entity : Earlier(Low(d, e), Low(new, e))
    BY <1>2, <1>4 DEF Earlier, Low
  <1>7. \A m \in Inbox(g), e \in Entity :
              OfComponent(m, e) /\ (m \in Forward(g)' \/ ~Removed(g, e)')
                => Earlier(StampOf(m), Low(new, e))
    BY <1>2 DEF Earlier, Low, StampOf
  <1>8. ASSUME NEW e \in Entity, ~Removed(g, e)'
        PROVE  \/ Low(new, e) = Low(d, e)
               \/ \E m \in Forward(g)' : OfComponent(m, e) /\ StampOf(m) = Low(new, e)
    <2>1. e \notin Announced(g)
      BY <1>3, <1>8
    <2> QED
      BY <1>2, <1>4, <1>5, <2>1 DEF StampOf
  <1> QED
    BY <1>2, <1>3, <1>4, <1>5, <1>6, <1>7, <1>8 DEF LowOf, Forgot

(* Scene forwards what it takes, except to the peer that sent it, which is *)
(* as far already.                                                         *)
LEMMA SceneReceivesValueInv ==
  ASSUME ValueInv, receiveMessages(Scene), RemovalInv'
  PROVE  ValueInv'
  <1>1. /\ TypeOK /\ TypeOK' /\ Local(Scene) /\ Scene \in Engines
        /\ \A p \in Peers : Stamped(p) /\ p \in Engines /\ p # Scene
    BY EnginesAre DEF ValueInv, RemovalInv, EntityInv
  <1>2. /\ Inbox(Scene)' = {} /\ phase[Scene] = "idle"
        /\ \A p \in Peers : component'[p] = component[p] /\ container'[p] = container[p] /\ Inbox(p)' = Inbox(p)
    BY <1>1, ReceivedEffect
  <1>3. Forward(Scene) = {}
    BY <1>1, <1>2, RangeOfEmpty DEF Local, Forward
  <1>4. \A p \in Peers, e \in Entity : LowOf(p, e)' = LowOf(p, e) /\ (Forgot(p, e)' <=> Forgot(p, e))
                                     /\ (Removed(p, e)' <=> Removed(p, e))
    BY <1>2 DEF LowOf, Forgot, Removed
  <1>5. /\ Forward(Scene)' \subseteq Inbox(Scene)
        /\ \A e \in Entity : Earlier(LowOf(Scene, e), LowOf(Scene, e)') /\ ~Forgot(Scene, e)
        /\ \A e \in Entity : ~Removed(Scene, e)' =>
              /\ ~Removed(Scene, e) /\ ~Forgot(Scene, e)'
              /\ \/ LowOf(Scene, e)' = LowOf(Scene, e)
                 \/ \E m \in Forward(Scene)' : OfComponent(m, e) /\ StampOf(m) = LowOf(Scene, e)'
        /\ \A m \in Inbox(Scene), e \in Entity :
              OfComponent(m, e) /\ (m \in Forward(Scene)' \/ ~Removed(Scene, e)')
                => Earlier(StampOf(m), LowOf(Scene, e)')
    BY <1>1, ReceivedStamps
  <1>6. /\ \A h \in Engines, e \in Entity : LowOf(h, e) \in Stamps /\ LowOf(h, e)' \in Stamps
        /\ \A h \in Engines : \A m \in Inbox(h) \cup Forward(h), e \in Entity : OfComponent(m, e) => StampOf(m) \in Stamps
    BY <1>1, StampTypes, LowIsStamp DEF LowOf, TypeOK
  <1>7. ASSUME NEW p \in Peers PROVE Stamped(p)'
    <2>1. PeerIsAheadOfItsMessages(p)'
      BY <1>1, <1>2, <1>4, <1>5 DEF Stamped, PeerIsAheadOfItsMessages
    <2>2. SceneIsAheadOfItsMessages(p)'
      <3>1. \A e \in Entity, m \in Inbox(p) : OfComponent(m, e) => Earlier(StampOf(m), LowOf(Scene, e)')
        BY <1>1, <1>5, <1>6, StampOrder DEF Stamped, SceneIsAheadOfItsMessages
      <3> QED
        BY <1>2, <1>5, <3>1 DEF SceneIsAheadOfItsMessages
    <2>3. ValueReachesPeer(p)'
      <3>1. SUFFICES ASSUME NEW e \in Entity, ~Removed(Scene, e)', ~Removed(p, e)
                     PROVE  \/ Earlier(LowOf(Scene, e)', LowOf(p, e))
                            \/ \E m \in Inbox(p) : OfComponent(m, e) /\ Earlier(LowOf(Scene, e)', StampOf(m))
                            \/ \E m \in Forward(Scene)' : /\ m.from # p /\ OfComponent(m, e)
                                                          /\ Earlier(LowOf(Scene, e)', StampOf(m))
        BY <1>2, <1>4 DEF ValueReachesPeer
      <3>2. CASE LowOf(Scene, e)' = LowOf(Scene, e)
        BY <1>1, <1>3, <1>5, <3>1, <3>2 DEF Stamped, ValueReachesPeer
      <3>3. ASSUME NEW m \in Forward(Scene)', OfComponent(m, e), StampOf(m) = LowOf(Scene, e)', m.from # p
            PROVE  Earlier(LowOf(Scene, e)', StampOf(m))
        BY <1>1, <1>6, <3>3, StampOrder
      <3>4. ASSUME NEW m \in Forward(Scene)', OfComponent(m, e), StampOf(m) = LowOf(Scene, e)', m.from = p
            PROVE  Earlier(LowOf(Scene, e)', LowOf(p, e))
        BY <1>1, <1>5, <3>4 DEF Stamped, PeerIsAheadOfItsMessages
      <3> QED
        BY <1>5, <3>1, <3>2, <3>3, <3>4
    <2>4. ValueReachesScene(p)'
      <3>1. SUFFICES ASSUME NEW e \in Entity, ~Removed(Scene, e)', ~Removed(p, e), ~Forgot(p, e)
                     PROVE  Earlier(LowOf(p, e), LowOf(Scene, e)')
        BY <1>4 DEF ValueReachesScene
      <3>2. CASE Earlier(LowOf(p, e), LowOf(Scene, e))
        BY <1>1, <1>5, <1>6, <3>2, StampOrder
      <3>3. ASSUME NEW m \in Inbox(Scene), OfComponent(m, e), Earlier(LowOf(p, e), StampOf(m))
            PROVE  Earlier(LowOf(p, e), LowOf(Scene, e)')
        <4>1. Earlier(StampOf(m), LowOf(Scene, e)')
          BY <1>5, <3>1, <3>3
        <4> QED
          BY <1>1, <1>6, <3>3, <4>1, StampOrder
      <3> QED
        BY <1>1, <1>5, <3>1, <3>2, <3>3 DEF Stamped, ValueReachesScene
    <2> QED
      BY <2>1, <2>2, <2>3, <2>4 DEF Stamped
  <1> QED
    BY <1>7 DEF ValueInv

(* A peer takes what Scene holds already.                                  *)
LEMMA PeerReceivesValueInv ==
  ASSUME ValueInv, NEW p \in Peers, receiveMessages(p), RemovalInv'
  PROVE  ValueInv'
  <1>1. /\ TypeOK /\ TypeOK' /\ Scene \in Engines /\ p \in Engines
        /\ \A q \in Peers : Stamped(q) /\ q \in Engines /\ q # Scene
    BY EnginesAre DEF ValueInv, RemovalInv, EntityInv
  <1>2. /\ Inbox(p)' = {}
        /\ \A h \in Engines \ {p} : /\ component'[h] = component[h] /\ container'[h] = container[h]
                                    /\ Inbox(h)' = Inbox(h) /\ Forward(h)' = Forward(h)
    BY <1>1, ReceivedEffect
  <1>3. \A h \in Engines \ {p}, e \in Entity :
          /\ LowOf(h, e)' = LowOf(h, e) /\ (Forgot(h, e)' <=> Forgot(h, e))
          /\ (Removed(h, e)' <=> Removed(h, e))
    BY <1>2 DEF LowOf, Forgot, Removed
  <1>4. /\ Forward(p)' \subseteq Inbox(p)
        /\ \A e \in Entity : Earlier(LowOf(p, e), LowOf(p, e)') /\ ~Forgot(p, e)
        /\ \A e \in Entity : ~Removed(p, e)' =>
              /\ ~Removed(p, e)
              /\ \/ LowOf(p, e)' = LowOf(p, e)
                 \/ \E m \in Forward(p)' : OfComponent(m, e) /\ StampOf(m) = LowOf(p, e)'
        /\ \A m \in Inbox(p), e \in Entity :
              OfComponent(m, e) /\ (m \in Forward(p)' \/ ~Removed(p, e)')
                => Earlier(StampOf(m), LowOf(p, e)')
    BY <1>1, ReceivedStamps
  <1>5. /\ \A h \in Engines, e \in Entity : LowOf(h, e) \in Stamps /\ LowOf(h, e)' \in Stamps
        /\ \A h \in Engines : \A m \in Inbox(h) \cup Forward(h), e \in Entity : OfComponent(m, e) => StampOf(m) \in Stamps
    BY <1>1, StampTypes, LowIsStamp DEF LowOf, TypeOK
  <1>6. ASSUME NEW q \in Peers, q # p PROVE Stamped(q)'
    BY <1>1, <1>2, <1>3, <1>6
       DEF Stamped, PeerIsAheadOfItsMessages, SceneIsAheadOfItsMessages, ValueReachesPeer, ValueReachesScene
  <1>7. Stamped(p)'
    <2>1. PeerIsAheadOfItsMessages(p)'
      <3>1. \A e \in Entity, m \in Inbox(Scene) \cup Forward(Scene) :
              m.from = p /\ OfComponent(m, e) => Earlier(StampOf(m), LowOf(p, e)')
        BY <1>1, <1>4, <1>5, StampOrder DEF Stamped, PeerIsAheadOfItsMessages
      <3> QED
        BY <1>1, <1>2, <3>1 DEF PeerIsAheadOfItsMessages
    <2>2. SceneIsAheadOfItsMessages(p)'
      BY <1>1, <1>2, <1>3 DEF Stamped, SceneIsAheadOfItsMessages
    <2>3. ValueReachesPeer(p)'
      <3>1. SUFFICES ASSUME NEW e \in Entity, ~Removed(Scene, e), ~Removed(p, e)', ~Forgot(Scene, e)
                     PROVE  \/ Earlier(LowOf(Scene, e), LowOf(p, e)')
                            \/ \E m \in Forward(Scene) : /\ m.from # p /\ OfComponent(m, e)
                                                         /\ Earlier(LowOf(Scene, e), StampOf(m))
        BY <1>1, <1>2, <1>3 DEF ValueReachesPeer
      <3>2. CASE Earlier(LowOf(Scene, e), LowOf(p, e))
        BY <1>1, <1>4, <1>5, <3>2, StampOrder
      <3>3. ASSUME NEW m \in Inbox(p), OfComponent(m, e), Earlier(LowOf(Scene, e), StampOf(m))
            PROVE  Earlier(LowOf(Scene, e), LowOf(p, e)')
        <4>1. Earlier(StampOf(m), LowOf(p, e)')
          BY <1>4, <3>1, <3>3
        <4> QED
          BY <1>1, <1>5, <3>3, <4>1, StampOrder
      <3> QED
        BY <1>1, <1>4, <3>1, <3>2, <3>3 DEF Stamped, ValueReachesPeer
    <2>4. ValueReachesScene(p)'
      <3>1. SUFFICES ASSUME NEW e \in Entity, ~Removed(Scene, e), ~Removed(p, e)'
                     PROVE  \/ Earlier(LowOf(p, e)', LowOf(Scene, e))
                            \/ \E m \in Inbox(Scene) : /\ m.from = p /\ OfComponent(m, e)
                                                       /\ Earlier(LowOf(p, e)', StampOf(m))
        BY <1>1, <1>2, <1>3 DEF ValueReachesScene
      <3>2. CASE LowOf(p, e)' = LowOf(p, e)
        BY <1>1, <1>4, <3>1, <3>2 DEF Stamped, ValueReachesScene
      <3>3. ASSUME NEW m \in Forward(p)', OfComponent(m, e), StampOf(m) = LowOf(p, e)'
            PROVE  Earlier(LowOf(p, e)', LowOf(Scene, e))
        BY <1>1, <1>4, <3>3 DEF Stamped, SceneIsAheadOfItsMessages
      <3> QED
        BY <1>4, <3>1, <3>2, <3>3
    <2> QED
      BY <2>1, <2>2, <2>3, <2>4 DEF Stamped
  <1> QED
    BY <1>6, <1>7 DEF ValueInv
-----------------------------------------------------------------------------
(* What a flush does to the stamps: each either is sent, or stays.         *)
LEMMA FlushedStamps ==
  ASSUME NEW d \in Components, \A f \in Entity \ d.dirty : d.lastSentData[f] = d.data[f]
  PROVE  LET new == Flushed(d)
         IN  \A e \in Entity :
               /\ Earlier(Low(d, e), Low(new, e))
               /\ e \in ToSend(d) => StampOf(From(Scene, UpdateOf(d, e))) = Low(new, e)
               /\ e \in ToSend(d) \/ (Low(new, e) = Low(d, e) /\ ~Forgotten(d, e))
  <1> DEFINE new == Flushed(d)
  <1> SUFFICES ASSUME NEW e \in Entity
               PROVE  /\ Earlier(Low(d, e), Low(new, e))
                      /\ e \in ToSend(d) => StampOf(From(Scene, UpdateOf(d, e))) = Low(new, e)
                      /\ e \in ToSend(d) \/ (Low(new, e) = Low(d, e) /\ ~Forgotten(d, e))
    OBVIOUS
  <1>1. /\ new.dirty = {}
        /\ new.timestamps[e] = IF e \in ToSend(d) THEN d.timestamps[e] + 1 ELSE d.timestamps[e]
        /\ new.lastSentData[e] = IF e \in ToSend(d) THEN d.data[e] ELSE d.lastSentData[e]
    BY FlushMeaning
  <1> HIDE DEF new
  <1>2. d.timestamps[e] \in Nat /\ d.data[e] \in Nat /\ d.lastSentData[e] \in Nat
    BY ValuesAreNumbers DEF Components
  <1>3. CASE e \in ToSend(d)
    <2>1. StampOf(From(Scene, UpdateOf(d, e))) = <<d.timestamps[e] + 1, d.data[e]>>
      BY DEF StampOf, From, UpdateOf, ComponentMessage
    <2>2. Low(new, e) = <<d.timestamps[e] + 1, d.data[e]>>
      BY <1>1, <1>3 DEF Low, LowTime, LowData, Forgotten
    <2>3. AtMost(LowTime(d, e), LowData(d, e), d.timestamps[e] + 1, d.data[e])
      BY <1>2 DEF AtMost, LowTime, LowData, Forgotten, None
    <2>4. Earlier(Low(d, e), Low(new, e))
      BY <2>2, <2>3 DEF Earlier, Low
    <2> QED
      BY <1>3, <2>1, <2>2, <2>4
  <1>4. CASE e \notin ToSend(d)
    <2>1. ~Forgotten(d, e)
      BY <1>4 DEF Forgotten, ToSend
    <2>2. Low(new, e) = Low(d, e)
      BY <1>1, <1>4, <2>1 DEF Low, LowTime, LowData, Forgotten
    <2>3. Low(d, e) \in Stamps
      BY LowIsStamp
    <2> QED
      BY <1>4, <2>1, <2>2, <2>3, StampOrder
  <1> QED
    BY <1>3, <1>4

(* What a flush changes it delivers.                                       *)
LEMMA SentStamps ==
  ASSUME ValueInv, NEW g \in Engines, sendMessages(g)
  PROVE  \A e \in Entity :
           /\ Earlier(LowOf(g, e), LowOf(g, e)')
           /\ Removed(g, e) => Removed(g, e)'
           /\ \/ /\ LowOf(g, e)' = LowOf(g, e) /\ ~Forgot(g, e)
              \/ \A h \in Neighbours(g) : \E m \in Inbox(h)' :
                    m.from = g /\ OfComponent(m, e) /\ StampOf(m) = LowOf(g, e)'
  <1> DEFINE d == component[g]
  <1>1. /\ TypeOK /\ Local(g) /\ RemovalInv /\ d \in Components
        /\ \A f \in Entity \ d.dirty : d.lastSentData[f] = d.data[f]
    BY DEF ValueInv, RemovalInv, EntityInv, TypeOK, Local
  <1>2. /\ component'[g] = Flushed(d)
        /\ \A h \in Neighbours(g) : \A x : x \in Inbox(h)' <=> x \in Inbox(h) \/ Delivers(g, h, x)
    BY <1>1, SentEffect
  <1>3. \A e \in Entity :
          /\ Earlier(Low(d, e), Low(component'[g], e))
          /\ e \in ToSend(d) => StampOf(From(Scene, UpdateOf(d, e))) = Low(component'[g], e)
          /\ e \in ToSend(d) \/ (Low(component'[g], e) = Low(d, e) /\ ~Forgotten(d, e))
    BY <1>1, <1>2, FlushedStamps
  <1>4. ASSUME NEW e \in Entity, e \in ToSend(d), NEW h \in Neighbours(g)
        PROVE  \E m \in Inbox(h)' : m.from = g /\ OfComponent(m, e) /\ StampOf(m) = Low(component'[g], e)
    <2> DEFINE m == From(g, UpdateOf(d, e))
    <2>1. Delivers(g, h, m)
      BY <1>4 DEF Delivers
    <2>2. m.from = g /\ OfComponent(m, e) /\ StampOf(m) = StampOf(From(Scene, UpdateOf(d, e)))
      BY DEF From, OfComponent, UpdateOf, ComponentMessage, StampOf
    <2> HIDE DEF m
    <2> QED
      BY <1>2, <1>3, <1>4, <2>1, <2>2
  <1>5. \A e \in Entity : Removed(g, e) => Removed(g, e)'
    BY <1>1, SentRemovals
  <1> QED
    BY <1>3, <1>4, <1>5 DEF LowOf, Forgot

(* Where an update that a flush delivers comes from.                       *)
LEMMA DeliveredUpdates ==
  ASSUME ValueInv, NEW g \in Engines, sendMessages(g), NEW h, NEW x, Delivers(g, h, x),
         NEW e \in Entity, OfComponent(x, e)
  PROVE  /\ x.from = g
         /\ \/ \E m \in Forward(g) : OfComponent(m, e) /\ StampOf(m) = StampOf(x) /\ m.from # h
            \/ StampOf(x) = LowOf(g, e)'
  <1> DEFINE d == component[g]
  <1>1. /\ TypeOK /\ Local(g) /\ d \in Components
        /\ \A f \in Entity \ d.dirty : d.lastSentData[f] = d.data[f]
    BY DEF ValueInv, RemovalInv, EntityInv, TypeOK, Local
  <1>2. component'[g] = Flushed(d)
    BY <1>1, SentEffect
  <1>3. \A f \in Entity : f \in ToSend(d) => StampOf(From(Scene, UpdateOf(d, f))) = LowOf(g, f)'
    BY <1>1, <1>2, FlushedStamps DEF LowOf
  <1>4. ASSUME NEW m \in Forward(g), m.from # h, x = From(g, m.message)
        PROVE  x.from = g /\ OfComponent(m, e) /\ StampOf(m) = StampOf(x)
    BY <1>4 DEF From, OfComponent, StampOf
  <1>5. ASSUME NEW f \in ToSend(d), x = From(g, UpdateOf(d, f))
        PROVE  x.from = g /\ StampOf(x) = LowOf(g, e)'
    <2>1. f = e /\ x.from = g /\ StampOf(x) = StampOf(From(Scene, UpdateOf(d, f)))
      BY <1>5 DEF From, OfComponent, UpdateOf, ComponentMessage, StampOf
    <2> QED
      BY <1>3, <1>5, <2>1
  <1>6. \A f : x # From(g, DeleteEntity(f))
    BY DEF From, OfComponent, DeleteEntity
  <1> QED
    BY <1>4, <1>5, <1>6 DEF Delivers

(* Scene delivers what it holds and what it forwards.                      *)
LEMMA SceneSendsValueInv ==
  ASSUME ValueInv, sendMessages(Scene), RemovalInv'
  PROVE  ValueInv'
  <1>1. /\ TypeOK /\ TypeOK' /\ Local(Scene) /\ Scene \in Engines
        /\ \A p \in Peers : Stamped(p) /\ p \in Engines /\ p # Scene /\ p \in Neighbours(Scene)
    BY EnginesAre DEF ValueInv, RemovalInv, EntityInv, Neighbours
  <1>2. /\ Forward(Scene)' = {} /\ Inbox(Scene)' = Inbox(Scene)
        /\ \A p \in Peers : \A x : x \in Inbox(p)' <=> x \in Inbox(p) \/ Delivers(Scene, p, x)
        /\ \A p \in Peers : component'[p] = component[p] /\ container'[p] = container[p]
    BY <1>1, SentEffect DEF Neighbours
  <1>3. \A p \in Peers, e \in Entity :
          /\ LowOf(p, e)' = LowOf(p, e) /\ (Forgot(p, e)' <=> Forgot(p, e))
          /\ (Removed(p, e)' <=> Removed(p, e))
    BY <1>2 DEF LowOf, Forgot, Removed
  <1>4. \A e \in Entity :
           /\ Earlier(LowOf(Scene, e), LowOf(Scene, e)')
           /\ Removed(Scene, e) => Removed(Scene, e)'
           /\ \/ /\ LowOf(Scene, e)' = LowOf(Scene, e) /\ ~Forgot(Scene, e)
              \/ \A h \in Neighbours(Scene) : \E m \in Inbox(h)' :
                    m.from = Scene /\ OfComponent(m, e) /\ StampOf(m) = LowOf(Scene, e)'
    BY <1>1, SentStamps
  <1>5. /\ \A h \in Engines, e \in Entity : LowOf(h, e) \in Stamps /\ LowOf(h, e)' \in Stamps
        /\ \A h \in Engines : \A m \in Inbox(h) \cup Forward(h), e \in Entity : OfComponent(m, e) => StampOf(m) \in Stamps
    BY <1>1, StampTypes, LowIsStamp DEF LowOf, TypeOK
  <1>6. ASSUME NEW p \in Peers PROVE Stamped(p)'
    <2>1. PeerIsAheadOfItsMessages(p)'
      BY <1>1, <1>2, <1>3 DEF Stamped, PeerIsAheadOfItsMessages
    <2>2. SceneIsAheadOfItsMessages(p)'
      <3>1. SUFFICES ASSUME NEW e \in Entity, NEW x \in Inbox(p)', OfComponent(x, e)
                     PROVE  Earlier(StampOf(x), LowOf(Scene, e)')
        BY <1>2 DEF SceneIsAheadOfItsMessages
      <3>2. ASSUME NEW m \in Inbox(p) \cup Forward(Scene), OfComponent(m, e)
            PROVE  Earlier(StampOf(m), LowOf(Scene, e)')
        <4>1. Earlier(StampOf(m), LowOf(Scene, e)) /\ StampOf(m) \in Stamps
          BY <1>1, <1>5, <3>2 DEF Stamped, SceneIsAheadOfItsMessages
        <4> QED
          BY <1>1, <1>4, <1>5, <4>1, StampOrder
      <3>3. CASE Delivers(Scene, p, x)
        <4>1. \/ \E m \in Forward(Scene) : OfComponent(m, e) /\ StampOf(m) = StampOf(x)
              \/ StampOf(x) = LowOf(Scene, e)'
          BY <1>1, <3>1, <3>3, DeliveredUpdates
        <4> QED
          BY <1>1, <1>5, <3>2, <4>1, StampOrder
      <3> QED
        BY <1>2, <3>1, <3>2, <3>3
    <2>3. ValueReachesPeer(p)'
      <3>1. SUFFICES ASSUME NEW e \in Entity, ~Removed(Scene, e), ~Removed(p, e)
                     PROVE  \/ Earlier(LowOf(Scene, e)', LowOf(p, e))
                            \/ \E m \in Inbox(p)' : OfComponent(m, e) /\ Earlier(LowOf(Scene, e)', StampOf(m))
        BY <1>3, <1>4 DEF ValueReachesPeer
      <3>2. CASE LowOf(Scene, e)' = LowOf(Scene, e) /\ ~Forgot(Scene, e)
        <4>1. ASSUME NEW m \in Forward(Scene), m.from # p, OfComponent(m, e), Earlier(LowOf(Scene, e), StampOf(m))
              PROVE  \E k \in Inbox(p)' : OfComponent(k, e) /\ Earlier(LowOf(Scene, e), StampOf(k))
          <5> DEFINE k == From(Scene, m.message)
          <5>1. OfComponent(k, e) /\ StampOf(k) = StampOf(m)
            BY <4>1 DEF From, OfComponent, StampOf
          <5>2. Delivers(Scene, p, k)
            BY <4>1 DEF Delivers
          <5> HIDE DEF k
          <5> QED
            BY <1>2, <4>1, <5>1, <5>2
        <4>2. \/ Earlier(LowOf(Scene, e), LowOf(p, e))
              \/ \E m \in Inbox(p) : OfComponent(m, e) /\ Earlier(LowOf(Scene, e), StampOf(m))
              \/ \E m \in Forward(Scene) : m.from # p /\ OfComponent(m, e) /\ Earlier(LowOf(Scene, e), StampOf(m))
          BY <1>1, <3>1, <3>2 DEF Stamped, ValueReachesPeer
        <4> QED
          BY <1>2, <3>2, <4>1, <4>2
      <3>3. CASE \E m \in Inbox(p)' : OfComponent(m, e) /\ StampOf(m) = LowOf(Scene, e)'
        BY <1>1, <1>5, <3>3, StampOrder
      <3> QED
        BY <1>1, <1>4, <3>2, <3>3
    <2>4. ValueReachesScene(p)'
      <3>1. SUFFICES ASSUME NEW e \in Entity, ~Removed(Scene, e), ~Removed(p, e), ~Forgot(p, e)
                     PROVE  \/ Earlier(LowOf(p, e), LowOf(Scene, e)')
                            \/ \E m \in Inbox(Scene) : /\ m.from = p /\ OfComponent(m, e)
                                                       /\ Earlier(LowOf(p, e), StampOf(m))
        BY <1>2, <1>3, <1>4 DEF ValueReachesScene
      <3>2. Earlier(LowOf(p, e), LowOf(Scene, e)) => Earlier(LowOf(p, e), LowOf(Scene, e)')
        BY <1>1, <1>4, <1>5, StampOrder
      <3> QED
        BY <1>1, <3>1, <3>2 DEF Stamped, ValueReachesScene
    <2> QED
      BY <2>1, <2>2, <2>3, <2>4 DEF Stamped
  <1> QED
    BY <1>6 DEF ValueInv

(* A peer delivers what it holds.                                          *)
LEMMA PeerSendsValueInv ==
  ASSUME ValueInv, NEW p \in Peers, sendMessages(p), RemovalInv'
  PROVE  ValueInv'
  <1>1. /\ TypeOK /\ TypeOK' /\ Local(p) /\ Scene \in Engines /\ p \in Engines
        /\ \A q \in Peers : Stamped(q) /\ q \in Engines /\ q # Scene
        /\ Neighbours(p) = {Scene} /\ \A m \in Forward(p) : m.from = Scene
    BY EnginesAre DEF ValueInv, RemovalInv, EntityInv, Neighbours, Senders
  <1>2. /\ \A q \in Peers : Inbox(q)' = Inbox(q)
        /\ \A x : x \in Inbox(Scene)' <=> x \in Inbox(Scene) \/ Delivers(p, Scene, x)
        /\ Forward(Scene)' = Forward(Scene)
        /\ \A h \in Engines \ {p} : component'[h] = component[h] /\ container'[h] = container[h]
    BY <1>1, SentEffect
  <1>3. \A h \in Engines \ {p}, e \in Entity :
          /\ LowOf(h, e)' = LowOf(h, e) /\ (Forgot(h, e)' <=> Forgot(h, e))
          /\ (Removed(h, e)' <=> Removed(h, e))
    BY <1>2 DEF LowOf, Forgot, Removed
  <1>4. \A e \in Entity :
           /\ Earlier(LowOf(p, e), LowOf(p, e)')
           /\ Removed(p, e) => Removed(p, e)'
           /\ \/ /\ LowOf(p, e)' = LowOf(p, e) /\ ~Forgot(p, e)
              \/ \E m \in Inbox(Scene)' : m.from = p /\ OfComponent(m, e) /\ StampOf(m) = LowOf(p, e)'
    BY <1>1, SentStamps
  <1>5. /\ \A h \in Engines, e \in Entity : LowOf(h, e) \in Stamps /\ LowOf(h, e)' \in Stamps
        /\ \A h \in Engines : \A m \in Inbox(h) \cup Forward(h), e \in Entity : OfComponent(m, e) => StampOf(m) \in Stamps
    BY <1>1, StampTypes, LowIsStamp DEF LowOf, TypeOK
  <1>6. \A x : \A e \in Entity : Delivers(p, Scene, x) /\ OfComponent(x, e) => x.from = p /\ StampOf(x) = LowOf(p, e)'
    <2>1. ASSUME NEW x, NEW e \in Entity, Delivers(p, Scene, x), OfComponent(x, e)
          PROVE  x.from = p /\ StampOf(x) = LowOf(p, e)'
      BY <1>1, <2>1, DeliveredUpdates
    <2> QED
      BY <2>1
  <1>7. ASSUME NEW q \in Peers, q # p PROVE Stamped(q)'
    <2>1. q \in Engines \ {p} /\ Scene \in Engines \ {p}
      BY <1>1, <1>7
    <2>2. PeerIsAheadOfItsMessages(q)'
      BY <1>1, <1>2, <1>3, <1>6, <1>7, <2>1 DEF Stamped, PeerIsAheadOfItsMessages
    <2>3. SceneIsAheadOfItsMessages(q)'
      BY <1>1, <1>2, <1>3, <2>1 DEF Stamped, SceneIsAheadOfItsMessages
    <2>4. ValueReachesPeer(q)'
      BY <1>1, <1>2, <1>3, <2>1 DEF Stamped, ValueReachesPeer
    <2>5. ValueReachesScene(q)'
      BY <1>1, <1>2, <1>3, <2>1 DEF Stamped, ValueReachesScene
    <2> QED
      BY <2>2, <2>3, <2>4, <2>5 DEF Stamped
  <1>8. Stamped(p)'
    <2>0. Scene \in Engines \ {p}
      BY <1>1
    <2>1. PeerIsAheadOfItsMessages(p)'
      <3>1. \A e \in Entity, m \in Inbox(Scene) \cup Forward(Scene) :
              m.from = p /\ OfComponent(m, e) => Earlier(StampOf(m), LowOf(p, e)')
        BY <1>1, <1>4, <1>5, StampOrder DEF Stamped, PeerIsAheadOfItsMessages
      <3>2. \A e \in Entity : Earlier(LowOf(p, e)', LowOf(p, e)')
        BY <1>1, <1>5, StampOrder
      <3> QED
        BY <1>2, <1>6, <3>1, <3>2 DEF PeerIsAheadOfItsMessages
    <2>2. SceneIsAheadOfItsMessages(p)'
      BY <1>1, <1>2, <1>3, <2>0 DEF Stamped, SceneIsAheadOfItsMessages
    <2>3. ValueReachesPeer(p)'
      <3>1. SUFFICES ASSUME NEW e \in Entity, ~Removed(Scene, e), ~Removed(p, e), ~Forgot(Scene, e)
                     PROVE  \/ Earlier(LowOf(Scene, e), LowOf(p, e)')
                            \/ \E m \in Inbox(p) : OfComponent(m, e) /\ Earlier(LowOf(Scene, e), StampOf(m))
                            \/ \E m \in Forward(Scene) : /\ m.from # p /\ OfComponent(m, e)
                                                         /\ Earlier(LowOf(Scene, e), StampOf(m))
        BY <1>2, <1>3, <1>4, <2>0 DEF ValueReachesPeer
      <3>2. Earlier(LowOf(Scene, e), LowOf(p, e)) => Earlier(LowOf(Scene, e), LowOf(p, e)')
        BY <1>1, <1>4, <1>5, StampOrder
      <3> QED
        BY <1>1, <3>1, <3>2 DEF Stamped, ValueReachesPeer
    <2>4. ValueReachesScene(p)'
      <3>1. SUFFICES ASSUME NEW e \in Entity, ~Removed(Scene, e), ~Removed(p, e)
                     PROVE  \/ Earlier(LowOf(p, e)', LowOf(Scene, e))
                            \/ \E m \in Inbox(Scene)' : /\ m.from = p /\ OfComponent(m, e)
                                                        /\ Earlier(LowOf(p, e)', StampOf(m))
        BY <1>3, <1>4, <2>0 DEF ValueReachesScene
      <3>2. CASE LowOf(p, e)' = LowOf(p, e) /\ ~Forgot(p, e)
        BY <1>1, <1>2, <3>1, <3>2 DEF Stamped, ValueReachesScene
      <3>3. CASE \E m \in Inbox(Scene)' : m.from = p /\ OfComponent(m, e) /\ StampOf(m) = LowOf(p, e)'
        BY <1>1, <1>5, <3>3, StampOrder
      <3> QED
        BY <1>4, <3>2, <3>3
    <2> QED
      BY <2>1, <2>2, <2>3, <2>4 DEF Stamped
  <1> QED
    BY <1>7, <1>8 DEF ValueInv

(* One step per action.                                                    *)
LEMMA NextValueInv == ValueInv /\ Disciplined /\ [Next]_vars => ValueInv'
  <1> SUFFICES ASSUME ValueInv, Disciplined, [Next]_vars PROVE ValueInv'
    OBVIOUS
  <1>1. RemovalInv'
    BY NextRemovalInv DEF ValueInv
  <1>2. CASE UNCHANGED vars
    BY <1>1, <1>2
       DEF vars, ValueInv, Stamped, PeerIsAheadOfItsMessages, SceneIsAheadOfItsMessages, ValueReachesPeer,
           ValueReachesScene, Inbox, Forward, Removed, LowOf, Forgot
  <1>3. CASE addEntity \/ \E g \in Engines : \/ \E e \in Entity, v \in Values : write(g, e, v)
                                             \/ \E e \in Entity : deleteFrom(g, e) \/ removeEntity(g, e)
    <2>1. PICK v \in Values : TRUE
      BY SceneAssumption
    <2>2. Scene \in Engines
      BY EnginesAre
    <2>3. CASE \E e \in Entity : TRUE
      BY <1>1, <1>3, <2>1, <2>2, <2>3, CallsValueInv
    <2>4. CASE Entity = {}
      <3>1. addEntity
        BY <1>3, <2>4
      <3>2. container'[Scene] \in generateEntity(container[Scene])
        BY <3>1, <2>2 DEF addEntity, ValueInv, RemovalInv, EntityInv, TypeOK
      <3> QED
        BY <2>4, <3>2, GeneratedMeaning DEF ValueInv, RemovalInv
    <2> QED
      BY <2>3, <2>4
  <1>4. ASSUME NEW g \in Engines, receiveMessages(g) PROVE ValueInv'
    BY <1>1, <1>4, EnginesAre, SceneReceivesValueInv, PeerReceivesValueInv
  <1>5. ASSUME NEW g \in Engines, sendMessages(g) PROVE ValueInv'
    BY <1>1, <1>5, EnginesAre, SceneSendsValueInv, PeerSendsValueInv
  <1> QED
    BY <1>2, <1>3, <1>4, <1>5 DEF Next

(* With nothing in flight, what one engine holds the other holds.          *)
LEMMA ValueInvSuffices == ValueInv => QuiescentAgreement
  <1> SUFFICES ASSUME ValueInv, Quiescent PROVE QuiescentAgreement
    BY DEF QuiescentAgreement
  <1>1. /\ TypeOK /\ \A g \in Engines : Local(g) /\ DataIsOfUsed(g)
        /\ \A p \in Peers : Removals(p) /\ Stamped(p) /\ p \in Engines
        /\ Scene \in Engines
    BY EnginesAre DEF ValueInv, RemovalInv, EntityInv
  <1>2. \A g \in Engines : Inbox(g) = {} /\ Forward(g) = {} /\ component[g].dirty = {}
    BY RangeOfEmpty DEF Quiescent, Inbox, Forward
  <1>3. \A p \in Peers, e \in Entity : Removed(p, e) <=> Removed(Scene, e)
    BY <1>1, <1>2 DEF Removals, RemovalReachesPeer, RemovalReachesScene
  <1>4. \A g \in Engines, e \in Entity :
          ~Forgot(g, e) /\ component[g].data[e] = component[g].lastSentData[e]
    BY <1>1, <1>2 DEF Forgot, Forgotten, Local
  <1>5. ASSUME NEW p \in Peers, NEW e \in Entity
        PROVE  component[p].data[e] = component[Scene].data[e]
    <2>1. CASE Removed(Scene, e)
      BY <1>1, <1>3, <2>1 DEF DataIsOfUsed
    <2>2. CASE ~Removed(Scene, e)
      <3>1. Earlier(LowOf(Scene, e), LowOf(p, e)) /\ Earlier(LowOf(p, e), LowOf(Scene, e))
        BY <1>1, <1>2, <1>3, <1>4, <2>2 DEF Stamped, ValueReachesPeer, ValueReachesScene
      <3>2. LowOf(Scene, e) = LowOf(p, e)
        BY <1>1, <3>1, StampTypes, StampOrder
      <3>3. component[Scene].lastSentData[e] = component[p].lastSentData[e]
        BY <3>2 DEF LowOf, Low, LowData
      <3> QED
        BY <1>1, <1>4, <3>3
    <2> QED
      BY <2>1, <2>2
  <1>6. \A g \in Engines, e \in Entity : /\ Removed(g, e) <=> Removed(Scene, e)
                                         /\ component[g].data[e] = component[Scene].data[e]
    BY <1>3, <1>5, EnginesAre
  <1> QED
    BY <1>6 DEF QuiescentAgreement, Removed

(* When nothing is in flight all engines have removed the same entities    *)
(* and hold the same component values, for any number of engines, entities *)
(* and calls (engine/index.ts, systems/crdt/index.ts).                     *)
THEOREM EnginesAgree == ASSUME Disciplined PROVE Spec => []QuiescentAgreement
  <1>1. Init => ValueInv
    BY InitValueInv
  <1>2. ValueInv /\ [Next]_vars => ValueInv'
    BY NextValueInv
  <1> QED
    BY <1>1, <1>2, ValueInvSuffices, PTL DEF Spec
=============================================================================
