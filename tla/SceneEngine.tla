----------------------------- MODULE SceneEngine -----------------------------
(***************************************************************************)
(* Several engines joined by transports: engine/index.ts (the tick and the *)
(* entity operations) with systems/crdt/index.ts (receiveMessages and      *)
(* sendMessages), the entity container and one last-write-wins component.  *)
(*                                                                         *)
(* The engines form a star: Scene has a transport to each of the others,   *)
(* each other has a transport to Scene only, so Scene forwards between     *)
(* them.  A transport delivers every message once and in order, as the     *)
(* renderer transport does.                                                *)
(*                                                                         *)
(* Entities are pairs <<number, version>> above the reserved range; see    *)
(* EntityContainer for the allocator by itself and LwwElementSet for the   *)
(* component under an unreliable medium.                                   *)
(***************************************************************************)
EXTENDS Integers, FiniteSets, Sequences, SequencesExt

CONSTANTS
  Scene, Peers,        \* the engine in the middle and the others
  Numbers, MaxVersion, \* entity numbers in play, and their versions
  FirstNumber,         \* reservedStaticEntities: numbers below are the renderer's
  MaxCompositeEntity,  \* DCL_MAX_COMPOSITE_ENTITY, 0 when not injected
  Values,              \* serialized values, in dataCompare order
  PreloadedNumbers,    \* numbers of the entities all engines loaded from main.crdt
  WritesBetweenTicks,  \* async callbacks call the engine outside update
  MaxCalls             \* bound on the scene code's calls, for model checking

Engines  == {Scene} \cup Peers
Versions == 0 .. MaxVersion
Entity   == Numbers \X Versions
None     == 0
Absent   == -1

ASSUME SceneAssumption ==
  /\ Scene \notin Peers
  /\ Numbers \subseteq Nat /\ IsFiniteSet(Numbers) /\ MaxVersion \in Nat
  /\ FirstNumber \in Nat /\ MaxCompositeEntity \in Nat /\ MaxCalls \in Nat
  /\ Values \subseteq Nat \ {0} /\ Values # {}
  /\ PreloadedNumbers \subseteq Numbers
  /\ WritesBetweenTicks \in BOOLEAN

VARIABLES
  container,  \* per engine: entityCounter, usedEntities, toRemoveEntities, removedEntities
  component,  \* per engine: data, timestamps, dirty, lastSentData, by entity
  phase,      \* "idle" between ticks or "systems", per engine
  receivedMessages,   \* per engine: what its transports delivered, with the sender
  broadcastMessages,  \* per engine: processed, to be forwarded at the end of the tick
  calls       \* calls made so far by scene code

vars == <<container, component, phase, receivedMessages, broadcastMessages, calls>>

(* Where the counter starts: past the composites if the build says so.     *)
FirstCounter ==
  LET first == IF MaxCompositeEntity > 0 THEN MaxCompositeEntity + 1 ELSE 0
  IN  IF first > FirstNumber THEN first ELSE FirstNumber

(* Every engine starts from the same preloaded entities (main.crdt): they  *)
(* are in use, with the same value written under timestamp 1.              *)
FirstValue == CHOOSE v \in Values : TRUE

PreloadedEntities == PreloadedNumbers \X {0}

Init ==
  /\ container = [g \in Engines |->
       [entityCounter    |-> FirstCounter,
        usedEntities     |-> PreloadedEntities,
        toRemoveEntities |-> {},
        removedEntities  |-> [n \in Numbers |-> Absent]]]
  /\ component = [g \in Engines |->
       [data         |-> [e \in Entity |-> IF e \in PreloadedEntities THEN FirstValue ELSE None],
        timestamps   |-> [e \in Entity |-> IF e \in PreloadedEntities THEN 1 ELSE 0],
        dirty        |-> {},
        lastSentData |-> [e \in Entity |-> IF e \in PreloadedEntities THEN FirstValue ELSE None]]]
  /\ phase = [g \in Engines |-> "idle"]
  /\ receivedMessages = [g \in Engines |-> <<>>]
  /\ broadcastMessages = [g \in Engines |-> <<>>]
  /\ calls = 0
-----------------------------------------------------------------------------
(* The container's operations, as functions of its state.                  *)
IsRemoved(c, e) == c.removedEntities[e[1]] >= e[2]

getEntityState(c, e) ==
  IF e \in c.usedEntities THEN "UsedEntity"
  ELSE IF IsRemoved(c, e) THEN "Removed"
  ELSE "Unknown"

(* The tombstones once the entities of es are added; those of one number   *)
(* are kept as the last version.                                           *)
Tombstones(removed, es) ==
  [n \in Numbers |-> Max({removed[n]} \cup {e[2] : e \in {d \in es : d[1] = n}})]

updateRemovedEntity(c, es) ==
  [c EXCEPT !.removedEntities = Tombstones(@, es),
            !.usedEntities    = {f \in @ : \A e \in es : f[1] = e[1] => f[2] > e[2]}]

updateUsedEntity(c, e) ==
  IF IsRemoved(c, e) THEN c
  ELSE [c EXCEPT !.removedEntities = IF e[2] > 0 THEN Tombstones(@, {<<e[1], e[2] - 1>>}) ELSE @,
                 !.usedEntities    = {f \in @ : f[1] = e[1] => f[2] >= e[2]} \cup {e}]

removeFromContainer(c, e) ==
  IF e \in c.usedEntities
  THEN [c EXCEPT !.usedEntities = @ \ {e}, !.toRemoveEntities = @ \cup {e}]
  ELSE updateRemovedEntity(c, {e})

releaseRemovedEntities(c) ==
  [c EXCEPT !.toRemoveEntities = {},
            !.removedEntities  = Tombstones(@, c.toRemoveEntities)]

(* The ids generateEntity may return, and the container afterwards: an     *)
(* unused recycled id, or else the next number past the counter.           *)
Recycled(c) ==
  {e \in Entity : /\ c.removedEntities[e[1]] # Absent
                  /\ e[2] = c.removedEntities[e[1]] + 1
                  /\ e \notin c.usedEntities \cup c.toRemoveEntities}

FreshNumbers(c) ==
  {n \in Numbers : n >= c.entityCounter /\ <<n, c.removedEntities[n] + 1>> \notin c.usedEntities}

(* Faulty variant: the version of the last tombstone, not the next one.    *)
generateNewEntityOfLastVersion(c) ==
  {[c EXCEPT !.usedEntities = @ \cup {<<n, c.removedEntities[n]>>}, !.entityCounter = n + 1] :
     n \in {m \in FreshNumbers(c) : \A k \in FreshNumbers(c) : m <= k}}

generateNewEntity(c) ==
  {[c EXCEPT !.usedEntities = @ \cup {<<n, c.removedEntities[n] + 1>>}, !.entityCounter = n + 1] :
     n \in {m \in FreshNumbers(c) : /\ \A k \in FreshNumbers(c) : m <= k
                                   /\ c.removedEntities[m] < MaxVersion}}

generateEntity(c) ==
  IF Cardinality(c.usedEntities) + FirstNumber < c.entityCounter /\ Recycled(c) # {}
  THEN {[c EXCEPT !.usedEntities = @ \cup {e}] : e \in Recycled(c)}
  ELSE generateNewEntity(c)
-----------------------------------------------------------------------------
(* The component's operations, as functions of its state.                  *)
createOrReplace(d, e, v) ==
  [d EXCEPT !.data[e] = v, !.dirty = @ \cup {e}, !.lastSentData[e] = None]

mutate(d, e, v) ==
  [d EXCEPT !.data[e] = v, !.dirty = @ \cup {e}]

entityDeleted(d, es) ==
  [d EXCEPT !.data         = [e \in Entity |-> IF e \in es THEN None ELSE @[e]],
            !.lastSentData = [e \in Entity |-> IF e \in es THEN None ELSE @[e]],
            !.dirty        = @ \cup {e \in es : d.data[e] # None}]

Wins(d, m) ==
  \/ m.timestamp > d.timestamps[m.entity]
  \/ m.timestamp = d.timestamps[m.entity] /\ m.data > d.data[m.entity]

Loses(d, m) ==
  \/ m.timestamp < d.timestamps[m.entity]
  \/ m.timestamp = d.timestamps[m.entity] /\ m.data < d.data[m.entity]

updateFromCrdt(d, m) ==
  IF Wins(d, m)
  THEN [d EXCEPT !.timestamps[m.entity] = m.timestamp, !.data[m.entity] = m.data,
                 !.lastSentData[m.entity] = m.data]
  ELSE d

ToSend(d) == {e \in d.dirty : d.data[e] = None \/ d.data[e] # d.lastSentData[e]}

(* A component message with data None is a DELETE_COMPONENT.               *)
ComponentMessage(e, ts, v) ==
  [type |-> "COMPONENT", entity |-> e, timestamp |-> ts, data |-> v]

DeleteEntity(e) == [type |-> "DELETE_ENTITY", entity |-> e]

getCrdtUpdates(d) ==
  LET entities == SetToSeq(ToSend(d))
  IN  [i \in DOMAIN entities |->
         ComponentMessage(entities[i], d.timestamps[entities[i]] + 1, d.data[entities[i]])]

(* Faulty variant: what is suppressed stays dirty.                         *)
FlushedKeepsSuppressed(d) ==
  [d EXCEPT !.dirty = @ \ ToSend(d),
            !.timestamps   = [e \in Entity |-> IF e \in ToSend(d) THEN @[e] + 1 ELSE @[e]],
            !.lastSentData = [e \in Entity |-> IF e \in ToSend(d) THEN d.data[e] ELSE @[e]]]

Flushed(d) ==
  [d EXCEPT !.dirty = {},
            !.timestamps   = [e \in Entity |-> IF e \in ToSend(d) THEN @[e] + 1 ELSE @[e]],
            !.lastSentData = [e \in Entity |-> IF e \in ToSend(d) THEN d.data[e] ELSE @[e]]]
-----------------------------------------------------------------------------
(* receiveMessages: process the inbox in order, then clean the deleted     *)
(* entities.  An update of a removed entity is skipped; one that loses is  *)
(* not forwarded; deletions are always forwarded.                          *)
Start(g) == [container |-> container[g], component |-> component[g],
             toClean |-> {}, broadcast |-> broadcastMessages[g]]

ProcessMessage(st, received) ==
  LET m == received.message
  IN  IF m.type = "DELETE_ENTITY"
      THEN [st EXCEPT !.toClean = @ \cup {m.entity}, !.broadcast = Append(@, received)]
      ELSE IF getEntityState(st.container, m.entity) = "Removed" THEN st
      ELSE [st EXCEPT !.container = IF getEntityState(@, m.entity) = "Unknown"
                                    THEN updateUsedEntity(@, m.entity) ELSE @,
                      !.component = updateFromCrdt(@, m),
                      !.broadcast = IF Loses(st.component, m) THEN @ ELSE Append(@, received)]

Processed(st, messages) ==
  LET after[i \in 0 .. Len(messages)] ==
        IF i = 0 THEN st ELSE ProcessMessage(after[i - 1], messages[i])
  IN  after[Len(messages)]

(* Faulty variants: a deletion that leaves no tombstone, or keeps data.    *)
CleanedComponentOnly(st) == [st EXCEPT !.component = entityDeleted(@, st.toClean)]

CleanedEntityOnly(st) == [st EXCEPT !.container = updateRemovedEntity(@, st.toClean)]

Cleaned(st) ==
  [st EXCEPT !.container = updateRemovedEntity(@, st.toClean),
             !.component = entityDeleted(@, st.toClean)]

receiveMessages(g) ==
  /\ phase[g] = "idle"
  /\ phase' = [phase EXCEPT ![g] = "systems"]
  /\ LET cleaned == Cleaned(Processed(Start(g), receivedMessages[g]))
     IN  /\ container' = [container EXCEPT ![g] = cleaned.container]
         /\ component' = [component EXCEPT ![g] = cleaned.component]
         /\ broadcastMessages' = [broadcastMessages EXCEPT ![g] = cleaned.broadcast]
  /\ receivedMessages' = [receivedMessages EXCEPT ![g] = <<>>]
  /\ UNCHANGED calls
-----------------------------------------------------------------------------
(* Calls of scene code: inside a system, or from an asynchronous callback. *)
(* It only touches entities its engine knows to be in use, and only Scene  *)
(* creates entities.                                                       *)
MayCall(g) ==
  /\ WritesBetweenTicks \/ phase[g] = "systems"
  /\ calls < MaxCalls
  /\ calls' = calls + 1

addEntity ==
  /\ MayCall(Scene)
  /\ \E c \in generateEntity(container[Scene]) : container' = [container EXCEPT ![Scene] = c]
  /\ UNCHANGED <<component, phase, receivedMessages, broadcastMessages>>

write(g, e, v) ==
  /\ MayCall(g)
  /\ e \in container[g].usedEntities
  /\ \/ component' = [component EXCEPT ![g] = createOrReplace(@, e, v)]
     \/ /\ component[g].data[e] # None
        /\ component' = [component EXCEPT ![g] = mutate(@, e, v)]
  /\ UNCHANGED <<container, phase, receivedMessages, broadcastMessages>>

deleteFrom(g, e) ==
  /\ MayCall(g)
  /\ component[g].data[e] # None
  /\ component' = [component EXCEPT ![g] = entityDeleted(@, {e})]
  /\ UNCHANGED <<container, phase, receivedMessages, broadcastMessages>>

removeEntity(g, e) ==
  /\ MayCall(g)
  /\ e \in container[g].usedEntities
  /\ container' = [container EXCEPT ![g] = removeFromContainer(@, e)]
  /\ component' = [component EXCEPT ![g] = entityDeleted(@, {e})]
  /\ UNCHANGED <<phase, receivedMessages, broadcastMessages>>
-----------------------------------------------------------------------------
Neighbours(g) == IF g = Scene THEN Peers ELSE {Scene}

Own(g, messages) == [i \in DOMAIN messages |-> [from |-> g, message |-> messages[i]]]

Deletions(es) ==
  LET entities == SetToSeq(es)
  IN  [i \in DOMAIN entities |-> DeleteEntity(entities[i])]

(* releaseRemovedEntities and sendMessages: what was processed, then the   *)
(* component updates, then the deletions; nothing goes back to the         *)
(* transport it came from.                                                 *)
Outgoing(g) ==
  broadcastMessages[g]
    \o Own(g, getCrdtUpdates(component[g]))
    \o Own(g, Deletions(container[g].toRemoveEntities))

Accepts(h, sent) == sent.from # h

Relayed(g, h, outgoing) ==
  LET kept[i \in 0 .. Len(outgoing)] ==
        IF i = 0 THEN <<>>
        ELSE IF Accepts(h, outgoing[i])
             THEN Append(kept[i - 1], [from |-> g, message |-> outgoing[i].message])
             ELSE kept[i - 1]
  IN  kept[Len(outgoing)]

sendMessages(g) ==
  /\ phase[g] = "systems"
  /\ phase' = [phase EXCEPT ![g] = "idle"]
  /\ container' = [container EXCEPT ![g] = releaseRemovedEntities(@)]
  /\ component' = [component EXCEPT ![g] = Flushed(@)]
  /\ broadcastMessages' = [broadcastMessages EXCEPT ![g] = <<>>]
  /\ LET outgoing == Outgoing(g)
     IN  receivedMessages' = [h \in Engines |->
           IF h \in Neighbours(g) THEN receivedMessages[h] \o Relayed(g, h, outgoing)
           ELSE receivedMessages[h]]
  /\ UNCHANGED calls

Next ==
  \/ addEntity
  \/ \E g \in Engines :
       \/ receiveMessages(g)
       \/ \E e \in Entity, v \in Values : write(g, e, v)
       \/ \E e \in Entity : deleteFrom(g, e)
       \/ \E e \in Entity : removeEntity(g, e)
       \/ sendMessages(g)

Fairness == \A g \in Engines : WF_vars(receiveMessages(g)) /\ WF_vars(sendMessages(g))

Spec == Init /\ [][Next]_vars /\ Fairness
-----------------------------------------------------------------------------
Containers == [entityCounter : Nat, usedEntities : SUBSET Entity, toRemoveEntities : SUBSET Entity,
               removedEntities : [Numbers -> Versions \cup {Absent}]]
Components == [data : [Entity -> Values \cup {None}], timestamps : [Entity -> Nat],
               dirty : SUBSET Entity, lastSentData : [Entity -> Values \cup {None}]]
Messages == [type : {"COMPONENT"}, entity : Entity, timestamp : Nat, data : Values \cup {None}]
              \cup [type : {"DELETE_ENTITY"}, entity : Entity]
Sent     == [from : Engines, message : Messages]

(* The maps keep their keys and ranges, and no id outgrows its versions.   *)
TypeOK ==
  /\ container \in [Engines -> Containers] /\ component \in [Engines -> Components]
  /\ phase \in [Engines -> {"idle", "systems"}]
  /\ receivedMessages \in [Engines -> Seq(Sent)]
  /\ broadcastMessages \in [Engines -> Seq(Sent)]
  /\ calls \in 0 .. MaxCalls

(* Nothing is left to process, forward, flush or announce.                 *)
Quiescent ==
  \A g \in Engines :
    /\ receivedMessages[g] = <<>> /\ broadcastMessages[g] = <<>>
    /\ component[g].dirty = {} /\ container[g].toRemoveEntities = {}

(* When nothing is in flight all engines have removed the same entities    *)
(* and hold the same component values, whoever wrote and removed what and  *)
(* in whatever order the ticks interleaved (engine/index.ts update).       *)
QuiescentAgreement ==
  Quiescent => \A g, h \in Engines : \A e \in Entity :
                 /\ IsRemoved(container[g], e) <=> IsRemoved(container[h], e)
                 /\ component[g].data[e] = component[h].data[e]

(* EntityState.Removed: "The entity was removed from current engine or     *)
(* remotely" - an id that was removed is not in use any more, and keeps no *)
(* component data.                                                         *)
RemovedIsNotUsed ==
  \A g \in Engines : phase[g] = "idle" =>
    \A e \in Entity : IsRemoved(container[g], e) =>
      e \notin container[g].usedEntities /\ component[g].data[e] = None

(* The engines settle once scene code stops calling: a message is not      *)
(* relayed for ever between them, although deletions are always forwarded  *)
(* and an inbound deletion makes the receiver announce the components it   *)
(* lost (systems/crdt/index.ts, receiveMessages and the echo filter).      *)
EngineSettles == <>[]Quiescent
=============================================================================
