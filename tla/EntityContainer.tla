--------------------------- MODULE EntityContainer ---------------------------
(***************************************************************************)
(* createEntityContainer of engine/entity.ts: the allocator that issues    *)
(* entity ids, recycles the numbers of removed entities under a higher     *)
(* version and keeps the tombstones of removed ids.                        *)
(*                                                                         *)
(* An Entity is a 32-bit id packing a 16-bit number and a 16-bit version;  *)
(* here it is the pair <<number, version>> the packing encodes.  The two   *)
(* 16-bit limits are the constants MaxEntityNumber and MaxVersion, and a   *)
(* version is masked by toEntityId exactly as in the code.                 *)
(*                                                                         *)
(* The array toRemoveEntities is a set: its order and its repetitions only *)
(* decide the order and the repetition of DELETE_ENTITY messages.  The Map *)
(* removedEntities is iterated in insertion order when a number is looked  *)
(* for to recycle; here any eligible number may be chosen.                 *)
(***************************************************************************)
EXTENDS Integers, FiniteSets

CONSTANTS
  ReservedStaticEntities,  \* numbers below this one belong to the renderer
  MaxCompositeEntity,      \* DCL_MAX_COMPOSITE_ENTITY, 0 when not injected
  MaxEntityNumber,         \* MAX_ENTITY_NUMBER
  MaxVersion               \* MAX_U16, the mask of a version

ASSUME ContainerAssumption ==
  /\ ReservedStaticEntities \in Nat
  /\ MaxCompositeEntity \in Nat
  /\ MaxEntityNumber \in Nat
  /\ MaxVersion \in Nat
  /\ ReservedStaticEntities <= MaxEntityNumber
  /\ MaxCompositeEntity < MaxEntityNumber

VARIABLES entityCounter, usedEntities, toRemoveEntities, removedEntities

vars == <<entityCounter, usedEntities, toRemoveEntities, removedEntities>>

Numbers  == 0 .. MaxEntityNumber
Versions == 0 .. MaxVersion
Entity   == Numbers \X Versions
-----------------------------------------------------------------------------
(* The version-compressed grow-only set of systems/crdt/gset.ts: adding    *)
(* (n, v) adds every version of n up to and including v, so one integer    *)
(* per number represents the whole set.  A number that was never added is  *)
(* absent from the source's Map; here it maps to Absent.                   *)
Absent == -1

EmptyGSet == [n \in Numbers |-> Absent]

(* Faulty variant of AddTo: it stores the version unconditionally, which   *)
(* would let an old removal shrink the set.                                *)
AddToOverwrite(lastVersion, n, v) == [lastVersion EXCEPT ![n] = v]

AddTo(lastVersion, n, v) ==
  [lastVersion EXCEPT ![n] = IF @ >= v THEN @ ELSE v]

Has(lastVersion, n, v) == lastVersion[n] >= v
-----------------------------------------------------------------------------
(* Faulty variant of toEntityId.                                           *)
toEntityIdUnmasked(number, version) == <<number, version>>

toEntityId(number, version) == <<number, version % (MaxVersion + 1)>>

UpToVersion(e) == {<<e[1], i>> : i \in 0 .. e[2]}

isReservedEntity(e) == e[1] < ReservedStaticEntities

Init ==
  /\ entityCounter =
       LET first == IF MaxCompositeEntity > 0 THEN MaxCompositeEntity + 1 ELSE 0
       IN  IF first > ReservedStaticEntities THEN first ELSE ReservedStaticEntities
  /\ usedEntities = {}
  /\ toRemoveEntities = {}
  /\ removedEntities = EmptyGSet
-----------------------------------------------------------------------------
(* Classification of an id, in the order the code tests it.                *)
getEntityState(e) ==
  IF isReservedEntity(e) THEN "Reserved"
  ELSE IF e \in usedEntities THEN "UsedEntity"
  ELSE IF Has(removedEntities, e[1], e[2]) THEN "Removed"
  ELSE "Unknown"

(* The id generateNewEntity forms for a number: one version past its       *)
(* tombstone, or version 0.  There is no check against MaxVersion here, so *)
(* the mask can wrap.                                                      *)
NextIdOf(number) == toEntityId(number, removedEntities[number] + 1)

UnusedNumbers ==
  {n \in entityCounter .. (MaxEntityNumber - 1) : NextIdOf(n) \notin usedEntities}

(* generateNewEntity: the recursion skips numbers whose next id is in use. *)
generateNewEntity(e) ==
  /\ \E n \in UnusedNumbers :
       /\ \A m \in UnusedNumbers : n <= m
       /\ e = NextIdOf(n)
       /\ entityCounter' = n + 1
  /\ usedEntities' = usedEntities \cup {e}
  /\ UNCHANGED <<toRemoveEntities, removedEntities>>

(* Faulty variant of Recyclable.                                           *)
RecyclableSameVersion ==
  {e \in Entity :
     /\ ~isReservedEntity(e)
     /\ removedEntities[e[1]] # Absent
     /\ e[2] = removedEntities[e[1]]
     /\ e \notin usedEntities
     /\ e \notin toRemoveEntities}

(* The ids the recycling loop of generateEntity accepts.                   *)
Recyclable ==
  {e \in Entity :
     /\ ~isReservedEntity(e)
     /\ removedEntities[e[1]] # Absent
     /\ removedEntities[e[1]] < MaxVersion
     /\ e[2] = removedEntities[e[1]] + 1
     /\ e \notin usedEntities
     /\ e \notin toRemoveEntities}

AllCountedInUse ==
  Cardinality(usedEntities) + ReservedStaticEntities >= entityCounter

recycleEntity(e) ==
  /\ ~AllCountedInUse
  /\ e \in Recyclable
  /\ usedEntities' = usedEntities \cup {e}
  /\ UNCHANGED <<entityCounter, toRemoveEntities, removedEntities>>

generateEntity(e) ==
  \/ recycleEntity(e)
  \/ (AllCountedInUse \/ Recyclable = {}) /\ generateNewEntity(e)

(* Every id a call of generateEntity may form.                             *)
Candidates == Recyclable \cup {NextIdOf(n) : n \in UnusedNumbers}

(* generateNewEntity throws "entity out of range"; the counter it advanced *)
(* before throwing stays advanced.                                         *)
generateEntityThrows ==
  /\ AllCountedInUse \/ Recyclable = {}
  /\ UnusedNumbers = {}
  /\ entityCounter' = IF entityCounter < MaxEntityNumber THEN MaxEntityNumber
                      ELSE entityCounter
  /\ UNCHANGED <<usedEntities, toRemoveEntities, removedEntities>>
-----------------------------------------------------------------------------
(* A DELETE_ENTITY received from a transport, or the removal of an id that *)
(* is not in use: tombstone it at once.  Reserved numbers are refused.     *)
updateRemovedEntity(e) ==
  /\ ~isReservedEntity(e)
  /\ removedEntities' = AddTo(removedEntities, e[1], e[2])
  /\ usedEntities' = usedEntities \ UpToVersion(e)
  /\ UNCHANGED <<entityCounter, toRemoveEntities>>

(* removeEntity: an id in use becomes a pending removal until the end of   *)
(* the tick; any other id is tombstoned immediately.                       *)
removeEntity(e) ==
  /\ ~isReservedEntity(e)
  /\ IF e \in usedEntities
     THEN /\ usedEntities' = usedEntities \ {e}
          /\ toRemoveEntities' = toRemoveEntities \cup {e}
          /\ UNCHANGED <<entityCounter, removedEntities>>
     ELSE updateRemovedEntity(e)

(* releaseRemovedEntities: the tombstones of all pending removals.         *)
releaseRemovedEntities ==
  /\ toRemoveEntities # {}
  /\ toRemoveEntities' = {}
  /\ removedEntities' =
       [n \in Numbers |->
          CHOOSE v \in Versions \cup {Absent} :
            /\ v = removedEntities[n] \/ <<n, v>> \in toRemoveEntities
            /\ v >= removedEntities[n]
            /\ \A w \in Versions : <<n, w>> \in toRemoveEntities => w <= v]
  /\ UNCHANGED <<entityCounter, usedEntities>>

(* Faulty variant of updateUsedEntity.                                     *)
updateUsedKeepsOlder(e) ==
  /\ ~isReservedEntity(e)
  /\ ~Has(removedEntities, e[1], e[2])
  /\ usedEntities' = usedEntities \cup {e}
  /\ UNCHANGED <<entityCounter, toRemoveEntities, removedEntities>>

(* updateUsedEntity: the first message about an id this engine never saw.  *)
(* It retires the older versions of the number.                            *)
updateUsedEntity(e) ==
  /\ ~isReservedEntity(e)
  /\ ~Has(removedEntities, e[1], e[2])
  /\ usedEntities' = (usedEntities \ (UpToVersion(e) \ {e})) \cup {e}
  /\ removedEntities' = IF e[2] > 0 THEN AddTo(removedEntities, e[1], e[2] - 1)
                        ELSE removedEntities
  /\ UNCHANGED <<entityCounter, toRemoveEntities>>
-----------------------------------------------------------------------------
Next ==
  \/ \E e \in Candidates : generateEntity(e)
  \/ generateEntityThrows
  \/ \E e \in Entity : removeEntity(e)
  \/ releaseRemovedEntities
  \/ \E e \in Entity : updateRemovedEntity(e)
  \/ \E e \in Entity : updateUsedEntity(e)

Spec == Init /\ [][Next]_vars
-----------------------------------------------------------------------------
(* Type invariant: the four pieces of state of the closure.                *)
TypeOK ==
  /\ entityCounter \in Nat
  /\ usedEntities \subseteq Entity
  /\ toRemoveEntities \subseteq Entity
  /\ removedEntities \in [Numbers -> Versions \cup {Absent}]

(* A renderer-reserved number is never issued, never pending removal and   *)
(* never tombstoned, whatever the peers and the renderer send: a           *)
(* tombstoned reserved number would seed the recycling pool with the slots *)
(* of live remote players (entity.ts, the comments of the three guards).   *)
ReservedNumbersUntouched ==
  /\ \A e \in usedEntities \cup toRemoveEntities : ~isReservedEntity(e)
  /\ \A n \in Numbers : n < ReservedStaticEntities => removedEntities[n] = Absent

(* The numbering discipline behind id reuse: an id in use or pending       *)
(* removal has every older version of its number tombstoned already.       *)
OlderVersionsTombstoned ==
  \A e \in usedEntities \cup toRemoveEntities : removedEntities[e[1]] >= e[2] - 1

(* Of all the ids in use that share a number, at most one is not           *)
(* tombstoned: two entities alive at once never share a number.            *)
OneLiveVersion ==
  \A e, f \in usedEntities :
    /\ e[1] = f[1]
    /\ ~Has(removedEntities, e[1], e[2])
    /\ ~Has(removedEntities, f[1], f[2])
    => e = f

(* An id that generateEntity returns was unknown to this engine: neither   *)
(* reserved, nor in use, nor tombstoned - unless the number has spent all  *)
(* its versions, when the version mask wraps (entity.ts:129-132).          *)
GeneratedIdWasUnknown ==
  [][\A e \in Entity :
       generateEntity(e) => \/ getEntityState(e) = "Unknown"
                            \/ removedEntities[e[1]] = MaxVersion]_vars

(* The tombstones, as the set of ids they cover.                           *)
Tombstones == {e \in Entity : Has(removedEntities, e[1], e[2])}

(* The versioned map implements an abstract grow-only set of ids.          *)
Abstract == INSTANCE GrowOnlySet WITH Pairs <- Entity, elements <- Tombstones
TombstonesRefineGrowOnlySet == Abstract!Spec
=============================================================================
