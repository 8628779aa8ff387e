------------------------ MODULE EntityContainerProofs ------------------------
(***************************************************************************)
(* The invariants and the refinement of EntityContainer, for every number  *)
(* range, version range and reserved range.                                *)
(*                                                                         *)
(* One fact carries them all: an id in use or pending removal is at most   *)
(* one version past its number's tombstone.  It makes releaseRemovedEntities*)
(* well defined (a tombstone advances by one at most) and leaves a number  *)
(* a single live version.                                                  *)
(***************************************************************************)
EXTENDS EntityContainer, TLAPS

CounterOK == entityCounter >= ReservedStaticEntities

IInv == TypeOK /\ CounterOK /\ ReservedNumbersUntouched /\ OlderVersionsTombstoned

(* Masking a version leaves it in range; the version after the last one is *)
(* version 0 again.                                                        *)
LEMMA MaskedVersion ==
  ASSUME NEW r \in Versions \cup {Absent}
  PROVE  /\ (r + 1) % (MaxVersion + 1) \in Versions
         /\ (r + 1) % (MaxVersion + 1) = IF r = MaxVersion THEN 0 ELSE r + 1
  BY ContainerAssumption, SMT DEF Versions, Absent

(* The id a number would get next: in range, not tombstoned unless the     *)
(* number has spent its versions, and with every older version tombstoned. *)
LEMMA NextId ==
  ASSUME TypeOK, NEW n \in Numbers
  PROVE  /\ NextIdOf(n) \in Entity
         /\ NextIdOf(n)[1] = n
         /\ removedEntities[n] >= NextIdOf(n)[2] - 1
         /\ removedEntities[n] # MaxVersion => removedEntities[n] < NextIdOf(n)[2]
  <1>1. removedEntities[n] \in Versions \cup {Absent}
    BY DEF TypeOK
  <1> QED
    BY <1>1, MaskedVersion, ContainerAssumption
    DEF NextIdOf, toEntityId, Entity, Versions, Absent

LEMMA CandidatesAreIds ==
  ASSUME TypeOK
  PROVE  Candidates \subseteq Entity
  <1>1. UnusedNumbers \subseteq Numbers
    BY ContainerAssumption DEF TypeOK, UnusedNumbers, Numbers
  <1> QED
    BY <1>1, NextId DEF Candidates, Recyclable

LEMMA InitIInv == Init => IInv
  <1> SUFFICES ASSUME Init PROVE IInv
    OBVIOUS
  <1>1. removedEntities = [n \in Numbers |-> Absent]
    BY DEF Init, EmptyGSet
  <1>2. TypeOK /\ CounterOK
    BY <1>1, ContainerAssumption DEF Init, TypeOK, CounterOK
  <1> QED
    BY <1>1, <1>2 DEF Init, IInv, ReservedNumbersUntouched, OlderVersionsTombstoned
-----------------------------------------------------------------------------
(* Adding to the compressed set keeps it a map of versions and never       *)
(* lowers an entry; the number added reaches at least the version added.   *)
LEMMA AddToGrows ==
  ASSUME NEW r \in [Numbers -> Versions \cup {Absent}],
         NEW n \in Numbers, NEW v \in Versions
  PROVE  /\ AddTo(r, n, v) \in [Numbers -> Versions \cup {Absent}]
         /\ \A m \in Numbers : AddTo(r, n, v)[m] >= r[m]
         /\ \A m \in Numbers : m # n => AddTo(r, n, v)[m] = r[m]
         /\ AddTo(r, n, v)[n] >= v
  BY ContainerAssumption DEF AddTo, Versions, Absent

(* Releasing the pending removals advances a tombstone by at most one      *)
(* version, because a pending id is at most one past its tombstone.        *)
LEMMA ReleaseAdvances ==
  ASSUME IInv, releaseRemovedEntities
  PROVE  /\ removedEntities' \in [Numbers -> Versions \cup {Absent}]
         /\ \A n \in Numbers :
              /\ removedEntities'[n] >= removedEntities[n]
              /\ removedEntities'[n] # removedEntities[n]
                   => <<n, removedEntities'[n]>> \in toRemoveEntities
  <1> DEFINE Newest(n, v) == /\ v = removedEntities[n] \/ <<n, v>> \in toRemoveEntities
                             /\ v >= removedEntities[n]
                             /\ \A w \in Versions : <<n, w>> \in toRemoveEntities => w <= v
  <1>1. ASSUME NEW n \in Numbers
        PROVE  \E v \in Versions \cup {Absent} : Newest(n, v)
    <2>1. /\ removedEntities[n] \in Versions \cup {Absent}
          /\ \A w \in Versions : <<n, w>> \in toRemoveEntities => w <= removedEntities[n] + 1
      BY DEF IInv, TypeOK, OlderVersionsTombstoned, Entity, Versions, Absent
    <2>2. CASE <<n, removedEntities[n] + 1>> \in toRemoveEntities
      <3>1. removedEntities[n] + 1 \in Versions
        BY <2>2, <2>1 DEF IInv, TypeOK, Entity
      <3> QED
        BY <3>1, <2>1, <2>2 DEF Versions, Absent
    <2>3. CASE <<n, removedEntities[n] + 1>> \notin toRemoveEntities
      <3>1. \A w \in Versions : <<n, w>> \in toRemoveEntities => w <= removedEntities[n]
        BY <2>1, <2>3 DEF Versions, Absent
      <3> QED
        BY <3>1, <2>1 DEF Versions, Absent
    <2> QED
      BY <2>2, <2>3
  <1>2. removedEntities' = [n \in Numbers |-> CHOOSE v \in Versions \cup {Absent} : Newest(n, v)]
    BY DEF releaseRemovedEntities
  <1>3. ASSUME NEW n \in Numbers
        PROVE  removedEntities'[n] \in Versions \cup {Absent} /\ Newest(n, removedEntities'[n])
    <2>1. removedEntities'[n] = CHOOSE v \in Versions \cup {Absent} : Newest(n, v)
      BY <1>2
    <2> HIDE DEF Newest
    <2> QED
      BY <1>1, <2>1
  <1>4. removedEntities' \in [Numbers -> Versions \cup {Absent}]
    <2> HIDE DEF Newest
    <2> QED
      BY <1>2, <1>3
  <1> QED
    BY <1>3, <1>4
-----------------------------------------------------------------------------
(* What every operation does to the sets of ids and to the tombstones.     *)
LEMMA TombstonesGrow ==
  ASSUME IInv, [Next]_vars
  PROVE  /\ removedEntities' \in [Numbers -> Versions \cup {Absent}]
         /\ \A n \in Numbers : removedEntities'[n] >= removedEntities[n]
         /\ \A n \in Numbers : n < ReservedStaticEntities
                               => removedEntities'[n] = removedEntities[n]
  <1> USE DEF IInv, TypeOK
  <1>1. ASSUME NEW e \in Entity, generateEntity(e) PROVE removedEntities' = removedEntities
    BY <1>1 DEF generateEntity, recycleEntity, generateNewEntity
  <1>2. ASSUME NEW e \in Entity, updateRemovedEntity(e)
        PROVE  /\ removedEntities' = AddTo(removedEntities, e[1], e[2])
               /\ e[1] >= ReservedStaticEntities
    BY <1>2, ContainerAssumption DEF updateRemovedEntity, isReservedEntity, Entity, Numbers
  <1>3. ASSUME NEW e \in Entity, removeEntity(e)
        PROVE  \/ removedEntities' = removedEntities
               \/ updateRemovedEntity(e)
    BY <1>3 DEF removeEntity
  <1>4. ASSUME NEW e \in Entity, updateUsedEntity(e)
        PROVE  /\ \/ removedEntities' = removedEntities
                  \/ e[2] > 0 /\ removedEntities' = AddTo(removedEntities, e[1], e[2] - 1)
               /\ e[1] >= ReservedStaticEntities
    BY <1>4, ContainerAssumption DEF updateUsedEntity, isReservedEntity, Entity, Numbers
  <1>5. ASSUME NEW e \in Entity, NEW v \in Versions,
               removedEntities' = AddTo(removedEntities, e[1], v),
               e[1] >= ReservedStaticEntities
        PROVE  /\ removedEntities' \in [Numbers -> Versions \cup {Absent}]
               /\ \A n \in Numbers : removedEntities'[n] >= removedEntities[n]
               /\ \A n \in Numbers : n < ReservedStaticEntities
                                     => removedEntities'[n] = removedEntities[n]
    <2>1. e[1] \in Numbers
      BY DEF Entity
    <2>2. /\ AddTo(removedEntities, e[1], v) \in [Numbers -> Versions \cup {Absent}]
          /\ \A m \in Numbers : AddTo(removedEntities, e[1], v)[m] >= removedEntities[m]
          /\ \A m \in Numbers : m # e[1] => AddTo(removedEntities, e[1], v)[m] = removedEntities[m]
      BY <2>1, AddToGrows
    <2>3. \A n \in Numbers : n < ReservedStaticEntities => n # e[1]
      BY <1>5, <2>1, ContainerAssumption DEF Numbers
    <2> QED
      BY <1>5, <2>2, <2>3
  <1>6. CASE releaseRemovedEntities
    <2>1. \A n \in Numbers : n < ReservedStaticEntities
             => \A v : <<n, v>> \notin toRemoveEntities
      BY DEF ReservedNumbersUntouched, isReservedEntity
    <2> QED
      BY <1>6, <2>1, ReleaseAdvances
  <1>7. CASE removedEntities' = removedEntities
    BY <1>7 DEF Numbers, Versions, Absent
  <1>8. ASSUME NEW e \in Entity, updateUsedEntity(e), e[2] > 0
        PROVE  e[2] - 1 \in Versions
    BY <1>8, ContainerAssumption DEF Entity, Versions
  <1>9. ASSUME NEW e \in Entity PROVE e[2] \in Versions
    BY DEF Entity
  <1> QED
    BY <1>1, <1>2, <1>3, <1>4, <1>5, <1>6, <1>7, <1>8, <1>9, CandidatesAreIds
    DEF Next, vars, generateEntityThrows
-----------------------------------------------------------------------------
(* An id a step puts in use or in the pending removals has its older       *)
(* versions tombstoned by the end of the step.                             *)
LEMMA IdsStayDisciplined ==
  ASSUME IInv, Next
  PROVE  /\ usedEntities' \subseteq Entity /\ toRemoveEntities' \subseteq Entity
         /\ entityCounter' \in Nat /\ entityCounter' >= ReservedStaticEntities
         /\ \A e \in usedEntities' \cup toRemoveEntities' :
              ~isReservedEntity(e) /\ removedEntities'[e[1]] >= e[2] - 1
  <1> USE DEF IInv, TypeOK
  <1> DEFINE Disciplined(e) == ~isReservedEntity(e) /\ removedEntities'[e[1]] >= e[2] - 1
  <1>1. \A e \in usedEntities \cup toRemoveEntities : Disciplined(e)
    <2> SUFFICES ASSUME NEW e \in usedEntities \cup toRemoveEntities PROVE Disciplined(e)
      OBVIOUS
    <2>1. e \in Entity /\ e[1] \in Numbers /\ e[2] \in Int
      BY DEF Entity, Versions
    <2>2. removedEntities'[e[1]] >= removedEntities[e[1]]
      BY <2>1, TombstonesGrow
    <2>3. removedEntities[e[1]] >= e[2] - 1 /\ ~isReservedEntity(e)
      BY DEF OlderVersionsTombstoned, ReservedNumbersUntouched
    <2>4. removedEntities[e[1]] \in Int /\ removedEntities'[e[1]] \in Int
      BY <2>1, TombstonesGrow DEF Versions, Absent
    <2> QED
      BY <2>1, <2>2, <2>3, <2>4
  <1> HIDE DEF Disciplined
  <1>2. ASSUME NEW e \in Entity, generateEntity(e)
        PROVE  /\ usedEntities' = usedEntities \cup {e} /\ toRemoveEntities' = toRemoveEntities
               /\ entityCounter' \in Nat /\ entityCounter' >= ReservedStaticEntities
               /\ Disciplined(e)
    <2>1. CASE recycleEntity(e)
      BY <2>1 DEF recycleEntity, Recyclable, CounterOK, Disciplined, Entity, Versions
    <2>2. CASE generateNewEntity(e)
      <3>1. PICK n \in UnusedNumbers : e = NextIdOf(n) /\ entityCounter' = n + 1
        BY <2>2 DEF generateNewEntity
      <3>2. n \in Numbers /\ n >= entityCounter
        BY <3>1, ContainerAssumption DEF UnusedNumbers, Numbers
      <3>3. removedEntities[n] >= e[2] - 1 /\ e[1] = n
        BY <3>1, <3>2, NextId
      <3>4. removedEntities' = removedEntities
        BY <2>2 DEF generateNewEntity
      <3>5. n >= ReservedStaticEntities
        BY <3>2, ContainerAssumption DEF CounterOK, Numbers
      <3>6. ~isReservedEntity(e)
        BY <3>2, <3>3, <3>5, ContainerAssumption DEF isReservedEntity, Numbers
      <3>7. Disciplined(e)
        BY <3>3, <3>4, <3>6 DEF Disciplined
      <3>8. entityCounter' \in Nat /\ entityCounter' >= ReservedStaticEntities
        BY <3>1, <3>2, <3>5, ContainerAssumption DEF Numbers
      <3> QED
        BY <2>2, <3>7, <3>8 DEF generateNewEntity
    <2> QED
      BY <1>2, <2>1, <2>2 DEF generateEntity
  <1>3. CASE generateEntityThrows
    BY <1>3, <1>1, ContainerAssumption DEF generateEntityThrows, CounterOK, Disciplined
  <1>4. ASSUME NEW e \in Entity, updateRemovedEntity(e)
        PROVE  usedEntities' \subseteq usedEntities /\ toRemoveEntities' = toRemoveEntities
               /\ entityCounter' = entityCounter
    BY <1>4 DEF updateRemovedEntity
  <1>5. ASSUME NEW e \in Entity, removeEntity(e)
        PROVE  /\ usedEntities' \cup toRemoveEntities' \subseteq usedEntities \cup toRemoveEntities
               /\ entityCounter' = entityCounter
    BY <1>5, <1>4 DEF removeEntity
  <1>6. CASE releaseRemovedEntities
    BY <1>6, <1>1 DEF releaseRemovedEntities, CounterOK, Disciplined
  <1>7. ASSUME NEW e \in Entity, updateUsedEntity(e)
        PROVE  /\ usedEntities' \subseteq usedEntities \cup {e} /\ toRemoveEntities' = toRemoveEntities
               /\ entityCounter' = entityCounter
               /\ Disciplined(e)
    <2>1. e[1] \in Numbers /\ e[2] \in Versions
      BY DEF Entity
    <2>2. CASE e[2] > 0
      <3>1. e[2] - 1 \in Versions
        BY <2>1, <2>2, ContainerAssumption DEF Versions
      <3>2. removedEntities'[e[1]] >= e[2] - 1
        BY <1>7, <2>1, <2>2, <3>1, AddToGrows DEF updateUsedEntity
      <3> QED
        BY <1>7, <3>2 DEF updateUsedEntity, Disciplined
    <2>3. CASE ~(e[2] > 0)
      BY <1>7, <2>1, <2>3 DEF updateUsedEntity, Disciplined, Versions, Absent
    <2> QED
      BY <2>2, <2>3
  <1>8. usedEntities' \cup toRemoveEntities' \subseteq Entity
    BY <1>2, <1>3, <1>4, <1>5, <1>6, <1>7, CandidatesAreIds
    DEF Next, generateEntityThrows, releaseRemovedEntities
  <1>9. entityCounter' \in Nat /\ entityCounter' >= ReservedStaticEntities
    BY <1>2, <1>3, <1>4, <1>5, <1>6, <1>7, CandidatesAreIds, ContainerAssumption
    DEF Next, generateEntityThrows, releaseRemovedEntities, CounterOK
  <1>10. \A e \in usedEntities' \cup toRemoveEntities' : Disciplined(e)
    BY <1>1, <1>2, <1>3, <1>4, <1>5, <1>6, <1>7, CandidatesAreIds
    DEF Next, generateEntityThrows, releaseRemovedEntities
  <1> QED
    BY <1>8, <1>9, <1>10 DEF Disciplined

(* The inductive invariant is preserved by every step.                     *)
LEMMA NextIInv == IInv /\ [Next]_vars => IInv'
  <1> SUFFICES ASSUME IInv, [Next]_vars PROVE IInv'
    OBVIOUS
  <1>1. CASE Next
    <2>1. TypeOK' /\ CounterOK'
      BY <1>1, IdsStayDisciplined, TombstonesGrow DEF TypeOK, CounterOK
    <2>2. ReservedNumbersUntouched'
      BY <1>1, IdsStayDisciplined, TombstonesGrow
      DEF IInv, ReservedNumbersUntouched, isReservedEntity
    <2>3. OlderVersionsTombstoned'
      BY <1>1, IdsStayDisciplined DEF OlderVersionsTombstoned
    <2> QED
      BY <2>1, <2>2, <2>3 DEF IInv
  <1>2. CASE UNCHANGED vars
    BY <1>2 DEF vars, IInv, TypeOK, CounterOK, ReservedNumbersUntouched,
       OlderVersionsTombstoned, isReservedEntity
  <1> QED
    BY <1>1, <1>2

(* The inductive invariant holds in every reachable state.                 *)
LEMMA IInvHolds == Spec => []IInv
  BY InitIInv, NextIInv, PTL DEF Spec
-----------------------------------------------------------------------------
(* The four pieces of state of the closure keep their types.               *)
THEOREM TypeCorrect == Spec => []TypeOK
  <1>1. IInv => TypeOK
    BY DEF IInv
  <1> QED
    BY <1>1, IInvHolds, PTL

(* No sequence of local and remote calls puts a renderer-reserved number   *)
(* in use, in the pending removals or in the recycling pool.               *)
THEOREM ReservedUntouched == Spec => []ReservedNumbersUntouched
  <1>1. IInv => ReservedNumbersUntouched
    BY DEF IInv
  <1> QED
    BY <1>1, IInvHolds, PTL

(* Every id in use or pending removal is at most one version past the      *)
(* tombstone of its number.                                                *)
THEOREM VersionDiscipline == Spec => []OlderVersionsTombstoned
  <1>1. IInv => OlderVersionsTombstoned
    BY DEF IInv
  <1> QED
    BY <1>1, IInvHolds, PTL

(* Two ids in use that are both alive never share a number: each of them   *)
(* is exactly one version past the tombstone.                              *)
THEOREM LiveIdsHaveDistinctNumbers == Spec => []OneLiveVersion
  <1>1. IInv => OneLiveVersion
    <2> SUFFICES ASSUME IInv, NEW e \in usedEntities, NEW f \in usedEntities,
                        e[1] = f[1],
                        ~Has(removedEntities, e[1], e[2]), ~Has(removedEntities, f[1], f[2])
                 PROVE  e = f
      BY DEF OneLiveVersion
    <2>1. e \in Entity /\ f \in Entity
      BY DEF IInv, TypeOK
    <2>2. removedEntities[e[1]] \in Int /\ e[2] \in Int /\ f[2] \in Int
      BY <2>1 DEF IInv, TypeOK, Entity, Versions, Absent
    <2>3. e[2] = removedEntities[e[1]] + 1 /\ f[2] = removedEntities[e[1]] + 1
      BY <2>2 DEF IInv, OlderVersionsTombstoned, Has
    <2> QED
      BY <2>1, <2>3 DEF Entity
  <1> QED
    BY <1>1, IInvHolds, PTL

(* generateEntity returns an id that was Unknown, or one of a number whose *)
(* versions are spent.                                                     *)
THEOREM GeneratedIdsAreFresh == Spec => GeneratedIdWasUnknown
  <1>1. ASSUME IInv, NEW e \in Entity, generateEntity(e)
        PROVE  getEntityState(e) = "Unknown" \/ removedEntities[e[1]] = MaxVersion
    <2>1. CASE recycleEntity(e)
      BY <1>1, <2>1 DEF recycleEntity, Recyclable, getEntityState, Has, IInv, TypeOK, Entity,
         Versions, Absent
    <2>2. CASE generateNewEntity(e)
      <3>1. PICK n \in UnusedNumbers : e = NextIdOf(n)
        BY <2>2 DEF generateNewEntity
      <3>2. n \in Numbers /\ n >= entityCounter /\ e \notin usedEntities
        BY <1>1, <3>1, ContainerAssumption DEF UnusedNumbers, Numbers, IInv, TypeOK
      <3>3. /\ e[1] = n
            /\ removedEntities[n] # MaxVersion => removedEntities[n] < e[2]
        BY <1>1, <3>1, <3>2, NextId DEF IInv
      <3>4. ~isReservedEntity(e)
        BY <1>1, <3>2, <3>3, ContainerAssumption DEF isReservedEntity, Numbers, IInv, TypeOK, CounterOK
      <3>5. removedEntities[n] \in Int /\ e[2] \in Int
        BY <1>1, <3>2 DEF IInv, TypeOK, Entity, Versions, Absent
      <3> QED
        BY <3>2, <3>3, <3>4, <3>5 DEF getEntityState, Has
    <2> QED
      BY <1>1, <2>1, <2>2 DEF generateEntity
  <1>2. IInv /\ [Next]_vars => [\A e \in Entity :
           generateEntity(e) => \/ getEntityState(e) = "Unknown"
                                \/ removedEntities[e[1]] = MaxVersion]_vars
    BY <1>1
  <1> QED
    BY <1>2, IInvHolds, PTL DEF Spec, GeneratedIdWasUnknown

(* The integer per number implements a grow-only, version-closed set of    *)
(* ids: no step of the allocator ever forgets a tombstone.                 *)
THEOREM TombstonesAreGrowOnly == Spec => TombstonesRefineGrowOnlySet
  <1>1. Init => Abstract!Init
    BY ContainerAssumption
    DEF Init, Abstract!Init, Tombstones, Has, EmptyGSet, Absent, Entity, Versions
  <1>2. ASSUME IInv, [Next]_vars
        PROVE  [Abstract!Add]_Tombstones
    <2>1. /\ removedEntities \in [Numbers -> Versions \cup {Absent}]
          /\ removedEntities' \in [Numbers -> Versions \cup {Absent}]
          /\ \A n \in Numbers : removedEntities'[n] >= removedEntities[n]
      BY <1>2, TombstonesGrow DEF IInv, TypeOK
    <2>2. Tombstones \subseteq Tombstones' /\ Tombstones' \in SUBSET Entity
      BY <2>1 DEF Tombstones, Has, Entity, Versions, Absent
    <2>3. Abstract!IsDownClosed(Tombstones)'
      BY <2>1 DEF Tombstones, Has, Abstract!IsDownClosed, Abstract!UpTo, Entity, Versions, Absent
    <2> QED
      BY <2>2, <2>3 DEF Abstract!Add
  <1> QED
    BY <1>1, <1>2, IInvHolds, PTL DEF Spec, TombstonesRefineGrowOnlySet, Abstract!Spec
=============================================================================
