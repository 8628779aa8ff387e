-------------------------- MODULE NetworkSyncProofs --------------------------
(***************************************************************************)
(* Proofs about NetworkSync.                                               *)
(*                                                                         *)
(* An engine is Good when what it maps is well formed: each local id maps  *)
(* to at most one key and each key to at most one local id, nothing is     *)
(* known of an id not yet handed out, and every key was given out by its   *)
(* creator.  The last is relative to the counters of all the creators, the *)
(* function next, which only grows; so it holds of messages on their way   *)
(* too, and a client that takes its next id for a key can conclude that no *)
(* engine and no message has that key already.                             *)
(***************************************************************************)
EXTENDS NetworkSync, SequenceFacts

Counters == [Clients -> Nat]

(* Creator k[1] has given out k.                                           *)
Given(k, next) == k[2] < next[k[1]]

Sound(m, next) ==
  /\ m \in NetworkMessages /\ Given(m.key, next)
  /\ (m.type = "COMPONENT" /\ m.component = "NetworkEntity") => m.content = m.key

Good(g, next) ==
  /\ g \in EngineStates
  /\ \A e \in Ids : e >= g.nextEntity => Unused(g, e)
  /\ \A e, f \in Ids : /\ g.data["NetworkEntity"][e] # None
                       /\ g.data["NetworkEntity"][e] = g.data["NetworkEntity"][f]
                       => e = f
  /\ \A e \in Ids : g.data["NetworkEntity"][e] = None => g.data["SyncComponents"][e] = None
  /\ \A e \in Ids : g.data["NetworkEntity"][e] # None => Given(g.data["NetworkEntity"][e], next)

NextOf(states) == [c \in Clients |-> states[c].nextEntity]
-----------------------------------------------------------------------------
(* The parts of an engine's state, and those of a message.                 *)
LEMMA EngineParts ==
  ASSUME NEW g \in EngineStates
  PROVE  /\ g.nextEntity \in 1 .. MaxEntity + 1 /\ g.nextEntity \in Nat
         /\ g.removed \in SUBSET Ids /\ g.dirty \in SUBSET (Components \X Ids)
         /\ g.data \in DataMaps /\ g.lastSent \in DataMaps
         /\ g.timestamps \in [Components -> [Ids -> Nat]]
         /\ g.data["Value"] \in [Ids -> {None} \cup Values]
         /\ g.data["NetworkEntity"] \in [Ids -> {None} \cup Keys]
         /\ g.data["SyncComponents"] \in [Ids -> {None, SyncList}]
         /\ \A x \in Components : g.timestamps[x] \in [Ids -> Nat]
  BY NetworkAssumption DEF EngineStates, DataMaps, Components

LEMMA MessageParts ==
  ASSUME NEW m \in NetworkMessages
  PROVE  /\ m.key \in Keys /\ m.type \in {"COMPONENT", "DELETE_ENTITY"}
         /\ m.type = "COMPONENT" =>
              /\ m.component \in Components /\ m.timestamp \in Nat
              /\ m.component = "Value" => m.content \in {None} \cup Values
              /\ m.component = "NetworkEntity" => m.content \in {None} \cup Keys
              /\ m.component = "SyncComponents" => m.content \in {None, SyncList}
  BY DEF NetworkMessages, Puts, Components

(* What may be stored in a component.                                      *)
Fits(x, v) ==
  /\ x = "Value" => v \in {None} \cup Values
  /\ x = "NetworkEntity" => v \in {None} \cup Keys
  /\ x = "SyncComponents" => v \in {None, SyncList}

LEMMA Stored ==
  ASSUME NEW d \in DataMaps, NEW x \in Components, NEW e \in Ids, NEW v, Fits(x, v)
  PROVE  [d EXCEPT ![x][e] = v] \in DataMaps
  BY DEF DataMaps, Components, Fits
-----------------------------------------------------------------------------
(* The operations of an engine, field by field.                            *)
Replacement(g, x, e, v, h) ==
  /\ h \in EngineStates
  /\ h.nextEntity = g.nextEntity /\ h.removed = g.removed /\ h.timestamps = g.timestamps
  /\ h.dirty = g.dirty \cup {<<x, e>>}
  /\ \A y \in Components, f \in Ids :
       /\ h.data[y][f] = IF y = x /\ f = e THEN v ELSE g.data[y][f]
       /\ h.lastSent[y][f] = IF y = x /\ f = e THEN None ELSE g.lastSent[y][f]

LEMMA CreateOrReplaceFields ==
  ASSUME NEW g \in EngineStates, NEW x \in Components, NEW e \in Ids, NEW v, Fits(x, v)
  PROVE  Replacement(g, x, e, v, createOrReplace(g, x, e, v))
  <1> DEFINE h == createOrReplace(g, x, e, v)
             data == [g.data EXCEPT ![x][e] = v]
             lastSent == [g.lastSent EXCEPT ![x][e] = None]
             dirty == g.dirty \cup {<<x, e>>}
  <1>1. h = [g EXCEPT !.data = data, !.dirty = dirty, !.lastSent = lastSent]
    BY DEF createOrReplace, EngineStates
  <1>2. data \in DataMaps /\ lastSent \in DataMaps
    <2>1. Fits(x, None)
      BY DEF Fits
    <2> QED
      BY <2>1, Stored, EngineParts
  <1>3. dirty \in SUBSET (Components \X Ids)
    BY EngineParts
  <1>4. \A y \in Components, f \in Ids :
          /\ data[y][f] = IF y = x /\ f = e THEN v ELSE g.data[y][f]
          /\ lastSent[y][f] = IF y = x /\ f = e THEN None ELSE g.lastSent[y][f]
    BY DEF EngineStates, DataMaps, Components
  <1> HIDE DEF h, data, lastSent, dirty
  <1>5. /\ h \in EngineStates /\ h.nextEntity = g.nextEntity /\ h.removed = g.removed
        /\ h.timestamps = g.timestamps
        /\ h.data = data /\ h.lastSent = lastSent /\ h.dirty = dirty
    BY <1>1, <1>2, <1>3 DEF EngineStates
  <1> QED
    BY <1>4, <1>5 DEF Replacement, h, dirty

Deletion(g, xs, es, h) ==
  /\ h \in EngineStates
  /\ h.nextEntity = g.nextEntity /\ h.removed = g.removed /\ h.timestamps = g.timestamps
  /\ h.dirty = g.dirty \cup {p \in xs \X es : g.data[p[1]][p[2]] # None}
  /\ \A x \in Components, e \in Ids :
       /\ h.data[x][e] = IF x \in xs /\ e \in es THEN None ELSE g.data[x][e]
       /\ h.lastSent[x][e] = IF x \in xs /\ e \in es THEN None ELSE g.lastSent[x][e]

LEMMA DeleteDataFields ==
  ASSUME NEW g \in EngineStates, NEW xs \in SUBSET Components, NEW es \in SUBSET Ids
  PROVE  Deletion(g, xs, es, deleteData(g, xs, es))
  <1> DEFINE h == deleteData(g, xs, es)
             Rest(d) == [x \in Components |-> [e \in Ids |->
                           IF x \in xs /\ e \in es THEN None ELSE d[x][e]]]
             gone == {p \in xs \X es : g.data[p[1]][p[2]] # None}
  <1>1. h = [g EXCEPT !.data = Rest(g.data), !.lastSent = Rest(g.lastSent), !.dirty = g.dirty \cup gone]
    BY DEF deleteData, EngineStates
  <1>2. Rest(g.data) \in DataMaps /\ Rest(g.lastSent) \in DataMaps
    <2>1. g.data \in DataMaps /\ g.lastSent \in DataMaps
      BY EngineParts
    <2>2. ASSUME NEW d \in DataMaps PROVE Rest(d) \in DataMaps
      BY DEF DataMaps, Components
    <2> HIDE DEF Rest
    <2> QED
      BY <2>1, <2>2
  <1>3. g.dirty \cup gone \in SUBSET (Components \X Ids)
    BY EngineParts
  <1>4. \A d : \A x \in Components, e \in Ids :
          Rest(d)[x][e] = IF x \in xs /\ e \in es THEN None ELSE d[x][e]
    OBVIOUS
  <1> HIDE DEF h, Rest, gone
  <1>5. /\ h \in EngineStates
        /\ h.nextEntity = g.nextEntity /\ h.removed = g.removed /\ h.dirty = g.dirty \cup gone
        /\ h.timestamps = g.timestamps
        /\ h.data = Rest(g.data) /\ h.lastSent = Rest(g.lastSent)
    BY <1>1, <1>2, <1>3 DEF EngineStates
  <1> QED
    BY <1>4, <1>5 DEF h, gone, Deletion

LEMMA UpdateFields ==
  ASSUME NEW g \in EngineStates, NEW e \in Ids, NEW m \in NetworkMessages, m.type = "COMPONENT"
  PROVE  LET h == updateFromCrdt(g, e, m)
         IN  /\ h \in EngineStates
             /\ h.nextEntity = g.nextEntity /\ h.removed = g.removed /\ h.dirty = g.dirty
             /\ Wins(g, e, m) => /\ h.data = [g.data EXCEPT ![m.component][e] = m.content]
                                /\ h.lastSent = [g.lastSent EXCEPT ![m.component][e] = m.content]
                                /\ h.timestamps =
                                     [g.timestamps EXCEPT ![m.component][e] = m.timestamp]
             /\ ~Wins(g, e, m) => h = g
  <1> DEFINE h == updateFromCrdt(g, e, m)
             x == m.component
             v == m.content
             ts == m.timestamp
  <1>1. x \in Components /\ ts \in Nat /\ Fits(x, v)
    BY MessageParts DEF Fits
  <1>2. CASE ~Wins(g, e, m)
    BY <1>2 DEF updateFromCrdt
  <1>3. CASE Wins(g, e, m)
    <2>1. h = [g EXCEPT !.data[x][e] = v, !.lastSent[x][e] = v, !.timestamps[x][e] = ts]
      BY <1>3 DEF updateFromCrdt
    <2> HIDE DEF h, x, v, ts
    <2>2. /\ [g.data EXCEPT ![x][e] = v] \in DataMaps /\ [g.lastSent EXCEPT ![x][e] = v] \in DataMaps
          /\ [g.timestamps EXCEPT ![x][e] = ts] \in [Components -> [Ids -> Nat]]
      BY <1>1, Stored, EngineParts
    <2>3. /\ h \in EngineStates
          /\ h.nextEntity = g.nextEntity /\ h.removed = g.removed /\ h.dirty = g.dirty
          /\ h.data = [g.data EXCEPT ![x][e] = v]
          /\ h.lastSent = [g.lastSent EXCEPT ![x][e] = v]
          /\ h.timestamps = [g.timestamps EXCEPT ![x][e] = ts]
      BY <2>1, <2>2 DEF EngineStates
    <2> QED
      BY <1>3, <2>3 DEF h, x, v, ts
  <1> QED
    BY <1>2, <1>3

Won(g, e, m, x, h) ==
  /\ h.removed = g.removed /\ h.dirty = g.dirty
  /\ h.data = [g.data EXCEPT ![x][e] = m.content]
  /\ h.lastSent = [g.lastSent EXCEPT ![x][e] = m.content]
  /\ h.timestamps = [g.timestamps EXCEPT ![x][e] = m.timestamp]

LEMMA WinningUpdate ==
  ASSUME NEW g \in EngineStates, NEW e \in Ids, NEW m \in NetworkMessages, m.type = "COMPONENT",
         Wins(g, e, m), NEW x, x = m.component, NEW h, h = updateFromCrdt(g, e, m)
  PROVE  Won(g, e, m, x, h)
  BY UpdateFields DEF Won

LEMMA FlushedFields ==
  ASSUME NEW g \in EngineStates
  PROVE  LET h == Flushed(g)
         IN  /\ h \in EngineStates
             /\ h.nextEntity = g.nextEntity /\ h.removed = g.removed /\ h.dirty = {}
             /\ h.data = g.data
             /\ \A x \in Components, e \in Ids :
                  /\ h.timestamps[x][e] = g.timestamps[x][e] + IF e \in ToSend(g, x) THEN 1 ELSE 0
                  /\ h.lastSent[x][e] = IF e \in ToSend(g, x) THEN g.data[x][e] ELSE g.lastSent[x][e]
  <1> DEFINE h == Flushed(g)
             times == [x \in Components |-> [e \in Ids |->
                         g.timestamps[x][e] + IF e \in ToSend(g, x) THEN 1 ELSE 0]]
             sent == [x \in Components |-> [e \in Ids |->
                         IF e \in ToSend(g, x) THEN g.data[x][e] ELSE g.lastSent[x][e]]]
  <1>1. h = [g EXCEPT !.dirty = {}, !.timestamps = times, !.lastSent = sent]
    BY DEF Flushed, EngineStates
  <1>2. times \in [Components -> [Ids -> Nat]]
    BY EngineParts
  <1>3. sent \in DataMaps
    <2>1. g.data \in DataMaps /\ g.lastSent \in DataMaps
      BY EngineParts
    <2> QED
      BY <2>1 DEF DataMaps, Components
  <1>4. \A x \in Components, e \in Ids :
          /\ times[x][e] = g.timestamps[x][e] + IF e \in ToSend(g, x) THEN 1 ELSE 0
          /\ sent[x][e] = IF e \in ToSend(g, x) THEN g.data[x][e] ELSE g.lastSent[x][e]
    OBVIOUS
  <1> HIDE DEF h, times, sent
  <1>5. /\ h \in EngineStates
        /\ h.nextEntity = g.nextEntity /\ h.removed = g.removed /\ h.dirty = {}
        /\ h.data = g.data /\ h.timestamps = times /\ h.lastSent = sent
    BY <1>1, <1>2, <1>3 DEF EngineStates
  <1> QED
    BY <1>4, <1>5 DEF h
-----------------------------------------------------------------------------
(* Operations keep an engine good.                                         *)
LEMMA NothingAtFresh ==
  ASSUME NEW g, NEW next, Good(g, next), NEW e \in Ids, e >= g.nextEntity
  PROVE  /\ e \notin g.removed /\ g.data["Value"][e] = None /\ g.data["NetworkEntity"][e] = None
         /\ g.data["SyncComponents"][e] = None
  BY DEF Good, Unused, Components

(* A key that is mapped has one local id; another gets the next id.        *)
LEMMA LocalIdIsMapped ==
  ASSUME NEW g, NEW next, Good(g, next), NEW k \in Keys, Mapped(g, k) # {}
  PROVE  /\ LocalId(g, k) \in Ids /\ LocalId(g, k) < g.nextEntity
         /\ g.data["NetworkEntity"][LocalId(g, k)] = k
  <1> DEFINE e == LocalId(g, k)
  <1>1. e \in Mapped(g, k)
    BY DEF LocalId
  <1>2. e \in Ids /\ g.data["NetworkEntity"][e] = k
    BY <1>1 DEF Mapped
  <1>3. e < g.nextEntity
    <2>1. g.data["NetworkEntity"][e] # None
      BY <1>2, NetworkAssumption
    <2>2. g.nextEntity \in Nat /\ e \in Nat
      BY <1>2, EngineParts, NetworkAssumption DEF Good, Ids
    <2> HIDE DEF e
    <2> QED
      BY <1>2, <2>1, <2>2, NothingAtFresh
  <1> QED
    BY <1>2, <1>3

Mapping(g, k, e, h) ==
  /\ e \in Ids /\ e < h.nextEntity /\ g.nextEntity <= h.nextEntity
  /\ h.removed = g.removed /\ h.timestamps = g.timestamps
  /\ h.dirty \subseteq g.dirty \cup {<<"NetworkEntity", e>>}
  /\ \/ g.data["NetworkEntity"][e] = k
     \/ g.data["NetworkEntity"][e] = None /\ g.data["Value"][e] = None
  /\ \A f \in Ids :
       /\ h.data["NetworkEntity"][f] = IF f = e THEN k ELSE g.data["NetworkEntity"][f]
       /\ h.data["Value"][f] = g.data["Value"][f]
       /\ h.data["SyncComponents"][f] = g.data["SyncComponents"][f]
       /\ h.lastSent["Value"][f] = g.lastSent["Value"][f]

LEMMA MapKeyGood ==
  ASSUME NEW next \in Counters, NEW g, Good(g, next), NEW k \in Keys, Given(k, next),
         mapKey(g, k).nextEntity <= MaxEntity + 1
  PROVE  Good(mapKey(g, k), next) /\ Mapping(g, k, LocalId(g, k), mapKey(g, k))
  <1> DEFINE e == LocalId(g, k)
             h == mapKey(g, k)
             N == "NetworkEntity"
  <1>1. g \in EngineStates /\ k # None
    BY NetworkAssumption DEF Good
  <1>2. CASE Mapped(g, k) # {}
    <2>1. h = g
      BY <1>2 DEF mapKey
    <2>2. e \in Ids /\ e < g.nextEntity /\ g.data[N][e] = k
      BY <1>2, LocalIdIsMapped
    <2>3. g.nextEntity <= g.nextEntity
      BY <1>1, EngineParts
    <2> HIDE DEF h, e
    <2> QED
      BY <2>1, <2>2, <2>3 DEF h, e, Mapping
  <1>3. CASE Mapped(g, k) = {}
    <2> DEFINE raised == [g EXCEPT !.nextEntity = @ + 1]
    <2>1. e = g.nextEntity /\ h = createOrReplace(raised, N, e, k)
      BY <1>3 DEF LocalId, mapKey, mapKeyAlways
    <2> HIDE DEF e, h
    <2>2. /\ raised.nextEntity = e + 1 /\ raised.removed = g.removed /\ raised.dirty = g.dirty
          /\ raised.data = g.data /\ raised.lastSent = g.lastSent /\ raised.timestamps = g.timestamps
      BY <1>1, <2>1 DEF EngineStates
    <2>3. h.nextEntity = e + 1
      BY <1>1, <2>1, <2>2 DEF createOrReplace, EngineStates
    <2>4. e \in Ids /\ e \in Nat /\ e + 1 \in 1 .. MaxEntity + 1
      BY <1>1, <2>1, <2>3, EngineParts, NetworkAssumption DEF Ids, h
    <2>5. raised \in EngineStates
      BY <1>1, <2>1, <2>4 DEF EngineStates
    <2> HIDE DEF raised
    <2>6. Replacement(raised, N, e, k, h)
      BY <2>1, <2>4, <2>5, CreateOrReplaceFields DEF Fits, Components
    <2>7. /\ h \in EngineStates /\ h.removed = g.removed /\ h.timestamps = g.timestamps
          /\ h.dirty = g.dirty \cup {<<N, e>>}
          /\ \A f \in Ids :
               /\ h.data[N][f] = IF f = e THEN k ELSE g.data[N][f]
               /\ h.data["Value"][f] = g.data["Value"][f]
               /\ h.data["SyncComponents"][f] = g.data["SyncComponents"][f]
               /\ h.lastSent["Value"][f] = g.lastSent["Value"][f]
      BY <2>2, <2>6 DEF Replacement, Components
    <2>8. \A f \in Ids : g.data[N][f] # k
      BY <1>3 DEF Mapped
    <2>9. Good(h, next)
      <3>1. \A f \in Ids : f >= h.nextEntity => Unused(h, f)
        <4>1. SUFFICES ASSUME NEW f \in Ids, f >= h.nextEntity PROVE Unused(h, f)
          OBVIOUS
        <4>2. f >= g.nextEntity /\ f # e
          <5>1. f \in Nat /\ f >= e + 1
            BY <2>3, <4>1, NetworkAssumption DEF Ids
          <5> QED
            BY <2>1, <2>4, <5>1
        <4> QED
          BY <2>7, <4>2, NothingAtFresh DEF Unused, Components
      <3>2. \A f1, f2 \in Ids : h.data[N][f1] # None /\ h.data[N][f1] = h.data[N][f2] => f1 = f2
        BY <2>7, <2>8 DEF Good
      <3>3. \A f \in Ids : h.data[N][f] = None => h.data["SyncComponents"][f] = None
        BY <2>7, <1>1 DEF Good
      <3>4. \A f \in Ids : h.data[N][f] # None => Given(h.data[N][f], next)
        BY <2>7 DEF Good
      <3> QED
        BY <2>7, <3>1, <3>2, <3>3, <3>4 DEF Good
    <2>10. e < h.nextEntity /\ g.nextEntity <= h.nextEntity
      BY <2>1, <2>3, <2>4
    <2>11. g.data[N][e] = None /\ g.data["Value"][e] = None
      <3>1. e >= g.nextEntity
        BY <2>1, <2>4
      <3> QED
        BY <2>4, <3>1, NothingAtFresh
    <2> QED
      BY <2>4, <2>7, <2>9, <2>10, <2>11 DEF e, h, Mapping
  <1> QED
    BY <1>2, <1>3

LEMMA UpdateGood ==
  ASSUME NEW next \in Counters, NEW g, Good(g, next), NEW m, Sound(m, next), m.type = "COMPONENT",
         NEW e \in Ids, g.data["NetworkEntity"][e] = m.key, e < g.nextEntity
  PROVE  LET h == updateFromCrdt(g, e, m)
         IN  /\ Good(h, next) /\ h.data["NetworkEntity"] = g.data["NetworkEntity"]
             /\ h.nextEntity = g.nextEntity
  <1> DEFINE h == updateFromCrdt(g, e, m)
             N == "NetworkEntity"
  <1>1. g \in EngineStates /\ m \in NetworkMessages /\ m.key # None /\ m.key \in Keys
    BY MessageParts, NetworkAssumption DEF Good, Sound
  <1>2. CASE ~Wins(g, e, m)
    BY <1>2 DEF updateFromCrdt
  <1>3. CASE Wins(g, e, m)
    <2>1. /\ h \in EngineStates /\ h.nextEntity = g.nextEntity /\ h.removed = g.removed
          /\ h.data = [g.data EXCEPT ![m.component][e] = m.content]
      BY <1>1, <1>3, UpdateFields, ZenonT(60)
    <2> HIDE DEF h
    <2>2. m.component \in Components
      BY <1>1, MessageParts
    <2>3. \A x \in Components, f \in Ids :
            h.data[x][f] = IF x = m.component /\ f = e THEN m.content ELSE g.data[x][f]
      BY <1>1, <2>1, <2>2 DEF EngineStates, DataMaps, Components
    <2>4. \A f \in Ids : h.data[N][f] = g.data[N][f]
      BY <2>3 DEF Components, Sound
    <2>5. h.data[N] = g.data[N]
      BY <1>1, <2>1, <2>4, EngineParts
    <2>6. \A f \in Ids : f >= h.nextEntity => Unused(h, f)
      <3>1. SUFFICES ASSUME NEW f \in Ids, f >= h.nextEntity PROVE Unused(h, f)
        OBVIOUS
      <3>2. f # e /\ Unused(g, f)
        BY <1>1, <2>1, <3>1, EngineParts, NetworkAssumption DEF Good, Ids
      <3> QED
        BY <2>1, <2>3, <3>2 DEF Unused
    <2>7. \A f \in Ids : h.data[N][f] = None => h.data["SyncComponents"][f] = None
      <3>1. SUFFICES ASSUME NEW f \in Ids, g.data[N][f] = None PROVE h.data["SyncComponents"][f] = None
        BY <2>4
      <3>2. f # e /\ g.data["SyncComponents"][f] = None
        BY <1>1, <3>1 DEF Good
      <3> QED
        BY <2>3, <3>2 DEF Components
    <2> QED
      BY <2>1, <2>5, <2>6, <2>7 DEF Good, h
  <1> QED
    BY <1>2, <1>3
-----------------------------------------------------------------------------
(* What is processed keeps its fields, whether or not ids run out, and the *)
(* counter never goes back: if ids suffice at the end, they did all along. *)
Shaped(g) ==
  /\ DOMAIN g = {"nextEntity", "removed", "dirty", "data", "timestamps", "lastSent"}
  /\ g.nextEntity \in Nat

StageShaped(st) == DOMAIN st = {"engine", "toClean"} /\ Shaped(st.engine)

LEMMA MapKeyShaped ==
  ASSUME NEW g, Shaped(g), NEW k
  PROVE  Shaped(mapKey(g, k)) /\ g.nextEntity <= mapKey(g, k).nextEntity
  BY DEF Shaped, mapKey, mapKeyAlways, createOrReplace

LEMMA UpdateShaped ==
  ASSUME NEW g, Shaped(g), NEW e, NEW m
  PROVE  Shaped(updateFromCrdt(g, e, m)) /\ updateFromCrdt(g, e, m).nextEntity = g.nextEntity
  BY DEF Shaped, updateFromCrdt

LEMMA ReceiveShaped ==
  ASSUME NEW st, StageShaped(st), NEW m
  PROVE  /\ StageShaped(Receive(st, m))
         /\ st.engine.nextEntity <= Receive(st, m).engine.nextEntity
         /\ Receive(st, m).engine.nextEntity = mapKey(st.engine, m.key).nextEntity
         /\ Receive(st, m).toClean =
              IF m.type = "DELETE_ENTITY" THEN st.toClean \cup {LocalId(st.engine, m.key)}
              ELSE st.toClean
         /\ Receive(st, m).engine =
              IF /\ m.type # "DELETE_ENTITY"
                 /\ LocalId(st.engine, m.key) \in Live(mapKey(st.engine, m.key))
              THEN updateFromCrdt(mapKey(st.engine, m.key), LocalId(st.engine, m.key), m)
              ELSE mapKey(st.engine, m.key)
  <1> DEFINE e == LocalId(st.engine, m.key)
             g == mapKey(st.engine, m.key)
             h == updateFromCrdt(g, e, m)
             live == e \in Live(g)
  <1>1. Shaped(g) /\ st.engine.nextEntity <= g.nextEntity
    BY MapKeyShaped DEF StageShaped
  <1>2. Shaped(h) /\ h.nextEntity = g.nextEntity
    BY <1>1, UpdateShaped
  <1>3. Receive(st, m) = IF m.type = "DELETE_ENTITY" THEN [engine |-> g, toClean |-> st.toClean \cup {e}]
                         ELSE [st EXCEPT !.engine = IF live THEN h ELSE g]
    BY DEF Receive
  <1> HIDE DEF e, g, h, live
  <1>4. /\ DOMAIN Receive(st, m) = {"engine", "toClean"}
        /\ Receive(st, m).toClean = IF m.type = "DELETE_ENTITY" THEN st.toClean \cup {e} ELSE st.toClean
        /\ Receive(st, m).engine = IF m.type # "DELETE_ENTITY" /\ live THEN h ELSE g
    BY <1>3 DEF StageShaped
  <1> QED
    BY <1>1, <1>2, <1>4 DEF StageShaped, e, g, h, live

LEMMA ReceiveKeepsShape ==
  ASSUME NEW st, StageShaped(st), NEW m, NEW st2, st2 = Receive(st, m)
  PROVE  StageShaped(st2) /\ st.engine.nextEntity <= st2.engine.nextEntity
  BY ReceiveShaped

LEMMA GoodIsShaped ==
  ASSUME NEW g, NEW next, Good(g, next)
  PROVE  Shaped(g)
  BY EngineParts DEF Good, Shaped, EngineStates

(* One message.                                                            *)
GoodStage(st, next) ==
  /\ StageShaped(st) /\ Good(st.engine, next) /\ st.toClean \in SUBSET Ids
  /\ \A e \in st.toClean : e < st.engine.nextEntity

LEMMA ReceiveGood ==
  ASSUME NEW next \in Counters, NEW st, GoodStage(st, next), NEW m, Sound(m, next),
         Receive(st, m).engine.nextEntity <= MaxEntity + 1
  PROVE  GoodStage(Receive(st, m), next)
  <1> DEFINE e == LocalId(st.engine, m.key)
             g == mapKey(st.engine, m.key)
             new == Receive(st, m)
  <1>1. m \in NetworkMessages /\ m.key \in Keys /\ Given(m.key, next) /\ m.type \in {"COMPONENT", "DELETE_ENTITY"}
    BY MessageParts DEF Sound
  <1>2. /\ StageShaped(new) /\ new.engine.nextEntity = g.nextEntity
        /\ new.toClean = IF m.type = "DELETE_ENTITY" THEN st.toClean \cup {e} ELSE st.toClean
        /\ new.engine = IF m.type # "DELETE_ENTITY" /\ e \in Live(g)
                        THEN updateFromCrdt(g, e, m) ELSE g
    BY ReceiveShaped DEF GoodStage
  <1>3. Good(g, next) /\ Mapping(st.engine, m.key, e, g)
    BY <1>1, <1>2, MapKeyGood DEF GoodStage
  <1>4. /\ e \in Ids /\ e < g.nextEntity /\ st.engine.nextEntity <= g.nextEntity
        /\ g.data["NetworkEntity"][e] = m.key
    BY <1>3 DEF Mapping
  <1> HIDE DEF e, g, new
  <1>5. Good(new.engine, next)
    <2>1. CASE m.type # "DELETE_ENTITY" /\ e \in Live(g)
      <3>1. m.type = "COMPONENT" /\ new.engine = updateFromCrdt(g, e, m)
        BY <1>1, <1>2, <2>1
      <3>2. Good(updateFromCrdt(g, e, m), next)
        BY <1>3, <1>4, <3>1, UpdateGood
      <3> QED
        BY <3>1, <3>2
    <2>2. CASE ~(m.type # "DELETE_ENTITY" /\ e \in Live(g))
      BY <1>2, <1>3, <2>2
    <2> QED
      BY <2>1, <2>2
  <1>6. \A f \in new.toClean : f \in Ids /\ f < new.engine.nextEntity
    <2>1. SUFFICES ASSUME NEW f \in st.toClean PROVE f \in Ids /\ f < new.engine.nextEntity
      BY <1>2, <1>4
    <2>2. f \in Nat /\ f < st.engine.nextEntity /\ f \in Ids
      BY NetworkAssumption DEF GoodStage, Ids
    <2>3. st.engine.nextEntity \in Nat /\ g.nextEntity \in Nat
      BY <1>3, EngineParts DEF GoodStage, Good
    <2> QED
      BY <1>2, <1>4, <2>2, <2>3
  <1> QED
    BY <1>2, <1>5, <1>6 DEF GoodStage, new

(* The recursion of Processed, unfolded.                                   *)
LEMMA ProcessedSteps ==
  ASSUME NEW g0, NEW messages, Len(messages) \in Nat
  PROVE  \E after : /\ after[0] = [engine |-> g0, toClean |-> {}]
                    /\ \A i \in 1 .. Len(messages) : after[i] = Receive(after[i - 1], messages[i])
                    /\ Processed(g0, messages) = after[Len(messages)]
  <1> DEFINE n == Len(messages)
             st0 == [engine |-> g0, toClean |-> {}]
             Is(f, k) == f = [i \in 0 .. k |->
                                IF i = 0 THEN st0 ELSE Receive(f[i - 1], messages[i])]
             Defined == {k \in Nat : \E f : Is(f, k)}
  <1>1. 0 \in Defined
    <2>1. Is([i \in 0 .. 0 |-> st0], 0)
      OBVIOUS
    <2> QED
      BY <2>1
  <1>2. ASSUME NEW k \in Nat, k \in Defined PROVE k + 1 \in Defined
    <2>1. PICK f : Is(f, k)
      BY <1>2
    <2> DEFINE g == [i \in 0 .. k + 1 |->
                      IF i = k + 1 THEN Receive(f[k], messages[k + 1]) ELSE f[i]]
    <2>2. \A i \in 0 .. k : g[i] = f[i]
      OBVIOUS
    <2>3. ASSUME NEW i \in 0 .. k + 1
          PROVE  g[i] = IF i = 0 THEN st0 ELSE Receive(g[i - 1], messages[i])
      <3>1. CASE i = k + 1
        BY <3>1
      <3>2. CASE i # k + 1
        <4>1. i \in 0 .. k /\ (i # 0 => i - 1 \in 0 .. k)
          BY <3>2
        <4>2. f[i] = IF i = 0 THEN st0 ELSE Receive(f[i - 1], messages[i])
          BY <2>1, <4>1
        <4> QED
          BY <2>2, <4>1, <4>2
      <3> QED
        BY <3>1, <3>2
    <2>4. Is(g, k + 1)
      BY <2>3
    <2> HIDE DEF g, Is
    <2> QED
      BY <2>4
  <1>3. n \in Defined
    <2> HIDE DEF Defined
    <2> QED
      BY <1>1, <1>2, Induction
  <1> DEFINE after == CHOOSE f : Is(f, n)
  <1>4. Is(after, n)
    BY <1>3
  <1>5. Processed(g0, messages) = after[n]
    BY DEF Processed
  <1> HIDE DEF after, st0
  <1>6. /\ after[0] = st0
        /\ \A i \in 1 .. n : after[i] = Receive(after[i - 1], messages[i])
    BY <1>4
  <1> QED
    BY <1>5, <1>6 DEF st0

(* All messages of a packet, by induction over their number.               *)
LEMMA ProcessedGood ==
  ASSUME NEW next \in Counters, NEW g, Good(g, next), NEW messages \in Seq(NetworkMessages),
         \A i \in 1 .. Len(messages) : Sound(messages[i], next)
  PROVE  /\ StageShaped(Processed(g, messages))
         /\ g.nextEntity <= Processed(g, messages).engine.nextEntity
         /\ Processed(g, messages).engine.nextEntity <= MaxEntity + 1
              => GoodStage(Processed(g, messages), next)
  <1>1. Len(messages) \in Nat
    OBVIOUS
  <1>2. PICK after : /\ after[0] = [engine |-> g, toClean |-> {}]
                     /\ \A i \in 1 .. Len(messages) : after[i] = Receive(after[i - 1], messages[i])
                     /\ Processed(g, messages) = after[Len(messages)]
    BY <1>1, ProcessedSteps
  <1> DEFINE n == Len(messages)
             Reached == {i \in Nat : i <= n => /\ StageShaped(after[i])
                                             /\ g.nextEntity <= after[i].engine.nextEntity}
             Done == {i \in Nat : (i <= n /\ after[i].engine.nextEntity <= MaxEntity + 1)
                                   => GoodStage(after[i], next)}
  <1>3. StageShaped(after[0]) /\ GoodStage(after[0], next) /\ after[0].engine = g /\ g.nextEntity \in Nat
    BY <1>2, GoodIsShaped DEF StageShaped, GoodStage, Shaped
  <1>4. ASSUME NEW i \in Nat, i + 1 <= n
        PROVE  after[i + 1] = Receive(after[i], messages[i + 1]) /\ i + 1 \in 1 .. n
    BY <1>2, <1>4
  <1> HIDE DEF n
  <1>5. \A i \in Nat : i \in Reached
    <2>1. 0 \in Reached
      BY <1>3
    <2>2. ASSUME NEW i \in Nat, i \in Reached PROVE i + 1 \in Reached
      <3>1. SUFFICES ASSUME i + 1 <= n
                     PROVE  /\ StageShaped(after[i + 1])
                            /\ g.nextEntity <= after[i + 1].engine.nextEntity
        BY <2>2
      <3>2. StageShaped(after[i]) /\ g.nextEntity <= after[i].engine.nextEntity
        BY <1>1, <2>2, <3>1 DEF n
      <3>3. /\ StageShaped(after[i + 1])
            /\ after[i].engine.nextEntity <= after[i + 1].engine.nextEntity
        <4>1. after[i + 1] = Receive(after[i], messages[i + 1])
          BY <1>4, <3>1
        <4> QED
          BY <3>2, <4>1, ReceiveKeepsShape
      <3>4. after[i].engine.nextEntity \in Nat /\ after[i + 1].engine.nextEntity \in Nat
        BY <3>2, <3>3 DEF StageShaped, Shaped
      <3> QED
        BY <1>3, <3>2, <3>3, <3>4
    <2> HIDE DEF Reached
    <2> QED
      BY <2>1, <2>2, Induction
  <1>6. \A i \in Nat : i \in Done
    <2>1. 0 \in Done
      BY <1>3
    <2>2. ASSUME NEW i \in Nat, i \in Done PROVE i + 1 \in Done
      <3>1. SUFFICES ASSUME i + 1 <= n, after[i + 1].engine.nextEntity <= MaxEntity + 1
                     PROVE  GoodStage(after[i + 1], next)
        OBVIOUS
      <3>2. /\ i <= n /\ StageShaped(after[i]) /\ StageShaped(after[i + 1])
            /\ after[i + 1] = Receive(after[i], messages[i + 1]) /\ i + 1 \in 1 .. n
        BY <1>1, <1>4, <1>5, <3>1 DEF n
      <3>3. after[i].engine.nextEntity <= after[i + 1].engine.nextEntity
        BY <3>2, ReceiveKeepsShape
      <3>4. after[i].engine.nextEntity \in Nat /\ after[i + 1].engine.nextEntity \in Nat
        BY <3>2 DEF StageShaped, Shaped
      <3>5. after[i].engine.nextEntity <= MaxEntity + 1
        BY <3>1, <3>3, <3>4, NetworkAssumption
      <3>6. GoodStage(after[i], next)
        BY <2>2, <3>2, <3>5
      <3>7. Sound(messages[i + 1], next)
        BY <3>2 DEF n
      <3> QED
        BY <3>1, <3>2, <3>6, <3>7, ReceiveGood
    <2> HIDE DEF Done
    <2> QED
      BY <2>1, <2>2, Induction
  <1>7. n \in Nat /\ n <= n /\ Processed(g, messages) = after[n]
    BY <1>1, <1>2 DEF n
  <1> QED
    BY <1>5, <1>6, <1>7

LEMMA CleanedGood ==
  ASSUME NEW next \in Counters, NEW st, GoodStage(st, next)
  PROVE  Good(Cleaned(st), next) /\ Cleaned(st).nextEntity = st.engine.nextEntity
  <1> DEFINE g == st.engine
             d == deleteData(g, Components, st.toClean)
             h == Cleaned(st)
  <1>1. g \in EngineStates /\ st.toClean \in SUBSET Ids
    BY DEF GoodStage, Good
  <1>2. Deletion(g, Components, st.toClean, d)
    BY <1>1, DeleteDataFields
  <1>3. h = [d EXCEPT !.removed = d.removed \cup st.toClean]
    BY DEF Cleaned
  <1> HIDE DEF d, h
  <1>4. /\ h \in EngineStates /\ h.nextEntity = g.nextEntity /\ h.data = d.data
        /\ h.removed = g.removed \cup st.toClean
    <2>1. d.removed \cup st.toClean \in SUBSET Ids
      BY <1>1, <1>2, EngineParts DEF Deletion
    <2> QED
      BY <1>2, <1>3, <2>1 DEF EngineStates, Deletion
  <1>5. \A e \in Ids : e >= h.nextEntity => Unused(h, e)
    <2>1. SUFFICES ASSUME NEW e \in Ids, e >= h.nextEntity PROVE Unused(h, e)
      OBVIOUS
    <2>2. e \in Nat /\ g.nextEntity \in Nat
      BY <1>1, EngineParts, NetworkAssumption DEF Ids
    <2>3. Unused(g, e) /\ e \notin st.toClean
      BY <1>4, <2>1, <2>2 DEF GoodStage, Good
    <2> QED
      BY <1>2, <1>4, <2>3 DEF Unused, Deletion
  <1>6. "NetworkEntity" \in Components /\ "SyncComponents" \in Components
    BY DEF Components
  <1>7. /\ \A e, f \in Ids : /\ h.data["NetworkEntity"][e] # None
                            /\ h.data["NetworkEntity"][e] = h.data["NetworkEntity"][f]
                            => e = f
        /\ \A e \in Ids : h.data["NetworkEntity"][e] = None => h.data["SyncComponents"][e] = None
        /\ \A e \in Ids : h.data["NetworkEntity"][e] # None => Given(h.data["NetworkEntity"][e], next)
    BY <1>2, <1>4, <1>6 DEF GoodStage, Good, Deletion
  <1> QED
    BY <1>4, <1>5, <1>7 DEF Good, h

LEMMA FlushedGood ==
  ASSUME NEW next, NEW g, Good(g, next)
  PROVE  Good(Flushed(g), next) /\ Flushed(g).nextEntity = g.nextEntity
  <1> DEFINE h == Flushed(g)
  <1>1. h \in EngineStates /\ h.nextEntity = g.nextEntity /\ h.removed = g.removed /\ h.data = g.data
    BY FlushedFields DEF Good
  <1> HIDE DEF h
  <1>2. Good(h, next)
    BY <1>1 DEF Good, Unused
  <1> QED
    BY <1>1, <1>2 DEF h
-----------------------------------------------------------------------------
(* Counters that only grew.                                                *)
NoLess(next, later) == \A c \in Clients : next[c] <= later[c]

LEMMA GivenLater ==
  ASSUME NEW next \in Counters, NEW later \in Counters, NoLess(next, later), NEW k \in Keys,
         Given(k, next)
  PROVE  Given(k, later)
  <1>1. k[1] \in Clients /\ k[2] \in Nat
    BY NetworkAssumption DEF Keys, Ids
  <1>2. next[k[1]] \in Nat /\ later[k[1]] \in Nat /\ next[k[1]] <= later[k[1]]
    BY <1>1 DEF Counters, NoLess
  <1> QED
    BY <1>1, <1>2 DEF Given

LEMMA GoodLater ==
  ASSUME NEW next \in Counters, NEW later \in Counters, NoLess(next, later), NEW g, Good(g, next)
  PROVE  Good(g, later)
  <1>1. \A e \in Ids : g.data["NetworkEntity"][e] # None => g.data["NetworkEntity"][e] \in Keys
    BY EngineParts DEF Good
  <1>2. \A e \in Ids : g.data["NetworkEntity"][e] # None => Given(g.data["NetworkEntity"][e], later)
    BY <1>1, GivenLater DEF Good
  <1> QED
    BY <1>2 DEF Good

LEMMA SoundLater ==
  ASSUME NEW next \in Counters, NEW later \in Counters, NoLess(next, later), NEW m, Sound(m, next)
  PROVE  Sound(m, later)
  BY GivenLater, MessageParts DEF Sound

(* What scene code does to an engine.                                      *)
Created(g, c, v, h) ==
  /\ h \in EngineStates /\ g.nextEntity \in Ids /\ h.nextEntity = g.nextEntity + 1
  /\ h.removed = g.removed /\ h.timestamps = g.timestamps
  /\ h.dirty = g.dirty \cup (Components \X {g.nextEntity})
  /\ \A f \in Ids :
       /\ h.data["Value"][f] = IF f = g.nextEntity THEN v ELSE g.data["Value"][f]
       /\ h.data["NetworkEntity"][f] =
            IF f = g.nextEntity THEN <<c, f>> ELSE g.data["NetworkEntity"][f]
       /\ h.data["SyncComponents"][f] =
            IF f = g.nextEntity THEN SyncList ELSE g.data["SyncComponents"][f]
       /\ h.lastSent["Value"][f] = IF f = g.nextEntity THEN None ELSE g.lastSent["Value"][f]

LEMMA SyncEntityFields ==
  ASSUME NEW g \in EngineStates, NEW c \in Clients, NEW v \in Values,
         syncEntity(g, c, v).nextEntity <= MaxEntity + 1
  PROVE  Created(g, c, v, syncEntity(g, c, v))
  <1> DEFINE e == g.nextEntity
             raised == [g EXCEPT !.nextEntity = e + 1]
             created == createOrReplace(raised, "Value", e, v)
             named == createOrReplace(created, "NetworkEntity", e, <<c, e>>)
             h == createOrReplace(named, "SyncComponents", e, SyncList)
  <1>1. h = syncEntity(g, c, v)
    BY DEF syncEntity
  <1>2. h.nextEntity = e + 1
    BY DEF createOrReplace, EngineStates
  <1>3. e \in Ids /\ e + 1 \in 1 .. MaxEntity + 1
    BY <1>1, <1>2, EngineParts, NetworkAssumption DEF Ids
  <1>4. /\ raised \in EngineStates
        /\ raised.removed = g.removed /\ raised.dirty = g.dirty /\ raised.data = g.data
        /\ raised.lastSent = g.lastSent /\ raised.timestamps = g.timestamps
    BY <1>3 DEF EngineStates
  <1>5. /\ Fits("Value", v) /\ Fits("NetworkEntity", <<c, e>>) /\ Fits("SyncComponents", SyncList)
        /\ "Value" \in Components /\ "NetworkEntity" \in Components /\ "SyncComponents" \in Components
    BY <1>3 DEF Fits, Keys, Components
  <1> HIDE DEF e, raised
  <1>6. Replacement(raised, "Value", e, v, created)
    BY <1>3, <1>4, <1>5, CreateOrReplaceFields
  <1> HIDE DEF created
  <1>7. Replacement(created, "NetworkEntity", e, <<c, e>>, named)
    <2> DEFINE k == <<c, e>>
    <2>1. created \in EngineStates /\ Fits("NetworkEntity", k)
      BY <1>5, <1>6 DEF Replacement
    <2> HIDE DEF k
    <2>2. Replacement(created, "NetworkEntity", e, k, createOrReplace(created, "NetworkEntity", e, k))
      BY <1>3, <1>5, <2>1, CreateOrReplaceFields
    <2> QED
      BY <2>2 DEF k
  <1> HIDE DEF named
  <1>8. Replacement(named, "SyncComponents", e, SyncList, h)
    <2>1. named \in EngineStates
      BY <1>7 DEF Replacement
    <2> QED
      BY <1>3, <1>5, <2>1, CreateOrReplaceFields
  <1> HIDE DEF h
  <1>9. h.dirty = g.dirty \cup (Components \X {e})
    <2>1. h.dirty = g.dirty \cup {<<"Value", e>>, <<"NetworkEntity", e>>, <<"SyncComponents", e>>}
      BY <1>4, <1>6, <1>7, <1>8 DEF Replacement
    <2> QED
      BY <2>1 DEF Components
  <1>10. /\ h \in EngineStates /\ h.removed = g.removed /\ h.timestamps = g.timestamps
         /\ \A f \in Ids :
              /\ h.data["Value"][f] = IF f = e THEN v ELSE g.data["Value"][f]
              /\ h.data["NetworkEntity"][f] = IF f = e THEN <<c, e>> ELSE g.data["NetworkEntity"][f]
              /\ h.data["SyncComponents"][f] = IF f = e THEN SyncList ELSE g.data["SyncComponents"][f]
              /\ h.lastSent["Value"][f] = IF f = e THEN None ELSE g.lastSent["Value"][f]
    BY <1>4, <1>5, <1>6, <1>7, <1>8 DEF Replacement
  <1> QED
    BY <1>1, <1>2, <1>3, <1>9, <1>10 DEF e, Created

LEMMA SyncEntityGood ==
  ASSUME NEW next \in Counters, NEW later \in Counters, NoLess(next, later), NEW g, Good(g, next),
         NEW c \in Clients, next[c] <= g.nextEntity, NEW v \in Values,
         syncEntity(g, c, v).nextEntity <= MaxEntity + 1,
         later[c] = syncEntity(g, c, v).nextEntity
  PROVE  Good(syncEntity(g, c, v), later)
  <1> DEFINE e == g.nextEntity
             h == syncEntity(g, c, v)
             k == <<c, e>>
             N == "NetworkEntity"
  <1>1. Created(g, c, v, h)
    BY SyncEntityFields DEF Good
  <1>2. Good(g, later)
    BY GoodLater
  <1>3. k \in Keys /\ k # None /\ k[1] = c /\ k[2] = e
    BY <1>1, NetworkAssumption DEF Keys, Created
  <1>4. e \in Nat /\ next[c] \in Nat /\ Given(k, later)
    BY <1>1, <1>3, NetworkAssumption DEF Ids, Counters, Given, Created
  <1>5. \A f \in Ids : /\ h.data["Value"][f] = IF f = e THEN v ELSE g.data["Value"][f]
                       /\ h.data[N][f] = IF f = e THEN k ELSE g.data[N][f]
                       /\ h.data["SyncComponents"][f] =
                            IF f = e THEN SyncList ELSE g.data["SyncComponents"][f]
    BY <1>1 DEF Created
  <1>6. \A f \in Ids : g.data[N][f] # k
    <2>1. SUFFICES ASSUME NEW f \in Ids, g.data[N][f] = k PROVE FALSE
      OBVIOUS
    <2>2. Given(k, next)
      BY <1>3, <2>1 DEF Good
    <2> QED
      BY <1>3, <1>4, <2>2 DEF Given
  <1> HIDE DEF e, h, k
  <1>7. \A f \in Ids : f >= h.nextEntity => Unused(h, f)
    <2>1. SUFFICES ASSUME NEW f \in Ids, f >= h.nextEntity PROVE Unused(h, f)
      OBVIOUS
    <2>2. f \in Nat /\ f # e /\ f >= e
      BY <1>1, <1>4, <2>1, NetworkAssumption DEF Ids, Created, e
    <2> QED
      BY <1>1, <1>5, <2>2, NothingAtFresh DEF Unused, Components, e, Created
  <1>8. \A f1, f2 \in Ids : h.data[N][f1] # None /\ h.data[N][f1] = h.data[N][f2] => f1 = f2
    BY <1>5, <1>6 DEF Good
  <1>9. \A f \in Ids : h.data[N][f] = None => h.data["SyncComponents"][f] = None
    BY <1>3, <1>5 DEF Good
  <1>10. \A f \in Ids : h.data[N][f] # None => Given(h.data[N][f], later)
    BY <1>2, <1>4, <1>5 DEF Good
  <1> QED
    BY <1>1, <1>7, <1>8, <1>9, <1>10 DEF Good, h, Created

(* Operations that leave the keys alone.                                   *)
LEMMA KeptGood ==
  ASSUME NEW next, NEW g, Good(g, next), NEW h \in EngineStates, h.nextEntity = g.nextEntity,
         \A e \in Ids : h.data["NetworkEntity"][e] = g.data["NetworkEntity"][e],
         \A e \in Ids : h.data["SyncComponents"][e] \in {None, g.data["SyncComponents"][e]},
         \A e \in Ids : e >= g.nextEntity => e \notin h.removed /\ h.data["Value"][e] = None
  PROVE  Good(h, next)
  <1>1. \A e \in Ids : e >= h.nextEntity => Unused(h, e)
    BY NothingAtFresh DEF Unused, Components
  <1> QED
    BY <1>1 DEF Good

LEMMA DeleteDataGood ==
  ASSUME NEW next, NEW g, Good(g, next), NEW xs \in SUBSET {"Value", "SyncComponents"}, NEW e \in Ids
  PROVE  Good(deleteData(g, xs, {e}), next) /\ Deletion(g, xs, {e}, deleteData(g, xs, {e}))
  <1> DEFINE h == deleteData(g, xs, {e})
  <1>1. xs \in SUBSET Components /\ g \in EngineStates
    BY DEF Components, Good
  <1>2. Deletion(g, xs, {e}, h)
    BY <1>1, DeleteDataFields
  <1> HIDE DEF h
  <1>3. /\ h \in EngineStates /\ h.nextEntity = g.nextEntity /\ h.removed = g.removed
        /\ \A f \in Ids :
             /\ h.data["NetworkEntity"][f] = g.data["NetworkEntity"][f]
             /\ h.data["SyncComponents"][f] \in {None, g.data["SyncComponents"][f]}
             /\ h.data["Value"][f] \in {None, g.data["Value"][f]}
    BY <1>2 DEF Deletion, Components
  <1>4. Good(h, next)
    BY <1>3, NothingAtFresh, KeptGood
  <1> QED
    BY <1>2, <1>4 DEF h

LEMMA RemoveEntityGood ==
  ASSUME NEW next, NEW g, Good(g, next), NEW e \in Live(g)
  PROVE  Good(removeEntity(g, e), next)
  <1> DEFINE xs == Components \ {"NetworkEntity"}
             d == deleteData(g, xs, {e})
             h == removeEntity(g, e)
  <1>1. e \in Ids /\ e < g.nextEntity /\ xs \in SUBSET {"Value", "SyncComponents"}
    BY DEF Live, Components
  <1>2. Good(d, next) /\ Deletion(g, xs, {e}, d)
    BY <1>1, DeleteDataGood
  <1>3. h = [d EXCEPT !.removed = d.removed \cup {e}]
    BY DEF removeEntity
  <1> HIDE DEF d, h, xs
  <1>4. /\ h \in EngineStates /\ h.nextEntity = d.nextEntity /\ h.data = d.data
        /\ h.removed = d.removed \cup {e} /\ d.nextEntity = g.nextEntity
    BY <1>1, <1>2, <1>3 DEF EngineStates, Good, Deletion
  <1>5. \A f \in Ids : f >= d.nextEntity => f \notin h.removed /\ h.data["Value"][f] = None
    <2>1. SUFFICES ASSUME NEW f \in Ids, f >= d.nextEntity
                   PROVE  f \notin h.removed /\ h.data["Value"][f] = None
      OBVIOUS
    <2>2. f # e
      BY <1>1, <1>2, <1>4, <2>1, EngineParts, NetworkAssumption DEF Ids, Good
    <2> QED
      BY <1>2, <1>4, <2>1, <2>2, NothingAtFresh
  <1>6. Good(h, next)
    BY <1>2, <1>4, <1>5, KeptGood
  <1> QED
    BY <1>6 DEF h

(* A write of scene code to an entity of its own.                          *)
Writing(g, e, v, h) ==
  /\ h \in EngineStates
  /\ h.nextEntity = g.nextEntity /\ h.removed = g.removed /\ h.timestamps = g.timestamps
  /\ h.lastSent = g.lastSent /\ h.dirty = g.dirty \cup {<<"Value", e>>}
  /\ \A f \in Ids : /\ h.data["Value"][f] = IF f = e THEN v ELSE g.data["Value"][f]
                    /\ h.data["NetworkEntity"][f] = g.data["NetworkEntity"][f]
                    /\ h.data["SyncComponents"][f] = g.data["SyncComponents"][f]

LEMMA WrittenFields ==
  ASSUME NEW g \in EngineStates, NEW e \in Ids, NEW v \in Values
  PROVE  Writing(g, e, v, getMutable(g, "Value", e, v))
  <1> DEFINE h == getMutable(g, "Value", e, v)
             data == [g.data EXCEPT !["Value"][e] = v]
             dirty == g.dirty \cup {<<"Value", e>>}
  <1>1. h = [g EXCEPT !.data = data, !.dirty = dirty]
    BY DEF getMutable, EngineStates
  <1>2. data \in DataMaps
    BY Stored, EngineParts DEF Fits, Components
  <1>3. dirty \in SUBSET (Components \X Ids)
    BY EngineParts DEF Components
  <1>4. \A f \in Ids : /\ data["Value"][f] = IF f = e THEN v ELSE g.data["Value"][f]
                       /\ data["NetworkEntity"][f] = g.data["NetworkEntity"][f]
                       /\ data["SyncComponents"][f] = g.data["SyncComponents"][f]
    BY DEF EngineStates, DataMaps
  <1> HIDE DEF h, data, dirty
  <1>5. /\ h \in EngineStates /\ h.nextEntity = g.nextEntity /\ h.removed = g.removed
        /\ h.timestamps = g.timestamps
        /\ h.data = data /\ h.lastSent = g.lastSent /\ h.dirty = dirty
    BY <1>1, <1>2, <1>3 DEF EngineStates
  <1> QED
    BY <1>4, <1>5 DEF Writing, h, dirty

LEMMA WrittenGood ==
  ASSUME NEW next, NEW g, Good(g, next), NEW e \in Live(g), NEW v \in Values
  PROVE  Good(getMutable(g, "Value", e, v), next)
  <1> DEFINE h == getMutable(g, "Value", e, v)
  <1>1. e \in Ids /\ e < g.nextEntity /\ g \in EngineStates
    BY DEF Live, Good
  <1>2. Writing(g, e, v, h)
    BY <1>1, WrittenFields
  <1> HIDE DEF h
  <1>3. \A f \in Ids : f >= g.nextEntity => f \notin h.removed /\ h.data["Value"][f] = None
    <2>1. SUFFICES ASSUME NEW f \in Ids, f >= g.nextEntity
                   PROVE  f \notin h.removed /\ h.data["Value"][f] = None
      OBVIOUS
    <2>2. f # e
      BY <1>1, <2>1, EngineParts, NetworkAssumption DEF Ids
    <2> QED
      BY <1>2, <2>1, <2>2, NothingAtFresh DEF Writing
  <1>4. Good(h, next)
    BY <1>2, <1>3, KeptGood DEF Writing
  <1> QED
    BY <1>4 DEF h

Called(g, c, call) ==
  \/ call = <<g, {}>>
  \/ \E v \in Values : call = <<syncEntity(g, c, v), {}>>
  \/ \E e \in Writable(g), v \in Values : call = <<getMutable(g, "Value", e, v), {}>>
  \/ Deletes /\ \E e \in Writable(g) : call = <<deleteData(g, {"Value"}, {e}), {}>>
  \/ Removes /\ \E e \in Live(g) : call = <<removeEntity(g, e), {e}>>

LEMMA CallsAre ==
  ASSUME NEW g, NEW c, NEW call \in {<<g, {}>>} \cup SceneCalls(c, g)
  PROVE  Called(g, c, call)
  <1> DEFINE created == {syncEntity(g, c, v) : v \in IF c \in Creators THEN Values ELSE {}}
             written == {getMutable(g, "Value", e, v) : e \in Writable(g), v \in Values}
             deleted == IF Deletes THEN {deleteData(g, {"Value"}, {e}) : e \in Writable(g)} ELSE {}
             removed == IF Removes THEN Live(g) ELSE {}
  <1>1. SceneCalls(c, g) = {<<h, {}>> : h \in created \cup written \cup deleted}
                           \cup {<<removeEntity(g, e), {e}>> : e \in removed}
    BY DEF SceneCalls
  <1>2. \A h \in created : \E v \in Values : h = syncEntity(g, c, v)
    OBVIOUS
  <1>3. \A h \in written : \E e \in Writable(g), v \in Values : h = getMutable(g, "Value", e, v)
    OBVIOUS
  <1>4. \A h \in deleted : Deletes /\ \E e \in Writable(g) : h = deleteData(g, {"Value"}, {e})
    OBVIOUS
  <1>5. \A e \in removed : Removes /\ e \in Live(g)
    OBVIOUS
  <1> HIDE DEF created, written, deleted, removed
  <1> QED
    BY <1>1, <1>2, <1>3, <1>4, <1>5 DEF Called

LEMMA CalledGood ==
  ASSUME NEW next \in Counters, NEW later \in Counters, NoLess(next, later), NEW g, Good(g, next),
         NEW c \in Clients, next[c] <= g.nextEntity, NEW call \in {<<g, {}>>} \cup SceneCalls(c, g),
         call[1].nextEntity <= MaxEntity + 1, later[c] = call[1].nextEntity
  PROVE  Good(call[1], later) /\ call[2] \in SUBSET Ids
  <1>1. Good(g, later)
    BY GoodLater
  <1>2. \A e \in Writable(g) : e \in Live(g)
    BY DEF Writable
  <1>3. \A e \in Live(g) : e \in Ids
    BY DEF Live
  <1>5. CASE call = <<g, {}>>
    BY <1>1, <1>5
  <1>6. ASSUME NEW v \in Values, call = <<syncEntity(g, c, v), {}>>
        PROVE  Good(call[1], later) /\ call[2] \in SUBSET Ids
    <2>1. call[1] = syncEntity(g, c, v) /\ call[2] = {}
      BY <1>6
    <2>2. Good(syncEntity(g, c, v), later)
      BY <2>1, SyncEntityGood
    <2> QED
      BY <2>1, <2>2
  <1>7. ASSUME NEW e \in Writable(g), NEW v \in Values, call = <<getMutable(g, "Value", e, v), {}>>
        PROVE  Good(call[1], later) /\ call[2] \in SUBSET Ids
    BY <1>1, <1>2, <1>7, WrittenGood
  <1>8. ASSUME NEW e \in Writable(g), call = <<deleteData(g, {"Value"}, {e}), {}>>
        PROVE  Good(call[1], later) /\ call[2] \in SUBSET Ids
    BY <1>1, <1>2, <1>3, <1>8, DeleteDataGood
  <1>9. ASSUME NEW e \in Live(g), call = <<removeEntity(g, e), {e}>>
        PROVE  Good(call[1], later) /\ call[2] \in SUBSET Ids
    BY <1>1, <1>3, <1>9, RemoveEntityGood
  <1> QED
    <2>1. Called(g, c, call)
      BY CallsAre
    <2> QED
      BY <1>5, <1>6, <1>7, <1>8, <1>9, <2>1 DEF Called
-----------------------------------------------------------------------------
(* The messages an engine sends.                                           *)
MadeOf(s, T, ids, message) == s \in Seq(T) /\ Range(s) = {message[e] : e \in ids}

LEMMA MessagesAre ==
  ASSUME NEW T, NEW ids \in SUBSET Ids, NEW message, \A e \in ids : message[e] \in T
  PROVE  MadeOf(Messages(ids, message), T, ids, message)
  <1> DEFINE Is(f, k) == f = [i \in 0 .. k |->
                                IF i = 0 THEN <<>>
                                ELSE IF i \in ids THEN Append(f[i - 1], message[i])
                                ELSE f[i - 1]]
             Made(f, k) == /\ f[k] \in Seq(T)
                           /\ Range(f[k]) = {message[e] : e \in {d \in ids : d <= k}}
             Defined == {k \in Nat : \E f : Is(f, k) /\ Made(f, k)}
  <1>0. MaxEntity \in Nat /\ \A e \in ids : e \in Nat /\ e <= MaxEntity /\ e >= 1
    BY NetworkAssumption DEF Ids
  <1>1. 0 \in Defined
    <2> DEFINE f == [i \in 0 .. 0 |-> <<>>]
    <2>1. f[0] = <<>> /\ Is(f, 0)
      OBVIOUS
    <2>2. {d \in ids : d <= 0} = {}
      BY <1>0
    <2>3. Made(f, 0)
      BY <2>1, <2>2, RangeOfEmpty
    <2> QED
      BY <2>1, <2>3
  <1>2. ASSUME NEW k \in Nat, k \in Defined PROVE k + 1 \in Defined
    <2>1. PICK f : Is(f, k) /\ Made(f, k)
      BY <1>2
    <2> DEFINE last == IF k + 1 \in ids THEN Append(f[k], message[k + 1]) ELSE f[k]
               g == [i \in 0 .. k + 1 |-> IF i = k + 1 THEN last ELSE f[i]]
    <2>2. (\A i \in 0 .. k : g[i] = f[i]) /\ g[k + 1] = last
      OBVIOUS
    <2>3. ASSUME NEW i \in 0 .. k + 1
          PROVE  g[i] = IF i = 0 THEN <<>>
                        ELSE IF i \in ids THEN Append(g[i - 1], message[i])
                        ELSE g[i - 1]
      <3>1. CASE i = k + 1
        BY <3>1
      <3>2. CASE i # k + 1
        <4>1. i \in 0 .. k /\ (i # 0 => i - 1 \in 0 .. k)
          BY <3>2
        <4>2. f[i] = IF i = 0 THEN <<>>
                     ELSE IF i \in ids THEN Append(f[i - 1], message[i])
                     ELSE f[i - 1]
          BY <2>1, <4>1
        <4> QED
          BY <2>2, <4>1, <4>2
      <3> QED
        BY <3>1, <3>2
    <2>4. Is(g, k + 1)
      BY <2>3
    <2>5. last \in Seq(T) /\ Range(last) = {message[e] : e \in {d \in ids : d <= k + 1}}
      <3>1. CASE k + 1 \in ids
        <4>1. {d \in ids : d <= k + 1} = {d \in ids : d <= k} \cup {k + 1}
          BY <1>0, <3>1
        <4>2. last = Append(f[k], message[k + 1]) /\ message[k + 1] \in T
          BY <3>1
        <4> HIDE DEF last, Is
        <4>3. last \in Seq(T) /\ Range(last) = Range(f[k]) \cup {message[k + 1]}
          BY <2>1, <4>2, RangeOfAppend
        <4> QED
          BY <2>1, <4>1, <4>3
      <3>2. CASE k + 1 \notin ids
        <4>1. {d \in ids : d <= k + 1} = {d \in ids : d <= k}
          BY <1>0, <3>2
        <4> QED
          BY <2>1, <3>2, <4>1
      <3> QED
        BY <3>1, <3>2
    <2>6. Made(g, k + 1)
      BY <2>2, <2>5
    <2> HIDE DEF g, Is, Made
    <2> QED
      BY <2>4, <2>6
  <1>3. MaxEntity \in Defined
    <2> HIDE DEF Defined
    <2> QED
      BY <1>0, <1>1, <1>2, Induction
  <1>4. PICK f : Is(f, MaxEntity) /\ Made(f, MaxEntity)
    BY <1>3
  <1> DEFINE upTo == CHOOSE h : Is(h, MaxEntity)
  <1>5. Messages(ids, message) = upTo[MaxEntity]
    BY DEF Messages
  <1>6. \A h : Is(h, MaxEntity) => h = f
    <2>1. SUFFICES ASSUME NEW h, Is(h, MaxEntity) PROVE h = f
      OBVIOUS
    <2> DEFINE Same == {k \in Nat : k <= MaxEntity => h[k] = f[k]}
    <2>2. 0 \in Same
      BY <1>0, <1>4, <2>1
    <2>3. ASSUME NEW k \in Nat, k \in Same PROVE k + 1 \in Same
      <3>1. SUFFICES ASSUME k + 1 <= MaxEntity PROVE h[k + 1] = f[k + 1]
        OBVIOUS
      <3>2. k + 1 \in 0 .. MaxEntity /\ k + 1 # 0 /\ (k + 1) - 1 = k /\ h[k] = f[k]
        BY <1>0, <2>3, <3>1
      <3>3. h[k + 1] = IF k + 1 \in ids THEN Append(h[k], message[k + 1]) ELSE h[k]
        BY <2>1, <3>2
      <3>4. f[k + 1] = IF k + 1 \in ids THEN Append(f[k], message[k + 1]) ELSE f[k]
        BY <1>4, <3>2
      <3> QED
        BY <3>2, <3>3, <3>4
    <2>4. \A k \in Nat : k \in Same
      <3> HIDE DEF Same
      <3> QED
        BY <2>2, <2>3, Induction
    <2>5. \A k \in 0 .. MaxEntity : h[k] = f[k]
      BY <1>0, <2>4
    <2> QED
      BY <1>4, <2>1, <2>5
  <1>7. upTo = f
    <2> HIDE DEF Is
    <2> QED
      BY <1>4, <1>6
  <1>8. {d \in ids : d <= MaxEntity} = ids
    BY <1>0
  <1> QED
    BY <1>4, <1>5, <1>7, <1>8 DEF MadeOf

SoundMessages(next) == {m \in NetworkMessages : Sound(m, next)}

SoundPackets(next) == [kind : {"CRDT", "REQ", "RES"}, messages : Seq(SoundMessages(next))]

LEMMA RowSound ==
  ASSUME NEW next, NEW g, Good(g, next), NEW x \in Components, NEW e \in Ids, NEW ts \in Nat,
         g.data["NetworkEntity"][e] # None
  PROVE  Row(g, x, e, ts) \in SoundMessages(next)
  <1> DEFINE k == g.data["NetworkEntity"][e]
             v == g.data[x][e]
             m == Row(g, x, e, ts)
  <1>1. /\ m.type = "COMPONENT" /\ m.key = k /\ m.component = x /\ m.timestamp = ts /\ m.content = v
        /\ m = [type |-> "COMPONENT", key |-> k, component |-> x, timestamp |-> ts, content |-> v]
    BY DEF Row, PutNetwork
  <1>2. k \in Keys /\ Given(k, next)
    BY EngineParts DEF Good
  <1>3. Fits(x, v)
    BY EngineParts DEF Good, Fits
  <1> HIDE DEF k, v, m
  <1>4. m \in NetworkMessages
    <2>1. CASE x = "Value"
      BY <1>1, <1>2, <1>3, <2>1 DEF NetworkMessages, Puts, Fits
    <2>2. CASE x = "NetworkEntity"
      BY <1>1, <1>2, <1>3, <2>2 DEF NetworkMessages, Puts, Fits
    <2>3. CASE x = "SyncComponents"
      BY <1>1, <1>2, <1>3, <2>3 DEF NetworkMessages, Puts, Fits
    <2> QED
      BY <2>1, <2>2, <2>3 DEF Components
  <1>5. m.component = "NetworkEntity" => m.content = m.key
    BY <1>1 DEF k, v
  <1> QED
    BY <1>1, <1>2, <1>4, <1>5 DEF SoundMessages, Sound, m

LEMMA UpdatesSound ==
  ASSUME NEW next, NEW g, Good(g, next), NEW x \in Components
  PROVE  /\ Updates(g, x) \in Seq(SoundMessages(next))
         /\ Range(Updates(g, x)) =
              {Row(g, x, e, g.timestamps[x][e] + 1) :
                 e \in {d \in ToSend(g, x) : syncFilter(g, x, d, g.timestamps[x][d] + 1)}}
  <1> DEFINE ids == {e \in ToSend(g, x) : syncFilter(g, x, e, g.timestamps[x][e] + 1)}
             message == [e \in Ids |-> Row(g, x, e, g.timestamps[x][e] + 1)]
  <1>1. ids \in SUBSET Ids
    BY DEF ToSend
  <1>2. ASSUME NEW e \in ids PROVE message[e] \in SoundMessages(next)
    <2>1. e \in Ids /\ g.data["SyncComponents"][e] # None
      BY <1>1, <1>2 DEF syncFilter
    <2>2. g.data["NetworkEntity"][e] # None /\ g.timestamps[x][e] + 1 \in Nat
      BY <2>1, EngineParts DEF Good
    <2> QED
      BY <2>1, <2>2, RowSound
  <1>3. Updates(g, x) = Messages(ids, message)
    BY DEF Updates
  <1>4. \A e \in ids : message[e] = Row(g, x, e, g.timestamps[x][e] + 1)
    BY <1>1
  <1> HIDE DEF ids, message
  <1>5. /\ Messages(ids, message) \in Seq(SoundMessages(next))
        /\ Range(Messages(ids, message)) = {message[e] : e \in ids}
    <2> DEFINE T == SoundMessages(next)
    <2>1. \A e \in ids : message[e] \in T
      BY <1>2
    <2> HIDE DEF T
    <2>2. MadeOf(Messages(ids, message), T, ids, message)
      BY <1>1, <2>1, MessagesAre
    <2> QED
      BY <2>2 DEF T, MadeOf
  <1>6. {message[e] : e \in ids} = {Row(g, x, e, g.timestamps[x][e] + 1) : e \in ids}
    BY <1>4
  <1> QED
    BY <1>3, <1>5, <1>6 DEF ids

LEMMA SnapshotSound ==
  ASSUME NEW next, NEW g, Good(g, next), NEW x \in Components
  PROVE  /\ Snapshot(g, x) \in Seq(SoundMessages(next))
         /\ Range(Snapshot(g, x)) = {Row(g, x, e, g.timestamps[x][e]) : e \in Present(g, x)}
  <1> DEFINE ids == Present(g, x)
             message == [e \in Ids |-> Row(g, x, e, g.timestamps[x][e])]
  <1>1. ids \in SUBSET Ids
    BY DEF Present
  <1>2. ASSUME NEW e \in ids PROVE message[e] \in SoundMessages(next)
    <2>1. e \in Ids /\ g.data["NetworkEntity"][e] # None /\ g.timestamps[x][e] \in Nat
      BY <1>2, EngineParts DEF Good, Present
    <2> QED
      BY <2>1, RowSound
  <1>3. Snapshot(g, x) = Messages(ids, message)
    BY DEF Snapshot
  <1>4. \A e \in ids : message[e] = Row(g, x, e, g.timestamps[x][e])
    BY <1>1
  <1> HIDE DEF ids, message
  <1>5. /\ Messages(ids, message) \in Seq(SoundMessages(next))
        /\ Range(Messages(ids, message)) = {message[e] : e \in ids}
    <2> DEFINE T == SoundMessages(next)
    <2>1. \A e \in ids : message[e] \in T
      BY <1>2
    <2> HIDE DEF T
    <2>2. MadeOf(Messages(ids, message), T, ids, message)
      BY <1>1, <2>1, MessagesAre
    <2> QED
      BY <2>2 DEF T, MadeOf
  <1>6. {message[e] : e \in ids} = {Row(g, x, e, g.timestamps[x][e]) : e \in ids}
    BY <1>4
  <1> QED
    BY <1>3, <1>5, <1>6 DEF ids

(* A deletion is announced under the key the removed entity had.           *)
Announced(g, removedNow) ==
  Messages({e \in removedNow : g.data["NetworkEntity"][e] # None},
           [e \in Ids |-> DeleteEntityNetwork(g.data["NetworkEntity"][e])])

LEMMA AnnouncedSound ==
  ASSUME NEW next, NEW g, Good(g, next), NEW removedNow \in SUBSET Ids
  PROVE  /\ Announced(g, removedNow) \in Seq(SoundMessages(next))
         /\ removedNow = {} => Range(Announced(g, removedNow)) = {}
  <1> DEFINE ids == {e \in removedNow : g.data["NetworkEntity"][e] # None}
             message == [e \in Ids |-> DeleteEntityNetwork(g.data["NetworkEntity"][e])]
  <1>1. ids \in SUBSET Ids
    OBVIOUS
  <1>2. ASSUME NEW e \in ids PROVE message[e] \in SoundMessages(next)
    <2> DEFINE k == g.data["NetworkEntity"][e]
    <2>1. e \in Ids /\ k \in Keys /\ Given(k, next)
      BY <1>2, EngineParts DEF Good
    <2>2. message[e] = [type |-> "DELETE_ENTITY", key |-> k]
      BY <2>1 DEF DeleteEntityNetwork
    <2> HIDE DEF k, message
    <2> QED
      BY <2>1, <2>2 DEF SoundMessages, Sound, NetworkMessages
  <1>3. Announced(g, removedNow) = Messages(ids, message)
    BY DEF Announced
  <1>4. removedNow = {} => ids = {}
    OBVIOUS
  <1> HIDE DEF ids, message
  <1>5. /\ Messages(ids, message) \in Seq(SoundMessages(next))
        /\ Range(Messages(ids, message)) = {message[e] : e \in ids}
    <2> DEFINE T == SoundMessages(next)
    <2>1. \A e \in ids : message[e] \in T
      BY <1>2
    <2> HIDE DEF T
    <2>2. MadeOf(Messages(ids, message), T, ids, message)
      BY <1>1, <2>1, MessagesAre
    <2> QED
      BY <2>2 DEF T, MadeOf
  <1> QED
    BY <1>3, <1>4, <1>5

LEMMA OutgoingSound ==
  ASSUME NEW next, NEW g, Good(g, next), NEW removedNow \in SUBSET Ids
  PROVE  /\ Outgoing(g, removedNow) \in Seq(SoundMessages(next))
         /\ Range(Outgoing(g, removedNow)) =
              Range(Updates(g, "Value")) \cup Range(Updates(g, "NetworkEntity"))
              \cup Range(Updates(g, "SyncComponents")) \cup Range(Announced(g, removedNow))
  <1> DEFINE S == SoundMessages(next)
             u == Updates(g, "Value")
             v == Updates(g, "NetworkEntity")
             w == Updates(g, "SyncComponents")
             a == Announced(g, removedNow)
  <1>1. u \in Seq(S) /\ v \in Seq(S) /\ w \in Seq(S) /\ a \in Seq(S)
    BY UpdatesSound, AnnouncedSound DEF Components
  <1>2. Outgoing(g, removedNow) = u \o v \o w \o a
    BY DEF Outgoing, Announced
  <1> HIDE DEF S, u, v, w, a
  <1>3. u \o v \in Seq(S) /\ Range(u \o v) = Range(u) \cup Range(v)
    BY <1>1, RangeOfConcat
  <1> DEFINE uv == u \o v
  <1>6. uv \in Seq(S)
    BY <1>3
  <1> HIDE DEF uv
  <1>4. uv \o w \in Seq(S) /\ Range(uv \o w) = Range(uv) \cup Range(w)
    BY <1>1, <1>6, RangeOfConcat
  <1> DEFINE uvw == uv \o w
  <1>7. uvw \in Seq(S)
    BY <1>4
  <1> HIDE DEF uvw
  <1>5. uvw \o a \in Seq(S) /\ Range(uvw \o a) = Range(uvw) \cup Range(a)
    BY <1>1, <1>7, RangeOfConcat
  <1> QED
    BY <1>2, <1>3, <1>4, <1>5 DEF S, u, v, w, a, uv, uvw

LEMMA EngineToCrdtSound ==
  ASSUME NEW next, NEW g, Good(g, next)
  PROVE  /\ engineToCrdt(g) \in Seq(SoundMessages(next))
         /\ Range(engineToCrdt(g)) =
              Range(Snapshot(g, "Value")) \cup Range(Snapshot(g, "NetworkEntity"))
              \cup Range(Snapshot(g, "SyncComponents"))
  <1> DEFINE S == SoundMessages(next)
             u == Snapshot(g, "Value")
             v == Snapshot(g, "NetworkEntity")
             w == Snapshot(g, "SyncComponents")
  <1>1. u \in Seq(S) /\ v \in Seq(S) /\ w \in Seq(S)
    BY SnapshotSound DEF Components
  <1>2. engineToCrdt(g) = u \o v \o w
    BY DEF engineToCrdt
  <1> HIDE DEF S, u, v, w
  <1>3. u \o v \in Seq(S) /\ Range(u \o v) = Range(u) \cup Range(v)
    BY <1>1, RangeOfConcat
  <1> DEFINE uv == u \o v
  <1>6. uv \in Seq(S)
    BY <1>3
  <1> HIDE DEF uv
  <1>4. uv \o w \in Seq(S) /\ Range(uv \o w) = Range(uv) \cup Range(w)
    BY <1>1, <1>6, RangeOfConcat
  <1> QED
    BY <1>2, <1>3, <1>4 DEF S, u, v, w, uv

LEMMA SoundPacketsLater ==
  ASSUME NEW next \in Counters, NEW later \in Counters, NoLess(next, later)
  PROVE  Seq(SoundPackets(next)) \subseteq Seq(SoundPackets(later))
  <1>1. \A m \in SoundMessages(next) : m \in SoundMessages(later)
    BY SoundLater DEF SoundMessages
  <1>2. \A s \in Seq(SoundMessages(next)) : s \in Seq(SoundMessages(later))
    BY <1>1
  <1>3. \A p \in SoundPackets(next) : p \in SoundPackets(later)
    BY <1>2 DEF SoundPackets
  <1> QED
    BY <1>3

(* What a tick does to an engine.                                          *)
LEMMA CleanedShaped ==
  ASSUME NEW st, StageShaped(st)
  PROVE  Shaped(Cleaned(st)) /\ Cleaned(st).nextEntity = st.engine.nextEntity
  BY DEF StageShaped, Shaped, Cleaned, deleteData

LEMMA ReceivedGood ==
  ASSUME NEW next \in Counters, NEW g, Good(g, next), NEW messages \in Seq(SoundMessages(next))
  PROVE  LET h == Cleaned(Processed(g, messages))
         IN  /\ Shaped(h) /\ g.nextEntity <= h.nextEntity
             /\ h.nextEntity <= MaxEntity + 1 => Good(h, next)
  <1> DEFINE st == Processed(g, messages)
             h == Cleaned(st)
  <1>1. messages \in Seq(NetworkMessages) /\ \A i \in 1 .. Len(messages) : Sound(messages[i], next)
    BY DEF SoundMessages
  <1>2. /\ StageShaped(st) /\ g.nextEntity <= st.engine.nextEntity
        /\ st.engine.nextEntity <= MaxEntity + 1 => GoodStage(st, next)
    BY <1>1, ProcessedGood
  <1> HIDE DEF st
  <1>3. Shaped(h) /\ h.nextEntity = st.engine.nextEntity
    BY <1>2, CleanedShaped
  <1>4. h.nextEntity <= MaxEntity + 1 => Good(h, next)
    BY <1>2, <1>3, CleanedGood
  <1> QED
    BY <1>2, <1>3, <1>4 DEF st

LEMMA CallsGrow ==
  ASSUME NEW g, Shaped(g), NEW c, NEW call \in {<<g, {}>>} \cup SceneCalls(c, g)
  PROVE  call[1].nextEntity \in Nat /\ g.nextEntity <= call[1].nextEntity
  <1>1. /\ \A v : syncEntity(g, c, v).nextEntity = g.nextEntity + 1
        /\ \A e, v : getMutable(g, "Value", e, v).nextEntity = g.nextEntity
        /\ \A e : deleteData(g, {"Value"}, {e}).nextEntity = g.nextEntity
        /\ \A e : removeEntity(g, e).nextEntity = g.nextEntity
    BY DEF Shaped, syncEntity, createOrReplace, getMutable, deleteData, removeEntity
  <1>2. g.nextEntity \in Nat
    BY DEF Shaped
  <1>3. Called(g, c, call)
    BY CallsAre
  <1>4. \E h : /\ call[1] = h
               /\ \/ h = g \/ \E v : h = syncEntity(g, c, v)
                  \/ \E e, v : h = getMutable(g, "Value", e, v)
                  \/ \E e : h = deleteData(g, {"Value"}, {e})
                  \/ \E e : h = removeEntity(g, e)
    BY <1>3, SMTT(30) DEF Called
  <1>5. call[1].nextEntity = g.nextEntity \/ call[1].nextEntity = g.nextEntity + 1
    BY <1>1, <1>4
  <1> QED
    BY <1>2, <1>5

LEMMA TickGood ==
  ASSUME NEW next \in Counters, NEW g, Good(g, next), NEW messages \in Seq(SoundMessages(next)),
         NEW c \in Clients, next[c] = g.nextEntity, NEW h, h = Cleaned(Processed(g, messages)),
         NEW call \in {<<h, {}>>} \cup SceneCalls(c, h), call[1].nextEntity <= MaxEntity + 1,
         NEW later, later = [next EXCEPT ![c] = call[1].nextEntity]
  PROVE  /\ later \in Counters /\ NoLess(next, later)
         /\ Good(h, next) /\ Good(call[1], later) /\ call[2] \in SUBSET Ids
  <1>1. /\ Shaped(h) /\ g.nextEntity <= h.nextEntity
        /\ h.nextEntity <= MaxEntity + 1 => Good(h, next)
    BY ReceivedGood
  <1>2. call[1].nextEntity \in Nat /\ h.nextEntity <= call[1].nextEntity
    BY <1>1, CallsGrow
  <1>3. h.nextEntity \in Nat /\ g.nextEntity \in Nat
    BY <1>1, EngineParts DEF Shaped, Good
  <1>4. h.nextEntity <= MaxEntity + 1
    BY <1>2, <1>3, NetworkAssumption
  <1>5. later \in Counters /\ later[c] = call[1].nextEntity
    BY <1>2 DEF Counters
  <1>6. NoLess(next, later)
    <2>1. ASSUME NEW d \in Clients PROVE next[d] <= later[d]
      <3>1. CASE d = c
        BY <1>1, <1>2, <1>3, <1>5, <3>1
      <3>2. CASE d # c
        BY <3>2 DEF Counters
      <3> QED
        BY <3>1, <3>2
    <2> QED
      BY <2>1 DEF NoLess
  <1> QED
    BY <1>1, <1>4, <1>5, <1>6, CalledGood
-----------------------------------------------------------------------------
(* The invariant: engines are good and packets sound, for the counters of  *)
(* all engines.                                                            *)
SyncInv ==
  /\ engine \in [Clients -> EngineStates]
  /\ connected \subseteq Clients /\ calls \in 0 .. MaxCalls
  /\ \A c \in Clients : Good(engine[c], NextOf(engine))
  /\ channel \in [Clients -> [Clients -> Seq(SoundPackets(NextOf(engine)))]]

LEMMA IncomingSound ==
  ASSUME SyncInv, NEW c \in Clients, NEW in \in Incoming(c)
  PROVE  /\ in[1] \in Clients /\ in[2].messages \in Seq(SoundMessages(NextOf(engine)))
         /\ in[2].kind = "NONE" => in = <<c, Packet("NONE", <<>>)>>
         /\ in[2].kind # "NONE" => /\ channel[in[1]][c] # <<>> /\ in[2] = Head(channel[in[1]][c])
                                  /\ in[2] \in SoundPackets(NextOf(engine))
  <1> DEFINE T == SoundPackets(NextOf(engine))
  <1>1. CASE in = <<c, Packet("NONE", <<>>)>>
    <2>1. in[1] = c /\ in[2].messages = <<>> /\ in[2].kind = "NONE"
      BY <1>1 DEF Packet
    <2>2. <<>> \in Seq(SoundMessages(NextOf(engine)))
      OBVIOUS
    <2> QED
      BY <1>1, <2>1, <2>2
  <1>2. ASSUME NEW s \in Clients, channel[s][c] # <<>>, in = <<s, Head(channel[s][c])>>
        PROVE  in[1] = s /\ in[2] = Head(channel[s][c]) /\ in[2] \in T
    <2>1. channel[s][c] \in Seq(T)
      BY DEF SyncInv
    <2> HIDE DEF T
    <2> QED
      BY <1>2, <2>1
  <1>3. \A p \in T : p.kind # "NONE" /\ p.messages \in Seq(SoundMessages(NextOf(engine)))
    BY DEF SoundPackets
  <1> HIDE DEF T
  <1>4. in = <<c, Packet("NONE", <<>>)>> \/ \E s \in Clients : channel[s][c] # <<>> /\ in = <<s, Head(channel[s][c])>>
    BY DEF Incoming
  <1> QED
    BY <1>1, <1>2, <1>3, <1>4 DEF T

(* What a tick sends.                                                       *)
LEMMA SentSound ==
  ASSUME SyncInv, NEW c \in Clients, NEW s, NEW packet, NEW call,
         NEW later \in Counters, NoLess(NextOf(engine), later), NextOf(engine) \in Counters,
         Good(call[1], later), call[2] \in SUBSET Ids
  PROVE  /\ Answer(c, s, packet) \in Seq(SoundPackets(later))
         /\ Broadcast(Outgoing(call[1], call[2])) \in Seq(SoundPackets(later))
  <1> DEFINE T == SoundPackets(later)
             out == Outgoing(call[1], call[2])
             answer == engineToCrdt(engine[c])
  <1>1. out \in Seq(SoundMessages(later))
    BY OutgoingSound
  <1>2. answer \in Seq(SoundMessages(later))
    <2>1. Good(engine[c], later)
      BY GoodLater DEF SyncInv
    <2> QED
      BY <2>1, EngineToCrdtSound
  <1>3. Packet("CRDT", out) \in T /\ Packet("RES", answer) \in T
    BY <1>1, <1>2 DEF SoundPackets, Packet
  <1>4. Answer(c, s, packet) \in Seq(T) /\ Broadcast(out) \in Seq(T)
    <2> HIDE DEF T, out
    <2> QED
      BY <1>3 DEF Answer, Broadcast
  <1> QED
    BY <1>4

(* A tick of c: packet is what it took, from s, h its engine when that is   *)
(* processed, and call what the scene did then.                            *)
Tick(c, s, packet, h, call) ==
  /\ packet.messages \in Seq(SoundMessages(NextOf(engine)))
  /\ packet.kind # "NONE" => channel[s][c] # <<>> /\ packet = Head(channel[s][c])
  /\ packet.kind = "NONE" => packet.messages = <<>>
  /\ h = Cleaned(Processed(engine[c], packet.messages))
  /\ call \in {<<h, {}>>} \cup SceneCalls(c, h)
  /\ call # <<h, {}>> => calls < MaxCalls /\ c \in connected
  /\ call[1].nextEntity <= MaxEntity + 1
  /\ engine' = [engine EXCEPT ![c] = Flushed(call[1])]
  /\ calls' = calls + IF call[1] = h THEN 0 ELSE 1
  /\ channel' = [t \in Clients |-> [r \in Clients |->
        IF r = c /\ t = s /\ packet.kind # "NONE" THEN Tail(channel[t][r])
        ELSE IF t = c /\ r # c /\ {c, r} \subseteq connected
        THEN channel[t][r] \o (IF r = s THEN Answer(c, s, packet) ELSE <<>>)
                           \o Broadcast(Outgoing(call[1], call[2]))
        ELSE channel[t][r]]]
  /\ UNCHANGED connected

LEMMA UpdateIsTick ==
  ASSUME SyncInv, NEW c \in Clients, Update(c)
  PROVE  \E s \in Clients : \E packet, h, call : Tick(c, s, packet, h, call)
  <1>1. PICK in \in Incoming(c) :
          LET s == in[1]
              packet == in[2]
              g == Received(c, packet.messages)
          IN  \E call \in {<<g, {}>>} \cup (IF calls < MaxCalls /\ c \in connected
                                            THEN SceneCalls(c, g) ELSE {}) :
                /\ call[1].nextEntity <= MaxEntity + 1
                /\ engine' = [engine EXCEPT ![c] = Flushed(call[1])]
                /\ calls' = calls + IF call[1] = g THEN 0 ELSE 1
                /\ channel' = [t \in Clients |-> [r \in Clients |->
                      IF r = c /\ t = s /\ packet.kind # "NONE" THEN Tail(channel[t][r])
                      ELSE IF t = c /\ r # c /\ {c, r} \subseteq connected
                      THEN channel[t][r] \o (IF r = s THEN Answer(c, s, packet) ELSE <<>>)
                                         \o Broadcast(Outgoing(call[1], call[2]))
                      ELSE channel[t][r]]]
                /\ UNCHANGED connected
    BY DEF Update
  <1> DEFINE s == in[1]
             packet == in[2]
             g == Received(c, packet.messages)
  <1>2. PICK call \in {<<g, {}>>} \cup (IF calls < MaxCalls /\ c \in connected
                                        THEN SceneCalls(c, g) ELSE {}) :
          /\ call[1].nextEntity <= MaxEntity + 1
          /\ engine' = [engine EXCEPT ![c] = Flushed(call[1])]
          /\ calls' = calls + IF call[1] = g THEN 0 ELSE 1
          /\ channel' = [t \in Clients |-> [r \in Clients |->
                IF r = c /\ t = s /\ packet.kind # "NONE" THEN Tail(channel[t][r])
                ELSE IF t = c /\ r # c /\ {c, r} \subseteq connected
                THEN channel[t][r] \o (IF r = s THEN Answer(c, s, packet) ELSE <<>>)
                                   \o Broadcast(Outgoing(call[1], call[2]))
                ELSE channel[t][r]]]
          /\ UNCHANGED connected
    BY <1>1
  <1>3. /\ s \in Clients /\ packet.messages \in Seq(SoundMessages(NextOf(engine)))
        /\ packet.kind # "NONE" => channel[s][c] # <<>> /\ packet = Head(channel[s][c])
        /\ packet.kind = "NONE" => packet.messages = <<>>
    BY IncomingSound DEF Packet
  <1>4. /\ g = Cleaned(Processed(engine[c], packet.messages))
        /\ call \in {<<g, {}>>} \cup SceneCalls(c, g)
        /\ call # <<g, {}>> => calls < MaxCalls /\ c \in connected
    BY DEF Received
  <1> HIDE DEF s, packet, g
  <1>5. Tick(c, s, packet, g, call)
    BY <1>2, <1>3, <1>4 DEF Tick
  <1> QED
    BY <1>3, <1>5

LEMMA TickKeepsSyncInv ==
  ASSUME SyncInv, NEW c \in Clients, NEW s \in Clients, NEW packet, NEW g, NEW call,
         Tick(c, s, packet, g, call)
  PROVE  /\ SyncInv' /\ Good(g, NextOf(engine)) /\ Good(call[1], NextOf(engine'))
         /\ call[2] \in SUBSET Ids
  <1> DEFINE next == NextOf(engine)
             later == [next EXCEPT ![c] = call[1].nextEntity]
  <1>2. /\ call[1].nextEntity <= MaxEntity + 1
        /\ engine' = [engine EXCEPT ![c] = Flushed(call[1])]
        /\ calls' = calls + IF call[1] = g THEN 0 ELSE 1
        /\ channel' = [t \in Clients |-> [r \in Clients |->
              IF r = c /\ t = s /\ packet.kind # "NONE" THEN Tail(channel[t][r])
              ELSE IF t = c /\ r # c /\ {c, r} \subseteq connected
              THEN channel[t][r] \o (IF r = s THEN Answer(c, s, packet) ELSE <<>>)
                                 \o Broadcast(Outgoing(call[1], call[2]))
              ELSE channel[t][r]]]
        /\ UNCHANGED connected
    BY DEF Tick
  <1>3. /\ packet.messages \in Seq(SoundMessages(next))
        /\ packet.kind # "NONE" => channel[s][c] # <<>>
    BY DEF Tick
  <1>4. next \in Counters /\ next[c] = engine[c].nextEntity /\ Good(engine[c], next)
    BY EngineParts DEF SyncInv, NextOf, Counters
  <1>5. /\ g = Cleaned(Processed(engine[c], packet.messages))
        /\ call \in {<<g, {}>>} \cup SceneCalls(c, g)
        /\ call # <<g, {}>> => calls < MaxCalls
    BY DEF Tick
  <1> HIDE DEF next
  <1>6. /\ later \in Counters /\ NoLess(next, later)
        /\ Good(g, next) /\ Good(call[1], later) /\ call[2] \in SUBSET Ids
    BY <1>2, <1>3, <1>4, <1>5, TickGood
  <1> HIDE DEF later
  <1>7. Good(Flushed(call[1]), later) /\ Flushed(call[1]).nextEntity = call[1].nextEntity
    BY <1>6, FlushedGood
  <1>8. /\ engine' \in [Clients -> EngineStates]
        /\ \A d \in Clients : Good(engine'[d], later) /\ engine'[d].nextEntity = later[d]
    <2>1. \A d \in Clients : engine[d] \in EngineStates /\ Good(engine[d], later) /\ next[d] = engine[d].nextEntity
      BY <1>4, <1>6, GoodLater DEF SyncInv, next, NextOf
    <2>2. Flushed(call[1]) \in EngineStates
      BY <1>7 DEF Good
    <2>3. \A d \in Clients : /\ engine'[d] = IF d = c THEN Flushed(call[1]) ELSE engine[d]
                             /\ later[d] = IF d = c THEN call[1].nextEntity ELSE next[d]
      BY <1>2, <1>4 DEF SyncInv, later, Counters
    <2> QED
      BY <1>2, <1>7, <2>1, <2>2, <2>3 DEF SyncInv
  <1>9. NextOf(engine') = later
    BY <1>6, <1>8 DEF NextOf, Counters
  <1>10. channel' \in [Clients -> [Clients -> Seq(SoundPackets(later))]]
    <2> DEFINE T == SoundPackets(later)
    <2>1. \A t, r \in Clients : channel[t][r] \in Seq(T)
      BY <1>4, <1>6, SoundPacketsLater DEF SyncInv, next
    <2>2. Answer(c, s, packet) \in Seq(T) /\ Broadcast(Outgoing(call[1], call[2])) \in Seq(T)
      BY <1>4, <1>6, SentSound DEF next
    <2> DEFINE answer == Answer(c, s, packet)
               out == Broadcast(Outgoing(call[1], call[2]))
    <2> HIDE DEF T, answer, out
    <2>3. ASSUME NEW q \in Seq(T)
          PROVE  /\ q # <<>> => Tail(q) \in Seq(T)
                 /\ q \o answer \o out \in Seq(T) /\ q \o <<>> \o out \in Seq(T)
      BY <2>2 DEF answer, out
    <2>4. ASSUME NEW t \in Clients, NEW r \in Clients PROVE channel'[t][r] \in Seq(T)
      <3>1. channel'[t][r] = IF r = c /\ t = s /\ packet.kind # "NONE" THEN Tail(channel[t][r])
                             ELSE IF t = c /\ r # c /\ {c, r} \subseteq connected
                             THEN channel[t][r] \o (IF r = s THEN answer ELSE <<>>) \o out
                             ELSE channel[t][r]
        BY <1>2 DEF answer, out
      <3> QED
        BY <1>3, <2>1, <2>3, <3>1
    <2>5. channel' = [t \in Clients |-> [r \in Clients |-> channel'[t][r]]]
      BY <1>2
    <2> QED
      BY <2>4, <2>5 DEF T
  <1>11. calls' \in 0 .. MaxCalls
    <2>1. CASE call[1] = g
      BY <1>2, <2>1 DEF SyncInv
    <2>2. CASE call[1] # g
      <3>1. calls < MaxCalls
        BY <1>5, <2>2
      <3> QED
        BY <1>2, <2>2, <3>1, NetworkAssumption DEF SyncInv
    <2> QED
      BY <2>1, <2>2
  <1> QED
    BY <1>2, <1>6, <1>8, <1>9, <1>10, <1>11 DEF SyncInv, next

LEMMA UpdateKeepsSyncInv ==
  ASSUME SyncInv, NEW c \in Clients, Update(c)
  PROVE  SyncInv'
  <1>1. PICK s \in Clients : \E packet, h, call : Tick(c, s, packet, h, call)
    BY UpdateIsTick
  <1> QED
    BY <1>1, TickKeepsSyncInv

LEMMA JoinKeepsSyncInv ==
  ASSUME SyncInv, NEW c \in Clients, Join(c)
  PROVE  SyncInv'
  <1> DEFINE T == SoundPackets(NextOf(engine))
             request == Packet("REQ", <<>>)
  <1>1. request \in T
    BY DEF SoundPackets, Packet
  <1>2. ASSUME NEW t \in Clients, NEW r \in Clients PROVE channel'[t][r] \in Seq(T)
    <2>1. channel[t][r] \in Seq(T)
      BY DEF SyncInv
    <2>2. channel'[t][r] = channel[t][r] \/ channel'[t][r] = Append(channel[t][r], request)
      BY DEF SyncInv, Join
    <2> DEFINE q == channel[t][r]
    <2>3. q \in Seq(T) /\ request \in T
      BY <1>1, <2>1
    <2> HIDE DEF T, request, q
    <2>4. Append(q, request) \in Seq(T)
      BY <2>3
    <2> QED
      BY <2>1, <2>2, <2>4 DEF q
  <1>3. channel' \in [Clients -> [Clients -> Seq(T)]]
    <2>1. channel' = [t \in Clients |-> [r \in Clients |-> channel'[t][r]]]
      BY DEF SyncInv, Join
    <2> HIDE DEF T
    <2> QED
      BY <1>2, <2>1
  <1> QED
    BY <1>3 DEF SyncInv, Join

LEMMA InitHasSyncInv == Init => SyncInv
  <1>1. SUFFICES ASSUME Init PROVE SyncInv
    OBVIOUS
  <1>2. ASSUME NEW c \in Clients PROVE Good(engine[c], NextOf(engine))
    <2> DEFINE none == [x \in Components |-> [e \in Ids |-> None]]
    <2>1. engine[c] = [nextEntity |-> 1, removed |-> {}, dirty |-> {}, data |-> none,
                       timestamps |-> [x \in Components |-> [e \in Ids |-> 0]], lastSent |-> none]
      BY <1>1 DEF Init
    <2>2. none \in DataMaps
      BY DEF DataMaps, Components
    <2>3. \A x \in Components, e \in Ids : none[x][e] = None
      OBVIOUS
    <2>4. 1 \in 1 .. MaxEntity + 1
      BY NetworkAssumption
    <2> HIDE DEF none
    <2>5. /\ engine[c].nextEntity = 1 /\ engine[c].removed = {} /\ engine[c].data = none
          /\ engine[c] \in EngineStates
      BY <2>1, <2>2, <2>4 DEF EngineStates
    <2>6. \A e \in Ids : engine[c].data["NetworkEntity"][e] = None /\ engine[c].data["SyncComponents"][e] = None
      BY <2>3, <2>5 DEF Components
    <2> HIDE DEF EngineStates
    <2>7. \A e, f \in Ids : /\ engine[c].data["NetworkEntity"][e] # None
                            /\ engine[c].data["NetworkEntity"][e] = engine[c].data["NetworkEntity"][f]
                            => e = f
      BY <2>6
    <2> QED
      BY <2>3, <2>5, <2>6, <2>7 DEF Good, Unused
  <1>3. channel \in [Clients -> [Clients -> Seq(SoundPackets(NextOf(engine)))]]
    <2>1. \A T : <<>> \in Seq(T)
      OBVIOUS
    <2> QED
      BY <1>1, <2>1 DEF Init
  <1>4. engine \in [Clients -> EngineStates]
    BY <1>1, <1>2 DEF Init, Good
  <1> QED
    <2>1. connected \subseteq Clients /\ calls \in 0 .. MaxCalls
      BY <1>1, NetworkAssumption DEF Init
    <2> QED
      BY <1>2, <1>3, <1>4, <2>1 DEF SyncInv

LEMMA SyncInvAlways == Spec => []SyncInv
  <1>1. SyncInv /\ [Next]_vars => SyncInv'
    <2>1. SUFFICES ASSUME SyncInv, [Next]_vars PROVE SyncInv'
      OBVIOUS
    <2>2. ASSUME NEW c \in Clients, Update(c) PROVE SyncInv'
      BY <2>1, <2>2, UpdateKeepsSyncInv
    <2>3. ASSUME NEW c \in Clients, Join(c) PROVE SyncInv'
      BY <2>1, <2>3, JoinKeepsSyncInv
    <2>4. CASE UNCHANGED vars
      BY <2>1, <2>4 DEF SyncInv, vars
    <2> QED
      BY <2>1, <2>2, <2>3, <2>4 DEF Next
  <1> QED
    BY <1>1, InitHasSyncInv, PTL DEF Spec

(* Whatever clients join, create, write, delete and remove, in any order   *)
(* of their packets, engines and packets keep their types and a local id   *)
(* of which anything is known has been handed out (addEntity in            *)
(* findNetworkId, systems/crdt/index.ts).                                  *)
THEOREM TypeCorrect == Spec => []TypeOK
  <1>1. SyncInv => TypeOK
    <2>1. SUFFICES ASSUME SyncInv PROVE TypeOK
      OBVIOUS
    <2> DEFINE T == SoundPackets(NextOf(engine))
    <2>2. \A s \in Seq(SoundMessages(NextOf(engine))) : s \in Seq(NetworkMessages)
      BY DEF SoundMessages
    <2>3. \A p \in T : p \in Packets
      BY <2>2 DEF SoundPackets, Packets
    <2>4. channel \in [Clients -> [Clients -> Seq(T)]]
      BY <2>1 DEF SyncInv
    <2> HIDE DEF T
    <2>5. \A q \in Seq(T) : q \in Seq(Packets)
      BY <2>3
    <2>6. channel \in [Clients -> [Clients -> Seq(Packets)]]
      BY <2>4, <2>5
    <2> QED
      BY <2>1, <2>6 DEF SyncInv, TypeOK, Good
  <1> QED
    BY <1>1, SyncInvAlways, PTL

(* Findings of the same key in any batches never give it a second live     *)
(* entity in one client: findNetworkId takes the entity that has the key,  *)
(* and creators never give the same key to two entities.                   *)
THEOREM KeysHaveOneEntity == Spec => []OneEntityPerKey
  <1>1. SyncInv => OneEntityPerKey
    <2>1. SUFFICES ASSUME SyncInv, NEW c \in Clients, NEW k \in Keys
                   PROVE  Cardinality(Alive(c, k)) <= 1
      BY DEF OneEntityPerKey
    <2> DEFINE S == Alive(c, k)
    <2>2. \A e, f \in S : e = f
      BY <2>1, NetworkAssumption DEF SyncInv, Good, Alive, Mapped
    <2> HIDE DEF S
    <2>3. S = {} \/ \E e : S = {e}
      BY <2>2
    <2> QED
      <3>1. Cardinality(S) = 0 \/ Cardinality(S) = 1
        BY <2>3, FS_EmptySet, FS_Singleton
      <3> QED
        BY <3>1 DEF S
  <1> QED
    BY <1>1, SyncInvAlways, PTL
-----------------------------------------------------------------------------
(* Agreement of the room, where nothing is removed nor deleted.            *)
(*                                                                         *)
(* A fact is a value some engine holds or some message carries, with its   *)
(* timestamp, or the mere mention of a key, which counts as less than any  *)
(* value of it.  Every fact is held by somebody in the room, and everybody *)
(* in the room is covered for it: has it or a newer one, has it on its way,*)
(* or has asked for the state somebody who has it and has not answered yet.*)
AtLeast(ts, v, ts2, v2) == ts > ts2 \/ (ts = ts2 /\ v >= v2)

Holds(g, k, ts, v) ==
  \E e \in Ids : /\ g.data["NetworkEntity"][e] = k /\ g.data["Value"][e] # None
                 /\ AtLeast(g.timestamps["Value"][e], g.data["Value"][e], ts, v)

EngineFact(g, k, ts, v) ==
  \E e \in Ids : /\ g.data["NetworkEntity"][e] = k
                 /\ \/ ts = 1 /\ v = 0
                    \/ /\ g.data["Value"][e] # None
                       /\ ts = g.timestamps["Value"][e] /\ v = g.data["Value"][e]

Tells(m, k, ts, v) ==
  /\ m.key = k
  /\ \/ ts = 1 /\ v = 0
     \/ m.component = "Value" /\ ts = m.timestamp /\ v = m.content

Brings(m, k, ts, v) ==
  m.key = k /\ m.component = "Value" /\ AtLeast(m.timestamp, m.content, ts, v)

(* The engines and messages of a room without removals and deletions.      *)
Steady(g) ==
  /\ g.removed = {} /\ g.dirty \in SUBSET ({"NetworkEntity"} \X Ids)
  /\ \A e \in Ids : /\ g.lastSent["Value"][e] = g.data["Value"][e]
                    /\ g.data["Value"][e] = None <=> g.timestamps["Value"][e] = 0

Plain(m) ==
  /\ m.type = "COMPONENT"
  /\ m.component = "Value" => m.content \in Values /\ m.timestamp > 0

(* What an engine knows after the messages ms.                             *)
Learned(g, ms, h) ==
  /\ \A k \in Keys, ts \in Nat, v \in Nat :
       /\ Holds(g, k, ts, v) => Holds(h, k, ts, v)
       /\ EngineFact(h, k, ts, v) => EngineFact(g, k, ts, v) \/ \E m \in ms : Tells(m, k, ts, v)
  /\ \A m \in ms : m.component = "Value" => Holds(h, m.key, m.timestamp, m.content)

LEMMA LearnedNothing ==
  ASSUME NEW g
  PROVE  Learned(g, {}, g)
  BY DEF Learned

LEMMA LearnedMore ==
  ASSUME NEW g, NEW h, NEW i, NEW ms, NEW ns \in SUBSET NetworkMessages, NEW os, os = ms \cup ns,
         ms \in SUBSET NetworkMessages,
         \A m \in ms : Plain(m), Learned(g, ms, h), Learned(h, ns, i)
  PROVE  Learned(g, os, i)
  <1>1. ASSUME NEW m \in ms, m.component = "Value" PROVE Holds(i, m.key, m.timestamp, m.content)
    <2>1. m.key \in Keys /\ m.timestamp \in Nat /\ m.content \in Nat
      BY <1>1, MessageParts, NetworkAssumption DEF Plain
    <2>2. Holds(h, m.key, m.timestamp, m.content)
      BY <1>1 DEF Learned
    <2> QED
      BY <2>1, <2>2 DEF Learned
  <1> QED
    BY <1>1 DEF Learned

(* Values held only grow.                                                  *)
LEMMA AtLeastAgain ==
  ASSUME NEW a \in Nat, NEW v \in Nat, NEW b \in Nat, NEW w \in Nat, NEW d \in Nat, NEW x \in Nat,
         AtLeast(a, v, b, w), AtLeast(b, w, d, x)
  PROVE  AtLeast(a, v, d, x)
  BY DEF AtLeast

Raises(g, h) ==
  \A e \in Ids : g.data["NetworkEntity"][e] # None /\ g.data["Value"][e] # None =>
     /\ h.data["NetworkEntity"][e] = g.data["NetworkEntity"][e] /\ h.data["Value"][e] # None
     /\ AtLeast(h.timestamps["Value"][e], h.data["Value"][e],
                g.timestamps["Value"][e], g.data["Value"][e])

LEMMA ValueParts ==
  ASSUME NEW g \in EngineStates, NEW e \in Ids
  PROVE  /\ g.timestamps["Value"][e] \in Nat /\ g.data["Value"][e] \in {None} \cup Values
         /\ g.data["Value"][e] # None => g.data["Value"][e] \in Nat
  BY EngineParts, NetworkAssumption DEF Components

LEMMA RaisedHolds ==
  ASSUME NEW g \in EngineStates, NEW h \in EngineStates, Raises(g, h),
         NEW k \in Keys, NEW ts \in Nat, NEW v \in Nat, Holds(g, k, ts, v)
  PROVE  Holds(h, k, ts, v)
  <1>1. PICK e \in Ids : /\ g.data["NetworkEntity"][e] = k /\ g.data["Value"][e] # None
                         /\ AtLeast(g.timestamps["Value"][e], g.data["Value"][e], ts, v)
    BY DEF Holds
  <1>2. /\ h.data["NetworkEntity"][e] = k /\ h.data["Value"][e] # None
        /\ AtLeast(h.timestamps["Value"][e], h.data["Value"][e],
                   g.timestamps["Value"][e], g.data["Value"][e])
    BY <1>1, NetworkAssumption DEF Raises
  <1>3. /\ g.timestamps["Value"][e] \in Nat /\ g.data["Value"][e] \in Nat
        /\ h.timestamps["Value"][e] \in Nat /\ h.data["Value"][e] \in Nat
    BY <1>1, <1>2, ValueParts
  <1>4. AtLeast(h.timestamps["Value"][e], h.data["Value"][e], ts, v)
    <2> DEFINE a == h.timestamps["Value"][e]
               w == h.data["Value"][e]
               b == g.timestamps["Value"][e]
               x == g.data["Value"][e]
    <2>1. /\ a \in Nat /\ w \in Nat /\ b \in Nat /\ x \in Nat
          /\ AtLeast(a, w, b, x) /\ AtLeast(b, x, ts, v)
      BY <1>1, <1>2, <1>3
    <2> HIDE DEF a, w, b, x
    <2>2. AtLeast(a, w, ts, v)
      BY <2>1, AtLeastAgain
    <2> QED
      BY <2>2 DEF a, w
  <1> QED
    BY <1>2, <1>4 DEF Holds

(* Mapping a key and an update teach what the message says.                *)
LEMMA MapKeyLearns ==
  ASSUME NEW g \in EngineStates, Steady(g), NEW k \in Keys, NEW e, NEW h \in EngineStates,
         Mapping(g, k, e, h)
  PROVE  /\ Steady(h) /\ Raises(g, h)
         /\ \A j, ts, v : EngineFact(h, j, ts, v) =>
              EngineFact(g, j, ts, v) \/ (j = k /\ ts = 1 /\ v = 0)
  <1>1. Steady(h)
    BY DEF Steady, Mapping
  <1>2. Raises(g, h)
    <2>1. SUFFICES ASSUME NEW f \in Ids, g.data["NetworkEntity"][f] # None, g.data["Value"][f] # None
          PROVE  /\ h.data["NetworkEntity"][f] = g.data["NetworkEntity"][f] /\ h.data["Value"][f] # None
                 /\ AtLeast(h.timestamps["Value"][f], h.data["Value"][f],
                            g.timestamps["Value"][f], g.data["Value"][f])
      BY DEF Raises
    <2>2. /\ h.data["NetworkEntity"][f] = g.data["NetworkEntity"][f]
          /\ h.data["Value"][f] = g.data["Value"][f] /\ h.timestamps = g.timestamps
      BY <2>1 DEF Mapping
    <2>3. g.timestamps["Value"][f] \in Nat /\ g.data["Value"][f] \in Nat
      BY <2>1, ValueParts
    <2> QED
      BY <2>1, <2>2, <2>3 DEF AtLeast
  <1>3. ASSUME NEW j, NEW ts, NEW v, EngineFact(h, j, ts, v), ~(j = k /\ ts = 1 /\ v = 0)
        PROVE  EngineFact(g, j, ts, v)
    <2>1. PICK f \in Ids : /\ h.data["NetworkEntity"][f] = j
                           /\ \/ ts = 1 /\ v = 0
                              \/ /\ h.data["Value"][f] # None
                                 /\ ts = h.timestamps["Value"][f] /\ v = h.data["Value"][f]
      BY <1>3 DEF EngineFact
    <2>2. h.data["Value"][f] = g.data["Value"][f] /\ h.timestamps = g.timestamps
      BY DEF Mapping
    <2>3. g.data["NetworkEntity"][f] = j
      BY <1>3, <2>1, <2>2 DEF Mapping
    <2> QED
      BY <2>1, <2>2, <2>3 DEF EngineFact
  <1> QED
    BY <1>1, <1>2, <1>3

LEMMA UpdateLearns ==
  ASSUME NEW g \in EngineStates, Steady(g), NEW next, NEW m, Sound(m, next), Plain(m),
         NEW e \in Ids, g.data["NetworkEntity"][e] = m.key, NEW h, h = updateFromCrdt(g, e, m)
  PROVE  /\ Steady(h) /\ Raises(g, h)
         /\ \A j, ts, v : EngineFact(h, j, ts, v) => EngineFact(g, j, ts, v) \/ Tells(m, j, ts, v)
         /\ m.component = "Value" => Holds(h, m.key, m.timestamp, m.content)
  <1> DEFINE T(i) == i.timestamps["Value"]
             V(i) == i.data["Value"]
             N(i) == i.data["NetworkEntity"]
  <1>1. /\ m \in NetworkMessages /\ m.component \in Components /\ m.timestamp \in Nat
        /\ m.component = "NetworkEntity" => m.content = m.key
        /\ m.component = "Value" => m.content \in Values /\ m.content \in Nat /\ m.content # None
                                    /\ m.timestamp > 0
    BY MessageParts, NetworkAssumption DEF Sound, Plain
  <1>2. \A f \in Ids : /\ T(g)[f] \in Nat /\ V(g)[f] \in {None} \cup Values
                       /\ V(g)[f] # None => V(g)[f] \in Nat
                       /\ V(g)[f] = None <=> T(g)[f] = 0
    BY ValueParts DEF Steady
  <1>3. CASE ~Wins(g, e, m)
    <2>1. h = g
      BY <1>3 DEF updateFromCrdt
    <2>2. Raises(g, g)
      BY <1>2 DEF Raises, AtLeast
    <2>3. ASSUME m.component = "Value" PROVE Holds(g, m.key, m.timestamp, m.content)
      <3>1. /\ ~(m.timestamp > T(g)[e])
            /\ m.timestamp = T(g)[e] => ~Greater(m.content, V(g)[e])
        BY <1>3, <2>3 DEF Wins
      <3>2. V(g)[e] # None /\ AtLeast(T(g)[e], V(g)[e], m.timestamp, m.content)
        <4>1. T(g)[e] \in Nat /\ T(g)[e] >= m.timestamp
          BY <1>1, <1>2, <3>1
        <4>2. V(g)[e] # None /\ V(g)[e] \in Nat
          BY <1>1, <1>2, <2>3, <4>1
        <4>3. m.timestamp = T(g)[e] => V(g)[e] >= m.content
          BY <1>1, <2>3, <3>1, <4>2 DEF Greater
        <4> QED
          BY <1>1, <4>1, <4>2, <4>3 DEF AtLeast
      <3> QED
        BY <3>2 DEF Holds
    <2> QED
      BY <2>1, <2>2, <2>3
  <1>4. CASE Wins(g, e, m) /\ m.component # "Value"
    <2>1. /\ h.removed = g.removed /\ h.dirty = g.dirty
          /\ h.data = [g.data EXCEPT ![m.component][e] = m.content]
          /\ h.lastSent = [g.lastSent EXCEPT ![m.component][e] = m.content]
          /\ h.timestamps = [g.timestamps EXCEPT ![m.component][e] = m.timestamp]
      BY <1>1, <1>4, UpdateFields DEF Plain
    <2>2. V(h) = V(g) /\ T(h) = T(g) /\ h.lastSent["Value"] = g.lastSent["Value"]
      BY <1>1, <1>4, <2>1 DEF EngineStates, DataMaps, Components
    <2>3. \A f \in Ids : N(h)[f] = N(g)[f]
      BY <1>1, <2>1 DEF EngineStates, DataMaps, Components
    <2>4. Steady(h)
      BY <2>1, <2>2 DEF Steady
    <2>5. Raises(g, h)
      BY <1>2, <2>2, <2>3 DEF Raises, AtLeast
    <2>6. \A j, ts, v : EngineFact(h, j, ts, v) => EngineFact(g, j, ts, v)
      BY <2>2, <2>3 DEF EngineFact
    <2> QED
      BY <1>4, <2>4, <2>5, <2>6
  <1>5. CASE Wins(g, e, m) /\ m.component = "Value"
    <2>1. /\ h.removed = g.removed /\ h.dirty = g.dirty
          /\ h.data = [g.data EXCEPT !["Value"][e] = m.content]
          /\ h.lastSent = [g.lastSent EXCEPT !["Value"][e] = m.content]
          /\ h.timestamps = [g.timestamps EXCEPT !["Value"][e] = m.timestamp]
      <3>1. m.type = "COMPONENT"
        BY DEF Plain
      <3>2. Won(g, e, m, "Value", h)
        BY <1>1, <1>5, <3>1, WinningUpdate
      <3> QED
        BY <3>2 DEF Won
    <2>2. \A f \in Ids : /\ V(h)[f] = IF f = e THEN m.content ELSE V(g)[f]
                         /\ T(h)[f] = IF f = e THEN m.timestamp ELSE T(g)[f]
                         /\ h.lastSent["Value"][f] = IF f = e THEN m.content ELSE g.lastSent["Value"][f]
                         /\ N(h)[f] = N(g)[f]
      BY <2>1 DEF EngineStates, DataMaps, Components
    <2>3. AtLeast(m.timestamp, m.content, m.timestamp, m.content)
      BY <1>1, <1>5 DEF AtLeast
    <2>4. V(g)[e] # None => AtLeast(m.timestamp, m.content, T(g)[e], V(g)[e])
      BY <1>1, <1>2, <1>5 DEF AtLeast, Wins, Greater
    <2>5. Steady(h)
      BY <1>1, <1>5, <2>1, <2>2 DEF Steady
    <2>6. Raises(g, h)
      <3>1. ASSUME NEW f \in Ids, N(g)[f] # None, V(g)[f] # None
            PROVE  N(h)[f] = N(g)[f] /\ V(h)[f] # None /\ AtLeast(T(h)[f], V(h)[f], T(g)[f], V(g)[f])
        <4>1. CASE f = e
          BY <1>1, <1>5, <2>2, <2>4, <3>1, <4>1
        <4>2. CASE f # e
          BY <1>2, <2>2, <3>1, <4>2 DEF AtLeast
        <4> QED
          BY <4>1, <4>2
      <3> QED
        BY <3>1 DEF Raises
    <2>7. Holds(h, m.key, m.timestamp, m.content)
      BY <1>1, <1>5, <2>2, <2>3 DEF Holds
    <2>8. ASSUME NEW j, NEW ts, NEW v, EngineFact(h, j, ts, v)
          PROVE  EngineFact(g, j, ts, v) \/ Tells(m, j, ts, v)
      <3>1. PICK f \in Ids : /\ N(h)[f] = j
                             /\ (ts = 1 /\ v = 0) \/ (V(h)[f] # None /\ ts = T(h)[f] /\ v = V(h)[f])
        BY <2>8 DEF EngineFact
      <3>2. CASE f = e
        BY <1>5, <2>2, <3>1, <3>2 DEF Tells
      <3>3. CASE f # e
        <4>1. /\ N(g)[f] = j
              /\ (ts = 1 /\ v = 0) \/ (V(g)[f] # None /\ ts = T(g)[f] /\ v = V(g)[f])
          BY <2>2, <3>1, <3>3
        <4> QED
          BY <4>1 DEF EngineFact
      <3> QED
        BY <3>2, <3>3
    <2> QED
      BY <2>5, <2>6, <2>7, <2>8
  <1> QED
    BY <1>3, <1>4, <1>5

(* A message, and a packet, processed.                                     *)
SteadyStage(st, next) == GoodStage(st, next) /\ Steady(st.engine) /\ st.toClean = {}

LEMMA ReceiveLearns ==
  ASSUME NEW next \in Counters, NEW st, SteadyStage(st, next), NEW m, Sound(m, next), Plain(m),
         Receive(st, m).engine.nextEntity <= MaxEntity + 1
  PROVE  /\ SteadyStage(Receive(st, m), next)
         /\ Learned(st.engine, {m}, Receive(st, m).engine)
  <1> DEFINE g == st.engine
             e == LocalId(g, m.key)
             i == mapKey(g, m.key)
             new == Receive(st, m)
  <1>1. m \in NetworkMessages /\ m.key \in Keys /\ Given(m.key, next) /\ m.type = "COMPONENT"
    BY MessageParts DEF Sound, Plain
  <1>2. GoodStage(new, next)
    BY ReceiveGood DEF SteadyStage
  <1>3. /\ new.engine.nextEntity = i.nextEntity /\ new.toClean = {}
        /\ new.engine = IF e \in Live(i) THEN updateFromCrdt(i, e, m) ELSE i
    BY <1>1, ReceiveShaped DEF SteadyStage, GoodStage
  <1>4. Good(i, next) /\ Mapping(g, m.key, e, i) /\ g \in EngineStates /\ i \in EngineStates
    BY <1>1, <1>3, MapKeyGood DEF SteadyStage, GoodStage, Good
  <1>5. Steady(g)
    BY DEF SteadyStage
  <1> HIDE DEF g, e, i, new
  <1>6. /\ Steady(i) /\ Raises(g, i)
        /\ \A j, ts, v : EngineFact(i, j, ts, v) =>
             EngineFact(g, j, ts, v) \/ (j = m.key /\ ts = 1 /\ v = 0)
    BY <1>1, <1>4, <1>5, MapKeyLearns
  <1>7. /\ e \in Ids /\ i.data["NetworkEntity"][e] = m.key /\ new.engine = updateFromCrdt(i, e, m)
    <2>1. e \in Ids /\ e < i.nextEntity /\ i.data["NetworkEntity"][e] = m.key
      BY <1>4 DEF Mapping
    <2>2. e \in Live(i)
      BY <1>6, <2>1 DEF Live, Steady
    <2> QED
      BY <1>3, <2>1, <2>2
  <1>8. /\ Steady(new.engine) /\ Raises(i, new.engine)
        /\ \A j, ts, v : EngineFact(new.engine, j, ts, v) => EngineFact(i, j, ts, v) \/ Tells(m, j, ts, v)
        /\ m.component = "Value" => Holds(new.engine, m.key, m.timestamp, m.content)
    BY <1>4, <1>6, <1>7, UpdateLearns
  <1>9. Learned(g, {m}, new.engine)
    <2>1. new.engine \in EngineStates
      BY <1>2 DEF GoodStage, Good
    <2>2. ASSUME NEW k \in Keys, NEW ts \in Nat, NEW v \in Nat, Holds(g, k, ts, v)
          PROVE  Holds(new.engine, k, ts, v)
      <3>1. Holds(i, k, ts, v)
        BY <1>4, <1>6, <2>2, RaisedHolds
      <3> QED
        BY <1>4, <1>8, <2>1, <3>1, RaisedHolds
    <2>3. ASSUME NEW k \in Keys, NEW ts \in Nat, NEW v \in Nat, EngineFact(new.engine, k, ts, v)
          PROVE  EngineFact(g, k, ts, v) \/ Tells(m, k, ts, v)
      BY <1>6, <1>8, <2>3 DEF Tells
    <2> QED
      BY <1>8, <2>2, <2>3 DEF Learned
  <1> QED
    BY <1>2, <1>3, <1>8, <1>9 DEF SteadyStage, g, new

LEMMA ProcessedLearns ==
  ASSUME NEW next \in Counters, NEW g, Good(g, next), Steady(g),
         NEW messages \in Seq(SoundMessages(next)), \A m \in Range(messages) : Plain(m),
         Processed(g, messages).engine.nextEntity <= MaxEntity + 1
  PROVE  /\ SteadyStage(Processed(g, messages), next)
         /\ Learned(g, Range(messages), Processed(g, messages).engine)
  <1>1. Len(messages) \in Nat
    OBVIOUS
  <1>2. PICK after : /\ after[0] = [engine |-> g, toClean |-> {}]
                     /\ \A i \in 1 .. Len(messages) : after[i] = Receive(after[i - 1], messages[i])
                     /\ Processed(g, messages) = after[Len(messages)]
    BY <1>1, ProcessedSteps
  <1> DEFINE n == Len(messages)
             First(i) == {messages[j] : j \in 1 .. i}
             Reached == {i \in Nat : i <= n => StageShaped(after[i])}
             Done == {i \in Nat : (i <= n /\ after[i].engine.nextEntity <= MaxEntity + 1)
                                   => /\ SteadyStage(after[i], next)
                                      /\ Learned(g, First(i), after[i].engine)}
  <1>3. StageShaped(after[0]) /\ SteadyStage(after[0], next) /\ after[0].engine = g
    BY <1>2, GoodIsShaped DEF StageShaped, SteadyStage, GoodStage, Shaped
  <1>4. ASSUME NEW i \in Nat, i + 1 <= n
        PROVE  after[i + 1] = Receive(after[i], messages[i + 1]) /\ i + 1 \in 1 .. n
    BY <1>2, <1>4
  <1>5. \A i \in 1 .. n : /\ messages[i] \in NetworkMessages /\ Sound(messages[i], next)
                          /\ Plain(messages[i])
    BY RangeOfSequence DEF SoundMessages
  <1> HIDE DEF n
  <1>6. \A i \in Nat : i \in Reached
    <2>1. 0 \in Reached
      BY <1>3
    <2>2. ASSUME NEW i \in Nat, i \in Reached PROVE i + 1 \in Reached
      <3>1. SUFFICES ASSUME i + 1 <= n PROVE StageShaped(after[i + 1])
        OBVIOUS
      <3>2. StageShaped(after[i]) /\ after[i + 1] = Receive(after[i], messages[i + 1])
        BY <1>1, <1>4, <2>2, <3>1 DEF n
      <3> QED
        BY <3>2, ReceiveKeepsShape
    <2> HIDE DEF Reached
    <2> QED
      BY <2>1, <2>2, Induction
  <1>7. \A i \in Nat : i \in Done
    <2>1. 0 \in Done
      <3>1. First(0) = {}
        OBVIOUS
      <3> QED
        BY <1>3, <3>1, LearnedNothing
    <2>2. ASSUME NEW i \in Nat, i \in Done PROVE i + 1 \in Done
      <3>1. SUFFICES ASSUME i + 1 <= n, after[i + 1].engine.nextEntity <= MaxEntity + 1
                     PROVE  /\ SteadyStage(after[i + 1], next)
                            /\ Learned(g, First(i + 1), after[i + 1].engine)
        OBVIOUS
      <3>2. /\ i <= n /\ StageShaped(after[i]) /\ StageShaped(after[i + 1])
            /\ after[i + 1] = Receive(after[i], messages[i + 1]) /\ i + 1 \in 1 .. n
        BY <1>1, <1>4, <1>6, <3>1 DEF n
      <3>3. after[i].engine.nextEntity <= after[i + 1].engine.nextEntity
        BY <3>2, ReceiveKeepsShape
      <3>4. after[i].engine.nextEntity \in Nat /\ after[i + 1].engine.nextEntity \in Nat
        BY <3>2 DEF StageShaped, Shaped
      <3>5. after[i].engine.nextEntity <= MaxEntity + 1
        BY <3>1, <3>3, <3>4, NetworkAssumption
      <3>6. SteadyStage(after[i], next) /\ Learned(g, First(i), after[i].engine)
        BY <2>2, <3>2, <3>5
      <3> DEFINE m == messages[i + 1]
      <3>7. m \in NetworkMessages /\ Sound(m, next) /\ Plain(m)
        BY <1>5, <3>2
      <3>8. First(i + 1) = First(i) \cup {m}
        OBVIOUS
      <3>9. \A x \in First(i) : x \in NetworkMessages /\ Plain(x)
        BY <1>1, <1>5, <3>2 DEF n
      <3> HIDE DEF m, First, Done
      <3>10. /\ SteadyStage(after[i + 1], next)
             /\ Learned(after[i].engine, {m}, after[i + 1].engine)
        BY <3>1, <3>2, <3>6, <3>7, ReceiveLearns DEF m
      <3>11. Learned(g, First(i + 1), after[i + 1].engine)
        <4>1. First(i) \in SUBSET NetworkMessages /\ {m} \in SUBSET NetworkMessages
          BY <3>7, <3>9
        <4> QED
          BY <3>6, <3>8, <3>9, <3>10, <4>1, LearnedMore
      <3> QED
        BY <3>10, <3>11
    <2> HIDE DEF Done
    <2> QED
      BY <2>1, <2>2, Induction
  <1>8. n \in Nat /\ n <= n /\ Processed(g, messages) = after[n] /\ First(n) = Range(messages)
    BY <1>1, <1>2, RangeOfSequence DEF n
  <1> QED
    BY <1>7, <1>8

(* An engine that differs in nothing facts are made of.                    *)
Same(g, h) ==
  /\ h.removed = g.removed
  /\ \A e \in Ids : /\ h.data["NetworkEntity"][e] = g.data["NetworkEntity"][e]
                    /\ h.data["Value"][e] = g.data["Value"][e]
                    /\ h.timestamps["Value"][e] = g.timestamps["Value"][e]
                    /\ h.lastSent["Value"][e] = g.lastSent["Value"][e]

LEMMA SameLearned ==
  ASSUME NEW g, NEW h, Same(g, h)
  PROVE  Learned(g, {}, h) /\ \A i, ms : Learned(i, ms, g) => Learned(i, ms, h)
  <1>1. \A k, ts, v : Holds(h, k, ts, v) <=> Holds(g, k, ts, v)
    BY DEF Same, Holds
  <1>2. \A k, ts, v : EngineFact(h, k, ts, v) <=> EngineFact(g, k, ts, v)
    BY DEF Same, EngineFact
  <1> QED
    BY <1>1, <1>2 DEF Learned

LEMMA ReceivedLearns ==
  ASSUME NEW next \in Counters, NEW g, Good(g, next), Steady(g),
         NEW messages \in Seq(SoundMessages(next)), \A m \in Range(messages) : Plain(m),
         NEW h, h = Cleaned(Processed(g, messages)), h.nextEntity <= MaxEntity + 1
  PROVE  Steady(h) /\ Learned(g, Range(messages), h)
  <1> DEFINE st == Processed(g, messages)
             i == st.engine
             d == deleteData(i, Components, {})
  <1>1. messages \in Seq(NetworkMessages) /\ \A j \in 1 .. Len(messages) : Sound(messages[j], next)
    BY DEF SoundMessages
  <1>2. i.nextEntity <= MaxEntity + 1
    BY <1>1, ProcessedGood, CleanedShaped
  <1>3. SteadyStage(st, next) /\ Learned(g, Range(messages), i)
    BY <1>2, ProcessedLearns
  <1>4. i \in EngineStates /\ Steady(i) /\ st.toClean = {}
    BY <1>3 DEF SteadyStage, GoodStage, Good
  <1>5. h = [d EXCEPT !.removed = d.removed \cup {}]
    BY <1>4 DEF Cleaned
  <1> HIDE DEF st, i
  <1>6. Deletion(i, Components, {}, d)
    BY <1>4, DeleteDataFields
  <1> HIDE DEF d
  <1>7. /\ h.removed = d.removed /\ h.data = d.data /\ h.dirty = d.dirty
        /\ h.timestamps = d.timestamps /\ h.lastSent = d.lastSent
    BY <1>5, <1>6 DEF Deletion, EngineStates
  <1>8. Same(i, h) /\ h.dirty = i.dirty
    BY <1>6, <1>7 DEF Deletion, Same, Components
  <1>9. Steady(h)
    BY <1>4, <1>8 DEF Steady, Same
  <1> QED
    BY <1>3, <1>8, <1>9, SameLearned DEF i

(* What a call and the flush after it add.                                 *)
Flushing(h, i) ==
  /\ Steady(Flushed(i)) /\ Flushed(i).dirty = {}
  /\ Learned(h, Range(Updates(i, "Value")), Flushed(i))
  /\ \A m \in Range(Updates(i, "Value")) : Plain(m)

LEMMA FlushedQuietly ==
  ASSUME NEW h \in EngineStates, Steady(h), NEW next, NEW i, Good(i, next), Same(h, i),
         ToSend(i, "Value") = {}
  PROVE  Flushing(h, i) /\ Range(Updates(i, "Value")) = {}
  <1> DEFINE f == Flushed(i)
  <1>1. i \in EngineStates
    BY DEF Good
  <1>2. Range(Updates(i, "Value")) = {}
    BY UpdatesSound DEF Components
  <1>3. /\ f.removed = i.removed /\ f.dirty = {} /\ f.data = i.data
        /\ \A e \in Ids : /\ f.timestamps["Value"][e] = i.timestamps["Value"][e] + 0
                          /\ f.lastSent["Value"][e] = i.lastSent["Value"][e]
    BY <1>1, FlushedFields DEF Components
  <1> HIDE DEF f
  <1>4. \A e \in Ids : i.timestamps["Value"][e] \in Nat
    BY <1>1, ValueParts
  <1>5. Same(h, f)
    BY <1>3, <1>4 DEF Same
  <1>6. Steady(f)
    BY <1>3, <1>5 DEF Steady, Same
  <1> QED
    BY <1>2, <1>3, <1>5, <1>6, SameLearned DEF Flushing, f

Changes(h, e, i) ==
  /\ i.removed = {} /\ i.timestamps = h.timestamps
  /\ i.data["Value"][e] \in Values /\ i.lastSent["Value"][e] # i.data["Value"][e]
  /\ i.data["SyncComponents"][e] # None
  /\ h.data["Value"][e] # None => i.data["NetworkEntity"][e] = h.data["NetworkEntity"][e]
  /\ \A f \in Ids :
       /\ <<"Value", f>> \in i.dirty <=> f = e
       /\ f # e => /\ i.data["NetworkEntity"][f] = h.data["NetworkEntity"][f]
                   /\ i.data["Value"][f] = h.data["Value"][f]
                   /\ i.lastSent["Value"][f] = h.lastSent["Value"][f]

LEMMA FlushedChange ==
  ASSUME NEW h \in EngineStates, Steady(h), NEW next, NEW i, Good(i, next), NEW e \in Ids,
         Changes(h, e, i)
  PROVE  Flushing(h, i)
  <1> DEFINE f == Flushed(i)
             N(g) == g.data["NetworkEntity"]
             V(g) == g.data["Value"]
             T(g) == g.timestamps["Value"]
             m == Row(i, "Value", e, T(i)[e] + 1)
  <1>1. i \in EngineStates /\ V(i)[e] \in Nat /\ V(i)[e] # None
    BY NetworkAssumption DEF Good, Changes
  <1>2. ToSend(i, "Value") = {e}
    BY <1>1 DEF ToSend, Changes
  <1>3. {d \in ToSend(i, "Value") : syncFilter(i, "Value", d, T(i)[d] + 1)} = {e}
    BY <1>2 DEF syncFilter, Changes
  <1>4. Range(Updates(i, "Value")) = {m}
    BY <1>3, UpdatesSound DEF Components
  <1>5. /\ m.type = "COMPONENT" /\ m.key = N(i)[e] /\ m.component = "Value"
        /\ m.timestamp = T(i)[e] + 1 /\ m.content = V(i)[e]
    BY DEF Row, PutNetwork
  <1>6. /\ f.removed = {} /\ f.dirty = {} /\ N(f) = N(i) /\ V(f) = V(i)
        /\ \A d \in Ids : /\ T(f)[d] = T(i)[d] + IF d = e THEN 1 ELSE 0
                          /\ f.lastSent["Value"][d] = IF d = e THEN V(i)[d] ELSE i.lastSent["Value"][d]
    BY <1>1, <1>2, FlushedFields DEF Components, Changes
  <1>7. \A d \in Ids : /\ T(h)[d] \in Nat /\ T(i)[d] = T(h)[d]
                       /\ V(h)[d] # None => V(h)[d] \in Nat
    BY ValueParts DEF Changes
  <1> HIDE DEF f, m
  <1>8. Plain(m)
    BY <1>5, <1>7 DEF Plain, Changes
  <1>9. ASSUME NEW d \in Ids, d # e
         PROVE  /\ N(f)[d] = N(h)[d] /\ V(f)[d] = V(h)[d] /\ T(f)[d] = T(h)[d]
                /\ f.lastSent["Value"][d] = h.lastSent["Value"][d]
    <2>1. /\ N(i)[d] = N(h)[d] /\ V(i)[d] = V(h)[d]
          /\ i.lastSent["Value"][d] = h.lastSent["Value"][d]
      BY <1>9 DEF Changes
    <2>2. T(f)[d] = T(i)[d] + 0 /\ f.lastSent["Value"][d] = i.lastSent["Value"][d]
      BY <1>6, <1>9
    <2>3. T(i)[d] = T(h)[d] /\ T(h)[d] \in Nat
      BY <1>7
    <2> QED
      BY <1>6, <2>1, <2>2, <2>3
  <1>10. Steady(f)
    <2>1. ASSUME NEW d \in Ids
          PROVE  f.lastSent["Value"][d] = V(f)[d] /\ (V(f)[d] = None <=> T(f)[d] = 0)
      <3>1. CASE d = e
        BY <1>1, <1>6, <1>7, <3>1
      <3>2. CASE d # e
        BY <1>9, <3>2 DEF Steady
      <3> QED
        BY <3>1, <3>2
    <2> QED
      BY <1>6, <2>1 DEF Steady
  <1>11. Raises(h, f)
    <2>1. ASSUME NEW d \in Ids, N(h)[d] # None, V(h)[d] # None
          PROVE  N(f)[d] = N(h)[d] /\ V(f)[d] # None /\ AtLeast(T(f)[d], V(f)[d], T(h)[d], V(h)[d])
      <3>1. CASE d = e
        BY <1>1, <1>6, <1>7, <2>1, <3>1 DEF AtLeast, Changes
      <3>2. CASE d # e
        BY <1>7, <1>9, <2>1, <3>2 DEF AtLeast
      <3> QED
        BY <3>1, <3>2
    <2> QED
      BY <2>1 DEF Raises
  <1>12. ASSUME NEW k, NEW ts, NEW v, EngineFact(f, k, ts, v)
         PROVE  EngineFact(h, k, ts, v) \/ Tells(m, k, ts, v)
    <2>1. PICK d \in Ids : /\ N(f)[d] = k
                           /\ (ts = 1 /\ v = 0) \/ (V(f)[d] # None /\ ts = T(f)[d] /\ v = V(f)[d])
      BY <1>12 DEF EngineFact
    <2>2. CASE d = e
      BY <1>5, <1>6, <2>1, <2>2 DEF Tells
    <2>3. CASE d # e
      BY <1>9, <2>1, <2>3 DEF EngineFact
    <2> QED
      BY <2>2, <2>3
  <1>13. Holds(f, m.key, m.timestamp, m.content)
    <2>1. AtLeast(T(f)[e], V(f)[e], m.timestamp, m.content)
      BY <1>1, <1>5, <1>6, <1>7 DEF AtLeast
    <2> QED
      BY <1>1, <1>5, <1>6, <2>1 DEF Holds
  <1>14. \A k \in Keys, ts \in Nat, v \in Nat : Holds(h, k, ts, v) => Holds(f, k, ts, v)
    <2>1. f \in EngineStates
      BY <1>1, FlushedFields DEF f
    <2> QED
      BY <1>11, <2>1, RaisedHolds
  <1>15. Learned(h, {m}, f)
    BY <1>12, <1>13, <1>14 DEF Learned
  <1> QED
    BY <1>4, <1>6, <1>8, <1>10, <1>15 DEF Flushing, f

LEMMA CalledLearns ==
  ASSUME ~Removes, ~Deletes, NEW next, NEW h, Good(h, next), Steady(h), NEW c \in Clients,
         NEW call \in {<<h, {}>>} \cup SceneCalls(c, h), call[1].nextEntity <= MaxEntity + 1,
         NEW later, Good(call[1], later)
  PROVE  /\ Flushing(h, call[1]) /\ call[2] = {}
         /\ call = <<h, {}>> => Range(Updates(call[1], "Value")) = {}
  <1>1. h \in EngineStates
    BY DEF Good
  <1>2. /\ h.removed = {}
        /\ \A f \in Ids : /\ <<"Value", f>> \notin h.dirty
                          /\ h.lastSent["Value"][f] = h.data["Value"][f]
    BY DEF Steady
  <1>3. \/ call = <<h, {}>>
        \/ \E v \in Values : call = <<syncEntity(h, c, v), {}>>
        \/ \E e \in Writable(h), v \in Values : call = <<getMutable(h, "Value", e, v), {}>>
    <2>1. Called(h, c, call)
      BY CallsAre
    <2> QED
      BY <2>1 DEF Called
  <1>4. CASE call = <<h, {}>>
    <2>1. call[1] = h /\ call[2] = {}
      BY <1>4
    <2>2. ToSend(h, "Value") = {}
      BY <1>2 DEF ToSend
    <2>3. Same(h, h)
      BY DEF Same
    <2> QED
      BY <1>1, <2>1, <2>2, <2>3, FlushedQuietly
  <1>5. ASSUME NEW v \in Values, call = <<syncEntity(h, c, v), {}>>
        PROVE  Flushing(h, call[1]) /\ call[2] = {} /\ call # <<h, {}>>
    <2> DEFINE e == h.nextEntity
               i == syncEntity(h, c, v)
    <2>1. call[1] = i /\ call[2] = {} /\ Good(i, later)
      BY <1>5
    <2>2. Created(h, c, v, i)
      BY <1>1, <2>1, SyncEntityFields
    <2> HIDE DEF i
    <2>3. e \in Ids /\ v # None /\ SyncList # None /\ i.nextEntity = e + 1
      BY <2>2, NetworkAssumption DEF Created
    <2>4. h.data["Value"][e] = None
      BY <2>3, NothingAtFresh, NetworkAssumption DEF Ids
    <2>5. /\ i.data["Value"][e] = v /\ i.lastSent["Value"][e] = None
          /\ i.data["SyncComponents"][e] = SyncList
      BY <2>2, <2>3 DEF Created
    <2>6. \A f \in Ids : <<"Value", f>> \in i.dirty <=> f = e
      <3>1. "Value" \in Components
        BY DEF Components
      <3> QED
        BY <1>2, <2>2, <3>1 DEF Created
    <2>7. \A f \in Ids : f # e => /\ i.data["NetworkEntity"][f] = h.data["NetworkEntity"][f]
                                  /\ i.data["Value"][f] = h.data["Value"][f]
                                  /\ i.lastSent["Value"][f] = h.lastSent["Value"][f]
      BY <2>2 DEF Created
    <2>8. i.removed = {} /\ i.timestamps = h.timestamps
      BY <1>2, <2>2 DEF Created
    <2> HIDE DEF e
    <2>9. Changes(h, e, i)
      BY <2>3, <2>4, <2>5, <2>6, <2>7, <2>8 DEF Changes
    <2>10. Flushing(h, i)
      BY <1>1, <2>1, <2>3, <2>9, FlushedChange
    <2>11. i # h
      BY <2>3, <2>4, <2>5
    <2> QED
      BY <2>1, <2>10, <2>11
  <1>6. ASSUME NEW e \in Writable(h), NEW v \in Values, call = <<getMutable(h, "Value", e, v), {}>>
        PROVE  /\ Flushing(h, call[1]) /\ call[2] = {}
               /\ call = <<h, {}>> => Range(Updates(call[1], "Value")) = {}
    <2> DEFINE i == getMutable(h, "Value", e, v)
    <2>1. call[1] = i /\ call[2] = {} /\ Good(i, later)
      BY <1>6
    <2>2. e \in Ids /\ h.data["Value"][e] # None /\ h.data["SyncComponents"][e] # None /\ v # None
      BY NetworkAssumption DEF Writable, Live
    <2>3. Writing(h, e, v, i)
      BY <1>1, <2>2, WrittenFields
    <2> HIDE DEF i
    <2>4. \A f \in Ids : <<"Value", f>> \in i.dirty <=> f = e
      BY <1>2, <2>3 DEF Writing
    <2>5. CASE v = h.data["Value"][e]
      <3>1. Same(h, i)
        BY <2>3, <2>5 DEF Writing, Same
      <3>2. ToSend(i, "Value") = {}
        BY <1>2, <2>2, <2>3, <2>4, <2>5 DEF ToSend, Writing
      <3> QED
        BY <1>1, <2>1, <3>1, <3>2, FlushedQuietly
    <2>6. CASE v # h.data["Value"][e]
      <3>1. Changes(h, e, i)
        BY <1>2, <2>2, <2>3, <2>4, <2>6, ZenonT(40) DEF Writing, Changes
      <3>2. Flushing(h, i)
        BY <1>1, <2>1, <2>2, <3>1, FlushedChange
      <3>3. i # h
        BY <2>2, <2>3, <2>6 DEF Writing
      <3> QED
        BY <2>1, <3>2, <3>3
    <2> QED
      BY <2>5, <2>6
  <1> QED
    BY <1>3, <1>4, <1>5, <1>6
-----------------------------------------------------------------------------
(* The room.                                                               *)
Flying(q) == UNION {Range(p.messages) : p \in Range(q)}

Asked(q) == \E p \in Range(q) : p.kind = "REQ"

Fact(en, ch, k, ts, v) ==
  \/ \E d \in Clients : EngineFact(en[d], k, ts, v)
  \/ \E t, r \in Clients : \E m \in Flying(ch[t][r]) : Tells(m, k, ts, v)

Cover(en, ch, c, k, ts, v) ==
  \/ Holds(en[c], k, ts, v)
  \/ \E t \in Clients : \E m \in Flying(ch[t][c]) : Brings(m, k, ts, v)
  \/ \E t \in Clients : Asked(ch[c][t]) /\ Holds(en[t], k, ts, v)

Covered(en, ch, con) ==
  \A k \in Keys, ts \in Nat, v \in Nat :
    Fact(en, ch, k, ts, v) => /\ \A c \in con : Cover(en, ch, c, k, ts, v)
                              /\ \E d \in con : Holds(en[d], k, ts, v)

(* What a tick of c takes from the channels and adds to them.              *)
Moves(ch, ch2, con, c, s, packet, answer, out) ==
  /\ packet.kind # "NONE" => packet \in Range(ch[s][c])
  /\ packet.kind = "NONE" => Range(packet.messages) = {}
  /\ \A t, r \in Clients :
       /\ Flying(ch2[t][r]) \subseteq Flying(ch[t][r]) \cup out \cup answer
       /\ \A p \in Range(ch[t][r]) :
            p \in Range(ch2[t][r]) \/ (t = s /\ r = c /\ p = packet)
  /\ \A r \in con : r # c /\ c \in con =>
       /\ out \subseteq Flying(ch2[c][r])
       /\ r = s /\ packet.kind = "REQ" => answer \subseteq Flying(ch2[c][r])

(* A message that tells a fact teaches it.                                 *)
LEMMA ToldIsHeld ==
  ASSUME NEW m \in NetworkMessages, Plain(m), m.component = "Value",
         NEW k \in Keys, NEW ts \in Nat, NEW v \in Nat
  PROVE  /\ Tells(m, k, ts, v) => Brings(m, k, ts, v)
         /\ \A g \in EngineStates :
              Brings(m, k, ts, v) /\ Holds(g, m.key, m.timestamp, m.content) => Holds(g, k, ts, v)
  <1>1. m.timestamp \in Nat /\ m.content \in Nat /\ m.timestamp > 0
    BY MessageParts, NetworkAssumption DEF Plain
  <1>2. ASSUME Tells(m, k, ts, v) PROVE Brings(m, k, ts, v)
    BY <1>1, <1>2 DEF Tells, Brings, AtLeast
  <1>3. ASSUME NEW g \in EngineStates, Brings(m, k, ts, v), Holds(g, m.key, m.timestamp, m.content)
        PROVE  Holds(g, k, ts, v)
    <2>1. PICK e \in Ids : /\ g.data["NetworkEntity"][e] = m.key /\ g.data["Value"][e] # None
                           /\ AtLeast(g.timestamps["Value"][e], g.data["Value"][e], m.timestamp, m.content)
      BY <1>3 DEF Holds
    <2> DEFINE a == g.timestamps["Value"][e]
               w == g.data["Value"][e]
               b == m.timestamp
               x == m.content
    <2>2. a \in Nat /\ w \in Nat
      BY <2>1, ValueParts
    <2>3. AtLeast(a, w, b, x) /\ AtLeast(b, x, ts, v) /\ b \in Nat /\ x \in Nat /\ m.key = k
      BY <1>1, <1>3, <2>1 DEF Brings
    <2> HIDE DEF a, w, b, x
    <2>4. AtLeast(a, w, ts, v)
      BY <2>2, <2>3, AtLeastAgain
    <2> QED
      BY <2>1, <2>3, <2>4 DEF Holds, a, w
  <1> QED
    BY <1>2, <1>3

LEMMA CoveredStays ==
  ASSUME NEW en, NEW en2, NEW ch, NEW ch2, NEW con \in SUBSET Clients, NEW c \in Clients,
         NEW s \in Clients, NEW packet, NEW answer, NEW out, NEW u \in SUBSET out,
         Covered(en, ch, con), Moves(ch, ch2, con, c, s, packet, answer, out),
         en2[c] \in EngineStates, \A d \in Clients : d # c => en2[d] = en[d],
         Learned(en[c], Range(packet.messages) \cup u, en2[c]),
         \A t, r \in Clients : \A m \in Flying(ch[t][r]) : m \in NetworkMessages /\ Plain(m),
         \A m \in u : m \in NetworkMessages /\ Plain(m) /\ m.component = "Value",
         u # {} => c \in con, \A t \in Clients : c \notin con => Range(ch[t][c]) = {},
         \A k, ts, v : \A m \in out : Tells(m, k, ts, v) => EngineFact(en2[c], k, ts, v) \/ m \in u,
         \A k, ts, v : \A m \in answer : Tells(m, k, ts, v) => EngineFact(en[c], k, ts, v),
         \A k \in Keys, ts \in Nat, v \in Nat : Holds(en[c], k, ts, v) => \E m \in answer : Brings(m, k, ts, v)
  PROVE  Covered(en2, ch2, con)
  <1>1. SUFFICES ASSUME NEW k \in Keys, NEW ts \in Nat, NEW v \in Nat, Fact(en2, ch2, k, ts, v)
                 PROVE  /\ \A r \in con : Cover(en2, ch2, r, k, ts, v)
                        /\ \E d \in con : Holds(en2[d], k, ts, v)
    BY DEF Covered
  <1> DEFINE told == Range(packet.messages)
             New == \E m \in u : Tells(m, k, ts, v)
  <1>2. \A m \in told : packet.kind # "NONE" /\ packet \in Range(ch[s][c]) /\ m \in Flying(ch[s][c])
    BY DEF Moves, Flying
  <1>3. EngineFact(en2[c], k, ts, v) => Fact(en, ch, k, ts, v) \/ New
    BY <1>2 DEF Learned, Fact
  <1>4. Fact(en, ch, k, ts, v) \/ New
    <2>1. CASE \E d \in Clients : EngineFact(en2[d], k, ts, v)
      BY <1>3, <2>1 DEF Fact
    <2>2. CASE \E t, r \in Clients : \E m \in Flying(ch2[t][r]) : Tells(m, k, ts, v)
      <3>1. PICK t \in Clients, r \in Clients : \E m \in Flying(ch2[t][r]) : Tells(m, k, ts, v)
        BY <2>2
      <3>2. PICK m \in Flying(ch2[t][r]) : Tells(m, k, ts, v)
        BY <3>1
      <3>3. m \in Flying(ch[t][r]) \/ m \in out \/ m \in answer
        BY DEF Moves
      <3> QED
        BY <1>3, <3>2, <3>3 DEF Fact
    <2> QED
      BY <1>1, <2>1, <2>2 DEF Fact
  <1>5. \A d \in Clients : Holds(en[d], k, ts, v) => Holds(en2[d], k, ts, v)
    BY DEF Learned
  <1>6. CASE Fact(en, ch, k, ts, v)
    <2>1. \E d \in con : Holds(en2[d], k, ts, v)
      BY <1>5, <1>6 DEF Covered
    <2>2. ASSUME NEW r \in con PROVE Cover(en2, ch2, r, k, ts, v)
      <3>1. Cover(en, ch, r, k, ts, v)
        BY <1>6 DEF Covered
      <3>2. CASE Holds(en[r], k, ts, v)
        BY <1>5, <3>2 DEF Cover
      <3>3. ASSUME NEW t \in Clients, NEW m \in Flying(ch[t][r]), Brings(m, k, ts, v)
            PROVE  Cover(en2, ch2, r, k, ts, v)
        <4>1. PICK p \in Range(ch[t][r]) : m \in Range(p.messages)
          BY DEF Flying
        <4>2. CASE p \in Range(ch2[t][r])
          <5>1. m \in Flying(ch2[t][r])
            BY <4>1, <4>2 DEF Flying
          <5> QED
            BY <3>3, <5>1 DEF Cover
        <4>3. CASE t = s /\ r = c /\ p = packet
          <5>1. m \in NetworkMessages /\ Plain(m) /\ m.component = "Value"
            BY <3>3 DEF Brings
          <5>2. Holds(en2[c], m.key, m.timestamp, m.content)
            BY <4>1, <4>3, <5>1 DEF Learned
          <5>3. Holds(en2[c], k, ts, v)
            BY <3>3, <5>1, <5>2, ToldIsHeld
          <5> QED
            BY <4>3, <5>3 DEF Cover
        <4> QED
          BY <4>1, <4>2, <4>3 DEF Moves
      <3>4. ASSUME NEW t \in Clients, Asked(ch[r][t]), Holds(en[t], k, ts, v)
            PROVE  Cover(en2, ch2, r, k, ts, v)
        <4>1. PICK p \in Range(ch[r][t]) : p.kind = "REQ"
          BY <3>4 DEF Asked
        <4>2. CASE p \in Range(ch2[r][t])
          BY <1>5, <3>4, <4>1, <4>2 DEF Cover, Asked
        <4>3. CASE r = s /\ t = c /\ p = packet
          <5>1. CASE r = c
            BY <1>5, <3>4, <4>3, <5>1 DEF Cover
          <5>2. CASE r # c
            <6>1. c \in con
              BY <4>3
            <6>2. PICK m \in answer : Brings(m, k, ts, v)
              BY <3>4, <4>3
            <6>3. m \in Flying(ch2[c][r])
              BY <4>1, <4>3, <5>2, <6>1, <6>2 DEF Moves
            <6> QED
              BY <6>2, <6>3 DEF Cover
          <5> QED
            BY <5>1, <5>2
        <4> QED
          BY <4>1, <4>2, <4>3 DEF Moves
      <3> QED
        BY <3>1, <3>2, <3>3, <3>4 DEF Cover
    <2> QED
      BY <2>1, <2>2
  <1>7. CASE New
    <2>1. PICK m \in u : Tells(m, k, ts, v)
      BY <1>7
    <2>2. m \in NetworkMessages /\ Plain(m) /\ m.component = "Value" /\ c \in con
      OBVIOUS
    <2>3. Brings(m, k, ts, v)
      BY <2>1, <2>2, ToldIsHeld
    <2>4. Holds(en2[c], m.key, m.timestamp, m.content)
      BY <2>2 DEF Learned
    <2>5. Holds(en2[c], k, ts, v)
      BY <2>2, <2>3, <2>4, ToldIsHeld
    <2>6. ASSUME NEW r \in con PROVE Cover(en2, ch2, r, k, ts, v)
      <3>1. CASE r = c
        BY <2>5, <3>1 DEF Cover
      <3>2. CASE r # c
        <4>1. m \in Flying(ch2[c][r])
          BY <2>2, <3>2 DEF Moves
        <4> QED
          BY <2>3, <4>1 DEF Cover
      <3> QED
        BY <3>1, <3>2
    <2> QED
      BY <2>2, <2>5, <2>6
  <1> QED
    BY <1>4, <1>6, <1>7

(* What is sent tells what the sender knows.                               *)
LEMMA RowTells ==
  ASSUME NEW g, NEW x, NEW e, NEW ts
  PROVE  LET m == Row(g, x, e, ts)
         IN  /\ m.type = "COMPONENT" /\ m.key = g.data["NetworkEntity"][e] /\ m.component = x
             /\ m.timestamp = ts /\ m.content = g.data[x][e]
  BY DEF Row, PutNetwork

LEMMA OtherRowsTell ==
  ASSUME NEW next, NEW i, Good(i, next), NEW x \in {"NetworkEntity", "SyncComponents"},
         NEW m \in Range(Updates(i, x))
  PROVE  /\ Plain(m)
         /\ \A k, ts, v : Tells(m, k, ts, v) => EngineFact(Flushed(i), k, ts, v)
  <1>1. x \in Components /\ ToSend(i, x) \subseteq Ids
    BY DEF Components, ToSend
  <1>2. Range(Updates(i, x)) =
          {Row(i, x, e, i.timestamps[x][e] + 1) :
             e \in {d \in ToSend(i, x) : syncFilter(i, x, d, i.timestamps[x][d] + 1)}}
    BY <1>1, UpdatesSound
  <1>3. PICK e \in Ids : m = Row(i, x, e, i.timestamps[x][e] + 1)
    BY <1>1, <1>2
  <1>4. m.type = "COMPONENT" /\ m.key = i.data["NetworkEntity"][e] /\ m.component = x
    BY <1>3, RowTells
  <1>5. Flushed(i).data = i.data
    BY FlushedFields DEF Good
  <1> QED
    BY <1>4, <1>5 DEF Plain, Tells, EngineFact

LEMMA ValueRowsAreValues ==
  ASSUME NEW next, NEW i, Good(i, next), NEW m \in Range(Updates(i, "Value"))
  PROVE  m.component = "Value"
  <1>1. "Value" \in Components /\ ToSend(i, "Value") \subseteq Ids
    BY DEF Components, ToSend
  <1>2. Range(Updates(i, "Value")) =
          {Row(i, "Value", e, i.timestamps["Value"][e] + 1) :
             e \in {d \in ToSend(i, "Value") : syncFilter(i, "Value", d, i.timestamps["Value"][d] + 1)}}
    BY <1>1, UpdatesSound
  <1>3. PICK e \in Ids : m = Row(i, "Value", e, i.timestamps["Value"][e] + 1)
    BY <1>1, <1>2
  <1> QED
    BY <1>3, RowTells

LEMMA SnapshotTells ==
  ASSUME NEW next, NEW g, Good(g, next), Steady(g)
  PROVE  /\ \A m \in Range(engineToCrdt(g)) :
              Plain(m) /\ \A k, ts, v : Tells(m, k, ts, v) => EngineFact(g, k, ts, v)
         /\ \A k \in Keys, ts \in Nat, v \in Nat :
              Holds(g, k, ts, v) => \E m \in Range(engineToCrdt(g)) : Brings(m, k, ts, v)
  <1>1. ASSUME NEW x \in Components, NEW m \in Range(Snapshot(g, x))
        PROVE  Plain(m) /\ \A k, ts, v : Tells(m, k, ts, v) => EngineFact(g, k, ts, v)
    <2>1. PICK e \in Present(g, x) : m = Row(g, x, e, g.timestamps[x][e])
      BY SnapshotSound
    <2>2. /\ e \in Ids /\ g.timestamps[x][e] > 0 /\ g.data[x][e] # None
          /\ m.type = "COMPONENT" /\ m.key = g.data["NetworkEntity"][e] /\ m.component = x
          /\ m.timestamp = g.timestamps[x][e] /\ m.content = g.data[x][e]
      BY <2>1, RowTells DEF Present
    <2>3. x = "Value" => m.content \in Values
      BY <2>2, ValueParts DEF Good
    <2> QED
      BY <2>2, <2>3 DEF Plain, Tells, EngineFact
  <1>2. ASSUME NEW k \in Keys, NEW ts \in Nat, NEW v \in Nat, Holds(g, k, ts, v)
        PROVE  \E m \in Range(Snapshot(g, "Value")) : Brings(m, k, ts, v)
    <2>1. PICK e \in Ids : /\ g.data["NetworkEntity"][e] = k /\ g.data["Value"][e] # None
                           /\ AtLeast(g.timestamps["Value"][e], g.data["Value"][e], ts, v)
      BY <1>2 DEF Holds
    <2>2. g.timestamps["Value"][e] > 0
      <3>1. g.timestamps["Value"][e] \in Nat /\ g.timestamps["Value"][e] # 0
        BY <2>1, ValueParts DEF Good, Steady
      <3> QED
        BY <3>1
    <2>3. e \in Present(g, "Value")
      BY <2>1, <2>2, NetworkAssumption DEF Present
    <2> DEFINE m == Row(g, "Value", e, g.timestamps["Value"][e])
    <2>4. m \in Range(Snapshot(g, "Value"))
      BY <2>3, SnapshotSound DEF Components
    <2>5. m.key = k /\ m.component = "Value" /\ m.timestamp = g.timestamps["Value"][e]
          /\ m.content = g.data["Value"][e]
      BY <2>1, RowTells
    <2> HIDE DEF m
    <2> QED
      BY <2>1, <2>4, <2>5 DEF Brings
  <1>3. Range(engineToCrdt(g)) = Range(Snapshot(g, "Value")) \cup Range(Snapshot(g, "NetworkEntity"))
                                 \cup Range(Snapshot(g, "SyncComponents"))
    BY EngineToCrdtSound
  <1> QED
    BY <1>1, <1>2, <1>3 DEF Components

(* What is in the packets a tick sends.                                    *)
LEMMA PacketsFly ==
  ASSUME NEW T, NEW messages \in Seq(T), NEW kind
  PROVE  /\ Flying(<<Packet(kind, messages)>>) = Range(messages)
         /\ Flying(Broadcast(messages)) = Range(messages)
         /\ Flying(<<>>) = {}
  <1>1. Range(<<Packet(kind, messages)>>) = {Packet(kind, messages)}
        /\ Range(<<Packet("CRDT", messages)>>) = {Packet("CRDT", messages)} /\ Range(<<>>) = {}
    BY DEF Range
  <1>2. Packet(kind, messages).messages = messages /\ Packet("CRDT", messages).messages = messages
    BY DEF Packet
  <1> QED
    BY <1>1, <1>2 DEF Flying, Broadcast

LEMMA FlyingOfConcat ==
  ASSUME NEW T, NEW q \in Seq(T), NEW r \in Seq(T)
  PROVE  Flying(q \o r) = Flying(q) \cup Flying(r)
  <1>1. Range(q \o r) = Range(q) \cup Range(r)
    BY RangeOfConcat
  <1> QED
    BY <1>1 DEF Flying

(* What a tick moves.                                                      *)
LEMMA TickMoves ==
  ASSUME SyncInv, NEW c \in Clients, NEW s \in Clients, NEW packet, NEW g, NEW call,
         Tick(c, s, packet, g, call)
  PROVE  /\ Moves(channel, channel', connected, c, s, packet, Range(engineToCrdt(engine[c])),
                  Range(Outgoing(call[1], call[2])))
         /\ \A t, r \in Clients :
              channel'[t][r] # <<>> => channel[t][r] # <<>> \/ {t, r} \subseteq connected
  <1> DEFINE later == NextOf(engine')
             T == SoundPackets(later)
             S == SoundMessages(later)
             snapshot == engineToCrdt(engine[c])
             sent == Outgoing(call[1], call[2])
             a == Answer(c, s, packet)
             b == Broadcast(sent)
  <1>1. SyncInv' /\ Good(call[1], later) /\ call[2] \in SUBSET Ids
    BY TickKeepsSyncInv
  <1>2. ASSUME NEW t \in Clients, NEW r \in Clients
        PROVE channel'[t][r] = IF r = c /\ t = s /\ packet.kind # "NONE" THEN Tail(channel[t][r])
                               ELSE IF t = c /\ r # c /\ {c, r} \subseteq connected
                               THEN channel[t][r] \o (IF r = s THEN a ELSE <<>>) \o b
                               ELSE channel[t][r]
    BY DEF Tick
  <1>3. sent \in Seq(S)
    BY <1>1, OutgoingSound
  <1>4. snapshot \in Seq(SoundMessages(NextOf(engine)))
    BY EngineToCrdtSound DEF SyncInv
  <1>5. \A t, r \in Clients : channel[t][r] \in Seq(SoundPackets(NextOf(engine)))
    BY DEF SyncInv
  <1>6. /\ packet.kind # "NONE" => channel[s][c] # <<>> /\ packet = Head(channel[s][c])
        /\ packet.kind = "NONE" => packet.messages = <<>>
    BY DEF Tick
  <1> DEFINE P == SoundPackets(NextOf(engine)) \cup {Packet("RES", snapshot), Packet("CRDT", sent)}
  <1>7. a \in Seq(P) /\ b \in Seq(P)
    <2>1. Packet("RES", snapshot) \in P /\ Packet("CRDT", sent) \in P
      OBVIOUS
    <2> HIDE DEF P, snapshot, sent
    <2> QED
      BY <2>1 DEF Answer, Broadcast, snapshot
  <1>8. \A t, r \in Clients : channel[t][r] \in Seq(P)
    <2> DEFINE R == SoundPackets(NextOf(engine))
    <2>1. R \subseteq P /\ \A t, r \in Clients : channel[t][r] \in Seq(R)
      BY <1>5
    <2> HIDE DEF P, R
    <2> QED
      BY <2>1
  <1>9. Flying(b) = Range(sent)
    BY <1>3, PacketsFly
  <1>10. packet.kind = "REQ" => Flying(a) = Range(snapshot)
    BY <1>4, PacketsFly DEF Answer
  <1>11. packet.kind # "REQ" => a = <<>> /\ Flying(a) = {}
    <2>1. <<>> \in Seq(P)
      OBVIOUS
    <2>2. Flying(<<>>) = {}
      BY <2>1, PacketsFly
    <2> QED
      BY <2>2 DEF Answer
  <1> HIDE DEF P, a, b, sent, snapshot, later
  <1>12. ASSUME NEW q \in Seq(P)
         PROVE  /\ q \o a \o b \in Seq(P) /\ Range(q \o a \o b) = Range(q) \cup Range(a) \cup Range(b)
                /\ q \o <<>> \o b \in Seq(P) /\ Range(q \o <<>> \o b) = Range(q) \cup Range(b)
    <2>1. q \o a \in Seq(P) /\ Range(q \o a) = Range(q) \cup Range(a)
      BY <1>7, RangeOfConcat
    <2> DEFINE qa == q \o a
    <2>2. qa \in Seq(P)
      BY <2>1
    <2> HIDE DEF qa
    <2>3. qa \o b \in Seq(P) /\ Range(qa \o b) = Range(qa) \cup Range(b)
      BY <1>7, <2>2, RangeOfConcat
    <2>4. q \o <<>> = q
      OBVIOUS
    <2>5. q \o b \in Seq(P) /\ Range(q \o b) = Range(q) \cup Range(b)
      BY <1>7, RangeOfConcat
    <2> QED
      BY <2>1, <2>3, <2>4, <2>5 DEF qa
  <1>13. ASSUME NEW t \in Clients, NEW r \in Clients
         PROVE  /\ Flying(channel'[t][r]) \subseteq Flying(channel[t][r]) \cup Range(sent) \cup Range(snapshot)
                /\ \A p \in Range(channel[t][r]) :
                     p \in Range(channel'[t][r]) \/ (t = s /\ r = c /\ p = packet)
                /\ channel'[t][r] # <<>> => channel[t][r] # <<>> \/ {t, r} \subseteq connected
    <2> DEFINE q == channel[t][r]
               q2 == channel'[t][r]
    <2>1. q \in Seq(P)
      BY <1>8
    <2>2. q2 = IF r = c /\ t = s /\ packet.kind # "NONE" THEN Tail(q)
               ELSE IF t = c /\ r # c /\ {c, r} \subseteq connected
               THEN q \o (IF r = s THEN a ELSE <<>>) \o b
               ELSE q
      BY <1>2
    <2> HIDE DEF q2
    <2>3. CASE r = c /\ t = s /\ packet.kind # "NONE"
      <3>1. q # <<>> /\ packet = Head(q) /\ q2 = Tail(q)
        BY <1>6, <2>2, <2>3
      <3> HIDE DEF q
      <3>2. Range(q) = {packet} \cup Range(q2)
        BY <2>1, <3>1, RangeOfTail
      <3> QED
        BY <2>3, <3>1, <3>2 DEF Flying, q, q2
    <2>4. CASE ~ (r = c /\ t = s /\ packet.kind # "NONE") /\ t = c /\ r # c /\ {c, r} \subseteq connected
      <3>1. q2 = q \o a \o b \/ q2 = q \o <<>> \o b
        BY <2>2, <2>4
      <3> HIDE DEF q
      <3>2. Range(q) \subseteq Range(q2) /\ Range(q2) \subseteq Range(q) \cup Range(a) \cup Range(b)
        BY <1>12, <2>1, <3>1
      <3>3. Flying(q2) \subseteq Flying(q) \cup Flying(a) \cup Flying(b)
        BY <3>2 DEF Flying
      <3> QED
        BY <1>9, <1>10, <1>11, <2>4, <3>2, <3>3 DEF q, q2
    <2>5. CASE ~ (r = c /\ t = s /\ packet.kind # "NONE") /\ ~ (t = c /\ r # c /\ {c, r} \subseteq connected)
      <3>1. q2 = q
        BY <2>2, <2>5
      <3> QED
        BY <3>1 DEF q, q2
    <2> QED
      BY <2>3, <2>4, <2>5
  <1>14. ASSUME NEW r \in connected, r # c, c \in connected
         PROVE  /\ Range(sent) \subseteq Flying(channel'[c][r])
                /\ r = s /\ packet.kind = "REQ" => Range(snapshot) \subseteq Flying(channel'[c][r])
    <2> DEFINE q == channel[c][r]
               q2 == channel'[c][r]
    <2>1. r \in Clients /\ {c, r} \subseteq connected
      BY <1>14 DEF SyncInv
    <2>2. q \in Seq(P) /\ q2 = q \o (IF r = s THEN a ELSE <<>>) \o b
      BY <1>2, <1>8, <1>14, <2>1
    <2> HIDE DEF q, q2
    <2>3. Range(b) \subseteq Range(q2) /\ (r = s => Range(a) \subseteq Range(q2))
      BY <1>12, <2>2
    <2>4. Flying(b) \subseteq Flying(q2) /\ (r = s => Flying(a) \subseteq Flying(q2))
      BY <2>3 DEF Flying
    <2> QED
      BY <1>9, <1>10, <2>4 DEF q2
  <1>15. packet.kind # "NONE" => packet \in Range(channel[s][c])
    <2> DEFINE q == channel[s][c]
    <2>1. q \in Seq(P)
      BY <1>8
    <2> HIDE DEF q
    <2> QED
      BY <1>6, <2>1, RangeOfTail DEF q
  <1>16. packet.kind = "NONE" => Range(packet.messages) = {}
    BY <1>6, RangeOfEmpty
  <1> QED
    BY <1>13, <1>14, <1>15, <1>16 DEF Moves, sent, snapshot

(* The invariant of the room: engines are steady, what flies is plain,     *)
(* nothing is on its way from or to a client outside, and every fact is    *)
(* covered.                                                                *)
RoomInv ==
  /\ SyncInv
  /\ \A c \in Clients : Steady(engine[c]) /\ engine[c].dirty = {}
  /\ \A s, r \in Clients : channel[s][r] # <<>> => {s, r} \subseteq connected
  /\ \A s, r \in Clients : \A m \in Flying(channel[s][r]) : Plain(m)
  /\ Covered(engine, channel, connected)

LEMMA FlyingSound ==
  ASSUME SyncInv, NEW s \in Clients, NEW r \in Clients
  PROVE  Flying(channel[s][r]) \subseteq SoundMessages(NextOf(engine))
  <1> DEFINE T == SoundPackets(NextOf(engine))
             S == SoundMessages(NextOf(engine))
             q == channel[s][r]
  <1>1. q \in Seq(T)
    BY DEF SyncInv
  <1>2. \A p \in T : p.messages \in Seq(S)
    BY DEF SoundPackets
  <1> HIDE DEF T, S, q
  <1>3. \A p \in Range(q) : p \in T
    BY <1>1, RangeOfSequence
  <1>4. \A p \in Range(q) : Range(p.messages) \subseteq S
    BY <1>2, <1>3, RangeOfSequence
  <1> QED
    BY <1>4 DEF Flying, S, q

LEMMA TickKeepsRoomInv ==
  ASSUME ~Removes, ~Deletes, RoomInv, NEW c \in Clients, NEW s \in Clients, NEW packet, NEW h, NEW call,
         Tick(c, s, packet, h, call)
  PROVE  RoomInv'
  <1> DEFINE next == NextOf(engine)
             later == NextOf(engine')
             i == call[1]
             f == Flushed(i)
             told == packet.messages
             u == Range(Updates(i, "Value"))
             out == Range(Outgoing(call[1], call[2]))
             answer == Range(engineToCrdt(engine[c]))
  <1>1. /\ SyncInv /\ Steady(engine[c]) /\ Good(engine[c], next) /\ next \in Counters
        /\ \A d \in Clients : Steady(engine[d]) /\ engine[d].dirty = {}
        /\ \A t, r \in Clients : channel[t][r] # <<>> => {t, r} \subseteq connected
        /\ \A t, r \in Clients : \A m \in Flying(channel[t][r]) : Plain(m)
        /\ Covered(engine, channel, connected)
    BY EngineParts DEF RoomInv, SyncInv, NextOf, Counters
  <1>2. /\ SyncInv' /\ Good(h, next) /\ Good(i, later) /\ call[2] \in SUBSET Ids
    BY <1>1, TickKeepsSyncInv
  <1>3. /\ Moves(channel, channel', connected, c, s, packet, answer, out)
        /\ \A t, r \in Clients :
             channel'[t][r] # <<>> => channel[t][r] # <<>> \/ {t, r} \subseteq connected
    BY <1>1, TickMoves
  <1>4. /\ told \in Seq(SoundMessages(next))
        /\ h = Cleaned(Processed(engine[c], told))
        /\ call \in {<<h, {}>>} \cup SceneCalls(c, h)
        /\ call # <<h, {}>> => c \in connected
        /\ i.nextEntity <= MaxEntity + 1
        /\ engine'[c] = f /\ \A d \in Clients : d # c => engine'[d] = engine[d]
        /\ connected' = connected
    BY <1>1 DEF Tick, SyncInv
  <1>5. \A m \in Range(told) : Plain(m) /\ m \in SoundMessages(next)
    <2>1. packet.kind = "NONE" => Range(told) = {}
      BY <1>3 DEF Moves
    <2>2. packet.kind # "NONE" => packet \in Range(channel[s][c])
      BY <1>3 DEF Moves
    <2>3. \A m \in Range(told) : m \in Flying(channel[s][c])
      BY <2>1, <2>2 DEF Flying
    <2> QED
      BY <1>1, <2>3, FlyingSound
  <1>6. h.nextEntity <= MaxEntity + 1
    BY <1>2 DEF Good, EngineStates
  <1> HIDE DEF next, later, i, told, u, out, answer
  <1>7. Steady(h) /\ Learned(engine[c], Range(told), h)
    BY <1>1, <1>4, <1>5, <1>6, ReceivedLearns
  <1>8. /\ Flushing(h, i) /\ call[2] = {}
        /\ call = <<h, {}>> => u = {}
    BY <1>2, <1>4, <1>7, CalledLearns DEF i, u
  <1>9. /\ u \subseteq SoundMessages(later) /\ out \subseteq SoundMessages(later)
        /\ out = u \cup Range(Updates(i, "NetworkEntity")) \cup Range(Updates(i, "SyncComponents"))
        /\ answer \subseteq SoundMessages(next)
    <2> DEFINE S == SoundMessages(later)
    <2>1. Outgoing(i, {}) \in Seq(S) /\ Updates(i, "Value") \in Seq(S)
      BY <1>2, OutgoingSound, UpdatesSound DEF Components
    <2>2. engineToCrdt(engine[c]) \in Seq(SoundMessages(next))
      BY <1>1, EngineToCrdtSound
    <2>3. Range(Announced(i, {})) = {}
      BY <1>2, AnnouncedSound
    <2>4. out = u \cup Range(Updates(i, "NetworkEntity")) \cup Range(Updates(i, "SyncComponents"))
      BY <1>2, <1>8, <2>3, OutgoingSound DEF out, u, i
    <2> HIDE DEF S
    <2> QED
      BY <1>8, <2>1, <2>2, <2>4, RangeOfSequence DEF S, out, u, answer, i
  <1>10. /\ \A m \in out : Plain(m)
         /\ \A k, ts, v : \A m \in out : Tells(m, k, ts, v) => EngineFact(f, k, ts, v) \/ m \in u
    <2>1. \A m \in u : Plain(m)
      BY <1>8 DEF Flushing, u
    <2>2. ASSUME NEW m \in out, m \notin u
          PROVE  Plain(m) /\ \A k, ts, v : Tells(m, k, ts, v) => EngineFact(f, k, ts, v)
      <3>1. CASE m \in Range(Updates(i, "NetworkEntity"))
        BY <1>2, <3>1, OtherRowsTell
      <3>2. CASE m \in Range(Updates(i, "SyncComponents"))
        BY <1>2, <3>2, OtherRowsTell
      <3> QED
        BY <1>9, <2>2, <3>1, <3>2
    <2> QED
      BY <2>1, <2>2
  <1>11. /\ \A m \in answer : Plain(m)
         /\ \A k, ts, v : \A m \in answer : Tells(m, k, ts, v) => EngineFact(engine[c], k, ts, v)
         /\ \A k \in Keys, ts \in Nat, v \in Nat :
              Holds(engine[c], k, ts, v) => \E m \in answer : Brings(m, k, ts, v)
    BY <1>1, SnapshotTells DEF answer
  <1>12. \A m \in u : m.component = "Value" /\ Plain(m)
    BY <1>2, <1>8, ValueRowsAreValues DEF Flushing, u
  <1>13. Steady(engine'[c]) /\ engine'[c].dirty = {} /\ Learned(h, u, engine'[c])
    BY <1>4, <1>8 DEF Flushing, u
  <1>14. \A n : SoundMessages(n) \subseteq NetworkMessages
    BY DEF SoundMessages
  <1>15. Learned(engine[c], Range(told) \cup u, engine'[c])
    <2>1. Range(told) \subseteq NetworkMessages /\ u \subseteq NetworkMessages
      BY <1>5, <1>9, <1>14
    <2> DEFINE ms == Range(told)
               os == ms \cup u
    <2>2. \A m \in ms : Plain(m)
      BY <1>5
    <2>3. Learned(engine[c], ms, h)
      BY <1>7
    <2>4. Learned(engine[c], os, engine'[c])
      <3>1. os = ms \cup u
        OBVIOUS
      <3> HIDE DEF ms, os
      <3> QED
        BY <1>13, <2>1, <2>2, <2>3, <3>1, LearnedMore DEF ms
    <2> QED
      BY <2>4
  <1>16. Covered(engine', channel', connected)
    <2>1. \A t, r \in Clients : \A m \in Flying(channel[t][r]) : m \in NetworkMessages /\ Plain(m)
      BY <1>1, <1>14, FlyingSound
    <2>2. \A m \in u : m \in NetworkMessages /\ Plain(m) /\ m.component = "Value"
      BY <1>9, <1>12, <1>14
    <2>3. u # {} => c \in connected
      BY <1>4, <1>8
    <2>4. \A t \in Clients : c \notin connected => Range(channel[t][c]) = {}
      BY <1>1, RangeOfEmpty
    <2>5. engine'[c] \in EngineStates /\ connected \in SUBSET Clients /\ u \in SUBSET out
      BY <1>1, <1>2, <1>9 DEF SyncInv
    <2>6. \A d \in Clients : d # c => engine'[d] = engine[d]
      BY <1>4
    <2>7. /\ \A k, ts, v : \A m \in out : Tells(m, k, ts, v) => EngineFact(engine'[c], k, ts, v) \/ m \in u
          /\ Learned(engine[c], Range(packet.messages) \cup u, engine'[c])
      BY <1>4, <1>10, <1>15 DEF told
    <2> DEFINE en == engine
               en2 == engine'
               ch == channel
               ch2 == channel'
    <2>8. /\ Covered(en, ch, connected) /\ Moves(ch, ch2, connected, c, s, packet, answer, out)
          /\ en2[c] \in EngineStates /\ \A d \in Clients : d # c => en2[d] = en[d]
          /\ Learned(en[c], Range(packet.messages) \cup u, en2[c])
          /\ \A t, r \in Clients : \A m \in Flying(ch[t][r]) : m \in NetworkMessages /\ Plain(m)
          /\ \A t \in Clients : c \notin connected => Range(ch[t][c]) = {}
          /\ \A k, ts, v : \A m \in out : Tells(m, k, ts, v) => EngineFact(en2[c], k, ts, v) \/ m \in u
          /\ \A k, ts, v : \A m \in answer : Tells(m, k, ts, v) => EngineFact(en[c], k, ts, v)
          /\ \A k \in Keys, ts \in Nat, v \in Nat :
               Holds(en[c], k, ts, v) => \E m \in answer : Brings(m, k, ts, v)
      BY <1>1, <1>3, <1>11, <2>1, <2>4, <2>5, <2>6, <2>7
    <2> HIDE DEF en, en2, ch, ch2
    <2>9. Covered(en2, ch2, connected)
      BY <2>2, <2>3, <2>5, <2>8, CoveredStays, ZenonT(60)
    <2> QED
      BY <2>9 DEF en2, ch2
  <1>17. \A t, r \in Clients : \A m \in Flying(channel'[t][r]) : Plain(m)
    <2>1. \A t, r \in Clients : Flying(channel'[t][r]) \subseteq Flying(channel[t][r]) \cup out \cup answer
      BY <1>3 DEF Moves
    <2> QED
      BY <1>1, <1>10, <1>11, <2>1
  <1>18. \A d \in Clients : Steady(engine'[d]) /\ engine'[d].dirty = {}
    BY <1>1, <1>4, <1>13
  <1>19. \A t, r \in Clients : channel'[t][r] # <<>> => {t, r} \subseteq connected
    BY <1>1, <1>3
  <1> QED
    BY <1>2, <1>4, <1>16, <1>17, <1>18, <1>19 DEF RoomInv

LEMMA JoinKeepsRoomInv ==
  ASSUME RoomInv, NEW c \in Clients, Join(c)
  PROVE  RoomInv'
  <1> DEFINE request == Packet("REQ", <<>>)
             P == SoundPackets(NextOf(engine)) \cup {request}
  <1>1. /\ SyncInv /\ c \notin connected /\ connected' = connected \cup {c}
        /\ engine' = engine /\ SyncInv'
    BY JoinKeepsSyncInv DEF RoomInv, Join
  <1>2. ASSUME NEW t \in Clients, NEW r \in Clients
        PROVE  /\ channel[t][r] \in Seq(P)
               /\ channel'[t][r] = IF t = c /\ r \in connected THEN Append(channel[t][r], request)
                                   ELSE channel[t][r]
    <2> DEFINE R == SoundPackets(NextOf(engine))
    <2>1. channel[t][r] \in Seq(R) /\ R \subseteq P
      BY <1>1 DEF SyncInv
    <2>2. channel[t][r] \in Seq(P)
      <3> HIDE DEF P, R
      <3> QED
        BY <2>1
    <2>3. channel'[t][r] = IF t = c /\ r \in connected THEN Append(channel[t][r], request)
                           ELSE channel[t][r]
      BY <1>1 DEF SyncInv, Join
    <2> QED
      BY <2>2, <2>3
  <1>3. request \in P /\ request.kind = "REQ" /\ Range(request.messages) = {}
    BY RangeOfEmpty DEF Packet
  <1> HIDE DEF P, request
  <1>4. ASSUME NEW t \in Clients, NEW r \in Clients
        PROVE  /\ Range(channel[t][r]) \subseteq Range(channel'[t][r])
               /\ Flying(channel'[t][r]) = Flying(channel[t][r])
               /\ t = c /\ r \in connected => Asked(channel'[t][r])
               /\ channel'[t][r] # <<>> => channel[t][r] # <<>> \/ (t = c /\ r \in connected)
    <2> DEFINE q == channel[t][r]
               q2 == channel'[t][r]
    <2>1. q \in Seq(P) /\ q2 = IF t = c /\ r \in connected THEN Append(q, request) ELSE q
      BY <1>2
    <2> HIDE DEF q, q2
    <2>2. CASE t = c /\ r \in connected
      <3>1. Range(q2) = Range(q) \cup {request}
        BY <1>3, <2>1, <2>2, RangeOfAppend
      <3> QED
        BY <1>3, <2>2, <3>1 DEF Flying, Asked, q, q2
    <2>3. CASE ~ (t = c /\ r \in connected)
      BY <2>1, <2>3 DEF q, q2
    <2> QED
      BY <2>2, <2>3
  <1>5. Covered(engine, channel', connected')
    <2>1. SUFFICES ASSUME NEW k \in Keys, NEW ts \in Nat, NEW v \in Nat, Fact(engine, channel', k, ts, v)
                   PROVE  /\ \A r \in connected' : Cover(engine, channel', r, k, ts, v)
                          /\ \E d \in connected' : Holds(engine[d], k, ts, v)
      BY DEF Covered
    <2>2. Fact(engine, channel, k, ts, v)
      BY <1>4, <2>1 DEF Fact
    <2>3. /\ \A r \in connected : Cover(engine, channel, r, k, ts, v)
          /\ \E d \in connected : Holds(engine[d], k, ts, v)
      BY <2>2 DEF RoomInv, Covered
    <2>4. \A r \in Clients : Cover(engine, channel, r, k, ts, v) => Cover(engine, channel', r, k, ts, v)
      <3>1. \A t, r \in Clients : Asked(channel[t][r]) => Asked(channel'[t][r])
        BY <1>4 DEF Asked
      <3> QED
        BY <1>4, <3>1 DEF Cover
    <2>5. Cover(engine, channel', c, k, ts, v)
      <3>1. PICK d \in connected : Holds(engine[d], k, ts, v)
        BY <2>3
      <3>2. d \in Clients /\ Asked(channel'[c][d])
        BY <1>1, <1>4 DEF SyncInv
      <3> QED
        BY <3>1, <3>2 DEF Cover
    <2> QED
      BY <1>1, <2>3, <2>4, <2>5 DEF SyncInv
  <1>6. \A t, r \in Clients : channel'[t][r] # <<>> => {t, r} \subseteq connected'
    BY <1>1, <1>4 DEF RoomInv
  <1>7. \A t, r \in Clients : \A m \in Flying(channel'[t][r]) : Plain(m)
    BY <1>4 DEF RoomInv
  <1> QED
    BY <1>1, <1>5, <1>6, <1>7 DEF RoomInv

LEMMA InitHasRoomInv == Init => RoomInv
  <1>1. SUFFICES ASSUME Init PROVE RoomInv
    OBVIOUS
  <1>2. SyncInv
    BY <1>1, InitHasSyncInv
  <1>3. ASSUME NEW c \in Clients
        PROVE  /\ engine[c].removed = {} /\ engine[c].dirty = {}
               /\ \A x \in Components, e \in Ids :
                    /\ engine[c].data[x][e] = None /\ engine[c].timestamps[x][e] = 0
                    /\ engine[c].lastSent[x][e] = None
    BY <1>1 DEF Init
  <1>4. ASSUME NEW t \in Clients, NEW r \in Clients PROVE channel[t][r] = <<>> /\ Flying(channel[t][r]) = {}
    <2>1. channel[t][r] = <<>>
      BY <1>1 DEF Init
    <2> QED
      BY <2>1, RangeOfEmpty DEF Flying
  <1>5. ASSUME NEW c \in Clients
        PROVE  /\ Steady(engine[c]) /\ engine[c].dirty = {}
               /\ \A k \in Keys : \A ts, v : ~EngineFact(engine[c], k, ts, v)
    <2>1. "Value" \in Components /\ "NetworkEntity" \in Components
      BY DEF Components
    <2>2. \A k \in Keys : k # None
      BY NetworkAssumption
    <2> QED
      BY <1>3, <2>1, <2>2 DEF Steady, EngineFact
  <1>6. Covered(engine, channel, connected)
    BY <1>4, <1>5 DEF Covered, Fact
  <1> QED
    BY <1>2, <1>4, <1>5, <1>6 DEF RoomInv

LEMMA RoomInvAlways ==
  ASSUME ~Removes, ~Deletes
  PROVE  Spec => []RoomInv
  <1>1. RoomInv /\ [Next]_vars => RoomInv'
    <2>1. SUFFICES ASSUME RoomInv, [Next]_vars PROVE RoomInv'
      OBVIOUS
    <2>2. ASSUME NEW c \in Clients, Update(c) PROVE RoomInv'
      <3>1. PICK s \in Clients : \E packet, h, call : Tick(c, s, packet, h, call)
        BY <2>1, <2>2, UpdateIsTick DEF RoomInv
      <3> QED
        BY <2>1, <3>1, TickKeepsRoomInv
    <2>3. ASSUME NEW c \in Clients, Join(c) PROVE RoomInv'
      BY <2>1, <2>3, JoinKeepsRoomInv
    <2>4. CASE UNCHANGED vars
      BY <2>1, <2>4 DEF RoomInv, SyncInv, vars
    <2> QED
      BY <2>1, <2>2, <2>3, <2>4 DEF Next
  <1> QED
    BY <1>1, InitHasRoomInv, PTL DEF Spec

(* Of two clients of a quiet room that know a key, each has the newest     *)
(* value of the other.                                                     *)
LEMMA QuietRoomAgrees ==
  ASSUME RoomInv, \A c, d \in Clients : channel[c][d] = <<>>
  PROVE  \A c, d \in connected : \A k \in Keys : View(c, k) = View(d, k)
  <1>1. ASSUME NEW c \in connected, NEW k \in Keys
        PROVE  /\ c \in Clients /\ Alive(c, k) = Mapped(engine[c], k)
               /\ engine[c] \in EngineStates
               /\ \A e, f \in Mapped(engine[c], k) : e = f
    <2>1. c \in Clients /\ Good(engine[c], NextOf(engine)) /\ Steady(engine[c])
      BY DEF RoomInv, SyncInv
    <2>2. \A e \in Mapped(engine[c], k) : e \in Live(engine[c])
      <3>1. SUFFICES ASSUME NEW e \in Mapped(engine[c], k) PROVE e \in Live(engine[c])
        OBVIOUS
      <3>2. e \in Ids /\ engine[c].data["NetworkEntity"][e] # None
        BY NetworkAssumption DEF Mapped
      <3>3. ~ (e >= engine[c].nextEntity)
        BY <2>1, <3>2 DEF Good, Unused, Components
      <3> QED
        BY <2>1, <3>2, <3>3, NetworkAssumption DEF Live, Steady, Good, EngineStates, Ids
    <2> QED
      BY <2>1, <2>2, NetworkAssumption DEF Good, Alive, Mapped
  <1>2. ASSUME NEW c \in connected, NEW d \in connected, NEW k \in Keys, NEW ts \in Nat, NEW v \in Nat,
               EngineFact(engine[c], k, ts, v)
        PROVE  Holds(engine[d], k, ts, v)
    <2>1. Fact(engine, channel, k, ts, v)
      BY <1>1, <1>2 DEF Fact
    <2>2. Cover(engine, channel, d, k, ts, v)
      BY <2>1 DEF RoomInv, Covered
    <2>3. Range(<<>>) = {}
      BY RangeOfEmpty
    <2> QED
      BY <1>1, <2>2, <2>3 DEF Cover, Flying, Asked
  <1>3. ASSUME NEW c \in connected, NEW d \in connected, NEW k \in Keys,
               NEW e \in Mapped(engine[c], k)
        PROVE  \E f \in Mapped(engine[d], k) : engine[d].data["Value"][f] = engine[c].data["Value"][e]
    <2> DEFINE N(x) == engine[x].data["NetworkEntity"]
               V(x) == engine[x].data["Value"]
               T(x) == engine[x].timestamps["Value"]
    <2>1. e \in Ids /\ N(c)[e] = k
      BY DEF Mapped
    <2>2. EngineFact(engine[c], k, 1, 0)
      BY <2>1 DEF EngineFact
    <2>3. Holds(engine[c], k, 1, 0)
      BY <1>2, <2>2
    <2>4. V(c)[e] # None
      BY <1>1, <2>1, <2>3 DEF Holds, Mapped
    <2>5. V(c)[e] \in Nat /\ T(c)[e] \in Nat
      BY <1>1, <2>1, <2>4, ValueParts
    <2>6. Holds(engine[d], k, T(c)[e], V(c)[e])
      BY <1>2, <2>1, <2>4, <2>5 DEF EngineFact
    <2>7. PICK f \in Ids : N(d)[f] = k /\ V(d)[f] # None /\ AtLeast(T(d)[f], V(d)[f], T(c)[e], V(c)[e])
      BY <2>6 DEF Holds
    <2>8. V(d)[f] \in Nat /\ T(d)[f] \in Nat
      BY <1>1, <2>7, ValueParts
    <2>9. Holds(engine[c], k, T(d)[f], V(d)[f])
      BY <1>2, <2>7, <2>8 DEF EngineFact
    <2>10. AtLeast(T(c)[e], V(c)[e], T(d)[f], V(d)[f])
      BY <1>1, <2>1, <2>9 DEF Holds, Mapped
    <2>11. V(c)[e] = V(d)[f]
      BY <2>5, <2>7, <2>8, <2>10 DEF AtLeast
    <2> QED
      BY <2>7, <2>11 DEF Mapped
  <1>4. ASSUME NEW c \in connected, NEW d \in connected, NEW k \in Keys
        PROVE  View(c, k) \subseteq View(d, k)
    BY <1>1, <1>3, SMTT(30) DEF View
  <1> QED
    BY <1>4, ZenonT(40)

(* In a room where nobody removes an entity or deletes a component, once   *)
(* nothing is on its way everybody has the same network entities with the  *)
(* same values, whoever created and wrote them, in whatever order packets  *)
(* were processed, newcomers included (the Value branches of               *)
(* systems/crdt/index.ts and the state request of message-bus-sync.ts).    *)
THEOREM RoomAgrees ==
  ASSUME ~Removes, ~Deletes
  PROVE  Spec => []RoomAgreement
  <1>1. RoomInv => RoomAgreement
    BY QuietRoomAgrees DEF RoomAgreement
  <1> QED
    BY <1>1, RoomInvAlways, PTL
=============================================================================
