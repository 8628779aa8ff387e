----------------------------- MODULE NetworkSync -----------------------------
(***************************************************************************)
(* Synchronised entities (sdk/src/network with the network branches of     *)
(* ecs/src/systems/crdt/index.ts): every client runs its own engine, gives *)
(* its own local ids to entities, and maps them through the NetworkEntity  *)
(* component to the id the entity's creator gave it.                       *)
(*                                                                         *)
(* One Update of a client is one tick of its engine: it processes at most  *)
(* one packet of the comms room, makes at most one scene call, flushes and *)
(* sends.  Packets between two clients arrive in the order they were sent; *)
(* nothing orders packets of different senders.  A client that is not in   *)
(* the room neither receives nor reaches anybody.                          *)
(*                                                                         *)
(* Abstracted: local ids are never recycled (a recycled id has another     *)
(* version, so it is another id); one component besides NetworkEntity and  *)
(* SyncComponents stands for all those an entity synchronises; a tick's    *)
(* messages fit in one packet.                                             *)
(***************************************************************************)
EXTENDS Integers, FiniteSets, Sequences, TLC

CONSTANTS
  Clients, Online,     \* the players, and those in the room from the start
  Creators,            \* the players whose scene creates synchronised entities
  MaxEntity, Values,   \* bound on local ids; serialized values in dataCompare order
  Removes, Deletes,    \* scene code removes entities; deletes components
  MaxCalls,            \* bound on the calls of scene code
  None

Ids  == 1 .. MaxEntity
Keys == Clients \X Ids         \* NetworkEntity values: networkId, entityId
Components == {"Value", "NetworkEntity", "SyncComponents"}
SyncList   == "SyncList"       \* the SyncComponents value

ASSUME NetworkAssumption ==
  /\ Online \subseteq Clients /\ Creators \subseteq Clients
  /\ MaxEntity \in Nat /\ MaxCalls \in Nat
  /\ Values \subseteq Nat /\ None \notin Values
  /\ None # SyncList /\ \A k \in Keys : None # k
  /\ Removes \in BOOLEAN /\ Deletes \in BOOLEAN

VARIABLES
  engine,    \* per client: nextEntity, removed ids, and the three components
  channel,   \* packets on their way, by sender and receiver
  connected, \* clients in the comms room
  calls      \* scene calls made so far

vars == <<engine, channel, connected, calls>>

Init ==
  /\ engine = [c \in Clients |->
       [nextEntity |-> 1, removed |-> {}, dirty |-> {},
        data       |-> [x \in Components |-> [e \in Ids |-> None]],
        timestamps |-> [x \in Components |-> [e \in Ids |-> 0]],
        lastSent   |-> [x \in Components |-> [e \in Ids |-> None]]]]
  /\ channel = [s \in Clients |-> [r \in Clients |-> <<>>]]
  /\ connected = Online
  /\ calls = 0
-----------------------------------------------------------------------------
(* Engine operations on a synchronised entity, as functions of its state.  *)
Mapped(g, k) == {e \in Ids : g.data["NetworkEntity"][e] = k}

createOrReplace(g, x, e, v) ==
  [g EXCEPT !.data[x][e] = v, !.dirty = @ \cup {<<x, e>>}, !.lastSent[x][e] = None]

getMutable(g, x, e, v) ==
  [g EXCEPT !.data[x][e] = v, !.dirty = @ \cup {<<x, e>>}]

deleteData(g, xs, es) ==
  [g EXCEPT !.data     = [x \in Components |-> [e \in Ids |->
                            IF x \in xs /\ e \in es THEN None ELSE @[x][e]]],
            !.lastSent = [x \in Components |-> [e \in Ids |->
                            IF x \in xs /\ e \in es THEN None ELSE @[x][e]]],
            !.dirty    = @ \cup {p \in xs \X es : g.data[p[1]][p[2]] # None}]

(* Faulty variant: NetworkEntity is not exempt.                            *)
removeEntityPlain(g, e) ==
  [deleteData(g, Components, {e}) EXCEPT !.removed = @ \cup {e}]

(* removeEntity keeps NetworkEntity, to be able to announce the deletion.  *)
removeEntity(g, e) ==
  [deleteData(g, Components \ {"NetworkEntity"}, {e}) EXCEPT !.removed = @ \cup {e}]

(* syncEntity of an entity the client has just created with a value.       *)
syncEntity(g, c, v) ==
  LET e == g.nextEntity
      created == createOrReplace([g EXCEPT !.nextEntity = e + 1], "Value", e, v)
      named   == createOrReplace(created, "NetworkEntity", e, <<c, e>>)
  IN  createOrReplace(named, "SyncComponents", e, SyncList)

Greater(a, b) == a # None /\ (b = None \/ a > b)

Wins(g, e, m) ==
  \/ m.timestamp > g.timestamps[m.component][e]
  \/ /\ m.timestamp = g.timestamps[m.component][e]
     /\ m.component = "Value" /\ Greater(m.content, g.data["Value"][e])

updateFromCrdt(g, e, m) ==
  IF Wins(g, e, m)
  THEN [g EXCEPT !.data[m.component][e] = m.content, !.lastSent[m.component][e] = m.content,
                 !.timestamps[m.component][e] = m.timestamp]
  ELSE g
-----------------------------------------------------------------------------
(* Messages of the room name entities by key.  Data None is a deletion.    *)
PutNetwork(k, x, ts, v) ==
  [type |-> "COMPONENT", key |-> k, component |-> x, timestamp |-> ts, content |-> v]

DeleteEntityNetwork(k) == [type |-> "DELETE_ENTITY", key |-> k]

(* Faulty variants: a second entity for a key; an id handed out twice.     *)
mapKeyAlways(g, k) ==
  createOrReplace([g EXCEPT !.nextEntity = @ + 1], "NetworkEntity", g.nextEntity, k)

mapKeyReusesId(g, k) ==
  IF Mapped(g, k) # {} THEN g ELSE createOrReplace(g, "NetworkEntity", g.nextEntity, k)

(* findNetworkId: the local entity of a key, or the one that addEntity makes*)
(* for a key seen the first time, which is then mapped to it.              *)
LocalId(g, k) == IF Mapped(g, k) # {} THEN CHOOSE e \in Mapped(g, k) : TRUE ELSE g.nextEntity

mapKey(g, k) == IF Mapped(g, k) # {} THEN g ELSE mapKeyAlways(g, k)

(* What a scene and an update from the room may touch.                     *)
Live(g) == {e \in Ids : e < g.nextEntity /\ e \notin g.removed}

(* receiveMessages for one network message: an update of an entity removed *)
(* here is skipped; deletions wait until all messages are processed.       *)
Receive(st, m) ==
  LET e == LocalId(st.engine, m.key)
      g == mapKey(st.engine, m.key)
  IN  IF m.type = "DELETE_ENTITY" THEN [engine |-> g, toClean |-> st.toClean \cup {e}]
      ELSE [st EXCEPT !.engine = IF e \in Live(g) THEN updateFromCrdt(g, e, m) ELSE g]

Processed(g, messages) ==
  LET after[i \in 0 .. Len(messages)] ==
        IF i = 0 THEN [engine |-> g, toClean |-> {}] ELSE Receive(after[i - 1], messages[i])
  IN  after[Len(messages)]

Cleaned(st) ==
  [deleteData(st.engine, Components, st.toClean) EXCEPT !.removed = @ \cup st.toClean]

Received(c, messages) == Cleaned(Processed(engine[c], messages))
-----------------------------------------------------------------------------
(* What a scene may do in a tick: create and synchronise an entity, write  *)
(* or delete a component of a live one, or remove one.  It leaves alone    *)
(* the entities whose SyncComponents has not arrived yet.  The second      *)
(* field is the id of the entity removed, if any.                          *)
Writable(g) ==
  {e \in Live(g) : g.data["Value"][e] # None /\ g.data["SyncComponents"][e] # None}

SceneCalls(c, g) ==
  LET created == {syncEntity(g, c, v) : v \in IF c \in Creators THEN Values ELSE {}}
      written == {getMutable(g, "Value", e, v) : e \in Writable(g), v \in Values}
      deleted == IF Deletes THEN {deleteData(g, {"Value"}, {e}) : e \in Writable(g)} ELSE {}
      removed == IF Removes THEN Live(g) ELSE {}
  IN  {<<h, {}>> : h \in created \cup written \cup deleted}
      \cup {<<removeEntity(g, e), {e}>> : e \in removed}
-----------------------------------------------------------------------------
(* The messages of a set of ids, in the order of the ids.                  *)
Messages(ids, message) ==
  LET upTo[i \in 0 .. MaxEntity] ==
        IF i = 0 THEN <<>>
        ELSE IF i \in ids THEN Append(upTo[i - 1], message[i])
        ELSE upTo[i - 1]
  IN  upTo[MaxEntity]

(* getCrdtUpdates and syncFilter, component by component.                  *)
ToSend(g, x) ==
  {e \in Ids : /\ <<x, e>> \in g.dirty
               /\ g.data[x][e] = None \/ g.data[x][e] # g.lastSent[x][e]}

Flushed(g) ==
  [g EXCEPT !.dirty = {},
            !.timestamps = [x \in Components |-> [e \in Ids |->
                              @[x][e] + IF e \in ToSend(g, x) THEN 1 ELSE 0]],
            !.lastSent   = [x \in Components |-> [e \in Ids |->
                              IF e \in ToSend(g, x) THEN g.data[x][e] ELSE @[x][e]]]]

syncFilter(g, x, e, ts) ==
  g.data["SyncComponents"][e] # None /\ (ts <= 1 \/ x # "NetworkEntity")

(* The message a component of an entity goes out with.                     *)
Row(g, x, e, ts) == PutNetwork(g.data["NetworkEntity"][e], x, ts, g.data[x][e])

Updates(g, x) ==
  Messages({e \in ToSend(g, x) : syncFilter(g, x, e, g.timestamps[x][e] + 1)},
           [e \in Ids |-> Row(g, x, e, g.timestamps[x][e] + 1)])

Outgoing(g, removedNow) ==
  Updates(g, "Value") \o Updates(g, "NetworkEntity") \o Updates(g, "SyncComponents")
  \o Messages({e \in removedNow : g.data["NetworkEntity"][e] # None},
              [e \in Ids |-> DeleteEntityNetwork(g.data["NetworkEntity"][e])])

(* engineToCrdt: the present components of every entity that has a         *)
(* NetworkEntity, removed by this client or not; deletions are left out.   *)
Present(g, x) ==
  {e \in Ids : /\ g.timestamps[x][e] > 0
               /\ g.data["NetworkEntity"][e] # None
               /\ g.data[x][e] # None}

(* Faulty variant: the snapshot carries first timestamps.                  *)
SnapshotRestamped(g, x) ==
  Messages(Present(g, x), [e \in Ids |-> Row(g, x, e, 1)])

Snapshot(g, x) ==
  Messages(Present(g, x), [e \in Ids |-> Row(g, x, e, g.timestamps[x][e])])

engineToCrdt(g) ==
  Snapshot(g, "Value") \o Snapshot(g, "NetworkEntity") \o Snapshot(g, "SyncComponents")

Packet(kind, messages) == [kind |-> kind, messages |-> messages]

(* The packet a tick processes: the next one of some sender, or none.      *)
Incoming(c) ==
  {<<s, Head(channel[s][c])>> : s \in {t \in Clients : channel[t][c] # <<>>}}
  \cup {<<c, Packet("NONE", <<>>)>>}

Answer(c, s, packet) ==
  IF packet.kind = "REQ" THEN <<Packet("RES", engineToCrdt(engine[c]))>> ELSE <<>>

Broadcast(messages) == IF messages = <<>> THEN <<>> ELSE <<Packet("CRDT", messages)>>

Update(c) ==
  \E in \in Incoming(c) :
    LET s == in[1]
        packet == in[2]
        g == Received(c, packet.messages)
    IN  \E call \in {<<g, {}>>} \cup (IF calls < MaxCalls /\ c \in connected
                                      THEN SceneCalls(c, g) ELSE {}) :
          /\ call[1].nextEntity <= MaxEntity + 1
          /\ engine' = [engine EXCEPT ![c] = Flushed(call[1])]
          /\ calls' = calls + IF call[1] = g THEN 0 ELSE 1
          /\ channel' = [t \in Clients |-> [r \in Clients |->
                IF r = c /\ t = s /\ packet.kind # "NONE" THEN Tail(channel[t][r])
                ELSE IF t = c /\ r # c /\ {c, r} \subseteq connected
                THEN channel[t][r] \o (IF r = s THEN Answer(c, s, packet) ELSE <<>>)
                                   \o Broadcast(Outgoing(call[1], call[2]))
                ELSE channel[t][r]]]
          /\ UNCHANGED connected

(* A client enters the room and asks everybody in it for the state.        *)
Join(c) ==
  /\ c \notin connected
  /\ connected' = connected \cup {c}
  /\ channel' = [channel EXCEPT ![c] =
        [r \in Clients |-> IF r \in connected THEN Append(@[r], Packet("REQ", <<>>)) ELSE @[r]]]
  /\ UNCHANGED <<engine, calls>>

Next == \E c \in Clients : Update(c) \/ Join(c)

Spec == Init /\ [][Next]_vars
-----------------------------------------------------------------------------
DataMaps == [Value : [Ids -> {None} \cup Values], NetworkEntity : [Ids -> {None} \cup Keys],
             SyncComponents : [Ids -> {None, SyncList}]]
EngineStates == [nextEntity : 1 .. MaxEntity + 1, removed : SUBSET Ids,
                 dirty : SUBSET (Components \X Ids), data : DataMaps,
                 timestamps : [Components -> [Ids -> Nat]], lastSent : DataMaps]

Puts(x, contents) == [type : {"COMPONENT"}, key : Keys, component : {x}, timestamp : Nat,
                      content : {None} \cup contents]
NetworkMessages == [type : {"DELETE_ENTITY"}, key : Keys] \cup Puts("Value", Values)
                   \cup Puts("NetworkEntity", Keys) \cup Puts("SyncComponents", {SyncList})
Packets == [kind : {"CRDT", "REQ", "RES"}, messages : Seq(NetworkMessages)]

(* Nothing is known of a local id before it is handed out.                 *)
Unused(g, e) == e \notin g.removed /\ \A x \in Components : g.data[x][e] = None

(* Engines and packets keep their types, and local ids are handed out in   *)
(* order, each once.                                                       *)
TypeOK ==
  /\ engine \in [Clients -> EngineStates]
  /\ channel \in [Clients -> [Clients -> Seq(Packets)]]
  /\ connected \subseteq Clients /\ calls \in 0 .. MaxCalls
  /\ \A c \in Clients, e \in Ids : e >= engine[c].nextEntity => Unused(engine[c], e)

(* A key maps to one live entity of each client (systems/crdt/index.ts,    *)
(* findNetworkId), whatever batches its messages arrived in.               *)
Alive(c, k) == Mapped(engine[c], k) \cap Live(engine[c])

OneEntityPerKey ==
  \A c \in Clients, k \in Keys : Cardinality(Alive(c, k)) <= 1

(* When nothing is on its way, everybody in the room has the same network  *)
(* entities with the same values, newcomers included.                      *)
View(c, k) == {engine[c].data["Value"][e] : e \in Alive(c, k)}

RoomAgreement ==
  (\A c, d \in Clients : channel[c][d] = <<>>) =>
     \A c, d \in connected : \A k \in Keys : View(c, k) = View(d, k)

(* For TLC, where the clients do the same.                                 *)
Symmetry == Permutations(Clients)
=============================================================================
