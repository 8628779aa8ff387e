---------------------------- MODULE SceneEvents ----------------------------
(***************************************************************************)
(* The events of players: definePlayerHelper of sdk/src/players/index.ts,  *)
(* and processObservables of sdk/src/observables.ts on top of it.          *)
(*                                                                         *)
(* The renderer gives every player in the scene a PlayerIdentityData and an*)
(* AvatarBase and takes them away when the player leaves.  A system finds  *)
(* those that are new; who leaves is told by a callback on the component.  *)
(* The first observer of an event subscribes to the source of the event,   *)
(* and the switch of subscribe goes on through the cases below it.         *)
(*                                                                         *)
(* Ghosts: told (for each name and player, the calls of observers by the   *)
(* event in course), news (players the systems had no tick for).           *)
(***************************************************************************)
EXTENDS Naturals, Sequences, FiniteSets, Functions

CONSTANTS
  Players,
  EventNames,   \* that a scene may observe, a subset of DOMAIN CaseOf
  MaxNames      \* how many of them it observes

VARIABLES events

vars == <<events>>

(* The case of each name in the switch; lower cases come first.            *)
CaseOf ==
  [playerClicked |-> 1, onEnterScene |-> 2, playerConnected |-> 2,
   onLeaveScene |-> 3, playerDisconnected |-> 3, onRealmChanged |-> 4,
   playerExpression |-> 5, profileChanged |-> 6, sceneStart |-> 7]

Cases == 1 .. 6
Silence == [n \in EventNames |-> [p \in Players |-> 0]]

EventsInit ==
  events = [inScene        |-> <<>>,         \* players, in the order they came
            playerEntities |-> {},
            subscriptions  |-> {},
            sources        |-> [c \in Cases |-> 0],      \* times subscribed
            clickEntities  |-> {},
            sceneReady     |-> FALSE,
            told |-> Silence, news |-> {}]

Init == EventsInit

TypeOK ==
  /\ Range(events.inScene) \subseteq Players /\ IsInjective(events.inScene)
  /\ events.playerEntities \cup events.clickEntities \subseteq Players
  /\ events.subscriptions \subseteq EventNames
  /\ events.sources \in [Cases -> 0 .. Cardinality(EventNames)]
-----------------------------------------------------------------------------
(* notifyObservers of the names of a case for some players, once per       *)
(* subscription to it.                                                     *)
Told(s, c, players) ==
  [s EXCEPT !.told = [n \in EventNames |->
     IF CaseOf[n] = c /\ n \in s.subscriptions
     THEN [p \in Players |-> @[n][p] + IF p \in players THEN s.sources[c] ELSE 0]
     ELSE @[n]]]

Event(s) == [s EXCEPT !.told = Silence]

(* subscribe.  For the start of the scene there is no case.                *)
subscribe(n) ==
  /\ n \notin events.subscriptions /\ Cardinality(events.subscriptions) < MaxNames
  /\ events' = [Event(events) EXCEPT
       !.sources = [c \in Cases |-> IF c >= CaseOf[n] THEN @[c] + 1 ELSE @[c]],
       !.subscriptions = @ \cup {n},
       !.news = Range(events.inScene)]

(* Players the system finds.  Each time one is found, one more callback is *)
(* put on its AvatarBase; the first of them does what all would do.        *)
Found(s, players) == Told([s EXCEPT !.playerEntities = @ \cup players], 2, players)

(* The system of definePlayerHelper.                                       *)
PlayersSystem(s) ==
  IF Len(s.inScene) = Cardinality(s.playerEntities) THEN s
  ELSE Found(s, Range(s.inScene) \ s.playerEntities)

(* The system of subscribePlayerClick: it returns at the first player it   *)
(* has seen already.                                                       *)
PlayerClickSystem(s) ==
  LET known == {i \in DOMAIN s.inScene : s.inScene[i] \in s.clickEntities}
      ahead == {i \in DOMAIN s.inScene : \A k \in known : i < k}
  IN  IF s.sources[1] = 0 THEN s
      ELSE [s EXCEPT !.clickEntities = @ \cup {s.inScene[i] : i \in ahead}]

(* One tick, with observableSystem.                                        *)
Tick ==
  LET s     == PlayerClickSystem(PlayersSystem(Event(events)))
      start == IF events.sceneReady \/ "sceneStart" \notin events.subscriptions THEN s
               ELSE [s EXCEPT !.told["sceneStart"] = [p \in Players |-> 1]]
  IN  events' = [start EXCEPT !.sceneReady = TRUE, !.news = {}]

PlayerComes(p) ==
  /\ p \notin Range(events.inScene)
  /\ events' = [Event(events) EXCEPT !.inScene = Append(@, p), !.news = @ \cup {p}]

(* Faulty variant: the player is not forgotten.                            *)
LeftButKnown(s, p) == IF p \in s.playerEntities THEN Told(s, 3, {p}) ELSE s

(* The callbacks on the AvatarBase of a player who leaves.                 *)
Left(s, p) ==
  IF p \in s.playerEntities
  THEN [Told(s, 3, {p}) EXCEPT !.playerEntities = @ \ {p}] ELSE s

PlayerLeaves(i) ==
  LET p == events.inScene[i] IN
  events' = Left([Event(events) EXCEPT !.inScene = SubSeq(@, 1, i - 1) \o SubSeq(@, i + 1, Len(@)),
                                       !.news = @ \ {p}], p)

(* A click, on a player whose PointerEventsResult is observed.             *)
PlayerClicked(p) ==
  /\ p \in Range(events.inScene)
  /\ events' = IF p \in events.clickEntities THEN Told(Event(events), 1, {p})
               ELSE Event(events)

(* The realm, the expression or the profile of the player here.            *)
OwnPlayerChanges(c, p) ==
  /\ c \in {4, 5, 6}
  /\ events' = Told(Event(events), c, {p})

Next ==
  \/ Tick
  \/ \E n \in EventNames : subscribe(n)
  \/ \E i \in DOMAIN events.inScene : PlayerLeaves(i)
  \/ \E p \in Players :
       \/ PlayerComes(p) \/ PlayerClicked(p)
       \/ \E c \in Cases : OwnPlayerChanges(c, p)

Spec == Init /\ [][Next]_vars
-----------------------------------------------------------------------------
(* The scan that is skipped when the numbers agree misses nobody: after a  *)
(* tick the helper knows exactly the players in the scene, whoever came and*)
(* left in between.                                                        *)
PlayersAreKnown ==
  Range(events.inScene) \ events.news \subseteq events.playerEntities
    /\ events.playerEntities \subseteq Range(events.inScene)

(* "This event gets triggered when the user enters the scene", and so on:  *)
(* one event calls the observers of a name once.                           *)
HeardAtMostOnce ==
  \A n \in EventNames, p \in Players : events.told[n][p] <= 1

(* Not an invariant: the loop over the players returns at the first it     *)
(* knows.                                                                  *)
(* "Triggered when other player's avatar is clicked": after a tick the     *)
(* clicks on every player in the scene are observed.                       *)
ClicksAreObserved ==
  events.sources[1] # 0 =>
    Range(events.inScene) \ events.news \subseteq events.clickEntities
=============================================================================
