----------------------------- MODULE MediaEvents -----------------------------
(***************************************************************************)
(* The three systems that report what the renderer does with an asset, an  *)
(* audio or a video: ecs/src/systems/assetLoad.ts, audioEvents.ts and      *)
(* videoEvents.ts.                                                         *)
(*                                                                         *)
(* Each keeps a callback per entity.  Assets: every new value of the row   *)
(* is reported, and the length reported so far is kept.  Audio and video:  *)
(* the last value is reported if its state is not the one reported before. *)
(* After the callback the entry is written again, whatever the callback    *)
(* did with it.                                                            *)
(*                                                                         *)
(* heard is not in the code: the states the callback got since it was last *)
(* unregistered.                                                           *)
(***************************************************************************)
EXTENDS Naturals, Sequences

CONSTANTS
  Entities,       \* here one entity stands for one system and one entity
  Kinds,          \* of the systems looked at: "asset", "audio", "video"
  MediaStates,
  MaxRow,         \* bound on the row of an entity; a longer one would be trimmed
  CallbackQuits   \* whether callbacks unregister themselves

VARIABLES media, entityState

vars == <<media, entityState>>
Unknown == 0   \* not one of MediaStates
NoEntry == [registered |-> FALSE, lastLength |-> 0, lastState |-> Unknown]

MediaInit ==
  \E kind \in [Entities -> Kinds] :
    media = [e \in Entities |->
               [kind |-> kind[e], entry |-> NoEntry, row |-> <<>>, heard |-> <<>>,
                player |-> FALSE]]   \* AudioSource, AudioStream, VideoPlayer

Init == MediaInit /\ entityState = [e \in Entities |-> "used"]

(* Type invariant: nothing is remembered for an entity not registered.     *)
TypeOK ==
  /\ \A e \in Entities :
       /\ media[e].row \in Seq(MediaStates) /\ media[e].player \in BOOLEAN
       /\ media[e].entry.lastLength \in 0 .. MaxRow
       /\ ~media[e].entry.registered => media[e].entry = NoEntry
  /\ entityState \in [Entities -> {"used", "removing", "removed"}]
-----------------------------------------------------------------------------
Unregistered(m) == [m EXCEPT !.entry = NoEntry, !.heard = <<>>]

(* Faulty variant: an asset's row is reported whole.                       *)
NewsOfAssetWhole(m) == IF Len(m.row) = m.entry.lastLength THEN <<>> ELSE m.row

(* The part of the row the callback gets: of an asset, what came since; of *)
(* an audio or a video, the last value, if its state is another one.       *)
NewsOfAsset(m) == SubSeq(m.row, m.entry.lastLength + 1, Len(m.row))

NewsOfState(m) ==
  IF m.row = <<>> \/ m.entry.lastState = m.row[Len(m.row)] THEN <<>>
  ELSE <<m.row[Len(m.row)]>>

News(m) == IF m.kind = "asset" THEN NewsOfAsset(m) ELSE NewsOfState(m)

(* An audio or a video without its player component is forgotten.          *)
AssetIsGone(e)     == entityState[e] = "removed"
PlayerIsGone(m, e) == entityState[e] = "removed" \/ ~m.player
IsGone(m, e) == IF m.kind = "asset" THEN AssetIsGone(e) ELSE PlayerIsGone(m, e)

(* AssetLoadEventSystem, AudioEventSystem, VideoEventSystem, for one entry.*)
(* A callback that quits empties heard and is written back all the same.   *)
Visit(m, e) ==
  LET news == News(m)
      told == [m EXCEPT !.heard = IF CallbackQuits THEN news ELSE @ \o news]
  IN  IF ~m.entry.registered THEN m
      ELSE IF IsGone(m, e) THEN Unregistered(m)
      ELSE IF news = <<>> THEN m
      ELSE [told EXCEPT !.entry =
              [registered |-> TRUE,
               lastLength |-> IF m.kind = "asset" THEN Len(m.row) ELSE 0,
               lastState  |-> IF m.kind = "asset" THEN Unknown ELSE m.row[Len(m.row)]]]
-----------------------------------------------------------------------------
(* Assets and videos registered again keep what they remember, audios     *)
(* start anew.                                                             *)
registerAssetLoadLoadingStateEntity(e) ==
  /\ media[e].kind = "asset"
  /\ media' = [media EXCEPT ![e].entry.registered = TRUE]
  /\ UNCHANGED entityState

registerVideoEventsEntity(e) ==
  /\ media[e].kind = "video"
  /\ media' = [media EXCEPT ![e].entry.registered = TRUE]
  /\ UNCHANGED entityState

registerAudioEventsEntity(e) ==
  /\ media[e].kind = "audio"
  /\ media' = [media EXCEPT ![e] = [Unregistered(@) EXCEPT !.entry.registered = TRUE]]
  /\ UNCHANGED entityState

(* remove*Entity.                                                          *)
removeEntity(e) ==
  /\ media' = [media EXCEPT ![e] = Unregistered(@)]
  /\ UNCHANGED entityState

MediaEventsSystem ==
  /\ media' = [e \in Entities |-> Visit(media[e], e)]
  /\ entityState' = [e \in Entities |-> IF entityState[e] = "removing"
                                        THEN "removed" ELSE entityState[e]]

(* get*State: the newest value of the row.                                 *)
getState(e) ==
  IF media[e].row = <<>> THEN Unknown ELSE media[e].row[Len(media[e].row)]

(* The scene adds and removes the player component.                        *)
SetPlayer(e, present) ==
  /\ media[e].kind # "asset" /\ entityState[e] = "used"
  /\ media' = [media EXCEPT ![e].player = present]
  /\ UNCHANGED entityState

RendererReports(e, state) ==
  /\ entityState[e] = "used" /\ Len(media[e].row) < MaxRow
  /\ media' = [media EXCEPT ![e].row = Append(@, state)]
  /\ UNCHANGED entityState

RemoveEntity(e) ==
  /\ entityState[e] = "used"
  /\ entityState' = [entityState EXCEPT ![e] = "removing"]
  /\ media' = [media EXCEPT ![e].row = <<>>, ![e].player = FALSE]

Next ==
  \/ MediaEventsSystem
  \/ \E e \in Entities :
       \/ registerAssetLoadLoadingStateEntity(e)
       \/ registerVideoEventsEntity(e)
       \/ registerAudioEventsEntity(e)
       \/ removeEntity(e) \/ RemoveEntity(e)
       \/ \E present \in BOOLEAN : SetPlayer(e, present)
       \/ \E state \in MediaStates : RendererReports(e, state)

Spec == Init /\ [][Next]_vars
-----------------------------------------------------------------------------
(* The callback of an asset has got the values up to the length the entry  *)
(* remembers, each once and in order; that of an audio or a video never    *)
(* got the same state twice in a row.                                      *)
HeardAtMostOnce ==
  \A e \in Entities :
    LET m == media[e] IN
    (m.entry.registered /\ entityState[e] = "used")
      => IF m.kind = "asset"
         THEN m.heard = SubSeq(m.row, 1, m.entry.lastLength)
         ELSE \A i \in 1 .. Len(m.heard) - 1 : m.heard[i] # m.heard[i + 1]
=============================================================================
