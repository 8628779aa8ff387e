---------------------------- MODULE SceneFeatures ----------------------------
(***************************************************************************)
(* The features of a scene that are modelled one by one, in an instance    *)
(* for TLC: those of CoreFeatures, and here those whose properties are     *)
(* model-checked only.  Each behaviour is that of one feature.  state is   *)
(* the record of the chosen feature; the other variables are those of      *)
(* features that have more than one, and are off elsewhere.                *)
(***************************************************************************)
EXTENDS CoreFeatures

VARIABLES raw, queuedCommands, inbox, added, log, deletions

setVars == <<raw, queuedCommands, inbox, added, log, deletions>>
vars    == <<coreVars, setVars>>

-----------------------------------------------------------------------------
(* Of CoreFeatures: two names with one number, sequences of at most one.   *)
ThreeNames == [name \in {"Transform", "a", "b"} |-> IF name = "Transform" THEN 1 ELSE 2]
SmallSequences == [sequence : {<<>>, <<[n |-> 2, forward |-> TRUE]>>},
                   loop : {"restart", "yoyo", "undefined"}]

SmallRepulsions ==
  {[magnitude |-> 2, radius |-> 2, falloff |-> "linear"],
   [magnitude |-> 2, radius |-> -1, falloff |-> "constant"]}
SmallPositions == {-1, 0, 3}
TwoUiSystems == <<"a", "b">>
OneFirst == [s \in {"a", "b", "c", "tasks"} |-> IF s = "a" THEN 2 ELSE 1]

(* Many commands and few registrations, and the other way round.           *)
TwoOptions ==
  [f \in {"onClick", "onPointerUp", "onPointerDown"} |->
     IF f = "onPointerDown" THEN {[button |-> 2, hoverText |-> TRUE]}
     ELSE {[button |-> 1, hoverText |-> TRUE], [button |-> 0, hoverText |-> FALSE]}]
Announcements == INSTANCE PointerEvents WITH
  input <- state, Entities <- {"e1"}, States <- {"down", "up"},
  Registrations <- DOMAIN TwoOptions, Options <- TwoOptions,
  MaxPointerCalls <- 4, MaxCommands <- 0

Tree == INSTANCE EntityTree WITH tree <- state, Entities <- {"e1", "e2", "e3"}

Leaf == [transforms |-> <<[entity |-> 1, parent |-> 2], [entity |-> 2, parent |-> 0]>>,
         nested |-> <<>>]
Nesting(nested) ==
  [transforms |-> <<[entity |-> 1, parent |-> 0], [entity |-> 2, parent |-> 1]>>,
   nested |-> nested]
Composites == INSTANCE CompositeInstance WITH
  composites <- state, Sources <- {"a", "b"}, Modes <- {"none", "next"},
  Definitions <- {Leaf} \cup {Nesting(<<<<1, s>>>>) : s \in {"a", "b"}}
                   \cup {Nesting(<<<<1, s>>, <<3, t>>>>) : s, t \in {"a", "b"}},
  FirstEntity <- 2, LastEntity <- 40, Available <- 8, MaxInstances <- 2

(* Trees of plain instances, and fewer whose properties change.            *)
UiTrees == INSTANCE UiTree WITH
  ui <- state, Instances <- 1 .. 4, Styled <- {},
  Listeners <- {"l"}, PropValues <- {"undefined", "zero", "one"}
UiProps == INSTANCE UiTree WITH
  ui <- state, Instances <- 1 .. 2, Styled <- 1 .. 2,
  Listeners <- {"l"}, PropValues <- {"undefined", "zero", "one"}

Messages == INSTANCE CrdtMessages WITH
  buffer <- state, InitialCapacity <- 6, Payloads <- {<<>>, <<31, 32, 33>>},
  MaxMessages <- 2, MaxResets <- 1

Codec == INSTANCE Utf8 WITH
  codec <- state, MaxBytes <- 4, MaxUnits <- 3,
  Bytes <- {65, 194, 224, 237, 240, 244, 143, 159, 191},
  Units <- {65, 2047, 2048, 55296, 56319, 56320, 65279}

Sends == INSTANCE NetworkSend WITH
  sending <- state, Sizes <- {1, 2, 5}, Header <- 1, StateHeader <- 1, LIVEKIT_MAX_SIZE <- 4,
  MaxTicks <- 3, MaxMessages <- 2

(* The value set has the variables of its module.                          *)
ValueSet == INSTANCE GrowOnlyValueSet WITH
  Engines <- {"e1", "e2"}, maxElements <- 2, MaxDeletions <- 1,
  Elements <- {[id |-> i, timestamp |-> IF i = 4 THEN 2 ELSE i] : i \in 1 .. 4}

ASSUME FeaturesAssumption == ValueSet!ValueSetAssumption

-----------------------------------------------------------------------------
NoValueSet ==
  /\ raw = "off" /\ queuedCommands = "off" /\ inbox = "off" /\ added = "off"
  /\ log = "off" /\ deletions = "off"

Init ==
  \/ /\ NoTimers /\ NoValueSet
     /\ \/ feature = "announcements" /\ Announcements!Init
        \/ /\ NoPointer /\ NoEntities
           /\ \/ feature = "tree"       /\ Tree!Init
              \/ feature = "composites" /\ Composites!Init
              \/ feature = "uiTrees"    /\ UiTrees!Init
              \/ feature = "uiProps"    /\ UiProps!Init
              \/ feature = "messages"   /\ Messages!Init
              \/ feature = "codec"      /\ Codec!Init
              \/ feature = "sends"      /\ Sends!Init
  \/ CoreInit /\ NoValueSet
  \/ feature = "valueSet" /\ ValueSet!Init /\ NoState /\ NoEntities /\ NoPointer /\ NoTimers

(* The steps of the feature chosen.                                        *)
AllOthers == <<AllRest, setVars>>

Next ==
  \/ feature = "announcements" /\ Announcements!Next
       /\ UNCHANGED <<feature, timerVars, setVars>>
  \/ feature = "tree"          /\ Tree!Next          /\ UNCHANGED AllOthers
  \/ feature = "composites"    /\ Composites!Next    /\ UNCHANGED AllOthers
  \/ feature = "uiTrees"       /\ UiTrees!Next       /\ UNCHANGED AllOthers
  \/ feature = "uiProps"       /\ UiProps!Next       /\ UNCHANGED AllOthers
  \/ feature = "messages"      /\ Messages!Next      /\ UNCHANGED AllOthers
  \/ feature = "codec"         /\ Codec!Next         /\ UNCHANGED AllOthers
  \/ feature = "sends"         /\ Sends!Next         /\ UNCHANGED AllOthers
  \/ feature = "valueSet"      /\ ValueSet!Next      /\ UNCHANGED coreVars
  \/ CoreNext /\ UNCHANGED setVars

Spec == Init /\ [][Next]_vars
-----------------------------------------------------------------------------
(* Type invariant: the one of each feature.                                *)
TypesOK ==
  /\ feature = "raycasts"      => Raycasts!TypeOK
  /\ feature = "triggers"      => Triggers!TypeOK
  /\ feature = "media"         => Media!TypeOK
  /\ feature = "pointers"      => Pointers!TypeOK
  /\ feature = "announcements" => Announcements!TypeOK
  /\ feature = "tweens"        => Tweens!TypeOK
  /\ feature = "forces"        => Forces!TypeOK
  /\ feature = "list"          => List!TypeOK
  /\ feature = "registry"      => Registry!TypeOK
  /\ feature = "materials"     => Materials!TypeOK
  /\ feature = "tree"          => Tree!TypeOK
  /\ feature = "composites"    => Composites!TypeOK
  /\ feature = "uiTrees"       => UiTrees!TypeOK
  /\ feature = "uiProps"       => UiProps!TypeOK
  /\ feature = "uiSystems"     => UiSystems!TypeOK
  /\ feature = "inputs"        => Inputs!TypeOK
  /\ feature = "observables"   => Observables!TypeOK
  /\ feature = "events"        => Events!TypeOK
  /\ feature = "bus"           => Bus!TypeOK
  /\ feature = "messages"      => Messages!TypeOK
  /\ feature = "codec"         => Codec!TypeOK
  /\ feature = "sends"         => Sends!TypeOK
  /\ feature = "timers"        => TimerSystem!TypeOK
  /\ feature = "valueSet"      => ValueSet!TypeOK

(* What is given to the scene's queues is not lost: a message for the room *)
(* goes into one chunk or another (systems/crdt/index.ts), and what a      *)
(* pointer callback waits for is announced to the renderer, also among more*)
(* registrations than HeardAtMostOnce is checked with.                     *)
NothingIsLost ==
  /\ feature = "announcements" => Announcements!CallbackIsAnnounced
  /\ feature = "sends"         => Sends!NothingIsLostBetweenChunks

(* After React's commit, the entities and components of the UI are those of*)
(* its tree: parents, siblings in order, properties and listeners.         *)
CanvasMatchesTree ==
  /\ feature = "uiTrees" => UiTrees!CanvasMatchesTree
  /\ feature = "uiProps" => UiProps!CanvasMatchesTree

(* A removal takes the subtree and nothing else; the world transform is    *)
(* made of the ancestors in order; the check finds the cycles.  Instancing *)
(* a composite throws just where composites nest in a cycle or are not     *)
(* there, and two instances share no entity.                               *)
TreesAreTheirOwn ==
  /\ feature = "tree" =>
       Tree!RemovalTakesSubtree /\ Tree!WorldIsChainOfParents /\ Tree!CheckFindsCycles
  /\ feature = "composites" => Composites!ThrowsOnlyOnCycle /\ Composites!InstanceIsItsOwn

(* Bytes mean what was written: the messages read from a chunk, and the    *)
(* text read from UTF-8.                                                   *)
BytesMeanWhatWasWritten ==
  /\ feature = "messages" => Messages!ReadIsWhatWasWritten
  /\ feature = "codec"    => Codec!CodecIsStandard

(* The row of an entity holds the newest maxElements values of those that  *)
(* the engine applied since the last deletion, in the order of their times,*)
(* each once; engines that applied the same values hold the same row.      *)
RowsAreNewestOfLogs ==
  feature = "valueSet" => /\ ValueSet!RowIsNewestOfLog
                          /\ ValueSet!RowsConverge
                          /\ ValueSet!AppliedOnce
=============================================================================
