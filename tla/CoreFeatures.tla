---------------------------- MODULE CoreFeatures ----------------------------
(***************************************************************************)
(* The features of a scene that CoreFeaturesProofs is about.  Each         *)
(* behaviour is that of one feature, chosen at the start: they share no    *)
(* state but the engine's, which SceneEngine and NetworkSync model.  state *)
(* is the record of the chosen feature, entityState the engine's entities  *)
(* where the feature looks at them; pointer events have one more variable  *)
(* and timers have their own, off elsewhere.  SceneFeatures adds the other *)
(* features and is what TLC runs.                                          *)
(***************************************************************************)
EXTENDS Integers, Sequences, FiniteSets

CONSTANTS
  Intervals, FrameTimes, MaxTimers, MaxTime, NaN,            \* of Timers
  MaxBusMessages, Hangs,                                     \* of MessageBus
  Texts, EmptyText, NoText,                                  \* of UiInput
  MaterialEntities, TextureFields, TexturePaths, MaxObjects, \* of MaterialFlat
  ComponentNames, ComponentKinds, MaxDefinitions,            \* of ComponentRegistry
  ComponentNumber,
  TweenEntities, TweenNumbers, TweenSequences, MaxTweenCalls, \* of TweenSystem
  AreaEntities, Triggerers, SceneOwned, MaxAreaEvents,       \* of TriggerAreas
  ForceSources, Vectors, Repulsions, Positions, Durations,   \* of PhysicsHelpers
  MaxPhysicsCalls,
  Players, EventNames,                                       \* of SceneEvents
  UiSystemOrder, Canvases,                                   \* of UiSystem
  RaycastEntities, ImmediateEntities, MaxRaycasts,           \* of RaycastSystem
  MediaEntities, MediaKinds, MediaStates, MaxRow,            \* of MediaEvents
  Observers, Masks, OnceObservers,                           \* of Observable
  ListSystems, Priority, TaskSystem, Tasks, MaxListCalls,    \* of SystemList
  PointerEntities, Buttons, IA_ANY, PointerStates,           \* of PointerEvents
  Registrations, PointerOptions, MaxPointerCalls, MaxCommands

VARIABLES feature, state, entityState, pointer,
          timers, timerIdCounter, phase, elapsedMs, visited, armContext, now

timerVars == <<timers, timerIdCounter, phase, elapsedMs, visited, armContext, now>>
coreVars  == <<feature, state, entityState, pointer, timerVars>>

-----------------------------------------------------------------------------
(* TimerSystem has the variables of its module.                            *)
TimerSystem == INSTANCE Timers

Bus == INSTANCE MessageBus WITH bus <- state, MaxMessages <- MaxBusMessages

Inputs == INSTANCE UiInput WITH
  field <- state, SceneChanges <- {}

Materials == INSTANCE MaterialFlat WITH
  materials <- state, Entities <- MaterialEntities, Fields <- TextureFields,
  Sources <- TexturePaths

Registry == INSTANCE ComponentRegistry WITH
  registry <- state, Names <- ComponentNames, Kinds <- ComponentKinds,
  Number <- ComponentNumber

Tweens == INSTANCE TweenSystem WITH
  tweens <- state, Entities <- TweenEntities, Tweens <- TweenNumbers,
  SceneCalls <- {"set", "sequence"}, Interferes <- FALSE, Lag <- 0,
  Sequences_ <- TweenSequences

Triggers == INSTANCE TriggerAreas WITH
  areas <- state, Entities <- AreaEntities, MaxEvents <- MaxAreaEvents

(* The scene's own calls come from its systems.                            *)
Forces == INSTANCE PhysicsHelpers WITH
  physics <- state, Sources <- ForceSources, CallsBetweenTicks <- FALSE

(* A scene that observes one event.                                        *)
Events == INSTANCE SceneEvents WITH events <- state, MaxNames <- 1

UiSystems == INSTANCE UiSystem WITH ui <- state, Systems <- UiSystemOrder

Raycasts == INSTANCE RaycastSystem WITH
  raycasts <- state, Entities <- RaycastEntities, Immediate <- ImmediateEntities

(* Callbacks stay registered while they run.                               *)
Media == INSTANCE MediaEvents WITH
  media <- state, Entities <- MediaEntities, Kinds <- MediaKinds, CallbackQuits <- FALSE

Observables == INSTANCE Observable WITH observable <- state

List == INSTANCE SystemList WITH list <- state, Systems <- ListSystems

Pointers == INSTANCE PointerEvents WITH
  input <- state, Entities <- PointerEntities, States <- PointerStates,
  Options <- PointerOptions

ASSUME CoreAssumption ==
  /\ TimerSystem!TimersAssumption /\ Tweens!TweensAssumption
  /\ Forces!ForcesAssumption /\ UiSystems!UiAssumption
  /\ Raycasts!RaycastsAssumption /\ Observables!ObservableAssumption
  /\ List!ListAssumption /\ Pointers!PointerAssumption

-----------------------------------------------------------------------------
NoState    == state = "off"
NoEntities == entityState = "off"
NoPointer  == pointer = "off"
NoTimers ==
  /\ timers = "off" /\ timerIdCounter = "off" /\ phase = "off" /\ elapsedMs = "off"
  /\ visited = "off" /\ armContext = "off" /\ now = "off"

CoreInit ==
  \/ /\ NoTimers
     /\ \/ feature = "pointers" /\ Pointers!Init
        \/ /\ NoPointer
           /\ \/ feature = "triggers" /\ Triggers!Init
              \/ feature = "raycasts" /\ Raycasts!Init
              \/ feature = "media"    /\ Media!Init
              \/ /\ NoEntities
                 /\ \/ feature = "bus"         /\ Bus!Init
                    \/ feature = "inputs"      /\ Inputs!Init
                    \/ feature = "materials"   /\ Materials!Init
                    \/ feature = "registry"    /\ Registry!Init
                    \/ feature = "tweens"      /\ Tweens!Init
                    \/ feature = "forces"      /\ Forces!Init
                    \/ feature = "events"      /\ Events!Init
                    \/ feature = "uiSystems"   /\ UiSystems!Init
                    \/ feature = "observables" /\ Observables!Init
                    \/ feature = "list"        /\ List!Init
  \/ feature = "timers" /\ TimerSystem!Init /\ NoState /\ NoEntities /\ NoPointer

(* The steps of the feature chosen.                                        *)
Rest    == <<feature, pointer, timerVars>>
AllRest == <<entityState, Rest>>

CoreNext ==
  \/ feature = "pointers"    /\ Pointers!Next    /\ UNCHANGED <<feature, timerVars>>
  \/ feature = "triggers"    /\ Triggers!Next    /\ UNCHANGED Rest
  \/ feature = "raycasts"    /\ Raycasts!Next    /\ UNCHANGED Rest
  \/ feature = "media"       /\ Media!Next       /\ UNCHANGED Rest
  \/ feature = "bus"         /\ Bus!Next         /\ UNCHANGED AllRest
  \/ feature = "inputs"      /\ Inputs!Next      /\ UNCHANGED AllRest
  \/ feature = "materials"   /\ Materials!Next   /\ UNCHANGED AllRest
  \/ feature = "registry"    /\ Registry!Next    /\ UNCHANGED AllRest
  \/ feature = "tweens"      /\ Tweens!Next      /\ UNCHANGED AllRest
  \/ feature = "forces"      /\ Forces!Next      /\ UNCHANGED AllRest
  \/ feature = "events"      /\ Events!Next      /\ UNCHANGED AllRest
  \/ feature = "uiSystems"   /\ UiSystems!Next   /\ UNCHANGED AllRest
  \/ feature = "observables" /\ Observables!Next /\ UNCHANGED AllRest
  \/ feature = "list"        /\ List!Next        /\ UNCHANGED AllRest
  \/ feature = "timers"      /\ TimerSystem!Next /\ UNCHANGED <<feature, state, entityState, pointer>>

CoreSpec == CoreInit /\ [][CoreNext]_coreVars
-----------------------------------------------------------------------------
(* tweenCompleted is true in the tick where the renderer reports the end of*)
(* the Tween that is there, and in no other (systems/tween.ts).            *)
CompletionIsOfThisTween == feature = "tweens" => Tweens!CompletionIsOfThisTween

(* Every event reaches a callback once, whatever is registered, removed or *)
(* registered again between its arrival and the tick that tells it, or     *)
(* while it is told: results of raycasts, pointer and media events, the    *)
(* observers of a notification, the events of the scene, and systems that  *)
(* start the tasks of executeTask.  A pointer callback is announced to the *)
(* renderer, or it would hear nothing, and a press is missed only behind a *)
(* quicker one of the same button (engine/input.ts).  A system misses a    *)
(* tick only if one before it in the list was removed while the list was   *)
(* walked (engine/index.ts:316, engine/systems.ts).                        *)
HeardAtMostOnce ==
  /\ feature = "raycasts"    => Raycasts!HeardAtMostOnce
  /\ feature = "pointers"    => /\ Pointers!HeardAtMostOnce /\ Pointers!CallbackIsAnnounced
                                /\ Pointers!LostOnlyBehindQuickPress
  /\ feature = "media"       => Media!HeardAtMostOnce
  /\ feature = "observables" => Observables!HeardAtMostOnce
  /\ feature = "events"      => Events!HeardAtMostOnce
  /\ feature = "list"        => List!HeardAtMostOnce /\ List!SkipsOnlyByRemoval

(* What the scene wrote is what is sent: a Material that is not sent by the*)
(* next tick is the renderer's, whichever accessor wrote it, and an        *)
(* accessor reads what the component holds; a value goes out whichever     *)
(* handle of the component it was written through; messages on the bus are *)
(* handed over once and in order (message-bus.ts); and what the user types *)
(* is not overwritten by its echo.  An impulse is in the component the     *)
(* renderer sees (physics-impulse.ts).                                     *)
WritesAreSent ==
  /\ feature = "materials" => Materials!RendererHasWhatIsClean /\ Materials!AccessorReadsComponent
  /\ feature = "registry"  => Registry!EveryHandleIsSent
  /\ feature = "bus"       => Bus!HandedInOrder
  /\ feature = "inputs"    => Inputs!TypingIsNotOverwritten
  /\ feature = "forces"    => Forces!EveryImpulseIsFelt

(* What is remembered of others is true of them: who is inside a trigger   *)
(* area (systems/triggerArea.ts), which players there are (observables.ts),*)
(* whose scale factor and insets hold (react-ecs/src/system.ts), and which *)
(* sources the force on the player is the sum of (physics-force.ts).       *)
MemoryIsTrue ==
  /\ feature = "triggers"  => Triggers!InsideIsTruth
  /\ feature = "events"    => Events!PlayersAreKnown
  /\ feature = "uiSystems" => UiSystems!ScaleIsOfLiveUi
  /\ feature = "forces"    => Forces!ForceIsSumOfSources

(* Timers keep time (runtime/helpers/timers.ts): a callback that runs in a *)
(* frame runs at the first of its instants the frame covers, it keeps its  *)
(* phase however long frames are, and one armed by a callback counts from  *)
(* that callback's instant within the frame.                               *)
TimersKeepTime ==
  feature = "timers" => /\ TimerSystem!FiresAtItsInstant
                        /\ TimerSystem!PhaseAccurate
                        /\ TimerSystem!ChainWithinFrame
=============================================================================
