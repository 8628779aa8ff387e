------------------------------ MODULE Toolchain ------------------------------
(***************************************************************************)
(* The commands of sdk-commands that are modelled one by one, side by side,*)
(* and the runtime that the bundler inlines in a scene.  Each is a process *)
(* of its own; a behaviour is that of one of them, and state is the record *)
(* of its module.                                                          *)
(***************************************************************************)
EXTENDS Integers, Sequences, FiniteSets

CONSTANTS
  Entities, Paths, Priorities, Shapes, MaxScripts,              \* RunScripts
  Numbers, MaxSaves,                                            \* SceneBundle
  Parcels, Mine, MaxRequests,                                   \* SceneDeploy
  Clients, Legacy, Scenes, MaxChanges,                          \* PreviewServer
  Helpers, Ui, Assets, Missing, RunsOnMigrated,                 \* CodeToComposite
  Items, Commands, MaxPosts,                                    \* QuestCommand
  Folders, Grid, World, MaxParcels,                             \* SceneValidation
  Projects, Lower, DefaultIgnored, UserIgnored, UnderOutput,    \* ExportStatic
  Contents, MaxEdits,
  MaxRuns     \* bound: runs of code-to-composite and of export-static

VARIABLES command, state

vars == <<command, state>>

Scripts    == INSTANCE RunScripts WITH scripts <- state
Bundle     == INSTANCE SceneBundle WITH bundle <- state
Deploy     == INSTANCE SceneDeploy WITH deploy <- state
Preview    == INSTANCE PreviewServer WITH preview <- state, Projects <- Scenes
Migration  == INSTANCE CodeToComposite WITH migration <- state
Quests     == INSTANCE QuestCommand WITH quest <- state
Validation == INSTANCE SceneValidation WITH validation <- state
Export     == INSTANCE ExportStatic WITH export <- state

ASSUME ParametersAssumption ==
  /\ Scripts!ScriptsAssumption /\ Deploy!MineAssumption /\ Preview!LegacyAssumption
  /\ Validation!ValidationAssumption /\ Bundle!BundleAssumption
  /\ Migration!MigrationAssumption /\ Quests!QuestsAssumption /\ Export!ExportAssumption

-----------------------------------------------------------------------------
Init ==
  \/ command = "scripts"         /\ Scripts!Init
  \/ command = "build"           /\ Bundle!Init
  \/ command = "deploy"          /\ Deploy!Init
  \/ command = "start"           /\ Preview!Init
  \/ command = "codeToComposite" /\ Migration!Init
  \/ command = "quests"          /\ Quests!Init
  \/ command = "validation"      /\ Validation!Init
  \/ command = "exportStatic"    /\ Export!Init

Next ==
  /\ \/ command = "scripts"         /\ Scripts!Next
     \/ command = "build"           /\ Bundle!Next
     \/ command = "deploy"          /\ Deploy!Next
     \/ command = "start"           /\ Preview!Next
     \/ command = "codeToComposite" /\ Migration!Next
     \/ command = "quests"          /\ Quests!Next
     \/ command = "validation"      /\ Validation!Next
     \/ command = "exportStatic"    /\ Export!Next
  /\ UNCHANGED command

(* The watcher delivers its events, timers fire, esbuild ends, clients     *)
(* read their sockets, servers answer or fail; nothing is assumed of the   *)
(* author and of what the dApp posts.                                      *)
Fairness ==
  /\ WF_vars(command = "build" /\ Bundle!Work /\ UNCHANGED command)
  /\ WF_vars(command = "start" /\ Preview!Work /\ UNCHANGED command)
  /\ WF_vars(command = "deploy" /\ Deploy!Work /\ UNCHANGED command)
  /\ WF_vars(command = "quests" /\ Quests!Work /\ UNCHANGED command)

Spec == Init /\ [][Next]_vars /\ Fairness
-----------------------------------------------------------------------------
(* Type invariant: the one of each command.                                *)
TypesOK ==
  /\ command = "scripts"         => Scripts!TypeOK
  /\ command = "build"           => Bundle!TypeOK
  /\ command = "deploy"          => Deploy!TypeOK
  /\ command = "start"           => Preview!TypeOK
  /\ command = "codeToComposite" => Migration!TypeOK
  /\ command = "quests"          => Quests!TypeOK
  /\ command = "validation"      => Validation!TypeOK
  /\ command = "exportStatic"    => Export!TypeOK

(* Every script that started is updated once per tick while its entity is  *)
(* alive, in the order of priorities, and not afterwards, whatever scripts *)
(* remove while they start and run (logic/runtime-script.ts).              *)
ScriptsKeepTheirTurn == command = "scripts" => Scripts!ScriptsKeepTheirTurn

(* Once every save was heard and every rebuild is over, the bundle is that *)
(* of the last saved files unless the save joined a build already reading  *)
(* (logic/bundle.ts); and a connected client of the preview has the files  *)
(* on disk, but for what the debounce swallowed (start/server).            *)
PreviewIsCurrent ==
  /\ command = "build" => Bundle!StaleOnlyBehindActiveBuild
  /\ command = "start" => Preview!ClientsAreCurrent

(* Only whole things are sent, and an end without an error means they were:*)
(* a deploy that resolves has its scene in the world, and a quest is sent  *)
(* with all that is asked of it, and not once its author cancelled.        *)
OnlyWholeThingsAreSent ==
  /\ command = "deploy" => Deploy!ResolvedMeansDeployed
  /\ command = "quests" => Quests!OnlyWholeQuestsAreSent

(* Wherever code-to-composite stops, each entity is made by the code or is *)
(* in both files that replace it, and shows the asset it had in the code.  *)
NoEntityIsLost ==
  command = "codeToComposite" =>
    Migration!NoEntityIsLost /\ Migration!AssetsKeepTheirContent

(* Whoever loads an exported entity finds the files it names, and the realm*)
(* names only entities that are there, whenever export-static was killed.  *)
EveryEntityIsServed == command = "exportStatic" => Export!EveryEntityIsServed

(* When the author has saved for the last time, builds come to an end, and *)
(* a failed one has not ended the watch (logic/bundle.ts); and every client*)
(* that is connected, or connects later, comes to have the files and keeps *)
(* them (file-watch-notifier.ts).                                          *)
SavesArrive ==
  /\ <>[](command = "build" => Bundle!Settled)
  /\ <>[](command = "start" => Preview!EveryoneIsCurrent)

(* Whoever signed in the dApp is not left waiting: the command ends, if    *)
(* with an error, whichever server failed and whatever else was posted     *)
(* (deploy/utils.ts, quests/utils.ts).                                     *)
SignersAreAnswered ==
  /\ <>[](command = "deploy" => Deploy!EndedIfPosted)
  /\ <>[](command = "quests" => Quests!EndedIfPosted)

(* The scenes accepted are those whose parcels hang together.              *)
WalkFindsConnection == command = "validation" => Validation!WalkFindsConnection
-----------------------------------------------------------------------------
(* What TLC takes for the constants that are no sets of simple values.     *)
OfBothSigns == {-1, 1}

Asset(dir, name, model) == [dir |-> <<dir>>, name |-> name, model |-> model]
GoneAsset  == Asset("x", "gone.png", FALSE)
TwoModels  == {Asset("x", "a", TRUE), Asset("y", "b", TRUE), Asset("x", "skin.png", FALSE),
               GoneAsset}
OneMissing == {GoneAsset}

(* All parcels of the grid are a scene, but one is outside the world.      *)
SixParcels == (1 .. 3) \X (1 .. 2)
AllButOne  == SixParcels \ {<<3, 2>>}
OneScene   == <<{1}>>

(* "a" and "A" have one key in the mapping of the entity.                  *)
TwoProjects == <<{"a", "A", "x.ts"}, {"b", "o"}>>
InLowerCase == [f \in {"a", "A", "x.ts", "b", "o"} |-> IF f = "A" THEN "a" ELSE f]
=============================================================================
