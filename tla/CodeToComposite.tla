--------------------------- MODULE CodeToComposite ---------------------------
(***************************************************************************)
(* The code-to-composite command                                           *)
(* (sdk-commands/src/commands/code-to-composite): it runs the code of a    *)
(* scene, moves the assets the captured entities use, writes the entities  *)
(* to main.composite and main.crdt, and comments the code out.  Every      *)
(* await is a step of its own, after which the command may fail or be      *)
(* killed; the author may run it again.                                    *)
(*                                                                         *)
(* Each source file makes one entity, which has the file's name here and   *)
(* one asset.  The content of a file is named after its first path.        *)
(***************************************************************************)
EXTENDS Naturals, FiniteSets

CONSTANTS Helpers,         \* source files the entry point imports
          Ui,              \* files whose entity has react-ecs components
          Assets,          \* records: dir, name, model
          Missing,         \* assets that are not on disk
          RunsOnMigrated,  \* whether the command runs where code is commented
          MaxRuns          \* bound: runs of the command

MigrationAssumption == MaxRuns \in Nat

VARIABLE migration

Entry == "src/index.ts"
Files == Helpers \cup {Entry}

Path(dir, name) == [dir |-> dir, name |-> name]
Original(asset) == Path(asset.dir, asset.name)

(* The texture beside a model that the model refers to.                    *)
Dependency(asset) == Path(asset.dir, "skin.png")

(* Every model has a folder of its own.  Faulty variant: one for all.      *)
getDestinationSharedFolder(asset) ==
  Path(IF asset.model THEN <<"Models">> ELSE <<"Images">>, asset.name)
getDestinationPath(asset) ==
  Path(IF asset.model THEN <<"Models", asset.name>> ELSE <<"Images">>, asset.name)

OnDisk == {Original(a) : a \in Assets \ Missing} \cup
          {Dependency(a) : a \in {b \in Assets : b.model}}

Init ==
  \E uses \in [Files -> Assets] :
    migration = [uses |-> uses, step |-> "idle", runs |-> 0, live |-> Files,
                 disk |-> [p \in OnDisk |-> p],
                 engine |-> <<>>, todo |-> {}, mapping |-> <<>>, names |-> {},
                 composite |-> <<>>, crdt |-> <<>>, entityNames |-> {}]

(* The steps of exportSceneToCrdt.  Faulty variant: comments first.        *)
StepAfterCommentsFirst(step) ==
  CASE step = "update"    -> "names"
    [] step = "names"     -> "comment"
    [] step = "composite" -> "crdt"
    [] step = "crdt"      -> "types"
    [] step = "types"     -> "idle"
    [] step = "comment"   -> "composite"
StepAfter(step) ==
  CASE step = "update"    -> "names"
    [] step = "names"     -> "composite"
    [] step = "composite" -> "crdt"
    [] step = "crdt"      -> "types"
    [] step = "types"     -> "comment"
    [] step = "comment"   -> "idle"

-----------------------------------------------------------------------------
(* The author confirms, or passes --yes; a refusal changes nothing.        *)
Main ==
  /\ migration.step = "idle" /\ migration.runs < MaxRuns
  /\ RunsOnMigrated \/ migration.live = Files
  /\ migration' = [migration EXCEPT !.step = "execute", !.runs = @ + 1]

(* What the mocked runtime captures of the scene: the entities its code    *)
(* creates.  An entry point that is commented out creates none; entities   *)
(* it got back from main.crdt are not sent again.                          *)
Captured(live) == IF Entry \in live THEN live ELSE {}

filterInspectorCompatibleComponents(entities) == entities \ Ui

(* The bundle is built, loaded, started and updated once.  It cannot be    *)
(* built when the entry point imports from a file that is commented out.   *)
executeSceneCode ==
  /\ migration.step = "execute"
  /\ IF Entry \in migration.live /\ migration.live # Files
       THEN migration' = [migration EXCEPT !.step = "idle"]
       ELSE LET kept == filterInspectorCompatibleComponents(Captured(migration.live)) IN
            migration' = [migration EXCEPT
              !.step = "copy",
              !.engine = [f \in kept |-> Original(migration.uses[f])],
              !.todo = {migration.uses[f] : f \in kept},
              !.mapping = <<>>, !.names = {}]

With(f, x, y) == [z \in DOMAIN f \cup {x} |-> IF z = x THEN y ELSE f[z]]

Copied(s, from, to) ==
  [s EXCEPT !.disk = With(@, to, s.disk[from]), !.mapping = With(@, from, to)]

(* One asset of migrateAssets, with what a model depends on.               *)
CopyAsset(asset) ==
  /\ migration.step = "copy" /\ asset \in migration.todo
  /\ LET dst    == getDestinationPath(asset)
         copied == Copied(migration, Original(asset), dst)
         next   == IF Original(asset) \notin DOMAIN migration.disk THEN migration
                   ELSE IF asset.model
                        THEN Copied(copied, Dependency(asset),
                                    Path(dst.dir, Dependency(asset).name))
                        ELSE copied
     IN  migration' = [next EXCEPT !.todo = @ \ {asset}]

(* Without any asset the components are left as they are, too.             *)
AssetsCopied ==
  /\ migration.step = "copy" /\ migration.todo = {}
  /\ migration' = [migration EXCEPT !.step = "update"]

replaceAssetPaths(path, mapping) == IF path \in DOMAIN mapping THEN mapping[path] ELSE path

UpdateComponents ==
  /\ migration.step = "update"
  /\ migration' = [migration EXCEPT
       !.engine = [f \in DOMAIN @ |-> replaceAssetPaths(@[f], migration.mapping)],
       !.step = StepAfter("update")]

(* Entities are named after their model; one with a texture only is not.   *)
generateEntityNames ==
  /\ migration.step = "names"
  /\ migration' = [migration EXCEPT
       !.names = {f \in DOMAIN migration.engine : migration.uses[f].model},
       !.step = StepAfter("names")]

WriteComposite ==
  /\ migration.step = "composite"
  /\ migration' = [migration EXCEPT !.composite = migration.engine,
                                    !.step = StepAfter("composite")]

WriteCrdt ==
  /\ migration.step = "crdt"
  /\ migration' = [migration EXCEPT !.crdt = migration.engine, !.step = StepAfter("crdt")]

WriteEntityNames ==
  /\ migration.step = "types"
  /\ migration' = [migration EXCEPT !.entityNames = migration.names,
                                    !.step = StepAfter("types")]

(* The files are commented out concurrently; one that is already commented *)
(* is left alone.                                                          *)
commentSourceFile(file) ==
  /\ migration.step = "comment" /\ file \in migration.live
  /\ migration' = [migration EXCEPT !.live = @ \ {file}]

Commented ==
  /\ migration.step = "comment" /\ migration.live = {}
  /\ migration' = [migration EXCEPT !.step = StepAfter("comment")]

(* An error of the scene or of the file system ends the command, and so    *)
(* does killing it.                                                        *)
Fail ==
  /\ migration.step # "idle"
  /\ migration' = [migration EXCEPT !.step = "idle"]

Next ==
  \/ Main \/ executeSceneCode \/ AssetsCopied \/ UpdateComponents \/ generateEntityNames
  \/ WriteComposite \/ WriteCrdt \/ WriteEntityNames \/ Commented \/ Fail
  \/ \E asset \in Assets : CopyAsset(asset)
  \/ \E file \in Files : commentSourceFile(file)

Spec == Init /\ [][Next]_migration
-----------------------------------------------------------------------------
(* Type invariant: what is written was captured before.                    *)
TypeOK ==
  /\ migration.live \subseteq Files /\ migration.runs \in 0..MaxRuns
  /\ DOMAIN migration.composite \subseteq Files \ Ui
  /\ DOMAIN migration.crdt \subseteq Files \ Ui
  /\ migration.names \subseteq Files /\ migration.entityNames \subseteq Files
  /\ migration.todo \subseteq Assets
  /\ OnDisk \subseteq DOMAIN migration.disk

(* Wherever the command stops, each entity of the scene is still made by   *)
(* the code or is in both files that replace it.                           *)
NoEntityIsLost ==
  \A f \in Files \ Ui :
    \/ f \in Captured(migration.live)
    \/ f \in DOMAIN migration.composite \cap DOMAIN migration.crdt

(* An entity of the composite shows the asset it had in the code.          *)
AssetsKeepTheirContent ==
  \A f \in DOMAIN migration.composite :
    LET asset == migration.uses[f] IN
    asset \notin Missing =>
      /\ migration.composite[f] \in DOMAIN migration.disk
      /\ migration.disk[migration.composite[f]] = Original(asset)
      /\ asset.model =>
           migration.disk[Path(migration.composite[f].dir, Dependency(asset).name)]
             = Dependency(asset)
=============================================================================
