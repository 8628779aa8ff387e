--------------------------- MODULE ToolchainProofs ---------------------------
(***************************************************************************)
(* Proofs about the commands of sdk-commands, for every value of the       *)
(* constants of Toolchain.                                                 *)
(***************************************************************************)
EXTENDS Toolchain, SequenceFacts, TLAPS

(* A step of the toolchain is one of the command that runs.                *)
LEMMA CommandSteps ==
  ASSUME [Next]_vars
  PROVE  /\ command' = command
         /\ command = "scripts"         => [Scripts!Next]_state
         /\ command = "build"           => [Bundle!Next]_state
         /\ command = "deploy"          => [Deploy!Next]_state
         /\ command = "start"           => [Preview!Next]_state
         /\ command = "codeToComposite" => [Migration!Next]_state
         /\ command = "quests"          => [Quests!Next]_state
         /\ command = "validation"      => [Validation!Next]_state
         /\ command = "exportStatic"    => [Export!Next]_state
BY DEF Next, vars
-----------------------------------------------------------------------------
MigrationFields == {"uses", "step", "runs", "live", "disk", "engine", "todo", "mapping",
           "names", "composite", "crdt", "entityNames"}
Kept == Migration!Files \ Ui

(* Why no entity is lost: the code is whole until both files are written.  *)
Safe ==
  /\ DOMAIN state = MigrationFields
  /\ \/ state.live = Migration!Files
     \/ Kept \subseteq DOMAIN state.composite \cap DOMAIN state.crdt
  /\ state.step \in {"idle", "execute", "copy", "update", "names", "composite",
                         "crdt", "types", "comment"}
  /\ state.step \notin {"idle", "comment"} => state.live = Migration!Files
  /\ state.step \notin {"idle", "execute", "comment"} => Kept \subseteq DOMAIN state.engine
  /\ state.step \in {"crdt", "types", "comment"} => Kept \subseteq DOMAIN state.composite
  /\ state.step \in {"types", "comment"} => Kept \subseteq DOMAIN state.crdt

(* One step of the command preserves it, when the command is not run on    *)
(* code that is commented out in part.                                     *)
LEMMA SafeStep ==
  ASSUME RunsOnMigrated = FALSE, Safe, [Migration!Next]_state
  PROVE  Safe'
<1> USE DEF Safe, MigrationFields, Kept
<1>1. CASE Migration!Main
  BY <1>1 DEF Migration!Main
<1>2. CASE Migration!executeSceneCode
  <2>1. CASE Migration!Entry \in state.live /\ state.live # Migration!Files
    BY <1>2, <2>1 DEF Migration!executeSceneCode
  <2>2. CASE ~(Migration!Entry \in state.live /\ state.live # Migration!Files)
    <3>1. Migration!Captured(state.live) = Migration!Files
      BY <1>2 DEF Migration!executeSceneCode, Migration!Captured, Migration!Files
    <3> QED
      BY <1>2, <2>2, <3>1, ZenonT(60) DEF Migration!executeSceneCode, Migration!filterInspectorCompatibleComponents
  <2> QED BY <2>1, <2>2
<1>3. CASE Migration!AssetsCopied
  BY <1>3 DEF Migration!AssetsCopied
<1>4. CASE Migration!UpdateComponents
  BY <1>4 DEF Migration!UpdateComponents, Migration!StepAfter
<1>5. CASE Migration!generateEntityNames
  BY <1>5 DEF Migration!generateEntityNames, Migration!StepAfter
<1>6. CASE Migration!WriteComposite
  BY <1>6 DEF Migration!WriteComposite, Migration!StepAfter
<1>7. CASE Migration!WriteCrdt
  BY <1>7 DEF Migration!WriteCrdt, Migration!StepAfter
<1>8. CASE Migration!WriteEntityNames
  BY <1>8 DEF Migration!WriteEntityNames, Migration!StepAfter
<1>9. CASE Migration!Commented
  BY <1>9 DEF Migration!Commented, Migration!StepAfter
<1>10. CASE Migration!Fail
  BY <1>10 DEF Migration!Fail
<1>11. ASSUME NEW asset \in Assets, Migration!CopyAsset(asset)
       PROVE  Safe'
  BY <1>11 DEF Migration!CopyAsset, Migration!Copied
<1>12. ASSUME NEW file \in Migration!Files, Migration!commentSourceFile(file)
       PROVE  Safe'
  BY <1>12 DEF Migration!commentSourceFile
<1>13. CASE UNCHANGED state
  BY <1>13
<1> QED
  BY <1>1, <1>2, <1>3, <1>4, <1>5, <1>6, <1>7, <1>8, <1>9, <1>10, <1>11, <1>12, <1>13
  DEF Migration!Next

(* The command starts with the code whole.                                 *)
LEMMA SafeAtFirst == Migration!Init => Safe
BY DEF Migration!Init, Safe, MigrationFields, Kept

-----------------------------------------------------------------------------
(* No two assets have one name, no model has that of the texture beside it *)
(* and no asset is where the command puts assets: the command does not     *)
(* look whether a file is there when it copies another to its place.       *)
AssetsApart ==
  /\ \A a, b \in Assets : a.name = b.name => a = b
  /\ \A a \in Assets : a.model \in BOOLEAN /\ (a.model => a.name # "skin.png")
  /\ \A a, b \in Assets : a.dir # Migration!getDestinationPath(b).dir

Place(a) == Migration!getDestinationPath(a)
Skin(a)  == Migration!Path(Place(a).dir, "skin.png")

(* The disk has all it had at first, and each copy in its place.           *)
Tidy(disk) ==
  /\ Migration!OnDisk \subseteq DOMAIN disk
  /\ \A p \in Migration!OnDisk : disk[p] = p
  /\ \A a \in Assets : Place(a) \in DOMAIN disk => disk[Place(a)] = Migration!Original(a)
  /\ \A a \in Assets : a.model /\ Skin(a) \in DOMAIN disk => disk[Skin(a)] = Migration!Dependency(a)
  /\ \A p \in DOMAIN disk :
       p \in Migration!OnDisk \/ \E a \in Assets : p = Place(a) \/ (a.model /\ p = Skin(a))

Shows(path, a, disk) ==
  /\ path \in DOMAIN disk /\ disk[path] = Migration!Original(a)
  /\ a.model => LET beside == Migration!Path(path.dir, "skin.png") IN
       beside \in DOMAIN disk /\ disk[beside] = Migration!Dependency(a)

Grows(disk, more) == DOMAIN disk \subseteq DOMAIN more /\ \A p \in DOMAIN disk : more[p] = disk[p]

(* Where a path of the code is mapped, what it showed is found.            *)
Maps(mapping, disk) ==
  \A a \in Assets \ Missing :
    Migration!Original(a) \in DOMAIN mapping => Shows(mapping[Migration!Original(a)], a, disk)

(* Why assets keep their content: entities are mapped when all is copied,  *)
(* and a copy never replaces another file.                                 *)
Content ==
  /\ DOMAIN state = MigrationFields
  /\ state.uses \in [Migration!Files -> Assets]
  /\ state.todo \subseteq Assets
  /\ Tidy(state.disk) /\ Maps(state.mapping, state.disk)
  /\ \A f \in DOMAIN state.engine : f \in Migration!Files /\
       (state.uses[f] \notin Missing => Shows(state.engine[f], state.uses[f], state.disk))
  /\ state.step \in {"copy", "update"} =>
       \A f \in DOMAIN state.engine : state.engine[f] = Migration!Original(state.uses[f])
  /\ \A f \in DOMAIN state.composite : f \in Migration!Files /\
       (state.uses[f] \notin Missing => Shows(state.composite[f], state.uses[f], state.disk))

LEMMA PathsApart ==
  ASSUME AssetsApart, NEW a \in Assets, NEW b \in Assets
  PROVE  /\ Migration!Original(a) = Migration!Original(b) => a = b
         /\ a.model => Migration!Original(a) # Migration!Dependency(b)
         /\ Place(a) = Place(b) => a = b
         /\ a.model /\ b.model /\ Skin(a) = Skin(b) => a = b
         /\ b.model => Place(a) # Skin(b)
         /\ Migration!Original(b) # Place(a) /\ Migration!Dependency(b) # Place(a)
         /\ Migration!Original(b) # Skin(a) /\ Migration!Dependency(b) # Skin(a)
<1> USE DEF AssetsApart, Migration!Original, Migration!Dependency, Migration!Path
<1>1. \A d, e, m, n : Migration!Path(d, m) = Migration!Path(e, n) => d = e /\ m = n
  <2> TAKE d, e, m, n
  <2>1. Migration!Path(d, m).dir = d /\ Migration!Path(d, m).name = m
    OBVIOUS
  <2>2. Migration!Path(e, n).dir = e /\ Migration!Path(e, n).name = n
    OBVIOUS
  <2> QED BY <2>1, <2>2
<1> DEFINE folder(n) == <<"Models", n>>
           images == <<"Images">>
<1>2. \A c \in Assets : /\ c.model => Place(c).dir = folder(c.name)
                        /\ ~ c.model => Place(c).dir = images
  BY DEF Place, Migration!getDestinationPath
<1>3. \A c \in Assets : Place(c) = Migration!Path(Place(c).dir, c.name)
  BY DEF Place, Migration!getDestinationPath
<1>4. \A m, n : folder(m) = folder(n) => m = n
  OBVIOUS
<1>5. \A m : folder(m) # images
  OBVIOUS
<1> HIDE DEF folder, images
<1>6. a.dir # Place(b).dir /\ b.dir # Place(a).dir
  BY DEF Place
<1> USE DEF Skin
<1> HIDE DEF Migration!Path
<1>7. Migration!Original(a) = Migration!Original(b) => a = b
  BY <1>1
<1>8. a.model => Migration!Original(a) # Migration!Dependency(b)
  BY <1>1
<1>9. Place(a) = Place(b) => a = b
  BY <1>1, <1>3
<1>10. a.model /\ b.model /\ Skin(a) = Skin(b) => a = b
  BY <1>1, <1>2, <1>4
<1>11. b.model => Place(a) # Skin(b)
  BY <1>1, <1>2, <1>3, <1>4, <1>5
<1>12. /\ Migration!Original(b) # Place(a) /\ Migration!Dependency(b) # Place(a)
       /\ Migration!Original(b) # Skin(a) /\ Migration!Dependency(b) # Skin(a)
  BY <1>1, <1>3, <1>6
<1> QED BY <1>7, <1>8, <1>9, <1>10, <1>11, <1>12

(* What was on the disk at first is not where a copy is put.               *)
LEMMA PlacesAreFree ==
  ASSUME AssetsApart, NEW a \in Assets
  PROVE  Place(a) \notin Migration!OnDisk /\ Skin(a) \notin Migration!OnDisk
BY PathsApart DEF Migration!OnDisk

LEMMA ShownBefore ==
  ASSUME NEW disk, NEW more, Grows(disk, more), NEW path, NEW a, Shows(path, a, disk)
  PROVE  Shows(path, a, more)
BY DEF Grows, Shows

LEMMA OriginalShows ==
  ASSUME NEW disk, Tidy(disk), NEW a \in Assets \ Missing
  PROVE  Shows(Migration!Original(a), a, disk)
<1>1. /\ Migration!Original(a) \in Migration!OnDisk
      /\ a.model => Migration!Dependency(a) \in Migration!OnDisk
  BY DEF Migration!OnDisk
<1>2. Migration!Path(Migration!Original(a).dir, "skin.png") = Migration!Dependency(a)
  BY DEF Migration!Path, Migration!Original, Migration!Dependency
<1> QED BY <1>1, <1>2 DEF Shows, Tidy

(* The copy of an asset, and that of the texture beside a model.           *)
LEMMA CopiedToItsPlace ==
  ASSUME AssetsApart, NEW disk, Tidy(disk), NEW a \in Assets,
         Migration!Original(a) \in DOMAIN disk,
         NEW more, more = Migration!With(disk, Place(a), disk[Migration!Original(a)])
  PROVE  /\ Tidy(more) /\ Grows(disk, more)
         /\ Place(a) \in DOMAIN more /\ more[Place(a)] = Migration!Original(a)
<1>1. Migration!Original(a) \in Migration!OnDisk
  BY PathsApart DEF Tidy
<1>2. disk[Migration!Original(a)] = Migration!Original(a)
  BY <1>1 DEF Tidy
<1>3. /\ DOMAIN more = DOMAIN disk \cup {Place(a)}
      /\ more[Place(a)] = Migration!Original(a)
      /\ \A p \in DOMAIN disk : p # Place(a) => more[p] = disk[p]
  BY <1>2 DEF Migration!With
<1>4. Grows(disk, more)
  BY <1>3 DEF Grows, Tidy
<1>5. Migration!OnDisk \subseteq DOMAIN more /\ \A p \in Migration!OnDisk : more[p] = p
  BY <1>3, <1>4 DEF Tidy, Grows
<1>6. \A b \in Assets : Place(b) \in DOMAIN more => more[Place(b)] = Migration!Original(b)
  <2> TAKE b \in Assets
  <2>1. Place(b) = Place(a) => b = a
    BY PathsApart
  <2> QED BY <1>3, <2>1 DEF Tidy
<1>7. \A b \in Assets : b.model /\ Skin(b) \in DOMAIN more => more[Skin(b)] = Migration!Dependency(b)
  <2> TAKE b \in Assets
  <2>1. b.model => Skin(b) # Place(a)
    BY PathsApart
  <2> QED BY <1>3, <2>1 DEF Tidy
<1>8. \A p \in DOMAIN more :
        p \in Migration!OnDisk \/ \E b \in Assets : p = Place(b) \/ (b.model /\ p = Skin(b))
  BY <1>3 DEF Tidy
<1>9. Tidy(more)
  BY <1>5, <1>6, <1>7, <1>8 DEF Tidy
<1> QED BY <1>3, <1>4, <1>9

LEMMA CopiedBesideIt ==
  ASSUME AssetsApart, NEW disk, Tidy(disk), NEW a \in Assets, a.model,
         NEW more, more = Migration!With(disk, Skin(a), disk[Migration!Dependency(a)])
  PROVE  /\ Tidy(more) /\ Grows(disk, more)
         /\ Skin(a) \in DOMAIN more /\ more[Skin(a)] = Migration!Dependency(a)
<1>1. Migration!Dependency(a) \in Migration!OnDisk
  BY DEF Migration!OnDisk
<1>2. disk[Migration!Dependency(a)] = Migration!Dependency(a)
  BY <1>1 DEF Tidy
<1>3. /\ DOMAIN more = DOMAIN disk \cup {Skin(a)}
      /\ more[Skin(a)] = Migration!Dependency(a)
      /\ \A p \in DOMAIN disk : p # Skin(a) => more[p] = disk[p]
  BY <1>2 DEF Migration!With
<1>4. Grows(disk, more)
  BY <1>3 DEF Grows, Tidy
<1>5. Migration!OnDisk \subseteq DOMAIN more /\ \A p \in Migration!OnDisk : more[p] = p
  BY <1>3, <1>4 DEF Tidy, Grows
<1>6. \A b \in Assets : Place(b) \in DOMAIN more => more[Place(b)] = Migration!Original(b)
  <2> TAKE b \in Assets
  <2>1. Place(b) # Skin(a)
    BY PathsApart
  <2> QED BY <1>3, <2>1 DEF Tidy
<1>7. \A b \in Assets : b.model /\ Skin(b) \in DOMAIN more => more[Skin(b)] = Migration!Dependency(b)
  <2> TAKE b \in Assets
  <2>1. b.model /\ Skin(b) = Skin(a) => b = a
    BY PathsApart
  <2> QED BY <1>3, <2>1 DEF Tidy
<1>8. \A p \in DOMAIN more :
        p \in Migration!OnDisk \/ \E b \in Assets : p = Place(b) \/ (b.model /\ p = Skin(b))
  BY <1>3 DEF Tidy
<1>9. Tidy(more)
  BY <1>5, <1>6, <1>7, <1>8 DEF Tidy
<1> QED BY <1>3, <1>4, <1>9

(* A path of the code is mapped to where its asset was copied.             *)
LEMMA MappedToPlace ==
  ASSUME AssetsApart, NEW disk, NEW more, NEW last, NEW mapping, NEW mapped,
         Maps(mapping, disk), Grows(disk, more), Grows(more, last), NEW a \in Assets,
         Place(a) \in DOMAIN more, more[Place(a)] = Migration!Original(a),
         a.model => Skin(a) \in DOMAIN last /\ last[Skin(a)] = Migration!Dependency(a),
         mapped = Migration!With(mapping, Migration!Original(a), Place(a))
  PROVE  Maps(mapped, last)
<1> SUFFICES ASSUME NEW b \in Assets \ Missing, Migration!Original(b) \in DOMAIN mapped
             PROVE  Shows(mapped[Migration!Original(b)], b, last)
  BY DEF Maps
<1>1. Shows(Place(a), a, last)
  BY DEF Shows, Skin, Grows
<1>2. CASE b = a
  <2>1. mapped[Migration!Original(a)] = Place(a)
    BY DEF Migration!With
  <2> QED BY <1>1, <1>2, <2>1
<1>3. CASE b # a
  <2>1. Migration!Original(b) # Migration!Original(a)
    BY <1>3, PathsApart
  <2>2. /\ Migration!Original(b) \in DOMAIN mapping
        /\ mapped[Migration!Original(b)] = mapping[Migration!Original(b)]
    BY <2>1 DEF Migration!With
  <2>3. Shows(mapping[Migration!Original(b)], b, disk)
    BY <2>2 DEF Maps
  <2> QED BY <2>2, <2>3, ShownBefore
<1> QED BY <1>2, <1>3

LEMMA MappedBesideIt ==
  ASSUME AssetsApart, NEW disk, NEW mapping, NEW mapped, Maps(mapping, disk),
         NEW a \in Assets, Skin(a) \in DOMAIN disk, disk[Skin(a)] = Migration!Dependency(a),
         mapped = Migration!With(mapping, Migration!Dependency(a), Skin(a))
  PROVE  Maps(mapped, disk)
<1> SUFFICES ASSUME NEW b \in Assets \ Missing, Migration!Original(b) \in DOMAIN mapped
             PROVE  Shows(mapped[Migration!Original(b)], b, disk)
  BY DEF Maps
<1>1. CASE Migration!Original(b) = Migration!Dependency(a)
  <2>1. b.model = FALSE
    BY <1>1, PathsApart DEF AssetsApart
  <2>2. mapped[Migration!Original(b)] = Skin(a)
    BY <1>1 DEF Migration!With
  <2> QED BY <1>1, <2>1, <2>2 DEF Shows
<1>2. CASE Migration!Original(b) # Migration!Dependency(a)
  <2>1. /\ Migration!Original(b) \in DOMAIN mapping
        /\ mapped[Migration!Original(b)] = mapping[Migration!Original(b)]
    BY <1>2 DEF Migration!With
  <2> QED BY <2>1 DEF Maps
<1> QED BY <1>1, <1>2

LEMMA ContentOfCopy ==
  ASSUME AssetsApart, Content, NEW asset \in Assets, Migration!CopyAsset(asset)
  PROVE  Content'
<1> DEFINE original   == Migration!Original(asset)
           dependency == Migration!Dependency(asset)
           dst        == Migration!getDestinationPath(asset)
           beside     == Migration!Path(dst.dir, dependency.name)
           copied     == Migration!Copied(state, original, dst)
           both       == Migration!Copied(copied, dependency, beside)
           next       == IF original \notin DOMAIN state.disk THEN state
                         ELSE IF asset.model THEN both ELSE copied
<1>1. /\ DOMAIN state = MigrationFields /\ state.step = "copy"
      /\ state' = [next EXCEPT !.todo = @ \ {asset}]
  BY DEF Migration!CopyAsset, Content
<1>2. dst = Place(asset) /\ beside = Skin(asset)
  BY DEF Place, Skin, Migration!Dependency, Migration!Path
<1> HIDE DEF original, dependency, dst, beside
<1>3. /\ DOMAIN copied = MigrationFields
      /\ copied.disk = Migration!With(state.disk, dst, state.disk[original])
      /\ copied.mapping = Migration!With(state.mapping, original, dst)
      /\ copied.uses = state.uses /\ copied.step = state.step /\ copied.todo = state.todo
      /\ copied.engine = state.engine /\ copied.composite = state.composite
  BY <1>1 DEF Migration!Copied, MigrationFields
<1> HIDE DEF copied
<1>4. /\ DOMAIN both = MigrationFields
      /\ both.disk = Migration!With(copied.disk, beside, copied.disk[dependency])
      /\ both.mapping = Migration!With(copied.mapping, dependency, beside)
      /\ both.uses = copied.uses /\ both.step = copied.step /\ both.todo = copied.todo
      /\ both.engine = copied.engine /\ both.composite = copied.composite
  BY <1>3 DEF Migration!Copied, MigrationFields
<1> HIDE DEF both
<1>5. Tidy(state.disk) /\ Maps(state.mapping, state.disk)
  BY DEF Content
<1>6. Tidy(next.disk) /\ Maps(next.mapping, next.disk) /\ Grows(state.disk, next.disk)
  <2>1. CASE original \notin DOMAIN state.disk
    BY <1>5, <2>1 DEF Grows
  <2>2. CASE original \in DOMAIN state.disk
    <3>1. /\ Tidy(copied.disk) /\ Grows(state.disk, copied.disk)
          /\ Place(asset) \in DOMAIN copied.disk
          /\ copied.disk[Place(asset)] = original
      BY <1>2, <1>3, <1>5, <2>2, CopiedToItsPlace DEF original
    <3>2. CASE asset.model
      <4>1. /\ Tidy(both.disk) /\ Grows(copied.disk, both.disk)
            /\ Skin(asset) \in DOMAIN both.disk /\ both.disk[Skin(asset)] = dependency
        BY <1>2, <1>4, <3>1, <3>2, CopiedBesideIt DEF dependency
      <4>2. Maps(copied.mapping, both.disk)
        BY <1>2, <1>3, <1>5, <3>1, <4>1, MappedToPlace DEF original, dependency
      <4>3. Maps(both.mapping, both.disk)
        BY <1>2, <1>4, <4>1, <4>2, MappedBesideIt DEF dependency
      <4>4. Grows(state.disk, both.disk)
        BY <3>1, <4>1 DEF Grows
      <4> QED BY <2>2, <3>2, <4>1, <4>3, <4>4
    <3>3. CASE ~ asset.model
      <4>1. Grows(copied.disk, copied.disk)
        BY DEF Grows
      <4>2. Maps(copied.mapping, copied.disk)
        BY <1>2, <1>3, <1>5, <3>1, <3>3, <4>1, MappedToPlace DEF original
      <4> QED BY <2>2, <3>1, <3>3, <4>2
    <3> QED BY <3>2, <3>3
  <2> QED BY <2>1, <2>2
<1>7. /\ DOMAIN next = MigrationFields
      /\ next.uses = state.uses /\ next.step = state.step /\ next.todo = state.todo
      /\ next.engine = state.engine /\ next.composite = state.composite
  BY <1>1, <1>3, <1>4
<1> HIDE DEF next
<1>8. /\ DOMAIN state' = MigrationFields
      /\ state'.uses = state.uses /\ state'.step = state.step
      /\ state'.todo = state.todo \ {asset}
      /\ state'.engine = state.engine /\ state'.composite = state.composite
      /\ state'.disk = next.disk /\ state'.mapping = next.mapping
  BY <1>1, <1>7 DEF MigrationFields
<1> DEFINE disk == state.disk
           more == next.disk
<1>9. \A path, a : Shows(path, a, disk) => Shows(path, a, more)
  <2> HIDE DEF disk, more
  <2> QED BY <1>6, ShownBefore DEF disk, more
<1> QED BY <1>6, <1>8, <1>9 DEF Content

LEMMA ContentStep ==
  ASSUME AssetsApart, Content, [Migration!Next]_state
  PROVE  Content'
<1> DEFINE same == /\ DOMAIN state' = MigrationFields /\ state'.uses = state.uses
                   /\ state'.disk = state.disk
           kept == same /\ state'.mapping = state.mapping /\ state'.todo = state.todo
                   /\ state'.engine = state.engine /\ state'.composite = state.composite
<1>0. DOMAIN state = MigrationFields
  BY DEF Content
<1>1. CASE Migration!Main
  <2>1. kept /\ state'.step = "execute"
    BY <1>0, <1>1 DEF Migration!Main, MigrationFields
  <2> QED BY <2>1 DEF Content
<1>2. CASE Migration!executeSceneCode
  <2>1. CASE state' = [state EXCEPT !.step = "idle"]
    <3>1. kept /\ state'.step = "idle"
      BY <1>0, <2>1 DEF MigrationFields
    <3> QED BY <3>1 DEF Content
  <2>2. CASE state' # [state EXCEPT !.step = "idle"]
    <3> DEFINE made == Migration!filterInspectorCompatibleComponents(Migration!Captured(state.live))
    <3>1. state' = [state EXCEPT
              !.step = "copy",
              !.engine = [f \in made |-> Migration!Original(state.uses[f])],
              !.todo = {state.uses[f] : f \in made},
              !.mapping = <<>>, !.names = {}]
      BY <1>2, <2>2, Zenon DEF Migration!executeSceneCode
    <3>2. made \subseteq Migration!Files
      BY <1>2, <2>2 DEF Migration!executeSceneCode, Migration!Captured, Migration!Files,
                        Migration!filterInspectorCompatibleComponents
    <3> HIDE DEF made
    <3>3. /\ same /\ state'.composite = state.composite
          /\ state'.mapping = <<>> /\ state'.step = "copy"
      BY <1>0, <3>1 DEF MigrationFields
    <3>4. /\ state'.engine = [f \in made |-> Migration!Original(state.uses[f])]
          /\ state'.todo = {state.uses[f] : f \in made}
      BY <1>0, <3>1 DEF MigrationFields
    <3>5. Maps(<<>>, state.disk)
      BY DEF Maps
    <3>6. \A f \in made :
             state.uses[f] \notin Missing => Shows(Migration!Original(state.uses[f]), state.uses[f], state.disk)
      <4> TAKE f \in made
      <4> DEFINE a == state.uses[f]
      <4>1. a \in Assets /\ Tidy(state.disk)
        BY <3>2 DEF Content
      <4> HIDE DEF a
      <4>2. a \notin Missing => Shows(Migration!Original(a), a, state.disk)
        BY <4>1, OriginalShows
      <4> QED BY <4>2 DEF a
    <3>7. state'.todo \subseteq Assets
      BY <3>2, <3>4 DEF Content
    <3> QED BY <3>2, <3>3, <3>4, <3>5, <3>6, <3>7 DEF Content
  <2> QED BY <2>1, <2>2
<1>3. CASE Migration!AssetsCopied
  <2>1. kept /\ state'.step = "update" /\ state.step = "copy"
    BY <1>0, <1>3 DEF Migration!AssetsCopied, MigrationFields
  <2> QED BY <2>1 DEF Content
<1>4. CASE Migration!UpdateComponents
  <2>1. /\ same /\ state'.mapping = state.mapping /\ state'.todo = state.todo
        /\ state'.composite = state.composite /\ state'.step = "names"
        /\ state.step = "update"
    BY <1>0, <1>4 DEF Migration!UpdateComponents, Migration!StepAfter, MigrationFields
  <2>2. state'.engine = [f \in DOMAIN state.engine |->
                           Migration!replaceAssetPaths(state.engine[f], state.mapping)]
    BY <1>0, <1>4 DEF Migration!UpdateComponents, MigrationFields
  <2>3. ASSUME NEW f \in DOMAIN state.engine, state.uses[f] \notin Missing
        PROVE  Shows(state'.engine[f], state.uses[f], state.disk)
    <3>1. state.engine[f] = Migration!Original(state.uses[f])
      BY <2>1 DEF Content
    <3>2. state.uses[f] \in Assets \ Missing
      BY <2>3 DEF Content
    <3>3. Shows(state.engine[f], state.uses[f], state.disk)
      BY <2>3 DEF Content
    <3> QED BY <2>2, <3>1, <3>2, <3>3 DEF Migration!replaceAssetPaths, Content, Maps
  <2> QED BY <2>1, <2>2, <2>3 DEF Content
<1>5. CASE Migration!generateEntityNames
  <2>1. kept /\ state'.step = "composite"
    BY <1>0, <1>5 DEF Migration!generateEntityNames, Migration!StepAfter, MigrationFields
  <2> QED BY <2>1 DEF Content
<1>6. CASE Migration!WriteComposite
  <2>1. /\ same /\ state'.mapping = state.mapping /\ state'.todo = state.todo
        /\ state'.engine = state.engine /\ state'.composite = state.engine
        /\ state'.step = "crdt"
    BY <1>0, <1>6 DEF Migration!WriteComposite, Migration!StepAfter, MigrationFields
  <2> QED BY <2>1 DEF Content
<1>7. CASE Migration!WriteCrdt
  <2>1. kept /\ state'.step = "types"
    BY <1>0, <1>7 DEF Migration!WriteCrdt, Migration!StepAfter, MigrationFields
  <2> QED BY <2>1 DEF Content
<1>8. CASE Migration!WriteEntityNames
  <2>1. kept /\ state'.step = "comment"
    BY <1>0, <1>8 DEF Migration!WriteEntityNames, Migration!StepAfter, MigrationFields
  <2> QED BY <2>1 DEF Content
<1>9. CASE Migration!Commented
  <2>1. kept /\ state'.step = "idle"
    BY <1>0, <1>9 DEF Migration!Commented, Migration!StepAfter, MigrationFields
  <2> QED BY <2>1 DEF Content
<1>10. CASE Migration!Fail
  <2>1. kept /\ state'.step = "idle"
    BY <1>0, <1>10 DEF Migration!Fail, MigrationFields
  <2> QED BY <2>1 DEF Content
<1>11. ASSUME NEW asset \in Assets, Migration!CopyAsset(asset)
       PROVE  Content'
  BY <1>11, ContentOfCopy
<1>12. ASSUME NEW file \in Migration!Files, Migration!commentSourceFile(file)
       PROVE  Content'
  <2>1. kept /\ state'.step = state.step
    BY <1>0, <1>12 DEF Migration!commentSourceFile, MigrationFields
  <2> QED BY <2>1 DEF Content
<1>13. CASE UNCHANGED state
  BY <1>13 DEF Content
<1> QED
  BY <1>1, <1>2, <1>3, <1>4, <1>5, <1>6, <1>7, <1>8, <1>9, <1>10, <1>11, <1>12, <1>13
  DEF Migration!Next

LEMMA ContentAtFirst ==
  ASSUME AssetsApart, Migration!Init
  PROVE  Content
<1>1. PICK uses \in [Migration!Files -> Assets] :
        state = [uses |-> uses, step |-> "idle", runs |-> 0, live |-> Migration!Files,
                 disk |-> [p \in Migration!OnDisk |-> p],
                 engine |-> <<>>, todo |-> {}, mapping |-> <<>>, names |-> {},
                 composite |-> <<>>, crdt |-> <<>>, entityNames |-> {}]
  BY DEF Migration!Init
<1>2. /\ DOMAIN state = MigrationFields /\ state.uses = uses /\ state.todo = {}
      /\ state.disk = [p \in Migration!OnDisk |-> p] /\ state.mapping = <<>>
      /\ state.engine = <<>> /\ state.composite = <<>> /\ state.step = "idle"
  BY <1>1 DEF MigrationFields
<1>3. Tidy(state.disk)
  BY <1>2, PlacesAreFree DEF Tidy
<1>4. Maps(<<>>, state.disk)
  BY DEF Maps
<1> QED BY <1>2, <1>3, <1>4 DEF Content

LEMMA ContentIsSafe ==
  ASSUME Content
  PROVE  Migration!AssetsKeepTheirContent
<1> SUFFICES ASSUME NEW f \in DOMAIN state.composite, state.uses[f] \notin Missing
             PROVE  LET asset == state.uses[f] IN
      /\ state.composite[f] \in DOMAIN state.disk
      /\ state.disk[state.composite[f]] = Migration!Original(asset)
      /\ asset.model =>
           state.disk[Migration!Path(state.composite[f].dir, Migration!Dependency(asset).name)]
             = Migration!Dependency(asset)
  BY DEF Migration!AssetsKeepTheirContent
<1>1. Shows(state.composite[f], state.uses[f], state.disk)
  BY DEF Content
<1>2. Migration!Dependency(state.uses[f]).name = "skin.png"
  BY DEF Migration!Dependency, Migration!Path
<1> QED BY <1>1, <1>2 DEF Shows

-----------------------------------------------------------------------------
ExportFields == {"disk", "dclignore", "phase", "project", "withRealm", "todo", "hashes",
           "entities", "output", "entityFiles", "realm", "calm", "runs", "edits"}

(* A file of an entity can be loaded: its hash was written, and is of what *)
(* was written if nothing disturbed the command.                           *)
Loadable(hash) ==
  /\ hash \in DOMAIN state.output
  /\ state.calm => state.output[hash] = hash

(* Why it holds: a file is done when its hash is in the output directory,  *)
(* nothing there is ever replaced, and an entity is written when all are.  *)
Served ==
  /\ DOMAIN state = ExportFields /\ state.calm \in BOOLEAN
  /\ state.realm \subseteq state.entityFiles
  /\ state.entities \in Seq(state.entityFiles)
  /\ \A e \in state.entityFiles : \A c \in e.content : c.omitted \/ Loadable(c.hash)
  /\ state.calm => \A h \in DOMAIN state.output : state.output[h] = h
  /\ state.calm /\ state.phase \in {"hash", "copy"} =>
       \A f \in DOMAIN state.hashes :
         f \in DOMAIN state.disk /\ state.disk[f] = state.hashes[f]
  /\ state.phase = "copy" =>
       /\ state.todo \subseteq DOMAIN state.hashes
       /\ \A f \in DOMAIN state.hashes \ state.todo :
            f \in UnderOutput \/ state.hashes[f] \in DOMAIN state.output

(* One step preserves it.                                                  *)
LEMMA ServedStep ==
  ASSUME Served, [Export!Next]_state
  PROVE  Served'
<1> USE DEF Served, ExportFields, Loadable
<1>1. CASE Export!Main
  BY <1>1 DEF Export!Main, Export!Prepared, Export!NoFiles
<1>2. CASE Export!Hashed
  BY <1>2 DEF Export!Hashed
<1>3. CASE Export!WriteEntity
  <2> DEFINE entity == Export!Entity(state)
             next   == [state EXCEPT !.entityFiles = @ \cup {entity},
                                      !.entities = Append(@, entity)]
  <2>1. state' = Export!After(next) /\ state.phase = "copy" /\ state.todo = {}
    BY <1>3 DEF Export!WriteEntity
  <2>2. /\ DOMAIN state' = ExportFields /\ state'.calm = state.calm
        /\ state'.disk = state.disk /\ state'.output = state.output
        /\ state'.realm = state.realm
        /\ state'.entityFiles = state.entityFiles \cup {entity}
        /\ state'.entities = Append(state.entities, entity)
        /\ state'.phase # "copy"
        /\ state'.phase = "hash" => DOMAIN state'.hashes = {}
    BY <2>1 DEF Export!After, Export!Prepared, Export!NoFiles
  <2>3. \A c \in entity.content : c.omitted \/ Loadable(c.hash)
    <3>1. \A c \in entity.content : \E f \in DOMAIN state.hashes :
            c = [file |-> Lower[f], hash |-> state.hashes[f], omitted |-> f \in UnderOutput]
      BY DEF Export!Entity, Export!projectFilesToContentMappings
    <3> SUFFICES ASSUME NEW c \in entity.content
                 PROVE  c.omitted \/ Loadable(c.hash)
      OBVIOUS
    <3>2. PICK f \in DOMAIN state.hashes :
            c = [file |-> Lower[f], hash |-> state.hashes[f], omitted |-> f \in UnderOutput]
      BY <3>1
    <3>3. c.hash = state.hashes[f]
      BY <3>2
    <3>4. f \in UnderOutput => c.omitted
      BY <3>2, Zenon
    <3>5. f \notin UnderOutput => Loadable(c.hash)
      BY <2>1, <3>3
    <3> QED BY <3>4, <3>5
  <2>4. state'.entities \in Seq(state'.entityFiles)
    <3> HIDE DEF entity
    <3>1. state.entities \in Seq(state.entityFiles \cup {entity})
      OBVIOUS
    <3> QED BY <2>2, <3>1
  <2> HIDE DEF entity
  <2> QED BY <2>2, <2>3, <2>4
<1>4. CASE Export!WriteRealm
  BY <1>4 DEF Export!WriteRealm
<1>5. CASE Export!Stop
  BY <1>5 DEF Export!Stop
<1>6. ASSUME NEW f \in Export!Files, Export!Edit(f)
      PROVE  Served'
  BY <1>6, ZenonT(60) DEF Export!Edit
<1>7. ASSUME NEW f \in Export!Files, Export!HashFile(f)
      PROVE  Served'
  <2>1. CASE f \notin DOMAIN state.disk
    BY <1>7, <2>1 DEF Export!HashFile
  <2>2. CASE f \in DOMAIN state.disk /\ \E g \in DOMAIN state.hashes : Lower[g] = Lower[f]
    BY <1>7, <2>2 DEF Export!HashFile
  <2>3. CASE f \in DOMAIN state.disk /\ ~\E g \in DOMAIN state.hashes : Lower[g] = Lower[f]
    <3> DEFINE next == Export!With(state.hashes, f, state.disk[f])
    <3>1. /\ DOMAIN next = {f} \cup DOMAIN state.hashes
          /\ \A x \in {f} \cup DOMAIN state.hashes :
               next[x] = IF x = f THEN state.disk[f] ELSE state.hashes[x]
      BY DEF Export!With
    <3>2. state' = [state EXCEPT !.todo = @ \ {f}, !.hashes = next]
      BY <1>7, <2>3 DEF Export!HashFile
    <3>3. state.phase = "hash"
      BY <1>7 DEF Export!HashFile
    <3> HIDE DEF next
    <3> QED BY <2>3, <3>1, <3>2, <3>3
  <2> QED BY <2>1, <2>2, <2>3
<1>8. ASSUME NEW f \in Export!Files, Export!CopyFile(f)
      PROVE  Served'
  <2>1. CASE ~Export!NeedsCopy(f)
    BY <1>8, <2>1 DEF Export!CopyFile, Export!NeedsCopy
  <2>2. CASE Export!NeedsCopy(f) /\ f \notin DOMAIN state.disk
    BY <1>8, <2>2 DEF Export!CopyFile
  <2>3. CASE /\ Export!NeedsCopy(f) /\ f \in DOMAIN state.disk
             /\ state' = [state EXCEPT !.output = Export!With(@, state.hashes[f], state.disk[f]),
                                         !.todo = @ \ {f}]
    <3> DEFINE next == Export!With(state.output, state.hashes[f], state.disk[f])
    <3>1. /\ DOMAIN next = {state.hashes[f]} \cup DOMAIN state.output
          /\ \A x \in {state.hashes[f]} \cup DOMAIN state.output :
               next[x] = IF x = state.hashes[f] THEN state.disk[f] ELSE state.output[x]
      BY DEF Export!With
    <3>2. state' = [state EXCEPT !.output = next, !.todo = @ \ {f}]
      BY <2>3
    <3>3. state.phase = "copy" /\ f \in state.todo /\ state.hashes[f] \notin DOMAIN state.output
      BY <1>8, <2>3 DEF Export!CopyFile, Export!NeedsCopy
    <3> HIDE DEF next
    <3> QED BY <3>1, <3>2, <3>3
  <2>4. CASE /\ Export!NeedsCopy(f) /\ f \in DOMAIN state.disk
             /\ state' = [state EXCEPT !.output = Export!With(@, state.hashes[f], Export!Torn),
                                         !.phase = "idle", !.calm = FALSE]
    <3> DEFINE next == Export!With(state.output, state.hashes[f], Export!Torn)
    <3>1. DOMAIN next = {state.hashes[f]} \cup DOMAIN state.output
      BY DEF Export!With
    <3>2. state' = [state EXCEPT !.output = next, !.phase = "idle", !.calm = FALSE]
      BY <2>4
    <3> HIDE DEF next
    <3> QED BY <3>1, <3>2
  <2> QED BY <1>8, <2>1, <2>2, <2>3, <2>4 DEF Export!CopyFile
<1>9. CASE UNCHANGED state
  BY <1>9
<1> QED
  BY <1>1, <1>2, <1>3, <1>4, <1>5, <1>6, <1>7, <1>8, <1>9 DEF Export!Next

(* Nothing is exported at first.                                           *)
LEMMA ServedAtFirst == Export!Init => Served
BY DEF Export!Init, Served, ExportFields, Export!NoFiles

-----------------------------------------------------------------------------
DeployFields == {"options", "world", "phase", "needsDelete", "stage", "signed", "settling",
           "outcome", "repeated", "refused"}
Stages == {"none", "refused", "permission", "delete", "upload", "done", "failed"}
Outcomes == {"resolved", "rejected"}
Answers(s) == {s[i] : i \in 1 .. Len(s)}

Undisturbed == state.repeated = FALSE /\ state.refused = FALSE
Done == \E r \in Deploy!Requests : state.stage[r] = "done"
Resolves == state.outcome = "resolved" \/ "resolved" \in Answers(state.settling)

(* Why it holds: while no post is repeated one request at most is at work, *)
(* so nothing is deleted once its scene is in the world, and only then     *)
(* does anything resolve.                                                  *)
Orderly ==
  /\ DOMAIN state = DeployFields
  /\ state.repeated \in BOOLEAN /\ state.refused \in BOOLEAN
  /\ state.stage \in [Deploy!Requests -> Stages]
  /\ state.settling \in Seq(Outcomes)
  /\ Undisturbed =>
       /\ \A q, r \in Deploy!Requests : Deploy!Accepted(q) /\ Deploy!Accepted(r) => q = r
       /\ Done => Deploy!SceneOn(Mine, TRUE) \in state.world
       /\ Resolves => Done

(* An answer is put behind those that wait.                                *)
LEMMA OneMoreAnswer ==
  ASSUME NEW s \in Seq(Outcomes), NEW a \in Outcomes
  PROVE  /\ Append(s, a) \in Seq(Outcomes)
         /\ Answers(Append(s, a)) = Answers(s) \cup {a}
<1>1. /\ Append(s, a) \in Seq(Outcomes) /\ Len(Append(s, a)) = Len(s) + 1
      /\ \A i \in 1 .. Len(s) + 1 : Append(s, a)[i] = IF i <= Len(s) THEN s[i] ELSE a
      /\ Len(s) \in Nat
  OBVIOUS
<1> DEFINE t == Append(s, a)
<1> HIDE DEF t
<1>2. Answers(t) = Answers(s) \cup {a}
  BY <1>1 DEF Answers, t
<1> QED BY <1>1, <1>2 DEF t

(* The first answer is taken.                                              *)
LEMMA FirstAnswerGone ==
  ASSUME NEW s \in Seq(Outcomes), s # <<>>
  PROVE  /\ Tail(s) \in Seq(Outcomes) /\ Answers(Tail(s)) \subseteq Answers(s)
         /\ Head(s) \in Answers(s)
<1>1. /\ Tail(s) \in Seq(Outcomes) /\ Len(Tail(s)) = Len(s) - 1
      /\ \A i \in 1 .. Len(s) - 1 : Tail(s)[i] = s[i + 1]
      /\ Len(s) \in Nat /\ Len(s) > 0 /\ Head(s) = s[1]
  OBVIOUS
<1> QED BY <1>1 DEF Answers

(* A request goes on or ends, and perhaps the command is answered.         *)
LEMMA RequestMoves ==
  ASSUME Orderly, NEW r \in Deploy!Requests, NEW stage \in Stages,
         DOMAIN state' = DeployFields,
         state'.stage = [state.stage EXCEPT ![r] = stage],
         state'.repeated = state.repeated, state'.refused = state.refused,
         Deploy!Accepted(r), state.stage[r] # "done",
         state'.settling \in Seq(Outcomes),
         "resolved" \in Answers(state'.settling) =>
           "resolved" \in Answers(state.settling) \/ stage = "done",
         state'.outcome = "resolved" => state.outcome = "resolved" \/ stage = "done",
         stage = "done" => Deploy!SceneOn(Mine, TRUE) \in state'.world
  PROVE  Orderly'
<1>1. state'.stage \in [Deploy!Requests -> Stages]
  BY DEF Orderly
<1>3. Undisturbed' => Undisturbed
  BY DEF Undisturbed
<1>4. ASSUME Undisturbed
      PROVE  /\ \A p, q \in Deploy!Requests : Deploy!Accepted(p)' /\ Deploy!Accepted(q)' => p = q
             /\ ~Done /\ ~Resolves /\ (Done' <=> stage = "done")
  BY <1>4 DEF Orderly, Deploy!Accepted, Done
<1>5. ASSUME Undisturbed
      PROVE  Resolves' => stage = "done"
  BY <1>4, <1>5 DEF Resolves
<1> QED BY <1>1, <1>3, <1>4, <1>5 DEF Orderly

(* One step preserves it.                                                  *)
LEMMA OrderlyStep ==
  ASSUME Orderly, [Deploy!Next]_state
  PROVE  Orderly'
<1> USE DEF Orderly, DeployFields, Undisturbed, Done, Resolves, Deploy!Accepted
<1>1. CASE Deploy!WorldIsLeftAlone
  BY <1>1 DEF Deploy!WorldIsLeftAlone
<1>2. CASE Deploy!WorldIsCleared
  BY <1>2 DEF Deploy!WorldIsCleared
<1>3. CASE Deploy!Build
  BY <1>3 DEF Deploy!Build
<1>4. CASE Deploy!CatalystPointers
  <2>1. /\ state' = [state EXCEPT !.settling = Append(state.settling, "resolved")]
        /\ Done
    BY <1>4 DEF Deploy!CatalystPointers
  <2>2. /\ state'.settling \in Seq(Outcomes) /\ state'.settling = Append(state.settling, "resolved")
    BY <2>1, OneMoreAnswer DEF Outcomes
  <2> QED BY <2>1, <2>2
<1>5. CASE Deploy!Settle
  <2> DEFINE outcome == IF state.outcome = "none" THEN Head(state.settling) ELSE state.outcome
  <2>1. state' = [state EXCEPT !.settling = Tail(state.settling), !.outcome = outcome]
    BY <1>5 DEF Deploy!Settle
  <2>2. /\ Tail(state.settling) \in Seq(Outcomes)
        /\ Answers(Tail(state.settling)) \subseteq Answers(state.settling)
        /\ outcome = "resolved" => Resolves
    BY <1>5, FirstAnswerGone DEF Deploy!Settle
  <2>3. Resolves' => Resolves
    <3>1. state'.settling = Tail(state.settling) /\ state'.outcome = outcome
      BY <2>1
    <3> QED BY <2>2, <3>1
  <2> HIDE DEF outcome, Resolves
  <2> QED BY <2>1, <2>2, <2>3
<1>6. ASSUME NEW r \in Deploy!Requests, NEW signed, Deploy!Posted(r, signed)
      PROVE  Orderly'
  <2> DEFINE some == \E q \in Deploy!Requests : Deploy!Accepted(q)
  <2>1. /\ DOMAIN state' = DeployFields /\ state'.refused = state.refused
        /\ state'.stage = [state.stage EXCEPT ![r] = "permission"]
        /\ state'.settling = state.settling /\ state'.outcome = state.outcome
        /\ state'.world = state.world
    BY <1>6 DEF Deploy!Posted
  <2>2. state'.repeated = (state.repeated \/ some)
    BY <1>6 DEF Deploy!Posted
  <2>3. state'.repeated \in BOOLEAN /\ (state'.repeated = FALSE => state.repeated = FALSE /\ ~some)
    BY <2>2
  <2>4. state'.stage \in [Deploy!Requests -> Stages]
    BY <2>1 DEF Stages
  <2>5. Undisturbed' => Undisturbed /\ ~some
    BY <2>1, <2>3
  <2>6. ~some => (\A p, q \in Deploy!Requests : Deploy!Accepted(p)' /\ Deploy!Accepted(q)' => p = q) /\ ~Done'
    BY <2>1, <2>4
  <2>7. Resolves' => Resolves
    BY <2>1
  <2> QED BY <2>1, <2>3, <2>4, <2>5, <2>6, <2>7
<1>7. ASSUME NEW r \in Deploy!Requests, Deploy!PostInvalid(r)
      PROVE  Orderly'
  <2>1. /\ state'.settling = Append(state.settling, "resolved") /\ state'.refused = TRUE
        /\ DOMAIN state' = DeployFields /\ state'.repeated = state.repeated
        /\ state'.stage = [state.stage EXCEPT ![r] = "refused"]
    BY <1>7 DEF Deploy!PostInvalid
  <2>2. state'.settling \in Seq(Outcomes)
    BY <2>1, OneMoreAnswer DEF Outcomes
  <2>3. state'.stage \in [Deploy!Requests -> Stages]
    BY <2>1 DEF Stages
  <2>4. ~Undisturbed'
    BY <2>1
  <2> QED BY <2>1, <2>2, <2>3, <2>4
<1>8. ASSUME NEW r \in Deploy!Requests, Deploy!Accepted(r), state.stage[r] # "done", state' = Deploy!Failed(r)
      PROVE  Orderly'
  <2>1. /\ DOMAIN state' = DeployFields /\ state'.repeated = state.repeated
        /\ state'.refused = state.refused
        /\ state'.stage = [state.stage EXCEPT ![r] = "failed"]
        /\ \/ state'.settling = state.settling
           \/ state'.settling = Append(state.settling, "rejected")
        /\ state'.outcome = "resolved" => state.outcome = "resolved"
    BY <1>8 DEF Deploy!Failed
  <2>2. /\ state'.settling \in Seq(Outcomes)
        /\ "resolved" \in Answers(state'.settling) => "resolved" \in Answers(state.settling)
    <3>1. Answers(Append(state.settling, "rejected")) = Answers(state.settling) \cup {"rejected"}
          /\ Append(state.settling, "rejected") \in Seq(Outcomes)
      BY OneMoreAnswer DEF Outcomes
    <3> QED BY <2>1, <3>1
  <2>3. "failed" \in Stages
    BY DEF Stages
  <2> HIDE DEF Orderly, Deploy!Accepted, DeployFields
  <2> QED BY <1>8, <2>1, <2>2, <2>3, RequestMoves
<1>9. ASSUME NEW r \in Deploy!Requests, NEW d, Deploy!Accepted(r), state.stage[r] # "done",
             DOMAIN d = DeployFields, d.stage = state.stage, d.settling = state.settling,
             d.outcome = state.outcome, d.repeated = state.repeated,
             d.refused = state.refused,
             state.stage[r] = "upload" => Deploy!SceneOn(Mine, TRUE) \in d.world,
             state' = Deploy!Passed(r, d)
      PROVE  Orderly'
  <2> DEFINE next == Deploy!StageAfter(state.stage[r])
             after == [d EXCEPT !.stage[r] = next]
  <2>2. next \in Stages /\ (next = "done" <=> state.stage[r] = "upload")
    BY <1>9 DEF Deploy!StageAfter, Stages
  <2>3. \/ state' = after
        \/ next = "done" /\ state' = [after EXCEPT !.outcome = "resolved"]
        \/ next = "done" /\ state' = [after EXCEPT !.settling = Append(@, "resolved")]
    BY <1>9 DEF Deploy!Passed
  <2> HIDE DEF next
  <2>4. /\ DOMAIN after = DeployFields /\ after.stage = [state.stage EXCEPT ![r] = next]
        /\ after.world = d.world /\ after.settling = state.settling
        /\ after.outcome = state.outcome
        /\ after.repeated = state.repeated /\ after.refused = state.refused
        /\ next = "done" => Deploy!SceneOn(Mine, TRUE) \in after.world
    BY <1>9, <2>2
  <2>8. state.settling \in Seq(Outcomes)
    OBVIOUS
  <2> HIDE DEF after, Orderly, Deploy!Accepted, Done, Resolves, Undisturbed, DeployFields
  <2>5. CASE state' = after
    <3>1. /\ DOMAIN state' = DeployFields
          /\ state'.stage = [state.stage EXCEPT ![r] = next]
          /\ next = "done" => Deploy!SceneOn(Mine, TRUE) \in state'.world
          /\ state'.settling = state.settling /\ state'.outcome = state.outcome
          /\ state'.repeated = state.repeated /\ state'.refused = state.refused
      BY <2>4, <2>5
    <3> QED BY <1>9, <2>2, <2>8, <3>1, RequestMoves
  <2>6. CASE next = "done" /\ state' = [after EXCEPT !.outcome = "resolved"]
    <3>1. /\ DOMAIN state' = DeployFields
          /\ state'.stage = [state.stage EXCEPT ![r] = next]
          /\ Deploy!SceneOn(Mine, TRUE) \in state'.world
          /\ state'.settling = state.settling
          /\ state'.repeated = state.repeated /\ state'.refused = state.refused
      BY <2>4, <2>6 DEF DeployFields
    <3> QED BY <1>9, <2>2, <2>6, <2>8, <3>1, RequestMoves
  <2>7. CASE next = "done" /\ state' = [after EXCEPT !.settling = Append(@, "resolved")]
    <3>1. /\ DOMAIN state' = DeployFields
          /\ state'.stage = [state.stage EXCEPT ![r] = next]
          /\ Deploy!SceneOn(Mine, TRUE) \in state'.world
          /\ state'.settling = Append(state.settling, "resolved")
          /\ state'.outcome = state.outcome
          /\ state'.repeated = state.repeated /\ state'.refused = state.refused
      BY <2>4, <2>7 DEF DeployFields
    <3>2. state'.settling \in Seq(Outcomes)
      BY <2>8, <3>1, OneMoreAnswer DEF Outcomes
    <3> QED BY <1>9, <2>2, <2>7, <3>1, <3>2, RequestMoves
  <2> QED BY <2>3, <2>5, <2>6, <2>7
<1>10. ASSUME NEW x \in Parcels, Deploy!OtherDeploys(x)
       PROVE  Orderly'
  BY <1>10 DEF Deploy!OtherDeploys
<1>11. CASE UNCHANGED state
  BY <1>11
<1>12. ASSUME NEW r \in Deploy!Requests, Deploy!checkPermission(r)
       PROVE  Orderly'
  <2>1. Deploy!Accepted(r) /\ state.stage[r] = "permission"
    BY <1>12 DEF Deploy!checkPermission
  <2>2. state' = Deploy!Passed(r, state) \/ state' = Deploy!Failed(r)
    BY <1>12 DEF Deploy!checkPermission
  <2>3. DOMAIN state = DeployFields
    OBVIOUS
  <2> HIDE DEF Orderly, Deploy!Accepted
  <2> QED BY <1>8, <1>9, <2>1, <2>2, <2>3
<1>13. ASSUME NEW r \in Deploy!Requests, Deploy!deleteWorldScenes(r)
       PROVE  Orderly'
  <2>1. Deploy!Accepted(r) /\ state.stage[r] = "delete"
    BY <1>13 DEF Deploy!deleteWorldScenes
  <2> DEFINE d == [state EXCEPT !.world = {}]
  <2>2. \/ state' = Deploy!Passed(r, state)
        \/ state' = Deploy!Passed(r, d)
        \/ state' = Deploy!Failed(r)
    BY <1>13 DEF Deploy!deleteWorldScenes
  <2>3. /\ DOMAIN state = DeployFields
        /\ DOMAIN d = DeployFields /\ d.stage = state.stage /\ d.settling = state.settling
        /\ d.outcome = state.outcome /\ d.repeated = state.repeated
        /\ d.refused = state.refused
    OBVIOUS
  <2> HIDE DEF Orderly, Deploy!Accepted, d
  <2> QED BY <1>8, <1>9, <2>1, <2>2, <2>3
<1>14. ASSUME NEW r \in Deploy!Requests, Deploy!Upload(r)
       PROVE  Orderly'
  <2> DEFINE world == {s \in state.world : s.parcels \cap Mine = {}} \cup {Deploy!SceneOn(Mine, TRUE)}
             d == [state EXCEPT !.world = world]
  <2>1. Deploy!Accepted(r) /\ state.stage[r] = "upload" /\ Deploy!SceneOn(Mine, TRUE) \in world
    BY <1>14 DEF Deploy!Upload
  <2>2. state' = Deploy!Passed(r, d) \/ state' = Deploy!Failed(r)
    BY <1>14 DEF Deploy!Upload
  <2>3. /\ DOMAIN state = DeployFields /\ DOMAIN d = DeployFields /\ d.world = world
        /\ d.stage = state.stage /\ d.settling = state.settling
        /\ d.outcome = state.outcome /\ d.repeated = state.repeated
        /\ d.refused = state.refused
    OBVIOUS
  <2> HIDE DEF Orderly, Deploy!Accepted, d, world
  <2> QED BY <1>8, <1>9, <2>1, <2>2, <2>3
<1> HIDE DEF Orderly, DeployFields, Undisturbed, Done, Resolves, Deploy!Accepted
<1> QED
  BY <1>1, <1>2, <1>3, <1>4, <1>5, <1>6, <1>7, <1>10, <1>11, <1>12, <1>13, <1>14
  DEF Deploy!Next, Deploy!Work, Deploy!Sign, Deploy!PostDeploy

(* Nothing is posted at first.                                             *)
LEMMA OrderlyAtFirst == Deploy!Init => Orderly
BY DEF Deploy!Init, Orderly, DeployFields, Undisturbed, Done, Resolves, Answers, Deploy!Accepted,
   Stages

-----------------------------------------------------------------------------
ValidationFields == {"folder", "phase", "scene", "visited", "stackToVisit", "kind", "projects"}
Project == [kind : {"none", "scene", "smart-wearable"}, parcels : SUBSET Grid]
Elements(s) == {s[i] : i \in DOMAIN s}

(* The walk over parcels: it has come to no other parcel than those every  *)
(* set has that is closed under touching and has the first, and looks at   *)
(* the neighbours of all it has visited.                                   *)
Closed(part, parcels) == \A p \in part, q \in parcels : Validation!Touch(p, q) => q \in part

Walking(list, visited, stack) ==
  LET parcels == Elements(list)
      reached == visited \cup Elements(stack)
  IN  /\ stack \in Seq(parcels) /\ visited \subseteq parcels
      /\ list # <<>> /\ list[1] \in reached
      /\ \A p \in visited, q \in parcels : Validation!Touch(p, q) => q \in reached
      /\ \A part \in SUBSET parcels :
           list[1] \in part /\ Closed(part, parcels) => reached \subseteq part

Walked ==
  /\ DOMAIN state = ValidationFields
  /\ state.kind \in {"none", "scene", "smart-wearable"}
  /\ state.projects \in Seq(Project)
  /\ \A i \in 1 .. Len(state.projects) :
       Validation!Connected(state.projects[i].parcels) /\ state.projects[i].parcels # {}
  /\ state.phase \in {"assert", "parcels", "main"} => state.scene.parcels \in Seq(Grid)
  /\ state.phase = "parcels" =>
       /\ Cardinality(Elements(state.scene.parcels)) = Len(state.scene.parcels)
       /\ Walking(state.scene.parcels, state.visited, state.stackToVisit)
  /\ state.phase = "main" =>
       /\ Validation!Connected(Elements(state.scene.parcels))
       /\ Elements(state.scene.parcels) # {}

LEMMA OneCardinality == \A S : Validation!Cardinality(S) = Cardinality(S)
BY DEF Cardinality, Validation!Cardinality, IsFiniteSet, Validation!IsFiniteSet

LEMMA ElementsAreRange == \A s : Elements(s) = Range(s) /\ Elements(s) = Validation!ToSet(s)
BY DEF Elements, Range, Validation!ToSet

(* Candidates are filtered one after the other.                            *)
LEMMA OneCandidate ==
  ASSUME NEW parcels, NEW found \in Seq(parcels), NEW c
  PROVE  LET more == found \o Validation!Only(c, parcels)
         IN  more \in Seq(parcels) /\ Range(more) = Range(found) \cup ({c} \cap parcels)
<1>1. Validation!Only(c, parcels) \in Seq(parcels)
  BY DEF Validation!Only
<1>2. Range(Validation!Only(c, parcels)) = {c} \cap parcels
  BY DEF Validation!Only, Range
<1> DEFINE candidate == Validation!Only(c, parcels)
<1> HIDE DEF candidate
<1>3. /\ found \o candidate \in Seq(parcels)
      /\ Range(found \o candidate) = Range(found) \cup Range(candidate)
  BY <1>1, RangeOfConcat DEF candidate
<1> QED BY <1>2, <1>3 DEF candidate

(* The neighbours found are the parcels that touch.                        *)
LEMMA NeighboursTouch ==
  ASSUME NEW x \in Int, NEW y \in Int, NEW parcels \in SUBSET (Int \X Int)
  PROVE  LET found == Validation!getNeighbours(x, y, parcels)
         IN  /\ found \in Seq(parcels)
             /\ Elements(found) = {q \in parcels : Validation!Touch(<<x, y>>, q)}
<1> DEFINE east  == <<x + 1, y>>
           west  == <<x - 1, y>>
           north == <<x, y + 1>>
           south == <<x, y - 1>>
           found == Validation!getNeighbours(x, y, parcels)
<1>1. ASSUME NEW q \in parcels
      PROVE  Validation!Touch(<<x, y>>, q) <=> q = east \/ q = west \/ q = north \/ q = south
  <2>1. PICK u \in Int, v \in Int : q = <<u, v>>
    OBVIOUS
  <2>2. Validation!Touch(<<x, y>>, <<u, v>>)
          <=> \/ x = u /\ (y = v + 1 \/ v = y + 1)
              \/ y = v /\ (x = u + 1 \/ u = x + 1)
    BY DEF Validation!Touch
  <2> QED BY <2>1, <2>2
<1>2. found = ((Validation!Only(east, parcels) \o Validation!Only(west, parcels))
                 \o Validation!Only(north, parcels)) \o Validation!Only(south, parcels)
  BY DEF Validation!getNeighbours
<1> HIDE DEF east, west, north, south, found
<1> DEFINE two   == Validation!Only(east, parcels) \o Validation!Only(west, parcels)
           three == two \o Validation!Only(north, parcels)
<1>3. Validation!Only(east, parcels) \in Seq(parcels)
  BY DEF Validation!Only
<1>4. Range(Validation!Only(east, parcels)) = {east} \cap parcels
  BY DEF Validation!Only, Range
<1>5. two \in Seq(parcels) /\ Range(two) = ({east} \cap parcels) \cup ({west} \cap parcels)
  BY <1>3, <1>4, OneCandidate, Zenon
<1> HIDE DEF two
<1>6. three \in Seq(parcels) /\ Range(three) = Range(two) \cup ({north} \cap parcels)
  BY <1>5, OneCandidate, Zenon
<1>7. found = three \o Validation!Only(south, parcels)
  BY <1>2, Zenon DEF two
<1> HIDE DEF three
<1>8. found \in Seq(parcels) /\ Range(found) = Range(three) \cup ({south} \cap parcels)
  BY <1>6, <1>7, OneCandidate, Zenon
<1>9. Range(found) = {q \in parcels : Validation!Touch(<<x, y>>, q)}
  BY <1>1, <1>5, <1>6, <1>8
<1> QED
  BY <1>8, <1>9, ElementsAreRange DEF found

LEMMA TouchIsMutual == \A p, q : Validation!Touch(p, q) <=> Validation!Touch(q, p)
BY DEF Validation!Touch

(* The last of a sequence, and what is before it.                          *)
LEMMA LastAndFront ==
  ASSUME NEW S, NEW s \in Seq(S), s # <<>>
  PROVE  /\ Validation!Front(s) \in Seq(S) /\ Validation!Last(s) \in S
         /\ Elements(s) = Elements(Validation!Front(s)) \cup {Validation!Last(s)}
<1>1. Len(s) \in Nat \ {0} /\ Validation!Last(s) = s[Len(s)]
  BY DEF Validation!Last
<1> DEFINE front == Validation!Front(s)
<1>2. front = [i \in 1 .. Len(s) - 1 |-> s[i]]
  BY <1>1 DEF Validation!Front
<1>3. front \in Seq(S) /\ DOMAIN front = 1 .. Len(s) - 1 /\ \A i \in 1 .. Len(s) - 1 : front[i] = s[i]
  BY <1>1, <1>2
<1>4. DOMAIN s = 1 .. Len(s) /\ \A i \in 1 .. Len(s) : s[i] \in S
  OBVIOUS
<1> HIDE DEF front
<1>5. Elements(s) = Elements(front) \cup {s[Len(s)]}
  <2>1. ASSUME NEW i \in 1 .. Len(s)
        PROVE  s[i] \in Elements(front) \cup {s[Len(s)]}
    <3>1. CASE i = Len(s)
      BY <3>1
    <3>2. CASE i # Len(s)
      <4>1. i \in 1 .. Len(s) - 1
        BY <1>1, <3>2
      <4> QED BY <1>3, <4>1 DEF Elements
    <3> QED BY <3>1, <3>2
  <2>2. ASSUME NEW i \in 1 .. Len(s) - 1
        PROVE  front[i] \in Elements(s)
    <3>1. i \in 1 .. Len(s) /\ front[i] = s[i]
      BY <1>1, <1>3
    <3> QED BY <1>4, <3>1 DEF Elements
  <2>3. s[Len(s)] \in Elements(s)
    BY <1>1, <1>4 DEF Elements
  <2> QED BY <1>3, <1>4, <2>1, <2>2, <2>3 DEF Elements
<1> QED BY <1>1, <1>3, <1>4, <1>5 DEF front

(* The walk starts at the first parcel.                                    *)
LEMMA WalkStarts ==
  ASSUME NEW list \in Seq(Grid), list # <<>>
  PROVE  Walking(list, {}, <<list[1]>>)
<1>1. /\ list[1] \in Elements(list)
      /\ <<list[1]>> \in Seq(Elements(list)) /\ Elements(<<list[1]>>) = {list[1]}
  <2>1. list[1] \in Elements(list)
    BY DEF Elements
  <2>2. Elements(<<list[1]>>) = {list[1]}
    BY DEF Elements
  <2> QED BY <2>1, <2>2
<1> QED BY <1>1 DEF Walking

(* A round of the walk keeps it.                                           *)
LEMMA WalkGoesOn ==
  ASSUME Grid \subseteq Int \X Int, NEW list \in Seq(Grid), NEW visited, NEW stack,
         Walking(list, visited, stack), stack # <<>>
  PROVE  LET current == Validation!Last(stack)
             rest    == Validation!Front(stack)
             seen    == visited \cup {current}
             next    == Validation!getNeighbours(current[1], current[2], Elements(list) \ seen)
         IN  IF current \in visited THEN Walking(list, visited, rest)
             ELSE Walking(list, seen, rest \o next)
<1> DEFINE parcels == Elements(list)
           current == Validation!Last(stack)
           rest    == Validation!Front(stack)
           seen    == visited \cup {current}
           next    == Validation!getNeighbours(current[1], current[2], parcels \ seen)
           reached == visited \cup Elements(stack)
<1>0. parcels \subseteq Grid
  BY DEF Elements
<1>1. /\ stack \in Seq(parcels) /\ visited \subseteq parcels
      /\ list # <<>> /\ list[1] \in reached
      /\ \A p \in visited, q \in parcels : Validation!Touch(p, q) => q \in reached
      /\ \A part \in SUBSET parcels :
           list[1] \in part /\ Closed(part, parcels) => reached \subseteq part
  BY Zenon DEF Walking
<1>2. /\ rest \in Seq(parcels) /\ current \in parcels
      /\ Elements(stack) = Elements(rest) \cup {current}
  BY <1>1, LastAndFront
<1>3. current \in Int \X Int /\ parcels \ seen \in SUBSET (Int \X Int)
  BY <1>0, <1>2
<1>4. /\ current[1] \in Int /\ current[2] \in Int
      /\ current = <<current[1], current[2]>>
  BY <1>3
<1> HIDE DEF parcels, current, rest, seen, next, reached
<1>5. /\ next \in Seq(parcels \ seen)
      /\ Elements(next) = {q \in parcels \ seen : Validation!Touch(current, q)}
  <2> DEFINE x == current[1]
             y == current[2]
             unseen == parcels \ seen
  <2>1. x \in Int /\ y \in Int /\ unseen \in SUBSET (Int \X Int)
    BY <1>3, <1>4
  <2>2. next = Validation!getNeighbours(x, y, unseen)
    BY DEF next
  <2>3. current = <<x, y>>
    BY <1>4
  <2> HIDE DEF x, y, unseen
  <2>4. /\ next \in Seq(unseen)
        /\ Elements(next) = {q \in unseen : Validation!Touch(<<x, y>>, q)}
    <3>1. LET found == Validation!getNeighbours(x, y, unseen)
          IN  /\ found \in Seq(unseen)
              /\ Elements(found) = {q \in unseen : Validation!Touch(<<x, y>>, q)}
      BY <2>1, NeighboursTouch
    <3> QED BY <2>2, <3>1
  <2> QED BY <2>3, <2>4, Zenon DEF unseen
<1>6. reached = visited \cup (Elements(rest) \cup {current})
  BY <1>2 DEF reached
<1>7. ASSUME current \in visited
      PROVE  Walking(list, visited, rest)
  <2>1. visited \cup Elements(rest) = reached
    BY <1>6, <1>7
  <2> QED BY <1>1, <1>2, <2>1 DEF Walking, parcels
<1>8. ASSUME current \notin visited
      PROVE  Walking(list, seen, rest \o next)
  <2>1. next \in Seq(parcels)
    BY <1>5
  <2>2. /\ rest \o next \in Seq(parcels)
        /\ Elements(rest \o next) = Elements(rest) \cup Elements(next)
    BY <1>2, <2>1, RangeOfConcat, ElementsAreRange
  <2> DEFINE after == seen \cup Elements(rest \o next)
  <2>3. after = reached \cup Elements(next)
    BY <1>6, <2>2 DEF seen
  <2>4. seen \subseteq parcels
    BY <1>1, <1>2 DEF seen
  <2>5. \A p \in seen, q \in parcels : Validation!Touch(p, q) => q \in after
    <3> SUFFICES ASSUME NEW p \in seen, NEW q \in parcels, Validation!Touch(p, q)
                 PROVE  q \in after
      OBVIOUS
    <3>1. CASE p \in visited
      BY <1>1, <2>3, <3>1
    <3>2. CASE p = current
      BY <1>5, <2>3, <3>2
    <3> QED BY <3>1, <3>2 DEF seen
  <2>6. ASSUME NEW part \in SUBSET parcels, list[1] \in part, Closed(part, parcels)
        PROVE  after \subseteq part
    <3>1. reached \subseteq part
      BY <1>1, <2>6
    <3>2. Elements(next) \subseteq part
      BY <1>5, <1>6, <2>6, <3>1 DEF Closed
    <3> QED BY <2>3, <3>1, <3>2
  <2>7. list[1] \in after
    BY <1>1, <2>3
  <2> HIDE DEF after
  <2>8. Walking(list, seen, rest \o next)
    BY <1>1, <2>2, <2>4, <2>5, <2>6, <2>7 DEF Walking, parcels, after
  <2> QED BY <2>8
<1> QED BY <1>7, <1>8 DEF current, rest, seen, next, parcels

(* When the walk is over it has visited all exactly if they hang together. *)
LEMMA WalkEnds ==
  ASSUME NEW list, NEW visited, Walking(list, visited, <<>>)
  PROVE  visited = Elements(list) <=> Validation!Connected(Elements(list))
<1> DEFINE parcels == Elements(list)
<1>1. Elements(<<>>) = {}
  BY DEF Elements
<1>2. /\ visited \subseteq parcels /\ list[1] \in visited
      /\ \A p \in visited, q \in parcels : Validation!Touch(p, q) => q \in visited
      /\ \A part \in SUBSET parcels :
           list[1] \in part /\ Closed(part, parcels) => visited \subseteq part
  BY <1>1 DEF Walking
<1> HIDE DEF parcels
<1>3. ASSUME visited = parcels
      PROVE  Validation!Connected(parcels)
  <2> SUFFICES ASSUME NEW part \in SUBSET parcels, part # {}, part # parcels,
                      \A p \in part, q \in parcels \ part : ~ Validation!Touch(p, q)
               PROVE  FALSE
    BY DEF Validation!Connected
  <2>1. CASE list[1] \in part
    BY <1>2, <1>3, <2>1 DEF Closed
  <2>2. CASE list[1] \notin part
    <3>1. parcels \ part \in SUBSET parcels /\ list[1] \in parcels \ part
      BY <1>2, <2>2
    <3>2. Closed(parcels \ part, parcels)
      BY TouchIsMutual DEF Closed
    <3> QED BY <1>2, <1>3, <3>1, <3>2
  <2> QED BY <2>1, <2>2
<1>4. ASSUME Validation!Connected(parcels)
      PROVE  visited = parcels
  <2> SUFFICES ASSUME visited # parcels
               PROVE  FALSE
    OBVIOUS
  <2>1. visited \in SUBSET parcels /\ visited # {}
    BY <1>2
  <2>2. \E p \in visited, q \in parcels \ visited : Validation!Touch(p, q)
    BY <1>4, <2>1 DEF Validation!Connected
  <2> QED BY <1>2, <2>2
<1> QED BY <1>3, <1>4 DEF parcels

(* The record takes what an action gives it and keeps the rest.            *)
LEMMA WalkedAtFirst ==
  ASSUME Validation!Init
  PROVE  Walked
BY DEF Validation!Init, Validation!NoScene, Walked, ValidationFields

LEMMA ParcelListsAreSequences ==
  ASSUME ParametersAssumption, NEW list \in Validation!ParcelLists
  PROVE  list \in Seq(Grid)
BY DEF Validation!ParcelLists, ParametersAssumption, Validation!ValidationAssumption

LEMMA Thrown ==
  ASSUME Walked, Validation!Throws
  PROVE  Walked'
<1>1. /\ DOMAIN state' = ValidationFields
      /\ state'.kind = state.kind /\ state'.projects = state.projects /\ state'.phase = "thrown"
  BY DEF Walked, ValidationFields, Validation!Throws
<1> QED BY <1>1 DEF Walked

LEMMA FolderIsLookedAt ==
  ASSUME Walked,
         Validation!assertValidProjectFolder \/ Validation!getValidWearableJson
  PROVE  Walked'
<1>1. CASE Validation!Throws
  BY <1>1, Thrown
<1>2. CASE \E kind \in {"scene", "smart-wearable"} :
             state' = [state EXCEPT !.kind = kind, !.phase =
                         IF kind = "scene" THEN "scene" ELSE "wearable"]
  <2>1. PICK kind \in {"scene", "smart-wearable"} :
             state' = [state EXCEPT !.kind = kind, !.phase =
                         IF kind = "scene" THEN "scene" ELSE "wearable"]
    BY <1>2
  <2>2. /\ DOMAIN state' = ValidationFields
        /\ state'.kind = kind /\ state'.projects = state.projects
        /\ state'.phase \in {"scene", "wearable"}
    BY <2>1 DEF Walked, ValidationFields
  <2> QED BY <2>2 DEF Walked
<1>3. CASE Validation!Enters("scene")
  <2>1. /\ DOMAIN state' = ValidationFields
        /\ state'.kind = state.kind /\ state'.projects = state.projects
        /\ state'.phase = "scene"
    BY <1>3 DEF Walked, ValidationFields, Validation!Enters
  <2> QED BY <2>1 DEF Walked
<1> QED
  BY <1>1, <1>2, <1>3 DEF Validation!assertValidProjectFolder, Validation!getValidWearableJson

LEMMA SceneIsRead ==
  ASSUME ParametersAssumption, Walked, Validation!getValidSceneJson
  PROVE  Walked'
<1>1. CASE Validation!Throws
  BY <1>1, Thrown
<1>2. CASE ~ Validation!Throws
  <2>1. PICK parcels \in Validation!ParcelLists, base \in Grid, fits \in BOOLEAN :
             state' = [state EXCEPT
               !.scene = [parcels |-> parcels, base |-> base, fits |-> fits],
               !.phase = "assert"]
    BY <1>2 DEF Validation!getValidSceneJson
  <2>2. /\ DOMAIN state' = ValidationFields
        /\ state'.kind = state.kind /\ state'.projects = state.projects
        /\ state'.phase = "assert" /\ state'.scene.parcels = parcels
    BY <2>1 DEF Walked, ValidationFields
  <2>3. parcels \in Seq(Grid)
    BY ParcelListsAreSequences
  <2> QED BY <2>2, <2>3 DEF Walked
<1> QED BY <1>1, <1>2

LEMMA WalkIsEntered ==
  ASSUME Walked, Validation!assertValidScene
  PROVE  Walked'
<1>1. CASE Validation!Throws
  BY <1>1, Thrown
<1>2. CASE ~ Validation!Throws
  <2> DEFINE list == state.scene.parcels
  <2>1. /\ state.phase = "assert"
        /\ Cardinality(Validation!ToSet(list)) = Len(list)
        /\ state.scene.base \in Validation!ToSet(list)
        /\ state' = [state EXCEPT !.phase = "parcels", !.visited = {},
                                  !.stackToVisit = <<list[1]>>]
    <3> DEFINE fine == /\ state.scene.fits
                       /\ Cardinality(Validation!ToSet(list)) = Len(list)
                       /\ state.scene.base \in Validation!ToSet(list)
                       /\ Validation!ToSet(list) \subseteq World
    <3>1. /\ state.phase = "assert"
          /\ IF fine THEN state' = [state EXCEPT !.phase = "parcels", !.visited = {},
                                                !.stackToVisit = <<list[1]>>]
             ELSE Validation!Throws
      BY OneCardinality, Zenon DEF Validation!assertValidScene
    <3>2. fine
      <4> HIDE DEF fine
      <4> QED BY <1>2, <3>1, Zenon
    <3> QED BY <3>1, <3>2, Zenon
  <2>2. /\ DOMAIN state' = ValidationFields
        /\ state'.kind = state.kind /\ state'.projects = state.projects
        /\ state'.phase = "parcels" /\ state'.scene = state.scene
        /\ state'.visited = {} /\ state'.stackToVisit = <<list[1]>>
    BY <2>1 DEF Walked, ValidationFields
  <2>3. list \in Seq(Grid)
    BY <2>1 DEF Walked
  <2>4. list # <<>>
    BY <2>1 DEF Validation!ToSet
  <2>5. Walking(list, {}, <<list[1]>>)
    BY <2>3, <2>4, WalkStarts
  <2>6. /\ Cardinality(Elements(list)) = Len(list) /\ state'.scene.parcels = list
    BY <2>1, <2>2, ElementsAreRange
  <2> HIDE DEF list
  <2> QED BY <2>2, <2>3, <2>5, <2>6 DEF Walked
<1> QED BY <1>1, <1>2

LEMMA WalkStep ==
  ASSUME ParametersAssumption, Walked, Validation!visitConnectedParcels
  PROVE  Walked'
<1> DEFINE list    == state.scene.parcels
           visited == state.visited
           stack   == state.stackToVisit
           current == Validation!Last(stack)
           rest    == Validation!Front(stack)
           seen    == visited \cup {current}
           next    == Validation!getNeighbours(current[1], current[2], Elements(list) \ seen)
<1>1. /\ state.phase = "parcels" /\ stack # <<>>
      /\ state' = IF current \in visited
                    THEN [state EXCEPT !.stackToVisit = rest]
                    ELSE [state EXCEPT !.visited = seen, !.stackToVisit = rest \o next]
  BY ElementsAreRange DEF Validation!visitConnectedParcels
<1>2. /\ DOMAIN state = ValidationFields
      /\ list \in Seq(Grid) /\ Cardinality(Elements(list)) = Len(list)
      /\ Walking(list, visited, stack)
  BY <1>1 DEF Walked
<1>3. Grid \subseteq Int \X Int
  BY DEF ParametersAssumption, Validation!ValidationAssumption
<1>4. IF current \in visited THEN Walking(list, visited, rest)
      ELSE Walking(list, seen, rest \o next)
  <2> HIDE DEF list, visited, stack
  <2> QED BY <1>1, <1>2, <1>3, WalkGoesOn
<1> DEFINE keeps == /\ DOMAIN state' = ValidationFields
                    /\ state'.kind = state.kind /\ state'.projects = state.projects
                    /\ state'.phase = state.phase /\ state'.scene = state.scene
<1> HIDE DEF current, rest, seen, next
<1>5. CASE current \in visited
  <2>1. keeps /\ state'.visited = visited /\ state'.stackToVisit = rest
    BY <1>1, <1>2, <1>5 DEF ValidationFields
  <2> QED BY <1>1, <1>2, <1>4, <1>5, <2>1 DEF Walked
<1>6. CASE current \notin visited
  <2>1. keeps /\ state'.visited = seen /\ state'.stackToVisit = rest \o next
    BY <1>1, <1>2, <1>6 DEF ValidationFields
  <2> QED BY <1>1, <1>2, <1>4, <1>6, <2>1 DEF Walked
<1> QED BY <1>5, <1>6

(* The walk has visited as many parcels as are listed, each once: all.     *)
LEMMA AllAreVisited ==
  ASSUME NEW list \in Seq(Grid), Cardinality(Elements(list)) = Len(list),
         NEW visited, Walking(list, visited, <<>>), Cardinality(visited) = Len(list)
  PROVE  Validation!Connected(Elements(list)) /\ Elements(list) # {}
<1>1. IsFiniteSet(Elements(list))
  <2>1. Elements(list) = Range(list)
    BY ElementsAreRange
  <2>2. Len(list) \in Nat /\ DOMAIN list = 1 .. Len(list)
    OBVIOUS
  <2>3. IsFiniteSet(1 .. Len(list))
    BY <2>2, FS_Interval
  <2>4. list \in Surjection(1 .. Len(list), Elements(list))
    <3>1. list \in [1 .. Len(list) -> Elements(list)]
      <4>1. list = [i \in 1 .. Len(list) |-> list[i]]
        BY <2>2, SMTT(30)
      <4>2. \A i \in 1 .. Len(list) : list[i] \in Elements(list)
        BY <2>2, ZenonT(60) DEF Elements
      <4> QED BY <4>1, <4>2
    <3>2. \A x \in Elements(list) : \E i \in 1 .. Len(list) : list[i] = x
      BY <2>2, Zenon DEF Elements
    <3> QED BY <3>1, <3>2 DEF Surjection
  <2> QED BY <2>3, <2>4, FS_Surjection
<1>2. visited \subseteq Elements(list) /\ Elements(list) # {}
  <2>1. Elements(<<>>) = {}
    BY DEF Elements
  <2>2. visited \subseteq Elements(list) /\ list[1] \in visited \cup Elements(<<>>)
    BY Zenon DEF Walking
  <2> QED BY <2>1, <2>2
<1>3. visited = Elements(list)
  BY <1>1, <1>2, FS_Subset
<1> QED BY <1>2, <1>3, WalkEnds

LEMMA WalkIsJudged ==
  ASSUME Walked, Validation!areConnected
  PROVE  Walked'
<1>1. CASE Validation!Throws
  BY <1>1, Thrown
<1>2. CASE ~ Validation!Throws
  <2> DEFINE list == state.scene.parcels
  <2>1. /\ state.phase = "parcels" /\ state.stackToVisit = <<>>
        /\ Cardinality(state.visited) = Len(list)
        /\ state' = [state EXCEPT !.phase = "main"]
    <3>1. IF Cardinality(state.visited) # Len(list) THEN Validation!Throws
          ELSE Validation!Enters("main")
      BY OneCardinality, Zenon DEF Validation!areConnected
    <3>2. Cardinality(state.visited) = Len(list) /\ Validation!Enters("main")
      BY <1>2, <3>1, Zenon
    <3>3. state.phase = "parcels" /\ state.stackToVisit = <<>>
      BY DEF Validation!areConnected
    <3> QED BY <3>2, <3>3, Zenon DEF Validation!Enters
  <2>2. /\ DOMAIN state' = ValidationFields
        /\ state'.kind = state.kind /\ state'.projects = state.projects
        /\ state'.phase = "main" /\ state'.scene = state.scene
    BY <2>1 DEF Walked, ValidationFields
  <2>3. /\ list \in Seq(Grid) /\ Cardinality(Elements(list)) = Len(list)
        /\ Walking(list, state.visited, <<>>)
    BY <2>1 DEF Walked
  <2>4. Validation!Connected(Elements(list)) /\ Elements(list) # {}
    BY <2>1, <2>3, AllAreVisited
  <2> QED BY <2>2, <2>3, <2>4 DEF Walked
<1> QED BY <1>1, <1>2

LEMMA ProjectJoins ==
  ASSUME Walked, Validation!mainIsScript
  PROVE  Walked'
<1>1. CASE Validation!Throws
  BY <1>1, Thrown
<1>2. CASE ~ Validation!Throws
  <2> DEFINE parcels == Validation!ToSet(state.scene.parcels)
             project == [kind |-> state.kind, parcels |-> parcels]
             projects == Append(state.projects, project)
  <2>1. /\ state.phase = "main"
        /\ state' = [state EXCEPT
             !.projects = projects,
             !.folder = @ + 1, !.phase = "folder", !.scene = Validation!NoScene,
             !.visited = {}, !.stackToVisit = <<>>, !.kind = "none"]
    BY <1>2 DEF Validation!mainIsScript
  <2>2. /\ DOMAIN state' = ValidationFields
        /\ state'.kind = "none" /\ state'.projects = projects
        /\ state'.phase = "folder"
    BY <2>1 DEF Walked, ValidationFields
  <2>3. Validation!Connected(parcels) /\ parcels # {} /\ parcels \subseteq Grid
    <3>1. parcels = Elements(state.scene.parcels) /\ state.scene.parcels \in Seq(Grid)
      BY <2>1, ElementsAreRange DEF Walked
    <3>2. parcels \subseteq Grid
      BY <3>1 DEF Elements
    <3> HIDE DEF parcels
    <3> QED BY <2>1, <3>1, <3>2 DEF Walked
  <2> HIDE DEF parcels
  <2>4. project \in Project /\ state.projects \in Seq(Project)
    BY <2>3 DEF Walked, Project
  <2>5. project.parcels = parcels
    OBVIOUS
  <2> HIDE DEF project
  <2>6. /\ projects \in Seq(Project) /\ Len(projects) = Len(state.projects) + 1
        /\ Len(state.projects) \in Nat
        /\ \A i \in 1 .. Len(state.projects) : projects[i] = state.projects[i]
        /\ projects[Len(state.projects) + 1] = project
    BY <2>4
  <2> HIDE DEF projects
  <2>7. \A i \in 1 .. Len(projects) :
          Validation!Connected(projects[i].parcels) /\ projects[i].parcels # {}
    <3> TAKE i \in 1 .. Len(projects)
    <3>1. CASE i \in 1 .. Len(state.projects)
      BY <2>6, <3>1 DEF Walked
    <3>2. CASE i = Len(state.projects) + 1
      BY <2>3, <2>5, <2>6, <3>2
    <3> QED BY <2>6, <3>1, <3>2
  <2> QED BY <2>2, <2>6, <2>7 DEF Walked
<1> QED BY <1>1, <1>2

LEMMA WalkedStep ==
  ASSUME ParametersAssumption, Walked, Validation!Next
  PROVE  Walked'
BY FolderIsLookedAt, SceneIsRead, WalkIsEntered, WalkStep, WalkIsJudged, ProjectJoins
   DEF Validation!Next

LEMMA WalkedIsSafe ==
  ASSUME Walked
  PROVE  Validation!WalkFindsConnection
<1>1. state.phase = "parcels" /\ state.stackToVisit = <<>>
        /\ Validation!Connected(Validation!ToSet(state.scene.parcels))
      => state.visited = Validation!ToSet(state.scene.parcels)
  BY WalkEnds, ElementsAreRange DEF Walked
<1> QED BY <1>1, ElementsAreRange DEF Walked, Validation!WalkFindsConnection
-----------------------------------------------------------------------------
QuestFields == {"command", "privateKey", "phase", "question", "cancelled", "answers", "items",
                "requests", "posts", "sent", "stopping", "server"}
QuestionNames == {"name", "description", "imageUrl", "definition", "withReward", "webhookUrl",
                  "withRequestBody", "requestBody", "rewardItemsNumber", "itemName", "itemImage"}
Creates == state.command \in {"create", "create-from-json"}

(* What a quest must hold, and what the author has told by a question.     *)
Whole(answers) ==
  /\ Quests!Asked \subseteq answers
  /\ "webhookUrl" \in answers
       => {"rewardItemsNumber", "itemName", "itemImage"} \subseteq answers

Told(question, answers) ==
  /\ question # "name" => "name" \in answers
  /\ question \notin {"name", "description"} => "description" \in answers
  /\ question \notin {"name", "description", "imageUrl"} => "imageUrl" \in answers
  /\ question \notin {"name", "description", "imageUrl", "definition"} => "definition" \in answers
  /\ question \in {"itemName", "itemImage"} => "rewardItemsNumber" \in answers
  /\ question = "itemImage" => "itemName" \in answers
  /\ "webhookUrl" \in answers =>
       question \in {"withRequestBody", "requestBody", "rewardItemsNumber", "itemName", "itemImage"}

(* Why only whole quests are sent: a question is put when those before it  *)
(* are answered, and a cancellation is noted until the next check, which   *)
(* comes a question later only for the image.                              *)
Asking ==
  /\ DOMAIN state = QuestFields
  /\ state.question \in QuestionNames /\ state.cancelled \in BOOLEAN
  /\ state.answers \in SUBSET QuestionNames
  /\ state.sent \in Seq(SUBSET QuestionNames)
  /\ state.phase \in {"arguments", "asking"} => state.sent = <<>>
  /\ state.phase = "arguments" =>
       state.question = "name" /\ ~ state.cancelled /\ state.answers = {}
  /\ state.phase = "asking" =>
       IF state.cancelled THEN state.question = "definition"
       ELSE Told(state.question, state.answers)
  /\ Creates /\ state.phase \in {"signing", "waiting"} => ~ state.cancelled /\ Whole(state.answers)
  /\ Creates /\ state.sent # <<>> =>
       ~ state.cancelled /\ \A n \in 1 .. Len(state.sent) : Whole(state.sent[n])

LEMMA AskingAtFirst == Quests!Init => Asking
BY DEF Quests!Init, Asking, QuestFields, QuestionNames

(* What is sent is what was answered.                                      *)
LEMMA OneMoreSent ==
  ASSUME Asking, state.phase \in {"signing", "waiting"},
         NEW sent, sent = Append(state.sent, state.answers)
  PROVE  /\ sent \in Seq(SUBSET QuestionNames)
         /\ Creates => /\ ~ state.cancelled
                       /\ \A n \in 1 .. Len(sent) : Whole(sent[n])
<1>1. /\ state.sent \in Seq(SUBSET QuestionNames) /\ state.answers \in SUBSET QuestionNames
      /\ Creates => ~ state.cancelled /\ Whole(state.answers)
  BY DEF Asking
<1>2. /\ sent \in Seq(SUBSET QuestionNames) /\ Len(sent) = Len(state.sent) + 1
      /\ Len(state.sent) \in Nat
      /\ \A n \in 1 .. Len(state.sent) : sent[n] = state.sent[n]
      /\ sent[Len(state.sent) + 1] = state.answers
  BY <1>1
<1>3. ASSUME Creates, NEW n \in 1 .. Len(sent)
      PROVE  Whole(sent[n])
  <2>1. CASE n \in 1 .. Len(state.sent)
    <3>1. state.sent # <<>>
      BY <2>1
    <3> QED BY <1>2, <1>3, <2>1, <3>1 DEF Asking
  <2>2. CASE n = Len(state.sent) + 1
    BY <1>1, <1>2, <1>3, <2>2
  <2> QED BY <1>2, <2>1, <2>2
<1> QED BY <1>1, <1>2, <1>3

LEMMA PromptStep ==
  ASSUME Asking, Quests!Prompt
  PROVE  Asking'
<1>1. PICK cancels \in BOOLEAN, yes \in BOOLEAN, number \in Items :
        LET s == Quests!Answered(state, cancels, number) IN
        state' = IF Quests!ReturnsHere(s) THEN Quests!Failed(s)
                 ELSE IF Quests!Questions(s, yes) = "done" THEN [s EXCEPT !.phase = "signing"]
                 ELSE [s EXCEPT !.question = Quests!Questions(s, yes)]
  BY DEF Quests!Prompt
<1> DEFINE s == Quests!Answered(state, cancels, number)
<1>2. /\ DOMAIN state = QuestFields /\ state.phase = "asking" /\ state.sent = <<>>
      /\ state.cancelled \in BOOLEAN /\ state.question \in QuestionNames
      /\ state.answers \in SUBSET QuestionNames
      /\ ~ state.cancelled => Told(state.question, state.answers)
      /\ state.cancelled => state.question = "definition"
  BY DEF Asking, Quests!Prompt
<1>3. /\ DOMAIN s = QuestFields /\ s.question = state.question /\ s.sent = state.sent
      /\ s.phase = "asking" /\ s.command = state.command
  BY <1>2 DEF Quests!Answered, Quests!NotesCancellation, QuestFields
<1>4. s.answers = IF cancels THEN state.answers ELSE state.answers \cup {state.question}
  BY <1>2 DEF Quests!Answered, Quests!NotesCancellation, QuestFields
<1>5. s.cancelled = (state.cancelled \/ cancels)
  <2> DEFINE t == Quests!NotesCancellation(state, cancels)
  <2>1. t.cancelled = (state.cancelled \/ cancels) /\ DOMAIN t = QuestFields
    BY <1>2, Zenon DEF Quests!NotesCancellation, QuestFields
  <2>2. s = [t EXCEPT
     !.answers = IF cancels THEN @ ELSE @ \cup {state.question},
     !.items = IF state.question = "rewardItemsNumber" THEN number
               ELSE IF state.question = "itemName" THEN @ - 1 ELSE @]
    BY DEF Quests!Answered
  <2> HIDE DEF t, s
  <2>3. s.cancelled = t.cancelled
    BY <2>1, <2>2 DEF QuestFields
  <2> QED BY <2>1, <2>3, Zenon
<1> HIDE DEF s
<1>6. CASE Quests!ReturnsHere(s)
  <2>1. state' = [s EXCEPT !.phase = "failed"]
    BY <1>1, <1>6 DEF s, Quests!Failed
  <2>2. /\ DOMAIN state' = QuestFields /\ state'.question = s.question /\ state'.sent = <<>>
        /\ state'.phase = "failed" /\ state'.cancelled = s.cancelled
        /\ state'.answers = s.answers
    BY <1>2, <1>3, <2>1 DEF QuestFields
  <2> QED BY <1>2, <1>3, <1>4, <1>5, <2>2 DEF Asking
<1>7. CASE ~ Quests!ReturnsHere(s) /\ Quests!Questions(s, yes) = "done"
  <2>1. state' = [s EXCEPT !.phase = "signing"]
    BY <1>1, <1>7 DEF s
  <2>2. /\ DOMAIN state' = QuestFields /\ state'.question = s.question /\ state'.sent = <<>>
        /\ state'.phase = "signing" /\ state'.cancelled = s.cancelled
        /\ state'.answers = s.answers
    BY <1>2, <1>3, <2>1 DEF QuestFields
  <2>3. state.question = "withReward" \/ state.question = "itemImage"
    BY <1>2, <1>3, <1>7 DEF Quests!Questions, QuestionNames
  <2>4. ~ s.cancelled
    BY <1>3, <1>7, <2>3 DEF Quests!ReturnsHere
  <2>5. ~ state.cancelled /\ ~ cancels
    BY <1>5, <2>4, Zenon
  <2>6. Whole(s.answers)
    BY <1>2, <1>4, <2>3, <2>5 DEF Told, Whole, Quests!Asked
  <2>7. s.answers \in SUBSET QuestionNames /\ s.cancelled \in BOOLEAN
    BY <1>2, <1>4, <1>5
  <2> QED BY <1>2, <1>3, <2>2, <2>4, <2>6, <2>7 DEF Asking
<1>8. CASE ~ Quests!ReturnsHere(s) /\ Quests!Questions(s, yes) # "done"
  <2> DEFINE next == Quests!Questions(s, yes)
  <2>1. state' = [s EXCEPT !.question = next]
    BY <1>1, <1>8 DEF s
  <2> DEFINE question == state.question
  <2>2. /\ next \in QuestionNames
        /\ question = "name"              => next = "description"
        /\ question = "description"       => next = "imageUrl"
        /\ question = "imageUrl"          => next = "definition"
        /\ question = "definition"        => next = "withReward"
        /\ question = "withReward"        => next = "webhookUrl"
        /\ question = "webhookUrl"        => next = "withRequestBody"
        /\ question = "withRequestBody"   => next \in {"requestBody", "rewardItemsNumber"}
        /\ question = "requestBody"       => next = "rewardItemsNumber"
        /\ question = "rewardItemsNumber" => next = "itemName"
        /\ question = "itemName"          => next = "itemImage"
        /\ question = "itemImage"         => next = "itemName"
    BY <1>2, <1>3, <1>8 DEF Quests!Questions, QuestionNames
  <2> HIDE DEF next
  <2>3. /\ DOMAIN state' = QuestFields /\ state'.question = next /\ state'.sent = <<>>
        /\ state'.phase = "asking" /\ state'.cancelled = s.cancelled
        /\ state'.answers = s.answers
    BY <1>2, <1>3, <2>1 DEF QuestFields
  <2>4. s.answers \in SUBSET QuestionNames /\ s.cancelled \in BOOLEAN
    BY <1>2, <1>4, <1>5
  <2>5. CASE s.cancelled
    <3>1. next = "definition"
      BY <1>3, <1>8, <2>2, <2>5 DEF Quests!ReturnsHere
    <3> QED BY <2>3, <2>4, <2>5, <3>1 DEF Asking, QuestionNames
  <2>6. CASE ~ s.cancelled
    <3>1. ~ state.cancelled /\ ~ cancels
      BY <1>5, <2>6, Zenon
    <3>2. s.answers = state.answers \cup {question} /\ Told(question, state.answers)
      BY <1>2, <1>4, <3>1
    <3>3. Told(next, s.answers)
      BY <1>2, <2>2, <3>2 DEF Told, QuestionNames
    <3> QED BY <2>2, <2>3, <2>4, <2>6, <3>3 DEF Asking
  <2> QED BY <2>4, <2>5, <2>6
<1> QED BY <1>6, <1>7, <1>8

LEMMA AskingStep ==
  ASSUME Asking, [Quests!Next]_state
  PROVE  Asking'
<1> DEFINE same == /\ DOMAIN state' = QuestFields /\ state'.question = state.question
                   /\ state'.cancelled = state.cancelled /\ state'.command = state.command
<1>1. CASE Quests!executeCreateSubcommand
  <2>1. CASE state' = [state EXCEPT !.phase = "asking"]
    <3>1. /\ same /\ state'.phase = "asking" /\ state'.answers = state.answers
          /\ state'.sent = state.sent
      BY <2>1 DEF Asking, QuestFields
    <3> QED BY <1>1, <3>1 DEF Asking, Told, Quests!executeCreateSubcommand
  <2>2. CASE state' = Quests!Failed(state)
    <3>1. /\ same /\ state'.phase = "failed" /\ state'.answers = state.answers
          /\ state'.sent = state.sent
      BY <2>2 DEF Asking, QuestFields, Quests!Failed
    <3> QED BY <1>1, <3>1 DEF Asking, Quests!executeCreateSubcommand
  <2>3. CASE state' = [state EXCEPT !.phase = "signing", !.answers = Quests!Asked]
    <3>1. /\ same /\ state'.phase = "signing" /\ state'.answers = Quests!Asked
          /\ state'.sent = state.sent
      BY <2>3 DEF Asking, QuestFields
    <3> QED BY <1>1, <3>1 DEF Asking, Quests!executeCreateSubcommand, Whole, Quests!Asked, QuestionNames
  <2> QED BY <1>1, <2>1, <2>2, <2>3 DEF Quests!executeCreateSubcommand
<1>2. CASE \E c \in {"list", "activate", "deactivate"} : Quests!Identified(c)
  <2>1. /\ ~ Creates
        /\ state.phase = "arguments"
        /\ state' = Quests!Failed(state) \/ state' = [state EXCEPT !.phase = "signing"]
    BY <1>2 DEF Quests!Identified, Creates
  <2>2. /\ same /\ state'.phase \in {"failed", "signing"} /\ state'.answers = state.answers
        /\ state'.sent = state.sent
    BY <2>1 DEF Asking, QuestFields, Quests!Failed
  <2> QED BY <2>1, <2>2 DEF Asking, Creates
<1>3. CASE Quests!executeManagerSubcommand
  <2>1. /\ same /\ state'.phase \in {"serving", "ended"} /\ state'.answers = state.answers
        /\ state'.sent = state.sent
    BY <1>3 DEF Asking, QuestFields, Quests!executeManagerSubcommand
  <2> QED BY <1>3, <2>1 DEF Asking, Creates, Quests!executeManagerSubcommand
<1>4. CASE Quests!Prompt
  BY <1>4, PromptStep
<1>5. CASE Quests!SignWithKey \/ Quests!Post
  <2>1. /\ same /\ state'.answers = state.answers
        /\ state'.sent = Append(state.sent, state.answers)
        /\ state'.phase \in {"ended", "failed", "waiting"}
        /\ state.phase \in {"signing", "waiting"}
        /\ Creates /\ state'.phase = "waiting" => ~ state.cancelled /\ Whole(state.answers)
    BY <1>5 DEF Asking, QuestFields, Quests!SignWithKey, Quests!Post, Quests!CommandCallback
  <2> HIDE DEF same
  <2>2. /\ state'.sent \in Seq(SUBSET QuestionNames)
        /\ Creates => /\ ~ state.cancelled
                      /\ \A n \in 1 .. Len(state'.sent) : Whole(state'.sent[n])
    <3> DEFINE sent == state'.sent
    <3>1. sent = Append(state.sent, state.answers) /\ state.phase \in {"signing", "waiting"}
      BY <2>1
    <3> HIDE DEF sent
    <3>2. /\ sent \in Seq(SUBSET QuestionNames)
          /\ Creates => ~ state.cancelled /\ \A n \in 1 .. Len(sent) : Whole(sent[n])
      BY <3>1, OneMoreSent
    <3> QED BY <3>2 DEF sent
  <2> QED BY <2>1, <2>2 DEF Asking, Creates, same
<1>6. CASE Quests!OpenDapp \/ Quests!PostInvalid
  <2>1. /\ same /\ state'.phase = "waiting" /\ state'.answers = state.answers
        /\ state'.sent = state.sent /\ state.phase \in {"signing", "waiting"}
    BY <1>6 DEF Asking, QuestFields, Quests!OpenDapp, Quests!PostInvalid
  <2> QED BY <2>1 DEF Asking, Creates
<1>7. CASE Quests!PostAnswered
  <2>1. /\ same /\ state'.phase = state.phase /\ state'.answers = state.answers
        /\ state'.sent = state.sent
    BY <1>7 DEF Asking, QuestFields, Quests!PostAnswered
  <2> QED BY <2>1 DEF Asking, Creates
<1>8. CASE Quests!Stop
  <2>1. /\ same /\ state'.phase = "ended" /\ state'.answers = state.answers
        /\ state'.sent = state.sent
    BY <1>8 DEF Asking, QuestFields, Quests!Stop
  <2> QED BY <2>1 DEF Asking, Creates
<1>9. CASE UNCHANGED state
  BY <1>9 DEF Asking, Creates
<1> QED
  BY <1>1, <1>2, <1>3, <1>4, <1>5, <1>6, <1>7, <1>8, <1>9
  DEF Quests!Next, Quests!Work, Quests!executeListSubcommand, Quests!executeActivateSubcommand,
      Quests!executeDeactivateSubcommand

LEMMA AskingIsSafe == Asking => Quests!OnlyWholeQuestsAreSent
BY DEF Asking, Creates, Whole, Quests!OnlyWholeQuestsAreSent
-----------------------------------------------------------------------------
BundleFields == {"watch", "phase", "baked", "source", "composites", "events", "timer", "joined",
                 "build", "output", "crdt", "saves"}
BuildFields == {"active", "source", "data", "loading", "loaded"}

Composites == Bundle!Readable(state.composites)

(* No save is on its way, and none was left to a build at work.            *)
AllHeard == state.events = 0 /\ ~ state.timer /\ ~ state.joined

(* Why the bundle is current: if all was heard, what the build at work has *)
(* read is what is on disk, and so is what the last one wrote.             *)
Fresh ==
  /\ DOMAIN state = BundleFields /\ DOMAIN state.build = BuildFields
  /\ DOMAIN state.build.loaded = Bundle!Loads
  /\ state.watch \in BOOLEAN /\ state.timer \in BOOLEAN /\ state.joined \in BOOLEAN
  /\ state.build.active \in BOOLEAN /\ state.events \in Nat
  /\ state.phase \in {"starting", "bundling", "watching", "checking", "done", "failed"}
  /\ state.watch => state.phase \in {"starting", "bundling", "watching"}
  /\ state.phase = "watching" => state.watch
  /\ state.phase = "starting" => ~ state.build.active
  /\ state.watch /\ AllHeard /\ state.build.active =>
       /\ state.build.source # Bundle!NotRead => state.build.source = state.source
       /\ state.build.data # Bundle!NotRead =>
            state.build.data = Composites /\ state.crdt = Composites
       /\ \A l \in Bundle!Loads :
            state.build.loaded[l] # Bundle!NotRead =>
              state.build.loaded[l] = Composites /\ state.crdt = Composites
  /\ state.phase = "watching" /\ AllHeard /\ ~ state.build.active =>
       /\ state.crdt = Composites
       /\ state.source.sound =>
            /\ state.output.source = state.source
            /\ \A l \in Bundle!Loads : state.output[l] = Composites
  /\ state.watch /\ state.phase = "bundling" => state.build.active

LEMMA FreshAtFirst == Bundle!Init => Fresh
<1> SUFFICES ASSUME Bundle!Init PROVE Fresh
  OBVIOUS
<1>1. /\ DOMAIN state = BundleFields /\ state.build = Bundle!NoBuild
      /\ state.watch \in BOOLEAN /\ state.timer = FALSE /\ state.joined = FALSE
      /\ state.events = 0 /\ state.phase = "starting"
  BY DEF Bundle!Init, BundleFields
<1>2. /\ DOMAIN Bundle!NoBuild = BuildFields /\ Bundle!NoBuild.active = FALSE
      /\ DOMAIN Bundle!NoBuild.loaded = Bundle!Loads
  BY DEF Bundle!NoBuild, BuildFields
<1>3. /\ DOMAIN state.build = BuildFields /\ state.build.active = FALSE
      /\ DOMAIN state.build.loaded = Bundle!Loads
  BY <1>1, <1>2
<1>4. ~ (state.phase = "watching") /\ ~ (state.phase = "bundling")
  BY <1>1
<1>5. state.events \in Nat
  BY <1>1, SMT
<1>6. state.timer \in BOOLEAN /\ state.joined \in BOOLEAN
  BY <1>1, Zenon
<1>7. state.phase \in {"starting", "bundling", "watching", "checking", "done", "failed"}
  BY <1>1, Zenon
<1>8. state.build.active \in BOOLEAN /\ ~ state.build.active
  BY <1>3
<1> QED BY <1>1, <1>3, <1>4, <1>5, <1>6, <1>7, <1>8, Zenon DEF Fresh

(* A build starts with nothing read.                                       *)
LEMMA BuildStarts ==
  ASSUME NEW s, DOMAIN s = BundleFields, state' = Bundle!Started(s)
  PROVE  /\ DOMAIN state' = BundleFields /\ DOMAIN state'.build = BuildFields
         /\ state'.build.active = TRUE /\ state'.build.source = Bundle!NotRead
         /\ state'.build.data = Bundle!NotRead
         /\ DOMAIN state'.build.loaded = Bundle!Loads
         /\ \A l \in Bundle!Loads : state'.build.loaded[l] = Bundle!NotRead
         /\ state'.joined = FALSE
         /\ state'.watch = s.watch /\ state'.phase = s.phase
            /\ state'.source = s.source /\ state'.composites = s.composites
            /\ state'.events = s.events /\ state'.timer = s.timer
            /\ state'.output = s.output /\ state'.crdt = s.crdt
BY DEF Bundle!Started, Bundle!NoBuild, BundleFields, BuildFields

LEMMA FreshStep ==
  ASSUME Fresh, [Bundle!Next]_state
  PROVE  Fresh'
<1>0. /\ DOMAIN state = BundleFields /\ DOMAIN state.build = BuildFields
      /\ DOMAIN state.build.loaded = Bundle!Loads
  BY DEF Fresh
<1>1. CASE Bundle!Begin
  <2> DEFINE s == [state EXCEPT !.phase = "bundling",
                                !.baked = Bundle!Readable(state.composites).largest,
                                !.crdt = Bundle!Readable(state.composites)]
  <2>1. state' = Bundle!Started(s) /\ state.phase = "starting"
    BY <1>1 DEF Bundle!Begin
  <2>2. /\ DOMAIN s = BundleFields /\ s.phase = "bundling" /\ s.watch = state.watch
        /\ s.source = state.source /\ s.composites = state.composites
        /\ s.events = state.events /\ s.timer = state.timer
    BY <1>0 DEF BundleFields
  <2> HIDE DEF s
  <2> QED BY <2>1, <2>2, BuildStarts DEF Fresh, BundleFields, AllHeard
<1>2. CASE \E sound \in BOOLEAN :
             Bundle!SaveSource(sound) \/ \E n \in Numbers : Bundle!SaveComposites(sound, n)
  <2>1. /\ DOMAIN state' = BundleFields
        /\ state'.watch = state.watch /\ state'.phase = state.phase
        /\ state'.timer = state.timer /\ state'.joined = state.joined
        /\ state'.build = state.build /\ state'.output = state.output
        /\ state'.crdt = state.crdt
        /\ state'.events = IF Bundle!Watching THEN state.events + 1 ELSE state.events
    BY <1>0, <1>2, ZenonT(40) DEF Bundle!SaveSource, Bundle!SaveComposites, Bundle!Saved, BundleFields,
                      Bundle!Watching
  <2>2. CASE Bundle!Watching
    <3>1. state'.events # 0 /\ state'.events \in Nat
      BY <2>1, <2>2 DEF Fresh
    <3> QED BY <2>1, <3>1 DEF Fresh, BundleFields, AllHeard
  <2>3. CASE ~ Bundle!Watching
    BY <2>1, <2>3 DEF Fresh, BundleFields, AllHeard, Bundle!Watching
  <2> QED BY <2>2, <2>3
<1>3. CASE Bundle!SeeEvent
  <2>1. /\ DOMAIN state' = BundleFields
        /\ state'.watch = state.watch /\ state'.phase = state.phase
        /\ state'.source = state.source /\ state'.composites = state.composites
        /\ state'.joined = state.joined /\ state'.build = state.build
        /\ state'.output = state.output /\ state'.crdt = state.crdt /\ state'.timer = TRUE /\ state'.events = state.events - 1
        /\ state.events > 0
    BY <1>0, <1>3 DEF Bundle!SeeEvent, BundleFields
  <2>2. state.events - 1 \in Nat
    BY <2>1 DEF Fresh
  <2>3. ~ AllHeard'
    BY <2>1, Zenon DEF AllHeard
  <2> QED BY <2>1, <2>2, <2>3 DEF Fresh
<1>4. CASE Bundle!Rebuild
  <2>1. CASE ~ state.build.active
    <3> DEFINE s == [state EXCEPT !.timer = FALSE]
    <3>1. state' = Bundle!Started(s)
      BY <1>4, <2>1 DEF Bundle!Rebuild
    <3>2. /\ DOMAIN s = BundleFields /\ s.timer = FALSE
          /\ s.phase = state.phase /\ s.watch = state.watch
          /\ s.source = state.source /\ s.composites = state.composites
          /\ s.events = state.events
      BY <1>0 DEF BundleFields
    <3> HIDE DEF s
    <3>3. state.phase \in {"bundling", "watching"}
      BY <1>4 DEF Bundle!Rebuild, Bundle!Watching
    <3> QED BY <3>1, <3>2, <3>3, BuildStarts, ZenonT(40) DEF Fresh, BundleFields, AllHeard
  <2>2. CASE state.build.active
    <3>1. DOMAIN state' = BundleFields
        /\ state'.watch = state.watch /\ state'.phase = state.phase
        /\ state'.source = state.source /\ state'.composites = state.composites
        /\ state'.events = state.events /\ state'.build = state.build
        /\ state'.output = state.output /\ state'.crdt = state.crdt /\ state'.joined = TRUE /\ state'.timer = FALSE
      BY <1>0, <1>4, <2>2, ZenonT(40) DEF Bundle!Rebuild, BundleFields
    <3> QED BY <2>2, <3>1 DEF Fresh, BundleFields, AllHeard
  <2> QED BY <2>1, <2>2
<1>5. CASE Bundle!ReadSource
  <2>1. /\ DOMAIN state' = BundleFields
        /\ state'.watch = state.watch /\ state'.phase = state.phase
        /\ state'.source = state.source /\ state'.composites = state.composites
        /\ state'.events = state.events /\ state'.timer = state.timer
        /\ state'.joined = state.joined /\ state'.output = state.output
        /\ state'.crdt = state.crdt /\ DOMAIN state'.build = BuildFields
        /\ state'.build.active = state.build.active
        /\ state'.build.data = state.build.data
        /\ state'.build.loaded = state.build.loaded
        /\ state'.build.source = state.source /\ state.build.active
    BY <1>0, <1>5 DEF Bundle!ReadSource, BundleFields, BuildFields
  <2> QED BY <2>1 DEF Fresh, BundleFields, BuildFields, AllHeard, Composites
<1>6. ASSUME NEW l \in Bundle!Loads, Bundle!BeginLoad(l)
      PROVE  Fresh'
  <2>1. CASE state.build.data # Bundle!NotRead
    <3>1. /\ DOMAIN state' = BundleFields
        /\ state'.watch = state.watch /\ state'.phase = state.phase
        /\ state'.source = state.source /\ state'.composites = state.composites
        /\ state'.events = state.events /\ state'.timer = state.timer
        /\ state'.joined = state.joined /\ state'.output = state.output
        /\ state'.crdt = state.crdt /\ DOMAIN state'.build = BuildFields
          /\ state'.build.active = state.build.active
        /\ state'.build.source = state.build.source
        /\ state'.build.data = state.build.data
          /\ state'.build.loaded = [state.build.loaded EXCEPT ![l] = state.build.data]
          /\ state.build.active
      BY <1>0, <1>6, <2>1 DEF Bundle!BeginLoad, BundleFields, BuildFields
    <3> QED BY <2>1, <3>1 DEF Fresh, BundleFields, BuildFields, AllHeard, Composites
  <2>2. CASE state.build.data = Bundle!NotRead
    <3>1. /\ DOMAIN state' = BundleFields
        /\ state'.watch = state.watch /\ state'.phase = state.phase
        /\ state'.source = state.source /\ state'.composites = state.composites
        /\ state'.events = state.events /\ state'.timer = state.timer
        /\ state'.joined = state.joined /\ state'.output = state.output
        /\ state'.crdt = state.crdt /\ DOMAIN state'.build = BuildFields
          /\ state'.build.active = state.build.active
        /\ state'.build.source = state.build.source
        /\ state'.build.data = state.build.data
        /\ state'.build.loaded = state.build.loaded
      BY <1>0, <1>6, <2>2 DEF Bundle!BeginLoad, BundleFields, BuildFields
    <3> QED BY <3>1 DEF Fresh, BundleFields, BuildFields, AllHeard, Composites
  <2> QED BY <2>1, <2>2
<1>7. ASSUME NEW l \in Bundle!Loads, Bundle!EndLoad(l)
      PROVE  Fresh'
  <2>1. /\ DOMAIN state' = BundleFields
        /\ state'.watch = state.watch /\ state'.phase = state.phase
        /\ state'.source = state.source /\ state'.composites = state.composites
        /\ state'.events = state.events /\ state'.timer = state.timer
        /\ state'.joined = state.joined /\ state'.output = state.output /\ DOMAIN state'.build = BuildFields
        /\ state'.build.active = state.build.active /\ state'.build.source = state.build.source
        /\ state'.build.data = Composites /\ state'.crdt = Composites
        /\ state'.build.loaded = [state.build.loaded EXCEPT ![l] = Composites]
    BY <1>0, <1>7 DEF Bundle!EndLoad, BundleFields, BuildFields, Composites
  <2> QED BY <2>1 DEF Fresh, BundleFields, BuildFields, AllHeard, Composites
<1>8. CASE Bundle!EndBuild
  <2>1. /\ state.build.active /\ state.build.source # Bundle!NotRead
        /\ \A l \in Bundle!Loads : state.build.loaded[l] # Bundle!NotRead
    BY <1>8 DEF Bundle!EndBuild
  <2>2. /\ DOMAIN state' = BundleFields
        /\ state'.watch = state.watch /\ state'.source = state.source
        /\ state'.composites = state.composites /\ state'.events = state.events
        /\ state'.timer = state.timer /\ state'.joined = state.joined
        /\ state'.crdt = state.crdt /\ DOMAIN state'.build = BuildFields
        /\ state'.build.source = state.build.source
        /\ state'.build.data = state.build.data
        /\ state'.build.loaded = state.build.loaded
        /\ state'.build.active = FALSE
    BY <1>0, <1>8 DEF Bundle!EndBuild, BundleFields, BuildFields
  <2>3. state'.output = IF state.build.source.sound
                          THEN Bundle!Output(state.build.loaded, state.build.source)
                          ELSE state.output
    BY <1>0, <1>8 DEF Bundle!EndBuild, BundleFields
  <2>4. state'.phase = CASE state.watch -> "watching"
                   [] ~ state.watch /\ state.build.source.sound -> "checking"
                   [] OTHER -> "failed"
    BY <1>0, <1>8 DEF Bundle!EndBuild, BundleFields
  <2>5. /\ state.watch => state'.phase = "watching"
        /\ ~ state.watch => state'.phase \in {"checking", "failed"}
    BY <2>4 DEF Fresh
  <2>6. ASSUME state.build.source.sound
        PROVE  /\ state'.output.source = state.build.source
               /\ \A l \in Bundle!Loads : state'.output[l] = state.build.loaded[l]
    BY <2>3, <2>6 DEF Bundle!Output, Bundle!Loads
  <2>7. Bundle!Loads # {}
    BY DEF Bundle!Loads
  <2>8. AllHeard' <=> AllHeard
    BY <2>2 DEF AllHeard
  <2>9. Composites' = Composites
    BY <2>2 DEF Composites
  <2>10. ASSUME state.watch, AllHeard
         PROVE  /\ state'.crdt = Composites
                /\ state'.source.sound =>
                     /\ state'.output.source = state'.source
                     /\ \A l \in Bundle!Loads : state'.output[l] = Composites
    <3>1. /\ state.build.source = state.source /\ state.crdt = Composites
          /\ \A l \in Bundle!Loads : state.build.loaded[l] = Composites
      BY <2>1, <2>7, <2>10 DEF Fresh
    <3> QED BY <2>2, <2>6, <3>1
  <2> QED BY <2>2, <2>5, <2>8, <2>9, <2>10 DEF Fresh
<1>9. CASE Bundle!TypesChecked
  <2>1. DOMAIN state' = BundleFields
        /\ state'.watch = state.watch /\ state'.source = state.source
        /\ state'.composites = state.composites /\ state'.events = state.events
        /\ state'.timer = state.timer /\ state'.joined = state.joined
        /\ state'.build = state.build /\ state'.output = state.output
        /\ state'.crdt = state.crdt /\ state'.phase \in {"done", "failed"} /\ state.phase = "checking"
    BY <1>0, <1>9 DEF Bundle!TypesChecked, BundleFields
  <2> QED BY <2>1 DEF Fresh, BundleFields, AllHeard, Composites
<1>10. CASE UNCHANGED state
  BY <1>10 DEF Fresh, AllHeard, Composites
<1> QED
  BY <1>1, <1>2, <1>3, <1>4, <1>5, <1>6, <1>7, <1>8, <1>9, <1>10
  DEF Bundle!Next, Bundle!Work

LEMMA FreshIsSafe == Fresh => Bundle!StaleOnlyBehindActiveBuild
BY DEF Fresh, AllHeard, Composites, Bundle!StaleOnlyBehindActiveBuild, Bundle!Quiet
-----------------------------------------------------------------------------
PreviewFields == {"files", "events", "timer", "clients", "inbox", "loaded", "swallowed",
                  "answer", "changes"}
Event == [file : Preview!Files, event : {"change", "unlink"}]
EventsOf(file) == {e \in Event : e.file = file}

(* One of a set is in a sequence.                                          *)
OneIn(s, S) == \E i \in 1 .. Len(s) : s[i] \in S

(* The messages at which a client that is not of the old protocol loads a  *)
(* file again.                                                             *)
Reloads(file) == IF file = "model" THEN {"updateScene", "updateModel"} ELSE {"updateScene"}

(* A client is to hear of a file: by an event, the timer or a message.     *)
Coming(c, file) ==
  \/ OneIn(state.inbox[c], Reloads(file)) \/ OneIn(state.events, EventsOf(file))
  \/ file \in state.timer \/ (file = "model" /\ state.timer # {})

(* A model a client is told to remove is gone, or it hears of it again.    *)
RemovalHolds(c) ==
  \A i \in 1 .. Len(state.inbox[c]) : state.inbox[c][i] = "removeModel" =>
    \/ state.files["model"] = 0 \/ state.timer # {} \/ OneIn(state.events, EventsOf("model"))
    \/ \E j \in i + 1 .. Len(state.inbox[c]) : state.inbox[c][j] \in Reloads("model")

(* What a client of either protocol lacks is coming to it.                 *)
Follows(c) ==
  /\ state.clients[c] = "closed" => state.inbox[c] = <<>>
  /\ state.clients[c] = "open" /\ c \in Legacy =>
       \/ \A f \in Preview!Files : state.loaded[c][f] = state.files[f]
       \/ OneIn(state.inbox[c], {"legacy"}) \/ state.timer # {} \/ state.events # <<>>
  /\ state.clients[c] = "open" /\ c \notin Legacy =>
       /\ \A f \in Preview!Files : Preview!Has(c, f) \/ Coming(c, f)
       /\ RemovalHolds(c)

PreviewTypes ==
  /\ DOMAIN state = PreviewFields
  /\ state.timer \in {{}, {"model"}, {"other"}}
  /\ state.events \in Seq(Event)
  /\ DOMAIN state.files = Preview!Files
  /\ state.clients \in [Clients -> {"closed", "open"}]
  /\ state.inbox \in [Clients -> Seq(Preview!Kinds)]
  /\ DOMAIN state.loaded = Clients
  /\ \A c \in Clients : DOMAIN state.loaded[c] = Preview!Files

Followed == PreviewTypes /\ \A c \in Clients : Follows(c)

LEMMA FollowedAtFirst == Preview!Init => Followed
<1> SUFFICES ASSUME Preview!Init PROVE Followed
  OBVIOUS
<1>1. /\ DOMAIN state = PreviewFields /\ state.timer = {} /\ state.events = <<>>
      /\ state.files = [f \in Preview!Files |-> 1]
      /\ state.clients = [c \in Clients |-> "closed"] /\ state.inbox = [c \in Clients |-> <<>>]
      /\ state.loaded = [c \in Clients |-> [f \in Preview!Files |-> 0]]
  BY DEF Preview!Init, PreviewFields
<1> QED BY <1>1 DEF Followed, PreviewTypes, Follows

(* What is in a sequence that lost its head or grew at its end.            *)
LEMMA OneInTail ==
  ASSUME NEW T, NEW s \in Seq(T), s # <<>>, NEW S
  PROVE  /\ Tail(s) \in Seq(T) /\ Head(s) \in T
         /\ OneIn(s, S) <=> Head(s) \in S \/ OneIn(Tail(s), S)
<1>1. /\ Tail(s) \in Seq(T) /\ Head(s) = s[1] /\ Head(s) \in T
      /\ Len(s) \in Nat /\ Len(s) >= 1 /\ Len(Tail(s)) = Len(s) - 1
      /\ \A i \in 1 .. Len(s) - 1 : Tail(s)[i] = s[i + 1]
  OBVIOUS
<1> DEFINE n == Len(s)
           t == Tail(s)
<1>2. /\ n \in Nat /\ n >= 1 /\ Len(t) = n - 1 /\ \A i \in 1 .. n - 1 : t[i] = s[i + 1]
  BY <1>1
<1> HIDE DEF n, t
<1>3. ASSUME NEW i \in 1 .. n, s[i] \in S
      PROVE  s[1] \in S \/ \E j \in 1 .. n - 1 : t[j] \in S
  <2>1. i = 1 \/ (i - 1 \in 1 .. n - 1 /\ t[i - 1] = s[i])
    BY <1>2
  <2> QED BY <1>3, <2>1
<1>4. ASSUME NEW j \in 1 .. n - 1, t[j] \in S
      PROVE  j + 1 \in 1 .. n /\ s[j + 1] \in S
  BY <1>2, <1>4
<1>5. 1 \in 1 .. n
  BY <1>2
<1> QED BY <1>1, <1>2, <1>3, <1>4, <1>5 DEF OneIn, n, t

LEMMA Joined ==
  ASSUME NEW T, NEW s \in Seq(T), NEW t \in Seq(T)
  PROVE  /\ s \o t \in Seq(T) /\ Len(s) \in Nat /\ Len(t) \in Nat
         /\ Len(s \o t) = Len(s) + Len(t)
         /\ \A i \in 1 .. Len(s) + Len(t) :
              (s \o t)[i] = IF i <= Len(s) THEN s[i] ELSE t[i - Len(s)]
OBVIOUS

LEMMA OneInConcat ==
  ASSUME NEW T, NEW s \in Seq(T), NEW t \in Seq(T), NEW S
  PROVE  /\ s \o t \in Seq(T)
         /\ OneIn(s \o t, S) <=> OneIn(s, S) \/ OneIn(t, S)
<1>1. /\ s \o t \in Seq(T) /\ Len(s) \in Nat /\ Len(t) \in Nat
      /\ Len(s \o t) = Len(s) + Len(t)
      /\ \A i \in 1 .. Len(s) + Len(t) :
           (s \o t)[i] = IF i <= Len(s) THEN s[i] ELSE t[i - Len(s)]
  BY Joined
<1> DEFINE both == s \o t
           m == Len(s)
           n == Len(t)
<1>2. /\ m \in Nat /\ n \in Nat /\ Len(both) = m + n
      /\ \A i \in 1 .. m + n : both[i] = IF i <= m THEN s[i] ELSE t[i - m]
  BY <1>1
<1> HIDE DEF both, m, n
<1>3. ASSUME NEW i \in 1 .. m + n, both[i] \in S
      PROVE  (\E j \in 1 .. m : s[j] \in S) \/ (\E j \in 1 .. n : t[j] \in S)
  <2>1. CASE i <= m
    <3>1. i \in 1 .. m /\ s[i] \in S
      BY <1>2, <1>3, <2>1
    <3> QED BY <3>1
  <2>2. CASE ~ (i <= m)
    <3>1. i - m \in 1 .. n /\ t[i - m] \in S
      BY <1>2, <1>3, <2>2
    <3> QED BY <3>1
  <2> QED BY <2>1, <2>2
<1>4. ASSUME NEW j \in 1 .. m, s[j] \in S
      PROVE  j \in 1 .. m + n /\ both[j] \in S
  BY <1>2, <1>4
<1>5. ASSUME NEW j \in 1 .. n, t[j] \in S
      PROVE  m + j \in 1 .. m + n /\ both[m + j] \in S
  BY <1>2, <1>5
<1> QED BY <1>1, <1>2, <1>3, <1>4, <1>5 DEF OneIn, both, m, n

LEMMA AfterConcat ==
  ASSUME NEW T, NEW s \in Seq(T), NEW t \in Seq(T), Len(t) = 2
  PROVE  /\ Len(s) \in Nat /\ Len(s \o t) = Len(s) + 2
         /\ (s \o t)[Len(s) + 1] = t[1] /\ (s \o t)[Len(s) + 2] = t[2]
<1>1. /\ s \o t \in Seq(T) /\ Len(s) \in Nat /\ Len(t) \in Nat
      /\ Len(s \o t) = Len(s) + Len(t)
      /\ \A i \in 1 .. Len(s) + Len(t) :
           (s \o t)[i] = IF i <= Len(s) THEN s[i] ELSE t[i - Len(s)]
  BY Joined
<1> DEFINE n == Len(s)
           both == s \o t
<1>2. n \in Nat /\ Len(both) = n + Len(t) /\ Len(t) = 2
      /\ \A i \in 1 .. n + Len(t) : both[i] = IF i <= n THEN s[i] ELSE t[i - n]
  BY <1>1
<1> HIDE DEF n, both
<1>3. n + 1 \in 1 .. n + 2 /\ n + 2 \in 1 .. n + 2 /\ n + 1 - n = 1 /\ n + 2 - n = 2
      /\ ~ (n + 1 <= n) /\ ~ (n + 2 <= n)
  BY <1>2
<1>4. both[n + 1] = t[1] /\ both[n + 2] = t[2]
  BY <1>2, <1>3
<1> QED BY <1>2, <1>4 DEF n, both

LEMMA OneInAppend ==
  ASSUME NEW T, NEW s \in Seq(T), NEW x \in T, NEW S
  PROVE  /\ Append(s, x) \in Seq(T) /\ Append(s, x) # <<>>
         /\ OneIn(Append(s, x), S) <=> OneIn(s, S) \/ x \in S
<1>1. <<x>> \in Seq(T) /\ Append(s, x) = s \o <<x>> /\ Append(s, x) # <<>>
  OBVIOUS
<1>2. OneIn(<<x>>, S) <=> x \in S
  <2>1. Len(<<x>>) = 1 /\ <<x>>[1] = x
    OBVIOUS
  <2> QED BY <2>1 DEF OneIn
<1> DEFINE t == <<x>>
<1> HIDE DEF t
<1>3. t \in Seq(T) => s \o t \in Seq(T) /\ (OneIn(s \o t, S) <=> OneIn(s, S) \/ OneIn(t, S))
  BY OneInConcat
<1> QED BY <1>1, <1>2, <1>3 DEF t

LEMMA NothingInEmpty == \A S : ~ OneIn(<<>>, S)
BY DEF OneIn

(* A file changes, or is removed: the watcher will tell.                   *)
LEMMA FollowedWhenChanged ==
  ASSUME Followed, NEW file \in Preview!Files, NEW version, NEW event \in {"change", "unlink"},
         Preview!Changed(file, version, event), version = 0 \/ event = "change"
  PROVE  Followed'
<1> DEFINE e == [file |-> file, event |-> event]
<1>1. /\ DOMAIN state' = PreviewFields /\ state'.files = [state.files EXCEPT ![file] = version]
      /\ state'.events = Append(state.events, e) /\ state'.timer = state.timer
      /\ state'.clients = state.clients /\ state'.inbox = state.inbox
      /\ state'.loaded = state.loaded /\ state'.swallowed = state.swallowed
  BY DEF Preview!Changed, Followed, PreviewTypes, PreviewFields
<1>2. e \in Event /\ e \in EventsOf(file) /\ state.events \in Seq(Event)
  BY DEF Event, EventsOf, Followed, PreviewTypes
<1> HIDE DEF e
<1>3. /\ state'.events \in Seq(Event) /\ state'.events # <<>>
      /\ \A S : OneIn(state.events, S) => OneIn(state'.events, S)
      /\ OneIn(state'.events, EventsOf(file))
  BY <1>1, <1>2, OneInAppend
<1>4. PreviewTypes'
  BY <1>1, <1>3 DEF Followed, PreviewTypes
<1>5. \A f \in Preview!Files : f # file => state'.files[f] = state.files[f]
  BY <1>1 DEF Followed, PreviewTypes
<1>6. ASSUME NEW c \in Clients
      PROVE  Follows(c)'
  <2>1. Follows(c)
    BY DEF Followed
  <2>2. ASSUME NEW f \in Preview!Files, Preview!Has(c, f) \/ Coming(c, f)
        PROVE  (Preview!Has(c, f) \/ Coming(c, f))'
    <3>1. CASE f = file
      BY <1>3, <3>1 DEF Coming
    <3>2. CASE f # file
      BY <1>1, <1>3, <1>5, <2>2, <3>2 DEF Coming, Preview!Has
    <3> QED BY <3>1, <3>2
  <2>3. RemovalHolds(c) => RemovalHolds(c)'
    <3>1. CASE file = "model"
      BY <1>3, <3>1 DEF RemovalHolds
    <3>2. CASE file # "model"
      BY <1>1, <1>3, <1>5, <3>2 DEF RemovalHolds, Preview!Files
    <3> QED BY <3>1, <3>2
  <2> QED BY <1>1, <1>3, <2>1, <2>2, <2>3 DEF Follows
<1> QED BY <1>4, <1>6 DEF Followed

(* The messages sent at once to all that are connected.                    *)
LEMMA SentToAll ==
  ASSUME PreviewTypes, NEW messages \in Seq(Preview!Kinds)
  PROVE  LET sent == Preview!Sent(state, messages) IN
         /\ sent \in [Clients -> Seq(Preview!Kinds)]
         /\ \A c \in Clients :
              /\ state.clients[c] = "open" => sent[c] = state.inbox[c] \o messages
              /\ state.clients[c] # "open" => sent[c] = state.inbox[c]
<1>1. \A c \in Clients : state.inbox[c] \in Seq(Preview!Kinds)
  BY DEF PreviewTypes
<1>2. \A c \in Clients : state.inbox[c] \o messages \in Seq(Preview!Kinds)
  BY <1>1
<1> QED BY <1>1, <1>2 DEF Preview!Sent

LEMMA FollowedWhenSeen ==
  ASSUME Followed, Preview!SeeEvent
  PROVE  Followed'
<1> DEFINE e == Head(state.events)
           inbox == state'.inbox
<1>1. /\ DOMAIN state' = PreviewFields /\ state'.files = state.files
      /\ state.events # <<>> /\ state'.events = Tail(state.events) /\ state'.timer = {e.file}
      /\ state'.clients = state.clients /\ state'.loaded = state.loaded
      /\ inbox = IF e.event = "unlink" /\ Preview!isGLTFModel(e.file)
                   THEN Preview!Sent(state, <<"removeModel">>) ELSE state.inbox
      /\ state'.swallowed = IF Preview!isGLTFModel(e.file)
                              THEN state.swallowed \cup (state.timer \ {e.file})
                              ELSE state.swallowed
  BY DEF Preview!SeeEvent, Followed, PreviewTypes, PreviewFields
<1>2. /\ PreviewTypes /\ state.events \in Seq(Event)
  BY DEF Followed, PreviewTypes
<1>3. /\ Tail(state.events) \in Seq(Event) /\ e \in Event
      /\ \A S : OneIn(state.events, S) <=> e \in S \/ OneIn(Tail(state.events), S)
  BY <1>1, <1>2, OneInTail
<1>4. e.file \in Preview!Files
  BY <1>3 DEF Event
<1> HIDE DEF e, inbox
<1>5. <<"removeModel">> \in Seq(Preview!Kinds)
  BY DEF Preview!Kinds
<1>6. /\ inbox \in [Clients -> Seq(Preview!Kinds)]
      /\ \A c \in Clients :
           /\ \A S : OneIn(state.inbox[c], S) => OneIn(inbox[c], S)
           /\ state.clients[c] # "open" => inbox[c] = state.inbox[c]
  <2>1. CASE inbox = state.inbox
    BY <1>2, <2>1 DEF PreviewTypes
  <2>2. CASE inbox = Preview!Sent(state, <<"removeModel">>)
    <3> DEFINE messages == <<"removeModel">>
    <3>1. messages \in Seq(Preview!Kinds) /\ inbox = Preview!Sent(state, messages)
      BY <1>5, <2>2
    <3> HIDE DEF messages
    <3>2. /\ inbox \in [Clients -> Seq(Preview!Kinds)]
          /\ \A c \in Clients :
              /\ state.clients[c] = "open" => inbox[c] = state.inbox[c] \o messages
              /\ state.clients[c] # "open" => inbox[c] = state.inbox[c]
      BY <1>2, <3>1, SentToAll
    <3>3. ASSUME NEW c \in Clients, NEW S, OneIn(state.inbox[c], S)
          PROVE  OneIn(inbox[c], S)
      <4>1. state.inbox[c] \in Seq(Preview!Kinds)
        BY <1>2 DEF PreviewTypes
      <4>2. OneIn(state.inbox[c] \o messages, S)
        BY <3>1, <3>3, <4>1, OneInConcat
      <4> QED BY <3>2, <3>3, <4>2
    <3> QED BY <3>2, <3>3
  <2> QED BY <1>1, <2>1, <2>2
<1>7. PreviewTypes'
  BY <1>1, <1>2, <1>3, <1>4, <1>6 DEF PreviewTypes, inbox, Preview!Files
<1>8. ASSUME NEW c \in Clients
      PROVE  Follows(c)'
  <2>1. Follows(c)
    BY DEF Followed
  <2>2. ASSUME NEW f \in Preview!Files, c \notin Legacy, Preview!Has(c, f) \/ Coming(c, f)
        PROVE  (Preview!Has(c, f) \/ Coming(c, f))'
    <3>1. CASE f = e.file
      BY <1>1, <3>1 DEF Coming
    <3>2. CASE f = "model"
      BY <1>1, <3>2 DEF Coming
    <3>3. CASE f = "other" /\ e.file = "model"
      <4>1. f \in state.timer => f \in state'.swallowed
        BY <1>1, <3>3 DEF Preview!isGLTFModel
      <4>2. OneIn(state.events, EventsOf(f)) => OneIn(state'.events, EventsOf(f))
        <5>1. e \notin EventsOf(f)
          BY <3>3 DEF EventsOf
        <5> QED BY <1>1, <1>3, <5>1
      <4>3. state.swallowed \subseteq state'.swallowed
        BY <1>1
      <4>4. Preview!Has(c, f) => Preview!Has(c, f)'
        BY <1>1, <4>3 DEF Preview!Has
      <4>5. f \in state.timer => Preview!Has(c, f)'
        BY <2>2, <4>1 DEF Preview!Has
      <4> QED BY <1>6, <2>2, <3>3, <4>2, <4>4, <4>5 DEF Coming, inbox
    <3> QED BY <1>4, <3>1, <3>2, <3>3 DEF Preview!Files
  <2>3. RemovalHolds(c)'
    BY <1>1 DEF RemovalHolds
  <2>4. state'.timer # {}
    BY <1>1
  <2> QED BY <1>1, <1>6, <2>1, <2>2, <2>3, <2>4 DEF Follows, inbox
<1> QED BY <1>7, <1>8 DEF Followed

LEMMA FollowedWhenNotified ==
  ASSUME Followed, Preview!Notify
  PROVE  Followed'
<1>1. PICK file \in state.timer :
        state' = [state EXCEPT
                  !.timer = {},
                  !.swallowed = IF Preview!isGLTFModel(file) THEN @ ELSE {},
                  !.inbox = Preview!Sent(state, Preview!Messages(file))]
  BY DEF Preview!Notify
<1> DEFINE first == IF file = "model" THEN "updateModel" ELSE "updateScene"
           messages == <<first, "legacy">>
           inbox == state'.inbox
<1>2. /\ DOMAIN state' = PreviewFields /\ state'.files = state.files
      /\ state'.events = state.events /\ state'.timer = {}
      /\ state'.clients = state.clients /\ state'.loaded = state.loaded
      /\ inbox = Preview!Sent(state, messages)
      /\ file = "model" => state'.swallowed = state.swallowed
  BY <1>1 DEF Followed, PreviewTypes, PreviewFields, Preview!Messages, Preview!isGLTFModel
<1>3. PreviewTypes /\ state.timer = {file} /\ file \in Preview!Files
  BY DEF Followed, PreviewTypes, Preview!Files
<1>4. /\ messages \in Seq(Preview!Kinds) /\ Len(messages) = 2
      /\ messages[1] = first /\ messages[2] = "legacy"
  BY DEF Preview!Kinds
<1> HIDE DEF messages, inbox
<1>5. /\ inbox \in [Clients -> Seq(Preview!Kinds)]
      /\ \A c \in Clients :
          /\ state.clients[c] = "open" => inbox[c] = state.inbox[c] \o messages
          /\ state.clients[c] # "open" => inbox[c] = state.inbox[c]
  BY <1>2, <1>3, <1>4, SentToAll
<1>6. PreviewTypes'
  BY <1>2, <1>3, <1>5 DEF PreviewTypes, inbox
<1>7. ASSUME NEW c \in Clients
      PROVE  Follows(c)'
  <2>1. Follows(c) /\ state.inbox[c] \in Seq(Preview!Kinds) /\ state.clients[c] \in {"closed", "open"}
    BY <1>3 DEF Followed, PreviewTypes
  <2>2. CASE state.clients[c] = "closed"
    BY <1>2, <1>5, <2>1, <2>2 DEF Follows, inbox
  <2>3. CASE state.clients[c] = "open"
    <3> DEFINE old == state.inbox[c]
               new == inbox[c]
    <3>1. new = old \o messages
      BY <1>5, <2>3
    <3>2. \A S : OneIn(new, S) <=> OneIn(old, S) \/ OneIn(messages, S)
      <4> HIDE DEF old, new
      <4> QED BY <1>4, <2>1, <3>1, OneInConcat DEF old
    <3>3. OneIn(messages, {"legacy"}) /\ OneIn(messages, Reloads("model"))
          /\ OneIn(messages, Reloads(file))
      BY <1>4 DEF OneIn, Reloads
    <3>4. ASSUME NEW f \in Preview!Files, Preview!Has(c, f) \/ Coming(c, f)
          PROVE  (Preview!Has(c, f) \/ Coming(c, f))'
      <4>1. CASE f = file \/ f = "model"
        BY <3>2, <3>3, <4>1 DEF Coming, inbox
      <4>2. CASE f # file /\ f # "model" /\ file = "model"
        <5>1. Preview!Has(c, f) => Preview!Has(c, f)'
          BY <1>2, <4>2 DEF Preview!Has
        <5> QED BY <1>2, <1>3, <3>2, <3>4, <4>2, <5>1 DEF Coming, inbox
      <4> QED BY <1>3, <4>1, <4>2 DEF Preview!Files
    <3>5. RemovalHolds(c)'
      <4>1. /\ Len(old) \in Nat /\ Len(new) = Len(old) + 2
            /\ new[Len(old) + 1] = first /\ new[Len(old) + 2] = "legacy"
        <5> HIDE DEF old, new, first
        <5>1. old \in Seq(Preview!Kinds)
          BY <2>1 DEF old
        <5> QED BY <1>4, <3>1, <5>1, AfterConcat
      <4>2. ASSUME NEW i \in 1 .. Len(new), new[i] = "removeModel"
            PROVE  \E j \in i + 1 .. Len(new) : new[j] \in Reloads("model")
        <5> DEFINE n == Len(old)
                   s == new
        <5>1. n \in Nat /\ Len(s) = n + 2 /\ s[n + 1] = first /\ s[n + 2] = "legacy"
              /\ i \in 1 .. Len(s) /\ s[i] = "removeModel"
          BY <4>1, <4>2
        <5> HIDE DEF n, s
        <5>2. i # n + 1 /\ i # n + 2
          BY <5>1
        <5>3. n + 1 \in i + 1 .. Len(s)
          BY <5>1, <5>2
        <5>4. s[n + 1] \in Reloads("model")
          BY <5>1 DEF Reloads
        <5> QED BY <5>3, <5>4 DEF s
      <4> QED BY <4>2 DEF RemovalHolds, inbox
    <3> QED BY <1>2, <2>1, <2>3, <3>2, <3>3, <3>4, <3>5 DEF Follows, inbox
  <2> QED BY <2>1, <2>2, <2>3
<1> QED BY <1>6, <1>7 DEF Followed

LEMMA FollowedWhenOpened ==
  ASSUME Followed, NEW d \in Clients, Preview!Open(d) \/ Preview!Close(d)
  PROVE  Followed'
<1>1. PreviewTypes
  BY DEF Followed
<1>2. /\ DOMAIN state' = PreviewFields /\ state'.files = state.files
      /\ state'.events = state.events /\ state'.timer = state.timer
      /\ state'.swallowed = state.swallowed
  BY <1>1 DEF PreviewTypes, PreviewFields, Preview!Open, Preview!Close
<1>3. \/ /\ Preview!Open(d) /\ state.inbox[d] = <<>> /\ state'.inbox = state.inbox
         /\ state'.clients = [state.clients EXCEPT ![d] = "open"]
         /\ state'.loaded = [state.loaded EXCEPT ![d] = state.files]
      \/ /\ Preview!Close(d) /\ state'.inbox = [state.inbox EXCEPT ![d] = <<>>]
         /\ state'.clients = [state.clients EXCEPT ![d] = "closed"]
         /\ state'.loaded = state.loaded
  BY <1>1 DEF Followed, Follows, PreviewTypes, PreviewFields, Preview!Open, Preview!Close
<1>4. \A c \in Clients \ {d} :
        /\ state'.clients[c] = state.clients[c] /\ state'.inbox[c] = state.inbox[c]
        /\ state'.loaded[c] = state.loaded[c]
  BY <1>1, <1>3 DEF PreviewTypes
<1>5. PreviewTypes'
  <2>1. state'.clients \in [Clients -> {"closed", "open"}]
    BY <1>1, <1>3 DEF PreviewTypes
  <2>2. state'.inbox \in [Clients -> Seq(Preview!Kinds)]
    <3> DEFINE empty == <<>>
               old == state.inbox
               new == state'.inbox
    <3>1. empty \in Seq(Preview!Kinds) /\ old \in [Clients -> Seq(Preview!Kinds)]
      BY <1>1 DEF PreviewTypes
    <3>2. new = old \/ new = [old EXCEPT ![d] = empty]
      BY <1>3
    <3> HIDE DEF empty, old, new
    <3> QED BY <3>1, <3>2 DEF new
  <2>3. DOMAIN state'.loaded = Clients
    BY <1>1, <1>3 DEF PreviewTypes
  <2>4. \A c \in Clients : DOMAIN state'.loaded[c] = Preview!Files
    BY <1>1, <1>3 DEF PreviewTypes
  <2> QED BY <1>1, <1>2, <2>1, <2>2, <2>3, <2>4 DEF PreviewTypes
<1>6. ASSUME NEW c \in Clients \ {d}
      PROVE  Follows(c)'
  <2>1. Follows(c)
    BY DEF Followed
  <2> QED
    BY <1>2, <1>4, <2>1 DEF Follows, Coming, RemovalHolds, Preview!Has
<1>7. Follows(d)'
  <2>1. CASE Preview!Open(d)
    <3>1. state'.loaded[d] = state'.files /\ state'.inbox[d] = <<>> /\ state'.clients[d] = "open"
      BY <1>1, <1>2, <1>3, <2>1 DEF PreviewTypes, Preview!Open, Preview!Close
    <3> QED BY <3>1 DEF Follows, RemovalHolds, Preview!Has
  <2>2. CASE Preview!Close(d)
    <3>1. state'.inbox[d] = <<>> /\ state'.clients[d] = "closed"
      BY <1>1, <1>3, <2>2 DEF PreviewTypes, Preview!Open, Preview!Close
    <3> QED BY <3>1 DEF Follows
  <2> QED BY <2>1, <2>2
<1> QED BY <1>5, <1>6, <1>7 DEF Followed

LEMMA FollowedWhenReceived ==
  ASSUME Followed, NEW d \in Clients, Preview!Receive(d)
  PROVE  Followed'
<1> DEFINE old     == state.inbox[d]
           message == Head(old)
           loaded  == state.loaded[d]
<1>1. PreviewTypes /\ Follows(d) /\ old # <<>> /\ old \in Seq(Preview!Kinds)
  BY DEF Followed, PreviewTypes, Preview!Receive
<1>2. /\ DOMAIN state' = PreviewFields /\ state'.files = state.files
      /\ state'.events = state.events /\ state'.timer = state.timer
      /\ state'.swallowed = state.swallowed /\ state'.clients = state.clients
      /\ state'.inbox = [state.inbox EXCEPT ![d] = Tail(old)]
  BY <1>1 DEF PreviewTypes, PreviewFields, Preview!Receive
<1>3. state'.loaded = [state.loaded EXCEPT ![d] =
          CASE d \in Legacy /\ message = "legacy" -> state.files
            [] d \notin Legacy /\ message = "updateScene" -> state.files
            [] d \notin Legacy /\ message = "updateModel" ->
                 [loaded EXCEPT !["model"] = state.files["model"]]
            [] d \notin Legacy /\ message = "removeModel" ->
                 [loaded EXCEPT !["model"] = 0]
            [] OTHER -> loaded]
  BY <1>1 DEF PreviewTypes, PreviewFields, Preview!Receive
<1> DEFINE more == state'.loaded[d]
           rest == state'.inbox[d]
<1>4. /\ state'.inbox[d] = Tail(old)
      /\ \A c \in Clients \ {d} : /\ state'.inbox[c] = state.inbox[c]
                                  /\ state'.loaded[c] = state.loaded[c]
      /\ DOMAIN state'.loaded = Clients
  BY <1>1, <1>2, <1>3 DEF PreviewTypes
<1>5. more = CASE d \in Legacy /\ message = "legacy" -> state.files
               [] d \notin Legacy /\ message = "updateScene" -> state.files
               [] d \notin Legacy /\ message = "updateModel" ->
                    [loaded EXCEPT !["model"] = state.files["model"]]
               [] d \notin Legacy /\ message = "removeModel" ->
                    [loaded EXCEPT !["model"] = 0]
               [] OTHER -> loaded
  BY <1>1, <1>3 DEF PreviewTypes
<1>6. DOMAIN loaded = Preview!Files /\ DOMAIN state.files = Preview!Files
  BY <1>1 DEF PreviewTypes
<1> HIDE DEF old, message, loaded, more, rest
<1>7. /\ d \in Legacy /\ message = "legacy" => more = state.files
      /\ d \in Legacy /\ message # "legacy" => more = loaded
      /\ d \notin Legacy /\ message = "updateScene" => more = state.files
      /\ d \notin Legacy /\ message = "updateModel" =>
           more = [loaded EXCEPT !["model"] = state.files["model"]]
      /\ d \notin Legacy /\ message = "removeModel" => more = [loaded EXCEPT !["model"] = 0]
      /\ d \notin Legacy /\ message \notin {"updateScene", "updateModel", "removeModel"} =>
           more = loaded
  BY <1>5
<1>8. DOMAIN more = Preview!Files
  <2>1. DOMAIN [loaded EXCEPT !["model"] = state.files["model"]] = Preview!Files
    BY <1>6
  <2>2. DOMAIN [loaded EXCEPT !["model"] = 0] = Preview!Files
    BY <1>6
  <2> QED BY <1>6, <1>7, <2>1, <2>2
<1>9. /\ rest = Tail(old) /\ rest \in Seq(Preview!Kinds) /\ message \in Preview!Kinds
      /\ \A S : OneIn(old, S) <=> message \in S \/ OneIn(rest, S)
  <2>1. rest = Tail(old)
    BY <1>4 DEF rest
  <2> QED BY <1>1, <2>1, OneInTail DEF message
<1>10. PreviewTypes'
  <2>1. state'.inbox \in [Clients -> Seq(Preview!Kinds)]
    <3>1. state'.inbox = [state.inbox EXCEPT ![d] = rest]
      BY <1>2, <1>9
    <3> QED BY <1>1, <1>9, <3>1 DEF PreviewTypes
  <2>2. \A c \in Clients : DOMAIN state'.loaded[c] = Preview!Files
    BY <1>1, <1>4, <1>8 DEF PreviewTypes, more
  <2> QED BY <1>1, <1>2, <1>4, <2>1, <2>2 DEF PreviewTypes
<1>11. ASSUME NEW c \in Clients \ {d}
       PROVE  Follows(c)'
  <2>1. Follows(c)
    BY DEF Followed
  <2> QED
    BY <1>2, <1>4, <2>1 DEF Follows, Coming, RemovalHolds, Preview!Has
<1>12. state.clients[d] = "open"
  BY <1>1 DEF Follows, PreviewTypes, old
<1>13. CASE d \in Legacy
  <2>1. \/ \A f \in Preview!Files : loaded[f] = state.files[f]
        \/ OneIn(old, {"legacy"}) \/ state.timer # {} \/ state.events # <<>>
    BY <1>1, <1>12, <1>13 DEF Follows, old, loaded
  <2>2. \/ \A f \in Preview!Files : more[f] = state.files[f]
        \/ OneIn(rest, {"legacy"}) \/ state.timer # {} \/ state.events # <<>>
    BY <1>7, <1>9, <1>13, <2>1
  <2>3. Follows(d)'
    BY <1>2, <1>12, <1>13, <2>2 DEF Follows, more, rest
  <2> QED BY <1>10, <1>11, <2>3 DEF Followed
<1>14. CASE d \notin Legacy
  <2>1. /\ \A f \in Preview!Files : Preview!Has(d, f) \/ Coming(d, f)
        /\ RemovalHolds(d)
    BY <1>1, <1>12, <1>14 DEF Follows
  <2>2. /\ Len(old) \in Nat /\ Len(old) >= 1 /\ Len(rest) = Len(old) - 1 /\ message = old[1]
        /\ \A i \in 1 .. Len(old) - 1 : rest[i] = old[i + 1]
    BY <1>1, <1>9 DEF message
  <2> DEFINE coming == \/ state.files["model"] = 0 \/ state.timer # {}
                       \/ OneIn(state.events, EventsOf("model"))
  <2>3. \A i \in 1 .. Len(old) : old[i] = "removeModel" =>
          coming \/ \E j \in i + 1 .. Len(old) : old[j] \in Reloads("model")
    BY <2>1 DEF RemovalHolds, old
  <2> HIDE DEF coming
  <2>4. RemovalHolds(d)'
    <3>1. ASSUME NEW i \in 1 .. Len(rest), rest[i] = "removeModel"
          PROVE  coming \/ \E j \in i + 1 .. Len(rest) : rest[j] \in Reloads("model")
      <4>1. i + 1 \in 1 .. Len(old) /\ old[i + 1] = "removeModel"
        BY <2>2, <3>1
      <4>2. ASSUME NEW j \in i + 1 + 1 .. Len(old), old[j] \in Reloads("model")
            PROVE  j - 1 \in i + 1 .. Len(rest) /\ rest[j - 1] \in Reloads("model")
        <5> DEFINE n == Len(old)
                   k == j - 1
        <5>1. /\ n \in Nat /\ Len(rest) = n - 1 /\ \A m \in 1 .. n - 1 : rest[m] = old[m + 1]
              /\ i \in 1 .. n - 1 /\ j \in i + 1 + 1 .. n
          BY <2>2, <3>1, <4>2
        <5> HIDE DEF n
        <5>2. k \in 1 .. n - 1 /\ k + 1 = j /\ k \in i + 1 .. n - 1
          BY <5>1
        <5>3. rest[k] = old[j]
          BY <5>1, <5>2
        <5> QED BY <4>2, <5>1, <5>2, <5>3
      <4> QED BY <2>3, <4>1, <4>2
    <3> QED BY <1>2, <3>1 DEF RemovalHolds, coming, rest
  <2>5. CASE message = "removeModel" /\ ~ coming
    <3>1. \E j \in 2 .. Len(old) : old[j] \in Reloads("model")
      <4>1. 1 \in 1 .. Len(old) /\ old[1] = "removeModel"
        BY <2>2, <2>5
      <4>2. \E j \in 1 + 1 .. Len(old) : old[j] \in Reloads("model")
        BY <2>3, <2>5, <4>1
      <4> QED BY <4>2
    <3>2. ASSUME NEW j \in 2 .. Len(old), old[j] \in Reloads("model")
          PROVE  j - 1 \in 1 .. Len(rest) /\ rest[j - 1] \in Reloads("model")
      BY <2>2, <3>2
    <3> QED
      <4>1. OneIn(rest, Reloads("model"))
        BY <3>1, <3>2 DEF OneIn
      <4>2. Coming(d, "model")'
        BY <4>1 DEF Coming, rest
      <4>3. Preview!Has(d, "other") => Preview!Has(d, "other")'
        BY <1>2, <1>6, <1>7, <1>14, <2>5 DEF Preview!Has, more, loaded, Preview!Files
      <4>4. Coming(d, "other") => Coming(d, "other")'
        BY <1>2, <1>9, <2>5 DEF Coming, rest, old, Reloads
      <4>5. \A f \in Preview!Files : (Preview!Has(d, f) \/ Coming(d, f))'
        BY <2>1, <4>2, <4>3, <4>4 DEF Preview!Files
      <4>6. Follows(d)'
        BY <1>2, <1>12, <1>14, <2>4, <4>5 DEF Follows
      <4> QED BY <1>10, <1>11, <4>6 DEF Followed
  <2>6. CASE ~ (message = "removeModel" /\ ~ coming)
    <3>1. ASSUME NEW f \in Preview!Files
          PROVE  (Preview!Has(d, f) \/ Coming(d, f))'
      <4>1. CASE message = "updateScene"
        BY <1>2, <1>7, <1>14, <4>1 DEF Preview!Has, more
      <4>2. CASE message = "updateModel"
        <5>1. CASE f = "model"
          BY <1>2, <1>6, <1>7, <1>14, <4>2, <5>1 DEF Preview!Has, more
        <5>2. CASE f = "other"
          <6>1. more[f] = loaded[f]
            BY <1>6, <1>7, <1>14, <4>2, <5>2
          <6>2. OneIn(old, Reloads(f)) => OneIn(rest, Reloads(f))
            BY <1>9, <4>2, <5>2 DEF Reloads
          <6> QED BY <1>2, <2>1, <6>1, <6>2 DEF Preview!Has, Coming, more, loaded, old, rest
        <5> QED BY <5>1, <5>2 DEF Preview!Files
      <4>3. CASE message = "removeModel"
        <5>1. CASE f = "model"
          <6>1. more[f] = 0
            BY <1>6, <1>7, <1>14, <4>3, <5>1
          <6> QED BY <1>2, <2>6, <4>3, <5>1, <6>1 DEF Preview!Has, Coming, more, coming
        <5>2. CASE f = "other"
          <6>1. more[f] = loaded[f]
            BY <1>6, <1>7, <1>14, <4>3, <5>2
          <6>2. OneIn(old, Reloads(f)) => OneIn(rest, Reloads(f))
            BY <1>9, <4>3, <5>2 DEF Reloads
          <6> QED BY <1>2, <2>1, <6>1, <6>2 DEF Preview!Has, Coming, more, loaded, old, rest
        <5> QED BY <5>1, <5>2 DEF Preview!Files
      <4>4. CASE message \notin {"updateScene", "updateModel", "removeModel"}
        <5>1. more = loaded
          BY <1>7, <1>14, <4>4
        <5>2. OneIn(old, Reloads(f)) => OneIn(rest, Reloads(f))
          BY <1>9, <4>4 DEF Reloads
        <5> QED BY <1>2, <2>1, <5>1, <5>2 DEF Preview!Has, Coming, more, loaded, old, rest
      <4> QED BY <4>1, <4>2, <4>3, <4>4
    <3>2. Follows(d)'
      BY <1>2, <1>12, <1>14, <2>4, <3>1 DEF Follows
    <3> QED BY <1>10, <1>11, <3>2 DEF Followed
  <2> QED BY <2>5, <2>6
<1> QED BY <1>13, <1>14

LEMMA FollowedStep ==
  ASSUME Followed, [Preview!Next]_state
  PROVE  Followed'
<1>1. ASSUME NEW f \in Preview!Files, Preview!Change(f) \/ Preview!Unlink(f)
      PROVE  Followed'
  BY <1>1, FollowedWhenChanged DEF Preview!Change, Preview!Unlink
<1>2. ASSUME NEW pointers, Preview!EntitiesActive(pointers)
      PROVE  Followed'
  <2>1. /\ DOMAIN state' = PreviewFields /\ state'.files = state.files
        /\ state'.events = state.events /\ state'.timer = state.timer
        /\ state'.clients = state.clients /\ state'.inbox = state.inbox
        /\ state'.loaded = state.loaded /\ state'.swallowed = state.swallowed
    BY <1>2 DEF Preview!EntitiesActive, Followed, PreviewTypes, PreviewFields
  <2> QED
    BY <2>1, SMTT(30) DEF Followed, PreviewTypes, Follows, Coming, RemovalHolds, Preview!Has
<1>3. CASE UNCHANGED state
  BY <1>3 DEF Followed, PreviewTypes, Follows, Coming, RemovalHolds, Preview!Has
<1> QED
  BY <1>1, <1>2, <1>3, FollowedWhenSeen, FollowedWhenNotified, FollowedWhenReceived,
     FollowedWhenOpened
  DEF Preview!Next, Preview!Work

LEMMA FollowedIsSafe == Followed => Preview!ClientsAreCurrent
<1> SUFFICES ASSUME Followed, state.events = <<>>, state.timer = {},
                    NEW c \in Clients, state.clients[c] = "open", state.inbox[c] = <<>>,
                    NEW f \in Preview!Files
             PROVE  Preview!Has(c, f)
  BY DEF Preview!ClientsAreCurrent
<1>1. Follows(c)
  BY DEF Followed
<1>2. \A S : ~ OneIn(state.inbox[c], S) /\ ~ OneIn(state.events, S)
  BY NothingInEmpty
<1> QED BY <1>1, <1>2 DEF Follows, Coming, Preview!Has
-----------------------------------------------------------------------------
(* The scripts of a scene.  Wherever the loops are, a script is still to   *)
(* start, or has started under its key, with a system for its priority;    *)
(* within a tick, those updated come before those whose turn is to come.   *)
ScriptFields == {"list", "todo", "phase", "classInstances", "functionScripts", "registry",
                 "systems", "removed", "atTick", "turn", "updated", "ticked"}

Numbered(list) == Seq(DOMAIN list)

UnderKeys(list, map) ==
  \A k \in DOMAIN map : map[k] \in DOMAIN list /\ k = Scripts!Key(list, map[k])

ScriptTypes ==
  /\ DOMAIN state = ScriptFields
  /\ state.list \in Seq(Scripts!Script)
  /\ state.todo \in Numbered(state.list)
  /\ state.turn \in Numbered(state.list) /\ state.updated \in Numbered(state.list)
  /\ state.phase \in {"starting", "running", "failed"}
  /\ state.systems \subseteq Priorities
  /\ state.removed \subseteq Entities /\ state.atTick \subseteq state.removed
  /\ UnderKeys(state.list, state.classInstances)
  /\ UnderKeys(state.list, state.functionScripts)
  /\ \A k \in DOMAIN state.registry : state.registry[k] \in DOMAIN state.list

Phases ==
  /\ state.phase = "starting"
       => state.turn = <<>> /\ state.updated = <<>> /\ ~state.ticked
  /\ state.phase # "starting" => state.todo = <<>>

Lively(s, i) == s.list[i].shape \in {"functions", "class"} /\ s.list[i].entity \notin s.removed

(* What became of a script that is no longer to start.                     *)
Dealt(s, i) ==
  /\ Lively(s, i) => Scripts!Key(s.list, i) \in DOMAIN s.classInstances \cup DOMAIN s.functionScripts
  /\ \/ s.list[i].priority \in s.systems
     \/ \E j \in Range(s.todo) : s.list[j].priority = s.list[i].priority

Started ==
  state.phase # "failed" =>
    \A i \in DOMAIN state.list : i \in Range(state.todo) \/ Dealt(state, i)

Sorted(list, walk) ==
  \A m, n \in 1 .. Len(walk) : m < n => Scripts!UpdatesBefore(list, walk[m], walk[n])

InTurn ==
  /\ Sorted(state.list, state.turn) /\ Sorted(state.list, state.updated)
  /\ \A i \in Range(state.updated), j \in Range(state.turn) :
       Scripts!UpdatesBefore(state.list, i, j)
  /\ \A i \in Range(state.updated) : state.list[i].entity \notin state.atTick
  /\ state.phase = "running" /\ state.ticked =>
       \A i \in DOMAIN state.list :
         Lively(state, i) => i \in Range(state.turn) \cup Range(state.updated)

Turns == ScriptTypes /\ Phases /\ Started /\ InTurn

(* The parts of a sorted walk.                                             *)
LEMMA WalkWithoutHead ==
  ASSUME NEW list, NEW walk \in Numbered(list), walk # <<>>, Sorted(list, walk)
  PROVE  /\ Head(walk) \in DOMAIN list
         /\ Tail(walk) \in Numbered(list) /\ Sorted(list, Tail(walk))
         /\ Range(walk) = {Head(walk)} \cup Range(Tail(walk))
         /\ \A i \in Range(Tail(walk)) : Scripts!UpdatesBefore(list, Head(walk), i)
<1>1. /\ Len(walk) \in Nat \ {0} /\ Tail(walk) \in Numbered(list) /\ Len(Tail(walk)) = Len(walk) - 1
      /\ Head(walk) = walk[1] /\ Head(walk) \in DOMAIN list
      /\ \A n \in 1 .. Len(walk) - 1 : Tail(walk)[n] = walk[n + 1]
  BY DEF Numbered
<1>2. Range(walk) = {Head(walk)} \cup Range(Tail(walk))
  BY RangeOfTail DEF Numbered
<1>3. Sorted(list, Tail(walk))
  <2> SUFFICES ASSUME NEW m \in 1 .. Len(walk) - 1, NEW n \in 1 .. Len(walk) - 1, m < n
               PROVE  Scripts!UpdatesBefore(list, walk[m + 1], walk[n + 1])
    BY <1>1 DEF Sorted
  <2>1. m + 1 \in 1 .. Len(walk) /\ n + 1 \in 1 .. Len(walk) /\ m + 1 < n + 1
    BY <1>1
  <2> QED BY <2>1 DEF Sorted
<1>4. ASSUME NEW i \in Range(Tail(walk)) PROVE Scripts!UpdatesBefore(list, Head(walk), i)
  <2>1. PICK n \in 1 .. Len(walk) - 1 : i = walk[n + 1]
    <3>1. Range(Tail(walk)) = {Tail(walk)[n] : n \in 1 .. Len(Tail(walk))}
      BY <1>1, RangeOfSequence DEF Numbered
    <3> QED BY <1>1, <3>1
  <2>2. 1 \in 1 .. Len(walk) /\ n + 1 \in 1 .. Len(walk) /\ 1 < n + 1
    BY <1>1
  <2> QED BY <1>1, <2>1, <2>2 DEF Sorted
<1> QED BY <1>1, <1>2, <1>3, <1>4

LEMMA WalkWithOneMore ==
  ASSUME NEW list, NEW walk \in Numbered(list), NEW x \in DOMAIN list, Sorted(list, walk),
         \A i \in Range(walk) : Scripts!UpdatesBefore(list, i, x)
  PROVE  /\ Append(walk, x) \in Numbered(list) /\ Sorted(list, Append(walk, x))
         /\ Range(Append(walk, x)) = Range(walk) \cup {x}
<1>1. Append(walk, x) \in Numbered(list) /\ Range(Append(walk, x)) = Range(walk) \cup {x}
  BY RangeOfAppend DEF Numbered
<1>2. /\ Len(walk) \in Nat /\ Len(Append(walk, x)) = Len(walk) + 1
      /\ Append(walk, x)[Len(walk) + 1] = x
      /\ \A n \in 1 .. Len(walk) : Append(walk, x)[n] = walk[n] /\ walk[n] \in Range(walk)
  BY RangeOfSequence DEF Numbered
<1>3. Sorted(list, Append(walk, x))
  <2> SUFFICES ASSUME NEW m \in 1 .. Len(walk) + 1, NEW n \in 1 .. Len(walk) + 1, m < n
               PROVE  Scripts!UpdatesBefore(list, Append(walk, x)[m], Append(walk, x)[n])
    BY <1>2 DEF Sorted
  <2>1. m \in 1 .. Len(walk) /\ (n \in 1 .. Len(walk) \/ n = Len(walk) + 1)
    BY <1>2
  <2>2. CASE n \in 1 .. Len(walk)
    BY <1>2, <2>1, <2>2 DEF Sorted
  <2>3. CASE n = Len(walk) + 1
    BY <1>2, <2>1, <2>3
  <2> QED BY <2>1, <2>2, <2>3
<1> QED BY <1>1, <1>3

LEMMA NoWalk ==
  ASSUME NEW list
  PROVE  <<>> \in Numbered(list) /\ Sorted(list, <<>>) /\ Range(<<>>) = {}
BY RangeOfEmpty DEF Sorted, Numbered

LEMMA InstancesCardinality == \A S : Scripts!Cardinality(S) = Cardinality(S)
BY DEF Cardinality, Scripts!Cardinality, IsFiniteSet, Scripts!IsFiniteSet

(* The walks are lists of the instances they are of.                       *)
LEMMA WalksAreLists ==
  ASSUME NEW list \in Seq(Scripts!Script), NEW S \in SUBSET DOMAIN list,
         NEW walk \in Scripts!Walks(S)
  PROVE  walk \in Numbered(list) /\ Range(walk) = S /\ DOMAIN walk = 1 .. Len(walk)
<1>1. IsFiniteSet(S)
  <2>1. DOMAIN list = 1 .. Len(list) /\ Len(list) \in Nat
    OBVIOUS
  <2>2. IsFiniteSet(1 .. Len(list))
    BY <2>1, FS_Interval
  <2> QED BY <2>1, <2>2, FS_Subset
<1>2. Cardinality(S) \in Nat
  BY <1>1, FS_CardinalityType
<1>3. walk \in [1 .. Cardinality(S) -> S] /\ \A i \in S : \E n \in 1 .. Cardinality(S) : walk[n] = i
  BY InstancesCardinality DEF Scripts!Walks, Scripts!Bijection, Scripts!Surjection, Scripts!Injection
<1>4. walk \in Seq(S) /\ Len(walk) = Cardinality(S)
  BY <1>2, <1>3
<1>5. Range(walk) = {walk[n] : n \in 1 .. Len(walk)}
  BY <1>4, RangeOfSequence
<1> QED BY <1>3, <1>4, <1>5 DEF Numbered

LEMMA KeysApart ==
  ASSUME NEW list, NEW i, NEW j, Scripts!Key(list, i) = Scripts!Key(list, j)
  PROVE  i = j
BY DEF Scripts!Key

LEMMA HeadAndTail ==
  ASSUME NEW T, NEW q \in Seq(T), q # <<>>
  PROVE  Head(q) \in T /\ Tail(q) \in Seq(T) /\ Range(q) = {Head(q)} \cup Range(Tail(q))
BY RangeOfTail

(* A script was dealt with: s is the state before the loop goes on.        *)
LEMMA OneDealtWith ==
  ASSUME Turns, state.todo # <<>>, NEW s, DOMAIN s = ScriptFields,
         s.list = state.list, s.todo = state.todo, s.phase = state.phase,
         s.systems = state.systems, s.turn = state.turn, s.updated = state.updated,
         s.ticked = state.ticked, s.atTick = state.atTick,
         state.removed \subseteq s.removed, s.removed \subseteq Entities,
         UnderKeys(s.list, s.classInstances), UnderKeys(s.list, s.functionScripts),
         DOMAIN state.classInstances \subseteq DOMAIN s.classInstances,
         DOMAIN state.functionScripts \subseteq DOMAIN s.functionScripts,
         \A k \in DOMAIN s.registry : s.registry[k] \in DOMAIN s.list,
         Lively(s, Head(state.todo)) =>
           Scripts!Key(s.list, Head(state.todo)) \in DOMAIN s.classInstances \cup DOMAIN s.functionScripts,
         state' = Scripts!Advanced(s, Head(state.todo))
  PROVE  Turns'
<1> DEFINE i    == Head(state.todo)
           rest == Tail(state.todo)
           more == \E n \in 1 .. Len(rest) : s.list[rest[n]].priority = s.list[i].priority
<1>1. /\ state.phase = "starting" /\ state.turn = <<>> /\ state.updated = <<>> /\ ~state.ticked
  BY DEF Turns, Phases, ScriptTypes
<1>2. /\ i \in DOMAIN state.list /\ rest \in Numbered(state.list)
      /\ Range(state.todo) = {i} \cup Range(rest)
  <2>1. state.todo \in Seq(DOMAIN state.list)
    BY DEF Turns, ScriptTypes, Numbered
  <2> QED BY <2>1, HeadAndTail DEF Numbered
<1>3. more <=> \E j \in Range(rest) : s.list[j].priority = s.list[i].priority
  <2>1. Range(rest) = {rest[n] : n \in 1 .. Len(rest)}
    BY <1>2, RangeOfSequence DEF Numbered
  <2> QED BY <2>1
<1>4. state' = [s EXCEPT !.todo = rest,
                         !.systems = IF more THEN @ ELSE @ \cup {s.list[i].priority},
                         !.phase = IF rest = <<>> THEN "running" ELSE @]
  BY DEF Scripts!Advanced
<1> HIDE DEF i, rest, more
<1>5. /\ state'.list = state.list /\ state'.todo = rest /\ state'.removed = s.removed
      /\ state'.turn = <<>> /\ state'.updated = <<>> /\ ~state'.ticked
      /\ state'.atTick = state.atTick
      /\ state'.classInstances = s.classInstances /\ state'.functionScripts = s.functionScripts
      /\ state'.registry = s.registry /\ DOMAIN state' = ScriptFields
      /\ state'.systems = IF more THEN state.systems ELSE state.systems \cup {state.list[i].priority}
      /\ state'.phase = IF rest = <<>> THEN "running" ELSE "starting"
  BY <1>1, <1>4 DEF ScriptFields
<1>6. ScriptTypes'
  <2>1. state.list[i].priority \in Priorities
    <3>1. state.list[i] \in Scripts!Script
      BY <1>2 DEF Turns, ScriptTypes
    <3> QED BY <3>1 DEF Scripts!Script
  <2> QED BY <1>1, <1>2, <1>5, <2>1 DEF Turns, ScriptTypes
<1>7. Phases'
  BY <1>5 DEF Phases
<1>8. Started'
  <2>1. state.list[i].priority \in state'.systems
          \/ \E j \in Range(rest) : state.list[j].priority = state.list[i].priority
    BY <1>3, <1>5
  <2>2. ASSUME NEW k \in DOMAIN state.list, k \notin Range(rest)
        PROVE  Dealt(state', k)
    <3>1. k = i \/ Dealt(state, k)
      BY <1>1, <1>2, <2>2 DEF Turns, Started
    <3>2. CASE k = i
      BY <1>5, <2>1, <3>2 DEF Dealt, Lively, i
    <3>3. CASE Dealt(state, k)
      <4>1. Lively(state', k) => Lively(state, k)
        BY <1>5 DEF Lively
      <4>2. Lively(state', k) => Scripts!Key(state.list, k)
                                   \in DOMAIN s.classInstances \cup DOMAIN s.functionScripts
        BY <3>3, <4>1 DEF Dealt
      <4>3. \/ state.list[k].priority \in state'.systems
            \/ \E j \in Range(rest) : state.list[j].priority = state.list[k].priority
        <5>1. CASE state.list[k].priority \in state.systems
          BY <1>5, <5>1
        <5>2. CASE \E j \in Range(state.todo) : state.list[j].priority = state.list[k].priority
          BY <1>2, <2>1, <5>2
        <5> QED BY <3>3, <5>1, <5>2 DEF Dealt
      <4> QED BY <1>5, <4>2, <4>3 DEF Dealt
    <3> QED BY <3>1, <3>2, <3>3
  <2> QED BY <1>5, <2>2 DEF Started
<1>9. InTurn'
  BY <1>5, NoWalk DEF InTurn
<1> QED BY <1>6, <1>7, <1>8, <1>9 DEF Turns

(* An instance that is put under its key.                                  *)
LEMMA PutUnderKey ==
  ASSUME NEW list, NEW map, UnderKeys(list, map), NEW i \in DOMAIN list
  PROVE  /\ UnderKeys(list, Scripts!Put(map, Scripts!Key(list, i), i))
         /\ DOMAIN Scripts!Put(map, Scripts!Key(list, i), i) = DOMAIN map \cup {Scripts!Key(list, i)}
BY DEF UnderKeys, Scripts!Put

LEMMA TurnsStep ==
  ASSUME Turns, [Scripts!Next]_state
  PROVE  Turns'
<1>1. CASE Scripts!StartSkipped
  <2>1. ~Lively(state, Head(state.todo))
    BY <1>1 DEF Scripts!StartSkipped, Lively
  <2>2. state.todo # <<>> /\ state' = Scripts!Advanced(state, Head(state.todo))
    BY <1>1 DEF Scripts!StartSkipped
  <2>3. /\ DOMAIN state = ScriptFields /\ state.removed \subseteq Entities
        /\ UnderKeys(state.list, state.classInstances)
        /\ UnderKeys(state.list, state.functionScripts)
        /\ \A k \in DOMAIN state.registry : state.registry[k] \in DOMAIN state.list
    BY DEF Turns, ScriptTypes
  <2> QED BY <2>1, <2>2, <2>3, OneDealtWith
<1>2. ASSUME NEW gone \in Scripts!Gone, Scripts!StartFunctions(gone) \/ Scripts!StartClass(gone)
      PROVE  Turns'
  <2> DEFINE i   == Head(state.todo)
             key == Scripts!Key(state.list, i)
             reg == Scripts!Registered(state, i)
             sf  == [state EXCEPT !.removed = @ \cup gone,
                                  !.functionScripts = Scripts!Put(@, key, i), !.registry = reg]
             sc  == [state EXCEPT !.removed = @ \cup gone,
                                  !.classInstances = Scripts!Put(@, key, i), !.registry = reg]
  <2>1. /\ DOMAIN state = ScriptFields /\ state.removed \subseteq Entities
        /\ UnderKeys(state.list, state.classInstances)
        /\ UnderKeys(state.list, state.functionScripts)
        /\ \A k \in DOMAIN state.registry : state.registry[k] \in DOMAIN state.list
        /\ state.todo \in Seq(DOMAIN state.list) /\ gone \subseteq Entities
    BY <1>2 DEF Turns, ScriptTypes, Numbered, Scripts!Gone
  <2>2. state.todo # <<>>
    BY <1>2 DEF Scripts!StartFunctions, Scripts!StartClass, Scripts!Starting
  <2>3. i \in DOMAIN state.list
    BY <2>1, <2>2
  <2>4. \A k \in DOMAIN reg : reg[k] \in DOMAIN state.list
    BY <2>1, <2>3 DEF Scripts!Registered, Scripts!Put
  <2> HIDE DEF i, reg
  <2>5. CASE Scripts!StartFunctions(gone)
    <3>1. state' = Scripts!Advanced(sf, i)
      BY <2>5 DEF Scripts!StartFunctions, i, reg
    <3>2. /\ DOMAIN sf = ScriptFields
          /\ sf.list = state.list /\ sf.todo = state.todo /\ sf.phase = state.phase
          /\ sf.systems = state.systems /\ sf.turn = state.turn /\ sf.updated = state.updated
          /\ sf.ticked = state.ticked /\ sf.atTick = state.atTick
          /\ sf.classInstances = state.classInstances /\ sf.registry = reg
          /\ sf.removed = state.removed \cup gone
          /\ sf.functionScripts = Scripts!Put(state.functionScripts, key, i)
      BY <2>1 DEF ScriptFields
    <3>3. /\ UnderKeys(state.list, sf.functionScripts)
          /\ DOMAIN sf.functionScripts = DOMAIN state.functionScripts \cup {key}
      <4> HIDE DEF sf
      <4>1. /\ UnderKeys(state.list, Scripts!Put(state.functionScripts, key, i))
            /\ DOMAIN Scripts!Put(state.functionScripts, key, i) = DOMAIN state.functionScripts \cup {key}
        BY <2>1, <2>3, PutUnderKey
      <4> QED BY <3>2, <4>1
    <3> HIDE DEF sf, key
    <3> QED BY <2>1, <2>2, <2>4, <3>1, <3>2, <3>3, OneDealtWith DEF i, key
  <2>6. CASE Scripts!StartClass(gone)
    <3>1. state' = Scripts!Advanced(sc, i)
      BY <2>6 DEF Scripts!StartClass, i, reg
    <3>2. /\ DOMAIN sc = ScriptFields
          /\ sc.list = state.list /\ sc.todo = state.todo /\ sc.phase = state.phase
          /\ sc.systems = state.systems /\ sc.turn = state.turn /\ sc.updated = state.updated
          /\ sc.ticked = state.ticked /\ sc.atTick = state.atTick
          /\ sc.functionScripts = state.functionScripts /\ sc.registry = reg
          /\ sc.removed = state.removed \cup gone
          /\ sc.classInstances = Scripts!Put(state.classInstances, key, i)
      BY <2>1 DEF ScriptFields
    <3>3. /\ UnderKeys(state.list, sc.classInstances)
          /\ DOMAIN sc.classInstances = DOMAIN state.classInstances \cup {key}
      <4> HIDE DEF sc
      <4>1. /\ UnderKeys(state.list, Scripts!Put(state.classInstances, key, i))
            /\ DOMAIN Scripts!Put(state.classInstances, key, i) = DOMAIN state.classInstances \cup {key}
        BY <2>1, <2>3, PutUnderKey
      <4> QED BY <3>2, <4>1
    <3> HIDE DEF sc, key
    <3> QED BY <2>1, <2>2, <2>4, <3>1, <3>2, <3>3, OneDealtWith DEF i, key
  <2> QED BY <1>2, <2>5, <2>6
<1>3. CASE Scripts!StartThrows
  <2>1. state.phase = "starting"
    BY <1>3 DEF Scripts!StartThrows, Scripts!Starting, Turns, Phases
  <2>2. state' = [state EXCEPT !.todo = <<>>, !.phase = "failed"]
    BY <1>3 DEF Scripts!StartThrows
  <2>3. /\ \A f \in ScriptFields \ {"todo", "phase"} : state'[f] = state[f]
        /\ state'.todo = <<>> /\ state'.phase = "failed" /\ DOMAIN state' = ScriptFields
    BY <2>2 DEF Turns, ScriptTypes, ScriptFields
  <2>4. ScriptTypes'
    BY <2>3, NoWalk DEF Turns, ScriptTypes, ScriptFields
  <2>5. InTurn'
    BY <2>1, <2>3, NoWalk DEF Turns, Phases, InTurn, ScriptFields
  <2> QED BY <2>3, <2>4, <2>5 DEF Turns, Phases, Started
<1>4. CASE Scripts!Tick
  <2>1. PICK walk \in Scripts!Descending(state.list, state.systems) :
          state' = [state EXCEPT !.turn = walk, !.updated = <<>>, !.ticked = TRUE,
                                 !.atTick = state.removed]
    BY <1>4 DEF Scripts!Tick
  <2>2. /\ \A f \in ScriptFields \ {"turn", "updated", "ticked", "atTick"} : state'[f] = state[f]
        /\ state'.turn = walk /\ state'.updated = <<>> /\ state'.ticked
        /\ state'.atTick = state.removed /\ DOMAIN state' = ScriptFields
    BY <2>1 DEF Turns, ScriptTypes, ScriptFields
  <2>3. state.phase \in {"running", "failed"} /\ state.todo = <<>>
    BY <1>4 DEF Scripts!Tick, Turns, Phases
  <2> DEFINE S == UNION {Scripts!Group(state.list, p) : p \in state.systems}
  <2>4. S \in SUBSET DOMAIN state.list
    BY DEF Scripts!Group
  <2>5. walk \in Scripts!Walks(S)
    BY <2>1 DEF Scripts!Descending
  <2>6. /\ \A m, n \in DOMAIN walk : m < n => Scripts!UpdatesBefore(state.list, walk[m], walk[n])
    BY <2>1 DEF Scripts!Descending
  <2>7. walk \in Numbered(state.list) /\ Range(walk) = S /\ DOMAIN walk = 1 .. Len(walk)
    <3>1. state.list \in Seq(Scripts!Script)
      BY DEF Turns, ScriptTypes
    <3> HIDE DEF S
    <3> QED BY <2>4, <2>5, <3>1, WalksAreLists
  <2>8. Sorted(state.list, walk)
    BY <2>6, <2>7 DEF Sorted
  <2>9. ASSUME state.phase = "running", NEW i \in DOMAIN state.list, Lively(state, i)
        PROVE  i \in Range(walk)
    <3>1. Dealt(state, i) /\ Range(state.todo) = {}
      BY <2>3, <2>9, NoWalk DEF Turns, Started
    <3>2. state.list[i].priority \in state.systems
      BY <3>1 DEF Dealt
    <3> QED BY <2>7, <3>2 DEF Scripts!Group
  <2>10. ScriptTypes'
    BY <2>2, <2>7, NoWalk DEF Turns, ScriptTypes, ScriptFields
  <2>11. Phases'
    BY <2>2, <2>3 DEF Phases, ScriptFields
  <2>12. Started'
    BY <2>2 DEF Turns, Started, Dealt, Lively, ScriptFields
  <2>13. InTurn'
    BY <2>2, <2>8, <2>9, NoWalk DEF InTurn, Lively, ScriptFields
  <2> QED BY <2>10, <2>11, <2>12, <2>13 DEF Turns
<1>5. ASSUME state.turn # <<>>,
             NEW gone \in SUBSET Entities, NEW now \in Numbered(state.list),
             Sorted(state.list, now),
             Range(state.updated) \subseteq Range(now),
             Range(now) \subseteq Range(state.updated) \cup {Head(state.turn)},
             \A i \in Range(now) : state.list[i].entity \notin state.atTick,
             Lively(state, Head(state.turn)) /\ state.phase = "running" => Head(state.turn) \in Range(now),
             state' = [state EXCEPT !.turn = Tail(state.turn), !.updated = now,
                                     !.removed = state.removed \cup gone]
      PROVE  Turns'
  <2>1. /\ \A f \in ScriptFields \ {"turn", "updated", "removed"} : state'[f] = state[f]
        /\ state'.turn = Tail(state.turn) /\ state'.updated = now
        /\ state'.removed = state.removed \cup gone /\ DOMAIN state' = ScriptFields
    BY <1>5 DEF Turns, ScriptTypes, ScriptFields
  <2>2. /\ Tail(state.turn) \in Numbered(state.list) /\ Sorted(state.list, Tail(state.turn))
        /\ Range(state.turn) = {Head(state.turn)} \cup Range(Tail(state.turn))
        /\ \A i \in Range(Tail(state.turn)) :
             Scripts!UpdatesBefore(state.list, Head(state.turn), i)
    BY <1>5, WalkWithoutHead DEF Turns, ScriptTypes, InTurn
  <2>3. \A i \in DOMAIN state.list : Lively(state', i) => Lively(state, i)
    BY <2>1 DEF Lively, ScriptFields
  <2>4. ScriptTypes'
    BY <1>5, <2>1, <2>2 DEF Turns, ScriptTypes, ScriptFields
  <2>5. Phases'
    BY <1>5, <2>1 DEF Turns, Phases, ScriptFields
  <2>6. Started'
    <3>1. ASSUME NEW i \in DOMAIN state.list, Dealt(state, i) PROVE Dealt(state', i)
      BY <2>1, <2>3, <3>1 DEF Dealt, ScriptFields
    <3> QED BY <2>1, <3>1 DEF Turns, Started, ScriptFields
  <2>7. \A i \in Range(now), j \in Range(Tail(state.turn)) :
          Scripts!UpdatesBefore(state.list, i, j)
    BY <1>5, <2>2 DEF Turns, InTurn
  <2>8. ASSUME state.phase = "running", state.ticked, NEW i \in DOMAIN state.list, Lively(state', i)
        PROVE  i \in Range(Tail(state.turn)) \cup Range(now)
    <3>1. i \in Range(state.turn) \cup Range(state.updated)
      BY <2>3, <2>8 DEF Turns, InTurn
    <3> QED BY <1>5, <2>2, <2>3, <2>8, <3>1
  <2>9. InTurn'
    BY <1>5, <2>1, <2>2, <2>7, <2>8 DEF InTurn, ScriptFields
  <2> QED BY <2>4, <2>5, <2>6, <2>9 DEF Turns
<1>6. state.turn # <<>> => Scripts!InstanceOf(state, Scripts!Key(state.list, Head(state.turn)))
                             \subseteq {Head(state.turn)}
  BY KeysApart DEF Turns, ScriptTypes, UnderKeys, Scripts!InstanceOf
<1>7. ASSUME state.turn # <<>>, state.phase = "running", Lively(state, Head(state.turn))
      PROVE  Head(state.turn) \in Scripts!Called(state)
  <2> DEFINE i == Head(state.turn)
  <2>1. i \in DOMAIN state.list
    BY <1>7 DEF Turns, ScriptTypes, Numbered
  <2>2. Dealt(state, i)
    BY <1>7, <2>1, NoWalk DEF Turns, Started, Phases
  <2>3. i \in Scripts!InstanceOf(state, Scripts!Key(state.list, i))
    BY <1>7, <2>2, KeysApart DEF Dealt, Turns, ScriptTypes, UnderKeys, Scripts!InstanceOf
  <2> QED BY <1>7, <2>3 DEF Lively, Scripts!Called, Scripts!HasUpdate
<1>8. ASSUME NEW gone \in Scripts!Gone, Scripts!Update(gone)
      PROVE  Turns'
  <2>1. PICK i \in Scripts!Called(state) :
          state' = [state EXCEPT !.turn = Tail(@), !.updated = Append(@, i), !.removed = @ \cup gone]
    BY <1>8 DEF Scripts!Update
  <2>2. state.turn # <<>> /\ i = Head(state.turn) /\ state.list[i].entity \notin state.removed
    BY <1>6, <1>8, <2>1 DEF Scripts!Update, Scripts!Called
  <2>3. i \in DOMAIN state.list /\ i \in Range(state.turn)
    BY <2>2, WalkWithoutHead DEF Turns, ScriptTypes, InTurn
  <2>4. /\ Append(state.updated, i) \in Numbered(state.list)
        /\ Sorted(state.list, Append(state.updated, i))
        /\ Range(Append(state.updated, i)) = Range(state.updated) \cup {i}
    BY <2>3, WalkWithOneMore DEF Turns, ScriptTypes, InTurn
  <2>5. state.list[i].entity \notin state.atTick
    BY <2>2 DEF Turns, ScriptTypes
  <2>6. gone \in SUBSET Entities /\ \A j \in Range(state.updated) : state.list[j].entity \notin state.atTick
    BY <1>8 DEF Scripts!Gone, Turns, InTurn
  <2>7. state' = [state EXCEPT !.turn = Tail(state.turn), !.updated = Append(state.updated, i),
                               !.removed = state.removed \cup gone]
    BY <2>1
  <2> QED BY <1>5, <2>2, <2>4, <2>5, <2>6, <2>7
<1>9. CASE Scripts!UpdateNobody
  <2>1. state.turn # <<>> /\ state' = [state EXCEPT !.turn = Tail(@)] /\ Scripts!Called(state) = {}
    BY <1>9 DEF Scripts!UpdateNobody
  <2>2. state' = [state EXCEPT !.turn = Tail(state.turn), !.updated = state.updated,
                               !.removed = state.removed \cup {}]
    BY <2>1 DEF Turns, ScriptTypes, ScriptFields
  <2>3. /\ state.updated \in Numbered(state.list) /\ Sorted(state.list, state.updated)
        /\ \A i \in Range(state.updated) : state.list[i].entity \notin state.atTick
    BY DEF Turns, ScriptTypes, InTurn
  <2> QED BY <1>5, <1>7, <2>1, <2>2, <2>3
<1>10. CASE UNCHANGED state
  BY <1>10 DEF Turns, ScriptTypes, Phases, Started, InTurn
<1> QED
  BY <1>1, <1>2, <1>3, <1>4, <1>8, <1>9, <1>10 DEF Scripts!Next

LEMMA TurnsAtFirst == Scripts!Init => Turns
<1> SUFFICES ASSUME Scripts!Init PROVE Turns
  OBVIOUS
<1>a. PICK n \in 1 .. MaxScripts : \E list \in [1 .. n -> Scripts!Script] :
        \E todo \in Scripts!Ascending(list) :
          state = [list |-> list, todo |-> todo, phase |-> "starting",
                   classInstances |-> <<>>, functionScripts |-> <<>>, registry |-> <<>>,
                   systems |-> {}, removed |-> {}, atTick |-> {},
                   turn |-> <<>>, updated |-> <<>>, ticked |-> FALSE]
  BY DEF Scripts!Init, Scripts!Nothing
<1>b. PICK list \in [1 .. n -> Scripts!Script] : \E todo \in Scripts!Ascending(list) :
        state = [list |-> list, todo |-> todo, phase |-> "starting",
                 classInstances |-> <<>>, functionScripts |-> <<>>, registry |-> <<>>,
                 systems |-> {}, removed |-> {}, atTick |-> {},
                 turn |-> <<>>, updated |-> <<>>, ticked |-> FALSE]
  BY <1>a
<1>1. PICK todo \in Scripts!Ascending(list) :
        state = [list |-> list, todo |-> todo, phase |-> "starting",
                 classInstances |-> <<>>, functionScripts |-> <<>>, registry |-> <<>>,
                 systems |-> {}, removed |-> {}, atTick |-> {},
                 turn |-> <<>>, updated |-> <<>>, ticked |-> FALSE]
  BY <1>b
<1>2. list \in Seq(Scripts!Script) /\ DOMAIN list = 1 .. n
  BY <1>1
<1>3. todo \in Numbered(list) /\ Range(todo) = DOMAIN list
  <2>1. todo \in Scripts!Walks(DOMAIN list)
    BY <1>1 DEF Scripts!Ascending
  <2> QED BY <1>2, <2>1, WalksAreLists
<1>4. DOMAIN <<>> = {}
  OBVIOUS
<1> QED
  BY <1>1, <1>2, <1>3, <1>4, NoWalk
  DEF Turns, ScriptTypes, ScriptFields, Phases, Started, InTurn, UnderKeys

LEMMA TurnsAreKept ==
  ASSUME Priorities \subseteq Int, Turns
  PROVE  Scripts!ScriptsKeepTheirTurn
<1> DEFINE walk == state.updated
<1>1. walk \in Seq(DOMAIN state.list) /\ Range(walk) = {walk[n] : n \in 1 .. Len(walk)}
  <2>1. walk \in Seq(DOMAIN state.list)
    BY DEF Turns, ScriptTypes, Numbered
  <2> QED BY <2>1, RangeOfSequence
<1>2. \A i \in DOMAIN state.list : state.list[i].priority \in Int /\ i \in Int
  <2>1. /\ state.list \in Seq(Scripts!Script) /\ DOMAIN state.list = 1 .. Len(state.list)
        /\ Len(state.list) \in Nat
    BY DEF Turns, ScriptTypes
  <2>2. \A i \in DOMAIN state.list : state.list[i] \in Scripts!Script
    BY <2>1
  <2>3. \A i \in DOMAIN state.list : state.list[i].priority \in Priorities
    BY <2>2 DEF Scripts!Script
  <2>4. \A i \in 1 .. Len(state.list) : i \in Int
    OBVIOUS
  <2>5. \A i \in DOMAIN state.list : state.list[i].priority \in Int
    BY <2>3
  <2> QED BY <2>1, <2>4, <2>5
<1>3. ASSUME NEW m \in 1 .. Len(walk), NEW n \in 1 .. Len(walk), m < n
      PROVE  walk[m] # walk[n] /\ state.list[walk[m]].priority >= state.list[walk[n]].priority
  <2>1. Scripts!UpdatesBefore(state.list, walk[m], walk[n])
    BY <1>3 DEF Turns, InTurn, Sorted
  <2>2. walk[m] \in DOMAIN state.list /\ walk[n] \in DOMAIN state.list
    BY <1>1
  <2> QED BY <1>2, <2>1, <2>2 DEF Scripts!UpdatesBefore
<1>4. \A n \in 1 .. Len(walk) : state.list[walk[n]].entity \notin state.atTick
  BY <1>1 DEF Turns, InTurn
<1>5. ASSUME state.phase = "running", state.ticked, state.turn = <<>>,
             NEW i \in 1 .. Len(state.list),
             state.list[i].shape \in {"functions", "class"}, state.list[i].entity \notin state.removed
      PROVE  \E n \in 1 .. Len(walk) : walk[n] = i
  <2>1. i \in DOMAIN state.list
    BY <1>5 DEF Turns, ScriptTypes
  <2>2. i \in Range(state.updated)
    BY <1>5, <2>1, NoWalk DEF Turns, InTurn, Lively
  <2> QED BY <1>1, <2>2
<1> QED BY <1>3, <1>4, <1>5 DEF Scripts!ScriptsKeepTheirTurn
-----------------------------------------------------------------------------
(* The types of each command's state.                                      *)
SavedBy(saves) == Bundle!Content(0 .. saves + 1)

BundleTyped ==
  /\ Fresh
  /\ state.saves \in Nat /\ state.saves <= MaxSaves
  /\ state.source \in SavedBy(state.saves) /\ state.composites \in SavedBy(state.saves)
  /\ state.build.source \in SavedBy(MaxSaves) /\ state.build.data \in SavedBy(MaxSaves)
  /\ state.build.loaded \in [Bundle!Loads -> SavedBy(MaxSaves)]
  /\ state.build.loading \subseteq Bundle!Loads
  /\ DOMAIN state.output = Bundle!Loads \cup {"source"}
  /\ \A p \in Bundle!Loads \cup {"source"} : state.output[p] \in SavedBy(MaxSaves)

DeployTyped ==
  /\ Orderly
  /\ state.phase \in {"checking", "building", "signing", "cancelled", "failed"}
  /\ state.outcome \in {"none", "resolved", "rejected"}
  /\ \A s \in state.world : s.parcels \subseteq Parcels

PreviewTyped == Followed /\ state.swallowed \subseteq Preview!Files

MigrationTyped ==
  /\ DOMAIN state = MigrationFields
  /\ state.uses \in [Migration!Files -> Assets]
  /\ state.live \subseteq Migration!Files /\ state.runs \in 0 .. MaxRuns
  /\ DOMAIN state.engine \subseteq Kept
  /\ DOMAIN state.composite \subseteq Kept /\ DOMAIN state.crdt \subseteq Kept
  /\ state.names \subseteq Migration!Files /\ state.entityNames \subseteq Migration!Files
  /\ state.todo \subseteq Assets
  /\ Migration!OnDisk \subseteq DOMAIN state.disk

QuestTyped ==
  /\ Asking
  /\ state.command \in Quests!Subcommands
  /\ state.phase \in {"arguments", "asking", "signing", "waiting", "serving", "ended", "failed"}
  /\ state.server \in BOOLEAN
  /\ state.server => state.phase \in {"waiting", "serving"}
  /\ state.posts \in Nat /\ state.requests \in Nat
  /\ state.posts <= MaxPosts /\ state.requests <= state.posts
  /\ state.items \in Nat
  /\ state.phase = "asking" /\ state.question = "itemName" => state.items # 0

ValidationTyped ==
  /\ Walked
  /\ state.phase \in {"folder", "wearable", "scene", "assert", "parcels", "main", "thrown"}
  /\ state.folder \in 1 .. Folders + 1
  /\ state.phase # "thrown" => state.phase = "folder" \/ state.folder <= Folders
  /\ state.visited \subseteq Grid /\ Elements(state.stackToVisit) \subseteq Grid
  /\ Len(state.projects) = state.folder - 1

ExportTyped ==
  /\ DOMAIN state = ExportFields
  /\ state.phase \in {"idle", "hash", "copy", "realm"}
  /\ state.project \in DOMAIN Projects
  /\ DOMAIN state.disk \subseteq Export!Files
  /\ \A f \in DOMAIN state.disk : state.disk[f] \in Contents
  /\ state.phase = "copy" => state.todo \subseteq DOMAIN state.hashes
  /\ state.todo \subseteq Export!Files /\ DOMAIN state.hashes \subseteq Export!Files
  /\ \A f \in DOMAIN state.hashes : state.hashes[f] \in Contents
  /\ \A h \in DOMAIN state.output : h \in Contents /\ state.output[h] \in Contents \cup {Export!Torn}

(* One step of each command keeps them.                                   *)
LEMMA DeployTypedStep ==
  ASSUME ParametersAssumption, DeployTyped, [Deploy!Next]_state
  PROVE  DeployTyped'
<1> DEFINE Phase == {"checking", "building", "signing", "cancelled", "failed"}
           Typed(d) == /\ d.phase \in Phase
                       /\ d.outcome \in {"none", "resolved", "rejected"}
                       /\ \A s \in d.world : s.parcels \subseteq Parcels
           mine == Deploy!SceneOn(Mine, TRUE)
<1>0. /\ DOMAIN state = DeployFields /\ Typed(state)
      /\ state.settling \in Seq(Outcomes)
  BY DEF DeployTyped, Orderly
<1>1. mine.parcels \subseteq Parcels
  BY DEF ParametersAssumption, Deploy!MineAssumption, Deploy!SceneOn
<1> SUFFICES Typed(state')
  BY OrderlyStep DEF DeployTyped
<1>2. CASE Deploy!WorldIsLeftAlone \/ Deploy!WorldIsCleared \/ Deploy!Build
  BY <1>0, <1>2 DEF Deploy!WorldIsLeftAlone, Deploy!WorldIsCleared, Deploy!Build, DeployFields
<1>3. CASE Deploy!CatalystPointers
  BY <1>0, <1>3 DEF Deploy!CatalystPointers, DeployFields
<1>4. CASE Deploy!Settle
  <2>1. Head(state.settling) \in Outcomes
    BY <1>0, <1>4 DEF Deploy!Settle
  <2> QED BY <1>0, <1>4, <2>1 DEF Deploy!Settle, DeployFields, Outcomes
<1>5. ASSUME NEW r \in Deploy!Requests, NEW d, DOMAIN d = DeployFields, Typed(d),
             state' = Deploy!Passed(r, d)
      PROVE  Typed(state')
  BY <1>5 DEF Deploy!Passed, DeployFields
<1>6. ASSUME NEW r \in Deploy!Requests, state' = Deploy!Failed(r)
      PROVE  Typed(state')
  BY <1>0, <1>6 DEF Deploy!Failed, DeployFields
<1>7. ASSUME NEW r \in Deploy!Requests, Deploy!checkPermission(r) PROVE Typed(state')
  BY <1>0, <1>5, <1>6, <1>7 DEF Deploy!checkPermission
<1>8. ASSUME NEW r \in Deploy!Requests, Deploy!deleteWorldScenes(r) PROVE Typed(state')
  <2> DEFINE d == [state EXCEPT !.world = {}]
  <2>1. DOMAIN d = DeployFields /\ Typed(d)
    BY <1>0 DEF DeployFields
  <2>2. state' = Deploy!Passed(r, state) \/ state' = Deploy!Passed(r, d) \/ state' = Deploy!Failed(r)
    BY <1>8 DEF Deploy!deleteWorldScenes
  <2> QED BY <1>0, <1>5, <1>6, <2>1, <2>2
<1>9. ASSUME NEW r \in Deploy!Requests, Deploy!Upload(r) PROVE Typed(state')
  <2> DEFINE d == [state EXCEPT !.world = {s \in @ : s.parcels \cap Mine = {}} \cup {mine}]
  <2>1. DOMAIN d = DeployFields /\ Typed(d)
    BY <1>0, <1>1 DEF DeployFields
  <2>2. state' = Deploy!Passed(r, d) \/ state' = Deploy!Failed(r)
    BY <1>9 DEF Deploy!Upload
  <2> QED BY <1>0, <1>5, <1>6, <2>1, <2>2
<1>10. ASSUME NEW r \in Deploy!Requests, NEW signed, Deploy!Posted(r, signed) PROVE Typed(state')
  BY <1>0, <1>10 DEF Deploy!Posted, DeployFields
<1>11. ASSUME NEW r \in Deploy!Requests,
              \/ Deploy!Sign(r) \/ Deploy!PostInvalid(r)
              \/ \E signed \in BOOLEAN : Deploy!PostDeploy(r, signed)
       PROVE  Typed(state')
  <2>1. CASE Deploy!PostInvalid(r)
    BY <1>0, <2>1 DEF Deploy!PostInvalid, DeployFields
  <2>2. CASE Deploy!Sign(r)
    BY <1>10, <2>2 DEF Deploy!Sign
  <2>3. CASE \E signed \in BOOLEAN : Deploy!PostDeploy(r, signed)
    BY <1>10, <2>3 DEF Deploy!PostDeploy
  <2> QED BY <1>11, <2>1, <2>2, <2>3
<1>12. ASSUME NEW x \in Parcels, Deploy!OtherDeploys(x) PROVE Typed(state')
  BY <1>0, <1>12 DEF Deploy!OtherDeploys, Deploy!SceneOn, DeployFields
<1>13. CASE UNCHANGED state
  BY <1>0, <1>13
<1> QED
  BY <1>2, <1>3, <1>4, <1>7, <1>8, <1>9, <1>11, <1>12, <1>13 DEF Deploy!Next, Deploy!Work

LEMMA DeployTypedAtFirst == Deploy!Init => DeployTyped
<1> SUFFICES ASSUME Deploy!Init PROVE DeployTyped
  OBVIOUS
<1>1. /\ state.phase = "checking" /\ state.outcome = "none"
      /\ state.world \subseteq {Deploy!SceneOn({x}, FALSE) : x \in Parcels}
  <2>1. PICK o \in Deploy!Options,
             others \in SUBSET {Deploy!SceneOn({x}, FALSE) : x \in Parcels} :
               state = [options |-> o, world |-> IF o.world THEN others ELSE {},
                        phase |-> "checking", needsDelete |-> FALSE,
                        stage |-> [r \in Deploy!Requests |-> "none"],
                        signed |-> [r \in Deploy!Requests |-> FALSE],
                        settling |-> <<>>, outcome |-> "none",
                        repeated |-> FALSE, refused |-> FALSE]
    BY DEF Deploy!Init
  <2>2. state.world = IF o.world THEN others ELSE {}
    BY <2>1
  <2>3. state.world \subseteq {Deploy!SceneOn({x}, FALSE) : x \in Parcels}
    BY <2>2
  <2> QED BY <2>1, <2>3
<1>2. \A x \in Parcels : Deploy!SceneOn({x}, FALSE).parcels \subseteq Parcels
  BY DEF Deploy!SceneOn
<1>3. \A s \in state.world : s.parcels \subseteq Parcels
  BY <1>1, <1>2
<1> QED BY <1>1, <1>3, OrderlyAtFirst DEF DeployTyped

LEMMA PreviewTypedStep ==
  ASSUME PreviewTyped, [Preview!Next]_state
  PROVE  PreviewTyped'
<1>0. /\ DOMAIN state = PreviewFields /\ state.swallowed \subseteq Preview!Files
      /\ state.timer \in {{}, {"model"}, {"other"}}
  BY DEF PreviewTyped, Followed, PreviewTypes
<1>1. state'.swallowed \subseteq state.swallowed \cup state.timer
  <2> USE <1>0 DEF PreviewFields
  <2>1. ASSUME NEW f \in Preview!Files, Preview!Change(f) \/ Preview!Unlink(f)
        PROVE  state'.swallowed = state.swallowed
    BY <2>1 DEF Preview!Change, Preview!Unlink, Preview!Changed
  <2>2. CASE Preview!SeeEvent
    BY <2>2 DEF Preview!SeeEvent
  <2>3. CASE Preview!Notify
    BY <2>3 DEF Preview!Notify
  <2>4. ASSUME NEW c \in Clients, Preview!Open(c) \/ Preview!Close(c) \/ Preview!Receive(c)
        PROVE  state'.swallowed = state.swallowed
    BY <2>4 DEF Preview!Open, Preview!Close, Preview!Receive
  <2>5. ASSUME NEW pointers, Preview!EntitiesActive(pointers)
        PROVE  state'.swallowed = state.swallowed
    BY <2>5 DEF Preview!EntitiesActive
  <2> QED BY <2>1, <2>2, <2>3, <2>4, <2>5 DEF Preview!Next, Preview!Work
<1> QED BY <1>0, <1>1, FollowedStep DEF PreviewTyped, Preview!Files

LEMMA PreviewTypedAtFirst == Preview!Init => PreviewTyped
BY FollowedAtFirst DEF Preview!Init, PreviewTyped

LEMMA MigrationTypedStep ==
  ASSUME ParametersAssumption, MigrationTyped, [Migration!Next]_state
  PROVE  MigrationTyped'
<1> USE DEF MigrationTyped, MigrationFields
<1>1. CASE Migration!Main
  <2>1. MaxRuns \in Nat
    BY DEF ParametersAssumption, Migration!MigrationAssumption
  <2> QED BY <1>1, <2>1 DEF Migration!Main
<1>2. CASE Migration!executeSceneCode
  <2> DEFINE kept == Migration!filterInspectorCompatibleComponents(Migration!Captured(state.live))
  <2>1. kept \subseteq Kept
    BY DEF Migration!filterInspectorCompatibleComponents, Migration!Captured, Kept
  <2>2. \A f \in kept : f \in Migration!Files /\ state.uses[f] \in Assets
    BY <2>1 DEF Kept
  <2> HIDE DEF kept
  <2>3. \/ state' = [state EXCEPT !.step = "idle"]
        \/ state' = [state EXCEPT !.step = "copy",
                       !.engine = [f \in kept |-> Migration!Original(state.uses[f])],
                       !.todo = {state.uses[f] : f \in kept},
                       !.mapping = <<>>, !.names = {}]
    BY <1>2 DEF Migration!executeSceneCode, kept
  <2>4. DOMAIN [f \in kept |-> Migration!Original(state.uses[f])] = kept
        /\ {state.uses[f] : f \in kept} \subseteq Assets
    BY <2>2
  <2> QED BY <2>1, <2>3, <2>4
<1>3. CASE Migration!AssetsCopied
  BY <1>3 DEF Migration!AssetsCopied
<1>4. CASE Migration!UpdateComponents
  BY <1>4 DEF Migration!UpdateComponents
<1>5. CASE Migration!generateEntityNames
  BY <1>5 DEF Migration!generateEntityNames, Kept
<1>6. CASE Migration!WriteComposite
  BY <1>6 DEF Migration!WriteComposite
<1>7. CASE Migration!WriteCrdt
  BY <1>7 DEF Migration!WriteCrdt
<1>8. CASE Migration!WriteEntityNames
  BY <1>8 DEF Migration!WriteEntityNames
<1>9. CASE Migration!Commented
  BY <1>9 DEF Migration!Commented
<1>10. CASE Migration!Fail
  BY <1>10 DEF Migration!Fail
<1>11. ASSUME NEW asset \in Assets, Migration!CopyAsset(asset) PROVE MigrationTyped'
  BY <1>11 DEF Migration!CopyAsset, Migration!Copied, Migration!With
<1>12. ASSUME NEW file \in Migration!Files, Migration!commentSourceFile(file)
       PROVE  MigrationTyped'
  BY <1>12 DEF Migration!commentSourceFile
<1>13. CASE UNCHANGED state
  BY <1>13
<1> QED
  BY <1>1, <1>2, <1>3, <1>4, <1>5, <1>6, <1>7, <1>8, <1>9, <1>10, <1>11, <1>12, <1>13
  DEF Migration!Next

LEMMA MigrationTypedAtFirst ==
  ASSUME ParametersAssumption, Migration!Init
  PROVE  MigrationTyped
<1>1. DOMAIN <<>> = {} /\ MaxRuns \in Nat
  BY DEF ParametersAssumption, Migration!MigrationAssumption
<1> QED BY <1>1 DEF Migration!Init, MigrationTyped, MigrationFields

LEMMA QuestTypedStep ==
  ASSUME ParametersAssumption, QuestTyped, [Quests!Next]_state
  PROVE  QuestTyped'
<1> DEFINE Typed ==
      /\ state.command \in Quests!Subcommands
      /\ state.phase \in {"arguments", "asking", "signing", "waiting", "serving", "ended", "failed"}
      /\ state.server \in BOOLEAN
      /\ state.server => state.phase \in {"waiting", "serving"}
      /\ state.posts \in Nat /\ state.requests \in Nat
      /\ state.posts <= MaxPosts /\ state.requests <= state.posts
      /\ state.items \in Nat
      /\ state.phase = "asking" /\ state.question = "itemName" => state.items # 0
<1>0. DOMAIN state = QuestFields /\ Typed /\ MaxPosts \in Nat /\ Items \subseteq Nat \ {0}
      /\ state.question \in QuestionNames
      /\ (state.phase = "arguments" => state.question = "name")
  BY DEF QuestTyped, Asking, ParametersAssumption, Quests!QuestsAssumption
<1> SUFFICES Typed'
  BY AskingStep DEF QuestTyped
<1> USE DEF QuestFields
<1>1. CASE Quests!executeCreateSubcommand
  BY <1>0, <1>1 DEF Quests!executeCreateSubcommand, Quests!Failed
<1>2. CASE Quests!executeListSubcommand \/ Quests!executeActivateSubcommand
             \/ Quests!executeDeactivateSubcommand
  BY <1>0, <1>2 DEF Quests!executeListSubcommand, Quests!executeActivateSubcommand,
       Quests!executeDeactivateSubcommand, Quests!Identified, Quests!Failed
<1>3. CASE Quests!executeManagerSubcommand
  BY <1>0, <1>3 DEF Quests!executeManagerSubcommand
<1>4. CASE Quests!Prompt
  <2>1. PICK cancels \in BOOLEAN, yes \in BOOLEAN, number \in Items :
          LET s == Quests!Answered(state, cancels, number) IN
          state' = IF Quests!ReturnsHere(s) THEN Quests!Failed(s)
                   ELSE IF Quests!Questions(s, yes) = "done" THEN [s EXCEPT !.phase = "signing"]
                   ELSE [s EXCEPT !.question = Quests!Questions(s, yes)]
    BY <1>4 DEF Quests!Prompt
  <2> DEFINE s == Quests!Answered(state, cancels, number)
             next == Quests!Questions(s, yes)
  <2>2. state.phase = "asking" /\ ~ state.server
    BY <1>0, <1>4 DEF Quests!Prompt
  <2>3. /\ DOMAIN s = QuestFields /\ s.phase = "asking" /\ s.server = FALSE /\ s.command = state.command
        /\ s.posts = state.posts /\ s.requests = state.requests /\ s.question = state.question
        /\ s.items = IF state.question = "rewardItemsNumber" THEN number
                     ELSE IF state.question = "itemName" THEN state.items - 1 ELSE state.items
    BY <1>0, <2>2 DEF Quests!Answered, Quests!NotesCancellation
  <2>4. s.items \in Nat
    BY <1>0, <2>2, <2>3
  <2>5. next = "itemName" => s.items # 0
    BY <1>0, <2>3 DEF Quests!Questions, QuestionNames
  <2>6. \/ state' = [s EXCEPT !.phase = "failed"] \/ state' = [s EXCEPT !.phase = "signing"]
        \/ state' = [s EXCEPT !.question = next]
    BY <2>1 DEF Quests!Failed
  <2> HIDE DEF s, next
  <2>7. /\ state'.command = s.command /\ state'.server = s.server /\ state'.posts = s.posts
        /\ state'.requests = s.requests /\ state'.items = s.items
        /\ \/ state'.phase \in {"failed", "signing"}
           \/ state'.phase = s.phase /\ state'.question = next
    BY <2>3, <2>6
  <2> QED BY <1>0, <2>3, <2>4, <2>5, <2>7
<1>5. CASE Quests!SignWithKey \/ Quests!OpenDapp
  BY <1>0, <1>5 DEF Quests!SignWithKey, Quests!OpenDapp, Quests!CommandCallback
<1>6. CASE Quests!Post
  <2>1. /\ \A f \in QuestFields \ {"posts", "requests", "sent"} : state'[f] = state[f]
        /\ state'.posts = state.posts + 1 /\ state'.requests = state.requests + 1
        /\ state.posts < MaxPosts
    BY <1>0, <1>6 DEF Quests!Post, Quests!CommandCallback
  <2> QED BY <1>0, <2>1
<1>7. CASE Quests!PostInvalid
  <2>1. /\ \A f \in QuestFields \ {"posts", "stopping"} : state'[f] = state[f]
        /\ state'.posts = state.posts + 1 /\ state.posts < MaxPosts
    BY <1>0, <1>7 DEF Quests!PostInvalid
  <2> QED BY <1>0, <2>1
<1>8. CASE Quests!PostAnswered
  BY <1>0, <1>8 DEF Quests!PostAnswered
<1>9. CASE Quests!Stop
  BY <1>0, <1>9 DEF Quests!Stop
<1>10. CASE UNCHANGED state
  BY <1>0, <1>10
<1> QED
  BY <1>1, <1>2, <1>3, <1>4, <1>5, <1>6, <1>7, <1>8, <1>9, <1>10 DEF Quests!Next, Quests!Work

LEMMA QuestTypedAtFirst ==
  ASSUME ParametersAssumption, Quests!Init
  PROVE  QuestTyped
<1>1. MaxPosts \in Nat /\ Commands \subseteq Quests!Subcommands
  BY DEF ParametersAssumption, Quests!QuestsAssumption
<1>2. /\ state.command \in Commands /\ state.phase = "arguments" /\ state.server = FALSE
      /\ state.posts = 0 /\ state.requests = 0 /\ state.items = 0
  BY DEF Quests!Init
<1>3. Asking
  BY AskingAtFirst
<1>4. state.server \in BOOLEAN /\ ~ state.server
  BY <1>2
<1>5. state.posts <= MaxPosts /\ state.requests <= state.posts
  BY <1>1, <1>2
<1> QED BY <1>1, <1>2, <1>3, <1>4, <1>5 DEF QuestTyped

LEMMA ValidationTypedStep ==
  ASSUME ParametersAssumption, ValidationTyped, [Validation!Next]_state
  PROVE  ValidationTyped'
<1> DEFINE Typed ==
      /\ state.phase \in {"folder", "wearable", "scene", "assert", "parcels", "main", "thrown"}
      /\ state.folder \in 1 .. Folders + 1
      /\ state.phase # "thrown" => state.phase = "folder" \/ state.folder <= Folders
      /\ state.visited \subseteq Grid /\ Elements(state.stackToVisit) \subseteq Grid
      /\ Len(state.projects) = state.folder - 1
<1>0. /\ DOMAIN state = ValidationFields /\ Typed /\ Folders \in Nat /\ Walked
      /\ state.projects \in Seq(Project)
  BY DEF ValidationTyped, Walked, ParametersAssumption, Validation!ValidationAssumption
<1>1. Walked'
  <2>1. CASE Validation!Next
    BY <1>0, <2>1, ParametersAssumption, WalkedStep
  <2>2. CASE UNCHANGED state
    BY <1>0, <2>2 DEF Walked
  <2> QED BY <2>1, <2>2
<1> SUFFICES Typed'
  BY <1>1 DEF ValidationTyped
<1> USE DEF ValidationFields
<1>2. ASSUME state'.phase = "parcels"
      PROVE  state'.visited \subseteq Grid /\ Elements(state'.stackToVisit) \subseteq Grid
  <2>1. /\ state'.scene.parcels \in Seq(Grid)
        /\ state'.stackToVisit \in Seq(Elements(state'.scene.parcels))
        /\ state'.visited \subseteq Elements(state'.scene.parcels)
    BY <1>1, <1>2 DEF Walked, Walking
  <2>2. \A S : \A s \in Seq(S) : Elements(s) \subseteq S
    BY DEF Elements
  <2> QED BY <2>1, <2>2
<1>3. CASE Validation!assertValidProjectFolder
  BY <1>0, <1>3 DEF Validation!assertValidProjectFolder, Validation!Throws
<1>4. CASE Validation!getValidWearableJson
  BY <1>0, <1>4 DEF Validation!getValidWearableJson, Validation!Throws, Validation!Enters
<1>5. CASE Validation!getValidSceneJson
  BY <1>0, <1>5 DEF Validation!getValidSceneJson, Validation!Throws
<1>6. CASE Validation!assertValidScene
  BY <1>0, <1>2, <1>6 DEF Validation!assertValidScene, Validation!Throws
<1>7. CASE Validation!visitConnectedParcels
  <2>1. /\ state'.phase = "parcels" /\ state'.folder = state.folder
        /\ state'.projects = state.projects /\ state.phase = "parcels"
    BY <1>0, <1>7 DEF Validation!visitConnectedParcels
  <2> QED BY <1>0, <1>2, <2>1
<1>8. CASE Validation!areConnected
  BY <1>0, <1>8 DEF Validation!areConnected, Validation!Throws, Validation!Enters
<1>9. CASE Validation!mainIsScript
  <2>1. CASE Validation!Throws
    BY <1>0, <1>9, <2>1 DEF Validation!Throws
  <2>2. CASE ~ Validation!Throws
    <3>1. /\ state.phase = "main" /\ state'.phase = "folder" /\ state'.folder = state.folder + 1
          /\ state'.visited = {} /\ state'.stackToVisit = <<>>
          /\ \E p : state'.projects = Append(state.projects, p)
      BY <1>0, <1>9, <2>2 DEF Validation!mainIsScript
    <3>2. Len(state'.projects) = Len(state.projects) + 1 /\ Elements(<<>>) = {}
      BY <1>0, <3>1 DEF Elements
    <3> QED BY <1>0, <3>1, <3>2
  <2> QED BY <2>1, <2>2
<1>10. CASE UNCHANGED state
  BY <1>0, <1>10
<1> QED
  BY <1>3, <1>4, <1>5, <1>6, <1>7, <1>8, <1>9, <1>10 DEF Validation!Next

LEMMA ValidationTypedAtFirst ==
  ASSUME ParametersAssumption, Validation!Init
  PROVE  ValidationTyped
<1>1. Folders \in Nat /\ Elements(<<>>) = {} /\ Len(<<>>) = 0
  BY DEF ParametersAssumption, Validation!ValidationAssumption, Elements
<1> QED BY <1>1, WalkedAtFirst DEF Validation!Init, ValidationTyped

LEMMA ExportTypedStep ==
  ASSUME ParametersAssumption, ExportTyped, [Export!Next]_state
  PROVE  ExportTyped'
<1> USE DEF ExportTyped, ExportFields
<1>0. DOMAIN Projects = 1 .. Len(Projects) /\ Len(Projects) \in Nat /\ 1 \in DOMAIN Projects
  BY DEF ParametersAssumption, Export!ExportAssumption
<1>1. ASSUME NEW s, NEW p \in DOMAIN Projects, DOMAIN s = ExportFields, s.disk = state.disk,
             state' = Export!Prepared(s, p),
             \A h \in DOMAIN s.output : h \in Contents /\ s.output[h] \in Contents \cup {Export!Torn}
      PROVE  ExportTyped'
  <2>1. Export!getPublishableFiles(p) \subseteq Export!Files
    BY DEF Export!getPublishableFiles, Export!Files
  <2> QED BY <1>1, <2>1 DEF Export!Prepared, Export!NoFiles
<1>2. CASE Export!Main
  <2>1. PICK withRealm \in BOOLEAN :
          state' = Export!Prepared([state EXCEPT !.withRealm = withRealm, !.entities = <<>>,
                                                 !.runs = @ + 1], 1)
    BY <1>2 DEF Export!Main
  <2> DEFINE s == [state EXCEPT !.withRealm = withRealm, !.entities = <<>>, !.runs = @ + 1]
  <2>2. DOMAIN s = ExportFields /\ s.disk = state.disk /\ s.output = state.output
    OBVIOUS
  <2> HIDE DEF s
  <2> QED BY <1>0, <1>1, <2>1, <2>2 DEF s
<1>3. CASE Export!Hashed
  BY <1>3 DEF Export!Hashed
<1>4. CASE Export!WriteEntity
  <2> DEFINE s == [state EXCEPT !.entityFiles = @ \cup {Export!Entity(state)},
                                !.entities = Append(@, Export!Entity(state))]
  <2>1. /\ DOMAIN s = ExportFields /\ \A f \in ExportFields \ {"entityFiles", "entities"} : s[f] = state[f]
    OBVIOUS
  <2>2. state' = Export!After(s)
    BY <1>4 DEF Export!WriteEntity
  <2> HIDE DEF s
  <2>3. CASE s.project < Len(Projects)
    <3>1. s.project + 1 \in DOMAIN Projects
      BY <1>0, <2>1, <2>3
    <3> QED BY <1>1, <2>1, <2>2, <2>3, <3>1 DEF Export!After
  <2>4. CASE ~(s.project < Len(Projects))
    BY <2>1, <2>2, <2>4 DEF Export!After
  <2> QED BY <2>3, <2>4
<1>5. CASE Export!WriteRealm \/ Export!Stop
  BY <1>5 DEF Export!WriteRealm, Export!Stop
<1>6. ASSUME NEW f \in Export!Files, Export!Edit(f) PROVE ExportTyped'
  BY <1>6 DEF Export!Edit, Export!With
<1>7. ASSUME NEW f \in Export!Files, Export!HashFile(f) PROVE ExportTyped'
  BY <1>7 DEF Export!HashFile, Export!With
<1>8. ASSUME NEW f \in Export!Files, Export!CopyFile(f) PROVE ExportTyped'
  <2>1. state.hashes[f] \in Contents
    BY <1>8 DEF Export!CopyFile
  <2>2. ASSUME NEW content \in Contents \cup {Export!Torn}
        PROVE  \A h \in DOMAIN Export!With(state.output, state.hashes[f], content) :
                 /\ h \in Contents
                 /\ Export!With(state.output, state.hashes[f], content)[h] \in Contents \cup {Export!Torn}
    BY <2>1 DEF Export!With
  <2>3. f \in DOMAIN state.disk => state.disk[f] \in Contents \cup {Export!Torn}
    OBVIOUS
  <2>4. CASE state' = [state EXCEPT !.todo = @ \ {f}] \/ state' = [state EXCEPT !.phase = "idle"]
    BY <2>4
  <2>5. ASSUME NEW content \in Contents \cup {Export!Torn},
             \/ state' = [state EXCEPT !.output = Export!With(@, state.hashes[f], content),
                                       !.todo = @ \ {f}]
             \/ state' = [state EXCEPT !.output = Export!With(@, state.hashes[f], content),
                                       !.phase = "idle", !.calm = FALSE]
        PROVE  ExportTyped'
    <3> DEFINE now == Export!With(state.output, state.hashes[f], content)
    <3>0. \/ state' = [state EXCEPT !.output = now, !.todo = @ \ {f}]
          \/ state' = [state EXCEPT !.output = now, !.phase = "idle", !.calm = FALSE]
      BY <2>5
    <3> HIDE DEF now
    <3>1. /\ DOMAIN state' = ExportFields
          /\ state'.disk = state.disk /\ state'.project = state.project
          /\ state'.hashes = state.hashes /\ state'.output = now
          /\ state'.todo \subseteq state.todo /\ state'.phase \in {state.phase, "idle"}
      <4>1. DOMAIN state = ExportFields
        OBVIOUS
      <4> HIDE DEF ExportTyped
      <4>2. CASE state' = [state EXCEPT !.output = now, !.todo = @ \ {f}]
        BY <4>1, <4>2
      <4>3. CASE state' = [state EXCEPT !.output = now, !.phase = "idle", !.calm = FALSE]
        BY <4>1, <4>3
      <4> QED BY <3>0, <4>2, <4>3
    <3>2. \A h \in DOMAIN now : h \in Contents /\ now[h] \in Contents \cup {Export!Torn}
      BY <2>2 DEF now
    <3> QED BY <3>1, <3>2
  <2> QED BY <1>8, <2>3, <2>4, <2>5 DEF Export!CopyFile
<1>9. CASE UNCHANGED state
  BY <1>9
<1> QED
  BY <1>2, <1>3, <1>4, <1>5, <1>6, <1>7, <1>8, <1>9 DEF Export!Next

LEMMA ExportTypedAtFirst ==
  ASSUME ParametersAssumption, Export!Init
  PROVE  ExportTyped
<1>1. 1 \in DOMAIN Projects
  BY DEF ParametersAssumption, Export!ExportAssumption
<1> QED BY <1>1 DEF Export!Init, ExportTyped, ExportFields, Export!NoFiles

LEMMA ContentsGrow ==
  ASSUME NEW n \in Nat, NEW c \in SavedBy(n)
  PROVE  /\ \A m \in Nat : n <= m => c \in SavedBy(m)
         /\ \A sound \in BOOLEAN : [c EXCEPT !.version = @ + 1, !.sound = sound] \in SavedBy(n + 1)
         /\ \A sound \in BOOLEAN, x \in Numbers :
              [version |-> c.version + 1, sound |-> sound, largest |-> x] \in SavedBy(n + 1)
         /\ Bundle!Readable(c) \in SavedBy(n)
<1> DEFINE Of(versions) == [version : versions, sound : BOOLEAN, largest : Numbers \cup {0}]
<1>1. \A m : SavedBy(m) = Of(0 .. m + 1)
  BY DEF SavedBy, Bundle!Content
<1>2. c \in Of(0 .. n + 1) /\ c.version \in 0 .. n + 1
  BY <1>1
<1>3. ASSUME NEW m \in Nat, n <= m PROVE c \in Of(0 .. m + 1)
  BY <1>2, <1>3
<1>4. c.version + 1 \in 0 .. (n + 1) + 1
  BY <1>2
<1>5. ASSUME NEW sound \in BOOLEAN
      PROVE  [c EXCEPT !.version = c.version + 1, !.sound = sound] \in Of(0 .. (n + 1) + 1)
  BY <1>2, <1>4
<1>6. ASSUME NEW sound \in BOOLEAN, NEW x \in Numbers
      PROVE  [version |-> c.version + 1, sound |-> sound, largest |-> x] \in Of(0 .. (n + 1) + 1)
  BY <1>4
<1>7. Bundle!Readable(c) \in Of(0 .. n + 1)
  BY <1>2 DEF Bundle!Readable
<1> HIDE DEF Of
<1> QED BY <1>1, <1>3, <1>5, <1>6, <1>7

LEMMA BundleTypedStep ==
  ASSUME ParametersAssumption, BundleTyped, [Bundle!Next]_state
  PROVE  BundleTyped'
<1> DEFINE All == SavedBy(MaxSaves)
           Parts == Bundle!Loads \cup {"source"}
           Files == /\ state.saves \in Nat /\ state.saves <= MaxSaves
                    /\ state.source \in SavedBy(state.saves)
                    /\ state.composites \in SavedBy(state.saves)
           Built == /\ state.build.source \in All /\ state.build.data \in All
                    /\ state.build.loaded \in [Bundle!Loads -> All]
                    /\ state.build.loading \subseteq Bundle!Loads
           Put == DOMAIN state.output = Parts /\ \A p \in Parts : state.output[p] \in All
           sameFiles == /\ state'.saves = state.saves /\ state'.source = state.source
                        /\ state'.composites = state.composites
<1>0. /\ DOMAIN state = BundleFields /\ DOMAIN state.build = BuildFields
      /\ Files /\ Built /\ Put /\ MaxSaves \in Nat
  BY DEF BundleTyped, Fresh, ParametersAssumption, Bundle!BundleAssumption
<1> SUFFICES Files' /\ Built' /\ Put'
  BY FreshStep DEF BundleTyped
<1> USE DEF BundleFields, BuildFields
<1>1. Bundle!NotRead \in All
  BY <1>0 DEF Bundle!NotRead, Bundle!Content, SavedBy
<1>2. state.source \in All /\ state.composites \in All
  BY <1>0, ContentsGrow
<1>3. Bundle!Readable(state.composites) \in All
  BY <1>0, <1>2, ContentsGrow
<1>4. sameFiles => Files'
  BY <1>0
<1>5. ASSUME state'.build = [Bundle!NoBuild EXCEPT !.active = TRUE]
      PROVE  Built'
  BY <1>1, <1>5 DEF Bundle!NoBuild
<1>6. CASE Bundle!Begin
  <2>1. /\ sameFiles /\ state'.output = state.output
        /\ state'.build = [Bundle!NoBuild EXCEPT !.active = TRUE]
    BY <1>0, <1>6 DEF Bundle!Begin, Bundle!Started
  <2> QED BY <1>0, <1>4, <1>5, <2>1
<1>7. CASE Bundle!SeeEvent \/ Bundle!TypesChecked
  <2>1. sameFiles /\ state'.output = state.output /\ state'.build = state.build
    BY <1>0, <1>7 DEF Bundle!SeeEvent, Bundle!TypesChecked
  <2> QED BY <1>0, <1>4, <2>1
<1>8. CASE Bundle!Rebuild
  <2>1. /\ sameFiles /\ state'.output = state.output
        /\ state'.build \in {state.build, [Bundle!NoBuild EXCEPT !.active = TRUE]}
    BY <1>0, <1>8 DEF Bundle!Rebuild, Bundle!Started
  <2> QED BY <1>0, <1>4, <1>5, <2>1
<1>9. CASE Bundle!ReadSource
  <2>1. /\ sameFiles /\ state'.output = state.output
        /\ state'.build = [state.build EXCEPT !.source = state.source]
    BY <1>0, <1>9 DEF Bundle!ReadSource
  <2> QED BY <1>0, <1>2, <1>4, <2>1
<1>10. ASSUME NEW l \in Bundle!Loads, Bundle!BeginLoad(l) PROVE Files' /\ Built' /\ Put'
  <2>1. /\ sameFiles /\ state'.output = state.output
        /\ \/ state'.build = [state.build EXCEPT !.loaded[l] = state.build.data]
           \/ state'.build = [state.build EXCEPT !.loading = @ \cup {l}]
    BY <1>0, <1>10 DEF Bundle!BeginLoad
  <2> QED BY <1>0, <1>4, <2>1
<1>11. ASSUME NEW l \in Bundle!Loads, Bundle!EndLoad(l) PROVE Files' /\ Built' /\ Put'
  <2> DEFINE read == Bundle!Readable(state.composites)
  <2>1. /\ sameFiles /\ state'.output = state.output
        /\ state'.build = [state.build EXCEPT !.loading = @ \ {l}, !.data = read, !.loaded[l] = read]
    BY <1>0, <1>11 DEF Bundle!EndLoad
  <2> HIDE DEF read
  <2> QED BY <1>0, <1>3, <1>4, <2>1 DEF read
<1>12. CASE Bundle!EndBuild
  <2>1. /\ sameFiles /\ state'.build = [state.build EXCEPT !.active = FALSE]
        /\ state'.output \in {state.output, Bundle!Output(state.build.loaded, state.build.source)}
    BY <1>0, <1>12 DEF Bundle!EndBuild
  <2>2. /\ DOMAIN Bundle!Output(state.build.loaded, state.build.source) = Parts
        /\ \A p \in Parts : Bundle!Output(state.build.loaded, state.build.source)[p] \in All
    BY <1>0 DEF Bundle!Output
  <2> QED BY <1>0, <1>4, <2>1, <2>2
<1>13. ASSUME NEW sound \in BOOLEAN, Bundle!SaveSource(sound) PROVE Files' /\ Built' /\ Put'
  <2>1. /\ state'.saves = state.saves + 1 /\ state'.composites = state.composites
        /\ state'.source = [state.source EXCEPT !.version = @ + 1, !.sound = sound]
        /\ state'.output = state.output /\ state'.build = state.build /\ state.saves < MaxSaves
    <3> DEFINE source == [state.source EXCEPT !.version = @ + 1, !.sound = sound]
               b == [state EXCEPT !.source = source]
    <3>1. state' = Bundle!Saved(b) /\ state.saves < MaxSaves
      BY <1>13 DEF Bundle!SaveSource
    <3>2. /\ DOMAIN b = BundleFields /\ \A f \in BundleFields \ {"source"} : b[f] = state[f]
          /\ b.source = source
      <4> HIDE DEF source
      <4> QED BY <1>0
    <3> HIDE DEF b
    <3> QED BY <3>1, <3>2 DEF Bundle!Saved
  <2>2. /\ [state.source EXCEPT !.version = @ + 1, !.sound = sound] \in SavedBy(state.saves + 1)
        /\ state.composites \in SavedBy(state.saves + 1)
    <3>1. state.saves + 1 \in Nat /\ state.saves <= state.saves + 1
      BY <1>0
    <3> QED BY <1>0, <1>13, <3>1, ContentsGrow
  <2> QED BY <1>0, <2>1, <2>2
<1>14. ASSUME NEW sound \in BOOLEAN, NEW n \in Numbers, Bundle!SaveComposites(sound, n)
       PROVE  Files' /\ Built' /\ Put'
  <2>1. /\ state'.saves = state.saves + 1 /\ state'.source = state.source
        /\ state'.composites = [version |-> state.composites.version + 1, sound |-> sound, largest |-> n]
        /\ state'.output = state.output /\ state'.build = state.build /\ state.saves < MaxSaves
    BY <1>0, <1>14 DEF Bundle!SaveComposites, Bundle!Saved
  <2>2. /\ state.source \in SavedBy(state.saves + 1)
        /\ [version |-> state.composites.version + 1, sound |-> sound, largest |-> n]
             \in SavedBy(state.saves + 1)
    <3>1. state.saves + 1 \in Nat /\ state.saves <= state.saves + 1
      BY <1>0
    <3> QED BY <1>0, <1>14, <3>1, ContentsGrow
  <2> QED BY <1>0, <2>1, <2>2
<1>15. CASE UNCHANGED state
  BY <1>0, <1>15
<1> QED
  BY <1>6, <1>7, <1>8, <1>9, <1>10, <1>11, <1>12, <1>13, <1>14, <1>15
  DEF Bundle!Next, Bundle!Work

LEMMA BundleTypedAtFirst ==
  ASSUME ParametersAssumption, Bundle!Init
  PROVE  BundleTyped
<1>1. MaxSaves \in Nat
  BY DEF ParametersAssumption, Bundle!BundleAssumption
<1>2. /\ state.saves = 0 /\ state.source \in Bundle!Content({1})
      /\ state.composites \in Bundle!Content({1}) /\ state.build = Bundle!NoBuild
      /\ state.output = Bundle!Output(Bundle!NoBuild.loaded, Bundle!NotRead)
  BY DEF Bundle!Init
<1>3. Bundle!NotRead \in SavedBy(MaxSaves)
  BY <1>1 DEF Bundle!NotRead, Bundle!Content, SavedBy
<1>4. Bundle!Content({1}) \subseteq SavedBy(0)
  BY DEF Bundle!Content, SavedBy
<1>5. /\ Bundle!NoBuild.source = Bundle!NotRead /\ Bundle!NoBuild.data = Bundle!NotRead
      /\ Bundle!NoBuild.loading = {}
      /\ Bundle!NoBuild.loaded = [l \in Bundle!Loads |-> Bundle!NotRead]
  BY DEF Bundle!NoBuild
<1>6. /\ DOMAIN state.output = Bundle!Loads \cup {"source"}
      /\ \A p \in Bundle!Loads \cup {"source"} : state.output[p] = Bundle!NotRead
  BY <1>2, <1>5 DEF Bundle!Output
<1> QED
  BY <1>1, <1>2, <1>3, <1>4, <1>5, <1>6, FreshAtFirst DEF BundleTyped

(* What each typed state is typed for.                                     *)
LEMMA TypedIsTypeOK ==
  ASSUME ParametersAssumption
  PROVE  /\ Turns => Scripts!TypeOK
         /\ BundleTyped => Bundle!TypeOK
         /\ DeployTyped => Deploy!TypeOK
         /\ PreviewTyped => Preview!TypeOK
         /\ MigrationTyped => Migration!TypeOK
         /\ QuestTyped => Quests!TypeOK
         /\ ValidationTyped => Validation!TypeOK
         /\ ExportTyped => Export!TypeOK
<1>1. ASSUME Turns PROVE Scripts!TypeOK
  <2>1. DOMAIN state.list = 1 .. Len(state.list)
    BY <1>1 DEF Turns, ScriptTypes
  <2> QED BY <1>1, <2>1 DEF Turns, ScriptTypes, UnderKeys, Scripts!TypeOK
<1>2. ASSUME BundleTyped PROVE Bundle!TypeOK
  <2>1. MaxSaves \in Nat /\ SavedBy(MaxSaves) = Bundle!Content(Bundle!Versions)
    BY DEF ParametersAssumption, Bundle!BundleAssumption, SavedBy, Bundle!Versions
  <2>2. state.source \in SavedBy(MaxSaves) /\ state.composites \in SavedBy(MaxSaves)
    BY <1>2, <2>1, ContentsGrow DEF BundleTyped
  <2> QED BY <1>2, <2>1, <2>2 DEF BundleTyped, Fresh, Bundle!TypeOK
<1>3. DeployTyped => Deploy!TypeOK
  BY DEF DeployTyped, Orderly, Stages, Deploy!TypeOK
<1>4. ASSUME PreviewTyped PROVE Preview!TypeOK
  <2>1. Preview!Cardinality(state.timer) <= 1 /\ state.timer \subseteq Preview!Files
    <3>1. state.timer \in {{}, {"model"}, {"other"}}
      BY <1>4 DEF PreviewTyped, Followed, PreviewTypes
    <3>2. \A S : Preview!Cardinality(S) = Cardinality(S)
      BY DEF Cardinality, Preview!Cardinality, IsFiniteSet, Preview!IsFiniteSet
    <3>3. Cardinality({}) = 0 /\ Cardinality({"model"}) = 1 /\ Cardinality({"other"}) = 1
      BY FS_EmptySet, FS_Singleton
    <3>4. Cardinality(state.timer) <= 1
      BY <3>1, <3>3
    <3> QED BY <3>1, <3>2, <3>4 DEF Preview!Files
  <2>2. ASSUME NEW c \in Clients
        PROVE  /\ state.clients[c] \in {"closed", "open"}
               /\ \A n \in 1 .. Len(state.inbox[c]) : state.inbox[c][n] \in Preview!Kinds
    <3>1. state.clients[c] \in {"closed", "open"} /\ state.inbox[c] \in Seq(Preview!Kinds)
      BY <1>4, <2>2 DEF PreviewTyped, Followed, PreviewTypes
    <3> QED BY <3>1
  <2> QED BY <1>4, <2>1, <2>2 DEF PreviewTyped, Preview!TypeOK
<1>5. MigrationTyped => Migration!TypeOK
  BY DEF MigrationTyped, Kept, Migration!TypeOK
<1>6. ASSUME QuestTyped PROVE Quests!TypeOK
  <2>1. MaxPosts \in Nat
    BY DEF ParametersAssumption, Quests!QuestsAssumption
  <2>2. state.posts \in 0 .. MaxPosts /\ state.requests \in 0 .. MaxPosts
    BY <1>6, <2>1 DEF QuestTyped
  <2> QED BY <1>6, <2>2 DEF QuestTyped, Quests!TypeOK
<1>7. ASSUME ValidationTyped PROVE Validation!TypeOK
  <2>1. Validation!ToSet(state.stackToVisit) = Elements(state.stackToVisit)
    BY ElementsAreRange
  <2> QED BY <1>7, <2>1 DEF ValidationTyped, Validation!TypeOK
<1>8. ExportTyped => Export!TypeOK
  BY DEF ExportTyped, Export!TypeOK
<1> QED BY <1>1, <1>2, <1>3, <1>4, <1>5, <1>6, <1>7, <1>8

-----------------------------------------------------------------------------
(* Whoever loads an exported entity finds the files it names, whenever the *)
(* command was killed and however many scenes, files and runs there are.   *)
THEOREM EntitiesAreServed == Spec => []EveryEntityIsServed
<1> DEFINE Inv == command = "exportStatic" => Served
<1>1. Init => Inv
  BY ServedAtFirst DEF Init
<1>2. Inv /\ [Next]_vars => Inv'
  BY CommandSteps, ServedStep
<1>3. Inv => EveryEntityIsServed
  BY DEF Served, Loadable, EveryEntityIsServed, Export!EveryEntityIsServed
<1> QED
  BY <1>1, <1>2, <1>3, PTL DEF Spec

(* The scenes that are accepted, and only they, hang together: the walk    *)
(* comes to exactly the parcels that can be reached, on grids of any size. *)
THEOREM WalkDecides == Spec => []WalkFindsConnection
<1> DEFINE Inv == command = "validation" => Walked
<1>1. Init => Inv
  BY WalkedAtFirst DEF Init
<1>2. Inv /\ [Next]_vars => Inv'
  <2> SUFFICES ASSUME Inv, [Next]_vars, command' = "validation"
               PROVE  Walked'
    OBVIOUS
  <2>1. Walked /\ [Validation!Next]_state
    BY CommandSteps
  <2>2. CASE Validation!Next
    BY <2>1, <2>2, ParametersAssumption, WalkedStep
  <2>3. CASE UNCHANGED state
    BY <2>1, <2>3 DEF Walked
  <2> QED BY <2>1, <2>2, <2>3
<1>3. Inv => WalkFindsConnection
  BY WalkedIsSafe DEF WalkFindsConnection
<1> QED
  BY <1>1, <1>2, <1>3, PTL DEF Spec

(* A deploy that resolves has its scene in the world, and a quest is sent  *)
(* whole or not at all, for any number of requests of the dApp.            *)
THEOREM OnlyWholeThings == Spec => []OnlyWholeThingsAreSent
<1> DEFINE Inv == /\ command = "deploy" => Orderly
                  /\ command = "quests" => Asking
<1>1. Init => Inv
  BY OrderlyAtFirst, AskingAtFirst DEF Init
<1>2. Inv /\ [Next]_vars => Inv'
  BY CommandSteps, OrderlyStep, AskingStep
<1>3. Inv => OnlyWholeThingsAreSent
  BY AskingIsSafe
  DEF OnlyWholeThingsAreSent, Orderly, Undisturbed, Resolves, Deploy!ResolvedMeansDeployed
<1> QED
  BY <1>1, <1>2, <1>3, PTL DEF Spec

(* Wherever code-to-composite is stopped or fails, every entity is in the  *)
(* code or in both files, and shows its asset; if it is not run on code it *)
(* has commented out, and no two assets have one name.                     *)
THEOREM MigrationLosesNothing ==
  ASSUME RunsOnMigrated = FALSE, AssetsApart
  PROVE  Spec => []NoEntityIsLost
<1> DEFINE Inv == command = "codeToComposite" => Safe /\ Content
<1>1. Init => Inv
  BY SafeAtFirst, ContentAtFirst DEF Init
<1>2. Inv /\ [Next]_vars => Inv'
  BY CommandSteps, SafeStep, ContentStep
<1>3. Inv => NoEntityIsLost
  <2>1. Safe => Migration!NoEntityIsLost
    BY DEF Safe, Kept, Migration!NoEntityIsLost, Migration!Captured, Migration!Files
  <2> QED BY <2>1, ContentIsSafe DEF NoEntityIsLost
<1> QED
  BY <1>1, <1>2, <1>3, PTL DEF Spec

(* What was saved is in the bundle, but for what joined a build at work,   *)
(* and a client has the files, but for what the debounce swallowed; for    *)
(* any number of saves, clients and messages.                              *)
THEOREM PreviewStaysCurrent == Spec => []PreviewIsCurrent
<1> DEFINE Inv == /\ command = "build" => Fresh
                  /\ command = "start" => Followed
<1>1. Init => Inv
  BY FreshAtFirst, FollowedAtFirst DEF Init
<1>2. Inv /\ [Next]_vars => Inv'
  BY CommandSteps, FreshStep, FollowedStep
<1>3. Inv => PreviewIsCurrent
  BY FreshIsSafe, FollowedIsSafe DEF PreviewIsCurrent
<1> QED
  BY <1>1, <1>2, <1>3, PTL DEF Spec

(* The scripts of a scene are updated in every tick, each once and in the  *)
(* order of their priorities, while their entities are there; for any      *)
(* number of scripts, of whatever priorities, and whatever they remove.    *)
THEOREM ScriptsAreUpdatedInTurn == Spec => []ScriptsKeepTheirTurn
<1> DEFINE Inv == command = "scripts" => Turns
<1>1. Init => Inv
  BY TurnsAtFirst DEF Init
<1>2. Inv /\ [Next]_vars => Inv'
  BY CommandSteps, TurnsStep
<1>3. Inv => ScriptsKeepTheirTurn
  BY ParametersAssumption, TurnsAreKept
  DEF ScriptsKeepTheirTurn, ParametersAssumption, Scripts!ScriptsAssumption
<1> QED
  BY <1>1, <1>2, <1>3, PTL DEF Spec

(* The state of each command has its types, for any numbers of scripts,    *)
(* saves, requests, clients, changes, runs, posts and folders.             *)
THEOREM TypesAreKept == Spec => []TypesOK
<1> DEFINE Inv == /\ command = "scripts"         => Turns
                  /\ command = "build"           => BundleTyped
                  /\ command = "deploy"          => DeployTyped
                  /\ command = "start"           => PreviewTyped
                  /\ command = "codeToComposite" => MigrationTyped
                  /\ command = "quests"          => QuestTyped
                  /\ command = "validation"      => ValidationTyped
                  /\ command = "exportStatic"    => ExportTyped
<1>1. Init => Inv
  BY ParametersAssumption, TurnsAtFirst, BundleTypedAtFirst, DeployTypedAtFirst,
     PreviewTypedAtFirst, MigrationTypedAtFirst, QuestTypedAtFirst,
     ValidationTypedAtFirst, ExportTypedAtFirst
  DEF Init
<1>2. Inv /\ [Next]_vars => Inv'
  BY ParametersAssumption, CommandSteps, TurnsStep, BundleTypedStep, DeployTypedStep,
     PreviewTypedStep, MigrationTypedStep, QuestTypedStep, ValidationTypedStep, ExportTypedStep
<1>3. Inv => TypesOK
  BY ParametersAssumption, TypedIsTypeOK DEF TypesOK
<1> QED
  BY <1>1, <1>2, <1>3, PTL DEF Spec
=============================================================================
