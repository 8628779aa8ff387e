---------------------------- MODULE SceneBundle -----------------------------
(***************************************************************************)
(* Bundling a scene, once or while its files change                        *)
(* (sdk-commands/src/logic/bundle.ts, composite.ts, debounce.ts;           *)
(* commands/build/index.ts).  A file is a version and what the build can   *)
(* tell of it: whether it compiles, and for the composites the largest     *)
(* entity number.  esbuild and chokidar are external: a rebuild asked for  *)
(* while one is active waits for the active one, a failed build writes no  *)
(* output, and the event of a save arrives some time after it.             *)
(***************************************************************************)
EXTENDS Naturals, FiniteSets

CONSTANTS Numbers,      \* entity numbers the composites may reach
          MaxSaves      \* bound: saves of a file

BundleAssumption == MaxSaves \in Nat

VARIABLE bundle

NotRead == [version |-> 0, sound |-> FALSE, largest |-> 0]
Content(versions) == [version : versions, sound : BOOLEAN, largest : Numbers \cup {0}]

Loads == {"composites", "scripts"}

NoBuild == [active |-> FALSE, source |-> NotRead, data |-> NotRead,
            loading |-> {}, loaded |-> [l \in Loads |-> NotRead]]

(* What is written: the source with what its two modules loaded.           *)
Output(loaded, source) ==
  [part \in Loads \cup {"source"} |-> IF part = "source" THEN source ELSE loaded[part]]

(* onStart of the composite loader forgets what the build before it read.  *)
StartedWithoutReset(b) ==
  [b EXCEPT !.build = [NoBuild EXCEPT !.active = TRUE, !.data = b.build.data],
            !.joined = FALSE]
Started(b) ==
  [b EXCEPT !.build = [NoBuild EXCEPT !.active = TRUE], !.joined = FALSE]

(* getAllComposites: composites that cannot be read or instanced are left  *)
(* out with a warning, and the others go in.                               *)
Readable(content) ==
  IF content.sound THEN content
  ELSE [content EXCEPT !.largest = 0]

-----------------------------------------------------------------------------
Init ==
  \E watch \in BOOLEAN, source \in Content({1}), composites \in Content({1}) :
    /\ source.largest = 0 /\ composites.largest # 0
    /\ bundle = [watch |-> watch, phase |-> "starting", baked |-> 0,
                 source |-> source, composites |-> composites,
                 events |-> 0, timer |-> FALSE, joined |-> FALSE,
                 build |-> NoBuild, output |-> Output(NoBuild.loaded, NotRead),
                 crdt |-> NotRead, saves |-> 0]

(* bundleSingleProject: the largest number of the composites is read once  *)
(* and defined as DCL_MAX_COMPOSITE_ENTITY in the context; the watcher is  *)
(* on when the first build starts.                                         *)
Begin ==
  /\ bundle.phase = "starting"
  /\ bundle' = Started([bundle EXCEPT !.phase = "bundling",
                                      !.baked = Readable(bundle.composites).largest,
                                      !.crdt = Readable(bundle.composites)])

Watching == bundle.watch /\ bundle.phase \in {"bundling", "watching"}

(* Somebody saves a file; a watcher hears of it later.                     *)
Saved(b) ==
  [b EXCEPT !.saves = @ + 1, !.events = IF Watching THEN @ + 1 ELSE @]

SaveSource(sound) ==
  /\ bundle.saves < MaxSaves
  /\ LET source == [bundle.source EXCEPT !.version = @ + 1, !.sound = sound] IN
     bundle' = Saved([bundle EXCEPT !.source = source])

SaveComposites(sound, largest) ==
  /\ bundle.saves < MaxSaves
  /\ bundle' = Saved([bundle EXCEPT !.composites =
                        [version |-> @.version + 1, sound |-> sound,
                         largest |-> largest]])

(* watcher.on('all'): debounce clears the timer and starts it again.       *)
SeeEvent ==
  /\ Watching /\ bundle.events > 0
  /\ bundle' = [bundle EXCEPT !.events = @ - 1, !.timer = TRUE]

(* The timer calls context.rebuild().                                      *)
Rebuild ==
  /\ Watching /\ bundle.timer
  /\ \/ /\ ~bundle.build.active
        /\ bundle' = Started([bundle EXCEPT !.timer = FALSE])
     \/ /\ bundle.build.active
        /\ bundle' = [bundle EXCEPT !.timer = FALSE, !.joined = TRUE]

-----------------------------------------------------------------------------
ReadSource ==
  /\ bundle.build.active /\ bundle.build.source = NotRead
  /\ bundle' = [bundle EXCEPT !.build.source = bundle.source]

(* The two virtual modules load in either order, or together: what is      *)
(* already read is used, and each that finds nothing reads for itself.     *)
BeginLoad(l) ==
  /\ bundle.build.active /\ l \notin bundle.build.loading
  /\ bundle.build.loaded[l] = NotRead
  /\ bundle' = IF bundle.build.data # NotRead
                 THEN [bundle EXCEPT !.build.loaded[l] = bundle.build.data]
                 ELSE [bundle EXCEPT !.build.loading = @ \cup {l}]

(* getAllComposites ends: main.crdt is written whatever was read.          *)
EndLoad(l) ==
  /\ l \in bundle.build.loading
  /\ LET read == Readable(bundle.composites) IN
     bundle' = [bundle EXCEPT !.build.loading = @ \ {l}, !.build.data = read,
                              !.build.loaded[l] = read, !.crdt = read]

(* Faulty variant: an error of the first build ends the command, watching  *)
(* or not.                                                                 *)
EndBuildThrowing ==
  /\ bundle.build.active /\ bundle.build.source # NotRead
  /\ \A l \in Loads : bundle.build.loaded[l] # NotRead
  /\ LET sound == bundle.build.source.sound IN
     bundle' = [bundle EXCEPT
       !.build.active = FALSE,
       !.output = IF sound THEN Output(bundle.build.loaded, bundle.build.source)
                  ELSE @,
       !.phase = CASE ~sound -> "failed"
                   [] sound /\ bundle.watch -> "watching"
                   [] OTHER -> "checking"]

(* The build ends: in watch mode an error is logged, otherwise it ends the *)
(* command; the type checker follows, whose verdict only counts without    *)
(* --watch.                                                                *)
EndBuild ==
  /\ bundle.build.active /\ bundle.build.source # NotRead
  /\ \A l \in Loads : bundle.build.loaded[l] # NotRead
  /\ LET sound == bundle.build.source.sound IN
     bundle' = [bundle EXCEPT
       !.build.active = FALSE,
       !.output = IF sound THEN Output(bundle.build.loaded, bundle.build.source)
                  ELSE @,
       !.phase = CASE bundle.watch -> "watching"
                   [] ~bundle.watch /\ sound -> "checking"
                   [] OTHER -> "failed"]

TypesChecked ==
  /\ bundle.phase = "checking"
  /\ \E outcome \in {"done", "failed"} : bundle' = [bundle EXCEPT !.phase = outcome]

(* What goes on without the author.                                        *)
Work ==
  \/ Begin \/ SeeEvent \/ Rebuild \/ ReadSource \/ EndBuild \/ TypesChecked
  \/ \E l \in Loads : BeginLoad(l) \/ EndLoad(l)

Next ==
  \/ Work
  \/ \E sound \in BOOLEAN :
       SaveSource(sound) \/ \E n \in Numbers : SaveComposites(sound, n)

Spec == Init /\ [][Next]_bundle

-----------------------------------------------------------------------------
Versions == 0..MaxSaves + 1

TypeOK ==
  /\ bundle.phase \in {"starting", "bundling", "watching", "checking", "done", "failed"}
  /\ bundle.source \in Content(Versions)
  /\ bundle.composites \in Content(Versions)
  /\ \A l \in Loads : bundle.output[l] \in Content(Versions)
  /\ bundle.build.loading \subseteq Loads

Quiet ==
  /\ bundle.phase = "watching" /\ ~bundle.build.active
  /\ ~bundle.timer /\ bundle.events = 0

(* Once every save was heard and every rebuild is over, the bundle on disk *)
(* is that of the last saved files: the source, the composites inlined in  *)
(* it and the scripts collected from them, with main.crdt of the same      *)
(* composites - unless the source does not compile or the rebuild of the   *)
(* last save joined a build that was already reading (the watcher and the  *)
(* composite loader of bundle.ts).                                         *)
StaleOnlyBehindActiveBuild ==
  Quiet /\ ~bundle.joined =>
    /\ bundle.crdt = Readable(bundle.composites)
    /\ bundle.source.sound =>
         /\ bundle.output.source = bundle.source
         /\ \A l \in Loads : bundle.output[l] = Readable(bundle.composites)

(* Nothing is left to do: the watcher waits for saves, or the command that *)
(* does not watch is over.                                                 *)
Settled == IF bundle.watch THEN Quiet ELSE bundle.phase \in {"done", "failed"}

(* Not an invariant: a composite edited under a watch keeps the number of  *)
(* the first build.                                                        *)
(* A scene numbers its entities past those of its composites, so that no   *)
(* entity it makes takes the number of one of theirs (bundle.ts:165, read  *)
(* again by ecs/src/engine/entity.ts).                                     *)
NumbersStartPastComposites ==
  bundle.output["composites"] # NotRead =>
    bundle.output["composites"].largest <= bundle.baked
=============================================================================
