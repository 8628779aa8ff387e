----------------------------- MODULE ExportStatic -----------------------------
(***************************************************************************)
(* `sdk-commands export-static`                                            *)
(* (sdk-commands/src/commands/export-static/index.ts, with the files it    *)
(* publishes, logic/project-files.ts and logic/dcl-ignore.ts): the files   *)
(* of each scene are hashed, copied under their hash, and named by an      *)
(* entity file; the realm file, written last, names the entities.          *)
(*                                                                         *)
(* A hash is the content it is of.  The author edits files at any time,    *)
(* and the command may be killed at any step and run again into the same   *)
(* directory; calm says that no edit fell into a run and no write was cut  *)
(* short so far.                                                           *)
(***************************************************************************)
EXTENDS Naturals, Sequences, FiniteSets

CONSTANTS Projects,    \* the scenes of the workspace, in order: sets of files
          Lower,       \* each file's name in the mapping: lower case
          DefaultIgnored, UserIgnored,  \* files of defaultDclIgnore; .dclignore
          UnderOutput, \* files inside the output directory
          Contents,
          MaxRuns, MaxEdits   \* bounds

VARIABLE export

Files == UNION {Projects[i] : i \in DOMAIN Projects}
Torn == "torn"

ExportAssumption == Projects \in Seq(SUBSET Files) \ {<<>>}

NoFiles == [f \in {} |-> {}]

With(f, key, value) ==
  [k \in DOMAIN f \cup {key} |-> IF k = key THEN value ELSE f[k]]

Init ==
  \E disk \in [Files -> Contents], dclignore \in BOOLEAN :
    export = [disk |-> disk, dclignore |-> dclignore, phase |-> "idle", project |-> 1,
              withRealm |-> FALSE, todo |-> {}, hashes |-> NoFiles,
              entities |-> <<>>, output |-> NoFiles, entityFiles |-> {}, realm |-> {},
              calm |-> TRUE, runs |-> 0, edits |-> 0]

-----------------------------------------------------------------------------
(* The author saves a file, or removes one.                                *)
Edit(f) ==
  /\ export.edits < MaxEdits
  /\ \E now \in {[g \in DOMAIN export.disk \ {f} |-> export.disk[g]]} \cup
                {With(export.disk, f, c) : c \in Contents} :
       export' = [export EXCEPT !.disk = now, !.edits = @ + 1,
                                !.calm = @ /\ export.phase = "idle"]

(* The user's patterns come before the default ones, so none can bring a   *)
(* default one back.                                                       *)
getDCLIgnorePatterns == DefaultIgnored \cup (IF export.dclignore THEN UserIgnored ELSE {})

(* getPublishableFiles of the project at hand.                             *)
getPublishableFiles(project) ==
  (Projects[project] \cap DOMAIN export.disk) \ getDCLIgnorePatterns

Prepared(s, project) ==
  [s EXCEPT !.phase = "hash", !.project = project, !.hashes = NoFiles,
            !.todo = getPublishableFiles(project)]

(* main, when every project has been found valid.                          *)
Main ==
  /\ export.phase = "idle" /\ export.runs < MaxRuns
  /\ \E withRealm \in BOOLEAN :
       export' = Prepared([export EXCEPT !.withRealm = withRealm, !.entities = <<>>,
                                         !.runs = @ + 1], 1)

(* One file of getProjectPublishableFilesWithHashes.  One that has gone is *)
(* passed over; two with one name in lower case end the command.           *)
HashFile(f) ==
  /\ export.phase = "hash" /\ f \in export.todo
  /\ export' =
       IF f \notin DOMAIN export.disk THEN [export EXCEPT !.todo = @ \ {f}]
       ELSE IF \E g \in DOMAIN export.hashes : Lower[g] = Lower[f]
            THEN [export EXCEPT !.phase = "idle"]
            ELSE [export EXCEPT !.todo = @ \ {f}, !.hashes = With(@, f, export.disk[f])]

Hashed ==
  /\ export.phase = "hash" /\ export.todo = {}
  /\ export' = [export EXCEPT !.phase = "copy", !.todo = DOMAIN export.hashes]

(* One file is copied under its hash, unless there is one already or it    *)
(* lies in the output directory.  It is read again; one that has gone ends *)
(* the command, and a kill may leave part of it.                           *)
NeedsCopy(f) == f \notin UnderOutput /\ export.hashes[f] \notin DOMAIN export.output

CopyFile(f) ==
  /\ export.phase = "copy" /\ f \in export.todo
  /\ IF ~NeedsCopy(f) THEN export' = [export EXCEPT !.todo = @ \ {f}]
     ELSE IF f \notin DOMAIN export.disk THEN export' = [export EXCEPT !.phase = "idle"]
     ELSE \/ export' = [export EXCEPT !.output = With(@, export.hashes[f], export.disk[f]),
                                      !.todo = @ \ {f}]
          \/ export' = [export EXCEPT !.output = With(@, export.hashes[f], Torn),
                                      !.phase = "idle", !.calm = FALSE]

(* The entity file, under its own hash; its time makes it a new one.       *)
projectFilesToContentMappings(hashes) ==
  {[file |-> Lower[f], hash |-> hashes[f], omitted |-> f \in UnderOutput] : f \in DOMAIN hashes}

Entity(s) == [run |-> s.runs, project |-> s.project,
              content |-> projectFilesToContentMappings(s.hashes)]

(* Then the next project, the realm, or the end.                           *)
After(s) ==
  IF s.project < Len(Projects) THEN Prepared(s, s.project + 1)
  ELSE [s EXCEPT !.phase = IF s.withRealm THEN "realm" ELSE "idle"]

(* Faulty variant: the entity file as soon as the hashes are known.        *)
WriteEntityAtOnce ==
  /\ export.phase = "copy"
  /\ export' = After([export EXCEPT !.entityFiles = @ \cup {Entity(export)},
                                    !.entities = Append(@, Entity(export))])
WriteEntity ==
  /\ export.phase = "copy" /\ export.todo = {}
  /\ export' = After([export EXCEPT !.entityFiles = @ \cup {Entity(export)},
                                    !.entities = Append(@, Entity(export))])

WriteRealm ==
  /\ export.phase = "realm"
  /\ export' = [export EXCEPT !.phase = "idle",
       !.realm = {export.entities[i] : i \in DOMAIN export.entities}]

(* The command is killed, or an error of the file system ends it.          *)
Stop == export.phase # "idle" /\ export' = [export EXCEPT !.phase = "idle"]

Next ==
  \/ Main \/ Hashed \/ WriteEntity \/ WriteRealm \/ Stop
  \/ \E f \in Files : Edit(f) \/ HashFile(f) \/ CopyFile(f)

Spec == Init /\ [][Next]_export
-----------------------------------------------------------------------------
(* Type invariant.                                                         *)
TypeOK ==
  /\ export.phase \in {"idle", "hash", "copy", "realm"}
  /\ export.project \in DOMAIN Projects
  /\ export.todo \subseteq Files /\ DOMAIN export.hashes \subseteq Files
  /\ \A h \in DOMAIN export.output : h \in Contents /\ export.output[h] \in Contents \cup {Torn}

(* Whoever loads an entity finds every file it names, but for those that   *)
(* lay in the output directory, and the realm names only entities that are *)
(* there, whenever the command was killed (prepareSceneFiles writes the    *)
(* files first, main the realm last).  While the scene was left alone, and *)
(* no write was cut short, the files have the content of their hash.       *)
EveryEntityIsServed ==
  /\ export.realm \subseteq export.entityFiles
  /\ \A e \in export.entityFiles : \A c \in e.content :
       \/ c.omitted
       \/ /\ c.hash \in DOMAIN export.output
          /\ export.calm => export.output[c.hash] = c.hash
=============================================================================
