--------------------------- MODULE PreviewServer ----------------------------
(***************************************************************************)
(* The preview server of `sdk-commands start`                              *)
(* (sdk-commands/src/commands/start/server: file-watch-notifier.ts,        *)
(* routes.ts, endpoints.ts).  Files change while clients are connected;    *)
(* each event of the watcher reaches the debounced notifier, which tells   *)
(* the clients of the last one when 800 ms pass without another.  The      *)
(* clients are external: a "legacy" one loads everything again at the JSON *)
(* update, a "current" one follows the binary messages, and both load      *)
(* everything when they open their socket.                                 *)
(***************************************************************************)
EXTENDS Naturals, FiniteSets, Sequences, SequencesExt

CONSTANTS Clients,      \* explorers
          Legacy,       \* those of the JSON protocol
          Projects,     \* sequence of the workspace's scenes: their parcels
          MaxChanges    \* bound: changes of files

LegacyAssumption == Legacy \subseteq Clients

VARIABLE preview

(* A glTF model of the scene, and any other file of it.                    *)
Files == {"model", "other"}
isGLTFModel(file) == file = "model"

Kinds == {"updateModel", "removeModel", "updateScene", "legacy"}

Init ==
  preview = [files |-> [f \in Files |-> 1], events |-> <<>>, timer |-> {},
             clients |-> [c \in Clients |-> "closed"],
             inbox |-> [c \in Clients |-> <<>>],
             loaded |-> [c \in Clients |-> [f \in Files |-> 0]],
             swallowed |-> {}, answer |-> <<>>, changes |-> 0]

-----------------------------------------------------------------------------
Changed(file, version, event) ==
  /\ preview.changes < MaxChanges
  /\ preview' = [preview EXCEPT
                   !.files[file] = version,
                   !.events = Append(@, [file |-> file, event |-> event]),
                   !.changes = @ + 1]

Change(file) == Changed(file, preview.changes + 2, "change")

Unlink(file) == preview.files[file] # 0 /\ Changed(file, 0, "unlink")

(* sendSceneMessage: to every client whose socket is open.                 *)
Sent(p, messages) ==
  [c \in Clients |-> IF p.clients[c] = "open" THEN p.inbox[c] \o messages
                     ELSE p.inbox[c]]

(* chokidar calls the listener of unlink and the debounced one of all.     *)
SeeEvent ==
  /\ preview.events # <<>>
  /\ LET e == Head(preview.events) IN
     preview' = [preview EXCEPT
       !.events = Tail(@),
       !.inbox = IF e.event = "unlink" /\ isGLTFModel(e.file)
                   THEN Sent(preview, <<"removeModel">>) ELSE @,
       !.swallowed = IF isGLTFModel(e.file) THEN @ \cup (preview.timer \ {e.file})
                     ELSE @,
       !.timer = {e.file}]

(* updateScene and __LEGACY__updateScene, of the last event.               *)
MessagesInOneProtocol(file) ==
  IF isGLTFModel(file) THEN <<"updateModel">> ELSE <<"updateScene", "legacy">>
Messages(file) ==
  <<IF isGLTFModel(file) THEN "updateModel" ELSE "updateScene", "legacy">>

Notify ==
  \E file \in preview.timer :
    preview' = [preview EXCEPT
                  !.timer = {},
                  !.swallowed = IF isGLTFModel(file) THEN @ ELSE {},
                  !.inbox = Sent(preview, Messages(file))]

-----------------------------------------------------------------------------
(* initWsConnection.                                                       *)
Open(c) ==
  /\ preview.clients[c] = "closed"
  /\ preview' = [preview EXCEPT !.clients[c] = "open",
                                !.loaded[c] = preview.files]

Close(c) ==
  /\ preview.clients[c] = "open"
  /\ preview' = [preview EXCEPT !.clients[c] = "closed", !.inbox[c] = <<>>]

(* What a client does with a message; contents come from                   *)
(* /content/contents, which answers 404 for a file that is gone.           *)
Receive(c) ==
  /\ preview.inbox[c] # <<>>
  /\ LET message == Head(preview.inbox[c])
         loaded == preview.loaded[c] IN
     preview' = [preview EXCEPT
       !.inbox[c] = Tail(@),
       !.loaded[c] =
          CASE c \in Legacy /\ message = "legacy" -> preview.files
            [] c \notin Legacy /\ message = "updateScene" -> preview.files
            [] c \notin Legacy /\ message = "updateModel" ->
                 [loaded EXCEPT !["model"] = preview.files["model"]]
            [] c \notin Legacy /\ message = "removeModel" ->
                 [loaded EXCEPT !["model"] = 0]
            [] OTHER -> loaded]

(* pointerRequestHandler and getSceneJson: the scene on each parcel asked  *)
(* for, where the workspace has one.                                       *)
getSceneJson(pointers) ==
  FlattenSeq([n \in 1..Len(pointers) |->
                SetToSeq({p \in 1..Len(Projects) :
                            /\ pointers[n] \in Projects[p]
                            /\ \A q \in 1..p-1 : pointers[n] \notin Projects[q]})])

EntitiesActive(pointers) ==
  preview' = [preview EXCEPT !.answer = getSceneJson(pointers)]

SceneParcels == UNION {Projects[p] : p \in 1..Len(Projects)}

(* What goes on without the author and the clients' opening and closing.   *)
Work == SeeEvent \/ Notify \/ \E c \in Clients : Receive(c)

Next ==
  \/ \E f \in Files : Change(f) \/ Unlink(f)
  \/ Work
  \/ \E c \in Clients : Open(c) \/ Close(c)
  \/ \E pointers \in SetToAllKPermutations(SceneParcels) : EntitiesActive(pointers)

Spec == Init /\ [][Next]_preview

-----------------------------------------------------------------------------
TypeOK ==
  /\ preview.timer \subseteq Files /\ Cardinality(preview.timer) <= 1
  /\ preview.swallowed \subseteq Files
  /\ \A c \in Clients :
       /\ preview.clients[c] \in {"closed", "open"}
       /\ \A n \in 1..Len(preview.inbox[c]) : preview.inbox[c][n] \in Kinds

Has(c, f) == preview.loaded[c][f] = preview.files[f]
               \/ (c \notin Legacy /\ f \in preview.swallowed)

(* Once every event was heard and every message received, a connected      *)
(* client has the files as they are on disk; one of the binary protocol    *)
(* may lack a file that changed within 800 ms before a model did, since    *)
(* only the last event is told (wireFileWatcherToWebSockets).              *)
ClientsAreCurrent ==
  preview.events = <<>> /\ preview.timer = {} =>
    \A c \in Clients :
      preview.clients[c] = "open" /\ preview.inbox[c] = <<>> =>
        \A f \in Files : Has(c, f)

(* Every client that is connected has the files, as above.                 *)
EveryoneIsCurrent ==
  \A c \in Clients : preview.clients[c] = "open" => \A f \in Files : Has(c, f)

(* Not an invariant: the loop walks a copy of the pointers.                *)
(* A scene that covers several of the parcels a client asks for is sent to *)
(* it once (getSceneJson, endpoints.ts:407).                               *)
EntitiesSentOnce == IsInjective(preview.answer)
=============================================================================
