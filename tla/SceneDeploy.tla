---------------------------- MODULE SceneDeploy -----------------------------
(***************************************************************************)
(* Deploying a scene to the catalysts or to a world                        *)
(* (sdk-commands/src/commands/deploy/index.ts and utils.ts).  The content  *)
(* server and the linker dApp are external: the server keeps the scenes of *)
(* the world, replaces those a new one overlaps, and may refuse or fail;   *)
(* the dApp may post its signature more than once, or a payload without    *)
(* one.  Another member of the world may deploy meanwhile.                 *)
(***************************************************************************)
EXTENDS Naturals, Sequences

CONSTANTS Parcels,      \* parcels of the world
          Mine,         \* those of the scene being deployed
          MaxRequests   \* bound: posts of the dApp

MineAssumption == Mine \subseteq Parcels /\ Mine # {}

VARIABLE deploy

(* A scene of the world: whether it is the one being deployed, and where.  *)
SceneOn(parcels, mine) == [mine |-> mine, parcels |-> parcels]

Requests == 1..MaxRequests

(* What the command line and scene.json say.                               *)
Options == {o \in [world : BOOLEAN, target : {"none", "catalyst", "content"},
                   multiScene : BOOLEAN, yes : BOOLEAN, privateKey : BOOLEAN] :
              o.world => o.target # "none"}

(* The permissions the server keeps of the world for the wallet.           *)
Permissions == [owner : BOOLEAN, unrestricted : BOOLEAN, listed : BOOLEAN,
                perParcel : BOOLEAN, parcels : SUBSET Parcels]

Init ==
  \E o \in Options,
     others \in SUBSET {SceneOn({x}, FALSE) : x \in Parcels} :
    deploy = [options |-> o, world |-> IF o.world THEN others ELSE {},
              phase |-> "checking", needsDelete |-> FALSE,
              stage |-> [r \in Requests |-> "none"],
              signed |-> [r \in Requests |-> FALSE],
              settling |-> <<>>, outcome |-> "none",
              repeated |-> FALSE, refused |-> FALSE]

-----------------------------------------------------------------------------
(* main: without --multi-scene the scenes of the world on other parcels    *)
(* are deleted first, once the user agrees; where the server cannot be     *)
(* asked there is a warning, and the world is left alone.                  *)
AsksWorld == deploy.options.world /\ ~deploy.options.multiScene

scenesOnOtherParcels(world) == {s \in world : s.parcels \cap Mine = {}}

WorldIsLeftAlone ==
  /\ deploy.phase = "checking"
  /\ deploy' = [deploy EXCEPT !.phase = "building"]

WorldIsCleared ==
  /\ deploy.phase = "checking"
  /\ AsksWorld /\ deploy.options.target = "content"
  /\ scenesOnOtherParcels(deploy.world) # {}
  /\ \/ deploy' = [deploy EXCEPT !.phase = "building", !.needsDelete = TRUE]
     \/ /\ ~deploy.options.yes                \* the prompt is answered with no
        /\ deploy' = [deploy EXCEPT !.phase = "cancelled"]

(* The build, the sizes of the files and the hash of the entity.           *)
Build ==
  /\ deploy.phase = "building"
  /\ \E phase \in {"signing", "failed"} : deploy' = [deploy EXCEPT !.phase = phase]

Accepted(r) == deploy.stage[r] \in {"permission", "delete", "upload", "done"}

(* DCL_PRIVATE_KEY signs at once; /api/deploy waits for the dApp, which    *)
(* may leave the signature of the deletion out.                            *)
Posted(r, signed) ==
  /\ deploy.phase = "signing" /\ deploy.outcome = "none"
  /\ deploy.stage[r] = "none" /\ \A q \in 1..r-1 : deploy.stage[q] # "none"
  /\ deploy' = [deploy EXCEPT !.stage[r] = "permission", !.signed[r] = signed,
                              !.repeated = @ \/ \E q \in Requests : Accepted(q)]

Sign(r) ==
  /\ deploy.options.privateKey /\ r = 1 /\ Posted(r, deploy.needsDelete)

PostDeploy(r, signed) ==
  /\ ~deploy.options.privateKey /\ (signed => deploy.needsDelete)
  /\ Posted(r, signed)

(* A payload without address, chain or signatures is answered with 400 -   *)
(* and ends the wait of the command all the same.                          *)
PostInvalid(r) ==
  /\ ~deploy.options.privateKey
  /\ deploy.phase = "signing" /\ deploy.outcome = "none"
  /\ deploy.stage[r] = "none" /\ \A q \in 1..r-1 : deploy.stage[q] # "none"
  /\ deploy' = [deploy EXCEPT !.stage[r] = "refused", !.refused = TRUE,
                              !.settling = Append(@, "resolved")]

-----------------------------------------------------------------------------
(* deployEntity: permission, deletion, upload.                             *)
StageAfterDeleteLast(stage) ==
  CASE stage = "permission" -> "upload" [] stage = "upload" -> "delete"
    [] stage = "delete" -> "done"
StageAfter(stage) ==
  CASE stage = "permission" -> "delete" [] stage = "delete" -> "upload"
    [] stage = "upload" -> "done"

(* Faulty variant: the error ends the request and not the command.         *)
FailedSilently(r) == [deploy EXCEPT !.stage[r] = "failed"]

(* The callback of request r throws: the private key path rejects at once, *)
(* the route after 100 ms.                                                 *)
Failed(r) ==
  IF deploy.options.privateKey
    THEN [deploy EXCEPT !.stage[r] = "failed", !.outcome = "rejected"]
    ELSE [deploy EXCEPT !.stage[r] = "failed", !.settling = Append(@, "rejected")]

(* ... or returns: a world deployment is over, one to the catalysts waits  *)
(* until catalyst-pointers sees the entity everywhere.                     *)
Passed(r, d) ==
  LET next == StageAfter(d.stage[r])
      after == [d EXCEPT !.stage[r] = next] IN
  IF next # "done" THEN after
  ELSE IF d.options.privateKey THEN [after EXCEPT !.outcome = "resolved"]
  ELSE IF d.options.world THEN [after EXCEPT !.settling = Append(@, "resolved")]
  ELSE after

(* checkWorldDeploymentPermission.                                         *)
Allowed(p) ==
  \/ p.owner \/ p.unrestricted
  \/ p.listed /\ ~p.perParcel
  \/ Mine \subseteq p.parcels

checkPermission(r) ==
  /\ deploy.stage[r] = "permission"
  /\ \/ deploy' = Passed(r, deploy)         \* allowed, not asked, or no answer
     \/ /\ deploy.options.world /\ deploy.options.target = "content"
        /\ \E p \in Permissions : ~Allowed(p)
        /\ deploy' = Failed(r)

deleteWorldScenes(r) ==
  /\ deploy.stage[r] = "delete"
  /\ \/ ~deploy.needsDelete /\ deploy' = Passed(r, deploy)
     \/ /\ deploy.needsDelete /\ deploy.signed[r]
        /\ deploy' = Passed(r, [deploy EXCEPT !.world = {}])
     \/ deploy' = Failed(r)      \* no catalyst answers, no signature, or refused

Upload(r) ==
  /\ deploy.stage[r] = "upload"
  /\ \/ deploy' = Passed(r, [deploy EXCEPT !.world =
                     {s \in @ : s.parcels \cap Mine = {}} \cup {SceneOn(Mine, TRUE)}])
     \/ deploy' = Failed(r)

(* /api/catalyst-pointers: every catalyst names one and the same entity.   *)
CatalystPointers ==
  /\ ~deploy.options.world /\ ~deploy.options.privateKey
  /\ \E r \in Requests : deploy.stage[r] = "done"
  /\ deploy.outcome = "none" /\ Len(deploy.settling) < MaxRequests
  /\ deploy' = [deploy EXCEPT !.settling = Append(@, "resolved")]

(* The 100 ms are over: the first to settle the future ends the command.   *)
Settle ==
  /\ deploy.settling # <<>>
  /\ deploy' = [deploy EXCEPT !.settling = Tail(@),
                  !.outcome = IF @ = "none" THEN Head(deploy.settling) ELSE @]

OtherDeploys(x) ==
  /\ deploy.options.world /\ deploy.phase # "cancelled" /\ x \notin Mine
  /\ SceneOn({x}, FALSE) \notin deploy.world
  /\ deploy' = [deploy EXCEPT !.world = @ \cup {SceneOn({x}, FALSE)}]

(* What goes on once the dApp has posted; it asks for the catalysts again  *)
(* and again.                                                              *)
Work ==
  \/ CatalystPointers \/ Settle
  \/ \E r \in Requests : checkPermission(r) \/ deleteWorldScenes(r) \/ Upload(r)

Next ==
  \/ WorldIsLeftAlone \/ WorldIsCleared \/ Build \/ Work
  \/ \E r \in Requests :
       \/ Sign(r) \/ PostInvalid(r)
       \/ \E signed \in BOOLEAN : PostDeploy(r, signed)
  \/ \E x \in Parcels : OtherDeploys(x)

Spec == Init /\ [][Next]_deploy

-----------------------------------------------------------------------------
TypeOK ==
  /\ deploy.phase \in {"checking", "building", "signing", "cancelled", "failed"}
  /\ deploy.outcome \in {"none", "resolved", "rejected"}
  /\ \A s \in deploy.world : s.parcels \subseteq Parcels
  /\ \A r \in Requests :
       deploy.stage[r] \in {"none", "refused", "permission", "delete", "upload",
                            "done", "failed"}

(* A deploy command that ends without an error has deployed: its scene is  *)
(* in the world, whatever it deleted on the way, whatever failed and       *)
(* whoever deploys elsewhere meanwhile - unless the dApp posted a payload  *)
(* without signatures, or posted again while the first was being worked on *)
(* or had just been answered (deployEntity, setDeployRoutes and            *)
(* getAddressAndSignature).                                                *)
ResolvedMeansDeployed ==
  deploy.outcome = "resolved" /\ ~deploy.refused /\ ~deploy.repeated =>
    SceneOn(Mine, TRUE) \in deploy.world

(* Whoever signed is not left waiting: what was posted has ended the       *)
(* command.                                                                *)
EndedIfPosted == (\E r \in Requests : deploy.stage[r] # "none") => deploy.outcome # "none"
=============================================================================
