---------------------------- MODULE MaterialFlat ----------------------------
(***************************************************************************)
(* The Material component with its flat accessors                          *)
(* (ecs/src/components/extended/Material.ts).  A material lives in an      *)
(* object that the component refers to; getFlat gives an accessor of that  *)
(* object, getFlatMutable one that asks the component for its object at    *)
(* every access, which marks the entity dirty.  A scene keeps accessors    *)
(* over ticks, replacements, deletions and updates from other players.     *)
(***************************************************************************)
EXTENDS Naturals, FiniteSets, Sequences

CONSTANTS Entities,
          Fields,      \* a subset of TextureField
          Sources,     \* paths of textures, the empty one among them
          MaxObjects   \* bound: material objects ever made

VARIABLE materials

TextureField == {"texture", "alphaTexture", "emissiveTexture", "bumpTexture"}
isPbrOnlyTexture(field) == field \in {"emissiveTexture", "bumpTexture"}

EmptySource == ""
NoTexture == [case |-> "none", src |-> EmptySource]
Common(src) == [case |-> "texture", src |-> src]
Avatar == [case |-> "avatarTexture", src |-> EmptySource]
Video == [case |-> "videoTexture", src |-> EmptySource]
Textures == {NoTexture, Avatar, Video} \cup {Common(src) : src \in Sources}

(* One property stands for those both kinds have, one for those of each.   *)
Properties == {"alphaTest", "albedoColor", "diffuseColor"}
KindsWith(property) ==
  CASE property = "alphaTest"    -> {"pbr", "unlit"}
    [] property = "albedoColor"  -> {"pbr"}
    [] property = "diffuseColor" -> {"unlit"}

Blank(kind) == [kind |-> kind, textures |-> [f \in Fields |-> NoTexture],
                properties |-> [p \in Properties |-> 0]]
Absent == Blank("absent")

(* What a scene hands to the setters: any texture in any of the fields.    *)
Materials(kind) ==
  {[Blank(kind) EXCEPT !.textures[f] = t] :
     f \in {g \in Fields : kind = "pbr" \/ ~isPbrOnlyTexture(g)}, t \in Textures}

(* Material.create(entity): no material inside.                            *)
Bare == Blank("none")

Init ==
  materials = [heap |-> <<>>, data |-> [e \in Entities |-> 0], dirty |-> {},
               renderer |-> [e \in Entities |-> Absent],
               flatMutable |-> {},
               read |-> {}]   \* not in the code: what the last step read

ValueOf(s, e) == IF s.data[e] = 0 THEN Absent ELSE s.heap[s.data[e]]

Becomes(s) == materials' = [s EXCEPT !.read = {}]
-----------------------------------------------------------------------------
(* createOrReplace: the object given is the one the component refers to.   *)
Put(s, e, object) == [s EXCEPT !.data[e] = object, !.dirty = @ \cup {e}]

New(s, material) == [s EXCEPT !.heap = Append(@, material)]

Create(e, material) ==
  /\ Len(materials.heap) < MaxObjects
  /\ Becomes(Put(New(materials, material), e, Len(materials.heap) + 1))

setBasicMaterial(e) == \E m \in Materials("unlit") : Create(e, m)
setPbrMaterial(e) == \E m \in Materials("pbr") : Create(e, m)
createBare(e) == materials.data[e] = 0 /\ Create(e, Bare)

DeleteFrom(e) ==
  /\ materials.data[e] # 0
  /\ Becomes(Put(materials, e, 0))

getFlatMutable(e) ==
  /\ materials.data[e] # 0
  /\ Becomes([materials EXCEPT !.dirty = @ \cup {e},
                !.flatMutable = @ \cup {[entity |-> e, first |-> materials.data[e]]}])

-----------------------------------------------------------------------------
(* The texture a flat accessor may write to; without one it throws.        *)
ensureTextureStructure(m, field) ==
  /\ m.kind \in {"pbr", "unlit"}
  /\ isPbrOnlyTexture(field) => m.kind = "pbr"
  /\ m.textures[field].case \notin {"avatarTexture", "videoTexture"}

TextureWritten(m, field, src) ==
  IF ensureTextureStructure(m, field)
    THEN [m EXCEPT !.textures[field] = Common(src)] ELSE m

PropertyWritten(m, property) ==
  IF m.kind \in KindsWith(property)
    THEN [m EXCEPT !.properties[property] = 1 - @] ELSE m

(* The object an accessor of getFlatMutable works on, asked for at every   *)
(* access: the component is marked dirty, even by a read or by a write     *)
(* that throws.  Faulty variant: the object of the first access.           *)
GetMaterialOnce(s, h) == [object |-> h.first, dirty |-> s.dirty]
GetMaterial(s, h) == [object |-> s.data[h.entity], dirty |-> s.dirty \cup {h.entity}]

Target(h) == materials.heap[GetMaterial(materials, h).object]

(* A write without the component throws, and nothing happens.              *)
Write(h, written) ==
  /\ materials.data[h.entity] # 0
  /\ LET at == GetMaterial(materials, h) IN
     Becomes([materials EXCEPT !.heap[at.object] = written, !.dirty = at.dirty])

WriteTexture(h, field, src) == Write(h, TextureWritten(Target(h), field, src))
WriteProperty(h, property)  == Write(h, PropertyWritten(Target(h), property))

getTextureField(m, field) ==
  IF m.kind = "unlit" /\ isPbrOnlyTexture(field) THEN NoTexture ELSE m.textures[field]

FlatValue(m) ==
  [textures |-> [f \in Fields |-> IF getTextureField(m, f).case = "texture"
                                    THEN getTextureField(m, f) ELSE NoTexture],
   properties |-> {p \in Properties : m.kind \in KindsWith(p) /\ m.properties[p] = 1}]

(* What an accessor reads that getFlat makes now; it keeps its object.     *)
getFlat(e) == FlatValue(ValueOf(materials, e))

ReadMutable(h) ==
  /\ materials.data[h.entity] # 0
  /\ LET at == GetMaterial(materials, h) IN
     materials' = [materials EXCEPT !.dirty = at.dirty,
       !.read = {[entity |-> h.entity, value |-> FlatValue(materials.heap[at.object])]}]

-----------------------------------------------------------------------------
(* The material of another player replaces the object, in the component    *)
(* and, forwarded in the same tick, in the renderer.                       *)
Received(e) ==
  /\ Len(materials.heap) < MaxObjects
  /\ \E m \in Materials("pbr") :
       Becomes([New(materials, m) EXCEPT !.data[e] = Len(materials.heap) + 1,
                                         !.renderer[e] = m])

(* The tick sends the dirty entities.                                      *)
Tick ==
  /\ materials.dirty # {}
  /\ Becomes([materials EXCEPT
       !.renderer = [e \in Entities |-> IF e \in materials.dirty THEN ValueOf(materials, e)
                                        ELSE @[e]],
       !.dirty = {}])

Next ==
  \/ \E e \in Entities :
       \/ setBasicMaterial(e) \/ setPbrMaterial(e) \/ createBare(e) \/ DeleteFrom(e)
       \/ getFlatMutable(e) \/ Received(e)
  \/ \E h \in materials.flatMutable :
       \/ \E field \in Fields, src \in Sources : WriteTexture(h, field, src)
       \/ \E property \in Properties : WriteProperty(h, property)
       \/ ReadMutable(h)
  \/ Tick

Spec == Init /\ [][Next]_materials
-----------------------------------------------------------------------------
Material == {Bare, Absent} \cup
  [kind : {"pbr", "unlit"}, textures : [Fields -> Textures], properties : [Properties -> 0..1]]

(* Type invariant.                                                         *)
TypeOK ==
  /\ \A n \in 1..Len(materials.heap) : materials.heap[n] \in Material
  /\ materials.data \in [Entities -> 0..Len(materials.heap)]
  /\ materials.dirty \subseteq Entities
  /\ materials.flatMutable \subseteq [entity : Entities, first : 1..Len(materials.heap)]

(* A material that the next tick does not send is the one the renderer     *)
(* has: no write through an accessor, however old, is lost on the way.     *)
RendererHasWhatIsClean ==
  \A e \in Entities \ materials.dirty : materials.renderer[e] = ValueOf(materials, e)

(* An accessor of getFlatMutable reads what the component holds now, after *)
(* replacements and updates from others.                                   *)
AccessorReadsComponent == \A r \in materials.read : r.value = getFlat(r.entity)
=============================================================================
