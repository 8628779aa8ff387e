----------------------------- MODULE EntityTree -----------------------------
(***************************************************************************)
(* The helpers of ecs/src/runtime/helpers/tree.ts on the parents of        *)
(* entities: engine.removeEntityWithChildren, getWorldPosition and         *)
(* getWorldRotation, and cyclicParentingChecker.                           *)
(*                                                                         *)
(* A transform is abstracted to the entity that carries it, and a          *)
(* composition of transforms to the sequence of the entities it goes       *)
(* through: what the helpers multiply, and in which order.  The pair of    *)
(* numbers that NetworkParent compares is abstracted to the entity with it.*)
(***************************************************************************)
EXTENDS Naturals, FiniteSets, SequencesExt

CONSTANTS Entities

VARIABLES tree

vars == <<tree>>

None == "none"
PlayerEntity == "player"

TreeInit ==
  tree = [Transform       |-> {},                       \* who has one
          parent          |-> [e \in Entities |-> None],
          AvatarAttach    |-> {},
          playerTransform |-> FALSE,
          NetworkEntity   |-> {},
          NetworkParent   |-> [e \in Entities |-> None],
          removed         |-> {},
          asked           |-> {}]    \* ghost: what the last removal had to take

Init == TreeInit

Trees ==
  [Transform : SUBSET Entities, parent : [Entities -> Entities \cup {None}],
   AvatarAttach : SUBSET Entities, playerTransform : BOOLEAN,
   NetworkEntity : SUBSET Entities, NetworkParent : [Entities -> Entities \cup {None}],
   removed : SUBSET Entities, asked : SUBSET Entities]

TypeOK == tree \in Trees
-----------------------------------------------------------------------------
(* engine.removeEntity: every component but NetworkEntity.                 *)
removeEntity(t, e) ==
  [t EXCEPT !.Transform = @ \ {e}, !.parent[e] = None, !.AvatarAttach = @ \ {e},
            !.NetworkParent[e] = None, !.removed = @ \cup {e}]

(* genEntityTree: what it yields, in order.  An entity is taken out of the *)
(* copy of the component before its children are looked for.               *)
genEntityTree(t, start, all) ==
  LET yields[e \in Entities, left \in SUBSET Entities] ==
        LET rest        == left \ {e}
            visit(s, c) == s \o yields[c, rest \ ToSet(s)]
        IN  IF e \notin left THEN <<>>
            ELSE Append(FoldLeft(visit, <<>>, SetToSeq({c \in rest : t.parent[c] = e})), e)
  IN  yields[start, all]

(* removeNetworkEntityChildrens: the parent first, then those that name it *)
(* in what the loop still finds of NetworkParent.                          *)
removeNetworkEntityChildrens(t, start) ==
  LET left[u \in Trees, e \in Entities] ==
        LET visit(s, c) == IF s.NetworkParent[c] = e THEN left[s, c] ELSE s
        IN  IF e \in u.NetworkEntity
            THEN FoldLeft(visit, removeEntity(u, e), SetToSeq(Entities))
            ELSE removeEntity(u, e)
  IN  left[t, start]

(* The entities reached from those of start down a map to parents.         *)
Below(parent, start) ==
  LET grown[found \in SUBSET (Entities \cup start)] ==
        LET next == found \cup {c \in DOMAIN parent : parent[c] \in found}
        IN  IF next = found THEN found ELSE grown[next]
  IN  grown[start]

(* The ghost: the tree of NetworkParent ends at entities that are not in   *)
(* the network; an entity with no Transform is in no tree.                 *)
Asked(t, e) ==
  IF e \in t.NetworkEntity
  THEN Below([c \in Entities |-> IF t.NetworkParent[c] \in t.NetworkEntity
                                 THEN t.NetworkParent[c] ELSE None], {e})
  ELSE IF e \in t.Transform THEN Below(t.parent, {e})
  ELSE {}

removeEntityWithChildren(e) ==
  LET s == [tree EXCEPT !.asked = Asked(tree, e), !.removed = {}]
  IN  tree' = IF e \in tree.NetworkEntity THEN removeNetworkEntityChildrens(s, e)
              ELSE FoldLeft(removeEntity, s, genEntityTree(s, e, s.Transform))
-----------------------------------------------------------------------------
Cycle == "throws"

(* computeAvatarAttachedWorldTransform, relative to the player.            *)
Attached(t, e) == <<PlayerEntity>> \o (IF e \in t.Transform THEN <<e>> ELSE <<>>)

(* Faulty variant: a cycle ends the walk and does not throw.               *)
WorldStopping(t, start) ==
  LET world[e \in Entities, visited \in SUBSET Entities] ==
        LET above == world[t.parent[e], visited \cup {e}]
        IN  IF e \in t.AvatarAttach /\ t.playerTransform THEN Attached(t, e)
            ELSE IF e \notin t.Transform THEN <<>>
            ELSE IF t.parent[e] = None \/ t.parent[e] \in visited THEN <<e>>
            ELSE IF above = Cycle THEN Cycle ELSE Append(above, e)
  IN  world[start, {}]

(* getWorldTransformInternal, with the entities visited before e.          *)
World(t, start) ==
  LET world[e \in Entities, visited \in SUBSET Entities] ==
        LET above == world[t.parent[e], visited \cup {e}]
        IN  IF e \in t.AvatarAttach /\ t.playerTransform THEN Attached(t, e)
            ELSE IF e \notin t.Transform THEN <<>>
            ELSE IF t.parent[e] = None THEN <<e>>
            ELSE IF t.parent[e] \in visited \cup {e} THEN Cycle
            ELSE IF above = Cycle THEN Cycle ELSE Append(above, e)
  IN  world[start, {}]

getWorldTransform(e) == World(tree, e)

(* cyclicParentingChecker on a dirty entity: a walk that has made more     *)
(* steps than there are entities never ends.                               *)
Walk(t, e) ==
  LET outcome[at \in Entities, steps \in 0 .. Cardinality(Entities)] ==
        IF at \notin t.Transform \/ t.parent[at] = None THEN "tree"
        ELSE IF t.parent[at] = e THEN "cyclic"
        ELSE IF steps = 0 THEN "hangs"
        ELSE outcome[t.parent[at], steps - 1]
  IN  outcome[e, Cardinality(Entities)]

cyclicParentingChecker(e) == Walk(tree, e)
-----------------------------------------------------------------------------
Settled(t) == [t EXCEPT !.asked = {}, !.removed = {}]

(* What scenes and the renderer write.  parentEntity of the network library*)
(* clears the parent that the transform holds.                             *)
SetParent(e, p) ==
  tree' = [Settled(tree) EXCEPT !.Transform = @ \cup {e}, !.parent[e] = p]

SetNetworkParent(e, p) ==
  /\ {e, p} \subseteq tree.NetworkEntity /\ e # p
  /\ tree' = [Settled(tree) EXCEPT !.NetworkParent[e] = p, !.Transform = @ \cup {e},
                                   !.parent[e] = None]

SyncEntity(e) ==
  /\ e \notin tree.NetworkEntity
  /\ tree' = [Settled(tree) EXCEPT !.NetworkEntity = @ \cup {e}]

Attach(e) == tree' = [Settled(tree) EXCEPT !.AvatarAttach = @ \cup {e}]

PlayerMoves == tree' = [Settled(tree) EXCEPT !.playerTransform = ~@]

Next ==
  \/ PlayerMoves
  \/ \E e \in Entities :
       \/ removeEntityWithChildren(e) \/ SyncEntity(e) \/ Attach(e)
       \/ \E p \in Entities \cup {None} : SetParent(e, p)
       \/ \E p \in Entities : SetNetworkParent(e, p)

Spec == Init /\ [][Next]_vars
-----------------------------------------------------------------------------
(* engine.removeEntityWithChildren takes the whole subtree and nothing     *)
(* else, whatever cycles the parents make.                                 *)
RemovalTakesSubtree == tree.removed = tree.asked

(* The composition of a world transform has the transform of each ancestor *)
(* once, the outermost first, down to the entity; it throws when and only  *)
(* when following the parents never ends.                                  *)
WorldIsChainOfParents ==
  LET ends(x)  == \/ x \notin tree.Transform \/ tree.parent[x] = None
                  \/ x \in tree.AvatarAttach /\ tree.playerTransform
      up       == [x \in Entities |-> IF ends(x) THEN None ELSE tree.parent[x]]
      chain(w) == SelectSeq(w, LAMBDA x : x # PlayerEntity)
  IN  \A e \in Entities :
        LET w == getWorldTransform(e)
        IN  IF \E x \in Entities : e \in Below(up, {x})
                                     /\ up[x] \in Below(up, {x})
            THEN w = Cycle
            ELSE /\ w # Cycle /\ IsInjective(w)
                 /\ \A i \in 1 .. Len(chain(w)) - 1 : up[chain(w)[i + 1]] = chain(w)[i]
                 /\ e \in tree.Transform => Last(w) = e

(* The check of a modified transform reports the entities that are among   *)
(* their own ancestors, and no others.                                     *)
CheckFindsCycles ==
  LET up == [x \in Entities |-> IF x \in tree.Transform THEN tree.parent[x] ELSE None]
  IN  \A e \in tree.Transform :
        cyclicParentingChecker(e) = "cyclic" <=> up[e] \in Below(up, {e})

(* Not an invariant: an entity below a cycle makes the walk go round it    *)
(* forever.  "And then it will check every tick the parenting": the check  *)
(* of a modified transform ends.                                           *)
CheckEnds == \A e \in tree.Transform : cyclicParentingChecker(e) # "hangs"
=============================================================================
