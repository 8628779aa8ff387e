------------------------------- MODULE UiTree -------------------------------
(***************************************************************************)
(* The host of React in react-ecs/src/reconciler: instances, their order   *)
(* among siblings, their listeners and the changes of their properties.    *)
(*                                                                         *)
(* React calls the host with what its diff found; every order of legal     *)
(* calls is possible.  An instance is its entity.  The renderer lays the   *)
(* UI out from the UiTransforms alone, where each sibling names the one it *)
(* is right of.                                                            *)
(***************************************************************************)
EXTENDS Naturals, SequencesExt

CONSTANTS
  Instances,    \* entities, numbers above 0
  Listeners,    \* onMouseDown, onMouseUp, onMouseEnter, onMouseLeave
  PropValues,   \* values of one property, "undefined" and "zero" among them
  Styled        \* the instances whose properties and listeners vary

VARIABLES ui    \* record of the instances, the components and the listeners

vars == <<ui>>
Nobody == 0              \* the canvas as a parent, undefined as a sibling
Missing == "missing"     \* a key that is not in the properties
Falsy == {"undefined", "zero", Missing}
Props == PropValues \cup {Missing}
Default == [parent |-> Nobody, rightOf |-> Nobody, value |-> "undefined"]

UiInit ==
  ui = [life        |-> [i \in Instances |-> "unused"],
        _child      |-> [i \in Instances |-> <<>>],
        rightOf     |-> [i \in Instances |-> Nobody],
        parent      |-> [i \in Instances |-> Nobody],
        props       |-> [i \in Instances |-> Missing],
        UiTransform |-> [i \in Instances |-> Default],
        given       |-> [i \in Instances |-> {}],  \* listeners in the properties
        clickEvents |-> [i \in Instances |-> {}],
        registered  |-> [i \in Instances |-> {}]]  \* with the pointer events system

Init == UiInit

(* Type invariant: a list of children has each once and not the parent.    *)
TypeOK ==
  /\ ui.life \in [Instances -> {"unused", "detached", "placed", "removed"}]
  /\ \A i \in Instances :
       /\ ToSet(ui._child[i]) \subseteq Instances \ {i}
       /\ IsInjective(ui._child[i])
       /\ ui.UiTransform[i].value \in Props \cup {"undefined"}
-----------------------------------------------------------------------------
(* updateTree: rightOf and parent are written to the instance and to the   *)
(* component together.                                                     *)
SetRightOf(u, i, sibling) ==
  [u EXCEPT !.rightOf[i] = sibling, !.UiTransform[i].rightOf = sibling]

SetParent(u, i, p) ==
  [u EXCEPT !.parent[i] = p, !.UiTransform[i].parent = p]

LastOr(s) == IF s = <<>> THEN Nobody ELSE Last(s)
Others(s, i) == SelectSeq(s, LAMBDA x : x # i)

(* Faulty variant: a child that moves to the end stays where it was, too.  *)
appendChildAgain(u, p, c) ==
  SetParent(SetRightOf([u EXCEPT !._child[p] = Append(@, c)], c, LastOr(u._child[p])), c, p)

(* appendChild: a new child, or one that moves to the end.                 *)
appendChild(u, p, c) ==
  LET behind == {x \in ToSet(u._child[p]) : u.rightOf[x] = c}
      next   == CHOOSE x \in behind : TRUE
      freed  == IF behind = {} THEN u ELSE SetRightOf(u, next, u.rightOf[c])
      list   == Others(u._child[p], c)
  IN  SetParent(SetRightOf([freed EXCEPT !._child[p] = Append(list, c)], c, LastOr(list)),
                c, p)

(* The sibling after c in the list takes over what c was right of.         *)
Unlinked(u, p, c) ==
  LET at == CHOOSE k \in DOMAIN u._child[p] : u._child[p][k] = c
      closed == IF at = Len(u._child[p]) THEN u
                ELSE SetRightOf(u, u._child[p][at + 1], u.rightOf[c])
  IN  [closed EXCEPT !._child[p] = Others(@, c)]

insertBefore(u, p, c, before) ==
  LET moved  == IF c \in ToSet(u._child[p]) THEN Unlinked(u, p, c) ELSE u
      at     == CHOOSE k \in DOMAIN moved._child[p] : moved._child[p][k] = before
      linked == SetRightOf([moved EXCEPT !._child[p] = InsertAt(@, at, c)],
                           c, moved.rightOf[before])
  IN  IF c \in ToSet(u._child[p]) /\ u.rightOf[before] = c THEN u
      ELSE SetRightOf(SetParent(linked, c, p), before, c)

(* The instance and everything below it.                                   *)
Below(u, c) ==
  LET more(S, x) == S \cup UNION {ToSet(u._child[i]) : i \in S}
  IN  FoldLeft(more, {c}, SetToSeq(Instances))

(* removeChildEntity, down the tree: the callbacks and the entities go.    *)
removeChildEntity(u, c) ==
  LET gone == Below(u, c)
  IN  [u EXCEPT !.life = [i \in Instances |-> IF i \in gone THEN "removed" ELSE @[i]],
                !.clickEvents = [i \in Instances |-> IF i \in gone THEN {} ELSE @[i]],
                !.UiTransform = [i \in Instances |-> IF i \in gone THEN Default ELSE @[i]]]

(* Faulty variant: the siblings are not looked at.                         *)
removeChildOnly(u, p, c) ==
  removeChildEntity([u EXCEPT !._child[p] = Others(@, c)], c)

removeChild(u, p, c) == removeChildEntity(Unlinked(u, p, c), c)
-----------------------------------------------------------------------------
(* isEqual takes all falsy values for equal.                               *)
isEqual(v, w) == v = w \/ {v, w} \subseteq Falsy

(* propsChanged of one key: a key of the old properties that differs, or   *)
(* one that only the new ones have and that is not undefined.              *)
propsChanged(old, new) ==
  \/ old # Missing /\ ~isEqual(old, new)
  \/ old = Missing /\ new \notin {Missing, "undefined"}

Written(u, i, v) == [u EXCEPT !.UiTransform[i].value = IF v = Missing THEN "undefined" ELSE v]

(* upsertListener: the first listener of a kind is registered; a later one *)
(* takes its place, since the registered function looks the listener up.   *)
upsertListener(u, i, l, present) ==
  IF ~present
  THEN [u EXCEPT !.clickEvents[i] = @ \ {l}, !.registered[i] = @ \ {l}]
  ELSE IF l \in u.clickEvents[i] THEN u
  ELSE [u EXCEPT !.clickEvents[i] = @ \cup {l}, !.registered[i] = @ \cup {l}]

(* commitUpdate of what prepareUpdate found.                               *)
commitUpdate(u, i, v, given) ==
  LET told(w, l) == IF (l \in given) = (l \in u.given[i]) THEN w
                    ELSE upsertListener(w, i, l, l \in given)
      styled == IF propsChanged(u.props[i], v) THEN Written(u, i, v) ELSE u
  IN  FoldLeft(told, [styled EXCEPT !.props[i] = v, !.given[i] = given],
               SetToSeq(Listeners))

createInstance(u, i, v, given) ==
  LET add(w, l) == upsertListener(w, i, l, TRUE)
  IN  FoldLeft(add, Written([u EXCEPT !.life[i] = "detached", !.props[i] = v,
                                      !.given[i] = given], i, v),
               SetToSeq(given))
-----------------------------------------------------------------------------
Life(i) == ui.life[i]
IsChild(p, c) == c \in ToSet(ui._child[p])

(* A new subtree is put together bottom-up before its root is placed.      *)
IsRoot(i) == \A p \in Instances : ~IsChild(p, i)

(* appendChild, appendInitialChild.                                        *)
Append_(p, c) ==
  /\ p # c /\ p \notin Below(ui, c)
  /\ \/ Life(p) = "placed" /\ (IsChild(p, c) \/ (Life(c) = "detached" /\ IsRoot(c)))
     \/ Life(p) = "detached" /\ Life(c) = "detached" /\ IsRoot(c)
  /\ ui' = (LET done == appendChild(ui, p, c)
          IN  [done EXCEPT !.life = [i \in Instances |-> IF i \in Below(done, c)
                                                          THEN ui.life[p] ELSE @[i]]])

(* appendChildToContainer: the container has no keys, nothing is written.  *)
AppendToContainer(c) ==
  /\ Life(c) = "detached" /\ IsRoot(c)
  /\ ui' = ([ui EXCEPT !.life = [i \in Instances |-> IF i \in Below(ui, c)
                                                    THEN "placed" ELSE @[i]]])

InsertBefore(p, c, before) ==
  /\ Life(p) = "placed" /\ IsChild(p, before) /\ c \notin {before, p}
  /\ p \notin Below(ui, c)
  /\ IsChild(p, c) \/ (Life(c) = "detached" /\ IsRoot(c))
  /\ ui' = (LET done == insertBefore(ui, p, c, before)
          IN  [done EXCEPT !.life = [i \in Instances |-> IF i \in Below(done, c)
                                                          THEN "placed" ELSE @[i]]])

RemoveChild(p, c) ==
  /\ Life(p) = "placed" /\ IsChild(p, c)
  /\ ui' = (removeChild(ui, p, c))

removeChildFromContainer(c) ==
  /\ Life(c) = "placed" /\ IsRoot(c)
  /\ ui' = (removeChildEntity(ui, c))

(* React makes instances one by one, with entities that addEntity gives.   *)
Create(i, v, given) ==
  /\ Life(i) = "unused"
  /\ \A j \in Instances : j < i => Life(j) # "unused"
  /\ ui' = (createInstance(ui, i, v, given))

Update(i, v, given) ==
  /\ Life(i) = "placed"
  /\ ui' = (commitUpdate(ui, i, v, given))

Next ==
  \E i \in Instances :
    \/ AppendToContainer(i) \/ removeChildFromContainer(i)
    \/ \E v \in IF i \in Styled THEN Props ELSE {Missing},
           given \in IF i \in Styled THEN SUBSET Listeners ELSE {{}} :
         Create(i, v, given) \/ Update(i, v, given)
    \/ \E c \in Instances :
         \/ Append_(i, c) \/ RemoveChild(i, c)
         \/ \E before \in Instances : InsertBefore(i, c, before)

Spec == Init /\ [][Next]_vars
-----------------------------------------------------------------------------
(* What the renderer reads is what React built: every child's UiTransform  *)
(* names its parent and the sibling before it, so that rightOf is a chain  *)
(* through all children in order, after any sequence of moves; the value   *)
(* of a property is the one given last, up to falsy ones; and the listeners*)
(* that can be called are those given.                                     *)
CanvasMatchesTree ==
  \A i \in Instances : ui.life[i] \in {"placed", "detached"} =>
    /\ \A k \in DOMAIN ui._child[i] :
         LET t == ui.UiTransform[ui._child[i][k]]
         IN  t.parent = i /\ t.rightOf = (IF k = 1 THEN Nobody ELSE ui._child[i][k - 1])
    /\ isEqual(ui.UiTransform[i].value, ui.props[i])
    /\ ui.clickEvents[i] = ui.given[i] /\ ui.registered[i] = ui.given[i]
=============================================================================
