----------------------------- MODULE TweenSystem -----------------------------
(***************************************************************************)
(* createTweenSystem of ecs/src/systems/tween.ts, with the sequence logic  *)
(* that runs unless the renderer disables it.                              *)
(*                                                                         *)
(* Two systems of the lowest priority.  The first keeps in a cache the     *)
(* bytes of each Tween, whether its completion was told, and whether it    *)
(* has changed in this frame.  The second replaces a completed Tween by    *)
(* the next of its TweenSequence.  The renderer animates the Tween it was  *)
(* sent last and reports in TweenState; it may lag behind.                 *)
(*                                                                         *)
(* A tween is a number and a direction.  of in TweenState is not in the    *)
(* code: the tween the report is about.                                    *)
(***************************************************************************)
EXTENDS Integers, Sequences

CONSTANTS
  Entities,
  Tweens,        \* what a scene may set
  Sequences_,    \* the sequences it may set
  SceneCalls,    \* of the scene: a subset of {"set", "sequence", "delete"}
  Interferes,    \* whether it sets the Tween of a sequence in course
  Lag,           \* ticks the renderer may need to take a new Tween up
  MaxTweenCalls  \* bound on the calls of the scene, for model checking

VARIABLES tweens  \* the row of each entity, and how often the scene has called

vars == <<tweens>>

tween(n, forward) == [n |-> n, forward |-> forward]
None == tween(0, TRUE)
Loops == {"restart", "yoyo", "undefined"}
NoSequence == [sequence |-> <<>>, loop |-> "absent"]
NoCache == [tween |-> None, completed |-> FALSE, changed |-> FALSE]

TweensInit ==
  tweens = [row |-> [e \in Entities |->
                       [Tween         |-> None,
                        TweenState    |-> [status |-> "none", of |-> None],
                        TweenSequence |-> NoSequence,
                        cache         |-> NoCache,
                        restart       |-> None,   \* of restartTweens
                        behind        |-> 0]],
            calls |-> 0]

Init == TweensInit

AnyTween == [n : Tweens, forward : BOOLEAN]

TweensAssumption ==
  /\ 0 \notin Tweens
  /\ Sequences_ \subseteq [sequence : Seq(AnyTween), loop : Loops]

(* Type invariant: a cache entry without bytes says nothing.               *)
TypeOK ==
  \A e \in Entities : LET r == tweens.row[e] IN
    /\ {r.Tween, r.TweenState.of, r.cache.tween, r.restart} \subseteq AnyTween \cup {None}
    /\ r.cache.tween = None => r.cache = NoCache
    /\ r.behind \in 0 .. Lag + 1
-----------------------------------------------------------------------------
(* What a system does for an entity touches its row only.                  *)
tweenChanged(r) == r.Tween # r.cache.tween

(* isCompleted, which the scene calls as tweenCompleted.                   *)
isCompleted(r) ==
  /\ r.TweenState.status # "none" /\ r.Tween # None /\ r.cache.tween # None
  /\ \/ r.TweenState.status = "completed" /\ ~r.cache.changed
     \/ tweenChanged(r) /\ ~r.cache.changed
  /\ ~r.cache.completed

(* Faulty variant: a change does not reset the entry.                      *)
CacheOfWithoutReset(r) ==
  LET calm == [r EXCEPT !.cache.changed = FALSE]
  IN  IF r.Tween = None THEN r
      ELSE IF tweenChanged(r)
      THEN [r EXCEPT !.cache = [tween |-> r.Tween, completed |-> @.completed, changed |-> TRUE]]
      ELSE IF isCompleted(calm) THEN [calm EXCEPT !.cache.completed = TRUE]
      ELSE calm

(* The first system, for one entity with a Tween.                          *)
CacheOf(r) ==
  LET calm == [r EXCEPT !.cache.changed = FALSE]
  IN  IF r.Tween = None THEN r
      ELSE IF tweenChanged(r)
      THEN [r EXCEPT !.cache = [tween |-> r.Tween, completed |-> FALSE, changed |-> TRUE]]
      ELSE IF isCompleted(calm) THEN [calm EXCEPT !.cache.completed = TRUE]
      ELSE calm

backwardsTween(t) == [t EXCEPT !.forward = ~@]

(* The entry is reset when the sequence goes on.                           *)
GoesOn(r, next) ==
  [r EXCEPT !.Tween = next, !.cache = [@ EXCEPT !.completed = FALSE, !.changed = TRUE]]

(* The second system, for one entity with a Tween.                         *)
SequenceOf(r) ==
  LET todo == r.TweenSequence
  IN  IF r.Tween = None \/ ~r.cache.completed \/ todo = NoSequence THEN r
      ELSE IF todo.sequence # <<>>
      THEN GoesOn([r EXCEPT !.TweenSequence.sequence =
                     IF todo.loop = "restart" THEN Append(Tail(@), r.Tween) ELSE Tail(@)],
                  Head(todo.sequence))
      ELSE IF todo.loop = "yoyo" THEN GoesOn(r, backwardsTween(r.Tween))
      ELSE IF todo.loop = "restart"
      THEN [r EXCEPT !.Tween = None, !.cache = NoCache, !.restart = r.Tween]
      ELSE r

(* The Tween taken away in the last tick comes back, whatever was set.     *)
Restart(r) == IF r.restart = None THEN r ELSE [r EXCEPT !.Tween = r.restart, !.restart = None]
-----------------------------------------------------------------------------
(* The setters of Tween: setMove to setTextureMoveContinuous take what     *)
(* they are given, setMoveRotateScale checks it and throws.                *)
setMode(r, n) == [r EXCEPT !.Tween = tween(n, TRUE)]

MoveRotateScaleParams ==
  [axes : SUBSET {"position", "scale"}, startAndEnd : BOOLEAN, duration : {-1, 0}]

assertMoveRotateScaleAxesStartEnd(params) == params.axes # {} /\ params.startAndEnd
assertDuration(params) == params.duration >= 0

setMoveRotateScale(r, n, params) ==
  IF assertMoveRotateScaleAxesStartEnd(params) /\ assertDuration(params) THEN setMode(r, n) ELSE r

SetTweens(r) ==
  IF "set" \in SceneCalls /\ (Interferes \/ r.TweenSequence = NoSequence) THEN Tweens ELSE {}

(* What the scene may do with an entity in a tick, before the two systems. *)
SceneRows(r) ==
  UNION {
    {setMode(r, n) : n \in SetTweens(r)},
    {setMoveRotateScale(r, n, params) : n \in SetTweens(r), params \in MoveRotateScaleParams},
    {[r EXCEPT !.TweenSequence = q] : q \in IF "sequence" \in SceneCalls THEN Sequences_ ELSE {}},
    IF "delete" \in SceneCalls THEN {[r EXCEPT !.Tween = None]} ELSE {}}

(* One tick: the scene, the cache, the sequence.  The renderer is behind   *)
(* with an entity from the tick on in which its Tween is another one.      *)
Ticked(r) ==
  LET done == SequenceOf(Restart(CacheOf(r)))
  IN  [done EXCEPT !.behind = IF done.Tween = done.TweenState.of THEN 0
                              ELSE IF @ <= Lag THEN @ + 1 ELSE @]

TweenTick ==
  /\ \A e \in Entities : tweens.row[e].behind <= Lag
  /\ \/ tweens' = [tweens EXCEPT !.row = [e \in Entities |-> Ticked(@[e])]]
     \/ /\ tweens.calls < MaxTweenCalls
        /\ \E e \in Entities : \E r \in SceneRows(tweens.row[e]) :
             tweens' = [row   |-> [f \in Entities |-> Ticked(IF f = e THEN r ELSE tweens.row[f])],
                        calls |-> tweens.calls + 1]

(* The renderer starts the Tween it was sent, or drops its state with it.  *)
RendererStarts(e) ==
  LET r == tweens.row[e]
  IN  /\ r.TweenState.of # r.Tween
      /\ tweens' = [tweens EXCEPT !.row[e].behind = 0,
           !.row[e].TweenState = [status |-> IF r.Tween = None THEN "none" ELSE "active",
                                  of |-> r.Tween]]

RendererCompletes(e) ==
  /\ tweens.row[e].TweenState.status = "active"
  /\ tweens' = [tweens EXCEPT !.row[e].TweenState.status = "completed"]

Next ==
  \/ TweenTick
  \/ \E e \in Entities : RendererStarts(e) \/ RendererCompletes(e)

Spec == Init /\ [][Next]_vars
-----------------------------------------------------------------------------
(* The completion of a tween is told, and its sequence goes on, only when  *)
(* the renderer has completed that very tween: the report about the tween  *)
(* before, which is still there after a replacement, is not taken for it.  *)
CompletionIsOfThisTween ==
  \A e \in Entities : LET r == tweens.row[e] IN
    (r.cache.completed /\ r.Tween = r.cache.tween)
      => r.TweenState.of = r.Tween /\ r.TweenState.status = "completed"
=============================================================================
