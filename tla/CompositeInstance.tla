-------------------------- MODULE CompositeInstance --------------------------
(***************************************************************************)
(* Composites: instanceComposite of ecs/src/composite/instance.ts, and the *)
(* compositeProvider of sdk/src/composite-provider.ts that loads them.     *)
(*                                                                         *)
(* A composite is the Transforms it has, in order, and the composites it   *)
(* nests, as <<entity, src>>.  Paths are resolved sources; the values of   *)
(* the other components are left out, for they are written as Transforms   *)
(* are, with no parent.                                                    *)
(***************************************************************************)
EXTENDS Naturals, FiniteSets, SequencesExt, Functions

CONSTANTS
  Sources,
  Definitions,    \* what the file of a source may hold
  Modes,          \* "none", "next" (EMM_NEXT_AVAILABLE), "direct"
  FirstEntity,    \* the first entity number the engine gives
  LastEntity,     \* bound on the entity numbers it gives
  Available,      \* how many entities getNextAvailableEntity has
  MaxInstances    \* bound on the calls

VARIABLES composites

vars == <<composites>>

Numbers == 0 .. LastEntity
NoEntity == 65535   \* rootEntity is not given; in a table: nothing there
None == [e \in Numbers |-> NoEntity]

(* What goes through a call and those nested in it: the engine, what the   *)
(* instance has mapped, whether it still goes on, and whether a composite  *)
(* nested in it was there.                                                 *)
Tables == [Numbers -> Numbers \cup {NoEntity}]
States ==
  [next : Nat, Transform : Tables, Root : [Numbers -> SUBSET (Numbers \X Numbers)],
   mapped : Tables, ok : BOOLEAN, nested : BOOLEAN]

CompositeInit ==
  \E files \in [Sources -> Definitions] :
    composites = [files |-> files,
                  cached |-> {},        \* composites, the Map of the provider
                  loading |-> [src \in Sources |-> 0],   \* readFile in course
                  next |-> FirstEntity,
                  Transform |-> None,   \* entity to parent
                  Root |-> [e \in Numbers |-> {}],   \* composite::root: the entries
                  calls |-> 0,
                  last |-> <<>>]        \* ghost: the last call and its end

Init == CompositeInit

TypeOK ==
  /\ composites.cached \subseteq Sources
  /\ composites.loading \in [Sources -> 0 .. 2]
  /\ composites.next \in Nat /\ composites.calls \in 0 .. MaxInstances
  /\ composites.Transform \in Tables
-----------------------------------------------------------------------------
(* getEntityMapping: 0 counts as not mapped.                               *)
Mapped(s, e, mode) ==
  IF ~s.ok \/ s.mapped[e] \notin {0, NoEntity} THEN s
  ELSE IF mode = "direct" THEN [s EXCEPT !.mapped[e] = e]
  ELSE IF mode = "next" /\ s.next >= FirstEntity + Available THEN [s EXCEPT !.ok = FALSE]
  ELSE [s EXCEPT !.mapped[e] = s.next, !.next = @ + 1]

(* componentDefinition.create, and the parent afterwards.                  *)
Created(s0, t, mode) ==
  LET s == Mapped(s0, t.entity, mode)
      p == Mapped([s EXCEPT !.Transform[s.mapped[t.entity]] = t.parent], t.parent, mode)
  IN  IF ~s.ok \/ s.Transform[s.mapped[t.entity]] # NoEntity THEN [s EXCEPT !.ok = FALSE]
      ELSE IF ~p.ok THEN p
      ELSE [p EXCEPT !.Transform[s.mapped[t.entity]] = p.mapped[t.parent]]

(* The state of the engine goes through nested calls; mapped is of one.    *)
NestedMode(mode) == IF mode = "next" THEN "next" ELSE "none"

(* One nested composite: one that is not there is skipped.  calls are the  *)
(* instances of a state, a source, a root, and those requested before.     *)
Nested(calls, s0, n, src, requested, mode) ==
  LET s     == Mapped(s0, n[1], mode)
      child == n[2]
      r     == calls[[s EXCEPT !.mapped = None], child, s.mapped[n[1]],
                     requested \cup {child}, NestedMode(mode)]
  IN  IF ~s.ok \/ child \notin composites.cached THEN s
      ELSE IF child \in requested \/ child = src THEN [s EXCEPT !.ok = FALSE]
      ELSE [r EXCEPT !.mapped = s.mapped, !.nested = TRUE]

Rooted(s, rootEntity, mode) ==
  CASE rootEntity = NoEntity -> Mapped(s, 0, mode)
    [] rootEntity = 0        -> s
    [] OTHER                 -> [s EXCEPT !.mapped[0] = rootEntity]

instanceComposite(before, source, given, visited, modeOfCall) ==
  LET calls[s0 \in States, src \in Sources, rootEntity \in Numbers \cup {NoEntity},
            requested \in SUBSET Sources, mode \in Modes] ==
        LET file  == composites.files[src]
            s1    == Rooted([s0 EXCEPT !.nested = FALSE], rootEntity, mode)
            root  == IF rootEntity = NoEntity THEN s1.mapped[0] ELSE rootEntity
            s2    == FoldLeft(LAMBDA s, n : Nested(calls, s, n, src, requested, mode),
                              s1, file.nested)
            s3    == FoldLeft(LAMBDA s, t : Created(s, t, mode), s2, file.transforms)
            pairs == {<<e, s3.mapped[e]>> : e \in {d \in Numbers : s3.mapped[d] # NoEntity}}
        IN  IF ~s1.ok \/ ~s2.nested \/ ~s3.ok THEN s3
            ELSE [s3 EXCEPT !.Root[root] = @ \cup pairs]
  IN  calls[before, source, given, visited, modeOfCall]
-----------------------------------------------------------------------------
(* Composite.instance of a composite the scene has: an entry with a root   *)
(* of its own, or on an entity that is given.                              *)
Instance(src, mode, rootEntity) ==
  LET before == [next |-> composites.next, Transform |-> composites.Transform,
                 Root |-> composites.Root, mapped |-> None,
                 ok |-> TRUE, nested |-> FALSE]
      after  == instanceComposite(before, src, rootEntity, {}, mode)
  IN  /\ composites.calls < MaxInstances /\ src \in composites.cached
      /\ rootEntity # NoEntity => composites.Transform[rootEntity] = NoEntity
      /\ composites' = [composites EXCEPT
           !.next = after.next, !.Transform = after.Transform, !.Root = after.Root,
           !.calls = @ + 1,
           !.last = <<[src |-> src, ok |-> after.ok, mode |-> mode, cached |-> composites.cached,
                       first |-> composites.next, root |-> rootEntity,
                       before |-> composites.Transform,
                       roots |-> composites.Root]>>]

(* loadComposite: what is cached is not read again; of two reads in course *)
(* the first to end makes the resource.                                    *)
LoadStart(src) ==
  /\ src \notin composites.cached /\ composites.loading[src] < 2
  /\ composites' = [composites EXCEPT !.loading[src] = @ + 1, !.last = <<>>]

LoadEnd(src) ==
  /\ composites.loading[src] > 0
  /\ composites' = [composites EXCEPT !.loading[src] = @ - 1,
                                      !.cached = @ \cup {src}, !.last = <<>>]

Next ==
  \E src \in Sources :
    \/ LoadStart(src) \/ LoadEnd(src)
    \/ \E mode \in Modes, root \in {NoEntity, 0, 1} : Instance(src, mode, root)

Spec == Init /\ [][Next]_vars
-----------------------------------------------------------------------------
(* The composites that an instance of src goes through.                    *)
Through(start, cached) ==
  LET reached[found \in SUBSET Sources] ==
        LET nested == UNION {ToSet(composites.files[f].nested) : f \in found}
            next   == found \cup (cached \cap {n[2] : n \in nested})
        IN  IF next = found THEN found ELSE reached[next]
  IN  reached[start]

Cyclic(src, cached) ==
  \E x \in Through({src}, cached) :
    \E n \in ToSet(composites.files[x].nested) :
      n[2] \in cached /\ x \in Through({n[2]}, cached)

(* An instance always ends; it throws if its composites are nested in a    *)
(* cycle, and otherwise only when the entities are spent.                  *)
ThrowsOnlyOnCycle ==
  \A call \in ToSet(composites.last) :
    /\ call.ok => ~Cyclic(call.src, call.cached)
    /\ ~call.ok => \/ Cyclic(call.src, call.cached)
                    \/ /\ call.mode = "next"
                       /\ composites.next = FirstEntity + Available

(* What one instance creates is its own: every Transform it wrote is on an *)
(* entity the engine gave it in this call, no Transform of before changed, *)
(* and the parent of each is such an entity or the root that was given.    *)
InstanceIsItsOwn ==
  \A call \in ToSet(composites.last) : call.ok =>
    LET new == call.first .. composites.next - 1
    IN  \A e \in {x \in Numbers : composites.Transform[x] # NoEntity} :
          IF call.before[e] # NoEntity THEN composites.Transform[e] = call.before[e]
          ELSE e \in new /\ composites.Transform[e] \in new \cup {call.root}
=============================================================================
