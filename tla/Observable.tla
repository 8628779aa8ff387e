----------------------------- MODULE Observable -----------------------------
(***************************************************************************)
(* class Observable of sdk/src/internal/Observable.ts.                     *)
(*                                                                         *)
(* notifyObservers walks the live array of observers; callbacks add and    *)
(* remove observers, also themselves, while it does.  An observer removed  *)
(* is marked at once and taken out of the array in a microtask of its own, *)
(* when no walk is going on.                                               *)
(*                                                                         *)
(* notifyObserversWithPromise takes the observers of its moment and calls  *)
(* them one after the other, each when the promise of the one before is    *)
(* kept; one such chain at a time is the bound here.                       *)
(*                                                                         *)
(* Ghosts: called (in the notification), calledEver (those of addOnce),    *)
(* atStart (observers of the start that were not removed since), whole.    *)
(***************************************************************************)
EXTENDS Naturals, Sequences, Functions

CONSTANTS
  Observers,      \* numbers from 1, in the order of their creation
  Masks,          \* of observers and notifications, as sets of bits
  OnceObservers   \* those added with addOnce

ObservableAssumption == Observers \subseteq Nat /\ OnceObservers \subseteq Observers

VARIABLES observable

vars == <<observable>>

ObservableInit ==
  observable = [observers |-> <<>>,
                mask     |-> [o \in Observers |-> {}],
                unregisterOnNextCall |-> [o \in Observers |-> FALSE],
                willBeUnregistered   |-> [o \in Observers |-> FALSE],
                microtasks |-> {},
                created    |-> 0,
                cursor     |-> 0,          \* 0 outside notifyObservers
                eventMask  |-> {},
                skipNextObservers |-> FALSE,
                called     |-> [o \in Observers |-> 0],
                calledEver |-> [o \in Observers |-> 0],
                atStart |-> {}, whole |-> FALSE,
                chain |-> [i \in {} |-> 0]]   \* by place in the array

Init == ObservableInit

(* Type invariant: an observer is in the array once, and those that wait   *)
(* for their removal are marked.                                           *)
TypeOK ==
  /\ Range(observable.observers) \subseteq Observers
  /\ IsInjective(observable.observers)
  /\ observable.cursor \in 0 .. Len(observable.observers)
  /\ \A o \in observable.microtasks : observable.willBeUnregistered[o]
-----------------------------------------------------------------------------
Walking == observable.cursor # 0
There(b, o) == o \in Range(b.observers)

_deferUnregister(b, leaving) ==
  [b EXCEPT !.unregisterOnNextCall = [o \in Observers |-> @[o] /\ o \notin leaving],
            !.willBeUnregistered = [o \in Observers |-> @[o] \/ o \in leaving],
            !.microtasks = @ \cup leaving, !.atStart = @ \ leaving]

(* add and addOnce; at the front only outside a notification.              *)
add(insertFirst, mask) ==
  LET o == observable.created + 1
  IN  /\ o \in Observers /\ ~(insertFirst /\ Walking)
      /\ observable' = [observable EXCEPT
           !.created = o,
           !.mask[o] = mask,
           !.unregisterOnNextCall[o] = o \in OnceObservers,
           !.observers = IF insertFirst THEN <<o>> \o @ ELSE Append(@, o)]

(* remove, and removeCallback of the first observer with the callback.     *)
remove(o) ==
  /\ There(observable, o)
  /\ observable' = _deferUnregister(observable, {o})

(* clear, outside a notification.                                          *)
clear ==
  /\ ~Walking
  /\ observable' = [observable EXCEPT !.observers = <<>>]

(* A microtask: the observer is taken out, if it is in the array.          *)
_remove(o) ==
  /\ ~Walking /\ o \in observable.microtasks
  /\ IF There(observable, o)
     THEN \E i \in DOMAIN observable.observers :
            /\ observable.observers[i] = o
            /\ observable' = [observable EXCEPT !.microtasks = @ \ {o},
                                                !.observers = SubSeq(@, 1, i - 1) \o SubSeq(@, i + 1, Len(@))]
     ELSE observable' = [observable EXCEPT !.microtasks = @ \ {o}]

(* One observer of the walk; what its callback does are the actions above. *)
Visit(b, i) ==
  LET o      == b.observers[i]
      at     == [b EXCEPT !.cursor = i]
      called == [at EXCEPT !.called[o] = @ + 1,
                           !.calledEver[o] = IF o \in OnceObservers THEN @ + 1 ELSE 0]
  IN  IF b.willBeUnregistered[o] \/ b.mask[o] \cap b.eventMask = {} THEN at
      ELSE IF b.unregisterOnNextCall[o]
           THEN [_deferUnregister(called, {o}) EXCEPT !.atStart = @ \cup {o}]
      ELSE called

notifyObservers(mask) ==
  /\ ~Walking /\ observable.observers # <<>>
  /\ observable' =
       Visit([observable EXCEPT
                !.eventMask = mask, !.skipNextObservers = FALSE, !.whole = FALSE,
                !.called = [o \in Observers |-> 0],
                !.atStart = {o \in Range(observable.observers) :
                               ~observable.willBeUnregistered[o]}], 1)

VisitNext ==
  /\ Walking /\ ~observable.skipNextObservers
  /\ observable.cursor < Len(observable.observers)
  /\ observable' = Visit(observable, observable.cursor + 1)

(* A callback sets skipNextObservers.                                      *)
Skip ==
  /\ Walking
  /\ observable' = [observable EXCEPT !.skipNextObservers = TRUE]

NotifyReturns ==
  /\ Walking
  /\ observable.skipNextObservers \/ observable.cursor = Len(observable.observers)
  /\ observable' = [observable EXCEPT !.cursor = 0,
                                      !.whole = ~observable.skipNextObservers]

(* notifyObserver: one observer, whatever became of it; what a callback    *)
(* said of the walk is forgotten, since the two share their state.         *)
notifyObserver ==
  observable' = [observable EXCEPT !.skipNextObservers = FALSE]

-----------------------------------------------------------------------------
Chosen(b, mask) ==
  {i \in DOMAIN b.observers : /\ ~b.willBeUnregistered[b.observers[i]]
                             /\ b.mask[b.observers[i]] \cap mask # {}}

Begun(b, mask) ==
  [b EXCEPT !.skipNextObservers = FALSE,
            !.chain = [i \in Chosen(b, mask) |-> b.observers[i]]]

Chained(b, mask) ==
  _deferUnregister(Begun(b, mask), {o \in {b.observers[i] : i \in Chosen(b, mask)} :
                                      b.unregisterOnNextCall[o]})

notifyObserversWithPromise(mask) ==
  /\ DOMAIN observable.chain = {} /\ observable.observers # <<>>
  /\ observable' = Chained(observable, mask)

(* The promise of the one before is kept; if this one breaks its own, the  *)
(* others are not called.                                                  *)
CallPromised ==
  /\ ~Walking
  /\ \E i \in DOMAIN observable.chain : \E others \in SUBSET (DOMAIN observable.chain \ {i}) :
       /\ \A j \in DOMAIN observable.chain : i <= j
       /\ others \in {{}, DOMAIN observable.chain \ {i}}
       /\ observable' = [observable EXCEPT
            !.chain = [j \in others |-> @[j]],
            !.calledEver[observable.chain[i]] =
               IF observable.chain[i] \in OnceObservers THEN @ + 1 ELSE 0]

Next ==
  \/ notifyObserver \/ CallPromised
  \/ VisitNext \/ Skip \/ NotifyReturns \/ clear
  \/ \E o \in Observers : remove(o) \/ _remove(o)
  \/ \E mask \in Masks :
       \/ notifyObservers(mask) \/ notifyObserversWithPromise(mask)
       \/ \E first \in BOOLEAN : add(first, mask)

Spec == Init /\ [][Next]_vars
-----------------------------------------------------------------------------
(* No observer hears a notification twice, one added with addOnce hears one*)
(* in all, be it at once or in a chain of promises, and a notification that*)
(* nobody stopped has reached every observer with the mask that was there  *)
(* and was not removed.                                                    *)
HeardAtMostOnce ==
  /\ \A o \in Observers : observable.called[o] <= 1
  /\ \A o \in OnceObservers : observable.calledEver[o] <= 1
  /\ (observable.whole /\ ~Walking) =>
       \A o \in observable.atStart :
         observable.mask[o] \cap observable.eventMask # {} => observable.called[o] = 1
=============================================================================
