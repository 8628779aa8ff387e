------------------------------ MODULE UiSystem ------------------------------
(***************************************************************************)
(* createReactBasedUiSystem of react-ecs/src/system.ts: who has a UI, and  *)
(* the scale factor and the insets that all UI systems share as variables  *)
(* of the module react-ecs/src/components/utils.ts.                        *)
(*                                                                         *)
(* The two areas of the canvas are treated alike; one stands for both.     *)
(***************************************************************************)
EXTENDS Integers, FiniteSets, Sequences

CONSTANTS
  Systems,      \* a sequence of names: the systems in the order they were added
  Canvases      \* the widths the renderer may report; each has its own insets

VARIABLES ui

vars == <<ui>>

SystemNames == {Systems[i] : i \in DOMAIN Systems}
NoOwner == "undefined"

UiAssumption == Systems \in Seq(SystemNames) /\ NoOwner \notin SystemNames

NoUi == "no ui"
NoSize == "no virtual size"
Disabled == "invalid"

(* Virtual sizes, by what resolveVirtualSize tells apart: 1920x1080 (16:9, *)
(* and the default), 1600x720 (the default on mobile), one that is neither.*)
Desktop == "1920x1080"
Mobile == "1600x720"
Custom == "custom"
Options == {NoSize, Disabled, Desktop, Custom}
Fit(width, size) ==
  width * (CASE size = Desktop -> 6 [] size = Mobile -> 3 [] size = Custom -> 2)

UiInit ==
  ui = [main    |-> [s \in SystemNames |-> NoUi],     \* or the options of it
        extra   |-> [s \in SystemNames |-> NoUi],     \* a renderer of an entity
        removed |-> [s \in SystemNames |-> FALSE],    \* that entity is removed
        live    |-> [s \in SystemNames |-> TRUE],
        canvas |-> 0, mobile |-> FALSE,
        uiScaleFactor |-> 1, uiScaleOwner |-> NoOwner,
        insetArea |-> 0, insetOwner |-> NoOwner,
        quiet |-> 0]              \* ghost: ticks since the last change, to 3

Init == UiInit

TypeOK ==
  /\ ui.main \in [SystemNames -> Options \cup {NoUi}]
  /\ ui.extra \in [SystemNames -> Options \cup {NoUi}]
  /\ ui.removed \in [SystemNames -> BOOLEAN] /\ ui.live \in [SystemNames -> BOOLEAN]
  /\ ui.canvas \in Canvases \cup {0} /\ ui.mobile \in BOOLEAN
  /\ ui.uiScaleFactor \in Nat /\ ui.insetArea \in Canvases \cup {0}
  /\ {ui.uiScaleOwner, ui.insetOwner} \subseteq SystemNames \cup {NoOwner}
-----------------------------------------------------------------------------
setUiScaleFactor(u, scale, s) ==
  [u EXCEPT !.uiScaleFactor = scale, !.uiScaleOwner = s]

(* Faulty variant: anyone may reset.                                       *)
resetUiScaleFactorOfAnyone(u, s) ==
  [u EXCEPT !.uiScaleFactor = 1, !.uiScaleOwner = NoOwner]

(* Resets from a system that is not the owner are ignored.                 *)
resetUiScaleFactor(u, s) ==
  IF u.uiScaleOwner = s THEN [u EXCEPT !.uiScaleFactor = 1, !.uiScaleOwner = NoOwner]
  ELSE u

setInsetArea(u, area, s) == [u EXCEPT !.insetArea = area, !.insetOwner = s]

resetInsetArea(u, s) ==
  IF u.insetOwner = s THEN [u EXCEPT !.insetArea = 0, !.insetOwner = NoOwner] ELSE u

HasUi(u, s) == u.main[s] # NoUi \/ u.extra[s] # NoUi

(* The options of the main renderer win if they have dimensions.           *)
getActiveVirtualSize(u, s) ==
  IF u.main[s] \notin {NoUi, NoSize} THEN u.main[s]
  ELSE IF u.extra[s] \notin {NoUi, NoSize} THEN u.extra[s]
  ELSE NoSize

resolveVirtualSize(u, s) ==
  LET provided == getActiveVirtualSize(u, s)
  IN  IF provided = NoSize THEN IF u.mobile THEN Mobile ELSE Desktop
      ELSE IF u.mobile /\ provided = Desktop THEN Mobile
      ELSE provided

(* UiScaleSystem of one of the systems.                                    *)
UiScaleSystem(u0, s) ==
  LET u == IF u0.canvas # 0 THEN setInsetArea(u0, u0.canvas, s) ELSE u0
      size == resolveVirtualSize(u, s)
  IN  IF ~HasUi(u, s) \/ size = Disabled THEN resetUiScaleFactor(u, s)
      ELSE IF u.canvas = 0 \/ Fit(u.canvas, size) = u.uiScaleFactor THEN u
      ELSE setUiScaleFactor(u, Fit(u.canvas, size), s)

(* ReactBasedUiSystem of the live systems: renderers of removed entities   *)
(* go.                                                                     *)
ReactBasedUiSystem(u) ==
  LET gone == {s \in SystemNames : u.live[s] /\ u.removed[s]}
  IN  [u EXCEPT !.extra = [s \in SystemNames |-> IF s \in gone THEN NoUi ELSE @[s]],
                !.removed = [s \in SystemNames |-> @[s] /\ s \notin gone]]

(* The systems of every live UI run: all scales, then all renderers.       *)
Scaled(u) ==
  LET After[i \in 0 .. Len(Systems)] ==
        IF i = 0 THEN u
        ELSE IF u.live[Systems[i]] THEN UiScaleSystem(After[i - 1], Systems[i])
        ELSE After[i - 1]
  IN  After[Len(Systems)]

Tick == ui' = [ReactBasedUiSystem(Scaled(ui)) EXCEPT !.quiet = IF @ < 3 THEN @ + 1 ELSE @]

Changed(u) == [u EXCEPT !.quiet = 0]

setUiRenderer(s, options) == ui' = Changed([ui EXCEPT !.main[s] = options])

addUiRenderer(s, options) ==
  ui' = Changed([ui EXCEPT !.extra[s] = options, !.removed[s] = FALSE])

removeUiRenderer(s) ==
  ui' = Changed([ui EXCEPT !.extra[s] = NoUi, !.removed[s] = FALSE])

(* The entity of the additional renderer is removed.                       *)
RemoveEntity(s) ==
  /\ ui.extra[s] # NoUi
  /\ ui' = Changed([ui EXCEPT !.removed[s] = TRUE])

destroy(s) ==
  /\ ui.live[s]
  /\ ui' = Changed(resetInsetArea(resetUiScaleFactor([ui EXCEPT !.live[s] = FALSE], s), s))

(* The renderer reports another canvas; the platform is known late.        *)
CanvasChanges(width) == ui' = Changed([ui EXCEPT !.canvas = width])
PlatformIsMobile == ~ui.mobile /\ ui' = Changed([ui EXCEPT !.mobile = TRUE])

Next ==
  \/ Tick \/ PlatformIsMobile
  \/ \E width \in Canvases : CanvasChanges(width)
  \/ \E s \in SystemNames :
       \/ removeUiRenderer(s) \/ RemoveEntity(s) \/ destroy(s)
       \/ \E options \in Options : setUiRenderer(s, options) \/ addUiRenderer(s, options)

Spec == Init /\ [][Next]_vars
-----------------------------------------------------------------------------
(* The systems that would scale the UI now.                                *)
Scaling(u) == {s \in SystemNames :
                 u.live[s] /\ HasUi(u, s) /\ resolveVirtualSize(u, s) # Disabled}

(* The scale factor belongs to a live system; three ticks after the last   *)
(* change it fits the virtual size of one that has a UI, or is 1 if there  *)
(* is none: a system that goes, or has nothing to show, never takes away   *)
(* the scale of another, and never leaves its own behind.                  *)
ScaleIsOfLiveUi ==
  /\ ui.uiScaleFactor # 1 => ui.live[ui.uiScaleOwner]
  /\ ui.quiet = 3 /\ ui.canvas # 0 =>
       /\ IF Scaling(ui) = {} THEN ui.uiScaleFactor = 1
          ELSE \E s \in Scaling(ui) :
                 ui.uiScaleFactor = Fit(ui.canvas, resolveVirtualSize(ui, s))
       /\ (\E s \in SystemNames : ui.live[s]) => ui.insetArea = ui.canvas
=============================================================================
