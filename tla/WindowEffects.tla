---------------------------- MODULE WindowEffects ----------------------------
(***************************************************************************)
(* The effects of windows (WindowManager in js/ui/windowManager.js): the   *)
(* compositor asks for one when a window is mapped, minimized, shown       *)
(* again, resized or destroyed, and waits to be told that it has ended;    *)
(* a window that has attached dialogs is dimmed.  When the workspace is    *)
(* switched the windows of both move by, in groups of the switch.          *)
(*                                                                         *)
(* An effect is an entry of a list and an animation of properties of the   *)
(* window's actor.  An animation that takes a property from another tells  *)
(* it so; removing the animations of an actor tells nobody.  The           *)
(* compositor is told by page as well, which animates nothing and answers  *)
(* each request when it comes (page-page.cxx).                             *)
(***************************************************************************)
EXTENDS Naturals, FiniteSets, FiniteSetsExt

CONSTANTS Window,
          TransientFor,   \* window -> the one it belongs to, or NoWindow
          NoWindow,
          Workspace,
          MaxLost         \* bound on the entries of _unminimizing when one is added

ConstantsAssumption ==
  /\ MaxLost \in Nat /\ NoWindow \notin Window
  /\ TransientFor \in [Window -> Window \cup {NoWindow}]
  /\ \A x \in Window : TransientFor[x] # x

Kind == {"minimizing", "unminimizing", "mapping", "resizing", "destroying"}
Property == {"opacity", "scale_x", "scale_y", "position", "translation"}
Scale == {"scale_x", "scale_y"}

VARIABLES
  life,           \* window -> "none", "open", "closing" or "gone"
  minimized,      \* the windows that are
  monitor_sized,  \* the windows that fill their monitor
  modal,          \* the windows whose type is MODAL_DIALOG
  _windowType,    \* those of which the handler last saw that
  effects,        \* the lists _minimizing ...: kind -> window -> entries
  tweens,         \* window -> the animations of its actor
  animationInfo,  \* windows with __animationInfo
  owed,           \* requests that are not answered here yet, by kind and window
  counted,        \* those that the compositor takes to be under way
  _skippedActors,
  overview,       \* the overview is visible
  _dimmed, _dimmedWindows,
  dimFactor,      \* windows that are dimmed, or getting so
  switching       \* the workspace, and the switch to it

vars == <<life, minimized, monitor_sized, modal, _windowType, effects, tweens, animationInfo,
          owed, counted, _skippedActors, overview, _dimmed, _dimmedWindows, dimFactor, switching>>

-----------------------------------------------------------------------------
(* What the handlers change.                                               *)
World == [effects |-> effects, tweens |-> tweens, info |-> animationInfo, owed |-> owed,
          counted |-> counted, dimmed |-> _dimmed, list |-> _dimmedWindows, factor |-> dimFactor]

Becomes(w) ==
  /\ effects' = w.effects /\ tweens' = w.tweens /\ animationInfo' = w.info /\ owed' = w.owed
  /\ counted' = w.counted
  /\ _dimmed' = w.dimmed /\ _dimmedWindows' = w.list /\ dimFactor' = w.factor

(* The compositor counts; an answer that it does not wait for is an error  *)
(* that it logs.                                                           *)
EffectCompleted(w, kind, x) == [w EXCEPT !.counted[kind][x] = IF @ = 0 THEN 0 ELSE @ - 1]

Answer(w, kind, x) == [EffectCompleted(w, kind, x) EXCEPT !.owed[kind][x] = @ - 1]

(* page_t::_handler_plugin_minimize and its kin.                           *)
PageAnswers(w, kind, x) == EffectCompleted(w, kind, x)

_removeEffect(w, kind, x) == [w EXCEPT !.effects[kind][x] = @ - 1]

(* What ends with an entry: its answer, or what a resize kept.             *)
Ended(w, kind, x) ==
  IF kind = "resizing" THEN [_removeEffect(w, kind, x) EXCEPT !.info = @ \ {x}]
  ELSE Answer(_removeEffect(w, kind, x), kind, x)

(* _minimizeWindowDone and its kin: once for each entry.  All but that of  *)
(* a destruction remove every animation of the actor.                      *)
Done(w, kind, x) ==
  IF w.effects[kind][x] = 0 THEN w
  ELSE IF kind = "destroying" THEN Ended(w, kind, x)
  ELSE [Ended(w, kind, x) EXCEPT !.tweens[x] = {}]

(* _minimizeWindowOverwritten and its kin.                                 *)
Overwritten(w, kind, x) ==
  IF w.effects[kind][x] = 0 THEN w ELSE Ended(w, kind, x)

(* Tweener.addTween, with the entry that was pushed before: each animation *)
(* that loses a property is told, and goes with its last.                  *)
Animate(w, kind, x, properties) ==
  LET pushed == [w EXCEPT !.effects[kind][x] = @ + 1]
      hit == {t \in w.tweens[x] : t.properties \cap properties # {}}
      told == FoldSet(LAMBDA t, v : Overwritten(v, t.kind, x), pushed, hit)
      left == {[t EXCEPT !.properties = @ \ properties] : t \in w.tweens[x]}
  IN  [told EXCEPT !.tweens[x] =
         {t \in left : t.properties # {}} \cup {[kind |-> kind, properties |-> properties]}]

(* 'kill-window-effects': one kind is not among them.                      *)
KillEffects(w, x) ==
  Done(Done(Done(Done(w, "minimizing", x), "mapping", x), "destroying", x), "resizing", x)

(* A request of the compositor, which page hears first.                    *)
Asked(w, kind, x) ==
  PageAnswers([w EXCEPT !.owed[kind][x] = @ + 1, !.counted[kind][x] = @ + 1], kind, x)

-----------------------------------------------------------------------------
(* The dialogs that are attached to a window.                              *)
Attached(p) == {x \in Window : TransientFor[x] = p /\ x \in modal /\ life[x] = "open"}

(* The window p, with these dialogs.                                       *)
_checkDimming(w, p, attached) ==
  IF (attached # {}) = (p \in w.dimmed) THEN w
  ELSE IF attached # {}
       THEN [w EXCEPT !.dimmed = @ \cup {p}, !.list = @ \cup {p}, !.factor = @ \cup {p}]
       ELSE [w EXCEPT !.dimmed = @ \ {p}, !.list = @ \ {p}, !.factor = @ \ {p}]

-----------------------------------------------------------------------------
(* _shouldAnimateActor: a skipped actor is skipped once; an actor may have *)
(* no texture.                                                             *)
ShouldAnimate(x, textured) == x \notin _skippedActors /\ ~overview /\ textured
Skipped(x) == _skippedActors' = _skippedActors \ {x}

Init ==
  /\ life = [x \in Window |-> "none"]
  /\ minimized = {} /\ monitor_sized = {} /\ modal = {} /\ _windowType = {}
  /\ effects = [k \in Kind |-> [x \in Window |-> 0]]
  /\ tweens = [x \in Window |-> {}] /\ animationInfo = {}
  /\ owed = [k \in Kind |-> [x \in Window |-> 0]]
  /\ counted = [k \in Kind |-> [x \in Window |-> 0]]
  /\ _skippedActors = {} /\ overview = FALSE
  /\ _dimmed = {} /\ _dimmedWindows = {} /\ dimFactor = {}
  /\ \E s \in Workspace :
       switching = [active |-> s, at |-> [x \in Window |-> s], data |-> <<>>, on |-> FALSE,
                    parent |-> [x \in Window |-> "home"], _movingWindow |-> NoWindow, owed |-> 0]

(* Its type is one that is animated; a dialog unfolds.                     *)
_mapWindow(x, isModal, textured) ==
  LET p == TransientFor[x]
      w == Asked(KillEffects(World, x), "mapping", x)
      dimmed == IF isModal THEN _checkDimming(w, p, Attached(p) \cup {x}) ELSE w
  IN  /\ life[x] = "none"
      /\ IF p = NoWindow THEN ~isModal ELSE life[p] = "open"
      /\ life' = [life EXCEPT ![x] = "open"]
      /\ modal' = IF isModal THEN modal \cup {x} ELSE modal
      /\ _windowType' = IF isModal THEN _windowType \cup {x} ELSE _windowType
      /\ Becomes(IF ShouldAnimate(x, textured)
                 THEN Animate(dimmed, "mapping", x, {"opacity"} \cup Scale)
                 ELSE Answer(dimmed, "mapping", x))
      /\ Skipped(x)
      /\ switching' = [switching EXCEPT !.at[x] = switching.active]
      /\ UNCHANGED <<minimized, monitor_sized, overview>>

(* A window that fills its monitor fades, another shrinks to its icon.     *)
Shrink(x) == IF x \in monitor_sized THEN {"opacity"} ELSE {"position"} \cup Scale

_minimizeWindow(x, textured) ==
  LET w == Asked(KillEffects(World, x), "minimizing", x)
  IN  /\ life[x] = "open" /\ x \notin minimized
      /\ minimized' = minimized \cup {x}
      /\ Becomes(IF ShouldAnimate(x, textured) THEN Animate(w, "minimizing", x, Shrink(x))
                 ELSE Answer(w, "minimizing", x))
      /\ Skipped(x)
      /\ UNCHANGED <<life, monitor_sized, modal, _windowType, overview, switching>>

_unminimizeWindow(x, textured) ==
  LET w == Asked(KillEffects(World, x), "unminimizing", x)
  IN  /\ life[x] = "open" /\ x \in minimized /\ effects["unminimizing"][x] <= MaxLost
      /\ minimized' = minimized \ {x}
      /\ Becomes(IF ShouldAnimate(x, textured) THEN Animate(w, "unminimizing", x, Shrink(x))
                 ELSE Answer(w, "unminimizing", x))
      /\ Skipped(x)
      /\ UNCHANGED <<life, monitor_sized, modal, _windowType, overview, switching>>

(* Mutant of _prepareAnimationInfo: what was kept is replaced in silence.  *)
PreparesSilently(w, x) == [w EXCEPT !.info = @ \cup {x}]

(* _prepareAnimationInfo: what was kept for an earlier one goes.           *)
_prepareAnimationInfo(w, x) ==
  LET cleared == IF x \in w.info THEN Answer(w, "resizing", x) ELSE w
  IN  [cleared EXCEPT !.info = @ \cup {x}]

(* Only normal windows are resized with an effect; the old frame may be    *)
(* empty.                                                                  *)
_sizeChangeWindow(x, full, empty, textured) ==
  LET w == Asked(KillEffects(World, x), "resizing", x)
  IN  /\ life[x] = "open" /\ TransientFor[x] = NoWindow
      /\ full # (x \in monitor_sized)
      /\ monitor_sized' = IF full THEN monitor_sized \cup {x} ELSE monitor_sized \ {x}
      /\ Becomes(IF ShouldAnimate(x, textured) /\ ~empty THEN _prepareAnimationInfo(w, x)
                 ELSE Answer(w, "resizing", x))
      /\ Skipped(x)
      /\ UNCHANGED <<life, minimized, modal, _windowType, overview, switching>>

(* The new size is there: the old picture fades while the actor grows.     *)
_sizeChangedWindow(x) ==
  /\ life[x] = "open" /\ x \in animationInfo /\ effects["resizing"][x] = 0
  /\ Becomes(Answer(Animate(World, "resizing", x, {"translation"} \cup Scale), "resizing", x))
  /\ UNCHANGED <<life, minimized, monitor_sized, modal, _windowType, _skippedActors, overview, switching>>

(* _destroyWindow for one window that leaves.                              *)
Destroyed(w, x, textured) ==
  LET p == TransientFor[x]
      asked == Asked([w EXCEPT !.list = @ \ {x}], "destroying", x)
      checked == IF x \in modal THEN _checkDimming(asked, p, Attached(p) \ {x}) ELSE asked
      properties == IF p = NoWindow THEN {"opacity"} \cup Scale ELSE {"scale_y"}
  IN  IF ShouldAnimate(x, textured) THEN Animate(checked, "destroying", x, properties)
      ELSE Answer(checked, "destroying", x)

(* The compositor unmanages a window: its attached dialogs first; the      *)
(* handlers of 'unmanaged' end the effects of those.                       *)
_destroyWindow(x, textured) ==
  LET dialogs == Attached(x)
      w1 == FoldSet(LAMBDA d, w : Destroyed(KillEffects(w, d), d, textured), World, dialogs)
      w2 == Destroyed(KillEffects(w1, x), x, textured)
      still == {d \in dialogs : w2.effects["destroying"][d] > 0}
      w3 == FoldSet(LAMBDA d, w : Done([w EXCEPT !.tweens[d] = {}], "destroying", d), w2, still)
  IN  /\ life[x] = "open"
      /\ life' = [y \in Window |-> IF y \in dialogs \cup {x} THEN "closing" ELSE life[y]]
      /\ Becomes(w3)
      /\ _skippedActors' = _skippedActors \ (dialogs \cup {x})
      /\ UNCHANGED <<minimized, monitor_sized, modal, _windowType, overview, switching>>

(* The compositor destroys the actor: its animations go, nobody is told.   *)
ActorDestroyed(x) ==
  /\ life[x] = "closing"
  /\ life' = [life EXCEPT ![x] = "gone"]
  /\ Becomes([World EXCEPT !.tweens[x] = {}])
  /\ UNCHANGED <<minimized, monitor_sized, modal, _windowType, _skippedActors, overview, switching>>

(* Mutant of TweenEnds: none ends while the overview is visible.           *)
TweenEndsOutside(x) ==
  /\ ~overview
  /\ \E t \in tweens[x] : Becomes(Done([World EXCEPT !.tweens[x] = @ \ {t}], t.kind, x))
  /\ UNCHANGED <<life, minimized, monitor_sized, modal, _windowType, _skippedActors, overview, switching>>

(* An animation ends: that of a resize is longer than one that runs beside *)
(* it and began before.                                                    *)
TweenEnds(x) ==
  /\ \E t \in tweens[x] :
       /\ t.kind = "resizing" => tweens[x] = {t}
       /\ Becomes(Done([World EXCEPT !.tweens[x] = @ \ {t}], t.kind, x))
  /\ UNCHANGED <<life, minimized, monitor_sized, modal, _windowType, _skippedActors, overview, switching>>

(* The compositor ends the effects of a window, as when it hides it.       *)
Kill(x) ==
  /\ life[x] = "open" /\ tweens[x] # {}
  /\ Becomes(KillEffects(World, x))
  /\ UNCHANGED <<life, minimized, monitor_sized, modal, _windowType, _skippedActors, overview, switching>>

(* A dialog becomes modal, or is no longer.                                *)
TypeChanges(x) ==
  LET p == TransientFor[x]
      now == IF x \in modal THEN modal \ {x} ELSE modal \cup {x}
  IN  /\ life[x] = "open" /\ p # NoWindow /\ life[p] = "open"
      /\ modal' = now /\ _windowType' = now
      /\ Becomes(_checkDimming(World, p, IF x \in now THEN Attached(p) \cup {x}
                                         ELSE Attached(p) \ {x}))
      /\ UNCHANGED <<life, minimized, monitor_sized, _skippedActors, overview, switching>>

skipNextEffect(x) ==
  /\ life[x] = "open" /\ x \notin _skippedActors
  /\ _skippedActors' = _skippedActors \cup {x}
  /\ UNCHANGED <<life, minimized, monitor_sized, modal, _windowType, effects, tweens,
                 animationInfo, owed, counted, overview, _dimmed, _dimmedWindows, dimFactor, switching>>

(* Nothing is dimmed in the overview, but what gets so while it is shown.  *)
Overview(visible) ==
  /\ overview # visible
  /\ overview' = visible
  /\ dimFactor' = IF visible THEN dimFactor \ _dimmedWindows ELSE dimFactor \cup _dimmedWindows
  /\ UNCHANGED <<life, minimized, monitor_sized, modal, _windowType, effects, tweens,
                 animationInfo, owed, counted, _skippedActors, _dimmed, _dimmedWindows, switching>>

-----------------------------------------------------------------------------
(* A switch takes the windows of both workspaces, and the one that moves,  *)
(* from their parents into groups of its own.                              *)
_switchWorkspace(s, from, to) ==
  LET Shows(x) == life[x] \in {"open", "closing"} /\ x \notin minimized
      taken == {x \in Window : Shows(x) /\ (x = s._movingWindow \/ s.at[x] \in {from, to})}
      Group(x) == IF x = s._movingWindow THEN "moving" ELSE IF s.at[x] = from THEN "out" ELSE "in"
  IN  [s EXCEPT !.data = [x \in taken |-> s.parent[x]], !.on = TRUE, !.owed = @ + 1,
                !.parent = [x \in Window |-> IF x \in taken THEN Group(x) ELSE @[x]]]

(* Its end gives them back, and destroys the groups.                       *)
_switchWorkspaceDone(s) ==
  IF ~s.on THEN s
  ELSE [s EXCEPT !.data = <<>>, !.on = FALSE, !.owed = @ - 1, !._movingWindow = NoWindow,
                 !.parent = [x \in Window |-> IF x \in DOMAIN s.data THEN s.data[x] ELSE @[x]]]

(* Mutant of Activated: a switch that is under way is not ended.           *)
ActivatedOver(s, to, animates) ==
  LET at == [s EXCEPT !.active = to]
  IN  IF animates THEN _switchWorkspace(at, s.active, to) ELSE at

(* The compositor: 'kill-switch-workspace', then 'switch-workspace'.       *)
Activated(s, to, animates) ==
  LET done == _switchWorkspaceDone([s EXCEPT !.active = to])
  IN  IF animates THEN _switchWorkspace(done, s.active, to) ELSE done

actionMoveWorkspace(to) ==
  /\ to # switching.active
  /\ \E animates \in BOOLEAN :
       (overview => ~animates) /\ switching' = Activated(switching, to, animates)
  /\ UNCHANGED <<life, minimized, monitor_sized, modal, _windowType, effects, tweens,
                 animationInfo, owed, counted, _skippedActors, overview, _dimmed,
                 _dimmedWindows, dimFactor>>

(* The window, and what belongs to it, moves along.                        *)
actionMoveWindow(x, to) ==
  LET moved == [switching EXCEPT !._movingWindow = x,
                  !.at = [y \in Window |-> IF y = x \/ TransientFor[y] = x THEN to ELSE @[y]]]
  IN  /\ life[x] = "open" /\ x \notin minimized /\ to # switching.active
      /\ \E animates \in BOOLEAN :
           (overview => ~animates) /\ switching' = Activated(moved, to, animates)
      /\ UNCHANGED <<life, minimized, monitor_sized, modal, _windowType, effects, tweens,
                     animationInfo, owed, counted, _skippedActors, overview, _dimmed,
                     _dimmedWindows, dimFactor>>

SwitchEnds ==
  /\ switching.on /\ switching' = _switchWorkspaceDone(switching)
  /\ UNCHANGED <<life, minimized, monitor_sized, modal, _windowType, effects, tweens,
                 animationInfo, owed, counted, _skippedActors, overview, _dimmed,
                 _dimmedWindows, dimFactor>>

Next ==
  \/ \E x \in Window : \E textured \in BOOLEAN :
       \/ \E isModal \in BOOLEAN : _mapWindow(x, isModal, textured)
       \/ _minimizeWindow(x, textured) \/ _unminimizeWindow(x, textured)
       \/ \E full, empty \in BOOLEAN : _sizeChangeWindow(x, full, empty, textured)
       \/ _destroyWindow(x, textured)
  \/ \E x \in Window :
       \/ _sizeChangedWindow(x) \/ ActorDestroyed(x) \/ TweenEnds(x) \/ Kill(x)
       \/ TypeChanges(x) \/ skipNextEffect(x)
  \/ \E visible \in BOOLEAN : Overview(visible)
  \/ \E to \in Workspace : actionMoveWorkspace(to) \/ \E x \in Window : actionMoveWindow(x, to)
  \/ SwitchEnds

Fairness == \A x \in Window : WF_vars(TweenEnds(x))

Spec == Init /\ [][Next]_vars /\ Fairness

-----------------------------------------------------------------------------
Alive(x) == life[x] \in {"open", "closing"}

TypeOK ==
  /\ life \in [Window -> {"none", "open", "closing", "gone"}]
  /\ minimized \subseteq Window /\ monitor_sized \subseteq Window
  /\ modal \subseteq Window /\ _windowType \subseteq Window
  /\ effects \in [Kind -> [Window -> Nat]]
  /\ tweens \in [Window -> SUBSET [kind : Kind, properties : SUBSET Property]]
  /\ animationInfo \subseteq Window /\ owed \in [Kind -> [Window -> Nat]]
  /\ counted \in [Kind -> [Window -> Nat]]
  /\ _skippedActors \subseteq Window /\ overview \in BOOLEAN
  /\ _dimmed \subseteq Window /\ _dimmedWindows \subseteq Window /\ dimFactor \subseteq Window

(* Each request gets one answer here: what is owed is what is listed, or a *)
(* resize whose new size has not come.                                     *)
AnsweredOnce ==
  \A x \in Window : Alive(x) =>
    /\ \A k \in Kind \ {"resizing"} : owed[k][x] = effects[k][x]
    /\ owed["resizing"][x] = (IF x \in animationInfo /\ effects["resizing"][x] = 0 THEN 1 ELSE 0)

(* The effects that no other removes: the opening of a window, and all of  *)
(* a dialog, which is not resized with an effect.                          *)
Safe(k, x) == k = "mapping" \/ (k # "resizing" /\ TransientFor[x] # NoWindow)

(* Such an effect that the compositor waits for has its animation.         *)
EffectRuns ==
  \A x \in Window : \A k \in Kind :
    Safe(k, x) /\ Alive(x) /\ effects[k][x] > 0 => \E t \in tweens[x] : t.kind = k

(* A window is dimmed while it has attached dialogs, whatever order they   *)
(* and the overview come and go in.                                        *)
DimmedWithDialogs ==
  \A p \in Window : life[p] = "open" =>
    /\ p \in _dimmed <=> Attached(p) # {}
    /\ p \in _dimmed <=> p \in _dimmedWindows
    /\ ~overview => (p \in dimFactor <=> p \in _dimmed)

(* Such an effect that the compositor waits for ends.                      *)
EffectsEnd ==
  \A x \in Window : \A k \in {j \in {"mapping", "minimizing", "destroying"} : Safe(j, x)} :
    owed[k][x] > 0 ~> owed[k][x] = 0 \/ life[x] = "gone"

(* shell-wm.c says that completed_unminimize must be called when the       *)
(* effect has ended.  It is not when another effect of the window removes  *)
(* its animation: 'kill-window-effects' does not end it.                   *)
UnminimizeEnds ==
  \A x \in Window :
    owed["unminimizing"][x] > 0 ~> owed["unminimizing"][x] = 0 \/ life[x] = "gone"

(* A switch of workspaces is answered once, and when it is over no window  *)
(* is left in a group that was destroyed, whatever switch followed it      *)
(* before it had ended.                                                    *)
WindowsComeHome ==
  /\ switching.owed = (IF switching.on THEN 1 ELSE 0)
  /\ \A x \in Window :
       Alive(x) /\ switching.parent[x] # "home" => switching.on /\ x \in DOMAIN switching.data

(* Each request is answered once, by an effect that runs; each window      *)
(* comes back from a switch of workspaces.                                 *)
EffectsSound == TypeOK /\ AnsweredOnce /\ EffectRuns /\ DimmedWithDialogs /\ WindowsComeHome

(* shell-wm.c says that the plugin must call completed_map when it has     *)
(* completed the effect, and so for the others: while one runs, the        *)
(* compositor takes it to be under way.  It does not, for page answers it  *)
(* when it begins.                                                         *)
CountedUntilDone ==
  \A k \in Kind, x \in Window : Alive(x) /\ effects[k][x] > 0 => counted[k][x] > 0

(* Does not hold: the window of a switch that is not animated, as in the   *)
(* overview, is forgotten by the next one that is; and that of a switch    *)
(* which interrupts another is forgotten at once.                          *)
MovingIsSwitched == switching._movingWindow # NoWindow => switching.on

=============================================================================
