-------------------------- MODULE OverviewWorkspace --------------------------
(***************************************************************************)
(* A workspace of the overview, with the clones of its windows             *)
(* (js/ui/workspace.js, Workspace, WindowClone and WindowOverlay).         *)
(*                                                                         *)
(* Windows open, close, move to and from it and are dragged while the      *)
(* overview zooms or fades in and out.  Positions are computed before the  *)
(* next redraw, 750 ms after a window left, or when the overview is shown; *)
(* a new window waits in an idle for the compositor; and the workspace is  *)
(* destroyed with the view and made anew.                                  *)
(*                                                                         *)
(* Abstracted: geometry, the choice of a layout, which is the set of the   *)
(* windows it was computed for, and the stacking; the chrome of a clone    *)
(* but for overlay.hide and overlay.show; attached dialogs.                *)
(***************************************************************************)
EXTENDS FiniteSets, Sequences, SequencesExt

CONSTANTS Window, NoWindow, NoLayout

WorkspaceAssumption == NoWindow \notin Window

VARIABLES
  at,        \* where a window is: here, away on another workspace, or nowhere
  current,   \* is the workspace active?
  overview,  \* what the overview does
  workspace, \* the fields of the Workspace, see Workspaces; exists while alive
  alive,     \* is there a view?
  dragged,   \* the window that is dragged, here or away
  idle,      \* windows whose adding waits, and whether for the workspace that is
  stray      \* windows with a clone in a workspace that was destroyed

vars == <<at, current, overview, workspace, alive, dragged, idle, stray>>

Flags == {"INITIAL", "ANIMATE"}

(* hidden: overlay._hidden.  tween: an animation of the clone will show    *)
(* the overlay.                                                            *)
Clones == [win : Window, positioned : BOOLEAN, inDrag : BOOLEAN, hidden : BOOLEAN,
           tween : BOOLEAN]

(* position, actual: the laters of positions and of the geometry.          *)
(* reposition: the timeout of a removal.  fade: _animatingWindowsFade.     *)
Workspaces ==
  [clones : Seq(Clones), layout : (SUBSET Window) \cup {NoLayout}, flags : SUBSET Flags,
   position : BOOLEAN, actual : BOOLEAN, reposition : BOOLEAN, leaving : BOOLEAN,
   fade : BOOLEAN, reserved : Window \cup {NoWindow}, mapped : BOOLEAN]

-----------------------------------------------------------------------------
WindowsOf(w) == {c.win : c \in Range(w.clones)}

EachClone(w, F(_)) == [w EXCEPT !.clones = [i \in DOMAIN @ |-> F(@[i])]]

_recalculateWindowPositions(w, flags) ==
  [w EXCEPT !.flags = @ \cup flags, !.position = TRUE]

_addWindowClone(x, positioned) ==
  [win |-> x, positioned |-> positioned, inDrag |-> FALSE, hidden |-> FALSE, tween |-> FALSE]

(* A clone in its slot.  A clone that is dragged leaves its slot blank;    *)
(* the overlay shows again when the clone is there.                        *)
Slotted(c, flags, animate) ==
  IF c.inDrag THEN c
  ELSE [c EXCEPT !.positioned = TRUE, !.tween = animate,
                 !.hidden = animate /\ (@ \/ "INITIAL" \in flags \/ ~c.positioned)]

_updateWindowPositions(w, flags) ==
  IF w.layout = NoLayout THEN _recalculateWindowPositions(w, flags)
  ELSE IF w.leaving \/ w.fade THEN w
  ELSE EachClone(w, LAMBDA c : Slotted(c, flags, "ANIMATE" \in flags /\ current))

(* The best of the layouts, whichever it is: it is for the windows there.  *)
_computeLayout(w) == WindowsOf(w)

_realRecalculateWindowPositions(w) ==
  LET idled == [w EXCEPT !.reposition = FALSE]
      done == IF w.clones = <<>> THEN idled
              ELSE _updateWindowPositions([idled EXCEPT !.layout = _computeLayout(w)], w.flags)
  IN [done EXCEPT !.flags = {}, !.position = FALSE]

(* What the later of _syncActualGeometry does.                             *)
GeometrySynced(w) ==
  LET done == [w EXCEPT !.actual = FALSE]
  IN IF ~w.mapped THEN done
     ELSE _updateWindowPositions(done, IF overview \in {"showing", "hiding"} THEN {"ANIMATE"} ELSE {})

(* The slot that a window in a drag reserves is looked up where the window *)
(* is not, and is undefined: only the positions are computed again.        *)
setReservedSlot(w, x) ==
  IF w.reserved = x THEN w
  ELSE _recalculateWindowPositions([w EXCEPT !.reserved = IF x \in WindowsOf(w) THEN NoWindow ELSE x],
                                   {"ANIMATE"})

(* Mutant of _doRemoveWindow: the layout is kept until it is computed anew. *)
RemoveKeepsLayout(w, x) ==
  IF x \notin WindowsOf(w) THEN w
  ELSE [w EXCEPT !.clones = SelectSeq(@, LAMBDA c : c.win # x), !.reposition = TRUE]

_doRemoveWindow(w, x) ==
  IF x \notin WindowsOf(w) THEN w
  ELSE [w EXCEPT !.clones = SelectSeq(@, LAMBDA c : c.win # x), !.layout = NoLayout,
                 !.reposition = TRUE]

(* hint: the window knows where its clone was in another workspace.        *)
_doAddWindow(w, x, hint) ==
  IF w.leaving \/ x \in WindowsOf(w) THEN w
  ELSE _recalculateWindowPositions(
         [w EXCEPT !.clones = Append(@, _addWindowClone(x, hint)), !.layout = NoLayout], {"ANIMATE"})

(* The clone of a window that leaves is destroyed: the end of its drag is  *)
(* told, and all workspaces forget it.                                     *)
Removed(x) ==
  LET rest == _doRemoveWindow(workspace, x)
  IN IF dragged = x /\ x \in WindowsOf(workspace) THEN setReservedSlot(rest, NoWindow) ELSE rest

NewWorkspace ==
  [clones |-> SetToSeq({_addWindowClone(x, TRUE) : x \in {y \in Window : at[y] = "here"}}),
   layout |-> NoLayout, flags |-> {}, position |-> FALSE, actual |-> FALSE,
   reposition |-> FALSE, leaving |-> FALSE, fade |-> FALSE, reserved |-> NoWindow,
   mapped |-> FALSE]

NoWorkspace == [NewWorkspace EXCEPT !.clones = <<>>]

(* The geometries are set while the new workspace is mapped.               *)
Mapped == [_recalculateWindowPositions(NewWorkspace, {}) EXCEPT !.actual = TRUE, !.mapped = TRUE]

zoomToOverview(w) == _recalculateWindowPositions(w, Flags)

Hide(w) == EachClone(w, LAMBDA c : [c EXCEPT !.hidden = TRUE])

fadeToOverview(w) ==
  LET faded == [w EXCEPT !.fade = TRUE] IN IF current THEN Hide(faded) ELSE faded

(* What zoomFromOverview and fadeFromOverview have in common.              *)
Leaving(w) ==
  LET left == [EachClone(w, LAMBDA c : [c EXCEPT !.tween = FALSE]) EXCEPT !.leaving = TRUE]
  IN IF current THEN Hide(left) ELSE left

zoomFromOverview(w) == [Leaving(w) EXCEPT !.reposition = FALSE]

(* A fade of no windows leaves the timeout.                                *)
fadeFromOverview(w) == [Leaving(w) EXCEPT !.reposition = @ /\ w.clones = <<>>]

_doneShowingOverview(w) ==
  IF w.fade THEN _recalculateWindowPositions([w EXCEPT !.fade = FALSE], {"INITIAL"}) ELSE w

-----------------------------------------------------------------------------
Init ==
  /\ at \in [Window -> {"nowhere", "here"}]
  /\ current \in BOOLEAN
  /\ overview = "hidden" /\ alive = FALSE /\ workspace = NoWorkspace
  /\ dragged = NoWindow /\ idle = {} /\ stray = {}

(* The overview: WorkspacesDisplay makes the view when it is shown, zooms  *)
(* or fades it, and destroys it when it is hidden.                         *)
Show ==
  /\ overview = "hidden"
  /\ overview' = "showing" /\ alive' = TRUE
  /\ \E w \in {zoomToOverview(Mapped), fadeToOverview(Mapped)} :
       workspace' = [w EXCEPT !.mapped = current]
  /\ UNCHANGED <<at, current, dragged, idle, stray>>

Shown ==
  /\ overview = "showing"
  /\ overview' = "shown"
  /\ workspace' = _doneShowingOverview(workspace)
  /\ UNCHANGED <<at, current, alive, dragged, idle, stray>>

animateFromOverview ==
  /\ overview = "shown"
  /\ overview' = "hiding"
  /\ workspace' \in {zoomFromOverview(workspace), fadeFromOverview(workspace)}
  /\ UNCHANGED <<at, current, alive, dragged, idle, stray>>

(* A workspace that is destroyed removes its laters and its timeout, but   *)
(* not the idles of windows; the view ends the drag of a clone.            *)
Destroyed ==
  /\ idle' = {<<p[1], FALSE>> : p \in idle}
  /\ dragged' = NoWindow
  /\ UNCHANGED <<at, current, stray>>

Hidden ==
  /\ overview = "hiding"
  /\ overview' = "hidden" /\ alive' = FALSE
  /\ workspace' = NoWorkspace
  /\ Destroyed

(* The setting of workspaces changes: the view is made anew.               *)
Recreated ==
  /\ alive
  /\ workspace' = Mapped
  /\ UNCHANGED <<overview, alive>>
  /\ Destroyed

(* What waits for the next redraw, in the order in which it was asked for. *)
Redraw ==
  /\ alive /\ (workspace.position \/ workspace.actual)
  /\ LET Positioned(w) == IF workspace.position THEN _realRecalculateWindowPositions(w) ELSE w
         Synced(w) == IF w.actual THEN GeometrySynced(w) ELSE w
     IN workspace' \in {Synced(Positioned(workspace)), Positioned(Synced(workspace))}
  /\ UNCHANGED <<at, current, overview, alive, dragged, idle, stray>>

(* The workspace is allocated anew, or its actor is mapped.                *)
_syncActualGeometry(mapped) ==
  /\ alive
  /\ mapped # workspace.mapped \/ (mapped /\ ~workspace.actual)
  /\ workspace' = [workspace EXCEPT !.mapped = mapped, !.actual = @ \/ mapped]
  /\ UNCHANGED <<at, current, overview, alive, dragged, idle, stray>>

(* The pointer rests, or leaves the workspace.                             *)
_delayedWindowRepositioning ==
  /\ workspace.reposition
  /\ workspace' = _recalculateWindowPositions([workspace EXCEPT !.reposition = FALSE], {"ANIMATE"})
  /\ UNCHANGED <<at, current, overview, alive, dragged, idle, stray>>

(* The animation of a clone ends, which shows the overlay.                 *)
_showWindowOverlay(i) ==
  /\ workspace.clones[i].tween
  /\ workspace' = [workspace EXCEPT !.clones[i].tween = FALSE,
                                    !.clones[i].hidden = @ /\ workspace.clones[i].inDrag]
  /\ UNCHANGED <<at, current, overview, alive, dragged, idle, stray>>

-----------------------------------------------------------------------------
(* The windows.                                                            *)
OpenWindow(x, where) ==
  /\ at[x] = "nowhere" /\ ~\E p \in idle : p[1] = x
  /\ at' = [at EXCEPT ![x] = where]
  /\ idle' = IF where = "here" /\ alive /\ ~workspace.leaving THEN idle \cup {<<x, TRUE>>} ELSE idle
  /\ UNCHANGED <<current, overview, workspace, alive, dragged, stray>>

(* The idle of a window that waited for the compositor.  A workspace that  *)
(* was destroyed has its actor yet, and takes the window.                  *)
AddInIdle(p) ==
  /\ p \in idle
  /\ idle' = idle \ {p}
  /\ workspace' = IF p[2] /\ at[p[1]] = "here" THEN _doAddWindow(workspace, p[1], FALSE) ELSE workspace
  /\ stray' = IF ~p[2] /\ at[p[1]] = "here" THEN stray \cup {p[1]} ELSE stray
  /\ UNCHANGED <<at, current, overview, alive, dragged>>

CloseWindow(x) ==
  /\ at[x] # "nowhere"
  /\ at' = [at EXCEPT ![x] = "nowhere"]
  /\ workspace' = IF alive /\ at[x] = "away" /\ dragged = x THEN setReservedSlot(workspace, NoWindow)
                  ELSE Removed(x)
  /\ dragged' = IF dragged = x THEN NoWindow ELSE dragged
  /\ stray' = stray \ {x}
  /\ UNCHANGED <<current, overview, alive, idle>>

(* A window goes to another workspace, by a drop or by whom ever.          *)
_windowRemoved(x) ==
  /\ at[x] = "here"
  /\ at' = [at EXCEPT ![x] = "away"]
  /\ workspace' = Removed(x)
  /\ dragged' = IF dragged = x THEN NoWindow ELSE dragged
  /\ UNCHANGED <<current, overview, alive, idle, stray>>

(* A window comes from another workspace; the drag of its clone there ends *)
(* before it is added here.                                                *)
_windowAdded(x, hint) ==
  /\ at[x] = "away"
  /\ at' = [at EXCEPT ![x] = "here"]
  /\ workspace' = IF ~alive THEN workspace
                  ELSE _doAddWindow(IF dragged = x THEN setReservedSlot(workspace, NoWindow) ELSE workspace,
                                    x, hint)
  /\ dragged' = IF dragged = x THEN NoWindow ELSE dragged
  /\ UNCHANGED <<current, overview, alive, idle, stray>>

_onDragBegin(x) ==
  /\ overview = "shown" /\ dragged = NoWindow
  /\ at[x] = "away" \/ x \in WindowsOf(workspace)
  /\ dragged' = x
  /\ workspace' = setReservedSlot(
       EachClone(workspace, LAMBDA c : IF c.win = x THEN [c EXCEPT !.inDrag = TRUE, !.hidden = TRUE] ELSE c),
       x)
  /\ UNCHANGED <<at, current, overview, alive, idle, stray>>

(* The drag ends where it began; being put back took over the animation.   *)
_onDragEnd ==
  /\ dragged # NoWindow
  /\ dragged' = NoWindow
  /\ workspace' = IF ~alive THEN workspace ELSE setReservedSlot(
       EachClone(workspace, LAMBDA c : IF c.inDrag
                   THEN [c EXCEPT !.inDrag = FALSE, !.hidden = FALSE, !.tween = FALSE] ELSE c),
       NoWindow)
  /\ UNCHANGED <<at, current, overview, alive, idle, stray>>

SwitchWorkspace ==
  /\ current' = ~current
  /\ UNCHANGED <<at, overview, workspace, alive, dragged, idle, stray>>

Next ==
  \/ Show \/ Shown \/ animateFromOverview \/ Hidden \/ Recreated
  \/ Redraw \/ _delayedWindowRepositioning
  \/ \E mapped \in BOOLEAN : _syncActualGeometry(mapped)
  \/ \E i \in DOMAIN workspace.clones : _showWindowOverlay(i)
  \/ \E x \in Window :
       \/ \E where \in {"here", "away"} : OpenWindow(x, where)
       \/ CloseWindow(x) \/ _windowRemoved(x) \/ _onDragBegin(x)
       \/ \E hint \in BOOLEAN : _windowAdded(x, hint)
  \/ \E p \in idle : AddInIdle(p)
  \/ _onDragEnd \/ SwitchWorkspace

Spec == Init /\ [][Next]_vars

-----------------------------------------------------------------------------
TypeOK ==
  /\ overview \in {"hidden", "showing", "shown", "hiding"}
  /\ workspace.flags \subseteq Flags /\ \A c \in Range(workspace.clones) : c \in Clones
  /\ alive <=> overview # "hidden"
  /\ dragged \in Window \cup {NoWindow} /\ idle \subseteq Window \X BOOLEAN /\ stray \subseteq Window

(* A workspace that does not leave has one clone of each of its windows    *)
(* but those that just opened, and one that leaves has no other.           *)
ClonesAreTheWindows ==
  LET here == {x \in Window : at[x] = "here"}
  IN alive =>
       /\ WindowsOf(workspace) \subseteq here
       /\ Len(workspace.clones) = Cardinality(WindowsOf(workspace))
       /\ ~workspace.leaving => \A x \in here \ WindowsOf(workspace) : <<x, TRUE>> \in idle

(* A layout has no clone that is gone and misses none: what is drawn from  *)
(* it touches only what is there.                                          *)
LayoutIsOfTheClones ==
  workspace.layout # NoLayout => workspace.layout = WindowsOf(workspace) /\ workspace.clones # <<>>

(* Windows without a layout get one: what computes it is on its way.       *)
LayoutComes ==
  workspace.layout = NoLayout /\ workspace.clones # <<>> /\ ~workspace.leaving =>
    workspace.position \/ workspace.reposition \/ workspace.fade

(* An overlay that is hidden shows again: its clone is dragged, is in an   *)
(* animation or will be put in its slot, unless the workspace leaves.      *)
OverlayComes ==
  \A c \in Range(workspace.clones) :
    c.hidden /\ ~workspace.leaving =>
      c.inDrag \/ c.tween \/ workspace.position \/ workspace.reposition \/ workspace.fade

(* One clone is dragged, that of the window that is; a slot is reserved    *)
(* for a window that is dragged and is not here.                           *)
ReservedInDrag ==
  /\ \A c \in Range(workspace.clones) : c.inDrag => c.win = dragged
  /\ workspace.reserved # NoWindow => workspace.reserved = dragged
                                       /\ dragged \notin WindowsOf(workspace)

(* The workspace has a clone of each of its windows, and of each of them   *)
(* something will put it into its slot and show its overlay.               *)
WorkspaceSound ==
  TypeOK /\ ClonesAreTheWindows /\ LayoutIsOfTheClones /\ LayoutComes /\ OverlayComes
  /\ ReservedInDrag

(* Not an invariant: no window is added to a workspace that was destroyed. *)
NoStray == stray = {}
=============================================================================
