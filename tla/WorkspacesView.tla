--------------------------- MODULE WorkspacesView ---------------------------
(***************************************************************************)
(* The view of the workspaces on a monitor of the overview                 *)
(* (js/ui/workspacesView.js): WorkspacesDisplay makes it with the overview *)
(* and when the setting changes; workspaces of the screen come, go and are *)
(* switched while the view slides to the active one and is swiped.         *)
(*                                                                         *)
(* A workspace is placed by rows: 0 is on the monitor, 1 below.  What it   *)
(* shows of its windows is OverviewWorkspace.  While a tween is running,   *)
(* y is where it goes.                                                     *)
(*                                                                         *)
(* Abstracted: geometry, the windows and their drag but for its flag, and  *)
(* the views of the other monitors, which get the same calls.              *)
(***************************************************************************)
EXTENDS Integers, Sequences, SequencesExt, FiniteSetsExt

CONSTANTS
  MaxWorkspaces,  \* bound on the workspaces of the screen at a time
  MaxMade,        \* bound on the workspaces that are made
  LastMayGo       \* may the last workspace be removed?

WorkspacesAssumption ==
  /\ MaxWorkspaces \in Nat \ {0, 1} /\ MaxMade \in Nat
  /\ LastMayGo \in BOOLEAN

VARIABLES
  screen,       \* the workspaces of the screen, numbered as they are made
  active,       \* the active one
  made,         \* how many were made
  overview,     \* what the overview does
  handlers,     \* does the display listen to the overview and to the stage?
  _workspaces,  \* the Workspace objects: number, visible, and y
  value,        \* the index that the value of the adjustment rounds to
  _animating, _scrolling, _animatingScroll, _inDrag  \* fields of the view

viewVars == <<_workspaces, value, _animating, _scrolling, _animatingScroll, _inDrag>>
vars == <<screen, active, made, overview, handlers, viewVars>>

Workspaces == [meta : 1..MaxMade, visible : BOOLEAN, y : Int]

-----------------------------------------------------------------------------
IndexIn(metas, m) == CHOOSE i \in DOMAIN metas : metas[i] = m

NewWorkspace(m) == [meta |-> m, visible |-> TRUE, y |-> 0]

(* The first workspace is 1 here and 0 there.                              *)
_updateVisibility(ws, a, moving) ==
  [i \in DOMAIN ws |->
     [ws[i] EXCEPT !.visible = moving \/ i = a \/ (_inDrag' /\ i \in {a - 1, a + 1})]]

_updateWorkspaceActors(ws, a, showAnimation) ==
  /\ _animating' = showAnimation
  /\ _workspaces' = _updateVisibility([i \in DOMAIN ws |-> [ws[i] EXCEPT !.y = i - a]], a,
                                      showAnimation \/ _scrolling')

(* The value moves when its tween ends: ScrollEnds.                        *)
_updateScrollAdjustment == _animatingScroll' = (_animatingScroll \/ ~_scrolling')

_scrollToActive(a) ==
  _updateWorkspaceActors(_workspaces, a, TRUE) /\ _updateScrollAdjustment

(* The workspaces once those of the screen changed: the loop compares one  *)
(* with its place and goes on with the next place, whatever it did.        *)
Updated(ws, metas) ==
  LET After[j \in 0..Len(metas)] ==
        IF j = 0 THEN ws
        ELSE IF j > Len(After[j - 1]) THEN Append(After[j - 1], NewWorkspace(metas[j]))
        ELSE IF After[j - 1][j].meta # metas[j] THEN RemoveAt(After[j - 1], j)
        ELSE After[j - 1]
  IN After[Len(metas)]

_updateWorkspaces(metas) ==
  /\ screen' = metas
  /\ _inDrag' = _inDrag /\ _scrolling' = _scrolling
  /\ IF overview = "hidden" THEN UNCHANGED <<_animating, _workspaces>>
     ELSE _updateWorkspaceActors(Updated(_workspaces, metas), IndexIn(metas, active), FALSE)
  /\ UNCHANGED <<value, _animatingScroll>>

(* A new view has the workspaces of the screen, not yet placed.            *)
_updateWorkspacesViews ==
  /\ _workspaces' = [i \in DOMAIN screen |-> NewWorkspace(screen[i])]
  /\ value' = IndexIn(screen, active)
  /\ _animating' = FALSE /\ _scrolling' = FALSE /\ _animatingScroll' = FALSE /\ _inDrag' = FALSE

-----------------------------------------------------------------------------
Init ==
  /\ screen = <<1, 2>> /\ made = 2 /\ active \in {1, 2}
  /\ overview = "hidden" /\ handlers = FALSE
  /\ _workspaces = <<>> /\ value = 1
  /\ _animating = FALSE /\ _scrolling = FALSE /\ _animatingScroll = FALSE /\ _inDrag = FALSE

(* WorkspacesDisplay.show makes the view, which animateToOverview places.  *)
Show ==
  /\ overview = "hidden"
  /\ overview' = "shown" /\ handlers' = TRUE
  /\ value' = IndexIn(screen, active)
  /\ _scrolling' = FALSE /\ _animatingScroll' = FALSE /\ _inDrag' = FALSE
  /\ _updateWorkspaceActors([i \in DOMAIN screen |-> NewWorkspace(screen[i])],
                            IndexIn(screen, active), FALSE)
  /\ UNCHANGED <<screen, active, made>>

animateFromOverview ==
  /\ overview = "shown"
  /\ overview' = "hiding"
  /\ UNCHANGED <<screen, active, made, handlers, viewVars>>

hide ==
  /\ overview = "hiding"
  /\ overview' = "hidden" /\ handlers' = FALSE
  /\ _workspaces' = <<>>
  /\ value' = 1
  /\ _animating' = FALSE /\ _scrolling' = FALSE /\ _animatingScroll' = FALSE /\ _inDrag' = FALSE
  /\ UNCHANGED <<screen, active, made>>

_workspacesOnlyOnPrimaryChanged ==
  /\ overview # "hidden"
  /\ _updateWorkspacesViews
  /\ UNCHANGED <<screen, active, made, overview, handlers>>

_dragBegin ==
  /\ overview = "shown" /\ ~_inDrag
  /\ _inDrag' = TRUE
  /\ UNCHANGED <<screen, active, made, overview, handlers, _workspaces, value, _animating,
                 _scrolling, _animatingScroll>>

_dragEnd ==
  /\ _inDrag
  /\ _inDrag' = FALSE
  /\ UNCHANGED <<screen, active, made, overview, handlers, _workspaces, value, _animating,
                 _scrolling, _animatingScroll>>

-----------------------------------------------------------------------------
(* The workspaces of the screen.                                           *)
AddWorkspace ==
  /\ Len(screen) < MaxWorkspaces /\ made < MaxMade
  /\ made' = made + 1
  /\ _updateWorkspaces(Append(screen, made + 1))
  /\ UNCHANGED <<active, overview, handlers>>

(* Another one is active before a workspace goes.                          *)
RemoveWorkspace(m) ==
  /\ m \in Range(screen) \ {active}
  /\ m = Last(screen) => LastMayGo
  /\ _updateWorkspaces(SelectSeq(screen, LAMBDA n : n # m))
  /\ UNCHANGED <<active, made, overview, handlers>>

(* The screen switches and tells the view, which goes there, but not while *)
(* it is swiped.                                                           *)
_activeWorkspaceChanged(m) ==
  /\ active' = m
  /\ _inDrag' = _inDrag /\ _scrolling' = _scrolling
  /\ IF overview # "hidden" /\ ~_scrolling
     THEN _scrollToActive(IndexIn(screen, m))
     ELSE UNCHANGED <<_workspaces, _animating, _animatingScroll>>

SwitchWorkspace(m) ==
  /\ m \in Range(screen) \ {active}
  /\ _activeWorkspaceChanged(m)
  /\ UNCHANGED <<screen, made, overview, handlers, value>>

(* The scroll wheel and the page keys go to the neighbour.                 *)
MoveByEvent(step) ==
  /\ handlers
  /\ IndexIn(screen, active) + step \in DOMAIN screen
  /\ SwitchWorkspace(screen[IndexIn(screen, active) + step])

(* The tween of the first workspace ends.                                  *)
Placed ==
  /\ _animating
  /\ _animating' = FALSE
  /\ _inDrag' = _inDrag
  /\ _workspaces' = _updateVisibility(_workspaces, IndexIn(screen, active), _scrolling)
  /\ UNCHANGED <<screen, active, made, overview, handlers, value, _scrolling, _animatingScroll>>

ScrollEnds ==
  /\ _animatingScroll
  /\ _animatingScroll' = FALSE
  /\ value' = IndexIn(screen, active)
  /\ UNCHANGED <<screen, active, made, overview, handlers, _workspaces, _animating, _scrolling,
                 _inDrag>>

startSwipeScroll ==
  /\ overview # "hidden" /\ ~_scrolling
  /\ _scrolling' = TRUE
  /\ UNCHANGED <<screen, active, made, overview, handlers, _workspaces, value, _animating,
                 _animatingScroll, _inDrag>>

endSwipeScroll ==
  /\ _scrolling
  /\ _scrolling' = FALSE /\ _inDrag' = _inDrag
  /\ _scrollToActive(IndexIn(screen, active))
  /\ UNCHANGED <<screen, active, made, overview, handlers, value>>

(* The swipe moves the value to where it rounds to near, and shows toward, *)
(* its neighbour, too; all workspaces move by as much as the first.        *)
_onScroll(near, toward) ==
  /\ _scrolling /\ ~_animatingScroll
  /\ near \in DOMAIN screen /\ toward \in {near - 1, near, near + 1}
  /\ value' = near
  /\ LET current == Min({near, Len(_workspaces)})
     IN active' = IF IndexIn(screen, active) = near THEN active ELSE _workspaces[current].meta
  /\ LET rows == Last(_workspaces).y - _workspaces[1].y
         dy == -((near - 1) * rows) \div (Len(screen) - 1) - _workspaces[1].y
         shows == IF toward = near THEN {near - 1, near, near + 1} ELSE {near, toward}
     IN _workspaces' = IF Len(screen) = 1 THEN _workspaces
                       ELSE [i \in DOMAIN _workspaces |->
                               [_workspaces[i] EXCEPT !.visible = i \in shows, !.y = @ + dy]]
  /\ UNCHANGED <<screen, made, overview, handlers, _animating, _scrolling, _animatingScroll,
                 _inDrag>>

Next ==
  \/ Show \/ animateFromOverview \/ hide \/ _workspacesOnlyOnPrimaryChanged
  \/ _dragBegin \/ _dragEnd
  \/ AddWorkspace
  \/ \E m \in 1..MaxMade : RemoveWorkspace(m) \/ SwitchWorkspace(m)
  \/ \E step \in {-1, 1} : MoveByEvent(step)
  \/ Placed \/ ScrollEnds \/ startSwipeScroll \/ endSwipeScroll
  \/ \E near \in 1..MaxWorkspaces : \E toward \in 0..(MaxWorkspaces + 1) : _onScroll(near, toward)

Spec == Init /\ [][Next]_vars

-----------------------------------------------------------------------------
TypeOK ==
  /\ active \in Range(screen) /\ Len(screen) \in 1..MaxWorkspaces
  /\ \A i \in DOMAIN _workspaces : _workspaces[i] \in Workspaces
  /\ value \in 1..MaxWorkspaces
  /\ overview = "hidden" <=> ~handlers

(* The view has one workspace for each of the screen, in their order.      *)
EachHasItsWorkspace ==
  overview # "hidden" => [i \in DOMAIN _workspaces |-> _workspaces[i].meta] = screen

(* Unless it is swiped, the view shows the active workspace, and has it    *)
(* where it is seen, with the others above and below in their order, or    *)
(* has placed none since the setting made it anew.                         *)
ActiveIsSeen ==
  overview # "hidden" /\ ~_scrolling =>
    /\ \A w \in Range(_workspaces) : w.meta = active => w.visible
    /\ \/ \A i \in DOMAIN _workspaces : _workspaces[i].y = i - IndexIn(screen, active)
       \/ \A w \in Range(_workspaces) : w.y = 0

(* The view is that of the screen, as the active workspace has it.         *)
ViewSound == TypeOK /\ EachHasItsWorkspace /\ ActiveIsSeen

(* Not an invariant: at rest, only the active workspace is where it is seen.*)
OnlyActiveIsSeen ==
  overview # "hidden" /\ ~_scrolling =>
    \A w \in Range(_workspaces) : w.y = 0 => w.meta = active

(* Not an invariant: at rest the adjustment is at the active workspace.    *)
ScrollFollows ==
  overview # "hidden" /\ ~_scrolling /\ ~_animatingScroll => value = IndexIn(screen, active)
=============================================================================
