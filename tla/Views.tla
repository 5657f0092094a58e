-------------------------------- MODULE Views --------------------------------
(***************************************************************************)
(* The pages of the overview (js/ui/viewSelector.js): the windows, the     *)
(* applications and the results of a search, with the dash and the         *)
(* thumbnails beside them (js/ui/overviewControls.js), composed with the   *)
(* overview.  One page follows another through a fade, or the animation of *)
(* the grid of applications, at whose end the old page is hidden and what  *)
(* is then the active page shown.                                          *)
(*                                                                         *)
(* A step of the overview calls the selector, or tells it: Follow is what  *)
(* comes of that.  The animation of the grid is cancelled when the grid is *)
(* unmapped; who waits for its end then waits for the end of another.      *)
(*                                                                         *)
(* Abstracted: opacities, sizes, what is searched for; the animation of    *)
(* the grid begins with no frame between.                                  *)
(***************************************************************************)
EXTENDS Naturals, Sequences

CONSTANTS
  overview, Other, RefuseCtrlClick  \* those of Overview

VARIABLES
  _shown, visible, animationInProgress, visibleTarget, _modal, _inXdndDrag, isDummy,
  _inOverview, unredirect, stack,   \* those of Overview
  view,                             \* the pages, see Views
  controls,                         \* the dash and the thumbnails, see Controls
  keyHandlers                       \* of _onStageKeyPress

overviewVars == <<_shown, visible, animationInProgress, visibleTarget, _modal, _inXdndDrag, isDummy,
                  _inOverview, unredirect, stack>>
vars == <<overviewVars, view, controls, keyHandlers>>

Over == INSTANCE Overview

-----------------------------------------------------------------------------
Pages == {"windows", "apps", "search"}

(* fading: the pages that are hidden once they faded; waiting: so are the  *)
(* applications, when an animation of the grid is done.                    *)
Views ==
  [checked : BOOLEAN, active : Pages \cup {"none"}, terms : BOOLEAN, shown : SUBSET Pages,
   fading : SUBSET Pages, waiting : BOOLEAN, grid : {"rest", "in", "out"}]

(* Whether the dash and the thumbnails are to be seen; slid is what the    *)
(* last empty page made of it; spacer keeps the room of the dash.          *)
Sliders == {"dash", "thumbnails"}
Controls ==
  [wanted : SUBSET Sliders, slid : SUBSET Sliders, spacer : BOOLEAN, inDrag : BOOLEAN]

(* The overview as its methods call and signal.                            *)
Now == [visible |-> visible, animating |-> animationInProgress, target |-> visibleTarget]
Showing == [visible |-> TRUE, animating |-> TRUE, target |-> TRUE]
Hiding == [visible |-> TRUE, animating |-> TRUE, target |-> FALSE]
Leaving(o) == o.animating /\ ~o.target

State == [view |-> view, controls |-> controls]

-----------------------------------------------------------------------------
(* _setVisibility, as the page has changed.                                *)
WantedFor(page) ==
  CASE page = "windows" -> Sliders [] page = "apps" -> {"dash"} [] OTHER -> {}

_setVisibility(s, o) ==
  IF ~o.visible \/ Leaving(o) THEN s
  ELSE [s EXCEPT !.controls.wanted = WantedFor(s.view.active)]

Slides(c) == c.wanted \cup (IF c.inDrag THEN {"dash"} ELSE {})

_onPageEmpty(s, o) ==
  [s EXCEPT !.controls =
     [s.controls EXCEPT !.slid = Slides(s.controls),
                        !.spacer = IF Leaving(o) THEN @ ELSE s.view.active = "windows"]]

(* The page is hidden, and with the applications their grid unmapped.      *)
HidePages(s, pages) ==
  [s EXCEPT !.view =
     [s.view EXCEPT !.shown = @ \ pages,
                    !.grid = IF "apps" \in pages \cap s.view.shown THEN "rest" ELSE @]]

(* Mutant of _animateIn: the page that was to be shown when the old one    *)
(* began to fade is kept.                                                  *)
AnimateInOnly(s, o, old) == _onPageEmpty(HidePages(s, old), o)

(* _animateIn, after the old page or none.                                 *)
_animateIn(s, o, old) ==
  LET empty == _onPageEmpty(HidePages(s, old), o)
      page == s.view.active
      grows == page = "apps" /\ old = {"windows"}
  IN  [empty EXCEPT !.view =
         [empty.view EXCEPT !.shown = @ \cup {page},
                            !.grid = IF grows THEN "in" ELSE @,
                            !.fading = IF grows THEN @ ELSE @ \ {page}]]

_animateOut(s, o, page) ==
  IF page = "apps" /\ s.view.active = "windows" /\ ~o.animating
  THEN [s EXCEPT !.view = [s.view EXCEPT !.waiting = TRUE, !.grid = "out"]]
  ELSE [s EXCEPT !.view.fading = @ \cup {page}]

_showPage(s, o, page) ==
  LET old == s.view.active
      changed == _setVisibility([s EXCEPT !.view.active = page], o)
  IN  IF ~o.visible \/ page = old THEN s
      ELSE IF old = "none" THEN _animateIn(changed, o, {}) ELSE _animateOut(changed, o, old)

Page(s) == IF s.view.checked THEN "apps" ELSE "windows"

(* The button of the applications comes to be checked or not.              *)
Check(s, o, checked) ==
  IF s.view.checked = checked THEN s
  ELSE LET t == [s EXCEPT !.view.checked = checked] IN _showPage(t, o, Page(t))

(* _onTextChanged; without terms, what text is left is removed.            *)
TextChanged(s, o, terms) ==
  LET t == [s EXCEPT !.view.terms = terms]
  IN  _showPage(t, o, IF terms THEN "search" ELSE Page(t))

reset(s, o) == IF s.view.terms THEN TextChanged(s, o, FALSE) ELSE s

-----------------------------------------------------------------------------
(* What the overview calls and signals: show; animateFromOverview, with    *)
(* 'hiding'; 'shown'.                                                      *)
Shows(s) ==
  LET r == reset(s, Showing)
      t == _showPage([r EXCEPT !.view.active = "none"], Showing, Page(r))
  IN  [t EXCEPT !.controls.spacer = (t.view.active = "windows")]

Hides(s) == [Check(s, Hiding, FALSE) EXCEPT !.controls.wanted = {}]

IsShown(s) == IF s.view.active = "windows" THEN s ELSE HidePages(s, {"windows"})

(* That the overview is hidden unmaps the grid.                            *)
IsHidden(s) == [s EXCEPT !.view.grid = IF "apps" \in s.view.shown THEN "rest" ELSE @]

WasLeaving == visible /\ Leaving(Now)
WasShowing == animationInProgress /\ visibleTarget
IsLeaving == visible' /\ Leaving(Now)'
IsShowing == (animationInProgress /\ visibleTarget)'

(* A step of the overview goes through these in their order.               *)
Follow(s) ==
  LET shown  == IF WasShowing /\ ~IsShowing THEN IsShown(s) ELSE s
      hides  == IF ~WasLeaving /\ IsLeaving THEN Hides(shown) ELSE shown
      hidden == IF WasLeaving /\ ~visible' THEN IsHidden(hides) ELSE hides
  IN  IF ~WasShowing /\ IsShowing THEN Shows(hidden) ELSE hidden

Becomes(s) == view' = s.view /\ controls' = s.controls

OverviewStep(s) ==
  /\ Becomes(Follow(s))
  /\ keyHandlers' = LET kept == IF ~WasLeaving /\ IsLeaving THEN 0 ELSE keyHandlers
                    IN  IF ~WasShowing /\ IsShowing THEN kept + 1 ELSE kept

-----------------------------------------------------------------------------
Init ==
  /\ Over!Init
  /\ view = [checked |-> FALSE, active |-> "none", terms |-> FALSE, shown |-> {}, fading |-> {},
             waiting |-> FALSE, grid |-> "rest"]
  /\ controls = [wanted |-> Sliders, slid |-> Sliders, spacer |-> TRUE, inDrag |-> FALSE]
  /\ keyHandlers = 0

Overview == Over!Next /\ OverviewStep(State)

HasKeys == _modal /\ stack # <<>> /\ stack[Len(stack)] = overview

(* _toggleAppsPage and showApps: the button, then the overview.            *)
_toggleAppsPage(checked) ==
  LET s == Check(State, Now, checked)
  IN  /\ (\E ctrl \in BOOLEAN : Over!Show(ctrl)) \/ (_shown /\ UNCHANGED overviewVars)
      /\ OverviewStep(s)

(* What leaves the overview as it is.                                      *)
Selects(s) == s # State /\ Becomes(s) /\ UNCHANGED <<overviewVars, keyHandlers>>

(* The button is clicked.                                                  *)
_onShowAppsButtonToggled ==
  visible /\ ~animationInProgress /\ Selects(Check(State, Now, ~view.checked))

(* _a11yFocusPage, by the switcher of panels.                              *)
_a11yFocusPage(page) ==
  visible /\ Selects(Check(State, Now, page = "apps"))

(* startSearch, and what is typed further.                                 *)
Type == visible /\ HasKeys /\ Selects(TextChanged(State, Now, TRUE))
Clear == visible /\ HasKeys /\ view.terms /\ Selects(reset(State, Now))

(* Escape, in _onStageKeyPress.                                            *)
Escape ==
  /\ keyHandlers > 0 /\ HasKeys /\ Len(stack) = 1
  /\ IF view.terms THEN Selects(reset(State, Now))
     ELSE IF view.checked THEN Selects(Check(State, Now, FALSE))
     ELSE Over!Hide /\ OverviewStep(State)

(* An item is dragged: the page fades to the half and back again, instead  *)
(* of what it did.                                                         *)
Faded(s) == [s EXCEPT !.view.fading = @ \ {s.view.active}]
DragItem(begins) ==
  /\ visible /\ controls.inDrag = ~begins
  /\ LET c == [controls EXCEPT !.inDrag = begins]
         s == [State EXCEPT !.controls = [c EXCEPT !.slid = Slides(c)]]
     IN  Selects(IF begins /\ view.active = "windows" THEN s ELSE Faded(s))

(* The end of _fadePageOut.                                                *)
FadeEnds(page) ==
  /\ page \in view.fading
  /\ Becomes(_animateIn([State EXCEPT !.view.fading = @ \ {page}], Now, {page}))
  /\ UNCHANGED <<overviewVars, keyHandlers>>

(* 'animation-done' of the grid.                                           *)
GridDone ==
  /\ view.grid # "rest"
  /\ LET s == [State EXCEPT !.view = [view EXCEPT !.grid = "rest", !.waiting = FALSE]]
     IN  Becomes(IF view.waiting THEN _animateIn(s, Now, {"apps"}) ELSE s)
  /\ UNCHANGED <<overviewVars, keyHandlers>>

Next ==
  \/ Overview
  \/ \E checked \in {~view.checked, TRUE} : _toggleAppsPage(checked)
  \/ _onShowAppsButtonToggled
  \/ \E page \in {"windows", "apps"} : _a11yFocusPage(page)
  \/ Type \/ Clear \/ Escape
  \/ \E begins \in BOOLEAN : DragItem(begins)
  \/ \E page \in Pages : FadeEnds(page)
  \/ GridDone

Spec == Init /\ [][Next]_vars

-----------------------------------------------------------------------------
TypeOK ==
  /\ view \in Views /\ controls \in Controls
  /\ keyHandlers \in 0..1

(* Whatever pages are asked for while others come and go, the overview is  *)
(* not left empty: a page that is active is shown, or one is on its way    *)
(* out and will show it.                                                   *)
NeverEmpty ==
  visible => \/ view.active \in view.shown
             \/ view.fading # {}
             \/ view.waiting /\ view.grid # "rest"

(* A page that is shown and not active goes.  The applications may stay:   *)
(* when they were the active page as the overview was hidden and its       *)
(* button is no longer checked when it is shown again, nothing hides them. *)
OthersGo ==
  visible => \A page \in view.shown \ {view.active, "apps"} :
    page \in view.fading \/ (page = "windows" /\ animationInProgress)

(* The dash and the thumbnails are with the page they go with, once it is  *)
(* there; while the overview hides they are out.                           *)
ControlsFollow ==
  /\ visible => controls.wanted = IF Leaving(Now) THEN {} ELSE WantedFor(view.active)
  /\ visible /\ ~animationInProgress /\ view.active \in view.shown /\ view.fading = {} /\ ~view.waiting
       => controls.slid = Slides(controls) /\ controls.spacer = (view.active = "windows")

(* The keys are heard once while the overview shows, and the results are   *)
(* shown only of a text.                                                   *)
KeysOnce ==
  /\ keyHandlers = IF visible /\ ~Leaving(Now) THEN 1 ELSE 0
  /\ visible /\ view.active = "search" => view.terms

ViewsSound == TypeOK /\ NeverEmpty /\ OthersGo /\ ControlsFollow /\ KeysOnce
=============================================================================
