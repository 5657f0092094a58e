------------------------------ MODULE AppDisplay ------------------------------
(***************************************************************************)
(* The applications in the overview (js/ui/appDisplay.js, iconGrid.js):    *)
(* the view of the frequent ones and that of all, which fade into each     *)
(* other; the pages of the latter, and its folders, which open a popup     *)
(* after the rows of the grid have made room for it, and give the room     *)
(* back when it is closed.  Room that is made, given back and made again,  *)
(* the animation of the icons, a view that is unmapped or filled anew run  *)
(* into each other.                                                        *)
(*                                                                         *)
(* A popup takes its grab, and the grab may be refused when the overview   *)
(* is not to be seen.  What waits for 'space-ready' and belongs to a       *)
(* folder that is gone does nothing.  A folder that is not mapped as it    *)
(* goes takes its popup with it and closes nothing: the popup keeps its    *)
(* grab, and what closes it first throws, as it is not modal any more.     *)
(*                                                                         *)
(* Abstracted: sizes, the rows that move, what the icons are, indicators.  *)
(***************************************************************************)
EXTENDS Naturals, FiniteSets

CONSTANTS
  Folders,
  MaxPages,  \* bound on the pages of applications
  MaxGone    \* bound on the popups that went with their folders

AppDisplayAssumption ==
  MaxPages \in Nat \ {0} /\ MaxGone \in Nat /\ {"none", "gone"} \cap Folders = {}

VARIABLES
  views,     \* the two views, see Switch
  mapped,    \* the view of all applications is
  popups,    \* the folders whose popup is open
  gone,      \* how many popups were open as they went with their folders
  checked,   \* the folders whose button is
  waiting,   \* the folders that wait for 'space-ready'
  _displayingPopup,
  _currentPopup,  \* "none", a folder, or "gone"
  space,     \* of the rows that make room, see Spaces
  grid,      \* the animation of the icons, and the icons, see Grids
  pages      \* see PageStates

vars == <<views, mapped, popups, gone, checked, waiting, _displayingPopup, _currentPopup, space,
          grid, pages>>

-----------------------------------------------------------------------------
View == {"frequent", "all"}
Switch == [checked : View, visible : SUBSET View, fading : SUBSET View, enabled : BOOLEAN]

(* closed: no rows were moved.  late: rows that went back for an earlier   *)
(* popup, and that the next did not move, still have to say so.            *)
Spaces == [at : {"closed", "opening", "open", "closing"}, late : BOOLEAN]

(* reactive is that of the scroll view; forDone and forClosed: an end of   *)
(* animate is to come with 'animation-done', or begins with 'space-closed';*)
(* clear: the icons are hidden behind their clones; thrown: an animate has *)
(* thrown after it took the scroll view (only the properties read it).     *)
Grids ==
  [anim : {"rest", "in", "out"}, clear : BOOLEAN, reactive : BOOLEAN, forDone : BOOLEAN,
   forClosed : BOOLEAN, thrown : BOOLEAN]

(* The pages as they were computed, those that there are, the current.     *)
PageStates == [nPages : 0..MaxPages, have : 0..MaxPages, currentPage : 0..MaxPages]

World ==
  [popups |-> popups, gone |-> gone, checked |-> checked, waiting |-> waiting,
   displaying |-> _displayingPopup, current |-> _currentPopup, space |-> space, grid |-> grid]

Becomes(w) ==
  /\ popups' = w.popups /\ gone' = w.gone /\ checked' = w.checked /\ waiting' = w.waiting
  /\ _displayingPopup' = w.displaying /\ _currentPopup' = w.current
  /\ space' = w.space /\ grid' = w.grid

-----------------------------------------------------------------------------
(* animateSpring, with the end of what was running lost.                   *)
Spring(w, direction) ==
  [w EXCEPT !.grid = [@ EXCEPT !.anim = direction, !.clear = TRUE, !.forDone = TRUE, !.reactive = FALSE]]

(* 'space-closed': who waited to animate does so now.                      *)
SpaceClosed(w) ==
  LET closed == [w EXCEPT !.displaying = FALSE, !.grid.forClosed = FALSE]
  IN  IF w.grid.forClosed THEN Spring(closed, "out") ELSE closed

(* closeExtraSpace: at once when no rows were moved; rows that have just   *)
(* begun to move have nothing to give back, and say nothing.               *)
CloseSpace(w) ==
  IF w.space.at = "closed" THEN {SpaceClosed(w)}
  ELSE {[w EXCEPT !.space.at = "closing"]}
         \cup (IF w.space.at = "opening" THEN {[w EXCEPT !.space.at = "open"]} ELSE {})

(* Mutant of popdown: the view keeps the popup.                            *)
PopdownOnly(w, f) ==
  IF f \notin w.popups THEN {w}
  ELSE CloseSpace([w EXCEPT !.popups = @ \ {f}, !.checked = @ \ {f}])

(* popdown, with what the view and the icon do as it is closed.  That of a *)
(* popup that is gone is told to the view all the same.                    *)
popdown(w, f) ==
  IF f = "gone" THEN CloseSpace([w EXCEPT !.gone = @ - 1, !.current = "none"])
  ELSE IF f \notin w.popups THEN {w}
  ELSE CloseSpace([w EXCEPT !.popups = @ \ {f}, !.checked = @ \ {f}, !.current = "none"])

PopdownAll(w) ==
  IF Cardinality(w.popups) = 2
  THEN LET f == CHOOSE f \in w.popups : TRUE
           g == CHOOSE g \in w.popups : g # f
       IN  UNION {popdown(v, g) : v \in popdown(w, f)}
  ELSE UNION {popdown(w, f) : f \in w.popups} \cup (IF w.popups = {} THEN {w} ELSE {})

(* popup, for the folders that waited for room, one after another.         *)
Opened(w, granted, last) ==
  LET opens == IF granted THEN w.waiting \ w.popups ELSE {}
  IN  [w EXCEPT !.waiting = {}, !.popups = @ \cup opens,
                !.current = IF opens = {} THEN @ ELSE last]

Ready(w) ==
  {Opened(w, granted, last) : granted \in {TRUE, mapped},
     last \in IF w.waiting \subseteq w.popups THEN {"none"} ELSE w.waiting \ w.popups}

-----------------------------------------------------------------------------
Init ==
  /\ \E view \in View, enabled \in BOOLEAN :
       /\ enabled \/ view = "all"
       /\ views = [checked |-> view, visible |-> View, fading |-> View \ {view}, enabled |-> enabled]
  /\ mapped = FALSE
  /\ popups = {} /\ gone = 0 /\ checked = {} /\ waiting = {}
  /\ _displayingPopup = FALSE /\ _currentPopup = "none"
  /\ space = [at |-> "closed", late |-> FALSE]
  /\ grid = [anim |-> "rest", clear |-> FALSE, reactive |-> TRUE, forDone |-> FALSE,
             forClosed |-> FALSE, thrown |-> FALSE]
  /\ \E n \in 1..MaxPages : pages = [nPages |-> 0, have |-> n, currentPage |-> 0]

-----------------------------------------------------------------------------
(* The views.                                                              *)
(* animateSwitch of both: the fade that ran is removed.                    *)
Switched(s, view) ==
  [s EXCEPT !.checked = view, !.visible = @ \cup {view}, !.fading = View \ {view}]

_showView(view) ==
  /\ view = "frequent" => views.enabled
  /\ views' = Switched(views, view)
  /\ UNCHANGED <<mapped, popups, gone, checked, waiting, _displayingPopup, _currentPopup, space,
                 grid, pages>>

SwitchEnds(view) ==
  /\ view \in views.fading
  /\ views' = [views EXCEPT !.fading = @ \ {view}, !.visible = @ \ {view}]
  /\ UNCHANGED <<mapped, popups, gone, checked, waiting, _displayingPopup, _currentPopup, space,
                 grid, pages>>

(* The setting remember-app-usage.                                         *)
_updateFrequentVisibility ==
  /\ LET s == [views EXCEPT !.enabled = ~@]
     IN  views' = IF views.enabled /\ "frequent" \in views.visible THEN Switched(s, "all") ELSE s
  /\ UNCHANGED <<mapped, popups, gone, checked, waiting, _displayingPopup, _currentPopup, space,
                 grid, pages>>

-----------------------------------------------------------------------------
(* The folders.  A click on one: its button is toggled, room asked for;    *)
(* there may be no rows to move.  The event blocker takes the clicks when  *)
(* a popup is current.                                                     *)
OpenFolder(f) ==
  /\ mapped /\ _currentPopup = "none" /\ grid.anim = "rest"
  /\ LET w == [World EXCEPT !.checked = IF f \in @ THEN @ \ {f} ELSE @ \cup {f},
                            !.waiting = @ \cup {f}, !.displaying = TRUE]
         late == {space.late, space.late \/ space.at = "closing"}
     IN  \E w1 \in {[w EXCEPT !.space = [at |-> "opening", late |-> l]] : l \in late}
                     \cup Ready([w EXCEPT !.space = [at |-> "closed", late |-> (space.at = "closing")]]) :
           Becomes(w1)
  /\ UNCHANGED <<views, mapped, pages>>

(* 'space-opened': the view says 'space-ready'.                            *)
SpaceOpens ==
  /\ space.at = "opening"
  /\ \E w \in Ready([World EXCEPT !.space.at = "open"]) : Becomes(w)
  /\ UNCHANGED <<views, mapped, pages>>

(* The rows are back, those of this popup or late ones.                    *)
SpaceCloses ==
  /\ \/ space.at = "closing" /\ Becomes(SpaceClosed([World EXCEPT !.space.at = "open"]))
     \/ space.late /\ Becomes(SpaceClosed([World EXCEPT !.space.late = FALSE]))
  /\ UNCHANGED <<views, mapped, pages>>

(* The close button, Escape, a click on the event blocker.                 *)
CloseFolder(f) ==
  /\ f \in popups /\ \E w \in popdown(World, f) : Becomes(w)
  /\ UNCHANGED <<views, mapped, pages>>

(* The same, for a popup that is gone: its grab helper is still there, and *)
(* what it throws comes after the popup was closed.                        *)
CloseGone ==
  /\ gone > 0 /\ \E w \in popdown(World, "gone") : Becomes(w)
  /\ UNCHANGED <<views, mapped, pages>>

-----------------------------------------------------------------------------
(* The animations.                                                         *)
(* animate, of AllView: a popup is closed before the icons go out.  That   *)
(* throws if it is gone, and nothing will end the animation.               *)
Animate(direction) ==
  /\ mapped
  /\ IF direction = "out" /\ _displayingPopup /\ _currentPopup # "none"
     THEN \E w \in popdown([World EXCEPT !.grid.reactive = FALSE], _currentPopup) :
            Becomes(IF _currentPopup = "gone" THEN [w EXCEPT !.grid.thrown = TRUE]
                    ELSE [w EXCEPT !.grid.forClosed = TRUE])
     ELSE Becomes(Spring(World, direction))
  /\ UNCHANGED <<views, mapped, pages>>

(* 'animation-done'.                                                       *)
AnimationDone ==
  /\ grid.anim # "rest"
  /\ grid' = [grid EXCEPT !.anim = "rest", !.clear = FALSE, !.reactive = @ \/ grid.forDone,
                          !.forDone = FALSE, !.thrown = @ /\ ~grid.forDone]
  /\ UNCHANGED <<views, mapped, popups, gone, checked, waiting, _displayingPopup, _currentPopup, space,
                 pages>>

(* The view is hidden with its page or with the overview: the clones are   *)
(* destroyed, and the icons stay as they are; the folders close.           *)
Unmap ==
  /\ mapped /\ mapped' = FALSE
  /\ \E w \in PopdownAll([World EXCEPT !.grid.anim = "rest"]) : Becomes(w)
  /\ UNCHANGED <<views, pages>>

Map ==
  /\ ~mapped /\ mapped' = TRUE
  /\ UNCHANGED <<views, popups, gone, checked, waiting, _displayingPopup, _currentPopup, space, grid,
                 pages>>

-----------------------------------------------------------------------------
(* The pages.                                                              *)
Clamped(n) == IF n < pages.nPages THEN n ELSE IF pages.nPages = 0 THEN 0 ELSE pages.nPages - 1

(* goToPage, by the indicators, the focus, or as the overview is hidden:   *)
(* the popup is closed first.  For a page that has no icon by now, and for *)
(* a popup that is gone, it throws and the current page stays.             *)
goToPage(n) ==
  LET page == Clamped(n)
      open == _displayingPopup /\ _currentPopup # "none"
  IN  /\ ~(open /\ page = pages.currentPage)
      /\ \E w \in IF open THEN popdown(World, _currentPopup) ELSE {World} : Becomes(w)
      /\ pages' = [pages EXCEPT !.currentPage =
                     IF (pages.nPages > 0 /\ page >= pages.have) \/ (open /\ _currentPopup = "gone")
                     THEN @ ELSE page]
      /\ UNCHANGED <<views, mapped>>

(* adaptToSize, before the view is allocated: another number of pages      *)
(* begins with the first.                                                  *)
adaptToSize ==
  /\ mapped /\ pages.nPages # pages.have
  /\ pages' = [pages EXCEPT !.nPages = pages.have, !.currentPage = 0]
  /\ UNCHANGED <<views, mapped, popups, gone, checked, waiting, _displayingPopup, _currentPopup, space,
                 grid>>

(* _redisplay: all icons are new, the folders too; what moved is gone and  *)
(* says nothing more.  The popup of a folder that is mapped is closed; that *)
(* of one that is not goes as it is, and stays the current one.            *)
_redisplay(n) ==
  /\ mapped \/ gone + Cardinality(popups) <= MaxGone
  /\ \E w \in IF mapped THEN PopdownAll(World) ELSE {World} :
       Becomes([w EXCEPT !.popups = {}, !.checked = {}, !.waiting = {},
                         !.gone = @ + Cardinality(w.popups),
                         !.space = [at |-> IF w.space.at = "closed" THEN "closed" ELSE "open", late |-> FALSE],
                         !.grid.clear = FALSE,
                         !.current = IF @ \in w.popups THEN "gone" ELSE @])
  /\ pages' = [pages EXCEPT !.have = n]
  /\ UNCHANGED <<views, mapped>>

Next ==
  \/ \E view \in View : _showView(view) \/ SwitchEnds(view)
  \/ _updateFrequentVisibility
  \/ \E f \in Folders : OpenFolder(f) \/ CloseFolder(f)
  \/ CloseGone \/ SpaceOpens \/ SpaceCloses
  \/ \E direction \in {"in", "out"} : Animate(direction)
  \/ AnimationDone \/ Unmap \/ Map
  \/ \E n \in 0..MaxPages : goToPage(n)
  \/ adaptToSize
  \/ \E n \in 0..MaxPages : _redisplay(n)

Spec == Init /\ [][Next]_vars

-----------------------------------------------------------------------------
TypeOK ==
  /\ views \in Switch /\ mapped \in BOOLEAN
  /\ popups \cup checked \cup waiting \subseteq Folders
  /\ gone \in 0..MaxGone
  /\ _displayingPopup \in BOOLEAN /\ _currentPopup \in Folders \cup {"none", "gone"}
  /\ space \in Spaces /\ grid \in Grids /\ pages \in PageStates

(* The view whose control is checked is to be seen, and the other only     *)
(* while it fades, however fast they are switched; the frequent ones are   *)
(* not, once they are not to be remembered.                                *)
CheckedIsVisible ==
  /\ views.checked \in views.visible
  /\ views.visible \ {views.checked} \subseteq views.fading
  /\ views.checked \notin views.fading
  /\ ~views.enabled => views.checked = "all"

(* The popup that takes the clicks can be closed: it is open, or it went   *)
(* with its folder while the view was not mapped, and has its grab yet     *)
(* (addFolderPopup, popdown).  One that is open without being it was       *)
(* opened by the same room.                                                *)
CurrentIsOpen ==
  /\ _currentPopup \in Folders => _currentPopup \in popups
  /\ _currentPopup = "gone" => gone > 0

(* The current page is one of those that were computed.                    *)
PageInRange == pages.currentPage <= Clamped(pages.currentPage)

(* The view does not scroll only while an animation is to end, or since    *)
(* one threw on a popup that was gone (animate): that one never ends.      *)
ScrollsAgain == ~grid.reactive => grid.forDone \/ grid.forClosed \/ grid.thrown

AppDisplaySound == TypeOK /\ CheckedIsVisible /\ CurrentIsOpen /\ PageInRange /\ ScrollsAgain
=============================================================================
