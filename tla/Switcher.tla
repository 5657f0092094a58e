------------------------------ MODULE Switcher ------------------------------
(***************************************************************************)
(* The popups that switch applications, windows, panels and monitors       *)
(* (js/ui/switcherPopup.js, altTab.js, ctrlAltTab.js, switchMonitor.js).   *)
(* A popup holds the modal while the modifier of its key binding is held,  *)
(* or until a timeout when there is none, and switches when it is let go.  *)
(* That of the applications opens thumbnails of the windows of one.        *)
(*                                                                         *)
(* held is the modifier as the pointer has it; that it was let go is an    *)
(* event that comes later, if the popup has the modal by then.  What comes *)
(* with the mouse and the keys comes only while it has.                    *)
(*                                                                         *)
(* Abstracted: sizes and scrolling; which windows an item stands for.      *)
(***************************************************************************)
EXTENDS Integers, Sequences, SequencesExt

CONSTANTS
  Windows,    \* the number of windows of each item
  MaxFades    \* bound on the thumbnails that fade at once

SwitcherAssumption ==
  /\ Windows \in Seq(Nat \ {0}) /\ Windows # <<>>
  /\ MaxFades \in Nat \ {0}

VARIABLES
  popup,      \* the popup, see Popups
  _popup,     \* that of CtrlAltTabManager: it has one
  refused,    \* the modal was refused to it
  held,       \* the modifier is down
  released    \* the event of its release is on its way

vars == <<popup, _popup, refused, held, released>>

Items == 0..(Len(Windows) - 1)
NItems == Len(Windows)
NWindows(n) == Windows[n + 1]
Kind == {"apps", "windows", "cycler", "panels", "monitors"}

(* thumbs: the item whose windows the thumbnails are of, -1 without.       *)
(* fades: their animations, "out" of those that were destroyed.  hidden:   *)
(* the window that the highlight of a cycler stands in for.  motion to     *)
(* hover: the timeouts that are pending.                                   *)
Popups ==
  [kind : Kind, phase : {"none", "shown", "fading"}, modal : BOOLEAN, mask : BOOLEAN,
   selected : Items, current : Int, focused : BOOLEAN, thumbs : {-1} \cup Items,
   fades : Seq({"in", "out"}), thumbnailsVisible : BOOLEAN, hidden : {-1} \cup Items,
   mouseActive : BOOLEAN, entered : {-1} \cup Items, motion : BOOLEAN, delay : BOOLEAN,
   noMods : BOOLEAN, popping : BOOLEAN, hover : {-1} \cup Items, finished : 0..2]

NewPopup(kind) ==
  [kind |-> kind, phase |-> "none", modal |-> FALSE, mask |-> FALSE, selected |-> 0, current |-> -1,
   focused |-> FALSE, thumbs |-> -1, fades |-> <<>>, thumbnailsVisible |-> FALSE, hidden |-> -1,
   mouseActive |-> FALSE, entered |-> -1, motion |-> FALSE, delay |-> FALSE, noMods |-> FALSE,
   popping |-> FALSE, hover |-> -1, finished |-> 0]

-----------------------------------------------------------------------------
(* The thumbnails.                                                         *)
_destroyThumbnails(p) ==
  IF p.thumbs = -1 THEN p
  ELSE [p EXCEPT !.thumbs = -1,
                 !.fades = Append(SelectSeq(@, LAMBDA f : f # "in"), "out")]

_createThumbnails(p) ==
  IF p.thumbs # -1 THEN p ELSE [p EXCEPT !.thumbs = p.selected, !.fades = Append(@, "in")]

(* AppSwitcherPopup._select; the window is -1 without.                     *)
AppSelect(p, app, window, forceAppFocus) ==
  LET cleared == IF app # p.selected \/ window = -1 THEN _destroyThumbnails(p) ELSE p
      moved == [cleared EXCEPT !.popping = FALSE, !.focused = (window # -1 /\ ~forceAppFocus),
                               !.selected = app, !.current = window]
  IN  IF window # -1 THEN _createThumbnails(moved)
      ELSE [moved EXCEPT !.popping = NWindows(app) > 1 /\ ~forceAppFocus]

_select(p, n) ==
  IF p.kind = "apps" THEN AppSelect(p, n, -1, FALSE)
  ELSE [p EXCEPT !.selected = n, !.hidden = IF p.kind = "cycler" THEN n ELSE -1]

_next(p) == (p.selected + 1) % NItems
_previous(p) == (p.selected - 1 + NItems) % NItems

(* In the unset state the first window counts as seen.                     *)
_nextWindow(p) == ((IF p.current = -1 THEN 0 ELSE p.current) + 1) % NWindows(p.selected)
_previousWindow(p) ==
  ((IF p.current = -1 THEN 1 ELSE p.current) - 1 + NWindows(p.selected)) % NWindows(p.selected)

-----------------------------------------------------------------------------
_disableHover(p) == [p EXCEPT !.mouseActive = FALSE, !.motion = TRUE]
_resetNoModsTimeout(p) == [p EXCEPT !.noMods = TRUE]

(* destroy: the popup fades when it is visible.                            *)
Destroy(p) ==
  IF p.phase = "none" THEN NewPopup(p.kind) ELSE [p EXCEPT !.modal = FALSE, !.phase = "fading"]

(* _finish activates what is selected, before or after it is destroyed.    *)
_finish(p) == [Destroy(p) EXCEPT !.finished = IF @ = 2 THEN 2 ELSE @ + 1]

(* Mutant of Checked: the modifier is not looked at.                       *)
Unchecked(p) == IF p.mask THEN p ELSE _resetNoModsTimeout(p)

(* There's a race condition, says show: the modifier may be up by now.     *)
Checked(p) ==
  IF ~p.mask THEN _resetNoModsTimeout(p) ELSE IF held THEN p ELSE _finish(p)

-----------------------------------------------------------------------------
(* _initialSelection.  A group starts among the windows of the first.      *)
InitialSelection(p, binding, backward) ==
  LET last == NWindows(0) - 1
      first == IF NItems = 1 THEN 0 ELSE 1
  IN  CASE p.kind = "monitors" -> {_select(p, n) : n \in Items}
        [] p.kind = "apps" /\ binding = "switch-group" ->
             {AppSelect(p, 0, IF backward THEN last ELSE IF last > 0 THEN 1 ELSE 0, FALSE)}
        [] OTHER -> {_select(p, IF backward THEN NItems - 1 ELSE first)}

Shown(p, mask) == [_disableHover(p) EXCEPT !.phase = "shown", !.modal = TRUE, !.mask = mask]

(* show, as _startSwitcher and CtrlAltTabManager.popup call it: the first  *)
(* destroys what is not shown, the second has its popup for good.          *)
Start(kind, binding, backward, mask) ==
  /\ popup.phase = "none"
  /\ kind = "panels" => ~_popup
  /\ \E p \in InitialSelection(Shown(NewPopup(kind), mask), binding, backward) :
       popup' = LET q == Checked(p) IN IF q.phase = "shown" THEN [q EXCEPT !.delay = TRUE] ELSE q
  /\ _popup' = (_popup \/ kind = "panels")
  /\ released' = FALSE
  /\ UNCHANGED <<refused, held>>

Refused(kind) ==
  /\ popup.phase = "none"
  /\ kind = "panels" => ~_popup
  /\ _popup' = (_popup \/ kind = "panels") /\ refused' = (refused \/ kind = "panels")
  /\ UNCHANGED <<popup, held, released>>

-----------------------------------------------------------------------------
(* The keys.                                                               *)
AppKey(p, key) ==
  LET at(window) == AppSelect(p, p.selected, window, FALSE)
  IN  CASE key = "group"  -> IF p.focused THEN at(_nextWindow(p)) ELSE at(0)
        [] key = "group-backward" -> at(_previousWindow(p))
        [] key = "next"  -> _select(p, _next(p))
        [] key = "previous" -> _select(p, _previous(p))
        [] key = "left"  -> IF p.focused THEN at(_previousWindow(p)) ELSE _select(p, _previous(p))
        [] key = "right" -> IF p.focused THEN at(_nextWindow(p)) ELSE _select(p, _next(p))
        [] key = "up"    -> IF p.focused THEN AppSelect(p, p.selected, -1, TRUE) ELSE p
        [] key = "down"  -> IF p.focused THEN p ELSE at(0)

(* _keyPressEvent with a key that _keyPressHandler knows, or does not.     *)
Key == {"group", "group-backward", "next", "previous", "left", "right", "up", "down"}

KeyPress(key) ==
  LET p == _disableHover(popup)
  IN  /\ popup.modal
      /\ popup' = IF p.kind = "apps" THEN AppKey(p, key)
                  ELSE CASE key \in {"next", "right"} -> _select(p, _next(p))
                         [] key \in {"previous", "left"} -> _select(p, _previous(p))
                         [] OTHER -> p
      /\ Len(popup'.fades) <= MaxFades
      /\ UNCHANGED <<_popup, refused, held, released>>

(* Escape, or a click outside.                                             *)
Cancel ==
  /\ popup.modal
  /\ popup' = Destroy(popup)
  /\ UNCHANGED <<_popup, refused, held, released>>

_keyReleaseEvent ==
  /\ popup.modal /\ released
  /\ popup' = IF ~popup.mask THEN _resetNoModsTimeout(popup)
              ELSE IF held THEN popup ELSE _finish(popup)
  /\ released' = FALSE
  /\ UNCHANGED <<_popup, refused, held>>

(* The modifier goes down, or up.                                          *)
Press ==
  /\ ~held /\ held' = TRUE
  /\ UNCHANGED <<popup, _popup, refused, released>>

Release ==
  /\ held /\ held' = FALSE
  /\ released' = popup.modal
  /\ UNCHANGED <<popup, _popup, refused>>

-----------------------------------------------------------------------------
(* The mouse.                                                              *)
AppScroll(p, up) ==
  LET n == NWindows(p.selected)
      at(window) == AppSelect(p, p.selected, window, FALSE)
  IN  IF up
      THEN IF p.focused
           THEN IF p.current \in {0, -1} THEN _select(p, _previous(p)) ELSE at(_previousWindow(p))
           ELSE IF n > 1 THEN at(n - 1) ELSE _select(p, _previous(p))
      ELSE IF p.focused
           THEN IF p.current = n - 1 THEN _select(p, _next(p)) ELSE at(_nextWindow(p))
           ELSE IF n > 1 THEN at(0) ELSE _select(p, _next(p))

_scrollEvent(up) ==
  /\ popup.modal
  /\ popup' = IF popup.kind = "apps" THEN AppScroll(popup, up)
              ELSE _select(popup, IF up THEN _previous(popup) ELSE _next(popup))
  /\ Len(popup'.fades) <= MaxFades
  /\ UNCHANGED <<_popup, refused, held, released>>

_itemActivated(n) ==
  /\ popup.modal /\ popup.kind # "cycler"
  /\ popup' = _finish(IF popup.kind = "apps" /\ n = popup.selected /\ popup.current >= 0
                      THEN AppSelect(popup, n, popup.current, FALSE) ELSE _select(popup, n))
  /\ UNCHANGED <<_popup, refused, held, released>>

(* A window of the thumbnails.                                             *)
_windowActivated(w) ==
  /\ popup.modal /\ popup.thumbs # -1
  /\ popup' = [Destroy(popup) EXCEPT !.finished = @ + 1]
  /\ UNCHANGED <<_popup, refused, held, released>>

_windowEntered(w) ==
  /\ popup.modal /\ popup.thumbs # -1
  /\ popup.mouseActive
  /\ popup' = AppSelect(popup, popup.selected, w, FALSE)
  /\ UNCHANGED <<_popup, refused, held, released>>

_itemEntered(p, n) == IF p.mouseActive THEN _select(p, n) ELSE p

(* _onItemEnter: that of the applications waits while there are thumbnails *)
(* to be seen.                                                             *)
_onItemEnter(n) ==
  /\ popup.modal /\ popup.kind # "cycler"
  /\ popup' = IF popup.kind = "apps"
              THEN IF popup.thumbnailsVisible THEN [popup EXCEPT !.hover = n]
                   ELSE _itemEntered([popup EXCEPT !.hover = -1], n)
              ELSE IF n = popup.entered THEN popup
              ELSE _itemEntered([popup EXCEPT !.entered = n], n)
  /\ Len(popup'.fades) <= MaxFades
  /\ UNCHANGED <<_popup, refused, held, released>>

-----------------------------------------------------------------------------
(* The timeouts, which fire while the popup fades as well.                 *)
Becomes(p) ==
  /\ popup' = p /\ Len(popup'.fades) <= MaxFades
  /\ UNCHANGED <<_popup, refused, held, released>>

_mouseTimedOut == popup.motion /\ Becomes([popup EXCEPT !.motion = FALSE, !.mouseActive = TRUE])
DelayEnds == popup.delay /\ Becomes([popup EXCEPT !.delay = FALSE])
NoModsEnds == popup.noMods /\ Becomes([_finish(popup) EXCEPT !.noMods = FALSE])
_timeoutPopupThumbnails ==
  popup.popping /\ Becomes([_createThumbnails(popup) EXCEPT !.popping = FALSE, !.focused = FALSE])

(* _enterItem, when the pointer is there still.                            *)
HoverEnds(there) ==
  /\ popup.hover # -1
  /\ Becomes([(IF there THEN _itemEntered(popup, popup.hover) ELSE popup) EXCEPT !.hover = -1])

(* Thumbnails have faded.  The animations are as long as each other.       *)
ThumbnailsFaded ==
  /\ popup.fades # <<>>
  /\ Becomes([popup EXCEPT !.fades = Tail(@), !.thumbnailsVisible = (Head(popup.fades) = "in")])

(* The popup has faded: _onDestroy ends what is pending.                   *)
Faded ==
  /\ popup.phase = "fading"
  /\ popup' = NewPopup(popup.kind)
  /\ _popup' = (_popup /\ popup.kind # "panels")
  /\ UNCHANGED <<refused, held, released>>

-----------------------------------------------------------------------------
Init ==
  /\ popup = NewPopup("apps")
  /\ _popup = FALSE /\ refused = FALSE /\ held = FALSE /\ released = FALSE

Next ==
  \/ \E kind \in Kind, binding \in {"switch-applications", "switch-group"}, backward, mask \in BOOLEAN :
       Start(kind, binding, backward, mask)
  \/ \E kind \in Kind : Refused(kind)
  \/ \E key \in Key : KeyPress(key)
  \/ Cancel \/ _keyReleaseEvent \/ Press \/ Release
  \/ \E up \in BOOLEAN : _scrollEvent(up)
  \/ \E n \in Items : _itemActivated(n) \/ _onItemEnter(n)
  \/ \E w \in 0..(NWindows(popup.selected) - 1) : _windowActivated(w) \/ _windowEntered(w)
  \/ _mouseTimedOut \/ DelayEnds \/ NoModsEnds \/ _timeoutPopupThumbnails
  \/ \E there \in BOOLEAN : HoverEnds(there)
  \/ ThumbnailsFaded \/ Faded

Spec == Init /\ [][Next]_vars

-----------------------------------------------------------------------------
TypeOK ==
  /\ popup \in Popups
  /\ {_popup, refused, held, released} \subseteq BOOLEAN

(* The modal is held by a popup that is shown, and by none that fades.     *)
ModalIsShown == popup.modal <=> popup.phase = "shown"

(* A popup that was opened with a modifier does not stay when it is up.    *)
NeverLeftOpen == popup.phase = "shown" /\ popup.mask => held \/ released

(* The thumbnails are those of the selected item, and the selected window  *)
(* is one of them.                                                         *)
ThumbnailsOfSelected ==
  /\ popup.thumbs \in {-1, popup.selected}
  /\ popup.current \in -1..(NWindows(popup.selected) - 1)
  /\ popup.current # -1 \/ popup.focused => popup.thumbs # -1
  /\ popup.thumbnailsVisible => popup.thumbs # -1 \/ Contains(popup.fades, "out")

(* A window that is hidden for a cycler is the one that it shows instead.  *)
HiddenIsShown ==
  popup.hidden # -1 => popup.phase # "none" /\ popup.kind = "cycler" /\ popup.hidden = popup.selected

(* What holds of the popup in whatever order keys, mouse and timeouts      *)
(* come.                                                                   *)
SwitcherSound ==
  TypeOK /\ ModalIsShown /\ NeverLeftOpen /\ ThumbnailsOfSelected /\ HiddenIsShown

(* Not so, and checked by no run: the timeout of a popup without modifier  *)
(* may fire while the popup fades, after Escape or another activation.     *)
ActivatesOnce == popup.finished <= 1
(* And the manager of the panels never shows a popup again after it was    *)
(* refused the modal once.                                                 *)
PanelsComeBack == popup.phase = "none" => ~_popup

=============================================================================
