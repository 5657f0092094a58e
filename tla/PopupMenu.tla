------------------------------ MODULE PopupMenu ------------------------------
(***************************************************************************)
(* A popup menu of the shell (js/ui/popupMenu.js) with what is in it:      *)
(* items, separators, sections, and items that open a submenu.  Which item *)
(* is active is known to the item, to the key focus and to every menu      *)
(* around it; which submenu is open, to it, to the menu on top and to the  *)
(* tween that unfolds it; and the box around all has tweens of its own,    *)
(* behind which what is open in it is closed.                              *)
(*                                                                         *)
(* Methods that call one another are functions on worlds.  Handlers of     *)
(* clutter run at once: the focus leaves an actor before it enters another,*)
(* and an actor that is hidden or destroyed loses it.                      *)
(*                                                                         *)
(* Abstracted: text, icons, ornaments and switches; a menu holds sections  *)
(* and submenus, which hold items and separators (the labels of which are  *)
(* empty); whether a submenu needs a scrollbar does not change ("dynamic   *)
(* changes in whether we need it aren't handled properly", line 979); the  *)
(* grab of the manager (GrabHelper) takes the focus out of the menu when   *)
(* it opens and when it closes.                                            *)
(***************************************************************************)
EXTENDS Naturals, FiniteSets, Sequences, SequencesExt

CONSTANTS
  Item,       \* PopupMenuItem
  Separator,  \* PopupSeparatorMenuItem
  SubMenu,    \* PopupSubMenuMenuItem, which also names its menu
  Section,    \* PopupMenuSection
  top,        \* the PopupMenu
  Contents,   \* [Container -> Seq(Child)]: what a menu is filled with first
  Hides,      \* the items that are hidden and shown again
  Fades,      \* the items that become insensitive, and sensitive again
  Spare,      \* those that are added later
  Moves,      \* those that are moved
  Dies,       \* those that are destroyed
  None

Container == {top} \cup Section \cup SubMenu
Entry == Item \cup SubMenu
Child == Entry \cup Separator \cup Section

MenuAssumption ==
  /\ Contents \in [Container -> Seq(Child)]
  /\ Hides \cup Fades \subseteq Entry /\ Spare \subseteq Item \cup Separator /\ Dies \subseteq Child
  /\ Moves \subseteq Item \cup Separator
  /\ \A c \in Container \ {top} : ToSet(Contents[c]) \subseteq Item \cup Separator
  /\ \A s \in SubMenu : ToSet(Contents[s]) \cap Fades = {}
  /\ None \notin Child \cup {top}

VARIABLES
  box,          \* the children of the box of a menu, without those of submenus
  connected,    \* the separators, in the order in which they were added
  hidden,       \* the items and separators that are not visible
  insensitive,  \* the items with _sensitive = false
  active,       \* the items with active = true
  _activeMenuItem,
  focus,        \* the key focus: an item, the actor of the menu or a section
  isOpen, _openedSubMenu,
  unfolded,     \* the submenus whose actors are visible
  tween,        \* of the actor of a submenu
  pointer,      \* the BoxPointer
  scrolls       \* _needsScrollbar

menuVars == <<box, connected, hidden, insensitive, active, _activeMenuItem, focus, isOpen,
              _openedSubMenu, unfolded, tween, pointer, scrolls>>

World ==
  [box |-> box, connected |-> connected, hidden |-> hidden, insensitive |-> insensitive,
   active |-> active, item |-> _activeMenuItem, focus |-> focus, open |-> isOpen,
   opened |-> _openedSubMenu, unfolded |-> unfolded, tween |-> tween, pointer |-> pointer]

Becomes(w) ==
  /\ box' = w.box /\ connected' = w.connected /\ hidden' = w.hidden
  /\ insensitive' = w.insensitive /\ active' = w.active /\ _activeMenuItem' = w.item
  /\ focus' = w.focus /\ isOpen' = w.open /\ _openedSubMenu' = w.opened
  /\ unfolded' = w.unfolded /\ tween' = w.tween /\ pointer' = w.pointer
  /\ UNCHANGED scrolls

Within(w, c) == ToSet(w.box[c])
Present(w) == UNION {Within(w, c) : c \in Container}

(* The menu that an item was added to.                                     *)
ParentOf(w, x) == CHOOSE c \in Container : x \in Within(w, c)

-----------------------------------------------------------------------------
(* Which item is active *)

(* 'active-changed' of a section or submenu, with the item or None.        *)
Without(w, x) ==
  [w EXCEPT !.active = @ \ {x},
            !.item = [c \in Container |-> IF w.item[c] = x THEN None ELSE w.item[c]]]

_subMenuActiveChanged(w, x) ==
  LET other == w.item[top]
      alone == IF other \notin {None, x} /\ other \in w.active THEN Without(w, other) ELSE w
  IN  [alone EXCEPT !.item[top] = x]

(* setActive(false)                                                        *)
Deactivated(w, x) ==
  LET c == ParentOf(w, x)
      less == [w EXCEPT !.active = @ \ {x}]
  IN  IF x \notin w.active THEN w
      ELSE IF w.item[c] # x THEN less
      ELSE IF c = top THEN [less EXCEPT !.item[top] = None]
      ELSE _subMenuActiveChanged([less EXCEPT !.item[c] = None], None)

(* grab_key_focus of x, or of something outside of the menu.               *)
Focused(w, x) ==
  LET moved == [w EXCEPT !.focus = x]
  IN  IF w.focus \in Entry \ {x} THEN Deactivated(moved, w.focus) ELSE moved

(* What the menu c does of which an item becomes active: another that is  *)
(* active no longer is, and the menu on top is told.                       *)
_connectItemSignals(w, c, x) ==
  LET former == w.item[c]
      known == [IF former = None THEN w ELSE Deactivated(w, former) EXCEPT !.item[c] = x]
  IN  IF former = x THEN w
      ELSE IF c = top THEN known
      ELSE _subMenuActiveChanged(known, x)

(* setActive(true)                                                         *)
Activated(w, x) ==
  IF x \in w.active THEN w
  ELSE _connectItemSignals(Focused([w EXCEPT !.active = @ \cup {x}], x), ParentOf(w, x), x)

(* What the menu c takes for active no longer is.                          *)
Quiet(w, c) == IF w.item[c] = None THEN w ELSE Deactivated(w, w.item[c])

(* Actors that are unmapped lose the pointer and the key focus.            *)
Unhovered(w, S) ==
  IF w.active \cap S = {} THEN w ELSE Deactivated(w, CHOOSE x \in w.active \cap S : TRUE)

Unmapped(w, S) == Unhovered(IF w.focus \in S THEN Focused(w, None) ELSE w, S)

-----------------------------------------------------------------------------
(* What can be seen *)

HoldsVisible(w, c) == \E x \in Within(w, c) \cap Entry : x \notin w.hidden

isPopupMenuItemVisible(w, x) ==
  IF x \in Section THEN HoldsVisible(w, x) ELSE x \notin w.hidden \/ x \in w.unfolded

isEmpty(w, c) ==
  \A x \in Within(w, c) \ Separator : ~isPopupMenuItemVisible(w, x)

(* What is seen next before and after place k of the box of c.             *)
Seen(w, c, places) == {i \in places : isPopupMenuItemVisible(w, w.box[c][i])}
Before(w, c, k) ==
  LET seen == Seen(w, c, 1..(k - 1)) IN IF seen = {} THEN None ELSE w.box[c][Max(seen)]
After(w, c, k) ==
  LET seen == Seen(w, c, (k + 1)..Len(w.box[c]))
  IN  IF seen = {} THEN None ELSE w.box[c][Min(seen)]

(* Whether the separator p stands between two things that are not.         *)
Parts(w, c, p) ==
  LET k == SelectInSeq(w.box[c], LAMBDA x : x = p)
  IN  {Before(w, c, k), After(w, c, k)} \cap (Separator \cup {None}) = {}

(* Mutant of _updateSeparatorVisibility: what comes after is not looked at.*)
LooksBefore(w, c, p) ==
  LET k == SelectInSeq(w.box[c], LAMBDA x : x = p)
  IN  IF Before(w, c, k) \notin Separator \cup {None}
      THEN [w EXCEPT !.hidden = @ \ {p}] ELSE [w EXCEPT !.hidden = @ \cup {p}]

_updateSeparatorVisibility(w, c, p) ==
  IF Parts(w, c, p) THEN [w EXCEPT !.hidden = @ \ {p}] ELSE [w EXCEPT !.hidden = @ \cup {p}]

(* 'open-state-changed' of c: its separators, in the order in which they   *)
(* were connected.                                                         *)
Separated(w, c) ==
  FoldLeft(LAMBDA v, p : IF p \in Within(v, c) THEN _updateSeparatorVisibility(v, c, p) ELSE v,
           w, w.connected)

-----------------------------------------------------------------------------
(* PopupSubMenu *)

(* close(animate), and _subMenuOpenStateChanged, which leaves no submenu   *)
(* opened; a tween that goes on after close(false) finds it hidden.        *)
Folding(w, s, animate) ==
  IF animate /\ ~scrolls THEN [w EXCEPT !.tween[s] = "closing"]
  ELSE Unmapped([w EXCEPT !.unfolded = @ \ {s}], Within(w, s))

Folded(w, s, animate) ==
  Folding(Quiet(Separated([w EXCEPT !.open = @ \ {s}], s), s), s, animate)

_setOpenedSubMenu(w, x) ==
  LET other == w.opened
      alone == IF other \in w.open THEN Folded(w, other, TRUE) ELSE w
  IN  [alone EXCEPT !.opened = x]

CloseSub(w, s, animate) ==
  IF s \notin w.open THEN w
  ELSE LET told == _setOpenedSubMenu([w EXCEPT !.open = @ \ {s}], None)
       IN  Folded(told, s, animate)

(* Mutant of OpenSub: the submenu that is open stays so.                   *)
OpenBeside(w, s) ==
  IF s \in w.open \/ isEmpty(w, s) THEN w
  ELSE [w EXCEPT !.open = @ \cup {s}, !.opened = s, !.unfolded = @ \cup {s},
                 !.tween[s] = IF scrolls THEN @ ELSE "opening"]

(* open: a tween takes the place of the one that still folds it.           *)
OpenSub(w, s) ==
  LET told == Separated(_setOpenedSubMenu([w EXCEPT !.open = @ \cup {s}], s), s)
  IN  IF s \in w.open \/ isEmpty(w, s) THEN w
      ELSE [told EXCEPT !.unfolded = @ \cup {s},
                        !.tween[s] = IF scrolls THEN @ ELSE "opening"]

Toggled(w, s) == IF s \in w.open THEN CloseSub(w, s, TRUE) ELSE OpenSub(w, s)

TweenEnds(s) ==
  /\ tween[s] # "none"
  /\ LET w == [World EXCEPT !.tween[s] = "none"]
     IN  Becomes(IF tween[s] = "opening" THEN w
                 ELSE Unmapped([w EXCEPT !.unfolded = @ \ {s}], Within(w, s)))

-----------------------------------------------------------------------------
(* PopupMenu *)

(* The sections pass on what they are told of the menu.                    *)
Stated(w) == FoldLeft(Separated, w, SetToSeq({top} \cup (Section \cap Within(w, top))))

Opened(w, animate) ==
  IF top \in w.open \/ isEmpty(w, top) THEN w
  ELSE Focused(Stated([w EXCEPT !.open = @ \cup {top},
                                !.pointer = IF animate THEN "showing" ELSE "shown"]), None)

(* The end of BoxPointer.hide, and 'menu-closed'.                          *)
Vanished(w) ==
  LET gone == Unmapped([w EXCEPT !.pointer = "hidden"], Present(w) \cup Container)
  IN  FoldLeft(LAMBDA v, s : CloseSub(v, s, FALSE), gone, SetToSeq(SubMenu))

Hidden(w, animate) ==
  IF w.pointer = "hidden" THEN w
  ELSE IF animate THEN [w EXCEPT !.pointer = "hiding"] ELSE Vanished(w)

Shut(w) ==
  IF top \notin w.open THEN w ELSE Focused(Stated([w EXCEPT !.open = @ \ {top}]), None)

Closed(w, animate) == Shut(Hidden(Quiet(w, top), animate))

-----------------------------------------------------------------------------
Init ==
  /\ box = [c \in Container |-> SelectSeq(Contents[c], LAMBDA x : x \notin Spare)]
  /\ connected = SetToSeq(Separator \cap UNION {ToSet(box[c]) : c \in Container})
  /\ hidden = {} /\ insensitive = {} /\ active = {}
  /\ _activeMenuItem = [c \in Container |-> None] /\ focus = None
  /\ isOpen = {} /\ _openedSubMenu = None /\ unfolded = {}
  /\ tween = [s \in SubMenu |-> "none"] /\ pointer = "hidden"
  /\ scrolls \in BOOLEAN

(* The menu takes events once it is unmuted; what can be focused and hovered.*)
Reachable(w, x) ==
  /\ x \in Present(w) \cap Entry /\ x \notin w.hidden \cup w.insensitive
  /\ ParentOf(w, x) \in {top} \cup Section \cup w.unfolded
Takes(x) == pointer = "shown" /\ Reachable(World, x)

(* The button of the menu, its keys, and the grab helper.                  *)
toggle == Becomes(IF top \in isOpen THEN Closed(World, TRUE) ELSE Opened(World, TRUE))
OpenWithout == top \notin isOpen /\ Becomes(Opened(World, FALSE))
close(animate) == top \in isOpen /\ Becomes(Closed(World, animate))
ShowEnds == pointer = "showing" /\ Becomes([World EXCEPT !.pointer = "shown"])
HideEnds == pointer = "hiding" /\ Becomes(Vanished(World))

(* The pointer enters and leaves an item; the focus moves by a key.        *)
Enter(x) == Takes(x) /\ Becomes(Activated(World, x))
Leave(x) == Takes(x) /\ x \in active /\ Becomes(Deactivated(World, x))
KeyFocus(w, x) == Activated(Focused(w, x), x)
Navigate(x) == Takes(x) /\ x # focus /\ Becomes(KeyFocus(World, x))

(* activate of an item: itemActivated closes the menu.                     *)
Activate(x) == x \in Item /\ Takes(x) /\ Becomes(Closed(World, TRUE))

(* PopupSubMenuMenuItem: a click, Return, Right and Left.                  *)
Click(s) == s \in SubMenu /\ Takes(s) /\ Becomes(Toggled(World, s))
Return(s) == s \in SubMenu /\ Takes(s) /\ focus = s /\ Becomes(OpenSub(World, s))
Entered(w, s) ==
  LET there == SelectSeq(w.box[s], LAMBDA x : Reachable(w, x))
  IN  IF s \notin w.open \/ there = <<>> THEN w ELSE KeyFocus(w, Head(there))
Right(s) ==
  /\ s \in SubMenu /\ Takes(s) /\ focus = s
  /\ Becomes(Entered(OpenSub(World, s), s))
Left(s) == Takes(s) /\ focus = s /\ s \in isOpen /\ Becomes(CloseSub(World, s, TRUE))
LeftInside(s) ==
  /\ pointer = "shown" /\ s \in isOpen /\ focus \in Within(World, s)
  /\ Becomes(Activated(CloseSub(World, s, TRUE), s))

(* The session mode changes: items for settings come and go, every menu is *)
(* closed at once.                                                         *)
_sessionUpdated ==
  \E S \in SUBSET Hides :
    LET w == [World EXCEPT !.hidden = (@ \ Hides) \cup S]
    IN  Becomes(FoldLeft(Separated, Closed(w, FALSE), SetToSeq(Section)))

SetVisible(x) ==
  /\ x \in Hides \cap Present(World)
  /\ Becomes(IF x \in hidden THEN [World EXCEPT !.hidden = @ \ {x}]
             ELSE Unmapped([World EXCEPT !.hidden = @ \cup {x}], {x}))

(* setSensitive and 'sensitive-changed': the focus goes to another item of *)
(* the menu, or to its actor, from where it comes back.                    *)
setSensitive(x) ==
  LET c == ParentOf(World, x)
      w == [World EXCEPT !.insensitive = IF x \in @ THEN @ \ {x} ELSE @ \cup {x}]
      there == {y \in Entry : Reachable(w, y) /\ (c # top => y \in Within(w, c))}
      away == IF w.item[c] # x THEN {w}
              ELSE IF there = {} THEN {Focused(w, c)} ELSE {KeyFocus(w, y) : y \in there}
  IN  /\ x \in Fades \cap Present(World)
      /\ IF x \in insensitive
         THEN Becomes(IF w.item[c] = None /\ w.focus = c THEN KeyFocus(w, x) ELSE w)
         ELSE \E v \in away : Becomes(IF x \in SubMenu THEN CloseSub(v, x, FALSE) ELSE v)

(* addMenuItem(x, position) and moveMenuItem(x, position), counted from 0. *)
addMenuItem(x, c, position) ==
  /\ position \in 0..Len(box[c])
  /\ x \in ToSet(Contents[c]) \cap (Spare \ Present(World))
  /\ Becomes([World EXCEPT !.box[c] = InsertAt(@, position + 1, x),
                           !.connected = IF x \in Separator THEN Append(@, x) ELSE @,
                           !.hidden = @ \ {x}, !.insensitive = @ \ {x}])

(* The loop of moveMenuItem stops at the place before which x is put.      *)
Passed(s, x, n) ==
  CHOOSE i \in 0..Len(s) :
    /\ Cardinality({j \in 1..i : s[j] # x}) = n \/ i = Len(s)
    /\ \A h \in 0..(i - 1) : Cardinality({j \in 1..h : s[j] # x}) # n

moveMenuItem(x, position) ==
  LET c == ParentOf(World, x)
      i == Passed(box[c], x, position)
      others == SelectSeq(box[c], LAMBDA y : y # x)
      place == Cardinality({j \in 1..i : box[c][j] # x})
  IN  /\ x \in Moves \cap Present(World) /\ position \in 0..(Len(box[c]) - 1)
      /\ Becomes([World EXCEPT !.box[c] = InsertAt(others, place + 1, x)])

(* destroy: the handlers of its menu go before the focus does.             *)
Destroyed(w, x) ==
  LET c == ParentOf(w, x)
  IN  [w EXCEPT !.box[c] = SelectSeq(@, LAMBDA y : y # x),
                !.connected = SelectSeq(@, LAMBDA y : y # x),
                !.active = @ \ {x}, !.focus = IF @ = x THEN None ELSE @,
                !.item[c] = IF @ = x THEN None ELSE @]

removeAll(w, c) == FoldLeft(Destroyed, w, w.box[c])

destroy(x) ==
  /\ x \in Dies \cap Present(World)
  /\ Becomes(IF x \in SubMenu
             THEN LET gone == removeAll(CloseSub(World, x, FALSE), x)
                  IN  [Destroyed(gone, x) EXCEPT !.unfolded = @ \ {x}, !.tween[x] = "none"]
             ELSE IF x \in Section THEN Destroyed(removeAll(Separated(World, x), x), x)
             ELSE Destroyed(World, x))

Next ==
  \/ toggle \/ OpenWithout \/ ShowEnds \/ HideEnds \/ _sessionUpdated
  \/ \E animate \in BOOLEAN : close(animate)
  \/ \E x \in Entry : Enter(x) \/ Leave(x) \/ Navigate(x)
  \/ \E x \in Item : Activate(x)
  \/ \E s \in SubMenu : Click(s) \/ Return(s) \/ Right(s) \/ Left(s) \/ LeftInside(s) \/ TweenEnds(s)
  \/ \E x \in Hides : SetVisible(x)
  \/ \E x \in Fades : setSensitive(x)
  \/ \E c \in Container : \E x \in Spare, n \in 0..Len(box[c]) : addMenuItem(x, c, n)
  \/ \E x \in Moves \cap Present(World) :
       \E n \in 0..(Len(box[ParentOf(World, x)]) - 1) : moveMenuItem(x, n)
  \/ \E x \in Dies : destroy(x)

Spec == Init /\ [][Next]_menuVars

-----------------------------------------------------------------------------
TypeOK ==
  /\ \A c \in Container : Within(World, c) \subseteq Child
  /\ ToSet(connected) = Separator \cap Present(World)
  /\ active \subseteq Present(World) \cap Entry
  /\ isOpen \cup unfolded \subseteq {top} \cup SubMenu
  /\ pointer \in {"hidden", "showing", "shown", "hiding"}

(* At most one item is active; it has the key focus, and every menu around *)
(* it knows it; and what a menu takes for active is, unless it has gone    *)
(* (js/ui/popupMenu.js, setActive and _connectItemSignals).                *)
ActiveIsKnown ==
  /\ active \subseteq {focus}
  /\ \A x \in active : \A c \in {top, ParentOf(World, x)} : _activeMenuItem[c] = x
  /\ \A c \in Container :
       _activeMenuItem[c] \in Present(World) => _activeMenuItem[c] \in active

(* One submenu is open, the one that the menu on top knows; it is unfolded,*)
(* and one that is not folds.                                              *)
OneSubMenu ==
  /\ isOpen \ {top} = {_openedSubMenu} \ {None}
  /\ isOpen \ {top} \subseteq unfolded
  /\ \A s \in unfolded \ isOpen : tween[s] = "closing"
  /\ \A s \in isOpen \cap SubMenu : tween[s] # "closing"

(* The box is there while the menu is open; and when it has vanished,      *)
(* nothing in it is open, active or has the focus.                         *)
VanishedIsShut ==
  /\ top \in isOpen <=> pointer \in {"showing", "shown"}
  /\ pointer = "hidden" => isOpen = {} /\ active = {} /\ focus = None

MenuSound == TypeOK /\ ActiveIsKnown /\ OneSubMenu /\ VanishedIsShut

(* A menu that has just opened shows a separator exactly where it parts    *)
(* two things, whatever was hidden, moved, added or destroyed before.      *)
SeparatorsPart ==
  [][top \notin isOpen /\ top \in isOpen' =>
       \A p \in Separator \cap Within(World, top) :
         p \notin hidden' <=> Parts(World, top, p)']_menuVars

=============================================================================
