------------------------------ MODULE GrabHelper ------------------------------
(***************************************************************************)
(* Grab helpers (js/ui/grabHelper.js) and two of their users: the managers *)
(* of popup menus (PopupMenuManager in js/ui/popupMenu.js) and the popups  *)
(* of application folders (AppFolderPopup in js/ui/appDisplay.js).         *)
(*                                                                         *)
(* Each helper takes one place in the modal stack of main.js, and one in a *)
(* stack of helpers whose top handles the events.  Where the code throws,  *)
(* the rest of its handler does not run; `thrown' remembers what was.      *)
(*                                                                         *)
(* Abstracted: the key focus and the action mode (ModalStack); the owner   *)
(* of a helper is named after it.                                          *)
(***************************************************************************)
EXTENDS Naturals, Sequences, SequencesExt

CONSTANTS
  Helper,
  Menu, Popup,      \* what is grabbed: menus of a manager, folder popups
  HelperOf,         \* [Menu \cup Popup -> Helper]
  Other,            \* other actors that are modal: the overview, a dialog
  Over,             \* [Helper -> SUBSET (Helper \cup Other)]: on top of which
                    \* modal actors the user can reach what opens its menus
  MaxModal          \* bound on the modal stack

Target == Menu \cup Popup

(* Each folder popup has a helper of its own; and while a menu is open,    *)
(* its helper keeps the user from all others.                              *)
ConstantsAssumption ==
  /\ HelperOf \in [Target -> Helper]
  /\ Helper \cap Other = {} /\ Menu \cap Popup = {}
  /\ \A f \in Popup, x \in Target : HelperOf[x] = HelperOf[f] => x = f
  /\ Over \in [Helper -> SUBSET (Helper \cup Other)]
  /\ \A m \in Menu, h \in Helper : HelperOf[m] \in Over[h] => h = HelperOf[m]
  /\ IsFiniteSet(Menu) /\ MaxModal \in Nat

VARIABLES
  isOpen,           \* PopupMenu.isOpen, AppFolderPopup._isOpen
  _grabStack, _modalCount, _ignoreUntilRelease,
  _grabHelperStack,
  modal,            \* modalActorFocusStack
  begun,            \* the modal of the plugin
  alive,            \* menus and popups that were not destroyed
  thrown            \* of {"helper", "pop"}

vars == <<isOpen, _grabStack, _modalCount, _ignoreUntilRelease, _grabHelperStack, modal, begun,
          alive, thrown>>

On(s) == IF s = <<>> THEN {} ELSE {Last(s)}
First(s, x) == CHOOSE i \in DOMAIN s : s[i] = x /\ \A j \in DOMAIN s : s[j] = x => i <= j

World ==
  [open |-> isOpen, grabs |-> _grabStack, count |-> _modalCount, ignore |-> _ignoreUntilRelease,
   helpers |-> _grabHelperStack, modal |-> modal, begun |-> begun, thrown |-> thrown,
   stop |-> FALSE]

Becomes(w) ==
  /\ isOpen' = w.open /\ _grabStack' = w.grabs /\ _modalCount' = w.count
  /\ _ignoreUntilRelease' = w.ignore /\ _grabHelperStack' = w.helpers
  /\ modal' = w.modal /\ begun' = w.begun /\ thrown' = w.thrown

-----------------------------------------------------------------------------
(* main.js *)
MayRefuse == IF modal = <<>> THEN BOOLEAN ELSE {FALSE}

PushModal(w, a) == [w EXCEPT !.modal = Append(@, a), !.begun = @ \/ w.modal = <<>>]

(* Mutant of PopModal: only the actor on top is found.                     *)
PopModalTop(w, a) ==
  IF On(w.modal) # {a}
    THEN [w EXCEPT !.begun = FALSE, !.thrown = @ \cup {"pop"}, !.stop = TRUE]
    ELSE [w EXCEPT !.modal = Front(@), !.begun = @ /\ Len(w.modal) > 1]

(* The modal of the plugin ends with the last actor, and when an actor is  *)
(* popped that is not there.                                               *)
PopModal(w, a) ==
  IF a \notin ToSet(w.modal)
    THEN [w EXCEPT !.begun = FALSE, !.thrown = @ \cup {"pop"}, !.stop = TRUE]
    ELSE [w EXCEPT !.modal = RemoveAt(@, First(@, a)), !.begun = @ /\ Len(w.modal) > 1]

-----------------------------------------------------------------------------
(* grabHelper.js *)

_popGrabHelper(w, h) ==
  LET popped == IF w.helpers = <<>> THEN w ELSE [w EXCEPT !.helpers = Front(@)]
  IN  IF On(w.helpers) = {h} THEN popped
      ELSE [popped EXCEPT !.thrown = @ \cup {"helper"}, !.stop = TRUE]

_takeModalGrab(w, h) ==
  LET first == w.count[h] = 0
      pushed == IF first THEN [PushModal(w, h) EXCEPT !.helpers = Append(@, h)] ELSE w
  IN  [pushed EXCEPT !.count[h] = @ + 1]

_releaseModalGrab(w, h) ==
  LET less == [w EXCEPT !.count[h] = @ - 1]
      popped == _popGrabHelper(less, h)
  IN  IF less.count[h] > 0 THEN less
      ELSE IF popped.stop THEN popped
      ELSE PopModal([popped EXCEPT !.ignore = @ \ {h}], h)

(* onUngrab: _closeMenu closes for the user only; popdown does always.     *)
(* Neither finds the grab when it comes back to ungrab.                    *)
onUngrab(w, x, isUser) ==
  IF isUser \/ x \in Popup THEN [w EXCEPT !.open = @ \ {x}] ELSE w

IsGrabbed(w, h, x) == x \in ToSet(w.grabs[h])

(* Mutant of ungrab: one grab of the stack goes.                           *)
UngrabOne(w, h, x, isUser) ==
  IF ~IsGrabbed(w, h, x) THEN w
  ELSE onUngrab([w EXCEPT !.grabs[h] = SelectSeq(@, LAMBDA y : y # x)], x, isUser)

(* Everything from x up, the last first, until one throws.                 *)
ungrab(w, h, x, isUser) ==
  LET s == w.grabs[h]
      k == First(s, x)
      left == [w EXCEPT !.grabs[h] = SubSeq(@, 1, k - 1)]
      popped[n \in 0..(Len(s) - k + 1)] ==
        IF n = 0 THEN left
        ELSE IF popped[n - 1].stop THEN popped[n - 1]
        ELSE _releaseModalGrab(onUngrab(popped[n - 1], s[Len(s) - n + 1], isUser), h)
  IN  IF ~IsGrabbed(w, h, x) THEN w ELSE [popped[Len(s) - k + 1] EXCEPT !.stop = FALSE]

grab(w, x, refused) ==
  LET h == HelperOf[x]
  IN  IF IsGrabbed(w, h, x) \/ refused THEN w
      ELSE [_takeModalGrab(w, h) EXCEPT !.grabs[h] = Append(@, x)]

-----------------------------------------------------------------------------
(* PopupMenu.close, the handler of its manager *)
Closed(w, m) ==
  IF m \notin w.open THEN w
  ELSE ungrab([w EXCEPT !.open = @ \ {m}], HelperOf[m], m, FALSE)

ClosedEach(w, order) ==
  LET closed[n \in 0..Len(order)] ==
        IF n = 0 THEN w ELSE Closed(closed[n - 1], order[n])
  IN  closed[Len(order)]

(* Another menu of the manager is closed before the grab is taken: it may  *)
(* have been the last modal, and the modal may be refused then.            *)
_onMenuOpenState(w, m, refused) ==
  LET h == HelperOf[m]
      alone == IF w.grabs[h] = <<>> THEN w ELSE Closed(w, w.grabs[h][1])
  IN  grab(alone, m, refused)

(* AppFolderPopup.popdown *)
PoppedDown(w, f) ==
  IF f \notin w.open THEN w
  ELSE [ungrab(w, HelperOf[f], f, FALSE) EXCEPT !.open = @ \ {f}]

Hidden(w, x) == IF x \in Popup THEN PoppedDown(w, x) ELSE Closed(w, x)

-----------------------------------------------------------------------------
Init ==
  /\ isOpen = {} /\ _grabStack = [h \in Helper |-> <<>>]
  /\ _modalCount = [h \in Helper |-> 0] /\ _ignoreUntilRelease = {}
  /\ _grabHelperStack = <<>> /\ modal = <<>> /\ begun = FALSE
  /\ alive = Target /\ thrown = {}

Room == Len(modal) < MaxModal

(* The user reaches what opens x: neither what is modal nor the helper     *)
(* that handles the events keeps it away.                                  *)
Reached(x) ==
  /\ x \in alive \ isOpen /\ Room
  /\ On(modal) \cup On(_grabHelperStack) \subseteq Over[HelperOf[x]]

(* A menu is opened: by its button, a key, or the pointer that enters its  *)
(* source while another menu of the manager is open.  It is open even if   *)
(* the modal is refused.                                                   *)
OpenMenu(m) ==
  /\ m \in Menu /\ Reached(m)
  /\ \E refused \in IF modal \in {<<>>, <<HelperOf[m]>>} THEN BOOLEAN ELSE {FALSE} :
       Becomes(_onMenuOpenState([World EXCEPT !.open = @ \cup {m}], m, refused))
  /\ UNCHANGED alive

popup(f) ==
  /\ f \in Popup /\ Reached(f)
  /\ \E refused \in MayRefuse :
       Becomes(IF refused THEN World ELSE grab([World EXCEPT !.open = @ \cup {f}], f, FALSE))
  /\ UNCHANGED alive

(* A menu is closed by its item, its button or the session; a popup when   *)
(* its folder is unmapped.  (The menus of icons are closed when the        *)
(* overview begins to hide; a key may open one again before it has.)       *)
Close(x) ==
  /\ x \in isOpen
  /\ Becomes(Hidden(World, x))
  /\ UNCHANGED alive

(* The session mode changes: all menus are closed, whatever is on top.     *)
_sessionUpdated ==
  /\ isOpen \cap Menu # {}
  /\ \E order \in SetToSeqs(isOpen \cap Menu) : Becomes(ClosedEach(World, order))
  /\ UNCHANGED alive

(* A menu is destroyed: it is closed first.                                *)
DestroyMenu(m) ==
  /\ m \in Menu \cap alive
  /\ Becomes(Closed(World, m))
  /\ alive' = alive \ {m}

(* The view is filled again: a folder and its popup are destroyed.  The    *)
(* modal stack drops the popup, the icons in it go with their menus, and   *)
(* then the folder, which is unmapped, pops it down.                       *)
DestroyFolder(f) ==
  /\ f \in Popup \cap alive
  /\ LET h == HelperOf[f]
         dropped == IF h \in ToSet(modal) THEN PopModal(World, h) ELSE World
     IN  \E inside \in SUBSET {m \in Menu \cap isOpen : h \in Over[HelperOf[m]]} :
         \E order \in SetToSeqs(inside) :
           /\ Becomes(PoppedDown(ClosedEach(dropped, order), f))
           /\ alive' = alive \ ({f} \cup inside)

(* onCapturedEvent of the helper on top.                                   *)
Top == Last(_grabHelperStack)

Escape ==
  /\ _grabHelperStack # <<>>
  /\ LET s == _grabStack[Top] IN
       /\ s # <<>>
       /\ Becomes(ungrab(World, Top, Last(s), TRUE))
  /\ UNCHANGED alive

(* A click that is not in the current grab: in that numbered k, or, when k *)
(* is 0, in none.                                                          *)
PressOutside(k) ==
  /\ _grabHelperStack # <<>> /\ Top \notin _ignoreUntilRelease
  /\ k \in 0..(Len(_grabStack[Top]) - 1)
  /\ LET ignoring == [World EXCEPT !.ignore = @ \cup {Top}]
     IN  Becomes(ungrab(ignoring, Top, _grabStack[Top][k + 1], TRUE))
  /\ UNCHANGED alive

Release ==
  /\ _grabHelperStack # <<>> /\ Top \in _ignoreUntilRelease
  /\ Becomes([World EXCEPT !.ignore = @ \ {Top}])
  /\ UNCHANGED alive

(* The overview and the dialogs.                                           *)
OtherPushes(a) ==
  /\ a \notin ToSet(modal) /\ Room
  /\ Becomes(PushModal(World, a))
  /\ UNCHANGED alive

OtherPops(a) ==
  /\ a \in ToSet(modal)
  /\ Becomes(PopModal(World, a))
  /\ UNCHANGED alive

Next ==
  \/ \E m \in Menu : OpenMenu(m) \/ DestroyMenu(m)
  \/ \E f \in Popup : popup(f) \/ DestroyFolder(f)
  \/ \E x \in Target : Close(x)
  \/ _sessionUpdated \/ Escape \/ Release
  \/ \E k \in 0..MaxModal : PressOutside(k)
  \/ \E a \in Other : OtherPushes(a) \/ OtherPops(a)

Spec == Init /\ [][Next]_vars
-----------------------------------------------------------------------------
Worlds ==
  [open : SUBSET Target, grabs : [Helper -> Seq(Target)], count : [Helper -> Nat],
   ignore : SUBSET Helper, helpers : Seq(Helper), modal : Seq(Helper \cup Other),
   begun : BOOLEAN, thrown : SUBSET {"helper", "pop"}, stop : BOOLEAN]

TypeOK == World \in Worlds /\ alive \subseteq Target

(* b comes after a in s.                                                   *)
Below(s, a, b) == \E i, j \in DOMAIN s : i < j /\ s[i] = a /\ s[j] = b

(* As long as nothing was thrown, no actor is modal twice; the helpers     *)
(* that have grabs are those on the stack of helpers, in the order in      *)
(* which their owners are modal; that of a menu with a grab is on top; and *)
(* the plugin is modal while an actor is.                                  *)
InStep(w) ==
  w.thrown = {} =>
    /\ \A a \in Helper \cup Other : ~Below(w.modal, a, a)
    /\ ToSet(w.helpers) = ToSet(w.modal) \cap Helper
    /\ \A a, b \in Helper : Below(w.helpers, a, b) <=> Below(w.modal, a, b)
    /\ \A h \in Helper : h \in ToSet(w.modal) <=> w.count[h] > 0
    /\ \A m \in Menu : IsGrabbed(w, HelperOf[m], m) => On(w.helpers) = {HelperOf[m]}
    /\ w.begun <=> w.modal # <<>>

(* What has a grab is open, and exists, and its own helper counts it; a    *)
(* manager has one menu open, but for those to which the modal was refused.*)
GrabbedIsOpen(w, live) ==
  \A h \in Helper :
    /\ ToSet(w.grabs[h]) \subseteq {x \in w.open \cap live : HelperOf[x] = h}
    /\ w.count[h] = Len(w.grabs[h])
    /\ Len(w.grabs[h]) <= 1

(* Menus alone give up their grabs in order: what is thrown first comes    *)
(* from a folder popup that goes, by itself or with its folder.            *)
MenusPopInOrder ==
  [][thrown = {} /\ thrown' # {} => \E f \in Popup : f \in isOpen /\ f \notin isOpen']_vars

(* A helper is on top of the stack of helpers when it gives up its place,  *)
(* as the assertion in _popGrabHelper has it.                              *)
HelpersPopInOrder == "helper" \notin thrown

(* Grabs, helpers and modals agree.                                        *)
HelpersSound == TypeOK /\ InStep(World) /\ GrabbedIsOpen(World, alive)

=============================================================================
