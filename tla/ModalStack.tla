------------------------------ MODULE ModalStack ------------------------------
(***************************************************************************)
(* pushModal and popModal of js/ui/main.js: the actors that have all input *)
(* of the shell in turn, the key focus and the action mode that each of    *)
(* them found and gives back, and the modal of the plugin that they share. *)
(*                                                                         *)
(* A modal actor may be popped from anywhere in the stack, by its owner or *)
(* because it is destroyed.  The focus it found may be destroyed too: a    *)
(* record watches it through a signal handler that remembers the actor it  *)
(* was connected for.                                                      *)
(*                                                                         *)
(* Abstracted: an action mode is named after the actor that pushes it, so  *)
(* that any two can be told apart.  Owners pop only what they have pushed; *)
(* destroying an actor runs the handlers of its own record first.          *)
(***************************************************************************)
EXTENDS Naturals, Sequences, SequencesExt

CONSTANTS
  Actor,    \* actors that are pushed
  Widget,   \* other actors that may have the key focus
  NORMAL,   \* Shell.ActionMode.NORMAL
  Null

ASSUME ConstantsAssumption ==
  /\ Actor \cap Widget = {}
  /\ {NORMAL, Null} \cap (Actor \cup Widget) = {}

VARIABLES
  modalActorFocusStack,
  modalCount,
  actionMode,
  key_focus,    \* the key focus of the stage
  has_modal,    \* ShellGlobal.has_modal
  alive         \* the actors that have not been destroyed

vars == <<modalActorFocusStack, modalCount, actionMode, key_focus, has_modal, alive>>

Focus == Actor \cup Widget \cup {Null}
Stacked(s) == {s[i].actor : i \in DOMAIN s}
_findModal(s, a) == CHOOSE i \in DOMAIN s : s[i].actor = a

-----------------------------------------------------------------------------
Init ==
  /\ modalActorFocusStack = <<>>
  /\ modalCount = 0
  /\ actionMode = NORMAL
  /\ key_focus \in Widget \cup {Null}
  /\ has_modal = FALSE
  /\ alive = Actor \cup Widget

(* The key focus moves to a widget, by a click or by the code.             *)
MoveFocus(f) ==
  /\ f \in (Widget \cap alive) \cup {Null}
  /\ key_focus' = f
  /\ UNCHANGED <<modalActorFocusStack, modalCount, actionMode, has_modal, alive>>

-----------------------------------------------------------------------------
(* Mutant of WithoutRecord: the records above it keep what they found.     *)
RecordRemoved(s, k) == RemoveAt(s, k)

(* The stack s without its record k: what the records above it found is    *)
(* shifted up, with the handlers, from the record below each.              *)
WithoutRecord(s, k) ==
  RemoveAt([i \in DOMAIN s |->
    IF i <= k THEN s[i]
    ELSE [s[i] EXCEPT !.prevFocus = s[i-1].prevFocus,
                      !.watch = s[i-1].watch,
                      !.actionMode = s[i-1].actionMode]], k)

StackWithout(a) == WithoutRecord(modalActorFocusStack, _findModal(modalActorFocusStack, a))

(* Mutant of pushModal: an actor that is on the stack is raised.           *)
PushRaises(a) ==
  LET s == modalActorFocusStack
      stacked == a \in Stacked(s)
  IN  /\ a \in alive
      /\ has_modal' = TRUE
      /\ modalCount' = IF stacked THEN modalCount ELSE modalCount + 1
      /\ modalActorFocusStack' = Append(IF stacked THEN StackWithout(a) ELSE s,
           [actor |-> a, prevFocus |-> key_focus, watch |-> a, actionMode |->
             IF stacked /\ Len(s) = 1 THEN NORMAL ELSE actionMode])
      /\ actionMode' = a
      /\ key_focus' = a
      /\ UNCHANGED alive

(* pushModal: the first one begins the modal of the plugin, and does       *)
(* nothing if that is refused.                                             *)
pushModal(a) ==
  /\ a \in alive \ Stacked(modalActorFocusStack)
  /\ has_modal' = TRUE
  /\ modalCount' = modalCount + 1
  /\ modalActorFocusStack' = Append(modalActorFocusStack,
       [actor |-> a, prevFocus |-> key_focus, watch |-> a, actionMode |-> actionMode])
  /\ actionMode' = a
  /\ key_focus' = a
  /\ UNCHANGED alive

(* Whether the plugin keeps the modal with n actors left.                  *)
Ended(n) == n > 0

(* With the modal of the plugin, the stage loses its key focus too unless  *)
(* its window has the focus.                                               *)
Unfocused(n) == IF Ended(n) THEN {} ELSE {Null}

(* popModal(a), when a is on the stack: the mode and the focus change only *)
(* if a is on top.  The focus is f before, and left is what is left of the *)
(* stack.                                                                  *)
Pop(a, f, left) ==
  LET s == modalActorFocusStack
      k == _findModal(s, a)
  IN  /\ modalCount' = modalCount - 1
      /\ modalActorFocusStack' = left
      /\ has_modal' = Ended(modalCount - 1)
      /\ actionMode' = IF modalCount = 1 THEN NORMAL
                       ELSE IF k = Len(s) THEN s[k].actionMode ELSE actionMode
      /\ key_focus' \in {IF k = Len(s) THEN s[k].prevFocus ELSE f} \cup Unfocused(modalCount - 1)

popModal(a) ==
  /\ a \in Stacked(modalActorFocusStack)
  /\ Pop(a, key_focus, StackWithout(a))
  /\ UNCHANGED alive

(* The handlers that watch x run: each clears the prevFocus of the record  *)
(* of the actor it remembers, if that is on the stack still.               *)
Cleared(s, x) ==
  [i \in DOMAIN s |->
     IF \E j \in DOMAIN s : s[j].prevFocus = x /\ s[j].watch = s[i].actor
     THEN [s[i] EXCEPT !.prevFocus = Null] ELSE s[i]]

(* An actor is destroyed: the stage takes the key focus from it, and it is *)
(* popped if it is modal.                                                  *)
Destroy(x) ==
  LET f == IF key_focus = x THEN Null ELSE key_focus
  IN  /\ x \in alive
      /\ alive' = alive \ {x}
      /\ IF x \in Stacked(modalActorFocusStack)
         THEN Pop(x, f, Cleared(StackWithout(x), x))
         ELSE /\ modalActorFocusStack' = Cleared(modalActorFocusStack, x)
              /\ key_focus' = f
              /\ UNCHANGED <<modalCount, actionMode, has_modal>>

Next ==
  \/ \E a \in Actor : pushModal(a) \/ popModal(a)
  \/ \E x \in Actor \cup Widget : Destroy(x)
  \/ \E f \in Widget \cup {Null} : MoveFocus(f)

Spec == Init /\ [][Next]_vars

-----------------------------------------------------------------------------
Record == [actor : Actor, prevFocus : Focus, watch : Actor, actionMode : Actor \cup {NORMAL}]

TypeOK ==
  /\ modalActorFocusStack \in Seq(Record)
  /\ modalCount \in Nat
  /\ actionMode \in Actor \cup {NORMAL}
  /\ key_focus \in Focus
  /\ has_modal \in BOOLEAN
  /\ alive \in SUBSET (Actor \cup Widget)

(* The counter, the stack, the modal of the plugin and the action mode     *)
(* agree: the shell has all input exactly as long as one actor wants it,   *)
(* no actor is on the stack twice or after its end, and the keybindings    *)
(* work normally exactly when there is none.                               *)
Consistent ==
  LET s == modalActorFocusStack
  IN  /\ modalCount = Len(s)
      /\ has_modal <=> s # <<>>
      /\ s = <<>> <=> actionMode = NORMAL
      /\ \A i, j \in DOMAIN s : s[i].actor = s[j].actor => i = j
      /\ Stacked(s) \subseteq alive

(* Whatever the order of the pops, the mode that is given back when the    *)
(* last modal actor goes is the normal one.                                *)
BottomIsNormal ==
  LET s == modalActorFocusStack
  IN  s # <<>> => s[1].actionMode = NORMAL /\ \A i \in 2..Len(s) : s[i].actionMode # NORMAL

(* The stack, the counter, the mode and the modal agree, down to the last  *)
(* pop.                                                                    *)
StackSound == TypeOK /\ Consistent /\ BottomIsNormal

(* The keybindings that work are those of the actor on top of the stack.   *)
(* popModal, a comment in it says, shifts the records above the one that   *)
(* goes to get the correct result (main.js:485-488).                       *)
ModeIsThatOfTop ==
  LET s == modalActorFocusStack
  IN  s # <<>> => actionMode = s[Len(s)].actor

(* The service its users rely on: what pushModal and popModal do to the    *)
(* actors, whatever the destroy handlers do as well.                       *)
Service == INSTANCE ModalService WITH
  stack <- [i \in DOMAIN modalActorFocusStack |-> modalActorFocusStack[i].actor]

(* ModalStack implements the service: in particular an actor that leaves   *)
(* from the middle takes its own record along, not that of another.        *)
ImplementsService == Service!Spec

(* The key focus is never given to an actor that is destroyed: pushModal   *)
(* connects a handler to every focus it records for that.                  *)
FocusIsAlive == key_focus \in alive \cup {Null}

=============================================================================
