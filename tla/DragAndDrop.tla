----------------------------- MODULE DragAndDrop -----------------------------
(***************************************************************************)
(* Drags of items and windows (js/ui/dnd.js): a press that moves starts a  *)
(* drag; while it lasts, the events go to an actor that takes the modal    *)
(* and hands them to the draggable that is current; it ends with a drop,   *)
(* Escape, or the end of the actor it is about, and an animation may       *)
(* follow.                                                                 *)
(*                                                                         *)
(* A draggable is one of three kinds, as the shell makes them: "icon"      *)
(* (AppIcon: what is dragged is a clone), "thumbnail" (the actor itself,   *)
(* put back after a drop) and "window" (the same, started by its owner     *)
(* when the pointer has moved).                                            *)
(***************************************************************************)
EXTENDS Naturals, FiniteSets

CONSTANTS Draggable,
          KindOf,     \* draggable -> "icon", "thumbnail" or "window"
          NoDraggable

ConstantsAssumption ==
  /\ KindOf \in [Draggable -> {"icon", "thumbnail", "window"}]
  /\ NoDraggable \notin Draggable

VARIABLES
  pressed,           \* the button is down, pressed on this draggable
  currentDraggable,
  _onEventId,        \* draggables whose own actor has the events
  _eventsGrabbed,    \* draggables that took the modal
  _buttonDown, _dragInProgress, _animationInProgress, _dragCancellable,
  _actorDestroyed,
  _dragActor,        \* draggable -> "none", "there", or "gone" once it is destroyed
  _updateHoverId,    \* draggables that will look what is under the pointer
  heard,             \* draggables whose 'drag-begin' is heard and 'drag-end' is not
  refused,           \* some drag started without the modal
  thrown             \* an event went where nothing could take it

vars == <<pressed, currentDraggable, _onEventId, _eventsGrabbed, _buttonDown, _dragInProgress,
          _animationInProgress, _dragCancellable, _actorDestroyed, _dragActor, _updateHoverId,
          heard, refused, thrown>>

-----------------------------------------------------------------------------
World == [current |-> currentDraggable, onEvent |-> _onEventId, grabbed |-> _eventsGrabbed,
          button |-> _buttonDown, progress |-> _dragInProgress,
          animation |-> _animationInProgress, cancellable |-> _dragCancellable,
          destroyed |-> _actorDestroyed, actor |-> _dragActor, hover |-> _updateHoverId,
          heard |-> heard]

Becomes(w) ==
  /\ currentDraggable' = w.current /\ _onEventId' = w.onEvent /\ _eventsGrabbed' = w.grabbed
  /\ _buttonDown' = w.button /\ _dragInProgress' = w.progress
  /\ _animationInProgress' = w.animation /\ _dragCancellable' = w.cancellable
  /\ _actorDestroyed' = w.destroyed /\ _dragActor' = w.actor /\ _updateHoverId' = w.hover
  /\ heard' = w.heard

IsClone(d) == KindOf[d] = "icon"

Begins(w, d) == [w EXCEPT !.heard = @ \cup {d}]
Ends(w, d) == [w EXCEPT !.heard = @ \ {d}]

_ungrabActor(w, d) == [w EXCEPT !.onEvent = @ \ {d}]

(* Nothing of the drag is left; no draggable is current.                   *)
_dragComplete(w, d) ==
  [w EXCEPT !.grabbed = @ \ {d}, !.hover = @ \ {d}, !.actor[d] = "none",
            !.current = NoDraggable]

_finishAnimation(w, d) ==
  LET over == [w EXCEPT !.animation = @ \ {d}]
  IN  IF d \notin w.animation THEN w
      ELSE IF d \in w.button THEN over ELSE _dragComplete(over, d)

_animateDragEnd(w, d) == [w EXCEPT !.animation = @ \cup {d}]

(* The item goes back with an animation, or at once if its actor is gone.  *)
_cancelDrag(w, d) ==
  LET over == [w EXCEPT !.progress = @ \ {d}]
      completed == IF d \in w.button THEN over ELSE _dragComplete(over, d)
      ended == Ends(completed, d)
  IN  IF d \notin w.destroyed THEN _animateDragEnd(over, d)
      ELSE IF IsClone(d) /\ ended.actor[d] = "there" THEN [ended EXCEPT !.actor[d] = "gone"]
      ELSE ended

(* The modal may be refused; the drag starts all the same.                 *)
startDrag(w, d, granted) ==
  [_ungrabActor(Begins(w, d), d) EXCEPT !.current = d, !.progress = @ \cup {d},
     !.grabbed = IF granted THEN @ \cup {d} ELSE @, !.actor[d] = "there"]

(* The draggable that gets the events of the pointer: through the actor    *)
(* that has the modal, or through its own.                                 *)
Receives(d) == IF _eventsGrabbed # {} THEN currentDraggable = d ELSE d \in _onEventId

-----------------------------------------------------------------------------
Init ==
  /\ pressed = NoDraggable /\ currentDraggable = NoDraggable /\ refused = FALSE /\ thrown = FALSE
  /\ _onEventId = {} /\ _eventsGrabbed = {} /\ _buttonDown = {} /\ _dragInProgress = {}
  /\ _animationInProgress = {} /\ _dragCancellable = Draggable /\ _actorDestroyed = {}
  /\ _dragActor = [d \in Draggable |-> "none"] /\ _updateHoverId = {} /\ heard = {}

(* _onButtonPress, _onTouchEvent: an actor that moves is not taken.        *)
Press(d) ==
  /\ pressed = NoDraggable /\ _eventsGrabbed = {} /\ _onEventId = {}
  /\ d \notin _actorDestroyed /\ (IsClone(d) \/ d \notin _animationInProgress)
  /\ pressed' = d
  /\ Becomes(IF KindOf[d] = "window" THEN World
             ELSE [World EXCEPT !.button = @ \cup {d}, !.onEvent = @ \cup {d}])
  /\ UNCHANGED <<refused, thrown>>

(* A motion starts the drag, or moves it.                                  *)
Motion(d, granted) ==
  /\ Receives(d) /\ pressed # NoDraggable
  /\ \/ /\ d \in _dragInProgress /\ _dragActor[d] = "there"
        /\ Becomes([World EXCEPT !.hover = @ \cup {d}]) /\ UNCHANGED refused
     \/ /\ d \notin _dragInProgress /\ _dragActor[d] = "none"
        /\ Becomes([startDrag(World, d, granted) EXCEPT !.hover = @ \cup {d}])
        /\ refused' = (refused \/ ~granted)
  /\ UNCHANGED <<pressed, thrown>>

(* WindowClone._onLongPress: its owner starts the drag.                    *)
OwnerStarts(d, granted) ==
  /\ KindOf[d] = "window" /\ pressed = d /\ d \notin _actorDestroyed
  /\ _dragActor[d] = "none" /\ d \notin _dragInProgress
  /\ Becomes(startDrag(World, d, granted))
  /\ refused' = (refused \/ ~granted)
  /\ UNCHANGED <<pressed, thrown>>

(* acceptDrop: the target takes what is dragged, or leaves it, and may end *)
(* the actor that the drag is about.                                       *)
Accepted(w, d, taken, destroys) ==
  LET w1 == IF destroys THEN [w EXCEPT !.destroyed = @ \cup {d}, !.heard = @ \ {d}] ELSE w
  IN  IF ~taken /\ ~IsClone(d) /\ ~destroys
      THEN _animateDragEnd([w1 EXCEPT !.progress = @ \ {d}], d)
      ELSE _dragComplete(Ends([w1 EXCEPT !.progress = @ \ {d}], d), d)

(* _dragActorDropped: with no actor to look from, it fails.                *)
Dropped(w, d, accepted, taken, destroys) ==
  LET late == [w EXCEPT !.cancellable = @ \ {d}]
  IN  IF accepted THEN Accepted(late, d, taken, destroys) ELSE _cancelDrag(late, d)

Release(d, accepted, taken, destroys) ==
  LET w == [World EXCEPT !.button = @ \ {d}]
  IN  /\ Receives(d) /\ pressed # NoDraggable
      /\ pressed' = NoDraggable /\ UNCHANGED refused
      /\ \/ d \in _dragInProgress /\ _dragActor[d] = "there"
              /\ Becomes(Dropped(w, d, accepted, taken, destroys)) /\ UNCHANGED thrown
         \/ d \in _dragInProgress /\ _dragActor[d] = "gone"
              /\ Becomes(w) /\ thrown' = TRUE
         \/ /\ d \notin _dragInProgress
            /\ Becomes(IF _dragActor[d] # "none" /\ d \notin _animationInProgress
                       THEN _dragComplete(w, d) ELSE _ungrabActor(w, d))
            /\ UNCHANGED thrown

(* The button is released where no draggable gets it, or where none is     *)
(* current to take it.                                                     *)
ReleaseElsewhere ==
  /\ pressed # NoDraggable /\ \A d \in Draggable : ~Receives(d)
  /\ pressed' = NoDraggable
  /\ thrown' = (thrown \/ _eventsGrabbed # {})
  /\ Becomes(World) /\ UNCHANGED refused

Escape(d) ==
  /\ Receives(d) /\ d \in _dragInProgress /\ _dragActor[d] = "there"
  /\ Becomes(_cancelDrag(World, d))
  /\ UNCHANGED <<pressed, refused, thrown>>

(* AppIcon.popupMenu, when the press is long.                              *)
fakeRelease(d) ==
  /\ IsClone(d) /\ d \in _onEventId
  /\ Becomes(_ungrabActor([World EXCEPT !.button = @ \ {d}], d))
  /\ UNCHANGED <<pressed, refused, thrown>>

(* What is under the pointer is asked, if the actor is there to be hidden. *)
_updateDragHover(d) ==
  /\ d \in _updateHoverId
  /\ Becomes([World EXCEPT !.hover = @ \ {d}])
  /\ thrown' = (thrown \/ _dragActor[d] = "gone")
  /\ UNCHANGED <<pressed, refused>>

(* _onAnimationComplete                                                    *)
AnimationEnds(d) ==
  /\ d \in _animationInProgress
  /\ Becomes(_finishAnimation(Ends(World, d), d))
  /\ UNCHANGED <<pressed, refused, thrown>>

(* The actor of the draggable is destroyed; listeners of a clone hear no   *)
(* more, those of a window end the drag themselves.                        *)
Destroy(d) ==
  LET gone == [World EXCEPT !.destroyed = @ \cup {d}, !.onEvent = @ \ {d}]
      actor == [gone EXCEPT !.actor[d] = IF ~IsClone(d) /\ @ = "there" THEN "gone" ELSE @]
      cancelled == IF d \in _dragInProgress /\ d \in _dragCancellable
                   THEN _cancelDrag(actor, d) ELSE actor
      quiet == IF IsClone(d) THEN cancelled ELSE Ends(cancelled, d)
  IN  /\ d \notin _actorDestroyed
      /\ Becomes(IF IsClone(d) THEN quiet ELSE _finishAnimation(quiet, d))
      /\ UNCHANGED <<pressed, refused, thrown>>

Next ==
  \/ \E d \in Draggable :
       \/ Press(d) \/ Escape(d) \/ fakeRelease(d) \/ _updateDragHover(d)
       \/ AnimationEnds(d) \/ Destroy(d)
       \/ \E granted \in BOOLEAN : Motion(d, granted) \/ OwnerStarts(d, granted)
       \/ \E accepted, taken, destroys \in BOOLEAN : Release(d, accepted, taken, destroys)
  \/ ReleaseElsewhere

Spec == Init /\ [][Next]_vars

-----------------------------------------------------------------------------
TypeOK ==
  /\ {pressed, currentDraggable} \subseteq Draggable \cup {NoDraggable}
  /\ \A s \in {_onEventId, _eventsGrabbed, _buttonDown, _dragInProgress, _animationInProgress,
               _dragCancellable, _actorDestroyed, _updateHoverId, heard} : s \subseteq Draggable
  /\ _dragActor \in [Draggable -> {"none", "there", "gone"}] 
  /\ {refused, thrown} \subseteq BOOLEAN
  /\ \A d \in _dragInProgress : _dragActor[d] # "none"

(* Once the button is up and nothing moves, nobody has the modal: a drag   *)
(* takes all input, and must end with it.  Not so once a modal was         *)
(* refused: that drag stays in progress without events, and when its actor *)
(* goes it takes currentDraggable from the drag that has the modal.  Nor   *)
(* for a draggable that was dropped before: _dragCancellable is never set  *)
(* again, and when its actor goes in a later drag nothing ends it.         *)
ModalIsReturned ==
  \A d \in _eventsGrabbed :
    \/ pressed # NoDraggable \/ d \in _animationInProgress \/ refused
    \/ d \in _actorDestroyed /\ d \notin _dragCancellable

(* The draggable that took the modal is the one that gets the events, with *)
(* the same exception.                                                     *)
EventsHaveTaker == refused \/ \A d \in _eventsGrabbed : currentDraggable = d

(* What was told to begin is told to end, once its drag is over.           *)
BeginIsEnded ==
  \A d \in heard : d \in _dragInProgress \cup _animationInProgress

(* A drag that Escape cancelled keeps the events until the button is       *)
(* released, that what is under the pointer does not get it.               *)
EscapeHoldsRelease ==
  [][\A d \in Draggable :
       d \in _buttonDown /\ d \in _buttonDown' => (d \in _eventsGrabbed => d \in _eventsGrabbed')]_vars

(* Every event of a drag reaches it, and what it took it gives back.       *)
DragSound == TypeOK /\ EventsHaveTaker /\ ModalIsReturned /\ BeginIsEnded

=============================================================================
