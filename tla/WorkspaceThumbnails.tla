------------------------- MODULE WorkspaceThumbnails -------------------------
(***************************************************************************)
(* The thumbnails of the workspaces at the side of the overview            *)
(* (js/ui/workspaceThumbnail.js, ThumbnailsBox): they slide out, collapse  *)
(* and slide in as workspaces come and go, one kind of animation waiting   *)
(* for another, are dropped on, and are destroyed and made anew with the   *)
(* overview and the monitors.                                              *)
(*                                                                         *)
(* A tween ends when it likes; one of the same property replaces it.  The  *)
(* tweens of thumbnails that are destroyed still run, and end in stray.    *)
(* The scale is the number of workspaces it was computed for.              *)
(*                                                                         *)
(* Abstracted: where things are drawn; the clones of the windows.          *)
(***************************************************************************)
EXTENDS Integers, FiniteSets, Sequences, SequencesExt

CONSTANTS
  MaxWorkspaces,  \* bound on the workspaces of the screen
  MaxMade         \* bound on the workspaces that are made

ThumbnailsAssumption == MaxWorkspaces \in Nat \ {0, 1} /\ MaxMade \in Nat

VARIABLES
  screen,         \* the workspaces of the screen, numbered as they are made
  active,         \* the active one
  made,           \* how many were made
  box,            \* the fields of the ThumbnailsBox, see Boxes
  shown,          \* between 'showing' and 'hidden' of the overview
  stray,          \* tweens of thumbnails that were destroyed
  drop,           \* the drag: where it would drop, see Drops
  hasty           \* an animation outlived the thumbnails it was begun for

vars == <<screen, active, made, box, shown, stray, drop, hasty>>

State == {"NEW", "ANIMATING_IN", "NORMAL", "REMOVING", "ANIMATING_OUT", "ANIMATED_OUT",
          "COLLAPSING"}
Valid == {"NEW", "ANIMATING_IN", "NORMAL"}

Thumbnails == [ws : 1..MaxMade, state : State, tween : {"none", "in", "out", "collapse"}]

(* animating and moving: _animatingIndicator, and the tween that clears it.*)
(* laters: the calls of _updateStates that are on their way.  rescale: the *)
(* scale that a tween is bringing, 0 without.                              *)
Boxes ==
  [list : Seq(Thumbnails), counts : [State -> Int], queued : BOOLEAN, laters : 0..2,
   animating : BOOLEAN, moving : BOOLEAN, scale : 0..MaxWorkspaces, target : 0..MaxWorkspaces,
   pending : BOOLEAN, rescale : 0..MaxWorkspaces, splice : -1..MaxWorkspaces]

(* monitor: the drag monitor is there.  The position is that of the        *)
(* placeholder, -1 without.                                                *)
Drops == [monitor : BOOLEAN, workspace : BOOLEAN, placeholder : Int]

-----------------------------------------------------------------------------
NoCounts == [s \in State |-> 0]

_queueUpdateStates(b) ==
  IF b.queued THEN b ELSE [b EXCEPT !.queued = TRUE, !.laters = @ + 1]

Counted(b, from, to) ==
  [b EXCEPT !.counts = [s \in State |-> @[s] + (IF s = to THEN 1 ELSE 0) - (IF s = from THEN 1 ELSE 0)]]

_setThumbnailState(b, i, state) == [Counted(b, b.list[i].state, state) EXCEPT !.list[i].state = state]

addThumbnails(b, on, start) ==
  LET state == IF start > 0 /\ b.splice = -1 THEN "NEW" ELSE "NORMAL"
      new == [k \in 1..(Len(on) - start) |-> [ws |-> on[start + k], state |-> state, tween |-> "none"]]
  IN  _queueUpdateStates([b EXCEPT !.list = @ \o new, !.splice = -1, !.counts[state] = @ + Len(new)])

ValidIn(b) == SelectSeq(b.list, LAMBDA t : t.state \in Valid)

removeThumbnails(b, start, count) ==
  LET at(i) == Len(SelectSeq(SubSeq(b.list, 1, i - 1), LAMBDA t : t.state \in Valid))
      going(i) == b.list[i].state \in Valid /\ start <= at(i) /\ at(i) < start + count
  IN  _queueUpdateStates(FoldLeft(LAMBDA c, i : _setThumbnailState(c, i, "REMOVING"), b,
                                  SelectSeq([i \in DOMAIN b.list |-> i], going)))

(* The index is looked for in the list of all thumbnails, among as many as *)
(* are valid; when none differs it is undefined, and nothing is removed.   *)
_workspacesChanged(b, on) ==
  LET old == Len(ValidIn(b))
      differ == {k \in 1..old : k > Len(on) \/ b.list[k].ws # on[k]}
  IN  IF Len(on) > old THEN addThumbnails(b, on, old)
      ELSE IF differ = {} THEN _queueUpdateStates(b)
      ELSE removeThumbnails(b, (CHOOSE k \in differ : \A l \in differ : k <= l) - 1, old - Len(on))

(* It throws when the active workspace has no thumbnail.                   *)
_activeWorkspaceChanged(b, ws) ==
  [b EXCEPT !.animating = TRUE, !.moving = @ \/ \E i \in DOMAIN b.list : b.list[i].ws = ws]

_createThumbnails(b, on) ==
  addThumbnails([b EXCEPT !.scale = 0, !.target = 0, !.pending = FALSE, !.queued = FALSE,
                          !.counts = NoCounts], on, 0)

TweensOf(b) == {b.list[i].tween : i \in DOMAIN b.list} \ {"none"}

-----------------------------------------------------------------------------
(* _updateStates: what waits for what.                                     *)
Each(b, state, next, tween) ==
  FoldLeft(LAMBDA c, i : IF c.list[i].state # state \/ b.counts[state] = 0 THEN c
                         ELSE [_setThumbnailState(c, i, next) EXCEPT !.list[i].tween = tween],
           b, [i \in DOMAIN b.list |-> i])

Rescaled(b) == IF b.pending THEN [b EXCEPT !.pending = FALSE, !.rescale = b.target] ELSE b

Updated(b) ==
  LET out == Each(b, "REMOVING", "ANIMATING_OUT", "out")
      collapsing == Rescaled(Each(out, "ANIMATED_OUT", "COLLAPSING", "collapse"))
  IN  IF b.animating THEN b
      ELSE IF out.counts["ANIMATING_OUT"] > 0 THEN out
      ELSE IF collapsing.scale # collapsing.target \/ collapsing.counts["COLLAPSING"] > 0 THEN collapsing
      ELSE Each(collapsing, "NEW", "ANIMATING_IN", "in")

_updateStates ==
  /\ box.laters > 0
  /\ box' = Updated([box EXCEPT !.queued = FALSE, !.laters = @ - 1])
  /\ UNCHANGED <<screen, active, made, shown, stray, drop, hasty>>

(* The ends of the tweens.                                                 *)
SlidIn(b, i) == _setThumbnailState(b, i, "NORMAL")
SlidOut(b, i) == _queueUpdateStates(_setThumbnailState(b, i, "ANIMATED_OUT"))
Collapsed(b, i) ==
  _queueUpdateStates([b EXCEPT !.counts[b.list[i].state] = @ - 1, !.list = RemoveAt(@, i)])

TweenEnds(i) ==
  LET b == [box EXCEPT !.list[i].tween = "none"]
  IN  /\ box' = CASE box.list[i].tween = "in"       -> SlidIn(b, i)
                  [] box.list[i].tween = "out"      -> SlidOut(b, i)
                  [] box.list[i].tween = "collapse" -> Collapsed(b, i)
      /\ UNCHANGED <<screen, active, made, shown, stray, drop, hasty>>

(* Those of a thumbnail that is in the list no more: indexOf is -1, and    *)
(* splice then takes the last one, whatever it is.                         *)
StrayEnds(t) ==
  /\ stray' = stray \ {t}
  /\ box' = CASE t.tween = "in"  -> Counted(box, t.state, "NORMAL")
              [] t.tween = "out" -> _queueUpdateStates(Counted(box, t.state, "ANIMATED_OUT"))
              [] t.tween = "collapse" ->
                   _queueUpdateStates([box EXCEPT !.counts[t.state] = @ - 1,
                                                  !.list = IF @ = <<>> THEN @ ELSE Front(@)])
  /\ UNCHANGED <<screen, active, made, shown, drop, hasty>>

IndicatorEnds ==
  /\ box.moving
  /\ box' = _queueUpdateStates([box EXCEPT !.moving = FALSE, !.animating = FALSE])
  /\ UNCHANGED <<screen, active, made, shown, stray, drop, hasty>>

RescaleEnds ==
  /\ box.rescale # 0
  /\ box' = _queueUpdateStates([box EXCEPT !.scale = box.rescale, !.rescale = 0])
  /\ UNCHANGED <<screen, active, made, shown, stray, drop, hasty>>

(* _allocate, before the next frame.                                       *)
_allocate ==
  /\ box.list # <<>> /\ box.target # Len(screen)
  /\ box' = _queueUpdateStates(IF box.target > 0 THEN [box EXCEPT !.target = Len(screen), !.pending = TRUE]
                               ELSE [box EXCEPT !.target = Len(screen), !.scale = Len(screen)])
  /\ UNCHANGED <<screen, active, made, shown, stray, drop, hasty>>

-----------------------------------------------------------------------------
(* The overview and the monitors.                                          *)
Destroyed(b) == [b EXCEPT !.list = <<>>]
Strays == stray \cup {[state |-> box.list[i].state, tween |-> box.list[i].tween] :
                        i \in {j \in DOMAIN box.list : box.list[j].tween # "none"}}
Hasty == Strays # {} \/ box.rescale # 0

Showing ==
  /\ ~shown /\ shown' = TRUE
  /\ box.laters < 2
  /\ box' = _createThumbnails(box, screen)
  /\ hasty' = (hasty \/ box.rescale # 0)
  /\ UNCHANGED <<screen, active, made, stray, drop>>

Hidden ==
  /\ shown /\ shown' = FALSE
  /\ ~drop.monitor
  /\ box' = Destroyed(box)
  /\ stray' = Strays /\ hasty' = (hasty \/ Hasty)
  /\ UNCHANGED <<screen, active, made, drop>>

MonitorsChanged ==
  /\ shown
  /\ box.laters < 2 /\ stray = {}
  /\ box' = _createThumbnails(Destroyed(box), screen)
  /\ stray' = Strays /\ hasty' = (hasty \/ Hasty)
  /\ UNCHANGED <<screen, active, made, shown, drop>>

-----------------------------------------------------------------------------
(* The workspaces.                                                         *)
Heard(b, f(_)) == IF shown THEN f(b) ELSE b

AppendWorkspace ==
  /\ Len(screen) < MaxWorkspaces /\ made < MaxMade
  /\ made' = made + 1 /\ screen' = Append(screen, made')
  /\ box' = Heard(box, LAMBDA b : _workspacesChanged(b, screen'))
  /\ UNCHANGED <<active, shown, stray, drop, hasty>>

SwitchWorkspace(ws) ==
  /\ ws # active /\ active' = ws
  /\ box' = Heard(box, LAMBDA b : _activeWorkspaceChanged(b, ws))
  /\ UNCHANGED <<screen, made, shown, stray, drop, hasty>>

(* The active one first gives way to its neighbour.                        *)
RemoveWorkspace(i) ==
  LET next == IF i = 1 THEN screen[2] ELSE screen[i - 1]
      left == IF screen[i] = active THEN Heard(box, LAMBDA b : _activeWorkspaceChanged(b, next)) ELSE box
  IN  /\ Len(screen) > 1
      /\ screen' = RemoveAt(screen, i)
      /\ active' = IF screen[i] = active THEN next ELSE active
      /\ box' = Heard(left, LAMBDA b : _workspacesChanged(b, screen'))
      /\ UNCHANGED <<made, shown, stray, drop, hasty>>

-----------------------------------------------------------------------------
(* Drags of windows and applications over the box.                         *)
_onDragBegin ==
  /\ shown /\ ~drop.monitor /\ made < MaxMade
  /\ drop' = [drop EXCEPT !.monitor = TRUE]
  /\ UNCHANGED <<screen, active, made, box, shown, stray, hasty>>

(* handleDragOver: on a thumbnail, or between two.                         *)
handleDragOver(workspace, placeholder) ==
  /\ drop.monitor /\ made < MaxMade
  /\ drop' = [drop EXCEPT !.workspace = workspace, !.placeholder = placeholder]
  /\ UNCHANGED <<screen, active, made, box, shown, stray, hasty>>

_onLeave ==
  /\ drop.monitor /\ drop.placeholder # -1
  /\ drop' = [drop EXCEPT !.placeholder = -1]
  /\ UNCHANGED <<screen, active, made, box, shown, stray, hasty>>

_endDrag ==
  /\ drop.monitor
  /\ drop' = [drop EXCEPT !.monitor = FALSE, !.placeholder = -1]
  /\ UNCHANGED <<screen, active, made, box, shown, stray, hasty>>

(* insertWorkspace: one is appended, and the windows move up by one; so    *)
(* does the active workspace.                                              *)
Inserted(b, pos) ==
  LET at == CHOOSE i \in DOMAIN screen : screen[i] = active
      more == _workspacesChanged([b EXCEPT !.splice = pos], screen')
  IN  IF at - 1 >= pos THEN _activeWorkspaceChanged(more, screen'[at + 1]) ELSE more

(* Mutant of Anew: the thumbnail is not counted in its new state.          *)
AnewUncounted(b, i) == [b EXCEPT !.list[i].state = "NEW"]

Anew(b, i) == _setThumbnailState(b, i, "NEW")

(* acceptDrop between two thumbnails; the drag ends with it.               *)
acceptDrop ==
  /\ drop.monitor /\ ~drop.workspace /\ drop.placeholder # -1
  /\ Len(screen) < MaxWorkspaces /\ made < MaxMade
  /\ made' = made + 1 /\ screen' = Append(screen, made')
  /\ active' = LET at == CHOOSE i \in DOMAIN screen : screen[i] = active
               IN  IF at - 1 >= drop.placeholder THEN screen'[at + 1] ELSE active
  /\ LET b == Inserted(box, drop.placeholder)
     IN  box' = IF drop.placeholder >= Len(b.list) THEN b
                ELSE _queueUpdateStates(Anew(b, drop.placeholder + 1))
  /\ drop' = [drop EXCEPT !.placeholder = -1, !.monitor = FALSE]
  /\ UNCHANGED <<shown, stray, hasty>>

-----------------------------------------------------------------------------
Init ==
  /\ screen = <<1, 2>> /\ active = 1 /\ made = 2
  /\ box = [list |-> <<>>, counts |-> NoCounts, queued |-> FALSE, laters |-> 0, animating |-> FALSE,
            moving |-> FALSE, scale |-> 0, target |-> 0, pending |-> FALSE, rescale |-> 0, splice |-> -1]
  /\ shown = FALSE /\ stray = {} /\ hasty = FALSE
  /\ drop = [monitor |-> FALSE, workspace |-> FALSE, placeholder |-> -1]

Next ==
  \/ _updateStates \/ IndicatorEnds \/ RescaleEnds \/ _allocate
  \/ \E i \in DOMAIN box.list : box.list[i].tween # "none" /\ TweenEnds(i)
  \/ \E t \in stray : StrayEnds(t)
  \/ Showing \/ Hidden \/ MonitorsChanged
  \/ AppendWorkspace
  \/ \E ws \in ToSet(screen) : SwitchWorkspace(ws)
  \/ \E i \in DOMAIN screen : RemoveWorkspace(i)
  \/ _onDragBegin \/ _onLeave \/ _endDrag \/ acceptDrop
  \/ handleDragOver(TRUE, -1)
  \/ \E k \in {-1, 0, Len(box.list) - 1} : handleDragOver(FALSE, k)

Spec == Init /\ [][Next]_vars

-----------------------------------------------------------------------------
TypeOK ==
  /\ screen \in Seq(1..MaxMade) /\ Len(screen) \in 1..MaxWorkspaces
  /\ active \in ToSet(screen)
  /\ box \in Boxes /\ drop \in Drops
  /\ stray \subseteq [state : State, tween : {"in", "out", "collapse"}]

(* Unless an animation outlived its thumbnails, _stateCounts, by which the *)
(* updates decide what they wait for, counts the thumbnails.               *)
CountsMatch ==
  shown /\ ~hasty =>
    \A s \in State : box.counts[s] = Cardinality({i \in DOMAIN box.list : box.list[i].state = s})

(* Nothing is left half way: while some thumbnail has yet to slide, an     *)
(* update or an animation that asks for one is on its way.  The indicator  *)
(* that waits for a workspace that has no thumbnail is set apart: it       *)
(* throws, and nothing moves again.                                        *)
SomeoneUpdates ==
  shown /\ ~hasty /\ ~(box.animating /\ ~box.moving) =>
    \/ \A i \in DOMAIN box.list : box.list[i].state = "NORMAL"
    \/ box.laters > 0 \/ box.moving \/ box.rescale # 0 \/ box.target # Len(screen)
    \/ TweensOf(box) # {}

(* The thumbnails of the overview settle, however workspaces, drags and    *)
(* animations follow on each other.                                        *)
ThumbnailsSound == TypeOK /\ CountsMatch /\ SomeoneUpdates

(* Not so, and checked by no run: the thumbnails that stay are those of    *)
(* the screen.  A workspace that goes while the thumbnail of another still *)
(* slides out takes the wrong one along.                                   *)
ValidAreTheScreens == shown => [i \in DOMAIN ValidIn(box) |-> ValidIn(box)[i].ws] = screen

=============================================================================
