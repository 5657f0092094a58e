------------------------------- MODULE Overview -------------------------------
(***************************************************************************)
(* The overview of the shell (js/ui/overview.js): what show, hide and      *)
(* toggle ask for, the animations that follow later, and the modal it      *)
(* takes from the service of js/ui/main.js, which other parts of the shell *)
(* (menus, dialogs, the shield) use as well.                               *)
(*                                                                         *)
(* show and hide may come while an animation runs; they then only leave a  *)
(* wish, and the end of the animation must do the rest.                    *)
(*                                                                         *)
(* Abstracted: handlers of the signals of the overview do not call it back;*)
(* the others on the modal stack come and go as they like.                 *)
(***************************************************************************)
EXTENDS SequenceLemmas

CONSTANTS
  overview,        \* Overview._overview, the actor that is pushed
  Other,           \* other modal actors of the shell
  RefuseCtrlClick  \* whether the modal may be refused to a show that comes
                   \* from a click with Ctrl

ASSUME ConstantsAssumption ==
  /\ overview \notin Other
  /\ RefuseCtrlClick \in BOOLEAN

VARIABLES
  _shown,              \* show() and not hide()
  visible,             \* animating to overview, in overview, animating out
  animationInProgress,
  visibleTarget,
  _modal,              \* have a modal grab
  _inXdndDrag,
  isDummy,             \* the session mode has no overview
  _inOverview,         \* of the layout manager
  unredirect,          \* calls of disable_unredirect_for_screen not undone
  stack                \* the modal actors

overviewVars == <<_shown, visible, animationInProgress, visibleTarget, _modal, _inOverview, unredirect>>
vars == <<overviewVars, _inXdndDrag, isDummy, stack>>

Modals == INSTANCE ModalService WITH Actor <- Other \cup {overview}

-----------------------------------------------------------------------------
(* The methods call each other: each takes the state o to another.         *)
State ==
  [shown |-> _shown, visible |-> visible, animating |-> animationInProgress,
   target |-> visibleTarget, modal |-> _modal, layout |-> _inOverview, unredirect |-> unredirect]

(* o is reached; the modal service has done what _modal says.              *)
Becomes(o) ==
  /\ _shown' = o.shown
  /\ visible' = o.visible
  /\ animationInProgress' = o.animating
  /\ visibleTarget' = o.target
  /\ _modal' = o.modal
  /\ _inOverview' = o.layout
  /\ unredirect' = o.unredirect
  /\ CASE o.modal = _modal   -> UNCHANGED stack
       [] o.modal /\ ~_modal -> Modals!Push(overview)
       [] OTHER              -> Modals!Pop(overview)

_animateVisible(o) ==
  IF o.visible \/ o.animating THEN o
  ELSE [o EXCEPT !.visible = TRUE, !.animating = TRUE, !.target = TRUE, !.unredirect = @ + 1]

_animateNotVisible(o) ==
  IF ~o.visible \/ o.animating THEN o
  ELSE [o EXCEPT !.animating = TRUE, !.target = FALSE]

(* Mutant of Released: the modal goes when the animation begins.           *)
ReleasedEarly(o) == [o EXCEPT !.modal = @ /\ o.shown]

(* _syncGrab, when the modal is not wanted: changes of the grab are        *)
(* delayed during animation.                                               *)
Released(o) ==
  IF o.animating \/ o.shown THEN o ELSE [o EXCEPT !.modal = FALSE]

(* hide: a click with Ctrl is ignored.                                     *)
hide(o, ignored) ==
  IF isDummy \/ ~o.shown \/ ignored THEN o
  ELSE Released(_animateNotVisible([o EXCEPT !.shown = FALSE]))

(* _syncGrab: the modal is refused if another program has the input; no    *)
(* one is asked when the shell has it.                                     *)
_syncGrab(o, drag, refused, ignored) ==
  IF o.animating \/ ~o.shown \/ drag \/ o.modal THEN Released(o)
  ELSE IF refused THEN hide(o, ignored)
  ELSE [o EXCEPT !.modal = TRUE]

MayRefuse == {FALSE} \cup {stack = <<>>}

-----------------------------------------------------------------------------
Init ==
  /\ _shown = FALSE /\ visible = FALSE /\ animationInProgress = FALSE
  /\ visibleTarget = FALSE /\ _modal = FALSE /\ _inOverview = FALSE
  /\ unredirect = 0
  /\ _inXdndDrag = FALSE
  /\ isDummy = FALSE
  /\ stack = <<>>

(* show, by a key, a click, D-Bus or a drag to the corner.                 *)
Show(ctrl) ==
  /\ ~isDummy /\ ~_shown
  /\ \E refused \in MayRefuse :
       LET o == _syncGrab([State EXCEPT !.shown = TRUE], _inXdndDrag, refused, ctrl)
           denied == ~animationInProgress /\ ~_inXdndDrag /\ ~_modal /\ refused
       IN  /\ ctrl /\ refused => RefuseCtrlClick
           /\ Becomes(IF denied THEN o ELSE _animateVisible([o EXCEPT !.layout = TRUE]))
  /\ UNCHANGED <<_inXdndDrag, isDummy>>

(* hide, by the same (a click with Ctrl changes nothing), an application   *)
(* that is activated, or new monitors.                                     *)
Hide ==
  /\ ~isDummy /\ _shown
  /\ Becomes(hide(State, FALSE))
  /\ UNCHANGED <<_inXdndDrag, isDummy>>

(* Mutant of Shown: what was asked meanwhile is forgotten.                 *)
ShownAnyway(o) == o

(* Mutant of Shown: the animation that runs is the wrong one.              *)
ShownAgain(o) == IF o.shown THEN o ELSE [o EXCEPT !.animating = TRUE]

(* What was asked while the overview was showing.                          *)
Shown(o) == IF o.shown THEN o ELSE _animateNotVisible(o)

_showDone ==
  /\ animationInProgress /\ visibleTarget
  /\ \E refused \in MayRefuse :
       Becomes(_syncGrab(Shown([State EXCEPT !.animating = FALSE]), _inXdndDrag, refused, FALSE))
  /\ UNCHANGED <<_inXdndDrag, isDummy>>

(* What was asked while the overview was hiding.                           *)
Hidden(o) == IF o.shown THEN _animateVisible(o) ELSE [o EXCEPT !.layout = FALSE]

_hideDone ==
  /\ animationInProgress /\ ~visibleTarget
  /\ \E refused \in MayRefuse :
       LET o == [State EXCEPT !.animating = FALSE, !.visible = FALSE, !.unredirect = @ - 1]
       IN  Becomes(_syncGrab(Hidden(o), _inXdndDrag, refused, FALSE))
  /\ UNCHANGED <<_inXdndDrag, isDummy>>

_onDragBegin ==
  /\ ~_inXdndDrag /\ _inXdndDrag' = TRUE
  /\ UNCHANGED <<overviewVars, isDummy, stack>>

(* In case the drag was canceled while in the overview it is hidden.       *)
_onDragEnd ==
  /\ _inXdndDrag /\ _inXdndDrag' = FALSE
  /\ Becomes(hide(State, FALSE))
  /\ UNCHANGED isDummy

(* Another session mode, which has an overview or none.                    *)
_sessionUpdated ==
  /\ isDummy' = ~isDummy
  /\ UNCHANGED <<overviewVars, _inXdndDrag, stack>>

(* Another part of the shell becomes modal, or ceases to be.               *)
OthersPush(a) == Modals!Push(a) /\ UNCHANGED <<overviewVars, _inXdndDrag, isDummy>>
OthersPop(a) == Modals!Pop(a) /\ UNCHANGED <<overviewVars, _inXdndDrag, isDummy>>

Next ==
  \/ \E ctrl \in BOOLEAN : Show(ctrl)
  \/ Hide \/ _showDone \/ _hideDone
  \/ _onDragBegin \/ _onDragEnd \/ _sessionUpdated
  \/ \E a \in Other : OthersPush(a) \/ OthersPop(a)

(* A tween runs to its end.                                                *)
Fairness == WF_vars(_showDone) /\ WF_vars(_hideDone)

Spec == Init /\ [][Next]_vars /\ Fairness

-----------------------------------------------------------------------------
TypeOK ==
  /\ {_shown, visible, animationInProgress, visibleTarget, _modal, _inXdndDrag, isDummy, _inOverview} \subseteq BOOLEAN
  /\ unredirect \in 0..1
  /\ stack \in Seq(Other \cup {overview})

(* The overview has all input only while there is one to see, and believes *)
(* it has it exactly when it is on the stack, whatever others did to it.   *)
ModalWithOverview ==
  /\ _modal => visible
  /\ _modal <=> overview \in Modals!Stacked

(* The layout, and whether windows are drawn without the compositor, follow*)
(* the overview through every wish that came in between.                   *)
LayoutFollows ==
  /\ _inOverview <=> visible
  /\ unredirect = IF visible THEN 1 ELSE 0

(* Without an animation the overview is as it was last asked to be.        *)
SettledAsAsked == ~animationInProgress => (visible <=> _shown)

(* The input that goes with the overview comes and goes in no animation:   *)
(* so the release of a click that hides it goes to no application.         *)
NoGrabChangeWhileAnimating ==
  [][animationInProgress /\ animationInProgress' => _modal' = _modal]_vars

(* The overview comes to be shown and settled without the input only in a  *)
(* drag, or if the session mode then has no overview: a drag that ends, a  *)
(* modal that is refused at the end of the animation, hide it.             *)
Unheard == _shown /\ ~animationInProgress /\ ~_inXdndDrag /\ ~_modal
ShownWithInput == [][Unheard' => Unheard \/ isDummy]_vars

(* When no more is asked, the overview ends up in view or out of it and    *)
(* gives the input back.                                                   *)
HidesForGood == <>[]~_shown => <>[](~visible /\ ~_modal /\ ~animationInProgress)
ShowsForGood == <>[]_shown => <>[](visible /\ ~animationInProgress)

(* The overview, its input and its layout agree.                           *)
OverviewSound == TypeOK /\ ModalWithOverview /\ LayoutFollows /\ SettledAsAsked

(* No step takes or gives the input at the wrong time.                     *)
InputFollows == NoGrabChangeWhileAnimating /\ ShownWithInput

(* What is asked last comes to be.                                         *)
EndsAsAsked == HidesForGood /\ ShowsForGood

-----------------------------------------------------------------------------
(* The proofs: however show, hide, drags and the ends of the animations    *)
(* follow one another, and whatever others do to the modal stack, the      *)
(* overview and its modal agree.                                           *)
(* The states that the methods take to one another.                        *)
Overviews ==
  [shown : BOOLEAN, visible : BOOLEAN, animating : BOOLEAN, target : BOOLEAN,
   modal : BOOLEAN, layout : BOOLEAN, unredirect : {0, 1}]

(* An animation is one of an overview that can be seen, and so is a modal. *)
Sound(o) ==
  /\ o \in Overviews
  /\ o.modal \/ o.animating => o.visible
  /\ o.layout <=> o.visible
  /\ o.unredirect = IF o.visible THEN 1 ELSE 0

Settled(o) == ~o.animating => (o.visible <=> o.shown)

(* The stack holds no actor twice: the overview leaves it with one pop.    *)
StackSound ==
  /\ stack \in Seq(Other \cup {overview})
  /\ \A i, j \in DOMAIN stack : stack[i] = stack[j] => i = j
  /\ _modal <=> overview \in Modals!Stacked

Inv ==
  /\ Sound(State)
  /\ RefuseCtrlClick = FALSE => Settled(State)
  /\ {_inXdndDrag, isDummy} \subseteq BOOLEAN
  /\ StackSound

LEMMA StateFields ==
  /\ State.shown = _shown /\ State.visible = visible /\ State.animating = animationInProgress
  /\ State.target = visibleTarget /\ State.modal = _modal /\ State.layout = _inOverview
  /\ State.unredirect = unredirect
  BY DEF State

LEMMA PushSound ==
  ASSUME stack \in Seq(Other \cup {overview}),
         \A i, j \in DOMAIN stack : stack[i] = stack[j] => i = j,
         NEW a \in Other \cup {overview}, Modals!Push(a)
  PROVE  /\ stack' \in Seq(Other \cup {overview})
         /\ \A i, j \in DOMAIN stack' : stack'[i] = stack'[j] => i = j
         /\ Modals!Stacked' = Modals!Stacked \cup {a}
<1>1. a \notin {stack[i] : i \in DOMAIN stack} /\ stack' = Append(stack, a)
  BY DEF Modals!Push, Modals!Stacked
<1>2. LET t == Append(stack, a)
      IN  /\ t \in Seq(Other \cup {overview})
          /\ \A i, j \in DOMAIN t : t[i] = t[j] => i = j
          /\ {t[i] : i \in DOMAIN t} = {stack[i] : i \in DOMAIN stack} \cup {a}
  BY <1>1, AppendSet
<1> QED  BY <1>1, <1>2, Zenon DEF Modals!Stacked

LEMMA PopSound ==
  ASSUME stack \in Seq(Other \cup {overview}),
         \A i, j \in DOMAIN stack : stack[i] = stack[j] => i = j,
         NEW a \in Other \cup {overview}, Modals!Pop(a)
  PROVE  /\ stack' \in Seq(Other \cup {overview})
         /\ \A i, j \in DOMAIN stack' : stack'[i] = stack'[j] => i = j
         /\ Modals!Stacked' = Modals!Stacked \ {a}
<1>1. PICK k \in DOMAIN stack : stack[k] = a /\ stack' = RemoveAt(stack, k)
  BY DEF Modals!Pop, Modals!RemoveAt, RemoveAt
<1>2. LET t == RemoveAt(stack, k)
      IN  /\ t \in Seq(Other \cup {overview})
          /\ \A i, j \in DOMAIN t : t[i] = t[j] => i = j
          /\ {t[i] : i \in DOMAIN t} = {stack[i] : i \in DOMAIN stack} \ {stack[k]}
  BY RemoveAtSet, Zenon
<1> QED  BY <1>1, <1>2, Zenon DEF Modals!Stacked

(* Whatever sound state the methods reach, the stack follows.              *)
LEMMA BecomesInv ==
  ASSUME Inv, NEW o, Sound(o), RefuseCtrlClick = FALSE => Settled(o), Becomes(o),
         {_inXdndDrag', isDummy'} \subseteq BOOLEAN
  PROVE  Inv'
<1>1. State' = o
  <2>1. o \in Overviews
    BY DEF Sound
  <2> QED  BY <2>1 DEF Becomes, State, Overviews
<1>2. _modal' = o.modal /\ {_modal, o.modal} \subseteq BOOLEAN
  BY DEF Becomes, Inv, Sound, Overviews, State
<1>3. StackSound'
  <2>1. CASE o.modal = _modal
    <3>1. UNCHANGED <<stack, _modal>>
      BY <1>2, <2>1 DEF Becomes
    <3> QED  BY <3>1 DEF Inv, StackSound, Modals!Stacked
  <2>2. CASE o.modal /\ ~_modal
    <3>1. Modals!Push(overview)
      BY <2>2, <1>2 DEF Becomes
    <3> QED  BY <3>1, <2>2, <1>2, PushSound DEF Inv, StackSound
  <2>3. CASE ~o.modal /\ _modal
    <3>1. Modals!Pop(overview)
      BY <2>3, <1>2 DEF Becomes
    <3> QED  BY <3>1, <2>3, <1>2, PopSound DEF Inv, StackSound
  <2> QED  BY <1>2, <2>1, <2>2, <2>3
<1>4. Sound(State)' /\ (RefuseCtrlClick = FALSE => Settled(State)')
  BY <1>1 DEF Sound, Settled
<1> QED  BY <1>3, <1>4 DEF Inv

-----------------------------------------------------------------------------
(* hide leaves a state sound, and settles it if there is anything to hide. *)
LEMMA HideSound ==
  ASSUME NEW o, Sound(o), NEW ignored \in BOOLEAN, isDummy \in BOOLEAN
  PROVE  LET h == hide(o, ignored)
         IN  /\ Sound(h)
             /\ (~isDummy /\ o.shown /\ ~ignored) \/ Settled(o) => Settled(h)
             /\ o.animating => h.animating
             /\ h.animating => h.modal = o.modal
             /\ h.shown => h = o
             /\ ~isDummy /\ ~ignored => ~h.shown
  BY DEF Sound, Settled, Overviews, hide, Released, _animateNotVisible

(* The modal is taken only with an overview in view.                       *)
LEMMA SyncSound ==
  ASSUME NEW o, Sound(o), Settled(o), NEW drag \in BOOLEAN, NEW refused \in BOOLEAN,
         isDummy \in BOOLEAN
  PROVE  LET g == _syncGrab(o, drag, refused, FALSE)
         IN  /\ Sound(g)
             /\ Settled(g)
             /\ g.animating => g.modal = o.modal
             /\ g.shown /\ ~g.animating /\ ~g.modal => drag \/ isDummy
<1>1. CASE o.animating \/ ~o.shown \/ drag \/ o.modal
  <2>1. _syncGrab(o, drag, refused, FALSE) = Released(o)
    BY <1>1 DEF _syncGrab
  <2> QED  BY <1>1, <2>1 DEF Sound, Settled, Overviews, Released
<1>2. CASE ~(o.animating \/ ~o.shown \/ drag \/ o.modal) /\ refused
  <2>1. _syncGrab(o, drag, refused, FALSE) = hide(o, FALSE)
    BY <1>2 DEF _syncGrab
  <2> QED  BY <1>2, <2>1, HideSound
<1>3. CASE ~(o.animating \/ ~o.shown \/ drag \/ o.modal) /\ ~refused
  <2>1. _syncGrab(o, drag, refused, FALSE) = [o EXCEPT !.modal = TRUE]
    BY <1>3 DEF _syncGrab
  <2> QED  BY <1>3, <2>1 DEF Sound, Settled, Overviews
<1> QED  BY <1>1, <1>2, <1>3

-----------------------------------------------------------------------------
(* What a step of the overview does: it reaches a sound state, changes the *)
(* modal in no animation, and is not left without the modal.               *)
StepsTo(o) ==
  /\ Becomes(o)
  /\ Sound(o)
  /\ RefuseCtrlClick = FALSE => Settled(o)
  /\ animationInProgress /\ o.animating => o.modal = _modal
  /\ RefuseCtrlClick = FALSE /\ o.shown /\ ~o.animating /\ ~o.modal /\ ~_inXdndDrag'
       => Unheard \/ isDummy

(* What _animateVisible does to a sound state, or to one that is not in    *)
(* view yet but has taken the modal.                                       *)
LEMMA VisibleSound ==
  ASSUME NEW s, Sound(s), NEW m \in BOOLEAN, m => s.modal \/ ~s.animating
  PROVE  LET l == [s EXCEPT !.layout = TRUE]
             o == _animateVisible(IF m THEN [s EXCEPT !.layout = TRUE, !.modal = TRUE] ELSE l)
         IN  /\ Sound(o)
             /\ o.shown = s.shown
             /\ s.animating /\ (m => s.modal) => o = s
             /\ ~s.visible => o.animating
<1> DEFINE p == [s EXCEPT !.layout = TRUE, !.modal = m \/ @]
           o == _animateVisible(p)
<1>1. s \in Overviews /\ (s.animating \/ s.modal => s.visible) /\ (s.layout <=> s.visible)
      /\ s.unredirect = IF s.visible THEN 1 ELSE 0
  BY DEF Sound
<1>2. /\ p \in Overviews /\ p.layout = TRUE /\ p.modal = (m \/ s.modal)
      /\ p.shown = s.shown /\ p.visible = s.visible /\ p.animating = s.animating
      /\ p.target = s.target /\ p.unredirect = s.unredirect
  BY <1>1 DEF Overviews
<1>3. p = IF m THEN [s EXCEPT !.layout = TRUE, !.modal = TRUE] ELSE [s EXCEPT !.layout = TRUE]
  BY <1>1 DEF Overviews
<1> HIDE DEF p
<1>4. CASE s.visible
  <2>1. o = p
    BY <1>2, <1>4 DEF _animateVisible
  <2>2. s.animating /\ (m => s.modal) => p = s
    BY <1>1, <1>3, <1>4 DEF Overviews
  <2> QED  BY <1>1, <1>2, <1>3, <1>4, <2>1, <2>2 DEF Sound
<1>5. CASE ~s.visible
  <2>1. ~s.animating /\ p.unredirect = 0 /\ p.unredirect + 1 = 1
    BY <1>1, <1>2, <1>5
  <2>2. o = [p EXCEPT !.visible = TRUE, !.animating = TRUE, !.target = TRUE, !.unredirect = 1]
    BY <1>2, <1>5, <2>1 DEF _animateVisible, Overviews
  <2> HIDE DEF o
  <2>3. Sound(o) /\ o.shown = s.shown /\ o.animating
    BY <1>2, <2>2 DEF Sound, Overviews
  <2> QED  BY <1>3, <1>5, <2>1, <2>3 DEF o
<1> QED  BY <1>4, <1>5

LEMMA MayRefuseBoolean == MayRefuse \subseteq BOOLEAN
  BY DEF MayRefuse

LEMMA ShowSteps ==
  ASSUME Inv, NEW ctrl \in BOOLEAN, Show(ctrl)
  PROVE  \E o : StepsTo(o)
<1> DEFINE s == [State EXCEPT !.shown = TRUE]
           denied(refused) == ~animationInProgress /\ ~_inXdndDrag /\ ~_modal /\ refused
           g(refused) == _syncGrab(s, _inXdndDrag, refused, ctrl)
<1>1. PICK refused \in MayRefuse :
        /\ ctrl /\ refused => RefuseCtrlClick
        /\ Becomes(IF denied(refused) THEN g(refused)
                   ELSE _animateVisible([g(refused) EXCEPT !.layout = TRUE]))
  BY DEF Show
<1>2. refused \in BOOLEAN /\ isDummy = FALSE /\ _shown = FALSE /\ _inXdndDrag \in BOOLEAN
      /\ _inXdndDrag' = _inXdndDrag
  BY MayRefuseBoolean DEF Show, Inv, State, Sound, Overviews
<1>3. /\ s \in Overviews /\ s.shown = TRUE
      /\ s.visible = visible /\ s.animating = animationInProgress /\ s.modal = _modal
      /\ s.layout = _inOverview /\ s.unredirect = unredirect
      /\ State.visible = visible /\ State.animating = animationInProgress /\ State.shown = FALSE
      /\ Sound(s)
  BY <1>2 DEF Inv, State, Sound, Overviews
<1> HIDE DEF s
<1>4. CASE denied(refused)
  <2>1. g(refused) = hide(s, ctrl)
    BY <1>2, <1>3, <1>4 DEF _syncGrab
  <2>2. RefuseCtrlClick = FALSE => ctrl = FALSE
    BY <1>1, <1>4
  <2>3. StepsTo(hide(s, ctrl))
    <3>1. Becomes(hide(s, ctrl))
      BY <1>1, <1>4, <2>1
    <3> QED  BY <1>2, <1>3, <1>4, <2>2, <3>1, HideSound DEF StepsTo
  <2> QED  BY <2>3
<1>5. CASE ~denied(refused)
  <2> DEFINE o == _animateVisible([g(refused) EXCEPT !.layout = TRUE])
  <2>1. g(refused) = s \/ (g(refused) = [s EXCEPT !.modal = TRUE] /\ ~animationInProgress)
    BY <1>2, <1>3, <1>5 DEF _syncGrab, Released
  <2>2. \/ o = _animateVisible([s EXCEPT !.layout = TRUE])
        \/ /\ o = _animateVisible([s EXCEPT !.layout = TRUE, !.modal = TRUE])
           /\ ~animationInProgress
    BY <2>1, <1>3 DEF Overviews
  <2> DEFINE v(m) == _animateVisible(IF m THEN [s EXCEPT !.layout = TRUE, !.modal = TRUE]
                                     ELSE [s EXCEPT !.layout = TRUE])
  <2>4. /\ Sound(o) /\ o.shown /\ (animationInProgress => o = s)
        /\ ~visible => o.animating
    <3>1. ASSUME NEW m \in BOOLEAN, m => s.modal \/ ~s.animating
          PROVE  /\ Sound(v(m)) /\ v(m).shown = s.shown
                 /\ s.animating /\ (m => s.modal) => v(m) = s
                 /\ ~s.visible => v(m).animating
      BY <3>1, <1>3, VisibleSound
    <3>2. o = v(FALSE) \/ (o = v(TRUE) /\ ~animationInProgress)
      BY <2>2
    <3> HIDE DEF o, v
    <3>3. CASE o = v(FALSE)
      BY <3>1, <3>3, <1>3
    <3>4. CASE o = v(TRUE) /\ ~animationInProgress
      BY <3>1, <3>4, <1>3
    <3> QED  BY <3>2, <3>3, <3>4
  <2>5. Becomes(o)
    BY <1>1, <1>5
  <2> HIDE DEF o
  <2>6. RefuseCtrlClick = FALSE => o.animating
    <3>1. RefuseCtrlClick = FALSE => Settled(State)
      BY DEF Inv
    <3>2. RefuseCtrlClick = FALSE => animationInProgress \/ ~visible
      BY <3>1, <1>3 DEF Settled
    <3> QED  BY <3>2, <2>4, <1>3
  <2>7. StepsTo(o)
    BY <1>3, <2>4, <2>5, <2>6 DEF StepsTo, Settled
  <2> QED  BY <2>7
<1> QED  BY <1>4, <1>5

LEMMA HideSteps ==
  ASSUME Inv, Becomes(hide(State, FALSE))
  PROVE  \E o : StepsTo(o)
<1>1. /\ Sound(State) /\ isDummy \in BOOLEAN
      /\ RefuseCtrlClick = FALSE => Settled(State)
  BY DEF Inv
<1>2. State.animating = animationInProgress /\ State.modal = _modal /\ State.shown = _shown
  BY DEF State
<1> DEFINE h == hide(State, FALSE)
<1>3. /\ Sound(h)
      /\ RefuseCtrlClick = FALSE => Settled(h)
      /\ h.animating => h.modal = _modal
      /\ h.shown => isDummy
  BY <1>1, <1>2, HideSound
<1>4. StepsTo(h)
  BY <1>3 DEF StepsTo
<1> QED  BY <1>4

LEMMA ShowDoneSteps ==
  ASSUME Inv, _showDone
  PROVE  \E o : StepsTo(o)
<1> DEFINE s == Shown([State EXCEPT !.animating = FALSE])
<1>1. PICK refused \in MayRefuse : Becomes(_syncGrab(s, _inXdndDrag, refused, FALSE))
  BY DEF _showDone
<1>2. refused \in BOOLEAN /\ isDummy \in BOOLEAN /\ _inXdndDrag \in BOOLEAN /\ _inXdndDrag' = _inXdndDrag
      /\ animationInProgress = TRUE
  BY MayRefuseBoolean DEF _showDone, Inv, State, Sound, Overviews
<1>3. Sound(s) /\ Settled(s) /\ s.modal = _modal
  <2> DEFINE d == [State EXCEPT !.animating = FALSE]
  <2>1. Sound(d) /\ d.visible /\ ~d.animating /\ d.modal = _modal
    BY <1>2, StateFields DEF Inv, Sound, Overviews
  <2> HIDE DEF d
  <2>2. s = IF d.shown THEN d ELSE [d EXCEPT !.animating = TRUE, !.target = FALSE]
    BY <2>1 DEF Shown, _animateNotVisible, d
  <2> HIDE DEF s
  <2>3. CASE d.shown
    BY <2>1, <2>2, <2>3 DEF Settled
  <2>4. CASE ~d.shown
    BY <2>1, <2>2, <2>4 DEF Sound, Settled, Overviews
  <2> QED  BY <2>3, <2>4
<1> HIDE DEF s
<1>4. StepsTo(_syncGrab(s, _inXdndDrag, refused, FALSE))
  BY <1>1, <1>2, <1>3, SyncSound DEF StepsTo
<1> QED  BY <1>4

LEMMA HideDoneSteps ==
  ASSUME Inv, _hideDone
  PROVE  \E o : StepsTo(o)
<1> DEFINE d == [State EXCEPT !.animating = FALSE, !.visible = FALSE, !.unredirect = @ - 1]
           s == Hidden(d)
<1>1. PICK refused \in MayRefuse : Becomes(_syncGrab(s, _inXdndDrag, refused, FALSE))
  BY DEF _hideDone
<1>2. refused \in BOOLEAN /\ isDummy \in BOOLEAN /\ _inXdndDrag \in BOOLEAN /\ _inXdndDrag' = _inXdndDrag
      /\ animationInProgress = TRUE
  BY MayRefuseBoolean DEF _hideDone, Inv, State, Sound, Overviews
<1>3. /\ d \in Overviews /\ ~d.visible /\ ~d.animating /\ d.unredirect = 0 /\ d.layout
      /\ d.modal = _modal /\ d.shown = _shown
  <2>1. Sound(State) /\ State.visible /\ State.unredirect = 1 /\ State.layout
    BY <1>2, StateFields DEF Inv, Sound, Overviews
  <2>2. d = [State EXCEPT !.animating = FALSE, !.visible = FALSE, !.unredirect = 0]
    BY <2>1 DEF Sound, Overviews
  <2> HIDE DEF d
  <2> QED  BY <2>1, <2>2, StateFields DEF Sound, Overviews
<1> HIDE DEF d
<1>4. CASE d.shown
  <2>1. Sound(s) /\ Settled(s) /\ s.modal = _modal
    <3>1. d.unredirect + 1 = 1
      BY <1>3
    <3>2. s = [d EXCEPT !.visible = TRUE, !.animating = TRUE, !.target = TRUE, !.unredirect = 1]
      BY <1>3, <1>4, <3>1 DEF Hidden, _animateVisible, Overviews
    <3> HIDE DEF s
    <3> QED  BY <1>3, <1>4, <3>2 DEF Sound, Settled, Overviews
  <2> HIDE DEF s
  <2>2. StepsTo(_syncGrab(s, _inXdndDrag, refused, FALSE))
    BY <1>1, <1>2, <2>1, SyncSound DEF StepsTo
  <2> QED  BY <2>2
<1>5. CASE ~d.shown
  <2> DEFINE o == [d EXCEPT !.layout = FALSE, !.modal = FALSE]
  <2>1. _syncGrab(s, _inXdndDrag, refused, FALSE) = o
    BY <1>3, <1>5 DEF Hidden, _syncGrab, Released, Overviews
  <2>2. Sound(o) /\ Settled(o) /\ ~o.shown /\ ~o.animating
    BY <1>3, <1>5 DEF Sound, Settled, Overviews
  <2>3. StepsTo(o)
    BY <1>1, <2>1, <2>2 DEF StepsTo
  <2> QED  BY <2>3
<1> QED  BY <1>4, <1>5

(* Every step is one of the overview, or leaves its state alone.           *)
LEMMA Steps ==
  ASSUME Inv, [Next]_vars
  PROVE  \/ (\E o : StepsTo(o)) /\ {_inXdndDrag', isDummy'} \subseteq BOOLEAN
         \/ /\ UNCHANGED overviewVars
            /\ {_inXdndDrag', isDummy'} \subseteq BOOLEAN
            /\ Unheard' => Unheard \/ isDummy
            /\ UNCHANGED stack \/ \E a \in Other : Modals!Push(a) \/ Modals!Pop(a)
<1>0. {_inXdndDrag, isDummy} \subseteq BOOLEAN
  BY DEF Inv
<1>1. ASSUME NEW ctrl \in BOOLEAN, Show(ctrl)
      PROVE  (\E o : StepsTo(o)) /\ {_inXdndDrag', isDummy'} \subseteq BOOLEAN
  BY <1>0, <1>1, ShowSteps DEF Show
<1>2. CASE Hide
  BY <1>0, <1>2, HideSteps DEF Hide
<1>3. CASE _showDone
  BY <1>0, <1>3, ShowDoneSteps DEF _showDone
<1>4. CASE _hideDone
  BY <1>0, <1>4, HideDoneSteps DEF _hideDone
<1>5. CASE _onDragBegin
  BY <1>0, <1>5 DEF _onDragBegin, Unheard
<1>6. CASE _onDragEnd
  BY <1>0, <1>6, HideSteps DEF _onDragEnd
<1>7. CASE _sessionUpdated
  <2>1. UNCHANGED overviewVars /\ UNCHANGED <<stack, _inXdndDrag>> /\ isDummy' \in BOOLEAN
    BY <1>0, <1>7 DEF _sessionUpdated
  <2> QED  BY <1>0, <2>1 DEF overviewVars, Unheard
<1>8. ASSUME NEW a \in Other, OthersPush(a) \/ OthersPop(a)
      PROVE  /\ UNCHANGED <<overviewVars, _inXdndDrag, isDummy>>
             /\ Modals!Push(a) \/ Modals!Pop(a)
  BY <1>8 DEF OthersPush, OthersPop
<1>9. CASE \E a \in Other : OthersPush(a) \/ OthersPop(a)
  <2>1. /\ UNCHANGED <<overviewVars, _inXdndDrag, isDummy>>
        /\ \E a \in Other : Modals!Push(a) \/ Modals!Pop(a)
    BY <1>8, <1>9
  <2> QED  BY <1>0, <2>1 DEF overviewVars, Unheard
<1>10. CASE UNCHANGED vars
  BY <1>0, <1>10 DEF vars, overviewVars, Unheard
<1> QED  BY <1>1, <1>2, <1>3, <1>4, <1>5, <1>6, <1>7, <1>9, <1>10 DEF Next

LEMMA NextInv ==
  ASSUME Inv, [Next]_vars
  PROVE  Inv'
<1>1. CASE (\E o : StepsTo(o)) /\ {_inXdndDrag', isDummy'} \subseteq BOOLEAN
  BY <1>1, BecomesInv DEF StepsTo
<1>2. CASE /\ UNCHANGED overviewVars
           /\ {_inXdndDrag', isDummy'} \subseteq BOOLEAN
           /\ UNCHANGED stack \/ \E a \in Other : Modals!Push(a) \/ Modals!Pop(a)
  <2>1. State' = State /\ _modal' = _modal
    BY <1>2 DEF overviewVars, State
  <2>2. StackSound'
    <3>1. CASE UNCHANGED stack
      BY <2>1, <3>1 DEF Inv, StackSound, Modals!Stacked
    <3>2. ASSUME NEW a \in Other, Modals!Push(a)  PROVE StackSound'
      BY <2>1, <3>2, PushSound, ConstantsAssumption DEF Inv, StackSound
    <3>3. ASSUME NEW a \in Other, Modals!Pop(a)  PROVE StackSound'
      BY <2>1, <3>3, PopSound, ConstantsAssumption DEF Inv, StackSound
    <3> QED  BY <1>2, <3>1, <3>2, <3>3
  <2>3. Sound(State)' /\ (RefuseCtrlClick = FALSE => Settled(State)')
    BY <2>1 DEF Inv, Sound, Settled
  <2> QED  BY <1>2, <2>2, <2>3 DEF Inv
<1> QED  BY <1>1, <1>2, Steps

LEMMA InitInv ==
  ASSUME Init
  PROVE  Inv
<1>1. Sound(State) /\ Settled(State) /\ {_inXdndDrag, isDummy} \subseteq BOOLEAN
  <2>1. /\ _shown = FALSE /\ visible = FALSE /\ animationInProgress = FALSE
        /\ visibleTarget = FALSE /\ _modal = FALSE /\ _inOverview = FALSE /\ unredirect = 0
        /\ _inXdndDrag = FALSE /\ isDummy = FALSE
    BY DEF Init
  <2>2. State \in Overviews
    BY <2>1 DEF State, Overviews
  <2> QED  BY <2>1, <2>2, StateFields DEF Sound, Settled
<1>2. stack = <<>> /\ _modal = FALSE
  BY DEF Init
<1>3. StackSound
  BY <1>2 DEF StackSound, Modals!Stacked
<1> QED  BY <1>1, <1>3 DEF Inv

(* The inductive invariant: an animation is one of an overview in view,    *)
(* which no property says, is what keeps the modal and the layout with it. *)
THEOREM Invariance == Init /\ [][Next]_vars => []Inv
<1>1. Init => Inv
  BY InitInv
<1>2. Inv /\ [Next]_vars => Inv'
  BY NextInv
<1> QED  BY <1>1, <1>2, PTL

(* The overview has all input only while there is one to see, and believes *)
(* so exactly when it is on the stack.                                     *)
THEOREM ModalGoesWithOverview == Spec => []ModalWithOverview
<1>1. Inv => ModalWithOverview
  BY DEF Inv, Sound, State, StackSound, ModalWithOverview, Overviews
<1> QED  BY <1>1, Invariance, PTL DEF Spec

(* The layout and the compositor follow the overview.                      *)
THEOREM LayoutGoesWithOverview == Spec => []LayoutFollows
<1>1. Inv => LayoutFollows
  BY DEF Inv, Sound, State, LayoutFollows, Overviews
<1> QED  BY <1>1, Invariance, PTL DEF Spec

(* Settled, the overview is as it was asked to be, unless the modal can be *)
(* refused to a click with Ctrl: the hide that follows ignores it then.    *)
THEOREM SettlesAsAsked ==
  ASSUME RefuseCtrlClick = FALSE
  PROVE  Spec => []SettledAsAsked
<1>1. Inv => SettledAsAsked
  BY DEF Inv, Settled, State, SettledAsAsked
<1> QED  BY <1>1, Invariance, PTL DEF Spec

(* The modal changes in no animation.                                      *)
THEOREM GrabIsStable == Spec => NoGrabChangeWhileAnimating
<1>1. Inv /\ [Next]_vars => [animationInProgress /\ animationInProgress' => _modal' = _modal]_vars
  <2> SUFFICES ASSUME Inv, [Next]_vars, animationInProgress, animationInProgress'
               PROVE  _modal' = _modal
    OBVIOUS
  <2>1. CASE \E o : StepsTo(o)
    BY <2>1 DEF StepsTo, Becomes
  <2>2. CASE UNCHANGED overviewVars
    BY <2>2 DEF overviewVars
  <2> QED  BY <2>1, <2>2, Steps
<1> QED  BY <1>1, Invariance, PTL DEF Spec, NoGrabChangeWhileAnimating

(* The overview is not left in view without the input.                     *)
THEOREM ShownHasInput ==
  ASSUME RefuseCtrlClick = FALSE
  PROVE  Spec => ShownWithInput
<1>1. Inv /\ [Next]_vars => [Unheard' => Unheard \/ isDummy]_vars
  <2> SUFFICES ASSUME Inv, [Next]_vars, Unheard'
               PROVE  Unheard \/ isDummy
    OBVIOUS
  <2>1. CASE \E o : StepsTo(o)
    BY <2>1 DEF StepsTo, Becomes, Unheard
  <2>2. CASE Unheard' => Unheard \/ isDummy
    BY <2>2
  <2> QED  BY <2>1, <2>2, Steps
<1> QED  BY <1>1, Invariance, PTL DEF Spec, ShownWithInput

(* Together, for any other actors: what TLC checks of two.                 *)
THEOREM OverviewIsSound ==
  ASSUME RefuseCtrlClick = FALSE
  PROVE  Spec => []OverviewSound
<1>1. Inv => TypeOK
  BY DEF Inv, Sound, State, StackSound, TypeOK, Overviews
<1>2. Inv => ModalWithOverview /\ LayoutFollows
  BY DEF Inv, Sound, State, StackSound, ModalWithOverview, LayoutFollows, Overviews
<1>3. Inv => SettledAsAsked
  BY DEF Inv, Settled, State, SettledAsAsked
<1>4. Inv => OverviewSound
  BY <1>1, <1>2, <1>3 DEF OverviewSound
<1> QED  BY <1>4, Invariance, PTL DEF Spec

(* And the two facts of its steps.                                         *)
THEOREM InputFollowsAlways ==
  ASSUME RefuseCtrlClick = FALSE
  PROVE  Spec => InputFollows
BY GrabIsStable, ShownHasInput DEF InputFollows

=============================================================================
