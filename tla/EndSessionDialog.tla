-------------------------- MODULE EndSessionDialog --------------------------
(***************************************************************************)
(* The end-session dialog (js/ui/endSessionDialog.js) over the base of the *)
(* modal dialogs (js/ui/modalDialog.js): the session manager asks for it   *)
(* on D-Bus and asks again when inhibitors come and go; the user confirms  *)
(* or cancels, a countdown confirms, and PackageKit, the inhibitors and    *)
(* the login manager answer late.                                          *)
(*                                                                         *)
(* Abstracted: texts and icons (_sync); a request has at most one          *)
(* inhibitor, the login manager lists at most one other session.           *)
(***************************************************************************)
EXTENDS Naturals, FiniteSets, Sequences, SequencesExt, FiniteSetTheorems, TLAPS

CONSTANTS
  MaxOpen,     \* bound on the requests of the session manager
  MaxWait      \* bound on the confirmations that wait for `closed'

ASSUME MaxAssumption == MaxOpen \in Nat /\ MaxWait \in Nat

VARIABLES
  dialog,
  asked,           \* how many requests there were; each is named by its number
  _type,
  buttons,         \* the signals of the buttons that confirm
  _checkBox,       \* "hidden", or shown and "off" or "on"
  _applications,   \* requests whose inhibitor is kept,
  applicationList, \* is shown,
  loading,         \* or has a proxy that is not ready
  _sessions,       \* how many sessions are listed,
  listing,         \* and how often the login manager was asked
  timers, _timerId,
  confirming,      \* signals of the handlers connected to `closed'
  opening,         \* requests to be answered by `opened'
  offline,         \* signals that wait for PackageKit
  said             \* signals emitted since the last request

vars == <<dialog, asked, _type, buttons, _checkBox, _applications, applicationList, loading,
          _sessions, listing, timers, _timerId, confirming, opening, offline, said>>
listVars == <<_applications, applicationList, loading, _sessions, listing>>
askVars == <<asked, _type, buttons, _checkBox, opening, listVars>>

-----------------------------------------------------------------------------
(* ModalDialog: its state, its place in the modal stack, and the tweens of *)
(* its group and its layout.  The operators return the dialog as a call    *)
(* leaves it.  A tween of the group takes OPEN_AND_CLOSE_TIME (0.1 s), one *)
(* of the layout FADE_OUT_DIALOG_TIME (1 s): the first ends first if it    *)
(* began first.  Abstracted: the key focus, the lightbox; destroyOnClose   *)
(* is FALSE.                                                               *)
State == {"OPENED", "CLOSED", "OPENING", "CLOSING", "FADED_OUT"}

Dialogs ==
  [state: State,
   hasModal: BOOLEAN,
   onStack: BOOLEAN,                   \* is in the modal stack of main.js
   group: SUBSET {"open", "close"},    \* tweens of _group
   fading: {"no", "behind", "free"},   \* the tween of dialogLayout; "behind"
                                       \* a tween of the group it outlasts
   faint: BOOLEAN]                     \* dialogLayout has no opacity

NewDialog ==
  [state |-> "CLOSED", hasModal |-> FALSE, onStack |-> FALSE, group |-> {}, fading |-> "no",
   faint |-> FALSE]

(* Tweener: a tween replaces the one of the same property.                 *)
Tweened(d, t) ==
  [d EXCEPT !.group = {t}, !.fading = IF @ = "behind" THEN "free" ELSE @]

popModal(d) == [d EXCEPT !.hasModal = FALSE, !.onStack = d.onStack /\ ~d.hasModal]
pushModal(d) == [d EXCEPT !.hasModal = TRUE, !.onStack = TRUE]

FadeOverClose(d) ==
  [d EXCEPT !.state = "OPENING", !.faint = FALSE, !.group = @ \cup {"open"}]
_fadeOpen(d) == Tweened([d EXCEPT !.state = "OPENING", !.faint = FALSE], "open")

(* What open() returns; a modal that is taken already is not asked for.    *)
IsOpen(d) == d.state \in {"OPENED", "OPENING"}
Opens(d, refused) == IsOpen(d) \/ d.hasModal \/ ~refused
open(d, refused) ==
  IF IsOpen(d) \/ ~Opens(d, refused) THEN d ELSE _fadeOpen(pushModal(d))

close(d) ==
  IF d.state \in {"CLOSED", "CLOSING"} THEN d
  ELSE Tweened([popModal(d) EXCEPT !.state = "CLOSING"], "close")

_fadeOutDialog(d) ==
  IF d.state \in {"CLOSED", "CLOSING", "FADED_OUT"} THEN d
  ELSE [popModal(d) EXCEPT !.fading = IF d.group = {} THEN "free" ELSE "behind"]

(* The tweens end.                                                         *)
Ended(d, t) == [d EXCEPT !.group = @ \ {t}, !.fading = IF @ = "behind" THEN "free" ELSE @]
Opened(d) == [Ended(d, "open") EXCEPT !.state = "OPENED"]
_closeComplete(d) == [Ended(d, "close") EXCEPT !.state = "CLOSED"]
FadedOut(d) == [d EXCEPT !.state = "FADED_OUT", !.fading = "no", !.faint = TRUE]

-----------------------------------------------------------------------------
(* DialogContent: the signals of the buttons, the last is that of the      *)
(* countdown.                                                              *)
Type == {"LOGOUT", "SHUTDOWN", "UPGRADE_RESTART"}
DialogContent ==
  [LOGOUT |-> <<"ConfirmedLogout">>,
   SHUTDOWN |-> <<"ConfirmedReboot", "ConfirmedShutdown">>,
   UPGRADE_RESTART |-> <<"ConfirmedReboot">>]
Signal == UNION {ToSet(DialogContent[t]) : t \in Type}
DisableTimer == {"UPGRADE_RESTART"}
ShowOtherSessions == Type \ {"LOGOUT"}

World ==
  [d |-> dialog, timers |-> timers, id |-> _timerId, confirming |-> confirming,
   offline |-> offline, said |-> said]
Becomes(w) ==
  /\ dialog' = w.d /\ timers' = w.timers /\ _timerId' = w.id
  /\ confirming' = w.confirming /\ offline' = w.offline /\ said' = w.said

Emit(w, s) == [w EXCEPT !.said = @ \cup {s}]
_stopTimer(w) == [w EXCEPT !.timers = @ \ {w.id}, !.id = 0]

-----------------------------------------------------------------------------
(* _confirm and its callback, called at once or when PackageKit answers.   *)
ConfirmedOnly(w, s) == Emit(_stopTimer(w), s)
Confirmed(w, s) == Emit(_stopTimer([w EXCEPT !.d = _fadeOutDialog(@)]), s)

AtOnce(s) == _checkBox = "hidden" \/ (_checkBox = "on" /\ s = "ConfirmedLogout")
_confirm(w, s) ==
  IF AtOnce(s) THEN Confirmed(w, s)
  ELSE [w EXCEPT !.offline = Append(@, IF _checkBox = "on" THEN "ConfirmedReboot" ELSE s)]

(* OpenAsync(parameters, invocation)                                       *)
AskUnknown ==
  /\ asked < MaxOpen
  /\ asked' = asked + 1 /\ _type' = "unknown"
  /\ _applications' = {} /\ applicationList' = {} /\ _sessions' = 0
  /\ UNCHANGED <<dialog, buttons, _checkBox, loading, listing, timers, _timerId, confirming,
                 opening, offline, said>>

OpenAsync ==
  /\ asked < MaxOpen
  /\ \E type \in Type, box \in {"hidden", "off", "on"}, inhibited, refused \in BOOLEAN :
       LET n == asked + 1
           opens == Opens(dialog, refused)
           counts == opens /\ type \notin DisableTimer
       IN /\ type # "SHUTDOWN" => box = "hidden"
          /\ asked' = n /\ _type' = type
          /\ buttons' = ToSet(DialogContent[type]) /\ _checkBox' = box
          /\ _applications' = IF inhibited THEN {n} ELSE {}
          /\ loading' = loading \cup _applications'
          /\ applicationList' = {} /\ _sessions' = 0
          /\ listing' = IF type \in ShowOtherSessions THEN listing + 1 ELSE listing
          /\ dialog' = open(dialog, refused)
          /\ timers' = IF counts THEN timers \cup {n} ELSE timers
          /\ _timerId' = IF counts THEN n ELSE _timerId
          /\ opening' = IF opens THEN opening \cup {n} ELSE opening
          /\ said' = {}
  /\ UNCHANGED <<confirming, offline>>

(* Close() on D-Bus, close() and cancel()                                  *)
Close ==
  /\ Becomes(Emit([World EXCEPT !.d = close(@)], "Closed"))
  /\ UNCHANGED askVars

cancel ==
  /\ dialog.hasModal
  /\ Becomes(Emit([Emit(_stopTimer(World), "Canceled") EXCEPT !.d = close(@)], "Closed"))
  /\ UNCHANGED askVars

(* A button: close(true), and the handler of `closed' confirms.            *)
PressConfirm ==
  /\ dialog.hasModal /\ Len(confirming) < MaxWait
  /\ \E s \in buttons : Becomes([World EXCEPT !.d = close(@), !.confirming = Append(@, s)])
  /\ UNCHANGED askVars

ToggleCheckBox ==
  /\ dialog.hasModal /\ _checkBox # "hidden"
  /\ _checkBox' = IF _checkBox = "on" THEN "off" ELSE "on"
  /\ UNCHANGED <<dialog, asked, _type, buttons, opening, listVars, timers, _timerId, confirming,
                 offline, said>>

(* The tweens of the dialog end.                                           *)
OpenEnds ==
  /\ "open" \in dialog.group
  /\ dialog' = Opened(dialog)
  /\ opening' = {}
  /\ UNCHANGED <<asked, _type, buttons, _checkBox, listVars, timers, _timerId, confirming,
                 offline, said>>

(* The handlers of `closed' confirm, one after the other; the dialog is    *)
(* closed, which none of them changes.                                     *)
CloseEnds ==
  /\ "close" \in dialog.group
  /\ LET now  == {s \in ToSet(confirming) : AtOnce(s)}
         late == Cardinality({i \in DOMAIN confirming : ~AtOnce(confirming[i])})
         asks == IF _checkBox = "off" THEN confirming ELSE [i \in 1..late |-> "ConfirmedReboot"]
         w == [World EXCEPT !.d = _closeComplete(@), !.confirming = <<>>, !.said = @ \cup now,
                            !.offline = @ \o asks]
     IN Becomes(IF now = {} THEN w ELSE _stopTimer(w))
  /\ UNCHANGED askVars

FadeEnds ==
  /\ dialog.fading = "free"
  /\ dialog' = FadedOut(dialog)
  /\ UNCHANGED <<askVars, timers, _timerId, confirming, offline, said>>

(* A timer of _startTimer expires; they share the time to stay open, so    *)
(* the oldest is the first.  The content of an unknown type is undefined.  *)
Expire ==
  /\ timers # {}
  /\ LET t == CHOOSE n \in timers : \A m \in timers : n <= m
         w == [World EXCEPT !.timers = @ \ {t}]
     IN Becomes(IF _type \notin Type THEN w
                ELSE [_confirm(w, Last(DialogContent[_type])) EXCEPT !.id = 0])
  /\ UNCHANGED askVars

OfflineAnswer ==
  /\ offline # <<>>
  /\ Becomes(Confirmed([World EXCEPT !.offline = Tail(@)], Head(offline)))
  /\ UNCHANGED askVars

(* _onInhibitorLoaded: what inhibits is an application or a service.       *)
_onInhibitorLoaded ==
  \E n \in loading, isApp \in BOOLEAN :
     /\ loading' = loading \ {n}
     /\ applicationList' = IF isApp THEN applicationList \cup ({n} \cap _applications)
                           ELSE applicationList
     /\ _applications' = IF isApp THEN _applications ELSE _applications \ {n}
     /\ UNCHANGED <<dialog, asked, _type, buttons, _checkBox, opening, _sessions, listing,
                    timers, _timerId, confirming, offline, said>>

(* The answer of listSessions in _loadSessions.                            *)
SessionsLoaded ==
  /\ listing > 0 /\ listing' = listing - 1
  /\ \E k \in 0..1 : _sessions' = _sessions + k
  /\ UNCHANGED <<dialog, asked, _type, buttons, _checkBox, opening, _applications,
                 applicationList, loading, timers, _timerId, confirming, offline, said>>

-----------------------------------------------------------------------------
Init ==
  /\ dialog = NewDialog
  /\ asked = 0 /\ _type = "unknown" /\ buttons = {} /\ _checkBox = "hidden"
  /\ _applications = {} /\ applicationList = {} /\ loading = {}
  /\ _sessions = 0 /\ listing = 0
  /\ timers = {} /\ _timerId = 0
  /\ confirming = <<>> /\ opening = {} /\ offline = <<>> /\ said = {}

Next ==
  \/ AskUnknown \/ OpenAsync \/ Close \/ cancel \/ PressConfirm \/ ToggleCheckBox
  \/ OpenEnds \/ CloseEnds \/ FadeEnds \/ Expire \/ OfflineAnswer
  \/ _onInhibitorLoaded \/ SessionsLoaded

(* Tweener ends its tweens, the main loop runs its timers, and PackageKit  *)
(* answers or its call times out.                                          *)
Fairness ==
  /\ WF_vars(OpenEnds) /\ WF_vars(CloseEnds) /\ WF_vars(FadeEnds)
  /\ WF_vars(Expire) /\ WF_vars(OfflineAnswer)

Spec == Init /\ [][Next]_vars /\ Fairness

-----------------------------------------------------------------------------
TypeOK ==
  /\ dialog \in Dialogs
  /\ asked \in 0..MaxOpen /\ _type \in Type \cup {"unknown"}
  /\ buttons \subseteq Signal /\ _checkBox \in {"hidden", "off", "on"}
  /\ UNION {_applications, applicationList, loading, timers, opening} \subseteq 1..asked
  /\ _sessions \in 0..asked /\ listing \in 0..asked /\ _timerId \in 0..asked
  /\ confirming \in Seq(Signal) /\ offline \in Seq(Signal)
  /\ said \subseteq Signal \cup {"Closed", "Canceled"}

(* A dialog that is closed or closing has given the input back, and what   *)
(* it believes about it is what main.js has (popModal, pushModal).         *)
ClosedHasNoModal ==
  /\ dialog.hasModal = dialog.onStack
  /\ dialog.state \in {"CLOSED", "CLOSING"} => ~dialog.hasModal

(* A dialog that was opened again while it closed is not closed by the     *)
(* animation of that closing (_fadeOpen, _closeComplete).                  *)
OpenedStaysOpen == "close" \in dialog.group => ~dialog.hasModal /\ dialog.group = {"close"}

(* The dialog lists the inhibitors of the last request, not one whose      *)
(* proxy was late (_onInhibitorLoaded).                                    *)
ListsWhatInhibits == applicationList \subseteq _applications

(* No proxy is both awaited and listed, and no request is answered twice   *)
(* by the login manager, nor by answers to earlier ones more than once     *)
(* each (_loadSessions).                                                   *)
AnsweredOnce == applicationList \cap loading = {} /\ _sessions + listing <= asked

(* The countdown of a dialog that has the input ends with the input given  *)
(* back, whatever is pressed and asked meanwhile; except after a request   *)
(* of an unknown type, or when the fade of an earlier confirmation ends    *)
(* over the dialog (_startTimer, _confirm, _fadeOutDialog).                *)
CountdownEnds ==
  dialog.hasModal /\ timers # {} ~> ~dialog.hasModal \/ _type = "unknown" \/ dialog.faint

(* A dialog that confirms goes away at once, only the lightbox remains:    *)
(* what the comment above _fadeOutDialog says.                             *)
ConfirmedReleases ==
  [][\A s \in Signal : s \in said' \ said => ~dialog'.hasModal]_vars
(* Once the user has cancelled, nothing is confirmed until the next        *)
(* request (cancel, _confirm).                                             *)
CancelIsFinal == [][\A s \in Signal : "Canceled" \in said /\ s \in said' => s \in said]_vars

(* The dialog, its modal, its animations and its lists agree.              *)
DialogSound ==
  TypeOK /\ ClosedHasNoModal /\ OpenedStaysOpen /\ ListsWhatInhibits /\ AnsweredOnce

-----------------------------------------------------------------------------
(* DialogSound is inductive: the dialog of ModalDialog needs               *)
(* ClosedHasNoModal and OpenedStaysOpen of each other, the lists need      *)
(* AnsweredOnce.                                                           *)

(* ModalDialog: each call keeps the dialog, its modal and its tweens       *)
(* together.                                                               *)
Whole(d) ==
  /\ d \in Dialogs
  /\ d.hasModal = d.onStack
  /\ d.state \in {"CLOSED", "CLOSING"} => ~d.hasModal
  /\ "close" \in d.group => ~d.hasModal /\ d.group = {"close"}

LEMMA WholeDialog == DialogSound => Whole(dialog)
BY DEF DialogSound, TypeOK, ClosedHasNoModal, OpenedStaysOpen, Whole

LEMMA OpenIsWhole ==
  ASSUME NEW d, Whole(d), NEW refused \in BOOLEAN
  PROVE  Whole(open(d, refused))
BY DEF Whole, open, IsOpen, Opens, _fadeOpen, Tweened, pushModal, Dialogs, State

LEMMA CloseIsWhole ==
  ASSUME NEW d, Whole(d)
  PROVE  Whole(close(d))
BY DEF Whole, close, Tweened, popModal, Dialogs, State

LEMMA FadeOutIsWhole ==
  ASSUME NEW d, Whole(d)
  PROVE  Whole(_fadeOutDialog(d))
BY DEF Whole, _fadeOutDialog, popModal, Dialogs, State

LEMMA EndsAreWhole ==
  ASSUME NEW d, Whole(d)
  PROVE  /\ "open" \in d.group => Whole(Opened(d))
         /\ "close" \in d.group => Whole(_closeComplete(d))
         /\ Whole(FadedOut(d))
BY DEF Whole, Opened, _closeComplete, FadedOut, Ended, Dialogs, State

-----------------------------------------------------------------------------
(* The signals of the buttons and of the countdown.                        *)
LEMMA Signals ==
  /\ Signal = {"ConfirmedLogout", "ConfirmedReboot", "ConfirmedShutdown"}
  /\ \A t \in Type : ToSet(DialogContent[t]) \subseteq Signal
  /\ \A t \in Type : Last(DialogContent[t]) \in Signal
<1>1. /\ ToSet(DialogContent["LOGOUT"]) = {"ConfirmedLogout"}
      /\ ToSet(DialogContent["SHUTDOWN"]) = {"ConfirmedReboot", "ConfirmedShutdown"}
      /\ ToSet(DialogContent["UPGRADE_RESTART"]) = {"ConfirmedReboot"}
  BY DEF DialogContent, ToSet
<1>2. /\ Last(DialogContent["LOGOUT"]) = "ConfirmedLogout"
      /\ Last(DialogContent["SHUTDOWN"]) = "ConfirmedShutdown"
      /\ Last(DialogContent["UPGRADE_RESTART"]) = "ConfirmedReboot"
  BY DEF DialogContent, Last
<1> HIDE DEF DialogContent
<1>3. Signal = {"ConfirmedLogout", "ConfirmedReboot", "ConfirmedShutdown"}
  BY <1>1 DEF Signal, Type
<1> QED BY <1>1, <1>2, <1>3 DEF Type


-----------------------------------------------------------------------------
(* What the callbacks change, World, and what only the session manager,    *)
(* the inhibitors and the login manager do.                                *)
Worlds ==
  [d: {d \in Dialogs : Whole(d)}, timers: SUBSET (1..asked), id: 0..asked,
   confirming: Seq(Signal), offline: Seq(Signal), said: SUBSET (Signal \cup {"Closed", "Canceled"})]

Lists ==
  /\ asked \in 0..MaxOpen /\ _type \in Type \cup {"unknown"}
  /\ buttons \subseteq Signal /\ _checkBox \in {"hidden", "off", "on"}
  /\ _applications \subseteq 1..asked /\ applicationList \subseteq 1..asked
  /\ loading \subseteq 1..asked /\ opening \subseteq 1..asked
  /\ _sessions \in 0..asked /\ listing \in 0..asked
  /\ ListsWhatInhibits /\ AnsweredOnce

LEMMA SoundIsBoth == DialogSound <=> World \in Worlds /\ Lists
<1>1. World \in Worlds <=>
        /\ dialog \in Dialogs /\ Whole(dialog)
        /\ timers \subseteq 1..asked /\ _timerId \in 0..asked
        /\ confirming \in Seq(Signal) /\ offline \in Seq(Signal)
        /\ said \subseteq Signal \cup {"Closed", "Canceled"}
  BY DEF World, Worlds
<1>2. UNION {_applications, applicationList, loading, timers, opening} \subseteq 1..asked <=>
        /\ _applications \subseteq 1..asked /\ applicationList \subseteq 1..asked
        /\ loading \subseteq 1..asked /\ timers \subseteq 1..asked /\ opening \subseteq 1..asked
  OBVIOUS
<1>3. dialog \in Dialogs /\ Whole(dialog) <=>
        dialog \in Dialogs /\ ClosedHasNoModal /\ OpenedStaysOpen
  BY DEF Whole, ClosedHasNoModal, OpenedStaysOpen
<1> QED BY <1>1, <1>2, <1>3 DEF DialogSound, TypeOK, Lists

LEMMA BecomesSound ==
  ASSUME DialogSound, NEW w \in Worlds, Becomes(w), UNCHANGED askVars
  PROVE  DialogSound'
<1>1. Lists
  BY SoundIsBoth
<1>2. Lists'
  BY <1>1 DEF Lists, askVars, listVars, ListsWhatInhibits, AnsweredOnce
<1>3. World' = w
  BY DEF Becomes, World, Worlds
<1>4. Worlds' = Worlds
  BY DEF Worlds, askVars
<1>5. (DialogSound <=> World \in Worlds /\ Lists)'
  BY SoundIsBoth, PTL
<1> QED BY <1>2, <1>3, <1>4, <1>5

(* Each callback maps worlds to worlds.                                    *)
LEMMA EmitIsWorld ==
  ASSUME NEW w \in Worlds, NEW s \in Signal \cup {"Closed", "Canceled"}
  PROVE  Emit(w, s) \in Worlds
BY DEF Emit, Worlds

LEMMA StopIsWorld ==
  ASSUME NEW w \in Worlds, asked \in Nat
  PROVE  _stopTimer(w) \in Worlds /\ [w EXCEPT !.id = 0] \in Worlds
<1>1. 0 \in 0..asked
  OBVIOUS
<1>2. w.timers \ {w.id} \in SUBSET (1..asked)
  BY DEF Worlds
<1> DEFINE ids == 0..asked
<1> HIDE DEF ids
<1>3. 0 \in ids
  BY <1>1 DEF ids
<1>4. Worlds = [d: {d \in Dialogs : Whole(d)}, timers: SUBSET (1..asked), id: ids,
                confirming: Seq(Signal), offline: Seq(Signal),
                said: SUBSET (Signal \cup {"Closed", "Canceled"})]
  BY DEF ids, Worlds
<1> QED BY <1>2, <1>3, <1>4 DEF _stopTimer

LEMMA DialogIsWorld ==
  ASSUME NEW w \in Worlds, NEW d, Whole(d)
  PROVE  [w EXCEPT !.d = d] \in Worlds
BY DEF Worlds, Whole

LEMMA CloseIsWorld ==
  ASSUME NEW w \in Worlds
  PROVE  [w EXCEPT !.d = close(@)] \in Worlds
<1>1. Whole(w.d)
  BY DEF Worlds
<1> QED BY <1>1, CloseIsWhole, DialogIsWorld

LEMMA ConfirmedIsWorld ==
  ASSUME NEW w \in Worlds, NEW s \in Signal, asked \in Nat
  PROVE  Confirmed(w, s) \in Worlds
<1>1. Whole(w.d)
  BY DEF Worlds
<1>2. [w EXCEPT !.d = _fadeOutDialog(@)] \in Worlds
  BY <1>1, FadeOutIsWhole, DialogIsWorld
<1> QED BY <1>2, StopIsWorld, EmitIsWorld DEF Confirmed

LEMMA ConfirmIsWorld ==
  ASSUME NEW w \in Worlds, NEW s \in Signal, asked \in Nat
  PROVE  _confirm(w, s) \in Worlds
<1>1. CASE AtOnce(s)
  BY <1>1, ConfirmedIsWorld DEF _confirm
<1>2. CASE ~AtOnce(s)
  <2> DEFINE r == IF _checkBox = "on" THEN "ConfirmedReboot" ELSE s
  <2>1. r \in Signal
    BY Signals
  <2>2. w.offline \in Seq(Signal)
    BY DEF Worlds
  <2>3. Append(w.offline, r) \in Seq(Signal)
    BY <2>1, <2>2
  <2>4. [w EXCEPT !.offline = Append(@, r)] \in Worlds
    BY <2>3 DEF Worlds
  <2> QED BY <1>2, <2>4 DEF _confirm
<1> QED BY <1>1, <1>2


-----------------------------------------------------------------------------
(* The callbacks and the calls of the user.                                *)
LEMMA SoundFacts ==
  ASSUME DialogSound
  PROVE  World \in Worlds /\ Lists /\ asked \in Nat
BY SoundIsBoth DEF Lists

LEMMA CloseKeeps == DialogSound /\ Close => DialogSound'
<1> SUFFICES ASSUME DialogSound, Close PROVE DialogSound'
  OBVIOUS
<1>1. Emit([World EXCEPT !.d = close(@)], "Closed") \in Worlds
  BY SoundFacts, CloseIsWorld, EmitIsWorld
<1> QED BY <1>1, BecomesSound DEF Close

LEMMA CancelKeeps == DialogSound /\ cancel => DialogSound'
<1> SUFFICES ASSUME DialogSound, cancel PROVE DialogSound'
  OBVIOUS
<1>1. Emit(_stopTimer(World), "Canceled") \in Worlds
  BY SoundFacts, StopIsWorld, EmitIsWorld
<1>2. [Emit(_stopTimer(World), "Canceled") EXCEPT !.d = close(@)] \in Worlds
  BY <1>1, CloseIsWorld
<1>3. Emit([Emit(_stopTimer(World), "Canceled") EXCEPT !.d = close(@)], "Closed") \in Worlds
  BY <1>2, EmitIsWorld
<1> QED BY <1>3, BecomesSound DEF cancel

LEMMA PressKeeps == DialogSound /\ PressConfirm => DialogSound'
<1> SUFFICES ASSUME DialogSound, NEW s \in buttons,
                    Becomes([World EXCEPT !.d = close(@), !.confirming = Append(@, s)]),
                    UNCHANGED askVars
             PROVE  DialogSound'
  BY DEF PressConfirm
<1>1. [World EXCEPT !.d = close(@)] \in Worlds
  BY SoundFacts, CloseIsWorld
<1>2. confirming \in Seq(Signal) /\ s \in Signal
  BY DEF DialogSound, TypeOK
<1>3. Append(confirming, s) \in Seq(Signal)
  BY <1>2
<1>4. [World EXCEPT !.d = close(@), !.confirming = Append(@, s)] \in Worlds
  BY <1>1, <1>3 DEF World, Worlds
<1> QED BY <1>4, BecomesSound

LEMMA CloseEndsKeeps == DialogSound /\ CloseEnds => DialogSound'
<1> SUFFICES ASSUME DialogSound, CloseEnds PROVE DialogSound'
  OBVIOUS
<1> DEFINE now == {s \in ToSet(confirming) : AtOnce(s)}
           L == {i \in DOMAIN confirming : ~AtOnce(confirming[i])}
           late == Cardinality(L)
           asks == IF _checkBox = "off" THEN confirming
                   ELSE [i \in 1..late |-> "ConfirmedReboot"]
           w == [World EXCEPT !.d = _closeComplete(@), !.confirming = <<>>, !.said = @ \cup now,
                              !.offline = @ \o asks]
<1>0. /\ dialog \in Dialogs /\ confirming \in Seq(Signal) /\ offline \in Seq(Signal)
      /\ said \subseteq Signal \cup {"Closed", "Canceled"}
  BY DEF DialogSound, TypeOK
<1>1. now \subseteq Signal
  BY <1>0 DEF ToSet
<1>2. late \in Nat
  <2>1. Len(confirming) \in Nat /\ DOMAIN confirming = 1..Len(confirming)
    BY <1>0
  <2>2. IsFiniteSet(DOMAIN confirming)
    BY <2>1, FS_Interval
  <2>3. L \in SUBSET (DOMAIN confirming)
    OBVIOUS
  <2> HIDE DEF L
  <2>4. IsFiniteSet(L)
    BY <2>2, <2>3, FS_Subset
  <2> QED BY <2>4, FS_CardinalityType
<1>3. asks \in Seq(Signal)
  <2> HIDE DEF late
  <2>1. "ConfirmedReboot" \in Signal
    BY Signals
  <2>2. [i \in 1..late |-> "ConfirmedReboot"] \in Seq(Signal)
    BY <1>2, <2>1
  <2> QED BY <1>0, <2>2
<1>4. offline \o asks \in Seq(Signal)
  <2> HIDE DEF asks
  <2> QED BY <1>0, <1>3
<1>5. Whole(_closeComplete(dialog))
  BY WholeDialog, EndsAreWhole DEF CloseEnds
<1>6. <<>> \in Seq(Signal)
  OBVIOUS
<1>7. w \in Worlds
  <2> HIDE DEF asks, now
  <2>1. World \in Worlds
    BY SoundFacts
  <2>2. _closeComplete(dialog) \in Dialogs
    BY <1>5 DEF Whole
  <2> QED BY <2>1, <2>2, <1>0, <1>1, <1>4, <1>5, <1>6 DEF World, Worlds
<1>8. _stopTimer(w) \in Worlds
  <2> HIDE DEF w
  <2> QED BY <1>7, SoundFacts, StopIsWorld
<1>9. Becomes(IF now = {} THEN w ELSE _stopTimer(w)) /\ UNCHANGED askVars
  BY DEF CloseEnds
<1>10. (IF now = {} THEN w ELSE _stopTimer(w)) \in Worlds
  <2> HIDE DEF w, now
  <2> QED BY <1>7, <1>8
<1> HIDE DEF w, now
<1> QED BY <1>9, <1>10, BecomesSound

LEMMA ExpireKeeps == DialogSound /\ Expire => DialogSound'
<1> SUFFICES ASSUME DialogSound, Expire PROVE DialogSound'
  OBVIOUS
<1>1. PICK t : LET w == [World EXCEPT !.timers = @ \ {t}]
               IN Becomes(IF _type \notin Type THEN w
                          ELSE [_confirm(w, Last(DialogContent[_type])) EXCEPT !.id = 0])
  BY DEF Expire
<1> DEFINE w == [World EXCEPT !.timers = @ \ {t}]
           c == _confirm(w, Last(DialogContent[_type]))
<1>2. w \in Worlds
  BY SoundFacts DEF Worlds
<1>3. _type \in Type => [c EXCEPT !.id = 0] \in Worlds
  <2> HAVE _type \in Type
  <2> HIDE DEF w
  <2>1. c \in Worlds
    BY <1>2, Signals, SoundFacts, ConfirmIsWorld
  <2> HIDE DEF c
  <2> QED BY <2>1, SoundFacts, StopIsWorld
<1>4. (IF _type \notin Type THEN w ELSE [c EXCEPT !.id = 0]) \in Worlds
  <2> HIDE DEF w, c
  <2> QED BY <1>2, <1>3
<1>5. Becomes(IF _type \notin Type THEN w ELSE [c EXCEPT !.id = 0]) /\ UNCHANGED askVars
  BY <1>1 DEF Expire
<1> HIDE DEF w, c
<1> QED BY <1>4, <1>5, BecomesSound

LEMMA OfflineKeeps == DialogSound /\ OfflineAnswer => DialogSound'
<1> SUFFICES ASSUME DialogSound, OfflineAnswer PROVE DialogSound'
  OBVIOUS
<1>1. offline \in Seq(Signal) /\ offline # <<>>
  BY DEF DialogSound, TypeOK, OfflineAnswer
<1>2. Tail(offline) \in Seq(Signal) /\ Head(offline) \in Signal
  BY <1>1
<1>3. [World EXCEPT !.offline = Tail(@)] \in Worlds
  BY <1>2, SoundFacts DEF World, Worlds
<1>4. Confirmed([World EXCEPT !.offline = Tail(@)], Head(offline)) \in Worlds
  BY <1>2, <1>3, SoundFacts, ConfirmedIsWorld
<1> QED BY <1>4, BecomesSound DEF OfflineAnswer

-----------------------------------------------------------------------------
(* The tweens that change only the dialog.                                 *)
LEMMA EndsKeep == DialogSound /\ (OpenEnds \/ FadeEnds) => DialogSound'
<1> SUFFICES ASSUME DialogSound, OpenEnds \/ FadeEnds PROVE DialogSound'
  OBVIOUS
<1>1. Whole(dialog')
  BY WholeDialog, EndsAreWhole DEF OpenEnds, FadeEnds
<1>2. /\ opening' \subseteq opening
      /\ UNCHANGED <<asked, _type, buttons, _checkBox, listVars, timers, _timerId, confirming,
                     offline, said>>
  BY DEF OpenEnds, FadeEnds, askVars
<1>3. ClosedHasNoModal' /\ OpenedStaysOpen' /\ dialog' \in Dialogs
  BY <1>1 DEF Whole, ClosedHasNoModal, OpenedStaysOpen
<1>4. TypeOK'
  BY <1>2, <1>3 DEF DialogSound, TypeOK, listVars
<1> QED BY <1>2, <1>3, <1>4 DEF DialogSound, ListsWhatInhibits, AnsweredOnce, listVars

-----------------------------------------------------------------------------
(* What changes the lists.                                                 *)
LEMMA OpenKeeps == DialogSound /\ OpenAsync => DialogSound'
<1> SUFFICES ASSUME DialogSound, OpenAsync PROVE DialogSound'
  OBVIOUS
<1> DEFINE n == asked + 1
<1>1. PICK type \in Type, box \in {"hidden", "off", "on"}, inhibited \in BOOLEAN, refused \in BOOLEAN :
        /\ asked' = n /\ _type' = type
        /\ buttons' = ToSet(DialogContent[type]) /\ _checkBox' = box
        /\ _applications' = IF inhibited THEN {n} ELSE {}
        /\ loading' = loading \cup _applications'
        /\ applicationList' = {} /\ _sessions' = 0
        /\ listing' = IF type \in ShowOtherSessions THEN listing + 1 ELSE listing
        /\ dialog' = open(dialog, refused)
        /\ timers' = (IF Opens(dialog, refused) /\ type \notin DisableTimer THEN timers \cup {n}
                      ELSE timers)
        /\ _timerId' = (IF Opens(dialog, refused) /\ type \notin DisableTimer THEN n
                        ELSE _timerId)
        /\ opening' = (IF Opens(dialog, refused) THEN opening \cup {n} ELSE opening)
        /\ said' = {}
  BY DEF OpenAsync
<1>2. UNCHANGED <<confirming, offline>> /\ asked < MaxOpen
  BY DEF OpenAsync
<1>3. Lists /\ asked \in Nat /\ MaxOpen \in Nat
  BY SoundFacts, MaxAssumption
<1>4. Whole(dialog')
  BY <1>1, WholeDialog, OpenIsWhole
<1>5. ClosedHasNoModal' /\ OpenedStaysOpen' /\ dialog' \in Dialogs
  BY <1>4 DEF Whole, ClosedHasNoModal, OpenedStaysOpen
<1>6. asked' \in 0..MaxOpen /\ 1..asked \subseteq 1..asked' /\ n \in 1..asked'
  BY <1>1, <1>2, <1>3
<1>7. /\ timers \subseteq 1..asked /\ _timerId \in 0..asked
      /\ confirming \in Seq(Signal) /\ offline \in Seq(Signal)
  BY DEF DialogSound, TypeOK
<1>8. TypeOK'
  <2>0. /\ timers' \subseteq timers \cup {n} /\ _timerId' \in {_timerId, n}
        /\ opening' \subseteq opening \cup {n}
    BY <1>1
  <2>1. /\ _applications' \subseteq 1..asked' /\ loading' \subseteq 1..asked'
        /\ opening' \subseteq 1..asked' /\ timers' \subseteq 1..asked'
        /\ applicationList' \subseteq 1..asked'
    BY <1>1, <1>3, <1>6, <1>7, <2>0 DEF Lists
  <2>2. _timerId' \in 0..asked' /\ _sessions' \in 0..asked' /\ listing' \in 0..asked'
    BY <1>1, <1>3, <1>6, <1>7, <2>0 DEF Lists
  <2>3. buttons' \subseteq Signal
    BY <1>1, Signals
  <2>4. UNION {_applications', applicationList', loading', timers', opening'} \subseteq 1..asked'
    BY <2>1
  <2> QED BY <1>1, <1>2, <1>5, <1>6, <1>7, <2>2, <2>3, <2>4 DEF TypeOK
<1>9. ListsWhatInhibits' /\ AnsweredOnce'
  BY <1>1, <1>3 DEF Lists, ListsWhatInhibits, AnsweredOnce
<1> QED BY <1>5, <1>8, <1>9 DEF DialogSound

LEMMA AskUnknownKeeps == DialogSound /\ AskUnknown => DialogSound'
<1> SUFFICES ASSUME DialogSound, AskUnknown PROVE DialogSound'
  OBVIOUS
<1>1. asked \in Nat /\ MaxOpen \in Nat /\ listing \in 0..asked /\ _timerId \in 0..asked
  BY SoundFacts, MaxAssumption DEF DialogSound, TypeOK
<1>2. asked' = asked + 1 /\ asked' \in 0..MaxOpen /\ 1..asked \subseteq 1..asked'
  BY <1>1 DEF AskUnknown
<1>3. TypeOK'
  <2>1. UNION {loading, timers, opening} \subseteq 1..asked
    BY DEF DialogSound, TypeOK
  <2>2. UNION {_applications', applicationList', loading', timers', opening'} \subseteq 1..asked'
    BY <2>1, <1>2 DEF AskUnknown
  <2>3. _sessions' \in 0..asked' /\ listing' \in 0..asked' /\ _timerId' \in 0..asked'
    BY <1>1, <1>2 DEF AskUnknown
  <2> QED BY <1>2, <2>2, <2>3 DEF AskUnknown, DialogSound, TypeOK
<1>4. AnsweredOnce'
  BY <1>1, <1>2 DEF AskUnknown, DialogSound, AnsweredOnce
<1> QED BY <1>3, <1>4
        DEF AskUnknown, DialogSound, ClosedHasNoModal, OpenedStaysOpen, ListsWhatInhibits

LEMMA ToggleKeeps == DialogSound /\ ToggleCheckBox => DialogSound'
BY DEF ToggleCheckBox, DialogSound, TypeOK, ClosedHasNoModal, OpenedStaysOpen,
       ListsWhatInhibits, AnsweredOnce, listVars

LEMMA LoadedKeeps == DialogSound /\ _onInhibitorLoaded => DialogSound'
<1> SUFFICES ASSUME DialogSound, NEW n \in loading, NEW isApp \in BOOLEAN,
               /\ loading' = loading \ {n}
               /\ applicationList' = IF isApp THEN applicationList \cup ({n} \cap _applications)
                                     ELSE applicationList
               /\ _applications' = IF isApp THEN _applications ELSE _applications \ {n}
               /\ UNCHANGED <<dialog, asked, _type, buttons, _checkBox, opening, _sessions,
                              listing, timers, _timerId, confirming, offline, said>>
             PROVE  DialogSound'
  BY DEF _onInhibitorLoaded
<1>1. TypeOK'
  BY DEF DialogSound, TypeOK
<1>2. n \notin applicationList
  BY DEF DialogSound, AnsweredOnce
<1>3. ListsWhatInhibits' /\ AnsweredOnce'
  BY <1>2 DEF DialogSound, ListsWhatInhibits, AnsweredOnce
<1> QED BY <1>1, <1>3 DEF DialogSound, ClosedHasNoModal, OpenedStaysOpen

LEMMA SessionsKeep == DialogSound /\ SessionsLoaded => DialogSound'
<1> SUFFICES ASSUME DialogSound, SessionsLoaded PROVE DialogSound'
  OBVIOUS
<1>1. asked \in Nat /\ listing \in 0..asked /\ _sessions \in 0..asked /\ _sessions + listing <= asked
  BY SoundFacts DEF DialogSound, TypeOK, AnsweredOnce
<1>2. listing' \in 0..asked /\ _sessions' \in 0..asked /\ _sessions' + listing' <= asked
  BY <1>1 DEF SessionsLoaded
<1>3. TypeOK'
  BY <1>2 DEF SessionsLoaded, DialogSound, TypeOK
<1> QED BY <1>2, <1>3 DEF SessionsLoaded, DialogSound, ClosedHasNoModal, OpenedStaysOpen,
                          ListsWhatInhibits, AnsweredOnce

-----------------------------------------------------------------------------
LEMMA InitSound == Init => DialogSound
<1> SUFFICES ASSUME Init PROVE DialogSound
  OBVIOUS
<1>1. asked = 0 /\ MaxOpen \in Nat /\ 0 \in 0..MaxOpen
  BY MaxAssumption DEF Init
<1>2. <<>> \in Seq(Signal)
  OBVIOUS
<1> QED BY <1>1, <1>2 DEF Init, DialogSound, TypeOK, ClosedHasNoModal, OpenedStaysOpen,
          ListsWhatInhibits, AnsweredOnce, NewDialog, Dialogs, State

LEMMA NextSound == DialogSound /\ [Next]_vars => DialogSound'
<1> SUFFICES ASSUME DialogSound, [Next]_vars PROVE DialogSound'
  OBVIOUS
<1>1. CASE UNCHANGED vars
  BY <1>1 DEF vars, DialogSound, TypeOK, ClosedHasNoModal, OpenedStaysOpen,
              ListsWhatInhibits, AnsweredOnce
<1>2. CASE AskUnknown \/ OpenAsync \/ ToggleCheckBox
  BY <1>2, AskUnknownKeeps, OpenKeeps, ToggleKeeps
<1>3. CASE Close \/ cancel \/ PressConfirm
  BY <1>3, CloseKeeps, CancelKeeps, PressKeeps
<1>4. CASE OpenEnds \/ CloseEnds \/ FadeEnds
  BY <1>4, EndsKeep, CloseEndsKeeps
<1>5. CASE Expire \/ OfflineAnswer
  BY <1>5, ExpireKeeps, OfflineKeeps
<1>6. CASE _onInhibitorLoaded \/ SessionsLoaded
  BY <1>6, LoadedKeeps, SessionsKeep
<1> QED BY <1>1, <1>2, <1>3, <1>4, <1>5, <1>6 DEF Next

(* However the requests, the user, the countdowns, the tweens and the late *)
(* answers of PackageKit, the inhibitors and the login manager interleave, *)
(* a dialog that is closed or closing has no modal, one that was opened    *)
(* again is not closed by the old animation, only inhibitors of the last   *)
(* request are listed, and no answer counts twice.                         *)
THEOREM DialogIsSound == Spec => []DialogSound
<1> QED BY InitSound, NextSound, PTL DEF Spec

=============================================================================
