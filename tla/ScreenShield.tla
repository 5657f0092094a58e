---------------------------- MODULE ScreenShield ----------------------------
(***************************************************************************)
(* The screen shield (js/ui/screenShield.js) of a user session with its    *)
(* unlock dialog (js/ui/unlockDialog.js): the session becomes idle, is     *)
(* locked, put to sleep and unlocked at any moment of the animations of    *)
(* the curtain, of the two lightboxes and of the deactivation; the shell   *)
(* may crash and be started again.                                         *)
(*                                                                         *)
(* A tween of no time ends in the call that adds it.  Abstracted: the      *)
(* arrows, the backgrounds and the notifications of the curtain; the       *)
(* verification itself (AuthPrompt).  Not modelled: the login screen       *)
(* (_isGreeter), a session that is not the active one.                     *)
(***************************************************************************)
EXTENDS Naturals, Sequences, SequencesExt

CONSTANT MaxPending    \* bound on the timers and calls of one kind on the way

MaxPendingAssumption == MaxPending \in Nat \ {0}

VARIABLES
  _lockScreenState,    \* of the curtain
  curtain,             \* its tween: "none", "hide", "restore", or "show", and
  fadeToBlack,         \* whether the screen goes black after "show"
  dragging,
  dialog,              \* _dialog
  finishing,           \* deactivations that wait for the messages of the dialog
  zoom,                \* the tween of the deactivation
  _isModal, _isActive, _isLocked,
  actorVisible,
  long, short,         \* the lightboxes
  watch,               \* _becameActiveId
  beats,               \* how many timers will start the short fade
  lockTimeout,         \* _lockTimeoutId
  mode,                \* the session modes above that of the user
  _inhibitor, inhibiting,
  lockEnabled,         \* the setting
  config,              \* what does not change
  wasLocked,           \* the runtime state that outlives a crash
  relock               \* lockIfWasLocked will lock

curtainVars == <<_lockScreenState, curtain, fadeToBlack, dialog, finishing, zoom, _isModal,
                 _isActive, _isLocked, actorVisible, long, short, watch, beats, lockTimeout,
                 mode, _inhibitor, inhibiting, wasLocked>>
envVars == <<lockEnabled, config, relock>>
vars == <<curtainVars, dragging, envVars>>

Lightbox == {"hidden", "fading", "shown"}
NoDialog == [there |-> FALSE, modal |-> FALSE, verified |-> FALSE]
Modes == {<<>>, <<"unlock-dialog">>, <<"unlock-dialog", "lock-screen">>}
Top(m) == IF m = <<>> THEN "user" ELSE Last(m)

World ==
  [state |-> _lockScreenState, curtain |-> curtain, toBlack |-> fadeToBlack, dialog |-> dialog,
   finishing |-> finishing, zoom |-> zoom, modal |-> _isModal, active |-> _isActive,
   locked |-> _isLocked, visible |-> actorVisible, long |-> long, short |-> short,
   watch |-> watch, beats |-> beats, timeout |-> lockTimeout, mode |-> mode,
   inhibitor |-> _inhibitor, inhibiting |-> inhibiting, was |-> wasLocked,
   late |-> FALSE, refused |-> FALSE]

(* Whether the messages of the dialog are late, and the modal refused.     *)
Answering(late, refused) == [World EXCEPT !.late = late, !.refused = refused]
Worlds ==
  {Answering(late, refused) :
     late \in {l \in BOOLEAN : l => dialog.there /\ finishing = {}},
     refused \in {r \in BOOLEAN : r => ~_isModal}}

Becomes(w) ==
  /\ w.beats <= MaxPending /\ w.inhibiting <= MaxPending
  /\ _lockScreenState' = w.state /\ curtain' = w.curtain /\ fadeToBlack' = w.toBlack
  /\ dialog' = w.dialog /\ finishing' = w.finishing /\ zoom' = w.zoom
  /\ _isModal' = w.modal /\ _isActive' = w.active /\ _isLocked' = w.locked
  /\ actorVisible' = w.visible /\ long' = w.long /\ short' = w.short
  /\ watch' = w.watch /\ beats' = w.beats /\ lockTimeout' = w.timeout
  /\ mode' = w.mode /\ _inhibitor' = w.inhibitor /\ inhibiting' = w.inhibiting
  /\ wasLocked' = w.was

Steps(w) == Becomes(w) /\ UNCHANGED <<dragging, envVars>>

-----------------------------------------------------------------------------
(* Mutant of _syncInhibitor: it closes what it holds before it asks.       *)
ClosesFirst(w) ==
  IF ~w.active /\ lockEnabled /\ ~config.disabled
    THEN [w EXCEPT !.inhibiting = @ + 1, !.inhibitor = FALSE]
    ELSE [w EXCEPT !.inhibitor = FALSE]
_syncInhibitor(w) ==
  IF ~w.active /\ lockEnabled /\ ~config.disabled
    THEN [w EXCEPT !.inhibiting = @ + 1]
    ELSE [w EXCEPT !.inhibitor = FALSE]

_setActive(w, active) == _syncInhibitor([w EXCEPT !.active = active])
_completeLockScreenShown(w) == _setActive(w, TRUE)

_becomeModal(w) == [w EXCEPT !.modal = @ \/ ~w.refused]

popMode(w, m) == IF Top(w.mode) = m THEN [w EXCEPT !.mode = Front(@)] ELSE w
pushMode(w, m) == [w EXCEPT !.mode = Append(@, m)]

_hideLockScreenComplete(w) ==
  [popMode(w, "lock-screen") EXCEPT !.state = "HIDDEN", !.curtain = "none"]

_hideLockScreen(w, animate) ==
  IF w.state = "HIDDEN" THEN w
  ELSE IF animate THEN [w EXCEPT !.state = "HIDING", !.curtain = "hide"]
  ELSE _hideLockScreenComplete(w)

(* Lightbox.hide and the end of its life                                   *)
LightboxesHidden(w) == [w EXCEPT !.long = "hidden", !.short = "hidden"]

(* Mutant of _completeDeactivate: the session stays locked.                *)
CompleteLocked(w) ==
  _setActive([LightboxesHidden(w) EXCEPT !.dialog = NoDialog, !.visible = FALSE,
                !.watch = FALSE, !.timeout = FALSE, !.was = FALSE, !.zoom = FALSE], FALSE)
_completeDeactivate(w) ==
  [_setActive([LightboxesHidden(w) EXCEPT !.dialog = NoDialog, !.visible = FALSE,
                 !.watch = FALSE, !.timeout = FALSE, !.was = FALSE, !.zoom = FALSE], FALSE)
     EXCEPT !.locked = FALSE]

_continueDeactivate(w, animate) ==
  LET hidden == popMode(popMode(_hideLockScreen(w, animate), "lock-screen"), "unlock-dialog")
      bare == [hidden EXCEPT !.dialog.modal = FALSE, !.modal = FALSE]
  IN  IF animate THEN [bare EXCEPT !.zoom = TRUE] ELSE _completeDeactivate(bare)

(* finish() of the dialog waits for its messages.                          *)
deactivate(w, animate) ==
  IF w.dialog.there /\ w.late THEN [w EXCEPT !.finishing = @ \cup {animate}]
  ELSE _continueDeactivate(w, animate)

(* A session mode without locking, or a dialog without the modal, ends it. *)
HasUnlockDialog(w) ==
  w.dialog.there \/ (Top(w.mode) # "user" /\ (w.modal \/ ~w.refused))
_ensureUnlockDialog(w) ==
  IF w.dialog.there THEN w
  ELSE IF Top(w.mode) = "user" THEN deactivate(w, TRUE)
  ELSE LET made == [w EXCEPT !.dialog = [there |-> TRUE, modal |-> HasUnlockDialog(w),
                                         verified |-> FALSE]]
       IN IF HasUnlockDialog(w) THEN made ELSE deactivate(made, TRUE)

_liftShield(w) ==
  IF ~w.locked THEN deactivate(w, TRUE)
  ELSE IF HasUnlockDialog(w) THEN _hideLockScreen(_ensureUnlockDialog(w), TRUE)
  ELSE _ensureUnlockDialog(w)

(* Lightbox.show, which shows at once without a time                       *)
_activateFade(w, box, state) == [w EXCEPT ![box] = state, !.watch = TRUE]

_lockScreenShown(w, animate) ==
  LET shown == [w EXCEPT !.dialog = NoDialog, !.state = "SHOWN", !.curtain = "none"]
  IN  IF w.toBlack /\ animate THEN [shown EXCEPT !.beats = @ + 1]
      ELSE IF w.toBlack
        THEN _completeLockScreenShown(_activateFade(shown, "short", "shown"))
      ELSE _completeLockScreenShown(shown)

_resetLockScreen(w, animate, toBlack) ==
  LET showing == [w EXCEPT !.state = "SHOWING", !.toBlack = toBlack]
      shown == IF animate THEN [showing EXCEPT !.curtain = "show"]
               ELSE _lockScreenShown(showing, FALSE)
  IN  IF w.state # "HIDDEN" THEN w
      ELSE IF Top(w.mode) = "lock-screen" THEN shown
      ELSE pushMode(shown, "lock-screen")

activate(w, animate) ==
  LET modal == IF Top(w.mode) = "user" THEN pushMode(w, "unlock-dialog") ELSE w
  IN  _resetLockScreen([modal EXCEPT !.visible = TRUE, !.was = TRUE], animate, TRUE)

lock(w, animate) ==
  LET v == _becomeModal(w)
  IN  IF config.disabled \/ ~v.modal THEN w
      ELSE activate([v EXCEPT !.locked = config.password], animate)

(* The dialog fails or is cancelled: the curtain comes down.  cancel()     *)
(* does nothing once the user is verified; the dialog is destroyed.        *)
_onUnlockFailed(w) == _resetLockScreen(w, TRUE, FALSE)
_maybeCancelDialog(w) ==
  IF ~w.dialog.there THEN w
  ELSE [(IF w.dialog.verified THEN w ELSE _onUnlockFailed(w)) EXCEPT !.dialog = NoDialog]

-----------------------------------------------------------------------------
(* The presence says that the session is idle.                             *)
_onStatusChanged ==
  /\ \E w \in Worlds :
       LET c == _maybeCancelDialog(w)
           v == _becomeModal(c)
           timed == [v EXCEPT !.timeout = @ \/ (lockEnabled /\ ~v.locked)]
       IN Steps(IF c.long # "hidden" \/ c.active THEN c
                ELSE IF ~v.modal THEN c
                ELSE _activateFade(timed, "long", "fading"))

LongShown ==
  /\ long = "fading"
  /\ Steps(activate([World EXCEPT !.long = "shown"], FALSE))

_onShortLightboxShown ==
  /\ short = "fading"
  /\ Steps(_completeLockScreenShown([World EXCEPT !.short = "shown"]))

(* The beat after a curtain that is to go black.                           *)
BeatEnds ==
  /\ beats > 0
  /\ Steps(_activateFade([World EXCEPT !.beats = @ - 1], "short", "fading"))

(* Also called by notifications and by the end of a sleep.                 *)
_onUserBecameActive ==
  /\ watch
  /\ \E w \in Worlds :
       LET v == [w EXCEPT !.watch = FALSE]
       IN Steps(IF v.active \/ v.locked THEN LightboxesHidden(v) ELSE deactivate(v, FALSE))

LockTimeout ==
  /\ lockTimeout
  /\ \E w \in Worlds : Steps(lock([w EXCEPT !.timeout = FALSE], FALSE))

(* The user, logind (Lock) or D-Bus locks.                                 *)
Lock == \E w \in Worlds, animate \in BOOLEAN : Steps(lock(w, animate))

(* The machine is about to sleep.                                          *)
_prepareForSleep ==
  lockEnabled /\ \E w \in Worlds : Steps(lock(w, TRUE))

(* SetActive(true) on D-Bus, which neither locks nor becomes modal; and    *)
(* SetActive(false), or Unlock of logind.                                  *)
SetActive == Steps(activate(World, TRUE))
Unlock ==
  /\ (_isModal \/ actorVisible \/ mode # <<>>)
  /\ \E w \in Worlds : Steps(deactivate(w, FALSE))

FinishEnds ==
  /\ \E animate \in finishing :
       Steps(_continueDeactivate([World EXCEPT !.finishing = @ \ {animate}], animate))

ZoomEnds == zoom /\ Steps(_completeDeactivate(World))

(* A key or a scroll on the curtain; a smartcard.                          *)
Lift ==
  /\ (_lockScreenState = "SHOWN" \/ _isLocked)
  /\ \E w \in Worlds : Steps(_liftShield(w))

(* A drag that catches the curtain as it rises is not modelled.            *)
_onDragBegin ==
  /\ ~dragging /\ _lockScreenState \in {"SHOWING", "SHOWN"} /\ actorVisible
  /\ \E w \in Worlds :
       LET v == [w EXCEPT !.state = "HIDING", !.curtain = "none"]
       IN Becomes(IF v.locked THEN _ensureUnlockDialog(v) ELSE v)
  /\ dragging' = TRUE /\ UNCHANGED envVars

_onDragEnd ==
  /\ dragging
  /\ \E w \in Worlds, far \in BOOLEAN :
       Becomes(IF w.state # "HIDING" THEN w
               ELSE IF far THEN _liftShield(w)
               ELSE _maybeCancelDialog([w EXCEPT !.curtain = "restore"]))
  /\ dragging' = FALSE /\ UNCHANGED envVars

CurtainEnds ==
  /\ curtain # "none"
  /\ Steps(CASE curtain = "hide" -> _hideLockScreenComplete(World)
             [] curtain = "restore" -> [World EXCEPT !.state = "SHOWN", !.curtain = "none"]
             [] curtain = "show" -> _lockScreenShown(World, TRUE))

(* The dialog: the user is verified, or fails, cancels or is away.         *)
Verified ==
  /\ dialog.there /\ ~dialog.verified
  /\ Steps([World EXCEPT !.dialog.verified = TRUE])

DialogFails ==
  /\ dialog.there /\ ~dialog.verified
  /\ Steps(_onUnlockFailed(World))

(* The answer of logind, which grants an inhibitor or fails.  Either way   *)
(* the one that is held is closed, and what came is kept in its place.     *)
Inhibited(granted) ==
  /\ inhibiting > 0
  /\ Steps([World EXCEPT !.inhibiting = @ - 1, !.inhibitor = granted])

SettingChanged ==
  /\ lockEnabled' = ~lockEnabled
  /\ IF lockEnabled' /\ ~_isActive /\ ~config.disabled
       THEN /\ inhibiting < MaxPending
            /\ inhibiting' = inhibiting + 1 /\ UNCHANGED _inhibitor
       ELSE _inhibitor' = FALSE /\ UNCHANGED inhibiting
  /\ UNCHANGED <<_lockScreenState, curtain, fadeToBlack, dialog, finishing, zoom, _isModal,
                 _isActive, _isLocked, actorVisible, long, short, watch, beats, lockTimeout,
                 mode, wasLocked, dragging, config, relock>>

-----------------------------------------------------------------------------
Inhibits == IF lockEnabled /\ ~config.disabled THEN 1 ELSE 0

Init ==
  /\ _lockScreenState = "HIDDEN" /\ curtain = "none" /\ fadeToBlack = FALSE /\ dragging = FALSE
  /\ dialog = NoDialog /\ finishing = {} /\ zoom = FALSE
  /\ _isModal = FALSE /\ _isActive = FALSE /\ _isLocked = FALSE /\ actorVisible = FALSE
  /\ long = "hidden" /\ short = "hidden" /\ watch = FALSE /\ beats = 0 /\ lockTimeout = FALSE
  /\ lockEnabled \in BOOLEAN /\ config \in [password: BOOLEAN, disabled: BOOLEAN]
  /\ mode = <<>> /\ _inhibitor = FALSE /\ inhibiting = Inhibits
  /\ wasLocked = FALSE /\ relock = FALSE

(* The shell crashes and is started again; it locks if it was locked.      *)
Crash ==
  /\ Becomes([state |-> "HIDDEN", curtain |-> "none", toBlack |-> FALSE, dialog |-> NoDialog,
              finishing |-> {}, zoom |-> FALSE, modal |-> FALSE, active |-> FALSE,
              locked |-> FALSE, visible |-> FALSE, long |-> "hidden", short |-> "hidden",
              watch |-> FALSE, beats |-> 0, timeout |-> FALSE, mode |-> <<>>,
              inhibitor |-> FALSE, inhibiting |-> Inhibits, was |-> wasLocked])
  /\ dragging' = FALSE
  /\ relock' = (lockEnabled /\ wasLocked)
  /\ UNCHANGED <<lockEnabled, config>>

lockIfWasLocked ==
  /\ relock
  /\ \E w \in Worlds : Becomes(lock(w, FALSE))
  /\ relock' = FALSE /\ UNCHANGED <<dragging, lockEnabled, config>>

Next ==
  \/ _onStatusChanged \/ LongShown \/ _onShortLightboxShown \/ BeatEnds
  \/ _onUserBecameActive \/ LockTimeout \/ Lock \/ _prepareForSleep \/ SetActive \/ Unlock
  \/ FinishEnds \/ ZoomEnds \/ Lift \/ _onDragBegin \/ _onDragEnd \/ CurtainEnds
  \/ Verified \/ DialogFails \/ (\E granted \in BOOLEAN : Inhibited(granted))
  \/ SettingChanged \/ Crash \/ lockIfWasLocked

(* Tweener ends its tweens, the main loop runs its timers, logind answers, *)
(* and the user does not drag for ever.                                    *)
Fairness ==
  /\ WF_vars(CurtainEnds) /\ WF_vars(BeatEnds) /\ WF_vars(_onShortLightboxShown)
  /\ WF_vars(ZoomEnds) /\ WF_vars(FinishEnds)
  /\ WF_vars(\E granted \in BOOLEAN : Inhibited(granted))

Spec == Init /\ [][Next]_vars /\ Fairness

-----------------------------------------------------------------------------
TypeOK ==
  /\ _lockScreenState \in {"HIDDEN", "SHOWING", "SHOWN", "HIDING"}
  /\ curtain \in {"none", "hide", "restore", "show"}
  /\ dialog \in [there: BOOLEAN, modal: BOOLEAN, verified: BOOLEAN]
  /\ finishing \subseteq BOOLEAN
  /\ {long, short} \subseteq Lightbox
  /\ beats \in 0..MaxPending /\ inhibiting \in 0..MaxPending
  /\ mode \in Modes
  /\ config \in [password: BOOLEAN, disabled: BOOLEAN]
  /\ {fadeToBlack, dragging, zoom, _isModal, _isActive, _isLocked, actorVisible, watch,
      lockTimeout, _inhibitor, lockEnabled, wasLocked, relock} \subseteq BOOLEAN

(* A session that is locked has all input, in a mode of its own, and only  *)
(* a user who wants the lock is locked out (lock, _continueDeactivate).    *)
LockedHasModal == _isLocked => _isModal /\ mode # <<>> /\ config.password

(* The dialog is there only while the session is locked, and none of an    *)
(* earlier attempt is behind a curtain that is down or on its way back     *)
(* (_lockScreenShown, _onDragEnd, _onLockScreenKeyPress).                  *)
NoStaleDialog ==
  dialog.there => _isLocked /\ _lockScreenState # "SHOWN" /\ curtain # "restore"

(* The curtain comes down in the mode of the lock screen, and leaves it    *)
(* when it is up (_resetLockScreen, _hideLockScreenComplete).  A curtain   *)
(* that is down may have lost the mode: a drag that goes on when the       *)
(* shield is deactivated puts back the next curtain, even if that goes.    *)
CurtainHasMode ==
  /\ _lockScreenState = "SHOWING" => Top(mode) = "lock-screen"
  /\ _lockScreenState = "HIDDEN" => Top(mode) # "lock-screen" /\ curtain # "restore"

(* A deactivation with an animation does not wait: only that of a session  *)
(* that is locked has a dialog to wait for (deactivate, _liftShield).      *)
OnlyUnlockWaits == finishing \subseteq {FALSE}

(* A user who may not lock does not delay the sleep of the machine         *)
(* (_syncInhibitor).                                                       *)
DisabledDelaysNothing == config.disabled => ~_inhibitor /\ inhibiting = 0

(* What is locked is locked again after a crash (activate,                 *)
(* lockIfWasLocked).                                                       *)
LockIsRemembered == _isLocked => wasLocked

(* The inhibitor of the sleep is given up only with the curtain down or    *)
(* the screen black, unless the shield has been active since, or the user  *)
(* does not want the lock (_syncInhibitor, _completeLockScreenShown).  The *)
(* shield asks for another while it holds one, and a logind that refuses   *)
(* that one takes the first away in the light: nothing delays the sleep    *)
(* then.  A crash gives it up as well, and the shell that starts asks.     *)
GivenUpInTheDark ==
  _inhibitor /\ ~_inhibitor' =>
    \/ _isActive \/ _lockScreenState' = "SHOWN" \/ short' = "shown"
    \/ ~lockEnabled' \/ Inhibited(FALSE) \/ Crash
InhibitedUntilDark == [][GivenUpInTheDark]_vars

(* A session that was locked is soon reported as active, unless its curtain *)
(* is lifted before it is down: the comment in activate() says that it is  *)
(* not for 0.3 seconds.                                                    *)
LockShows == _isLocked ~> _isActive \/ ~_isLocked \/ _lockScreenState = "HIDING"

(* The session is locked for as long as it was asked to be, by a shield    *)
(* that has the input.                                                     *)
ShieldSound ==
  /\ TypeOK /\ LockIsRemembered /\ LockedHasModal /\ NoStaleDialog /\ CurtainHasMode
  /\ OnlyUnlockWaits /\ DisabledDelaysNothing

=============================================================================
