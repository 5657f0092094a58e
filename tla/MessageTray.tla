----------------------------- MODULE MessageTray -----------------------------
(***************************************************************************)
(* The message tray (js/ui/messageTray.js): sources with their            *)
(* notifications, the queue, and the one banner, whose state machine       *)
(* _updateState drives.  A handler writes what it has seen and calls       *)
(* _updateState; timers, tweens and the idle monitor call back later.      *)
(*                                                                         *)
(* Abstracted: there is a primary monitor; a timer that is started again   *)
(* because the pointer moves is still running; the list of the date menu   *)
(* (js/ui/calendar.js) is seen only as what acknowledges notifications and *)
(* blocks the banner; only the entry of a chat keeps the key focus.        *)
(***************************************************************************)
EXTENDS Naturals, Sequences, SequencesExt

CONSTANTS
  Source, Notification,
  SourceOf,                     \* [Notification -> Source]
  Transient, Resident, Feedback, \* notifications with isTransient, resident, forFeedback
  Chat,                         \* sources whose banner has an entry
  Urgency,                      \* [Notification -> SUBSET 0..3]: those it may have
  MAX_NOTIFICATIONS_IN_QUEUE, MAX_NOTIFICATIONS_PER_SOURCE,
  MaxTold,                      \* bound: how often programs notify
  None                          \* no notification

CRITICAL == 3

ASSUME ConstantsAssumption ==
  /\ SourceOf \in [Notification -> Source]
  /\ Transient \subseteq Notification /\ Resident \subseteq Notification
  /\ Feedback \subseteq Notification /\ Chat \subseteq Source
  /\ Urgency \in [Notification -> SUBSET (0..CRITICAL) \ {{}}]
  /\ MAX_NOTIFICATIONS_IN_QUEUE \in Nat \ {0}
  /\ MAX_NOTIFICATIONS_PER_SOURCE \in Nat \ {0}
  /\ MaxTold \in Nat
  /\ None \notin Notification

VARIABLES
  notifications,   \* Source.notifications
  urgency,         \* of each notification
  acknowledged,    \* the set of those acknowledged
  sources,         \* MessageTray._sources: enabled by their policy
  tray,            \* the banner and the queue, see Tray
  hovering,        \* the pointer and what is remembered of it, see Hovering
  idle,            \* the user is idle
  busy, blocked, inFullscreen, hasNotifications,
  mapped,          \* the list of the date menu is in view
  told             \* how often programs have notified

Tray ==
  [queue : Seq(Notification),              \* _notificationQueue
   notification : Notification \cup {None}, \* _notification; it has a banner
   state : {"HIDDEN", "SHOWING", "SHOWN", "HIDING"},
   connected : BOOLEAN,                    \* _bannerClickedId, _bannerUnfocusedId
   focused : BOOLEAN,                      \* the banner is
   timer : BOOLEAN,                        \* _notificationTimeoutId
   userActive : BOOLEAN,                   \* _userActiveWhileNotificationShown
   watching : BOOLEAN,                     \* the idle monitor will call
   removed : BOOLEAN,                      \* _notificationRemoved
   expired : BOOLEAN]                      \* _notificationExpired

Hovering ==
  [hovered : BOOLEAN,                      \* _notificationHovered
   pointer : BOOLEAN,                      \* _pointerInNotification
   left : BOOLEAN,                         \* _notificationLeftTimeoutId
   longer : BOOLEAN,                       \* _useLongerNotificationLeftTimeout
   remembered : BOOLEAN]                   \* _showNotificationMouseX >= 0

env == <<idle, busy, blocked, inFullscreen, hasNotifications, mapped>>
vars == <<notifications, urgency, acknowledged, sources, tray, hovering, env, told>>

-----------------------------------------------------------------------------
(* The methods call each other: each takes a world w to another.           *)
World ==
  [notes |-> notifications, urgency |-> urgency, acked |-> acknowledged, sources |-> sources,
   t |-> tray, h |-> hovering,
   idle |-> idle, busy |-> busy, blocked |-> blocked, fullscreen |-> inFullscreen,
   allowed |-> hasNotifications, mapped |-> mapped]

Becomes(w) ==
  /\ notifications' = w.notes /\ urgency' = w.urgency /\ acknowledged' = w.acked
  /\ sources' = w.sources /\ tray' = w.t /\ hovering' = w.h
  /\ idle' = w.idle /\ busy' = w.busy /\ blocked' = w.blocked
  /\ inFullscreen' = w.fullscreen /\ hasNotifications' = w.allowed /\ mapped' = w.mapped

Alive(w, n) == n \in ToSet(w.notes[SourceOf[n]])

(* Source._onNotificationDestroy: a source without notifications goes.     *)
Leaves(w, n) ==
  LET s == SourceOf[n]
      rest == SelectSeq(w.notes[s], LAMBDA m : m # n)
  IN  IF ~Alive(w, n) THEN w
      ELSE [w EXCEPT !.notes[s] = rest, !.sources = IF rest = <<>> THEN @ \ {s} ELSE @]

-----------------------------------------------------------------------------
(* Showing and hiding the banner.                                          *)
_updateShowingNotification(w) ==
  [w EXCEPT !.acked = @ \cup {w.t.notification}, !.t.state = "SHOWING"]

_resetNotificationLeftTimeout(w) == [w EXCEPT !.h.left = FALSE, !.h.longer = FALSE]

_showNotification(w) ==
  LET n == Head(w.t.queue)
      shown == [w EXCEPT !.t.queue = Tail(@), !.t.notification = n,
                         !.t.userActive = ~w.idle, !.t.watching = @ \/ w.idle,
                         !.t.connected = TRUE, !.h.remembered = TRUE]
  IN  _resetNotificationLeftTimeout(_updateShowingNotification(shown))

_hideNotificationCompleted(w) ==
  LET n == w.t.notification
      gone == [w EXCEPT !.t.notification = None, !.t.focused = FALSE]
      left == IF n \in Transient THEN Leaves(gone, n) ELSE gone
  IN  [left EXCEPT !.h.pointer = FALSE, !.t.removed = FALSE]

_hideNotification(w, animate) ==
  LET hidden == _resetNotificationLeftTimeout(
                  [w EXCEPT !.t.focused = FALSE, !.t.connected = FALSE])
  IN  IF animate THEN [hidden EXCEPT !.t.state = "HIDING"]
      ELSE _hideNotificationCompleted([hidden EXCEPT !.t.state = "HIDDEN"])

_ensureBannerFocused(w) ==
  [w EXCEPT !.t.focused = @ \/ SourceOf[w.t.notification] \in Chat]

-----------------------------------------------------------------------------
(* _updateState figures out what needs to be done at the present time.     *)
Limited(w, n) ==
  /\ w.busy \/ w.fullscreen
  /\ n \notin Feedback
  /\ w.urgency[n] # CRITICAL

Showable(w) == w.allowed /\ w.t.queue # <<>> /\ ~Limited(w, Head(w.t.queue))

Expired(w) ==
  \/ w.t.expired
  \/ /\ w.t.userActive /\ ~w.t.timer
     /\ w.urgency[w.t.notification] # CRITICAL
     /\ ~w.t.focused /\ ~w.h.pointer

_updateState(w) ==
  LET waiting == [w EXCEPT !.t.queue = SelectSeq(@, LAMBDA n : n \notin w.acked)]
      mustClose == w.t.removed \/ ~w.allowed \/ Expired(w)
      next ==
        CASE w.t.state = "HIDDEN" /\ Showable(waiting) -> _showNotification(waiting)
          [] w.t.state = "SHOWN" /\ mustClose ->
               _hideNotification(waiting, w.allowed /\ ~w.t.removed)
          [] w.t.state = "SHOWN" /\ ~mustClose /\ w.h.pointer -> _ensureBannerFocused(waiting)
          [] OTHER -> waiting
  IN  IF w.blocked THEN w ELSE [next EXCEPT !.t.expired = FALSE]

-----------------------------------------------------------------------------
(* Sources and notifications.                                              *)

(* Mutant of _onNotificationDestroy: only a banner in full view counts.    *)
ForgottenWhileShowing(w, n) ==
  IF w.t.notification = n /\ w.t.state = "SHOWN"
    THEN _updateState([w EXCEPT !.t.timer = FALSE, !.t.removed = TRUE])
    ELSE [w EXCEPT !.t.queue = SelectSeq(@, LAMBDA m : m # n)]

(* MessageTray._onNotificationDestroy *)
_onNotificationDestroy(w, n) ==
  IF w.t.notification = n /\ w.t.state \in {"SHOWING", "SHOWN"}
    THEN _updateState([w EXCEPT !.t.timer = FALSE, !.t.removed = TRUE])
    ELSE [w EXCEPT !.t.queue = SelectSeq(@, LAMBDA m : m # n)]

(* Notification.destroy: the handler of the source was connected first.    *)
Destroyed(w, n) == _onNotificationDestroy(Leaves(w, n), n)

(* A full source makes room: the oldest leaves the list, then is destroyed.*)
Evicted(w, s) ==
  IF Len(w.notes[s]) >= MAX_NOTIFICATIONS_PER_SOURCE
    THEN _onNotificationDestroy([w EXCEPT !.notes[s] = Tail(@)], Head(w.notes[s]))
    ELSE w

(* Source.pushNotification; the list of the date menu acknowledges what is *)
(* added in front of the user.                                             *)
pushNotification(w, n) ==
  LET s == SourceOf[n]
      room == Evicted(w, s)
      added == [room EXCEPT !.notes[s] = Append(@, n)]
  IN  IF Alive(w, n) THEN w
      ELSE IF w.mapped /\ w.urgency[n] # CRITICAL THEN [added EXCEPT !.acked = @ \cup {n}]
      ELSE added

ByUrgency(q, level) ==
  LET of(u) == SelectSeq(q, LAMBDA n : level[n] = u)
  IN  of(3) \o of(2) \o of(1) \o of(0)

Enqueued(w, n) ==
  LET banner == IF w.t.notification = None THEN 0 ELSE 1
      full == Len(w.t.queue) + banner >= MAX_NOTIFICATIONS_IN_QUEUE
  IN  IF n \in ToSet(w.t.queue) \/ (full /\ w.urgency[n] # CRITICAL) THEN w
      ELSE [w EXCEPT !.t.queue = ByUrgency(Append(@, n), w.urgency)]

_onNotify(w, n) ==
  _updateState(IF w.t.notification = n THEN _updateShowingNotification(w) ELSE Enqueued(w, n))

(* An object that is new: nothing refers to it.                            *)
New(n) == ~Alive(World, n) /\ n # tray.notification /\ n \notin ToSet(tray.queue)

(* A source is created, and added to the tray if its policy allows it,     *)
(* when it has something to say.                                           *)
MayEnable(s) == {TRUE} \cup {notifications[s] # <<>>}
WithSource(w, s, enable) ==
  IF w.notes[s] = <<>> /\ enable THEN [w EXCEPT !.sources = @ \cup {s}] ELSE w

-----------------------------------------------------------------------------
Init ==
  /\ notifications = [s \in Source |-> <<>>]
  /\ urgency = [n \in Notification |-> CHOOSE u \in Urgency[n] : TRUE]
  /\ acknowledged = {}
  /\ sources = {}
  /\ tray = [queue |-> <<>>, notification |-> None, state |-> "HIDDEN", connected |-> FALSE,
             focused |-> FALSE, timer |-> FALSE, userActive |-> FALSE, watching |-> FALSE,
             removed |-> FALSE, expired |-> FALSE]
  /\ hovering = [hovered |-> FALSE, pointer |-> FALSE, left |-> FALSE, longer |-> FALSE,
                 remembered |-> FALSE]
  /\ idle = FALSE /\ busy = FALSE /\ blocked = FALSE /\ inFullscreen = FALSE
  /\ hasNotifications = TRUE /\ mapped = FALSE
  /\ told = 0

(* Source.notify, for a new notification or for an update of one.          *)
Notify(n, u) ==
  /\ Alive(World, n) \/ New(n)
  /\ \E showBanners \in BOOLEAN, enable \in MayEnable(SourceOf[n]) :
       LET said == [World EXCEPT !.urgency[n] = u, !.acked = @ \ {n}]
           pushed == pushNotification(WithSource(said, SourceOf[n], enable), n)
           emitted == SourceOf[n] \in pushed.sources /\ (showBanners \/ u = CRITICAL)
       IN  Becomes(IF emitted THEN _onNotify(pushed, n) ELSE pushed)

(* A notification of an application that has the focus is only listed.     *)
PushNotification(n) ==
  /\ New(n)
  /\ \E enable \in MayEnable(SourceOf[n]) :
       Becomes(pushNotification(WithSource([World EXCEPT !.acked = @ \ {n}], SourceOf[n], enable), n))

(* The user, the program or the daemon removes a notification.             *)
DestroyNotification(n) ==
  /\ Alive(World, n)
  /\ Becomes(Destroyed(World, n))

(* Source.destroy: each of its notifications, then itself.                 *)
DestroySource(s) ==
  /\ notifications[s] # <<>>
  /\ LET emptied == [World EXCEPT !.notes[s] = <<>>]
         gone == FoldLeft(_onNotificationDestroy, emptied, notifications[s])
     IN  Becomes([gone EXCEPT !.sources = @ \ {s}])

(* The policy of a source enables or disables it; the signal that a policy *)
(* has changed comes first.                                                *)
EnableChanged(s) ==
  /\ notifications[s] # <<>>
  /\ LET w == _updateState(World)
     IN  Becomes([w EXCEPT !.sources = IF s \in @ THEN @ \ {s} ELSE @ \cup {s}])

(* A setting of a policy, or the presence turns to idle.                   *)
PolicyChanged == Becomes(_updateState(World))

-----------------------------------------------------------------------------
(* Timers, tweens and the idle monitor.                                    *)
_tweenComplete ==
  \/ /\ tray.state = "SHOWING"
     /\ Becomes(_updateState([World EXCEPT
          !.t.state = "SHOWN", !.t.timer = @ \/ urgency[tray.notification] # CRITICAL]))
  \/ /\ tray.state = "HIDING"
     /\ Becomes(_updateState(_hideNotificationCompleted([World EXCEPT !.t.state = "HIDDEN"])))

(* Mutant of _notificationTimeout: the state is not looked at.             *)
TimeoutOnly ==
  /\ tray.timer
  /\ Becomes([World EXCEPT !.t.timer = FALSE])

_notificationTimeout ==
  /\ tray.timer
  /\ Becomes(_updateState([World EXCEPT !.t.timer = FALSE]))

_onNotificationLeftTimeout ==
  /\ hovering.left
  /\ Becomes(_updateState([World EXCEPT
       !.h.left = FALSE, !.h.longer = FALSE, !.h.pointer = FALSE, !.t.timer = FALSE]))

UserIdle ==
  /\ ~idle
  /\ Becomes([World EXCEPT !.idle = TRUE])

(* A watch may be that of a banner that has gone.                          *)
UserActive ==
  /\ idle
  /\ LET w == [World EXCEPT !.idle = FALSE]
     IN  Becomes(IF ~tray.watching THEN w
                 ELSE _updateState([w EXCEPT !.t.watching = FALSE, !.t.userActive = TRUE,
                                             !.t.timer = TRUE]))

-----------------------------------------------------------------------------
(* The user.                                                               *)
(* The pointer enters; under says that the banner had come up under it.    *)
PointerEnters ==
  /\ tray.notification # None /\ ~blocked /\ ~idle /\ ~hovering.hovered
  /\ \E under \in {FALSE} \cup {hovering.remembered} :
       LET w == _resetNotificationLeftTimeout(
                  [World EXCEPT !.h.hovered = TRUE, !.h.remembered = FALSE])
       IN  Becomes(IF under THEN [w EXCEPT !.h.longer = TRUE]
                   ELSE _updateState([w EXCEPT !.h.pointer = TRUE]))

PointerLeaves ==
  /\ hovering.hovered
  /\ Becomes([World EXCEPT !.h.hovered = FALSE, !.h.left = TRUE])

(* Escape in the banner *)
_expireNotification ==
  /\ tray.notification # None /\ ~blocked /\ ~idle
  /\ Becomes(_updateState([World EXCEPT !.t.expired = TRUE]))

_expandActiveNotification ==
  /\ tray.notification # None /\ ~idle
  /\ Becomes(_ensureBannerFocused(World))

Unfocused ==
  /\ tray.focused
  /\ LET w == [World EXCEPT !.t.focused = FALSE]
     IN  Becomes(IF tray.connected THEN _updateState(w) ELSE w)

_escapeTray(w) == _updateState([w EXCEPT !.h.pointer = FALSE, !.t.timer = FALSE])

(* A click in the banner: it is done displaying, then the notification     *)
(* goes unless it is resident.                                             *)
Activate ==
  /\ tray.notification # None /\ ~blocked /\ ~idle
  /\ LET n == tray.notification
         done == IF tray.connected THEN _escapeTray(World) ELSE World
     IN  Becomes(IF n \in Resident THEN done ELSE Destroyed(done, n))

(* The date menu opens: its list acknowledges what is not urgent, then the *)
(* banner is blocked.                                                      *)
OpenDateMenu ==
  /\ ~blocked /\ ~idle
  /\ LET listed == {n \in Notification : Alive(World, n) /\ urgency[n] # CRITICAL}
     IN  Becomes([World EXCEPT !.mapped = TRUE, !.acked = @ \cup listed, !.blocked = TRUE])

CloseDateMenu ==
  /\ blocked
  /\ Becomes(_updateState([World EXCEPT !.blocked = FALSE]))

DateMenuUnmapped ==
  /\ mapped /\ ~blocked
  /\ Becomes([World EXCEPT !.mapped = FALSE])

_onStatusChanged(status) ==
  Becomes(_updateState(IF status THEN [World EXCEPT !.t.timer = FALSE, !.busy = TRUE]
                       ELSE [World EXCEPT !.busy = FALSE]))

FullscreenChanged == Becomes(_updateState([World EXCEPT !.fullscreen = ~@]))

_sessionUpdated == Becomes(_updateState([World EXCEPT !.allowed = ~@]))

-----------------------------------------------------------------------------
Programs ==
  /\ told < MaxTold
  /\ told' = told + 1
  /\ \E n \in Notification :
       (\E u \in Urgency[n] : Notify(n, u)) \/ PushNotification(n)

Others ==
  \/ \E n \in Notification : DestroyNotification(n)
  \/ \E s \in Source : DestroySource(s) \/ EnableChanged(s)
  \/ PolicyChanged
  \/ _tweenComplete \/ _notificationTimeout \/ _onNotificationLeftTimeout
  \/ UserIdle \/ UserActive
  \/ PointerEnters \/ PointerLeaves
  \/ _expireNotification \/ _expandActiveNotification \/ Unfocused \/ Activate
  \/ OpenDateMenu \/ CloseDateMenu \/ DateMenuUnmapped
  \/ \E status \in BOOLEAN : _onStatusChanged(status)
  \/ FullscreenChanged \/ _sessionUpdated

Next == Programs \/ (Others /\ UNCHANGED told)

(* A tween and a timer end whatever else happens.                          *)
Fairness ==
  /\ WF_vars(_tweenComplete /\ UNCHANGED told)
  /\ WF_vars(_notificationTimeout /\ UNCHANGED told)
  /\ WF_vars(_onNotificationLeftTimeout /\ UNCHANGED told)

Spec == Init /\ [][Next]_vars /\ Fairness
-----------------------------------------------------------------------------
TypeOK ==
  /\ notifications \in [Source -> Seq(Notification)]
  /\ \A s \in Source : Len(notifications[s]) <= MAX_NOTIFICATIONS_PER_SOURCE
  /\ \A n \in Notification : urgency[n] \in Urgency[n]
  /\ acknowledged \subseteq Notification
  /\ sources \subseteq Source
  /\ tray \in Tray
  /\ hovering \in Hovering
  /\ told \in 0..MaxTold
  /\ env \in BOOLEAN \X BOOLEAN \X BOOLEAN \X BOOLEAN \X BOOLEAN \X BOOLEAN

(* A banner is in view exactly while there is a notification for it; only  *)
(* then something may be said to have become of it.                        *)
BannerMatchesState ==
  /\ tray.notification = None <=> tray.state = "HIDDEN"
  /\ tray.removed => tray.state \in {"SHOWING", "SHOWN"}
  /\ tray.focused => tray.state # "HIDDEN"

(* What waits in the queue exists, waits once, and is not in view.         *)
QueueIsLive ==
  /\ \A i, j \in DOMAIN tray.queue : tray.queue[i] = tray.queue[j] => i = j
  /\ \A n \in ToSet(tray.queue) : Alive(World, n) /\ n # tray.notification

(* The more urgent is shown first (while no urgency changes).              *)
UrgentFirst ==
  \A i, j \in DOMAIN tray.queue : i < j => urgency[tray.queue[i]] >= urgency[tray.queue[j]]

(* A notification that was destroyed while its banner came into view goes  *)
(* from view as soon as it may: the tray has not missed it.                *)
DestroyedGoes ==
  /\ tray.state \in {"SHOWING", "SHOWN"} =>
       (tray.removed <=> ~Alive(World, tray.notification))
  /\ tray.state = "SHOWN" /\ tray.removed => blocked

(* The belief that the pointer is in the banner, which keeps it in view,   *)
(* is looked at again: the pointer is there, or its time-out runs.  A      *)
(* banner that is hidden, or shown again meanwhile, has lost its time-out. *)
PointerIsTracked == hovering.pointer => hovering.hovered \/ hovering.left \/ ~tray.connected

(* While the banner is in view, a click in it is heard.                    *)
ClicksAreHeard == tray.state \in {"SHOWING", "SHOWN"} => tray.connected

(* Once the user leaves the banner alone (and programs say no more) it goes*)
(* from view, but a critical one, which only the user dismisses, and one   *)
(* that was shown again while it was hidden.                               *)
LeftAlone == ~blocked /\ ~idle /\ ~hovering.hovered /\ ~tray.focused /\ ClicksAreHeard
BannerGoes ==
  <>[]LeftAlone =>
    <>[](tray.notification = None \/ urgency[tray.notification] = CRITICAL)

(* Nothing waits that could be shown, unless the banner is blocked.        *)
NothingWaits == tray.state = "HIDDEN" /\ ~blocked => ~Showable(World)

(* The banner, the queue and what is known of the pointer agree with what  *)
(* has become of the notifications.                                        *)
TraySound ==
  /\ TypeOK
  /\ BannerMatchesState
  /\ QueueIsLive
  /\ UrgentFirst
  /\ DestroyedGoes
  /\ PointerIsTracked

=============================================================================
