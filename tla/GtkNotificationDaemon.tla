------------------------ MODULE GtkNotificationDaemon ------------------------
(***************************************************************************)
(* The org.gtk.Notifications service (GtkNotificationDaemon in             *)
(* js/ui/notificationDaemon.js): applications add and remove notifications *)
(* by their own ids; each change is written to a file at once, so that a   *)
(* shell that starts again shows them again.                               *)
(*                                                                         *)
(* A handler may write more than once; the shell may end between any two   *)
(* writes.  A message of the date menu fades while it is removed and can   *)
(* be clicked until it has gone.  A request that is malformed throws when  *)
(* its notification is made; its source then takes every replacement for   *)
(* under way, and does not go when it is empty.                            *)
(***************************************************************************)
EXTENDS Naturals, Sequences, SequencesExt

CONSTANTS AppId, NotificationId,
          MAX_NOTIFICATIONS_PER_SOURCE,
          MaxMade          \* bound on the notifications made

ConstantsAssumption ==
  MAX_NOTIFICATIONS_PER_SOURCE \in Nat \ {0} /\ MaxMade \in Nat

GtkNotification == [app : AppId, id : NotificationId, n : 1..MaxMade]

VARIABLES
  running,         \* the shell runs
  _sources,        \* applications that have a source
  list,            \* Source.notifications
  _notificationPending,  \* applications whose source has it set between requests
  _notifications,  \* GtkNotificationDaemonAppSource._notifications, as a set
  saved,           \* the file
  fading,          \* notifications that are destroyed and whose message fades
  installed,       \* applications whose desktop file is found
  made,            \* how many notifications were made
  kept,            \* those that nobody removed
  strayed          \* one that fades was destroyed again

vars == <<running, _sources, list, _notificationPending, _notifications, saved, fading, installed,
          made, kept, strayed>>

-----------------------------------------------------------------------------
(* A world as the handlers change it; writes are the values of the file.   *)
World == [sources |-> _sources, list |-> list, map |-> _notifications,
          writes |-> <<saved>>, gone |-> {}, pending |-> _notificationPending]

(* Every source that is listed writes what its map has.                    *)
_saveNotifications(w, app) ==
  [w EXCEPT !.writes = Append(@, {x \in w.map : x.app \in w.sources})]

(* Source.destroy once its notifications have gone: nothing while one is   *)
(* being replaced.                                                         *)
SourceGone(w, app) ==
  IF app \in w.pending THEN w
  ELSE _saveNotifications([w EXCEPT !.sources = @ \ {app}, !.list[app] = <<>>], app)

(* The handler of AppSource for the destruction of a notification: by id,  *)
(* whichever has it now.                                                   *)
Forgotten(w, x) ==
  [w EXCEPT !.map = {y \in @ : y.app # x.app \/ y.id # x.id}, !.gone = @ \cup {x}]

(* Notification.destroy, Source._onNotificationDestroy, count-updated.     *)
Destroyed(w, x) ==
  LET rest == SelectSeq(w.list[x.app], LAMBDA y : y # x)
      removed == [Forgotten(w, x) EXCEPT !.list[x.app] = rest]
  IN  IF x \notin ToSet(w.list[x.app]) THEN Forgotten(w, x)
      ELSE _saveNotifications(IF rest = <<>> THEN SourceGone(removed, x.app) ELSE removed, x.app)

(* Source.pushNotification of a new one: the oldest leaves a full list.    *)
Pushed(w, x) ==
  LET full == Len(w.list[x.app]) >= MAX_NOTIFICATIONS_PER_SOURCE
      room == IF full THEN Forgotten([w EXCEPT !.list[x.app] = Tail(@)], Head(w.list[x.app]))
              ELSE w
  IN  _saveNotifications([room EXCEPT !.list[x.app] = Append(@, x)], x.app)

(* addNotification up to the new one: that with the same id is destroyed.  *)
Replacing(w, app, id) ==
  FoldLeft(Destroyed, [w EXCEPT !.pending = @ \cup {app}],
           SetToSeq({y \in w.map : y.app = app /\ y.id = id}))

addNotification(w, x) ==
  LET without == Replacing(w, x.app, x.id)
  IN  [Pushed([without EXCEPT !.map = @ \cup {x}], x) EXCEPT !.pending = @ \ {x.app}]

_ensureAppSource(w, app) == [w EXCEPT !.sources = @ \cup {app}]

-----------------------------------------------------------------------------
Init ==
  /\ running = FALSE
  /\ _sources = {} /\ list = [a \in AppId |-> <<>>] /\ _notificationPending = {}
  /\ _notifications = {}
  /\ saved = {} /\ fading = {} /\ installed = AppId /\ made = 0
  /\ kept = {} /\ strayed = FALSE

(* A handler runs to its end.                                              *)
Finishes(w) ==
  /\ _sources' = w.sources /\ list' = w.list /\ _notifications' = w.map
  /\ _notificationPending' = w.pending
  /\ saved' = Last(w.writes)
  /\ fading' = fading \cup w.gone
  /\ UNCHANGED running

(* The shell ends; the file has what was written last.                     *)
Ended ==
  /\ running' = FALSE
  /\ _sources' = {} /\ list' = [a \in AppId |-> <<>>] /\ _notificationPending' = {}
  /\ _notifications' = {} /\ fading' = {}

Handled(w, new) ==
  /\ kept' = (kept \ w.gone) \cup new
  /\ Finishes(w)
EndsAmid(w) ==
  /\ saved' \in ToSet(w.writes)
  /\ kept' = kept \ w.gone
  /\ Ended

AddNotificationAsync(app, id) ==
  LET x == [app |-> app, id |-> id, n |-> made + 1]
      w == addNotification(_ensureAppSource(World, app), x)
  IN  /\ running /\ made < MaxMade /\ (app \in installed \/ app \in _sources)
      /\ made' = made + 1
      /\ Handled(w, {x}) \/ EndsAmid(w)
      /\ UNCHANGED <<installed, strayed>>

(* The same with a request of which no notification can be made.           *)
AddMalformed(app, id) ==
  /\ running /\ (app \in installed \/ app \in _sources)
  /\ LET w == Replacing(_ensureAppSource(World, app), app, id)
     IN  Handled(w, {}) \/ EndsAmid(w)
  /\ UNCHANGED <<installed, made, strayed>>

RemoveNotificationAsync(app, id) ==
  /\ running
  /\ \E x \in _notifications :
       /\ x.app = app /\ x.id = id
       /\ LET w == Destroyed(World, x) IN Handled(w, {}) \/ EndsAmid(w)
  /\ UNCHANGED <<installed, made, strayed>>

(* The user closes it or activates it.                                     *)
Dismiss(x) ==
  /\ running /\ x \in ToSet(list[x.app])
  /\ LET w == Destroyed(World, x) IN Handled(w, {}) \/ EndsAmid(w)
  /\ UNCHANGED <<installed, made, strayed>>

(* The same, of a message that fades (NotificationMessage in calendar.js). *)
DismissFading(x) ==
  /\ running /\ x \in fading
  /\ LET w == Destroyed(World, x)
     IN  /\ Handled(w, {})
         /\ strayed' = (strayed \/ w.map # _notifications)
  /\ UNCHANGED <<installed, made>>

Faded(x) ==
  /\ x \in fading
  /\ fading' = fading \ {x}
  /\ UNCHANGED <<running, _sources, list, _notificationPending, _notifications, saved, installed,
                 made, kept, strayed>>

(* An application is removed or installed.                                 *)
InstalledChanged(app) ==
  /\ installed' = IF app \in installed THEN installed \ {app} ELSE installed \cup {app}
  /\ UNCHANGED <<running, _sources, list, _notificationPending, _notifications, saved, fading, made,
                 kept, strayed>>

Crash ==
  /\ running
  /\ Ended
  /\ UNCHANGED <<saved, installed, made, kept, strayed>>

(* Mutant of _loadNotifications: what is loaded is written as it comes.    *)
LoadAndSave(w) ==
  LET add(v, x) == addNotification(_ensureAppSource(v, x.app), x)
  IN  FoldLeft(add, w, SetToSeq({x \in saved : x.app \in installed}))

(* The notifications of the applications that are found; nothing is        *)
(* written meanwhile.                                                      *)
_loadNotifications(w) ==
  LET add(v, x) == addNotification(_ensureAppSource(v, x.app), x)
      loaded == FoldLeft(add, w, SetToSeq({x \in saved : x.app \in installed}))
  IN  [loaded EXCEPT !.writes = w.writes]

Start ==
  /\ ~running
  /\ LET w == _loadNotifications(World)
     IN  \/ /\ running' = TRUE /\ fading' = {}
            /\ _sources' = w.sources /\ list' = w.list /\ _notifications' = w.map
            /\ _notificationPending' = w.pending
            /\ saved' = Last(w.writes)
            /\ kept' = {x \in kept : x.app \in installed}
         \/ Ended /\ saved' \in ToSet(w.writes) /\ UNCHANGED kept
  /\ UNCHANGED <<installed, made, strayed>>

Next ==
  \/ \E app \in AppId :
       \/ \E id \in NotificationId :
            AddNotificationAsync(app, id) \/ AddMalformed(app, id) \/ RemoveNotificationAsync(app, id)
       \/ \E x \in ToSet(list[app]) : Dismiss(x)
       \/ InstalledChanged(app)
  \/ \E x \in fading : DismissFading(x) \/ Faded(x)
  \/ Crash \/ Start

Spec == Init /\ [][Next]_vars
-----------------------------------------------------------------------------
Listed == UNION {ToSet(list[a]) : a \in AppId}

TypeOK ==
  /\ running \in BOOLEAN /\ strayed \in BOOLEAN
  /\ _notificationPending \subseteq _sources /\ _sources \subseteq AppId /\ installed \subseteq AppId
  /\ list \in [AppId -> Seq(GtkNotification)]
  /\ \A a \in AppId : Len(list[a]) <= MAX_NOTIFICATIONS_PER_SOURCE
  /\ _notifications \subseteq GtkNotification /\ saved \subseteq GtkNotification
  /\ fading \subseteq GtkNotification /\ kept \subseteq GtkNotification
  /\ made \in 0..MaxMade

(* Unless a message was used while it faded, the file has exactly what is  *)
(* listed, and nothing of what fades, but for applications that were not   *)
(* found at the start: a shell that ends now and starts again shows the    *)
(* same.  A source without notifications is one whose last request was     *)
(* malformed; what the file had of its application, it has until another.  *)
RestartFindsThem ==
  running /\ ~strayed =>
    LET shown == {x.app : x \in Listed}
    IN  /\ {x \in saved : x.app \in shown} = Listed /\ saved \cap fading = {}
        /\ shown \subseteq _sources /\ _sources \ shown \subseteq _notificationPending

(* A notification that nobody removed, replaced or pushed out is listed,   *)
(* however often the shell ended between two writes.                       *)
Survives == running /\ ~strayed => kept \subseteq Listed

(* What the applications have said outlives the shell.                     *)
GtkSound == TypeOK /\ RestartFindsThem /\ Survives

=============================================================================
