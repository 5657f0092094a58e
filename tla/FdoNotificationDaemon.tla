------------------------ MODULE FdoNotificationDaemon ------------------------
(***************************************************************************)
(* The freedesktop notification service of the shell                       *)
(* (FdoNotificationDaemon in js/ui/notificationDaemon.js): programs call   *)
(* Notify and CloseNotification over D-Bus; the process of a new caller is *)
(* asked of the bus, and its notification appears when the bus answers.    *)
(*                                                                         *)
(* Abstracted: a sender always gives one title, so that it has at most one *)
(* source; of the message tray (MessageTray) only that it destroys a       *)
(* transient notification after its banner, whatever became of it.         *)
(***************************************************************************)
EXTENDS SequenceLemmas, WellFoundedInduction

CONSTANTS
  Sender,          \* unique names on the bus
  Hints,           \* the hints that calls of Notify carry
  App,             \* senders for which an application is found
  MaxId,           \* bound on _nextNotificationId
  MAX_NOTIFICATIONS_PER_SOURCE

ASSUME ConstantsAssumption ==
  /\ Sender # {} /\ App \subseteq Sender
  /\ MaxId \in Nat
  /\ Hints \subseteq SUBSET {"transient", "resident"}
  /\ MAX_NOTIFICATIONS_PER_SOURCE \in Nat \ {0}

Id == 1..MaxId

VARIABLES
  _notifications,  \* of each id: "none", "data" (no notification yet), "shown"
  _nextNotificationId,
  _sources,        \* senders that have a source
  _senderToPid,    \* senders whose process is known
  forgets,         \* of each source: the senders forgotten when it goes
  list,            \* Source.notifications
  owner,           \* the sender whose source a notification belongs to
  transient, resident,
  pending,         \* calls of GetConnectionUnixProcessID, by id: the sender
  banner,          \* the notification the tray shows, or 0
  connected,       \* senders on the bus
  closed,          \* ids for which NotificationClosed was emitted
  unanswered       \* ids whose call has failed

vars == <<_notifications, _nextNotificationId, _sources, _senderToPid, forgets, list, owner, transient,
          resident, pending, banner, connected, closed, unanswered>>

-----------------------------------------------------------------------------
First == CHOOSE s \in Sender : TRUE

World ==
  [map |-> _notifications, sources |-> _sources, pids |-> _senderToPid, forgets |-> forgets,
   list |-> list, owner |-> owner, transient |-> transient, resident |-> resident, closed |-> closed]

Becomes(w) ==
  /\ _notifications' = w.map /\ _sources' = w.sources /\ _senderToPid' = w.pids
  /\ forgets' = w.forgets
  /\ list' = w.list /\ owner' = w.owner /\ transient' = w.transient
  /\ resident' = w.resident /\ closed' = w.closed

(* The daemon's handler of the destruction of notifications; their source  *)
(* and their residence matter no longer.                                   *)
Emitted(w, ids) ==
  [w EXCEPT !.map = [i \in Id |-> IF i \in ids THEN "none" ELSE w.map[i]],
            !.owner = [i \in Id |-> IF i \in ids THEN First ELSE w.owner[i]],
            !.closed = @ \cup ids, !.resident = @ \ ids]

(* FdoNotificationDaemonSource.destroy, when its notifications have gone.  *)
SourceGone(w, s) ==
  [w EXCEPT !.list[s] = <<>>, !.sources = @ \ {s}, !.pids = @ \ w.forgets[s], !.forgets[s] = {}]

(* Notification.destroy: the daemon, then the source.                      *)
Destroyed(w, id) ==
  LET s == w.owner[id]
      told == Emitted(w, {id})
      index == CHOOSE k \in DOMAIN w.list[s] : w.list[s][k] = id
  IN  IF id \notin ToSet(w.list[s]) THEN told
      ELSE IF Len(w.list[s]) = 1 THEN SourceGone(told, s)
      ELSE [told EXCEPT !.list[s] = RemoveAt(@, index)]

(* Source.destroy *)
SourceDestroyed(w, s) == SourceGone(Emitted(w, ToSet(w.list[s])), s)

(* pushNotification: the oldest leaves a full list, then is destroyed.     *)
Pushed(w, s, id) ==
  LET oldest == Head(w.list[s])
      room == IF Len(w.list[s]) < MAX_NOTIFICATIONS_PER_SOURCE THEN w
              ELSE Emitted([w EXCEPT !.list[s] = Tail(@)], {oldest})
  IN  IF id \in ToSet(w.list[s]) THEN w ELSE [room EXCEPT !.list[s] = Append(@, id)]

(* The data of a call replaces that of the one before; what it says of a  *)
(* notification that is shown is applied in the same call.                 *)
Data(w, id, hints) ==
  [w EXCEPT !.map[id] = IF @ = "shown" THEN @ ELSE "data",
            !.transient = IF "transient" \in hints THEN @ \cup {id} ELSE @ \ {id},
            !.resident = IF "resident" \in hints THEN @ \cup {id} ELSE @ \ {id}]

_notifyForSource(w, s, id) ==
  Pushed([w EXCEPT !.map[id] = "shown", !.owner[id] = s], s, id)

(* A notification that is replaced keeps its source; otherwise the sender  *)
(* has one, which is created if need be.                                   *)
_getSource(w, sender, id) == IF w.map[id] = "shown" THEN w.owner[id] ELSE sender
WithSource(w, s) == [w EXCEPT !.sources = @ \cup {s}]

(* The calls after GetConnectionUnixProcessID.                             *)
OneMore(sender, id) ==
  [i \in {id} \cup DOMAIN pending |-> IF i = id THEN sender ELSE pending[i]]

(* Mutant of Asked: one call for each sender.                              *)
AskedOnce(sender, id, known) ==
  IF known \/ sender \in {pending[i] : i \in DOMAIN pending} THEN pending
  ELSE OneMore(sender, id)

Asked(sender, id, known) == IF known THEN pending ELSE OneMore(sender, id)

Shown(w, sender, id) ==
  LET s == _getSource(w, sender, id) IN _notifyForSource(WithSource(w, s), s, id)

-----------------------------------------------------------------------------
Init ==
  /\ _notifications = [i \in Id |-> "none"]
  /\ _nextNotificationId = 1
  /\ _sources = {} /\ _senderToPid = {}
  /\ forgets = [s \in Sender |-> {}]
  /\ list = [s \in Sender |-> <<>>]
  /\ owner = [i \in Id |-> First]
  /\ transient = {} /\ resident = {}
  /\ pending = [i \in {} |-> {}]
  /\ banner = 0
  /\ connected = Sender
  /\ closed = {}
  /\ unanswered = {}

(* NotifyAsync.  The caller is known, or what it replaces is: the          *)
(* notification appears.  Otherwise its data waits for the answer of the   *)
(* bus; a call that replaces data that waits asks nothing.                 *)
NotifyAsync(sender, replacesId, hints) ==
  LET replaces == replacesId # 0 /\ _notifications[replacesId] # "none"
      id == IF replaces THEN replacesId ELSE _nextNotificationId
      data == Data(World, id, hints)
      known == sender \in _senderToPid \/ _notifications[id] = "shown"
  IN  /\ sender \in connected
      /\ id <= MaxId
      /\ _nextNotificationId' = IF replaces THEN _nextNotificationId ELSE _nextNotificationId + 1
      /\ Becomes(IF known THEN Shown(data, sender, id) ELSE data)
      /\ pending' = Asked(sender, id, known \/ replaces)
      /\ UNCHANGED <<banner, connected, unanswered>>

(* The bus answers; the program may have updated or removed it meanwhile.  *)
PidReply(id) ==
  /\ id \in DOMAIN pending
  /\ LET sender == pending[id]
         shown == Shown(World, sender, id)
     IN  Becomes(IF _notifications[id] = "none" THEN World
                 ELSE [shown EXCEPT !.pids = @ \cup {sender},
                                    !.forgets[shown.owner[id]] = @ \cup {sender}])
  /\ pending' = [i \in DOMAIN pending \ {id} |-> pending[i]]
  /\ UNCHANGED <<_nextNotificationId, banner, connected, unanswered>>

(* The call fails: the sender has left.                                    *)
PidError(id) ==
  /\ id \in DOMAIN pending
  /\ pending[id] \notin connected
  /\ pending' = [i \in DOMAIN pending \ {id} |-> pending[i]]
  /\ unanswered' = IF _notifications[id] = "data" THEN unanswered \cup {id} ELSE unanswered
  /\ UNCHANGED <<_notifications, _nextNotificationId, _sources, _senderToPid, forgets, list, owner,
                 transient, resident, banner, connected, closed>>

CloseNotification(id) ==
  /\ _notifications[id] # "none"
  /\ LET w == IF _notifications[id] = "shown" THEN Destroyed(World, id) ELSE World
     IN  Becomes([w EXCEPT !.map[id] = "none"])
  /\ UNCHANGED <<_nextNotificationId, pending, banner, connected, unanswered>>

(* The user dismisses or activates it.                                     *)
Dismiss(id) ==
  /\ id \in ToSet(list[owner[id]])
  /\ Becomes(Destroyed(World, id))
  /\ UNCHANGED <<_nextNotificationId, pending, banner, connected, unanswered>>

(* _onFocusAppChanged, source.open: from the last to the first; after[n]   *)
(* is what n turns of the loop make of w.                                  *)
NonResidentDestroyed(w, s) ==
  LET last(n) == w.list[s][Len(w.list[s]) + 1 - n]
      after[n \in 0..Len(w.list[s])] ==
        IF n = 0 THEN w
        ELSE IF last(n) \in w.resident THEN after[n - 1]
        ELSE Destroyed(after[n - 1], last(n))
  IN  after[Len(w.list[s])]

DestroyNonResident(s) ==
  /\ s \in _sources
  /\ Becomes(NonResidentDestroyed(World, s))
  /\ UNCHANGED <<_nextNotificationId, pending, banner, connected, unanswered>>

(* The name leaves the bus; the watch of its source is told later.         *)
Leave(s) ==
  /\ s \in connected
  /\ connected' = connected \ {s}
  /\ UNCHANGED <<_notifications, _nextNotificationId, _sources, _senderToPid, forgets, list, owner,
                 transient, resident, pending, banner, closed, unanswered>>

(* Mutant of _onNameVanished: resident notifications stay.                 *)
ResidentsStay(s) ==
  /\ s \notin connected
  /\ \E i \in ToSet(list[s]) : i \notin resident
  /\ DestroyNonResident(s)

_onNameVanished(s) ==
  /\ s \in _sources \cap App /\ s \notin connected
  /\ Becomes(SourceDestroyed(World, s))
  /\ UNCHANGED <<_nextNotificationId, pending, banner, connected, unanswered>>

(* The tray shows a notification that is listed; when its banner has gone, *)
(* a transient one is destroyed, also when it was destroyed before.        *)
ShowBanner(id) ==
  /\ banner = 0 /\ id \in ToSet(list[owner[id]])
  /\ banner' = id
  /\ UNCHANGED <<_notifications, _nextNotificationId, _sources, _senderToPid, forgets, list, owner,
                 transient, resident, pending, connected, closed, unanswered>>

HideBanner ==
  /\ banner # 0
  /\ banner' = 0
  /\ Becomes(IF banner \in transient THEN Destroyed(World, banner) ELSE World)
  /\ UNCHANGED <<_nextNotificationId, pending, connected, unanswered>>

Next ==
  \/ \E s \in Sender, hints \in Hints :
       \E id \in {0} \cup {i \in Id : i < _nextNotificationId} : NotifyAsync(s, id, hints)
  \/ \E id \in Id :
       \/ PidReply(id) \/ PidError(id) \/ CloseNotification(id) \/ Dismiss(id) \/ ShowBanner(id)
  \/ \E s \in Sender : DestroyNonResident(s) \/ Leave(s) \/ _onNameVanished(s)
  \/ HideBanner

(* The bus tells every watch of a name that its owner has left.            *)
Fairness == \A s \in Sender : WF_vars(_onNameVanished(s))

Spec == Init /\ [][Next]_vars /\ Fairness
-----------------------------------------------------------------------------
TypeOK ==
  /\ _notifications \in [Id -> {"none", "data", "shown"}]
  /\ _nextNotificationId \in 1..(MaxId + 1)
  /\ _sources \subseteq Sender /\ _senderToPid \subseteq Sender /\ connected \subseteq Sender
  /\ list \in [Sender -> Seq(Id)]
  /\ \A s \in Sender : Len(list[s]) <= MAX_NOTIFICATIONS_PER_SOURCE
  /\ forgets \in [Sender -> SUBSET Sender] /\ owner \in [Id -> Sender]
  /\ transient \subseteq Id /\ resident \subseteq Id /\ unanswered \subseteq Id
  /\ DOMAIN pending \subseteq Id /\ \A i \in DOMAIN pending : pending[i] \in Sender
  /\ banner \in {0} \cup Id
  /\ closed \subseteq Id

(* An id that a program holds leads to a notification that is still listed,*)
(* and each that is listed has its id: none is lost, none is left behind.  *)
IdsResolve ==
  \A id \in Id, s \in Sender :
    id \in ToSet(list[s]) <=> _notifications[id] = "shown" /\ owner[id] = s

(* A program is told that a notification is closed when it is, and not     *)
(* while it lives.                                                         *)
ClosedWhenGone == \A id \in closed : _notifications[id] = "none"

(* A notification is listed once, however often it is replaced.            *)
ListedOnce ==
  \A s \in Sender : \A i, j \in DOMAIN list[s] : list[s][i] = list[s][j] => i = j

(* An id that is given to a program was never used before.                 *)
FreshIds ==
  /\ \A id \in Id : id >= _nextNotificationId => _notifications[id] = "none" /\ id \notin closed
  /\ banner < _nextNotificationId

(* A source lives while it has notifications.                              *)
SourcesAreUsed == _sources = {s \in Sender : list[s] # <<>>}

(* Data that waits is shown when a call to the bus returns, unless that    *)
(* call has failed.                                                        *)
WaitingIsAsked ==
  \A id \in Id : _notifications[id] = "data" => id \in DOMAIN pending \cup unanswered

(* The same without the exception, as the comment in NotifyAsync has it.   *)
WaitingIsPending == \A id \in Id : _notifications[id] = "data" => id \in DOMAIN pending

(* When the program of an application has left, its source goes.           *)
LeaversAreForgotten == \A s \in App : s \notin connected ~> s \notin _sources

(* Programs, ids, lists and sources agree, with calls to the bus under way *)
(* and programs that leave.                                                *)
FdoSound ==
  /\ TypeOK
  /\ IdsResolve /\ ListedOnce /\ FreshIds
  /\ ClosedWhenGone
  /\ SourcesAreUsed
  /\ WaitingIsAsked

-----------------------------------------------------------------------------
(* The proofs: the service keeps its ids, its sources and the lists of the *)
(* tray together, for any programs, ids and limits.  FdoSound is           *)
(* inductive: that an id resolves needs that it is listed once             *)
(* (ListedOnce), and that none comes back from the dead needs that a new   *)
(* id was never used (FreshIds).                                           *)

(* FdoSound, of a world: n is the next id, asked the ids of which the bus  *)
(* is asked.                                                               *)
Injective(q) == \A i, j \in DOMAIN q : q[i] = q[j] => i = j

Worlds ==
  [map : [Id -> {"none", "data", "shown"}], sources : SUBSET Sender, pids : SUBSET Sender,
   forgets : [Sender -> SUBSET Sender], list : [Sender -> Seq(Id)], owner : [Id -> Sender],
   transient : SUBSET Id, resident : SUBSET Id, closed : SUBSET Id]

Listed(w) ==
  /\ w \in Worlds
  /\ \A s \in Sender : Len(w.list[s]) <= MAX_NOTIFICATIONS_PER_SOURCE /\ Injective(w.list[s])
  /\ \A id \in Id, s \in Sender :
       id \in ToSet(w.list[s]) <=> w.map[id] = "shown" /\ w.owner[id] = s
  /\ \A id \in w.closed : w.map[id] = "none"

Numbered(w, n) == \A id \in Id : id >= n => w.map[id] = "none" /\ id \notin w.closed
Used(w) == w.sources = {s \in Sender : w.list[s] # <<>>}
Asking(w, ids) == \A id \in Id : w.map[id] = "data" => id \in ids

Good(w, n, ids) == Listed(w) /\ Numbered(w, n) /\ Used(w) /\ Asking(w, ids)

Waiting == DOMAIN pending \cup unanswered

Calls ==
  /\ _nextNotificationId \in 1..(MaxId + 1)
  /\ connected \subseteq Sender /\ unanswered \subseteq Id
  /\ DOMAIN pending \subseteq Id /\ \A i \in DOMAIN pending : pending[i] \in Sender
  /\ banner \in {0} \cup Id /\ banner < _nextNotificationId

LEMMA SoundIsGood == FdoSound <=> Good(World, _nextNotificationId, Waiting) /\ Calls
<1>1. World \in Worlds <=>
        /\ _notifications \in [Id -> {"none", "data", "shown"}]
        /\ _sources \subseteq Sender /\ _senderToPid \subseteq Sender
        /\ forgets \in [Sender -> SUBSET Sender] /\ list \in [Sender -> Seq(Id)]
        /\ owner \in [Id -> Sender]
        /\ transient \subseteq Id /\ resident \subseteq Id /\ closed \subseteq Id
  BY DEF World, Worlds
<1>2. /\ World.map = _notifications /\ World.list = list /\ World.owner = owner
      /\ World.closed = closed /\ World.sources = _sources
  BY DEF World
<1>3. Listed(World) <=>
        /\ World \in Worlds
        /\ \A s \in Sender : Len(list[s]) <= MAX_NOTIFICATIONS_PER_SOURCE
        /\ IdsResolve /\ ListedOnce /\ ClosedWhenGone
  BY <1>2 DEF Listed, IdsResolve, ListedOnce, ClosedWhenGone, Injective
<1>4. Used(World) <=> SourcesAreUsed
  BY <1>2 DEF Used, SourcesAreUsed
<1>5. Numbered(World, _nextNotificationId) /\ banner < _nextNotificationId <=> FreshIds
  BY <1>2 DEF Numbered, FreshIds
<1>6. Asking(World, Waiting) <=> WaitingIsAsked
  BY <1>2 DEF Asking, WaitingIsAsked, Waiting
<1> HIDE DEF World, Worlds, Listed, Used, Numbered, Asking
<1> QED BY <1>1, <1>3, <1>4, <1>5, <1>6 DEF FdoSound, TypeOK, Good, Calls

LEMMA BecomesGood ==
  ASSUME NEW w \in Worlds, Becomes(w)
  PROVE  World' = w
BY DEF Becomes, World, Worlds

LEMMA FirstIsSender == First \in Sender
BY ConstantsAssumption DEF First

-----------------------------------------------------------------------------
(* Some ids go: list l of source s stays.                                  *)
LEMMA EmittedWorld ==
  ASSUME NEW w \in Worlds, NEW ids \in SUBSET Id
  PROVE  LET v == Emitted(w, ids)
         IN  /\ v \in Worlds
             /\ v.sources = w.sources /\ v.pids = w.pids /\ v.forgets = w.forgets
             /\ v.list = w.list
             /\ \A id \in Id : v.map[id] = IF id \in ids THEN "none" ELSE w.map[id]
             /\ \A id \in Id : v.owner[id] = IF id \in ids THEN First ELSE w.owner[id]
             /\ v.closed = w.closed \cup ids
BY FirstIsSender DEF Emitted, Worlds

Gone(w, v, s, ids, l) ==
  /\ s \in Sender /\ ids \in SUBSET Id
  /\ \A id \in ids, r \in Sender : id \in ToSet(w.list[r]) => r = s
  /\ l \in Seq(Id) /\ Injective(l) /\ Len(l) <= MAX_NOTIFICATIONS_PER_SOURCE
  /\ ToSet(l) = ToSet(w.list[s]) \ ids
  /\ v \in Worlds /\ v.list = [w.list EXCEPT ![s] = l]
  /\ \A id \in Id : v.map[id] = IF id \in ids THEN "none" ELSE w.map[id]
  /\ \A id \in Id : v.owner[id] = IF id \in ids THEN First ELSE w.owner[id]
  /\ v.closed = w.closed \cup ids

LEMMA IdsGo ==
  ASSUME NEW w, NEW n \in Int, NEW waiting, Listed(w), Numbered(w, n), Asking(w, waiting),
         NEW v, NEW s, NEW ids, NEW l, Gone(w, v, s, ids, l), \A id \in ids : id < n
  PROVE  Listed(v) /\ Numbered(v, n) /\ Asking(v, waiting)
<1> USE DEF Gone
<1>0. w \in Worlds /\ w.list \in [Sender -> Seq(Id)] /\ w.closed \subseteq Id
  BY DEF Listed, Worlds
<1>1. v.list[s] = l /\ \A r \in Sender \ {s} : v.list[r] = w.list[r]
  BY <1>0
<1>2. ASSUME NEW r \in Sender
      PROVE  Len(v.list[r]) <= MAX_NOTIFICATIONS_PER_SOURCE /\ Injective(v.list[r])
  BY <1>1 DEF Listed
<1>3. ASSUME NEW id \in Id, NEW r \in Sender
      PROVE  id \in ToSet(v.list[r]) <=> v.map[id] = "shown" /\ v.owner[id] = r
  <2>1. id \in ToSet(v.list[r]) <=> id \in ToSet(w.list[r]) /\ id \notin ids
    BY <1>1
  <2>2. id \in ToSet(w.list[r]) <=> w.map[id] = "shown" /\ w.owner[id] = r
    BY DEF Listed
  <2> QED BY <2>1, <2>2
<1>4. \A id \in v.closed : v.map[id] = "none"
  BY <1>0 DEF Listed
<1>5. Numbered(v, n)
  <2>1. \A id \in Id : id \in Int
    BY ConstantsAssumption DEF Id
  <2> QED BY <2>1 DEF Numbered
<1>6. Asking(v, waiting)
  BY DEF Asking
<1> QED BY <1>2, <1>3, <1>4, <1>5, <1>6 DEF Listed

LEMMA EmptySequence ==
  /\ <<>> \in Seq(Id) /\ Injective(<<>>) /\ Len(<<>>) = 0 /\ ToSet(<<>>) = {}
  /\ \A q \in Seq(Id) : q = <<>> <=> Len(q) = 0
  /\ \A q \in Seq(Id) : q = <<>> <=> ToSet(q) = {}
<1>1. <<>> \in Seq(Id) /\ Len(<<>>) = 0 /\ DOMAIN <<>> = {}
  OBVIOUS
<1>2. \A q \in Seq(Id) : q = <<>> <=> Len(q) = 0
  OBVIOUS
<1>3. ASSUME NEW q \in Seq(Id), ToSet(q) = {}
      PROVE  Len(q) = 0
  <2>1. ASSUME Len(q) # 0
        PROVE  FALSE
    <3>1. 1 \in DOMAIN q
      BY <2>1
    <3>2. q[1] \in ToSet(q)
      BY <3>1 DEF ToSet
    <3> QED BY <1>3, <3>2
  <2> QED BY <2>1
<1> QED BY <1>1, <1>2, <1>3 DEF Injective, ToSet

LEMMA SourceGoneWorld ==
  ASSUME NEW w \in Worlds, NEW s \in Sender
  PROVE  LET v == SourceGone(w, s)
         IN  /\ v \in Worlds
             /\ v.list = [w.list EXCEPT ![s] = <<>>] /\ v.sources = w.sources \ {s}
             /\ v.map = w.map /\ v.owner = w.owner /\ v.closed = w.closed
<1> DEFINE v == SourceGone(w, s)
<1>1. w.list \in [Sender -> Seq(Id)] /\ w.forgets \in [Sender -> SUBSET Sender]
  BY DEF Worlds
<1>2. [w.list EXCEPT ![s] = <<>>] \in [Sender -> Seq(Id)]
  BY <1>1, EmptySequence
<1>3. [w.forgets EXCEPT ![s] = {}] \in [Sender -> SUBSET Sender]
  BY <1>1
<1>4. v.list = [w.list EXCEPT ![s] = <<>>]
  BY DEF SourceGone, Worlds
<1>5. v.forgets = [w.forgets EXCEPT ![s] = {}]
  BY DEF SourceGone, Worlds
<1>6. v.sources = w.sources \ {s} /\ v.pids = w.pids \ w.forgets[s]
  BY DEF SourceGone, Worlds
<1>7. v.map = w.map /\ v.owner = w.owner /\ v.closed = w.closed
  BY DEF SourceGone, Worlds
<1>8. v \in Worlds
  BY <1>2, <1>3 DEF SourceGone, Worlds
<1> QED BY <1>4, <1>6, <1>7, <1>8

(* A source that goes with its notifications.                              *)
LEMMA GoneGood ==
  ASSUME NEW w, NEW n \in Int, NEW waiting, Good(w, n, waiting),
         NEW s \in Sender, NEW ids \in SUBSET Id, \A id \in ids : id < n,
         ToSet(w.list[s]) \subseteq ids,
         \A id \in ids, r \in Sender : id \in ToSet(w.list[r]) => r = s
  PROVE  Good(SourceGone(Emitted(w, ids), s), n, waiting)
<1> DEFINE told == Emitted(w, ids)
           v == SourceGone(told, s)
<1>0. w \in Worlds /\ w.list \in [Sender -> Seq(Id)] /\ w.sources \subseteq Sender
  BY DEF Good, Listed, Worlds
<1>1. /\ told \in Worlds /\ told.sources = w.sources /\ told.list = w.list
      /\ \A id \in Id : told.map[id] = IF id \in ids THEN "none" ELSE w.map[id]
      /\ \A id \in Id : told.owner[id] = IF id \in ids THEN First ELSE w.owner[id]
      /\ told.closed = w.closed \cup ids
  BY <1>0, EmittedWorld
<1> HIDE DEF told
<1>2. /\ v \in Worlds
      /\ v.list = [told.list EXCEPT ![s] = <<>>] /\ v.sources = told.sources \ {s}
      /\ v.map = told.map /\ v.owner = told.owner /\ v.closed = told.closed
  BY <1>1, SourceGoneWorld
<1> HIDE DEF v
<1>3. ToSet(<<>>) = ToSet(w.list[s]) \ ids
  BY EmptySequence
<1>4. Len(<<>>) <= MAX_NOTIFICATIONS_PER_SOURCE
  BY ConstantsAssumption, EmptySequence
<1>5. Listed(v) /\ Numbered(v, n) /\ Asking(v, waiting)
  <2>1. Listed(w) /\ Numbered(w, n) /\ Asking(w, waiting)
    BY DEF Good
  <2>2. v.list = [w.list EXCEPT ![s] = <<>>] /\ v.closed = w.closed \cup ids
    BY <1>1, <1>2
  <2>3. \A id \in Id : /\ v.map[id] = IF id \in ids THEN "none" ELSE w.map[id]
                       /\ v.owner[id] = IF id \in ids THEN First ELSE w.owner[id]
    BY <1>1, <1>2
  <2>4. Gone(w, v, s, ids, <<>>)
    BY <1>2, <1>3, <1>4, <2>2, <2>3, EmptySequence DEF Gone
  <2> QED BY <2>1, <2>4, IdsGo
<1>6. Used(v)
  BY <1>0, <1>1, <1>2 DEF Good, Used
<1> QED BY <1>5, <1>6 DEF Good, v, told


(* One notification goes, wherever it was.                                 *)
LEMMA DestroyedGood ==
  ASSUME NEW w, NEW n \in Int, NEW waiting, Good(w, n, waiting),
         NEW id \in Id, id < n
  PROVE  Good(Destroyed(w, id), n, waiting)
<1> DEFINE s == w.owner[id]
           told == Emitted(w, {id})
           v == Destroyed(w, id)
           index == CHOOSE k \in DOMAIN w.list[s] : w.list[s][k] = id
           rest == [told EXCEPT !.list[s] = RemoveAt(@, index)]
<1>0. w \in Worlds /\ w.list \in [Sender -> Seq(Id)] /\ s \in Sender /\ w.list[s] \in Seq(Id)
  BY DEF Good, Listed, Worlds
<1>1. /\ told \in Worlds /\ told.sources = w.sources /\ told.list = w.list
      /\ \A i \in Id : told.map[i] = IF i \in {id} THEN "none" ELSE w.map[i]
      /\ \A i \in Id : told.owner[i] = IF i \in {id} THEN First ELSE w.owner[i]
      /\ told.closed = w.closed \cup {id}
  BY <1>0, EmittedWorld
<1>2. \A r \in Sender : id \in ToSet(w.list[r]) => r = s
  BY DEF Good, Listed
<1>3. Len(w.list[s]) <= MAX_NOTIFICATIONS_PER_SOURCE /\ Injective(w.list[s])
  BY <1>0 DEF Good, Listed
<1>4. v = IF id \notin ToSet(w.list[s]) THEN told
          ELSE IF Len(w.list[s]) = 1 THEN SourceGone(told, s)
          ELSE rest
  BY DEF Destroyed
<1>5. CASE id \notin ToSet(w.list[s])
  <2>1. told.list = [w.list EXCEPT ![s] = w.list[s]]
    BY <1>0, <1>1
  <2> HIDE DEF told, s
  <2>2. ToSet(w.list[s]) = ToSet(w.list[s]) \ {id}
    BY <1>5
  <2>3. Gone(w, told, s, {id}, w.list[s])
    BY <1>0, <1>1, <1>2, <1>3, <2>1, <2>2 DEF Gone
  <2>4. Listed(told) /\ Numbered(told, n) /\ Asking(told, waiting)
    BY <2>3, IdsGo DEF Good
  <2>5. Used(told)
    BY <1>1 DEF Good, Used
  <2> QED BY <1>4, <1>5, <2>4, <2>5 DEF Good
<1>6. CASE id \in ToSet(w.list[s]) /\ Len(w.list[s]) = 1
  <2>1. ToSet(w.list[s]) \subseteq {id}
    <3>1. DOMAIN w.list[s] = {1}
      BY <1>0, <1>6
    <3> QED BY <3>1, <1>6 DEF ToSet
  <2>2. Good(SourceGone(told, s), n, waiting)
    <3> HIDE DEF s
    <3> QED BY <1>0, <1>2, <2>1, GoneGood
  <2> QED BY <1>4, <1>6, <2>2
<1>7. CASE id \in ToSet(w.list[s]) /\ Len(w.list[s]) # 1
  <2> HIDE DEF s
  <2>1. index \in DOMAIN w.list[s] /\ w.list[s][index] = id
    BY <1>7 DEF ToSet
  <2> DEFINE l == RemoveAt(w.list[s], index)
  <2> HIDE DEF index
  <2>2. /\ l \in Seq(Id) /\ Injective(l) /\ ToSet(l) = ToSet(w.list[s]) \ {id}
        /\ Len(l) = Len(w.list[s]) - 1
    <3>1. index \in 1..Len(w.list[s])
      BY <1>0, <2>1
    <3>2. Len(l) = Len(w.list[s]) - 1
      BY <1>0, <3>1, RemoveAtElements
    <3>3. \A i, j \in DOMAIN w.list[s] : w.list[s][i] = w.list[s][j] => i = j
      BY <1>3 DEF Injective
    <3>4. /\ l \in Seq(Id)
          /\ \A i, j \in DOMAIN l : l[i] = l[j] => i = j
          /\ {l[i] : i \in DOMAIN l} = {w.list[s][i] : i \in DOMAIN w.list[s]} \ {w.list[s][index]}
      BY <1>0, <2>1, <3>3, RemoveAtSet
    <3> QED BY <2>1, <3>2, <3>4 DEF Injective, ToSet
  <2>3. rest.list = [w.list EXCEPT ![s] = l] /\ rest.sources = w.sources
    BY <1>0, <1>1 DEF Worlds
  <2>4. rest.map = told.map /\ rest.owner = told.owner /\ rest.closed = told.closed
    BY <1>1 DEF Worlds
  <2>5. rest \in Worlds
    <3>1. l = RemoveAt(told.list[s], index)
      BY <1>1
    <3>2. [told.list EXCEPT ![s] = RemoveAt(@, index)] \in [Sender -> Seq(Id)]
      BY <1>0, <1>1, <2>2, <3>1
    <3> QED BY <1>1, <3>2 DEF Worlds
  <2> HIDE DEF rest, l, told
  <2>6. Len(l) <= MAX_NOTIFICATIONS_PER_SOURCE
    BY <1>0, <1>3, <2>2, ConstantsAssumption
  <2>7. Gone(w, rest, s, {id}, l)
    BY <1>0, <1>1, <1>2, <2>2, <2>3, <2>4, <2>5, <2>6 DEF Gone
  <2>8. Listed(rest) /\ Numbered(rest, n) /\ Asking(rest, waiting)
    BY <2>7, IdsGo DEF Good
  <2>9. l # <<>> /\ w.list[s] # <<>>
    <3>1. Len(w.list[s]) # 0
      BY <1>0, <2>1
    <3>2. w.list[s] # <<>>
      BY <1>0, <3>1
    <3>3. Len(l) # 0
      BY <1>7, <2>2, <3>1
    <3> QED BY <3>2, <3>3
  <2>10. \A r \in Sender : rest.list[r] # <<>> <=> w.list[r] # <<>>
    BY <1>0, <2>3, <2>9
  <2>11. Used(rest)
    BY <2>3, <2>10 DEF Good, Used
  <2> QED BY <1>4, <1>7, <2>8, <2>11 DEF Good
<1> QED BY <1>5, <1>6, <1>7

LEMMA SourceDestroyedGood ==
  ASSUME NEW w, NEW n \in Int, NEW waiting, Good(w, n, waiting), NEW s \in Sender
  PROVE  Good(SourceDestroyed(w, s), n, waiting)
<1>1. /\ w.list[s] \in Seq(Id)
      /\ \A id \in Id, r \in Sender :
           id \in ToSet(w.list[r]) <=> w.map[id] = "shown" /\ w.owner[id] = r
      /\ Numbered(w, n)
  BY DEF Good, Listed, Worlds
<1>2. ToSet(w.list[s]) \in SUBSET Id
  BY <1>1 DEF ToSet
<1>3. \A id \in Id : id \in Int
  BY ConstantsAssumption DEF Id
<1>4. \A id \in ToSet(w.list[s]) : id < n
  BY <1>1, <1>2, <1>3 DEF Numbered
<1>5. \A id \in ToSet(w.list[s]), r \in Sender : id \in ToSet(w.list[r]) => r = s
  BY <1>1, <1>2
<1> QED BY <1>2, <1>4, <1>5, GoneGood DEF SourceDestroyed


-----------------------------------------------------------------------------
(* A notification comes to the end of list a of source s, from which ids   *)
(* had to go.                                                              *)
Comes(w, v, s, id, ids, a) ==
  /\ s \in Sender /\ id \in Id /\ ids \subseteq ToSet(w.list[s])
  /\ w.map[id] = "data"
  /\ a \in Seq(Id) /\ Injective(a) /\ Len(a) <= MAX_NOTIFICATIONS_PER_SOURCE
  /\ ToSet(a) = (ToSet(w.list[s]) \ ids) \cup {id}
  /\ v \in Worlds /\ v.list = [w.list EXCEPT ![s] = a]
  /\ \A i \in Id : v.map[i] = IF i = id THEN "shown" ELSE IF i \in ids THEN "none" ELSE w.map[i]
  /\ \A i \in Id : v.owner[i] = IF i = id THEN s ELSE IF i \in ids THEN First ELSE w.owner[i]
  /\ v.closed = w.closed \cup ids /\ v.sources = w.sources \cup {s}

LEMMA OneComes ==
  ASSUME NEW w, NEW n \in Int, NEW waiting, NEW v, NEW s, NEW id, NEW ids, NEW a,
         Good(w, n, waiting \cup {id}), Comes(w, v, s, id, ids, a)
  PROVE  Good(v, n, waiting)
<1> USE DEF Comes
<1>0. /\ w \in Worlds /\ w.list \in [Sender -> Seq(Id)] /\ w.closed \subseteq Id
      /\ w.sources \subseteq Sender
  BY DEF Good, Listed, Worlds
<1>1. v.list[s] = a /\ \A r \in Sender \ {s} : v.list[r] = w.list[r]
  BY <1>0
<1>2. \A i \in Id, r \in Sender : i \in ToSet(w.list[r]) <=> w.map[i] = "shown" /\ w.owner[i] = r
  BY DEF Good, Listed
<1>3. ids \subseteq Id
  BY <1>0 DEF ToSet
<1>4. ASSUME NEW r \in Sender
      PROVE  Len(v.list[r]) <= MAX_NOTIFICATIONS_PER_SOURCE /\ Injective(v.list[r])
  BY <1>1 DEF Good, Listed
<1>5. ASSUME NEW i \in Id, NEW r \in Sender
      PROVE  i \in ToSet(v.list[r]) <=> v.map[i] = "shown" /\ v.owner[i] = r
  <2>1. CASE r = s
    <3>1. i \in ToSet(v.list[r]) <=> (i \in ToSet(w.list[s]) /\ i \notin ids) \/ i = id
      BY <1>1, <2>1
    <3> QED BY <1>2, <2>1, <3>1
  <2>2. CASE r # s
    <3>1. i \in ToSet(v.list[r]) <=> i \in ToSet(w.list[r])
      BY <1>1, <2>2
    <3>2. i \in ids => w.owner[i] = s /\ i \in ToSet(w.list[s])
      BY <1>2
    <3> QED BY <1>2, <2>2, <3>1, <3>2
  <2> QED BY <2>1, <2>2
<1>6. id \notin w.closed
  BY DEF Good, Listed
<1>7. \A i \in v.closed : v.map[i] = "none"
  <2>1. \A i \in ids : w.map[i] = "shown" /\ i # id
    BY <1>2, <1>3
  <2> QED BY <1>0, <1>3, <1>6, <2>1 DEF Good, Listed
<1>8. Numbered(v, n)
  <2>1. ASSUME NEW i \in Id, i >= n
        PROVE  v.map[i] = "none" /\ i \notin v.closed
    <3>1. w.map[i] = "none" /\ i \notin w.closed
      BY <2>1 DEF Good, Numbered
    <3>2. i # id /\ i \notin ids
      BY <1>2, <3>1
    <3> QED BY <3>1, <3>2
  <2> QED BY <2>1 DEF Numbered
<1>9. Used(v)
  <2>1. a # <<>>
    <3>1. ToSet(a) # {}
      OBVIOUS
    <3> QED BY <3>1, EmptySequence
  <2> QED BY <1>0, <1>1, <2>1 DEF Good, Used
<1>10. Asking(v, waiting)
  BY DEF Good, Asking
<1> QED BY <1>4, <1>5, <1>7, <1>8, <1>9, <1>10 DEF Good, Listed

(* The two ways in which there is room.                                    *)
LEMMA RoomFor ==
  ASSUME NEW q \in Seq(Id), Injective(q), Len(q) <= MAX_NOTIFICATIONS_PER_SOURCE,
         NEW id \in Id, id \notin ToSet(q)
  PROVE  LET full == ~(Len(q) < MAX_NOTIFICATIONS_PER_SOURCE)
             ids == IF full THEN {Head(q)} ELSE {}
             a == Append(IF full THEN Tail(q) ELSE q, id)
         IN  /\ ids \subseteq ToSet(q)
             /\ a \in Seq(Id) /\ Injective(a) /\ Len(a) <= MAX_NOTIFICATIONS_PER_SOURCE
             /\ ToSet(a) = (ToSet(q) \ ids) \cup {id}
<1> DEFINE full == ~(Len(q) < MAX_NOTIFICATIONS_PER_SOURCE)
           ids == IF full THEN {Head(q)} ELSE {}
           l == IF full THEN Tail(q) ELSE q
           a == Append(l, id)
<1>0. MAX_NOTIFICATIONS_PER_SOURCE \in Nat /\ MAX_NOTIFICATIONS_PER_SOURCE > 0 /\ Len(q) \in Nat
  BY ConstantsAssumption
<1>1. /\ l \in Seq(Id) /\ Injective(l) /\ Len(l) < MAX_NOTIFICATIONS_PER_SOURCE
      /\ ToSet(l) = ToSet(q) \ ids /\ ids \subseteq ToSet(q)
  <2>1. CASE full
    <3>1. Len(q) > 0
      BY <1>0, <2>1
    <3>2. \A i, j \in DOMAIN q : q[i] = q[j] => i = j
      BY DEF Injective
    <3>3. /\ Tail(q) \in Seq(Id) /\ Len(Tail(q)) = Len(q) - 1
          /\ \A i, j \in DOMAIN Tail(q) : Tail(q)[i] = Tail(q)[j] => i = j
          /\ {Tail(q)[i] : i \in DOMAIN Tail(q)} = {q[i] : i \in DOMAIN q} \ {Head(q)}
      BY <3>1, <3>2, TailSet
    <3>4. Head(q) \in ToSet(q)
      BY <3>1 DEF ToSet
    <3>5. Injective(Tail(q)) /\ ToSet(Tail(q)) = ToSet(q) \ {Head(q)}
      BY <3>3 DEF Injective, ToSet
    <3>6. Len(Tail(q)) < MAX_NOTIFICATIONS_PER_SOURCE
      BY <1>0, <3>3
    <3>7. l = Tail(q) /\ ids = {Head(q)}
      BY <2>1
    <3> QED BY <3>3, <3>4, <3>5, <3>6, <3>7
  <2>2. CASE ~full
    BY <2>2
  <2> QED BY <2>1, <2>2
<1> HIDE DEF l
<1>2. id \notin {l[i] : i \in DOMAIN l} /\ \A i, j \in DOMAIN l : l[i] = l[j] => i = j
  BY <1>1 DEF ToSet, Injective
<1>3. /\ a \in Seq(Id)
      /\ \A i, j \in DOMAIN a : a[i] = a[j] => i = j
      /\ {a[i] : i \in DOMAIN a} = {l[i] : i \in DOMAIN l} \cup {id}
  <2>1. /\ a \in Seq(Id) /\ DOMAIN a = 1..(Len(l) + 1) /\ DOMAIN l = 1..Len(l)
        /\ \A i \in 1..Len(l) : a[i] = l[i]
        /\ a[Len(l) + 1] = id
    BY <1>1, AppendProperties
  <2> HIDE DEF a
  <2> QED BY <1>2, <2>1
<1>4. Len(a) = Len(l) + 1 /\ Len(l) \in Nat
  BY <1>1
<1>5. Len(a) <= MAX_NOTIFICATIONS_PER_SOURCE
  BY <1>0, <1>1, <1>4
<1>6. Injective(a) /\ ToSet(a) = ToSet(l) \cup {id}
  BY <1>3 DEF Injective, ToSet
<1> QED BY <1>1, <1>3, <1>5, <1>6 DEF l


Named(w, s, id) == [WithSource(w, s) EXCEPT !.map[id] = "shown", !.owner[id] = s]

LEMMA NamedWorld ==
  ASSUME NEW w \in Worlds, NEW s \in Sender, NEW id \in Id
  PROVE  LET v == Named(w, s, id)
         IN  /\ v \in Worlds
             /\ v.sources = w.sources \cup {s} /\ v.list = w.list /\ v.closed = w.closed
             /\ v.map = [w.map EXCEPT ![id] = "shown"]
             /\ v.owner = [w.owner EXCEPT ![id] = s]
<1> DEFINE m == [w.map EXCEPT ![id] = "shown"]
           o == [w.owner EXCEPT ![id] = s]
           v == Named(w, s, id)
<1>1. m \in [Id -> {"none", "data", "shown"}] /\ o \in [Id -> Sender]
  BY DEF Worlds
<1>2. v.map = m
  BY DEF Worlds, WithSource, Named
<1>3. v.owner = o
  BY DEF Worlds, WithSource, Named
<1>4. v.sources = w.sources \cup {s} /\ v.list = w.list /\ v.closed = w.closed
  BY DEF Worlds, WithSource, Named
<1>5. v \in Worlds
  BY <1>1 DEF Worlds, WithSource, Named
<1> QED BY <1>2, <1>3, <1>4, <1>5

WithList(w, s, l) == [w EXCEPT !.list[s] = l]

LEMMA ListWorld ==
  ASSUME NEW w \in Worlds, NEW s \in Sender, NEW l \in Seq(Id)
  PROVE  LET v == WithList(w, s, l)
         IN  /\ v \in Worlds
             /\ v.list = [w.list EXCEPT ![s] = l]
             /\ v.sources = w.sources /\ v.map = w.map /\ v.owner = w.owner /\ v.closed = w.closed
<1>1. [w.list EXCEPT ![s] = l] \in [Sender -> Seq(Id)]
  BY DEF Worlds
<1> QED BY <1>1 DEF Worlds, WithList

(* A notification is shown, or one that is shown is updated.               *)
LEMMA ShownGood ==
  ASSUME NEW w, NEW n \in Int, NEW waiting, NEW id \in Id, NEW sender \in Sender,
         Good(w, n, waiting \cup {id}), w.map[id] # "none"
  PROVE  Good(Shown(w, sender, id), n, waiting) /\ Shown(w, sender, id).owner[id] \in Sender
<1> DEFINE s == _getSource(w, sender, id)
           named == Named(w, s, id)
           v == Shown(w, sender, id)
<1>0. /\ w \in Worlds /\ w.list \in [Sender -> Seq(Id)] /\ w.sources \subseteq Sender
      /\ w.map \in [Id -> {"none", "data", "shown"}] /\ w.owner \in [Id -> Sender]
  BY DEF Good, Listed, Worlds
<1>1. s \in Sender
  BY <1>0 DEF _getSource
<1>2. /\ named \in Worlds
      /\ named.sources = w.sources \cup {s} /\ named.list = w.list /\ named.closed = w.closed
      /\ named.map = [w.map EXCEPT ![id] = "shown"]
      /\ named.owner = [w.owner EXCEPT ![id] = s]
  <2>1. w \in Worlds
    BY <1>0
  <2> HIDE DEF s
  <2> QED BY <1>1, <2>1, NamedWorld
<1>3. v = Pushed(named, s, id)
  BY DEF Shown, _notifyForSource, Named
<1>4. \A i \in Id, r \in Sender : i \in ToSet(w.list[r]) <=> w.map[i] = "shown" /\ w.owner[i] = r
  BY DEF Good, Listed
<1> SUFFICES Good(v, n, waiting)
  BY DEF Good, Listed, Worlds
<1>5. CASE w.map[id] = "shown"
  <2>1. s = w.owner[id] /\ id \in ToSet(w.list[s])
    BY <1>0, <1>4, <1>5 DEF _getSource
  <2> HIDE DEF s, named
  <2>2. named.map = w.map /\ named.owner = w.owner
    <3>1. [w.map EXCEPT ![id] = "shown"] = w.map
      BY <1>0, <1>5
    <3>2. [w.owner EXCEPT ![id] = s] = w.owner
      BY <1>0, <2>1
    <3> QED BY <1>2, <3>1, <3>2
  <2>3. named.sources = w.sources
    <3>1. w.list[s] # <<>>
      BY <2>1, EmptySequence
    <3>2. s \in w.sources
      BY <1>1, <3>1 DEF Good, Used
    <3> QED BY <1>2, <3>2
  <2> HIDE DEF v
  <2>4. v = named
    BY <1>2, <1>3, <2>1 DEF Pushed
  <2>5. Good(named, n, waiting \cup {id})
    BY <1>2, <2>2, <2>3 DEF Good, Listed, Numbered, Used, Asking
  <2>6. Asking(named, waiting)
    BY <1>5, <2>2, <2>5 DEF Good, Asking
  <2> QED BY <2>4, <2>5, <2>6 DEF Good
<1>6. CASE w.map[id] = "data"
  <2> DEFINE q == w.list[s]
             full == ~(Len(q) < MAX_NOTIFICATIONS_PER_SOURCE)
             ids == IF full THEN {Head(q)} ELSE {}
             a == Append(IF full THEN Tail(q) ELSE q, id)
             room == IF full THEN Emitted([named EXCEPT !.list[s] = Tail(@)], {Head(q)}) ELSE named
  <2>1. s = sender
    BY <1>6 DEF _getSource
  <2> HIDE DEF s
  <2>2. q \in Seq(Id) /\ Injective(q) /\ Len(q) <= MAX_NOTIFICATIONS_PER_SOURCE /\ id \notin ToSet(q)
    BY <1>0, <1>1, <1>4, <1>6 DEF Good, Listed
  <2>3. /\ ids \subseteq ToSet(q)
        /\ a \in Seq(Id) /\ Injective(a) /\ Len(a) <= MAX_NOTIFICATIONS_PER_SOURCE
        /\ ToSet(a) = (ToSet(q) \ ids) \cup {id}
    BY <2>2, RoomFor
  <2> HIDE DEF v, named
  <2>4. v = [room EXCEPT !.list[s] = Append(@, id)]
    <3>1. named.list[s] = q
      BY <1>2
    <3>2. Pushed(named, s, id) = [room EXCEPT !.list[s] = Append(@, id)]
      BY <2>2, <3>1 DEF Pushed
    <3> QED BY <1>3, <3>2
  <2>5. /\ room \in Worlds
        /\ room.list = IF full THEN [w.list EXCEPT ![s] = Tail(q)] ELSE w.list
        /\ room.sources = w.sources \cup {s} /\ room.closed = w.closed \cup ids
        /\ \A i \in Id : room.map[i] = IF i \in ids THEN "none"
                                       ELSE IF i = id THEN "shown" ELSE w.map[i]
        /\ \A i \in Id : room.owner[i] = IF i \in ids THEN First
                                         ELSE IF i = id THEN s ELSE w.owner[i]
    <3>1. CASE full
      <4> DEFINE less == [named EXCEPT !.list[s] = Tail(named.list[s])]
      <4>1. Len(q) # 0 /\ q # <<>>
        <5>1. MAX_NOTIFICATIONS_PER_SOURCE > 0 /\ MAX_NOTIFICATIONS_PER_SOURCE \in Nat
          BY ConstantsAssumption
        <5> QED BY <2>2, <3>1, <5>1
      <4>2. Tail(q) \in Seq(Id) /\ Head(q) \in Id
        BY <2>2, <4>1
      <4>3. /\ less \in Worlds /\ less.list = [named.list EXCEPT ![s] = Tail(q)]
            /\ less.sources = named.sources /\ less.map = named.map /\ less.owner = named.owner
            /\ less.closed = named.closed
        <5>1. less = WithList(named, s, Tail(q))
          BY <1>2 DEF WithList
        <5> HIDE DEF less, q
        <5>2. named \in Worlds /\ Tail(q) \in Seq(Id)
          BY <1>2, <4>2
        <5> QED BY <1>1, <5>1, <5>2, ListWorld
      <4> HIDE DEF less
      <4>4. room = Emitted(less, {Head(q)})
        BY <3>1 DEF less
      <4>5. /\ room \in Worlds
            /\ room.sources = less.sources /\ room.list = less.list
            /\ \A i \in Id : room.map[i] = IF i \in {Head(q)} THEN "none" ELSE less.map[i]
            /\ \A i \in Id : room.owner[i] = IF i \in {Head(q)} THEN First ELSE less.owner[i]
            /\ room.closed = less.closed \cup {Head(q)}
        <5>1. {Head(q)} \in SUBSET Id
          BY <4>2
        <5> HIDE DEF room, q
        <5> QED BY <4>3, <4>4, <5>1, EmittedWorld
      <4> HIDE DEF room, q
      <4> QED BY <1>0, <1>2, <3>1, <4>3, <4>5
    <3>2. CASE ~full
      BY <1>0, <1>2, <3>2
    <3> QED BY <3>1, <3>2
  <2>6. room.list[s] = IF full THEN Tail(q) ELSE q
    BY <1>0, <1>1, <2>5
  <2> HIDE DEF room
  <2>7. Append(room.list[s], id) = a
    BY <2>6
  <2> HIDE DEF a
  <2>8. v = WithList(room, s, a)
    BY <2>4, <2>7 DEF WithList
  <2>9. /\ v \in Worlds
        /\ v.list = [room.list EXCEPT ![s] = a]
        /\ v.sources = room.sources /\ v.map = room.map /\ v.owner = room.owner
        /\ v.closed = room.closed
    BY <1>1, <2>3, <2>5, <2>8, ListWorld
  <2>10. v.list = [w.list EXCEPT ![s] = a]
    BY <1>0, <1>1, <2>5, <2>9
  <2>11. id \notin ids
    BY <2>2, <2>3
  <2> HIDE DEF ids, q
  <2>12. Comes(w, v, s, id, ids, a)
    BY <1>1, <1>6, <2>3, <2>5, <2>9, <2>10, <2>11 DEF Comes, q
  <2> QED BY <2>12, OneComes
<1> QED BY <1>0, <1>5, <1>6


-----------------------------------------------------------------------------
(* The loop of destroyNonResidentNotifications, turn by turn.  Its turns   *)
(* exist, and each keeps the world good.                                   *)
Turn(w, q, g, k) ==
  LET id == q[Len(q) + 1 - k]
  IN  IF k = 0 THEN w ELSE IF id \in w.resident THEN g[k - 1] ELSE Destroyed(g[k - 1], id)

LEMMA TurnsExist ==
  ASSUME NEW w, NEW q, NEW m \in Nat
  PROVE  \E g : g = [k \in 0..m |-> Turn(w, q, g, k)]
<1> DEFINE Turns(i) == \E g : g = [k \in 0..i |-> Turn(w, q, g, k)]
           Bad == {i \in Nat : ~Turns(i)}
<1> SUFFICES ASSUME ~Turns(m) PROVE FALSE
  OBVIOUS
<1>1. m \in Bad
  OBVIOUS
<1>2. IsWellFoundedOn(OpToRel(<, Nat), Nat)
  BY NatLessThanWellFounded
<1>3. Bad \subseteq Nat /\ Bad # {}
  BY <1>1
<1>4. PICK i \in Bad : \A j \in Bad : <<j, i>> \notin OpToRel(<, Nat)
  <2> HIDE DEF Bad
  <2> QED BY <1>2, <1>3, WFMin
<1>5. i \in Nat /\ ~Turns(i) /\ \A j \in Nat : j < i => Turns(j)
  BY <1>4 DEF OpToRel
<1>6. CASE i = 0
  <2> DEFINE h == [k \in 0..0 |-> w]
  <2>1. h = [k \in 0..i |-> Turn(w, q, h, k)]
    BY <1>6 DEF Turn
  <2> QED BY <1>5, <2>1
<1>7. CASE i # 0
  <2>1. i - 1 \in Nat /\ i - 1 < i
    BY <1>5, <1>7
  <2>2. PICK g : g = [k \in 0..(i - 1) |-> Turn(w, q, g, k)]
    BY <1>5, <2>1
  <2> DEFINE h == [k \in 0..i |-> IF k = i THEN Turn(w, q, g, i) ELSE g[k]]
  <2>3. ASSUME NEW k \in 0..i
        PROVE  h[k] = Turn(w, q, h, k)
    <3>1. k # 0 => k - 1 \in 0..(i - 1) /\ k - 1 # i /\ k - 1 \in 0..i
      BY <1>5
    <3>2. k # 0 => h[k - 1] = g[k - 1]
      BY <3>1
    <3>3. Turn(w, q, h, k) = Turn(w, q, g, k)
      <4> HIDE DEF h
      <4> QED BY <3>2 DEF Turn
    <3>4. CASE k = i
      BY <3>3, <3>4
    <3>5. CASE k # i
      <4>1. k \in 0..(i - 1)
        BY <1>5, <3>5
      <4>2. g[k] = Turn(w, q, g, k)
        <5> HIDE DEF h
        <5> QED BY <2>2, <4>1
      <4> QED BY <3>3, <3>5, <4>2
    <3> QED BY <3>4, <3>5
  <2>4. h = [k \in 0..i |-> Turn(w, q, h, k)]
    <3>1. h = [k \in 0..i |-> h[k]]
      OBVIOUS
    <3> HIDE DEF h
    <3> QED BY <2>3, <3>1
  <2> QED BY <1>5, <2>4
<1> QED BY <1>6, <1>7

LEMMA NonResidentGood ==
  ASSUME NEW w, NEW n \in Int, NEW waiting, Good(w, n, waiting), NEW s \in Sender
  PROVE  Good(NonResidentDestroyed(w, s), n, waiting)
<1> DEFINE q == w.list[s]
           after == CHOOSE g : g = [k \in 0..Len(q) |-> Turn(w, q, g, k)]
<1>1. NonResidentDestroyed(w, s) = after[Len(q)]
  BY DEF NonResidentDestroyed, Turn
<1>2. q \in Seq(Id)
  BY DEF Good, Listed, Worlds
<1>3. \A i \in DOMAIN q : q[i] \in Id /\ q[i] < n
  <2>1. ASSUME NEW i \in DOMAIN q
        PROVE  q[i] \in Id /\ q[i] < n
    <3>1. q[i] \in Id /\ q[i] \in ToSet(q)
      BY <1>2 DEF ToSet
    <3>2. w.map[q[i]] = "shown"
      BY <3>1 DEF Good, Listed
    <3>3. q[i] \in Int
      BY <3>1, ConstantsAssumption DEF Id
    <3>4. ~(q[i] >= n)
      BY <3>1, <3>2 DEF Good, Numbered
    <3> QED BY <3>1, <3>3, <3>4
  <2> QED BY <2>1
<1> HIDE DEF q
<1>4. Len(q) \in Nat /\ DOMAIN q = 1..Len(q)
  BY <1>2
<1>5. after = [k \in 0..Len(q) |-> Turn(w, q, after, k)]
  <2>1. \E g : g = [k \in 0..Len(q) |-> Turn(w, q, g, k)]
    BY <1>4, TurnsExist
  <2> QED BY <2>1
<1> HIDE DEF after
<1> DEFINE Bad == {k \in Nat : k <= Len(q) /\ ~Good(after[k], n, waiting)}
<1>6. Bad = {}
  <2> SUFFICES ASSUME Bad # {} PROVE FALSE
    OBVIOUS
  <2>1. IsWellFoundedOn(OpToRel(<, Nat), Nat)
    BY NatLessThanWellFounded
  <2>2. Bad \subseteq Nat
    OBVIOUS
  <2>3. PICK k \in Bad : \A j \in Bad : <<j, k>> \notin OpToRel(<, Nat)
    <3> HIDE DEF Bad
    <3> QED BY <2>1, <2>2, WFMin
  <2>4. /\ k \in Nat /\ k <= Len(q) /\ ~Good(after[k], n, waiting)
        /\ \A j \in Nat : j < k => Good(after[j], n, waiting)
    <3>1. k \in Nat /\ k <= Len(q) /\ ~Good(after[k], n, waiting)
      OBVIOUS
    <3>2. ASSUME NEW j \in Nat, j < k
          PROVE  Good(after[j], n, waiting)
      <4>1. <<j, k>> \in OpToRel(<, Nat)
        BY <3>1, <3>2 DEF OpToRel
      <4>2. j \notin Bad
        BY <2>3, <4>1
      <4> QED BY <1>4, <3>1, <3>2, <4>2
    <3> QED BY <3>1, <3>2
  <2>5. after[k] = Turn(w, q, after, k)
    <3>1. k \in 0..Len(q)
      BY <1>4, <2>4
    <3> QED BY <1>5, <3>1
  <2>6. CASE k = 0
    BY <2>4, <2>5, <2>6 DEF Turn
  <2>7. CASE k # 0
    <3> DEFINE id == q[Len(q) + 1 - k]
    <3>1. k - 1 \in Nat /\ k - 1 < k /\ Len(q) + 1 - k \in DOMAIN q
      BY <1>4, <2>4, <2>7
    <3>2. Good(after[k - 1], n, waiting) /\ id \in Id /\ id < n
      BY <1>3, <2>4, <3>1
    <3>3. Good(Destroyed(after[k - 1], id), n, waiting)
      <4> HIDE DEF id
      <4> QED BY <3>2, DestroyedGood
    <3> QED BY <2>4, <2>5, <2>7, <3>2, <3>3 DEF Turn
  <2> QED BY <2>6, <2>7
<1> QED BY <1>1, <1>4, <1>6


-----------------------------------------------------------------------------
(* The steps.                                                              *)
LEMMA BecomesSound ==
  ASSUME NEW w, Becomes(w), Good(w, _nextNotificationId', Waiting'), Calls'
  PROVE  FdoSound'
<1>1. World' = w
  BY BecomesGood DEF Good, Listed
<1>2. (FdoSound <=> Good(World, _nextNotificationId, Waiting) /\ Calls)'
  BY SoundIsGood, PTL
<1>3. (Good(World, _nextNotificationId, Waiting))' <=> Good(World', _nextNotificationId', Waiting')
  BY DEF Good, Listed, Numbered, Used, Asking, Worlds
<1> QED BY <1>1, <1>2, <1>3

LEMMA SameSound ==
  ASSUME FdoSound, Good(World, _nextNotificationId', Waiting'), Calls',
         UNCHANGED <<_notifications, _sources, _senderToPid, forgets, list, owner, transient, resident,
                     closed>>
  PROVE  FdoSound'
<1>1. Becomes(World)
  BY DEF Becomes, World
<1> QED BY <1>1, BecomesSound

LEMMA Numbers ==
  ASSUME FdoSound
  PROVE  /\ _nextNotificationId \in Int /\ banner \in Int
         /\ \A id \in Id : id \in Int
         /\ \A id \in Id : _notifications[id] # "none" => id < _nextNotificationId /\ id \notin closed
<1>1. _nextNotificationId \in Int /\ banner \in Int
  BY ConstantsAssumption DEF FdoSound, TypeOK, Id
<1>2. \A id \in Id : id \in Int
  BY ConstantsAssumption DEF Id
<1> QED BY <1>1, <1>2 DEF FdoSound, FreshIds, ClosedWhenGone

LEMMA InitSound == Init => FdoSound
<1> SUFFICES ASSUME Init PROVE FdoSound
  OBVIOUS
<1> USE DEF Init
<1>1. TypeOK
  <2>1. list \in [Sender -> Seq(Id)] /\ \A s \in Sender : Len(list[s]) <= MAX_NOTIFICATIONS_PER_SOURCE
    BY EmptySequence, ConstantsAssumption
  <2>2. _nextNotificationId \in 1..(MaxId + 1)
    BY ConstantsAssumption
  <2> QED BY <2>1, <2>2, FirstIsSender DEF TypeOK
<1>2. \A s \in Sender : list[s] = <<>>
  OBVIOUS
<1>3. IdsResolve
  BY <1>2, EmptySequence DEF IdsResolve
<1>4. ListedOnce
  BY <1>2, EmptySequence DEF ListedOnce, Injective
<1>5. FreshIds /\ ClosedWhenGone /\ SourcesAreUsed /\ WaitingIsAsked
  BY <1>2 DEF FreshIds, ClosedWhenGone, SourcesAreUsed, WaitingIsAsked
<1> QED BY <1>1, <1>3, <1>4, <1>5 DEF FdoSound

LEMMA DataGood ==
  ASSUME NEW w, NEW n \in Int, NEW m \in Int, NEW waiting, Good(w, n, waiting),
         NEW id \in Id, id \notin w.closed, n <= m, id < m, NEW hints
  PROVE  /\ Good(Data(w, id, hints), m, waiting \cup {id})
         /\ Data(w, id, hints).map[id] = IF w.map[id] = "shown" THEN "shown" ELSE "data"
<1> DEFINE v == Data(w, id, hints)
<1>1. /\ w \in Worlds /\ w.map \in [Id -> {"none", "data", "shown"}] /\ w.closed \subseteq Id
      /\ w.transient \subseteq Id /\ w.resident \subseteq Id
  BY DEF Good, Listed, Worlds
<1>2. v.map = [w.map EXCEPT ![id] = IF @ = "shown" THEN @ ELSE "data"]
  BY <1>1 DEF Data, Worlds
<1>3. v.list = w.list /\ v.owner = w.owner /\ v.closed = w.closed /\ v.sources = w.sources
  BY <1>1 DEF Data, Worlds
<1>4. v \in Worlds
  <2>1. [w.map EXCEPT ![id] = IF @ = "shown" THEN @ ELSE "data"] \in [Id -> {"none", "data", "shown"}]
    BY <1>1
  <2> QED BY <1>1, <2>1 DEF Data, Worlds
<1> HIDE DEF v
<1>5. \A i \in Id : v.map[i] = IF i = id THEN (IF w.map[i] = "shown" THEN "shown" ELSE "data")
                                ELSE w.map[i]
  BY <1>1, <1>2
<1>6. Listed(v)
  BY <1>1, <1>3, <1>4, <1>5 DEF Good, Listed
<1>7. Numbered(v, m)
  <2>1. \A i \in Id : i \in Int
    BY ConstantsAssumption DEF Id
  <2> QED BY <1>3, <1>5, <2>1 DEF Good, Numbered
<1>8. Used(v)
  BY <1>3 DEF Good, Used
<1>9. Asking(v, waiting \cup {id})
  BY <1>5 DEF Good, Asking
<1> QED BY <1>5, <1>6, <1>7, <1>8, <1>9 DEF Good, v

LEMMA NotifySound ==
  ASSUME FdoSound, NEW sender \in Sender, NEW hints \in Hints,
         NEW replacesId \in {0} \cup {i \in Id : i < _nextNotificationId},
         NotifyAsync(sender, replacesId, hints)
  PROVE  FdoSound'
<1> DEFINE replaces == replacesId # 0 /\ _notifications[replacesId] # "none"
           id == IF replaces THEN replacesId ELSE _nextNotificationId
           data == Data(World, id, hints)
           known == sender \in _senderToPid \/ _notifications[id] = "shown"
           v == IF known THEN Shown(data, sender, id) ELSE data
<1>0. /\ Good(World, _nextNotificationId, Waiting) /\ Calls
      /\ World.map = _notifications /\ World.closed = closed
  BY SoundIsGood DEF World
<1>1. /\ id <= MaxId /\ Becomes(v) /\ pending' = Asked(sender, id, known \/ replaces)
      /\ _nextNotificationId' = IF replaces THEN _nextNotificationId ELSE _nextNotificationId + 1
      /\ UNCHANGED <<banner, connected, unanswered>>
  BY DEF NotifyAsync
<1>2. /\ id \in Id /\ id \notin closed /\ id < _nextNotificationId'
      /\ _nextNotificationId' \in 1..(MaxId + 1) /\ _nextNotificationId <= _nextNotificationId'
  <2>1. _nextNotificationId \in 1..(MaxId + 1) /\ MaxId \in Nat
    BY <1>0, ConstantsAssumption DEF Calls
  <2>2. CASE replaces
    BY <1>1, <2>1, <2>2, Numbers
  <2>3. CASE ~replaces
    <3>1. id \in Id
      BY <1>1, <2>1, <2>3 DEF Id
    <3> QED BY <1>1, <2>1, <2>3, <3>1 DEF FdoSound, FreshIds
  <2> QED BY <2>2, <2>3
<1>3. ~known /\ replaces => _notifications[id] = "data"
  BY <1>2 DEF FdoSound, TypeOK
<1>4. _nextNotificationId \in Int /\ _nextNotificationId' \in Int
  BY <1>2, Numbers
<1> HIDE DEF id, known, replaces
<1>5. /\ Good(data, _nextNotificationId', Waiting \cup {id})
      /\ data.map[id] = IF _notifications[id] = "shown" THEN "shown" ELSE "data"
  BY <1>0, <1>2, <1>4, DataGood
<1>6. DOMAIN pending' \subseteq Id /\ \A i \in DOMAIN pending' : pending'[i] \in Sender
  BY <1>0, <1>1, <1>2 DEF Asked, OneMore, Calls
<1>7. Calls'
  <2>1. banner' < _nextNotificationId'
    BY <1>0, <1>1, <1>2, <1>4, Numbers DEF Calls
  <2> QED BY <1>0, <1>1, <1>2, <1>6, <2>1 DEF Calls
<1>8. CASE known
  <2>1. pending' = pending
    BY <1>1, <1>8 DEF Asked
  <2>2. Waiting' = Waiting
    BY <1>1, <2>1 DEF Waiting
  <2>3. data.map[id] # "none"
    BY <1>5
  <2> HIDE DEF data
  <2>4. Good(v, _nextNotificationId', Waiting')
    BY <1>2, <1>4, <1>5, <1>8, <2>2, <2>3, ShownGood
  <2> QED BY <1>1, <1>7, <2>4, BecomesSound
<1>9. CASE ~known
  <2>1. Waiting' = Waiting \cup {id}
    <3>1. CASE replaces
      <4>1. pending' = pending
        BY <1>1, <3>1 DEF Asked
      <4>2. id \in Waiting
        BY <1>0, <1>2, <1>3, <1>9, <3>1 DEF Good, Asking
      <4> QED BY <1>1, <4>1, <4>2 DEF Waiting
    <3>2. CASE ~replaces
      <4>1. DOMAIN pending' = DOMAIN pending \cup {id}
        BY <1>1, <1>9, <3>2 DEF Asked, OneMore
      <4> QED BY <1>1, <4>1 DEF Waiting
    <3> QED BY <3>1, <3>2
  <2>2. Good(v, _nextNotificationId', Waiting')
    BY <1>5, <1>9, <2>1
  <2> HIDE DEF v
  <2> QED BY <1>1, <1>7, <2>2, BecomesSound
<1> QED BY <1>8, <1>9


(* The bus answers, and the call is no longer under way.                   *)
LEMMA PidReplySound ==
  ASSUME FdoSound, NEW id \in Id, PidReply(id)
  PROVE  FdoSound'
<1> DEFINE sender == pending[id]
           shown == Shown(World, sender, id)
           v == [shown EXCEPT !.pids = @ \cup {sender},
                              !.forgets[shown.owner[id]] = @ \cup {sender}]
           waiting == (DOMAIN pending \ {id}) \cup unanswered
<1>0. /\ Good(World, _nextNotificationId, Waiting) /\ Calls
      /\ World.map = _notifications /\ World.closed = closed
  BY SoundIsGood DEF World
<1>1. /\ id \in DOMAIN pending /\ sender \in Sender
      /\ Becomes(IF _notifications[id] = "none" THEN World ELSE v)
      /\ pending' = [i \in DOMAIN pending \ {id} |-> pending[i]]
      /\ UNCHANGED <<_nextNotificationId, banner, connected, unanswered>>
  BY <1>0 DEF PidReply, Calls
<1>2. Calls'
  BY <1>0, <1>1 DEF Calls
<1>3. Waiting' = waiting
  BY <1>1 DEF Waiting
<1>4. Waiting \subseteq waiting \cup {id} /\ Asking(World, waiting \cup {id})
  BY <1>0 DEF Waiting, Good, Asking
<1>5. CASE _notifications[id] = "none"
  <2>1. Asking(World, waiting)
    BY <1>0, <1>4, <1>5 DEF Asking
  <2>2. Good(World, _nextNotificationId', Waiting')
    BY <1>0, <1>1, <1>3, <2>1 DEF Good
  <2> QED BY <1>1, <1>2, <1>5, <2>2, BecomesSound
<1>6. CASE _notifications[id] # "none"
  <2>1. Good(World, _nextNotificationId, waiting \cup {id})
    BY <1>0, <1>4 DEF Good
  <2> HIDE DEF waiting, sender
  <2>2. Good(shown, _nextNotificationId, waiting) /\ shown.owner[id] \in Sender
    BY <1>0, <1>1, <1>6, <2>1, Numbers, ShownGood
  <2>3. shown \in Worlds /\ shown.forgets \in [Sender -> SUBSET Sender] /\ shown.pids \subseteq Sender
    BY <2>2 DEF Good, Listed, Worlds
  <2> DEFINE r == shown.owner[id]
             f == [shown.forgets EXCEPT ![r] = @ \cup {sender}]
  <2>4. f \in [Sender -> SUBSET Sender] /\ shown.pids \cup {sender} \subseteq Sender
    BY <1>1, <2>2, <2>3
  <2> HIDE DEF shown
  <2>5. v \in Worlds
    BY <2>3, <2>4 DEF Worlds
  <2>6. /\ v.map = shown.map /\ v.list = shown.list /\ v.owner = shown.owner
        /\ v.closed = shown.closed /\ v.sources = shown.sources
    BY <2>3 DEF Worlds
  <2> HIDE DEF v
  <2>7. Good(v, _nextNotificationId, waiting)
    BY <2>2, <2>5, <2>6 DEF Good, Listed, Numbered, Used, Asking
  <2>8. Good(v, _nextNotificationId', Waiting')
    BY <1>1, <1>3, <2>7
  <2> QED BY <1>1, <1>2, <1>6, <2>8, BecomesSound
<1> QED BY <1>5, <1>6

LEMMA PidErrorSound ==
  ASSUME FdoSound, NEW id \in Id, PidError(id)
  PROVE  FdoSound'
<1>0. Good(World, _nextNotificationId, Waiting) /\ Calls /\ World.map = _notifications
  BY SoundIsGood DEF World
<1>1. /\ pending' = [i \in DOMAIN pending \ {id} |-> pending[i]]
      /\ unanswered' = IF _notifications[id] = "data" THEN unanswered \cup {id} ELSE unanswered
      /\ UNCHANGED <<_notifications, _nextNotificationId, _sources, _senderToPid, forgets, list, owner,
                     transient, resident, banner, connected, closed>>
  BY DEF PidError
<1>2. Calls'
  BY <1>0, <1>1 DEF Calls
<1>3. Asking(World, Waiting')
  BY <1>0, <1>1 DEF Good, Asking, Waiting
<1>4. Good(World, _nextNotificationId', Waiting')
  BY <1>0, <1>1, <1>3 DEF Good
<1> QED BY <1>1, <1>2, <1>4, SameSound

(* Steps that only take a world to a world.                                *)
LEMMA WorldStepSound ==
  ASSUME FdoSound, NEW w, Becomes(w), Good(w, _nextNotificationId, Waiting),
         UNCHANGED <<_nextNotificationId, pending, connected, unanswered>>, banner' \in {0, banner}
  PROVE  FdoSound'
<1>1. Calls
  BY SoundIsGood
<1>2. Waiting' = Waiting
  BY DEF Waiting
<1>3. Calls'
  BY <1>1 DEF Calls
<1>4. Good(w, _nextNotificationId', Waiting')
  BY <1>2
<1> QED BY <1>3, <1>4, BecomesSound

LEMMA CloseSound ==
  ASSUME FdoSound, NEW id \in Id, CloseNotification(id)
  PROVE  FdoSound'
<1> DEFINE w == IF _notifications[id] = "shown" THEN Destroyed(World, id) ELSE World
           v == [w EXCEPT !.map[id] = "none"]
<1>0. Good(World, _nextNotificationId, Waiting) /\ World.map = _notifications
  BY SoundIsGood DEF World
<1>1. /\ _notifications[id] # "none" /\ Becomes(v)
      /\ UNCHANGED <<_nextNotificationId, pending, banner, connected, unanswered>>
  BY DEF CloseNotification
<1>2. id < _nextNotificationId /\ _nextNotificationId \in Int
  BY <1>1, Numbers
<1>3. Good(w, _nextNotificationId, Waiting)
  BY <1>0, <1>2, DestroyedGood
<1>4. w.map[id] # "shown"
  <2>1. CASE _notifications[id] = "shown"
    <3>1. World \in Worlds /\ World.owner[id] \in Sender
      BY <1>0 DEF Good, Listed, Worlds
    <3>2. Emitted(World, {id}) \in Worlds /\ Emitted(World, {id}).map[id] = "none"
      BY <3>1, EmittedWorld
    <3> DEFINE told == Emitted(World, {id})
               s == World.owner[id]
    <3> HIDE DEF told, s
    <3>3. SourceGone(told, s).map = told.map
      BY <3>1, <3>2, SourceGoneWorld DEF told, s
    <3>4. \A l : [told EXCEPT !.list[s] = l].map = told.map
      BY <3>2 DEF told, Worlds
    <3>5. Destroyed(World, id).map = told.map
      BY <3>3, <3>4 DEF Destroyed, told, s
    <3> QED BY <2>1, <3>2, <3>5 DEF told
  <2>2. CASE _notifications[id] # "shown"
    BY <1>0, <2>2
  <2> QED BY <2>1, <2>2
<1> HIDE DEF w
<1>5. w \in Worlds /\ w.map \in [Id -> {"none", "data", "shown"}] /\ w.closed \subseteq Id
  BY <1>3 DEF Good, Listed, Worlds
<1>6. [w.map EXCEPT ![id] = "none"] \in [Id -> {"none", "data", "shown"}]
  BY <1>5
<1>7. v \in Worlds
  BY <1>5, <1>6 DEF Worlds
<1>8. /\ v.map = [w.map EXCEPT ![id] = "none"] /\ v.list = w.list /\ v.owner = w.owner
      /\ v.closed = w.closed /\ v.sources = w.sources
  BY <1>5 DEF Worlds
<1> HIDE DEF v
<1>9. \A i \in Id : v.map[i] = IF i = id THEN "none" ELSE w.map[i]
  BY <1>5, <1>8
<1>10. Listed(v)
  BY <1>3, <1>4, <1>5, <1>7, <1>8, <1>9 DEF Good, Listed
<1>11. Numbered(v, _nextNotificationId) /\ Used(v) /\ Asking(v, Waiting)
  BY <1>3, <1>8, <1>9 DEF Good, Numbered, Used, Asking
<1>12. Good(v, _nextNotificationId, Waiting)
  BY <1>10, <1>11 DEF Good
<1> QED BY <1>1, <1>12, WorldStepSound

LEMMA DismissSound ==
  ASSUME FdoSound, NEW id \in Id, Dismiss(id)
  PROVE  FdoSound'
<1>1. Good(World, _nextNotificationId, Waiting) /\ owner[id] \in Sender
  BY SoundIsGood DEF FdoSound, TypeOK
<1>2. _notifications[id] = "shown"
  BY <1>1 DEF Dismiss, FdoSound, IdsResolve
<1>3. Good(Destroyed(World, id), _nextNotificationId, Waiting)
  BY <1>1, <1>2, Numbers, DestroyedGood
<1> QED BY <1>3, WorldStepSound DEF Dismiss

LEMMA NonResidentSound ==
  ASSUME FdoSound, NEW s \in Sender, DestroyNonResident(s)
  PROVE  FdoSound'
<1>1. Good(NonResidentDestroyed(World, s), _nextNotificationId, Waiting)
  BY SoundIsGood, Numbers, NonResidentGood
<1> QED BY <1>1, WorldStepSound DEF DestroyNonResident

LEMMA NameVanishedSound ==
  ASSUME FdoSound, NEW s \in Sender, _onNameVanished(s)
  PROVE  FdoSound'
<1>1. Good(SourceDestroyed(World, s), _nextNotificationId, Waiting)
  BY SoundIsGood, Numbers, SourceDestroyedGood
<1> QED BY <1>1, WorldStepSound DEF _onNameVanished

LEMMA LeaveSound ==
  ASSUME FdoSound, NEW s \in Sender, Leave(s)
  PROVE  FdoSound'
<1>0. Good(World, _nextNotificationId, Waiting) /\ Calls
  BY SoundIsGood
<1>1. Calls' /\ Waiting' = Waiting /\ _nextNotificationId' = _nextNotificationId
  BY <1>0 DEF Calls, Leave, Waiting
<1>2. Good(World, _nextNotificationId', Waiting')
  BY <1>0, <1>1
<1> QED BY <1>1, <1>2, SameSound DEF Leave

LEMMA BannerSound ==
  ASSUME FdoSound, NEW id \in Id, ShowBanner(id)
  PROVE  FdoSound'
<1>0. Good(World, _nextNotificationId, Waiting) /\ Calls /\ owner[id] \in Sender
  BY SoundIsGood DEF FdoSound, TypeOK
<1>1. _notifications[id] = "shown"
  BY <1>0 DEF ShowBanner, FdoSound, IdsResolve
<1>2. id < _nextNotificationId
  BY <1>1, Numbers
<1>3. Calls' /\ Waiting' = Waiting /\ _nextNotificationId' = _nextNotificationId
  BY <1>0, <1>2 DEF Calls, ShowBanner, Waiting
<1>4. Good(World, _nextNotificationId', Waiting')
  BY <1>0, <1>3
<1> QED BY <1>3, <1>4, SameSound DEF ShowBanner

LEMMA HideSound ==
  ASSUME FdoSound, HideBanner
  PROVE  FdoSound'
<1> DEFINE w == IF banner \in transient THEN Destroyed(World, banner) ELSE World
<1>0. Good(World, _nextNotificationId, Waiting)
  BY SoundIsGood
<1>1. banner \in Id /\ banner < _nextNotificationId
  BY DEF HideBanner, FdoSound, TypeOK, FreshIds
<1>2. Good(w, _nextNotificationId, Waiting)
  BY <1>0, <1>1, Numbers, DestroyedGood
<1>3. Becomes(w) /\ banner' = 0 /\ UNCHANGED <<_nextNotificationId, pending, connected, unanswered>>
  BY DEF HideBanner
<1> HIDE DEF w
<1> QED BY <1>2, <1>3, WorldStepSound

LEMMA NextSound == FdoSound /\ [Next]_vars => FdoSound'
<1> SUFFICES ASSUME FdoSound, [Next]_vars PROVE FdoSound'
  OBVIOUS
<1>1. CASE Next
  <2>1. ASSUME NEW s \in Sender, NEW hints \in Hints,
               NEW id \in {0} \cup {i \in Id : i < _nextNotificationId}, NotifyAsync(s, id, hints)
        PROVE  FdoSound'
    BY <2>1, NotifySound
  <2>2. ASSUME NEW id \in Id,
               PidReply(id) \/ PidError(id) \/ CloseNotification(id) \/ Dismiss(id) \/ ShowBanner(id)
        PROVE  FdoSound'
    BY <2>2, PidReplySound, PidErrorSound, CloseSound, DismissSound, BannerSound
  <2>3. ASSUME NEW s \in Sender, DestroyNonResident(s) \/ Leave(s) \/ _onNameVanished(s)
        PROVE  FdoSound'
    BY <2>3, NonResidentSound, LeaveSound, NameVanishedSound
  <2>4. ASSUME HideBanner
        PROVE  FdoSound'
    BY <2>4, HideSound
  <2> QED BY <1>1, <2>1, <2>2, <2>3, <2>4 DEF Next
<1>2. CASE UNCHANGED vars
  <2>1. Good(World, _nextNotificationId, Waiting) /\ Calls
    BY SoundIsGood
  <2>2. Calls' /\ Waiting' = Waiting /\ _nextNotificationId' = _nextNotificationId
    BY <1>2, <2>1 DEF Calls, Waiting, vars
  <2>3. Good(World, _nextNotificationId', Waiting')
    BY <2>1, <2>2
  <2> QED BY <1>2, <2>2, <2>3, SameSound DEF vars
<1> QED BY <1>1, <1>2

(* Whatever programs notify, replace and close, in whatever order the bus  *)
(* answers and its names vanish: an id leads to the one notification that  *)
(* is listed for it, no id is used twice, closed is said of what has gone  *)
(* only, a source lives while it is used, and data waits only for a call   *)
(* (FdoNotificationDaemon in notificationDaemon.js, Source in              *)
(* messageTray.js).                                                        *)
THEOREM FdoIsSound == Spec => []FdoSound
<1> QED BY InitSound, NextSound, PTL DEF Spec

=============================================================================
