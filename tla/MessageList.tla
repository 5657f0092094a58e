----------------------------- MODULE MessageList -----------------------------
(***************************************************************************)
(* The messages of the date menu (js/ui/messageList.js, js/ui/calendar.js, *)
(* js/ui/dateMenu.js): the section of notifications, the section of events *)
(* with the calendar and the source that asks a service for events, and    *)
(* what the list shows of both.                                            *)
(*                                                                         *)
(* A message that is closed is forgotten at once; its container is in the  *)
(* list until its tween ends.  A message that moves shrinks first, and is  *)
(* moved when that tween ends, to the index it was given when it began.    *)
(* Calls to the service are answered in the order they were made.          *)
(*                                                                         *)
(* Abstracted: texts, icons and key focus; the media section, which is     *)
(* empty; the order of events.  The day does not change: what is today     *)
(* stays so.  A date has a stamp, its minutes and milliseconds, which the  *)
(* calendar keeps in the range that it asks for.                           *)
(***************************************************************************)
EXTENDS Naturals, FiniteSets, Sequences, SequencesExt

CONSTANTS
  Note, Urgent,      \* notifications, and those that are urgent
  Event, Day, Today,
  DaysOf,            \* the days of an event
  MonthOf,           \* the month of a day
  Stamp, None,
  MaxCalls           \* bound on calls to the service

MessageListAssumption ==
  /\ Urgent \subseteq Note /\ Today \in Day /\ IsFiniteSet(Note) /\ MaxCalls \in Nat
  /\ DaysOf \in [Event -> SUBSET Day \ {{}}]

Date == [day: Day, stamp: Stamp]
Weeks == [month: {MonthOf[d] : d \in Day}, stamp: Stamp]
WeeksOf(d) == [month |-> MonthOf[d.day], stamp |-> d.stamp]
EventsIn(r) == {e \in Event : \E d \in DaysOf[e] : MonthOf[d] = r.month}

VARIABLES
  mode,      \* what the session mode allows: notifications, events
  open,      \* the menu is open
  notes,     \* the section of notifications: its list of containers,
             \* _nUrgent, empty, canClear, visible
  events,    \* the section of events: what its list has of each event, for
             \* which day, empty, canClear, visible
  top,       \* the list: visible, its placeholder, the button that clears
  date,      \* _date of the sections
  calendar,  \* _selectedDate, and the range of the buttons
  source,    \* the source of events
  ignored,   \* _ignoredEvents, which are kept on disk
  former     \* a source that was replaced may still be answered

vars == <<mode, open, notes, events, top, date, calendar, source, ignored, former>>

World == [mode |-> mode, open |-> open, notes |-> notes, events |-> events, top |-> top,
          date |-> date, calendar |-> calendar, source |-> source, ignored |-> ignored,
          former |-> former]
Becomes(w) ==
  /\ mode' = w.mode /\ open' = w.open /\ notes' = w.notes /\ events' = w.events
  /\ top' = w.top /\ date' = w.date /\ calendar' = w.calendar /\ source' = w.source
  /\ ignored' = w.ignored /\ former' = w.former

-----------------------------------------------------------------------------
(* The containers of a section.  live: the message is in _messages; tween: *)
(* "shrink" before it is moved to index, "out" before it is destroyed;     *)
(* slides: it is being cleared.                                            *)
Container(n) == [note |-> n, live |-> TRUE, tween |-> "none", index |-> 0, slides |-> FALSE]
LiveNotes(w) == {c.note : c \in {x \in ToSet(w.notes.list) : x.live}}
Place(w, n) == CHOOSE i \in DOMAIN w.notes.list : w.notes.list[i].note = n

LiveEvents(w) == {e \in Event : w.events.shown[e] \in {"live", "sliding"}}
InList(w) == {e \in Event : w.events.shown[e] # "no"}
canClose(w) == IF w.events.day = Today THEN LiveEvents(w) ELSE {}

(* The container at place i is put at an index, or at the end.             *)
PutAt(s, c, index) == InsertAt(s, (IF index < Len(s) THEN index ELSE Len(s)) + 1, c)
set_child_at_index(s, i, index) == PutAt(RemoveAt(s, i), s[i], index)

(* CalendarMessageList._sync                                               *)
TopSync(w) ==
  LET shown == {s \in {w.notes, w.events} : s.visible}
  IN  IF ~(w.mode.notes \/ w.mode.events) THEN [w EXCEPT !.top.visible = FALSE]
      ELSE [w EXCEPT !.top =
             [visible |-> TRUE,
              placeholder |-> \A s \in shown : s.empty,
              clear |-> \E s \in shown : ~s.empty,
              reactive |-> \E s \in shown : s.canClear]]

(* MessageListSection._sync of each section; what changes is signalled.    *)
NotesSync(w) ==
  LET none == w.notes.list = <<>>
      n == [w.notes EXCEPT !.empty = none, !.canClear = LiveNotes(w) # {},
                           !.visible = w.mode.notes /\ ~none /\ w.date = Today]
  IN  IF n = w.notes THEN w ELSE TopSync([w EXCEPT !.notes = n])

EventsSync(w) ==
  LET none == InList(w) = {}
      n == [w.events EXCEPT !.empty = none, !.canClear = canClose(w) # {},
                            !.visible = w.mode.events /\ (~none \/ w.date # Today)]
  IN  IF n = w.events THEN w ELSE TopSync([w EXCEPT !.events = n])

-----------------------------------------------------------------------------
(* DBusEventSource and EmptyEventSource                                    *)
EmptySource ==
  [isDummy |-> TRUE, proxy |-> "none", named |-> FALSE, cache |-> {}, last |-> None, cur |-> None,
   isLoading |-> FALSE, calls |-> <<>>, answered |-> None]
DBusSource == [EmptySource EXCEPT !.isDummy = FALSE, !.proxy = "starting"]

_resetCache(s) == [s EXCEPT !.cache = {}, !.last = None]
_loadEvents(s) ==
  IF s.proxy = "ready" /\ s.cur # None THEN [s EXCEPT !.calls = Append(@, s.cur)] ELSE s

(* Mutant of requestRange: what was asked for last is asked for again.     *)
RequestsLast(s, r) ==
  IF s.isDummy \/ s.last = r THEN s
  ELSE [_loadEvents(s) EXCEPT !.isLoading = TRUE, !.last = r, !.cur = r]
requestRange(s, r) ==
  IF s.isDummy \/ s.last = r THEN s
  ELSE _loadEvents([s EXCEPT !.isLoading = TRUE, !.last = r, !.cur = r])

getEvents(w, day) == {e \in w.source.cache \ w.ignored : day \in DaysOf[e]}

(* Calendar                                                                *)
_rebuildCalendar(w) ==
  LET r == WeeksOf(w.calendar.selected)
  IN  [w EXCEPT !.calendar.built = r, !.source = requestRange(@, r)]
_update(w) ==
  IF w.calendar.built # None /\ w.calendar.built.month = MonthOf[w.calendar.selected.day] THEN w
  ELSE _rebuildCalendar(w)

(* EventsSection._reloadEvents: the list is filled again.                  *)
_reloadEvents(w) ==
  LET has == getEvents(w, w.date)
  IN  IF w.source.isLoading THEN w
      ELSE EventsSync([w EXCEPT !.events.day = w.date,
             !.events.shown = [e \in Event |-> IF e \in has THEN "live" ELSE "no"]])

(* `changed' of a source: the calendar hears it first, then the section.   *)
Changed(w) == _reloadEvents(_update(_rebuildCalendar(w)))

(* CalendarMessageList.setDate and Calendar.setDate; the date menu sets    *)
(* that of the list when the other has changed.  The sections sync for     *)
(* another day; the events are loaded again for the same, too.             *)
SetListDate(w, day) ==
  _reloadEvents(IF day = w.date THEN w ELSE EventsSync(NotesSync([w EXCEPT !.date = day])))
setDate(w, d) ==
  IF d.day = w.calendar.selected.day THEN w
  ELSE SetListDate(_update([w EXCEPT !.calendar.selected = d]), d.day)

-----------------------------------------------------------------------------
(* An event that is closed is ignored; if that did not fill the list anew, *)
(* its message leaves.                                                     *)
ignoreEvent(w, e) ==
  IF w.source.isDummy \/ e \in w.ignored THEN w
  ELSE Changed([w EXCEPT !.ignored = @ \cup {e}])
EventClosed(w, e) ==
  LET told == ignoreEvent(w, e)
  IN  IF e \in LiveEvents(told) THEN [told EXCEPT !.events.shown[e] = "leaving"] ELSE told

(* MessageListSection.clear                                                *)
ClearEvents(w) ==
  LET s == canClose(w)
  IN  IF Cardinality(s) < 2 THEN FoldLeft(EventClosed, w, SetToSeq(s))
      ELSE [w EXCEPT !.events.shown = [e \in Event |-> IF e \in s THEN "sliding" ELSE @[e]]]

(* A notification is destroyed, by its source or since its message is      *)
(* closed: it is counted once, and the message leaves.                     *)
ClosesLate(w, n) ==
  [w EXCEPT !.notes.list[Place(w, n)] = [@ EXCEPT !.live = FALSE, !.tween = "out"]]
NoteClosed(w, n) ==
  [ClosesLate(w, n) EXCEPT !.notes._nUrgent = IF n \in Urgent THEN @ - 1 ELSE @]

ClearNotes(w) ==
  LET s == LiveNotes(w)
  IN  IF Cardinality(s) < 2 THEN FoldLeft(NoteClosed, w, SetToSeq(s))
      ELSE [w EXCEPT !.notes.list = [i \in DOMAIN @ |->
             IF @[i].live THEN [@[i] EXCEPT !.slides = TRUE] ELSE @[i]]]

-----------------------------------------------------------------------------
(* NotificationSection                                                     *)
mapped == open /\ top.visible /\ notes.visible
IndexOf(n, count) == IF n \in Urgent THEN 0 ELSE count

_onNotificationAdded(n) ==
  LET count == notes._nUrgent + IF n \in Urgent THEN 1 ELSE 0
  IN  /\ n \notin {c.note : c \in ToSet(notes.list)}
      /\ Becomes(NotesSync([World EXCEPT !.notes._nUrgent = count,
                              !.notes.list = PutAt(@, Container(n), IndexOf(n, count))]))

(* `updated' of a notification: moveMessage                                *)
NotificationUpdated(n) ==
  LET i == Place(World, n)
      index == IndexOf(n, notes._nUrgent)
  IN  /\ n \in LiveNotes(World)
      /\ Becomes([World EXCEPT !.notes.list =
           IF mapped THEN [@ EXCEPT ![i].tween = "shrink", ![i].index = index]
           ELSE set_child_at_index(@, i, index)])

NotificationDestroyed(n) ==
  /\ n \in LiveNotes(World)
  /\ Becomes(NoteClosed(World, n))

(* onComplete of the tweens of a container                                 *)
Shrunk(i) ==
  /\ notes.list[i].tween = "shrink"
  /\ Becomes([World EXCEPT !.notes.list =
       set_child_at_index([@ EXCEPT ![i].tween = "none", ![i].index = 0], i, @[i].index)])

NoteLeft(i) ==
  /\ notes.list[i].tween = "out"
  /\ Becomes(NotesSync([World EXCEPT !.notes.list = RemoveAt(@, i)]))

NoteSlid(i) ==
  LET still == [World EXCEPT !.notes.list[i].slides = FALSE]
  IN  /\ notes.list[i].slides
      /\ Becomes(IF notes.list[i].live THEN NoteClosed(still, notes.list[i].note) ELSE still)

-----------------------------------------------------------------------------
(* EventsSection                                                           *)
CloseEvent(e) == e \in canClose(World) /\ open /\ Becomes(EventClosed(World, e))
EventSlid(e) == events.shown[e] = "sliding" /\ Becomes(EventClosed(World, e))
EventLeft(e) ==
  /\ events.shown[e] = "leaving"
  /\ Becomes(EventsSync([World EXCEPT !.events.shown[e] = "no"]))

(* The button "Clear All"                                                  *)
ClearAll ==
  /\ open /\ top.visible /\ top.clear /\ top.reactive
  /\ Becomes(ClearEvents(ClearNotes(World)))

-----------------------------------------------------------------------------
(* The date menu is opened, on the date of now, or closed.                 *)
OpenMenu(stamp) ==
  LET now == [day |-> Today, stamp |-> stamp]
  IN  ~open /\ Becomes(SetListDate(setDate([World EXCEPT !.open = TRUE], now), Today))
CloseMenu == open /\ Becomes([World EXCEPT !.open = FALSE])

(* A button of the calendar has the stamp of its range, an arrow that of   *)
(* the date that was selected.                                             *)
SelectDate(day) ==
  \E stamp \in {calendar.built.stamp, calendar.selected.stamp} :
    open /\ Becomes(setDate(World, [day |-> day, stamp |-> stamp]))

updateTimeZone == Becomes(_update(_rebuildCalendar(World)))

(* _sessionUpdated: the sections and the list follow the mode, then the    *)
(* source is replaced; the section is not filled anew.                     *)
setEventSource(w, s) ==
  _update(_rebuildCalendar(
    [w EXCEPT !.source = s,
              !.former = @ \/ w.source.calls # <<>> \/ w.source.proxy \in {"starting", "timedOut"}]))
SessionUpdated(m) ==
  Becomes(setEventSource(TopSync(EventsSync(NotesSync([World EXCEPT !.mode = m]))),
                         IF m.events THEN DBusSource ELSE EmptySource))

-----------------------------------------------------------------------------
(* The callback of init_async                                              *)
_onNameAppeared(s) == _loadEvents(_resetCache([s EXCEPT !.proxy = "ready"]))
ProxyLoaded(named) ==
  /\ source.proxy = "starting"
  /\ Becomes([World EXCEPT !.source = _onNameAppeared([@ EXCEPT !.named = named])])
ProxyFails ==
  /\ source.proxy = "starting"
  /\ \E p \in {"timedOut", "failed"} : Becomes([World EXCEPT !.source.proxy = p])

(* The service comes, replaces another or goes.                            *)
NameAppeared ==
  /\ source.proxy \in {"ready", "timedOut"}
  /\ Becomes([World EXCEPT !.source = _onNameAppeared([@ EXCEPT !.named = TRUE])])
_onNameVanished ==
  /\ source.named
  /\ Becomes(Changed([World EXCEPT !.source = [_resetCache(@) EXCEPT !.named = FALSE]]))
_onChanged == source.named /\ Becomes([World EXCEPT !.source = _loadEvents(@)])

(* A call is answered with some of the events of its range, or fails.      *)
_onEventsReceived ==
  /\ source.calls # <<>>
  /\ \E got \in SUBSET EventsIn(Head(source.calls)) :
       Becomes(Changed([World EXCEPT !.source =
         [@ EXCEPT !.cache = got, !.isLoading = FALSE, !.answered = Head(source.calls),
                   !.calls = Tail(@)]]))

(* A source that was replaced is answered: what hears it asks the new one. *)
FormerChanges == former /\ \E more \in BOOLEAN : Becomes(Changed([World EXCEPT !.former = more]))

-----------------------------------------------------------------------------
(* What the session modes of sessionMode.js allow                          *)
Mode == {[notes |-> TRUE, events |-> TRUE], [notes |-> TRUE, events |-> FALSE],
         [notes |-> FALSE, events |-> FALSE]}

Init ==
  \E m \in Mode, stamp \in Stamp :
    LET now == [day |-> Today, stamp |-> stamp]
        none == [empty |-> TRUE, canClear |-> FALSE, visible |-> FALSE]
        empty ==
          [mode |-> m, open |-> FALSE,
           notes |-> [list |-> <<>>, _nUrgent |-> 0] @@ none,
           events |-> [shown |-> [e \in Event |-> "no"], day |-> Today] @@ none,
           top |-> [visible |-> TRUE, placeholder |-> TRUE, clear |-> FALSE, reactive |-> FALSE],
           date |-> Today, calendar |-> [selected |-> now, built |-> None],
           source |-> EmptySource, ignored |-> {}, former |-> FALSE]
        w == setEventSource(TopSync(empty), IF m.events THEN DBusSource ELSE EmptySource)
    IN  /\ mode = m /\ open = FALSE /\ notes = w.notes /\ events = w.events /\ top = w.top
        /\ date = Today /\ calendar = w.calendar /\ source = w.source /\ ignored = {}
        /\ former = FALSE

Next ==
  /\ \/ \E n \in Note : _onNotificationAdded(n) \/ NotificationUpdated(n) \/ NotificationDestroyed(n)
     \/ \E i \in DOMAIN notes.list : Shrunk(i) \/ NoteLeft(i) \/ NoteSlid(i)
     \/ \E e \in Event : CloseEvent(e) \/ EventSlid(e) \/ EventLeft(e)
     \/ \E stamp \in Stamp : OpenMenu(stamp)
     \/ \E d \in Day : SelectDate(d)
     \/ \E m \in Mode : SessionUpdated(m)
     \/ \E named \in BOOLEAN : ProxyLoaded(named)
     \/ CloseMenu \/ ClearAll \/ updateTimeZone \/ ProxyFails \/ NameAppeared \/ _onNameVanished
     \/ _onChanged \/ _onEventsReceived \/ FormerChanges
  /\ Len(source'.calls) <= MaxCalls

Spec == Init /\ [][Next]_vars

-----------------------------------------------------------------------------
TypeOK ==
  /\ mode \in Mode /\ date \in Day /\ ignored \subseteq Event /\ open \in BOOLEAN
  /\ notes._nUrgent \in Nat
  /\ events.shown \in [Event -> {"no", "live", "sliding", "leaving"}] /\ events.day \in Day
  /\ calendar.selected \in Date /\ calendar.built \in Weeks
  /\ source.last \in Weeks \cup {None} /\ source.calls \in Seq(Weeks)

(* _nUrgent is the number of urgent messages that are not closed, however  *)
(* a notification was destroyed: by its source, by its message or while    *)
(* it was being cleared.                                                   *)
UrgentAreCounted == notes._nUrgent = Cardinality(LiveNotes(World) \cap Urgent)

(* What is closed leaves, whatever tween it was in; a notification has one *)
(* container; and the flags that the list reads follow the section, but    *)
(* that there is something to clear until the last of it has left.         *)
ClosedLeave ==
  /\ \A i, j \in DOMAIN notes.list : notes.list[i].note = notes.list[j].note => i = j
  /\ \A c \in ToSet(notes.list) : (c.tween = "out") = ~c.live
  /\ notes.empty = (notes.list = <<>>)
  /\ LiveNotes(World) # {} => notes.canClear
  /\ notes.canClear => notes.list # <<>>

(* When nothing is under way, the section of events has those of the day   *)
(* that the service last gave and the user has not closed.                 *)
EventsAreOfTheDay ==
  ~source.isDummy /\ ~source.isLoading /\ source.calls = <<>> =>
    LiveEvents(World) = getEvents(World, date)

(* Events are never of a range that was left: when the last call is        *)
(* answered, the cache is of the range that was asked for last, which is   *)
(* the one the calendar shows.                                             *)
LastIsAnswered ==
  source.proxy = "ready" /\ source.calls = <<>> /\ source.answered # None =>
    /\ source.answered = source.last
    /\ source.last = calendar.built

(* While it loads, a call or the proxy is under way, unless the proxy has  *)
(* failed.                                                                 *)
LoadingIsUnderWay ==
  source.isLoading => source.calls # <<>> \/ source.proxy \in {"starting", "timedOut", "failed"}

(* The placeholder is there instead of the button exactly when no section  *)
(* shows a message, after any sequence of dates, modes and tweens.         *)
TopMirrors ==
  top.visible =>
    /\ top = TopSync(World).top
    /\ top.placeholder # top.clear

ListSound ==
  TypeOK /\ UrgentAreCounted /\ ClosedLeave /\ EventsAreOfTheDay /\ LastIsAnswered
    /\ LoadingIsUnderWay /\ TopMirrors

(* These do not hold.  "Keep track of urgent notifications to keep them on *)
(* top" (calendar.js, _onNotificationAdded): a message that is added while *)
(* an urgent one leaves, or moved to an index that was counted before      *)
(* another came, is above an urgent one.  An answer to an earlier question *)
(* ends the loading of a later one.  "Clear All" clears one event of many: *)
(* the list is filled anew when the first is ignored, and what slides is   *)
(* there again.                                                            *)
UrgentOnTop ==
  \A i, j \in DOMAIN notes.list :
    notes.list[i].live /\ notes.list[j].live /\ notes.list[j].note \in Urgent /\ i < j =>
      notes.list[i].note \in Urgent \/ notes.list[i].tween = "shrink"
LoadedIsAsked == ~source.isLoading /\ source.answered # None => source.answered = source.last
ClearedGo == [][\A e \in Event : events.shown[e] = "sliding" => events'.shown[e] # "live"]_vars

=============================================================================
