----------------------------- MODULE LayoutManager -----------------------------
(***************************************************************************)
(* The chrome of the stage (js/ui/layout.js): the actors above the windows *)
(* that take input and reserve the edges of the screen.  Their visibility  *)
(* follows the overview, the session mode and the windows in fullscreen;   *)
(* the region of the stage that takes input, and the struts, are brought   *)
(* up to date later, before a redraw, and not while there is a modal or    *)
(* the shell starts up.  The hot corner of the primary monitor shows the   *)
(* overview when the pointer presses against its two barriers or, where    *)
(* the display has none that tell, enters it.                              *)
(***************************************************************************)
EXTENDS Integers, Sequences, FiniteSetsExt

CONSTANTS Actor,            \* actors that may be added to the chrome
          Struts,           \* those with affectsStruts
          TrackFullscreen,  \* those with trackFullscreen
          CoverPane,        \* the actor that blocks events while the shell starts
          Time,             \* what the clock of the events may say: it wraps
          Distance,         \* how far an event may press against a barrier
          PressureThreshold, PressureTimeout,
          MaxDistance       \* what of one event counts

CornerAssumption ==
  /\ Time \subseteq Nat /\ Distance \subseteq Nat
  /\ PressureThreshold \in Nat /\ PressureTimeout \in Nat
  /\ MaxDistance \in Nat /\ MaxDistance < PressureThreshold

ActorsAssumption ==
  /\ Struts \cup TrackFullscreen \subseteq Actor
  /\ CoverPane \in Actor \ (Struts \cup TrackFullscreen)

VARIABLES
  phase,             \* of the startup: "unloaded", "loading", "prepared", "animating", "over"
                     \* or "failed"
  monitors,          \* there is a monitor
  _pendingLoadBackground,
  inFullscreen,      \* a window is in fullscreen on the monitor
  hasWindows, _inOverview,
  windowsVisible,    \* global.window_group.visible
  _trackedActors,
  visible,           \* actors that are shown
  popup,             \* an override-redirect popup window is there
  _isPopupWindowVisible,
  modal,             \* modalCount > 0
  _updateRegionIdle,
  inputRegion,       \* the actors whose rectangles take input
  builtinStruts,     \* the actors that reserve an edge, on every workspace
  corner             \* the hot corner, its barriers and their pressure

vars == <<phase, monitors, _pendingLoadBackground, inFullscreen, hasWindows, _inOverview,
          windowsVisible, _trackedActors, visible, popup, _isPopupWindowVisible, modal,
          _updateRegionIdle, inputRegion, builtinStruts, corner>>
startup == <<phase, _pendingLoadBackground>>
screen == <<monitors, inFullscreen, hasWindows, _inOverview>>
shown == <<windowsVisible, visible>>
popups == <<popup, _isPopupWindowVisible>>
regions == <<inputRegion, builtinStruts>>

StartingUp == phase # "over"

-----------------------------------------------------------------------------
(* Mutant of _queueUpdateRegions: nothing is queued in a modal.            *)
QueuesOutsideModals == _updateRegionIdle' = (_updateRegionIdle \/ ~(StartingUp \/ modal))

_queueUpdateRegions == _updateRegionIdle' = (_updateRegionIdle \/ ~StartingUp)

(* _updateVisibility, over the state that the handler has set.             *)
_updateVisibility(actors) ==
  LET windows == hasWindows' /\ ~_inOverview'
      hidden == windows /\ monitors' /\ inFullscreen'
      tracked == TrackFullscreen \cap _trackedActors
  IN  /\ windowsVisible' = windows
      /\ visible' = IF hidden THEN actors \ tracked ELSE actors \cup tracked

(* What the regions would be, were they computed now.                      *)
WantedRegion == IF popup THEN {} ELSE _trackedActors \cap visible
WantedStruts == IF monitors THEN _trackedActors \cap Struts ELSE {}

(* The body of _updateRegions.                                             *)
SetRegions ==
  /\ _updateRegionIdle' = FALSE
  /\ IF modal THEN UNCHANGED <<regions, _isPopupWindowVisible>>
     ELSE /\ inputRegion' = WantedRegion /\ builtinStruts' = WantedStruts
          /\ _isPopupWindowVisible' = popup

-----------------------------------------------------------------------------
(* _updateHotCorners, setBarrierSize: barriers of a new size are others,   *)
(* which nothing has hit.                                                  *)
Barriers(some, high) == IF some /\ high THEN {"vertical", "horizontal"} ELSE {}
NewCorner(some, high, extended) ==
  [extended |-> extended, high |-> high, barriers |-> Barriers(some, high), hit |-> {},
   events |-> <<>>, pressure |-> 0, triggered |-> FALSE, entered |-> FALSE,
   pointer |-> "away"]

(* The overview has its own reasons to refuse, and may begin to hide.      *)
_toggleOverview ==
  \/ UNCHANGED <<screen, shown, _updateRegionIdle>>
  \/ /\ ~inFullscreen /\ ~_inOverview /\ _inOverview' = TRUE
     /\ UNCHANGED <<monitors, inFullscreen, hasWindows>>
     /\ _updateVisibility(visible) /\ _queueUpdateRegions

Reset(c) == [c EXCEPT !.events = <<>>, !.pressure = 0]
Pressure(events) ==
  LET sum[n \in 0..Len(events)] == IF n = 0 THEN 0 ELSE sum[n - 1] + events[n].distance
  IN  sum[Len(events)]

(* Mutant of _trimBarrierEvents: what is trimmed still presses.            *)
TrimsEvents(c, time) ==
  LET old == {n \in 0..Len(c.events) : \A i \in 1..n : c.events[i].time < time - PressureTimeout}
  IN  [c EXCEPT !.events = SubSeq(c.events, Max(old) + 1, Len(c.events))]

_trimBarrierEvents(c, time) ==
  LET old == {n \in 0..Len(c.events) : \A i \in 1..n : c.events[i].time < time - PressureTimeout}
      n == Max(old)
  IN  [c EXCEPT !.events = SubSeq(c.events, n + 1, Len(c.events)),
                !.pressure = c.pressure - Pressure(SubSeq(c.events, 1, n))]

Pushed(c, time, distance) ==
  [c EXCEPT !.events = Append(c.events, [time |-> time, distance |-> distance]),
            !.pressure = c.pressure + distance]

(* The action mode is that of windows and the overview, unless something   *)
(* else is modal.                                                          *)
ModeFits == IF phase # "over" THEN {FALSE} ELSE IF modal THEN BOOLEAN ELSE {TRUE}

_onBarrierHit(b, time, distance, slides) ==
  /\ corner.extended /\ b \in corner.barriers
  /\ \E fits \in ModeFits :
       LET hit == [corner EXCEPT !.hit = corner.hit \cup {b}]
           ignored == corner.triggered \/ ~fits \/ (slides /\ distance < PressureThreshold)
           least == IF distance < MaxDistance THEN distance ELSE MaxDistance
           pushed == Pushed(_trimBarrierEvents(hit, time), time, least)
           triggers == distance >= PressureThreshold \/ pushed.pressure >= PressureThreshold
       IN  CASE ignored -> corner' = hit /\ UNCHANGED <<screen, shown, _updateRegionIdle>>
             [] ~ignored /\ triggers ->
                  corner' = Reset([hit EXCEPT !.triggered = TRUE]) /\ _toggleOverview
             [] OTHER -> corner' = pushed /\ UNCHANGED <<screen, shown, _updateRegionIdle>>
  /\ UNCHANGED <<startup, _trackedActors, popups, modal, regions>>

_onBarrierLeft(b) ==
  /\ b \in corner.hit
  /\ LET left == [corner EXCEPT !.hit = corner.hit \ {b}]
     IN  corner' = IF left.hit = {} THEN Reset([left EXCEPT !.triggered = FALSE]) ELSE left
  /\ UNCHANGED <<startup, screen, shown, _trackedActors, popups, modal, _updateRegionIdle,
                 regions>>

(* _panelBoxChanged: the panel has another height, or only another place.  *)
_panelBoxChanged(high) ==
  /\ monitors
  /\ corner' = [corner EXCEPT !.high = high, !.barriers = Barriers(monitors, high), !.hit = {}]
  /\ UNCHANGED <<startup, screen, shown, _trackedActors, popups, modal, _updateRegionIdle,
                 regions>>

(* Without barriers that tell: the corner, and the environs around it,     *)
(* which must be left as well before it is entered again.                  *)
_onCornerEntered ==
  /\ ~corner.extended /\ monitors /\ corner.pointer # "corner"
  /\ corner' = [corner EXCEPT !.pointer = "corner", !.entered = TRUE]
  /\ IF corner.entered THEN UNCHANGED <<screen, shown, _updateRegionIdle>> ELSE _toggleOverview
  /\ UNCHANGED <<startup, _trackedActors, popups, modal, regions>>

(* _onCornerLeft, _onEnvironsLeft                                          *)
_onLeft(to) ==
  /\ ~corner.extended /\ monitors /\ corner.pointer # to
  /\ <<corner.pointer, to>> \in {"corner", "environs"} \X {"environs", "away"}
  /\ corner' = [corner EXCEPT !.pointer = to, !.entered = corner.entered /\ to = "environs"]
  /\ UNCHANGED <<startup, screen, shown, _trackedActors, popups, modal, _updateRegionIdle,
                 regions>>

(* Something is dragged over the corner from outside the shell.            *)
handleDragOver ==
  /\ ~corner.extended /\ monitors /\ corner.pointer = "corner"
  /\ _toggleOverview
  /\ UNCHANGED <<startup, _trackedActors, popups, modal, regions, corner>>

CornerNext ==
  \/ \E b \in corner.barriers, time \in Time, distance \in Distance, slides \in BOOLEAN :
       _onBarrierHit(b, time, distance, slides)
  \/ \E b \in corner.hit : _onBarrierLeft(b)
  \/ \E high \in BOOLEAN : _panelBoxChanged(high)
  \/ _onCornerEntered \/ handleDragOver
  \/ \E to \in {"environs", "away"} : _onLeft(to)

-----------------------------------------------------------------------------
Init ==
  /\ phase = "unloaded" /\ monitors \in BOOLEAN /\ _pendingLoadBackground = FALSE
  /\ inFullscreen = FALSE /\ hasWindows = FALSE /\ _inOverview = FALSE
  /\ windowsVisible = FALSE /\ _trackedActors = {} /\ visible = Actor \ {CoverPane}
  /\ popup = FALSE /\ _isPopupWindowVisible = FALSE /\ modal = FALSE
  /\ _updateRegionIdle = FALSE /\ inputRegion = {} /\ builtinStruts = {}
  /\ \E extended \in BOOLEAN : corner = NewCorner(monitors, TRUE, extended)

(* init, _loadBackground: without a monitor it waits for one.              *)
init ==
  /\ phase = "unloaded" /\ ~_pendingLoadBackground
  /\ IF monitors THEN phase' = "loading" /\ UNCHANGED _pendingLoadBackground
     ELSE _pendingLoadBackground' = TRUE /\ UNCHANGED phase
  /\ UNCHANGED <<screen, shown, _trackedActors, popups, modal, _updateRegionIdle, regions, corner>>

(* 'loaded': _prepareStartupAnimation needs a monitor for where to grow    *)
(* from, and the regions of the full size before it shrinks the stage.     *)
_prepareStartupAnimation ==
  /\ phase = "loading" /\ CoverPane \notin _trackedActors
  /\ phase' = IF monitors THEN "prepared" ELSE "failed"
  /\ _trackedActors' = _trackedActors \cup {CoverPane}
  /\ visible' = visible \cup {CoverPane}
  /\ _updateRegionIdle' = FALSE
  /\ IF modal THEN UNCHANGED <<regions, _isPopupWindowVisible>>
     ELSE /\ inputRegion' = IF popup THEN {} ELSE (_trackedActors \cap visible) \cup {CoverPane}
          /\ builtinStruts' = WantedStruts /\ _isPopupWindowVisible' = popup
  /\ UNCHANGED <<screen, _pendingLoadBackground, windowsVisible, popup, modal, corner>>

_startupAnimation ==
  /\ phase = "prepared" /\ phase' = "animating"
  /\ UNCHANGED <<_pendingLoadBackground, screen, shown, _trackedActors, popups, modal,
                 _updateRegionIdle, regions, corner>>

_startupAnimationComplete ==
  /\ phase = "animating" /\ phase' = "over"
  /\ _trackedActors' = _trackedActors \ {CoverPane} /\ visible' = visible \ {CoverPane}
  /\ _updateRegionIdle' = TRUE
  /\ UNCHANGED <<_pendingLoadBackground, screen, windowsVisible, popups, modal, regions, corner>>

(* addChrome, trackChrome                                                  *)
_trackActor(a) ==
  /\ a \in Actor \ {CoverPane} /\ a \notin _trackedActors
  /\ _trackedActors' = _trackedActors \cup {a}
  /\ visible' = IF a \notin TrackFullscreen THEN visible
                ELSE IF windowsVisible /\ monitors /\ inFullscreen THEN visible \ {a}
                ELSE visible \cup {a}
  /\ _queueUpdateRegions
  /\ UNCHANGED <<startup, screen, windowsVisible, popups, modal, regions, corner>>

_untrackActor(a) ==
  /\ a \in _trackedActors \ {CoverPane}
  /\ _trackedActors' = _trackedActors \ {a}
  /\ _queueUpdateRegions
  /\ UNCHANGED <<startup, screen, shown, popups, modal, regions, corner>>

(* An actor of the chrome is shown or hidden by its owner.                 *)
NotifyVisible(a) ==
  /\ a \in _trackedActors \ (TrackFullscreen \cup {CoverPane})
  /\ visible' = IF a \in visible THEN visible \ {a} ELSE visible \cup {a}
  /\ _queueUpdateRegions
  /\ UNCHANGED <<startup, screen, windowsVisible, _trackedActors, popups, modal, regions, corner>>

(* The overview's group is not told to the regions here but by its         *)
(* 'notify::visible'.                                                      *)
ShowOverview(inside) ==
  /\ _inOverview = ~inside /\ _inOverview' = inside
  /\ UNCHANGED <<monitors, inFullscreen, hasWindows>>
  /\ _updateVisibility(visible) /\ _queueUpdateRegions
  /\ UNCHANGED <<startup, _trackedActors, popups, modal, regions, corner>>

_sessionUpdated ==
  /\ hasWindows' = ~hasWindows
  /\ UNCHANGED <<monitors, inFullscreen, _inOverview>>
  /\ _updateVisibility(visible) /\ _queueUpdateRegions
  /\ UNCHANGED <<startup, _trackedActors, popups, modal, regions, corner>>

_updateFullscreen ==
  /\ inFullscreen' = ~inFullscreen
  /\ UNCHANGED <<monitors, hasWindows, _inOverview>>
  /\ _updateVisibility(visible) /\ _queueUpdateRegions
  /\ UNCHANGED <<startup, _trackedActors, popups, modal, regions, corner>>

(* The last monitor goes, or one comes: a load that waited for it begins.  *)
_updateMonitors ==
  /\ monitors' = ~monitors
  /\ IF ~monitors /\ _pendingLoadBackground
     THEN phase' = "loading" /\ _pendingLoadBackground' = FALSE
     ELSE UNCHANGED startup

_monitorsChanged ==
  /\ _updateMonitors
  /\ UNCHANGED <<inFullscreen, hasWindows, _inOverview>>
  /\ _updateVisibility(visible) /\ _queueUpdateRegions
  /\ corner' = NewCorner(monitors', corner.high, corner.extended)
  /\ UNCHANGED <<_trackedActors, popups, modal, regions>>

(* A popup comes or goes: 'restacked'.                                     *)
_windowsRestacked ==
  /\ popup' = ~popup
  /\ UNCHANGED screen
  /\ IF _isPopupWindowVisible # popup' THEN _updateVisibility(visible) /\ _queueUpdateRegions
     ELSE UNCHANGED <<shown, _updateRegionIdle>>
  /\ UNCHANGED <<startup, _trackedActors, _isPopupWindowVisible, modal, regions, corner>>

PushModal ==
  /\ ~modal /\ modal' = TRUE
  /\ UNCHANGED <<startup, screen, shown, _trackedActors, popups, _updateRegionIdle, regions, corner>>

modalEnded ==
  /\ modal /\ modal' = FALSE
  /\ _queueUpdateRegions
  /\ UNCHANGED <<startup, screen, shown, _trackedActors, popups, regions, corner>>

_updateRegions ==
  /\ _updateRegionIdle
  /\ SetRegions
  /\ UNCHANGED <<startup, screen, shown, _trackedActors, popup, modal, corner>>

Next ==
  \/ init \/ _prepareStartupAnimation \/ _startupAnimation \/ _startupAnimationComplete
  \/ \E a \in Actor : _trackActor(a) \/ _untrackActor(a) \/ NotifyVisible(a)
  \/ \E inside \in BOOLEAN : ShowOverview(inside)
  \/ _sessionUpdated \/ _updateFullscreen \/ _monitorsChanged \/ _windowsRestacked
  \/ PushModal \/ modalEnded \/ _updateRegions \/ CornerNext

Spec == Init /\ [][Next]_vars

-----------------------------------------------------------------------------
TypeOK ==
  /\ phase \in {"unloaded", "loading", "prepared", "animating", "over", "failed"}
  /\ {monitors, _pendingLoadBackground, inFullscreen, hasWindows, _inOverview, windowsVisible,
      popup, _isPopupWindowVisible, modal, _updateRegionIdle} \subseteq BOOLEAN
  /\ \A s \in {_trackedActors, visible, inputRegion, builtinStruts} : s \subseteq Actor
  /\ corner.hit \subseteq corner.barriers /\ corner.barriers \subseteq Barriers(monitors, TRUE)

(* When nothing is queued, outside of modals and of the startup, the       *)
(* regions are those of the actors as they are: nothing that is hidden     *)
(* takes the clicks of a window, and no strut of an actor that went stays. *)
RegionsFollow ==
  ~StartingUp /\ ~modal /\ ~_updateRegionIdle =>
    inputRegion = WantedRegion /\ builtinStruts = WantedStruts

(* The panel gives way to a window in fullscreen, and comes back with the  *)
(* overview and when the windows are not shown.                            *)
FullscreenHides ==
  \A a \in TrackFullscreen \cap _trackedActors :
    a \in visible <=> ~(windowsVisible /\ monitors /\ inFullscreen)

(* The pressure is that of the events that are kept, none of them too old; *)
(* it never stands at what would have triggered, and counts from nothing   *)
(* once it has; a corner that was left can be entered again.               *)
PressureIsKept ==
  /\ corner.pressure = Pressure(corner.events) /\ corner.pressure < PressureThreshold
  /\ corner.triggered => corner.events = <<>>
  /\ corner.entered => corner.pointer # "away"

(* The regions of input and what a fullscreen window hides follow the      *)
(* chrome, and the corner counts what presses against it.                  *)
ChromeSound == TypeOK /\ RegionsFollow /\ FullscreenHides /\ PressureIsKept

(* Do not hold.  A corner that has triggered waits for its barriers to be  *)
(* left: when the panel is allocated in between they are others, which     *)
(* nobody leaves before they are hit, and what next presses is ignored.    *)
(* And the clock of the events wraps: what was kept before it did is never *)
(* too old afterwards.                                                     *)
TriggeredIsHit == corner.triggered => corner.hit # {}
OldEventsGo ==
  \A i \in DOMAIN corner.events :
    corner.events[Len(corner.events)].time - corner.events[i].time \in 0..PressureTimeout

=============================================================================
