----------------------------- MODULE MCDesktop -----------------------------
(***************************************************************************)
(* Components of the desktop for TLC: the screen shield, the chrome of the *)
(* stage, the on-screen keyboard, drag and drop, the tracker of            *)
(* workspaces and the dash.  They share no state here; a behaviour runs    *)
(* the one that part names.                                                *)
(***************************************************************************)
EXTENDS ScreenShield, TLC

CONSTANTS
  Actor, Struts, TrackFullscreen, CoverPane,       \* those of LayoutManager
  Time, Distance, PressureThreshold, PressureTimeout, MaxDistance,
  MaxHandlers,                                     \* that of Keyboard
  Icons, Thumbnails, Clones, NoDraggable,          \* what may be dragged, by its kind
  win, dlg, NoWindow,                              \* windows of the tracker
  app1, app2, Placeholder, Target, NoDrop, Unplaced  \* of the dash

Draggables == Icons \cup Thumbnails \cup Clones
Kinds ==
  [d \in Draggables |->
     IF d \in Icons THEN "icon" ELSE IF d \in Thumbnails THEN "thumbnail" ELSE "window"]

VARIABLES
  part,  \* the component that this behaviour runs
  phase, monitors, _pendingLoadBackground, inFullscreen, hasWindows,
  _inOverview, windowsVisible, _trackedActors, visible, popup,
  _isPopupWindowVisible, modal, _updateRegionIdle, inputRegion, builtinStruts,
  corner, _enableKeyboard, _keyboard, _keyboardRequested, _keyboardVisible, resting,
  _showIdleId, boxVisible, sliding, handlers, _keyboardHeightNotifyId, _source,
  pressed, currentDraggable, _onEventId, _eventsGrabbed, _buttonDown,
  _dragInProgress, _animationInProgress, _dragCancellable, _actorDestroyed,
  _dragActor, _updateHoverId, heard, refused, thrown,
  trackerScreen, trackerActive, on, _workspaces, _checkWorkspacesId,
  _pauseWorkspaceCheck, _lastRemovedWindow, _keepAliveId, timers, sequence,
  dynamic_workspaces, _isWorkspacePrepended,
  _favorites, running, _box, redisplayQueued, animates, dragged, dropped

Chrome == INSTANCE LayoutManager

Keys == INSTANCE Keyboard

Drag == INSTANCE DragAndDrop
    WITH Draggable <- Draggables, KindOf <- Kinds

Tracker == INSTANCE WorkspaceTracker
    WITH Window <- {win, dlg}, Dialogs <- {dlg}, WorkspaceId <- {1, 2, 3},
         NoWindow <- NoWindow, Places <- {2}, MaxTimers <- 1,
         screen <- trackerScreen, active <- trackerActive

Dashes == INSTANCE Dash
    WITH App <- {app1, app2}, WindowBacked <- {}, MaxItems <- 3,
         MaxChanges <- 1

ASSUME ConstantsAssumptions ==
  /\ MaxPendingAssumption
  /\ Chrome!ActorsAssumption /\ Chrome!CornerAssumption
  /\ Keys!HandlersAssumption
  /\ Drag!ConstantsAssumption
  /\ Tracker!ConstantsAssumption
  /\ Dashes!ConstantsAssumption

chromeVars == <<phase, monitors, _pendingLoadBackground, inFullscreen,
                 hasWindows, _inOverview, windowsVisible, _trackedActors,
                 visible, popup, _isPopupWindowVisible, modal,
                 _updateRegionIdle, inputRegion, builtinStruts, corner>>
keyboardVars == <<_enableKeyboard, _keyboard, _keyboardRequested,
                   _keyboardVisible, resting, _showIdleId, boxVisible,
                   sliding, handlers, _keyboardHeightNotifyId, _source>>
dragVars == <<pressed, currentDraggable, _onEventId, _eventsGrabbed,
               _buttonDown, _dragInProgress, _animationInProgress,
               _dragCancellable, _actorDestroyed, _dragActor, _updateHoverId,
               heard, refused, thrown>>
trackerVars == <<trackerScreen, trackerActive, on, _workspaces,
                  _checkWorkspacesId, _pauseWorkspaceCheck,
                  _lastRemovedWindow, _keepAliveId, timers, sequence,
                  dynamic_workspaces, _isWorkspacePrepended>>
dashVars == <<_favorites, running, _box, redisplayQueued, animates, dragged,
               dropped>>

MCInit ==
  /\ part \in {"shield", "chrome", "corner", "keyboard", "drag", "tracker",
               "dash"}
  /\ Init
  /\ (part # "shield" => lockEnabled /\ config.password /\ ~config.disabled)
  /\ Chrome!Init
  /\ (part \notin {"chrome", "corner"} => monitors)
  /\ (part # "corner" => corner.extended)
  /\ Keys!Init
  /\ Drag!Init
  /\ Tracker!Init
  /\ (part # "tracker" => dynamic_workspaces)
  /\ Dashes!Init

(* A bound: a starting application, a workspace kept alive and the popup   *)
(* of the switcher come one at a time.                                     *)
OneHoldsChecks ==
  /\ sequence' = 0 \/ ~_pauseWorkspaceCheck'
  /\ _keepAliveId' = {} \/ (sequence' = 0 /\ ~_pauseWorkspaceCheck')

(* The corner while nothing else is tracked, and the chrome while nobody   *)
(* is at the corner.                                                       *)
NoChrome == _trackedActors' \subseteq {CoverPane} /\ ~popup' /\ hasWindows'
CornerAtRest == corner'.hit = {} /\ corner'.pointer = "away" /\ corner'.high

MCNext ==
  /\ UNCHANGED part
  /\ \/ /\ part = "shield" /\ Next
        /\ UNCHANGED <<chromeVars, keyboardVars, dragVars, trackerVars, dashVars>>
     \/ /\ part = "chrome" /\ Chrome!Next /\ CornerAtRest
        /\ UNCHANGED <<vars, keyboardVars, dragVars, trackerVars, dashVars>>
     \/ /\ part = "corner" /\ Chrome!Next /\ NoChrome
        /\ UNCHANGED <<vars, keyboardVars, dragVars, trackerVars, dashVars>>
     \/ /\ part = "keyboard" /\ Keys!Next
        /\ UNCHANGED <<vars, chromeVars, dragVars, trackerVars, dashVars>>
     \/ /\ part = "drag" /\ Drag!Next
        /\ UNCHANGED <<vars, chromeVars, keyboardVars, trackerVars, dashVars>>
     \/ /\ part = "tracker" /\ Tracker!Next /\ OneHoldsChecks
        /\ UNCHANGED <<vars, chromeVars, keyboardVars, dragVars, dashVars>>
     \/ /\ part = "dash" /\ Dashes!Next
        /\ UNCHANGED <<vars, chromeVars, keyboardVars, dragVars,
                      trackerVars>>

mcVars == <<part, vars, chromeVars, keyboardVars, dragVars, trackerVars, dashVars>>

MCSpec == MCInit /\ [][MCNext]_mcVars

(* The properties of the components, beside ShieldSound.                   *)
ChromeSound ==
  /\ part \in {"chrome", "corner"} => Chrome!ChromeSound
  /\ part = "keyboard" => Keys!KeyboardSound
  /\ part = "drag" => Drag!DragSound
TrackerSound ==
  /\ part = "tracker" => Tracker!TrackerSound
  /\ part = "dash" => Dashes!DashSound

(* What no step does, as each component states it.                         *)
StepsAreSafe ==
  /\ InhibitedUntilDark
  /\ Drag!EscapeHoldsRelease
  /\ Tracker!ChecksTakeNothing
  /\ Dashes!RedisplayShowsAll
  /\ Dashes!RedisplayKeepsOrder

=============================================================================
