------------------------------- MODULE Keyboard -------------------------------
(***************************************************************************)
(* The on-screen keyboard: what asks for it (js/ui/keyboard.js) and the    *)
(* box that slides in and out (showKeyboard, hideKeyboard of               *)
(* js/ui/layout.js).  A request rests for a while before it is followed,   *)
(* so that a focus that moves on does not make the keyboard flicker.       *)
(***************************************************************************)
EXTENDS Naturals

CONSTANT MaxHandlers  \* bound: handlers of 'notify::height' at once

HandlersAssumption == MaxHandlers \in Nat \ {0}

VARIABLES
  _enableKeyboard,     \* the setting, or the last device is a touchscreen
  _keyboard,           \* the keyboard has been set up
  _keyboardRequested, _keyboardVisible,
  resting,             \* what the rest timer will do: "none", "show" or "hide"
  _showIdleId,         \* the idle is there; "stale" once it ran in vain
  boxVisible,          \* keyboardBox.visible
  sliding,             \* the tween of the box: "none", "in" or "out"
  handlers,            \* handlers of the box's 'notify::height'
  _keyboardHeightNotifyId, \* one of them is known by its id
  _source              \* the source in the message tray

vars == <<_enableKeyboard, _keyboard, _keyboardRequested, _keyboardVisible, resting, _showIdleId,
          boxVisible, sliding, handlers, _keyboardHeightNotifyId, _source>>
requests == <<_keyboardRequested, _showIdleId>>
box == <<_keyboardVisible, boxVisible, sliding, handlers, _keyboardHeightNotifyId>>

-----------------------------------------------------------------------------
Init ==
  /\ _enableKeyboard = FALSE /\ _keyboard = FALSE /\ _keyboardRequested = FALSE
  /\ _keyboardVisible = FALSE /\ resting = "none" /\ _showIdleId = "none"
  /\ boxVisible = FALSE /\ sliding = "none" /\ handlers = 0
  /\ _keyboardHeightNotifyId = FALSE /\ _source = FALSE

(* The tween replaces the one that runs; its end is never heard.           *)
showKeyboard ==
  /\ boxVisible' = TRUE /\ sliding' = "in" /\ _keyboardVisible' = TRUE
  /\ UNCHANGED <<handlers, _keyboardHeightNotifyId>>

hideKeyboard(immediate) ==
  /\ handlers' = IF _keyboardHeightNotifyId THEN handlers - 1 ELSE handlers
  /\ _keyboardHeightNotifyId' = FALSE
  /\ _keyboardVisible' = FALSE
  /\ IF immediate THEN sliding' = "none" /\ boxVisible' = FALSE
     ELSE sliding' = "out" /\ UNCHANGED boxVisible

_showKeyboardComplete ==
  /\ sliding = "in" /\ handlers < MaxHandlers
  /\ sliding' = "none" /\ handlers' = handlers + 1 /\ _keyboardHeightNotifyId' = TRUE
  /\ UNCHANGED <<_enableKeyboard, _keyboard, requests, _keyboardVisible, resting, boxVisible, _source>>

_hideKeyboardComplete ==
  /\ sliding = "out"
  /\ sliding' = "none" /\ boxVisible' = FALSE
  /\ UNCHANGED <<_enableKeyboard, _keyboard, requests, _keyboardVisible, resting, handlers,
                 _keyboardHeightNotifyId, _source>>

(* _syncEnabled: the setting or the device that was last used changed.     *)
_syncEnabled(enable) ==
  /\ _enableKeyboard' = enable
  /\ CASE enable /\ ~_keyboard -> _keyboard' = TRUE /\ _source' = TRUE /\ UNCHANGED box
       [] enable /\ _keyboard  -> showKeyboard /\ UNCHANGED <<_keyboard, _source>>
       [] ~enable /\ _keyboard -> hideKeyboard(TRUE) /\ UNCHANGED <<_keyboard, _source>>
       [] ~enable /\ ~_keyboard -> UNCHANGED <<_keyboard, _source, box>>
  /\ UNCHANGED <<requests, resting>>

(* show: a rest that would hide the keyboard goes on, and finds a request. *)
Shows ==
  /\ _showIdleId' = "none" /\ _keyboardRequested' = TRUE
  /\ resting' = IF _keyboardVisible THEN resting ELSE "show"

Hides ==
  /\ _showIdleId' = "none" /\ _keyboardRequested' = FALSE
  /\ resting' = IF _keyboardVisible THEN "hide" ELSE resting

(* A text entry is focused (_onFocusChanged), or the source in the tray is *)
(* opened.                                                                 *)
show ==
  /\ _enableKeyboard /\ Shows
  /\ UNCHANGED <<_enableKeyboard, _keyboard, box, _source>>

hide ==
  /\ _enableKeyboard /\ Hides
  /\ UNCHANGED <<_enableKeyboard, _keyboard, box, _source>>

(* _onKeyFocusChanged: a text of the shell has the focus.                  *)
KeyFocusInText ==
  /\ _keyboard /\ _showIdleId = "none"
  /\ _showIdleId' = "pending"
  /\ UNCHANGED <<_enableKeyboard, _keyboard, _keyboardRequested, box, resting, _source>>

(* A keyboard that is not enabled leaves the id of its idle behind.        *)
ShowIdle ==
  /\ _showIdleId = "pending"
  /\ IF _enableKeyboard THEN Shows
     ELSE _showIdleId' = "stale" /\ UNCHANGED <<_keyboardRequested, resting>>
  /\ UNCHANGED <<_enableKeyboard, _keyboard, box, _source>>

_show ==
  /\ resting = "show" /\ resting' = "none"
  /\ IF _keyboardRequested THEN showKeyboard /\ _source' = FALSE ELSE UNCHANGED <<box, _source>>
  /\ UNCHANGED <<_enableKeyboard, _keyboard, requests>>

_hide ==
  /\ resting = "hide" /\ resting' = "none"
  /\ IF ~_keyboardRequested THEN hideKeyboard(FALSE) /\ _source' = TRUE
     ELSE UNCHANGED <<box, _source>>
  /\ UNCHANGED <<_enableKeyboard, _keyboard, requests>>

Next ==
  \/ _showKeyboardComplete \/ _hideKeyboardComplete \/ show \/ hide \/ KeyFocusInText \/ ShowIdle
  \/ _show \/ _hide \/ \E enable \in BOOLEAN : _syncEnabled(enable)

Spec == Init /\ [][Next]_vars

-----------------------------------------------------------------------------
TypeOK ==
  /\ {_enableKeyboard, _keyboard, _keyboardRequested, _keyboardVisible, boxVisible,
      _keyboardHeightNotifyId, _source}
       \subseteq BOOLEAN
  /\ resting \in {"none", "show", "hide"} /\ _showIdleId \in {"none", "pending", "stale"}
  /\ sliding \in {"none", "in", "out"} /\ handlers \in 0..MaxHandlers

(* What is asked for of an enabled keyboard is shown, or will be when it   *)
(* has rested: no sequence of focus changes loses the last request.        *)
RequestedIsShown ==
  _enableKeyboard /\ _keyboardRequested => _keyboardVisible \/ resting = "show"

(* The box that has come to rest is where 'keyboard-visible-changed' said. *)
BoxFollows == sliding = "none" => boxVisible = _keyboardVisible

(* A keyboard that is all the way in follows its height.                   *)
ShownFollowsHeight == _keyboardVisible /\ sliding = "none" => handlers > 0

(* Not properties of the code: a rest that began before the keyboard was   *)
(* disabled shows it after, and nothing hides it; each device that comes   *)
(* shows the keyboard again, and adds a handler that is never taken away.  *)
DisabledIsHidden == ~_enableKeyboard /\ resting = "none" => ~_keyboardVisible
OneHandler == handlers <= 1

(* The keyboard is where it was asked to be, or a timer will bring it there*)
KeyboardSound == TypeOK /\ RequestedIsShown /\ BoxFollows /\ ShownFollowsHeight

=============================================================================
