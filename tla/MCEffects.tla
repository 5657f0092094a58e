----------------------------- MODULE MCEffects -----------------------------
(***************************************************************************)
(* For TLC, the places of tiled windows, in small pixels (a notebook needs *)
(* 4, a bar takes 1, a missing pack counts for 1), the backgrounds of the  *)
(* desktop, and what must come to an end: the animations of the windows,   *)
(* each of which the window manager tells the compositor is done, and the  *)
(* conversations of the unlock dialog with the service that verifies the   *)
(* user.  They share no state; a behaviour runs the one that part names.   *)
(***************************************************************************)
EXTENDS PageGeometry, TLC

CONSTANTS main, dialog, NoWindow

VerticalOnly == {"vertical"}
GrowingAreas == {[w |-> 15, h |-> 9], [w |-> 24, h |-> 9], [w |-> 31, h |-> 14]}

ShowSlides == "xml" :> {{}, {"a"}, {"a", "b"}}

Parents == main :> NoWindow @@ dialog :> main

VARIABLES
  part,  \* the component that this behaviour runs
  life, minimized, monitor_sized, modal, _windowType, effects, tweens,
  animationInfo, owed, counted, _skippedActors, overview, _dimmed, _dimmedWindows,
  dimFactor, switching,
  verificationStatus, _queryingService, _preemptiveAnswer, sensitive,
  _cancellable, requests, starts, _hold, crossed, _userVerifier, hasPendingMessages,
  _messageQueue, _messageQueueTimeoutId, waiting, _failCounter, completed,
  picture, monitors, backgrounds, source, managers, fading, animation, loaded, changes

Effects == INSTANCE WindowEffects
    WITH Window <- {main, dialog}, TransientFor <- Parents,
         NoWindow <- NoWindow, MaxLost <- 1, Workspace <- {1, 2, 3}

Prompt == INSTANCE AuthPrompt
    WITH AllowedFailures <- 2, MaxCalls <- 3, MaxMessages <- 1,
         MaxWaiting <- 2

Back == INSTANCE Backgrounds
    WITH Image <- {"a", "b"}, Show <- {"xml"}, Slides <- ShowSlides, None <- NoWindow,
         MaxMonitors <- 2, MaxBackgrounds <- 6, MaxChanges <- 1

ASSUME ConstantsAssumptions ==
  /\ Effects!ConstantsAssumption
  /\ Prompt!ConstantsAssumption
  /\ Back!BackgroundsAssumption

effectsVars == <<life, minimized, monitor_sized, modal, _windowType, effects,
                  tweens, animationInfo, owed, counted, _skippedActors, overview,
                  _dimmed, _dimmedWindows, dimFactor, switching>>
promptVars == <<verificationStatus, _queryingService, _preemptiveAnswer,
                 sensitive, _cancellable, requests, starts, _hold, crossed, _userVerifier,
                 hasPendingMessages, _messageQueue, _messageQueueTimeoutId,
                 waiting, _failCounter, completed>>
backVars == <<picture, monitors, backgrounds, source, managers, fading, animation, loaded, changes>>

MCInit ==
  /\ part \in {"geometry", "effects", "switch", "prompt", "background"}
  /\ Init
  /\ (part # "geometry" => area.w = 24)
  /\ Effects!Init
  /\ switching.active = 1
  /\ Prompt!Init
  /\ Back!Init
  /\ (part # "background" => picture = NoWindow /\ monitors = 1)

(* A bound: no window is resized with an effect behind the overview.       *)
NoResizeBehind == overview' => animationInfo' = {}

(* A bound: two services are being begun.                                  *)
FewStarts == Len(starts') <= 2

(* Workspaces are switched while no window is animated, and the other way. *)
NoSwitch == switching'.active = 1
NoEffects ==
  /\ tweens' = [x \in {main, dialog} |-> {}]
  /\ monitor_sized' \cup modal' \cup _skippedActors' \cup animationInfo' = {}

MCNext ==
  /\ UNCHANGED part
  /\ \/ /\ part = "geometry" /\ Next
        /\ UNCHANGED <<effectsVars, promptVars, backVars>>
     \/ /\ part = "effects" /\ Effects!Next /\ NoResizeBehind /\ NoSwitch
        /\ UNCHANGED <<vars, promptVars, backVars>>
     \/ /\ part = "switch" /\ Effects!Next /\ NoEffects
        /\ UNCHANGED <<vars, promptVars, backVars>>
     \/ /\ part = "prompt" /\ Prompt!Next /\ FewStarts
        /\ UNCHANGED <<vars, effectsVars, backVars>>
     \/ /\ part = "background" /\ Back!Next
        /\ UNCHANGED <<vars, effectsVars, promptVars>>

mcVars == <<part, vars, effectsVars, promptVars, backVars>>

(* Of the component that runs, what its specification is fair to; of the   *)
(* prompt less, that something of it happens.                              *)
MCFairness ==
  /\ \A x \in {main, dialog} : WF_effectsVars(part = "effects" /\ Effects!TweenEnds(x))
  /\ WF_promptVars(part = "prompt" /\ (Prompt!_queueMessageTimeoutFires \/ Prompt!Answered))

MCSpec == MCInit /\ [][MCNext]_mcVars /\ MCFairness

(* The properties of the components.                                       *)
EffectsSound ==
  /\ part = "geometry" => Tiles /\ AssertsHold
  /\ part \in {"effects", "switch"} => Effects!EffectsSound
  /\ part = "background" => Back!BackgroundsSound
  /\ part = "prompt" => Prompt!PromptSound
EverythingEnds == Effects!EffectsEnd /\ Prompt!StoppedIsFollowed

(* What shell-wm.c says of the plugin, and page does not keep.             *)
CountedUntilDone == part = "effects" => Effects!CountedUntilDone

=============================================================================
