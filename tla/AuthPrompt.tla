------------------------------ MODULE AuthPrompt ------------------------------
(***************************************************************************)
(* Authentication at the unlock screen: UnlockDialog (js/ui/unlockDialog.js)*)
(* and its AuthPrompt (js/gdm/authPrompt.js) over a ShellUserVerifier      *)
(* (js/gdm/util.js).  The verifier asks gdm for a channel and begins the   *)
(* services on it, under a hold (js/gdm/batch.js) that each attempt has    *)
(* anew; a conversation asks, is answered, and stops or completes.         *)
(* Messages are shown one after another, each for a time; what must come   *)
(* after them (an answer, a retry, a reset, the end) waits for             *)
(* 'no-more-messages'.                                                     *)
(*                                                                         *)
(* Signals call their handlers at once, so that a reset runs inside the    *)
(* clearing of the messages that it waited for.                            *)
(***************************************************************************)
EXTENDS Naturals, Sequences
LOCAL INSTANCE SequencesExt

CONSTANTS AllowedFailures,
          MaxCalls,     \* bound: channels asked for and services being begun at once
          MaxMessages,  \* bound: messages not shown yet
          MaxWaiting    \* bound: what waits for them when a failure comes

ConstantsAssumption ==
  {AllowedFailures, MaxCalls, MaxMessages, MaxWaiting} \subseteq Nat \ {0}

VARIABLES
  verificationStatus,  \* "not", "verifying", "failed" or "succeeded"
  _queryingService,    \* a service has asked
  _preemptiveAnswer,   \* an answer was given before the question
  sensitive,           \* the entry and the button take input
  _cancellable,        \* "none", "live" or "cancelled"
  requests,            \* channels asked for: [mine, live]; mine: _cancellable is theirs
  starts,              \* services being begun: [mine, foreground], the latter of _userVerifier
  _hold,               \* its acquisitions; when there are none it takes no more
  crossed,             \* the attempt began before an earlier one was answered (history)
  _userVerifier,       \* "none", "idle" with nothing begun on it, or its conversation
  hasPendingMessages,
  _messageQueue,       \* how many messages were not shown yet
  _messageQueueTimeoutId,
  waiting,             \* handlers of 'no-more-messages', in their order
  _failCounter,
  completed            \* finish has called onComplete

vars == <<verificationStatus, _queryingService, _preemptiveAnswer, sensitive, _cancellable,
          requests, starts, _hold, crossed, _userVerifier, hasPendingMessages, _messageQueue,
          _messageQueueTimeoutId, waiting, _failCounter, completed>>

-----------------------------------------------------------------------------
World == [status |-> verificationStatus, querying |-> _queryingService,
          preempt |-> _preemptiveAnswer, sensitive |-> sensitive, cancellable |-> _cancellable,
          requests |-> requests, starts |-> starts, hold |-> _hold, crossed |-> crossed,
          verifier |-> _userVerifier, pending |-> hasPendingMessages, queue |-> _messageQueue,
          timer |-> _messageQueueTimeoutId, waiting |-> waiting, fails |-> _failCounter, completed |-> completed]

Becomes(next) ==
  \E w \in {next} :
    /\ Len(w.requests) + Len(w.starts) <= MaxCalls
    /\ verificationStatus' = w.status /\ _queryingService' = w.querying
    /\ _preemptiveAnswer' = w.preempt /\ sensitive' = w.sensitive
    /\ _cancellable' = w.cancellable /\ requests' = w.requests /\ starts' = w.starts
    /\ _hold' = w.hold /\ crossed' = w.crossed /\ _userVerifier' = w.verifier
    /\ hasPendingMessages' = w.pending /\ _messageQueue' = w.queue
    /\ _messageQueueTimeoutId' = w.timer /\ waiting' = w.waiting
    /\ _failCounter' = w.fails /\ completed' = w.completed

(* Nothing that is on its way belongs to the cancellable any more.         *)
Orphans(calls) == [k \in DOMAIN calls |-> [calls[k] EXCEPT !.mine = FALSE]]

(* Mutant of begin: the attempt goes on with the hold of the one before.   *)
BeginsOnOldHold(w) ==
  [w EXCEPT !.cancellable = "live",
            !.crossed = w.starts # <<>> \/ \E k \in DOMAIN w.requests : w.requests[k].live,
            !.starts = Orphans(@),
            !.requests = Append(Orphans(@), [mine |-> TRUE, live |-> TRUE])]

(* ShellUserVerifier.begin: the cancellable is replaced, not cancelled, and *)
(* what was asked under the old one will count on the new hold.            *)
begin(w) ==
  [w EXCEPT !.cancellable = "live", !.hold = 1,
            !.crossed = w.starts # <<>> \/ \E k \in DOMAIN w.requests : w.requests[k].live,
            !.starts = Orphans(@),
            !.requests = Append(Orphans(@), [mine |-> TRUE, live |-> TRUE])]

(* AuthPrompt.begin                                                        *)
promptBegin(w) == [begin(w) EXCEPT !.status = "verifying", !.sensitive = FALSE]

cancelCancellable(w) ==
  IF w.cancellable # "live" THEN w
  ELSE [w EXCEPT !.cancellable = "cancelled",
                 !.starts = SelectSeq(@, LAMBDA start : ~start.mine),
                 !.requests = [k \in DOMAIN @ |-> [@[k] EXCEPT !.live = @ /\ ~w.requests[k].mine]]]

(* clear and cancel when no message is pending.                            *)
clearQuiet(w) ==
  [cancelCancellable(w) EXCEPT !.cancellable = "none", !.verifier = "none", !.timer = FALSE]
cancelQuiet(w) == IF w.verifier = "none" THEN cancelCancellable(w) ELSE clearQuiet(w)

(* _cancelAndReset, run when the messages are over: it cancels, the        *)
(* prompt's reset has nothing more to cancel, and the dialog begins again. *)
_cancelAndReset(w) ==
  promptBegin([cancelQuiet(w) EXCEPT !.fails = 0, !.querying = FALSE])

(* Mutant of Handle: the retry is not made if the messages end by a timer. *)
HandleCancelled(w, handler) ==
  CASE handler = "retry" -> IF w.cancellable = "cancelled" THEN begin(w) ELSE w
    [] handler = "reset" -> _cancelAndReset(w)
    [] handler = "answer" ->
         [w EXCEPT !.verifier = IF @ = "asked" THEN "answered" ELSE @]
    [] handler = "finish" -> [clearQuiet(w) EXCEPT !.completed = TRUE]

(* What a handler of 'no-more-messages' does.                              *)
Handle(w, handler) ==
  CASE handler = "retry" -> IF w.cancellable = "live" THEN begin(w) ELSE w
    [] handler = "reset" -> _cancelAndReset(w)
    [] handler = "answer" ->
         [w EXCEPT !.verifier = IF @ = "asked" THEN "answered" ELSE @]
    [] handler = "finish" -> [clearQuiet(w) EXCEPT !.completed = TRUE]

finishMessageQueue(w) ==
  IF ~w.pending THEN w
  ELSE FoldLeft(Handle, [w EXCEPT !.queue = 0, !.pending = FALSE, !.waiting = <<>>], w.waiting)

(* The handlers run while the verifier is gone and before the timer goes.  *)
clear(w) ==
  LET gone == [cancelCancellable(w) EXCEPT !.cancellable = "none", !.verifier = "none"]
  IN  [finishMessageQueue(gone) EXCEPT !.timer = FALSE]

cancel(w) ==
  LET c == cancelCancellable(w) IN IF c.verifier = "none" THEN c ELSE clear(c)

(* AuthPrompt.reset, and UnlockDialog._onReset, which begins again.        *)
reset(w) ==
  promptBegin([cancel([w EXCEPT !.status = "not"]) EXCEPT !.querying = FALSE])

_queueMessageTimeout(w) ==
  IF w.queue = 0 THEN finishMessageQueue(w)
  ELSE IF w.timer THEN w ELSE [w EXCEPT !.queue = @ - 1, !.timer = TRUE]

_queueMessage(w) == _queueMessageTimeout([w EXCEPT !.pending = TRUE, !.queue = @ + 1])

(* A handler waits while messages are shown, and runs at once otherwise.   *)
Waits(w, handler) ==
  IF w.pending THEN [w EXCEPT !.waiting = Append(@, handler)] ELSE Handle(w, handler)

(* _retry is not asked whether it was cancelled when it runs at once, and  *)
(* the prompt is told of the failure after what is done about it.          *)
_verificationFailed(w, retry) ==
  LET failed == [w EXCEPT !.fails = @ + 1]
      canRetry == retry /\ failed.fails < AllowedFailures
      followed == IF canRetry THEN IF w.pending THEN Waits(failed, "retry") ELSE begin(failed)
                  ELSE Waits(failed, "reset")
  IN  [followed EXCEPT !.querying = FALSE, !.sensitive = TRUE, !.status = "failed"]

Released(w) == [w EXCEPT !.hold = IF @ = 0 THEN 0 ELSE @ - 1]

_reportInitError(w) == _verificationFailed(_queueMessage(Released(w)), FALSE)

(* What ends the opening of a channel: a service is begun, and that of the *)
(* finger if there is a reader; each acquires the hold, which is released  *)
(* then.  A hold that takes no more throws before anything is begun.       *)
_beginVerification(w, finger) ==
  LET of(foreground) == <<[mine |-> w.cancellable # "none", foreground |-> foreground]>>
      begun == of(TRUE) \o (IF finger THEN of(FALSE) ELSE <<>>)
  IN  IF w.hold = 0 THEN [w EXCEPT !.verifier = "idle"]
      ELSE [w EXCEPT !.verifier = "running", !.starts = @ \o begun,
                     !.hold = @ + Len(begun) - 1]

answerQuery(w) ==
  IF w.pending THEN Waits(w, "answer")
  ELSE [w EXCEPT !.verifier = IF @ = "asked" THEN "answered" ELSE @]

(* Bounds of the failures, and of the message that comes with one.         *)
MayFail == _failCounter <= AllowedFailures /\ Len(waiting) < MaxWaiting
MayTell == _messageQueue < MaxMessages

Open == _userVerifier \in {"running", "asked", "answered"}

-----------------------------------------------------------------------------
(* UnlockDialog._init resets the prompt.                                   *)
Init ==
  /\ verificationStatus = "verifying" /\ _queryingService = FALSE /\ _preemptiveAnswer = FALSE
  /\ sensitive = TRUE /\ _cancellable = "live" /\ requests = <<[mine |-> TRUE, live |-> TRUE]>>
  /\ starts = <<>> /\ _hold = 1 /\ crossed = FALSE
  /\ _userVerifier = "none" /\ hasPendingMessages = FALSE /\ _messageQueue = 0
  /\ _messageQueueTimeoutId = FALSE /\ waiting = <<>> /\ _failCounter = 0 /\ completed = FALSE

(* _reauthenticationChannelOpened: the verifier there was goes first, also *)
(* when the request was cancelled.                                         *)
ChannelOpened(ok, finger) ==
  LET gone == [k \in DOMAIN starts |-> [starts[k] EXCEPT !.foreground = FALSE]]
      w == [World EXCEPT !.requests = Tail(@), !.verifier = "none", !.starts = gone]
  IN  /\ requests # <<>>
      /\ finger => ok /\ Head(requests).live
      /\ IF ~Head(requests).live THEN ok /\ Becomes(w)
         ELSE IF ok THEN Becomes(_beginVerification(w, finger))
         ELSE MayFail /\ MayTell /\ Becomes(_reportInitError(w))

(* The replies of _startService: a service was begun, or gdm could not.    *)
StartReplied(k) ==
  /\ k \in DOMAIN starts
  /\ Becomes(Released([World EXCEPT !.starts = RemoveAt(@, k)]))

StartFails(k) ==
  /\ k \in DOMAIN starts /\ MayFail /\ MayTell
  /\ starts[k].foreground => _userVerifier \in {"none", "running", "stopped"}
  /\ LET w == [World EXCEPT !.starts = RemoveAt(@, k),
                            !.verifier = IF starts[k].foreground /\ @ = "running" THEN "stopped" ELSE @]
     IN  Becomes(_reportInitError(w))

(* _onInfo, _onProblem                                                     *)
Message == Open /\ MayTell /\ Becomes(_queueMessage(World))

(* _onSecretInfoQuery, _onAskQuestion                                      *)
_onAskQuestion ==
  /\ _userVerifier \in {"running", "answered"}
  /\ LET asked == [World EXCEPT !.verifier = "asked", !.querying = TRUE]
     IN  Becomes(IF _preemptiveAnswer THEN answerQuery([asked EXCEPT !.preempt = FALSE])
                 ELSE [asked EXCEPT !.sensitive = TRUE])

(* The handler of 'next': the user has answered.                           *)
Answer ==
  /\ sensitive /\ ~completed
  /\ LET w == [World EXCEPT !.sensitive = FALSE]
     IN  Becomes(IF _queryingService THEN answerQuery(w) ELSE [w EXCEPT !.preempt = TRUE])

_onConversationStopped ==
  /\ Open /\ MayFail
  /\ Becomes(_verificationFailed([World EXCEPT !.verifier = "stopped"], TRUE))

(* The service in the foreground, or that of the finger.                   *)
_onVerificationComplete ==
  /\ _userVerifier \in {"running", "asked", "answered", "stopped"}
  /\ verificationStatus # "succeeded"
  /\ Becomes([World EXCEPT !.status = "succeeded"])

(* gdm resets the conversation.                                            *)
_onReset == Open /\ Becomes(reset([World EXCEPT !.fails = 0, !.status = "not"]))

_queueMessageTimeoutFires ==
  /\ _messageQueueTimeoutId
  /\ Becomes(_queueMessageTimeout([World EXCEPT !.timer = FALSE]))

(* Escape, the button, the idle watch; or a smartcard comes or goes.       *)
Cancel ==
  /\ verificationStatus # "succeeded" /\ ~completed
  /\ Becomes(reset(World))

finish ==
  /\ verificationStatus = "succeeded" /\ ~completed /\ "finish" \notin Range(waiting)
  /\ Becomes(Waits(World, "finish"))

Next ==
  \/ \E ok, finger \in BOOLEAN : ChannelOpened(ok, finger)
  \/ \E k \in 1..MaxCalls : StartReplied(k) \/ StartFails(k)
  \/ Message \/ _onAskQuestion \/ Answer \/ _onConversationStopped
  \/ _onVerificationComplete \/ _onReset \/ _queueMessageTimeoutFires \/ Cancel \/ finish

(* gdm answers all that it was asked, and the main loop runs the timer of  *)
(* the messages.                                                           *)
Answered ==
  \/ \E ok, finger \in BOOLEAN : ChannelOpened(ok, finger)
  \/ \E k \in 1..MaxCalls : StartReplied(k)
Fairness == WF_vars(Answered) /\ WF_vars(_queueMessageTimeoutFires)
Spec == Init /\ [][Next]_vars /\ Fairness

-----------------------------------------------------------------------------
TypeOK ==
  /\ verificationStatus \in {"not", "verifying", "failed", "succeeded"}
  /\ {_queryingService, _preemptiveAnswer, sensitive, hasPendingMessages, _messageQueueTimeoutId,
      completed} \subseteq BOOLEAN
  /\ _cancellable \in {"none", "live", "cancelled"}
  /\ requests \in Seq([mine : BOOLEAN, live : BOOLEAN])
  /\ starts \in Seq([mine : BOOLEAN, foreground : BOOLEAN])
  /\ _hold \in 0..MaxCalls + 1 /\ crossed \in BOOLEAN
  /\ _userVerifier \in {"none", "idle", "running", "asked", "answered", "stopped"}
  /\ _messageQueue \in 0..MaxMessages /\ _failCounter \in 0..AllowedFailures + 1
  /\ waiting \in Seq({"retry", "reset", "answer", "finish"})

(* While messages are pending their timer runs: else all that waits for    *)
(* their end waits for ever.  What waits, waits for messages.              *)
MessagesMove == (hasPendingMessages => _messageQueueTimeoutId)
                /\ (waiting # <<>> => hasPendingMessages)

(* The prompt is not dead: until the user is let in there is a             *)
(* conversation, one is asked for, or a retry or reset waits (begin,       *)
(* _startService, _verificationFailed).  A channel with nothing begun on   *)
(* it is only that of an attempt that began while calls of an earlier one  *)
(* were on their way (crossed): their replies have used up its hold.       *)
NeverStuck ==
  \/ completed \/ verificationStatus = "succeeded" \/ Open
  \/ \E k \in DOMAIN requests : requests[k].live
  \/ Range(waiting) \cap {"retry", "reset"} # {}
  \/ crossed /\ _userVerifier = "idle"

(* Once the user has failed and the conversation has stopped, its verifier *)
(* does not stay, if gdm answers.                                          *)
StoppedIsFollowed == (_userVerifier = "stopped") ~> (_userVerifier # "stopped")

(* Not properties of the code: a reset that waits for messages runs inside *)
(* the one that clears them, and each begins; it resets a verification     *)
(* that has succeeded while it waited; and a second channel on a hold that *)
(* is used up has nothing begun on it, until the user cancels.             *)
OneRequest == \A j, k \in DOMAIN requests : requests[j].live /\ requests[k].live => j = k
NeverIdle == _userVerifier # "idle"
SucceededStays ==
  [][verificationStatus = "succeeded" /\ ~_onReset => verificationStatus' = "succeeded"]_vars

(* A conversation can always go on: to a message, an answer or a new start.*)
PromptSound == TypeOK /\ MessagesMove /\ NeverStuck

=============================================================================
