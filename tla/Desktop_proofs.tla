---------------------------- MODULE Desktop_proofs ----------------------------
(***************************************************************************)
(* The components of the desktop, in every behaviour.                      *)
(*                                                                         *)
(* The screen shield, whatever the order of its tweens, its timers, its    *)
(* dialog and its crashes: a session that is locked has all input, is      *)
(* remembered as locked and has a curtain or a fresh dialog, and the       *)
(* inhibitor of the sleep that it holds is given up only in the dark, or   *)
(* taken by a refusal of logind.  Each callback is a function on worlds.   *)
(* The lemmas say of each of them that it maps good worlds to good ones    *)
(* (ShieldSound of the world that it becomes) and gives up the inhibitor   *)
(* only in the dark; an action then becomes the world that its callback    *)
(* makes.                                                                  *)
(*                                                                         *)
(* The on-screen keyboard, what is dragged, and the chrome with its hot    *)
(* corner: the regions of input follow the actors, the pressure is that of *)
(* the events that are kept, and a drag gives back what it took.           *)
(***************************************************************************)
EXTENDS MCDesktop, SequenceTheorems, NaturalsInduction, WellFoundedInduction, TLAPS

-----------------------------------------------------------------------------

LockScreen == <<"unlock-dialog", "lock-screen">>
Dialogs == [there: BOOLEAN, modal: BOOLEAN, verified: BOOLEAN]

WorldType ==
  [state: {"HIDDEN", "SHOWING", "SHOWN", "HIDING"}, curtain: {"none", "hide", "restore", "show"},
   toBlack: BOOLEAN, dialog: Dialogs, finishing: SUBSET {FALSE}, zoom: BOOLEAN,
   modal: BOOLEAN, active: BOOLEAN, locked: BOOLEAN, visible: BOOLEAN, long: Lightbox,
   short: Lightbox, watch: BOOLEAN, beats: Nat, timeout: BOOLEAN, mode: Modes,
   inhibitor: BOOLEAN, inhibiting: Nat, was: BOOLEAN, late: BOOLEAN, refused: BOOLEAN]

ConfigType == config \in [password: BOOLEAN, disabled: BOOLEAN] /\ lockEnabled \in BOOLEAN

(* The curtain and its mode, the dialog, the lock and the inhibitor of a   *)
(* world.                                                                  *)
Curtained(w) ==
  /\ w.state = "SHOWING" => w.mode = LockScreen
  /\ w.state = "HIDDEN" => w.mode # LockScreen /\ w.curtain # "restore"
Attended(w) ==
  w.dialog.there => w.locked /\ w.state # "SHOWN" /\ w.curtain # "restore"
Held(w) == w.locked => w.modal /\ config.password
Kept(w) == w.locked => w.was /\ w.mode # <<>>
Delays(w) == config.disabled => ~w.inhibitor /\ w.inhibiting = 0

Solid(w) == w \in WorldType /\ Curtained(w) /\ Held(w) /\ Kept(w) /\ Delays(w)
Good(w) == Solid(w) /\ Attended(w)

(* The inhibitor of w is kept by v, or given up in the dark.               *)
Dark(w, v) ==
  w.inhibitor /\ ~v.inhibitor =>
    v.state = "SHOWN" \/ v.short = "shown" \/ ~lockEnabled
Steady(w, v) == v.inhibitor = w.inhibitor /\ v.inhibiting = w.inhibiting

-----------------------------------------------------------------------------
(* The session modes: the only three stacks of them.                       *)
LEMMA TwoInSeq ==
  ASSUME NEW S, NEW a \in S, NEW b \in S
  PROVE  <<a>> \in Seq(S) /\ <<a, b>> \in Seq(S)
<1>1. <<a>> \in Seq(S)
  OBVIOUS
<1>2. <<a, b>> \in [1..2 -> S]
  OBVIOUS
<1> QED BY <1>1, <1>2

LEMMA AppendTwo ==
  ASSUME NEW S, NEW a \in S, NEW b \in S
  PROVE  Append(<<a>>, b) = <<a, b>>
<1>1. <<a>> \in Seq(S) /\ <<a, b>> \in Seq(S)
  BY TwoInSeq
<1>2. Append(<<a>>, b) \in Seq(S) /\ Len(Append(<<a>>, b)) = 2
  BY <1>1
<1>3. Append(<<a>>, b)[1] = a /\ Append(<<a>>, b)[2] = b /\ 1..2 = {1, 2}
  BY <1>1
<1>4. \A i \in 1..2 : Append(<<a>>, b)[i] = <<a, b>>[i]
  BY <1>3
<1> QED BY <1>1, <1>2, <1>4, SeqEqual

LEMMA FrontTwo ==
  ASSUME NEW S, NEW a \in S, NEW b \in S
  PROVE  Front(<<a, b>>) = <<a>>
<1>1. <<a>> \in Seq(S) /\ <<a, b>> \in Seq(S) /\ Len(<<a, b>>) = 2
  BY TwoInSeq
<1> DEFINE f == SubSeq(<<a, b>>, 1, 1)
<1>2. f \in Seq(S) /\ Len(f) = 1 /\ f[1] = a /\ 1..1 = {1}
  BY <1>1
<1>3. \A i \in 1..1 : f[i] = <<a>>[i]
  BY <1>2
<1>4. f = <<a>>
  BY <1>1, <1>2, <1>3, SeqEqual
<1> QED BY <1>1, <1>4 DEF Front

LEMMA ModeFacts ==
  /\ Top(<<>>) = "user" /\ Top(<<"unlock-dialog">>) = "unlock-dialog"
  /\ Top(LockScreen) = "lock-screen"
  /\ Front(<<"unlock-dialog">>) = <<>> /\ Front(LockScreen) = <<"unlock-dialog">>
  /\ Append(<<>>, "unlock-dialog") = <<"unlock-dialog">>
  /\ Append(<<"unlock-dialog">>, "lock-screen") = LockScreen
  /\ LockScreen # <<>> /\ <<"unlock-dialog">> # <<>> /\ LockScreen # <<"unlock-dialog">>
  /\ Modes = {<<>>, <<"unlock-dialog">>, LockScreen}
<1>1. Len(<<"unlock-dialog">>) = 1 /\ Len(LockScreen) = 2 /\ Len(<<>>) = 0
  BY DEF LockScreen
<1> DEFINE names == {"unlock-dialog", "lock-screen"}
<1>9. "unlock-dialog" \in names /\ "lock-screen" \in names
  OBVIOUS
<1> HIDE DEF names
<1>2. Front(<<"unlock-dialog">>) = <<>>
  BY DEF Front
<1>3. Front(LockScreen) = <<"unlock-dialog">>
  BY <1>9, FrontTwo DEF LockScreen
<1>4. Top(<<"unlock-dialog">>) = "unlock-dialog" /\ Top(LockScreen) = "lock-screen"
  BY <1>1 DEF Top, Last, LockScreen
<1>5. Append(<<>>, "unlock-dialog") = <<"unlock-dialog">>
  OBVIOUS
<1>6. Append(<<"unlock-dialog">>, "lock-screen") = LockScreen
  BY <1>9, AppendTwo DEF LockScreen
<1>7. LockScreen # <<>> /\ <<"unlock-dialog">> # <<>> /\ LockScreen # <<"unlock-dialog">>
  BY <1>1
<1>8. Top(<<>>) = "user" /\ Modes = {<<>>, <<"unlock-dialog">>, LockScreen}
  BY DEF Top, Modes, LockScreen
<1> QED BY <1>2, <1>3, <1>4, <1>5, <1>6, <1>7, <1>8

(* popMode and pushMode change the mode only, to another of the three.     *)
LEMMA PopIsMode ==
  ASSUME NEW w \in WorldType
  PROVE  /\ popMode(w, "lock-screen") =
              [w EXCEPT !.mode = IF @ = LockScreen THEN <<"unlock-dialog">> ELSE @]
         /\ popMode(popMode(w, "lock-screen"), "unlock-dialog") = [w EXCEPT !.mode = <<>>]
<1> DEFINE Dialog == <<"unlock-dialog">>
<1>1. /\ Top(<<>>) = "user" /\ Top(Dialog) = "unlock-dialog" /\ Top(LockScreen) = "lock-screen"
      /\ Front(Dialog) = <<>> /\ Front(LockScreen) = Dialog
      /\ Dialog # <<>> /\ LockScreen # <<>> /\ Dialog # LockScreen
  BY ModeFacts
<1>2. w.mode = <<>> \/ w.mode = Dialog \/ w.mode = LockScreen
  BY ModeFacts DEF WorldType
<1> HIDE DEF Dialog
<1> SUFFICES
      /\ popMode(w, "lock-screen") = [w EXCEPT !.mode = IF @ = LockScreen THEN Dialog ELSE @]
      /\ popMode(popMode(w, "lock-screen"), "unlock-dialog") = [w EXCEPT !.mode = <<>>]
  BY DEF Dialog
<1>3. CASE w.mode = <<>>
  BY <1>1, <1>3 DEF popMode, WorldType
<1>4. CASE w.mode = Dialog
  BY <1>1, <1>4 DEF popMode, WorldType
<1>5. CASE w.mode = LockScreen
  BY <1>1, <1>5 DEF popMode, WorldType
<1> QED BY <1>2, <1>3, <1>4, <1>5

LEMMA PushIsMode ==
  ASSUME NEW w \in WorldType
  PROVE  /\ w.mode = <<>> => pushMode(w, "unlock-dialog") = [w EXCEPT !.mode = <<"unlock-dialog">>]
         /\ w.mode = <<"unlock-dialog">> =>
              pushMode(w, "lock-screen") = [w EXCEPT !.mode = LockScreen]
BY ModeFacts DEF pushMode, WorldType

LEMMA TopIsMode ==
  ASSUME NEW w \in WorldType
  PROVE  /\ (Top(w.mode) = "user") <=> (w.mode = <<>>)
         /\ (Top(w.mode) = "lock-screen") <=> (w.mode = LockScreen)
         /\ w.mode # <<>> /\ w.mode # LockScreen => w.mode = <<"unlock-dialog">>
<1>1. w.mode \in Modes
  BY DEF WorldType
<1> QED BY <1>1, ModeFacts

LEMMA ModesAreTyped ==
  ASSUME NEW w \in WorldType, NEW m \in Modes
  PROVE  [w EXCEPT !.mode = m] \in WorldType
BY DEF WorldType

-----------------------------------------------------------------------------
(* The inhibitor: only a shield that is not active asks for it again.      *)
SameShield(v, w) ==
  /\ v.state = w.state /\ v.curtain = w.curtain /\ v.dialog = w.dialog /\ v.modal = w.modal
  /\ v.locked = w.locked /\ v.mode = w.mode /\ v.was = w.was /\ v.short = w.short

LEMMA SyncIsGood ==
  ASSUME ConfigType, NEW w \in WorldType, Delays(w), NEW a \in BOOLEAN
  PROVE  LET v == _setActive(w, a)
         IN  v \in WorldType /\ Delays(v) /\ SameShield(v, w) /\ (a \/ Dark(w, v))
<1> DEFINE v == _setActive(w, a)
           u == [w EXCEPT !.active = a]
<1>1. u \in WorldType /\ u.active = a /\ Delays(u) /\ SameShield(u, w) /\ u.inhibitor = w.inhibitor
  BY DEF WorldType, Delays, SameShield
<1> HIDE DEF u
<1>2. v = _syncInhibitor(u)
  BY DEF _setActive, u
<1> HIDE DEF v
<1>3. CASE ~a /\ lockEnabled /\ ~config.disabled
  <2>1. v = [u EXCEPT !.inhibiting = @ + 1]
    BY <1>1, <1>2, <1>3 DEF _syncInhibitor
  <2> DEFINE n == u.inhibiting + 1
  <2>2. n \in Nat
    BY <1>1 DEF WorldType
  <2>3. v = [u EXCEPT !.inhibiting = n]
    BY <2>1
  <2> HIDE DEF n
  <2>4. v \in WorldType /\ SameShield(v, u) /\ v.inhibitor = u.inhibitor /\ v.inhibiting = n
    BY <1>1, <2>2, <2>3 DEF WorldType, SameShield
  <2>5. n > 0
    BY <1>1 DEF WorldType, n
  <2> QED BY <1>1, <1>3, <2>4, <2>5 DEF SameShield, Delays, Dark, v
<1>4. CASE a \/ ~lockEnabled \/ config.disabled
  <2>1. v = [u EXCEPT !.inhibitor = FALSE]
    BY <1>1, <1>2, <1>4 DEF _syncInhibitor
  <2>2. v \in WorldType /\ SameShield(v, u) /\ ~v.inhibitor /\ v.inhibiting = u.inhibiting
    BY <1>1, <2>1, ZenonT(40) DEF WorldType, SameShield
  <2> QED BY <1>1, <1>4, <2>2 DEF SameShield, Delays, Dark, v
<1> QED BY <1>3, <1>4 DEF ConfigType

(* A world that differs from a good one in what no invariant is about, or  *)
(* only in the inhibitor, is good.                                         *)
LEMMA SameIsGood ==
  ASSUME NEW w, NEW v \in WorldType, Good(w), Delays(v), SameShield(v, w)
  PROVE  Good(v)
BY DEF Good, Solid, SameShield, Curtained, Attended, Held, Kept

LEMMA DarkAfterSteady ==
  ASSUME NEW w, NEW u, NEW v, Steady(w, u), Dark(u, v)
  PROVE  Dark(w, v)
BY DEF Steady, Dark

LEMMA ShownIsGood ==
  ASSUME ConfigType, NEW w, Good(w)
  PROVE  Good(_completeLockScreenShown(w))
<1>1. w \in WorldType /\ Delays(w)
  BY DEF Good, Solid
<1> QED BY <1>1, SyncIsGood, SameIsGood DEF _completeLockScreenShown

-----------------------------------------------------------------------------
(* The end of the shield.                                                  *)
LEMMA CompleteIsGood ==
  ASSUME ConfigType, NEW w \in WorldType, Curtained(w), Delays(w)
  PROVE  Good(_completeDeactivate(w)) /\ Dark(w, _completeDeactivate(w))
<1> DEFINE u == [LightboxesHidden(w) EXCEPT !.dialog = NoDialog, !.visible = FALSE,
                   !.watch = FALSE, !.timeout = FALSE, !.was = FALSE, !.zoom = FALSE]
           v == _setActive(u, FALSE)
<1>1. u \in WorldType /\ Delays(u) /\ Steady(w, u)
      /\ u.state = w.state /\ u.mode = w.mode /\ u.curtain = w.curtain /\ ~u.dialog.there
  <2>1. NoDialog \in Dialogs /\ ~NoDialog.there
    BY DEF Dialogs, NoDialog
  <2>2. /\ u \in WorldType /\ u.dialog = NoDialog
        /\ u.state = w.state /\ u.mode = w.mode /\ u.curtain = w.curtain
    <3> HIDE DEF Dialogs, NoDialog
    <3> QED BY <2>1, ZenonT(40) DEF WorldType, Lightbox, LightboxesHidden
  <2>3. Delays(u) /\ Steady(w, u)
    BY DEF WorldType, LightboxesHidden, Delays, Steady
  <2> QED BY <2>1, <2>2, <2>3
<1> HIDE DEF u
<1>2. v \in WorldType /\ Delays(v) /\ SameShield(v, u) /\ Dark(u, v)
  BY <1>1, SyncIsGood
<1> HIDE DEF v
<1>3. _completeDeactivate(w) = [v EXCEPT !.locked = FALSE]
  BY DEF _completeDeactivate, u, v
<1> DEFINE x == [v EXCEPT !.locked = FALSE]
<1>4. x \in WorldType /\ ~x.locked /\ x.state = v.state /\ x.curtain = v.curtain
      /\ x.dialog = v.dialog /\ x.mode = v.mode /\ x.inhibitor = v.inhibitor
      /\ x.inhibiting = v.inhibiting /\ x.short = v.short
  BY <1>2 DEF WorldType
<1> HIDE DEF x
<1>5. Good(x)
  BY <1>1, <1>2, <1>4 DEF Good, Solid, Curtained, Attended, Held, Kept, Delays, SameShield
<1>6. Dark(w, x)
  BY <1>1, <1>2, <1>4 DEF Dark, Steady
<1> QED BY <1>3, <1>5, <1>6 DEF x

(* The curtain rises.                                                      *)
LEMMA HideIsGood ==
  ASSUME NEW w, Solid(w), w.dialog.there => w.locked
  PROVE  LET v == _hideLockScreen(w, TRUE)
         IN  Good(v) /\ Steady(w, v)
<1>1. CASE w.state = "HIDDEN"
  BY <1>1 DEF _hideLockScreen, Solid, Good, Attended, Curtained, Steady
<1>2. CASE w.state # "HIDDEN"
  <2> DEFINE v == [w EXCEPT !.state = "HIDING", !.curtain = "hide"]
  <2>1. /\ v \in WorldType /\ v.state = "HIDING" /\ v.curtain = "hide" /\ v.dialog = w.dialog
        /\ v.modal = w.modal /\ v.locked = w.locked /\ v.mode = w.mode /\ v.was = w.was
        /\ v.inhibitor = w.inhibitor /\ v.inhibiting = w.inhibiting
    BY DEF Solid, WorldType
  <2>2. _hideLockScreen(w, TRUE) = v
    BY <1>2 DEF _hideLockScreen
  <2> HIDE DEF v
  <2> QED BY <2>1, <2>2 DEF Solid, Good, Attended, Curtained, Held, Kept, Delays, Steady
<1> QED BY <1>1, <1>2

LEMMA HideEnds ==
  ASSUME NEW w \in WorldType
  PROVE  LET v == _hideLockScreenComplete(w)
         IN  /\ v \in WorldType /\ v.state = "HIDDEN" /\ v.curtain = "none"
             /\ v.mode # LockScreen /\ (w.mode # <<>> => v.mode # <<>>)
             /\ v.dialog = w.dialog /\ v.modal = w.modal /\ v.locked = w.locked
             /\ v.was = w.was /\ Steady(w, v)
<1> DEFINE m == IF w.mode = LockScreen THEN <<"unlock-dialog">> ELSE w.mode
           v == [w EXCEPT !.state = "HIDDEN", !.curtain = "none", !.mode = m]
<1>1. m \in Modes /\ m # LockScreen /\ (w.mode # <<>> => m # <<>>)
  BY ModeFacts DEF WorldType
<1>2. _hideLockScreenComplete(w) = v
  BY PopIsMode, ZenonT(40) DEF _hideLockScreenComplete, WorldType
<1> HIDE DEF m
<1>3. /\ v \in WorldType /\ v.state = "HIDDEN" /\ v.curtain = "none" /\ v.dialog = w.dialog
      /\ v.modal = w.modal /\ v.locked = w.locked /\ v.mode = m /\ v.was = w.was
      /\ v.inhibitor = w.inhibitor /\ v.inhibiting = w.inhibiting
  BY <1>1 DEF WorldType
<1> HIDE DEF v
<1> QED BY <1>1, <1>2, <1>3 DEF Steady

LEMMA HideEndIsGood ==
  ASSUME NEW w, Good(w)
  PROVE  LET v == _hideLockScreenComplete(w)
         IN  Good(v) /\ Steady(w, v)
<1>1. w \in WorldType
  BY DEF Good, Solid
<1> QED
  BY <1>1, HideEnds DEF Good, Solid, Attended, Curtained, Held, Kept, Delays, Steady

-----------------------------------------------------------------------------
(* deactivate.  Only a session that is not locked is deactivated with an   *)
(* animation, so the end of the tween finds no lock and no dialog.         *)
LEMMA ContinueIsGood ==
  ASSUME ConfigType, NEW w, Solid(w), NEW animate \in BOOLEAN,
         animate => ~w.locked /\ ~w.dialog.there
  PROVE  LET v == _continueDeactivate(w, animate)
         IN  Good(v) /\ Dark(w, v)
<1> DEFINE h == _hideLockScreen(w, animate)
           g == popMode(popMode(h, "lock-screen"), "unlock-dialog")
           b == [g EXCEPT !.dialog.modal = FALSE, !.modal = FALSE]
<1>1. w \in WorldType /\ Curtained(w) /\ Delays(w)
  BY DEF Solid
<1>2. /\ h \in WorldType /\ h.state \in {"HIDING", "HIDDEN"}
      /\ h.state = "HIDDEN" => h.curtain # "restore"
      /\ h.dialog = w.dialog /\ h.locked = w.locked /\ Steady(w, h)
  <2>1. CASE w.state = "HIDDEN"
    BY <1>1, <2>1 DEF _hideLockScreen, Curtained, Steady
  <2>2. CASE w.state # "HIDDEN" /\ animate
    BY <1>1, <2>2 DEF _hideLockScreen, WorldType, Steady
  <2>3. CASE w.state # "HIDDEN" /\ ~animate
    BY <1>1, <2>3, HideEnds DEF _hideLockScreen
  <2> QED BY <2>1, <2>2, <2>3
<1> HIDE DEF h
<1>3. g = [h EXCEPT !.mode = <<>>]
  BY <1>2, PopIsMode
<1>4. /\ g \in WorldType /\ g.mode = <<>> /\ g.state = h.state /\ g.curtain = h.curtain
      /\ g.dialog = h.dialog /\ g.locked = h.locked /\ Steady(h, g)
  BY <1>2, <1>3, ModeFacts, ZenonT(40) DEF WorldType, Steady
<1> HIDE DEF g
<1>5. /\ b \in WorldType /\ b.mode = <<>> /\ b.state = h.state /\ b.curtain = h.curtain
      /\ b.dialog.there = h.dialog.there /\ b.locked = h.locked /\ Steady(h, b)
  BY <1>4 DEF WorldType, Dialogs, Steady
<1>6. _continueDeactivate(w, animate) =
        IF animate THEN [b EXCEPT !.zoom = TRUE] ELSE _completeDeactivate(b)
  BY DEF _continueDeactivate, b, g, h
<1> HIDE DEF b
<1>7. Curtained(b) /\ Delays(b) /\ Steady(w, b)
  BY <1>1, <1>2, <1>5, ModeFacts DEF Curtained, Delays, Steady
<1>8. CASE animate
  <2> DEFINE z == [b EXCEPT !.zoom = TRUE]
  <2>1. /\ z \in WorldType /\ z.mode = b.mode /\ z.state = b.state /\ z.curtain = b.curtain
        /\ z.dialog = b.dialog /\ z.locked = b.locked /\ z.inhibitor = b.inhibitor
        /\ z.inhibiting = b.inhibiting
    BY <1>5 DEF WorldType
  <2> HIDE DEF z
  <2>2. Good(z) /\ Dark(w, z)
    BY <1>2, <1>5, <1>7, <1>8, <2>1
       DEF Good, Solid, Attended, Curtained, Held, Kept, Delays, Steady, Dark
  <2> QED BY <1>6, <1>8, <2>2 DEF z
<1>9. CASE ~animate
  <2>1. Good(_completeDeactivate(b)) /\ Dark(b, _completeDeactivate(b))
    BY <1>5, <1>7, CompleteIsGood
  <2> QED BY <1>6, <1>7, <1>9, <2>1, DarkAfterSteady
<1> QED BY <1>8, <1>9

LEMMA DeactivateIsGood ==
  ASSUME ConfigType, NEW w, Good(w), NEW animate \in BOOLEAN, animate => ~w.locked
  PROVE  LET v == deactivate(w, animate)
         IN  Good(v) /\ Dark(w, v)
<1>1. animate => ~w.dialog.there
  BY DEF Good, Attended
<1>2. CASE w.dialog.there /\ w.late
  <2> DEFINE v == [w EXCEPT !.finishing = @ \cup {animate}]
  <2>1. w \in WorldType /\ ~animate
    BY <1>1, <1>2 DEF Good, Solid
  <2>2. v \in WorldType /\ v.mode = w.mode /\ v.state = w.state /\ v.curtain = w.curtain
        /\ v.dialog = w.dialog /\ v.locked = w.locked /\ v.inhibitor = w.inhibitor
        /\ v.inhibiting = w.inhibiting /\ v.modal = w.modal /\ v.was = w.was
    BY <2>1 DEF WorldType
  <2>3. deactivate(w, animate) = v
    BY <1>2 DEF deactivate
  <2> HIDE DEF v
  <2> QED BY <2>2, <2>3 DEF Good, Solid, Attended, Curtained, Held, Kept, Delays, Dark
<1>3. CASE ~(w.dialog.there /\ w.late)
  <2>1. deactivate(w, animate) = _continueDeactivate(w, animate)
    BY <1>3 DEF deactivate
  <2> QED BY <1>1, <2>1, ContinueIsGood DEF Good
<1> QED BY <1>2, <1>3

-----------------------------------------------------------------------------
(* The dialog of a session that is locked, which has the modal and a mode. *)
LEMMA EnsureIsDialog ==
  ASSUME NEW w, Solid(w), w.locked
  PROVE  LET v == _ensureUnlockDialog(w)
         IN  /\ HasUnlockDialog(w) /\ Solid(v) /\ Steady(w, v)
             /\ v.locked /\ v.state = w.state /\ v.curtain = w.curtain
<1>1. w \in WorldType /\ w.modal /\ w.mode # <<>>
  BY DEF Solid, Held, Kept
<1>2. HasUnlockDialog(w) = TRUE
  BY <1>1, TopIsMode DEF HasUnlockDialog, WorldType, Dialogs
<1>3. CASE w.dialog.there
  BY <1>2, <1>3 DEF _ensureUnlockDialog, Steady
<1>4. CASE ~w.dialog.there
  <2> DEFINE v == [w EXCEPT !.dialog = [there |-> TRUE, modal |-> TRUE, verified |-> FALSE]]
  <2>1. _ensureUnlockDialog(w) = v
    BY <1>1, <1>2, <1>4, TopIsMode DEF _ensureUnlockDialog
  <2>2. v \in WorldType /\ v.mode = w.mode /\ v.state = w.state /\ v.curtain = w.curtain
        /\ v.locked = w.locked /\ v.inhibitor = w.inhibitor
        /\ v.inhibiting = w.inhibiting /\ v.modal = w.modal /\ v.was = w.was
    BY <1>1 DEF WorldType, Dialogs
  <2> HIDE DEF v
  <2> QED BY <1>2, <2>1, <2>2 DEF Solid, Curtained, Held, Kept, Delays, Steady
<1> QED BY <1>3, <1>4

LEMMA LiftIsGood ==
  ASSUME ConfigType, NEW w, Good(w)
  PROVE  LET v == _liftShield(w)
         IN  Good(v) /\ Dark(w, v)
<1>1. CASE ~w.locked
  BY <1>1, DeactivateIsGood DEF _liftShield
<1>2. CASE w.locked
  <2> DEFINE u == _ensureUnlockDialog(w)
  <2>1. HasUnlockDialog(w) /\ Solid(u) /\ Steady(w, u) /\ u.locked
    BY <1>2, EnsureIsDialog DEF Good
  <2> HIDE DEF u
  <2>2. Good(_hideLockScreen(u, TRUE)) /\ Steady(u, _hideLockScreen(u, TRUE))
    BY <2>1, HideIsGood
  <2>3. _liftShield(w) = _hideLockScreen(u, TRUE)
    BY <1>2, <2>1 DEF _liftShield, u
  <2> QED BY <2>1, <2>2, <2>3 DEF Steady, Dark
<1>3. w.locked \in BOOLEAN
  BY DEF Good, Solid, WorldType
<1> QED BY <1>1, <1>2, <1>3

-----------------------------------------------------------------------------
(* The curtain comes down.                                                 *)
LEMMA LockShownIsGood ==
  ASSUME ConfigType, NEW w \in WorldType, Held(w), Kept(w), Delays(w), NEW animate \in BOOLEAN
  PROVE  LET v == _lockScreenShown(w, animate)
         IN  Good(v) /\ v.state = "SHOWN" /\ v.mode = w.mode
<1> DEFINE s == [w EXCEPT !.dialog = NoDialog, !.state = "SHOWN", !.curtain = "none"]
<1>1. /\ s \in WorldType /\ s.state = "SHOWN" /\ ~s.dialog.there /\ s.mode = w.mode
      /\ s.modal = w.modal /\ s.locked = w.locked /\ s.was = w.was
      /\ s.inhibitor = w.inhibitor /\ s.inhibiting = w.inhibiting
  BY DEF WorldType, NoDialog, Dialogs
<1>2. _lockScreenShown(w, animate) =
        IF w.toBlack /\ animate THEN [s EXCEPT !.beats = @ + 1]
        ELSE IF w.toBlack THEN _completeLockScreenShown(_activateFade(s, "short", "shown"))
        ELSE _completeLockScreenShown(s)
  BY DEF _lockScreenShown
<1> HIDE DEF s
<1>3. Good(s)
  BY <1>1 DEF Good, Solid, Curtained, Attended, Held, Kept, Delays
<1>4. CASE w.toBlack /\ animate
  <2> DEFINE n == s.beats + 1
             v == [s EXCEPT !.beats = n]
  <2>1. n \in Nat
    BY <1>1 DEF WorldType
  <2>2. v = [s EXCEPT !.beats = @ + 1]
    OBVIOUS
  <2> HIDE DEF n
  <2>3. v \in WorldType /\ SameShield(v, s) /\ Steady(s, v)
    BY <1>1, <2>1 DEF WorldType, SameShield, Steady
  <2> HIDE DEF v
  <2>4. Good(v)
    BY <1>3, <2>3, SameIsGood DEF Steady, Delays, Good, Solid
  <2> QED BY <1>1, <1>2, <1>4, <2>2, <2>3, <2>4 DEF SameShield
<1>5. CASE w.toBlack /\ ~animate
  <2> DEFINE f == [s EXCEPT !.short = "shown", !.watch = TRUE]
  <2>1. _activateFade(s, "short", "shown") = f
    BY DEF _activateFade
  <2>2. /\ f \in WorldType /\ f.state = s.state /\ f.mode = s.mode /\ f.dialog = s.dialog
        /\ f.curtain = s.curtain /\ f.modal = s.modal /\ f.locked = s.locked
        /\ f.was = s.was /\ f.inhibitor = s.inhibitor /\ f.inhibiting = s.inhibiting
    BY <1>1 DEF WorldType, Lightbox
  <2> HIDE DEF f
  <2>3. Good(f)
    BY <1>3, <2>2 DEF Good, Solid, Curtained, Attended, Held, Kept, Delays
  <2> DEFINE v == _completeLockScreenShown(f)
  <2>4. Good(v) /\ v.state = f.state /\ v.mode = f.mode
    BY <2>3, ShownIsGood, SyncIsGood DEF SameShield, _completeLockScreenShown, Good, Solid
  <2> HIDE DEF v
  <2> QED BY <1>1, <1>2, <1>5, <2>1, <2>2, <2>4 DEF v
<1>6. CASE ~w.toBlack
  <2> DEFINE v == _completeLockScreenShown(s)
  <2>1. Good(v) /\ v.state = s.state /\ v.mode = s.mode
    BY <1>3, ShownIsGood, SyncIsGood DEF SameShield, _completeLockScreenShown, Good, Solid
  <2> HIDE DEF v
  <2> QED BY <1>1, <1>2, <1>6, <2>1 DEF v
<1>7. w.toBlack \in BOOLEAN
  BY DEF WorldType
<1> QED BY <1>4, <1>5, <1>6, <1>7

(* _resetLockScreen(animate) of a curtain that is up: a session mode above *)
(* the user's is needed for the mode of the lock screen.                   *)
LEMMA PushesLockScreen ==
  ASSUME NEW w, Solid(w), w.state = "HIDDEN", w.mode # <<>>
  PROVE  w.mode = <<"unlock-dialog">> /\ Top(w.mode) # "lock-screen"
BY TopIsMode DEF Solid, Curtained

LEMMA RaiseIsSolid ==
  ASSUME NEW w, Solid(w), w.state = "HIDDEN" => w.mode # <<>>, NEW toBlack \in BOOLEAN
  PROVE  LET v == _resetLockScreen(w, TRUE, toBlack)
         IN  /\ Solid(v) /\ Steady(w, v) /\ v.dialog = w.dialog /\ v.locked = w.locked
             /\ v = w \/ (v.state = "SHOWING" /\ v.curtain = "show")
<1>1. CASE w.state # "HIDDEN"
  BY <1>1 DEF _resetLockScreen, Steady
<1>2. CASE w.state = "HIDDEN"
  <2> DEFINE s == [w EXCEPT !.state = "SHOWING", !.toBlack = toBlack, !.curtain = "show"]
             v == [s EXCEPT !.mode = LockScreen]
  <2>1. w.mode = <<"unlock-dialog">> /\ Top(w.mode) # "lock-screen"
    BY <1>2, PushesLockScreen
  <2>2. /\ s \in WorldType /\ s.state = "SHOWING" /\ s.curtain = "show" /\ s.dialog = w.dialog
        /\ s.mode = w.mode /\ s.modal = w.modal /\ s.locked = w.locked /\ s.was = w.was
        /\ s.inhibitor = w.inhibitor /\ s.inhibiting = w.inhibiting
    BY DEF WorldType, Solid
  <2>3. _resetLockScreen(w, TRUE, toBlack) = pushMode(s, "lock-screen")
    BY <1>2, <2>1 DEF _resetLockScreen
  <2> HIDE DEF s
  <2>4. _resetLockScreen(w, TRUE, toBlack) = v
    BY <2>1, <2>2, <2>3, PushIsMode
  <2>5. /\ v \in WorldType /\ v.state = "SHOWING" /\ v.curtain = "show" /\ v.dialog = w.dialog
        /\ v.mode = LockScreen /\ v.modal = w.modal /\ v.locked = w.locked /\ v.was = w.was
        /\ v.inhibitor = w.inhibitor /\ v.inhibiting = w.inhibiting
    BY <2>2, ModeFacts, ZenonT(40) DEF WorldType
  <2> HIDE DEF v
  <2>6. LockScreen # <<>>
    BY ModeFacts
  <2> QED BY <2>4, <2>5, <2>6 DEF Solid, Curtained, Held, Kept, Delays, Steady
<1> QED BY <1>1, <1>2

LEMMA ResetIsGood ==
  ASSUME ConfigType, NEW w, Good(w), w.state = "HIDDEN" => w.mode # <<>>,
         NEW animate \in BOOLEAN, NEW toBlack \in BOOLEAN
  PROVE  LET v == _resetLockScreen(w, animate, toBlack)
         IN  Good(v) /\ Dark(w, v)
<1>1. CASE w.state # "HIDDEN"
  BY <1>1 DEF _resetLockScreen, Dark
<1>2. CASE animate
  <2> DEFINE v == _resetLockScreen(w, TRUE, toBlack)
  <2>1. /\ Solid(v) /\ Steady(w, v) /\ v.dialog = w.dialog /\ v.locked = w.locked
        /\ v = w \/ (v.state = "SHOWING" /\ v.curtain = "show")
    BY RaiseIsSolid DEF Good
  <2> HIDE DEF v
  <2>2. Good(v) /\ Dark(w, v)
    BY <2>1 DEF Good, Attended, Steady, Dark
  <2>3. animate = TRUE
    BY <1>2
  <2> QED BY <2>2, <2>3 DEF v
<1>3. CASE w.state = "HIDDEN" /\ ~animate
  <2> DEFINE s == [w EXCEPT !.state = "SHOWING", !.toBlack = toBlack]
             x == _lockScreenShown(s, FALSE)
             v == [x EXCEPT !.mode = LockScreen]
  <2>1. w.mode = <<"unlock-dialog">> /\ Top(w.mode) # "lock-screen"
    BY <1>3, PushesLockScreen DEF Good
  <2>2. /\ s \in WorldType /\ s.mode = w.mode /\ s.modal = w.modal /\ s.locked = w.locked
        /\ s.was = w.was /\ s.inhibitor = w.inhibitor /\ s.inhibiting = w.inhibiting
    BY DEF WorldType, Good, Solid
  <2>3. _resetLockScreen(w, animate, toBlack) = pushMode(x, "lock-screen")
    BY <1>3, <2>1 DEF _resetLockScreen
  <2> HIDE DEF s
  <2>4. Held(s) /\ Kept(s) /\ Delays(s)
    BY <2>2 DEF Good, Solid, Held, Kept, Delays
  <2>5. Good(x) /\ x.state = "SHOWN" /\ x.mode = w.mode
    BY <2>2, <2>4, LockShownIsGood
  <2> HIDE DEF x
  <2>6. pushMode(x, "lock-screen") = v
    BY <2>1, <2>5, PushIsMode DEF Good, Solid
  <2>7. /\ v \in WorldType /\ v.state = "SHOWN" /\ v.curtain = x.curtain /\ v.dialog = x.dialog
        /\ v.mode = LockScreen /\ v.modal = x.modal /\ v.locked = x.locked /\ v.was = x.was
        /\ v.inhibitor = x.inhibitor /\ v.inhibiting = x.inhibiting
    BY <2>5, ModeFacts, ZenonT(40) DEF WorldType, Good, Solid
  <2> HIDE DEF v
  <2>8. LockScreen # <<>>
    BY ModeFacts
  <2> QED BY <2>3, <2>5, <2>6, <2>7, <2>8
             DEF Good, Solid, Curtained, Attended, Held, Kept, Delays, Dark
<1> QED BY <1>1, <1>2, <1>3

-----------------------------------------------------------------------------
(* activate and lock.                                                      *)
LEMMA ActivateIsGood ==
  ASSUME ConfigType, NEW w \in WorldType, Curtained(w), Attended(w), Held(w), Delays(w),
         NEW animate \in BOOLEAN
  PROVE  LET v == activate(w, animate)
         IN  Good(v) /\ Dark(w, v)
<1> DEFINE u == IF Top(w.mode) = "user" THEN pushMode(w, "unlock-dialog") ELSE w
           m == IF w.mode = <<>> THEN <<"unlock-dialog">> ELSE w.mode
           x == [u EXCEPT !.visible = TRUE, !.was = TRUE]
<1>1. m \in Modes /\ m # <<>> /\ (w.mode = <<>> => m # LockScreen)
  BY ModeFacts DEF WorldType
<1>2. /\ u \in WorldType /\ u.state = w.state /\ u.curtain = w.curtain /\ u.dialog = w.dialog
      /\ u.mode = m /\ u.modal = w.modal /\ u.locked = w.locked
      /\ u.inhibitor = w.inhibitor /\ u.inhibiting = w.inhibiting
  <2>1. CASE w.mode = <<>>
    <3>1. u = [w EXCEPT !.mode = <<"unlock-dialog">>]
      BY <2>1, TopIsMode, PushIsMode
    <3>2. m = <<"unlock-dialog">>
      BY <2>1
    <3>3. u = [w EXCEPT !.mode = m]
      BY <3>1, <3>2
    <3> HIDE DEF m, u
    <3> QED BY <1>1, <3>3 DEF WorldType
  <2>2. CASE w.mode # <<>>
    BY <2>2, TopIsMode
  <2> QED BY <2>1, <2>2
<1>3. activate(w, animate) = _resetLockScreen(x, animate, TRUE)
  BY DEF activate
<1> HIDE DEF u
<1>4. /\ x \in WorldType /\ x.state = u.state /\ x.curtain = u.curtain /\ x.dialog = u.dialog
      /\ x.mode = u.mode /\ x.modal = u.modal /\ x.locked = u.locked /\ x.was
      /\ x.inhibitor = u.inhibitor /\ x.inhibiting = u.inhibiting
  BY <1>2 DEF WorldType
<1> HIDE DEF x
<1>5. w.mode = LockScreen => m = LockScreen
  BY ModeFacts
<1>6. m = LockScreen => w.mode = LockScreen
  BY <1>1
<1> HIDE DEF m
<1>7. Good(x) /\ x.mode # <<>> /\ Steady(w, x)
  BY <1>1, <1>2, <1>4, <1>5, <1>6
     DEF Good, Solid, Curtained, Attended, Held, Kept, Delays, Steady
<1>8. Good(_resetLockScreen(x, animate, TRUE)) /\ Dark(x, _resetLockScreen(x, animate, TRUE))
  BY <1>7, ResetIsGood
<1> QED BY <1>3, <1>7, <1>8, DarkAfterSteady

LEMMA ModalIsGood ==
  ASSUME NEW w, Good(w)
  PROVE  LET v == _becomeModal(w)
         IN  /\ Good(v) /\ Steady(w, v) /\ v.state = w.state /\ v.curtain = w.curtain
             /\ v.dialog = w.dialog /\ v.locked = w.locked /\ v.mode = w.mode
<1> DEFINE n == w.modal \/ ~w.refused
           v == [w EXCEPT !.modal = n]
<1>1. w \in WorldType /\ n \in BOOLEAN /\ (w.modal => n)
  BY DEF Good, Solid, WorldType
<1>2. _becomeModal(w) = v
  BY DEF _becomeModal
<1> HIDE DEF n
<1>3. /\ v \in WorldType /\ v.state = w.state /\ v.curtain = w.curtain /\ v.dialog = w.dialog
      /\ v.mode = w.mode /\ v.modal = n /\ v.locked = w.locked /\ v.was = w.was
      /\ v.inhibitor = w.inhibitor /\ v.inhibiting = w.inhibiting
  BY <1>1 DEF WorldType
<1> HIDE DEF v
<1> QED BY <1>1, <1>2, <1>3 DEF Good, Solid, Curtained, Attended, Held, Kept, Delays, Steady

LEMMA LockIsGood ==
  ASSUME ConfigType, NEW w, Good(w), NEW animate \in BOOLEAN
  PROVE  LET v == lock(w, animate)
         IN  Good(v) /\ Dark(w, v)
<1> DEFINE u == _becomeModal(w)
           x == [u EXCEPT !.locked = config.password]
<1>1. CASE config.disabled \/ ~u.modal
  BY <1>1 DEF lock, Dark
<1>2. CASE ~(config.disabled \/ ~u.modal)
  <2>1. lock(w, animate) = activate(x, animate)
    BY <1>2 DEF lock
  <2>2. Good(u) /\ Steady(w, u) /\ u.modal
    BY <1>2, ModalIsGood
  <2> HIDE DEF u
  <2>3. /\ x \in WorldType /\ x.state = u.state /\ x.curtain = u.curtain /\ x.dialog = u.dialog
        /\ x.mode = u.mode /\ x.modal = u.modal /\ x.locked = config.password
        /\ x.inhibitor = u.inhibitor /\ x.inhibiting = u.inhibiting
    BY <2>2 DEF Good, Solid, WorldType, ConfigType
  <2> HIDE DEF x
  <2>4. Curtained(x) /\ Attended(x) /\ Held(x) /\ Delays(x) /\ Steady(w, x)
    BY <2>2, <2>3 DEF Good, Solid, Curtained, Attended, Held, Delays, Steady
  <2>5. Good(activate(x, animate)) /\ Dark(x, activate(x, animate))
    BY <2>3, <2>4, ActivateIsGood
  <2> QED BY <2>1, <2>4, <2>5, DarkAfterSteady
<1> QED BY <1>1, <1>2

-----------------------------------------------------------------------------
(* The dialog goes: the curtain comes down, if it was not on its way.      *)
LEMMA CancelIsGood ==
  ASSUME NEW w, Solid(w), w.dialog.there => w.locked
  PROVE  LET v == _maybeCancelDialog(w)
         IN  Good(v) /\ Steady(w, v)
<1>1. CASE ~w.dialog.there
  BY <1>1 DEF _maybeCancelDialog, Good, Attended, Steady
<1>2. CASE w.dialog.there
  <2> DEFINE u == IF w.dialog.verified THEN w ELSE _onUnlockFailed(w)
             v == [u EXCEPT !.dialog = NoDialog]
  <2>1. _maybeCancelDialog(w) = v
    BY <1>2 DEF _maybeCancelDialog
  <2>2. Solid(u) /\ Steady(w, u)
    <3>1. w.mode # <<>>
      BY <1>2 DEF Solid, Kept
    <3>2. Solid(_onUnlockFailed(w)) /\ Steady(w, _onUnlockFailed(w))
      BY <3>1, RaiseIsSolid DEF _onUnlockFailed
    <3> QED BY <3>2 DEF Steady
  <2> HIDE DEF u
  <2>3. /\ v \in WorldType /\ v.state = u.state /\ v.curtain = u.curtain /\ ~v.dialog.there
        /\ v.mode = u.mode /\ v.modal = u.modal /\ v.locked = u.locked /\ v.was = u.was
        /\ v.inhibitor = u.inhibitor /\ v.inhibiting = u.inhibiting
    BY <2>2, ZenonT(40) DEF Solid, WorldType, NoDialog, Dialogs
  <2> HIDE DEF v
  <2> QED BY <2>1, <2>2, <2>3
             DEF Good, Solid, Curtained, Attended, Held, Kept, Delays, Steady
<1> QED BY <1>1, <1>2

-----------------------------------------------------------------------------
(* What the actions start from, and what they become.                      *)
LEMMA SoundWorlds ==
  ASSUME MaxPending \in Nat, ShieldSound, NEW w \in Worlds \cup {World}
  PROVE  /\ ConfigType /\ Good(w)
         /\ w.inhibitor = _inhibitor /\ w.active = _isActive /\ w.locked = _isLocked
         /\ w.beats = beats /\ w.inhibiting = inhibiting /\ w.finishing = finishing
         /\ w.state = _lockScreenState /\ w.short = short
<1>1. PICK l \in BOOLEAN, r \in BOOLEAN : w = World \/ w = Answering(l, r)
  <2>1. CASE w \in Worlds
    <3> DEFINE lates == {l \in BOOLEAN : l => dialog.there /\ finishing = {}}
               refusals == {r \in BOOLEAN : r => ~_isModal}
    <3>1. w \in {Answering(l, r) : l \in lates, r \in refusals}
      BY <2>1 DEF Worlds
    <3>2. lates \subseteq BOOLEAN /\ refusals \subseteq BOOLEAN
      OBVIOUS
    <3> HIDE DEF lates, refusals
    <3> QED BY <3>1, <3>2
  <2>2. CASE w = World
    BY <2>2
  <2> QED BY <2>1, <2>2
<1>2. TypeOK /\ beats \in Nat /\ inhibiting \in Nat
  BY DEF ShieldSound, TypeOK
<1>3. World \in WorldType
  <2> DEFINE states == {"HIDDEN", "SHOWING", "SHOWN", "HIDING"}
             tweens == {"none", "hide", "restore", "show"}
             waits == SUBSET {FALSE}
  <2>1. /\ _lockScreenState \in states /\ curtain \in tweens
        /\ dialog \in Dialogs /\ finishing \in waits
        /\ long \in Lightbox /\ short \in Lightbox /\ mode \in Modes
    BY <1>2 DEF ShieldSound, TypeOK, OnlyUnlockWaits, Dialogs
  <2>2. /\ fadeToBlack \in BOOLEAN /\ zoom \in BOOLEAN /\ _isModal \in BOOLEAN
        /\ _isActive \in BOOLEAN /\ _isLocked \in BOOLEAN /\ actorVisible \in BOOLEAN
        /\ watch \in BOOLEAN /\ lockTimeout \in BOOLEAN /\ _inhibitor \in BOOLEAN
        /\ wasLocked \in BOOLEAN
    BY <1>2 DEF TypeOK
  <2>3. WorldType =
          [state: states, curtain: tweens, toBlack: BOOLEAN, dialog: Dialogs, finishing: waits,
           zoom: BOOLEAN, modal: BOOLEAN, active: BOOLEAN, locked: BOOLEAN, visible: BOOLEAN,
           long: Lightbox, short: Lightbox, watch: BOOLEAN, beats: Nat, timeout: BOOLEAN,
           mode: Modes, inhibitor: BOOLEAN, inhibiting: Nat, was: BOOLEAN, late: BOOLEAN,
           refused: BOOLEAN]
    BY DEF WorldType
  <2> HIDE DEF states, tweens, waits
  <2> QED BY <1>2, <2>1, <2>2, <2>3 DEF World
<1>4. w \in WorldType
  <2>1. Answering(l, r) \in WorldType
    BY <1>3 DEF Answering, WorldType
  <2> QED BY <1>1, <1>3, <2>1
<1>5. ConfigType
  BY <1>2 DEF TypeOK, ConfigType
<1>6. /\ w.state = _lockScreenState /\ w.curtain = curtain /\ w.dialog = dialog
      /\ w.modal = _isModal /\ w.locked = _isLocked /\ w.mode = mode
      /\ w.inhibitor = _inhibitor /\ w.inhibiting = inhibiting /\ w.was = wasLocked
      /\ w.active = _isActive /\ w.beats = beats /\ w.finishing = finishing /\ w.short = short
  <2>1. CASE w = World
    BY <2>1 DEF World
  <2>2. CASE w = Answering(l, r)
    <3>1. /\ w.state = World.state /\ w.curtain = World.curtain /\ w.dialog = World.dialog
          /\ w.modal = World.modal /\ w.locked = World.locked /\ w.mode = World.mode
          /\ w.inhibitor = World.inhibitor /\ w.inhibiting = World.inhibiting
          /\ w.was = World.was /\ w.active = World.active /\ w.beats = World.beats
          /\ w.finishing = World.finishing /\ w.short = World.short
      BY <1>3, <2>2 DEF Answering, WorldType
    <3> QED BY <3>1 DEF World
  <2> QED BY <1>1, <2>1, <2>2
<1>7. Curtained(w)
  BY <1>4, <1>6, TopIsMode DEF ShieldSound, CurtainHasMode, Curtained
<1>8. Attended(w) /\ Held(w) /\ Kept(w) /\ Delays(w)
  BY <1>6 DEF ShieldSound, LockedHasModal, NoStaleDialog, LockIsRemembered,
              DisabledDelaysNothing, Attended, Held, Kept, Delays
<1> QED BY <1>4, <1>5, <1>6, <1>7, <1>8 DEF Good, Solid

LEMMA BecomesSound ==
  ASSUME MaxPending \in Nat, ShieldSound, NEW v, Good(v), Becomes(v), config' = config,
         lockEnabled' \in BOOLEAN, dragging' \in BOOLEAN, relock' \in BOOLEAN
  PROVE  ShieldSound'
<1>1. v \in WorldType
  BY DEF Good, Solid
<1>2. /\ v.state = _lockScreenState' /\ v.curtain = curtain' /\ v.toBlack = fadeToBlack'
      /\ v.dialog = dialog' /\ v.finishing = finishing' /\ v.zoom = zoom'
      /\ v.modal = _isModal' /\ v.active = _isActive' /\ v.locked = _isLocked'
      /\ v.visible = actorVisible' /\ v.long = long' /\ v.short = short'
      /\ v.watch = watch' /\ v.beats = beats' /\ v.timeout = lockTimeout' /\ v.mode = mode'
      /\ v.inhibitor = _inhibitor' /\ v.inhibiting = inhibiting' /\ v.was = wasLocked'
  BY DEF Becomes
<1>3. beats' \in 0..MaxPending /\ inhibiting' \in 0..MaxPending
  BY <1>1, <1>2 DEF Becomes, WorldType
<1>4. TypeOK'
  <2>1. config \in [password: BOOLEAN, disabled: BOOLEAN]
    BY DEF ShieldSound, TypeOK
  <2>2. {fadeToBlack', dragging', zoom', _isModal', _isActive', _isLocked', actorVisible', watch',
         lockTimeout', _inhibitor', lockEnabled', wasLocked', relock'} \subseteq BOOLEAN
    BY <1>1, <1>2 DEF WorldType
  <2>3. /\ _lockScreenState' \in {"HIDDEN", "SHOWING", "SHOWN", "HIDING"}
        /\ curtain' \in {"none", "hide", "restore", "show"}
        /\ dialog' \in [there: BOOLEAN, modal: BOOLEAN, verified: BOOLEAN]
        /\ finishing' \subseteq BOOLEAN
        /\ {long', short'} \subseteq Lightbox /\ mode' \in Modes
    BY <1>1, <1>2 DEF WorldType, Dialogs
  <2> QED BY <1>3, <2>1, <2>2, <2>3 DEF TypeOK
<1>5. finishing' \subseteq {FALSE}
  BY <1>1, <1>2 DEF WorldType
<1>6. /\ (Top(mode') = "lock-screen") <=> (mode' = LockScreen)
  BY <1>1, <1>2, TopIsMode
<1>7. CurtainHasMode'
  BY <1>2, <1>6 DEF Good, Solid, Curtained, CurtainHasMode
<1>8. LockedHasModal' /\ NoStaleDialog' /\ LockIsRemembered' /\ DisabledDelaysNothing'
  BY <1>2 DEF Good, Solid, Attended, Held, Kept, Delays, LockedHasModal, NoStaleDialog,
              LockIsRemembered, DisabledDelaysNothing
<1> QED BY <1>4, <1>5, <1>7, <1>8 DEF ShieldSound, OnlyUnlockWaits

LEMMA StepIsSound ==
  ASSUME MaxPending \in Nat, ShieldSound, NEW w \in Worlds \cup {World},
         NEW v, Good(v), Dark(w, v), Becomes(v), config' = config, lockEnabled' = lockEnabled,
         dragging' \in BOOLEAN, relock' \in BOOLEAN
  PROVE  ShieldSound' /\ GivenUpInTheDark
<1>1. lockEnabled' \in BOOLEAN
  BY DEF ShieldSound, TypeOK
<1>2. w.inhibitor = _inhibitor
  BY SoundWorlds
<1>3. GivenUpInTheDark
  BY <1>2 DEF Dark, Becomes, GivenUpInTheDark
<1> QED BY <1>1, <1>3, BecomesSound

LEMMA StepsAreSound ==
  ASSUME MaxPending \in Nat, ShieldSound, NEW w \in Worlds \cup {World},
         NEW v, Good(v), Dark(w, v), Steps(v)
  PROVE  ShieldSound' /\ GivenUpInTheDark
<1>1. dragging \in BOOLEAN /\ relock \in BOOLEAN
  BY DEF ShieldSound, TypeOK
<1> QED BY <1>1, StepIsSound DEF Steps, envVars

(* The small changes that an action makes before it calls.                 *)
LEMMA LikeIsGood ==
  ASSUME NEW w, Good(w), NEW v \in WorldType,
         v.state = w.state, v.curtain = w.curtain, v.dialog.there = w.dialog.there,
         v.modal = w.modal, v.locked = w.locked, v.mode = w.mode, v.was = w.was,
         v.inhibitor = w.inhibitor, v.inhibiting = w.inhibiting
  PROVE  Good(v) /\ Steady(w, v)
BY DEF Good, Solid, Curtained, Attended, Held, Kept, Delays, Steady

LEMMA TweaksAreGood ==
  ASSUME NEW w, Good(w)
  PROVE  /\ \A b \in BOOLEAN : LET v == [w EXCEPT !.timeout = b] IN Good(v) /\ Steady(w, v)
         /\ \A x \in Lightbox : LET v == [w EXCEPT !.long = x] IN Good(v) /\ Steady(w, v)
         /\ \A x \in Lightbox : LET v == [w EXCEPT !.short = x] IN Good(v) /\ Steady(w, v)
         /\ LET v == [w EXCEPT !.watch = FALSE] IN Good(v) /\ Steady(w, v)
         /\ \A x \in Lightbox : LET v == [w EXCEPT !.long = x, !.watch = TRUE]
                                IN  Good(v) /\ Steady(w, v)
         /\ \A x \in Lightbox : LET v == [w EXCEPT !.short = x, !.watch = TRUE]
                                IN  Good(v) /\ Steady(w, v)
         /\ LET v == LightboxesHidden(w) IN Good(v) /\ Steady(w, v)
         /\ LET v == [w EXCEPT !.dialog.verified = TRUE] IN Good(v) /\ Steady(w, v)
         /\ \A n \in Nat : LET v == [w EXCEPT !.beats = n] IN Good(v) /\ Steady(w, v)
         /\ \A f \in SUBSET {FALSE} : LET v == [w EXCEPT !.finishing = f]
                                      IN  Good(v) /\ Steady(w, v)
<1>0. w \in WorldType
  BY DEF Good, Solid
<1>1. \A b \in BOOLEAN : LET v == [w EXCEPT !.timeout = b] IN Good(v) /\ Steady(w, v)
  BY <1>0, LikeIsGood DEF WorldType
<1>2. \A x \in Lightbox : LET v == [w EXCEPT !.long = x] IN Good(v) /\ Steady(w, v)
  BY <1>0, LikeIsGood DEF WorldType
<1>3. \A x \in Lightbox : LET v == [w EXCEPT !.short = x] IN Good(v) /\ Steady(w, v)
  BY <1>0, LikeIsGood DEF WorldType
<1>4. LET v == [w EXCEPT !.watch = FALSE] IN Good(v) /\ Steady(w, v)
  BY <1>0, LikeIsGood, ZenonT(40) DEF WorldType
<1>5. \A x \in Lightbox : LET v == [w EXCEPT !.long = x, !.watch = TRUE]
                          IN  Good(v) /\ Steady(w, v)
  BY <1>0, LikeIsGood DEF WorldType
<1>6. \A x \in Lightbox : LET v == [w EXCEPT !.short = x, !.watch = TRUE]
                          IN  Good(v) /\ Steady(w, v)
  BY <1>0, LikeIsGood DEF WorldType
<1>7. LET v == LightboxesHidden(w) IN Good(v) /\ Steady(w, v)
  BY <1>0, LikeIsGood DEF WorldType, Lightbox, LightboxesHidden
<1>8. LET v == [w EXCEPT !.dialog.verified = TRUE] IN Good(v) /\ Steady(w, v)
  BY <1>0, LikeIsGood DEF WorldType, Dialogs
<1>9. \A n \in Nat : LET v == [w EXCEPT !.beats = n] IN Good(v) /\ Steady(w, v)
  BY <1>0, LikeIsGood DEF WorldType
<1>10. \A f \in SUBSET {FALSE} : LET v == [w EXCEPT !.finishing = f]
                                 IN  Good(v) /\ Steady(w, v)
  BY <1>0, LikeIsGood DEF WorldType
<1> QED BY <1>1, <1>2, <1>3, <1>4, <1>5, <1>6, <1>7, <1>8, <1>9, <1>10

-----------------------------------------------------------------------------
(* The actions.                                                            *)
LEMMA StatusKeeps ==
  ASSUME MaxPending \in Nat, ShieldSound, _onStatusChanged
  PROVE  ShieldSound' /\ GivenUpInTheDark
<1> DEFINE cOf(w) == _maybeCancelDialog(w)
           vOf(w) == _becomeModal(cOf(w))
           timed(w) == [vOf(w) EXCEPT !.timeout = @ \/ (lockEnabled /\ ~vOf(w).locked)]
           result(w) == IF cOf(w).long # "hidden" \/ cOf(w).active THEN cOf(w)
                        ELSE IF ~vOf(w).modal THEN cOf(w)
                        ELSE _activateFade(timed(w), "long", "fading")
<1>1. PICK w \in Worlds : Steps(result(w))
  BY DEF _onStatusChanged
<1>2. ConfigType /\ Good(w)
  BY SoundWorlds
<1> DEFINE c == _maybeCancelDialog(w)
           v == _becomeModal(c)
           b == v.timeout \/ (lockEnabled /\ ~v.locked)
           t == [v EXCEPT !.timeout = b]
           f == [t EXCEPT !.long = "fading", !.watch = TRUE]
<1>3. Good(c) /\ Steady(w, c)
  BY <1>2, CancelIsGood DEF Good, Attended
<1>4. result(w) = c \/ result(w) = f
  BY DEF _activateFade
<1> HIDE DEF c, result
<1>5. Good(v) /\ Steady(c, v)
  BY <1>3, ModalIsGood
<1> HIDE DEF v
<1>6. b \in BOOLEAN
  BY <1>5 DEF Good, Solid, WorldType
<1> HIDE DEF b
<1>7. Good(t) /\ Steady(v, t)
  BY <1>5, <1>6, TweaksAreGood
<1> HIDE DEF t
<1>8. Good(f) /\ Steady(t, f)
  BY <1>7, TweaksAreGood DEF Lightbox
<1> HIDE DEF f
<1>9. Good(result(w)) /\ Dark(w, result(w))
  BY <1>3, <1>4, <1>5, <1>7, <1>8 DEF Steady, Dark
<1> QED BY <1>1, <1>9, StepsAreSound

LEMMA LongKeeps ==
  ASSUME MaxPending \in Nat, ShieldSound, LongShown
  PROVE  ShieldSound' /\ GivenUpInTheDark
<1> DEFINE v == [World EXCEPT !.long = "shown"]
<1>1. ConfigType /\ Good(World)
  BY SoundWorlds
<1>2. Good(v) /\ Steady(World, v)
  BY <1>1, TweaksAreGood DEF Lightbox
<1>3. Steps(activate(v, FALSE))
  BY DEF LongShown
<1> HIDE DEF v
<1>4. Good(activate(v, FALSE)) /\ Dark(v, activate(v, FALSE))
  BY <1>1, <1>2, ActivateIsGood DEF Good, Solid
<1> QED BY <1>2, <1>3, <1>4, StepsAreSound, DarkAfterSteady

LEMMA ShortKeeps ==
  ASSUME MaxPending \in Nat, ShieldSound, _onShortLightboxShown
  PROVE  ShieldSound' /\ GivenUpInTheDark
<1> DEFINE u == [World EXCEPT !.short = "shown"]
           v == _completeLockScreenShown(u)
<1>1. ConfigType /\ Good(World)
  BY SoundWorlds
<1>2. Good(u) /\ Steady(World, u)
  BY <1>1, TweaksAreGood DEF Lightbox
<1>6. u.short = "shown"
  BY <1>1 DEF Good, Solid, WorldType
<1>3. Steps(v)
  BY DEF _onShortLightboxShown
<1> HIDE DEF u
<1>4. Good(v) /\ v.short = u.short
  BY <1>1, <1>2, ShownIsGood, SyncIsGood DEF SameShield, _completeLockScreenShown, Good, Solid
<1> HIDE DEF v
<1>5. Dark(World, v)
  BY <1>6, <1>4 DEF Dark
<1> QED BY <1>3, <1>4, <1>5, StepsAreSound

LEMMA BeatKeeps ==
  ASSUME MaxPending \in Nat, ShieldSound, BeatEnds
  PROVE  ShieldSound' /\ GivenUpInTheDark
<1> DEFINE n == beats - 1
           u == [World EXCEPT !.beats = n]
           v == [u EXCEPT !.short = "fading", !.watch = TRUE]
<1>1. Good(World) /\ World.beats = beats /\ n \in Nat
  BY SoundWorlds DEF BeatEnds, ShieldSound, TypeOK
<1>2. Steps(v)
  <2>1. u = [World EXCEPT !.beats = @ - 1]
    BY <1>1
  <2>2. _activateFade(u, "short", "fading") = v
    BY DEF _activateFade
  <2> QED BY <2>1, <2>2 DEF BeatEnds
<1> HIDE DEF n
<1>3. Good(u) /\ Steady(World, u)
  BY <1>1, TweaksAreGood
<1> HIDE DEF u
<1>4. Good(v) /\ Steady(u, v)
  BY <1>3, TweaksAreGood DEF Lightbox
<1> HIDE DEF v
<1> QED BY <1>2, <1>3, <1>4, StepsAreSound DEF Steady, Dark

LEMMA ActiveKeeps ==
  ASSUME MaxPending \in Nat, ShieldSound, _onUserBecameActive
  PROVE  ShieldSound' /\ GivenUpInTheDark
<1> DEFINE vOf(w) == [w EXCEPT !.watch = FALSE]
           result(w) == IF vOf(w).active \/ vOf(w).locked THEN LightboxesHidden(vOf(w))
                        ELSE deactivate(vOf(w), FALSE)
<1>1. PICK w \in Worlds : Steps(result(w))
  BY DEF _onUserBecameActive
<1> DEFINE v == [w EXCEPT !.watch = FALSE]
<1>2. ConfigType /\ Good(w)
  BY SoundWorlds
<1>3. Good(v) /\ Steady(w, v)
  BY <1>2, TweaksAreGood
<1>4. result(w) = LightboxesHidden(v) \/ result(w) = deactivate(v, FALSE)
  OBVIOUS
<1> HIDE DEF v, result
<1>5. Good(LightboxesHidden(v)) /\ Steady(v, LightboxesHidden(v))
  BY <1>3, TweaksAreGood
<1>6. Good(deactivate(v, FALSE)) /\ Dark(v, deactivate(v, FALSE))
  BY <1>2, <1>3, DeactivateIsGood
<1>7. Good(result(w)) /\ Dark(w, result(w))
  BY <1>3, <1>4, <1>5, <1>6 DEF Steady, Dark
<1> QED BY <1>1, <1>7, StepsAreSound

LEMMA TimeoutKeeps ==
  ASSUME MaxPending \in Nat, ShieldSound, LockTimeout
  PROVE  ShieldSound' /\ GivenUpInTheDark
<1>1. PICK w \in Worlds : Steps(lock([w EXCEPT !.timeout = FALSE], FALSE))
  BY DEF LockTimeout
<1> DEFINE v == [w EXCEPT !.timeout = FALSE]
<1>2. ConfigType /\ Good(w)
  BY SoundWorlds
<1>3. Good(v) /\ Steady(w, v)
  BY <1>2, TweaksAreGood
<1>4. Steps(lock(v, FALSE))
  BY <1>1
<1> HIDE DEF v
<1>5. Good(lock(v, FALSE)) /\ Dark(w, lock(v, FALSE))
  BY <1>2, <1>3, LockIsGood, DarkAfterSteady
<1> QED BY <1>4, <1>5, StepsAreSound

LEMMA LockKeeps ==
  ASSUME MaxPending \in Nat, ShieldSound, Lock \/ _prepareForSleep
  PROVE  ShieldSound' /\ GivenUpInTheDark
<1>1. PICK w \in Worlds, animate \in BOOLEAN : Steps(lock(w, animate))
  BY DEF Lock, _prepareForSleep
<1>2. Good(lock(w, animate)) /\ Dark(w, lock(w, animate))
  BY SoundWorlds, LockIsGood
<1> QED BY <1>1, <1>2, StepsAreSound

LEMMA SetActiveKeeps ==
  ASSUME MaxPending \in Nat, ShieldSound, SetActive
  PROVE  ShieldSound' /\ GivenUpInTheDark
<1>1. ConfigType /\ Good(World)
  BY SoundWorlds
<1>2. Good(activate(World, TRUE)) /\ Dark(World, activate(World, TRUE))
  BY <1>1, ActivateIsGood DEF Good, Solid
<1> QED BY <1>2, StepsAreSound DEF SetActive

LEMMA UnlockKeeps ==
  ASSUME MaxPending \in Nat, ShieldSound, Unlock
  PROVE  ShieldSound' /\ GivenUpInTheDark
<1>1. PICK w \in Worlds : Steps(deactivate(w, FALSE))
  BY DEF Unlock
<1>2. Good(deactivate(w, FALSE)) /\ Dark(w, deactivate(w, FALSE))
  BY SoundWorlds, DeactivateIsGood
<1> QED BY <1>1, <1>2, StepsAreSound

LEMMA FinishKeeps ==
  ASSUME MaxPending \in Nat, ShieldSound, FinishEnds
  PROVE  ShieldSound' /\ GivenUpInTheDark
<1> DEFINE f == finishing \ {FALSE}
           v == [World EXCEPT !.finishing = f]
<1>1. ConfigType /\ Good(World) /\ World.finishing = finishing
  BY SoundWorlds
<1>2. finishing \subseteq {FALSE}
  BY DEF ShieldSound, OnlyUnlockWaits
<1>3. Steps(_continueDeactivate(v, FALSE))
  <2>1. PICK animate \in finishing :
          Steps(_continueDeactivate([World EXCEPT !.finishing = @ \ {animate}], animate))
    BY DEF FinishEnds
  <2>2. animate = FALSE
    BY <1>2
  <2>3. [World EXCEPT !.finishing = @ \ {FALSE}] = v
    BY <1>1
  <2> QED BY <2>1, <2>2, <2>3
<1>4. f \in SUBSET {FALSE}
  BY <1>2
<1> HIDE DEF f
<1>5. Good(v) /\ Steady(World, v)
  BY <1>1, <1>4, TweaksAreGood
<1> HIDE DEF v
<1>6. Good(_continueDeactivate(v, FALSE)) /\ Dark(World, _continueDeactivate(v, FALSE))
  BY <1>1, <1>5, ContinueIsGood, DarkAfterSteady DEF Good
<1> QED BY <1>3, <1>6, StepsAreSound

LEMMA ZoomKeeps ==
  ASSUME MaxPending \in Nat, ShieldSound, ZoomEnds
  PROVE  ShieldSound' /\ GivenUpInTheDark
<1>1. ConfigType /\ Good(World)
  BY SoundWorlds
<1>2. Good(_completeDeactivate(World)) /\ Dark(World, _completeDeactivate(World))
  BY <1>1, CompleteIsGood DEF Good, Solid
<1> QED BY <1>2, StepsAreSound DEF ZoomEnds

LEMMA LiftKeeps ==
  ASSUME MaxPending \in Nat, ShieldSound, Lift
  PROVE  ShieldSound' /\ GivenUpInTheDark
<1>1. PICK w \in Worlds : Steps(_liftShield(w))
  BY DEF Lift
<1>2. Good(_liftShield(w)) /\ Dark(w, _liftShield(w))
  BY SoundWorlds, LiftIsGood
<1> QED BY <1>1, <1>2, StepsAreSound

LEMMA DragBeginKeeps ==
  ASSUME MaxPending \in Nat, ShieldSound, _onDragBegin
  PROVE  ShieldSound' /\ GivenUpInTheDark
<1> DEFINE vOf(w) == [w EXCEPT !.state = "HIDING", !.curtain = "none"]
           result(w) == IF vOf(w).locked THEN _ensureUnlockDialog(vOf(w)) ELSE vOf(w)
<1>1. PICK w \in Worlds : Becomes(result(w))
  BY DEF _onDragBegin
<1>2. Good(w)
  BY SoundWorlds
<1> DEFINE v == [w EXCEPT !.state = "HIDING", !.curtain = "none"]
<1>3. /\ v \in WorldType /\ v.state = "HIDING" /\ v.curtain = "none" /\ v.dialog = w.dialog
      /\ v.mode = w.mode /\ v.modal = w.modal /\ v.locked = w.locked /\ v.was = w.was
      /\ v.inhibitor = w.inhibitor /\ v.inhibiting = w.inhibiting
  BY <1>2 DEF Good, Solid, WorldType
<1>4. result(w) = IF v.locked THEN _ensureUnlockDialog(v) ELSE v
  OBVIOUS
<1> HIDE DEF v, result
<1>5. Good(v) /\ Steady(w, v)
  BY <1>2, <1>3 DEF Good, Solid, Curtained, Attended, Held, Kept, Delays, Steady
<1>6. Good(result(w)) /\ Dark(w, result(w))
  <2>1. CASE v.locked
    <3>1. LET u == _ensureUnlockDialog(v)
          IN  Solid(u) /\ Steady(v, u) /\ u.locked /\ u.state = v.state /\ u.curtain = v.curtain
      BY <1>5, <2>1, EnsureIsDialog DEF Good
    <3> QED BY <1>3, <1>4, <1>5, <2>1, <3>1 DEF Good, Attended, Steady, Dark
  <2>2. CASE ~v.locked
    BY <1>4, <1>5, <2>2 DEF Steady, Dark
  <2> QED BY <2>1, <2>2
<1>7. dragging' \in BOOLEAN /\ relock' \in BOOLEAN /\ UNCHANGED <<lockEnabled, config>>
  BY DEF _onDragBegin, envVars, ShieldSound, TypeOK
<1> QED BY <1>1, <1>6, <1>7, StepIsSound

LEMMA DragEndKeeps ==
  ASSUME MaxPending \in Nat, ShieldSound, _onDragEnd
  PROVE  ShieldSound' /\ GivenUpInTheDark
<1> DEFINE result(w, far) ==
             IF w.state # "HIDING" THEN w
             ELSE IF far THEN _liftShield(w)
             ELSE _maybeCancelDialog([w EXCEPT !.curtain = "restore"])
<1>1. PICK w \in Worlds, far \in BOOLEAN : Becomes(result(w, far))
  BY DEF _onDragEnd
<1>2. ConfigType /\ Good(w)
  BY SoundWorlds
<1>7. dragging' \in BOOLEAN /\ relock' \in BOOLEAN /\ UNCHANGED <<lockEnabled, config>>
  BY DEF _onDragEnd, envVars, ShieldSound, TypeOK
<1> SUFFICES Good(result(w, far)) /\ Dark(w, result(w, far))
  <2> HIDE DEF result
  <2> QED BY <1>1, <1>7, StepIsSound
<1>3. CASE w.state # "HIDING"
  <2>1. result(w, far) = w
    BY <1>3
  <2> QED BY <1>2, <2>1 DEF Dark
<1>4. CASE w.state = "HIDING" /\ far
  <2>1. result(w, far) = _liftShield(w)
    BY <1>4
  <2> QED BY <1>2, <2>1, LiftIsGood
<1>5. CASE w.state = "HIDING" /\ ~far
  <2> DEFINE v == [w EXCEPT !.curtain = "restore"]
  <2>1. result(w, far) = _maybeCancelDialog(v)
    BY <1>5
  <2>2. /\ v \in WorldType /\ v.state = "HIDING" /\ v.curtain = "restore" /\ v.dialog = w.dialog
        /\ v.mode = w.mode /\ v.modal = w.modal /\ v.locked = w.locked /\ v.was = w.was
        /\ v.inhibitor = w.inhibitor /\ v.inhibiting = w.inhibiting
    BY <1>2, <1>5 DEF Good, Solid, WorldType
  <2> HIDE DEF v, result
  <2>3. Solid(v) /\ Steady(w, v) /\ (v.dialog.there => v.locked)
    BY <1>2, <2>2 DEF Good, Solid, Curtained, Attended, Held, Kept, Delays, Steady
  <2>4. Good(_maybeCancelDialog(v)) /\ Steady(v, _maybeCancelDialog(v))
    BY <2>3, CancelIsGood
  <2> QED BY <2>1, <2>3, <2>4 DEF Steady, Dark
<1> QED BY <1>3, <1>4, <1>5

LEMMA CurtainKeeps ==
  ASSUME MaxPending \in Nat, ShieldSound, CurtainEnds
  PROVE  ShieldSound' /\ GivenUpInTheDark
<1>1. ConfigType /\ Good(World) /\ World \in WorldType /\ World.curtain = curtain
  BY SoundWorlds DEF Good, Solid, World
<1>2. curtain \in {"hide", "restore", "show"}
  BY DEF CurtainEnds, ShieldSound, TypeOK
<1>3. CASE curtain = "hide"
  <2>1. Steps(_hideLockScreenComplete(World))
    BY <1>3 DEF CurtainEnds
  <2>2. LET v == _hideLockScreenComplete(World) IN Good(v) /\ Dark(World, v)
    BY <1>1, HideEndIsGood DEF Steady, Dark
  <2> QED BY <2>1, <2>2, StepsAreSound
<1>4. CASE curtain = "restore"
  <2> DEFINE v == [World EXCEPT !.state = "SHOWN", !.curtain = "none"]
  <2>1. Steps(v)
    BY <1>4 DEF CurtainEnds
  <2>2. /\ v \in WorldType /\ v.state = "SHOWN" /\ v.curtain = "none" /\ v.dialog = World.dialog
        /\ v.mode = World.mode /\ v.modal = World.modal /\ v.locked = World.locked
        /\ v.was = World.was /\ v.inhibitor = World.inhibitor
        /\ v.inhibiting = World.inhibiting
    BY <1>1 DEF WorldType
  <2> HIDE DEF v
  <2>3. Good(v) /\ Dark(World, v)
    BY <1>1, <1>4, <2>2 DEF Good, Solid, Curtained, Attended, Held, Kept, Delays, Dark
  <2> QED BY <2>1, <2>3, StepsAreSound
<1>5. CASE curtain = "show"
  <2>1. Steps(_lockScreenShown(World, TRUE))
    BY <1>5 DEF CurtainEnds
  <2>2. LET v == _lockScreenShown(World, TRUE) IN Good(v) /\ v.state = "SHOWN"
    BY <1>1, LockShownIsGood DEF Good, Solid
  <2>3. Dark(World, _lockScreenShown(World, TRUE))
    BY <2>2 DEF Dark
  <2> QED BY <2>1, <2>2, <2>3, StepsAreSound
<1> QED BY <1>2, <1>3, <1>4, <1>5

LEMMA VerifiedKeeps ==
  ASSUME MaxPending \in Nat, ShieldSound, Verified
  PROVE  ShieldSound' /\ GivenUpInTheDark
<1> DEFINE v == [World EXCEPT !.dialog.verified = TRUE]
<1>1. Good(World)
  BY SoundWorlds
<1>2. Good(v) /\ Steady(World, v)
  BY <1>1, TweaksAreGood
<1>3. Steps(v)
  BY DEF Verified
<1> HIDE DEF v
<1> QED BY <1>2, <1>3, StepsAreSound DEF Steady, Dark

LEMMA FailKeeps ==
  ASSUME MaxPending \in Nat, ShieldSound, DialogFails
  PROVE  ShieldSound' /\ GivenUpInTheDark
<1>1. ConfigType /\ Good(World)
  BY SoundWorlds
<1>2. World.mode # <<>>
  BY DEF World, DialogFails, ShieldSound, NoStaleDialog, LockedHasModal
<1>3. Good(_onUnlockFailed(World)) /\ Dark(World, _onUnlockFailed(World))
  BY <1>1, <1>2, ResetIsGood DEF _onUnlockFailed
<1> QED BY <1>3, StepsAreSound DEF DialogFails

LEMMA InhibitedKeeps ==
  ASSUME MaxPending \in Nat, ShieldSound, NEW granted \in BOOLEAN, Inhibited(granted)
  PROVE  ShieldSound' /\ GivenUpInTheDark
<1> DEFINE n == inhibiting - 1
           v == [World EXCEPT !.inhibiting = n, !.inhibitor = granted]
<1>1. Good(World) /\ World.inhibiting = inhibiting
  BY SoundWorlds
<1>2. n \in Nat /\ ~config.disabled /\ dragging \in BOOLEAN /\ relock \in BOOLEAN
      /\ lockEnabled \in BOOLEAN
  BY DEF Inhibited, ShieldSound, TypeOK, DisabledDelaysNothing
<1>3. Becomes(v) /\ UNCHANGED <<dragging, envVars>>
  BY <1>1 DEF Inhibited, Steps
<1> HIDE DEF n
<1>4. /\ v \in WorldType /\ v.state = World.state /\ v.curtain = World.curtain
      /\ v.dialog = World.dialog /\ v.mode = World.mode /\ v.modal = World.modal
      /\ v.locked = World.locked /\ v.was = World.was /\ v.inhibitor = granted
  BY <1>1, <1>2 DEF Good, Solid, WorldType
<1>5. _inhibitor' = granted
  BY <1>3, <1>4 DEF Becomes
<1> HIDE DEF v
<1>6. Good(v)
  BY <1>1, <1>2, <1>4 DEF Good, Solid, Curtained, Attended, Held, Kept, Delays
<1>7. ShieldSound'
  BY <1>2, <1>3, <1>6, BecomesSound DEF envVars
<1>8. GivenUpInTheDark
  <2>1. CASE granted
    BY <2>1, <1>5 DEF GivenUpInTheDark
  <2>2. CASE granted = FALSE
    BY <2>2 DEF GivenUpInTheDark
  <2> QED BY <2>1, <2>2
<1> QED BY <1>7, <1>8

LEMMA RelockKeeps ==
  ASSUME MaxPending \in Nat, ShieldSound, lockIfWasLocked
  PROVE  ShieldSound' /\ GivenUpInTheDark
<1>1. PICK w \in Worlds : Becomes(lock(w, FALSE))
  BY DEF lockIfWasLocked
<1>2. Good(lock(w, FALSE)) /\ Dark(w, lock(w, FALSE))
  BY SoundWorlds, LockIsGood
<1>3. dragging' \in BOOLEAN /\ relock' \in BOOLEAN /\ UNCHANGED <<lockEnabled, config>>
  BY DEF lockIfWasLocked, ShieldSound, TypeOK
<1> QED BY <1>1, <1>2, <1>3, StepIsSound

(* The two actions that call nothing of the shield.                        *)
LEMMA SettingKeeps ==
  ASSUME MaxPending \in Nat, ShieldSound, SettingChanged
  PROVE  ShieldSound' /\ GivenUpInTheDark
<1>1. /\ lockEnabled' \in BOOLEAN /\ _inhibitor' \in BOOLEAN /\ inhibiting' \in 0..MaxPending
      /\ config.disabled => ~_inhibitor' /\ inhibiting' = 0
  <2>1. /\ _inhibitor \in BOOLEAN /\ inhibiting \in 0..MaxPending
        /\ config.disabled => ~_inhibitor /\ inhibiting = 0
    BY DEF ShieldSound, TypeOK, DisabledDelaysNothing
  <2>2. lockEnabled' \in BOOLEAN
    BY DEF SettingChanged
  <2>3. CASE lockEnabled' /\ ~_isActive /\ ~config.disabled
    <3>1. inhibiting < MaxPending /\ inhibiting' = inhibiting + 1 /\ _inhibitor' = _inhibitor
      BY <2>3 DEF SettingChanged
    <3>2. inhibiting' \in 0..MaxPending
      BY <2>1, <3>1
    <3> QED BY <2>1, <2>2, <2>3, <3>1, <3>2
  <2>4. CASE ~(lockEnabled' /\ ~_isActive /\ ~config.disabled)
    <3>1. _inhibitor' = FALSE /\ inhibiting' = inhibiting
      BY <2>4 DEF SettingChanged
    <3> QED BY <2>1, <2>2, <3>1
  <2> QED BY <2>3, <2>4
<1>2. UNCHANGED <<_lockScreenState, curtain, fadeToBlack, dialog, finishing, zoom, _isModal,
                  _isActive, _isLocked, actorVisible, long, short, watch, beats, lockTimeout,
                  mode, wasLocked, dragging, config, relock>>
  BY DEF SettingChanged
<1>3. TypeOK'
  BY <1>1, <1>2 DEF ShieldSound, TypeOK
<1>4. ShieldSound'
  BY <1>1, <1>2, <1>3 DEF ShieldSound, LockIsRemembered, LockedHasModal, NoStaleDialog,
     CurtainHasMode, OnlyUnlockWaits, DisabledDelaysNothing
<1>5. GivenUpInTheDark
  BY DEF SettingChanged, GivenUpInTheDark, ShieldSound, DisabledDelaysNothing
<1> QED BY <1>4, <1>5

LEMMA CrashKeeps ==
  ASSUME MaxPending \in Nat \ {0}, ShieldSound, Crash
  PROVE  ShieldSound' /\ GivenUpInTheDark
<1>1. /\ _lockScreenState' = "HIDDEN" /\ curtain' = "none" /\ fadeToBlack' = FALSE
      /\ dialog' = NoDialog /\ finishing' = {} /\ zoom' = FALSE /\ _isModal' = FALSE
      /\ _isActive' = FALSE /\ _isLocked' = FALSE /\ actorVisible' = FALSE
      /\ long' = "hidden" /\ short' = "hidden" /\ watch' = FALSE /\ beats' = 0
      /\ lockTimeout' = FALSE /\ mode' = <<>> /\ _inhibitor' = FALSE
      /\ inhibiting' = Inhibits /\ wasLocked' = wasLocked
      /\ dragging' = FALSE /\ relock' = (lockEnabled /\ wasLocked)
      /\ lockEnabled' = lockEnabled /\ config' = config
  BY DEF Crash, Becomes
<1>2. Inhibits \in 0..MaxPending /\ (config.disabled => Inhibits = 0)
      /\ (Inhibits > 0 \/ ~lockEnabled \/ config.disabled)
  BY DEF Inhibits, ShieldSound, TypeOK
<1>3. <<>> \in Modes /\ Top(<<>>) # "lock-screen"
  BY ModeFacts
<1>4. TypeOK'
  <2>1. relock' \in BOOLEAN
    BY <1>1 DEF ShieldSound, TypeOK
  <2>2. wasLocked \in BOOLEAN /\ lockEnabled \in BOOLEAN
        /\ config \in [password: BOOLEAN, disabled: BOOLEAN]
    BY DEF ShieldSound, TypeOK
  <2>3. {fadeToBlack', dragging', zoom', _isModal', _isActive', _isLocked', actorVisible', watch',
         lockTimeout', _inhibitor', lockEnabled', wasLocked', relock'} \subseteq BOOLEAN
    BY <1>1, <2>1, <2>2
  <2>4. /\ dialog' \in [there: BOOLEAN, modal: BOOLEAN, verified: BOOLEAN]
        /\ {long', short'} \subseteq Lightbox /\ finishing' \subseteq BOOLEAN
    BY <1>1 DEF NoDialog, Lightbox
  <2>5. beats' \in 0..MaxPending /\ inhibiting' \in 0..MaxPending /\ mode' \in Modes
    BY <1>1, <1>2, <1>3
  <2> QED BY <1>1, <2>2, <2>3, <2>4, <2>5 DEF TypeOK
<1>5. ShieldSound'
  BY <1>1, <1>2, <1>3, <1>4 DEF ShieldSound, LockIsRemembered, LockedHasModal, NoStaleDialog,
     CurtainHasMode, OnlyUnlockWaits, DisabledDelaysNothing, NoDialog
<1>6. GivenUpInTheDark
  BY DEF GivenUpInTheDark
<1> QED BY <1>5, <1>6

-----------------------------------------------------------------------------
LEMMA InitSound ==
  ASSUME MaxPending \in Nat \ {0}, Init
  PROVE  ShieldSound
<1>1. Inhibits \in 0..MaxPending /\ (config.disabled => Inhibits = 0)
  BY DEF Inhibits, Init
<1>2. <<>> \in Modes /\ Top(<<>>) # "lock-screen"
  BY ModeFacts
<1>3. TypeOK
  <2>1. {fadeToBlack, dragging, zoom, _isModal, _isActive, _isLocked, actorVisible, watch,
         lockTimeout, _inhibitor, lockEnabled, wasLocked, relock} \subseteq BOOLEAN
    BY DEF Init
  <2>2. /\ dialog \in [there: BOOLEAN, modal: BOOLEAN, verified: BOOLEAN]
        /\ {long, short} \subseteq Lightbox /\ finishing \subseteq BOOLEAN
    BY DEF Init, NoDialog, Lightbox
  <2>3. beats \in 0..MaxPending /\ inhibiting \in 0..MaxPending /\ mode \in Modes
    BY <1>1, <1>2 DEF Init
  <2> QED BY <2>1, <2>2, <2>3 DEF Init, TypeOK
<1> QED BY <1>1, <1>2, <1>3 DEF Init, ShieldSound, LockIsRemembered, LockedHasModal,
           NoStaleDialog, CurtainHasMode, OnlyUnlockWaits, DisabledDelaysNothing, NoDialog

LEMMA NextKeeps ==
  ASSUME MaxPending \in Nat \ {0}, ShieldSound, [Next]_vars
  PROVE  ShieldSound' /\ (GivenUpInTheDark \/ UNCHANGED vars)
<1>1. CASE Next
  <2> USE <1>1
  <2>1. MaxPending \in Nat
    OBVIOUS
  <2> QED
    BY <2>1, StatusKeeps, LongKeeps, ShortKeeps, BeatKeeps, ActiveKeeps, TimeoutKeeps, LockKeeps,
       SetActiveKeeps, UnlockKeeps, FinishKeeps, ZoomKeeps, LiftKeeps, DragBeginKeeps,
       DragEndKeeps, CurtainKeeps, VerifiedKeeps, FailKeeps, InhibitedKeeps, SettingKeeps,
       CrashKeeps, RelockKeeps DEF Next
<1>2. CASE UNCHANGED vars
  BY <1>2, ZenonT(40) DEF vars, curtainVars, envVars, ShieldSound, TypeOK, LockIsRemembered, LockedHasModal,
     NoStaleDialog, CurtainHasMode, OnlyUnlockWaits, DisabledDelaysNothing
<1> QED BY <1>1, <1>2

(* In every state of every behaviour of the shield: who is locked out has  *)
(* the modal above all input and is remembered, and no stale dialog or     *)
(* curtain without its mode is shown.                                      *)
THEOREM ShieldIsSound ==
  ASSUME MaxPendingAssumption
  PROVE  Spec => []ShieldSound
<1>1. MaxPending \in Nat \ {0}
  BY DEF MaxPendingAssumption
<1>2. Init => ShieldSound
  BY <1>1, InitSound
<1>3. ShieldSound /\ [Next]_vars => ShieldSound'
  BY <1>1, NextKeeps
<1> QED BY <1>2, <1>3, PTL DEF Spec

(* No step of any behaviour gives up the inhibitor of the sleep before it  *)
(* is dark, but a refusal of logind to grant the next one and a crash.     *)
THEOREM SleepsInTheDark ==
  ASSUME MaxPendingAssumption
  PROVE  Spec => InhibitedUntilDark
<1>1. MaxPending \in Nat \ {0}
  BY DEF MaxPendingAssumption
<1>2. ShieldSound /\ [Next]_vars => [GivenUpInTheDark]_vars
  BY <1>1, NextKeeps
<1>3. Spec => []ShieldSound
  BY ShieldIsSound
<1> QED BY <1>2, <1>3, PTL DEF Spec, InhibitedUntilDark

-----------------------------------------------------------------------------
(* The on-screen keyboard.  A request needs a keyboard that was set up;    *)
(* the box that slides goes where the keyboard was said to be.             *)
KeyboardSettles ==
  /\ _enableKeyboard \/ _keyboardRequested => _keyboard
  /\ sliding = "in" => _keyboardVisible /\ boxVisible
  /\ sliding = "out" => ~_keyboardVisible
  /\ _keyboardHeightNotifyId => handlers > 0

KeyboardTypes ==
  /\ _enableKeyboard \in BOOLEAN /\ _keyboard \in BOOLEAN /\ _keyboardRequested \in BOOLEAN
  /\ _keyboardVisible \in BOOLEAN /\ boxVisible \in BOOLEAN
  /\ _keyboardHeightNotifyId \in BOOLEAN /\ _source \in BOOLEAN
  /\ resting \in {"none", "show", "hide"} /\ _showIdleId \in {"none", "pending", "stale"}
  /\ sliding \in {"none", "in", "out"} /\ handlers \in 0..MaxHandlers

KeyboardInv ==
  /\ KeyboardTypes /\ KeyboardSettles
  /\ Keys!RequestedIsShown /\ Keys!BoxFollows /\ Keys!ShownFollowsHeight

LEMMA KeyboardInvSound == KeyboardInv => Keys!KeyboardSound
<1>1. ASSUME KeyboardTypes
      PROVE  {_enableKeyboard, _keyboard, _keyboardRequested, _keyboardVisible, boxVisible,
              _keyboardHeightNotifyId, _source} \subseteq BOOLEAN
  <2> SUFFICES ASSUME NEW b \in {_enableKeyboard, _keyboard, _keyboardRequested, _keyboardVisible,
                                 boxVisible, _keyboardHeightNotifyId, _source}
               PROVE  b \in BOOLEAN
    OBVIOUS
  <2> QED BY <1>1, Zenon DEF KeyboardTypes
<1> QED BY <1>1 DEF KeyboardInv, KeyboardTypes, Keys!KeyboardSound, Keys!TypeOK

(* The box that is hidden gives back the handler that is known.            *)
LEMMA HiddenBox ==
  ASSUME MaxHandlers \in Nat \ {0}, KeyboardTypes, KeyboardSettles, NEW immediate \in BOOLEAN,
         Keys!hideKeyboard(immediate)
  PROVE  /\ handlers' \in 0..MaxHandlers
         /\ _keyboardHeightNotifyId' = FALSE /\ _keyboardVisible' = FALSE
         /\ immediate => sliding' = "none" /\ boxVisible' = FALSE
         /\ ~immediate => sliding' = "out" /\ boxVisible' = boxVisible
<1>1. ASSUME _keyboardHeightNotifyId
      PROVE  handlers' \in 0..MaxHandlers
  <2>1. handlers \in 0..MaxHandlers /\ handlers > 0 /\ handlers' = handlers - 1
    BY <1>1 DEF KeyboardTypes, KeyboardSettles, Keys!hideKeyboard
  <2> QED BY <2>1
<1>2. ASSUME ~_keyboardHeightNotifyId
      PROVE  handlers' \in 0..MaxHandlers
  BY <1>2 DEF KeyboardTypes, Keys!hideKeyboard
<1>3. /\ _keyboardHeightNotifyId' = FALSE /\ _keyboardVisible' = FALSE
      /\ immediate => sliding' = "none" /\ boxVisible' = FALSE
      /\ ~immediate => sliding' = "out" /\ boxVisible' = boxVisible
  BY DEF Keys!hideKeyboard
<1>4. handlers' \in 0..MaxHandlers
  BY <1>1, <1>2
<1> QED BY <1>3, <1>4

LEMMA KeyboardStarts ==
  ASSUME MaxHandlers \in Nat \ {0}, Keys!Init
  PROVE  KeyboardInv
<1>1. 0 \in 0..MaxHandlers
  OBVIOUS
<1>2. KeyboardTypes
  BY <1>1 DEF Keys!Init, KeyboardTypes
<1> QED BY <1>2 DEF Keys!Init, KeyboardInv, KeyboardSettles, Keys!RequestedIsShown,
           Keys!BoxFollows, Keys!ShownFollowsHeight

LEMMA KeyboardKeeps ==
  ASSUME MaxHandlers \in Nat \ {0}, KeyboardInv, [Keys!Next]_keyboardVars
  PROVE  KeyboardInv'
<1> USE DEF KeyboardInv, KeyboardTypes, KeyboardSettles,
            Keys!RequestedIsShown, Keys!BoxFollows, Keys!ShownFollowsHeight, Keys!box, Keys!requests
<1>1. CASE Keys!_showKeyboardComplete
  BY <1>1 DEF Keys!_showKeyboardComplete
<1>2. CASE Keys!_hideKeyboardComplete
  BY <1>2 DEF Keys!_hideKeyboardComplete
<1>3. CASE Keys!show
  BY <1>3 DEF Keys!show, Keys!Shows
<1>4. CASE Keys!hide
  BY <1>4 DEF Keys!hide, Keys!Hides
<1>5. CASE Keys!KeyFocusInText
  BY <1>5 DEF Keys!KeyFocusInText
<1>6. CASE Keys!ShowIdle
  BY <1>6 DEF Keys!ShowIdle, Keys!Shows
<1>7. CASE Keys!_show
  BY <1>7 DEF Keys!_show, Keys!showKeyboard
<1>8. CASE Keys!_hide
  <2>1. CASE ~_keyboardRequested
    BY <1>8, <2>1, HiddenBox DEF Keys!_hide
  <2>2. CASE _keyboardRequested
    BY <1>8, <2>2 DEF Keys!_hide
  <2> QED BY <2>1, <2>2
<1>9. ASSUME NEW enable \in BOOLEAN, Keys!_syncEnabled(enable)
      PROVE  KeyboardInv'
  <2>1. CASE enable /\ ~_keyboard
    BY <1>9, <2>1 DEF Keys!_syncEnabled
  <2>2. CASE enable /\ _keyboard
    BY <1>9, <2>2 DEF Keys!_syncEnabled, Keys!showKeyboard
  <2>3. CASE ~enable /\ _keyboard
    BY <1>9, <2>3, HiddenBox DEF Keys!_syncEnabled
  <2>4. CASE ~enable /\ ~_keyboard
    BY <1>9, <2>4 DEF Keys!_syncEnabled
  <2> QED BY <2>1, <2>2, <2>3, <2>4
<1>10. CASE UNCHANGED keyboardVars
  BY <1>10 DEF keyboardVars
<1> QED
  BY <1>1, <1>2, <1>3, <1>4, <1>5, <1>6, <1>7, <1>8, <1>9, <1>10 DEF Keys!Next

-----------------------------------------------------------------------------
(* Drags.  What is dragged has an actor, what moves back is no longer      *)
(* dragged, and an actor that goes leaves only a drag in progress that has *)
(* been dropped before.                                                    *)
DragWorlds ==
  [current : Draggables \cup {NoDraggable}, onEvent : SUBSET Draggables,
   grabbed : SUBSET Draggables, button : SUBSET Draggables, progress : SUBSET Draggables,
   animation : SUBSET Draggables, cancellable : SUBSET Draggables, destroyed : SUBSET Draggables,
   actor : [Draggables -> {"none", "there", "gone"}], hover : SUBSET Draggables,
   heard : SUBSET Draggables]

DragWhole(w) ==
  /\ w \in DragWorlds
  /\ \A d \in w.progress \cup w.animation : w.actor[d] # "none"
  /\ w.progress \cap w.animation = {}
  /\ w.heard \subseteq w.progress \cup w.animation
  /\ \A d \in w.progress : w.actor[d] = "gone" => d \in w.destroyed /\ d \notin w.cancellable

(* The same while the actor of d goes, before the drag of it is cancelled. *)
WholeBut(w, d) ==
  /\ w \in DragWorlds
  /\ \A e \in w.progress \cup w.animation : w.actor[e] # "none"
  /\ w.progress \cap w.animation = {}
  /\ w.heard \subseteq w.progress \cup w.animation
  /\ \A e \in w.progress \ {d} : w.actor[e] = "gone" => e \in w.destroyed /\ e \notin w.cancellable

(* While no modal was refused, what has an actor has the modal, is the     *)
(* only one and the current; it is what is pressed, and p is that.         *)
Poised(w, p) ==
  /\ \A d \in Draggables : w.actor[d] # "none" <=> d \in w.grabbed
  /\ \A d \in w.grabbed : w.current = d
  /\ w.onEvent \subseteq {p}
  /\ w.onEvent = {} \/ w.grabbed = {}
  /\ p # NoDraggable => w.grabbed \subseteq {p}
  /\ \A d \in w.grabbed : d \in w.button => p # NoDraggable

(* And it will give the modal back.                                        *)
Returned(w, p) ==
  \A d \in w.grabbed :
    p # NoDraggable \/ d \in w.animation \/ (d \in w.destroyed /\ d \notin w.cancellable)

DragInv ==
  /\ DragWhole(Drag!World)
  /\ pressed \in Draggables \cup {NoDraggable} /\ refused \in BOOLEAN /\ thrown \in BOOLEAN
  /\ ~refused => Poised(Drag!World, pressed) /\ Returned(Drag!World, pressed)

LEMMA CompletedDrag ==
  ASSUME NEW w, DragWhole(w), NEW d \in Draggables, d \notin w.progress, d \notin w.animation
  PROVE  /\ DragWhole(Drag!_dragComplete(w, d))
         /\ \A p : Poised(w, p) /\ w.grabbed \subseteq {d} =>
              Poised(Drag!_dragComplete(w, d), p) /\ Returned(Drag!_dragComplete(w, d), p)
<1> DEFINE v == Drag!_dragComplete(w, d)
<1>1. /\ v \in DragWorlds
      /\ v.grabbed = w.grabbed \ {d} /\ v.actor = [w.actor EXCEPT ![d] = "none"]
      /\ v.current = NoDraggable
      /\ v.progress = w.progress /\ v.animation = w.animation /\ v.heard = w.heard
      /\ v.destroyed = w.destroyed /\ v.cancellable = w.cancellable /\ v.onEvent = w.onEvent
      /\ v.button = w.button
  BY DEF DragWhole, DragWorlds, Drag!_dragComplete
<1>2. w.actor \in [Draggables -> {"none", "there", "gone"}]
  BY DEF DragWhole, DragWorlds
<1> HIDE DEF v
<1>3. DragWhole(v)
  BY <1>1, <1>2 DEF DragWhole
<1>4. ASSUME NEW p, Poised(w, p), w.grabbed \subseteq {d}
      PROVE  Poised(v, p) /\ Returned(v, p)
  BY <1>1, <1>2, <1>4 DEF Poised, Returned
<1> QED BY <1>3, <1>4 DEF v

LEMMA FinishedAnimation ==
  ASSUME NEW w, DragWhole(w), NEW d \in Draggables, d \in w.animation => d \notin w.heard
  PROVE  /\ DragWhole(Drag!_finishAnimation(w, d))
         /\ \A p : Poised(w, p) /\ (d \notin w.animation => Returned(w, p)) =>
              Poised(Drag!_finishAnimation(w, d), p) /\ Returned(Drag!_finishAnimation(w, d), p)
<1>1. CASE d \notin w.animation
  BY <1>1 DEF Drag!_finishAnimation
<1>2. CASE d \in w.animation
  <2> DEFINE v == [w EXCEPT !.animation = @ \ {d}]
  <2>1. /\ v \in DragWorlds
        /\ v.animation = w.animation \ {d}
        /\ v.grabbed = w.grabbed /\ v.actor = w.actor /\ v.current = w.current
        /\ v.progress = w.progress /\ v.heard = w.heard
        /\ v.destroyed = w.destroyed /\ v.cancellable = w.cancellable /\ v.onEvent = w.onEvent
        /\ v.button = w.button
    BY DEF DragWhole, DragWorlds
  <2>2. Drag!_finishAnimation(w, d) = IF d \in w.button THEN v ELSE Drag!_dragComplete(v, d)
    BY <1>2 DEF Drag!_finishAnimation
  <2> HIDE DEF v
  <2>3. DragWhole(v) /\ d \notin v.animation /\ d \notin v.progress
    BY <1>2, <2>1 DEF DragWhole
  <2>4. ASSUME NEW p, Poised(w, p)
        PROVE  Poised(v, p) /\ v.grabbed \subseteq {d} /\ (d \in v.button => Returned(v, p))
    BY <1>2, <2>1, <2>4 DEF DragWhole, Poised, Returned
  <2>5. CASE d \in w.button
    BY <1>2, <2>1, <2>2, <2>3, <2>4, <2>5
  <2>6. CASE d \notin w.button
    BY <1>2, <2>1, <2>2, <2>3, <2>4, <2>6, CompletedDrag
  <2> QED BY <2>5, <2>6
<1> QED BY <1>1, <1>2

(* A drag that is cancelled goes back with an animation, is over, or waits *)
(* for the button.                                                         *)
LEMMA CancelledDragOf ==
  ASSUME NEW w, NEW d \in Draggables, WholeBut(w, d), d \in w.progress
  PROVE  /\ DragWhole(Drag!_cancelDrag(w, d))
         /\ \A p : Poised(w, p) =>
              Poised(Drag!_cancelDrag(w, d), p) /\ Returned(Drag!_cancelDrag(w, d), p)
<1> DEFINE over == [w EXCEPT !.progress = @ \ {d}]
           ended == [w EXCEPT !.progress = @ \ {d}, !.heard = @ \ {d}]
           back == [w EXCEPT !.progress = @ \ {d}, !.animation = @ \cup {d}]
<1>1. d \notin w.animation /\ w \in DragWorlds
  BY DEF WholeBut
<1>2. CASE d \notin w.destroyed
  <2>1. Drag!_cancelDrag(w, d) = back
    BY <1>1, <1>2 DEF Drag!_cancelDrag, Drag!_animateDragEnd, DragWorlds
  <2>2. /\ back \in DragWorlds
        /\ back.progress = w.progress \ {d} /\ back.animation = w.animation \cup {d}
        /\ back.grabbed = w.grabbed /\ back.actor = w.actor /\ back.current = w.current
        /\ back.heard = w.heard
        /\ back.destroyed = w.destroyed /\ back.cancellable = w.cancellable
        /\ back.onEvent = w.onEvent /\ back.button = w.button
    BY <1>1 DEF DragWorlds
  <2> HIDE DEF back
  <2>3. DragWhole(back)
    BY <2>2 DEF WholeBut, DragWhole
  <2>4. ASSUME NEW p, Poised(w, p)
        PROVE  Poised(back, p) /\ Returned(back, p)
    BY <2>2, <2>4 DEF WholeBut, Poised, Returned
  <2> QED BY <2>1, <2>3, <2>4
<1>3. CASE d \in w.destroyed
  <2>1. /\ ended \in DragWorlds
        /\ ended.progress = w.progress \ {d} /\ ended.heard = w.heard \ {d}
        /\ ended.grabbed = w.grabbed /\ ended.actor = w.actor /\ ended.current = w.current
        /\ ended.animation = w.animation
        /\ ended.destroyed = w.destroyed /\ ended.cancellable = w.cancellable
        /\ ended.onEvent = w.onEvent /\ ended.button = w.button
    BY <1>1 DEF DragWorlds
  <2>2. DragWhole(ended) /\ d \notin ended.progress /\ d \notin ended.animation
    BY <1>1, <2>1 DEF WholeBut, DragWhole
  <2>3. ASSUME NEW p, Poised(w, p)
        PROVE  /\ Poised(ended, p) /\ ended.grabbed \subseteq {d}
               /\ d \in ended.button => Returned(ended, p)
    BY <2>1, <2>3 DEF WholeBut, Poised, Returned
  <2>4. CASE d \notin w.button
    <3>1. Drag!Ends(Drag!_dragComplete(over, d), d) = Drag!_dragComplete(ended, d)
      BY <1>1, ZenonT(40) DEF Drag!Ends, Drag!_dragComplete, DragWorlds
    <3>2. Drag!_dragComplete(ended, d).actor[d] = "none"
      BY <2>1 DEF Drag!_dragComplete, DragWorlds
    <3>3. Drag!_cancelDrag(w, d) = Drag!_dragComplete(ended, d)
      BY <1>1, <1>3, <2>4, <3>1, <3>2 DEF Drag!_cancelDrag
    <3> QED BY <2>2, <2>3, <3>3, CompletedDrag
  <2>5. CASE d \in w.button
    <3> DEFINE gone == [ended EXCEPT !.actor[d] = "gone"]
    <3>1. /\ Drag!_cancelDrag(w, d) \in {ended, gone}
          /\ w.actor[d] # "none"
      BY <1>1, <1>3, <2>5 DEF Drag!_cancelDrag, Drag!Ends, DragWorlds, WholeBut
    <3>2. /\ gone \in DragWorlds
          /\ gone.actor = [ended.actor EXCEPT ![d] = "gone"]
          /\ gone.progress = ended.progress /\ gone.heard = ended.heard
          /\ gone.grabbed = ended.grabbed /\ gone.current = ended.current
          /\ gone.animation = ended.animation
          /\ gone.destroyed = ended.destroyed /\ gone.cancellable = ended.cancellable
          /\ gone.onEvent = ended.onEvent /\ gone.button = ended.button
      BY <2>1 DEF DragWorlds
    <3>3. ended.actor \in [Draggables -> {"none", "there", "gone"}]
      BY <2>1 DEF DragWorlds
    <3>4. ended.actor[d] # "none" /\ d \in ended.button
      BY <2>1, <2>5, <3>1
    <3> HIDE DEF gone, ended
    <3>5. DragWhole(gone)
      BY <2>2, <3>2, <3>3 DEF DragWhole
    <3>6. ASSUME NEW p, Poised(w, p)
          PROVE  Poised(gone, p) /\ Returned(gone, p)
      BY <2>3, <3>2, <3>3, <3>4, <3>6 DEF Poised, Returned
    <3> QED BY <2>2, <2>3, <3>1, <3>4, <3>5, <3>6
  <2> QED BY <2>4, <2>5
<1> QED BY <1>2, <1>3

LEMMA CancelledDrag ==
  ASSUME NEW w, DragWhole(w), NEW d \in Draggables, d \in w.progress
  PROVE  /\ DragWhole(Drag!_cancelDrag(w, d))
         /\ \A p : Poised(w, p) =>
              Poised(Drag!_cancelDrag(w, d), p) /\ Returned(Drag!_cancelDrag(w, d), p)
<1>1. WholeBut(w, d)
  BY DEF DragWhole, WholeBut, DragWorlds
<1> QED BY <1>1, CancelledDragOf

LEMMA StartedDrag ==
  ASSUME NEW w, DragWhole(w), NEW d \in Draggables, NEW granted \in BOOLEAN,
         w.actor[d] = "none"
  PROVE  /\ DragWhole(Drag!startDrag(w, d, granted))
         /\ Poised(w, d) /\ w.grabbed = {} /\ granted =>
              Poised(Drag!startDrag(w, d, granted), d) /\ Returned(Drag!startDrag(w, d, granted), d)
<1> DEFINE v == Drag!startDrag(w, d, granted)
<1>1. /\ v \in DragWorlds
      /\ v.grabbed = IF granted THEN w.grabbed \cup {d} ELSE w.grabbed
      /\ v.actor = [w.actor EXCEPT ![d] = "there"] /\ v.current = d
      /\ v.progress = w.progress \cup {d} /\ v.heard = w.heard \cup {d}
      /\ v.onEvent = w.onEvent \ {d}
      /\ v.animation = w.animation
      /\ v.destroyed = w.destroyed /\ v.cancellable = w.cancellable
      /\ v.button = w.button
  BY ZenonT(40) DEF DragWhole, DragWorlds, Drag!startDrag, Drag!Begins, Drag!_ungrabActor
<1>2. w.actor \in [Draggables -> {"none", "there", "gone"}]
  BY DEF DragWhole, DragWorlds
<1>3. d \notin w.progress /\ d \notin w.animation
  BY DEF DragWhole
<1>4. d # NoDraggable
  BY ConstantsAssumptions DEF Drag!ConstantsAssumption
<1> HIDE DEF v
<1>5. DragWhole(v)
  BY <1>1, <1>2, <1>3 DEF DragWhole
<1>6. ASSUME Poised(w, d), w.grabbed = {}, granted
      PROVE  Poised(v, d) /\ Returned(v, d)
  BY <1>1, <1>2, <1>4, <1>6 DEF Poised, Returned
<1> QED BY <1>5, <1>6 DEF v

LEMMA DragBecomes ==
  ASSUME NEW w, DragWhole(w), Drag!Becomes(w), NEW p \in Draggables \cup {NoDraggable},
         pressed' = p, refused' \in BOOLEAN, thrown' \in BOOLEAN,
         ~refused' => Poised(w, p) /\ Returned(w, p)
  PROVE  DragInv'
<1>1. Drag!World' = w
  BY DEF DragWhole, DragWorlds, Drag!Becomes, Drag!World
<1> QED BY <1>1 DEF DragInv

(* What a world with less hover, or another set of those that may be       *)
(* cancelled, is.                                                          *)
LEMMA DragFacts ==
  ASSUME DragInv
  PROVE  /\ DragWhole(Drag!World) /\ Drag!World \in DragWorlds
         /\ pressed \in Draggables \cup {NoDraggable} /\ refused \in BOOLEAN /\ thrown \in BOOLEAN
         /\ ~refused => Poised(Drag!World, pressed) /\ Returned(Drag!World, pressed)
         /\ NoDraggable \notin Draggables
BY ConstantsAssumptions DEF DragInv, DragWhole, Drag!ConstantsAssumption

LEMMA PressKeeps ==
  ASSUME DragInv, NEW d \in Draggables, Drag!Press(d)
  PROVE  DragInv'
<1> DEFINE w == [Drag!World EXCEPT !.button = @ \cup {d}, !.onEvent = @ \cup {d}]
<1>0. Drag!World.grabbed = {} /\ Drag!World.onEvent = {}
  BY DEF Drag!Press, Drag!World
<1>1. /\ w \in DragWorlds /\ w.onEvent = {d}
      /\ w.grabbed = {} /\ w.actor = Drag!World.actor /\ w.current = Drag!World.current
      /\ w.progress = Drag!World.progress /\ w.animation = Drag!World.animation
      /\ w.heard = Drag!World.heard /\ w.destroyed = Drag!World.destroyed
      /\ w.cancellable = Drag!World.cancellable
  <2> HIDE DEF Drag!World
  <2> QED BY <1>0, DragFacts DEF DragWorlds
<1>2. DragWhole(w) /\ (~refused => Poised(w, d) /\ Returned(w, d))
  <2> HIDE DEF w
  <2>1. DragWhole(w)
    BY <1>1, DragFacts DEF DragWhole
  <2>2. ~refused => Poised(w, d) /\ Returned(w, d)
    BY <1>0, <1>1, DragFacts DEF Poised, Returned
  <2> QED BY <2>1, <2>2
<1>3. ~refused => Poised(Drag!World, d) /\ Returned(Drag!World, d)
  BY DragFacts DEF Drag!Press, Poised, Returned, Drag!World
<1>4. \/ Drag!Becomes(Drag!World)
      \/ Drag!Becomes(w)
  BY DEF Drag!Press
<1>5. pressed' = d /\ refused' = refused /\ thrown' = thrown
  BY DEF Drag!Press
<1> HIDE DEF w
<1> QED BY <1>2, <1>3, <1>4, <1>5, DragFacts, DragBecomes

(* Where the drag is begun the pointer is looked after as well.            *)
LEMMA HoverKept ==
  ASSUME NEW w, DragWhole(w), NEW h \in SUBSET Draggables
  PROVE  /\ DragWhole([w EXCEPT !.hover = h])
         /\ \A p : Poised(w, p) => Poised([w EXCEPT !.hover = h], p)
         /\ \A p : Returned(w, p) => Returned([w EXCEPT !.hover = h], p)
<1> DEFINE v == [w EXCEPT !.hover = h]
<1>1. /\ v \in DragWorlds
      /\ v.grabbed = w.grabbed /\ v.actor = w.actor /\ v.current = w.current
      /\ v.progress = w.progress /\ v.animation = w.animation /\ v.heard = w.heard
      /\ v.destroyed = w.destroyed /\ v.cancellable = w.cancellable /\ v.onEvent = w.onEvent
      /\ v.button = w.button
  BY DEF DragWhole, DragWorlds
<1> HIDE DEF v
<1>2. DragWhole(v) /\ \A p : (Poised(w, p) => Poised(v, p)) /\ (Returned(w, p) => Returned(v, p))
  BY <1>1 DEF DragWhole, Poised, Returned
<1> QED BY <1>2 DEF v

LEMMA MotionKeeps ==
  ASSUME DragInv, NEW d \in Draggables, NEW granted \in BOOLEAN, Drag!Motion(d, granted)
  PROVE  DragInv'
<1>1. CASE /\ Drag!Becomes([Drag!World EXCEPT !.hover = @ \cup {d}])
           /\ UNCHANGED <<pressed, refused, thrown>>
  <2> DEFINE h == Drag!World.hover \cup {d}
  <2>1. h \in SUBSET Draggables
    BY DragFacts DEF DragWorlds
  <2>2. Drag!Becomes([Drag!World EXCEPT !.hover = h])
    BY <1>1
  <2> HIDE DEF h
  <2> QED BY <1>1, <2>1, <2>2, DragFacts, HoverKept, DragBecomes
<1>2. CASE /\ _dragActor[d] = "none"
           /\ Drag!Becomes([Drag!startDrag(Drag!World, d, granted) EXCEPT !.hover = @ \cup {d}])
           /\ refused' = (refused \/ ~granted)
  <2> DEFINE s == Drag!startDrag(Drag!World, d, granted)
             h == s.hover \cup {d}
  <2>1. Drag!World.actor[d] = "none" /\ pressed' = pressed /\ thrown' = thrown
    BY <1>2 DEF Drag!World, Drag!Motion
  <2>2. DragWhole(s)
    BY <2>1, DragFacts, StartedDrag
  <2>3. ASSUME ~refused'
        PROVE  Poised(s, pressed) /\ Returned(s, pressed)
    <3>1. ~refused /\ granted /\ Poised(Drag!World, pressed)
      BY <1>2, <2>3, DragFacts
    <3>2. d \notin _eventsGrabbed
      BY <1>2, <3>1 DEF Poised, Drag!World
    <3>3. _eventsGrabbed = {} /\ d = pressed
      BY <3>1, <3>2 DEF Poised, Drag!World, Drag!Motion, Drag!Receives
    <3> QED BY <2>1, <3>1, <3>3, DragFacts, StartedDrag DEF Drag!World
  <2>4. h \in SUBSET Draggables /\ Drag!Becomes([s EXCEPT !.hover = h])
    BY <1>2, <2>2 DEF DragWhole, DragWorlds
  <2>5. refused' \in BOOLEAN
    BY <1>2, DragFacts
  <2> HIDE DEF s, h
  <2> QED BY <2>1, <2>2, <2>3, <2>4, <2>5, DragFacts, HoverKept, DragBecomes
<1> QED BY <1>1, <1>2 DEF Drag!Motion

LEMMA OwnerKeeps ==
  ASSUME DragInv, NEW d \in Draggables, NEW granted \in BOOLEAN, Drag!OwnerStarts(d, granted)
  PROVE  DragInv'
<1> DEFINE s == Drag!startDrag(Drag!World, d, granted)
<1>1. /\ Drag!World.actor[d] = "none" /\ pressed = d /\ pressed' = pressed /\ thrown' = thrown
      /\ Drag!Becomes(s) /\ refused' = (refused \/ ~granted)
  BY DEF Drag!World, Drag!OwnerStarts
<1>2. DragWhole(s)
  BY <1>1, DragFacts, StartedDrag
<1>3. ASSUME ~refused'
      PROVE  Poised(s, pressed) /\ Returned(s, pressed)
  <2>1. ~refused /\ granted /\ Poised(Drag!World, pressed)
    BY <1>1, <1>3, DragFacts
  <2>2. Drag!World.grabbed = {}
    BY <1>1, <2>1, DragFacts DEF Poised
  <2> QED BY <1>1, <2>1, <2>2, DragFacts, StartedDrag
<1>4. refused' \in BOOLEAN
  BY <1>1, DragFacts
<1> HIDE DEF s
<1> QED BY <1>1, <1>2, <1>3, <1>4, DragFacts, DragBecomes

(* The draggable that gets the events is the only one with the modal.      *)
LEMMA ReceiverAlone ==
  ASSUME DragInv, NEW d \in Draggables, Drag!Receives(d), ~refused
  PROVE  /\ Drag!World.grabbed \subseteq {d}
         /\ Drag!World.actor[d] = "none" => d \in Drag!World.onEvent /\ Drag!World.grabbed = {}
         /\ Drag!World.actor[d] # "none" => Drag!World.grabbed = {d} /\ Drag!World.onEvent = {}
<1>1. Poised(Drag!World, pressed)
  BY DragFacts
<1>2. IF Drag!World.grabbed # {} THEN Drag!World.current = d ELSE d \in Drag!World.onEvent
  BY DEF Drag!Receives, Drag!World
<1> QED BY <1>1, <1>2 DEF Poised

(* The button goes up: v is the world then, before the drag is ended.      *)
LEMMA ReleasedDrag ==
  ASSUME DragInv, NEW d \in Draggables, Drag!Receives(d), NEW c \in SUBSET Draggables,
         c \subseteq Drag!World.cancellable
  PROVE  LET v == [Drag!World EXCEPT !.button = @ \ {d}, !.cancellable = c]
         IN  /\ DragWhole(v)
             /\ ~refused =>
                  /\ v.grabbed \subseteq {d}
                  /\ v.actor[d] # "none" => Poised(v, NoDraggable)
<1> DEFINE w == Drag!World
           v == [w EXCEPT !.button = @ \ {d}, !.cancellable = c]
<1>1. DragWhole(w) /\ w \in DragWorlds
  BY DragFacts
<1>2. ~refused =>
        /\ Poised(w, pressed) /\ w.grabbed \subseteq {d}
        /\ w.actor[d] # "none" => w.grabbed = {d} /\ w.onEvent = {}
  BY DragFacts, ReceiverAlone
<1> HIDE DEF w
<1>3. /\ v \in DragWorlds
      /\ v.button = w.button \ {d} /\ v.cancellable = c
      /\ v.grabbed = w.grabbed /\ v.actor = w.actor /\ v.current = w.current
      /\ v.progress = w.progress /\ v.animation = w.animation /\ v.heard = w.heard
      /\ v.destroyed = w.destroyed /\ v.onEvent = w.onEvent
  BY <1>1 DEF DragWorlds
<1>4. c \subseteq w.cancellable
  BY DEF w
<1> HIDE DEF v
<1>5. DragWhole(v)
  BY <1>1, <1>3, <1>4 DEF DragWhole
<1>6. ASSUME ~refused
      PROVE  v.grabbed \subseteq {d} /\ (v.actor[d] # "none" => Poised(v, NoDraggable))
  BY <1>2, <1>3, <1>6 DEF Poised
<1> QED BY <1>5, <1>6 DEF v, w

LEMMA AcceptedDrag ==
  ASSUME NEW w, DragWhole(w), NEW d \in Draggables, d \in w.progress, NEW taken \in BOOLEAN,
         NEW destroys \in BOOLEAN
  PROVE  LET v == Drag!Accepted(w, d, taken, destroys)
         IN  /\ DragWhole(v)
             /\ \A p : Poised(w, p) => Poised(v, p) /\ Returned(v, p)
<1> DEFINE gone == IF destroys THEN w.destroyed \cup {d} ELSE w.destroyed
           left == [w EXCEPT !.progress = @ \ {d}, !.heard = @ \ {d}, !.destroyed = gone]
           back == [w EXCEPT !.progress = @ \ {d}, !.animation = @ \cup {d}]
<1>1. w \in DragWorlds /\ d \notin w.animation
  BY DEF DragWhole
<1>2. \/ Drag!Accepted(w, d, taken, destroys) = back
      \/ Drag!Accepted(w, d, taken, destroys) = Drag!_dragComplete(left, d)
  <2>1. CASE ~taken /\ ~Drag!IsClone(d) /\ ~destroys
    BY <1>1, <2>1 DEF Drag!Accepted, Drag!_animateDragEnd, DragWorlds
  <2>2. CASE ~(~taken /\ ~Drag!IsClone(d) /\ ~destroys)
    <3> DEFINE w1 == IF destroys
                     THEN [w EXCEPT !.destroyed = @ \cup {d}, !.heard = @ \ {d}] ELSE w
    <3>1. Drag!Ends([w1 EXCEPT !.progress = @ \ {d}], d) = left
      BY <1>1 DEF DragWorlds, Drag!Ends
    <3>2. Drag!Accepted(w, d, taken, destroys)
            = Drag!_dragComplete(Drag!Ends([w1 EXCEPT !.progress = @ \ {d}], d), d)
      BY <2>2 DEF Drag!Accepted
    <3> HIDE DEF w1
    <3> QED BY <3>1, <3>2
  <2> QED BY <2>1, <2>2
<1>3. /\ left \in DragWorlds
      /\ left.progress = w.progress \ {d} /\ left.heard = w.heard \ {d}
      /\ left.destroyed = gone
      /\ left.grabbed = w.grabbed /\ left.actor = w.actor /\ left.current = w.current
      /\ left.animation = w.animation /\ left.cancellable = w.cancellable
      /\ left.onEvent = w.onEvent /\ left.button = w.button
  BY <1>1 DEF DragWorlds
<1>4. /\ back \in DragWorlds
      /\ back.progress = w.progress \ {d} /\ back.animation = w.animation \cup {d}
      /\ back.grabbed = w.grabbed /\ back.actor = w.actor /\ back.current = w.current
      /\ back.heard = w.heard
      /\ back.destroyed = w.destroyed /\ back.cancellable = w.cancellable
      /\ back.onEvent = w.onEvent /\ back.button = w.button
  BY <1>1 DEF DragWorlds
<1>5. w.destroyed \subseteq gone
  OBVIOUS
<1> HIDE DEF left, back, gone
<1>6. DragWhole(left) /\ d \notin left.progress /\ d \notin left.animation
  BY <1>1, <1>3, <1>5 DEF DragWhole
<1>7. ASSUME NEW p, Poised(w, p)
      PROVE  Poised(left, p) /\ left.grabbed \subseteq {d}
  BY <1>3, <1>7 DEF Poised, DragWhole
<1>8. DragWhole(back)
  BY <1>1, <1>4 DEF DragWhole
<1>9. ASSUME NEW p, Poised(w, p)
      PROVE  Poised(back, p) /\ Returned(back, p)
  BY <1>4, <1>9 DEF Poised, DragWhole, Returned
<1> QED BY <1>2, <1>6, <1>7, <1>8, <1>9, CompletedDrag

LEMMA ReleaseKeeps ==
  ASSUME DragInv, NEW d \in Draggables, NEW accepted \in BOOLEAN, NEW taken \in BOOLEAN,
         NEW destroys \in BOOLEAN, Drag!Release(d, accepted, taken, destroys)
  PROVE  DragInv'
<1> DEFINE w == [Drag!World EXCEPT !.button = @ \ {d}]
           late == [w EXCEPT !.cancellable = @ \ {d}]
<1>1. /\ Drag!Receives(d) /\ pressed' = NoDraggable /\ refused' = refused
      /\ refused' \in BOOLEAN /\ NoDraggable \in Draggables \cup {NoDraggable}
  BY DragFacts DEF Drag!Release
<1>2. /\ w = [Drag!World EXCEPT !.button = @ \ {d}, !.cancellable = Drag!World.cancellable]
      /\ late = [Drag!World EXCEPT !.button = @ \ {d},
                                   !.cancellable = Drag!World.cancellable \ {d}]
      /\ Drag!World.cancellable \in SUBSET Draggables
      /\ Drag!World.cancellable \ {d} \in SUBSET Draggables
  <2> HIDE DEF Drag!World
  <2> QED BY DragFacts DEF DragWorlds
<1>3. /\ w.progress = _dragInProgress /\ w.actor = _dragActor
      /\ w.animation = _animationInProgress /\ w.cancellable = _dragCancellable
      /\ w.destroyed = _actorDestroyed /\ w.onEvent = _onEventId
      /\ late.progress = _dragInProgress /\ late.actor = _dragActor
  BY DEF Drag!World
<1> HIDE DEF w, late
<1>4. /\ DragWhole(w) /\ DragWhole(late)
      /\ ~refused =>
           /\ w.grabbed \subseteq {d}
           /\ _dragActor[d] # "none" => Poised(w, NoDraggable) /\ Poised(late, NoDraggable)
  <2>1. /\ DragWhole(w)
        /\ ~refused => w.grabbed \subseteq {d} /\ (w.actor[d] # "none" => Poised(w, NoDraggable))
    <3> DEFINE c == Drag!World.cancellable
    <3>1. c \in SUBSET Draggables /\ c \subseteq Drag!World.cancellable
      BY <1>2
    <3>2. w = [Drag!World EXCEPT !.button = @ \ {d}, !.cancellable = c]
      BY <1>2
    <3> HIDE DEF c
    <3> QED BY <1>1, <3>1, <3>2, ReleasedDrag
  <2>2. /\ DragWhole(late)
        /\ ~refused => (late.actor[d] # "none" => Poised(late, NoDraggable))
    <3> DEFINE c == Drag!World.cancellable \ {d}
    <3>1. c \in SUBSET Draggables /\ c \subseteq Drag!World.cancellable
      BY <1>2
    <3>2. late = [Drag!World EXCEPT !.button = @ \ {d}, !.cancellable = c]
      BY <1>2
    <3> HIDE DEF c
    <3> QED BY <1>1, <3>1, <3>2, ReleasedDrag
  <2> QED BY <1>3, <2>1, <2>2
<1>5. CASE /\ d \in _dragInProgress /\ _dragActor[d] = "there"
           /\ Drag!Becomes(Drag!Dropped(w, d, accepted, taken, destroys)) /\ UNCHANGED thrown
  <2> DEFINE v == Drag!Dropped(w, d, accepted, taken, destroys)
  <2>1. v = IF accepted THEN Drag!Accepted(late, d, taken, destroys) ELSE Drag!_cancelDrag(late, d)
    BY DEF Drag!Dropped, late
  <2>2. DragWhole(v) /\ \A p : Poised(late, p) => Poised(v, p) /\ Returned(v, p)
    BY <1>3, <1>4, <1>5, <2>1, AcceptedDrag, CancelledDrag
  <2>3. ~refused' => Poised(v, NoDraggable) /\ Returned(v, NoDraggable)
    BY <1>1, <1>4, <1>5, <2>2
  <2>4. thrown' \in BOOLEAN
    BY <1>5, DragFacts
  <2>5. Drag!Becomes(v)
    BY <1>5
  <2> HIDE DEF v
  <2> QED BY <1>1, <2>2, <2>3, <2>4, <2>5, DragBecomes
<1>6. CASE d \in _dragInProgress /\ _dragActor[d] = "gone" /\ Drag!Becomes(w) /\ thrown' = TRUE
  <2>1. d \in w.destroyed /\ d \notin w.cancellable
    BY <1>3, <1>4, <1>6 DEF DragWhole
  <2>2. ~refused' => Poised(w, NoDraggable) /\ Returned(w, NoDraggable)
    BY <1>1, <1>4, <1>6, <2>1 DEF Returned
  <2> QED BY <1>1, <1>4, <1>6, <2>2, DragBecomes
<1>7. CASE /\ d \notin _dragInProgress /\ UNCHANGED thrown
           /\ _dragActor[d] # "none" /\ d \notin _animationInProgress
           /\ Drag!Becomes(Drag!_dragComplete(w, d))
  <2>1. ~refused' => Poised(Drag!_dragComplete(w, d), NoDraggable)
                       /\ Returned(Drag!_dragComplete(w, d), NoDraggable)
    BY <1>1, <1>3, <1>4, <1>7, CompletedDrag
  <2>2. DragWhole(Drag!_dragComplete(w, d)) /\ thrown' \in BOOLEAN
    BY <1>3, <1>4, <1>7, DragFacts, CompletedDrag
  <2> QED BY <1>1, <1>7, <2>1, <2>2, DragBecomes
<1>8. CASE /\ d \notin _dragInProgress /\ UNCHANGED thrown
           /\ ~(_dragActor[d] # "none" /\ d \notin _animationInProgress)
           /\ Drag!Becomes(Drag!_ungrabActor(w, d))
  <2> DEFINE v == Drag!_ungrabActor(w, d)
  <2>1. w \in DragWorlds
    BY <1>4 DEF DragWhole
  <2>2. /\ v \in DragWorlds /\ v.onEvent = w.onEvent \ {d}
        /\ v.grabbed = w.grabbed /\ v.actor = w.actor /\ v.current = w.current
        /\ v.progress = w.progress /\ v.animation = w.animation /\ v.heard = w.heard
        /\ v.destroyed = w.destroyed /\ v.cancellable = w.cancellable /\ v.button = w.button
    BY <2>1 DEF DragWorlds, Drag!_ungrabActor
  <2>3. w.grabbed = Drag!World.grabbed /\ w.onEvent = Drag!World.onEvent
        /\ w.actor = Drag!World.actor
    BY DEF w, Drag!World
  <2> HIDE DEF v
  <2>4. DragWhole(v)
    BY <1>4, <2>2 DEF DragWhole
  <2>5. ASSUME ~refused'
        PROVE  Poised(v, NoDraggable) /\ Returned(v, NoDraggable)
    <3>1. Poised(Drag!World, pressed) /\ ~refused
      BY <1>1, <2>5, DragFacts
    <3>2. CASE _dragActor[d] = "none"
      <4>1. v.grabbed = {} /\ v.onEvent = {}
        BY <1>1, <1>3, <2>2, <2>3, <3>1, <3>2, ReceiverAlone DEF Poised
      <4> QED BY <2>2, <2>3, <3>1, <4>1 DEF Poised, Returned
    <3>3. CASE _dragActor[d] # "none"
      <4>1. v.grabbed \subseteq {d} /\ d \in v.animation /\ Poised(w, NoDraggable)
        BY <1>3, <1>4, <1>8, <2>2, <3>1, <3>3
      <4> QED BY <2>2, <4>1 DEF Poised, Returned
    <3> QED BY <3>2, <3>3
  <2>6. thrown' \in BOOLEAN
    BY <1>8, DragFacts
  <2>7. Drag!Becomes(v)
    BY <1>8 DEF v
  <2> QED BY <1>1, <2>4, <2>5, <2>6, <2>7, DragBecomes
<1> QED BY <1>5, <1>6, <1>7, <1>8 DEF Drag!Release, w

LEMMA ElsewhereKeeps ==
  ASSUME DragInv, Drag!ReleaseElsewhere
  PROVE  DragInv'
<1>1. /\ pressed # NoDraggable /\ \A d \in Draggables : ~Drag!Receives(d)
      /\ pressed' = NoDraggable /\ refused' = refused /\ Drag!Becomes(Drag!World)
      /\ thrown' = (thrown \/ _eventsGrabbed # {})
  BY DEF Drag!ReleaseElsewhere
<1>2. ASSUME ~refused
      PROVE  Poised(Drag!World, NoDraggable) /\ Returned(Drag!World, NoDraggable)
  <2>1. Poised(Drag!World, pressed) /\ Drag!World \in DragWorlds
    BY <1>2, DragFacts
  <2>2. \A d \in Draggables :
          IF Drag!World.grabbed # {} THEN Drag!World.current # d ELSE d \notin Drag!World.onEvent
    BY <1>1 DEF Drag!Receives, Drag!World
  <2>3. Drag!World.grabbed \subseteq Draggables /\ Drag!World.onEvent \subseteq Draggables
    <3> HIDE DEF Drag!World
    <3> QED BY <2>1 DEF DragWorlds
  <2> HIDE DEF Drag!World
  <2>4. Drag!World.grabbed = {} /\ Drag!World.onEvent = {}
    BY <2>1, <2>2, <2>3 DEF Poised
  <2> QED BY <2>1, <2>4 DEF Poised, Returned
<1>3. thrown' \in BOOLEAN /\ refused' \in BOOLEAN
  BY <1>1, DragFacts
<1> HIDE DEF Drag!World
<1> QED BY <1>1, <1>2, <1>3, DragFacts, DragBecomes

LEMMA EscapeKeeps ==
  ASSUME DragInv, NEW d \in Draggables, Drag!Escape(d)
  PROVE  DragInv'
<1>1. /\ d \in Drag!World.progress /\ Drag!Becomes(Drag!_cancelDrag(Drag!World, d))
      /\ UNCHANGED <<pressed, refused, thrown>>
  BY DEF Drag!Escape, Drag!World
<1> HIDE DEF Drag!World
<1>2. /\ DragWhole(Drag!_cancelDrag(Drag!World, d))
      /\ ~refused => /\ Poised(Drag!_cancelDrag(Drag!World, d), pressed)
                     /\ Returned(Drag!_cancelDrag(Drag!World, d), pressed)
  BY <1>1, DragFacts, CancelledDrag
<1> QED BY <1>1, <1>2, DragFacts, DragBecomes

LEMMA FakeReleaseKeeps ==
  ASSUME DragInv, NEW d \in Draggables, Drag!fakeRelease(d)
  PROVE  DragInv'
<1> DEFINE w == Drag!World
           v == Drag!_ungrabActor([w EXCEPT !.button = @ \ {d}], d)
<1>1. /\ d \in w.onEvent /\ Drag!Becomes(v) /\ UNCHANGED <<pressed, refused, thrown>>
  BY DEF Drag!fakeRelease, Drag!World
<1>2. DragWhole(w) /\ w \in DragWorlds /\ (~refused => Poised(w, pressed) /\ Returned(w, pressed))
  BY DragFacts
<1> HIDE DEF w
<1>3. /\ v \in DragWorlds /\ v.button = w.button \ {d} /\ v.onEvent = w.onEvent \ {d}
      /\ v.grabbed = w.grabbed /\ v.actor = w.actor /\ v.current = w.current
      /\ v.progress = w.progress /\ v.animation = w.animation /\ v.heard = w.heard
      /\ v.destroyed = w.destroyed /\ v.cancellable = w.cancellable
  BY <1>2 DEF DragWorlds, Drag!_ungrabActor
<1> HIDE DEF v
<1>4. DragWhole(v)
  BY <1>2, <1>3 DEF DragWhole
<1>5. ~refused => Poised(v, pressed) /\ Returned(v, pressed)
  BY <1>1, <1>2, <1>3 DEF Poised, Returned
<1> QED BY <1>1, <1>4, <1>5, DragFacts, DragBecomes

LEMMA UpdateHoverKeeps ==
  ASSUME DragInv, NEW d \in Draggables, Drag!_updateDragHover(d)
  PROVE  DragInv'
<1> DEFINE h == Drag!World.hover \ {d}
           v == [Drag!World EXCEPT !.hover = h]
<1>1. Drag!Becomes(v) /\ UNCHANGED <<pressed, refused>>
      /\ thrown' = (thrown \/ _dragActor[d] = "gone")
  BY DEF Drag!_updateDragHover
<1> HIDE DEF Drag!World
<1>2. h \in SUBSET Draggables
  BY DragFacts DEF DragWorlds
<1> HIDE DEF h
<1>3. DragWhole(v) /\ (~refused => Poised(v, pressed) /\ Returned(v, pressed))
  BY <1>2, DragFacts, HoverKept
<1>4. thrown' \in BOOLEAN
  BY <1>1, DragFacts
<1> HIDE DEF v
<1> QED BY <1>1, <1>3, <1>4, DragFacts, DragBecomes

(* The listeners were told that the drag is over.                          *)
LEMMA EndedDrag ==
  ASSUME NEW w, DragWhole(w), NEW d
  PROVE  /\ DragWhole(Drag!Ends(w, d)) /\ d \notin Drag!Ends(w, d).heard
         /\ Drag!Ends(w, d).animation = w.animation
         /\ \A p : Poised(w, p) => Poised(Drag!Ends(w, d), p)
         /\ \A p : Returned(w, p) => Returned(Drag!Ends(w, d), p)
<1> DEFINE v == Drag!Ends(w, d)
<1>1. /\ v \in DragWorlds /\ v.heard = w.heard \ {d}
      /\ v.grabbed = w.grabbed /\ v.actor = w.actor /\ v.current = w.current
      /\ v.progress = w.progress /\ v.animation = w.animation
      /\ v.destroyed = w.destroyed /\ v.cancellable = w.cancellable /\ v.onEvent = w.onEvent
      /\ v.button = w.button
  BY DEF DragWhole, DragWorlds, Drag!Ends
<1> HIDE DEF v
<1>2. /\ DragWhole(v) /\ d \notin v.heard
      /\ \A p : (Poised(w, p) => Poised(v, p)) /\ (Returned(w, p) => Returned(v, p))
  BY <1>1 DEF DragWhole, Poised, Returned
<1> QED BY <1>1, <1>2 DEF v

LEMMA AnimationKeeps ==
  ASSUME DragInv, NEW d \in Draggables, Drag!AnimationEnds(d)
  PROVE  DragInv'
<1> DEFINE w == Drag!Ends(Drag!World, d)
           v == Drag!_finishAnimation(w, d)
<1>1. /\ Drag!Becomes(v) /\ UNCHANGED <<pressed, refused, thrown>>
      /\ d \in Drag!World.animation
  BY DEF Drag!AnimationEnds, Drag!World
<1> HIDE DEF Drag!World
<1>2. DragWhole(w) /\ d \notin w.heard /\ (~refused => Poised(w, pressed) /\ Returned(w, pressed))
  BY DragFacts, EndedDrag
<1> HIDE DEF w
<1>3. DragWhole(v) /\ (~refused => Poised(v, pressed) /\ Returned(v, pressed))
  BY <1>2, FinishedAnimation
<1> HIDE DEF v
<1> QED BY <1>1, <1>3, DragFacts, DragBecomes

LEMMA DestroyKeeps ==
  ASSUME DragInv, NEW d \in Draggables, Drag!Destroy(d)
  PROVE  DragInv'
<1> DEFINE w == Drag!World
           without == [w EXCEPT !.destroyed = @ \cup {d}, !.onEvent = @ \ {d}]
           actor == [without EXCEPT
                       !.actor[d] = IF ~Drag!IsClone(d) /\ @ = "there" THEN "gone" ELSE @]
           cancelled == IF d \in w.progress /\ d \in w.cancellable
                        THEN Drag!_cancelDrag(actor, d) ELSE actor
           quiet == IF Drag!IsClone(d) THEN cancelled ELSE Drag!Ends(cancelled, d)
           v == IF Drag!IsClone(d) THEN quiet ELSE Drag!_finishAnimation(quiet, d)
<1>1. /\ DragWhole(w) /\ w \in DragWorlds
      /\ ~refused => Poised(w, pressed) /\ Returned(w, pressed)
  BY DragFacts
<1>2. Drag!Becomes(v) /\ UNCHANGED <<pressed, refused, thrown>>
  BY DEF Drag!Destroy, Drag!World
<1> HIDE DEF w
<1>3. /\ actor \in DragWorlds
      /\ actor.actor = [w.actor EXCEPT
           ![d] = IF ~Drag!IsClone(d) /\ @ = "there" THEN "gone" ELSE @]
      /\ actor.destroyed = w.destroyed \cup {d} /\ actor.onEvent = w.onEvent \ {d}
      /\ actor.grabbed = w.grabbed /\ actor.current = w.current
      /\ actor.progress = w.progress /\ actor.animation = w.animation
      /\ actor.heard = w.heard /\ actor.cancellable = w.cancellable
      /\ actor.button = w.button
  BY <1>1 DEF DragWorlds
<1>4. w.actor \in [Draggables -> {"none", "there", "gone"}]
  BY <1>1 DEF DragWorlds
<1> HIDE DEF actor
<1>5. \A e \in Draggables :
        /\ actor.actor[e] = "none" <=> w.actor[e] = "none"
        /\ e # d => actor.actor[e] = w.actor[e]
  BY <1>3, <1>4
<1>6. w.progress \subseteq Draggables /\ w.animation \subseteq Draggables
  BY <1>1 DEF DragWorlds
<1>7. WholeBut(actor, d)
  BY <1>1, <1>3, <1>5, <1>6 DEF DragWhole, WholeBut
<1>8. ~refused => Poised(actor, pressed) /\ Returned(actor, pressed)
  BY <1>1, <1>3, <1>5 DEF Poised, Returned
<1>9. DragWhole(cancelled) /\ (~refused => Poised(cancelled, pressed) /\ Returned(cancelled, pressed))
  <2>1. CASE d \in w.progress /\ d \in w.cancellable
    BY <1>3, <1>7, <1>8, <2>1, CancelledDragOf
  <2>2. CASE ~(d \in w.progress /\ d \in w.cancellable)
    <3>1. DragWhole(actor)
      BY <1>3, <1>7, <2>2 DEF DragWhole, WholeBut
    <3> QED BY <1>8, <2>2, <3>1
  <2> QED BY <2>1, <2>2
<1> HIDE DEF cancelled
<1>10. DragWhole(v) /\ (~refused => Poised(v, pressed) /\ Returned(v, pressed))
  <2>1. CASE Drag!IsClone(d)
    BY <1>9, <2>1
  <2>2. CASE ~Drag!IsClone(d)
    <3> DEFINE ended == Drag!Ends(cancelled, d)
    <3>1. /\ DragWhole(ended) /\ d \notin ended.heard
          /\ ~refused => Poised(ended, pressed) /\ Returned(ended, pressed)
      BY <1>9, EndedDrag
    <3>2. v = Drag!_finishAnimation(ended, d)
      BY <2>2
    <3> HIDE DEF ended, v
    <3> QED BY <3>1, <3>2, FinishedAnimation
  <2> QED BY <2>1, <2>2
<1> HIDE DEF v
<1> QED BY <1>1, <1>2, <1>10, DragFacts, DragBecomes

LEMMA DragStarts ==
  ASSUME Drag!Init
  PROVE  DragInv
<1> DEFINE w == Drag!World
<1>1. /\ w.current = NoDraggable /\ w.onEvent = {} /\ w.grabbed = {} /\ w.progress = {}
      /\ w.animation = {} /\ w.heard = {} /\ w.actor = [d \in Draggables |-> "none"]
      /\ w \in DragWorlds
  BY DEF Drag!Init, Drag!World, DragWorlds
<1>2. pressed = NoDraggable /\ refused = FALSE /\ thrown = FALSE
  BY DEF Drag!Init
<1> HIDE DEF w
<1>3. DragWhole(w) /\ Poised(w, NoDraggable) /\ Returned(w, NoDraggable)
  BY <1>1 DEF DragWhole, Poised, Returned
<1> QED BY <1>2, <1>3 DEF DragInv, w

LEMMA DragKeeps ==
  ASSUME DragInv, [Drag!Next]_dragVars
  PROVE  DragInv'
<1>1. CASE UNCHANGED dragVars
  BY <1>1 DEF dragVars, DragInv, Drag!World, DragWhole, Poised, Returned
<1>2. CASE Drag!Next
  BY <1>2, PressKeeps, EscapeKeeps, FakeReleaseKeeps, UpdateHoverKeeps, AnimationKeeps,
     DestroyKeeps, MotionKeeps, OwnerKeeps, ReleaseKeeps, ElsewhereKeeps DEF Drag!Next
<1> QED BY <1>1, <1>2

LEMMA DragInvSound == DragInv => Drag!DragSound
<1> SUFFICES ASSUME DragInv PROVE Drag!DragSound
  OBVIOUS
<1> DEFINE w == Drag!World
<1>1. /\ w.current = currentDraggable /\ w.onEvent = _onEventId /\ w.grabbed = _eventsGrabbed
      /\ w.button = _buttonDown /\ w.progress = _dragInProgress
      /\ w.animation = _animationInProgress /\ w.cancellable = _dragCancellable
      /\ w.destroyed = _actorDestroyed /\ w.actor = _dragActor /\ w.hover = _updateHoverId
      /\ w.heard = heard
  BY DEF Drag!World
<1>2. /\ DragWhole(w) /\ w \in DragWorlds
      /\ ~refused => Poised(w, pressed) /\ Returned(w, pressed)
  BY DragFacts
<1> HIDE DEF w
<1>3. /\ currentDraggable \in Draggables \cup {NoDraggable} /\ _onEventId \subseteq Draggables
      /\ _eventsGrabbed \subseteq Draggables /\ _buttonDown \subseteq Draggables
      /\ _dragInProgress \subseteq Draggables /\ _animationInProgress \subseteq Draggables
      /\ _dragCancellable \subseteq Draggables /\ _actorDestroyed \subseteq Draggables
      /\ _updateHoverId \subseteq Draggables /\ heard \subseteq Draggables
      /\ _dragActor \in [Draggables -> {"none", "there", "gone"}]
  BY <1>1, <1>2 DEF DragWorlds
<1>4. {pressed, currentDraggable} \subseteq Draggables \cup {NoDraggable}
  BY <1>3, DragFacts
<1>5. \A s \in {_onEventId, _eventsGrabbed, _buttonDown, _dragInProgress, _animationInProgress,
               _dragCancellable, _actorDestroyed, _updateHoverId, heard} : s \subseteq Draggables
  BY <1>3, Zenon
<1>6. {refused, thrown} \subseteq BOOLEAN
  BY DragFacts, Zenon
<1>7. \A d \in _dragInProgress : _dragActor[d] # "none"
  BY <1>1, <1>2 DEF DragWhole
<1>8. Drag!EventsHaveTaker
  BY <1>1, <1>2 DEF Drag!EventsHaveTaker, Poised
<1>9. Drag!ModalIsReturned
  BY <1>1, <1>2 DEF Drag!ModalIsReturned, Returned
<1>10. Drag!BeginIsEnded
  BY <1>1, <1>2 DEF Drag!BeginIsEnded, DragWhole
<1> QED BY <1>3, <1>4, <1>5, <1>6, <1>7, <1>8, <1>9, <1>10 DEF Drag!DragSound, Drag!TypeOK

-----------------------------------------------------------------------------
(* The pressure at the hot corner.  What is pressed is a sum over the      *)
(* events that are kept; it splits where they are trimmed.                 *)
Event == [time : Nat, distance : Nat]
SumTo(f, events, n) == IF n = 0 THEN 0 ELSE f[n - 1] + events[n].distance

LEMMA SumsExist ==
  ASSUME NEW events, NEW m \in Nat
  PROVE  \E f : f = [n \in 0..m |-> SumTo(f, events, n)]
<1> DEFINE Sums(i) == \E f : f = [n \in 0..i |-> SumTo(f, events, n)]
           Bad == {i \in Nat : ~Sums(i)}
<1> SUFFICES ASSUME ~Sums(m) PROVE FALSE
  OBVIOUS
<1>1. IsWellFoundedOn(OpToRel(<, Nat), Nat)
  BY NatLessThanWellFounded
<1>2. Bad \subseteq Nat /\ Bad # {}
  OBVIOUS
<1>3. PICK i \in Bad : \A j \in Bad : <<j, i>> \notin OpToRel(<, Nat)
  <2> HIDE DEF Bad
  <2> QED BY <1>1, <1>2, WFMin
<1>4. i \in Nat /\ ~Sums(i) /\ \A j \in Nat : j < i => Sums(j)
  BY <1>3 DEF OpToRel
<1>5. CASE i = 0
  <2> DEFINE h == [n \in 0..0 |-> 0]
  <2>1. h = [n \in 0..i |-> SumTo(h, events, n)]
    BY <1>5 DEF SumTo
  <2> QED BY <1>4, <2>1
<1>6. CASE i # 0
  <2>1. i - 1 \in Nat /\ i - 1 < i
    BY <1>4, <1>6
  <2>2. PICK f : f = [n \in 0..(i - 1) |-> SumTo(f, events, n)]
    BY <1>4, <2>1
  <2> DEFINE h == [n \in 0..i |-> IF n = i THEN SumTo(f, events, i) ELSE f[n]]
  <2>3. ASSUME NEW n \in 0..i
        PROVE  h[n] = SumTo(h, events, n)
    <3>1. n # 0 => n - 1 \in 0..(i - 1) /\ n - 1 # i /\ n - 1 \in 0..i
      BY <1>4
    <3>2. n # 0 => h[n - 1] = f[n - 1]
      BY <3>1
    <3>3. SumTo(h, events, n) = SumTo(f, events, n)
      <4> HIDE DEF h
      <4> QED BY <3>2 DEF SumTo
    <3>4. CASE n = i
      BY <3>3, <3>4
    <3>5. CASE n # i
      <4>1. n \in 0..(i - 1)
        BY <1>4, <3>5
      <4>2. f[n] = SumTo(f, events, n)
        <5> HIDE DEF h
        <5> QED BY <2>2, <4>1
      <4> QED BY <3>3, <3>5, <4>2
    <3> QED BY <3>4, <3>5
  <2>4. h = [n \in 0..i |-> SumTo(h, events, n)]
    <3>1. h = [n \in 0..i |-> h[n]]
      OBVIOUS
    <3> HIDE DEF h
    <3> QED BY <2>3, <3>1
  <2> QED BY <1>4, <2>4
<1> QED BY <1>5, <1>6

LEMMA PressureSum ==
  ASSUME NEW events \in Seq(Event)
  PROVE  \E f : /\ Chrome!Pressure(events) = f[Len(events)]
                /\ \A n \in 0..Len(events) : f[n] = SumTo(f, events, n)
<1> DEFINE sum == CHOOSE f : f = [n \in 0..Len(events) |-> SumTo(f, events, n)]
<1>1. Chrome!Pressure(events) = sum[Len(events)]
  BY DEF Chrome!Pressure, SumTo
<1>2. sum = [n \in 0..Len(events) |-> SumTo(sum, events, n)]
  <2>1. Len(events) \in Nat
    OBVIOUS
  <2> QED BY <2>1, SumsExist
<1> HIDE DEF sum
<1>3. \A n \in 0..Len(events) : sum[n] = SumTo(sum, events, n)
  BY <1>2
<1> QED BY <1>1, <1>3

(* Two sums of the same m distances, one of which began k events before.   *)
SameSums(f, g, k, m, t) ==
  /\ f[k] \in Nat /\ g[0] = 0
  /\ \A n \in 1..m : /\ f[n + k] = f[n + k - 1] + t[n].distance
                      /\ g[n] = g[n - 1] + t[n].distance /\ t[n].distance \in Nat

LEMMA SumsAgree ==
  ASSUME NEW f, NEW g, NEW k \in Nat, NEW m \in Nat, NEW t, SameSums(f, g, k, m, t)
  PROVE  g[m] \in Nat /\ f[m + k] = f[k] + g[m]
<1> DEFINE Agree(n) == g[n] \in Nat /\ f[n + k] = f[k] + g[n]
           Bad == {n \in 0..m : ~Agree(n)}
<1> SUFFICES ASSUME ~Agree(m) PROVE FALSE
  OBVIOUS
<1>1. IsWellFoundedOn(OpToRel(<, Nat), Nat)
  BY NatLessThanWellFounded
<1>2. Bad \subseteq Nat /\ Bad # {}
  <2>1. m \in Bad
    OBVIOUS
  <2> QED BY <2>1
<1>3. PICK n \in Bad : \A j \in Bad : <<j, n>> \notin OpToRel(<, Nat)
  <2> HIDE DEF Bad
  <2> QED BY <1>1, <1>2, WFMin
<1>4. n \in 0..m /\ ~Agree(n) /\ \A j \in 0..m : j < n => Agree(j)
  <2>1. ASSUME NEW j \in 0..m, j < n
        PROVE  Agree(j)
    <3>1. n \in 0..m
      OBVIOUS
    <3>2. <<j, n>> \in OpToRel(<, Nat)
      BY <2>1, <3>1 DEF OpToRel
    <3>3. j \notin Bad
      BY <1>3, <3>2
    <3> QED BY <3>3
  <2> QED BY <2>1
<1>5. CASE n = 0
  BY <1>4, <1>5 DEF SameSums
<1>6. CASE n # 0
  <2>1. n \in 1..m /\ n - 1 \in 0..m /\ n - 1 < n /\ n - 1 + k = n + k - 1
    BY <1>4, <1>6
  <2>2. g[n - 1] \in Nat /\ f[n + k - 1] = f[k] + g[n - 1] /\ f[k] \in Nat
    <3>1. Agree(n - 1)
      BY <1>4, <2>1
    <3>2. g[n - 1] \in Nat /\ f[n - 1 + k] = f[k] + g[n - 1]
      BY <3>1
    <3> HIDE DEF Agree, Bad
    <3> QED BY <2>1, <3>2 DEF SameSums
  <2>3. /\ f[n + k] = f[n + k - 1] + t[n].distance /\ g[n] = g[n - 1] + t[n].distance
        /\ t[n].distance \in Nat
    <3>1. \A i \in 1..m : /\ f[i + k] = f[i + k - 1] + t[i].distance
                         /\ g[i] = g[i - 1] + t[i].distance /\ t[i].distance \in Nat
      BY DEF SameSums
    <3> HIDE DEF Bad, Agree
    <3> QED BY <2>1, <3>1
  <2>4. g[n] \in Nat /\ f[n + k] = f[k] + g[n]
    <3> HIDE DEF Agree, Bad
    <3> QED BY <2>2, <2>3
  <2> QED BY <1>4, <2>4
<1> QED BY <1>5, <1>6

LEMMA PressureParts ==
  ASSUME NEW events \in Seq(Event), NEW k \in 0..Len(events)
  PROVE  /\ SubSeq(events, 1, k) \in Seq(Event)
         /\ SubSeq(events, k + 1, Len(events)) \in Seq(Event)
         /\ Chrome!Pressure(events) \in Nat
         /\ Chrome!Pressure(SubSeq(events, 1, k)) \in Nat
         /\ Chrome!Pressure(SubSeq(events, k + 1, Len(events))) \in Nat
         /\ Chrome!Pressure(events)
              = Chrome!Pressure(SubSeq(events, 1, k))
                  + Chrome!Pressure(SubSeq(events, k + 1, Len(events)))
<1> DEFINE a == SubSeq(events, 1, k)
           b == SubSeq(events, k + 1, Len(events))
           m == Len(events) - k
<1>1. /\ Len(events) \in Nat /\ k \in Nat /\ m \in Nat /\ m + k = Len(events)
      /\ \A i \in 1..Len(events) : events[i] \in Event
  OBVIOUS
<1>2. a \in Seq(Event) /\ Len(a) = k /\ \A i \in 1..k : a[i] = events[i]
  <2>1. \A i \in 1..k : events[i] \in Event
    BY <1>1
  <2>2. /\ a \in Seq(Event) /\ Len(a) = IF 1 <= k THEN k - 1 + 1 ELSE 0
        /\ \A i \in 1..(k - 1 + 1) : a[i] = events[1 + i - 1]
    BY <1>1, <2>1, SubSeqProperties
  <2> HIDE DEF a
  <2>3. Len(a) = k /\ k - 1 + 1 = k
    <3>1. CASE k = 0
      BY <2>2, <3>1
    <3>2. CASE 1 <= k
      BY <1>1, <2>2, <3>2
    <3> QED BY <1>1, <3>1, <3>2
  <2>4. ASSUME NEW i \in 1..k
        PROVE  a[i] = events[i]
    <3>1. a[i] = events[1 + i - 1] /\ 1 + i - 1 = i
      BY <1>1, <2>2, <2>3
    <3> QED BY <3>1
  <2> QED BY <2>2, <2>3, <2>4
<1>3. b \in Seq(Event) /\ Len(b) = m /\ \A i \in 1..m : b[i] = events[i + k]
  <2>1. \A i \in (k + 1)..Len(events) : events[i] \in Event
    BY <1>1
  <2>2. /\ b \in Seq(Event)
        /\ Len(b) = IF k + 1 <= Len(events) THEN Len(events) - (k + 1) + 1 ELSE 0
        /\ \A i \in 1..(Len(events) - (k + 1) + 1) : b[i] = events[(k + 1) + i - 1]
    BY <1>1, <2>1, SubSeqProperties
  <2> HIDE DEF b
  <2>3. Len(b) = m /\ Len(events) - (k + 1) + 1 = m
    <3>1. Len(events) - (k + 1) + 1 = m
      BY <1>1
    <3>2. CASE k + 1 <= Len(events)
      <4>1. Len(b) = Len(events) - (k + 1) + 1
        BY <2>2, <3>2
      <4> QED BY <3>1, <4>1
    <3>3. CASE ~(k + 1 <= Len(events))
      <4>1. Len(b) = 0
        BY <2>2, <3>3
      <4>2. k \in Int /\ Len(events) \in Int /\ k <= Len(events)
        BY <1>1
      <4>3. k = Len(events)
        BY <3>3, <4>2
      <4>4. m = 0
        BY <4>2, <4>3
      <4> QED BY <3>1, <4>1, <4>4
    <3> QED BY <3>2, <3>3
  <2>4. ASSUME NEW i \in 1..m
        PROVE  b[i] = events[i + k]
    <3> HIDE DEF m
    <3>1. i \in 1..(Len(events) - (k + 1) + 1) /\ i \in Nat
      BY <1>1, <2>3
    <3>2. b[i] = events[(k + 1) + i - 1]
      BY <2>2, <3>1
    <3>3. (k + 1) + i - 1 = i + k
      BY <1>1, <3>1
    <3> QED BY <3>2, <3>3
  <2> QED BY <2>2, <2>3, <2>4
<1> HIDE DEF a, b
<1>4. PICK f : /\ Chrome!Pressure(events) = f[Len(events)]
               /\ \A n \in 0..Len(events) : f[n] = SumTo(f, events, n)
  BY PressureSum
<1>5. PICK g : /\ Chrome!Pressure(a) = g[k] /\ \A n \in 0..k : g[n] = SumTo(g, a, n)
  BY <1>2, PressureSum
<1>6. PICK h : /\ Chrome!Pressure(b) = h[m] /\ \A n \in 0..m : h[n] = SumTo(h, b, n)
  BY <1>3, PressureSum
<1>7. /\ \A n \in 1..Len(events) : f[n] = f[n - 1] + events[n].distance
      /\ \A n \in 1..k : g[n] = g[n - 1] + a[n].distance
      /\ \A n \in 1..m : h[n] = h[n - 1] + b[n].distance
      /\ f[0] = 0 /\ g[0] = 0 /\ h[0] = 0
  <2> HIDE DEF m
  <2> QED BY <1>1, <1>4, <1>5, <1>6 DEF SumTo
<1>8. g[k] \in Nat /\ f[k] = g[k]
  <2>1. \A n \in 1..k : n \in 1..Len(events) /\ a[n] \in Event /\ a[n] = events[n]
    BY <1>1, <1>2
  <2>2. ASSUME NEW n \in 1..k
        PROVE  /\ f[n + 0] = f[n + 0 - 1] + a[n].distance
               /\ g[n] = g[n - 1] + a[n].distance /\ a[n].distance \in Nat
    <3>1. n \in 1..Len(events) /\ a[n] \in Event /\ a[n] = events[n]
      BY <2>1
    <3>2. n + 0 = n /\ n + 0 - 1 = n - 1 /\ a[n].distance \in Nat
      BY <3>1 DEF Event
    <3>3. f[n] = f[n - 1] + a[n].distance /\ g[n] = g[n - 1] + a[n].distance
      BY <1>7, <3>1
    <3> QED BY <3>2, <3>3
  <2>3. SameSums(f, g, 0, k, a)
    BY <1>7, <2>2 DEF SameSums
  <2> DEFINE z == 0
  <2>4. z \in Nat /\ SameSums(f, g, z, k, a)
    BY <2>3
  <2> HIDE DEF z
  <2>5. g[k] \in Nat /\ f[k + z] = f[z] + g[k]
    BY <1>1, <2>4, SumsAgree
  <2>6. k + z = k /\ f[z] = 0
    BY <1>1, <1>7 DEF z
  <2> QED BY <2>5, <2>6
<1>9. h[m] \in Nat /\ f[m + k] = f[k] + h[m]
  <2>1. \A n \in 1..m : n + k \in 1..Len(events) /\ b[n] \in Event /\ b[n] = events[n + k]
    BY <1>1, <1>3
  <2>2. ASSUME NEW n \in 1..m
        PROVE  /\ f[n + k] = f[n + k - 1] + b[n].distance
               /\ h[n] = h[n - 1] + b[n].distance /\ b[n].distance \in Nat
    <3>1. n + k \in 1..Len(events) /\ b[n] \in Event /\ b[n] = events[n + k]
      BY <2>1
    <3>2. b[n].distance \in Nat
      BY <3>1 DEF Event
    <3>3. f[n + k] = f[n + k - 1] + b[n].distance /\ h[n] = h[n - 1] + b[n].distance
      BY <1>7, <3>1
    <3> QED BY <3>2, <3>3
  <2> HIDE DEF m
  <2>3. SameSums(f, h, k, m, b)
    BY <1>7, <1>8, <2>2 DEF SameSums
  <2> QED BY <1>1, <2>3, SumsAgree
<1>10. f[Len(events)] = g[k] + h[m] /\ f[Len(events)] \in Nat
  BY <1>1, <1>8, <1>9
<1> QED BY <1>2, <1>3, <1>4, <1>5, <1>6, <1>8, <1>9, <1>10 DEF a, b

LEMMA PressureEmpty == Chrome!Pressure(<<>>) = 0
<1> DEFINE none == <<>>
<1>1. none \in Seq(Event) /\ Len(none) = 0
  OBVIOUS
<1> HIDE DEF none
<1>2. PICK f : /\ Chrome!Pressure(none) = f[Len(none)]
               /\ \A n \in 0..Len(none) : f[n] = SumTo(f, none, n)
  BY <1>1, PressureSum
<1>3. Chrome!Pressure(none) = 0
  BY <1>1, <1>2 DEF SumTo
<1> QED BY <1>3 DEF none

LEMMA PressureAppend ==
  ASSUME NEW events \in Seq(Event), NEW e \in Event
  PROVE  /\ Append(events, e) \in Seq(Event)
         /\ Chrome!Pressure(Append(events, e)) = Chrome!Pressure(events) + e.distance
<1> DEFINE s == Append(events, e)
           k == Len(events)
<1>1. s \in Seq(Event) /\ Len(s) = k + 1 /\ k \in Nat /\ s[k + 1] = e
  OBVIOUS
<1>2. SubSeq(s, 1, k) = events
  <2>1. k \in 0..Len(s)
    BY <1>1
  <2>2. SubSeq(s, 1, k) \in Seq(Event) /\ Len(SubSeq(s, 1, k)) = k
        /\ \A i \in 1..k : SubSeq(s, 1, k)[i] = s[i]
    <3>1. \A i \in 1..k : s[i] \in Event
      BY <1>1
    <3>2. /\ SubSeq(s, 1, k) \in Seq(Event)
          /\ Len(SubSeq(s, 1, k)) = IF 1 <= k THEN k - 1 + 1 ELSE 0
          /\ \A i \in 1..(k - 1 + 1) : SubSeq(s, 1, k)[i] = s[1 + i - 1]
      <4> HIDE DEF s
      <4> QED BY <1>1, <3>1, SubSeqProperties
    <3> HIDE DEF s
    <3> QED BY <1>1, <3>2
  <2>3. \A i \in 1..k : s[i] = events[i]
    OBVIOUS
  <2> HIDE DEF s
  <2> QED BY <1>1, <2>2, <2>3, SeqEqual
<1>3. SubSeq(s, k + 1, Len(s)) \in Seq(Event) /\ Len(SubSeq(s, k + 1, Len(s))) = 1
      /\ SubSeq(s, k + 1, Len(s))[1] = e
  <2> HIDE DEF s
  <2>1. \A i \in (k + 1)..Len(s) : s[i] \in Event
    BY <1>1
  <2>2. /\ SubSeq(s, k + 1, Len(s)) \in Seq(Event)
        /\ Len(SubSeq(s, k + 1, Len(s))) = IF k + 1 <= Len(s) THEN Len(s) - (k + 1) + 1 ELSE 0
        /\ \A i \in 1..(Len(s) - (k + 1) + 1) : SubSeq(s, k + 1, Len(s))[i] = s[(k + 1) + i - 1]
    BY <1>1, <2>1, SubSeqProperties
  <2> QED BY <1>1, <2>2
<1>4. Chrome!Pressure(SubSeq(s, k + 1, Len(s))) = e.distance
  <2> DEFINE t == SubSeq(s, k + 1, Len(s))
  <2> HIDE DEF s, t
  <2>1. t \in Seq(Event) /\ Len(t) = 1 /\ t[1] = e
    BY <1>3 DEF t
  <2>2. PICK f : /\ Chrome!Pressure(t) = f[1] /\ \A n \in 0..1 : f[n] = SumTo(f, t, n)
    BY <2>1, PressureSum
  <2>3. f[0] = 0 /\ f[1] = f[0] + e.distance /\ e.distance \in Nat
    BY <2>1, <2>2 DEF SumTo, Event
  <2> QED BY <2>2, <2>3 DEF t
<1>5. Chrome!Pressure(s) = Chrome!Pressure(events) + e.distance
  <2>1. k \in 0..Len(s)
    BY <1>1
  <2> HIDE DEF s
  <2> QED BY <1>1, <1>2, <1>4, <2>1, PressureParts
<1> QED BY <1>1, <1>5

LEMMA MaxExists ==
  ASSUME NEW m \in Nat, NEW S \in SUBSET (0..m), S # {}
  PROVE  Chrome!Max(S) \in 0..m
<1> DEFINE Down == {i \in 0..m : m - i \in S}
<1>1. IsWellFoundedOn(OpToRel(<, Nat), Nat)
  BY NatLessThanWellFounded
<1>2. Down \subseteq Nat /\ Down # {}
  <2>0. Down \subseteq Nat
    OBVIOUS
  <2>1. PICK x \in S : TRUE
    OBVIOUS
  <2>2. m - x \in 0..m /\ m - (m - x) = x
    BY <2>1
  <2>3. m - (m - x) \in S
    BY <2>2
  <2>4. m - x \in Down
    BY <2>2, <2>3
  <2> HIDE DEF Down
  <2> QED BY <2>0, <2>4
<1>3. PICK i \in Down : \A j \in Down : <<j, i>> \notin OpToRel(<, Nat)
  <2> HIDE DEF Down
  <2> QED BY <1>1, <1>2, WFMin
<1>4. m - i \in S /\ \A y \in S : m - i >= y
  <2>1. ASSUME NEW y \in S, ~(m - i >= y)
        PROVE  FALSE
    <3>1. m - y \in Down /\ m - y < i /\ m - y \in Nat /\ i \in Nat
      BY <2>1
    <3>2. <<m - y, i>> \in OpToRel(<, Nat)
      BY <3>1 DEF OpToRel
    <3> QED BY <1>3, <3>1, <3>2
  <2> QED BY <2>1
<1>5. Chrome!Max(S) \in S
  BY <1>4 DEF Chrome!Max
<1> QED BY <1>5

-----------------------------------------------------------------------------
(* The hot corner, on a screen that has a monitor or not.                  *)
BarrierNames == {"vertical", "horizontal"}
Corners ==
  [extended : BOOLEAN, high : BOOLEAN, barriers : SUBSET BarrierNames,
   hit : SUBSET BarrierNames, events : Seq(Event), pressure : Nat, triggered : BOOLEAN,
   entered : BOOLEAN, pointer : {"away", "corner", "environs"}]

Placed(c, some) == c.hit \subseteq c.barriers /\ c.barriers \subseteq Chrome!Barriers(some, TRUE)
Counted(c) ==
  /\ c.pressure = Chrome!Pressure(c.events) /\ c.pressure < PressureThreshold
  /\ c.triggered => c.events = <<>>
Watched(c) == c.entered => c.pointer # "away"
CornerOK(c, some) == c \in Corners /\ Placed(c, some) /\ Counted(c) /\ Watched(c)

LEMMA ThresholdIsPositive ==
  /\ PressureThreshold \in Nat /\ PressureThreshold > 0 /\ MaxDistance \in Nat
  /\ MaxDistance < PressureThreshold /\ Time \subseteq Nat /\ Distance \subseteq Nat
BY ConstantsAssumptions DEF Chrome!CornerAssumption

LEMMA NewCornerOK ==
  ASSUME NEW some \in BOOLEAN, NEW high \in BOOLEAN, NEW extended \in BOOLEAN
  PROVE  CornerOK(Chrome!NewCorner(some, high, extended), some)
<1> DEFINE c == Chrome!NewCorner(some, high, extended)
<1>1. <<>> \in Seq(Event) /\ 0 \in Nat
  OBVIOUS
<1>2. Chrome!Barriers(some, high) \in SUBSET BarrierNames
  BY DEF Chrome!Barriers, BarrierNames
<1>3. /\ c \in Corners /\ c.barriers = Chrome!Barriers(some, high) /\ c.hit = {}
      /\ c.events = <<>> /\ c.pressure = 0 /\ c.triggered = FALSE /\ c.entered = FALSE
  BY <1>1, <1>2 DEF Chrome!NewCorner, Corners
<1> HIDE DEF c
<1>4. Placed(c, some)
  BY <1>3 DEF Placed, Chrome!Barriers
<1>5. Counted(c)
  BY <1>3, PressureEmpty, ThresholdIsPositive DEF Counted
<1> QED BY <1>3, <1>4, <1>5 DEF CornerOK, Watched, c

(* What is pressed is forgotten, whatever else has changed.                *)
LEMMA ResetOK ==
  ASSUME NEW c, c \in Corners, NEW some, Placed(c, some), Watched(c)
  PROVE  CornerOK(Chrome!Reset(c), some)
<1> DEFINE v == Chrome!Reset(c)
<1>1. <<>> \in Seq(Event) /\ 0 \in Nat
  OBVIOUS
<1>2. /\ v \in Corners /\ v.barriers = c.barriers /\ v.hit = c.hit /\ v.entered = c.entered
      /\ v.pointer = c.pointer /\ v.events = <<>> /\ v.pressure = 0
  BY <1>1 DEF Chrome!Reset, Corners
<1> HIDE DEF v
<1>3. Counted(v)
  BY <1>2, PressureEmpty, ThresholdIsPositive DEF Counted
<1>4. Placed(v, some) /\ Watched(v)
  BY <1>2 DEF Placed, Watched
<1> QED BY <1>2, <1>3, <1>4 DEF CornerOK, v

LEMMA TrimmedCorner ==
  ASSUME NEW c, c \in Corners, c.pressure = Chrome!Pressure(c.events), NEW time
  PROVE  LET v == Chrome!_trimBarrierEvents(c, time)
         IN  /\ v \in Corners /\ v.pressure = Chrome!Pressure(v.events)
             /\ v.barriers = c.barriers /\ v.hit = c.hit /\ v.entered = c.entered
             /\ v.pointer = c.pointer /\ v.triggered = c.triggered
<1> DEFINE old == {n \in 0..Len(c.events) :
                     \A i \in 1..n : c.events[i].time < time - PressureTimeout}
           n == Chrome!Max(old)
           kept == SubSeq(c.events, n + 1, Len(c.events))
           rest == c.pressure - Chrome!Pressure(SubSeq(c.events, 1, n))
           v == [c EXCEPT !.events = kept, !.pressure = rest]
<1>1. Chrome!_trimBarrierEvents(c, time) = v
  BY DEF Chrome!_trimBarrierEvents
<1>2. c.events \in Seq(Event) /\ Len(c.events) \in Nat
  BY DEF Corners
<1>3. old \in SUBSET (0..Len(c.events)) /\ old # {}
  <2>1. 0 \in old
    BY <1>2
  <2> QED BY <2>1
<1> HIDE DEF old
<1>4. n \in 0..Len(c.events)
  BY <1>2, <1>3, MaxExists
<1> HIDE DEF n
<1>5. kept \in Seq(Event) /\ rest = Chrome!Pressure(kept) /\ rest \in Nat
  <2>1. /\ kept \in Seq(Event)
        /\ Chrome!Pressure(SubSeq(c.events, 1, n)) \in Nat
        /\ Chrome!Pressure(kept) \in Nat
        /\ Chrome!Pressure(c.events)
             = Chrome!Pressure(SubSeq(c.events, 1, n)) + Chrome!Pressure(kept)
    BY <1>2, <1>4, PressureParts
  <2> HIDE DEF kept
  <2> QED BY <2>1
<1> HIDE DEF kept, rest
<1>6. /\ v \in Corners /\ v.events = kept /\ v.pressure = rest
      /\ v.barriers = c.barriers /\ v.hit = c.hit /\ v.entered = c.entered
      /\ v.pointer = c.pointer /\ v.triggered = c.triggered
  BY <1>5 DEF Corners
<1> HIDE DEF v
<1> QED BY <1>1, <1>5, <1>6

LEMMA PushedCorner ==
  ASSUME NEW c, c \in Corners, c.pressure = Chrome!Pressure(c.events), NEW time \in Nat,
         NEW distance \in Nat
  PROVE  LET v == Chrome!Pushed(c, time, distance)
         IN  /\ v \in Corners /\ v.pressure = Chrome!Pressure(v.events)
             /\ v.barriers = c.barriers /\ v.hit = c.hit /\ v.entered = c.entered
             /\ v.pointer = c.pointer /\ v.triggered = c.triggered
<1> DEFINE e == [time |-> time, distance |-> distance]
           more == Append(c.events, e)
           sum == c.pressure + distance
           v == [c EXCEPT !.events = more, !.pressure = sum]
<1>1. Chrome!Pushed(c, time, distance) = v
  BY DEF Chrome!Pushed
<1>2. e \in Event /\ e.distance = distance /\ c.events \in Seq(Event) /\ c.pressure \in Nat
  BY DEF Corners, Event
<1> HIDE DEF e
<1>3. more \in Seq(Event) /\ sum = Chrome!Pressure(more) /\ sum \in Nat
  BY <1>2, PressureAppend
<1> HIDE DEF more, sum
<1>4. /\ v \in Corners /\ v.events = more /\ v.pressure = sum
      /\ v.barriers = c.barriers /\ v.hit = c.hit /\ v.entered = c.entered
      /\ v.pointer = c.pointer /\ v.triggered = c.triggered
  BY <1>3 DEF Corners
<1> HIDE DEF v
<1> QED BY <1>1, <1>3, <1>4

LEMMA BarrierHitOK ==
  ASSUME CornerOK(corner, monitors), NEW b \in corner.barriers, NEW time \in Time,
         NEW distance \in Distance, NEW slides \in BOOLEAN,
         Chrome!_onBarrierHit(b, time, distance, slides)
  PROVE  CornerOK(corner', monitors)
<1> DEFINE hit == [corner EXCEPT !.hit = corner.hit \cup {b}]
           trimmed == Chrome!_trimBarrierEvents(hit, time)
           least == IF distance < MaxDistance THEN distance ELSE MaxDistance
           pushed == Chrome!Pushed(trimmed, time, least)
           told == [hit EXCEPT !.triggered = TRUE]
<1>1. /\ corner \in Corners /\ Placed(corner, monitors) /\ Counted(corner) /\ Watched(corner)
      /\ time \in Nat /\ distance \in Nat /\ least \in Nat /\ MaxDistance \in Nat
  BY ThresholdIsPositive DEF CornerOK
<1>2. \/ corner' = hit
      \/ corner' = Chrome!Reset(told)
      \/ /\ ~corner.triggered /\ ~(pushed.pressure >= PressureThreshold)
         /\ corner' = pushed
  BY DEF Chrome!_onBarrierHit
<1>3. /\ hit \in Corners /\ hit.hit = corner.hit \cup {b} /\ hit.barriers = corner.barriers
      /\ hit.events = corner.events /\ hit.pressure = corner.pressure
      /\ hit.triggered = corner.triggered /\ hit.entered = corner.entered
      /\ hit.pointer = corner.pointer
  BY <1>1 DEF Corners
<1> HIDE DEF hit
<1>4. CornerOK(hit, monitors)
  <2>1. Placed(hit, monitors)
    BY <1>1, <1>3 DEF Placed
  <2>2. Counted(hit) /\ Watched(hit)
    BY <1>1, <1>3 DEF Counted, Watched
  <2> QED BY <1>3, <2>1, <2>2 DEF CornerOK
<1>5. CornerOK(Chrome!Reset(told), monitors)
  <2>1. /\ told \in Corners /\ told.hit = hit.hit /\ told.barriers = hit.barriers
        /\ told.entered = hit.entered /\ told.pointer = hit.pointer
    BY <1>3 DEF Corners
  <2> HIDE DEF told
  <2>2. Placed(told, monitors) /\ Watched(told)
    BY <1>4, <2>1 DEF CornerOK, Placed, Watched
  <2> QED BY <2>1, <2>2, ResetOK
<1>6. ASSUME ~corner.triggered, ~(pushed.pressure >= PressureThreshold)
      PROVE  CornerOK(pushed, monitors)
  <2>1. /\ trimmed \in Corners /\ trimmed.pressure = Chrome!Pressure(trimmed.events)
        /\ trimmed.barriers = hit.barriers /\ trimmed.hit = hit.hit
        /\ trimmed.entered = hit.entered /\ trimmed.pointer = hit.pointer
        /\ trimmed.triggered = hit.triggered
    BY <1>4, TrimmedCorner DEF CornerOK, Counted
  <2> HIDE DEF trimmed, least
  <2>2. /\ pushed \in Corners /\ pushed.pressure = Chrome!Pressure(pushed.events)
        /\ pushed.barriers = trimmed.barriers /\ pushed.hit = trimmed.hit
        /\ pushed.entered = trimmed.entered /\ pushed.pointer = trimmed.pointer
        /\ pushed.triggered = trimmed.triggered
    BY <1>1, <2>1, PushedCorner
  <2> HIDE DEF pushed
  <2>3. pushed.pressure \in Nat
    BY <2>2 DEF Corners
  <2>4. Counted(pushed)
    BY <1>3, <1>6, <2>1, <2>2, <2>3, ThresholdIsPositive DEF Counted
  <2>5. Placed(pushed, monitors) /\ Watched(pushed)
    BY <1>4, <2>1, <2>2 DEF CornerOK, Placed, Watched
  <2> QED BY <2>2, <2>4, <2>5 DEF CornerOK
<1> QED BY <1>2, <1>4, <1>5, <1>6

LEMMA BarrierLeftOK ==
  ASSUME CornerOK(corner, monitors), NEW b, Chrome!_onBarrierLeft(b)
  PROVE  CornerOK(corner', monitors)
<1> DEFINE left == [corner EXCEPT !.hit = corner.hit \ {b}]
           quiet == [left EXCEPT !.triggered = FALSE]
<1>1. corner' = left \/ corner' = Chrome!Reset(quiet)
  BY DEF Chrome!_onBarrierLeft
<1>2. /\ left \in Corners /\ left.hit = corner.hit \ {b} /\ left.barriers = corner.barriers
      /\ left.events = corner.events /\ left.pressure = corner.pressure
      /\ left.triggered = corner.triggered /\ left.entered = corner.entered
      /\ left.pointer = corner.pointer
  BY DEF Corners, CornerOK
<1> HIDE DEF left
<1>3. CornerOK(left, monitors)
  <2>1. Placed(left, monitors)
    BY <1>2 DEF CornerOK, Placed
  <2>2. Counted(left) /\ Watched(left)
    BY <1>2 DEF CornerOK, Counted, Watched
  <2> QED BY <1>2, <2>1, <2>2 DEF CornerOK
<1>4. CornerOK(Chrome!Reset(quiet), monitors)
  <2>1. /\ quiet \in Corners /\ quiet.hit = left.hit /\ quiet.barriers = left.barriers
        /\ quiet.entered = left.entered /\ quiet.pointer = left.pointer
    BY <1>2 DEF Corners
  <2> HIDE DEF quiet
  <2>2. Placed(quiet, monitors) /\ Watched(quiet)
    BY <1>3, <2>1 DEF CornerOK, Placed, Watched
  <2> QED BY <2>1, <2>2, ResetOK
<1> QED BY <1>1, <1>3, <1>4

LEMMA PanelBoxOK ==
  ASSUME CornerOK(corner, monitors), monitors \in BOOLEAN, NEW high \in BOOLEAN,
         Chrome!_panelBoxChanged(high)
  PROVE  CornerOK(corner', monitors)
<1> DEFINE v == [corner EXCEPT !.high = high, !.barriers = Chrome!Barriers(monitors, high),
                               !.hit = {}]
<1>1. corner' = v
  BY DEF Chrome!_panelBoxChanged
<1>2. Chrome!Barriers(monitors, high) \in SUBSET BarrierNames
  BY DEF Chrome!Barriers, BarrierNames
<1>3. /\ v \in Corners /\ v.hit = {} /\ v.barriers = Chrome!Barriers(monitors, high)
      /\ v.events = corner.events /\ v.pressure = corner.pressure
      /\ v.triggered = corner.triggered /\ v.entered = corner.entered
      /\ v.pointer = corner.pointer
  BY <1>2 DEF Corners, CornerOK
<1> HIDE DEF v
<1>4. Placed(v, monitors)
  BY <1>3 DEF Placed, Chrome!Barriers
<1>5. Counted(v) /\ Watched(v)
  BY <1>3 DEF CornerOK, Counted, Watched
<1> QED BY <1>1, <1>3, <1>4, <1>5 DEF CornerOK

(* The pointer enters the corner and leaves it.                            *)
LEMMA PointerOK ==
  ASSUME CornerOK(corner, monitors), NEW to \in {"away", "corner", "environs"}, NEW inside,
         inside \in BOOLEAN, inside => to # "away",
         corner' = [corner EXCEPT !.pointer = to, !.entered = inside]
  PROVE  CornerOK(corner', monitors)
<1> DEFINE v == [corner EXCEPT !.pointer = to, !.entered = inside]
<1>1. /\ v \in Corners /\ v.hit = corner.hit /\ v.barriers = corner.barriers
      /\ v.events = corner.events /\ v.pressure = corner.pressure
      /\ v.triggered = corner.triggered /\ v.entered = inside /\ v.pointer = to
  BY DEF Corners, CornerOK
<1>2. corner' = v
  OBVIOUS
<1> HIDE DEF v
<1>3. Placed(v, monitors) /\ Watched(v)
  BY <1>1 DEF CornerOK, Placed, Watched
<1>4. Counted(v)
  BY <1>1 DEF CornerOK, Counted
<1> QED BY <1>1, <1>2, <1>3, <1>4 DEF CornerOK

-----------------------------------------------------------------------------
(* The chrome.  Regions that are up to date know of the popup that is      *)
(* there: without this a popup that goes would not be noticed.             *)
PopupIsKnown == ~Chrome!StartingUp /\ ~modal /\ ~_updateRegionIdle => _isPopupWindowVisible = popup

ChromeTypes ==
  /\ phase \in {"unloaded", "loading", "prepared", "animating", "over", "failed"}
  /\ monitors \in BOOLEAN /\ _pendingLoadBackground \in BOOLEAN /\ inFullscreen \in BOOLEAN
  /\ hasWindows \in BOOLEAN /\ _inOverview \in BOOLEAN /\ windowsVisible \in BOOLEAN
  /\ popup \in BOOLEAN /\ _isPopupWindowVisible \in BOOLEAN /\ modal \in BOOLEAN
  /\ _updateRegionIdle \in BOOLEAN
  /\ _trackedActors \subseteq Actor /\ visible \subseteq Actor
  /\ inputRegion \subseteq Actor /\ builtinStruts \subseteq Actor

RegionsInv == ChromeTypes /\ PopupIsKnown /\ Chrome!RegionsFollow /\ Chrome!FullscreenHides

ChromeInv == RegionsInv /\ CornerOK(corner, monitors)

(* What the overview, the session, the windows and the monitors do.        *)
LEMMA VisibilityKeeps ==
  ASSUME RegionsInv, Chrome!_updateVisibility(visible), Chrome!_queueUpdateRegions,
         monitors' \in BOOLEAN, inFullscreen' \in BOOLEAN, hasWindows' \in BOOLEAN,
         _inOverview' \in BOOLEAN, popup' \in BOOLEAN, _pendingLoadBackground' \in BOOLEAN,
         phase' = phase \/ phase' = "loading",
         UNCHANGED <<_trackedActors, _isPopupWindowVisible, modal, inputRegion, builtinStruts>>
  PROVE  RegionsInv'
<1>1. TrackFullscreen \subseteq Actor
  BY ConstantsAssumptions DEF Chrome!ActorsAssumption
<1>2. /\ windowsVisible' = (hasWindows' /\ ~_inOverview')
      /\ visible' = IF hasWindows' /\ ~_inOverview' /\ monitors' /\ inFullscreen'
                    THEN visible \ (TrackFullscreen \cap _trackedActors)
                    ELSE visible \cup (TrackFullscreen \cap _trackedActors)
      /\ _updateRegionIdle' = (_updateRegionIdle \/ phase = "over")
  BY DEF Chrome!_updateVisibility, Chrome!_queueUpdateRegions, Chrome!StartingUp
<1>3. ChromeTypes'
  <2>1. windowsVisible' \in BOOLEAN /\ _updateRegionIdle' \in BOOLEAN
    BY <1>2
  <2>2. visible' \subseteq Actor
    BY <1>1, <1>2 DEF RegionsInv, ChromeTypes
  <2> QED BY <2>1, <2>2 DEF RegionsInv, ChromeTypes
<1>4. phase' = "over" => phase = "over" /\ _updateRegionIdle'
  BY <1>2
<1>5. PopupIsKnown' /\ Chrome!RegionsFollow'
  BY <1>4 DEF PopupIsKnown, Chrome!RegionsFollow, Chrome!StartingUp
<1>6. Chrome!FullscreenHides'
  BY <1>2 DEF Chrome!FullscreenHides
<1> QED BY <1>3, <1>5, <1>6 DEF RegionsInv

LEMMA ToggleKeeps ==
  ASSUME RegionsInv, Chrome!_toggleOverview,
         UNCHANGED <<phase, _pendingLoadBackground, _trackedActors, popup, _isPopupWindowVisible,
                     modal, inputRegion, builtinStruts>>
  PROVE  RegionsInv' /\ monitors' = monitors
<1>1. CASE UNCHANGED <<monitors, inFullscreen, hasWindows, _inOverview, windowsVisible, visible,
                       _updateRegionIdle>>
  BY <1>1 DEF RegionsInv, ChromeTypes, PopupIsKnown, Chrome!RegionsFollow, Chrome!FullscreenHides,
              Chrome!StartingUp, Chrome!WantedRegion, Chrome!WantedStruts
<1>2. CASE /\ _inOverview' = TRUE /\ UNCHANGED <<monitors, inFullscreen, hasWindows>>
           /\ Chrome!_updateVisibility(visible) /\ Chrome!_queueUpdateRegions
  <2>1. /\ monitors' \in BOOLEAN /\ inFullscreen' \in BOOLEAN /\ hasWindows' \in BOOLEAN
        /\ _inOverview' \in BOOLEAN /\ popup' \in BOOLEAN /\ _pendingLoadBackground' \in BOOLEAN
    BY <1>2 DEF RegionsInv, ChromeTypes
  <2> QED BY <1>2, <2>1, VisibilityKeeps
<1> QED BY <1>1, <1>2 DEF Chrome!_toggleOverview, Chrome!screen, Chrome!shown

LEMMA CornerKeeps ==
  ASSUME ChromeInv, Chrome!CornerNext
  PROVE  ChromeInv'
<1> USE DEF Chrome!startup, Chrome!screen, Chrome!shown, Chrome!popups, Chrome!regions
<1>1. RegionsInv /\ CornerOK(corner, monitors) /\ monitors \in BOOLEAN
  BY DEF ChromeInv, RegionsInv, ChromeTypes
<1>2. /\ UNCHANGED <<phase, _pendingLoadBackground, _trackedActors, popup, _isPopupWindowVisible,
                      modal, inputRegion, builtinStruts>>
      /\ Chrome!_toggleOverview
  <2> DEFINE rests == UNCHANGED <<monitors, inFullscreen, hasWindows, _inOverview, windowsVisible,
                                  visible, _updateRegionIdle>>
             others == UNCHANGED <<phase, _pendingLoadBackground, _trackedActors, popup,
                                   _isPopupWindowVisible, modal, inputRegion, builtinStruts>>
  <2>1. ASSUME NEW b, NEW time, NEW distance, NEW slides,
               Chrome!_onBarrierHit(b, time, distance, slides)
        PROVE  others /\ (rests \/ Chrome!_toggleOverview)
    BY <2>1 DEF Chrome!_onBarrierHit
  <2>2. ASSUME NEW b, Chrome!_onBarrierLeft(b) PROVE others /\ rests
    BY <2>2 DEF Chrome!_onBarrierLeft
  <2>3. ASSUME NEW high, Chrome!_panelBoxChanged(high) PROVE others /\ rests
    BY <2>3 DEF Chrome!_panelBoxChanged
  <2>4. ASSUME NEW to, Chrome!_onLeft(to) PROVE others /\ rests
    BY <2>4 DEF Chrome!_onLeft
  <2>5. CASE Chrome!_onCornerEntered \/ Chrome!handleDragOver
    BY <2>5 DEF Chrome!_onCornerEntered, Chrome!handleDragOver, Chrome!_toggleOverview
  <2>6. rests => Chrome!_toggleOverview
    BY DEF Chrome!_toggleOverview
  <2> HIDE DEF rests, others
  <2>7. others /\ (rests \/ Chrome!_toggleOverview)
    <3>1. CASE Chrome!_onCornerEntered \/ Chrome!handleDragOver
      BY <2>5, <3>1 DEF others
    <3> QED BY <2>1, <2>2, <2>3, <2>4, <3>1 DEF Chrome!CornerNext
  <2> QED BY <2>6, <2>7 DEF others
<1>3. RegionsInv' /\ monitors' = monitors
  BY <1>1, <1>2, ToggleKeeps
<1>4. CornerOK(corner', monitors)
  <2>1. ASSUME NEW b \in corner.barriers, NEW time \in Time, NEW distance \in Distance,
               NEW slides \in BOOLEAN, Chrome!_onBarrierHit(b, time, distance, slides)
        PROVE  CornerOK(corner', monitors)
    BY <1>1, <2>1, BarrierHitOK
  <2>2. ASSUME NEW b \in corner.hit, Chrome!_onBarrierLeft(b)
        PROVE  CornerOK(corner', monitors)
    BY <1>1, <2>2, BarrierLeftOK
  <2>3. ASSUME NEW high \in BOOLEAN, Chrome!_panelBoxChanged(high)
        PROVE  CornerOK(corner', monitors)
    BY <1>1, <2>3, PanelBoxOK
  <2>4. CASE Chrome!_onCornerEntered
    <3>1. corner' = [corner EXCEPT !.pointer = "corner", !.entered = TRUE]
      BY <2>4 DEF Chrome!_onCornerEntered
    <3> QED BY <1>1, <3>1, PointerOK
  <2>5. CASE Chrome!handleDragOver
    BY <1>1, <2>5 DEF Chrome!handleDragOver
  <2>6. ASSUME NEW to \in {"environs", "away"}, Chrome!_onLeft(to)
        PROVE  CornerOK(corner', monitors)
    <3>1. corner' = [corner EXCEPT !.pointer = to,
                                   !.entered = corner.entered /\ to = "environs"]
      BY <2>6 DEF Chrome!_onLeft
    <3>2. CASE corner.entered /\ to = "environs"
      <4>1. corner' = [corner EXCEPT !.pointer = to, !.entered = TRUE]
        BY <3>1, <3>2
      <4> QED BY <1>1, <3>2, <4>1, PointerOK
    <3>3. CASE ~(corner.entered /\ to = "environs")
      <4>1. corner' = [corner EXCEPT !.pointer = to, !.entered = FALSE]
        BY <3>1, <3>3
      <4> QED BY <1>1, <4>1, PointerOK
    <3> QED BY <3>2, <3>3
  <2> QED BY <2>1, <2>2, <2>3, <2>4, <2>5, <2>6 DEF Chrome!CornerNext
<1> QED BY <1>3, <1>4 DEF ChromeInv

LEMMA ChromeStarts ==
  ASSUME Chrome!Init
  PROVE  ChromeInv
<1>1. RegionsInv
  BY DEF Chrome!Init, RegionsInv, ChromeTypes, PopupIsKnown, Chrome!RegionsFollow,
         Chrome!FullscreenHides, Chrome!StartingUp
<1>2. CornerOK(corner, monitors)
  <2>1. PICK extended \in BOOLEAN : corner = Chrome!NewCorner(monitors, TRUE, extended)
    BY DEF Chrome!Init
  <2>2. monitors \in BOOLEAN
    BY DEF Chrome!Init
  <2> QED BY <2>1, <2>2, NewCornerOK
<1> QED BY <1>1, <1>2 DEF ChromeInv

(* The steps that leave the corner and what the monitors are alone.        *)
LEMMA RegionsKeep ==
  ASSUME ChromeInv, RegionsInv', UNCHANGED <<corner, monitors>>
  PROVE  ChromeInv'
BY DEF ChromeInv

LEMMA ActorsKeep ==
  ASSUME ChromeInv, NEW a \in Actor,
         Chrome!_trackActor(a) \/ Chrome!_untrackActor(a) \/ Chrome!NotifyVisible(a)
  PROVE  ChromeInv'
<1> USE DEF Chrome!startup, Chrome!screen, Chrome!shown, Chrome!popups, Chrome!regions,
            Chrome!StartingUp, Chrome!_queueUpdateRegions
<1>1. /\ UNCHANGED <<corner, monitors, phase, _pendingLoadBackground, inFullscreen, hasWindows,
                      _inOverview, windowsVisible, popup, _isPopupWindowVisible, modal,
                      inputRegion, builtinStruts>>
      /\ _updateRegionIdle' = (_updateRegionIdle \/ phase = "over")
  BY DEF Chrome!_trackActor, Chrome!_untrackActor, Chrome!NotifyVisible
<1>2. _trackedActors' \subseteq Actor /\ visible' \subseteq Actor
  BY DEF Chrome!_trackActor, Chrome!_untrackActor, Chrome!NotifyVisible, ChromeInv, RegionsInv,
         ChromeTypes
<1>3. ChromeTypes'
  <2>1. _updateRegionIdle' \in BOOLEAN
    BY <1>1
  <2> QED BY <1>1, <1>2, <2>1 DEF ChromeInv, RegionsInv, ChromeTypes
<1>4. PopupIsKnown' /\ Chrome!RegionsFollow'
  BY <1>1 DEF PopupIsKnown, Chrome!RegionsFollow
<1>5. Chrome!FullscreenHides'
  BY <1>1 DEF Chrome!_trackActor, Chrome!_untrackActor, Chrome!NotifyVisible, ChromeInv, RegionsInv,
              Chrome!FullscreenHides
<1>6. RegionsInv'
  BY <1>3, <1>4, <1>5 DEF RegionsInv
<1> QED BY <1>1, <1>6, RegionsKeep

(* The startup, which covers the stage while it lasts.                     *)
LEMMA StartupKeeps ==
  ASSUME ChromeInv,
         \/ Chrome!init \/ Chrome!_prepareStartupAnimation \/ Chrome!_startupAnimation
         \/ Chrome!_startupAnimationComplete
  PROVE  ChromeInv'
<1> USE DEF Chrome!startup, Chrome!screen, Chrome!shown, Chrome!popups, Chrome!regions,
            Chrome!StartingUp
<1>1. CoverPane \in Actor /\ CoverPane \notin TrackFullscreen
  BY ConstantsAssumptions DEF Chrome!ActorsAssumption
<1>2. /\ UNCHANGED <<corner, monitors, inFullscreen, hasWindows, _inOverview, windowsVisible,
                      popup, modal>>
      /\ phase' = "over" => _updateRegionIdle'
      /\ phase' \in {"unloaded", "loading", "prepared", "animating", "over", "failed"}
      /\ _trackedActors' \ {CoverPane} = _trackedActors \ {CoverPane}
      /\ visible' \ {CoverPane} = visible \ {CoverPane}
  BY DEF Chrome!init, Chrome!_prepareStartupAnimation, Chrome!_startupAnimation,
         Chrome!_startupAnimationComplete
<1>3. ChromeTypes'
  <2>1. _trackedActors' \subseteq Actor /\ visible' \subseteq Actor
    BY <1>1, <1>2 DEF ChromeInv, RegionsInv, ChromeTypes
  <2>2. inputRegion' \subseteq Actor /\ builtinStruts' \subseteq Actor
    BY <1>1 DEF Chrome!init, Chrome!_prepareStartupAnimation, Chrome!_startupAnimation,
          Chrome!_startupAnimationComplete, ChromeInv, RegionsInv, ChromeTypes,
          Chrome!WantedRegion, Chrome!WantedStruts
  <2>3. /\ _pendingLoadBackground' \in BOOLEAN /\ _isPopupWindowVisible' \in BOOLEAN
        /\ _updateRegionIdle' \in BOOLEAN
    BY DEF Chrome!init, Chrome!_prepareStartupAnimation, Chrome!_startupAnimation,
          Chrome!_startupAnimationComplete, ChromeInv, RegionsInv, ChromeTypes
  <2> QED BY <1>2, <2>1, <2>2, <2>3 DEF ChromeInv, RegionsInv, ChromeTypes
<1>4. PopupIsKnown' /\ Chrome!RegionsFollow'
  BY <1>2 DEF PopupIsKnown, Chrome!RegionsFollow
<1>5. Chrome!FullscreenHides'
  BY <1>1, <1>2 DEF ChromeInv, RegionsInv, Chrome!FullscreenHides
<1>6. RegionsInv'
  BY <1>3, <1>4, <1>5 DEF RegionsInv
<1> QED BY <1>2, <1>6, RegionsKeep

(* What the overview, the session, the windows and the monitors do.        *)
LEMMA ScreenKeeps ==
  ASSUME ChromeInv,
         \/ \E inside \in BOOLEAN : Chrome!ShowOverview(inside)
         \/ Chrome!_sessionUpdated \/ Chrome!_updateFullscreen \/ Chrome!_monitorsChanged
  PROVE  ChromeInv'
<1> USE DEF Chrome!startup, Chrome!screen, Chrome!shown, Chrome!popups, Chrome!regions
<1>1. RegionsInv /\ CornerOK(corner, monitors) /\ ChromeTypes
  BY DEF ChromeInv, RegionsInv
<1>2. /\ Chrome!_updateVisibility(visible) /\ Chrome!_queueUpdateRegions
      /\ UNCHANGED <<_trackedActors, popup, _isPopupWindowVisible, modal, inputRegion,
                      builtinStruts>>
      /\ phase' = phase \/ phase' = "loading"
  BY DEF Chrome!ShowOverview, Chrome!_sessionUpdated, Chrome!_updateFullscreen,
         Chrome!_monitorsChanged, Chrome!_updateMonitors
<1>3. /\ monitors' \in BOOLEAN /\ inFullscreen' \in BOOLEAN /\ hasWindows' \in BOOLEAN
      /\ _inOverview' \in BOOLEAN /\ popup' \in BOOLEAN /\ _pendingLoadBackground' \in BOOLEAN
  BY <1>1 DEF Chrome!ShowOverview, Chrome!_sessionUpdated, Chrome!_updateFullscreen,
         Chrome!_monitorsChanged, Chrome!_updateMonitors,
         ChromeTypes
<1>4. RegionsInv'
  BY <1>1, <1>2, <1>3, VisibilityKeeps
<1>5. CornerOK(corner', monitors')
  <2>1. \/ UNCHANGED <<corner, monitors>>
        \/ corner' = Chrome!NewCorner(monitors', corner.high, corner.extended)
    BY DEF Chrome!ShowOverview, Chrome!_sessionUpdated, Chrome!_updateFullscreen,
         Chrome!_monitorsChanged
  <2>2. corner.high \in BOOLEAN /\ corner.extended \in BOOLEAN
    BY <1>1 DEF CornerOK, Corners
  <2> QED BY <1>1, <1>3, <2>1, <2>2, NewCornerOK
<1> QED BY <1>4, <1>5 DEF ChromeInv

(* A popup comes or goes, a modal begins or ends, the regions are set.     *)
LEMMA PopupKeeps ==
  ASSUME ChromeInv, Chrome!_windowsRestacked
  PROVE  ChromeInv'
<1> USE DEF Chrome!startup, Chrome!screen, Chrome!shown, Chrome!popups, Chrome!regions
<1>1. RegionsInv /\ ChromeTypes /\ PopupIsKnown /\ Chrome!RegionsFollow /\ Chrome!FullscreenHides
  BY DEF ChromeInv, RegionsInv
<1>2. /\ popup' = ~popup /\ popup' \in BOOLEAN
      /\ UNCHANGED <<monitors, inFullscreen, hasWindows, _inOverview, corner, phase,
                      _pendingLoadBackground, _trackedActors, _isPopupWindowVisible, modal,
                      inputRegion, builtinStruts>>
  BY <1>1 DEF Chrome!_windowsRestacked, ChromeTypes
<1>3. CASE _isPopupWindowVisible # popup'
  <2>1. Chrome!_updateVisibility(visible) /\ Chrome!_queueUpdateRegions
    BY <1>3 DEF Chrome!_windowsRestacked
  <2>2. RegionsInv'
    BY <1>1, <1>2, <2>1, VisibilityKeeps DEF ChromeTypes
  <2> QED BY <1>2, <2>2, RegionsKeep
<1>4. CASE _isPopupWindowVisible = popup'
  <2>1. UNCHANGED <<windowsVisible, visible, _updateRegionIdle>>
    BY <1>4 DEF Chrome!_windowsRestacked
  <2>2. phase = "over" /\ ~modal => _updateRegionIdle
    BY <1>1, <1>2, <1>4 DEF PopupIsKnown, Chrome!StartingUp, ChromeTypes
  <2>3. PopupIsKnown' /\ Chrome!RegionsFollow'
    BY <1>2, <2>1, <2>2 DEF PopupIsKnown, Chrome!RegionsFollow, Chrome!StartingUp
  <2>4. ChromeTypes' /\ Chrome!FullscreenHides'
    BY <1>1, <1>2, <2>1 DEF ChromeTypes, Chrome!FullscreenHides
  <2>5. RegionsInv'
    BY <2>3, <2>4 DEF RegionsInv
  <2> QED BY <1>2, <2>5, RegionsKeep
<1> QED BY <1>3, <1>4

LEMMA ModalKeeps ==
  ASSUME ChromeInv, Chrome!PushModal \/ Chrome!modalEnded \/ Chrome!_updateRegions
  PROVE  ChromeInv'
<1> USE DEF Chrome!startup, Chrome!screen, Chrome!shown, Chrome!popups, Chrome!regions,
            Chrome!StartingUp
<1>1. RegionsInv /\ ChromeTypes /\ PopupIsKnown /\ Chrome!RegionsFollow /\ Chrome!FullscreenHides
  BY DEF ChromeInv, RegionsInv
<1>2. UNCHANGED <<phase, _pendingLoadBackground, monitors, inFullscreen, hasWindows, _inOverview,
                  windowsVisible, visible, _trackedActors, popup, corner>>
  BY DEF Chrome!PushModal, Chrome!modalEnded, Chrome!_updateRegions, Chrome!SetRegions
<1>3. Struts \subseteq Actor
  BY ConstantsAssumptions DEF Chrome!ActorsAssumption
<1>4. Chrome!WantedRegion \subseteq Actor /\ Chrome!WantedStruts \subseteq Actor
  BY <1>1, <1>3 DEF ChromeTypes, Chrome!WantedRegion, Chrome!WantedStruts
<1>5. ChromeTypes'
  <2>1. /\ modal' \in BOOLEAN /\ _updateRegionIdle' \in BOOLEAN
        /\ _isPopupWindowVisible' \in BOOLEAN
    BY <1>1 DEF ChromeTypes, Chrome!PushModal, Chrome!modalEnded, Chrome!_updateRegions,
               Chrome!SetRegions, Chrome!_queueUpdateRegions
  <2>2. inputRegion' \subseteq Actor /\ builtinStruts' \subseteq Actor
    BY <1>1, <1>4 DEF ChromeTypes, Chrome!PushModal, Chrome!modalEnded, Chrome!_updateRegions,
               Chrome!SetRegions
  <2> QED BY <1>1, <1>2, <2>1, <2>2 DEF ChromeTypes
<1>6. (Chrome!WantedRegion)' = Chrome!WantedRegion /\ (Chrome!WantedStruts)' = Chrome!WantedStruts
  BY <1>2 DEF Chrome!WantedRegion, Chrome!WantedStruts
<1>7. PopupIsKnown' /\ Chrome!RegionsFollow'
  <2>1. \/ modal'
        \/ phase = "over" => _updateRegionIdle'
        \/ /\ inputRegion' = Chrome!WantedRegion /\ builtinStruts' = Chrome!WantedStruts
           /\ _isPopupWindowVisible' = popup
    <3>1. CASE Chrome!PushModal
      BY <3>1 DEF Chrome!PushModal
    <3>2. CASE Chrome!modalEnded
      BY <3>2 DEF Chrome!modalEnded, Chrome!_queueUpdateRegions
    <3>3. CASE Chrome!_updateRegions /\ modal
      BY <3>3, Zenon DEF Chrome!_updateRegions
    <3>4. CASE Chrome!_updateRegions /\ ~modal
      BY <3>4 DEF Chrome!_updateRegions, Chrome!SetRegions
    <3> QED BY <3>1, <3>2, <3>3, <3>4
  <2> QED BY <1>2, <1>6, <2>1 DEF PopupIsKnown, Chrome!RegionsFollow
<1>8. Chrome!FullscreenHides'
  BY <1>1, <1>2 DEF Chrome!FullscreenHides
<1>9. RegionsInv'
  BY <1>5, <1>7, <1>8 DEF RegionsInv
<1> QED BY <1>2, <1>9, RegionsKeep

LEMMA ChromeKeeps ==
  ASSUME ChromeInv, [Chrome!Next]_chromeVars
  PROVE  ChromeInv'
<1>1. CASE UNCHANGED chromeVars
  BY <1>1 DEF chromeVars, ChromeInv, RegionsInv, ChromeTypes, PopupIsKnown, Chrome!RegionsFollow,
     Chrome!FullscreenHides, Chrome!StartingUp, Chrome!WantedRegion, Chrome!WantedStruts
<1>2. CASE Chrome!Next
  BY <1>2, CornerKeeps, ActorsKeep, StartupKeeps, ScreenKeeps, PopupKeeps, ModalKeeps
     DEF Chrome!Next
<1> QED BY <1>1, <1>2

LEMMA ChromeInvSound == ChromeInv => Chrome!ChromeSound
<1> SUFFICES ASSUME ChromeInv PROVE Chrome!ChromeSound
  OBVIOUS
<1>1. ChromeTypes /\ CornerOK(corner, monitors) /\ Chrome!RegionsFollow /\ Chrome!FullscreenHides
  BY DEF ChromeInv, RegionsInv
<1>2. {monitors, _pendingLoadBackground, inFullscreen, hasWindows, _inOverview, windowsVisible,
       popup, _isPopupWindowVisible, modal, _updateRegionIdle} \subseteq BOOLEAN
  BY <1>1, Zenon DEF ChromeTypes
<1>3. \A s \in {_trackedActors, visible, inputRegion, builtinStruts} : s \subseteq Actor
  BY <1>1, Zenon DEF ChromeTypes
<1>4. corner.hit \subseteq corner.barriers /\ corner.barriers \subseteq Chrome!Barriers(monitors, TRUE)
  BY <1>1 DEF CornerOK, Placed
<1>5. Chrome!PressureIsKept
  BY <1>1 DEF CornerOK, Counted, Watched, Chrome!PressureIsKept
<1> QED BY <1>1, <1>2, <1>3, <1>4, <1>5 DEF Chrome!ChromeSound, Chrome!TypeOK, ChromeTypes

-----------------------------------------------------------------------------
(* The desktop of these components: the chrome, the keyboard and the drags *)
(* are sound in every behaviour, whichever of them it runs.                *)
DesktopInv == ChromeInv /\ KeyboardInv /\ DragInv

THEOREM ChromeStaysSound == MCSpec => []ChromeSound
<1>1. MCInit => DesktopInv
  <2>1. MaxHandlers \in Nat \ {0}
    BY ConstantsAssumptions DEF Keys!HandlersAssumption
  <2> QED BY <2>1, ChromeStarts, KeyboardStarts, DragStarts DEF MCInit, DesktopInv
<1>2. DesktopInv /\ [MCNext]_mcVars => DesktopInv'
  <2> SUFFICES ASSUME DesktopInv, [MCNext]_mcVars PROVE DesktopInv'
    OBVIOUS
  <2>1. MaxHandlers \in Nat \ {0}
    BY ConstantsAssumptions DEF Keys!HandlersAssumption
  <2>2. [Chrome!Next]_chromeVars /\ [Keys!Next]_keyboardVars /\ [Drag!Next]_dragVars
    BY DEF MCNext, mcVars
  <2> QED BY <2>1, <2>2, ChromeKeeps, KeyboardKeeps, DragKeeps DEF DesktopInv
<1>3. DesktopInv => ChromeSound
  BY ChromeInvSound, KeyboardInvSound, DragInvSound DEF DesktopInv, ChromeSound
<1> QED BY <1>1, <1>2, <1>3, PTL DEF MCSpec

=============================================================================
