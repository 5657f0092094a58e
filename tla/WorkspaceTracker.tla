-------------------------- MODULE WorkspaceTracker --------------------------
(***************************************************************************)
(* The workspaces that come and go with the windows (WorkspaceTracker in   *)
(* js/ui/windowManager.js), with the operations of WindowManager that      *)
(* insert one and move through them.                                       *)
(*                                                                         *)
(* The compositor owns the workspaces and tells of a new number at once;   *)
(* the tracker keeps its own list of them.  An event that may empty or     *)
(* fill one queues a check, which runs before the next frame, unless the   *)
(* popup of the switcher holds it back.                                    *)
(***************************************************************************)
EXTENDS Naturals, Sequences, SequencesExt, FiniteSetsExt

CONSTANTS Window,          \* the windows
          Dialogs,         \* those that are dialogs or splash screens
          WorkspaceId,     \* names of workspaces, numbers; one is free again when none refers to it
          NoWindow,
          Places,          \* bound: positions of workspaces that applications start on
          MaxTimers        \* bound on the grace timers when another may start

ConstantsAssumption ==
  Dialogs \subseteq Window /\ NoWindow \notin Window /\ WorkspaceId \subseteq Nat

NoSequence == 0

VARIABLES
  screen,             \* the workspaces of the compositor, in order
  active,             \* the active one
  on,                 \* window -> its workspace, 0 when it is not open
  _workspaces,        \* the tracker's list
  _checkWorkspacesId, \* a check is queued
  _pauseWorkspaceCheck,
  _lastRemovedWindow, \* workspace -> the window that left it last, for a while
  _keepAliveId,       \* workspaces kept alive by a timer
  timers,             \* grace timers, <<workspace, window>>, oldest first
  sequence,           \* position of the workspace an application starts on
  dynamic_workspaces, \* the setting
  _isWorkspacePrepended

vars == <<screen, active, on, _workspaces, _checkWorkspacesId, _pauseWorkspaceCheck,
          _lastRemovedWindow, _keepAliveId, timers, sequence, dynamic_workspaces,
          _isWorkspacePrepended>>

-----------------------------------------------------------------------------
(* What the handlers change.                                               *)
World == [screen |-> screen, active |-> active, on |-> on, list |-> _workspaces,
          check |-> _checkWorkspacesId, last |-> _lastRemovedWindow, timers |-> timers]

Becomes(w) ==
  /\ screen' = w.screen /\ active' = w.active /\ on' = w.on /\ _workspaces' = w.list
  /\ _checkWorkspacesId' = w.check /\ _lastRemovedWindow' = w.last /\ timers' = w.timers

Referred(w) == ToSet(w.screen) \cup ToSet(w.list) \cup _keepAliveId
                 \cup {w.timers[i][1] : i \in DOMAIN w.timers}
HasFree(w) == WorkspaceId # Referred(w)

_queueCheckWorkspaces(w) == [w EXCEPT !.check = TRUE]

(* New ones are at the end; those that went were next to each other.       *)
_nWorkspacesChanged(w) ==
  LET old == Len(w.list)
      new == Len(w.screen)
      first == Min({i \in 1..old : i > new \/ w.list[i] # w.screen[i]})
      gone == old - new
  IN  IF old = new THEN w
      ELSE _queueCheckWorkspaces(
             IF new > old THEN [w EXCEPT !.list = @ \o SubSeq(w.screen, old + 1, new)]
             ELSE [w EXCEPT !.list = SubSeq(@, 1, first - 1) \o SubSeq(@, first + gone, old)])

(* The compositor: a new workspace is the last; the windows of one that    *)
(* goes, and the user with them, move to a neighbour.                      *)
append_new_workspace(w) ==
  LET id == Min(WorkspaceId \ Referred(w))
  IN  _nWorkspacesChanged([w EXCEPT !.screen = Append(@, id), !.last[id] = NoWindow])

remove_workspace(w, id) ==
  LET i == CHOOSE j \in DOMAIN w.screen : w.screen[j] = id
      neighbour == IF i > 1 THEN w.screen[i - 1] ELSE w.screen[2]
  IN  IF id \notin ToSet(w.screen) \/ Len(w.screen) = 1 THEN w
      ELSE _nWorkspacesChanged(
             [w EXCEPT !.screen = RemoveAt(@, i), !.last[id] = NoWindow,
                       !.active = IF @ = id THEN neighbour ELSE @,
                       !.on = [x \in Window |-> IF @[x] = id THEN neighbour ELSE @[x]]])

(* Mutant of _windowRemoved: no timer clears it.                           *)
RemovedForGood(w, id, x) == _queueCheckWorkspaces([w EXCEPT !.last[id] = x])

_windowRemoved(w, id, x) ==
  _queueCheckWorkspaces([w EXCEPT !.last[id] = x, !.timers = Append(@, <<id, x>>)])

(* A window leaves one workspace and enters another; 0 is none.            *)
change_workspace(w, x, to) ==
  LET from == w.on[x]
      moved == [w EXCEPT !.on[x] = to]
      left == IF from \in ToSet(w.list) THEN _windowRemoved(moved, from, x) ELSE moved
  IN  IF from = to THEN w
      ELSE IF to \in ToSet(w.list) THEN _queueCheckWorkspaces(left) ELSE left

(* 'switch-workspace'                                                      *)
activate(w, id) == IF w.active = id THEN w ELSE _queueCheckWorkspaces([w EXCEPT !.active = id])

-----------------------------------------------------------------------------
(* The positions that the tracker keeps for a while.                       *)
Kept(w) == {i \in DOMAIN w.list : w.last[w.list[i]] \in Dialogs \/ w.list[i] \in _keepAliveId}

Occupied(w) == {i \in DOMAIN w.screen : \E x \in Window : w.on[x] = w.screen[i]}

(* A starting application holds its position, also the one after the last. *)
Starting(w) == {sequence} \cap 1..(Len(w.screen) + 1)

InUse(w) == Kept(w) \cup Starting(w) \cup Occupied(w)

(* One more when the last is in use, then those that are empty go, from    *)
(* the end, but the last and the spared one.                               *)
Checked(w, spared) ==
  LET used == InUse(w)
      n == Max({Len(w.list)} \cup used)
      grown == IF n \in used THEN append_new_workspace(w) ELSE w
      length == IF n \in used THEN n + 1 ELSE n
      empty == {i \in 1..(length - 1) : i \notin used /\ grown.list[i] # spared}
      ids == SetToSortSeq(empty, LAMBDA i, j : i > j)
  IN  [FoldLeft(LAMBDA v, i : remove_workspace(v, grown.list[i]), grown, ids)
         EXCEPT !.check = FALSE]

(* Mutant of _checkWorkspaces: the active one may go.                      *)
ChecksActive(w) == Checked(w, 0)

_checkWorkspaces(w) == Checked(w, w.active)

(* WindowManager.insertWorkspace: one more at the end, every window from   *)
(* pos on moves one down, and the user with them.                          *)
insertWorkspace(w, pos) ==
  LET grown == append_new_workspace(w)
      At(id) == CHOOSE i \in DOMAIN w.screen : w.screen[i] = id
      moving == {x \in Window : w.on[x] # 0 /\ At(w.on[x]) >= pos}
      slid == FoldSet(LAMBDA x, v : change_workspace(v, x, grown.screen[At(w.on[x]) + 1]),
                      grown, moving)
  IN  IF At(w.active) >= pos THEN activate(slid, grown.screen[At(w.active) + 1]) ELSE slid

-----------------------------------------------------------------------------
Init ==
  LET id == Min(WorkspaceId)
  IN  /\ screen = <<id>> /\ _workspaces = <<id>> /\ active = id
      /\ on = [x \in Window |-> 0]
      /\ _checkWorkspacesId = TRUE /\ _pauseWorkspaceCheck = FALSE
      /\ _lastRemovedWindow = [i \in WorkspaceId |-> NoWindow]
      /\ _keepAliveId = {} /\ timers = <<>> /\ sequence = NoSequence
      /\ dynamic_workspaces \in BOOLEAN /\ _isWorkspacePrepended = FALSE

rest == <<_pauseWorkspaceCheck, _keepAliveId, sequence, dynamic_workspaces,
          _isWorkspacePrepended>>

(* The queued check: nothing when the setting is off; it waits while it is *)
(* held back.                                                              *)
CheckWorkspaces ==
  /\ _checkWorkspacesId
  /\ dynamic_workspaces => ~_pauseWorkspaceCheck
  /\ {Len(screen), Len(screen) + 1} \cap InUse(World) # {} => HasFree(World)
  /\ Becomes(IF dynamic_workspaces THEN _checkWorkspaces(World)
             ELSE [World EXCEPT !.check = FALSE])
  /\ UNCHANGED rest

Open(x) ==
  /\ on[x] = 0
  /\ Becomes(change_workspace(World, x, active))
  /\ UNCHANGED rest

Close(x) ==
  /\ on[x] # 0 /\ Len(timers) < MaxTimers
  /\ Becomes(change_workspace(World, x, 0))
  /\ UNCHANGED rest

Switch(id) ==
  /\ id \in ToSet(screen) \ {active}
  /\ Becomes(activate(World, id))
  /\ UNCHANGED rest

(* The oldest grace timer: it counts if its window is still the last.      *)
GraceEnds ==
  /\ timers # <<>>
  /\ LET t == Head(timers)
         w == [World EXCEPT !.timers = Tail(@)]
     IN  Becomes(IF _lastRemovedWindow[t[1]] = t[2]
                 THEN _queueCheckWorkspaces([w EXCEPT !.last[t[1]] = NoWindow]) ELSE w)
  /\ UNCHANGED rest

keepWorkspaceAlive(id) ==
  /\ id \in ToSet(screen) /\ _keepAliveId \subseteq {id}
  /\ _keepAliveId' = _keepAliveId \cup {id}
  /\ Becomes(World)
  /\ UNCHANGED <<_pauseWorkspaceCheck, sequence, dynamic_workspaces, _isWorkspacePrepended>>

KeepAliveEnds(id) ==
  /\ id \in _keepAliveId
  /\ _keepAliveId' = _keepAliveId \ {id}
  /\ Becomes(_queueCheckWorkspaces(World))
  /\ UNCHANGED <<_pauseWorkspaceCheck, sequence, dynamic_workspaces, _isWorkspacePrepended>>

(* 'startup-sequence-changed'                                              *)
StartupSequence(i) ==
  /\ IF sequence = NoSequence THEN i \in Places \cap DOMAIN screen ELSE i = NoSequence
  /\ sequence' = i
  /\ Becomes(_queueCheckWorkspaces(World))
  /\ UNCHANGED <<_pauseWorkspaceCheck, _keepAliveId, dynamic_workspaces, _isWorkspacePrepended>>

SetDynamic ==
  /\ dynamic_workspaces' = ~dynamic_workspaces
  /\ Becomes(_queueCheckWorkspaces(World))
  /\ UNCHANGED <<_pauseWorkspaceCheck, _keepAliveId, sequence, _isWorkspacePrepended>>

(* The number is set by the user: the compositor adds or removes at the    *)
(* end.                                                                    *)
SetNumber(n) ==
  /\ ~dynamic_workspaces
  /\ n \in 1..(Len(screen) + 1) /\ n # Len(screen) /\ (n > Len(screen) => HasFree(World))
  /\ Becomes(IF n > Len(screen) THEN append_new_workspace(World)
             ELSE FoldLeft(LAMBDA w, id : remove_workspace(w, id), World,
                           Reverse(SubSeq(screen, n + 1, Len(screen)))))
  /\ UNCHANGED rest

(* _showWorkspaceSwitcher: one up or down, alone or with a window; a       *)
(* window moved up from the first gets a new one there, once per popup.    *)
(* The popup is not shown in the overview.                                 *)
_showWorkspaceSwitcher(up, x, overview) ==
  LET At(w) == CHOOSE i \in DOMAIN w.screen : w.screen[i] = w.active
      prepends == At(World) = 1 /\ x # NoWindow /\ up /\ ~_isWorkspacePrepended
      w1 == IF prepends /\ dynamic_workspaces THEN insertWorkspace(World, 1) ELSE World
      to == IF up THEN Max({1, At(w1) - 1}) ELSE Min({Len(w1.screen), At(w1) + 1})
      w2 == IF x = NoWindow \/ w1.screen[to] = w1.active THEN w1
            ELSE change_workspace(w1, x, w1.screen[to])
  IN  /\ Len(screen) > 1
      /\ (x # NoWindow => on[x] = active)
      /\ (prepends => HasFree(World)) /\ Len(timers) < MaxTimers
      /\ Becomes(activate(w2, w1.screen[to]))
      /\ _isWorkspacePrepended' = (_isWorkspacePrepended \/ prepends)
      /\ _pauseWorkspaceCheck' = (_pauseWorkspaceCheck \/ ~overview)
      /\ UNCHANGED <<_keepAliveId, sequence, dynamic_workspaces>>

(* The popup is destroyed.                                                 *)
SwitcherEnds ==
  /\ _pauseWorkspaceCheck
  /\ _pauseWorkspaceCheck' = FALSE /\ _isWorkspacePrepended' = FALSE
  /\ Becomes(World)
  /\ UNCHANGED <<_keepAliveId, sequence, dynamic_workspaces>>

Next ==
  \/ CheckWorkspaces
  \/ \E x \in Window : Open(x) \/ Close(x)
  \/ \E id \in WorkspaceId : Switch(id) \/ keepWorkspaceAlive(id) \/ KeepAliveEnds(id)
  \/ GraceEnds
  \/ \E i \in 0..Cardinality(WorkspaceId) : StartupSequence(i) \/ SetNumber(i)
  \/ SetDynamic
  \/ \E up \in BOOLEAN : \E x \in Window \cup {NoWindow} : \E overview \in BOOLEAN :
       _showWorkspaceSwitcher(up, x, overview)
  \/ SwitcherEnds

Spec == Init /\ [][Next]_vars

-----------------------------------------------------------------------------
TypeOK ==
  /\ screen \in Seq(WorkspaceId) /\ _workspaces \in Seq(WorkspaceId)
  /\ active \in ToSet(screen)
  /\ on \in [Window -> ToSet(screen) \cup {0}]
  /\ _checkWorkspacesId \in BOOLEAN /\ _pauseWorkspaceCheck \in BOOLEAN
  /\ _lastRemovedWindow \in [WorkspaceId -> Window \cup {NoWindow}]
  /\ _keepAliveId \subseteq WorkspaceId /\ timers \in Seq(WorkspaceId \X Window)
  /\ sequence \in Nat /\ dynamic_workspaces \in BOOLEAN /\ _isWorkspacePrepended \in BOOLEAN

(* The list that the tracker keeps by counting is the compositor's, though *)
(* workspaces come and go in the middle of a check.                        *)
ListIsTheScreens == _workspaces = screen

(* When no check is queued and no application starts, the last workspace   *)
(* is empty and every other is used, active, or kept for a while: nothing  *)
(* that empties or fills one forgets to queue a check.  (The position that *)
(* a starting application holds is another workspace once one above goes.) *)
Tidy ==
  dynamic_workspaces /\ ~_checkWorkspacesId /\ sequence = NoSequence =>
    /\ \A x \in Window : on[x] # Last(screen)
    /\ \A i \in 1..(Len(screen) - 1) : screen[i] = active \/ i \in InUse(World)

(* What is kept for the window that left last is not kept for ever: a      *)
(* timer will end it.                                                      *)
GraceWillEnd ==
  \A i \in DOMAIN _workspaces :
    LET id == _workspaces[i] IN
    _lastRemovedWindow[id] # NoWindow => Contains(timers, <<id, _lastRemovedWindow[id]>>)

(* A check takes no window from its workspace, moves the user nowhere, and *)
(* ends nothing that is kept.                                              *)
ChecksTakeNothing ==
  [][_checkWorkspacesId /\ ~_checkWorkspacesId' =>
       /\ on' = on /\ active' = active
       /\ \A i \in DOMAIN screen :
            screen[i] \in _keepAliveId => screen[i] \in ToSet(screen')]_vars

(* Not a property of the code.  When the timer of a dialog ends, no later  *)
(* one of the same dialog is waiting: a dialog that closes, opens and      *)
(* closes again within a second loses the second period of grace.          *)
GraceIsWhole ==
  [][timers # <<>> /\ timers' = Tail(timers) /\ ~_checkWorkspacesId =>
       (Contains(Tail(timers), Head(timers)) =>
          _lastRemovedWindow'[Head(timers)[1]] = Head(timers)[2])]_vars

(* The list of the tracker is that of the screen, with one empty workspace *)
(* at the end and none that stays empty elsewhere.                         *)
TrackerSound == TypeOK /\ ListIsTheScreens /\ Tidy /\ GraceWillEnd

=============================================================================
