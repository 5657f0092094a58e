------------------------------- MODULE PageGrab -------------------------------
(***************************************************************************)
(* The windows of several workspaces and the grab of the pointer: page_t,  *)
(* client_managed_t, and the grab handlers of a dragged tab, of a dragged  *)
(* split bar and of the menu of a tab (src/src/page-*.cxx).                *)
(*                                                                         *)
(* A window has at most one view per workspace; one of its views owns it   *)
(* and places it on the screen.  A grab holds a view: the drag through a   *)
(* weak reference, the menu through a strong one, so that the view of a    *)
(* menu may outlive its place in the tree.  It is then called Held.        *)
(*                                                                         *)
(* Abstracted: the tree of each workspace (PageLayout has it), with it the *)
(* choice of a notebook, and the focus history: enable may focus any view. *)
(* An assertion that fails ends the program: fault says which, and nothing *)
(* happens after.  A null or dangling pointer used counts as one.          *)
(***************************************************************************)
EXTENDS Naturals, FiniteSets, FiniteSetsExt

CONSTANTS
  Client,         \* the windows
  Sticky,         \* those that are on all workspaces
  MaxWorkspaces,  \* bound on the number of workspaces
  Held,           \* the view that only the menu still refers to
  Null

ASSUME ConstantsAssumption ==
  /\ MaxWorkspaces \in Nat \ {0}
  /\ Sticky \subseteq Client
  /\ Held # Null
  /\ {Held, Null} \cap (Client \cup Nat) = {}
  /\ Client \cap Nat = {}

Workspace == 1..MaxWorkspaces
Kind      == {"none", "tab", "floating", "fullscreen"}

VARIABLES
  nworkspaces,  \* size of page_t::_workspace_list
  current,      \* page_t::_current_workspace
  managed,      \* page_t::_net_client_list
  view,         \* the view of each window in each workspace
  revert_type,  \* view_fullscreen_t::revert_type
  owner,        \* client_managed_t::_current_owner_view, by its workspace
  active,       \* workspace_t::_net_active_window
  grab,         \* page_t::_grab_handler
  modal,        \* who has the modal of the plugin
  fault         \* the assertion that failed

viewVars == <<managed, view, revert_type, owner, active>>
vars == <<nworkspaces, current, viewVars, grab, modal, fault>>

-----------------------------------------------------------------------------
(* A grab: what it is, the view it holds, whether that view (or split) is  *)
(* still in the tree, the notebook a drag is over, and whether the button  *)
(* that opened the menu has been released.                                 *)
Grabs ==
  [kind : {"none", "drag", "menu", "split"}, client : Client \cup {Null},
   ws : Workspace \cup {Null}, attached : BOOLEAN,
   target : {"none", "alive", "gone"}, released : BOOLEAN]

Grab(kind, c, w, attached) ==
  [kind |-> kind, client |-> c, ws |-> w, attached |-> attached,
   target |-> "none", released |-> FALSE]
NoGrab == Grab("none", Null, Null, FALSE)

Grabbed(w, c) ==
  grab.kind \in {"drag", "menu"} /\ grab.attached /\ grab.client = c /\ grab.ws = w

(* What the weak references to the view of c in w, and its window's owner, *)
(* become when it leaves the tree: the view dies unless the menu holds it. *)
Gone(w, c) == IF Grabbed(w, c) /\ grab.kind = "menu" THEN Held ELSE Null

(* The owner of c once its views in the workspaces W have left the tree.   *)
OwnerWithout(W, c) == IF owner[c] \in W THEN Gone(owner[c], c) ELSE owner[c]

(* The active window of w once the view of c has left it.                  *)
ActiveWithout(w, c) == IF active[w] = c THEN Gone(w, c) ELSE active[w]

(* Mutant of GrabWithout: the drag refers to the view by its address.      *)
GrabKept(W, c) == grab

(* The grab once the view of c in the workspaces W has left the tree.      *)
GrabWithout(W, c) ==
  IF \E w \in W : Grabbed(w, c) THEN [grab EXCEPT !.attached = FALSE] ELSE grab

(* Mutant of Dropped: the view the menu held does not release its window. *)
NothingDropped(f) == f

(* A function of references once the menu, and the view it held, is gone.  *)
Dropped(f) == [x \in DOMAIN f |-> IF f[x] = Held THEN Null ELSE f[x]]

(* grab_stop, after the rest of the handler has set own and act.           *)
GrabStop(own, act) ==
  /\ grab' = NoGrab
  /\ modal' = "none"
  /\ owner' = Dropped(own)
  /\ active' = Dropped(act)

Running == fault = "none"

Fails(what) ==
  /\ fault' = what
  /\ UNCHANGED <<nworkspaces, current, viewVars, grab, modal>>

-----------------------------------------------------------------------------
Init ==
  /\ nworkspaces \in Workspace
  /\ current \in 1..nworkspaces
  /\ managed = {}
  /\ view = [w \in Workspace |-> [c \in Client |-> "none"]]
  /\ revert_type = [w \in Workspace |-> [c \in Client |-> "floating"]]
  /\ owner = [c \in Client |-> Null]
  /\ active = [w \in Workspace |-> Null]
  /\ grab = NoGrab
  /\ modal = "none"
  /\ fault = "none"

-----------------------------------------------------------------------------
(* Windows come and go.                                                    *)

(* A window is mapped.  Its workspace must be one that page_t knows.       *)
MapWindow(c) ==
  /\ Running
  /\ c \notin managed
  /\ managed' = managed \cup {c}
  /\ \/ \E w \in IF c \in Sticky THEN {current} ELSE 1..nworkspaces :
          /\ view' = [view EXCEPT ![w][c] = "tab"]
          /\ owner' = [owner EXCEPT ![c] = IF w = current THEN w ELSE @]
          /\ active' = [active EXCEPT ![w] = c]
     \/ UNCHANGED <<view, owner, active>>     \* already fullscreen: no view
  /\ UNCHANGED <<nworkspaces, current, revert_type, grab, modal, fault>>

(* A window is destroyed: whatever the grab is, it is forgotten, and the   *)
(* views of the window are removed; where it was active, another view may  *)
(* get the focus (auto_refocus).                                           *)
Unmanage(c) ==
  /\ Running
  /\ c \in managed
  /\ managed' = managed \ {c}
  /\ grab' = NoGrab                           \* cleanup_grab
  /\ view' = [w \in Workspace |-> [view[w] EXCEPT ![c] = "none"]]
  /\ owner' = [Dropped(owner) EXCEPT ![c] = Null]
  /\ active' \in {f \in [Workspace -> Client \cup {Null}] : \A w \in Workspace :
       \/ f[w] = Dropped(active)[w] /\ f[w] # c
       \/ active[w] = c /\ (f[w] = Null \/ (f[w] # c /\ view[w][f[w]] # "none"))}
  /\ UNCHANGED <<nworkspaces, current, revert_type, modal, fault>>

(* The window manager gives the focus to window c.  The active view of the *)
(* current workspace is told first, and a tab asks its notebook then.      *)
FocusWindow(c) ==
  /\ Running
  /\ c \in managed
  /\ IF active[current] = Held
     THEN Fails("detached")
     ELSE /\ active' = [w \in Workspace |-> IF view[w][c] = "tab" THEN c ELSE active[w]]
          /\ UNCHANGED <<nworkspaces, current, managed, view, revert_type, owner, grab, modal, fault>>

-----------------------------------------------------------------------------
(* The kinds of views.                                                     *)

(* make-floating-window, make-notebook-window and a request to minimize    *)
(* concern the view of the current workspace, which is replaced.           *)
SwitchView(c) ==
  /\ Running
  /\ \E kind \in {"tab", "floating"} :
       /\ view[current][c] \notin {"none", kind}
       /\ view' = [view EXCEPT ![current][c] = kind]
  /\ owner' = [owner EXCEPT ![c] = current]
  /\ active' = [active EXCEPT ![current] = c]
  /\ grab' = GrabWithout({current}, c)
  /\ UNCHANGED <<nworkspaces, current, managed, revert_type, modal, fault>>

(* The window has become fullscreen: each of its views is replaced.  A new *)
(* view acquires the window if it comes from a tab, or if its workspace is *)
(* enabled; the workspaces take their turn in the order of the list.       *)
EnterFullscreen(c) ==
  LET W        == {w \in Workspace : view[w][c] \in {"tab", "floating"}}
      acquires == {w \in W : view[w][c] = "tab" \/ w = current}
  IN  /\ Running /\ W # {}
      /\ view' = [w \in Workspace |->
           [view[w] EXCEPT ![c] = IF w \in W THEN "fullscreen" ELSE @]]
      /\ revert_type' = [w \in Workspace |->
           [revert_type[w] EXCEPT ![c] = IF w \in W THEN view[w][c] ELSE @]]
      /\ owner' = [owner EXCEPT ![c] =
           IF acquires # {} THEN Max(acquires) ELSE OwnerWithout(W, c)]
      /\ active' = [w \in Workspace |->
           IF w \in W THEN ActiveWithout(w, c) ELSE active[w]]
      /\ grab' = GrabWithout(W, c)
      /\ UNCHANGED <<nworkspaces, current, managed, modal, fault>>

(* The window is no longer fullscreen: each of its views reverts.          *)
LeaveFullscreen(c) ==
  LET W == {w \in Workspace : view[w][c] = "fullscreen"}
  IN  /\ Running /\ W # {}
      /\ view' = [w \in Workspace |->
           [view[w] EXCEPT ![c] = IF w \in W THEN revert_type[w][c] ELSE @]]
      /\ owner' = [owner EXCEPT ![c] = IF current \in W THEN current ELSE OwnerWithout(W, c)]
      /\ active' = [w \in Workspace |-> IF w \in W THEN c ELSE active[w]]
      /\ UNCHANGED <<nworkspaces, current, managed, revert_type, grab, modal, fault>>

-----------------------------------------------------------------------------
(* Workspaces and monitors.                                                *)

(* Another workspace is enabled: its views acquire their windows and the   *)
(* front of its focus history gets the focus.                              *)
SwitchWorkspace(k) ==
  /\ Running
  /\ k <= nworkspaces /\ k # current
  /\ current' = k
  /\ owner' = [c \in Client |-> IF view[k][c] # "none" THEN k ELSE owner[c]]
  /\ active' \in {[active EXCEPT ![k] = f] :
       f \in {c \in Client : view[k][c] # "none"} \cup {Null}
             \cup (IF grab.kind = "menu" /\ ~grab.attached /\ grab.ws = k THEN {Held} ELSE {})}
  /\ UNCHANGED <<nworkspaces, managed, view, revert_type, grab, modal, fault>>

(* A monitor has gone: the tabs S, those of the notebooks that go with it, *)
(* are replaced by tabs of a notebook that stays.                          *)
LoseMonitor(S) ==
  LET moved(w) == {c \in Client : <<w, c>> \in S}
  IN  /\ Running /\ \A p \in S : view[p[1]][p[2]] = "tab"
      /\ owner' = [c \in Client |->
           IF c \in moved(current) THEN current
           ELSE IF owner[c] \in Workspace /\ c \in moved(owner[c]) THEN Gone(owner[c], c)
           ELSE owner[c]]
      /\ active' \in {f \in [Workspace -> Client \cup {Held, Null}] : \A w \in Workspace :
           IF moved(w) = {} THEN f[w] = active[w] ELSE f[w] \in moved(w)}
      /\ \E target \in {grab.target} \cup IF grab.target = "alive" THEN {"gone"} ELSE {},
            dead \in IF grab.kind = "split" THEN BOOLEAN ELSE {FALSE} :
           grab' = [grab EXCEPT !.target = target, !.attached =
                      @ /\ ~dead /\ ~\E p \in S : Grabbed(p[1], p[2])]
      /\ UNCHANGED <<nworkspaces, current, managed, view, revert_type, modal, fault>>

(* The shell's own modal (shell_global_begin_modal and end_modal).         *)
ShellModal ==
  /\ Running
  /\ \/ modal = "none"  /\ modal' = "shell"
     \/ modal = "shell" /\ modal' = "none"
  /\ UNCHANGED <<nworkspaces, current, viewVars, grab, fault>>

-----------------------------------------------------------------------------
(* Grabs.                                                                  *)

(* A button press on the page, which the viewport only passes on without   *)
(* a grab; grab_start keeps the handler only if the modal is granted.      *)
GrabStart(g) ==
  /\ grab.kind = "none" /\ modal = "none"
  /\ grab' = g
  /\ modal' = "page"

(* On a tab (left button: drag, right button: menu), or on a split bar.    *)
Press ==
  /\ Running
  /\ \/ GrabStart(Grab("split", Null, Null, TRUE))
     \/ \E c \in Client, kind \in {"drag", "menu"} :
          view[current][c] = "tab" /\ GrabStart(Grab(kind, c, current, TRUE))
  /\ UNCHANGED <<nworkspaces, current, viewVars, fault>>

(* The pointer moves: a drag or a split whose object is gone ends; else a  *)
(* drag may come over a notebook.                                          *)
Motion ==
  /\ Running
  /\ grab.kind \in {"drag", "split"}
  /\ IF ~grab.attached
     THEN GrabStop(owner, active)
     ELSE /\ grab.kind = "drag" /\ grab' = [grab EXCEPT !.target = "alive"]
          /\ UNCHANGED <<owner, active, modal>>
  /\ UNCHANGED <<nworkspaces, current, managed, view, revert_type, fault>>

(* A drag or a split ends with nothing to do: the object is gone, or the   *)
(* bar has been placed (PageGeometry has its effect).                      *)
ReleaseNothing ==
  /\ Running
  /\ grab.kind \in {"drag", "split"} /\ (grab.kind = "drag" => ~grab.attached)
  /\ GrabStop(owner, active)
  /\ UNCHANGED <<nworkspaces, current, managed, view, revert_type, fault>>

(* A dragged tab is released: near where it started, or before any target, *)
(* it is activated; over a notebook it moves there, or into a new one      *)
(* beside it, or stays; away from any it goes where it was last, and the   *)
(* null notebook is used if that is gone.                                  *)
ReleaseTab ==
  /\ Running
  /\ grab.kind = "drag" /\ grab.attached
  /\ LET c == grab.client
         w == grab.ws
     IN  \/ /\ GrabStop(owner, [active EXCEPT ![w] = c])
            /\ UNCHANGED <<nworkspaces, current, managed, view, revert_type, fault>>
         \/ /\ grab.target # "none"
            /\ GrabStop(owner, active)
            /\ UNCHANGED <<nworkspaces, current, managed, view, revert_type, fault>>
         \/ /\ grab.target # "none"
            /\ GrabStop([owner EXCEPT ![c] = IF w = current THEN w ELSE OwnerWithout({w}, c)],
                        [active EXCEPT ![w] = c])
            /\ UNCHANGED <<nworkspaces, current, managed, view, revert_type, fault>>
         \/ grab.target = "gone" /\ Fails("null_target")

(* The menu: the first release outside it is that of the press that opened *)
(* it; the second, the Escape key and the entry of the workspace itself    *)
(* close it.                                                               *)
LeaveMenu ==
  /\ Running
  /\ grab.kind = "menu"
  /\ \/ ~grab.released /\ grab' = [grab EXCEPT !.released = TRUE]
        /\ UNCHANGED <<owner, active, modal>>
     \/ GrabStop(owner, active)
  /\ UNCHANGED <<nworkspaces, current, managed, view, revert_type, fault>>

(* Mutant of SendTo: the view is not removed from where it was.            *)
SendCopyTo(k, v, own, act) ==
  IF ~grab.attached THEN Fails("detached")
  ELSE IF v[k][grab.client] # "none" THEN Fails("second_view")
  ELSE LET c == grab.client
       IN  /\ view' = [v EXCEPT ![k][c] = "tab"]
           /\ GrabStop([own EXCEPT ![c] = IF k = current THEN k ELSE @], [act EXCEPT ![k] = c])
           /\ UNCHANGED <<current, managed, fault>>

(* The view of the menu leaves its notebook and its window becomes a tab   *)
(* of the default notebook of k; v, own and act are the views, owners and  *)
(* active windows before that.                                             *)
SendTo(k, v, own, act) ==
  IF ~grab.attached THEN Fails("detached")
  ELSE IF v[k][grab.client] # "none" THEN Fails("second_view")
  ELSE LET c == grab.client
           w == grab.ws
       IN  /\ view' = [v EXCEPT ![w][c] = "none", ![k][c] = "tab"]
           /\ GrabStop([own EXCEPT ![c] = IF k = current THEN k
                                          ELSE IF @ = w THEN Null ELSE @],
                       [act EXCEPT ![w] = IF @ = c THEN Null ELSE @, ![k] = c])
           /\ UNCHANGED <<current, managed, fault>>

(* "Send to" an existing workspace.                                        *)
ChooseWorkspace(k) ==
  /\ Running
  /\ grab.kind = "menu" /\ k <= nworkspaces /\ k # grab.ws
  /\ SendTo(k, view, owner, active)
  /\ UNCHANGED <<nworkspaces, revert_type>>

(* "To new workspace": the sticky windows of the current workspace get a   *)
(* view of the same kind in the new one.  A fullscreen view sends the one  *)
(* before it back to a kind that was never set.                            *)
ChooseNewWorkspace ==
  /\ Running
  /\ grab.kind = "menu" /\ nworkspaces < MaxWorkspaces
  /\ LET k      == nworkspaces + 1
         copied == {c \in Sticky : view[current][c] # "none"}
         full   == {c \in copied : view[current][c] = "fullscreen"}
     IN  \E last \in IF full = {} THEN {Null} ELSE full,
            back \in [full -> {"tab", "floating"}],
            act \in copied \cup {Null} :
           /\ SendTo(k, [view EXCEPT ![k] = [c \in Client |->
                           IF c \notin copied THEN "none"
                           ELSE IF c \in full \ {last} THEN back[c] ELSE view[current][c]]],
                     owner, [active EXCEPT ![k] = act])
           /\ revert_type' = IF fault' # "none" THEN revert_type
                             ELSE [revert_type EXCEPT ![k] = [c \in Client |->
                                     IF c \in full THEN back[c] ELSE "floating"]]
  /\ nworkspaces' = IF fault' # "none" THEN nworkspaces ELSE nworkspaces + 1

-----------------------------------------------------------------------------
Next ==
  \/ \E c \in Client :
       \/ MapWindow(c) \/ Unmanage(c) \/ FocusWindow(c)
       \/ SwitchView(c) \/ EnterFullscreen(c) \/ LeaveFullscreen(c)
  \/ \E k \in Workspace : SwitchWorkspace(k) \/ ChooseWorkspace(k)
  \/ \E S \in SUBSET (Workspace \X Client) : LoseMonitor(S)
  \/ ShellModal
  \/ Press \/ Motion \/ ReleaseNothing \/ ReleaseTab
  \/ LeaveMenu \/ ChooseNewWorkspace

Spec == Init /\ [][Next]_vars

-----------------------------------------------------------------------------
TypeOK ==
  /\ nworkspaces \in Workspace
  /\ current \in 1..nworkspaces
  /\ managed \in SUBSET Client
  /\ view \in [Workspace -> [Client -> Kind]]
  /\ revert_type \in [Workspace -> [Client -> {"tab", "floating"}]]
  /\ owner \in [Client -> Workspace \cup {Held, Null}]
  /\ active \in [Workspace -> Client \cup {Held, Null}]
  /\ grab \in Grabs
  /\ modal \in {"none", "page", "shell"}
  /\ fault \in {"none", "detached", "second_view", "null_target"}

(* The view a client_managed_t points to with its raw owner pointer, and   *)
(* the one _net_active_window names, exist: in the tree, or else held by   *)
(* the menu.  Every operation that replaces or drops a view must leave the *)
(* pointer to the new view or release it, in every workspace.              *)
MenuHolds(c) == grab.kind = "menu" /\ grab.client = c /\ ~grab.attached
ReferencesAreAlive ==
  /\ \A c \in Client : /\ owner[c] = Held => MenuHolds(c)
                       /\ owner[c] \in Workspace => view[owner[c]][c] # "none"
  /\ \A w \in Workspace : /\ active[w] = Held => grab.ws = w /\ MenuHolds(grab.client)
                          /\ active[w] \in Client => view[w][active[w]] # "none"

(* A tab or a floating window of the workspace on the screen is placed by  *)
(* its view there, whatever happened in the other workspaces meanwhile:    *)
(* if it were not, _reconfigure_windows would leave it where it is.        *)
TiledWindowsArePlaced ==
  \A c \in Client : view[current][c] \in {"tab", "floating"} => owner[c] = current

(* A window that is not on all workspaces is in one, and a window that is  *)
(* no longer managed is in none: sending a window between workspaces does  *)
(* not leave a view behind.                                                *)
InOneWorkspace ==
  \A c \in Client :
    /\ c \notin managed => \A w \in Workspace : view[w][c] = "none"
    /\ c \notin Sticky => \A w, x \in Workspace :
         view[w][c] # "none" /\ view[x][c] # "none" => w = x

(* A grab has the modal of the plugin, so that the end of the grab never   *)
(* ends a modal of the shell.                                              *)
GrabHasModal == grab.kind # "none" => modal = "page"

(* What a grab refers to as attached is a tab of the workspace it began in.*)
GrabbedIsTab ==
  grab.kind \in {"drag", "menu"} /\ grab.attached => view[grab.ws][grab.client] = "tab"

(* The view of a drag or of a menu was one of a window, in a workspace     *)
(* that page_t knows: the menu may still send the window elsewhere.        *)
GrabHasView ==
  grab.kind \in {"drag", "menu"} => grab.client \in Client /\ grab.ws \in 1..nworkspaces

(* Nothing is in a workspace that page_t has not created yet, so that what *)
(* create_workspace puts there replaces nothing.                           *)
NoneBeyond ==
  \A w \in Workspace : w > nworkspaces =>
    active[w] = Null /\ \A c \in Client : view[w][c] = "none"

-----------------------------------------------------------------------------
(* What the code says of itself and does not keep; README.md says how.     *)

(* cleanup_grab, the comment before its call says, cleans up when a window *)
(* in a move is unmanaged (page-page.cxx:813): no modal without a grab.    *)
ModalEnds == modal = "page" => grab.kind # "none"

(* No assertion fails and no null pointer is used: a notebook is never     *)
(* given a window it has, as the assertion of add_client says              *)
(* (page-notebook.cxx:60); a view asks for its notebook only while it is   *)
(* in one (page-view-notebook.cxx:89); a tab released nowhere keeps its    *)
(* old location (page-grab-handlers.cxx).                                  *)
AssertsHold == fault = "none"

(* A window is in one place, and placed from there.                        *)
WindowsArePlaced == TypeOK /\ TiledWindowsArePlaced /\ InOneWorkspace /\ NoneBeyond

(* A grab owns the input and what it drags.                                *)
GrabSound == GrabHasModal /\ GrabbedIsTab /\ GrabHasView

=============================================================================
