------------------------------ MODULE MCGrabs ------------------------------
(***************************************************************************)
(* Grabs for TLC: the grab handlers of page over two workspaces, a window on *)
(* all of them and one not; and the grab helpers of the shell, those of the *)
(* panel with two menus, of the icon of an application with one and of a   *)
(* folder, with the overview and a dialog that are modal too; and the      *)
(* workspaces of the overview with the windows that are dragged there.     *)
(* They share no state here; a behaviour runs the one that part names.     *)
(***************************************************************************)
EXTENDS PageGrab, TLC

CONSTANTS
  Helper, Menu, Popup, HelperOf, Other, Over, MaxModal,  \* of GrabHelper
  c1, c2, panel, icon, folder, p1, p2, i1, f1, overview, w1, w2, NoLayout

MCClient == {c1, c2}
MCSticky == {c1}

Helpers == p1 :> panel @@ p2 :> panel @@ i1 :> icon @@ f1 :> folder
Reach == panel :> {overview, panel} @@ icon :> {overview, folder} @@ folder :> {overview}

VARIABLES
  part,  \* the component that this behaviour runs
  isOpen, _grabStack, _modalCount, _ignoreUntilRelease, _grabHelperStack,
  helpersModal, begun, helpersAlive, thrown,
  at, spaceCurrent, spaceOverview, workspace, spaceAlive, dragged, idle, stray,
  screen, viewsActive, made, viewsOverview, handlers, _workspaces, value,
  _animating, _scrolling, _animatingScroll, _inDrag,
  thumbsScreen, thumbsActive, thumbs, thumbsBox, shown, thumbsStray, drop, hasty

GH == INSTANCE GrabHelper WITH modal <- helpersModal, alive <- helpersAlive

Space == INSTANCE OverviewWorkspace
    WITH Window <- {w1, w2}, NoWindow <- Null, NoLayout <- NoLayout,
         current <- spaceCurrent, overview <- spaceOverview,
         alive <- spaceAlive

Spaces == INSTANCE WorkspacesView
    WITH MaxWorkspaces <- 3, MaxMade <- 4, LastMayGo <- FALSE,
         active <- viewsActive, overview <- viewsOverview

Thumbs == INSTANCE WorkspaceThumbnails
    WITH MaxWorkspaces <- 2, MaxMade <- 3, screen <- thumbsScreen,
         active <- thumbsActive, made <- thumbs, box <- thumbsBox,
         stray <- thumbsStray

ASSUME ConstantsAssumptions ==
  /\ GH!ConstantsAssumption
  /\ Space!WorkspaceAssumption
  /\ Spaces!WorkspacesAssumption
  /\ Thumbs!ThumbnailsAssumption

helpersVars == <<isOpen, _grabStack, _modalCount, _ignoreUntilRelease,
                  _grabHelperStack, helpersModal, begun, helpersAlive, thrown>>
spaceVars == <<at, spaceCurrent, spaceOverview, workspace, spaceAlive,
                dragged, idle, stray>>
viewsVars == <<screen, viewsActive, made, viewsOverview, handlers,
                _workspaces, value, _animating, _scrolling, _animatingScroll,
                _inDrag>>
thumbsVars == <<thumbsScreen, thumbsActive, thumbs, thumbsBox, shown,
                 thumbsStray, drop, hasty>>
MCInit ==
  /\ part \in {"grab", "helpers", "space", "views", "thumbs"}
  /\ Init
  /\ (part # "grab" => nworkspaces = 1)
  /\ GH!Init
  /\ Space!Init
  /\ (part # "space" => spaceCurrent /\ at = [w \in {w1, w2} |-> "nowhere"])
  /\ Spaces!Init
  /\ (part # "views" => viewsActive = 1)
  /\ Thumbs!Init

(* Bounds: one window is in fullscreen in one workspace at a time; one     *)
(* tween of a destroyed thumbnail still runs.                              *)
OneFullscreen ==
  Cardinality({p \in Workspace \X Client : view'[p[1]][p[2]] = "fullscreen"}) <= 1
OneStray == \A x, y \in thumbsStray' : x = y

MCNext ==
  /\ UNCHANGED part
  /\ \/ /\ part = "grab" /\ Next /\ OneFullscreen
        /\ UNCHANGED <<helpersVars, spaceVars, viewsVars, thumbsVars>>
     \/ /\ part = "helpers" /\ GH!Next
        /\ UNCHANGED <<vars, spaceVars, viewsVars, thumbsVars>>
     \/ /\ part = "space" /\ Space!Next
        /\ UNCHANGED <<vars, helpersVars, viewsVars, thumbsVars>>
     \/ /\ part = "views" /\ Spaces!Next
        /\ UNCHANGED <<vars, helpersVars, spaceVars, thumbsVars>>
     \/ /\ part = "thumbs" /\ Thumbs!Next /\ OneStray
        /\ UNCHANGED <<vars, helpersVars, spaceVars, viewsVars>>

mcVars == <<part, vars, helpersVars, spaceVars, viewsVars, thumbsVars>>

MCSpec == MCInit /\ [][MCNext]_mcVars

(* The properties of the helpers, and of the workspaces of the overview    *)
(* and their thumbnails.                                                   *)
HelpersSound == part = "helpers" => GH!HelpersSound
WorkspacesSound ==
  /\ part = "space" => Space!WorkspaceSound
  /\ part = "views" => Spaces!ViewSound
  /\ part = "thumbs" => Thumbs!ThumbnailsSound
MenusPopInOrder == GH!MenusPopInOrder

=============================================================================
