----------------------------- MODULE Grabs_proofs -----------------------------
(***************************************************************************)
(* Of the components of MCGrabs:                                           *)
(*                                                                         *)
(* The grab of a workspace: every reference to a view is alive, every      *)
(* tiled window on the screen is placed from there, and a grab has the     *)
(* modal, for any number of windows and workspaces.  The conjunction of    *)
(* the invariants of PageGrab is inductive: each action needs most of them.*)
(*                                                                         *)
(* The grab helpers: grabs, helpers and modals agree, whatever is opened,  *)
(* closed and destroyed, and menus alone give up their grabs in order, for *)
(* any number of helpers, menus and folders.  A world is a record of the   *)
(* variables of GrabHelper; its operators take worlds that are Good to     *)
(* such worlds, and where all is in step the helper of a menu with a grab  *)
(* is on top, so that nothing can be reached that puts another above it.   *)
(***************************************************************************)
EXTENDS MCGrabs, SequenceLemmas, WellFoundedInduction, FiniteSetTheorems

Inv == WindowsArePlaced /\ ReferencesAreAlive /\ GrabSound

-----------------------------------------------------------------------------
(* The last of the workspaces that take their turn is one of them.         *)
LEMMA MaxIsIn ==
  ASSUME NEW S \in SUBSET Workspace, S # {}
  PROVE  Max(S) \in S
<1> DEFINE T == {n \in Nat : MaxWorkspaces - n \in S}
<1>1. T \subseteq Nat
  OBVIOUS
<1>2. PICK s \in S : TRUE
  OBVIOUS
<1>3. s \in 1..MaxWorkspaces /\ MaxWorkspaces \in Nat
  BY <1>2, ConstantsAssumption DEF Workspace
<1>4. MaxWorkspaces - s \in Nat /\ MaxWorkspaces - (MaxWorkspaces - s) = s
  BY <1>3
<1>5. T # {}
  BY <1>2, <1>4
<1>6. PICK x \in T : \A y \in T : ~(<<y, x>> \in OpToRel(<, Nat))
  <2> HIDE DEF T
  <2> QED BY <1>1, <1>5, NatLessThanWellFounded, WFMin
<1>7. \A y \in T : ~(y < x)
  <2> TAKE y \in T
  <2>1. y \in Nat /\ x \in Nat
    BY <1>1, <1>6
  <2>2. y < x => <<y, x>> \in OpToRel(<, Nat)
    BY <2>1 DEF OpToRel
  <2> QED BY <2>2, <1>6
<1>8. \A y \in S : MaxWorkspaces - x >= y
  <2> TAKE y \in S
  <2>1. y \in 1..MaxWorkspaces
    BY DEF Workspace
  <2>2. MaxWorkspaces - y \in T
    <3>1. MaxWorkspaces - (MaxWorkspaces - y) = y
      BY <2>1, <1>3
    <3>2. MaxWorkspaces - y \in Nat
      BY <2>1, <1>3
    <3> QED BY <3>1, <3>2
  <2>3. ~(MaxWorkspaces - y < x) /\ x \in Nat
    BY <2>2, <1>7, <1>6
  <2> QED BY <2>1, <2>3, <1>3
<1>9. MaxWorkspaces - x \in S
  BY <1>6
<1> QED BY <1>8, <1>9 DEF Max

(* Null and the view that is held are no windows and no workspaces.        *)
LEMMA Distinct ==
  /\ Held # Null /\ Held \notin Client /\ Null \notin Client
  /\ Held \notin Workspace /\ Null \notin Workspace
<1>1. \A n \in Workspace : n \in Nat
  BY ConstantsAssumption DEF Workspace
<1> QED BY <1>1, ConstantsAssumption

(* The workspaces page_t knows are workspaces; one is on the screen.       *)
LEMMA Known ==
  ASSUME TypeOK
  PROVE  /\ nworkspaces \in Nat /\ current \in Workspace /\ current <= nworkspaces
         /\ \A w \in 1..nworkspaces : w \in Workspace
         /\ \A w \in Workspace : w \in Nat /\ (w \in 1..nworkspaces <=> ~(w > nworkspaces))
BY ConstantsAssumption DEF TypeOK, Workspace

-----------------------------------------------------------------------------
(* The initial states, and the steps that leave the invariant to the rest. *)
LEMMA InitInv == Init => Inv
BY ConstantsAssumption DEF Init, Inv, WindowsArePlaced, ReferencesAreAlive, GrabSound, TypeOK,
   TiledWindowsArePlaced, InOneWorkspace, NoneBeyond, GrabHasModal, GrabbedIsTab, GrabHasView,
   NoGrab, Grab, Grabs, Workspace, Kind, MenuHolds

(* The conjuncts, so that a proof names the ones it disturbs.              *)
LEMMA Parts ==
  Inv <=> /\ TypeOK /\ TiledWindowsArePlaced /\ InOneWorkspace /\ NoneBeyond
          /\ ReferencesAreAlive /\ GrabHasModal /\ GrabbedIsTab /\ GrabHasView
BY DEF Inv, WindowsArePlaced, GrabSound

LEMMA FailsInv ==
  ASSUME Inv, NEW what \in {"none", "detached", "second_view", "null_target"}, Fails(what)
  PROVE  Inv'
<1>1. TypeOK'
  BY DEF Inv, WindowsArePlaced, TypeOK, Fails, viewVars
<1>2. /\ UNCHANGED <<nworkspaces, current, managed, view, revert_type, owner, active>>
      /\ UNCHANGED <<grab, modal>>
  BY DEF Fails, viewVars
<1>3. /\ TiledWindowsArePlaced' /\ InOneWorkspace' /\ NoneBeyond' /\ ReferencesAreAlive'
      /\ GrabHasModal' /\ GrabbedIsTab' /\ GrabHasView'
  BY <1>2 DEF Inv, WindowsArePlaced, ReferencesAreAlive, GrabSound, TiledWindowsArePlaced,
     InOneWorkspace, NoneBeyond, GrabHasModal, GrabbedIsTab, GrabHasView, MenuHolds
<1> QED BY <1>1, <1>3 DEF Inv, WindowsArePlaced, GrabSound

-----------------------------------------------------------------------------
(* Windows come and go.                                                    *)

LEMMA MapWindowInv ==
  ASSUME Inv, NEW c \in Client, MapWindow(c)
  PROVE  Inv'
<1>0. /\ TypeOK /\ TiledWindowsArePlaced /\ InOneWorkspace /\ NoneBeyond
      /\ ReferencesAreAlive /\ GrabHasModal /\ GrabbedIsTab /\ GrabHasView
  BY DEF Inv, WindowsArePlaced, GrabSound
<1>1. ASSUME NEW w \in 1..nworkspaces, c \notin Sticky \/ w = current,
             view' = [view EXCEPT ![w][c] = "tab"],
             owner' = [owner EXCEPT ![c] = IF w = current THEN w ELSE @],
             active' = [active EXCEPT ![w] = c]
      PROVE  Inv'
  <2> USE <1>0, <1>1
  <2>0. c \notin managed /\ w \in Workspace /\ \A x \in Workspace : view[x][c] = "none"
    BY Known DEF InOneWorkspace, MapWindow
  <2>1. TypeOK'
    BY <2>0 DEF TypeOK, Kind, MapWindow
  <2>2. \A x \in Workspace, d \in Client :
          view'[x][d] = IF x = w /\ d = c THEN "tab" ELSE view[x][d]
    BY <2>0 DEF TypeOK
  <2>8. \A d \in Client : owner'[d] = IF d = c /\ w = current THEN w ELSE owner[d]
    BY DEF TypeOK
  <2>9. \A x \in Workspace : active'[x] = IF x = w THEN c ELSE active[x]
    BY DEF TypeOK
  <2>10. current \in Workspace /\ UNCHANGED <<current, nworkspaces, grab>>
    BY Known DEF MapWindow
  <2>3. TiledWindowsArePlaced'
    BY <2>0, <2>2, <2>8, <2>10 DEF TiledWindowsArePlaced
  <2>4. InOneWorkspace'
    BY <2>0, <2>2 DEF InOneWorkspace, MapWindow
  <2>5. NoneBeyond'
    BY <2>0, <2>2, <2>9, <2>10, Known DEF NoneBeyond
  <2>6. ReferencesAreAlive'
    <3>1. ASSUME NEW d \in Client
          PROVE  /\ owner'[d] = Held => MenuHolds(d)'
                 /\ owner'[d] \in Workspace => view'[owner'[d]][d] # "none"
      BY <2>0, <2>2, <2>8, <2>10, Distinct DEF ReferencesAreAlive, MenuHolds
    <3>2. ASSUME NEW x \in Workspace
          PROVE  /\ active'[x] = Held => grab'.ws = x /\ MenuHolds(grab.client)'
                 /\ active'[x] \in Client => view'[x][active'[x]] # "none"
      BY <2>0, <2>2, <2>9, <2>10, Distinct DEF ReferencesAreAlive, MenuHolds
    <3> QED BY <3>1, <3>2 DEF ReferencesAreAlive, MenuHolds
  <2>7. GrabHasModal' /\ GrabbedIsTab' /\ GrabHasView'
    BY <2>0, <2>2, <2>10, Known DEF MapWindow, GrabHasModal, GrabbedIsTab, GrabHasView
  <2> QED BY <2>1, <2>3, <2>4, <2>5, <2>6, <2>7 DEF Inv, WindowsArePlaced, GrabSound
<1>2. ASSUME UNCHANGED <<view, owner, active>>
      PROVE  Inv'
  BY <1>0, <1>2 DEF MapWindow, Inv, WindowsArePlaced, ReferencesAreAlive, GrabSound, TypeOK,
     TiledWindowsArePlaced, InOneWorkspace, NoneBeyond, GrabHasModal, GrabbedIsTab,
     GrabHasView, MenuHolds
<1> QED BY <1>0, <1>1, <1>2 DEF MapWindow, TypeOK

LEMMA UnmanageInv ==
  ASSUME Inv, NEW c \in Client, Unmanage(c)
  PROVE  Inv'
<1>0. /\ TypeOK /\ TiledWindowsArePlaced /\ InOneWorkspace /\ NoneBeyond
      /\ ReferencesAreAlive /\ GrabHasModal /\ GrabbedIsTab /\ GrabHasView
  BY DEF Inv, WindowsArePlaced, GrabSound
<1> USE <1>0
<1>1. \A w \in Workspace, d \in Client :
        view'[w][d] = IF d = c THEN "none" ELSE view[w][d]
  BY DEF TypeOK, Unmanage
<1>2. /\ DOMAIN owner = Client /\ DOMAIN active = Workspace
      /\ owner' = [[d \in Client |-> IF owner[d] = Held THEN Null ELSE owner[d]]
                     EXCEPT ![c] = Null]
  BY DEF TypeOK, Unmanage, Dropped
<1>3. \A w \in Workspace :
        \/ active'[w] = (IF active[w] = Held THEN Null ELSE active[w]) /\ active'[w] # c
        \/ active[w] = c /\ (active'[w] = Null \/ (active'[w] # c /\ view[w][active'[w]] # "none"))
  BY <1>2 DEF TypeOK, Unmanage, Dropped
<1>4. /\ active' \in [Workspace -> Client \cup {Null}]
      /\ \A d \in Client : owner'[d] = IF d = c \/ owner[d] = Held THEN Null ELSE owner[d]
      /\ current \in Workspace /\ UNCHANGED <<current, nworkspaces>>
  BY <1>2, Known DEF Unmanage, TypeOK
<1>5. TypeOK'
  <2>1. owner' \in [Client -> Workspace \cup {Held, Null}]
    BY <1>2 DEF TypeOK
  <2>2. view' \in [Workspace -> [Client -> Kind]]
    BY DEF TypeOK, Kind, Unmanage
  <2>3. grab' \in Grabs
    BY DEF NoGrab, Grab, Grabs, Unmanage
  <2> QED BY <2>1, <2>2, <2>3, <1>4 DEF TypeOK, Unmanage
<1>6. TiledWindowsArePlaced'
  BY <1>1, <1>4, Distinct DEF TiledWindowsArePlaced
<1>7. InOneWorkspace'
  BY <1>1 DEF InOneWorkspace, Unmanage
<1>8. NoneBeyond'
  BY <1>1, <1>3, <1>4, Distinct DEF NoneBeyond
<1>9. ReferencesAreAlive'
  <2>1. ASSUME NEW d \in Client
        PROVE  /\ owner'[d] # Held
               /\ owner'[d] \in Workspace => view'[owner'[d]][d] # "none"
    BY <1>1, <1>4, Distinct DEF ReferencesAreAlive
  <2>2. ASSUME NEW w \in Workspace
        PROVE  /\ active'[w] # Held
               /\ active'[w] \in Client => view'[w][active'[w]] # "none"
    BY <1>1, <1>3, <1>4, Distinct DEF ReferencesAreAlive
  <2> QED BY <2>1, <2>2 DEF ReferencesAreAlive
<1>10. GrabHasModal' /\ GrabbedIsTab' /\ GrabHasView'
  BY DEF NoGrab, Grab, GrabHasModal, GrabbedIsTab, GrabHasView, Unmanage
<1> QED BY <1>5, <1>6, <1>7, <1>8, <1>9, <1>10 DEF Inv, WindowsArePlaced, GrabSound

LEMMA FocusWindowInv ==
  ASSUME Inv, NEW c \in Client, FocusWindow(c)
  PROVE  Inv'
<1>1. CASE Fails("detached")
  BY <1>1, FailsInv
<1>2. CASE ~Fails("detached")
  <2>1. /\ active' = [w \in Workspace |-> IF view[w][c] = "tab" THEN c ELSE active[w]]
        /\ UNCHANGED <<nworkspaces, current, managed, view, revert_type, owner, grab, modal, fault>>
    BY <1>2 DEF FocusWindow
  <2> USE <2>1 DEF Inv, WindowsArePlaced, GrabSound
  <2>2. TypeOK'
    BY DEF TypeOK
  <2>3. NoneBeyond'
    BY DEF TypeOK, NoneBeyond
  <2>4. ReferencesAreAlive'
    BY Distinct DEF TypeOK, ReferencesAreAlive, MenuHolds
  <2>5. /\ TiledWindowsArePlaced' /\ InOneWorkspace'
        /\ GrabHasModal' /\ GrabbedIsTab' /\ GrabHasView'
    BY DEF TiledWindowsArePlaced, InOneWorkspace, GrabHasModal, GrabbedIsTab, GrabHasView
  <2> QED BY <2>2, <2>3, <2>4, <2>5
<1> QED BY <1>1, <1>2

-----------------------------------------------------------------------------
(* The kinds of views.                                                     *)

(* The view of c in the workspaces W leaves the tree: what was attached to *)
(* it is not any more, and nothing else of the grab changes.               *)
LEMMA GrabWithoutFields ==
  ASSUME TypeOK, NEW W \in SUBSET Workspace, NEW c \in Client
  PROVE  LET g == GrabWithout(W, c)
         IN  /\ g \in Grabs /\ g.kind = grab.kind /\ g.client = grab.client /\ g.ws = grab.ws
             /\ g.attached = (grab.attached /\ ~\E w \in W : Grabbed(w, c))
BY DEF TypeOK, Grabs, GrabWithout

LEMMA SwitchViewInv ==
  ASSUME Inv, NEW c \in Client, SwitchView(c)
  PROVE  Inv'
<1>0. /\ TypeOK /\ TiledWindowsArePlaced /\ InOneWorkspace /\ NoneBeyond
      /\ ReferencesAreAlive /\ GrabHasModal /\ GrabbedIsTab /\ GrabHasView
  BY DEF Inv, WindowsArePlaced, GrabSound
<1>1. PICK kind \in {"tab", "floating"} :
        /\ view[current][c] \notin {"none", kind}
        /\ view' = [view EXCEPT ![current][c] = kind]
  BY DEF SwitchView
<1>2. current \in Workspace /\ {current} \in SUBSET Workspace
  BY <1>0, Known
<1>3. /\ \A w \in Workspace, d \in Client :
           view'[w][d] = IF w = current /\ d = c THEN kind ELSE view[w][d]
      /\ \A d \in Client : owner'[d] = IF d = c THEN current ELSE owner[d]
      /\ \A w \in Workspace : active'[w] = IF w = current THEN c ELSE active[w]
  BY <1>0, <1>1, <1>2 DEF TypeOK, SwitchView
<1>4. /\ grab' \in Grabs /\ grab'.kind = grab.kind /\ grab'.client = grab.client
      /\ grab'.ws = grab.ws /\ (grab'.attached => grab.attached)
      /\ grab'.attached => ~Grabbed(current, c)
  <2> HIDE DEF Grabbed
  <2> QED BY <1>0, <1>2, GrabWithoutFields DEF SwitchView
<1>5. UNCHANGED <<nworkspaces, current, managed, revert_type, modal, fault>>
  BY DEF SwitchView
<1>6. TypeOK'
  BY <1>0, <1>1, <1>2, <1>4, <1>5 DEF TypeOK, Kind, SwitchView
<1>7. TiledWindowsArePlaced'
  BY <1>0, <1>2, <1>3, <1>5 DEF TiledWindowsArePlaced
<1>8. InOneWorkspace'
  BY <1>0, <1>1, <1>2, <1>3, <1>5 DEF InOneWorkspace
<1>9. NoneBeyond'
  BY <1>0, <1>1, <1>2, <1>3, <1>5, Known DEF NoneBeyond
<1>10. ReferencesAreAlive'
  <2>1. ASSUME NEW d \in Client
        PROVE  /\ owner'[d] = Held => MenuHolds(d)'
               /\ owner'[d] \in Workspace => view'[owner'[d]][d] # "none"
    BY <1>0, <1>1, <1>2, <1>3, <1>4, Distinct DEF ReferencesAreAlive, MenuHolds
  <2>2. ASSUME NEW w \in Workspace
        PROVE  /\ active'[w] = Held => grab'.ws = w /\ MenuHolds(grab.client)'
               /\ active'[w] \in Client => view'[w][active'[w]] # "none"
    BY <1>0, <1>1, <1>2, <1>3, <1>4, Distinct DEF ReferencesAreAlive, MenuHolds
  <2> QED BY <2>1, <2>2 DEF ReferencesAreAlive, MenuHolds
<1>11. GrabHasModal' /\ GrabHasView'
  BY <1>0, <1>4, <1>5 DEF GrabHasModal, GrabHasView
<1>12. GrabbedIsTab'
  BY <1>0, <1>3, <1>4, Known DEF GrabbedIsTab, GrabHasView, Grabbed
<1> QED BY <1>6, <1>7, <1>8, <1>9, <1>10, <1>11, <1>12 DEF Inv, WindowsArePlaced, GrabSound

LEMMA EnterFullscreenInv ==
  ASSUME Inv, NEW c \in Client, EnterFullscreen(c)
  PROVE  Inv'
<1> DEFINE W        == {w \in Workspace : view[w][c] \in {"tab", "floating"}}
           acquires == {w \in W : view[w][c] = "tab" \/ w = current}
<1>0. /\ TypeOK /\ TiledWindowsArePlaced /\ InOneWorkspace /\ NoneBeyond
      /\ ReferencesAreAlive /\ GrabHasModal /\ GrabbedIsTab /\ GrabHasView
  BY DEF Inv, WindowsArePlaced, GrabSound
<1>1. /\ \A w \in Workspace, d \in Client :
           view'[w][d] = IF d = c /\ w \in W THEN "fullscreen" ELSE view[w][d]
      /\ \A w \in Workspace : active'[w] = IF w \in W THEN ActiveWithout(w, c) ELSE active[w]
      /\ \A d \in Client : d # c => owner'[d] = owner[d]
  BY <1>0 DEF TypeOK, EnterFullscreen
<1>2. owner'[c] \in W \/ owner'[c] = OwnerWithout(W, c)
  <2>1. owner'[c] = IF acquires # {} THEN Max(acquires) ELSE OwnerWithout(W, c)
    BY <1>0 DEF TypeOK, EnterFullscreen
  <2>2. acquires # {} => Max(acquires) \in acquires
    BY MaxIsIn
  <2> QED BY <2>1, <2>2
<1>3. /\ grab' \in Grabs /\ grab'.kind = grab.kind /\ grab'.client = grab.client
      /\ grab'.ws = grab.ws /\ (grab'.attached => grab.attached)
      /\ \A w \in W : Grabbed(w, c) => ~grab'.attached
      /\ grab'.attached => \A w \in W : ~Grabbed(w, c)
  <2>1. grab' = GrabWithout(W, c) /\ W \in SUBSET Workspace
    BY DEF EnterFullscreen
  <2> HIDE DEF W
  <2> QED BY <1>0, <2>1, GrabWithoutFields
<1>4. UNCHANGED <<nworkspaces, current, managed, modal, fault>> /\ current \in Workspace
  BY <1>0, Known DEF EnterFullscreen
<1>5. OwnerWithout(W, c) = IF owner[c] \in W THEN Gone(owner[c], c) ELSE owner[c]
  BY DEF OwnerWithout
<1>6. \A w \in Workspace : Gone(w, c) = Null \/ (Gone(w, c) = Held /\ Grabbed(w, c) /\ grab.kind = "menu")
  BY DEF Gone
<1>7. \A w \in Workspace : ActiveWithout(w, c) = IF active[w] = c THEN Gone(w, c) ELSE active[w]
  BY DEF ActiveWithout
<1>8. TypeOK'
  <2>1. view' \in [Workspace -> [Client -> Kind]]
    BY <1>0 DEF TypeOK, EnterFullscreen, Kind
  <2>2. revert_type' \in [Workspace -> [Client -> {"tab", "floating"}]]
    BY <1>0 DEF TypeOK, EnterFullscreen
  <2>3. owner' \in [Client -> Workspace \cup {Held, Null}]
    <3>1. OwnerWithout(W, c) \in Workspace \cup {Held, Null}
      BY <1>0, <1>5, <1>6 DEF TypeOK
    <3>2. owner' = [owner EXCEPT ![c] = owner'[c]]
      BY <1>0 DEF TypeOK, EnterFullscreen
    <3> QED BY <1>0, <1>2, <3>1, <3>2 DEF TypeOK
  <2>4. active' \in [Workspace -> Client \cup {Held, Null}]
    <3>1. active' = [w \in Workspace |-> IF w \in W THEN ActiveWithout(w, c) ELSE active[w]]
      BY DEF EnterFullscreen
    <3>2. \A w \in Workspace : ActiveWithout(w, c) \in Client \cup {Held, Null}
      BY <1>0, <1>6, <1>7 DEF TypeOK
    <3> QED BY <1>0, <3>1, <3>2 DEF TypeOK
  <2> QED BY <1>0, <1>3, <1>4, <2>1, <2>2, <2>3, <2>4 DEF TypeOK
<1>9. TiledWindowsArePlaced'
  BY <1>0, <1>1, <1>4 DEF TiledWindowsArePlaced
<1>10. InOneWorkspace'
  BY <1>0, <1>1, <1>4 DEF InOneWorkspace
<1>11. NoneBeyond'
  BY <1>0, <1>1, <1>4 DEF NoneBeyond
<1>12. ReferencesAreAlive'
  <2>1. /\ owner'[c] = Held => MenuHolds(c)'
        /\ owner'[c] \in Workspace => view'[owner'[c]][c] # "none"
    <3>1. CASE owner'[c] \in W
      BY <3>1, <1>1, Distinct
    <3>2. CASE owner'[c] = OwnerWithout(W, c) /\ owner[c] \in W
      BY <3>2, <1>3, <1>5, <1>6, Distinct DEF MenuHolds, Grabbed
    <3>3. CASE owner'[c] = OwnerWithout(W, c) /\ owner[c] \notin W
      BY <3>3, <1>0, <1>1, <1>3, <1>5 DEF ReferencesAreAlive, MenuHolds
    <3> QED BY <1>2, <3>1, <3>2, <3>3
  <2>2. ASSUME NEW d \in Client
        PROVE  /\ owner'[d] = Held => MenuHolds(d)'
               /\ owner'[d] \in Workspace => view'[owner'[d]][d] # "none"
    BY <1>0, <1>1, <1>3, <2>1 DEF ReferencesAreAlive, MenuHolds
  <2>3. ASSUME NEW w \in Workspace
        PROVE  /\ active'[w] = Held => grab'.ws = w /\ MenuHolds(grab.client)'
               /\ active'[w] \in Client => view'[w][active'[w]] # "none"
    <3>1. CASE w \in W /\ active[w] = c
      BY <3>1, <1>1, <1>3, <1>6, <1>7, Distinct DEF MenuHolds, Grabbed
    <3>2. CASE ~(w \in W /\ active[w] = c)
      BY <3>2, <1>0, <1>1, <1>3, <1>7 DEF ReferencesAreAlive, MenuHolds
    <3> QED BY <3>1, <3>2
  <2> QED BY <2>2, <2>3 DEF ReferencesAreAlive, MenuHolds
<1>13. GrabHasModal' /\ GrabHasView'
  BY <1>0, <1>3, <1>4 DEF GrabHasModal, GrabHasView
<1>14. GrabbedIsTab'
  BY <1>0, <1>1, <1>3, Known DEF GrabbedIsTab, GrabHasView, Grabbed
<1> QED BY <1>8, <1>9, <1>10, <1>11, <1>12, <1>13, <1>14 DEF Inv, WindowsArePlaced, GrabSound

LEMMA LeaveFullscreenInv ==
  ASSUME Inv, NEW c \in Client, LeaveFullscreen(c)
  PROVE  Inv'
<1> DEFINE W == {w \in Workspace : view[w][c] = "fullscreen"}
<1>0. /\ TypeOK /\ TiledWindowsArePlaced /\ InOneWorkspace /\ NoneBeyond
      /\ ReferencesAreAlive /\ GrabHasModal /\ GrabbedIsTab /\ GrabHasView
  BY DEF Inv, WindowsArePlaced, GrabSound
<1>1. /\ \A w \in Workspace, d \in Client :
           view'[w][d] = IF d = c /\ w \in W THEN revert_type[w][c] ELSE view[w][d]
      /\ \A w \in W : revert_type[w][c] \in {"tab", "floating"}
      /\ \A w \in Workspace : active'[w] = IF w \in W THEN c ELSE active[w]
      /\ \A d \in Client : d # c => owner'[d] = owner[d]
  BY <1>0 DEF TypeOK, LeaveFullscreen
<1>2. UNCHANGED <<nworkspaces, current, managed, revert_type, grab, modal, fault>>
  BY DEF LeaveFullscreen
<1>3. owner'[c] = IF current \in W THEN current ELSE IF owner[c] \in W THEN Null ELSE owner[c]
  <2>1. owner'[c] = IF current \in W THEN current ELSE OwnerWithout(W, c)
    BY <1>0 DEF TypeOK, LeaveFullscreen
  <2>2. \A w \in W : ~Grabbed(w, c)
    BY <1>0 DEF GrabbedIsTab, Grabbed
  <2> QED BY <2>1, <2>2 DEF OwnerWithout, Gone
<1>4. current \in Workspace /\ \A w \in W : w <= nworkspaces
  BY <1>0, Known DEF NoneBeyond
<1>5. TypeOK'
  <2>1. view' \in [Workspace -> [Client -> Kind]]
    BY <1>0 DEF TypeOK, LeaveFullscreen, Kind
  <2>2. owner' \in [Client -> Workspace \cup {Held, Null}]
    <3>1. owner' = [owner EXCEPT ![c] = owner'[c]]
      BY <1>0 DEF TypeOK, LeaveFullscreen
    <3> QED BY <1>0, <1>3, <1>4, <3>1 DEF TypeOK
  <2>3. active' \in [Workspace -> Client \cup {Held, Null}]
    BY <1>0 DEF TypeOK, LeaveFullscreen
  <2> QED BY <1>0, <1>2, <2>1, <2>2, <2>3 DEF TypeOK
<1>6. TiledWindowsArePlaced'
  BY <1>0, <1>1, <1>2, <1>3, <1>4 DEF TiledWindowsArePlaced
<1>7. InOneWorkspace'
  BY <1>0, <1>1, <1>2 DEF InOneWorkspace
<1>8. NoneBeyond'
  BY <1>0, <1>1, <1>2, <1>4, Known DEF NoneBeyond
<1>9. ReferencesAreAlive'
  <2>1. ASSUME NEW d \in Client
        PROVE  /\ owner'[d] = Held => MenuHolds(d)'
               /\ owner'[d] \in Workspace => view'[owner'[d]][d] # "none"
    BY <1>0, <1>1, <1>2, <1>3, <1>4, Distinct DEF ReferencesAreAlive, MenuHolds
  <2>2. ASSUME NEW w \in Workspace
        PROVE  /\ active'[w] = Held => grab'.ws = w /\ MenuHolds(grab.client)'
               /\ active'[w] \in Client => view'[w][active'[w]] # "none"
    BY <1>0, <1>1, <1>2, Distinct DEF ReferencesAreAlive, MenuHolds
  <2> QED BY <2>1, <2>2 DEF ReferencesAreAlive, MenuHolds
<1>10. GrabHasModal' /\ GrabHasView' /\ GrabbedIsTab'
  BY <1>0, <1>1, <1>2, Known DEF GrabHasModal, GrabHasView, GrabbedIsTab
<1> QED BY <1>5, <1>6, <1>7, <1>8, <1>9, <1>10 DEF Inv, WindowsArePlaced, GrabSound

-----------------------------------------------------------------------------
(* Workspaces and monitors.                                                *)

LEMMA SwitchWorkspaceInv ==
  ASSUME Inv, NEW k \in Workspace, SwitchWorkspace(k)
  PROVE  Inv'
<1>0. /\ TypeOK /\ TiledWindowsArePlaced /\ InOneWorkspace /\ NoneBeyond
      /\ ReferencesAreAlive /\ GrabHasModal /\ GrabbedIsTab /\ GrabHasView
  BY DEF Inv, WindowsArePlaced, GrabSound
<1>1. /\ k <= nworkspaces /\ current' = k
      /\ \A c \in Client : owner'[c] = IF view[k][c] # "none" THEN k ELSE owner[c]
      /\ UNCHANGED <<nworkspaces, managed, view, revert_type, grab, modal, fault>>
  BY DEF SwitchWorkspace
<1>2. PICK f \in {c \in Client : view[k][c] # "none"} \cup {Null, Held} :
        /\ active' = [active EXCEPT ![k] = f]
        /\ f = Held => grab.kind = "menu" /\ ~grab.attached /\ grab.ws = k
  BY Distinct DEF SwitchWorkspace
<1>3. \A w \in Workspace : active'[w] = IF w = k THEN f ELSE active[w]
  BY <1>0, <1>2 DEF TypeOK
<1>4. TypeOK'
  <2>1. owner' \in [Client -> Workspace \cup {Held, Null}]
    BY <1>0 DEF TypeOK, SwitchWorkspace
  <2>2. active' \in [Workspace -> Client \cup {Held, Null}]
    BY <1>0, <1>2 DEF TypeOK
  <2>3. k \in 1..nworkspaces
    BY <1>0, <1>1, Known
  <2> QED BY <1>0, <1>1, <2>1, <2>2, <2>3 DEF TypeOK
<1>5. TiledWindowsArePlaced'
  BY <1>1 DEF TiledWindowsArePlaced
<1>6. InOneWorkspace'
  BY <1>0, <1>1 DEF InOneWorkspace
<1>7. NoneBeyond'
  BY <1>0, <1>1, <1>3, Known DEF NoneBeyond
<1>8. ReferencesAreAlive'
  <2>1. ASSUME NEW d \in Client
        PROVE  /\ owner'[d] = Held => MenuHolds(d)'
               /\ owner'[d] \in Workspace => view'[owner'[d]][d] # "none"
    BY <1>0, <1>1, Distinct DEF ReferencesAreAlive, MenuHolds
  <2>2. ASSUME NEW w \in Workspace
        PROVE  /\ active'[w] = Held => grab'.ws = w /\ MenuHolds(grab.client)'
               /\ active'[w] \in Client => view'[w][active'[w]] # "none"
    BY <1>0, <1>1, <1>2, <1>3, Distinct DEF ReferencesAreAlive, MenuHolds
  <2> QED BY <2>1, <2>2 DEF ReferencesAreAlive, MenuHolds
<1>9. GrabHasModal' /\ GrabHasView' /\ GrabbedIsTab'
  BY <1>0, <1>1 DEF GrabHasModal, GrabHasView, GrabbedIsTab
<1> QED BY <1>4, <1>5, <1>6, <1>7, <1>8, <1>9 DEF Inv, WindowsArePlaced, GrabSound

LEMMA LoseMonitorInv ==
  ASSUME Inv, NEW S \in SUBSET (Workspace \X Client), LoseMonitor(S)
  PROVE  Inv'
<1> DEFINE moved(w) == {c \in Client : <<w, c>> \in S}
<1>0. /\ TypeOK /\ TiledWindowsArePlaced /\ InOneWorkspace /\ NoneBeyond
      /\ ReferencesAreAlive /\ GrabHasModal /\ GrabbedIsTab /\ GrabHasView
  BY DEF Inv, WindowsArePlaced, GrabSound
<1>1. /\ \A w \in Workspace, c \in Client : c \in moved(w) => view[w][c] = "tab"
      /\ \A w \in Workspace, c \in Client :
           Grabbed(w, c) /\ c \in moved(w) => \E p \in S : Grabbed(p[1], p[2])
  <2>1. \A p \in S : view[p[1]][p[2]] = "tab"
    BY DEF LoseMonitor
  <2>2. \A w \in Workspace, c \in Client : c \in moved(w) =>
          <<w, c>> \in S /\ <<w, c>>[1] = w /\ <<w, c>>[2] = c
    OBVIOUS
  <2> HIDE DEF moved
  <2>3. ASSUME NEW w \in Workspace, NEW c \in Client, c \in moved(w)
        PROVE  view[w][c] = "tab" /\ (Grabbed(w, c) => \E p \in S : Grabbed(p[1], p[2]))
    <3>1. PICK p \in S : p[1] = w /\ p[2] = c
      BY <2>2, <2>3
    <3>2. view[p[1]][p[2]] = "tab"
      BY <2>1
    <3> QED BY <3>1, <3>2
  <2> QED BY <2>3
<1>2. UNCHANGED <<nworkspaces, current, managed, view, revert_type, modal, fault>>
  BY DEF LoseMonitor
<1>3. owner' = [c \in Client |->
           IF c \in moved(current) THEN current
           ELSE IF owner[c] \in Workspace /\ c \in moved(owner[c]) THEN Gone(owner[c], c)
           ELSE owner[c]]
  BY DEF LoseMonitor
<1>4. /\ active' \in [Workspace -> Client \cup {Held, Null}]
      /\ \A w \in Workspace : IF moved(w) = {} THEN active'[w] = active[w] ELSE active'[w] \in moved(w)
  BY DEF LoseMonitor
<1>5. /\ grab' \in Grabs /\ grab'.kind = grab.kind /\ grab'.client = grab.client
      /\ grab'.ws = grab.ws /\ (grab'.attached => grab.attached)
      /\ (\E p \in S : Grabbed(p[1], p[2])) => ~grab'.attached
  <2>1. PICK target \in {grab.target} \cup (IF grab.target = "alive" THEN {"gone"} ELSE {}),
             dead \in (IF grab.kind = "split" THEN BOOLEAN ELSE {FALSE}) :
               grab' = [grab EXCEPT !.target = target, !.attached =
                          @ /\ ~dead /\ ~\E p \in S : Grabbed(p[1], p[2])]
    BY DEF LoseMonitor
  <2> DEFINE lost == \E p \in S : Grabbed(p[1], p[2])
  <2>2. grab' = [grab EXCEPT !.target = target, !.attached = @ /\ ~dead /\ ~lost]
    BY <2>1
  <2>3. target \in {"none", "alive", "gone"} /\ dead \in BOOLEAN /\ lost \in BOOLEAN
    BY <1>0 DEF TypeOK, Grabs
  <2> HIDE DEF lost
  <2>4. /\ grab' \in Grabs /\ grab'.kind = grab.kind /\ grab'.client = grab.client
        /\ grab'.ws = grab.ws /\ (grab'.attached => grab.attached)
        /\ lost => ~grab'.attached
    BY <1>0, <2>2, <2>3 DEF TypeOK, Grabs
  <2> QED BY <2>4 DEF lost
<1>6. \A w \in Workspace, c \in Client :
        Gone(w, c) = Null \/ (Gone(w, c) = Held /\ Grabbed(w, c) /\ grab.kind = "menu")
  BY DEF Gone
<1>7. current \in Workspace
  BY <1>0, Known
<1> HIDE DEF moved
<1>8. TypeOK'
  <2>1. \A c \in Client : owner[c] \in Workspace => Gone(owner[c], c) \in {Held, Null}
    BY <1>6
  <2>2. owner' \in [Client -> Workspace \cup {Held, Null}]
    BY <1>0, <1>3, <1>7, <2>1 DEF TypeOK
  <2> QED BY <1>0, <1>2, <1>4, <1>5, <2>2 DEF TypeOK
<1>9. TiledWindowsArePlaced'
  <2>1. ASSUME NEW c \in Client, view[current][c] \in {"tab", "floating"}
        PROVE  owner'[c] = current
    BY <1>0, <1>3, <1>7, <2>1 DEF TiledWindowsArePlaced
  <2> QED BY <1>2, <2>1 DEF TiledWindowsArePlaced
<1>10. InOneWorkspace'
  BY <1>0, <1>2 DEF InOneWorkspace
<1>11. NoneBeyond'
  <2>1. ASSUME NEW w \in Workspace, w > nworkspaces
        PROVE  moved(w) = {}
    <3>1. \A c \in Client : view[w][c] = "none"
      BY <1>0, <2>1 DEF NoneBeyond
    <3>2. \A c \in Client : c \notin moved(w)
      BY <1>1, <3>1
    <3> QED BY <3>2 DEF moved
  <2> QED BY <1>0, <1>2, <1>4, <2>1 DEF NoneBeyond
<1>12. ReferencesAreAlive'
  <2>1. ASSUME NEW d \in Client
        PROVE  /\ owner'[d] = Held => MenuHolds(d)'
               /\ owner'[d] \in Workspace => view'[owner'[d]][d] # "none"
    <3>1. CASE d \in moved(current)
      BY <3>1, <1>1, <1>2, <1>3, <1>7, Distinct
    <3>2. CASE d \notin moved(current) /\ owner[d] \in Workspace /\ d \in moved(owner[d])
      <4>1. owner'[d] = Gone(owner[d], d)
        BY <3>2, <1>3
      <4> QED BY <3>2, <4>1, <1>1, <1>5, <1>6, Distinct DEF MenuHolds, Grabbed
    <3>3. CASE d \notin moved(current) /\ ~(owner[d] \in Workspace /\ d \in moved(owner[d]))
      BY <3>3, <1>0, <1>2, <1>3, <1>5 DEF ReferencesAreAlive, MenuHolds
    <3> QED BY <3>1, <3>2, <3>3
  <2>2. ASSUME NEW w \in Workspace
        PROVE  /\ active'[w] = Held => grab'.ws = w /\ MenuHolds(grab.client)'
               /\ active'[w] \in Client => view'[w][active'[w]] # "none"
    <3>1. CASE moved(w) = {}
      BY <3>1, <1>0, <1>2, <1>4, <1>5 DEF ReferencesAreAlive, MenuHolds
    <3>2. CASE moved(w) # {}
      <4>1. active'[w] \in moved(w) /\ active'[w] \in Client
        BY <3>2, <1>4 DEF moved
      <4> QED BY <4>1, <1>1, <1>2, Distinct
    <3> QED BY <3>1, <3>2
  <2> QED BY <2>1, <2>2 DEF ReferencesAreAlive, MenuHolds
<1>13. GrabHasModal' /\ GrabHasView' /\ GrabbedIsTab'
  BY <1>0, <1>2, <1>5 DEF GrabHasModal, GrabHasView, GrabbedIsTab
<1> QED BY <1>8, <1>9, <1>10, <1>11, <1>12, <1>13 DEF Inv, WindowsArePlaced, GrabSound

-----------------------------------------------------------------------------
(* Grabs.                                                                  *)

(* The end of a grab: what the menu held is dropped, and the rest is as    *)
(* the handler left it.                                                    *)
LEMMA GrabStopParts ==
  ASSUME NEW own \in [Client -> Workspace \cup {Held, Null}],
         NEW act \in [Workspace -> Client \cup {Held, Null}],
         GrabStop(own, act)
  PROVE  /\ \A c \in Client : owner'[c] = IF own[c] = Held THEN Null ELSE own[c]
         /\ \A w \in Workspace : active'[w] = IF act[w] = Held THEN Null ELSE act[w]
         /\ owner' \in [Client -> Workspace \cup {Held, Null}]
         /\ active' \in [Workspace -> Client \cup {Held, Null}]
         /\ grab' \in Grabs /\ modal' \in {"none", "page", "shell"}
         /\ GrabHasModal' /\ GrabHasView' /\ GrabbedIsTab'
<1>1. /\ owner' = [c \in Client |-> IF own[c] = Held THEN Null ELSE own[c]]
      /\ active' = [w \in Workspace |-> IF act[w] = Held THEN Null ELSE act[w]]
  BY DEF GrabStop, Dropped
<1>2. /\ grab' \in Grabs /\ grab'.kind = "none" /\ modal' = "none"
  BY DEF GrabStop, NoGrab, Grab, Grabs
<1> QED BY <1>1, <1>2 DEF GrabHasModal, GrabHasView, GrabbedIsTab

(* A grab that ends while the views stay as they are.                      *)
LEMMA GrabStopInv ==
  ASSUME Inv,
         NEW own \in [Client -> Workspace \cup {Held, Null}],
         NEW act \in [Workspace -> Client \cup {Held, Null}],
         GrabStop(own, act),
         UNCHANGED <<nworkspaces, current, managed, view, revert_type, fault>>,
         \A c \in Client : own[c] \in Workspace => view[own[c]][c] # "none",
         \A w \in Workspace : act[w] \in Client => view[w][act[w]] # "none",
         \A c \in Client : view[current][c] \in {"tab", "floating"} => own[c] = current
  PROVE  Inv'
<1>0. /\ TypeOK /\ TiledWindowsArePlaced /\ InOneWorkspace /\ NoneBeyond
      /\ ReferencesAreAlive /\ GrabHasModal /\ GrabbedIsTab /\ GrabHasView
  BY DEF Inv, WindowsArePlaced, GrabSound
<1>1. /\ \A c \in Client : owner'[c] = IF own[c] = Held THEN Null ELSE own[c]
      /\ \A w \in Workspace : active'[w] = IF act[w] = Held THEN Null ELSE act[w]
      /\ owner' \in [Client -> Workspace \cup {Held, Null}]
      /\ active' \in [Workspace -> Client \cup {Held, Null}]
      /\ grab' \in Grabs /\ modal' \in {"none", "page", "shell"}
      /\ GrabHasModal' /\ GrabHasView' /\ GrabbedIsTab'
  BY GrabStopParts
<1>2. TypeOK'
  BY <1>0, <1>1 DEF TypeOK
<1>3. TiledWindowsArePlaced'
  BY <1>0, <1>1, Known, Distinct DEF TiledWindowsArePlaced
<1>4. InOneWorkspace'
  BY <1>0 DEF InOneWorkspace
<1>5. NoneBeyond'
  <2>1. ASSUME NEW w \in Workspace, w > nworkspaces
        PROVE  active'[w] = Null
    <3>1. \A c \in Client : view[w][c] = "none"
      BY <1>0, <2>1 DEF NoneBeyond
    <3> QED BY <1>1, <3>1
  <2> QED BY <1>0, <2>1 DEF NoneBeyond
<1>6. ReferencesAreAlive'
  <2>1. ASSUME NEW d \in Client
        PROVE  owner'[d] # Held /\ (owner'[d] \in Workspace => view'[owner'[d]][d] # "none")
    BY <1>1, Distinct
  <2>2. ASSUME NEW w \in Workspace
        PROVE  active'[w] # Held /\ (active'[w] \in Client => view'[w][active'[w]] # "none")
    BY <1>1, Distinct
  <2> QED BY <2>1, <2>2 DEF ReferencesAreAlive
<1> QED BY <1>1, <1>2, <1>3, <1>4, <1>5, <1>6 DEF Inv, WindowsArePlaced, GrabSound

(* A step that changes the modal or what a grab is over, but not its view. *)
LEMMA GrabInv ==
  ASSUME Inv, UNCHANGED <<nworkspaces, current, viewVars, fault>>,
         modal' \in {"none", "page", "shell"}, grab' \in Grabs,
         \/ grab'.kind = grab.kind /\ grab'.client = grab.client /\ grab'.ws = grab.ws
            /\ grab'.attached = grab.attached
         \/ grab.kind = "none" /\ (grab'.kind \in {"drag", "menu"} =>
               /\ grab'.client \in Client /\ grab'.ws = current
               /\ view[current][grab'.client] = "tab"),
         grab'.kind # "none" => modal' = "page"
  PROVE  Inv'
<1>0. /\ TypeOK /\ TiledWindowsArePlaced /\ InOneWorkspace /\ NoneBeyond
      /\ ReferencesAreAlive /\ GrabHasModal /\ GrabbedIsTab /\ GrabHasView
  BY DEF Inv, WindowsArePlaced, GrabSound
<1>1. UNCHANGED <<nworkspaces, current, managed, view, revert_type, owner, active, fault>>
  BY DEF viewVars
<1>2. TypeOK'
  BY <1>0, <1>1 DEF TypeOK
<1>3. TiledWindowsArePlaced' /\ InOneWorkspace' /\ NoneBeyond'
  BY <1>0, <1>1 DEF TiledWindowsArePlaced, InOneWorkspace, NoneBeyond
<1>4. ReferencesAreAlive'
  BY <1>0, <1>1 DEF ReferencesAreAlive, MenuHolds
<1>5. GrabHasModal' /\ GrabbedIsTab'
  BY <1>0, <1>1 DEF GrabHasModal, GrabbedIsTab
<1>6. GrabHasView'
  BY <1>0, <1>1, Known DEF GrabHasView, TypeOK
<1> QED BY <1>2, <1>3, <1>4, <1>5, <1>6 DEF Inv, WindowsArePlaced, GrabSound

LEMMA ShellModalInv == Inv /\ ShellModal => Inv'
<1> SUFFICES ASSUME Inv, ShellModal PROVE Inv'
  OBVIOUS
<1>1. GrabHasModal /\ TypeOK
  BY DEF Inv, WindowsArePlaced, GrabSound
<1>2. grab' \in Grabs /\ modal' \in {"none", "page", "shell"} /\ grab.kind = "none"
  BY <1>1 DEF TypeOK, ShellModal, GrabHasModal
<1> QED BY <1>2, GrabInv DEF ShellModal

LEMMA PressInv == Inv /\ Press => Inv'
<1> SUFFICES ASSUME Inv, Press PROVE Inv'
  OBVIOUS
<1>1. TypeOK /\ current \in Workspace
  BY Known DEF Inv, WindowsArePlaced
<1>2. UNCHANGED <<nworkspaces, current, viewVars, fault>> /\ grab.kind = "none" /\ modal' = "page"
  BY DEF Press, GrabStart
<1>3. CASE GrabStart(Grab("split", Null, Null, TRUE))
  <2>1. grab' \in Grabs /\ grab'.kind = "split"
    BY <1>3 DEF GrabStart, Grab, Grabs
  <2> QED BY <2>1, <1>2, GrabInv
<1>4. ASSUME NEW c \in Client, NEW kind \in {"drag", "menu"},
             view[current][c] = "tab", GrabStart(Grab(kind, c, current, TRUE))
      PROVE  Inv'
  <2>1. grab' \in Grabs /\ grab'.kind = kind /\ grab'.client = c /\ grab'.ws = current
    BY <1>1, <1>4 DEF GrabStart, Grab, Grabs
  <2> QED BY <2>1, <1>2, <1>4, GrabInv
<1> QED BY <1>3, <1>4 DEF Press

(* What owns and what is active, once nothing but the grab has changed.    *)
LEMMA StopsInv ==
  ASSUME Inv, GrabStop(owner, active),
         UNCHANGED <<nworkspaces, current, managed, view, revert_type, fault>>
  PROVE  Inv'
<1>1. /\ owner \in [Client -> Workspace \cup {Held, Null}]
      /\ active \in [Workspace -> Client \cup {Held, Null}]
      /\ TiledWindowsArePlaced /\ ReferencesAreAlive
  BY DEF Inv, WindowsArePlaced, TypeOK
<1> QED BY <1>1, GrabStopInv DEF TiledWindowsArePlaced, ReferencesAreAlive

LEMMA MotionInv == Inv /\ Motion => Inv'
<1> SUFFICES ASSUME Inv, Motion PROVE Inv'
  OBVIOUS
<1>1. UNCHANGED <<nworkspaces, current, managed, view, revert_type, fault>>
  BY DEF Motion
<1>2. CASE ~grab.attached
  BY <1>1, <1>2, StopsInv DEF Motion
<1>3. CASE grab.attached
  <2>1. grab' = [grab EXCEPT !.target = "alive"] /\ UNCHANGED <<owner, active, modal>>
    BY <1>3 DEF Motion
  <2>2. TypeOK /\ GrabHasModal
    BY DEF Inv, WindowsArePlaced, GrabSound
  <2>3. /\ grab' \in Grabs /\ grab'.kind = grab.kind /\ grab'.client = grab.client
        /\ grab'.ws = grab.ws /\ grab'.attached = grab.attached
    BY <2>1, <2>2 DEF TypeOK, Grabs
  <2>4. modal' \in {"none", "page", "shell"} /\ (grab'.kind # "none" => modal' = "page")
    BY <2>1, <2>2, <2>3 DEF TypeOK, GrabHasModal
  <2> QED BY <1>1, <2>1, <2>3, <2>4, GrabInv DEF viewVars
<1> QED BY <1>2, <1>3

LEMMA ReleaseNothingInv == Inv /\ ReleaseNothing => Inv'
BY StopsInv DEF ReleaseNothing

LEMMA LeaveMenuInv == Inv /\ LeaveMenu => Inv'
<1> SUFFICES ASSUME Inv, LeaveMenu PROVE Inv'
  OBVIOUS
<1>1. UNCHANGED <<nworkspaces, current, managed, view, revert_type, fault>>
  BY DEF LeaveMenu
<1>2. CASE GrabStop(owner, active)
  BY <1>1, <1>2, StopsInv
<1>3. CASE grab' = [grab EXCEPT !.released = TRUE] /\ UNCHANGED <<owner, active, modal>>
  <2>2. TypeOK /\ GrabHasModal
    BY DEF Inv, WindowsArePlaced, GrabSound
  <2>3. /\ grab' \in Grabs /\ grab'.kind = grab.kind /\ grab'.client = grab.client
        /\ grab'.ws = grab.ws /\ grab'.attached = grab.attached
    BY <1>3, <2>2 DEF TypeOK, Grabs
  <2>4. modal' \in {"none", "page", "shell"} /\ (grab'.kind # "none" => modal' = "page")
    BY <1>3, <2>2, <2>3 DEF TypeOK, GrabHasModal
  <2> QED BY <1>1, <1>3, <2>3, <2>4, GrabInv DEF viewVars
<1> QED BY <1>2, <1>3 DEF LeaveMenu

LEMMA ReleaseTabInv == Inv /\ ReleaseTab => Inv'
<1> SUFFICES ASSUME Inv, ReleaseTab PROVE Inv'
  OBVIOUS
<1> DEFINE c == grab.client
           w == grab.ws
<1>0. /\ TypeOK /\ TiledWindowsArePlaced /\ InOneWorkspace /\ NoneBeyond
      /\ ReferencesAreAlive /\ GrabHasModal /\ GrabbedIsTab /\ GrabHasView
  BY DEF Inv, WindowsArePlaced, GrabSound
<1>1. /\ c \in Client /\ w \in Workspace /\ view[w][c] = "tab"
      /\ owner \in [Client -> Workspace \cup {Held, Null}]
      /\ active \in [Workspace -> Client \cup {Held, Null}]
      /\ \A d \in Client : owner[d] \in Workspace => view[owner[d]][d] # "none"
      /\ \A x \in Workspace : active[x] \in Client => view[x][active[x]] # "none"
      /\ \A d \in Client : view[current][d] \in {"tab", "floating"} => owner[d] = current
  BY <1>0, Known DEF ReleaseTab, GrabbedIsTab, GrabHasView, TypeOK, ReferencesAreAlive,
     TiledWindowsArePlaced
<1> HIDE DEF c, w
<1> DEFINE act == [active EXCEPT ![w] = c]
           own == [owner EXCEPT ![c] = IF w = current THEN w ELSE OwnerWithout({w}, c)]
<1>2. /\ act \in [Workspace -> Client \cup {Held, Null}]
      /\ \A x \in Workspace : act[x] \in Client => view[x][act[x]] # "none"
  BY <1>1
<1>3. OwnerWithout({w}, c) = IF owner[c] = w THEN Null ELSE owner[c]
  <2>1. Gone(w, c) = Null
    BY DEF Gone, ReleaseTab
  <2> QED BY <2>1 DEF OwnerWithout
<1>4. /\ own \in [Client -> Workspace \cup {Held, Null}]
      /\ \A d \in Client : own[d] \in Workspace => view[own[d]][d] # "none"
      /\ \A d \in Client : view[current][d] \in {"tab", "floating"} => own[d] = current
  <2>1. \A d \in Client : own[d] = IF d = c THEN IF w = current THEN w
                                                   ELSE IF owner[c] = w THEN Null ELSE owner[c]
                                   ELSE owner[d]
    BY <1>1, <1>3
  <2>2. own \in [Client -> Workspace \cup {Held, Null}]
    BY <1>1, <1>3
  <2>3. \A d \in Client : own[d] \in Workspace => view[own[d]][d] # "none"
    BY <1>1, <2>1, Distinct
  <2>4. \A d \in Client : view[current][d] \in {"tab", "floating"} => own[d] = current
    BY <1>1, <2>1
  <2> QED BY <2>2, <2>3, <2>4
<1>5. \/ /\ \/ GrabStop(owner, act) \/ GrabStop(owner, active) \/ GrabStop(own, act)
         /\ UNCHANGED <<nworkspaces, current, managed, view, revert_type, fault>>
      \/ Fails("null_target")
  BY DEF ReleaseTab, c, w
<1> HIDE DEF act, own
<1>6. CASE Fails("null_target")
  BY <1>6, FailsInv
<1>7. CASE UNCHANGED <<nworkspaces, current, managed, view, revert_type, fault>>
  <2>1. CASE GrabStop(owner, act)
    BY <1>1, <1>2, <1>7, <2>1, GrabStopInv
  <2>2. CASE GrabStop(owner, active)
    BY <1>7, <2>2, StopsInv
  <2>3. CASE GrabStop(own, act)
    BY <1>2, <1>4, <1>7, <2>3, GrabStopInv
  <2> QED BY <1>5, <1>6, <2>1, <2>2, <2>3
<1> QED BY <1>5, <1>6, <1>7

(* What the next lemma asks of the new views and active windows.           *)
SentTo(k, v, act) ==
  /\ Running /\ grab.kind = "menu" /\ k # grab.ws
  /\ SendTo(k, v, owner, act) /\ ~Fails("detached") /\ ~Fails("second_view")
  /\ revert_type' \in [Workspace -> [Client -> {"tab", "floating"}]]
  /\ nworkspaces' \in Workspace /\ nworkspaces <= nworkspaces' /\ k <= nworkspaces'
  /\ \A w \in Workspace : w > nworkspaces' => w > nworkspaces /\ w # k
  /\ \A w \in Workspace : w <= nworkspaces => \A c \in Client : v[w][c] = view[w][c]
  /\ \A w \in Workspace, c \in Client : w > nworkspaces /\ v[w][c] # "none" =>
        w = k /\ c \in Sticky /\ c \in managed
  /\ \A w \in Workspace : act[w] \in Client => v[w][act[w]] # "none"
  /\ \A w \in Workspace : w > nworkspaces /\ w # k => act[w] = Null

(* A window is sent to workspace k, which may have been created for it     *)
(* with views v of windows on all workspaces and act as active windows.    *)
LEMMA SendToInv ==
  ASSUME Inv, NEW k \in Workspace,
         NEW v \in [Workspace -> [Client -> Kind]],
         NEW act \in [Workspace -> Client \cup {Held, Null}],
         SentTo(k, v, act)
  PROVE  Inv'
<1>   /\ Running /\ grab.kind = "menu" /\ k # grab.ws
      /\ SendTo(k, v, owner, act) /\ ~Fails("detached") /\ ~Fails("second_view")
      /\ revert_type' \in [Workspace -> [Client -> {"tab", "floating"}]]
      /\ nworkspaces' \in Workspace /\ nworkspaces <= nworkspaces' /\ k <= nworkspaces'
      /\ \A w \in Workspace : w > nworkspaces' => w > nworkspaces /\ w # k
      /\ \A w \in Workspace : w <= nworkspaces => \A c \in Client : v[w][c] = view[w][c]
      /\ \A w \in Workspace, c \in Client : w > nworkspaces /\ v[w][c] # "none" =>
            w = k /\ c \in Sticky /\ c \in managed
      /\ \A w \in Workspace : act[w] \in Client => v[w][act[w]] # "none"
      /\ \A w \in Workspace : w > nworkspaces /\ w # k => act[w] = Null
  BY DEF SentTo
<1> DEFINE c == grab.client
           w == grab.ws
<1>0. /\ TypeOK /\ TiledWindowsArePlaced /\ InOneWorkspace /\ NoneBeyond
      /\ ReferencesAreAlive /\ GrabHasModal /\ GrabbedIsTab /\ GrabHasView
  BY DEF Inv, WindowsArePlaced, GrabSound
<1>1. /\ c \in Client /\ w \in Workspace /\ w <= nworkspaces /\ k # w /\ v[k][c] = "none"
      /\ view[w][c] = "tab" /\ current \in Workspace /\ current <= nworkspaces
      /\ grab.attached
  <2>1. grab.attached /\ v[k][c] = "none"
    BY DEF SendTo
  <2>2. c \in Client /\ w \in Workspace /\ w <= nworkspaces
    BY <1>0, Known DEF GrabHasView
  <2> QED BY <1>0, <2>1, <2>2, Known DEF GrabbedIsTab
<1> DEFINE own == [owner EXCEPT ![c] = IF k = current THEN k ELSE IF @ = w THEN Null ELSE @]
           ac  == [act EXCEPT ![w] = IF @ = c THEN Null ELSE @, ![k] = c]
<1>2. /\ view' = [v EXCEPT ![w][c] = "none", ![k][c] = "tab"]
      /\ GrabStop(own, ac)
      /\ UNCHANGED <<current, managed, fault>>
  BY DEF SendTo
<1> HIDE DEF c, w
<1>3. \A x \in Workspace, d \in Client :
        view'[x][d] = IF d = c /\ x = k THEN "tab"
                      ELSE IF d = c /\ x = w THEN "none" ELSE v[x][d]
  BY <1>1, <1>2
<1>4. /\ own \in [Client -> Workspace \cup {Held, Null}]
      /\ ac \in [Workspace -> Client \cup {Held, Null}]
      /\ \A d \in Client : own[d] = IF d = c THEN IF k = current THEN k
                                                  ELSE IF owner[c] = w THEN Null ELSE owner[c]
                                    ELSE owner[d]
      /\ \A x \in Workspace : ac[x] = IF x = k THEN c
                                       ELSE IF x = w /\ act[w] = c THEN Null ELSE act[x]
  BY <1>0, <1>1 DEF TypeOK
<1> HIDE DEF own, ac
<1>5. /\ \A d \in Client : owner'[d] = IF own[d] = Held THEN Null ELSE own[d]
      /\ \A x \in Workspace : active'[x] = IF ac[x] = Held THEN Null ELSE ac[x]
      /\ owner' \in [Client -> Workspace \cup {Held, Null}]
      /\ active' \in [Workspace -> Client \cup {Held, Null}]
      /\ grab' \in Grabs /\ modal' \in {"none", "page", "shell"}
      /\ GrabHasModal' /\ GrabHasView' /\ GrabbedIsTab'
  BY <1>2, <1>4, GrabStopParts
<1>6. TypeOK'
  <2>1. view' \in [Workspace -> [Client -> Kind]]
    BY <1>2 DEF Kind
  <2>2. current' \in 1..nworkspaces'
    BY <1>0, <1>2, Known DEF TypeOK
  <2> QED BY <1>0, <1>2, <1>5, <2>1, <2>2 DEF TypeOK
<1>7. TiledWindowsArePlaced'
  <2>1. ASSUME NEW d \in Client, view'[current][d] \in {"tab", "floating"}
        PROVE  owner'[d] = current
    <3>1. CASE d = c /\ k = current
      BY <3>1, <1>1, <1>4, <1>5, Distinct
    <3>2. CASE d # c \/ k # current
      <4>1. view'[current][d] = view[current][d] /\ (d = c => w # current)
        BY <3>2, <2>1, <1>1, <1>3
      <4>2. owner[d] = current
        BY <4>1, <2>1, <1>0 DEF TiledWindowsArePlaced
      <4> QED BY <3>2, <4>1, <4>2, <1>1, <1>4, <1>5, Distinct
    <3> QED BY <3>1, <3>2
  <2> QED BY <1>2, <2>1 DEF TiledWindowsArePlaced
<1>8. InOneWorkspace'
  <2>1. c \in managed
    BY <1>0, <1>1 DEF InOneWorkspace
  <2>2. ASSUME NEW d \in Client, d \notin managed, NEW x \in Workspace
        PROVE  view'[x][d] = "none"
    <3>1. v[x][d] = "none"
      BY <2>2, <1>0, Known DEF InOneWorkspace
    <3> QED BY <3>1, <2>1, <2>2, <1>3
  <2>3. ASSUME NEW d \in Client, d \notin Sticky, NEW x \in Workspace, NEW y \in Workspace,
               view'[x][d] # "none", view'[y][d] # "none"
        PROVE  x = y
    <3>1. \A z \in Workspace : v[z][d] # "none" => view[z][d] # "none"
      BY <2>3, Known, <1>0
    <3>2. CASE d = c
      <4>1. \A z \in Workspace : view'[z][d] # "none" => z = k
        BY <3>1, <3>2, <2>3, <1>0, <1>1, <1>3 DEF InOneWorkspace
      <4> QED BY <4>1, <2>3
    <3>3. CASE d # c
      BY <3>1, <3>3, <2>3, <1>0, <1>3 DEF InOneWorkspace
    <3> QED BY <3>2, <3>3
  <2> QED BY <1>2, <2>2, <2>3 DEF InOneWorkspace
<1>9. NoneBeyond'
  <2>1. ASSUME NEW x \in Workspace, x > nworkspaces'
        PROVE  active'[x] = Null /\ \A d \in Client : view'[x][d] = "none"
    <3>1. x > nworkspaces /\ x # k /\ act[x] = Null /\ \A d \in Client : v[x][d] = "none"
      BY <2>1
    <3> QED BY <3>1, <1>1, <1>3, <1>4, <1>5, Known, Distinct
  <2> QED BY <2>1 DEF NoneBeyond
<1>10. ReferencesAreAlive'
  <2>1. ASSUME NEW d \in Client
        PROVE  owner'[d] # Held /\ (owner'[d] \in Workspace => view'[owner'[d]][d] # "none")
    <3>1. owner'[d] # Held
      BY <1>5, Distinct
    <3>2. ASSUME owner'[d] \in Workspace
          PROVE  view'[owner'[d]][d] # "none"
      <4>1. CASE d = c /\ k = current
        <5>1. own[c] = k /\ k # Held
          BY <4>1, <1>1, <1>4, Distinct
        <5>2. owner'[c] = k
          BY <5>1, <1>1, <1>5
        <5>3. view'[k][c] = "tab"
          BY <1>1, <1>3
        <5> QED BY <4>1, <5>2, <5>3
      <4>2. CASE ~(d = c /\ k = current)
        <5>1. owner'[d] = owner[d] /\ (d = c => owner[d] # w)
          BY <4>2, <3>2, <1>4, <1>5, Distinct
        <5>2. view[owner[d]][d] # "none"
          BY <5>1, <3>2, <1>0 DEF ReferencesAreAlive
        <5>3. owner[d] <= nworkspaces
          BY <5>1, <5>2, <3>2, <1>0, Known DEF NoneBeyond
        <5> QED BY <5>1, <5>2, <5>3, <3>2, <1>3
      <4> QED BY <4>1, <4>2
    <3> QED BY <3>1, <3>2
  <2>2. ASSUME NEW x \in Workspace
        PROVE  active'[x] # Held /\ (active'[x] \in Client => view'[x][active'[x]] # "none")
    <3>1. active'[x] # Held /\ (active'[x] \in Client => active'[x] = ac[x])
      BY <1>5, Distinct
    <3>2. CASE x = k
      <4>1. ac[x] = c
        BY <3>2, <1>4
      <4>2. view'[x][c] = "tab"
        BY <3>2, <1>1, <1>3
      <4> QED BY <3>1, <4>1, <4>2
    <3>3. ASSUME x # k, active'[x] \in Client
          PROVE  view'[x][active'[x]] # "none"
      <4>1. active'[x] = act[x] /\ (x = w => act[x] # c)
        BY <3>1, <3>3, <1>4, Distinct
      <4>2. v[x][act[x]] # "none"
        BY <4>1, <3>3
      <4> QED BY <3>3, <4>1, <4>2, <1>3
    <3> QED BY <3>1, <3>2, <3>3
  <2> QED BY <2>1, <2>2 DEF ReferencesAreAlive
<1> QED BY <1>5, <1>6, <1>7, <1>8, <1>9, <1>10 DEF Inv, WindowsArePlaced, GrabSound

LEMMA ChooseWorkspaceInv ==
  ASSUME Inv, NEW k \in Workspace, ChooseWorkspace(k)
  PROVE  Inv'
<1>1. CASE Fails("detached") \/ Fails("second_view")
  BY <1>1, FailsInv
<1>2. CASE ~Fails("detached") /\ ~Fails("second_view")
  <2>1. TypeOK /\ NoneBeyond /\ ReferencesAreAlive
    BY DEF Inv, WindowsArePlaced
  <2>2. /\ Running /\ grab.kind = "menu" /\ k <= nworkspaces /\ k # grab.ws
        /\ SendTo(k, view, owner, active) /\ UNCHANGED <<nworkspaces, revert_type>>
    BY DEF ChooseWorkspace
  <2>3. /\ view \in [Workspace -> [Client -> Kind]]
        /\ active \in [Workspace -> Client \cup {Held, Null}]
        /\ nworkspaces \in Workspace /\ nworkspaces \in Nat
        /\ revert_type' \in [Workspace -> [Client -> {"tab", "floating"}]]
    BY <2>1, <2>2, Known DEF TypeOK
  <2>4. \A w \in Workspace : active[w] \in Client => view[w][active[w]] # "none"
    BY <2>1 DEF ReferencesAreAlive
  <2>5. \A w \in Workspace : w \in Nat
    BY <2>1, Known
  <2>6. \A w \in Workspace : w > nworkspaces =>
          w # k /\ active[w] = Null /\ \A c \in Client : view[w][c] = "none"
    BY <2>1, <2>2, <2>3, <2>5 DEF NoneBeyond
  <2>7. SentTo(k, view, active)
    BY <1>2, <2>2, <2>3, <2>4, <2>5, <2>6 DEF SentTo
  <2> QED BY <2>3, <2>7, SendToInv
<1> QED BY <1>1, <1>2

LEMMA ChooseNewWorkspaceInv == Inv /\ ChooseNewWorkspace => Inv'
<1> SUFFICES ASSUME Inv, ChooseNewWorkspace PROVE Inv'
  OBVIOUS
<1> DEFINE k      == nworkspaces + 1
           copied == {c \in Sticky : view[current][c] # "none"}
           full   == {c \in copied : view[current][c] = "fullscreen"}
<1>0. /\ TypeOK /\ TiledWindowsArePlaced /\ InOneWorkspace /\ NoneBeyond
      /\ ReferencesAreAlive /\ GrabHasModal /\ GrabbedIsTab /\ GrabHasView
  BY DEF Inv, WindowsArePlaced, GrabSound
<1>1. PICK last \in (IF full = {} THEN {Null} ELSE full), back \in [full -> {"tab", "floating"}],
           a \in copied \cup {Null} :
        /\ SendTo(k, [view EXCEPT ![k] = [c \in Client |->
                         IF c \notin copied THEN "none"
                         ELSE IF c \in full \ {last} THEN back[c] ELSE view[current][c]]],
                  owner, [active EXCEPT ![k] = a])
        /\ revert_type' = IF fault' # "none" THEN revert_type
                          ELSE [revert_type EXCEPT ![k] = [c \in Client |->
                                  IF c \in full THEN back[c] ELSE "floating"]]
  BY DEF ChooseNewWorkspace
<1> DEFINE v == [view EXCEPT ![k] = [c \in Client |->
                         IF c \notin copied THEN "none"
                         ELSE IF c \in full \ {last} THEN back[c] ELSE view[current][c]]]
           act == [active EXCEPT ![k] = a]
<1>2. /\ Running /\ grab.kind = "menu" /\ nworkspaces < MaxWorkspaces
      /\ nworkspaces' = IF fault' # "none" THEN nworkspaces ELSE nworkspaces + 1
  BY DEF ChooseNewWorkspace
<1>3. CASE Fails("detached") \/ Fails("second_view")
  BY <1>3, FailsInv
<1>4. CASE ~Fails("detached") /\ ~Fails("second_view")
  <2>1. /\ k \in Workspace /\ nworkspaces \in Nat /\ current \in Workspace
        /\ grab.ws <= nworkspaces /\ grab.ws \in Nat
        /\ \A w \in Workspace : w \in Nat
        /\ copied \subseteq Client
    BY <1>0, <1>2, Known, ConstantsAssumption DEF Workspace, GrabHasView
  <2>2. SendTo(k, v, owner, act)
    BY <1>1
  <2>3. fault' = "none"
    BY <1>2, <1>4, <2>2 DEF SendTo, Running
  <2>4. /\ v \in [Workspace -> [Client -> Kind]]
        /\ act \in [Workspace -> Client \cup {Held, Null}]
    BY <1>0, <2>1 DEF TypeOK, Kind
  <2>5. revert_type' \in [Workspace -> [Client -> {"tab", "floating"}]]
    BY <1>0, <1>1, <2>1, <2>3 DEF TypeOK
  <2>6. /\ \A w \in Workspace : w # k => act[w] = active[w] /\ v[w] = view[w]
        /\ act[k] = a
        /\ \A c \in Client : v[k][c] # "none" <=> c \in copied
    BY <1>0, <2>1 DEF TypeOK
  <2>7. \A c \in copied : c \in Sticky /\ c \in managed
    BY <1>0, <2>1 DEF InOneWorkspace
  <2>8. nworkspaces' = k
    BY <1>2, <2>3
  <2> HIDE DEF v, act, copied
  <2>9. \A w \in Workspace : act[w] \in Client => v[w][act[w]] # "none"
    BY <1>0, <2>6, Distinct DEF ReferencesAreAlive
  <2>10. \A w \in Workspace : w > nworkspaces /\ w # k =>
           act[w] = Null /\ \A c \in Client : v[w][c] = "none"
    BY <1>0, <2>6 DEF NoneBeyond
  <2>11. \A w \in Workspace : w <= nworkspaces => \A c \in Client : v[w][c] = view[w][c]
    BY <2>1, <2>6
  <2>12. \A w \in Workspace : w > nworkspaces' => w > nworkspaces /\ w # k
    BY <2>1, <2>8
  <2>13. \A w \in Workspace, c \in Client : w > nworkspaces /\ v[w][c] # "none" =>
           w = k /\ c \in Sticky /\ c \in managed
    BY <2>6, <2>7, <2>10
  <2>14. \A w \in Workspace : w > nworkspaces /\ w # k => act[w] = Null
    BY <2>10
  <2>15. /\ k # grab.ws
         /\ nworkspaces' \in Workspace
         /\ nworkspaces <= nworkspaces'
         /\ k <= nworkspaces'
    BY <2>1, <2>8
  <2>16. /\ Running
         /\ grab.kind = "menu"
         /\ ~Fails("detached")
         /\ ~Fails("second_view")
         /\ k \in Workspace
    BY <1>2, <1>4, <2>1
  <2> HIDE DEF k
  <2> QED
    <3>1. SentTo(k, v, act)
      BY <2>2, <2>5, <2>9, <2>11, <2>12, <2>13, <2>14, <2>15, <2>16 DEF SentTo
    <3> QED BY <2>4, <2>16, <3>1, SendToInv
<1> QED BY <1>3, <1>4

-----------------------------------------------------------------------------
(* The invariant is inductive, and holds of every behaviour.               *)
LEMMA NextInv == Inv /\ [Next]_vars => Inv'
<1> SUFFICES ASSUME Inv, [Next]_vars PROVE Inv'
  OBVIOUS
<1>1. CASE UNCHANGED vars
  <2>1. /\ UNCHANGED <<nworkspaces, current, managed, view, revert_type, owner, active>>
        /\ UNCHANGED <<grab, modal, fault>>
    BY <1>1 DEF vars, viewVars
  <2> QED BY <2>1 DEF Inv, WindowsArePlaced, ReferencesAreAlive, GrabSound, TypeOK,
        TiledWindowsArePlaced, InOneWorkspace, NoneBeyond, GrabHasModal, GrabbedIsTab,
        GrabHasView, MenuHolds
<1>2. CASE Next
  BY <1>2, MapWindowInv, UnmanageInv, FocusWindowInv, SwitchViewInv, EnterFullscreenInv,
     LeaveFullscreenInv, SwitchWorkspaceInv, ChooseWorkspaceInv, LoseMonitorInv, ShellModalInv,
     PressInv, MotionInv, ReleaseNothingInv, ReleaseTabInv, LeaveMenuInv,
     ChooseNewWorkspaceInv DEF Next
<1> QED BY <1>1, <1>2

THEOREM InvHolds == Spec => []Inv
BY InitInv, NextInv, PTL DEF Spec

(* Every window on the screen is placed by its view there, whatever was    *)
(* done to it in the other workspaces; a window that is not on all of them *)
(* is in one (page_t, workspace_t, client_managed_t::acquire and release). *)
THEOREM WindowsArePlacedAlways == Spec => []WindowsArePlaced
<1>1. Inv => WindowsArePlaced
  BY DEF Inv
<1> QED BY <1>1, InvHolds, PTL

(* No owner pointer and no active window refers to a view that has been    *)
(* destroyed (client_managed_t::_current_owner_view, _net_active_window).  *)
THEOREM ReferencesAreAliveAlways == Spec => []ReferencesAreAlive
<1>1. Inv => ReferencesAreAlive
  BY DEF Inv
<1> QED BY <1>1, InvHolds, PTL

(* A grab of page has the modal of the plugin, and what it is attached to  *)
(* is a tab (page_t::grab_start, grab_stop, cleanup_grab).                 *)
THEOREM GrabIsSound == Spec => []GrabSound
<1>1. Inv => GrabSound
  BY DEF Inv
<1> QED BY <1>1, InvHolds, PTL

-----------------------------------------------------------------------------
(* The grab helpers.                                                       *)
LEMMA Constants == GH!ConstantsAssumption
  BY ConstantsAssumptions DEF ConstantsAssumptions

(* The operators that GrabHelper has from the community modules.           *)
LEMMA Imported ==
  /\ \A s, k : GH!RemoveAt(s, k) = RemoveAt(s, k)
  /\ \A S : GH!IsFiniteSet(S) = IsFiniteSet(S) /\ GH!Cardinality(S) = Cardinality(S)
<1>1. ASSUME NEW s, NEW k  PROVE GH!RemoveAt(s, k) = RemoveAt(s, k)
  BY DEF RemoveAt, GH!RemoveAt
<1>2. ASSUME NEW S  PROVE GH!IsFiniteSet(S) = IsFiniteSet(S)
  BY DEF IsFiniteSet, GH!IsFiniteSet
<1>3. ASSUME NEW S  PROVE GH!Cardinality(S) = Cardinality(S)
  BY DEF Cardinality, GH!Cardinality
<1> QED BY <1>1, <1>2, <1>3

LEMMA SeqIs ==
  ASSUME NEW S, NEW s \in Seq(S)
  PROVE  /\ DOMAIN s = 1..Len(s) /\ Len(s) \in Nat
         /\ \A i \in 1..Len(s) : s[i] \in S
         /\ \A x : x \in GH!ToSet(s) <=> \E i \in 1..Len(s) : s[i] = x
         /\ GH!ToSet(s) \subseteq S
         /\ s = <<>> <=> Len(s) = 0
  BY DEF GH!ToSet

LEMMA EmptyIs ==
  ASSUME NEW S, NEW s \in Seq(S)
  PROVE  s = <<>> <=> GH!ToSet(s) = {}
<1>1. s = <<>> => GH!ToSet(s) = {}
  BY DEF GH!ToSet
<1>2. ASSUME s # <<>>  PROVE s[1] \in GH!ToSet(s)
  <2>1. 1 \in 1..Len(s)
    BY <1>2, SeqIs
  <2> QED BY <2>1, SeqIs
<1> QED BY <1>1, <1>2

LEMMA Single ==
  ASSUME NEW S, NEW s \in Seq(S), Len(s) <= 1, NEW x \in GH!ToSet(s)
  PROVE  s = <<x>> /\ Len(s) = 1
<1>1. PICK i \in 1..Len(s) : s[i] = x
  BY SeqIs
<1> DEFINE n == Len(s)
<1>2. n \in Nat /\ n <= 1 /\ i \in 1..n
  OBVIOUS
<1> HIDE DEF n
<1>3. n = 1 /\ i = 1
  BY <1>2
<1> QED BY <1>1, <1>3 DEF n

LEMMA Shorter ==
  ASSUME NEW S, NEW s \in Seq(S), NEW t \in Seq(S), s # <<>>, Len(t) = Len(s) - 1
  PROVE  t # <<>> <=> Len(s) > 1
<1>1. Len(s) \in Nat /\ Len(t) \in Nat
  OBVIOUS
<1>2. t # <<>> <=> Len(t) # 0
  BY SeqIs
<1> QED BY <1>1, <1>2

(* The least index of x in s.                                              *)
LEMMA FirstIs ==
  ASSUME NEW S, NEW s \in Seq(S), NEW x \in GH!ToSet(s)
  PROVE  GH!First(s, x) \in 1..Len(s) /\ s[GH!First(s, x)] = x
<1> DEFINE At == {i \in Nat : i \in 1..Len(s) /\ s[i] = x}
<1>1. DOMAIN s = 1..Len(s) /\ Len(s) \in Nat /\ At # {} /\ At \subseteq Nat
  BY SeqIs
<1>2. PICK i \in At : \A j \in At : <<j, i>> \notin OpToRel(<, Nat)
  <2> HIDE DEF At
  <2> QED BY <1>1, NatLessThanWellFounded, WFMin
<1>3. \A j \in DOMAIN s : s[j] = x => i <= j
  <2> TAKE j \in DOMAIN s
  <2> HAVE s[j] = x
  <2>0. j \in Nat /\ j \in 1..Len(s)
    BY <1>1
  <2>1. j \in At /\ i \in Nat
    BY <2>0, <1>2
  <2>2. ~(j < i)
    BY <1>2, <2>1 DEF OpToRel
  <2> QED BY <2>0, <2>1, <2>2
<1>4. i \in DOMAIN s /\ s[i] = x
  BY <1>1, <1>2
<1>5. GH!First(s, x) \in DOMAIN s /\ s[GH!First(s, x)] = x
  BY <1>3, <1>4 DEF GH!First
<1> QED BY <1>1, <1>5

LEMMA Appended ==
  ASSUME NEW S, NEW s \in Seq(S), NEW x \in S
  PROVE  LET t == Append(s, x)
         IN  /\ t \in Seq(S) /\ t # <<>> /\ Len(t) = Len(s) + 1 /\ GH!On(t) = {x}
             /\ GH!ToSet(t) = GH!ToSet(s) \cup {x}
             /\ \A a, b : GH!Below(t, a, b) <=> GH!Below(s, a, b) \/ (a \in GH!ToSet(s) /\ b = x)
<1> DEFINE t == Append(s, x)
           n == Len(s)
<1>1. /\ t \in Seq(S) /\ Len(t) = n + 1 /\ n \in Nat /\ DOMAIN s = 1..n /\ DOMAIN t = 1..(n + 1)
      /\ \A i \in 1..n : t[i] = s[i]
      /\ t[n + 1] = x
  OBVIOUS
<1>2. t # <<>>
  BY <1>1, SeqIs
<1> HIDE DEF t, n
<1>3. \A i \in DOMAIN t : i \in 1..n \/ i = n + 1
  BY <1>1
<1>4. GH!ToSet(t) = GH!ToSet(s) \cup {x}
  BY <1>1, <1>3 DEF GH!ToSet
<1>5. GH!On(t) = {x}
  BY <1>1, <1>2 DEF GH!On, GH!Last
<1>6. ASSUME NEW a, NEW b
      PROVE  GH!Below(t, a, b) <=> GH!Below(s, a, b) \/ (a \in GH!ToSet(s) /\ b = x)
  <2>1. ASSUME GH!Below(t, a, b)
        PROVE  GH!Below(s, a, b) \/ (a \in GH!ToSet(s) /\ b = x)
    <3>1. PICK i \in 1..(n + 1), j \in 1..(n + 1) : i < j /\ t[i] = a /\ t[j] = b
      BY <1>1, <2>1 DEF GH!Below
    <3>2. i \in 1..n /\ s[i] = a
      BY <1>1, <3>1
    <3>3. CASE j = n + 1
      BY <1>1, <3>1, <3>2, <3>3 DEF GH!ToSet
    <3>4. CASE j \in 1..n
      BY <1>1, <3>1, <3>2, <3>4 DEF GH!Below
    <3> QED BY <1>1, <1>3, <3>3, <3>4
  <2>2. ASSUME GH!Below(s, a, b)  PROVE GH!Below(t, a, b)
    <3>1. PICK i \in 1..n, j \in 1..n : i < j /\ s[i] = a /\ s[j] = b
      BY <1>1, <2>2 DEF GH!Below
    <3>2. i \in DOMAIN t /\ j \in DOMAIN t
      BY <1>1
    <3> QED BY <1>1, <3>1, <3>2 DEF GH!Below
  <2>3. ASSUME a \in GH!ToSet(s), b = x  PROVE GH!Below(t, a, b)
    <3>1. PICK i \in 1..n : s[i] = a
      BY <1>1, <2>3 DEF GH!ToSet
    <3>2. i \in DOMAIN t /\ n + 1 \in DOMAIN t /\ i < n + 1
      BY <1>1
    <3> QED BY <1>1, <2>3, <3>1, <3>2 DEF GH!Below
  <2> QED BY <2>1, <2>2, <2>3
<1>7. Len(t) = Len(s) + 1
  BY <1>1 DEF n
<1> QED BY <1>1, <1>2, <1>4, <1>5, <1>6, <1>7 DEF t

(* t is s, in which no element comes twice, without that at k.             *)
LEMMA Without ==
  ASSUME NEW S, NEW s \in Seq(S), \A a \in S : ~GH!Below(s, a, a), NEW k \in 1..Len(s),
         NEW t \in Seq(S), Len(t) = Len(s) - 1,
         \A i \in 1..(Len(s) - 1) : t[i] = IF i < k THEN s[i] ELSE s[i + 1]
  PROVE  /\ GH!ToSet(t) = GH!ToSet(s) \ {s[k]}
         /\ \A a, b : GH!Below(t, a, b) <=> GH!Below(s, a, b) /\ a # s[k] /\ b # s[k]
<1> DEFINE n == Len(s)
           New(i) == IF i < k THEN i ELSE i - 1
<1>1. /\ n \in Nat /\ DOMAIN s = 1..n /\ DOMAIN t = 1..(n - 1) /\ k \in Int
      /\ \A i \in 1..n : s[i] \in S
  OBVIOUS
<1>2. \A i, j \in 1..n : s[i] = s[j] => i = j
  <2> TAKE i, j \in 1..n
  <2> HAVE s[i] = s[j]
  <2>1. ~(i < j) /\ ~(j < i)
    BY <1>1 DEF GH!Below
  <2> QED BY <2>1
<1> HIDE DEF n
<1>3. /\ \A i \in 1..(n - 1) : \E j \in 1..n : j # k /\ i = New(j) /\ t[i] = s[j]
      /\ \A j \in 1..n : j # k => New(j) \in 1..(n - 1) /\ t[New(j)] = s[j]
  <2>1. ASSUME NEW j \in 1..n, j # k
        PROVE  New(j) \in 1..(n - 1) /\ t[New(j)] = s[j]
    <3>1. CASE j < k
      BY <1>1, <2>1, <3>1 DEF n
    <3>2. CASE j > k
      <4>1. j - 1 \in 1..(n - 1) /\ ~(j - 1 < k) /\ (j - 1) + 1 = j /\ ~(j < k)
        BY <1>1, <2>1, <3>2
      <4> QED BY <1>1, <4>1 DEF n
    <3> QED BY <1>1, <2>1, <3>1, <3>2
  <2>2. ASSUME NEW i \in 1..(n - 1)
        PROVE  \E j \in 1..n : j # k /\ i = New(j)
    <3>1. CASE i < k
      BY <1>1, <3>1
    <3>2. CASE ~(i < k)
      <4>1. i + 1 \in 1..n /\ i + 1 # k /\ i = (i + 1) - 1 /\ ~(i + 1 < k)
        BY <1>1, <3>2
      <4> QED BY <4>1
    <3> QED BY <3>1, <3>2
  <2> HIDE DEF New
  <2> QED BY <2>1, <2>2
<1>4. \A i, j \in 1..n : i # k /\ j # k => (i < j <=> New(i) < New(j))
  BY <1>1
<1> HIDE DEF New
<1>5. GH!ToSet(t) = GH!ToSet(s) \ {s[k]}
  <2>1. GH!ToSet(t) = {t[i] : i \in 1..(n - 1)} /\ GH!ToSet(s) = {s[i] : i \in 1..n}
    BY <1>1 DEF GH!ToSet
  <2>2. k \in 1..n
    BY DEF n
  <2> QED BY <1>2, <1>3, <2>1, <2>2
<1>6. ASSUME NEW a, NEW b
      PROVE  GH!Below(t, a, b) <=> GH!Below(s, a, b) /\ a # s[k] /\ b # s[k]
  <2>0. k \in 1..n
    BY DEF n
  <2>1. ASSUME GH!Below(t, a, b)
        PROVE  GH!Below(s, a, b) /\ a # s[k] /\ b # s[k]
    <3>1. PICK i \in 1..(n - 1), j \in 1..(n - 1) : i < j /\ t[i] = a /\ t[j] = b
      BY <1>1, <2>1 DEF GH!Below
    <3>2. PICK p \in 1..n : p # k /\ i = New(p) /\ t[i] = s[p]
      BY <1>3
    <3>3. PICK q \in 1..n : q # k /\ j = New(q) /\ t[j] = s[q]
      BY <1>3
    <3>4. p < q
      BY <1>4, <3>1, <3>2, <3>3
    <3> QED BY <1>1, <1>2, <2>0, <3>1, <3>2, <3>3, <3>4 DEF GH!Below
  <2>2. ASSUME GH!Below(s, a, b), a # s[k], b # s[k]  PROVE GH!Below(t, a, b)
    <3>1. PICK i \in 1..n, j \in 1..n : i < j /\ s[i] = a /\ s[j] = b
      BY <1>1, <2>2 DEF GH!Below
    <3>2. i # k /\ j # k
      BY <2>2, <3>1
    <3> QED BY <1>1, <1>3, <1>4, <3>1, <3>2 DEF GH!Below
  <2> QED BY <2>1, <2>2
<1> QED BY <1>5, <1>6

LEMMA Removed ==
  ASSUME NEW S, NEW s \in Seq(S), NEW x \in GH!ToSet(s)
  PROVE  LET t == GH!RemoveAt(s, GH!First(s, x))
         IN  /\ t \in Seq(S) /\ Len(t) = Len(s) - 1 /\ GH!ToSet(t) \subseteq GH!ToSet(s)
             /\ (\A a \in S : ~GH!Below(s, a, a)) =>
                  /\ GH!ToSet(t) = GH!ToSet(s) \ {x}
                  /\ \A a, b : GH!Below(t, a, b) <=> GH!Below(s, a, b) /\ a # x /\ b # x
<1> DEFINE k == GH!First(s, x)
           t == GH!RemoveAt(s, k)
<1>1. k \in 1..Len(s) /\ s[k] = x
  BY FirstIs
<1> HIDE DEF k
<1>2. /\ t \in Seq(S) /\ Len(t) = Len(s) - 1
      /\ \A i \in 1..(Len(s) - 1) : t[i] = IF i < k THEN s[i] ELSE s[i + 1]
  BY <1>1, RemoveAtElements, Imported
<1> HIDE DEF t
<1>3. ASSUME \A a \in S : ~GH!Below(s, a, a)
      PROVE  /\ GH!ToSet(t) = GH!ToSet(s) \ {s[k]}
             /\ \A a, b : GH!Below(t, a, b) <=> GH!Below(s, a, b) /\ a # s[k] /\ b # s[k]
  BY <1>1, <1>2, <1>3, Without
<1>4. GH!ToSet(t) \subseteq GH!ToSet(s)
  <2> SUFFICES ASSUME NEW y \in GH!ToSet(t) PROVE y \in GH!ToSet(s)
    OBVIOUS
  <2>1. Len(s) \in Nat /\ DOMAIN s = 1..Len(s) /\ k \in Int
    BY <1>1
  <2>2. PICK i \in 1..(Len(s) - 1) : t[i] = y
    BY <1>2, <2>1, SeqIs
  <2>3. i \in DOMAIN s /\ i + 1 \in DOMAIN s
    BY <2>1
  <2> QED BY <1>2, <2>2, <2>3 DEF GH!ToSet
<1> QED BY <1>1, <1>2, <1>3, <1>4 DEF t, k

LEMMA Fronted ==
  ASSUME NEW S, NEW s \in Seq(S), s # <<>>
  PROVE  LET t == GH!Front(s)
         IN  /\ t \in Seq(S) /\ GH!Last(s) \in S /\ GH!On(s) = {GH!Last(s)} /\ GH!Last(s) \in GH!ToSet(s)
             /\ (\A a \in S : ~GH!Below(s, a, a)) =>
                  /\ GH!ToSet(t) = GH!ToSet(s) \ {GH!Last(s)}
                  /\ \A a, b : GH!Below(t, a, b) <=> GH!Below(s, a, b) /\ a # GH!Last(s) /\ b # GH!Last(s)
<1> DEFINE n == Len(s)
           t == GH!Front(s)
<1>1. n \in Nat /\ n > 0 /\ n \in 1..n /\ GH!Last(s) = s[n] /\ s[n] \in S /\ DOMAIN s = 1..n
  BY SeqIs DEF GH!Last
<1>2. t = SubSeq(s, 1, n - 1)
  BY DEF GH!Front
<1>3. t \in Seq(S) /\ Len(t) = n - 1 /\ \A i \in 1..(n - 1) : t[i] = s[i]
  BY <1>1, <1>2
<1> HIDE DEF t
<1>4. \A i \in 1..(n - 1) : t[i] = IF i < n THEN s[i] ELSE s[i + 1]
  BY <1>1, <1>3
<1>5. ASSUME \A a \in S : ~GH!Below(s, a, a)
      PROVE  /\ GH!ToSet(t) = GH!ToSet(s) \ {s[n]}
             /\ \A a, b : GH!Below(t, a, b) <=> GH!Below(s, a, b) /\ a # s[n] /\ b # s[n]
  BY <1>1, <1>3, <1>4, <1>5, Without
<1>6. GH!Last(s) \in GH!ToSet(s) /\ GH!On(s) = {GH!Last(s)}
  BY <1>1 DEF GH!ToSet, GH!On
<1> QED BY <1>1, <1>3, <1>5, <1>6 DEF t


(* A world whose helper h gives up its only grab.                          *)
LEMMA Popped ==
  ASSUME NEW w \in GH!Worlds, NEW a \in GH!ToSet(w.modal)
  PROVE  LET r == GH!PopModal(w, a)
         IN  /\ r \in GH!Worlds
             /\ r = [w EXCEPT !.modal = GH!RemoveAt(w.modal, GH!First(w.modal, a)),
                              !.begun = w.begun /\ Len(w.modal) > 1]
<1>1. w.modal \in Seq(Helper \cup Other) /\ w.begun \in BOOLEAN
  BY DEF GH!Worlds
<1>2. GH!RemoveAt(w.modal, GH!First(w.modal, a)) \in Seq(Helper \cup Other)
  BY <1>1, Removed
<1> QED BY <1>1, <1>2 DEF GH!PopModal, GH!Worlds

LEMMA Released ==
  ASSUME NEW w \in GH!Worlds, NEW h \in Helper, w.count[h] = 1, ~w.stop
  PROVE  LET r == GH!_releaseModalGrab(w, h)
             top == GH!On(w.helpers) = {h} /\ h \in GH!ToSet(w.modal)
         IN  /\ r \in GH!Worlds
             /\ r.grabs = w.grabs /\ r.open = w.open
             /\ r.count = [w.count EXCEPT ![h] = 0]
             /\ w.thrown \subseteq r.thrown
             /\ GH!ToSet(r.modal) \subseteq GH!ToSet(w.modal)
             /\ ~top => r.thrown # {}
             /\ top => /\ r.thrown = w.thrown /\ r.stop = w.stop
                       /\ r.helpers = GH!Front(w.helpers)
                       /\ r.modal = GH!RemoveAt(w.modal, GH!First(w.modal, h))
                       /\ r.begun = (w.begun /\ Len(w.modal) > 1)
<1> DEFINE less == [w EXCEPT !.count[h] = @ - 1]
           popped == GH!_popGrabHelper(less, h)
           free == [popped EXCEPT !.ignore = @ \ {h}]
           r == GH!_releaseModalGrab(w, h)
<1>1. /\ w.helpers \in Seq(Helper) /\ w.modal \in Seq(Helper \cup Other)
      /\ w.thrown \in SUBSET {"helper", "pop"} /\ w.count \in [Helper -> Nat]
      /\ w.ignore \in SUBSET Helper
  BY DEF GH!Worlds
<1>2. less \in GH!Worlds /\ less = [w EXCEPT !.count = [w.count EXCEPT ![h] = 0]]
  <2>1. less = [w EXCEPT !.count = [w.count EXCEPT ![h] = w.count[h] - 1]]
    BY <1>1 DEF GH!Worlds
  <2>2. w.count[h] - 1 = 0
    OBVIOUS
  <2>3. less = [w EXCEPT !.count = [w.count EXCEPT ![h] = 0]]
    BY <2>1, <2>2
  <2>4. [w.count EXCEPT ![h] = 0] \in [Helper -> Nat]
    BY <1>1
  <2> HIDE DEF less
  <2> QED BY <2>3, <2>4 DEF GH!Worlds
<1>3. less.count[h] = 0
  BY <1>1, <1>2 DEF GH!Worlds
<1>4. w.helpers # <<>> => GH!Front(w.helpers) \in Seq(Helper)
  BY <1>1, Fronted
<1>5. CASE GH!On(w.helpers) # {h}
  <2>1. popped = [(IF w.helpers = <<>> THEN less ELSE [less EXCEPT !.helpers = GH!Front(w.helpers)])
                   EXCEPT !.thrown = w.thrown \cup {"helper"}, !.stop = TRUE]
    BY <1>2, <1>5 DEF GH!_popGrabHelper, GH!Worlds
  <2>2. popped \in GH!Worlds /\ popped.stop
    <3> DEFINE base == IF w.helpers = <<>> THEN less
                       ELSE [less EXCEPT !.helpers = GH!Front(w.helpers)]
    <3>1. base \in GH!Worlds
      BY <1>1, <1>2, <1>4 DEF GH!Worlds
    <3>2. popped = [base EXCEPT !.thrown = w.thrown \cup {"helper"}, !.stop = TRUE]
      BY <2>1
    <3>3. w.thrown \cup {"helper"} \in SUBSET {"helper", "pop"}
      BY <1>1
    <3> HIDE DEF base, popped, less
    <3> QED BY <3>1, <3>2, <3>3 DEF GH!Worlds
  <2>3. r = popped
    BY <1>3, <2>2 DEF GH!_releaseModalGrab
  <2>4. /\ popped.grabs = w.grabs /\ popped.open = w.open
        /\ popped.count = [w.count EXCEPT ![h] = 0]
        /\ popped.thrown = w.thrown \cup {"helper"} /\ popped.modal = w.modal
    BY <1>2, <2>1, ZenonT(40) DEF GH!Worlds
  <2> HIDE DEF popped, less
  <2> QED BY <1>5, <2>2, <2>3, <2>4
<1>6. CASE GH!On(w.helpers) = {h}
  <2>1. w.helpers # <<>>
    BY <1>6 DEF GH!On
  <2>2. popped = [less EXCEPT !.helpers = GH!Front(w.helpers)]
    BY <1>2, <1>6, <2>1 DEF GH!_popGrabHelper, GH!Worlds
  <2>3. popped \in GH!Worlds
    BY <1>1, <1>2, <1>4, <2>1, <2>2 DEF GH!Worlds
  <2>4. free \in GH!Worlds /\ free = [popped EXCEPT !.ignore = w.ignore \ {h}]
    BY <1>1, <1>2, <2>2, <2>3 DEF GH!Worlds
  <2>5. /\ free.grabs = w.grabs /\ free.open = w.open
        /\ free.count = [w.count EXCEPT ![h] = 0]
        /\ free.thrown = w.thrown /\ free.modal = w.modal /\ free.stop = w.stop
        /\ free.helpers = GH!Front(w.helpers) /\ free.begun = w.begun
        /\ popped.stop = w.stop
    BY <1>2, <2>2, <2>4, ZenonT(40) DEF GH!Worlds
  <2>6. r = GH!PopModal(free, h)
    BY <1>3, <2>5 DEF GH!_releaseModalGrab
  <2> HIDE DEF free, popped, less, r
  <2>7. CASE h \in GH!ToSet(w.modal)
    <3>0. h \in GH!ToSet(free.modal)
      BY <2>5, <2>7
    <3>1. r \in GH!Worlds
      BY <2>4, <2>6, <3>0, Popped
    <3>2. r = [free EXCEPT !.modal = GH!RemoveAt(w.modal, GH!First(w.modal, h)),
                           !.begun = w.begun /\ Len(w.modal) > 1]
      <4>1. r = [free EXCEPT !.modal = GH!RemoveAt(free.modal, GH!First(free.modal, h)),
                             !.begun = free.begun /\ Len(free.modal) > 1]
        BY <2>4, <2>6, <3>0, Popped
      <4> QED BY <2>5, <4>1
    <3>3. /\ r.grabs = w.grabs /\ r.open = w.open /\ r.count = [w.count EXCEPT ![h] = 0]
          /\ r.thrown = w.thrown /\ r.stop = w.stop /\ r.helpers = GH!Front(w.helpers)
          /\ r.modal = GH!RemoveAt(w.modal, GH!First(w.modal, h))
          /\ r.begun = (w.begun /\ Len(w.modal) > 1)
      BY <2>4, <2>5, <3>2 DEF GH!Worlds
    <3>4. GH!ToSet(r.modal) \subseteq GH!ToSet(w.modal)
      BY <1>1, <2>7, <3>3, Removed
    <3> QED BY <1>6, <2>7, <3>1, <3>3, <3>4 DEF r
  <2>8. CASE h \notin GH!ToSet(w.modal)
    <3>1. r = [free EXCEPT !.begun = FALSE, !.thrown = w.thrown \cup {"pop"}, !.stop = TRUE]
      BY <2>4, <2>5, <2>6, <2>8 DEF GH!PopModal, GH!Worlds
    <3>2. /\ r \in GH!Worlds
          /\ r.grabs = w.grabs /\ r.open = w.open /\ r.count = [w.count EXCEPT ![h] = 0]
          /\ r.thrown = w.thrown \cup {"pop"} /\ r.modal = w.modal
      BY <1>1, <2>4, <2>5, <3>1 DEF GH!Worlds
    <3> QED BY <2>8, <3>2 DEF r
  <2> QED BY <2>7, <2>8
<1> QED BY <1>5, <1>6


(* What becomes of w when h gives up its only grab.                        *)
OnTop(w, h) == GH!On(w.helpers) = {h} /\ h \in GH!ToSet(w.modal)

GivesUp(w, r, h) ==
  /\ r \in GH!Worlds /\ ~r.stop
  /\ r.grabs = [w.grabs EXCEPT ![h] = <<>>]
  /\ r.count = [w.count EXCEPT ![h] = 0]
  /\ w.thrown \subseteq r.thrown
  /\ GH!ToSet(r.modal) \subseteq GH!ToSet(w.modal)
  /\ ~OnTop(w, h) => r.thrown # {}
  /\ OnTop(w, h) => /\ r.thrown = w.thrown
                    /\ r.helpers = GH!Front(w.helpers)
                    /\ r.modal = GH!RemoveAt(w.modal, GH!First(w.modal, h))
                    /\ r.begun = (w.begun /\ Len(w.modal) > 1)

LEMMA Ungrabbed ==
  ASSUME NEW w \in GH!Worlds, NEW h \in Helper, NEW x \in GH!Target, NEW isUser \in BOOLEAN,
         w.grabs[h] = <<x>>, w.count[h] = 1, ~w.stop
  PROVE  /\ GivesUp(w, GH!ungrab(w, h, x, isUser), h)
         /\ GH!ungrab(w, h, x, isUser).open = GH!onUngrab(w, x, isUser).open
<1> DEFINE s == w.grabs[h]
           k == GH!First(s, x)
           left == [w EXCEPT !.grabs[h] = SubSeq(@, 1, k - 1)]
           After(g, n) == IF n = 0 THEN left
                          ELSE IF g[n - 1].stop THEN g[n - 1]
                          ELSE GH!_releaseModalGrab(GH!onUngrab(g[n - 1], s[Len(s) - n + 1], isUser), h)
           popped == CHOOSE g : g = [n \in 0..(Len(s) - k + 1) |-> After(g, n)]
           r == GH!ungrab(w, h, x, isUser)
           o == IF isUser \/ x \in Popup THEN w.open \ {x} ELSE w.open
           end == GH!onUngrab(left, x, isUser)
           v == GH!_releaseModalGrab(end, h)
<1>1. /\ s = <<x>> /\ Len(s) = 1 /\ s[1] = x /\ DOMAIN s = 1..1 /\ x \in GH!ToSet(s)
      /\ s \in Seq(GH!Target)
  BY DEF GH!ToSet, GH!Worlds
<1>2. k = 1
  <2>1. k \in 1..Len(s)
    BY <1>1, FirstIs
  <2> QED BY <1>1, <2>1
<1>3. left = [w EXCEPT !.grabs = [w.grabs EXCEPT ![h] = <<>>]] /\ left \in GH!Worlds
  <2>1. SubSeq(w.grabs[h], 1, k - 1) = <<>>
    BY <1>1, <1>2
  <2>2. <<>> \in Seq(GH!Target) /\ w.grabs \in [Helper -> Seq(GH!Target)]
    BY DEF GH!Worlds
  <2>3. left = [w EXCEPT !.grabs = [w.grabs EXCEPT ![h] = <<>>]]
    BY <2>1
  <2>4. [w.grabs EXCEPT ![h] = <<>>] \in [Helper -> Seq(GH!Target)]
    BY <2>2
  <2> HIDE DEF left
  <2> QED BY <2>3, <2>4 DEF GH!Worlds
<1>4. GH!IsGrabbed(w, h, x)
  BY <1>1 DEF GH!IsGrabbed
<1>5. r = [popped[Len(s) - k + 1] EXCEPT !.stop = FALSE]
  BY <1>4 DEF GH!ungrab
<1>6. Len(s) - k + 1 = 1
  BY <1>1, <1>2
<1> HIDE DEF s, k, left, r
<1>7. popped = [n \in 0..1 |-> After(popped, n)]
  <2> DEFINE g == [n \in 0..1 |-> IF n = 0 THEN left ELSE After([m \in 0..0 |-> left], n)]
  <2>1. g = [n \in 0..1 |-> After(g, n)]
    <3>1. \A n \in 0..1 : n = 0 \/ n = 1
      OBVIOUS
    <3>2. g[0] = left /\ [m \in 0..0 |-> left][0] = left
      OBVIOUS
    <3>3. \A n \in 0..1 : g[n] = After(g, n)
      BY <3>1, <3>2
    <3> QED BY <3>3
  <2>2. \E f : f = [n \in 0..1 |-> After(f, n)]
    BY <2>1
  <2> HIDE DEF After
  <2> QED BY <1>6, <2>2
<1>8. popped[0] = left /\ popped[1] = After(popped, 1)
  <2> HIDE DEF popped, After
  <2>1. popped[0] = After(popped, 0)
    BY <1>7
  <2>2. popped[1] = After(popped, 1)
    BY <1>7
  <2> QED BY <2>1, <2>2 DEF After
<1>9. end = [left EXCEPT !.open = o] /\ end \in GH!Worlds /\ ~left.stop
  <2>1. left.open = w.open /\ w.open \in SUBSET GH!Target /\ left.stop = w.stop
    BY <1>3 DEF GH!Worlds
  <2>2. end = [left EXCEPT !.open = o]
    BY <1>3, <2>1 DEF GH!onUngrab, GH!Worlds
  <2> HIDE DEF end
  <2> QED BY <1>3, <2>1, <2>2 DEF GH!Worlds
<1>10. popped[1] = v
  <2> HIDE DEF popped, end
  <2>1. popped[1 - 1] = left /\ s[Len(s) - 1 + 1] = x
    BY <1>1, <1>8
  <2>2. popped[1] = GH!_releaseModalGrab(GH!onUngrab(popped[1 - 1], s[Len(s) - 1 + 1], isUser), h)
    BY <1>8, <1>9, <2>1
  <2>3. popped[1] = GH!_releaseModalGrab(GH!onUngrab(left, x, isUser), h)
    BY <2>1, <2>2
  <2> QED BY <2>3 DEF end
<1>11. r = [v EXCEPT !.stop = FALSE]
  BY <1>5, <1>6, <1>10
<1>12. /\ end.grabs = [w.grabs EXCEPT ![h] = <<>>] /\ end.open = o /\ end.count = w.count
       /\ end.thrown = w.thrown /\ end.modal = w.modal /\ end.helpers = w.helpers
       /\ end.begun = w.begun /\ ~end.stop
  BY <1>3, <1>9 DEF GH!Worlds
<1> HIDE DEF popped, end, o
<1>13. LET top == GH!On(w.helpers) = {h} /\ h \in GH!ToSet(w.modal)
       IN  /\ v \in GH!Worlds
           /\ v.grabs = [w.grabs EXCEPT ![h] = <<>>] /\ v.open = o
           /\ v.count = [w.count EXCEPT ![h] = 0]
           /\ w.thrown \subseteq v.thrown
           /\ GH!ToSet(v.modal) \subseteq GH!ToSet(w.modal)
           /\ ~top => v.thrown # {}
           /\ top => /\ v.thrown = w.thrown /\ v.helpers = GH!Front(w.helpers)
                     /\ v.modal = GH!RemoveAt(w.modal, GH!First(w.modal, h))
                     /\ v.begun = (w.begun /\ Len(w.modal) > 1)
  <2>1. end.count[h] = 1
    BY <1>12
  <2> DEFINE top == GH!On(end.helpers) = {h} /\ h \in GH!ToSet(end.modal)
  <2>2. /\ v \in GH!Worlds /\ v.grabs = end.grabs /\ v.open = end.open
        /\ v.count = [end.count EXCEPT ![h] = 0]
        /\ end.thrown \subseteq v.thrown /\ GH!ToSet(v.modal) \subseteq GH!ToSet(end.modal)
        /\ ~top => v.thrown # {}
        /\ top => /\ v.thrown = end.thrown /\ v.helpers = GH!Front(end.helpers)
                  /\ v.modal = GH!RemoveAt(end.modal, GH!First(end.modal, h))
                  /\ v.begun = (end.begun /\ Len(end.modal) > 1)
    BY <1>9, <1>12, <2>1, Released
  <2> HIDE DEF v
  <2> QED BY <1>12, <2>2
<1> HIDE DEF v
<1>14. /\ r \in GH!Worlds /\ ~r.stop
       /\ r.grabs = v.grabs /\ r.open = v.open /\ r.count = v.count /\ r.thrown = v.thrown
       /\ r.modal = v.modal /\ r.helpers = v.helpers /\ r.begun = v.begun
  BY <1>11, <1>13 DEF GH!Worlds
<1>15. r.open = GH!onUngrab(w, x, isUser).open
  BY <1>13, <1>14 DEF o, GH!onUngrab, GH!Worlds
<1> QED BY <1>13, <1>14, <1>15 DEF r, GivesUp, OnTop


Good(w, live) == w \in GH!Worlds /\ ~w.stop /\ GH!GrabbedIsOpen(w, live)

LEMMA OnlyGrab ==
  ASSUME NEW w, NEW live, Good(w, live), NEW h \in Helper, NEW x \in GH!ToSet(w.grabs[h])
  PROVE  /\ w.grabs[h] = <<x>> /\ w.count[h] = 1
         /\ x \in GH!Target /\ HelperOf[x] = h /\ x \in w.open \cap live
<1>1. w.grabs[h] \in Seq(GH!Target)
  BY DEF Good, GH!Worlds
<1>2. /\ GH!ToSet(w.grabs[h]) \subseteq {y \in w.open \cap live : HelperOf[y] = h}
      /\ w.count[h] = Len(w.grabs[h]) /\ Len(w.grabs[h]) <= 1
  BY DEF Good, GH!GrabbedIsOpen
<1>3. w.grabs[h] = <<x>> /\ Len(w.grabs[h]) = 1
  BY <1>1, <1>2, Single
<1>4. x \in GH!Target
  BY <1>1, SeqIs
<1> QED BY <1>1, <1>2, <1>3, <1>4

(* The helper on top goes, and its modal with it.                          *)
LEMMA PopsInStep ==
  ASSUME NEW w \in GH!Worlds, NEW r \in GH!Worlds, GH!InStep(w), w.thrown = {},
         NEW h \in Helper, GH!On(w.helpers) = {h}, h \in GH!ToSet(w.modal),
         r.grabs = [w.grabs EXCEPT ![h] = <<>>],
         r.count = [w.count EXCEPT ![h] = 0],
         r.helpers = GH!Front(w.helpers),
         r.modal = GH!RemoveAt(w.modal, GH!First(w.modal, h)),
         r.begun = (w.begun /\ Len(w.modal) > 1)
  PROVE  GH!InStep(r)
<1>1. /\ w.helpers \in Seq(Helper) /\ w.modal \in Seq(Helper \cup Other)
      /\ w.count \in [Helper -> Nat] /\ w.grabs \in [Helper -> Seq(GH!Target)]
  BY DEF GH!Worlds
<1>2. /\ \A a \in Helper \cup Other : ~GH!Below(w.modal, a, a)
      /\ GH!ToSet(w.helpers) = GH!ToSet(w.modal) \cap Helper
      /\ \A a, b \in Helper : GH!Below(w.helpers, a, b) <=> GH!Below(w.modal, a, b)
      /\ \A g \in Helper : g \in GH!ToSet(w.modal) <=> w.count[g] > 0
      /\ \A m \in Menu : GH!IsGrabbed(w, HelperOf[m], m) => GH!On(w.helpers) = {HelperOf[m]}
      /\ w.begun <=> w.modal # <<>>
  BY DEF GH!InStep
<1>3. w.helpers # <<>> /\ GH!Last(w.helpers) = h
  BY DEF GH!On
<1>4. /\ r.modal \in Seq(Helper \cup Other) /\ Len(r.modal) = Len(w.modal) - 1
      /\ GH!ToSet(r.modal) = GH!ToSet(w.modal) \ {h}
      /\ \A a, b : GH!Below(r.modal, a, b) <=> GH!Below(w.modal, a, b) /\ a # h /\ b # h
  <2> DEFINE s == w.modal
             t == GH!RemoveAt(s, GH!First(s, h))
             S == Helper \cup Other
  <2>1. s \in Seq(S) /\ h \in GH!ToSet(s) /\ \A a \in S : ~GH!Below(s, a, a)
    BY <1>1, <1>2
  <2> HIDE DEF s, S
  <2>2. /\ t \in Seq(S) /\ Len(t) = Len(s) - 1 /\ GH!ToSet(t) = GH!ToSet(s) \ {h}
        /\ \A a, b : GH!Below(t, a, b) <=> GH!Below(s, a, b) /\ a # h /\ b # h
    BY <2>1, Removed
  <2> QED BY <2>2 DEF s, S
<1>5. /\ GH!ToSet(r.helpers) = GH!ToSet(w.helpers) \ {h}
      /\ \A a, b : GH!Below(r.helpers, a, b) <=> GH!Below(w.helpers, a, b) /\ a # h /\ b # h
  <2> DEFINE s == w.helpers
             t == GH!Front(s)
  <2>1. s \in Seq(Helper) /\ s # <<>> /\ GH!Last(s) = h /\ \A a \in Helper : ~GH!Below(s, a, a)
    BY <1>1, <1>2, <1>3
  <2> HIDE DEF s
  <2>2. /\ GH!ToSet(t) = GH!ToSet(s) \ {GH!Last(s)}
        /\ \A a, b : GH!Below(t, a, b) <=> GH!Below(s, a, b) /\ a # GH!Last(s) /\ b # GH!Last(s)
    BY <2>1, Fronted
  <2> QED BY <2>1, <2>2 DEF s
<1>6. ASSUME NEW g \in Helper  PROVE g \in GH!ToSet(r.modal) <=> r.count[g] > 0
  BY <1>1, <1>2, <1>4
<1>7. ASSUME NEW m \in Menu, GH!IsGrabbed(r, HelperOf[m], m)
      PROVE  GH!On(r.helpers) = {HelperOf[m]}
  <2>1. HelperOf[m] \in Helper
    BY Constants DEF GH!ConstantsAssumption, GH!Target
  <2>2. HelperOf[m] # h
    BY <1>1, <1>7 DEF GH!IsGrabbed, GH!ToSet
  <2>3. GH!IsGrabbed(w, HelperOf[m], m)
    BY <1>1, <1>7, <2>1, <2>2 DEF GH!IsGrabbed
  <2> QED BY <1>2, <2>2, <2>3
<1>8. r.begun <=> r.modal # <<>>
  <2> DEFINE s == w.modal
             t == r.modal
  <2>1. s # <<>> /\ Len(s) \in Nat
    BY <1>1 DEF GH!ToSet
  <2>2. t \in Seq(Helper \cup Other) /\ Len(t) = Len(s) - 1
    BY <1>4
  <2> HIDE DEF s, t
  <2>3. t # <<>> <=> Len(s) > 1
    BY <1>1, <2>1, <2>2, Shorter DEF s
  <2> QED BY <1>2, <2>1, <2>3 DEF s, t
<1> QED BY <1>2, <1>4, <1>5, <1>6, <1>7, <1>8 DEF GH!InStep

(* What becomes of w, if the menus of M are closed.                        *)
Keeps(w, r, M, live) ==
  /\ Good(r, live)
  /\ r.open = w.open \ M
  /\ w.thrown \subseteq r.thrown
  /\ GH!ToSet(r.modal) \subseteq GH!ToSet(w.modal)
  /\ GH!InStep(w) => GH!InStep(r) /\ (w.thrown = {} => r.thrown = {})
  /\ \A h \in Helper : (\A m \in Menu : HelperOf[m] # h) => r.grabs[h] = w.grabs[h]

(* What becomes of w, if x gives up the grab it has from h.                *)
Ungrabs(w, r, h, x, live) ==
  /\ Good(r, live)
  /\ r.open = w.open \ {x}
  /\ r.grabs = [w.grabs EXCEPT ![h] = <<>>]
  /\ w.thrown \subseteq r.thrown
  /\ GH!ToSet(r.modal) \subseteq GH!ToSet(w.modal)
  /\ GH!InStep(w) => GH!InStep(r)
  /\ GH!InStep(w) /\ w.thrown = {} /\ GH!On(w.helpers) = {h} => r.thrown = {}
  /\ h \notin GH!ToSet(w.modal) => r.thrown # {}

LEMMA UngrabGood ==
  ASSUME NEW w, NEW live, Good(w, live), NEW h \in Helper, NEW x \in GH!ToSet(w.grabs[h]),
         NEW isUser \in BOOLEAN, NEW open,
         open = w.open \ {x} \/ (open = w.open /\ (isUser \/ x \in Popup))
  PROVE  Ungrabs(w, GH!ungrab([w EXCEPT !.open = open], h, x, isUser), h, x, live)
<1> DEFINE base == [w EXCEPT !.open = open]
           r == GH!ungrab(base, h, x, isUser)
           top == GH!On(w.helpers) = {h} /\ h \in GH!ToSet(w.modal)
<1>1. /\ w.grabs[h] = <<x>> /\ w.count[h] = 1
      /\ x \in GH!Target /\ HelperOf[x] = h /\ x \in w.open \cap live
  BY OnlyGrab
<1>2. /\ w \in GH!Worlds /\ ~w.stop /\ GH!GrabbedIsOpen(w, live) /\ open \in SUBSET GH!Target
      /\ w.grabs \in [Helper -> Seq(GH!Target)] /\ w.count \in [Helper -> Nat]
  BY DEF Good, GH!Worlds
<1>3. /\ base \in GH!Worlds /\ ~base.stop /\ base.grabs = w.grabs /\ base.count = w.count
      /\ base.open = open /\ base.thrown = w.thrown /\ base.modal = w.modal
      /\ base.helpers = w.helpers /\ base.begun = w.begun
  BY <1>2 DEF GH!Worlds
<1> HIDE DEF base
<1>4. /\ r \in GH!Worlds /\ ~r.stop
      /\ r.grabs = [w.grabs EXCEPT ![h] = <<>>]
      /\ r.open = IF isUser \/ x \in Popup THEN open \ {x} ELSE open
      /\ r.count = [w.count EXCEPT ![h] = 0]
      /\ w.thrown \subseteq r.thrown
      /\ GH!ToSet(r.modal) \subseteq GH!ToSet(w.modal)
      /\ ~top => r.thrown # {}
      /\ top => /\ r.thrown = w.thrown
                /\ r.helpers = GH!Front(w.helpers)
                /\ r.modal = GH!RemoveAt(w.modal, GH!First(w.modal, h))
                /\ r.begun = (w.begun /\ Len(w.modal) > 1)
  <2>1. base.grabs[h] = <<x>> /\ base.count[h] = 1
    BY <1>1, <1>3
  <2>2. GivesUp(base, r, h) /\ r.open = GH!onUngrab(base, x, isUser).open
    BY <1>1, <1>3, <2>1, Ungrabbed, Zenon
  <2>3. r.open = IF isUser \/ x \in Popup THEN open \ {x} ELSE open
    BY <1>3, <2>2 DEF GH!onUngrab, GH!Worlds
  <2> HIDE DEF r
  <2> QED BY <1>3, <2>2, <2>3 DEF GivesUp, OnTop
<1> HIDE DEF r
<1>5. r.open = w.open \ {x}
  BY <1>4
<1>6. Good(r, live)
  <2>1. ASSUME NEW g \in Helper
        PROVE  /\ GH!ToSet(r.grabs[g]) \subseteq {y \in r.open \cap live : HelperOf[y] = g}
               /\ r.count[g] = Len(r.grabs[g]) /\ Len(r.grabs[g]) <= 1
    <3>1. CASE g = h
      <4>1. r.grabs[g] = <<>> /\ r.count[g] = 0
        BY <1>2, <1>4, <3>1
      <4> QED BY <4>1 DEF GH!ToSet
    <3>2. CASE g # h
      <4>1. r.grabs[g] = w.grabs[g] /\ r.count[g] = w.count[g]
        BY <1>2, <1>4, <3>2
      <4>2. /\ GH!ToSet(w.grabs[g]) \subseteq {y \in w.open \cap live : HelperOf[y] = g}
            /\ w.count[g] = Len(w.grabs[g]) /\ Len(w.grabs[g]) <= 1
        BY <1>2 DEF GH!GrabbedIsOpen
      <4> QED BY <1>1, <1>5, <3>2, <4>1, <4>2
    <3> QED BY <3>1, <3>2
  <2> QED BY <1>4, <2>1 DEF Good, GH!GrabbedIsOpen
<1>7. ASSUME GH!InStep(w)
      PROVE  GH!InStep(r) /\ (w.thrown = {} /\ GH!On(w.helpers) = {h} => r.thrown = {})
  <2>1. CASE r.thrown # {}
    <3>1. ~(w.thrown = {} /\ GH!On(w.helpers) = {h})
      <4>1. w.thrown = {} => h \in GH!ToSet(w.modal)
        BY <1>1, <1>7 DEF GH!InStep
      <4> QED BY <1>4, <2>1, <4>1
    <3> QED BY <2>1, <3>1 DEF GH!InStep
  <2>2. CASE r.thrown = {}
    <3>1. w.thrown = {} /\ top
      BY <1>4, <2>2
    <3> QED BY <1>2, <1>4, <1>7, <2>2, <3>1, PopsInStep
  <2> QED BY <2>1, <2>2
<1> QED BY <1>4, <1>5, <1>6, <1>7 DEF r, base, Ungrabs


LEMMA HelperIs ==
  /\ \A x \in GH!Target : HelperOf[x] \in Helper
  /\ \A m \in Menu : m \in GH!Target /\ m \notin Popup
  /\ \A f \in Popup, x \in GH!Target : HelperOf[x] = HelperOf[f] => x = f
  /\ IsFiniteSet(Menu)
  BY Constants, Imported DEF GH!ConstantsAssumption, GH!Target

(* A menu is closed: when all is in step, its helper is on top.            *)
LEMMA ClosedKeeps ==
  ASSUME NEW w, NEW live, Good(w, live), NEW m \in Menu
  PROVE  LET r == GH!Closed(w, m)
             h == HelperOf[m]
         IN  /\ Keeps(w, r, {m}, live)
             /\ r.grabs = w.grabs \/ r.grabs = [w.grabs EXCEPT ![h] = <<>>]
             /\ m \in GH!ToSet(w.grabs[h]) => r.grabs = [w.grabs EXCEPT ![h] = <<>>]
<1> DEFINE h == HelperOf[m]
           r == GH!Closed(w, m)
<1>1. h \in Helper /\ m \in GH!Target /\ m \notin Popup
  BY HelperIs
<1>2. w \in GH!Worlds /\ w.open \in SUBSET GH!Target /\ w.grabs \in [Helper -> Seq(GH!Target)]
  BY DEF Good, GH!Worlds
<1> HIDE DEF h
<1>3. CASE m \notin w.open
  <2>1. r = w
    BY <1>3 DEF GH!Closed
  <2>2. m \notin GH!ToSet(w.grabs[h])
    BY <1>1, <1>3, OnlyGrab
  <2>3. w.open = w.open \ {m}
    BY <1>3
  <2> HIDE DEF r
  <2> QED BY <2>1, <2>2, <2>3 DEF Keeps, r, h
<1>4. CASE m \in w.open /\ m \notin GH!ToSet(w.grabs[h])
  <2> DEFINE v == [w EXCEPT !.open = w.open \ {m}]
  <2>1. r = GH!ungrab(v, h, m, FALSE)
    BY <1>4 DEF GH!Closed, h
  <2>2. /\ v \in GH!Worlds /\ v.open = w.open \ {m} /\ v.grabs = w.grabs /\ v.stop = w.stop
        /\ v.thrown = w.thrown /\ v.modal = w.modal /\ v.helpers = w.helpers
        /\ v.count = w.count /\ v.begun = w.begun
    BY <1>2 DEF GH!Worlds
  <2> HIDE DEF v
  <2>3. r = v
    BY <1>4, <2>1, <2>2 DEF GH!ungrab, GH!IsGrabbed
  <2>4. Good(v, live)
    <3>1. ASSUME NEW g \in Helper, NEW x \in GH!ToSet(w.grabs[g])
          PROVE  x \in v.open \cap live /\ HelperOf[x] = g
      BY <1>4, <2>2, <3>1, OnlyGrab DEF h
    <3>2. GH!GrabbedIsOpen(w, live)
      BY DEF Good
    <3> QED BY <2>2, <3>1, <3>2 DEF Good, GH!GrabbedIsOpen
  <2>5. GH!InStep(w) => GH!InStep(v)
    BY <2>2 DEF GH!InStep, GH!IsGrabbed
  <2> HIDE DEF r
  <2> QED BY <1>4, <2>2, <2>3, <2>4, <2>5 DEF Keeps, r, h
<1>5. CASE m \in w.open /\ m \in GH!ToSet(w.grabs[h])
  <2>1. r = GH!ungrab([w EXCEPT !.open = w.open \ {m}], h, m, FALSE)
    BY <1>5 DEF GH!Closed, h
  <2>2. Ungrabs(w, r, h, m, live)
    BY <1>1, <1>5, <2>1, UngrabGood, Zenon
  <2> HIDE DEF r
  <2>3. GH!InStep(w) /\ w.thrown = {} => r.thrown = {}
    <3>1. GH!InStep(w) /\ w.thrown = {} => GH!On(w.helpers) = {h}
      BY <1>5 DEF GH!InStep, GH!IsGrabbed, h
    <3> QED BY <2>2, <3>1 DEF Ungrabs
  <2>4. \A g \in Helper : g # h => r.grabs[g] = w.grabs[g]
    BY <1>2, <2>2 DEF Ungrabs
  <2> QED BY <2>2, <2>3, <2>4 DEF Keeps, Ungrabs, h, r
<1> QED BY <1>3, <1>4, <1>5

LEMMA KeepsOn ==
  ASSUME NEW w, NEW v, NEW r, NEW M, NEW N, NEW live, Keeps(w, v, M, live), Keeps(v, r, N, live)
  PROVE  Keeps(w, r, M \cup N, live)
<1>1. r.open = w.open \ (M \cup N)
  BY DEF Keeps
<1>2. w.thrown \subseteq r.thrown /\ GH!ToSet(r.modal) \subseteq GH!ToSet(w.modal)
  BY DEF Keeps
<1>3. GH!InStep(w) => GH!InStep(r) /\ (w.thrown = {} => r.thrown = {})
  BY DEF Keeps
<1>4. \A h \in Helper : (\A m \in Menu : HelperOf[m] # h) => r.grabs[h] = w.grabs[h]
  BY DEF Keeps
<1> QED BY <1>1, <1>2, <1>3, <1>4 DEF Keeps

(* Several menus are closed, one after the other.                          *)
LEMMA ClosedEachKeeps ==
  ASSUME NEW w, NEW live, Good(w, live), NEW order \in Seq(Menu)
  PROVE  Keeps(w, GH!ClosedEach(w, order), GH!ToSet(order), live)
<1> DEFINE Step(g, n) == IF n = 0 THEN w ELSE GH!Closed(g[n - 1], order[n])
           N == Len(order)
           Upto(n) == {order[i] : i \in 1..n}
           closed == CHOOSE g : g = [n \in 0..N |-> Step(g, n)]
<1>1. GH!ClosedEach(w, order) = closed[N]
  BY DEF GH!ClosedEach
<1>2. N \in Nat /\ DOMAIN order = 1..N /\ \A i \in 1..N : order[i] \in Menu
  OBVIOUS
<1>3. GH!ToSet(order) = Upto(N)
  BY <1>2 DEF GH!ToSet
<1> HIDE DEF N
<1>4. ASSUME NEW m \in Nat
      PROVE  \E g : g = [k \in 0..m |-> Step(g, k)]
  <2> DEFINE Steps(i) == \E g : g = [k \in 0..i |-> Step(g, k)]
             Bad == {i \in Nat : ~Steps(i)}
  <2> SUFFICES ASSUME ~Steps(m) PROVE FALSE
    OBVIOUS
  <2>1. m \in Bad
    OBVIOUS
  <2>2. PICK i \in Bad : \A j \in Bad : <<j, i>> \notin OpToRel(<, Nat)
    <3>1. Bad \subseteq Nat /\ Bad # {}
      BY <2>1
    <3> HIDE DEF Bad
    <3> QED BY <3>1, NatLessThanWellFounded, WFMin
  <2>3. i \in Nat /\ ~Steps(i) /\ \A j \in Nat : j < i => Steps(j)
    BY <2>2 DEF OpToRel
  <2>4. CASE i = 0
    <3> DEFINE h == [k \in 0..0 |-> w]
    <3>1. h = [k \in 0..i |-> Step(h, k)]
      BY <2>4
    <3> QED BY <2>3, <3>1
  <2>5. CASE i # 0
    <3>1. i - 1 \in Nat /\ i - 1 < i
      BY <2>3, <2>5
    <3>2. PICK g : g = [k \in 0..(i - 1) |-> Step(g, k)]
      BY <2>3, <3>1
    <3> DEFINE h == [k \in 0..i |-> IF k = i THEN Step(g, i) ELSE g[k]]
    <3>3. ASSUME NEW k \in 0..i
          PROVE  h[k] = Step(h, k)
      <4>1. k # 0 => k - 1 \in 0..(i - 1) /\ k - 1 # i /\ k - 1 \in 0..i
        BY <2>3
      <4>2. k # 0 => h[k - 1] = g[k - 1]
        BY <4>1
      <4>3. Step(h, k) = Step(g, k)
        <5> HIDE DEF h
        <5> QED BY <4>2
      <4>4. CASE k = i
        BY <4>3, <4>4
      <4>5. CASE k # i
        <5>1. k \in 0..(i - 1)
          BY <2>3, <4>5
        <5>2. g[k] = Step(g, k)
          <6> HIDE DEF h, Step
          <6> QED BY <3>2, <5>1
        <5> QED BY <4>3, <4>5, <5>2
      <4> QED BY <4>4, <4>5
    <3>4. h = [k \in 0..i |-> Step(h, k)]
      <4>1. h = [k \in 0..i |-> h[k]]
        OBVIOUS
      <4> HIDE DEF h, Step
      <4> QED BY <3>3, <4>1
    <3> QED BY <2>3, <3>4
  <2> QED BY <2>4, <2>5
<1>5. closed = [n \in 0..N |-> Step(closed, n)]
  <2>1. \E g : g = [n \in 0..N |-> Step(g, n)]
    BY <1>2, <1>4
  <2> HIDE DEF Step
  <2> QED BY <2>1
<1> HIDE DEF closed
<1> DEFINE Bad == {k \in Nat : k <= N /\ ~Keeps(w, closed[k], Upto(k), live)}
<1>6. Bad = {}
  <2> SUFFICES ASSUME Bad # {} PROVE FALSE
    OBVIOUS
  <2>1. PICK k \in Bad : \A j \in Bad : <<j, k>> \notin OpToRel(<, Nat)
    <3>1. Bad \subseteq Nat
      OBVIOUS
    <3> HIDE DEF Bad
    <3> QED BY <3>1, NatLessThanWellFounded, WFMin
  <2>2. k \in Nat /\ k <= N /\ ~Keeps(w, closed[k], Upto(k), live)
    OBVIOUS
  <2>3. ASSUME NEW j \in Nat, j < k
        PROVE  Keeps(w, closed[j], Upto(j), live)
    <3>1. <<j, k>> \in OpToRel(<, Nat)
      BY <2>2, <2>3 DEF OpToRel
    <3>2. j \notin Bad
      BY <2>1, <3>1
    <3> QED BY <1>2, <2>2, <2>3, <3>2
  <2>4. closed[k] = Step(closed, k)
    <3>1. k \in 0..N
      BY <1>2, <2>2
    <3> HIDE DEF Step
    <3> QED BY <1>5, <3>1
  <2> HIDE DEF Bad
  <2>5. CASE k = 0
    <3>1. closed[k] = w /\ Upto(k) = {}
      BY <2>4, <2>5
    <3> QED BY <2>2, <3>1 DEF Keeps
  <2>6. CASE k # 0
    <3>1. k - 1 \in Nat /\ k - 1 < k /\ k \in 1..N
      BY <1>2, <2>2, <2>6
    <3>2. Keeps(w, closed[k - 1], Upto(k - 1), live) /\ order[k] \in Menu
      BY <1>2, <2>3, <3>1
    <3>3. Keeps(closed[k - 1], GH!Closed(closed[k - 1], order[k]), {order[k]}, live)
      <4>1. Good(closed[k - 1], live)
        BY <3>2 DEF Keeps
      <4> QED BY <3>2, <4>1, ClosedKeeps, Zenon
    <3>4. closed[k] = GH!Closed(closed[k - 1], order[k])
      BY <2>4, <2>6
    <3>5. Upto(k) = Upto(k - 1) \cup {order[k]}
      <4>1. \A i : i \in 1..k <=> i \in 1..(k - 1) \/ i = k
        BY <3>1
      <4> QED BY <4>1
    <3> HIDE DEF Upto
    <3>6. Keeps(w, closed[k], Upto(k - 1) \cup {order[k]}, live)
      BY <3>2, <3>3, <3>4, KeepsOn
    <3> QED BY <2>2, <3>5, <3>6
  <2> QED BY <2>5, <2>6
<1> HIDE DEF Upto
<1>7. Keeps(w, closed[N], Upto(N), live)
  BY <1>2, <1>6
<1> QED BY <1>1, <1>3, <1>7


(* A helper without grabs takes one.                                       *)
LEMMA GrabKeeps ==
  ASSUME NEW w, NEW live, Good(w, live), NEW x \in w.open \cap live, x \in GH!Target,
         w.grabs[HelperOf[x]] = <<>>, NEW refused \in BOOLEAN
  PROVE  LET r == GH!grab(w, x, refused)
         IN  /\ Good(r, live) /\ r.thrown = w.thrown
             /\ GH!InStep(w) /\ (\A m \in Menu : ~GH!IsGrabbed(w, HelperOf[m], m)) => GH!InStep(r)
<1> DEFINE h == HelperOf[x]
           first == w.count[h] = 0
           pushed == [GH!PushModal(w, h) EXCEPT !.helpers = Append(@, h)]
           r == GH!grab(w, x, refused)
<1>1. h \in Helper /\ w \in GH!Worlds /\ GH!GrabbedIsOpen(w, live)
  BY HelperIs DEF Good
<1>2. /\ w.helpers \in Seq(Helper) /\ w.modal \in Seq(Helper \cup Other)
      /\ w.count \in [Helper -> Nat] /\ w.grabs \in [Helper -> Seq(GH!Target)]
      /\ w.begun \in BOOLEAN
  BY <1>1 DEF GH!Worlds
<1>3. w.count[h] = 0 /\ ~GH!IsGrabbed(w, h, x)
  <2>1. w.count[h] = Len(w.grabs[h])
    BY <1>1 DEF GH!GrabbedIsOpen
  <2> QED BY <2>1 DEF GH!IsGrabbed, GH!ToSet
<1>4. CASE refused
  <2>1. r = w
    BY <1>4 DEF GH!grab
  <2> HIDE DEF r
  <2> QED BY <2>1 DEF r
<1>5. CASE ~refused
  <2> DEFINE a == Append(w.modal, h)
             b == Append(w.helpers, h)
             c == [w.count EXCEPT ![h] = 1]
             g == [w.grabs EXCEPT ![h] = <<x>>]
             y == (w.begun \/ w.modal = <<>>)
             v == [w EXCEPT !.modal = a, !.begun = y, !.helpers = b, !.count = c, !.grabs = g]
  <2>1. r = v
    <3>1. r = [GH!_takeModalGrab(w, h) EXCEPT !.grabs[h] = Append(@, x)]
      BY <1>3, <1>5 DEF GH!grab
    <3>2. GH!_takeModalGrab(w, h) = [pushed EXCEPT !.count[h] = @ + 1]
      BY <1>3 DEF GH!_takeModalGrab
    <3>3. pushed = [w EXCEPT !.modal = a, !.begun = y, !.helpers = b]
      BY <1>1 DEF GH!PushModal, GH!Worlds
    <3> HIDE DEF pushed, a, b, y
    <3>4. pushed.count = w.count /\ pushed.grabs = w.grabs
      BY <1>1, <3>3 DEF GH!Worlds
    <3>5. GH!_takeModalGrab(w, h) = [w EXCEPT !.modal = a, !.begun = y, !.helpers = b, !.count = c]
      <4>1. GH!_takeModalGrab(w, h) = [pushed EXCEPT !.count = [w.count EXCEPT ![h] = w.count[h] + 1]]
        BY <3>2, <3>4
      <4>2. w.count[h] + 1 = 1
        BY <1>3
      <4>3. GH!_takeModalGrab(w, h) = [pushed EXCEPT !.count = c]
        BY <4>1, <4>2
      <4> HIDE DEF c
      <4> QED BY <1>1, <3>3, <4>3 DEF GH!Worlds
    <3>6. Append(w.grabs[h], x) = <<x>>
      OBVIOUS
    <3> QED BY <1>1, <1>2, <3>1, <3>5, <3>6 DEF GH!Worlds
  <2>2. /\ a \in Seq(Helper \cup Other) /\ b \in Seq(Helper)
        /\ y \in BOOLEAN /\ c \in [Helper -> Nat] /\ g \in [Helper -> Seq(GH!Target)]
    BY <1>1, <1>2
  <2> HIDE DEF a, b, c, g, y
  <2>3. /\ v \in GH!Worlds /\ v.modal = a /\ v.begun = y /\ v.helpers = b /\ v.count = c
        /\ v.grabs = g /\ v.open = w.open /\ v.thrown = w.thrown /\ v.stop = w.stop
    BY <1>1, <2>2 DEF GH!Worlds
  <2> HIDE DEF v
  <2>4. ASSUME NEW k \in Helper
        PROVE  /\ GH!ToSet(g[k]) \subseteq {z \in w.open \cap live : HelperOf[z] = k}
               /\ c[k] = Len(g[k]) /\ Len(g[k]) <= 1
    <3>1. CASE k = h
      <4>1. g[k] = <<x>> /\ c[k] = 1
        BY <1>2, <3>1 DEF c, g
      <4> QED BY <3>1, <4>1 DEF GH!ToSet
    <3>2. CASE k # h
      <4>1. g[k] = w.grabs[k] /\ c[k] = w.count[k]
        BY <1>2, <3>2 DEF c, g
      <4> QED BY <1>1, <4>1 DEF GH!GrabbedIsOpen
    <3> QED BY <3>1, <3>2
  <2>5. Good(v, live)
    BY <2>3, <2>4 DEF Good, GH!GrabbedIsOpen
  <2>6. ASSUME GH!InStep(w), \A m \in Menu : ~GH!IsGrabbed(w, HelperOf[m], m), w.thrown = {}
        PROVE  GH!InStep(v)
    <3>1. /\ \A e \in Helper \cup Other : ~GH!Below(w.modal, e, e)
          /\ GH!ToSet(w.helpers) = GH!ToSet(w.modal) \cap Helper
          /\ \A d, e \in Helper : GH!Below(w.helpers, d, e) <=> GH!Below(w.modal, d, e)
          /\ \A k \in Helper : k \in GH!ToSet(w.modal) <=> w.count[k] > 0
          /\ w.begun <=> w.modal # <<>>
      BY <2>6 DEF GH!InStep
    <3>2. h \notin GH!ToSet(w.modal) /\ h \notin GH!ToSet(w.helpers)
      BY <1>1, <1>3, <3>1
    <3>3. /\ a # <<>> /\ GH!ToSet(a) = GH!ToSet(w.modal) \cup {h}
          /\ \A d, e : GH!Below(a, d, e) <=> GH!Below(w.modal, d, e) \/ (d \in GH!ToSet(w.modal) /\ e = h)
      <4> DEFINE s == w.modal
                 S == Helper \cup Other
                 t == Append(s, h)
      <4>1. s \in Seq(S) /\ h \in S
        BY <1>1, <1>2
      <4> HIDE DEF s, S
      <4>2. /\ t # <<>> /\ GH!ToSet(t) = GH!ToSet(s) \cup {h}
            /\ \A d, e : GH!Below(t, d, e) <=> GH!Below(s, d, e) \/ (d \in GH!ToSet(s) /\ e = h)
        BY <4>1, Appended
      <4> QED BY <4>2 DEF a, s
    <3>4. /\ GH!On(b) = {h} /\ GH!ToSet(b) = GH!ToSet(w.helpers) \cup {h}
          /\ \A d, e : GH!Below(b, d, e) <=> GH!Below(w.helpers, d, e) \/ (d \in GH!ToSet(w.helpers) /\ e = h)
      BY <1>1, <1>2, Appended DEF b
    <3>5. \A k \in Helper : k \in GH!ToSet(a) <=> c[k] > 0
      BY <1>2, <3>1, <3>3 DEF c
    <3>6. ASSUME NEW m \in Menu, GH!IsGrabbed(v, HelperOf[m], m)
          PROVE  GH!On(b) = {HelperOf[m]}
      <4>1. HelperOf[m] \in Helper
        BY HelperIs
      <4>2. HelperOf[m] = h
        <5>1. CASE HelperOf[m] # h
          <6>1. g[HelperOf[m]] = w.grabs[HelperOf[m]]
            BY <1>2, <4>1, <5>1 DEF g
          <6> QED BY <2>3, <2>6, <3>6, <6>1 DEF GH!IsGrabbed
        <5> QED BY <5>1
      <4> QED BY <3>4, <4>2
    <3>7. y /\ a # <<>>
      BY <3>1, <3>3 DEF y
    <3>8. \A e \in Helper \cup Other : ~GH!Below(a, e, e)
      BY <3>1, <3>2, <3>3
    <3>9. GH!ToSet(b) = GH!ToSet(a) \cap Helper
      BY <1>1, <3>1, <3>3, <3>4
    <3>10. \A d, e \in Helper : GH!Below(b, d, e) <=> GH!Below(a, d, e)
      BY <3>1, <3>3, <3>4
    <3> QED BY <2>3, <3>5, <3>6, <3>7, <3>8, <3>9, <3>10 DEF GH!InStep
  <2>7. w.thrown # {} => GH!InStep(v)
    BY <2>3 DEF GH!InStep
  <2> HIDE DEF r
  <2> QED BY <2>1, <2>3, <2>5, <2>6, <2>7 DEF r
<1> QED BY <1>4, <1>5

(* A popup is popped down.                                                 *)
LEMMA PoppedDownKeeps ==
  ASSUME NEW w, NEW live, Good(w, live), NEW f \in Popup
  PROVE  LET r == GH!PoppedDown(w, f)
             h == HelperOf[f]
         IN  /\ Good(r, live)
             /\ r.open = w.open \ {f}
             /\ w.thrown \subseteq r.thrown
             /\ GH!InStep(w) => GH!InStep(r)
             /\ f \notin GH!ToSet(w.grabs[h]) => r.thrown = w.thrown
             /\ f \in GH!ToSet(w.grabs[h]) /\ h \notin GH!ToSet(w.modal) => r.thrown # {}
<1> DEFINE h == HelperOf[f]
           r == GH!PoppedDown(w, f)
           u == GH!ungrab(w, h, f, FALSE)
<1>1. h \in Helper /\ f \in GH!Target
  BY HelperIs DEF GH!Target
<1>2. w \in GH!Worlds /\ w.open \in SUBSET GH!Target /\ w.grabs \in [Helper -> Seq(GH!Target)]
  BY DEF Good, GH!Worlds
<1> HIDE DEF h
<1>3. CASE f \notin w.open
  <2>1. r = w
    BY <1>3 DEF GH!PoppedDown
  <2>2. f \notin GH!ToSet(w.grabs[h])
    BY <1>1, <1>3, OnlyGrab
  <2>3. w.open = w.open \ {f}
    BY <1>3
  <2> HIDE DEF r
  <2> QED BY <2>1, <2>2, <2>3 DEF r, h
<1>4. CASE f \in w.open
  <2>1. r = [u EXCEPT !.open = u.open \ {f}]
    BY <1>4 DEF GH!PoppedDown, h
  <2>2. CASE f \notin GH!ToSet(w.grabs[h])
    <3>1. u = w
      BY <2>2 DEF GH!ungrab, GH!IsGrabbed
    <3>2. r = [w EXCEPT !.open = w.open \ {f}]
      BY <2>1, <3>1
    <3> HIDE DEF r
    <3>3. /\ r \in GH!Worlds /\ r.open = w.open \ {f} /\ r.grabs = w.grabs /\ r.stop = w.stop
          /\ r.thrown = w.thrown /\ r.modal = w.modal /\ r.helpers = w.helpers
          /\ r.count = w.count /\ r.begun = w.begun
      BY <1>2, <3>2 DEF GH!Worlds
    <3>4. Good(r, live)
      <4>1. ASSUME NEW g \in Helper, NEW x \in GH!ToSet(w.grabs[g])
            PROVE  x \in r.open \cap live /\ HelperOf[x] = g
        BY <2>2, <3>3, <4>1, OnlyGrab DEF h
      <4>2. GH!GrabbedIsOpen(w, live)
        BY DEF Good
      <4> QED BY <3>3, <4>1, <4>2 DEF Good, GH!GrabbedIsOpen
    <3>5. GH!InStep(w) => GH!InStep(r)
      BY <3>3 DEF GH!InStep, GH!IsGrabbed
    <3> QED BY <2>2, <3>3, <3>4, <3>5 DEF r, h
  <2>3. CASE f \in GH!ToSet(w.grabs[h])
    <3>1. w = [w EXCEPT !.open = w.open]
      BY <1>2 DEF GH!Worlds
    <3>2. Ungrabs(w, u, h, f, live)
      <4> HIDE DEF u
      <4>1. Ungrabs(w, GH!ungrab([w EXCEPT !.open = w.open], h, f, FALSE), h, f, live)
        BY <1>1, <2>3, UngrabGood, Zenon
      <4> QED BY <3>1, <4>1 DEF u
    <3> HIDE DEF u
    <3>3. u \in GH!Worlds /\ u.open = w.open \ {f}
      BY <3>2 DEF Ungrabs, Good
    <3>4. u.open \ {f} = u.open
      BY <3>3
    <3>5. r = u
      BY <2>1, <3>3, <3>4 DEF GH!Worlds
    <3> HIDE DEF r
    <3> QED BY <2>3, <3>2, <3>5 DEF Ungrabs, r, h
  <2> QED BY <2>2, <2>3
<1> QED BY <1>3, <1>4


LEMMA OrderIs ==
  ASSUME NEW S, IsFiniteSet(S), NEW order \in GH!SetToSeqs(S)
  PROVE  order \in Seq(S) /\ GH!ToSet(order) = S
<1> DEFINE n == Cardinality(S)
           D == 1..n
<1>1. n \in Nat
  BY FS_CardinalityType
<1>2. order \in [D -> S] /\ \A i, j \in D : i # j => order[i] # order[j]
  BY Imported DEF GH!SetToSeqs
<1> HIDE DEF n
<1>3. order \in Seq(S) /\ DOMAIN order = D
  BY <1>1, <1>2
<1>4. IsFiniteSet(D) /\ Cardinality(D) = n
  <2>1. 1 \in Int /\ n \in Int /\ 1 <= n + 1 /\ n - 1 + 1 = n
    BY <1>1
  <2> QED BY <1>1, <2>1, FS_Interval
<1>5. order \in Injection(D, S)
  BY <1>2 DEF Injection, IsInjective
<1>6. order \in Surjection(D, S)
  BY <1>4, <1>5, FS_Injection DEF n
<1>7. \A x \in S : \E i \in D : order[i] = x
  BY <1>6 DEF Surjection
<1> QED BY <1>2, <1>3, <1>7 DEF GH!ToSet

LEMMA Opened ==
  ASSUME NEW w, NEW live, Good(w, live), NEW x \in GH!Target
  PROVE  LET r == [w EXCEPT !.open = @ \cup {x}]
         IN  /\ Good(r, live) /\ (GH!InStep(w) => GH!InStep(r))
             /\ r.open = w.open \cup {x} /\ r.grabs = w.grabs /\ r.helpers = w.helpers
             /\ r.thrown = w.thrown /\ r.modal = w.modal /\ r.count = w.count
<1> DEFINE r == [w EXCEPT !.open = @ \cup {x}]
<1>1. w \in GH!Worlds /\ w.open \in SUBSET GH!Target /\ GH!GrabbedIsOpen(w, live)
  BY DEF Good, GH!Worlds
<1>2. /\ r \in GH!Worlds /\ r.open = w.open \cup {x} /\ r.grabs = w.grabs /\ r.stop = w.stop
      /\ r.thrown = w.thrown /\ r.modal = w.modal /\ r.helpers = w.helpers
      /\ r.count = w.count /\ r.begun = w.begun
  BY <1>1 DEF GH!Worlds
<1> HIDE DEF r
<1>3. GH!GrabbedIsOpen(r, live)
  BY <1>1, <1>2 DEF GH!GrabbedIsOpen
<1>4. GH!InStep(w) => GH!InStep(r)
  BY <1>2 DEF GH!InStep, GH!IsGrabbed
<1> QED BY <1>2, <1>3, <1>4 DEF Good, r

(* What was closed may be destroyed.                                       *)
LEMMA Died ==
  ASSUME NEW w, NEW live, NEW D, Good(w, live), w.open \cap D = {}
  PROVE  Good(w, live \ D)
  BY DEF Good, GH!GrabbedIsOpen

(* Where all is in step and a menu has a grab, its helper lets the user    *)
(* reach no other.                                                         *)
LEMMA NoOther ==
  ASSUME NEW w, NEW h \in Helper, GH!InStep(w), w.thrown = {}, GH!On(w.helpers) \subseteq Over[h],
         NEW m \in Menu, GH!IsGrabbed(w, HelperOf[m], m)
  PROVE  HelperOf[m] = h
<1>1. GH!On(w.helpers) = {HelperOf[m]}
  BY DEF GH!InStep
<1> QED BY <1>1, Constants DEF GH!ConstantsAssumption

-----------------------------------------------------------------------------
(* The steps.                                                              *)
MenusThrowNothing ==
  thrown = {} /\ thrown' # {} => \E f \in Popup : f \in isOpen /\ f \notin isOpen'

LEMMA SoundIsGood ==
  GH!HelpersSound <=> Good(GH!World, helpersAlive) /\ GH!InStep(GH!World) /\ helpersAlive \subseteq GH!Target
  BY DEF GH!World, GH!HelpersSound, GH!TypeOK, Good

LEMMA WorldIs ==
  /\ GH!World.open = isOpen /\ GH!World.grabs = _grabStack /\ GH!World.count = _modalCount
  /\ GH!World.ignore = _ignoreUntilRelease /\ GH!World.helpers = _grabHelperStack
  /\ GH!World.modal = helpersModal /\ GH!World.begun = begun /\ GH!World.thrown = thrown
  BY DEF GH!World

LEMMA Becoming ==
  ASSUME NEW r, Good(r, helpersAlive'), GH!InStep(r), GH!Becomes(r), helpersAlive' \subseteq GH!Target
  PROVE  GH!HelpersSound' /\ isOpen' = r.open /\ thrown' = r.thrown
<1>1. r \in GH!Worlds /\ r.stop = FALSE
  BY DEF Good, GH!Worlds
<1>2. r = GH!World'
  <2>1. r = [open |-> r.open, grabs |-> r.grabs, count |-> r.count, ignore |-> r.ignore,
             helpers |-> r.helpers, modal |-> r.modal, begun |-> r.begun,
             thrown |-> r.thrown, stop |-> r.stop]
    BY <1>1 DEF GH!Worlds
  <2> QED BY <1>1, <2>1 DEF GH!Becomes, GH!World
<1>3. GH!HelpersSound' <=> Good(GH!World', helpersAlive') /\ GH!InStep(GH!World') /\ helpersAlive' \subseteq GH!Target
  BY DEF GH!World, GH!HelpersSound, GH!TypeOK, Good
<1> QED BY <1>2, <1>3 DEF GH!Becomes

LEMMA OpenMenuKeeps ==
  ASSUME GH!HelpersSound, NEW m, GH!OpenMenu(m)
  PROVE  GH!HelpersSound' /\ (thrown = {} => thrown' = {})
<1> DEFINE h == HelperOf[m]
           w == [GH!World EXCEPT !.open = @ \cup {m}]
           alone == IF w.grabs[h] = <<>> THEN w ELSE GH!Closed(w, w.grabs[h][1])
<1>1. /\ m \in Menu /\ m \in GH!Target /\ h \in Helper /\ m \in helpersAlive /\ m \notin isOpen
      /\ GH!On(_grabHelperStack) \subseteq Over[h] /\ helpersAlive' = helpersAlive
  BY HelperIs DEF GH!OpenMenu, GH!Reached
<1>2. PICK refused \in BOOLEAN : GH!Becomes(GH!_onMenuOpenState(w, m, refused))
  BY DEF GH!OpenMenu
<1>3. Good(GH!World, helpersAlive) /\ GH!InStep(GH!World) /\ helpersAlive \subseteq GH!Target
  BY SoundIsGood
<1>4. /\ Good(w, helpersAlive) /\ GH!InStep(w)
      /\ w.open = isOpen \cup {m} /\ w.grabs = _grabStack /\ w.helpers = _grabHelperStack
      /\ w.thrown = thrown
  <2>1. /\ Good(w, helpersAlive) /\ (GH!InStep(GH!World) => GH!InStep(w))
        /\ w.open = GH!World.open \cup {m} /\ w.grabs = GH!World.grabs /\ w.helpers = GH!World.helpers
        /\ w.thrown = GH!World.thrown
    BY <1>1, <1>3, Opened
  <2> HIDE DEF w
  <2> QED BY <1>3, <2>1, WorldIs
<1>5. _grabStack \in [Helper -> Seq(GH!Target)]
  BY <1>3, WorldIs DEF Good, GH!Worlds
<1> HIDE DEF h, w
<1>6. /\ Good(alone, helpersAlive) /\ GH!InStep(alone) /\ m \in alone.open /\ alone.grabs[h] = <<>>
      /\ thrown \subseteq alone.thrown /\ (thrown = {} => alone.thrown = {})
      /\ \A g \in Helper : g # h => alone.grabs[g] = _grabStack[g]
  <2>1. CASE w.grabs[h] = <<>>
    BY <1>1, <1>4, <2>1
  <2>2. CASE w.grabs[h] # <<>>
    <3> DEFINE y == w.grabs[h][1]
               r == GH!Closed(w, y)
    <3>1. y \in GH!ToSet(w.grabs[h])
      <4>1. w.grabs[h] \in Seq(GH!Target)
        BY <1>1, <1>4, <1>5
      <4> QED BY <2>2, <4>1, SeqIs
    <3> HIDE DEF y
    <3>2. y \in isOpen /\ y \in GH!Target /\ HelperOf[y] = h
      <4>1. y \in GH!ToSet(GH!World.grabs[h])
        BY <1>4, <3>1, WorldIs
      <4> QED BY <1>1, <1>3, <4>1, OnlyGrab, WorldIs
    <3>3. y \in Menu /\ y # m
      BY <1>1, <3>2, HelperIs DEF GH!Target, h
    <3>4. Keeps(w, r, {y}, helpersAlive) /\ r.grabs = [w.grabs EXCEPT ![h] = <<>>]
      BY <1>4, <3>1, <3>2, <3>3, ClosedKeeps
    <3> HIDE DEF r
    <3>5. alone = r
      BY <2>2 DEF r, y
    <3> HIDE DEF alone
    <3> QED BY <1>1, <1>4, <1>5, <3>3, <3>4, <3>5 DEF Keeps
  <2> QED BY <2>1, <2>2
<1> HIDE DEF alone
<1> DEFINE r == GH!grab(alone, m, refused)
<1>7. GH!Becomes(r)
  BY <1>2 DEF GH!_onMenuOpenState, alone, h, w
<1>8. /\ Good(r, helpersAlive) /\ r.thrown = alone.thrown
      /\ GH!InStep(alone) /\ (\A n \in Menu : ~GH!IsGrabbed(alone, HelperOf[n], n)) => GH!InStep(r)
  BY <1>1, <1>6, GrabKeeps DEF h
<1>9. GH!InStep(r)
  <2>1. CASE thrown = {}
    <3>1. ASSUME NEW n \in Menu, GH!IsGrabbed(alone, HelperOf[n], n)
          PROVE  FALSE
      <4>1. HelperOf[n] \in Helper /\ HelperOf[n] # h
        BY <1>6, <3>1, HelperIs DEF GH!IsGrabbed, GH!ToSet
      <4>2. GH!IsGrabbed(w, HelperOf[n], n)
        BY <1>4, <1>6, <3>1, <4>1 DEF GH!IsGrabbed
      <4> QED BY <1>1, <1>4, <2>1, <4>1, <4>2, NoOther
    <3> QED BY <1>6, <1>8, <3>1
  <2>2. CASE thrown # {}
    BY <1>6, <1>8, <2>2 DEF GH!InStep
  <2> QED BY <2>1, <2>2
<1> HIDE DEF r
<1>10. Good(r, helpersAlive') /\ helpersAlive' \subseteq GH!Target
  BY <1>1, <1>3, <1>8
<1>11. GH!HelpersSound' /\ thrown' = r.thrown
  BY <1>7, <1>9, <1>10, Becoming
<1> QED BY <1>6, <1>8, <1>11


LEMMA PopupKeeps ==
  ASSUME GH!HelpersSound, NEW f, GH!popup(f)
  PROVE  GH!HelpersSound' /\ (thrown = {} => thrown' = {})
<1> DEFINE h == HelperOf[f]
           w == [GH!World EXCEPT !.open = @ \cup {f}]
           r == GH!grab(w, f, FALSE)
<1>1. /\ f \in Popup /\ f \in GH!Target /\ h \in Helper /\ f \in helpersAlive /\ f \notin isOpen
      /\ GH!On(_grabHelperStack) \subseteq Over[h] /\ helpersAlive' = helpersAlive
  BY HelperIs DEF GH!popup, GH!Reached, GH!Target
<1>2. GH!Becomes(GH!World) \/ GH!Becomes(r)
  BY DEF GH!popup
<1>3. Good(GH!World, helpersAlive) /\ GH!InStep(GH!World) /\ helpersAlive \subseteq GH!Target
  BY SoundIsGood
<1>4. /\ Good(w, helpersAlive) /\ GH!InStep(w)
      /\ w.open = isOpen \cup {f} /\ w.grabs = _grabStack /\ w.helpers = _grabHelperStack
      /\ w.thrown = thrown
  <2>1. /\ Good(w, helpersAlive) /\ (GH!InStep(GH!World) => GH!InStep(w))
        /\ w.open = GH!World.open \cup {f} /\ w.grabs = GH!World.grabs /\ w.helpers = GH!World.helpers
        /\ w.thrown = GH!World.thrown
    BY <1>1, <1>3, Opened
  <2> HIDE DEF w
  <2> QED BY <1>3, <2>1, WorldIs
<1>5. CASE GH!Becomes(GH!World)
  <2>1. GH!HelpersSound' /\ thrown' = GH!World.thrown
    BY <1>1, <1>3, <1>5, Becoming
  <2> QED BY <2>1, WorldIs
<1>6. CASE GH!Becomes(r)
  <2> HIDE DEF h, w
  <2>1. w.grabs[h] = <<>>
    <3>1. \A y \in GH!ToSet(GH!World.grabs[h]) : y \in isOpen /\ y \in GH!Target /\ HelperOf[y] = h
      BY <1>1, <1>3, OnlyGrab, WorldIs
    <3>2. GH!ToSet(w.grabs[h]) = {}
      BY <1>1, <1>4, <3>1, HelperIs, WorldIs DEF h
    <3>3. w.grabs[h] \in Seq(GH!Target)
      BY <1>1, <1>4 DEF Good, GH!Worlds
    <3> QED BY <3>2, <3>3, EmptyIs
  <2>2. /\ Good(r, helpersAlive) /\ r.thrown = w.thrown
        /\ GH!InStep(w) /\ (\A n \in Menu : ~GH!IsGrabbed(w, HelperOf[n], n)) => GH!InStep(r)
    <3>1. f \in w.open \cap helpersAlive
      BY <1>1, <1>4
    <3> QED BY <1>1, <1>4, <2>1, <3>1, GrabKeeps DEF h
  <2>3. GH!InStep(r)
    <3>1. CASE thrown = {}
      <4>1. ASSUME NEW n \in Menu, GH!IsGrabbed(w, HelperOf[n], n)
            PROVE  FALSE
        <5>1. HelperOf[n] \in Helper /\ HelperOf[n] # h
          BY <2>1, <4>1, HelperIs DEF GH!IsGrabbed, GH!ToSet
        <5> QED BY <1>1, <1>4, <3>1, <4>1, <5>1, NoOther
      <4> QED BY <1>4, <2>2, <4>1
    <3>2. CASE thrown # {}
      BY <1>4, <2>2, <3>2 DEF GH!InStep
    <3> QED BY <3>1, <3>2
  <2> HIDE DEF r
  <2>4. GH!HelpersSound' /\ thrown' = r.thrown
    BY <1>1, <1>3, <1>6, <2>2, <2>3, Becoming
  <2> QED BY <1>4, <2>2, <2>4
<1> QED BY <1>2, <1>5, <1>6

LEMMA CloseKeeps ==
  ASSUME GH!HelpersSound, NEW x, GH!Close(x)
  PROVE  GH!HelpersSound' /\ MenusThrowNothing
<1> DEFINE r == GH!Hidden(GH!World, x)
<1>1. x \in isOpen /\ GH!Becomes(r) /\ helpersAlive' = helpersAlive
  BY DEF GH!Close
<1>2. Good(GH!World, helpersAlive) /\ GH!InStep(GH!World) /\ helpersAlive \subseteq GH!Target
  BY SoundIsGood
<1>3. CASE x \in Popup
  <2>1. r = GH!PoppedDown(GH!World, x)
    BY <1>3 DEF GH!Hidden
  <2> HIDE DEF r
  <2>2. /\ Good(r, helpersAlive) /\ r.open = GH!World.open \ {x}
        /\ (GH!InStep(GH!World) => GH!InStep(r))
    BY <1>2, <1>3, <2>1, PoppedDownKeeps
  <2>3. GH!HelpersSound' /\ isOpen' = r.open
    BY <1>1, <1>2, <2>2, Becoming
  <2> QED BY <1>1, <1>3, <2>2, <2>3, WorldIs DEF MenusThrowNothing
<1>4. CASE x \notin Popup
  <2>1. r = GH!Closed(GH!World, x) /\ x \in Menu
    <3>1. x \in GH!Target
      BY <1>1, <1>2, WorldIs DEF Good, GH!Worlds
    <3> QED BY <1>4, <3>1 DEF GH!Hidden, GH!Target
  <2> HIDE DEF r
  <2>2. Keeps(GH!World, r, {x}, helpersAlive)
    BY <1>2, <2>1, ClosedKeeps, Zenon
  <2>3. Good(r, helpersAlive) /\ GH!InStep(r) /\ (GH!World.thrown = {} => r.thrown = {})
    BY <1>2, <2>2 DEF Keeps
  <2>4. GH!HelpersSound' /\ thrown' = r.thrown
    BY <1>1, <1>2, <2>3, Becoming
  <2> QED BY <2>3, <2>4, WorldIs DEF MenusThrowNothing
<1> QED BY <1>3, <1>4

LEMMA SessionKeeps ==
  ASSUME GH!HelpersSound, GH!_sessionUpdated
  PROVE  GH!HelpersSound' /\ (thrown = {} => thrown' = {})
<1>1. helpersAlive' = helpersAlive
  BY DEF GH!_sessionUpdated
<1>2. PICK order \in GH!SetToSeqs(isOpen \cap Menu) : GH!Becomes(GH!ClosedEach(GH!World, order))
  BY DEF GH!_sessionUpdated
<1> DEFINE r == GH!ClosedEach(GH!World, order)
<1>3. Good(GH!World, helpersAlive) /\ GH!InStep(GH!World) /\ helpersAlive \subseteq GH!Target
  BY SoundIsGood
<1>4. order \in Seq(Menu)
  <2>1. IsFiniteSet(isOpen \cap Menu)
    <3>1. IsFiniteSet(Menu) /\ isOpen \cap Menu \subseteq Menu
      BY HelperIs
    <3> QED BY <3>1, FS_Subset
  <2>2. order \in Seq(isOpen \cap Menu)
    BY <2>1, OrderIs
  <2> QED BY <2>2
<1>5. Keeps(GH!World, r, GH!ToSet(order), helpersAlive)
  BY <1>3, <1>4, ClosedEachKeeps, Zenon
<1>6. GH!Becomes(r)
  BY <1>2
<1> HIDE DEF r
<1>7. Good(r, helpersAlive) /\ GH!InStep(r) /\ (GH!World.thrown = {} => r.thrown = {})
  BY <1>3, <1>5 DEF Keeps
<1>8. GH!HelpersSound' /\ thrown' = r.thrown
  BY <1>1, <1>3, <1>6, <1>7, Becoming
<1> QED BY <1>7, <1>8, WorldIs

LEMMA DestroyMenuKeeps ==
  ASSUME GH!HelpersSound, NEW m, GH!DestroyMenu(m)
  PROVE  GH!HelpersSound' /\ (thrown = {} => thrown' = {})
<1> DEFINE r == GH!Closed(GH!World, m)
<1>1. m \in Menu /\ GH!Becomes(r) /\ helpersAlive' = helpersAlive \ {m}
  BY DEF GH!DestroyMenu
<1>2. Good(GH!World, helpersAlive) /\ GH!InStep(GH!World) /\ helpersAlive \subseteq GH!Target
  BY SoundIsGood
<1>3. Keeps(GH!World, r, {m}, helpersAlive)
  BY <1>1, <1>2, ClosedKeeps, Zenon
<1> HIDE DEF r
<1>4. /\ Good(r, helpersAlive) /\ GH!InStep(r) /\ r.open \cap {m} = {}
      /\ (GH!World.thrown = {} => r.thrown = {})
  BY <1>2, <1>3 DEF Keeps
<1>5. Good(r, helpersAlive')
  BY <1>1, <1>4, Died
<1>6. GH!HelpersSound' /\ thrown' = r.thrown
  BY <1>1, <1>2, <1>4, <1>5, Becoming
<1> QED BY <1>4, <1>6, WorldIs

LEMMA DestroyFolderKeeps ==
  ASSUME GH!HelpersSound, NEW f, GH!DestroyFolder(f)
  PROVE  GH!HelpersSound' /\ MenusThrowNothing
<1> DEFINE h == HelperOf[f]
           dropped == IF h \in GH!ToSet(helpersModal) THEN GH!PopModal(GH!World, h) ELSE GH!World
<1>1. f \in Popup /\ h \in Helper /\ f \in GH!Target
  BY HelperIs DEF GH!DestroyFolder, GH!Target
<1>a. PICK inside \in SUBSET {m \in Menu \cap isOpen : h \in Over[HelperOf[m]]} :
        \E order \in GH!SetToSeqs(inside) :
          /\ GH!Becomes(GH!PoppedDown(GH!ClosedEach(dropped, order), f))
          /\ helpersAlive' = helpersAlive \ ({f} \cup inside)
  BY DEF GH!DestroyFolder
<1>2. PICK order \in GH!SetToSeqs(inside) :
        /\ GH!Becomes(GH!PoppedDown(GH!ClosedEach(dropped, order), f))
        /\ helpersAlive' = helpersAlive \ ({f} \cup inside)
  BY <1>a
<1> DEFINE each == GH!ClosedEach(dropped, order)
           r == GH!PoppedDown(each, f)
<1>3. Good(GH!World, helpersAlive) /\ GH!InStep(GH!World) /\ helpersAlive \subseteq GH!Target
  BY SoundIsGood
<1>4. order \in Seq(Menu) /\ GH!ToSet(order) = inside
  <2>1. inside \subseteq Menu
    OBVIOUS
  <2>2. IsFiniteSet(inside)
    BY <2>1, HelperIs, FS_Subset
  <2>3. order \in Seq(inside) /\ GH!ToSet(order) = inside
    BY <2>2, OrderIs
  <2> QED BY <2>1, <2>3
<1>5. GH!Becomes(r) /\ helpersAlive' = helpersAlive \ ({f} \cup inside)
  BY <1>2
<1> HIDE DEF h
<1>6. /\ Good(dropped, helpersAlive) /\ dropped.open = isOpen /\ dropped.grabs = _grabStack
      /\ dropped.thrown = thrown
      /\ h \notin GH!ToSet(helpersModal) => dropped = GH!World
      /\ h \in GH!ToSet(helpersModal) /\ thrown = {} => h \notin GH!ToSet(dropped.modal)
  <2>1. CASE h \notin GH!ToSet(helpersModal)
    BY <1>3, <2>1, WorldIs
  <2>2. CASE h \in GH!ToSet(helpersModal)
    <3>1. GH!World \in GH!Worlds /\ h \in GH!ToSet(GH!World.modal) /\ GH!World.stop = FALSE
      BY <1>3, <2>2, WorldIs DEF Good, GH!Worlds
    <3>2. dropped = GH!PopModal(GH!World, h)
      BY <2>2
    <3> DEFINE t == GH!RemoveAt(GH!World.modal, GH!First(GH!World.modal, h))
               b == GH!World.begun /\ Len(GH!World.modal) > 1
    <3>3. dropped \in GH!Worlds /\ dropped = [GH!World EXCEPT !.modal = t, !.begun = b]
      BY <3>1, <3>2, Popped, Zenon
    <3> HIDE DEF dropped, t, b
    <3>4. /\ dropped.open = GH!World.open /\ dropped.grabs = GH!World.grabs
          /\ dropped.thrown = GH!World.thrown /\ dropped.count = GH!World.count
          /\ dropped.stop = GH!World.stop /\ dropped.modal = t
      BY <3>1, <3>3 DEF GH!Worlds
    <3>5. Good(dropped, helpersAlive)
      BY <1>3, <3>3, <3>4 DEF Good, GH!GrabbedIsOpen
    <3>6. ASSUME thrown = {}  PROVE h \notin GH!ToSet(t)
      <4>1. \A a \in Helper \cup Other : ~GH!Below(GH!World.modal, a, a)
        BY <1>3, <3>6, WorldIs DEF GH!InStep
      <4>2. GH!World.modal \in Seq(Helper \cup Other)
        BY <3>1 DEF GH!Worlds
      <4>3. GH!ToSet(t) = GH!ToSet(GH!World.modal) \ {h}
        BY <3>1, <4>1, <4>2, Removed DEF t
      <4> QED BY <4>3
    <3> QED BY <2>2, <3>4, <3>5, <3>6, WorldIs
  <2> QED BY <2>1, <2>2
<1> HIDE DEF dropped
<1>7. Keeps(dropped, each, GH!ToSet(order), helpersAlive)
  BY <1>4, <1>6, ClosedEachKeeps, Zenon
<1> HIDE DEF each
<1>8. /\ Good(each, helpersAlive) /\ each.open = isOpen \ inside /\ thrown \subseteq each.thrown
      /\ each.grabs[h] = _grabStack[h]
      /\ GH!ToSet(each.modal) \subseteq GH!ToSet(dropped.modal)
      /\ h \notin GH!ToSet(helpersModal) => GH!InStep(each) /\ (thrown = {} => each.thrown = {})
  <2>1. \A m \in Menu : HelperOf[m] # h
    BY <1>1, HelperIs DEF h
  <2> QED BY <1>1, <1>3, <1>4, <1>6, <1>7, <2>1 DEF Keeps
<1>9. /\ Good(r, helpersAlive) /\ r.open = each.open \ {f} /\ each.thrown \subseteq r.thrown
      /\ (GH!InStep(each) => GH!InStep(r))
      /\ (f \notin GH!ToSet(each.grabs[h]) => r.thrown = each.thrown)
      /\ (f \in GH!ToSet(each.grabs[h]) /\ h \notin GH!ToSet(each.modal) => r.thrown # {})
  BY <1>1, <1>8, PoppedDownKeeps DEF h
<1> HIDE DEF r
<1>10. Good(r, helpersAlive')
  <2>1. r.open \cap ({f} \cup inside) = {}
    BY <1>8, <1>9
  <2> QED BY <1>5, <1>9, <2>1, Died
<1>11. _grabStack[h] \in Seq(GH!Target)
  BY <1>1, <1>3, WorldIs DEF Good, GH!Worlds
<1>12. _modalCount[h] = Len(_grabStack[h])
  BY <1>1, <1>3, WorldIs DEF Good, GH!GrabbedIsOpen
<1>13. ASSUME thrown = {}, h \in GH!ToSet(helpersModal)
       PROVE  r.thrown # {} /\ f \in isOpen
  <2>1. _modalCount[h] > 0
    BY <1>1, <1>3, <1>13, WorldIs DEF GH!InStep
  <2>2. PICK y \in GH!ToSet(_grabStack[h]) : TRUE
    <3>1. Len(_grabStack[h]) # 0
      BY <1>12, <2>1
    <3>2. _grabStack[h] # <<>>
      BY <1>11, <3>1, SeqIs
    <3> QED BY <1>11, <3>2, EmptyIs
  <2>3. y \in GH!Target /\ HelperOf[y] = h /\ y \in isOpen
    BY <1>1, <1>3, <2>2, OnlyGrab, WorldIs
  <2>4. y = f
    BY <1>1, <2>3, HelperIs DEF h
  <2> QED BY <1>6, <1>8, <1>9, <1>13, <2>2, <2>3, <2>4
<1>14. ASSUME thrown = {}, h \notin GH!ToSet(helpersModal)
       PROVE  GH!InStep(r) /\ r.thrown = {}
  <2>1. ~(_modalCount[h] > 0)
    BY <1>1, <1>3, <1>14, WorldIs DEF GH!InStep
  <2>2. _grabStack[h] = <<>>
    <3>1. Len(_grabStack[h]) \in Nat
      BY <1>11
    <3>2. Len(_grabStack[h]) = 0
      BY <1>12, <2>1, <3>1
    <3> QED BY <1>11, <3>2, EmptyIs
  <2>3. f \notin GH!ToSet(each.grabs[h])
    BY <1>8, <2>2 DEF GH!ToSet
  <2> QED BY <1>8, <1>9, <1>14, <2>3
<1>15. thrown # {} => r.thrown # {}
  BY <1>8, <1>9
<1>16. GH!InStep(r)
  BY <1>13, <1>14, <1>15 DEF GH!InStep
<1>17. GH!HelpersSound' /\ isOpen' = r.open /\ thrown' = r.thrown
  <2>1. helpersAlive' \subseteq GH!Target
    BY <1>3, <1>5
  <2> QED BY <1>5, <1>10, <1>16, <2>1, Becoming
<1> QED BY <1>1, <1>9, <1>13, <1>14, <1>17 DEF MenusThrowNothing


LEMMA EscapeKeeps ==
  ASSUME GH!HelpersSound, GH!Escape
  PROVE  GH!HelpersSound' /\ (thrown = {} => thrown' = {})
<1> DEFINE h == GH!Top
           x == GH!Last(_grabStack[h])
           r == GH!ungrab(GH!World, h, x, TRUE)
<1>1. _grabHelperStack # <<>> /\ _grabStack[h] # <<>> /\ GH!Becomes(r) /\ helpersAlive' = helpersAlive
  BY DEF GH!Escape
<1>2. Good(GH!World, helpersAlive) /\ GH!InStep(GH!World) /\ helpersAlive \subseteq GH!Target
  BY SoundIsGood
<1>3. h \in Helper /\ GH!On(_grabHelperStack) = {h}
  <2>1. _grabHelperStack \in Seq(Helper)
    BY <1>2, WorldIs DEF Good, GH!Worlds
  <2> QED BY <1>1, <2>1, Fronted DEF GH!Top
<1> HIDE DEF h
<1>4. x \in GH!ToSet(GH!World.grabs[h])
  <2>1. _grabStack[h] \in Seq(GH!Target)
    BY <1>2, <1>3, WorldIs DEF Good, GH!Worlds
  <2>2. GH!Last(_grabStack[h]) \in GH!ToSet(_grabStack[h])
    BY <1>1, <2>1, Fronted
  <2> QED BY <2>2, WorldIs
<1> HIDE DEF x
<1>5. Ungrabs(GH!World, r, h, x, helpersAlive)
  <2>1. GH!World = [GH!World EXCEPT !.open = GH!World.open]
    BY <1>2 DEF Good, GH!Worlds
  <2>2. Ungrabs(GH!World, GH!ungrab([GH!World EXCEPT !.open = GH!World.open], h, x, TRUE), h, x, helpersAlive)
    BY <1>2, <1>3, <1>4, UngrabGood, Zenon
  <2> QED BY <2>1, <2>2
<1> HIDE DEF r
<1>6. Good(r, helpersAlive) /\ GH!InStep(r) /\ (thrown = {} => r.thrown = {})
  BY <1>2, <1>3, <1>5, WorldIs DEF Ungrabs
<1>7. GH!HelpersSound' /\ thrown' = r.thrown
  BY <1>1, <1>2, <1>6, Becoming
<1> QED BY <1>6, <1>7

(* What no property is about may change.                                   *)
LEMMA Ignoring ==
  ASSUME NEW w, NEW live, Good(w, live), NEW ignore \in SUBSET Helper
  PROVE  LET r == [w EXCEPT !.ignore = ignore]
         IN  /\ Good(r, live) /\ (GH!InStep(w) => GH!InStep(r))
             /\ r.open = w.open /\ r.grabs = w.grabs /\ r.helpers = w.helpers
             /\ r.thrown = w.thrown
<1> DEFINE r == [w EXCEPT !.ignore = ignore]
<1>1. w \in GH!Worlds /\ GH!GrabbedIsOpen(w, live) /\ ~w.stop
  BY DEF Good
<1>2. /\ r \in GH!Worlds /\ r.open = w.open /\ r.grabs = w.grabs /\ r.stop = w.stop
      /\ r.thrown = w.thrown /\ r.modal = w.modal /\ r.helpers = w.helpers
      /\ r.count = w.count /\ r.begun = w.begun
  BY <1>1 DEF GH!Worlds
<1> HIDE DEF r
<1>3. GH!GrabbedIsOpen(r, live)
  BY <1>1, <1>2 DEF GH!GrabbedIsOpen
<1>4. GH!InStep(w) => GH!InStep(r)
  BY <1>2 DEF GH!InStep, GH!IsGrabbed
<1> QED BY <1>1, <1>2, <1>3, <1>4 DEF Good, r

LEMMA PressKeeps ==
  ASSUME GH!HelpersSound, NEW k, GH!PressOutside(k)
  PROVE  GH!HelpersSound' /\ (thrown = {} => thrown' = {})
<1> DEFINE h == GH!Top
           x == _grabStack[h][k + 1]
           w == [GH!World EXCEPT !.ignore = @ \cup {h}]
           r == GH!ungrab(w, h, x, TRUE)
<1>1. /\ _grabHelperStack # <<>> /\ k \in 0..(Len(_grabStack[h]) - 1)
      /\ GH!Becomes(r) /\ helpersAlive' = helpersAlive
  BY DEF GH!PressOutside
<1>2. Good(GH!World, helpersAlive) /\ GH!InStep(GH!World) /\ helpersAlive \subseteq GH!Target
  BY SoundIsGood
<1>3. h \in Helper /\ GH!On(_grabHelperStack) = {h}
  <2>1. _grabHelperStack \in Seq(Helper)
    BY <1>2, WorldIs DEF Good, GH!Worlds
  <2> QED BY <1>1, <2>1, Fronted DEF GH!Top
<1> HIDE DEF h
<1>4. /\ Good(w, helpersAlive) /\ GH!InStep(w) /\ w.grabs = _grabStack /\ w.helpers = _grabHelperStack
      /\ w.thrown = thrown
  <2> DEFINE i == GH!World.ignore \cup {h}
  <2>1. i \in SUBSET Helper
    BY <1>2, <1>3 DEF Good, GH!Worlds
  <2>2. w = [GH!World EXCEPT !.ignore = i]
    OBVIOUS
  <2> HIDE DEF w, i
  <2>3. /\ Good(w, helpersAlive) /\ (GH!InStep(GH!World) => GH!InStep(w)) /\ w.grabs = GH!World.grabs
        /\ w.helpers = GH!World.helpers /\ w.thrown = GH!World.thrown
    BY <1>2, <2>1, <2>2, Ignoring
  <2> QED BY <1>2, <2>3, WorldIs
<1> HIDE DEF w
<1>5. x \in GH!ToSet(w.grabs[h])
  <2>1. _grabStack[h] \in Seq(GH!Target)
    BY <1>2, <1>3, WorldIs DEF Good, GH!Worlds
  <2>2. k + 1 \in 1..Len(_grabStack[h])
    <3>1. Len(_grabStack[h]) \in Nat
      BY <2>1
    <3> QED BY <1>1, <3>1
  <2>3. x \in GH!ToSet(_grabStack[h])
    BY <2>1, <2>2, SeqIs
  <2> QED BY <1>4, <2>3
<1> HIDE DEF x
<1>6. Ungrabs(w, r, h, x, helpersAlive)
  <2>1. w = [w EXCEPT !.open = w.open]
    BY <1>4 DEF Good, GH!Worlds
  <2>2. Ungrabs(w, GH!ungrab([w EXCEPT !.open = w.open], h, x, TRUE), h, x, helpersAlive)
    BY <1>3, <1>4, <1>5, UngrabGood, Zenon
  <2> QED BY <2>1, <2>2
<1> HIDE DEF r
<1>7. Good(r, helpersAlive) /\ GH!InStep(r) /\ (thrown = {} => r.thrown = {})
  BY <1>3, <1>4, <1>6 DEF Ungrabs
<1>8. GH!HelpersSound' /\ thrown' = r.thrown
  BY <1>1, <1>2, <1>7, Becoming
<1> QED BY <1>7, <1>8

LEMMA ReleaseKeeps ==
  ASSUME GH!HelpersSound, GH!Release
  PROVE  GH!HelpersSound' /\ (thrown = {} => thrown' = {})
<1> DEFINE i == GH!World.ignore \ {GH!Top}
           r == [GH!World EXCEPT !.ignore = i]
<1>1. GH!Becomes(r) /\ helpersAlive' = helpersAlive
  BY DEF GH!Release
<1>2. Good(GH!World, helpersAlive) /\ GH!InStep(GH!World) /\ helpersAlive \subseteq GH!Target
  BY SoundIsGood
<1>3. i \in SUBSET Helper
  BY <1>2 DEF Good, GH!Worlds
<1> HIDE DEF i
<1>4. Good(r, helpersAlive) /\ (GH!InStep(GH!World) => GH!InStep(r)) /\ r.thrown = GH!World.thrown
  BY <1>2, <1>3, Ignoring
<1> HIDE DEF r
<1>5. GH!HelpersSound' /\ thrown' = r.thrown
  BY <1>1, <1>2, <1>4, Becoming
<1> QED BY <1>4, <1>5, WorldIs

LEMMA PushesKeeps ==
  ASSUME GH!HelpersSound, NEW a \in Other, GH!OtherPushes(a)
  PROVE  GH!HelpersSound' /\ thrown' = thrown
<1> DEFINE s == helpersModal
           S == Helper \cup Other
           t == Append(s, a)
           r == GH!PushModal(GH!World, a)
<1>1. a \notin GH!ToSet(s) /\ GH!Becomes(r) /\ helpersAlive' = helpersAlive
  BY DEF GH!OtherPushes
<1>2. Good(GH!World, helpersAlive) /\ GH!InStep(GH!World) /\ helpersAlive \subseteq GH!Target
  BY SoundIsGood
<1>3. /\ s \in Seq(S) /\ a \in S /\ a \notin Helper /\ GH!World \in GH!Worlds /\ begun \in BOOLEAN
  BY <1>2, WorldIs, Constants DEF GH!ConstantsAssumption, Good, GH!Worlds
<1> DEFINE y == (begun \/ s = <<>>)
<1>4. r = [GH!World EXCEPT !.modal = t, !.begun = y]
  BY <1>3, WorldIs DEF GH!PushModal, GH!Worlds
<1> HIDE DEF s, S, r
<1>5. /\ t \in Seq(S) /\ t # <<>> /\ GH!ToSet(t) = GH!ToSet(s) \cup {a}
      /\ \A d, e : GH!Below(t, d, e) <=> GH!Below(s, d, e) \/ (d \in GH!ToSet(s) /\ e = a)
  BY <1>3, Appended
<1> HIDE DEF t, y
<1>6. /\ r \in GH!Worlds /\ r.open = isOpen /\ r.grabs = _grabStack /\ r.stop = GH!World.stop
      /\ r.thrown = thrown /\ r.modal = t /\ r.helpers = _grabHelperStack
      /\ r.count = _modalCount /\ r.begun = y
  <2>1. y \in BOOLEAN
    BY DEF y
  <2> QED BY <1>3, <1>4, <1>5, <2>1, WorldIs DEF GH!Worlds, S
<1>7. Good(r, helpersAlive)
  BY <1>2, <1>6, WorldIs DEF Good, GH!GrabbedIsOpen
<1>8. GH!InStep(r)
  <2> SUFFICES ASSUME thrown = {} PROVE GH!InStep(r)
    BY <1>6 DEF GH!InStep
  <2>1. /\ \A e \in S : ~GH!Below(s, e, e)
        /\ GH!ToSet(_grabHelperStack) = GH!ToSet(s) \cap Helper
        /\ \A d, e \in Helper : GH!Below(_grabHelperStack, d, e) <=> GH!Below(s, d, e)
        /\ \A h \in Helper : h \in GH!ToSet(s) <=> _modalCount[h] > 0
        /\ begun <=> s # <<>>
    BY <1>2, WorldIs DEF GH!InStep, s, S
  <2>2. \A m \in Menu : GH!IsGrabbed(r, HelperOf[m], m) => GH!On(r.helpers) = {HelperOf[m]}
    BY <1>2, <1>6, WorldIs DEF GH!InStep, GH!IsGrabbed
  <2>3. \A e \in Helper \cup Other : ~GH!Below(t, e, e)
    BY <1>1, <1>5, <2>1 DEF S
  <2>4. GH!ToSet(_grabHelperStack) = GH!ToSet(t) \cap Helper
    BY <1>3, <1>5, <2>1
  <2>5. \A d, e \in Helper : GH!Below(_grabHelperStack, d, e) <=> GH!Below(t, d, e)
    BY <1>3, <1>5, <2>1
  <2>6. \A h \in Helper : h \in GH!ToSet(t) <=> _modalCount[h] > 0
    BY <1>3, <1>5, <2>1
  <2>7. y
    BY <2>1 DEF y
  <2> QED BY <1>5, <1>6, <2>2, <2>3, <2>4, <2>5, <2>6, <2>7 DEF GH!InStep
<1>9. GH!HelpersSound' /\ thrown' = r.thrown
  BY <1>1, <1>2, <1>7, <1>8, Becoming
<1> QED BY <1>6, <1>9

LEMMA PopsKeeps ==
  ASSUME GH!HelpersSound, NEW a \in Other, GH!OtherPops(a)
  PROVE  GH!HelpersSound' /\ thrown' = thrown
<1> DEFINE s == helpersModal
           S == Helper \cup Other
           t == GH!RemoveAt(s, GH!First(s, a))
           y == (begun /\ Len(s) > 1)
           r == GH!PopModal(GH!World, a)
<1>1. a \in GH!ToSet(s) /\ GH!Becomes(r) /\ helpersAlive' = helpersAlive
  BY DEF GH!OtherPops
<1>2. Good(GH!World, helpersAlive) /\ GH!InStep(GH!World) /\ helpersAlive \subseteq GH!Target
  BY SoundIsGood
<1>3. /\ s \in Seq(S) /\ a \notin Helper /\ GH!World \in GH!Worlds /\ begun \in BOOLEAN
  BY <1>2, WorldIs, Constants DEF GH!ConstantsAssumption, Good, GH!Worlds
<1>4. r \in GH!Worlds /\ r = [GH!World EXCEPT !.modal = t, !.begun = y]
  <2>1. /\ r \in GH!Worlds
        /\ r = [GH!World EXCEPT !.modal = GH!RemoveAt(GH!World.modal, GH!First(GH!World.modal, a)),
                             !.begun = GH!World.begun /\ Len(GH!World.modal) > 1]
    <3>1. a \in GH!ToSet(GH!World.modal)
      BY <1>1, WorldIs
    <3> QED BY <1>3, <3>1, Popped, Zenon
  <2> HIDE DEF r
  <2> QED BY <2>1, WorldIs
<1> HIDE DEF s, S, r
<1>5. /\ t \in Seq(S) /\ Len(t) = Len(s) - 1
      /\ (\A e \in S : ~GH!Below(s, e, e)) =>
           /\ GH!ToSet(t) = GH!ToSet(s) \ {a}
           /\ \A d, e : GH!Below(t, d, e) <=> GH!Below(s, d, e) /\ d # a /\ e # a
  BY <1>1, <1>3, Removed
<1> HIDE DEF t, y
<1>6. /\ r.open = isOpen /\ r.grabs = _grabStack /\ r.stop = GH!World.stop
      /\ r.thrown = thrown /\ r.modal = t /\ r.helpers = _grabHelperStack
      /\ r.count = _modalCount /\ r.begun = y
  BY <1>3, <1>4, WorldIs DEF GH!Worlds
<1>7. Good(r, helpersAlive)
  BY <1>2, <1>4, <1>6, WorldIs DEF Good, GH!GrabbedIsOpen
<1>8. GH!InStep(r)
  <2> SUFFICES ASSUME thrown = {} PROVE GH!InStep(r)
    BY <1>6 DEF GH!InStep
  <2>1. /\ \A e \in S : ~GH!Below(s, e, e)
        /\ GH!ToSet(_grabHelperStack) = GH!ToSet(s) \cap Helper
        /\ \A d, e \in Helper : GH!Below(_grabHelperStack, d, e) <=> GH!Below(s, d, e)
        /\ \A h \in Helper : h \in GH!ToSet(s) <=> _modalCount[h] > 0
        /\ begun <=> s # <<>>
    BY <1>2, WorldIs DEF GH!InStep, s, S
  <2>2. \A m \in Menu : GH!IsGrabbed(r, HelperOf[m], m) => GH!On(r.helpers) = {HelperOf[m]}
    BY <1>2, <1>6, WorldIs DEF GH!InStep, GH!IsGrabbed
  <2>3. \A e \in Helper \cup Other : ~GH!Below(t, e, e)
    BY <1>5, <2>1 DEF S
  <2>4. GH!ToSet(_grabHelperStack) = GH!ToSet(t) \cap Helper
    BY <1>3, <1>5, <2>1
  <2>5. \A d, e \in Helper : GH!Below(_grabHelperStack, d, e) <=> GH!Below(t, d, e)
    BY <1>3, <1>5, <2>1
  <2>6. \A h \in Helper : h \in GH!ToSet(t) <=> _modalCount[h] > 0
    BY <1>3, <1>5, <2>1
  <2>7. y <=> t # <<>>
    <3>1. s # <<>>
      BY <1>1 DEF GH!ToSet
    <3>2. t # <<>> <=> Len(s) > 1
      BY <1>3, <1>5, <3>1, Shorter
    <3> QED BY <2>1, <3>1, <3>2 DEF y
  <2> QED BY <1>6, <2>2, <2>3, <2>4, <2>5, <2>6, <2>7 DEF GH!InStep
<1>9. GH!HelpersSound' /\ thrown' = r.thrown
  BY <1>1, <1>2, <1>7, <1>8, Becoming
<1> QED BY <1>6, <1>9

LEMMA HelpersBegin == GH!Init => GH!HelpersSound
<1> SUFFICES ASSUME GH!Init PROVE GH!HelpersSound
  OBVIOUS
<1>1. GH!World = [open |-> {}, grabs |-> [h \in Helper |-> <<>>], count |-> [h \in Helper |-> 0],
               ignore |-> {}, helpers |-> <<>>, modal |-> <<>>, begun |-> FALSE,
               thrown |-> {}, stop |-> FALSE]
  BY DEF GH!World, GH!Init
<1>2. GH!World \in GH!Worlds
  BY <1>1 DEF GH!Worlds
<1>3. \A h \in Helper : GH!World.grabs[h] = <<>> /\ GH!World.count[h] = 0
  BY <1>1
<1>4. GH!GrabbedIsOpen(GH!World, helpersAlive)
  BY <1>3 DEF GH!GrabbedIsOpen, GH!ToSet
<1>5. GH!InStep(GH!World)
  <2>1. GH!World.modal = <<>> /\ GH!World.helpers = <<>> /\ GH!World.begun = FALSE
    BY <1>1
  <2>2. \A a, b : ~GH!Below(GH!World.modal, a, b) /\ ~GH!Below(GH!World.helpers, a, b)
    BY <2>1 DEF GH!Below
  <2>3. GH!ToSet(GH!World.modal) = {} /\ GH!ToSet(GH!World.helpers) = {}
    BY <2>1 DEF GH!ToSet
  <2>4. \A m \in Menu : ~GH!IsGrabbed(GH!World, HelperOf[m], m)
    BY <1>3, HelperIs DEF GH!IsGrabbed, GH!ToSet
  <2> QED BY <1>3, <2>1, <2>2, <2>3, <2>4 DEF GH!InStep
<1>6. helpersAlive \subseteq GH!Target
  BY DEF GH!Init
<1> QED BY <1>2, <1>4, <1>5, <1>6 DEF GH!HelpersSound, GH!TypeOK

LEMMA HelpersStep ==
  ASSUME GH!HelpersSound, [GH!Next]_(GH!vars)
  PROVE  GH!HelpersSound' /\ MenusThrowNothing
<1>1. ASSUME NEW m \in Menu, GH!OpenMenu(m)
      PROVE  GH!HelpersSound' /\ MenusThrowNothing
  BY <1>1, OpenMenuKeeps DEF MenusThrowNothing
<1>2. ASSUME NEW m \in Menu, GH!DestroyMenu(m)
      PROVE  GH!HelpersSound' /\ MenusThrowNothing
  BY <1>2, DestroyMenuKeeps DEF MenusThrowNothing
<1>3. ASSUME NEW f \in Popup, GH!popup(f)
      PROVE  GH!HelpersSound' /\ MenusThrowNothing
  BY <1>3, PopupKeeps DEF MenusThrowNothing
<1>4. ASSUME NEW f \in Popup, GH!DestroyFolder(f)
      PROVE  GH!HelpersSound' /\ MenusThrowNothing
  BY <1>4, DestroyFolderKeeps
<1>5. ASSUME NEW x \in GH!Target, GH!Close(x)
      PROVE  GH!HelpersSound' /\ MenusThrowNothing
  BY <1>5, CloseKeeps
<1>6. CASE GH!_sessionUpdated
  BY <1>6, SessionKeeps DEF MenusThrowNothing
<1>7. CASE GH!Escape
  BY <1>7, EscapeKeeps DEF MenusThrowNothing
<1>8. CASE GH!Release
  BY <1>8, ReleaseKeeps DEF MenusThrowNothing
<1>9. ASSUME NEW k \in 0..MaxModal, GH!PressOutside(k)
      PROVE  GH!HelpersSound' /\ MenusThrowNothing
  BY <1>9, PressKeeps DEF MenusThrowNothing
<1>10. ASSUME NEW a \in Other, GH!OtherPushes(a)
       PROVE  GH!HelpersSound' /\ MenusThrowNothing
  BY <1>10, PushesKeeps DEF MenusThrowNothing
<1>11. ASSUME NEW a \in Other, GH!OtherPops(a)
       PROVE  GH!HelpersSound' /\ MenusThrowNothing
  BY <1>11, PopsKeeps DEF MenusThrowNothing
<1>12. CASE UNCHANGED GH!vars
  <2>1. GH!World' = GH!World /\ helpersAlive' = helpersAlive /\ thrown' = thrown
    BY <1>12 DEF GH!vars, GH!World
  <2>2. GH!HelpersSound' <=> Good(GH!World', helpersAlive') /\ GH!InStep(GH!World') /\ helpersAlive' \subseteq GH!Target
    BY DEF GH!World, GH!HelpersSound, GH!TypeOK, Good
  <2> QED BY <2>1, <2>2, SoundIsGood DEF MenusThrowNothing
<1> QED
  BY <1>1, <1>2, <1>3, <1>4, <1>5, <1>6, <1>7, <1>8, <1>9, <1>10, <1>11, <1>12
      DEF GH!Next

-----------------------------------------------------------------------------
(* A behaviour of MCGrabs runs one component.                              *)
LEMMA MCStep == [MCNext]_mcVars => [GH!Next]_(GH!vars)
<1> SUFFICES ASSUME [MCNext]_mcVars, ~GH!Next  PROVE UNCHANGED GH!vars
  OBVIOUS
<1>1. UNCHANGED helpersVars
  BY DEF MCNext, mcVars
<1> QED  BY <1>1 DEF helpersVars, GH!vars

(* The helpers are sound in every behaviour of MCGrabs.                    *)
THEOREM HelpersStaySound == MCSpec => []HelpersSound
<1>1. MCInit => GH!HelpersSound
  BY HelpersBegin DEF MCInit
<1>2. GH!HelpersSound /\ [MCNext]_mcVars => GH!HelpersSound'
  BY MCStep, HelpersStep
<1>3. GH!HelpersSound => HelpersSound
  BY DEF HelpersSound
<1> QED  BY <1>1, <1>2, <1>3, PTL DEF MCSpec

(* Menus alone throw nothing: what is thrown first comes from the popup of *)
(* a folder that goes, whatever else is open then.                         *)
THEOREM MenusStayInOrder == MCSpec => MenusPopInOrder
<1>1. MCInit => GH!HelpersSound
  BY HelpersBegin DEF MCInit
<1>2. GH!HelpersSound /\ [MCNext]_mcVars => GH!HelpersSound'
  BY MCStep, HelpersStep
<1>3. GH!HelpersSound /\ [MCNext]_mcVars =>
        [thrown = {} /\ thrown' # {} => \E f \in Popup : f \in isOpen /\ f \notin isOpen']_(GH!vars)
  BY MCStep, HelpersStep DEF MenusThrowNothing
<1> QED  BY <1>1, <1>2, <1>3, PTL DEF MCSpec, MenusPopInOrder, GH!MenusPopInOrder

=============================================================================
