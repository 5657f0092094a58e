----------------------------- MODULE PageLayout -----------------------------
(***************************************************************************)
(* The tiling tree of one visible workspace (workspace_t, viewport_t,      *)
(* split_t, notebook_t of src/src/page-*.cxx) and the views of the managed *)
(* windows in it.                                                          *)
(*                                                                         *)
(* A viewport covers one rectangle of the screen and holds one subtree; a  *)
(* node of the subtree is a notebook, which holds tabs, or a split, which  *)
(* holds two packs.  A window has at most one view: a tab of a notebook    *)
(* (view_notebook_t), a floating view or a fullscreen view.  Some windows  *)
(* are managed and have no view: those mapped while already fullscreen.    *)
(*                                                                         *)
(* Abstracted: rectangles (see PageSplit), the stacking order of the       *)
(* layers, the order of gather_children_root_first and of the tabs of a    *)
(* notebook (any choice they could make is allowed), and which of vertical *)
(* or horizontal a split is.  Node identities stand for addresses: one     *)
(* that is free may be used again.                                         *)
(***************************************************************************)
EXTENDS Naturals, FiniteSets, Sequences, SequencesExt

CONSTANTS
  Client,         \* the windows (client_managed_t)
  Notebook,       \* identities of notebook_t objects; bounds how many are alive
  Split,          \* identities of split_t objects
  MaxViewports,   \* bound on the number of viewports of the workspace
  AutoRefocus,    \* the auto_refocus option of page.conf
  Null

ASSUME ConstantsAssumption ==
  /\ MaxViewports \in Nat \ {0}
  /\ AutoRefocus \in BOOLEAN
  /\ IsFiniteSet(Client)
  /\ Notebook \cap Split = {}
  /\ Null \notin Client \cup Notebook \cup Split \cup Nat
  /\ (Notebook \cup Split) \cap Nat = {}

Viewport == 1..MaxViewports
Node     == Notebook \cup Split

VARIABLES
  nviewports,       \* size of _viewport_outputs
  subtree,          \* viewport_t::_subtree
  parent,           \* tree_t::_parent of the nodes; Null: not in the tree
  pack0, pack1,     \* split_t::_pack0 and _pack1
  tabs,             \* notebook_t::_clients_tab_order, as a set
  selected,         \* notebook_t::_selected
  default_pop,      \* workspace_t::_default_pop
  marked,           \* the notebooks whose _is_default is set
  managed,          \* page_t::_net_client_list
  floating,         \* the views of _floating_layer
  fullscreen,       \* the views of _fullscreen_layer
  revert_type,      \* view_fullscreen_t::revert_type
  revert_notebook,  \* view_fullscreen_t::revert_notebook
  history,          \* workspace_t::_client_focus_history, without expired entries
  active            \* workspace_t::_net_active_window

treeVars  == <<nviewports, subtree, parent, pack0, pack1>>
popVars   == <<default_pop, marked>>
modeVars  == <<managed, floating, fullscreen, revert_type, revert_notebook>>
tabVars   == <<tabs, selected>>
focusVars == <<history, active>>
vars == <<treeVars, popVars, modeVars, tabVars, focusVars>>

-----------------------------------------------------------------------------
(* The tree.                                                               *)

Live(n) == parent[n] # Null
LiveNotebooks == {n \in Notebook : Live(n)}

(* The nodes below viewport v: the least set that holds its subtree and is *)
(* closed under the packs of its splits (gather_children_root_first).      *)
Below(v) ==
  {n \in Node : \A S \in SUBSET Node :
     (/\ subtree[v] \in S
      /\ \A s \in S \cap Split : {pack0[s], pack1[s]} \cap Node \subseteq S)
     => n \in S}

(* replace(src, by) of viewport_t and split_t, the parent p's side of it:  *)
(* the slot of p that holds src holds by.                                  *)
ReplaceInSubtree(p, src, by) ==
  [v \in Viewport |-> IF v = p /\ subtree[v] = src THEN by ELSE subtree[v]]
ReplaceInPack(pack, p, src, by) ==
  [s \in Split |-> IF s = p /\ pack[s] = src THEN by ELSE pack[s]]

(* The notebooks ensure_default_notebook may return when the workspace     *)
(* holds the notebooks S: the default one, or else whichever comes first.  *)
EnsureDefault(S) == IF default_pop \in S THEN {default_pop} ELSE S

(* default_pop and the marks once d is the default and the notebooks dead  *)
(* are gone.                                                               *)
DefaultBecomes(d, dead) ==
  /\ default_pop' = d
  /\ marked' = (IF d = default_pop THEN marked ELSE marked \cup {d}) \ dead

-----------------------------------------------------------------------------
(* Tabs and focus.                                                         *)

HasTab(c)  == \E n \in Notebook : c \in tabs[n]
Viewed     == floating \cup fullscreen \cup UNION {tabs[n] : n \in Notebook}
Holder(c)  == CHOOSE n \in Notebook : c \in tabs[n]

(* The lists without repetition that the focus history may be.             *)
Histories ==
  {h \in UNION {[1..k -> Client] : k \in 0..Cardinality(Client)} :
     \A i, j \in DOMAIN h : i # j => h[i] # h[j]}

Before(h, c, d) == \E i, j \in DOMAIN h : i < j /\ h[i] = c /\ h[j] = d

(* The history once the views front have come to its front, in this order, *)
(* and those of the windows gone have left it; the others keep their order.*)
(* There is one such list.                                                 *)
HistoryAfter(front, gone) ==
  {h \in Histories :
     /\ ToSet(h) = (ToSet(history) \cup ToSet(front)) \ gone
     /\ \A i \in DOMAIN front : i \in DOMAIN h /\ h[i] = front[i]
     /\ \A c, d \in ToSet(h) \ ToSet(front) : Before(h, c, d) <=> Before(history, c, d)}

(* Mutant of SelectionWithout: any tab left is selected, not the recent one.*)
SelectionWithoutRecency(n, gone) ==
  LET left == tabs[n] \ gone
  IN  IF selected[n] \notin gone THEN {selected[n]} ELSE IF left = {} THEN {Null} ELSE left

(* What remove_view_notebook may select in notebook n once the tabs gone   *)
(* are out of it: the selection stays if it is not one of them, else the   *)
(* most recently focused tab left, else the front one.                     *)
SelectionWithout(n, gone) ==
  LET left   == tabs[n] \ gone
      recent == {c \in left : \E i \in 1..Len(history) :
                   history[i] = c /\ \A j \in 1..i-1 : history[j] \notin left}
  IN  IF selected[n] \notin gone THEN {selected[n]}
      ELSE IF left = {} THEN {Null}
      ELSE IF recent # {} THEN recent
      ELSE left

(* Mutant of TabGoesTo: the tab is not taken out of the old notebook.      *)
TabIsCopiedTo(c, n, sel) ==
  /\ tabs' = [tabs EXCEPT ![n] = @ \cup {c}]
  /\ selected' = [sel EXCEPT ![n] = c]
  /\ history' \in HistoryAfter(<<c>>, {})
  /\ active' = c

(* A tab of c is added to notebook n, selected and given the focus         *)
(* (_add_client_view in a visible workspace); sel is the selection of the  *)
(* notebooks once c has left the one that held it, if any.                 *)
TabGoesTo(c, n, sel) ==
  /\ tabs' = [m \in Notebook |-> IF m = n THEN tabs[m] \cup {c} ELSE tabs[m] \ {c}]
  /\ selected' = [sel EXCEPT ![n] = c]
  /\ history' \in HistoryAfter(<<c>>, {})
  /\ active' = c

(* The selections remove_view_notebook leaves once c is in no notebook.    *)
SelectionsAfterLeaving(c) ==
  {[n \in Notebook |-> IF c \in tabs[n] THEN x ELSE selected[n]] :
     x \in IF HasTab(c) THEN SelectionWithout(Holder(c), {c}) ELSE {Null}}

(* set_focus(v) for a view that is not a tab.                              *)
Focus(c) ==
  /\ history' \in HistoryAfter(<<c>>, {})
  /\ active' = c

(* The fullscreen view of c dies, and what it remembers with it.           *)
ForgetRevert(c) ==
  /\ revert_type' = [revert_type EXCEPT ![c] = "floating"]
  /\ revert_notebook' = [revert_notebook EXCEPT ![c] = Null]

(* The view of c dies: the weak references to it expire.                   *)
ForgetView(c) ==
  /\ history' \in HistoryAfter(<<>>, {c})
  /\ active' = IF active = c THEN Null ELSE active

-----------------------------------------------------------------------------
Init ==
  /\ nviewports \in Viewport
  /\ \E first \in [Viewport -> Notebook] :
       /\ \A v, w \in Viewport : v # w => first[v] # first[w]
       /\ subtree = [v \in Viewport |-> IF v <= nviewports THEN first[v] ELSE Null]
       /\ parent = [n \in Node |->
            IF \E v \in 1..nviewports : first[v] = n
            THEN CHOOSE v \in 1..nviewports : first[v] = n ELSE Null]
  /\ pack0 = [s \in Split |-> Null]
  /\ pack1 = [s \in Split |-> Null]
  /\ tabs = [n \in Notebook |-> {}]
  /\ selected = [n \in Notebook |-> Null]
  /\ default_pop = Null
  /\ marked = {}
  /\ managed = {}
  /\ floating = {}
  /\ fullscreen = {}
  /\ revert_type = [c \in Client |-> "floating"]
  /\ revert_notebook = [c \in Client |-> Null]
  /\ history = <<>>
  /\ active = Null

-----------------------------------------------------------------------------
(* Windows come and go.                                                    *)

(* A window is mapped: it becomes a tab of the default notebook, unless it *)
(* is already fullscreen, and then it gets no view.                        *)
MapWindow(c) ==
  /\ c \notin managed
  /\ managed' = managed \cup {c}
  /\ \/ \E d \in EnsureDefault(LiveNotebooks) :
          DefaultBecomes(d, {}) /\ TabGoesTo(c, d, selected)
     \/ UNCHANGED <<popVars, tabVars, focusVars>>
  /\ UNCHANGED <<treeVars, floating, fullscreen, revert_type, revert_notebook>>

(* Mutant of Unmanage: the last view of the history gets the focus even if *)
(* the window that goes had none.                                          *)
UnmanageRefocusing(c) ==
  /\ c \in managed
  /\ managed' = managed \ {c}
  /\ floating' = floating \ {c}
  /\ fullscreen' = fullscreen \ {c}
  /\ tabs' = [n \in Notebook |-> tabs[n] \ {c}]
  /\ history' \in HistoryAfter(<<>>, {c})
  /\ \E sel \in SelectionsAfterLeaving(c) :
       IF history' # <<>>
       THEN /\ active' = Head(history')
            /\ selected' = [n \in Notebook |-> IF active' \in tabs[n] THEN active' ELSE sel[n]]
       ELSE active' = Null /\ selected' = sel
  /\ UNCHANGED <<treeVars, popVars>>
  /\ ForgetRevert(c)

(* A window is destroyed or unmanaged: its view is removed and, with       *)
(* auto_refocus, the view focused before it gets the focus and is raised.  *)
Unmanage(c) ==
  /\ c \in managed
  /\ managed' = managed \ {c}
  /\ floating' = floating \ {c}
  /\ fullscreen' = fullscreen \ {c}
  /\ tabs' = [n \in Notebook |-> tabs[n] \ {c}]
  /\ history' \in HistoryAfter(<<>>, {c})
  /\ \E sel \in SelectionsAfterLeaving(c) :
       IF AutoRefocus /\ active = c /\ history' # <<>>
       THEN LET f == Head(history')
            IN  /\ active' = f
                /\ selected' = [n \in Notebook |-> IF f \in tabs[n] THEN f ELSE sel[n]]
       ELSE /\ active' = IF active = c THEN Null ELSE active
            /\ selected' = sel
  /\ UNCHANGED <<treeVars, popVars>>
  /\ ForgetRevert(c)

(* Mutant of FocusWindow: the tab that gets the focus is not selected.     *)
FocusWindowUnselected(c) ==
  /\ c \in Viewed
  /\ history' \in HistoryAfter(<<c>>, {})
  /\ active' = IF HasTab(c) THEN c ELSE active
  /\ UNCHANGED <<treeVars, popVars, modeVars, tabs, selected>>

(* The window manager gives the focus to window c.                         *)
FocusWindow(c) ==
  /\ c \in Viewed
  /\ history' \in HistoryAfter(<<c>>, {})
  /\ IF HasTab(c)
     THEN active' = c /\ selected' = [selected EXCEPT ![Holder(c)] = c]
     ELSE UNCHANGED <<active, selected>>
  /\ UNCHANGED <<treeVars, popVars, modeVars, tabs>>

-----------------------------------------------------------------------------
(* A window changes from one kind of view to another.                      *)

(* make-floating-window, or the unbind button of a tab.                    *)
MakeFloating(c) ==
  /\ c \in Viewed \ floating
  /\ floating' = floating \cup {c}
  /\ fullscreen' = fullscreen \ {c}
  /\ tabs' = [n \in Notebook |-> tabs[n] \ {c}]
  /\ selected' \in SelectionsAfterLeaving(c)
  /\ Focus(c)
  /\ UNCHANGED <<treeVars, popVars, managed>>
  /\ ForgetRevert(c)

(* The notebook a fullscreen view reverts to, after ensure_default_notebook*)
(* has returned d: the one it was taken from, as long as that is alive.    *)
RevertNotebook(c, d) ==
  IF c \in fullscreen /\ revert_notebook[c] # Null THEN revert_notebook[c] ELSE d

(* make-notebook-window, or the window asked to be minimized.              *)
MakeNotebook(c) ==
  /\ c \in floating \cup fullscreen
  /\ floating' = floating \ {c}
  /\ fullscreen' = fullscreen \ {c}
  /\ \E d \in EnsureDefault(LiveNotebooks) :
       DefaultBecomes(d, {}) /\ TabGoesTo(c, RevertNotebook(c, d), selected)
  /\ UNCHANGED <<treeVars, managed>>
  /\ ForgetRevert(c)

(* The window has become fullscreen.                                       *)
EnterFullscreen(c) ==
  /\ c \in Viewed \ fullscreen
  /\ fullscreen' = fullscreen \cup {c}
  /\ floating' = floating \ {c}
  /\ tabs' = [n \in Notebook |-> tabs[n] \ {c}]
  /\ selected' \in SelectionsAfterLeaving(c)
  /\ revert_type' = [revert_type EXCEPT ![c] = IF HasTab(c) THEN "notebook" ELSE "floating"]
  /\ revert_notebook' = [revert_notebook EXCEPT ![c] = IF HasTab(c) THEN Holder(c) ELSE Null]
  /\ ForgetView(c)
  /\ UNCHANGED <<treeVars, popVars, managed>>

(* The window is no longer fullscreen: it reverts to the view it had.      *)
LeaveFullscreen(c) ==
  /\ c \in fullscreen
  /\ fullscreen' = fullscreen \ {c}
  /\ IF revert_type[c] = "notebook"
     THEN /\ \E d \in EnsureDefault(LiveNotebooks) :
               DefaultBecomes(d, {}) /\ TabGoesTo(c, RevertNotebook(c, d), selected)
          /\ UNCHANGED floating
     ELSE /\ floating' = floating \cup {c}
          /\ Focus(c)
          /\ UNCHANGED <<popVars, tabVars>>
  /\ UNCHANGED <<treeVars, managed>>
  /\ ForgetRevert(c)

-----------------------------------------------------------------------------
(* The user arranges tabs and notebooks.                                   *)

(* A click on a tab.                                                       *)
ActivateTab(c) ==
  /\ HasTab(c)
  /\ selected' = [selected EXCEPT ![Holder(c)] = c]
  /\ Focus(c)
  /\ UNCHANGED <<treeVars, popVars, modeVars, tabs>>

(* A tab is dropped on another notebook.                                   *)
MoveTab(c, n) ==
  /\ HasTab(c) /\ Live(n) /\ c \notin tabs[n]
  /\ \E sel \in SelectionsAfterLeaving(c) : TabGoesTo(c, n, sel)
  /\ UNCHANGED <<treeVars, popVars, modeVars>>

(* The star button of a notebook.                                          *)
SetDefaultPop(n) ==
  /\ Live(n)
  /\ default_pop' = n
  /\ marked' = (marked \ {default_pop}) \cup {n}
  /\ UNCHANGED <<treeVars, modeVars, tabVars, focusVars>>

(* Split s takes the place of notebook n, and holds n and the new notebook *)
(* new, which is its first pack or its second.                             *)
SplitTree(n, s, new, newFirst) ==
  /\ subtree' = ReplaceInSubtree(parent[n], n, s)
  /\ parent' = [parent EXCEPT ![s] = parent[n], ![n] = s, ![new] = s]
  /\ pack0' = [ReplaceInPack(pack0, parent[n], n, s) EXCEPT ![s] = IF newFirst THEN new ELSE n]
  /\ pack1' = [ReplaceInPack(pack1, parent[n], n, s) EXCEPT ![s] = IF newFirst THEN n ELSE new]
  /\ UNCHANGED nviewports

(* split_left and split_top (new notebook first) or split_right and        *)
(* split_bottom, with the tab of a window dropped on a side of n, or with  *)
(* none from the buttons of n, which only split right or bottom.  The test  *)
(* that n is large enough (_can_vsplit, _can_hsplit) is PageSplit's.        *)
SplitNotebook(n, s, new) ==
  /\ Live(n) /\ ~Live(s) /\ ~Live(new)
  /\ \/ /\ SplitTree(n, s, new, FALSE)
        /\ UNCHANGED <<tabVars, focusVars>>
     \/ \E newFirst \in BOOLEAN, c \in Client :
          /\ HasTab(c)
          /\ SplitTree(n, s, new, newFirst)
          /\ \E sel \in SelectionsAfterLeaving(c) : TabGoesTo(c, new, sel)
  /\ UNCHANGED <<popVars, modeVars>>

(* Mutant of TabsMoveTo: the tabs of the whole workspace are collected.    *)
AllTabsMoveTo(dead, d, order) ==
  /\ tabs' = [n \in Notebook |-> IF n = d THEN UNION {tabs[m] : m \in Notebook} ELSE {}]
  /\ selected' = [n \in Notebook |-> IF n = d THEN selected[d] ELSE Null]
  /\ history' \in HistoryAfter(order, {})

(* The tabs of the notebooks dead move to notebook d one after the other,  *)
(* in the order order, and die with their notebooks.                       *)
TabsMoveTo(dead, d, order) ==
  LET moving == UNION {tabs[n] : n \in dead}
  IN  /\ tabs' = [n \in Notebook |-> IF n = d THEN tabs[n] \cup moving
                                     ELSE IF n \in dead THEN {} ELSE tabs[n]]
      /\ selected' = [n \in Notebook |-> IF n = d /\ moving # {} THEN Head(order)
                                         ELSE IF n \in dead THEN Null ELSE selected[n]]
      /\ history' \in HistoryAfter(order, {})

(* Mutant of ForgetNotebooks: the reference is not a weak one.             *)
RememberNotebooks(dead) == UNCHANGED revert_notebook

(* Weak references to the notebooks dead expire.                           *)
ForgetNotebooks(dead) ==
  revert_notebook' = [c \in Client |->
    IF revert_notebook[c] \in dead THEN Null ELSE revert_notebook[c]]

(* The close button of notebook n: the sibling takes the place of their    *)
(* split.  A notebook that is the whole of its viewport is not closed.     *)
CloseNotebook(n) ==
  /\ Live(n) /\ parent[n] \in Split
  /\ LET s   == parent[n]
         dst == IF pack0[s] = n THEN pack1[s] ELSE pack0[s]
         p   == parent[s]
     IN  /\ subtree' = ReplaceInSubtree(p, s, dst)
         /\ parent' = [parent EXCEPT ![dst] = p, ![s] = Null, ![n] = Null]
         /\ pack0' = [ReplaceInPack(pack0, p, s, dst) EXCEPT ![s] = Null]
         /\ pack1' = [ReplaceInPack(pack1, p, s, dst) EXCEPT ![s] = Null]
  /\ \E d \in EnsureDefault(LiveNotebooks \ {n}), order \in SetToSeqs(tabs[n]) :
       DefaultBecomes(d, {n}) /\ TabsMoveTo({n}, d, order)
  /\ ForgetNotebooks({n})
  /\ active' = Null
  /\ UNCHANGED <<nviewports, managed, floating, fullscreen, revert_type>>

-----------------------------------------------------------------------------
(* The monitors or the work areas have changed (update_viewports_layout).  *)

(* There are more viewports: each new one starts with one notebook.        *)
AddViewports(k) ==
  /\ k > nviewports
  /\ nviewports' = k
  /\ \E first \in [(nviewports + 1)..k -> {n \in Notebook : ~Live(n)}] :
       /\ \A v, w \in DOMAIN first : v # w => first[v] # first[w]
       /\ subtree' = [v \in Viewport |-> IF v \in DOMAIN first THEN first[v] ELSE subtree[v]]
       /\ parent' = [n \in Node |->
            IF \E v \in DOMAIN first : first[v] = n
            THEN CHOOSE v \in DOMAIN first : first[v] = n ELSE parent[n]]
  /\ UNCHANGED <<pack0, pack1, popVars, modeVars, tabVars, focusVars>>

(* There are fewer: the last ones are removed with their subtrees, and the *)
(* tabs they hold go to the default notebook of those that are left.       *)
RemoveViewports(k) ==
  /\ k < nviewports
  /\ nviewports' = k
  /\ LET deadNodes == UNION {Below(v) : v \in (k + 1)..nviewports}
         dead      == deadNodes \cap Notebook
         moving    == UNION {tabs[n] : n \in dead}
     IN  /\ subtree' = [v \in Viewport |-> IF v > k THEN Null ELSE subtree[v]]
         /\ parent' = [n \in Node |-> IF n \in deadNodes THEN Null ELSE parent[n]]
         /\ pack0' = [s \in Split |-> IF s \in deadNodes THEN Null ELSE pack0[s]]
         /\ pack1' = [s \in Split |-> IF s \in deadNodes THEN Null ELSE pack1[s]]
         /\ ForgetNotebooks(dead)
         /\ IF moving = {}
            THEN /\ default_pop' = IF default_pop \in dead THEN Null ELSE default_pop
                 /\ marked' = marked \ dead
                 /\ selected' = [n \in Notebook |-> IF n \in dead THEN Null ELSE selected[n]]
                 /\ UNCHANGED <<tabs, focusVars>>
            ELSE \E d \in EnsureDefault(LiveNotebooks \ dead), order \in SetToSeqs(moving) :
                   /\ DefaultBecomes(d, dead)
                   /\ TabsMoveTo(dead, d, order)
                   /\ active' = Head(order)
  /\ UNCHANGED <<managed, floating, fullscreen, revert_type>>

-----------------------------------------------------------------------------
Next ==
  \/ \E c \in Client :
       \/ MapWindow(c) \/ Unmanage(c) \/ FocusWindow(c)
       \/ MakeFloating(c) \/ MakeNotebook(c)
       \/ EnterFullscreen(c) \/ LeaveFullscreen(c)
       \/ ActivateTab(c) \/ \E n \in Notebook : MoveTab(c, n)
  \/ \E n \in Notebook :
       \/ SetDefaultPop(n) \/ CloseNotebook(n)
       \/ \E s \in Split, new \in Notebook : SplitNotebook(n, s, new)
  \/ \E k \in Viewport : AddViewports(k) \/ RemoveViewports(k)

Spec == Init /\ [][Next]_vars

-----------------------------------------------------------------------------
TypeOK ==
  /\ nviewports \in Viewport
  /\ subtree \in [Viewport -> Node \cup {Null}]
  /\ parent \in [Node -> Viewport \cup Split \cup {Null}]
  /\ pack0 \in [Split -> Node \cup {Null}]
  /\ pack1 \in [Split -> Node \cup {Null}]
  /\ tabs \in [Notebook -> SUBSET Client]
  /\ selected \in [Notebook -> Client \cup {Null}]
  /\ default_pop \in Notebook \cup {Null}
  /\ marked \in SUBSET Notebook
  /\ managed \in SUBSET Client
  /\ floating \in SUBSET Client
  /\ fullscreen \in SUBSET Client
  /\ revert_type \in [Client -> {"floating", "notebook"}]
  /\ revert_notebook \in [Client -> Notebook \cup {Null}]
  /\ history \in Histories
  /\ active \in Client \cup {Null}

(* The pointers of the tree agree in both directions: every viewport in    *)
(* use has a subtree, both packs of a split in the tree are there and      *)
(* differ, and the parent of a node is the one that holds it.              *)
TreeLinks ==
  /\ \A v \in Viewport : subtree[v] # Null <=> v <= nviewports
  /\ \A s \in Split :
       /\ Live(s)  => {pack0[s], pack1[s]} \subseteq Node /\ pack0[s] # pack1[s]
       /\ ~Live(s) => {pack0[s], pack1[s]} = {Null}
  /\ \A n \in Node, v \in Viewport : subtree[v] = n <=> parent[n] = v
  /\ \A n \in Node, s \in Split : n \in {pack0[s], pack1[s]} <=> parent[n] = s

(* The tree is one: its pointers agree and every node in the tree is below *)
(* exactly one viewport, so gather_children_root_first finds every         *)
(* notebook and no cycle cuts a branch off.  replace, set_pack0 and        *)
(* set_pack1, detach_myself and remove_viewport must together keep it.     *)
TreeSound ==
  /\ TreeLinks
  /\ {n \in Node : Live(n)} = UNION {Below(v) : v \in 1..nviewports}
  /\ \A v, w \in 1..nviewports : v # w => Below(v) \cap Below(w) = {}

(* A window has at most one view, only managed windows have one, and tabs  *)
(* are only in notebooks that are in the tree: no sequence of splits,      *)
(* closes, fullscreen round trips and monitor changes duplicates a view or *)
(* leaves one behind in a notebook that is gone.                           *)
OneView ==
  /\ \A n \in Notebook : tabs[n] # {} => Live(n)
  /\ \A m, n \in Notebook : m # n => tabs[m] \cap tabs[n] = {}
  /\ floating \cap fullscreen = {}
  /\ \A n \in Notebook : tabs[n] \cap (floating \cup fullscreen) = {}
  /\ Viewed \subseteq managed

(* The tab a notebook shows is the one of its tabs that had the focus      *)
(* last, and a notebook with tabs shows one.  The choice is made in        *)
(* remove_view_notebook, _add_client_view, activate and the focus handler, *)
(* each time from a history that other notebooks write too, and that every *)
(* tab is in.                                                              *)
TabsAreRecent == \A n \in Notebook : tabs[n] \subseteq ToSet(history)
SelectedIsMostRecent ==
  /\ TabsAreRecent
  /\ \A n \in Notebook :
       IF tabs[n] = {} THEN selected[n] = Null
       ELSE \E i \in 1..Len(history) :
              /\ history[i] = selected[n]
              /\ selected[n] \in tabs[n]
              /\ \A j \in 1..i-1 : history[j] \notin tabs[n]

(* The window that _net_active_window names has a view, is in the focus    *)
(* history and, when it is a tab, is the one its notebook shows: keyboard  *)
(* focus never rests on a hidden tab.                                      *)
FocusIsVisible ==
  /\ ToSet(history) \subseteq Viewed
  /\ active # Null =>
       /\ active \in ToSet(history)
       /\ \A n \in Notebook : active \in tabs[n] => selected[n] = active

(* The notebook drawn with the star is the one where new windows go, there *)
(* is at most one, and it is in the tree.                                  *)
DefaultIsMarked ==
  /\ marked = {default_pop} \ {Null}
  /\ default_pop # Null => Live(default_pop)

(* A fullscreen view never reverts to a notebook that is gone.             *)
RevertIsAlive ==
  \A c \in Client : revert_notebook[c] # Null => Live(revert_notebook[c])

(* The inductive invariant behind the safety properties that are proved.   *)
SelectedIsTab == \A n \in Notebook : selected[n] \in tabs[n] \cup {Null}
Inv == TypeOK /\ TreeLinks /\ OneView /\ SelectedIsTab /\ FocusIsVisible
       /\ DefaultIsMarked /\ RevertIsAlive

(* Tabs only change notebook by a user's drop, except when their notebook  *)
(* goes: whatever else happens, a tab stays in its notebook as long as     *)
(* both are there.                                                         *)
TabsStayPut ==
  [][\A c \in Client, n \in Notebook :
       (c \in tabs[n] /\ Live(n)' /\ c \notin tabs'[n] /\ HasTab(c)')
         => /\ active' = c
            /\ \A d \in Client \ {c}, m \in Notebook : d \in tabs[m] <=> d \in tabs'[m]]_vars

-----------------------------------------------------------------------------
(* The mode of a window, as the abstract specification sees it.            *)
ModeOf(c) ==
  IF c \in fullscreen THEN "fullscreen"
  ELSE IF c \in floating THEN "floating"
  ELSE IF HasTab(c) THEN "tab"
  ELSE IF c \in managed THEN "viewless"
  ELSE "unmanaged"

Modes == INSTANCE ClientModes
           WITH mode <- [c \in Client |-> ModeOf(c)], focus <- active

(* The workspace implements ClientModes: no operation on the tree, and no  *)
(* change of the monitors, loses a window, shows one that had no view or   *)
(* changes the mode of another; closing a window that has no focus leaves  *)
(* the focus alone.                                                        *)
ImplementsModes == Modes!Spec

(* The tree hangs together, and neither the default notebook nor what a    *)
(* window goes back to is a notebook that is gone.                         *)
PointersAreSound == TypeOK /\ TreeSound /\ DefaultIsMarked /\ RevertIsAlive

(* For TLC, the identities of windows, notebooks and splits are symmetric. *)
Symmetry == Permutations(Client) \cup Permutations(Notebook) \cup Permutations(Split)

=============================================================================
