------------------------- MODULE PageLayout_proofs --------------------------
(***************************************************************************)
(* The invariants of PageLayout, for any number of windows, notebooks,     *)
(* splits and viewports.  Inv is inductive: every action preserves it.     *)
(* TreeSound is not a local fact: for it, Below is shown to be the least   *)
(* set that is closed under children (Reach), and each operation that      *)
(* changes the shape of the tree gives the new one.  SelectedIsMostRecent  *)
(* is inductive with Inv and TabsAreRecent.                                *)
(*                                                                         *)
(* At the end, the facts about the sharing of a split's length.            *)
(***************************************************************************)
EXTENDS PageLayout, PageSplit, FiniteSetTheorems, WellFoundedInduction, TLAPS

-----------------------------------------------------------------------------
(* Lemmas about the operators the actions are built from.                  *)

(* The history lists clients, and its first entry is one of them.          *)
LEMMA HistoryHead ==
  ASSUME NEW h \in Histories, h # <<>>
  PROVE  Head(h) \in ToSet(h)
<1>1. PICK k \in Nat : h \in [1..k -> Client]
  BY ConstantsAssumption, FS_CardinalityType DEF Histories
<1>2. h \in Seq(Client)
  BY <1>1
<1>3. Len(h) # 0 /\ Head(h) = h[1] /\ 1 \in 1..Len(h) /\ DOMAIN h = 1..Len(h)
  BY <1>2
<1> QED  BY <1>3 DEF ToSet

(* What a new history holds.                                               *)
LEMMA HistoryAfterSet ==
  ASSUME NEW front, NEW gone, NEW h \in HistoryAfter(front, gone)
  PROVE  /\ h \in Histories
         /\ ToSet(h) = (ToSet(history) \cup ToSet(front)) \ gone
  BY DEF HistoryAfter

LEMMA SingletonSet ==
  ASSUME NEW c
  PROVE  ToSet(<<c>>) = {c}
  BY DEF ToSet

(* A history that a view leaves, or is the first of.                       *)
LEMMA HistoryLoses ==
  ASSUME NEW c, NEW h \in HistoryAfter(<<>>, {c})
  PROVE  h \in Histories /\ ToSet(h) = ToSet(history) \ {c}
<1>1. ToSet(<<>>) = {}
  BY DEF ToSet
<1> QED  BY <1>1, HistoryAfterSet

LEMMA HistoryGains ==
  ASSUME NEW c, NEW h \in HistoryAfter(<<c>>, {})
  PROVE  h \in Histories /\ ToSet(h) = ToSet(history) \cup {c}
  BY HistoryAfterSet, SingletonSet

(* The tabs that move are listed without omission, the first one first.    *)
LEMMA OrderHead ==
  ASSUME NEW S, S \subseteq Client, NEW order \in SetToSeqs(S)
  PROVE  /\ ToSet(order) \subseteq S
         /\ S # {} => Head(order) \in ToSet(order)
<1>1. IsFiniteSet(S) /\ Cardinality(S) \in Nat
  BY ConstantsAssumption, FS_Subset, FS_CardinalityType
<1>2. order \in [1..Cardinality(S) -> S]
  BY DEF SetToSeqs
<1>3. S # {} => Cardinality(S) # 0
  BY <1>1, FS_EmptySet
<1>4. order \in Seq(S) /\ Len(order) = Cardinality(S)
  BY <1>1, <1>2
<1>5. DOMAIN order = 1..Cardinality(S)
  BY <1>2
<1>6. S # {} => Head(order) = order[1] /\ 1 \in DOMAIN order
  BY <1>1, <1>3, <1>4, <1>5
<1> QED  BY <1>2, <1>6 DEF ToSet

(* A selection that loses a tab stays with the tabs that are left.         *)
LEMMA SelectionStays ==
  ASSUME TypeOK, OneView, SelectedIsTab, NEW c \in Client,
         NEW sel \in SelectionsAfterLeaving(c)
  PROVE  /\ sel \in [Notebook -> Client \cup {Null}]
         /\ \A n \in Notebook : sel[n] \in (tabs[n] \ {c}) \cup {Null}
         /\ \A n \in Notebook : selected[n] # c => sel[n] = selected[n]
<1>1. PICK x \in IF HasTab(c) THEN SelectionWithout(Holder(c), {c}) ELSE {Null} :
        sel = [n \in Notebook |-> IF c \in tabs[n] THEN x ELSE selected[n]]
  BY DEF SelectionsAfterLeaving
<1>2. CASE HasTab(c)
  <2>1. Holder(c) \in Notebook /\ c \in tabs[Holder(c)]
    BY <1>2 DEF HasTab, Holder
  <2>2. \A n \in Notebook : c \in tabs[n] => n = Holder(c)
    BY <2>1 DEF OneView
  <2>3. x \in (tabs[Holder(c)] \ {c}) \cup {Null}
    BY <1>1, <1>2, <2>1 DEF SelectionWithout, SelectedIsTab
  <2>4. selected[Holder(c)] # c => x = selected[Holder(c)]
    BY <1>1, <1>2, <2>1 DEF SelectionWithout
  <2> QED  BY <1>1, <2>1, <2>2, <2>3, <2>4 DEF TypeOK, SelectedIsTab
<1>3. CASE ~HasTab(c)
  BY <1>1, <1>3 DEF TypeOK, SelectedIsTab, HasTab
<1> QED  BY <1>2, <1>3

(* ensure_default_notebook returns one of the notebooks there are, and it  *)
(* is then the one that is marked.                                         *)
LEMMA DefaultStaysMarked ==
  ASSUME TypeOK, DefaultIsMarked, NEW dead \in SUBSET Notebook,
         NEW d \in EnsureDefault(LiveNotebooks \ dead), DefaultBecomes(d, dead)
  PROVE  /\ d \in Notebook \ dead /\ Live(d)
         /\ default_pop' = d /\ marked' = {d}
<1>1. d \in LiveNotebooks \ dead
  BY DEF EnsureDefault
<1>2. d # Null
  BY <1>1, ConstantsAssumption DEF LiveNotebooks
<1>3. default_pop \notin LiveNotebooks \ dead => default_pop \in dead \cup {Null}
  BY DEF DefaultIsMarked, LiveNotebooks, TypeOK
<1> QED  BY <1>1, <1>2, <1>3 DEF DefaultBecomes, DefaultIsMarked, EnsureDefault, LiveNotebooks

(* A tab that is added is in the notebook it goes to and nowhere else, is  *)
(* selected, and has the focus.                                            *)
LEMMA TabArrives ==
  ASSUME TypeOK, OneView, FocusIsVisible, NEW c \in Client, NEW n \in Notebook,
         NEW sel \in [Notebook -> Client \cup {Null}],
         \A m \in Notebook : sel[m] \in (tabs[m] \ {c}) \cup {Null},
         TabGoesTo(c, n, sel)
  PROVE  /\ tabs' \in [Notebook -> SUBSET Client]
         /\ \A m \in Notebook : tabs'[m] = IF m = n THEN tabs[m] \cup {c} ELSE tabs[m] \ {c}
         /\ selected' \in [Notebook -> Client \cup {Null}]
         /\ history' \in Histories
         /\ ToSet(history') = ToSet(history) \cup {c}
         /\ active' = c
         /\ SelectedIsTab'
         /\ \A m, k \in Notebook : m # k => tabs'[m] \cap tabs'[k] = {}
         /\ \A m \in Notebook : c \in tabs'[m] => selected'[m] = c
<1>1. \A m \in Notebook : tabs'[m] = IF m = n THEN tabs[m] \cup {c} ELSE tabs[m] \ {c}
  BY DEF TabGoesTo
<1>2. /\ tabs' \in [Notebook -> SUBSET Client]
      /\ selected' \in [Notebook -> Client \cup {Null}]
      /\ selected' = [sel EXCEPT ![n] = c]
  BY DEF TabGoesTo, TypeOK
<1>3. history' \in Histories /\ ToSet(history') = ToSet(history) \cup {c} /\ active' = c
  BY HistoryGains DEF TabGoesTo
<1>4. SelectedIsTab'
  BY <1>1, <1>2 DEF SelectedIsTab
<1>5. \A m, k \in Notebook : m # k => tabs'[m] \cap tabs'[k] = {}
  BY <1>1 DEF OneView
<1> QED  BY <1>1, <1>2, <1>3, <1>4, <1>5

(* A window that has no tab becomes one.                                   *)
LEMMA WindowBecomesTab ==
  ASSUME Inv, NEW c \in Client, ~HasTab(c), NEW n \in LiveNotebooks,
         \E d \in EnsureDefault(LiveNotebooks) : DefaultBecomes(d, {}),
         TabGoesTo(c, n, selected), treeVars' = treeVars, managed' = managed \cup {c},
         floating' = floating \ {c}, fullscreen' = fullscreen \ {c},
         revert_type' \in [Client -> {"floating", "notebook"}],
         revert_notebook' \in [Client -> Notebook \cup {Null}],
         \A e \in Client : revert_notebook'[e] \in {revert_notebook[e], Null}
  PROVE  Inv'
<1> USE DEF Inv
<1>1. PICK d \in EnsureDefault(LiveNotebooks \ {}) : DefaultBecomes(d, {})
  BY LiveNotebooks \ {} = LiveNotebooks
<1>2. d \in Notebook /\ Live(d) /\ default_pop' = d /\ marked' = {d}
  BY <1>1, DefaultStaysMarked
<1>3. n \in Notebook /\ Live(n)
  BY DEF LiveNotebooks
<1>4. \A m \in Notebook : c \notin tabs[m] /\ selected[m] \in (tabs[m] \ {c}) \cup {Null}
  BY DEF SelectedIsTab, HasTab
<1>5. /\ tabs' \in [Notebook -> SUBSET Client]
      /\ \A m \in Notebook : tabs'[m] = IF m = n THEN tabs[m] \cup {c} ELSE tabs[m] \ {c}
      /\ selected' \in [Notebook -> Client \cup {Null}]
      /\ history' \in Histories
      /\ ToSet(history') = ToSet(history) \cup {c}
      /\ active' = c
      /\ SelectedIsTab'
      /\ \A m, k \in Notebook : m # k => tabs'[m] \cap tabs'[k] = {}
      /\ \A m \in Notebook : c \in tabs'[m] => selected'[m] = c
  BY <1>3, <1>4, TabArrives DEF TypeOK
<1>6. TypeOK'
  BY <1>2, <1>5 DEF TypeOK, treeVars
<1>7. Viewed' = Viewed \cup {c}
  BY <1>3, <1>4, <1>5 DEF Viewed
<1>8. OneView'
  BY <1>3, <1>4, <1>5, <1>7 DEF OneView, Live, treeVars
<1>9. FocusIsVisible'
  BY <1>5, <1>7 DEF FocusIsVisible
<1>10. DefaultIsMarked'
  BY <1>2, ConstantsAssumption DEF DefaultIsMarked, Live, treeVars
<1>11. TreeLinks' /\ RevertIsAlive'
  BY DEF treeVars, TreeLinks, RevertIsAlive, Live
<1> QED  BY <1>5, <1>6, <1>8, <1>9, <1>10, <1>11

(* A window loses its view, and its tab if it had one, and perhaps gets a  *)
(* floating or fullscreen view instead.                                    *)
LEMMA WindowLeavesTab ==
  ASSUME Inv, NEW c \in Client, treeVars' = treeVars, popVars' = popVars,
         NEW sel \in SelectionsAfterLeaving(c),
         tabs' = [n \in Notebook |-> tabs[n] \ {c}]
  PROVE  /\ tabs' \in [Notebook -> SUBSET Client]
         /\ \A n \in Notebook : tabs'[n] = tabs[n] \ {c}
         /\ sel \in [Notebook -> Client \cup {Null}]
         /\ \A n \in Notebook : sel[n] \in tabs'[n] \cup {Null}
         /\ \A n \in Notebook, d \in Client :
              d # c /\ selected[n] = d => sel[n] = d
         /\ TreeLinks' /\ DefaultIsMarked'
         /\ \A n \in Notebook : tabs'[n] # {} => Live(n)'
         /\ \A m, n \in Notebook : m # n => tabs'[m] \cap tabs'[n] = {}
<1> USE DEF Inv
<1>1. tabs' \in [Notebook -> SUBSET Client] /\ \A n \in Notebook : tabs'[n] = tabs[n] \ {c}
  BY DEF TypeOK
<1>2. TreeLinks' /\ DefaultIsMarked'
  BY DEF treeVars, popVars, TreeLinks, DefaultIsMarked, Live
<1>3. /\ \A n \in Notebook : tabs'[n] # {} => Live(n)'
      /\ \A m, n \in Notebook : m # n => tabs'[m] \cap tabs'[n] = {}
  BY <1>1 DEF OneView, Live, treeVars
<1> QED  BY <1>1, <1>2, <1>3, SelectionStays

-----------------------------------------------------------------------------
(* The actions that leave the tree as it is.                               *)

LEMMA MapWindowInv ==
  ASSUME Inv, NEW c \in Client, MapWindow(c)
  PROVE  Inv'
<1> USE DEF Inv
<1>1. treeVars' = treeVars /\ managed' = managed \cup {c}
      /\ UNCHANGED <<floating, fullscreen, revert_type, revert_notebook>>
  BY DEF MapWindow
<1>2. c \notin managed /\ c \notin Viewed /\ ~HasTab(c)
  BY DEF MapWindow, OneView, Viewed, HasTab
<1>3. CASE UNCHANGED <<popVars, tabVars, focusVars>>
  <2>1. TypeOK'
    BY <1>1, <1>3 DEF TypeOK, treeVars, popVars, tabVars, focusVars
  <2>2. OneView' /\ TreeLinks' /\ RevertIsAlive'
    BY <1>1, <1>3 DEF OneView, TreeLinks, RevertIsAlive, Viewed, Live, treeVars, tabVars
  <2>3. SelectedIsTab' /\ FocusIsVisible' /\ DefaultIsMarked'
    BY <1>1, <1>3 DEF SelectedIsTab, FocusIsVisible, DefaultIsMarked, Viewed, Live,
                      treeVars, popVars, tabVars, focusVars
  <2> QED  BY <2>1, <2>2, <2>3
<1>4. CASE \E d \in EnsureDefault(LiveNotebooks) :
             DefaultBecomes(d, {}) /\ TabGoesTo(c, d, selected)
  <2>1. PICK d \in EnsureDefault(LiveNotebooks) :
          DefaultBecomes(d, {}) /\ TabGoesTo(c, d, selected)
    BY <1>4
  <2>2. d \in LiveNotebooks
    BY <2>1 DEF EnsureDefault
  <2>3. floating' = floating \ {c} /\ fullscreen' = fullscreen \ {c}
    BY <1>1, <1>2 DEF Viewed
  <2> QED  BY <1>1, <1>2, <2>1, <2>2, <2>3, WindowBecomesTab DEF TypeOK
<1> QED  BY <1>3, <1>4 DEF MapWindow

LEMMA MakeNotebookInv ==
  ASSUME Inv, NEW c \in Client, MakeNotebook(c)
  PROVE  Inv'
<1> USE DEF Inv
<1>1. PICK d \in EnsureDefault(LiveNotebooks) :
        DefaultBecomes(d, {}) /\ TabGoesTo(c, RevertNotebook(c, d), selected)
  BY DEF MakeNotebook
<1>2. RevertNotebook(c, d) \in LiveNotebooks
  BY <1>1 DEF RevertNotebook, EnsureDefault, LiveNotebooks, RevertIsAlive, TypeOK
<1>3. ~HasTab(c) /\ managed' = managed \cup {c}
  BY DEF MakeNotebook, HasTab, OneView, Viewed
<1>4. /\ revert_type' \in [Client -> {"floating", "notebook"}]
      /\ revert_notebook' \in [Client -> Notebook \cup {Null}]
      /\ \A e \in Client : revert_notebook'[e] \in {revert_notebook[e], Null}
  BY DEF MakeNotebook, ForgetRevert, TypeOK
<1> QED  BY <1>1, <1>2, <1>3, <1>4, WindowBecomesTab DEF MakeNotebook, treeVars

LEMMA UnmanageInv ==
  ASSUME Inv, NEW c \in Client, Unmanage(c)
  PROVE  Inv'
<1> USE DEF Inv
<1>1. PICK sel \in SelectionsAfterLeaving(c) :
       IF AutoRefocus /\ active = c /\ history' # <<>>
       THEN LET f == Head(history')
            IN  /\ active' = f
                /\ selected' = [n \in Notebook |-> IF f \in tabs[n] THEN f ELSE sel[n]]
       ELSE /\ active' = IF active = c THEN Null ELSE active
            /\ selected' = sel
  BY DEF Unmanage
<1>2. /\ treeVars' = treeVars /\ popVars' = popVars
      /\ tabs' = [n \in Notebook |-> tabs[n] \ {c}]
      /\ floating' = floating \ {c} /\ fullscreen' = fullscreen \ {c}
      /\ managed' = managed \ {c}
  BY DEF Unmanage
<1>3. /\ tabs' \in [Notebook -> SUBSET Client]
      /\ \A n \in Notebook : tabs'[n] = tabs[n] \ {c}
      /\ sel \in [Notebook -> Client \cup {Null}]
      /\ \A n \in Notebook : sel[n] \in tabs'[n] \cup {Null}
      /\ \A n \in Notebook, d \in Client :
           d # c /\ selected[n] = d => sel[n] = d
      /\ TreeLinks' /\ DefaultIsMarked'
      /\ \A n \in Notebook : tabs'[n] # {} => Live(n)'
      /\ \A m, n \in Notebook : m # n => tabs'[m] \cap tabs'[n] = {}
  BY <1>2, WindowLeavesTab
<1>4. history' \in Histories /\ ToSet(history') = ToSet(history) \ {c}
  BY HistoryLoses DEF Unmanage
<1>5. Viewed' = Viewed \ {c}
  BY <1>2, <1>3 DEF Viewed
<1>6. ToSet(history') \subseteq Viewed' /\ Viewed' \subseteq Client
  BY <1>3, <1>4, <1>5, <1>2 DEF FocusIsVisible, TypeOK, Viewed
<1>7. /\ selected' \in [Notebook -> Client \cup {Null}] /\ SelectedIsTab'
      /\ active' # Null =>
           active' \in ToSet(history')
           /\ \A n \in Notebook : active' \in tabs'[n] => selected'[n] = active'
  <2>1. CASE AutoRefocus /\ active = c /\ history' # <<>>
    <3>1. Head(history') \in ToSet(history')
      BY <1>4, <2>1, HistoryHead
    <3>2. Head(history') # c /\ Head(history') \in Client
      BY <1>4, <1>6, <3>1
    <3>3. /\ active' = Head(history')
          /\ selected' = [n \in Notebook |-> IF Head(history') \in tabs[n]
                                             THEN Head(history') ELSE sel[n]]
      BY <1>1, <2>1
    <3> QED  BY <1>3, <3>1, <3>2, <3>3 DEF SelectedIsTab
  <2>2. CASE ~(AutoRefocus /\ active = c /\ history' # <<>>)
    <3>1. active' = (IF active = c THEN Null ELSE active) /\ selected' = sel
      BY <1>1, <2>2
    <3>2. SelectedIsTab'
      BY <1>3, <3>1 DEF SelectedIsTab
    <3>3. active' # Null => active \in ToSet(history') /\ active \in Client
      BY <1>4, <3>1, <1>6 DEF FocusIsVisible
    <3>4. active' # Null => \A n \in Notebook : active' \in tabs'[n] => selected'[n] = active'
      BY <1>3, <3>1, <3>3 DEF FocusIsVisible
    <3> QED  BY <1>3, <1>4, <3>1, <3>2, <3>3, <3>4
  <2> QED  BY <2>1, <2>2
<1>8. FocusIsVisible'
  BY <1>6, <1>7 DEF FocusIsVisible
<1>9. OneView'
  BY <1>2, <1>3, <1>5 DEF OneView
<1>10. /\ revert_type' \in [Client -> {"floating", "notebook"}]
       /\ revert_notebook' \in [Client -> Notebook \cup {Null}]
       /\ RevertIsAlive'
  BY <1>2 DEF Unmanage, ForgetRevert, TypeOK, RevertIsAlive, Live, treeVars
<1>11. TypeOK'
  BY <1>2, <1>3, <1>4, <1>6, <1>7, <1>10 DEF TypeOK, treeVars, popVars
<1> QED  BY <1>3, <1>7, <1>8, <1>9, <1>10, <1>11

LEMMA FocusWindowInv ==
  ASSUME Inv, NEW c \in Client, FocusWindow(c)
  PROVE  Inv'
<1> USE DEF Inv
<1>1. /\ UNCHANGED <<treeVars, popVars, modeVars, tabs>>
      /\ c \in Viewed /\ history' \in HistoryAfter(<<c>>, {})
  BY DEF FocusWindow
<1>2. TreeLinks' /\ OneView' /\ DefaultIsMarked' /\ RevertIsAlive' /\ Viewed' = Viewed
  BY <1>1 DEF TreeLinks, OneView, DefaultIsMarked, RevertIsAlive, Viewed, Live,
              treeVars, popVars, modeVars
<1>3. history' \in Histories /\ ToSet(history') = ToSet(history) \cup {c}
  BY <1>1, HistoryGains
<1>4. CASE HasTab(c)
  <2>1. /\ active' = c /\ selected' = [selected EXCEPT ![Holder(c)] = c]
        /\ Holder(c) \in Notebook /\ c \in tabs[Holder(c)]
    BY <1>4 DEF FocusWindow, HasTab, Holder
  <2>2. \A n \in Notebook : c \in tabs[n] => n = Holder(c)
    BY <2>1 DEF OneView
  <2>3. TypeOK' /\ SelectedIsTab'
    BY <1>1, <1>3, <2>1 DEF TypeOK, SelectedIsTab, treeVars, popVars, modeVars
  <2>4. FocusIsVisible'
    BY <1>1, <1>2, <1>3, <2>1, <2>2 DEF FocusIsVisible, TypeOK
  <2> QED  BY <1>2, <2>3, <2>4
<1>5. CASE ~HasTab(c)
  <2>1. UNCHANGED <<active, selected>>
    BY <1>5 DEF FocusWindow
  <2>2. TypeOK' /\ SelectedIsTab'
    BY <1>1, <1>3, <2>1 DEF TypeOK, SelectedIsTab, treeVars, popVars, modeVars
  <2>3. FocusIsVisible'
    BY <1>1, <1>2, <1>3, <2>1 DEF FocusIsVisible
  <2> QED  BY <1>2, <2>2, <2>3
<1> QED  BY <1>4, <1>5

LEMMA ActivateTabInv ==
  ASSUME Inv, NEW c \in Client, ActivateTab(c)
  PROVE  Inv'
<1>1. Viewed # {} /\ FocusWindow(c)
  BY DEF ActivateTab, FocusWindow, Focus, HasTab, Viewed
<1> QED  BY <1>1, FocusWindowInv

LEMMA MakeFloatingInv ==
  ASSUME Inv, NEW c \in Client, MakeFloating(c)
  PROVE  Inv'
<1> USE DEF Inv
<1>1. /\ treeVars' = treeVars /\ popVars' = popVars /\ managed' = managed
      /\ tabs' = [n \in Notebook |-> tabs[n] \ {c}]
      /\ floating' = floating \cup {c} /\ fullscreen' = fullscreen \ {c}
      /\ selected' \in SelectionsAfterLeaving(c)
      /\ c \in Viewed
  BY DEF MakeFloating
<1>2. /\ tabs' \in [Notebook -> SUBSET Client]
      /\ \A n \in Notebook : tabs'[n] = tabs[n] \ {c}
      /\ selected' \in [Notebook -> Client \cup {Null}]
      /\ SelectedIsTab'
      /\ TreeLinks' /\ DefaultIsMarked'
      /\ \A n \in Notebook : tabs'[n] # {} => Live(n)'
      /\ \A m, n \in Notebook : m # n => tabs'[m] \cap tabs'[n] = {}
  BY <1>1, WindowLeavesTab DEF SelectedIsTab
<1>3. history' \in Histories /\ ToSet(history') = ToSet(history) \cup {c} /\ active' = c
  BY HistoryGains DEF MakeFloating, Focus
<1>4. Viewed' = Viewed
  BY <1>1, <1>2 DEF Viewed
<1>5. OneView'
  BY <1>1, <1>2, <1>4 DEF OneView
<1>6. FocusIsVisible'
  BY <1>1, <1>2, <1>3, <1>4 DEF FocusIsVisible
<1>7. /\ revert_type' \in [Client -> {"floating", "notebook"}]
      /\ revert_notebook' \in [Client -> Notebook \cup {Null}]
      /\ RevertIsAlive'
  BY <1>1 DEF MakeFloating, ForgetRevert, TypeOK, RevertIsAlive, Live, treeVars
<1>8. TypeOK'
  BY <1>1, <1>2, <1>3, <1>7 DEF TypeOK, treeVars, popVars
<1> QED  BY <1>2, <1>5, <1>6, <1>7, <1>8

LEMMA EnterFullscreenInv ==
  ASSUME Inv, NEW c \in Client, EnterFullscreen(c)
  PROVE  Inv'
<1> USE DEF Inv
<1>1. /\ treeVars' = treeVars /\ popVars' = popVars /\ managed' = managed
      /\ tabs' = [n \in Notebook |-> tabs[n] \ {c}]
      /\ floating' = floating \ {c} /\ fullscreen' = fullscreen \cup {c}
      /\ selected' \in SelectionsAfterLeaving(c)
      /\ c \in Viewed
  BY DEF EnterFullscreen
<1>2. /\ tabs' \in [Notebook -> SUBSET Client]
      /\ \A n \in Notebook : tabs'[n] = tabs[n] \ {c}
      /\ selected' \in [Notebook -> Client \cup {Null}]
      /\ \A n \in Notebook, d \in Client :
           d # c /\ selected[n] = d => selected'[n] = d
      /\ SelectedIsTab'
      /\ TreeLinks' /\ DefaultIsMarked'
      /\ \A n \in Notebook : tabs'[n] # {} => Live(n)'
      /\ \A m, n \in Notebook : m # n => tabs'[m] \cap tabs'[n] = {}
  BY <1>1, WindowLeavesTab DEF SelectedIsTab
<1>3. /\ history' \in Histories /\ ToSet(history') = ToSet(history) \ {c}
      /\ active' = IF active = c THEN Null ELSE active
  BY HistoryLoses DEF EnterFullscreen, ForgetView
<1>4. Viewed' = Viewed
  BY <1>1, <1>2 DEF Viewed
<1>5. OneView'
  BY <1>1, <1>2, <1>4 DEF OneView
<1>6. FocusIsVisible'
  BY <1>2, <1>3, <1>4 DEF FocusIsVisible, TypeOK
<1>7. /\ revert_type' \in [Client -> {"floating", "notebook"}]
      /\ revert_notebook' \in [Client -> Notebook \cup {Null}]
      /\ RevertIsAlive'
  <2>1. HasTab(c) => Holder(c) \in Notebook /\ Live(Holder(c))
    BY DEF HasTab, Holder, OneView
  <2>2. /\ revert_type' = [revert_type EXCEPT ![c] = IF HasTab(c) THEN "notebook" ELSE "floating"]
        /\ revert_notebook' = [revert_notebook EXCEPT ![c] = IF HasTab(c) THEN Holder(c) ELSE Null]
    BY DEF EnterFullscreen
  <2> QED  BY <1>1, <2>1, <2>2 DEF TypeOK, RevertIsAlive, Live, treeVars
<1>8. TypeOK'
  BY <1>1, <1>2, <1>3, <1>7 DEF TypeOK, treeVars, popVars
<1> QED  BY <1>2, <1>5, <1>6, <1>7, <1>8

LEMMA LeaveFullscreenInv ==
  ASSUME Inv, NEW c \in Client, LeaveFullscreen(c)
  PROVE  Inv'
<1> USE DEF Inv
<1>1. /\ treeVars' = treeVars /\ managed' = managed /\ fullscreen' = fullscreen \ {c}
      /\ c \in fullscreen /\ c \notin floating /\ c \in Viewed /\ c \in managed /\ ~HasTab(c)
  BY DEF LeaveFullscreen, OneView, Viewed, HasTab
<1>2. /\ revert_type' \in [Client -> {"floating", "notebook"}]
      /\ revert_notebook' \in [Client -> Notebook \cup {Null}]
      /\ \A e \in Client : revert_notebook'[e] \in {revert_notebook[e], Null}
  BY DEF LeaveFullscreen, ForgetRevert, TypeOK
<1>3. CASE revert_type[c] = "notebook"
  <2>1. UNCHANGED floating
    BY <1>3 DEF LeaveFullscreen
  <2>2. PICK d \in EnsureDefault(LiveNotebooks) :
          DefaultBecomes(d, {}) /\ TabGoesTo(c, RevertNotebook(c, d), selected)
    BY <1>3 DEF LeaveFullscreen
  <2>3. RevertNotebook(c, d) \in LiveNotebooks
    BY <2>2 DEF RevertNotebook, EnsureDefault, LiveNotebooks, RevertIsAlive, TypeOK
  <2>4. floating' = floating \ {c} /\ managed' = managed \cup {c}
    BY <1>1, <2>1
  <2> QED  BY <1>1, <1>2, <2>2, <2>3, <2>4, WindowBecomesTab
<1>4. CASE revert_type[c] # "notebook"
  <2>1. /\ floating' = floating \cup {c} /\ UNCHANGED <<popVars, tabVars>>
        /\ active' = c
        /\ history' \in HistoryAfter(<<c>>, {})
    BY <1>4 DEF LeaveFullscreen, Focus
  <2>2. history' \in Histories /\ ToSet(history') = ToSet(history) \cup {c}
    BY <2>1, HistoryGains
  <2>3. TypeOK'
    BY <1>1, <1>2, <2>1, <2>2 DEF TypeOK, treeVars, popVars, tabVars
  <2>4. TreeLinks' /\ RevertIsAlive' /\ DefaultIsMarked' /\ SelectedIsTab'
    BY <1>1, <1>2, <2>1 DEF TreeLinks, RevertIsAlive, DefaultIsMarked, SelectedIsTab, Live,
                            treeVars, popVars, tabVars
  <2>5. Viewed' = Viewed
    BY <1>1, <2>1 DEF Viewed, tabVars
  <2>6. OneView'
    BY <1>1, <2>1, <2>5 DEF OneView, HasTab, Live, treeVars, tabVars
  <2>7. FocusIsVisible'
    BY <1>1, <2>1, <2>2, <2>5 DEF FocusIsVisible, HasTab, tabVars
  <2> QED  BY <2>3, <2>4, <2>6, <2>7
<1> QED  BY <1>3, <1>4

LEMMA SetDefaultPopInv ==
  ASSUME Inv, NEW n \in Notebook, SetDefaultPop(n)
  PROVE  Inv'
<1> USE DEF Inv
<1>1. /\ UNCHANGED <<treeVars, modeVars, tabVars, focusVars>>
      /\ Live(n) /\ n # Null
      /\ default_pop' = n /\ marked' = (marked \ {default_pop}) \cup {n}
  BY ConstantsAssumption DEF SetDefaultPop
<1>2. TypeOK'
  BY <1>1 DEF TypeOK, treeVars, modeVars, tabVars, focusVars
<1>3. DefaultIsMarked'
  BY <1>1 DEF DefaultIsMarked, Live, treeVars
<1>4. TreeLinks' /\ OneView' /\ RevertIsAlive' /\ SelectedIsTab' /\ FocusIsVisible'
  BY <1>1 DEF TreeLinks, OneView, RevertIsAlive, SelectedIsTab, FocusIsVisible, Viewed, Live,
              treeVars, modeVars, tabVars, focusVars
<1> QED  BY <1>2, <1>3, <1>4

(* A tab that moves keeps everything but the links of the tree.            *)
LEMMA TabMoves ==
  ASSUME Inv, NEW c \in Client, HasTab(c), NEW n \in Notebook,
         NEW sel \in SelectionsAfterLeaving(c), TabGoesTo(c, n, sel), modeVars' = modeVars,
         Live(n)', \A m \in Notebook : Live(m) => Live(m)'
  PROVE  /\ tabs' \in [Notebook -> SUBSET Client]
         /\ selected' \in [Notebook -> Client \cup {Null}]
         /\ history' \in Histories /\ active' \in Client
         /\ OneView' /\ SelectedIsTab' /\ FocusIsVisible'
<1> USE DEF Inv
<1>1. /\ sel \in [Notebook -> Client \cup {Null}]
      /\ \A m \in Notebook : sel[m] \in (tabs[m] \ {c}) \cup {Null}
  BY SelectionStays
<1>2. /\ tabs' \in [Notebook -> SUBSET Client]
      /\ \A m \in Notebook : tabs'[m] = IF m = n THEN tabs[m] \cup {c} ELSE tabs[m] \ {c}
      /\ selected' \in [Notebook -> Client \cup {Null}]
      /\ history' \in Histories
      /\ ToSet(history') = ToSet(history) \cup {c}
      /\ active' = c
      /\ SelectedIsTab'
      /\ \A m, k \in Notebook : m # k => tabs'[m] \cap tabs'[k] = {}
      /\ \A m \in Notebook : c \in tabs'[m] => selected'[m] = c
  BY <1>1, TabArrives
<1>3. c \in Viewed /\ c \notin floating \cup fullscreen
  BY DEF HasTab, Viewed, OneView
<1>4. Viewed' = Viewed
  BY <1>2, <1>3 DEF Viewed, modeVars, HasTab
<1>5. OneView'
  BY <1>2, <1>3, <1>4 DEF OneView, modeVars
<1>6. FocusIsVisible'
  BY <1>2, <1>3, <1>4 DEF FocusIsVisible
<1> QED  BY <1>2, <1>5, <1>6

LEMMA MoveTabInv ==
  ASSUME Inv, NEW c \in Client, NEW n \in Notebook, MoveTab(c, n)
  PROVE  Inv'
<1> USE DEF Inv
<1>1. UNCHANGED <<treeVars, popVars, modeVars>> /\ HasTab(c) /\ Live(n)
  BY DEF MoveTab
<1>2. PICK sel \in SelectionsAfterLeaving(c) : TabGoesTo(c, n, sel)
  BY DEF MoveTab
<1>3. \A m \in Notebook : Live(m) => Live(m)'
  BY <1>1 DEF Live, treeVars
<1>4. /\ tabs' \in [Notebook -> SUBSET Client]
      /\ selected' \in [Notebook -> Client \cup {Null}]
      /\ history' \in Histories /\ active' \in Client
      /\ OneView' /\ SelectedIsTab' /\ FocusIsVisible'
  BY <1>1, <1>2, <1>3, TabMoves
<1>5. TypeOK'
  BY <1>1, <1>4 DEF TypeOK, treeVars, popVars, modeVars
<1>6. TreeLinks' /\ DefaultIsMarked' /\ RevertIsAlive'
  BY <1>1 DEF TreeLinks, DefaultIsMarked, RevertIsAlive, Live, treeVars, popVars, modeVars
<1> QED  BY <1>4, <1>5, <1>6

-----------------------------------------------------------------------------
(* The actions that change the tree.                                       *)

(* Nodes, viewports and Null are different things.                         *)
LEMMA Distinct ==
  /\ \A n \in Node : n \notin Viewport /\ n # Null /\ n \notin Nat
  /\ \A v \in Viewport : v # Null /\ v \notin Node /\ v \in Nat
  /\ \A n \in Notebook : n \notin Split
  BY ConstantsAssumption DEF Node, Viewport

(* Nothing in the tree points to a node that is not in the tree.           *)
LEMMA DeadIsDetached ==
  ASSUME TypeOK, TreeLinks, NEW x \in Node, ~Live(x)
  PROVE  /\ \A v \in Viewport : subtree[v] # x
         /\ \A t \in Split : pack0[t] # x /\ pack1[t] # x
         /\ \A m \in Node : parent[m] # x
<1>1. parent[x] = Null
  BY DEF Live
<1>2. \A v \in Viewport : subtree[v] # x
  BY <1>1, Distinct DEF TreeLinks
<1>3. \A t \in Split : t # Null
  BY Distinct DEF Node
<1>4. \A t \in Split : pack0[t] # x /\ pack1[t] # x
  BY <1>1, <1>3 DEF TreeLinks
<1>5. \A m \in Node : parent[m] # x
  <2>1. SUFFICES ASSUME NEW m \in Node, parent[m] = x  PROVE FALSE
    OBVIOUS
  <2>2. x \in Split
    BY <2>1, Distinct DEF TypeOK, Node
  <2>3. m \in {pack0[x], pack1[x]} /\ {pack0[x], pack1[x]} = {Null}
    BY <2>1, <2>2 DEF TreeLinks
  <2> QED  BY <2>3, Distinct
<1> QED  BY <1>2, <1>4, <1>5

(* A notebook that is split stays in the tree below the new split.         *)
LEMMA SplitTreeLinks ==
  ASSUME TypeOK, TreeLinks, NEW n \in Notebook, NEW s \in Split, NEW new \in Notebook,
         NEW newFirst \in BOOLEAN, Live(n), ~Live(s), ~Live(new), SplitTree(n, s, new, newFirst)
  PROVE  /\ TreeLinks'
         /\ nviewports' \in Viewport
         /\ subtree' \in [Viewport -> Node \cup {Null}]
         /\ parent' \in [Node -> Viewport \cup Split \cup {Null}]
         /\ pack0' \in [Split -> Node \cup {Null}]
         /\ pack1' \in [Split -> Node \cup {Null}]
         /\ Live(new)' /\ \A m \in Notebook : Live(m) => Live(m)'
<1> DEFINE p == parent[n]
<1>1. n \in Node /\ s \in Node /\ new \in Node /\ n # new /\ n # s /\ new # s
      /\ p \in Viewport \cup Split /\ p # s /\ p # Null
  <2>1. n \in Node /\ s \in Node /\ new \in Node /\ n # new /\ n # s /\ new # s
    BY Distinct DEF Node, Live
  <2> QED  BY <2>1, DeadIsDetached DEF Live, TypeOK
<1>2. /\ nviewports' = nviewports
      /\ \A v \in Viewport :
           subtree'[v] = IF v = p /\ subtree[v] = n THEN s ELSE subtree[v]
      /\ \A m \in Node : parent'[m] = IF m = s THEN p ELSE IF m \in {n, new} THEN s ELSE parent[m]
      /\ \A t \in Split : pack0'[t] = IF t = s THEN (IF newFirst THEN new ELSE n)
                                      ELSE IF t = p /\ pack0[t] = n THEN s ELSE pack0[t]
      /\ \A t \in Split : pack1'[t] = IF t = s THEN (IF newFirst THEN n ELSE new)
                                      ELSE IF t = p /\ pack1[t] = n THEN s ELSE pack1[t]
  BY <1>1 DEF SplitTree, ReplaceInSubtree, ReplaceInPack, TypeOK
<1>3. /\ nviewports' \in Viewport
      /\ subtree' \in [Viewport -> Node \cup {Null}]
      /\ parent' \in [Node -> Viewport \cup Split \cup {Null}]
      /\ pack0' \in [Split -> Node \cup {Null}]
      /\ pack1' \in [Split -> Node \cup {Null}]
  BY <1>1 DEF SplitTree, ReplaceInSubtree, ReplaceInPack, TypeOK
<1>4. \A m \in Node : Live(m)' <=> Live(m) \/ m \in {s, new}
  BY <1>1, <1>2, Distinct DEF Live, Node
<1>5. \A v \in Viewport : subtree'[v] # Null <=> v <= nviewports'
  BY <1>1, <1>2, Distinct DEF TreeLinks
<1>6. \A t \in Split :
        /\ Live(t)'  => {pack0'[t], pack1'[t]} \subseteq Node /\ pack0'[t] # pack1'[t]
        /\ ~Live(t)' => {pack0'[t], pack1'[t]} = {Null}
  <2>1. \A t \in Split : t \in Node /\ (t # s => (Live(t)' <=> Live(t)))
    BY <1>1, <1>4, Distinct DEF Node
  <2>2. Live(s)'
    BY <1>1, <1>4
  <2>3. \A t \in Split : s \notin {pack0[t], pack1[t]} /\ new \notin {pack0[t], pack1[t]}
    BY <1>1, DeadIsDetached
  <2> QED  BY <1>1, <1>2, <2>1, <2>2, <2>3, Distinct DEF TreeLinks
<1>7. \A m \in Node, v \in Viewport : subtree'[v] = m <=> parent'[m] = v
  <2>1. \A v \in Viewport : v # s /\ subtree[v] # s /\ subtree[v] # new /\ (subtree[v] = n <=> p = v)
    BY <1>1, Distinct, DeadIsDetached DEF TreeLinks
  <2> QED  BY <1>1, <1>2, <2>1 DEF TreeLinks
<1>8. \A m \in Node, t \in Split : m \in {pack0'[t], pack1'[t]} <=> parent'[m] = t
  <2>1. \A t \in Split : s \notin {pack0[t], pack1[t]} /\ new \notin {pack0[t], pack1[t]}
                         /\ (n \in {pack0[t], pack1[t]} <=> p = t)
    BY <1>1, DeadIsDetached DEF TreeLinks
  <2>2. p \in Split => pack0[p] # pack1[p]
    <3>1. p \in Split => Live(p)
      BY <1>1, DeadIsDetached DEF Node
    <3> QED  BY <3>1 DEF TreeLinks
  <2>3. \A m \in Node : parent[m] # s
    BY <1>1, DeadIsDetached
  <2>4. TAKE m \in Node, t \in Split
  <2>5. CASE t = s
    BY <1>1, <1>2, <2>3, <2>5
  <2>6. CASE t # s /\ t = p
    <3>1. {pack0'[t], pack1'[t]} = ({pack0[t], pack1[t]} \ {n}) \cup {s}
      BY <1>1, <1>2, <2>1, <2>2, <2>6
    <3> QED  BY <1>1, <1>2, <2>1, <2>6, <3>1 DEF TreeLinks
  <2>7. CASE t # s /\ t # p
    <3>1. {pack0'[t], pack1'[t]} = {pack0[t], pack1[t]}
      BY <1>2, <2>7
    <3> QED  BY <1>1, <1>2, <2>1, <2>7, <3>1 DEF TreeLinks
  <2> QED  BY <2>5, <2>6, <2>7
<1>9. TreeLinks'
  BY <1>5, <1>6, <1>7, <1>8 DEF TreeLinks
<1> QED  BY <1>1, <1>3, <1>4, <1>9 DEF Node

LEMMA SplitNotebookInv ==
  ASSUME Inv, NEW n \in Notebook, NEW s \in Split, NEW new \in Notebook, SplitNotebook(n, s, new)
  PROVE  Inv'
<1> USE DEF Inv
<1>1. UNCHANGED <<popVars, modeVars>> /\ Live(n) /\ ~Live(s) /\ ~Live(new)
  BY DEF SplitNotebook
<1>2. \E newFirst \in BOOLEAN : SplitTree(n, s, new, newFirst)
  BY DEF SplitNotebook
<1>3. /\ TreeLinks'
      /\ nviewports' \in Viewport
      /\ subtree' \in [Viewport -> Node \cup {Null}]
      /\ parent' \in [Node -> Viewport \cup Split \cup {Null}]
      /\ pack0' \in [Split -> Node \cup {Null}]
      /\ pack1' \in [Split -> Node \cup {Null}]
      /\ Live(new)' /\ \A m \in Notebook : Live(m) => Live(m)'
  BY <1>1, <1>2, SplitTreeLinks
<1>4. /\ tabs' \in [Notebook -> SUBSET Client]
      /\ selected' \in [Notebook -> Client \cup {Null}]
      /\ history' \in Histories /\ active' \in Client \cup {Null}
      /\ OneView' /\ SelectedIsTab' /\ FocusIsVisible'
  <2>1. CASE UNCHANGED <<tabVars, focusVars>>
    <3>1. Viewed' = Viewed
      BY <1>1, <2>1 DEF Viewed, modeVars, tabVars
    <3>2. OneView'
      BY <1>1, <1>3, <2>1, <3>1 DEF OneView, modeVars, tabVars
    <3> QED  BY <2>1, <3>1, <3>2 DEF TypeOK, SelectedIsTab, FocusIsVisible, tabVars, focusVars
  <2>2. CASE \E c \in Client : /\ HasTab(c)
                               /\ \E sel \in SelectionsAfterLeaving(c) : TabGoesTo(c, new, sel)
    BY <1>1, <1>3, <2>2, TabMoves
  <2> QED  BY <2>1, <2>2 DEF SplitNotebook
<1>5. TypeOK'
  BY <1>1, <1>3, <1>4 DEF TypeOK, popVars, modeVars
<1>6. DefaultIsMarked' /\ RevertIsAlive'
  BY <1>1, <1>3, ConstantsAssumption DEF TypeOK, DefaultIsMarked, RevertIsAlive, popVars, modeVars
<1> QED  BY <1>3, <1>4, <1>5, <1>6

(* The tabs of notebooks that go are kept, each in one notebook.           *)
LEMMA TabsMove ==
  ASSUME Inv, NEW dead \in SUBSET Notebook, NEW d \in Notebook \ dead, Live(d),
         NEW order \in SetToSeqs(UNION {tabs[n] : n \in dead}), TabsMoveTo(dead, d, order),
         UNCHANGED <<managed, floating, fullscreen>>,
         \A m \in Notebook : Live(m)' <=> Live(m) /\ m \notin dead
  PROVE  /\ tabs' \in [Notebook -> SUBSET Client]
         /\ selected' \in [Notebook -> Client \cup {Null}]
         /\ history' \in Histories /\ ToSet(history') \subseteq Viewed'
         /\ OneView' /\ SelectedIsTab'
         /\ (UNION {tabs[n] : n \in dead}) # {} =>
              Head(order) \in Client \cap ToSet(history') /\ selected'[d] = Head(order)
              /\ \A m \in Notebook : Head(order) \in tabs'[m] => m = d
<1> USE DEF Inv
<1> DEFINE moving == UNION {tabs[n] : n \in dead}
<1>1. moving \subseteq Client /\ \A c \in moving : \A n \in Notebook \ dead : c \notin tabs[n]
  BY DEF TypeOK, OneView
<1>2. ToSet(order) \subseteq moving /\ (moving # {} => Head(order) \in moving \cap ToSet(order))
  BY <1>1, OrderHead
<1>3. \A n \in Notebook : tabs'[n] = IF n = d THEN tabs[n] \cup moving
                                     ELSE IF n \in dead THEN {} ELSE tabs[n]
  BY DEF TabsMoveTo
<1>4. \A n \in Notebook : selected'[n] = IF n = d /\ moving # {} THEN Head(order)
                                         ELSE IF n \in dead THEN Null ELSE selected[n]
  BY DEF TabsMoveTo
<1>5. tabs' \in [Notebook -> SUBSET Client] /\ selected' \in [Notebook -> Client \cup {Null}]
  BY <1>1, <1>2 DEF TabsMoveTo, TypeOK
<1>6. UNION {tabs'[n] : n \in Notebook} = UNION {tabs[n] : n \in Notebook}
  BY <1>3
<1>7. Viewed' = Viewed
  BY <1>6 DEF Viewed
<1>8. history' \in Histories /\ ToSet(history') = ToSet(history) \cup ToSet(order)
  BY HistoryAfterSet DEF TabsMoveTo
<1>9. ToSet(history') \subseteq Viewed'
  BY <1>2, <1>7, <1>8 DEF FocusIsVisible, Viewed
<1>10. OneView'
  <2>1. \A n \in Notebook : tabs'[n] # {} => Live(n)'
    BY <1>3 DEF OneView
  <2>2. \A m, n \in Notebook : m # n => tabs'[m] \cap tabs'[n] = {}
    BY <1>1, <1>3 DEF OneView
  <2>3. moving \cap (floating \cup fullscreen) = {}
    BY DEF OneView
  <2>4. \A n \in Notebook : tabs'[n] \cap (floating' \cup fullscreen') = {}
    BY <1>3, <2>3 DEF OneView
  <2> QED  BY <1>7, <2>1, <2>2, <2>4 DEF OneView
<1>11. SelectedIsTab'
  BY <1>2, <1>3, <1>4, ZenonT(40) DEF SelectedIsTab
<1>12. moving # {} => /\ Head(order) \in Client \cap ToSet(history') /\ selected'[d] = Head(order)
                      /\ \A m \in Notebook : Head(order) \in tabs'[m] => m = d
  BY <1>1, <1>2, <1>3, <1>4, <1>8
<1> QED  BY <1>5, <1>8, <1>9, <1>10, <1>11, <1>12

(* The sibling of a notebook that is closed takes the place of the split.  *)
LEMMA CloseTreeLinks ==
  ASSUME Inv, NEW n \in Notebook, CloseNotebook(n)
  PROVE  /\ TreeLinks'
         /\ nviewports' \in Viewport
         /\ subtree' \in [Viewport -> Node \cup {Null}]
         /\ parent' \in [Node -> Viewport \cup Split \cup {Null}]
         /\ pack0' \in [Split -> Node \cup {Null}]
         /\ pack1' \in [Split -> Node \cup {Null}]
         /\ \A m \in Notebook : Live(m)' <=> Live(m) /\ m # n
<1> USE DEF Inv
<1> DEFINE s   == parent[n]
           dst == IF pack0[s] = n THEN pack1[s] ELSE pack0[s]
           p   == parent[s]
<1>1. n \in Node /\ s \in Split /\ s \in Node /\ n # s
  BY Distinct DEF CloseNotebook, Node
<1>2. Live(s)
  BY <1>1, DeadIsDetached
<1>3. dst \in Node /\ dst # n /\ {pack0[s], pack1[s]} = {n, dst} /\ parent[dst] = s
  BY <1>1, <1>2 DEF TreeLinks
<1>4. p \in Viewport \cup Split /\ p # Null /\ (p \in Split => p \in Node /\ Live(p))
  <2>1. p \in Viewport \cup Split /\ p # Null
    BY <1>1, <1>2 DEF Live, TypeOK
  <2> QED  BY <1>1, <2>1, DeadIsDetached DEF Node
<1>5. p = s <=> dst = s
  BY <1>1, <1>3 DEF TreeLinks
<1>6. /\ nviewports' = nviewports
      /\ subtree' = ReplaceInSubtree(p, s, dst)
      /\ parent' = [parent EXCEPT ![dst] = p, ![s] = Null, ![n] = Null]
      /\ pack0' = [ReplaceInPack(pack0, p, s, dst) EXCEPT ![s] = Null]
      /\ pack1' = [ReplaceInPack(pack1, p, s, dst) EXCEPT ![s] = Null]
  BY DEF CloseNotebook
<1>7. /\ \A v \in Viewport :
           subtree'[v] = IF v = p /\ subtree[v] = s THEN dst ELSE subtree[v]
      /\ \A m \in Node : parent'[m] = IF m \in {s, n} THEN Null ELSE IF m = dst THEN p ELSE parent[m]
      /\ \A t \in Split : pack0'[t] = IF t = s THEN Null
                                      ELSE IF t = p /\ pack0[t] = s THEN dst ELSE pack0[t]
      /\ \A t \in Split : pack1'[t] = IF t = s THEN Null
                                      ELSE IF t = p /\ pack1[t] = s THEN dst ELSE pack1[t]
  BY <1>1, <1>3, <1>6 DEF ReplaceInSubtree, ReplaceInPack, TypeOK
<1>8. /\ nviewports' \in Viewport
      /\ subtree' \in [Viewport -> Node \cup {Null}]
      /\ parent' \in [Node -> Viewport \cup Split \cup {Null}]
      /\ pack0' \in [Split -> Node \cup {Null}]
      /\ pack1' \in [Split -> Node \cup {Null}]
  BY <1>3, <1>4, <1>6 DEF ReplaceInSubtree, ReplaceInPack, TypeOK
<1>9. \A m \in Node : Live(m)' <=> Live(m) /\ m \notin {s, n}
  BY <1>1, <1>3, <1>4, <1>7, Distinct DEF Live, Node
<1>10. \A v \in Viewport : subtree'[v] # Null <=> v <= nviewports'
  BY <1>1, <1>3, <1>6, <1>7, Distinct DEF TreeLinks
<1>11. \A t \in Split :
         /\ Live(t)'  => {pack0'[t], pack1'[t]} \subseteq Node /\ pack0'[t] # pack1'[t]
         /\ ~Live(t)' => {pack0'[t], pack1'[t]} = {Null}
  <2>1. TAKE t \in Split
  <2>2. t \in Node /\ t # n
    BY Distinct DEF Node
  <2>3. CASE t = s
    BY <1>7, <1>9, <2>2, <2>3
  <2>4. CASE t # s /\ t = p
    <3>1. dst \notin {pack0[t], pack1[t]}
      BY <1>3, <2>4 DEF TreeLinks
    <3> QED  BY <1>3, <1>4, <1>7, <1>9, <2>2, <2>4, <3>1 DEF TreeLinks
  <2>5. CASE t # s /\ t # p
    BY <1>7, <1>9, <2>2, <2>5 DEF TreeLinks
  <2> QED  BY <2>3, <2>4, <2>5
<1>12. \A m \in Node, v \in Viewport : subtree'[v] = m <=> parent'[m] = v
  <2>1. \A v \in Viewport : v # s /\ v # Null /\ subtree[v] # n /\ subtree[v] # dst
    BY <1>1, <1>3, Distinct DEF TreeLinks
  <2>2. \A v \in Viewport : subtree[v] = s <=> p = v
    BY <1>1 DEF TreeLinks
  <2> QED  BY <1>1, <1>3, <1>5, <1>7, <2>1, <2>2 DEF TreeLinks
<1>13. \A m \in Node, t \in Split : m \in {pack0'[t], pack1'[t]} <=> parent'[m] = t
  <2>1. TAKE m \in Node, t \in Split
  <2>2. t \in Node /\ t # Null /\ m # Null
    BY Distinct DEF Node
  <2>3. CASE t = s
    <3>1. m \notin {s, n, dst} => parent[m] # s
      BY <1>1, <1>3 DEF TreeLinks
    <3>2. parent'[m] # s
      BY <1>5, <1>7, <2>2, <2>3, <3>1
    <3> QED  BY <1>7, <2>2, <2>3, <3>2
  <2>4. CASE t # s /\ t = p
    <3>1. {pack0'[t], pack1'[t]} = ({pack0[t], pack1[t]} \ {s}) \cup {dst}
      BY <1>1, <1>7, <2>4 DEF TreeLinks
    <3>2. n \notin {pack0[t], pack1[t]} /\ n # dst /\ dst # s
      BY <1>1, <1>3, <1>5, <2>4 DEF TreeLinks
    <3> QED  BY <1>7, <2>2, <2>4, <3>1, <3>2 DEF TreeLinks
  <2>5. CASE t # s /\ t # p
    <3>1. {pack0'[t], pack1'[t]} = {pack0[t], pack1[t]}
      BY <1>7, <2>5
    <3>2. s \notin {pack0[t], pack1[t]} /\ n \notin {pack0[t], pack1[t]}
          /\ dst \notin {pack0[t], pack1[t]}
      BY <1>1, <1>3, <2>5 DEF TreeLinks
    <3> QED  BY <1>7, <2>2, <2>5, <3>1, <3>2 DEF TreeLinks
  <2> QED  BY <2>3, <2>4, <2>5
<1>14. TreeLinks'
  BY <1>10, <1>11, <1>12, <1>13 DEF TreeLinks
<1> QED  BY <1>1, <1>8, <1>9, <1>14, Distinct DEF Node

LEMMA CloseNotebookInv ==
  ASSUME Inv, NEW n \in Notebook, CloseNotebook(n)
  PROVE  Inv'
<1> USE DEF Inv
<1>1. /\ TreeLinks'
      /\ nviewports' \in Viewport
      /\ subtree' \in [Viewport -> Node \cup {Null}]
      /\ parent' \in [Node -> Viewport \cup Split \cup {Null}]
      /\ pack0' \in [Split -> Node \cup {Null}]
      /\ pack1' \in [Split -> Node \cup {Null}]
      /\ \A m \in Notebook : Live(m)' <=> Live(m) /\ m \notin {n}
  BY CloseTreeLinks
<1>2. PICK d \in EnsureDefault(LiveNotebooks \ {n}), order \in SetToSeqs(tabs[n]) :
        DefaultBecomes(d, {n}) /\ TabsMoveTo({n}, d, order)
  BY DEF CloseNotebook
<1>3. /\ ForgetNotebooks({n}) /\ active' = Null
      /\ UNCHANGED <<nviewports, managed, floating, fullscreen, revert_type>>
  BY DEF CloseNotebook
<1>4. d \in Notebook \ {n} /\ Live(d) /\ default_pop' = d /\ marked' = {d}
  BY <1>2, DefaultStaysMarked
<1>5. UNION {tabs[m] : m \in {n}} = tabs[n]
  OBVIOUS
<1>6. /\ tabs' \in [Notebook -> SUBSET Client]
      /\ selected' \in [Notebook -> Client \cup {Null}]
      /\ history' \in Histories /\ ToSet(history') \subseteq Viewed'
      /\ OneView' /\ SelectedIsTab'
  BY <1>1, <1>2, <1>3, <1>4, <1>5, TabsMove
<1>7. revert_notebook' \in [Client -> Notebook \cup {Null}] /\ RevertIsAlive'
  BY <1>1, <1>3, ConstantsAssumption DEF ForgetNotebooks, RevertIsAlive, TypeOK
<1>8. TypeOK'
  BY <1>1, <1>3, <1>4, <1>6, <1>7 DEF TypeOK
<1>9. DefaultIsMarked' /\ FocusIsVisible'
  BY <1>1, <1>3, <1>4, <1>6, ConstantsAssumption DEF DefaultIsMarked, FocusIsVisible
<1> QED  BY <1>1, <1>6, <1>7, <1>8, <1>9

(* New viewports only hang new notebooks in the tree.                      *)
LEMMA AddTreeLinks ==
  ASSUME Inv, NEW k \in Viewport, AddViewports(k)
  PROVE  /\ TreeLinks'
         /\ subtree' \in [Viewport -> Node \cup {Null}]
         /\ parent' \in [Node -> Viewport \cup Split \cup {Null}]
         /\ \A m \in Node : Live(m) => Live(m)'
<1> USE DEF Inv
<1>1. k > nviewports /\ nviewports' = k /\ pack0' = pack0 /\ pack1' = pack1
      /\ nviewports \in Nat /\ k \in Nat
  BY Distinct DEF AddViewports, TypeOK
<1>2. PICK first \in [(nviewports + 1)..k -> {n \in Notebook : ~Live(n)}] :
       /\ \A v, w \in DOMAIN first : v # w => first[v] # first[w]
       /\ subtree' = [v \in Viewport |-> IF v \in DOMAIN first THEN first[v] ELSE subtree[v]]
       /\ parent' = [n \in Node |->
            IF \E v \in DOMAIN first : first[v] = n
            THEN CHOOSE v \in DOMAIN first : first[v] = n ELSE parent[n]]
  BY DEF AddViewports
<1> DEFINE D == (nviewports + 1)..k
<1>3. /\ DOMAIN first = D
      /\ \A v \in Viewport : v \in D <=> v > nviewports /\ v <= k
      /\ D \subseteq Viewport
      /\ \A v \in D : first[v] \in Notebook /\ first[v] \in Node /\ ~Live(first[v])
  BY <1>1, <1>2, ConstantsAssumption DEF Viewport, Node
<1>4. /\ \A v \in D : subtree'[v] = first[v] /\ parent'[first[v]] = v
      /\ \A v \in Viewport \ D : subtree'[v] = subtree[v]
      /\ \A n \in Node : (\A v \in D : first[v] # n) => parent'[n] = parent[n]
  <2>1. \A v \in D : parent'[first[v]] = v
    <3>1. TAKE v \in D
    <3>2. parent'[first[v]] = CHOOSE w \in D : first[w] = first[v]
      BY <1>2, <1>3
    <3>3. \A w \in D : first[w] = first[v] => w = v
      BY <1>2, <1>3
    <3> QED  BY <3>2, <3>3
  <2>2. \A v \in D : subtree'[v] = first[v]
    BY <1>2, <1>3
  <2>3. \A v \in Viewport \ D : subtree'[v] = subtree[v]
    BY <1>2, <1>3
  <2>4. \A n \in Node : (\A v \in D : first[v] # n) => parent'[n] = parent[n]
    BY <1>2, <1>3
  <2> QED  BY <2>1, <2>2, <2>3, <2>4
<1>5. subtree' \in [Viewport -> Node \cup {Null}]
  BY <1>2, <1>3 DEF TypeOK
<1>6. parent' \in [Node -> Viewport \cup Split \cup {Null}]
  <2>1. \A n \in Node : parent'[n] \in Viewport \cup Split \cup {Null}
    BY <1>3, <1>4 DEF TypeOK
  <2> QED  BY <1>2, <2>1
<1>7. \A m \in Node : Live(m)' <=> Live(m) \/ \E v \in D : first[v] = m
  BY <1>3, <1>4, Distinct DEF Live
<1>8. \A v \in Viewport : subtree'[v] # Null <=> v <= nviewports'
  <2>1. \A v \in D : subtree'[v] # Null
    BY <1>3, <1>4, Distinct
  <2>2. \A v \in Viewport : v \in Nat
    BY Distinct
  <2> QED  BY <1>1, <1>3, <1>4, <2>1, <2>2 DEF TreeLinks
<1>9. \A t \in Split : Live(t)' <=> Live(t)
  <2>1. \A t \in Split : t \in Node /\ t \notin Notebook
    BY Distinct DEF Node
  <2> QED  BY <1>3, <1>7, <2>1
<1>10. \A m \in Node, v \in Viewport : subtree'[v] = m <=> parent'[m] = v
  <2>1. TAKE m \in Node, v \in Viewport
  <2>2. CASE \E w \in D : first[w] = m
    <3>1. PICK w \in D : first[w] = m
      BY <2>2
    <3>2. parent'[m] = w /\ \A u \in Viewport : subtree[u] # m
      BY <1>3, <1>4, <3>1, DeadIsDetached
    <3> QED  BY <1>2, <1>3, <1>4, <3>1, <3>2
  <2>3. CASE \A w \in D : first[w] # m
    <3>1. parent'[m] = parent[m]
      BY <1>4, <2>3
    <3>2. CASE v \in D
      <4>1. subtree[v] = Null /\ m # Null
        BY <1>3, <3>2, Distinct DEF TreeLinks, TypeOK, Viewport
      <4> QED  BY <1>4, <2>3, <3>1, <3>2, <4>1 DEF TreeLinks
    <3>3. CASE v \notin D
      BY <1>4, <3>1, <3>3 DEF TreeLinks
    <3> QED  BY <3>2, <3>3
  <2> QED  BY <2>2, <2>3
<1>11. \A m \in Node, t \in Split : m \in {pack0'[t], pack1'[t]} <=> parent'[m] = t
  <2>1. TAKE m \in Node, t \in Split
  <2>2. CASE \E w \in D : first[w] = m
    <3>1. PICK w \in D : first[w] = m
      BY <2>2
    <3>2. parent'[m] = w /\ pack0[t] # m /\ pack1[t] # m
      BY <1>3, <1>4, <3>1, DeadIsDetached
    <3>3. w # t
      BY <1>3, Distinct DEF Node
    <3> QED  BY <1>1, <3>2, <3>3
  <2>3. CASE \A w \in D : first[w] # m
    BY <1>1, <1>4, <2>3 DEF TreeLinks
  <2> QED  BY <2>2, <2>3
<1>12. TreeLinks'
  BY <1>1, <1>8, <1>9, <1>10, <1>11 DEF TreeLinks
<1> QED  BY <1>5, <1>6, <1>7, <1>12

LEMMA AddViewportsInv ==
  ASSUME Inv, NEW k \in Viewport, AddViewports(k)
  PROVE  Inv'
<1> USE DEF Inv
<1>1. /\ TreeLinks'
      /\ subtree' \in [Viewport -> Node \cup {Null}]
      /\ parent' \in [Node -> Viewport \cup Split \cup {Null}]
      /\ \A m \in Node : Live(m) => Live(m)'
  BY AddTreeLinks
<1>2. UNCHANGED <<pack0, pack1, popVars, modeVars, tabVars, focusVars>> /\ nviewports' = k
  BY DEF AddViewports
<1>3. TypeOK'
  BY <1>1, <1>2 DEF TypeOK, popVars, modeVars, tabVars, focusVars
<1>4. \A m \in Notebook : Live(m) => Live(m)'
  BY <1>1 DEF Node
<1>5. OneView' /\ SelectedIsTab' /\ FocusIsVisible'
  BY <1>2, <1>4 DEF OneView, SelectedIsTab, FocusIsVisible, Viewed, modeVars, tabVars, focusVars
<1>6. DefaultIsMarked' /\ RevertIsAlive'
  BY <1>2, <1>4 DEF DefaultIsMarked, RevertIsAlive, TypeOK, popVars, modeVars
<1> QED  BY <1>1, <1>3, <1>5, <1>6

(* What gather_children_root_first collects holds, with a split, its packs,*)
(* and, with a node, the split that holds it up to the viewport.           *)
LEMMA BelowIsClosed ==
  ASSUME TypeOK, TreeLinks, NEW v \in Viewport, v <= nviewports
  PROVE  /\ Below(v) \subseteq Node /\ subtree[v] \in Below(v)
         /\ \A s \in Below(v) \cap Split : {pack0[s], pack1[s]} \cap Node \subseteq Below(v)
         /\ \A n \in Below(v) : parent[n] = v \/ parent[n] \in Below(v) \cap Split
<1>1. subtree[v] \in Node
  BY DEF TypeOK, TreeLinks
<1>2. Below(v) \subseteq Node /\ subtree[v] \in Below(v)
  BY <1>1 DEF Below
<1>3. \A s \in Below(v) \cap Split : {pack0[s], pack1[s]} \cap Node \subseteq Below(v)
  <2>1. TAKE s \in Below(v) \cap Split
  <2>2. SUFFICES ASSUME NEW n \in {pack0[s], pack1[s]} \cap Node, NEW S \in SUBSET Node,
                        subtree[v] \in S,
                        \A t \in S \cap Split : {pack0[t], pack1[t]} \cap Node \subseteq S
                 PROVE  n \in S
    BY DEF Below
  <2>3. s \in S
    BY <2>2 DEF Below
  <2> QED  BY <2>2, <2>3
<1>4. \A n \in Below(v) : parent[n] = v \/ parent[n] \in Below(v) \cap Split
  <2>1. SUFFICES ASSUME NEW n \in Below(v), parent[n] # v, parent[n] \notin Below(v) \cap Split
                 PROVE  FALSE
    OBVIOUS
  <2> DEFINE S == Below(v) \ {n}
  <2>2. n \in Node /\ S \in SUBSET Node
    BY <1>2
  <2>3. subtree[v] \in S
    BY <1>2, <2>1, <2>2 DEF TreeLinks
  <2>4. \A t \in S \cap Split : {pack0[t], pack1[t]} \cap Node \subseteq S
    <3>1. \A t \in S \cap Split : n \notin {pack0[t], pack1[t]}
      BY <2>1, <2>2 DEF TreeLinks
    <3> QED  BY <1>3, <3>1
  <2>5. n \in S
    BY <2>2, <2>3, <2>4 DEF Below
  <2> QED  BY <2>5
<1> QED  BY <1>2, <1>3, <1>4

(* The viewports that go take whole subtrees with them.                    *)
LEMMA RemoveTreeLinks ==
  ASSUME Inv, NEW k \in Viewport, RemoveViewports(k)
  PROVE  /\ TreeLinks'
         /\ subtree' \in [Viewport -> Node \cup {Null}]
         /\ parent' \in [Node -> Viewport \cup Split \cup {Null}]
         /\ pack0' \in [Split -> Node \cup {Null}]
         /\ pack1' \in [Split -> Node \cup {Null}]
         /\ \A m \in Node :
              Live(m)' <=> Live(m) /\ m \notin UNION {Below(v) : v \in (k + 1)..nviewports}
<1> USE DEF Inv
<1> DEFINE G    == (k + 1)..nviewports
           dead == UNION {Below(v) : v \in G}
<1>1. /\ k < nviewports /\ nviewports' = k /\ k \in Nat /\ nviewports \in Nat
      /\ subtree' = [v \in Viewport |-> IF v > k THEN Null ELSE subtree[v]]
      /\ parent' = [n \in Node |-> IF n \in dead THEN Null ELSE parent[n]]
      /\ pack0' = [s \in Split |-> IF s \in dead THEN Null ELSE pack0[s]]
      /\ pack1' = [s \in Split |-> IF s \in dead THEN Null ELSE pack1[s]]
  BY Distinct DEF RemoveViewports, TypeOK
<1>2. /\ subtree' \in [Viewport -> Node \cup {Null}]
      /\ parent' \in [Node -> Viewport \cup Split \cup {Null}]
      /\ pack0' \in [Split -> Node \cup {Null}]
      /\ pack1' \in [Split -> Node \cup {Null}]
  BY <1>1 DEF TypeOK
<1>3. \A v \in Viewport : v \in Nat /\ (v \in G <=> v > k /\ v <= nviewports)
  BY <1>1, Distinct
<1>4. G \subseteq Viewport
  BY <1>1, ConstantsAssumption DEF Viewport, TypeOK
<1>5. /\ dead \subseteq Node
      /\ \A v \in G : subtree[v] \in dead
      /\ \A s \in dead \cap Split : {pack0[s], pack1[s]} \cap Node \subseteq dead
      /\ \A n \in dead : parent[n] \in G \cup (dead \cap Split)
  BY <1>3, <1>4, BelowIsClosed
<1>6. \A m \in Node : Live(m)' <=> Live(m) /\ m \notin dead
  BY <1>1 DEF Live
<1>7. \A v \in Viewport : subtree'[v] # Null <=> v <= nviewports'
  BY <1>1, <1>3 DEF TreeLinks
<1>8. \A s \in Split :
        /\ Live(s)'  => {pack0'[s], pack1'[s]} \subseteq Node /\ pack0'[s] # pack1'[s]
        /\ ~Live(s)' => {pack0'[s], pack1'[s]} = {Null}
  <2>1. TAKE s \in Split
  <2>2. s \in Node
    BY DEF Node
  <2> QED  BY <1>1, <1>6, <2>2 DEF TreeLinks
<1>9. \A m \in Node, v \in Viewport : subtree'[v] = m <=> parent'[m] = v
  <2>1. TAKE m \in Node, v \in Viewport
  <2>2. m # Null /\ v # Null /\ v \notin Node
    BY Distinct
  <2>3. subtree[v] = m <=> parent[m] = v
    BY DEF TreeLinks
  <2>4. CASE v > k
    <3>1. parent[m] = v => m \in dead
      <4>1. subtree[v] # Null <=> v <= nviewports
        BY DEF TreeLinks
      <4> QED  BY <1>3, <1>5, <2>2, <2>3, <2>4, <4>1
    <3> QED  BY <1>1, <2>2, <2>4, <3>1
  <2>5. CASE ~(v > k)
    <3>1. v \notin G /\ (parent[m] = v => m \notin dead)
      BY <1>3, <1>5, <2>2, <2>5
    <3> QED  BY <1>1, <2>2, <2>3, <2>5, <3>1
  <2> QED  BY <2>4, <2>5
<1>10. \A m \in Node, s \in Split : m \in {pack0'[s], pack1'[s]} <=> parent'[m] = s
  <2>1. TAKE m \in Node, s \in Split
  <2>2. m # Null /\ s # Null /\ s \in Node /\ s \notin Viewport
    BY Distinct DEF Node
  <2>3. m \in {pack0[s], pack1[s]} <=> parent[m] = s
    BY DEF TreeLinks
  <2>4. parent[m] = s => (m \in dead <=> s \in dead)
    BY <1>4, <1>5, <2>2, <2>3
  <2> QED  BY <1>1, <2>2, <2>3, <2>4
<1>11. TreeLinks'
  BY <1>7, <1>8, <1>9, <1>10 DEF TreeLinks
<1> QED  BY <1>2, <1>6, <1>11

LEMMA RemoveViewportsInv ==
  ASSUME Inv, NEW k \in Viewport, RemoveViewports(k)
  PROVE  Inv'
<1> USE DEF Inv
<1> DEFINE deadNodes == UNION {Below(v) : v \in (k + 1)..nviewports}
           dead      == deadNodes \cap Notebook
           moving    == UNION {tabs[n] : n \in dead}
<1>1. /\ TreeLinks'
      /\ subtree' \in [Viewport -> Node \cup {Null}]
      /\ parent' \in [Node -> Viewport \cup Split \cup {Null}]
      /\ pack0' \in [Split -> Node \cup {Null}]
      /\ pack1' \in [Split -> Node \cup {Null}]
      /\ \A m \in Node : Live(m)' <=> Live(m) /\ m \notin deadNodes
  BY RemoveTreeLinks
<1>2. \A m \in Notebook : Live(m)' <=> Live(m) /\ m \notin dead
  BY <1>1 DEF Node
<1>3. /\ nviewports' = k /\ ForgetNotebooks(dead)
      /\ UNCHANGED <<managed, floating, fullscreen, revert_type>>
  BY DEF RemoveViewports
<1>4. revert_notebook' \in [Client -> Notebook \cup {Null}] /\ RevertIsAlive'
  BY <1>2, <1>3, ConstantsAssumption DEF ForgetNotebooks, RevertIsAlive, TypeOK
<1>5. /\ tabs' \in [Notebook -> SUBSET Client]
      /\ selected' \in [Notebook -> Client \cup {Null}]
      /\ history' \in Histories /\ active' \in Client \cup {Null}
      /\ default_pop' \in Notebook \cup {Null} /\ marked' \in SUBSET Notebook
      /\ OneView' /\ SelectedIsTab' /\ FocusIsVisible' /\ DefaultIsMarked'
  <2>1. CASE moving = {}
    <3>1. /\ default_pop' = IF default_pop \in dead THEN Null ELSE default_pop
          /\ marked' = marked \ dead
          /\ selected' = [n \in Notebook |-> IF n \in dead THEN Null ELSE selected[n]]
          /\ UNCHANGED <<tabs, focusVars>>
      BY <2>1 DEF RemoveViewports
    <3>2. \A n \in dead : tabs[n] = {}
      BY <2>1
    <3>3. Viewed' = Viewed
      BY <1>3, <3>1 DEF Viewed
    <3>4. OneView'
      BY <1>2, <1>3, <3>1, <3>2, <3>3 DEF OneView
    <3>5. SelectedIsTab'
      BY <3>1 DEF SelectedIsTab
    <3>6. FocusIsVisible'
      BY <3>1, <3>2, <3>3 DEF FocusIsVisible, focusVars
    <3>7. DefaultIsMarked'
      BY <1>2, <3>1, ConstantsAssumption DEF DefaultIsMarked, TypeOK
    <3> QED  BY <3>1, <3>4, <3>5, <3>6, <3>7 DEF TypeOK, focusVars
  <2>2. CASE moving # {}
    <3>1. PICK d \in EnsureDefault(LiveNotebooks \ dead), order \in SetToSeqs(moving) :
            /\ DefaultBecomes(d, dead)
            /\ TabsMoveTo(dead, d, order)
            /\ active' = Head(order)
      BY <2>2 DEF RemoveViewports
    <3>2. d \in Notebook \ dead /\ Live(d) /\ default_pop' = d /\ marked' = {d}
      BY <3>1, DefaultStaysMarked
    <3>3. /\ tabs' \in [Notebook -> SUBSET Client]
          /\ selected' \in [Notebook -> Client \cup {Null}]
          /\ history' \in Histories /\ ToSet(history') \subseteq Viewed'
          /\ OneView' /\ SelectedIsTab'
          /\ moving # {} =>
              Head(order) \in Client \cap ToSet(history') /\ selected'[d] = Head(order)
              /\ \A m \in Notebook : Head(order) \in tabs'[m] => m = d
      <4>1. dead \in SUBSET Notebook /\ moving = UNION {tabs[n] : n \in dead}
        OBVIOUS
      <4> HIDE DEF dead, moving
      <4> QED  BY <1>2, <1>3, <3>1, <3>2, <4>1, TabsMove
    <3>4. FocusIsVisible'
      BY <2>2, <3>1, <3>3 DEF FocusIsVisible
    <3>5. DefaultIsMarked'
      BY <1>2, <3>2, ConstantsAssumption DEF DefaultIsMarked
    <3> QED  BY <2>2, <3>1, <3>2, <3>3, <3>4, <3>5
  <2> QED  BY <2>1, <2>2
<1>6. TypeOK'
  BY <1>1, <1>3, <1>4, <1>5 DEF TypeOK
<1> QED  BY <1>1, <1>4, <1>5, <1>6

-----------------------------------------------------------------------------
LEMMA InitInv ==
  ASSUME Init
  PROVE  Inv
<1>1. PICK first \in [Viewport -> Notebook] :
       /\ \A v, w \in Viewport : v # w => first[v] # first[w]
       /\ subtree = [v \in Viewport |-> IF v <= nviewports THEN first[v] ELSE Null]
       /\ parent = [n \in Node |->
            IF \E v \in 1..nviewports : first[v] = n
            THEN CHOOSE v \in 1..nviewports : first[v] = n ELSE Null]
  BY DEF Init
<1> DEFINE U == 1..nviewports
<1>2. nviewports \in Viewport /\ nviewports \in Nat
  BY Distinct DEF Init
<1>3. \A v \in Viewport : v \in Nat /\ (v \in U <=> v <= nviewports)
  BY <1>2 DEF Viewport
<1>4. U \subseteq Viewport
  BY <1>2, ConstantsAssumption DEF Viewport
<1>5. /\ \A v \in U : parent[first[v]] = v /\ first[v] \in Notebook
      /\ \A n \in Node : (\A v \in U : first[v] # n) => parent[n] = Null
  <2>1. ASSUME NEW v \in U PROVE parent[first[v]] = v
    <3>1. first[v] \in Node /\ parent[first[v]] = CHOOSE w \in U : first[w] = first[v]
      BY <1>1, <1>4 DEF Node
    <3>2. \A w \in U : first[w] = first[v] => w = v
      BY <1>1, <1>4
    <3> QED  BY <3>1, <3>2
  <2> QED  BY <1>1, <1>4, <2>1
<1>6. \A s \in Split : ~Live(s) /\ s \in Node
  BY <1>5, Distinct DEF Live, Node
<1>7. TreeLinks
  <2>1. \A v \in Viewport : subtree[v] # Null <=> v <= nviewports
    BY <1>1, <1>3, ConstantsAssumption
  <2>2. \A n \in Node, v \in Viewport : subtree[v] = n <=> parent[n] = v
    <3>1. TAKE n \in Node, v \in Viewport
    <3>2. n # Null /\ v # Null
      BY Distinct
    <3>3. CASE \E w \in U : first[w] = n
      <4>1. PICK w \in U : first[w] = n
        BY <3>3
      <4> QED  BY <1>1, <1>3, <1>4, <1>5, <3>2, <4>1
    <3>4. CASE \A w \in U : first[w] # n
      BY <1>1, <1>3, <1>5, <3>2, <3>4
    <3> QED  BY <3>3, <3>4
  <2>3. \A n \in Node, s \in Split : n \in {pack0[s], pack1[s]} <=> parent[n] = s
    <3>1. TAKE n \in Node, s \in Split
    <3>2. pack0[s] = Null /\ pack1[s] = Null /\ n # Null /\ s # Null /\ s \notin Viewport
      BY Distinct DEF Init, Node
    <3>3. parent[n] \in U \cup {Null}
      BY <1>5
    <3> QED  BY <1>4, <3>2, <3>3
  <2>4. \A s \in Split : {pack0[s], pack1[s]} = {Null}
    BY DEF Init
  <2> QED  BY <1>6, <2>1, <2>2, <2>3, <2>4 DEF TreeLinks
<1>8. TypeOK
  <2>1. parent \in [Node -> Viewport \cup Split \cup {Null}]
    <3>1. \A n \in Node : parent[n] \in Viewport \cup Split \cup {Null}
      BY <1>4, <1>5
    <3> QED  BY <1>1, <3>1
  <2>2. subtree \in [Viewport -> Node \cup {Null}]
    BY <1>1 DEF Node
  <2>3. <<>> \in Histories
    <3>1. <<>> \in [1..0 -> Client] /\ 0 \in 0..Cardinality(Client)
      BY ConstantsAssumption, FS_CardinalityType
    <3> QED  BY <3>1 DEF Histories
  <2> QED  BY <1>2, <2>1, <2>2, <2>3 DEF Init, TypeOK
<1>9. OneView /\ SelectedIsTab /\ DefaultIsMarked /\ RevertIsAlive
  BY DEF Init, OneView, SelectedIsTab, DefaultIsMarked, RevertIsAlive, Viewed
<1>10. FocusIsVisible
  <2>1. ToSet(<<>>) = {}
    BY DEF ToSet
  <2> QED  BY <2>1 DEF Init, FocusIsVisible
<1> QED  BY <1>7, <1>8, <1>9, <1>10 DEF Inv

(* Inv is preserved by every step, and so by the operation of every        *)
(* handler of the workspace.                                               *)
THEOREM Invariance == Spec => []Inv
<1>1. Init => Inv
  BY InitInv
<1>2. Inv /\ [Next]_vars => Inv'
  <2>1. SUFFICES ASSUME Inv, [Next]_vars  PROVE Inv'
    OBVIOUS
  <2>2. CASE \E c \in Client :
               \/ MapWindow(c) \/ Unmanage(c) \/ FocusWindow(c)
               \/ MakeFloating(c) \/ MakeNotebook(c)
               \/ EnterFullscreen(c) \/ LeaveFullscreen(c)
               \/ ActivateTab(c) \/ \E n \in Notebook : MoveTab(c, n)
    BY <2>1, <2>2, MapWindowInv, UnmanageInv, FocusWindowInv, MakeFloatingInv, MakeNotebookInv,
       EnterFullscreenInv, LeaveFullscreenInv, ActivateTabInv, MoveTabInv
  <2>3. CASE \E n \in Notebook :
               \/ SetDefaultPop(n) \/ CloseNotebook(n)
               \/ \E s \in Split, new \in Notebook : SplitNotebook(n, s, new)
    BY <2>1, <2>3, SetDefaultPopInv, CloseNotebookInv, SplitNotebookInv
  <2>4. CASE \E k \in Viewport : AddViewports(k) \/ RemoveViewports(k)
    BY <2>1, <2>4, AddViewportsInv, RemoveViewportsInv
  <2>5. CASE UNCHANGED vars
    <3>1. UNCHANGED <<nviewports, subtree, parent, pack0, pack1, default_pop, marked,
                      managed, floating, fullscreen, revert_type, revert_notebook,
                      tabs, selected, history, active>>
      BY <2>5 DEF vars, treeVars, popVars, modeVars, tabVars, focusVars
    <3>2. TypeOK'
      BY <2>1, <3>1 DEF Inv, TypeOK
    <3>3. TreeLinks' /\ DefaultIsMarked' /\ RevertIsAlive'
      BY <2>1, <3>1 DEF Inv, TreeLinks, DefaultIsMarked, RevertIsAlive, Live
    <3>4. OneView' /\ SelectedIsTab' /\ FocusIsVisible'
      BY <2>1, <3>1 DEF Inv, OneView, SelectedIsTab, FocusIsVisible, Live, Viewed
    <3> QED  BY <3>2, <3>3, <3>4 DEF Inv
  <2> QED  BY <2>1, <2>2, <2>3, <2>4, <2>5 DEF Next
<1> QED  BY <1>1, <1>2, PTL DEF Spec

(* Every structure the workspace keeps has the right shape, whatever the   *)
(* number of windows, notebooks and viewports.                             *)
THEOREM TypesAreRight == Spec => []TypeOK
<1>1. Inv => TypeOK
  BY DEF Inv
<1> QED  BY <1>1, Invariance, PTL

(* The pointers of the tree agree after every split, close and change of   *)
(* the monitors.                                                           *)
THEOREM PointersAgree == Spec => []TreeLinks
<1>1. Inv => TreeLinks
  BY DEF Inv
<1> QED  BY <1>1, Invariance, PTL

(* No window ever has two views, and no tab is in a notebook that is gone. *)
THEOREM ViewsAreUnique == Spec => []OneView
<1>1. Inv => OneView
  BY DEF Inv
<1> QED  BY <1>1, Invariance, PTL

(* The window with the focus is always one that can be seen.               *)
THEOREM FocusStaysVisible == Spec => []FocusIsVisible
<1>1. Inv => FocusIsVisible
  BY DEF Inv
<1> QED  BY <1>1, Invariance, PTL

(* The default notebook is the marked one and alive, and a fullscreen view *)
(* remembers only notebooks that are alive.                                *)
THEOREM NoDanglingNotebook == Spec => [](DefaultIsMarked /\ RevertIsAlive)
<1>1. Inv => DefaultIsMarked /\ RevertIsAlive
  BY DEF Inv
<1> QED  BY <1>1, Invariance, PTL

(* A tab leaves a notebook that stays for another only by the hand of the  *)
(* user, who moves that tab alone.                                         *)
THEOREM TabsStay == Spec => TabsStayPut
<1> DEFINE Stay == \A c \in Client, n \in Notebook :
       (c \in tabs[n] /\ Live(n)' /\ c \notin tabs'[n] /\ HasTab(c)')
         => /\ active' = c
            /\ \A d \in Client \ {c}, m \in Notebook : d \in tabs[m] <=> d \in tabs'[m]
<1>1. Inv /\ Next => Stay
  <2>1. SUFFICES ASSUME Inv, Next, NEW c \in Client, NEW n \in Notebook,
                        c \in tabs[n], Live(n)', c \notin tabs'[n], HasTab(c)'
                 PROVE  /\ active' = c
                        /\ \A d \in Client \ {c}, m \in Notebook : d \in tabs[m] <=> d \in tabs'[m]
    OBVIOUS
  <2>2. HasTab(c) /\ c \in managed /\ c \notin floating \cup fullscreen
        /\ \A m \in Notebook : c \in tabs[m] => m = n
    BY <2>1 DEF Inv, OneView, HasTab, Viewed
  <2>3. ASSUME NEW e \in Client, NEW k \in Notebook, NEW sel, TabGoesTo(e, k, sel)
        PROVE  /\ e = c
               /\ active' = c
               /\ \A d \in Client \ {c}, m \in Notebook : d \in tabs[m] <=> d \in tabs'[m]
    <3>1. /\ active' = e
          /\ \A m \in Notebook : tabs'[m] = IF m = k THEN tabs[m] \cup {e} ELSE tabs[m] \ {e}
      BY <2>3 DEF TabGoesTo
    <3>2. e = c
      BY <2>1, <3>1
    <3>3. PICK l \in Notebook : c \in tabs'[l]
      BY <2>1 DEF HasTab
    <3>4. \A d \in Client \ {c}, m \in Notebook : d \in tabs[m] <=> d \in tabs'[m]
      BY <3>1, <3>2
    <3> QED  BY <3>1, <3>2, <3>4
  <2>4. ASSUME NEW dead, NEW d \in Notebook, NEW order, TabsMoveTo(dead, d, order),
               n \notin dead
        PROVE  FALSE
    BY <2>1, <2>4 DEF TabsMoveTo
  <2>5. ASSUME NEW e \in Client, tabs' = [m \in Notebook |-> tabs[m] \ {e}]
        PROVE  FALSE
    BY <2>1, <2>2, <2>5 DEF HasTab
  <2>6. ASSUME UNCHANGED tabs
        PROVE  FALSE
    BY <2>1, <2>6
  <2>7. ASSUME NEW e \in Client, MapWindow(e) \/ Unmanage(e) \/ FocusWindow(e)
                                 \/ MakeFloating(e) \/ MakeNotebook(e) \/ EnterFullscreen(e)
                                 \/ LeaveFullscreen(e) \/ ActivateTab(e)
        PROVE  FALSE
    <3>1. ~MapWindow(e)
      <4>1. MapWindow(e) => UNCHANGED tabs \/ \E d \in Notebook : TabGoesTo(e, d, selected)
        BY DEF MapWindow, EnsureDefault, LiveNotebooks, tabVars
      <4> QED  BY <2>2, <2>3, <2>6, <4>1 DEF MapWindow
    <3>2. ~MakeNotebook(e)
      <4>1. MakeNotebook(e) => \E d \in Notebook : TabGoesTo(e, d, selected)
        BY <2>1 DEF MakeNotebook, RevertNotebook, EnsureDefault, LiveNotebooks, Inv, TypeOK
      <4> QED  BY <2>2, <2>3, <4>1 DEF MakeNotebook
    <3>3. ~LeaveFullscreen(e)
      <4>1. LeaveFullscreen(e) => UNCHANGED tabs \/ \E d \in Notebook : TabGoesTo(e, d, selected)
        BY <2>1 DEF LeaveFullscreen, RevertNotebook, EnsureDefault, LiveNotebooks, Inv, TypeOK, tabVars
      <4> QED  BY <2>2, <2>3, <2>6, <4>1 DEF LeaveFullscreen
    <3>4. ~Unmanage(e) /\ ~MakeFloating(e) /\ ~EnterFullscreen(e)
      BY <2>5 DEF Unmanage, MakeFloating, EnterFullscreen
    <3>5. ~FocusWindow(e) /\ ~ActivateTab(e)
      BY <2>6 DEF FocusWindow, ActivateTab
    <3> QED  BY <2>7, <3>1, <3>2, <3>3, <3>4, <3>5
  <2>8. CASE \E e \in Client, k \in Notebook : MoveTab(e, k)
    BY <2>3, <2>8 DEF MoveTab
  <2>9. CASE \E k \in Notebook, s \in Split, new \in Notebook : SplitNotebook(k, s, new)
    BY <2>3, <2>6, <2>9 DEF SplitNotebook, tabVars
  <2>10. ASSUME NEW k \in Notebook, SetDefaultPop(k) \/ CloseNotebook(k)
         PROVE  FALSE
    <3>1. ~SetDefaultPop(k)
      BY <2>6 DEF SetDefaultPop, tabVars
    <3>2. ASSUME CloseNotebook(k)
          PROVE  FALSE
      <4>1. k # n
        BY <2>1, <3>2, CloseTreeLinks
      <4>2. \E d \in Notebook : \E order : TabsMoveTo({k}, d, order)
        BY <3>2 DEF CloseNotebook, EnsureDefault, LiveNotebooks
      <4> QED  BY <2>4, <4>1, <4>2
    <3> QED  BY <2>10, <3>1, <3>2
  <2>11. ASSUME NEW k \in Viewport, AddViewports(k) \/ RemoveViewports(k)
         PROVE  FALSE
    <3>1. ~AddViewports(k)
      BY <2>6 DEF AddViewports, tabVars
    <3>2. ASSUME RemoveViewports(k)
          PROVE  FALSE
      <4> DEFINE dead == (UNION {Below(v) : v \in (k + 1)..nviewports}) \cap Notebook
      <4>1. n \notin dead
        BY <2>1, <3>2, RemoveTreeLinks DEF Node
      <4>2. UNCHANGED tabs \/ \E d \in Notebook : \E order : TabsMoveTo(dead, d, order)
        BY <3>2 DEF RemoveViewports, EnsureDefault, LiveNotebooks
      <4> QED  BY <2>4, <2>6, <4>1, <4>2
    <3> QED  BY <2>11, <3>1, <3>2
  <2> QED  BY <2>1, <2>7, <2>8, <2>9, <2>10, <2>11 DEF Next
<1>2. Inv /\ [Next]_vars => [Stay]_vars
  BY <1>1
<1> QED  BY <1>2, Invariance, PTL DEF Spec, TabsStayPut

-----------------------------------------------------------------------------
(* The workspace of PageLayout implements ClientModes, for any number of   *)
(* windows, notebooks, splits and viewports.                               *)

(* The mode of every window, as the abstract specification sees it.        *)
ModeMap == [c \in Client |-> ModeOf(c)]

(* A step that only concerns the view of window c changes only its mode.   *)
LEMMA OnlyOneMode ==
  ASSUME NEW c \in Client, NEW m,
         \A d \in Client \ {c} : /\ d \in floating'   <=> d \in floating
                                 /\ d \in fullscreen' <=> d \in fullscreen
                                 /\ HasTab(d)'        <=> HasTab(d)
                                 /\ d \in managed'    <=> d \in managed,
         ModeOf(c)' = m
  PROVE  ModeMap' = [ModeMap EXCEPT ![c] = m]
<1>1. \A d \in Client \ {c} : ModeOf(d)' = ModeOf(d)
  BY DEF ModeOf
<1> QED  BY <1>1 DEF ModeMap

LEMMA NoModeChanges ==
  ASSUME \A d \in Client : /\ d \in floating'   <=> d \in floating
                           /\ d \in fullscreen' <=> d \in fullscreen
                           /\ HasTab(d)'        <=> HasTab(d)
                           /\ d \in managed'    <=> d \in managed
  PROVE  ModeMap' = ModeMap
<1>1. \A d \in Client : ModeOf(d)' = ModeOf(d)
  BY DEF ModeOf
<1> QED  BY <1>1 DEF ModeMap

(* A view is one of the three kinds, and a window that has none is viewless*)
(* or unmanaged.                                                           *)
LEMMA ModeIs ==
  ASSUME Inv, NEW c \in Client
  PROVE  /\ ModeMap[c] = ModeOf(c)
         /\ c \in fullscreen => ModeOf(c) = "fullscreen"
         /\ c \in floating => ModeOf(c) = "floating"
         /\ HasTab(c) => ModeOf(c) = "tab"
         /\ c \in Viewed <=> ModeOf(c) \in Modes!View
         /\ c \notin managed <=> ModeOf(c) = "unmanaged"
         /\ c \in Viewed <=> c \in floating \/ c \in fullscreen \/ HasTab(c)
<1>1. c \in Viewed <=> c \in floating \/ c \in fullscreen \/ HasTab(c)
  BY DEF Viewed, HasTab
<1>2. c \in Viewed => c \in managed
  BY DEF Inv, OneView
<1>3. HasTab(c) => c \notin floating \cup fullscreen
  BY DEF Inv, OneView, HasTab
<1>4. c \in floating => c \notin fullscreen
  BY DEF Inv, OneView
<1> QED  BY <1>1, <1>2, <1>3, <1>4 DEF ModeMap, ModeOf, Modes!View

(* The tabs after TabGoesTo and after a tab leaves.                        *)
LEMMA TabsAfter ==
  ASSUME NEW c \in Client
  PROVE  /\ \A n \in Notebook : \A sel : TabGoesTo(c, n, sel) =>
              HasTab(c)' /\ \A d \in Client \ {c} : HasTab(d)' <=> HasTab(d)
         /\ tabs' = [n \in Notebook |-> tabs[n] \ {c}] =>
              ~HasTab(c)' /\ \A d \in Client \ {c} : HasTab(d)' <=> HasTab(d)
<1>1. ASSUME NEW n \in Notebook, NEW sel, TabGoesTo(c, n, sel)
      PROVE  HasTab(c)' /\ \A d \in Client \ {c} : HasTab(d)' <=> HasTab(d)
  <2>1. \A m \in Notebook : tabs'[m] = IF m = n THEN tabs[m] \cup {c} ELSE tabs[m] \ {c}
    BY <1>1 DEF TabGoesTo
  <2> QED  BY <2>1 DEF HasTab
<1>2. ASSUME tabs' = [n \in Notebook |-> tabs[n] \ {c}]
      PROVE  ~HasTab(c)' /\ \A d \in Client \ {c} : HasTab(d)' <=> HasTab(d)
  BY <1>2 DEF HasTab
<1> QED  BY <1>1, <1>2

-----------------------------------------------------------------------------
(* Each action, seen by the abstract specification.                        *)

LEMMA MapWindowShows ==
  ASSUME Inv, NEW c \in Client, MapWindow(c)
  PROVE  ModeMap[c] = "unmanaged"
         /\ \/ ModeMap' = [ModeMap EXCEPT ![c] = "tab"] /\ active' = c
            \/ ModeMap' = [ModeMap EXCEPT ![c] = "viewless"] /\ active' = active
<1>1. c \notin managed /\ c \notin Viewed /\ UNCHANGED <<floating, fullscreen>>
      /\ managed' = managed \cup {c}
  BY DEF MapWindow, Inv, OneView
<1>2. ModeMap[c] = "unmanaged" /\ c \notin floating /\ c \notin fullscreen /\ ~HasTab(c)
  BY <1>1, ModeIs
<1>3. ASSUME NEW d \in Notebook, TabGoesTo(c, d, selected)
      PROVE  ModeMap' = [ModeMap EXCEPT ![c] = "tab"] /\ active' = c
  <2>1. HasTab(c)' /\ \A e \in Client \ {c} : HasTab(e)' <=> HasTab(e)
    BY <1>3, TabsAfter
  <2>2. ModeOf(c)' = "tab"
    BY <1>1, <1>2, <2>1 DEF ModeOf
  <2> QED  BY <1>1, <1>3, <2>1, <2>2, OnlyOneMode DEF TabGoesTo
<1>4. ASSUME UNCHANGED <<tabVars, focusVars>>
      PROVE  ModeMap' = [ModeMap EXCEPT ![c] = "viewless"] /\ active' = active
  <2>1. \A e \in Client : HasTab(e)' <=> HasTab(e)
    BY <1>4 DEF HasTab, tabVars
  <2>2. ModeOf(c)' = "viewless"
    BY <1>1, <1>2, <2>1 DEF ModeOf
  <2> QED  BY <1>1, <1>4, <2>1, <2>2, OnlyOneMode DEF focusVars
<1> QED  BY <1>2, <1>3, <1>4 DEF MapWindow, EnsureDefault, LiveNotebooks

LEMMA UnmanageHides ==
  ASSUME Inv, Inv', NEW c \in Client, Unmanage(c)
  PROVE  /\ ModeMap[c] # "unmanaged"
         /\ ModeMap' = [ModeMap EXCEPT ![c] = "unmanaged"]
         /\ IF active = c THEN active' \in {Null} \cup {d \in Client \ {c} : ModeMap[d] \in Modes!View}
                          ELSE active' = active
<1>1. /\ c \in managed /\ managed' = managed \ {c}
      /\ floating' = floating \ {c} /\ fullscreen' = fullscreen \ {c}
      /\ tabs' = [n \in Notebook |-> tabs[n] \ {c}]
  BY DEF Unmanage
<1>2. ~HasTab(c)' /\ \A d \in Client \ {c} : HasTab(d)' <=> HasTab(d)
  BY <1>1, TabsAfter
<1>3. ModeOf(c)' = "unmanaged"
  BY <1>1, <1>2 DEF ModeOf
<1>4. ModeMap' = [ModeMap EXCEPT ![c] = "unmanaged"]
  BY <1>1, <1>2, <1>3, OnlyOneMode
<1>5. active' # Null => active' \in Viewed' /\ active' \in Client
  BY DEF Inv, FocusIsVisible, TypeOK
<1>6. c \notin Viewed' /\ \A d \in Client \ {c} : d \in Viewed' => d \in Viewed
  BY <1>1 DEF Viewed
<1>7. active # c => active' = active
  BY DEF Unmanage
<1>8. active' # Null => active' \in Client \ {c} /\ ModeMap[active'] \in Modes!View
  BY <1>5, <1>6, ModeIs
<1>9. ModeMap[c] # "unmanaged"
  BY <1>1, ModeIs
<1> QED  BY <1>4, <1>5, <1>7, <1>8, <1>9

(* A window gets the view of another kind.                                 *)
LEMMA ShowsAs ==
  ASSUME Inv, NEW c \in Client, MakeFloating(c) \/ MakeNotebook(c) \/ LeaveFullscreen(c)
  PROVE  \E m \in {"tab", "floating"} :
           /\ ModeMap[c] \in Modes!View \ {m}
           /\ ModeMap' = [ModeMap EXCEPT ![c] = m]
           /\ active' = c
<1>1. CASE MakeFloating(c)
  <2>1. /\ c \in Viewed \ floating /\ managed' = managed
        /\ tabs' = [n \in Notebook |-> tabs[n] \ {c}]
        /\ floating' = floating \cup {c} /\ fullscreen' = fullscreen \ {c} /\ active' = c
    BY <1>1 DEF MakeFloating, Focus
  <2>2. ~HasTab(c)' /\ \A d \in Client \ {c} : HasTab(d)' <=> HasTab(d)
    BY <2>1, TabsAfter
  <2>3. ModeOf(c)' = "floating"
    BY <2>1 DEF ModeOf
  <2>4. ModeMap' = [ModeMap EXCEPT ![c] = "floating"]
    BY <2>1, <2>2, <2>3, OnlyOneMode
  <2>5. ModeMap[c] \in Modes!View \ {"floating"}
    BY <2>1, ModeIs
  <2> QED  BY <2>1, <2>4, <2>5
<1>2. ASSUME c \in floating \cup fullscreen, managed' = managed,
             floating' = floating \ {c}, fullscreen' = fullscreen \ {c},
             NEW n \in Notebook, TabGoesTo(c, n, selected)
      PROVE  /\ ModeMap[c] \in Modes!View \ {"tab"}
             /\ ModeMap' = [ModeMap EXCEPT ![c] = "tab"]
             /\ active' = c
  <2>1. HasTab(c)' /\ \A d \in Client \ {c} : HasTab(d)' <=> HasTab(d)
    BY <1>2, TabsAfter
  <2>2. ModeOf(c)' = "tab"
    BY <1>2, <2>1 DEF ModeOf
  <2>3. ModeMap' = [ModeMap EXCEPT ![c] = "tab"]
    BY <1>2, <2>1, <2>2, OnlyOneMode
  <2>4. ModeMap[c] \in Modes!View \ {"tab"}
    BY <1>2, ModeIs
  <2> QED  BY <1>2, <2>3, <2>4 DEF TabGoesTo
<1>3. CASE MakeNotebook(c)
  <2>1. \E n \in Notebook : TabGoesTo(c, n, selected)
    BY <1>3 DEF MakeNotebook, RevertNotebook, EnsureDefault, LiveNotebooks, Inv, TypeOK
  <2> QED  BY <1>2, <1>3, <2>1 DEF MakeNotebook
<1>4. CASE LeaveFullscreen(c)
  <2>1. /\ c \in fullscreen /\ c \notin floating /\ ~HasTab(c) /\ managed' = managed
        /\ fullscreen' = fullscreen \ {c}
    BY <1>4 DEF LeaveFullscreen, Inv, OneView, HasTab
  <2>2. CASE revert_type[c] = "notebook"
    <3>1. (\E n \in Notebook : TabGoesTo(c, n, selected)) /\ floating' = floating \ {c}
      BY <1>4, <2>1, <2>2 DEF LeaveFullscreen, RevertNotebook, EnsureDefault, LiveNotebooks, Inv, TypeOK
    <3> QED  BY <1>2, <2>1, <3>1
  <2>3. CASE revert_type[c] # "notebook"
    <3>1. floating' = floating \cup {c} /\ UNCHANGED tabs /\ active' = c
      BY <1>4, <2>3 DEF LeaveFullscreen, Focus, tabVars
    <3>2. \A d \in Client : HasTab(d)' <=> HasTab(d)
      BY <3>1 DEF HasTab
    <3>3. ModeOf(c)' = "floating"
      BY <2>1, <3>1 DEF ModeOf
    <3>4. ModeMap' = [ModeMap EXCEPT ![c] = "floating"]
      BY <2>1, <3>1, <3>2, <3>3, OnlyOneMode
    <3>5. ModeMap[c] \in Modes!View \ {"floating"}
      BY <2>1, ModeIs DEF Modes!View
    <3> QED  BY <3>1, <3>4, <3>5
  <2> QED  BY <2>2, <2>3
<1> QED  BY <1>1, <1>3, <1>4

LEMMA EnterFullscreenShows ==
  ASSUME Inv, NEW c \in Client, EnterFullscreen(c)
  PROVE  /\ ModeMap[c] \in {"tab", "floating"}
         /\ ModeMap' = [ModeMap EXCEPT ![c] = "fullscreen"]
         /\ active' = IF active = c THEN Null ELSE active
<1>1. /\ c \in Viewed \ fullscreen /\ managed' = managed
      /\ tabs' = [n \in Notebook |-> tabs[n] \ {c}]
      /\ floating' = floating \ {c} /\ fullscreen' = fullscreen \cup {c}
      /\ active' = IF active = c THEN Null ELSE active
  BY DEF EnterFullscreen, ForgetView
<1>2. ~HasTab(c)' /\ \A d \in Client \ {c} : HasTab(d)' <=> HasTab(d)
  BY <1>1, TabsAfter
<1>3. ModeOf(c)' = "fullscreen"
  BY <1>1 DEF ModeOf
<1>4. ModeMap' = [ModeMap EXCEPT ![c] = "fullscreen"]
  BY <1>1, <1>2, <1>3, OnlyOneMode
<1>5. ModeMap[c] \in {"tab", "floating"}
  BY <1>1, ModeIs
<1> QED  BY <1>1, <1>4, <1>5

(* The other operations only move the focus, and only to a window that is  *)
(* shown.                                                                  *)
LEMMA OthersOnlyRefocus ==
  ASSUME Inv, Inv', Viewed' = Viewed, ModeMap' = ModeMap
  PROVE  /\ active' \in {Null} \cup {c \in Client : ModeMap[c] \in Modes!View}
         /\ ModeMap' = ModeMap
<1>1. active' # Null => active' \in Viewed' /\ active' \in Client
  BY DEF Inv, FocusIsVisible, TypeOK
<1> QED  BY <1>1, ModeIs

LEMMA TabsKept ==
  ASSUME UNCHANGED <<managed, floating, fullscreen>>,
         UNION {tabs'[n] : n \in Notebook} = UNION {tabs[n] : n \in Notebook}
  PROVE  Viewed' = Viewed /\ ModeMap' = ModeMap
<1>1. \A c \in Client : HasTab(c)' <=> HasTab(c)
  BY DEF HasTab
<1>2. Viewed' = Viewed
  BY DEF Viewed
<1> QED  BY <1>1, <1>2, NoModeChanges

LEMMA OneTabMoves ==
  ASSUME Inv, UNCHANGED <<managed, floating, fullscreen>>, NEW c \in Client, HasTab(c),
         NEW n \in Notebook, NEW sel, TabGoesTo(c, n, sel)
  PROVE  Viewed' = Viewed /\ ModeMap' = ModeMap
<1>1. \A m \in Notebook : tabs'[m] = IF m = n THEN tabs[m] \cup {c} ELSE tabs[m] \ {c}
  BY DEF TabGoesTo
<1>2. c \in UNION {tabs'[m] : m \in Notebook} /\ c \in UNION {tabs[m] : m \in Notebook}
  BY <1>1 DEF HasTab
<1>3. \A d : d # c => (d \in UNION {tabs'[m] : m \in Notebook} <=> d \in UNION {tabs[m] : m \in Notebook})
  BY <1>1, ZenonT(40)
<1>4. UNION {tabs'[m] : m \in Notebook} = UNION {tabs[m] : m \in Notebook}
  BY <1>2, <1>3
<1> QED  BY <1>4, TabsKept

LEMMA AllTabsMove ==
  ASSUME Inv, UNCHANGED <<managed, floating, fullscreen>>, NEW dead \in SUBSET Notebook,
         NEW d \in Notebook \ dead, NEW order, TabsMoveTo(dead, d, order)
  PROVE  Viewed' = Viewed /\ ModeMap' = ModeMap
<1>1. \A n \in Notebook : tabs'[n] = IF n = d THEN tabs[n] \cup UNION {tabs[m] : m \in dead}
                                     ELSE IF n \in dead THEN {} ELSE tabs[n]
  BY DEF TabsMoveTo
<1>2. UNION {tabs'[n] : n \in Notebook} = UNION {tabs[n] : n \in Notebook}
  BY <1>1
<1> QED  BY <1>2, TabsKept

LEMMA TreeOperationsKeepModes ==
  ASSUME Inv, \/ \E c \in Client : FocusWindow(c) \/ ActivateTab(c) \/ \E n \in Notebook : MoveTab(c, n)
              \/ \E n \in Notebook :
                   \/ SetDefaultPop(n) \/ CloseNotebook(n)
                   \/ \E s \in Split, new \in Notebook : SplitNotebook(n, s, new)
              \/ \E k \in Viewport : AddViewports(k) \/ RemoveViewports(k)
  PROVE  Viewed' = Viewed /\ ModeMap' = ModeMap
<1>1. UNCHANGED <<managed, floating, fullscreen>>
  BY DEF FocusWindow, ActivateTab, MoveTab, SetDefaultPop, CloseNotebook, SplitNotebook,
         AddViewports, RemoveViewports, modeVars
<1>2. CASE UNCHANGED tabs
  BY <1>1, <1>2, TabsKept
<1>3. CASE \E c \in Client, n \in Notebook : MoveTab(c, n)
  BY <1>1, <1>3, OneTabMoves DEF MoveTab
<1>4. CASE \E n \in Notebook, s \in Split, new \in Notebook : SplitNotebook(n, s, new)
  BY <1>1, <1>2, <1>4, OneTabMoves DEF SplitNotebook, tabVars
<1>5. CASE \E n \in Notebook : CloseNotebook(n)
  <2>1. PICK n \in Notebook : CloseNotebook(n)
    BY <1>5
  <2>2. \E d \in Notebook \ {n} : \E order : TabsMoveTo({n}, d, order)
    BY <2>1 DEF CloseNotebook, EnsureDefault, LiveNotebooks
  <2> QED  BY <1>1, <2>2, AllTabsMove
<1>6. CASE \E k \in Viewport : RemoveViewports(k)
  <2>1. PICK k \in Viewport : RemoveViewports(k)
    BY <1>6
  <2> DEFINE dead == (UNION {Below(v) : v \in (k + 1)..nviewports}) \cap Notebook
  <2>2. UNCHANGED tabs \/ \E d \in Notebook \ dead : \E order : TabsMoveTo(dead, d, order)
    BY <2>1 DEF RemoveViewports, EnsureDefault, LiveNotebooks
  <2>3. dead \in SUBSET Notebook
    OBVIOUS
  <2> HIDE DEF dead
  <2> QED  BY <1>1, <1>2, <2>2, <2>3, AllTabsMove
<1>7. CASE \/ \E c \in Client : FocusWindow(c) \/ ActivateTab(c)
           \/ \E n \in Notebook : SetDefaultPop(n)
           \/ \E k \in Viewport : AddViewports(k)
  BY <1>2, <1>7 DEF FocusWindow, ActivateTab, SetDefaultPop, AddViewports, tabVars
<1> QED  BY <1>3, <1>4, <1>5, <1>6, <1>7

-----------------------------------------------------------------------------
(* Whatever the user, the programs and the monitors do, a window keeps its *)
(* view until it is asked to change or is gone, and the focus is nowhere a *)
(* user could not see it.                                                  *)
THEOREM WorkspaceImplementsModes == Spec => ImplementsModes
<1>1. Init => Modes!Init
  <2>1. SUFFICES ASSUME Init  PROVE ModeMap = [c \in Client |-> "unmanaged"] /\ active = Null
    BY DEF Modes!Init, ModeMap
  <2>2. \A c \in Client : ModeOf(c) = "unmanaged"
    BY <2>1 DEF Init, ModeOf, HasTab
  <2> QED  BY <2>1, <2>2 DEF Init, ModeMap
<1>2. Inv /\ Inv' /\ [Next]_vars => [Modes!Next]_<<ModeMap, active>>
  <2>1. SUFFICES ASSUME Inv, Inv', [Next]_vars  PROVE [Modes!Next]_<<ModeMap, active>>
    OBVIOUS
  <2>2. ASSUME NEW c \in Client, MapWindow(c)  PROVE Modes!Next
    BY <2>2, <2>1, MapWindowShows DEF Modes!Next, Modes!Manage, Modes!Becomes, ModeMap
  <2>3. ASSUME NEW c \in Client, Unmanage(c)  PROVE Modes!Next
    BY <2>3, <2>1, UnmanageHides DEF Modes!Next, Modes!Unmanage, Modes!Becomes, ModeMap
  <2>4. ASSUME NEW c \in Client, MakeFloating(c) \/ MakeNotebook(c) \/ LeaveFullscreen(c)
        PROVE  Modes!Next
    <3>1. PICK m \in {"tab", "floating"} :
            /\ ModeMap[c] \in Modes!View \ {m}
            /\ ModeMap' = [ModeMap EXCEPT ![c] = m]
            /\ active' = c
      BY <2>4, <2>1, ShowsAs
    <3>2. m \in Modes!View
      BY <3>1 DEF Modes!View
    <3> QED  BY <3>1, <3>2 DEF Modes!Next, Modes!Show, Modes!Becomes, ModeMap
  <2>5. ASSUME NEW c \in Client, EnterFullscreen(c)  PROVE Modes!Next
    BY <2>5, <2>1, EnterFullscreenShows DEF Modes!Next, Modes!EnterFullscreen, Modes!Becomes, ModeMap
  <2>6. CASE \/ \E c \in Client : FocusWindow(c) \/ ActivateTab(c) \/ \E n \in Notebook : MoveTab(c, n)
             \/ \E n \in Notebook :
                  \/ SetDefaultPop(n) \/ CloseNotebook(n)
                  \/ \E s \in Split, new \in Notebook : SplitNotebook(n, s, new)
             \/ \E k \in Viewport : AddViewports(k) \/ RemoveViewports(k)
    <3>1. Viewed' = Viewed /\ ModeMap' = ModeMap
      BY <2>1, <2>6, TreeOperationsKeepModes
    <3>2. /\ active' \in {Null} \cup {c \in Client : ModeMap[c] \in Modes!View}
          /\ ModeMap' = ModeMap
      BY <2>1, <3>1, OthersOnlyRefocus
    <3> QED  BY <3>2 DEF Modes!Next, Modes!Refocus, ModeMap
  <2>7. CASE UNCHANGED vars
    <3>1. UNCHANGED <<managed, floating, fullscreen, tabs, active>>
      BY <2>7 DEF vars, modeVars, tabVars, focusVars
    <3>2. ModeMap' = ModeMap
      BY <3>1, TabsKept
    <3> QED  BY <3>1, <3>2
  <2> QED  BY <2>1, <2>2, <2>3, <2>4, <2>5, <2>6, <2>7 DEF Next
<1>3. Spec => Init /\ [][Next]_vars /\ []Inv
  BY Invariance DEF Spec
<1>4. Inv /\ Inv' /\ [Next]_vars => [Modes!Next]_<<[c \in Client |-> ModeOf(c)], active>>
  BY <1>2 DEF ModeMap
<1> QED  BY <1>1, <1>3, <1>4, PTL DEF ImplementsModes, Modes!Spec

-----------------------------------------------------------------------------
(* The tree is one.  Below(v) is the least set that holds the subtree of v *)
(* and is closed under the packs, so it is found without induction: it is  *)
(* closed, and inside every set that is.                                   *)
Closed(S, p0, p1) == \A t \in S \cap Split : {p0[t], p1[t]} \cap Node \subseteq S
Reach(root, p0, p1) ==
  {n \in Node : \A S \in SUBSET Node : root \in S /\ Closed(S, p0, p1) => n \in S}

LEMMA BelowIsReach ==
  /\ \A v : Below(v) = Reach(subtree[v], pack0, pack1)
  /\ \A v : Below(v)' = Reach(subtree'[v], pack0', pack1')
<1>1. ASSUME NEW v PROVE Below(v)' = Reach(subtree'[v], pack0', pack1')
  BY DEF Below, Reach, Closed
<1>2. ASSUME NEW v PROVE Below(v) = Reach(subtree[v], pack0, pack1)
  BY DEF Below, Reach, Closed
<1> QED BY <1>1, <1>2

LEMMA ReachIsLeast ==
  ASSUME NEW root, NEW p0, NEW p1, NEW S \in SUBSET Node, root \in S, Closed(S, p0, p1)
  PROVE  Reach(root, p0, p1) \subseteq S
BY DEF Reach

LEMMA ReachIsClosed ==
  ASSUME NEW root \in Node, NEW p0, NEW p1
  PROVE  /\ Reach(root, p0, p1) \in SUBSET Node
         /\ root \in Reach(root, p0, p1)
         /\ Closed(Reach(root, p0, p1), p0, p1)
<1>1. Reach(root, p0, p1) \in SUBSET Node /\ root \in Reach(root, p0, p1)
  BY DEF Reach
<1>2. ASSUME NEW t \in Reach(root, p0, p1) \cap Split, NEW n \in {p0[t], p1[t]} \cap Node
      PROVE  n \in Reach(root, p0, p1)
  <2>1. SUFFICES ASSUME NEW S \in SUBSET Node, root \in S, Closed(S, p0, p1) PROVE n \in S
    BY DEF Reach
  <2>2. t \in S
    BY <2>1 DEF Reach
  <2> QED BY <2>1, <2>2 DEF Closed
<1> QED BY <1>1, <1>2 DEF Closed

(* The viewports in use have a subtree.                                    *)
LEMMA Roots ==
  ASSUME TypeOK, TreeLinks
  PROVE  /\ 1..nviewports \subseteq Viewport
         /\ \A v \in Viewport : v \in 1..nviewports <=> v <= nviewports
         /\ \A v \in 1..nviewports : subtree[v] \in Node
<1>1. nviewports \in Nat /\ \A v \in Viewport : v \in Nat
  BY Distinct DEF TypeOK
<1>2. 1..nviewports \subseteq Viewport /\ \A v \in Viewport : v \in 1..nviewports <=> v <= nviewports
  BY <1>1, ConstantsAssumption DEF Viewport, TypeOK
<1> QED BY <1>2 DEF TypeOK, TreeLinks

(* Every node in the tree is below exactly one viewport.                   *)
Everywhere ==
  /\ \A m \in Node : Live(m) <=> \E v \in 1..nviewports : m \in Below(v)
  /\ \A v, w \in 1..nviewports, m \in Node : m \in Below(v) /\ m \in Below(w) => v = w

LEMMA SoundIsEverywhere == TreeSound <=> TreeLinks /\ Everywhere
<1>1. \A v : Below(v) \subseteq Node
  BY DEF Below
<1>2. {n \in Node : Live(n)} = UNION {Below(v) : v \in 1..nviewports} <=>
        \A m \in Node : Live(m) <=> \E v \in 1..nviewports : m \in Below(v)
  <2>1. \A m : m \in UNION {Below(v) : v \in 1..nviewports} <=>
                 \E v \in 1..nviewports : m \in Below(v)
    OBVIOUS
  <2> QED BY <1>1, <2>1
<1>3. (\A v, w \in 1..nviewports : v # w => Below(v) \cap Below(w) = {}) <=>
        \A v, w \in 1..nviewports, m \in Node : m \in Below(v) /\ m \in Below(w) => v = w
  BY <1>1
<1> QED BY <1>2, <1>3 DEF TreeSound, Everywhere

(* A notebook that is split stays where it was, with the new split above   *)
(* it and the new notebook beside it.                                      *)
LEMMA SplitTreeSound ==
  ASSUME TypeOK, TreeSound, NEW n \in Notebook, NEW s \in Split, NEW new \in Notebook,
         NEW newFirst \in BOOLEAN, Live(n), ~Live(s), ~Live(new), SplitTree(n, s, new, newFirst)
  PROVE  TreeSound'
<1> DEFINE p == parent[n]
           B(v) == IF n \in Below(v) THEN Below(v) \cup {s, new} ELSE Below(v)
<1>0. TreeLinks /\ Everywhere /\ TreeLinks'
  BY SoundIsEverywhere, SplitTreeLinks
<1>1. n \in Node /\ s \in Node /\ new \in Node /\ n # new /\ n # s /\ new # s
      /\ new \notin Split /\ n \notin Split
      /\ p \in Viewport \cup Split /\ p # s /\ p # Null /\ s \notin Viewport
  <2>1. n \in Node /\ s \in Node /\ new \in Node /\ n # new /\ n # s /\ new # s
        /\ new \notin Split /\ n \notin Split /\ s \notin Viewport
    BY Distinct DEF Node, Live
  <2> QED BY <1>0, <2>1, DeadIsDetached DEF Live, TypeOK
<1>2. /\ nviewports' = nviewports
      /\ \A v \in Viewport :
           subtree'[v] = IF v = p /\ subtree[v] = n THEN s ELSE subtree[v]
      /\ \A m \in Node : parent'[m] = IF m = s THEN p ELSE IF m \in {n, new} THEN s ELSE parent[m]
      /\ \A t \in Split : pack0'[t] = IF t = s THEN (IF newFirst THEN new ELSE n)
                                      ELSE IF t = p /\ pack0[t] = n THEN s ELSE pack0[t]
      /\ \A t \in Split : pack1'[t] = IF t = s THEN (IF newFirst THEN n ELSE new)
                                      ELSE IF t = p /\ pack1[t] = n THEN s ELSE pack1[t]
  BY <1>1 DEF SplitTree, ReplaceInSubtree, ReplaceInPack, TypeOK
<1>3. /\ \A v \in Viewport : subtree[v] = n <=> p = v
      /\ \A t \in Split : n \in {pack0[t], pack1[t]} <=> p = t
      /\ pack0[s] = Null /\ pack1[s] = Null
  BY <1>0, <1>1 DEF TreeLinks
<1>4. ASSUME NEW v \in 1..nviewports PROVE Below(v)' = B(v)
  <2> DEFINE X == Below(v)'
  <2>1. v \in Viewport /\ subtree[v] \in Node /\ subtree'[v] \in Node
    BY <1>0, <1>1, <1>2, Roots
  <2>2. /\ Below(v) \in SUBSET Node /\ subtree[v] \in Below(v) /\ Closed(Below(v), pack0, pack1)
        /\ X \in SUBSET Node /\ subtree'[v] \in X /\ Closed(X, pack0', pack1')
    BY <2>1, BelowIsReach, ReachIsClosed
  <2>3. B(v) \in SUBSET Node /\ subtree'[v] \in B(v)
    BY <1>1, <1>2, <1>3, <2>1, <2>2
  <2>4. ASSUME NEW t \in B(v) \cap Split PROVE {pack0'[t], pack1'[t]} \cap Node \subseteq B(v)
    <3>1. CASE t = s
      <4>1. s \notin Below(v)
        BY <1>0, <1>1 DEF Everywhere
      <4> QED BY <1>2, <3>1, <4>1
    <3>2. CASE t # s
      <4>1. t \in Below(v)
        BY <1>1, <3>2
      <4>2. {pack0[t], pack1[t]} \cap Node \subseteq Below(v)
        BY <2>2, <4>1 DEF Closed
      <4>3. \/ {pack0'[t], pack1'[t]} \subseteq {pack0[t], pack1[t]}
            \/ (n \in {pack0[t], pack1[t]} /\ {pack0'[t], pack1'[t]} \subseteq {pack0[t], pack1[t], s})
        BY <1>2, <3>2
      <4> QED BY <1>1, <4>2, <4>3
    <3> QED BY <3>1, <3>2
  <2>5. X \subseteq B(v)
    <3>1. Closed(B(v), pack0', pack1')
      <4> HIDE DEF B
      <4> QED BY <2>4 DEF Closed
    <3> HIDE DEF B
    <3> QED BY <2>3, <3>1, BelowIsReach, ReachIsLeast
  <2>6. s \in X => n \in X /\ new \in X
    BY <1>1, <1>2, <2>2 DEF Closed
  <2>7. subtree[v] \in X
    BY <1>2, <2>1, <2>2, <2>6
  <2>8. ASSUME NEW t \in X \cap Split PROVE {pack0[t], pack1[t]} \cap Node \subseteq X
    <3>1. CASE t = s
      BY <1>3, <3>1, Distinct
    <3>2. CASE t # s
      <4>1. {pack0'[t], pack1'[t]} \cap Node \subseteq X
        BY <2>2 DEF Closed
      <4>2. pack0[t] # pack0'[t] => pack0[t] = n /\ pack0'[t] = s
        BY <1>2, <3>2
      <4>3. pack1[t] # pack1'[t] => pack1[t] = n /\ pack1'[t] = s
        BY <1>2, <3>2
      <4> QED BY <1>1, <2>6, <4>1, <4>2, <4>3
    <3> QED BY <3>1, <3>2
  <2>9. Below(v) \subseteq X
    <3> HIDE DEF X
    <3>1. Closed(X, pack0, pack1)
      BY <2>8 DEF Closed
    <3> QED BY <2>2, <2>7, <3>1, BelowIsReach, ReachIsLeast
  <2>10. n \in Below(v) => s \in X
    <3> SUFFICES ASSUME n \in Below(v) PROVE s \in X
      OBVIOUS
    <3>1. CASE p \in Viewport
      <4>1. subtree[p] = n /\ p \in 1..nviewports
        BY <1>0, <1>1, <1>3, <3>1, Roots, Distinct DEF TreeLinks
      <4>2. n \in Below(p)
        BY <4>1, <1>1, BelowIsReach, ReachIsClosed
      <4>3. p = v
        BY <1>0, <1>1, <4>1, <4>2 DEF Everywhere
      <4> QED BY <1>2, <2>1, <2>2, <4>1, <4>3
    <3>2. CASE p \in Split
      <4>1. p \in Below(v)
        <5>1. n # subtree[v]
          BY <1>3, <2>1, <3>2, Distinct DEF Node
        <5>2. SUFFICES ASSUME p \notin Below(v) PROVE FALSE
          OBVIOUS
        <5> DEFINE S == Below(v) \ {n}
        <5>3. S \in SUBSET Node /\ subtree[v] \in S
          BY <2>2, <5>1
        <5>4. Closed(S, pack0, pack1)
          BY <1>3, <2>2, <5>2 DEF Closed
        <5>5. Below(v) \subseteq S
          <6> HIDE DEF S
          <6> QED BY <5>3, <5>4, BelowIsReach, ReachIsLeast
        <5> QED BY <5>5
      <4>2. p \in X \cap Split
        BY <2>9, <3>2, <4>1
      <4>3. {pack0'[p], pack1'[p]} \cap Node \subseteq X
        BY <2>2, <4>2 DEF Closed
      <4>4. s \in {pack0'[p], pack1'[p]}
        BY <1>1, <1>2, <1>3, <3>2
      <4> QED BY <1>1, <4>3, <4>4
    <3> QED BY <1>1, <3>1, <3>2
  <2> QED BY <2>5, <2>6, <2>9, <2>10
<1>5. \A m \in Node : Live(m)' <=> Live(m) \/ m \in {s, new}
  BY <1>1, <1>2, Distinct DEF Live, Node
<1>6. \E v \in 1..nviewports : n \in Below(v)
  BY <1>0, <1>1 DEF Everywhere
<1>7. \A v \in 1..nviewports : s \notin Below(v) /\ new \notin Below(v)
  BY <1>0, <1>1 DEF Everywhere
<1>8. \A m \in Node : Live(m)' <=> \E v \in 1..nviewports : m \in B(v)
  BY <1>0, <1>5, <1>6 DEF Everywhere
<1>9. \A v, w \in 1..nviewports, m \in Node : m \in B(v) /\ m \in B(w) => v = w
  BY <1>0, <1>1, <1>7 DEF Everywhere
<1>10. Everywhere'
  <2> HIDE DEF B
  <2> QED BY <1>2, <1>4, <1>8, <1>9 DEF Everywhere
<1>11. (TreeSound <=> TreeLinks /\ Everywhere)'
  BY SoundIsEverywhere, PTL
<1> QED BY <1>0, <1>10, <1>11

(* A notebook that is closed leaves with the split above it, and nothing   *)
(* else does.                                                              *)
LEMMA CloseTreeSound ==
  ASSUME Inv, TreeSound, NEW n \in Notebook, CloseNotebook(n)
  PROVE  TreeSound'
<1> DEFINE s   == parent[n]
           dst == IF pack0[s] = n THEN pack1[s] ELSE pack0[s]
           p   == parent[s]
           B(v) == Below(v) \ {s, n}
<1>0. TreeLinks /\ Everywhere /\ TreeLinks' /\ TypeOK
  BY SoundIsEverywhere, CloseTreeLinks DEF Inv
<1>1. n \in Node /\ s \in Split /\ s \in Node /\ n # s /\ n \notin Split /\ s \notin Viewport
  BY Distinct DEF CloseNotebook, Node
<1>2. Live(s)
  BY <1>0, <1>1, DeadIsDetached
<1>3. dst \in Node /\ dst # n /\ {pack0[s], pack1[s]} = {n, dst} /\ parent[dst] = s
  BY <1>0, <1>1, <1>2 DEF TreeLinks
<1>4. p # Null /\ p \in Viewport \cup Split
  BY <1>0, <1>1, <1>2 DEF Live, TypeOK
<1>5. p # s
  <2> SUFFICES ASSUME p = s PROVE FALSE
    OBVIOUS
  <2>1. PICK v \in 1..nviewports : s \in Below(v)
    BY <1>0, <1>1, <1>2 DEF Everywhere
  <2> DEFINE S == Below(v) \ {s}
  <2>2. v \in Viewport /\ subtree[v] \in Node /\ subtree[v] # s
    BY <1>0, <1>1, <1>4, Roots DEF TreeLinks
  <2>3. /\ Below(v) \in SUBSET Node /\ subtree[v] \in Below(v) /\ Closed(Below(v), pack0, pack1)
    BY <2>2, BelowIsReach, ReachIsClosed
  <2>4. \A t \in Split : s \in {pack0[t], pack1[t]} => t = s
    BY <1>0, <1>1 DEF TreeLinks
  <2>5. S \in SUBSET Node /\ subtree[v] \in S /\ Closed(S, pack0, pack1)
    BY <2>2, <2>3, <2>4 DEF Closed
  <2>6. Below(v) \subseteq S
    <3> HIDE DEF S
    <3> QED BY <2>5, BelowIsReach, ReachIsLeast
  <2> QED BY <2>1, <2>6
<1>6. dst # s
  BY <1>3, <1>5
<1>7. /\ nviewports' = nviewports
      /\ subtree' = ReplaceInSubtree(p, s, dst)
      /\ parent' = [parent EXCEPT ![dst] = p, ![s] = Null, ![n] = Null]
      /\ pack0' = [ReplaceInPack(pack0, p, s, dst) EXCEPT ![s] = Null]
      /\ pack1' = [ReplaceInPack(pack1, p, s, dst) EXCEPT ![s] = Null]
  BY DEF CloseNotebook
<1>8. /\ \A v \in Viewport :
           subtree'[v] = IF v = p /\ subtree[v] = s THEN dst ELSE subtree[v]
      /\ \A m \in Node : parent'[m] = IF m \in {s, n} THEN Null ELSE IF m = dst THEN p ELSE parent[m]
      /\ \A t \in Split : pack0'[t] = IF t = s THEN Null
                                      ELSE IF t = p /\ pack0[t] = s THEN dst ELSE pack0[t]
      /\ \A t \in Split : pack1'[t] = IF t = s THEN Null
                                      ELSE IF t = p /\ pack1[t] = s THEN dst ELSE pack1[t]
  BY <1>0, <1>1, <1>3, <1>7 DEF ReplaceInSubtree, ReplaceInPack, TypeOK
<1>9. /\ \A v \in Viewport : (subtree[v] = s <=> p = v) /\ subtree[v] # n
      /\ \A t \in Split : s \in {pack0[t], pack1[t]} <=> p = t
      /\ \A t \in Split : n \in {pack0[t], pack1[t]} <=> t = s
  BY <1>0, <1>1 DEF TreeLinks
<1>10. ASSUME NEW v \in 1..nviewports PROVE Below(v)' = B(v)
  <2> DEFINE X == Below(v)'
             Y == {m \in Node : m \in X \/ (m \in {s, n} /\ dst \in X)}
  <2>1. v \in Viewport /\ subtree[v] \in Node /\ subtree'[v] \in Node
    BY <1>0, <1>3, <1>8, Roots
  <2>2. /\ Below(v) \in SUBSET Node /\ subtree[v] \in Below(v) /\ Closed(Below(v), pack0, pack1)
        /\ X \in SUBSET Node /\ subtree'[v] \in X /\ Closed(X, pack0', pack1')
    BY <2>1, BelowIsReach, ReachIsClosed
  <2>3. s \in Below(v) => dst \in B(v)
    BY <1>1, <1>3, <1>6, <2>2 DEF Closed
  <2>4. B(v) \in SUBSET Node /\ subtree'[v] \in B(v)
    <3>1. CASE p = v
      BY <1>8, <1>9, <2>1, <2>2, <2>3, <3>1
    <3>2. CASE p # v
      BY <1>8, <1>9, <2>1, <2>2, <3>2
    <3> QED BY <3>1, <3>2
  <2>5. ASSUME NEW t \in B(v) \cap Split PROVE {pack0'[t], pack1'[t]} \cap Node \subseteq B(v)
    <3>1. t # s /\ {pack0[t], pack1[t]} \cap Node \subseteq Below(v)
      BY <2>2 DEF Closed
    <3>2. n \notin {pack0[t], pack1[t]}
      BY <1>9, <3>1
    <3>3. pack0'[t] # pack0[t] => pack0[t] = s /\ pack0'[t] = dst
      BY <1>8, <3>1
    <3>4. pack1'[t] # pack1[t] => pack1[t] = s /\ pack1'[t] = dst
      BY <1>8, <3>1
    <3>5. pack0'[t] # s /\ pack1'[t] # s
      BY <1>6, <1>8, <1>9, <3>1
    <3> QED BY <1>1, <1>3, <2>3, <3>1, <3>2, <3>3, <3>4, <3>5
  <2>6. X \subseteq B(v)
    <3>1. Closed(B(v), pack0', pack1')
      <4> HIDE DEF B
      <4> QED BY <2>5 DEF Closed
    <3> HIDE DEF B
    <3> QED BY <2>4, <3>1, BelowIsReach, ReachIsLeast
  <2>7. Y \in SUBSET Node /\ subtree[v] \in Y
    <3>1. CASE p = v
      BY <1>1, <1>8, <1>9, <2>1, <2>2, <3>1
    <3>2. CASE p # v
      BY <1>8, <1>9, <2>1, <2>2, <3>2
    <3> QED BY <3>1, <3>2
  <2>8. ASSUME NEW t \in Y \cap Split PROVE {pack0[t], pack1[t]} \cap Node \subseteq Y
    <3>1. CASE t = s
      <4>1. dst \in X
        BY <2>6, <3>1
      <4> QED BY <1>1, <1>3, <3>1, <4>1
    <3>2. CASE t # s
      <4>1. t \in X \cap Split
        BY <1>1, <3>2
      <4>2. {pack0'[t], pack1'[t]} \cap Node \subseteq X
        BY <2>2, <4>1 DEF Closed
      <4>3. pack0'[t] # pack0[t] => pack0[t] = s /\ pack0'[t] = dst
        BY <1>8, <3>2
      <4>4. pack1'[t] # pack1[t] => pack1[t] = s /\ pack1'[t] = dst
        BY <1>8, <3>2
      <4> QED BY <1>1, <1>3, <4>2, <4>3, <4>4
    <3> QED BY <3>1, <3>2
  <2>9. Below(v) \subseteq Y
    <3>1. Closed(Y, pack0, pack1)
      <4> HIDE DEF Y
      <4> QED BY <2>8 DEF Closed
    <3> HIDE DEF Y
    <3> QED BY <2>7, <3>1, BelowIsReach, ReachIsLeast
  <2> QED BY <2>6, <2>9
<1>11. \A m \in Node : Live(m)' <=> Live(m) /\ m \notin {s, n}
  BY <1>1, <1>3, <1>4, <1>8, Distinct DEF Live, Node
<1>12. Everywhere'
  BY <1>0, <1>7, <1>10, <1>11 DEF Everywhere
<1>13. (TreeSound <=> TreeLinks /\ Everywhere)'
  BY SoundIsEverywhere, PTL
<1> QED BY <1>0, <1>12, <1>13

(* A new viewport has one notebook below it, and the others what they had. *)
LEMMA AddTreeSound ==
  ASSUME Inv, TreeSound, NEW k \in Viewport, AddViewports(k)
  PROVE  TreeSound'
<1>0. TreeLinks /\ Everywhere /\ TreeLinks' /\ TypeOK
  BY SoundIsEverywhere, AddTreeLinks DEF Inv
<1>1. k > nviewports /\ nviewports' = k /\ pack0' = pack0 /\ pack1' = pack1
      /\ nviewports \in Nat /\ k \in Nat
  BY <1>0, Distinct DEF AddViewports, TypeOK
<1>2. PICK first \in [(nviewports + 1)..k -> {n \in Notebook : ~Live(n)}] :
       /\ \A v, w \in DOMAIN first : v # w => first[v] # first[w]
       /\ subtree' = [v \in Viewport |-> IF v \in DOMAIN first THEN first[v] ELSE subtree[v]]
       /\ parent' = [n \in Node |->
            IF \E v \in DOMAIN first : first[v] = n
            THEN CHOOSE v \in DOMAIN first : first[v] = n ELSE parent[n]]
  BY DEF AddViewports
<1> DEFINE D == (nviewports + 1)..k
           U == 1..nviewports
<1>3. /\ DOMAIN first = D /\ 1..k = U \cup D /\ U \cap D = {}
      /\ D \subseteq Viewport /\ U \subseteq Viewport
      /\ \A v \in D : first[v] \in Notebook /\ first[v] \in Node /\ ~Live(first[v])
                      /\ first[v] \notin Split
  BY <1>0, <1>1, <1>2, Roots, Distinct, ConstantsAssumption DEF Viewport, Node
<1>4. ASSUME NEW v \in D PROVE Below(v)' = {first[v]}
  <2>1. subtree'[v] = first[v]
    BY <1>2, <1>3
  <2>2. first[v] \in Below(v)'
    BY <1>3, <2>1, BelowIsReach, ReachIsClosed
  <2>3. Closed({first[v]}, pack0', pack1')
    BY <1>3 DEF Closed
  <2>4. Below(v)' \subseteq {first[v]}
    BY <1>3, <2>1, <2>3, BelowIsReach, ReachIsLeast
  <2> QED BY <2>2, <2>4
<1>5. ASSUME NEW v \in U PROVE Below(v)' = Below(v)
  <2>1. subtree'[v] = subtree[v]
    BY <1>2, <1>3
  <2> QED BY <1>1, <2>1, BelowIsReach
<1>6. \A m \in Node : Live(m)' <=> Live(m) \/ \E v \in D : first[v] = m
  <2>1. TAKE m \in Node
  <2>2. CASE \E v \in D : first[v] = m
    <3>1. parent'[m] \in D
      BY <1>2, <1>3, <2>2
    <3> QED BY <1>3, <2>2, <3>1, Distinct DEF Live
  <2>3. CASE \A v \in D : first[v] # m
    BY <1>2, <1>3, <2>3 DEF Live
  <2> QED BY <2>2, <2>3
<1>7. \A m \in Node : Live(m)' <=> \E v \in U \cup D : m \in Below(v)'
  BY <1>0, <1>4, <1>5, <1>6 DEF Everywhere
<1>8. ASSUME NEW v \in U \cup D, NEW w \in U \cup D, NEW m \in Node, m \in Below(v)', m \in Below(w)'
      PROVE  v = w
  <2>1. CASE v \in D /\ w \in D
    BY <1>2, <1>3, <1>4, <1>8, <2>1
  <2>2. CASE v \in U /\ w \in U
    BY <1>0, <1>5, <1>8, <2>2 DEF Everywhere
  <2>3. \A u \in U : m \in Below(u)' => Live(m)
    BY <1>0, <1>5 DEF Everywhere
  <2>4. \A u \in D : m \in Below(u)' => ~Live(m)
    BY <1>3, <1>4
  <2> QED BY <1>8, <2>1, <2>2, <2>3, <2>4
<1>9. Everywhere'
  BY <1>1, <1>3, <1>7, <1>8 DEF Everywhere
<1>10. (TreeSound <=> TreeLinks /\ Everywhere)'
  BY SoundIsEverywhere, PTL
<1> QED BY <1>0, <1>9, <1>10

(* The viewports that stay keep what is below them.                        *)
LEMMA RemoveTreeSound ==
  ASSUME Inv, TreeSound, NEW k \in Viewport, RemoveViewports(k)
  PROVE  TreeSound'
<1> DEFINE dead == UNION {Below(v) : v \in (k + 1)..nviewports}
<1>0. /\ TreeLinks /\ Everywhere /\ TreeLinks' /\ TypeOK
      /\ \A m \in Node : Live(m)' <=> Live(m) /\ m \notin dead
  BY SoundIsEverywhere, RemoveTreeLinks DEF Inv
<1>1. /\ k < nviewports /\ nviewports' = k /\ k \in Nat /\ nviewports \in Nat
      /\ subtree' = [v \in Viewport |-> IF v > k THEN Null ELSE subtree[v]]
      /\ pack0' = [s \in Split |-> IF s \in dead THEN Null ELSE pack0[s]]
      /\ pack1' = [s \in Split |-> IF s \in dead THEN Null ELSE pack1[s]]
  BY <1>0, Distinct DEF RemoveViewports, TypeOK
<1>2. /\ 1..nviewports = (1..k) \cup ((k + 1)..nviewports)
      /\ (1..k) \cap ((k + 1)..nviewports) = {}
      /\ \A v \in 1..k : v \in Viewport /\ ~(v > k) /\ subtree[v] \in Node
  BY <1>0, <1>1, Roots
<1>3. \A v \in 1..k, m \in Node : m \in Below(v) => m \notin dead
  BY <1>0, <1>2 DEF Everywhere
<1>4. ASSUME NEW v \in 1..k PROVE Below(v)' = Below(v)
  <2> DEFINE X == Below(v)'
  <2>1. subtree'[v] = subtree[v] /\ subtree[v] \in Node
    BY <1>1, <1>2
  <2>2. /\ Below(v) \in SUBSET Node /\ subtree[v] \in Below(v) /\ Closed(Below(v), pack0, pack1)
        /\ X \in SUBSET Node /\ subtree[v] \in X /\ Closed(X, pack0', pack1')
    BY <2>1, BelowIsReach, ReachIsClosed
  <2>3. \A t \in Below(v) \cap Split : pack0'[t] = pack0[t] /\ pack1'[t] = pack1[t]
    BY <1>1, <1>3, <2>2
  <2>4. Closed(Below(v), pack0', pack1')
    BY <2>2, <2>3 DEF Closed
  <2>5. X \subseteq Below(v)
    BY <2>1, <2>2, <2>4, BelowIsReach, ReachIsLeast
  <2>6. Closed(X, pack0, pack1)
    BY <2>2, <2>3, <2>5 DEF Closed
  <2>7. Below(v) \subseteq X
    <3> HIDE DEF X
    <3> QED BY <2>2, <2>6, BelowIsReach, ReachIsLeast
  <2> QED BY <2>5, <2>7
<1>5. \A m \in Node : Live(m)' <=> \E v \in 1..k : m \in Below(v)
  <2> TAKE m \in Node
  <2>1. m \in dead <=> \E v \in (k + 1)..nviewports : m \in Below(v)
    OBVIOUS
  <2>2. Live(m) <=> \E v \in 1..nviewports : m \in Below(v)
    BY <1>0 DEF Everywhere
  <2> HIDE DEF dead
  <2> QED BY <1>0, <1>2, <1>3, <2>1, <2>2
<1>6. Everywhere'
  BY <1>0, <1>1, <1>2, <1>4, <1>5 DEF Everywhere
<1>7. (TreeSound <=> TreeLinks /\ Everywhere)'
  BY SoundIsEverywhere, PTL
<1> QED BY <1>0, <1>6, <1>7

(* At first each viewport has one notebook below it.                       *)
LEMMA InitTreeSound ==
  ASSUME Init
  PROVE  TreeSound
<1>0. TreeLinks /\ TypeOK
  BY InitInv DEF Inv
<1>1. PICK first \in [Viewport -> Notebook] :
       /\ \A v, w \in Viewport : v # w => first[v] # first[w]
       /\ subtree = [v \in Viewport |-> IF v <= nviewports THEN first[v] ELSE Null]
       /\ parent = [n \in Node |->
            IF \E v \in 1..nviewports : first[v] = n
            THEN CHOOSE v \in 1..nviewports : first[v] = n ELSE Null]
  BY DEF Init
<1> DEFINE U == 1..nviewports
<1>2. U \subseteq Viewport /\ \A v \in Viewport : v \in U <=> v <= nviewports
  BY <1>0, Roots
<1>3. \A v \in U : subtree[v] = first[v] /\ first[v] \in Node /\ first[v] \notin Split
  BY <1>1, <1>2, Distinct DEF Node
<1>4. ASSUME NEW v \in U PROVE Below(v) = {first[v]}
  <2>1. first[v] \in Below(v)
    BY <1>3, BelowIsReach, ReachIsClosed
  <2>2. Closed({first[v]}, pack0, pack1)
    BY <1>3 DEF Closed
  <2>3. Below(v) \subseteq {first[v]}
    BY <1>3, <2>2, BelowIsReach, ReachIsLeast
  <2> QED BY <2>1, <2>3
<1>5. \A m \in Node : Live(m) <=> \E v \in U : first[v] = m
  <2>1. TAKE m \in Node
  <2>2. CASE \E v \in U : first[v] = m
    <3>1. parent[m] \in U
      BY <1>1, <2>2
    <3> QED BY <1>2, <2>2, <3>1, Distinct DEF Live
  <2>3. CASE \A v \in U : first[v] # m
    BY <1>1, <2>3 DEF Live
  <2> QED BY <2>2, <2>3
<1>6. Everywhere
  BY <1>1, <1>2, <1>4, <1>5 DEF Everywhere
<1> QED BY <1>0, <1>6, SoundIsEverywhere

-----------------------------------------------------------------------------
(* The selected tabs.  x is the tab that a notebook with the tabs S shows. *)
RecentOf(S, x, h) ==
  IF S = {} THEN x = Null ELSE x \in S /\ \A d \in S \ {x} : Before(h, x, d)

LEMMA HistoryShape ==
  ASSUME NEW h \in Histories
  PROVE  /\ Len(h) \in Nat /\ DOMAIN h = 1..Len(h) /\ h \in Seq(Client)
         /\ \A i, j \in 1..Len(h) : h[i] = h[j] => i = j
         /\ \A d : d \in ToSet(h) <=> \E i \in 1..Len(h) : h[i] = d
<1>1. PICK k \in Nat : h \in [1..k -> Client]
  BY ConstantsAssumption, FS_CardinalityType DEF Histories
<1>2. h \in Seq(Client) /\ Len(h) = k /\ DOMAIN h = 1..k
  BY <1>1
<1>3. \A i, j \in DOMAIN h : h[i] = h[j] => i = j
  BY DEF Histories
<1> QED BY <1>2, <1>3 DEF ToSet

(* A tab is before all others when no other is before it.                  *)
LEMMA RecentIsFirst ==
  ASSUME NEW h \in Histories, NEW S \in SUBSET ToSet(h), NEW x
  PROVE  RecentOf(S, x, h) <=>
           IF S = {} THEN x = Null
           ELSE \E i \in 1..Len(h) : h[i] = x /\ x \in S /\ \A j \in 1..i-1 : h[j] \notin S
<1>0. /\ Len(h) \in Nat /\ DOMAIN h = 1..Len(h)
      /\ \A i, j \in 1..Len(h) : h[i] = h[j] => i = j
      /\ \A d : d \in ToSet(h) <=> \E i \in 1..Len(h) : h[i] = d
  BY HistoryShape
<1>1. ASSUME NEW i \in 1..Len(h), x = h[i], x \in S, \A j \in 1..i-1 : h[j] \notin S,
             NEW d \in S \ {x}
      PROVE  Before(h, x, d)
  <2>1. PICK j \in 1..Len(h) : h[j] = d
    BY <1>0
  <2>2. ~(j < i) /\ j # i
    BY <1>1, <2>1
  <2> QED BY <1>0, <1>1, <2>1, <2>2 DEF Before
<1>2. ASSUME x \in S, \A d \in S \ {x} : Before(h, x, d)
      PROVE  \E i \in 1..Len(h) : h[i] = x /\ x \in S /\ \A j \in 1..i-1 : h[j] \notin S
  <2>1. PICK i \in 1..Len(h) : h[i] = x
    BY <1>0, <1>2
  <2>2. ASSUME NEW j \in 1..i-1, h[j] \in S PROVE FALSE
    <3>1. j \in 1..Len(h) /\ j < i
      BY <1>0
    <3>2. h[j] # x
      BY <1>0, <2>1, <3>1
    <3>3. Before(h, x, h[j])
      BY <1>2, <2>2, <3>2
    <3>4. PICK a \in 1..Len(h), b \in 1..Len(h) : a < b /\ h[a] = x /\ h[b] = h[j]
      BY <1>0, <3>3 DEF Before
    <3>5. a = i /\ b = j
      BY <1>0, <2>1, <3>1, <3>4
    <3> QED BY <3>1, <3>4, <3>5
  <2> QED BY <1>2, <2>1, <2>2
<1> QED BY <1>1, <1>2 DEF RecentOf

LEMMA SelectedAsRecent ==
  ASSUME TypeOK
  PROVE  SelectedIsMostRecent <=>
           \A n \in Notebook : tabs[n] \subseteq ToSet(history) /\ RecentOf(tabs[n], selected[n], history)
<1>1. history \in Histories
  BY DEF TypeOK
<1>2. ASSUME NEW n \in Notebook, tabs[n] \subseteq ToSet(history)
      PROVE  RecentOf(tabs[n], selected[n], history) <=>
               IF tabs[n] = {} THEN selected[n] = Null
               ELSE \E i \in 1..Len(history) :
                      /\ history[i] = selected[n]
                      /\ selected[n] \in tabs[n]
                      /\ \A j \in 1..i-1 : history[j] \notin tabs[n]
  <2> DEFINE S == tabs[n]
             x == selected[n]
  <2>1. S \in SUBSET ToSet(history)
    BY <1>2
  <2> HIDE DEF S, x
  <2>2. RecentOf(S, x, history) <=>
          IF S = {} THEN x = Null
          ELSE \E i \in 1..Len(history) :
                 history[i] = x /\ x \in S /\ \A j \in 1..i-1 : history[j] \notin S
    BY <1>1, <2>1, RecentIsFirst
  <2> QED BY <2>2 DEF S, x
<1> QED BY <1>2 DEF SelectedIsMostRecent, TabsAreRecent

(* What comes to the front of the history is before the rest.              *)
LEMMA HeadIsRecent ==
  ASSUME NEW h \in Histories, NEW S \in SUBSET ToSet(h), Head(h) \in S
  PROVE  RecentOf(S, Head(h), h)
<1>0. /\ Len(h) \in Nat /\ DOMAIN h = 1..Len(h) /\ h \in Seq(Client)
      /\ \A d : d \in ToSet(h) <=> \E i \in 1..Len(h) : h[i] = d
  BY HistoryShape
<1>1. Head(h) = h[1] /\ 1 \in 1..Len(h)
  <2>1. Len(h) # 0
    BY <1>0
  <2> QED BY <1>0, <2>1
<1>2. ASSUME NEW d \in S \ {Head(h)} PROVE Before(h, Head(h), d)
  <2>1. PICK j \in 1..Len(h) : h[j] = d
    BY <1>0
  <2>2. j # 1
    BY <1>1, <2>1
  <2> QED BY <1>0, <1>1, <2>1, <2>2 DEF Before
<1> QED BY <1>2 DEF RecentOf

LEMMA FrontIsHead ==
  ASSUME NEW front, NEW gone, NEW h \in HistoryAfter(front, gone), 1 \in DOMAIN front
  PROVE  h \in Histories /\ Head(h) = front[1]
<1>1. h \in Histories /\ 1 \in DOMAIN h /\ h[1] = front[1]
  BY DEF HistoryAfter
<1>2. h \in Seq(Client) /\ Len(h) \in Nat /\ DOMAIN h = 1..Len(h)
  BY <1>1, HistoryShape
<1> QED BY <1>1, <1>2

(* What does not come to the front keeps its order.                        *)
LEMMA RecentIsKept ==
  ASSUME NEW S, NEW x, RecentOf(S, x, history),
         NEW front, NEW gone, NEW h \in HistoryAfter(front, gone),
         S \subseteq ToSet(h), S \cap ToSet(front) = {}
  PROVE  RecentOf(S, x, h)
BY DEF RecentOf, HistoryAfter

(* What remove_view_notebook selects is the most recent tab that is left.  *)
LEMMA SelectionIsRecent ==
  ASSUME Inv, SelectedIsMostRecent, NEW c \in Client, NEW sel \in SelectionsAfterLeaving(c)
  PROVE  \A n \in Notebook : RecentOf(tabs[n] \ {c}, sel[n], history)
<1> USE DEF Inv
<1>1. PICK x \in IF HasTab(c) THEN SelectionWithout(Holder(c), {c}) ELSE {Null} :
        sel = [n \in Notebook |-> IF c \in tabs[n] THEN x ELSE selected[n]]
  BY DEF SelectionsAfterLeaving
<1>2. \A n \in Notebook : tabs[n] \subseteq ToSet(history) /\ RecentOf(tabs[n], selected[n], history)
  BY SelectedAsRecent
<1>3. ASSUME NEW n \in Notebook, c \notin tabs[n] PROVE RecentOf(tabs[n] \ {c}, sel[n], history)
  <2>1. tabs[n] \ {c} = tabs[n] /\ sel[n] = selected[n]
    BY <1>1, <1>3
  <2> QED BY <1>2, <2>1
<1>4. ASSUME NEW n \in Notebook, c \in tabs[n] PROVE RecentOf(tabs[n] \ {c}, sel[n], history)
  <2>1. HasTab(c) /\ Holder(c) = n
    <3>1. HasTab(c) /\ Holder(c) \in Notebook /\ c \in tabs[Holder(c)]
      BY <1>4 DEF HasTab, Holder
    <3> QED BY <1>4, <3>1 DEF OneView
  <2>2. sel[n] = x /\ x \in SelectionWithout(n, {c})
    BY <1>1, <1>4, <2>1
  <2> DEFINE left == tabs[n] \ {c}
  <2>3. CASE selected[n] # c
    <3>1. x = selected[n] /\ x \in left /\ left # {}
      BY <1>2, <1>4, <2>2, <2>3 DEF SelectionWithout, RecentOf
    <3> QED BY <1>2, <1>4, <2>2, <3>1 DEF RecentOf
  <2>4. CASE selected[n] = c /\ left = {}
    <3>1. x = Null
      BY <2>2, <2>4 DEF SelectionWithout
    <3> QED BY <2>2, <2>4, <3>1 DEF RecentOf
  <2>5. CASE selected[n] = c /\ left # {}
    <3> DEFINE First(e) == \E i \in 1..Len(history) :
                             history[i] = e /\ \A j \in 1..i-1 : history[j] \notin left
               I == {i \in 1..Len(history) : history[i] \in left}
    <3>1. /\ history \in Histories /\ Len(history) \in Nat /\ left \subseteq ToSet(history)
          /\ \A d : d \in ToSet(history) <=> \E i \in 1..Len(history) : history[i] = d
      BY <1>2, HistoryShape DEF TypeOK
    <3>2. \E e \in left : First(e)
      <4>1. I \subseteq Nat /\ I # {}
        BY <2>5, <3>1
      <4>2. PICK i \in I : \A j \in I : ~(<<j, i>> \in OpToRel(<, Nat))
        <5> HIDE DEF I
        <5> QED BY <4>1, NatLessThanWellFounded, WFMin
      <4>3. \A j \in I : ~(j < i)
        BY <4>1, <4>2 DEF OpToRel
      <4>4. \A j \in 1..i-1 : history[j] \notin left
        BY <3>1, <4>3
      <4> QED BY <4>4
    <3>3. x \in left /\ First(x)
      <4>1. x \in IF {e \in left : First(e)} # {} THEN {e \in left : First(e)} ELSE left
        <5> HIDE DEF First
        <5>1. {e \in left : First(e)} =
                {e \in left : \E i \in 1..Len(history) :
                   history[i] = e /\ \A j \in 1..i-1 : history[j] \notin left}
          BY DEF First
        <5> QED BY <2>2, <2>5, <5>1 DEF SelectionWithout
      <4> HIDE DEF First, left
      <4> QED BY <3>2, <4>1
    <3>4. \E i \in 1..Len(history) :
            history[i] = x /\ x \in left /\ \A j \in 1..i-1 : history[j] \notin left
      BY <3>3
    <3>5. RecentOf(left, x, history)
      <4> HIDE DEF left
      <4> QED BY <2>5, <3>1, <3>4, RecentIsFirst
    <3> QED BY <2>2, <3>5
  <2> QED BY <2>3, <2>4, <2>5
<1> QED BY <1>3, <1>4

LEMMA SelectedFormula ==
  TypeOK => (SelectedIsMostRecent <=>
    \A n \in Notebook : tabs[n] \subseteq ToSet(history) /\ RecentOf(tabs[n], selected[n], history))
BY SelectedAsRecent

LEMMA RecentNext ==
  ASSUME TypeOK',
         \A n \in Notebook : /\ tabs'[n] \subseteq ToSet(history')
                             /\ RecentOf(tabs'[n], selected'[n], history')
  PROVE  SelectedIsMostRecent'
<1>1. (TypeOK => (SelectedIsMostRecent <=>
         \A n \in Notebook : tabs[n] \subseteq ToSet(history)
                             /\ RecentOf(tabs[n], selected[n], history)))'
  BY SelectedFormula, PTL
<1> QED BY <1>1 DEF RecentOf

(* A tab that arrives is selected and comes to the front of the history.   *)
LEMMA ArrivesRecent ==
  ASSUME TypeOK, TypeOK', SelectedIsMostRecent, NEW c \in Client, NEW n \in Notebook, NEW sel,
         sel \in [Notebook -> Client \cup {Null}],
         \A m \in Notebook : RecentOf(tabs[m] \ {c}, sel[m], history), TabGoesTo(c, n, sel)
  PROVE  SelectedIsMostRecent'
<1>1. /\ \A m \in Notebook : tabs'[m] = IF m = n THEN tabs[m] \cup {c} ELSE tabs[m] \ {c}
      /\ \A m \in Notebook : selected'[m] = IF m = n THEN c ELSE sel[m]
      /\ history' \in HistoryAfter(<<c>>, {})
  BY DEF TabGoesTo
<1>2. history' \in Histories /\ ToSet(history') = ToSet(history) \cup {c} /\ Head(history') = c
  BY <1>1, HistoryGains, FrontIsHead
<1>3. \A m \in Notebook : tabs[m] \subseteq ToSet(history)
  BY SelectedAsRecent
<1>4. ASSUME NEW m \in Notebook
      PROVE  tabs'[m] \subseteq ToSet(history') /\ RecentOf(tabs'[m], selected'[m], history')
  <2>1. tabs'[m] \subseteq ToSet(history')
    BY <1>1, <1>2, <1>3
  <2>2. CASE m = n
    <3>1. c \in tabs'[m] /\ selected'[m] = c
      BY <1>1, <2>2
    <3> QED BY <1>2, <2>1, <3>1, HeadIsRecent
  <2>3. CASE m # n
    <3>1. tabs'[m] = tabs[m] \ {c} /\ selected'[m] = sel[m]
      BY <1>1, <2>3
    <3>2. (tabs[m] \ {c}) \cap ToSet(<<c>>) = {}
      BY SingletonSet
    <3> QED BY <1>1, <2>1, <3>1, <3>2, RecentIsKept
  <2> QED BY <2>1, <2>2, <2>3
<1> QED BY <1>4, RecentNext

(* The tabs of a window that has none are as recent as they were.          *)
LEMMA NoTabRecent ==
  ASSUME TypeOK, SelectedIsMostRecent, NEW c, ~HasTab(c)
  PROVE  /\ \A m \in Notebook : RecentOf(tabs[m] \ {c}, selected[m], history)
         /\ \A m \in Notebook : c \notin tabs[m] /\ tabs[m] \ {c} = tabs[m]
         /\ selected \in [Notebook -> Client \cup {Null}]
<1>1. \A m \in Notebook : c \notin tabs[m] /\ tabs[m] \ {c} = tabs[m]
  BY DEF HasTab
<1>2. \A m \in Notebook : RecentOf(tabs[m], selected[m], history)
  BY SelectedAsRecent
<1> QED BY <1>1, <1>2 DEF TypeOK

(* The tab of a window goes, and what is selected then is the recent one.  *)
LEMMA LeavesRecent ==
  ASSUME Inv, TypeOK', SelectedIsMostRecent, NEW c \in Client,
         tabs' = [n \in Notebook |-> tabs[n] \ {c}], selected' \in SelectionsAfterLeaving(c),
         \/ history' \in HistoryAfter(<<c>>, {})
         \/ history' \in HistoryAfter(<<>>, {c})
  PROVE  SelectedIsMostRecent'
<1>1. \A n \in Notebook : RecentOf(tabs[n] \ {c}, selected'[n], history)
  BY SelectionIsRecent
<1>2. \A n \in Notebook : tabs[n] \subseteq ToSet(history)
  BY SelectedAsRecent DEF Inv
<1>3. ToSet(history) \ {c} \subseteq ToSet(history')
  BY HistoryGains, HistoryLoses
<1>4. ASSUME NEW n \in Notebook
      PROVE  tabs'[n] \subseteq ToSet(history') /\ RecentOf(tabs'[n], selected'[n], history')
  <2>1. tabs'[n] = tabs[n] \ {c}
    OBVIOUS
  <2>2. tabs[n] \ {c} \subseteq ToSet(history')
    BY <1>2, <1>3
  <2>3. ToSet(<<c>>) = {c} /\ ToSet(<<>>) = {}
    BY SingletonSet DEF ToSet
  <2>4. CASE history' \in HistoryAfter(<<c>>, {})
    BY <1>1, <2>1, <2>2, <2>3, <2>4, RecentIsKept
  <2>5. CASE history' \in HistoryAfter(<<>>, {c})
    BY <1>1, <2>1, <2>2, <2>3, <2>5, RecentIsKept
  <2> QED BY <2>1, <2>2, <2>4, <2>5
<1> QED BY <1>4, RecentNext

(* A tab that is there gets the focus.                                     *)
LEMMA FocusRecent ==
  ASSUME Inv, TypeOK', SelectedIsMostRecent, NEW c \in Client, tabs' = tabs,
         history' \in HistoryAfter(<<c>>, {}),
         selected' = IF HasTab(c) THEN [selected EXCEPT ![Holder(c)] = c] ELSE selected
  PROVE  SelectedIsMostRecent'
<1> USE DEF Inv
<1>1. history' \in Histories /\ ToSet(history') = ToSet(history) \cup {c} /\ Head(history') = c
  BY HistoryGains, FrontIsHead
<1>2. \A n \in Notebook : tabs[n] \subseteq ToSet(history) /\ RecentOf(tabs[n], selected[n], history)
  BY SelectedAsRecent
<1>3. ASSUME NEW n \in Notebook
      PROVE  tabs'[n] \subseteq ToSet(history') /\ RecentOf(tabs'[n], selected'[n], history')
  <2>1. tabs'[n] = tabs[n] /\ tabs[n] \subseteq ToSet(history')
    BY <1>1, <1>2
  <2>2. CASE c \in tabs[n]
    <3>1. HasTab(c) /\ Holder(c) \in Notebook /\ c \in tabs[Holder(c)]
      BY <2>2 DEF HasTab, Holder
    <3>2. Holder(c) = n
      BY <2>2, <3>1 DEF OneView
    <3>3. selected'[n] = c
      BY <3>1, <3>2 DEF TypeOK
    <3> QED BY <1>1, <2>1, <2>2, <3>3, HeadIsRecent
  <2>3. CASE c \notin tabs[n]
    <3>1. selected'[n] = selected[n]
      <4>1. HasTab(c) => Holder(c) \in Notebook /\ c \in tabs[Holder(c)]
        BY DEF HasTab, Holder
      <4> QED BY <2>3, <4>1 DEF TypeOK
    <3>2. tabs[n] \cap ToSet(<<c>>) = {}
      BY <2>3, SingletonSet
    <3> QED BY <1>2, <2>1, <3>1, <3>2, RecentIsKept
  <2> QED BY <2>2, <2>3
<1> QED BY <1>3, RecentNext

(* The tabs of notebooks that go come to the front in their order.         *)
LEMMA TabsMoveRecent ==
  ASSUME Inv, TypeOK', SelectedIsMostRecent, NEW dead \in SUBSET Notebook,
         NEW d \in Notebook \ dead,
         NEW order \in SetToSeqs(UNION {tabs[n] : n \in dead}), TabsMoveTo(dead, d, order)
  PROVE  SelectedIsMostRecent'
<1> USE DEF Inv
<1> DEFINE moving == UNION {tabs[n] : n \in dead}
<1>1. moving \subseteq Client /\ \A c \in moving : \A n \in Notebook \ dead : c \notin tabs[n]
  BY DEF TypeOK, OneView
<1>2. ToSet(order) \subseteq moving /\ (moving # {} => Head(order) \in moving \cap ToSet(order))
  BY <1>1, OrderHead
<1>3. \A n \in Notebook : tabs'[n] = IF n = d THEN tabs[n] \cup moving
                                     ELSE IF n \in dead THEN {} ELSE tabs[n]
  BY DEF TabsMoveTo
<1>4. \A n \in Notebook : selected'[n] = IF n = d /\ moving # {} THEN Head(order)
                                         ELSE IF n \in dead THEN Null ELSE selected[n]
  BY DEF TabsMoveTo
<1>5. \A n \in Notebook : tabs[n] \subseteq ToSet(history) /\ RecentOf(tabs[n], selected[n], history)
  BY SelectedAsRecent
<1>6. history' \in HistoryAfter(order, {}) /\ history' \in Histories
      /\ ToSet(history') = ToSet(history) \cup ToSet(order)
  BY HistoryAfterSet DEF TabsMoveTo
<1>7. moving \subseteq ToSet(history)
  BY <1>5
<1>8. moving # {} => Head(history') = Head(order)
  <2> HAVE moving # {}
  <2>1. order \in [1..Cardinality(moving) -> moving]
    BY DEF SetToSeqs
  <2>2. IsFiniteSet(moving) /\ Cardinality(moving) \in Nat /\ Cardinality(moving) # 0
    BY <1>1, ConstantsAssumption, FS_Subset, FS_CardinalityType, FS_EmptySet
  <2> HIDE DEF moving
  <2>3. order \in Seq(moving) /\ DOMAIN order = 1..Cardinality(moving)
    BY <2>1, <2>2
  <2>4. 1 \in DOMAIN order /\ Head(order) = order[1]
    BY <2>2, <2>3
  <2> QED BY <1>6, <2>4, FrontIsHead
<1> HIDE DEF moving
<1>9. ASSUME NEW n \in Notebook
      PROVE  tabs'[n] \subseteq ToSet(history') /\ RecentOf(tabs'[n], selected'[n], history')
  <2>1. tabs'[n] \subseteq ToSet(history')
    BY <1>3, <1>5, <1>6, <1>7
  <2>2. CASE n = d /\ moving # {}
    <3>1. Head(history') \in tabs'[n] /\ selected'[n] = Head(history')
      BY <1>2, <1>3, <1>4, <1>8, <2>2
    <3> QED BY <1>6, <2>1, <3>1, HeadIsRecent
  <2>3. CASE n \in dead
    BY <1>3, <1>4, <2>1, <2>3 DEF RecentOf
  <2>4. CASE n \notin dead /\ ~(n = d /\ moving # {})
    <3>1. tabs'[n] = tabs[n] /\ selected'[n] = selected[n]
      BY <1>3, <1>4, <2>4
    <3>2. tabs[n] \cap ToSet(order) = {}
      BY <1>1, <1>2, <2>4
    <3> QED BY <1>5, <1>6, <2>1, <3>1, <3>2, RecentIsKept
  <2> QED BY <2>1, <2>2, <2>3, <2>4
<1> QED BY <1>9, RecentNext

LEMMA ClientStepRecent ==
  ASSUME Inv, Inv', SelectedIsMostRecent, NEW c \in Client,
         \/ MapWindow(c) \/ Unmanage(c) \/ FocusWindow(c)
         \/ MakeFloating(c) \/ MakeNotebook(c)
         \/ EnterFullscreen(c) \/ LeaveFullscreen(c)
         \/ ActivateTab(c) \/ \E n \in Notebook : MoveTab(c, n)
  PROVE  SelectedIsMostRecent'
<1>0. TypeOK /\ TypeOK'
  BY DEF Inv
<1>1. CASE MapWindow(c)
  <2>1. CASE UNCHANGED <<popVars, tabVars, focusVars>>
    BY <2>1 DEF SelectedIsMostRecent, TabsAreRecent, tabVars, focusVars
  <2>2. CASE \E d \in EnsureDefault(LiveNotebooks) :
               DefaultBecomes(d, {}) /\ TabGoesTo(c, d, selected)
    <3>1. PICK d \in Notebook : TabGoesTo(c, d, selected)
      BY <2>2 DEF EnsureDefault, LiveNotebooks
    <3>2. ~HasTab(c)
      BY <1>1 DEF MapWindow, Inv, OneView, Viewed, HasTab
    <3> QED BY <1>0, <3>1, <3>2, NoTabRecent, ArrivesRecent
  <2> QED BY <1>1, <2>1, <2>2 DEF MapWindow
<1>2. CASE Unmanage(c)
  <2>1. PICK sel \in SelectionsAfterLeaving(c) :
         IF AutoRefocus /\ active = c /\ history' # <<>>
         THEN LET f == Head(history')
              IN  /\ active' = f
                  /\ selected' = [n \in Notebook |-> IF f \in tabs[n] THEN f ELSE sel[n]]
         ELSE /\ active' = IF active = c THEN Null ELSE active
              /\ selected' = sel
    BY <1>2 DEF Unmanage
  <2>2. tabs' = [n \in Notebook |-> tabs[n] \ {c}] /\ history' \in HistoryAfter(<<>>, {c})
    BY <1>2 DEF Unmanage
  <2>3. CASE AutoRefocus /\ active = c /\ history' # <<>>
    <3> DEFINE f == Head(history')
    <3>1. selected' = [n \in Notebook |-> IF f \in tabs[n] THEN f ELSE sel[n]]
      BY <2>1, <2>3
    <3>2. history' \in Histories /\ ToSet(history') = ToSet(history) \ {c} /\ f # c
      <4>1. history' \in Histories /\ ToSet(history') = ToSet(history) \ {c}
        BY <2>2, HistoryLoses
      <4> QED BY <2>3, <4>1, HistoryHead
    <3>3. \A n \in Notebook : tabs[n] \subseteq ToSet(history)
      BY <1>0, SelectedAsRecent
    <3>4. \A n \in Notebook : RecentOf(tabs[n] \ {c}, sel[n], history)
      BY SelectionIsRecent
    <3>5. ASSUME NEW n \in Notebook
          PROVE  tabs'[n] \subseteq ToSet(history') /\ RecentOf(tabs'[n], selected'[n], history')
      <4>1. tabs'[n] = tabs[n] \ {c} /\ tabs[n] \ {c} \subseteq ToSet(history')
        BY <2>2, <3>2, <3>3
      <4>2. CASE f \in tabs[n]
        <5>1. selected'[n] = f /\ f \in tabs[n] \ {c}
          BY <3>1, <3>2, <4>2
        <5> QED BY <3>2, <4>1, <5>1, HeadIsRecent
      <4>3. CASE f \notin tabs[n]
        <5>1. selected'[n] = sel[n]
          BY <3>1, <4>3
        <5>2. ToSet(<<>>) = {}
          BY DEF ToSet
        <5> QED BY <2>2, <3>4, <4>1, <5>1, <5>2, RecentIsKept
      <4> QED BY <4>2, <4>3
    <3> QED BY <1>0, <3>5, RecentNext
  <2>4. CASE ~(AutoRefocus /\ active = c /\ history' # <<>>)
    <3>1. selected' \in SelectionsAfterLeaving(c)
      BY <2>1, <2>4
    <3> QED BY <1>0, <2>2, <3>1, LeavesRecent
  <2> QED BY <2>3, <2>4
<1>3. CASE FocusWindow(c)
  BY <1>0, <1>3, FocusRecent DEF FocusWindow
<1>4. CASE MakeFloating(c)
  BY <1>0, <1>4, LeavesRecent DEF MakeFloating, Focus
<1>5. CASE MakeNotebook(c)
  <2>1. PICK d \in EnsureDefault(LiveNotebooks) : TabGoesTo(c, RevertNotebook(c, d), selected)
    BY <1>5 DEF MakeNotebook
  <2>2. RevertNotebook(c, d) \in Notebook
    BY <1>0, <2>1 DEF RevertNotebook, EnsureDefault, LiveNotebooks, TypeOK
  <2>3. ~HasTab(c)
    BY <1>5 DEF MakeNotebook, HasTab, Inv, OneView
  <2> QED BY <1>0, <2>1, <2>2, <2>3, NoTabRecent, ArrivesRecent
<1>6. CASE EnterFullscreen(c)
  BY <1>0, <1>6, LeavesRecent DEF EnterFullscreen, ForgetView
<1>7. CASE LeaveFullscreen(c)
  <2>1. ~HasTab(c)
    BY <1>7 DEF LeaveFullscreen, HasTab, Inv, OneView
  <2>2. CASE revert_type[c] = "notebook"
    <3>1. PICK d \in EnsureDefault(LiveNotebooks) : TabGoesTo(c, RevertNotebook(c, d), selected)
      BY <1>7, <2>2 DEF LeaveFullscreen
    <3>2. RevertNotebook(c, d) \in Notebook
      BY <1>0, <3>1 DEF RevertNotebook, EnsureDefault, LiveNotebooks, TypeOK
    <3> QED BY <1>0, <2>1, <3>1, <3>2, NoTabRecent, ArrivesRecent
  <2>3. CASE revert_type[c] # "notebook"
    <3>1. tabs' = tabs /\ selected' = selected /\ history' \in HistoryAfter(<<c>>, {})
      BY <1>7, <2>3 DEF LeaveFullscreen, Focus, tabVars
    <3> QED BY <1>0, <2>1, <3>1, FocusRecent
  <2> QED BY <2>2, <2>3
<1>8. CASE ActivateTab(c)
  BY <1>0, <1>8, FocusRecent DEF ActivateTab, Focus
<1>9. CASE \E n \in Notebook : MoveTab(c, n)
  <2>1. PICK n \in Notebook, sel \in SelectionsAfterLeaving(c) : TabGoesTo(c, n, sel)
    BY <1>9 DEF MoveTab
  <2>2. sel \in [Notebook -> Client \cup {Null}]
    BY SelectionStays DEF Inv
  <2> QED BY <1>0, <2>1, <2>2, SelectionIsRecent, ArrivesRecent
<1> QED BY <1>1, <1>2, <1>3, <1>4, <1>5, <1>6, <1>7, <1>8, <1>9

LEMMA NotebookStepRecent ==
  ASSUME Inv, Inv', SelectedIsMostRecent, NEW n \in Notebook,
         \/ SetDefaultPop(n) \/ CloseNotebook(n)
         \/ \E s \in Split, new \in Notebook : SplitNotebook(n, s, new)
  PROVE  SelectedIsMostRecent'
<1>0. TypeOK /\ TypeOK'
  BY DEF Inv
<1>1. CASE SetDefaultPop(n)
  BY <1>1 DEF SetDefaultPop, SelectedIsMostRecent, TabsAreRecent, tabVars, focusVars
<1>2. CASE CloseNotebook(n)
  <2>1. PICK d \in EnsureDefault(LiveNotebooks \ {n}), order \in SetToSeqs(tabs[n]) :
          TabsMoveTo({n}, d, order)
    BY <1>2 DEF CloseNotebook
  <2>2. d \in Notebook \ {n} /\ UNION {tabs[m] : m \in {n}} = tabs[n]
    BY <2>1 DEF EnsureDefault, LiveNotebooks
  <2> QED BY <1>0, <2>1, <2>2, TabsMoveRecent
<1>3. CASE \E s \in Split, new \in Notebook : SplitNotebook(n, s, new)
  <2>1. PICK s \in Split, new \in Notebook : SplitNotebook(n, s, new)
    BY <1>3
  <2>2. CASE UNCHANGED <<tabVars, focusVars>>
    BY <2>2 DEF SelectedIsMostRecent, TabsAreRecent, tabVars, focusVars
  <2>3. CASE \E c \in Client : \E sel \in SelectionsAfterLeaving(c) : TabGoesTo(c, new, sel)
    <3>1. PICK c \in Client : \E sel \in SelectionsAfterLeaving(c) : TabGoesTo(c, new, sel)
      BY <2>3
    <3>2. PICK sel \in SelectionsAfterLeaving(c) : TabGoesTo(c, new, sel)
      BY <3>1
    <3>3. sel \in [Notebook -> Client \cup {Null}]
      BY SelectionStays DEF Inv
    <3> QED BY <1>0, <3>2, <3>3, SelectionIsRecent, ArrivesRecent
  <2> QED BY <2>1, <2>2, <2>3 DEF SplitNotebook
<1> QED BY <1>1, <1>2, <1>3

LEMMA ViewportStepRecent ==
  ASSUME Inv, Inv', SelectedIsMostRecent, NEW k \in Viewport,
         AddViewports(k) \/ RemoveViewports(k)
  PROVE  SelectedIsMostRecent'
<1>0. TypeOK /\ TypeOK'
  BY DEF Inv
<1>1. CASE AddViewports(k)
  BY <1>1 DEF AddViewports, SelectedIsMostRecent, TabsAreRecent, tabVars, focusVars
<1>2. CASE RemoveViewports(k)
  <2> DEFINE dead   == (UNION {Below(v) : v \in (k + 1)..nviewports}) \cap Notebook
             moving == UNION {tabs[n] : n \in dead}
  <2>1. CASE moving = {}
    <3>1. /\ selected' = [n \in Notebook |-> IF n \in dead THEN Null ELSE selected[n]]
          /\ UNCHANGED <<tabs, focusVars>>
      BY <1>2, <2>1 DEF RemoveViewports
    <3>2. \A n \in dead : tabs[n] = {}
      BY <2>1
    <3>3. \A n \in Notebook : tabs[n] \subseteq ToSet(history) /\ RecentOf(tabs[n], selected[n], history)
      BY <1>0, SelectedAsRecent
    <3>4. \A n \in Notebook : /\ tabs'[n] \subseteq ToSet(history')
                              /\ RecentOf(tabs'[n], selected'[n], history')
      <4> HIDE DEF dead
      <4> QED BY <3>1, <3>2, <3>3 DEF RecentOf, focusVars
    <3> QED BY <1>0, <3>4, RecentNext
  <2>2. CASE moving # {}
    <3>1. PICK d \in EnsureDefault(LiveNotebooks \ dead), order \in SetToSeqs(moving) :
            TabsMoveTo(dead, d, order)
      BY <1>2, <2>2 DEF RemoveViewports
    <3>2. d \in Notebook \ dead /\ dead \in SUBSET Notebook
      BY <3>1 DEF EnsureDefault, LiveNotebooks
    <3> HIDE DEF dead
    <3> QED BY <1>0, <3>1, <3>2, TabsMoveRecent
  <2> QED BY <2>1, <2>2
<1> QED BY <1>1, <1>2

(* A notebook always shows the one of its tabs that had the focus last,    *)
(* whatever is mapped, moved, closed or split in the notebooks that share  *)
(* the history, and a tab never leaves the history before its notebook.    *)
THEOREM SelectedStaysRecent == Spec => []SelectedIsMostRecent
<1>1. Init => SelectedIsMostRecent
  BY DEF Init, SelectedIsMostRecent, TabsAreRecent
<1>2. Inv /\ Inv' /\ SelectedIsMostRecent /\ [Next]_vars => SelectedIsMostRecent'
  <2>1. SUFFICES ASSUME Inv, Inv', SelectedIsMostRecent, [Next]_vars PROVE SelectedIsMostRecent'
    OBVIOUS
  <2>2. CASE UNCHANGED vars
    BY <2>1, <2>2 DEF vars, SelectedIsMostRecent, TabsAreRecent, tabVars, focusVars
  <2> QED BY <2>1, <2>2, ClientStepRecent, NotebookStepRecent, ViewportStepRecent DEF Next
<1> QED BY <1>1, <1>2, Invariance, PTL DEF Spec

(* The tree of every viewport holds together, no branch is cut off and     *)
(* none hangs below two viewports; and no reference to a notebook          *)
(* outlives it.                                                            *)
THEOREM TreeStaysSound == Spec => []PointersAreSound
<1>1. Init => TreeSound
  BY InitTreeSound
<1>2. Inv /\ TreeSound /\ [Next]_vars => TreeSound'
  <2>1. SUFFICES ASSUME Inv, TreeSound, [Next]_vars PROVE TreeSound'
    OBVIOUS
  <2>2. CASE UNCHANGED treeVars
    BY <2>1, <2>2 DEF treeVars, TreeSound, TreeLinks, Live, Below
  <2>3. ASSUME NEW n \in Notebook, NEW s \in Split, NEW new \in Notebook, SplitNotebook(n, s, new)
        PROVE  TreeSound'
    <3>1. /\ Live(n) /\ ~Live(s) /\ ~Live(new)
          /\ \E newFirst \in BOOLEAN : SplitTree(n, s, new, newFirst)
      BY <2>3 DEF SplitNotebook
    <3> QED BY <2>1, <3>1, SplitTreeSound DEF Inv
  <2>4. ASSUME NEW c \in Client,
               \/ MapWindow(c) \/ Unmanage(c) \/ FocusWindow(c)
               \/ MakeFloating(c) \/ MakeNotebook(c)
               \/ EnterFullscreen(c) \/ LeaveFullscreen(c)
               \/ ActivateTab(c) \/ \E n \in Notebook : MoveTab(c, n)
        PROVE  UNCHANGED treeVars
    BY <2>4 DEF MapWindow, Unmanage, FocusWindow, MakeFloating, MakeNotebook, EnterFullscreen,
                LeaveFullscreen, ActivateTab, MoveTab
  <2>5. \A n \in Notebook : SetDefaultPop(n) => UNCHANGED treeVars
    BY DEF SetDefaultPop
  <2>6. UNCHANGED vars => UNCHANGED treeVars
    BY DEF vars
  <2> QED BY <2>1, <2>2, <2>3, <2>4, <2>5, <2>6, CloseTreeSound, AddTreeSound, RemoveTreeSound DEF Next
<1>3. Inv /\ TreeSound => PointersAreSound
  BY DEF Inv, PointersAreSound
<1> QED BY <1>1, <1>2, <1>3, Invariance, PTL DEF Spec

-----------------------------------------------------------------------------
(* Facts about the sharing of a split's length (PageSplit), for every      *)
(* length, ratio and minimum.  They are why the assertions of              *)
(* compute_children_allocation hold in a row of splits of one kind, and    *)
(* they show where the code relies on the caller.                          *)

LEMMA RoundedInt ==
  ASSUME NEW w \in Int, NEW num \in Int, NEW den \in Nat \ {0}
  PROVE  Rounded(w, num, den) \in Int
<1>1. 2 * w * num + den \in Int
  OBVIOUS
<1>2. 2 * den \in Int /\ 2 * den > 0
  OBVIOUS
<1> QED  BY <1>1, <1>2 DEF Rounded

LEMMA SharedRoundedInt ==
  ASSUME NEW l \in Int, NEW num \in Int, NEW den \in Nat \ {0}
  PROVE  Shared(l) \in Int /\ Rounded(Shared(l), num, den) \in Int
<1>1. Shared(l) \in Int
  BY LengthAssumption DEF Shared
<1> QED  BY <1>1, RoundedInt

(* A split that has the room its packs need gives each what it needs,      *)
(* whatever the ratio: the assertions of compute_children_allocation.      *)
THEOREM PacksFit ==
  ASSUME NEW l \in Int, NEW num \in Int, NEW den \in Nat \ {0},
         NEW min0 \in Int, NEW min1 \in Int,
         l >= MinOfSplit(min0, min1)
  PROVE  /\ Length0(l, num, den, min0, min1) >= min0
         /\ Length1(l, num, den, min0, min1) >= min1
<1>1. Rounded(Shared(l), num, den) \in Int
  BY SharedRoundedInt
<1> QED  BY <1>1, LengthAssumption DEF Length0, Length1, Shared, MinOfSplit

(* A split that has not enough room takes it from pack0 alone: pack1 keeps *)
(* what it needs, and pack0 gets less than it asserts.  This is the case a *)
(* smaller monitor reaches.                                                *)
THEOREM FirstPackPays ==
  ASSUME NEW l \in Int, NEW num \in Int, NEW den \in Nat \ {0},
         NEW min0 \in Int, NEW min1 \in Int,
         l < MinOfSplit(min0, min1)
  PROVE  /\ Length1(l, num, den, min0, min1) = min1
         /\ Length0(l, num, den, min0, min1) < min0
<1>1. Rounded(Shared(l), num, den) \in Int
  BY SharedRoundedInt
<1> QED  BY <1>1, LengthAssumption DEF Length0, Length1, Shared, MinOfSplit

(* A notebook that _can_vsplit or _can_hsplit lets be split gives both     *)
(* notebooks of the new split the room they need.                          *)
THEOREM HalvesFit ==
  ASSUME NEW l \in Int, NEW num \in Int, NEW den \in Nat \ {0},
         CanSplit(l)
  PROVE  /\ Length0(l, num, den, MinLength, MinLength) >= MinLength
         /\ Length1(l, num, den, MinLength, MinLength) >= MinLength
<1>1. l >= MinOfSplit(MinLength, MinLength)
  BY LengthAssumption DEF CanSplit, MinOfSplit
<1> QED  BY <1>1, PacksFit, LengthAssumption

(* replace() recomputes the parent while the new split is still empty and  *)
(* never again once it has its packs.  Along the parent's axis this is     *)
(* harmless: a pack that got x keeps x for every minimum up to x, as long  *)
(* as x was more than it needed, so the late minimum changes nothing.      *)
THEOREM LateMinimum ==
  ASSUME NEW l \in Int, NEW num \in Int, NEW den \in Nat \ {0},
         NEW before \in Int, NEW after \in Int, NEW min1 \in Int,
         Length0(l, num, den, before, min1) > before,
         after <= Length0(l, num, den, before, min1)
  PROVE  Length0(l, num, den, after, min1) = Length0(l, num, den, before, min1)
<1>1. Rounded(Shared(l), num, den) \in Int
  BY SharedRoundedInt
<1> QED  BY <1>1, LengthAssumption DEF Length0, Shared

(* Where the late minimum does harm: a pack that got exactly what it       *)
(* needed, because the ratio alone would give it less, loses it while a    *)
(* split with a smaller minimum stands in its place.                       *)
THEOREM SqueezedPackShrinks ==
  ASSUME NEW l \in Int, NEW num \in Int, NEW den \in Nat \ {0},
         NEW before \in Int, NEW after \in Int, NEW min1 \in Int,
         l >= MinOfSplit(before, min1),
         after < before,
         Rounded(Shared(l), num, den) < before
  PROVE  Length0(l, num, den, after, min1) < Length0(l, num, den, before, min1)
<1>1. Rounded(Shared(l), num, den) \in Int
  BY SharedRoundedInt
<1> QED  BY <1>1, LengthAssumption DEF Length0, Shared, MinOfSplit


=============================================================================
