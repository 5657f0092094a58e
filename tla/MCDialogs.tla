------------------------------ MODULE MCDialogs ------------------------------
(***************************************************************************)
(* For TLC: the end-session dialog, and a popup menu with two submenus, a  *)
(* section and two separators, one of which is added later.  They share no *)
(* state here; a behaviour runs the one that part names.                   *)
(***************************************************************************)
EXTENDS EndSessionDialog, TLC

CONSTANTS
  Item, Separator, SubMenu, Section, top, Contents, Hides, Fades, Spare, Moves, Dies, None

(* Submenus are named after their items.                                   *)
Filling ==
  "top" :> <<"sec", "p", "s", "q", "t">> @@ "sec" :> <<"a">> @@ "s" :> <<"b">> @@ "t" :> <<"d">>

VARIABLES
  part,  \* the component that this behaviour runs
  box, connected, hidden, insensitive, active, _activeMenuItem, focus, isOpen,
  _openedSubMenu, unfolded, tween, pointer, scrolls

Menus == INSTANCE PopupMenu

ASSUME ConstantsAssumptions == Menus!MenuAssumption

menuVars == <<box, connected, hidden, insensitive, active, _activeMenuItem, focus, isOpen,
              _openedSubMenu, unfolded, tween, pointer, scrolls>>

MCInit ==
  /\ part \in {"dialog", "menu"}
  /\ Init
  /\ Menus!Init
  /\ (part # "menu" => ~scrolls)

MCNext ==
  /\ UNCHANGED part
  /\ \/ /\ part = "dialog" /\ Next
        /\ UNCHANGED menuVars
     \/ /\ part = "menu" /\ Menus!Next
        /\ UNCHANGED vars

mcVars == <<part, vars, menuVars>>

(* The dialog of a behaviour that runs the menu has nothing to be fair to. *)
MCSpec == MCInit /\ [][MCNext]_mcVars /\ Fairness

(* The properties of a menu and what is in it.                             *)
MenuSound == part = "menu" => Menus!MenuSound
SeparatorsPart == Menus!SeparatorsPart

=============================================================================
