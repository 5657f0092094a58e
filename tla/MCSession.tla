----------------------------- MODULE MCSession -----------------------------
(***************************************************************************)
(* The stack of modals, the extensions that the mode of the session        *)
(* allows, the pages of the overview and the input sources, for TLC.  They *)
(* share no state, and the pages have an overview of their own; a          *)
(* behaviour runs the one that part names.                                 *)
(***************************************************************************)
EXTENDS ModalStack, TLC

CONSTANTS
  a1, a2, a3, w1, w2, e1, e2, e3,
  overview, Other, RefuseCtrlClick  \* those of Views

Symmetry == Permutations({e2, e3})

LayoutsOf == "us" :> "us" @@ "ru" :> "ru" @@ "p" :> "de"
SourceLists == {<<"us", "ru", "p">>, <<"p">>}

VARIABLES
  part,  \* the component that this behaviour runs
  state, loaded, extensionOrder, enabledExtensions, running, threw, conflict,
  setting, disk, allowExtensions, enabled, initted,
  _shown, visible, animationInProgress, visibleTarget, _modal, _inXdndDrag,
  isDummy, _inOverview, unredirect, stack, view, controls, keyHandlers,
  settings, ibus, manager, keyboard, own, focus, indicator, popup, frozen, requests

Exts == INSTANCE ExtensionSystem
    WITH Ext <- {e1, e2, e3}, Faulty <- {e1}, ChangesWhileLocked <- FALSE,
         MaxOrder <- 4

Selector == INSTANCE Views

Inputs == INSTANCE InputSources
    WITH Xkb <- {"us", "ru"}, Engine <- {"p"}, LayoutOf <- LayoutsOf,
         Known <- {"us", "ru", "de"}, DEFAULT_LAYOUT <- "us", Lists <- SourceLists,
         PerGroup <- 2, Window <- {"w"}, None <- Null, MaxRequests <- 1

ASSUME ConstantsAssumptions ==
  /\ Exts!ConstantsAssumption
  /\ Inputs!InputSourcesAssumption
  /\ Selector!Over!ConstantsAssumption

extensionsVars == <<state, loaded, extensionOrder, enabledExtensions, running,
                     threw, conflict, setting, disk, allowExtensions, enabled,
                     initted>>
pagesVars == <<_shown, visible, animationInProgress, visibleTarget, _modal,
                _inXdndDrag, isDummy, _inOverview, unredirect, stack, view,
                controls, keyHandlers>>
inputsVars == <<settings, ibus, manager, keyboard, own, focus, indicator, popup, frozen, requests>>

MCInit ==
  /\ part \in {"modal", "extensions", "pages", "inputs"}
  /\ Init
  /\ (part # "modal" => key_focus = Null)
  /\ Exts!Init
  /\ (part # "extensions" => setting = {} /\ disk = {})
  /\ Selector!Init
  /\ Inputs!Init
  /\ (part # "inputs" => settings.sources = <<"p">> /\ ~settings.greeter)

(* A bound: no program drags over the pages (Overview itself is checked    *)
(* with such drags).                                                       *)
NoDrag == ~_inXdndDrag'

(* Bounds: windows with sources of their own, the popup, a password and    *)
(* the properties of an engine come one at a time, and most of them while  *)
(* IBus starts or goes in fewer ways; the focus moves only with the first. *)
OneInputMatter ==
  /\ Cardinality({c \in {"own", "popup", "password", "properties"} :
        CASE c = "own"        -> manager'.perWindow
          [] c = "popup"      -> popup' # <<>>
          [] c = "password"   -> manager'.disabled
          [] c = "properties" -> ibus'.registering}) <= 1
  /\ (popup' # <<>> \/ manager'.disabled => ~ibus'.asking)
  /\ (popup' # <<>> => ~ibus'.listing /\ ~ibus'.naming)
  /\ (manager'.perWindow => ibus'.listing = ibus'.naming)
  /\ (focus'.overview \/ focus'.window # Null => manager'.perWindow)
  /\ (focus'.overview => focus'.window = Null)

MCNext ==
  /\ UNCHANGED part
  /\ \/ /\ part = "modal" /\ Next
        /\ UNCHANGED <<extensionsVars, pagesVars, inputsVars>>
     \/ /\ part = "extensions" /\ Exts!Next
        /\ UNCHANGED <<vars, pagesVars, inputsVars>>
     \/ /\ part = "pages" /\ Selector!Next /\ NoDrag
        /\ UNCHANGED <<vars, extensionsVars, inputsVars>>
     \/ /\ part = "inputs" /\ Inputs!Next /\ OneInputMatter
        /\ UNCHANGED <<vars, extensionsVars, pagesVars>>

mcVars == <<part, vars, extensionsVars, pagesVars, inputsVars>>

MCSpec == MCInit /\ [][MCNext]_mcVars

(* The properties of the components.                                       *)
InputSourcesSound == part = "inputs" => Inputs!InputSourcesSound
PagesSound == part = "pages" => Selector!ViewsSound
ExtensionsSound ==
  /\ part = "extensions" => Exts!EnabledAsAllowed
  /\ part = "extensions" => Exts!LastEnabledFirstDisabled

=============================================================================
