------------------------------ MODULE MCShell ------------------------------
(***************************************************************************)
(* Components of the shell for TLC: the overview, the applications that it *)
(* shows, a search, the popups that switch windows, and the list of        *)
(* messages, of which a behaviour has either notifications or events.      *)
(* They share no state here; a behaviour runs the one that part names.     *)
(***************************************************************************)
EXTENDS Overview, TLC

CONSTANTS a1, a2, f1, f2, NoWeeks

WindowsOf == <<2, 1>>

VARIABLES
  part,  \* the component that this behaviour runs
  views, mapped, popups, gone, checked, waiting, _displayingPopup, _currentPopup,
  space, grid, pages,
  _providers, _terms, _isSubSearch, _results, _startingSearch,
  _searchTimeoutId, _defaultResult, asks, metas, typed, reloads,
  popup, _popup, refused, held, released,
  listMode, open, notes, events, top, date, calendar, source, ignored, former

Apps == INSTANCE AppDisplay
    WITH Folders <- {f1, f2}, MaxPages <- 2, MaxGone <- 2

Searches == INSTANCE Search
    WITH Remote <- {"r"}, Letters <- {"a", "b"}, MaxLength <- 2,
         MaxTyped <- 3, MaxReloads <- 1

Switch == INSTANCE Switcher
    WITH Windows <- WindowsOf, MaxFades <- 2

(* Two urgent notifications and one that is not; an event of today, and    *)
(* one of today and of a day of another month.                             *)
Days == {"today", "far"}
Months == [d \in Days |-> IF d = "far" THEN 2 ELSE 1]
Events == {"e1", "e2"}
EventDays == [e \in Events |-> IF e = "e1" THEN {"today"} ELSE {"today", "far"}]
Lists == INSTANCE MessageList
    WITH Note <- {"u1", "u2", "n"}, Urgent <- {"u1", "u2"},
         Event <- Events, DaysOf <- EventDays, Day <- Days, Today <- "today",
         MonthOf <- Months,
         Stamp <- {0, 1}, None <- NoWeeks, MaxCalls <- 2, mode <- listMode

ASSUME ConstantsAssumptions ==
  /\ Apps!AppDisplayAssumption
  /\ Searches!SearchAssumption
  /\ Switch!SwitcherAssumption
  /\ Lists!MessageListAssumption

appsVars == <<views, mapped, popups, gone, checked, waiting, _displayingPopup,
               _currentPopup, space, grid, pages>>
searchVars == <<_providers, _terms, _isSubSearch, _results, _startingSearch,
                 _searchTimeoutId, _defaultResult, asks, metas, typed, reloads>>
switcherVars == <<popup, _popup, refused, held, released>>
listVars == <<listMode, open, notes, events, top, date, calendar, source,
               ignored, former>>

MCInit ==
  /\ part \in {"overview", "apps", "search", "switcher", "notes", "events"}
  /\ Init
  /\ Apps!Init
  /\ (part # "apps" => ~views.enabled /\ pages.have = 1)
  /\ Searches!Init
  /\ (part # "search" => Len(_providers) = 1)
  /\ Switch!Init
  /\ Lists!Init
  /\ listMode.events = (part # "notes")
  /\ (part # "events" => calendar.selected.stamp = 0 /\ listMode.notes)

(* Bounds: with both views of the applications, one folder and one page;   *)
(* after popups went with their folders, one view and one folder more;     *)
(* with a reload of the providers, one change of the terms less.           *)
FewWithViews == views'.enabled => pages'.have <= 1 /\ f2 \notin checked'
FewWithGone ==
  gone' > 0 \/ grid'.thrown =>
    ~views'.enabled /\ f2 \notin checked' \cup waiting' \cup popups'
FewWithReload == reloads' = 0 \/ typed' <= 2

(* The modes with notifications and no events, and with neither; and those *)
(* with both and without events.                                           *)
NotesOnly == ~listMode'.events /\ calendar'.selected.stamp = 0
EventsOnly == listMode'.notes /\ notes'.list = <<>>

MCNext ==
  /\ UNCHANGED part
  /\ \/ /\ part = "overview" /\ Next
        /\ UNCHANGED <<appsVars, searchVars, switcherVars, listVars>>
     \/ /\ part = "apps" /\ Apps!Next /\ FewWithViews /\ FewWithGone
        /\ UNCHANGED <<vars, searchVars, switcherVars, listVars>>
     \/ /\ part = "search" /\ Searches!Next /\ FewWithReload
        /\ UNCHANGED <<vars, appsVars, switcherVars, listVars>>
     \/ /\ part = "switcher" /\ Switch!Next
        /\ UNCHANGED <<vars, appsVars, searchVars, listVars>>
     \/ /\ part = "notes" /\ Lists!Next /\ NotesOnly
        /\ UNCHANGED <<vars, appsVars, searchVars, switcherVars>>
     \/ /\ part = "events" /\ Lists!Next /\ EventsOnly
        /\ UNCHANGED <<vars, appsVars, searchVars, switcherVars>>

mcVars == <<part, vars, appsVars, searchVars, switcherVars, listVars>>

(* Of the component that runs, what its specification is fair to.          *)
MCFairness ==
  /\ Fairness
  /\ WF_searchVars(part = "search" /\ Searches!_onSearchTimeout)
  /\ WF_searchVars(part = "search" /\ \E a \in asks, answer \in Searches!Answers : Searches!GotResults(a, answer))
  /\ WF_searchVars(part = "search" /\ \E m \in metas, valid \in BOOLEAN : Searches!GotMetas(m, valid))

MCSpec == MCInit /\ [][MCNext]_mcVars /\ MCFairness

(* The properties of the components.                                       *)
AppsSound == part = "apps" => Apps!AppDisplaySound
SearchSound == part = "search" => Searches!SearchSound
SwitcherSound == part = "switcher" => Switch!SwitcherSound
ListsSound == part \in {"notes", "events"} => Lists!ListSound
AllEnd == EndsAsAsked /\ Searches!SearchEnds

=============================================================================
