---------------------------- MODULE InputSources ----------------------------
(***************************************************************************)
(* The input sources (InputSourceManager and its indicator in              *)
(* js/ui/status/keyboard.js), the keymap that follows them                 *)
(* (js/misc/keyboardManager.js) and the input methods of IBus that some of *)
(* them are (js/misc/ibusManager.js).                                      *)
(*                                                                         *)
(* The sources are made anew when the setting changes, when IBus is ready  *)
(* or has gone, and when a password is typed, for which the input methods  *)
(* are put away.  Who keeps one of the former sources, a popup or a window *)
(* with a source of its own, can still activate it.  While IBus changes    *)
(* its engine the keyboard is frozen.                                      *)
(*                                                                         *)
(* IBus has its engines all at once; what is asked of a connection is not  *)
(* answered once that has gone.  In the greeter the sources are those of   *)
(* the system and no order of them is kept.                                *)
(*                                                                         *)
(* Abstracted: names and labels; the properties of an engine, but for that *)
(* it has some; the options of the keyboard; the preloading of engines.    *)
(***************************************************************************)
EXTENDS Naturals, FiniteSets, Sequences, SequencesExt

CONSTANTS
  Xkb, Engine,  \* the sources: layouts of the keyboard, engines of IBus
  LayoutOf,     \* the layout that each needs, its xkbId
  Known,        \* the layouts that the keyboard knows
  DEFAULT_LAYOUT,
  Lists,        \* what the setting may be
  PerGroup,     \* MAX_LAYOUTS_PER_GROUP - 1
  Window, None,
  MaxRequests   \* bound on the engines that IBus is asked for at once

Source == Xkb \cup Engine
IsOrder(s) == s \in Seq(Source) /\ IsInjective(s)

InputSourcesAssumption ==
  /\ Xkb \cap Engine = {} /\ None \notin Source \cup Window
  /\ DEFAULT_LAYOUT \in Xkb /\ \A s \in Lists : IsOrder(s)
  /\ LayoutOf \in [Source -> STRING] /\ {LayoutOf[x] : x \in Xkb} \subseteq Known
  /\ PerGroup \in Nat \ {0} /\ MaxRequests \in Nat \ {0} /\ "overview" \notin Window

VARIABLES
  settings,   \* the sources, and their order in mru-sources; none in the greeter
  ibus,       \* IBusManager, with what it waits for
  manager,    \* InputSourceManager
  keyboard,   \* KeyboardManager, and the keymap of the backend
  own,        \* what windows and the overview keep, with per-window
  focus,      \* the window that has it, and whether the overview is visible
  indicator,  \* the items made so far, those with a dot, and whether it shows
  popup,      \* the sources that the popup was opened with
  frozen, requests

vars == <<settings, ibus, manager, keyboard, own, focus, indicator, popup, frozen, requests>>

-----------------------------------------------------------------------------
(* An InputSource: old when it is one of a former list, which keeps the    *)
(* properties that it had then.                                            *)
Object == [id : Source, index : 1..Cardinality(Source), old : BOOLEAN, props : BOOLEAN]

World == [s |-> settings, ibus |-> ibus, m |-> manager, k |-> keyboard, own |-> own,
          i |-> indicator, focus |-> focus, popup |-> popup, frozen |-> frozen,
          requests |-> requests]

Becomes(w) ==
  /\ w.requests <= MaxRequests
  /\ settings' = w.s /\ ibus' = w.ibus /\ manager' = w.m /\ keyboard' = w.k /\ own' = w.own
  /\ indicator' = w.i /\ focus' = w.focus /\ popup' = w.popup
  /\ frozen' = w.frozen /\ requests' = w.requests

IndexIn(s, x) == CHOOSE i \in DOMAIN s : s[i] = x
New(m, id) == [id |-> id, index |-> IndexIn(m.sources, id), old |-> FALSE, props |-> FALSE]
HasProps(m, o) == IF o.old THEN o.props ELSE o.id \in m.described
Former(m, o) == IF o = None THEN None ELSE [o EXCEPT !.old = TRUE, !.props = HasProps(m, o)]

(* KeyboardManager.setUserLayouts: the layouts, which come in groups.      *)
setUserLayouts(k, sources) ==
  LET Add(s, x) == IF LayoutOf[x] \in Known \ ToSet(s) THEN Append(s, LayoutOf[x]) ELSE s
  IN  [k EXCEPT !.infos = FoldLeft(Add, <<>>, sources), !.current = 0]

GroupOf(pos) == (pos - 1) \div PerGroup
Group(infos, g) ==
  SubSeq(infos, g * PerGroup + 1,
         IF (g + 1) * PerGroup < Len(infos) THEN (g + 1) * PerGroup ELSE Len(infos))

(* KeyboardManager.apply                                                   *)
apply(k, layout) ==
  IF layout \notin ToSet(k.infos) THEN k
  ELSE LET pos == IndexIn(k.infos, layout)
           same == k.current # 0 /\ GroupOf(k.current) = GroupOf(pos)
       IN  [k EXCEPT !.current = pos, !.locked = (pos - 1) % PerGroup,
                     !.keymap = IF same THEN @ ELSE Group(k.infos, GroupOf(pos))]

(* The indicator: its items are made anew; those beyond are destroyed, but *)
(* not forgotten.                                                          *)
_sourcesChanged(w) ==
  LET n == Len(w.m.sources)
  IN  [w EXCEPT !.i.dots = {d \in @ : d > n}, !.i.made = IF n > @ THEN n ELSE @]

_currentSourceChanged(w, old) ==
  LET new == w.m.current
      without == IF old = None THEN w.i.dots ELSE w.i.dots \ {old.index}
      shows == Len(w.m.sources) >= 2 \/ HasProps(w.m, new)
  IN  [w EXCEPT !.i.visible = shows,
                !.i.dots = IF shows THEN without \cup {new.index} ELSE without]

-----------------------------------------------------------------------------
_getCurrentWindow(w) == IF w.focus.overview THEN "overview" ELSE w.focus.window

_changePerWindowSource(w) ==
  LET p == _getCurrentWindow(w)
  IN  IF ~w.m.perWindow \/ p = None THEN w
      ELSE [w EXCEPT !.own[p] = [known |-> TRUE, source |-> w.m.current]]

_currentInputSourceChanged(w, o) ==
  LET changed == _currentSourceChanged([w EXCEPT !.m.current = o], w.m.current)
      first == IF o.old THEN changed
               ELSE [changed EXCEPT !.m.mru = <<o.id>> \o SelectSeq(@, LAMBDA x : x # o.id)]
  IN  _changePerWindowSource(first)

(* The setting is left alone unless all sources are there.                 *)
_updateMruSettings(w) ==
  IF ~w.m.ibusReady \/ w.m.disabled \/ w.s.greeter THEN w ELSE [w EXCEPT !.s.mru = w.m.mru]

(* Mutant of setEngine: nothing calls back when IBus is not ready.         *)
SetsEngineSilently(w) == IF w.ibus.ready THEN [w EXCEPT !.requests = @ + 1] ELSE w

(* IBusManager.setEngine: it calls back at once when IBus is not ready.    *)
setEngine(w) ==
  IF w.ibus.ready THEN [w EXCEPT !.requests = @ + 1] ELSE [w EXCEPT !.frozen = FALSE]

_activateInputSource(w, o, interactive) ==
  LET held == setEngine([w EXCEPT !.frozen = TRUE, !.k = apply(@, LayoutOf[o.id])])
      changed == _currentInputSourceChanged(held, o)
  IN  IF interactive THEN _updateMruSettings(changed) ELSE changed

(* The order is that of the backup, or as it was, or that of the setting;  *)
(* new sources come last.                                                  *)
_updateMruSources(w) ==
  LET restored == ~w.m.disabled /\ w.m.backup # None
      mru == IF restored THEN w.m.backup ELSE w.m.mru
      There(x) == x \in ToSet(w.m.sources)
      kept == SelectSeq(IF mru = <<>> THEN w.s.mru ELSE mru, There)
      Rest(x) == x \notin ToSet(kept)
  IN  [w EXCEPT !.k = setUserLayouts(@, w.m.sources),
                !.m.backup = IF restored THEN None ELSE @,
                !.m.mru = kept \o SelectSeq(w.m.sources, Rest)]

(* The sources of the setting that there are; never none.                  *)
Valid(w) ==
  LET Exists(x) == x \in Xkb \/ (~w.m.disabled /\ w.ibus.ready /\ x \in w.ibus.engines)
      valid == SelectSeq(w.s.sources, Exists)
  IN  IF valid = <<>> THEN <<DEFAULT_LAYOUT>> ELSE valid

Aged(w) ==
  [w EXCEPT !.m.current = Former(w.m, @),
            !.popup = [j \in DOMAIN @ |-> Former(w.m, @[j])],
            !.own = [p \in DOMAIN @ |-> [known |-> FALSE, source |-> Former(w.m, @[p].source)]]]

_inputSourcesChanged(w) ==
  LET made == [Aged(w) EXCEPT !.m.sources = Valid(w), !.m.described = {}]
      ordered == _updateMruSources(_sourcesChanged(made))
  IN  _activateInputSource(ordered, New(ordered.m, Head(ordered.m.mru)), FALSE)

-----------------------------------------------------------------------------
(* IBusManager: it tells the manager of sources whether it is ready.       *)
Told(i) ==
  LET w == [World EXCEPT !.ibus = i]
  IN  Becomes(IF i.ready = manager.ibusReady THEN w
              ELSE _inputSourcesChanged([w EXCEPT !.m.ibusReady = i.ready, !.m.mru = <<>>]))
    
_clear(i) ==
  [i EXCEPT !.panel = FALSE, !.listed = FALSE, !.engines = {}, !.ready = FALSE, !.engine = None,
            !.registering = FALSE]
_updateReadiness(i) == [i EXCEPT !.ready = i.listed /\ i.panel]

_onConnected ==
  /\ ~ibus.connected
  /\ Told([ibus EXCEPT !.connected = TRUE, !.listing = TRUE, !.naming = TRUE])

Disconnected ==
  /\ ibus.connected
  /\ Told(_clear([ibus EXCEPT !.connected = FALSE, !.listing = FALSE, !.naming = FALSE,
                              !.asking = FALSE]))

_initEngines(ok) ==
  /\ ibus.listing
  /\ LET i == [ibus EXCEPT !.listing = FALSE]
     IN  IF ok THEN \E engines \in SUBSET Engine :
                      Told(_updateReadiness([i EXCEPT !.listed = TRUE, !.engines = engines]))
         ELSE Told(_clear(i))

_initPanelService(ok) ==
  /\ ibus.naming
  /\ LET i == [ibus EXCEPT !.naming = FALSE]
     IN  Told(IF ok THEN _updateReadiness([i EXCEPT !.panel = TRUE, !.asking = TRUE]) ELSE _clear(i))

(* IBus tells its engine, by itself or because it was asked; the           *)
(* properties of the engine come with the next signal.                     *)
_engineChanged(e, asked) ==
  /\ ibus.connected /\ (asked => ibus.asking)
  /\ LET i == IF asked THEN [ibus EXCEPT !.asking = FALSE] ELSE ibus
     IN  Told(IF i.ready THEN [i EXCEPT !.engine = e, !.registering = TRUE] ELSE i)

_ibusPropertiesRegistered ==
  LET e == ibus.engine
      w == [World EXCEPT !.ibus.registering = FALSE]
      described == [w EXCEPT !.m.described = @ \cup {e}]
  IN  /\ ibus.registering
      /\ Becomes(IF e \notin ToSet(manager.sources) THEN w
                 ELSE IF manager.current = New(manager, e)
                   THEN _currentSourceChanged(described, None) ELSE described)
    
(* IBus has changed its engine, failed to, or took too long.               *)
releaseKeyboard ==
  /\ requests > 0
  /\ Becomes([World EXCEPT !.requests = @ - 1, !.frozen = FALSE])

(* What takes the input is a password, or is none.                         *)
_ibusSetContentType(password) ==
  /\ ibus.panel /\ password # manager.disabled
  /\ password => ~(ToSet(manager.sources) \subseteq Engine)
  /\ Becomes(_inputSourcesChanged(
               [World EXCEPT !.m.disabled = password,
                             !.m.backup = IF password THEN manager.mru ELSE @]))

-----------------------------------------------------------------------------
(* The setting; in the greeter that of the system, when it was asked for.  *)
SettingChanges(list) ==
  /\ list # settings.sources
  /\ Becomes(_inputSourcesChanged([World EXCEPT !.s.sources = list]))

(* The next source: by modifiers, or by the key when a menu is open.       *)
_modifiersSwitcher ==
  LET m == manager
      next == IF m.current.index + 1 > Len(m.sources) THEN 1 ELSE m.current.index + 1
  IN  Becomes(_activateInputSource(World, New(m, m.sources[next]), TRUE))
    
(* An item of the menu of the indicator.                                   *)
ItemActivated(i) ==
  /\ indicator.visible /\ i \in DOMAIN manager.sources
  /\ Becomes(_activateInputSource(World, New(manager, manager.sources[i]), TRUE))

_switchInputSource ==
  /\ popup = <<>> /\ Len(manager.mru) >= 2
  /\ Becomes([World EXCEPT !.popup = [j \in DOMAIN manager.mru |-> New(manager, manager.mru[j])]])

(* InputSourcePopup._finish, or it is dismissed.                           *)
_finish(j) ==
  /\ j \in DOMAIN popup
  /\ Becomes(_activateInputSource([World EXCEPT !.popup = <<>>], popup[j], TRUE))

PopupGoes ==
  /\ popup # <<>>
  /\ Becomes([World EXCEPT !.popup = <<>>])

-----------------------------------------------------------------------------
_getNewInputSource(m, o) ==
  New(m, IF o # None /\ o.id \in ToSet(m.sources) THEN o.id ELSE Head(m.sources))

(* Whose turn it is gets its own source, if that is still there.           *)
_setPerWindowInputSource(w) ==
  LET p == _getCurrentWindow(w)
      source == IF w.own[p].known THEN w.own[p].source ELSE _getNewInputSource(w.m, w.own[p].source)
  IN  IF ~w.m.perWindow \/ p = None THEN w
      ELSE _activateInputSource([w EXCEPT !.own[p] = [known |-> TRUE, source |-> source]], source,
                                FALSE)

FocusMoves(at) ==
  /\ at # focus
  /\ Becomes(_setPerWindowInputSource([World EXCEPT !.focus = at]))

Nothing == [known |-> FALSE, source |-> None]

_sourcesPerWindowChanged ==
  /\ ~settings.greeter
  /\ Becomes([World EXCEPT !.m.perWindow = ~@,
                           !.own = IF manager.perWindow THEN [p \in DOMAIN own |-> Nothing] ELSE @])

-----------------------------------------------------------------------------
(* The indicator is made and the sources are loaded, with no IBus yet.     *)
NoIBus ==
  [connected |-> FALSE, listing |-> FALSE, naming |-> FALSE, asking |-> FALSE, listed |-> FALSE,
   engines |-> {}, panel |-> FALSE, ready |-> FALSE, engine |-> None, registering |-> FALSE]
Blank ==
  [s |-> [sources |-> <<>>, mru |-> <<>>, greeter |-> FALSE], ibus |-> NoIBus,
   m |-> [sources |-> <<>>, current |-> None, mru |-> <<>>, backup |-> None, ibusReady |-> FALSE,
          disabled |-> FALSE, described |-> {}, perWindow |-> FALSE],
   k |-> [infos |-> <<>>, current |-> 0, keymap |-> <<>>, locked |-> 0],
   own |-> [p \in Window \cup {"overview"} |-> Nothing],
   i |-> [made |-> 0, dots |-> {}, visible |-> TRUE],
   focus |-> [window |-> None, overview |-> FALSE], popup |-> <<>>, frozen |-> FALSE,
   requests |-> 0]

Init ==
  \E list \in Lists, greeter \in BOOLEAN :
    LET w == _inputSourcesChanged(
               [Blank EXCEPT !.s.sources = list, !.s.mru = IF greeter THEN <<>> ELSE list,
                             !.s.greeter = greeter])
    IN  /\ settings = w.s /\ ibus = w.ibus /\ manager = w.m /\ keyboard = w.k /\ own = w.own
        /\ indicator = w.i /\ focus = w.focus /\ popup = w.popup
        /\ frozen = w.frozen /\ requests = w.requests

Next ==
  \/ _onConnected \/ Disconnected \/ _ibusPropertiesRegistered \/ releaseKeyboard
  \/ \E ok \in BOOLEAN : \/ _initEngines(ok) \/ _initPanelService(ok)
                         \/ _ibusSetContentType(ok)
                         \/ \E e \in Engine : _engineChanged(e, ok)
  \/ \E list \in Lists : SettingChanges(list)
  \/ _modifiersSwitcher \/ _switchInputSource \/ PopupGoes \/ _sourcesPerWindowChanged
  \/ \E j \in 1..Cardinality(Source) : ItemActivated(j) \/ _finish(j)
  \/ \E at \in [window : Window \cup {None}, overview : BOOLEAN] : FocusMoves(at)

Spec == Init /\ [][Next]_vars

-----------------------------------------------------------------------------
Chosen == Object \cup {None}

TypeOK ==
  /\ settings.sources \in Lists /\ IsOrder(settings.mru)
  /\ IsOrder(manager.sources) /\ IsOrder(manager.mru)
  /\ manager.backup = None \/ IsOrder(manager.backup)
  /\ manager.current \in Object /\ manager.described \subseteq ToSet(manager.sources)
  /\ \A p \in DOMAIN own : own[p].source \in Chosen /\ (own[p].known => own[p].source # None)
  /\ \A j \in DOMAIN popup : popup[j] \in Object
  /\ requests \in 0..MaxRequests /\ indicator.dots \subseteq 1..indicator.made

(* The sources are those of the setting that can be used now, in its       *)
(* order, and the manager knows whether IBus is ready.                     *)
SourcesFollow == manager.ibusReady = ibus.ready /\ manager.sources = Valid(World)

(* The most recently used are the sources, each once; the backup is there  *)
(* while the input methods are put away.                                   *)
OrderIsComplete ==
  /\ ToSet(manager.mru) = ToSet(manager.sources) /\ IsInjective(manager.mru)
  /\ manager.backup # None <=> manager.disabled

(* Unless one of a former list was chosen: the current source is the first *)
(* of that order, the keys type its layout, the indicator has its dot at   *)
(* it, and the window whose turn it is has it as its own.                  *)
CurrentIsUsed ==
  LET m == manager
      p == _getCurrentWindow(World)
  IN  ~m.current.old =>
        /\ m.mru[1] = m.current.id /\ m.sources[m.current.index] = m.current.id
        /\ LayoutOf[m.current.id] \in Known =>
             keyboard.keymap[keyboard.locked + 1] = LayoutOf[m.current.id]
        /\ indicator.visible => indicator.dots \cap DOMAIN m.sources = {m.current.index}
        /\ m.perWindow /\ p # None /\ own[p].known => own[p].source = m.current

(* The keyboard is frozen only while IBus is asked for an engine: the      *)
(* answer, or the timeout of the call, gives the keys back.                *)
FrozenIsAsked == frozen => requests > 0

InputSourcesSound == TypeOK /\ SourcesFollow /\ OrderIsComplete /\ CurrentIsUsed /\ FrozenIsAsked

(* These say more, and do not hold: the popup may finish with a source of  *)
(* a former list, a window may keep one, the indicator marks items that it *)
(* has destroyed, and a failure while IBus is connected leaves it unused.  *)
CurrentIsListed == ~manager.current.old
MarksLiveItems  == indicator.dots \subseteq DOMAIN manager.sources
ReadyInTheEnd   == ibus.connected /\ ~ibus.listing /\ ~ibus.naming => ibus.ready

=============================================================================
