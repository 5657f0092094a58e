---------------------------- MODULE ExtensionSystem ----------------------------
(***************************************************************************)
(* Extensions of the shell (js/ui/extensionSystem.js): how they are        *)
(* loaded, enabled and disabled as the settings and the session mode       *)
(* change, and are reloaded, installed and uninstalled meanwhile           *)
(* (js/ui/extensionDownloader.js, js/ui/shellDBus.js).                     *)
(*                                                                         *)
(* An extension is code of others: its init, enable and disable may throw. *)
(* running is the effect of that code: what has been enabled and not yet   *)
(* disabled, in the order it was enabled.  A call that throws counts as    *)
(* one that leaves the extension off.                                      *)
(*                                                                         *)
(* Abstracted: lists of the settings are sets, taken in any order; the     *)
(* extensions of the session mode are part of the setting; an update that  *)
(* has been downloaded is a reload; only what is not installed is          *)
(* installed; all extensions are the user's.                               *)
(***************************************************************************)
EXTENDS Naturals, FiniteSets, Sequences, SequencesExt

CONSTANTS
  Ext,                \* uuids of extensions
  Faulty,             \* those that may fail
  ChangesWhileLocked, \* whether extensions are installed or reloaded while
                      \* the session mode does not allow extensions
  MaxOrder            \* bound on the length of extensionOrder

ConstantsAssumption ==
  /\ IsFiniteSet(Ext)
  /\ Faulty \subseteq Ext
  /\ ChangesWhileLocked \in BOOLEAN
  /\ MaxOrder \in Nat

VARIABLES
  state,              \* ExtensionState, or "none": not in ExtensionUtils.extensions
  loaded,             \* those that have a stateObj
  extensionOrder,
  enabledExtensions,
  running,            \* what the extensions have done and not undone
  threw,              \* whether one has thrown
  conflict,           \* whether one was disabled before a later one
  setting,            \* the enabled-extensions setting
  disk,               \* those that have a directory
  allowExtensions,    \* sessionMode.allowExtensions
  enabled, initted

extVars == <<state, loaded, extensionOrder, enabledExtensions, running, threw, conflict>>
vars == <<extVars, setting, disk, allowExtensions, enabled, initted>>

-----------------------------------------------------------------------------
(* The operations run one after the other within a callback: each takes    *)
(* the world w to another, where the extensions misbehave as b says, one   *)
(* of them in one way during one callback.                                 *)
Misbehaviour == {"init", "enable", "disable", "metadata", "version"}
Behaviours ==
  LET fine == [e \in Ext |-> "fine"]
  IN  {fine} \cup {[fine EXCEPT ![x] = m] : x \in Faulty, m \in Misbehaviour}

World ==
  [state |-> state, loaded |-> loaded, order |-> extensionOrder, listed |-> enabledExtensions,
   running |-> running, threw |-> threw, conflict |-> conflict]

Becomes(w) ==
  /\ state' = w.state
  /\ loaded' = w.loaded
  /\ extensionOrder' = w.order
  /\ enabledExtensions' = w.listed
  /\ running' = w.running
  /\ threw' = w.threw
  /\ conflict' = w.conflict

logExtensionError(w, e) ==
  [w EXCEPT !.state[e] = IF @ = "none" THEN @ ELSE "ERROR", !.threw = TRUE]

Stopped(w, e) ==
  IF ~Contains(w.running, e) THEN w
  ELSE [w EXCEPT !.running = SelectSeq(@, LAMBDA x : x # e),
                 !.conflict = @ \/ Last(w.running) # e]

Started(w, e) == IF Contains(w.running, e) THEN w ELSE [w EXCEPT !.running = Append(@, e)]

(* stateObj.disable() and stateObj.enable(), with the handler around them. *)
CallDisable(b, w, e) ==
  IF e \notin w.loaded THEN logExtensionError(w, e)
  ELSE IF b[e] = "disable" THEN logExtensionError(Stopped(w, e), e)
  ELSE Stopped(w, e)

CallEnable(b, w, e) ==
  IF e \notin w.loaded \/ b[e] = "enable" THEN logExtensionError(w, e) ELSE Started(w, e)

(* e is disabled between the disabling of those enabled later, the last    *)
(* first, and their enabling.                                              *)
Rebased(b, w, e, later) ==
  LET off == FoldLeft(LAMBDA v, x : CallDisable(b, v, x), w, Reverse(later))
  IN  FoldLeft(LAMBDA v, x : CallEnable(b, v, x), CallDisable(b, off, e), later)

disableExtension(b, w, e) ==
  IF w.state[e] # "ENABLED" THEN w
  ELSE LET i == CHOOSE i \in DOMAIN w.order : w.order[i] = e /\ \A j \in 1..(i-1) : w.order[j] # e
           v == Rebased(b, w, e, SubSeq(w.order, i + 1, Len(w.order)))
       IN  [v EXCEPT !.order = RemoveAt(@, i),
                     !.state[e] = IF @ = "ERROR" THEN @ ELSE "DISABLED"]

initExtension(b, w, e) ==
  IF b[e] = "init" THEN logExtensionError(w, e)
  ELSE [w EXCEPT !.state[e] = "DISABLED", !.loaded = @ \cup {e}]

Ordered(w, e) == [w EXCEPT !.order = Append(@, e)]

enableExtension(b, w, e) ==
  LET v == IF w.state[e] = "INITIALIZED" THEN initExtension(b, w, e) ELSE w
      u == CallEnable(b, Ordered(v, e), e)
  IN  IF v.state[e] # "DISABLED" THEN v
      ELSE IF u.state[e] = "ERROR" THEN u ELSE [u EXCEPT !.state[e] = "ENABLED"]

loadExtension(b, w, e) ==
  IF b[e] = "version" THEN [w EXCEPT !.state[e] = "OUT_OF_DATE"]
  ELSE IF e \notin w.listed THEN [w EXCEPT !.state[e] = "INITIALIZED"]
  ELSE enableExtension(b, initExtension(b, [w EXCEPT !.state[e] = "ERROR"], e), e)

unloadExtension(b, w, e) ==
  [disableExtension(b, w, e) EXCEPT !.state[e] = "none", !.loaded = @ \ {e}]

reloadExtension(b, w, e) ==
  LET v == unloadExtension(b, w, e)
  IN  IF b[e] = "metadata" THEN v ELSE loadExtension(b, v, e)

(* What a loop over a list of extensions does.                             *)
LoadEach(b, w, list) == FoldLeft(LAMBDA v, e : loadExtension(b, v, e), w, list)
EnableEach(b, w, list) == FoldLeft(LAMBDA v, e : enableExtension(b, v, e), w, list)
DisableEach(b, w, list) == FoldLeft(LAMBDA v, e : disableExtension(b, v, e), w, list)
ReloadEach(b, w, list) == FoldLeft(LAMBDA v, e : reloadExtension(b, v, e), w, list)

-----------------------------------------------------------------------------
Init ==
  /\ state = [e \in Ext |-> "none"]
  /\ loaded = {}
  /\ extensionOrder = <<>>
  /\ enabledExtensions = {}
  /\ running = <<>>
  /\ threw = FALSE /\ conflict = FALSE
  /\ setting \in SUBSET Ext
  /\ disk \in SUBSET Ext
  /\ allowExtensions = FALSE
  /\ enabled = FALSE /\ initted = FALSE

(* Mutant of Listed: the setting is only read when extensions are loaded.  *)
ListedFirst == IF initted THEN enabledExtensions ELSE setting

(* What _sessionUpdated takes for the list: what the setting is then.      *)
Listed == setting

(* _sessionUpdated: the mode allows extensions.  The first time they are   *)
(* loaded, then those of the setting are enabled.                          *)
Allow ==
  /\ allowExtensions' = TRUE
  /\ LET start == [World EXCEPT !.listed = Listed]
     IN  IF enabled THEN Becomes(start)
         ELSE \E b \in Behaviours, list \in SetToSeqs(IF initted THEN Listed ELSE disk) :
                Becomes(IF initted THEN EnableEach(b, start, list) ELSE LoadEach(b, start, list))
  /\ enabled' = TRUE /\ initted' = TRUE
  /\ UNCHANGED <<setting, disk>>

InReverse(order) == Reverse(order)

(* _sessionUpdated: it does not.                                           *)
Disallow ==
  /\ initted
  /\ allowExtensions' = FALSE
  /\ \E b \in Behaviours :
       IF ~enabled THEN UNCHANGED extVars
       ELSE Becomes(FoldLeft(LAMBDA w, e : disableExtension(b, w, e), World, InReverse(extensionOrder)))
  /\ enabled' = FALSE
  /\ UNCHANGED <<setting, disk, initted>>

(* onEnabledExtensionsChanged: the new ones are enabled, then the ones     *)
(* that are no longer there disabled.                                      *)
ChangeSetting(new) ==
  /\ new # setting /\ setting' = new
  /\ IF ~enabled THEN UNCHANGED extVars
     ELSE \E b \in Behaviours, come \in SetToSeqs(new \ enabledExtensions),
             go \in SetToSeqs(enabledExtensions \ new) :
            Becomes([DisableEach(b, EnableEach(b, World, come), go) EXCEPT !.listed = new])
  /\ UNCHANGED <<disk, allowExtensions, enabled, initted>>

(* _onVersionValidationChanged: all are reloaded, but not enabled, and     *)
(* then enabled if that is allowed.                                        *)
ReloadAll ==
  /\ initted
  /\ \E b \in Behaviours, known \in SetToSeqs({e \in Ext : state[e] # "none"}),
        list \in SetToSeqs(IF allowExtensions THEN setting ELSE {}) :
       LET v == ReloadEach(b, [World EXCEPT !.listed = {}], known)
       IN  Becomes(EnableEach(b, [v EXCEPT !.listed = setting], list))
  /\ Len(extensionOrder') <= MaxOrder
  /\ UNCHANGED <<setting, disk, allowExtensions, enabled, initted>>

MayChange == initted /\ (allowExtensions \/ ChangesWhileLocked)

(* ReloadExtension over D-Bus, or an update that has been unpacked.        *)
Reload(e) ==
  /\ MayChange
  /\ state[e] # "none"
  /\ \E b \in Behaviours : Becomes(reloadExtension(b, World, e))
  /\ Len(extensionOrder') <= MaxOrder
  /\ UNCHANGED <<setting, disk, allowExtensions, enabled, initted>>

(* uninstallExtension, from D-Bus or a blacklist.                          *)
Uninstall(e) ==
  /\ MayChange
  /\ state[e] # "none"
  /\ \E b \in Behaviours : Becomes(unloadExtension(b, World, e))
  /\ disk' = disk \ {e}
  /\ UNCHANGED <<setting, allowExtensions, enabled, initted>>

(* A new extension has been unpacked: it is added to the setting, whose    *)
(* handler finds nothing to enable yet, and loaded.                        *)
Install(e) ==
  /\ MayChange
  /\ e \notin disk
  /\ setting' = setting \cup {e}
  /\ disk' = disk \cup {e}
  /\ LET w == [World EXCEPT !.listed = IF enabled THEN setting \cup {e} ELSE @]
     IN  \E b \in Behaviours :
           Becomes(IF b[e] = "metadata" THEN w ELSE loadExtension(b, w, e))
  /\ Len(extensionOrder') <= MaxOrder
  /\ UNCHANGED <<allowExtensions, enabled, initted>>

Next ==
  \/ Allow \/ Disallow \/ ReloadAll
  \/ \E new \in SUBSET Ext : ChangeSetting(new)
  \/ \E e \in Ext : Reload(e) \/ Uninstall(e) \/ Install(e)

Spec == Init /\ [][Next]_vars

-----------------------------------------------------------------------------
States == {"none", "INITIALIZED", "DISABLED", "ENABLED", "ERROR", "OUT_OF_DATE"}

TypeOK ==
  /\ state \in [Ext -> States]
  /\ loaded \in SUBSET Ext
  /\ extensionOrder \in Seq(Ext)
  /\ enabledExtensions \in SUBSET Ext
  /\ running \in Seq(Ext)
  /\ {threw, conflict, allowExtensions, enabled, initted} \subseteq BOOLEAN
  /\ setting \in SUBSET Ext
  /\ disk \in SUBSET Ext

(* An extension that is called enabled has been enabled, is not disabled   *)
(* since, and is in the order, whatever others have thrown and however     *)
(* often a rebase has turned it off and on.                                *)
EnabledRuns ==
  \A e \in Ext : state[e] = "ENABLED" => Contains(running, e) /\ Contains(extensionOrder, e)

(* While the session is locked no extension is called enabled.             *)
NoneEnabledWhenLocked ==
  ~allowExtensions => \A e \in Ext : state[e] # "ENABLED"

(* While extensions are allowed the setting is followed, whenever it was   *)
(* changed: what it lists is enabled, unless it cannot be, and nothing     *)
(* else is.                                                                *)
SettingFollowed ==
  allowExtensions => \A e \in Ext :
    /\ e \in setting => state[e] \notin {"INITIALIZED", "DISABLED"}
    /\ state[e] = "ENABLED" => e \in setting

(* As long as none throws: the order is that in which they were enabled    *)
(* and are running, and each disable() undoes the latest enable() that is  *)
(* not undone, so that no extension is disabled under a later one.         *)
LastEnabledFirstDisabled ==
  ~threw => /\ ~conflict
            /\ running = extensionOrder
            /\ \A e \in Ext : Contains(running, e) <=> state[e] = "ENABLED"

(* Extensions are enabled only when the session mode allows it, as the     *)
(* comment in _onVersionValidationChanged says (extensionSystem.js).       *)
OffWhenLocked == ~allowExtensions => running = <<>>

(* What is enabled is what the setting and the session mode say, and it    *)
(* runs.                                                                   *)
EnabledAsAllowed == TypeOK /\ EnabledRuns /\ NoneEnabledWhenLocked /\ SettingFollowed

=============================================================================
