------------------------------- MODULE Network -------------------------------
(***************************************************************************)
(* The network menu (js/ui/status/network.js): NMApplet and the sections   *)
(* of devices and VPNs with an item for each connection; the login to a    *)
(* captive portal by the portal helper; and the wireless device with the   *)
(* dialog that lists access points by network.                             *)
(*                                                                         *)
(* NetworkManager announces profiles, devices, active connections and      *)
(* access points in any order.  An active connection is named by its       *)
(* profile.  A handler that throws leaves what it did so far.              *)
(*                                                                         *)
(* Abstracted: texts and icons; what orders items by names and signal      *)
(* strengths, so that a network takes any place; a network is what         *)
(* _networkCompare tells apart.  The wireless device is one.               *)
(***************************************************************************)
EXTENDS Naturals, FiniteSets, Sequences, SequencesExt

CONSTANTS
  Device,      \* the wired devices and modems
  Connection,  \* the profiles of connections
  Vpn,         \* those of VPNs
  AP,          \* the access points
  Hidden,      \* those whose ssid is not known at first
  NetworkOf,   \* [AP -> a network]
  MaxDialogs,  \* bound on the dialogs that are opened
  None

NetworkAssumption ==
  /\ Vpn \subseteq Connection /\ Hidden \subseteq AP /\ MaxDialogs \in Nat
  /\ None \notin Device \cup Connection \cup AP \cup {NetworkOf[a] : a \in AP}

VARIABLES
  nm,        \* what NetworkManager has said so far, see World
  got,       \* which of the two objects of _init have come
  wrappers,  \* of each device that was added: the items, see Sections
  vpn,       \* the NMVPNSection: its items and those that show a connection
  applet,    \* the fields of NMApplet, see Applets
  portal,    \* the connectivity queue and the portal helper, see Portals
  range,     \* the access points in range, those with a ssid, the active one
  dialogs,   \* the NMWirelessDialogs that were made
  _dialog,   \* the one NMDeviceWireless knows, or 0
  allowed    \* allowSettings of the session mode

appletVars == <<nm, got, wrappers, vpn, applet, portal>>
wirelessVars == <<range, dialogs, _dialog, allowed>>
vars == <<appletVars, wirelessVars>>

World ==
  [profiles : SUBSET Connection, fits : SUBSET Connection, devices : SUBSET Device,
   active : [Device -> Connection \cup {None}], \* MMDevice.active_connection
   vpns : SUBSET Vpn, activated : SUBSET Connection, main : Connection \cup {None},
   isPortal : BOOLEAN]
Sections ==
  [items : SUBSET Connection,      \* _connectionItems
   shown : SUBSET Connection,      \* items with an active connection
   active : Connection \cup {None}] \* _activeConnection
NoSection == [items |-> {}, shown |-> {}, active |-> None]
Applets ==
  [connections : SUBSET Connection, \* _connections
   main : Connection \cup {None},   \* _mainConnection
   props : SUBSET Connection,       \* active connections whose _connection is set
   notification : {"none", "shown", "gone"}]
Portals ==
  [queue : SUBSET Connection,    \* _connectivityQueue
   making : [Connection -> 0..2], \* proxies that are being made, by path; 2 is many
   proxy : BOOLEAN,              \* _portalHelperProxy
   logins : SUBSET Connection,   \* what the helper was asked and shows
   checks : SUBSET Connection,   \* check_connectivity_async is under way
   late : SUBSET Connection]     \* asked when no more in the queue

Started == got = {"client", "settings"}
Added == {d \in Device : wrappers[d] # None}

-----------------------------------------------------------------------------
(* Items of the sections.                                                  *)

checkConnection(section, c) ==
  IF c \in nm.fits THEN [section EXCEPT !.items = @ \cup {c}] ELSE section
removeConnection(section, c) ==
  [section EXCEPT !.items = @ \ {c}, !.shown = @ \ {c}]

(* NMConnectionDevice._activeConnectionChanged: the item of the connection *)
(* that was active must be there, else it throws at once.                  *)
_activeConnectionChanged(section, c, props) ==
  IF section.active # None /\ section.active \notin section.items \cap props
    THEN section
    ELSE [section EXCEPT !.active = c, !.shown = {c} \cap section.items]

(* NMVPNSection.setActiveConnections stops at the first that has no item.  *)
SetActiveConnections(section, actives) ==
  IF actives \subseteq section.items
    THEN {[section EXCEPT !.shown = actives]}
    ELSE {[section EXCEPT !.shown = s] : s \in SUBSET (actives \cap section.items)}

-----------------------------------------------------------------------------
(* The login to a captive portal.                                          *)

(* Mutant of _flushConnectivityQueue: the helper is not told.              *)
FlushOnly(p) == [p EXCEPT !.queue = {}]

_flushConnectivityQueue(p) ==
  [p EXCEPT !.queue = {}, !.logins = IF p.proxy THEN @ \ p.queue ELSE @]
_closeConnectivityCheck(p, c) ==
  IF c \notin p.queue THEN p
  ELSE [p EXCEPT !.queue = @ \ {c}, !.logins = IF p.proxy THEN @ \ {c} ELSE @]

Ask(p, c) ==
  IF p.proxy
    THEN [p EXCEPT !.queue = @ \cup {c}, !.logins = @ \cup {c}, !.late = @ \ {c}]
    ELSE [p EXCEPT !.queue = @ \cup {c}, !.making[c] = IF @ = 0 THEN 1 ELSE 2]
_syncConnectivity(p, main, world) ==
  IF main = None \/ main \notin world.activated THEN _flushConnectivityQueue(p)
  ELSE IF ~world.isPortal \/ main \in p.queue THEN p
  ELSE Ask(p, main)

(* NMApplet._syncMainConnection, with _mainConnectionStateChanged.         *)
_mainConnectionStateChanged(a, world) ==
  IF a.main \in world.activated /\ a.notification = "shown"
    THEN [a EXCEPT !.notification = "gone"] ELSE a
_syncMainConnection(a, world) ==
  LET b == [a EXCEPT !.main = world.main,
                     !.props = @ \cup ({world.main} \cap world.profiles)]
  IN  _mainConnectionStateChanged(b, world)

-----------------------------------------------------------------------------
(* What NetworkManager announces, and the handlers once there are both     *)
(* objects.                                                                *)

NoApplet == [connections |-> {}, main |-> None, props |-> {}, notification |-> "none"]
NoPortal ==
  [queue |-> {}, making |-> [c \in Connection |-> 0], proxy |-> FALSE, logins |-> {},
   checks |-> {}, late |-> {}]

Told(world, w, v, a, p) ==
  /\ nm' = world
  /\ IF Started THEN wrappers' = w /\ vpn' = v /\ applet' = a /\ portal' = p
                ELSE UNCHANGED <<wrappers, vpn, applet, portal>>
  /\ UNCHANGED <<got, wirelessVars>>

(* A profile is known, fits its devices from now on, or is removed.  A     *)
(* profile that no longer fits keeps its items.                            *)
NewConnection(c) ==
  /\ c \notin nm.profiles
  /\ LET world == [nm EXCEPT !.profiles = @ \cup {c}]
     IN  Told(world,
              [d \in Device |-> IF d \in Added /\ c \notin Vpn
                                  THEN checkConnection(wrappers[d], c) ELSE wrappers[d]],
              IF c \in Vpn THEN [vpn EXCEPT !.items = @ \cup {c}] ELSE vpn,
              [applet EXCEPT !.connections = @ \cup {c}], portal)

Updated(c) ==
  /\ c \in nm.profiles \ Vpn
  /\ nm' = [nm EXCEPT !.fits = IF c \in @ THEN @ \ {c} ELSE @ \cup {c}]
  /\ wrappers' = [d \in Device |-> IF d \in Added /\ c \in nm'.fits
                                     THEN [wrappers[d] EXCEPT !.items = @ \cup {c}]
                                     ELSE wrappers[d]]
  /\ UNCHANGED <<got, vpn, applet, portal, wirelessVars>>

_connectionRemoved(c) ==
  /\ c \in nm.profiles
  /\ Told([nm EXCEPT !.profiles = @ \ {c}],
          [d \in Device |-> IF d \in Added /\ c \notin Vpn
                              THEN removeConnection(wrappers[d], c) ELSE wrappers[d]],
          IF c \in Vpn THEN removeConnection(vpn, c) ELSE vpn,
          [applet EXCEPT !.connections = @ \ {c}], portal)

Wrapper(known) == [NoSection EXCEPT !.items = (known \ Vpn) \cap nm.fits]

_deviceAdded(d) ==
  /\ d \notin nm.devices
  /\ Told([nm EXCEPT !.devices = @ \cup {d}],
          [wrappers EXCEPT ![d] = Wrapper(applet.connections)], vpn, applet, portal)

_deviceRemoved(d) ==
  /\ d \in nm.devices /\ nm.active[d] = None
  /\ Told([nm EXCEPT !.devices = @ \ {d}], [wrappers EXCEPT ![d] = None], vpn, applet, portal)

(* A device gets or loses its active connection, whose profile need not be *)
(* known yet or any more.                                                  *)
DeviceActivates(d, c) ==
  /\ d \in nm.devices /\ c # nm.active[d]
  /\ c = None \/ (c \notin Vpn /\ \A e \in Device : nm.active[e] # c)
  /\ nm.active[d] # None => nm.main # nm.active[d]
  /\ LET old == nm.active[d]
         fresh == applet.props \ {c}
         w == _activeConnectionChanged(wrappers[d], c, applet.props)
         seen == d \in Added /\ w.active = c /\ c \in nm.profiles
     IN  Told([nm EXCEPT !.active[d] = c, !.activated = @ \ {old, c}],
              IF d \in Added THEN [wrappers EXCEPT ![d] = w] ELSE wrappers, vpn,
              [applet EXCEPT !.props = IF seen THEN fresh \cup {c} ELSE fresh], portal)

(* An active connection is up, which the applet hears of when it is the    *)
(* main one.                                                               *)
Activated(c) ==
  /\ c \notin nm.activated /\ \E d \in Device : nm.active[d] = c
  /\ LET world == [nm EXCEPT !.activated = @ \cup {c}]
     IN  Told(world, wrappers, vpn,
              IF applet.main = c THEN _mainConnectionStateChanged(applet, world) ELSE applet,
              portal)

(* notify::primary-connection or notify::activating-connection.            *)
MainChanges(c) ==
  /\ c # nm.main /\ (c = None \/ \E d \in Device : nm.active[d] = c)
  /\ LET world == [nm EXCEPT !.main = c]
         a == _syncMainConnection(applet, world)
     IN  Told(world, wrappers, vpn, a, _syncConnectivity(portal, c, world))

ConnectivityChanges ==
  /\ Connection # {}
  /\ LET world == [nm EXCEPT !.isPortal = ~@]
     IN  Told(world, wrappers, vpn, applet, _syncConnectivity(portal, applet.main, world))

(* notify::active-connections, for those of VPNs.                          *)
_syncVPNConnections(s) ==
  /\ s # nm.vpns
  /\ LET known == s \cap (nm.profiles \cup (applet.props \cap nm.vpns))
     IN  \E v \in SetActiveConnections(vpn, known) :
           Told([nm EXCEPT !.vpns = s], wrappers, v,
                [applet EXCEPT !.props = (@ \ Vpn) \cup known], portal)

(* _clientGot and _remoteSettingsGot: the second that comes starts the     *)
(* applet, which reads what there is.  The devices that are added then are *)
(* not asked for their active connection.                                  *)
Got(o) ==
  /\ Connection # {} /\ o \notin got
  /\ got' = got \cup {o}
  /\ IF Cardinality(got') = 1 THEN UNCHANGED <<wrappers, vpn, applet, portal>>
     ELSE LET a == _syncMainConnection([NoApplet EXCEPT !.connections = nm.profiles], nm)
              v == [NoSection EXCEPT !.items = nm.profiles \cap Vpn]
          IN  /\ wrappers' = [d \in Device |-> IF d \in nm.devices
                                                 THEN Wrapper(nm.profiles) ELSE None]
              /\ applet' = a
              /\ portal' = _syncConnectivity(NoPortal, a.main, nm)
              /\ vpn' \in SetActiveConnections(v, nm.vpns \cap nm.profiles)
  /\ UNCHANGED <<nm, wirelessVars>>

(* A device fails: _onActivationFailed replaces the notification; the      *)
(* tray may destroy it, which the applet does not hear of.                 *)
_onActivationFailed ==
  /\ Started /\ Added # {}
  /\ applet' = [applet EXCEPT !.notification = "shown"]
  /\ UNCHANGED <<nm, got, wrappers, vpn, portal, wirelessVars>>
NotificationGoes ==
  /\ applet.notification = "shown"
  /\ applet' = [applet EXCEPT !.notification = "gone"]
  /\ UNCHANGED <<nm, got, wrappers, vpn, portal, wirelessVars>>

(* The proxy of the portal helper is there, and asks for the path it was   *)
(* made for, wanted or not; or it could not be made.                       *)
ProxyMade(c, ok) ==
  /\ portal.making[c] > 0
  /\ \E left \in {portal.making[c] - 1} \cup ({2} \cap {portal.making[c]}) :
     portal' = [portal EXCEPT !.making[c] = left,
                              !.proxy = @ \/ ok,
                              !.logins = IF ok THEN @ \cup {c} ELSE @,
                              !.late = IF ok /\ c \notin portal.queue THEN @ \cup {c} ELSE @]
  /\ UNCHANGED <<nm, got, wrappers, vpn, applet, wirelessVars>>

(* The helper is done: the user cancelled, and the path stays queued; it   *)
(* completed; or it asks to check, and the answer is full or not.          *)
_portalHelperDone(c, result) ==
  /\ c \in portal.logins
  /\ LET p == [portal EXCEPT !.logins = @ \ {c}, !.late = @ \ {c}]
     IN  portal' = CASE result = "CANCELLED" -> p
                     [] result = "COMPLETED" -> _closeConnectivityCheck(p, c)
                     [] result = "RECHECK"   -> [portal EXCEPT !.checks = @ \cup {c}]
  /\ UNCHANGED <<nm, got, wrappers, vpn, applet, wirelessVars>>
Rechecked(c, full) ==
  /\ c \in portal.checks
  /\ LET p == [portal EXCEPT !.checks = @ \ {c}]
     IN  portal' = IF full THEN _closeConnectivityCheck(p, c) ELSE p
  /\ UNCHANGED <<nm, got, wrappers, vpn, applet, wirelessVars>>

-----------------------------------------------------------------------------
(* NMWirelessDialog.                                                       *)

Dialogs ==
  [state : {"OPENED", "CLOSING", "CLOSED"}, destroyed : BOOLEAN,
   networks : Seq([key : {NetworkOf[a] : a \in AP}, aps : Seq(AP)]),
   items : Seq({NetworkOf[a] : a \in AP}),  \* the children of _itemBox
   selected : {NetworkOf[a] : a \in AP} \cup {None, "gone"},
   active : {NetworkOf[a] : a \in AP} \cup {None, "gone"},
   waiting : SUBSET AP,  \* notify::ssid is connected
   robbed : SUBSET AP,   \* was, and is no more though there was none
   session : BOOLEAN]    \* sessionMode's updated is
Names(seq) == [i \in DOMAIN seq |-> seq[i].key]
Listed(d) == UNION {ToSet(d.networks[i].aps) : i \in DOMAIN d.networks}
_findNetwork(d, a) == {i \in DOMAIN d.networks : d.networks[i].key = NetworkOf[a]}

Insertions(seq, e) == {InsertAt(seq, i, e) : i \in 1..(Len(seq) + 1)}

(* An access point with a ssid joins its network or makes one, at a place  *)
(* that depends on strengths and names; without, it is waited for.         *)
Join(d, a) ==
  IF a \in Listed(d) THEN {d}
  ELSE IF _findNetwork(d, a) # {}
    THEN UNION {{[d EXCEPT !.networks[n].aps = s, !.items = Names(d.networks)] :
                   s \in Insertions(d.networks[n].aps, a)} : n \in _findNetwork(d, a)}
    ELSE {[d EXCEPT !.networks = s, !.items = Names(s)] :
            s \in Insertions(d.networks, [key |-> NetworkOf[a], aps |-> <<a>>])}
_accessPointAdded(d, a) ==
  IF a \in range.ssid THEN Join(d, a) ELSE {[d EXCEPT !.waiting = @ \cup {a}]}

(* A network whose last access point goes is dropped with its item, and    *)
(* stays what is selected or active.                                       *)
_accessPointRemoved(d, a) ==
  LET kept == [d EXCEPT !.networks = [i \in DOMAIN @ |-> [@[i] EXCEPT !.aps = Remove(@, a)]]]
      Kept(n) == n.aps # <<>>
      left == SelectSeq(kept.networks, Kept)
      Still(key) == IF key = None \/ key \in ToSet(Names(left)) THEN key ELSE "gone"
  IN  IF a \notin Listed(d) THEN d
      ELSE [d EXCEPT !.networks = left, !.items = SelectSeq(@, LAMBDA key : Still(key) = key),
                     !.selected = Still(@), !.active = Still(@)]

_activeApChanged(d, a) ==
  [d EXCEPT !.active = IF a # None /\ _findNetwork(d, a) # {} THEN NetworkOf[a] ELSE None]

Live == {k \in DOMAIN dialogs : ~dialogs[k].destroyed}
Open == {k \in Live : dialogs[k].state = "OPENED"}
Destroy(ds, k) == [ds EXCEPT ![k].destroyed = TRUE]
close(d) == IF d.state = "OPENED" THEN [d EXCEPT !.state = "CLOSING"] ELSE d

-----------------------------------------------------------------------------
(* The wireless device, its access points and its dialog.                  *)

Opened ==
  [state |-> "OPENED", destroyed |-> FALSE, networks |-> <<>>, items |-> <<>>,
   selected |-> None, active |-> None, waiting |-> {}, robbed |-> {}, session |-> TRUE]

(* A dialog is modal: the menu cannot be used while one is open, but it    *)
(* can while one fades.                                                    *)
_showDialog ==
  /\ range.there /\ allowed /\ Open = {} /\ Len(dialogs) < MaxDialogs
  /\ LET Add(ds, a) == UNION {_accessPointAdded(d, a) : d \in ds}
     IN  \E d \in FoldLeft(Add, {Opened}, SetToSeq(range.present)) :
           dialogs' = Append(dialogs, _activeApChanged(d, range.active))
  /\ _dialog' = Len(dialogs')
  /\ UNCHANGED <<appletVars, range, allowed>>

(* It is closed, by a button or by a connection that could be asked for.   *)
_connect(k) ==
  /\ k \in Open
  /\ dialogs' = [dialogs EXCEPT ![k] = close(@)]
  /\ UNCHANGED <<appletVars, range, _dialog, allowed>>

(* The fade of dialog k ends: what is destroyed is the dialog that the     *)
(* device knows.                                                           *)
_dialogClosed(k) ==
  /\ k \in Live /\ dialogs[k].state = "CLOSING"
  /\ LET ds == [dialogs EXCEPT ![k].state = "CLOSED"]
     IN  dialogs' = IF _dialog = 0 THEN ds ELSE Destroy(ds, _dialog)
  /\ _dialog' = 0
  /\ UNCHANGED <<appletVars, range, allowed>>

_selectNetwork(k, key) ==
  /\ k \in Open /\ key \in ToSet(dialogs[k].items)
  /\ dialogs' = [dialogs EXCEPT ![k].selected = key]
  /\ UNCHANGED <<appletVars, range, _dialog, allowed>>

(* What becomes of every dialog that listens to the device.                *)
EachLive(F(_)) ==
  \E ds \in [Live -> UNION {F(dialogs[k]) : k \in Live}] :
    /\ \A k \in Live : ds[k] \in F(dialogs[k])
    /\ dialogs' = [k \in DOMAIN dialogs |-> IF k \in Live THEN ds[k] ELSE dialogs[k]]

Appear(a) ==
  /\ range.there /\ a \notin range.present
  /\ range' = [range EXCEPT !.present = @ \cup {a}]
  /\ EachLive(LAMBDA d : _accessPointAdded(d, a))
  /\ UNCHANGED <<appletVars, _dialog, allowed>>

Disappear(a) ==
  /\ a \in range.present /\ a # range.active
  /\ range' = [range EXCEPT !.present = @ \ {a}, !.ssid = @ \ (Hidden \cap {a})]
  /\ dialogs' = [k \in DOMAIN dialogs |->
                   LET d == [dialogs[k] EXCEPT !.waiting = @ \ {a}, !.robbed = @ \ {a}]
                   IN  IF k \in Live THEN _accessPointRemoved(d, a) ELSE d]
  /\ UNCHANGED <<appletVars, _dialog, allowed>>

(* A ssid becomes known: the handler of the first dialog that waits, be it *)
(* destroyed, disconnects that of the last, which is not called.           *)
_notifySsidCb(a) ==
  /\ a \in range.present \ range.ssid
  /\ range' = [range EXCEPT !.ssid = @ \cup {a}]
  /\ LET waits == {k \in DOMAIN dialogs : a \in dialogs[k].waiting}
         Robbed(k) == \E l \in waits : l < k /\ \A m \in waits : m <= k
     IN  \E ds \in [Live -> UNION {Join(dialogs[k], a) \cup {dialogs[k]} : k \in Live}] :
           /\ \A k \in Live : ds[k] \in IF k \in waits /\ ~Robbed(k)
                                          THEN Join(dialogs[k], a) ELSE {dialogs[k]}
           /\ dialogs' = [k \in DOMAIN dialogs |->
                [(IF k \in Live THEN ds[k] ELSE dialogs[k]) EXCEPT
                   !.waiting = @ \ {a},
                   !.robbed = IF k \in waits /\ Robbed(k) THEN @ \cup {a} ELSE @]]
  /\ UNCHANGED <<appletVars, _dialog, allowed>>

ActiveAp(a) ==
  /\ a # range.active /\ a \in {None} \cup (range.present \cap range.ssid)
  /\ range' = [range EXCEPT !.active = a]
  /\ dialogs' = [k \in DOMAIN dialogs |->
                   IF k \in Live THEN _activeApChanged(dialogs[k], a) ELSE dialogs[k]]
  /\ UNCHANGED <<appletVars, _dialog, allowed>>

(* The wireless device is removed: NMDeviceWireless.destroy.               *)
DeviceGone ==
  /\ range.there
  /\ range' = [range EXCEPT !.there = FALSE]
  /\ dialogs' = IF _dialog = 0 THEN dialogs ELSE Destroy(dialogs, _dialog)
  /\ _dialog' = 0
  /\ UNCHANGED <<appletVars, allowed>>

(* The session is locked: every dialog that was ever made is closed, once. *)
SessionUpdated ==
  /\ AP # {}
  /\ allowed' = ~allowed
  /\ dialogs' = IF allowed' THEN dialogs
                ELSE [k \in DOMAIN dialogs |->
                        IF dialogs[k].session
                          THEN [close(dialogs[k]) EXCEPT !.session = FALSE] ELSE dialogs[k]]
  /\ UNCHANGED <<appletVars, range, _dialog>>

-----------------------------------------------------------------------------
Init ==
  /\ nm = [profiles |-> {}, fits |-> Connection \ Vpn, devices |-> {},
           active |-> [d \in Device |-> None], vpns |-> {}, activated |-> {}, main |-> None,
           isPortal |-> FALSE]
  /\ got = {} /\ wrappers = [d \in Device |-> None] /\ vpn = NoSection
  /\ applet = NoApplet /\ portal = NoPortal
  /\ range = [there |-> TRUE, present |-> {}, ssid |-> AP \ Hidden, active |-> None]
  /\ dialogs = <<>> /\ _dialog = 0 /\ allowed = TRUE

NextApplet ==
  \/ \E c \in Connection : \/ NewConnection(c) \/ Updated(c) \/ _connectionRemoved(c)
                           \/ Activated(c)
                           \/ \E ok \in BOOLEAN : ProxyMade(c, ok)
                           \/ \E result \in {"CANCELLED", "COMPLETED", "RECHECK"} :
                                _portalHelperDone(c, result)
                           \/ \E full \in BOOLEAN : Rechecked(c, full)
  \/ \E d \in Device : \/ _deviceAdded(d) \/ _deviceRemoved(d)
                       \/ \E c \in Connection \cup {None} : DeviceActivates(d, c)
  \/ \E c \in Connection \cup {None} : MainChanges(c)
  \/ \E s \in SUBSET Vpn : _syncVPNConnections(s)
  \/ \E o \in {"client", "settings"} : Got(o)
  \/ ConnectivityChanges \/ _onActivationFailed \/ NotificationGoes

NextWireless ==
  \/ _showDialog \/ DeviceGone \/ SessionUpdated
  \/ \E k \in DOMAIN dialogs : \/ _connect(k) \/ _dialogClosed(k)
                               \/ \E key \in ToSet(dialogs[k].items) : _selectNetwork(k, key)
  \/ \E a \in AP : Appear(a) \/ Disappear(a) \/ _notifySsidCb(a)
  \/ \E a \in AP \cup {None} : ActiveAp(a)

Next == NextApplet \/ NextWireless

Spec == Init /\ [][Next]_vars

-----------------------------------------------------------------------------
TypeOK ==
  /\ nm \in World /\ got \subseteq {"client", "settings"}
  /\ \A d \in Added : wrappers[d] \in Sections
  /\ vpn \in Sections /\ applet \in Applets
  /\ portal.making \in [Connection -> 0..2]
  /\ \A k \in DOMAIN dialogs : /\ dialogs[k].state \in {"OPENED", "CLOSING", "CLOSED"}
                               /\ dialogs[k].waiting \cup dialogs[k].robbed \subseteq AP
  /\ _dialog \in 0..Len(dialogs)

(* Every profile that fits a device has an item there, none has one that   *)
(* was removed, and at most the active connection of a device is shown by  *)
(* its item.                                                               *)
ItemsFollow ==
  Started =>
    /\ applet.connections = nm.profiles
    /\ {d \in Device : wrappers[d] # None} = nm.devices
    /\ \A d \in Added : /\ (nm.profiles \ Vpn) \cap nm.fits \subseteq wrappers[d].items
                        /\ wrappers[d].items \subseteq nm.profiles \ Vpn
                        /\ wrappers[d].shown \subseteq {wrappers[d].active} \cap wrappers[d].items
    /\ vpn.items = nm.profiles \cap Vpn /\ vpn.shown \subseteq vpn.items \cap nm.vpns

(* What the portal helper shows is in the queue, which is what lets the    *)
(* shell close it, but for what was asked by a proxy that came too late.   *)
LoginsAreQueued == portal.logins \ portal.late \subseteq portal.queue

(* A dialog that lives lists the access points in range by network, each   *)
(* once, but for one whose ssid another dialog was told; its items are in  *)
(* the order of the networks.                                              *)
ListsRange ==
  \A k \in Live :
    LET d == dialogs[k]
        Aps == [i \in DOMAIN d.networks |-> ToSet(d.networks[i].aps)]
    IN  /\ (range.present \cap range.ssid) \ d.robbed \subseteq Listed(d)
        /\ Listed(d) \subseteq range.present \cap range.ssid
        /\ range.present \ range.ssid \subseteq d.waiting
        /\ \A i \in DOMAIN d.networks :
             /\ d.networks[i].aps # <<>> /\ IsInjective(d.networks[i].aps)
             /\ \A a \in Aps[i] : NetworkOf[a] = d.networks[i].key
        /\ IsInjective(d.items) /\ d.items = Names(d.networks)
        /\ {d.active, d.selected} \subseteq ToSet(d.items) \cup {None, "gone"}

(* The dialog that is open is the one the device knows and will destroy.   *)
OpenIsKnown == Open \subseteq {_dialog}

NetworkSound == TypeOK /\ ItemsFollow /\ LoginsAreQueued /\ ListsRange /\ OpenIsKnown

(* These say more, and do not hold.  A login that is late is shown for a   *)
(* connection that needs none; an access point with a hidden name is not   *)
(* listed by a dialog that is opened anew; a closed dialog may live on,    *)
(* and one that was destroyed open closes again when the session locks.    *)
NoLateLogin    == portal.late = {}
ListsAll       == \A k \in Live : dialogs[k].robbed = {}
ClosedIsGone   == \A k \in Live : dialogs[k].state # "CLOSED"
DestroyedStays == \A k \in DOMAIN dialogs \ Live : dialogs[k].state # "CLOSING" \/ dialogs[k].session
SelectedExists == \A k \in Open : dialogs[k].selected # "gone"
ActiveIsShown  ==
  Started => \A d \in Added : nm.active[d] \in wrappers[d].items => nm.active[d] \in wrappers[d].shown
=============================================================================
