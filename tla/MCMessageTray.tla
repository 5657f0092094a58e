---------------------------- MODULE MCMessageTray ----------------------------
(* The message tray, the notification service of GTK and the network menu  *)
(* for TLC.  In one behaviour only the surroundings of the tray in moving  *)
(* change, or only the service, or only the menu: that of NMApplet, with a *)
(* device and a VPN, or that of a wireless device, with two access points, *)
(* one of them hidden, and two dialogs.                                    *)
EXTENDS MessageTray, FiniteSets

CONSTANTS n1, n2, n3, s1, s2, dev, wired, vpn1, near, hid, home, cafe, app1, app2, i, j

OneOfEach == n1 :> s1 @@ n2 :> s1 @@ n3 :> s2
Urgencies == n1 :> {1} @@ n2 :> {3} @@ n3 :> {2}
Networks == near :> home @@ hid :> cafe

VARIABLES
  moving,
  running, appSources, appList, _notificationPending, appNotifications, saved, fading, installed,
  added, kept, strayed,
  nm, got, wrappers, vpn, applet, portal,
  range, dialogs, _dialog, allowed

Applet == INSTANCE Network
    WITH Device <- {dev}, Connection <- {wired, vpn1}, Vpn <- {vpn1}, AP <- {},
         Hidden <- {}, NetworkOf <- Networks, MaxDialogs <- 0
Wireless == INSTANCE Network
    WITH Device <- {}, Connection <- {}, Vpn <- {}, AP <- {near, hid},
         Hidden <- {hid}, NetworkOf <- Networks, MaxDialogs <- 2

Gtk == INSTANCE GtkNotificationDaemon
    WITH AppId <- {app1, app2}, NotificationId <- {i, j}, MaxMade <- 3,
         MAX_NOTIFICATIONS_PER_SOURCE <- 1, _sources <- appSources, list <- appList,
         _notifications <- appNotifications, made <- added

ASSUME ConstantsAssumptions ==
  Applet!NetworkAssumption /\ Wireless!NetworkAssumption /\ Gtk!ConstantsAssumption

networkVars == <<nm, got, wrappers, vpn, applet, portal, range, dialogs, _dialog, allowed>>
gtkVars == <<running, appSources, appList, _notificationPending, appNotifications, saved, fading,
             installed, added, kept, strayed>>

Surroundings == {{"user"}, {"limits"}, {"session", "menu"}, {"pointer"}, {"policy"}}

MCInit ==
  /\ Init
  /\ Gtk!Init
  /\ \/ /\ moving \in Surroundings \cup {{"applet"}, {"gtk"}}
        /\ Applet!Init
     \/ moving = {"wireless"} /\ Wireless!Init

TrayMoves ==
  /\ Next
  /\ "user" \in moving \/ UNCHANGED idle
  /\ "limits" \in moving \/ UNCHANGED <<busy, inFullscreen>>
  /\ "menu" \in moving \/ UNCHANGED <<blocked, mapped>>
  /\ "session" \in moving \/ UNCHANGED hasNotifications
  /\ "pointer" \in moving \/ UNCHANGED hovering.hovered
  /\ "policy" \in moving \/ sources \subseteq sources'  \/ notifications # notifications'

MCNext ==
  /\ UNCHANGED moving
  /\ \/ /\ moving \cap {"applet", "wireless", "gtk"} = {} /\ TrayMoves
        /\ UNCHANGED <<networkVars, gtkVars>>
     \/ moving = {"applet"} /\ Applet!Next /\ UNCHANGED <<vars, gtkVars>>
     \/ moving = {"wireless"} /\ Wireless!Next /\ UNCHANGED <<vars, gtkVars>>
     \/ moving = {"gtk"} /\ Gtk!Next /\ UNCHANGED <<vars, networkVars>>

MCSpec == MCInit /\ [][MCNext]_<<vars, networkVars, gtkVars, moving>> /\ Fairness

(* The properties of the network menu and of the service.                  *)
NetworkSound == /\ moving = {"applet"} => Applet!NetworkSound
                /\ moving = {"wireless"} => Wireless!NetworkSound
GtkSound == moving = {"gtk"} => Gtk!GtkSound

=============================================================================
