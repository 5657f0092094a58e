---------------------------- MODULE ClientModes -----------------------------
(***************************************************************************)
(* What a workspace of page promises about its windows, without the tree:  *)
(* each window is shown in one mode and keeps it until it is asked to      *)
(* change or is gone, and focus goes only where the user would expect.     *)
(***************************************************************************)
CONSTANTS Client, Null

VARIABLES
  mode,     \* the kind of view each window has
  focus     \* the window the workspace gives the keyboard focus to, or Null

View == {"tab", "floating", "fullscreen"}

Init ==
  /\ mode = [c \in Client |-> "unmanaged"]
  /\ focus = Null

Becomes(c, m) == mode' = [mode EXCEPT ![c] = m]

(* A new window is shown as a tab and gets the focus, or is not shown.     *)
Manage(c) ==
  /\ mode[c] = "unmanaged"
  /\ \/ Becomes(c, "tab") /\ focus' = c
     \/ Becomes(c, "viewless") /\ UNCHANGED focus

(* A window goes.  Only if it had the focus does the focus change, and     *)
(* then to a window that is shown.                                         *)
Unmanage(c) ==
  /\ mode[c] # "unmanaged"
  /\ Becomes(c, "unmanaged")
  /\ IF focus = c THEN focus' \in {Null} \cup {d \in Client \ {c} : mode[d] \in View}
                  ELSE UNCHANGED focus

(* A window that is shown becomes a tab or floating, and gets the focus.   *)
Show(c, m) ==
  /\ mode[c] \in View \ {m}
  /\ m \in {"tab", "floating"}
  /\ Becomes(c, m)
  /\ focus' = c

(* A tab or floating window becomes fullscreen.                            *)
EnterFullscreen(c) ==
  /\ mode[c] \in {"tab", "floating"}
  /\ Becomes(c, "fullscreen")
  /\ focus' = IF focus = c THEN Null ELSE focus

(* The focus goes to a window that is shown, or to none; the modes stay.   *)
Refocus ==
  /\ focus' \in {Null} \cup {c \in Client : mode[c] \in View}
  /\ UNCHANGED mode

Next ==
  \/ \E c \in Client :
       \/ Manage(c) \/ Unmanage(c) \/ EnterFullscreen(c)
       \/ \E m \in View : Show(c, m)
  \/ Refocus

Spec == Init /\ [][Next]_<<mode, focus>>

=============================================================================
