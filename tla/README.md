# A verification project for page-shell

page-shell is GNOME Shell with `page`, a tiling window manager written in C++,
built into its compositor plugin.  This directory holds TLA+ modules that model
the parts of it that keep protocol state, TLC configurations that check them on
small instances, and proofs that TLAPS checks for every value of the constants.
Every definition names the code it models in `PROJECT.json` ("map"); paths
below are paths of the repository.

1. [The system](#1-the-system)
2. [Modules](#2-modules)
3. [Runs](#3-runs)
4. [Findings](#4-findings)
5. [Proofs](#5-proofs)
6. [What is left out](#6-what-is-left-out)

## 1. The system

One process runs everything: mutter loads the plugin (`src/gnome-shell-plugin.c`
starts the JavaScript of the shell and `page_t` of `src/page-*.cxx`), and the
main loop runs one callback at a time.  There are no threads in the parts that
matter here.  What makes the system hard is order: a signal of the window
manager, a key, a timer, the end of an animation or a D-Bus reply may come
between any two callbacks, and the state read in one callback is used in a
later one.  An action of a module is therefore a whole callback, with every
call it makes; what may happen between two of them is any other action.

| Part | State | Operations | Interacts with | What makes it correct |
|---|---|---|---|---|
| page: layout of a workspace (`page-workspace`, `-viewport`, `-split`, `-notebook`, `-tree`, `-view-*`) | a tree of viewports, splits and notebooks with parent pointers; tabs, selection; default notebook; focus history | map, unmanage, focus, float, tile, fullscreen, split, close, drop a tab, monitors change | mutter (signals), views (actors) | the tree stays a tree; one view per window; the focus is visible; weak references do not dangle |
| page: allocation | lengths, ratios and minima of splits | split, close, drag the bar, new work area | the tree | packs tile the area; the assertions of the code hold |
| page: workspaces and grabs (`page-page`, `-grab-handlers`, `-dropdown-menu`, `-client-managed`) | views of each window in each workspace, who owns the window, the grab handler, the modal | switch workspace, send a window, drags, the tab menu | mutter, the tree, the modal of the plugin | a view that goes is not used; the view on the screen owns its window; a grab ends its modal |
| modal stack (`js/ui/main.js`, `src/shell-global.c`) | a stack of actors with the focus and action mode each found; a counter; the modal of the plugin | push, pop (from anywhere), destroy | every menu, dialog, switcher, the overview, the shield | the stack, the counter and the modal agree; what was found is given back |
| grab helper and menu managers (`grabHelper.js`, `popupMenu.js`) | stacks of grabs, the open menu | grab, ungrab, click outside, Escape | the modal stack | helpers are popped in order; one menu is open |
| modal dialogs, end-session dialog | state and modal of each dialog; inhibitors, sessions, a countdown | open, close, fade out, animation ends, answers | the modal stack, D-Bus | modal exactly while open; the caller is answered once |
| overview and its pages (`overview.js`, `viewSelector.js`, `overviewControls.js`, `workspacesView.js`, `workspace.js`, `workspaceThumbnail.js`, `appDisplay.js`, `dash.js`) | shown, visible, animation, modal; the active page; the clones and thumbnails; the popups of folders; the favorites | show, hide, toggle, animation ends, drags, drops, windows and workspaces come and go | the modal stack, each other | after the animations it is as it was last asked to be; modal exactly while shown; what is destroyed is not used |
| search (`search.js`, `remoteSearch.js`) | terms, results and questions of each provider | type, answer, reload, activate | providers over D-Bus | answers to old questions are not used; the search ends |
| message tray, notification daemons (`messageTray.js`, `notificationDaemon.js`) | the banner, a queue, timers, presence; ids, sources, senders; a file | notify, replace, close, hover, expire, tweens, restart | sources, D-Bus, session mode | urgent first; nothing shown after it is destroyed; ids resolve; a restart loses nothing |
| screen shield (`screenShield.js`, `lightbox.js`) | locked, active, dialog, curtain, lightboxes, inhibitor | activate, lock, unlock, suspend, drag, crash | logind, the modal stack | locked implies shielded; the inhibitor that is held is kept until the screen is dark |
| authentication (`js/gdm/authPrompt.js`, `util.js`, `unlockDialog.js`) | a verifier with a channel, retries, messages | begin, ask, answer, fail, cancel | GDM over D-Bus | one conversation; late replies of an old one do nothing |
| session modes, extensions (`extensionSystem.js`, `extensionDownloader.js`) | states and order of extensions | enable, disable, reload, install, remove | every part of the shell | extensions are disabled in the reverse of their order |
| shell window manager (`windowManager.js`) | running effects; dynamic workspaces; the switch under way | effects begin, end, are killed; a workspace becomes empty, is switched to | mutter, page | each effect completes once; one empty workspace at the end; windows come back from a switch |
| layout manager, keyboard (`layout.js`, `keyboard.js`) | tracked actors, their visibility, struts and regions; the hot corner; the box of the keyboard | track, hide, start up, monitors change, press, focus moves | the overview, the session mode | the region that takes input is that of what is shown; the corner counts what presses |
| backgrounds (`background.js`) | a source with its backgrounds, managers with an actor for each monitor, a cache | picture, file, monitors, time change; images and slide shows are loaded | mutter, the overview | each monitor comes to show the picture that is set |
| input sources (`status/keyboard.js`, `keyboardManager.js`, `ibusManager.js`) | the sources, their order, the current one, the keymap, the engine, the keyboard that is frozen | switch, setting, password, focus, IBus comes and goes | IBus, mutter, the overview | the keymap is that of the source; the keyboard thaws |
| message list, calendar (`messageList.js`, `calendar.js`, `dateMenu.js`) | messages with their animations, a day, the events asked for | notify, clear, close, choose a day, session mode | the tray, the calendar server | the list is that of what there is; events are of what was asked |
| switchers (`switcherPopup.js`, `altTab.js`, `ctrlAltTab.js`, `switchMonitor.js`) | the selection, timers, the modal | step, release, timeout, mouse | the modal stack, windows | what is let go is activated; the popup goes |
| drag and drop (`dnd.js`) | the draggable, its grab and animation | press, move, drop, Escape, destroy | dash, icons, thumbnails, windows | the grab ends with the drag |
| network menu (`status/network.js`) | profiles, devices, access points, their items; the portal helper | profiles, devices and access points come and go | NetworkManager, the portal helper | an item for each; no duplicate |
| object manager, component agents, status menus, recorder, screenshots, tray, texture cache, St, calendar server, helpers | requests under way, caches, drawing, glue | | | not modelled, see section 6 |

`PROJECT.json` lists every component with its files ("components") and every
place where the code can go wrong in a way a test would hardly reach
("hazards"), with the property that covers it or the reason why none does.

## 2. Modules

| Module | Models | Role |
|---|---|---|
| `PageLayout` | the tree of one workspace and every operation on it | specification |
| `ClientModes` | what the workspace promises about its windows | abstract specification |
| `PageLayout_proofs` | | theorems |
| `PageSplit` | how a split shares its length | operators |
| `PageGeometry` | allocations of a tree as it is split, closed, dragged and resized | specification over `PageSplit` |
| `PageGrab` | workspaces, owners, drags and the tab menu | specification |
| `Grabs_proofs` | | theorems about `PageGrab` and `GrabHelper`, over `MCGrabs` |
| `ModalService` | what `pushModal` and `popModal` promise to the shell | abstract specification |
| `ModalStack` | `pushModal` and `popModal` | specification |
| `GrabHelper` | grab helpers, the managers of menus, the popups of folders | specification |
| `PopupMenu` | a popup menu with its items and submenus | specification |
| `EndSessionDialog` | the end-session dialog and the modal dialog that it is | specification, theorems |
| `Overview` | the overview | specification over `ModalService`, theorems |
| `Views` | the pages of the overview and what is beside them | specification over `Overview` |
| `WorkspacesView`, `OverviewWorkspace` | the workspaces of the overview; one of them with its windows | specifications |
| `WorkspaceThumbnails` | the thumbnails of the workspaces | specification |
| `AppDisplay` | the applications and their folders | specification |
| `Dash` | the dash and the favorites | specification |
| `Search` | the results of a search | specification |
| `Switcher` | the popups that switch windows, panels and monitors | specification |
| `DragAndDrop` | drags | specification |
| `MessageTray` | sources, notifications, the queue and the banner | specification |
| `FdoNotificationDaemon`, `GtkNotificationDaemon` | the two notification services on D-Bus | specifications, theorems of the first |
| `ScreenShield` | the screen shield | specification |
| `AuthPrompt` | the unlock dialog, its prompt and the verifier | specification |
| `ExtensionSystem` | extensions as the setting and the session mode change | specification |
| `WorkspaceTracker` | the workspaces that come and go with windows | specification |
| `WindowEffects` | the animations of windows and the switch of workspaces | specification |
| `LayoutManager` | the chrome of the stage and its hot corner | specification |
| `Backgrounds` | the backgrounds of the monitors | specification |
| `MessageList` | notifications and events in the date menu, the calendar | specification |
| `InputSources` | input sources, the keymap and the engine | specification |
| `Keyboard` | the on-screen keyboard | specification |
| `Network` | the network menu | specification |
| `Session_proofs` | of `ModalStack` and `Views` | theorems |
| `Desktop_proofs` | of `ScreenShield`, `Keyboard`, `DragAndDrop` and `LayoutManager` | theorems |
| `SequenceLemmas` | lemmas on `RemoveAt`, `Append` and `Tail` | lemmas |
| `MC*` | the instances TLC checks | |

A module says in its first comment what it models and what it abstracts.  What
follows here is how its state and actions correspond to the code where that is
not plain from the names, which are those of the code.

### How components are composed

`Overview` is composed with the service and not with `ModalStack`: `ModalStack`
implements `ModalService` (checked and proved), so what is shown of the overview
holds over the real stack for all that the service tells apart.  `Views` is an
`Overview` of its own with the pages: a step of the overview calls the selector,
and `Follow` is what comes of that.  `PageGeometry` composes the operators of
`PageSplit`.

An `MC` module may check several components that share no state: `part` names
the one that a behaviour runs, and a property of the run speaks of each of
them.  This is a union of models and not their product: nothing is claimed of
two of them together, and nothing is lost, since they do not interact in the model.

Most modules that follow the JavaScript keep the state of an object as a record
and write a method as an operator from the record to another, so that an action
is the composition of the methods that the handler calls, in the order of the
code.

### page

**PageLayout.**  A node is an identity (an address): `parent`, `pack0`, `pack1` and
`subtree` are the pointers of `tree_t`, `split_t` and `viewport_t`, and a node with a
null parent is free.  `tabs` and `selected` are those of `notebook_t`, `floating` and
`fullscreen` the layers of `workspace_t`, `revert_type` and `revert_notebook`
what `view_fullscreen_t` remembers, `default_pop`, `history` and `active` the
weak references of `workspace_t`.  The weak list of the history is kept without
its expired entries, which every reader skips.

One action stands for one handler: `MapWindow` for `manage_client` and
`insert_as_notebook`, `Unmanage` for `page_t::unmanage` and `workspace_t::unmanage`,
`FocusWindow` for `_handler_meta_window_focus`, `MakeFloating`, `MakeNotebook`,
`EnterFullscreen` and `LeaveFullscreen` for the `switch_*` operations,
`ActivateTab`, `MoveTab`, `SetDefaultPop`, `SplitNotebook` and `CloseNotebook`
for what the user does to tabs and notebooks, `AddViewports` and
`RemoveViewports` for `update_viewports_layout`.  Where the code iterates in an
order that depends on the shape of the tree (`gather_children_root_first`, the
order of tabs), the model allows every order.

**PageSplit and PageGeometry.**  `PageSplit` is `compute_children_allocation` along
one axis, with the ratio as a fraction and the rounding as it is in the code.
`PageGeometry` keeps the length of every node of a tree of splits and performs the
operations in the order the code does, in particular that `replace` and `set_pack`
lay out a split while it still has an empty pack.  Its property `AssertsHold` says of
every state that the assertions of the code would hold in it.

**PageGrab.**  The view of each window in each workspace (`view`), the workspace
whose view owns the window (`owner`), the grab with the view it holds and whether
that view is still in the tree (`attached`).  A drag holds its view weakly, the menu
strongly: after the view has left the tree, the menu's is called `Held`.  `modal`
says who has the modal of the plugin: `page` begins and ends it directly, the
shell through `shell_global_begin_modal`, and mutter gives it to one of them.
`fault` names the assertion (or the null pointer) that ends the program; nothing
happens after.  The tree is left out: which notebook holds a tab does not matter
here, only whether the notebook a drag is over is alive.

### Modals, grabs and dialogs

**ModalStack.**  The records of `modalActorFocusStack` with the focus and the mode
that each actor found, and the actor that the destroy handler of the focus was
connected for (`watch`), which is what the handler looks up when it runs.  Each actor
pushes with an action mode of its own, so that a wrong one can be told apart.

**GrabHelper.**  One stack of grabs for each helper, and the stack of helpers
(`_grabHelperStack`) whose top handles the events; a helper that is pushed takes one
place in the modal stack.  Handlers throw where the code does (a pop of a helper
that is not on top), and what comes after in them does not run.  Assumed of the
constants: each folder popup has a helper of its own (`appDisplay.js` makes one in its
constructor); while a menu is open its helper handles every event, so that nothing that
opens a target of another helper can be reached (`Over`); the menus are finitely many.

**PopupMenu.**  Where each item, section and submenu is (`box`), which menus hear their
children (`connected`), and, kept apart because the code keeps them apart, which item is
active by its own flag, by each menu around it and by the key focus; which submenu is
open by its own flag, by the menu on top and by the tween that unfolds it.  Methods are
functions on worlds.  The items, what is added late, moved, hidden or destroyed are
constants; whether a submenu needs its scrollbar is chosen once, since the code does
not handle that it changes (`popupMenu.js:979`).  Which menu is open, and the grabs of
the managers, are those of `GrabHelper`.

**EndSessionDialog.**  The dialog is the record of `ModalDialog`: its
state, whether it has the modal and is on the stack, its tweens.  The
end-session dialog adds the request under way, the inhibitors it shows and those
whose application is not known yet, the sessions of logind, the countdown and the
call to PackageKit; `said` holds what it has told the session manager.

### The overview

**Overview.**  `_shown` is the wish, `visible`, `animationInProgress` and
`visibleTarget` what is in view; `_modal` is what the overview believes and `stack`
what the service knows.  The methods call each other (`_showDone` calls
`_animateNotVisible` and `_syncGrab`, which may call `hide`), so each is an operator
from a state of the overview to another, and an action composes them in the order of
the code and then takes the step of the service.  `MayRefuse` is `global.begin_modal`:
it can refuse only the first of the stack.  `RefuseCtrlClick` says whether a click
with Ctrl may both reach the shell and be refused the modal; the run has it FALSE,
since a program that holds the input holds the click.  Handlers of the signals
`shown` and `hidden` are taken not to call the overview back.

**Views.**  The active page, the page that is seen, the fade or the animation of the
grid under way, and the dash and thumbnails that slide with it.  The animation of the
grid is cancelled when the grid is unmapped, and who waits for its end then waits
for that of another: the handlers that wait are a set in the state.

**WorkspacesView, OverviewWorkspace.**  A workspace is placed by rows relative to the
monitor; the scroll adjustment is kept apart from the place of the workspaces, because
the code keeps both and lets tweens move each.  In a workspace the clones are those of the
code with the flags that its idles, timers and tweens look at; the idle of
`_doAddWindow`, the later of `_realRecalculateWindowPositions` and the 750 ms timer
are steps of their own.

**WorkspaceThumbnails.**  The state of each thumbnail (`ThumbnailState`) with the
animation under way; one kind of animation waits for another, as `_queueUpdateStates`
has it.  Tweens of thumbnails that are destroyed still end (`stray`).

**AppDisplay.**  The two views, the folders with their popups, the room that the
grid makes (`space-ready`, `space-closed`) and the animation of its icons.  A folder
that goes while the view is not mapped closes nothing: its popup loses its actor but
stays the current one and keeps its grab (`"gone"`; `gone` counts such popups).  What
closes it then closes it for the view and throws after that, since `popModal` knows no
actor that was destroyed; an `animate` that throws so has taken the scroll view and gives
it back no more (`grid.thrown`), and `goToPage` stays where it is.

**Dash.**  Items in the box, those that animate out, the placeholder of a drag, the
redisplay that is queued, and the favorites of `appFavorites.js`.

**Search.**  A provider has its results, the question it was asked and the metas
that were asked of it; a question that is cancelled is forgotten.  `typed` and
`reloads` bound what the user and the setting may do.

### The rest of the shell

**MessageTray.**  `World` is what `_updateState` looks at; the handlers write to it
and `_updateState` returns the next.  The timer of the notification, the timer of the
pointer that left, the tween and the idle monitor call back.  Which of its
surroundings (presence, fullscreen, session mode, setting, date menu, overview)
changes in a behaviour is chosen once in the run.

**FdoNotificationDaemon.**  `_notifications[id]` is `"data"` while the bus is asked
for the process of the program, `"shown"` when it has its notification; `list[s]` is the
list of the source of `s`; `pending` are the calls to the bus, `unanswered` those that
failed; `closed` is what programs were told; `banner` the number of the newest
transient notification that the tray will destroy.  `NonResidentDestroyed` is the loop of
`destroyNonResidentNotifications` turn by turn, because each turn may destroy the
source that is looped over.

**GtkNotificationDaemon.**  Sources and ids by application, and the file as it was
last written.  A handler that writes more than once is cut at its writes by a crash:
the shell starts again from any of the contents the file had in it.  A request that is
malformed throws in the middle of `addNotification`, after the notification with its id
was destroyed and before `_notificationPending` is set back (`AddMalformed`): the source
of the application then does not go when it is empty, until a request that is well
formed.

**ScreenShield.**  `_isLocked`, `_isActive`, the states of the curtain and of the two
lightboxes, the dialog, the inhibitor of the login manager and what is under way.  The
login manager grants an inhibitor or refuses it (`Inhibited`); either way the one that
is held is closed, and after a refusal there is none.
A crash starts the shell again with `wasLocked`.

**AuthPrompt.**  The status of the prompt, the verifier with the channels it has asked
for (`requests`) and the services being begun on them (`starts`), and the queue of
messages.  Each attempt has a new hold (`_hold`, the acquisitions of `batch.js`): opening
a channel acquires it for each service, and every reply releases the hold there is by
then, also the reply of an earlier attempt.  `acquire` throws once the hold is used up;
the verifier is then `"idle"`, with nothing begun on it.  `crossed` remembers that the
attempt began while calls of an earlier one were under way.  A signal calls its
handlers at once, so a reset may run inside the clearing of the messages it waited for.

**ExtensionSystem.**  An extension is code of others, so its `init`, `enable` and
`disable` may throw: in one callback one of the extensions in `Faulty` misbehaves in
one way.  `running` is what extensions have really done, in that order, which the
properties compare with what the system believes.  The lists of the code are taken in
any one order per callback; `MaxOrder` bounds `extensionOrder`, which can hold an
extension twice after a failure.  An update is a reload; only what is not
installed is installed.  `ChangesWhileLocked` admits reloads and installations
while the session mode allows no extensions.

**WorkspaceTracker, WindowEffects.**  The tracker keeps its own list beside that of the
compositor; a check is queued and runs before the next frame.  An effect is an entry
of a list and an animation; `owed` is what the window manager has not answered yet,
`counted` what the compositor takes to be under way, which page answers as well
(`PageAnswers`, the handlers of `page-page.cxx` on the same signals).  `switching` holds
the workspace, where each window is, and `_switchData`: a window is at home or in a group
of the switch.  The compositor ends a switch before it asks for the next.

**Switcher, DragAndDrop, LayoutManager, Keyboard, Network.**  The popup with its
timers and the modifier as the pointer has it; one kind of draggable for each way in
which the shell makes them; the actors of the chrome with what is computed from them
later; the requests of the keyboard that rest for 100 ms; items by profile, with a
device that may be known before or after its connections.

The hot corner is one record of `LayoutManager`: its barriers, those that the pointer
presses against, the events that are kept with their pressure.  Barriers are made anew
when the monitors or the panel change (`NewCorner`, `_panelBoxChanged`), and nobody tells
of the leaving of those that have gone.

**Backgrounds.**  `Background` objects by number, with what each waits for: an idle
that says that it is loaded, images, the slide show, timers; a timer that nothing
remembers is counted all the same.  A manager has the actor in view and the new one, each
with whether it hears the changes of its background.  The source is counted by its
managers; what nothing refers to is forgotten.

**InputSources.**  An object of a former list is told from the present ones (`old`),
because the popup, windows and the handlers of IBus keep such objects.  IBus is not
there, connected or ready; a question to a connection that has gone has no answer.

**MessageList.**  The list of notifications is that of the container with the messages
that shrink or slide away; the events of the day are listed, slide or are new; the
calendar has its day and the weeks it shows; the source has what it asked for last, what
was answered, and former sources whose handlers are still connected.  `listMode` says
whether the session mode has notifications and events, and whether the greeter's empty
source is used.

## 3. Runs

| Run | Instance | Shows |
|---|---|---|
| `layout` | `PageLayout` (`PageLayout.cfg`): 3 windows, 3 notebooks, 2 splits, 2 viewports | `PointersAreSound`, `OneView`, `SelectedIsMostRecent`, `FocusIsVisible`, `TabsStayPut`, `ImplementsModes`.  Two splits nest, so the sibling of a closed notebook may be a split; two viewports let one be removed with tabs in it; three windows are the least for which "most recent" is a choice among two that are left. |
| `grab` | `PageGrab`: 2 workspaces, 1 window on all and 1 not; `GrabHelper`: a panel with two menus, an icon with one, a folder, the overview and a dialog that are modal too; `OverviewWorkspace`: 2 windows; `WorkspacesView`; `WorkspaceThumbnails`: 2 at first, 3 made | `WindowsArePlaced`, `ReferencesAreAlive`, `GrabSound`; `HelpersSound`, `MenusPopInOrder`; `WorkspacesSound`, also of the thumbnails.  A helper can be between two others and between two modals. |
| `grab_asserts` | the same | violated: see findings |
| `session` | `ModalStack`: 3 actors, 2 other focuses; `ExtensionSystem`: 3 extensions, 1 of which fails, order of 4; `Views`: 1 other modal; `InputSources`: 2 layouts, 1 engine, 1 window, 1 request | `StackSound`, `ImplementsService`; `ExtensionsSound`; `PagesSound`; `InputSourcesSound`.  Three is the least number where an actor is popped with two above it, and where the extension that fails is above, below or between. |
| `shell` | `Overview`: 2 others; `AppDisplay`: 2 folders, 2 pages, 2 popups that went with their folders; `Search`: 1 remote provider, 2 letters, terms of 2, 3 changes, 1 reload; `Switcher`: an application with 2 windows and one with 1; `MessageList`: 2 urgent notifications and 1 other, or 2 events, 2 days, 2 stamps, 2 calls | `OverviewSound`, `InputFollows`, `AppsSound`, `SearchSound`, `SwitcherSound`, `ListsSound`, and `AllEnd`: the animations of the overview and a search end.  With two others the overview leaves the stack from the top, the bottom and the middle. |
| `tray` | `MessageTray`: 2 sources, 3 notifications (one transient, one resident, one for feedback), a queue of 2, 1 for each source, 3 calls; `Network`: a device and a VPN; a wireless device with 2 access points and 2 dialogs; `GtkNotificationDaemon`: 2 applications, 2 ids, 3 notifications and any number of malformed requests | `TraySound`, `BannerGoes`, `NetworkSound`, `GtkSound`.  Three notifications reach both limits; one of five surroundings of the tray changes in a behaviour. |
| `daemon` | `FdoNotificationDaemon`: 2 programs, one an application, 3 ids, 2 for each source | `FdoSound`, `LeaversAreForgotten`.  Three ids let a notification be replaced while another waits and the limit drop one. |
| `dialogs` | `EndSessionDialog`: 2 requests, a countdown of 1; `PopupMenu`: 3 items, of which one is hidden, one dies; 2 submenus, one of which dies; a section, 2 separators, one of which comes late and moves | `DialogSound`, `CountdownEnds`; `MenuSound`, `SeparatorsPart`.  The second request meets every state the first can leave; two submenus are the least of which one closes the other. |
| `desktop` | `ScreenShield`: 1 pending timer; `LayoutManager`: 3 actors, and the corner with times 0 to 2, distances 3 and 5, a threshold of 5, 2 of an event and a timeout of 1; `Keyboard`: 3 handlers; `DragAndDrop`: 2 draggables; `WorkspaceTracker`: 2 windows, 3 workspaces; `Dash`: 2 applications, 3 items, 1 change | `ShieldSound`; `ChromeSound` of the chrome, the corner, the keyboard and drags; `TrackerSound` of the tracker and the dash; `StepsAreSafe`, with `InhibitedUntilDark` of the shield: an inhibitor that is held is given up only when the curtain is down or there is no reason to hold one, unless logind refuses another or the shell ends |
| `effects` | `PageGeometry`: 4 notebooks in a row, work areas that grow; `WindowEffects`: a window and its dialog, 3 workspaces; `AuthPrompt`: 2 failures allowed, 3 calls of which 2 starts, 1 message, 2 that wait; `Backgrounds`: 2 images, 1 slide show, 2 monitors, 6 backgrounds, 1 change | `EffectsSound` of the tree (`Tiles`, `AssertsHold`), the effects, the switch, the prompt and the backgrounds; `EverythingEnds`: animations are completed, a conversation goes on |
| `answers` | the same | violated: see findings |
| `search_narrows` | `Search`: 1 remote provider, 2 letters | violated: see findings |

A property whose name ends in `Sound` is the conjunction of the named parts that its
module (or, in an `MC` module, each component) states one by one with a comment.

**Bounds.**  The bounds are the constants of the `.cfg` files and the definitions of the
`MC` modules; those that the code does not have (`MaxTold`, `MaxOpen`, `MaxWait`,
`MaxOrder`, `MaxTyped`, `MaxReloads`, `MaxMade`, `MaxListed`, `MaxHandlers`,
`MaxPending`, `MaxItems`, `MaxChanges`, `MaxFades`, `MaxId`, `MaxCalls`, `MaxRequests`, `MaxGone`,
`MaxBackgrounds`, `MaxMonitors`, `MaxLost`) are in the guards of the actions of the
environment or of a counter, each named where it is declared; `MaxPending` of the shield
disables the step that would leave more timers or calls of one kind under way.  The `MC` modules name
further bounds of a run, and say what each leaves out: `OneFullscreen`, `OneStray` (`MCGrabs`);
`NoDrag`, `OneInputMatter` (`MCSession`); `FewWithViews`, `FewWithGone`, `FewWithReload`,
`NotesOnly`, `EventsOnly` (`MCShell`);
`Surroundings` (`MCMessageTray`); `OneHoldsChecks`, `NoChrome`,
`CornerAtRest` (`MCDesktop`); `NoResizeBehind`, `NoSwitch`,
`NoEffects`, `FewStarts` and the places of the pointer (`MCEffects`).  `Network`
was also checked once with two connections and no VPN (4.7 million states) and with
three access points and two dialogs (6.4 million).

**Symmetry** is used for windows, notebooks and splits in `layout`, and for the two
extensions that do not fail in `session`: the specifications only compare them for
equality.  Runs with liveness properties have none.

**Fairness.**  Nothing is assumed of the user, of programs or of other parts of the
shell.  What is assumed weakly fair is what the main loop, the bus or the compositor
does by itself:

| Module | Fair | Why |
|---|---|---|
| `Overview` | `_showDone`, `_hideDone` | `onComplete` of a tween, which no other tween takes over |
| `MessageTray` | `_tweenComplete`, `_notificationTimeout`, `_onNotificationLeftTimeout` | tweens and timers of the main loop |
| `FdoNotificationDaemon` | `_onNameVanished` | the bus tells every watch of a name that has gone |
| `EndSessionDialog` | `OpenEnds`, `CloseEnds`, `FadeEnds`, `Expire`, `OfflineAnswer` | tweens, the timer of the countdown, a D-Bus call that times out |
| `ScreenShield` | `CurtainEnds`, `BeatEnds`, `_onShortLightboxShown`, `ZoomEnds`, `Inhibited`, `FinishEnds` | tweens, timers, a D-Bus call |
| `Search` | `_onSearchTimeout`, `GotResults`, `GotMetas` | a timer, and calls that are answered, fail or are cancelled |
| `WindowEffects` | `TweenEnds` | tweens |
| `AuthPrompt` | `Answered` (a channel that was asked for is opened or refused, a service is begun), `_queueMessageTimeoutFires` | D-Bus calls, a timer; `effects` assumes less: that one of the two goes on |

**Deadlock** checking is off (`CHECK_DEADLOCK FALSE`) where the system may stop: the
actors of `ModalStack` are all destroyed, a fault ends `PageGrab`, bounded requests
have all been made.  It is on in `layout` and `tray`.

## 4. Findings

Three runs show a disagreement of the code with what it says of itself; the trace of
each is the shortest way there.

* `grab_asserts`: "To new workspace" of a window that is on all workspaces inserts it
  twice, and the assertion of `add_client` (`page-notebook.cxx:60`) fails.
* `search_narrows`: a provider is asked to narrow results that the terms do not
  narrow, because `setTerms` compares with terms that were never searched
  (`search.js:560`).
* `answers`: page and the window manager answer the same request of the compositor.
  `shell-wm.c:270` asks for an answer when the effect is over; page gives it at once, so
  that an effect runs on for a window that is taken to be done, and its end is one
  that the compositor does not wait for.

The modules state more properties that the code does not have; they are kept with
their comments, and a configuration that adds one as `INVARIANT` (or `PROPERTY`)
to the run named here shows it.

| Property | Module, instance | What the code does |
|---|---|---|
| `ModalEnds` | `PageGrab`, as `grab` | a window closed during a grab leaves the modal of the plugin begun |
| `AssertsHold` | `PageGeometry`, `Kinds <- BothKinds`, one area of 24 by 24 | the assertions of `split_t` fail when a notebook at its minimum is split the other way (theorem `SqueezedPackShrinks`) |
| `ModeIsThatOfTop`, `FocusIsAlive` | `ModalStack`, 3 and 2 actors | a pop from below two others restores the mode of an actor that has gone; after a pop from the middle, a destroyed focus is not forgotten |
| `OffWhenLocked` | `ExtensionSystem`, 2 extensions, none failing, `ChangesWhileLocked = TRUE`, `MaxOrder = 3` | an extension that is reloaded, or whose download ends, while the session is locked is enabled |
| `NothingWaits`, `ClicksAreHeard` | `MessageTray`, as `tray` | a notification can wait with no banner in the way; a banner can be shown that is deaf to clicks |
| `WaitingIsPending` | `FdoNotificationDaemon`, as `daemon` | a call to the bus that fails leaves the data of a notification for ever (the comment in `NotifyAsync` says otherwise) |
| `HelpersPopInOrder` | `GrabHelper`, as `grab` | a helper is popped that is not on top |
| `ConfirmedReleases`, `CancelIsFinal` | `EndSessionDialog`, as `dialogs` | a confirmed dialog that fades keeps the modal, against the comment of `_fadeOutDialog`; a request may follow its cancellation |
| `LockShows` | `ScreenShield`, as `desktop` | a shield that is locked is not always seen, against the comment in `activate` |
| `GraceIsWhole` | `WorkspaceTracker`, as `desktop` | the time an empty workspace is kept may be cut short |
| `UnminimizeEnds` | `WindowEffects`, as `effects` | `kill-window-effects` leaves out the windows that are shown again |
| `MovingIsSwitched` | `WindowEffects`, as `effects` | the window that moves along is forgotten by a switch that interrupts another, and kept by one that is not animated |
| `DisposedIsUnseen`, `ShowsItsFile`, `TimersAreKnown` | `Backgrounds`, as `effects`, the second with 2 slide shows | a background that one monitor has faded from is disposed of while another shows it; the slides of a show loaded later are used; a show that is loaded anew has a second timer |
| `CurrentIsListed`, `MarksLiveItems`, `ReadyInTheEnd` | `InputSources`, as `session` | a source of a former list stays current; the dot is on an item that has gone; a failure while IBus is connected leaves it unused |
| `UrgentOnTop`, `LoadedIsAsked`, `ClearedGo` | `MessageList`, as `shell` | a message added while an urgent one leaves is above another, against the comment of `_onNotificationAdded`; an answer ends the loading of a later question; "Clear All" leaves events that were sliding |
| `TriggeredIsHit`, `OldEventsGo` | `LayoutManager`, as `desktop` | after the panel is allocated, a corner that had triggered ignores what presses next; events from before the clock wrapped are kept |
| `RedisplayOrders` | `Dash`, 3 applications | a redisplay can leave favorites out of order |
| `OneRequest`, `SucceededStays`, `NeverIdle` | `AuthPrompt`, as `effects` | two channels are asked for; a reset follows a success; the replies of an earlier attempt use up the hold, and on the channel that is opened then nothing is begun until the user cancels |
| `DisabledIsHidden`, `OneHandler` | `Keyboard`, as `desktop` | a disabled keyboard stays in view; a handler of the height is connected twice |
| `ValidAreTheScreens` | `WorkspaceThumbnails`, as `grab` | a removed thumbnail is resurrected by a drop or a tween |
| `ActivatesOnce`, `PanelsComeBack` | `Switcher`, as `shell` | a window is activated twice; panels are not given back |
| `NoStray` | `OverviewWorkspace`, as `grab` | the idle of `_doAddWindow` runs on a workspace that was destroyed (`workspace.js:1492`) |
| `OnlyActiveIsSeen`, `ScrollFollows` | `WorkspacesView`, as `grab` | a workspace that is not the active one stays in view; the adjustment is left behind |
| `NoLateLogin`, `ListsAll`, `ClosedIsGone`, `DestroyedStays`, `SelectedExists`, `ActiveIsShown` | `Network`, as `tray` | a late proxy of the portal helper asks for a login; a hidden access point is lost by a dialog that is opened again; a dialog is destroyed for another, is popped twice when the session locks, connects to a network that has gone; a connection active from the start is not shown |

Reading the code for the models showed more, which no property states:

* the other values of `fault` in `PageGrab`: the tab menu keeps a view that is no
  longer in the tree (`detached`), and a tab dropped nowhere after the notebook it
  was last over is gone is moved to a null notebook (`null_target`);
* fullscreen of a window on all workspaces gives the window to the view of a
  workspace that may not be on the screen, which is why `TiledWindowsArePlaced` is
  about tiled windows only; with `RefuseCtrlClick`, a show of the overview is
  refused and not undone;
* message tray: urgency that is raised while a notification waits does not move it
  in the queue, and a banner whose urgency is lowered stays where banners are off;
* end-session dialog: a request while it is open is never answered, the handler of
  `closed` is kept, sessions are listed twice, an unknown type leaves the
  countdown of the last;
* screen shield: the timer of the beat is not removed; a lock during the
  deactivation leaves a modal that is not seen; a drag that begins while the curtain
  is shown never activates, and one that outlives a deactivation may leave the curtain
  down without its mode;
* popup menus: a submenu that is closed without animation while its opening tween runs
  leaves its arrow turned;
* drags: a refused modal leaves the drag begun; `_dragCancellable` is never set
  again; `drag-end` can be lost; the idle of the hover runs after a cancel;
* dash: `if (!appId in ...)` (dash.js) negates before it looks; items that animate out
  are counted as places; `acceptDrop` throws for what is no longer running;
* layout manager: monitors that vanish make `_prepareStartupAnimation` throw;
* backgrounds: the background of a show that has no slides is never loaded, and its
  actor never shown;
* message list: `this.mapped` of `NotificationSection` is not defined, so a notification
  that comes while the list is open is not acknowledged; `isLoading` stays when the
  proxy of the calendar server fails; the handlers of a former source stay connected;
* thumbnails: `_activeWorkspaceChanged` throws when the active workspace has no
  thumbnail, and `_animatingIndicator` stays set; a stray tween removes the last one;
* switcher: windows that close stay in the list of a popup that caches them;
  `CyclerPopup._onDestroy` throws when there were none;
* search: late metas of earlier results are shown; a cancelled question leaves
  `searchInProgress` set after a reset; `overview.addSearchProvider` calls what
  `viewSelector` does not have (`overview.js:267`);
* applications: icons stay invisible after an animation that was cancelled;
  `_displayingPopup` stays set after a redisplay with an open folder; two folders
  opened within 250 ms give two popups;
* a workspace of the overview: `setReservedSlot` never reserves; an attached dialog
  of an attached dialog loops for ever (`workspace.js:1516`);
* network: `_notification` is never cleared, its handler is not bound; a profile
  that is removed while active leaves an item that throws.

## 5. Proofs

Every theorem holds for all values of the constants that the assumption of its
module admits.  The modules with proofs, the invariant each is built on, and why it
is as strong as it is:

**PageLayout_proofs.**  `Inv` is `TypeOK /\ TreeLinks /\ OneView /\ SelectedIsTab /\
FocusIsVisible` with the mark of the default notebook and the notebooks of fullscreen
views, and is inductive (`Invariance`), with one lemma per action (`MapWindowInv`,
...).  No part is inductive alone: that a view is unique needs that tabs are only in
notebooks of the tree, which needs that the pointers agree when a notebook is closed;
that the focus is visible needs that the selection of a notebook is one of its tabs.
`TreeLinks` is the local half of the tree: parents and packs agree, packs differ.
From it follow `TypesAreRight`, `PointersAgree`, `ViewsAreUnique`,
`FocusStaysVisible`, `NoDanglingNotebook` and the action property `TabsStay`.

That nothing is cut off from the tree (`TreeSound`, in `TreeStaysSound`) is not a local
fact.  A node is below a viewport when it is in every set that has the viewport and
is closed under children; `ReachIsLeast` and `ReachIsClosed` say so of the
definition, and each operation that changes the shape (`SplitTreeSound`,
`CloseTreeSound`, `AddTreeSound`, `RemoveTreeSound`) gives, for each viewport, the new
set and shows it closed and least.  That the tab shown is the most recent
(`SelectedStaysRecent`) needs that every tab is in the history (`TabsAreRecent`), since
the code takes the first of the history that is a tab, and facts on the first of a
history from which one is taken or to which one is moved in front.

`WorkspaceImplementsModes`: `PageLayout` implements `ClientModes` under the mapping of
`Modes`.  Each operation that changes how a window is shown is one abstract step; the
operations on the tree are stutters or changes of the focus.  Every property of the
run `layout` is thus proved.

**Grabs_proofs, workspaces and drags.**  The conjunction of the invariants of `PageGrab` is inductive
(`InvHolds`); `WindowsArePlacedAlways`, `ReferencesAreAliveAlways` and `GrabIsSound`
follow.  Each needs the others: that an owner is alive when the menu drops its view
needs that the grab refers to a tab of its workspace (`GrabbedIsTab`), which an
unmanaged window keeps because it is in one workspace (`InOneWorkspace`), which a new
workspace keeps because nothing is in it yet (`NoneBeyond`).  Actions that create a
workspace or lose monitors change all windows at once and are proved window by
window.

**Grabs_proofs, the grab helpers.**  `HelpersSound` is inductive (`HelpersStaySound`).  That
the two stacks agree is kept by a push and by a pop at the end; in the middle it needs
that what is popped is on top of both.  A folder popup may go from under a menu, and
then the code throws, after which `InStep` promises nothing; a menu may not, since as
long as nothing was thrown the helper of a menu with a grab is on top, and this is what
makes `MenusPopInOrder` hold (`MenusStayInOrder`).  It is kept because nothing else can
be opened while a menu is (the assumption on `Over`; `NoOther`).  A handler is a function
on worlds, and each has a lemma (`Ungrabbed`, `ClosedKeeps`, `GrabKeeps`, `PoppedDownKeeps`,
...): what it leaves is `Good`, and `InStep` if it began so.  Menus closed one after the
other (`ClosedEach`) are a recursive function, proved from the least turn at which the
claim would fail (`ClosedEachKeeps`).  The order of two helpers in a stack is stated
without indices (`Below`), and what appending and removing do to it is proved once
(`Appended`, `Without`).

**EndSessionDialog.**  `DialogSound` is inductive as it stands (`DialogIsSound`).
A lemma for each method of `ModalDialog` says that it leaves a whole dialog; that a
closed dialog has no modal (`ClosedHasNoModal`) and that a dialog told to be open stays
so (`OpenedStaysOpen`) need each other when a request comes while it closes, and the
lists need that a request is answered once (`AnsweredOnce`).

**FdoNotificationDaemon.**  `FdoSound` is inductive (`FdoIsSound`) with two
parts that nobody would ask for by themselves: that an id resolves to one source
needs that it is listed once (`ListedOnce`), or taking it from the list would leave
it there; and that what is closed stays closed needs that a new id was never used
(`FreshIds`).  A notification that goes takes its source with it, the senders that were
kept for it, and every later step of the same handler: `IdsGo` and `OneComes` say what
a set of ids leaving and one coming keep, for the part of the state that handlers
pass on.  The loop of `destroyNonResidentNotifications` is a recursive function of its
turns; that it exists and keeps the invariant is proved from the least turn at which
it would not (`TurnsExist`, `NonResidentGood`).

**Session_proofs, the modal stack.**  For any actors and widgets, `Consistent` and `BottomIsNormal`
hold, and with them `StackSound`, and `ModalStack` implements `ModalService`.  The
inductive invariant is their conjunction with `TypeOK`: `Consistent` needs that a
record that is not the lowest keeps a mode that is not the normal one
(`BottomIsNormal`), which in turn needs that an empty stack has the normal mode.
`RecordsLeft` says what popping a record from the middle leaves, `RecordsCleared` what
the handlers of a destroyed focus leave; the actions follow from these two.

**Session_proofs, the pages of the overview.**  `PagesSound` (`PagesStaySound`; `SelectorIsSound`
says it of the selector by itself, without the bound of the run).  A world is the record
of the pages and the controls; `Good(s, o)` says what is kept while the overview looks like
`o`: `Whole` and `Searching` always, `Full`, `Alone` and `Beside` while it is visible.  That
the overview is never left empty is not inductive: what fades shows the active page at
its end, so it must be another page than the active one (`Full` asks for `view.fading` not
in `{view.active}`), or the end of the fade would leave nothing on its way; and a
controls' slide is only right once no other page is to come (`Beside`).  There is one
lemma for each method (`ShowPage`, `CheckKeeps`, `TextKeeps`, `AnimateIn`, ...).  A step of
the overview is reduced to the pairs of looks it can go between (`AnyTurn`), which follow
from the invariant of `Overview` and its proof, cited through the instance; `FollowKeeps`
then takes a good world along each of them.

**Overview.**  The invariants and the two action properties of the overview
for any set of other actors.  The invariant adds to the properties that an animation
is one of an overview in view and that the stack holds no actor twice.  Each action is
shown to go to a state that is sound (`StepsTo`) through one lemma per method, and the
stack follows by `BecomesInv`.  `SettlesAsAsked`, `ShownHasInput`, `OverviewIsSound` and
`InputFollowsAlways` assume `RefuseCtrlClick = FALSE`; the others do not.

**Desktop_proofs, the screen shield.**  `ShieldSound` is inductive once it says three
things that were not asked at first: `OnlyUnlockWaits` (only a session that is unlocked
waits for its dialog to finish), `DisabledDelaysNothing` and that the curtain has its mode
(`CurtainHasMode`).  Each callback is a function on worlds, and there is a lemma for each
function: it takes `Good` worlds to `Good` ones, and gives up the inhibitor only in the
dark (`Dark`), or leaves it alone (`Steady`).  Two steps may give it up in the light,
and the property names them: the refusal of another one (`Inhibited(FALSE)`) and `Crash`.  In the middle of a callback a dialog may be
there that the curtain does not fit (`Solid` without `Attended`), which the callback
mends before it ends.  `ShieldIsSound` and `SleepsInTheDark` (the action property
`InhibitedUntilDark`) follow from the same lemmas.

**Desktop_proofs, chrome, keyboard and drags.**  `ChromeStaysSound`, from `DesktopInv`, the
conjunction of an invariant for each.  `ChromeInv` adds that regions that are up to date
know of the popup that is there (`PopupIsKnown`), or a popup that goes would not be
noticed; the corner's pressure is the sum of the events that are kept, and as the sum
is a recursive function, its lemmas (what an event that comes adds, what those too old
take) are proved from the least index where they would fail.  `KeyboardInv` adds what a
request that rests, and one that waits for its idle, will find (`KeyboardSettles`).
`DragInv` says of the draggables together that what has an actor is the only one that has
the modal and is what is pressed (`Poised`), and that it will give the modal back
(`Returned`), as long as no modal was refused; `WholeBut` is what holds between the end
of an actor and the end of the drag of it, for handlers that run there.

**PageLayout_proofs, PageSplit.**  For all lengths and ratios, which assertions of
`compute_children_allocation` can fail: none when the length is enough (`PacksFit`,
`HalvesFit`, `LateMinimum`), and exactly those of section 4 otherwise
(`FirstPackPays`, `SqueezedPackShrinks`).

**Only model-checked.**  Liveness (`AllEnd`, `BannerGoes`, `LeaversAreForgotten`,
`CountdownEnds`, `EverythingEnds`), which needs ENABLED and fairness.  `TraySound`:
the order of the queue holds only while no urgency changes, and the queue is
filtered by `SelectSeq`, a recursive definition that the provers do not unfold.  The
invariants of the other components: `WorkspacesSound`, `ExtensionsSound`,
`AppsSound`, `SearchSound`, `SwitcherSound`, `ListsSound`, `GtkSound`, `NetworkSound`,
`InputSourcesSound`, `MenuSound`, `TrackerSound` (with the dash), `EffectsSound`, of
which `Tiles` and `AssertsHold` are about a tree of any depth and would need an
induction over it.  The action
properties `SeparatorsPart` and those of `StepsAreSafe` other than
`InhibitedUntilDark`.

## 6. What is left out

* Of `page`: drawing, themes, configuration, the stacking order of layers, the drag
  of floating windows and the key bindings that call operations already modelled.
* Of the tree: whether a split is vertical or horizontal (only in `PageGeometry`).
* `Sticky` is a constant: no window becomes or ceases to be on all workspaces.
* `PageGrab` lets a workspace that is enabled focus any of its views, instead of
  the front of its history.
* Of the modal stack: a pop of an actor that is not on it, which throws.
* Of the screen shield: the login screen, and a drag that catches a rising curtain.
* Of a workspace of the overview: the timers of the close button; attached dialogs.
* Of a popup menu: the panel and the menus that are in it, what items look like.
* Of the thumbnails: what is drawn inside one (`WorkspaceThumbnail`).
* Object manager, component agents (network, polkit, keyring, telepathy), status menus
  other than the network and the input sources: requests and their answers that would
  each need a module of their own.
* Of the message list: the media players, midnight, what messages look like.
* Of the hot corner: the corners of other monitors and the ripples; of a switch of
  workspaces: how windows are stacked; of backgrounds: colors and sizes.
* Applications and windows as `shell-app*.c` and `shell-window-tracker.c` track them:
  the modules take them as given by mutter.
* Themes, St, textures, recorder, screenshots, legacy tray, GTK menus, the calendar
  server, the hotplug sniffer, the portal helper's own process, preferences, the
  plugin of the browser, start-up and utilities: drawing, glue and small programs.

`components` of `PROJECT.json` gives the reason for each.
