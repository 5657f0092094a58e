---------------------------- MODULE Backgrounds -----------------------------
(***************************************************************************)
(* The background of the desktop (js/ui/background.js): managers with an   *)
(* actor for a monitor, the source that they share, and its backgrounds,   *)
(* one for all monitors or, for a slide show, one for each.  Images, slide *)
(* shows and the signal that a background is loaded come later, when the   *)
(* picture, the monitors or the files may be others; a new actor replaces  *)
(* the old one, which fades, once its background is loaded.                *)
(*                                                                         *)
(* The managers of the desktop are made anew when the monitors change; one *)
(* of a thumbnail of the overview comes and goes.  The compositor loads an *)
(* image that was asked for.                                               *)
(*                                                                         *)
(* Abstracted: colors, sizes, the time: any slides of a show may be those  *)
(* of the moment, and a show changes with time.  A change of any key of    *)
(* the setting is one of the picture.                                      *)
(***************************************************************************)
EXTENDS Integers, FiniteSets, Sequences, FiniteSetsExt, SequencesExt

CONSTANTS
  Image, Show,     \* the pictures; a show is an .xml file
  Slides,          \* the images that a show may need at a time
  None,            \* no picture, no show
  MaxMonitors,
  MaxBackgrounds,  \* bound on those that something refers to
  MaxChanges       \* bound on changes of files, monitors and timezone

BackgroundsAssumption ==
  /\ Image \cap Show = {} /\ None \notin Image \cup Show
  /\ Slides \in [Show -> SUBSET (SUBSET Image)]
  /\ MaxMonitors \in Nat \ {0} /\ MaxBackgrounds \in Nat \ {0} /\ MaxChanges \in Nat

Picture == Image \cup Show \cup {None}
Index == 0..MaxMonitors - 1
Id == 1..MaxBackgrounds
Other == -1
Manager == Index \cup {Other}   \* those of the desktop by their monitor

VARIABLES
  picture,      \* the setting
  monitors,     \* how many there are
  backgrounds,  \* Background objects, see NewBackground
  source,       \* the BackgroundSource, with its _useCount
  managers,     \* the BackgroundManagers that there are
  fading,       \* backgrounds whose actors fade
  animation,    \* BackgroundCache._animations of the schema, by its file
  loaded,       \* what the cache of images has
  changes       \* counted for the bound

vars == <<picture, monitors, backgrounds, source, managers, fading, animation, loaded, changes>>

-----------------------------------------------------------------------------
Free == [used |-> FALSE]
NewBackground(f, i) ==
  [used |-> TRUE, file |-> f, index |-> i, destroyed |-> FALSE, disposed |-> FALSE,
   isLoaded |-> FALSE, emits |-> FALSE,  \* 'loaded' is queued
   animation |-> None, load |-> None,    \* what getAnimation was asked for
   ready |-> FALSE,                      \* and that onLoaded is queued
   updates |-> {},                       \* the images that each waits for
   watches |-> {}, timers |-> 0, timerId |-> FALSE]

World == [picture |-> picture, monitors |-> monitors, b |-> backgrounds, source |-> source,
          m |-> managers, fading |-> fading, animation |-> animation, loaded |-> loaded]

Referred(w) ==
  ToSet(w.source.at) \cup w.fading
    \cup {w.m[k].actor : k \in DOMAIN w.m} \cup {w.m[k].new : k \in DOMAIN w.m}
Pends(b) == b.used /\ (b.emits \/ b.load # None \/ b.updates # {} \/ b.timers > 0)

(* What nothing refers to any more is forgotten.                           *)
Becomes(w) ==
  /\ picture' = w.picture /\ monitors' = w.monitors /\ source' = w.source /\ managers' = w.m
  /\ fading' = w.fading /\ animation' = w.animation /\ loaded' = w.loaded
  /\ backgrounds' = [i \in Id |-> IF i \in Referred(w) \/ Pends(w.b[i]) THEN w.b[i] ELSE Free]

Live(w) == {i \in Id : w.b[i].used /\ ~w.b[i].destroyed}

-----------------------------------------------------------------------------
(* Background                                                              *)
_setLoaded(b) == IF b.isLoaded THEN b ELSE [b EXCEPT !.isLoaded = TRUE, !.emits = TRUE]

_removeAnimationTimeout(b) ==
  IF b.timerId THEN [b EXCEPT !.timers = @ - 1, !.timerId = FALSE] ELSE b

_queueUpdateAnimation(b) ==
  IF b.timerId \/ b.destroyed THEN b ELSE [b EXCEPT !.timers = @ + 1, !.timerId = TRUE]

(* What waits for an image is finished when it is the last.                *)
Finish(b) ==
  LET set == _setLoaded(b) IN IF b.file \in Show THEN _queueUpdateAnimation(set) ELSE set

Needs(b, images, have) ==
  IF images \subseteq have THEN Finish(b) ELSE [b EXCEPT !.updates = @ \cup {images \ have}]

(* Animation.update: what the show needs at the moment.                    *)
update(file) == Slides[file]

(* A show that has no slides needs nothing and is never finished.          *)
_updateAnimation(b, slides, have) ==
  LET zero == [b EXCEPT !.timerId = FALSE, !.watches = @ \cup slides]
  IN  IF slides = {} THEN zero ELSE Needs(zero, slides, have)

_loadAnimation(b, file, cached) == [b EXCEPT !.load = file, !.ready = cached = file]

_load(b, w) ==
  CASE b.file = None    -> _setLoaded(b)
    [] b.file \in Image -> Needs([b EXCEPT !.watches = {b.file}], {b.file}, w.loaded)
    [] b.file \in Show  -> _loadAnimation(b, b.file, w.animation)

Destroyed(b) == [_removeAnimationTimeout(b) EXCEPT !.destroyed = TRUE, !.watches = {}]

-----------------------------------------------------------------------------
(* BackgroundSource and BackgroundManager                                  *)
Fresh(w) == CHOOSE i \in Id : ~w.b[i].used /\ i \notin Referred(w)

IndexOf(w, k) == IF w.picture \in Show /\ k # Other THEN k ELSE 0

getBackground(w, k) ==
  LET i == IndexOf(w, k)
      new == Fresh(w)
  IN  IF w.source.at[i + 1] # 0 THEN w
      ELSE [w EXCEPT !.source.at[i + 1] = new, !.b[new] = _load(NewBackground(w.picture, i), w)]

(* Mutant of _swapBackgroundActor: the new actor is not forgotten.         *)
SwapsOnly(w, k) ==
  [w EXCEPT !.fading = @ \cup {w.m[k].actor},
            !.m[k].actor = w.m[k].new, !.m[k].hears = w.m[k].newHears]

_swapBackgroundActor(w, k) ==
  [w EXCEPT !.fading = @ \cup {w.m[k].actor},
            !.m[k] = [actor |-> @.new, hears |-> @.newHears, new |-> 0, newHears |-> FALSE]]

(* The new actor is there at once if its background is loaded.             *)
_updateBackgroundActor(w, k) ==
  LET got == getBackground(w, k)
      b == got.source.at[IndexOf(w, k) + 1]
      made == [got EXCEPT !.m[k].new = b, !.m[k].newHears = TRUE]
  IN  IF got.b[b].isLoaded THEN _swapBackgroundActor(made, k) ELSE made

(* 'changed' of a background: its source drops it, and each manager that   *)
(* hears it makes a new actor.                                             *)
Changed(w, i) ==
  LET b == w.b[i]
      dropped == [w EXCEPT !.b[i] = Destroyed(@), !.source.at[b.index + 1] = 0]
      Hears(m) == (m.actor = i /\ m.hears) \/ (m.new = i /\ m.newHears)
      Deaf(v, k) == [v EXCEPT !.m[k].hears = @ /\ v.m[k].actor # i,
                              !.m[k].newHears = @ /\ v.m[k].new # i]
      Update(v, k) == IF Hears(w.m[k]) THEN _updateBackgroundActor(Deaf(v, k), k) ELSE v
  IN  FoldLeft(Update, dropped, SetToSeq(DOMAIN w.m))

EachChanged(w, s) == FoldLeft(Changed, w, SetToSeq(s))

(* A manager is made or destroyed; with the last one the source goes.      *)
Made(w, k) ==
  LET used == [w EXCEPT !.source.there = TRUE, !.source.useCount = @ + 1]
      got == getBackground(used, k)
      m == [actor |-> got.source.at[IndexOf(w, k) + 1], hears |-> TRUE, new |-> 0, newHears |-> FALSE]
  IN  [got EXCEPT !.m = [j \in DOMAIN @ \cup {k} |-> IF j = k THEN m ELSE @[j]]]

NoSource == [there |-> FALSE, useCount |-> 0, at |-> [i \in 1..MaxMonitors |-> 0]]

(* BackgroundSource.destroy                                                *)
destroy(w) ==
  LET mine == ToSet(w.source.at)
  IN  [w EXCEPT !.source = NoSource,
                !.b = [i \in Id |-> IF i \in mine THEN Destroyed(@[i]) ELSE @[i]]]

Gone(w, k) ==
  LET without == [w EXCEPT !.m = [j \in DOMAIN @ \ {k} |-> @[j]], !.source.useCount = @ - 1]
  IN  IF without.source.useCount > 0 THEN without ELSE destroy(without)

-----------------------------------------------------------------------------
Count == changes < MaxChanges /\ changes' = changes + 1

(* The setting, or a file that the backgrounds watch, changes.             *)
PictureChanges(f) ==
  /\ Count /\ f # picture
  /\ Becomes(EachChanged([World EXCEPT !.picture = f], Live(World)))

FileChanged(f) ==
  /\ Count
  /\ Becomes(EachChanged([World EXCEPT !.loaded = @ \ {f}],
                         {i \in Live(World) : f \in backgrounds[i].watches}))

(* An image or a show is loaded.                                           *)
ImageLoads(f) ==
  LET Left(b) == {u \ {f} : u \in b.updates}
      Told(b) == IF {} \in Left(b) THEN Finish([b EXCEPT !.updates = Left(b) \ {{}}])
                 ELSE [b EXCEPT !.updates = Left(b)]
  IN  /\ f \notin loaded
      /\ \E i \in Id : backgrounds[i].used /\ f \in UNION backgrounds[i].updates
      /\ Becomes([World EXCEPT !.loaded = @ \cup {f},
                    !.b = [i \in Id |-> IF @[i].used THEN Told(@[i]) ELSE @[i]]])
      /\ UNCHANGED changes

ShowLoads(i) ==
  LET b == backgrounds[i]
  IN  /\ b.used /\ b.load # None /\ ~b.ready
      /\ Becomes([World EXCEPT !.animation = b.load, !.b[i].ready = TRUE])
      /\ UNCHANGED changes

(* What the cache has by then is the animation, whatever was asked for.    *)
onLoaded(i) ==
  LET b == [backgrounds[i] EXCEPT !.load = None, !.ready = FALSE, !.animation = animation]
  IN  /\ backgrounds[i].used /\ backgrounds[i].ready
      /\ \E slides \in update(animation) :
           Becomes([World EXCEPT !.b[i] =
             IF b.destroyed THEN _setLoaded(b)
             ELSE LET u == _updateAnimation(b, slides, loaded)
                  IN  [u EXCEPT !.watches = @ \cup {backgrounds[i].load}]])
      /\ UNCHANGED changes

(* The idle of _setLoaded.                                                 *)
EmitsLoaded(i) ==
  LET w == [World EXCEPT !.b[i].emits = FALSE]
      Waits == {k \in DOMAIN managers : managers[k].new = i}
  IN  /\ backgrounds[i].used /\ backgrounds[i].emits
      /\ Becomes(FoldLeft(_swapBackgroundActor, w, SetToSeq(Waits)))
      /\ UNCHANGED changes

(* A timer that is left of a destroyed background throws.                  *)
UpdateTimerFires(i) ==
  LET b == [backgrounds[i] EXCEPT !.timers = @ - 1, !.timerId = FALSE]
  IN  /\ backgrounds[i].used /\ backgrounds[i].timers > 0
      /\ \E slides \in update(b.animation) :
           Becomes([World EXCEPT !.b[i] =
             IF b.destroyed THEN b ELSE _updateAnimation(b, slides, loaded)])
      /\ UNCHANGED changes

FadeEnds(i) ==
  /\ i \in fading
  /\ Becomes([World EXCEPT !.fading = @ \ {i}, !.b[i].disposed = TRUE])
  /\ UNCHANGED changes

-----------------------------------------------------------------------------
Animated(w) == {i \in Live(w) : w.b[i].animation # None}

(* What backgrounds i with the animation do, each with slides of its own.  *)
EachRefreshes(w, s) ==
  \E slides \in [s -> UNION {update(w.b[i].animation) : i \in s}] :
    /\ \A i \in s : slides[i] \in update(w.b[i].animation)
    /\ Becomes([w EXCEPT !.b = [i \in Id |->
         IF i \in s THEN _updateAnimation(_removeAnimationTimeout(@[i]), slides[i], w.loaded)
         ELSE @[i]]])

(* The source drops what it has for monitors that have gone.               *)
_onMonitorsChanged(w, n) ==
  LET Beyond == {i \in Live(w) : w.b[i].index >= n}
      kept == [w EXCEPT !.b = [i \in Id |-> IF i \in Beyond THEN Destroyed(@[i]) ELSE @[i]],
                        !.source.at = [i \in DOMAIN @ |-> IF i > n THEN 0 ELSE @[i]]]
  IN  EachRefreshes(kept, Animated(kept))

(* The managers of the desktop are made anew, then a source that is still  *)
(* the same hears of it.                                                   *)
MonitorsChange(n) ==
  LET w == [World EXCEPT !.monitors = n]
      without == FoldLeft(Gone, w, SetToSeq(DOMAIN managers \ {Other}))
      made == FoldLeft(Made, without, SetToSeq(0..n - 1))
  IN  /\ Count /\ n # monitors
      /\ IF Other \in DOMAIN managers THEN _onMonitorsChanged(made, n) ELSE Becomes(made)

PrepareForSleep ==
  /\ Count /\ Animated(World) # {}
  /\ EachRefreshes(World, Animated(World))

(* The show is loaded again; its timer is not removed then.                *)
TimezoneChanges ==
  /\ Count /\ Animated(World) # {} /\ \A i \in Animated(World) : backgrounds[i].load = None
  /\ Becomes([World EXCEPT !.b = [i \in Id |->
       IF i \in Animated(World) THEN _loadAnimation(@[i], @[i].animation, animation) ELSE @[i]]])

OtherComes ==
  /\ Other \notin DOMAIN managers /\ Becomes(Made(World, Other)) /\ UNCHANGED changes
OtherGoes ==
  /\ Other \in DOMAIN managers /\ Becomes(Gone(World, Other)) /\ UNCHANGED changes

-----------------------------------------------------------------------------
Init ==
  \E f \in Picture, n \in 1..MaxMonitors :
    LET empty == [picture |-> f, monitors |-> n, b |-> [i \in Id |-> Free], source |-> NoSource,
                  m |-> <<>>, fading |-> {}, animation |-> None, loaded |-> {}]
        w == FoldLeft(Made, empty, SetToSeq(0..n - 1))
    IN  /\ picture = f /\ monitors = n /\ backgrounds = w.b /\ source = w.source
        /\ managers = w.m /\ fading = {} /\ animation = None /\ loaded = {} /\ changes = 0

Next ==
  \/ PrepareForSleep \/ TimezoneChanges \/ OtherComes \/ OtherGoes
  \/ \E f \in Image : ImageLoads(f)
  \/ \E i \in Id : ShowLoads(i) \/ onLoaded(i) \/ EmitsLoaded(i)
  \/ \E f \in Picture : PictureChanges(f) \/ (f \in Image \cup Show /\ FileChanged(f))
  \/ \E n \in 1..MaxMonitors : MonitorsChange(n)
  \/ \E i \in Id : UpdateTimerFires(i) \/ FadeEnds(i)

Spec == Init /\ [][Next]_vars
-----------------------------------------------------------------------------
TypeOK ==
  /\ picture \in Picture /\ monitors \in 1..MaxMonitors
  /\ DOMAIN managers \subseteq Manager /\ fading \subseteq Id
  /\ \A k \in DOMAIN managers : backgrounds[managers[k].actor].used
  /\ animation \in Show \cup {None} /\ loaded \subseteq Image

(* The actor that a manager has or will have hears the changes of the      *)
(* background that its source has for its monitor, which is of the picture *)
(* that is set: no monitor is left behind by a change.                     *)
Latest(m) == IF m.new # 0 THEN m.new ELSE m.actor
NoneLeftBehind ==
  \A k \in DOMAIN managers :
    LET m == managers[k]
    IN  /\ Latest(m) = source.at[IndexOf(World, k) + 1]
        /\ backgrounds[Latest(m)].file = picture
        /\ IF m.new # 0 THEN m.newHears ELSE m.hears

(* A new actor waits for a signal that is still to come: its background   *)
(* is loaded and the idle that says so has not run, or what it waits for   *)
(* is under way, unless it is a show that has no slides.                   *)
UnderWay(b) ==
  \/ b.load # None \/ b.updates # {}
  \/ b.animation # None /\ {} \in Slides[b.animation]
SignalToCome ==
  \A k \in DOMAIN managers :
    managers[k].new # 0 =>
      LET b == backgrounds[managers[k].new] IN IF b.isLoaded THEN b.emits ELSE UnderWay(b)

(* The source has the backgrounds that are not destroyed, and there is one *)
(* while there are managers.                                               *)
SourceIsCounted ==
  /\ Live(World) = ToSet(source.at) \ {0}
  /\ source.useCount = Cardinality(DOMAIN managers) /\ source.there = (source.useCount > 0)
  /\ \A i \in Live(World) : source.at[backgrounds[i].index + 1] = i

BackgroundsSound == TypeOK /\ NoneLeftBehind /\ SignalToCome /\ SourceIsCounted

(* These say more, and do not hold: a background that one monitor has done *)
(* fading from is disposed of while another still shows it; a background   *)
(* has the slides of a show that was loaded later; and a show that is      *)
(* loaded anew has a timer that nothing removes.                           *)
DisposedIsUnseen == \A k \in DOMAIN managers : ~backgrounds[managers[k].actor].disposed
ShowsItsFile     == \A i \in Live(World) : backgrounds[i].animation \in {None, backgrounds[i].file}
TimersAreKnown   == \A i \in Id : backgrounds[i].used =>
                      backgrounds[i].timers = IF backgrounds[i].timerId THEN 1 ELSE 0

=============================================================================
