--------------------------------- MODULE Dash ---------------------------------
(***************************************************************************)
(* The dash (js/ui/dash.js) and the favorites it shows (appFavorites.js).  *)
(* What the dash holds is brought to the favorites and the running         *)
(* applications by a redisplay that is queued and may wait; an item that   *)
(* goes is animated while the overview is shown, and stays in the box      *)
(* until that ends.  A drag shows a placeholder at the place where the     *)
(* favorite would be put.                                                  *)
(***************************************************************************)
EXTENDS Naturals, Sequences, FiniteSets
LOCAL INSTANCE SequencesExt
LOCAL INSTANCE Functions

CONSTANTS App,
          WindowBacked,         \* applications that cannot be favorites
          Placeholder, Target,  \* items of the box that stand for no application
          NoDrop,
          Unplaced,             \* the position of a favorite put last
          MaxItems,             \* bound: items of the box
          MaxChanges            \* bound: changes that wait for a redisplay

ConstantsAssumption ==
  /\ Cardinality({Placeholder, Target}) = 2 /\ {Placeholder, Target} \cap App = {}
  /\ WindowBacked \subseteq App /\ {MaxItems, MaxChanges} \subseteq Nat \ {0} /\ Unplaced \notin Nat

VARIABLES
  _favorites,   \* the ids of the setting, and the map that keeps their order
  running,      \* get_running
  _box,         \* the items, each [what, leaving]
  redisplayQueued,  \* changes that wait for a redisplay
  animates,     \* the overview is shown and not in a transition
  dragged,      \* the application of the drag, or NoDrop
  dropped       \* the favorite that a drop will set: [app, pos,
                \* src: it was a favorite], or NoDrop

vars == <<_favorites, running, _box, redisplayQueued, animates, dragged, dropped>>

-----------------------------------------------------------------------------
Live(what) == [what |-> what, leaving |-> FALSE]
Has(what) == \E i \in DOMAIN _box : _box[i] = Live(what)
Wanted == _favorites \o SelectSeq(running, LAMBDA a : a \notin Range(_favorites))
Shown(box) == LET live == SelectSeq(box, LAMBDA it : ~it.leaving /\ it.what \in App)
              IN  [i \in DOMAIN live |-> live[i].what]
AppsOf(box) == SelectSeq(box, LAMBDA it : it.what \in App)

(* An item is animated out, or goes at once.                               *)
Leaves(box, goes(_)) ==
  IF animates THEN [i \in DOMAIN box |-> IF goes(i) THEN [box[i] EXCEPT !.leaving = TRUE] ELSE box[i]]
  ELSE LET kept == SetToSortSeq({i \in DOMAIN box : ~goes(i)}, <)
       IN  [i \in DOMAIN kept |-> box[kept[i]]]

(* One turn of the loop of _redisplay over the applications shown and      *)
(* those wanted: an item is kept, or removed, or added at a position.      *)
(* One that has moved is shift places lower for each that was removed.     *)
Turn(old, new, w, shift) ==
  LET At(s, k) == IF k <= Len(s) THEN s[k] ELSE NoDrop
      o == At(old, w.i)
      a == At(new, w.j)
      Add(pos) == [w EXCEPT !.j = @ + 1, !.added = Append(@, [app |-> a, pos |-> pos])]
      Drop == [w EXCEPT !.i = @ + 1, !.removed = @ \cup {w.i}]
      insertHere == At(new, w.j + 1) # NoDrop /\ At(new, w.j + 1) = o
      alreadyRemoved == \E k \in w.removed : old[k] = a
  IN  IF o = a THEN [w EXCEPT !.i = @ + 1, !.j = @ + 1]
      ELSE IF o # NoDrop /\ o \notin Range(new) THEN Drop
      ELSE IF a # NoDrop /\ a \notin Range(old) THEN Add(w.j)
      ELSE IF insertHere \/ alreadyRemoved THEN Add(w.j + shift * Cardinality(w.removed))
      ELSE Drop

Start == [i |-> 1, j |-> 1, added |-> <<>>, removed |-> {}]

(* What is added at which position, and the old items that are removed.    *)
Diff(old, new) ==
  FoldLeft(LAMBDA w, n : Turn(old, new, w, 1), Start, [n \in 1..Len(old) + Len(new) |-> n])

(* The items are inserted before those removed go.                         *)
_redisplayed(box, new) ==
  LET places == SetToSortSeq({i \in DOMAIN box : box[i].what \in App}, <)
      diff == Diff([i \in DOMAIN places |-> box[places[i]].what], new)
      gone == {places[k] : k \in diff.removed}
      tagged == [i \in DOMAIN box |-> [it |-> box[i], gone |-> i \in gone]]
      Insert(b, add) == InsertAt(b, IF add.pos > Len(b) THEN Len(b) + 1 ELSE add.pos,
                                 [it |-> Live(add.app), gone |-> FALSE])
      all == FoldLeft(Insert, tagged, diff.added)
  IN  Leaves([i \in DOMAIN all |-> all[i].it], LAMBDA i : all[i].gone)

(* _clearDragPlaceholder and _clearEmptyDropTarget: always animated.       *)
_endDrag(box) ==
  [i \in DOMAIN box |-> IF box[i].what \in {Placeholder, Target} THEN [box[i] EXCEPT !.leaving = TRUE]
                        ELSE box[i]]

Without(s, a) == SelectSeq(s, LAMBDA x : x # a)

(* addFavoriteAtPos, with a position counted from 0.                       *)
_addFavorite(favs, a, pos) ==
  IF a \in Range(favs) THEN favs
  ELSE IF pos = Unplaced \/ pos >= Len(favs) THEN Append(favs, a) ELSE InsertAt(favs, pos + 1, a)

-----------------------------------------------------------------------------
Init ==
  /\ _favorites = <<>> /\ running = <<>> /\ _box = <<>>
  /\ redisplayQueued = 1 /\ animates = FALSE /\ dragged = NoDrop /\ dropped = NoDrop

(* An application starts, or its last window closes.                       *)
StateChanged(a) ==
  /\ redisplayQueued < MaxChanges
  /\ running' = IF a \in Range(running) THEN Without(running, a) ELSE Append(running, a)
  /\ redisplayQueued' = redisplayQueued + 1
  /\ UNCHANGED <<_favorites, _box, animates, dragged, dropped>>

(* addFavorite, removeFavorite: from a menu, or undone.                    *)
FavoriteChanged(a) ==
  /\ a \notin WindowBacked /\ redisplayQueued < MaxChanges
  /\ _favorites' = IF a \in Range(_favorites) THEN Without(_favorites, a)
                   ELSE _addFavorite(_favorites, a, Unplaced)
  /\ redisplayQueued' = redisplayQueued + 1
  /\ UNCHANGED <<running, _box, animates, dragged, dropped>>

OverviewChanged ==
  /\ animates' = ~animates
  /\ UNCHANGED <<_favorites, running, _box, redisplayQueued, dragged, dropped>>

_redisplay ==
  /\ redisplayQueued > 0
  /\ redisplayQueued' = 0
  /\ _box' = _redisplayed(_box, Wanted) /\ Len(_box') <= MaxItems
  /\ UNCHANGED <<_favorites, running, animates, dragged, dropped>>

(* animateOutAndDestroy has ended.                                         *)
AnimatedOut(i) ==
  /\ i \in DOMAIN _box /\ _box[i].leaving
  /\ _box' = Remove(_box, _box[i])
  /\ UNCHANGED <<_favorites, running, redisplayQueued, animates, dragged, dropped>>

(* In the overview, after the redraw that a drop waits for.                *)
_onDragBegin(a) ==
  /\ dragged = NoDrop /\ dropped = NoDrop /\ animates
  /\ dragged' = a
  /\ _box' = IF _box = <<>> THEN <<Live(Target)>> ELSE _box
  /\ UNCHANGED <<_favorites, running, redisplayQueued, animates, dropped>>

CanPlace(pos) ==
  pos <= Len(_favorites) /\ ~\E i \in DOMAIN _box : _box[i].what = Placeholder /\ _box[i].leaving

(* The placeholder is put where the pointer is, unless that is beside the  *)
(* application itself, and while no other is being animated out.           *)
handleDragOver(pos) ==
  LET n == Len(_box) - (IF Has(Placeholder) THEN 1 ELSE 0)
      beside == \E k \in DOMAIN _favorites : _favorites[k] = dragged /\ pos \in {k - 1, k}
      cleared == [i \in DOMAIN _box |-> IF _box[i] = Live(Placeholder)
                                        THEN [_box[i] EXCEPT !.leaving = TRUE] ELSE _box[i]]
  IN  /\ dragged \in App \ WindowBacked /\ pos \in 0..n
      /\ Has(Target) => pos = 0
      /\ \/ pos > Len(_favorites) /\ _box' = cleared
         \/ CanPlace(pos) /\ beside /\ _box' = cleared
         \/ /\ CanPlace(pos) /\ ~beside
            /\ Len(_box) < MaxItems
            /\ _box' = InsertAt(SelectSeq(_box, LAMBDA it : it # Live(Placeholder)), pos + 1,
                                Live(Placeholder))
      /\ UNCHANGED <<_favorites, running, redisplayQueued, animates, dragged, dropped>>

(* The items before the placeholder that are favorites, but not the one    *)
(* that is dragged.                                                        *)
acceptDrop ==
  LET place == CHOOSE i \in DOMAIN _box : _box[i] = Live(Placeholder)
      before == {i \in 1..place - 1 : _box[i].what # dragged /\ _box[i].what \in Range(_favorites)}
  IN  /\ dragged \in App \ WindowBacked /\ dropped = NoDrop
      /\ dropped' = IF ~Has(Placeholder) THEN NoDrop
                    ELSE [app |-> dragged, pos |-> Cardinality(before),
                          src |-> dragged \in Range(_favorites)]
      /\ dragged' = NoDrop /\ _box' = _endDrag(_box)
      /\ UNCHANGED <<_favorites, running, redisplayQueued, animates>>

(* item-drag-cancelled, or the drop is taken elsewhere.                    *)
DragEnds ==
  /\ dragged # NoDrop /\ dragged' = NoDrop /\ _box' = _endDrag(_box)
  /\ UNCHANGED <<_favorites, running, redisplayQueued, animates, dropped>>

(* Before the next redraw, moveFavoriteToPos or addFavoriteAtPos.          *)
DropLater ==
  /\ dropped # NoDrop /\ redisplayQueued < MaxChanges
  /\ LET others == IF dropped.src THEN Without(_favorites, dropped.app) ELSE _favorites
     IN  _favorites' = _addFavorite(others, dropped.app, dropped.pos)
  /\ redisplayQueued' = redisplayQueued + 1 /\ dropped' = NoDrop
  /\ UNCHANGED <<running, _box, animates, dragged>>

Next ==
  \/ \E a \in App : StateChanged(a) \/ FavoriteChanged(a) \/ _onDragBegin(a)
  \/ \E i \in 1..MaxItems : AnimatedOut(i) \/ handleDragOver(i - 1)
  \/ OverviewChanged \/ _redisplay \/ acceptDrop \/ DragEnds \/ DropLater

Spec == Init /\ [][Next]_vars

-----------------------------------------------------------------------------
TypeOK ==
  /\ _favorites \in Seq(App) /\ running \in Seq(App)
  /\ _box \in Seq([what : App \cup {Placeholder, Target}, leaving : BOOLEAN])
  /\ redisplayQueued \in 0..MaxChanges /\ animates \in BOOLEAN
  /\ dragged \in App \cup {NoDrop}
  /\ dropped = NoDrop \/ dropped \in [app : App, pos : Nat, src : BOOLEAN]

(* No application is shown twice: it may be both a favorite and running,   *)
(* dropped where it is already, or come back while its item goes.          *)
NoTwins == IsInjective(Shown(_box)) /\ IsInjective(_favorites)

(* The placeholder and the target are there only in a drag.                *)
PlaceholderInDrag == dragged = NoDrop => ~Has(Placeholder) /\ ~Has(Target)

(* acceptDrop asks every item before the placeholder for its application:  *)
(* none is an older placeholder on its way out.  (The target of a drag     *)
(* that ended just before may be: then the drop fails.)                    *)
ItemsBeforeHaveApps ==
  \A i, k \in DOMAIN _box : _box[i] = Live(Placeholder) /\ k < i => _box[k].what # Placeholder

(* A redisplay that finds no item on its way out shows the applications    *)
(* that are wanted, whatever has changed since the last.                   *)
RedisplayShowsAll ==
  [][_redisplay /\ (\A i \in DOMAIN _box : ~_box[i].leaving)
       => ToSet(Shown(_box')) = ToSet(Wanted)]_vars

(* They are in the wanted order too if none is new, however many have      *)
(* moved or gone, or if some are new and the others stay as they are.      *)
RedisplayKeepsOrder ==
  [][_redisplay /\ (\A i \in DOMAIN _box : _box[i].what \in App /\ ~_box[i].leaving)
       /\ (ToSet(Wanted) \subseteq ToSet(Shown(_box))
           \/ SelectSeq(Wanted, LAMBDA a : a \in ToSet(Shown(_box))) = Shown(_box))
       => Shown(_box') = Wanted]_vars

(* Not a property of the code: when one application goes and another comes *)
(* in the same redisplay, the new item is put one place too high.          *)
RedisplayOrders ==
  [][_redisplay /\ (\A i \in DOMAIN _box : _box[i].what \in App /\ ~_box[i].leaving)
       => Shown(_box') = Wanted]_vars

(* The favorites and the items of the box that stand for them agree.       *)
DashSound == TypeOK /\ NoTwins /\ PlaceholderInDrag /\ ItemsBeforeHaveApps

=============================================================================
