---------------------------- MODULE PageGeometry ----------------------------
(***************************************************************************)
(* The allocation of the subtree of one viewport: nested splits, each of   *)
(* which shares its rectangle between its packs (PageSplit), as notebooks  *)
(* are split and closed, split bars dragged and the work area changed.     *)
(*                                                                         *)
(* The rectangles are kept in the nodes, as in the code, because an        *)
(* operation recomputes only part of the tree: replace() updates the split *)
(* it is called on and what is below, never what is above.  Positions are  *)
(* left out; they follow from the lengths.                                 *)
(***************************************************************************)
EXTENDS PageSplit, Sequences, FiniteSets

CONSTANTS
  Kinds,         \* the kinds of split that are made: "vertical", "horizontal"
  Areas,         \* the sizes [w, h] the work area may have
  CanShrink,     \* whether a new work area may be smaller than the old one
  MaxNotebooks,  \* bound on the notebooks of the viewport
  Pointer        \* the places, in twentieths of a split, where a bar is dropped

VARIABLES
  root,   \* viewport_t::_subtree, with the allocation of every node
  area    \* viewport_t::_work_area

vars == <<root, area>>

Empty == [kind |-> "empty"]
Fresh == [kind |-> "notebook", w |-> 0, h |-> 0]
NewSplit(k, a, b) ==
  [kind |-> k, w |-> 0, h |-> 0, ratio |-> [num |-> 1, den |-> 2], p0 |-> a, p1 |-> b]
IsSplit(t) == t.kind \in {"vertical", "horizontal"}
Along(kind, a) == (kind = "vertical" /\ a = "w") \/ (kind = "horizontal" /\ a = "h")
MaxOf(a, b) == IF a < b THEN b ELSE a

(* get_min_allocation along the axis a.                                    *)
RECURSIVE Min(_, _)
Min(t, a) ==
  CASE t.kind = "empty"    -> EmptyLength
    [] t.kind = "notebook" -> MinLength
    [] OTHER -> IF Along(t.kind, a) THEN MinOfSplit(Min(t.p0, a), Min(t.p1, a))
                ELSE MaxOf(Min(t.p0, a), Min(t.p1, a))

(* The length of pack0 of the split t along its own axis, with ratio r.    *)
PackLength(t, r) ==
  LET a == IF t.kind = "vertical" THEN "w" ELSE "h"
  IN  Length0(t[a], r.num, r.den, Min(t.p0, a), Min(t.p1, a))

(* set_allocation(w, h), down the tree.                                    *)
RECURSIVE Allocate(_, _, _)
Allocate(t, w, h) ==
  IF t.kind = "empty" THEN t
  ELSE IF t.kind = "notebook" THEN [t EXCEPT !.w = w, !.h = h]
  ELSE LET s == [t EXCEPT !.w = w, !.h = h]
           l == PackLength(s, s.ratio)
       IN  IF t.kind = "vertical"
           THEN [s EXCEPT !.p0 = Allocate(t.p0, l, h), !.p1 = Allocate(t.p1, Shared(w) - l, h)]
           ELSE [s EXCEPT !.p0 = Allocate(t.p0, w, l), !.p1 = Allocate(t.p1, w, Shared(h) - l)]

(* update_allocation of split t.                                           *)
Update(t) == Allocate(t, t.w, t.h)

-----------------------------------------------------------------------------
(* A node is named by the packs that lead to it from the root.             *)
RECURSIVE Paths(_)
Paths(t) ==
  {<<>>} \cup (IF IsSplit(t)
               THEN {<<"p0">> \o p : p \in Paths(t.p0)} \cup {<<"p1">> \o p : p \in Paths(t.p1)}
               ELSE {})

RECURSIVE At(_, _)
At(t, p) == IF p = <<>> THEN t ELSE At(t[Head(p)], Tail(p))

(* The tree with the node at path p replaced, and nothing recomputed.      *)
RECURSIVE Put(_, _, _)
Put(t, p, x) ==
  IF p = <<>> THEN x ELSE [t EXCEPT ![Head(p)] = Put(t[Head(p)], Tail(p), x)]

(* Mutant of Replace: the parent does not recompute.                       *)
ReplaceOnly(t, p, by) == Put(t, p, by)

(* replace(src, by) on the parent of the node at path p: the parent alone  *)
(* recomputes; the viewport gives its whole area.                          *)
Replace(t, p, by) ==
  IF p = <<>> THEN Allocate(by, area.w, area.h)
  ELSE LET up == SubSeq(p, 1, Len(p) - 1)
       IN  Put(t, up, Update([At(t, up) EXCEPT ![p[Len(p)]] = by]))

(* set_pack0 and set_pack1 of the split at path p.                         *)
SetPack(t, p, pk, x) == Put(t, p, Update([At(t, p) EXCEPT ![pk] = x]))

NotebooksOf(t) == {p \in Paths(t) : At(t, p).kind = "notebook"}
SplitsOf(t)    == {p \in Paths(t) : IsSplit(At(t, p))}

-----------------------------------------------------------------------------
Init ==
  /\ area \in Areas
  /\ root = Allocate(Fresh, area.w, area.h)

(* page_t::split_left, split_right, split_top, split_bottom: an empty      *)
(* split takes the place of the notebook, then gets its packs in turn.     *)
SplitNotebook(p, kind, newFirst) ==
  LET n  == At(root, p)
      l  == IF kind = "vertical" THEN n.w ELSE n.h
      t1 == Replace(root, p, NewSplit(kind, Empty, Empty))
      t2 == SetPack(t1, p, "p0", IF newFirst THEN Fresh ELSE n)
  IN  /\ CanSplit(l)
      /\ Cardinality(NotebooksOf(root)) < MaxNotebooks
      /\ root' = SetPack(t2, p, "p1", IF newFirst THEN n ELSE Fresh)
      /\ UNCHANGED area

(* page_t::notebook_close: the sibling takes the place of the split.       *)
CloseNotebook(p) ==
  LET up  == SubSeq(p, 1, Len(p) - 1)
      sib == IF p[Len(p)] = "p0" THEN "p1" ELSE "p0"
  IN  /\ p # <<>>
      /\ root' = Replace(root, up, At(root, up)[sib])
      /\ UNCHANGED area

(* compute_split_constaint: the ratio at the middle of the bar once the    *)
(* packs of t have what they need.                                         *)
Constrained(t, ratio) ==
  Clamped(PackLength(t, ratio) + SplitWidth \div 2, IF t.kind = "vertical" THEN t.w ELSE t.h)

(* grab_split_t::button_release: a split bar is dropped at x twentieths.   *)
DragSplit(p, x) ==
  LET t == At(root, p)
      r == Constrained(t, Clamped(x, 20))
  IN  /\ root' = Put(root, p, Update([t EXCEPT !.ratio = r]))
      /\ UNCHANGED area

(* viewport_t::update_work_area, on a change of monitors or work areas.    *)
ChangeArea(a) ==
  /\ a # area
  /\ CanShrink \/ (a.w >= area.w /\ a.h >= area.h)
  /\ area' = a
  /\ root' = Allocate(root, a.w, a.h)

Next ==
  \/ \E p \in NotebooksOf(root) :
       \/ CloseNotebook(p)
       \/ \E kind \in Kinds, newFirst \in BOOLEAN : SplitNotebook(p, kind, newFirst)
  \/ \E p \in SplitsOf(root), x \in Pointer : DragSplit(p, x)
  \/ \E a \in Areas : ChangeArea(a)

Spec == Init /\ [][Next]_vars

-----------------------------------------------------------------------------
TypeOK ==
  /\ area \in Areas
  /\ \A p \in Paths(root) :
       LET t == At(root, p)
       IN  /\ t.kind \in {"notebook", "vertical", "horizontal"}
           /\ t.w \in Nat /\ t.h \in Nat
           /\ IsSplit(t) => 0 < t.ratio.num /\ t.ratio.num < t.ratio.den

(* The packs of a split and its bar cover the split exactly, and the root  *)
(* covers the work area: no gap and no overlap, although an operation      *)
(* recomputes only the part of the tree below the node it is called on.    *)
Tiles ==
  /\ TypeOK
  /\ root.w = area.w /\ root.h = area.h
  /\ \A p \in SplitsOf(root) :
       LET t == At(root, p)
       IN  IF t.kind = "vertical"
           THEN t.p0.w + SplitWidth + t.p1.w = t.w /\ t.p0.h = t.h /\ t.p1.h = t.h
           ELSE t.p0.h + SplitWidth + t.p1.h = t.h /\ t.p0.w = t.w /\ t.p1.w = t.w

(* The assertions of compute_children_allocation and of                    *)
(* notebook_t::set_allocation: every node has the room it needs.           *)
AssertsHold ==
  \A p \in Paths(root) :
    LET t == At(root, p) IN t.w >= Min(t, "w") /\ t.h >= Min(t, "h")

=============================================================================
