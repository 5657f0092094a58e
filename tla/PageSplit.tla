----------------------------- MODULE PageSplit ------------------------------
(***************************************************************************)
(* How split_t::compute_children_allocation shares its length between its  *)
(* two packs, along the axis of the split.                                 *)
(*                                                                         *)
(* Lengths are pixels.  The ratio of a split is a C++ double; here it is   *)
(* the fraction num/den.  The margins of a split are left out: both themes *)
(* leave them at 0 (page-simple2-theme.cxx:114-117).                       *)
(***************************************************************************)
EXTENDS Integers

CONSTANTS
  SplitWidth,   \* theme->split.width, the bar between the packs
  MinLength,    \* what a notebook needs (notebook_t::get_min_allocation)
  EmptyLength   \* what compute_children_allocation takes for a missing pack

ASSUME LengthAssumption ==
  /\ SplitWidth \in Nat
  /\ MinLength \in Nat \ {0}
  /\ EmptyLength \in Nat \ {0}
  /\ EmptyLength <= MinLength

(* What is left for the packs of a split of length l.                      *)
Shared(l) == l - SplitWidth

(* floor(w * ratio + 0.5)                                                  *)
Rounded(w, num, den) == (2 * w * num + den) \div (2 * den)

(* The length of pack0 when the packs need at least min0 and min1: first   *)
(* pack0 takes what it needs from pack1, then pack1 from pack0.            *)
Length0(l, num, den, min0, min1) ==
  LET w0 == Rounded(Shared(l), num, den)
      x0 == IF w0 < min0 THEN min0 ELSE w0
  IN  IF Shared(l) - x0 < min1 THEN Shared(l) - min1 ELSE x0

(* The length of pack1.                                                    *)
Length1(l, num, den, min0, min1) == Shared(l) - Length0(l, num, den, min0, min1)

(* What a split needs along its axis (split_t::get_min_allocation).        *)
MinOfSplit(min0, min1) == min0 + min1 + SplitWidth

(* Mutant of CanSplit: the bar is forgotten.                               *)
CanSplitNoBar(l) == l >= 2 * MinLength

(* _can_vsplit and _can_hsplit of a notebook of length l.                  *)
CanSplit(l) == l >= 2 * MinLength + SplitWidth

(* set_split: the ratio stays between 0.05 and 0.95.                       *)
Clamped(num, den) ==
  IF 20 * num < den THEN [num |-> 1, den |-> 20]
  ELSE IF 20 * num > 19 * den THEN [num |-> 19, den |-> 20]
  ELSE [num |-> num, den |-> den]

=============================================================================
