---------------------------- MODULE Session_proofs ----------------------------
(***************************************************************************)
(* Of the components of MCSession:                                         *)
(*                                                                         *)
(* The stack of modals: whatever is pushed, popped and destroyed in        *)
(* whatever order, the counter, the stack, the modal of the plugin and the *)
(* action mode agree, and the stack of actors is that of ModalService.     *)
(*                                                                         *)
(* The pages of the overview are sound, whatever the overview does and     *)
(* whatever is asked of the pages while others come and go.  A world of    *)
(* the selector is a record of its pages and controls, and every operator  *)
(* of Views takes a world that is Good while the overview looks like o to  *)
(* one that is.  NeverEmpty alone is not inductive: a page that fades only *)
(* helps if it is another than the active one (Full), for at its end it is *)
(* the active one that is shown.  How the overview gets from one look to   *)
(* another is in AnyTurn, from the invariant of Overview.                  *)
(***************************************************************************)
EXTENDS MCSession, SequenceLemmas

-----------------------------------------------------------------------------
(* The stack of modals.                                                    *)
Inv == TypeOK /\ Consistent /\ BottomIsNormal

LEMMA RecordFields ==
  ASSUME NEW r \in Record
  PROVE  r.actor \in Actor /\ r.prevFocus \in Focus /\ r.watch \in Actor
         /\ r.actionMode \in Actor \cup {NORMAL}
  BY DEF Record

(* The actors of a stack of records.                                       *)
Actors(s) == [i \in DOMAIN s |-> s[i].actor]

LEMMA ActorsSeq ==
  ASSUME NEW s \in Seq(Record)
  PROVE  /\ Actors(s) \in Seq(Actor)
         /\ Len(Actors(s)) = Len(s)
         /\ DOMAIN Actors(s) = 1..Len(s)
         /\ \A i \in 1..Len(s) : Actors(s)[i] = s[i].actor
<1>1. DOMAIN s = 1..Len(s) /\ Len(s) \in Nat /\ \A i \in 1..Len(s) : s[i].actor \in Actor
  <2>1. DOMAIN s = 1..Len(s) /\ Len(s) \in Nat /\ \A i \in 1..Len(s) : s[i] \in Record
    OBVIOUS
  <2> QED  BY <2>1, RecordFields
<1>2. Actors(s) \in [1..Len(s) -> Actor]
  BY <1>1 DEF Actors
<1> QED  BY <1>1, <1>2 DEF Actors

(* What is given back moves up when a record goes: the record that takes a *)
(* place has the mode that was there before.                               *)
LEMMA RecordsLeft ==
  ASSUME NEW s \in Seq(Record), NEW k \in 1..Len(s)
  PROVE  LET t == WithoutRecord(s, k)
         IN  /\ t \in Seq(Record)
             /\ Len(t) = Len(s) - 1
             /\ DOMAIN t = 1..(Len(s) - 1)
             /\ \A i \in 1..(Len(s) - 1) :
                  /\ t[i].actor = IF i < k THEN s[i].actor ELSE s[i + 1].actor
                  /\ t[i].actionMode = s[i].actionMode
<1> DEFINE u == [i \in DOMAIN s |->
             IF i <= k THEN s[i]
             ELSE [s[i] EXCEPT !.prevFocus = s[i-1].prevFocus,
                               !.watch = s[i-1].watch,
                               !.actionMode = s[i-1].actionMode]]
           t == RemoveAt(u, k)
<1>0. /\ DOMAIN s = 1..Len(s) /\ Len(s) \in Nat /\ k \in Int /\ 1 <= k /\ k <= Len(s)
      /\ \A i \in 1..Len(s) : s[i] \in Record
  OBVIOUS
<1>1. \A i \in 1..Len(s) : i > k => i - 1 \in 1..Len(s)
  BY <1>0
<1>2. \A i \in 1..Len(s) : u[i] \in Record
  <2> TAKE i \in 1..Len(s)
  <2>1. CASE i <= k
    BY <2>1, <1>0
  <2>2. CASE ~(i <= k)
    <3>1. s[i] \in Record /\ s[i-1] \in Record
      BY <2>2, <1>0, <1>1
    <3>2. u[i] = [s[i] EXCEPT !.prevFocus = s[i-1].prevFocus,
                              !.watch = s[i-1].watch,
                              !.actionMode = s[i-1].actionMode]
      BY <2>2, <1>0
    <3> HIDE DEF u
    <3> QED  BY <3>1, <3>2 DEF Record
  <2> QED  BY <2>1, <2>2
<1>3. u \in Seq(Record) /\ Len(u) = Len(s)
  <2>1. DOMAIN u = 1..Len(s) /\ u = [i \in 1..Len(s) |-> u[i]]
    BY <1>0
  <2> HIDE DEF u
  <2>2. u \in [1..Len(s) -> Record]
    BY <2>1, <1>2
  <2> QED  BY <2>2, <1>0
<1>4. \A i \in 1..Len(s) :
        /\ u[i].actor = s[i].actor
        /\ u[i].actionMode = IF i <= k THEN s[i].actionMode ELSE s[i-1].actionMode
  BY <1>0 DEF Record
<1>5. /\ t \in Seq(Record)
      /\ Len(t) = Len(s) - 1
      /\ \A i \in 1..(Len(s) - 1) : t[i] = IF i < k THEN u[i] ELSE u[i + 1]
  <2> HIDE DEF u
  <2> QED  BY <1>3, RemoveAtElements
<1>6. t = WithoutRecord(s, k)
  BY DEF WithoutRecord
<1> HIDE DEF u, t
<1>7. ASSUME NEW i \in 1..(Len(s) - 1)
      PROVE  /\ t[i].actor = IF i < k THEN s[i].actor ELSE s[i + 1].actor
             /\ t[i].actionMode = s[i].actionMode
  <2>1. i \in 1..Len(s) /\ i + 1 \in 1..Len(s) /\ (i + 1) - 1 = i
    BY <1>0
  <2>2. CASE i < k
    BY <2>1, <2>2, <1>0, <1>4, <1>5
  <2>3. CASE ~(i < k)
    <3>1. ~(i + 1 <= k)
      BY <2>3, <2>1, <1>0
    <3>2. u[i + 1].actionMode = s[i].actionMode
      BY <3>1, <2>1, <1>4
    <3> QED  BY <3>2, <2>1, <2>3, <1>4, <1>5
  <2> QED  BY <2>2, <2>3
<1>8. DOMAIN t = 1..(Len(s) - 1)
  BY <1>5
<1> QED  BY <1>5, <1>6, <1>7, <1>8

(* The handlers change what is given the focus, and nothing else.          *)
LEMMA RecordsCleared ==
  ASSUME NEW s \in Seq(Record), NEW x
  PROVE  LET t == Cleared(s, x)
         IN  /\ t \in Seq(Record)
             /\ Len(t) = Len(s)
             /\ DOMAIN t = 1..Len(s)
             /\ \A i \in 1..Len(s) : t[i].actor = s[i].actor /\ t[i].actionMode = s[i].actionMode
<1>0. DOMAIN s = 1..Len(s) /\ Len(s) \in Nat /\ \A i \in 1..Len(s) : s[i] \in Record
  OBVIOUS
<1>1. ASSUME NEW i \in 1..Len(s)
      PROVE  /\ Cleared(s, x)[i] \in Record
             /\ Cleared(s, x)[i].actor = s[i].actor
             /\ Cleared(s, x)[i].actionMode = s[i].actionMode
  <2>1. s[i] \in Record /\ i \in DOMAIN s
    BY <1>0
  <2>2. Cleared(s, x)[i] = s[i] \/ Cleared(s, x)[i] = [s[i] EXCEPT !.prevFocus = Null]
    BY <2>1 DEF Cleared
  <2>3. Null \in Focus
    BY DEF Focus
  <2> QED  BY <2>1, <2>2, <2>3 DEF Record
<1>2. Cleared(s, x) \in [1..Len(s) -> Record]
  <2>1. DOMAIN Cleared(s, x) = 1..Len(s) /\ Cleared(s, x) = [i \in 1..Len(s) |-> Cleared(s, x)[i]]
    BY <1>0 DEF Cleared
  <2> QED  BY <2>1, <1>1
<1>3. Cleared(s, x) \in Seq(Record) /\ Len(Cleared(s, x)) = Len(s)
  BY <1>2, <1>0
<1> QED  BY <1>1, <1>2, <1>3

(* The record of an actor that is on the stack.                            *)
LEMMA Found ==
  ASSUME NEW s \in Seq(Record), NEW a \in Stacked(s)
  PROVE  _findModal(s, a) \in 1..Len(s) /\ s[_findModal(s, a)].actor = a
<1>1. \E i \in DOMAIN s : s[i].actor = a
  BY DEF Stacked
<1>2. _findModal(s, a) \in DOMAIN s /\ s[_findModal(s, a)].actor = a
  BY <1>1 DEF _findModal
<1> QED  BY <1>2

-----------------------------------------------------------------------------
LEMMA PushInv ==
  ASSUME Inv, NEW a \in Actor, pushModal(a)
  PROVE  Inv'
<1> DEFINE s == modalActorFocusStack
           r == [actor |-> a, prevFocus |-> key_focus, watch |-> a, actionMode |-> actionMode]
           t == Append(s, r)
<1>1. s \in Seq(Record) /\ r \in Record /\ Len(s) \in Nat /\ DOMAIN s = 1..Len(s)
  BY DEF Inv, TypeOK, Record
<1>2. /\ t \in Seq(Record) /\ Len(t) = Len(s) + 1 /\ DOMAIN t = 1..(Len(s) + 1)
      /\ \A i \in 1..Len(s) : t[i] = s[i]
      /\ t[Len(s) + 1] = r
      /\ t # <<>>
  BY <1>1, AppendProperties
<1>3. modalActorFocusStack' = t
  BY DEF pushModal
<1>4. TypeOK'
  BY <1>2, <1>3 DEF Inv, TypeOK, pushModal, Focus
<1>5. a # NORMAL /\ a \in alive /\ alive' = alive /\ a \notin Stacked(s)
  BY ConstantsAssumption DEF pushModal
<1>6. \A i \in 1..Len(s) : t[i].actor # a
  BY <1>1, <1>2, <1>5 DEF Stacked
<1>7. r.actor = a /\ r.actionMode = actionMode
  OBVIOUS
<1> HIDE DEF t, r
<1>8. \A i, j \in DOMAIN t : t[i].actor = t[j].actor => i = j
  <2>1. \A i, j \in 1..Len(s) : s[i].actor = s[j].actor => i = j
    BY <1>1 DEF Inv, Consistent
  <2> QED  BY <2>1, <1>1, <1>2, <1>6, <1>7
<1>9. Stacked(t) \subseteq alive
  <2>1. \A i \in 1..Len(s) : s[i].actor \in alive
    BY <1>1 DEF Inv, Consistent, Stacked
  <2> QED  BY <2>1, <1>1, <1>2, <1>5, <1>7 DEF Stacked
<1>10. Consistent'
  <2>1. modalCount' = Len(t) /\ has_modal' /\ actionMode' # NORMAL /\ t # <<>>
    BY <1>2, <1>5 DEF Inv, Consistent, pushModal
  <2> QED  BY <2>1, <1>3, <1>5, <1>8, <1>9 DEF Consistent
<1>11. BottomIsNormal'
  <2>1. CASE s = <<>>
    <3>1. Len(s) = 0 /\ r.actionMode = NORMAL
      BY <2>1, <1>7 DEF Inv, Consistent
    <3>2. t[1].actionMode = NORMAL /\ 2..Len(t) = {}
      BY <3>1, <1>2
    <3> QED  BY <3>2, <1>3 DEF BottomIsNormal
  <2>2. CASE s # <<>>
    <3>1. Len(s) >= 1
      BY <2>2, <1>1
    <3>2. s[1].actionMode = NORMAL /\ \A i \in 2..Len(s) : s[i].actionMode # NORMAL
      BY <2>2 DEF Inv, BottomIsNormal
    <3>3. r.actionMode # NORMAL
      BY <2>2, <1>7 DEF Inv, Consistent
    <3>4. t[1].actionMode = NORMAL
      BY <3>1, <3>2, <1>1, <1>2
    <3>5. \A i \in 2..Len(t) : t[i].actionMode # NORMAL
      BY <3>1, <3>2, <3>3, <1>1, <1>2
    <3> QED  BY <3>4, <3>5, <1>3 DEF BottomIsNormal
  <2> QED  BY <2>1, <2>2
<1> QED  BY <1>4, <1>10, <1>11 DEF Inv

(* The stack loses the record of a, whatever the handlers clear in those   *)
(* that are left.                                                          *)
LEMMA PopInv ==
  ASSUME Inv, NEW a \in Actor, a \in Stacked(modalActorFocusStack),
         NEW f \in Focus, NEW left \in Seq(Record),
         Len(left) = Len(StackWithout(a)),
         \A i \in 1..Len(left) : /\ left[i].actor = StackWithout(a)[i].actor
                                 /\ left[i].actionMode = StackWithout(a)[i].actionMode,
         Pop(a, f, left), alive' \in {alive, alive \ {a}}
  PROVE  Inv'
<1> DEFINE s == modalActorFocusStack
           k == _findModal(s, a)
<1>1. s \in Seq(Record) /\ Len(s) \in Nat /\ DOMAIN s = 1..Len(s) /\ \A i \in 1..Len(s) : s[i] \in Record
  BY DEF Inv, TypeOK
<1>2. k \in 1..Len(s) /\ s[k].actor = a
  BY <1>1, Found
<1>3. /\ Len(left) = Len(s) - 1 /\ DOMAIN left = 1..(Len(s) - 1)
      /\ \A i \in 1..(Len(s) - 1) :
           /\ left[i].actor = IF i < k THEN s[i].actor ELSE s[i + 1].actor
           /\ left[i].actionMode = s[i].actionMode
  <2>1. StackWithout(a) = WithoutRecord(s, k)
    BY DEF StackWithout
  <2> HIDE DEF k
  <2>2. /\ Len(StackWithout(a)) = Len(s) - 1
        /\ \A i \in 1..(Len(s) - 1) :
             /\ StackWithout(a)[i].actor = IF i < k THEN s[i].actor ELSE s[i + 1].actor
             /\ StackWithout(a)[i].actionMode = s[i].actionMode
    <3>1. LET t == WithoutRecord(s, k)
          IN  /\ Len(t) = Len(s) - 1
              /\ \A i \in 1..(Len(s) - 1) :
                   /\ t[i].actor = IF i < k THEN s[i].actor ELSE s[i + 1].actor
                   /\ t[i].actionMode = s[i].actionMode
      BY <1>1, <1>2, RecordsLeft
    <3> QED  BY <2>1, <3>1
  <2>3. Len(left) = Len(s) - 1
    BY <2>2
  <2> QED  BY <2>2, <2>3
<1>4. /\ modalCount = Len(s) /\ s # <<>> /\ actionMode # NORMAL
      /\ s[1].actionMode = NORMAL /\ \A i \in 2..Len(s) : s[i].actionMode # NORMAL
  <2>1. s # <<>>
    BY <1>2, <1>1
  <2> QED  BY <2>1 DEF Inv, Consistent, BottomIsNormal
<1>5. /\ modalActorFocusStack' = left
      /\ modalCount' = Len(left)
      /\ has_modal' = (Len(s) - 1 > 0)
      /\ actionMode' = IF Len(s) = 1 THEN NORMAL
                       ELSE IF k = Len(s) THEN s[k].actionMode ELSE actionMode
      /\ key_focus' \in {s[k].prevFocus, f, Null}
  BY <1>3, <1>4 DEF Pop, Ended, Unfocused
<1> HIDE DEF k
<1>6. TypeOK'
  <2>1. s[k] \in Record
    BY <1>1, <1>2
  <2>2. key_focus' \in Focus /\ actionMode' \in Actor \cup {NORMAL}
    BY <2>1, <1>5 DEF Inv, TypeOK, Record, Focus
  <2>3. modalCount' \in Nat /\ has_modal' \in BOOLEAN /\ alive' \in SUBSET (Actor \cup Widget)
    BY <1>5 DEF Inv, TypeOK
  <2> QED  BY <2>2, <2>3, <1>5 DEF TypeOK
<1>7. \A i, j \in DOMAIN left : left[i].actor = left[j].actor => i = j
  <2>1. \A i, j \in 1..Len(s) : s[i].actor = s[j].actor => i = j
    BY <1>1 DEF Inv, Consistent
  <2> TAKE i, j \in DOMAIN left
  <2> DEFINE from(x) == IF x < k THEN x ELSE x + 1
  <2>2. \A x \in DOMAIN left : from(x) \in 1..Len(s) /\ left[x].actor = s[from(x)].actor
    <3> TAKE x \in DOMAIN left
    <3>1. x \in 1..(Len(s) - 1) /\ Len(s) \in Nat /\ k \in Int
      BY <1>1, <1>2, <1>3
    <3>2. from(x) \in 1..Len(s)
      BY <3>1
    <3>3. left[x].actor = IF x < k THEN s[x].actor ELSE s[x + 1].actor
      BY <1>3, <3>1
    <3> QED  BY <3>2, <3>3
  <2> HAVE left[i].actor = left[j].actor
  <2>3. from(i) = from(j)
    <3>1. /\ from(i) \in 1..Len(s) /\ left[i].actor = s[from(i)].actor
          /\ from(j) \in 1..Len(s) /\ left[j].actor = s[from(j)].actor
      BY <2>2
    <3> HIDE DEF from
    <3> QED  BY <2>1, <3>1
  <2>4. i \in Int /\ j \in Int /\ k \in Int
    BY <1>1, <1>2, <1>3
  <2> QED  BY <2>3, <2>4
<1>8. \A i \in DOMAIN left : left[i].actor \in alive \ {a}
  <2>1. \A i \in 1..Len(s) : s[i].actor \in alive /\ (s[i].actor = a => i = k)
    BY <1>1, <1>2 DEF Inv, Consistent, Stacked
  <2> TAKE i \in DOMAIN left
  <2>2. CASE i < k
    <3>1. i \in 1..Len(s) /\ i # k /\ left[i].actor = s[i].actor
      BY <2>2, <1>1, <1>2, <1>3
    <3> QED  BY <3>1, <2>1
  <2>3. CASE ~(i < k)
    <3>1. i + 1 \in 1..Len(s) /\ i + 1 # k /\ left[i].actor = s[i + 1].actor
      BY <2>3, <1>1, <1>2, <1>3
    <3> QED  BY <3>1, <2>1
  <2> QED  BY <2>2, <2>3
<1>9. left = <<>> <=> Len(s) = 1
  BY <1>1, <1>3
<1>10. Consistent'
  <2>1. Stacked(left) \subseteq alive'
    BY <1>8 DEF Stacked
  <2>2. has_modal' <=> left # <<>>
    <3>1. Len(s) - 1 > 0 <=> Len(s) # 1
      BY <1>1, <1>2
    <3>2. has_modal' = (Len(s) - 1 > 0)
      BY <1>5
    <3> QED  BY <3>1, <3>2, <1>9, Zenon
  <2>3. left = <<>> <=> actionMode' = NORMAL
    <3>1. k = Len(s) /\ Len(s) # 1 => s[k].actionMode # NORMAL
      BY <1>1, <1>2, <1>4
    <3> QED  BY <3>1, <1>4, <1>5, <1>9
  <2> QED  BY <2>1, <2>2, <2>3, <1>5, <1>7 DEF Consistent
<1>11. BottomIsNormal'
  <2>1. left # <<>> => left[1].actionMode = NORMAL /\ \A i \in 2..Len(left) : left[i].actionMode # NORMAL
    BY <1>1, <1>3, <1>4, <1>9
  <2> QED  BY <2>1, <1>5 DEF BottomIsNormal
<1> QED  BY <1>6, <1>10, <1>11 DEF Inv

LEMMA PopModalInv ==
  ASSUME Inv, NEW a \in Actor, popModal(a)
  PROVE  Inv'
<1>1. /\ a \in Stacked(modalActorFocusStack)
      /\ Pop(a, key_focus, StackWithout(a)) /\ alive' = alive
  BY DEF popModal
<1>2. modalActorFocusStack \in Seq(Record) /\ key_focus \in Focus
  BY DEF Inv, TypeOK
<1>3. StackWithout(a) \in Seq(Record)
  BY <1>1, <1>2, Found, RecordsLeft DEF StackWithout
<1> QED  BY <1>1, <1>2, <1>3, PopInv

LEMMA DestroyInv ==
  ASSUME Inv, NEW x \in Actor \cup Widget, Destroy(x)
  PROVE  Inv'
<1> DEFINE s == modalActorFocusStack
           f == IF key_focus = x THEN Null ELSE key_focus
<1>1. s \in Seq(Record) /\ f \in Focus /\ DOMAIN s = 1..Len(s)
  BY DEF Inv, TypeOK, Focus
<1>2. CASE x \in Stacked(s)
  <2>1. Pop(x, f, Cleared(StackWithout(x), x)) /\ alive' = alive \ {x}
    BY <1>2 DEF Destroy
  <2>2. x \in Actor
    BY <1>2, <1>1, RecordFields DEF Stacked
  <2>3. StackWithout(x) \in Seq(Record)
    BY <1>1, <1>2, Found, RecordsLeft DEF StackWithout
  <2>4. LET t == Cleared(StackWithout(x), x)
        IN  /\ t \in Seq(Record) /\ Len(t) = Len(StackWithout(x))
            /\ \A i \in 1..Len(t) : /\ t[i].actor = StackWithout(x)[i].actor
                                    /\ t[i].actionMode = StackWithout(x)[i].actionMode
    BY <2>3, RecordsCleared
  <2> HIDE DEF f
  <2> QED  BY <1>1, <1>2, <2>1, <2>2, <2>4, PopInv
<1>3. CASE x \notin Stacked(s)
  <2> DEFINE t == Cleared(s, x)
  <2>1. /\ modalActorFocusStack' = t /\ key_focus' = f /\ alive' = alive \ {x}
        /\ UNCHANGED <<modalCount, actionMode, has_modal>>
    BY <1>3 DEF Destroy
  <2>2. /\ t \in Seq(Record) /\ Len(t) = Len(s) /\ DOMAIN t = 1..Len(s)
        /\ \A i \in 1..Len(s) : t[i].actor = s[i].actor /\ t[i].actionMode = s[i].actionMode
    BY <1>1, RecordsCleared
  <2> HIDE DEF t
  <2>3. t = <<>> <=> s = <<>>
    BY <1>1, <2>2
  <2>4. TypeOK'
    BY <1>1, <2>1, <2>2 DEF Inv, TypeOK
  <2>5. Stacked(t) = Stacked(s)
    BY <1>1, <2>2 DEF Stacked
  <2>6. \A i, j \in DOMAIN t : t[i].actor = t[j].actor => i = j
    BY <1>1, <2>2 DEF Inv, Consistent
  <2>7. Consistent'
    BY <1>3, <2>1, <2>2, <2>3, <2>5, <2>6 DEF Inv, Consistent
  <2>8. BottomIsNormal'
    <3>1. t # <<>> => t[1].actionMode = NORMAL /\ \A i \in 2..Len(t) : t[i].actionMode # NORMAL
      BY <1>1, <2>2, <2>3 DEF Inv, BottomIsNormal
    <3> QED  BY <3>1, <2>1 DEF BottomIsNormal
  <2> QED  BY <2>4, <2>7, <2>8 DEF Inv
<1> QED  BY <1>2, <1>3

-----------------------------------------------------------------------------
(* The inductive invariant: BottomIsNormal is part of it, because a pop    *)
(* gives back the mode that a record keeps, and only the lowest may keep   *)
(* the normal one.                                                         *)
THEOREM Invariance == Spec => []Inv
<1>1. Init => Inv
  <2> SUFFICES ASSUME Init  PROVE Inv
    OBVIOUS
  <2>1. modalActorFocusStack = <<>> /\ modalCount = 0 /\ actionMode = NORMAL /\ has_modal = FALSE
        /\ key_focus \in Focus /\ alive = Actor \cup Widget
    BY DEF Init, Focus
  <2>2. <<>> \in Seq(Record) /\ Len(<<>>) = 0 /\ DOMAIN <<>> = {}
    OBVIOUS
  <2> QED  BY <2>1, <2>2 DEF Inv, TypeOK, Consistent, BottomIsNormal, Stacked
<1>2. Inv /\ [Next]_vars => Inv'
  <2> SUFFICES ASSUME Inv, [Next]_vars  PROVE Inv'
    OBVIOUS
  <2>1. CASE \E a \in Actor : pushModal(a) \/ popModal(a)
    BY <2>1, PushInv, PopModalInv
  <2>2. CASE \E x \in Actor \cup Widget : Destroy(x)
    BY <2>2, DestroyInv
  <2>3. CASE \E f \in Widget \cup {Null} : MoveFocus(f)
    BY <2>3 DEF MoveFocus, Inv, TypeOK, Consistent, BottomIsNormal, Focus, Stacked
  <2>4. CASE UNCHANGED vars
    BY <2>4 DEF vars, Inv, TypeOK, Consistent, BottomIsNormal, Stacked
  <2> QED  BY <2>1, <2>2, <2>3, <2>4 DEF Next
<1> QED  BY <1>1, <1>2, PTL DEF Spec

(* The counter, the modal of the plugin, the action mode and the actors    *)
(* that are alive agree with the stack.                                    *)
THEOREM StackIsConsistent == Spec => []Consistent
<1>1. Inv => Consistent
  BY DEF Inv
<1> QED  BY <1>1, Invariance, PTL

(* The mode given back with the last pop is the normal one.                *)
THEOREM LastPopIsNormal == Spec => []BottomIsNormal
<1>1. Inv => BottomIsNormal
  BY DEF Inv
<1> QED  BY <1>1, Invariance, PTL

(* Together, for any actors: what TLC checks of three.                     *)
THEOREM StackIsSound == Spec => []StackSound
<1>1. Inv => StackSound
  BY DEF Inv, StackSound
<1> QED  BY <1>1, Invariance, PTL

-----------------------------------------------------------------------------
(* One actor leaves the stack, from its own place.                         *)
LEMMA ActorLeaves ==
  ASSUME NEW s \in Seq(Record), NEW a \in Stacked(s), NEW t \in Seq(Record),
         Len(t) = Len(WithoutRecord(s, _findModal(s, a))),
         \A i \in 1..Len(t) : t[i].actor = WithoutRecord(s, _findModal(s, a))[i].actor
  PROVE  \E i \in DOMAIN Actors(s) : Actors(s)[i] = a /\ Actors(t) = RemoveAt(Actors(s), i)
<1> DEFINE k == _findModal(s, a)
           w == WithoutRecord(s, k)
<1>1. k \in 1..Len(s) /\ s[k].actor = a
  BY Found
<1> HIDE DEF k
<1>2. /\ Len(w) = Len(s) - 1
      /\ \A i \in 1..(Len(s) - 1) : w[i].actor = IF i < k THEN s[i].actor ELSE s[i + 1].actor
  BY <1>1, RecordsLeft
<1>3. /\ Actors(s) \in Seq(Actor) /\ Len(Actors(s)) = Len(s) /\ DOMAIN Actors(s) = 1..Len(s)
      /\ \A i \in 1..Len(s) : Actors(s)[i] = s[i].actor
  BY ActorsSeq
<1>4. /\ Actors(t) \in Seq(Actor) /\ Len(Actors(t)) = Len(t)
      /\ \A i \in 1..Len(t) : Actors(t)[i] = t[i].actor
  BY ActorsSeq
<1>5. /\ RemoveAt(Actors(s), k) \in Seq(Actor)
      /\ Len(RemoveAt(Actors(s), k)) = Len(s) - 1
      /\ \A i \in 1..(Len(s) - 1) :
           RemoveAt(Actors(s), k)[i] = IF i < k THEN Actors(s)[i] ELSE Actors(s)[i + 1]
  <2> DEFINE z == Actors(s)
  <2>1. z \in Seq(Actor) /\ k \in 1..Len(z) /\ Len(z) = Len(s)
    BY <1>1, <1>3
  <2> HIDE DEF z
  <2>2. /\ RemoveAt(z, k) \in Seq(Actor)
        /\ Len(RemoveAt(z, k)) = Len(z) - 1
        /\ \A i \in 1..(Len(z) - 1) : RemoveAt(z, k)[i] = IF i < k THEN z[i] ELSE z[i + 1]
    BY <2>1, RemoveAtElements
  <2>3. /\ RemoveAt(z, k) \in Seq(Actor)
        /\ Len(RemoveAt(z, k)) = Len(s) - 1
        /\ \A i \in 1..(Len(s) - 1) : RemoveAt(z, k)[i] = IF i < k THEN z[i] ELSE z[i + 1]
    BY <2>1, <2>2
  <2> QED  BY <2>3 DEF z
<1>6. Len(t) = Len(s) - 1 /\ \A i \in 1..(Len(s) - 1) : t[i].actor = w[i].actor
  BY <1>2 DEF k
<1>7. ASSUME NEW i \in 1..(Len(s) - 1)
      PROVE  Actors(t)[i] = RemoveAt(Actors(s), k)[i]
  <2>1. i \in 1..Len(s) /\ i + 1 \in 1..Len(s)
    BY <1>1
  <2>2. Actors(t)[i] = IF i < k THEN s[i].actor ELSE s[i + 1].actor
    BY <1>2, <1>4, <1>6
  <2> QED  BY <2>1, <2>2, <1>3, <1>5
<1>8. Actors(t) = RemoveAt(Actors(s), k)
  BY <1>4, <1>5, <1>6, <1>7, SeqEqual
<1> QED  BY <1>1, <1>3, <1>8

LEMMA ActorComes ==
  ASSUME NEW s \in Seq(Record), NEW r \in Record
  PROVE  Actors(Append(s, r)) = Append(Actors(s), r.actor)
<1> DEFINE t == Append(s, r)
<1>0. r.actor \in Actor /\ Len(s) \in Nat
  BY DEF Record
<1>1. /\ t \in Seq(Record) /\ Len(t) = Len(s) + 1
      /\ \A i \in 1..Len(s) : t[i] = s[i]
      /\ t[Len(s) + 1] = r
  BY AppendProperties
<1> HIDE DEF t
<1>2. /\ Actors(s) \in Seq(Actor) /\ Len(Actors(s)) = Len(s)
      /\ \A i \in 1..Len(s) : Actors(s)[i] = s[i].actor
  BY ActorsSeq
<1>3. /\ Actors(t) \in Seq(Actor) /\ Len(Actors(t)) = Len(t)
      /\ \A i \in 1..Len(t) : Actors(t)[i] = t[i].actor
  BY <1>1, ActorsSeq
<1> DEFINE z == Actors(s)
<1>4. z \in Seq(Actor) /\ Len(z) = Len(s) /\ \A i \in 1..Len(s) : z[i] = s[i].actor
  BY <1>2
<1> HIDE DEF z
<1>5. /\ Append(z, r.actor) \in Seq(Actor) /\ Len(Append(z, r.actor)) = Len(s) + 1
      /\ \A i \in 1..Len(s) : Append(z, r.actor)[i] = s[i].actor
      /\ Append(z, r.actor)[Len(s) + 1] = r.actor
  BY <1>0, <1>4, AppendProperties
<1>6. \A i \in 1..(Len(s) + 1) : Actors(t)[i] = Append(z, r.actor)[i]
  <2> TAKE i \in 1..(Len(s) + 1)
  <2>1. Actors(t)[i] = t[i].actor
    BY <1>1, <1>3
  <2>2. CASE i = Len(s) + 1
    BY <2>1, <2>2, <1>1, <1>5
  <2>3. CASE i # Len(s) + 1
    <3>1. i \in 1..Len(s)
      BY <2>3, <1>0
    <3> QED  BY <3>1, <2>1, <1>1, <1>5
  <2> QED  BY <2>2, <2>3
<1>7. Actors(t) = Append(z, r.actor)
  BY <1>1, <1>3, <1>5, <1>6, SeqEqual
<1> QED  BY <1>7 DEF z, t

(* The actors are kept as ModalService says, whatever is popped from the   *)
(* middle and whatever the destroy handlers do.                            *)
THEOREM StackImplementsService == Spec => ImplementsService
<1> DEFINE bar == [i \in DOMAIN modalActorFocusStack |-> modalActorFocusStack[i].actor]
<1>0. bar = Actors(modalActorFocusStack) /\ bar' = Actors(modalActorFocusStack')
  BY DEF Actors
<1>1. Init => Service!Init
  BY DEF Init, Service!Init
<1>2. Inv /\ [Next]_vars => [Service!Next]_bar
  <2> SUFFICES ASSUME Inv, [Next]_vars  PROVE Service!Next \/ bar' = bar
    OBVIOUS
  <2> DEFINE s == modalActorFocusStack
  <2>0. s \in Seq(Record) /\ DOMAIN s = 1..Len(s)
    BY DEF Inv, TypeOK
  <2>1. ASSUME NEW a \in Actor, pushModal(a)  PROVE Service!Push(a)
    <3> DEFINE r == [actor |-> a, prevFocus |-> key_focus, watch |-> a, actionMode |-> actionMode]
    <3>1. r \in Record /\ r.actor = a /\ modalActorFocusStack' = Append(s, r)
      BY <2>1 DEF Inv, TypeOK, Record, pushModal
    <3> HIDE DEF r
    <3>2. bar' = Append(bar, a)
      BY <3>1, <2>0, <1>0, ActorComes
    <3>3. a \notin {bar[i] : i \in DOMAIN bar}
      BY <2>1 DEF pushModal, Stacked
    <3> QED  BY <3>2, <3>3 DEF Service!Push, Service!Stacked
  <2>2. ASSUME NEW a \in Stacked(s), NEW t \in Seq(Record), modalActorFocusStack' = t,
               Len(t) = Len(StackWithout(a)),
               \A i \in 1..Len(t) : t[i].actor = StackWithout(a)[i].actor
        PROVE  a \in Actor /\ Service!Pop(a)
    <3>1. \E i \in DOMAIN bar : bar[i] = a /\ bar' = RemoveAt(bar, i)
      <4>1. \E i \in DOMAIN Actors(s) : Actors(s)[i] = a /\ Actors(t) = RemoveAt(Actors(s), i)
        BY <2>0, <2>2, ActorLeaves DEF StackWithout
      <4> QED  BY <4>1, <2>2, <1>0, Zenon
    <3>2. a \in Actor
      BY <2>0, RecordFields DEF Stacked
    <3> QED  BY <3>1, <3>2 DEF Service!Pop, Service!RemoveAt, RemoveAt
  <2>3. ASSUME NEW a \in Actor, popModal(a)  PROVE Service!Pop(a)
    <3>1. a \in Stacked(s) /\ modalActorFocusStack' = StackWithout(a)
      BY <2>3 DEF popModal, Pop
    <3>2. StackWithout(a) \in Seq(Record)
      BY <3>1, <2>0, Found, RecordsLeft DEF StackWithout
    <3> QED  BY <3>1, <3>2, <2>2
  <2>4. ASSUME NEW x \in Actor \cup Widget, Destroy(x)  PROVE Service!Next \/ bar' = bar
    <3>1. CASE x \in Stacked(s)
      <4>1. modalActorFocusStack' = Cleared(StackWithout(x), x)
        BY <2>4, <3>1 DEF Destroy, Pop
      <4>2. StackWithout(x) \in Seq(Record)
        BY <3>1, <2>0, Found, RecordsLeft DEF StackWithout
      <4>3. LET t == Cleared(StackWithout(x), x)
            IN  /\ t \in Seq(Record) /\ Len(t) = Len(StackWithout(x))
                /\ \A i \in 1..Len(t) : t[i].actor = StackWithout(x)[i].actor
        BY <4>2, RecordsCleared
      <4>4. x \in Actor /\ Service!Pop(x)
        BY <4>1, <4>3, <3>1, <2>2
      <4> QED  BY <4>4 DEF Service!Next
    <3>2. CASE x \notin Stacked(s)
      <4>1. modalActorFocusStack' = Cleared(s, x)
        BY <2>4, <3>2 DEF Destroy
      <4>2. /\ DOMAIN Cleared(s, x) = DOMAIN s
            /\ \A i \in DOMAIN s : Cleared(s, x)[i].actor = s[i].actor
        BY <2>0, RecordsCleared
      <4> QED  BY <4>1, <4>2
    <3> QED  BY <3>1, <3>2
  <2>5. CASE \/ \E f \in Widget \cup {Null} : MoveFocus(f)
             \/ UNCHANGED vars
    BY <2>5 DEF MoveFocus, vars
  <2> QED  BY <2>1, <2>3, <2>4, <2>5 DEF Next, Service!Next
<1> QED  BY <1>1, <1>2, Invariance, PTL DEF Spec, ImplementsService, Service!Spec

-----------------------------------------------------------------------------
(* The pages of the overview.                                              *)
Phases == [visible : BOOLEAN, animating : BOOLEAN, target : BOOLEAN]
Whole(s) ==
  /\ s \in [view : Selector!Views, controls : Selector!Controls]
  /\ s.view.active = "none" => s.view.shown = {} /\ s.view.fading = {} /\ ~s.view.waiting
  /\ "search" \in s.view.shown => s.view.active = "search" \/ "search" \in s.view.fading

Searching(s) == s.view.active = "search" => s.view.terms

Full(s) ==
  /\ s.view.active # "none"
  /\ \/ s.view.active \in s.view.shown
     \/ ~(s.view.fading \subseteq {s.view.active})
     \/ s.view.waiting /\ s.view.grid # "rest"

Alone(s, o) ==
  "windows" \in s.view.shown => s.view.active = "windows" \/ "windows" \in s.view.fading \/ o.animating

Beside(s, o) ==
  /\ s.controls.wanted = IF Selector!Leaving(o) THEN {} ELSE Selector!WantedFor(s.view.active)
  /\ ~Selector!Leaving(o) /\ s.view.active \in s.view.shown /\ s.view.fading \subseteq {s.view.active}
        /\ ~s.view.waiting
       => s.controls.slid = Selector!Slides(s.controls) /\ s.controls.spacer = (s.view.active = "windows")

Kept(s, o) == o.visible => Full(s) /\ Alone(s, o)
Fit(s, o) == Kept(s, o) /\ (o.visible => Beside(s, o))
Good(s, o) == Whole(s) /\ Searching(s) /\ Fit(s, o)

LEMMA WantedSliders == \A p \in Selector!Pages : Selector!WantedFor(p) \in SUBSET Selector!Sliders
  BY DEF Selector!WantedFor, Selector!Sliders, Selector!Pages

LEMMA ShowPage ==
  ASSUME NEW s, Whole(s), NEW o \in Phases, Kept(s, o), NEW page \in Selector!Pages,
         page = "search" => s.view.terms
  PROVE  LET t == Selector!_showPage(s, o, page)
         IN  /\ Whole(t) /\ Kept(t, o) /\ (Fit(s, o) => Fit(t, o))
             /\ t.view.terms = s.view.terms /\ t.view.checked = s.view.checked
             /\ t.view.active = IF o.visible THEN page ELSE s.view.active
<1>1. CASE ~o.visible \/ page = s.view.active
  BY <1>1 DEF Selector!_showPage, Fit, Kept
<1>2. CASE o.visible /\ page # s.view.active
  <2> DEFINE v == s.view
             out == v.active = "apps" /\ page = "windows" /\ ~o.animating
             t == Selector!_showPage(s, o, page)
             c == [s.controls EXCEPT !.wanted = IF Selector!Leaving(o) THEN s.controls.wanted ELSE Selector!WantedFor(page)]
             u == [v EXCEPT !.active = page]
             m == [view |-> u, controls |-> c]
  <2>1. /\ v \in Selector!Views /\ s.controls \in Selector!Controls /\ v.active \in Selector!Pages /\ c \in Selector!Controls
        /\ s = [view |-> v, controls |-> s.controls]
    BY <1>2, WantedSliders DEF Whole, Kept, Full, Selector!Views, Selector!Controls
  <2>2. m = Selector!_setVisibility([s EXCEPT !.view.active = page], o)
    <3>1. [s EXCEPT !.view.active = page] = [view |-> u, controls |-> s.controls]
      BY <2>1
    <3>2. CASE Selector!Leaving(o)
      <4>1. c = s.controls
        BY <2>1, <3>2 DEF Selector!Controls
      <4> QED BY <1>2, <3>1, <3>2, <4>1 DEF Selector!_setVisibility
    <3>3. CASE ~Selector!Leaving(o)
      <4> HIDE DEF u, v
      <4>1. u.active = page
        BY <2>1 DEF u, Selector!Views
      <4> QED BY <1>2, <2>1, <3>1, <3>3, <4>1 DEF Selector!_setVisibility
    <3> QED BY <3>2, <3>3
  <2>3. t = Selector!_animateOut(m, o, v.active)
    BY <1>2, <2>1, <2>2 DEF Selector!_showPage, Selector!Pages
  <2>4. m = [view |-> [v EXCEPT !.active = page], controls |-> c]
    OBVIOUS
  <2> HIDE DEF t, m
  <2>5. CASE out
    <3> DEFINE w == [v EXCEPT !.active = page, !.waiting = TRUE, !.grid = "out"]
    <3>1. t = [view |-> w, controls |-> c]
      BY <2>3, <2>4, <2>1, <2>5 DEF Selector!_animateOut, Selector!Views
    <3>2. /\ w \in Selector!Views /\ w.checked = v.checked /\ w.active = page /\ w.terms = v.terms /\ w.waiting /\ w.grid = "out"
          /\ w.shown = v.shown /\ w.fading = v.fading
      BY <2>1 DEF Selector!Views
    <3> HIDE DEF w, c
    <3>3. Whole(t)
      BY <1>2, <2>1, <2>5, <3>1, <3>2 DEF Whole, v
    <3>4. Kept(t, o) /\ (Fit(s, o) => Fit(t, o))
      BY <1>2, <2>1, <2>5, <3>1, <3>2 DEF Kept, Fit, Full, Alone, Beside, Whole,
          v, c, Selector!Controls
    <3> QED BY <1>2, <3>1, <3>2, <3>3, <3>4 DEF v, t
  <2>6. CASE ~out
    <3> DEFINE w == [v EXCEPT !.active = page, !.fading = v.fading \cup {v.active}]
    <3>1. t = [view |-> w, controls |-> c]
      BY <2>3, <2>4, <2>1, <2>6 DEF Selector!_animateOut, Selector!Views
    <3>2. /\ w \in Selector!Views /\ w.checked = v.checked /\ w.active = page /\ w.terms = v.terms /\ w.waiting = v.waiting
          /\ w.grid = v.grid /\ w.shown = v.shown /\ w.fading = v.fading \cup {v.active}
      BY <2>1 DEF Selector!Views
    <3> HIDE DEF w, c
    <3>3. Whole(t)
      BY <1>2, <2>1, <2>6, <3>1, <3>2 DEF Whole, v, Selector!Pages
    <3>4. Kept(t, o) /\ (Fit(s, o) => Fit(t, o))
      BY <1>2, <2>1, <2>6, <3>1, <3>2 DEF Kept, Fit, Full, Alone, Beside, Whole,
          v, c, Selector!Controls, Selector!Pages
    <3> QED BY <1>2, <3>1, <3>2, <3>3, <3>4 DEF v, t
  <2> QED BY <2>5, <2>6
<1> QED BY <1>1, <1>2

(* What checks the button, or changes the text.                            *)
LEMMA WithChecked ==
  ASSUME NEW s, Whole(s), NEW checked \in BOOLEAN, NEW o \in Phases, Kept(s, o)
  PROVE  LET c == [s EXCEPT !.view.checked = checked]
         IN  /\ Whole(c) /\ Kept(c, o) /\ (Fit(s, o) => Fit(c, o))
             /\ c.view.checked = checked /\ c.view.terms = s.view.terms /\ c.view.active = s.view.active
<1> DEFINE v == s.view
           c == [s EXCEPT !.view.checked = checked]
           u == [v EXCEPT !.checked = checked]
<1>1. v \in Selector!Views /\ s.controls \in Selector!Controls /\ s = [view |-> v, controls |-> s.controls]
  BY DEF Whole
<1>2. c = [view |-> u, controls |-> s.controls]
  BY <1>1
<1>3. /\ u \in Selector!Views /\ u.checked = checked /\ u.terms = v.terms /\ u.active = v.active
      /\ u.shown = v.shown /\ u.fading = v.fading /\ u.waiting = v.waiting /\ u.grid = v.grid
  BY <1>1 DEF Selector!Views
<1> HIDE DEF c, u
<1>4. Whole(c)
  BY <1>1, <1>2, <1>3 DEF Whole, v
<1>5. Kept(c, o)
  BY <1>1, <1>2, <1>3 DEF Kept, Full, Alone, v
<1>6. Fit(s, o) => Fit(c, o)
  BY <1>1, <1>2, <1>3, <1>5 DEF Fit, Beside, v
<1> QED  BY <1>2, <1>3, <1>4, <1>5, <1>6 DEF c, v

LEMMA WithTerms ==
  ASSUME NEW s, Whole(s), NEW terms \in BOOLEAN, NEW o \in Phases, Kept(s, o)
  PROVE  LET c == [s EXCEPT !.view.terms = terms]
         IN  /\ Whole(c) /\ Kept(c, o) /\ (Fit(s, o) => Fit(c, o))
             /\ c.view.terms = terms /\ c.view.checked = s.view.checked /\ c.view.active = s.view.active
<1> DEFINE v == s.view
           c == [s EXCEPT !.view.terms = terms]
           u == [v EXCEPT !.terms = terms]
<1>1. v \in Selector!Views /\ s.controls \in Selector!Controls /\ s = [view |-> v, controls |-> s.controls]
  BY DEF Whole
<1>2. c = [view |-> u, controls |-> s.controls]
  BY <1>1
<1>3. /\ u \in Selector!Views /\ u.terms = terms /\ u.checked = v.checked /\ u.active = v.active
      /\ u.shown = v.shown /\ u.fading = v.fading /\ u.waiting = v.waiting /\ u.grid = v.grid
  BY <1>1 DEF Selector!Views
<1> HIDE DEF c, u
<1>4. Whole(c)
  BY <1>1, <1>2, <1>3 DEF Whole, v
<1>5. Kept(c, o)
  BY <1>1, <1>2, <1>3 DEF Kept, Full, Alone, v
<1>6. Fit(s, o) => Fit(c, o)
  BY <1>1, <1>2, <1>3, <1>5 DEF Fit, Beside, v
<1> QED  BY <1>2, <1>3, <1>4, <1>5, <1>6 DEF c, v

LEMMA PageIsPage == \A s : Selector!Page(s) \in {"apps", "windows"}
  BY DEF Selector!Page

LEMMA CheckKeeps ==
  ASSUME NEW s, Whole(s), Searching(s), NEW o \in Phases, Kept(s, o), NEW checked \in BOOLEAN
  PROVE  LET t == Selector!Check(s, o, checked)
         IN  /\ Whole(t) /\ Searching(t) /\ Kept(t, o) /\ (Fit(s, o) => Fit(t, o))
<1>1. CASE s.view.checked = checked
  BY <1>1 DEF Selector!Check
<1>2. CASE s.view.checked # checked
  <2> DEFINE c == [s EXCEPT !.view.checked = checked]
  <2>2. Whole(c) /\ Kept(c, o) /\ (Fit(s, o) => Fit(c, o)) /\ c.view.terms = s.view.terms /\ c.view.active = s.view.active
    BY WithChecked
  <2>3. Selector!Check(s, o, checked) = Selector!_showPage(c, o, Selector!Page(c))
    BY <1>2 DEF Selector!Check
  <2> HIDE DEF c
  <2>4. Selector!Page(c) \in Selector!Pages /\ Selector!Page(c) # "search"
    BY PageIsPage DEF Selector!Pages
  <2> QED BY <2>2, <2>3, <2>4, ShowPage DEF Searching
<1> QED BY <1>1, <1>2

LEMMA TextKeeps ==
  ASSUME NEW s, Whole(s), NEW o \in Phases, o.visible, Fit(s, o), NEW terms \in BOOLEAN
  PROVE  Good(Selector!TextChanged(s, o, terms), o)
<1> DEFINE x == [s EXCEPT !.view.terms = terms]
           p == IF terms THEN "search" ELSE Selector!Page(x)
<1>1. Kept(s, o)
  BY DEF Fit
<1>2. Whole(x) /\ Fit(x, o) /\ x.view.terms = terms
  BY <1>1, WithTerms
<1>3. Selector!TextChanged(s, o, terms) = Selector!_showPage(x, o, p)
  BY DEF Selector!TextChanged
<1>4. p \in Selector!Pages /\ (p = "search" => terms)
  BY PageIsPage DEF Selector!Pages
<1> HIDE DEF x, p
<1>5. Kept(x, o)
  BY <1>2 DEF Fit
<1> QED BY <1>2, <1>3, <1>4, <1>5, ShowPage DEF Searching, Good

LEMMA ResetKeeps ==
  ASSUME NEW s, NEW o \in Phases, o.visible, Good(s, o)
  PROVE  Good(Selector!reset(s, o), o)
  BY TextKeeps DEF Selector!reset, Good

Typed(s) == s \in [view : Selector!Views, controls : Selector!Controls]

(* What _animateIn makes of a state, whatever page was there.              *)
Animated(s, o, old, t) ==
  /\ Typed(t)
  /\ t.view.checked = s.view.checked /\ t.view.active = s.view.active
  /\ t.view.terms = s.view.terms /\ t.view.waiting = s.view.waiting
  /\ t.view.shown = (s.view.shown \ old) \cup {s.view.active}
  /\ t.view.fading = IF s.view.active = "apps" /\ old = {"windows"}
                     THEN s.view.fading ELSE s.view.fading \ {s.view.active}
  /\ t.controls.wanted = s.controls.wanted
  /\ t.controls.slid = Selector!Slides(t.controls)
  /\ ~Selector!Leaving(o) => t.controls.spacer = (s.view.active = "windows")

LEMMA AnimateIn ==
  ASSUME NEW s, Typed(s), NEW o \in Phases, NEW old \in SUBSET Selector!Pages, s.view.active # "none"
  PROVE  Animated(s, o, old, Selector!_animateIn(s, o, old))
<1> DEFINE v == s.view
           c == s.controls
           g == IF "apps" \in old \cap v.shown THEN "rest" ELSE v.grid
           hidden == [v EXCEPT !.shown = v.shown \ old, !.grid = g]
           d == [c EXCEPT !.slid = Selector!Slides(c), !.spacer = IF Selector!Leaving(o) THEN c.spacer ELSE v.active = "windows"]
           shown == (v.shown \ old) \cup {v.active}
           now == v.active = "apps" /\ old = {"windows"}
           u == [hidden EXCEPT !.shown = shown, !.grid = IF now THEN "in" ELSE g,
                               !.fading = IF now THEN v.fading ELSE v.fading \ {v.active}]
           t == Selector!_animateIn(s, o, old)
<1>1. v \in Selector!Views /\ c \in Selector!Controls /\ s = [view |-> v, controls |-> c]
  BY DEF Typed
<1>2. /\ hidden \in Selector!Views /\ hidden.active = v.active /\ hidden.shown = v.shown \ old /\ hidden.grid = g
      /\ hidden.fading = v.fading /\ hidden.checked = v.checked /\ hidden.terms = v.terms
      /\ hidden.waiting = v.waiting
  BY <1>1 DEF Selector!Views
<1>3. Selector!HidePages(s, old) = [view |-> hidden, controls |-> c]
  BY <1>1 DEF Selector!HidePages
<1> HIDE DEF hidden
<1>4. Selector!_onPageEmpty(Selector!HidePages(s, old), o) = [view |-> hidden, controls |-> d]
  <2> DEFINE e == [view |-> hidden, controls |-> c]
  <2>1. CASE Selector!Leaving(o)
    BY <1>3, <2>1 DEF Selector!_onPageEmpty
  <2>2. CASE ~Selector!Leaving(o)
    <3>1. e.view = hidden /\ e.controls = c
      OBVIOUS
    <3>2. Selector!_onPageEmpty(e, o) = [e EXCEPT !.controls = [c EXCEPT !.slid = Selector!Slides(c), !.spacer = (hidden.active = "windows")]]
      BY <2>2, <3>1 DEF Selector!_onPageEmpty
    <3>3. (hidden.active = "windows") = (v.active = "windows")
      BY <1>2
    <3> QED  BY <1>3, <2>2, <3>2, <3>3
  <2> QED  BY <2>1, <2>2
<1>5. Selector!Slides(c) \in SUBSET Selector!Sliders
  BY <1>1 DEF Selector!Slides, Selector!Sliders, Selector!Controls
<1>6. /\ d \in Selector!Controls /\ d.wanted = c.wanted /\ d.slid = Selector!Slides(c) /\ d.inDrag = c.inDrag
      /\ ~Selector!Leaving(o) => d.spacer = (v.active = "windows")
  BY <1>1, <1>5 DEF Selector!Controls
<1>7. Selector!Slides(d) = d.slid
  BY <1>6 DEF Selector!Slides
<1> HIDE DEF d, g
<1>8. t = [view |-> u, controls |-> d]
  <2> DEFINE e == [view |-> hidden, controls |-> d]
  <2>1. t = [e EXCEPT !.view = [hidden EXCEPT !.shown = @ \cup {v.active},
                                !.grid = IF now THEN "in" ELSE @,
                                !.fading = IF now THEN @ ELSE @ \ {v.active}]]
    BY <1>4 DEF Selector!_animateIn
  <2>2. u = [hidden EXCEPT !.shown = @ \cup {v.active}, !.grid = IF now THEN "in" ELSE @,
                           !.fading = IF now THEN @ ELSE @ \ {v.active}]
    BY <1>2
  <2> QED  BY <2>1, <2>2
<1>9. v.active \in Selector!Pages /\ g \in {"rest", "in", "out"}
  BY <1>1 DEF Selector!Views, g
<1>10. /\ u \in Selector!Views /\ u.checked = v.checked /\ u.active = v.active /\ u.terms = v.terms
       /\ u.waiting = v.waiting /\ u.shown = shown
       /\ u.fading = IF now THEN v.fading ELSE v.fading \ {v.active}
  <2>1. CASE now
    BY <1>2, <1>9, <2>1 DEF Selector!Views, Selector!Pages
  <2>2. CASE ~now
    BY <1>2, <1>9, <2>2 DEF Selector!Views, Selector!Pages
  <2> QED BY <2>1, <2>2
<1> HIDE DEF u, t
<1>11. Animated(s, o, old, t)
  BY <1>6, <1>7, <1>8, <1>10 DEF Typed, Animated, v, c
<1> QED  BY <1>11 DEF t

LEMMA IsShownKeeps ==
  ASSUME NEW s, Whole(s), Searching(s), Full(s), Beside(s, Selector!Showing)
  PROVE  LET t == Selector!IsShown(s)
         IN  /\ Whole(t) /\ Searching(t) /\ Full(t) /\ Beside(t, Selector!Showing)
             /\ "windows" \in t.view.shown => t.view.active = "windows"
<1> DEFINE v == s.view
           u == [v EXCEPT !.shown = v.shown \ {"windows"}]
<1>1. CASE v.active = "windows"
  BY <1>1 DEF Selector!IsShown
<1>2. CASE v.active # "windows"
  <2>1. v \in Selector!Views /\ s.controls \in Selector!Controls /\ s = [view |-> v, controls |-> s.controls]
    BY DEF Whole
  <2>2. Selector!IsShown(s) = [view |-> u, controls |-> s.controls]
    BY <1>2, <2>1 DEF Selector!IsShown, Selector!HidePages, Selector!Views
  <2>3. /\ u \in Selector!Views /\ u.checked = v.checked /\ u.terms = v.terms /\ u.active = v.active
        /\ u.shown = v.shown \ {"windows"} /\ u.fading = v.fading /\ u.waiting = v.waiting /\ u.grid = v.grid
    BY <2>1 DEF Selector!Views
  <2> HIDE DEF u
  <2> QED BY <1>2, <2>1, <2>2, <2>3 DEF Whole, Searching, Full, Beside, v
<1> QED BY <1>1, <1>2

LEMMA HidesKeeps ==
  ASSUME NEW s, Whole(s), Searching(s), Full(s)
  PROVE  Good(Selector!Hides(s), Selector!Hiding)
<1> DEFINE t == Selector!Check(s, Selector!Hiding, FALSE)
           h == [t EXCEPT !.controls.wanted = {}]
           d == [t.controls EXCEPT !.wanted = {}]
<1>1. Selector!Hiding \in Phases /\ Kept(s, Selector!Hiding)
  BY DEF Selector!Hiding, Phases, Kept, Alone
<1>2. Whole(t) /\ Searching(t) /\ Kept(t, Selector!Hiding)
  BY <1>1, CheckKeeps
<1>3. Selector!Hides(s) = h
  BY DEF Selector!Hides
<1> HIDE DEF t
<1>4. t.controls \in Selector!Controls /\ t.view \in Selector!Views /\ t = [view |-> t.view, controls |-> t.controls]
  BY <1>2 DEF Whole
<1>5. h = [view |-> t.view, controls |-> d]
  BY <1>4
<1>6. d \in Selector!Controls /\ d.wanted = {}
  BY <1>4 DEF Selector!Controls
<1> HIDE DEF h, d
<1>7. Selector!Leaving(Selector!Hiding)
  BY DEF Selector!Leaving, Selector!Hiding
<1> QED BY <1>2, <1>3, <1>4, <1>5, <1>6, <1>7 DEF Good, Whole, Searching, Fit,
      Kept, Full, Alone, Beside

(* Where there was no page.                                                *)
LEMMA AnimateFirst ==
  ASSUME NEW s, Typed(s), s.view.active # "none"
  PROVE  LET t == Selector!_animateIn(s, Selector!Showing, {})
         IN  /\ Typed(t)
             /\ t.view.active = s.view.active /\ t.view.terms = s.view.terms
             /\ t.view.shown = s.view.shown \cup {s.view.active}
             /\ t.view.fading = s.view.fading \ {s.view.active}
             /\ t.controls.wanted = s.controls.wanted
             /\ t.controls.slid = Selector!Slides(t.controls)
             /\ t.controls.spacer = (s.view.active = "windows")
<1>1. Selector!Showing \in Phases /\ ~Selector!Leaving(Selector!Showing) /\ {} \in SUBSET Selector!Pages /\ {} # {"windows"}
  BY DEF Selector!Showing, Phases, Selector!Leaving
<1> DEFINE t == Selector!_animateIn(s, Selector!Showing, {})
<1>2. /\ Typed(t)
      /\ t.view.active = s.view.active /\ t.view.terms = s.view.terms
      /\ t.view.shown = (s.view.shown \ {}) \cup {s.view.active}
      /\ t.view.fading = IF s.view.active = "apps" /\ {} = {"windows"}
                                THEN s.view.fading ELSE s.view.fading \ {s.view.active}
      /\ t.controls.wanted = s.controls.wanted
      /\ t.controls.slid = Selector!Slides(t.controls)
      /\ ~Selector!Leaving(Selector!Showing) => t.controls.spacer = (s.view.active = "windows")
  BY <1>1, AnimateIn, SMTT(30) DEF Animated
<1>3. t.view.shown = s.view.shown \cup {s.view.active}
  BY <1>2
<1>4. t.view.fading = s.view.fading \ {s.view.active}
  <2> HIDE DEF t
  <2> QED  BY <1>1, <1>2
<1>5. t.controls.spacer = (s.view.active = "windows")
  BY <1>1, <1>2
<1> QED  BY <1>2, <1>3, <1>4, <1>5

LEMMA FirstPage ==
  ASSUME NEW s, NEW o, NEW page, s.view.active = "none", o.visible, page # "none"
  PROVE  Selector!_showPage(s, o, page) = Selector!_animateIn(Selector!_setVisibility([s EXCEPT !.view.active = page], o), o, {})
  BY DEF Selector!_showPage

LEMMA TermsChanged ==
  ASSUME NEW s, Typed(s), NEW terms
  PROVE  [s EXCEPT !.view.terms = terms] = [view |-> [s.view EXCEPT !.terms = terms], controls |-> s.controls]
<1>1. s.view \in Selector!Views /\ s.controls \in Selector!Controls /\ s = [view |-> s.view, controls |-> s.controls]
  BY DEF Typed
<1> QED  BY <1>1

LEMMA ShowsKeeps ==
  ASSUME NEW s, Whole(s), Searching(s)
  PROVE  Good(Selector!Shows(s), Selector!Showing)
<1>0. Selector!Showing \in Phases /\ ~Selector!Leaving(Selector!Showing) /\ Selector!Showing.visible /\ Selector!Showing.animating
  BY DEF Selector!Showing, Phases, Selector!Leaving
<1> DEFINE r == Selector!reset(s, Selector!Showing)
<1>1. Typed(r) /\ ("search" \in r.view.shown => "search" \in r.view.fading)
  <2>1. CASE ~s.view.terms
    BY <2>1 DEF Selector!reset, Whole, Searching, Typed
  <2>2. CASE s.view.terms
    <3> DEFINE v == s.view
               x == [v EXCEPT !.terms = FALSE]
               y == [view |-> x, controls |-> s.controls]
               page == Selector!Page(y)
    <3>1. v \in Selector!Views /\ s.controls \in Selector!Controls /\ s = [view |-> v, controls |-> s.controls]
      BY DEF Whole
    <3>2. x \in Selector!Views /\ x.active = v.active /\ x.fading = v.fading /\ x.shown = v.shown
      BY <3>1 DEF Selector!Views
    <3>3. r = Selector!_showPage(y, Selector!Showing, page)
      <4>1. [s EXCEPT !.view.terms = FALSE] = y
        <5>1. Typed(s)
          BY DEF Whole, Typed
        <5> QED  BY <5>1, TermsChanged
      <4> QED  BY <2>2, <4>1 DEF Selector!reset, Selector!TextChanged
    <3> HIDE DEF x
    <3>4. page \in {"windows", "apps"} /\ Selector!WantedFor(page) \in SUBSET Selector!Sliders
      BY PageIsPage, WantedSliders DEF Selector!Pages
    <3> DEFINE a == [x EXCEPT !.active = page]
               d == [s.controls EXCEPT !.wanted = Selector!WantedFor(page)]
               m == [view |-> a, controls |-> d]
    <3>5. CASE page = v.active
      BY <3>1, <3>2, <3>3, <3>4, <3>5, <1>0 DEF Selector!_showPage, Typed, Whole
    <3>6. CASE page # v.active
      <4> HIDE DEF page
      <4>1. /\ a \in Selector!Views /\ a.active = page /\ a.shown = v.shown /\ a.fading = v.fading
            /\ d \in Selector!Controls /\ m = Selector!_setVisibility([y EXCEPT !.view.active = page], Selector!Showing)
        <5>1. /\ a \in Selector!Views /\ a.active = page /\ a.shown = v.shown /\ a.fading = v.fading
              /\ d \in Selector!Controls
          BY <3>1, <3>2, <3>4 DEF Selector!Views, Selector!Controls, Selector!Pages
        <5>2. [y EXCEPT !.view.active = page] = [view |-> a, controls |-> s.controls]
          OBVIOUS
        <5> QED BY <5>1, <5>2, <1>0, <3>1 DEF Selector!_setVisibility
      <4>2. r = IF v.active = "none" THEN Selector!_animateIn(m, Selector!Showing, {}) ELSE Selector!_animateOut(m, Selector!Showing, v.active)
        BY <1>0, <3>2, <3>3, <3>6, <4>1 DEF Selector!_showPage
      <4> HIDE DEF r, m, a, d
      <4>3. Typed(m) /\ m.view = a
        BY <4>1 DEF Typed, m
      <4>4. CASE v.active = "none"
        <5>1. r = Selector!_animateIn(m, Selector!Showing, {})
          BY <4>2, <4>4
        <5>2. v.shown = {}
          BY <4>4 DEF Whole
        <5>3. m.view.active = page /\ page # "none" /\ m.view.shown = {}
          BY <3>4, <4>1, <4>3, <5>2
        <5>4. Typed(r) /\ r.view.shown = m.view.shown \cup {m.view.active}
          BY <4>3, <5>1, <5>3, AnimateFirst
        <5> QED  BY <3>4, <5>3, <5>4
      <4>5. CASE v.active # "none"
        <5> DEFINE f == [a EXCEPT !.fading = v.fading \cup {v.active}]
        <5>1. r = [view |-> f, controls |-> d]
          BY <1>0, <4>1, <4>2, <4>5 DEF Selector!_animateOut, m
        <5>2. v.active \in Selector!Pages /\ v.fading \in SUBSET Selector!Pages
          BY <3>1, <4>5 DEF Selector!Views
        <5>3. f \in Selector!Views /\ f.shown = v.shown /\ f.fading = v.fading \cup {v.active}
          BY <4>1, <5>2 DEF Selector!Views
        <5> HIDE DEF f
        <5> QED BY <4>1, <5>1, <5>3 DEF Typed, Whole
      <4> QED BY <4>4, <4>5
    <3> QED BY <3>5, <3>6
  <2> QED BY <2>1, <2>2
<1> HIDE DEF r
<1> DEFINE page == Selector!Page(r)
           b == [r.view EXCEPT !.active = page]
           d == [r.controls EXCEPT !.wanted = Selector!WantedFor(page)]
           m == [view |-> b, controls |-> d]
           t == Selector!_animateIn(m, Selector!Showing, {})
<1>2. page \in {"windows", "apps"} /\ Selector!WantedFor(page) \in SUBSET Selector!Sliders
  BY PageIsPage, WantedSliders DEF Selector!Pages
<1>3. Selector!_showPage([r EXCEPT !.view.active = "none"], Selector!Showing, page) = t
  <2> DEFINE n == [r EXCEPT !.view.active = "none"]
             nv == [r.view EXCEPT !.active = "none"]
  <2>1. n = [view |-> nv, controls |-> r.controls] /\ nv.active = "none" /\ [nv EXCEPT !.active = page] = b
    <3> DEFINE rv == r.view
    <3>1. rv \in Selector!Views /\ r = [view |-> rv, controls |-> r.controls]
      BY <1>1 DEF Typed
    <3> HIDE DEF rv, page
    <3>2. [rv EXCEPT !.active = "none"].active = "none"
          /\ [[rv EXCEPT !.active = "none"] EXCEPT !.active = page] = [rv EXCEPT !.active = page]
      BY <3>1 DEF Selector!Views
    <3>3. r.view = rv
      BY DEF rv
    <3> QED  BY <3>1, <3>2, <3>3
  <2> HIDE DEF nv
  <2>2. [n EXCEPT !.view.active = page] = [view |-> b, controls |-> r.controls] /\ n.view.active = "none"
    <3> HIDE DEF n, b, page
    <3>1. n.view = nv /\ n = [view |-> nv, controls |-> r.controls]
      BY <2>1
    <3>2. [n EXCEPT !.view.active = page] = [view |-> [nv EXCEPT !.active = page], controls |-> r.controls]
      BY <3>1
    <3> QED  BY <2>1, <3>1, <3>2
  <2> HIDE DEF n
  <2>3. b.active = page
    BY <1>1 DEF Typed, Selector!Views
  <2> HIDE DEF b
  <2>4. Selector!_setVisibility([n EXCEPT !.view.active = page], Selector!Showing) = m
    BY <1>0, <2>2, <2>3 DEF Selector!_setVisibility
  <2> HIDE DEF m, page
  <2>5. page # "none"
    BY <1>2
  <2>6. Selector!_showPage(n, Selector!Showing, page) = Selector!_animateIn(Selector!_setVisibility([n EXCEPT !.view.active = page], Selector!Showing), Selector!Showing, {})
    BY <1>0, <2>2, <2>5, FirstPage
  <2>7. Selector!_showPage(n, Selector!Showing, page) = t
    BY <2>4, <2>6
  <2> QED  BY <2>7 DEF n
<1>4. /\ Typed(m) /\ b.active = page /\ b.shown = r.view.shown /\ b.fading = r.view.fading
      /\ b.terms = r.view.terms /\ d.wanted = Selector!WantedFor(page)
  BY <1>1, <1>2 DEF Typed, Selector!Views, Selector!Controls, Selector!Pages
<1>5. /\ Typed(t) /\ t.view.active = page
      /\ t.view.shown = b.shown \cup {page} /\ t.view.fading = b.fading \ {page}
      /\ t.controls.wanted = Selector!WantedFor(page) /\ t.controls.slid = Selector!Slides(t.controls)
      /\ t.controls.spacer = (page = "windows")
  <2> HIDE DEF t, m, b, d, page
  <2>1. m.view.active = page /\ page # "none" /\ m.view = b /\ m.controls = d
    BY <1>2, <1>4 DEF m
  <2> QED  BY <1>4, <2>1, AnimateFirst DEF t
<1> HIDE DEF m, b, d, page
<1>6. Selector!Shows(s) = t
  <2>1. Selector!Shows(s) = [t EXCEPT !.controls.spacer = (t.view.active = "windows")]
    BY <1>3 DEF Selector!Shows, r, page
  <2> HIDE DEF t
  <2> QED BY <1>5, <2>1 DEF Typed, Selector!Controls
<1> HIDE DEF t
<1> QED BY <1>0, <1>1, <1>2, <1>4, <1>5, <1>6 DEF Good, Whole, Searching, Fit,
      Kept, Full, Alone, Beside, Typed

(* The turns of the overview, as the selector sees them.                   *)
phase(o) ==
  IF ~o.visible THEN "hidden" ELSE IF ~o.animating THEN "shown" ELSE IF o.target THEN "showing" ELSE "leaving"

Turns ==
  {<<"hidden", "showing">>, <<"showing", "shown">>, <<"showing", "leaving">>, <<"shown", "leaving">>,
   <<"leaving", "hidden">>, <<"leaving", "showing">>}

Turned(o, p) == phase(o) = phase(p) \/ <<phase(o), phase(p)>> \in Turns

Animates(o) == o \in Phases /\ (o.animating => o.visible)

(* The phase of a state that the methods of the overview reach.            *)
Seen(o) == [visible |-> o.visible, animating |-> o.animating, target |-> o.target]

LEMMA ReachesSeen ==
  ASSUME NEW o, Selector!Over!Becomes(o)
  PROVE  Selector!Now' = Seen(o)
  BY DEF Selector!Over!Becomes, Selector!Now, Seen

LEMMA StateSeen == Seen(Selector!Over!State) = Selector!Now
  BY DEF Selector!Over!State, Seen, Selector!Now

MayLeave(o, h) == Seen(h) = Seen(o) \/ (phase(o) = "shown" /\ phase(h) = "leaving")

LEMMA PhaseSeen == \A o : phase(Seen(o)) = phase(o)
  BY DEF Seen, phase

LEMMA ReleasedSeen ==
  ASSUME NEW o, o \in Selector!Over!Overviews
  PROVE  Seen(Selector!Over!Released(o)) = Seen(o)
  BY DEF Selector!Over!Released, Seen, Selector!Over!Overviews

LEMMA NotVisibleTurns ==
  ASSUME NEW o, o \in Selector!Over!Overviews
  PROVE  LET h == Selector!Over!_animateNotVisible(o)
         IN  /\ h \in Selector!Over!Overviews
             /\ MayLeave(o, h)
  BY DEF MayLeave, Selector!Over!_animateNotVisible, Seen,
      Selector!Over!Overviews, phase

LEMMA HideTurns ==
  ASSUME NEW o, o \in Selector!Over!Overviews, NEW ignored
  PROVE  LET h == Selector!Over!hide(o, ignored)
         IN  MayLeave(o, h)
<1>1. CASE isDummy \/ ~o.shown \/ ignored
  BY <1>1 DEF Selector!Over!hide, MayLeave
<1>2. CASE ~(isDummy \/ ~o.shown \/ ignored)
  <2> DEFINE d == [o EXCEPT !.shown = FALSE]
             n == Selector!Over!_animateNotVisible(d)
  <2>1. d \in Selector!Over!Overviews /\ Seen(d) = Seen(o) /\ phase(d) = phase(o)
    BY DEF Selector!Over!Overviews, Seen, phase
  <2> HIDE DEF d
  <2>2. n \in Selector!Over!Overviews /\ MayLeave(d, n)
    BY <2>1, NotVisibleTurns
  <2>3. Selector!Over!hide(o, ignored) = Selector!Over!Released(n)
    BY <1>2 DEF Selector!Over!hide, d
  <2> HIDE DEF n
  <2>4. Seen(Selector!Over!Released(n)) = Seen(n)
    BY <2>2, ReleasedSeen
  <2> QED  BY <2>1, <2>2, <2>3, <2>4, PhaseSeen DEF MayLeave
<1> QED  BY <1>1, <1>2

LEMMA VisibleTurns ==
  ASSUME NEW o, o \in Selector!Over!Overviews
  PROVE  LET h == Selector!Over!_animateVisible(o)
         IN  Seen(h) = Seen(o) \/ (phase(o) = "hidden" /\ phase(h) = "showing")
  BY DEF Selector!Over!_animateVisible, Seen, Selector!Over!Overviews, phase

LEMMA SyncTurns ==
  ASSUME NEW o, o \in Selector!Over!Overviews, NEW drag, NEW refused, NEW ignored
  PROVE  LET g == Selector!Over!_syncGrab(o, drag, refused, ignored)
         IN  MayLeave(o, g)
<1>1. CASE o.animating \/ ~o.shown \/ drag \/ o.modal
  BY <1>1, ReleasedSeen DEF Selector!Over!_syncGrab, MayLeave
<1>2. CASE ~(o.animating \/ ~o.shown \/ drag \/ o.modal) /\ refused
  BY <1>2, HideTurns DEF Selector!Over!_syncGrab
<1>3. CASE ~(o.animating \/ ~o.shown \/ drag \/ o.modal) /\ ~refused
  BY <1>3 DEF Selector!Over!_syncGrab, MayLeave, Seen, Selector!Over!Overviews
<1> QED  BY <1>1, <1>2, <1>3

LEMMA AnyTurn ==
  ASSUME Selector!Over!Inv, Selector!Over!Next
  PROVE  Turned(Selector!Now, Selector!Now')
<1> DEFINE s == Selector!Over!State
<1>1. s \in Selector!Over!Overviews /\ phase(s) = phase(Selector!Now)
  BY StateSeen, PhaseSeen DEF Selector!Over!Inv, Selector!Over!Sound
<1>2. \A o : Selector!Over!Becomes(o) => phase(Selector!Now') = phase(o)
  BY ReachesSeen, PhaseSeen
<1>3. /\ s.visible = visible /\ s.animating = animationInProgress /\ s.target = visibleTarget
      /\ s.modal = _modal /\ s.shown = _shown
      /\ s.animating => s.visible
  BY DEF Selector!Over!State, Selector!Over!Inv, Selector!Over!Sound
<1> HIDE DEF s
<1>4. ASSUME NEW o \in Selector!Over!Overviews, NEW ignored, Selector!Over!Becomes(Selector!Over!hide(o, ignored)), phase(o) = phase(Selector!Now)
      PROVE  Turned(Selector!Now, Selector!Now')
  BY <1>2, <1>4, HideTurns, PhaseSeen DEF MayLeave, Turned, Turns
<1>5. ASSUME NEW ctrl \in BOOLEAN, Selector!Over!Show(ctrl)
      PROVE  Turned(Selector!Now, Selector!Now')
  <2> DEFINE o == [s EXCEPT !.shown = TRUE]
  <2>1. PICK refused \in Selector!Over!MayRefuse :
          LET g == Selector!Over!_syncGrab(o, _inXdndDrag, refused, ctrl)
              denied == ~animationInProgress /\ ~_inXdndDrag /\ ~_modal /\ refused
          IN  Selector!Over!Becomes(IF denied THEN g ELSE Selector!Over!_animateVisible([g EXCEPT !.layout = TRUE]))
    BY <1>5 DEF Selector!Over!Show, s
  <2>2. /\ o \in Selector!Over!Overviews /\ phase(o) = phase(Selector!Now)
        /\ o.animating = animationInProgress /\ o.modal = _modal /\ o.shown
    BY <1>1, <1>3 DEF Selector!Over!Overviews, phase
  <2> HIDE DEF o
  <2> DEFINE g == Selector!Over!_syncGrab(o, _inXdndDrag, refused, ctrl)
             denied == ~animationInProgress /\ ~_inXdndDrag /\ ~_modal /\ refused
  <2>3. CASE denied
    <3>1. g = Selector!Over!hide(o, ctrl)
      BY <2>2, <2>3 DEF Selector!Over!_syncGrab
    <3> QED  BY <1>4, <2>1, <2>2, <2>3, <3>1
  <2>4. CASE ~denied
    <3> DEFINE l == [g EXCEPT !.layout = TRUE]
    <3>1. l \in Selector!Over!Overviews /\ Seen(l) = Seen(o)
      <4>1. g = Selector!Over!Released(o) \/ g = [o EXCEPT !.modal = TRUE]
        BY <2>2, <2>4 DEF Selector!Over!_syncGrab
      <4>2. g \in Selector!Over!Overviews /\ Seen(g) = Seen(o)
        BY <2>2, <4>1 DEF Selector!Over!Released, Selector!Over!Overviews, Seen
      <4> HIDE DEF g
      <4> QED  BY <4>2 DEF Selector!Over!Overviews, Seen
    <3>2. Selector!Over!Becomes(Selector!Over!_animateVisible(l))
      BY <2>1, <2>4
    <3> HIDE DEF l
    <3> QED  BY <1>2, <2>2, <3>1, <3>2, VisibleTurns, PhaseSeen DEF Turned, Turns
  <2> QED  BY <2>3, <2>4
<1>6. CASE Selector!Over!Hide
  <2>1. Selector!Over!Becomes(Selector!Over!hide(s, FALSE))
    BY <1>6 DEF Selector!Over!Hide, s
  <2> QED  BY <1>1, <1>4, <2>1
<1>7. CASE Selector!Over!_onDragEnd
  <2>1. Selector!Over!Becomes(Selector!Over!hide(s, FALSE))
    BY <1>7 DEF Selector!Over!_onDragEnd, s
  <2> QED  BY <1>1, <1>4, <2>1
<1>8. CASE Selector!Over!_showDone
  <2> DEFINE d == [s EXCEPT !.animating = FALSE]
             o == Selector!Over!Shown(d)
  <2>1. PICK refused \in Selector!Over!MayRefuse : Selector!Over!Becomes(Selector!Over!_syncGrab(o, _inXdndDrag, refused, FALSE))
    BY <1>8 DEF Selector!Over!_showDone, s
  <2>2. animationInProgress /\ visibleTarget
    BY <1>8 DEF Selector!Over!_showDone
  <2>3. d \in Selector!Over!Overviews /\ phase(d) = "shown" /\ phase(Selector!Now) = "showing"
    BY <1>1, <1>3, <2>2 DEF Selector!Over!Overviews, phase, Selector!Now
  <2> HIDE DEF d
  <2>4. o \in Selector!Over!Overviews /\ phase(o) \in {"shown", "leaving"}
    BY <2>3, NotVisibleTurns, PhaseSeen DEF MayLeave, Selector!Over!Shown
  <2> HIDE DEF o
  <2> DEFINE g == Selector!Over!_syncGrab(o, _inXdndDrag, refused, FALSE)
  <2>5. phase(g) = phase(o) \/ (phase(o) = "shown" /\ phase(g) = "leaving")
    <3>1. MayLeave(o, g)
      BY <2>4, SyncTurns
    <3>2. phase(Seen(g)) = phase(g) /\ phase(Seen(o)) = phase(o)
      BY PhaseSeen
    <3> HIDE DEF g
    <3> QED  BY <3>1, <3>2 DEF MayLeave
  <2>6. phase(Selector!Now') = phase(g)
    BY <1>2, <2>1
  <2> HIDE DEF g
  <2> QED  BY <2>3, <2>4, <2>5, <2>6 DEF Turned, Turns
<1>9. CASE Selector!Over!_hideDone
  <2> DEFINE d == [s EXCEPT !.animating = FALSE, !.visible = FALSE, !.unredirect = @ - 1]
             o == Selector!Over!Hidden(d)
  <2>1. PICK refused \in Selector!Over!MayRefuse : Selector!Over!Becomes(Selector!Over!_syncGrab(o, _inXdndDrag, refused, FALSE))
    BY <1>9 DEF Selector!Over!_hideDone, s
  <2>2. animationInProgress /\ ~visibleTarget
    BY <1>9 DEF Selector!Over!_hideDone
  <2>3. /\ d \in Selector!Over!Overviews /\ phase(d) = "hidden" /\ phase(Selector!Now) = "leaving"
        /\ ~d.visible /\ ~d.animating /\ d.unredirect = 0
    <3>1. s.unredirect = 1
      BY <1>3, <2>2 DEF Selector!Over!Inv, Selector!Over!Sound, s
    <3>2. s.unredirect - 1 = 0
      BY <3>1
    <3> QED  BY <1>1, <1>3, <2>2, <3>2 DEF Selector!Over!Overviews, phase, Selector!Now
  <2> HIDE DEF d
  <2>4. o \in Selector!Over!Overviews /\ phase(o) \in {"hidden", "showing"}
    <3>1. CASE d.shown
      <4>1. o = Selector!Over!_animateVisible(d)
        BY <3>1 DEF Selector!Over!Hidden
      <4>2. o \in Selector!Over!Overviews
        <5>1. d.unredirect + 1 = 1
          BY <2>3
        <5> QED  BY <4>1, <5>1, <2>3 DEF Selector!Over!_animateVisible,
              Selector!Over!Overviews
      <4> QED  BY <2>3, <4>1, <4>2, VisibleTurns, PhaseSeen
    <3>2. CASE ~d.shown
      BY <2>3, <3>2 DEF Selector!Over!Hidden, Selector!Over!Overviews, phase
    <3> QED  BY <3>1, <3>2 DEF MayLeave
  <2> HIDE DEF o
  <2> DEFINE g == Selector!Over!_syncGrab(o, _inXdndDrag, refused, FALSE)
  <2>5. phase(g) = phase(o) \/ (phase(o) = "shown" /\ phase(g) = "leaving")
    <3>1. MayLeave(o, g)
      BY <2>4, SyncTurns
    <3>2. phase(Seen(g)) = phase(g) /\ phase(Seen(o)) = phase(o)
      BY PhaseSeen
    <3> HIDE DEF g
    <3> QED  BY <3>1, <3>2 DEF MayLeave
  <2>6. phase(Selector!Now') = phase(g)
    BY <1>2, <2>1
  <2> HIDE DEF g
  <2> QED  BY <2>3, <2>4, <2>5, <2>6 DEF Turned, Turns
<1>10. CASE UNCHANGED <<visible, animationInProgress, visibleTarget>>
  BY <1>10 DEF Turned, Selector!Now
<1>11. UNCHANGED Selector!Over!overviewVars => UNCHANGED <<visible, animationInProgress, visibleTarget>>
  BY DEF Selector!Over!overviewVars
<1> QED
  BY <1>5, <1>6, <1>7, <1>8, <1>9, <1>10, <1>11
     DEF Selector!Over!Next, Selector!Over!_onDragBegin, Selector!Over!_sessionUpdated, Selector!Over!OthersPush, Selector!Over!OthersPop

-----------------------------------------------------------------------------
LEMMA GoodByPhase ==
  ASSUME NEW s, NEW o, NEW p, Animates(o), Animates(p), phase(o) = phase(p), Good(s, o)
  PROVE  Good(s, p)
  BY DEF Animates, Phases, phase, Good, Fit, Kept, Alone, Beside, Selector!Leaving

LEMMA IsHiddenKeeps ==
  ASSUME NEW s, Whole(s), Searching(s), NEW o, ~o.visible
  PROVE  Good(Selector!IsHidden(s), o)
<1> DEFINE v == s.view
           g == IF "apps" \in v.shown THEN "rest" ELSE v.grid
           u == [v EXCEPT !.grid = g]
<1>1. v \in Selector!Views /\ s.controls \in Selector!Controls /\ s = [view |-> v, controls |-> s.controls]
  BY DEF Whole
<1>2. Selector!IsHidden(s) = [s EXCEPT !.view.grid = g]
  BY DEF Selector!IsHidden
<1>3. g \in {"rest", "in", "out"}
  BY <1>1 DEF Selector!Views
<1> HIDE DEF g
<1>4. Selector!IsHidden(s) = [view |-> u, controls |-> s.controls]
  BY <1>1, <1>2
<1>5. /\ u \in Selector!Views /\ u.terms = v.terms /\ u.active = v.active /\ u.shown = v.shown
      /\ u.fading = v.fading /\ u.waiting = v.waiting
  BY <1>1, <1>3 DEF Selector!Views
<1> HIDE DEF u
<1> QED  BY <1>1, <1>4, <1>5 DEF Good, Whole, Searching, Fit, Kept, v

(* What comes of a turn of the overview.                                   *)
LEMMA FollowKeeps ==
  ASSUME NEW s, Animates(Selector!Now), Animates(Selector!Now)', Turned(Selector!Now, Selector!Now'), Good(s, Selector!Now)
  PROVE  Good(Selector!Follow(s), Selector!Now')
<1>1. /\ Selector!WasLeaving <=> phase(Selector!Now) = "leaving"
      /\ Selector!WasShowing <=> phase(Selector!Now) = "showing"
      /\ Selector!IsLeaving <=> phase(Selector!Now') = "leaving"
      /\ Selector!IsShowing <=> phase(Selector!Now') = "showing"
      /\ ~visible' <=> phase(Selector!Now') = "hidden"
  BY DEF Animates, Phases, Selector!WasLeaving, Selector!WasShowing,
      Selector!IsLeaving, Selector!IsShowing, Selector!Leaving, phase,
      Selector!Now
<1>2. /\ phase(Selector!Showing) = "showing" /\ phase(Selector!Hiding) = "leaving"
      /\ Animates(Selector!Showing) /\ Animates(Selector!Hiding)
  BY DEF phase, Selector!Showing, Selector!Hiding, Animates, Phases
<1>3. Whole(s) /\ Searching(s)
  BY DEF Good
<1>4. CASE phase(Selector!Now') = phase(Selector!Now)
  <2>1. Selector!Follow(s) = s
    BY <1>1, <1>4 DEF Selector!Follow
  <2> QED  BY <1>4, <2>1, GoodByPhase
<1>5. CASE phase(Selector!Now') = "showing" /\ phase(Selector!Now) \in {"hidden", "leaving"}
  <2>1. Selector!Follow(s) = Selector!Shows(s)
    BY <1>1, <1>5 DEF Selector!Follow
  <2>2. Good(Selector!Shows(s), Selector!Showing)
    BY <1>3, ShowsKeeps
  <2> QED  BY <1>2, <1>5, <2>1, <2>2, GoodByPhase
<1>6. CASE phase(Selector!Now) = "showing" /\ phase(Selector!Now') \in {"shown", "leaving"}
  <2> DEFINE t == Selector!IsShown(s)
  <2>1. Good(s, Selector!Showing)
    BY <1>2, <1>6, GoodByPhase
  <2>2. Full(s) /\ Beside(s, Selector!Showing)
    BY <2>1 DEF Good, Fit, Kept, Selector!Showing
  <2>3. /\ Whole(t) /\ Searching(t) /\ Full(t) /\ Beside(t, Selector!Showing)
        /\ "windows" \in t.view.shown => t.view.active = "windows"
    BY <1>3, <2>2, IsShownKeeps
  <2>4. CASE phase(Selector!Now') = "shown"
    <3>1. Selector!Follow(s) = t
      BY <1>1, <1>6, <2>4 DEF Selector!Follow
    <3>2. Selector!Now'.visible /\ ~Selector!Now'.animating /\ ~Selector!Leaving(Selector!Now') /\ ~Selector!Leaving(Selector!Showing)
      BY <2>4 DEF phase, Selector!Leaving, Animates, Phases, Selector!Showing
    <3> HIDE DEF t
    <3> QED  BY <2>3, <3>1, <3>2 DEF Good, Fit, Kept, Alone, Beside
  <2>5. CASE phase(Selector!Now') = "leaving"
    <3>1. Selector!Follow(s) = Selector!Hides(t)
      BY <1>1, <1>6, <2>5 DEF Selector!Follow
    <3> HIDE DEF t
    <3>2. Good(Selector!Hides(t), Selector!Hiding)
      BY <2>3, HidesKeeps
    <3> QED  BY <1>2, <2>5, <3>1, <3>2, GoodByPhase
  <2> QED  BY <1>6, <2>4, <2>5
<1>7. CASE phase(Selector!Now) = "shown" /\ phase(Selector!Now') = "leaving"
  <2>1. Selector!Follow(s) = Selector!Hides(s)
    BY <1>1, <1>7 DEF Selector!Follow
  <2>2. Full(s)
    BY <1>7 DEF Good, Fit, Kept, phase
  <2>3. Good(Selector!Hides(s), Selector!Hiding)
    BY <1>3, <2>2, HidesKeeps
  <2> QED  BY <1>2, <1>7, <2>1, <2>3, GoodByPhase
<1>8. CASE phase(Selector!Now) = "leaving" /\ phase(Selector!Now') = "hidden"
  <2>1. Selector!Follow(s) = Selector!IsHidden(s)
    BY <1>1, <1>8 DEF Selector!Follow
  <2>2. ~Selector!Now'.visible
    BY <1>1, <1>8 DEF Selector!Now
  <2> QED  BY <1>3, <2>1, <2>2, IsHiddenKeeps
<1> QED  BY <1>4, <1>5, <1>6, <1>7, <1>8 DEF Turned, Turns

-----------------------------------------------------------------------------
PagesInv ==
  /\ Selector!Over!Inv
  /\ Good(Selector!State, Selector!Now)
  /\ keyHandlers = IF visible /\ ~Selector!Leaving(Selector!Now) THEN 1 ELSE 0

LEMMA PagesInvIsSound == PagesInv => Selector!ViewsSound
<1> SUFFICES ASSUME PagesInv  PROVE Selector!ViewsSound
  OBVIOUS
<1>1. Selector!State.view = view /\ Selector!State.controls = controls
  BY DEF Selector!State
<1>2. Selector!Now.visible = visible /\ Selector!Now.animating = animationInProgress /\ visible \in BOOLEAN
  BY DEF Selector!Now, PagesInv, Selector!Over!Inv, Selector!Over!Sound,
      Selector!Over!State, Selector!Over!Overviews
<1>3. Good(Selector!State, Selector!Now)
  BY DEF PagesInv
<1> HIDE DEF Selector!State, Selector!Now
<1>4. Selector!TypeOK
  BY <1>1, <1>3 DEF Good, Whole, Selector!TypeOK, PagesInv
<1>5. Selector!NeverEmpty
  BY <1>1, <1>2, <1>3 DEF Good, Fit, Kept, Full, Selector!NeverEmpty
<1>6. Selector!OthersGo
  BY <1>1, <1>2, <1>3 DEF Good, Whole, Fit, Kept, Full, Alone,
      Selector!OthersGo, Selector!Views, Selector!Pages
<1>7. Selector!ControlsFollow
  BY <1>1, <1>2, <1>3 DEF Good, Fit, Beside, Selector!ControlsFollow, Selector!Leaving
<1>8. Selector!KeysOnce
  BY <1>1, <1>3 DEF Good, Searching, PagesInv, Selector!KeysOnce
<1> QED  BY <1>4, <1>5, <1>6, <1>7, <1>8 DEF Selector!ViewsSound

(* Whatever good state is reached is the state.                            *)
LEMMA BecomesIs ==
  ASSUME NEW s, Whole(s), Selector!Becomes(s)
  PROVE  Selector!State' = s
<1>1. s = [view |-> s.view, controls |-> s.controls]
  BY DEF Whole
<1> QED  BY <1>1 DEF Selector!Becomes, Selector!State

LEMMA PagesInvAnimates == Selector!Over!Inv => Animates(Selector!Now)
  BY DEF Selector!Over!Inv, Selector!Over!Sound, Selector!Over!State,
      Selector!Over!Overviews, Animates, Phases, Selector!Now

(* A turn of the overview, whatever was done before it in the same call.   *)
LEMMA TurnKeeps ==
  ASSUME PagesInv, Selector!Over!ConstantsAssumption, NEW s, Good(s, Selector!Now), Selector!OverviewStep(s),
         Selector!Over!Next \/ UNCHANGED Selector!overviewVars
  PROVE  PagesInv'
<1>1. Selector!Over!Inv'
  <2>1. UNCHANGED Selector!overviewVars => UNCHANGED Selector!Over!vars
    BY DEF Selector!overviewVars, Selector!Over!vars, Selector!Over!overviewVars
  <2> QED  BY <2>1, Selector!Over!NextInv DEF PagesInv
<1>2. Animates(Selector!Now) /\ Animates(Selector!Now)'
  BY <1>1, PagesInvAnimates DEF PagesInv, Selector!Over!Inv,
      Selector!Over!Sound, Selector!Over!State, Selector!Over!Overviews,
      Animates, Phases, Selector!Now
<1>3. Turned(Selector!Now, Selector!Now')
  BY AnyTurn DEF PagesInv, Turned, Selector!overviewVars, Selector!Now
<1>4. Good(Selector!Follow(s), Selector!Now')
  BY <1>2, <1>3, FollowKeeps
<1>5. Selector!State' = Selector!Follow(s)
  BY <1>4, BecomesIs DEF Selector!OverviewStep, Good
<1>6. Good(Selector!State, Selector!Now)'
  BY <1>4, <1>5
<1>7. (keyHandlers = IF visible /\ ~Selector!Leaving(Selector!Now) THEN 1 ELSE 0)'
  <2>1. /\ Selector!WasLeaving <=> phase(Selector!Now) = "leaving"
        /\ Selector!WasShowing <=> phase(Selector!Now) = "showing"
        /\ Selector!IsLeaving <=> phase(Selector!Now') = "leaving"
        /\ Selector!IsShowing <=> phase(Selector!Now') = "showing"
        /\ visible /\ ~Selector!Leaving(Selector!Now) <=> phase(Selector!Now) \in {"shown", "showing"}
        /\ visible' /\ ~Selector!Leaving(Selector!Now)' <=> phase(Selector!Now') \in {"shown", "showing"}
    BY <1>2 DEF Animates, Phases, Selector!WasLeaving, Selector!WasShowing,
        Selector!IsLeaving, Selector!IsShowing, Selector!Leaving, phase,
        Selector!Now
  <2>2. keyHandlers = IF phase(Selector!Now) \in {"shown", "showing"} THEN 1 ELSE 0
    BY <2>1 DEF PagesInv
  <2>3. keyHandlers' = LET kept == IF phase(Selector!Now) # "leaving" /\ phase(Selector!Now') = "leaving" THEN 0 ELSE keyHandlers
                       IN  IF phase(Selector!Now) # "showing" /\ phase(Selector!Now') = "showing" THEN kept + 1 ELSE kept
    BY <2>1 DEF Selector!OverviewStep
  <2>4. keyHandlers' = IF phase(Selector!Now') \in {"shown", "showing"} THEN 1 ELSE 0
    BY <1>3, <2>2, <2>3 DEF Turned, Turns
  <2> QED  BY <2>1, <2>4
<1> QED  BY <1>1, <1>6, <1>7 DEF PagesInv

(* What leaves the overview alone.                                         *)
LEMMA StaysKeeps ==
  ASSUME PagesInv, Selector!Over!ConstantsAssumption, NEW s, Good(s, Selector!Now), Selector!Becomes(s),
         UNCHANGED <<Selector!overviewVars, keyHandlers>>
  PROVE  PagesInv'
<1>1. Selector!Over!Inv'
  <2>1. UNCHANGED Selector!Over!vars
    BY DEF Selector!overviewVars, Selector!Over!vars, Selector!Over!overviewVars
  <2> QED  BY <2>1, Selector!Over!NextInv DEF PagesInv
<1>2. Selector!Now' = Selector!Now /\ visible' = visible /\ keyHandlers' = keyHandlers
  BY DEF Selector!overviewVars, Selector!Now
<1>3. Selector!State' = s
  BY BecomesIs DEF Good
<1>4. Good(Selector!State, Selector!Now)'
  BY <1>2, <1>3
<1>5. (keyHandlers = IF visible /\ ~Selector!Leaving(Selector!Now) THEN 1 ELSE 0)'
  BY <1>2 DEF PagesInv
<1> QED  BY <1>1, <1>4, <1>5 DEF PagesInv

-----------------------------------------------------------------------------
LEMMA CheckNow ==
  ASSUME PagesInv, NEW checked \in BOOLEAN
  PROVE  Good(Selector!Check(Selector!State, Selector!Now, checked), Selector!Now)
<1>1. Good(Selector!State, Selector!Now) /\ Selector!Now \in Phases
  BY PagesInvAnimates DEF PagesInv, Animates
<1> QED  BY <1>1, CheckKeeps DEF Good, Fit

LEMMA DragKeeps ==
  ASSUME PagesInv, Selector!Over!ConstantsAssumption, NEW begins \in BOOLEAN, Selector!DragItem(begins)
  PROVE  PagesInv'
<1> DEFINE d == [controls EXCEPT !.inDrag = begins]
           c == [d EXCEPT !.slid = Selector!Slides(d)]
           s == [Selector!State EXCEPT !.controls = c]
           f == [view EXCEPT !.fading = view.fading \ {view.active}]
<1>1. /\ view \in Selector!Views /\ controls \in Selector!Controls /\ Selector!State = [view |-> view, controls |-> controls]
      /\ Selector!State.view = view /\ Selector!State.controls = controls
  BY DEF PagesInv, Good, Whole, Selector!State
<1>2. s = [view |-> view, controls |-> c]
  BY <1>1
<1>3. d \in Selector!Controls /\ d.wanted = controls.wanted /\ d.spacer = controls.spacer
  BY <1>1 DEF Selector!Controls
<1> HIDE DEF d
<1>4. Selector!Slides(d) \in SUBSET Selector!Sliders
  BY <1>3 DEF Selector!Slides, Selector!Controls, Selector!Sliders
<1>5. /\ c \in Selector!Controls /\ c.wanted = controls.wanted /\ c.spacer = controls.spacer
      /\ c.slid = Selector!Slides(c)
  <2>1. /\ c \in Selector!Controls /\ c.wanted = d.wanted /\ c.spacer = d.spacer
        /\ c.slid = Selector!Slides(d) /\ c.inDrag = d.inDrag
    BY <1>3, <1>4 DEF Selector!Controls
  <2> HIDE DEF c
  <2> QED  BY <1>3, <2>1 DEF Selector!Slides
<1>6. /\ f \in Selector!Views /\ f.active = view.active /\ f.shown = view.shown /\ f.terms = view.terms
      /\ f.waiting = view.waiting /\ f.grid = view.grid /\ f.fading = view.fading \ {view.active}
  BY <1>1 DEF Selector!Views
<1>7. Selector!Faded(s) = [view |-> f, controls |-> c]
  <2>1. Selector!Faded(s) = [s EXCEPT !.view.fading = view.fading \ {view.active}]
    BY <1>2 DEF Selector!Faded
  <2> HIDE DEF s
  <2> QED  BY <1>2, <2>1
<1> HIDE DEF c, f
<1>8. Good(Selector!State, Selector!Now) /\ Selector!Now.visible
  BY DEF PagesInv, Selector!DragItem, Selector!Now
<1> HIDE DEF Selector!State, s
<1>9. Good(s, Selector!Now)
  BY <1>1, <1>2, <1>5, <1>8 DEF Good, Whole, Searching, Fit, Kept, Full, Alone, Beside
<1>10. Good(Selector!Faded(s), Selector!Now)
  BY <1>1, <1>5, <1>6, <1>7, <1>8 DEF Good, Whole, Searching, Fit, Kept, Full,
      Alone, Beside
<1>11. \E t \in {s, Selector!Faded(s)} : Selector!Becomes(t) /\ UNCHANGED <<Selector!overviewVars, keyHandlers>>
  <2>1. CASE begins /\ view.active = "windows"
    BY <2>1 DEF Selector!DragItem, Selector!Selects, s, c, d
  <2>2. CASE ~(begins /\ view.active = "windows")
    BY <2>2 DEF Selector!DragItem, Selector!Selects, s, c, d
  <2> QED  BY <2>1, <2>2
<1> QED  BY <1>9, <1>10, <1>11, StaysKeeps

LEMMA FadeKeeps ==
  ASSUME PagesInv, Selector!Over!ConstantsAssumption, NEW page \in Selector!Pages, Selector!FadeEnds(page)
  PROVE  PagesInv'
<1> DEFINE f == [view EXCEPT !.fading = view.fading \ {page}]
           s == [view |-> f, controls |-> controls]
           t == Selector!_animateIn(s, Selector!Now, {page})
<1>1. /\ view \in Selector!Views /\ controls \in Selector!Controls /\ Selector!State = [view |-> view, controls |-> controls]
      /\ Selector!State.view = view /\ Selector!State.controls = controls
  BY DEF PagesInv, Good, Whole, Selector!State
<1>2. s = [Selector!State EXCEPT !.view.fading = @ \ {page}]
  BY <1>1
<1>3. /\ f \in Selector!Views /\ f.active = view.active /\ f.shown = view.shown /\ f.terms = view.terms
      /\ f.waiting = view.waiting /\ f.fading = view.fading \ {page}
  BY <1>1 DEF Selector!Views
<1>4. Selector!Becomes(t) /\ UNCHANGED <<Selector!overviewVars, keyHandlers>> /\ page \in view.fading
  BY <1>2 DEF Selector!FadeEnds
<1> HIDE DEF f
<1>5. /\ Good(Selector!State, Selector!Now) /\ Selector!Now \in Phases
  BY PagesInvAnimates DEF PagesInv, Animates
<1> HIDE DEF Selector!State
<1>6. Typed(s) /\ s.view = f /\ s.controls = controls /\ f.active # "none"
  BY <1>1, <1>3, <1>4, <1>5 DEF Typed, Good, Whole
<1> HIDE DEF s
<1>7. /\ Typed(t)
      /\ t.view.active = view.active /\ t.view.terms = view.terms /\ t.view.waiting = view.waiting
      /\ t.view.shown = (view.shown \ {page}) \cup {view.active}
      /\ t.view.fading = IF view.active = "apps" /\ {page} = {"windows"}
                           THEN view.fading \ {page} ELSE (view.fading \ {page}) \ {view.active}
      /\ t.controls.wanted = controls.wanted
      /\ t.controls.slid = Selector!Slides(t.controls)
      /\ ~Selector!Leaving(Selector!Now) => t.controls.spacer = (view.active = "windows")
  <2>1. {page} \in SUBSET Selector!Pages
    OBVIOUS
  <2>2. /\ Typed(t)
        /\ t.view.active = s.view.active /\ t.view.terms = s.view.terms /\ t.view.waiting = s.view.waiting
        /\ t.view.shown = (s.view.shown \ {page}) \cup {s.view.active}
        /\ t.view.fading = IF s.view.active = "apps" /\ {page} = {"windows"}
                             THEN s.view.fading ELSE s.view.fading \ {s.view.active}
        /\ t.controls.wanted = s.controls.wanted
        /\ t.controls.slid = Selector!Slides(t.controls)
        /\ ~Selector!Leaving(Selector!Now) => t.controls.spacer = (s.view.active = "windows")
    <3> DEFINE old == {page}
    <3>1. old \in SUBSET Selector!Pages
      BY <2>1
    <3>2. s.view.active # "none" /\ Selector!Now \in Phases /\ Typed(s)
      BY <1>3, <1>5, <1>6
    <3> HIDE DEF old
    <3>3. Animated(s, Selector!Now, old, Selector!_animateIn(s, Selector!Now, old))
      BY <3>1, <3>2, AnimateIn
    <3> QED  BY <3>3 DEF old, Animated
  <2> HIDE DEF t
  <2> QED  BY <1>3, <1>6, <2>2
<1> HIDE DEF t
<1>8. Whole(t) /\ Searching(t)
  BY <1>1, <1>3, <1>5, <1>6, <1>7 DEF Good, Whole, Searching, Typed
<1>9. Selector!Now.visible => Full(t) /\ Alone(t, Selector!Now) /\ Beside(t, Selector!Now)
  BY <1>1, <1>3, <1>5, <1>6, <1>7 DEF Good, Whole, Fit, Kept, Full, Alone, Beside
<1>10. Good(t, Selector!Now)
  BY <1>8, <1>9 DEF Good, Fit, Kept
<1> QED  BY <1>4, <1>10, StaysKeeps

LEMMA GridKeeps ==
  ASSUME PagesInv, Selector!Over!ConstantsAssumption, Selector!GridDone
  PROVE  PagesInv'
<1> DEFINE f == [view EXCEPT !.grid = "rest", !.waiting = FALSE]
           s == [view |-> f, controls |-> controls]
           t == Selector!_animateIn(s, Selector!Now, {"apps"})
<1>1. /\ view \in Selector!Views /\ controls \in Selector!Controls /\ Selector!State = [view |-> view, controls |-> controls]
      /\ Selector!State.view = view /\ Selector!State.controls = controls
  BY DEF PagesInv, Good, Whole, Selector!State
<1>2. s = [Selector!State EXCEPT !.view = [view EXCEPT !.grid = "rest", !.waiting = FALSE]]
  BY <1>1
<1>3. /\ f \in Selector!Views /\ f.active = view.active /\ f.shown = view.shown /\ f.terms = view.terms
      /\ ~f.waiting /\ f.fading = view.fading
  BY <1>1 DEF Selector!Views
<1>4. Selector!Becomes(IF view.waiting THEN t ELSE s) /\ UNCHANGED <<Selector!overviewVars, keyHandlers>>
  BY <1>2 DEF Selector!GridDone
<1> HIDE DEF f
<1>5. /\ Good(Selector!State, Selector!Now) /\ Selector!Now \in Phases
  BY PagesInvAnimates DEF PagesInv, Animates
<1> HIDE DEF Selector!State
<1>6. Typed(s) /\ s.view = f /\ s.controls = controls
  BY <1>1, <1>3 DEF Typed
<1> HIDE DEF s
<1>7. CASE view.waiting
  <2>1. f.active # "none"
    BY <1>1, <1>3, <1>5, <1>7 DEF Good, Whole
  <2>2. {"apps"} \in SUBSET Selector!Pages
    BY DEF Selector!Pages
  <2>3. /\ Typed(t)
        /\ t.view.active = view.active /\ t.view.terms = view.terms /\ ~t.view.waiting
        /\ t.view.shown = (view.shown \ {"apps"}) \cup {view.active}
        /\ t.view.fading = IF view.active = "apps" /\ {"apps"} = {"windows"}
                           THEN view.fading ELSE view.fading \ {view.active}
        /\ t.controls.wanted = controls.wanted
        /\ t.controls.slid = Selector!Slides(t.controls)
        /\ ~Selector!Leaving(Selector!Now) => t.controls.spacer = (view.active = "windows")
    <3> DEFINE old == {"apps"}
    <3>1. old \in SUBSET Selector!Pages /\ s.view.active # "none"
      BY <1>6, <2>1, <2>2
    <3> HIDE DEF old
    <3>2. Animated(s, Selector!Now, old, Selector!_animateIn(s, Selector!Now, old))
      BY <1>5, <1>6, <3>1, AnimateIn
    <3>3. Animated(s, Selector!Now, {"apps"}, t)
      BY <3>2 DEF old
    <3> HIDE DEF t
    <3> QED  BY <1>3, <1>6, <3>3 DEF Animated
  <2> HIDE DEF t
  <2>4. Whole(t) /\ Searching(t)
    BY <1>1, <1>3, <1>5, <1>6, <2>1, <2>3 DEF Good, Whole, Searching, Typed
  <2>5. Selector!Now.visible => Full(t) /\ Alone(t, Selector!Now) /\ Beside(t, Selector!Now)
    BY <1>1, <1>3, <1>5, <1>6, <2>1, <2>3 DEF Good, Whole, Fit, Kept, Full,
        Alone, Beside
  <2>6. Good(t, Selector!Now)
    BY <2>4, <2>5 DEF Good, Fit, Kept
  <2> QED  BY <1>4, <1>7, <2>6, StaysKeeps
<1>8. CASE ~view.waiting
  <2>1. Good(s, Selector!Now)
    BY <1>1, <1>3, <1>5, <1>6, <1>8 DEF Good, Whole, Searching, Fit, Kept, Full,
        Alone, Beside, Typed
  <2> QED  BY <1>4, <1>8, <2>1, StaysKeeps
<1> QED  BY <1>7, <1>8

LEMMA PagesContinue ==
  ASSUME PagesInv, Selector!Over!ConstantsAssumption, [Selector!Next]_(Selector!vars)
  PROVE  PagesInv'
<1>0. /\ Good(Selector!State, Selector!Now) /\ Selector!Now \in Phases /\ visible = Selector!Now.visible
      /\ Selector!State.view = view /\ view.checked \in BOOLEAN
  BY PagesInvAnimates DEF PagesInv, Animates, Selector!Now, Selector!State,
      Good, Whole, Selector!Views
<1>1. ASSUME Selector!Overview  PROVE PagesInv'
  BY <1>0, <1>1, TurnKeeps DEF Selector!Overview
<1>2. ASSUME NEW checked \in {~view.checked, TRUE}, Selector!_toggleAppsPage(checked)
      PROVE  PagesInv'
  <2>1. (\E ctrl \in BOOLEAN : Selector!Over!Show(ctrl)) => Selector!Over!Next
    BY DEF Selector!Over!Next
  <2>2. checked \in BOOLEAN
    BY <1>2, Zenon
  <2> QED  BY <1>2, <2>1, <2>2, CheckNow, TurnKeeps DEF Selector!_toggleAppsPage
<1>3. ASSUME Selector!_onShowAppsButtonToggled  PROVE PagesInv'
  <2>1. (~view.checked) \in BOOLEAN
    BY <1>0
  <2> QED  BY <1>3, <2>1, CheckNow, StaysKeeps
        DEF Selector!_onShowAppsButtonToggled, Selector!Selects
<1>4. ASSUME NEW page \in {"windows", "apps"}, Selector!_a11yFocusPage(page)  PROVE PagesInv'
  <2>1. (page = "apps") \in BOOLEAN
    OBVIOUS
  <2> QED  BY <1>4, <2>1, CheckNow, StaysKeeps DEF Selector!_a11yFocusPage,
        Selector!Selects
<1>5. ASSUME Selector!Type  PROVE PagesInv'
  <2>1. Good(Selector!TextChanged(Selector!State, Selector!Now, TRUE), Selector!Now)
    BY <1>0, <1>5, TextKeeps DEF Selector!Type, Good
  <2> QED  BY <1>5, <2>1, StaysKeeps DEF Selector!Type, Selector!Selects
<1>6. ASSUME Selector!Now.visible  PROVE Good(Selector!reset(Selector!State, Selector!Now), Selector!Now)
  BY <1>0, <1>6, ResetKeeps
<1>7. ASSUME Selector!Clear  PROVE PagesInv'
  BY <1>0, <1>6, <1>7, StaysKeeps DEF Selector!Clear, Selector!Selects
<1>8. ASSUME Selector!Escape  PROVE PagesInv'
  <2>1. visible
    BY <1>8 DEF Selector!Escape, PagesInv
  <2>2. CASE view.terms
    BY <1>0, <1>6, <1>8, <2>1, <2>2, StaysKeeps DEF Selector!Escape, Selector!Selects
  <2>3. CASE ~view.terms /\ view.checked
    BY <1>8, <2>3, CheckNow, StaysKeeps DEF Selector!Escape, Selector!Selects
  <2>4. CASE ~view.terms /\ ~view.checked
    <3>1. Selector!Over!Hide /\ Selector!OverviewStep(Selector!State)
      BY <1>8, <2>4 DEF Selector!Escape
    <3>2. Selector!Over!Next
      BY <3>1 DEF Selector!Over!Next
    <3> QED  BY <1>0, <3>1, <3>2, TurnKeeps
  <2> QED  BY <2>2, <2>3, <2>4
<1>9. ASSUME UNCHANGED Selector!vars  PROVE PagesInv'
  <2>1. Selector!Becomes(Selector!State) /\ UNCHANGED <<Selector!overviewVars, keyHandlers>>
    BY <1>9 DEF Selector!vars, Selector!Becomes, Selector!State
  <2> QED  BY <1>0, <2>1, StaysKeeps
<1> QED
  BY <1>1, <1>2, <1>3, <1>4, <1>5, <1>7, <1>8, <1>9, DragKeeps, FadeKeeps,
      GridKeeps DEF Selector!Next

LEMMA PagesBegin ==
  ASSUME Selector!Init, Selector!Over!ConstantsAssumption
  PROVE  PagesInv
<1>1. Selector!Over!Init /\ ~visible /\ ~animationInProgress
  BY DEF Selector!Init, Selector!Over!Init
<1>2. view = [checked |-> FALSE, active |-> "none", terms |-> FALSE, shown |-> {}, fading |-> {},
              waiting |-> FALSE, grid |-> "rest"]
      /\ controls = [wanted |-> Selector!Sliders, slid |-> Selector!Sliders, spacer |-> TRUE, inDrag |-> FALSE]
      /\ keyHandlers = 0
  BY DEF Selector!Init
<1>3. view \in Selector!Views /\ controls \in Selector!Controls
  BY <1>2 DEF Selector!Views, Selector!Controls, Selector!Pages, Selector!Sliders
<1>4. Good(Selector!State, Selector!Now)
  BY <1>1, <1>2, <1>3 DEF Good, Whole, Searching, Fit, Kept, Selector!State,
      Selector!Now
<1>5. Selector!Over!Inv
  BY <1>1, Selector!Over!InitInv
<1> QED  BY <1>1, <1>2, <1>4, <1>5 DEF PagesInv

-----------------------------------------------------------------------------
(* The pages are sound in every behaviour of the selector.                 *)
THEOREM SelectorIsSound ==
  Selector!Init /\ [][Selector!Next]_(Selector!vars) => []Selector!ViewsSound
<1>1. Selector!Over!ConstantsAssumption
  BY ConstantsAssumptions DEF ConstantsAssumptions
<1>2. Selector!Init => PagesInv
  BY <1>1, PagesBegin
<1>3. PagesInv /\ [Selector!Next]_(Selector!vars) => PagesInv'
  BY <1>1, PagesContinue
<1> QED  BY <1>2, <1>3, PagesInvIsSound, PTL

(* And so they are in those of MCSession, that run one component each.     *)
THEOREM PagesStaySound == MCSpec => []PagesSound
<1>1. Selector!Over!ConstantsAssumption
  BY ConstantsAssumptions DEF ConstantsAssumptions
<1>2. MCInit => PagesInv
  BY <1>1, PagesBegin DEF MCInit
<1>3. PagesInv /\ [MCNext]_mcVars => PagesInv'
  <2> SUFFICES ASSUME PagesInv, [MCNext]_mcVars  PROVE PagesInv'
    OBVIOUS
  <2>1. CASE part = "pages" /\ Selector!Next
    BY <1>1, <2>1, PagesContinue
  <2>2. CASE UNCHANGED pagesVars
    <3>1. UNCHANGED Selector!vars
      BY <2>2 DEF pagesVars, Selector!vars, Selector!overviewVars
    <3> QED  BY <1>1, <3>1, PagesContinue
  <2> QED  BY <2>1, <2>2 DEF MCNext, mcVars
<1>4. PagesInv => PagesSound
  BY PagesInvIsSound DEF PagesSound
<1> QED  BY <1>2, <1>3, <1>4, PTL DEF MCSpec

=============================================================================
