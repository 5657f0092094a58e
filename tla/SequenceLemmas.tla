---------------------------- MODULE SequenceLemmas ----------------------------
(***************************************************************************)
(* What RemoveAt, Append and Tail do to a sequence, for the proofs about   *)
(* the stacks and lists of the shell.                                      *)
(***************************************************************************)
EXTENDS Integers, Sequences, SequencesExt, SequenceTheorems, TLAPS

LEMMA ConcatParts ==
  ASSUME NEW S, NEW s \in Seq(S), NEW k \in 1..Len(s),
         NEW a \in Seq(S), Len(a) = k - 1, \A i \in 1..(k - 1) : a[i] = s[i],
         NEW b \in Seq(S), Len(b) = Len(s) - k, \A i \in 1..(Len(s) - k) : b[i] = s[k + i]
  PROVE  /\ a \o b \in Seq(S)
         /\ Len(a \o b) = Len(s) - 1
         /\ \A i \in 1..(Len(s) - 1) : (a \o b)[i] = IF i < k THEN s[i] ELSE s[i + 1]
<1>0. Len(s) \in Nat /\ k \in Int /\ 1 <= k /\ k <= Len(s)
  OBVIOUS
<1>1. /\ a \o b \in Seq(S)
      /\ Len(a \o b) = Len(a) + Len(b)
      /\ \A i \in 1..(Len(a) + Len(b)) :
           (a \o b)[i] = IF i <= Len(a) THEN a[i] ELSE b[i - Len(a)]
  BY ConcatProperties
<1>2. Len(a) + Len(b) = Len(s) - 1
  BY <1>0
<1>3. ASSUME NEW i \in 1..(Len(s) - 1)
      PROVE  (a \o b)[i] = IF i < k THEN s[i] ELSE s[i + 1]
  <2>1. (a \o b)[i] = IF i <= k - 1 THEN a[i] ELSE b[i - (k - 1)]
    BY <1>1, <1>2
  <2>2. CASE i < k
    BY <2>1, <2>2, <1>0
  <2>3. CASE ~(i < k)
    <3>1. /\ i - (k - 1) \in 1..(Len(s) - k)
          /\ k + (i - (k - 1)) = i + 1
          /\ ~(i <= k - 1)
      BY <2>3, <1>0
    <3>2. b[i - (k - 1)] = s[i + 1]
      BY <3>1
    <3> QED  BY <2>1, <2>3, <3>1, <3>2
  <2> QED  BY <2>2, <2>3
<1> QED  BY <1>1, <1>2, <1>3

LEMMA RemoveAtElements ==
  ASSUME NEW S, NEW s \in Seq(S), NEW k \in 1..Len(s)
  PROVE  /\ RemoveAt(s, k) \in Seq(S)
         /\ Len(RemoveAt(s, k)) = Len(s) - 1
         /\ \A i \in 1..(Len(s) - 1) :
              RemoveAt(s, k)[i] = IF i < k THEN s[i] ELSE s[i + 1]
<1>0. Len(s) \in Nat /\ k \in Int /\ 1 <= k /\ k <= Len(s)
  OBVIOUS
<1>1. /\ SubSeq(s, 1, k - 1) \in Seq(S) /\ Len(SubSeq(s, 1, k - 1)) = k - 1
      /\ \A i \in 1..(k - 1) : SubSeq(s, 1, k - 1)[i] = s[i]
  BY <1>0
<1>2. /\ SubSeq(s, k + 1, Len(s)) \in Seq(S) /\ Len(SubSeq(s, k + 1, Len(s))) = Len(s) - k
      /\ \A i \in 1..(Len(s) - k) : SubSeq(s, k + 1, Len(s))[i] = s[k + i]
  BY <1>0, SubSeqProperties
<1>3. \A a, b \in Seq(S) :
        /\ Len(a) = k - 1 /\ \A i \in 1..(k - 1) : a[i] = s[i]
        /\ Len(b) = Len(s) - k /\ \A i \in 1..(Len(s) - k) : b[i] = s[k + i]
        => /\ a \o b \in Seq(S)
           /\ Len(a \o b) = Len(s) - 1
           /\ \A i \in 1..(Len(s) - 1) : (a \o b)[i] = IF i < k THEN s[i] ELSE s[i + 1]
  BY ConcatParts
<1> QED  BY <1>1, <1>2, <1>3, Zenon DEF RemoveAt

(* Without one of its elements a sequence that has none twice still has    *)
(* none twice, and has all the others.                                     *)
LEMMA RemoveAtSet ==
  ASSUME NEW S, NEW s \in Seq(S), NEW k \in DOMAIN s,
         \A i, j \in DOMAIN s : s[i] = s[j] => i = j
  PROVE  LET t == RemoveAt(s, k)
         IN  /\ t \in Seq(S)
             /\ \A i, j \in DOMAIN t : t[i] = t[j] => i = j
             /\ {t[i] : i \in DOMAIN t} = {s[i] : i \in DOMAIN s} \ {s[k]}
<1> DEFINE t == RemoveAt(s, k)
<1>0. DOMAIN s = 1..Len(s) /\ Len(s) \in Nat
  OBVIOUS
<1>1. /\ t \in Seq(S)
      /\ Len(t) = Len(s) - 1
      /\ \A i \in 1..(Len(s) - 1) : t[i] = IF i < k THEN s[i] ELSE s[i + 1]
  <2>1. k \in 1..Len(s)
    BY <1>0
  <2> QED  BY <2>1, RemoveAtElements, Zenon
<1>2. DOMAIN t = 1..(Len(s) - 1)
  BY <1>1
<1> HIDE DEF t
<1>3. ASSUME NEW i \in DOMAIN t, NEW j \in DOMAIN t, t[i] = t[j]
      PROVE  i = j
  <2> DEFINE from(x) == IF x < k THEN x ELSE x + 1
  <2>1. \A x \in DOMAIN t : from(x) \in DOMAIN s /\ t[x] = s[from(x)]
    BY <1>0, <1>1, <1>2
  <2>2. from(i) = from(j)
    BY <2>1, <1>3, Zenon
  <2>3. i \in Int /\ j \in Int /\ k \in Int
    BY <1>0, <1>2
  <2> QED  BY <2>2, <2>3
<1>4. \A i \in DOMAIN t : t[i] \in {s[j] : j \in DOMAIN s} \ {s[k]}
  BY <1>0, <1>1, <1>2
<1>5. \A j \in DOMAIN s : s[j] # s[k] => \E i \in DOMAIN t : t[i] = s[j]
  <2> TAKE j \in DOMAIN s
  <2> HAVE s[j] # s[k]
  <2>1. CASE j < k
    <3>1. j \in DOMAIN t /\ t[j] = s[j]
      BY <2>1, <1>0, <1>1, <1>2
    <3> QED  BY <3>1
  <2>2. CASE j > k
    <3>1. j - 1 \in DOMAIN t /\ t[j - 1] = s[j]
      BY <2>2, <1>0, <1>1, <1>2
    <3> QED  BY <3>1
  <2> QED  BY <2>1, <2>2, <1>0
<1> QED  BY <1>1, <1>3, <1>4, <1>5 DEF t

(* A new element at the end.                                               *)
LEMMA AppendSet ==
  ASSUME NEW S, NEW s \in Seq(S), NEW x \in S,
         x \notin {s[i] : i \in DOMAIN s},
         \A i, j \in DOMAIN s : s[i] = s[j] => i = j
  PROVE  LET t == Append(s, x)
         IN  /\ t \in Seq(S)
             /\ \A i, j \in DOMAIN t : t[i] = t[j] => i = j
             /\ {t[i] : i \in DOMAIN t} = {s[i] : i \in DOMAIN s} \cup {x}
<1> DEFINE t == Append(s, x)
<1>1. /\ t \in Seq(S) /\ DOMAIN t = 1..(Len(s) + 1) /\ DOMAIN s = 1..Len(s)
      /\ \A i \in 1..Len(s) : t[i] = s[i]
      /\ t[Len(s) + 1] = x
  BY AppendProperties
<1> HIDE DEF t
<1>2. \A i, j \in DOMAIN t : t[i] = t[j] => i = j
  BY <1>1
<1>3. {t[i] : i \in DOMAIN t} = {s[i] : i \in DOMAIN s} \cup {x}
  BY <1>1
<1> QED  BY <1>1, <1>2, <1>3 DEF t

(* Without its first element.                                              *)
LEMMA TailSet ==
  ASSUME NEW S, NEW s \in Seq(S), Len(s) > 0,
         \A i, j \in DOMAIN s : s[i] = s[j] => i = j
  PROVE  LET t == Tail(s)
         IN  /\ t \in Seq(S) /\ Len(t) = Len(s) - 1
             /\ \A i, j \in DOMAIN t : t[i] = t[j] => i = j
             /\ Head(s) \in S
             /\ {t[i] : i \in DOMAIN t} = {s[i] : i \in DOMAIN s} \ {Head(s)}
<1> DEFINE t == Tail(s)
<1>1. /\ t \in Seq(S) /\ Len(t) = Len(s) - 1
      /\ DOMAIN s = 1..Len(s) /\ DOMAIN t = 1..(Len(s) - 1) /\ Len(s) \in Nat
      /\ Head(s) = s[1] /\ Head(s) \in S
  OBVIOUS
<1>2. \A i \in DOMAIN t : t[i] = s[i + 1]
  OBVIOUS
<1> HIDE DEF t
<1>3. ASSUME NEW i \in DOMAIN t, NEW j \in DOMAIN t, t[i] = t[j]
      PROVE  i = j
  <2>1. i + 1 \in DOMAIN s /\ j + 1 \in DOMAIN s /\ s[i + 1] = s[j + 1]
    BY <1>1, <1>2, <1>3
  <2>2. i + 1 = j + 1
    BY <2>1
  <2> QED BY <2>2, <1>1
<1>4. ASSUME NEW i \in DOMAIN t
      PROVE  t[i] \in {s[j] : j \in DOMAIN s} \ {s[1]}
  <2>1. i + 1 \in DOMAIN s /\ 1 \in DOMAIN s /\ i + 1 # 1
    BY <1>1
  <2> QED BY <1>2, <2>1
<1>5. ASSUME NEW j \in DOMAIN s, s[j] # s[1]
      PROVE  \E i \in DOMAIN t : t[i] = s[j]
  <2>1. j - 1 \in DOMAIN t /\ t[j - 1] = s[j]
    BY <1>1, <1>2, <1>5
  <2> QED BY <2>1
<1> QED BY <1>1, <1>3, <1>4, <1>5 DEF t

=============================================================================
