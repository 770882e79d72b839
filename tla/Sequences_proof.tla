-------------------------- MODULE Sequences_proof --------------------------
(***************************************************************************)
(* Induction on a number, and what the operators on sequences return: the  *)
(* lemmas the proofs about buffers and queues rest on.                     *)
(***************************************************************************)
EXTENDS Integers, SequencesExt, WellFoundedInduction, TLAPS

(* Induction, with a set of numbers for the predicate.                     *)
LEMMA SetInduction ==
    ASSUME NEW S, 0 \in S, \A n \in Nat : n \in S => n + 1 \in S
    PROVE  Nat \subseteq S
<1> DEFINE T == Nat \ S
           R == OpToRel(<, Nat)
<1>1. SUFFICES ASSUME T # {} PROVE FALSE
  OBVIOUS
<1>2. IsWellFoundedOn(R, Nat) /\ T \subseteq Nat
  BY NatLessThanWellFounded
<1> HIDE DEF R, T
<1>3. PICK x \in T : \A y \in T : ~(<< y, x >> \in R)
  BY Zenon, <1>1, <1>2, WFMin
<1>4. x \in Nat /\ x # 0 /\ x \notin S
  BY <1>2, <1>3 DEF T
<1>5. x - 1 \in Nat /\ x - 1 < x /\ (x - 1) + 1 = x
  BY <1>4
<1>6. x - 1 \notin S
  BY Zenon, <1>4, <1>5
<1>7. << x - 1, x >> \in R
  BY <1>4, <1>5 DEF R, OpToRel
<1>8. QED
  BY Zenon, <1>3, <1>5, <1>6, <1>7 DEF T

-----------------------------------------------------------------------------
(* s and t begin with the same m elements.                                 *)
Agree(s, t, m) ==
    /\ m \in Nat /\ Len(s) \in Nat /\ Len(t) \in Nat
    /\ m <= Len(s) /\ m <= Len(t)
    /\ \A i \in 1 .. m : s[i] = t[i]

(* A sequence and its last element.                                        *)
LEMMA LastSplit ==
    ASSUME NEW B, NEW q \in Seq(B), NEW n \in Nat, Len(q) = n + 1
    PROVE  /\ SubSeq(q, 1, n) \in Seq(B) /\ Len(SubSeq(q, 1, n)) = n
           /\ q[n + 1] \in B
           /\ q = Append(SubSeq(q, 1, n), q[n + 1])
           /\ \A i \in 1 .. n : SubSeq(q, 1, n)[i] = q[i]
OBVIOUS

(* A sequence cut in two.                                                  *)
LEMMA CutTwo ==
    ASSUME NEW B, NEW q \in Seq(B), NEW n \in Nat, n <= Len(q)
    PROVE  LET head == SubSeq(q, 1, n)
               tail == SubSeq(q, n + 1, Len(q))
           IN  /\ head \in Seq(B) /\ Len(head) = n
               /\ tail \in Seq(B) /\ Len(tail) = Len(q) - n
               /\ \A i \in 1 .. n : head[i] = q[i]
               /\ \A i \in 1 .. Len(q) - n : tail[i] = q[n + i]
               /\ head \o tail = q
<1> DEFINE head == SubSeq(q, 1, n)
           tail == SubSeq(q, n + 1, Len(q))
<1>1. head \in Seq(B) /\ Len(head) = n
  OBVIOUS
<1>2. tail \in Seq(B) /\ Len(tail) = Len(q) - n
  OBVIOUS
<1>3. \A i \in 1 .. n : head[i] = q[i]
  OBVIOUS
<1>4. \A i \in 1 .. Len(q) - n : tail[i] = q[n + i]
  OBVIOUS
<1> HIDE DEF head, tail
<1>5. head \o tail = q
  <2> DEFINE r == head \o tail
  <2>1. /\ r \in Seq(B) /\ Len(r) = Len(q)
        /\ \A i \in 1 .. n : r[i] = head[i]
        /\ \A i \in 1 .. Len(q) - n : r[n + i] = tail[i]
    BY <1>1, <1>2
  <2> HIDE DEF r
  <2>2. ASSUME NEW i \in 1 .. Len(q)
        PROVE  r[i] = q[i]
    <3>1. CASE i <= n
      BY <1>3, <2>1, <3>1
    <3>2. CASE i > n
      <4> DEFINE j == i - n
      <4>1. j \in 1 .. Len(q) - n /\ i = n + j
        BY <3>2
      <4> HIDE DEF j
      <4>2. r[n + j] = tail[j] /\ tail[j] = q[n + j]
        BY Zenon, <1>4, <2>1, <4>1
      <4>3. QED
        BY Zenon, <4>1, <4>2
    <3>3. QED
      BY <3>1, <3>2
  <2>3. r = q
    BY <2>1, <2>2
  <2>4. QED
    BY Zenon, <2>3 DEF r
<1>6. QED
  BY Zenon, <1>1, <1>2, <1>3, <1>4, <1>5 DEF head, tail

(* A sequence cut at two places.                                           *)
LEMMA CutThree ==
    ASSUME NEW B, NEW q \in Seq(B), NEW n \in Nat, n <= Len(q),
           NEW m \in Nat, m <= n
    PROVE  LET tail == SubSeq(q, m + 1, Len(q))
           IN  /\ SubSeq(SubSeq(q, 1, n), 1, m) = SubSeq(q, 1, m)
               /\ SubSeq(q, 1, m) \o SubSeq(tail, 1, n - m) = SubSeq(q, 1, n)
               /\ SubSeq(tail, (n - m) + 1, Len(tail)) = SubSeq(q, n + 1, Len(q))
               /\ SubSeq(tail, 1, n - m) \in Seq(B)
<1>1. SubSeq(SubSeq(q, 1, n), 1, m) = SubSeq(q, 1, m)
  OBVIOUS
<1>2. SubSeq(q, 1, m) \o SubSeq(SubSeq(q, m + 1, Len(q)), 1, n - m) = SubSeq(q, 1, n)
  OBVIOUS
<1>3. SubSeq(SubSeq(q, m + 1, Len(q)), (n - m) + 1, Len(q) - m) = SubSeq(q, n + 1, Len(q))
  OBVIOUS
<1>4. Len(SubSeq(q, m + 1, Len(q))) = Len(q) - m
  OBVIOUS
<1>5. SubSeq(SubSeq(q, m + 1, Len(q)), 1, n - m) \in Seq(B)
  OBVIOUS
<1>6. QED
  BY Zenon, <1>1, <1>2, <1>3, <1>4, <1>5

(* The end of a beginning is the beginning of an end.                      *)
LEMMA CutInside ==
    ASSUME NEW B, NEW q \in Seq(B), NEW n \in Nat, n <= Len(q),
           NEW m \in Nat, m <= n
    PROVE  SubSeq(SubSeq(q, 1, n), m + 1, n) = SubSeq(SubSeq(q, m + 1, Len(q)), 1, n - m)
<1> DEFINE head == SubSeq(q, 1, n)
           tail == SubSeq(q, m + 1, Len(q))
           a == SubSeq(head, m + 1, n)
           b == SubSeq(tail, 1, n - m)
<1>1. head \in Seq(B) /\ Len(head) = n /\ \A i \in 1 .. n : head[i] = q[i]
  OBVIOUS
<1>2. /\ tail \in Seq(B) /\ Len(tail) = Len(q) - m
      /\ \A i \in 1 .. Len(q) - m : tail[i] = q[m + i]
  OBVIOUS
<1> HIDE DEF head, tail
<1>3. a \in Seq(B) /\ Len(a) = n - m /\ \A i \in 1 .. n - m : a[i] = head[m + i]
  BY <1>1, CutTwo
<1>4. b \in Seq(B) /\ Len(b) = n - m /\ \A i \in 1 .. n - m : b[i] = tail[i]
  BY <1>2
<1> HIDE DEF a, b
<1>5. ASSUME NEW i \in 1 .. n - m
      PROVE  a[i] = b[i]
  <2>1. m + i \in 1 .. n /\ i \in 1 .. Len(q) - m
    OBVIOUS
  <2>2. QED
    BY Zenon, <1>1, <1>2, <1>3, <1>4, <2>1
<1>6. a = b
  <2> DEFINE k == n - m
  <2>1. /\ a \in Seq(B) /\ b \in Seq(B) /\ Len(a) = k /\ Len(b) = k
        /\ \A i \in 1 .. k : a[i] = b[i]
    BY Zenon, <1>3, <1>4, <1>5
  <2> HIDE DEF k
  <2>2. QED
    BY <2>1
<1>7. QED
  BY Zenon, <1>6 DEF a, b, head, tail

(* Cutting a concatenation inside its first part.                          *)
LEMMA CutConcat ==
    ASSUME NEW B, NEW p \in Seq(B), NEW t \in Seq(B), NEW n \in Nat, n <= Len(p)
    PROVE  /\ SubSeq(p \o t, 1, n) = SubSeq(p, 1, n)
           /\ SubSeq(p \o t, n + 1, Len(p \o t)) = SubSeq(p, n + 1, Len(p)) \o t
<1>1. SubSeq(p \o t, 1, n) = SubSeq(p, 1, n)
  OBVIOUS
<1>2. SubSeq(p \o t, n + 1, Len(p \o t)) = SubSeq(p, n + 1, Len(p)) \o t
  <2> DEFINE r == p \o t
             a == SubSeq(r, n + 1, Len(r))
             tail == SubSeq(p, n + 1, Len(p))
             b == tail \o t
  <2>1. /\ r \in Seq(B) /\ Len(r) = Len(p) + Len(t)
        /\ \A i \in 1 .. Len(p) : r[i] = p[i]
        /\ \A i \in 1 .. Len(t) : r[Len(p) + i] = t[i]
    OBVIOUS
  <2>2. /\ tail \in Seq(B) /\ Len(tail) = Len(p) - n
        /\ \A i \in 1 .. Len(p) - n : tail[i] = p[n + i]
    BY CutTwo
  <2> HIDE DEF r, tail
  <2>3. /\ b \in Seq(B) /\ Len(b) = Len(r) - n
        /\ \A i \in 1 .. Len(p) - n : b[i] = tail[i]
        /\ \A i \in 1 .. Len(t) : b[(Len(p) - n) + i] = t[i]
    <3>0. tail \in Seq(B) /\ t \in Seq(B)
      BY <2>2
    <3>1. /\ b \in Seq(B) /\ Len(b) = Len(tail) + Len(t)
          /\ \A i \in 1 .. Len(tail) : b[i] = tail[i]
          /\ \A i \in 1 .. Len(t) : b[Len(tail) + i] = t[i]
      BY <3>0
    <3>2. Len(tail) + Len(t) = Len(r) - n
      BY <2>1, <2>2
    <3>3. QED
      BY Zenon, <2>2, <3>1, <3>2
  <2>4. /\ a \in Seq(B) /\ Len(a) = Len(r) - n
        /\ \A i \in 1 .. Len(r) - n : a[i] = r[n + i]
    BY <2>1, CutTwo
  <2> HIDE DEF a, b
  <2>5. ASSUME NEW i \in 1 .. Len(r) - n
        PROVE  a[i] = b[i]
    <3>1. CASE i <= Len(p) - n
      <4>1. i \in 1 .. Len(p) - n /\ n + i \in 1 .. Len(p)
        BY <3>1
      <4>2. QED
        BY Zenon, <2>1, <2>2, <2>3, <2>4, <4>1
    <3>2. CASE i > Len(p) - n
      <4> DEFINE j == i - (Len(p) - n)
      <4>1. j \in 1 .. Len(t) /\ n + i = Len(p) + j /\ i = (Len(p) - n) + j
        BY <2>1, <3>2
      <4> HIDE DEF j
      <4>2. r[Len(p) + j] = t[j] /\ b[(Len(p) - n) + j] = t[j]
        BY Zenon, <2>1, <2>3, <4>1
      <4>3. QED
        BY Zenon, <2>4, <4>1, <4>2
    <3>3. QED
      BY <2>1, <3>1, <3>2
  <2>6. a = b
    <3> DEFINE k == Len(r) - n
    <3>1. /\ a \in Seq(B) /\ b \in Seq(B) /\ Len(a) = k /\ Len(b) = k
          /\ \A i \in 1 .. k : a[i] = b[i]
      BY Zenon, <2>3, <2>4, <2>5
    <3> HIDE DEF k
    <3>2. QED
      BY <3>1
  <2>7. QED
    BY Zenon, <2>6 DEF a, b, r, tail
<1>3. QED
  BY Zenon, <1>1, <1>2

(* An appended element stays the last one behind a prefix.                 *)
LEMMA ConcatAppend ==
    ASSUME NEW B, NEW q \in Seq(B), NEW r \in Seq(B), NEW e \in B
    PROVE  q \o Append(r, e) = Append(q \o r, e)
<1> DEFINE a == q \o Append(r, e)
           b == Append(q \o r, e)
<1>1. a \in Seq(B) /\ b \in Seq(B) /\ Len(a) = Len(b)
  OBVIOUS
<1>2. ASSUME NEW i \in 1 .. Len(a)
      PROVE  a[i] = b[i]
  OBVIOUS
<1> HIDE DEF a, b
<1>3. a = b
  BY <1>1, <1>2
<1>4. QED
  BY Zenon, <1>3 DEF a, b
-----------------------------------------------------------------------------
(* FlattenSeq.                                                             *)

(* The function FlattenSeq is built from, for the sequence q.              *)
Flattens(q, f) ==
    f = [i \in 1 .. Len(q) |-> IF i = 1 THEN q[i] ELSE f[i - 1] \o q[i]]

(* Such a function exists.                                                 *)
LEMMA FlattensExists ==
    ASSUME NEW q, Len(q) \in Nat
    PROVE  \E f : Flattens(q, f)
<1> DEFINE K(n, f) == f = [i \in 1 .. n |-> IF i = 1 THEN q[i] ELSE f[i - 1] \o q[i]]
           S == { n \in Nat : \E f : K(n, f) }
<1>1. 0 \in S
  <2> DEFINE f == [i \in 1 .. 0 |-> q]
  <2>1. \A i \in 1 .. 0 : FALSE
    OBVIOUS
  <2>2. K(0, f)
    BY Zenon, <2>1
  <2>3. QED
    BY Zenon, <2>2
<1>2. ASSUME NEW n \in Nat, n \in S
      PROVE  n + 1 \in S
  <2>1. PICK f : K(n, f)
    BY Zenon, <1>2
  <2> DEFINE last == IF n + 1 = 1 THEN q[n + 1] ELSE f[n] \o q[n + 1]
             g == [i \in 1 .. n + 1 |-> IF i = n + 1 THEN last ELSE f[i]]
             h == [i \in 1 .. n + 1 |-> IF i = 1 THEN q[i] ELSE g[i - 1] \o q[i]]
  <2>2. ASSUME NEW i \in 1 .. n + 1
        PROVE  g[i] = h[i]
    <3>1. CASE i = n + 1
      <4>1. i - 1 = n /\ n # n + 1 /\ (i # 1 => n \in 1 .. n + 1)
        BY <3>1
      <4>2. g[i] = last /\ (i # 1 => g[i - 1] = f[n])
        BY Zenon, <3>1, <4>1
      <4>3. QED
        BY Zenon, <3>1, <4>1, <4>2
    <3>2. CASE i # n + 1
      <4>1. i \in 1 .. n /\ (i # 1 => i - 1 \in 1 .. n + 1 /\ i - 1 # n + 1)
        BY <3>2
      <4>2. g[i] = f[i] /\ (i # 1 => g[i - 1] = f[i - 1])
        BY Zenon, <3>2, <4>1
      <4>3. f[i] = IF i = 1 THEN q[i] ELSE f[i - 1] \o q[i]
        BY Zenon, <2>1, <4>1
      <4>4. QED
        BY Zenon, <4>1, <4>2, <4>3
    <3>3. QED
      BY Zenon, <3>1, <3>2
  <2>3. g = h
    BY Zenon, <2>2
  <2>4. K(n + 1, g)
    BY Zenon, <2>3
  <2>5. n + 1 \in Nat
    OBVIOUS
  <2>6. QED
    BY Zenon, <2>4, <2>5
<1> HIDE DEF S
<1>3. Nat \subseteq S
  BY Zenon, <1>1, <1>2, SetInduction
<1>4. \E f : K(Len(q), f)
  BY Zenon, <1>3 DEF S
<1>5. QED
  BY Zenon, <1>4 DEF Flattens

(* FlattenSeq is the last value of such a function.                        *)
LEMMA FlattenValue ==
    ASSUME NEW q, Len(q) \in Nat, Len(q) # 0
    PROVE  \E f : Flattens(q, f) /\ FlattenSeq(q) = f[Len(q)]
<1> DEFINE f == CHOOSE f : Flattens(q, f)
<1>1. Flattens(q, f)
  BY Zenon, FlattensExists
<1>2. FlattenSeq(q) = f[Len(q)]
  BY Zenon DEF FlattenSeq, Flattens
<1>3. QED
  BY Zenon, <1>1, <1>2

(* Its values depend on what comes before only.                            *)
LEMMA FlattensPrefix ==
    ASSUME NEW s, NEW t, NEW f, NEW g, Flattens(s, f), Flattens(t, g),
           NEW m, Agree(s, t, m), m # 0
    PROVE  f[m] = g[m]
<1>0. /\ m \in Nat /\ Len(s) \in Nat /\ Len(t) \in Nat
      /\ m <= Len(s) /\ m <= Len(t)
      /\ \A i \in 1 .. m : s[i] = t[i]
  BY Zenon DEF Agree
<1> DEFINE S == { n \in Nat : n + 1 <= m => f[n + 1] = g[n + 1] }
<1>1. 0 \in S
  <2>1. 1 \in 1 .. Len(s) /\ 1 \in 1 .. Len(t) /\ 1 \in 1 .. m /\ 0 + 1 = 1
    BY <1>0
  <2>2. f[1] = s[1] /\ g[1] = t[1]
    BY Zenon, <2>1 DEF Flattens
  <2>3. f[0 + 1] = g[0 + 1] /\ 0 \in Nat
    BY Zenon, <1>0, <2>1, <2>2
  <2>4. QED
    BY Zenon, <2>3
<1>2. ASSUME NEW n \in Nat, n \in S
      PROVE  n + 1 \in S
  <2> DEFINE k == n + 1
  <2>1. SUFFICES ASSUME k + 1 <= m
                 PROVE  f[k + 1] = g[k + 1]
    OBVIOUS
  <2>2. /\ n + 1 <= m /\ k + 1 \in 1 .. Len(s) /\ k + 1 \in 1 .. Len(t)
        /\ k + 1 # 1 /\ (k + 1) - 1 = k /\ k + 1 \in 1 .. m
    BY <1>0, <2>1
  <2>3. f[k] = g[k]
    BY Zenon, <1>2, <2>2
  <2> HIDE DEF k
  <2>4. s[k + 1] = t[k + 1]
    BY Zenon, <1>0, <2>2
  <2>5. /\ f[k + 1] = f[(k + 1) - 1] \o s[k + 1]
        /\ g[k + 1] = g[(k + 1) - 1] \o t[k + 1]
    BY Zenon, <2>2 DEF Flattens
  <2>6. QED
    BY Zenon, <2>2, <2>3, <2>4, <2>5
<1> HIDE DEF S
<1>3. Nat \subseteq S
  BY Zenon, <1>1, <1>2, SetInduction
<1>4. m - 1 \in Nat /\ (m - 1) + 1 = m /\ m <= m
  BY <1>0
<1>5. QED
  BY Zenon, <1>3, <1>4 DEF S

(* FlattenSeq by the last sequence.                                        *)
LEMMA FlattenAppend ==
    /\ FlattenSeq(<< >>) = << >>
    /\ \A B : \A q \in Seq(Seq(B)), c \in Seq(B) :
          q # << >> => FlattenSeq(Append(q, c)) = FlattenSeq(q) \o c
    /\ \A c : FlattenSeq(<< c >>) = c
<1>1. FlattenSeq(<< >>) = << >>
  <2>1. Len(<< >>) = 0
    OBVIOUS
  <2>2. QED
    BY Zenon, <2>1 DEF FlattenSeq
<1>2. ASSUME NEW B, NEW q \in Seq(Seq(B)), NEW c \in Seq(B), q # << >>
      PROVE  FlattenSeq(Append(q, c)) = FlattenSeq(q) \o c
  <2> DEFINE t == Append(q, c)
             n == Len(q)
  <2>1. /\ n \in Nat /\ n # 0 /\ Len(t) = n + 1 /\ t[n + 1] = c
        /\ \A i \in 1 .. n : q[i] = t[i]
        /\ n <= Len(q) /\ n <= Len(t) /\ n + 1 \in 1 .. n + 1 /\ n + 1 # 1
        /\ (n + 1) - 1 = n /\ Len(t) \in Nat /\ Len(t) # 0
    BY <1>2
  <2>2. Agree(q, t, n)
    BY Zenon, <2>1 DEF Agree
  <2> HIDE DEF t, n
  <2>3. PICK f : Flattens(q, f) /\ FlattenSeq(q) = f[n]
    BY Zenon, <2>1, FlattenValue DEF n
  <2>4. PICK g : Flattens(t, g) /\ FlattenSeq(t) = g[n + 1]
    BY Zenon, <2>1, FlattenValue
  <2>5. f[n] = g[n]
    BY <2>1, <2>2, <2>3, <2>4, FlattensPrefix
  <2>6. g[n + 1] = g[(n + 1) - 1] \o t[n + 1]
    BY Zenon, <2>1, <2>4 DEF Flattens
  <2>7. QED
    BY Zenon, <2>1, <2>3, <2>4, <2>5, <2>6 DEF t
<1>3. ASSUME NEW c
      PROVE  FlattenSeq(<< c >>) = c
  <2>1. Len(<< c >>) = 1 /\ Len(<< c >>) \in Nat /\ Len(<< c >>) # 0
        /\ << c >>[1] = c /\ 1 \in 1 .. 1
    OBVIOUS
  <2>2. PICK f : Flattens(<< c >>, f) /\ FlattenSeq(<< c >>) = f[Len(<< c >>)]
    BY Zenon, <2>1, FlattenValue
  <2>3. f[1] = << c >>[1]
    BY Zenon, <2>1, <2>2 DEF Flattens
  <2>4. QED
    BY Zenon, <2>1, <2>2, <2>3
<1>4. QED
  BY Zenon, <1>1, <1>2, <1>3

(* It is made of the elements of the sequences; one is appended at the end *)
(* or put in front.                                                        *)
LEMMA FlattenParts ==
    ASSUME NEW B, NEW q \in Seq(Seq(B)), NEW c \in Seq(B)
    PROVE  /\ FlattenSeq(q) \in Seq(B)
           /\ FlattenSeq(Append(q, c)) = FlattenSeq(q) \o c
           /\ FlattenSeq(<< c >> \o q) = c \o FlattenSeq(q)
<1>1. ASSUME NEW p \in Seq(Seq(B)), FlattenSeq(p) \in Seq(B), NEW d \in Seq(B)
      PROVE  FlattenSeq(Append(p, d)) = FlattenSeq(p) \o d
  <2>1. CASE p # << >>
    BY Zenon, <2>1, FlattenAppend
  <2>2. CASE p = << >>
    <3>1. Append(<< >>, d) = << d >> /\ << >> \o d = d
      OBVIOUS
    <3>2. QED
      BY Zenon, <2>2, <3>1, FlattenAppend
  <2>3. QED
    BY Zenon, <2>1, <2>2
<1> DEFINE S == { n \in Nat : \A p \in Seq(Seq(B)) : Len(p) = n =>
                     /\ FlattenSeq(p) \in Seq(B)
                     /\ FlattenSeq(<< c >> \o p) = c \o FlattenSeq(p) }
<1>2. 0 \in S
  <2>1. \A p \in Seq(Seq(B)) : Len(p) = 0 => p = << >>
    OBVIOUS
  <2>2. /\ << >> \in Seq(B) /\ 0 \in Nat /\ << c >> \o << >> = << c >>
        /\ c \o << >> = c
    OBVIOUS
  <2>3. FlattenSeq(<< >>) = << >> /\ FlattenSeq(<< c >>) = c
    BY Zenon, FlattenAppend
  <2>4. QED
    BY Zenon, <2>1, <2>2, <2>3
<1>3. ASSUME NEW n \in Nat, n \in S
      PROVE  n + 1 \in S
  <2>1. ASSUME NEW p \in Seq(Seq(B)), Len(p) = n + 1
        PROVE  /\ FlattenSeq(p) \in Seq(B)
               /\ FlattenSeq(<< c >> \o p) = c \o FlattenSeq(p)
    <3> DEFINE r == SubSeq(p, 1, n)
               d == p[n + 1]
    <3>1. r \in Seq(Seq(B)) /\ Len(r) = n /\ d \in Seq(B) /\ p = Append(r, d)
      BY <2>1, LastSplit
    <3> HIDE DEF r, d
    <3>2. FlattenSeq(r) \in Seq(B) /\ FlattenSeq(<< c >> \o r) = c \o FlattenSeq(r)
      BY Zenon, <1>3, <3>1
    <3>3. FlattenSeq(p) = FlattenSeq(r) \o d
      BY Zenon, <1>1, <3>1, <3>2
    <3> DEFINE F == FlattenSeq(r)
    <3> HIDE DEF F
    <3>4. F \in Seq(B) /\ FlattenSeq(p) = F \o d
      BY Zenon, <3>2, <3>3 DEF F
    <3>5. F \o d \in Seq(B) /\ c \o F \in Seq(B)
      BY <3>1, <3>4
    <3>6. (c \o F) \o d = c \o (F \o d)
      <4>1. F \in Seq(B) /\ d \in Seq(B)
        BY <3>1, <3>4
      <4>2. QED
        BY <4>1
    <3>7. << c >> \o r \in Seq(Seq(B)) /\ << c >> \in Seq(Seq(B))
      BY <3>1
    <3>8. << c >> \o Append(r, d) = Append(<< c >> \o r, d)
      BY <3>1, <3>7, ConcatAppend
    <3>9. FlattenSeq(Append(<< c >> \o r, d)) = FlattenSeq(<< c >> \o r) \o d
      <4>1. FlattenSeq(<< c >> \o r) \in Seq(B)
        BY Zenon, <3>2, <3>5 DEF F
      <4>2. QED
        BY Zenon, <1>1, <3>1, <3>7, <4>1
    <3>10. FlattenSeq(<< c >> \o p) = (c \o F) \o d
      BY Zenon, <3>1, <3>2, <3>8, <3>9 DEF F
    <3>11. QED
      BY Zenon, <3>4, <3>5, <3>6, <3>10
  <2>2. n + 1 \in Nat
    OBVIOUS
  <2>3. QED
    BY Zenon, <2>1, <2>2
<1> HIDE DEF S
<1>4. Nat \subseteq S
  BY Zenon, <1>2, <1>3, SetInduction
<1>5. Len(q) \in Nat
  OBVIOUS
<1>6. /\ FlattenSeq(q) \in Seq(B)
      /\ FlattenSeq(<< c >> \o q) = c \o FlattenSeq(q)
  BY Zenon, <1>4, <1>5 DEF S
<1>7. QED
  BY Zenon, <1>1, <1>6
-----------------------------------------------------------------------------
(* Reverse.                                                                *)

(* The first element comes last.                                           *)
LEMMA ReverseHead ==
    ASSUME NEW B, NEW q \in Seq(B), q # << >>
    PROVE  /\ Reverse(q) \in Seq(B) /\ Reverse(Tail(q)) \in Seq(B) /\ q[1] \in B
           /\ Reverse(q) = Append(Reverse(Tail(q)), q[1])
<1>1. /\ Len(q) \in Nat /\ Len(q) >= 1 /\ q[1] \in B
      /\ Tail(q) \in Seq(B) /\ Len(Tail(q)) = Len(q) - 1
      /\ \A i \in 1 .. Len(q) - 1 : Tail(q)[i] = q[i + 1]
      /\ \A i \in 1 .. Len(q) : q[i] \in B
  OBVIOUS
<1> DEFINE a == Reverse(q)
           c == Reverse(Tail(q))
           b == Append(c, q[1])
<1>2. a \in Seq(B) /\ Len(a) = Len(q) /\ \A i \in 1 .. Len(q) : a[i] = q[(Len(q) - i) + 1]
  BY <1>1 DEF Reverse
<1>3. /\ c \in Seq(B) /\ Len(c) = Len(q) - 1
      /\ \A i \in 1 .. Len(q) - 1 : c[i] = Tail(q)[((Len(q) - 1) - i) + 1]
  <2> DEFINE t == Tail(q)
  <2> HIDE DEF t
  <2>1. t \in Seq(B) /\ Len(t) = Len(q) - 1
    BY Zenon, <1>1 DEF t
  <2>2. /\ Reverse(t) \in Seq(B) /\ Len(Reverse(t)) = Len(q) - 1
        /\ \A i \in 1 .. Len(q) - 1 : Reverse(t)[i] = t[((Len(q) - 1) - i) + 1]
    BY <1>1, <2>1 DEF Reverse
  <2>3. QED
    BY Zenon, <2>2 DEF t
<1> HIDE DEF a, c
<1>4. /\ b \in Seq(B) /\ Len(b) = Len(q) /\ b[Len(q)] = q[1]
      /\ \A i \in 1 .. Len(q) - 1 : b[i] = c[i]
  <2>1. ASSUME NEW e \in B, NEW k \in Nat, Len(c) = k - 1
        PROVE  LET d == Append(c, e)
               IN  /\ d \in Seq(B) /\ Len(d) = k /\ d[k] = e
                   /\ \A i \in 1 .. k - 1 : d[i] = c[i]
    BY <1>3, <2>1
  <2>2. QED
    BY Zenon, <1>1, <1>3, <2>1
<1> HIDE DEF b
<1>5. ASSUME NEW i \in 1 .. Len(q)
      PROVE  a[i] = b[i]
  <2>1. CASE i = Len(q)
    <3>1. (Len(q) - i) + 1 = 1
      BY <1>1, <2>1
    <3>2. QED
      BY Zenon, <1>2, <1>4, <2>1, <3>1
  <2>2. CASE i # Len(q)
    <3>1. /\ i \in 1 .. Len(q) - 1 /\ ((Len(q) - 1) - i) + 1 \in 1 .. Len(q) - 1
          /\ (((Len(q) - 1) - i) + 1) + 1 = (Len(q) - i) + 1
      <4> DEFINE n == Len(q)
      <4>1. n \in Nat /\ i \in 1 .. n /\ i # n
        BY Zenon, <1>1, <2>2
      <4> HIDE DEF n
      <4>2. /\ i \in 1 .. n - 1 /\ ((n - 1) - i) + 1 \in 1 .. n - 1
            /\ (((n - 1) - i) + 1) + 1 = (n - i) + 1
        BY <4>1
      <4>3. QED
        BY Zenon, <4>2 DEF n
    <3>2. Tail(q)[((Len(q) - 1) - i) + 1] = q[(((Len(q) - 1) - i) + 1) + 1]
      BY Zenon, <1>1, <3>1
    <3>3. QED
      BY Zenon, <1>2, <1>3, <1>4, <3>1, <3>2
  <2>3. QED
    BY Zenon, <2>1, <2>2
<1>6. a = b
  BY <1>2, <1>4, <1>5
<1>7. QED
  BY Zenon, <1>1, <1>2, <1>3, <1>6 DEF a, b, c

(* The last element comes first.                                           *)
LEMMA ReverseLast ==
    ASSUME NEW B, NEW r \in Seq(B), NEW e \in B
    PROVE  /\ Reverse(r) \in Seq(B)
           /\ Reverse(Append(r, e)) = << e >> \o Reverse(r)
<1> DEFINE q == Append(r, e)
           n == Len(r)
           a == Reverse(q)
           c == Reverse(r)
           b == << e >> \o c
<1>1. /\ n \in Nat /\ q \in Seq(B) /\ Len(q) = n + 1 /\ q[n + 1] = e
      /\ \A i \in 1 .. n : q[i] = r[i]
      /\ \A i \in 1 .. n : r[i] \in B
  OBVIOUS
<1>2. c \in Seq(B) /\ Len(c) = n /\ \A i \in 1 .. n : c[i] = r[(n - i) + 1]
  BY <1>1 DEF Reverse
<1> HIDE DEF q
<1>3. a \in Seq(B) /\ Len(a) = n + 1 /\ \A i \in 1 .. n + 1 : a[i] = q[((n + 1) - i) + 1]
  BY <1>1 DEF Reverse
<1> HIDE DEF a, c, n
<1>4. /\ b \in Seq(B) /\ Len(b) = n + 1 /\ b[1] = e
      /\ \A i \in 1 .. n : b[1 + i] = c[i]
  BY <1>1, <1>2
<1> HIDE DEF b
<1>5. ASSUME NEW i \in 1 .. n + 1
      PROVE  a[i] = b[i]
  <2>1. CASE i = 1
    <3>1. ((n + 1) - i) + 1 = n + 1
      BY <1>1, <2>1
    <3>2. QED
      BY Zenon, <1>1, <1>3, <1>4, <2>1, <3>1
  <2>2. CASE i # 1
    <3> DEFINE j == i - 1
    <3>1. /\ j \in 1 .. n /\ 1 + j = i /\ (n - j) + 1 \in 1 .. n
          /\ ((n + 1) - i) + 1 = (n - j) + 1
      BY <1>1, <2>2
    <3> HIDE DEF j
    <3>2. b[1 + j] = c[j] /\ c[j] = r[(n - j) + 1] /\ q[(n - j) + 1] = r[(n - j) + 1]
      BY Zenon, <1>1, <1>2, <1>4, <3>1
    <3>3. QED
      BY Zenon, <1>3, <3>1, <3>2
  <2>3. QED
    BY Zenon, <2>1, <2>2
<1>6. a = b
  <2> DEFINE k == n + 1
  <2>1. /\ a \in Seq(B) /\ b \in Seq(B) /\ Len(a) = k /\ Len(b) = k
        /\ \A i \in 1 .. k : a[i] = b[i]
    BY Zenon, <1>3, <1>4, <1>5
  <2> HIDE DEF k
  <2>2. QED
    BY <2>1
<1>7. QED
  BY Zenon, <1>2, <1>6 DEF a, b, c, q
=============================================================================
