--------------------------- MODULE Streams_proof ---------------------------
(***************************************************************************)
(* Proofs about the ways of a byte out of and into a session and to the    *)
(* log file: CommBuff, CommThread and LogWriter.  They share no state.     *)
(***************************************************************************)
EXTENDS CommBuff, CommThread, LogWriter, Sequences_proof

(* CommBuff: the bytes that are typed.                                     *)

(* The function Typed is built from, for the stream s.                     *)
Keeps(s, f) ==
    f = [i \in 0 .. Len(s) |->
            IF i = 0 THEN << >>
            ELSE IF s[i][1] # 0 THEN Append(f[i - 1], s[i]) ELSE f[i - 1]]

(* Such a function exists.                                                 *)
LEMMA KeepsExists ==
    ASSUME NEW s, Len(s) \in Nat
    PROVE  \E f : Keeps(s, f)
<1> DEFINE K(n, f) == f = [i \in 0 .. n |->
               IF i = 0 THEN << >>
               ELSE IF s[i][1] # 0 THEN Append(f[i - 1], s[i]) ELSE f[i - 1]]
           S == { n \in Nat : \E f : K(n, f) }
<1>1. 0 \in S
  <2> DEFINE f == [i \in 0 .. 0 |-> << >>]
  <2>1. K(0, f)
    OBVIOUS
  <2>2. QED
    BY Zenon, <2>1
<1>2. ASSUME NEW n \in Nat, n \in S
      PROVE  n + 1 \in S
  <2>1. PICK f : K(n, f)
    BY Zenon, <1>2
  <2> DEFINE last == IF s[n + 1][1] # 0 THEN Append(f[n], s[n + 1]) ELSE f[n]
             g == [i \in 0 .. n + 1 |-> IF i = n + 1 THEN last ELSE f[i]]
             h == [i \in 0 .. n + 1 |->
                      IF i = 0 THEN << >>
                      ELSE IF s[i][1] # 0 THEN Append(g[i - 1], s[i]) ELSE g[i - 1]]
  <2>2. ASSUME NEW i \in 0 .. n + 1
        PROVE  g[i] = h[i]
    <3>1. CASE i = n + 1
      <4>1. i # 0 /\ i - 1 = n /\ n \in 0 .. n + 1 /\ n # n + 1
        BY <3>1
      <4>2. g[i] = last /\ g[i - 1] = f[n]
        BY Zenon, <3>1, <4>1
      <4>3. QED
        BY Zenon, <3>1, <4>1, <4>2
    <3>2. CASE i # n + 1
      <4>1. i \in 0 .. n /\ (i # 0 => i - 1 \in 0 .. n + 1 /\ i - 1 # n + 1)
        BY <3>2
      <4>2. g[i] = f[i] /\ (i # 0 => g[i - 1] = f[i - 1])
        BY Zenon, <3>2, <4>1
      <4>3. f[i] = IF i = 0 THEN << >>
                   ELSE IF s[i][1] # 0 THEN Append(f[i - 1], s[i]) ELSE f[i - 1]
        BY Zenon, <2>1, <4>1
      <4>4. QED
        BY Zenon, <4>1, <4>2, <4>3
    <3>3. QED
      BY Zenon, <3>1, <3>2
  <2>3. g = h
    BY Zenon, <2>2
  <2>4. K(n + 1, g)
    BY Zenon, <2>3
  <2>5. n + 1 \in Nat
    OBVIOUS
  <2>6. QED
    BY Zenon, <2>4, <2>5
<1> HIDE DEF S
<1>3. Nat \subseteq S
  BY Zenon, <1>1, <1>2, SetInduction
<1>4. \E f : K(Len(s), f)
  BY Zenon, <1>3 DEF S
<1>5. QED
  BY Zenon, <1>4 DEF Keeps

(* Typed is the last value of such a function.                             *)
LEMMA TypedKeeps ==
    ASSUME NEW s, Len(s) \in Nat
    PROVE  \E f : Keeps(s, f) /\ Typed(s) = f[Len(s)]
<1> DEFINE f == CHOOSE f : Keeps(s, f)
<1>1. Keeps(s, f)
  BY Zenon, KeepsExists
<1>2. Typed(s) = f[Len(s)]
  BY Zenon DEF Typed, Keeps
<1>3. QED
  BY Zenon, <1>1, <1>2

(* Its values depend on what comes before only.                            *)
LEMMA KeepsPrefix ==
    ASSUME NEW s, NEW t, NEW f, NEW g, Keeps(s, f), Keeps(t, g),
           NEW m, Agree(s, t, m)
    PROVE  f[m] = g[m]
<1>0. /\ m \in Nat /\ Len(s) \in Nat /\ Len(t) \in Nat
      /\ m <= Len(s) /\ m <= Len(t)
      /\ \A i \in 1 .. m : s[i] = t[i]
  BY Zenon DEF Agree
<1> DEFINE S == { n \in Nat : n <= m => f[n] = g[n] }
<1>1. 0 \in S
  <2>1. 0 \in 0 .. Len(s) /\ 0 \in 0 .. Len(t)
    BY <1>0
  <2>2. f[0] = << >> /\ g[0] = << >>
    BY Zenon, <2>1 DEF Keeps
  <2>3. QED
    BY <2>2
<1>2. ASSUME NEW n \in Nat, n \in S
      PROVE  n + 1 \in S
  <2>1. SUFFICES ASSUME n + 1 <= m
                 PROVE  f[n + 1] = g[n + 1]
    OBVIOUS
  <2>2. /\ n <= m /\ n + 1 \in 0 .. Len(s) /\ n + 1 \in 0 .. Len(t)
        /\ n + 1 # 0 /\ (n + 1) - 1 = n /\ n + 1 \in 1 .. m
    BY <1>0, <2>1
  <2>3. f[n] = g[n] /\ s[n + 1] = t[n + 1]
    BY Zenon, <1>0, <1>2, <2>2
  <2>4. /\ f[n + 1] = IF s[n + 1][1] # 0 THEN Append(f[(n + 1) - 1], s[n + 1])
                                        ELSE f[(n + 1) - 1]
        /\ g[n + 1] = IF t[n + 1][1] # 0 THEN Append(g[(n + 1) - 1], t[n + 1])
                                        ELSE g[(n + 1) - 1]
    BY Zenon, <2>2 DEF Keeps
  <2>5. QED
    BY Zenon, <2>2, <2>3, <2>4
<1> HIDE DEF S
<1>3. Nat \subseteq S
  BY Zenon, <1>1, <1>2, SetInduction
<1>4. QED
  BY <1>0, <1>3 DEF S

(* Typed by the last byte.                                                 *)
LEMMA TypedAppend ==
    /\ Typed(<< >>) = << >>
    /\ \A B : \A s \in Seq(B), e \in B :
          Typed(Append(s, e)) = IF e[1] # 0 THEN Append(Typed(s), e) ELSE Typed(s)
<1>1. Typed(<< >>) = << >>
  <2>0. Len(<< >>) = 0 /\ 0 \in 0 .. 0
    OBVIOUS
  <2>1. PICK f : Keeps(<< >>, f) /\ Typed(<< >>) = f[0]
    <3>1. \E f : Keeps(<< >>, f) /\ Typed(<< >>) = f[Len(<< >>)]
      BY <2>0, TypedKeeps
    <3>2. QED
      BY Zenon, <2>0, <3>1
  <2>2. f[0] = << >>
    BY Zenon, <2>0, <2>1 DEF Keeps
  <2>3. QED
    BY Zenon, <2>1, <2>2
<1>2. ASSUME NEW B, NEW s \in Seq(B), NEW e \in B
      PROVE  Typed(Append(s, e)) = IF e[1] # 0 THEN Append(Typed(s), e) ELSE Typed(s)
  <2> DEFINE t == Append(s, e)
             n == Len(s)
  <2>1. /\ n \in Nat /\ Len(t) = n + 1 /\ t[n + 1] = e
        /\ \A i \in 1 .. n : s[i] = t[i]
        /\ n <= Len(s) /\ n <= Len(t) /\ n + 1 \in 0 .. n + 1 /\ n + 1 # 0
        /\ (n + 1) - 1 = n /\ Len(t) \in Nat /\ Len(s) \in Nat
    OBVIOUS
  <2>a. Agree(s, t, n)
    BY Zenon, <2>1 DEF Agree
  <2> HIDE DEF t, n
  <2>2. PICK f : Keeps(s, f) /\ Typed(s) = f[n]
    BY Zenon, <2>1, TypedKeeps DEF n
  <2>3. PICK g : Keeps(t, g) /\ Typed(t) = g[n + 1]
    BY Zenon, <2>1, TypedKeeps
  <2>4. f[n] = g[n]
    BY <2>a, <2>2, <2>3, KeepsPrefix
  <2>5. g[n + 1] = IF t[n + 1][1] # 0 THEN Append(g[(n + 1) - 1], t[n + 1])
                                      ELSE g[(n + 1) - 1]
    BY Zenon, <2>1, <2>3 DEF Keeps
  <2>6. QED
    BY Zenon, <2>1, <2>2, <2>3, <2>4, <2>5 DEF t
<1>3. QED
  BY Zenon, <1>1, <1>2

(* Typed of a longer stream: what is typed in its parts.                   *)
LEMMA TypedConcat ==
    ASSUME NEW B, NEW s \in Seq(B), NEW t \in Seq(B)
    PROVE  Typed(s) \in Seq(B) /\ Typed(s \o t) = Typed(s) \o Typed(t)
<1>1. ASSUME NEW q \in Seq(B)
      PROVE  Typed(q) \in Seq(B)
  <2> DEFINE S == { n \in Nat : \A r \in Seq(B) : Len(r) = n => Typed(r) \in Seq(B) }
  <2>1. 0 \in S
    <3>1. \A r \in Seq(B) : Len(r) = 0 => r = << >>
      OBVIOUS
    <3>2. << >> \in Seq(B) /\ 0 \in Nat
      OBVIOUS
    <3>3. QED
      BY Zenon, <3>1, <3>2, TypedAppend
  <2>2. ASSUME NEW n \in Nat, n \in S
        PROVE  n + 1 \in S
    <3>1. ASSUME NEW r \in Seq(B), Len(r) = n + 1
          PROVE  Typed(r) \in Seq(B)
      <4> DEFINE f == SubSeq(r, 1, n)
                 e == r[n + 1]
      <4>1. f \in Seq(B) /\ Len(f) = n /\ e \in B /\ r = Append(f, e)
        BY <3>1, LastSplit
      <4> HIDE DEF f, e
      <4>2. Typed(f) \in Seq(B)
        BY Zenon, <2>2, <4>1
      <4>3. Typed(r) = IF e[1] # 0 THEN Append(Typed(f), e) ELSE Typed(f)
        BY Zenon, <4>1, TypedAppend
      <4>4. Append(Typed(f), e) \in Seq(B)
        BY <4>1, <4>2
      <4>5. QED
        BY Zenon, <4>2, <4>3, <4>4
    <3>2. n + 1 \in Nat
      OBVIOUS
    <3>3. QED
      BY Zenon, <3>1, <3>2
  <2> HIDE DEF S
  <2>3. Nat \subseteq S
    BY Zenon, <2>1, <2>2, SetInduction
  <2>4. Len(q) \in Nat
    OBVIOUS
  <2>5. QED
    BY Zenon, <2>3, <2>4 DEF S
<1> DEFINE S == { n \in Nat : \A r \in Seq(B) : Len(r) = n =>
                     Typed(s \o r) = Typed(s) \o Typed(r) }
<1>2. 0 \in S
  <2>1. \A r \in Seq(B) : Len(r) = 0 => r = << >>
    OBVIOUS
  <2>2. s \o << >> = s /\ Typed(s) \o << >> = Typed(s)
    BY <1>1
  <2>3. 0 \in Nat
    OBVIOUS
  <2>4. QED
    BY Zenon, <2>1, <2>2, <2>3, TypedAppend
<1>3. ASSUME NEW n \in Nat, n \in S
      PROVE  n + 1 \in S
  <2>1. ASSUME NEW r \in Seq(B), Len(r) = n + 1
        PROVE  Typed(s \o r) = Typed(s) \o Typed(r)
    <3> DEFINE f == SubSeq(r, 1, n)
               e == r[n + 1]
    <3>1. f \in Seq(B) /\ Len(f) = n /\ e \in B /\ r = Append(f, e)
      BY <2>1, LastSplit
    <3> HIDE DEF f, e
    <3>2. Typed(s \o f) = Typed(s) \o Typed(f)
      BY Zenon, <1>3, <3>1
    <3>3. s \o r = Append(s \o f, e) /\ s \o f \in Seq(B)
      BY <3>1, ConcatAppend
    <3>4. /\ Typed(r) = IF e[1] # 0 THEN Append(Typed(f), e) ELSE Typed(f)
          /\ Typed(s \o r) = IF e[1] # 0 THEN Append(Typed(s \o f), e)
                                         ELSE Typed(s \o f)
      <4>1. \A q \in Seq(B) : Typed(Append(q, e)) = IF e[1] # 0 THEN Append(Typed(q), e) ELSE Typed(q)
        BY Zenon, <3>1, TypedAppend
      <4>2. QED
        BY Zenon, <3>1, <3>3, <4>1
    <3>5. Typed(s) \o Append(Typed(f), e) = Append(Typed(s) \o Typed(f), e)
      <4>1. Typed(s) \in Seq(B) /\ Typed(f) \in Seq(B)
        BY Zenon, <1>1, <3>1
      <4>2. QED
        BY <3>1, <4>1, ConcatAppend
    <3>6. QED
      BY Zenon, <3>2, <3>4, <3>5
  <2>2. n + 1 \in Nat
    OBVIOUS
  <2>3. QED
    BY Zenon, <2>1, <2>2
<1> HIDE DEF S
<1>4. Nat \subseteq S
  BY Zenon, <1>2, <1>3, SetInduction
<1>5. Len(t) \in Nat
  OBVIOUS
<1>6. QED
  BY Zenon, <1>1, <1>4, <1>5 DEF S

(* Typed keeps a stream that is all typed.                                 *)
LEMMA TypedAll ==
    ASSUME NEW B, NEW s \in Seq(B), \A i \in 1 .. Len(s) : s[i][1] # 0
    PROVE  Typed(s) = s
<1> DEFINE All(r) == \A i \in 1 .. Len(r) : r[i][1] # 0
           S == { n \in Nat : \A r \in Seq(B) : Len(r) = n /\ All(r) => Typed(r) = r }
<1>1. 0 \in S
  <2>1. \A r \in Seq(B) : Len(r) = 0 => r = << >>
    OBVIOUS
  <2>2. 0 \in Nat
    OBVIOUS
  <2>3. QED
    BY Zenon, <2>1, <2>2, TypedAppend
<1>2. ASSUME NEW n \in Nat, n \in S
      PROVE  n + 1 \in S
  <2>1. ASSUME NEW r \in Seq(B), Len(r) = n + 1, All(r)
        PROVE  Typed(r) = r
    <3> DEFINE f == SubSeq(r, 1, n)
               e == r[n + 1]
    <3>1. /\ f \in Seq(B) /\ Len(f) = n /\ e \in B /\ r = Append(f, e)
          /\ \A i \in 1 .. n : f[i] = r[i]
      BY <2>1, LastSplit
    <3>2. n + 1 \in 1 .. Len(r) /\ \A i \in 1 .. n : i \in 1 .. Len(r)
      BY <2>1
    <3>3. e[1] # 0
      BY Zenon, <2>1, <3>2
    <3>4. All(f)
      BY Zenon, <2>1, <3>1, <3>2
    <3> HIDE DEF f, e
    <3>5. Typed(f) = f
      BY Zenon, <1>2, <3>1, <3>4
    <3>6. Typed(Append(f, e)) = Append(Typed(f), e)
      BY Zenon, <3>1, <3>3, TypedAppend
    <3>7. QED
      BY Zenon, <3>1, <3>5, <3>6
  <2>2. n + 1 \in Nat
    OBVIOUS
  <2>3. QED
    BY Zenon, <2>1, <2>2
<1> HIDE DEF S
<1>3. Nat \subseteq S
  BY Zenon, <1>1, <1>2, SetInduction
<1>4. Len(s) \in Nat
  OBVIOUS
<1>5. QED
  BY Zenon, <1>3, <1>4 DEF S

(* A byte of the program is not typed: what it appends does not count.     *)
LEMMA TypedNone ==
    ASSUME NEW B, NEW s \in Seq(B), \A i \in 1 .. Len(s) : s[i][1] = 0
    PROVE  Typed(s) = << >>
<1> DEFINE None(r) == \A i \in 1 .. Len(r) : r[i][1] = 0
           S == { n \in Nat : \A r \in Seq(B) : Len(r) = n /\ None(r) =>
                     Typed(r) = << >> }
<1>1. 0 \in S
  <2>1. \A r \in Seq(B) : Len(r) = 0 => r = << >>
    OBVIOUS
  <2>2. 0 \in Nat
    OBVIOUS
  <2>3. QED
    BY Zenon, <2>1, <2>2, TypedAppend
<1>2. ASSUME NEW n \in Nat, n \in S
      PROVE  n + 1 \in S
  <2>1. ASSUME NEW r \in Seq(B), Len(r) = n + 1, None(r)
        PROVE  Typed(r) = << >>
    <3> DEFINE f == SubSeq(r, 1, n)
               e == r[n + 1]
    <3>1. /\ f \in Seq(B) /\ Len(f) = n /\ e \in B /\ r = Append(f, e)
          /\ \A i \in 1 .. n : f[i] = r[i]
      BY <2>1, LastSplit
    <3>2. n + 1 \in 1 .. Len(r) /\ \A i \in 1 .. n : i \in 1 .. Len(r)
      BY <2>1
    <3>3. e[1] = 0
      BY Zenon, <2>1, <3>2
    <3>4. None(f)
      BY Zenon, <2>1, <3>1, <3>2
    <3> HIDE DEF f, e
    <3>5. Typed(f) = << >>
      BY Zenon, <1>2, <3>1, <3>4
    <3>6. QED
      BY Zenon, <3>1, <3>3, <3>5, TypedAppend
  <2>2. n + 1 \in Nat
    OBVIOUS
  <2>3. QED
    BY Zenon, <2>1, <2>2
<1> HIDE DEF S
<1>3. Nat \subseteq S
  BY Zenon, <1>1, <1>2, SetInduction
<1>4. Len(s) \in Nat
  OBVIOUS
<1>5. QED
  BY Zenon, <1>3, <1>4 DEF S
-----------------------------------------------------------------------------
(* CommBuff: the way out.                                                  *)

(* No pair is open, at either end or inside.                               *)
Whole(stream) ==
    \A i \in 1 .. Len(stream) :
          /\ stream[i][2] = "first" =>
                /\ i < Len(stream)
                /\ stream[i + 1] = << stream[i][1], "second" >>
          /\ stream[i][2] = "second" =>
                i > 1 /\ stream[i - 1] = << stream[i][1], "first" >>

(* The bytes of the keys are on the wire, in OutBuff or in LineModeBuff.   *)
Sent ==
    /\ Typed(got \o OutBuff) \o SubSeq(LineModeBuff, 1, FlushLen) = entered
    /\ SubSeq(LineModeBuff, FlushLen + 1, Len(LineModeBuff)) = line

AllTyped(q) == \A i \in 1 .. Len(q) : q[i][1] # 0

BuffInv ==
    /\ BuffTypeOK
    /\ keys \in 0 .. MaxKeys
    /\ AllTyped(LineModeBuff)
    /\ TelLineMode \/ LineModeBuff = << >> => Sent
    /\ TelLineMode => EnableLineMode
    /\ ~EnableLineMode => Whole(got \o OutBuff)

(* Two whole streams make a whole one.                                     *)
LEMMA WholeConcat ==
    ASSUME NEW s \in Seq(Byte), NEW t \in Seq(Byte), Whole(s), Whole(t)
    PROVE  Whole(s \o t)
<1> DEFINE r == s \o t
           n == Len(s)
<1>1. /\ n \in Nat /\ Len(t) \in Nat /\ Len(r) = n + Len(t)
      /\ \A i \in 1 .. n : r[i] = s[i]
      /\ \A i \in 1 .. Len(t) : r[n + i] = t[i]
  OBVIOUS
<1> HIDE DEF r, n
<1>2. ASSUME NEW i \in 1 .. Len(r)
      PROVE  /\ r[i][2] = "first" =>
                   i < Len(r) /\ r[i + 1] = << r[i][1], "second" >>
             /\ r[i][2] = "second" =>
                   i > 1 /\ r[i - 1] = << r[i][1], "first" >>
  <2>1. CASE i <= n
    <3>1. i \in 1 .. Len(s) /\ r[i] = s[i]
      BY <1>1, <2>1 DEF n
    <3>2. /\ s[i][2] = "first" => i < n /\ s[i + 1] = << s[i][1], "second" >>
          /\ s[i][2] = "second" => i > 1 /\ s[i - 1] = << s[i][1], "first" >>
      BY Zenon, <3>1 DEF Whole, n
    <3>3. i < n => i < Len(r) /\ r[i + 1] = s[i + 1]
      BY <1>1
    <3>4. i > 1 => r[i - 1] = s[i - 1]
      BY <1>1, <2>1
    <3>5. QED
      BY Zenon, <3>1, <3>2, <3>3, <3>4
  <2>2. CASE i > n
    <3> DEFINE j == i - n
    <3>1. j \in 1 .. Len(t) /\ r[i] = t[j] /\ i = n + j
      <4>1. j \in 1 .. Len(t) /\ i = n + j
        BY <1>1, <2>2
      <4> HIDE DEF j
      <4>2. r[n + j] = t[j]
        BY <1>1, <4>1
      <4>3. QED
        BY Zenon, <4>1, <4>2
    <3> HIDE DEF j
    <3>2. /\ t[j][2] = "first" => j < Len(t) /\ t[j + 1] = << t[j][1], "second" >>
          /\ t[j][2] = "second" => j > 1 /\ t[j - 1] = << t[j][1], "first" >>
      BY Zenon, <3>1 DEF Whole
    <3>3. j < Len(t) => i < Len(r) /\ r[i + 1] = t[j + 1]
      <4>1. j < Len(t) => n + (j + 1) = i + 1 /\ i < Len(r)
        BY <1>1, <3>1
      <4>2. j < Len(t) => r[n + (j + 1)] = t[j + 1]
        BY <1>1, <3>1
      <4>3. QED
        BY Zenon, <4>1, <4>2
    <3>4. j > 1 => i > 1 /\ r[i - 1] = t[j - 1]
      <4>1. j > 1 => n + (j - 1) = i - 1 /\ i > 1
        BY <1>1, <3>1
      <4>2. j > 1 => r[n + (j - 1)] = t[j - 1]
        BY <1>1, <3>1
      <4>3. QED
        BY Zenon, <4>1, <4>2
    <3>5. QED
      BY Zenon, <3>1, <3>2, <3>3, <3>4
  <2>3. QED
    BY <1>1, <2>1, <2>2
<1>3. Whole(r)
  BY Zenon, <1>2 DEF Whole
<1>4. QED
  BY Zenon, <1>3 DEF r

(* The bytes of one key, or of one report.                                 *)
LEMMA TextLemma ==
    ASSUME NEW k \in Nat, k <= MaxKeys, NEW text \in { One(k), Pair(k) }
    PROVE  /\ text \in Seq(Byte) /\ Whole(text)
           /\ \A i \in 1 .. Len(text) : text[i][1] = k
<1>1. << k, "one" >> \in Byte /\ << k, "first" >> \in Byte /\ << k, "second" >> \in Byte
  BY BuffConstants DEF Byte
<1>2. CASE text = One(k)
  <2>1. text \in Seq(Byte) /\ Len(text) = 1 /\ text[1] = << k, "one" >>
    BY <1>1, <1>2 DEF One
  <2>2. QED
    BY <2>1 DEF Whole
<1>3. CASE text = Pair(k)
  <2>1. /\ text \in Seq(Byte) /\ Len(text) = 2
        /\ text[1] = << k, "first" >> /\ text[2] = << k, "second" >>
    BY <1>1, <1>3 DEF Pair
  <2>2. QED
    BY <2>1 DEF Whole
<1>4. QED
  BY Zenon, <1>2, <1>3

(* The state, as the proofs of the steps use it.                           *)
LEMMA BuffFacts ==
    ASSUME BuffInv
    PROVE  /\ OutBuff \in Seq(Byte) /\ Len(OutBuff) \in Nat /\ Len(OutBuff) <= OutBuffSize
           /\ LineModeBuff \in Seq(Byte) /\ Len(LineModeBuff) \in Nat
           /\ Len(LineModeBuff) <= OutBuffSize
           /\ FlushLen \in Nat /\ FlushLen <= Len(LineModeBuff)
           /\ got \in Seq(Byte) /\ entered \in Seq(Byte) /\ line \in Seq(Byte)
           /\ keys \in Nat /\ keys <= MaxKeys
           /\ got \o OutBuff \in Seq(Byte)
           /\ OutBuffSize \in Nat
BY BuffConstants DEF BuffInv, BuffTypeOK

(* The smaller of two numbers.                                             *)
LEMMA FewerBounds ==
    ASSUME NEW a \in Nat, NEW b \in Nat
    PROVE  /\ Fewer(a, b) \in Nat /\ Fewer(a, b) <= a /\ Fewer(a, b) <= b
           /\ a - Fewer(a, b) \in Nat
BY DEF Fewer

(* What CommRawOut puts behind the bytes that wait.                        *)
LEMMA RawOutLemma ==
    ASSUME BuffInv, NEW text \in Seq(Byte)
    PROVE  LET m == Fewer(Len(text), OutBuffSize - Len(OutBuff))
           IN  /\ m \in 0 .. Len(text) /\ m <= OutBuffSize - Len(OutBuff)
               /\ m = Len(text) \/ m = OutBuffSize - Len(OutBuff)
               /\ SubSeq(text, 1, m) \in Seq(Byte)
               /\ CommRawOut(text) = OutBuff \o SubSeq(text, 1, m)
               /\ CommRawOut(text) \in Seq(Byte)
               /\ Len(CommRawOut(text)) <= OutBuffSize
               /\ Len(text) <= OutBuffSize - Len(OutBuff) =>
                      CommRawOut(text) = OutBuff \o text
<1> DEFINE m == Fewer(Len(text), OutBuffSize - Len(OutBuff))
           cut == SubSeq(text, 1, m)
<1>1. /\ m \in 0 .. Len(text) /\ m <= OutBuffSize - Len(OutBuff)
      /\ m = Len(text) \/ m = OutBuffSize - Len(OutBuff)
      /\ Len(text) <= OutBuffSize - Len(OutBuff) => m = Len(text)
  BY BuffFacts DEF Fewer
<1>2. CommRawOut(text) = OutBuff \o cut
  BY Zenon DEF CommRawOut
<1> HIDE DEF m
<1>3. cut \in Seq(Byte) /\ Len(cut) = m /\ (m = Len(text) => cut = text)
  BY <1>1
<1> HIDE DEF cut
<1>4. OutBuff \o cut \in Seq(Byte) /\ Len(OutBuff \o cut) <= OutBuffSize
  BY <1>1, <1>3, BuffFacts
<1>5. QED
  BY Zenon, <1>1, <1>2, <1>3, <1>4 DEF m, cut

(* A call of WriteLine in line mode: what is due moves to OutBuff.         *)
LEMMA WriteLineStep ==
    ASSUME BuffInv, TelLineMode, NEW text \in Seq(Byte), AllTyped(text),
           NEW flush \in BOOLEAN, WriteLine(text, flush),
           keys' \in 0 .. MaxKeys, UNCHANGED << modes, got >>
    PROVE  BuffInv'
<1> DEFINE full == OutBuffSize - Len(LineModeBuff) - Len(text) < 0
           buff == IF full THEN LineModeBuff ELSE LineModeBuff \o text
           due == IF flush /\ ~full THEN Len(buff) ELSE FlushLen
           out == Fewer(due, OutBuffSize - Len(OutBuff))
           old == Typed(got \o OutBuff)
<1>1. /\ OutBuff' = CommRawOut(SubSeq(buff, 1, due))
      /\ LineModeBuff' = SubSeq(buff, out + 1, Len(buff))
      /\ FlushLen' = due - out
      /\ entered' = IF flush /\ ~full THEN entered \o line \o text ELSE entered
      /\ line' = IF full THEN line ELSE IF flush THEN << >> ELSE line \o text
  BY Zenon DEF WriteLine
<1>2. /\ old \in Seq(Byte)
      /\ old \o SubSeq(LineModeBuff, 1, FlushLen) = entered
      /\ SubSeq(LineModeBuff, FlushLen + 1, Len(LineModeBuff)) = line
  <2>1. old \in Seq(Byte)
    BY BuffFacts, TypedConcat
  <2>2. QED
    BY Zenon, <2>1 DEF BuffInv, Sent
<1> HIDE DEF old
<1>3. /\ buff \in Seq(Byte) /\ AllTyped(buff) /\ Len(buff) <= OutBuffSize
      /\ due \in Nat /\ due <= Len(buff)
      /\ entered' = old \o SubSeq(buff, 1, due)
      /\ line' = SubSeq(buff, due + 1, Len(buff))
  <2>0. AllTyped(LineModeBuff) /\ Len(text) \in Nat
    BY DEF BuffInv
  <2>1. CASE full
    <3>1. buff = LineModeBuff /\ due = FlushLen /\ entered' = entered /\ line' = line
      BY Zenon, <1>1, <2>1
    <3>2. QED
      BY Zenon, <1>2, <2>0, <3>1, BuffFacts
  <2>2. CASE ~full
    <3> DEFINE b == LineModeBuff \o text
    <3>1. /\ b \in Seq(Byte) /\ Len(b) = Len(LineModeBuff) + Len(text)
          /\ \A i \in 1 .. Len(LineModeBuff) : b[i] = LineModeBuff[i]
          /\ \A i \in 1 .. Len(text) : b[Len(LineModeBuff) + i] = text[i]
      BY BuffFacts
    <3>2. buff = b
      BY Zenon, <2>2
    <3>3. Len(b) <= OutBuffSize
      BY <2>2, <3>1, BuffFacts
    <3>4. AllTyped(b)
      BY <2>0, <3>1, BuffFacts DEF AllTyped
    <3>5. CASE flush
      <4>1. due = Len(b) /\ entered' = entered \o line \o text /\ line' = << >>
        BY Zenon, <1>1, <2>2, <3>2, <3>5
      <4>2. SubSeq(LineModeBuff, 1, FlushLen) \o line = LineModeBuff
        BY <1>2, BuffFacts, CutTwo
      <4>3. entered' = old \o b
        <5> DEFINE p == SubSeq(LineModeBuff, 1, FlushLen)
        <5>1. p \in Seq(Byte)
          BY BuffFacts
        <5> HIDE DEF p
        <5>2. entered = old \o p /\ p \o line = LineModeBuff
          BY Zenon, <1>2, <4>2 DEF p
        <5>3. (old \o p) \o line = old \o (p \o line)
          <6>1. old \in Seq(Byte) /\ line \in Seq(Byte)
            BY <1>2, BuffFacts
          <6>2. QED
            BY <5>1, <6>1
        <5>4. (old \o LineModeBuff) \o text = old \o (LineModeBuff \o text)
          <6>1. old \in Seq(Byte) /\ LineModeBuff \in Seq(Byte)
            BY <1>2, BuffFacts
          <6>2. QED
            BY <6>1
        <5>5. QED
          BY Zenon, <4>1, <5>2, <5>3, <5>4
      <4>4. SubSeq(b, 1, Len(b)) = b /\ SubSeq(b, Len(b) + 1, Len(b)) = << >>
        BY <3>1
      <4>5. Len(b) \in Nat /\ Len(b) <= Len(b)
        BY <3>1
      <4> HIDE DEF b, buff, due
      <4>6. QED
        BY Zenon, <3>1, <3>2, <3>3, <3>4, <4>1, <4>3, <4>4, <4>5
    <3>6. CASE ~flush
      <4>1. due = FlushLen /\ entered' = entered /\ line' = line \o text
        BY Zenon, <1>1, <2>2, <3>6
      <4>2. /\ SubSeq(b, 1, FlushLen) = SubSeq(LineModeBuff, 1, FlushLen)
            /\ SubSeq(b, FlushLen + 1, Len(b)) =
                  SubSeq(LineModeBuff, FlushLen + 1, Len(LineModeBuff)) \o text
            /\ FlushLen \in Nat /\ FlushLen <= Len(b)
        <5>1. FlushLen \in Nat /\ FlushLen <= Len(b)
          BY <2>0, <3>1, BuffFacts
        <5>2. QED
          BY <5>1, BuffFacts, CutConcat
      <4> HIDE DEF b, buff, due
      <4>3. QED
        BY Zenon, <1>2, <3>1, <3>2, <3>3, <3>4, <4>1, <4>2
    <3>7. QED
      BY Zenon, <3>5, <3>6
  <2>3. QED
    BY Zenon, <2>1, <2>2
<1> HIDE DEF full, buff, due
<1>4. /\ out \in Nat /\ out <= due /\ out <= OutBuffSize - Len(OutBuff)
      /\ out <= Len(buff) /\ due - out \in Nat
  <2>1. PICK room : room = OutBuffSize - Len(OutBuff)
    OBVIOUS
  <2>2. room \in Nat
    <3>1. Len(OutBuff) \in Nat /\ OutBuffSize \in Nat /\ Len(OutBuff) <= OutBuffSize
      BY Zenon, BuffFacts
    <3>2. QED
      BY <2>1, <3>1
  <2>3. out = Fewer(due, room) /\ due \in Nat /\ due <= Len(buff)
    BY Zenon, <1>3, <2>1
  <2> HIDE DEF out
  <2>4. out \in Nat /\ out <= due /\ out <= room /\ due - out \in Nat
    BY <2>2, <2>3, FewerBounds
  <2>5. Len(buff) \in Nat
    BY <1>3
  <2>6. out <= Len(buff)
    BY <2>3, <2>4, <2>5
  <2>7. QED
    BY Zenon, <2>1, <2>4, <2>6
<1>5. OutBuff' = OutBuff \o SubSeq(buff, 1, out)
  <2> DEFINE d == SubSeq(buff, 1, due)
  <2>1. d \in Seq(Byte) /\ Len(d) = due
    BY <1>3
  <2>2. CommRawOut(d) = OutBuff \o SubSeq(d, 1, out)
    BY Zenon, <2>1 DEF CommRawOut
  <2>3. SubSeq(d, 1, out) = SubSeq(buff, 1, out)
    BY <1>3, <1>4
  <2>4. QED
    BY Zenon, <1>1, <2>2, <2>3
<1> DEFINE moved == SubSeq(buff, 1, out)
           left == SubSeq(buff, out + 1, Len(buff))
<1> HIDE DEF out
<1>6. /\ moved \in Seq(Byte) /\ left \in Seq(Byte)
      /\ Len(moved) = out /\ Len(left) = Len(buff) - out
      /\ AllTyped(moved) /\ AllTyped(left)
  <2>1. /\ moved \in Seq(Byte) /\ Len(moved) = out
        /\ left \in Seq(Byte) /\ Len(left) = Len(buff) - out
        /\ \A i \in 1 .. out : moved[i] = buff[i]
        /\ \A i \in 1 .. Len(buff) - out : left[i] = buff[out + i]
    BY <1>3, <1>4, CutTwo
  <2>2. /\ \A i \in 1 .. out : i \in 1 .. Len(buff)
        /\ \A i \in 1 .. Len(buff) - out : out + i \in 1 .. Len(buff)
    BY <1>3, <1>4
  <2> HIDE DEF moved, left
  <2>3. AllTyped(moved)
    BY Zenon, <1>3, <2>1, <2>2 DEF AllTyped
  <2>4. ASSUME NEW i \in 1 .. Len(left)
        PROVE  left[i][1] # 0
    <3>1. i \in 1 .. Len(buff) - out /\ out + i \in 1 .. Len(buff)
      BY Zenon, <2>1, <2>2
    <3>2. QED
      BY Zenon, <1>3, <2>1, <3>1 DEF AllTyped
  <2>5. QED
    BY Zenon, <2>1, <2>3, <2>4 DEF AllTyped
<1>7. /\ moved \o SubSeq(left, 1, due - out) = SubSeq(buff, 1, due)
      /\ SubSeq(left, (due - out) + 1, Len(left)) = SubSeq(buff, due + 1, Len(buff))
      /\ SubSeq(left, 1, due - out) \in Seq(Byte)
      /\ SubSeq(buff, 1, due) \in Seq(Byte) /\ SubSeq(buff, due + 1, Len(buff)) \in Seq(Byte)
  <2>1. moved \o SubSeq(left, 1, due - out) = SubSeq(buff, 1, due)
    BY <1>3, <1>4, CutThree
  <2>2. /\ SubSeq(left, (due - out) + 1, Len(left)) = SubSeq(buff, due + 1, Len(buff))
        /\ SubSeq(left, 1, due - out) \in Seq(Byte)
    BY SMTT(30), <1>3, <1>4, CutThree
  <2>3. SubSeq(buff, 1, due) \in Seq(Byte) /\ SubSeq(buff, due + 1, Len(buff)) \in Seq(Byte)
    BY <1>3, CutTwo
  <2>4. QED
    BY Zenon, <2>1, <2>2, <2>3
<1>8. LineModeBuff' = left /\ FlushLen' = due - out /\ OutBuff' = OutBuff \o moved
  BY Zenon, <1>1, <1>5 DEF out
<1> DEFINE held == SubSeq(left, 1, due - out)
           gone == SubSeq(buff, 1, due)
           rest == SubSeq(buff, due + 1, Len(buff))
<1> HIDE DEF moved, left, held, gone, rest
<1>a. /\ OutBuff' \in Seq(Byte) /\ Len(OutBuff') <= OutBuffSize
      /\ LineModeBuff' \in Seq(Byte) /\ Len(LineModeBuff') <= OutBuffSize
      /\ FlushLen' \in 0 .. Len(LineModeBuff')
      /\ entered' \in Seq(Byte) /\ line' \in Seq(Byte)
  <2>1. gone \in Seq(Byte) /\ entered' = old \o gone /\ line' = rest /\ rest \in Seq(Byte)
    BY Zenon, <1>3, <1>7 DEF gone, rest
  <2>2. entered' \in Seq(Byte) /\ line' \in Seq(Byte)
    BY <1>2, <2>1
  <2>3. OutBuff' \in Seq(Byte) /\ Len(OutBuff') <= OutBuffSize
    <3>1. OutBuff \in Seq(Byte) /\ Len(OutBuff) \in Nat /\ OutBuffSize \in Nat
      BY Zenon, BuffFacts
    <3>2. ASSUME NEW a \in Seq(Byte), NEW b \in Seq(Byte)
          PROVE  a \o b \in Seq(Byte) /\ Len(a \o b) = Len(a) + Len(b)
      OBVIOUS
    <3>3. OutBuff' \in Seq(Byte) /\ Len(OutBuff') = Len(OutBuff) + out
      BY Zenon, <1>6, <1>8, <3>1, <3>2
    <3>4. QED
      BY <1>4, <3>1, <3>3
  <2>4. /\ LineModeBuff' \in Seq(Byte) /\ Len(LineModeBuff') <= OutBuffSize
        /\ FlushLen' \in 0 .. Len(LineModeBuff')
    <3>1. Len(left) \in Nat /\ Len(left) = Len(buff) - out /\ Len(buff) <= OutBuffSize
          /\ due <= Len(buff) /\ out \in Nat /\ OutBuffSize \in Nat
          /\ Len(buff) \in Nat /\ due \in Nat /\ out <= due
      BY <1>3, <1>4, <1>6, BuffFacts
    <3>2. Len(left) <= OutBuffSize /\ due - out \in 0 .. Len(left)
      BY <3>1
    <3>3. QED
      BY Zenon, <1>6, <1>8, <3>2
  <2>5. QED
    BY Zenon, <2>2, <2>3, <2>4
<1>9. BuffTypeOK'
  BY Zenon, <1>a DEF BuffInv, BuffTypeOK, modes
<1>10. Sent'
  <2>1. Typed(got \o (OutBuff \o moved)) = old \o moved
    <3>m. moved \in Seq(Byte)
      BY <1>6
    <3>0. got \in Seq(Byte) /\ OutBuff \in Seq(Byte) /\ got \o OutBuff \in Seq(Byte)
      BY BuffFacts
    <3>1. (got \o OutBuff) \o moved = got \o (OutBuff \o moved)
      BY <3>m, <3>0
    <3>2. Typed((got \o OutBuff) \o moved) = Typed(got \o OutBuff) \o Typed(moved)
      BY <1>6, <3>0, TypedConcat
    <3>3. Typed(moved) = moved
      BY <1>6, TypedAll DEF AllTyped
    <3>4. QED
      BY Zenon, <3>1, <3>2, <3>3 DEF old
  <2>2. (old \o moved) \o held = old \o gone
    <3>1. held \in Seq(Byte) /\ moved \o held = gone
      BY Zenon, <1>7 DEF held, gone
    <3>2. (old \o moved) \o held = old \o (moved \o held)
      <4>1. old \in Seq(Byte) /\ moved \in Seq(Byte) /\ held \in Seq(Byte)
        BY <1>2, <1>6, <3>1
      <4>2. QED
        BY <4>1
    <3>3. QED
      BY Zenon, <3>1, <3>2
  <2>3. got' = got
    BY Zenon
  <2>4. Typed(got' \o OutBuff') \o SubSeq(LineModeBuff', 1, FlushLen') = entered'
    BY Zenon, <1>3, <1>8, <2>1, <2>2, <2>3 DEF held, gone
  <2>5. SubSeq(LineModeBuff', FlushLen' + 1, Len(LineModeBuff')) = line'
    BY Zenon, <1>3, <1>7, <1>8
  <2>6. QED
    BY Zenon, <2>4, <2>5 DEF Sent
<1>11. QED
  BY Zenon, <1>6, <1>8, <1>9, <1>10 DEF BuffInv, modes

(* What is put behind OutBuff comes last in the stream.                    *)
LEMMA PutBehind ==
    ASSUME BuffInv, NEW text \in Seq(Byte), OutBuff' = OutBuff \o text, got' = got
    PROVE  /\ got' \o OutBuff' = (got \o OutBuff) \o text
           /\ Typed(got' \o OutBuff') = Typed(got \o OutBuff) \o Typed(text)
           /\ Whole(got \o OutBuff) /\ Whole(text) => Whole(got' \o OutBuff')
           /\ OutBuff' \in Seq(Byte)
<1>1. got \in Seq(Byte) /\ OutBuff \in Seq(Byte) /\ got \o OutBuff \in Seq(Byte)
  BY BuffFacts
<1>2. (got \o OutBuff) \o text = got \o (OutBuff \o text) /\ OutBuff \o text \in Seq(Byte)
  BY <1>1
<1>3. Typed((got \o OutBuff) \o text) = Typed(got \o OutBuff) \o Typed(text)
  BY <1>1, TypedConcat
<1>4. Whole(got \o OutBuff) /\ Whole(text) => Whole((got \o OutBuff) \o text)
  BY <1>1, WholeConcat
<1>5. QED
  BY Zenon, <1>2, <1>3, <1>4

(* A call of WriteDirect: all of the text goes to OutBuff, or nothing.     *)
LEMMA WriteDirectStep ==
    ASSUME BuffInv, ~TelLineMode, NEW text \in Seq(Byte), AllTyped(text), Whole(text),
           WriteDirect(text),
           keys' \in 0 .. MaxKeys, UNCHANGED << modes, got >>
    PROVE  BuffInv'
<1>0. /\ LineModeBuff' = LineModeBuff /\ FlushLen' = FlushLen /\ line' = line
      /\ got' = got /\ TelLineMode' = TelLineMode /\ TelBinSend' = TelBinSend
      /\ EnableLineMode' = EnableLineMode
  BY Zenon DEF WriteDirect, modes
<1>1. CASE OutBuffSize - Len(OutBuff) - Len(text) < 0
  <2>1. OutBuff' = OutBuff /\ entered' = entered
    BY Zenon, <1>1 DEF WriteDirect
  <2>2. QED
    BY Zenon, <1>0, <2>1 DEF BuffInv, BuffTypeOK, Sent
<1>2. CASE ~(OutBuffSize - Len(OutBuff) - Len(text) < 0)
  <2>1. OutBuff' = CommRawOut(text) /\ entered' = entered \o text
    BY Zenon, <1>2 DEF WriteDirect
  <2>2. OutBuff' = OutBuff \o text /\ Len(OutBuff') <= OutBuffSize
    <3>1. Len(text) <= OutBuffSize - Len(OutBuff)
      BY <1>2, BuffFacts
    <3>2. QED
      BY Zenon, <2>1, <3>1, RawOutLemma
  <2>3. Typed(text) = text
    BY TypedAll DEF AllTyped
  <2>4. /\ Typed(got' \o OutBuff') = Typed(got \o OutBuff) \o text
        /\ Whole(got \o OutBuff) => Whole(got' \o OutBuff')
        /\ OutBuff' \in Seq(Byte)
    BY Zenon, <1>0, <2>2, <2>3, PutBehind
  <2>5. entered' \in Seq(Byte)
    BY <2>1, BuffFacts
  <2>6. BuffTypeOK'
    BY Zenon, <1>0, <2>2, <2>4, <2>5 DEF BuffInv, BuffTypeOK
  <2>7. LineModeBuff = << >> => Sent'
    <3>1. HAVE LineModeBuff = << >>
    <3>2. Typed(got \o OutBuff) \o SubSeq(LineModeBuff, 1, FlushLen) = entered
      BY Zenon, <3>1 DEF BuffInv, Sent
    <3>3. Typed(got \o OutBuff) \in Seq(Byte)
      BY BuffFacts, TypedConcat
    <3>4. \A e \in Seq(Byte) : e \o << >> = e
      OBVIOUS
    <3>5. SubSeq(LineModeBuff, 1, FlushLen) = << >>
      BY <3>1, BuffFacts
    <3>6. Typed(got \o OutBuff) = entered
      BY Zenon, <3>2, <3>3, <3>4, <3>5
    <3>7. Typed(got' \o OutBuff') \o SubSeq(LineModeBuff', 1, FlushLen') = entered'
      BY Zenon, <1>0, <2>1, <2>4, <2>5, <3>4, <3>5, <3>6
    <3>8. QED
      BY Zenon, <1>0, <3>1, <3>7 DEF Sent, BuffInv
  <2>8. QED
    BY Zenon, <1>0, <2>4, <2>6, <2>7 DEF BuffInv
<1>3. QED
  BY Zenon, <1>1, <1>2

(* A key that is sent or put into the line.                                *)
LEMMA WriteOutStep ==
    ASSUME BuffInv, Key,
           NEW text \in { One(keys + 1), Pair(keys + 1) }, NEW flush \in BOOLEAN,
           WriteOutBuff(text, flush)
    PROVE  BuffInv'
<1>1. keys + 1 \in Nat /\ keys + 1 <= MaxKeys /\ keys + 1 # 0
  BY BuffFacts, BuffConstants DEF Key
<1>2. keys' \in 0 .. MaxKeys /\ UNCHANGED << modes, got >>
  BY <1>1 DEF Key
<1>3. text \in Seq(Byte) /\ Whole(text) /\ \A i \in 1 .. Len(text) : text[i][1] = keys + 1
  BY <1>1, TextLemma
<1>4. AllTyped(text)
  BY Zenon, <1>1, <1>3 DEF AllTyped
<1>5. CASE TelLineMode
  BY Zenon, <1>2, <1>3, <1>4, <1>5, WriteLineStep DEF WriteOutBuff
<1>6. CASE ~TelLineMode
  BY Zenon, <1>2, <1>3, <1>4, <1>6, WriteDirectStep DEF WriteOutBuff
<1>7. QED
  BY Zenon, <1>5, <1>6

(* BS and ctrl-U take bytes from the end of the line that is edited.       *)
LEMMA CutStep ==
    ASSUME BuffInv, Key, TelLineMode,
           NEW n \in Nat, FlushLen <= n, n <= Len(LineModeBuff), Cut(n),
           line' = SubSeq(line, 1, n - FlushLen)
    PROVE  BuffInv'
<1>0. /\ OutBuff' = OutBuff /\ FlushLen' = FlushLen /\ entered' = entered
      /\ LineModeBuff' = SubSeq(LineModeBuff, 1, n)
      /\ got' = got /\ TelLineMode' = TelLineMode /\ TelBinSend' = TelBinSend
      /\ EnableLineMode' = EnableLineMode
  BY Zenon DEF Cut, Key, modes
<1>1. keys' \in 0 .. MaxKeys
  BY BuffFacts, BuffConstants DEF Key
<1>2. /\ LineModeBuff' \in Seq(Byte) /\ Len(LineModeBuff') = n
      /\ \A i \in 1 .. n : LineModeBuff'[i] = LineModeBuff[i]
  BY <1>0, BuffFacts, LastSplit
<1>3. AllTyped(LineModeBuff')
  <2>1. AllTyped(LineModeBuff)
    BY Zenon DEF BuffInv
  <2>2. \A i \in 1 .. n : i \in 1 .. Len(LineModeBuff)
    BY BuffFacts
  <2>3. QED
    BY Zenon, <1>2, <2>1, <2>2 DEF AllTyped
<1>4. line' \in Seq(Byte)
  <2>1. n - FlushLen \in Nat /\ n - FlushLen <= Len(line)
    <3>1. SubSeq(LineModeBuff, FlushLen + 1, Len(LineModeBuff)) = line
      BY Zenon DEF BuffInv, Sent
    <3>2. Len(line) = Len(LineModeBuff) - FlushLen
      BY <3>1, BuffFacts
    <3>3. QED
      BY <3>2, BuffFacts
  <2>2. QED
    BY <2>1, BuffFacts
<1>5. BuffTypeOK'
  <2>1. FlushLen' \in 0 .. Len(LineModeBuff') /\ Len(LineModeBuff') <= OutBuffSize
    BY <1>0, <1>2, BuffFacts
  <2>2. QED
    BY Zenon, <1>0, <1>2, <1>4, <2>1 DEF BuffInv, BuffTypeOK
<1>6. Sent'
  <2>1. /\ Typed(got \o OutBuff) \o SubSeq(LineModeBuff, 1, FlushLen) = entered
        /\ SubSeq(LineModeBuff, FlushLen + 1, Len(LineModeBuff)) = line
    BY Zenon DEF BuffInv, Sent
  <2>2. SubSeq(SubSeq(LineModeBuff, 1, n), 1, FlushLen) = SubSeq(LineModeBuff, 1, FlushLen)
    BY BuffFacts
  <2>3. SubSeq(SubSeq(LineModeBuff, 1, n), FlushLen + 1, n)
           = SubSeq(SubSeq(LineModeBuff, FlushLen + 1, Len(LineModeBuff)), 1, n - FlushLen)
    BY BuffFacts, CutInside
  <2>4. QED
    BY Zenon, <1>0, <1>2, <2>1, <2>2, <2>3 DEF Sent
<1>7. QED
  BY Zenon, <1>0, <1>1, <1>3, <1>5, <1>6 DEF BuffInv

(* A key that edits the line, or a line end.                               *)
LEMMA OutControlStep ==
    ASSUME BuffInv, Key, NEW key \in {"CR", "BS", "ctrl-U"}, OutControl(key, keys + 1)
    PROVE  BuffInv'
<1>0. LineEnd(keys + 1) \in { One(keys + 1), Pair(keys + 1) }
  BY Zenon DEF LineEnd
<1>1. CASE key = "CR" /\ WriteOutBuff(LineEnd(keys + 1), TRUE)
  BY Zenon, <1>0, <1>1, WriteOutStep
<1>2. TelLineMode => Len(line) = Len(LineModeBuff) - FlushLen /\ line \in Seq(Byte)
  <2>1. HAVE TelLineMode
  <2>2. SubSeq(LineModeBuff, FlushLen + 1, Len(LineModeBuff)) = line
    BY Zenon, <2>1 DEF BuffInv, Sent
  <2>3. QED
    BY <2>2, BuffFacts
<1>3. CASE /\ key = "BS" /\ TelLineMode
           /\ Cut(IF FlushLen < Len(LineModeBuff) THEN Len(LineModeBuff) - 1
                  ELSE Len(LineModeBuff))
           /\ line' = SubSeq(line, 1, Len(line) - 1)
  <2> DEFINE n == IF FlushLen < Len(LineModeBuff) THEN Len(LineModeBuff) - 1
                  ELSE Len(LineModeBuff)
  <2>1. n \in Nat /\ FlushLen <= n /\ n <= Len(LineModeBuff)
    BY BuffFacts
  <2>2. SubSeq(line, 1, Len(line) - 1) = SubSeq(line, 1, n - FlushLen)
    <3>1. CASE FlushLen < Len(LineModeBuff)
      BY <1>2, <1>3, <3>1, BuffFacts
    <3>2. CASE ~(FlushLen < Len(LineModeBuff))
      <4>1. Len(line) = 0 /\ n - FlushLen = 0 /\ line \in Seq(Byte)
        BY <1>2, <1>3, <3>2, BuffFacts
      <4>2. SubSeq(line, 1, 0 - 1) = << >> /\ SubSeq(line, 1, 0) = << >>
        BY <4>1
      <4>3. QED
        BY Zenon, <4>1, <4>2
    <3>3. QED
      BY Zenon, <3>1, <3>2
  <2>3. Cut(n) /\ line' = SubSeq(line, 1, n - FlushLen)
    BY Zenon, <1>3, <2>2
  <2> HIDE DEF n
  <2>4. QED
    BY <1>3, <2>1, <2>3, CutStep
<1>4. CASE key = "ctrl-U" /\ TelLineMode /\ Cut(FlushLen) /\ line' = << >>
  <2>1. FlushLen \in Nat /\ FlushLen <= FlushLen /\ FlushLen <= Len(LineModeBuff)
    BY BuffFacts
  <2>2. SubSeq(line, 1, FlushLen - FlushLen) = << >>
    BY <1>2, <1>4, <2>1
  <2>3. QED
    BY <1>4, <2>1, <2>2, CutStep
<1>5. CASE key \in {"BS", "ctrl-U"} /\ ~TelLineMode /\ WriteOutBuff(One(keys + 1), FALSE)
  BY Zenon, <1>5, WriteOutStep
<1>6. QED
  BY Zenon, <1>1, <1>3, <1>4, <1>5 DEF OutControl

(* A key, by either of the two ways in.                                    *)
LEMMA KeyStep ==
    ASSUME BuffInv, CommTextOutW \/ CommBinaryBuffOut
    PROVE  BuffInv'
<1>1. CASE CommTextOutW
  <2>1. Key
    BY Zenon, <1>1 DEF CommTextOutW
  <2>2. CASE WriteOutBuff(One(keys + 1), FALSE)
    BY Zenon, <2>1, <2>2, WriteOutStep
  <2>3. CASE \E key \in {"CR", "BS", "ctrl-U"} : OutControl(key, keys + 1)
    BY Zenon, <2>1, <2>3, OutControlStep
  <2>4. QED
    BY Zenon, <1>1, <2>2, <2>3 DEF CommTextOutW
<1>2. CASE CommBinaryBuffOut
  <2>1. Key
    BY Zenon, <1>2 DEF CommBinaryBuffOut
  <2>2. CASE WriteOutBuff(One(keys + 1), FALSE)
    BY Zenon, <2>1, <2>2, WriteOutStep
  <2>3. CASE WriteOutBuff(IF TelBinSend THEN One(keys + 1) ELSE Pair(keys + 1), TRUE)
    <3>1. (IF TelBinSend THEN One(keys + 1) ELSE Pair(keys + 1))
             \in { One(keys + 1), Pair(keys + 1) }
      BY Zenon
    <3>2. QED
      BY Zenon, <2>1, <2>3, <3>1, WriteOutStep
  <2>4. CASE WriteOutBuff(Pair(keys + 1), FALSE)
    BY Zenon, <2>1, <2>4, WriteOutStep
  <2>5. QED
    BY Zenon, <1>2, <2>2, <2>3, <2>4 DEF CommBinaryBuffOut
<1>3. QED
  BY Zenon, <1>1, <1>2

(* What the program sends itself goes past the line and the keys.          *)
LEMMA AsideOut ==
    ASSUME BuffInv, NEW text \in Seq(Byte), \A i \in 1 .. Len(text) : text[i][1] = 0,
           Whole(text), Len(text) <= OutBuffSize - Len(OutBuff), OutBuff' = OutBuff \o text,
           UNCHANGED << keys, got, history, LineModeBuff, FlushLen, modes >>
    PROVE  BuffInv'
<1>0. /\ LineModeBuff' = LineModeBuff /\ FlushLen' = FlushLen /\ line' = line
      /\ got' = got /\ TelLineMode' = TelLineMode /\ TelBinSend' = TelBinSend
      /\ EnableLineMode' = EnableLineMode /\ keys' = keys /\ entered' = entered
  BY Zenon DEF history, modes
<1>1. Typed(text) = << >>
  BY TypedNone
<1>2. /\ Typed(got' \o OutBuff') = Typed(got \o OutBuff) \o Typed(text)
      /\ Whole(got \o OutBuff) => Whole(got' \o OutBuff')
      /\ OutBuff' \in Seq(Byte)
  BY Zenon, <1>0, PutBehind
<1>3. Typed(got \o OutBuff) \in Seq(Byte)
  BY BuffFacts, TypedConcat
<1>4. \A e \in Seq(Byte) : e \o << >> = e
  OBVIOUS
<1>5. Typed(got' \o OutBuff') = Typed(got \o OutBuff)
  BY Zenon, <1>1, <1>2, <1>3, <1>4
<1>6. Len(OutBuff') <= OutBuffSize
  BY BuffFacts
<1>7. BuffTypeOK'
  BY Zenon, <1>0, <1>2, <1>6 DEF BuffInv, BuffTypeOK
<1>8. QED
  BY Zenon, <1>0, <1>2, <1>5, <1>7 DEF BuffInv, Sent

(* The same where nothing is put into OutBuff.                             *)
LEMMA AsideQuiet ==
    ASSUME BuffInv, UNCHANGED << OutBuff, LineModeBuff, FlushLen, got, history, keys >>,
           EnableLineMode' = EnableLineMode, TelBinSend' \in BOOLEAN,
           TelLineMode' \in BOOLEAN, TelLineMode' => TelLineMode
    PROVE  BuffInv'
<1>1. /\ LineModeBuff' = LineModeBuff /\ FlushLen' = FlushLen /\ line' = line
      /\ got' = got /\ keys' = keys /\ entered' = entered /\ OutBuff' = OutBuff
  BY Zenon DEF history
<1>2. {TelLineMode', TelBinSend', EnableLineMode'} \subseteq BOOLEAN
  BY Zenon DEF BuffInv, BuffTypeOK
<1>3. BuffTypeOK'
  BY Zenon, <1>1, <1>2 DEF BuffInv, BuffTypeOK
<1>4. QED
  BY Zenon, <1>1, <1>3 DEF BuffInv, Sent

(* A report, a command, an option that comes into force.                   *)
LEMMA AsideStep ==
    ASSUME BuffInv, CommBinaryOut \/ SendCommand \/ LineModeEnds \/ BinarySwitches
    PROVE  BuffInv'
<1>0. /\ TelLineMode \in BOOLEAN /\ TelBinSend \in BOOLEAN /\ EnableLineMode \in BOOLEAN
  BY Zenon DEF BuffInv, BuffTypeOK
<1>1. CASE CommBinaryOut
  <2>1. UNCHANGED << keys, got, history, LineModeBuff, FlushLen, modes >>
    BY Zenon, <1>1 DEF CommBinaryOut, Aside
  <2>2. PICK text \in {One(0), Pair(0)} :
           IF OutBuffSize - Len(OutBuff) - Len(text) >= 0
           THEN OutBuff' = CommRawOut(text) ELSE UNCHANGED OutBuff
    BY Zenon, <1>1 DEF CommBinaryOut
  <2>3. CASE OutBuffSize - Len(OutBuff) - Len(text) >= 0
    <3>0. 0 \in Nat /\ 0 <= MaxKeys
      BY BuffConstants
    <3>1. text \in Seq(Byte) /\ Whole(text) /\ \A i \in 1 .. Len(text) : text[i][1] = 0
      BY <3>0, TextLemma
    <3>2. Len(text) <= OutBuffSize - Len(OutBuff)
      BY <2>3, <3>1, BuffFacts
    <3>3. OutBuff' = OutBuff \o text
      BY Zenon, <2>2, <2>3, <3>1, <3>2, RawOutLemma
    <3>4. QED
      BY Zenon, <2>1, <3>1, <3>2, <3>3, AsideOut
  <2>4. CASE ~(OutBuffSize - Len(OutBuff) - Len(text) >= 0)
    <3>1. OutBuff' = OutBuff
      BY Zenon, <2>2, <2>4
    <3>2. QED
      BY Zenon, <1>0, <2>1, <3>1, AsideQuiet DEF modes
  <2>5. QED
    BY Zenon, <2>3, <2>4
<1>2. CASE SendCommand
  <2> DEFINE command == One(0) \o One(0) \o One(0)
             m == Fewer(Len(command), OutBuffSize - Len(OutBuff))
             text == SubSeq(command, 1, m)
  <2>1. /\ UNCHANGED << keys, got, history, LineModeBuff, FlushLen, modes >>
        /\ OutBuff' = CommRawOut(command)
    BY Zenon, <1>2 DEF SendCommand, Aside
  <2>2. << 0, "one" >> \in Byte
    BY BuffConstants DEF Byte
  <2>3. /\ command \in Seq(Byte) /\ Len(command) = 3
        /\ command[1] = << 0, "one" >> /\ command[2] = << 0, "one" >>
        /\ command[3] = << 0, "one" >>
    BY <2>2 DEF One
  <2> HIDE DEF command
  <2>4. /\ m \in 0 .. 3 /\ m <= OutBuffSize - Len(OutBuff)
        /\ OutBuff' = OutBuff \o text
    BY <2>1, <2>3, RawOutLemma
  <2> HIDE DEF m
  <2>5. text \in Seq(Byte) /\ Len(text) = m /\ \A i \in 1 .. m : text[i] = command[i]
    <3>1. m \in Nat /\ m <= Len(command) /\ command \in Seq(Byte)
      BY <2>3, <2>4
    <3>2. QED
      BY <3>1, CutTwo
  <2> HIDE DEF text
  <2>6. \A i \in 1 .. m : command[i] = << 0, "one" >>
    <3>1. \A i \in 1 .. m : i = 1 \/ i = 2 \/ i = 3
      BY <2>4
    <3>2. QED
      BY Zenon, <2>3, <3>1
  <2>7. \A i \in 1 .. Len(text) : text[i] = << 0, "one" >>
    BY Zenon, <2>5, <2>6
  <2>8. /\ \A i \in 1 .. Len(text) : text[i][1] = 0
        /\ Whole(text)
    <3>1. << 0, "one" >>[1] = 0 /\ << 0, "one" >>[2] # "first" /\ << 0, "one" >>[2] # "second"
      OBVIOUS
    <3>2. QED
      BY Zenon, <2>7, <3>1 DEF Whole
  <2>9. QED
    BY Zenon, <2>1, <2>4, <2>5, <2>8, AsideOut
<1>3. CASE LineModeEnds
  <2>1. /\ UNCHANGED << OutBuff, LineModeBuff, FlushLen, got, history, keys >>
        /\ EnableLineMode' = EnableLineMode /\ TelBinSend' = TelBinSend
        /\ TelLineMode' = FALSE
    BY Zenon, <1>3 DEF LineModeEnds, Aside, pending
  <2>2. QED
    BY Zenon, <1>0, <2>1, AsideQuiet
<1>4. CASE BinarySwitches
  <2>1. /\ UNCHANGED << OutBuff, LineModeBuff, FlushLen, got, history, keys >>
        /\ EnableLineMode' = EnableLineMode /\ TelBinSend' \in BOOLEAN
        /\ TelLineMode' = TelLineMode
    BY Zenon, <1>0, <1>4 DEF BinarySwitches, Aside, pending
  <2>2. QED
    BY Zenon, <1>0, <2>1, AsideQuiet
<1>5. QED
  BY Zenon, <1>1, <1>2, <1>3, <1>4

(* The connection takes from OutBuff: the stream stays as it is.           *)
LEMMA CommSendStep ==
    ASSUME BuffInv, CommSend
    PROVE  BuffInv'
<1>0. /\ LineModeBuff' = LineModeBuff /\ FlushLen' = FlushLen /\ line' = line
      /\ TelLineMode' = TelLineMode /\ TelBinSend' = TelBinSend
      /\ EnableLineMode' = EnableLineMode /\ keys' = keys /\ entered' = entered
  BY Zenon DEF CommSend, history, modes
<1>1. PICK n \in 1 .. Len(OutBuff) :
         /\ got' = got \o SubSeq(OutBuff, 1, n)
         /\ OutBuff' = SubSeq(OutBuff, n + 1, Len(OutBuff))
  BY Zenon DEF CommSend
<1> DEFINE head == SubSeq(OutBuff, 1, n)
           tail == SubSeq(OutBuff, n + 1, Len(OutBuff))
<1>2. /\ head \in Seq(Byte) /\ tail \in Seq(Byte)
      /\ Len(tail) = Len(OutBuff) - n /\ head \o tail = OutBuff
  BY BuffFacts, CutTwo
<1>3. /\ got' = got \o head /\ OutBuff' = tail
  BY Zenon, <1>1
<1> HIDE DEF head, tail
<1>4. head \in Seq(Byte) /\ tail \in Seq(Byte) /\ got \in Seq(Byte)
  BY <1>2, BuffFacts
<1>5. (got \o head) \o tail = got \o (head \o tail) /\ got \o head \in Seq(Byte)
  BY <1>4
<1>6. got' \o OutBuff' = got \o OutBuff /\ got' \in Seq(Byte) /\ OutBuff' \in Seq(Byte)
  BY Zenon, <1>2, <1>3, <1>5
<1>7. Len(OutBuff') <= OutBuffSize
  BY <1>2, <1>3, BuffFacts
<1>8. BuffTypeOK'
  BY Zenon, <1>0, <1>6, <1>7 DEF BuffInv, BuffTypeOK
<1>9. QED
  BY Zenon, <1>0, <1>6, <1>8 DEF BuffInv, Sent

(* Every step of the way out.                                              *)
LEMMA BuffStep ==
    ASSUME BuffInv, [BuffNext]_buffVars
    PROVE  BuffInv'
<1>1. CASE BuffNext
  BY Zenon, <1>1, KeyStep, AsideStep, CommSendStep DEF BuffNext
<1>2. CASE UNCHANGED buffVars
  <2>1. /\ LineModeBuff' = LineModeBuff /\ FlushLen' = FlushLen /\ line' = line
        /\ TelLineMode' = TelLineMode /\ TelBinSend' = TelBinSend
        /\ EnableLineMode' = EnableLineMode /\ keys' = keys /\ entered' = entered
        /\ got' = got /\ OutBuff' = OutBuff
    BY Zenon, <1>2 DEF buffVars
  <2>2. BuffTypeOK'
    BY Zenon, <2>1 DEF BuffInv, BuffTypeOK
  <2>3. QED
    BY Zenon, <2>1, <2>2 DEF BuffInv, Sent
<1>3. QED
  BY Zenon, <1>1, <1>2

(* The connection as it is opened.                                         *)
LEMMA BuffInitInv ==
    ASSUME BuffInit
    PROVE  BuffInv
<1>1. /\ OutBuff = << >> /\ LineModeBuff = << >> /\ FlushLen = 0
      /\ EnableLineMode \in BOOLEAN /\ TelLineMode = EnableLineMode
      /\ TelBinSend = FALSE
      /\ got = << >> /\ entered = << >> /\ line = << >>
      /\ keys = 0
  BY Zenon DEF BuffInit
<1>2. BuffTypeOK
  <2>1. << >> \in Seq(Byte) /\ Len(<< >>) = 0 /\ 0 <= OutBuffSize /\ 0 \in 0 .. 0
    BY BuffConstants
  <2>2. {TelLineMode, TelBinSend, EnableLineMode} \subseteq BOOLEAN
    BY Zenon, <1>1
  <2>3. QED
    BY Zenon, <1>1, <2>1, <2>2 DEF BuffTypeOK
<1>3. keys \in 0 .. MaxKeys
  BY <1>1, BuffConstants
<1>4. AllTyped(<< >>) /\ Whole(<< >> \o << >>)
  BY DEF AllTyped, Whole
<1>5. Sent
  <2>1. /\ << >> \o << >> = << >> /\ SubSeq(<< >>, 1, 0) = << >>
        /\ SubSeq(<< >>, 0 + 1, Len(<< >>)) = << >>
    OBVIOUS
  <2>2. QED
    BY Zenon, <1>1, <2>1, TypedAppend DEF Sent
<1>6. QED
  BY Zenon, <1>1, <1>2, <1>3, <1>4, <1>5 DEF BuffInv

(* The invariant of the way out holds in every state.                      *)
LEMMA BuffInvariance == BuffSpec => []BuffInv
<1>1. BuffInit => BuffInv
  BY BuffInitInv
<1>2. BuffInv /\ [BuffNext]_buffVars => BuffInv'
  BY BuffStep
<1>3. QED
  BY <1>1, <1>2, PTL DEF BuffSpec

(* OutBuff and LineModeBuff (ttcmn_buff.c) keep to their capacity, and     *)
(* FlushLen to what LineModeBuff holds.                                    *)
THEOREM BuffTypeCorrect == BuffSpec => []BuffTypeOK
<1>1. BuffInv => BuffTypeOK
  BY Zenon DEF BuffInv
<1>2. QED
  BY <1>1, BuffInvariance, PTL

(* What the keys said is what is sent (WriteOutBuff and CommSend), for     *)
(* every capacity of the buffers, line ends and commands in between.       *)
THEOREM KeysAreSent == BuffSpec => []EnteredIsSent
<1>1. BuffInv => EnteredIsSent
  BY Zenon DEF BuffInv, Sent, EnteredIsSent
<1>2. QED
  BY <1>1, BuffInvariance, PTL

(* Without line mode, CR and its NUL or LF, and 255 and its double, stay   *)
(* together whatever the room in OutBuff (OutControl, WriteOutBuff).       *)
THEOREM PairsStayWhole == BuffSpec => []PairsWhole
<1>1. BuffInv => PairsWhole
  BY Zenon DEF BuffInv, Whole, PairsWhole
<1>2. QED
  BY <1>1, BuffInvariance, PTL
-----------------------------------------------------------------------------
(* CommThread: the way in.                                                 *)

(* What each party may rely on: the thread waits while a read is due, one  *)
(* read at a time, and what it has seen in a pipe is there until it is     *)
(* read.                                                                   *)
Handshake ==
    /\ RRQ \/ posted > 0 => recvPc = "wait" /\ ~ReadEnd
    /\ ~(RRQ /\ posted > 0)
    /\ ReadEnd => recvPc = "wait"
    /\ recvPc \in {"post", "wait"} => Ready
    /\ PortType = "IdNamedPipe" =>
          (recvPc = "post" \/ RRQ \/ posted > 0 => queued > 0)

RecvInv ==
    /\ RecvTypeOK
    /\ queued <= arrived
    /\ Handshake
    /\ ~blocked

(* Reads leave the counters within their bounds.                           *)
LEMMA AtMostLemma ==
    ASSUME NEW a \in Int, NEW b \in Int
    PROVE  /\ AtMost(a, b) \in Int /\ AtMost(a, b) <= a /\ AtMost(a, b) <= b
           /\ AtMost(a, b) = a \/ AtMost(a, b) = b
BY DEF AtMost

(* What CommReceive does with count bytes left in the buffer: it keeps the *)
(* request without reading, or it reads without blocking.                  *)
LEMMA ReceiveLemma ==
    ASSUME RecvInv, NEW request \in BOOLEAN, NEW count \in Nat,
           count <= InBuffSize, CommReceive(request, count),
           PortType = "IdNamedPipe" => (request => queued > 0)
    PROVE  /\ InBuffCount' \in 0 .. InBuffSize
           /\ queued' \in Nat /\ queued' <= queued
           /\ RRQ' \in BOOLEAN /\ ReadEnd' \in BOOLEAN
           /\ blocked' = blocked
           /\ \/ RRQ' = request /\ queued' = queued /\ ReadEnd' = ReadEnd
              \/ request /\ RRQ' = TRUE /\ ReadEnd' = ReadEnd /\ PortType = "IdSerial"
              \/ request /\ RRQ' = FALSE /\ ReadEnd' = TRUE
<1>0. /\ queued \in Nat /\ InBuffSize \in Nat
      /\ PortType \in {"IdSerial", "IdNamedPipe"}
  BY ReceiverConstants DEF RecvInv, RecvTypeOK
<1>a. {RRQ, ReadEnd, Ready, blocked} \subseteq BOOLEAN
  BY Zenon DEF RecvInv, RecvTypeOK
<1>1. CASE ~Ready \/ ~request \/ count >= InBuffSize
  <2>1. /\ RRQ' = request /\ InBuffCount' = count
        /\ UNCHANGED << ReadEnd, queued, blocked >>
    BY Zenon, <1>1 DEF CommReceive
  <2>2. InBuffCount' \in 0 .. InBuffSize /\ queued' \in Nat /\ queued' <= queued
    BY <1>0, <2>1
  <2>3. QED
    BY Zenon, <1>a, <2>1, <2>2
<1>2. CASE ~(~Ready \/ ~request \/ count >= InBuffSize)
  <2>0. count < InBuffSize /\ request
    BY <1>0, <1>2
  <2>1. CASE PortType = "IdNamedPipe"
    <3>1. queued # 0
      BY <1>0, <2>0, <2>1
    <3>2. ReadPipe(count)
      BY Zenon, <1>2, <2>1 DEF CommReceive
    <3>3. /\ \E n \in 1 .. AtMost(queued, InBuffSize - count) :
               InBuffCount' = count + n /\ queued' = queued - n
          /\ RRQ' = FALSE /\ ReadEnd' = TRUE
          /\ UNCHANGED blocked
      BY Zenon, <3>1, <3>2 DEF ReadPipe
    <3>4. InBuffCount' \in 0 .. InBuffSize /\ queued' \in Nat /\ queued' <= queued
      BY <1>0, <2>0, <3>3, AtMostLemma
    <3>5. QED
      BY Zenon, <1>a, <2>0, <3>3, <3>4
  <2>2. CASE PortType = "IdSerial"
    <3>1. PICK n \in SerialBytes(count) :
              /\ InBuffCount' = count + n /\ queued' = queued - n
              /\ RRQ' = (count + n > 0)
              /\ ReadEnd' = (ReadEnd \/ count + n = 0)
              /\ blocked' = blocked
      BY Zenon, <1>2, <2>2 DEF CommReceive, ReadSerial
    <3>2. n \in Nat /\ n <= queued /\ count + n <= InBuffSize
      <4> DEFINE most == AtMost(queued, InBuffSize - count)
      <4>0. InBuffSize - count \in Int /\ InBuffSize - count > 0
        BY <1>0, <2>0
      <4>1. most \in Nat /\ most <= queued /\ most <= InBuffSize - count
        BY <1>0, <4>0 DEF AtMost
      <4>2. AtMost(1, most) \in Nat
        BY <4>1, AtMostLemma DEF AtMost
      <4>3. n = most \/ n \in AtMost(1, most) .. most
        BY Zenon, <3>1 DEF SerialBytes
      <4> HIDE DEF most
      <4>4. QED
        BY <1>0, <2>0, <4>1, <4>2, <4>3
    <3>3. InBuffCount' \in 0 .. InBuffSize /\ queued' \in Nat /\ queued' <= queued
      BY <1>0, <3>1, <3>2
    <3>4. CASE count + n = 0
      <4>1. (count + n > 0) = FALSE
        BY <3>4
      <4>2. RRQ' = FALSE /\ ReadEnd' = TRUE
        BY Zenon, <3>1, <3>4, <4>1
      <4>3. QED
        BY Zenon, <1>a, <2>0, <3>1, <3>3, <4>2
    <3>5. CASE count + n # 0
      <4>1. (count + n > 0) = TRUE
        BY <3>2, <3>5
      <4>2. RRQ' = TRUE /\ ReadEnd' = ReadEnd
        BY Zenon, <1>a, <3>1, <3>5, <4>1
      <4>3. QED
        BY Zenon, <1>a, <2>0, <2>2, <3>1, <3>3, <4>2
    <3>6. QED
      BY Zenon, <3>4, <3>5
  <2>3. QED
    BY Zenon, <1>0, <2>1, <2>2
<1>3. QED
  BY Zenon, <1>1, <1>2

(* What a read leaves, with the message that asked for it gone.            *)
LEMMA AfterReceive ==
    ASSUME RecvInv, NEW request \in BOOLEAN, NEW count \in Nat,
           count <= InBuffSize, CommReceive(request, count),
           PortType = "IdNamedPipe" => (request => queued > 0),
           request => recvPc = "wait" /\ ~ReadEnd,
           posted' = 0 \/ (~request /\ ~RRQ /\ posted' = posted),
           UNCHANGED << PortType, Ready, recvPc, noticed, arrived >>
    PROVE  RecvInv'
<1>1. /\ InBuffCount' \in 0 .. InBuffSize
      /\ queued' \in Nat /\ queued' <= queued
      /\ RRQ' \in BOOLEAN /\ ReadEnd' \in BOOLEAN
      /\ blocked' = blocked
      /\ \/ RRQ' = request /\ queued' = queued /\ ReadEnd' = ReadEnd
         \/ request /\ RRQ' = TRUE /\ ReadEnd' = ReadEnd /\ PortType = "IdSerial"
         \/ request /\ RRQ' = FALSE /\ ReadEnd' = TRUE
  BY Zenon, ReceiveLemma
<1>2. /\ queued' \in 0 .. MaxArrived /\ queued' <= arrived'
      /\ posted' \in 0 .. 1 /\ posted \in 0 .. 1
      /\ posted' > 0 => posted' = posted /\ posted > 0 /\ ~request /\ ~RRQ
  <2>1. queued' \in 0 .. MaxArrived /\ queued' <= arrived'
    BY <1>1, ReceiverConstants DEF RecvInv, RecvTypeOK
  <2>2. posted \in 0 .. 1 /\ 0 \in 0 .. 1 /\ ~(0 > 0)
    BY DEF RecvInv, RecvTypeOK
  <2>3. QED
    BY Zenon, <2>1, <2>2
<1>3. RecvTypeOK'
  BY Zenon, <1>1, <1>2 DEF RecvInv, RecvTypeOK
<1>4. "wait" # "post" /\ "IdSerial" # "IdNamedPipe"
  OBVIOUS
<1>5. request => posted' = 0 /\ ~(posted' > 0)
  <2>1. 0 > 0 <=> FALSE
    OBVIOUS
  <2>2. QED
    BY Zenon, <2>1
<1>6. Handshake'
  BY Zenon, <1>1, <1>2, <1>4, <1>5 DEF RecvInv, Handshake
<1>7. QED
  BY Zenon, <1>1, <1>2, <1>3, <1>6 DEF RecvInv

(* Every step keeps the handshake, and no read blocks.                     *)
LEMMA RecvStep ==
    ASSUME RecvInv, RecvNext
    PROVE  RecvInv'
<1> USE DEF line_in
<1>0. /\ queued \in Nat /\ arrived \in Nat /\ InBuffCount \in Nat
      /\ InBuffCount <= InBuffSize /\ posted \in 0 .. 1
      /\ posted > 0 => posted - 1 = 0
      /\ posted + 1 > 0
      /\ ~(posted > 0) => posted + 1 \in 0 .. 1
      /\ 1 > 0 /\ 1 \in 0 .. 1 /\ ~(0 > 0)
  BY ReceiverConstants DEF RecvInv, RecvTypeOK
<1>1. CASE CommStart
  <2>1. "look" \in {"none", "look", "post", "wait", "ended"} \ {"post", "wait"}
        /\ "none" # "wait"
    OBVIOUS
  <2>2. QED
    BY Zenon, <1>1, <2>1 DEF CommStart, RecvInv, RecvTypeOK, Handshake
<1>2. CASE CommStartEnds
  BY Zenon, <1>2 DEF CommStartEnds, RecvInv, RecvTypeOK, Handshake
<1>3. CASE ThreadLooks
  <2>1. /\ recvPc = "look" /\ ~RRQ /\ ~(posted > 0)
    <3>1. "look" # "wait"
      OBVIOUS
    <3>2. QED
      BY Zenon, <1>3, <3>1 DEF ThreadLooks, RecvInv, Handshake
  <2>2. /\ recvPc' \in {"ended", "look", "post"}
        /\ recvPc' = "post" => Ready /\ (PortType = "IdNamedPipe" => queued # 0)
    BY Zenon, <1>3 DEF ThreadLooks
  <2>3. queued # 0 => queued > 0
    BY <1>0
  <2>4. recvPc' \in {"none", "look", "post", "wait", "ended"} /\ recvPc' # "wait"
    BY <2>2
  <2>5. noticed' \in BOOLEAN
    BY Zenon, <1>3 DEF ThreadLooks, RecvInv, RecvTypeOK
  <2>6. QED
    BY Zenon, <1>3, <2>1, <2>2, <2>3, <2>4, <2>5
       DEF ThreadLooks, RecvInv, RecvTypeOK, Handshake
<1>4. CASE ThreadPosts
  <2>1. "post" # "wait" /\ "wait" \in {"none", "look", "post", "wait", "ended"}
    OBVIOUS
  <2>2. /\ recvPc = "post" /\ ~RRQ /\ ~(posted > 0) /\ posted' = posted + 1
        /\ recvPc' = "wait" /\ Ready
    BY Zenon, <1>4, <2>1 DEF ThreadPosts, RecvInv, Handshake
  <2>3. ~ReadEnd
    BY Zenon, <2>1, <2>2 DEF RecvInv, Handshake
  <2>4. QED
    BY Zenon, <1>0, <1>4, <2>1, <2>2, <2>3
       DEF ThreadPosts, RecvInv, RecvTypeOK, Handshake
<1>5. CASE ThreadWaits
  <2>1. "look" \in {"none", "look", "post", "wait", "ended"} \ {"post", "wait"}
    OBVIOUS
  <2>2. QED
    BY Zenon, <1>5, <2>1 DEF ThreadWaits, RecvInv, RecvTypeOK, Handshake
<1>6. CASE CommProcRRQ
  <2>1. /\ posted > 0 /\ posted' = 0 /\ CommReceive(Ready \/ RRQ, InBuffCount)
        /\ UNCHANGED << PortType, Ready, recvPc, noticed, arrived >>
    BY Zenon, <1>0, <1>6 DEF CommProcRRQ
  <2>2. /\ recvPc = "wait" /\ ~ReadEnd
        /\ PortType = "IdNamedPipe" => queued > 0
    BY Zenon, <2>1 DEF RecvInv, Handshake
  <2>3. (Ready \/ RRQ) \in BOOLEAN
    BY Zenon
  <2>4. QED
    BY Zenon, <1>0, <2>1, <2>2, <2>3, AfterReceive
<1>7. CASE ParseAndReceive
  <2>1. PICK n \in AtMost(1, InBuffCount) .. InBuffCount :
            CommReceive(RRQ, InBuffCount - n)
    BY Zenon, <1>7 DEF ParseAndReceive
  <2>2. InBuffCount - n \in Nat /\ InBuffCount - n <= InBuffSize
    <3>1. AtMost(1, InBuffCount) \in Nat
      BY <1>0 DEF AtMost
    <3>2. QED
      BY <1>0, <2>1, <3>1, ReceiverConstants
  <2>3. UNCHANGED << PortType, Ready, recvPc, posted, noticed, arrived >>
    BY Zenon, <1>7 DEF ParseAndReceive
  <2>4. /\ RRQ \in BOOLEAN
        /\ PortType = "IdNamedPipe" => (RRQ => queued > 0)
        /\ RRQ => recvPc = "wait" /\ ~ReadEnd
        /\ ~(RRQ /\ posted > 0)
    BY Zenon DEF RecvInv, RecvTypeOK, Handshake
  <2>5. posted > 0 \/ posted = 0
    BY <1>0
  <2>6. QED
    BY Zenon, <2>1, <2>2, <2>3, <2>4, <2>5, AfterReceive
<1>8. CASE Arrive
  <2>1. /\ arrived' \in 0 .. MaxArrived /\ queued' \in 0 .. MaxArrived
        /\ queued' <= arrived' /\ queued' > 0
    BY <1>0, <1>8, ReceiverConstants DEF Arrive, RecvInv
  <2>2. QED
    BY Zenon, <1>8, <2>1 DEF Arrive, RecvInv, RecvTypeOK, Handshake
<1>9. QED
  BY Zenon, <1>1, <1>2, <1>3, <1>4, <1>5, <1>6, <1>7, <1>8 DEF RecvNext, Thread

(* It holds in the beginning.                                              *)
LEMMA RecvInitInv == RecvInit => RecvInv
<1>1. ASSUME RecvInit
      PROVE  /\ posted \in 0 .. 1 /\ ~(posted > 0)
             /\ queued \in 0 .. MaxArrived /\ arrived \in 0 .. MaxArrived
             /\ InBuffCount \in 0 .. InBuffSize /\ queued <= arrived
             /\ recvPc \in {"none", "look", "post", "wait", "ended"}
             /\ recvPc \notin {"post", "wait"}
  BY <1>1, ReceiverConstants DEF RecvInit
<1>2. QED
  BY Zenon, <1>1 DEF RecvInit, RecvInv, RecvTypeOK, Handshake

(* The invariant holds in every state.                                     *)
LEMMA RecvInvariance == RecvSpec => []RecvInv
<1>1. ASSUME RecvInv, UNCHANGED recvVars
      PROVE  RecvInv'
  BY Zenon, <1>1 DEF RecvInv, RecvTypeOK, Handshake, recvVars
<1>2. RecvInv /\ [RecvNext]_recvVars => RecvInv'
  BY Zenon, <1>1, RecvStep
<1>3. QED
  BY RecvInitInv, <1>2, PTL DEF RecvSpec

(* The counters and flags of the way in keep their types: there is never   *)
(* more than one FD_READ on its way.                                       *)
THEOREM RecvTypeCorrect == RecvSpec => []RecvTypeOK
<1>1. RecvInv => RecvTypeOK
  BY Zenon DEF RecvInv
<1>2. QED
  BY RecvInvariance, <1>1, PTL

(* ReadFile on a pipe never blocks the user interface: between the look of *)
(* the receiver thread and the read nobody takes the byte (commlib.c).     *)
THEOREM ReadNeverBlocks == RecvSpec => []NoBlockingRead
<1>1. RecvInv => NoBlockingRead
  BY Zenon DEF RecvInv, NoBlockingRead
<1>2. QED
  BY RecvInvariance, <1>1, PTL
-----------------------------------------------------------------------------
(* LogWriter: the log file.                                                *)

(* A byte of the log, by its number.                                       *)
Logged == 1 .. MaxLogged

(* What has been handed over for writing, and that with the buffer.        *)
Passed == OnDisk \o FlattenSeq(threadQueue)
Content == Passed \o cv_LogBuf

(* The numbers end with n, without a gap.                                  *)
EndsWith(all, n) == \A i \in 1 .. Len(all) : all[i] = n - Len(all) + i

(* Chunks are posted only while there is a thread to write them.           *)
Threaded ==
    /\ threadAlive => DeferredLogWriteMode
    /\ closing = "no" /\ DeferredLogWriteMode => threadAlive
    /\ ~threadAlive => threadQueue = << >>

Ordered ==
    /\ EndsWith(Content, logged)
    /\ Len(files) <= RotateStep => Len(Content) = logged

LogInv ==
    /\ LogTypeOK
    /\ ByteCount + Len(cv_LogBuf) <= logged
    /\ closing # "no" => cv_LogBuf = << >>
    /\ steady => Threaded /\ Ordered

(* The state, as the proofs of the steps use it.                           *)
LEMMA LogFacts ==
    ASSUME LogInv
    PROVE  /\ cv_LogBuf \in Seq(Logged) /\ Len(cv_LogBuf) \in Nat
           /\ Len(cv_LogBuf) <= LogBuffSize
           /\ threadQueue \in Seq(Seq(Logged))
           /\ files \in Seq(Seq(Logged)) /\ Len(files) \in 1 .. RotateStep + 1
           /\ ByteCount \in Nat /\ logged \in Nat /\ logged <= MaxLogged
           /\ ByteCount <= MaxLogged /\ ByteCount + Len(cv_LogBuf) <= logged
           /\ MaxLogged \in Nat /\ RotateStep \in Nat /\ RotateStep > 0
           /\ LogBuffSize \in Nat /\ LogPutMax \in Nat /\ LogFreeSpace \in Nat
           /\ LogPutMax <= LogFreeSpace
           /\ OnDisk \in Seq(Logged) /\ FlattenSeq(threadQueue) \in Seq(Logged)
           /\ Passed \in Seq(Logged) /\ Content \in Seq(Logged)
<1>1. /\ cv_LogBuf \in Seq(Logged) /\ Len(cv_LogBuf) <= LogBuffSize
      /\ threadQueue \in Seq(Seq(Logged))
      /\ files \in Seq(Seq(Logged)) /\ Len(files) \in 1 .. RotateStep + 1
      /\ ByteCount \in 0 .. MaxLogged /\ logged \in 0 .. MaxLogged
      /\ ByteCount + Len(cv_LogBuf) <= logged
  BY Zenon DEF LogInv, LogTypeOK, Logged
<1>2. /\ MaxLogged \in Nat /\ RotateStep \in Nat /\ RotateStep > 0
      /\ LogBuffSize \in Nat /\ LogPutMax \in Nat /\ LogFreeSpace \in Nat
      /\ LogPutMax <= LogFreeSpace
  BY LogConstants
<1>3. FlattenSeq(threadQueue) \in Seq(Logged)
  <2>1. << >> \in Seq(Logged)
    OBVIOUS
  <2>2. QED
    BY <1>1, <2>1, FlattenParts
<1>4. OnDisk \in Seq(Logged)
  <2>1. files # << >> /\ << >> \in Seq(Logged)
    BY <1>1, <1>2
  <2>2. Reverse(files) \in Seq(Seq(Logged))
    BY <1>1, <2>1, ReverseHead
  <2>3. FlattenSeq(Reverse(files)) \in Seq(Logged)
    BY <2>1, <2>2, FlattenParts
  <2>4. QED
    BY Zenon, <2>3 DEF OnDisk
<1>5. Passed \in Seq(Logged)
  BY <1>3, <1>4 DEF Passed
<1>6. Content \in Seq(Logged)
  BY <1>1, <1>5 DEF Content
<1>7. ByteCount \in Nat /\ logged \in Nat /\ logged <= MaxLogged /\ ByteCount <= MaxLogged
      /\ Len(cv_LogBuf) \in Nat
  BY <1>1, <1>2
<1>8. QED
  BY Zenon, <1>1, <1>2, <1>3, <1>4, <1>5, <1>6, <1>7

(* A write appends to what is on disk.                                     *)
LEMMA WriteLemma ==
    ASSUME LogInv, NEW chunk \in Seq(Logged), Write(chunk)
    PROVE  /\ files' \in Seq(Seq(Logged)) /\ Len(files') = Len(files)
           /\ OnDisk' = OnDisk \o chunk
<1>1. files \in Seq(Seq(Logged)) /\ Len(files) \in Nat /\ Len(files) >= 1
  BY LogFacts
<1> DEFINE first == files[1] \o chunk
<1>2. first \in Seq(Logged) /\ files[1] \in Seq(Logged)
  BY <1>1
<1>3. files' = [files EXCEPT ![1] = first]
  BY Zenon DEF Write
<1> HIDE DEF first
<1>4. files' \in Seq(Seq(Logged)) /\ Len(files') = Len(files) /\ files'[1] = first
  BY <1>1, <1>2, <1>3
<1>5. Tail(files') = Tail(files)
  BY <1>1, <1>2, <1>3
<1>6. files # << >> /\ files' # << >>
  BY <1>1, <1>4
<1> DEFINE older == Reverse(Tail(files))
<1>7. /\ older \in Seq(Seq(Logged)) /\ Reverse(files) = Append(older, files[1])
      /\ Reverse(files') = Append(older, first)
  <2>1. older \in Seq(Seq(Logged)) /\ Reverse(files) = Append(older, files[1])
    BY <1>1, <1>6, ReverseHead
  <2>2. Reverse(files') = Append(Reverse(Tail(files')), files'[1])
    BY <1>4, <1>6, ReverseHead
  <2>3. QED
    BY Zenon, <1>4, <1>5, <2>1, <2>2
<1> HIDE DEF older
<1> DEFINE F == FlattenSeq(older)
<1>8. F \in Seq(Logged) /\ OnDisk = F \o files[1] /\ OnDisk' = F \o first
  <2>1. F \in Seq(Logged) /\ FlattenSeq(Append(older, files[1])) = F \o files[1]
    BY <1>2, <1>7, FlattenParts
  <2>2. FlattenSeq(Append(older, first)) = F \o first
    BY <1>2, <1>7, FlattenParts
  <2>3. QED
    BY Zenon, <1>7, <2>1, <2>2 DEF OnDisk
<1> HIDE DEF F
<1>9. (F \o files[1]) \o chunk = F \o (files[1] \o chunk)
  <2>1. ASSUME NEW a \in Seq(Logged), NEW b \in Seq(Logged)
        PROVE  (a \o b) \o chunk = a \o (b \o chunk)
    OBVIOUS
  <2>2. QED
    BY Zenon, <1>2, <1>8, <2>1
<1>10. QED
  BY Zenon, <1>4, <1>8, <1>9 DEF first

(* LogToFile hands the buffer over, behind all that came before.           *)
LEMMA LogToFileLemma ==
    ASSUME LogInv, NEW buf \in Seq(Logged), LogToFile(buf)
    PROVE  /\ files' \in Seq(Seq(Logged)) /\ Len(files') = Len(files)
           /\ threadQueue' \in Seq(Seq(Logged))
           /\ cv_LogBuf' = << >> /\ ByteCount' = ByteCount + Len(buf)
           /\ steady /\ closing = "no" =>
                 /\ Passed' = Passed \o buf
                 /\ ~threadAlive => threadQueue' = << >>
<1>0. cv_LogBuf' = << >> /\ ByteCount' = ByteCount + Len(buf)
  BY Zenon DEF LogToFile
<1>a. /\ OnDisk \in Seq(Logged) /\ FlattenSeq(threadQueue) \in Seq(Logged)
      /\ files \in Seq(Seq(Logged)) /\ threadQueue \in Seq(Seq(Logged))
  BY Zenon, LogFacts
<1>b. \A e \in Seq(Logged) : e \o << >> = e
  OBVIOUS
<1>1. CASE DeferredLogWriteMode /\ threadAlive /\ buf # << >>
  <2>1. threadQueue' = Append(threadQueue, buf) /\ files' = files
    BY Zenon, <1>1 DEF LogToFile
  <2>2. threadQueue' \in Seq(Seq(Logged))
    BY <1>a, <2>1
  <2>3. FlattenSeq(threadQueue') = FlattenSeq(threadQueue) \o buf
    <3>1. FlattenSeq(Append(threadQueue, buf)) = FlattenSeq(threadQueue) \o buf
      BY <1>a, FlattenParts
    <3>2. QED
      BY Zenon, <2>1, <3>1
  <2>4. OnDisk' = OnDisk
    BY Zenon, <2>1 DEF OnDisk
  <2>5. OnDisk \o (FlattenSeq(threadQueue) \o buf) = (OnDisk \o FlattenSeq(threadQueue)) \o buf
    <3>1. ASSUME NEW a \in Seq(Logged), NEW b \in Seq(Logged)
          PROVE  a \o (b \o buf) = (a \o b) \o buf
      OBVIOUS
    <3>2. QED
      BY Zenon, <1>a, <3>1
  <2>6. Passed' = Passed \o buf
    BY Zenon, <2>3, <2>4, <2>5 DEF Passed
  <2>7. QED
    BY Zenon, <1>0, <1>1, <1>a, <2>1, <2>2, <2>6
<1>2. CASE DeferredLogWriteMode /\ ~(threadAlive /\ buf # << >>)
  <2>1. threadQueue' = threadQueue /\ files' = files
    BY Zenon, <1>2 DEF LogToFile
  <2>2. steady /\ closing = "no" => buf = << >> /\ threadAlive
    BY Zenon, <1>2 DEF LogInv, Threaded
  <2>3. Passed' = Passed /\ Passed \in Seq(Logged)
    <3>1. Passed' = Passed
      BY Zenon, <2>1 DEF Passed, OnDisk
    <3>2. QED
      BY Zenon, <3>1, LogFacts
  <2>4. QED
    BY Zenon, <1>0, <1>a, <1>b, <2>1, <2>2, <2>3
<1>3. CASE ~DeferredLogWriteMode
  <2>1. Write(buf) /\ threadQueue' = threadQueue
    BY Zenon, <1>3 DEF LogToFile
  <2>2. /\ files' \in Seq(Seq(Logged)) /\ Len(files') = Len(files)
        /\ OnDisk' = OnDisk \o buf
    BY Zenon, <2>1, WriteLemma
  <2>3. steady => threadQueue = << >>
    BY Zenon, <1>3 DEF LogInv, Threaded
  <2>4. steady => Passed' = Passed \o buf
    <3>1. HAVE steady
    <3>2. FlattenSeq(threadQueue) = << >> /\ FlattenSeq(threadQueue') = << >>
      BY Zenon, <2>1, <2>3, <3>1, FlattenAppend
    <3>3. OnDisk \o buf \in Seq(Logged)
      BY <1>a
    <3>4. QED
      BY Zenon, <1>a, <1>b, <2>2, <3>2, <3>3 DEF Passed
  <2>5. QED
    BY Zenon, <1>0, <1>a, <2>1, <2>2, <2>3, <2>4
<1>4. QED
  BY Zenon, <1>1, <1>2, <1>3

(* New bytes with the next numbers keep the order.                         *)
LEMMA EndsWithMore ==
    ASSUME NEW all \in Seq(Logged), NEW n \in Nat, NEW k \in Nat, EndsWith(all, n),
           NEW new \in Seq(Logged), new = [i \in 1 .. k |-> n + i]
    PROVE  /\ EndsWith(all \o new, n + k)
           /\ Len(all \o new) = Len(all) + k
<1> DEFINE r == all \o new
           m == Len(all)
<1>1. Len(new) = k /\ \A i \in 1 .. k : new[i] = n + i
  OBVIOUS
<1>2. /\ m \in Nat /\ Len(r) = m + k
      /\ \A i \in 1 .. m : r[i] = all[i]
      /\ \A i \in 1 .. k : r[m + i] = new[i]
  BY <1>1
<1>3. \A i \in 1 .. m : all[i] = n - m + i
  BY Zenon DEF EndsWith
<1> HIDE DEF r, m
<1>4. ASSUME NEW i \in 1 .. Len(r)
      PROVE  r[i] = (n + k) - Len(r) + i
  <2>1. CASE i <= m
    <3>1. i \in 1 .. m /\ (n + k) - (m + k) + i = n - m + i
      BY <1>2, <2>1
    <3>2. QED
      BY Zenon, <1>2, <1>3, <3>1
  <2>2. CASE i > m
    <3> DEFINE j == i - m
    <3>1. j \in 1 .. k /\ i = m + j /\ (n + k) - (m + k) + i = n + j
      BY <1>2, <2>2
    <3> HIDE DEF j
    <3>2. r[m + j] = n + j
      BY Zenon, <1>1, <1>2, <3>1
    <3>3. QED
      BY Zenon, <1>2, <3>1, <3>2
  <2>3. QED
    BY <1>2, <2>1, <2>2
<1>5. EndsWith(r, n + k)
  BY Zenon, <1>4 DEF EndsWith
<1>6. QED
  BY Zenon, <1>2, <1>5 DEF r, m

(* The end of what is in order is in order.                                *)
LEMMA EndsWithRest ==
    ASSUME NEW a \in Seq(Logged), NEW b \in Seq(Logged), NEW n \in Nat,
           EndsWith(a \o b, n)
    PROVE  EndsWith(b, n)
<1> DEFINE r == a \o b
<1>1. /\ Len(r) = Len(a) + Len(b)
      /\ \A i \in 1 .. Len(b) : r[Len(a) + i] = b[i]
  OBVIOUS
<1>2. \A i \in 1 .. Len(r) : r[i] = n - Len(r) + i
  BY Zenon DEF EndsWith
<1> HIDE DEF r
<1>3. ASSUME NEW i \in 1 .. Len(b)
      PROVE  b[i] = n - Len(b) + i
  <2>1. /\ Len(a) + i \in 1 .. Len(r)
        /\ n - Len(r) + (Len(a) + i) = n - Len(b) + i
    BY <1>1
  <2>2. QED
    BY Zenon, <1>1, <1>2, <2>1
<1>4. QED
  BY Zenon, <1>3 DEF EndsWith

(* A character or a time stamp: there is room for it.                      *)
LEMMA Put1Lemma ==
    ASSUME LogInv, NEW n \in 1 .. LogPutMax, logged + n <= MaxLogged,
           LogBuffSize - Len(cv_LogBuf) >= LogFreeSpace
    PROVE  LET new == [i \in 1 .. n |-> logged + i]
           IN  /\ n \in Nat /\ new \in Seq(Logged) /\ Len(new) = n
               /\ Put1(n) = cv_LogBuf \o new /\ Put1(n) \in Seq(Logged)
               /\ Len(Put1(n)) = Len(cv_LogBuf) + n /\ Len(Put1(n)) <= LogBuffSize
<1> DEFINE new == [i \in 1 .. n |-> logged + i]
           all == cv_LogBuf \o new
<1>1. n \in Nat /\ n <= LogPutMax
  <2>1. LogPutMax \in Nat
    BY Zenon, LogFacts
  <2>2. QED
    BY <2>1
<1>2. new \in Seq(Logged) /\ Len(new) = n
  <2>1. logged \in Nat /\ MaxLogged \in Nat
    BY LogFacts
  <2>2. \A i \in 1 .. n : logged + i \in Logged
    BY <1>1, <2>1 DEF Logged
  <2> HIDE DEF Logged
  <2>3. QED
    BY <1>1, <2>2
<1> HIDE DEF new
<1>3. all \in Seq(Logged) /\ Len(all) = Len(cv_LogBuf) + n
  <2>1. cv_LogBuf \in Seq(Logged)
    BY LogFacts
  <2>2. QED
    BY <1>2, <2>1
<1> HIDE DEF all
<1>4. ~(Len(all) - LogBuffSize > 0) /\ Len(all) <= LogBuffSize
  <2>1. /\ Len(cv_LogBuf) \in Nat /\ LogBuffSize \in Nat /\ LogPutMax \in Nat
        /\ LogFreeSpace \in Nat /\ LogPutMax <= LogFreeSpace
    BY Zenon, LogFacts
  <2>2. QED
    BY <1>1, <1>3, <2>1
<1>5. Put1(n) = all
  BY Zenon, <1>4 DEF Put1, all, new
<1>6. QED
  BY Zenon, <1>1, <1>2, <1>3, <1>4, <1>5 DEF all, new

(* buf may be handed over when n bytes have been put: nothing is missing   *)
(* that was not missing before.                                            *)
Follows(buf, n) ==
    /\ EndsWith(Passed \o buf, n)
    /\ Len(Content) = logged => Len(Passed \o buf) = n

(* With it, what has been put is still in order.                           *)
LEMMA PutOrdered ==
    ASSUME LogInv, steady, NEW n \in 1 .. LogPutMax, logged + n <= MaxLogged,
           LogBuffSize - Len(cv_LogBuf) >= LogFreeSpace
    PROVE  Follows(Put1(n), logged + n)
<1> DEFINE new == [i \in 1 .. n |-> logged + i]
<1>1. /\ n \in Nat /\ new \in Seq(Logged) /\ Put1(n) = cv_LogBuf \o new
  BY Zenon, Put1Lemma
<1>2. /\ Passed \in Seq(Logged) /\ cv_LogBuf \in Seq(Logged) /\ Content \in Seq(Logged)
      /\ logged \in Nat
  BY Zenon, LogFacts
<1>3. EndsWith(Content, logged)
  BY Zenon DEF LogInv, Ordered
<1>4. EndsWith(Content \o new, logged + n) /\ Len(Content \o new) = Len(Content) + n
  <2>1. PICK all : all = Content
    OBVIOUS
  <2>2. PICK k : k = logged
    OBVIOUS
  <2>3. all \in Seq(Logged) /\ k \in Nat /\ EndsWith(all, k)
    BY Zenon, <1>2, <1>3, <2>1, <2>2
  <2>4. new = [i \in 1 .. n |-> k + i]
    BY Zenon, <2>2
  <2> HIDE DEF new
  <2>5. EndsWith(all \o new, k + n) /\ Len(all \o new) = Len(all) + n
    BY ZenonT(30), <1>1, <2>3, <2>4, EndsWithMore
  <2>6. QED
    BY Zenon, <2>1, <2>2, <2>5
<1> HIDE DEF new
<1>5. Passed \o Put1(n) = Content \o new
  <2>1. ASSUME NEW a \in Seq(Logged), NEW b \in Seq(Logged), NEW c \in Seq(Logged)
        PROVE  a \o (b \o c) = (a \o b) \o c
    OBVIOUS
  <2>2. Passed \o (cv_LogBuf \o new) = (Passed \o cv_LogBuf) \o new
    BY Zenon, <1>1, <1>2, <2>1
  <2>3. QED
    BY Zenon, <1>1, <2>2 DEF Content
<1>6. QED
  BY Zenon, <1>4, <1>5 DEF Follows

(* A character of the session goes into the buffer.                        *)
LEMMA FLogPutStep ==
    ASSUME LogInv, FLogPut
    PROVE  LogInv'
<1>1. PICK n \in 1 .. LogPutMax :
         /\ logged + n <= MaxLogged /\ logged' = logged + n /\ cv_LogBuf' = Put1(n)
  BY Zenon DEF FLogPut
<1>2. /\ closing = "no" /\ LogBuffSize - Len(cv_LogBuf) >= LogFreeSpace
      /\ DeferredLogWriteMode' = DeferredLogWriteMode /\ RotateMode' = RotateMode
      /\ IsPause' = IsPause /\ threadAlive' = threadAlive /\ steady' = steady
      /\ ByteCount' = ByteCount /\ threadQueue' = threadQueue /\ closing' = closing
      /\ files' = files
  BY Zenon DEF FLogPut, LogVars
<1>3. /\ n \in Nat /\ cv_LogBuf' \in Seq(Logged)
      /\ Len(cv_LogBuf') = Len(cv_LogBuf) + n /\ Len(cv_LogBuf') <= LogBuffSize
  BY Zenon, <1>1, <1>2, Put1Lemma
<1>4. logged' \in 0 .. MaxLogged /\ ByteCount' + Len(cv_LogBuf') <= logged'
  <2>1. /\ logged \in Nat /\ MaxLogged \in Nat /\ ByteCount \in Nat
        /\ Len(cv_LogBuf) \in Nat /\ ByteCount + Len(cv_LogBuf) <= logged
    BY Zenon, LogFacts
  <2>2. QED
    BY <1>1, <1>2, <1>3, <2>1
<1>5. LogTypeOK'
  BY Zenon, <1>2, <1>3, <1>4 DEF LogInv, LogTypeOK, Logged
<1>6. steady => Ordered'
  <2>1. HAVE steady
  <2>2. Passed' = Passed
    BY Zenon, <1>2 DEF Passed, OnDisk
  <2>3. Content' = Passed \o Put1(n)
    BY Zenon, <1>1, <2>2 DEF Content
  <2>4. Follows(Put1(n), logged + n)
    BY Zenon, <1>1, <1>2, <2>1, PutOrdered
  <2>5. Ordered
    BY Zenon, <2>1 DEF LogInv
  <2>6. QED
    BY Zenon, <1>1, <1>2, <2>3, <2>4, <2>5 DEF Ordered, EndsWith, Follows
<1>7. QED
  BY Zenon, <1>2, <1>4, <1>5, <1>6 DEF LogInv, Threaded

(* What the next proof uses of sequences and of sums.                      *)
LEMMA LoggedFacts ==
    /\ << >> \in Seq(Logged) /\ Len(<< >>) = 0
    /\ \A e \in Seq(Logged) : e \o << >> = e /\ Len(e) \in Nat
    /\ \A a, b \in Seq(Logged) : a \o b \in Seq(Logged)
    /\ \A n \in Nat : 0 <= n
OBVIOUS

(* The sums: what is handed over has been counted.                         *)
LEMMA HandOverSums ==
    ASSUME NEW had \in Nat, NEW size \in Nat, NEW count \in Nat, NEW old \in Nat,
           NEW new \in Nat, NEW most \in Nat, new <= most,
           size - had = new - old, count + had <= old
    PROVE  count + size \in 0 .. most /\ (count + size) + 0 <= new /\ new \in 0 .. most
OBVIOUS

(* The buffer, with what came last, is handed over; the log may be closed. *)
LEMMA HandOverStep ==
    ASSUME LogInv, closing = "no", NEW buf \in Seq(Logged), LogToFile(buf),
           UNCHANGED LogVars, closing' \in {"no", "rotate", "rotate, end", "end"},
           logged' \in Nat, logged' <= MaxLogged,
           Len(buf) - Len(cv_LogBuf) = logged' - logged,
           steady => Follows(buf, logged')
    PROVE  LogInv'
<1>1. /\ DeferredLogWriteMode' = DeferredLogWriteMode /\ RotateMode' = RotateMode
      /\ IsPause' = IsPause /\ threadAlive' = threadAlive /\ steady' = steady
  BY Zenon DEF LogVars
<1>2. /\ files' \in Seq(Seq(Logged)) /\ Len(files') = Len(files)
      /\ threadQueue' \in Seq(Seq(Logged))
      /\ cv_LogBuf' = << >> /\ ByteCount' = ByteCount + Len(buf)
      /\ steady => Passed' = Passed \o buf /\ (~threadAlive => threadQueue' = << >>)
  BY Zenon, LogToFileLemma
<1>3. /\ logged' \in 0 .. MaxLogged /\ ByteCount' \in 0 .. MaxLogged
      /\ ByteCount' + Len(cv_LogBuf') <= logged'
      /\ cv_LogBuf' \in Seq(Logged) /\ Len(cv_LogBuf') <= LogBuffSize
  <2>1. /\ logged \in Nat /\ MaxLogged \in Nat /\ ByteCount \in Nat /\ LogBuffSize \in Nat
        /\ Len(cv_LogBuf) \in Nat /\ ByteCount + Len(cv_LogBuf) <= logged
    BY Zenon, LogFacts
  <2>2. Len(buf) \in Nat /\ Len(<< >>) = 0 /\ << >> \in Seq(Logged)
    BY Zenon, LoggedFacts
  <2>3. Len(cv_LogBuf') = 0 /\ cv_LogBuf' \in Seq(Logged)
    BY Zenon, <1>2, <2>2
  <2>4. /\ ByteCount + Len(buf) \in 0 .. MaxLogged
        /\ ByteCount + Len(buf) + 0 <= logged'
        /\ logged' \in 0 .. MaxLogged
    BY <2>1, <2>2, HandOverSums
  <2>6. 0 <= LogBuffSize
    BY Zenon, <2>1, LoggedFacts
  <2>5. QED
    BY Zenon, <1>2, <2>3, <2>4, <2>6
<1>4. LogTypeOK'
  BY Zenon, <1>1, <1>2, <1>3 DEF LogInv, LogTypeOK, Logged
<1>5. steady => Threaded'
  BY Zenon, <1>1, <1>2 DEF LogInv, Threaded
<1>6. steady => Ordered'
  <2>1. HAVE steady
  <2>2. Passed \in Seq(Logged) /\ Passed \o buf \in Seq(Logged)
    BY Zenon, LogFacts, LoggedFacts
  <2>3. \A e \in Seq(Logged) : e \o << >> = e
    BY Zenon, LoggedFacts
  <2>4. Content' = Passed \o buf
    BY Zenon, <1>2, <2>1, <2>2, <2>3 DEF Content
  <2>5. Ordered
    BY Zenon, <2>1 DEF LogInv
  <2>6. QED
    BY Zenon, <1>2, <2>1, <2>4, <2>5 DEF Ordered, EndsWith, Follows
<1>7. QED
  BY Zenon, <1>1, <1>2, <1>3, <1>4, <1>5, <1>6 DEF LogInv

(* What the user interface thread hands over.                              *)
LEMMA FLogStep ==
    ASSUME LogInv, FLogWriteStr \/ FLogWriteFile \/ FLogClose
    PROVE  LogInv'
<1>0. /\ cv_LogBuf \in Seq(Logged) /\ logged \in Nat /\ logged <= MaxLogged
      /\ MaxLogged \in Nat /\ Len(cv_LogBuf) \in Nat
  BY Zenon, LogFacts
<1>a. steady => Follows(cv_LogBuf, logged)
  BY Zenon DEF LogInv, Ordered, Content, Follows
<1>b. Len(cv_LogBuf) - Len(cv_LogBuf) = logged - logged
  BY <1>0
<1>1. CASE FLogWriteStr
  <2>1. PICK n \in 1 .. LogPutMax :
           /\ logged + n <= MaxLogged /\ logged' = logged + n
           /\ LogToFile(Put1(n)) /\ LogRotate
    BY Zenon, <1>1 DEF FLogWriteStr
  <2>2. closing = "no" /\ LogBuffSize - Len(cv_LogBuf) >= LogFreeSpace /\ UNCHANGED LogVars
    BY Zenon, <1>1 DEF FLogWriteStr
  <2>3. /\ n \in Nat /\ Put1(n) \in Seq(Logged) /\ Len(Put1(n)) = Len(cv_LogBuf) + n
    BY Zenon, <2>1, <2>2, Put1Lemma
  <2>4. closing' \in {"no", "rotate", "rotate, end", "end"}
    BY Zenon, <2>1, <2>2 DEF LogRotate, CloseFileSync
  <2>5. /\ logged' \in Nat /\ logged' <= MaxLogged
        /\ Len(Put1(n)) - Len(cv_LogBuf) = logged' - logged
    BY <1>0, <2>1, <2>3
  <2>6. steady => Follows(Put1(n), logged')
    BY Zenon, <2>1, <2>2, PutOrdered
  <2>7. QED
    BY Zenon, <2>1, <2>2, <2>3, <2>4, <2>5, <2>6, HandOverStep
<1>2. CASE FLogWriteFile
  <2>1. closing = "no" /\ LogToFile(cv_LogBuf) /\ UNCHANGED LogVars /\ logged' = logged
    BY Zenon, <1>2 DEF FLogWriteFile
  <2>2. closing' \in {"no", "rotate", "rotate, end", "end"}
    BY Zenon, <1>2, <2>1 DEF FLogWriteFile, LogRotate, CloseFileSync
  <2>3. QED
    BY Zenon, <1>0, <1>a, <1>b, <2>1, <2>2, HandOverStep
<1>3. CASE FLogClose
  <2>1. closing = "no" /\ LogToFile(cv_LogBuf) /\ UNCHANGED LogVars /\ logged' = logged
    BY Zenon, <1>3 DEF FLogClose
  <2>2. closing' \in {"no", "rotate", "rotate, end", "end"}
    BY Zenon, <1>3 DEF FLogClose, CloseFileSync
  <2>3. QED
    BY Zenon, <1>0, <1>a, <1>b, <2>1, <2>2, HandOverStep
<1>4. QED
  BY Zenon, <1>1, <1>2, <1>3

(* The thread writes the oldest chunk, or ends.                            *)
LEMMA ThreadStep ==
    ASSUME LogInv, DeferredWrite \/ DeferredEnd
    PROVE  LogInv'
<1>1. CASE DeferredWrite
  <2>1. /\ threadAlive /\ threadQueue # << >>
        /\ Write(Head(threadQueue)) /\ threadQueue' = Tail(threadQueue)
        /\ DeferredLogWriteMode' = DeferredLogWriteMode /\ RotateMode' = RotateMode
        /\ IsPause' = IsPause /\ threadAlive' = threadAlive /\ steady' = steady
        /\ cv_LogBuf' = cv_LogBuf /\ ByteCount' = ByteCount /\ closing' = closing
        /\ logged' = logged
    BY Zenon, <1>1 DEF DeferredWrite, LogVars
  <2>2. threadQueue \in Seq(Seq(Logged)) /\ OnDisk \in Seq(Logged)
    BY Zenon, LogFacts
  <2> DEFINE first == Head(threadQueue)
             rest == Tail(threadQueue)
  <2>3. /\ first \in Seq(Logged) /\ rest \in Seq(Seq(Logged))
        /\ threadQueue = << first >> \o rest
    BY <2>1, <2>2
  <2> HIDE DEF first, rest
  <2>4. /\ files' \in Seq(Seq(Logged)) /\ Len(files') = Len(files)
        /\ OnDisk' = OnDisk \o first
    BY Zenon, <2>1, <2>3, WriteLemma DEF first
  <2>5. /\ FlattenSeq(rest) \in Seq(Logged)
        /\ FlattenSeq(<< first >> \o rest) = first \o FlattenSeq(rest)
    BY <2>3, FlattenParts
  <2>6. \A a, b, c \in Seq(Logged) : (a \o b) \o c = a \o (b \o c)
    OBVIOUS
  <2>7. (OnDisk \o first) \o FlattenSeq(rest) = OnDisk \o (first \o FlattenSeq(rest))
    BY Zenon, <2>2, <2>3, <2>5, <2>6
  <2>8. Passed' = Passed
    BY Zenon, <2>1, <2>3, <2>4, <2>5, <2>7 DEF Passed, rest
  <2>9. LogTypeOK'
    BY Zenon, <2>1, <2>3, <2>4 DEF LogInv, LogTypeOK, Logged, rest
  <2>10. QED
    BY Zenon, <2>1, <2>4, <2>8, <2>9 DEF LogInv, Threaded, Ordered, EndsWith, Content
<1>2. CASE DeferredEnd
  <2>1. /\ threadAlive /\ threadQueue = << >> /\ closing # "no" /\ threadAlive' = FALSE
        /\ DeferredLogWriteMode' = DeferredLogWriteMode /\ RotateMode' = RotateMode
        /\ IsPause' = IsPause /\ threadQueue' = threadQueue /\ steady' = steady
        /\ cv_LogBuf' = cv_LogBuf /\ ByteCount' = ByteCount /\ closing' = closing
        /\ logged' = logged /\ files' = files
    BY Zenon, <1>2 DEF DeferredEnd
  <2>2. {DeferredLogWriteMode', RotateMode', IsPause', threadAlive', steady'} \subseteq BOOLEAN
    BY Zenon, <2>1 DEF LogInv, LogTypeOK
  <2>3. LogTypeOK'
    BY Zenon, <2>1, <2>2 DEF LogInv, LogTypeOK
  <2>4. QED
    BY Zenon, <2>1, <2>3
       DEF LogInv, Threaded, Ordered, EndsWith, Content, Passed, OnDisk
<1>3. QED
  BY Zenon, <1>1, <1>2

(* The files get their next numbers; the oldest one may go.                *)
LEMMA RotatedStep ==
    ASSUME LogInv, Rotated
    PROVE  LogInv'
<1>1. /\ closing \in {"rotate", "rotate, end"} /\ ~threadAlive
      /\ files' = << << >> >> \o SubSeq(files, 1, Lesser(Len(files), RotateStep))
      /\ ByteCount' = 0 /\ threadAlive' = DeferredLogWriteMode
      /\ closing' = IF closing = "rotate" THEN "no" ELSE "end"
      /\ DeferredLogWriteMode' = DeferredLogWriteMode /\ RotateMode' = RotateMode
      /\ IsPause' = IsPause /\ steady' = steady /\ cv_LogBuf' = cv_LogBuf
      /\ threadQueue' = threadQueue /\ logged' = logged
  BY Zenon DEF Rotated
<1>2. cv_LogBuf = << >>
  BY Zenon, <1>1 DEF LogInv
<1>3. /\ files \in Seq(Seq(Logged)) /\ Len(files) \in 1 .. RotateStep + 1
      /\ RotateStep \in Nat /\ RotateStep > 0 /\ logged \in Nat /\ OnDisk \in Seq(Logged)
      /\ MaxLogged \in Nat
  BY Zenon, LogFacts
<1> DEFINE k == Lesser(Len(files), RotateStep)
           kept == SubSeq(files, 1, k)
<1>4. /\ k \in Nat /\ k >= 1 /\ k <= RotateStep /\ k <= Len(files)
      /\ Len(files) <= RotateStep => k = Len(files)
      /\ ~(Len(files) <= RotateStep) => Len(files) = k + 1 /\ k + 1 = RotateStep + 1
  BY <1>3 DEF Lesser
<1> HIDE DEF k
<1>5. kept \in Seq(Seq(Logged)) /\ Len(kept) = k
  BY <1>3, <1>4
<1>6. k = Len(files) => kept = files
  BY <1>3
<1> HIDE DEF kept
<1>7. /\ files' = << << >> >> \o kept /\ files' \in Seq(Seq(Logged))
      /\ Len(files') = k + 1 /\ files' # << >> /\ Tail(files') = kept /\ files'[1] = << >>
  <2>1. files' = << << >> >> \o kept
    BY Zenon, <1>1 DEF kept, k
  <2>2. << >> \in Seq(Logged)
    OBVIOUS
  <2>3. QED
    BY <1>5, <2>1, <2>2
<1>8. Len(files') \in 1 .. RotateStep + 1
  BY <1>3, <1>4, <1>7
<1>9. OnDisk' = FlattenSeq(Reverse(kept)) /\ FlattenSeq(Reverse(kept)) \in Seq(Logged)
  <2>1. /\ Reverse(kept) \in Seq(Seq(Logged))
        /\ Reverse(files') = Append(Reverse(kept), << >>)
    <3>1. /\ Reverse(Tail(files')) \in Seq(Seq(Logged))
          /\ Reverse(files') = Append(Reverse(Tail(files')), files'[1])
      BY <1>7, ReverseHead
    <3>2. QED
      BY Zenon, <1>7, <3>1
  <2>2. << >> \in Seq(Logged)
    OBVIOUS
  <2>3. /\ FlattenSeq(Reverse(kept)) \in Seq(Logged)
        /\ FlattenSeq(Append(Reverse(kept), << >>)) = FlattenSeq(Reverse(kept)) \o << >>
    BY <2>1, <2>2, FlattenParts
  <2>4. \A e \in Seq(Logged) : e \o << >> = e
    OBVIOUS
  <2>5. QED
    BY Zenon, <2>1, <2>3, <2>4 DEF OnDisk
<1>10. Len(files) <= RotateStep => OnDisk' = OnDisk
  BY Zenon, <1>4, <1>6, <1>9 DEF OnDisk
<1>11. LogTypeOK'
  <2>1. {DeferredLogWriteMode', RotateMode', IsPause', threadAlive', steady'} \subseteq BOOLEAN
    BY Zenon, <1>1 DEF LogInv, LogTypeOK
  <2>2. 0 \in 0 .. MaxLogged
    BY <1>3
  <2>3. closing' \in {"no", "rotate", "rotate, end", "end"}
    BY Zenon, <1>1
  <2>4. QED
    BY Zenon, <1>1, <1>7, <1>8, <2>1, <2>2, <2>3 DEF LogInv, LogTypeOK, Logged
<1>12. ByteCount' + Len(cv_LogBuf') <= logged'
  <2>1. Len(<< >>) = 0 /\ 0 + 0 <= logged
    BY <1>3
  <2>2. QED
    BY Zenon, <1>1, <1>2, <2>1
<1>13. steady => Threaded'
  BY Zenon, <1>1 DEF LogInv, Threaded
<1>14. steady => Ordered'
  <2>1. HAVE steady
  <2>2. threadQueue = << >>
    BY Zenon, <1>1, <2>1 DEF LogInv, Threaded
  <2>3. FlattenSeq(<< >>) = << >>
    BY Zenon, FlattenAppend
  <2>4. \A e \in Seq(Logged) : e \o << >> = e
    OBVIOUS
  <2>5. Content = OnDisk /\ Content' = OnDisk'
    BY Zenon, <1>1, <1>2, <1>3, <1>9, <2>2, <2>3, <2>4 DEF Content, Passed
  <2>6. EndsWith(OnDisk, logged) /\ (Len(files) <= RotateStep => Len(OnDisk) = logged)
    BY Zenon, <2>1, <2>5 DEF LogInv, Ordered
  <2>7. CASE Len(files) <= RotateStep
    <3>1. OnDisk' = OnDisk
      BY Zenon, <1>10, <2>7
    <3>2. QED
      BY Zenon, <1>1, <2>5, <2>6, <2>7, <3>1 DEF Ordered, EndsWith
  <2>8. CASE ~(Len(files) <= RotateStep)
    <3>1. files = Append(kept, files[k + 1]) /\ files[k + 1] \in Seq(Logged)
      BY <1>3, <1>4, <2>8, LastSplit DEF kept
    <3>2. /\ Reverse(kept) \in Seq(Seq(Logged))
          /\ Reverse(Append(kept, files[k + 1])) = << files[k + 1] >> \o Reverse(kept)
      BY <1>5, <3>1, ReverseLast
    <3>3. OnDisk = files[k + 1] \o FlattenSeq(Reverse(kept))
      <4>1. FlattenSeq(<< files[k + 1] >> \o Reverse(kept))
               = files[k + 1] \o FlattenSeq(Reverse(kept))
        BY <3>1, <3>2, FlattenParts
      <4>2. QED
        BY Zenon, <3>1, <3>2, <4>1 DEF OnDisk
    <3>4. EndsWith(FlattenSeq(Reverse(kept)), logged)
      <4>1. EndsWith(files[k + 1] \o FlattenSeq(Reverse(kept)), logged)
        BY Zenon, <2>6, <3>3
      <4>2. QED
        BY <1>3, <1>9, <3>1, <4>1, EndsWithRest
    <3>5. ~(Len(files') <= RotateStep)
      BY <1>3, <1>4, <1>7, <2>8
    <3>6. QED
      BY Zenon, <1>1, <1>9, <2>5, <3>4, <3>5 DEF Ordered, EndsWith
  <2>9. QED
    BY Zenon, <2>7, <2>8
<1>15. QED
  BY Zenon, <1>1, <1>2, <1>11, <1>12, <1>13, <1>14 DEF LogInv

(* A pause, and the settings read again.                                   *)
LEMMA LogQuietStep ==
    ASSUME LogInv, FLogPause \/ DeferredSwitches \/ UNCHANGED logVars
    PROVE  LogInv'
<1>0. {DeferredLogWriteMode, RotateMode, IsPause, threadAlive, steady} \subseteq BOOLEAN
  BY Zenon DEF LogInv, LogTypeOK
<1>1. /\ cv_LogBuf' = cv_LogBuf /\ RotateMode' = RotateMode /\ ByteCount' = ByteCount
      /\ threadAlive' = threadAlive /\ threadQueue' = threadQueue /\ closing' = closing
      /\ files' = files /\ logged' = logged
      /\ IsPause' \in BOOLEAN /\ DeferredLogWriteMode' \in BOOLEAN
      /\ steady' = FALSE \/ (steady' = steady /\ DeferredLogWriteMode' = DeferredLogWriteMode)
  BY Zenon, <1>0 DEF FLogPause, DeferredSwitches, logVars
<1>2. {DeferredLogWriteMode', RotateMode', IsPause', threadAlive', steady'} \subseteq BOOLEAN
  BY Zenon, <1>0, <1>1
<1>3. LogTypeOK'
  BY Zenon, <1>1, <1>2 DEF LogInv, LogTypeOK
<1>4. CASE steady' = FALSE
  BY Zenon, <1>1, <1>3, <1>4 DEF LogInv
<1>5. CASE steady' = steady /\ DeferredLogWriteMode' = DeferredLogWriteMode
  BY Zenon, <1>1, <1>3, <1>5
     DEF LogInv, Threaded, Ordered, EndsWith, Content, Passed, OnDisk
<1>6. QED
  BY Zenon, <1>1, <1>4, <1>5

(* The log as it is opened.                                                *)
LEMMA LogInitInv ==
    ASSUME LogStart
    PROVE  LogInv
<1>1. /\ cv_LogBuf = << >> /\ ByteCount = 0 /\ files = << << >> >>
      /\ DeferredLogWriteMode \in BOOLEAN /\ threadAlive = DeferredLogWriteMode
      /\ RotateMode \in BOOLEAN /\ IsPause = FALSE
      /\ threadQueue = << >> /\ closing = "no" /\ logged = 0 /\ steady = TRUE
  BY Zenon DEF LogStart
<1>2. /\ MaxLogged \in Nat /\ RotateStep \in Nat /\ LogBuffSize \in Nat
  BY LogConstants
<1>3. /\ << >> \in Seq(Logged) /\ << >> \in Seq(Seq(Logged)) /\ Len(<< >>) = 0
      /\ << << >> >> \in Seq(Seq(Logged)) /\ Len(<< << >> >>) \in 1 .. RotateStep + 1
      /\ 0 \in 0 .. MaxLogged /\ 0 <= LogBuffSize /\ 0 + 0 <= 0
  BY <1>2
<1>4. {DeferredLogWriteMode, RotateMode, IsPause, threadAlive, steady} \subseteq BOOLEAN
  BY Zenon, <1>1
<1>5. LogTypeOK
  BY Zenon, <1>1, <1>3, <1>4 DEF LogTypeOK, Logged
<1>6. Threaded
  BY Zenon, <1>1 DEF Threaded
<1>7. Ordered
  <2>1. Reverse(<< << >> >>) = << << >> >>
    BY DEF Reverse
  <2>2. << >> \o << >> = << >> /\ \A i \in 1 .. 0 : FALSE
    OBVIOUS
  <2>3. Content = << >>
    BY Zenon, <1>1, <2>1, <2>2, FlattenAppend DEF Content, Passed, OnDisk
  <2>4. QED
    BY Zenon, <1>1, <1>3, <2>2, <2>3 DEF Ordered, EndsWith
<1>8. QED
  BY Zenon, <1>1, <1>3, <1>5, <1>6, <1>7 DEF LogInv

(* The invariant of the log holds in every state.                          *)
LEMMA LogInvariance == LogSpec => []LogInv
<1>1. LogStart => LogInv
  BY LogInitInv
<1>2. LogInv /\ [LogNext]_logVars => LogInv'
  BY Zenon, FLogPutStep, FLogStep, ThreadStep, RotatedStep, LogQuietStep DEF LogNext
<1>3. QED
  BY <1>1, <1>2, PTL DEF LogSpec

(* The buffer, the queue of the thread and the files (filesys_log.cpp)     *)
(* keep to their bounds.                                                   *)
THEOREM LogTypeCorrect == LogSpec => []LogTypeOK
<1>1. LogInv => LogTypeOK
  BY Zenon DEF LogInv
<1>2. QED
  BY <1>1, LogInvariance, PTL

(* The log is written in order and without a gap, through the buffer, the  *)
(* thread, the rotation and the close, for every size of the buffer, limit *)
(* of the file and number of generations (LogToFile, LogRotate,            *)
(* CloseFileSync).                                                         *)
THEOREM LogIsInOrder == LogSpec => []LogInOrder
<1>1. LogInv => LogInOrder
  <2>1. SUFFICES ASSUME LogInv, steady PROVE LogInOrder
    BY Zenon DEF LogInOrder
  <2>2. Ordered /\ Threaded /\ (closing # "no" => cv_LogBuf = << >>)
    BY Zenon, <2>1 DEF LogInv
  <2>3. closing = "end" /\ ~threadAlive => Len(OnDisk) = Len(Content)
    <3>1. HAVE closing = "end" /\ ~threadAlive
    <3>2. cv_LogBuf = << >> /\ threadQueue = << >> /\ FlattenSeq(<< >>) = << >>
      BY Zenon, <2>2, <3>1, FlattenAppend DEF Threaded
    <3>3. \A e \in Seq(Logged) : e \o << >> = e
      OBVIOUS
    <3>4. OnDisk \in Seq(Logged)
      BY Zenon, <2>1, LogFacts
    <3>5. QED
      BY Zenon, <3>2, <3>3, <3>4 DEF Content, Passed
  <2>4. QED
    BY Zenon, <2>2, <2>3 DEF LogInOrder, Ordered, EndsWith, Content, Passed
<1>2. QED
  BY <1>1, LogInvariance, PTL
=============================================================================
