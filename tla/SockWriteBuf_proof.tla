------------------------ MODULE SockWriteBuf_proof ------------------------
(***************************************************************************)
(* Proofs about SockWriteBuf, for every size of the ring.  The heart of    *)
(* them is what the ring holds: the bytes of the stream behind those the   *)
(* socket has taken, wherever they lie in the array.                       *)
(***************************************************************************)
EXTENDS SockWriteBuf, TLAPS

(* A ring whose fields fit together.                                       *)
RingOK(r) ==
    /\ r = [data |-> r.data, size |-> r.size, start |-> r.start, len |-> r.len]
    /\ r.size \in Nat /\ r.len \in Nat /\ r.start \in Nat
    /\ r.size <= WriteBufferSize /\ r.len <= r.size
    /\ IF r.size = 0 THEN r.start = 0 ELSE r.start < r.size
    /\ r.data \in [0 .. r.size - 1 -> Nat]

(* It holds the bytes of the stream from number k + 1 on.                  *)
Holds(r, k) ==
    \A i \in Nat : i < r.len => r.data[(r.start + i) % r.size] = k + 1 + i

(* out is the stream from number k + 1 on.                                 *)
InOrder(out, k) ==
    /\ out \in Seq(Nat)
    /\ \A i \in 1 .. Len(out) : out[i] = k + i
-----------------------------------------------------------------------------
(* Arithmetic.                                                             *)

(* A place that is past the end by less than a round is at the front.      *)
LEMMA ModLemma ==
    ASSUME NEW s \in Nat, s > 0, NEW a \in Nat, a < 2 * s
    PROVE  /\ a < s => a % s = a
           /\ a >= s => a % s = a - s
           /\ a % s \in Nat /\ a % s < s
<1>1. a < s => a % s = a
  OBVIOUS
<1>2. a >= s => a % s = a - s
  OBVIOUS
<1>3. QED
  BY <1>1, <1>2

(* The numbers of a ring, without its record and its array.                *)
LEMMA RingNumbers ==
    ASSUME NEW r, RingOK(r)
    PROVE  /\ r.size \in Nat /\ r.len \in Nat /\ r.start \in Nat
           /\ r.size <= WriteBufferSize /\ r.len <= r.size
           /\ r.size = 0 => r.start = 0
           /\ r.size > 0 => r.start < r.size
           /\ \A i \in 0 .. r.size - 1 : r.data[i] \in Nat
BY DEF RingOK

(* The size a ring grows to.                                               *)
LEMMA GrownSize ==
    ASSUME NEW w \in Nat, w > 0, NEW n \in Nat, n > 0
    PROVE  LET desired == Smaller(w, n)
               size == Smaller(w, 2 * desired)
           IN  /\ desired \in Nat /\ size \in Nat /\ desired > 0
               /\ desired <= size /\ size <= w
               /\ desired < n => desired = w
BY DEF Smaller

(* A place past the end of the ring, taken round.                          *)
LEMMA TurnRound ==
    ASSUME NEW s \in Nat, s > 0, NEW p \in Nat, NEW i \in Nat, p >= s, p + i < 2 * s
    PROVE  (p + i) % s = p + i - s
<1>1. p + i \in Nat /\ p + i >= s
  OBVIOUS
<1>2. QED
  BY <1>1, ModLemma

(* A part of a number and its rest.                                        *)
LEMMA Remainder ==
    ASSUME NEW n \in Nat, NEW m \in 0 .. n
    PROVE  n - m \in Nat /\ (n - m) + m = n
OBVIOUS

(* The i-th byte of the ring, when it is one of the m new ones.            *)
LEMMA NewByte ==
    ASSUME NEW n \in Nat, NEW m \in Nat, NEW k \in Nat, NEW i \in Nat, i < n + m, i >= n
    PROVE  i - n + 1 \in 1 .. m /\ k + n + (i - n + 1) = k + 1 + i
OBVIOUS

(* Where the next byte goes, before it is taken round, and how much of m   *)
(* bytes fits behind it.                                                   *)
LEMMA NextPlace ==
    ASSUME NEW start \in Nat, NEW len \in Nat, NEW m \in Nat, NEW size \in Nat,
           start < size, len + m <= size
    PROVE  /\ start + len \in Nat /\ start + len < 2 * size
           /\ \A at \in Nat : at < size =>
                 LET first == Smaller(m, size - at)
                 IN  first \in Int /\ first <= m /\ first >= 0 /\ m - first <= size
BY DEF Smaller

(* A stretch of the stream is in order.                                    *)
LEMMA StreamInOrder ==
    ASSUME NEW k \in Nat, NEW n \in Nat
    PROVE  InOrder(Stream(k, n), k) /\ Len(Stream(k, n)) = n
BY DEF InOrder, Stream

(* What is sent behind an ordered run, and follows it, makes a longer one. *)
LEMMA ConcatInOrder ==
    ASSUME NEW k \in Nat, NEW a, NEW b,
           InOrder(a, k), InOrder(b, k + Len(a))
    PROVE  InOrder(a \o b, k) /\ Len(a \o b) = Len(a) + Len(b)
BY DEF InOrder
-----------------------------------------------------------------------------
(* The operations on a ring.                                               *)

(* Growing keeps what the ring holds, and makes room as far as the setting *)
(* allows.                                                                 *)
LEMMA GrownLemma ==
    ASSUME NEW r, RingOK(r), NEW n \in Nat, n > 0, NEW k \in Nat, Holds(r, k)
    PROVE  LET g == Grown(r, n)
           IN  /\ RingOK(g) /\ g.len = r.len /\ Holds(g, k) /\ g.size > 0
               /\ g.size < r.len + n => g.size = WriteBufferSize
<1> DEFINE desired == Smaller(WriteBufferSize, r.len + n)
           size == Smaller(WriteBufferSize, 2 * desired)
           wrapped == r.start + r.len - r.size
           copied == Smaller(wrapped, size - r.size)
           data == [i \in 0 .. size - 1 |->
                    IF i >= r.size
                    THEN IF i - r.size < copied THEN r.data[i - r.size] ELSE Garbage
                    ELSE IF i < wrapped - copied THEN r.data[i + copied]
                    ELSE r.data[i]]
           g == Grown(r, n)
<1>1. /\ desired \in Nat /\ size \in Nat /\ desired > 0
      /\ desired <= size /\ size <= WriteBufferSize
      /\ desired < r.len + n => desired = WriteBufferSize
  <2>1. WriteBufferSize \in Nat /\ WriteBufferSize > 0
    BY SockConstants
  <2>2. r.len + n \in Nat /\ r.len + n > 0
    BY RingNumbers
  <2>3. QED
    BY <2>1, <2>2, GrownSize
<1>2. CASE r.size >= desired
  <2>1. g = r
    BY Zenon, <1>2 DEF Grown
  <2>2. QED
    BY <1>1, <1>2, <2>1 DEF RingOK
<1>3. CASE ~(r.size >= desired)
  <2>1. g = [r EXCEPT !.size = size, !.data = data]
    BY Zenon, <1>3 DEF Grown
  <2> HIDE DEF g
  <2>2. /\ g = [data |-> data, size |-> size, start |-> r.start, len |-> r.len]
    BY <2>1 DEF RingOK
  <2>3. /\ g.data = data /\ g.size = size /\ g.start = r.start /\ g.len = r.len
    BY <2>2
  <2>4. r.size < size /\ r.start < size
    BY <1>1, <1>3 DEF RingOK
  <2> HIDE DEF desired, size
  <2>5. wrapped \in Int /\ copied \in Int /\ copied <= wrapped
        /\ wrapped <= r.size /\ wrapped <= r.start /\ copied <= size - r.size
        /\ (copied = wrapped \/ copied = size - r.size)
        /\ (wrapped <= 0 => copied = wrapped)
        /\ (wrapped > 0 => copied > 0)
    BY <1>1, <2>4, RingNumbers DEF Smaller
  <2> HIDE DEF copied
  <2>6. data \in [0 .. size - 1 -> Nat]
    <3>1. ASSUME NEW i \in 0 .. size - 1
          PROVE  data[i] \in Nat
      <4>1. CASE i >= r.size
        BY <1>1, <2>5, <4>1, RingNumbers DEF Garbage
      <4>2. CASE i < r.size
        BY <1>1, <2>5, <4>2, RingNumbers DEF Garbage
      <4>3. QED
        BY <1>1, <4>1, <4>2, RingNumbers
    <3>2. QED
      BY <3>1
  <2>7. RingOK(g)
    BY <1>1, <2>2, <2>3, <2>4, <2>6 DEF RingOK
  <2>8. ASSUME NEW i \in Nat, i < r.len
        PROVE  data[(r.start + i) % size] = k + 1 + i
    <3> DEFINE p == r.start + i
    <3>1. /\ p \in Nat /\ r.size > 0 /\ p < 2 * r.size /\ r.size < size
          /\ r.size \in Nat /\ p < r.start + r.len
          /\ r.data[p % r.size] = k + 1 + i
      BY <2>4, <2>8, RingNumbers DEF Holds
    <3> HIDE DEF p
    <3>2. CASE p < r.size
      <4>1. p % r.size = p /\ p % size = p
        BY <1>1, <3>1, <3>2, ModLemma
      <4>2. p \in 0 .. size - 1 /\ ~(p >= r.size) /\ ~(p < wrapped - copied)
        BY <1>1, <2>5, <3>1, <3>2, RingNumbers DEF p
      <4>3. QED
        BY Zenon, <3>1, <4>1, <4>2 DEF p
    <3>3. CASE p >= r.size /\ p < size
      <4>1. p % r.size = p - r.size /\ p % size = p
        BY <1>1, <3>1, <3>3, ModLemma
      <4>2. p \in 0 .. size - 1 /\ p - r.size < copied
        BY <1>1, <2>5, <3>1, <3>3, RingNumbers DEF p
      <4>3. QED
        BY <3>1, <3>3, <4>1, <4>2 DEF p
    <3>4. CASE p >= size
      <4>1. p % r.size = p - r.size /\ p % size = p - size
        BY <1>1, <3>1, <3>4, ModLemma
      <4>2. /\ copied = size - r.size /\ p - size \in 0 .. size - 1
            /\ p - size < wrapped - copied /\ ~(p - size >= r.size)
        BY <1>1, <2>5, <3>1, <3>4, RingNumbers DEF p
      <4>3. data[p - size] = r.data[p - size + copied]
        BY Zenon, <4>2
      <4>4. p - size + copied = p - r.size
        BY <1>1, <3>1, <4>2
      <4>5. QED
        BY Zenon, <3>1, <4>1, <4>3, <4>4 DEF p
    <3>5. QED
      BY <1>1, <3>1, <3>2, <3>3, <3>4
  <2>9. Holds(g, k)
    BY <2>3, <2>8 DEF Holds
  <2>10. QED
    BY <1>1, <2>3, <2>4, <2>7, <2>9 DEF RingOK, g
<1>4. QED
  BY <1>2, <1>3

(* The pieces that are sent are the oldest bytes, in order.                *)
LEMMA OldestLemma ==
    ASSUME NEW r, RingOK(r), NEW k \in Nat, Holds(r, k),
           NEW n \in Nat, n <= r.len
    PROVE  InOrder(Oldest(r, n), k) /\ Len(Oldest(r, n)) = n
<1> DEFINE first == Smaller(n, r.size - r.start)
           out == [i \in 1 .. n |-> IF i <= first THEN r.data[r.start + i - 1]
                                    ELSE r.data[i - 1 - first]]
<1>1. Oldest(r, n) = out
  BY Zenon DEF Oldest
<1>2. /\ first \in Int /\ first <= n /\ first <= r.size - r.start
      /\ first = n \/ first = r.size - r.start
  BY RingNumbers DEF Smaller
<1> HIDE DEF first
<1>3. ASSUME NEW i \in 1 .. n
      PROVE  out[i] = k + i
  <2> DEFINE p == r.start + (i - 1)
  <2>1. /\ p \in Nat /\ r.size > 0 /\ p < 2 * r.size /\ r.size \in Nat
        /\ p < r.start + r.len /\ r.data[p % r.size] = k + 1 + (i - 1)
    <3>1. i - 1 \in Nat /\ i - 1 < r.len
      BY RingNumbers
    <3>2. r.data[(r.start + (i - 1)) % r.size] = k + 1 + (i - 1)
      BY Zenon, <3>1 DEF Holds
    <3>3. QED
      BY <3>1, <3>2, RingNumbers
  <2>2. k + 1 + (i - 1) = k + i
    OBVIOUS
  <2>3. p = r.start + i - 1 /\ p - r.size = i - 1 - (r.size - r.start)
    BY RingNumbers
  <2> HIDE DEF p
  <2>4. CASE i <= first
    <3>1. p % r.size = p
      BY <1>2, <2>1, <2>3, <2>4, ModLemma, RingNumbers
    <3>2. QED
      BY Zenon, <2>1, <2>2, <2>3, <2>4, <3>1
  <2>5. CASE ~(i <= first)
    <3>1. first = r.size - r.start /\ p >= r.size
      BY <1>2, <2>1, <2>3, <2>5, RingNumbers
    <3>2. p % r.size = p - r.size
      BY <2>1, <3>1, ModLemma
    <3>3. QED
      BY Zenon, <2>1, <2>2, <2>3, <2>5, <3>1, <3>2
  <2>6. QED
    BY Zenon, <2>4, <2>5
<1> HIDE DEF out
<1>4. out \in Seq(Nat) /\ Len(out) = n
  <2>1. \A i \in 1 .. n : out[i] \in Nat
    BY <1>3
  <2>2. QED
    BY <2>1 DEF out
<1>5. QED
  BY <1>1, <1>3, <1>4 DEF InOrder

(* Dropping the oldest n bytes leaves those behind them.                   *)
LEMMA DroppedLemma ==
    ASSUME NEW r, RingOK(r), r.size > 0, NEW k \in Nat, Holds(r, k),
           NEW n \in Nat, n <= r.len
    PROVE  LET d == Dropped(r, n)
           IN  /\ RingOK(d) /\ d.size = r.size /\ d.len = r.len - n
               /\ Holds(d, k + n)
<1> DEFINE start == IF r.len = n THEN 0 ELSE (r.start + n) % r.size
           d == Dropped(r, n)
<1>1. d = [data |-> r.data, size |-> r.size, start |-> start, len |-> r.len - n]
  <2>1. d = [r EXCEPT !.len = r.len - n, !.start = start]
    BY Zenon DEF Dropped
  <2> HIDE DEF d, start
  <2>2. QED
    BY <2>1 DEF RingOK
<1> HIDE DEF d
<1>2. d.data = r.data /\ d.size = r.size /\ d.start = start /\ d.len = r.len - n
  BY <1>1
<1>3. /\ start \in Nat /\ start < r.size
      /\ r.len # n => start = (r.start + n) % r.size
  BY ModLemma, RingNumbers
<1>4. RingOK(d)
  BY <1>1, <1>2, <1>3 DEF RingOK
<1>5. ASSUME NEW i \in Nat, i < r.len - n
      PROVE  r.data[(start + i) % r.size] = k + n + 1 + i
  <2> DEFINE p == r.start + n
  <2>1. /\ r.len # n /\ p \in Nat /\ p < 2 * r.size /\ r.size \in Nat
        /\ start = p % r.size /\ p + i < 2 * r.size /\ p + i \in Nat
        /\ n + i \in Nat /\ n + i < r.len /\ p + i = r.start + (n + i)
        /\ k + n + 1 + i = k + 1 + (n + i)
    BY <1>3, <1>5, RingNumbers
  <2> HIDE DEF p, start
  <2>2. r.data[(r.start + (n + i)) % r.size] = k + 1 + (n + i)
    BY Zenon, <2>1 DEF Holds
  <2>3. (start + i) % r.size = (p + i) % r.size
    <3>1. CASE p < r.size
      BY <2>1, <3>1, ModLemma
    <3>2. CASE p >= r.size
      <4>1. start = p - r.size /\ (p + i) % r.size = p + i - r.size
        <5>1. p % r.size = p - r.size
          BY <2>1, <3>2, ModLemma
        <5>2. p \in Nat /\ p >= r.size /\ p + i < 2 * r.size /\ r.size \in Nat /\ r.size > 0
          BY <2>1, <3>2
        <5>3. (p + i) % r.size = p + i - r.size
          BY <5>2, TurnRound
        <5>4. QED
          BY Zenon, <2>1, <5>1, <5>3
      <4>2. start + i \in Nat /\ start + i < r.size /\ start + i = p + i - r.size
        BY <2>1, <3>2, <4>1
      <4>3. QED
        BY <2>1, <4>1, <4>2, ModLemma
    <3>3. QED
      BY <2>1, <3>1, <3>2
  <2>4. QED
    BY Zenon, <2>1, <2>2, <2>3
<1>6. Holds(d, k + n)
  BY <1>2, <1>5 DEF Holds
<1>7. QED
  BY <1>2, <1>4, <1>6 DEF d

(* m bytes go behind len others, from place start on.                      *)
Appending(size, start, len, m, i) ==
    /\ size \in Nat /\ start \in Nat /\ len \in Nat /\ m \in Nat /\ i \in Nat
    /\ start < size /\ len + m <= size /\ i < len + m

(* Byte i of the longer ring is an old one that stays, or one of the new.  *)
Placed(size, start, len, m, i) ==
    LET at == (start + len) % size
        first == Smaller(m, size - at)
        q == (start + i) % size
    IN  /\ i < len => /\ ~(q >= at /\ q < at + first)
                      /\ ~(q < m - first)
        /\ i >= len => \/ /\ q >= at /\ q < at + first
                          /\ q - at + 1 = i - len + 1
                       \/ /\ ~(q >= at /\ q < at + first)
                          /\ q < m - first
                          /\ q + first + 1 = i - len + 1
        /\ q \in 0 .. size - 1

(* Appended puts every byte where it belongs, and moves no other.          *)
LEMMA PlacedLemma ==
    ASSUME NEW size, NEW start, NEW len, NEW m, NEW i,
           Appending(size, start, len, m, i)
    PROVE  Placed(size, start, len, m, i)
<1>0. SUFFICES ASSUME size \in Nat, start \in Nat, len \in Nat, m \in Nat,
                      i \in Nat, start < size, len + m <= size, i < len + m
               PROVE  Placed(size, start, len, m, i)
  BY Zenon DEF Appending
<1> DEFINE at == (start + len) % size
           first == Smaller(m, size - at)
           q == (start + i) % size
<1> DEFINE e == start + len
           p == start + i
<1>1. /\ e \in Nat /\ e < 2 * size /\ p \in Nat /\ p < 2 * size /\ size > 0
  BY <1>0
<1>2. e = start + len /\ p = start + i
  OBVIOUS
<1>3. at = e % size /\ q = p % size
  OBVIOUS
<1> HIDE DEF e, p, at, q
<1>4. /\ at \in Nat /\ at < size /\ q \in Nat /\ q < size
      /\ e < size => at = e
      /\ e >= size => at = e - size
      /\ p < size => q = p
      /\ p >= size => q = p - size
  BY <1>0, <1>1, <1>3, ModLemma
<1>5. /\ first \in Int
      /\ m <= size - at => first = m
      /\ m > size - at => first = size - at
  BY <1>0, <1>4 DEF Smaller
<1> HIDE DEF first
<1>6. ASSUME i < len
      PROVE  /\ ~(q >= at /\ q < at + first)
             /\ ~(q < m - first)
  BY <1>0, <1>1, <1>2, <1>4, <1>5, <1>6
<1>7. ASSUME i >= len
      PROVE  \/ /\ q >= at /\ q < at + first
                /\ q - at + 1 = i - len + 1
             \/ /\ ~(q >= at /\ q < at + first)
                /\ q < m - first
                /\ q + first + 1 = i - len + 1
  BY <1>0, <1>1, <1>2, <1>4, <1>5, <1>7
<1>8. q \in 0 .. size - 1
  BY <1>0, <1>4
<1>9. QED
  BY Zenon, <1>6, <1>7, <1>8 DEF Placed, at, first, q

(* Appending the bytes that follow leaves what the ring held.              *)
LEMMA AppendedLemma ==
    ASSUME NEW r, RingOK(r), r.size > 0, NEW k \in Nat, Holds(r, k),
           NEW data, InOrder(data, k + r.len), r.len + Len(data) <= r.size
    PROVE  LET f == Appended(r, data)
           IN  /\ RingOK(f) /\ f.size = r.size /\ f.len = r.len + Len(data)
               /\ Holds(f, k)
<1> DEFINE m == Len(data)
           at == (r.start + r.len) % r.size
           first == Smaller(m, r.size - at)
           new == [i \in 0 .. r.size - 1 |->
                      IF i >= at /\ i < at + first THEN data[i - at + 1]
                      ELSE IF i < m - first THEN data[i + first + 1]
                      ELSE r.data[i]]
           f == Appended(r, data)
<1>1. f = [data |-> new, size |-> r.size, start |-> r.start, len |-> r.len + m]
  <2>1. f = [r EXCEPT !.len = r.len + m, !.data = new]
    BY Zenon DEF Appended
  <2> HIDE DEF f, new, m
  <2>2. QED
    BY <2>1 DEF RingOK
<1> HIDE DEF f
<1>2. f.data = new /\ f.size = r.size /\ f.start = r.start /\ f.len = r.len + m
  BY <1>1
<1>3. /\ r.size \in Nat /\ r.len \in Nat /\ r.start \in Nat
      /\ r.start < r.size
  BY RingNumbers
<1>4. /\ m \in Nat /\ r.len + m <= r.size
  BY DEF InOrder
<1>5. \A i \in 1 .. m : data[i] = k + r.len + i /\ data[i] \in Nat
  BY DEF InOrder
<1> HIDE DEF m
<1>6. at \in Nat /\ at < r.size
  <2> DEFINE e == r.start + r.len
  <2>1. e \in Nat /\ e < 2 * r.size
    BY <1>3, <1>4, NextPlace
  <2> HIDE DEF e
  <2>2. e % r.size \in Nat /\ e % r.size < r.size
    BY <1>3, <2>1, ModLemma
  <2>3. QED
    BY Zenon, <2>2 DEF e
<1> HIDE DEF at
<1>7. first \in Int /\ first <= m /\ first >= 0 /\ m - first <= r.size
  BY <1>3, <1>4, <1>6, NextPlace
<1> HIDE DEF first
<1>8. new \in [0 .. r.size - 1 -> Nat]
  <2>1. ASSUME NEW i \in 0 .. r.size - 1
        PROVE  new[i] \in Nat
    <3>1. CASE i >= at /\ i < at + first
      <4>1. i - at + 1 \in 1 .. m
        BY <1>3, <1>4, <1>6, <1>7, <3>1
      <4>2. QED
        BY Zenon, <1>5, <3>1, <4>1
    <3>2. CASE ~(i >= at /\ i < at + first) /\ i < m - first
      <4>1. i + first + 1 \in 1 .. m
        BY <1>3, <1>4, <1>6, <1>7, <3>2
      <4>2. QED
        BY Zenon, <1>5, <3>2, <4>1
    <3>3. CASE ~(i >= at /\ i < at + first) /\ ~(i < m - first)
      BY Zenon, <3>3, RingNumbers
    <3>4. QED
      BY Zenon, <3>1, <3>2, <3>3
  <2>2. QED
    BY Zenon, <2>1
<1>9. RingOK(f)
  <2>1. r.len + m \in Nat
    BY <1>3, <1>4
  <2> HIDE DEF new
  <2>2. QED
    BY <1>1, <1>2, <1>3, <1>4, <1>8, <2>1 DEF RingOK
<1>10. ASSUME NEW i \in Nat, i < r.len + m
       PROVE  new[(r.start + i) % r.size] = k + 1 + i
  <2> DEFINE q == (r.start + i) % r.size
  <2>1. Appending(r.size, r.start, r.len, m, i)
    BY <1>3, <1>4, <1>10 DEF Appending
  <2>2. /\ i < r.len => /\ ~(q >= at /\ q < at + first)
                        /\ ~(q < m - first)
        /\ i >= r.len => \/ /\ q >= at /\ q < at + first
                            /\ q - at + 1 = i - r.len + 1
                         \/ /\ ~(q >= at /\ q < at + first)
                            /\ q < m - first
                            /\ q + first + 1 = i - r.len + 1
        /\ q \in 0 .. r.size - 1
    <3>1. Placed(r.size, r.start, r.len, m, i)
      BY <2>1, PlacedLemma
    <3>2. QED
      BY Zenon, <3>1 DEF Placed, at, first
  <2>4. i < r.len => r.data[q] = k + 1 + i
    BY Zenon DEF Holds
  <2>5. i >= r.len => i - r.len + 1 \in 1 .. m /\ k + r.len + (i - r.len + 1) = k + 1 + i
    <3>1. PICK n : n = r.len
      OBVIOUS
    <3>2. n \in Nat /\ m \in Nat /\ k \in Nat /\ i \in Nat /\ i < n + m
      BY Zenon, <1>3, <1>4, <1>10, <3>1
    <3>3. i >= n => i - n + 1 \in 1 .. m /\ k + n + (i - n + 1) = k + 1 + i
      BY <3>2, NewByte
    <3>4. QED
      BY Zenon, <3>1, <3>3
  <2>6. i >= r.len => data[i - r.len + 1] = k + 1 + i
    BY Zenon, <1>5, <2>5
  <2> HIDE DEF q
  <2>7. i < r.len \/ i >= r.len
    BY <1>3
  <2>8. new[q] = k + 1 + i
    BY Zenon, <2>2, <2>4, <2>6, <2>7
  <2>9. QED
    BY Zenon, <2>8 DEF q
<1>11. Holds(f, k)
  BY <1>2, <1>10 DEF Holds
<1>12. QED
  BY <1>2, <1>9, <1>11 DEF f, m
-----------------------------------------------------------------------------
(* The invariant: the ring is sound and, while the connection stands, it   *)
(* holds exactly what was handed in and is not on the wire.                *)
Held == ~broken => handed = wired + datalen /\ Holds(Ring, wired)

SockInv ==
    /\ SockTypeOK
    /\ RingOK(Ring)
    /\ Held
    /\ inOrder = TRUE
    /\ NeverStranded

(* What a step may do to the counters of the stream.                       *)
Onward == handed' >= handed /\ wired' >= wired /\ inOrder' = inOrder

(* The numbers of the state.                                               *)
LEMMA SockNumbers ==
    ASSUME SockInv
    PROVE  /\ Ring.data = bufdata /\ Ring.size = buflen
           /\ Ring.start = datastart /\ Ring.len = datalen
           /\ buflen \in Nat /\ datalen \in Nat /\ datalen <= buflen
           /\ handed \in Nat /\ handed <= MaxHanded
           /\ wired \in Nat /\ wired <= handed
           /\ ~broken => handed = wired + datalen
BY SockConstants DEF SockInv, SockTypeOK, Ring, Held

(* The ring that is set is the ring of the next state.                     *)
LEMMA SetRingLemma ==
    ASSUME NEW r, RingOK(r), SetRing(r)
    PROVE  /\ Ring' = r
           /\ bufdata' = r.data /\ buflen' = r.size
           /\ datastart' = r.start /\ datalen' = r.len
<1>1. r = [data |-> r.data, size |-> r.size, start |-> r.start, len |-> r.len]
  BY Zenon DEF RingOK
<1>2. QED
  BY Zenon, <1>1 DEF SetRing, Ring

(* An ordered run on the wire keeps the order.                             *)
LEMMA WireLemma ==
    ASSUME NEW out, inOrder = TRUE, InOrder(out, wired), Wire(out)
    PROVE  wired' = wired + Len(out) /\ inOrder' = TRUE
BY Zenon DEF Wire, InOrder

(* An empty run is in order wherever it stands.                            *)
LEMMA EmptyInOrder ==
    ASSUME NEW out, NEW k, NEW j, InOrder(out, k), Len(out) = 0
    PROVE  InOrder(out, j)
BY DEF InOrder

(* The invariant from what a call left: a sound ring, a longer stream.     *)
LEMMA Settled ==
    ASSUME NEW r, RingOK(r), SetRing(r), SockInv,
           inOrder' = TRUE, armed' \in BOOLEAN, broken' = FALSE,
           wired' \in Nat, wired' >= wired, handed' >= handed,
           handed' <= MaxHanded, handed' = wired' + r.len, Holds(r, wired'),
           r.len > 0 => armed' = TRUE
    PROVE  SockInv' /\ Onward
<1>1. /\ Ring' = r /\ bufdata' = r.data /\ buflen' = r.size
      /\ datastart' = r.start /\ datalen' = r.len
  BY SetRingLemma
<1>2. /\ r.size \in Nat /\ r.len \in Nat /\ r.start \in Nat
      /\ r.size <= WriteBufferSize /\ r.len <= r.size /\ r.start <= r.size
  BY RingNumbers
<1>3. /\ buflen' \in 0 .. WriteBufferSize
      /\ datalen' \in 0 .. buflen'
      /\ datastart' \in 0 .. buflen'
  BY <1>1, <1>2, SockConstants
<1>4. DOMAIN bufdata' = IF buflen' = 0 THEN {} ELSE 0 .. buflen' - 1
  <2>1. DOMAIN r.data = 0 .. r.size - 1
    BY DEF RingOK
  <2>2. QED
    BY <1>1, <1>2, <2>1
<1>5. handed' \in 0 .. MaxHanded /\ wired' \in 0 .. handed'
  BY <1>2, SockConstants, SockNumbers
<1>6. {inOrder', armed', broken'} \subseteq BOOLEAN
  BY Zenon
<1>7. SockTypeOK'
  BY Zenon, <1>3, <1>4, <1>5, <1>6 DEF SockTypeOK
<1>8. Held'
  BY Zenon, <1>1 DEF Held
<1>9. NeverStranded'
  BY Zenon, <1>1 DEF NeverStranded
<1>10. QED
  BY Zenon, <1>1, <1>7, <1>8, <1>9 DEF SockInv, Onward
-----------------------------------------------------------------------------
(* The steps.                                                              *)

(* The fast path: the ring is empty and the socket takes all.              *)
LEMMA WriteThroughStep ==
    ASSUME SockInv, ~broken, NEW n \in Nat, handed + n <= MaxHanded,
           WriteThrough(n)
    PROVE  SockInv' /\ Onward
<1> DEFINE out == Stream(handed, n)
<1>1. handed \in Nat /\ wired = handed /\ datalen = 0 /\ Ring.len = 0
  BY SockNumbers DEF WriteThrough
<1>2. InOrder(out, wired) /\ Len(out) = n
  BY <1>1, StreamInOrder
<1> HIDE DEF out
<1>3. wired' = wired + n /\ inOrder' = TRUE
  BY <1>2, WireLemma DEF WriteThrough, SockInv, out
<1>4. /\ handed' = handed + n /\ UNCHANGED << ring, armed, broken >>
  BY Zenon DEF WriteThrough
<1>5. RingOK(Ring) /\ SetRing(Ring) /\ armed' \in BOOLEAN /\ broken' = FALSE
  <2>1. RingOK(Ring) /\ armed \in BOOLEAN /\ broken \in BOOLEAN
    BY Zenon DEF SockInv, SockTypeOK
  <2>2. QED
    BY Zenon, <1>4, <2>1 DEF SetRing, Ring, ring
<1>6. Holds(Ring, wired')
  BY <1>1 DEF Holds
<1>7. /\ wired' \in Nat /\ wired' >= wired /\ handed' >= handed
      /\ handed' <= MaxHanded /\ handed' = wired' + Ring.len
  BY <1>1, <1>3, <1>4
<1>8. Ring.len > 0 => armed' = TRUE
  BY <1>1
<1>9. QED
  BY Zenon, <1>3, <1>5, <1>6, <1>7, <1>8, Settled

(* The call whose bytes wait: growing, sending what must go to make room,  *)
(* appending the rest, sending what still can go.                          *)
LEMMA WriteBehindStep ==
    ASSUME SockInv, ~broken, NEW n \in Nat, handed + n <= MaxHanded,
           NEW fast \in 0 .. n, NEW more \in Nat,
           WriteBehind(n, fast, more)
    PROVE  SockInv' /\ Onward
<1> DEFINE rest == n - fast
           grown == Grown(Ring, rest)
           required == IF grown.len + rest > grown.size
                       THEN grown.len + rest - grown.size ELSE 0
           old == Smaller(grown.len, required)
           new == required - old
           emptied == IF old > 0 THEN Dropped(grown, old) ELSE grown
           tail == Stream(handed + fast + new, rest - new)
           filled == Appended(emptied, tail)
           sent == Stream(handed, fast) \o Oldest(grown, old)
                   \o Stream(handed + fast, new)
           k == wired + fast + old + new
<1>1. /\ datalen > 0 => fast = 0
      /\ rest > 0
      /\ IF required = 0
         THEN /\ more = 0
              /\ SetRing(filled)
              /\ Wire(sent)
              /\ armed' = (armed \/ datalen = 0)
         ELSE /\ more <= filled.len
              /\ SetRing(Dropped(filled, more))
              /\ Wire(sent \o Oldest(filled, more))
              /\ \E posted \in BOOLEAN : armed' = (posted \/ more < filled.len)
      /\ handed' = handed + n
      /\ UNCHANGED broken
  BY Zenon DEF WriteBehind
<1>2. /\ rest \in Nat /\ rest + fast = n /\ fast \in Nat
      /\ handed \in Nat /\ wired \in Nat /\ datalen \in Nat
      /\ handed = wired + datalen
  <2>1. fast \in Nat
    OBVIOUS
  <2>2. handed \in Nat /\ wired \in Nat /\ datalen \in Nat /\ handed = wired + datalen
    BY Zenon, SockNumbers
  <2>3. rest \in Nat /\ rest + fast = n
    <3>1. n - fast \in Nat /\ (n - fast) + fast = n
      BY <2>1, Remainder
    <3>2. QED
      BY Zenon, <3>1 DEF rest
  <2>4. QED
    BY Zenon, <2>1, <2>2, <2>3
<1> HIDE DEF rest
<1>3. /\ RingOK(grown) /\ grown.len = datalen /\ Holds(grown, wired)
      /\ grown.size > 0
  <2>1. RingOK(Ring) /\ Holds(Ring, wired) /\ Ring.len = datalen
    BY Zenon, SockNumbers DEF SockInv, Held
  <2>2. QED
    BY <1>1, <1>2, <2>1, GrownLemma
<1>4. grown.size \in Nat /\ datalen <= grown.size
  BY <1>3, RingNumbers
<1> HIDE DEF grown
<1>5. /\ required \in Nat /\ datalen + rest - required <= grown.size
      /\ required <= rest
  BY <1>2, <1>3, <1>4
<1> HIDE DEF required
<1>6. /\ old \in Nat /\ old <= datalen /\ old <= required
      /\ old = datalen \/ old = required
  BY <1>2, <1>3, <1>5 DEF Smaller
<1> HIDE DEF old
<1>7. /\ new \in Nat /\ new <= rest /\ new + old = required
      /\ new > 0 => old = datalen
  BY <1>2, <1>5, <1>6
<1> HIDE DEF new
<1>8. /\ RingOK(emptied) /\ emptied.size = grown.size
      /\ emptied.len = datalen - old /\ Holds(emptied, wired + old)
  <2>1. CASE old > 0
    BY <1>2, <1>3, <1>6, <2>1, DroppedLemma
  <2>2. CASE ~(old > 0)
    <3>1. old = 0 /\ wired + old = wired /\ datalen - old = datalen
      BY <1>2, <1>6, <2>2
    <3>2. QED
      BY Zenon, <1>3, <2>2, <3>1
  <2>3. QED
    BY Zenon, <2>1, <2>2
<1> HIDE DEF emptied
<1>9. /\ k \in Nat
      /\ \/ datalen - old = 0 /\ k = handed + fast + new
         \/ fast = 0 /\ new = 0 /\ k = wired + old
      /\ k + (datalen - old) = handed + fast + new
      /\ handed + fast + new \in Nat /\ rest - new \in Nat
      /\ k + (datalen - old) + (rest - new) = handed + n
  BY <1>1, <1>2, <1>6, <1>7
<1>10. Holds(emptied, k)
  BY <1>8, <1>9 DEF Holds
<1>11. InOrder(tail, k + emptied.len) /\ Len(tail) = rest - new
  <2>1. InOrder(tail, handed + fast + new) /\ Len(tail) = rest - new
    BY <1>9, StreamInOrder
  <2>2. k + emptied.len = handed + fast + new
    BY <1>8, <1>9
  <2>3. QED
    BY Zenon, <2>1, <2>2
<1> HIDE DEF tail
<1>12. emptied.len + Len(tail) <= emptied.size
  BY <1>2, <1>4, <1>5, <1>6, <1>7, <1>8, <1>11
<1>13. /\ RingOK(filled) /\ filled.size > 0 /\ Holds(filled, k)
       /\ filled.len = emptied.len + Len(tail)
  BY <1>3, <1>8, <1>9, <1>10, <1>11, <1>12, AppendedLemma
<1>14. /\ filled.len \in Nat /\ k + filled.len = handed + n
  BY <1>8, <1>9, <1>11, <1>13, RingNumbers
<1> HIDE DEF filled
<1>15. InOrder(sent, wired) /\ Len(sent) = fast + old + new
  <2> DEFINE a == Stream(handed, fast)
             b == Oldest(grown, old)
             c == Stream(handed + fast, new)
  <2>1. InOrder(a, handed) /\ Len(a) = fast
    BY <1>2, StreamInOrder
  <2>2. InOrder(b, wired) /\ Len(b) = old
    BY <1>2, <1>3, <1>6, OldestLemma
  <2>3. InOrder(c, handed + fast) /\ Len(c) = new
    BY <1>2, <1>7, StreamInOrder
  <2>4. sent = (a \o b) \o c
    OBVIOUS
  <2> HIDE DEF a, b, c, sent
  <2>5. InOrder(a, wired)
    <3>1. CASE fast = 0
      BY Zenon, <2>1, <3>1, EmptyInOrder
    <3>2. CASE fast # 0
      <4>1. handed = wired
        BY <1>1, <1>2, <3>2
      <4>2. QED
        BY Zenon, <2>1, <4>1
    <3>3. QED
      BY Zenon, <3>1, <3>2
  <2>6. InOrder(b, wired + Len(a))
    <3>1. CASE old = 0
      BY Zenon, <2>2, <3>1, EmptyInOrder
    <3>2. CASE old # 0
      <4>1. wired + Len(a) = wired
        BY <1>1, <1>2, <1>6, <2>1, <3>2
      <4>2. QED
        BY Zenon, <2>2, <4>1
    <3>3. QED
      BY Zenon, <3>1, <3>2
  <2>7. InOrder(a \o b, wired) /\ Len(a \o b) = fast + old
    <3>1. wired \in Nat /\ InOrder(a, wired) /\ InOrder(b, wired + Len(a))
      BY <1>2, <2>5, <2>6
    <3>2. InOrder(a \o b, wired) /\ Len(a \o b) = Len(a) + Len(b)
      BY <3>1, ConcatInOrder
    <3>3. QED
      BY Zenon, <2>1, <2>2, <3>2
  <2>8. InOrder(c, wired + Len(a \o b))
    <3>1. CASE new = 0
      BY Zenon, <2>3, <3>1, EmptyInOrder
    <3>2. CASE new # 0
      <4>1. wired + Len(a \o b) = handed + fast
        BY <1>2, <1>7, <2>7, <3>2
      <4>2. QED
        BY Zenon, <2>3, <4>1
    <3>3. QED
      BY Zenon, <3>1, <3>2
  <2> DEFINE ab == a \o b
  <2>9. InOrder(ab, wired) /\ Len(ab) = fast + old /\ InOrder(c, wired + Len(ab))
    BY Zenon, <2>7, <2>8
  <2> HIDE DEF ab
  <2>10. InOrder(ab \o c, wired) /\ Len(ab \o c) = Len(ab) + Len(c)
    BY <1>2, <2>9, ConcatInOrder
  <2>11. sent = ab \o c
    BY Zenon, <2>4 DEF ab
  <2>12. QED
    BY Zenon, <2>3, <2>9, <2>10, <2>11
<1> HIDE DEF sent
<1>16. /\ k = wired + Len(sent) /\ k >= wired /\ handed + n >= handed
       /\ inOrder = TRUE /\ broken' = FALSE
  <2>1. k = wired + Len(sent) /\ k >= wired /\ handed + n >= handed
    BY <1>2, <1>6, <1>7, <1>15
  <2>2. broken \in BOOLEAN /\ inOrder = TRUE
    BY Zenon DEF SockInv, SockTypeOK
  <2>3. QED
    BY Zenon, <1>1, <2>1, <2>2
<1> HIDE DEF k
<1>17. CASE required = 0
  <2>1. SetRing(filled) /\ Wire(sent) /\ armed' = (armed \/ datalen = 0)
    BY Zenon, <1>1, <1>17
  <2>2. wired' = k /\ inOrder' = TRUE
    BY Zenon, <1>15, <1>16, <2>1, WireLemma
  <2>3. armed' = TRUE
    <3>1. datalen > 0 \/ datalen = 0
      BY <1>2
    <3>2. QED
      BY Zenon, <2>1, <3>1 DEF SockInv, NeverStranded
  <2>4. armed' \in BOOLEAN
    BY Zenon, <2>3
  <2>5. /\ wired' \in Nat /\ wired' >= wired /\ handed' >= handed
        /\ handed' <= MaxHanded /\ handed' = wired' + filled.len
    BY Zenon, <1>1, <1>9, <1>14, <1>16, <2>2
  <2>6. Holds(filled, wired')
    BY Zenon, <1>13, <2>2
  <2>7. QED
    BY Zenon, <1>13, <1>16, <2>1, <2>2, <2>3, <2>4, <2>5, <2>6, Settled
<1>18. CASE required # 0
  <2> DEFINE d == Dropped(filled, more)
             out == Oldest(filled, more)
  <2>1. /\ more <= filled.len /\ SetRing(d) /\ Wire(sent \o out)
        /\ \E posted \in BOOLEAN : armed' = (posted \/ more < filled.len)
    BY Zenon, <1>1, <1>18
  <2>2. RingOK(d) /\ d.len = filled.len - more /\ Holds(d, k + more)
    BY <1>9, <1>13, <2>1, DroppedLemma
  <2>3. InOrder(out, k) /\ Len(out) = more
    BY <1>9, <1>13, <2>1, OldestLemma
  <2> HIDE DEF d, out
  <2>4. InOrder(sent \o out, wired) /\ Len(sent \o out) = Len(sent) + more
    BY <1>2, <1>15, <1>16, <2>3, ConcatInOrder
  <2>5. wired' = wired + Len(sent \o out) /\ inOrder' = TRUE
    BY Zenon, <1>16, <2>1, <2>4, WireLemma
  <2>6. wired' = k + more
    BY <1>2, <1>6, <1>7, <1>15, <1>16, <2>4, <2>5
  <2>7. armed' \in BOOLEAN /\ (more < filled.len => armed' = TRUE)
    BY Zenon, <2>1
  <2>8. d.len > 0 => armed' = TRUE
    <3>1. d.len > 0 => more < filled.len
      BY <1>14, <2>2
    <3>2. QED
      BY Zenon, <2>7, <3>1
  <2>9. /\ wired' \in Nat /\ wired' >= wired /\ handed' >= handed
        /\ handed' <= MaxHanded /\ handed' = wired' + d.len
    <3>1. k \in Nat /\ k >= wired /\ k + filled.len = handed + n
      BY Zenon, <1>9, <1>14, <1>16
    <3>2. wired' \in Nat /\ wired' >= wired
      BY <1>2, <2>6, <3>1
    <3>3. handed' >= handed /\ handed' <= MaxHanded
      BY Zenon, <1>1, <1>16
    <3>4. handed' = wired' + d.len
      <4>1. handed + n = (k + more) + (filled.len - more)
        BY <1>14, <3>1
      <4>2. QED
        BY Zenon, <1>1, <2>2, <2>6, <4>1
    <3>5. QED
      BY Zenon, <3>2, <3>3, <3>4
  <2>10. Holds(d, wired')
    BY Zenon, <2>2, <2>6
  <2>11. QED
    BY Zenon, <1>16, <2>1, <2>2, <2>5, <2>7, <2>8, <2>9, <2>10, Settled
<1>19. QED
  BY Zenon, <1>17, <1>18

(* A send fails: the ring stays as it is, and nothing is asked of it.      *)
LEMMA FailsStep ==
    ASSUME SockInv, UNCHANGED << ring, wired, inOrder, armed >>,
           broken' = TRUE, handed' \in Nat, handed' >= handed,
           handed' <= MaxHanded
    PROVE  SockInv' /\ Onward
<1>1. /\ wired' \in 0 .. handed' /\ handed' \in 0 .. MaxHanded
      /\ wired' >= wired
  BY SockNumbers, SockConstants DEF ring
<1>2. {inOrder', armed', broken'} \subseteq BOOLEAN
  BY Zenon DEF SockInv, SockTypeOK
<1>3. SockTypeOK'
  BY Zenon, <1>1, <1>2 DEF SockInv, SockTypeOK, ring
<1>4. RingOK(Ring)'
  BY Zenon DEF SockInv, RingOK, Ring, ring
<1>5. QED
  BY Zenon, <1>1, <1>3, <1>4 DEF SockInv, Held, NeverStranded, Onward

(* FD_WRITE: the oldest bytes leave the ring.                              *)
LEMMA WriteMoreStep ==
    ASSUME SockInv, UTIL_sock_write_more
    PROVE  SockInv' /\ Onward
<1>1. PICK more \in 0 .. datalen :
          /\ SetRing(IF more = 0 THEN Ring ELSE Dropped(Ring, more))
          /\ Wire(Oldest(Ring, more))
          /\ armed' = (more < datalen)
  BY Zenon DEF UTIL_sock_write_more
<1> DEFINE r == IF more = 0 THEN Ring ELSE Dropped(Ring, more)
           out == Oldest(Ring, more)
<1>2. /\ more \in Nat /\ more <= datalen /\ datalen \in Nat
      /\ wired \in Nat /\ handed = wired + datalen /\ handed <= MaxHanded
      /\ handed \in Nat /\ Ring.len = datalen
  BY SockNumbers DEF UTIL_sock_write_more
<1>3. RingOK(Ring) /\ Holds(Ring, wired) /\ inOrder = TRUE /\ broken' = FALSE
  BY Zenon DEF SockInv, SockTypeOK, Held, UTIL_sock_write_more
<1>4. RingOK(r) /\ r.len = datalen - more /\ Holds(r, wired + more)
  <2>1. CASE more = 0
    <3>1. datalen - more = datalen /\ wired + more = wired
      BY <1>2, <2>1
    <3>2. QED
      BY Zenon, <1>2, <1>3, <2>1, <3>1
  <2>2. CASE more # 0
    <3>1. Ring.size > 0
      BY <1>2, <1>3, <2>2, RingNumbers
    <3>2. QED
      BY <1>2, <1>3, <2>2, <3>1, DroppedLemma
  <2>3. QED
    BY Zenon, <2>1, <2>2
<1>5. InOrder(out, wired) /\ Len(out) = more
  BY <1>2, <1>3, OldestLemma
<1>6. SetRing(r) /\ Wire(out) /\ armed' = (more < datalen) /\ handed' = handed
  BY Zenon, <1>1 DEF UTIL_sock_write_more
<1> HIDE DEF r, out
<1>7. wired' = wired + more /\ inOrder' = TRUE
  BY Zenon, <1>3, <1>5, <1>6, WireLemma
<1>8. /\ wired' \in Nat /\ wired' >= wired /\ handed' >= handed
      /\ handed' <= MaxHanded /\ handed' = wired' + r.len
  BY <1>2, <1>4, <1>6, <1>7
<1>9. r.len > 0 => more < datalen
  BY <1>2, <1>4
<1>10. armed' \in BOOLEAN /\ (r.len > 0 => armed' = TRUE)
  <2>1. (more < datalen) \in BOOLEAN
    OBVIOUS
  <2>2. QED
    BY Zenon, <1>6, <1>9, <2>1
<1>11. Holds(r, wired')
  BY Zenon, <1>4, <1>7
<1>12. QED
  BY Zenon, <1>3, <1>4, <1>6, <1>7, <1>8, <1>10, <1>11, Settled

(* The invariant is inductive, and the counters only grow.                 *)
LEMMA SockStep ==
    ASSUME SockInv, SockNext
    PROVE  SockInv' /\ Onward
<1>1. CASE UTIL_sock_buffered_write
  <2>1. PICK n \in 1 .. Smaller(MaxChunk, MaxHanded - handed) :
            \/ WriteThrough(n)
            \/ \E fast \in 0 .. n, more \in 0 .. WriteBufferSize :
                  WriteBehind(n, fast, more)
            \/ WriteFails(n)
    BY Zenon, <1>1 DEF UTIL_sock_buffered_write
  <2>2. n \in Nat /\ handed + n <= MaxHanded /\ handed + n \in Nat
        /\ handed + n >= handed
    BY SockNumbers, SockConstants DEF Smaller
  <2>3. ~broken
    BY Zenon, <1>1 DEF UTIL_sock_buffered_write
  <2>4. CASE WriteThrough(n)
    BY Zenon, <2>2, <2>3, <2>4, WriteThroughStep
  <2>5. ASSUME NEW fast \in 0 .. n, NEW more \in 0 .. WriteBufferSize,
               WriteBehind(n, fast, more)
        PROVE  SockInv' /\ Onward
    <3>1. more \in Nat
      BY SockConstants
    <3>2. QED
      BY Zenon, <2>2, <2>3, <2>5, <3>1, WriteBehindStep
  <2>6. CASE WriteFails(n)
    <3>1. /\ UNCHANGED << ring, wired, inOrder, armed >>
          /\ broken' = TRUE /\ handed' = handed + n
      BY Zenon, <2>6 DEF WriteFails
    <3>2. QED
      BY Zenon, <2>2, <3>1, FailsStep
  <2>7. QED
    BY Zenon, <2>1, <2>4, <2>5, <2>6
<1>2. CASE UTIL_sock_write_more
  BY Zenon, <1>2, WriteMoreStep
<1>3. CASE write_more_fails
  <2>1. /\ UNCHANGED << ring, wired, inOrder, armed >>
        /\ broken' = TRUE /\ handed' = handed
    BY Zenon, <1>3 DEF write_more_fails
  <2>2. handed \in Nat /\ handed >= handed /\ handed <= MaxHanded
    BY SockNumbers
  <2>3. QED
    BY Zenon, <2>1, <2>2, FailsStep
<1>4. QED
  BY Zenon, <1>1, <1>2, <1>3 DEF SockNext

(* It holds in the beginning.                                              *)
LEMMA SockInitInv == SockInit => SockInv
<1> SUFFICES ASSUME SockInit PROVE SockInv
  OBVIOUS
<1>1. RingOK(Ring) /\ Ring.len = 0
  BY SockConstants DEF SockInit, Ring, RingOK
<1>2. Holds(Ring, wired)
  BY <1>1 DEF Holds
<1>3. SockTypeOK
  <2>1. {inOrder, armed, broken} \subseteq BOOLEAN
    BY Zenon DEF SockInit
  <2>2. /\ buflen \in 0 .. WriteBufferSize /\ datalen \in 0 .. buflen
        /\ datastart \in 0 .. buflen
        /\ handed \in 0 .. MaxHanded /\ wired \in 0 .. handed
    BY SockConstants DEF SockInit
  <2>3. DOMAIN bufdata = IF buflen = 0 THEN {} ELSE 0 .. buflen - 1
    BY DEF SockInit
  <2>4. QED
    BY Zenon, <2>1, <2>2, <2>3 DEF SockTypeOK
<1>4. Held /\ inOrder = TRUE /\ NeverStranded
  BY <1>2 DEF Held, NeverStranded, SockInit
<1>5. QED
  BY Zenon, <1>1, <1>3, <1>4 DEF SockInv
-----------------------------------------------------------------------------
(* The invariant holds in every state.                                     *)
LEMMA SockInvariance == SockSpec => []SockInv
<1>1. ASSUME SockInv, UNCHANGED sockVars
      PROVE  SockInv'
  BY Zenon, <1>1 DEF SockInv, SockTypeOK, RingOK, Ring, Held, Holds,
     NeverStranded, sockVars
<1>2. SockInv /\ [SockNext]_sockVars => SockInv'
  BY Zenon, <1>1, SockStep
<1>3. QED
  BY SockInitInv, <1>2, PTL DEF SockSpec

(* Whatever the sizes, the ring stays inside its array and below the       *)
(* setting, and no more goes out than came in (util.c).                    *)
THEOREM SockTypeCorrect == SockSpec => []SockTypeOK
<1>1. SockInv => SockTypeOK
  BY Zenon DEF SockInv
<1>2. QED
  BY SockInvariance, <1>1, PTL

(* Bytes never wait in the ring of a standing connection without an        *)
(* FD_WRITE to come for them (UTIL_sock_buffered_write, _write_more).      *)
THEOREM SockNeverStranded == SockSpec => []NeverStranded
<1>1. SockInv => NeverStranded
  BY Zenon DEF SockInv
<1>2. QED
  BY SockInvariance, <1>1, PTL

(* The ring implements a byte stream: through every growth, wrap and       *)
(* overflow the socket gets the bytes in the order they were handed in,    *)
(* none lost and none doubled.                                             *)
THEOREM SockImplementsStream == SockSpec => SockIsStream
<1>1. SockInit => Sock!Init
  BY Zenon DEF SockInit, Sock!Init
<1>2. SockInv /\ SockInv' /\ [SockNext]_sockVars => [Sock!Move]_(Sock!stream)
  <2>1. ASSUME SockInv, SockInv', SockNext
        PROVE  Sock!Move
    <3>1. Onward
      BY Zenon, <2>1, SockStep
    <3>2. wired' <= handed'
      BY <2>1, SockConstants DEF SockInv, SockTypeOK
    <3>3. QED
      BY Zenon, <3>1, <3>2 DEF Onward, Sock!Move
  <2>2. UNCHANGED sockVars => UNCHANGED Sock!stream
    BY Zenon DEF sockVars, Sock!stream
  <2>3. QED
    BY Zenon, <2>1, <2>2
<1>3. QED
  BY SockInvariance, <1>1, <1>2, PTL DEF SockSpec, SockIsStream, Sock!Spec
=============================================================================
