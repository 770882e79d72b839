-------------------------- MODULE MacroLink_proof --------------------------
(***************************************************************************)
(* Proofs about MacroLink, for every size of the two buffers and every     *)
(* number of bytes, commands, requests for sync mode and timeouts.         *)
(***************************************************************************)
EXTENDS MacroLink, Sequences_proof

(* What travels to Tera Term and to the macro.  A command keeps the number *)
(* of its issue; only data comes with units.                               *)
Request == [kind : {"sync", "cmnd"}, id : Int, room : 0 .. RingBufSize]
Asked == { r \in Request : r.kind = "cmnd" => r.id \in 1 .. MaxCmnds }
Kinds == {"data", "ack", "nack", "cmndend", "disconnect", "ddeend"}
Reply == [kind : Kinds, id : Int, data : Seq(Unit)]
Told == { m \in Reply : m.kind # "data" => m.data = << >> }

(* The types of the five groups of variables.                              *)
TermTypes ==
    /\ put \in 0 .. MaxPut /\ dcount \in 0 .. DdeBuffSize /\ dcount <= put
    /\ SyncMode \in BOOLEAN /\ SyncRecv \in BOOLEAN /\ linked \in BOOLEAN
    /\ SyncFreeSpace \in 0 .. RingBufSize /\ job \in 0 .. MaxCmnds

WireTypes ==
    /\ toTerm \in Seq(Asked)
    /\ toMacro \in Seq(Told)

RingTypes ==
    /\ RingBuf \in Seq(Unit) /\ Len(RingBuf) <= RingBufSize
    /\ QuoteFlag \in BOOLEAN /\ MacroSync \in BOOLEAN /\ SyncSent \in BOOLEAN

RunTypes ==
    /\ Linked \in BOOLEAN
    /\ TTLStatus \in {"Run", "Wait", "WaitCmndEnd"} /\ idlePc \in {"sync", "rest"}
    /\ transact \in -(1 + MaxTimeouts) .. MaxCmnds
    /\ issued \in 0 .. MaxCmnds /\ syncs \in 0 .. MaxSyncs /\ timeouts \in 0 .. MaxTimeouts

HistoryTypes ==
    /\ read \in Nat
    /\ readInOrder \in BOOLEAN /\ clean \in BOOLEAN /\ misfit \in BOOLEAN

(* LinkTypeOK without the bound of read.                                   *)
LinkTypes == TermTypes /\ WireTypes /\ RingTypes /\ RunTypes /\ HistoryTypes
-----------------------------------------------------------------------------
(* Sequences and records.                                                  *)

(* The constants as the provers need them.                                 *)
LEMMA Constants ==
    /\ DdeBuffSize \in Nat /\ DdeBuffSize > 0 /\ RingBufSize \in Nat /\ RingBufSize > 0
    /\ PutMax \in Nat /\ PutMax > 0 /\ DdeRoom \in Nat /\ PutMax <= DdeRoom
    /\ CreditMargin \in Nat /\ CreditMargin > 0
    /\ MaxPut \in Nat /\ MaxCmnds \in Nat /\ MaxSyncs \in Nat /\ MaxTimeouts \in Nat
BY LinkConstants

(* A queue with a message more and one less.                               *)
LEMMA Queue ==
    ASSUME NEW S, NEW q \in Seq(S)
    PROVE  /\ Len(q) \in Nat
           /\ \A i \in 1 .. Len(q) : q[i] \in S
           /\ \A e \in S : /\ Append(q, e) \in Seq(S)
                           /\ Len(Append(q, e)) = Len(q) + 1
                           /\ Append(q, e)[Len(q) + 1] = e
                           /\ \A i \in 1 .. Len(q) : Append(q, e)[i] = q[i]
           /\ q # << >> => /\ Tail(q) \in Seq(S) /\ Len(q) > 0
                           /\ Head(q) \in S /\ Head(q) = q[1]
                           /\ Len(Tail(q)) = Len(q) - 1
                           /\ \A i \in 1 .. Len(q) - 1 : Tail(q)[i] = q[i + 1]
           /\ Len(q) = 0 => q = << >>
OBVIOUS

(* A sequence and some of its last elements.                               *)
LEMMA Dropped ==
    ASSUME NEW S, NEW q \in Seq(S), NEW n \in 0 .. Len(q)
    PROVE  /\ SubSeq(q, n + 1, Len(q)) \in Seq(S)
           /\ Len(SubSeq(q, n + 1, Len(q))) = Len(q) - n
           /\ \A i \in 1 .. Len(q) - n : SubSeq(q, n + 1, Len(q))[i] = q[n + i]
OBVIOUS

(* Two sequences, one behind the other.                                    *)
LEMMA Joined ==
    ASSUME NEW S, NEW q \in Seq(S), NEW r \in Seq(S)
    PROVE  /\ q \o r \in Seq(S)
           /\ Len(q \o r) = Len(q) + Len(r)
           /\ \A i \in 1 .. Len(q) : (q \o r)[i] = q[i]
           /\ \A i \in 1 .. Len(r) : (q \o r)[Len(q) + i] = r[i]
OBVIOUS

(* The fields of a request.                                                *)
LEMMA AskedFields ==
    ASSUME NEW r \in Asked
    PROVE  /\ r.kind \in {"sync", "cmnd"} /\ r.id \in Int /\ r.room \in 0 .. RingBufSize
           /\ r.kind = "cmnd" => r.id \in 1 .. MaxCmnds
BY DEF Asked, Request

(* A request that is made.                                                 *)
LEMMA AskIsAsked ==
    ASSUME NEW k \in {"sync", "cmnd"}, NEW i \in Int, NEW r \in 0 .. RingBufSize,
           k = "cmnd" => i \in 1 .. MaxCmnds
    PROVE  /\ Ask(k, i, r) \in Asked
           /\ Ask(k, i, r).kind = k /\ Ask(k, i, r).id = i /\ Ask(k, i, r).room = r
BY DEF Asked, Request, Ask

(* The fields of what is told.                                             *)
LEMMA ToldFields ==
    ASSUME NEW m \in Told
    PROVE  /\ m.kind \in Kinds /\ m.id \in Int /\ m.data \in Seq(Unit)
           /\ m.kind # "data" => m.data = << >>
BY DEF Told, Reply

(* What is told.                                                           *)
LEMMA TellIsTold ==
    ASSUME NEW k \in Kinds, NEW i \in Int, NEW d \in Seq(Unit),
           k # "data" => d = << >>
    PROVE  /\ Tell(k, i, d) \in Told
           /\ Tell(k, i, d).kind = k /\ Tell(k, i, d).id = i /\ Tell(k, i, d).data = d
BY DEF Told, Reply, Tell

(* The kinds of message that carry no data.                                *)
Dataless == {"ack", "nack", "cmndend", "disconnect", "ddeend"}

LEMMA DatalessKinds ==
    /\ "ack" \in Dataless /\ "nack" \in Dataless /\ "cmndend" \in Dataless
    /\ "disconnect" \in Dataless /\ "ddeend" \in Dataless
BY DEF Dataless

(* A message without data.                                                 *)
LEMMA Bare ==
    \A k \in Dataless, i \in Int :
        /\ Tell(k, i, << >>) \in Told
        /\ Tell(k, i, << >>).kind = k /\ Tell(k, i, << >>).id = i
        /\ Tell(k, i, << >>).data = << >>
<1>1. TAKE k \in Dataless, i \in Int
<1>2. k \in Kinds /\ << >> \in Seq(Unit)
  BY DEF Kinds, Dataless
<1>3. QED
  BY <1>2 DEF Tell, Told, Reply
-----------------------------------------------------------------------------
(* Steps that leave a group of variables alone.                            *)

(* Tera Term's own state.                                                  *)
LEMMA TermKept == TermTypes /\ UNCHANGED termVars => TermTypes'
BY Zenon DEF TermTypes, termVars

(* The macro's buffer.                                                     *)
LEMMA RingKept == RingTypes /\ UNCHANGED ringVars => RingTypes'
BY Zenon DEF RingTypes, ringVars

(* The run of the macro.                                                   *)
LEMMA RunKept == RunTypes /\ UNCHANGED runVars => RunTypes'
BY Zenon DEF RunTypes, runVars

(* What is remembered.                                                     *)
LEMMA HistoryKept == HistoryTypes /\ UNCHANGED linkHistory => HistoryTypes'
BY Zenon DEF HistoryTypes, linkHistory
-----------------------------------------------------------------------------
(* The bytes as they travel.                                               *)

(* Byte k, and the n bytes behind byte k.                                  *)
Code(k) == IF k \in Quoted THEN << << k, "quote" >>, << k, "low" >> >>
                           ELSE << << k, "raw" >> >>
Codes(k, n) == [i \in 1 .. n |-> Code(k + i)]
Coded(k, n) == FlattenSeq(Codes(k, n))

(* v follows u in what travels; s is such a run, and does not end between  *)
(* the two units of a byte.                                                *)
NextUnit(u, v) ==
    IF u[2] = "quote" THEN v[1] = u[1] /\ v[2] = "low"
                      ELSE v[1] = u[1] + 1 /\ v[2] # "low"
Chained(s) == \A i \in 1 .. Len(s) - 1 : NextUnit(s[i], s[i + 1])
Closed(s) == s # << >> => s[Len(s)][2] # "quote"

(* s is the units of the bytes from k + 1 to k + n.                        *)
Carries(s, k, n) ==
    /\ s \in Seq(Unit)
    /\ n = 0 => s = << >>
    /\ n > 0 => /\ Len(s) > 0 /\ s[1][1] = k + 1 /\ s[1][2] # "low"
                /\ s[Len(s)][1] = k + n
    /\ Chained(s) /\ Closed(s)

(* A unit and its parts.                                                   *)
LEMMA UnitParts ==
    \A u \in Unit : /\ u[1] \in 1 .. MaxPut /\ u[2] \in {"raw", "quote", "low"}
                    /\ u = << u[1], u[2] >>
BY DEF Unit

(* One byte travels as one unit or two.                                    *)
LEMMA CodeLemma ==
    ASSUME NEW k \in 1 .. MaxPut
    PROVE  /\ Code(k) \in Seq(Unit) /\ Len(Code(k)) \in 1 .. 2
           /\ Code(k)[1][1] = k /\ Code(k)[1][2] # "low"
           /\ Code(k)[Len(Code(k))][1] = k /\ Chained(Code(k)) /\ Closed(Code(k))
<1>1. CASE k \in Quoted
  <2>1. Code(k) = << << k, "quote" >>, << k, "low" >> >>
    BY <1>1 DEF Code
  <2>2. << k, "quote" >> \in Unit /\ << k, "low" >> \in Unit
    BY DEF Unit
  <2>3. QED
    BY <2>1, <2>2 DEF Chained, Closed, NextUnit
<1>2. CASE k \notin Quoted
  <2>1. Code(k) = << << k, "raw" >> >>
    BY <1>2 DEF Code
  <2>2. << k, "raw" >> \in Unit
    BY DEF Unit
  <2>3. QED
    BY <2>1, <2>2 DEF Chained, Closed, NextUnit
<1>3. QED
  BY <1>1, <1>2

(* A run and a run that follows it are a run.                              *)
LEMMA ChainJoin ==
    ASSUME NEW s \in Seq(Unit), NEW t \in Seq(Unit), Chained(s), Chained(t),
           s # << >> /\ t # << >> => NextUnit(s[Len(s)], t[1])
    PROVE  Chained(s \o t)
<1> DEFINE q == s \o t
           n == Len(s)
           m == Len(t)
<1>1. /\ n \in Nat /\ m \in Nat /\ Len(q) = n + m
      /\ \A i \in 1 .. n : q[i] = s[i]
      /\ \A i \in 1 .. m : q[n + i] = t[i]
      /\ n > 0 => s # << >>
      /\ m > 0 => t # << >>
  BY Joined
<1>2. /\ \A i \in 1 .. n - 1 : NextUnit(s[i], s[i + 1])
      /\ \A i \in 1 .. m - 1 : NextUnit(t[i], t[i + 1])
      /\ n > 0 /\ m > 0 => NextUnit(s[n], t[1])
  BY Zenon, <1>1 DEF Chained
<1> HIDE DEF q, n, m
<1>3. ASSUME NEW i \in 1 .. Len(q) - 1
      PROVE  NextUnit(q[i], q[i + 1])
  <2>1. CASE i < n
    <3>1. i \in 1 .. n - 1 /\ q[i] = s[i] /\ q[i + 1] = s[i + 1]
      BY <1>1, <2>1
    <3>2. QED
      BY Zenon, <1>2, <3>1
  <2>2. CASE i = n
    <3>1. n > 0 /\ m > 0 /\ q[i] = s[n] /\ q[i + 1] = t[1]
      BY <1>1, <2>2
    <3>2. QED
      BY Zenon, <1>2, <3>1
  <2>3. CASE i > n
    <3>1. /\ i - n \in 1 .. m - 1 /\ q[n + (i - n)] = t[i - n]
          /\ q[n + (i - n + 1)] = t[i - n + 1] /\ n + (i - n) = i
          /\ n + (i - n + 1) = i + 1
      BY <1>1, <2>3
    <3>2. q[i] = t[i - n] /\ q[i + 1] = t[i - n + 1]
      BY Zenon, <3>1
    <3>3. QED
      BY Zenon, <1>2, <3>1, <3>2
  <2>4. QED
    BY <1>1, <2>1, <2>2, <2>3
<1>4. Chained(q)
  BY Zenon, <1>3 DEF Chained
<1>5. QED
  BY Zenon, <1>4 DEF q

(* What is left of a run without its first n units.                        *)
LEMMA ChainDrop ==
    ASSUME NEW s \in Seq(Unit), NEW n \in 0 .. Len(s), Chained(s)
    PROVE  Chained(SubSeq(s, n + 1, Len(s)))
<1> DEFINE q == SubSeq(s, n + 1, Len(s))
           m == Len(s)
<1>1. /\ m \in Nat /\ n <= m /\ n \in Nat /\ Len(q) = m - n
      /\ \A i \in 1 .. m - n : q[i] = s[n + i]
  BY Dropped
<1>2. \A i \in 1 .. m - 1 : NextUnit(s[i], s[i + 1])
  BY Zenon DEF Chained
<1> HIDE DEF q, m
<1>3. ASSUME NEW i \in 1 .. Len(q) - 1
      PROVE  NextUnit(q[i], q[i + 1])
  <2>1. /\ n + i \in 1 .. m - 1 /\ q[i] = s[n + i] /\ q[i + 1] = s[n + (i + 1)]
        /\ n + (i + 1) = n + i + 1
    BY <1>1
  <2>2. q[i + 1] = s[n + i + 1]
    BY Zenon, <2>1
  <2>3. QED
    BY Zenon, <1>2, <2>1, <2>2
<1>4. Chained(q)
  BY Zenon, <1>3 DEF Chained
<1>5. QED
  BY Zenon, <1>4 DEF q

(* A byte more.                                                            *)
LEMMA CodedGrows ==
    ASSUME NEW k \in Nat, NEW n \in Nat, k + n + 1 <= MaxPut,
           Codes(k, n) \in Seq(Seq(Unit))
    PROVE  /\ Codes(k, n + 1) \in Seq(Seq(Unit))
           /\ Coded(k, n) \in Seq(Unit)
           /\ Coded(k, n + 1) = Coded(k, n) \o Code(k + n + 1)
<1> DEFINE c == Code(k + n + 1)
           q == Codes(k, n)
           r == Codes(k, n + 1)
           a == Append(q, c)
<1>1. k + n + 1 \in 1 .. MaxPut
  BY LinkConstants
<1>2. c \in Seq(Unit)
  BY Zenon, <1>1, CodeLemma
<1>3. /\ Len(q) = n /\ Len(r) = n + 1
      /\ \A i \in 1 .. n : q[i] = Code(k + i) /\ r[i] = Code(k + i)
      /\ r[n + 1] = Code(k + (n + 1))
  BY DEF Codes
<1>4. r[n + 1] = c
  <2>1. k + (n + 1) = k + n + 1
    OBVIOUS
  <2>2. QED
    BY Zenon, <1>3, <2>1
<1> HIDE DEF c, q, r
<1>5. /\ a \in Seq(Seq(Unit)) /\ Len(a) = n + 1
      /\ \A i \in 1 .. n : a[i] = q[i]
      /\ a[n + 1] = c
  <2>1. q \in Seq(Seq(Unit)) /\ c \in Seq(Unit)
    BY Zenon, <1>2 DEF q
  <2>2. QED
    BY <1>3, <2>1, Queue
<1> HIDE DEF a
<1>6. \A i \in 1 .. n + 1 : r[i] = a[i]
  <2>1. TAKE i \in 1 .. n + 1
  <2>2. CASE i = n + 1
    BY Zenon, <2>2, <1>4, <1>5
  <2>3. CASE i # n + 1
    <3>1. i \in 1 .. n
      BY <2>3
    <3>2. QED
      BY Zenon, <3>1, <1>3, <1>5
  <2>4. QED
    BY Zenon, <2>2, <2>3
<1>7. r \in Seq(Seq(Unit))
  <2>1. r = [i \in 1 .. n + 1 |-> Code(k + i)]
    BY Zenon DEF Codes, r
  <2>2. \A i \in 1 .. n + 1 : r[i] \in Seq(Unit)
    BY <1>5, <1>6
  <2> DEFINE S == Seq(Unit)
  <2> HIDE DEF S
  <2>3. \A i \in 1 .. n + 1 : Code(k + i) \in S
    BY Zenon, <2>1, <2>2 DEF S
  <2>4. r \in Seq(S)
    BY <2>1, <2>3
  <2>5. QED
    BY Zenon, <2>4 DEF S
<1>8. r = a
  <2> DEFINE S == Seq(Unit)
  <2> HIDE DEF S
  <2>1. r \in Seq(S) /\ a \in Seq(S)
    BY Zenon, <1>5, <1>7 DEF S
  <2>2. QED
    BY <1>3, <1>5, <1>6, <2>1
<1>9. FlattenSeq(q) \in Seq(Unit) /\ FlattenSeq(Append(q, c)) = FlattenSeq(q) \o c
  <2>1. q \in Seq(Seq(Unit)) /\ c \in Seq(Unit)
    BY Zenon, <1>2 DEF q
  <2>2. QED
    BY <2>1, FlattenParts
<1>10. QED
  BY Zenon, <1>7, <1>8, <1>9 DEF Coded, q, r, a, c

(* A run carries the bytes it is made of.                                  *)
LEMMA CarriesMore ==
    ASSUME NEW k \in Nat, NEW n \in Nat, k + n + 1 <= MaxPut,
           NEW s, Carries(s, k, n)
    PROVE  /\ Carries(s \o Code(k + n + 1), k, n + 1)
           /\ Len(s \o Code(k + n + 1)) \in Len(s) + 1 .. Len(s) + 2
<1> DEFINE c == Code(k + n + 1)
           q == s \o c
<1>1. k + n + 1 \in 1 .. MaxPut
  BY LinkConstants
<1>2. /\ c \in Seq(Unit) /\ Len(c) \in 1 .. 2 /\ c[1][1] = k + n + 1 /\ c[1][2] # "low"
      /\ c[Len(c)][1] = k + n + 1 /\ Chained(c) /\ Closed(c)
  BY Zenon, <1>1, CodeLemma
<1>3. /\ s \in Seq(Unit) /\ Chained(s) /\ Closed(s)
      /\ n = 0 => s = << >>
      /\ n > 0 => Len(s) > 0 /\ s[1][1] = k + 1 /\ s[1][2] # "low" /\ s[Len(s)][1] = k + n
  BY Zenon DEF Carries
<1> HIDE DEF c
<1>4. s # << >> /\ c # << >> => NextUnit(s[Len(s)], c[1])
  <2> SUFFICES ASSUME s # << >> PROVE NextUnit(s[Len(s)], c[1])
    OBVIOUS
  <2>1. s[Len(s)][2] # "quote"
    BY Zenon, <1>3 DEF Closed
  <2>2. n > 0
    BY <1>3
  <2>3. s[Len(s)][1] + 1 = k + n + 1
    BY <1>3, <2>2
  <2>4. QED
    BY Zenon, <1>2, <2>1, <2>3 DEF NextUnit
<1>5. Chained(q)
  BY <1>2, <1>3, <1>4, ChainJoin
<1>6. /\ q \in Seq(Unit) /\ Len(q) = Len(s) + Len(c) /\ Len(s) \in Nat
      /\ \A i \in 1 .. Len(s) : q[i] = s[i]
      /\ \A i \in 1 .. Len(c) : q[Len(s) + i] = c[i]
  BY <1>2, <1>3, Joined
<1> HIDE DEF q
<1>7. q[Len(q)] = c[Len(c)]
  BY <1>2, <1>6
<1>8. q # << >>
  BY <1>2, <1>6
<1>9. Closed(q)
  <2>1. c # << >>
    BY <1>2
  <2>2. QED
    BY Zenon, <1>2, <1>7, <2>1 DEF Closed
<1>10. q[1][1] = k + 1 /\ q[1][2] # "low"
  <2>1. CASE n = 0
    <3>1. Len(s) = 0
      BY <1>3, <2>1
    <3>2. q[1] = c[1]
      BY <1>2, <1>6, <3>1
    <3>3. QED
      BY <1>2, <3>2, <2>1
  <2>2. CASE n > 0
    <3>1. q[1] = s[1]
      BY <1>3, <1>6, <2>2
    <3>2. QED
      BY Zenon, <1>3, <3>1, <2>2
  <2>3. QED
    BY <2>1, <2>2
<1>11. q[Len(q)][1] = k + (n + 1)
  BY <1>2, <1>7
<1>12. Len(q) > 0 /\ Len(q) \in Len(s) + 1 .. Len(s) + 2
  BY <1>2, <1>6
<1>13. n + 1 # 0
  OBVIOUS
<1>14. Carries(q, k, n + 1)
  BY Zenon, <1>5, <1>6, <1>9, <1>10, <1>11, <1>12, <1>13 DEF Carries
<1>15. QED
  BY Zenon, <1>12, <1>14 DEF q, c

(* What travels of n bytes carries them.                                   *)
LEMMA CodedCarries ==
    ASSUME NEW k \in Nat, NEW n \in Nat, k + n <= MaxPut
    PROVE  /\ Carries(Coded(k, n), k, n)
           /\ n > 0 => Len(Coded(k, n)) \in Len(Coded(k, n - 1)) + 1 .. Len(Coded(k, n - 1)) + 2
<1> DEFINE Good(j) == /\ Codes(k, j) \in Seq(Seq(Unit)) /\ Carries(Coded(k, j), k, j)
                      /\ j > 0 => Len(Coded(k, j)) \in Len(Coded(k, j - 1)) + 1 .. Len(Coded(k, j - 1)) + 2
           S == { j \in Nat : k + j <= MaxPut => Good(j) }
<1>1. 0 \in S
  <2>1. Codes(k, 0) = << >>
    BY DEF Codes
  <2>2. Coded(k, 0) = << >>
    BY Zenon, <2>1, FlattenAppend DEF Coded
  <2>3. << >> \in Seq(Seq(Unit)) /\ << >> \in Seq(Unit) /\ Len(<< >>) = 0 /\ ~(0 > 0)
    OBVIOUS
  <2>4. Chained(<< >>) /\ Closed(<< >>)
    BY DEF Chained, Closed
  <2>5. Carries(<< >>, k, 0)
    BY Zenon, <2>3, <2>4 DEF Carries
  <2>6. Good(0)
    BY Zenon, <2>1, <2>2, <2>3, <2>5
  <2>7. QED
    BY Zenon, <2>6
<1>2. ASSUME NEW j \in Nat, j \in S
      PROVE  j + 1 \in S
  <2>0. j + 1 \in Nat
    OBVIOUS
  <2> SUFFICES ASSUME k + (j + 1) <= MaxPut PROVE Good(j + 1)
    BY Zenon, <2>0
  <2>1. k + j + 1 <= MaxPut /\ k + j <= MaxPut /\ j + 1 - 1 = j
    BY LinkConstants
  <2>2. Good(j)
    BY Zenon, <1>2, <2>1
  <2>3. /\ Codes(k, j + 1) \in Seq(Seq(Unit))
        /\ Coded(k, j + 1) = Coded(k, j) \o Code(k + j + 1)
    BY <2>1, <2>2, CodedGrows
  <2>4. /\ Carries(Coded(k, j) \o Code(k + j + 1), k, j + 1)
        /\ Len(Coded(k, j) \o Code(k + j + 1)) \in Len(Coded(k, j)) + 1 .. Len(Coded(k, j)) + 2
    BY <2>1, <2>2, CarriesMore
  <2>5. Coded(k, j + 1 - 1) = Coded(k, j)
    BY Zenon, <2>1
  <2>6. Carries(Coded(k, j + 1), k, j + 1)
    BY Zenon, <2>3, <2>4
  <2>7. Len(Coded(k, j + 1)) \in Len(Coded(k, j + 1 - 1)) + 1 .. Len(Coded(k, j + 1 - 1)) + 2
    <3>1. Len(Coded(k, j + 1)) \in Len(Coded(k, j)) + 1 .. Len(Coded(k, j)) + 2
      BY Zenon, <2>3, <2>4
    <3>2. QED
      BY Zenon, <2>5, <3>1
  <2>8. QED
    BY <2>3, <2>6, <2>7
<1> HIDE DEF S
<1>3. n \in S
  BY <1>1, <1>2, SetInduction
<1>4. QED
  BY Zenon, <1>3 DEF S

(* The length at which so many units are reached first.                    *)
LEMMA FirstReach ==
    ASSUME NEW k \in Nat, NEW d \in Nat, k + d <= MaxPut, NEW room \in Nat,
           Len(Coded(k, d)) >= room
    PROVE  \E n \in 0 .. d : /\ Len(Coded(k, n)) >= room
                             /\ \A m \in 0 .. n - 1 : Len(Coded(k, m)) < room
<1> DEFINE L(n) == Len(Coded(k, n))
           First(n) == L(n) >= room /\ \A m \in 0 .. n - 1 : L(m) < room
           S == { j \in Nat : j <= d => \/ \E n \in 0 .. j : First(n)
                                        \/ \A m \in 0 .. j : L(m) < room }
<1>1. \A n \in 0 .. d : L(n) \in Nat
  <2>1. TAKE n \in 0 .. d
  <2>2. n \in Nat /\ k + n <= MaxPut
    BY LinkConstants
  <2>3. Carries(Coded(k, n), k, n)
    BY <2>2, CodedCarries
  <2>4. Coded(k, n) \in Seq(Unit)
    BY Zenon, <2>3 DEF Carries
  <2>5. QED
    BY <2>4, Queue
<1> HIDE DEF L
<1>2. 0 \in S
  <2>1. L(0) \in Nat
    BY <1>1
  <2>2. L(0) < room \/ First(0)
    BY <2>1
  <2> HIDE DEF First
  <2>3. QED
    BY <2>2
<1>3. ASSUME NEW j \in Nat, j \in S
      PROVE  j + 1 \in S
  <2> SUFFICES ASSUME j + 1 <= d
               PROVE  \/ \E n \in 0 .. j + 1 : First(n)
                      \/ \A m \in 0 .. j + 1 : L(m) < room
    OBVIOUS
  <2>1. L(j + 1) \in Nat
    BY <1>1
  <2>2. CASE \E n \in 0 .. j : First(n)
    <3> HIDE DEF First
    <3>1. QED
      BY <2>2
  <2>3. CASE \A m \in 0 .. j : L(m) < room
    <3>1. L(j + 1) < room \/ First(j + 1)
      BY <2>1, <2>3
    <3> HIDE DEF First
    <3>2. QED
      BY <2>3, <3>1
  <2>4. QED
    <3> HIDE DEF First
    <3>1. QED
      BY <1>3, <2>2, <2>3
<1> HIDE DEF S
<1>4. d \in S
  BY <1>2, <1>3, SetInduction
<1>5. L(d) >= room /\ L(d) \in Nat
  BY <1>1 DEF L
<1>6. \E n \in 0 .. d : First(n)
  <2> HIDE DEF First
  <2>1. QED
    BY <1>4, <1>5 DEF S
<1>7. QED
  BY Zenon, <1>6 DEF L

(* Wired takes its bytes from the oldest one that cv_LogBuf holds on.      *)
LEMMA WiredIsCoded == \A n : Wired(n) = Coded(put - dcount, n)
BY DEF Wired, Coded, Codes, Code

(* What AcceptRequest takes: nothing that the macro has no room for.       *)
LEMMA TakenLemma ==
    ASSUME TermTypes, NEW room \in Nat
    PROVE  /\ Taken(room) \in 0 .. dcount
           /\ Carries(Wired(Taken(room)), put - dcount, Taken(room))
           /\ SyncMode => Len(Wired(Taken(room))) <= room + 1
           /\ SyncMode /\ room = 0 => Len(Wired(Taken(room))) = 0
<1> DEFINE k == put - dcount
           n == Taken(room)
           L(j) == Len(Coded(k, j))
<1>1. k \in Nat /\ dcount \in Nat /\ k + dcount <= MaxPut
  BY LinkConstants DEF TermTypes
<1>2. \A j \in 0 .. dcount :
        /\ Carries(Coded(k, j), k, j) /\ L(j) \in Nat
        /\ j = 0 => L(j) = 0
        /\ j > 0 => L(j) \in L(j - 1) + 1 .. L(j - 1) + 2
  <2>1. TAKE j \in 0 .. dcount
  <2>2. j \in Nat /\ k + j <= MaxPut
    BY <1>1, LinkConstants
  <2> HIDE DEF k
  <2>3. Carries(Coded(k, j), k, j) /\ (j > 0 => L(j) \in L(j - 1) + 1 .. L(j - 1) + 2)
    BY <1>1, <2>2, CodedCarries
  <2>4. Coded(k, j) \in Seq(Unit) /\ (j = 0 => Coded(k, j) = << >>)
    BY Zenon, <2>3 DEF Carries
  <2>5. L(j) \in Nat /\ (j = 0 => L(j) = 0)
    BY <2>4, Queue
  <2>6. QED
    BY Zenon, <2>3, <2>5
<1> HIDE DEF L, k
<1>3. /\ \A j : Len(Wired(j)) = L(j)
      /\ \A j : Wired(j) = Coded(k, j)
  BY Zenon, WiredIsCoded DEF L, k
<1> DEFINE Reach(j) == L(j) >= room /\ \A m \in 0 .. j - 1 : L(m) < room
           Meets(j) == /\ Len(Wired(j)) >= room
                       /\ \A m \in 0 .. j - 1 : Len(Wired(m)) < room
<1>4. /\ SyncMode /\ L(dcount) > room => n = CHOOSE j \in 0 .. dcount : Meets(j)
      /\ ~(SyncMode /\ L(dcount) > room) => n = dcount
  <2>1. Len(Wired(dcount)) = L(dcount)
    BY Zenon, <1>3
  <2>2. n = IF SyncMode /\ Len(Wired(dcount)) > room
            THEN CHOOSE j \in 0 .. dcount : Meets(j) ELSE dcount
    BY Zenon DEF Taken
  <2> HIDE DEF n, Meets
  <2>3. QED
    BY <2>1, <2>2
<1>. \A j : Meets(j) => Reach(j)
  BY Zenon, <1>3
<1>. \A j : Reach(j) => Meets(j)
  BY Zenon, <1>3
<1> HIDE DEF Meets
<1>5. n \in 0 .. dcount /\ (SyncMode => Reach(n) \/ (n = dcount /\ L(dcount) <= room))
  <2> L(dcount) \in Nat
    BY <1>1, <1>2
  <2>1. CASE SyncMode /\ L(dcount) > room
    <3>1. Len(Coded(k, dcount)) >= room
      BY <2>1 DEF L
    <3>2. \E j \in 0 .. dcount : /\ Len(Coded(k, j)) >= room
                                 /\ \A m \in 0 .. j - 1 : Len(Coded(k, m)) < room
      BY <1>1, <3>1, FirstReach
    <3>3. \E j \in 0 .. dcount : Reach(j)
      BY Zenon, <3>2 DEF L
    <3>4. n = CHOOSE j \in 0 .. dcount : Meets(j)
      BY Zenon, <1>4, <2>1
    <3> HIDE DEF Reach, n
    <3>5. \E j \in 0 .. dcount : Meets(j)
      BY Zenon, <3>3
    <3>6. n \in 0 .. dcount /\ Meets(n)
      BY Zenon, <3>4, <3>5
    <3>7. QED
      BY Zenon, <3>6
  <2>2. CASE ~(SyncMode /\ L(dcount) > room)
    <3>1. n = dcount
      BY Zenon, <1>4, <2>2
    <3> HIDE DEF n, Reach
    <3>2. SyncMode => L(dcount) <= room
      BY <2>2
    <3>3. QED
      BY <1>1, <3>1, <3>2
  <2>3. QED
    BY Zenon, <2>1, <2>2
<1> HIDE DEF n
<1>6. /\ Carries(Coded(k, n), k, n) /\ L(n) \in Nat
      /\ n = 0 => L(n) = 0
      /\ n > 0 => L(n) \in L(n - 1) + 1 .. L(n - 1) + 2
  BY Zenon, <1>2, <1>5
<1>7. SyncMode => L(n) <= room + 1 /\ (room = 0 => L(n) = 0)
  <2> SUFFICES ASSUME SyncMode PROVE L(n) <= room + 1 /\ (room = 0 => L(n) = 0)
    OBVIOUS
  <2>1. CASE Reach(n)
    <3>1. CASE n = 0
      BY <1>6, <3>1
    <3>2. CASE n # 0
      <4>1. n - 1 \in 0 .. n - 1 /\ n > 0 /\ n - 1 \in 0 .. dcount
        BY <1>1, <1>5, <3>2
      <4>2. L(n - 1) < room /\ L(n - 1) \in Nat
        BY <1>2, <2>1, <4>1
      <4>3. QED
        BY <1>6, <4>1, <4>2
    <3>3. QED
      BY Zenon, <3>1, <3>2
  <2>2. CASE n = dcount /\ L(dcount) <= room
    BY <1>6, <2>2
  <2>3. QED
    BY Zenon, <1>5, <2>1, <2>2
<1>8. QED
  BY Zenon, <1>3, <1>5, <1>6, <1>7 DEF n, k
-----------------------------------------------------------------------------
(* LinkTypes is inductive.                                                 *)

(* At the start.                                                           *)
LEMMA TypesInit == LinkInit => LinkTypes
<1> SUFFICES ASSUME LinkInit PROVE LinkTypes
  OBVIOUS
<1>1. TermTypes
  <2>1. put = 0 /\ dcount = 0 /\ SyncFreeSpace = 0 /\ job = 0
    BY Zenon DEF LinkInit
  <2>2. /\ put \in 0 .. MaxPut /\ dcount \in 0 .. DdeBuffSize /\ dcount <= put
        /\ SyncFreeSpace \in 0 .. RingBufSize /\ job \in 0 .. MaxCmnds
    BY <2>1, Constants
  <2>3. SyncMode \in BOOLEAN /\ SyncRecv \in BOOLEAN /\ linked \in BOOLEAN
    BY Zenon DEF LinkInit
  <2>4. QED
    BY Zenon, <2>2, <2>3 DEF TermTypes
<1>2. WireTypes
  BY DEF LinkInit, WireTypes
<1>3. RingTypes
  <2>1. RingBuf \in Seq(Unit) /\ Len(RingBuf) <= RingBufSize
    BY Constants DEF LinkInit
  <2>2. QED
    BY Zenon, <2>1 DEF LinkInit, RingTypes
<1>4. RunTypes
  BY LinkConstants DEF LinkInit, RunTypes
<1>5. HistoryTypes
  BY DEF LinkInit, HistoryTypes
<1>6. QED
  BY <1>1, <1>2, <1>3, <1>4, <1>5 DEF LinkTypes

(* Tera Term takes a character from the host.                              *)
LEMMA TypesDDEPut1 == LinkTypes /\ DDEPut1 => LinkTypes'
<1> SUFFICES ASSUME LinkTypes, DDEPut1 PROVE LinkTypes'
  OBVIOUS
<1>1. TermTypes'
  <2>1. TermTypes
    BY Zenon DEF LinkTypes
  <2>2. PICK n \in 1 .. PutMax :
          /\ put + n <= MaxPut
          /\ put' = put + n
          /\ dcount' = IF dcount + n > DdeBuffSize THEN DdeBuffSize ELSE dcount + n
    BY Zenon DEF DDEPut1
  <2>3. UNCHANGED << SyncMode, SyncRecv, SyncFreeSpace, job, linked >>
    BY Zenon DEF DDEPut1
  <2>4. put' \in 0 .. MaxPut /\ dcount' \in 0 .. DdeBuffSize /\ dcount' <= put'
    BY <2>1, <2>2, LinkConstants DEF TermTypes
  <2>5. QED
    BY Zenon, <2>1, <2>3, <2>4 DEF TermTypes
<1>2. WireTypes' /\ RingTypes' /\ RunTypes' /\ HistoryTypes'
  <2>1. UNCHANGED << toTerm, toMacro, ringVars, runVars, linkHistory >>
    BY Zenon DEF DDEPut1
  <2>2. QED
    BY Zenon, <2>1, RingKept, RunKept, HistoryKept DEF LinkTypes, WireTypes
<1>3. QED
  BY Zenon, <1>1, <1>2 DEF LinkTypes

(* Tera Term sends what it holds.                                          *)
LEMMA TypesDDEAdv == LinkTypes /\ DDEAdv => LinkTypes'
<1> SUFFICES ASSUME LinkTypes, DDEAdv PROVE LinkTypes'
  OBVIOUS
<1> DEFINE room == IF SyncFreeSpace < CreditMargin THEN 0 ELSE SyncFreeSpace - CreditMargin
<1>1. TermTypes /\ WireTypes
  BY Zenon DEF LinkTypes
<1>2. /\ SyncFreeSpace' = room
      /\ toMacro' = Append(toMacro, Tell("data", 0, Wired(Taken(room))))
      /\ dcount' = dcount - Taken(room)
      /\ SyncRecv' = FALSE
      /\ UNCHANGED << put, SyncMode, job, linked, toTerm, ringVars, runVars, linkHistory >>
  BY Zenon DEF DDEAdv
<1>3. room \in 0 .. RingBufSize /\ room \in Nat
  BY <1>1, LinkConstants DEF TermTypes
<1> HIDE DEF room
<1>4. Taken(room) \in 0 .. dcount /\ Wired(Taken(room)) \in Seq(Unit)
  <2>1. Taken(room) \in 0 .. dcount /\ Carries(Wired(Taken(room)), put - dcount, Taken(room))
    BY Zenon, <1>1, <1>3, TakenLemma
  <2>2. QED
    BY Zenon, <2>1 DEF Carries
<1>5. TermTypes'
  <2>1. dcount' \in 0 .. DdeBuffSize /\ dcount' <= put
    <3>1. /\ dcount \in 0 .. DdeBuffSize /\ dcount <= put /\ put \in 0 .. MaxPut
          /\ dcount' = dcount - Taken(room) /\ Taken(room) \in 0 .. dcount
      BY Zenon, <1>1, <1>2, <1>4 DEF TermTypes
    <3>2. DdeBuffSize \in Nat /\ MaxPut \in Nat
      BY LinkConstants
    <3>3. PICK x : x = Taken(room)
      OBVIOUS
    <3>4. x \in 0 .. dcount /\ dcount' = dcount - x
      BY Zenon, <3>1, <3>3
    <3>5. QED
      BY <3>1, <3>2, <3>4
  <2>2. QED
    BY Zenon, <1>1, <1>2, <1>3, <2>1 DEF TermTypes
<1>6. WireTypes'
  <2>1. "data" \in Kinds /\ 0 \in Int
    BY DEF Kinds
  <2>2. Tell("data", 0, Wired(Taken(room))) \in Told
    BY <1>4, <2>1, TellIsTold
  <2>3. toMacro' \in Seq(Told)
    BY <1>1, <1>2, <2>2, Queue DEF WireTypes
  <2>4. QED
    BY Zenon, <1>1, <1>2, <2>3 DEF WireTypes
<1>7. RingTypes' /\ RunTypes' /\ HistoryTypes'
  BY Zenon, <1>2, RingKept, RunKept, HistoryKept DEF LinkTypes
<1>8. QED
  BY Zenon, <1>5, <1>6, <1>7 DEF LinkTypes

(* Tera Term carries out a command.                                        *)
LEMMA TypesAcceptExecute == LinkTypes /\ AcceptExecute => LinkTypes'
<1> SUFFICES ASSUME LinkTypes, AcceptExecute PROVE LinkTypes'
  OBVIOUS
<1> DEFINE c == Head(toTerm)
<1>1. TermTypes /\ WireTypes /\ HistoryTypes
  BY Zenon DEF LinkTypes
<1>2. /\ toTerm # << >> /\ toTerm' = Tail(toTerm)
      /\ CmdSetSync(c) \/ CmdStart(c)
      /\ UNCHANGED << put, dcount, linked, ringVars, runVars, read, readInOrder, misfit >>
  BY Zenon DEF AcceptExecute
<1>3. c \in Asked /\ toTerm' \in Seq(Asked)
  BY <1>1, <1>2, Queue DEF WireTypes
<1> HIDE DEF c
<1>4. /\ c.kind \in {"sync", "cmnd"} /\ c.id \in Int /\ c.room \in 0 .. RingBufSize
      /\ c.kind = "cmnd" => c.id \in 1 .. MaxCmnds
  BY Zenon, <1>3, AskedFields
<1>5. \A k \in {"ack", "nack"} : Append(toMacro, Tell(k, c.id, << >>)) \in Seq(Told)
  <2>1. TAKE k \in {"ack", "nack"}
  <2>2. k \in Kinds /\ << >> \in Seq(Unit)
    BY DEF Kinds
  <2>3. Tell(k, c.id, << >>) \in Told
    BY Zenon, <1>4, <2>2, TellIsTold
  <2>4. QED
    BY <1>1, <2>3, Queue DEF WireTypes
<1>6. CASE CmdSetSync(c)
  <2>1. /\ SyncFreeSpace' = c.room /\ SyncMode' = (c.room > 0) /\ SyncRecv' = TRUE
        /\ toMacro' = Append(toMacro, Tell("ack", c.id, << >>))
        /\ clean' = (c.room > 0 /\ (clean \/ put = 0))
        /\ UNCHANGED job
    BY Zenon, <1>6 DEF CmdSetSync
  <2>2. SyncMode' \in BOOLEAN /\ SyncRecv' \in BOOLEAN /\ clean' \in BOOLEAN
    BY <2>1
  <2>3. TermTypes'
    BY Zenon, <1>1, <1>2, <1>4, <2>1, <2>2 DEF TermTypes
  <2>4. WireTypes' /\ HistoryTypes'
    BY Zenon, <1>1, <1>2, <1>3, <1>5, <2>1, <2>2 DEF WireTypes, HistoryTypes
  <2>5. QED
    BY Zenon, <1>2, <2>3, <2>4, RingKept, RunKept DEF LinkTypes
<1>7. CASE CmdStart(c)
  <2>1. PICK ok \in {FALSE, job = 0} :
          /\ job' = IF ok THEN c.id ELSE job
          /\ toMacro' = Append(toMacro, Tell(IF ok THEN "ack" ELSE "nack", c.id, << >>))
    BY Zenon, <1>7 DEF CmdStart
  <2>2. c.kind = "cmnd" /\ UNCHANGED << SyncMode, SyncRecv, SyncFreeSpace, clean >>
    BY Zenon, <1>7 DEF CmdStart
  <2>3. job' \in 0 .. MaxCmnds
    BY <1>1, <1>4, <2>1, <2>2, LinkConstants DEF TermTypes
  <2>4. (IF ok THEN "ack" ELSE "nack") \in {"ack", "nack"}
    BY Zenon
  <2>5. TermTypes'
    BY Zenon, <1>1, <1>2, <2>2, <2>3 DEF TermTypes
  <2>6. toMacro' \in Seq(Told)
    BY Zenon, <1>5, <2>1, <2>4
  <2>7. WireTypes' /\ HistoryTypes'
    BY Zenon, <1>1, <1>2, <1>3, <2>2, <2>6 DEF WireTypes, HistoryTypes
  <2>8. QED
    BY Zenon, <1>2, <2>5, <2>7, RingKept, RunKept DEF LinkTypes
<1>8. QED
  BY Zenon, <1>2, <1>6, <1>7

(* A command ends.                                                         *)
LEMMA TypesEndDdeCmnd == LinkTypes /\ EndDdeCmnd => LinkTypes'
<1> SUFFICES ASSUME LinkTypes, EndDdeCmnd PROVE LinkTypes'
  OBVIOUS
<1>1. TermTypes /\ WireTypes
  BY Zenon DEF LinkTypes
<1>2. /\ toMacro' = Append(toMacro, Tell("cmndend", job, << >>)) /\ job' = 0
      /\ UNCHANGED << put, dcount, SyncMode, SyncRecv, SyncFreeSpace, linked, toTerm,
                      ringVars, runVars, linkHistory >>
  BY Zenon DEF EndDdeCmnd
<1>3. job' \in 0 .. MaxCmnds /\ job \in Int
  BY <1>1, <1>2, LinkConstants DEF TermTypes
<1>4. "cmndend" \in Kinds /\ << >> \in Seq(Unit)
  BY DEF Kinds
<1>5. Tell("cmndend", job, << >>) \in Told
  BY Zenon, <1>3, <1>4, TellIsTold
<1>6. toMacro' \in Seq(Told)
  BY <1>1, <1>2, <1>5, Queue DEF WireTypes
<1>7. TermTypes' /\ WireTypes'
  BY Zenon, <1>1, <1>2, <1>3, <1>6 DEF TermTypes, WireTypes
<1>8. QED
  BY Zenon, <1>2, <1>7, RingKept, RunKept, HistoryKept DEF LinkTypes

(* Tera Term ends.                                                         *)
LEMMA TypesEndDDE == LinkTypes /\ EndDDE => LinkTypes'
<1> SUFFICES ASSUME LinkTypes, EndDDE PROVE LinkTypes'
  OBVIOUS
<1> DEFINE last == << Tell("disconnect", 0, << >>), Tell("cmndend", 0, << >>) >>
<1>1. TermTypes /\ WireTypes
  BY Zenon DEF LinkTypes
<1>2. /\ linked' = FALSE /\ SyncMode' = FALSE /\ job' = 0 /\ toTerm' = << >> /\ dcount' = 0
      /\ toMacro' = toMacro \o last
      /\ UNCHANGED << put, SyncRecv, SyncFreeSpace, ringVars, runVars, linkHistory >>
  BY Zenon DEF EndDDE
<1>3. Tell("disconnect", 0, << >>) \in Told /\ Tell("cmndend", 0, << >>) \in Told
  <2>1. /\ "disconnect" \in Kinds /\ "cmndend" \in Kinds
        /\ << >> \in Seq(Unit) /\ 0 \in Int
    BY DEF Kinds
  <2>2. QED
    BY <2>1, TellIsTold
<1>4. last \in Seq(Told)
  <2> DEFINE a == Tell("disconnect", 0, << >>)
             b == Tell("cmndend", 0, << >>)
  <2>1. a \in Told /\ b \in Told
    BY Zenon, <1>3
  <2> HIDE DEF a, b
  <2>2. << a, b >> \in Seq(Told)
    BY <2>1
  <2>3. QED
    BY Zenon, <2>2 DEF a, b
<1> HIDE DEF last
<1>5. toMacro' \in Seq(Told) /\ toTerm' \in Seq(Asked)
  BY <1>1, <1>2, <1>4, Joined DEF WireTypes
<1>6. /\ dcount' \in 0 .. DdeBuffSize /\ dcount' <= put /\ job' \in 0 .. MaxCmnds
  BY <1>1, <1>2, LinkConstants DEF TermTypes
<1>7. TermTypes' /\ WireTypes'
  BY Zenon, <1>1, <1>2, <1>5, <1>6 DEF TermTypes, WireTypes
<1>8. QED
  BY Zenon, <1>2, <1>7, RingKept, RunKept, HistoryKept DEF LinkTypes

(* A transaction that is over.                                             *)
LEMMA TypesReturns ==
    ASSUME RunTypes, NEW ok, Returns(ok)
    PROVE  /\ transact' \in -(1 + MaxTimeouts) .. MaxCmnds
           /\ TTLStatus' \in {"Run", "Wait", "WaitCmndEnd"}
<1>1. transact' = 0 /\ TTLStatus' = IF transact > 0 /\ ~ok THEN "Run" ELSE TTLStatus
  BY Zenon DEF Returns
<1>2. TTLStatus \in {"Run", "Wait", "WaitCmndEnd"}
  BY Zenon DEF RunTypes
<1>3. transact' \in -(1 + MaxTimeouts) .. MaxCmnds
  BY <1>1, Constants
<1>4. TTLStatus' \in {"Run", "Wait", "WaitCmndEnd"}
  BY <1>1, <1>2
<1>5. QED
  BY <1>3, <1>4

(* A message is handled: what is left of them, and one that may be posted. *)
LEMMA TypesRest ==
    ASSUME WireTypes, toMacro # << >>
    PROVE  /\ Head(toMacro) \in Told /\ Tail(toMacro) \in Seq(Told)
           /\ Append(Tail(toMacro), Tell("ddeend", 0, << >>)) \in Seq(Told)
<1>1. toMacro \in Seq(Told)
  BY Zenon DEF WireTypes
<1>2. Head(toMacro) \in Told /\ Tail(toMacro) \in Seq(Told)
  BY <1>1, Queue
<1>3. "ddeend" \in Kinds /\ << >> \in Seq(Unit) /\ 0 \in Int
  BY DEF Kinds
<1>4. Tell("ddeend", 0, << >>) \in Told
  BY <1>3, TellIsTold
<1>5. Append(Tail(toMacro), Tell("ddeend", 0, << >>)) \in Seq(Told)
  BY <1>2, <1>4, Queue
<1>6. QED
  BY <1>2, <1>5

(* The ring buffer after more data: its newest units.                      *)
LEMMA RingAccepts ==
    ASSUME RingTypes, NEW d \in Seq(Unit), NEW all, all = RingBuf \o d,
           NEW over, over = Len(all) - RingBufSize
    PROVE  LET r == IF over > 0 THEN SubSeq(all, over + 1, Len(all)) ELSE all IN
           /\ r \in Seq(Unit) /\ Len(r) <= RingBufSize /\ all \in Seq(Unit)
           /\ \E n \in 0 .. Len(all) :
                /\ r = SubSeq(all, n + 1, Len(all)) /\ Len(r) = Len(all) - n
                /\ n = 0 => r = all
                /\ Len(RingBuf) + Len(d) <= RingBufSize => n = 0
                /\ n > 0 => Len(r) = RingBufSize
<1> DEFINE r == IF over > 0 THEN SubSeq(all, over + 1, Len(all)) ELSE all
<1>0. r = IF over > 0 THEN SubSeq(all, over + 1, Len(all)) ELSE all
  BY Zenon
<1> HIDE DEF r
<1>1. RingBuf \in Seq(Unit) /\ Len(RingBuf) <= RingBufSize
  BY Zenon DEF RingTypes
<1>2. all \in Seq(Unit) /\ Len(all) = Len(RingBuf) + Len(d)
  BY <1>1, Joined
<1>3. Len(all) \in Nat /\ over \in Int /\ Len(RingBuf) \in Nat /\ Len(d) \in Nat
  BY <1>1, <1>2, Constants
<1>4. SubSeq(all, 1, Len(all)) = all
  BY <1>2
<1>5. CASE over > 0
  <2>1. over \in 0 .. Len(all)
    BY <1>3, <1>5, Constants
  <2>2. /\ SubSeq(all, over + 1, Len(all)) \in Seq(Unit)
        /\ Len(SubSeq(all, over + 1, Len(all))) = Len(all) - over
    BY <1>2, <2>1, Dropped
  <2>3. r = SubSeq(all, over + 1, Len(all))
    BY Zenon, <1>0, <1>5
  <2>4. Len(all) - over = RingBufSize
    BY <1>3, Constants
  <2>5. over # 0 /\ ~(Len(RingBuf) + Len(d) <= RingBufSize)
    BY <1>2, <1>3, <1>5, Constants
  <2>6. r \in Seq(Unit) /\ Len(r) = Len(all) - over /\ Len(r) = RingBufSize
    BY Zenon, <2>2, <2>3, <2>4
  <2> RingBufSize <= RingBufSize
    BY Constants
  <2>7. QED
    BY Zenon, <1>2, <2>1, <2>3, <2>5, <2>6 DEF r
<1>6. CASE ~(over > 0)
  <2>1. r = all
    BY Zenon, <1>0, <1>6
  <2>2. Len(all) <= RingBufSize /\ 0 \in 0 .. Len(all) /\ Len(all) - 0 = Len(all) /\ 0 + 1 = 1
        /\ ~(0 > 0)
    BY <1>3, <1>6, Constants
  <2>3. r = SubSeq(all, 0 + 1, Len(all))
    BY Zenon, <1>4, <2>1, <2>2
  <2>4. Len(r) = Len(all) - 0
    BY Zenon, <2>1, <2>2
  <2>5. QED
    BY Zenon, <1>2, <2>1, <2>2, <2>3, <2>4 DEF r
<1>7. QED
  BY Zenon, <1>5, <1>6 DEF r

(* A message is handled.                                                   *)
LEMMA TypesDispatch == LinkTypes /\ Dispatch => LinkTypes'
<1> SUFFICES ASSUME LinkTypes, Dispatch PROVE LinkTypes'
  OBVIOUS
<1> DEFINE m == Head(toMacro)
<1>1. TermTypes /\ WireTypes /\ RingTypes /\ RunTypes /\ HistoryTypes
  BY Zenon DEF LinkTypes
<1>2. /\ toMacro # << >>
      /\ AcceptData(m) \/ Acknowledge(m) \/ OnDdeCmndEnd(m) \/ Disconnected(m) \/ OnDdeEnd(m)
      /\ UNCHANGED << termVars, toTerm, idlePc, issued, syncs, timeouts, read, readInOrder, clean >>
  BY Zenon DEF Dispatch
<1>3. /\ m \in Told /\ Tail(toMacro) \in Seq(Told)
      /\ Append(Tail(toMacro), Tell("ddeend", 0, << >>)) \in Seq(Told)
  BY Zenon, <1>1, <1>2, TypesRest
<1>4. TermTypes'
  BY Zenon, <1>1, <1>2, TermKept
<1> HIDE DEF m
<1>5. m.data \in Seq(Unit)
  BY Zenon, <1>3, ToldFields
<1>6. CASE AcceptData(m)
  <2> DEFINE all == RingBuf \o m.data
             over == Len(all) - RingBufSize
  <2>1. /\ RingBuf' = IF over > 0 THEN SubSeq(all, over + 1, Len(all)) ELSE all
        /\ SyncSent' = FALSE /\ toMacro' = Tail(toMacro)
        /\ UNCHANGED << QuoteFlag, MacroSync, Linked, TTLStatus, transact, misfit >>
    BY Zenon, <1>6 DEF AcceptData
  <2>2. RingBuf' \in Seq(Unit) /\ Len(RingBuf') <= RingBufSize
    <3> HIDE DEF over, all
    <3>1. all = RingBuf \o m.data /\ over = Len(all) - RingBufSize
      BY Zenon DEF all, over
    <3>2. QED
      BY Zenon, <1>1, <1>5, <2>1, <3>1, RingAccepts
  <2>3. RingTypes' /\ WireTypes'
    BY Zenon, <1>1, <1>2, <1>3, <2>1, <2>2 DEF RingTypes, WireTypes
  <2>4. RunTypes' /\ HistoryTypes'
    BY Zenon, <1>1, <1>2, <2>1 DEF RunTypes, HistoryTypes
  <2>5. QED
    BY Zenon, <1>4, <2>3, <2>4 DEF LinkTypes
<1>7. CASE Acknowledge(m)
  <2>1. /\ Returns(m.kind = "ack") \/ UNCHANGED << transact, TTLStatus >>
        /\ toMacro' = Tail(toMacro)
        /\ UNCHANGED << ringVars, Linked, misfit >>
    BY Zenon, <1>7 DEF Acknowledge
  <2>2. /\ transact' \in -(1 + MaxTimeouts) .. MaxCmnds
        /\ TTLStatus' \in {"Run", "Wait", "WaitCmndEnd"}
    BY Zenon, <1>1, <2>1, TypesReturns DEF RunTypes
  <2>3. WireTypes' /\ RunTypes' /\ HistoryTypes'
    BY Zenon, <1>1, <1>2, <1>3, <2>1, <2>2 DEF WireTypes, RunTypes, HistoryTypes
  <2>4. QED
    BY Zenon, <1>1, <1>4, <2>1, <2>3, RingKept DEF LinkTypes
<1>8. CASE OnDdeCmndEnd(m)
  <2>1. /\ TTLStatus' = IF TTLStatus = "WaitCmndEnd" THEN "Run" ELSE TTLStatus
        /\ misfit' = (misfit \/ (TTLStatus = "WaitCmndEnd" /\ m.id \notin {0, issued}))
        /\ toMacro' = Tail(toMacro)
        /\ UNCHANGED << ringVars, Linked, transact >>
    BY Zenon, <1>8 DEF OnDdeCmndEnd
  <2>2. misfit' \in BOOLEAN
    BY <2>1
  <2>3. TTLStatus' \in {"Run", "Wait", "WaitCmndEnd"}
    BY <1>1, <2>1 DEF RunTypes
  <2>4. WireTypes' /\ RunTypes' /\ HistoryTypes'
    BY Zenon, <1>1, <1>2, <1>3, <2>1, <2>2, <2>3 DEF WireTypes, RunTypes, HistoryTypes
  <2>5. QED
    BY Zenon, <1>1, <1>4, <2>1, <2>4, RingKept DEF LinkTypes
<1>9. CASE Disconnected(m)
  <2>1. /\ Linked' = FALSE
        /\ Returns(FALSE) \/ UNCHANGED << transact, TTLStatus >>
        /\ toMacro' = Append(Tail(toMacro), Tell("ddeend", 0, << >>))
        /\ UNCHANGED << ringVars, misfit >>
    BY Zenon, <1>9 DEF Disconnected
  <2>2. /\ transact' \in -(1 + MaxTimeouts) .. MaxCmnds
        /\ TTLStatus' \in {"Run", "Wait", "WaitCmndEnd"}
    BY Zenon, <1>1, <2>1, TypesReturns DEF RunTypes
  <2>3. WireTypes' /\ RunTypes' /\ HistoryTypes'
    BY Zenon, <1>1, <1>2, <1>3, <2>1, <2>2 DEF WireTypes, RunTypes, HistoryTypes
  <2>4. QED
    BY Zenon, <1>1, <1>4, <2>1, <2>3, RingKept DEF LinkTypes
<1>10. CASE OnDdeEnd(m)
  <2>1. /\ TTLStatus' = "Run" /\ MacroSync' = FALSE /\ toMacro' = Tail(toMacro)
        /\ UNCHANGED << RingBuf, QuoteFlag, SyncSent, Linked, transact, misfit >>
    BY Zenon, <1>10 DEF OnDdeEnd
  <2>2. TTLStatus' \in {"Run", "Wait", "WaitCmndEnd"}
    BY <2>1
  <2>3. WireTypes' /\ RunTypes' /\ HistoryTypes'
    BY Zenon, <1>1, <1>2, <1>3, <2>1, <2>2 DEF WireTypes, RunTypes, HistoryTypes
  <2>4. RingTypes'
    BY Zenon, <1>1, <2>1 DEF RingTypes
  <2>5. QED
    BY Zenon, <1>4, <2>3, <2>4 DEF LinkTypes
<1>11. QED
  BY Zenon, <1>2, <1>6, <1>7, <1>8, <1>9, <1>10

(* The macro gives a transaction up, or ends a wait.                       *)
LEMMA TypesGiveUp == LinkTypes /\ (GiveUp \/ OnTimer) => LinkTypes'
<1> SUFFICES ASSUME LinkTypes, GiveUp \/ OnTimer PROVE LinkTypes'
  OBVIOUS
<1>1. TermTypes /\ WireTypes /\ RingTypes /\ RunTypes /\ HistoryTypes
  BY Zenon DEF LinkTypes
<1>2. /\ timeouts < MaxTimeouts /\ timeouts' = timeouts + 1
      /\ UNCHANGED << termVars, toTerm, toMacro, ringVars, Linked, idlePc, issued, syncs, linkHistory >>
      /\ Returns(FALSE) \/ (TTLStatus' = "Run" /\ transact' = transact)
  BY Zenon DEF GiveUp, OnTimer
<1>3. timeouts' \in 0 .. MaxTimeouts
  BY <1>1, <1>2, Constants DEF RunTypes
<1>4. /\ transact' \in -(1 + MaxTimeouts) .. MaxCmnds
      /\ TTLStatus' \in {"Run", "Wait", "WaitCmndEnd"}
  <2>1. CASE Returns(FALSE)
    BY Zenon, <1>1, <2>1, TypesReturns
  <2>2. CASE TTLStatus' = "Run" /\ transact' = transact
    <3>1. "Run" \in {"Run", "Wait", "WaitCmndEnd"}
      OBVIOUS
    <3>2. QED
      BY Zenon, <1>1, <2>2, <3>1 DEF RunTypes
  <2>3. QED
    BY Zenon, <1>2, <2>1, <2>2
<1>5. RunTypes' /\ WireTypes'
  BY Zenon, <1>1, <1>2, <1>3, <1>4 DEF RunTypes, WireTypes
<1>6. TermTypes' /\ RingTypes' /\ HistoryTypes'
  BY Zenon, <1>1, <1>2, TermKept, RingKept, HistoryKept
<1>7. QED
  BY Zenon, <1>5, <1>6 DEF LinkTypes

(* The macro tells of its room.                                            *)
LEMMA TypesTellRoom ==
    ASSUME LinkTypes, NEW room \in 0 .. RingBufSize, TellRoom(room)
    PROVE  /\ toTerm' \in Seq(Asked) /\ transact' \in -(1 + MaxTimeouts) .. MaxCmnds
           /\ Ask("sync", SyncId, room) \in Asked
           /\ toTerm' = Append(toTerm, Ask("sync", SyncId, room))
           /\ transact' = SyncId /\ SyncId \in -(1 + MaxTimeouts) .. -1
<1>1. /\ toTerm' = Append(toTerm, Ask("sync", SyncId, room))
      /\ transact' = SyncId
  BY Zenon DEF TellRoom
<1>2. toTerm \in Seq(Asked) /\ timeouts \in 0 .. MaxTimeouts
  BY Zenon DEF LinkTypes, WireTypes, RunTypes
<1>3. SyncId \in Int /\ SyncId \in -(1 + MaxTimeouts) .. MaxCmnds /\ SyncId \in -(1 + MaxTimeouts) .. -1
  BY <1>2, Constants DEF SyncId
<1>4. Ask("sync", SyncId, room) \in Asked
  <2>1. "sync" \in {"sync", "cmnd"} /\ "sync" # "cmnd"
    OBVIOUS
  <2>2. QED
    BY <1>3, <2>1, AskIsAsked
<1>5. Append(toTerm, Ask("sync", SyncId, room)) \in Seq(Asked)
  BY <1>2, <1>4, Queue
<1>6. QED
  BY Zenon, <1>1, <1>3, <1>4, <1>5

(* The room the macro tells of.                                            *)
LEMMA RoomLemma ==
    ASSUME NEW n \in Nat
    PROVE  /\ Room(n) \in 1 .. RingBufSize /\ Room(n) > 0
           /\ n < RingBufSize => n + Room(n) <= RingBufSize
           /\ n < RCountLimit => n < RingBufSize
<1>1. Room(n) \in 1 .. RingBufSize /\ Room(n) > 0
  BY Constants DEF Room
<1>2. n < RingBufSize => n + Room(n) <= RingBufSize
  BY Constants DEF Room
<1>3. n < RCountLimit => n < RingBufSize
  BY Constants DEF RCountLimit
<1>4. QED
  BY <1>1, <1>2, <1>3

(* The macro offers its room again, if it does.                            *)
LEMMA TypesSendSync ==
    ASSUME LinkTypes, NEW n \in Nat, SendSync(n)
    PROVE  /\ toTerm' \in Seq(Asked) /\ transact' \in -(1 + MaxTimeouts) .. MaxCmnds
           /\ SyncSent' \in BOOLEAN
<1>1. CASE Linked /\ MacroSync /\ ~SyncSent /\ n < RCountLimit
  <2>1. TellRoom(Room(n)) /\ SyncSent' = TRUE
    BY Zenon, <1>1 DEF SendSync
  <2>2. Room(n) \in 0 .. RingBufSize
    BY RoomLemma
  <2>3. toTerm' \in Seq(Asked) /\ transact' \in -(1 + MaxTimeouts) .. MaxCmnds
    BY Zenon, <2>1, <2>2, TypesTellRoom
  <2>4. QED
    BY Zenon, <2>1, <2>3
<1>2. CASE ~(Linked /\ MacroSync /\ ~SyncSent /\ n < RCountLimit)
  <2>1. UNCHANGED << toTerm, transact, SyncSent >>
    BY Zenon, <1>2 DEF SendSync
  <2>2. QED
    BY Zenon, <2>1 DEF LinkTypes, WireTypes, RunTypes, RingTypes
<1>3. QED
  BY Zenon, <1>1, <1>2

(* OnIdle.                                                                 *)
LEMMA TypesOnIdle == LinkTypes /\ OnIdle => LinkTypes'
<1> SUFFICES ASSUME LinkTypes, OnIdle PROVE LinkTypes'
  OBVIOUS
<1>1. TermTypes /\ WireTypes /\ RingTypes /\ RunTypes /\ HistoryTypes
  BY Zenon DEF LinkTypes
<1>2. /\ idlePc' = "rest" /\ SendSync(Len(RingBuf))
      /\ UNCHANGED << termVars, toMacro, RingBuf, QuoteFlag, MacroSync, Linked, TTLStatus,
                      issued, syncs, timeouts, linkHistory >>
  BY Zenon DEF OnIdle
<1>3. Len(RingBuf) \in Nat
  BY <1>1 DEF RingTypes
<1>4. /\ toTerm' \in Seq(Asked) /\ transact' \in -(1 + MaxTimeouts) .. MaxCmnds
      /\ SyncSent' \in BOOLEAN
  BY Zenon, <1>2, <1>3, TypesSendSync
<1>5. idlePc' \in {"sync", "rest"}
  BY <1>2
<1>6. WireTypes' /\ RunTypes' /\ RingTypes'
  BY Zenon, <1>1, <1>2, <1>4, <1>5 DEF WireTypes, RunTypes, RingTypes
<1>7. QED
  BY Zenon, <1>1, <1>2, <1>6, TermKept, HistoryKept DEF LinkTypes

(* Exec and Rests: a command of the macro's program, or none.              *)
LEMMA TypesExec == LinkTypes /\ (Exec \/ Rests) => LinkTypes'
<1> SUFFICES ASSUME LinkTypes, Exec \/ Rests PROVE LinkTypes'
  OBVIOUS
<1> DEFINE Goal == /\ TTLStatus' \in {"Run", "Wait", "WaitCmndEnd"}
                   /\ transact' \in -(1 + MaxTimeouts) .. MaxCmnds
                   /\ issued' \in 0 .. MaxCmnds /\ syncs' \in 0 .. MaxSyncs
                   /\ MacroSync' \in BOOLEAN /\ SyncSent' \in BOOLEAN
                   /\ toTerm' \in Seq(Asked)
<1>1. TermTypes /\ WireTypes /\ RingTypes /\ RunTypes /\ HistoryTypes
  BY Zenon DEF LinkTypes
<1>2. /\ idlePc' = "sync"
      /\ \/ TTLWait \/ SendCmnd \/ SetSync
         \/ UNCHANGED << TTLStatus, toTerm, transact, issued, syncs, MacroSync, SyncSent >>
      /\ UNCHANGED << termVars, toMacro, RingBuf, QuoteFlag, Linked, timeouts, linkHistory >>
  BY Zenon DEF Exec, Rests, ringVars
<1>3. /\ TTLStatus \in {"Run", "Wait", "WaitCmndEnd"}
      /\ transact \in -(1 + MaxTimeouts) .. MaxCmnds
      /\ issued \in 0 .. MaxCmnds /\ syncs \in 0 .. MaxSyncs
      /\ MacroSync \in BOOLEAN /\ SyncSent \in BOOLEAN
      /\ toTerm \in Seq(Asked)
  BY Zenon, <1>1 DEF RunTypes, RingTypes, WireTypes
<1>4. ASSUME Goal PROVE LinkTypes'
  <2>1. idlePc' \in {"sync", "rest"}
    BY <1>2
  <2>2. WireTypes' /\ RunTypes' /\ RingTypes'
    BY Zenon, <1>1, <1>2, <1>4, <2>1 DEF WireTypes, RunTypes, RingTypes
  <2>3. QED
    BY Zenon, <1>1, <1>2, <2>2, TermKept, HistoryKept DEF LinkTypes
<1>5. CASE TTLWait
  <2>1. TTLStatus' = "Wait" /\ UNCHANGED << toTerm, transact, issued, syncs, MacroSync, SyncSent >>
    BY Zenon, <1>5 DEF TTLWait
  <2>2. TTLStatus' \in {"Run", "Wait", "WaitCmndEnd"}
    BY <2>1
  <2>3. Goal
    BY Zenon, <1>3, <2>1, <2>2
  <2>4. QED
    BY Zenon, <1>4, <2>3
<1>6. CASE SendCmnd
  <2>1. /\ issued < MaxCmnds /\ issued' = issued + 1
        /\ TTLStatus' = "WaitCmndEnd"
        /\ toTerm' = Append(toTerm, Ask("cmnd", issued', 0)) /\ transact' = issued'
        /\ UNCHANGED << syncs, MacroSync, SyncSent >>
    BY Zenon, <1>6 DEF SendCmnd
  <2>2. /\ issued' \in 1 .. MaxCmnds /\ issued' \in 0 .. MaxCmnds /\ issued' \in Int
        /\ transact' \in -(1 + MaxTimeouts) .. MaxCmnds
        /\ 0 \in 0 .. RingBufSize
    BY <1>3, <2>1, Constants
  <2>3. TTLStatus' \in {"Run", "Wait", "WaitCmndEnd"} /\ "cmnd" \in {"sync", "cmnd"}
    BY <2>1
  <2>4. Ask("cmnd", issued', 0) \in Asked
    BY Zenon, <2>2, <2>3, AskIsAsked
  <2>5. toTerm' \in Seq(Asked)
    BY <1>3, <2>1, <2>4, Queue
  <2>6. Goal
    BY Zenon, <1>3, <2>1, <2>2, <2>3, <2>5
  <2>7. QED
    BY Zenon, <1>4, <2>6
<1>7. CASE SetSync
  <2>1. /\ syncs < MaxSyncs /\ syncs' = syncs + 1
        /\ MacroSync' = ~MacroSync
        /\ SyncSent' = (MacroSync' \/ SyncSent)
        /\ TellRoom(IF MacroSync' THEN Room(Len(RingBuf)) ELSE 0)
        /\ UNCHANGED << TTLStatus, issued >>
    BY Zenon, <1>7 DEF SetSync
  <2>2. MacroSync' \in BOOLEAN /\ SyncSent' \in BOOLEAN
    BY <2>1
  <2>3. Len(RingBuf) \in Nat
    BY <1>1 DEF RingTypes
  <2>4. Room(Len(RingBuf)) \in 0 .. RingBufSize /\ 0 \in 0 .. RingBufSize
    BY <2>3, RoomLemma, Constants
  <2>5. (IF MacroSync' THEN Room(Len(RingBuf)) ELSE 0) \in 0 .. RingBufSize
    BY Zenon, <2>4
  <2>6. toTerm' \in Seq(Asked) /\ transact' \in -(1 + MaxTimeouts) .. MaxCmnds
    BY Zenon, <2>1, <2>5, TypesTellRoom
  <2>7. syncs' \in 0 .. MaxSyncs
    BY <1>3, <2>1, Constants
  <2>8. Goal
    BY Zenon, <1>3, <2>1, <2>2, <2>6, <2>7
  <2>9. QED
    BY Zenon, <1>4, <2>8
<1>8. CASE UNCHANGED << TTLStatus, toTerm, transact, issued, syncs, MacroSync, SyncSent >>
  <2>1. Goal
    BY Zenon, <1>3, <1>8
  <2>2. QED
    BY Zenon, <1>4, <2>1
<1>9. QED
  BY Zenon, <1>2, <1>5, <1>6, <1>7, <1>8

(* Wait.                                                                   *)
LEMMA TypesWait == LinkTypes /\ Wait => LinkTypes'
<1> SUFFICES ASSUME LinkTypes, Wait PROVE LinkTypes'
  OBVIOUS
<1>1. TermTypes /\ WireTypes /\ RingTypes /\ RunTypes /\ HistoryTypes
  BY Zenon DEF LinkTypes
<1>2. /\ idlePc' = "sync"
      /\ UNCHANGED << termVars, toMacro, MacroSync, Linked, issued, syncs, timeouts, clean, misfit >>
  BY Zenon DEF Wait
<1>3. PICK n \in 0 .. Len(RingBuf), found \in BOOLEAN :
        /\ LET bytes == IF n > 0 /\ IsQuote(n) THEN n - 1 ELSE n
           IN  /\ read' = read + bytes
               /\ readInOrder' = (readInOrder /\ \A i \in 1 .. bytes :
                     RingBuf[i] = << read + i, IF i = 1 /\ QuoteFlag THEN "low" ELSE "raw" >>)
               /\ QuoteFlag' = IF n = 0 THEN QuoteFlag ELSE bytes < n
        /\ RingBuf' = SubSeq(RingBuf, n + 1, Len(RingBuf))
        /\ TTLStatus' = IF found THEN "Run" ELSE "Wait"
        /\ SendSync(Len(RingBuf) - n)
  BY Zenon DEF Wait
<1> DEFINE bytes == IF n > 0 /\ IsQuote(n) THEN n - 1 ELSE n
<1>4. /\ read' = read + bytes
      /\ readInOrder' = (readInOrder /\ \A i \in 1 .. bytes :
              RingBuf[i] = << read + i, IF i = 1 /\ QuoteFlag THEN "low" ELSE "raw" >>)
      /\ QuoteFlag' = IF n = 0 THEN QuoteFlag ELSE bytes < n
  BY Zenon, <1>3
<1>5. RingBuf \in Seq(Unit) /\ Len(RingBuf) <= RingBufSize /\ Len(RingBuf) \in Nat
  BY <1>1 DEF RingTypes
<1>6. n \in Nat /\ bytes \in Nat /\ Len(RingBuf) - n \in Nat /\ Len(RingBuf) - n <= RingBufSize
  <2> DEFINE b == IsQuote(n)
  <2> HIDE DEF b
  <2>1. bytes = IF n > 0 /\ b THEN n - 1 ELSE n
    BY Zenon DEF b
  <2> HIDE DEF bytes
  <2>2. QED
    BY <1>5, <2>1, Constants
<1> HIDE DEF bytes
<1>7. /\ toTerm' \in Seq(Asked) /\ transact' \in -(1 + MaxTimeouts) .. MaxCmnds
      /\ SyncSent' \in BOOLEAN
  BY Zenon, <1>3, <1>6, TypesSendSync
<1>8. RingBuf' \in Seq(Unit) /\ Len(RingBuf') <= RingBufSize
  <2>1. /\ SubSeq(RingBuf, n + 1, Len(RingBuf)) \in Seq(Unit)
        /\ Len(SubSeq(RingBuf, n + 1, Len(RingBuf))) = Len(RingBuf) - n
    BY <1>5, Dropped
  <2>2. QED
    BY Zenon, <1>3, <1>6, <2>1
<1>9. read' \in Nat /\ idlePc' \in {"sync", "rest"} /\ TTLStatus' \in {"Run", "Wait", "WaitCmndEnd"}
  <2>1. read' \in Nat
    BY <1>1, <1>4, <1>6 DEF HistoryTypes
  <2>2. QED
    BY <1>2, <1>3, <2>1
<1>10. QuoteFlag' \in BOOLEAN
  <2>1. QuoteFlag \in BOOLEAN
    BY Zenon, <1>1 DEF RingTypes
  <2>2. CASE n = 0
    BY Zenon, <1>4, <2>1, <2>2
  <2>3. CASE n # 0
    <3>1. QuoteFlag' = (bytes < n)
      BY Zenon, <1>4, <2>3
    <3>2. QED
      BY <3>1
  <2>4. QED
    BY Zenon, <2>2, <2>3
<1>11. readInOrder' \in BOOLEAN
  <2> DEFINE P == readInOrder /\ \A i \in 1 .. bytes :
                 RingBuf[i] = << read + i, IF i = 1 /\ QuoteFlag THEN "low" ELSE "raw" >>
  <2>1. readInOrder' = P
    BY Zenon, <1>4
  <2>2. P \in BOOLEAN
    BY Zenon
  <2>3. QED
    BY Zenon, <2>1, <2>2
<1>12. WireTypes' /\ RunTypes' /\ RingTypes' /\ HistoryTypes'
  BY Zenon, <1>1, <1>2, <1>7, <1>8, <1>9, <1>10, <1>11 DEF WireTypes, RunTypes, RingTypes, HistoryTypes
<1>13. QED
  BY Zenon, <1>1, <1>2, <1>12, TermKept DEF LinkTypes

(* Every step keeps the types.                                             *)
LEMMA TypesStep == LinkTypes /\ [LinkNext]_linkVars => LinkTypes'
<1>1. LinkTypes /\ UNCHANGED linkVars => LinkTypes'
  BY Zenon, TermKept, RingKept, RunKept, HistoryKept DEF linkVars, LinkTypes, WireTypes
<1>2. LinkTypes /\ LinkNext => LinkTypes'
  BY Zenon, TypesDDEPut1, TypesDDEAdv, TypesAcceptExecute, TypesEndDdeCmnd, TypesEndDDE,
     TypesDispatch, TypesGiveUp, TypesOnIdle, TypesExec, TypesWait DEF LinkNext, MacroIdle
<1>3. QED
  BY Zenon, <1>1, <1>2
-----------------------------------------------------------------------------
(* What is on its way of a command, and of the end of Tera Term.           *)

Commands == { r \in Asked : r.kind = "cmnd" }
Verdicts == { m \in Told : m.kind = "nack" \/ (m.kind = "cmndend" /\ m.id # 0) }

(* None of V waits in q; just one does, and it is about command k.         *)
NoneOf(q, V) == \A i \in 1 .. Len(q) : q[i] \notin V
OneOf(q, V, k) ==
    \E i \in 1 .. Len(q) : /\ q[i] \in V /\ q[i].id = k
                           /\ \A j \in 1 .. Len(q) : j # i => q[j] \notin V

(* The last command of the macro is over, or it is on its way, runs, or    *)
(* its end or refusal is on the way back while the macro waits.            *)
CmndOver == NoneOf(toTerm, Commands) /\ job = 0 /\ NoneOf(toMacro, Verdicts)
CmndOpen ==
    \/ OneOf(toTerm, Commands, issued) /\ job = 0 /\ NoneOf(toMacro, Verdicts)
    \/ NoneOf(toTerm, Commands) /\ job = issued /\ NoneOf(toMacro, Verdicts)
    \/ NoneOf(toTerm, Commands) /\ job = 0 /\ OneOf(toMacro, Verdicts, issued)
Token == timeouts = 0 /\ Linked => CmndOver \/ (CmndOpen /\ TTLStatus = "WaitCmndEnd")

(* The messages of a standing link, and those behind its end.              *)
Plain(m) == m.kind \notin {"disconnect", "ddeend"} /\ (m.kind = "cmndend" => m.id # 0)
Final(m) == m.kind = "ddeend" \/ (m.kind = "cmndend" /\ m.id = 0)

(* The link stands; Tera Term has closed it; the macro knows.              *)
Stands == linked /\ Linked /\ \A i \in 1 .. Len(toMacro) : Plain(toMacro[i])
Closing ==
    /\ ~linked /\ Linked /\ Len(toMacro) >= 2
    /\ \A i \in 1 .. Len(toMacro) - 2 : Plain(toMacro[i])
    /\ toMacro[Len(toMacro) - 1].kind = "disconnect"
    /\ Final(toMacro[Len(toMacro)])
Ended ==
    /\ ~linked /\ ~Linked
    /\ \A i \in 1 .. Len(toMacro) : Final(toMacro[i])
Phase == Stands \/ Closing \/ Ended

(* The inductive invariant of the commands.                                *)
FitsInv == LinkTypes /\ Phase /\ Token /\ CompletionFits
-----------------------------------------------------------------------------
(* A queue gets a message.                                                 *)
LEMMA OneMore ==
    ASSUME NEW S, NEW q \in Seq(S), NEW e \in S, NEW V, NEW k
    PROVE  /\ e \notin V /\ NoneOf(q, V) => NoneOf(Append(q, e), V)
           /\ e \notin V /\ OneOf(q, V, k) => OneOf(Append(q, e), V, k)
           /\ e \in V /\ e.id = k /\ NoneOf(q, V) => OneOf(Append(q, e), V, k)
<1> DEFINE r == Append(q, e)
           n == Len(q)
<1>1. /\ n \in Nat /\ Len(r) = n + 1 /\ r[n + 1] = e
      /\ \A i \in 1 .. n : r[i] = q[i]
  BY Queue
<1> HIDE DEF r
<1>2. \A i \in 1 .. n + 1 : i \in 1 .. n \/ i = n + 1
  BY <1>1
<1>3. n + 1 \in 1 .. n + 1 /\ \A i \in 1 .. n : i \in 1 .. n + 1
  BY <1>1
<1> HIDE DEF n
<1>4. e \notin V /\ NoneOf(q, V) => NoneOf(r, V)
  BY Zenon, <1>1, <1>2 DEF NoneOf, n
<1>5. e \notin V /\ OneOf(q, V, k) => OneOf(r, V, k)
  <2> SUFFICES ASSUME e \notin V, OneOf(q, V, k) PROVE OneOf(r, V, k)
    OBVIOUS
  <2>1. PICK i \in 1 .. n : /\ q[i] \in V /\ q[i].id = k
                            /\ \A j \in 1 .. n : j # i => q[j] \notin V
    BY Zenon DEF OneOf, n
  <2>2. i \in 1 .. Len(r) /\ r[i] \in V /\ r[i].id = k
    BY Zenon, <1>1, <1>3, <2>1
  <2>3. \A j \in 1 .. Len(r) : j # i => r[j] \notin V
    BY Zenon, <1>1, <1>2, <2>1
  <2>4. QED
    BY Zenon, <2>2, <2>3 DEF OneOf
<1>6. e \in V /\ e.id = k /\ NoneOf(q, V) => OneOf(r, V, k)
  <2> SUFFICES ASSUME e \in V, e.id = k, NoneOf(q, V) PROVE OneOf(r, V, k)
    OBVIOUS
  <2>1. \A j \in 1 .. n + 1 : j # n + 1 => r[j] \notin V
    BY Zenon, <1>1, <1>2 DEF NoneOf, n
  <2>2. QED
    BY Zenon, <1>1, <1>3, <2>1 DEF OneOf
<1>7. QED
  BY Zenon, <1>4, <1>5, <1>6 DEF r

(* A queue loses its first message.                                        *)
LEMMA OneLess ==
    ASSUME NEW S, NEW q \in Seq(S), q # << >>, NEW V, NEW k
    PROVE  /\ NoneOf(q, V) => NoneOf(Tail(q), V) /\ Head(q) \notin V
           /\ OneOf(q, V, k) /\ Head(q) \notin V => OneOf(Tail(q), V, k)
           /\ OneOf(q, V, k) /\ Head(q) \in V => NoneOf(Tail(q), V) /\ Head(q).id = k
<1> DEFINE r == Tail(q)
           n == Len(q)
<1>1. /\ n \in Nat /\ n > 0 /\ Len(r) = n - 1 /\ Head(q) = q[1]
      /\ \A i \in 1 .. n - 1 : r[i] = q[i + 1]
  BY Queue
<1> HIDE DEF r, n
<1>2. 1 \in 1 .. n /\ \A i \in 1 .. n - 1 : i + 1 \in 1 .. n /\ i + 1 # 1
  BY <1>1
<1>3. NoneOf(q, V) => NoneOf(r, V) /\ Head(q) \notin V
  BY Zenon, <1>1, <1>2 DEF NoneOf, n
<1>4. ASSUME OneOf(q, V, k)
      PROVE  /\ Head(q) \notin V => OneOf(r, V, k)
             /\ Head(q) \in V => NoneOf(r, V) /\ Head(q).id = k
  <2>1. PICK i \in 1 .. n : /\ q[i] \in V /\ q[i].id = k
                            /\ \A j \in 1 .. n : j # i => q[j] \notin V
    BY Zenon, <1>4 DEF OneOf, n
  <2>2. Head(q) \in V => NoneOf(r, V) /\ Head(q).id = k
    <3> SUFFICES ASSUME Head(q) \in V PROVE NoneOf(r, V) /\ Head(q).id = k
      OBVIOUS
    <3>1. i = 1
      BY Zenon, <1>1, <1>2, <2>1
    <3>2. NoneOf(r, V)
      BY Zenon, <1>1, <1>2, <2>1, <3>1 DEF NoneOf
    <3>3. QED
      BY Zenon, <1>1, <2>1, <3>1, <3>2
  <2>3. Head(q) \notin V => OneOf(r, V, k)
    <3> SUFFICES ASSUME Head(q) \notin V PROVE OneOf(r, V, k)
      OBVIOUS
    <3>1. i # 1
      BY Zenon, <1>1, <2>1
    <3>2. i - 1 \in 1 .. n - 1 /\ i - 1 + 1 = i
      BY <1>1, <3>1
    <3>3. r[i - 1] = q[i]
      BY Zenon, <1>1, <3>2
    <3>4. \A j \in 1 .. n - 1 : j # i - 1 => j + 1 # i
      BY <1>1
    <3>5. \A j \in 1 .. n - 1 : j # i - 1 => r[j] \notin V
      BY Zenon, <1>1, <1>2, <2>1, <3>4
    <3>6. QED
      BY Zenon, <1>1, <2>1, <3>2, <3>3, <3>5 DEF OneOf
  <2>4. QED
    BY Zenon, <2>2, <2>3
<1>5. QED
  BY Zenon, <1>3, <1>4 DEF r

(* As long as Tera Term holds the conversation open, so does the macro.    *)
LEMMA StandsIfLinked == Phase /\ linked => Stands
BY Zenon DEF Phase, Closing, Ended

(* Tera Term posts a message.                                              *)
LEMMA PhasePosts ==
    ASSUME LinkTypes, Phase, linked, NEW m \in Told, Plain(m),
           toMacro' = Append(toMacro, m), UNCHANGED << linked, Linked >>
    PROVE  Phase'
<1>1. Stands /\ toMacro \in Seq(Told)
  BY Zenon, StandsIfLinked DEF LinkTypes, WireTypes
<1>2. /\ Len(toMacro) \in Nat /\ Len(toMacro') = Len(toMacro) + 1 /\ toMacro'[Len(toMacro) + 1] = m
      /\ \A i \in 1 .. Len(toMacro) : toMacro'[i] = toMacro[i]
  BY <1>1, Queue
<1>3. \A i \in 1 .. Len(toMacro) + 1 : i \in 1 .. Len(toMacro) \/ i = Len(toMacro) + 1
  BY <1>2
<1>4. \A i \in 1 .. Len(toMacro') : Plain(toMacro'[i])
  BY Zenon, <1>1, <1>2, <1>3 DEF Stands
<1>5. Stands'
  BY Zenon, <1>1, <1>4 DEF Stands
<1>6. QED
  BY Zenon, <1>5 DEF Phase

(* Tera Term posts the two messages of its end.                            *)
LEMMA LastWords ==
    ASSUME NEW S, NEW q \in Seq(S), NEW a \in S, NEW b \in S
    PROVE  q \o << a, b >> = Append(Append(q, a), b) /\ Append(q, a) \in Seq(S)
OBVIOUS

(* The end of Tera Term begins the closing of the link.                    *)
LEMMA PhaseEndDDE == LinkTypes /\ Phase /\ EndDDE => Phase'
<1> SUFFICES ASSUME LinkTypes, Phase, EndDDE PROVE Phase'
  OBVIOUS
<1> DEFINE a == Tell("disconnect", 0, << >>)
           b == Tell("cmndend", 0, << >>)
           n == Len(toMacro)
<1>1. /\ linked /\ linked' = FALSE /\ toMacro' = toMacro \o << a, b >> /\ UNCHANGED runVars
  BY Zenon DEF EndDDE
<1>2. Stands /\ toMacro \in Seq(Told) /\ UNCHANGED Linked
  BY Zenon, <1>1, StandsIfLinked DEF LinkTypes, WireTypes, runVars
<1>3. a \in Told /\ b \in Told /\ a.kind = "disconnect" /\ b.kind = "cmndend" /\ b.id = 0
  <2>1. /\ "disconnect" \in Dataless
        /\ "cmndend" \in Dataless
        /\ 0 \in Int
    BY DEF Dataless
  <2>2. QED
    BY Zenon, <2>1, Bare
<1> HIDE DEF a, b
<1>4. << a, b >> \in Seq(Told) /\ Len(<< a, b >>) = 2 /\ << a, b >>[1] = a /\ << a, b >>[2] = b
  BY <1>3
<1>5. /\ n \in Nat /\ Len(toMacro') = n + 2
      /\ \A i \in 1 .. n : toMacro'[i] = toMacro[i]
      /\ \A i \in 1 .. 2 : toMacro'[n + i] = << a, b >>[i]
  BY <1>1, <1>2, <1>4, Joined
<1> HIDE DEF n
<1>6. toMacro'[n + 1] = a /\ toMacro'[n + 2] = b
  <2>1. 1 \in 1 .. 2 /\ 2 \in 1 .. 2
    OBVIOUS
  <2>2. QED
    BY Zenon, <1>4, <1>5, <2>1
<1>8. Len(toMacro') >= 2 /\ Len(toMacro') - 2 = n /\ Len(toMacro') - 1 = n + 1
  BY <1>5
<1>9. \A i \in 1 .. Len(toMacro') - 2 : Plain(toMacro'[i])
  BY Zenon, <1>2, <1>5, <1>8 DEF Stands, n
<1>10. toMacro'[Len(toMacro') - 1].kind = "disconnect" /\ Final(toMacro'[Len(toMacro')])
  BY Zenon, <1>3, <1>5, <1>6, <1>8 DEF Final
<1>11. Closing'
  BY Zenon, <1>1, <1>2, <1>8, <1>9, <1>10 DEF Closing, Stands
<1>12. QED
  BY Zenon, <1>11 DEF Phase

(* The macro handles a message; behind the end of the link comes only what *)
(* belongs to it.                                                          *)
LEMMA PhaseDispatch ==
    ASSUME LinkTypes, Phase, toMacro # << >>, UNCHANGED linked
    PROVE  /\ Linked /\ Head(toMacro).kind # "disconnect" =>
                 /\ Plain(Head(toMacro))
                 /\ toMacro' = Tail(toMacro) /\ UNCHANGED Linked => Phase'
           /\ ~Linked => /\ Final(Head(toMacro))
                         /\ toMacro' = Tail(toMacro) /\ UNCHANGED Linked => Phase'
           /\ Head(toMacro).kind = "disconnect" =>
                 /\ Linked
                 /\ /\ Linked' = FALSE
                    /\ toMacro' = Append(Tail(toMacro), Tell("ddeend", 0, << >>))
                    => Phase'
<1> DEFINE n == Len(toMacro)
           r == Tail(toMacro)
           m == Head(toMacro)
<1>1. /\ toMacro \in Seq(Told) /\ r \in Seq(Told) /\ m \in Told
  BY Zenon, TypesRest DEF LinkTypes, WireTypes
<1>2. /\ n \in Nat /\ n > 0 /\ Len(r) = n - 1 /\ m = toMacro[1]
      /\ \A i \in 1 .. n - 1 : r[i] = toMacro[i + 1]
  BY <1>1, Queue
<1> HIDE DEF n, r, m
<1>3. 1 \in 1 .. n /\ \A i \in 1 .. n - 1 : i + 1 \in 1 .. n
  BY <1>2
<1>4. ~(Plain(m) /\ m.kind = "disconnect") /\ ~(Final(m) /\ m.kind = "disconnect")
  BY DEF Plain, Final
<1>5. CASE Stands
  <2>1. Plain(m) /\ \A i \in 1 .. Len(r) : Plain(r[i])
    BY Zenon, <1>2, <1>3, <1>5 DEF Stands, n
  <2>2. toMacro' = r /\ UNCHANGED Linked => Phase'
    BY Zenon, <1>5, <2>1 DEF Stands, Phase
  <2>3. QED
    BY Zenon, <1>4, <1>5, <2>1, <2>2 DEF Stands, r, m
<1>6. CASE Closing /\ n > 2
  <2>1. 1 \in 1 .. n - 2 /\ \A i \in 1 .. n - 1 - 2 : i + 1 \in 1 .. n - 2 /\ i \in 1 .. n - 1
    BY <1>2, <1>6
  <2>2. Plain(m) /\ \A i \in 1 .. Len(r) - 2 : Plain(r[i])
    BY Zenon, <1>2, <1>6, <2>1 DEF Closing, n
  <2>3. /\ n - 1 >= 2 /\ n - 1 \in 1 .. n - 1 /\ n - 1 - 1 \in 1 .. n - 1
        /\ n - 1 + 1 = n /\ n - 1 - 1 + 1 = n - 1
    BY <1>2, <1>6
  <2>4. r[n - 1] = toMacro[n - 1 + 1] /\ r[n - 1 - 1] = toMacro[n - 1 - 1 + 1]
    BY Zenon, <1>2, <2>3
  <2>5. r[Len(r)] = toMacro[n] /\ r[Len(r) - 1] = toMacro[n - 1] /\ Len(r) >= 2
    BY Zenon, <1>2, <2>3, <2>4
  <2>6. r[Len(r) - 1].kind = "disconnect" /\ Final(r[Len(r)])
    BY Zenon, <1>6, <2>5 DEF Closing, n
  <2>7. toMacro' = r /\ UNCHANGED Linked => Phase'
    BY Zenon, <1>6, <2>2, <2>5, <2>6 DEF Closing, Phase
  <2>8. QED
    BY Zenon, <1>4, <1>6, <2>2, <2>7 DEF Closing, r, m
<1>7. CASE Closing /\ ~(n > 2)
  <2>1. n = 2 /\ n - 1 = 1 /\ 1 \in 1 .. n - 1 /\ 1 + 1 = 2
    BY <1>2, <1>7 DEF Closing, n
  <2>2. m.kind = "disconnect" /\ Len(r) = 1
    BY Zenon, <1>2, <1>7, <2>1 DEF Closing, n
  <2>3. Final(r[1])
    BY Zenon, <1>2, <1>7, <2>1 DEF Closing, n
  <2>4. Tell("ddeend", 0, << >>) \in Told /\ Tell("ddeend", 0, << >>).kind = "ddeend"
    <3>1. "ddeend" \in Dataless /\ 0 \in Int
      BY DEF Dataless
    <3>2. QED
      BY Zenon, <3>1, Bare
  <2> DEFINE e == Tell("ddeend", 0, << >>)
             a == Append(r, e)
  <2> HIDE DEF e
  <2>5. e \in Told /\ Final(e)
    BY Zenon, <2>4 DEF e, Final
  <2>6. Len(a) = 2 /\ a[1] = r[1] /\ a[2] = e
    <3>1. /\ Len(a) = Len(r) + 1 /\ a[Len(r) + 1] = e
          /\ \A i \in 1 .. Len(r) : a[i] = r[i]
      BY <1>1, <2>5, Queue
    <3>2. 1 \in 1 .. 1 /\ 1 + 1 = 2
      OBVIOUS
    <3>3. QED
      BY Zenon, <2>2, <3>1, <3>2
  <2> HIDE DEF a
  <2>7. \A i \in 1 .. 2 : i = 1 \/ i = 2
    OBVIOUS
  <2>8. \A i \in 1 .. Len(a) : Final(a[i])
    BY Zenon, <2>3, <2>5, <2>6, <2>7
  <2>9. Linked' = FALSE /\ toMacro' = a => Phase'
    BY Zenon, <1>7, <2>8 DEF Closing, Ended, Phase
  <2>10. QED
    BY Zenon, <1>7, <2>2, <2>9 DEF Closing, r, m, a, e
<1>8. CASE Ended
  <2>1. Final(m) /\ \A i \in 1 .. Len(r) : Final(r[i])
    BY Zenon, <1>2, <1>3, <1>8 DEF Ended, n
  <2>2. ASSUME toMacro' = r, UNCHANGED Linked PROVE Phase'
    <3>1. ~linked' /\ ~Linked'
      BY Zenon, <1>8, <2>2 DEF Ended
    <3>2. \A i \in 1 .. Len(toMacro') : Final(toMacro'[i])
      BY Zenon, <2>1, <2>2
    <3>3. QED
      BY Zenon, <3>1, <3>2 DEF Ended, Phase
  <2>3. QED
    BY Zenon, <1>4, <1>8, <2>1, <2>2 DEF Ended, r, m
<1>9. QED
  BY Zenon, <1>5, <1>6, <1>7, <1>8 DEF Phase

(* Requests and messages that are no command and no verdict.               *)
LEMMA Quiet ==
    /\ \A r \in Asked : r \in Commands <=> r.kind = "cmnd"
    /\ \A m \in Told : m \in Verdicts <=> m.kind = "nack" \/ (m.kind = "cmndend" /\ m.id # 0)
BY Zenon DEF Commands, Verdicts

(* A step that changes neither queue nor a command.                        *)
LEMMA FitsKept ==
    ASSUME FitsInv,
           UNCHANGED << linked, Linked, toTerm, toMacro, job, issued, timeouts, misfit >>,
           \/ TTLStatus' = TTLStatus
           \/ TTLStatus # "WaitCmndEnd"
    PROVE  (Phase /\ Token /\ CompletionFits)'
<1>1. Phase' /\ CompletionFits'
  BY Zenon DEF FitsInv, Phase, Stands, Closing, Ended, CompletionFits
<1>2. Token'
  BY Zenon DEF FitsInv, Token, CmndOver, CmndOpen
<1>3. QED
  BY Zenon, <1>1, <1>2

(* A step that makes a request for sync mode.                              *)
LEMMA FitsAsks ==
    ASSUME FitsInv, NEW r \in Asked, r.kind # "cmnd",
           toTerm' = Append(toTerm, r),
           UNCHANGED << linked, Linked, toMacro, job, issued, timeouts, misfit >>,
           \/ TTLStatus' = TTLStatus
           \/ TTLStatus # "WaitCmndEnd"
    PROVE  (Phase /\ Token /\ CompletionFits)'
<1>1. Phase' /\ CompletionFits'
  BY Zenon DEF FitsInv, Phase, Stands, Closing, Ended, CompletionFits
<1>2. toTerm \in Seq(Asked) /\ r \notin Commands
  BY Zenon, Quiet DEF FitsInv, LinkTypes, WireTypes
<1>3. /\ NoneOf(toTerm, Commands) => NoneOf(toTerm', Commands)
      /\ OneOf(toTerm, Commands, issued) => OneOf(toTerm', Commands, issued)
  BY Zenon, <1>2, OneMore
<1>4. Token'
  BY Zenon, <1>3 DEF FitsInv, Token, CmndOver, CmndOpen
<1>5. QED
  BY Zenon, <1>1, <1>4

(* Tera Term sends data.                                                   *)
LEMMA FitsDDEAdv == FitsInv /\ DDEAdv => (Phase /\ Token /\ CompletionFits)'
<1> SUFFICES ASSUME FitsInv, DDEAdv PROVE (Phase /\ Token /\ CompletionFits)'
  OBVIOUS
<1> DEFINE room == IF SyncFreeSpace < CreditMargin THEN 0 ELSE SyncFreeSpace - CreditMargin
           m == Tell("data", 0, Wired(Taken(room)))
<1>1. /\ linked /\ toMacro' = Append(toMacro, m)
      /\ UNCHANGED << put, SyncMode, job, linked, toTerm, ringVars, runVars, linkHistory >>
  BY Zenon DEF DDEAdv
<1>2. TermTypes /\ WireTypes /\ LinkTypes /\ Phase
  BY Zenon DEF LinkTypes, FitsInv
<1>3. room \in Nat
  BY <1>2, Constants DEF TermTypes
<1> HIDE DEF room
<1>4. Wired(Taken(room)) \in Seq(Unit)
  <2>1. Carries(Wired(Taken(room)), put - dcount, Taken(room))
    BY Zenon, <1>2, <1>3, TakenLemma
  <2>2. QED
    BY Zenon, <2>1 DEF Carries
<1>5. m \in Told /\ m.kind = "data"
  <2>1. "data" \in Kinds /\ 0 \in Int
    BY DEF Kinds
  <2>2. QED
    BY <1>4, <2>1, TellIsTold
<1> HIDE DEF m
<1>6. "data" # "disconnect" /\ "data" # "ddeend" /\ "data" # "cmndend" /\ "data" # "nack"
  OBVIOUS
<1>7. Plain(m) /\ m \notin Verdicts
  <2>1. m.kind \notin {"disconnect", "ddeend"}
    BY <1>5
  <2>2. QED
    BY Zenon, <1>5, <1>6, <2>1, Quiet DEF Plain
<1>8. Phase'
  BY Zenon, <1>1, <1>2, <1>5, <1>7, PhasePosts DEF runVars
<1>9. /\ NoneOf(toMacro, Verdicts) => NoneOf(toMacro', Verdicts)
      /\ OneOf(toMacro, Verdicts, issued) => OneOf(toMacro', Verdicts, issued)
  BY Zenon, <1>1, <1>2, <1>5, <1>7, OneMore DEF WireTypes
<1>10. Token' /\ CompletionFits'
  BY Zenon, <1>1, <1>9 DEF FitsInv, Token, CmndOver, CmndOpen, runVars, linkHistory, CompletionFits
<1>11. QED
  BY Zenon, <1>8, <1>10

(* Tera Term answers; a command is accepted and runs, or is refused.       *)
LEMMA FitsAcceptExecute == FitsInv /\ AcceptExecute => (Phase /\ Token /\ CompletionFits)'
<1> SUFFICES ASSUME FitsInv, AcceptExecute PROVE (Phase /\ Token /\ CompletionFits)'
  OBVIOUS
<1> DEFINE c == Head(toTerm)
<1>1. /\ linked /\ toTerm # << >> /\ toTerm' = Tail(toTerm)
      /\ CmdSetSync(c) \/ CmdStart(c)
      /\ UNCHANGED << put, dcount, linked, ringVars, runVars, read, readInOrder, misfit >>
  BY Zenon DEF AcceptExecute
<1>2. LinkTypes /\ Phase /\ toTerm \in Seq(Asked) /\ toMacro \in Seq(Told)
  BY Zenon DEF LinkTypes, FitsInv, WireTypes
<1>3. c \in Asked /\ c.id \in Int
  <2>1. c \in Asked
    BY <1>1, <1>2, Queue
  <2>2. QED
    BY Zenon, <2>1, AskedFields
<1>4. /\ NoneOf(toTerm, Commands) => NoneOf(toTerm', Commands) /\ c \notin Commands
      /\ OneOf(toTerm, Commands, issued) /\ c \notin Commands => OneOf(toTerm', Commands, issued)
      /\ OneOf(toTerm, Commands, issued) /\ c \in Commands =>
            NoneOf(toTerm', Commands) /\ c.id = issued
  BY Zenon, <1>1, <1>2, OneLess
<1> HIDE DEF c
<1>5. \A k \in {"ack", "nack"} :
        LET m == Tell(k, c.id, << >>)
        IN  m \in Told /\ Plain(m) /\ m.id = c.id /\ (m \in Verdicts <=> k = "nack")
  <2>1. TAKE k \in {"ack", "nack"}
  <2>2. k \in Dataless
        /\ k \notin {"disconnect", "ddeend"} /\ k # "cmndend"
    BY DEF Dataless
  <2> DEFINE m == Tell(k, c.id, << >>)
  <2>3. m \in Told /\ m.kind = k /\ m.id = c.id
    BY <1>3, <2>2, Bare
  <2> HIDE DEF m
  <2>4. Plain(m) /\ (m \in Verdicts <=> k = "nack")
    BY Zenon, <2>2, <2>3, Quiet DEF Plain
  <2>5. QED
    BY Zenon, <2>3, <2>4 DEF m
<1>6. "ack" \in {"ack", "nack"} /\ "nack" \in {"ack", "nack"} /\ "ack" # "nack" /\ "sync" # "cmnd"
  OBVIOUS
<1>7. CompletionFits'
  BY Zenon, <1>1 DEF FitsInv, CompletionFits, runVars
<1>8. CASE CmdSetSync(c)
  <2> DEFINE m == Tell("ack", c.id, << >>)
  <2>1. c.kind = "sync" /\ toMacro' = Append(toMacro, m) /\ UNCHANGED job
    BY Zenon, <1>8 DEF CmdSetSync
  <2>2. m \in Told /\ Plain(m) /\ m \notin Verdicts
    BY Zenon, <1>5, <1>6
  <2> HIDE DEF m
  <2>3. Phase'
    BY Zenon, <1>1, <1>2, <2>1, <2>2, PhasePosts DEF runVars
  <2>4. /\ NoneOf(toMacro, Verdicts) => NoneOf(toMacro', Verdicts)
        /\ OneOf(toMacro, Verdicts, issued) => OneOf(toMacro', Verdicts, issued)
    BY Zenon, <1>2, <2>1, <2>2, OneMore
  <2>5. c \notin Commands
    BY Zenon, <1>3, <1>6, <2>1, Quiet
  <2>6. Token'
    BY Zenon, <1>1, <1>4, <2>1, <2>4, <2>5 DEF FitsInv, Token, CmndOver, CmndOpen, runVars
  <2>7. QED
    BY Zenon, <1>7, <2>3, <2>6
<1>9. CASE CmdStart(c)
  <2>1. c.kind = "cmnd"
    BY Zenon, <1>9 DEF CmdStart
  <2>2. PICK ok \in {FALSE, job = 0} :
          /\ job' = IF ok THEN c.id ELSE job
          /\ toMacro' = Append(toMacro, Tell(IF ok THEN "ack" ELSE "nack", c.id, << >>))
    BY Zenon, <1>9 DEF CmdStart
  <2>3. c \in Commands
    BY Zenon, <1>3, <2>1, Quiet
  <2>4. CASE ok
    <3> DEFINE m == Tell("ack", c.id, << >>)
    <3>1. job' = c.id /\ toMacro' = Append(toMacro, m)
      BY Zenon, <2>2, <2>4
    <3>2. m \in Told /\ Plain(m) /\ m \notin Verdicts
      BY Zenon, <1>5, <1>6
    <3> HIDE DEF m
    <3>3. Phase'
      BY Zenon, <1>1, <1>2, <3>1, <3>2, PhasePosts DEF runVars
    <3>4. NoneOf(toMacro, Verdicts) => NoneOf(toMacro', Verdicts)
      BY Zenon, <1>2, <3>1, <3>2, OneMore
    <3>5. Token'
      BY Zenon, <1>1, <1>4, <2>3, <3>1, <3>4 DEF FitsInv, Token, CmndOver, CmndOpen, runVars
    <3>6. QED
      BY Zenon, <1>7, <3>3, <3>5
  <2>5. CASE ~ok
    <3> DEFINE m == Tell("nack", c.id, << >>)
    <3>1. job' = job /\ toMacro' = Append(toMacro, m)
      BY Zenon, <2>2, <2>5
    <3>2. m \in Told /\ Plain(m) /\ m.id = c.id /\ m \in Verdicts
      BY Zenon, <1>5, <1>6
    <3> HIDE DEF m
    <3>3. Phase'
      BY Zenon, <1>1, <1>2, <3>1, <3>2, PhasePosts DEF runVars
    <3>4. NoneOf(toMacro, Verdicts) /\ c.id = issued => OneOf(toMacro', Verdicts, issued)
      BY Zenon, <1>2, <3>1, <3>2, OneMore
    <3>5. Token'
      BY Zenon, <1>1, <1>4, <2>3, <3>1, <3>4 DEF FitsInv, Token, CmndOver, CmndOpen, runVars
    <3>6. QED
      BY Zenon, <1>7, <3>3, <3>5
  <2>6. QED
    BY Zenon, <2>4, <2>5
<1>10. QED
  BY Zenon, <1>1, <1>8, <1>9

(* A command ends: its end is on its way.                                  *)
LEMMA FitsEndDdeCmnd == FitsInv /\ EndDdeCmnd => (Phase /\ Token /\ CompletionFits)'
<1> SUFFICES ASSUME FitsInv, EndDdeCmnd PROVE (Phase /\ Token /\ CompletionFits)'
  OBVIOUS
<1> DEFINE m == Tell("cmndend", job, << >>)
<1>1. /\ linked /\ job > 0 /\ toMacro' = Append(toMacro, m) /\ job' = 0
      /\ UNCHANGED << put, dcount, SyncMode, SyncRecv, SyncFreeSpace, linked, toTerm,
                      ringVars, runVars, linkHistory >>
  BY Zenon DEF EndDdeCmnd
<1>2. LinkTypes /\ Phase /\ toMacro \in Seq(Told) /\ job \in 0 .. MaxCmnds
  BY Zenon DEF LinkTypes, FitsInv, WireTypes, TermTypes
<1>3. job \in Int /\ job # 0
  BY <1>1, <1>2, Constants
<1>4. /\ "cmndend" \in Dataless
      /\ "cmndend" \notin {"disconnect", "ddeend"}
  BY DEF Dataless
<1>5. m \in Told /\ m.kind = "cmndend" /\ m.id = job
  BY Zenon, <1>3, <1>4, Bare
<1> HIDE DEF m
<1>6. Plain(m) /\ m \in Verdicts
  BY Zenon, <1>3, <1>4, <1>5, Quiet DEF Plain
<1>7. Phase'
  BY Zenon, <1>1, <1>2, <1>5, <1>6, PhasePosts DEF runVars
<1>8. NoneOf(toMacro, Verdicts) /\ job = issued => OneOf(toMacro', Verdicts, issued)
  BY Zenon, <1>1, <1>2, <1>5, <1>6, OneMore
<1>9. Token' /\ CompletionFits'
  BY Zenon, <1>1, <1>3, <1>8 DEF FitsInv, Token, CmndOver, CmndOpen, runVars, linkHistory, CompletionFits
<1>10. QED
  BY Zenon, <1>7, <1>9

(* Tera Term ends: a command on its way or running never reports its end.  *)
LEMMA FitsEndDDE == FitsInv /\ EndDDE => (Phase /\ Token /\ CompletionFits)'
<1> SUFFICES ASSUME FitsInv, EndDDE PROVE (Phase /\ Token /\ CompletionFits)'
  OBVIOUS
<1> DEFINE a == Tell("disconnect", 0, << >>)
           b == Tell("cmndend", 0, << >>)
<1>1. /\ job' = 0 /\ toTerm' = << >> /\ toMacro' = toMacro \o << a, b >>
      /\ UNCHANGED runVars /\ UNCHANGED linkHistory
  BY Zenon DEF EndDDE
<1>2. LinkTypes /\ toMacro \in Seq(Told)
  BY Zenon DEF LinkTypes, FitsInv, WireTypes
<1>3. /\ "disconnect" \in Dataless
      /\ "cmndend" \in Dataless
      /\ 0 \in Int /\ "disconnect" # "nack" /\ "disconnect" # "cmndend" /\ "cmndend" # "nack"
  BY DEF Dataless
<1>4. a \in Told /\ b \in Told /\ a.kind = "disconnect" /\ b.kind = "cmndend" /\ b.id = 0
  BY Zenon, <1>3, Bare
<1> HIDE DEF a, b
<1>5. a \notin Verdicts /\ b \notin Verdicts
  BY Zenon, <1>3, <1>4, Quiet
<1>6. toMacro' = Append(Append(toMacro, a), b) /\ Append(toMacro, a) \in Seq(Told)
  BY <1>1, <1>2, <1>4, LastWords
<1>7. /\ NoneOf(toMacro, Verdicts) => NoneOf(Append(toMacro, a), Verdicts)
      /\ OneOf(toMacro, Verdicts, issued) => OneOf(Append(toMacro, a), Verdicts, issued)
  BY Zenon, <1>2, <1>4, <1>5, OneMore
<1>8. /\ NoneOf(toMacro, Verdicts) => NoneOf(toMacro', Verdicts)
      /\ OneOf(toMacro, Verdicts, issued) => OneOf(toMacro', Verdicts, issued)
  BY Zenon, <1>4, <1>5, <1>6, <1>7, OneMore
<1>9. NoneOf(toTerm', Commands)
  <2>1. \A i \in 1 .. Len(<< >>) : FALSE
    OBVIOUS
  <2>2. QED
    BY Zenon, <1>1, <2>1 DEF NoneOf
<1>10. Token' /\ CompletionFits'
  BY Zenon, <1>1, <1>8, <1>9 DEF FitsInv, Token, CmndOver, CmndOpen, runVars, linkHistory, CompletionFits
<1>11. QED
  BY Zenon, <1>10, PhaseEndDDE DEF FitsInv

(* The macro handles a message: the end or the refusal of a command meets  *)
(* the wait for it.                                                        *)
LEMMA FitsDispatch == FitsInv /\ Dispatch => (Phase /\ Token /\ CompletionFits)'
<1> SUFFICES ASSUME FitsInv, Dispatch PROVE (Phase /\ Token /\ CompletionFits)'
  OBVIOUS
<1> DEFINE m == Head(toMacro)
<1>1. /\ toMacro # << >>
      /\ AcceptData(m) \/ Acknowledge(m) \/ OnDdeCmndEnd(m) \/ Disconnected(m) \/ OnDdeEnd(m)
      /\ UNCHANGED << termVars, toTerm, idlePc, issued, syncs, timeouts, read, readInOrder, clean >>
  BY Zenon DEF Dispatch
<1>2. LinkTypes /\ Phase /\ Token /\ CompletionFits /\ toMacro \in Seq(Told)
  BY Zenon DEF LinkTypes, FitsInv, WireTypes
<1>3. UNCHANGED << linked, job >>
  BY Zenon, <1>1 DEF termVars
<1>4. m \in Told
  BY <1>1, <1>2, Queue
<1>5. /\ Linked /\ m.kind # "disconnect" =>
            /\ Plain(m)
            /\ toMacro' = Tail(toMacro) /\ UNCHANGED Linked => Phase'
      /\ ~Linked => /\ Final(m)
                    /\ toMacro' = Tail(toMacro) /\ UNCHANGED Linked => Phase'
      /\ m.kind = "disconnect" =>
            /\ Linked
            /\ /\ Linked' = FALSE
               /\ toMacro' = Append(Tail(toMacro), Tell("ddeend", 0, << >>))
               => Phase'
  BY Zenon, <1>1, <1>2, <1>3, PhaseDispatch
<1>6. /\ NoneOf(toMacro, Verdicts) => NoneOf(Tail(toMacro), Verdicts) /\ m \notin Verdicts
      /\ OneOf(toMacro, Verdicts, issued) /\ m \notin Verdicts => OneOf(Tail(toMacro), Verdicts, issued)
      /\ OneOf(toMacro, Verdicts, issued) /\ m \in Verdicts =>
            NoneOf(Tail(toMacro), Verdicts) /\ m.id = issued
  BY Zenon, <1>1, <1>2, OneLess
<1> HIDE DEF m
<1>7. /\ "data" # "nack" /\ "data" # "cmndend" /\ "data" # "disconnect" /\ "ack" # "nack"
      /\ "ack" # "cmndend" /\ "ack" # "disconnect" /\ "nack" # "disconnect"
      /\ "cmndend" # "disconnect" /\ "ddeend" # "disconnect" /\ "ddeend" # "nack"
      /\ "ddeend" # "cmndend" /\ "cmndend" # "nack" /\ "ddeend" \in {"disconnect", "ddeend"}
  OBVIOUS
<1>8. m \in Verdicts <=> m.kind = "nack" \/ (m.kind = "cmndend" /\ m.id # 0)
  BY Zenon, <1>4, Quiet
<1>9. ASSUME toMacro' = Tail(toMacro), UNCHANGED << Linked, misfit >>, m.kind # "disconnect",
             TTLStatus' = TTLStatus \/ m \in Verdicts
      PROVE  (Phase /\ Token /\ CompletionFits)'
  <2>1. Phase'
    BY Zenon, <1>5, <1>9, <1>2
  <2>2. CompletionFits'
    BY Zenon, <1>1, <1>2, <1>9 DEF CompletionFits
  <2>3. Token'
    BY Zenon, <1>1, <1>2, <1>3, <1>6, <1>9 DEF Token, CmndOver, CmndOpen
  <2>4. QED
    BY Zenon, <2>1, <2>2, <2>3
<1>10. CASE AcceptData(m)
  BY Zenon, <1>7, <1>9, <1>10 DEF AcceptData
<1>11. CASE Acknowledge(m)
  <2>1. /\ m.kind \in {"ack", "nack"}
        /\ Returns(m.kind = "ack") \/ UNCHANGED << transact, TTLStatus >>
        /\ toMacro' = Tail(toMacro) /\ UNCHANGED << ringVars, Linked, misfit >>
    BY Zenon, <1>11 DEF Acknowledge
  <2>2. m.kind # "disconnect" /\ (m.kind = "ack" \/ m.kind = "nack")
    BY <2>1
  <2>3. TTLStatus' = TTLStatus \/ m \in Verdicts
    BY Zenon, <1>8, <2>1, <2>2 DEF Returns
  <2>4. QED
    BY Zenon, <1>9, <2>1, <2>2, <2>3
<1>12. CASE OnDdeCmndEnd(m)
  <2>1. /\ m.kind = "cmndend"
        /\ TTLStatus' = IF TTLStatus = "WaitCmndEnd" THEN "Run" ELSE TTLStatus
        /\ misfit' = (misfit \/ (TTLStatus = "WaitCmndEnd" /\ m.id \notin {0, issued}))
        /\ toMacro' = Tail(toMacro)
        /\ UNCHANGED << ringVars, Linked, transact >>
    BY Zenon, <1>12 DEF OnDdeCmndEnd
  <2>2. Phase'
    BY Zenon, <1>2, <1>5, <1>7, <2>1
  <2>3. CASE m.id # 0
    <3>1. m \in Verdicts /\ ~Final(m)
      BY Zenon, <1>7, <1>8, <2>1, <2>3 DEF Final
    <3>2. Linked
      BY Zenon, <1>5, <3>1
    <3>3. timeouts = 0 => m.id = issued
      BY Zenon, <1>2, <1>6, <3>1, <3>2 DEF Token, CmndOver, CmndOpen
    <3>4. timeouts = 0 => ~misfit'
      BY Zenon, <1>2, <2>1, <3>3 DEF CompletionFits
    <3>5. CompletionFits'
      BY Zenon, <1>1, <3>4 DEF CompletionFits
    <3>6. Token'
      BY Zenon, <1>1, <1>2, <1>3, <1>6, <2>1, <3>1 DEF Token, CmndOver, CmndOpen
    <3>7. QED
      BY Zenon, <2>2, <3>5, <3>6
  <2>4. CASE m.id = 0
    <3>1. ~Plain(m)
      BY Zenon, <2>1, <2>4 DEF Plain
    <3>2. ~Linked
      BY Zenon, <1>5, <1>7, <2>1, <3>1
    <3>3. misfit' = misfit
      <4>1. misfit \in BOOLEAN
        BY Zenon, <1>2 DEF LinkTypes, HistoryTypes
      <4>2. QED
        BY <2>1, <2>4, <4>1
    <3>4. Token'
      BY Zenon, <2>1, <3>2 DEF Token
    <3>5. CompletionFits'
      BY Zenon, <1>1, <1>2, <3>3 DEF CompletionFits
    <3>6. QED
      BY Zenon, <2>2, <3>4, <3>5
  <2>5. QED
    BY Zenon, <2>3, <2>4
<1>13. CASE Disconnected(m)
  <2>1. /\ m.kind = "disconnect" /\ Linked' = FALSE
        /\ toMacro' = Append(Tail(toMacro), Tell("ddeend", 0, << >>))
        /\ UNCHANGED misfit
    BY Zenon, <1>13 DEF Disconnected
  <2>2. Phase'
    BY Zenon, <1>5, <2>1
  <2>3. Token' /\ CompletionFits'
    BY Zenon, <1>1, <1>2, <2>1 DEF Token, CompletionFits
  <2>4. QED
    BY Zenon, <2>2, <2>3
<1>14. CASE OnDdeEnd(m)
  <2>1. /\ m.kind = "ddeend" /\ toMacro' = Tail(toMacro) /\ UNCHANGED << Linked, misfit >>
    BY Zenon, <1>14 DEF OnDdeEnd
  <2>2. ~Plain(m)
    BY Zenon, <1>7, <2>1 DEF Plain
  <2>3. ~Linked
    BY Zenon, <1>5, <1>7, <2>1, <2>2
  <2>4. Phase'
    BY Zenon, <1>5, <2>1, <2>3
  <2>5. Token' /\ CompletionFits'
    BY Zenon, <1>1, <1>2, <2>1, <2>3 DEF Token, CompletionFits
  <2>6. QED
    BY Zenon, <2>4, <2>5
<1>15. QED
  BY Zenon, <1>1, <1>10, <1>11, <1>12, <1>13, <1>14

(* A transaction that is given up or a wait that times out is the excuse.  *)
LEMMA FitsGiveUp == FitsInv /\ (GiveUp \/ OnTimer) => (Phase /\ Token /\ CompletionFits)'
<1> SUFFICES ASSUME FitsInv, GiveUp \/ OnTimer PROVE (Phase /\ Token /\ CompletionFits)'
  OBVIOUS
<1>1. /\ timeouts' = timeouts + 1 /\ UNCHANGED << termVars, toMacro, Linked >>
  BY Zenon DEF GiveUp, OnTimer
<1>2. timeouts' # 0
  <2>1. timeouts \in 0 .. MaxTimeouts
    BY Zenon DEF FitsInv, LinkTypes, RunTypes
  <2>2. QED
    BY <1>1, <2>1
<1>3. Phase'
  BY Zenon, <1>1 DEF FitsInv, Phase, Stands, Closing, Ended, termVars
<1>4. Token' /\ CompletionFits'
  BY Zenon, <1>2 DEF Token, CompletionFits
<1>5. QED
  BY Zenon, <1>3, <1>4

(* OnIdle and Wait, which may offer room.                                  *)
LEMMA FitsSendSync ==
    ASSUME FitsInv, NEW n \in Nat, SendSync(n),
           UNCHANGED << linked, Linked, toMacro, job, issued, timeouts, misfit >>,
           \/ TTLStatus' = TTLStatus
           \/ TTLStatus # "WaitCmndEnd"
    PROVE  (Phase /\ Token /\ CompletionFits)'
<1>1. CASE Linked /\ MacroSync /\ ~SyncSent /\ n < RCountLimit
  <2>1. TellRoom(Room(n))
    BY Zenon, <1>1 DEF SendSync
  <2>2. Room(n) \in 0 .. RingBufSize /\ LinkTypes
    BY RoomLemma DEF FitsInv
  <2> DEFINE r == Ask("sync", SyncId, Room(n))
  <2>3. r \in Asked /\ toTerm' = Append(toTerm, r)
    BY Zenon, <2>1, <2>2, TypesTellRoom
  <2>4. r.kind # "cmnd"
    BY DEF Ask
  <2> HIDE DEF r
  <2>5. QED
    BY Zenon, <2>3, <2>4, FitsAsks
<1>2. CASE ~(Linked /\ MacroSync /\ ~SyncSent /\ n < RCountLimit)
  <2>1. UNCHANGED toTerm
    BY Zenon, <1>2 DEF SendSync
  <2>2. QED
    BY Zenon, <2>1, FitsKept
<1>3. QED
  BY Zenon, <1>1, <1>2

(* The macro's own steps.                                                  *)
LEMMA FitsIdle == FitsInv /\ MacroIdle => (Phase /\ Token /\ CompletionFits)'
<1> SUFFICES ASSUME FitsInv, MacroIdle PROVE (Phase /\ Token /\ CompletionFits)'
  OBVIOUS
<1>1. RingBuf \in Seq(Unit) /\ LinkTypes
  BY Zenon DEF FitsInv, LinkTypes, RingTypes
<1>2. Len(RingBuf) \in Nat /\ \A n \in 0 .. Len(RingBuf) : Len(RingBuf) - n \in Nat
  BY <1>1
<1>3. "Run" # "WaitCmndEnd" /\ "Wait" # "WaitCmndEnd"
  OBVIOUS
<1>4. CASE OnIdle
  <2>1. /\ SendSync(Len(RingBuf))
        /\ UNCHANGED << linked, Linked, toMacro, job, issued, timeouts, misfit, TTLStatus >>
    BY Zenon, <1>4 DEF OnIdle, termVars, linkHistory
  <2>2. QED
    BY Zenon, <1>2, <2>1, FitsSendSync
<1>5. CASE Wait
  <2>1. /\ TTLStatus = "Wait"
        /\ \E n \in 0 .. Len(RingBuf) : SendSync(Len(RingBuf) - n)
        /\ UNCHANGED << linked, Linked, toMacro, job, issued, timeouts, misfit >>
    BY Zenon, <1>5 DEF Wait, termVars
  <2>2. QED
    BY Zenon, <1>2, <1>3, <2>1, FitsSendSync
<1>6. CASE Rests
  <2>1. UNCHANGED << linked, Linked, toTerm, toMacro, job, issued, timeouts, misfit, TTLStatus >>
    BY Zenon, <1>6 DEF Rests, termVars, linkHistory
  <2>2. QED
    BY Zenon, <2>1, FitsKept
<1>7. CASE Exec
  <2>1. /\ TTLStatus = "Run"
        /\ UNCHANGED << linked, Linked, toMacro, job, timeouts, misfit >>
    BY Zenon, <1>7 DEF Exec, termVars, linkHistory
  <2>2. CASE TTLWait
    <3>1. UNCHANGED << toTerm, issued >>
      BY Zenon, <2>2 DEF TTLWait
    <3>2. QED
      BY Zenon, <1>3, <2>1, <3>1, FitsKept
  <2>3. CASE SetSync
    <3>1. /\ TellRoom(IF MacroSync' THEN Room(Len(RingBuf)) ELSE 0) /\ UNCHANGED << TTLStatus, issued >>
      BY Zenon, <2>3 DEF SetSync
    <3> DEFINE room == IF MacroSync' THEN Room(Len(RingBuf)) ELSE 0
               r == Ask("sync", SyncId, room)
    <3>2. Room(Len(RingBuf)) \in 0 .. RingBufSize /\ 0 \in 0 .. RingBufSize
      BY <1>2, RoomLemma, Constants
    <3>3. room \in 0 .. RingBufSize
      BY Zenon, <3>2
    <3>4. TellRoom(room)
      BY Zenon, <3>1
    <3> HIDE DEF room
    <3>5. r \in Asked /\ toTerm' = Append(toTerm, r)
      BY Zenon, <1>1, <3>3, <3>4, TypesTellRoom
    <3>6. r.kind # "cmnd"
      BY DEF Ask
    <3> HIDE DEF r
    <3>7. QED
      BY Zenon, <2>1, <3>1, <3>5, <3>6, FitsAsks
  <2>4. CASE SendCmnd
    <3> DEFINE r == Ask("cmnd", issued', 0)
    <3>1. /\ issued < MaxCmnds /\ issued' = issued + 1 /\ TTLStatus' = "WaitCmndEnd"
          /\ toTerm' = Append(toTerm, r)
      BY Zenon, <2>4 DEF SendCmnd
    <3>2. issued \in 0 .. MaxCmnds /\ toTerm \in Seq(Asked)
      BY Zenon, <1>1 DEF LinkTypes, RunTypes, WireTypes
    <3>3. issued' \in 1 .. MaxCmnds /\ issued' \in Int
      BY <3>1, <3>2, Constants
    <3>4. 0 \in 0 .. RingBufSize /\ "cmnd" \in {"sync", "cmnd"}
      BY Constants
    <3>5. r \in Asked /\ r.kind = "cmnd" /\ r.id = issued'
      BY <3>3, <3>4, AskIsAsked
    <3> HIDE DEF r
    <3>6. r \in Commands
      BY Zenon, <3>5, Quiet
    <3>7. NoneOf(toTerm, Commands) => OneOf(toTerm', Commands, issued')
      BY Zenon, <3>1, <3>2, <3>5, <3>6, OneMore
    <3>8. timeouts = 0 /\ Linked => CmndOver
      BY Zenon, <1>3, <2>1 DEF FitsInv, Token
    <3>9. Token'
      BY Zenon, <2>1, <3>1, <3>7, <3>8 DEF Token, CmndOver, CmndOpen
    <3>10. Phase' /\ CompletionFits'
      BY Zenon, <2>1 DEF FitsInv, Phase, Stands, Closing, Ended, CompletionFits
    <3>11. QED
      BY Zenon, <3>9, <3>10
  <2>5. CASE UNCHANGED << TTLStatus, toTerm, transact, issued, syncs, MacroSync, SyncSent >>
    BY Zenon, <2>1, <2>5, FitsKept
  <2>6. QED
    BY Zenon, <1>7, <2>2, <2>3, <2>4, <2>5 DEF Exec
<1>8. QED
  BY Zenon, <1>4, <1>5, <1>6, <1>7 DEF MacroIdle

(* FitsInv is inductive.                                                   *)
LEMMA FitsStep == FitsInv /\ [LinkNext]_linkVars => FitsInv'
<1> SUFFICES ASSUME FitsInv, [LinkNext]_linkVars PROVE FitsInv'
  OBVIOUS
<1>1. LinkTypes'
  BY Zenon, TypesStep DEF FitsInv
<1>2. CASE DDEPut1
  <2>1. UNCHANGED << linked, Linked, toTerm, toMacro, job, issued, timeouts, misfit, TTLStatus >>
    BY Zenon, <1>2 DEF DDEPut1, runVars, linkHistory
  <2>2. QED
    BY Zenon, <1>1, <2>1, FitsKept DEF FitsInv
<1>3. CASE UNCHANGED linkVars
  <2>1. UNCHANGED << linked, Linked, toTerm, toMacro, job, issued, timeouts, misfit, TTLStatus >>
    BY Zenon, <1>3 DEF linkVars, termVars, runVars, linkHistory
  <2>2. QED
    BY Zenon, <1>1, <2>1, FitsKept DEF FitsInv
<1>4. QED
  BY Zenon, <1>1, <1>2, <1>3, FitsDDEAdv, FitsAcceptExecute, FitsEndDdeCmnd, FitsEndDDE,
     FitsDispatch, FitsGiveUp, FitsIdle DEF LinkNext, FitsInv

(* At the start nothing is on its way.                                     *)
LEMMA FitsInit == LinkInit => FitsInv
<1> SUFFICES ASSUME LinkInit PROVE FitsInv
  OBVIOUS
<1>1. \A i \in 1 .. Len(<< >>) : FALSE
  OBVIOUS
<1>2. Stands /\ CmndOver /\ CompletionFits
  BY Zenon, <1>1 DEF LinkInit, Stands, CmndOver, NoneOf, CompletionFits
<1>3. QED
  BY Zenon, <1>2, TypesInit DEF FitsInv, Phase, Token

(* Whatever the bounds: unless a transaction was given up, a wait for the  *)
(* end of a command is ended by the end of that command (ttmdde.c SendCmnd *)
(* and DdeCallbackProc, ttdde.c EndDdeCmnd and EndDDE).                    *)
THEOREM CommandsFit == LinkSpec => []CompletionFits
<1>1. FitsInv => CompletionFits
  BY Zenon DEF FitsInv
<1>2. LinkSpec => []FitsInv
  <2>1. FitsInv /\ [LinkNext]_linkVars => FitsInv'
    BY Zenon, FitsStep
  <2>2. QED
    BY FitsInit, <2>1, PTL DEF LinkSpec
<1>3. QED
  BY <1>1, <1>2, PTL
-----------------------------------------------------------------------------
(* The units between cv_LogBuf and the reader: those in the ring buffer    *)
(* and those on their way to it.                                           *)
Bodies(q) == [i \in 1 .. Len(q) |-> q[i].data]
Flight(q) == FlattenSeq(Bodies(q))
Ahead == RingBuf \o Flight(toMacro)

(* They are a run of whole bytes that the reader has not seen; a quote it  *)
(* has seen is behind it only if its unit was lost.                        *)
StreamOK ==
    /\ Chained(Ahead) /\ Closed(Ahead) /\ Closed(RingBuf)
    /\ \A i \in 1 .. Len(toMacro) : Closed(toMacro[i].data)
    /\ QuoteFlag => RingBuf # << >>
    /\ Ahead = << >> => read <= put - dcount
    /\ Ahead # << >> =>
          /\ Ahead[Len(Ahead)][1] <= put - dcount
          /\ linked => Ahead[Len(Ahead)][1] = put - dcount
          /\ read < Ahead[1][1]
          /\ QuoteFlag /\ Ahead[1][2] # "low" => read + 1 < Ahead[1][1]

StreamInv == LinkTypes /\ StreamOK
-----------------------------------------------------------------------------
(* The bodies of messages, in a row.                                       *)
LEMMA BodiesLemma ==
    ASSUME NEW q \in Seq(Told)
    PROVE  /\ Bodies(q) \in Seq(Seq(Unit))
           /\ \A m \in Told : Bodies(Append(q, m)) = Append(Bodies(q), m.data)
           /\ q # << >> => Bodies(q) = << Head(q).data >> \o Bodies(Tail(q))
<1> DEFINE S == Seq(Unit)
<1>1. \A m \in Told : m.data \in S
  BY Zenon, ToldFields
<1> HIDE DEF S
<1>2. \A r \in Seq(Told) :
        /\ Bodies(r) \in Seq(S) /\ Len(Bodies(r)) = Len(r) /\ Len(r) \in Nat
        /\ \A i \in 1 .. Len(r) : Bodies(r)[i] = r[i].data
  <2>1. TAKE r \in Seq(Told)
  <2>2. Len(r) \in Nat /\ \A i \in 1 .. Len(r) : r[i].data \in S
    <3>1. Len(r) \in Nat /\ \A i \in 1 .. Len(r) : r[i] \in Told
      BY Queue
    <3>2. QED
      BY Zenon, <1>1, <3>1
  <2>3. QED
    BY <2>2 DEF Bodies
<1>3. ASSUME NEW m \in Told PROVE Bodies(Append(q, m)) = Append(Bodies(q), m.data)
  <2> DEFINE r == Append(q, m)
             a == Bodies(r)
             b == Append(Bodies(q), m.data)
             n == Len(q)
  <2>1. /\ n \in Nat /\ r \in Seq(Told) /\ Len(r) = n + 1 /\ r[n + 1] = m
        /\ \A i \in 1 .. n : r[i] = q[i]
    BY Queue
  <2> HIDE DEF r
  <2>2. /\ a \in Seq(S) /\ Len(a) = n + 1 /\ \A i \in 1 .. n + 1 : a[i] = r[i].data
    BY Zenon, <1>2, <2>1
  <2>3. /\ Bodies(q) \in Seq(S) /\ m.data \in S /\ Len(Bodies(q)) = n
        /\ \A i \in 1 .. n : Bodies(q)[i] = q[i].data
    BY Zenon, <1>1, <1>2
  <2>4. /\ b \in Seq(S) /\ Len(b) = n + 1 /\ b[n + 1] = m.data
        /\ \A i \in 1 .. n : b[i] = Bodies(q)[i]
    BY <2>1, <2>3, Queue
  <2> HIDE DEF a, b, n
  <2>5. \A i \in 1 .. n + 1 : i \in 1 .. n \/ i = n + 1
    BY <2>1
  <2>6. \A i \in 1 .. n + 1 : a[i] = b[i]
    <3>1. TAKE i \in 1 .. n + 1
    <3>2. CASE i = n + 1
      BY Zenon, <2>1, <2>2, <2>4, <3>2
    <3>3. CASE i \in 1 .. n
      BY Zenon, <2>1, <2>2, <2>3, <2>4, <3>3
    <3>4. QED
      BY Zenon, <2>5, <3>2, <3>3
  <2>7. a = b
    BY <2>1, <2>2, <2>4, <2>6
  <2>8. QED
    BY Zenon, <2>7 DEF a, b, r
<1>4. ASSUME q # << >> PROVE Bodies(q) = << Head(q).data >> \o Bodies(Tail(q))
  <2> DEFINE r == Tail(q)
             h == Head(q).data
             c == Bodies(r)
             a == Bodies(q)
             b == << h >> \o c
             n == Len(q)
  <2>1. /\ n \in Nat /\ n > 0 /\ r \in Seq(Told) /\ Len(r) = n - 1 /\ Head(q) = q[1] /\ Head(q) \in Told
        /\ \A i \in 1 .. n - 1 : r[i] = q[i + 1]
    BY <1>4, Queue
  <2> HIDE DEF r
  <2>2. a \in Seq(S) /\ Len(a) = n /\ \A i \in 1 .. n : a[i] = q[i].data
    BY Zenon, <1>2
  <2>3. c \in Seq(S) /\ Len(c) = n - 1 /\ \A i \in 1 .. n - 1 : c[i] = r[i].data
    BY Zenon, <1>2, <2>1
  <2>4. h \in S /\ h = q[1].data
    BY Zenon, <1>1, <2>1
  <2> HIDE DEF h, c
  <2>5. /\ b \in Seq(S) /\ Len(b) = n /\ b[1] = h
        /\ \A i \in 1 .. n - 1 : b[i + 1] = c[i]
    BY <2>1, <2>3, <2>4
  <2> HIDE DEF a, b, n
  <2>6. \A i \in 1 .. n : i = 1 \/ (i - 1 \in 1 .. n - 1 /\ i - 1 + 1 = i)
    BY <2>1
  <2>7. \A i \in 1 .. n : a[i] = b[i]
    <3>1. TAKE i \in 1 .. n
    <3>2. CASE i = 1
      BY Zenon, <2>2, <2>4, <2>5, <3>2
    <3>3. CASE i - 1 \in 1 .. n - 1 /\ i - 1 + 1 = i
      <4>1. b[i - 1 + 1] = c[i - 1] /\ c[i - 1] = r[i - 1].data /\ r[i - 1] = q[i - 1 + 1]
        BY Zenon, <2>1, <2>3, <2>5, <3>3
      <4>2. QED
        BY Zenon, <2>2, <3>3, <4>1
    <3>4. QED
      BY Zenon, <2>6, <3>2, <3>3
  <2>8. a = b
    <3>1. a \in Seq(S) /\ b \in Seq(S) /\ Len(a) = n /\ Len(b) = n
      BY Zenon, <2>2, <2>5
    <3>2. QED
      BY <2>7, <3>1
  <2>9. QED
    BY Zenon, <2>8 DEF a, b, c, h, r
<1>5. QED
  BY Zenon, <1>2, <1>3, <1>4 DEF S

(* What is on its way, with a message more or one less.                    *)
LEMMA FlightLemma ==
    ASSUME NEW q \in Seq(Told)
    PROVE  /\ Flight(q) \in Seq(Unit)
           /\ \A m \in Told : Flight(Append(q, m)) = Flight(q) \o m.data
           /\ q # << >> => Flight(q) = Head(q).data \o Flight(Tail(q))
<1>1. Bodies(q) \in Seq(Seq(Unit))
  BY Zenon, BodiesLemma
<1>2. << >> \in Seq(Unit)
  OBVIOUS
<1>3. FlattenSeq(Bodies(q)) \in Seq(Unit)
  BY <1>1, <1>2, FlattenParts
<1>4. ASSUME NEW m \in Told PROVE Flight(Append(q, m)) = Flight(q) \o m.data
  <2>1. m.data \in Seq(Unit)
    BY Zenon, ToldFields
  <2>2. Bodies(Append(q, m)) = Append(Bodies(q), m.data)
    BY Zenon, BodiesLemma
  <2>3. FlattenSeq(Append(Bodies(q), m.data)) = FlattenSeq(Bodies(q)) \o m.data
    BY <1>1, <2>1, FlattenParts
  <2>4. QED
    BY Zenon, <2>2, <2>3 DEF Flight
<1>5. ASSUME q # << >> PROVE Flight(q) = Head(q).data \o Flight(Tail(q))
  <2>1. Head(q) \in Told /\ Tail(q) \in Seq(Told)
    BY <1>5, Queue
  <2>2. Head(q).data \in Seq(Unit) /\ Bodies(Tail(q)) \in Seq(Seq(Unit))
    BY Zenon, <2>1, ToldFields, BodiesLemma
  <2>3. Bodies(q) = << Head(q).data >> \o Bodies(Tail(q))
    BY Zenon, <1>5, BodiesLemma
  <2>4. FlattenSeq(<< Head(q).data >> \o Bodies(Tail(q))) = Head(q).data \o FlattenSeq(Bodies(Tail(q)))
    BY <2>2, FlattenParts
  <2>5. QED
    BY Zenon, <2>3, <2>4 DEF Flight
<1>6. QED
  BY Zenon, <1>3, <1>4, <1>5 DEF Flight
-----------------------------------------------------------------------------
(* Runs of units.                                                          *)

(* The numbers of a run do not fall, and rise by one behind a unit that is *)
(* no quote.                                                               *)
LEMMA Rising ==
    ASSUME NEW s \in Seq(Unit), Chained(s), NEW j \in 1 .. Len(s)
    PROVE  /\ s[1][1] <= s[j][1]
           /\ j > 1 /\ s[1][2] # "quote" => s[1][1] < s[j][1]
<1> DEFINE n == Len(s)
           N(i) == s[i][1]
           K(i) == s[i][2]
           Good(i) == N(1) <= N(i) /\ (i > 1 /\ K(1) # "quote" => N(1) < N(i))
           S == { i \in Nat : i \in 1 .. n => Good(i) }
<1>1. n \in Nat /\ \A i \in 1 .. n : N(i) \in Nat
  <2>1. n \in Nat /\ \A i \in 1 .. n : s[i] \in Unit
    BY Queue
  <2>2. \A i \in 1 .. n : N(i) \in 1 .. MaxPut
    BY Zenon, <2>1, UnitParts
  <2> HIDE DEF N
  <2>3. QED
    BY <2>1, <2>2, Constants
<1>2. \A i \in 1 .. n - 1 : N(i + 1) = IF K(i) = "quote" THEN N(i) ELSE N(i) + 1
  BY Zenon DEF Chained, NextUnit
<1> HIDE DEF n, N, K
<1>3. 0 \in S
  OBVIOUS
<1>4. ASSUME NEW i \in Nat, i \in S PROVE i + 1 \in S
  <2>1. CASE i = 0
    <3>1. i + 1 = 1
      BY <2>1
    <3>2. QED
      BY <1>1, <3>1
  <2>2. CASE i # 0
    <3> SUFFICES ASSUME i + 1 \in 1 .. n PROVE Good(i + 1)
      BY <1>4
    <3>1. i \in 1 .. n - 1 /\ i \in 1 .. n /\ 1 \in 1 .. n
      BY <1>1, <2>2
    <3>2. Good(i)
      BY <1>4, <3>1
    <3>3. N(i + 1) = IF K(i) = "quote" THEN N(i) ELSE N(i) + 1
      BY Zenon, <1>2, <3>1
    <3>4. N(i) \in Nat /\ N(1) \in Nat /\ N(i + 1) \in Nat
      BY Zenon, <1>1, <3>1
    <3>5. CASE i = 1
      BY <3>2, <3>3, <3>4, <3>5
    <3>6. CASE i # 1
      BY <2>2, <3>2, <3>3, <3>4, <3>6
    <3>7. QED
      BY Zenon, <3>5, <3>6
  <2>3. QED
    BY Zenon, <2>1, <2>2
<1> HIDE DEF S
<1>5. j \in S
  <2>1. j \in Nat
    OBVIOUS
  <2>2. QED
    BY <1>3, <1>4, <2>1, SetInduction
<1>6. Good(j)
  BY Zenon, <1>5 DEF S, n
<1>7. QED
  BY Zenon, <1>6 DEF N, K

(* What is left of whole bytes without the first k units ends with one.    *)
LEMMA CutCloses ==
    ASSUME NEW s \in Seq(Unit), Closed(s), NEW k \in 0 .. Len(s)
    PROVE  LET t == SubSeq(s, k + 1, Len(s))
           IN  Closed(t) /\ (t = << >> => k = Len(s))
<1> DEFINE t == SubSeq(s, k + 1, Len(s))
           n == Len(s)
<1>1. /\ n \in Nat /\ k \in Nat /\ k <= n /\ t \in Seq(Unit) /\ Len(t) = n - k
      /\ \A i \in 1 .. n - k : t[i] = s[k + i]
  BY Dropped
<1>2. n > 0 => s # << >>
  OBVIOUS
<1> HIDE DEF t, n
<1>3. t = << >> => k = n
  BY <1>1
<1>4. t # << >> => n > 0 /\ t[Len(t)] = s[n]
  <2> SUFFICES ASSUME t # << >> PROVE n > 0 /\ t[Len(t)] = s[n]
    OBVIOUS
  <2>1. n > 0 /\ n - k \in 1 .. n - k /\ k + (n - k) = n
    BY <1>1
  <2>2. QED
    BY Zenon, <1>1, <2>1
<1>5. Closed(t)
  BY Zenon, <1>2, <1>4 DEF Closed, n
<1>6. QED
  BY Zenon, <1>3, <1>5 DEF t, n

(* What is left of a run of whole bytes without its first k units.         *)
LEMMA RunDrops ==
    ASSUME NEW s \in Seq(Unit), NEW k \in 0 .. Len(s),
           Chained(s), Closed(s)
    PROVE  LET t == SubSeq(s, k + 1, Len(s))
           IN  /\ t \in Seq(Unit) /\ Chained(t) /\ Closed(t)
               /\ k = 0 => t = s
               /\ t = << >> => k = Len(s)
               /\ t # << >> => /\ k < Len(s) /\ t[1] = s[k + 1]
                               /\ t[Len(t)] = s[Len(s)] /\ s # << >>
<1> DEFINE n == Len(s)
           t == SubSeq(s, k + 1, Len(s))
<1>0. t = SubSeq(s, k + 1, Len(s))
  BY Zenon
<1>3. k = 0 => t = s
  OBVIOUS
<1> HIDE DEF t
<1>1. /\ n \in Nat /\ k <= n /\ k \in Nat /\ t \in Seq(Unit) /\ Len(t) = n - k
      /\ \A i \in 1 .. n - k : t[i] = s[k + i]
      /\ t # << >> => Len(t) > 0
      /\ t = << >> => Len(t) = 0
      /\ n > 0 => s # << >>
  <2>1. /\ t \in Seq(Unit) /\ Len(t) = n - k
        /\ \A i \in 1 .. n - k : t[i] = s[k + i]
    BY Zenon, <1>0, Dropped
  <2>2. n \in Nat /\ k <= n /\ k \in Nat /\ (n > 0 => s # << >>)
    OBVIOUS
  <2>3. (t # << >> => Len(t) > 0) /\ (t = << >> => Len(t) = 0)
    <3>1. t \in Seq(Unit)
      BY Zenon, <2>1
    <3>2. \A q \in Seq(Unit) : (q # << >> => Len(q) > 0) /\ (q = << >> => Len(q) = 0)
      OBVIOUS
    <3>3. QED
      BY Zenon, <3>1, <3>2
  <2>4. QED
    BY Zenon, <2>1, <2>2, <2>3
<1>2. Chained(t)
  BY Zenon, <1>0, ChainDrop
<1> HIDE DEF n
<1>4. t # << >> => /\ k < n /\ t[1] = s[k + 1] /\ t[Len(t)] = s[n] /\ s # << >>
  <2> SUFFICES ASSUME t # << >> PROVE /\ k < n /\ t[1] = s[k + 1] /\ t[Len(t)] = s[n] /\ s # << >>
    OBVIOUS
  <2>1. k < n /\ 1 \in 1 .. n - k /\ n - k \in 1 .. n - k /\ k + (n - k) = n /\ n > 0
    BY <1>1
  <2>2. t[1] = s[k + 1] /\ t[n - k] = s[k + (n - k)]
    BY Zenon, <1>1, <2>1
  <2>3. t[Len(t)] = s[n]
    BY Zenon, <1>1, <2>1, <2>2
  <2>4. QED
    BY Zenon, <1>1, <2>1, <2>2, <2>3
<1>5. Closed(t)
  BY Zenon, <1>4 DEF Closed, n
<1>6. t = << >> => k = n
  BY <1>1
<1>7. QED
  BY Zenon, <1>1, <1>2, <1>3, <1>4, <1>5, <1>6 DEF n, t

(* What Wait takes: the bytes follow each other, and the rest of the run   *)
(* follows them.  d is 1 if the flag makes a byte of a quote.              *)
LEMMA Taking ==
    ASSUME NEW s \in Seq(Unit), Chained(s), NEW n \in 1 .. Len(s), NEW flag \in BOOLEAN,
           \A i \in 1 .. n - 1 : ~(s[i][2] = "quote" /\ ~(i = 1 /\ flag))
    PROVE  LET d == IF flag /\ s[1][2] = "quote" THEN 1 ELSE 0
               bytes == IF s[n][2] = "quote" /\ ~(n = 1 /\ flag) THEN n - 1 ELSE n IN
           /\ bytes \in Nat /\ d <= bytes
           /\ \A i \in 1 .. bytes : /\ i > 1 => s[i][1] = s[1][1] + i - 1 - d
                                    /\ i > 1 /\ d = 0 => s[i][2] = "raw"
           /\ n < Len(s) => /\ s[n + 1][1] = s[1][1] + bytes - d
                            /\ s[n + 1][2] = "low" <=> s[n][2] = "quote"
           /\ s[n][2] # "quote" => bytes = n /\ s[n][1] = s[1][1] + bytes - d - 1
<1> DEFINE N(i) == s[i][1]
           K(i) == s[i][2]
           m == Len(s)
           d == IF flag /\ s[1][2] = "quote" THEN 1 ELSE 0
           bytes == IF s[n][2] = "quote" /\ ~(n = 1 /\ flag) THEN n - 1 ELSE n
           Good(i) == i > 1 => /\ N(i) = N(1) + i - 1 - d
                               /\ d = 0 => K(i) # "low"
           S == { i \in Nat : i \in 1 .. n => Good(i) }
<1>1. /\ m \in Nat /\ n \in Nat /\ n >= 1 /\ n <= m
      /\ \A i \in 1 .. m : N(i) \in Nat /\ K(i) \in {"raw", "quote", "low"}
  <2>1. m \in Nat /\ n \in Nat /\ n >= 1 /\ n <= m /\ \A i \in 1 .. m : s[i] \in Unit
    BY Queue
  <2>2. \A i \in 1 .. m : N(i) \in 1 .. MaxPut /\ K(i) \in {"raw", "quote", "low"}
    BY Zenon, <2>1, UnitParts
  <2> HIDE DEF N, K
  <2>3. \A i \in 1 .. m : N(i) \in Nat
    BY <2>2, Constants
  <2>4. QED
    BY Zenon, <2>1, <2>2, <2>3
<1>2. \A i \in 1 .. m - 1 : IF K(i) = "quote" THEN N(i + 1) = N(i) /\ K(i + 1) = "low"
                                              ELSE N(i + 1) = N(i) + 1 /\ K(i + 1) # "low"
  BY Zenon DEF Chained, NextUnit
<1>3. /\ \A i \in 1 .. n - 1 : ~(K(i) = "quote" /\ ~(i = 1 /\ flag))
      /\ d = IF flag /\ K(1) = "quote" THEN 1 ELSE 0
      /\ bytes = IF K(n) = "quote" /\ ~(n = 1 /\ flag) THEN n - 1 ELSE n
  BY Zenon
<1> HIDE DEF m, N, K, d, bytes
<1>4. d \in 0 .. 1 /\ bytes \in Nat /\ d <= bytes /\ bytes <= n /\ n - 1 <= bytes
  BY <1>1, <1>3
<1>5. 0 \in S
  OBVIOUS
<1>6. ASSUME NEW i \in Nat, i \in S PROVE i + 1 \in S
  <2>1. CASE i = 0
    BY <2>1
  <2>2. CASE i # 0
    <3> SUFFICES ASSUME i + 1 \in 1 .. n PROVE Good(i + 1)
      BY <1>6
    <3>1. i \in 1 .. m - 1 /\ i \in 1 .. n - 1 /\ i \in 1 .. n /\ 1 \in 1 .. m /\ i \in 1 .. m
      BY <1>1, <2>2
    <3>2. Good(i)
      BY <1>6, <3>1
    <3>3. IF K(i) = "quote" THEN N(i + 1) = N(i) /\ K(i + 1) = "low"
                            ELSE N(i + 1) = N(i) + 1 /\ K(i + 1) # "low"
      BY Zenon, <1>2, <3>1
    <3>4. N(i) \in Nat /\ N(1) \in Nat
      BY Zenon, <1>1, <3>1
    <3>5. ~(K(i) = "quote" /\ ~(i = 1 /\ flag))
      BY Zenon, <1>3, <3>1
    <3>6. CASE i = 1
      <4>1. CASE K(1) = "quote"
        BY <1>3, <3>3, <3>4, <3>5, <3>6, <4>1
      <4>2. CASE K(1) # "quote"
        BY <1>3, <3>3, <3>4, <3>5, <3>6, <4>2
      <4>3. QED
        BY Zenon, <4>1, <4>2
    <3>7. CASE i # 1
      <4>1. K(i) # "quote" /\ i > 1
        BY <2>2, <3>5, <3>7
      <4>2. /\ N(i) = N(1) + i - 1 - d /\ N(i + 1) = N(i) + 1 /\ K(i + 1) # "low"
        BY Zenon, <3>2, <3>3, <4>1
      <4>3. N(i + 1) = N(1) + (i + 1) - 1 - d
        BY <1>4, <3>4, <4>2
      <4>4. QED
        BY Zenon, <4>2, <4>3
    <3>8. QED
      BY Zenon, <3>6, <3>7
  <2>3. QED
    BY Zenon, <2>1, <2>2
<1> HIDE DEF S
<1>7. \A i \in 1 .. n : Good(i)
  <2>1. Nat \subseteq S
    BY <1>5, <1>6, SetInduction
  <2>2. \A i \in 1 .. n : i \in Nat
    OBVIOUS
  <2>3. QED
    BY Zenon, <2>1, <2>2 DEF S
<1>8. ASSUME NEW i \in 1 .. bytes
      PROVE  /\ i > 1 => N(i) = N(1) + i - 1 - d
             /\ i > 1 /\ d = 0 => K(i) = "raw"
  <2>1. i \in 1 .. n /\ i \in 1 .. m /\ i \in Nat
    BY <1>1, <1>4
  <2>2. Good(i) /\ K(i) \in {"raw", "quote", "low"}
    BY Zenon, <1>1, <1>7, <2>1
  <2>3. i > 1 => K(i) # "quote"
    <3>1. CASE i \in 1 .. n - 1
      <4>1. i > 1 => i # 1
        BY <2>1
      <4>2. QED
        BY Zenon, <1>3, <3>1, <4>1
    <3>2. CASE i = n
      BY <1>1, <1>3, <3>2
    <3>3. QED
      BY <1>1, <2>1, <3>1, <3>2
  <2>4. QED
    BY <2>2, <2>3
<1>9. N(1) \in Nat /\ N(n) \in Nat /\ Good(n)
  <2>1. 1 \in 1 .. m /\ n \in 1 .. m /\ n \in 1 .. n
    BY <1>1
  <2>2. QED
    BY Zenon, <1>1, <1>7, <2>1
<1>10. n = 1 => N(n) = N(1) /\ K(n) = K(1)
  BY Zenon
<1>11. K(n) # "quote" => bytes = n /\ N(n) = N(1) + bytes - d - 1
  BY <1>1, <1>3, <1>4, <1>9, <1>10
<1>12. n < m => /\ N(n + 1) = N(1) + bytes - d
                /\ K(n + 1) = "low" <=> K(n) = "quote"
  <2> SUFFICES ASSUME n < m PROVE /\ N(n + 1) = N(1) + bytes - d
                                  /\ K(n + 1) = "low" <=> K(n) = "quote"
    OBVIOUS
  <2>1. n \in 1 .. m - 1
    BY <1>1
  <2>2. IF K(n) = "quote" THEN N(n + 1) = N(n) /\ K(n + 1) = "low"
                          ELSE N(n + 1) = N(n) + 1 /\ K(n + 1) # "low"
    BY Zenon, <1>2, <2>1
  <2>3. CASE K(n) # "quote"
    BY <1>4, <1>9, <1>11, <2>2, <2>3
  <2>4. CASE K(n) = "quote" /\ n = 1
    BY <1>3, <1>9, <1>10, <2>2, <2>4
  <2>5. CASE K(n) = "quote" /\ n > 1
    BY <1>3, <1>4, <1>9, <2>2, <2>5
  <2>6. QED
    BY <1>1, <2>3, <2>4, <2>5
<1>13. QED
  BY Zenon, <1>4, <1>8, <1>11, <1>12 DEF N, K, m, d, bytes
-----------------------------------------------------------------------------
(* StreamOK is inductive.                                                  *)

(* The types of what is ahead.                                             *)
LEMMA AheadTypes ==
    ASSUME LinkTypes
    PROVE  /\ Ahead \in Seq(Unit) /\ RingBuf \in Seq(Unit) /\ toMacro \in Seq(Told)
           /\ Flight(toMacro) \in Seq(Unit)
           /\ put - dcount \in Nat /\ read \in Nat /\ QuoteFlag \in BOOLEAN
           /\ put \in Nat /\ dcount \in Nat /\ put <= MaxPut /\ dcount <= put
<1>1. RingBuf \in Seq(Unit) /\ toMacro \in Seq(Told) /\ read \in Nat /\ QuoteFlag \in BOOLEAN
  BY Zenon DEF LinkTypes, RingTypes, WireTypes, HistoryTypes
<1>2. Flight(toMacro) \in Seq(Unit)
  BY Zenon, <1>1, FlightLemma
<1>3. Ahead \in Seq(Unit)
  <2>1. RingBuf \o Flight(toMacro) \in Seq(Unit)
    BY Zenon, <1>1, <1>2, Joined
  <2>2. QED
    BY Zenon, <2>1 DEF Ahead
<1>4. /\ put - dcount \in Nat /\ put \in Nat /\ dcount \in Nat /\ put <= MaxPut /\ dcount <= put
  BY Constants DEF LinkTypes, TermTypes
<1>5. QED
  BY Zenon, <1>1, <1>2, <1>3, <1>4

(* The numbers of a sequence of units that is not empty.                   *)
LEMMA Ends ==
    ASSUME NEW s \in Seq(Unit), s # << >>
    PROVE  /\ Len(s) \in Nat /\ Len(s) > 0 /\ 1 \in 1 .. Len(s) /\ Len(s) \in 1 .. Len(s)
           /\ s[1][1] \in Nat /\ s[Len(s)][1] \in Nat
<1>1. Len(s) \in Nat /\ Len(s) > 0 /\ 1 \in 1 .. Len(s) /\ Len(s) \in 1 .. Len(s)
  OBVIOUS
<1>2. s[1] \in Unit /\ s[Len(s)] \in Unit
  BY <1>1
<1>3. s[1][1] \in 1 .. MaxPut /\ s[Len(s)][1] \in 1 .. MaxPut
  BY Zenon, <1>2, UnitParts
<1>4. \A i \in 1 .. MaxPut : i \in Nat
  BY Constants
<1>5. QED
  BY Zenon, <1>1, <1>3, <1>4

(* A message more keeps the bodies whole.                                  *)
LEMMA BodiesPosted ==
    ASSUME NEW q \in Seq(Told), \A i \in 1 .. Len(q) : Closed(q[i].data),
           NEW m \in Told, Closed(m.data), NEW r, r = Append(q, m)
    PROVE  \A i \in 1 .. Len(r) : Closed(r[i].data)
<1>1. /\ Len(q) \in Nat /\ Len(r) = Len(q) + 1 /\ r[Len(q) + 1] = m
      /\ \A i \in 1 .. Len(q) : r[i] = q[i]
  BY Queue
<1>2. \A i \in 1 .. Len(q) + 1 : i \in 1 .. Len(q) \/ i = Len(q) + 1
  BY <1>1
<1>3. QED
  BY Zenon, <1>1, <1>2

(* So does a message less.                                                 *)
LEMMA BodiesHandled ==
    ASSUME NEW q \in Seq(Told), \A i \in 1 .. Len(q) : Closed(q[i].data), q # << >>
    PROVE  /\ Closed(Head(q).data)
           /\ \A i \in 1 .. Len(Tail(q)) : Closed(Tail(q)[i].data)
<1>1. /\ Len(q) \in Nat /\ Len(q) > 0 /\ Len(Tail(q)) = Len(q) - 1 /\ Head(q) = q[1]
      /\ \A i \in 1 .. Len(q) - 1 : Tail(q)[i] = q[i + 1]
  BY Queue
<1>2. 1 \in 1 .. Len(q) /\ \A i \in 1 .. Len(q) - 1 : i + 1 \in 1 .. Len(q)
  BY <1>1
<1>3. QED
  BY Zenon, <1>1, <1>2

(* Nothing moves.                                                          *)
LEMMA StreamStays ==
    ASSUME LinkTypes, StreamOK, Ahead' = Ahead,
           \A i \in 1 .. Len(toMacro') : Closed(toMacro'[i].data),
           UNCHANGED << RingBuf, QuoteFlag, read >>,
           put' - dcount' \in Nat, put - dcount <= put' - dcount',
           linked' => linked /\ put' - dcount' = put - dcount
    PROVE  StreamOK'
<1> DEFINE e == put - dcount
           f == put' - dcount'
           l == Ahead[Len(Ahead)][1]
<1>1. e \in Nat /\ read \in Nat /\ Ahead \in Seq(Unit)
  BY Zenon, AheadTypes
<1>2. Ahead # << >> => l \in Nat
  BY Zenon, <1>1, Ends
<1>3. f \in Nat /\ e <= f /\ (linked' => linked /\ f = e)
  OBVIOUS
<1>4. /\ Ahead = << >> => read <= e
      /\ Ahead # << >> => l <= e /\ (linked => l = e)
  BY Zenon DEF StreamOK
<1> HIDE DEF e, f, l
<1>5. /\ Ahead = << >> => read <= f
      /\ Ahead # << >> => l <= f
  <2> DEFINE b == Ahead = << >>
  <2>1. (b => read <= e) /\ (~b => l <= e /\ l \in Nat)
    BY Zenon, <1>2, <1>4
  <2> HIDE DEF b
  <2>2. (b => read <= f) /\ (~b => l <= f)
    BY <1>1, <1>3, <2>1
  <2>3. QED
    BY Zenon, <2>2 DEF b
<1>6. Ahead # << >> => (linked' => l = f)
  BY Zenon, <1>3, <1>4
<1>7. /\ Ahead' = << >> => read' <= put' - dcount'
      /\ Ahead' # << >> =>
          /\ Ahead'[Len(Ahead')][1] <= put' - dcount'
          /\ linked' => Ahead'[Len(Ahead')][1] = put' - dcount'
          /\ read' < Ahead'[1][1]
          /\ QuoteFlag' /\ Ahead'[1][2] # "low" => read' + 1 < Ahead'[1][1]
  BY Zenon, <1>5, <1>6 DEF StreamOK, f, l
<1>8. Chained(Ahead') /\ Closed(Ahead') /\ Closed(RingBuf') /\ (QuoteFlag' => RingBuf' # << >>)
  BY Zenon DEF StreamOK
<1>9. QED
  BY Zenon, <1>7, <1>8 DEF StreamOK

(* A message without data is posted.                                       *)
LEMMA StreamBare ==
    ASSUME LinkTypes, StreamOK, NEW m \in Told, m.data = << >>,
           toMacro' = Append(toMacro, m), UNCHANGED RingBuf
    PROVE  /\ Ahead' = Ahead
           /\ \A i \in 1 .. Len(toMacro') : Closed(toMacro'[i].data)
<1>1. /\ Ahead \in Seq(Unit) /\ RingBuf \in Seq(Unit) /\ toMacro \in Seq(Told)
      /\ Flight(toMacro) \in Seq(Unit)
  BY Zenon, AheadTypes
<1>2. Flight(toMacro') = Flight(toMacro) \o << >>
  BY Zenon, <1>1, FlightLemma
<1>3. Flight(toMacro') = Flight(toMacro)
  <2>1. \A q \in Seq(Unit) : q \o << >> = q
    OBVIOUS
  <2>2. QED
    BY Zenon, <1>1, <1>2, <2>1
<1>4. Closed(m.data)
  BY Zenon DEF Closed
<1>5. QED
  BY Zenon, <1>1, <1>3, <1>4, BodiesPosted DEF StreamOK, Ahead

(* The host sends.                                                         *)
LEMMA StreamDDEPut1 ==
    StreamInv /\ DDEPut1 => StreamOK' /\ Ahead' = Ahead /\ put' - dcount' = put - dcount
<1> SUFFICES ASSUME StreamInv, DDEPut1 PROVE StreamOK' /\ Ahead' = Ahead /\ put' - dcount' = put - dcount
  OBVIOUS
<1>1. LinkTypes /\ StreamOK
  BY Zenon DEF StreamInv
<1>2. PICK n \in 1 .. PutMax :
        /\ put + n <= MaxPut
        /\ put' = put + n
        /\ dcount' = IF dcount + n > DdeBuffSize THEN DdeBuffSize ELSE dcount + n
  BY Zenon DEF DDEPut1
<1>3. dcount < DdeBuffSize - DdeRoom
      /\ UNCHANGED << linked, toMacro, ringVars, runVars, linkHistory >>
  BY Zenon DEF DDEPut1
<1>4. put' - dcount' = put - dcount /\ put - dcount \in Nat
  <2>1. put \in Nat /\ dcount \in Nat /\ dcount <= put
    BY Zenon, <1>1, AheadTypes
  <2>2. dcount + n <= DdeBuffSize
    BY <1>3, <2>1, Constants
  <2>3. QED
    BY <1>2, <2>1, <2>2, Constants
<1>5. Ahead' = Ahead /\ UNCHANGED << RingBuf, QuoteFlag, read, toMacro >>
  BY Zenon, <1>3 DEF Ahead, ringVars, linkHistory
<1>6. put' - dcount' \in Nat /\ put - dcount <= put' - dcount'
  BY <1>4
<1>7. QED
  BY Zenon, <1>1, <1>3, <1>4, <1>5, <1>6, StreamStays DEF StreamOK

(* What a step adds to what is ahead: the next bytes of the host.          *)
Follows ==
    \E w \in Seq(Unit), n \in Nat :
        /\ Ahead' = Ahead \o w /\ put' - dcount' = put - dcount + n
        /\ n = 0 => w = << >>
        /\ n > 0 => w # << >> /\ w[1][1] = put - dcount + 1 /\ w[1][2] # "low"

(* Tera Term sends; the data follows what is ahead.                        *)
LEMMA StreamDDEAdv == StreamInv /\ DDEAdv => StreamOK' /\ Follows
<1> SUFFICES ASSUME StreamInv, DDEAdv PROVE StreamOK' /\ Follows
  OBVIOUS
<1> DEFINE room == IF SyncFreeSpace < CreditMargin THEN 0 ELSE SyncFreeSpace - CreditMargin
           n == Taken(room)
           w == Wired(n)
           m == Tell("data", 0, w)
           e == put - dcount
           s == Ahead
           t == Ahead \o w
<1>1. LinkTypes /\ StreamOK /\ TermTypes
  BY Zenon DEF StreamInv, LinkTypes
<1>2. /\ linked /\ toMacro' = Append(toMacro, m) /\ dcount' = dcount - n
      /\ UNCHANGED << put, SyncMode, job, linked, toTerm, ringVars, runVars, linkHistory >>
  BY Zenon DEF DDEAdv
<1>3. room \in Nat
  BY <1>1, Constants DEF TermTypes
<1> HIDE DEF room
<1>4. n \in 0 .. dcount /\ Carries(w, e, n)
  BY Zenon, <1>1, <1>3, TakenLemma
<1>5. /\ w \in Seq(Unit) /\ Chained(w) /\ Closed(w)
      /\ n = 0 => w = << >>
      /\ n > 0 => /\ Len(w) > 0 /\ w[1][1] = e + 1 /\ w[1][2] # "low"
                  /\ w[Len(w)][1] = e + n
  BY Zenon, <1>4 DEF Carries
<1>6. m \in Told /\ m.data = w
  <2>1. "data" \in Kinds /\ 0 \in Int
    BY DEF Kinds
  <2> HIDE DEF w
  <2>2. QED
    BY <1>5, <2>1, TellIsTold
<1>7. /\ s \in Seq(Unit) /\ RingBuf \in Seq(Unit) /\ toMacro \in Seq(Told)
      /\ Flight(toMacro) \in Seq(Unit)
      /\ e \in Nat /\ read \in Nat /\ put \in Nat /\ dcount \in Nat /\ dcount <= put
  BY Zenon, <1>1, AheadTypes
<1> HIDE DEF n, w, m
<1>8. Ahead' = t
  <2>1. Flight(toMacro') = Flight(toMacro) \o w
    BY Zenon, <1>2, <1>6, <1>7, FlightLemma
  <2>2. RingBuf \o (Flight(toMacro) \o w) = (RingBuf \o Flight(toMacro)) \o w
    <3>1. \A a, b, c \in Seq(Unit) : a \o (b \o c) = (a \o b) \o c
      OBVIOUS
    <3>2. QED
      BY Zenon, <1>5, <1>7, <3>1
  <2>3. RingBuf' = RingBuf
    BY Zenon, <1>2 DEF ringVars
  <2>4. QED
    BY Zenon, <2>1, <2>2, <2>3 DEF Ahead
<1>9. \A i \in 1 .. Len(toMacro') : Closed(toMacro'[i].data)
  BY Zenon, <1>1, <1>2, <1>5, <1>6, <1>7, BodiesPosted DEF StreamOK
<1>10. put' - dcount' = e + n
  BY <1>2, <1>4, <1>7
<1>11. n = 0 => w = << >> /\ t = s /\ e + n = e
  <2>1. \A q \in Seq(Unit) : q \o << >> = q
    OBVIOUS
  <2>2. n = 0 => w = << >> /\ e + n = e
    BY <1>5, <1>7
  <2>3. QED
    BY Zenon, <1>7, <2>1, <2>2
<1>12. ASSUME n = 0 PROVE StreamOK'
  <2>1. /\ Ahead' = Ahead /\ put' - dcount' = put - dcount /\ put' - dcount' \in Nat
        /\ UNCHANGED << RingBuf, QuoteFlag, read >>
    BY Zenon, <1>2, <1>7, <1>8, <1>10, <1>11, <1>12 DEF ringVars, linkHistory
  <2>2. put - dcount <= put' - dcount'
    BY <1>7, <2>1
  <2>3. QED
    BY Zenon, <1>1, <1>2, <1>9, <2>1, <2>2, StreamStays
<1>13. ASSUME n > 0 PROVE StreamOK'
  <2>1. /\ Chained(s) /\ Closed(s) /\ Closed(RingBuf) /\ (QuoteFlag => RingBuf # << >>)
        /\ s = << >> => read <= e
        /\ s # << >> => /\ s[Len(s)][1] = e /\ read < s[1][1]
                        /\ QuoteFlag /\ s[1][2] # "low" => read + 1 < s[1][1]
    BY Zenon, <1>1, <1>2 DEF StreamOK
  <2>2. w # << >> /\ Len(w) \in Nat
    BY <1>5, <1>13
  <2>3. s # << >> => NextUnit(s[Len(s)], w[1])
    BY Zenon, <1>5, <1>13, <2>1 DEF NextUnit, Closed
  <2>4. Chained(t)
    BY Zenon, <1>5, <1>7, <2>1, <2>3, ChainJoin
  <2>5. /\ t \in Seq(Unit) /\ Len(t) = Len(s) + Len(w) /\ Len(s) \in Nat
        /\ \A i \in 1 .. Len(s) : t[i] = s[i]
        /\ \A i \in 1 .. Len(w) : t[Len(s) + i] = w[i]
    BY <1>5, <1>7, Joined
  <2> HIDE DEF t
  <2>6. /\ t # << >> /\ t[Len(t)] = w[Len(w)]
    BY <1>5, <1>13, <2>5, <2>2
  <2>7. s # << >> => t[1] = s[1]
    BY <1>7, <2>5
  <2>8. s = << >> => t[1] = w[1]
    BY <1>5, <1>13, <2>2, <2>5
  <2>9. Closed(t)
    BY Zenon, <1>5, <2>2, <2>6 DEF Closed
  <2>10. t[Len(t)][1] = e + n /\ w[1][1] = e + 1
    BY Zenon, <1>5, <1>13, <2>6
  <2>11. s = << >> => ~QuoteFlag /\ read < t[1][1]
    <3> SUFFICES ASSUME s = << >> PROVE ~QuoteFlag /\ read < t[1][1]
      OBVIOUS
    <3>1. RingBuf = << >>
      <4>1. RingBuf \o Flight(toMacro) = << >>
        BY Zenon DEF Ahead
      <4>2. \A p, q \in Seq(Unit) : p \o q = << >> => p = << >>
        OBVIOUS
      <4>3. QED
        BY Zenon, <1>7, <4>1, <4>2
    <3>2. t[1][1] = e + 1
      BY Zenon, <2>8, <2>10
    <3>3. read <= e
      BY Zenon, <2>1
    <3>4. read < t[1][1]
      BY <1>7, <3>2, <3>3
    <3>5. QED
      BY Zenon, <2>1, <3>1, <3>4
  <2>12. e + n <= e + n
    BY <1>4, <1>7
  <2>13. /\ read < t[1][1]
         /\ QuoteFlag /\ t[1][2] # "low" => read + 1 < t[1][1]
    BY Zenon, <2>1, <2>7, <2>11
  <2>14. UNCHANGED << RingBuf, QuoteFlag, read, linked >>
    BY Zenon, <1>2 DEF ringVars, linkHistory
  <2>15. QED
    BY Zenon, <1>8, <1>9, <1>10, <2>1, <2>4, <2>6, <2>9, <2>10, <2>12, <2>13, <2>14 DEF StreamOK
<1>14. StreamOK'
  BY <1>4, <1>12, <1>13
<1>15. Follows
  <2>1. n \in Nat /\ (n > 0 => w # << >>)
    BY <1>4, <1>5, <1>7
  <2>2. QED
    BY Zenon, <1>5, <1>8, <1>10, <2>1 DEF Follows, e, t
<1>16. QED
  BY Zenon, <1>14, <1>15

(* A step that does not touch the bytes.                                   *)
LEMMA StreamKept ==
    ASSUME LinkTypes, StreamOK,
           UNCHANGED << toMacro, RingBuf, QuoteFlag, read, put, dcount, linked >>
    PROVE  StreamOK'
BY Zenon DEF StreamOK, Ahead

(* A step that posts a message without data.                               *)
LEMMA StreamPosts ==
    ASSUME LinkTypes, StreamOK, NEW m \in Told, m.data = << >>, toMacro' = Append(toMacro, m),
           UNCHANGED << RingBuf, QuoteFlag, read, put, dcount, linked >>
    PROVE  StreamOK'
<1>1. /\ Ahead' = Ahead
      /\ \A i \in 1 .. Len(toMacro') : Closed(toMacro'[i].data)
  BY Zenon, StreamBare
<1>2. put' - dcount' = put - dcount
  BY Zenon
<1>3. put' - dcount' \in Nat /\ put - dcount <= put' - dcount'
  <2>1. put - dcount \in Nat
    BY Zenon, AheadTypes
  <2>2. QED
    BY <1>2, <2>1
<1>4. QED
  BY Zenon, <1>1, <1>2, <1>3, StreamStays

(* Tera Term answers, reports an end, or ends.                             *)
LEMMA StreamTerm == StreamInv /\ (AcceptExecute \/ EndDdeCmnd \/ EndDDE) => StreamOK' /\ Ahead' = Ahead
<1> SUFFICES ASSUME StreamInv, AcceptExecute \/ EndDdeCmnd \/ EndDDE PROVE StreamOK' /\ Ahead' = Ahead
  OBVIOUS
<1>1. LinkTypes /\ StreamOK /\ toMacro \in Seq(Told) /\ toTerm \in Seq(Asked) /\ job \in 0 .. MaxCmnds
  BY Zenon DEF StreamInv, LinkTypes, WireTypes, TermTypes
<1>2. "ack" \in Dataless /\ "nack" \in Dataless /\ "cmndend" \in Dataless
      /\ "disconnect" \in Dataless /\ 0 \in Int /\ job \in Int
  BY <1>1, Constants, DatalessKinds
<1>3. CASE AcceptExecute
  <2> DEFINE c == Head(toTerm)
  <2>1. /\ toTerm # << >>
        /\ CmdSetSync(c) \/ CmdStart(c)
        /\ UNCHANGED << RingBuf, QuoteFlag, read, put, dcount, linked >>
    BY Zenon, <1>3 DEF AcceptExecute, ringVars
  <2>2. c \in Asked
    BY Zenon, <1>1, <2>1, Queue
  <2>3. c.id \in Int
    BY Zenon, <2>2, AskedFields
  <2>4. \E k \in Dataless : toMacro' = Append(toMacro, Tell(k, c.id, << >>))
    <3>1. CASE CmdSetSync(c)
      BY Zenon, <1>2, <3>1 DEF CmdSetSync
    <3>2. CASE CmdStart(c)
      <4>1. \E ok \in {FALSE, job = 0} :
               toMacro' = Append(toMacro, Tell(IF ok THEN "ack" ELSE "nack", c.id, << >>))
        BY Zenon, <3>2 DEF CmdStart
      <4>2. \A ok : (IF ok THEN "ack" ELSE "nack") \in Dataless
        BY Zenon, <1>2
      <4>3. QED
        BY Zenon, <4>1, <4>2
    <3>3. QED
      BY Zenon, <2>1, <3>1, <3>2
  <2> HIDE DEF c
  <2>5. PICK k \in Dataless : toMacro' = Append(toMacro, Tell(k, c.id, << >>))
    BY Zenon, <2>4
  <2>6. Tell(k, c.id, << >>) \in Told /\ Tell(k, c.id, << >>).data = << >>
    BY <2>3, Bare
  <2>7. QED
    BY Zenon, <1>1, <2>1, <2>5, <2>6, StreamPosts, StreamBare
<1>4. CASE EndDdeCmnd
  <2>1. /\ toMacro' = Append(toMacro, Tell("cmndend", job, << >>))
        /\ UNCHANGED << RingBuf, QuoteFlag, read, put, dcount, linked >>
    BY Zenon, <1>4 DEF EndDdeCmnd, ringVars, linkHistory
  <2>2. /\ Tell("cmndend", job, << >>) \in Told
        /\ Tell("cmndend", job, << >>).data = << >>
    BY Zenon, <1>2, DatalessKinds, Bare
  <2>3. QED
    BY Zenon, <1>1, <2>1, <2>2, StreamPosts, StreamBare
<1>5. CASE EndDDE
  <2> DEFINE a == Tell("disconnect", 0, << >>)
             b == Tell("cmndend", 0, << >>)
  <2>1. /\ toMacro' = toMacro \o << a, b >> /\ linked' = FALSE /\ dcount' = 0
        /\ UNCHANGED << RingBuf, QuoteFlag, read, put >>
    BY Zenon, <1>5 DEF EndDDE, ringVars, linkHistory
  <2>2. a \in Told /\ b \in Told /\ a.data = << >> /\ b.data = << >>
    BY Zenon, <1>2, DatalessKinds, Bare
  <2> HIDE DEF a, b
  <2>3. toMacro' = Append(Append(toMacro, a), b) /\ Append(toMacro, a) \in Seq(Told)
    BY <1>1, <2>1, <2>2, LastWords
  <2>4. Closed(a.data) /\ Closed(b.data)
    BY Zenon, <2>2 DEF Closed
  <2>5. \A i \in 1 .. Len(Append(toMacro, a)) : Closed(Append(toMacro, a)[i].data)
    BY Zenon, <1>1, <2>2, <2>4, BodiesPosted DEF StreamOK
  <2>6. \A i \in 1 .. Len(toMacro') : Closed(toMacro'[i].data)
    BY Zenon, <2>2, <2>3, <2>4, <2>5, BodiesPosted
  <2>7. Flight(toMacro') = Flight(toMacro)
    <3>1. /\ Flight(toMacro) \in Seq(Unit)
          /\ Flight(Append(toMacro, a)) = Flight(toMacro) \o << >>
          /\ Flight(Append(Append(toMacro, a), b)) = Flight(Append(toMacro, a)) \o << >>
      BY Zenon, <1>1, <2>2, <2>3, FlightLemma
    <3>2. \A q \in Seq(Unit) : q \o << >> = q
      OBVIOUS
    <3>3. QED
      BY Zenon, <2>3, <3>1, <3>2
  <2>8. Ahead' = Ahead
    BY Zenon, <2>1, <2>7 DEF Ahead
  <2>9. put' - dcount' \in Nat /\ put - dcount <= put' - dcount'
    <3>1. put \in Nat /\ dcount \in Nat
      BY Zenon, <1>1, AheadTypes
    <3>2. QED
      BY <2>1, <3>1
  <2>10. QED
    BY Zenon, <1>1, <2>1, <2>6, <2>8, <2>9, StreamStays
<1>6. QED
  BY Zenon, <1>3, <1>4, <1>5

(* Units ahead are lost: the oldest ones of a full ring buffer.            *)
LEMMA StreamLoses ==
    ASSUME LinkTypes, StreamOK, NEW k \in 0 .. Len(Ahead),
           Ahead' = SubSeq(Ahead, k + 1, Len(Ahead)),
           QuoteFlag' => RingBuf' # << >>, Closed(RingBuf'),
           \A i \in 1 .. Len(toMacro') : Closed(toMacro'[i].data),
           UNCHANGED << QuoteFlag, read, put, dcount, linked >>
    PROVE  StreamOK'
<1> DEFINE s == Ahead
           t == SubSeq(s, k + 1, Len(s))
           e == put - dcount
<1>0. Ahead' = t
  BY Zenon
<1>1. s \in Seq(Unit) /\ read \in Nat /\ e \in Nat
  BY Zenon, AheadTypes
<1>2. /\ Chained(s) /\ Closed(s)
      /\ s = << >> => read <= e
      /\ s # << >> => /\ s[Len(s)][1] <= e
                      /\ linked => s[Len(s)][1] = e
                      /\ read < s[1][1]
                      /\ QuoteFlag /\ s[1][2] # "low" => read + 1 < s[1][1]
  BY Zenon DEF StreamOK
<1>3. /\ t \in Seq(Unit) /\ Chained(t) /\ Closed(t)
      /\ k = 0 => t = s
      /\ t = << >> => k = Len(s)
      /\ t # << >> => /\ k < Len(s) /\ t[1] = s[k + 1]
                      /\ t[Len(t)] = s[Len(s)] /\ s # << >>
  <2>1. s \in Seq(Unit) /\ Chained(s) /\ Closed(s) /\ k \in 0 .. Len(s)
    BY Zenon, <1>1, <1>2
  <2>2. t = SubSeq(s, k + 1, Len(s))
    BY Zenon
  <2> HIDE DEF s, t
  <2>3. QED
    BY <2>1, <2>2, RunDrops
<1> HIDE DEF s, t, e
<1>4. t = << >> => read <= e
  <2>1. CASE s = << >>
    BY Zenon, <1>2, <2>1
  <2>2. CASE s # << >>
    <3>1. Len(s) \in 1 .. Len(s) /\ s[1][1] \in Nat /\ s[Len(s)][1] \in Nat
      BY Zenon, <1>1, <2>2, Ends
    <3>2. s[1][1] <= s[Len(s)][1]
      BY Zenon, <1>1, <1>2, <3>1, Rising
    <3>3. read < s[1][1] /\ s[Len(s)][1] <= e
      BY Zenon, <1>2, <2>2
    <3>4. QED
      BY <1>1, <3>1, <3>2, <3>3
  <2>3. QED
    BY Zenon, <2>1, <2>2
<1>5. ASSUME t # << >>
      PROVE  /\ read < t[1][1]
             /\ QuoteFlag /\ t[1][2] # "low" => read + 1 < t[1][1]
  <2>1. CASE k = 0
    BY Zenon, <1>2, <1>3, <1>5, <2>1
  <2>2. CASE k # 0
    <3>1. s # << >> /\ k < Len(s) /\ t[1] = s[k + 1]
      BY Zenon, <1>3, <1>5
    <3>2. Len(s) \in Nat /\ s[1][1] \in Nat
      BY Zenon, <1>1, <3>1, Ends
    <3>3. k + 1 \in 1 .. Len(s) /\ k + 1 > 1
      BY <2>2, <3>1, <3>2 DEF s
    <3>4. /\ s[1][1] <= s[k + 1][1]
          /\ s[1][2] # "quote" => s[1][1] < s[k + 1][1]
      BY Zenon, <1>1, <1>2, <3>3, Rising
    <3>5. s[k + 1][1] \in Nat
      <4>1. s[k + 1] \in Unit
        BY <1>1, <3>3
      <4>2. s[k + 1][1] \in 1 .. MaxPut
        BY Zenon, <4>1, UnitParts
      <4>3. QED
        BY <4>2, Constants
    <3>6. /\ read < s[1][1]
          /\ QuoteFlag /\ s[1][2] # "low" => read + 1 < s[1][1]
      BY Zenon, <1>2, <3>1
    <3>7. read < s[k + 1][1]
      <4>1. PICK x, y : x = s[1][1] /\ y = s[k + 1][1]
        OBVIOUS
      <4>2. x \in Nat /\ y \in Nat /\ read < x /\ x <= y
        BY Zenon, <3>2, <3>4, <3>5, <3>6, <4>1
      <4>3. read < y
        BY <1>1, <4>2
      <4>4. QED
        BY Zenon, <4>1, <4>3
    <3>8. QuoteFlag => read + 1 < s[k + 1][1]
      <4>1. CASE s[1][2] = "low"
        <5>1. s[1][1] < s[k + 1][1]
          <6>1. "low" # "quote"
            OBVIOUS
          <6>2. QED
            BY Zenon, <3>4, <4>1, <6>1
        <5>2. read < s[1][1] /\ read \in Nat
          BY Zenon, <1>1, <3>6
        <5>3. read + 1 < s[k + 1][1]
          BY <3>2, <3>5, <5>1, <5>2
        <5>4. QED
          BY Zenon, <5>3
      <4>2. CASE s[1][2] # "low"
        BY <1>1, <3>2, <3>4, <3>5, <3>6, <4>2
      <4>3. QED
        BY Zenon, <4>1, <4>2
    <3>9. QED
      BY Zenon, <3>1, <3>7, <3>8
  <2>3. QED
    BY Zenon, <2>1, <2>2
<1>6. t # << >> => t[Len(t)][1] <= e /\ (linked => t[Len(t)][1] = e)
  BY Zenon, <1>2, <1>3
<1>7. QED
  BY Zenon, <1>0, <1>3, <1>4, <1>5, <1>6 DEF StreamOK, e

(* The macro handles a message.                                            *)
LEMMA StreamDispatch ==
    StreamInv /\ Dispatch =>
        /\ StreamOK'
        /\ \/ Ahead' = Ahead /\ QuoteFlag' = QuoteFlag
           \/ ~(Len(RingBuf) + Len(Head(toMacro).data) <= RingBufSize)
<1> SUFFICES ASSUME StreamInv, Dispatch 
             PROVE  /\ StreamOK'
                    /\ \/ Ahead' = Ahead /\ QuoteFlag' = QuoteFlag
                       \/ ~(Len(RingBuf) + Len(Head(toMacro).data) <= RingBufSize)
  OBVIOUS
<1> DEFINE m == Head(toMacro)
           d == m.data
           r == Tail(toMacro)
           fl == Flight(r)
<1>1. /\ toMacro # << >>
      /\ AcceptData(m) \/ Acknowledge(m) \/ OnDdeCmndEnd(m) \/ Disconnected(m) \/ OnDdeEnd(m)
      /\ UNCHANGED << termVars, toTerm, idlePc, issued, syncs, timeouts, read, readInOrder, clean >>
  BY Zenon DEF Dispatch
<1>2. LinkTypes /\ StreamOK /\ toMacro \in Seq(Told) /\ RingBuf \in Seq(Unit) /\ RingTypes
  BY Zenon DEF StreamInv, LinkTypes, WireTypes, RingTypes
<1>3. UNCHANGED << put, dcount, linked, read >>
  BY Zenon, <1>1 DEF termVars
<1>4. /\ m \in Told /\ r \in Seq(Told)
  BY <1>1, <1>2, Queue
<1>5. d \in Seq(Unit) /\ (m.kind # "data" => d = << >>)
  BY Zenon, <1>4, ToldFields
<1>6. Flight(toMacro) = d \o fl /\ fl \in Seq(Unit)
  BY Zenon, <1>1, <1>2, <1>4, FlightLemma
<1>7. Closed(d) /\ \A i \in 1 .. Len(r) : Closed(r[i].data)
  BY Zenon, <1>1, <1>2, BodiesHandled DEF StreamOK
<1> HIDE DEF m, d, r, fl
<1>8. CASE AcceptData(m)
  <2> DEFINE all == RingBuf \o d
             over == Len(all) - RingBufSize
  <2>1. /\ RingBuf' = IF over > 0 THEN SubSeq(all, over + 1, Len(all)) ELSE all
        /\ toMacro' = r /\ UNCHANGED QuoteFlag
    BY Zenon, <1>8 DEF AcceptData, d, r
  <2>2. Ahead = all \o fl
    <3>1. \A a, b, c \in Seq(Unit) : a \o (b \o c) = (a \o b) \o c
      OBVIOUS
    <3>2. RingBuf \o (d \o fl) = (RingBuf \o d) \o fl
      BY Zenon, <1>2, <1>5, <1>6, <3>1
    <3>3. QED
      BY Zenon, <1>6, <3>2 DEF Ahead
  <2>3. Len(all) = Len(RingBuf) + Len(d) /\ Len(RingBuf) \in Nat /\ Len(d) \in Nat
    BY <1>2, <1>5, Joined
  <2>4. Closed(all)
    <3>1. Closed(RingBuf)
      BY Zenon, <1>2 DEF StreamOK
    <3>2. CASE d = << >>
      <4>1. \A q \in Seq(Unit) : q \o << >> = q
        OBVIOUS
      <4>2. QED
        BY Zenon, <1>2, <3>1, <3>2, <4>1
    <3>3. CASE d # << >>
      <4>1. all[Len(all)] = d[Len(d)]
        BY <1>2, <1>5, <3>3
      <4>2. QED
        BY Zenon, <1>7, <3>3, <4>1 DEF Closed
    <3>4. QED
      BY Zenon, <3>2, <3>3
  <2> DEFINE ring == IF over > 0 THEN SubSeq(all, over + 1, Len(all)) ELSE all
  <2>12. RingBuf' = ring
    BY Zenon, <2>1
  <2>5. /\ ring \in Seq(Unit) /\ all \in Seq(Unit)
        /\ \E k \in 0 .. Len(all) :
              /\ ring = SubSeq(all, k + 1, Len(all)) /\ Len(ring) = Len(all) - k
              /\ k = 0 => ring = all
              /\ Len(RingBuf) + Len(d) <= RingBufSize => k = 0
              /\ k > 0 => Len(ring) = RingBufSize
    <3>1. all = RingBuf \o d /\ over = Len(all) - RingBufSize
      BY Zenon
    <3>2. ring = IF over > 0 THEN SubSeq(all, over + 1, Len(all)) ELSE all
      BY Zenon
    <3>3. RingTypes /\ d \in Seq(Unit)
      BY Zenon, <1>2, <1>5
    <3> HIDE DEF over, all
    <3>4. RingTypes /\ d \in Seq(Unit) /\ all = RingBuf \o d /\ over = Len(all) - RingBufSize
          => /\ ring \in Seq(Unit) /\ Len(ring) <= RingBufSize /\ all \in Seq(Unit)
             /\ \E n \in 0 .. Len(all) :
                  /\ ring = SubSeq(all, n + 1, Len(all)) /\ Len(ring) = Len(all) - n
                  /\ n = 0 => ring = all
                  /\ Len(RingBuf) + Len(d) <= RingBufSize => n = 0
                  /\ n > 0 => Len(ring) = RingBufSize
      BY Zenon, RingAccepts
    <3>5. QED
      BY Zenon, <3>1, <3>3, <3>4
  <2>6. PICK k \in 0 .. Len(all) :
              /\ ring = SubSeq(all, k + 1, Len(all)) /\ Len(ring) = Len(all) - k
              /\ k = 0 => ring = all
              /\ Len(RingBuf) + Len(d) <= RingBufSize => k = 0
              /\ k > 0 => Len(ring) = RingBufSize
    BY Zenon, <2>5
  <2> HIDE DEF over, all, ring
  <2>13. /\ \A i \in 1 .. Len(all) - k : ring[i] = all[k + i]
    <3>1. \A i \in 1 .. Len(all) - k : SubSeq(all, k + 1, Len(all))[i] = all[k + i]
      BY <2>5, Dropped
    <3>2. QED
      BY Zenon, <2>6, <3>1
  <2>7. k \in Nat /\ k <= Len(all) /\ Len(all) \in Nat
    BY <2>5
  <2>8. Ahead' = SubSeq(Ahead, k + 1, Len(Ahead)) /\ k \in 0 .. Len(Ahead)
    <3>1. SubSeq(all \o fl, k + 1, Len(all \o fl)) = SubSeq(all, k + 1, Len(all)) \o fl
      BY <1>6, <2>5, <2>7, CutConcat
    <3>2. k \in 0 .. Len(all \o fl)
      BY <1>6, <2>5, <2>7, Joined
    <3>3. Ahead' = ring \o fl
      BY Zenon, <2>1, <2>12 DEF Ahead, fl
    <3>4. QED
      BY Zenon, <2>2, <2>6, <3>1, <3>2, <3>3
  <2>9. QuoteFlag' => RingBuf' # << >>
    <3> SUFFICES ASSUME QuoteFlag PROVE ring # << >>
      BY Zenon, <2>1, <2>12
    <3>1. Len(RingBuf) > 0
      <4>1. RingBuf # << >>
        BY Zenon, <1>2 DEF StreamOK
      <4>2. QED
        BY <1>2, <4>1
    <3>2. Len(ring) > 0
      BY <2>3, <2>6, <2>7, <3>1, Constants
    <3>3. QED
      BY <3>2
  <2>10. Closed(RingBuf')
    <3>1. Len(ring) = 0 \/ (Len(ring) > 0 /\ k < Len(all) /\ ring[Len(ring)] = all[Len(all)])
      <4>1. Len(ring) \in Nat /\ (Len(ring) > 0 => Len(ring) \in 1 .. Len(all) - k /\ k < Len(all)
                                                 /\ k + Len(ring) = Len(all))
        BY <2>5, <2>6, <2>7
      <4>2. Len(ring) > 0 => ring[Len(ring)] = all[k + Len(ring)]
        BY Zenon, <2>13, <4>1
      <4>3. Len(ring) = 0 \/ Len(ring) > 0
        BY <4>1
      <4>4. QED
        BY Zenon, <4>1, <4>2, <4>3
    <3>2. Len(ring) = 0 => ring = << >>
      BY <2>5
    <3>3. Len(ring) > 0 /\ k < Len(all) => all # << >>
      BY <2>5, <2>7
    <3>4. QED
      BY Zenon, <2>12, <2>4, <3>1, <3>2, <3>3 DEF Closed
  <2>11. StreamOK'
    BY Zenon, <1>2, <1>3, <1>7, <2>1, <2>8, <2>9, <2>10, StreamLoses
  <2>14. k = 0 => Ahead' = Ahead
    BY Zenon, <2>1, <2>2, <2>6, <2>12 DEF Ahead, fl
  <2>15. QED
    BY Zenon, <2>1, <2>6, <2>11, <2>14 DEF d, m
<1>9. CASE ~AcceptData(m)
  <2>1. m.kind # "data" /\ UNCHANGED << RingBuf, QuoteFlag >>
    <3>1. /\ "ack" # "data" /\ "nack" # "data" /\ "cmndend" # "data"
          /\ "disconnect" # "data" /\ "ddeend" # "data"
      OBVIOUS
    <3>2. m.kind \in {"ack", "nack"} => m.kind = "ack" \/ m.kind = "nack"
      OBVIOUS
    <3>3. CASE Acknowledge(m)
      BY Zenon, <3>1, <3>2, <3>3 DEF Acknowledge, ringVars
    <3>4. CASE OnDdeCmndEnd(m)
      BY Zenon, <3>1, <3>4 DEF OnDdeCmndEnd, ringVars
    <3>5. CASE Disconnected(m)
      BY Zenon, <3>1, <3>5 DEF Disconnected, ringVars
    <3>6. CASE OnDdeEnd(m)
      BY Zenon, <3>1, <3>6 DEF OnDdeEnd
    <3>7. QED
      BY Zenon, <1>1, <1>9, <3>3, <3>4, <3>5, <3>6
  <2>2. Flight(toMacro) = fl
    <3>1. \A q \in Seq(Unit) : << >> \o q = q
      OBVIOUS
    <3>2. QED
      BY Zenon, <1>5, <1>6, <2>1, <3>1
  <2>3. toMacro' = r \/ toMacro' = Append(r, Tell("ddeend", 0, << >>))
    BY Zenon, <1>1, <1>9 DEF Acknowledge, OnDdeCmndEnd, Disconnected, OnDdeEnd, r
  <2>4. /\ Flight(toMacro') = fl
        /\ \A i \in 1 .. Len(toMacro') : Closed(toMacro'[i].data)
    <3>1. CASE toMacro' = r
      BY Zenon, <1>7, <3>1 DEF fl
    <3>2. CASE toMacro' = Append(r, Tell("ddeend", 0, << >>))
      <4> DEFINE b == Tell("ddeend", 0, << >>)
      <4>1. "ddeend" \in Dataless /\ 0 \in Int
        BY DEF Dataless
      <4>2. b \in Told /\ b.data = << >>
        BY Zenon, <4>1, Bare
      <4> HIDE DEF b
      <4>3. toMacro' = Append(r, b)
        BY Zenon, <3>2 DEF b
      <4>4. Flight(toMacro') = fl \o << >>
        BY Zenon, <1>4, <4>2, <4>3, FlightLemma DEF fl
      <4>5. \A q \in Seq(Unit) : q \o << >> = q
        OBVIOUS
      <4>6. Closed(b.data)
        BY Zenon, <4>2 DEF Closed
      <4>7. \A i \in 1 .. Len(toMacro') : Closed(toMacro'[i].data)
        BY Zenon, <1>4, <1>7, <4>2, <4>3, <4>6, BodiesPosted
      <4>8. QED
        BY Zenon, <1>6, <4>4, <4>5, <4>7
    <3>3. QED
      BY Zenon, <2>3, <3>1, <3>2
  <2>5. Ahead' = Ahead
    BY Zenon, <2>1, <2>2, <2>4 DEF Ahead
  <2>6. put' - dcount' = put - dcount /\ put - dcount \in Nat
    BY Zenon, <1>2, <1>3, AheadTypes
  <2>7. put' - dcount' \in Nat /\ put - dcount <= put' - dcount'
    BY <2>6
  <2>8. QED
    BY Zenon, <1>2, <1>3, <2>1, <2>4, <2>5, <2>6, <2>7, StreamStays
<1>10. QED
  BY Zenon, <1>8, <1>9

(* The macro reads bytes, up to what it waits for or up to a quote.        *)
LEMMA StreamWait == StreamInv /\ Wait => StreamOK'
<1> SUFFICES ASSUME StreamInv, Wait PROVE StreamOK'
  OBVIOUS
<1>1. LinkTypes /\ StreamOK
  BY Zenon DEF StreamInv
<1>2. UNCHANGED << toMacro, put, dcount, linked >>
  BY Zenon DEF Wait, termVars
<1>3. PICK n \in 0 .. Len(RingBuf), found \in BOOLEAN :
        /\ WaitTakes(n, found)
        /\ LET bytes == IF n > 0 /\ IsQuote(n) THEN n - 1 ELSE n
           IN  /\ read' = read + bytes
               /\ QuoteFlag' = IF n = 0 THEN QuoteFlag ELSE bytes < n
        /\ RingBuf' = SubSeq(RingBuf, n + 1, Len(RingBuf))
  BY Zenon DEF Wait
<1> DEFINE bytes == IF n > 0 /\ IsQuote(n) THEN n - 1 ELSE n
<1>4. read' = read + bytes /\ QuoteFlag' = IF n = 0 THEN QuoteFlag ELSE bytes < n
  BY Zenon, <1>3
<1>5. \A i \in 1 .. n - 1 : ~IsQuote(i)
  BY Zenon, <1>3 DEF WaitTakes
<1> DEFINE s == Ahead
           fl == Flight(toMacro)
           e == put - dcount
<1>6. /\ s \in Seq(Unit) /\ RingBuf \in Seq(Unit) /\ toMacro \in Seq(Told)
      /\ fl \in Seq(Unit) /\ e \in Nat /\ read \in Nat /\ QuoteFlag \in BOOLEAN
  BY Zenon, <1>1, AheadTypes
<1>7. s = RingBuf \o fl /\ UNCHANGED << fl, e >>
  BY Zenon, <1>2 DEF Ahead
<1>8. /\ Chained(s) /\ Closed(s) /\ Closed(RingBuf) /\ (QuoteFlag => RingBuf # << >>)
      /\ \A i \in 1 .. Len(toMacro) : Closed(toMacro[i].data)
      /\ s # << >> => /\ s[Len(s)][1] <= e
                      /\ linked => s[Len(s)][1] = e
                      /\ read < s[1][1]
                      /\ QuoteFlag /\ s[1][2] # "low" => read + 1 < s[1][1]
  BY Zenon, <1>1 DEF StreamOK
<1>9. /\ n \in Nat /\ Len(RingBuf) \in Nat /\ n <= Len(RingBuf) /\ Len(s) \in Nat
      /\ Len(RingBuf) <= Len(s) /\ \A i \in 1 .. Len(RingBuf) : s[i] = RingBuf[i]
  <2> HIDE DEF fl, s
  <2>1. QED
    BY <1>6, <1>7, Joined
<1>10. Ahead' = SubSeq(s, n + 1, Len(s))
  <2> HIDE DEF fl, s
  <2>1. SubSeq(RingBuf \o fl, n + 1, Len(RingBuf \o fl)) = SubSeq(RingBuf, n + 1, Len(RingBuf)) \o fl
    BY <1>6, <1>9, CutConcat
  <2>2. Ahead' = RingBuf' \o fl
    BY Zenon, <1>2 DEF Ahead, fl
  <2>3. QED
    BY Zenon, <1>3, <1>7, <2>1, <2>2
<1>11. CASE n = 0
  <2>1. read' = read /\ QuoteFlag' = QuoteFlag /\ RingBuf' = RingBuf
    <3>1. bytes = 0
      BY <1>11
    <3> HIDE DEF bytes
    <3>2. SubSeq(RingBuf, 1, Len(RingBuf)) = RingBuf /\ n + 1 = 1 /\ read + 0 = read
      BY <1>6, <1>11
    <3>3. QED
      BY Zenon, <1>3, <1>4, <1>11, <3>1, <3>2
  <2>2. QED
    BY Zenon, <1>1, <1>2, <2>1, StreamKept
<1>12. CASE n > 0
  <2> DEFINE d == IF QuoteFlag /\ s[1][2] = "quote" THEN 1 ELSE 0
             t == SubSeq(s, n + 1, Len(s))
  <2>1. /\ n \in 1 .. Len(s) /\ n \in 0 .. Len(s) /\ 1 \in 1 .. Len(RingBuf) /\ n \in 1 .. Len(RingBuf)
        /\ \A i \in 1 .. n - 1 : i \in 1 .. Len(RingBuf)
    BY <1>9, <1>12
  <2>2. s # << >>
    BY <1>6, <1>9, <1>12
  <2>3. /\ \A i \in 1 .. n - 1 : ~(s[i][2] = "quote" /\ ~(i = 1 /\ QuoteFlag))
        /\ bytes = IF s[n][2] = "quote" /\ ~(n = 1 /\ QuoteFlag) THEN n - 1 ELSE n
        /\ QuoteFlag' = (bytes < n)
    <3>1. \A i \in 1 .. Len(RingBuf) :
             IsQuote(i) <=> s[i][2] = "quote" /\ ~(i = 1 /\ QuoteFlag)
      BY Zenon, <1>9 DEF IsQuote
    <3>2. n # 0
      BY <1>12
    <3>3. QED
      BY Zenon, <1>4, <1>5, <1>12, <2>1, <3>1, <3>2
  <2>4. d = IF QuoteFlag /\ s[1][2] = "quote" THEN 1 ELSE 0
    BY Zenon
  <2> HIDE DEF s, d, bytes, fl, e
  <2>5. /\ bytes \in Nat /\ d <= bytes
        /\ n < Len(s) => /\ s[n + 1][1] = s[1][1] + bytes - d
                         /\ s[n + 1][2] = "low" <=> s[n][2] = "quote"
        /\ s[n][2] # "quote" => bytes = n /\ s[n][1] = s[1][1] + bytes - d - 1
    <3> DEFINE f == IF QuoteFlag /\ s[1][2] = "quote" THEN 1 ELSE 0
               b == IF s[n][2] = "quote" /\ ~(n = 1 /\ QuoteFlag) THEN n - 1 ELSE n
    <3>1. /\ b \in Nat /\ f <= b
          /\ n < Len(s) => /\ s[n + 1][1] = s[1][1] + b - f
                           /\ s[n + 1][2] = "low" <=> s[n][2] = "quote"
          /\ s[n][2] # "quote" => b = n /\ s[n][1] = s[1][1] + b - f - 1
      <4> DEFINE A == s \in Seq(Unit) /\ Chained(s) /\ n \in 1 .. Len(s) /\ QuoteFlag \in BOOLEAN
      <4>1. A /\ (\A i \in 1 .. n - 1 : ~(s[i][2] = "quote" /\ ~(i = 1 /\ QuoteFlag)))
            => /\ b \in Nat /\ f <= b
               /\ \A i \in 1 .. b : /\ i > 1 => s[i][1] = s[1][1] + i - 1 - f
                                    /\ i > 1 /\ f = 0 => s[i][2] = "raw"
               /\ n < Len(s) => /\ s[n + 1][1] = s[1][1] + b - f
                                /\ s[n + 1][2] = "low" <=> s[n][2] = "quote"
               /\ s[n][2] # "quote" => b = n /\ s[n][1] = s[1][1] + b - f - 1
        BY Taking
      <4> HIDE DEF b, f
      <4>2. QED
        BY Zenon, <1>6, <1>8, <2>1, <2>3, <4>1
    <3>2. d = f /\ bytes = b
      BY Zenon, <2>3, <2>4
    <3> HIDE DEF f, b
    <3>3. QED
      BY Zenon, <3>1, <3>2
  <2>6. /\ t \in Seq(Unit) /\ Chained(t) /\ Closed(t)
        /\ t = << >> => n = Len(s)
        /\ t # << >> => n < Len(s) /\ t[1] = s[n + 1] /\ t[Len(t)] = s[Len(s)]
    BY Zenon, <1>6, <1>8, <2>1, RunDrops
  <2> DEFINE ring == SubSeq(RingBuf, n + 1, Len(RingBuf))
  <2>7. /\ Closed(ring)
        /\ ring = << >> => n = Len(RingBuf)
    <3>1. n \in 0 .. Len(RingBuf)
      OBVIOUS
    <3>2. QED
      BY Zenon, <1>6, <1>8, <3>1, CutCloses
  <2> HIDE DEF t, ring
  <2>8. QuoteFlag' => s[n][2] = "quote"
    <3> SUFFICES ASSUME bytes < n, s[n][2] # "quote" PROVE FALSE
      BY Zenon, <2>3
    <3>1. QED
      BY <1>9, <2>5
  <2>9. QuoteFlag' => RingBuf' # << >>
    <3>1. ring = << >> => RingBuf[Len(RingBuf)] = s[n] /\ RingBuf # << >>
      <4>1. RingBuf # << >>
        BY <1>9, <2>1
      <4>2. QED
        BY Zenon, <1>9, <2>1, <2>7, <4>1
    <3>2. QED
      BY Zenon, <1>3, <1>8, <2>8, <3>1 DEF Closed, ring
  <2>10. s[1][1] \in Nat /\ s[Len(s)][1] \in Nat /\ s[n][1] \in Nat
    <3>1. s[n] \in Unit
      BY <1>6, <2>1
    <3>2. s[n][1] \in 1 .. MaxPut
      BY Zenon, <3>1, UnitParts
    <3>3. s[n][1] \in Nat
      BY <3>2, Constants
    <3>4. QED
      BY Zenon, <1>6, <2>2, <3>3, Ends
  <2>11. d \in {0, 1} /\ read + d < s[1][1]
    <3>1. CASE QuoteFlag /\ s[1][2] = "quote"
      <4>1. d = 1 /\ read + 1 < s[1][1]
        <5>1. "quote" # "low"
          OBVIOUS
        <5>2. QED
          BY Zenon, <1>8, <2>2, <2>4, <3>1, <5>1
      <4>2. QED
        BY <4>1
    <3>2. CASE ~(QuoteFlag /\ s[1][2] = "quote")
      <4>1. d = 0 /\ read < s[1][1]
        BY Zenon, <1>8, <2>2, <2>4, <3>2
      <4>2. QED
        BY <1>6, <2>10, <4>1
    <3>3. QED
      BY Zenon, <3>1, <3>2
  <2>12. t = << >> => read' <= e
    <3> SUFFICES ASSUME t = << >> PROVE read' <= e
      OBVIOUS
    <3>1. n = Len(s) /\ s[n][2] # "quote" /\ s[n][1] <= e
      BY Zenon, <1>8, <2>2, <2>6 DEF Closed
    <3>2. s[n][1] = s[1][1] + bytes - d - 1
      BY Zenon, <2>5, <3>1
    <3>3. QED
      BY <1>4, <1>6, <2>5, <2>10, <2>11, <3>1, <3>2
  <2>13. t # << >> => read' < t[1][1] /\ (QuoteFlag' => t[1][2] = "low")
    <3> SUFFICES ASSUME t # << >> PROVE read' < t[1][1] /\ (QuoteFlag' => t[1][2] = "low")
      OBVIOUS
    <3>1. /\ t[1][1] = s[1][1] + bytes - d
          /\ t[1][2] = "low" <=> s[n][2] = "quote"
      BY Zenon, <2>5, <2>6
    <3>2. read' < t[1][1]
      BY <1>4, <1>6, <2>5, <2>10, <2>11, <3>1
    <3>3. QED
      BY Zenon, <2>8, <3>1, <3>2
  <2>14. t # << >> => t[Len(t)][1] <= e /\ (linked => t[Len(t)][1] = e)
    BY Zenon, <1>8, <2>2, <2>6
  <2>15. Ahead' = t /\ RingBuf' = ring /\ put' - dcount' = e /\ UNCHANGED << toMacro, linked >>
    BY Zenon, <1>2, <1>3, <1>10 DEF t, ring, e
  <2>16. QED
    BY Zenon, <1>8, <2>6, <2>7, <2>9, <2>12, <2>13, <2>14, <2>15 DEF StreamOK
<1>13. QED
  BY <1>9, <1>11, <1>12

(* Nothing is on its way yet.                                              *)
LEMMA StreamInit == LinkInit => StreamInv
<1> SUFFICES ASSUME LinkInit PROVE StreamInv
  OBVIOUS
<1>1. RingBuf = << >> /\ toMacro = << >> /\ QuoteFlag = FALSE /\ read = 0 /\ put = 0 /\ dcount = 0
  BY Zenon DEF LinkInit
<1>2. /\ \A i \in 1 .. Len(<< >>) : FALSE
      /\ \A i \in 1 .. Len(<< >>) - 1 : FALSE
      /\ << >> \in Seq(Told) /\ 0 <= 0 - 0
  OBVIOUS
<1>3. Ahead = << >>
  <2>1. Bodies(<< >>) = << >>
    <3>1. [i \in 1 .. Len(<< >>) |-> << >>[i].data] = << >>
      OBVIOUS
    <3>2. QED
      BY Zenon, <3>1 DEF Bodies
  <2>2. Flight(<< >>) = << >>
    BY Zenon, <2>1, FlattenAppend DEF Flight
  <2>3. << >> \o << >> = << >>
    OBVIOUS
  <2>4. QED
    BY Zenon, <1>1, <2>2, <2>3 DEF Ahead
<1>4. StreamOK
  BY Zenon, <1>1, <1>2, <1>3 DEF StreamOK, Chained, Closed
<1>5. QED
  BY Zenon, <1>4, TypesInit DEF StreamInv

(* StreamInv is inductive.                                                 *)
LEMMA StreamStep == StreamInv /\ [LinkNext]_linkVars => StreamInv'
<1> SUFFICES ASSUME StreamInv, [LinkNext]_linkVars PROVE StreamInv'
  OBVIOUS
<1>1. LinkTypes'
  BY Zenon, TypesStep DEF StreamInv
<1>2. ASSUME GiveUp \/ OnTimer \/ OnIdle \/ Exec \/ Rests \/ UNCHANGED linkVars PROVE StreamOK'
  <2>1. UNCHANGED << toMacro, RingBuf, QuoteFlag, read, put, dcount, linked >>
    <3>1. CASE GiveUp \/ OnTimer
      BY Zenon, <3>1 DEF GiveUp, OnTimer, termVars, ringVars, linkHistory
    <3>2. CASE OnIdle
      BY Zenon, <3>2 DEF OnIdle, termVars, linkHistory
    <3>3. CASE Exec
      BY Zenon, <3>3 DEF Exec, termVars, linkHistory
    <3>4. CASE Rests
      BY Zenon, <3>4 DEF Rests, termVars, ringVars, linkHistory
    <3>5. CASE UNCHANGED linkVars
      BY Zenon, <3>5 DEF linkVars, termVars, ringVars, linkHistory
    <3>6. QED
      BY Zenon, <1>2, <3>1, <3>2, <3>3, <3>4, <3>5
  <2>2. QED
    BY Zenon, <2>1, StreamKept DEF StreamInv
<1>3. StreamOK'
  <2>1. \/ DDEPut1 \/ DDEAdv \/ AcceptExecute \/ EndDdeCmnd \/ EndDDE \/ Dispatch \/ Wait
        \/ GiveUp \/ OnTimer \/ OnIdle \/ Exec \/ Rests \/ UNCHANGED linkVars
    BY Zenon DEF LinkNext, MacroIdle
  <2>2. QED
    BY Zenon, <1>2, <2>1, StreamDDEPut1, StreamDDEAdv, StreamTerm, StreamDispatch, StreamWait
<1>4. QED
  BY Zenon, <1>1, <1>3 DEF StreamInv

(* Nothing is read that was not put.                                       *)
LEMMA ReadBehindPut == StreamInv => read \in 0 .. put
<1> SUFFICES ASSUME StreamInv PROVE read \in 0 .. put
  OBVIOUS
<1> DEFINE s == Ahead
           e == put - dcount
<1>1. LinkTypes /\ StreamOK
  BY Zenon DEF StreamInv
<1>2. s \in Seq(Unit) /\ e \in Nat /\ read \in Nat /\ put \in Nat /\ dcount \in Nat
  BY Zenon, <1>1, AheadTypes
<1>3. /\ Chained(s)
      /\ s = << >> => read <= e
      /\ s # << >> => s[Len(s)][1] <= e /\ read < s[1][1]
  BY Zenon, <1>1 DEF StreamOK
<1>4. read <= e
  <2> HIDE DEF s, e
  <2>1. CASE s = << >>
    BY Zenon, <1>3, <2>1
  <2>2. CASE s # << >>
    <3>1. Len(s) \in 1 .. Len(s) /\ s[1][1] \in Nat /\ s[Len(s)][1] \in Nat
      BY Zenon, <1>2, <2>2, Ends
    <3>2. s[1][1] <= s[Len(s)][1] /\ read < s[1][1] /\ s[Len(s)][1] <= e
      BY Zenon, <1>2, <1>3, <2>2, <3>1, Rising
    <3>3. QED
      BY <1>2, <3>1, <3>2
  <2>3. QED
    BY Zenon, <2>1, <2>2
<1>5. QED
  BY <1>2, <1>4

(* Whatever the bounds, every variable keeps its type, and the macro reads *)
(* no more bytes than the host sent (ttdde.c, ttmdde.c).                   *)
THEOREM LinkTypeCorrect == LinkSpec => []LinkTypeOK
<1>1. StreamInv => LinkTypeOK
  <2> SUFFICES ASSUME StreamInv PROVE LinkTypeOK
    OBVIOUS
  <2>1. TermTypes /\ WireTypes /\ RingTypes /\ RunTypes /\ HistoryTypes /\ read \in 0 .. put
    BY Zenon, ReadBehindPut DEF StreamInv, LinkTypes
  <2>2. {SyncMode, SyncRecv, linked, QuoteFlag, MacroSync, SyncSent, Linked} \subseteq BOOLEAN
    <3>1. /\ SyncMode \in BOOLEAN /\ SyncRecv \in BOOLEAN /\ linked \in BOOLEAN
          /\ QuoteFlag \in BOOLEAN /\ MacroSync \in BOOLEAN /\ SyncSent \in BOOLEAN
          /\ Linked \in BOOLEAN
      BY Zenon, <2>1 DEF TermTypes, RingTypes, RunTypes
    <3>2. QED
      BY <3>1
  <2>3. {readInOrder, clean, misfit} \subseteq BOOLEAN
    <3>1. readInOrder \in BOOLEAN /\ clean \in BOOLEAN /\ misfit \in BOOLEAN
      BY Zenon, <2>1 DEF HistoryTypes
    <3>2. QED
      BY <3>1
  <2>4. {job, issued} \subseteq 0 .. MaxCmnds
    BY <2>1 DEF TermTypes, RunTypes
  <2>5. toTerm \in Seq([kind : {"sync", "cmnd"}, id : Int, room : 0 .. RingBufSize])
    <3>1. Asked \subseteq Request
      BY DEF Asked
    <3>2. toTerm \in Seq(Request)
      BY <2>1, <3>1 DEF WireTypes
    <3>3. QED
      BY Zenon, <3>2 DEF Request
  <2>6. toMacro \in Seq([kind : {"data", "ack", "nack", "cmndend", "disconnect", "ddeend"},
                         id : Int, data : Seq(Unit)])
    <3>1. Told \subseteq Reply
      BY DEF Told
    <3>2. toMacro \in Seq(Reply)
      BY <2>1, <3>1 DEF WireTypes
    <3>3. QED
      BY Zenon, <3>2 DEF Reply, Kinds
  <2>7. QED
    BY Zenon, <2>1, <2>2, <2>3, <2>4, <2>5, <2>6 DEF LinkTypeOK, TermTypes, RingTypes, RunTypes
<1>2. LinkSpec => []StreamInv
  <2>1. StreamInv /\ [LinkNext]_linkVars => StreamInv'
    BY Zenon, StreamStep
  <2>2. QED
    BY StreamInit, <2>1, PTL DEF LinkSpec
<1>3. QED
  BY <1>1, <1>2, PTL
-----------------------------------------------------------------------------
(* Sync mode: the requests that wait in a queue.                           *)

(* A request offers room or ends sync mode.                                *)
Ons == { r \in Asked : r.kind = "sync" /\ r.room > 0 }
Offs == { r \in Asked : r.kind = "sync" /\ r.room = 0 }
Datas == { m \in Told : m.kind = "data" }

(* The i-th message of q is an offer that no end of sync mode precedes;    *)
(* there is none such, there is one at most.                               *)
Current(q, i) == q[i] \in Ons /\ \A j \in 1 .. i : q[j] \notin Offs
Stale(q) == \A i \in 1 .. Len(q) : ~Current(q, i)
Fresh(q) == \A i, j \in 1 .. Len(q) : Current(q, i) /\ Current(q, j) => i = j

(* Between two offers, and behind each, waits an end of sync mode.         *)
Alternate(q) == \A i, j \in 1 .. Len(q) :
    i < j /\ q[i] \in Ons /\ q[j] \in Ons => \E k \in i .. j : q[k] \in Offs
Revoked(q) == \A i \in 1 .. Len(q) : q[i] \in Ons => \E k \in i .. Len(q) : q[k] \in Offs

(* One of V waits in q at most.                                            *)
Single(q, V) == \A i, j \in 1 .. Len(q) : q[i] \in V /\ q[j] \in V => i = j

(* An offer is no end of sync mode.                                        *)
LEMMA OnIsNotOff == \A r : ~(r \in Ons /\ r \in Offs)
<1>1. \A r \in Asked : r.room \in 0 .. RingBufSize
  BY Zenon, AskedFields
<1>2. QED
  BY <1>1, Constants DEF Ons, Offs

(* A queue gets a message.                                                 *)
LEMMA QueueMore ==
    ASSUME NEW S, NEW q \in Seq(S), NEW e \in S
    PROVE  LET r == Append(q, e) IN
           /\ \A i \in 1 .. Len(q) : Current(r, i) <=> Current(q, i)
           /\ \A i \in 1 .. Len(r) : i \in 1 .. Len(q) \/ i = Len(q) + 1
           /\ Current(r, Len(q) + 1) => e \in Ons /\ NoneOf(q, Offs)
           /\ \A V : NoneOf(r, V) <=> NoneOf(q, V) /\ e \notin V
           /\ \A V : Single(q, V) /\ (e \notin V \/ NoneOf(q, V)) => Single(r, V)
<1> DEFINE r == Append(q, e)
           n == Len(q)
<1>1. /\ n \in Nat /\ Len(r) = n + 1 /\ r[n + 1] = e
      /\ \A i \in 1 .. n : r[i] = q[i]
  BY Queue
<1> HIDE DEF r
<1>2. /\ \A i \in 1 .. n + 1 : i \in 1 .. n \/ i = n + 1
      /\ n + 1 \in 1 .. n + 1 /\ \A i \in 1 .. n : i \in 1 .. n + 1
      /\ \A i \in 1 .. n : \A j \in 1 .. i : j \in 1 .. n
  BY <1>1
<1> HIDE DEF n
<1>3. \A i \in 1 .. n : Current(r, i) <=> Current(q, i)
  BY Zenon, <1>1, <1>2 DEF Current
<1>4. Current(r, n + 1) => e \in Ons /\ NoneOf(q, Offs)
  BY Zenon, <1>1, <1>2 DEF Current, NoneOf, n
<1>5. \A V : NoneOf(r, V) <=> NoneOf(q, V) /\ e \notin V
  BY Zenon, <1>1, <1>2 DEF NoneOf, n
<1>6. ASSUME NEW V, Single(q, V), e \notin V \/ NoneOf(q, V) PROVE Single(r, V)
  <2> SUFFICES ASSUME NEW i \in 1 .. n + 1, NEW j \in 1 .. n + 1, r[i] \in V, r[j] \in V
               PROVE  i = j
    BY Zenon, <1>1 DEF Single
  <2>1. CASE e \notin V
    <3>1. i \in 1 .. n /\ j \in 1 .. n
      BY Zenon, <1>1, <1>2, <2>1
    <3>2. QED
      BY Zenon, <1>1, <1>6, <3>1 DEF Single, n
  <2>2. CASE NoneOf(q, V)
    BY Zenon, <1>1, <1>2, <2>2 DEF NoneOf, n
  <2>3. QED
    BY Zenon, <1>6, <2>1, <2>2
<1>7. QED
  BY Zenon, <1>1, <1>2, <1>3, <1>4, <1>5, <1>6 DEF r, n

(* So offers become current, or stay without an end behind them.           *)
LEMMA OffersMore ==
    ASSUME NEW S, NEW q \in Seq(S), NEW e \in S
    PROVE  LET r == Append(q, e) IN
           /\ Stale(q) /\ (e \in Ons => ~NoneOf(q, Offs)) => Stale(r)
           /\ Fresh(q) /\ (e \in Ons => Stale(q) \/ ~NoneOf(q, Offs)) => Fresh(r)
           /\ Alternate(q) /\ (e \in Ons => Revoked(q)) => Alternate(r)
           /\ Revoked(q) /\ e \notin Ons => Revoked(r)
           /\ e \in Offs => Revoked(r)
<1> DEFINE r == Append(q, e)
           n == Len(q)
<1>1. /\ n \in Nat /\ Len(r) = n + 1 /\ r[n + 1] = e
      /\ \A i \in 1 .. n : r[i] = q[i]
  BY Queue
<1>2. /\ \A i \in 1 .. n : Current(r, i) <=> Current(q, i)
      /\ Current(r, n + 1) => e \in Ons /\ NoneOf(q, Offs)
  BY Zenon, QueueMore
<1> HIDE DEF r
<1>3. /\ \A i \in 1 .. n + 1 : i \in 1 .. n \/ i = n + 1
      /\ \A i \in 1 .. n : i \in 1 .. n + 1 /\ \A k \in i .. n : k \in 1 .. n /\ k \in i .. n + 1
      /\ \A i, j \in 1 .. n : \A k \in i .. j : k \in 1 .. n
      /\ \A i \in 1 .. n + 1 : n + 1 \in i .. n + 1 /\ ~(n + 1 < i) /\ ~(i < i)
  BY <1>1
<1> HIDE DEF n
<1>4. Stale(q) /\ (e \in Ons => ~NoneOf(q, Offs)) => Stale(r)
  BY Zenon, <1>1, <1>2, <1>3 DEF Stale, n
<1>5. ASSUME Fresh(q), e \in Ons => Stale(q) \/ ~NoneOf(q, Offs) PROVE Fresh(r)
  <2>1. CASE Current(r, n + 1)
    <3>1. Stale(q)
      BY Zenon, <1>2, <1>5, <2>1
    <3>2. \A i \in 1 .. n + 1 : Current(r, i) => i = n + 1
      BY Zenon, <1>2, <1>3, <3>1 DEF Stale, n
    <3>3. QED
      BY Zenon, <1>1, <3>2 DEF Fresh
  <2>2. CASE ~Current(r, n + 1)
    <3>1. \A i \in 1 .. n + 1 : Current(r, i) => i \in 1 .. n /\ Current(q, i)
      BY Zenon, <1>2, <1>3, <2>2
    <3>2. QED
      BY Zenon, <1>1, <1>5, <3>1 DEF Fresh, n
  <2>3. QED
    BY Zenon, <2>1, <2>2
<1>6. ASSUME Alternate(q), e \in Ons => Revoked(q) PROVE Alternate(r)
  <2> SUFFICES ASSUME NEW i \in 1 .. n + 1, NEW j \in 1 .. n + 1, i < j, r[i] \in Ons, r[j] \in Ons
               PROVE  \E k \in i .. j : r[k] \in Offs
    BY Zenon, <1>1 DEF Alternate
  <2>1. i \in 1 .. n /\ r[i] = q[i]
    BY Zenon, <1>1, <1>3
  <2>2. CASE j \in 1 .. n
    <3>1. PICK k \in i .. j : q[k] \in Offs
      BY Zenon, <1>1, <1>6, <2>1, <2>2 DEF Alternate, n
    <3>2. QED
      BY Zenon, <1>1, <1>3, <2>1, <2>2, <3>1
  <2>3. CASE j = n + 1
    <3>1. PICK k \in i .. n : q[k] \in Offs
      BY Zenon, <1>1, <1>6, <2>1, <2>3 DEF Revoked, n
    <3>2. QED
      BY Zenon, <1>1, <1>3, <2>1, <2>3, <3>1
  <2>4. QED
    BY Zenon, <1>3, <2>2, <2>3
<1>7. ASSUME Revoked(q), e \notin Ons PROVE Revoked(r)
  <2> SUFFICES ASSUME NEW i \in 1 .. n + 1, r[i] \in Ons PROVE \E k \in i .. n + 1 : r[k] \in Offs
    BY Zenon, <1>1 DEF Revoked
  <2>1. i \in 1 .. n /\ r[i] = q[i]
    BY Zenon, <1>1, <1>3, <1>7
  <2>2. PICK k \in i .. n : q[k] \in Offs
    BY Zenon, <1>7, <2>1 DEF Revoked, n
  <2>3. QED
    BY Zenon, <1>1, <1>3, <2>1, <2>2
<1>8. e \in Offs => Revoked(r)
  BY Zenon, <1>1, <1>3 DEF Revoked
<1>9. QED
  BY Zenon, <1>4, <1>5, <1>6, <1>7, <1>8 DEF r, n

(* A queue loses its first message.                                        *)
LEMMA QueueLess ==
    ASSUME NEW S, NEW q \in Seq(S), q # << >>
    PROVE  LET r == Tail(q)
               h == Head(q) IN
           /\ \A i \in 1 .. Len(r) : /\ i + 1 \in 1 .. Len(q) /\ r[i] = q[i + 1]
                                     /\ h \notin Offs => (Current(r, i) <=> Current(q, i + 1))
           /\ \A V : NoneOf(q, V) <=> h \notin V /\ NoneOf(r, V)
           /\ \A V : Single(q, V) => Single(r, V) /\ (h \in V => NoneOf(r, V))
           /\ h \in Ons => Current(q, 1) /\ 1 \in 1 .. Len(q)
<1> DEFINE r == Tail(q)
           h == Head(q)
           n == Len(q)
<1>1. /\ n \in Nat /\ n > 0 /\ Len(r) = n - 1 /\ h = q[1]
      /\ \A i \in 1 .. n - 1 : r[i] = q[i + 1]
  BY Queue
<1> HIDE DEF r, h, n
<1>2. /\ 1 \in 1 .. n /\ \A i \in 1 .. n - 1 : i + 1 \in 1 .. n /\ i + 1 # 1
      /\ \A i, j \in 1 .. n - 1 : i + 1 = j + 1 => i = j
      /\ \A i \in 1 .. n : i = 1 \/ (i - 1 \in 1 .. n - 1 /\ (i - 1) + 1 = i)
      /\ \A i \in 1 .. 1 : i = 1
  BY <1>1
<1>3. ASSUME NEW i \in 1 .. n - 1, h \notin Offs PROVE Current(r, i) <=> Current(q, i + 1)
  <2>1. /\ \A j \in 1 .. i + 1 : j = 1 \/ (j - 1 \in 1 .. i /\ (j - 1) + 1 = j)
        /\ \A j \in 1 .. i : j + 1 \in 1 .. i + 1 /\ j \in 1 .. n - 1
    BY <1>1
  <2>2. (\A j \in 1 .. i : r[j] \notin Offs) <=> (\A j \in 1 .. i + 1 : q[j] \notin Offs)
    <3>1. ASSUME \A j \in 1 .. i : r[j] \notin Offs, NEW j \in 1 .. i + 1 PROVE q[j] \notin Offs
      <4>1. CASE j = 1
        BY Zenon, <1>1, <1>3, <4>1
      <4>2. CASE j - 1 \in 1 .. i /\ (j - 1) + 1 = j
        <5>1. r[j - 1] = q[(j - 1) + 1] /\ r[j - 1] \notin Offs
          BY Zenon, <1>1, <2>1, <3>1, <4>2
        <5>2. QED
          BY Zenon, <4>2, <5>1
      <4>3. QED
        BY Zenon, <2>1, <4>1, <4>2
    <3>2. ASSUME \A j \in 1 .. i + 1 : q[j] \notin Offs, NEW j \in 1 .. i PROVE r[j] \notin Offs
      BY Zenon, <1>1, <2>1, <3>2
    <3>3. QED
      BY Zenon, <3>1, <3>2
  <2>3. QED
    BY Zenon, <1>1, <2>2 DEF Current
<1>4. \A V : NoneOf(q, V) <=> h \notin V /\ NoneOf(r, V)
  <2>1. ASSUME NEW V, h \notin V, NoneOf(r, V), NEW i \in 1 .. n PROVE q[i] \notin V
    <3>1. CASE i = 1
      BY Zenon, <1>1, <2>1, <3>1
    <3>2. CASE i - 1 \in 1 .. n - 1 /\ (i - 1) + 1 = i
      <4>1. r[i - 1] = q[(i - 1) + 1] /\ r[i - 1] \notin V
        BY Zenon, <1>1, <2>1, <3>2 DEF NoneOf
      <4>2. QED
        BY Zenon, <3>2, <4>1
    <3>3. QED
      BY Zenon, <1>2, <3>1, <3>2
  <2>2. \A V : h \notin V /\ NoneOf(r, V) => NoneOf(q, V)
    BY Zenon, <2>1 DEF NoneOf, n
  <2>3. \A V : NoneOf(q, V) => h \notin V /\ NoneOf(r, V)
    BY Zenon, <1>1, <1>2 DEF NoneOf, n
  <2>4. QED
    BY Zenon, <2>2, <2>3
<1>5. \A V : Single(q, V) => Single(r, V) /\ (h \in V => NoneOf(r, V))
  BY Zenon, <1>1, <1>2 DEF Single, NoneOf, n
<1>6. h \in Ons => Current(q, 1)
  BY Zenon, <1>1, <1>2, OnIsNotOff DEF Current
<1>7. QED
  BY Zenon, <1>1, <1>2, <1>3, <1>4, <1>5, <1>6 DEF r, h, n

(* What then becomes of the offers.                                        *)
LEMMA OffersLess ==
    ASSUME NEW S, NEW q \in Seq(S), q # << >>
    PROVE  LET r == Tail(q)
               h == Head(q) IN
           /\ Stale(q) /\ h \notin Offs => Stale(r)
           /\ Fresh(q) /\ h \notin Offs => Fresh(r) /\ (h \in Ons => Stale(r))
           /\ Alternate(q) => Alternate(r) /\ (h \in Ons => Stale(r))
           /\ Revoked(q) => Revoked(r) /\ (h \in Ons => ~NoneOf(r, Offs))
<1> DEFINE r == Tail(q)
           h == Head(q)
           n == Len(q)
<1>1. /\ n \in Nat /\ n > 0 /\ Len(r) = n - 1 /\ h = q[1] /\ r \in Seq(S) /\ h \in S
      /\ \A i \in 1 .. n - 1 : r[i] = q[i + 1]
  BY Queue
<1>2. /\ h \notin Offs => \A i \in 1 .. Len(r) : Current(r, i) <=> Current(q, i + 1)
      /\ h \in Ons => Current(q, 1)
  BY Zenon, QueueLess
<1> HIDE DEF r, h
<1>3. /\ 1 \in 1 .. n /\ \A i \in 1 .. n - 1 : i + 1 \in 1 .. n /\ i + 1 # 1 /\ 1 < i + 1
      /\ \A i, j \in 1 .. n - 1 : (i + 1 = j + 1 => i = j) /\ (i < j => i + 1 < j + 1)
  BY <1>1
<1> HIDE DEF n
<1>4. Stale(q) /\ h \notin Offs => Stale(r)
  BY Zenon, <1>1, <1>2, <1>3 DEF Stale, n
<1>5. Fresh(q) /\ h \notin Offs => Fresh(r) /\ (h \in Ons => Stale(r))
  BY Zenon, <1>1, <1>2, <1>3 DEF Fresh, Stale, n
<1>6. ASSUME NEW i \in 1 .. n - 1, NEW j \in i + 1 .. n, NEW k \in i + 1 .. j, q[k] \in Offs
      PROVE  \E l \in i .. j - 1 : r[l] \in Offs
  <2>1. k - 1 \in i .. j - 1 /\ k - 1 \in 1 .. n - 1 /\ (k - 1) + 1 = k
    BY <1>1
  <2>2. r[k - 1] = q[(k - 1) + 1]
    BY Zenon, <1>1, <2>1
  <2>3. QED
    BY Zenon, <1>6, <2>1, <2>2
<1>7. ASSUME Alternate(q) PROVE Alternate(r)
  <2> SUFFICES ASSUME NEW i \in 1 .. n - 1, NEW j \in 1 .. n - 1, i < j, r[i] \in Ons, r[j] \in Ons
               PROVE  \E k \in i .. j : r[k] \in Offs
    BY Zenon, <1>1 DEF Alternate
  <2>1. q[i + 1] \in Ons /\ q[j + 1] \in Ons /\ i + 1 < j + 1 /\ i + 1 \in 1 .. n /\ j + 1 \in 1 .. n
    BY Zenon, <1>1, <1>3
  <2>2. PICK k \in i + 1 .. j + 1 : q[k] \in Offs
    BY Zenon, <1>7, <2>1 DEF Alternate, n
  <2>3. j + 1 \in i + 1 .. n /\ (j + 1) - 1 = j
    BY <1>1
  <2>4. QED
    BY Zenon, <1>6, <2>2, <2>3
<1>8. ASSUME Alternate(q), h \in Ons PROVE Stale(r)
  <2> SUFFICES ASSUME NEW i \in 1 .. n - 1, Current(r, i) PROVE FALSE
    BY Zenon, <1>1 DEF Stale
  <2>1. r[i] \in Ons /\ r[i] = q[i + 1] /\ \A j \in 1 .. i : r[j] \notin Offs
    BY Zenon, <1>1 DEF Current
  <2>2. PICK k \in 1 .. i + 1 : q[k] \in Offs
    BY Zenon, <1>1, <1>3, <1>8, <2>1 DEF Alternate, n
  <2>3. k # 1
    BY Zenon, <1>1, <1>8, <2>2, OnIsNotOff
  <2>4. k - 1 \in 1 .. i /\ k - 1 \in 1 .. n - 1 /\ (k - 1) + 1 = k
    BY <1>1, <2>3
  <2>5. r[k - 1] = q[(k - 1) + 1]
    BY Zenon, <1>1, <2>4
  <2>6. QED
    BY Zenon, <2>1, <2>2, <2>4, <2>5
<1>9. ASSUME Revoked(q) PROVE Revoked(r) /\ (h \in Ons => ~NoneOf(r, Offs))
  <2>1. ASSUME NEW i \in 1 .. n - 1, r[i] \in Ons PROVE \E k \in i .. n - 1 : r[k] \in Offs
    <3>1. PICK k \in i + 1 .. n : q[k] \in Offs
      BY Zenon, <1>1, <1>3, <1>9, <2>1 DEF Revoked, n
    <3>2. n \in i + 1 .. n
      BY <1>1
    <3>3. QED
      BY Zenon, <1>6, <3>1, <3>2
  <2>2. ASSUME h \in Ons PROVE \E k \in 1 .. n - 1 : r[k] \in Offs
    <3>1. PICK k \in 1 .. n : q[k] \in Offs
      BY Zenon, <1>1, <1>3, <1>9, <2>2 DEF Revoked, n
    <3>2. k # 1
      BY Zenon, <1>1, <2>2, <3>1, OnIsNotOff
    <3>3. k - 1 \in 1 .. n - 1 /\ (k - 1) + 1 = k
      BY <1>1, <3>2
    <3>4. r[k - 1] = q[(k - 1) + 1]
      BY Zenon, <1>1, <3>3
    <3>5. QED
      BY Zenon, <3>1, <3>3, <3>4
  <2>3. QED
    BY Zenon, <1>1, <2>1, <2>2 DEF Revoked, NoneOf
<1>10. QED
  BY Zenon, <1>4, <1>5, <1>7, <1>8, <1>9 DEF r, h
-----------------------------------------------------------------------------
(* One message of data waits at most, and a ring buffer with n units has   *)
(* room for it.                                                            *)
Fitting(q, n) ==
    /\ Single(q, Datas)
    /\ \A i \in 1 .. Len(q) : n + Len(q[i].data) <= RingBufSize

(* While the macro asked for no sync mode, an end of it waits behind what  *)
(* Tera Term knows and behind every offer.                                 *)
Agreed ==
    linked /\ ~MacroSync =>
        /\ Revoked(toTerm)
        /\ SyncMode => ~NoneOf(toTerm, Offs)

(* Before the first byte every offer is one of the whole ring buffer.      *)
AtStart ==
    put = 0 /\ linked =>
        /\ readInOrder /\ NoneOf(toMacro, Datas)
        /\ MacroSync => SyncSent
        /\ \A i \in 1 .. Len(toTerm) : toTerm[i] \in Ons => toTerm[i].room = RingBufSize
        /\ SyncMode => Stale(toTerm)
        /\ Alternate(toTerm)

(* In sync mode the data on its way fits.                                  *)
Roomy == clean => Fitting(toMacro, Len(RingBuf))

(* In sync mode the two sides take turns: there is an offer on its way, or *)
(* one that Tera Term has, or data, or none of them, and then the macro    *)
(* knows that it must offer.  The room of an offer is there.               *)
Turns ==
    clean /\ linked =>
        /\ SyncMode
        /\ Fresh(toTerm)
        /\ \A i \in 1 .. Len(toTerm) : Current(toTerm, i) =>
              /\ ~SyncRecv /\ NoneOf(toMacro, Datas)
              /\ Len(RingBuf) + toTerm[i].room <= RingBufSize
        /\ SyncRecv => NoneOf(toMacro, Datas) /\ Len(RingBuf) + SyncFreeSpace <= RingBufSize
        /\ ~SyncSent /\ NoneOf(toTerm, Offs) =>
              NoneOf(toMacro, Datas) /\ ~SyncRecv /\ NoneOf(toTerm, Ons)

Credit == Agreed /\ AtStart /\ Roomy /\ Turns

(* In sync mode the reader is just before what is ahead of it.             *)
Exact ==
    clean =>
        /\ readInOrder
        /\ Ahead # << >> => /\ Ahead[1][1] = read + 1
                            /\ QuoteFlag <=> Ahead[1][2] = "low"
        /\ Ahead = << >> /\ linked => read = put - dcount

(* The inductive invariant of the stream in sync mode.                     *)
SyncInv == FitsInv /\ StreamInv /\ Credit /\ Exact
-----------------------------------------------------------------------------
(* What fits, with a message more.                                         *)
LEMMA FittingMore ==
    ASSUME NEW q \in Seq(Told), NEW m \in Told, NEW n \in Nat, n <= RingBufSize
    PROVE  /\ m \notin Datas /\ Fitting(q, n) => Fitting(Append(q, m), n)
           /\ m \notin Datas /\ NoneOf(q, Datas) => NoneOf(Append(q, m), Datas)
           /\ NoneOf(q, Datas) /\ Fitting(q, n) /\ n + Len(m.data) <= RingBufSize
                 => Fitting(Append(q, m), n)
<1> DEFINE r == Append(q, m)
<1>1. /\ Len(r) = Len(q) + 1 /\ r[Len(q) + 1] = m
      /\ \A i \in 1 .. Len(q) : r[i] = q[i]
  BY Queue
<1>2. /\ \A i \in 1 .. Len(r) : i \in 1 .. Len(q) \/ i = Len(q) + 1
      /\ \A V : NoneOf(r, V) <=> NoneOf(q, V) /\ m \notin V
      /\ \A V : Single(q, V) /\ (m \notin V \/ NoneOf(q, V)) => Single(r, V)
  BY Zenon, QueueMore
<1> HIDE DEF r
<1>3. m \notin Datas => n + Len(m.data) <= RingBufSize
  <2>1. m \notin Datas => m.data = << >>
    BY Zenon, ToldFields DEF Datas
  <2>2. n + Len(<< >>) = n
    OBVIOUS
  <2>3. QED
    BY Zenon, <2>1, <2>2
<1>4. (\A i \in 1 .. Len(q) : n + Len(q[i].data) <= RingBufSize) /\ n + Len(m.data) <= RingBufSize
      => \A i \in 1 .. Len(r) : n + Len(r[i].data) <= RingBufSize
  BY Zenon, <1>1, <1>2
<1>5. QED
  BY Zenon, <1>2, <1>3, <1>4 DEF Fitting, r

(* What fits, with a message less; what fits if there is no data.          *)
LEMMA FittingLess ==
    ASSUME NEW q \in Seq(Told), NEW n \in Nat, n <= RingBufSize
    PROVE  /\ q # << >> /\ Fitting(q, n) => Fitting(Tail(q), n)
           /\ q # << >> /\ Fitting(q, n) /\ Head(q) \in Datas =>
                 /\ NoneOf(Tail(q), Datas) /\ n + Len(Head(q).data) <= RingBufSize
                 /\ Fitting(Tail(q), n + Len(Head(q).data))
           /\ NoneOf(q, Datas) => Fitting(q, n)
           /\ Fitting(q, n) => \A k \in 0 .. n : Fitting(q, k)
<1>1. ASSUME NEW s \in Seq(Told), NEW k \in Nat, k <= RingBufSize, NoneOf(s, Datas)
      PROVE  Fitting(s, k)
  <2>1. Single(s, Datas)
    BY Zenon, <1>1 DEF Single, NoneOf
  <2>2. k + Len(<< >>) = k
    BY <1>1
  <2>3. \A i \in 1 .. Len(s) : s[i] \in Told
    BY <1>1
  <2>4. \A i \in 1 .. Len(s) : s[i].data = << >>
    BY Zenon, <1>1, <2>3, ToldFields DEF NoneOf, Datas
  <2>5. QED
    BY Zenon, <1>1, <2>1, <2>2, <2>4 DEF Fitting
<1>2. ASSUME q # << >>, Fitting(q, n)
      PROVE  /\ Fitting(Tail(q), n)
             /\ Head(q) \in Datas =>
                 /\ NoneOf(Tail(q), Datas) /\ n + Len(Head(q).data) <= RingBufSize
                 /\ Fitting(Tail(q), n + Len(Head(q).data))
  <2>1. /\ \A i \in 1 .. Len(Tail(q)) : i + 1 \in 1 .. Len(q) /\ Tail(q)[i] = q[i + 1]
        /\ \A V : Single(q, V) => Single(Tail(q), V) /\ (Head(q) \in V => NoneOf(Tail(q), V))
    BY Zenon, <1>2, QueueLess
  <2>2. Tail(q) \in Seq(Told) /\ Head(q) = q[1] /\ Head(q) \in Told /\ 1 \in 1 .. Len(q)
    BY <1>2, Queue
  <2>3. Fitting(Tail(q), n)
    BY Zenon, <1>2, <2>1 DEF Fitting
  <2>4. n + Len(Head(q).data) <= RingBufSize
    BY Zenon, <1>2, <2>2 DEF Fitting
  <2>5. n + Len(Head(q).data) \in Nat
    <3>1. Head(q).data \in Seq(Unit)
      BY Zenon, <2>2, ToldFields
    <3>2. QED
      BY <3>1
  <2>6. Head(q) \in Datas => NoneOf(Tail(q), Datas)
    BY Zenon, <1>2, <2>1 DEF Fitting
  <2>7. QED
    BY Zenon, <1>1, <2>2, <2>3, <2>4, <2>5, <2>6
<1>3. ASSUME Fitting(q, n), NEW k \in 0 .. n PROVE Fitting(q, k)
  <2>1. \A i \in 1 .. Len(q) : Len(q[i].data) \in Nat
    <3>1. \A i \in 1 .. Len(q) : q[i] \in Told
      OBVIOUS
    <3>2. \A i \in 1 .. Len(q) : q[i].data \in Seq(Unit)
      BY Zenon, <3>1, ToldFields
    <3>3. QED
      BY <3>2
  <2>2. \A i \in 1 .. Len(q) : k + Len(q[i].data) <= RingBufSize
    <3>1. \A i \in 1 .. Len(q) : n + Len(q[i].data) <= RingBufSize
      BY Zenon, <1>3 DEF Fitting
    <3>2. QED
      BY <2>1, <3>1, Constants
  <2>3. QED
    BY Zenon, <1>3, <2>2 DEF Fitting
<1>4. QED
  BY Zenon, <1>1, <1>2, <1>3

(* If no offer is current and none is withdrawn, there is none.            *)
LEMMA StaleIsNone ==
    ASSUME NEW S, NEW q \in Seq(S), NoneOf(q, Offs)
    PROVE  Stale(q) <=> NoneOf(q, Ons)
<1>1. \A i \in 1 .. Len(q) : \A j \in 1 .. i : j \in 1 .. Len(q)
  OBVIOUS
<1>2. QED
  BY Zenon, <1>1 DEF Stale, NoneOf, Current

(* Before the first byte nothing is ahead of the reader.                   *)
LEMMA NothingAhead ==
    ASSUME StreamInv, put = 0
    PROVE  Ahead = << >> /\ RingBuf = << >> /\ read = 0 /\ dcount = 0
<1>1. /\ Ahead \in Seq(Unit) /\ RingBuf \in Seq(Unit) /\ Flight(toMacro) \in Seq(Unit)
      /\ put \in Nat /\ dcount \in Nat /\ dcount <= put /\ read \in Nat /\ StreamOK
  BY Zenon, AheadTypes DEF StreamInv
<1>2. dcount = 0 /\ put - dcount = 0 /\ 0 <= 0
  BY <1>1
<1>3. Ahead = << >>
  <2> SUFFICES ASSUME Ahead # << >> PROVE FALSE
    OBVIOUS
  <2>1. Ahead[Len(Ahead)][1] <= 0
    BY Zenon, <1>1, <1>2 DEF StreamOK
  <2>2. Ahead[Len(Ahead)] \in Unit
    BY <1>1
  <2>3. Ahead[Len(Ahead)][1] \in 1 .. MaxPut
    BY Zenon, <2>2, UnitParts
  <2>4. QED
    BY <2>1, <2>3, Constants
<1>4. RingBuf = << >>
  <2>1. RingBuf \o Flight(toMacro) = << >>
    BY Zenon, <1>3 DEF Ahead
  <2>2. \A p, q \in Seq(Unit) : p \o q = << >> => p = << >>
    OBVIOUS
  <2>3. QED
    BY Zenon, <1>1, <2>1, <2>2
<1>5. read = 0
  <2>1. read <= 0
    BY Zenon, <1>1, <1>2, <1>3 DEF StreamOK
  <2>2. QED
    BY <1>1, <2>1
<1>6. QED
  BY Zenon, <1>2, <1>3, <1>4, <1>5
-----------------------------------------------------------------------------
(* Credit is inductive.                                                    *)

(* The types it needs.                                                     *)
LEMMA CreditTypes ==
    ASSUME LinkTypes
    PROVE  /\ toTerm \in Seq(Asked) /\ toMacro \in Seq(Told) /\ RingBuf \in Seq(Unit)
           /\ Len(RingBuf) \in Nat /\ Len(RingBuf) <= RingBufSize
           /\ SyncFreeSpace \in Nat /\ SyncFreeSpace <= RingBufSize
           /\ put \in Nat /\ dcount \in Nat /\ dcount <= put
           /\ SyncMode \in BOOLEAN /\ SyncRecv \in BOOLEAN /\ SyncSent \in BOOLEAN
           /\ MacroSync \in BOOLEAN
<1>1. /\ toTerm \in Seq(Asked) /\ toMacro \in Seq(Told) /\ RingBuf \in Seq(Unit)
      /\ Len(RingBuf) <= RingBufSize /\ SyncFreeSpace \in 0 .. RingBufSize
      /\ SyncMode \in BOOLEAN /\ SyncRecv \in BOOLEAN /\ SyncSent \in BOOLEAN
      /\ MacroSync \in BOOLEAN
  BY Zenon DEF LinkTypes, TermTypes, WireTypes, RingTypes
<1>2. put \in Nat /\ dcount \in Nat /\ dcount <= put
  BY Zenon, AheadTypes
<1>3. Len(RingBuf) \in Nat /\ SyncFreeSpace \in Nat /\ SyncFreeSpace <= RingBufSize
  BY <1>1, Constants
<1>4. QED
  BY Zenon, <1>1, <1>2, <1>3

(* Steps that change nothing of it.                                        *)
LEMMA CreditKept ==
    ASSUME Credit,
           UNCHANGED << linked, MacroSync, SyncMode, SyncRecv, SyncFreeSpace, SyncSent,
                        toTerm, toMacro, RingBuf, put, clean, readInOrder >>
    PROVE  Credit'
BY Zenon DEF Credit, Agreed, AtStart, Roomy, Turns

(* Steps after which what is on its way to the macro still fits.           *)
LEMMA CreditQuiet ==
    ASSUME Credit,
           Fitting(toMacro, Len(RingBuf)) => Fitting(toMacro', Len(RingBuf)),
           NoneOf(toMacro, Datas) => NoneOf(toMacro', Datas),
           linked => UNCHANGED MacroSync,
           UNCHANGED << linked, SyncMode, SyncRecv, SyncFreeSpace, SyncSent,
                        toTerm, RingBuf, put, clean, readInOrder >>
    PROVE  Credit'
<1>1. Agreed'
  BY Zenon DEF Credit, Agreed
<1>2. AtStart'
  BY Zenon DEF Credit, AtStart
<1>3. Roomy'
  BY Zenon DEF Credit, Roomy
<1>4. Turns'
  BY Zenon DEF Credit, Turns
<1>5. QED
  BY Zenon, <1>1, <1>2, <1>3, <1>4 DEF Credit

(* A message without data is posted.                                       *)
LEMMA CreditPosts ==
    ASSUME LinkTypes, Credit, NEW m \in Told, m \notin Datas, toMacro' = Append(toMacro, m),
           UNCHANGED << linked, MacroSync, SyncMode, SyncRecv, SyncFreeSpace, SyncSent,
                        toTerm, RingBuf, put, clean, readInOrder >>
    PROVE  Credit'
<1>1. /\ Fitting(toMacro, Len(RingBuf)) => Fitting(toMacro', Len(RingBuf))
      /\ NoneOf(toMacro, Datas) => NoneOf(toMacro', Datas)
  BY Zenon, CreditTypes, FittingMore
<1>2. QED
  BY Zenon, <1>1, CreditQuiet

(* A message of no data is handled, another posted or not.                 *)
LEMMA CreditHandles ==
    ASSUME LinkTypes, Credit, toMacro # << >>, Head(toMacro) \notin Datas,
           \/ toMacro' = Tail(toMacro)
           \/ \E m \in Told : m \notin Datas /\ toMacro' = Append(Tail(toMacro), m),
           linked => UNCHANGED MacroSync,
           UNCHANGED << linked, SyncMode, SyncRecv, SyncFreeSpace, SyncSent,
                        toTerm, RingBuf, put, clean, readInOrder >>
    PROVE  Credit'
<1> DEFINE r == Tail(toMacro)
           n == Len(RingBuf)
<1>1. toMacro \in Seq(Told) /\ n \in Nat /\ n <= RingBufSize
  BY Zenon, CreditTypes
<1>2. r \in Seq(Told)
  BY <1>1, Queue
<1>3. /\ Fitting(toMacro, n) => Fitting(r, n)
      /\ NoneOf(toMacro, Datas) => NoneOf(r, Datas)
  BY Zenon, <1>1, FittingLess, QueueLess
<1> HIDE DEF r
<1>4. /\ Fitting(toMacro, n) => Fitting(toMacro', n)
      /\ NoneOf(toMacro, Datas) => NoneOf(toMacro', Datas)
  <2>1. CASE toMacro' = r
    BY Zenon, <1>3, <2>1
  <2>2. CASE \E m \in Told : m \notin Datas /\ toMacro' = Append(r, m)
    BY Zenon, <1>1, <1>2, <1>3, <2>2, FittingMore
  <2>3. QED
    BY Zenon, <2>1, <2>2 DEF r
<1>5. QED
  BY Zenon, <1>4, CreditQuiet

(* The host sends.                                                         *)
LEMMA CreditDDEPut1 == SyncInv /\ DDEPut1 => Credit'
<1> SUFFICES ASSUME SyncInv, DDEPut1 PROVE Credit'
  OBVIOUS
<1>1. LinkTypes /\ Credit
  BY Zenon DEF SyncInv, StreamInv
<1>2. PICK n \in 1 .. PutMax : put' = put + n
  BY Zenon DEF DDEPut1
<1>3. put' # 0
  <2>1. put \in Nat
    BY Zenon, <1>1, CreditTypes
  <2>2. QED
    BY <1>2, <2>1
<1>4. UNCHANGED << linked, MacroSync, SyncMode, SyncRecv, SyncFreeSpace, SyncSent,
                   toTerm, toMacro, RingBuf, clean, readInOrder >>
  BY Zenon DEF DDEPut1, ringVars, linkHistory
<1>5. QED
  BY Zenon, <1>1, <1>3, <1>4 DEF Credit, Agreed, AtStart, Roomy, Turns

(* Tera Term sends; in sync mode no more than there is room for.           *)
LEMMA CreditDDEAdv == SyncInv /\ DDEAdv => Credit'
<1> SUFFICES ASSUME SyncInv, DDEAdv PROVE Credit'
  OBVIOUS
<1> DEFINE room == IF SyncFreeSpace < CreditMargin THEN 0 ELSE SyncFreeSpace - CreditMargin
           w == Wired(Taken(room))
           m == Tell("data", 0, w)
           n == Len(RingBuf)
<1>1. LinkTypes /\ Credit /\ TermTypes
  BY Zenon DEF SyncInv, StreamInv, LinkTypes
<1>2. /\ toMacro \in Seq(Told) /\ n \in Nat /\ n <= RingBufSize
      /\ SyncFreeSpace \in Nat /\ put \in Nat /\ dcount \in Nat /\ dcount <= put
  BY Zenon, <1>1, CreditTypes
<1>3. /\ linked /\ dcount > 0 /\ (SyncMode => SyncRecv)
      /\ toMacro' = Append(toMacro, m) /\ SyncRecv' = FALSE
      /\ UNCHANGED << put, SyncMode, linked, toTerm, RingBuf, MacroSync, SyncSent, clean >>
  BY Zenon DEF DDEAdv, ringVars, linkHistory
<1>4. put # 0
  BY <1>2, <1>3
<1>5. room \in Nat
  BY <1>2, Constants
<1>6. /\ Taken(room) \in 0 .. dcount /\ w \in Seq(Unit)
      /\ SyncMode => Len(w) <= room + 1
      /\ SyncMode /\ room = 0 => Len(w) = 0
  BY Zenon, <1>1, <1>5, TakenLemma DEF Carries
<1>7. SyncMode => Len(w) <= SyncFreeSpace
  <2> HIDE DEF w
  <2>1. room = 0 \/ room + 1 <= SyncFreeSpace
    BY <1>2, Constants
  <2>2. Len(w) \in Nat
    BY <1>6
  <2> HIDE DEF room
  <2>3. QED
    BY <1>2, <1>5, <1>6, <2>1, <2>2
<1>8. m \in Told /\ m.data = w
  <2>1. "data" \in Kinds /\ 0 \in Int
    BY DEF Kinds
  <2> HIDE DEF w
  <2>2. QED
    BY <1>6, <2>1, TellIsTold
<1> HIDE DEF w, m, room
<1>9. clean => Fitting(toMacro', n)
  <2> SUFFICES ASSUME clean PROVE Fitting(toMacro', n)
    OBVIOUS
  <2>1. NoneOf(toMacro, Datas) /\ n + SyncFreeSpace <= RingBufSize /\ Fitting(toMacro, n) /\ SyncMode
    BY Zenon, <1>1, <1>3 DEF Credit, Turns, Roomy
  <2>2. n + Len(m.data) <= RingBufSize
    <3>1. Len(w) <= SyncFreeSpace
      BY Zenon, <1>7, <2>1
    <3>2. Len(w) \in Nat
      BY <1>6
    <3>3. n + Len(w) <= RingBufSize
      BY <1>2, <2>1, <3>1, <3>2, Constants
    <3>4. QED
      BY Zenon, <1>8, <3>3
  <2>3. QED
    BY Zenon, <1>2, <1>3, <1>8, <2>1, <2>2, FittingMore
<1>10. clean => /\ Stale(toTerm)
                /\ SyncSent \/ ~NoneOf(toTerm, Offs)
  BY Zenon, <1>1, <1>3 DEF Credit, Turns, Stale
<1>11. QED
  BY Zenon, <1>1, <1>3, <1>4, <1>9, <1>10 DEF Credit, Agreed, AtStart, Roomy, Turns, Stale

(* A message without data is no data.                                      *)
LEMMA BareIsNoData ==
    \A k \in Dataless, i \in Int :
        Tell(k, i, << >>) \in Told /\ Tell(k, i, << >>) \notin Datas
<1>1. TAKE k \in Dataless, i \in Int
<1>2. Tell(k, i, << >>) \in Told /\ Tell(k, i, << >>).kind = k
  BY Zenon, Bare
<1>3. k # "data"
  BY DEF Dataless
<1>4. QED
  BY Zenon, <1>2, <1>3 DEF Datas

(* A command starts, or is refused.                                        *)
LEMMA CreditStarts ==
    ASSUME LinkTypes, Credit, toTerm # << >>, Head(toTerm) \notin Ons, Head(toTerm) \notin Offs,
           NEW m \in Told, m \notin Datas, toMacro' = Append(toMacro, m), toTerm' = Tail(toTerm),
           UNCHANGED << linked, MacroSync, SyncMode, SyncRecv, SyncFreeSpace, SyncSent,
                        RingBuf, put, clean, readInOrder >>
    PROVE  Credit'
<1> DEFINE r == Tail(toTerm)
<1>1. toTerm \in Seq(Asked)
  BY Zenon, CreditTypes
<1>2. /\ Fitting(toMacro, Len(RingBuf)) => Fitting(toMacro', Len(RingBuf))
      /\ NoneOf(toMacro, Datas) => NoneOf(toMacro', Datas)
  BY Zenon, CreditTypes, FittingMore
<1>3. /\ \A i \in 1 .. Len(r) : /\ i + 1 \in 1 .. Len(toTerm) /\ r[i] = toTerm[i + 1]
                                /\ Current(r, i) <=> Current(toTerm, i + 1)
      /\ NoneOf(toTerm, Offs) <=> NoneOf(r, Offs)
      /\ NoneOf(toTerm, Ons) <=> NoneOf(r, Ons)
  BY Zenon, <1>1, QueueLess
<1>4. /\ Stale(toTerm) => Stale(r)
      /\ Fresh(toTerm) => Fresh(r)
      /\ Alternate(toTerm) => Alternate(r)
      /\ Revoked(toTerm) => Revoked(r)
  BY Zenon, <1>1, OffersLess
<1>5. toTerm' = r
  BY Zenon
<1> HIDE DEF r
<1>6. Agreed'
  BY Zenon, <1>3, <1>4, <1>5 DEF Credit, Agreed
<1>7. AtStart'
  BY Zenon, <1>2, <1>3, <1>4, <1>5 DEF Credit, AtStart
<1>8. Roomy'
  BY Zenon, <1>2 DEF Credit, Roomy
<1>9. Turns'
  BY Zenon, <1>2, <1>3, <1>4, <1>5 DEF Credit, Turns
<1>10. QED
  BY Zenon, <1>6, <1>7, <1>8, <1>9 DEF Credit

(* Tera Term learns of the room there is.                                  *)
LEMMA CreditOffered ==
    ASSUME SyncInv, linked, toTerm # << >>, Head(toTerm) \in Ons,
           NEW m \in Told, m \notin Datas, toMacro' = Append(toMacro, m), toTerm' = Tail(toTerm),
           SyncFreeSpace' = Head(toTerm).room, SyncMode' = TRUE, SyncRecv' = TRUE,
           clean' = (clean \/ put = 0),
           UNCHANGED << linked, MacroSync, SyncSent, RingBuf, put, readInOrder >>
    PROVE  Credit'
<1> DEFINE r == Tail(toTerm)
           c == Head(toTerm)
<1>1. LinkTypes /\ Credit /\ StreamInv
  BY Zenon DEF SyncInv, StreamInv
<1>2. /\ toTerm \in Seq(Asked) /\ toMacro \in Seq(Told)
      /\ Len(RingBuf) \in Nat /\ Len(RingBuf) <= RingBufSize
  BY Zenon, <1>1, CreditTypes
<1>3. /\ Fitting(toMacro, Len(RingBuf)) => Fitting(toMacro', Len(RingBuf))
      /\ NoneOf(toMacro, Datas) => NoneOf(toMacro', Datas) /\ Fitting(toMacro', Len(RingBuf))
  BY Zenon, <1>2, FittingMore, FittingLess
<1>4. /\ \A i \in 1 .. Len(r) : i + 1 \in 1 .. Len(toTerm) /\ r[i] = toTerm[i + 1]
      /\ NoneOf(r, Offs) => NoneOf(toTerm, Offs)
      /\ ~NoneOf(toTerm, Ons)
      /\ 1 \in 1 .. Len(toTerm) /\ Current(toTerm, 1)
  BY Zenon, <1>2, QueueLess, OnIsNotOff
<1>5. /\ Alternate(toTerm) => Alternate(r) /\ Stale(r)
      /\ Fresh(toTerm) => Stale(r)
      /\ Revoked(toTerm) => Revoked(r) /\ ~NoneOf(r, Offs)
  BY Zenon, <1>2, OffersLess, OnIsNotOff
<1>6. c = toTerm[1]
  BY <1>2, Queue
<1>7. toTerm' = r /\ SyncFreeSpace' = c.room
  BY Zenon
<1> HIDE DEF r, c
<1>8. Agreed'
  BY Zenon, <1>1, <1>5, <1>7 DEF Credit, Agreed
<1>9. AtStart'
  BY Zenon, <1>1, <1>3, <1>4, <1>5, <1>7 DEF Credit, AtStart
<1>10. clean => /\ Stale(r) /\ NoneOf(toMacro', Datas)
                /\ Len(RingBuf) + c.room <= RingBufSize
                /\ SyncSent \/ ~NoneOf(r, Offs)
  BY Zenon, <1>1, <1>3, <1>4, <1>5, <1>6 DEF Credit, Turns
<1>11. put = 0 => /\ Stale(r) /\ NoneOf(toMacro', Datas)
                  /\ Len(RingBuf) + c.room <= RingBufSize
                  /\ SyncSent \/ ~NoneOf(r, Offs)
  <2> SUFFICES ASSUME put = 0
               PROVE  /\ Stale(r) /\ NoneOf(toMacro', Datas)
                      /\ Len(RingBuf) + c.room <= RingBufSize
                      /\ SyncSent \/ ~NoneOf(r, Offs)
    OBVIOUS
  <2>1. RingBuf = << >>
    BY Zenon, <1>1, NothingAhead
  <2>2. c.room = RingBufSize /\ Stale(r) /\ NoneOf(toMacro', Datas) /\ (MacroSync => SyncSent)
    <3>1. toTerm[1] \in Ons
      BY Zenon, <1>4 DEF Current
    <3>2. QED
      BY Zenon, <1>1, <1>3, <1>4, <1>5, <1>6, <3>1 DEF Credit, AtStart
  <2>3. ~MacroSync => ~NoneOf(r, Offs)
    BY Zenon, <1>1, <1>5 DEF Credit, Agreed
  <2>4. Len(RingBuf) + c.room <= RingBufSize
    BY <2>1, <2>2, Constants
  <2>5. QED
    BY Zenon, <2>2, <2>3, <2>4
<1>12. Roomy'
  BY Zenon, <1>1, <1>3, <1>11 DEF Credit, Roomy, AtStart
<1>13. Turns'
  <2>1. \A i \in 1 .. Len(r) : Stale(r) => ~Current(r, i)
    BY Zenon DEF Stale
  <2>2. Stale(r) => Fresh(r)
    BY Zenon DEF Stale, Fresh
  <2>3. clean' => /\ Stale(r) /\ NoneOf(toMacro', Datas)
                  /\ Len(RingBuf) + c.room <= RingBufSize
                  /\ SyncSent \/ ~NoneOf(r, Offs)
    BY Zenon, <1>10, <1>11
  <2>4. QED
    BY Zenon, <1>7, <2>1, <2>2, <2>3 DEF Turns
<1>14. QED
  BY Zenon, <1>8, <1>9, <1>12, <1>13 DEF Credit

(* Tera Term learns that sync mode is over.                                *)
LEMMA CreditWithdrawn ==
    ASSUME LinkTypes, Credit, toTerm # << >>,
           NEW m \in Told, m \notin Datas, toMacro' = Append(toMacro, m), toTerm' = Tail(toTerm),
           SyncMode' = FALSE, clean' = FALSE,
           UNCHANGED << linked, MacroSync, SyncSent, RingBuf, put, readInOrder >>
    PROVE  Credit'
<1> DEFINE r == Tail(toTerm)
<1>1. toTerm \in Seq(Asked)
  BY Zenon, CreditTypes
<1>2. NoneOf(toMacro, Datas) => NoneOf(toMacro', Datas)
  BY Zenon, CreditTypes, FittingMore
<1>3. \A i \in 1 .. Len(r) : i + 1 \in 1 .. Len(toTerm) /\ r[i] = toTerm[i + 1]
  BY Zenon, <1>1, QueueLess
<1>4. /\ Alternate(toTerm) => Alternate(r)
      /\ Revoked(toTerm) => Revoked(r)
  BY Zenon, <1>1, OffersLess
<1>5. toTerm' = r
  BY Zenon
<1> HIDE DEF r
<1>6. QED
  BY Zenon, <1>2, <1>3, <1>4, <1>5 DEF Credit, Agreed, AtStart, Roomy, Turns

(* Tera Term carries out a request, tells the end of a command, or ends.   *)
LEMMA CreditTerm == SyncInv /\ (AcceptExecute \/ EndDdeCmnd \/ EndDDE) => Credit'
<1> SUFFICES ASSUME SyncInv, AcceptExecute \/ EndDdeCmnd \/ EndDDE PROVE Credit'
  OBVIOUS
<1>1. LinkTypes /\ Credit
  BY Zenon DEF SyncInv, StreamInv
<1>2. /\ toTerm \in Seq(Asked) /\ toMacro \in Seq(Told)
      /\ Len(RingBuf) \in Nat /\ Len(RingBuf) <= RingBufSize
  BY Zenon, <1>1, CreditTypes
<1>3. job \in Int /\ 0 \in Int
  <2>1. job \in 0 .. MaxCmnds
    BY Zenon, <1>1 DEF LinkTypes, TermTypes
  <2>2. QED
    BY <2>1, Constants
<1>4. \A i \in Int : /\ Tell("ack", i, << >>) \in Told /\ Tell("ack", i, << >>) \notin Datas
                     /\ Tell("nack", i, << >>) \in Told /\ Tell("nack", i, << >>) \notin Datas
                     /\ Tell("cmndend", i, << >>) \in Told /\ Tell("cmndend", i, << >>) \notin Datas
                     /\ Tell("disconnect", i, << >>) \in Told /\ Tell("disconnect", i, << >>) \notin Datas
  <2>1. /\ "ack" \in Dataless
        /\ "nack" \in Dataless
        /\ "cmndend" \in Dataless
        /\ "disconnect" \in Dataless
    BY DEF Dataless
  <2>2. QED
    BY Zenon, <2>1, BareIsNoData
<1>5. CASE AcceptExecute
  <2> DEFINE c == Head(toTerm)
  <2>1. /\ linked /\ toTerm # << >> /\ toTerm' = Tail(toTerm)
        /\ CmdSetSync(c) \/ CmdStart(c)
        /\ UNCHANGED << linked, MacroSync, SyncSent, RingBuf, put, readInOrder >>
    BY Zenon, <1>5 DEF AcceptExecute, ringVars
  <2>2. c \in Asked
    BY Zenon, <1>2, <2>1, Queue
  <2>3. c.id \in Int /\ c.room \in 0 .. RingBufSize
    BY Zenon, <2>2, AskedFields
  <2>4. CASE CmdStart(c)
    <3>1. \E ok \in {FALSE, job = 0} :
             toMacro' = Append(toMacro, Tell(IF ok THEN "ack" ELSE "nack", c.id, << >>))
      BY Zenon, <2>4 DEF CmdStart
    <3>2. \E m \in Told : m \notin Datas /\ toMacro' = Append(toMacro, m)
      <4>1. \A ok : Tell(IF ok THEN "ack" ELSE "nack", c.id, << >>) \in Told
                    /\ Tell(IF ok THEN "ack" ELSE "nack", c.id, << >>) \notin Datas
        BY Zenon, <1>4, <2>3
      <4>2. QED
        BY Zenon, <3>1, <4>1
    <3>3. c \notin Ons /\ c \notin Offs
      <4>1. c.kind = "cmnd"
        BY Zenon, <2>4 DEF CmdStart
      <4>2. "cmnd" # "sync"
        OBVIOUS
      <4>3. QED
        BY Zenon, <4>1, <4>2 DEF Ons, Offs
    <3>4. UNCHANGED << SyncMode, SyncRecv, SyncFreeSpace, clean >>
      BY Zenon, <2>4 DEF CmdStart
    <3>5. QED
      BY Zenon, <1>1, <2>1, <3>2, <3>3, <3>4, CreditStarts
  <2>5. CASE CmdSetSync(c)
    <3> DEFINE m == Tell("ack", c.id, << >>)
    <3>1. /\ c.kind = "sync"
          /\ SyncFreeSpace' = c.room /\ SyncMode' = (c.room > 0) /\ SyncRecv' = TRUE
          /\ toMacro' = Append(toMacro, m)
          /\ clean' = (c.room > 0 /\ (clean \/ put = 0))
      BY Zenon, <2>5 DEF CmdSetSync
    <3>2. m \in Told /\ m \notin Datas
      BY Zenon, <1>4, <2>3
    <3> HIDE DEF m
    <3>3. CASE c.room > 0
      <4>1. c \in Ons
        BY Zenon, <2>2, <3>1, <3>3 DEF Ons
      <4>2. SyncMode' = TRUE /\ clean' = (clean \/ put = 0)
        BY <3>1, <3>3
      <4>3. QED
        BY Zenon, <2>1, <3>1, <3>2, <4>1, <4>2, CreditOffered
    <3>4. CASE ~(c.room > 0)
      <4>1. SyncMode' = FALSE /\ clean' = FALSE
        <5> DEFINE p == c.room > 0
                   o == clean \/ put = 0
        <5>1. SyncMode' = p /\ clean' = (p /\ o) /\ ~p
          BY Zenon, <3>1, <3>4
        <5> HIDE DEF p, o
        <5>2. p = FALSE /\ (p /\ o) = FALSE
          BY <5>1
        <5>3. QED
          BY Zenon, <5>1, <5>2
      <4>2. QED
        BY Zenon, <1>1, <2>1, <3>1, <3>2, <4>1, CreditWithdrawn
    <3>5. QED
      BY Zenon, <3>3, <3>4
  <2>6. QED
    BY Zenon, <2>1, <2>4, <2>5
<1>6. CASE EndDdeCmnd
  <2>1. /\ toMacro' = Append(toMacro, Tell("cmndend", job, << >>))
        /\ UNCHANGED << linked, MacroSync, SyncMode, SyncRecv, SyncFreeSpace, SyncSent,
                        toTerm, RingBuf, put, clean, readInOrder >>
    BY Zenon, <1>6 DEF EndDdeCmnd, ringVars, linkHistory
  <2>2. QED
    BY Zenon, <1>1, <1>3, <1>4, <2>1, CreditPosts
<1>7. CASE EndDDE
  <2> DEFINE a == Tell("disconnect", 0, << >>)
             b == Tell("cmndend", 0, << >>)
  <2>1. /\ toMacro' = toMacro \o << a, b >> /\ linked' = FALSE
        /\ UNCHANGED << RingBuf, clean >>
    BY Zenon, <1>7 DEF EndDDE, ringVars, linkHistory
  <2>2. a \in Told /\ b \in Told /\ a \notin Datas /\ b \notin Datas
    BY Zenon, <1>3, <1>4
  <2> HIDE DEF a, b
  <2>3. toMacro' = Append(Append(toMacro, a), b) /\ Append(toMacro, a) \in Seq(Told)
    BY <1>2, <2>1, <2>2, LastWords
  <2>4. Fitting(toMacro, Len(RingBuf)) => Fitting(toMacro', Len(RingBuf))
    BY Zenon, <1>2, <2>2, <2>3, FittingMore
  <2>5. QED
    BY Zenon, <1>1, <2>1, <2>4 DEF Credit, Agreed, AtStart, Roomy, Turns
<1>8. QED
  BY Zenon, <1>5, <1>6, <1>7

(* The macro takes data; the ring buffer holds what it did and the data.   *)
LEMMA CreditData ==
    ASSUME LinkTypes, Credit, toMacro # << >>, Head(toMacro) \in Datas, toMacro' = Tail(toMacro),
           clean => Len(RingBuf') = Len(RingBuf) + Len(Head(toMacro).data), SyncSent' = FALSE,
           UNCHANGED << linked, MacroSync, SyncMode, SyncRecv, SyncFreeSpace,
                        toTerm, put, clean, readInOrder >>
    PROVE  Credit'
<1> DEFINE r == Tail(toMacro)
           n == Len(RingBuf)
           d == Len(Head(toMacro).data)
<1>1. toMacro \in Seq(Told) /\ toTerm \in Seq(Asked) /\ n \in Nat /\ n <= RingBufSize
  BY Zenon, CreditTypes
<1>2. /\ Fitting(toMacro, n) => NoneOf(r, Datas) /\ Fitting(r, n + d)
      /\ ~NoneOf(toMacro, Datas)
  BY Zenon, <1>1, FittingLess, QueueLess
<1>3. toMacro' = r
  BY Zenon
<1> HIDE DEF r, d
<1>4. clean => Fitting(r, Len(RingBuf')) /\ NoneOf(r, Datas)
  BY Zenon, <1>2 DEF Credit, Roomy, d
<1>5. Agreed'
  BY Zenon DEF Credit, Agreed
<1>6. AtStart'
  BY Zenon, <1>2 DEF Credit, AtStart
<1>7. Roomy'
  BY Zenon, <1>3, <1>4 DEF Roomy
<1>8. clean /\ linked => /\ SyncMode /\ Fresh(toTerm) /\ Stale(toTerm) /\ ~SyncRecv
                         /\ NoneOf(toTerm, Offs) => NoneOf(toTerm, Ons)
  BY Zenon, <1>1, <1>2, StaleIsNone DEF Credit, Turns, Stale
<1>9. Turns'
  BY Zenon, <1>3, <1>4, <1>8 DEF Turns, Stale
<1>10. QED
  BY Zenon, <1>5, <1>6, <1>7, <1>9 DEF Credit

(* The macro handles a message.                                            *)
LEMMA CreditDispatch == SyncInv /\ Dispatch => Credit'
<1> SUFFICES ASSUME SyncInv, Dispatch PROVE Credit'
  OBVIOUS
<1> DEFINE m == Head(toMacro)
<1>1. /\ toMacro # << >>
      /\ AcceptData(m) \/ Acknowledge(m) \/ OnDdeCmndEnd(m) \/ Disconnected(m) \/ OnDdeEnd(m)
      /\ UNCHANGED << termVars, toTerm, idlePc, issued, syncs, timeouts, read, readInOrder, clean >>
  BY Zenon DEF Dispatch
<1>2. LinkTypes /\ Credit /\ Phase /\ RingTypes
  BY Zenon DEF SyncInv, StreamInv, FitsInv, LinkTypes
<1>3. UNCHANGED << linked, SyncMode, SyncRecv, SyncFreeSpace, toTerm, put, clean, readInOrder >>
  BY Zenon, <1>1 DEF termVars
<1>4. toMacro \in Seq(Told) /\ m \in Told
  <2>1. toMacro \in Seq(Told)
    BY Zenon, <1>2, CreditTypes
  <2>2. QED
    BY <1>1, <2>1, Queue
<1>5. CASE AcceptData(m)
  <2> DEFINE d == m.data
             all == RingBuf \o d
             over == Len(all) - RingBufSize
             ring == IF over > 0 THEN SubSeq(all, over + 1, Len(all)) ELSE all
  <2>1. /\ m \in Datas /\ RingBuf' = ring /\ SyncSent' = FALSE
        /\ toMacro' = Tail(toMacro) /\ UNCHANGED MacroSync
    BY Zenon, <1>4, <1>5 DEF AcceptData, Datas
  <2>2. d \in Seq(Unit)
    BY Zenon, <1>4, ToldFields
  <2>3. RingBuf \in Seq(Unit) /\ Len(RingBuf) \in Nat /\ Len(RingBuf) <= RingBufSize
    BY Zenon, <1>2, CreditTypes
  <2> HIDE DEF d, m
  <2>4. Len(RingBuf) + Len(d) <= RingBufSize => ring = all /\ Len(all) = Len(RingBuf) + Len(d)
    <3>1. Len(all) = Len(RingBuf) + Len(d)
      BY <2>2, <2>3, Joined
    <3>2. Len(RingBuf) + Len(d) <= RingBufSize => ~(over > 0)
      <4>1. Len(d) \in Nat
        BY <2>2
      <4> HIDE DEF all
      <4>2. QED
        BY <2>3, <3>1, <4>1, Constants
    <3>3. QED
      BY Zenon, <3>1, <3>2
  <2>5. clean => Len(RingBuf) + Len(d) <= RingBufSize
    <3>1. Fitting(toMacro, Len(RingBuf)) => Len(RingBuf) + Len(d) <= RingBufSize
      BY Zenon, <1>1, <1>4, <2>1, <2>3, FittingLess DEF d, m
    <3>2. QED
      BY Zenon, <1>2, <3>1 DEF Credit, Roomy
  <2>6. clean => Len(RingBuf') = Len(RingBuf) + Len(d)
    BY Zenon, <2>1, <2>4, <2>5
  <2>7. QED
    BY Zenon, <1>1, <1>2, <1>3, <2>1, <2>6, CreditData DEF d, m
<1>6. CASE ~AcceptData(m)
  <2>1. m \notin Datas /\ UNCHANGED << RingBuf, SyncSent >>
    <3>1. m.kind # "data" /\ UNCHANGED << RingBuf, SyncSent >>
      <4>1. /\ "ack" # "data" /\ "nack" # "data" /\ "cmndend" # "data"
            /\ "disconnect" # "data" /\ "ddeend" # "data"
        OBVIOUS
      <4>2. m.kind \in {"ack", "nack"} => m.kind = "ack" \/ m.kind = "nack"
        OBVIOUS
      <4> HIDE DEF m
      <4>3. CASE Acknowledge(m)
        BY Zenon, <4>1, <4>2, <4>3 DEF Acknowledge, ringVars
      <4>4. CASE OnDdeCmndEnd(m)
        BY Zenon, <4>1, <4>4 DEF OnDdeCmndEnd, ringVars
      <4>5. CASE Disconnected(m)
        BY Zenon, <4>1, <4>5 DEF Disconnected, ringVars
      <4>6. CASE OnDdeEnd(m)
        BY Zenon, <4>1, <4>6 DEF OnDdeEnd
      <4>7. QED
        BY Zenon, <1>1, <1>6, <4>3, <4>4, <4>5, <4>6
    <3>2. QED
      BY Zenon, <3>1 DEF Datas
  <2>2. \/ toMacro' = Tail(toMacro)
        \/ \E b \in Told : b \notin Datas /\ toMacro' = Append(Tail(toMacro), b)
    <3>1. "ddeend" \in Dataless /\ 0 \in Int
      BY DEF Dataless
    <3>2. Tell("ddeend", 0, << >>) \in Told /\ Tell("ddeend", 0, << >>) \notin Datas
      BY Zenon, <3>1, BareIsNoData
    <3>3. toMacro' = Tail(toMacro) \/ toMacro' = Append(Tail(toMacro), Tell("ddeend", 0, << >>))
      BY Zenon, <1>1, <1>6 DEF Acknowledge, OnDdeCmndEnd, Disconnected, OnDdeEnd
    <3>4. QED
      BY Zenon, <3>2, <3>3
  <2>3. linked => UNCHANGED MacroSync
    <3>1. CASE OnDdeEnd(m)
      <4>1. linked => Plain(m)
        <5>1. m = toMacro[1] /\ 1 \in 1 .. Len(toMacro)
          BY <1>1, <1>4, Queue
        <5>2. QED
          BY Zenon, <1>2, <5>1, StandsIfLinked DEF Stands
      <4>2. m.kind = "ddeend"
        BY Zenon, <3>1 DEF OnDdeEnd
      <4>3. ~Plain(m)
        BY <4>2 DEF Plain
      <4>4. QED
        BY Zenon, <4>1, <4>3
    <3>2. CASE ~OnDdeEnd(m)
      BY Zenon, <1>1, <1>6, <3>2 DEF Acknowledge, OnDdeCmndEnd, Disconnected, ringVars
    <3>3. QED
      BY Zenon, <3>1, <3>2
  <2>4. QED
    BY Zenon, <1>1, <1>2, <1>3, <2>1, <2>2, <2>3, CreditHandles
<1>7. QED
  BY Zenon, <1>5, <1>6

(* Less in the ring buffer leaves as much room, or more.                   *)
LEMMA LessInRing ==
    ASSUME LinkTypes, NEW n \in 0 .. Len(RingBuf)
    PROVE  /\ \A i \in 1 .. Len(toTerm) :
                 Len(RingBuf) + toTerm[i].room <= RingBufSize => n + toTerm[i].room <= RingBufSize
           /\ Len(RingBuf) + SyncFreeSpace <= RingBufSize => n + SyncFreeSpace <= RingBufSize
           /\ Fitting(toMacro, Len(RingBuf)) => Fitting(toMacro, n)
           /\ n \in Nat
<1>1. /\ toTerm \in Seq(Asked) /\ toMacro \in Seq(Told) /\ Len(RingBuf) \in Nat
      /\ Len(RingBuf) <= RingBufSize /\ SyncFreeSpace \in Nat
  BY Zenon, CreditTypes
<1>2. \A i \in 1 .. Len(toTerm) : toTerm[i].room \in 0 .. RingBufSize
  <2>1. \A i \in 1 .. Len(toTerm) : toTerm[i] \in Asked
    BY <1>1
  <2>2. QED
    BY Zenon, <2>1, AskedFields
<1>3. Fitting(toMacro, Len(RingBuf)) => Fitting(toMacro, n)
  BY Zenon, <1>1, FittingLess
<1>4. n \in Nat /\ n <= Len(RingBuf)
  BY <1>1
<1>5. Len(RingBuf) + SyncFreeSpace <= RingBufSize => n + SyncFreeSpace <= RingBufSize
  BY <1>1, <1>4, Constants
<1>6. ASSUME NEW i \in 1 .. Len(toTerm)
      PROVE  Len(RingBuf) + toTerm[i].room <= RingBufSize => n + toTerm[i].room <= RingBufSize
  <2>1. toTerm[i].room \in Nat
    BY <1>2, Constants
  <2>2. QED
    BY <1>1, <1>4, <2>1, Constants
<1>7. QED
  BY Zenon, <1>3, <1>4, <1>5, <1>6

(* OnIdle offers what room there is, n bytes being left in the ring buffer *)
(* after a wait took some.                                                 *)
LEMMA CreditSends ==
    ASSUME SyncInv, NEW n \in 0 .. Len(RingBuf), SendSync(n), Len(RingBuf') = n,
           put = 0 /\ readInOrder => readInOrder',
           UNCHANGED << linked, MacroSync, SyncMode, SyncRecv, SyncFreeSpace,
                        toMacro, put, clean >>
    PROVE  Credit'
<1>1. LinkTypes /\ Agreed /\ AtStart /\ Roomy /\ Turns
  BY Zenon DEF SyncInv, StreamInv, Credit
<1>2. toTerm \in Seq(Asked)
  BY Zenon, <1>1, CreditTypes
<1>3. /\ \A i \in 1 .. Len(toTerm) :
            Len(RingBuf) + toTerm[i].room <= RingBufSize => n + toTerm[i].room <= RingBufSize
      /\ Len(RingBuf) + SyncFreeSpace <= RingBufSize => n + SyncFreeSpace <= RingBufSize
      /\ Fitting(toMacro, Len(RingBuf)) => Fitting(toMacro, n)
      /\ n \in Nat
  BY Zenon, <1>1, LessInRing
<1>4. Roomy'
  BY Zenon, <1>1, <1>3 DEF Roomy
<1>5. CASE Linked /\ MacroSync /\ ~SyncSent /\ n < RCountLimit
  <2> DEFINE e == Ask("sync", SyncId, Room(n))
             r == Append(toTerm, e)
  <2>1. TellRoom(Room(n)) /\ SyncSent' = TRUE
    BY Zenon, <1>5 DEF SendSync
  <2>2. Room(n) \in 1 .. RingBufSize /\ Room(n) > 0 /\ n + Room(n) <= RingBufSize
    BY Zenon, <1>3, <1>5, RoomLemma
  <2>3. Room(n) \in 0 .. RingBufSize
    BY <2>2
  <2>4. toTerm' = r /\ e \in Asked
    BY Zenon, <1>1, <2>1, <2>3, TypesTellRoom
  <2>5. e.kind = "sync" /\ e.room = Room(n)
    BY DEF Ask
  <2> HIDE DEF e
  <2>6. /\ \A i \in 1 .. Len(toTerm) : (Current(r, i) <=> Current(toTerm, i)) /\ r[i] = toTerm[i]
        /\ \A i \in 1 .. Len(r) : i \in 1 .. Len(toTerm) \/ i = Len(toTerm) + 1
        /\ Current(r, Len(toTerm) + 1) => NoneOf(toTerm, Offs)
        /\ r[Len(toTerm) + 1] = e
    <3>1. r[Len(toTerm) + 1] = e /\ \A i \in 1 .. Len(toTerm) : r[i] = toTerm[i]
      BY <1>2, <2>4, Queue
    <3>2. QED
      BY Zenon, <1>2, <2>4, <3>1, QueueMore
  <2>7. Fresh(toTerm) /\ (Stale(toTerm) \/ ~NoneOf(toTerm, Offs)) => Fresh(r)
    BY Zenon, <1>2, <2>4, OffersMore
  <2> HIDE DEF r
  <2>8. Agreed'
    BY Zenon, <1>5 DEF Agreed
  <2>9. AtStart'
    BY Zenon, <1>1, <1>5 DEF AtStart
  <2>10. clean /\ linked => /\ SyncMode /\ Fresh(toTerm)
                            /\ NoneOf(toTerm, Offs) =>
                                 NoneOf(toMacro, Datas) /\ ~SyncRecv /\ Stale(toTerm)
    BY Zenon, <1>1, <1>2, <1>5, StaleIsNone DEF Turns
  <2>11. clean /\ linked => Fresh(r)
    BY Zenon, <2>7, <2>10
  <2>12. ASSUME clean, linked, NEW i \in 1 .. Len(r), Current(r, i)
         PROVE  ~SyncRecv /\ NoneOf(toMacro, Datas) /\ n + r[i].room <= RingBufSize
    <3>1. CASE i \in 1 .. Len(toTerm)
      BY Zenon, <1>1, <1>3, <2>6, <2>12, <3>1 DEF Turns
    <3>2. CASE i = Len(toTerm) + 1
      BY Zenon, <2>2, <2>5, <2>6, <2>10, <2>12, <3>2
    <3>3. QED
      BY Zenon, <2>6, <3>1, <3>2
  <2>13. clean /\ linked /\ SyncRecv => NoneOf(toMacro, Datas) /\ n + SyncFreeSpace <= RingBufSize
    BY Zenon, <1>1, <1>3 DEF Turns
  <2>14. Turns'
    BY Zenon, <2>1, <2>4, <2>10, <2>11, <2>12, <2>13 DEF Turns
  <2>15. QED
    BY Zenon, <1>4, <2>8, <2>9, <2>14 DEF Credit
<1>6. CASE ~(Linked /\ MacroSync /\ ~SyncSent /\ n < RCountLimit)
  <2>1. UNCHANGED << toTerm, SyncSent >>
    BY Zenon, <1>6 DEF SendSync
  <2>2. Agreed' /\ AtStart'
    BY Zenon, <1>1, <2>1 DEF Agreed, AtStart
  <2>3. Turns'
    BY Zenon, <1>1, <1>3, <2>1 DEF Turns
  <2>4. QED
    BY Zenon, <1>4, <2>2, <2>3 DEF Credit
<1>7. QED
  BY Zenon, <1>5, <1>6

(* The macro asks for sync mode, or for its end.                           *)
LEMMA CreditSetSync ==
    ASSUME SyncInv, SetSync,
           UNCHANGED << linked, SyncMode, SyncRecv, SyncFreeSpace, toMacro, RingBuf, put,
                        clean, readInOrder >>
    PROVE  Credit'
<1>1. LinkTypes /\ StreamInv /\ Agreed /\ AtStart /\ Roomy /\ Turns
  BY Zenon DEF SyncInv, StreamInv, Credit
<1>2. toTerm \in Seq(Asked) /\ Len(RingBuf) \in Nat /\ MacroSync \in BOOLEAN
  BY Zenon, <1>1, CreditTypes
<1>3. /\ MacroSync' = ~MacroSync
      /\ SyncSent' = (MacroSync' \/ SyncSent)
      /\ TellRoom(IF MacroSync' THEN Room(Len(RingBuf)) ELSE 0)
  BY Zenon DEF SetSync
<1>4. Roomy'
  BY Zenon, <1>1 DEF Roomy
<1> DEFINE room == IF MacroSync' THEN Room(Len(RingBuf)) ELSE 0
           e == Ask("sync", SyncId, room)
           r == Append(toTerm, e)
<1>5. Room(Len(RingBuf)) \in 1 .. RingBufSize /\ Room(Len(RingBuf)) > 0
  BY Zenon, <1>2, RoomLemma
<1>6. room \in 0 .. RingBufSize
  BY <1>5, Constants
<1>7. toTerm' = r /\ e \in Asked
  BY Zenon, <1>1, <1>3, <1>6, TypesTellRoom
<1>8. e.kind = "sync" /\ e.room = room
  BY DEF Ask
<1> HIDE DEF e
<1>9. /\ \A i \in 1 .. Len(toTerm) : (Current(r, i) <=> Current(toTerm, i)) /\ r[i] = toTerm[i]
      /\ \A i \in 1 .. Len(r) : i \in 1 .. Len(toTerm) \/ i = Len(toTerm) + 1
      /\ Current(r, Len(toTerm) + 1) => e \in Ons /\ NoneOf(toTerm, Offs)
      /\ r[Len(toTerm) + 1] = e
      /\ NoneOf(r, Offs) => e \notin Offs
  <2>1. r[Len(toTerm) + 1] = e /\ \A i \in 1 .. Len(toTerm) : r[i] = toTerm[i]
    BY <1>2, <1>7, Queue
  <2>2. QED
    BY Zenon, <1>2, <1>7, <2>1, QueueMore
<1>10. /\ Stale(toTerm) /\ (e \in Ons => ~NoneOf(toTerm, Offs)) => Stale(r)
       /\ Fresh(toTerm) /\ (e \in Ons => ~NoneOf(toTerm, Offs)) => Fresh(r)
       /\ Alternate(toTerm) /\ (e \in Ons => Revoked(toTerm)) => Alternate(r)
       /\ e \in Offs => Revoked(r)
  BY Zenon, <1>2, <1>7, OffersMore
<1> HIDE DEF r
<1>11. CASE ~MacroSync
  <2>1. MacroSync' = TRUE
    BY Zenon, <1>3, <1>11
  <2>2. SyncSent' = TRUE
    BY <1>3, <2>1
  <2>3. room = Room(Len(RingBuf)) /\ e \in Ons
    BY Zenon, <1>5, <1>7, <1>8, <2>1 DEF Ons
  <2>4. linked => Revoked(toTerm) /\ (SyncMode => ~NoneOf(toTerm, Offs))
    BY Zenon, <1>1, <1>11 DEF Agreed
  <2>5. Agreed'
    BY Zenon, <2>1 DEF Agreed
  <2>6. put = 0 => e.room = RingBufSize
    <3> SUFFICES ASSUME put = 0 PROVE e.room = RingBufSize
      OBVIOUS
    <3>1. RingBuf = << >>
      BY Zenon, <1>1, NothingAhead
    <3>2. Len(RingBuf) = 0
      BY <3>1
    <3>3. Room(0) = RingBufSize
      BY Constants DEF Room
    <3>4. QED
      BY Zenon, <1>8, <2>3, <3>2, <3>3
  <2>7. AtStart'
    <3> SUFFICES ASSUME put = 0, linked
                 PROVE  /\ readInOrder /\ NoneOf(toMacro, Datas)
                        /\ \A i \in 1 .. Len(r) : r[i] \in Ons => r[i].room = RingBufSize
                        /\ SyncMode => Stale(r)
                        /\ Alternate(r)
      BY Zenon, <1>7, <2>2 DEF AtStart
    <3>1. \A i \in 1 .. Len(r) : r[i] \in Ons => r[i].room = RingBufSize
      BY Zenon, <1>1, <1>9, <2>6 DEF AtStart
    <3>2. QED
      BY Zenon, <1>1, <1>10, <2>4, <3>1 DEF AtStart
  <2>8. clean /\ linked => /\ SyncMode /\ Fresh(r) /\ ~Current(r, Len(toTerm) + 1)
                           /\ \A i \in 1 .. Len(toTerm) : Current(toTerm, i) =>
                                 /\ ~SyncRecv /\ NoneOf(toMacro, Datas)
                                 /\ Len(RingBuf) + toTerm[i].room <= RingBufSize
                           /\ SyncRecv => /\ NoneOf(toMacro, Datas)
                                          /\ Len(RingBuf) + SyncFreeSpace <= RingBufSize
    BY Zenon, <1>1, <1>9, <1>10, <2>4 DEF Turns
  <2>9. clean /\ linked => \A i \in 1 .. Len(r) : Current(r, i) =>
                                 /\ ~SyncRecv /\ NoneOf(toMacro, Datas)
                                 /\ Len(RingBuf) + r[i].room <= RingBufSize
    BY Zenon, <1>9, <2>8
  <2>10. Turns'
    BY Zenon, <1>7, <2>2, <2>8, <2>9 DEF Turns
  <2>11. QED
    BY Zenon, <1>4, <2>5, <2>7, <2>10 DEF Credit
<1>12. CASE MacroSync
  <2>1. MacroSync' = FALSE
    BY Zenon, <1>3, <1>12
  <2>2. room = 0 /\ e \in Offs
    BY Zenon, <1>7, <1>8, <2>1 DEF Offs
  <2>3. e \notin Ons
    BY Zenon, <2>2, OnIsNotOff
  <2>4. ~NoneOf(r, Offs) /\ Revoked(r)
    BY Zenon, <1>9, <1>10, <2>2
  <2>5. Agreed'
    BY Zenon, <1>7, <2>4 DEF Agreed
  <2>6. AtStart'
    <3>1. put = 0 /\ linked => \A i \in 1 .. Len(r) : r[i] \in Ons => r[i].room = RingBufSize
      BY Zenon, <1>1, <1>9, <2>3 DEF AtStart
    <3>2. QED
      BY Zenon, <1>1, <1>7, <1>10, <2>1, <2>3, <3>1 DEF AtStart
  <2>7. clean /\ linked => \A i \in 1 .. Len(r) : Current(r, i) =>
                                 /\ ~SyncRecv /\ NoneOf(toMacro, Datas)
                                 /\ Len(RingBuf) + r[i].room <= RingBufSize
    BY Zenon, <1>1, <1>9, <2>3 DEF Turns
  <2>8. Turns'
    BY Zenon, <1>1, <1>7, <1>10, <2>3, <2>4, <2>7 DEF Turns
  <2>9. QED
    BY Zenon, <1>4, <2>5, <2>6, <2>8 DEF Credit
<1>13. QED
  BY Zenon, <1>11, <1>12

(* The macro sends a command.                                              *)
LEMMA CreditAsks ==
    ASSUME LinkTypes, Credit, NEW e \in Asked, e \notin Ons, e \notin Offs,
           toTerm' = Append(toTerm, e),
           UNCHANGED << linked, MacroSync, SyncMode, SyncRecv, SyncFreeSpace, SyncSent,
                        toMacro, RingBuf, put, clean, readInOrder >>
    PROVE  Credit'
<1> DEFINE r == Append(toTerm, e)
<1>1. toTerm \in Seq(Asked)
  BY Zenon, CreditTypes
<1>2. r[Len(toTerm) + 1] = e /\ \A i \in 1 .. Len(toTerm) : r[i] = toTerm[i]
  BY <1>1, Queue
<1>3. /\ \A i \in 1 .. Len(toTerm) : Current(r, i) <=> Current(toTerm, i)
      /\ \A i \in 1 .. Len(r) : i \in 1 .. Len(toTerm) \/ i = Len(toTerm) + 1
      /\ Current(r, Len(toTerm) + 1) => e \in Ons /\ NoneOf(toTerm, Offs)
      /\ NoneOf(r, Offs) <=> NoneOf(toTerm, Offs)
      /\ NoneOf(r, Ons) <=> NoneOf(toTerm, Ons)
  BY Zenon, <1>1, QueueMore
<1>4. /\ Stale(toTerm) => Stale(r)
      /\ Fresh(toTerm) => Fresh(r)
      /\ Alternate(toTerm) => Alternate(r)
      /\ Revoked(toTerm) => Revoked(r)
  BY Zenon, <1>1, OffersMore
<1>5. toTerm' = r
  BY Zenon
<1> HIDE DEF r
<1>6. Agreed'
  BY Zenon, <1>3, <1>4, <1>5 DEF Credit, Agreed
<1>7. AtStart'
  <2>1. put = 0 /\ linked => \A i \in 1 .. Len(r) : r[i] \in Ons => r[i].room = RingBufSize
    BY Zenon, <1>2, <1>3 DEF Credit, AtStart
  <2>2. QED
    BY Zenon, <1>4, <1>5, <2>1 DEF Credit, AtStart
<1>8. Roomy'
  BY Zenon DEF Credit, Roomy
<1>9. Turns'
  <2>1. clean /\ linked => \A i \in 1 .. Len(r) : Current(r, i) =>
              /\ ~SyncRecv /\ NoneOf(toMacro, Datas)
              /\ Len(RingBuf) + r[i].room <= RingBufSize
    BY Zenon, <1>2, <1>3 DEF Credit, Turns
  <2>2. QED
    BY Zenon, <1>3, <1>4, <1>5, <2>1 DEF Credit, Turns
<1>10. QED
  BY Zenon, <1>6, <1>7, <1>8, <1>9 DEF Credit

(* The macro's own steps.                                                  *)
LEMMA CreditIdle == SyncInv /\ (OnIdle \/ Exec \/ Rests) => Credit'
<1> SUFFICES ASSUME SyncInv, OnIdle \/ Exec \/ Rests PROVE Credit'
  OBVIOUS
<1>1. LinkTypes /\ Credit /\ RunTypes
  BY Zenon DEF SyncInv, StreamInv, LinkTypes
<1>2. CASE OnIdle
  <2>1. /\ SendSync(Len(RingBuf))
        /\ UNCHANGED << linked, MacroSync, SyncMode, SyncRecv, SyncFreeSpace, toMacro, put, clean >>
        /\ Len(RingBuf') = Len(RingBuf) /\ readInOrder' = readInOrder
    BY Zenon, <1>2 DEF OnIdle, termVars, linkHistory
  <2>2. Len(RingBuf) \in 0 .. Len(RingBuf)
    <3>1. Len(RingBuf) \in Nat
      BY Zenon, <1>1, CreditTypes
    <3>2. QED
      BY <3>1
  <2>3. put = 0 /\ readInOrder => readInOrder'
    BY Zenon, <2>1
  <2>4. QED
    BY Zenon, <2>1, <2>2, <2>3, CreditSends
<1>3. CASE Rests
  <2>1. UNCHANGED << linked, MacroSync, SyncMode, SyncRecv, SyncFreeSpace, SyncSent,
                     toTerm, toMacro, RingBuf, put, clean, readInOrder >>
    BY Zenon, <1>3 DEF Rests, termVars, ringVars, linkHistory
  <2>2. QED
    BY Zenon, <1>1, <2>1, CreditKept
<1>4. CASE Exec
  <2>1. UNCHANGED << linked, SyncMode, SyncRecv, SyncFreeSpace, toMacro, RingBuf, put,
                     clean, readInOrder >>
    BY Zenon, <1>4 DEF Exec, termVars, linkHistory
  <2>2. CASE SetSync
    BY Zenon, <2>1, <2>2, CreditSetSync
  <2>3. CASE SendCmnd
    <3> DEFINE e == Ask("cmnd", issued', 0)
    <3>1. /\ issued < MaxCmnds /\ issued' = issued + 1
          /\ toTerm' = Append(toTerm, e)
          /\ UNCHANGED << MacroSync, SyncSent >>
      BY Zenon, <2>3 DEF SendCmnd
    <3>2. issued' \in 1 .. MaxCmnds /\ issued' \in Int
      BY <1>1, <3>1, Constants DEF RunTypes
    <3>3. 0 \in 0 .. RingBufSize /\ "cmnd" \in {"sync", "cmnd"} /\ "cmnd" # "sync"
      BY Constants
    <3>4. e \in Asked /\ e.kind = "cmnd"
      BY <3>2, <3>3, AskIsAsked
    <3> HIDE DEF e
    <3>5. e \notin Ons /\ e \notin Offs
      BY Zenon, <3>3, <3>4 DEF Ons, Offs
    <3>6. QED
      BY Zenon, <1>1, <2>1, <3>1, <3>4, <3>5, CreditAsks
  <2>4. CASE UNCHANGED << toTerm, MacroSync, SyncSent >>
    BY Zenon, <1>1, <2>1, <2>4, CreditKept
  <2>5. QED
    BY Zenon, <1>4, <2>2, <2>3, <2>4 DEF Exec, TTLWait
<1>5. QED
  BY Zenon, <1>2, <1>3, <1>4

(* A wait takes bytes out of the ring buffer.                              *)
LEMMA CreditWait == SyncInv /\ Wait => Credit'
<1> SUFFICES ASSUME SyncInv, Wait PROVE Credit'
  OBVIOUS
<1>1. LinkTypes /\ StreamInv
  BY Zenon DEF SyncInv, StreamInv
<1>2. RingBuf \in Seq(Unit) /\ Len(RingBuf) \in Nat
  BY Zenon, <1>1, CreditTypes
<1>3. UNCHANGED << linked, MacroSync, SyncMode, SyncRecv, SyncFreeSpace, toMacro, put, clean >>
  BY Zenon DEF Wait, termVars
<1>4. PICK n \in 0 .. Len(RingBuf), found \in BOOLEAN :
        /\ LET bytes == IF n > 0 /\ IsQuote(n) THEN n - 1 ELSE n
           IN  readInOrder' = (readInOrder /\ \A i \in 1 .. bytes :
                     RingBuf[i] = << read + i, IF i = 1 /\ QuoteFlag THEN "low" ELSE "raw" >>)
        /\ RingBuf' = SubSeq(RingBuf, n + 1, Len(RingBuf))
        /\ SendSync(Len(RingBuf) - n)
  BY Zenon DEF Wait
<1> DEFINE bytes == IF n > 0 /\ IsQuote(n) THEN n - 1 ELSE n
           k == Len(RingBuf) - n
<1>5. readInOrder' = (readInOrder /\ \A i \in 1 .. bytes :
          RingBuf[i] = << read + i, IF i = 1 /\ QuoteFlag THEN "low" ELSE "raw" >>)
  BY Zenon, <1>4
<1>6. k \in 0 .. Len(RingBuf) /\ n \in Nat /\ n <= Len(RingBuf)
  BY <1>2
<1>7. Len(RingBuf') = k
  BY <1>2, <1>4, Dropped
<1>8. put = 0 /\ readInOrder => readInOrder'
  <2> SUFFICES ASSUME put = 0, readInOrder PROVE readInOrder'
    OBVIOUS
  <2>1. RingBuf = << >>
    BY Zenon, <1>1, NothingAhead
  <2>2. ~(n > 0) /\ n = 0
    BY <1>6, <2>1
  <2>3. bytes = 0
    BY Zenon, <2>2
  <2> HIDE DEF bytes
  <2>4. \A i \in 1 .. bytes : FALSE
    BY <2>3
  <2>5. QED
    BY Zenon, <1>5, <2>4
<1>9. SendSync(k)
  BY Zenon, <1>4
<1> HIDE DEF k, bytes
<1>10. QED
  BY Zenon, <1>3, <1>6, <1>7, <1>8, <1>9, CreditSends
-----------------------------------------------------------------------------
(* Exact is inductive.                                                     *)

(* Steps that do not move the bytes.                                       *)
LEMMA ExactKept ==
    ASSUME Exact, Ahead' = Ahead, QuoteFlag' = QuoteFlag,
           clean' => clean \/ (readInOrder /\ Ahead = << >> /\ read = put - dcount),
           linked' => linked /\ put' - dcount' = put - dcount,
           UNCHANGED << read, readInOrder >>
    PROVE  Exact'
BY Zenon DEF Exact

(* The host sends.                                                         *)
LEMMA ExactDDEPut1 == SyncInv /\ DDEPut1 => Exact'
<1>1. SyncInv => Exact /\ StreamInv
  BY Zenon DEF SyncInv
<1>2. DDEPut1 => UNCHANGED << QuoteFlag, clean, linked, read, readInOrder >>
  BY Zenon DEF DDEPut1, ringVars, linkHistory
<1>3. SyncInv /\ DDEPut1 => Ahead' = Ahead /\ put' - dcount' = put - dcount
  BY Zenon, <1>1, StreamDDEPut1
<1>4. SUFFICES ASSUME SyncInv, DDEPut1 PROVE Exact'
  OBVIOUS
<1>5. /\ Exact /\ Ahead' = Ahead /\ put' - dcount' = put - dcount
      /\ UNCHANGED << QuoteFlag, clean, linked, read, readInOrder >>
  BY Zenon, <1>1, <1>2, <1>3, <1>4
<1>6. QED
  BY Zenon, <1>5, ExactKept

(* Tera Term sends.                                                        *)
LEMMA ExactDDEAdv == SyncInv /\ DDEAdv => Exact'
<1> SUFFICES ASSUME SyncInv, DDEAdv PROVE Exact'
  OBVIOUS
<1> DEFINE s == Ahead
           e == put - dcount
<1>1. Exact /\ StreamInv /\ LinkTypes /\ StreamOK
  BY Zenon DEF SyncInv, StreamInv
<1>2. linked /\ UNCHANGED << QuoteFlag, clean, linked, read, readInOrder >>
  BY Zenon DEF DDEAdv, ringVars, linkHistory
<1>3. PICK w \in Seq(Unit), n \in Nat :
        /\ Ahead' = Ahead \o w /\ put' - dcount' = put - dcount + n
        /\ n = 0 => w = << >>
        /\ n > 0 => w # << >> /\ w[1][1] = put - dcount + 1 /\ w[1][2] # "low"
  BY Zenon, <1>1, StreamDDEAdv DEF Follows
<1>4. s \in Seq(Unit) /\ RingBuf \in Seq(Unit) /\ Flight(toMacro) \in Seq(Unit) /\ e \in Nat
  BY Zenon, <1>1, AheadTypes
<1>5. CASE n = 0
  <2>1. s \o << >> = s
    BY <1>4
  <2>2. put' - dcount' = put - dcount
    <3> HIDE DEF s
    <3>1. e + n = e
      BY <1>4, <1>5
    <3>2. QED
      BY Zenon, <1>3, <3>1
  <2>3. Ahead' = Ahead
    BY Zenon, <1>3, <1>5, <2>1
  <2>4. QED
    BY Zenon, <1>1, <1>2, <2>2, <2>3, ExactKept
<1>6. CASE n # 0
  <2> DEFINE t == s \o w
  <2>1. n > 0
    BY <1>6
  <2>2. /\ Len(t) = Len(s) + Len(w) /\ t \in Seq(Unit) /\ Len(s) \in Nat /\ Len(w) \in Nat
        /\ \A i \in 1 .. Len(s) : t[i] = s[i]
        /\ \A i \in 1 .. Len(w) : t[Len(s) + i] = w[i]
    BY <1>4, Joined
  <2>3. w # << >> /\ w[1][1] = e + 1 /\ w[1][2] # "low"
    BY Zenon, <1>3, <2>1
  <2> HIDE DEF t, e
  <2>4. Len(w) > 0
    BY <2>3
  <2>5. t # << >>
    BY <2>2, <2>4
  <2>6. s # << >> => t[1] = s[1]
    BY <1>4, <2>2
  <2>7. s = << >> => t[1] = w[1]
    BY <2>2, <2>4
  <2>8. s = << >> => ~QuoteFlag
    <3>1. \A p, q \in Seq(Unit) : p \o q = << >> => p = << >>
      OBVIOUS
    <3>2. s = << >> => RingBuf = << >>
      BY Zenon, <1>4, <3>1 DEF Ahead
    <3>3. QED
      BY Zenon, <1>1, <3>2 DEF StreamOK
  <2>9. clean => /\ readInOrder
                 /\ s # << >> => s[1][1] = read + 1 /\ (QuoteFlag <=> s[1][2] = "low")
                 /\ s = << >> => read = e
    BY Zenon, <1>1, <1>2 DEF Exact, e
  <2>10. clean => t[1][1] = read + 1 /\ (QuoteFlag <=> t[1][2] = "low")
    BY Zenon, <2>3, <2>6, <2>7, <2>8, <2>9
  <2>11. Ahead' = t
    BY Zenon, <1>3 DEF t
  <2>12. QED
    BY Zenon, <1>2, <2>5, <2>9, <2>10, <2>11 DEF Exact
<1>7. QED
  BY Zenon, <1>5, <1>6

(* Tera Term carries out a request, tells the end of a command, or ends;   *)
(* sync mode may start before the first byte.                              *)
LEMMA ExactTerm == SyncInv /\ (AcceptExecute \/ EndDdeCmnd \/ EndDDE) => Exact'
<1> SUFFICES ASSUME SyncInv, AcceptExecute \/ EndDdeCmnd \/ EndDDE PROVE Exact'
  OBVIOUS
<1>1. Exact /\ StreamInv /\ AtStart /\ LinkTypes
  BY Zenon DEF SyncInv, Credit, StreamInv
<1>2. Ahead' = Ahead
  BY Zenon, <1>1, StreamTerm
<1>3. UNCHANGED << QuoteFlag, read, readInOrder >>
  <2>1. CASE AcceptExecute
    BY Zenon, <2>1 DEF AcceptExecute, ringVars
  <2>2. CASE EndDdeCmnd
    BY Zenon, <2>2 DEF EndDdeCmnd, ringVars, linkHistory
  <2>3. CASE EndDDE
    BY Zenon, <2>3 DEF EndDDE, ringVars, linkHistory
  <2>4. QED
    BY Zenon, <2>1, <2>2, <2>3
<1>4. linked' => linked /\ put' - dcount' = put - dcount
  <2>1. CASE AcceptExecute
    BY Zenon, <2>1 DEF AcceptExecute
  <2>2. CASE EndDdeCmnd
    BY Zenon, <2>2 DEF EndDdeCmnd
  <2>3. CASE EndDDE
    BY Zenon, <2>3 DEF EndDDE
  <2>4. QED
    BY Zenon, <2>1, <2>2, <2>3
<1>5. clean' => clean \/ (linked /\ put = 0)
  <2>1. CASE AcceptExecute
    <3> DEFINE c == Head(toTerm)
    <3>1. linked /\ (CmdSetSync(c) \/ CmdStart(c))
      BY Zenon, <2>1 DEF AcceptExecute
    <3>2. CASE CmdSetSync(c)
      <4>1. clean' = (c.room > 0 /\ (clean \/ put = 0))
        BY Zenon, <3>2 DEF CmdSetSync
      <4>2. clean' => clean \/ put = 0
        BY Zenon, <4>1
      <4>3. QED
        BY Zenon, <3>1, <4>2
    <3>3. CASE CmdStart(c)
      BY Zenon, <3>3 DEF CmdStart
    <3>4. QED
      BY Zenon, <3>1, <3>2, <3>3
  <2>2. CASE EndDdeCmnd
    BY Zenon, <2>2 DEF EndDdeCmnd, linkHistory
  <2>3. CASE EndDDE
    BY Zenon, <2>3 DEF EndDDE, linkHistory
  <2>4. QED
    BY Zenon, <2>1, <2>2, <2>3
<1>6. linked /\ put = 0 => readInOrder /\ Ahead = << >> /\ read = put - dcount
  <2>1. linked /\ put = 0 => readInOrder /\ Ahead = << >> /\ read = 0 /\ dcount = 0
    BY Zenon, <1>1, NothingAhead DEF AtStart
  <2>2. 0 - 0 = 0
    OBVIOUS
  <2>3. QED
    BY Zenon, <2>1, <2>2
<1>7. QED
  BY Zenon, <1>1, <1>2, <1>3, <1>4, <1>5, <1>6, ExactKept

(* The macro handles a message; data fits.                                 *)
LEMMA ExactDispatch == SyncInv /\ Dispatch => Exact'
<1> SUFFICES ASSUME SyncInv, Dispatch PROVE Exact'
  OBVIOUS
<1>1. Exact /\ StreamInv /\ Roomy /\ LinkTypes
  BY Zenon DEF SyncInv, Credit, StreamInv
<1>2. /\ toMacro # << >>
      /\ UNCHANGED << linked, put, dcount, read, readInOrder, clean >>
  BY Zenon DEF Dispatch, termVars
<1>3. toMacro \in Seq(Told)
  BY Zenon, <1>1, CreditTypes
<1>4. Head(toMacro) = toMacro[1] /\ 1 \in 1 .. Len(toMacro)
  BY <1>2, <1>3, Queue
<1>5. clean => Len(RingBuf) + Len(Head(toMacro).data) <= RingBufSize
  BY Zenon, <1>1, <1>4 DEF Roomy, Fitting
<1>6. clean => Ahead' = Ahead /\ QuoteFlag' = QuoteFlag
  BY Zenon, <1>1, <1>5, StreamDispatch
<1>7. CASE clean
  BY Zenon, <1>1, <1>2, <1>6, <1>7, ExactKept
<1>8. CASE ~clean
  BY Zenon, <1>2, <1>8 DEF Exact
<1>9. QED
  BY Zenon, <1>7, <1>8

(* What Wait takes, the reader being just before the run: the next bytes.  *)
LEMMA TakingNext ==
    ASSUME NEW s \in Seq(Unit), NEW n \in 1 .. Len(s), NEW flag \in BOOLEAN, NEW r \in Nat
    PROVE  LET bytes == IF s[n][2] = "quote" /\ ~(n = 1 /\ flag) THEN n - 1 ELSE n IN
           /\ Chained(s) /\ Closed(s)
           /\ s[1][1] = r + 1 /\ (flag <=> s[1][2] = "low")
           /\ \A i \in 1 .. n - 1 : ~(s[i][2] = "quote" /\ ~(i = 1 /\ flag))
           =>
           /\ bytes \in Nat /\ bytes <= n
           /\ \A i \in 1 .. bytes : s[i] = << r + i, IF i = 1 /\ flag THEN "low" ELSE "raw" >>
           /\ n < Len(s) => s[n + 1][1] = r + bytes + 1 /\ ((bytes < n) <=> s[n + 1][2] = "low")
           /\ n = Len(s) => s[n][1] = r + bytes
<1> DEFINE d == IF flag /\ s[1][2] = "quote" THEN 1 ELSE 0
           bytes == IF s[n][2] = "quote" /\ ~(n = 1 /\ flag) THEN n - 1 ELSE n
           Runs == Chained(s) /\ (\A i \in 1 .. n - 1 : ~(s[i][2] = "quote" /\ ~(i = 1 /\ flag)))
           Took == /\ bytes \in Nat /\ d <= bytes
                   /\ \A i \in 1 .. bytes : /\ i > 1 => s[i][1] = s[1][1] + i - 1 - d
                                            /\ i > 1 /\ d = 0 => s[i][2] = "raw"
                   /\ n < Len(s) => /\ s[n + 1][1] = s[1][1] + bytes - d
                                    /\ s[n + 1][2] = "low" <=> s[n][2] = "quote"
                   /\ s[n][2] # "quote" => bytes = n /\ s[n][1] = s[1][1] + bytes - d - 1
           Reads == /\ bytes \in Nat /\ bytes <= n
                    /\ \A i \in 1 .. bytes : s[i] = << r + i, IF i = 1 /\ flag THEN "low" ELSE "raw" >>
                    /\ n < Len(s) => s[n + 1][1] = r + bytes + 1 /\ ((bytes < n) <=> s[n + 1][2] = "low")
                    /\ n = Len(s) => s[n][1] = r + bytes
<1>0. Runs => Took
  BY Taking
<1> SUFFICES ASSUME Chained(s), Closed(s), s[1][1] = r + 1, flag <=> s[1][2] = "low",
                    \A i \in 1 .. n - 1 : ~(s[i][2] = "quote" /\ ~(i = 1 /\ flag))
             PROVE  Reads
  BY Zenon
<1>1. Took
  BY Zenon, <1>0
<1>2. "quote" # "low" /\ "raw" # "low" /\ "raw" # "quote"
  OBVIOUS
<1>3. d = 0
  BY Zenon, <1>2
<1>4. bytes = IF s[n][2] = "quote" THEN n - 1 ELSE n
  <2>1. n = 1 /\ flag => s[n][2] # "quote"
    BY Zenon, <1>2
  <2>2. QED
    BY Zenon, <2>1
<1>5. n \in Nat /\ n >= 1 /\ n <= Len(s) /\ Len(s) \in Nat
  OBVIOUS
<1>6. bytes >= 1 => s[1][2] # "quote"
  <2> SUFFICES ASSUME bytes >= 1, s[1][2] = "quote" PROVE FALSE
    OBVIOUS
  <2>1. ~flag
    BY Zenon, <1>2
  <2> DEFINE q == s[n][2] = "quote"
  <2>2. n # 1
    <3> SUFFICES ASSUME n = 1 PROVE FALSE
      OBVIOUS
    <3>1. q
      BY Zenon
    <3>2. bytes = n - 1
      BY Zenon, <1>4, <3>1
    <3> HIDE DEF bytes, q
    <3>3. QED
      BY <3>2
  <2>3. 1 \in 1 .. n - 1
    BY <1>5, <2>2
  <2>4. QED
    BY Zenon, <2>1, <2>3
<1> HIDE DEF bytes, d
<1>7. bytes <= n /\ ((bytes < n) <=> s[n][2] = "quote")
  <2> DEFINE q == s[n][2] = "quote"
  <2>1. bytes = IF q THEN n - 1 ELSE n
    BY Zenon, <1>4
  <2> HIDE DEF q
  <2>2. bytes <= n /\ ((bytes < n) <=> q)
    BY <1>5, <2>1
  <2>3. QED
    BY Zenon, <2>2 DEF q
<1>8. ASSUME NEW i \in 1 .. bytes
      PROVE  s[i] = << r + i, IF i = 1 /\ flag THEN "low" ELSE "raw" >>
  <2>1. i \in 1 .. Len(s) /\ i \in Nat /\ i >= 1 /\ bytes >= 1
    BY <1>1, <1>5, <1>7
  <2>2. s[i] \in Unit /\ s[1] \in Unit
    BY <1>5, <2>1
  <2>3. /\ s[i] = << s[i][1], s[i][2] >> /\ s[1] = << s[1][1], s[1][2] >>
        /\ s[1][2] \in {"raw", "quote", "low"}
    BY Zenon, <2>2, UnitParts
  <2>4. CASE i = 1
    <3>1. s[1][2] = IF flag THEN "low" ELSE "raw"
      <4>1. s[1][2] = "raw" \/ s[1][2] = "quote" \/ s[1][2] = "low"
        BY <2>3
      <4>2. QED
        BY Zenon, <1>6, <2>1, <4>1
    <3>2. QED
      BY Zenon, <2>3, <2>4, <3>1
  <2>5. CASE i # 1
    <3>1. i > 1
      BY <2>1, <2>5
    <3>2. s[i][1] = s[1][1] + i - 1 - d /\ s[i][2] = "raw"
      BY Zenon, <1>1, <1>3, <3>1
    <3>3. s[i][1] = r + i
      BY <1>3, <2>1, <3>2
    <3>4. QED
      BY Zenon, <2>3, <2>5, <3>2, <3>3
  <2>6. QED
    BY Zenon, <2>4, <2>5
<1>9. ASSUME n < Len(s)
      PROVE  s[n + 1][1] = r + bytes + 1 /\ ((bytes < n) <=> s[n + 1][2] = "low")
  <2>1. s[n + 1][1] = s[1][1] + bytes - d
    BY Zenon, <1>1, <1>9
  <2>2. s[n + 1][1] = r + bytes + 1
    BY <1>1, <1>3, <2>1
  <2>3. QED
    BY Zenon, <1>1, <1>7, <1>9, <2>2
<1>10. ASSUME n = Len(s) PROVE s[n][1] = r + bytes
  <2>1. s # << >> /\ s[Len(s)][2] # "quote"
    <3>1. s # << >>
      BY <1>5
    <3>2. QED
      BY Zenon, <3>1 DEF Closed
  <2>2. s[n][1] = s[1][1] + bytes - d - 1
    BY Zenon, <1>1, <1>10, <2>1
  <2>3. QED
    BY <1>1, <1>3, <2>2
<1>11. QED
  BY Zenon, <1>1, <1>7, <1>8, <1>9, <1>10 DEF bytes

(* The macro reads bytes.                                                  *)
LEMMA ExactWait == SyncInv /\ Wait => Exact'
<1> SUFFICES ASSUME SyncInv, Wait, clean' PROVE Exact'
  BY Zenon DEF Exact
<1>1. Exact /\ StreamInv /\ LinkTypes /\ StreamOK
  BY Zenon DEF SyncInv, StreamInv
<1>2. clean /\ UNCHANGED << toMacro, put, dcount, linked >>
  BY Zenon DEF Wait, termVars
<1>3. PICK n \in 0 .. Len(RingBuf), found \in BOOLEAN :
        /\ WaitTakes(n, found)
        /\ LET bytes == IF n > 0 /\ IsQuote(n) THEN n - 1 ELSE n
           IN  /\ read' = read + bytes
               /\ readInOrder' = (readInOrder /\ \A i \in 1 .. bytes :
                     RingBuf[i] = << read + i, IF i = 1 /\ QuoteFlag THEN "low" ELSE "raw" >>)
               /\ QuoteFlag' = IF n = 0 THEN QuoteFlag ELSE bytes < n
        /\ RingBuf' = SubSeq(RingBuf, n + 1, Len(RingBuf))
  BY Zenon DEF Wait
<1> DEFINE bytes == IF n > 0 /\ IsQuote(n) THEN n - 1 ELSE n
           s == Ahead
           fl == Flight(toMacro)
           e == put - dcount
<1>4. /\ read' = read + bytes
      /\ readInOrder' = (readInOrder /\ \A i \in 1 .. bytes :
              RingBuf[i] = << read + i, IF i = 1 /\ QuoteFlag THEN "low" ELSE "raw" >>)
      /\ QuoteFlag' = IF n = 0 THEN QuoteFlag ELSE bytes < n
  BY Zenon, <1>3
<1>5. \A i \in 1 .. n - 1 : ~IsQuote(i)
  BY Zenon, <1>3 DEF WaitTakes
<1>6. /\ s \in Seq(Unit) /\ RingBuf \in Seq(Unit) /\ toMacro \in Seq(Told)
      /\ fl \in Seq(Unit) /\ e \in Nat /\ read \in Nat /\ QuoteFlag \in BOOLEAN
  BY Zenon, <1>1, AheadTypes
<1>7. s = RingBuf \o fl /\ UNCHANGED << fl, e >>
  BY Zenon, <1>2 DEF Ahead
<1>8. /\ Chained(s) /\ Closed(s) /\ readInOrder
      /\ s # << >> => /\ linked => s[Len(s)][1] = e
                      /\ s[1][1] = read + 1
                      /\ QuoteFlag <=> s[1][2] = "low"
      /\ s = << >> /\ linked => read = e
  BY Zenon, <1>1, <1>2 DEF StreamOK, Exact
<1>9. /\ n \in Nat /\ Len(RingBuf) \in Nat /\ n <= Len(RingBuf) /\ Len(s) \in Nat
      /\ Len(RingBuf) <= Len(s) /\ \A i \in 1 .. Len(RingBuf) : s[i] = RingBuf[i]
  <2> HIDE DEF fl, s
  <2>1. QED
    BY <1>6, <1>7, Joined
<1>10. Ahead' = SubSeq(s, n + 1, Len(s))
  <2> HIDE DEF fl, s
  <2>1. SubSeq(RingBuf \o fl, n + 1, Len(RingBuf \o fl)) = SubSeq(RingBuf, n + 1, Len(RingBuf)) \o fl
    BY <1>6, <1>9, CutConcat
  <2>2. Ahead' = RingBuf' \o fl
    BY Zenon, <1>2 DEF Ahead, fl
  <2>3. QED
    BY Zenon, <1>3, <1>7, <2>1, <2>2
<1>11. CASE n = 0
  <2>1. bytes = 0
    BY <1>11
  <2> HIDE DEF bytes
  <2>2. /\ SubSeq(RingBuf, 1, Len(RingBuf)) = RingBuf /\ n + 1 = 1 /\ read + 0 = read
        /\ \A i \in 1 .. bytes : FALSE
    BY <1>6, <1>11, <2>1
  <2>3. readInOrder'
    BY Zenon, <1>4, <1>8, <2>2
  <2>4. read' = read /\ QuoteFlag' = QuoteFlag /\ RingBuf' = RingBuf
    BY Zenon, <1>3, <1>4, <1>11, <2>1, <2>2
  <2>5. Ahead' = Ahead
    BY Zenon, <1>2, <2>4 DEF Ahead
  <2>6. QED
    BY Zenon, <1>1, <1>2, <2>3, <2>4, <2>5 DEF Exact
<1>12. CASE n > 0
  <2> DEFINE t == SubSeq(s, n + 1, Len(s))
  <2>1. /\ n \in 1 .. Len(s) /\ n \in 0 .. Len(s) /\ n \in 1 .. Len(RingBuf)
        /\ \A i \in 1 .. n - 1 : i \in 1 .. Len(RingBuf)
    BY <1>9, <1>12
  <2>2. s # << >>
    BY <1>6, <1>9, <1>12
  <2>3. /\ \A i \in 1 .. n - 1 : ~(s[i][2] = "quote" /\ ~(i = 1 /\ QuoteFlag))
        /\ bytes = IF s[n][2] = "quote" /\ ~(n = 1 /\ QuoteFlag) THEN n - 1 ELSE n
        /\ QuoteFlag' = (bytes < n)
    <3>1. \A i \in 1 .. Len(RingBuf) :
             IsQuote(i) <=> s[i][2] = "quote" /\ ~(i = 1 /\ QuoteFlag)
      BY Zenon, <1>9 DEF IsQuote
    <3>2. n # 0
      BY <1>12
    <3>3. QED
      BY Zenon, <1>4, <1>5, <1>12, <2>1, <3>1, <3>2
  <2> HIDE DEF s, bytes, fl, e
  <2>4. /\ bytes \in Nat /\ bytes <= n
        /\ \A i \in 1 .. bytes : s[i] = << read + i, IF i = 1 /\ QuoteFlag THEN "low" ELSE "raw" >>
        /\ n < Len(s) => s[n + 1][1] = read + bytes + 1 /\ ((bytes < n) <=> s[n + 1][2] = "low")
        /\ n = Len(s) => s[n][1] = read + bytes
    <3>1. PICK t0, n0, f0, r0 : t0 = s /\ n0 = n /\ f0 = QuoteFlag /\ r0 = read
      BY Zenon
    <3> DEFINE b == IF t0[n0][2] = "quote" /\ ~(n0 = 1 /\ f0) THEN n0 - 1 ELSE n0
    <3>2. t0 \in Seq(Unit) /\ n0 \in 1 .. Len(t0) /\ f0 \in BOOLEAN /\ r0 \in Nat
      BY Zenon, <1>6, <1>8, <2>1, <3>1
    <3>3. Chained(t0) /\ Closed(t0)
      BY Zenon, <1>6, <1>8, <2>2, <3>1
    <3>4. t0[1][1] = r0 + 1 /\ (f0 <=> t0[1][2] = "low")
      BY Zenon, <1>6, <1>8, <2>2, <3>1
    <3>5. \A i \in 1 .. n0 - 1 : ~(t0[i][2] = "quote" /\ ~(i = 1 /\ f0))
      BY Zenon, <2>3, <3>1
    <3>6. /\ b \in Nat /\ b <= n0
          /\ \A i \in 1 .. b : t0[i] = << r0 + i, IF i = 1 /\ f0 THEN "low" ELSE "raw" >>
          /\ n0 < Len(t0) => t0[n0 + 1][1] = r0 + b + 1 /\ ((b < n0) <=> t0[n0 + 1][2] = "low")
          /\ n0 = Len(t0) => t0[n0][1] = r0 + b
      BY <3>2, <3>3, <3>4, <3>5, TakingNext
    <3>7. bytes = b
      BY Zenon, <2>3, <3>1
    <3> HIDE DEF b
    <3>8. QED
      BY Zenon, <3>1, <3>6, <3>7
  <2>5. \A i \in 1 .. bytes : i \in 1 .. Len(RingBuf)
    BY <1>9, <2>4
  <2>6. readInOrder'
    BY Zenon, <1>4, <1>8, <1>9, <2>4, <2>5
  <2>7. /\ t \in Seq(Unit)
        /\ t = << >> => n = Len(s)
        /\ t # << >> => n < Len(s) /\ t[1] = s[n + 1]
    BY Zenon, <1>6, <1>8, <2>1, RunDrops
  <2> HIDE DEF t
  <2>8. t # << >> => t[1][1] = read' + 1 /\ (QuoteFlag' <=> t[1][2] = "low")
    BY Zenon, <1>4, <2>3, <2>4, <2>7
  <2>9. t = << >> /\ linked => read' = e
    BY Zenon, <1>4, <1>8, <2>2, <2>4, <2>7
  <2>10. Ahead' = t
    BY Zenon, <1>10 DEF t
  <2>11. t = << >> /\ linked' => read' = put' - dcount'
    BY Zenon, <1>2, <2>9 DEF e
  <2>12. QED
    BY Zenon, <2>6, <2>8, <2>10, <2>11 DEF Exact
<1>13. QED
  BY <1>9, <1>11, <1>12

(* At the start nothing is ahead and nothing was offered.                  *)
LEMMA SyncInit == LinkInit => SyncInv
<1> SUFFICES ASSUME LinkInit PROVE SyncInv
  OBVIOUS
<1>1. FitsInv /\ StreamInv
  BY Zenon, FitsInit, StreamInit
<1>2. /\ toTerm = << >> /\ toMacro = << >> /\ ~SyncMode /\ ~MacroSync /\ ~clean /\ readInOrder
  BY Zenon DEF LinkInit
<1>3. \A i \in 1 .. Len(<< >>) : FALSE
  OBVIOUS
<1>4. Agreed /\ AtStart
  BY Zenon, <1>2, <1>3 DEF Agreed, AtStart, Revoked, NoneOf, Alternate
<1>5. Roomy /\ Turns /\ Exact
  BY Zenon, <1>2 DEF Roomy, Turns, Exact
<1>6. QED
  BY Zenon, <1>1, <1>4, <1>5 DEF SyncInv, Credit

(* SyncInv is inductive.                                                   *)
LEMMA SyncStep == SyncInv /\ [LinkNext]_linkVars => SyncInv'
<1> SUFFICES ASSUME SyncInv, [LinkNext]_linkVars PROVE SyncInv'
  OBVIOUS
<1>1. FitsInv' /\ StreamInv'
  BY Zenon, FitsStep, StreamStep DEF SyncInv
<1>2. Credit /\ Exact
  BY Zenon DEF SyncInv
<1>3. \/ DDEPut1 \/ DDEAdv \/ AcceptExecute \/ EndDdeCmnd \/ EndDDE \/ Dispatch \/ Wait
      \/ GiveUp \/ OnTimer \/ OnIdle \/ Exec \/ Rests \/ UNCHANGED linkVars
  BY Zenon DEF LinkNext, MacroIdle
<1>4. ASSUME GiveUp \/ OnTimer \/ UNCHANGED linkVars
      PROVE  Credit'
  <2>1. UNCHANGED << linked, MacroSync, SyncMode, SyncRecv, SyncFreeSpace, SyncSent,
                     toTerm, toMacro, RingBuf, put, clean, readInOrder >>
    <3>1. CASE GiveUp \/ OnTimer
      BY Zenon, <3>1 DEF GiveUp, OnTimer, termVars, ringVars, linkHistory
    <3>2. CASE UNCHANGED linkVars
      BY Zenon, <3>2 DEF linkVars, termVars, ringVars, linkHistory
    <3>3. QED
      BY Zenon, <1>4, <3>1, <3>2
  <2>2. QED
    BY Zenon, <1>2, <2>1, CreditKept
<1>5. ASSUME GiveUp \/ OnTimer \/ OnIdle \/ Exec \/ Rests \/ UNCHANGED linkVars
      PROVE  Exact'
  <2>1. UNCHANGED << toMacro, RingBuf, QuoteFlag, read, readInOrder, clean, put, dcount, linked >>
    <3>1. CASE GiveUp \/ OnTimer
      BY Zenon, <3>1 DEF GiveUp, OnTimer, termVars, ringVars, linkHistory
    <3>2. CASE OnIdle
      BY Zenon, <3>2 DEF OnIdle, termVars, linkHistory
    <3>3. CASE Exec
      BY Zenon, <3>3 DEF Exec, termVars, linkHistory
    <3>4. CASE Rests
      BY Zenon, <3>4 DEF Rests, termVars, ringVars, linkHistory
    <3>5. CASE UNCHANGED linkVars
      BY Zenon, <3>5 DEF linkVars, termVars, ringVars, linkHistory
    <3>6. QED
      BY Zenon, <1>5, <3>1, <3>2, <3>3, <3>4, <3>5
  <2>2. Ahead' = Ahead
    BY Zenon, <2>1 DEF Ahead
  <2>3. QED
    BY Zenon, <1>2, <2>1, <2>2, ExactKept
<1>6. Credit'
  BY Zenon, <1>3, <1>4, CreditDDEPut1, CreditDDEAdv, CreditTerm, CreditDispatch, CreditIdle, CreditWait
<1>7. Exact'
  BY Zenon, <1>3, <1>5, ExactDDEPut1, ExactDDEAdv, ExactTerm, ExactDispatch, ExactWait
<1>8. QED
  BY Zenon, <1>1, <1>6, <1>7 DEF SyncInv

(* Bytes are only added and only read.                                     *)
LEMMA LinkOnward == SyncInv /\ [LinkNext]_linkVars => put' >= put /\ read' >= read
<1> SUFFICES ASSUME SyncInv, [LinkNext]_linkVars PROVE put' >= put /\ read' >= read
  OBVIOUS
<1>1. put \in Nat /\ read \in Nat /\ RingBuf \in Seq(Unit)
  BY Zenon, AheadTypes DEF SyncInv, StreamInv
<1>2. put >= put /\ read >= read
  BY <1>1
<1>3. CASE DDEPut1
  <2>1. PICK n \in 1 .. PutMax : put' = put + n
    BY Zenon, <1>3 DEF DDEPut1
  <2>2. put' >= put
    BY <1>1, <2>1
  <2>3. QED
    BY Zenon, <1>2, <1>3, <2>2 DEF DDEPut1, linkHistory
<1>4. CASE Wait
  <2>1. PICK n \in 0 .. Len(RingBuf) :
           read' = read + (IF n > 0 /\ IsQuote(n) THEN n - 1 ELSE n)
    BY Zenon, <1>4 DEF Wait
  <2> DEFINE q == IsQuote(n)
  <2>2. read' = read + (IF n > 0 /\ q THEN n - 1 ELSE n)
    BY Zenon, <2>1
  <2>3. n \in Nat
    BY <1>1
  <2> HIDE DEF q
  <2>4. read' >= read
    BY <1>1, <2>2, <2>3
  <2>5. QED
    BY Zenon, <1>2, <1>4, <2>4 DEF Wait, termVars
<1>5. CASE DDEAdv \/ AcceptExecute \/ EndDdeCmnd \/ EndDDE
  BY Zenon, <1>2, <1>5 DEF DDEAdv, AcceptExecute, EndDdeCmnd, EndDDE, linkHistory
<1>6. CASE Dispatch \/ GiveUp \/ OnTimer \/ OnIdle \/ Exec \/ Rests
  BY Zenon, <1>2, <1>6 DEF Dispatch, GiveUp, OnTimer, OnIdle, Exec, Rests, termVars, linkHistory
<1>7. CASE UNCHANGED linkVars
  BY Zenon, <1>2, <1>7 DEF linkVars, termVars, linkHistory
<1>8. QED
  BY Zenon, <1>3, <1>4, <1>5, <1>6, <1>7 DEF LinkNext, MacroIdle

(* In sync mode the link is a byte stream, whatever the sizes of the two   *)
(* buffers and of the bursts of the host: with sync mode on since before   *)
(* the first byte, the macro reads what the host sent (ttdde.c DDEAdv,     *)
(* AcceptRequest; ttmdde.c AcceptData, Read1Byte, SetSync, SendSync).      *)
THEOREM SyncImplementsStream == LinkSpec => SyncIsStream
<1>0. StreamInv' => (read \in 0 .. put)'
  BY ReadBehindPut, PTL
<1>1. LinkInit => Received!Init
  <2> SUFFICES ASSUME LinkInit PROVE Received!Init
    OBVIOUS
  <2>1. put = 0 /\ read = 0 /\ (clean => readInOrder)
    BY Zenon DEF LinkInit
  <2>2. (clean => readInOrder) = TRUE
    BY Zenon, <2>1
  <2>3. QED
    BY Zenon, <2>1, <2>2 DEF Received!Init
<1>2. SyncInv /\ SyncInv' /\ [LinkNext]_linkVars => [Received!Move]_(Received!stream)
  <2> SUFFICES ASSUME SyncInv, SyncInv', [LinkNext]_linkVars PROVE Received!Move
    BY Zenon
  <2>1. put' >= put /\ read' >= read
    BY Zenon, LinkOnward
  <2>2. read' <= put'
    <3>1. (read \in 0 .. put)'
      BY Zenon, <1>0 DEF SyncInv
    <3>2. put' \in 0 .. MaxPut
      BY Zenon DEF SyncInv, StreamInv, LinkTypes, TermTypes
    <3>3. QED
      BY <3>1, <3>2, Constants
  <2>3. (clean => readInOrder) /\ (clean' => readInOrder')
    BY Zenon DEF SyncInv, Exact
  <2>4. (clean' => readInOrder') = (clean => readInOrder)
    BY Zenon, <2>3
  <2>5. QED
    BY Zenon, <2>1, <2>2, <2>4 DEF Received!Move
<1>3. SyncInv /\ [LinkNext]_linkVars => SyncInv'
  BY Zenon, SyncStep
<1>4. LinkSpec => []SyncInv
  BY SyncInit, <1>3, PTL DEF LinkSpec
<1>5. QED
  BY <1>1, <1>2, <1>4, PTL DEF LinkSpec, SyncIsStream, Received!Spec
=============================================================================
