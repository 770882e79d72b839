------------------------- MODULE FwdChannels_proof -------------------------
(***************************************************************************)
(* Proofs about FwdChannels, for every limit of channels, every number of  *)
(* addresses, of connections and of packets under way.                     *)
(***************************************************************************)
EXTENDS FwdChannels, FiniteSetTheorems, Sequences_proof

(* A slot in use, the slots of a request, the channels in use.             *)
Held(i)    == slots[i].status # {}
SlotsOf(r) == { i \in Conns : slots[i].request = r }
UsedChans  == { k \in Conns : chans[k].used }

(* What a slot in use says of its connection.                              *)
SlotShape(i) ==
    /\ ~Held(i) => slots[i] = EmptySlot
    /\ Held(i) => slots[i].request \in Requests /\ slots[i].conn \in 1 .. nconns
    /\ slots[i].request = "R" => slots[i].remote = slots[i].conn
    /\ slots[i].sock = "connecting" => slots[i].request = "R"

(* fwd_state.channels: every slot in use has a connection of its own.      *)
SlotPart ==
    /\ slots \in [Conns -> Slot]
    /\ \A i \in Conns : SlotShape(i)
    /\ \A i, j \in Conns :
          Held(i) /\ Held(j) /\ slots[i].conn = slots[j].conn => i = j

(* num_channels counts the slots of a request.                             *)
SlotCount ==
    /\ num_channels \in [Requests -> Nat]
    /\ \A r \in Requests : num_channels[r] = Cardinality(SlotsOf(r))

(* What a Channel_t in use says of its connection.                         *)
ChanShape(k) ==
    /\ ~chans[k].used => chans[k] = EmptyChan
    /\ chans[k].used => /\ chans[k].local \in Conns /\ chans[k].conn \in 1 .. nconns
                        /\ chans[k].remote_id \in { NoId, chans[k].conn }

(* channels of ssh.c: so has every Channel_t.                              *)
ChanPart ==
    /\ chans \in [Conns -> Chan]
    /\ \A k \in Conns : ChanShape(k)
    /\ \A k, l \in Conns :
          chans[k].used /\ chans[l].used /\ chans[k].conn = chans[l].conn => k = l

(* channel_used_num counts the channels, within the limit.                 *)
ChanCount ==
    /\ channel_used_num \in Nat
    /\ channel_used_num = Cardinality(UsedChans)
    /\ MaxChannel # 0 => channel_used_num <= MaxChannel

(* A Channel_t of the connection of a slot has that slot's number.         *)
Pair ==
    \A i, k \in Conns :
        Held(i) /\ chans[k].used /\ chans[k].conn = slots[i].conn => chans[k].local = i
-----------------------------------------------------------------------------
(* The smallest of some numbers is one of them.                            *)
LEMMA MinIsMember ==
    ASSUME NEW S \in SUBSET Nat, S # {}
    PROVE  Min(S) \in S
<1> DEFINE R == OpToRel(<, Nat)
<1>1. IsWellFoundedOn(R, Nat)
  BY Zenon, NatLessThanWellFounded
<1> HIDE DEF R
<1>2. PICK x \in S : \A y \in S : ~(<< y, x >> \in R)
  BY Zenon, <1>1, WFMin
<1>3. \A y \in S : x <= y
  <2> TAKE y \in S
  <2>1. y < x => << y, x >> \in R
    BY DEF R, OpToRel
  <2>2. ~(y < x)
    BY Zenon, <1>2, <2>1
  <2>3. QED
    BY <2>2
<1>4. QED
  BY Zenon, <1>2, <1>3 DEF Min

(* Some members of Conns, with one more and one less.                      *)
LEMMA Counting ==
    ASSUME NEW S \in SUBSET Conns
    PROVE  /\ Cardinality(S) \in Nat
           /\ \A x \in S : Cardinality(S \ {x}) = Cardinality(S) - 1 /\ Cardinality(S) > 0
           /\ \A x \in Conns \ S : Cardinality(S \cup {x}) = Cardinality(S) + 1
<1>1. IsFiniteSet(Conns)
  BY FwdAssumption, FS_Interval DEF Conns
<1>2. IsFiniteSet(S)
  BY <1>1, FS_Subset
<1>3. Cardinality(S) \in Nat
  BY <1>2, FS_CardinalityType
<1>4. \A x \in S : Cardinality(S \ {x}) = Cardinality(S) - 1
  BY <1>2, FS_RemoveElement
<1>5. \A x \in Conns \ S : Cardinality(S \cup {x}) = Cardinality(S) + 1
  BY <1>2, FS_AddElement
<1>6. S # {} => Cardinality(S) > 0
  BY <1>2, <1>3, FS_EmptySet
<1>7. QED
  BY <1>3, <1>4, <1>5, <1>6

(* If entries that are in use have connections of their own, none of them  *)
(* c, there is a free entry.                                               *)
Owners(f, U, c) ==
    /\ f \in [U -> Conns]
    /\ \A i, j \in U : f[i] = f[j] => i = j
    /\ \A i \in U : f[i] # c

LEMMA FreeEntry ==
    ASSUME NEW U \in SUBSET Conns, NEW f, NEW c \in Conns, Owners(f, U, c)
    PROVE  \E i \in Conns : i \notin U
<1>1. IsFiniteSet(Conns)
  BY FwdAssumption, FS_Interval DEF Conns
<1>2. IsFiniteSet(Conns \ {c}) /\ Cardinality(Conns \ {c}) = Cardinality(Conns) - 1
      /\ Cardinality(Conns) \in Nat
  BY <1>1, FS_RemoveElement, FS_CardinalityType
<1> SUFFICES ASSUME U = Conns PROVE FALSE
  OBVIOUS
<1>3. f \in [Conns -> Conns \ {c}]
  BY DEF Owners
<1>4. \E x, y \in Conns : x # y /\ f[x] = f[y]
  <2>1. IsFiniteSet(Conns \ {c}) /\ Cardinality(Conns \ {c}) < Cardinality(Conns)
    BY <1>2
  <2>2. QED
    BY <1>1, <1>3, <2>1, FS_PigeonHole
<1>5. QED
  BY Zenon, <1>4 DEF Owners
-----------------------------------------------------------------------------
(* How a step changes the two arrays.                                      *)

(* The slot keeps its connection.                                          *)
Continues(i) ==
    /\ Held(i) /\ Held(i)'
    /\ slots'[i].request = slots[i].request
    /\ slots'[i].remote = slots[i].remote
    /\ slots'[i].conn = slots[i].conn

(* No slot is new.                                                         *)
SlotsKept ==
    /\ slots' \in [Conns -> Slot]
    /\ \A i \in Conns :
          \/ slots'[i] = EmptySlot
          \/ Continues(i) /\ (slots'[i].sock = "connecting" => slots'[i].request = "R")

(* Only slot i changes.                                                    *)
Touched(i) ==
    /\ SlotsKept
    /\ Continues(i)
    /\ \A j \in Conns : j # i => slots'[j] = slots[j]

(* The Channel_t keeps its connection.                                     *)
ChanGoesOn(k) ==
    /\ chans[k].used /\ chans'[k].used
    /\ chans'[k].local = chans[k].local /\ chans'[k].conn = chans[k].conn
    /\ chans'[k].remote_id \in { chans[k].remote_id, chans[k].conn }

(* No Channel_t is new.                                                    *)
ChansKept ==
    /\ chans' \in [Conns -> Chan]
    /\ \A k \in Conns : chans'[k] = EmptyChan \/ ChanGoesOn(k)

(* SlotPart survives when no slot is new.                                  *)
LEMMA SlotsKeptShape ==
    ASSUME SlotPart, SlotsKept, nconns \in Nat, nconns' \in Nat, nconns <= nconns'
    PROVE  SlotPart'
<1>1. slots' \in [Conns -> Slot]
  BY Zenon DEF SlotsKept
<1>2. ASSUME NEW i \in Conns PROVE SlotShape(i)'
  <2>1. SlotShape(i)
    BY Zenon DEF SlotPart
  <2>2. CASE slots'[i] = EmptySlot
    BY <2>2 DEF SlotShape, EmptySlot, Held
  <2>3. CASE Continues(i) /\ (slots'[i].sock = "connecting" => slots'[i].request = "R")
    BY <2>1, <2>3 DEF SlotShape, Continues, Held
  <2>4. QED
    BY Zenon, <2>2, <2>3 DEF SlotsKept
<1>3. ASSUME NEW i \in Conns, NEW j \in Conns, Held(i)', Held(j)', slots'[i].conn = slots'[j].conn
      PROVE  i = j
  <2>1. EmptySlot.status = {}
    BY DEF EmptySlot
  <2>2. Continues(i) /\ Continues(j)
    BY Zenon, <2>1, <1>3 DEF SlotsKept, Held
  <2>3. Held(i) /\ Held(j) /\ slots[i].conn = slots[j].conn
    BY Zenon, <2>2, <1>3 DEF Continues
  <2>4. QED
    BY Zenon, <2>3 DEF SlotPart
<1>4. QED
  BY Zenon, <1>1, <1>2, <1>3 DEF SlotPart, Held

(* ChanPart survives when no Channel_t is new.                             *)
LEMMA ChansKeptShape ==
    ASSUME ChanPart, ChansKept, nconns \in Nat, nconns' \in Nat, nconns <= nconns'
    PROVE  ChanPart'
<1>1. chans' \in [Conns -> Chan]
  BY Zenon DEF ChansKept
<1>2. ASSUME NEW i \in Conns PROVE ChanShape(i)'
  <2>1. ChanShape(i)
    BY Zenon DEF ChanPart
  <2>2. CASE chans'[i] = EmptyChan
    BY <2>2 DEF ChanShape, EmptyChan
  <2>3. CASE ChanGoesOn(i)
    BY <2>1, <2>3 DEF ChanShape, ChanGoesOn
  <2>4. QED
    BY Zenon, <2>2, <2>3 DEF ChansKept
<1>3. ASSUME NEW i \in Conns, NEW j \in Conns, chans'[i].used, chans'[j].used,
             chans'[i].conn = chans'[j].conn
      PROVE  i = j
  <2>1. EmptyChan.used = FALSE
    BY DEF EmptyChan
  <2>2. ChanGoesOn(i) /\ ChanGoesOn(j)
    BY Zenon, <2>1, <1>3 DEF ChansKept
  <2>3. chans[i].used /\ chans[j].used /\ chans[i].conn = chans[j].conn
    BY Zenon, <2>2, <1>3 DEF ChanGoesOn
  <2>4. QED
    BY Zenon, <2>3 DEF ChanPart
<1>4. QED
  BY Zenon, <1>1, <1>2, <1>3 DEF ChanPart

(* So does the link between the two.                                       *)
LEMMA KeptPair ==
    ASSUME Pair, SlotsKept, ChansKept
    PROVE  Pair'
<1> SUFFICES ASSUME NEW i \in Conns, NEW k \in Conns, Held(i)', chans'[k].used,
                    chans'[k].conn = slots'[i].conn
             PROVE  chans'[k].local = i
  BY Zenon DEF Pair, Held
<1>1. EmptySlot.status = {} /\ EmptyChan.used = FALSE
  BY DEF EmptySlot, EmptyChan
<1>2. Continues(i)
  BY Zenon, <1>1 DEF SlotsKept, Held
<1>3. ChanGoesOn(k)
  BY Zenon, <1>1 DEF ChansKept
<1>4. chans[k].local = i
  BY Zenon, <1>2, <1>3 DEF Pair, Continues, ChanGoesOn
<1>5. QED
  BY Zenon, <1>3, <1>4 DEF ChanGoesOn
-----------------------------------------------------------------------------
(* The counters.                                                           *)

(* The requests count right as long as no slot changes its request.        *)
LEMMA SameSlotCount ==
    ASSUME SlotCount, num_channels' = num_channels,
           \A i \in Conns : slots'[i].request = slots[i].request
    PROVE  SlotCount'
<1>1. \A r : SlotsOf(r)' = SlotsOf(r)
  BY Zenon DEF SlotsOf
<1>2. QED
  BY Zenon, <1>1 DEF SlotCount

(* A slot that is touched stays with its request.                          *)
LEMMA TouchedCount ==
    ASSUME SlotCount, num_channels' = num_channels, NEW i \in Conns, Touched(i)
    PROVE  SlotCount'
<1>1. \A j \in Conns : slots'[j].request = slots[j].request
  BY Zenon DEF Touched, Continues
<1>2. QED
  BY Zenon, <1>1, SameSlotCount

(* FWD_free_channel counts the slot's request down, if it has one.         *)
LEMMA FreedSlot ==
    ASSUME SlotPart, SlotCount, NEW i \in Conns, FWD_free_channel(i)
    PROVE  SlotsKept /\ SlotCount' /\ slots'[i] = EmptySlot
           /\ \A j \in Conns : j # i => slots'[j] = slots[j]
<1>1. /\ slots \in [Conns -> Slot] /\ num_channels \in [Requests -> Nat]
      /\ \A r \in Requests : num_channels[r] = Cardinality(SlotsOf(r))
  BY Zenon DEF SlotPart, SlotCount
<1>2. EmptySlot \in Slot /\ EmptySlot.request = "none" /\ "none" \notin Requests
  BY FwdAssumption DEF EmptySlot, Slot, NoId, Requests
<1>3. slots' = [slots EXCEPT ![i] = EmptySlot]
  BY Zenon DEF FWD_free_channel
<1>4. /\ slots' \in [Conns -> Slot] /\ slots'[i] = EmptySlot
      /\ \A j \in Conns : j # i => slots'[j] = slots[j]
  BY <1>1, <1>2, <1>3
<1>5. SlotsKept
  <2>1. ASSUME NEW j \in Conns
        PROVE  \/ slots'[j] = EmptySlot
               \/ Continues(j) /\ (slots'[j].sock = "connecting" => slots'[j].request = "R")
    <3>1. SlotShape(j)
      BY Zenon DEF SlotPart
    <3>2. j = i \/ slots'[j] = slots[j]
      BY Zenon, <1>4
    <3>3. QED
      BY <3>1, <3>2, <1>4 DEF SlotShape, Continues, Held
  <2>2. QED
    BY Zenon, <1>4, <2>1 DEF SlotsKept
<1>6. ASSUME NEW r \in Requests
      PROVE  num_channels'[r] \in Nat /\ num_channels'[r] = Cardinality(SlotsOf(r)')
  <2>1. num_channels'[r] = IF slots[i].request = r THEN num_channels[r] - 1
                           ELSE num_channels[r]
    BY Zenon, <1>6 DEF FWD_free_channel
  <2>2. SlotsOf(r) \in SUBSET Conns /\ SlotsOf(r)' = SlotsOf(r) \ { i }
    BY <1>2, <1>4, <1>6 DEF SlotsOf
  <2>3. CASE slots[i].request = r
    <3>1. i \in SlotsOf(r)
      BY Zenon, <2>3 DEF SlotsOf
    <3>2. Cardinality(SlotsOf(r) \ { i }) = Cardinality(SlotsOf(r)) - 1
          /\ Cardinality(SlotsOf(r)) > 0 /\ Cardinality(SlotsOf(r)) \in Nat
      BY <2>2, <3>1, Counting
    <3>3. QED
      BY <1>1, <1>6, <2>1, <2>2, <2>3, <3>2
  <2>4. CASE slots[i].request # r
    <3>1. SlotsOf(r)' = SlotsOf(r)
      BY Zenon, <2>2, <2>4 DEF SlotsOf
    <3>2. QED
      BY <1>1, <1>6, <2>1, <2>4, <3>1
  <2>5. QED
    BY Zenon, <2>3, <2>4
<1>7. num_channels' \in [Requests -> Nat]
  <2>1. num_channels' = [r \in Requests |-> num_channels'[r]]
    BY DEF FWD_free_channel
  <2>2. QED
    BY Zenon, <2>1, <1>6
<1>8. QED
  BY Zenon, <1>4, <1>5, <1>6, <1>7 DEF SlotCount

(* A new slot is counted, and its connection is its own if no slot had it. *)
LEMMA AddedSlot ==
    ASSUME SlotPart, SlotCount, NEW i \in Conns, ~Held(i), NEW s \in Slot,
           s.status # {}, s.request \in Requests, s.conn \in 1 .. nconns',
           s.request = "R" => s.remote = s.conn,
           s.sock = "connecting" => s.request = "R",
           \A j \in Conns : Held(j) => slots[j].conn # s.conn,
           nconns \in Nat, nconns' \in Nat, nconns <= nconns', NewSlot(i, s)
    PROVE  SlotPart' /\ SlotCount'
<1>1. /\ slots \in [Conns -> Slot] /\ num_channels \in [Requests -> Nat]
      /\ \A r \in Requests : num_channels[r] = Cardinality(SlotsOf(r))
  BY Zenon DEF SlotPart, SlotCount
<1>2. slots[i] = EmptySlot
  BY Zenon DEF SlotPart, SlotShape
<1>3. slots' \in [Conns -> Slot] /\ slots'[i] = s
      /\ \A j \in Conns : j # i => slots'[j] = slots[j]
  BY <1>1 DEF NewSlot
<1>4. ASSUME NEW j \in Conns PROVE SlotShape(j)'
  <2>1. SlotShape(j)
    BY Zenon DEF SlotPart
  <2>2. CASE j = i
    BY <2>2, <1>3 DEF SlotShape, Held
  <2>3. CASE j # i
    BY <2>1, <2>3, <1>3 DEF SlotShape, Held
  <2>4. QED
    BY Zenon, <2>2, <2>3
<1>5. ASSUME NEW j \in Conns, NEW k \in Conns, Held(j)', Held(k)', slots'[j].conn = slots'[k].conn
      PROVE  j = k
  BY Zenon, <1>3, <1>5 DEF SlotPart, Held
<1>6. SlotPart'
  BY Zenon, <1>3, <1>4, <1>5 DEF SlotPart, Held
<1>7. ASSUME NEW r \in Requests
      PROVE  num_channels'[r] \in Nat /\ num_channels'[r] = Cardinality(SlotsOf(r)')
  <2>1. num_channels'[r] = IF r = s.request THEN num_channels[r] + 1 ELSE num_channels[r]
    BY <1>1, <1>7 DEF NewSlot
  <2>2. SlotsOf(r) \in SUBSET Conns
    BY DEF SlotsOf
  <2>3. i \notin SlotsOf(r)
    BY <1>2, <1>7 DEF SlotsOf, EmptySlot, Requests
  <2>4. CASE r = s.request
    <3>1. SlotsOf(r)' = SlotsOf(r) \cup { i }
      BY <1>3, <2>4 DEF SlotsOf
    <3>2. Cardinality(SlotsOf(r) \cup { i }) = Cardinality(SlotsOf(r)) + 1
          /\ Cardinality(SlotsOf(r)) \in Nat
      BY <2>2, <2>3, Counting
    <3>3. QED
      BY <1>1, <1>7, <2>1, <2>4, <3>1, <3>2
  <2>5. CASE r # s.request
    <3>1. SlotsOf(r)' = SlotsOf(r)
      BY <1>3, <2>3, <2>5 DEF SlotsOf
    <3>2. QED
      BY <1>1, <1>7, <2>1, <2>5, <3>1
  <2>6. QED
    BY Zenon, <2>4, <2>5
<1>8. num_channels' \in [Requests -> Nat]
  BY <1>1, <1>7 DEF NewSlot
<1>9. QED
  BY Zenon, <1>6, <1>7, <1>8 DEF SlotCount

(* channel_used_num is right as long as the same channels are in use.      *)
LEMMA SameChanCount ==
    ASSUME ChanCount, channel_used_num' = channel_used_num,
           \A k \in Conns : chans'[k].used = chans[k].used
    PROVE  ChanCount'
<1>1. UsedChans' = UsedChans
  BY Zenon DEF UsedChans
<1>2. QED
  BY Zenon, <1>1 DEF ChanCount

(* ssh2_channel_delete counts the channel down.                            *)
LEMMA DeletedChan ==
    ASSUME ChanPart, ChanCount, NEW k \in Conns, chans[k].used, ssh2_channel_delete(k)
    PROVE  ChansKept /\ ChanCount' /\ chans'[k] = EmptyChan
           /\ \A l \in Conns : l # k => chans'[l] = chans[l]
<1>1. chans \in [Conns -> Chan] /\ channel_used_num \in Nat
      /\ channel_used_num = Cardinality(UsedChans)
      /\ (MaxChannel # 0 => channel_used_num <= MaxChannel) /\ MaxChannel \in Nat
  BY Zenon, FwdAssumption DEF ChanPart, ChanCount
<1>2. EmptyChan \in Chan /\ EmptyChan.used = FALSE
  BY FwdAssumption DEF EmptyChan, Chan, NoId
<1>3. /\ chans' \in [Conns -> Chan] /\ chans'[k] = EmptyChan
      /\ \A l \in Conns : l # k => chans'[l] = chans[l]
  BY <1>1, <1>2 DEF ssh2_channel_delete
<1>4. ChansKept
  <2>1. ASSUME NEW l \in Conns PROVE chans'[l] = EmptyChan \/ ChanGoesOn(l)
    <3>1. ChanShape(l)
      BY Zenon DEF ChanPart
    <3>2. l = k \/ chans'[l] = chans[l]
      BY Zenon, <1>3
    <3>3. QED
      BY <3>1, <3>2, <1>3 DEF ChanShape, ChanGoesOn
  <2>2. QED
    BY Zenon, <1>3, <2>1 DEF ChansKept
<1>5. UsedChans \in SUBSET Conns /\ k \in UsedChans
  BY DEF UsedChans
<1>6. UsedChans' = UsedChans \ { k }
  BY <1>2, <1>3 DEF UsedChans
<1>7. Cardinality(UsedChans \ { k }) = Cardinality(UsedChans) - 1
      /\ Cardinality(UsedChans) > 0 /\ Cardinality(UsedChans) \in Nat
  BY <1>5, Counting
<1>8. channel_used_num' = channel_used_num - 1
  BY Zenon DEF ssh2_channel_delete
<1>9. ChanCount'
  BY <1>1, <1>6, <1>7, <1>8 DEF ChanCount
<1>10. QED
  BY Zenon, <1>3, <1>4, <1>9

(* ssh2_channel_new takes a free entry; below the limit it stays within it.*)
LEMMA AddedChan ==
    ASSUME ChanPart, ChanCount, HasRoom, NEW k \in Conns, ~chans[k].used, FreeChan = k,
           NEW i \in Conns, NEW r \in 0 .. MaxConns, NEW c \in Conns,
           r \in { NoId, c }, c \in 1 .. nconns',
           \A l \in Conns : chans[l].used => chans[l].conn # c,
           nconns \in Nat, nconns' \in Nat, nconns <= nconns', ssh2_channel_new(i, r, c)
    PROVE  /\ ChanPart' /\ ChanCount'
           /\ chans'[k].used /\ chans'[k].local = i /\ chans'[k].remote_id = r
           /\ chans'[k].conn = c
           /\ \A l \in Conns : l # k => chans'[l] = chans[l]
<1> DEFINE new == [used |-> TRUE, local |-> i, remote_id |-> r, conn |-> c]
<1>1. chans \in [Conns -> Chan] /\ channel_used_num \in Nat
      /\ channel_used_num = Cardinality(UsedChans)
      /\ (MaxChannel # 0 => channel_used_num <= MaxChannel) /\ MaxChannel \in Nat
      /\ MaxConns \in Nat
  BY Zenon, FwdAssumption DEF ChanPart, ChanCount
<1>2. new \in Chan /\ new.used /\ new.local = i /\ new.remote_id = r /\ new.conn = c
  BY <1>1 DEF Chan, Conns
<1>3. chans' = [chans EXCEPT ![k] = new]
  BY Zenon DEF ssh2_channel_new
<1> HIDE DEF new
<1>4. /\ chans' \in [Conns -> Chan] /\ chans'[k] = new
      /\ \A l \in Conns : l # k => chans'[l] = chans[l]
  BY <1>1, <1>2, <1>3
<1>5. ASSUME NEW l \in Conns PROVE ChanShape(l)'
  <2>1. ChanShape(l)
    BY Zenon DEF ChanPart
  <2>2. CASE l = k
    BY <2>2, <1>2, <1>4 DEF ChanShape
  <2>3. CASE l # k
    BY <2>1, <2>3, <1>4 DEF ChanShape
  <2>4. QED
    BY Zenon, <2>2, <2>3
<1>6. ASSUME NEW j \in Conns, NEW l \in Conns, chans'[j].used, chans'[l].used,
             chans'[j].conn = chans'[l].conn
      PROVE  j = l
  <2>1. /\ chans'[k].conn = c
        /\ \A n \in Conns : n # k => chans'[n] = chans[n] /\ (chans[n].used => chans[n].conn # c)
    BY Zenon, <1>2, <1>4
  <2>2. CASE j = k
    BY Zenon, <1>6, <2>1, <2>2
  <2>3. CASE l = k
    BY Zenon, <1>6, <2>1, <2>3
  <2>4. CASE j # k /\ l # k
    <3>1. chans[j].used /\ chans[l].used /\ chans[j].conn = chans[l].conn
      BY Zenon, <1>6, <2>1, <2>4
    <3>2. QED
      BY Zenon, <3>1 DEF ChanPart
  <2>5. QED
    BY Zenon, <2>2, <2>3, <2>4
<1>7. ChanPart'
  BY Zenon, <1>4, <1>5, <1>6 DEF ChanPart
<1>8. UsedChans \in SUBSET Conns /\ k \notin UsedChans
  BY DEF UsedChans
<1>9. UsedChans' = UsedChans \cup { k }
  BY <1>2, <1>4 DEF UsedChans
<1>10. Cardinality(UsedChans \cup { k }) = Cardinality(UsedChans) + 1
  BY <1>8, Counting
<1>11. channel_used_num' = channel_used_num + 1
  BY Zenon DEF ssh2_channel_new
<1>12. ChanCount'
  BY <1>1, <1>9, <1>10, <1>11 DEF ChanCount, HasRoom
<1>13. QED
  BY Zenon, <1>2, <1>4, <1>7, <1>12

(* A connection that has not begun has no slot and no Channel_t.           *)
LEMMA NotBegun ==
    ASSUME SlotPart, ChanPart, NEW c, c \notin 1 .. nconns
    PROVE  /\ \A j \in Conns : Held(j) => slots[j].conn # c
           /\ \A l \in Conns : chans[l].used => chans[l].conn # c
<1>1. ASSUME NEW j \in Conns, Held(j) PROVE slots[j].conn # c
  <2>1. SlotShape(j)
    BY Zenon DEF SlotPart
  <2>2. slots[j].conn \in 1 .. nconns
    BY Zenon, <1>1, <2>1 DEF SlotShape
  <2>3. QED
    BY Zenon, <2>2
<1>2. ASSUME NEW l \in Conns, chans[l].used PROVE chans[l].conn # c
  <2>1. ChanShape(l)
    BY Zenon DEF ChanPart
  <2>2. chans[l].conn \in 1 .. nconns
    BY Zenon, <1>2, <2>1 DEF ChanShape
  <2>3. QED
    BY Zenon, <2>2
<1>3. QED
  BY Zenon, <1>1, <1>2

(* A connection with no slot and no Channel_t finds an entry free in both. *)
LEMMA FreeEntries ==
    ASSUME SlotPart, ChanPart, NEW c \in Conns, nconns \in 0 .. MaxConns,
           \A i \in Conns : Held(i) => slots[i].conn # c,
           \A k \in Conns : chans[k].used => chans[k].conn # c
    PROVE  FreeNum \in Conns /\ ~Held(FreeNum) /\ FreeChan \in Conns /\ ~chans[FreeChan].used
<1>1. MaxConns \in Nat
  BY FwdAssumption
<1>2. \E i \in Conns : ~Held(i)
  <2> DEFINE U == { i \in Conns : Held(i) }
             f == [i \in U |-> slots[i].conn]
  <2>1. \A i \in U : slots[i].conn \in Conns
    BY <1>1 DEF SlotPart, SlotShape, Conns
  <2>2. f \in [U -> Conns] /\ \A i \in U : f[i] = slots[i].conn
    BY Zenon, <2>1
  <2>3. \A i, j \in U : f[i] = f[j] => i = j
    BY Zenon, <2>2 DEF SlotPart
  <2>4. \A i \in U : f[i] # c
    BY Zenon, <2>2
  <2>5. U \in SUBSET Conns
    OBVIOUS
  <2>6. Owners(f, U, c)
    BY Zenon, <2>2, <2>3, <2>4 DEF Owners
  <2> HIDE DEF f, U
  <2>7. \E i \in Conns : i \notin U
    BY Zenon, <2>5, <2>6, FreeEntry
  <2>8. QED
    BY Zenon, <2>7 DEF U
<1>3. \E k \in Conns : ~chans[k].used
  <2> DEFINE U == { k \in Conns : chans[k].used }
             f == [k \in U |-> chans[k].conn]
  <2>1. \A k \in U : chans[k].conn \in Conns
    BY <1>1 DEF ChanPart, ChanShape, Conns
  <2>2. f \in [U -> Conns] /\ \A k \in U : f[k] = chans[k].conn
    BY Zenon, <2>1
  <2>3. \A k, l \in U : f[k] = f[l] => k = l
    BY Zenon, <2>2 DEF ChanPart
  <2>4. \A k \in U : f[k] # c
    BY Zenon, <2>2
  <2>5. U \in SUBSET Conns
    OBVIOUS
  <2>6. Owners(f, U, c)
    BY Zenon, <2>2, <2>3, <2>4 DEF Owners
  <2> HIDE DEF f, U
  <2>7. \E k \in Conns : k \notin U
    BY Zenon, <2>5, <2>6, FreeEntry
  <2>8. QED
    BY Zenon, <2>7 DEF U
<1>4. Conns \subseteq Nat
  BY DEF Conns
<1>5. FreeNum \in { i \in Conns : slots[i].status = {} }
  <2> DEFINE S == { i \in Conns : slots[i].status = {} }
  <2>1. S \in SUBSET Nat /\ S # {}
    BY <1>2, <1>4 DEF Held
  <2> HIDE DEF S
  <2>2. Min(S) \in S
    BY Zenon, <2>1, MinIsMember
  <2>3. QED
    BY Zenon, <2>2 DEF S, FreeNum
<1>6. FreeChan \in { k \in Conns : ~chans[k].used }
  <2> DEFINE S == { k \in Conns : ~chans[k].used }
  <2>1. S \in SUBSET Nat /\ S # {}
    BY <1>3, <1>4
  <2> HIDE DEF S
  <2>2. Min(S) \in S
    BY Zenon, <2>1, MinIsMember
  <2>3. QED
    BY Zenon, <2>2 DEF S, FreeChan
<1>7. QED
  BY Zenon, <1>5, <1>6 DEF Held
-----------------------------------------------------------------------------
(* The server's side and the packets under way.                            *)

Packet == [kind : Kinds, to : 0 .. MaxConns, sid : Conns]

(* What the client has made for a connection.                              *)
Made(c) ==
    \/ \E i \in Conns : Held(i) /\ slots[i].conn = c
    \/ \E k \in Conns : chans[k].used /\ chans[k].conn = c

(* An end that is not closed yet knows the Channel_t of its connection.    *)
EndShape(s) ==
    /\ s > nconns => sv[s].st = "none"
    /\ sv[s].st \in { "none", "opening", "asked" } => ~sv[s].sentClose
    /\ sv[s].st \in { "asked", "open" } /\ ~sv[s].sentClose
          => /\ sv[s].cid \in Conns
             /\ chans[sv[s].cid].used /\ chans[sv[s].cid].conn = s

(* The server's side.                                                      *)
EndPart ==
    /\ sv \in [Conns -> SvEnd] /\ nconns \in 0 .. MaxConns
    /\ \A s \in Conns : EndShape(s)

(* A packet and the two ends it runs between.                              *)
PacketFits(m) ==
    /\ m.sid \in 1 .. nconns
    /\ m.kind = "OPEN" => sv[m.sid].st = "opening" /\ ~Made(m.sid)
    /\ m.kind # "OPEN" => /\ m.to \in Conns
                          /\ chans[m.to].used /\ chans[m.to].conn = m.sid
                          /\ sv[m.sid].st = IF m.kind = "FAIL" THEN "done" ELSE "open"
    /\ m.kind = "CLOSE" => sv[m.sid].sentClose

(* What may come before what, on one connection.                           *)
Before(m, l) ==
    m.sid = l.sid => /\ m.kind \in { "CONFIRM", "DATA", "EOF" }
                     /\ l.kind \in { "DATA", "EOF", "CLOSE" }

(* The packets under way.                                                  *)
QueuePart ==
    /\ toClient \in Seq(Packet)
    /\ \A n \in 1 .. Len(toClient) : PacketFits(toClient[n])
    /\ \A n, l \in 1 .. Len(toClient) : n < l => Before(toClient[n], toClient[l])

(* The variables the arrays do not depend on.                              *)
FlagPart ==
    /\ to_host_addrs \in BOOLEAN
    /\ lookup \in { "idle", "running", "found", "failed" }
    /\ confused \in BOOLEAN /\ reconnected \in BOOLEAN

(* The inductive invariant of the arrays, the packets and the ends.        *)
FwdInv ==
    /\ SlotPart /\ SlotCount /\ ChanPart /\ ChanCount /\ Pair
    /\ EndPart /\ QueuePart /\ FlagPart
    /\ NoSlotOutlivesServer

(* The ends of connections that a step leaves where they are.              *)
Steady(s) ==
    /\ sv'[s].st = sv[s].st /\ sv'[s].cid = sv[s].cid
    /\ sv'[s].sentClose = sv[s].sentClose

(* The first h packets (none or one) are taken, and nothing is added; the  *)
(* connections of D are not those of the packets that are left.            *)
QueueMoves(h, D) ==
    /\ toClient' \in Seq(Packet)
    /\ Len(toClient') = Len(toClient) - h
    /\ \A n \in 1 .. Len(toClient') : /\ toClient'[n] = toClient[n + h]
                                      /\ toClient'[n].sid \notin D
    /\ h = 1 => Len(toClient) > 0 /\ (toClient[1].kind = "FAIL" => toClient[1].sid \in D)

(* A step in which nothing is new, and only connections of D end.          *)
OnlyEnds(h, D) ==
    /\ SlotsKept /\ ChansKept /\ nconns' = nconns
    /\ sv' \in [Conns -> SvEnd]
    /\ QueueMoves(h, D)
    /\ \A k \in Conns : chans[k].used /\ chans[k].conn \notin D => chans'[k].used
    /\ \A s \in Conns : IF s \in D THEN EndShape(s)' ELSE Steady(s)
    /\ \A i \in Conns : Held(i)' /\ slots'[i].conn \in D => sv'[slots'[i].conn].st # "done"

(* Nothing is made by such a step.                                         *)
LEMMA NotMade ==
    ASSUME SlotsKept, ChansKept, NEW c, Made(c)'
    PROVE  Made(c)
<1>1. EmptySlot.status = {} /\ EmptyChan.used = FALSE
  BY DEF EmptySlot, EmptyChan
<1>2. CASE \E i \in Conns : Held(i)' /\ slots'[i].conn = c
  <2>1. PICK i \in Conns : Held(i)' /\ slots'[i].conn = c
    BY Zenon, <1>2
  <2>2. Continues(i)
    BY Zenon, <1>1, <2>1 DEF SlotsKept, Held
  <2>3. QED
    BY Zenon, <2>1, <2>2 DEF Continues, Made
<1>3. CASE \E k \in Conns : chans'[k].used /\ chans'[k].conn = c
  <2>1. PICK k \in Conns : chans'[k].used /\ chans'[k].conn = c
    BY Zenon, <1>3
  <2>2. ChanGoesOn(k)
    BY Zenon, <1>1, <2>1 DEF ChansKept
  <2>3. QED
    BY Zenon, <2>1, <2>2 DEF ChanGoesOn, Made
<1>4. QED
  BY Zenon, <1>2, <1>3 DEF Made, Held

(* A packet that is left still fits.                                       *)
LEMMA PacketStillFits ==
    ASSUME NEW D, SlotsKept, ChansKept, nconns' = nconns,
           nconns \in 0 .. MaxConns,
           \A k \in Conns : chans[k].used /\ chans[k].conn \notin D => chans'[k].used,
           NEW m \in Packet, PacketFits(m), m.sid \notin D, Steady(m.sid)
    PROVE  PacketFits(m)'
<1>1. m.kind = "OPEN" => ~Made(m.sid)'
  BY Zenon, NotMade DEF PacketFits
<1>2. ASSUME m.kind # "OPEN"
      PROVE  m.to \in Conns /\ chans'[m.to].used /\ chans'[m.to].conn = m.sid
  <2>1. m.to \in Conns /\ chans[m.to].used /\ chans[m.to].conn = m.sid
    BY Zenon, <1>2 DEF PacketFits
  <2>2. chans'[m.to].used
    BY Zenon, <2>1
  <2>3. EmptyChan.used = FALSE
    BY DEF EmptyChan
  <2>4. ChanGoesOn(m.to)
    BY Zenon, <2>1, <2>2, <2>3 DEF ChansKept
  <2>5. QED
    BY Zenon, <2>1, <2>4 DEF ChanGoesOn
<1>3. m.sid \in 1 .. nconns'
  BY Zenon DEF PacketFits
<1>4. QED
  BY Zenon, <1>1, <1>2, <1>3 DEF PacketFits, Steady

(* An end outside D is still in order.                                     *)
LEMMA EndStillFits ==
    ASSUME NEW D, ChansKept, nconns' = nconns,
           \A k \in Conns : chans[k].used /\ chans[k].conn \notin D => chans'[k].used,
           NEW s \in Conns, EndShape(s), s \notin D, Steady(s)
    PROVE  EndShape(s)'
<1>1. ASSUME sv[s].st \in { "asked", "open" }, ~sv[s].sentClose
      PROVE  /\ sv'[s].cid \in Conns
             /\ chans'[sv'[s].cid].used /\ chans'[sv'[s].cid].conn = s
  <2> DEFINE k == sv[s].cid
  <2>1. k \in Conns /\ chans[k].used /\ chans[k].conn = s
    BY Zenon, <1>1 DEF EndShape
  <2>2. chans'[k].used
    BY Zenon, <2>1
  <2>3. EmptyChan.used = FALSE
    BY DEF EmptyChan
  <2>4. ChanGoesOn(k)
    BY Zenon, <2>1, <2>2, <2>3 DEF ChansKept
  <2>5. QED
    BY Zenon, <2>1, <2>2, <2>4 DEF ChanGoesOn, Steady
<1>2. QED
  BY Zenon, <1>1 DEF EndShape, Steady

(* What such a step leaves true.                                           *)
LEMMA OnlyEndsKeeps ==
    ASSUME SlotPart, ChanPart, Pair, EndPart, QueuePart, NoSlotOutlivesServer,
           NEW h \in { 0, 1 }, NEW D, OnlyEnds(h, D)
    PROVE  /\ SlotPart' /\ ChanPart' /\ Pair'
           /\ EndPart' /\ QueuePart' /\ NoSlotOutlivesServer'
<1>1. SlotsKept /\ ChansKept /\ nconns' = nconns /\ nconns \in 0 .. MaxConns
      /\ QueueMoves(h, D) /\ MaxConns \in Nat
  BY Zenon, FwdAssumption DEF OnlyEnds, EndPart
<1>2. nconns \in Nat /\ nconns' \in Nat /\ nconns <= nconns'
  BY <1>1
<1>3. SlotPart' /\ ChanPart' /\ Pair'
  BY Zenon, <1>1, <1>2, SlotsKeptShape, ChansKeptShape, KeptPair
<1>4. \A k \in Conns : chans[k].used /\ chans[k].conn \notin D => chans'[k].used
  BY Zenon DEF OnlyEnds
<1>5. \A s \in Conns : s \notin D => Steady(s)
  BY Zenon DEF OnlyEnds
<1>6. ASSUME NEW s \in Conns PROVE EndShape(s)'
  <2>1. CASE s \in D
    BY Zenon, <2>1 DEF OnlyEnds
  <2>2. CASE s \notin D
    <3>1. EndShape(s) /\ Steady(s)
      BY Zenon, <1>5, <2>2 DEF EndPart
    <3>2. QED
      BY Zenon, <1>1, <1>4, <2>2, <3>1, EndStillFits
  <2>3. QED
    BY Zenon, <2>1, <2>2
<1>7. EndPart'
  BY Zenon, <1>1, <1>6 DEF EndPart, OnlyEnds
<1>8. /\ toClient \in Seq(Packet) /\ toClient' \in Seq(Packet)
      /\ Len(toClient) \in Nat /\ Len(toClient') \in Nat
      /\ Len(toClient') = Len(toClient) - h
      /\ \A n \in 1 .. Len(toClient') : /\ toClient'[n] = toClient[n + h]
                                        /\ toClient'[n].sid \notin D
  BY <1>1 DEF QueuePart, QueueMoves
<1>9. \A n \in 1 .. Len(toClient') : n + h \in 1 .. Len(toClient)
  BY <1>8
<1>10. ASSUME NEW n \in 1 .. Len(toClient') PROVE PacketFits(toClient[n])'
  <2>1. n + h \in 1 .. Len(toClient)
    BY Zenon, <1>9
  <2>2. toClient[n + h] \in Packet /\ toClient'[n] = toClient[n + h]
    BY <1>8, <2>1
  <2>3. toClient'[n].sid \notin D /\ PacketFits(toClient[n + h])
    BY Zenon, <1>8, <2>1 DEF QueuePart
  <2>4. ASSUME NEW m \in Packet, m = toClient[n + h] PROVE PacketFits(m)'
    <3>1. PacketFits(m) /\ m.sid \notin D
      BY Zenon, <2>2, <2>3, <2>4
    <3>2. m.sid \in Conns
      BY DEF Packet
    <3>3. Steady(m.sid)
      BY Zenon, <1>5, <3>1, <3>2
    <3>4. QED
      BY <1>1, <1>4, <3>1, <3>3, PacketStillFits
  <2>5. \A m \in Packet : m = toClient'[n] => PacketFits(m)'
    BY Zenon, <2>2, <2>4
  <2>6. QED
    BY Zenon, <2>2, <2>5 DEF PacketFits, Made, Held
<1>11. ASSUME NEW n \in 1 .. Len(toClient'), NEW l \in 1 .. Len(toClient'), n < l
       PROVE  Before(toClient[n], toClient[l])'
  <2>1. n + h < l + h
    BY <1>11
  <2>2. Before(toClient[n + h], toClient[l + h])
    BY Zenon, <1>9, <2>1 DEF QueuePart
  <2>3. QED
    BY Zenon, <1>8, <2>2 DEF Before
<1>12. QueuePart'
  BY Zenon, <1>8, <1>10, <1>11 DEF QueuePart
<1>13. NoSlotOutlivesServer'
  <2> SUFFICES ASSUME NEW i \in Conns, Held(i)', sv'[slots'[i].conn].st = "done"
               PROVE  \E n \in 1 .. Len(toClient') : /\ toClient'[n].kind = "FAIL"
                                                     /\ toClient'[n].sid = slots'[i].conn
    BY Zenon DEF NoSlotOutlivesServer, Held
  <2> DEFINE c == slots'[i].conn
  <2>1. c \notin D
    BY Zenon DEF OnlyEnds
  <2>2. EmptySlot.status = {}
    BY DEF EmptySlot
  <2>3. Continues(i)
    BY Zenon, <2>2, <1>1 DEF SlotsKept, Held
  <2>4. Held(i) /\ slots[i].conn = c
    BY Zenon, <2>3 DEF Continues
  <2>5. c \in Conns
    BY <2>4, <1>1 DEF SlotPart, SlotShape, Conns
  <2>6. sv[c].st = "done"
    BY Zenon, <2>1, <2>5, <1>5 DEF Steady
  <2>7. PICK n \in 1 .. Len(toClient) : toClient[n].kind = "FAIL" /\ toClient[n].sid = c
    BY Zenon, <2>4, <2>6 DEF NoSlotOutlivesServer, Held
  <2>8. CASE h = 1 /\ n = 1
    BY Zenon, <2>1, <2>7, <2>8, <1>1 DEF QueueMoves
  <2>9. CASE h = 0 \/ n # 1
    <3>1. n - h \in 1 .. Len(toClient') /\ (n - h) + h = n
      BY <1>8, <2>9
    <3>2. toClient'[n - h] = toClient[n]
      BY <1>8, <3>1
    <3>3. QED
      BY Zenon, <2>7, <3>1, <3>2
  <2>10. QED
    BY Zenon, <2>8, <2>9
<1>14. QED
  BY Zenon, <1>3, <1>7, <1>12, <1>13
-----------------------------------------------------------------------------
(* A step that makes entry i or entry k, or both, for connection c.        *)
OnlyAdds(h, c, i, k) ==
    /\ nconns' \in 0 .. MaxConns /\ nconns <= nconns'
    /\ c \in 1 .. nconns' /\ ~Made(c)
    /\ ~Held(i) /\ ~chans[k].used
    /\ \A j \in Conns : j # i => slots'[j] = slots[j]
    /\ slots'[i] = slots[i] \/ slots'[i].conn = c
    /\ \A l \in Conns : l # k => chans'[l] = chans[l]
    /\ chans'[k] = chans[k] \/ (chans'[k].local = i /\ chans'[k].conn = c)
    /\ sv' \in [Conns -> SvEnd]
    /\ \A s \in Conns : s # c => sv'[s] = sv[s]
    /\ EndShape(c)'
    /\ slots'[i] = slots[i] \/ sv'[c].st # "done"
    /\ QueueMoves(h, { c })

(* Only connection c is new.                                               *)
LEMMA OnlyOneMade ==
    ASSUME NEW h, NEW c, NEW i \in Conns, NEW k \in Conns, OnlyAdds(h, c, i, k),
           NEW d, d # c, Made(d)'
    PROVE  Made(d)
<1>1. ASSUME NEW j \in Conns, Held(j)', slots'[j].conn = d PROVE Made(d)
  <2>1. slots'[j] = slots[j]
    BY Zenon, <1>1 DEF OnlyAdds
  <2>2. QED
    BY Zenon, <1>1, <2>1 DEF Made, Held
<1>2. ASSUME NEW l \in Conns, chans'[l].used, chans'[l].conn = d PROVE Made(d)
  <2>1. chans'[l] = chans[l]
    BY Zenon, <1>2 DEF OnlyAdds
  <2>2. QED
    BY Zenon, <1>2, <2>1 DEF Made
<1>3. QED
  BY Zenon, <1>1, <1>2 DEF Made, Held

(* What such a step leaves true.                                           *)
LEMMA OnlyAddsKeeps ==
    ASSUME Pair, EndPart, QueuePart, NoSlotOutlivesServer,
           SlotPart', NEW h \in { 0, 1 }, NEW c \in Conns, NEW i \in Conns, NEW k \in Conns,
           OnlyAdds(h, c, i, k)
    PROVE  Pair' /\ EndPart' /\ QueuePart' /\ NoSlotOutlivesServer'
<1>1. /\ nconns \in Nat /\ nconns' \in Nat /\ MaxConns \in Nat /\ nconns <= nconns'
      /\ QueueMoves(h, { c })
  BY FwdAssumption DEF OnlyAdds, EndPart
<1>2. Pair'
  <2> SUFFICES ASSUME NEW j \in Conns, NEW l \in Conns, Held(j)', chans'[l].used,
                      chans'[l].conn = slots'[j].conn
               PROVE  chans'[l].local = j
    BY Zenon DEF Pair, Held
  <2>1. CASE slots'[j] = slots[j] /\ chans'[l] = chans[l]
    <3>1. Held(j) /\ chans[l].used /\ chans[l].conn = slots[j].conn
      BY Zenon, <2>1 DEF Held
    <3>2. chans[l].local = j
      BY Zenon, <3>1 DEF Pair
    <3>3. QED
      BY Zenon, <2>1, <3>2
  <2>2. CASE slots'[j] # slots[j] /\ chans'[l] # chans[l]
    BY Zenon, <2>2 DEF OnlyAdds
  <2>3. CASE slots'[j] # slots[j] /\ chans'[l] = chans[l]
    <3>1. slots'[j].conn = c /\ ~Made(c)
      BY Zenon, <2>3 DEF OnlyAdds
    <3>2. chans[l].used /\ chans[l].conn = c
      BY Zenon, <2>3, <3>1
    <3>3. QED
      BY Zenon, <3>1, <3>2 DEF Made
  <2>4. CASE slots'[j] = slots[j] /\ chans'[l] # chans[l]
    <3>1. chans'[l].conn = c
      BY Zenon, <2>4 DEF OnlyAdds
    <3>2. Held(j) /\ slots[j].conn = c
      BY Zenon, <2>4, <3>1 DEF Held
    <3>3. QED
      BY Zenon, <3>2 DEF OnlyAdds, Made
  <2>5. QED
    BY Zenon, <2>1, <2>2, <2>3, <2>4
<1>3. \A l \in Conns : chans[l].used => chans'[l] = chans[l]
  BY Zenon DEF OnlyAdds
<1>4. ASSUME NEW s \in Conns PROVE EndShape(s)'
  <2>1. CASE s = c
    BY Zenon, <2>1 DEF OnlyAdds
  <2>2. CASE s # c
    <3>1. sv'[s] = sv[s] /\ EndShape(s)
      BY Zenon, <2>2 DEF OnlyAdds, EndPart
    <3>2. s \in Nat /\ (s > nconns' => s > nconns)
      BY <1>1 DEF Conns
    <3>3. QED
      BY Zenon, <1>3, <3>1, <3>2 DEF EndShape
  <2>3. QED
    BY Zenon, <2>1, <2>2
<1>5. EndPart'
  BY Zenon, <1>4 DEF EndPart, OnlyAdds
<1>6. /\ toClient \in Seq(Packet) /\ toClient' \in Seq(Packet)
      /\ Len(toClient) \in Nat /\ Len(toClient') \in Nat
      /\ Len(toClient') = Len(toClient) - h
      /\ \A n \in 1 .. Len(toClient') : /\ toClient'[n] = toClient[n + h]
                                        /\ toClient'[n].sid \notin { c }
  BY <1>1 DEF QueuePart, QueueMoves
<1>7. \A n \in 1 .. Len(toClient') : n + h \in 1 .. Len(toClient)
  BY <1>6
<1>8. ASSUME NEW m \in Packet, PacketFits(m), m.sid # c PROVE PacketFits(m)'
  <2>1. m.sid \in Conns /\ sv'[m.sid] = sv[m.sid]
    BY <1>8 DEF OnlyAdds, Packet
  <2>2. m.sid \in 1 .. nconns'
    BY <1>1, <1>8 DEF PacketFits
  <2>3. m.kind = "OPEN" => ~Made(m.sid)'
    BY Zenon, <1>8, OnlyOneMade DEF PacketFits
  <2>4. QED
    BY Zenon, <1>3, <1>8, <2>1, <2>2, <2>3 DEF PacketFits
<1>9. ASSUME NEW n \in 1 .. Len(toClient') PROVE PacketFits(toClient[n])'
  <2>1. n + h \in 1 .. Len(toClient)
    BY Zenon, <1>7
  <2>2. toClient[n + h] \in Packet /\ toClient'[n] = toClient[n + h]
    BY <1>6, <2>1
  <2>3. toClient'[n].sid # c /\ PacketFits(toClient[n + h])
    BY Zenon, <1>6, <2>1 DEF QueuePart
  <2>4. \A m \in Packet : m = toClient'[n] => PacketFits(m)'
    BY Zenon, <1>8, <2>2, <2>3
  <2>5. QED
    BY Zenon, <2>2, <2>4 DEF PacketFits, Made, Held
<1>10. ASSUME NEW n \in 1 .. Len(toClient'), NEW l \in 1 .. Len(toClient'), n < l
       PROVE  Before(toClient[n], toClient[l])'
  <2>1. n + h < l + h
    BY <1>10
  <2>2. Before(toClient[n + h], toClient[l + h])
    BY Zenon, <1>7, <2>1 DEF QueuePart
  <2>3. QED
    BY Zenon, <1>6, <2>2 DEF Before
<1>11. QueuePart'
  BY Zenon, <1>6, <1>9, <1>10 DEF QueuePart
<1>12. NoSlotOutlivesServer'
  <2> SUFFICES ASSUME NEW j \in Conns, Held(j)', sv'[slots'[j].conn].st = "done"
               PROVE  \E n \in 1 .. Len(toClient') : /\ toClient'[n].kind = "FAIL"
                                                     /\ toClient'[n].sid = slots'[j].conn
    BY Zenon DEF NoSlotOutlivesServer, Held
  <2> DEFINE d == slots'[j].conn
  <2>0. slots'[j] = slots[j]
    BY Zenon DEF OnlyAdds
  <2>1. Held(j) /\ slots[j].conn = d
    BY Zenon, <2>0 DEF Held
  <2>2. d \in Conns
    BY <1>1 DEF SlotPart, SlotShape, Conns, Held, OnlyAdds
  <2>3. d # c
    BY Zenon, <2>1 DEF OnlyAdds, Made
  <2>4. sv[d].st = "done"
    BY Zenon, <2>2, <2>3 DEF OnlyAdds
  <2>5. PICK n \in 1 .. Len(toClient) : toClient[n].kind = "FAIL" /\ toClient[n].sid = d
    BY Zenon, <2>1, <2>4 DEF NoSlotOutlivesServer, Held
  <2>6. CASE h = 1 /\ n = 1
    BY Zenon, <2>3, <2>5, <2>6, <1>1 DEF QueueMoves
  <2>7. CASE h = 0 \/ n # 1
    <3>1. n - h \in 1 .. Len(toClient') /\ (n - h) + h = n
      BY <1>6, <2>7
    <3>2. toClient'[n - h] = toClient[n]
      BY <1>6, <3>1
    <3>3. QED
      BY Zenon, <2>5, <3>1, <3>2
  <2>8. QED
    BY Zenon, <2>6, <2>7
<1>13. QED
  BY Zenon, <1>2, <1>5, <1>11, <1>12
-----------------------------------------------------------------------------
(* A step of the server, with packet m.                                    *)
OnlySends(m) ==
    /\ toClient' = Append(toClient, m)
    /\ UNCHANGED << slots, chans >>
    /\ nconns' \in 0 .. MaxConns /\ nconns <= nconns'
    /\ sv' \in [Conns -> SvEnd]
    /\ \A s \in Conns : s # m.sid => sv'[s] = sv[s]
    /\ EndShape(m.sid)'
    /\ PacketFits(m)'
    /\ sv'[m.sid].st = "done" => m.kind = "FAIL"
    /\ \A n \in 1 .. Len(toClient) :
          toClient[n].sid = m.sid => PacketFits(toClient[n])' /\ Before(toClient[n], m)

(* What such a step leaves true.                                           *)
LEMMA OnlySendsKeeps ==
    ASSUME SlotPart, ChanPart, Pair, EndPart, QueuePart, NoSlotOutlivesServer,
           NEW m \in Packet, OnlySends(m)
    PROVE  SlotPart' /\ ChanPart' /\ Pair' /\ EndPart' /\ QueuePart' /\ NoSlotOutlivesServer'
<1>1. /\ nconns \in Nat /\ nconns' \in Nat /\ MaxConns \in Nat /\ nconns <= nconns'
      /\ slots' = slots /\ chans' = chans
  BY FwdAssumption DEF OnlySends, EndPart
<1>2. \A c : c \in 1 .. nconns => c \in 1 .. nconns'
  BY <1>1
<1>3. SlotPart'
  <2>1. \A j \in Conns : SlotShape(j)'
    BY Zenon, <1>1, <1>2 DEF SlotPart, SlotShape, Held
  <2>2. QED
    BY Zenon, <1>1, <2>1 DEF SlotPart, Held
<1>4. ChanPart'
  <2>1. \A k \in Conns : ChanShape(k)'
    BY Zenon, <1>1, <1>2 DEF ChanPart, ChanShape
  <2>2. QED
    BY Zenon, <1>1, <2>1 DEF ChanPart
<1>5. Pair'
  BY Zenon, <1>1 DEF Pair, Held
<1>6. ASSUME NEW s \in Conns PROVE EndShape(s)'
  <2>1. CASE s = m.sid
    BY Zenon, <2>1 DEF OnlySends
  <2>2. CASE s # m.sid
    <3>1. sv'[s] = sv[s] /\ EndShape(s)
      BY Zenon, <2>2 DEF OnlySends, EndPart
    <3>2. s \in Nat /\ (s > nconns' => s > nconns)
      BY <1>1 DEF Conns
    <3>3. QED
      BY Zenon, <1>1, <3>1, <3>2 DEF EndShape
  <2>3. QED
    BY Zenon, <2>1, <2>2
<1>7. EndPart'
  BY Zenon, <1>6 DEF EndPart, OnlySends
<1>8. /\ toClient \in Seq(Packet) /\ toClient' \in Seq(Packet)
      /\ Len(toClient) \in Nat /\ Len(toClient') = Len(toClient) + 1
      /\ \A n \in 1 .. Len(toClient) : toClient'[n] = toClient[n] /\ n \in 1 .. Len(toClient')
      /\ toClient'[Len(toClient')] = m
  BY DEF QueuePart, OnlySends
<1>9. ASSUME NEW n \in 1 .. Len(toClient') PROVE PacketFits(toClient[n])'
  <2>1. CASE n = Len(toClient')
    <3>1. toClient'[n] = m
      BY Zenon, <1>8, <2>1
    <3>2. PacketFits(m)'
      BY Zenon DEF OnlySends
    <3>3. QED
      BY Zenon, <3>1, <3>2 DEF PacketFits, Made, Held
  <2>2. CASE n # Len(toClient')
    <3>1. n \in 1 .. Len(toClient)
      BY <1>8, <2>2
    <3>2. toClient'[n] = toClient[n] /\ toClient[n] \in Packet /\ PacketFits(toClient[n])
      BY <1>8, <3>1 DEF QueuePart
    <3>3. CASE toClient[n].sid = m.sid
      BY Zenon, <3>1, <3>3 DEF OnlySends
    <3>4. CASE toClient[n].sid # m.sid
      <4>1. ASSUME NEW x \in Packet, x.sid # m.sid, PacketFits(x) PROVE PacketFits(x)'
        <5>1. x.sid \in Conns /\ sv'[x.sid] = sv[x.sid]
          BY <4>1 DEF OnlySends, Packet
        <5>2. x.sid \in 1 .. nconns'
          BY <1>2, <4>1 DEF PacketFits
        <5>3. Made(x.sid)' <=> Made(x.sid)
          BY Zenon, <1>1 DEF Made, Held
        <5>4. QED
          BY Zenon, <1>1, <4>1, <5>1, <5>2, <5>3 DEF PacketFits
      <4>2. \A x \in Packet : x = toClient'[n] => PacketFits(x)'
        BY Zenon, <3>2, <3>4, <4>1
      <4>3. QED
        BY Zenon, <3>2, <4>2 DEF PacketFits, Made, Held
    <3>5. QED
      BY Zenon, <3>3, <3>4
  <2>3. QED
    BY Zenon, <2>1, <2>2
<1>10. ASSUME NEW n \in 1 .. Len(toClient'), NEW l \in 1 .. Len(toClient'), n < l
       PROVE  Before(toClient[n], toClient[l])'
  <2>1. n \in 1 .. Len(toClient) /\ (l \in 1 .. Len(toClient) \/ l = Len(toClient'))
    BY <1>8, <1>10
  <2>2. toClient'[n] = toClient[n]
    BY Zenon, <1>8, <2>1
  <2>3. CASE l \in 1 .. Len(toClient)
    <3>1. toClient'[l] = toClient[l] /\ Before(toClient[n], toClient[l])
      BY Zenon, <1>8, <1>10, <2>1, <2>3 DEF QueuePart
    <3>2. QED
      BY Zenon, <2>2, <3>1 DEF Before
  <2>4. CASE l = Len(toClient')
    <3>1. toClient'[l] = m
      BY Zenon, <1>8, <2>4
    <3>2. toClient[n].sid = m.sid => Before(toClient[n], m)
      BY Zenon, <2>1 DEF OnlySends
    <3>3. QED
      BY Zenon, <2>2, <3>1, <3>2 DEF Before
  <2>5. QED
    BY Zenon, <2>1, <2>3, <2>4
<1>11. QueuePart'
  BY Zenon, <1>8, <1>9, <1>10 DEF QueuePart
<1>12. NoSlotOutlivesServer'
  <2> SUFFICES ASSUME NEW j \in Conns, Held(j)', sv'[slots'[j].conn].st = "done"
               PROVE  \E n \in 1 .. Len(toClient') : /\ toClient'[n].kind = "FAIL"
                                                     /\ toClient'[n].sid = slots'[j].conn
    BY Zenon DEF NoSlotOutlivesServer, Held
  <2> DEFINE d == slots[j].conn
  <2>1. Held(j) /\ slots'[j].conn = d
    BY Zenon, <1>1 DEF Held
  <2>2. d \in Conns
    BY <1>1, <2>1 DEF SlotPart, SlotShape, Conns, OnlySends, EndPart
  <2>3. CASE d = m.sid
    <3>1. m.kind = "FAIL"
      BY Zenon, <2>1, <2>3 DEF OnlySends
    <3>2. Len(toClient') \in 1 .. Len(toClient')
      BY <1>8
    <3>3. QED
      BY Zenon, <1>8, <2>1, <2>3, <3>1, <3>2
  <2>4. CASE d # m.sid
    <3>1. sv[d].st = "done"
      BY Zenon, <2>1, <2>2, <2>4 DEF OnlySends
    <3>2. PICK n \in 1 .. Len(toClient) : toClient[n].kind = "FAIL" /\ toClient[n].sid = d
      BY Zenon, <2>1, <3>1 DEF NoSlotOutlivesServer, Held
    <3>3. QED
      BY Zenon, <1>8, <2>1, <3>2
  <2>5. QED
    BY Zenon, <2>3, <2>4
<1>13. QED
  BY Zenon, <1>3, <1>4, <1>5, <1>7, <1>11, <1>12
-----------------------------------------------------------------------------
(* What the server makes of packets.                                       *)

(* An end that a packet moves, and how.                                    *)
LEMMA PlacedEnd ==
    ASSUME NEW s \in SvEnd, NEW cid \in 0 .. MaxConns
    PROVE  /\ Placed("CONFIRM", s, cid) = [s EXCEPT !.st = "open", !.cid = cid]
           /\ Placed("FAIL", s, cid) = [s EXCEPT !.st = "done"]
           /\ Placed("CLOSE", s, cid) = [s EXCEPT !.st = "done"]
           /\ Placed("EOF", s, cid) = [s EXCEPT !.gotEof = TRUE]
           /\ Placed("DATA", s, cid) = s
           /\ \A k \in { "CONFIRM", "FAIL", "CLOSE", "EOF", "DATA" } :
                 Placed(k, s, cid) \in SvEnd
<1>1. Placed("CONFIRM", s, cid) = [s EXCEPT !.st = "open", !.cid = cid]
  BY DEF Placed
<1>2. Placed("FAIL", s, cid) = [s EXCEPT !.st = "done"]
  BY DEF Placed
<1>3. Placed("CLOSE", s, cid) = [s EXCEPT !.st = "done"]
  BY DEF Placed
<1>4. Placed("EOF", s, cid) = [s EXCEPT !.gotEof = TRUE]
  BY DEF Placed
<1>5. Placed("DATA", s, cid) = s
  BY DEF Placed
<1>6. /\ [s EXCEPT !.st = "open", !.cid = cid] \in SvEnd
      /\ [s EXCEPT !.st = "done"] \in SvEnd /\ [s EXCEPT !.gotEof = TRUE] \in SvEnd
  BY DEF SvEnd
<1>7. QED
  BY <1>1, <1>2, <1>3, <1>4, <1>5, <1>6

(* Who is expected when.                                                   *)
LEMMA ExpectedEnd ==
    ASSUME NEW s
    PROVE  /\ Expected("CONFIRM", s) <=> s.st = "opening"
           /\ Expected("FAIL", s) <=> s.st = "opening"
           /\ Expected("DATA", s) <=> (s.st = "open" /\ ~s.gotEof)
           /\ Expected("EOF", s) <=> (s.st = "open" /\ ~s.gotEof)
           /\ Expected("CLOSE", s) <=> s.st = "open"
<1>1. Expected("CONFIRM", s) <=> s.st = "opening"
  BY DEF Expected
<1>2. Expected("FAIL", s) <=> s.st = "opening"
  BY DEF Expected
<1>3. Expected("DATA", s) <=> (s.st = "open" /\ ~s.gotEof)
  BY DEF Expected
<1>4. Expected("EOF", s) <=> (s.st = "open" /\ ~s.gotEof)
  BY DEF Expected
<1>5. Expected("CLOSE", s) <=> s.st = "open"
  BY DEF Expected
<1>6. QED
  BY Zenon, <1>1, <1>2, <1>3, <1>4, <1>5

(* TellAll moves the ends that expect the packet, and no other; the server *)
(* is confused if it was or if one of them does not.                       *)
LEMMA TellAllMoves ==
    ASSUME sv \in [Conns -> SvEnd], confused \in BOOLEAN,
           NEW k \in { "CONFIRM", "FAIL", "CLOSE", "EOF", "DATA" }, NEW S,
           NEW cid \in 0 .. MaxConns, TellAll(k, S, cid)
    PROVE  /\ sv' \in [Conns -> SvEnd] /\ confused' \in BOOLEAN
           /\ \A s \in Conns : IF s \in S /\ Expected(k, sv[s])
                               THEN sv'[s] = Placed(k, sv[s], cid) ELSE sv'[s] = sv[s]
           /\ confused' <=> \/ confused
                            \/ ~(\A s \in S : s \in Conns /\ Expected(k, sv[s]))
<1> DEFINE good == { s \in S : s \in Conns /\ Expected(k, sv[s]) }
<1>1. sv' = [s \in Conns |-> IF s \in good THEN Placed(k, sv[s], cid) ELSE sv[s]]
  BY Zenon DEF TellAll
<1>2. confused' = (confused \/ good # S)
  BY Zenon DEF TellAll
<1>3. good = S <=> \A s \in S : s \in Conns /\ Expected(k, sv[s])
  OBVIOUS
<1>4. \A s : s \in good <=> s \in S /\ s \in Conns /\ Expected(k, sv[s])
  BY Zenon
<1> HIDE DEF good
<1>5. confused' \in BOOLEAN /\ (confused' <=> (confused \/ good # S))
  BY <1>2
<1>6. ASSUME NEW s \in Conns PROVE Placed(k, sv[s], cid) \in SvEnd /\ sv[s] \in SvEnd
  <2>1. sv[s] \in SvEnd
    OBVIOUS
  <2>2. QED
    BY <2>1, PlacedEnd
<1>7. ASSUME NEW s \in Conns
      PROVE  sv'[s] = IF s \in good THEN Placed(k, sv[s], cid) ELSE sv[s]
  BY Zenon, <1>1
<1>8. sv' \in [Conns -> SvEnd]
  <2>1. \A s \in Conns : (IF s \in good THEN Placed(k, sv[s], cid) ELSE sv[s]) \in SvEnd
    BY Zenon, <1>6
  <2>2. QED
    BY Zenon, <1>1, <2>1
<1>9. \A s \in Conns : IF s \in S /\ Expected(k, sv[s])
                       THEN sv'[s] = Placed(k, sv[s], cid) ELSE sv'[s] = sv[s]
  BY Zenon, <1>4, <1>7
<1>10. QED
  BY Zenon, <1>3, <1>5, <1>8, <1>9
-----------------------------------------------------------------------------
(* What the actions have in common.                                        *)

(* The search finds one of the channels it looks among.                    *)
LEMMA LookupFinds ==
    ASSUME NEW i, ChansOf(i) # {}
    PROVE  /\ local_channel_lookup(i) \in Conns
           /\ chans[local_channel_lookup(i)].used
           /\ chans[local_channel_lookup(i)].local = i
<1>1. ChansOf(i) \in SUBSET Nat
  BY DEF ChansOf, Conns
<1>2. Min(ChansOf(i)) \in ChansOf(i)
  BY Zenon, <1>1, MinIsMember
<1>3. QED
  BY Zenon, <1>2 DEF local_channel_lookup, ChansOf

(* Arrays that stay as they are.                                           *)
LEMMA SameSlots ==
    ASSUME SlotPart, slots' = slots
    PROVE  SlotsKept
<1>1. ASSUME NEW i \in Conns
      PROVE  \/ slots'[i] = EmptySlot
             \/ Continues(i) /\ (slots'[i].sock = "connecting" => slots'[i].request = "R")
  <2>1. SlotShape(i)
    BY Zenon DEF SlotPart
  <2>2. QED
    BY Zenon, <2>1 DEF SlotShape, Continues, Held
<1>2. QED
  BY Zenon, <1>1 DEF SlotsKept, SlotPart

(* The same for channels.                                                  *)
LEMMA SameChans ==
    ASSUME ChanPart, chans' = chans
    PROVE  ChansKept
<1>1. ASSUME NEW k \in Conns PROVE chans'[k] = EmptyChan \/ ChanGoesOn(k)
  <2>1. ChanShape(k)
    BY Zenon DEF ChanPart
  <2>2. CASE chans[k].used
    BY <2>2 DEF ChanGoesOn
  <2>3. CASE ~chans[k].used
    BY Zenon, <2>1, <2>3 DEF ChanShape
  <2>4. QED
    BY Zenon, <2>2, <2>3
<1>2. QED
  BY Zenon, <1>1 DEF ChansKept, ChanPart

(* No packet is taken.                                                     *)
LEMMA NoneTaken ==
    ASSUME QueuePart, toClient' = toClient, NEW D,
           \A n \in 1 .. Len(toClient) : toClient[n].sid \notin D
    PROVE  QueueMoves(0, D)
<1>1. toClient' \in Seq(Packet) /\ Len(toClient') \in Nat
  BY DEF QueuePart
<1>2. \A n \in 1 .. Len(toClient') : n + 0 = n
  BY <1>1
<1>3. Len(toClient') = Len(toClient) - 0
  BY <1>1
<1>4. \A n \in 1 .. Len(toClient') : toClient'[n] = toClient[n + 0] /\ toClient'[n].sid \notin D
  BY Zenon, <1>2
<1>5. 0 # 1
  OBVIOUS
<1>6. QED
  BY Zenon, <1>1, <1>3, <1>4, <1>5 DEF QueueMoves

(* The first packet is taken: it fits, and the ones after it come after it.*)
LEMMA OneTaken ==
    ASSUME QueuePart, NEW k, Arrives(k), NEW D,
           D \subseteq { Head(toClient).sid },
           k = "FAIL" => Head(toClient).sid \in D,
           D = {} \/ k \in { "OPEN", "FAIL", "CLOSE" }
    PROVE  /\ Head(toClient) \in Packet /\ PacketFits(Head(toClient))
           /\ Head(toClient).kind = k
           /\ QueueMoves(1, D)
<1> DEFINE m == Head(toClient)
<1>1. /\ toClient \in Seq(Packet) /\ toClient # << >> /\ toClient' = Tail(toClient)
      /\ m.kind = k
  BY Zenon DEF QueuePart, Arrives
<1>2. /\ Len(toClient) \in Nat /\ Len(toClient) > 0 /\ m = toClient[1] /\ m \in Packet
      /\ 1 \in 1 .. Len(toClient)
      /\ toClient' \in Seq(Packet) /\ Len(toClient') = Len(toClient) - 1
      /\ \A n \in 1 .. Len(toClient') : toClient'[n] = toClient[n + 1]
      /\ \A n \in 1 .. Len(toClient') : n + 1 \in 1 .. Len(toClient) /\ 1 < n + 1
  BY <1>1
<1>3. PacketFits(m)
  BY Zenon, <1>2 DEF QueuePart
<1>4. ASSUME NEW n \in 1 .. Len(toClient') PROVE toClient'[n].sid \notin D
  <2>1. Before(m, toClient'[n])
    BY Zenon, <1>2 DEF QueuePart
  <2>2. CASE D = {}
    BY <2>2
  <2>3. CASE k \in { "OPEN", "FAIL", "CLOSE" }
    <3>1. m.kind \notin { "CONFIRM", "DATA", "EOF" }
      BY <1>1, <2>3
    <3>2. m.sid # toClient'[n].sid
      BY Zenon, <2>1, <3>1 DEF Before
    <3>3. QED
      BY <3>2
  <2>4. QED
    BY Zenon, <2>2, <2>3
<1>5. toClient[1].kind = "FAIL" => toClient[1].sid \in D
  BY Zenon, <1>1, <1>2
<1>6. QED
  BY Zenon, <1>1, <1>2, <1>3, <1>4, <1>5 DEF QueueMoves

(* No packet is under way for an opening connection the client has made.   *)
LEMMA OpeningIsQuiet ==
    ASSUME QueuePart, NEW s, sv[s].st = "opening", Made(s)
    PROVE  \A n \in 1 .. Len(toClient) : toClient[n].sid # s
<1> SUFFICES ASSUME NEW n \in 1 .. Len(toClient), toClient[n].sid = s PROVE FALSE
  OBVIOUS
<1>1. PacketFits(toClient[n])
  BY Zenon DEF QueuePart
<1>2. toClient[n].kind # "OPEN"
  BY Zenon, <1>1 DEF PacketFits
<1>3. sv[s].st = IF toClient[n].kind = "FAIL" THEN "done" ELSE "open"
  BY Zenon, <1>1, <1>2 DEF PacketFits
<1>4. QED
  BY <1>3

(* A step that ends nothing.                                               *)
LEMMA QuietKeeps ==
    ASSUME SlotPart, ChanPart, Pair, EndPart, QueuePart, NoSlotOutlivesServer,
           NEW h \in { 0, 1 }, QueueMoves(h, {}), SlotsKept, ChansKept,
           \A k \in Conns : chans[k].used => chans'[k].used,
           nconns' = nconns, sv' \in [Conns -> SvEnd], \A s \in Conns : Steady(s)
    PROVE  /\ SlotPart' /\ ChanPart' /\ Pair'
           /\ EndPart' /\ QueuePart' /\ NoSlotOutlivesServer'
<1>1. OnlyEnds(h, {})
  BY DEF OnlyEnds
<1>2. QED
  BY Zenon, <1>1, OnlyEndsKeeps

(* A step that changes neither the channels nor the slots' connections.    *)
LEMMA ChansStay ==
    ASSUME SlotPart, ChanPart, Pair, EndPart, QueuePart, NoSlotOutlivesServer,
           SlotsKept, chans' = chans, nconns' = nconns,
           sv' \in [Conns -> SvEnd], \A s \in Conns : Steady(s),
           toClient' = toClient \/ \E k \in Kinds \ { "FAIL" } : Arrives(k)
    PROVE  /\ SlotPart' /\ ChanPart' /\ Pair'
           /\ EndPart' /\ QueuePart' /\ NoSlotOutlivesServer'
<1>1. ChansKept /\ \A k \in Conns : chans[k].used => chans'[k].used
  BY Zenon, SameChans
<1>2. CASE toClient' = toClient
  <2>1. QueueMoves(0, {})
    BY <1>2, NoneTaken
  <2>2. QED
    BY <1>1, <2>1, QuietKeeps
<1>3. CASE \E k \in Kinds \ { "FAIL" } : Arrives(k)
  <2>1. PICK k \in Kinds \ { "FAIL" } : Arrives(k)
    BY Zenon, <1>3
  <2>2. QueueMoves(1, {})
    BY <2>1, OneTaken
  <2>3. QED
    BY <1>1, <2>2, QuietKeeps
<1>4. QED
  BY Zenon, <1>2, <1>3

(* EOF and data leave every end where it is.                               *)
LEMMA ToldSteady ==
    ASSUME EndPart, confused \in BOOLEAN, NEW k \in { "EOF", "DATA" }, NEW s, Tell(k, s, 0)
    PROVE  sv' \in [Conns -> SvEnd] /\ confused' \in BOOLEAN /\ \A d \in Conns : Steady(d)
<1>1. sv \in [Conns -> SvEnd] /\ 0 \in 0 .. MaxConns /\ TellAll(k, { s }, 0)
  BY FwdAssumption DEF EndPart, Tell
<1>2. /\ sv' \in [Conns -> SvEnd] /\ confused' \in BOOLEAN
      /\ \A d \in Conns : IF d \in { s } /\ Expected(k, sv[d])
                          THEN sv'[d] = Placed(k, sv[d], 0) ELSE sv'[d] = sv[d]
  BY <1>1, TellAllMoves
<1>3. ASSUME NEW d \in Conns PROVE Steady(d)
  <2>1. sv[d] \in SvEnd
    BY <1>1
  <2>2. Placed(k, sv[d], 0) \in { [sv[d] EXCEPT !.gotEof = TRUE], sv[d] }
    BY <1>1, <2>1, PlacedEnd
  <2>3. sv'[d] = sv[d] \/ sv'[d] = [sv[d] EXCEPT !.gotEof = TRUE]
    BY Zenon, <1>2, <2>2
  <2>4. QED
    BY <2>1, <2>3 DEF Steady, SvEnd
<1>4. QED
  BY Zenon, <1>2, <1>3

(* So does saying nothing.                                                 *)
LEMMA NotToldSteady ==
    ASSUME EndPart, confused \in BOOLEAN, UNCHANGED << sv, confused >>
    PROVE  sv' \in [Conns -> SvEnd] /\ confused' \in BOOLEAN /\ \A d \in Conns : Steady(d)
BY Zenon DEF EndPart, Steady
-----------------------------------------------------------------------------
(* The actions that end nothing.                                           *)

(* A slot whose socket, status, address or buffer changes.                 *)
LEMMA TouchedSlot ==
    ASSUME SlotPart, NEW i \in Conns, Held(i), NEW t \in Slot,
           slots[i].status \subseteq t.status,
           t.request = slots[i].request, t.remote = slots[i].remote, t.conn = slots[i].conn,
           t.sock = "connecting" => slots[i].sock = "connecting",
           slots' = [slots EXCEPT ![i] = t]
    PROVE  Touched(i)
<1>1. slots \in [Conns -> Slot] /\ SlotShape(i)
  BY Zenon DEF SlotPart
<1>2. slots' \in [Conns -> Slot] /\ slots'[i] = t /\ \A j \in Conns : j # i => slots'[j] = slots[j]
  BY <1>1
<1>3. Continues(i)
  BY <1>2 DEF Continues, Held
<1>4. ASSUME NEW j \in Conns
      PROVE  \/ slots'[j] = EmptySlot
             \/ Continues(j) /\ (slots'[j].sock = "connecting" => slots'[j].request = "R")
  <2>1. CASE j = i
    BY <1>1, <1>2, <1>3, <2>1 DEF SlotShape
  <2>2. CASE j # i
    <3>1. SlotShape(j) /\ slots'[j] = slots[j]
      BY Zenon, <1>2, <2>2 DEF SlotPart
    <3>2. QED
      BY Zenon, <3>1 DEF SlotShape, Continues, Held
  <2>3. QED
    BY Zenon, <2>1, <2>2
<1>5. QED
  BY Zenon, <1>2, <1>3, <1>4 DEF Touched, SlotsKept

(* A slot with a socket is in use.                                         *)
LEMMA SocketHeld ==
    ASSUME SlotPart, NEW i \in Conns, slots[i].sock # "none"
    PROVE  Held(i)
<1>1. SlotShape(i) /\ EmptySlot.sock = "none"
  BY DEF SlotPart, EmptySlot
<1>2. QED
  BY Zenon, <1>1 DEF SlotShape

(* SSH_channel_input_eof                                                   *)
LEMMA InputEofSteady ==
    ASSUME EndPart, confused \in BOOLEAN, NEW i, NEW rekeying, ChannelInputEof(i, rekeying)
    PROVE  sv' \in [Conns -> SvEnd] /\ confused' \in BOOLEAN /\ \A d \in Conns : Steady(d)
<1>1. CASE ChansOf(i) = {} \/ rekeying
  BY Zenon, <1>1, NotToldSteady DEF ChannelInputEof, TellNothing
<1>2. CASE ~(ChansOf(i) = {} \/ rekeying)
  <2>1. Tell("EOF", chans[local_channel_lookup(i)].remote_id, 0)
    BY Zenon, <1>2 DEF ChannelInputEof
  <2>2. QED
    BY <2>1, ToldSteady
<1>3. QED
  BY Zenon, <1>1, <1>2

(* closed_local_connection                                                 *)
LEMMA ClosedLocalTouches ==
    ASSUME SlotPart, EndPart, confused \in BOOLEAN, NEW i \in Conns, Held(i), NEW rekeying,
           closed_local_connection(i, rekeying)
    PROVE  /\ Touched(i)
           /\ sv' \in [Conns -> SvEnd] /\ confused' \in BOOLEAN /\ \A d \in Conns : Steady(d)
<1>1. slots \in [Conns -> Slot] /\ slots[i] \in Slot
  BY DEF SlotPart
<1>2. CASE Both \subseteq slots[i].status
  <2> DEFINE t == [slots[i] EXCEPT !.sock = "none", !.status = @ \cup { "CLOSED_LOCAL" }]
  <2>1. slots' = [slots EXCEPT ![i].sock = "none", ![i].status = @ \cup { "CLOSED_LOCAL" }]
        /\ ChannelInputEof(i, rekeying)
    BY Zenon, <1>2 DEF closed_local_connection
  <2>2. slots' = [slots EXCEPT ![i] = t]
    BY <1>1, <2>1 DEF Slot
  <2>3. /\ t \in Slot /\ slots[i].status \subseteq t.status /\ t.sock = "none"
        /\ t.request = slots[i].request /\ t.remote = slots[i].remote /\ t.conn = slots[i].conn
    BY <1>1 DEF Slot, Status
  <2> HIDE DEF t
  <2>4. Touched(i)
    BY <2>2, <2>3, TouchedSlot
  <2>5. QED
    BY <2>1, <2>4, InputEofSteady
<1>3. CASE ~(Both \subseteq slots[i].status)
  <2> DEFINE t == [slots[i] EXCEPT !.sock = "none"]
  <2>1. slots' = [slots EXCEPT ![i].sock = "none"] /\ UNCHANGED << sv, confused >>
    BY Zenon, <1>3 DEF closed_local_connection, TellNothing
  <2>2. slots' = [slots EXCEPT ![i] = t]
    BY <1>1, <2>1 DEF Slot
  <2>3. /\ t \in Slot /\ slots[i].status \subseteq t.status /\ t.sock = "none"
        /\ t.request = slots[i].request /\ t.remote = slots[i].remote /\ t.conn = slots[i].conn
    BY <1>1 DEF Slot
  <2> HIDE DEF t
  <2>4. Touched(i)
    BY <2>2, <2>3, TouchedSlot
  <2>5. QED
    BY <2>1, <2>4, NotToldSteady
<1>4. QED
  BY Zenon, <1>2, <1>3

(* A step that touches one slot and ends nothing.                          *)
LEMMA TouchKeeps ==
    ASSUME FwdInv, NEW i \in Conns, Touched(i),
           UNCHANGED << num_channels, to_host_addrs, lookup, ssh, nconns, reconnected >>,
           sv' \in [Conns -> SvEnd], \A s \in Conns : Steady(s), confused' \in BOOLEAN,
           toClient' = toClient \/ \E k \in Kinds \ { "FAIL" } : Arrives(k)
    PROVE  FwdInv'
<1>1. SlotPart' /\ ChanPart' /\ Pair' /\ EndPart' /\ QueuePart' /\ NoSlotOutlivesServer'
  BY ChansStay DEF FwdInv, ssh, Touched
<1>2. SlotCount'
  BY TouchedCount DEF FwdInv
<1>3. ChanCount'
  BY SameChanCount DEF FwdInv, ssh
<1>4. FlagPart'
  BY DEF FwdInv, FlagPart
<1>5. QED
  BY Zenon, <1>1, <1>2, <1>3, <1>4 DEF FwdInv

(* The same when no slot changes.                                          *)
LEMMA NoTouchKeeps ==
    ASSUME FwdInv, UNCHANGED << slots, num_channels, ssh, nconns >>, FlagPart',
           sv' \in [Conns -> SvEnd], \A s \in Conns : Steady(s),
           toClient' = toClient \/ \E k \in Kinds \ { "FAIL" } : Arrives(k)
    PROVE  FwdInv'
<1>1. SlotsKept
  BY SameSlots DEF FwdInv
<1>2. SlotPart' /\ ChanPart' /\ Pair' /\ EndPart' /\ QueuePart' /\ NoSlotOutlivesServer'
  BY <1>1, ChansStay DEF FwdInv, ssh
<1>3. SlotCount'
  BY SameSlotCount DEF FwdInv
<1>4. ChanCount'
  BY SameChanCount DEF FwdInv, ssh
<1>5. QED
  BY Zenon, <1>2, <1>3, <1>4 DEF FwdInv

(* The lookup thread.                                                      *)
LEMMA LookupThreadKeeps ==
    ASSUME FwdInv, getaddrinfo_thread
    PROVE  FwdInv'
<1>1. FlagPart'
  BY DEF FwdInv, FlagPart, getaddrinfo_thread
<1>2. /\ UNCHANGED << slots, num_channels, ssh, nconns >> /\ UNCHANGED << sv, confused >>
      /\ toClient' = toClient
  BY Zenon DEF getaddrinfo_thread
<1>3. sv' \in [Conns -> SvEnd] /\ \A d \in Conns : Steady(d)
  BY Zenon, <1>2, NotToldSteady DEF FwdInv, FlagPart
<1>4. QED
  BY <1>1, <1>2, <1>3, NoTouchKeeps

(* FD_READ                                                                 *)
LEMMA FdReadKeeps ==
    ASSUME FwdInv, NEW i \in Conns, FdRead(i)
    PROVE  FwdInv'
<1>1. /\ UNCHANGED << slots, num_channels, ssh, nconns >>
      /\ UNCHANGED << to_host_addrs, lookup, reconnected >> /\ toClient' = toClient
  BY Zenon DEF FdRead, SocketEvent
<1>2. sv' \in [Conns -> SvEnd] /\ confused' \in BOOLEAN /\ \A d \in Conns : Steady(d)
  <2>1. CASE ChansOf(i) = {}
    BY Zenon, <2>1, NotToldSteady DEF FdRead, TellNothing, FwdInv, FlagPart
  <2>2. CASE ChansOf(i) # {}
    <3>1. Tell("DATA", chans[local_channel_lookup(i)].remote_id, 0)
      BY Zenon, <2>2 DEF FdRead
    <3>2. QED
      BY <3>1, ToldSteady DEF FwdInv, FlagPart
  <2>3. QED
    BY Zenon, <2>1, <2>2
<1>3. FlagPart'
  BY <1>1, <1>2 DEF FwdInv, FlagPart
<1>4. QED
  BY <1>1, <1>2, <1>3, NoTouchKeeps

(* FD_CLOSE                                                                *)
LEMMA FdCloseKeeps ==
    ASSUME FwdInv, NEW i \in Conns, NEW rekeying \in BOOLEAN, FdClose(i, rekeying)
    PROVE  FwdInv'
<1>1. /\ UNCHANGED << num_channels, to_host_addrs, lookup, ssh, nconns, reconnected >>
      /\ toClient' = toClient
  BY Zenon DEF FdClose, SocketEvent
<1>2. Held(i)
  BY SocketHeld DEF FdClose, SocketEvent, FwdInv
<1>3. /\ Touched(i)
      /\ sv' \in [Conns -> SvEnd] /\ confused' \in BOOLEAN /\ \A d \in Conns : Steady(d)
  BY <1>2, ClosedLocalTouches DEF FdClose, FwdInv, FlagPart
<1>4. QED
  BY <1>1, <1>3, TouchKeeps

(* FD_WRITE                                                                *)
LEMMA FdWriteKeeps ==
    ASSUME FwdInv, NEW i \in Conns, FdWrite(i)
    PROVE  FwdInv'
<1> DEFINE t == [slots[i] EXCEPT !.unsent = FALSE]
<1>1. /\ UNCHANGED << num_channels, to_host_addrs, lookup, ssh, nconns, reconnected >>
      /\ toClient' = toClient /\ UNCHANGED << sv, confused >>
      /\ slots' = [slots EXCEPT ![i].unsent = FALSE]
  BY Zenon DEF FdWrite, SocketEvent, TellNothing
<1>2. Held(i)
  BY SocketHeld DEF FdWrite, SocketEvent, FwdInv
<1>3. slots \in [Conns -> Slot] /\ slots[i] \in Slot
  BY DEF FwdInv, SlotPart
<1>4. slots' = [slots EXCEPT ![i] = t]
  BY <1>1, <1>3 DEF Slot
<1>5. /\ t \in Slot /\ slots[i].status \subseteq t.status /\ t.sock = slots[i].sock
      /\ t.request = slots[i].request /\ t.remote = slots[i].remote /\ t.conn = slots[i].conn
  BY <1>3 DEF Slot
<1> HIDE DEF t
<1>6. Touched(i)
  BY <1>2, <1>4, <1>5, TouchedSlot DEF FwdInv
<1>7. sv' \in [Conns -> SvEnd] /\ confused' \in BOOLEAN /\ \A d \in Conns : Steady(d)
  BY Zenon, <1>1, NotToldSteady DEF FwdInv, FlagPart
<1>8. QED
  BY <1>1, <1>6, <1>7, TouchKeeps
-----------------------------------------------------------------------------
(* The packets that end nothing.                                           *)

(* A packet for a channel meets the one of its connection.                 *)
LEMMA TargetFits ==
    ASSUME QueuePart, ChanPart, NEW k \in { "CONFIRM", "FAIL", "DATA", "EOF", "CLOSE" }, Arrives(k)
    PROVE  /\ Target \in Conns /\ Known /\ chans[Target].local \in Conns
           /\ chans[Target].conn = Head(toClient).sid
           /\ Head(toClient) \in Packet /\ PacketFits(Head(toClient))
           /\ sv[Head(toClient).sid].st = IF k = "FAIL" THEN "done" ELSE "open"
<1>0. \E D : /\ D \subseteq { Head(toClient).sid }
             /\ k = "FAIL" => Head(toClient).sid \in D
             /\ D = {} \/ k \in { "OPEN", "FAIL", "CLOSE" }
  <2>1. CASE k = "FAIL"
    <3> WITNESS { Head(toClient).sid }
    <3> QED
      BY <2>1
  <2>2. CASE k # "FAIL"
    <3> WITNESS {}
    <3> QED
      BY <2>2
  <2>3. QED
    BY <2>1, <2>2
<1>1. Head(toClient) \in Packet /\ PacketFits(Head(toClient)) /\ Head(toClient).kind = k
  BY <1>0, OneTaken
<1>2. k # "OPEN"
  OBVIOUS
<1>3. /\ Target \in Conns /\ Known /\ chans[Target].conn = Head(toClient).sid
      /\ sv[Head(toClient).sid].st = IF k = "FAIL" THEN "done" ELSE "open"
  BY Zenon, <1>1, <1>2 DEF PacketFits, Target, Known
<1>4. chans[Target].local \in Conns
  BY Zenon, <1>3 DEF ChanPart, ChanShape, Known
<1>5. QED
  BY Zenon, <1>1, <1>3, <1>4

(* FWD_channel_input_eof                                                   *)
LEMMA EofKeeps ==
    ASSUME FwdInv, handle_SSH2_channel_eof
    PROVE  FwdInv'
<1> DEFINE i == chans[Target].local
<1>1. /\ UNCHANGED << num_channels, to_host_addrs, lookup, ssh, nconns, reconnected >>
      /\ UNCHANGED << sv, confused >> /\ Arrives("EOF")
  BY Zenon DEF handle_SSH2_channel_eof, TellNothing, Arrives
<1>2. \E k \in Kinds \ { "FAIL" } : Arrives(k)
  BY <1>1 DEF Kinds
<1>3. sv' \in [Conns -> SvEnd] /\ confused' \in BOOLEAN /\ \A d \in Conns : Steady(d)
  BY Zenon, <1>1, NotToldSteady DEF FwdInv, FlagPart
<1>4. i \in Conns
  BY <1>1, TargetFits DEF FwdInv
<1>5. CASE Known /\ InUse(i)
  <2> DEFINE t == [slots[i] EXCEPT !.status = @ \cup { "CLOSED_REMOTE_IN" }]
  <2>1. slots' = [slots EXCEPT ![i].status = @ \cup { "CLOSED_REMOTE_IN" }]
    BY Zenon, <1>5 DEF handle_SSH2_channel_eof
  <2>2. slots \in [Conns -> Slot] /\ slots[i] \in Slot /\ Held(i)
    BY <1>4, <1>5 DEF FwdInv, SlotPart, InUse, Held
  <2> HIDE DEF i
  <2>3. slots' = [slots EXCEPT ![i] = t]
    BY <2>1, <2>2 DEF Slot
  <2>4. /\ t \in Slot /\ slots[i].status \subseteq t.status /\ t.sock = slots[i].sock
        /\ t.request = slots[i].request /\ t.remote = slots[i].remote /\ t.conn = slots[i].conn
    BY <2>2 DEF Slot, Status
  <2> HIDE DEF t
  <2>5. Touched(i)
    BY <1>4, <2>2, <2>3, <2>4, TouchedSlot DEF FwdInv
  <2>6. QED
    BY <1>1, <1>2, <1>3, <1>4, <2>5, TouchKeeps
<1>6. CASE ~(Known /\ InUse(i))
  <2>1. slots' = slots
    BY Zenon, <1>6 DEF handle_SSH2_channel_eof
  <2>2. FlagPart'
    BY <1>1, <1>3 DEF FwdInv, FlagPart
  <2>3. QED
    BY <1>1, <1>2, <1>3, <2>1, <2>2, NoTouchKeeps
<1>7. QED
  BY Zenon, <1>5, <1>6

(* FWD_received_data                                                       *)
LEMMA DataKeeps ==
    ASSUME FwdInv, handle_SSH2_channel_data
    PROVE  FwdInv'
<1> DEFINE i == chans[Target].local
<1>1. /\ UNCHANGED << num_channels, to_host_addrs, lookup, ssh, nconns, reconnected >>
      /\ Arrives("DATA")
  BY Zenon DEF handle_SSH2_channel_data, Arrives
<1>2. \E k \in Kinds \ { "FAIL" } : Arrives(k)
  BY <1>1 DEF Kinds
<1>3. i \in Conns
  BY <1>1, TargetFits DEF FwdInv
<1>4. CASE ~(Known /\ chans[Target].remote_id # NoId /\ InUse(i) /\ slots[i].sock # "none")
  <2>1. UNCHANGED << slots, sv, confused >>
    BY Zenon, <1>4 DEF handle_SSH2_channel_data
  <2>2. sv' \in [Conns -> SvEnd] /\ confused' \in BOOLEAN /\ \A d \in Conns : Steady(d)
    BY Zenon, <2>1, NotToldSteady DEF FwdInv, FlagPart
  <2>3. FlagPart'
    BY <1>1, <2>2 DEF FwdInv, FlagPart
  <2>4. QED
    BY <1>1, <1>2, <2>1, <2>2, <2>3, NoTouchKeeps
<1>5. CASE Known /\ chans[Target].remote_id # NoId /\ InUse(i) /\ slots[i].sock # "none"
  <2>1. slots \in [Conns -> Slot] /\ slots[i] \in Slot /\ Held(i)
    BY <1>3, <1>5 DEF FwdInv, SlotPart, InUse, Held
  <2>2. \/ /\ \E b \in BOOLEAN : slots' = [slots EXCEPT ![i].unsent = @ \/ b]
           /\ TellNothing
        \/ closed_local_connection(i, FALSE)
    BY Zenon, <1>5 DEF handle_SSH2_channel_data
  <2> HIDE DEF i
  <2>3. /\ Touched(i)
        /\ sv' \in [Conns -> SvEnd] /\ confused' \in BOOLEAN /\ \A d \in Conns : Steady(d)
    <3>1. CASE closed_local_connection(i, FALSE)
      BY <1>3, <2>1, <3>1, ClosedLocalTouches DEF FwdInv, FlagPart
    <3>2. ASSUME NEW b \in BOOLEAN, slots' = [slots EXCEPT ![i].unsent = @ \/ b], TellNothing
          PROVE  /\ Touched(i)
                 /\ sv' \in [Conns -> SvEnd] /\ confused' \in BOOLEAN /\ \A d \in Conns : Steady(d)
      <4> DEFINE t == [slots[i] EXCEPT !.unsent = @ \/ b]
      <4>1. slots' = [slots EXCEPT ![i] = t]
        BY <2>1, <3>2 DEF Slot
      <4>2. /\ t \in Slot /\ slots[i].status \subseteq t.status /\ t.sock = slots[i].sock
            /\ t.request = slots[i].request /\ t.remote = slots[i].remote /\ t.conn = slots[i].conn
        BY <2>1 DEF Slot
      <4> HIDE DEF t
      <4>3. Touched(i)
        BY <1>3, <2>1, <4>1, <4>2, TouchedSlot DEF FwdInv
      <4>4. QED
        BY Zenon, <3>2, <4>3, NotToldSteady DEF FwdInv, FlagPart, TellNothing
    <3>3. QED
      BY Zenon, <2>2, <3>1, <3>2
  <2>4. QED
    BY <1>1, <1>2, <1>3, <2>3, TouchKeeps
<1>6. QED
  BY Zenon, <1>4, <1>5

(* FWD_confirmed_open                                                      *)
LEMMA ConfirmKeeps ==
    ASSUME FwdInv, handle_SSH2_open_confirm
    PROVE  FwdInv'
<1> DEFINE i == chans[Target].local
           s == Head(toClient).sid
           k == Target
           e == [chans[k] EXCEPT !.remote_id = s]
<1>1. /\ UNCHANGED << channel_used_num, nconns, reconnected >> /\ Arrives("CONFIRM")
  BY Zenon DEF handle_SSH2_open_confirm, Arrives
<1>2. k \in Conns /\ Known /\ i \in Conns /\ chans[k].conn = s /\ s \in Conns /\ chans[k].used
  BY <1>1, TargetFits DEF FwdInv, Packet, Known
<1>3. /\ chans' = [chans EXCEPT ![k].remote_id = s]
      /\ UNCHANGED << num_channels, to_host_addrs, lookup >>
      /\ \/ UNCHANGED slots /\ TellNothing
         \/ InUse(i) /\ slots' = [slots EXCEPT ![i].status = @ \cup { "REMOTE" }] /\ TellNothing
         \/ /\ InUse(i) /\ slots' = [slots EXCEPT ![i].status = @ \cup { "CLOSED_LOCAL" }]
            /\ Tell("EOF", s, 0) \/ ChannelInputEof(i, FALSE)
  BY Zenon, <1>2 DEF handle_SSH2_open_confirm
<1>4. slots \in [Conns -> Slot] /\ chans \in [Conns -> Chan] /\ MaxConns \in Nat
  BY FwdAssumption DEF FwdInv, SlotPart, ChanPart
<1>5. QueueMoves(1, {})
  BY <1>1, OneTaken DEF FwdInv
<1> HIDE DEF i, s, k
<1>6. /\ chans' \in [Conns -> Chan] /\ chans'[k] = e
      /\ \A l \in Conns : l # k => chans'[l] = chans[l]
  <2>1. chans' = [chans EXCEPT ![k].remote_id = s]
    BY Zenon, <1>3
  <2>2. s \in 0 .. MaxConns
    BY <1>2, <1>4 DEF Conns
  <2>3. e \in Chan
    BY <1>2, <1>4, <2>2 DEF Chan
  <2> HIDE DEF e
  <2>4. chans' = [chans EXCEPT ![k] = e]
    BY Zenon, <2>1 DEF e
  <2>5. QED
    BY <1>2, <1>4, <2>3, <2>4
<1>7. e.used /\ e.local = chans[k].local /\ e.conn = chans[k].conn /\ e.remote_id = chans[k].conn
  BY <1>2, <1>4 DEF Chan
<1>8. ChansKept
  <2>1. ASSUME NEW l \in Conns PROVE chans'[l] = EmptyChan \/ ChanGoesOn(l)
    <3>1. CASE l = k
      BY <1>2, <1>6, <1>7, <3>1 DEF ChanGoesOn
    <3>2. CASE l # k
      <4>1. ChanShape(l)
        BY Zenon DEF FwdInv, ChanPart
      <4>2. QED
        BY <1>6, <3>2, <4>1 DEF ChanGoesOn, ChanShape
    <3>3. QED
      BY Zenon, <3>1, <3>2
  <2>2. QED
    BY Zenon, <1>6, <2>1 DEF ChansKept
<1>9. \A l \in Conns : chans'[l].used = chans[l].used
  BY Zenon, <1>2, <1>6, <1>7
<1>10. ASSUME NEW x \in Status, InUse(i), slots' = [slots EXCEPT ![i].status = @ \cup { x }]
       PROVE  Touched(i)
  <2> DEFINE t == [slots[i] EXCEPT !.status = @ \cup { x }]
  <2>1. slots[i] \in Slot /\ Held(i)
    BY <1>2, <1>4, <1>10 DEF InUse, Held
  <2>2. slots' = [slots EXCEPT ![i] = t]
    BY <1>2, <1>4, <1>10, <2>1 DEF Slot
  <2>3. /\ t \in Slot /\ slots[i].status \subseteq t.status /\ t.sock = slots[i].sock
        /\ t.request = slots[i].request /\ t.remote = slots[i].remote /\ t.conn = slots[i].conn
    BY <2>1, <1>10 DEF Slot
  <2> HIDE DEF t
  <2>4. QED
    BY <1>2, <2>1, <2>2, <2>3, TouchedSlot DEF FwdInv
<1>11. /\ SlotsKept /\ \A j \in Conns : slots'[j].request = slots[j].request
       /\ sv' \in [Conns -> SvEnd] /\ confused' \in BOOLEAN /\ \A d \in Conns : Steady(d)
  <2>1. CASE UNCHANGED slots /\ TellNothing
    <3>1. UNCHANGED << sv, confused >> /\ slots' = slots
      BY Zenon, <2>1 DEF TellNothing
    <3>2. QED
      BY Zenon, <3>1, NotToldSteady, SameSlots DEF FwdInv, FlagPart
  <2>2. ASSUME NEW x \in Status, InUse(i), slots' = [slots EXCEPT ![i].status = @ \cup { x }]
        PROVE  SlotsKept /\ \A j \in Conns : slots'[j].request = slots[j].request
    BY Zenon, <2>2, <1>10 DEF Touched, Continues
  <2>3. CASE InUse(i) /\ slots' = [slots EXCEPT ![i].status = @ \cup { "REMOTE" }] /\ TellNothing
    <3>1. UNCHANGED << sv, confused >> /\ "REMOTE" \in Status
      BY <2>3 DEF TellNothing, Status
    <3>2. sv' \in [Conns -> SvEnd] /\ confused' \in BOOLEAN /\ \A d \in Conns : Steady(d)
      BY Zenon, <3>1, NotToldSteady DEF FwdInv, FlagPart
    <3>3. QED
      BY Zenon, <2>2, <2>3, <3>1, <3>2
  <2>4. CASE /\ InUse(i) /\ slots' = [slots EXCEPT ![i].status = @ \cup { "CLOSED_LOCAL" }]
             /\ Tell("EOF", s, 0) \/ ChannelInputEof(i, FALSE)
    <3>1. "CLOSED_LOCAL" \in Status
      BY DEF Status
    <3>2. CASE Tell("EOF", s, 0)
      BY <3>2, ToldSteady, <2>2, <2>4, <3>1 DEF FwdInv, FlagPart
    <3>3. CASE ChannelInputEof(i, FALSE)
      BY <3>3, InputEofSteady, <2>2, <2>4, <3>1 DEF FwdInv, FlagPart
    <3>4. QED
      BY Zenon, <2>4, <3>2, <3>3
  <2>5. QED
    BY Zenon, <1>3, <2>1, <2>3, <2>4
<1>12. SlotPart' /\ ChanPart' /\ Pair' /\ EndPart' /\ QueuePart' /\ NoSlotOutlivesServer'
  BY <1>1, <1>5, <1>8, <1>9, <1>11, QuietKeeps DEF FwdInv
<1>13. SlotCount'
  BY <1>3, <1>11, SameSlotCount DEF FwdInv
<1>14. ChanCount'
  BY <1>1, <1>9, SameChanCount DEF FwdInv
<1>15. FlagPart'
  BY <1>1, <1>3, <1>11 DEF FwdInv, FlagPart
<1>16. QED
  BY Zenon, <1>12, <1>13, <1>14, <1>15 DEF FwdInv
-----------------------------------------------------------------------------
(* The actions that move an opening connection on.                         *)

(* FD_CONNECT                                                              *)
LEMMA FdConnectKeeps ==
    ASSUME FwdInv, NEW i \in Conns, FdConnect(i)
    PROVE  FwdInv'
<1> DEFINE t == [slots[i] EXCEPT !.sock = "open", !.status = @ \cup { "LOCAL" }]
<1>1. /\ UNCHANGED << num_channels, to_host_addrs, lookup, ssh, toClient, nconns, reconnected >>
      /\ slots' = [slots EXCEPT ![i].sock = "open", ![i].status = @ \cup { "LOCAL" }]
      /\ slots[i].sock = "connecting"
      /\ IF ChansOf(i) = {} THEN TellNothing 
         ELSE Tell("CONFIRM", chans[local_channel_lookup(i)].remote_id, local_channel_lookup(i))
  BY Zenon DEF FdConnect
<1>2. slots \in [Conns -> Slot] /\ slots[i] \in Slot /\ Held(i)
  BY <1>1, SocketHeld DEF FwdInv, SlotPart
<1>3. slots' = [slots EXCEPT ![i] = t]
  BY <1>1, <1>2 DEF Slot
<1>4. /\ t \in Slot /\ slots[i].status \subseteq t.status /\ t.sock = "open"
      /\ t.request = slots[i].request /\ t.remote = slots[i].remote /\ t.conn = slots[i].conn
  BY <1>2 DEF Slot, Status
<1> HIDE DEF t
<1>5. Touched(i)
  BY <1>2, <1>3, <1>4, TouchedSlot DEF FwdInv
<1>6. CASE ChansOf(i) = {}
  <2>1. UNCHANGED << sv, confused >>
    BY Zenon, <1>1, <1>6 DEF TellNothing
  <2>2. sv' \in [Conns -> SvEnd] /\ confused' \in BOOLEAN /\ \A d \in Conns : Steady(d)
    BY Zenon, <2>1, NotToldSteady DEF FwdInv, FlagPart
  <2>3. QED
    BY <1>1, <1>5, <2>2, TouchKeeps
<1>7. CASE ChansOf(i) # {}
  <2>0. PICK k \in Conns : k = local_channel_lookup(i) /\ chans[k].used
    BY Zenon, <1>7, LookupFinds
  <2>1. k \in Conns /\ chans[k].used
    BY Zenon, <2>0
  <2>2. PICK r : r = chans[k].remote_id /\ r \in { NoId, chans[k].conn }
    BY Zenon, <2>1 DEF FwdInv, ChanPart, ChanShape
  <2>3. Tell("CONFIRM", r, k)
    BY Zenon, <1>1, <1>7, <2>0, <2>2
  <2>4. sv \in [Conns -> SvEnd] /\ confused \in BOOLEAN /\ k \in 0 .. MaxConns
        /\ TellAll("CONFIRM", { r }, k) /\ MaxConns \in Nat
    BY <2>1, <2>3, FwdAssumption DEF FwdInv, EndPart, FlagPart, Tell, Conns
  <2>5. /\ sv' \in [Conns -> SvEnd] /\ confused' \in BOOLEAN
        /\ \A d \in Conns : IF d \in { r } /\ Expected("CONFIRM", sv[d])
                            THEN sv'[d] = Placed("CONFIRM", sv[d], k) ELSE sv'[d] = sv[d]
    BY <2>4, TellAllMoves
  <2>6. CASE ~(r \in Conns /\ Expected("CONFIRM", sv[r]))
    <3>1. \A d \in Conns : Steady(d)
      BY Zenon, <2>5, <2>6 DEF Steady
    <3>2. QED
      BY <1>1, <1>5, <2>5, <3>1, TouchKeeps
  <2>7. CASE r \in Conns /\ Expected("CONFIRM", sv[r])
    <3>1. sv[r].st = "opening" /\ chans[k].conn = r
      BY <2>2, <2>7, ExpectedEnd DEF Conns, NoId
    <3>2. Made(r)
      BY Zenon, <2>1, <3>1 DEF Made
    <3>3. \A n \in 1 .. Len(toClient) : toClient[n].sid \notin { r }
      BY <3>1, <3>2, OpeningIsQuiet DEF FwdInv
    <3>4. QueueMoves(0, { r })
      BY <1>1, <3>3, NoneTaken DEF FwdInv
    <3>5. sv[r] \in SvEnd
      BY <2>4, <2>7
    <3>6. sv'[r] = [sv[r] EXCEPT !.st = "open", !.cid = k]
      BY <2>4, <2>5, <2>7, <3>5, PlacedEnd
    <3>7. sv'[r].st = "open" /\ sv'[r].cid = k
      BY <3>5, <3>6 DEF SvEnd
    <3>8. chans' = chans /\ nconns' = nconns
      BY Zenon, <1>1 DEF ssh
    <3>9. EndShape(r)'
      <4>1. EndShape(r)
        BY Zenon, <2>7 DEF FwdInv, EndPart
      <4>2. ~(r > nconns')
        BY <3>1, <3>8, <4>1 DEF EndShape
      <4>3. QED
        BY <2>1, <3>1, <3>7, <3>8, <4>2 DEF EndShape
    <3>10. \A s \in Conns : s # r => Steady(s)
      BY Zenon, <2>5 DEF Steady
    <3>11. ChansKept /\ SlotsKept
      BY <1>5, <3>8, SameChans DEF FwdInv, Touched
    <3>12. \A j \in Conns : Held(j)' /\ slots'[j].conn \in { r } => sv'[slots'[j].conn].st # "done"
      BY <3>7
    <3>13. OnlyEnds(0, { r })
      BY <2>5, <3>4, <3>8, <3>9, <3>10, <3>11, <3>12 DEF OnlyEnds
    <3>14. SlotPart' /\ ChanPart' /\ Pair' /\ EndPart' /\ QueuePart' /\ NoSlotOutlivesServer'
      BY <3>13, OnlyEndsKeeps DEF FwdInv
    <3>15. SlotCount'
      BY <1>1, <1>5, TouchedCount DEF FwdInv
    <3>16. ChanCount'
      BY <1>1, SameChanCount DEF FwdInv, ssh
    <3>17. FlagPart'
      BY <1>1, <2>5 DEF FwdInv, FlagPart
    <3>18. QED
      BY Zenon, <3>14, <3>15, <3>16, <3>17 DEF FwdInv
  <2>8. QED
    BY Zenon, <2>6, <2>7
<1>8. QED
  BY Zenon, <1>6, <1>7

(* An end that FAIL ends, seen from its slots: what the connections in S   *)
(* need so that nothing of them is left.                                   *)
LEMMA FailsEnd ==
    ASSUME SlotPart, ChanPart, Pair, EndPart, QueuePart, NoSlotOutlivesServer,
           confused \in BOOLEAN, SlotsKept, chans' = chans, nconns' = nconns,
           toClient' = toClient, NEW S, TellAll("FAIL", S, 0),
           \A c \in S : Made(c),
           \A j \in Conns : Held(j)' => slots'[j].conn \notin S
    PROVE  /\ SlotPart' /\ ChanPart' /\ Pair' /\ EndPart' /\ QueuePart' /\ NoSlotOutlivesServer'
           /\ confused' \in BOOLEAN
<1> DEFINE D == { c \in S : c \in Conns /\ sv[c].st = "opening" }
<1>1. sv \in [Conns -> SvEnd] /\ 0 \in 0 .. MaxConns
  BY FwdAssumption DEF EndPart
<1>2. /\ sv' \in [Conns -> SvEnd] /\ confused' \in BOOLEAN
      /\ \A d \in Conns : IF d \in S /\ Expected("FAIL", sv[d])
                          THEN sv'[d] = Placed("FAIL", sv[d], 0) ELSE sv'[d] = sv[d]
  BY <1>1, TellAllMoves
<1>3. \A d \in Conns : Expected("FAIL", sv[d]) <=> sv[d].st = "opening"
  BY ExpectedEnd
<1>4. \A n \in 1 .. Len(toClient) : toClient[n].sid \notin D
  <2> SUFFICES ASSUME NEW n \in 1 .. Len(toClient), toClient[n].sid \in D PROVE FALSE
    OBVIOUS
  <2>1. sv[toClient[n].sid].st = "opening" /\ Made(toClient[n].sid)
    BY Zenon
  <2>2. QED
    BY Zenon, <2>1, OpeningIsQuiet
<1>5. QueueMoves(0, D)
  BY Zenon, <1>4, NoneTaken
<1>6. ASSUME NEW s \in Conns PROVE IF s \in D THEN EndShape(s)' ELSE Steady(s)
  <2>1. CASE s \notin D
    BY Zenon, <1>2, <1>3, <2>1 DEF Steady
  <2>2. CASE s \in D
    <3>1. sv[s] \in SvEnd /\ sv'[s] = Placed("FAIL", sv[s], 0) /\ sv[s].st = "opening"
      BY <1>1, <1>2, <1>3, <2>2
    <3>2. sv'[s] = [sv[s] EXCEPT !.st = "done"]
      BY <1>1, <3>1, PlacedEnd
    <3>3. sv'[s].st = "done"
      BY <3>1, <3>2 DEF SvEnd
    <3>4. EndShape(s)
      BY Zenon DEF EndPart
    <3>5. ~(s > nconns')
      BY <3>1, <3>4 DEF EndShape
    <3>6. EndShape(s)'
      BY <3>3, <3>5 DEF EndShape
    <3>7. QED
      BY Zenon, <2>2, <3>6
  <2>3. QED
    BY Zenon, <2>1, <2>2
<1>7. ChansKept
  BY SameChans
<1>8. \A j \in Conns : Held(j)' /\ slots'[j].conn \in D => sv'[slots'[j].conn].st # "done"
  BY Zenon
<1>9. OnlyEnds(0, D)
  BY Zenon, <1>2, <1>5, <1>6, <1>7, <1>8 DEF OnlyEnds
<1> HIDE DEF D
<1>10. SlotPart' /\ ChanPart' /\ Pair' /\ EndPart' /\ QueuePart' /\ NoSlotOutlivesServer'
  BY <1>9, OnlyEndsKeeps
<1>11. QED
  BY Zenon, <1>2, <1>10

(* FD_CONNECT with an error                                                *)
LEMMA FdConnectErrorKeeps ==
    ASSUME FwdInv, NEW i \in Conns, FdConnectError(i)
    PROVE  FwdInv'
<1>1. /\ UNCHANGED << to_host_addrs, lookup, ssh, toClient, nconns, reconnected >>
      /\ slots[i].sock = "connecting"
      /\ \/ \E a \in slots[i].addr + 1 .. NAddrs :
              /\ slots' = [slots EXCEPT ![i].addr = a]
              /\ UNCHANGED num_channels
              /\ TellNothing
         \/ FWD_free_channel(i) /\ Tell("FAIL", slots[i].remote, 0)
  BY Zenon DEF FdConnectError
<1>2. slots \in [Conns -> Slot] /\ slots[i] \in Slot /\ Held(i)
  BY <1>1, SocketHeld DEF FwdInv, SlotPart
<1>3. ASSUME NEW a \in slots[i].addr + 1 .. NAddrs, slots' = [slots EXCEPT ![i].addr = a],
             UNCHANGED num_channels, TellNothing
      PROVE  FwdInv'
  <2> DEFINE t == [slots[i] EXCEPT !.addr = a]
  <2>0. NAddrs \in Nat
    BY FwdAssumption
  <2>1. slots' = [slots EXCEPT ![i] = t]
    BY <1>2, <1>3 DEF Slot
  <2>2. /\ t \in Slot /\ slots[i].status \subseteq t.status /\ t.sock = slots[i].sock
        /\ t.request = slots[i].request /\ t.remote = slots[i].remote /\ t.conn = slots[i].conn
    BY <1>2, <2>0 DEF Slot
  <2> HIDE DEF t
  <2>3. Touched(i)
    BY <1>2, <2>1, <2>2, TouchedSlot DEF FwdInv
  <2>4. sv' \in [Conns -> SvEnd] /\ confused' \in BOOLEAN /\ \A d \in Conns : Steady(d)
    BY Zenon, <1>3, NotToldSteady DEF FwdInv, FlagPart, TellNothing
  <2>5. QED
    BY <1>1, <1>3, <2>3, <2>4, TouchKeeps
<1>4. ASSUME FWD_free_channel(i), Tell("FAIL", slots[i].remote, 0)
      PROVE  FwdInv'
  <2> DEFINE c == slots[i].conn
  <2>1. slots[i].remote = c
    BY Zenon, <1>1 DEF FwdInv, SlotPart, SlotShape
  <2>2. TellAll("FAIL", { c }, 0) /\ Made(c)
    BY Zenon, <1>2, <1>4, <2>1 DEF Tell, Made
  <2>3. /\ SlotsKept /\ SlotCount' /\ slots'[i] = EmptySlot
        /\ \A j \in Conns : j # i => slots'[j] = slots[j]
    BY <1>4, FreedSlot DEF FwdInv
  <2>4. ASSUME NEW j \in Conns, Held(j)' PROVE slots'[j].conn \notin { c }
    <3>1. EmptySlot.status = {}
      BY DEF EmptySlot
    <3>2. j # i /\ slots'[j] = slots[j] /\ Held(j)
      BY Zenon, <2>3, <2>4, <3>1 DEF Held
    <3>3. slots[j].conn # c
      BY Zenon, <1>2, <3>2 DEF FwdInv, SlotPart
    <3>4. QED
      BY <3>2, <3>3
  <2> HIDE DEF c
  <2>5. \A x \in { c } : Made(x)
    BY <2>2
  <2>6. chans' = chans /\ nconns' = nconns /\ toClient' = toClient
    BY Zenon, <1>1 DEF ssh
  <2>7. /\ SlotPart' /\ ChanPart' /\ Pair' /\ EndPart' /\ QueuePart' /\ NoSlotOutlivesServer'
        /\ confused' \in BOOLEAN
    BY <2>2, <2>3, <2>4, <2>5, <2>6, FailsEnd DEF FwdInv, FlagPart
  <2>8. ChanCount'
    BY <1>1, SameChanCount DEF FwdInv, ssh
  <2>9. FlagPart'
    BY <1>1, <2>7 DEF FwdInv, FlagPart
  <2>10. QED
    BY Zenon, <2>3, <2>7, <2>8, <2>9 DEF FwdInv
<1>5. QED
  BY Zenon, <1>1, <1>3, <1>4

(* WM_SOCK_GOTNAME                                                         *)
LEMMA GotNameKeeps ==
    ASSUME FwdInv, GotName
    PROVE  FwdInv'
<1> DEFINE R == { i \in Conns : slots[i].request = "R" }
           A == IF lookup = "found" THEN 0 .. NAddrs ELSE { 0 }
           S(got) == { slots[i].remote : i \in { j \in R : got[j] = 0 } }
<1>1. /\ UNCHANGED << to_host_addrs, ssh, toClient, nconns >> /\ lookup' = "idle"
      /\ \E got \in [R -> A] :
           /\ slots' = [i \in Conns |->
                  IF i \notin R THEN slots[i]
                  ELSE IF got[i] = 0 THEN EmptySlot
                  ELSE [slots[i] EXCEPT !.sock = "connecting", !.addr = got[i]]]
           /\ TellAll("FAIL", S(got), 0)
           /\ num_channels' = [num_channels EXCEPT
                  !["R"] = Cardinality({ i \in R : got[i] # 0 })]
           /\ reconnected' = (reconnected \/ \E i \in R : slots[i].addr # 0)
  BY Zenon DEF GotName
<1> HIDE DEF S, A
<1>2. PICK got \in [R -> A] :
         /\ slots' = [i \in Conns |->
                IF i \notin R THEN slots[i]
                ELSE IF got[i] = 0 THEN EmptySlot
                ELSE [slots[i] EXCEPT !.sock = "connecting", !.addr = got[i]]]
         /\ TellAll("FAIL", S(got), 0)
         /\ num_channels' = [num_channels EXCEPT
                !["R"] = Cardinality({ i \in R : got[i] # 0 })]
         /\ reconnected' = (reconnected \/ \E i \in R : slots[i].addr # 0)
  BY Zenon, <1>1
<1>3. \A i \in R : got[i] \in 0 .. NAddrs
  <2>1. A \subseteq 0 .. NAddrs
    BY FwdAssumption DEF A
  <2>2. QED
    BY Zenon, <2>1, <1>2
<1>4. slots \in [Conns -> Slot] /\ \A i \in Conns : i \in R <=> slots[i].request = "R"
  BY Zenon DEF FwdInv, SlotPart
<1>5. \A i \in Conns : slots'[i] = IF i \notin R THEN slots[i]
                                   ELSE IF got[i] = 0 THEN EmptySlot
                                   ELSE [slots[i] EXCEPT !.sock = "connecting", !.addr = got[i]]
  BY Zenon, <1>2
<1> HIDE DEF R
<1>6. EmptySlot \in Slot /\ EmptySlot.request = "none" /\ EmptySlot.status = {}
  BY FwdAssumption DEF EmptySlot, Slot, NoId, Requests
<1>7. ASSUME NEW i \in Conns
      PROVE  /\ slots'[i] \in Slot
             /\ \/ slots'[i] = EmptySlot
                \/ Continues(i) /\ (slots'[i].sock = "connecting" => slots'[i].request = "R")
  <2>1. SlotShape(i) /\ slots[i] \in Slot
    BY <1>4 DEF FwdInv, SlotPart
  <2>2. CASE i \notin R
    <3>1. slots'[i] = slots[i]
      BY Zenon, <1>5, <2>2
    <3>2. QED
      BY Zenon, <2>1, <3>1 DEF SlotShape, Continues, Held
  <2>3. CASE i \in R /\ got[i] = 0
    BY Zenon, <1>5, <1>6, <2>3
  <2>4. CASE i \in R /\ got[i] # 0
    <3>1. slots'[i] = [slots[i] EXCEPT !.sock = "connecting", !.addr = got[i]]
      BY Zenon, <1>5, <2>4
    <3>2. slots[i].request = "R" /\ got[i] \in 0 .. NAddrs /\ slots[i] # EmptySlot
      BY <1>3, <1>4, <1>6, <2>4
    <3>3. Held(i)
      BY Zenon, <2>1, <3>2 DEF SlotShape
    <3>4. /\ slots'[i] \in Slot /\ slots'[i].request = "R" /\ slots'[i].status = slots[i].status
          /\ slots'[i].remote = slots[i].remote /\ slots'[i].conn = slots[i].conn
      BY <2>1, <3>1, <3>2 DEF Slot
    <3>5. QED
      BY Zenon, <3>2, <3>3, <3>4 DEF Continues, Held
  <2>5. QED
    BY Zenon, <2>2, <2>3, <2>4
<1>8. SlotsKept
  <2>1. slots' = [i \in Conns |-> slots'[i]]
    BY Zenon, <1>2
  <2>2. slots' \in [Conns -> Slot]
    BY Zenon, <1>7, <2>1
  <2>3. QED
    BY Zenon, <1>7, <2>2 DEF SlotsKept
<1>9. ASSUME NEW i \in R PROVE i \in Conns /\ Held(i) /\ slots[i].remote = slots[i].conn
  <2>1. i \in Conns /\ slots[i].request = "R"
    BY Zenon, <1>4 DEF R
  <2>2. SlotShape(i)
    BY Zenon, <2>1 DEF FwdInv, SlotPart
  <2>3. slots[i] # EmptySlot
    BY <1>6, <2>1
  <2>4. QED
    BY Zenon, <2>1, <2>2, <2>3 DEF SlotShape
<1>10. \A c \in S(got) : Made(c)
  <2> SUFFICES ASSUME NEW i \in R PROVE Made(slots[i].remote)
    BY DEF S
  <2>1. QED
    BY Zenon, <1>9 DEF Made
<1>11. ASSUME NEW j \in Conns, Held(j)' PROVE slots'[j].conn \notin S(got)
  <2> SUFFICES ASSUME NEW i \in R, got[i] = 0, slots'[j].conn = slots[i].remote PROVE FALSE
    BY DEF S
  <2>1. Continues(j)
    BY Zenon, <1>6, <1>11, <1>7 DEF Held
  <2>2. Held(j) /\ slots[j].conn = slots[i].conn
    BY Zenon, <1>9, <2>1 DEF Continues
  <2>3. j = i
    BY Zenon, <1>9, <2>2 DEF FwdInv, SlotPart
  <2>4. slots'[j] = EmptySlot
    BY Zenon, <1>5, <2>3
  <2>5. QED
    BY Zenon, <1>6, <1>11, <2>4 DEF Held
<1>12. chans' = chans /\ nconns' = nconns /\ toClient' = toClient
  BY Zenon, <1>1 DEF ssh
<1>13. /\ SlotPart' /\ ChanPart' /\ Pair' /\ EndPart' /\ QueuePart' /\ NoSlotOutlivesServer'
       /\ confused' \in BOOLEAN
  <2>1. TellAll("FAIL", S(got), 0)
    BY Zenon, <1>2
  <2>2. SlotPart /\ ChanPart /\ Pair /\ EndPart /\ QueuePart /\ NoSlotOutlivesServer
        /\ confused \in BOOLEAN
    BY Zenon DEF FwdInv, FlagPart
  <2>3. \A j \in Conns : Held(j)' => slots'[j].conn \notin S(got)
    BY Zenon, <1>11
  <2>4. QED
    BY <1>8, <1>10, <1>12, <2>1, <2>2, <2>3, FailsEnd
<1>14. SlotCount'
  <2>1. num_channels \in [Requests -> Nat] /\ num_channels["L"] = Cardinality(SlotsOf("L"))
        /\ Requests = { "L", "R" }
    BY DEF FwdInv, SlotCount, Requests
  <2>2. SlotsOf("L")' = SlotsOf("L")
    <3>1. ASSUME NEW i \in Conns PROVE slots'[i].request = "L" <=> slots[i].request = "L"
      <4>1. CASE i \notin R
        BY Zenon, <1>5, <4>1
      <4>2. CASE i \in R
        <5>1. slots[i].request = "R"
          BY Zenon, <1>4, <4>2
        <5>2. slots'[i].request \in { "R", "none" }
          BY <1>6, <1>7, <5>1 DEF Continues
        <5>3. QED
          BY <5>1, <5>2
      <4>3. QED
        BY Zenon, <4>1, <4>2
    <3>2. QED
      BY Zenon, <3>1 DEF SlotsOf
  <2>3. SlotsOf("R")' = { i \in R : got[i] # 0 }
    <3>1. ASSUME NEW i \in Conns PROVE slots'[i].request = "R" <=> i \in R /\ got[i] # 0
      <4>1. CASE i \notin R
        BY Zenon, <1>4, <1>5, <4>1
      <4>2. CASE i \in R /\ got[i] = 0
        BY <1>5, <1>6, <4>2
      <4>3. CASE i \in R /\ got[i] # 0
        <5>1. slots'[i] = [slots[i] EXCEPT !.sock = "connecting", !.addr = got[i]]
          BY Zenon, <1>5, <4>3
        <5>2. slots[i] \in Slot /\ slots[i].request = "R"
          BY Zenon, <1>4, <4>3
        <5>3. slots'[i].request = "R"
          BY <5>1, <5>2 DEF Slot
        <5>4. QED
          BY Zenon, <4>3, <5>3
      <4>4. QED
        BY Zenon, <4>1, <4>2, <4>3
    <3>2. QED
      BY Zenon, <1>9, <3>1 DEF SlotsOf
  <2>4. Cardinality(SlotsOf("R")') \in Nat
    <3>1. SlotsOf("R")' \in SUBSET Conns
      BY DEF SlotsOf
    <3>2. QED
      BY Zenon, <3>1, Counting
  <2>5. num_channels' = [num_channels EXCEPT !["R"] = Cardinality(SlotsOf("R")')]
    BY Zenon, <1>2, <2>3
  <2>6. num_channels' \in [Requests -> Nat] /\ num_channels'["L"] = num_channels["L"]
        /\ num_channels'["R"] = Cardinality(SlotsOf("R")')
    BY <2>1, <2>4, <2>5
  <2>7. \A r \in Requests : num_channels'[r] = Cardinality(SlotsOf(r)')
    BY <2>1, <2>2, <2>6
  <2>8. QED
    BY Zenon, <2>6, <2>7 DEF SlotCount
<1>15. ChanCount'
  BY <1>1, SameChanCount DEF FwdInv, ssh
<1>16. FlagPart'
  <2>1. reconnected' \in BOOLEAN
    BY <1>2 DEF FwdInv, FlagPart
  <2>2. QED
    BY <1>1, <1>13, <2>1 DEF FwdInv, FlagPart
<1>17. QED
  BY Zenon, <1>8, <1>13, <1>14, <1>15, <1>16 DEF FwdInv
-----------------------------------------------------------------------------
(* The packets that end a connection.                                      *)

(* A step that frees both entries of the connection of the packet.         *)
LEMMA EndingKeeps ==
    ASSUME FwdInv, NEW k \in { "FAIL", "CLOSE" }, Arrives(k),
           ssh2_channel_delete(Target), FWD_free_channel(chans[Target].local),
           UNCHANGED << to_host_addrs, lookup >>,
           sv' \in [Conns -> SvEnd], confused' \in BOOLEAN,
           NEW c \in Conns, c = Head(toClient).sid, EndShape(c)',
           \A s \in Conns : s # c => Steady(s)
    PROVE  FwdInv'
<1>2. PICK t \in Conns : t = Target
  BY TargetFits DEF FwdInv
<1>3. PICK i \in Conns : i = chans[t].local
  BY <1>2, TargetFits DEF FwdInv
<1>4. chans[t].used /\ chans[t].conn = c
  BY <1>2, TargetFits DEF FwdInv, Known
<1>5. /\ ChansKept /\ ChanCount' /\ chans'[t] = EmptyChan
      /\ \A l \in Conns : l # t => chans'[l] = chans[l]
  BY <1>2, <1>4, DeletedChan DEF FwdInv
<1>6. /\ SlotsKept /\ SlotCount' /\ slots'[i] = EmptySlot
      /\ \A j \in Conns : j # i => slots'[j] = slots[j]
  BY <1>2, <1>3, FreedSlot DEF FwdInv
<1>7. QueueMoves(1, { c })
  BY OneTaken DEF FwdInv
<1>8. \A l \in Conns : chans[l].used /\ chans[l].conn \notin { c } => chans'[l].used
  BY Zenon, <1>4, <1>5
<1>9. ASSUME NEW j \in Conns, Held(j)' PROVE slots'[j].conn \notin { c }
  <2>1. EmptySlot.status = {}
    BY DEF EmptySlot
  <2>2. j # i /\ slots'[j] = slots[j] /\ Held(j)
    BY Zenon, <1>6, <1>9, <2>1 DEF Held
  <2>3. slots[j].conn # c
    BY Zenon, <1>3, <1>4, <2>2 DEF FwdInv, Pair
  <2>4. QED
    BY <2>2, <2>3
<1>11. nconns' = nconns /\ reconnected' = reconnected
  BY Zenon DEF Arrives
<1>12. \A s \in Conns : IF s \in { c } THEN EndShape(s)' ELSE Steady(s)
  OBVIOUS
<1>13. OnlyEnds(1, { c })
  BY Zenon, <1>5, <1>6, <1>7, <1>8, <1>9, <1>11, <1>12 DEF OnlyEnds
<1>14. SlotPart' /\ ChanPart' /\ Pair' /\ EndPart' /\ QueuePart' /\ NoSlotOutlivesServer'
  BY <1>13, OnlyEndsKeeps DEF FwdInv
<1>15. FlagPart'
  BY <1>11 DEF FwdInv, FlagPart
<1>16. QED
  BY Zenon, <1>5, <1>6, <1>14, <1>15 DEF FwdInv

(* FWD_failed_open                                                         *)
LEMMA FailKeeps ==
    ASSUME FwdInv, handle_SSH2_open_failure
    PROVE  FwdInv'
<1> DEFINE i == chans[Target].local
<1>1. Arrives("FAIL") /\ UNCHANGED << sv, confused >>
  BY Zenon DEF handle_SSH2_open_failure, TellNothing
<1>2. /\ Known /\ i \in Conns /\ Head(toClient) \in Packet /\ PacketFits(Head(toClient))
      /\ sv[Head(toClient).sid].st = "done"
  BY <1>1, TargetFits DEF FwdInv
<1>3. /\ ssh2_channel_delete(Target) /\ UNCHANGED << to_host_addrs, lookup >>
      /\ IF InUse(i) THEN FWD_free_channel(i) ELSE UNCHANGED << slots, num_channels >>
  BY Zenon, <1>2 DEF handle_SSH2_open_failure
<1>4. FWD_free_channel(i)
  <2>1. CASE InUse(i)
    BY Zenon, <1>3, <2>1
  <2>2. CASE ~InUse(i)
    <3>1. slots \in [Conns -> Slot] /\ num_channels \in [Requests -> Nat] /\ SlotShape(i)
      BY Zenon, <1>2 DEF FwdInv, SlotPart, SlotCount
    <3>2. slots[i] = EmptySlot
      BY Zenon, <1>2, <2>2, <3>1 DEF InUse, SlotShape, Held
    <3>3. slots' = slots /\ num_channels' = num_channels
      BY Zenon, <1>3, <2>2
    <3> HIDE DEF i
    <3>4. slots' = [slots EXCEPT ![i] = EmptySlot]
      BY <3>1, <3>2, <3>3
    <3>5. \A r \in Requests : slots[i].request # r
      BY <3>2 DEF EmptySlot, Requests
    <3>6. num_channels' = [r \in Requests |-> IF slots[i].request = r THEN num_channels[r] - 1
                                              ELSE num_channels[r]]
      BY <3>1, <3>3, <3>5
    <3>7. QED
      BY Zenon, <3>4, <3>6 DEF FWD_free_channel
  <2>3. QED
    BY Zenon, <2>1, <2>2
<1> HIDE DEF i
<1>5. PICK c \in Conns : c = Head(toClient).sid
  BY <1>2 DEF Packet
<1>6. sv' \in [Conns -> SvEnd] /\ confused' \in BOOLEAN /\ \A d \in Conns : Steady(d)
  BY Zenon, <1>1, NotToldSteady DEF FwdInv, FlagPart
<1>7. EndShape(c)'
  <2>1. c \in 1 .. nconns /\ nconns' = nconns
    BY Zenon, <1>1, <1>2, <1>5 DEF PacketFits, Arrives
  <2>2. nconns \in Nat /\ ~(c > nconns)
    BY <2>1 DEF FwdInv, EndPart
  <2>3. sv'[c].st = "done"
    BY Zenon, <1>1, <1>2, <1>5
  <2>4. QED
    BY <2>1, <2>2, <2>3 DEF EndShape
<1>8. FWD_free_channel(chans[Target].local)
  BY Zenon, <1>4 DEF i
<1>9. QED
  BY <1>1, <1>3, <1>5, <1>6, <1>7, <1>8, EndingKeeps

(* handle_SSH2_channel_close                                               *)
LEMMA CloseKeeps ==
    ASSUME FwdInv, handle_SSH2_channel_close
    PROVE  FwdInv'
<1>1. Arrives("CLOSE")
  BY Zenon DEF handle_SSH2_channel_close
<1>2. /\ Known /\ Target \in Conns
      /\ chans[Target].conn = Head(toClient).sid
      /\ Head(toClient) \in Packet /\ PacketFits(Head(toClient)) /\ Head(toClient).kind = "CLOSE"
      /\ sv[Head(toClient).sid].st = "open"
  BY <1>1, TargetFits DEF FwdInv, Arrives
<1>3. /\ Tell("CLOSE", chans[Target].remote_id, 0)
      /\ FWD_free_channel(chans[Target].local) /\ ssh2_channel_delete(Target)
      /\ UNCHANGED << to_host_addrs, lookup >>
  BY Zenon, <1>2 DEF handle_SSH2_channel_close
<1>4. PICK c \in Conns : c = Head(toClient).sid
  BY <1>2 DEF Packet
<1>5. PICK r : r = chans[Target].remote_id /\ r \in { NoId, c }
  BY Zenon, <1>2, <1>4 DEF FwdInv, ChanPart, ChanShape, Known
<1>6. sv \in [Conns -> SvEnd] /\ confused \in BOOLEAN /\ 0 \in 0 .. MaxConns
      /\ TellAll("CLOSE", { r }, 0)
  BY <1>3, <1>5, FwdAssumption DEF FwdInv, EndPart, FlagPart, Tell
<1>7. /\ sv' \in [Conns -> SvEnd] /\ confused' \in BOOLEAN
      /\ \A d \in Conns : IF d \in { r } /\ Expected("CLOSE", sv[d])
                          THEN sv'[d] = Placed("CLOSE", sv[d], 0) ELSE sv'[d] = sv[d]
  BY <1>6, TellAllMoves
<1>8. \A s \in Conns : s # c => Steady(s)
  <2>1. NoId \notin Conns
    BY DEF NoId, Conns
  <2>2. \A s \in Conns : s # c => s \notin { r }
    BY <1>5, <2>1
  <2>3. QED
    BY Zenon, <1>7, <2>2 DEF Steady
<1>9. EndShape(c)'
  <2>1. c \in 1 .. nconns /\ nconns' = nconns /\ sv[c].sentClose
    BY Zenon, <1>1, <1>2, <1>4 DEF PacketFits, Arrives
  <2>2. nconns \in Nat /\ ~(c > nconns)
    BY <2>1 DEF FwdInv, EndPart
  <2>3. sv[c] \in SvEnd
    BY <1>6
  <2>4. Placed("CLOSE", sv[c], 0) = [sv[c] EXCEPT !.st = "done"]
    BY <1>6, <2>3, PlacedEnd
  <2>5. sv'[c] = sv[c] \/ sv'[c] = [sv[c] EXCEPT !.st = "done"]
    BY Zenon, <1>7, <2>4
  <2>6. sv'[c].sentClose /\ sv'[c].st \in { "open", "done" }
    BY <1>2, <1>4, <2>1, <2>3, <2>5 DEF SvEnd
  <2>7. QED
    BY <2>1, <2>2, <2>6 DEF EndShape
<1>10. QED
  BY <1>1, <1>3, <1>4, <1>7, <1>8, <1>9, EndingKeeps
-----------------------------------------------------------------------------
(* The actions that make entries.                                          *)

(* The slots that are made.                                                *)
LEMMA MadeSlots ==
    ASSUME NEW c \in Conns, NEW a \in 0 .. NAddrs
    PROVE  /\ RemoteSlot(c, a) \in Slot /\ LocalSlot(c) \in Slot
           /\ RemoteSlot(c, a).status = { "REMOTE" } /\ LocalSlot(c).status = { "LOCAL" }
           /\ RemoteSlot(c, a).request = "R" /\ LocalSlot(c).request = "L"
           /\ RemoteSlot(c, a).conn = c /\ LocalSlot(c).conn = c
           /\ RemoteSlot(c, a).remote = c
           /\ RemoteSlot(c, a).sock = (IF a = 0 THEN "none" ELSE "connecting")
           /\ LocalSlot(c).sock = "open"
           /\ RemoteSlot(c, a).addr = a /\ LocalSlot(c).addr = 0
<1>1. c \in 0 .. MaxConns /\ 0 \in 0 .. NAddrs /\ 0 \in 0 .. MaxConns
  BY FwdAssumption DEF Conns
<1>2. EmptySlot \in Slot
  BY <1>1 DEF EmptySlot, Slot, Requests, NoId
<1>3. /\ EmptySlot.request = "none" /\ EmptySlot.addr = 0
  BY DEF EmptySlot
<1>4. RemoteSlot(c, a) \in Slot
  BY <1>1, <1>2 DEF RemoteSlot, Slot, Status, Requests
<1>5. LocalSlot(c) \in Slot
  BY <1>1, <1>2 DEF LocalSlot, Slot, Status, Requests
<1>6. /\ RemoteSlot(c, a).status = { "REMOTE" } /\ RemoteSlot(c, a).request = "R"
      /\ RemoteSlot(c, a).conn = c /\ RemoteSlot(c, a).remote = c
      /\ RemoteSlot(c, a).sock = (IF a = 0 THEN "none" ELSE "connecting")
      /\ RemoteSlot(c, a).addr = a
  BY <1>2 DEF RemoteSlot, Slot
<1>7. /\ LocalSlot(c).status = { "LOCAL" } /\ LocalSlot(c).request = "L"
      /\ LocalSlot(c).conn = c /\ LocalSlot(c).sock = "open" /\ LocalSlot(c).addr = 0
  BY <1>2, <1>3 DEF LocalSlot, Slot
<1>8. QED
  BY Zenon, <1>4, <1>5, <1>6, <1>7

(* What NewSlot does to the array.                                         *)
LEMMA NewSlotEffect ==
    ASSUME SlotPart, NEW i \in Conns, NEW s, NewSlot(i, s)
    PROVE  slots'[i] = s /\ \A j \in Conns : j # i => slots'[j] = slots[j]
BY DEF SlotPart, NewSlot

(* handle_SSH2_channel_open                                                *)
LEMMA OpenKeeps ==
    ASSUME FwdInv, handle_SSH2_channel_open
    PROVE  FwdInv'
<1>1. Arrives("OPEN") /\ to_host_addrs' = to_host_addrs /\ nconns' = nconns
      /\ reconnected' = reconnected
  BY Zenon DEF handle_SSH2_channel_open, Arrives
<1>2. Head(toClient) \in Packet /\ PacketFits(Head(toClient)) /\ Head(toClient).kind = "OPEN"
      /\ QueueMoves(1, { Head(toClient).sid })
  BY <1>1, OneTaken DEF FwdInv
<1>3. PICK c \in Conns : c = Head(toClient).sid
  BY <1>2 DEF Packet
<1>4. c \in 1 .. nconns /\ sv[c].st = "opening" /\ ~Made(c) /\ QueueMoves(1, { c })
  BY Zenon, <1>2, <1>3 DEF PacketFits
<1>5. /\ \A j \in Conns : Held(j) => slots[j].conn # c
      /\ \A l \in Conns : chans[l].used => chans[l].conn # c
  BY Zenon, <1>4 DEF Made
<1>6. /\ SlotPart /\ ChanPart /\ nconns \in 0 .. MaxConns /\ MaxConns \in Nat
      /\ NAddrs \in Nat /\ 0 \in 0 .. NAddrs
  BY FwdAssumption DEF FwdInv, EndPart
<1>7. FreeNum \in Conns /\ ~Held(FreeNum) /\ FreeChan \in Conns /\ ~chans[FreeChan].used
  BY <1>5, <1>6, FreeEntries
<1>8. PICK i \in Conns : i = FreeNum /\ ~Held(i)
  BY Zenon, <1>7
<1>9. PICK k \in Conns : FreeChan = k /\ ~chans[k].used
  BY Zenon, <1>7
<1>10. /\ \/ /\ lookup' = IF lookup = "idle" THEN "running" ELSE lookup
             /\ IF HasRoom THEN NewSlot(i, RemoteSlot(c, 0))
                ELSE UNCHANGED << slots, num_channels >>
             /\ TellNothing
          \/ /\ UNCHANGED lookup
             /\ \E a \in 1 .. NAddrs : IF HasRoom THEN NewSlot(i, RemoteSlot(c, a))
                                       ELSE UNCHANGED << slots, num_channels >>
             /\ TellNothing
          \/ /\ UNCHANGED << lookup, slots, num_channels >>
             /\ Tell("FAIL", c, 0)
       /\ IF HasRoom THEN ssh2_channel_new(i, c, c) ELSE UNCHANGED ssh
  BY Zenon, <1>3, <1>8 DEF handle_SSH2_channel_open
<1>11. \/ UNCHANGED << slots, num_channels >>
       \/ /\ HasRoom /\ \E a \in 0 .. NAddrs : NewSlot(i, RemoteSlot(c, a))
          /\ TellNothing
  <2>1. \A a \in 1 .. NAddrs : a \in 0 .. NAddrs
    BY <1>6
  <2>2. QED
    BY Zenon, <1>6, <1>10, <2>1
<1>12. TellNothing \/ Tell("FAIL", c, 0)
  BY Zenon, <1>10
<1>13. /\ sv' \in [Conns -> SvEnd] /\ confused' \in BOOLEAN
       /\ \A s \in Conns : s # c => sv'[s] = sv[s]
       /\ sv'[c].st \in { "opening", "done" }
  <2>1. sv \in [Conns -> SvEnd] /\ confused \in BOOLEAN /\ 0 \in 0 .. MaxConns
    BY <1>6 DEF FwdInv, EndPart, FlagPart
  <2>2. CASE TellNothing
    BY <1>4, <2>1, <2>2 DEF TellNothing
  <2>3. CASE Tell("FAIL", c, 0)
    <3>1. TellAll("FAIL", { c }, 0)
      BY Zenon, <2>3 DEF Tell
    <3>2. /\ sv' \in [Conns -> SvEnd] /\ confused' \in BOOLEAN
          /\ \A d \in Conns : IF d \in { c } /\ Expected("FAIL", sv[d])
                              THEN sv'[d] = Placed("FAIL", sv[d], 0) ELSE sv'[d] = sv[d]
      BY <2>1, <3>1, TellAllMoves
    <3>3. sv[c] \in SvEnd
      BY <2>1
    <3>4. Placed("FAIL", sv[c], 0) = [sv[c] EXCEPT !.st = "done"]
      BY <2>1, <3>3, PlacedEnd
    <3>5. sv'[c] = sv[c] \/ sv'[c] = [sv[c] EXCEPT !.st = "done"]
      BY Zenon, <3>2, <3>4
    <3>6. sv'[c].st \in { "opening", "done" }
      BY <1>4, <3>3, <3>5 DEF SvEnd
    <3>7. QED
      BY <3>2, <3>6
  <2>4. QED
    BY Zenon, <1>12, <2>2, <2>3
<1>14. /\ SlotPart' /\ SlotCount'
       /\ \A j \in Conns : j # i => slots'[j] = slots[j]
       /\ slots'[i] = slots[i] \/ (slots'[i].conn = c /\ sv'[c].st # "done")
  <2>1. CASE UNCHANGED << slots, num_channels >>
    <3>1. SlotPart'
      <4>1. SlotsKept /\ nconns \in Nat /\ nconns' \in Nat /\ nconns <= nconns'
        BY <1>1, <1>6, <2>1, SameSlots
      <4>2. QED
        BY <1>6, <4>1, SlotsKeptShape
    <3>2. SlotCount'
      BY <2>1, SameSlotCount DEF FwdInv
    <3>3. QED
      BY Zenon, <2>1, <3>1, <3>2
  <2>2. ASSUME NEW a \in 0 .. NAddrs, NewSlot(i, RemoteSlot(c, a)), TellNothing
        PROVE  /\ SlotPart' /\ SlotCount'
               /\ \A j \in Conns : j # i => slots'[j] = slots[j]
               /\ slots'[i].conn = c /\ sv'[c].st # "done"
    <3> DEFINE s == RemoteSlot(c, a)
    <3>1. /\ s \in Slot /\ s.status # {} /\ s.request = "R" /\ s.conn = c /\ s.remote = c
          /\ "R" \in Requests
      BY MadeSlots DEF Requests
    <3>2. NewSlot(i, s)
      BY Zenon, <2>2
    <3> HIDE DEF s
    <3>3. slots'[i] = s /\ \A j \in Conns : j # i => slots'[j] = slots[j]
      BY <1>6, <3>2, NewSlotEffect
    <3>4. nconns \in Nat /\ nconns' \in Nat /\ nconns <= nconns' /\ c \in 1 .. nconns'
      BY <1>1, <1>4, <1>6
    <3>5. SlotPart' /\ SlotCount'
      BY <1>5, <1>8, <3>1, <3>2, <3>4, AddedSlot DEF FwdInv
    <3>6. sv'[c].st # "done"
      BY <1>4, <2>2 DEF TellNothing
    <3>7. QED
      BY Zenon, <3>1, <3>3, <3>5, <3>6
  <2>3. QED
    BY Zenon, <1>11, <2>1, <2>2
<1>15. /\ ChanPart' /\ ChanCount'
       /\ \A l \in Conns : l # k => chans'[l] = chans[l]
       /\ chans'[k] = chans[k] \/ (chans'[k].local = i /\ chans'[k].conn = c)
  <2>1. nconns \in Nat /\ nconns' \in Nat /\ nconns <= nconns' /\ c \in 1 .. nconns'
        /\ c \in 0 .. MaxConns
    BY <1>1, <1>4, <1>6 DEF Conns
  <2>2. CASE HasRoom
    <3>1. ssh2_channel_new(i, c, c)
      BY Zenon, <1>10, <2>2
    <3>2. ChanPart /\ ChanCount
      BY Zenon DEF FwdInv
    <3>3. /\ ChanPart' /\ ChanCount' /\ chans'[k].local = i /\ chans'[k].conn = c
          /\ \A l \in Conns : l # k => chans'[l] = chans[l]
      BY <1>5, <1>9, <2>1, <2>2, <3>1, <3>2, AddedChan
    <3>4. QED
      BY Zenon, <3>3
  <2>3. CASE ~HasRoom
    <3>1. chans' = chans /\ channel_used_num' = channel_used_num
      BY Zenon, <1>10, <2>3 DEF ssh
    <3>2. ChanPart'
      <4>1. ChansKept
        BY <1>6, <3>1, SameChans
      <4>2. QED
        BY <1>6, <2>1, <4>1, ChansKeptShape
    <3>3. ChanCount'
      BY <3>1, SameChanCount DEF FwdInv
    <3>4. QED
      BY Zenon, <3>1, <3>2, <3>3
  <2>4. QED
    BY Zenon, <2>2, <2>3
<1>16. EndShape(c)'
  <2>1. nconns' = nconns /\ ~(c > nconns)
    BY <1>1, <1>4, <1>6
  <2>2. EndShape(c)
    BY Zenon DEF FwdInv, EndPart
  <2>3. ~sv'[c].sentClose
    <3>1. sv \in [Conns -> SvEnd] /\ 0 \in 0 .. MaxConns /\ confused \in BOOLEAN
      BY <1>6 DEF FwdInv, EndPart, FlagPart
    <3>2. ~sv[c].sentClose /\ sv[c] \in SvEnd
      BY <1>4, <2>2, <3>1 DEF EndShape
    <3>3. CASE TellNothing
      BY <3>2, <3>3 DEF TellNothing
    <3>4. CASE Tell("FAIL", c, 0)
      <4>1. TellAll("FAIL", { c }, 0)
        BY Zenon, <3>4 DEF Tell
      <4>2. \A d \in Conns : IF d \in { c } /\ Expected("FAIL", sv[d])
                             THEN sv'[d] = Placed("FAIL", sv[d], 0) ELSE sv'[d] = sv[d]
        BY <3>1, <4>1, TellAllMoves
      <4>3. Placed("FAIL", sv[c], 0) = [sv[c] EXCEPT !.st = "done"]
        BY <3>1, <3>2, PlacedEnd
      <4>4. sv'[c] = sv[c] \/ sv'[c] = [sv[c] EXCEPT !.st = "done"]
        BY Zenon, <4>2, <4>3
      <4>5. QED
        BY <3>2, <4>4 DEF SvEnd
    <3>5. QED
      BY Zenon, <1>12, <3>3, <3>4
  <2>4. QED
    BY <1>13, <2>1, <2>3 DEF EndShape
<1>17. OnlyAdds(1, c, i, k)
  <2>1. nconns' \in 0 .. MaxConns /\ nconns <= nconns' /\ c \in 1 .. nconns'
    BY <1>1, <1>4, <1>6
  <2>2. QED
    BY Zenon, <1>4, <1>8, <1>9, <1>13, <1>14, <1>15, <1>16, <2>1 DEF OnlyAdds
<1>18. Pair' /\ EndPart' /\ QueuePart' /\ NoSlotOutlivesServer'
  BY <1>14, <1>17, OnlyAddsKeeps DEF FwdInv
<1>19. FlagPart'
  <2>1. lookup' \in { "idle", "running", "found", "failed" }
    BY <1>10 DEF FwdInv, FlagPart
  <2>2. QED
    BY <1>1, <1>13, <2>1 DEF FwdInv, FlagPart
<1>20. QED
  BY Zenon, <1>14, <1>15, <1>18, <1>19 DEF FwdInv

(* accept_local_connection                                                 *)
LEMMA AcceptKeeps ==
    ASSUME FwdInv, NEW rekeying \in BOOLEAN, accept_local_connection(rekeying)
    PROVE  FwdInv'
<1>1. /\ nconns < MaxConns /\ nconns' = nconns + 1
      /\ UNCHANGED << to_host_addrs, lookup, toClient, confused, reconnected >>
      /\ SlotPart /\ ChanPart /\ nconns \in 0 .. MaxConns /\ MaxConns \in Nat
      /\ NAddrs \in Nat /\ 0 \in 0 .. NAddrs
  BY FwdAssumption DEF accept_local_connection, FwdInv, EndPart
<1>2. PICK c \in Conns : c = nconns + 1
  BY <1>1 DEF Conns
<1>3. /\ nconns \in Nat /\ nconns' \in Nat /\ nconns <= nconns' /\ c \in 1 .. nconns'
      /\ nconns' \in 0 .. MaxConns /\ c \notin 1 .. nconns /\ c > nconns /\ ~(c > nconns')
  BY <1>1, <1>2
<1>4. /\ \A j \in Conns : Held(j) => slots[j].conn # c
      /\ \A l \in Conns : chans[l].used => chans[l].conn # c
  BY Zenon, <1>1, <1>3, NotBegun
<1>5. FreeNum \in Conns /\ ~Held(FreeNum) /\ FreeChan \in Conns /\ ~chans[FreeChan].used
  BY <1>1, <1>4, FreeEntries
<1>6. PICK i \in Conns : i = FreeNum /\ ~Held(i)
  BY Zenon, <1>5
<1>7. PICK k \in Conns : FreeChan = k /\ ~chans[k].used
  BY Zenon, <1>5
<1>8. \/ /\ NewSlot(i, LocalSlot(c))
         /\ UNCHANGED << ssh, sv >>
      \/ UNCHANGED << slots, num_channels, ssh, sv >>
      \/ /\ HasRoom
         /\ NewSlot(i, LocalSlot(c))
         /\ ssh2_channel_new(i, NoId, c)
         /\ sv' = [sv EXCEPT ![c].st = "asked", ![c].cid = k]
  BY Zenon, <1>2, <1>6, <1>7 DEF accept_local_connection
<1>9. /\ SlotPart' /\ SlotCount'
      /\ \A j \in Conns : j # i => slots'[j] = slots[j]
      /\ slots'[i] = slots[i] \/ slots'[i].conn = c
  <2>1. CASE UNCHANGED << slots, num_channels >>
    <3>1. SlotsKept
      BY <1>1, <2>1, SameSlots
    <3>2. SlotPart'
      BY <1>1, <1>3, <3>1, SlotsKeptShape
    <3>3. SlotCount'
      BY <2>1, SameSlotCount DEF FwdInv
    <3>4. QED
      BY Zenon, <2>1, <3>2, <3>3
  <2>2. CASE NewSlot(i, LocalSlot(c))
    <3> DEFINE s == LocalSlot(c)
    <3>1. /\ s \in Slot /\ s.status # {} /\ s.request = "L" /\ s.conn = c /\ s.sock = "open"
          /\ "L" \in Requests
      BY <1>1, MadeSlots DEF Requests
    <3>2. NewSlot(i, s)
      BY Zenon, <2>2
    <3> HIDE DEF s
    <3>3. slots'[i] = s /\ \A j \in Conns : j # i => slots'[j] = slots[j]
      BY <1>1, <3>2, NewSlotEffect
    <3>4. SlotPart' /\ SlotCount'
      BY <1>3, <1>4, <1>6, <3>1, <3>2, AddedSlot DEF FwdInv
    <3>5. QED
      BY Zenon, <3>1, <3>3, <3>4
  <2>3. QED
    BY Zenon, <1>8, <2>1, <2>2
<1>10. /\ ChanPart' /\ ChanCount'
       /\ \A l \in Conns : l # k => chans'[l] = chans[l]
       /\ \/ UNCHANGED << ssh, sv >>
          \/ /\ chans'[k].used /\ chans'[k].local = i /\ chans'[k].conn = c
             /\ sv' = [sv EXCEPT ![c].st = "asked", ![c].cid = k]
  <2>1. CASE UNCHANGED << ssh, sv >>
    <3>1. chans' = chans /\ channel_used_num' = channel_used_num
      BY Zenon, <2>1 DEF ssh
    <3>2. ChansKept
      BY <1>1, <3>1, SameChans
    <3>3. ChanPart'
      BY <1>1, <1>3, <3>2, ChansKeptShape
    <3>4. ChanCount'
      BY <3>1, SameChanCount DEF FwdInv
    <3>5. QED
      BY Zenon, <2>1, <3>1, <3>3, <3>4
  <2>2. CASE /\ HasRoom
             /\ ssh2_channel_new(i, NoId, c)
             /\ sv' = [sv EXCEPT ![c].st = "asked", ![c].cid = k]
    <3>1. ChanPart /\ ChanCount /\ NoId \in 0 .. MaxConns /\ NoId \in { NoId, c }
      BY <1>1 DEF FwdInv, NoId
    <3>2. /\ ChanPart' /\ ChanCount' /\ chans'[k].used /\ chans'[k].local = i /\ chans'[k].conn = c
          /\ \A l \in Conns : l # k => chans'[l] = chans[l]
      BY <1>3, <1>4, <1>7, <2>2, <3>1, AddedChan
    <3>3. QED
      BY Zenon, <2>2, <3>2
  <2>3. QED
    BY Zenon, <1>8, <2>1, <2>2
<1>11. sv \in [Conns -> SvEnd] /\ sv[c].st = "none" /\ ~sv[c].sentClose
  BY <1>3 DEF FwdInv, EndPart, EndShape
<1>12. /\ sv' \in [Conns -> SvEnd] /\ \A s \in Conns : s # c => sv'[s] = sv[s]
       /\ sv'[c].st # "done" /\ EndShape(c)'
  <2>1. CASE UNCHANGED << ssh, sv >>
    <3>1. EndShape(c)'
      BY <1>3, <1>11, <2>1 DEF EndShape
    <3>2. QED
      BY <1>11, <2>1, <3>1
  <2>2. CASE /\ chans'[k].used /\ chans'[k].local = i /\ chans'[k].conn = c
             /\ sv' = [sv EXCEPT ![c].st = "asked", ![c].cid = k]
    <3>1. /\ sv' \in [Conns -> SvEnd] /\ \A s \in Conns : s # c => sv'[s] = sv[s]
          /\ sv'[c].st = "asked" /\ sv'[c].cid = k /\ sv'[c].sentClose = sv[c].sentClose
      <4> DEFINE e == [sv[c] EXCEPT !.st = "asked", !.cid = k]
      <4>1. sv[c] \in SvEnd /\ k \in 0 .. MaxConns
        BY <1>1, <1>11 DEF Conns
      <4>2. e \in SvEnd /\ e.st = "asked" /\ e.cid = k /\ e.sentClose = sv[c].sentClose
        BY <4>1 DEF SvEnd
      <4>3. sv' = [sv EXCEPT ![c] = e]
        BY <1>11, <2>2, <4>1 DEF SvEnd
      <4> HIDE DEF e
      <4>4. QED
        BY <1>11, <4>2, <4>3
    <3>2. EndShape(c)'
      BY <1>3, <1>11, <2>2, <3>1 DEF EndShape
    <3>3. QED
      BY <3>1, <3>2
  <2>3. QED
    BY Zenon, <1>10, <2>1, <2>2
<1>13. QueueMoves(0, { c })
  <2>1. ASSUME NEW n \in 1 .. Len(toClient) PROVE toClient[n].sid \notin { c }
    <3>1. toClient[n].sid \in 1 .. nconns
      BY Zenon DEF FwdInv, QueuePart, PacketFits
    <3>2. QED
      BY <1>3, <3>1
  <2>2. QED
    BY <1>1, <2>1, NoneTaken DEF FwdInv
<1>14. OnlyAdds(0, c, i, k)
  <2>1. ~Made(c)
    BY Zenon, <1>4 DEF Made
  <2>2. chans'[k] = chans[k] \/ (chans'[k].local = i /\ chans'[k].conn = c)
    BY Zenon, <1>10 DEF ssh
  <2>3. QED
    BY Zenon, <1>3, <1>6, <1>7, <1>9, <1>10, <1>12, <1>13, <2>1, <2>2 DEF OnlyAdds
<1>15. Pair' /\ EndPart' /\ QueuePart' /\ NoSlotOutlivesServer'
  BY <1>9, <1>14, OnlyAddsKeeps DEF FwdInv
<1>16. FlagPart'
  BY <1>1 DEF FwdInv, FlagPart
<1>17. QED
  BY Zenon, <1>9, <1>10, <1>15, <1>16 DEF FwdInv
-----------------------------------------------------------------------------
(* The server's steps.                                                     *)

(* A packet that is sent changes nothing of the client.                    *)
LEMMA SentKeeps ==
    ASSUME FwdInv, NEW m \in Packet, Send(m), OnlySends(m)
    PROVE  FwdInv'
<1>1. UNCHANGED << fwd, ssh, confused, reconnected >>
  BY Zenon DEF Send
<1>2. SlotPart' /\ ChanPart' /\ Pair' /\ EndPart' /\ QueuePart' /\ NoSlotOutlivesServer'
  BY OnlySendsKeeps DEF FwdInv
<1>3. SlotCount'
  BY <1>1, SameSlotCount DEF FwdInv, fwd
<1>4. ChanCount'
  BY <1>1, SameChanCount DEF FwdInv, ssh
<1>5. FlagPart'
  BY <1>1 DEF FwdInv, FlagPart, fwd
<1>6. QED
  BY Zenon, <1>2, <1>3, <1>4, <1>5 DEF FwdInv

(* A connection that the server opens.                                     *)
LEMMA SvOpenKeeps ==
    ASSUME FwdInv, SvOpen
    PROVE  FwdInv'
<1>1. /\ nconns < MaxConns /\ nconns' = nconns + 1 /\ nconns \in 0 .. MaxConns /\ MaxConns \in Nat
      /\ SlotPart /\ ChanPart /\ sv \in [Conns -> SvEnd]
  BY FwdAssumption DEF SvOpen, FwdInv, EndPart
<1>2. PICK c \in Conns : c = nconns + 1
  BY <1>1 DEF Conns
<1>3. /\ nconns \in Nat /\ nconns' \in Nat /\ nconns <= nconns' /\ c \in 1 .. nconns'
      /\ nconns' \in 0 .. MaxConns /\ c \notin 1 .. nconns /\ c > nconns /\ ~(c > nconns')
  BY <1>1, <1>2
<1>4. PICK m : m = Message("OPEN", 0, c)
  OBVIOUS
<1>5. m \in Packet /\ m.kind = "OPEN" /\ m.sid = c
  BY <1>1, <1>4 DEF Packet, Message, Kinds
<1>6. Send(m) /\ sv' = [sv EXCEPT ![c].st = "opening"]
  BY Zenon, <1>2, <1>4 DEF SvOpen
<1>7. slots' = slots /\ chans' = chans /\ toClient' = Append(toClient, m)
  BY Zenon, <1>6 DEF Send, fwd, ssh
<1>8. /\ sv' \in [Conns -> SvEnd] /\ \A s \in Conns : s # c => sv'[s] = sv[s]
      /\ sv'[c].st = "opening" /\ sv'[c].sentClose = sv[c].sentClose
  BY <1>1, <1>6 DEF SvEnd
<1>9. sv[c].st = "none" /\ ~sv[c].sentClose
  BY <1>3 DEF FwdInv, EndPart, EndShape
<1>10. EndShape(c)'
  BY <1>3, <1>8, <1>9 DEF EndShape
<1>11. ~Made(c)
  BY Zenon, <1>1, <1>3, NotBegun DEF Made
<1>12. ~Made(c)'
  BY Zenon, <1>7, <1>11 DEF Made, Held
<1>13. PacketFits(m)'
  BY <1>3, <1>5, <1>8, <1>12 DEF PacketFits
<1>14. \A n \in 1 .. Len(toClient) : toClient[n].sid # c
  BY Zenon, <1>3 DEF FwdInv, QueuePart, PacketFits
<1>15. EndShape(m.sid)'
  BY <1>5, <1>10
<1>16. OnlySends(m)
  BY <1>3, <1>5, <1>7, <1>8, <1>13, <1>14, <1>15 DEF OnlySends
<1>17. QED
  BY <1>5, <1>6, <1>16, SentKeeps

(* The packets under way for a connection that is asked for.               *)
LEMMA AskedIsQuiet ==
    ASSUME QueuePart, NEW s, sv[s].st = "asked"
    PROVE  \A n \in 1 .. Len(toClient) : toClient[n].sid # s
<1> SUFFICES ASSUME NEW n \in 1 .. Len(toClient), toClient[n].sid = s PROVE FALSE
  OBVIOUS
<1>1. PacketFits(toClient[n])
  BY Zenon DEF QueuePart
<1>2. QED
  BY <1>1 DEF PacketFits

(* The server's answer.                                                    *)
LEMMA SvAnswerKeeps ==
    ASSUME FwdInv, NEW s \in Conns, SvAnswer(s)
    PROVE  FwdInv'
<1>1. /\ sv[s].st = "asked" /\ nconns' = nconns
      /\ \E k \in { "CONFIRM", "FAIL" } :
           /\ sv' = [sv EXCEPT ![s].st = IF k = "CONFIRM" THEN "open" ELSE "done"]
           /\ Send(Message(k, sv[s].cid, s))
  BY Zenon DEF SvAnswer
<1>2. PICK k \in { "CONFIRM", "FAIL" } :
         /\ sv' = [sv EXCEPT ![s].st = IF k = "CONFIRM" THEN "open" ELSE "done"]
         /\ Send(Message(k, sv[s].cid, s))
  BY Zenon, <1>1
<1>3. sv \in [Conns -> SvEnd] /\ sv[s] \in SvEnd /\ EndShape(s) /\ nconns \in 0 .. MaxConns
      /\ MaxConns \in Nat
  BY FwdAssumption DEF FwdInv, EndPart
<1>4. /\ ~(s > nconns) /\ ~sv[s].sentClose /\ sv[s].cid \in Conns
      /\ chans[sv[s].cid].used /\ chans[sv[s].cid].conn = s
  BY <1>1, <1>3 DEF EndShape
<1>5. PICK m : m = Message(k, sv[s].cid, s)
  OBVIOUS
<1>6. m \in Packet /\ m.kind = k /\ m.sid = s /\ m.to = sv[s].cid
  BY <1>3, <1>4, <1>5 DEF Packet, Message, Kinds, Conns
<1>7. slots' = slots /\ chans' = chans /\ toClient' = Append(toClient, m) /\ Send(m)
  BY Zenon, <1>2, <1>5 DEF Send, fwd, ssh
<1>8. /\ sv' \in [Conns -> SvEnd] /\ \A d \in Conns : d # s => sv'[d] = sv[d]
      /\ sv'[s].st = (IF k = "CONFIRM" THEN "open" ELSE "done")
      /\ sv'[s].cid = sv[s].cid /\ sv'[s].sentClose = sv[s].sentClose
  BY <1>2, <1>3 DEF SvEnd
<1>9. EndShape(s)'
  BY <1>1, <1>4, <1>7, <1>8 DEF EndShape
<1>10. s \in 1 .. nconns'
  BY <1>1, <1>3, <1>4 DEF Conns
<1>11. PacketFits(m)'
  BY <1>4, <1>6, <1>7, <1>8, <1>10 DEF PacketFits
<1>12. \A n \in 1 .. Len(toClient) : toClient[n].sid # s
  BY <1>1, AskedIsQuiet DEF FwdInv
<1>13. sv'[s].st = "done" => k = "FAIL"
  BY <1>8
<1>14. EndShape(m.sid)' /\ nconns' \in 0 .. MaxConns /\ nconns <= nconns'
  BY <1>1, <1>3, <1>6, <1>9
<1>15. OnlySends(m)
  BY Zenon, <1>6, <1>7, <1>8, <1>11, <1>12, <1>13, <1>14 DEF OnlySends
<1>16. QED
  BY <1>6, <1>7, <1>15, SentKeeps

(* The server's data, end of data, and close.                              *)
LEMMA SvSendKeeps ==
    ASSUME FwdInv, NEW s \in Conns, SvSend(s)
    PROVE  FwdInv'
<1>1. /\ sv[s].st = "open" /\ ~sv[s].sentClose /\ nconns' = nconns
      /\ \/ sv' = sv /\ Send(Message("DATA", sv[s].cid, s))
         \/ sv' = [sv EXCEPT ![s].sentEof = TRUE] /\ Send(Message("EOF", sv[s].cid, s))
         \/ sv' = [sv EXCEPT ![s].sentClose = TRUE] /\ Send(Message("CLOSE", sv[s].cid, s))
  BY Zenon DEF SvSend
<1>2. PICK k \in { "DATA", "EOF", "CLOSE" } :
         /\ Send(Message(k, sv[s].cid, s))
         /\ \/ k = "DATA" /\ sv' = sv
            \/ k = "EOF" /\ sv' = [sv EXCEPT ![s].sentEof = TRUE]
            \/ k = "CLOSE" /\ sv' = [sv EXCEPT ![s].sentClose = TRUE]
  BY <1>1
<1>3. sv \in [Conns -> SvEnd] /\ sv[s] \in SvEnd /\ EndShape(s) /\ nconns \in 0 .. MaxConns
      /\ MaxConns \in Nat
  BY FwdAssumption DEF FwdInv, EndPart
<1>4. /\ ~(s > nconns) /\ sv[s].cid \in Conns
      /\ chans[sv[s].cid].used /\ chans[sv[s].cid].conn = s
  BY <1>1, <1>3 DEF EndShape
<1>5. PICK m : m = Message(k, sv[s].cid, s)
  OBVIOUS
<1>6. m \in Packet /\ m.kind = k /\ m.sid = s /\ m.to = sv[s].cid
  BY <1>3, <1>4, <1>5 DEF Packet, Message, Kinds, Conns
<1>7. slots' = slots /\ chans' = chans /\ toClient' = Append(toClient, m) /\ Send(m)
  BY Zenon, <1>2, <1>5 DEF Send, fwd, ssh
<1>8. /\ sv' \in [Conns -> SvEnd] /\ \A d \in Conns : d # s => sv'[d] = sv[d]
      /\ sv'[s].st = "open" /\ sv'[s].cid = sv[s].cid
      /\ k = "CLOSE" => sv'[s].sentClose
  <2>1. CASE k = "DATA" /\ sv' = sv
    BY <1>1, <1>3, <2>1
  <2>2. CASE k = "EOF" /\ sv' = [sv EXCEPT ![s].sentEof = TRUE]
    BY <1>1, <1>3, <2>2 DEF SvEnd
  <2>3. CASE k = "CLOSE" /\ sv' = [sv EXCEPT ![s].sentClose = TRUE]
    BY <1>1, <1>3, <2>3 DEF SvEnd
  <2>4. QED
    BY Zenon, <1>2, <2>1, <2>2, <2>3
<1>9. EndShape(s)'
  BY <1>1, <1>4, <1>7, <1>8 DEF EndShape
<1>10. s \in 1 .. nconns'
  BY <1>1, <1>3, <1>4 DEF Conns
<1>11. PacketFits(m)'
  BY <1>4, <1>6, <1>7, <1>8, <1>10 DEF PacketFits
<1>12. ASSUME NEW n \in 1 .. Len(toClient), toClient[n].sid = s
       PROVE  PacketFits(toClient[n])' /\ Before(toClient[n], m)
  <2>1. toClient \in Seq(Packet) /\ toClient[n] \in Packet /\ PacketFits(toClient[n])
    BY DEF FwdInv, QueuePart
  <2>2. toClient[n].kind \in { "CONFIRM", "DATA", "EOF" }
    BY <1>1, <1>12, <2>1 DEF PacketFits, Packet, Kinds
  <2>3. Before(toClient[n], m)
    BY <1>6, <2>2 DEF Before
  <2>4. toClient'[n] = toClient[n]
    BY <1>7, <2>1
  <2>5. ASSUME NEW x \in Packet, x = toClient[n] PROVE PacketFits(x)'
    BY <1>1, <1>7, <1>8, <1>10, <1>12, <2>1, <2>2, <2>5 DEF PacketFits
  <2>6. \A x \in Packet : x = toClient'[n] => PacketFits(x)'
    BY Zenon, <2>4, <2>5
  <2>7. PacketFits(toClient[n])'
    BY Zenon, <2>1, <2>4, <2>6 DEF PacketFits, Made, Held
  <2>8. QED
    BY Zenon, <2>3, <2>7
<1>13. sv'[s].st # "done"
  BY <1>8
<1>14. EndShape(m.sid)' /\ nconns' \in 0 .. MaxConns /\ nconns <= nconns'
  BY <1>1, <1>3, <1>6, <1>9
<1>15. OnlySends(m)
  BY Zenon, <1>6, <1>7, <1>8, <1>11, <1>12, <1>13, <1>14 DEF OnlySends
<1>16. QED
  BY <1>6, <1>7, <1>15, SentKeeps
-----------------------------------------------------------------------------
(* The theorems.                                                           *)

(* The invariant holds when the program starts.                            *)
LEMMA FwdInit ==
    ASSUME Init
    PROVE  FwdInv
<1>1. /\ MaxConns \in Nat /\ NAddrs \in Nat /\ MaxChannel \in Nat
      /\ slots = [i \in Conns |-> EmptySlot] /\ chans = [k \in Conns |-> EmptyChan]
      /\ num_channels = [r \in Requests |-> 0] /\ channel_used_num = 0
      /\ toClient = << >> /\ sv = [s \in Conns |-> EmptyEnd] /\ nconns = 0
  BY FwdAssumption DEF Init
<1>2. /\ EmptySlot \in Slot /\ EmptySlot.status = {} /\ EmptySlot.request = "none"
      /\ EmptySlot.sock = "none"
  BY <1>1 DEF EmptySlot, Slot, Requests, NoId
<1>3. EmptyChan \in Chan /\ EmptyChan.used = FALSE
  BY <1>1 DEF EmptyChan, Chan, NoId
<1>4. EmptyEnd \in SvEnd /\ EmptyEnd.st = "none" /\ EmptyEnd.sentClose = FALSE
  BY <1>1 DEF EmptyEnd, SvEnd
<1>5. \A i \in Conns : slots[i] = EmptySlot /\ ~Held(i)
  BY <1>1, <1>2 DEF Held
<1>6. \A k \in Conns : chans[k] = EmptyChan /\ ~chans[k].used
  BY <1>1, <1>3
<1>7. SlotPart
  <2>1. \A i \in Conns : SlotShape(i)
    BY <1>2, <1>5 DEF SlotShape
  <2>2. slots \in [Conns -> Slot]
    BY <1>1, <1>2
  <2>3. QED
    BY Zenon, <1>5, <2>1, <2>2 DEF SlotPart
<1>8. ChanPart
  <2>1. \A k \in Conns : ChanShape(k)
    BY Zenon, <1>6 DEF ChanShape
  <2>2. chans \in [Conns -> Chan]
    BY <1>1, <1>3
  <2>3. QED
    BY Zenon, <1>6, <2>1, <2>2 DEF ChanPart
<1>9. SlotCount
  <2>1. \A r \in Requests : SlotsOf(r) = {}
    BY <1>2, <1>5 DEF SlotsOf, Requests
  <2>2. Cardinality({}) = 0
    BY FS_EmptySet
  <2>3. num_channels \in [Requests -> Nat] /\ \A r \in Requests : num_channels[r] = 0
    BY <1>1
  <2>4. QED
    BY Zenon, <2>1, <2>2, <2>3 DEF SlotCount
<1>10. ChanCount
  <2>1. UsedChans = {}
    BY Zenon, <1>6 DEF UsedChans
  <2>2. Cardinality({}) = 0
    BY FS_EmptySet
  <2>3. QED
    BY <1>1, <2>1, <2>2 DEF ChanCount
<1>11. Pair /\ NoSlotOutlivesServer
  BY Zenon, <1>5 DEF Pair, NoSlotOutlivesServer, Held
<1>12. EndPart
  <2>1. \A s \in Conns : sv[s] = EmptyEnd
    BY <1>1
  <2>2. \A s \in Conns : EndShape(s)
    BY <1>4, <2>1 DEF EndShape
  <2>3. sv \in [Conns -> SvEnd] /\ nconns \in 0 .. MaxConns
    BY <1>1, <1>4
  <2>4. QED
    BY Zenon, <2>2, <2>3 DEF EndPart
<1>13. QueuePart
  BY <1>1 DEF QueuePart
<1>14. FlagPart
  BY DEF Init, FlagPart
<1>15. QED
  BY Zenon, <1>7, <1>8, <1>9, <1>10, <1>11, <1>12, <1>13, <1>14 DEF FwdInv

(* Nor does a step that changes nothing disturb it.                        *)
LEMMA FwdStutter ==
    ASSUME FwdInv, UNCHANGED vars
    PROVE  FwdInv'
<1>1. UNCHANGED << slots, num_channels, ssh, nconns >> /\ UNCHANGED << sv, confused >>
      /\ toClient' = toClient /\ UNCHANGED << to_host_addrs, lookup, reconnected >>
  BY Zenon DEF vars, fwd
<1>2. sv' \in [Conns -> SvEnd] /\ \A d \in Conns : Steady(d)
  BY Zenon, <1>1, NotToldSteady DEF FwdInv, FlagPart
<1>3. FlagPart'
  BY <1>1 DEF FwdInv, FlagPart
<1>4. QED
  BY <1>1, <1>2, <1>3, NoTouchKeeps

(* Every step keeps the invariant.                                         *)
LEMMA FwdStep ==
    ASSUME FwdInv, [Next]_vars
    PROVE  FwdInv'
<1>1. CASE UNCHANGED vars
  BY Zenon, <1>1, FwdStutter
<1>2. CASE Sockets
  <2>1. ASSUME NEW rekeying \in BOOLEAN, accept_local_connection(rekeying) PROVE FwdInv'
    BY Zenon, <2>1, AcceptKeeps
  <2>2. CASE getaddrinfo_thread
    BY Zenon, <2>2, LookupThreadKeeps
  <2>3. CASE GotName
    BY Zenon, <2>3, GotNameKeeps
  <2>4. ASSUME NEW i \in Conns, FdConnect(i) PROVE FwdInv'
    BY Zenon, <2>4, FdConnectKeeps
  <2>5. ASSUME NEW i \in Conns, FdConnectError(i) PROVE FwdInv'
    BY Zenon, <2>5, FdConnectErrorKeeps
  <2>6. ASSUME NEW i \in Conns, FdRead(i) PROVE FwdInv'
    BY Zenon, <2>6, FdReadKeeps
  <2>7. ASSUME NEW i \in Conns, FdWrite(i) PROVE FwdInv'
    BY Zenon, <2>7, FdWriteKeeps
  <2>8. ASSUME NEW i \in Conns, NEW rekeying \in BOOLEAN, FdClose(i, rekeying) PROVE FwdInv'
    BY Zenon, <2>8, FdCloseKeeps
  <2>9. QED
    BY Zenon, <1>2, <2>1, <2>2, <2>3, <2>4, <2>5, <2>6, <2>7, <2>8 DEF Sockets
<1>3. CASE Packets
  <2>1. CASE handle_SSH2_channel_open
    BY Zenon, <2>1, OpenKeeps
  <2>2. CASE handle_SSH2_open_confirm
    BY Zenon, <2>2, ConfirmKeeps
  <2>3. CASE handle_SSH2_open_failure
    BY Zenon, <2>3, FailKeeps
  <2>4. CASE handle_SSH2_channel_data
    BY Zenon, <2>4, DataKeeps
  <2>5. CASE handle_SSH2_channel_eof
    BY Zenon, <2>5, EofKeeps
  <2>6. CASE handle_SSH2_channel_close
    BY Zenon, <2>6, CloseKeeps
  <2>7. QED
    BY Zenon, <1>3, <2>1, <2>2, <2>3, <2>4, <2>5, <2>6 DEF Packets
<1>4. CASE Server
  <2>1. CASE SvOpen
    BY Zenon, <2>1, SvOpenKeeps
  <2>2. ASSUME NEW s \in Conns, SvAnswer(s) PROVE FwdInv'
    BY Zenon, <2>2, SvAnswerKeeps
  <2>3. ASSUME NEW s \in Conns, SvSend(s) PROVE FwdInv'
    BY Zenon, <2>3, SvSendKeeps
  <2>4. QED
    BY Zenon, <1>4, <2>1, <2>2, <2>3 DEF Server
<1>5. QED
  BY Zenon, <1>1, <1>2, <1>3, <1>4 DEF Next

(* FwdInv is invariant.                                                    *)
LEMMA FwdInvariant == Spec => []FwdInv
<1>1. Init => FwdInv
  BY Zenon, FwdInit
<1>2. FwdInv /\ [Next]_vars => FwdInv'
  BY Zenon, FwdStep
<1>3. QED
  BY <1>1, <1>2, PTL DEF Spec

(* Every variable of the two arrays, the lookup, the packets under way and *)
(* the ends has its type, whatever the limits: no free entry is missing    *)
(* when one is needed, and no counter falls below zero.                    *)
THEOREM FwdTypeCorrect == Spec => []TypeOK
<1>1. FwdInv => TypeOK
  BY Zenon DEF FwdInv, TypeOK, SlotPart, SlotCount, ChanPart, ChanCount, EndPart, QueuePart,
               FlagPart, Packet
<1>2. QED
  BY <1>1, FwdInvariant, PTL

(* num_channels counts the slots of each request, channel_used_num the     *)
(* channels in use, and these keep within the limit.                       *)
THEOREM FwdCountsRight == Spec => []CountsAreRight
<1>1. FwdInv => CountsAreRight
  BY Zenon DEF FwdInv, CountsAreRight, SlotCount, ChanCount, SlotsOf, UsedChans
<1>2. QED
  BY <1>1, FwdInvariant, PTL

(* Every packet of the server meets the Channel_t it was sent for, however *)
(* often the numbers of channels are used again.                           *)
THEOREM FwdPacketsMeet == Spec => []MessagesMeetTheirChannel
<1>1. FwdInv => MessagesMeetTheirChannel
  BY Zenon DEF FwdInv, MessagesMeetTheirChannel, QueuePart, PacketFits
<1>2. QED
  BY <1>1, FwdInvariant, PTL

(* No slot, and no socket in it, outlives the server's end of its          *)
(* connection.                                                             *)
THEOREM FwdSlotsEnd == Spec => []NoSlotOutlivesServer
<1>1. FwdInv => NoSlotOutlivesServer
  BY Zenon DEF FwdInv
<1>2. QED
  BY <1>1, FwdInvariant, PTL
-----------------------------------------------------------------------------
(* While no slot is connected twice: the lookup is right, and the client   *)
(* tells the server nothing out of turn, unless a Channel_t is stranded.   *)

(* Every Channel_t with the slot's number is of the slot's connection.     *)
Own(i) ==
    \A k \in Conns : chans[k].used /\ chans[k].local = i => chans[k].conn = slots[i].conn

(* The slot waits for its target's address, or for its connect.            *)
Waiting(i) ==
    \/ slots[i].sock = "connecting"
    \/ slots[i].request = "R" /\ slots[i].addr = 0

(* Data may go from the socket to the server.                              *)
Flowing(i) == Both \subseteq slots[i].status /\ slots[i].sock = "open"

(* A packet of kind k of connection c is among the packets q.              *)
Among(q, k, c) == \E n \in 1 .. Len(q) : q[n].kind = k /\ q[n].sid = c
UnderWay(k, c) == Among(toClient, k, c)

(* What the server makes of the next packet for a slot.                    *)
SlotAgrees(i) ==
    /\ Waiting(i) => sv[slots[i].conn].st = "opening"
    /\ slots[i].sock = "connecting" => slots[i].addr # 0
    /\ Flowing(i) => \A k \in Conns :
          chans[k].used /\ chans[k].local = i
             => /\ sv[slots[i].conn].st = "open" /\ ~sv[slots[i].conn].gotEof
                /\ chans[k].remote_id = slots[i].conn
SlotCalm(i) == Held(i) /\ Own(i) => SlotAgrees(i)

(* A Channel_t has no number of the server's until the answer has come.    *)
ChanCalm(k) ==
    chans[k].used =>
        LET c == chans[k].conn
        IN  /\ chans[k].remote_id = NoId =>
                 /\ ~sv[c].gotEof
                 /\ \/ sv[c].st = "asked"
                    \/ sv[c].st = "open" /\ UnderWay("CONFIRM", c)
                    \/ sv[c].st = "done" /\ UnderWay("FAIL", c)
            /\ sv[c].st = "asked" => chans[k].remote_id = NoId
            /\ UnderWay("CONFIRM", c) => chans[k].remote_id = NoId

(* An end that is not open has got no EOF.                                 *)
EndCalm(s) == sv[s].st \in { "none", "opening", "asked" } => ~sv[s].gotEof

CalmParts ==
    /\ \A i \in Conns : SlotCalm(i)
    /\ \A k \in Conns : ChanCalm(k)
    /\ \A s \in Conns : EndCalm(s)

(* The server hung up only because a Channel_t is stranded.                *)
CalmInv == reconnected \/ (IF confused THEN Stranded # {} ELSE CalmParts)

(* What a step out of calm leads to.                                       *)
CalmNext == reconnected' \/ (IF confused' THEN Stranded' # {} ELSE CalmParts')

(* The slot asks no more of its connection than it did.                    *)
Fades(i) ==
    /\ slots'[i].conn = slots[i].conn
    /\ Waiting(i)' => Waiting(i)
    /\ slots'[i].sock = "connecting" => slots'[i].addr # 0
    /\ Flowing(i)' => Flowing(i)

(* The server's end is, to a slot, what it was.                            *)
EndSame(s) == sv'[s].st = sv[s].st /\ sv'[s].gotEof = sv[s].gotEof

(* A slot that only fades agrees with its end as long as the end stays, or *)
(* when it asks for nothing.                                               *)
LEMMA SlotFades ==
    ASSUME NEW i \in Conns, Held(i), Own(i), SlotCalm(i), Fades(i),
           \A k \in Conns : chans'[k].used /\ chans'[k].local = i => chans'[k] = chans[k],
           EndSame(slots[i].conn) \/ (~Waiting(i)' /\ ~Flowing(i)')
    PROVE  SlotAgrees(i)'
<1> DEFINE c == slots[i].conn
<1>1. SlotAgrees(i) /\ slots'[i].conn = c
  BY Zenon DEF SlotCalm, Fades
<1>2. slots'[i].sock = "connecting" => slots'[i].addr # 0
  BY Zenon DEF Fades
<1>3. CASE ~Waiting(i)' /\ ~Flowing(i)'
  BY Zenon, <1>2, <1>3 DEF SlotAgrees, Waiting, Flowing
<1>4. CASE EndSame(c)
  <2>1. Waiting(i)' => sv'[slots'[i].conn].st = "opening"
    BY Zenon, <1>1, <1>4 DEF SlotAgrees, Fades, EndSame
  <2>2. ASSUME Flowing(i)', NEW k \in Conns, chans'[k].used, chans'[k].local = i
        PROVE  /\ sv'[slots'[i].conn].st = "open" /\ ~sv'[slots'[i].conn].gotEof
               /\ chans'[k].remote_id = slots'[i].conn
    <3>1. Flowing(i) /\ chans'[k] = chans[k]
      BY Zenon, <2>2 DEF Fades
    <3>2. /\ sv[c].st = "open" /\ ~sv[c].gotEof
          /\ chans[k].remote_id = c
      BY Zenon, <1>1, <2>2, <3>1 DEF SlotAgrees
    <3>3. QED
      BY Zenon, <1>1, <1>4, <3>1, <3>2 DEF EndSame
  <2>3. QED
    BY Zenon, <1>2, <2>1, <2>2 DEF SlotAgrees, Waiting, Flowing
<1>5. QED
  BY Zenon, <1>3, <1>4

(* A Channel_t that stays agrees with its end as long as the end stays, or *)
(* when the server's number was known.                                     *)
LEMMA ChanStaysCalm ==
    ASSUME NEW k \in Conns, ChanCalm(k), chans'[k] = chans[k],
           \/ EndSame(chans[k].conn)
           \/ sv'[chans[k].conn].st \in { "open", "done" } /\ chans[k].remote_id # NoId,
           \A p \in { "CONFIRM", "FAIL" } :
              Among(toClient', p, chans[k].conn) <=> UnderWay(p, chans[k].conn)
    PROVE  ChanCalm(k)'
<1> DEFINE c == chans[k].conn
<1>1. /\ Among(toClient', "CONFIRM", c) <=> UnderWay("CONFIRM", c)
      /\ Among(toClient', "FAIL", c) <=> UnderWay("FAIL", c)
  BY Zenon
<1> SUFFICES ASSUME chans[k].used
             PROVE  /\ chans[k].remote_id = NoId =>
                         /\ ~sv'[c].gotEof
                         /\ \/ sv'[c].st = "asked"
                            \/ sv'[c].st = "open" /\ Among(toClient', "CONFIRM", c)
                            \/ sv'[c].st = "done" /\ Among(toClient', "FAIL", c)
                    /\ sv'[c].st = "asked" => chans[k].remote_id = NoId
                    /\ Among(toClient', "CONFIRM", c) => chans[k].remote_id = NoId
  BY Zenon DEF ChanCalm, UnderWay, Among
<1>2. /\ chans[k].remote_id = NoId =>
           /\ ~sv[c].gotEof
           /\ \/ sv[c].st = "asked"
              \/ sv[c].st = "open" /\ UnderWay("CONFIRM", c)
              \/ sv[c].st = "done" /\ UnderWay("FAIL", c)
      /\ sv[c].st = "asked" => chans[k].remote_id = NoId
      /\ UnderWay("CONFIRM", c) => chans[k].remote_id = NoId
  BY Zenon DEF ChanCalm
<1>3. CASE EndSame(c)
  BY Zenon, <1>1, <1>2, <1>3 DEF EndSame
<1>4. CASE sv'[c].st \in { "open", "done" } /\ chans[k].remote_id # NoId
  <2>1. sv'[c].st # "asked"
    BY <1>4
  <2>2. QED
    BY Zenon, <1>1, <1>2, <1>4, <2>1
<1>5. QED
  BY Zenon, <1>3, <1>4

(* A Channel_t is left where it is, or freed with the slot of its number.  *)
ChanStays(k) ==
    \/ chans'[k] = chans[k]
    \/ chans'[k] = EmptyChan /\ slots'[chans[k].local] = EmptySlot

(* A slot is freed, or it goes on in agreement with its end.               *)
SlotGoesOn(i) ==
    \/ slots'[i] = EmptySlot
    \/ /\ Held(i) /\ slots'[i].conn = slots[i].conn
       /\ Own(i) => \/ SlotAgrees(i)'
                    \/ /\ Fades(i)
                       /\ EndSame(slots[i].conn) \/ (~Waiting(i)' /\ ~Flowing(i)')

(* The end stays, or a Channel_t that the server has answered moves it.    *)
EndGoesOn(s) ==
    \/ EndSame(s)
    \/ /\ sv'[s].st \in { "open", "done" }
       /\ \A k \in Conns : chans[k].used /\ chans[k].conn = s => chans[k].remote_id # NoId

(* No answer of the server's to the connection is taken.                   *)
AnswersStay(c) ==
    \A p \in { "CONFIRM", "FAIL" } : Among(toClient', p, c) <=> UnderWay(p, c)

(* Such a step stays calm.                                                 *)
LEMMA CalmKept ==
    ASSUME FwdInv, CalmParts,
           \A k \in Conns : ChanStays(k), \A i \in Conns : SlotGoesOn(i),
           \A s \in Conns : EndGoesOn(s),
           \A k \in Conns : chans[k].used /\ chans'[k] = chans[k] => AnswersStay(chans[k].conn)
    PROVE  CalmParts'
<1>0. EmptySlot.status = {} /\ EmptyChan.used = FALSE
  BY DEF EmptySlot, EmptyChan
<1>1. ASSUME NEW i \in Conns PROVE SlotCalm(i)'
  <2> SUFFICES ASSUME Held(i)', Own(i)' PROVE SlotAgrees(i)'
    BY Zenon DEF SlotCalm, SlotAgrees, Held, Own, Waiting, Flowing
  <2>1. slots'[i] # EmptySlot
    BY Zenon, <1>0 DEF Held
  <2>2. Held(i) /\ slots'[i].conn = slots[i].conn
    BY Zenon, <2>1 DEF SlotGoesOn
  <2>3. \A k \in Conns : chans[k].used /\ chans[k].local = i => chans'[k] = chans[k]
    BY Zenon, <2>1 DEF ChanStays
  <2>4. Own(i)
    BY Zenon, <2>2, <2>3 DEF Own
  <2>5. \A k \in Conns : chans'[k].used /\ chans'[k].local = i => chans'[k] = chans[k]
    BY Zenon, <1>0 DEF ChanStays
  <2>6. CASE SlotAgrees(i)'
    BY Zenon, <2>6
  <2>7. CASE Fades(i) /\ (EndSame(slots[i].conn) \/ (~Waiting(i)' /\ ~Flowing(i)'))
    <3>1. SlotCalm(i)
      BY Zenon DEF CalmParts
    <3>2. QED
      BY Zenon, <2>2, <2>4, <2>5, <2>7, <3>1, SlotFades
  <2>8. QED
    BY Zenon, <2>1, <2>4, <2>6, <2>7 DEF SlotGoesOn
<1>2. ASSUME NEW k \in Conns PROVE ChanCalm(k)'
  <2>1. CASE chans[k].used /\ chans'[k] = chans[k]
    <3>1. chans[k].conn \in Conns
      BY <2>1, FwdAssumption DEF FwdInv, ChanPart, ChanShape, EndPart, Conns
    <3>2. \/ EndSame(chans[k].conn)
          \/ sv'[chans[k].conn].st \in { "open", "done" } /\ chans[k].remote_id # NoId
      BY Zenon, <2>1, <3>1 DEF EndGoesOn
    <3>3. ChanCalm(k) /\ AnswersStay(chans[k].conn)
      BY Zenon, <2>1 DEF CalmParts
    <3>4. QED
      BY Zenon, <2>1, <3>2, <3>3, ChanStaysCalm DEF AnswersStay
  <2>2. CASE ~chans'[k].used
    BY Zenon, <2>2 DEF ChanCalm
  <2>3. QED
    BY Zenon, <1>0, <2>1, <2>2 DEF ChanStays
<1>3. ASSUME NEW s \in Conns PROVE EndCalm(s)'
  <2>1. CASE EndSame(s)
    BY Zenon, <2>1 DEF CalmParts, EndCalm, EndSame
  <2>2. CASE sv'[s].st \in { "open", "done" }
    BY <2>2 DEF EndCalm
  <2>3. QED
    BY Zenon, <2>1, <2>2 DEF EndGoesOn
<1>4. QED
  BY Zenon, <1>1, <1>2, <1>3 DEF CalmParts, SlotCalm, SlotAgrees, Held, Own, Waiting, Flowing, ChanCalm, UnderWay, EndCalm

(* The same for a step that moves no end.                                  *)
LEMMA QuietCalm ==
    ASSUME FwdInv, CalmParts, ~confused,
           \A k \in Conns : ChanStays(k),
           \A i \in Conns :
              \/ slots'[i] = EmptySlot
              \/ slots'[i] = slots[i]
              \/ Held(i) /\ slots'[i].conn = slots[i].conn /\ (Own(i) => Fades(i)),
           UNCHANGED << sv, confused >>,
           \A k \in Conns : chans[k].used /\ chans'[k] = chans[k] => AnswersStay(chans[k].conn)
    PROVE  CalmNext
<1>1. \A s : EndSame(s)
  BY Zenon DEF EndSame
<1>2. ASSUME NEW i \in Conns PROVE SlotGoesOn(i)
  <2>1. CASE slots'[i] = EmptySlot
    BY Zenon, <2>1 DEF SlotGoesOn
  <2>2. CASE Held(i) /\ slots'[i].conn = slots[i].conn /\ (Own(i) => Fades(i))
    BY Zenon, <1>1, <2>2 DEF SlotGoesOn
  <2>3. CASE slots'[i] = slots[i] /\ Held(i)
    <3>1. ASSUME Own(i) PROVE Fades(i)
      <4>1. SlotAgrees(i)
        BY Zenon, <2>3, <3>1 DEF CalmParts, SlotCalm
      <4>2. QED
        BY Zenon, <2>3, <4>1 DEF Fades, SlotAgrees, Waiting, Flowing
    <3>2. QED
      BY Zenon, <1>1, <2>3, <3>1 DEF SlotGoesOn
  <2>4. CASE slots'[i] = slots[i] /\ ~Held(i)
    BY Zenon, <2>4 DEF SlotGoesOn, FwdInv, SlotPart, SlotShape
  <2>5. QED
    BY Zenon, <2>1, <2>2, <2>3, <2>4
<1>3. CalmParts'
  BY Zenon, <1>1, <1>2, CalmKept DEF EndGoesOn
<1>4. QED
  BY Zenon, <1>3 DEF CalmNext

(* A slot that stays as it is goes on.                                     *)
LEMMA SameSlotGoesOn ==
    ASSUME FwdInv, CalmParts, NEW i \in Conns, slots'[i] = slots[i],
           Held(i) /\ Own(i) => EndSame(slots[i].conn)
    PROVE  SlotGoesOn(i)
<1>1. CASE ~Held(i)
  BY Zenon, <1>1 DEF SlotGoesOn, FwdInv, SlotPart, SlotShape
<1>2. CASE Held(i)
  <2>1. ASSUME Own(i) PROVE Fades(i)
    <3>1. SlotAgrees(i)
      BY Zenon, <1>2, <2>1 DEF CalmParts, SlotCalm
    <3>2. QED
      BY Zenon, <3>1 DEF Fades, SlotAgrees, Waiting, Flowing
  <2>2. QED
    BY Zenon, <1>2, <2>1 DEF SlotGoesOn
<1>3. QED
  BY Zenon, <1>1, <1>2


(* A slot whose number another connection's Channel_t has.                 *)
LEMMA NotOwnStrands ==
    ASSUME NEW i \in Conns, ~Own(i)
    PROVE  Stranded # {}
<1>1. PICK k \in Conns : chans[k].used /\ chans[k].local = i /\ chans[k].conn # slots[i].conn
  BY Zenon DEF Own
<1>2. k \in Stranded
  BY Zenon, <1>1 DEF Stranded
<1>3. QED
  BY Zenon, <1>2

(* Freeing slots strands more of them, if anything.                        *)
LEMMA StrandedStays ==
    ASSUME FwdInv, SlotsKept, chans' = chans, Stranded # {}
    PROVE  Stranded' # {}
<1>1. PICK k \in Conns : chans[k].used /\ slots[chans[k].local].conn # chans[k].conn
  BY Zenon DEF Stranded
<1>2. chans[k].local \in Conns /\ chans[k].conn \in Nat \ { 0 }
  BY <1>1 DEF FwdInv, ChanPart, ChanShape
<1>3. EmptySlot.conn = 0
  BY DEF EmptySlot, NoId
<1>4. slots'[chans[k].local].conn \in { 0, slots[chans[k].local].conn }
  BY Zenon, <1>2, <1>3 DEF SlotsKept, Continues
<1>5. slots'[chans[k].local].conn # chans[k].conn
  BY <1>1, <1>2, <1>4
<1>6. k \in Stranded'
  BY Zenon, <1>1, <1>5 DEF Stranded
<1>7. QED
  BY Zenon, <1>6

(* No packet is taken.                                                     *)
LEMMA NoneTakenAnswers ==
    ASSUME toClient' = toClient, NEW c
    PROVE  AnswersStay(c)
BY Zenon DEF AnswersStay, UnderWay, Among

(* One is, but no answer to the connection.                                *)
LEMMA TakenAnswers ==
    ASSUME QueuePart, NEW j, Arrives(j), NEW c,
           j \notin { "CONFIRM", "FAIL" } \/ Head(toClient).sid # c
    PROVE  AnswersStay(c)
<1>1. /\ toClient \in Seq(Packet) /\ toClient # << >> /\ toClient' = Tail(toClient)
      /\ Head(toClient).kind = j
  BY Zenon DEF QueuePart, Arrives
<1>2. /\ Len(toClient) \in Nat /\ Len(toClient) > 0 /\ Head(toClient) = toClient[1]
      /\ Len(toClient') = Len(toClient) - 1
      /\ \A n \in 1 .. Len(toClient') : toClient'[n] = toClient[n + 1]
      /\ \A n \in 1 .. Len(toClient') : n + 1 \in 1 .. Len(toClient)
      /\ \A n \in 1 .. Len(toClient) : n # 1 => n - 1 \in 1 .. Len(toClient') /\ (n - 1) + 1 = n
  BY <1>1
<1>3. ASSUME NEW p \in { "CONFIRM", "FAIL" } PROVE Among(toClient', p, c) <=> UnderWay(p, c)
  <2>1. ASSUME Among(toClient', p, c) PROVE UnderWay(p, c)
    <3>1. PICK n \in 1 .. Len(toClient') : toClient'[n].kind = p /\ toClient'[n].sid = c
      BY Zenon, <2>1 DEF UnderWay, Among
    <3>2. n + 1 \in 1 .. Len(toClient) /\ toClient[n + 1].kind = p /\ toClient[n + 1].sid = c
      BY Zenon, <1>2, <3>1
    <3>3. QED
      BY Zenon, <3>2 DEF UnderWay, Among
  <2>2. ASSUME UnderWay(p, c) PROVE Among(toClient', p, c)
    <3>1. PICK n \in 1 .. Len(toClient) : toClient[n].kind = p /\ toClient[n].sid = c
      BY Zenon, <2>2 DEF UnderWay, Among
    <3>2. n # 1
      BY Zenon, <1>1, <1>2, <3>1
    <3>3. /\ n - 1 \in 1 .. Len(toClient')
          /\ toClient'[n - 1].kind = p /\ toClient'[n - 1].sid = c
      BY Zenon, <1>2, <3>1, <3>2
    <3>4. QED
      BY Zenon, <3>3 DEF UnderWay, Among
  <2>3. QED
    BY Zenon, <2>1, <2>2
<1>4. QED
  BY Zenon, <1>3 DEF AnswersStay

(* A packet the server expects leaves it content.                          *)
LEMMA ToldRight ==
    ASSUME FwdInv, ~confused, NEW p \in { "CONFIRM", "FAIL", "CLOSE", "EOF", "DATA" }, NEW s,
           NEW cid \in 0 .. MaxConns, Tell(p, s, cid), s \in Conns, Expected(p, sv[s])
    PROVE  ~confused'
<1>1. sv \in [Conns -> SvEnd] /\ confused \in BOOLEAN /\ TellAll(p, { s }, cid)
  BY Zenon DEF FwdInv, EndPart, FlagPart, Tell
<1>2. confused' <=> \/ confused
                    \/ ~(\A d \in { s } : d \in Conns /\ Expected(p, sv[d]))
  BY <1>1, TellAllMoves
<1>3. \A d \in { s } : d \in Conns /\ Expected(p, sv[d])
  BY Zenon
<1>4. QED
  BY Zenon, <1>2, <1>3

(* One it accepts moves one end.                                           *)
LEMMA ToldOne ==
    ASSUME FwdInv, NEW p \in { "CONFIRM", "FAIL", "CLOSE", "EOF", "DATA" }, NEW s,
           NEW cid \in 0 .. MaxConns, Tell(p, s, cid), ~confused'
    PROVE  /\ s \in Conns /\ Expected(p, sv[s]) /\ sv'[s] = Placed(p, sv[s], cid)
           /\ \A d \in Conns : d # s => sv'[d] = sv[d]
<1>1. sv \in [Conns -> SvEnd] /\ confused \in BOOLEAN /\ TellAll(p, { s }, cid)
  BY Zenon DEF FwdInv, EndPart, FlagPart, Tell
<1>2. /\ \A d \in Conns : IF d \in { s } /\ Expected(p, sv[d])
                          THEN sv'[d] = Placed(p, sv[d], cid) ELSE sv'[d] = sv[d]
      /\ confused' <=> \/ confused
                       \/ ~(\A d \in { s } : d \in Conns /\ Expected(p, sv[d]))
  BY <1>1, TellAllMoves
<1>3. s \in Conns /\ Expected(p, sv[s])
  BY Zenon, <1>2
<1>4. QED
  BY Zenon, <1>2, <1>3

(* What such a packet makes of the end.                                    *)
LEMMA PlacedFacts ==
    ASSUME NEW s \in SvEnd, NEW cid \in 0 .. MaxConns,
           NEW p \in { "CONFIRM", "FAIL", "CLOSE", "EOF", "DATA" }, Expected(p, s)
    PROVE  /\ Placed(p, s, cid).st \in { "open", "done" }
           /\ p = "CONFIRM" => Placed(p, s, cid).st = "open" /\ Placed(p, s, cid).gotEof = s.gotEof
           /\ p = "EOF" => Placed(p, s, cid).st = "open"
           /\ p = "DATA" => Placed(p, s, cid) = s
           /\ p \in { "CLOSE", "FAIL" } => Placed(p, s, cid).st = "done"
<1>1. /\ Placed("CONFIRM", s, cid) = [s EXCEPT !.st = "open", !.cid = cid]
      /\ Placed("FAIL", s, cid) = [s EXCEPT !.st = "done"]
      /\ Placed("CLOSE", s, cid) = [s EXCEPT !.st = "done"]
      /\ Placed("EOF", s, cid) = [s EXCEPT !.gotEof = TRUE]
      /\ Placed("DATA", s, cid) = s
  BY PlacedEnd
<1>2. /\ [s EXCEPT !.st = "open", !.cid = cid].st = "open"
      /\ [s EXCEPT !.st = "open", !.cid = cid].gotEof = s.gotEof
      /\ [s EXCEPT !.st = "done"].st = "done"
      /\ [s EXCEPT !.gotEof = TRUE].st = s.st
  BY DEF SvEnd
<1>3. p \in { "EOF", "DATA" } => s.st = "open"
  BY ExpectedEnd
<1>4. CASE p = "CONFIRM"
  BY Zenon, <1>1, <1>2, <1>4
<1>5. CASE p = "FAIL"
  BY Zenon, <1>1, <1>2, <1>5
<1>6. CASE p = "CLOSE"
  BY Zenon, <1>1, <1>2, <1>6
<1>7. CASE p = "EOF"
  BY Zenon, <1>1, <1>2, <1>3, <1>7
<1>8. CASE p = "DATA"
  BY Zenon, <1>1, <1>3, <1>8
<1>9. QED
  BY Zenon, <1>4, <1>5, <1>6, <1>7, <1>8

(* A packet sent by the number a Channel_t has moves only its end, which   *)
(* belongs to no other slot.                                               *)
LEMMA ToldByChan ==
    ASSUME FwdInv, NEW p \in { "CONFIRM", "FAIL", "CLOSE", "EOF", "DATA" },
           NEW cid \in 0 .. MaxConns, NEW k \in Conns, chans[k].used,
           Tell(p, chans[k].remote_id, cid), ~confused'
    PROVE  /\ chans[k].remote_id = chans[k].conn /\ chans[k].conn \in Conns
           /\ Expected(p, sv[chans[k].conn])
           /\ sv'[chans[k].conn] = Placed(p, sv[chans[k].conn], cid)
           /\ sv'[chans[k].conn].st \in { "open", "done" }
           /\ \A s \in Conns : s # chans[k].conn => sv'[s] = sv[s]
           /\ \A s \in Conns : EndGoesOn(s)
           /\ \A j \in Conns : Held(j) /\ j # chans[k].local => EndSame(slots[j].conn)
<1> DEFINE r == chans[k].remote_id
           c == chans[k].conn
<1>1. /\ r \in Conns /\ Expected(p, sv[r]) /\ sv'[r] = Placed(p, sv[r], cid)
      /\ \A d \in Conns : d # r => sv'[d] = sv[d]
  BY ToldOne
<1>2. r # NoId
  BY <1>1 DEF Conns, NoId
<1>3. r = c
  BY Zenon, <1>2 DEF FwdInv, ChanPart, ChanShape
<1> HIDE DEF r, c
<1>4. sv'[c].st \in { "open", "done" }
  <2>1. sv[c] \in SvEnd
    BY Zenon, <1>1, <1>3 DEF FwdInv, EndPart
  <2>2. Placed(p, sv[c], cid).st \in { "open", "done" }
    BY <1>1, <1>3, <2>1, PlacedFacts
  <2>3. QED
    BY Zenon, <1>1, <1>3, <2>2
<1>5. ASSUME NEW s \in Conns PROVE EndGoesOn(s)
  <2>1. CASE s = c
    <3>1. \A l \in Conns : chans[l].used /\ chans[l].conn = s => l = k
      BY Zenon, <2>1 DEF c, FwdInv, ChanPart
    <3>2. QED
      BY Zenon, <1>2, <1>4, <2>1, <3>1 DEF EndGoesOn, r
  <2>2. CASE s # c
    BY Zenon, <1>1, <1>3, <2>2 DEF EndGoesOn, EndSame
  <2>3. QED
    BY Zenon, <2>1, <2>2
<1>6. ASSUME NEW j \in Conns, Held(j), j # chans[k].local PROVE EndSame(slots[j].conn)
  <2>1. slots[j].conn # c
    BY Zenon, <1>6 DEF c, FwdInv, Pair
  <2>2. slots[j].conn \in Conns
    BY <1>6, FwdAssumption DEF FwdInv, SlotPart, SlotShape, EndPart, Conns
  <2>3. QED
    BY Zenon, <1>1, <1>3, <2>1, <2>2 DEF EndSame
<1>7. QED
  BY Zenon, <1>1, <1>3, <1>4, <1>5, <1>6 DEF r, c

(* What the slot tells by the channel the lookup finds: the server is      *)
(* confused by it only if a Channel_t is stranded.                         *)
LEMMA LookupTells ==
    ASSUME FwdInv, ~confused, NEW i \in Conns, Held(i), ChansOf(i) # {},
           NEW p \in { "CONFIRM", "FAIL", "CLOSE", "EOF", "DATA" }, NEW cid \in 0 .. MaxConns,
           Tell(p, chans[local_channel_lookup(i)].remote_id, cid),
           SlotsKept, chans' = chans,
           Own(i) => \A k \in Conns : chans[k].used /\ chans[k].local = i
                        => /\ chans[k].remote_id = slots[i].conn
                           /\ Expected(p, sv[slots[i].conn])
    PROVE  confused' => Stranded' # {}
<1> DEFINE k == local_channel_lookup(i)
<1>1. k \in Conns /\ chans[k].used /\ chans[k].local = i
  BY Zenon, LookupFinds
<1> HIDE DEF k
<1>2. CASE Own(i)
  <2>1. chans[k].remote_id = slots[i].conn /\ Expected(p, sv[slots[i].conn])
    BY Zenon, <1>1, <1>2
  <2>2. slots[i].conn \in Conns
    BY FwdAssumption DEF FwdInv, SlotPart, SlotShape, EndPart, Conns
  <2>3. Tell(p, slots[i].conn, cid)
    BY Zenon, <2>1 DEF k
  <2>4. ~confused'
    BY <2>1, <2>2, <2>3, ToldRight
  <2>5. QED
    BY Zenon, <2>4
<1>3. CASE ~Own(i)
  BY Zenon, <1>3, NotOwnStrands, StrandedStays
<1>4. QED
  BY Zenon, <1>2, <1>3

(* A Channel_t of a slot that data flows through.                          *)
LEMMA FlowingAgrees ==
    ASSUME CalmParts, NEW i \in Conns, Held(i), Own(i), Flowing(i),
           NEW k \in Conns, chans[k].used, chans[k].local = i
    PROVE  /\ chans[k].remote_id = slots[i].conn
           /\ sv[slots[i].conn].st = "open" /\ ~sv[slots[i].conn].gotEof
BY Zenon DEF CalmParts, SlotCalm, SlotAgrees

(* FD_READ: the data goes to the channel of the slot's connection.         *)
LEMMA FdReadCalm ==
    ASSUME FwdInv, CalmParts, ~confused, NEW i \in Conns, FdRead(i)
    PROVE  CalmNext
<1>1. /\ slots' = slots /\ chans' = chans /\ toClient' = toClient
      /\ Flowing(i)
  BY Zenon DEF FdRead, SocketEvent, ssh, Flowing
<1>2. Held(i)
  BY SocketHeld DEF FdRead, SocketEvent, FwdInv
<1>3. \A k \in Conns : ChanStays(k) /\ AnswersStay(chans[k].conn)
  BY Zenon, <1>1, NoneTakenAnswers DEF ChanStays
<1>4. CASE ChansOf(i) = {}
  <2>1. UNCHANGED << sv, confused >>
    BY Zenon, <1>4 DEF FdRead, TellNothing
  <2>2. QED
    BY Zenon, <1>1, <1>3, <2>1, QuietCalm
<1>5. CASE ChansOf(i) # {}
  <2> DEFINE k == local_channel_lookup(i)
  <2>1. Tell("DATA", chans[k].remote_id, 0) /\ 0 \in 0 .. MaxConns
    BY <1>5, FwdAssumption DEF FdRead
  <2>2. k \in Conns /\ chans[k].used /\ chans[k].local = i
    BY Zenon, <1>5, LookupFinds
  <2>3. SlotsKept
    BY Zenon, <1>1, SameSlots DEF FwdInv
  <2>4. Own(i) => \A l \in Conns : chans[l].used /\ chans[l].local = i
                     => /\ chans[l].remote_id = slots[i].conn
                        /\ Expected("DATA", sv[slots[i].conn])
    BY Zenon, <1>1, <1>2, FlowingAgrees, ExpectedEnd
  <2>5. confused' => Stranded' # {}
    BY <1>1, <1>2, <1>5, <2>1, <2>3, <2>4, LookupTells
  <2>6. ASSUME ~confused' PROVE CalmParts'
    <3> HIDE DEF k
    <3>1. /\ Expected("DATA", sv[chans[k].conn]) /\ chans[k].conn \in Conns
          /\ sv'[chans[k].conn] = Placed("DATA", sv[chans[k].conn], 0)
          /\ \A s \in Conns : s # chans[k].conn => sv'[s] = sv[s]
      BY <2>1, <2>2, <2>6, ToldByChan
    <3>2. sv'[chans[k].conn] = sv[chans[k].conn]
      <4>1. sv[chans[k].conn] \in SvEnd
        BY Zenon, <3>1 DEF FwdInv, EndPart
      <4>2. Placed("DATA", sv[chans[k].conn], 0) = sv[chans[k].conn]
        BY <2>1, <4>1, PlacedEnd
      <4>3. QED
        BY Zenon, <3>1, <4>2
    <3>3. \A s \in Conns : EndSame(s)
      BY Zenon, <3>1, <3>2 DEF EndSame
    <3>4. ASSUME NEW j \in Conns PROVE SlotGoesOn(j)
      <4>1. Held(j) => slots[j].conn \in Conns
        BY FwdAssumption DEF FwdInv, SlotPart, SlotShape, EndPart, Conns
      <4>2. QED
        BY Zenon, <1>1, <3>3, <4>1, SameSlotGoesOn
    <3>5. QED
      BY Zenon, <1>3, <3>3, <3>4, CalmKept DEF EndGoesOn
  <2>7. QED
    BY Zenon, <2>5, <2>6 DEF CalmNext
<1>6. QED
  BY Zenon, <1>4, <1>5

(* closed_local_connection: the EOF goes to the channel of the connection, *)
(* and only once.                                                          *)
LEMMA ClosedLocalCalm ==
    ASSUME FwdInv, CalmParts, ~confused, NEW i \in Conns, Held(i), NEW rekeying,
           Own(i) /\ Both \subseteq slots[i].status /\ ChansOf(i) # {} => Flowing(i),
           closed_local_connection(i, rekeying), chans' = chans,
           \A k \in Conns : AnswersStay(chans[k].conn)
    PROVE  CalmNext
<1>1. Touched(i) /\ slots'[i].sock = "none" /\ slots'[i].addr = slots[i].addr
  <2>1. Touched(i)
    BY ClosedLocalTouches DEF FwdInv, FlagPart
  <2>2. slots \in [Conns -> Slot]
    BY Zenon DEF FwdInv, SlotPart
  <2>3. \/ slots' = [slots EXCEPT ![i].sock = "none", ![i].status = @ \cup { "CLOSED_LOCAL" }]
        \/ slots' = [slots EXCEPT ![i].sock = "none"]
    BY Zenon DEF closed_local_connection
  <2>4. QED
    BY <2>1, <2>2, <2>3 DEF Slot
<1>2. \A k \in Conns : ChanStays(k)
  BY Zenon DEF ChanStays
<1>3. Fades(i) /\ ~Flowing(i)'
  BY <1>1 DEF Fades, Waiting, Flowing, Touched, Continues
<1>4. SlotsKept /\ \A j \in Conns : j # i => slots'[j] = slots[j]
  BY Zenon, <1>1 DEF Touched
<1>5. CASE UNCHANGED << sv, confused >>
  BY Zenon, <1>2, <1>3, <1>4, <1>5, QuietCalm DEF Fades
<1>6. CASE Both \subseteq slots[i].status /\ ChansOf(i) # {}
           /\ Tell("EOF", chans[local_channel_lookup(i)].remote_id, 0)
  <2> DEFINE k == local_channel_lookup(i)
  <2>1. Tell("EOF", chans[k].remote_id, 0) /\ 0 \in 0 .. MaxConns
    BY <1>6, FwdAssumption
  <2>2. k \in Conns /\ chans[k].used /\ chans[k].local = i
    BY Zenon, <1>6, LookupFinds
  <2>3. Own(i) => \A l \in Conns : chans[l].used /\ chans[l].local = i
                     => /\ chans[l].remote_id = slots[i].conn
                        /\ Expected("EOF", sv[slots[i].conn])
    BY Zenon, <1>6, FlowingAgrees, ExpectedEnd
  <2>4. confused' => Stranded' # {}
    BY <1>4, <1>6, <2>1, <2>3, LookupTells
  <2>5. ASSUME ~confused' PROVE CalmParts'
    <3> HIDE DEF k
    <3>1. /\ \A s \in Conns : EndGoesOn(s)
          /\ \A j \in Conns : Held(j) /\ j # i => EndSame(slots[j].conn)
      BY <2>1, <2>2, <2>5, ToldByChan
    <3>2. Own(i) => ~Waiting(i)'
      <4> SUFFICES ASSUME Own(i), Waiting(i)' PROVE FALSE
        BY Zenon
      <4>1. Waiting(i)
        BY Zenon, <1>3 DEF Fades
      <4>2. sv[slots[i].conn].st = "opening"
        BY Zenon, <4>1 DEF CalmParts, SlotCalm, SlotAgrees
      <4>3. sv[slots[i].conn].st = "open"
        BY Zenon, <1>6, <2>2, FlowingAgrees
      <4>4. QED
        BY <4>2, <4>3
    <3>3. ASSUME NEW j \in Conns PROVE SlotGoesOn(j)
      <4>1. CASE j = i
        BY Zenon, <1>3, <3>2, <4>1 DEF SlotGoesOn, Fades
      <4>2. CASE j # i
        BY Zenon, <1>4, <3>1, <4>2, SameSlotGoesOn
      <4>3. QED
        BY Zenon, <4>1, <4>2
    <3>4. QED
      BY Zenon, <1>2, <3>1, <3>3, CalmKept
  <2>6. QED
    BY Zenon, <2>4, <2>5 DEF CalmNext
<1>7. QED
  BY Zenon, <1>5, <1>6 DEF closed_local_connection, ChannelInputEof, TellNothing

(* FD_CLOSE                                                                *)
LEMMA FdCloseCalm ==
    ASSUME FwdInv, CalmParts, ~confused, NEW i \in Conns, NEW rekeying \in BOOLEAN,
           FdClose(i, rekeying)
    PROVE  CalmNext
<1>1. /\ chans' = chans /\ toClient' = toClient /\ slots[i].sock = "open"
      /\ closed_local_connection(i, rekeying)
  BY Zenon DEF FdClose, SocketEvent, ssh
<1>2. Held(i)
  BY <1>1, SocketHeld DEF FwdInv
<1>3. \A k \in Conns : AnswersStay(chans[k].conn)
  BY Zenon, <1>1, NoneTakenAnswers
<1>4. Both \subseteq slots[i].status => Flowing(i)
  BY Zenon, <1>1 DEF Flowing
<1>5. QED
  BY <1>1, <1>2, <1>3, <1>4, ClosedLocalCalm

(* FD_WRITE                                                                *)
LEMMA FdWriteCalm ==
    ASSUME FwdInv, CalmParts, ~confused, NEW i \in Conns, FdWrite(i)
    PROVE  CalmNext
<1>1. /\ chans' = chans /\ toClient' = toClient /\ UNCHANGED << sv, confused >>
      /\ slots' = [slots EXCEPT ![i].unsent = FALSE]
  BY Zenon DEF FdWrite, SocketEvent, TellNothing, ssh
<1>2. Held(i) /\ slots[i].sock = "open"
  BY SocketHeld DEF FdWrite, SocketEvent, FwdInv
<1>3. slots \in [Conns -> Slot]
  BY DEF FwdInv, SlotPart
<1>4. Fades(i) /\ \A j \in Conns : j # i => slots'[j] = slots[j]
  BY <1>1, <1>2, <1>3 DEF Fades, Waiting, Flowing, Slot
<1>5. \A k \in Conns : ChanStays(k) /\ AnswersStay(chans[k].conn)
  BY Zenon, <1>1, NoneTakenAnswers DEF ChanStays
<1>6. QED
  BY Zenon, <1>1, <1>2, <1>4, <1>5, QuietCalm DEF Fades

(* A Channel_t of an opening connection has the server's number.           *)
LEMMA OpeningIsAnswered ==
    ASSUME CalmParts, NEW k \in Conns, chans[k].used, sv[chans[k].conn].st = "opening"
    PROVE  chans[k].remote_id # NoId
<1>1. "opening" \notin { "asked", "open", "done" }
  OBVIOUS
<1>2. QED
  BY Zenon, <1>1 DEF CalmParts, ChanCalm

(* FD_CONNECT: the confirmation is of the slot's connection.               *)
LEMMA FdConnectCalm ==
    ASSUME FwdInv, CalmParts, ~confused, NEW i \in Conns, FdConnect(i)
    PROVE  CalmNext
<1> DEFINE c == slots[i].conn
<1>1. /\ chans' = chans /\ toClient' = toClient /\ slots[i].sock = "connecting"
      /\ slots' = [slots EXCEPT ![i].sock = "open", ![i].status = @ \cup { "LOCAL" }]
  BY Zenon DEF FdConnect, ssh
<1>2. Held(i) /\ slots \in [Conns -> Slot] /\ c \in Conns
  <2>1. Held(i)
    BY <1>1, SocketHeld DEF FwdInv
  <2>2. c \in Conns
    BY <2>1, FwdAssumption DEF FwdInv, SlotPart, SlotShape, EndPart, Conns
  <2>3. QED
    BY Zenon, <2>1, <2>2 DEF FwdInv, SlotPart
<1>3. /\ slots'[i].sock = "open" /\ slots'[i].addr = slots[i].addr /\ slots'[i].conn = c
      /\ \A j \in Conns : j # i => slots'[j] = slots[j]
  BY <1>1, <1>2 DEF Slot
<1>4. SlotsKept
  <2> DEFINE t == [slots[i] EXCEPT !.sock = "open", !.status = @ \cup { "LOCAL" }]
  <2>1. slots[i] \in Slot
    BY Zenon, <1>2
  <2>2. slots' = [slots EXCEPT ![i] = t]
    BY <1>1, <1>2 DEF Slot
  <2>3. /\ t \in Slot /\ slots[i].status \subseteq t.status /\ t.sock = "open"
        /\ t.request = slots[i].request /\ t.remote = slots[i].remote /\ t.conn = slots[i].conn
    BY <2>1 DEF Slot, Status
  <2> HIDE DEF t
  <2>4. Touched(i)
    BY <1>2, <2>2, <2>3, TouchedSlot DEF FwdInv
  <2>5. QED
    BY Zenon, <2>4 DEF Touched
<1>5. \A k \in Conns : ChanStays(k) /\ AnswersStay(chans[k].conn)
  BY Zenon, <1>1, NoneTakenAnswers DEF ChanStays
<1>6. ASSUME Own(i) PROVE sv[c].st = "opening" /\ slots[i].addr # 0
  BY Zenon, <1>1, <1>2, <1>6 DEF CalmParts, SlotCalm, SlotAgrees, Waiting
<1>7. ASSUME Own(i) PROVE ~Waiting(i)'
  BY <1>3, <1>6, <1>7 DEF Waiting
<1>8. ASSUME Own(i), NEW k \in Conns, chans[k].used, chans[k].local = i
      PROVE  chans[k].conn = c /\ chans[k].remote_id = c
  <2>1. chans[k].conn = c
    BY Zenon, <1>8 DEF Own
  <2>2. sv[chans[k].conn].st = "opening"
    BY Zenon, <1>6, <1>8, <2>1
  <2>3. chans[k].remote_id # NoId
    BY Zenon, <1>8, <2>2, OpeningIsAnswered
  <2>4. QED
    BY Zenon, <1>8, <2>1, <2>3 DEF FwdInv, ChanPart, ChanShape
<1>9. "open" # "connecting"
  OBVIOUS
<1> HIDE DEF c
<1>10. CASE ChansOf(i) = {}
  <2>1. UNCHANGED << sv, confused >>
    BY Zenon, <1>10 DEF FdConnect, TellNothing
  <2>2. \A s : EndSame(s)
    BY Zenon, <2>1 DEF EndSame
  <2>3. ASSUME NEW j \in Conns PROVE SlotGoesOn(j)
    <3>1. CASE j = i
      <4>1. \A k \in Conns : ~(chans[k].used /\ chans[k].local = i)
        BY <1>10 DEF ChansOf
      <4>2. Own(i) => SlotAgrees(i)'
        BY Zenon, <1>1, <1>3, <1>7, <1>9, <4>1 DEF SlotAgrees, Waiting, Flowing
      <4>3. QED
        BY Zenon, <1>2, <1>3, <3>1, <4>2 DEF SlotGoesOn, c
    <3>2. CASE j # i
      BY Zenon, <1>3, <2>2, <3>2, SameSlotGoesOn
    <3>3. QED
      BY Zenon, <3>1, <3>2
  <2>4. CalmParts'
    BY Zenon, <1>5, <2>2, <2>3, CalmKept DEF EndGoesOn
  <2>5. QED
    BY Zenon, <2>1, <2>4 DEF CalmNext
<1>11. CASE ChansOf(i) # {}
  <2> DEFINE k == local_channel_lookup(i)
  <2>1. k \in Conns /\ chans[k].used /\ chans[k].local = i
    BY Zenon, <1>11, LookupFinds
  <2>2. Tell("CONFIRM", chans[k].remote_id, k) /\ k \in 0 .. MaxConns
    BY <1>11, <2>1 DEF FdConnect, Conns
  <2>3. Own(i) => \A l \in Conns : chans[l].used /\ chans[l].local = i
                     => /\ chans[l].remote_id = slots[i].conn
                        /\ Expected("CONFIRM", sv[slots[i].conn])
    BY Zenon, <1>6, <1>8, ExpectedEnd DEF c
  <2>4. confused' => Stranded' # {}
    BY <1>1, <1>2, <1>4, <1>11, <2>2, <2>3, LookupTells
  <2>5. ASSUME ~confused' PROVE CalmParts'
    <3> HIDE DEF k
    <3>1. /\ chans[k].conn \in Conns /\ Expected("CONFIRM", sv[chans[k].conn])
          /\ sv'[chans[k].conn] = Placed("CONFIRM", sv[chans[k].conn], k)
          /\ \A s \in Conns : EndGoesOn(s)
          /\ \A j \in Conns : Held(j) /\ j # i => EndSame(slots[j].conn)
      BY <2>1, <2>2, <2>5, ToldByChan
    <3>2. ASSUME Own(i) PROVE SlotAgrees(i)'
      <4>1. chans[k].conn = c
        BY Zenon, <1>8, <2>1, <3>2
      <4>2. PICK s : s = sv[c]
        BY Zenon
      <4>3. s \in SvEnd /\ Expected("CONFIRM", s) /\ sv'[c] = Placed("CONFIRM", s, k)
        BY Zenon, <1>2, <3>1, <4>1, <4>2 DEF FwdInv, EndPart, c
      <4>4. Placed("CONFIRM", s, k).st = "open" /\ Placed("CONFIRM", s, k).gotEof = s.gotEof
        BY <2>2, <4>3, PlacedFacts
      <4>5. s.st = "opening"
        BY Zenon, <1>6, <3>2, <4>2
      <4>6. EndCalm(c) /\ s.st \in { "none", "opening", "asked" }
        BY Zenon, <1>2, <4>5 DEF CalmParts, c
      <4>7. ~s.gotEof
        BY Zenon, <4>2, <4>6 DEF EndCalm
      <4>8. sv'[c].st = "open" /\ ~sv'[c].gotEof
        BY Zenon, <4>3, <4>4, <4>7
      <4>9. slots'[i].sock # "connecting" /\ ~Waiting(i)'
        BY Zenon, <1>3, <1>7, <1>9, <3>2
      <4>10. \A l \in Conns : chans[l].used /\ chans[l].local = i => chans[l].remote_id = c
        BY Zenon, <1>8, <3>2
      <4>11. QED
        BY Zenon, <1>1, <1>3, <4>8, <4>9, <4>10 DEF SlotAgrees, Waiting, Flowing
    <3>3. ASSUME NEW j \in Conns PROVE SlotGoesOn(j)
      <4>1. CASE j = i
        BY Zenon, <1>2, <1>3, <3>2, <4>1 DEF SlotGoesOn, c
      <4>2. CASE j # i
        BY Zenon, <1>3, <3>1, <4>2, SameSlotGoesOn
      <4>3. QED
        BY Zenon, <4>1, <4>2
    <3>4. QED
      BY Zenon, <1>5, <3>1, <3>3, CalmKept
  <2>6. QED
    BY Zenon, <2>4, <2>5 DEF CalmNext
<1>12. QED
  BY Zenon, <1>10, <1>11

(* The ends a refusal closes: none of a slot that goes on.                 *)
LEMMA RefusedGoesOn ==
    ASSUME FwdInv, CalmParts, NEW S, TellAll("FAIL", S, 0), ~confused', ~confused
    PROVE  /\ \A s \in Conns : EndGoesOn(s)
           /\ \A s \in Conns : s \notin S => EndSame(s)
<1>1. sv \in [Conns -> SvEnd] /\ confused \in BOOLEAN /\ 0 \in 0 .. MaxConns
  BY FwdAssumption DEF FwdInv, EndPart, FlagPart
<1>2. \A s \in Conns : IF s \in S /\ Expected("FAIL", sv[s])
                       THEN sv'[s] = Placed("FAIL", sv[s], 0) ELSE sv'[s] = sv[s]
  BY <1>1, TellAllMoves
<1>3. \A s \in Conns : s \notin S => EndSame(s)
  BY Zenon, <1>2 DEF EndSame
<1>4. ASSUME NEW s \in Conns PROVE EndGoesOn(s)
  <2>1. CASE sv'[s] = sv[s]
    BY Zenon, <2>1 DEF EndGoesOn, EndSame
  <2>2. CASE Expected("FAIL", sv[s]) /\ sv'[s] = Placed("FAIL", sv[s], 0)
    <3>1. PICK e : e = sv[s]
      BY Zenon
    <3>2. e \in SvEnd /\ Expected("FAIL", e) /\ sv'[s] = Placed("FAIL", e, 0)
      BY Zenon, <1>1, <2>2, <3>1
    <3>3. Placed("FAIL", e, 0).st \in { "open", "done" }
      BY <1>1, <3>2, PlacedFacts
    <3>4. sv[s].st = "opening"
      BY Zenon, <2>2, ExpectedEnd
    <3>5. \A k \in Conns : chans[k].used /\ chans[k].conn = s => chans[k].remote_id # NoId
      BY Zenon, <3>4, OpeningIsAnswered
    <3>6. QED
      BY Zenon, <3>2, <3>3, <3>5 DEF EndGoesOn
  <2>3. QED
    BY Zenon, <1>2, <2>1, <2>2
<1>5. QED
  BY Zenon, <1>3, <1>4

(* FD_CONNECT with an error                                                *)
LEMMA FdConnectErrorCalm ==
    ASSUME FwdInv, CalmParts, ~confused, NEW i \in Conns, FdConnectError(i)
    PROVE  CalmNext
<1> DEFINE c == slots[i].conn
<1>1. chans' = chans /\ toClient' = toClient /\ slots[i].sock = "connecting"
  BY Zenon DEF FdConnectError, ssh
<1>2. Held(i) /\ slots \in [Conns -> Slot] /\ c \in Conns /\ slots[i].remote = c
  <2>1. Held(i)
    BY <1>1, SocketHeld DEF FwdInv
  <2>2. c \in Conns
    BY <2>1, FwdAssumption DEF FwdInv, SlotPart, SlotShape, EndPart, Conns
  <2>3. QED
    BY Zenon, <1>1, <2>1, <2>2 DEF FwdInv, SlotPart, SlotShape
<1>3. \A k \in Conns : ChanStays(k) /\ AnswersStay(chans[k].conn)
  BY Zenon, <1>1, NoneTakenAnswers DEF ChanStays
<1>4. ASSUME NEW a \in slots[i].addr + 1 .. NAddrs, slots' = [slots EXCEPT ![i].addr = a], TellNothing
      PROVE  CalmNext
  <2>1. slots[i].addr \in 0 .. NAddrs /\ NAddrs \in Nat
    BY <1>2, FwdAssumption DEF Slot
  <2>2. a # 0
    BY <2>1
  <2>3. Fades(i) /\ \A j \in Conns : j # i => slots'[j] = slots[j]
    BY <1>1, <1>2, <1>4, <2>2 DEF Fades, Waiting, Flowing, Slot
  <2>4. QED
    BY Zenon, <1>2, <1>3, <1>4, <2>3, QuietCalm DEF TellNothing, Fades
<1>5. ASSUME FWD_free_channel(i), Tell("FAIL", slots[i].remote, 0) PROVE CalmNext
  <2>1. /\ SlotsKept /\ slots'[i] = EmptySlot
        /\ \A j \in Conns : j # i => slots'[j] = slots[j]
    BY <1>5, FreedSlot DEF FwdInv
  <2>2. Tell("FAIL", c, 0) /\ 0 \in 0 .. MaxConns /\ TellAll("FAIL", { c }, 0)
    BY <1>2, <1>5, FwdAssumption DEF Tell
  <2>3. ASSUME confused' PROVE Stranded' # {}
    <3>1. CASE Own(i)
      <4>1. sv[c].st = "opening"
        BY Zenon, <1>1, <1>2, <3>1 DEF CalmParts, SlotCalm, SlotAgrees, Waiting
      <4>2. Expected("FAIL", sv[c])
        BY Zenon, <4>1, ExpectedEnd
      <4> HIDE DEF c
      <4>3. ~confused'
        BY <1>2, <2>2, <4>2, ToldRight
      <4>4. QED
        BY Zenon, <2>3, <4>3
    <3>2. CASE ~Own(i)
      BY Zenon, <1>1, <2>1, <3>2, NotOwnStrands, StrandedStays
    <3>3. QED
      BY Zenon, <3>1, <3>2
  <2>4. ASSUME ~confused' PROVE CalmParts'
    <3>1. /\ \A s \in Conns : EndGoesOn(s)
          /\ \A s \in Conns : s \notin { c } => EndSame(s)
      BY <2>2, <2>4, RefusedGoesOn
    <3>2. ASSUME NEW j \in Conns PROVE SlotGoesOn(j)
      <4>1. CASE j = i
        BY Zenon, <2>1, <4>1 DEF SlotGoesOn
      <4>2. CASE j # i
        <5>1. Held(j) => slots[j].conn \in Conns
          BY FwdAssumption DEF FwdInv, SlotPart, SlotShape, EndPart, Conns
        <5>2. Held(j) => slots[j].conn # c
          BY Zenon, <1>2, <4>2 DEF FwdInv, SlotPart
        <5>3. Held(j) => EndSame(slots[j].conn)
          BY <3>1, <5>1, <5>2
        <5>4. QED
          BY Zenon, <2>1, <4>2, <5>3, SameSlotGoesOn
      <4>3. QED
        BY Zenon, <4>1, <4>2
    <3>3. QED
      BY Zenon, <1>3, <3>1, <3>2, CalmKept
  <2>5. QED
    BY Zenon, <2>3, <2>4 DEF CalmNext
<1>6. QED
  BY Zenon, <1>4, <1>5 DEF FdConnectError

(* The lookup thread.                                                      *)
LEMMA LookupThreadCalm ==
    ASSUME FwdInv, CalmParts, ~confused, getaddrinfo_thread
    PROVE  CalmNext
<1>1. slots' = slots /\ chans' = chans /\ toClient' = toClient /\ UNCHANGED << sv, confused >>
  BY Zenon DEF getaddrinfo_thread, ssh
<1>2. \A k \in Conns : ChanStays(k) /\ AnswersStay(chans[k].conn)
  BY Zenon, <1>1, NoneTakenAnswers DEF ChanStays
<1>3. QED
  BY Zenon, <1>1, <1>2, QuietCalm

(* WM_SOCK_GOTNAME: every slot of the request has waited for it.           *)
LEMMA GotNameCalm ==
    ASSUME FwdInv, CalmParts, ~confused, GotName
    PROVE  CalmNext
<1> DEFINE R == { i \in Conns : slots[i].request = "R" }
           A == IF lookup = "found" THEN 0 .. NAddrs ELSE { 0 }
           S(got) == { slots[i].remote : i \in { j \in R : got[j] = 0 } }
<1>1. /\ chans' = chans /\ toClient' = toClient
      /\ \E got \in [R -> A] :
           /\ slots' = [i \in Conns |->
                  IF i \notin R THEN slots[i]
                  ELSE IF got[i] = 0 THEN EmptySlot
                  ELSE [slots[i] EXCEPT !.sock = "connecting", !.addr = got[i]]]
           /\ TellAll("FAIL", S(got), 0)
           /\ reconnected' = (reconnected \/ \E i \in R : slots[i].addr # 0)
  BY Zenon DEF GotName, ssh
<1> HIDE DEF S, A
<1>2. PICK got \in [R -> A] :
         /\ slots' = [i \in Conns |->
                IF i \notin R THEN slots[i]
                ELSE IF got[i] = 0 THEN EmptySlot
                ELSE [slots[i] EXCEPT !.sock = "connecting", !.addr = got[i]]]
         /\ TellAll("FAIL", S(got), 0)
         /\ reconnected' = (reconnected \/ \E i \in R : slots[i].addr # 0)
  BY Zenon, <1>1
<1>3. slots \in [Conns -> Slot] /\ \A i \in Conns : i \in R <=> slots[i].request = "R"
  BY Zenon DEF FwdInv, SlotPart
<1>4. \A i \in Conns : slots'[i] = IF i \notin R THEN slots[i]
                                   ELSE IF got[i] = 0 THEN EmptySlot
                                   ELSE [slots[i] EXCEPT !.sock = "connecting", !.addr = got[i]]
  BY Zenon, <1>2
<1>5. SUFFICES ASSUME \A i \in R : slots[i].addr = 0 PROVE CalmNext
  BY Zenon, <1>2 DEF CalmNext
<1>6. EmptySlot.request = "none"
  BY DEF EmptySlot
<1>7. ASSUME NEW i \in R
      PROVE  /\ i \in Conns /\ Held(i) /\ slots[i].remote = slots[i].conn
             /\ slots[i].conn \in Conns /\ Waiting(i)
  <2>1. i \in Conns /\ slots[i].request = "R"
    BY Zenon, <1>3 DEF R
  <2>2. SlotShape(i)
    BY Zenon, <2>1 DEF FwdInv, SlotPart
  <2>3. slots[i] # EmptySlot
    BY <1>6, <2>1
  <2>4. Held(i) /\ slots[i].remote = slots[i].conn
    BY Zenon, <2>1, <2>2, <2>3 DEF SlotShape
  <2>5. slots[i].conn \in Conns
    BY <2>2, <2>4, FwdAssumption DEF FwdInv, SlotShape, EndPart, Conns
  <2>6. Waiting(i)
    BY Zenon, <1>5, <2>1 DEF Waiting
  <2>7. QED
    BY Zenon, <2>1, <2>4, <2>5, <2>6
<1> HIDE DEF R
<1>8. ASSUME NEW i \in Conns, i \in R, got[i] # 0
      PROVE  /\ Fades(i) /\ slots'[i].status = slots[i].status
             /\ slots'[i].request = slots[i].request /\ slots'[i].remote = slots[i].remote
             /\ slots'[i] \in Slot
  <2>1. slots'[i] = [slots[i] EXCEPT !.sock = "connecting", !.addr = got[i]]
    BY Zenon, <1>4, <1>8
  <2>2. slots[i] \in Slot /\ got[i] \in 0 .. NAddrs
    <3>1. A \subseteq 0 .. NAddrs
      BY FwdAssumption DEF A
    <3>2. QED
      BY Zenon, <1>2, <1>3, <1>8, <3>1
  <2>3. /\ slots'[i].conn = slots[i].conn /\ slots'[i].sock = "connecting"
        /\ slots'[i].addr = got[i] /\ slots'[i].status = slots[i].status
        /\ slots'[i].request = slots[i].request /\ slots'[i].remote = slots[i].remote
        /\ slots'[i] \in Slot
    BY <2>1, <2>2 DEF Slot
  <2>4. Waiting(i) /\ ~Flowing(i)'
    BY <1>7, <1>8, <2>3 DEF Flowing
  <2>5. QED
    BY Zenon, <1>8, <2>3, <2>4 DEF Fades
<1>9. SlotsKept
  <2>1. ASSUME NEW i \in Conns
        PROVE  /\ slots'[i] \in Slot
               /\ \/ slots'[i] = EmptySlot
                  \/ Continues(i) /\ (slots'[i].sock = "connecting" => slots'[i].request = "R")
    <3>1. SlotShape(i) /\ slots[i] \in Slot
      BY Zenon, <1>3 DEF FwdInv, SlotPart
    <3>2. CASE i \notin R
      <4>1. slots'[i] = slots[i]
        BY Zenon, <1>4, <3>2
      <4>2. QED
        BY Zenon, <3>1, <4>1 DEF SlotShape, Continues, Held
    <3>3. CASE i \in R /\ got[i] = 0
      <4>1. slots'[i] = EmptySlot
        BY Zenon, <1>4, <3>3
      <4>2. EmptySlot \in Slot
        BY FwdAssumption DEF EmptySlot, Slot, NoId
      <4>3. QED
        BY Zenon, <4>1, <4>2
    <3>4. CASE i \in R /\ got[i] # 0
      <4>1. Held(i) /\ slots[i].request = "R"
        BY Zenon, <1>3, <1>7, <3>4
      <4>2. QED
        BY Zenon, <1>8, <3>4, <4>1 DEF Continues, Held, Fades
    <3>5. QED
      BY Zenon, <3>2, <3>3, <3>4
  <2>2. slots' = [i \in Conns |-> slots'[i]]
    BY Zenon, <1>2
  <2>3. slots' \in [Conns -> Slot]
    BY Zenon, <2>1, <2>2
  <2>4. QED
    BY Zenon, <2>1, <2>3 DEF SlotsKept
<1>10. ASSUME confused' PROVE Stranded' # {}
  <2>1. sv \in [Conns -> SvEnd] /\ confused \in BOOLEAN /\ 0 \in 0 .. MaxConns
    BY FwdAssumption DEF FwdInv, EndPart, FlagPart
  <2>2. confused' <=> \/ confused
                      \/ ~(\A s \in S(got) : s \in Conns /\ Expected("FAIL", sv[s]))
    BY <1>2, <2>1, TellAllMoves
  <2>3. PICK s \in S(got) : ~(s \in Conns /\ Expected("FAIL", sv[s]))
    BY Zenon, <1>10, <2>2
  <2>4. PICK i \in R : s = slots[i].remote
    BY Zenon, <2>3 DEF S
  <2>5. i \in Conns /\ Held(i) /\ s = slots[i].conn /\ s \in Conns /\ Waiting(i)
    BY Zenon, <1>7, <2>4
  <2>6. ASSUME Own(i) PROVE FALSE
    <3>1. sv[s].st = "opening"
      BY Zenon, <2>5, <2>6 DEF CalmParts, SlotCalm, SlotAgrees
    <3>2. QED
      BY Zenon, <2>3, <2>5, <3>1, ExpectedEnd
  <2>7. QED
    BY Zenon, <1>1, <1>9, <2>5, <2>6, NotOwnStrands, StrandedStays
<1>11. ASSUME ~confused' PROVE CalmParts'
  <2>1. /\ \A s \in Conns : EndGoesOn(s)
        /\ \A s \in Conns : s \notin S(got) => EndSame(s)
    BY <1>2, <1>11, RefusedGoesOn
  <2>2. ASSUME NEW i \in Conns, Held(i), ~(i \in R /\ got[i] = 0)
        PROVE  EndSame(slots[i].conn)
    <3>1. slots[i].conn \in Conns
      BY <2>2, FwdAssumption DEF FwdInv, SlotPart, SlotShape, EndPart, Conns
    <3>2. ASSUME slots[i].conn \in S(got) PROVE FALSE
      <4>1. PICK j \in R : got[j] = 0 /\ slots[i].conn = slots[j].remote
        BY Zenon, <3>2 DEF S
      <4>2. j \in Conns /\ Held(j) /\ slots[i].conn = slots[j].conn
        BY Zenon, <1>7, <4>1
      <4>3. i = j
        BY Zenon, <2>2, <4>2 DEF FwdInv, SlotPart
      <4>4. QED
        BY Zenon, <2>2, <4>1, <4>3
    <3>3. QED
      BY Zenon, <2>1, <3>1, <3>2
  <2>3. ASSUME NEW i \in Conns PROVE SlotGoesOn(i)
    <3>1. CASE i \notin R
      <4>1. slots'[i] = slots[i]
        BY Zenon, <1>4, <3>1
      <4>2. QED
        BY Zenon, <2>2, <3>1, <4>1, SameSlotGoesOn
    <3>2. CASE i \in R /\ got[i] = 0
      BY Zenon, <1>4, <3>2 DEF SlotGoesOn
    <3>3. CASE i \in R /\ got[i] # 0
      <4>1. Held(i) /\ Fades(i)
        BY Zenon, <1>7, <1>8, <3>3
      <4>2. EndSame(slots[i].conn)
        BY Zenon, <2>2, <3>3, <4>1
      <4>3. QED
        BY Zenon, <4>1, <4>2 DEF SlotGoesOn, Fades
    <3>4. QED
      BY Zenon, <3>1, <3>2, <3>3
  <2>4. \A k \in Conns : ChanStays(k) /\ AnswersStay(chans[k].conn)
    BY Zenon, <1>1, NoneTakenAnswers DEF ChanStays
  <2>5. QED
    BY Zenon, <2>1, <2>3, <2>4, CalmKept
<1>12. QED
  BY Zenon, <1>10, <1>11 DEF CalmNext

(* FWD_channel_input_eof                                                   *)
LEMMA EofCalm ==
    ASSUME FwdInv, CalmParts, ~confused, handle_SSH2_channel_eof
    PROVE  CalmNext
<1>1. chans' = chans /\ UNCHANGED << sv, confused >> /\ Arrives("EOF")
  BY Zenon DEF handle_SSH2_channel_eof, TellNothing, ssh
<1>2. PICK i \in Conns : i = chans[Target].local
  BY <1>1, TargetFits DEF FwdInv
<1>3. \A c : AnswersStay(c)
  BY <1>1, TakenAnswers DEF FwdInv
<1>4. ASSUME NEW j \in Conns
      PROVE  \/ slots'[j] = slots[j]
             \/ Held(j) /\ slots'[j].conn = slots[j].conn /\ (Own(j) => Fades(j))
  <2>1. CASE slots' = slots
    BY Zenon, <2>1
  <2>2. CASE InUse(i) /\ slots' = [slots EXCEPT ![i].status = @ \cup { "CLOSED_REMOTE_IN" }]
    <3>1. slots \in [Conns -> Slot] /\ Held(i)
      BY Zenon, <2>2 DEF FwdInv, SlotPart, InUse, Held
    <3>2. /\ \A l \in Conns : l # i => slots'[l] = slots[l]
          /\ slots'[i].sock = slots[i].sock /\ slots'[i].addr = slots[i].addr
          /\ slots'[i].conn = slots[i].conn /\ slots'[i].request = slots[i].request
          /\ Both \subseteq slots'[i].status => Both \subseteq slots[i].status
      BY <2>2, <3>1 DEF Slot, Both
    <3>3. CASE j # i
      BY Zenon, <3>2, <3>3
    <3>4. CASE j = i
      <4>1. Own(i) => SlotAgrees(i)
        BY Zenon, <3>1 DEF CalmParts, SlotCalm
      <4>2. Own(i) => Fades(i)
        BY Zenon, <3>2, <4>1 DEF Fades, Waiting, Flowing, SlotAgrees
      <4>3. QED
        BY Zenon, <3>1, <3>2, <3>4, <4>2
    <3>5. QED
      BY Zenon, <3>3, <3>4
  <2>3. QED
    BY Zenon, <1>2, <2>1, <2>2 DEF handle_SSH2_channel_eof
<1>5. QED
  BY Zenon, <1>1, <1>3, <1>4, QuietCalm DEF ChanStays

(* FWD_received_data                                                       *)
LEMMA DataCalm ==
    ASSUME FwdInv, CalmParts, ~confused, handle_SSH2_channel_data
    PROVE  CalmNext
<1>1. chans' = chans /\ Arrives("DATA")
  BY Zenon DEF handle_SSH2_channel_data, ssh
<1>2. /\ Target \in Conns /\ Known /\ chans[Target].local \in Conns
      /\ sv[chans[Target].conn].st = "open"
  BY <1>1, TargetFits DEF FwdInv
<1>3. PICK i \in Conns : i = chans[Target].local
  BY <1>2
<1>4. \A c : AnswersStay(c)
  BY <1>1, TakenAnswers DEF FwdInv
<1>5. CASE UNCHANGED << slots, sv, confused >>
  BY Zenon, <1>1, <1>4, <1>5, QuietCalm DEF ChanStays
<1>6. ASSUME NEW b \in BOOLEAN, InUse(i), slots' = [slots EXCEPT ![i].unsent = @ \/ b], TellNothing
      PROVE  CalmNext
  <2>1. slots \in [Conns -> Slot] /\ Held(i)
    BY Zenon, <1>6 DEF FwdInv, SlotPart, InUse, Held
  <2>2. /\ \A l \in Conns : l # i => slots'[l] = slots[l]
        /\ slots'[i].sock = slots[i].sock /\ slots'[i].addr = slots[i].addr
        /\ slots'[i].conn = slots[i].conn /\ slots'[i].request = slots[i].request
        /\ slots'[i].status = slots[i].status
    BY <1>6, <2>1 DEF Slot
  <2>3. Own(i) => SlotAgrees(i)
    BY Zenon, <2>1 DEF CalmParts, SlotCalm
  <2>4. Own(i) => Fades(i)
    BY Zenon, <2>2, <2>3 DEF Fades, Waiting, Flowing, SlotAgrees
  <2>5. QED
    BY Zenon, <1>1, <1>4, <1>6, <2>1, <2>2, <2>4, QuietCalm DEF ChanStays, TellNothing
<1>7. ASSUME InUse(i), slots[i].sock # "none", closed_local_connection(i, FALSE)
      PROVE  CalmNext
  <2>1. Held(i)
    BY Zenon, <1>7 DEF InUse, Held
  <2>2. Own(i) => slots[i].sock = "open"
    <3> SUFFICES ASSUME Own(i) PROVE slots[i].sock = "open"
      BY Zenon
    <3>1. chans[Target].conn = slots[i].conn
      BY Zenon, <1>2, <1>3 DEF Own, Known
    <3>2. ~Waiting(i)
      <4>1. Waiting(i) => sv[slots[i].conn].st = "opening"
        BY Zenon, <2>1 DEF CalmParts, SlotCalm, SlotAgrees
      <4>2. QED
        BY <1>2, <3>1, <4>1
    <3>3. slots[i] \in Slot
      BY DEF FwdInv, SlotPart
    <3>4. slots[i].sock # "connecting"
      BY Zenon, <3>2 DEF Waiting
    <3>5. QED
      BY <1>7, <3>3, <3>4 DEF Slot
  <2>3. Own(i) /\ Both \subseteq slots[i].status /\ ChansOf(i) # {} => Flowing(i)
    BY Zenon, <2>2 DEF Flowing
  <2>4. QED
    BY <1>1, <1>4, <1>7, <2>1, <2>3, ClosedLocalCalm
<1>8. QED
  BY Zenon, <1>3, <1>5, <1>6, <1>7 DEF handle_SSH2_channel_data

(* FWD_failed_open                                                         *)
LEMMA FailCalm ==
    ASSUME FwdInv, CalmParts, ~confused, handle_SSH2_open_failure
    PROVE  CalmNext
<1>1. Arrives("FAIL") /\ UNCHANGED << sv, confused >>
  BY Zenon DEF handle_SSH2_open_failure, TellNothing
<1>2. /\ Target \in Conns /\ Known /\ chans[Target].local \in Conns
      /\ chans[Target].conn = Head(toClient).sid
  BY <1>1, TargetFits DEF FwdInv
<1>3. PICK t \in Conns : t = Target
  BY <1>2
<1>4. PICK i \in Conns : i = chans[t].local
  BY <1>2, <1>3
<1>5. chans[t].used /\ chans[t].conn = Head(toClient).sid
  BY Zenon, <1>2, <1>3 DEF Known
<1>6. /\ ssh2_channel_delete(t)
      /\ IF InUse(i) THEN FWD_free_channel(i) ELSE slots' = slots
  BY Zenon, <1>2, <1>3, <1>4 DEF handle_SSH2_open_failure
<1>7. /\ chans'[t] = EmptyChan /\ \A l \in Conns : l # t => chans'[l] = chans[l]
  BY <1>5, <1>6, DeletedChan DEF FwdInv
<1>8. /\ slots'[i] = EmptySlot /\ \A j \in Conns : j # i => slots'[j] = slots[j]
  <2>1. CASE InUse(i)
    BY <1>6, <2>1, FreedSlot DEF FwdInv
  <2>2. CASE ~InUse(i)
    <3>1. SlotShape(i)
      BY Zenon DEF FwdInv, SlotPart
    <3>2. QED
      BY Zenon, <1>6, <2>2, <3>1 DEF InUse, SlotShape, Held
  <2>3. QED
    BY Zenon, <2>1, <2>2
<1>9. \A k \in Conns : ChanStays(k)
  BY Zenon, <1>4, <1>7, <1>8 DEF ChanStays
<1>10. ASSUME NEW k \in Conns, chans[k].used, chans'[k] = chans[k] PROVE AnswersStay(chans[k].conn)
  <2>1. EmptyChan.used = FALSE
    BY DEF EmptyChan
  <2>2. k # t
    BY Zenon, <1>7, <1>10, <2>1
  <2>3. Head(toClient).sid # chans[k].conn
    BY Zenon, <1>5, <1>10, <2>2 DEF FwdInv, ChanPart
  <2>4. QED
    BY <1>1, <2>3, TakenAnswers DEF FwdInv
<1>11. QED
  BY Zenon, <1>1, <1>8, <1>9, <1>10, QuietCalm

(* A CLOSE comes after the confirmation: the Channel_t has the server's    *)
(* number.                                                                 *)
LEMMA ClosedIsAnswered ==
    ASSUME FwdInv, CalmParts, Arrives("CLOSE"), NEW k \in Conns, chans[k].used,
           chans[k].conn = Head(toClient).sid
    PROVE  chans[k].remote_id # NoId
<1> SUFFICES ASSUME chans[k].remote_id = NoId PROVE FALSE
  OBVIOUS
<1>1. PICK c : c = chans[k].conn
  BY Zenon
<1>2. sv[c].st = "open" /\ c = Head(toClient).sid /\ Head(toClient).kind = "CLOSE"
  BY <1>1, TargetFits DEF FwdInv, Arrives
<1>3. sv[c].st # "asked" /\ sv[c].st # "done"
  BY <1>2
<1>4. UnderWay("CONFIRM", c)
  BY Zenon, <1>1, <1>3 DEF CalmParts, ChanCalm
<1>5. PICK n \in 1 .. Len(toClient) : toClient[n].kind = "CONFIRM" /\ toClient[n].sid = c
  BY Zenon, <1>4 DEF UnderWay, Among
<1>6. toClient # << >> /\ toClient \in Seq(Packet)
  BY Zenon DEF FwdInv, QueuePart, Arrives
<1>7. Head(toClient) = toClient[1] /\ 1 \in 1 .. Len(toClient)
  BY <1>6
<1>8. n # 1
  BY <1>2, <1>5, <1>7
<1>9. 1 < n
  BY <1>8
<1>10. Before(toClient[1], toClient[n])
  BY Zenon, <1>7, <1>9 DEF FwdInv, QueuePart
<1>11. toClient[n].kind \in { "DATA", "EOF", "CLOSE" }
  BY Zenon, <1>2, <1>5, <1>7, <1>10 DEF Before
<1>12. QED
  BY <1>5, <1>11

(* handle_SSH2_channel_close: the answer goes to the channel that closed.  *)
LEMMA CloseCalm ==
    ASSUME FwdInv, CalmParts, ~confused, handle_SSH2_channel_close
    PROVE  CalmNext
<1>1. Arrives("CLOSE")
  BY Zenon DEF handle_SSH2_channel_close
<1>2. /\ Target \in Conns /\ Known /\ chans[Target].local \in Conns
      /\ chans[Target].conn = Head(toClient).sid /\ sv[Head(toClient).sid].st = "open"
      /\ Head(toClient) \in Packet
  BY <1>1, TargetFits DEF FwdInv
<1>3. PICK t \in Conns : t = Target
  BY <1>2
<1>4. PICK i \in Conns : i = chans[t].local
  BY <1>2, <1>3
<1>5. chans[t].used /\ chans[t].conn = Head(toClient).sid /\ chans[t].conn \in Conns
  BY <1>2, <1>3 DEF Known, Packet
<1>6. /\ ssh2_channel_delete(t) /\ FWD_free_channel(i)
      /\ Tell("CLOSE", chans[t].remote_id, 0)
  BY Zenon, <1>2, <1>3, <1>4 DEF handle_SSH2_channel_close
<1>7. /\ chans'[t] = EmptyChan /\ \A l \in Conns : l # t => chans'[l] = chans[l]
  BY <1>5, <1>6, DeletedChan DEF FwdInv
<1>8. /\ slots'[i] = EmptySlot /\ \A j \in Conns : j # i => slots'[j] = slots[j]
  BY <1>6, FreedSlot DEF FwdInv
<1>9. chans[t].remote_id = chans[t].conn
  BY Zenon, <1>1, <1>5, ClosedIsAnswered DEF FwdInv, ChanPart, ChanShape
<1>10. Expected("CLOSE", sv[chans[t].conn]) /\ 0 \in 0 .. MaxConns
  BY <1>2, <1>5, ExpectedEnd, FwdAssumption
<1>11. ~confused'
  BY <1>5, <1>6, <1>9, <1>10, ToldRight
<1>12. /\ \A s \in Conns : EndGoesOn(s)
       /\ \A j \in Conns : Held(j) /\ j # i => EndSame(slots[j].conn)
  BY <1>4, <1>5, <1>6, <1>10, <1>11, ToldByChan
<1>13. \A k \in Conns : ChanStays(k)
  BY Zenon, <1>4, <1>7, <1>8 DEF ChanStays
<1>14. \A c : AnswersStay(c)
  BY <1>1, TakenAnswers DEF FwdInv
<1>15. ASSUME NEW j \in Conns PROVE SlotGoesOn(j)
  <2>1. CASE j = i
    BY Zenon, <1>8, <2>1 DEF SlotGoesOn
  <2>2. CASE j # i
    BY Zenon, <1>8, <1>12, <2>2, SameSlotGoesOn
  <2>3. QED
    BY Zenon, <2>1, <2>2
<1>16. CalmParts'
  BY Zenon, <1>12, <1>13, <1>14, <1>15, CalmKept
<1>17. QED
  BY Zenon, <1>11, <1>16 DEF CalmNext

(* The confirmation finds the Channel_t without a number, and no other     *)
(* follows.                                                                *)
LEMMA ConfirmedOnce ==
    ASSUME FwdInv, CalmParts, Arrives("CONFIRM"), NEW k \in Conns, chans[k].used,
           chans[k].conn = Head(toClient).sid
    PROVE  /\ chans[k].remote_id = NoId
           /\ sv[chans[k].conn].st = "open" /\ ~sv[chans[k].conn].gotEof
           /\ ~Among(toClient', "CONFIRM", chans[k].conn)
<1>1. PICK c : c = chans[k].conn
  BY Zenon
<1>2. sv[c].st = "open" /\ c = Head(toClient).sid /\ Head(toClient).kind = "CONFIRM"
  BY <1>1, TargetFits DEF FwdInv, Arrives
<1>3. toClient # << >> /\ toClient \in Seq(Packet) /\ toClient' = Tail(toClient)
  BY Zenon DEF FwdInv, QueuePart, Arrives
<1>4. /\ Head(toClient) = toClient[1] /\ 1 \in 1 .. Len(toClient)
      /\ \A n \in 1 .. Len(toClient') : /\ toClient'[n] = toClient[n + 1]
                                        /\ n + 1 \in 1 .. Len(toClient) /\ 1 < n + 1
  BY <1>3
<1>5. UnderWay("CONFIRM", c)
  BY Zenon, <1>2, <1>4 DEF UnderWay, Among
<1>6. chans[k].remote_id = NoId
  BY Zenon, <1>1, <1>5 DEF CalmParts, ChanCalm
<1>7. ~sv[c].gotEof
  BY Zenon, <1>1, <1>6 DEF CalmParts, ChanCalm
<1>8. ASSUME Among(toClient', "CONFIRM", c) PROVE FALSE
  <2>1. PICK n \in 1 .. Len(toClient') : toClient'[n].kind = "CONFIRM" /\ toClient'[n].sid = c
    BY Zenon, <1>8 DEF UnderWay, Among
  <2>2. Before(toClient[1], toClient[n + 1])
    BY Zenon, <1>4 DEF FwdInv, QueuePart
  <2>3. toClient'[n].kind \in { "DATA", "EOF", "CLOSE" }
    BY Zenon, <1>2, <1>4, <2>1, <2>2 DEF Before
  <2>4. QED
    BY <2>1, <2>3
<1>9. QED
  BY Zenon, <1>1, <1>2, <1>6, <1>7, <1>8

(* Channel_t t of slot i gets its number, and the server's end is open.    *)
Confirms(t, i, c) ==
    /\ chans' = [chans EXCEPT ![t].remote_id = c]
    /\ \A j \in Conns : j # i => slots'[j] = slots[j]
    /\ slots'[i].conn = slots[i].conn /\ (Held(i)' => Held(i))
    /\ Held(i) /\ Own(i) => SlotAgrees(i)'
    /\ sv'[c].st = "open"
    /\ \A s \in Conns : s # c => EndGoesOn(s)
    /\ \A j \in Conns : Held(j) /\ j # i => EndSame(slots[j].conn)

(* FWD_confirmed_open: what it comes to, from the slots, the Channel_t and *)
(* the ends.                                                               *)
LEMMA ConfirmKept ==
    ASSUME FwdInv, CalmParts, Arrives("CONFIRM"),
           NEW t \in Conns, chans[t].used, chans[t].conn = Head(toClient).sid,
           NEW i \in Conns, i = chans[t].local, NEW c \in Conns, c = chans[t].conn,
           Confirms(t, i, c)
    PROVE  CalmParts'
<1>1. /\ c = chans[t].conn /\ chans' = [chans EXCEPT ![t].remote_id = c]
      /\ \A j \in Conns : j # i => slots'[j] = slots[j]
      /\ slots'[i].conn = slots[i].conn /\ (Held(i)' => Held(i))
      /\ Held(i) /\ Own(i) => SlotAgrees(i)'
      /\ sv'[c].st = "open"
      /\ \A s \in Conns : s # c => EndGoesOn(s)
      /\ \A j \in Conns : Held(j) /\ j # i => EndSame(slots[j].conn)
  BY Zenon DEF Confirms
<1> USE <1>1
<1>2. chans \in [Conns -> Chan]
  BY Zenon DEF FwdInv, ChanPart
<1>3. /\ chans'[t].remote_id = c /\ chans'[t].used /\ chans'[t].local = i /\ chans'[t].conn = c
      /\ \A k \in Conns : k # t => chans'[k] = chans[k]
  BY <1>1, <1>2 DEF Chan
<1>4. \A k \in Conns : /\ chans'[k].used <=> chans[k].used
                       /\ chans'[k].local = chans[k].local /\ chans'[k].conn = chans[k].conn
  <2> TAKE k \in Conns
  <2>1. CASE k = t
    BY Zenon, <1>1, <1>3, <2>1
  <2>2. CASE k # t
    BY Zenon, <1>3, <2>2
  <2>3. QED
    BY Zenon, <2>1, <2>2
<1>5. ~Among(toClient', "CONFIRM", c) /\ c # NoId
  BY <1>1, ConfirmedOnce DEF Conns, NoId
<1>6. ASSUME NEW j \in Conns PROVE SlotCalm(j)'
  <2> SUFFICES ASSUME Held(j)', Own(j)' PROVE SlotAgrees(j)'
    BY Zenon DEF SlotCalm, SlotAgrees, Held, Own, Waiting, Flowing
  <2>1. slots'[j].conn = slots[j].conn /\ Held(j)
    BY Zenon DEF Held
  <2>2. Own(j)
    <3> SUFFICES ASSUME NEW k \in Conns, chans[k].used, chans[k].local = j
                 PROVE  chans[k].conn = slots[j].conn
      BY Zenon DEF Own
    <3>1. /\ chans'[k].used /\ chans'[k].local = j
          /\ chans'[k].conn = chans[k].conn
      BY Zenon, <1>4
    <3>2. chans'[k].conn = slots'[j].conn
      BY Zenon, <3>1 DEF Own
    <3>3. QED
      BY Zenon, <2>1, <3>1, <3>2
  <2>3. CASE j = i
    BY Zenon, <2>1, <2>2, <2>3
  <2>4. CASE j # i
    <3>1. \A k \in Conns : chans'[k].used /\ chans'[k].local = j => chans'[k] = chans[k]
      BY Zenon, <1>3, <1>4, <2>4
    <3>2. SlotCalm(j) /\ EndSame(slots[j].conn) /\ slots'[j] = slots[j]
      BY Zenon, <2>1, <2>4 DEF CalmParts
    <3>3. SlotAgrees(j)
      BY Zenon, <2>1, <2>2, <3>2 DEF SlotCalm
    <3>4. Fades(j)
      BY Zenon, <3>2, <3>3 DEF Fades, Waiting, Flowing, SlotAgrees
    <3>5. QED
      BY Zenon, <2>1, <2>2, <3>1, <3>2, <3>4, SlotFades
  <2>5. QED
    BY Zenon, <2>3, <2>4
<1>7. ASSUME NEW k \in Conns PROVE ChanCalm(k)'
  <2>1. CASE k = t
    <3>1. sv'[c].st # "asked"
      BY <1>1
    <3>2. chans'[k].conn = c /\ chans'[k].remote_id # NoId
      BY Zenon, <1>3, <1>5, <2>1
    <3>3. QED
      BY Zenon, <1>5, <3>1, <3>2 DEF ChanCalm, UnderWay
  <2>2. CASE k # t /\ chans[k].used
    <3>1. chans[k].conn # c
      BY Zenon, <1>1, <2>2 DEF FwdInv, ChanPart
    <3>2. AnswersStay(chans[k].conn)
      BY <1>1, <3>1, TakenAnswers DEF FwdInv
    <3>3. chans[k].conn \in Conns
      BY <2>2, FwdAssumption DEF FwdInv, ChanPart, ChanShape, EndPart, Conns
    <3>4. \/ EndSame(chans[k].conn)
          \/ sv'[chans[k].conn].st \in { "open", "done" } /\ chans[k].remote_id # NoId
      BY Zenon, <1>1, <2>2, <3>1, <3>3 DEF EndGoesOn
    <3>5. ChanCalm(k) /\ chans'[k] = chans[k]
      BY Zenon, <1>3, <2>2 DEF CalmParts
    <3>6. QED
      BY Zenon, <3>2, <3>4, <3>5, ChanStaysCalm DEF AnswersStay
  <2>3. CASE ~chans[k].used
    BY Zenon, <1>4, <2>3 DEF ChanCalm
  <2>4. QED
    BY Zenon, <2>1, <2>2, <2>3
<1>8. ASSUME NEW s \in Conns PROVE EndCalm(s)'
  <2>1. CASE EndSame(s)
    BY Zenon, <2>1 DEF CalmParts, EndCalm, EndSame
  <2>2. CASE sv'[s].st \in { "open", "done" }
    BY <2>2 DEF EndCalm
  <2>3. CASE s = c
    BY <1>1, <2>3 DEF EndCalm
  <2>4. QED
    BY Zenon, <1>1, <2>1, <2>2, <2>3 DEF EndGoesOn
<1>9. QED
  BY Zenon, <1>6, <1>7, <1>8 DEF CalmParts, SlotCalm, SlotAgrees, Held, Own, Waiting, Flowing, ChanCalm, UnderWay, EndCalm

(* FWD_confirmed_open                                                      *)
LEMMA ConfirmCalm ==
    ASSUME FwdInv, CalmParts, ~confused, handle_SSH2_open_confirm
    PROVE  CalmNext
<1>1. Arrives("CONFIRM")
  BY Zenon DEF handle_SSH2_open_confirm
<1>2. /\ Target \in Conns /\ Known /\ chans[Target].local \in Conns
      /\ chans[Target].conn = Head(toClient).sid /\ Head(toClient) \in Packet
  BY <1>1, TargetFits DEF FwdInv
<1>3. PICK t \in Conns : t = Target
  BY <1>2
<1>4. PICK i \in Conns : i = chans[t].local
  BY <1>2, <1>3
<1>5. PICK c \in Conns : c = chans[t].conn
  BY <1>2, <1>3 DEF Packet
<1>6. chans[t].used /\ chans[t].conn = Head(toClient).sid
  BY Zenon, <1>2, <1>3 DEF Known
<1>7. /\ chans' = [chans EXCEPT ![t].remote_id = c]
      /\ \/ ~InUse(i) /\ slots' = slots /\ TellNothing
         \/ /\ InUse(i) /\ slots[i].sock # "none"
            /\ slots' = [slots EXCEPT ![i].status = @ \cup { "REMOTE" }]
            /\ TellNothing
         \/ /\ InUse(i) /\ slots[i].sock = "none"
            /\ slots' = [slots EXCEPT ![i].status = @ \cup { "CLOSED_LOCAL" }]
            /\ \/ Tell("EOF", c, 0)
               \/ { k \in ChansOf(i) : k < t } # {} /\ ChannelInputEof(i, FALSE)
  BY Zenon, <1>2, <1>3, <1>4, <1>5 DEF handle_SSH2_open_confirm
<1>8. chans[t].remote_id = NoId /\ sv[c].st = "open" /\ ~sv[c].gotEof
  BY <1>1, <1>5, <1>6, ConfirmedOnce
<1>9. slots \in [Conns -> Slot] /\ chans \in [Conns -> Chan] /\ c # NoId
  BY DEF FwdInv, SlotPart, ChanPart, Conns, NoId
<1>10. /\ chans'[t].remote_id = c
       /\ \A k \in Conns : k # t => chans'[k] = chans[k]
       /\ \A k \in Conns : /\ chans'[k].used <=> chans[k].used
                           /\ chans'[k].local = chans[k].local /\ chans'[k].conn = chans[k].conn
  BY <1>7, <1>9 DEF Chan
<1>11. /\ \A j \in Conns : j # i => slots'[j] = slots[j]
       /\ slots'[i].conn = slots[i].conn /\ slots'[i].sock = slots[i].sock
       /\ slots'[i].addr = slots[i].addr /\ slots'[i].request = slots[i].request
       /\ Held(i)' => Held(i)
  <2>1. ASSUME NEW x, InUse(i), slots' = [slots EXCEPT ![i].status = @ \cup { x }]
        PROVE  /\ \A j \in Conns : j # i => slots'[j] = slots[j]
               /\ slots'[i].conn = slots[i].conn /\ slots'[i].sock = slots[i].sock
               /\ slots'[i].addr = slots[i].addr /\ slots'[i].request = slots[i].request
               /\ Held(i)
    BY <1>9, <2>1 DEF Slot, InUse, Held
  <2>2. CASE slots' = slots
    BY Zenon, <2>2 DEF Held
  <2>3. QED
    BY Zenon, <1>7, <2>1, <2>2
<1>12. \A j \in Conns : Held(j) /\ j # i => slots[j].conn # c /\ slots[j].conn \in Conns
  <2>1. \A j \in Conns : Held(j) => slots[j].conn \in Conns
    BY FwdAssumption DEF FwdInv, SlotPart, SlotShape, EndPart, Conns
  <2>2. QED
    BY Zenon, <1>4, <1>5, <1>6, <2>1 DEF FwdInv, Pair
<1>13. ASSUME Held(i), Own(i)
       PROVE  /\ ~Waiting(i)' /\ slots'[i].sock # "connecting" /\ slots[i].conn = c
              /\ \A k \in Conns : chans'[k].used /\ chans'[k].local = i => k = t
  <2>1. slots[i].conn = c
    BY Zenon, <1>4, <1>5, <1>6, <1>13 DEF Own
  <2>2. Waiting(i) => sv[c].st = "opening"
    BY Zenon, <1>13, <2>1 DEF CalmParts, SlotCalm, SlotAgrees
  <2>3. ~Waiting(i)
    BY <1>8, <2>2
  <2>4. ~Waiting(i)' /\ slots'[i].sock # "connecting"
    BY Zenon, <1>11, <2>3 DEF Waiting
  <2>5. ASSUME NEW k \in Conns, chans'[k].used, chans'[k].local = i PROVE k = t
    <3>1. chans[k].used /\ chans[k].local = i
      BY Zenon, <1>10, <2>5
    <3>2. chans[k].conn = c
      BY Zenon, <1>13, <2>1, <3>1 DEF Own
    <3>3. QED
      BY Zenon, <1>5, <1>6, <3>1, <3>2 DEF FwdInv, ChanPart
  <2>6. QED
    BY Zenon, <2>1, <2>4, <2>5
<1>14. CASE TellNothing
  <2>1. UNCHANGED << sv, confused >>
    BY Zenon, <1>14 DEF TellNothing
  <2>2. \A s : EndSame(s) /\ EndGoesOn(s)
    BY Zenon, <2>1 DEF EndSame, EndGoesOn
  <2>3. Held(i) /\ Own(i) => SlotAgrees(i)'
    BY Zenon, <1>8, <1>10, <1>11, <1>13, <2>1 DEF SlotAgrees, Waiting, Flowing
  <2>4. sv'[c].st = "open"
    BY Zenon, <1>8, <2>1
  <2>5. CalmParts'
    <3>1. chans' = [chans EXCEPT ![t].remote_id = c] /\ i = chans[t].local
      BY Zenon, <1>4, <1>7
    <3>2. Confirms(t, i, c)
      BY Zenon, <1>11, <2>2, <2>3, <2>4, <3>1 DEF Confirms
    <3>3. QED
      BY <1>1, <1>5, <1>6, <3>1, <3>2, ConfirmKept
  <2>6. QED
    BY Zenon, <2>1, <2>5 DEF CalmNext
<1>15. ASSUME slots[i].sock = "none", Tell("EOF", c, 0) PROVE CalmNext
  <2>1. Expected("EOF", sv[c]) /\ 0 \in 0 .. MaxConns
    BY <1>8, ExpectedEnd, FwdAssumption
  <2>2. ~confused'
    BY <1>15, <2>1, ToldRight
  <2>3. /\ sv'[c] = Placed("EOF", sv[c], 0)
        /\ \A d \in Conns : d # c => sv'[d] = sv[d]
    BY <1>15, <2>1, <2>2, ToldOne
  <2>4. sv'[c].st = "open"
    <3>1. PICK e : e = sv[c]
      BY Zenon
    <3>2. e \in SvEnd /\ Expected("EOF", e) /\ sv'[c] = Placed("EOF", e, 0)
      BY Zenon, <2>1, <2>3, <3>1 DEF FwdInv, EndPart
    <3>3. Placed("EOF", e, 0).st = "open"
      BY <2>1, <3>2, PlacedFacts
    <3>4. QED
      BY Zenon, <3>2, <3>3
  <2>5. \A s \in Conns : s # c => EndSame(s) /\ EndGoesOn(s)
    BY Zenon, <2>3 DEF EndSame, EndGoesOn
  <2>6. Held(i) /\ Own(i) => SlotAgrees(i)'
    <3>1. slots'[i].sock # "open"
      BY <1>11, <1>15
    <3>2. QED
      BY Zenon, <1>13, <3>1 DEF SlotAgrees, Waiting, Flowing
  <2>7. \A j \in Conns : Held(j) /\ j # i => EndSame(slots[j].conn)
    BY Zenon, <1>12, <2>5
  <2>8. CalmParts'
    <3>1. chans' = [chans EXCEPT ![t].remote_id = c] /\ i = chans[t].local
      BY Zenon, <1>4, <1>7
    <3>2. Confirms(t, i, c)
      BY Zenon, <1>11, <2>4, <2>5, <2>6, <2>7, <3>1 DEF Confirms
    <3>3. QED
      BY <1>1, <1>5, <1>6, <3>1, <3>2, ConfirmKept
  <2>9. QED
    BY Zenon, <2>2, <2>8 DEF CalmNext
<1>16. ASSUME { k \in ChansOf(i) : k < t } # {}, ChannelInputEof(i, FALSE), InUse(i)
       PROVE  CalmNext
  <2>1. PICK k \in Conns : k < t /\ chans[k].used /\ chans[k].local = i
    BY <1>16 DEF ChansOf
  <2>2. k # t /\ ChansOf(i) # {}
    BY <2>1 DEF Conns, ChansOf
  <2>3. ~Own(i)
    BY Zenon, <1>4, <1>6, <2>1, <2>2 DEF Own, FwdInv, ChanPart
  <2>4. Stranded' # {}
    <3>1. PICK l \in Conns : chans[l].used /\ chans[l].local = i /\ chans[l].conn # slots[i].conn
      BY Zenon, <2>3 DEF Own
    <3>2. chans'[l].used /\ slots'[chans'[l].local].conn # chans'[l].conn
      BY Zenon, <1>10, <1>11, <3>1
    <3>3. l \in Stranded'
      BY Zenon, <3>2 DEF Stranded
    <3>4. QED
      BY Zenon, <3>3
  <2> DEFINE l == local_channel_lookup(i)
  <2>5. l \in Conns /\ chans[l].used /\ chans[l].local = i
    BY Zenon, <2>2, LookupFinds
  <2>6. Tell("EOF", chans[l].remote_id, 0) /\ 0 \in 0 .. MaxConns
    BY <1>16, <2>2, FwdAssumption DEF ChannelInputEof
  <2> HIDE DEF l
  <2>7. ASSUME ~confused' PROVE CalmParts'
    <3>1. /\ chans[l].remote_id = chans[l].conn /\ chans[l].conn \in Conns
          /\ \A s \in Conns : s # chans[l].conn => sv'[s] = sv[s]
          /\ \A s \in Conns : EndGoesOn(s)
          /\ \A j \in Conns : Held(j) /\ j # i => EndSame(slots[j].conn)
      BY <2>5, <2>6, <2>7, ToldByChan
    <3>2. chans[l].remote_id # NoId
      BY <3>1 DEF Conns, NoId
    <3>3. chans[l].conn # c
      BY Zenon, <1>5, <1>6, <1>8, <2>5, <3>2 DEF FwdInv, ChanPart
    <3>4. sv'[c].st = "open"
      BY Zenon, <1>8, <3>1, <3>3
    <3>5. Held(i) /\ Own(i) => SlotAgrees(i)'
      BY Zenon, <2>3
    <3>6. QED
      <4>1. chans' = [chans EXCEPT ![t].remote_id = c] /\ i = chans[t].local
        BY Zenon, <1>4, <1>7
      <4>2. Confirms(t, i, c)
        BY Zenon, <1>11, <3>1, <3>4, <3>5, <4>1 DEF Confirms
      <4>3. QED
        BY <1>1, <1>5, <1>6, <4>1, <4>2, ConfirmKept
  <2>8. QED
    BY Zenon, <2>4, <2>7 DEF CalmNext
<1>17. QED
  BY Zenon, <1>7, <1>14, <1>15, <1>16
-----------------------------------------------------------------------------
(* The actions that make entries.                                          *)

(* New entries for one connection leave the others as they are.            *)
LEMMA AddedCalm ==
    ASSUME FwdInv, CalmParts, NEW i \in Conns, NEW k \in Conns, NEW c \in Conns,
           ~Held(i), ~chans[k].used, ~Made(c),
           \A j \in Conns : j # i => slots'[j] = slots[j],
           \A l \in Conns : l # k => chans'[l] = chans[l],
           slots'[i] = slots[i] \/ SlotAgrees(i)',
           chans'[k] = chans[k] \/ (chans'[k].local = i /\ ChanCalm(k)'),
           \A s \in Conns : s # c => EndSame(s),
           EndCalm(c)',
           \A d : d # c => AnswersStay(d)
    PROVE  CalmParts'
<1>1. ASSUME NEW j \in Conns PROVE SlotCalm(j)'
  <2> SUFFICES ASSUME Held(j)', Own(j)' PROVE SlotAgrees(j)'
    BY Zenon DEF SlotCalm, SlotAgrees, Held, Own, Waiting, Flowing
  <2>1. CASE j = i
    <3>1. slots'[i] # slots[i]
      BY Zenon, <2>1 DEF Held
    <3>2. SlotAgrees(i)'
      BY Zenon, <3>1
    <3>3. QED
      BY Zenon, <2>1, <3>2 DEF SlotAgrees, Waiting, Flowing
  <2>2. CASE j # i
    <3>1. slots'[j] = slots[j] /\ Held(j)
      BY Zenon, <2>2 DEF Held
    <3>2. Own(j)
      <4> SUFFICES ASSUME NEW l \in Conns, chans[l].used, chans[l].local = j
                   PROVE  chans[l].conn = slots[j].conn
        BY Zenon DEF Own
      <4>1. chans'[l] = chans[l]
        BY Zenon
      <4>2. QED
        BY Zenon, <3>1, <4>1 DEF Own
    <3>3. \A l \in Conns : chans'[l].used /\ chans'[l].local = j => chans'[l] = chans[l]
      BY Zenon, <2>2
    <3>4. slots[j].conn \in Conns
      BY <3>1, FwdAssumption DEF FwdInv, SlotPart, SlotShape, EndPart, Conns
    <3>5. slots[j].conn # c
      BY Zenon, <3>1 DEF Made
    <3>6. EndSame(slots[j].conn)
      BY Zenon, <3>4, <3>5
    <3>7. SlotCalm(j)
      BY Zenon DEF CalmParts
    <3>8. Fades(j)
      <4>1. SlotAgrees(j)
        BY Zenon, <3>1, <3>2, <3>7 DEF SlotCalm
      <4>2. QED
        BY Zenon, <3>1, <4>1 DEF Fades, SlotAgrees, Waiting, Flowing
    <3>9. QED
      BY Zenon, <3>1, <3>2, <3>3, <3>6, <3>7, <3>8, SlotFades
  <2>3. QED
    BY Zenon, <2>1, <2>2
<1>2. ASSUME NEW l \in Conns PROVE ChanCalm(l)'
  <2>1. CASE ~chans'[l].used
    BY Zenon, <2>1 DEF ChanCalm
  <2>2. CASE l = k /\ chans'[l].used
    <3>1. chans'[k] # chans[k]
      BY Zenon, <2>2
    <3>2. ChanCalm(k)'
      BY Zenon, <3>1
    <3>3. QED
      BY Zenon, <2>2, <3>2 DEF ChanCalm, UnderWay, Among
  <2>3. CASE l # k /\ chans'[l].used
    <3>1. chans'[l] = chans[l] /\ chans[l].used
      BY Zenon, <2>3
    <3>2. chans[l].conn \in Conns
      BY <3>1, FwdAssumption DEF FwdInv, ChanPart, ChanShape, EndPart, Conns
    <3>3. chans[l].conn # c
      BY Zenon, <3>1 DEF Made
    <3>4. EndSame(chans[l].conn) /\ AnswersStay(chans[l].conn)
      BY Zenon, <3>2, <3>3
    <3>5. ChanCalm(l)
      BY Zenon DEF CalmParts
    <3>6. QED
      BY Zenon, <3>1, <3>4, <3>5, ChanStaysCalm DEF AnswersStay
  <2>4. QED
    BY Zenon, <2>1, <2>2, <2>3
<1>3. ASSUME NEW s \in Conns PROVE EndCalm(s)'
  <2>1. CASE s # c
    <3>1. EndSame(s) /\ EndCalm(s)
      BY Zenon, <2>1 DEF CalmParts
    <3>2. QED
      BY Zenon, <3>1 DEF EndCalm, EndSame
  <2>2. CASE s = c
    BY Zenon, <2>2 DEF EndCalm
  <2>3. QED
    BY Zenon, <2>1, <2>2
<1>4. QED
  BY Zenon, <1>1, <1>2, <1>3 DEF CalmParts, SlotCalm, SlotAgrees, Held, Own, Waiting, Flowing, ChanCalm, UnderWay, EndCalm

(* A connection with no packet left but what a step takes has no answer    *)
(* under way.                                                              *)
LEMMA NoAnswer ==
    ASSUME NEW c, \A n \in 1 .. Len(toClient') : toClient'[n].sid # c
    PROVE  \A p : ~Among(toClient', p, c)
BY Zenon DEF Among

(* A new Channel_t that knows the server's number.                         *)
LEMMA NumberedCalm ==
    ASSUME NEW k \in Conns, chans'[k].remote_id # NoId, sv'[chans'[k].conn].st # "asked",
           ~Among(toClient', "CONFIRM", chans'[k].conn)
    PROVE  ChanCalm(k)'
BY Zenon DEF ChanCalm, UnderWay, Among

(* handle_SSH2_channel_open                                                *)
LEMMA OpenCalm ==
    ASSUME FwdInv, CalmParts, ~confused, handle_SSH2_channel_open
    PROVE  CalmNext
<1>1. Arrives("OPEN")
  BY Zenon DEF handle_SSH2_channel_open
<1>2. Head(toClient) \in Packet /\ PacketFits(Head(toClient)) /\ Head(toClient).kind = "OPEN"
      /\ QueueMoves(1, { Head(toClient).sid })
  BY <1>1, OneTaken DEF FwdInv
<1>3. PICK c \in Conns : c = Head(toClient).sid
  BY <1>2 DEF Packet
<1>4. c \in 1 .. nconns /\ sv[c].st = "opening" /\ ~Made(c) /\ QueueMoves(1, { c })
  BY Zenon, <1>2, <1>3 DEF PacketFits
<1>5. /\ \A j \in Conns : Held(j) => slots[j].conn # c
      /\ \A l \in Conns : chans[l].used => chans[l].conn # c
  BY Zenon, <1>4 DEF Made
<1>6. /\ SlotPart /\ ChanPart /\ nconns \in 0 .. MaxConns /\ MaxConns \in Nat
      /\ NAddrs \in Nat /\ 0 \in 0 .. NAddrs /\ 0 \in 0 .. MaxConns
  BY FwdAssumption DEF FwdInv, EndPart
<1>7. FreeNum \in Conns /\ ~Held(FreeNum) /\ FreeChan \in Conns /\ ~chans[FreeChan].used
  BY <1>5, <1>6, FreeEntries
<1>8. PICK i \in Conns : i = FreeNum /\ ~Held(i)
  BY Zenon, <1>7
<1>9. PICK k \in Conns : FreeChan = k /\ ~chans[k].used
  BY Zenon, <1>7
<1>10. /\ \/ /\ IF HasRoom THEN NewSlot(i, RemoteSlot(c, 0))
                ELSE UNCHANGED << slots, num_channels >>
             /\ TellNothing
          \/ /\ \E a \in 1 .. NAddrs : IF HasRoom THEN NewSlot(i, RemoteSlot(c, a))
                                       ELSE UNCHANGED << slots, num_channels >>
             /\ TellNothing
          \/ /\ UNCHANGED << slots, num_channels >>
             /\ Tell("FAIL", c, 0)
       /\ IF HasRoom THEN ssh2_channel_new(i, c, c) ELSE UNCHANGED ssh
  BY Zenon, <1>3, <1>8 DEF handle_SSH2_channel_open
<1>11. \/ /\ TellNothing
          /\ slots' = slots \/ \E a \in 0 .. NAddrs : NewSlot(i, RemoteSlot(c, a))
       \/ slots' = slots /\ Tell("FAIL", c, 0)
  <2>1. \A a \in 1 .. NAddrs : a \in 0 .. NAddrs
    BY <1>6
  <2>2. QED
    BY Zenon, <1>6, <1>10, <2>1
<1>12. /\ ~confused' /\ \A s \in Conns : s # c => sv'[s] = sv[s]
       /\ sv'[c] = sv[c] \/ sv'[c].st = "done"
  <2>1. CASE TellNothing
    BY Zenon, <2>1 DEF TellNothing
  <2>2. CASE Tell("FAIL", c, 0)
    <3>1. PICK e \in SvEnd : e = sv[c]
      BY DEF FwdInv, EndPart
    <3>2. Expected("FAIL", sv[c]) /\ Expected("FAIL", e)
      BY Zenon, <1>4, <3>1, ExpectedEnd
    <3>3. ~confused'
      BY <1>6, <2>2, <3>2, ToldRight
    <3>4. sv'[c] = Placed("FAIL", sv[c], 0) /\ \A s \in Conns : s # c => sv'[s] = sv[s]
      BY <1>6, <2>2, <3>3, ToldOne
    <3>5. Placed("FAIL", e, 0).st = "done"
      BY <1>6, <3>2, PlacedFacts
    <3>6. QED
      BY Zenon, <3>1, <3>3, <3>4, <3>5
  <2>3. QED
    BY Zenon, <1>11, <2>1, <2>2
<1>13. /\ \A j \in Conns : j # i => slots'[j] = slots[j]
       /\ slots'[i] = slots[i] \/ SlotAgrees(i)'
  <2>1. ASSUME NEW a \in 0 .. NAddrs, NewSlot(i, RemoteSlot(c, a)), TellNothing
        PROVE  SlotAgrees(i)' /\ \A j \in Conns : j # i => slots'[j] = slots[j]
    <3>1. PICK s : s = RemoteSlot(c, a)
      BY Zenon
    <3>2. /\ s.status = { "REMOTE" } /\ s.conn = c /\ s.addr = a
          /\ s.sock = IF a = 0 THEN "none" ELSE "connecting"
      BY <3>1, MadeSlots
    <3>3. ~(Both \subseteq s.status) /\ (s.sock = "connecting" => s.addr # 0)
      BY <3>2 DEF Both
    <3>4. slots'[i] = s /\ \A j \in Conns : j # i => slots'[j] = slots[j]
      BY <1>6, <2>1, <3>1, NewSlotEffect
    <3>5. sv'[c].st = "opening"
      BY Zenon, <1>4, <2>1 DEF TellNothing
    <3>6. QED
      BY Zenon, <3>2, <3>3, <3>4, <3>5 DEF SlotAgrees, Waiting, Flowing
  <2>2. QED
    BY Zenon, <1>11, <2>1
<1>14. \A p : ~Among(toClient', p, c)
  BY Zenon, <1>4, NoAnswer DEF QueueMoves
<1>15. /\ \A l \in Conns : l # k => chans'[l] = chans[l]
       /\ chans'[k] = chans[k] \/ (chans'[k].local = i /\ ChanCalm(k)')
  <2>1. CASE HasRoom
    <3>1. ssh2_channel_new(i, c, c) /\ chans \in [Conns -> Chan]
      BY Zenon, <1>6, <1>10, <2>1 DEF ChanPart
    <3>2. /\ \A l \in Conns : l # k => chans'[l] = chans[l]
          /\ chans'[k].local = i /\ chans'[k].remote_id = c /\ chans'[k].conn = c
      BY <1>9, <3>1 DEF ssh2_channel_new
    <3>3. c # NoId
      BY DEF Conns, NoId
    <3>4. sv'[c].st # "asked"
      BY <1>4, <1>12
    <3>5. ChanCalm(k)'
      BY Zenon, <1>14, <3>2, <3>3, <3>4, NumberedCalm
    <3>6. QED
      BY Zenon, <3>2, <3>5
  <2>2. CASE ~HasRoom
    BY Zenon, <1>10, <2>2 DEF ssh
  <2>3. QED
    BY Zenon, <2>1, <2>2
<1>16. EndCalm(c)'
  <2>1. CASE sv'[c] = sv[c]
    BY Zenon, <2>1 DEF CalmParts, EndCalm
  <2>2. CASE sv'[c].st = "done"
    BY <2>2 DEF EndCalm
  <2>3. QED
    BY Zenon, <1>12, <2>1, <2>2
<1>17. \A s \in Conns : s # c => EndSame(s)
  BY Zenon, <1>12 DEF EndSame
<1>18. \A d : d # c => AnswersStay(d)
  BY <1>1, <1>3, TakenAnswers DEF FwdInv
<1>19. CalmParts'
  BY <1>4, <1>8, <1>9, <1>13, <1>15, <1>16, <1>17, <1>18, AddedCalm
<1>20. QED
  BY Zenon, <1>12, <1>19 DEF CalmNext

(* accept_local_connection                                                 *)
LEMMA AcceptCalm ==
    ASSUME FwdInv, CalmParts, ~confused, NEW rekeying \in BOOLEAN,
           accept_local_connection(rekeying)
    PROVE  CalmNext
<1>1. /\ nconns < MaxConns /\ toClient' = toClient /\ confused' = confused
      /\ SlotPart /\ ChanPart /\ nconns \in 0 .. MaxConns /\ MaxConns \in Nat
      /\ NAddrs \in Nat /\ 0 \in 0 .. NAddrs /\ sv \in [Conns -> SvEnd]
  BY FwdAssumption DEF accept_local_connection, FwdInv, EndPart
<1>2. PICK c \in Conns : c = nconns + 1
  BY <1>1 DEF Conns
<1>3. c \notin 1 .. nconns /\ c > nconns
  BY <1>1, <1>2
<1>4. /\ \A j \in Conns : Held(j) => slots[j].conn # c
      /\ \A l \in Conns : chans[l].used => chans[l].conn # c
  BY Zenon, <1>1, <1>3, NotBegun
<1>5. FreeNum \in Conns /\ ~Held(FreeNum) /\ FreeChan \in Conns /\ ~chans[FreeChan].used
  BY <1>1, <1>4, FreeEntries
<1>6. PICK i \in Conns : i = FreeNum /\ ~Held(i)
  BY Zenon, <1>5
<1>7. PICK k \in Conns : FreeChan = k /\ ~chans[k].used
  BY Zenon, <1>5
<1>8. \/ /\ slots' = slots \/ NewSlot(i, LocalSlot(c))
         /\ UNCHANGED << ssh, sv >>
      \/ /\ NewSlot(i, LocalSlot(c))
         /\ ssh2_channel_new(i, NoId, c)
         /\ sv' = [sv EXCEPT ![c].st = "asked", ![c].cid = k]
  BY Zenon, <1>2, <1>6, <1>7 DEF accept_local_connection
<1>9. ~Made(c)
  BY Zenon, <1>4 DEF Made
<1>10. /\ \A j \in Conns : j # i => slots'[j] = slots[j]
       /\ slots'[i] = slots[i] \/ SlotAgrees(i)'
  <2>1. ASSUME NewSlot(i, LocalSlot(c))
        PROVE  SlotAgrees(i)' /\ \A j \in Conns : j # i => slots'[j] = slots[j]
    <3>1. PICK s : s = LocalSlot(c)
      BY Zenon
    <3>2. s.status = { "LOCAL" } /\ s.request = "L" /\ s.sock = "open"
      BY <1>1, <3>1, MadeSlots
    <3>3. ~(Both \subseteq s.status) /\ s.sock # "connecting" /\ s.request # "R"
      BY <3>2 DEF Both
    <3>4. slots'[i] = s /\ \A j \in Conns : j # i => slots'[j] = slots[j]
      BY <1>1, <2>1, <3>1, NewSlotEffect
    <3>5. QED
      BY Zenon, <3>3, <3>4 DEF SlotAgrees, Waiting, Flowing
  <2>2. QED
    BY Zenon, <1>8, <2>1
<1>11. \A n \in 1 .. Len(toClient') : toClient'[n].sid # c
  BY Zenon, <1>1, <1>3 DEF FwdInv, QueuePart, PacketFits
<1>12. \A p : ~Among(toClient', p, c)
  BY Zenon, <1>11, NoAnswer
<1>13. sv[c].st = "none" /\ ~sv[c].gotEof
  <2>1. sv[c].st = "none"
    BY <1>3 DEF FwdInv, EndPart, EndShape
  <2>2. QED
    BY <2>1 DEF CalmParts, EndCalm
<1>14. /\ \A s \in Conns : s # c => sv'[s] = sv[s]
       /\ ~sv'[c].gotEof
       /\ \/ chans' = chans
          \/ sv'[c].st = "asked"
  <2>1. CASE UNCHANGED << ssh, sv >>
    BY Zenon, <1>13, <2>1 DEF ssh
  <2>2. CASE sv' = [sv EXCEPT ![c].st = "asked", ![c].cid = k]
    <3>1. sv[c] \in SvEnd
      BY <1>1
    <3>2. PICK e : e = [sv[c] EXCEPT !.st = "asked", !.cid = k]
      BY Zenon
    <3>3. e.st = "asked" /\ e.gotEof = sv[c].gotEof
      BY <3>1, <3>2 DEF SvEnd
    <3>4. sv' = [sv EXCEPT ![c] = e]
      BY <1>1, <2>2, <3>1, <3>2 DEF SvEnd
    <3>5. sv'[c] = e /\ \A s \in Conns : s # c => sv'[s] = sv[s]
      BY <1>1, <3>4
    <3>6. QED
      BY Zenon, <1>13, <3>3, <3>5
  <2>3. QED
    BY Zenon, <1>8, <2>1, <2>2
<1>15. /\ \A l \in Conns : l # k => chans'[l] = chans[l]
       /\ chans'[k] = chans[k] \/ (chans'[k].local = i /\ ChanCalm(k)')
  <2>1. CASE chans' = chans
    BY Zenon, <2>1
  <2>2. CASE ssh2_channel_new(i, NoId, c) /\ sv'[c].st = "asked"
    <3>1. chans \in [Conns -> Chan]
      BY Zenon, <1>1 DEF ChanPart
    <3>2. /\ \A l \in Conns : l # k => chans'[l] = chans[l]
          /\ chans'[k].local = i /\ chans'[k].remote_id = NoId /\ chans'[k].conn = c
      BY <1>7, <2>2, <3>1 DEF ssh2_channel_new
    <3>3. ChanCalm(k)'
      BY Zenon, <1>14, <2>2, <3>2 DEF ChanCalm
    <3>4. QED
      BY Zenon, <3>2, <3>3
  <2>3. QED
    BY Zenon, <1>8, <1>14, <2>1, <2>2 DEF ssh
<1>16. EndCalm(c)'
  BY Zenon, <1>14 DEF EndCalm
<1>17. \A s \in Conns : s # c => EndSame(s)
  BY Zenon, <1>14 DEF EndSame
<1>18. \A d : AnswersStay(d)
  BY Zenon, <1>1, NoneTakenAnswers
<1>19. CalmParts'
  BY <1>6, <1>7, <1>9, <1>10, <1>15, <1>16, <1>17, <1>18, AddedCalm
<1>20. QED
  BY Zenon, <1>1, <1>19 DEF CalmNext
-----------------------------------------------------------------------------
(* The server's steps.                                                     *)

(* A step that moves one end and neither array.                            *)
LEMMA EndMovedCalm ==
    ASSUME FwdInv, CalmParts, NEW c \in Conns, slots' = slots, chans' = chans,
           \A s \in Conns : s # c => EndSame(s) /\ AnswersStay(s),
           EndCalm(c)',
           \A k \in Conns : chans[k].used /\ chans[k].conn = c => ChanCalm(k)',
           \A i \in Conns : Held(i) /\ Own(i) /\ slots[i].conn = c => SlotAgrees(i)'
    PROVE  CalmParts'
<1>1. ASSUME NEW j \in Conns PROVE SlotCalm(j)'
  <2> SUFFICES ASSUME Held(j), Own(j) PROVE SlotAgrees(j)'
    BY Zenon DEF SlotCalm, SlotAgrees, Held, Own, Waiting, Flowing
  <2>1. CASE slots[j].conn = c
    BY Zenon, <2>1
  <2>2. CASE slots[j].conn # c
    <3>1. slots[j].conn \in Conns
      BY FwdAssumption DEF FwdInv, SlotPart, SlotShape, EndPart, Conns
    <3>2. EndSame(slots[j].conn)
      BY Zenon, <2>2, <3>1
    <3>3. SlotCalm(j)
      BY Zenon DEF CalmParts
    <3>4. Fades(j)
      <4>1. SlotAgrees(j)
        BY Zenon, <3>3 DEF SlotCalm
      <4>2. QED
        BY Zenon, <4>1 DEF Fades, SlotAgrees, Waiting, Flowing
    <3>5. QED
      BY Zenon, <3>2, <3>3, <3>4, SlotFades
  <2>3. QED
    BY Zenon, <2>1, <2>2
<1>2. ASSUME NEW k \in Conns PROVE ChanCalm(k)'
  <2>1. CASE ~chans[k].used
    BY Zenon, <2>1 DEF ChanCalm
  <2>2. CASE chans[k].used /\ chans[k].conn = c
    BY Zenon, <2>2
  <2>3. CASE chans[k].used /\ chans[k].conn # c
    <3>1. chans[k].conn \in Conns
      BY <2>3, FwdAssumption DEF FwdInv, ChanPart, ChanShape, EndPart, Conns
    <3>2. EndSame(chans[k].conn) /\ AnswersStay(chans[k].conn)
      BY Zenon, <2>3, <3>1
    <3>3. ChanCalm(k)
      BY Zenon DEF CalmParts
    <3>4. QED
      BY Zenon, <3>2, <3>3, ChanStaysCalm DEF AnswersStay
  <2>4. QED
    BY Zenon, <2>1, <2>2, <2>3
<1>3. ASSUME NEW s \in Conns PROVE EndCalm(s)'
  <2>1. CASE s # c
    <3>1. EndSame(s) /\ EndCalm(s)
      BY Zenon, <2>1 DEF CalmParts
    <3>2. QED
      BY Zenon, <3>1 DEF EndCalm, EndSame
  <2>2. CASE s = c
    BY Zenon, <2>2 DEF EndCalm
  <2>3. QED
    BY Zenon, <2>1, <2>2
<1>4. QED
  BY Zenon, <1>1, <1>2, <1>3 DEF CalmParts, SlotCalm, SlotAgrees, Held, Own, Waiting, Flowing, ChanCalm, UnderWay, EndCalm

(* What a packet that the server sends changes of what is under way.       *)
LEMMA SentAnswers ==
    ASSUME QueuePart, NEW m, m \in Packet, Send(m), NEW p, NEW c
    PROVE  Among(toClient', p, c) <=> UnderWay(p, c) \/ (m.kind = p /\ m.sid = c)
<1>1. toClient \in Seq(Packet) /\ toClient' = Append(toClient, m)
  BY Zenon DEF QueuePart, Send
<1>2. /\ Len(toClient) \in Nat /\ Len(toClient') = Len(toClient) + 1
      /\ \A n \in 1 .. Len(toClient) : toClient'[n] = toClient[n] /\ n \in 1 .. Len(toClient')
      /\ toClient'[Len(toClient')] = m /\ Len(toClient') \in 1 .. Len(toClient')
      /\ \A n \in 1 .. Len(toClient') : n \in 1 .. Len(toClient) \/ n = Len(toClient')
  BY <1>1
<1>3. ASSUME Among(toClient', p, c) PROVE UnderWay(p, c) \/ (m.kind = p /\ m.sid = c)
  <2>1. PICK n \in 1 .. Len(toClient') : toClient'[n].kind = p /\ toClient'[n].sid = c
    BY Zenon, <1>3 DEF Among
  <2>2. CASE n \in 1 .. Len(toClient)
    <3>1. toClient[n].kind = p /\ toClient[n].sid = c
      BY Zenon, <1>2, <2>1, <2>2
    <3>2. QED
      BY Zenon, <2>2, <3>1 DEF UnderWay, Among
  <2>3. CASE n = Len(toClient')
    BY Zenon, <1>2, <2>1, <2>3
  <2>4. QED
    BY Zenon, <1>2, <2>2, <2>3
<1>4. ASSUME UnderWay(p, c) PROVE Among(toClient', p, c)
  <2>1. PICK n \in 1 .. Len(toClient) : toClient[n].kind = p /\ toClient[n].sid = c
    BY Zenon, <1>4 DEF UnderWay, Among
  <2>2. n \in 1 .. Len(toClient') /\ toClient'[n].kind = p /\ toClient'[n].sid = c
    BY Zenon, <1>2, <2>1
  <2>3. QED
    BY Zenon, <2>2 DEF Among
<1>5. ASSUME m.kind = p /\ m.sid = c PROVE Among(toClient', p, c)
  BY Zenon, <1>2, <1>5 DEF Among
<1>6. QED
  BY Zenon, <1>3, <1>4, <1>5

(* A connection that the server opens.                                     *)
LEMMA SvOpenCalm ==
    ASSUME FwdInv, CalmParts, ~confused, SvOpen
    PROVE  CalmNext
<1>1. /\ nconns < MaxConns /\ nconns \in 0 .. MaxConns /\ MaxConns \in Nat
      /\ SlotPart /\ ChanPart /\ sv \in [Conns -> SvEnd]
  BY FwdAssumption DEF SvOpen, FwdInv, EndPart
<1>2. PICK c \in Conns : c = nconns + 1
  BY <1>1 DEF Conns
<1>3. c \notin 1 .. nconns /\ c > nconns
  BY <1>1, <1>2
<1>4. PICK m : m = Message("OPEN", 0, c)
  OBVIOUS
<1>5. m \in Packet /\ m.kind = "OPEN" /\ m.sid = c
  BY <1>1, <1>4 DEF Packet, Message, Kinds
<1>6. Send(m) /\ sv' = [sv EXCEPT ![c].st = "opening"]
  BY Zenon, <1>2, <1>4 DEF SvOpen
<1>7. slots' = slots /\ chans' = chans /\ confused' = confused
  BY Zenon, <1>6 DEF Send, fwd, ssh
<1>8. /\ \A s \in Conns : s # c => sv'[s] = sv[s]
      /\ sv'[c].gotEof = sv[c].gotEof
  BY <1>1, <1>6 DEF SvEnd
<1>9. ~sv'[c].gotEof
  <2>1. sv[c].st = "none"
    BY <1>3 DEF FwdInv, EndPart, EndShape
  <2>2. QED
    BY <1>8, <2>1 DEF CalmParts, EndCalm
<1>10. ~Made(c)
  BY Zenon, <1>1, <1>3, NotBegun DEF Made
<1>11. \A s : AnswersStay(s)
  <2>1. \A p \in { "CONFIRM", "FAIL" } : p # "OPEN"
    OBVIOUS
  <2>2. \A p, s : Among(toClient', p, s) <=> UnderWay(p, s) \/ (m.kind = p /\ m.sid = s)
    BY <1>5, <1>6, SentAnswers DEF FwdInv
  <2>3. QED
    BY Zenon, <1>5, <2>1, <2>2 DEF AnswersStay
<1>12. CalmParts'
  <2>1. \A s \in Conns : s # c => EndSame(s) /\ AnswersStay(s)
    BY Zenon, <1>8, <1>11 DEF EndSame
  <2>2. EndCalm(c)'
    BY Zenon, <1>9 DEF EndCalm
  <2>3. /\ \A k \in Conns : ~(chans[k].used /\ chans[k].conn = c)
        /\ \A i \in Conns : ~(Held(i) /\ slots[i].conn = c)
    BY Zenon, <1>10 DEF Made
  <2>4. QED
    BY Zenon, <1>7, <2>1, <2>2, <2>3, EndMovedCalm
<1>13. QED
  BY Zenon, <1>7, <1>12 DEF CalmNext

(* The server's answer.                                                    *)
LEMMA SvAnswerCalm ==
    ASSUME FwdInv, CalmParts, ~confused, NEW s \in Conns, SvAnswer(s)
    PROVE  CalmNext
<1>1. sv[s].st = "asked"
  BY Zenon DEF SvAnswer
<1>2. PICK p \in { "CONFIRM", "FAIL" } :
         /\ sv' = [sv EXCEPT ![s].st = IF p = "CONFIRM" THEN "open" ELSE "done"]
         /\ Send(Message(p, sv[s].cid, s))
  BY Zenon DEF SvAnswer
<1>3. sv \in [Conns -> SvEnd] /\ sv[s] \in SvEnd
  BY DEF FwdInv, EndPart
<1>4. PICK m : m = Message(p, sv[s].cid, s)
  OBVIOUS
<1>5. m \in Packet /\ m.kind = p /\ m.sid = s
  BY <1>3, <1>4 DEF Packet, Message, Kinds, SvEnd
<1>6. slots' = slots /\ chans' = chans /\ confused' = confused /\ Send(m)
  BY Zenon, <1>2, <1>4 DEF Send, fwd, ssh
<1>7. /\ \A d \in Conns : d # s => sv'[d] = sv[d]
      /\ sv'[s].st = (IF p = "CONFIRM" THEN "open" ELSE "done")
      /\ sv'[s].gotEof = sv[s].gotEof
  BY <1>2, <1>3 DEF SvEnd
<1>8. ~sv'[s].gotEof
  BY <1>1, <1>7 DEF CalmParts, EndCalm
<1>9. \A q, d : Among(toClient', q, d) <=> UnderWay(q, d) \/ (m.kind = q /\ m.sid = d)
  BY <1>5, <1>6, SentAnswers DEF FwdInv
<1>10. \A d \in Conns : d # s => EndSame(d) /\ AnswersStay(d)
  BY Zenon, <1>5, <1>7, <1>9 DEF EndSame, AnswersStay
<1>11. EndCalm(s)'
  BY Zenon, <1>8 DEF EndCalm
<1>12. ASSUME NEW k \in Conns, chans[k].used, chans[k].conn = s PROVE ChanCalm(k)'
  <2>1. chans[k].remote_id = NoId
    BY Zenon, <1>1, <1>12 DEF CalmParts, ChanCalm
  <2>2. \/ sv'[s].st = "open" /\ Among(toClient', "CONFIRM", s)
        \/ sv'[s].st = "done" /\ Among(toClient', "FAIL", s)
    <3>1. CASE p = "CONFIRM"
      BY Zenon, <1>5, <1>7, <1>9, <3>1
    <3>2. CASE p = "FAIL"
      <4>1. p # "CONFIRM"
        BY <3>2
      <4>2. QED
        BY Zenon, <1>5, <1>7, <1>9, <3>2, <4>1
    <3>3. QED
      BY <3>1, <3>2
  <2>3. QED
    BY Zenon, <1>6, <1>8, <1>12, <2>1, <2>2 DEF ChanCalm, UnderWay, Among
<1>13. ASSUME NEW i \in Conns, Held(i), Own(i), slots[i].conn = s PROVE SlotAgrees(i)'
  <2>1. SlotAgrees(i)
    BY Zenon, <1>13 DEF CalmParts, SlotCalm
  <2>2. ~Waiting(i)
    <3>1. Waiting(i) => sv[s].st = "opening"
      BY Zenon, <1>13, <2>1 DEF SlotAgrees
    <3>2. QED
      BY <1>1, <3>1
  <2>3. ASSUME Flowing(i), NEW k \in Conns, chans[k].used, chans[k].local = i PROVE FALSE
    <3>1. sv[s].st = "open"
      BY Zenon, <1>13, <2>1, <2>3 DEF SlotAgrees
    <3>2. QED
      BY <1>1, <3>1
  <2>4. QED
    BY Zenon, <1>6, <2>1, <2>2, <2>3 DEF SlotAgrees, Waiting, Flowing
<1>14. CalmParts'
  BY <1>6, <1>10, <1>11, <1>12, <1>13, EndMovedCalm
<1>15. QED
  BY Zenon, <1>6, <1>14 DEF CalmNext

(* The server's data, end of data, and close.                              *)
LEMMA SvSendCalm ==
    ASSUME FwdInv, CalmParts, ~confused, NEW s \in Conns, SvSend(s)
    PROVE  CalmNext
<1>1. PICK p \in { "DATA", "EOF", "CLOSE" } :
         /\ Send(Message(p, sv[s].cid, s))
         /\ \/ sv' = sv
            \/ sv' = [sv EXCEPT ![s].sentEof = TRUE]
            \/ sv' = [sv EXCEPT ![s].sentClose = TRUE]
  BY DEF SvSend
<1>2. sv \in [Conns -> SvEnd] /\ sv[s] \in SvEnd
  BY DEF FwdInv, EndPart
<1>3. PICK m : m = Message(p, sv[s].cid, s)
  OBVIOUS
<1>4. m \in Packet /\ m.kind = p /\ m.sid = s
  BY <1>2, <1>3 DEF Packet, Message, Kinds, SvEnd
<1>5. slots' = slots /\ chans' = chans /\ confused' = confused /\ Send(m)
  BY Zenon, <1>1, <1>3 DEF Send, fwd, ssh
<1>6. \A d \in Conns : sv'[d].st = sv[d].st /\ sv'[d].gotEof = sv[d].gotEof
  BY <1>1, <1>2 DEF SvEnd
<1>7. \A q, d : Among(toClient', q, d) <=> UnderWay(q, d) \/ (m.kind = q /\ m.sid = d)
  BY <1>4, <1>5, SentAnswers DEF FwdInv
<1>8. \A d : AnswersStay(d)
  <2>1. \A q \in { "CONFIRM", "FAIL" } : q # m.kind
    BY <1>4
  <2>2. QED
    BY Zenon, <1>7, <2>1 DEF AnswersStay
<1>9. \A d \in Conns : EndSame(d)
  BY Zenon, <1>6 DEF EndSame
<1>10. ASSUME NEW i \in Conns PROVE SlotGoesOn(i)
  <2>1. Held(i) => slots[i].conn \in Conns
    BY FwdAssumption DEF FwdInv, SlotPart, SlotShape, EndPart, Conns
  <2>2. QED
    BY Zenon, <1>5, <1>9, <2>1, SameSlotGoesOn
<1>11. CalmParts'
  BY Zenon, <1>5, <1>8, <1>9, <1>10, CalmKept DEF ChanStays, EndGoesOn
<1>12. QED
  BY Zenon, <1>5, <1>11 DEF CalmNext
-----------------------------------------------------------------------------
(* The theorem.                                                            *)

(* The program starts calm.                                                *)
LEMMA CalmInit ==
    ASSUME Init
    PROVE  CalmInv
<1>1. /\ slots = [i \in Conns |-> EmptySlot] /\ chans = [k \in Conns |-> EmptyChan]
      /\ sv = [s \in Conns |-> EmptyEnd] /\ confused = FALSE
  BY Zenon DEF Init
<1>2. EmptySlot.status = {} /\ EmptyChan.used = FALSE /\ EmptyEnd.gotEof = FALSE
  BY DEF EmptySlot, EmptyChan, EmptyEnd
<1>3. \A i \in Conns : SlotCalm(i)
  BY Zenon, <1>1, <1>2 DEF SlotCalm, Held
<1>4. \A k \in Conns : ChanCalm(k)
  BY Zenon, <1>1, <1>2 DEF ChanCalm
<1>5. \A s \in Conns : EndCalm(s)
  BY Zenon, <1>1, <1>2 DEF EndCalm
<1>6. QED
  BY Zenon, <1>1, <1>3, <1>4, <1>5 DEF CalmInv, CalmParts

(* Nothing happens when the server has hung up, and a second connect is    *)
(* remembered.                                                             *)
LEMMA OnlyWhileConnected ==
    ASSUME Next
    PROVE  ~confused /\ (reconnected => reconnected')
<1>1. CASE Sockets
  <2>1. ASSUME NEW rekeying \in BOOLEAN, accept_local_connection(rekeying)
        PROVE  ~confused /\ reconnected' = reconnected
    BY Zenon, <2>1 DEF accept_local_connection, Connected
  <2>2. getaddrinfo_thread => ~confused /\ reconnected' = reconnected
    BY Zenon DEF getaddrinfo_thread, Connected
  <2>3. GotName => ~confused /\ (reconnected => reconnected')
    <3> SUFFICES ASSUME GotName PROVE ~confused /\ (reconnected => reconnected')
      BY Zenon
    <3>2. reconnected' = (reconnected \/ \E i \in { j \in Conns : slots[j].request = "R" } :
                                            slots[i].addr # 0)
      BY Zenon DEF GotName
    <3>3. ~confused
      BY Zenon DEF GotName, Connected
    <3>4. QED
      BY <3>2, <3>3
  <2>4. ASSUME NEW i \in Conns PROVE FdConnect(i) => ~confused /\ reconnected' = reconnected
    BY Zenon DEF FdConnect, Connected
  <2>5. ASSUME NEW i \in Conns PROVE FdConnectError(i) => ~confused /\ reconnected' = reconnected
    BY Zenon DEF FdConnectError, Connected
  <2>6. ASSUME NEW i \in Conns, SocketEvent(i) PROVE ~confused /\ reconnected' = reconnected
    BY Zenon, <2>6 DEF SocketEvent, Connected
  <2>7. ASSUME NEW i \in Conns,
               FdRead(i) \/ FdWrite(i) \/ \E rekeying \in BOOLEAN : FdClose(i, rekeying)
        PROVE  SocketEvent(i)
    BY Zenon, <2>7 DEF FdRead, FdWrite, FdClose
  <2>8. \/ \E rekeying \in BOOLEAN : accept_local_connection(rekeying)
        \/ getaddrinfo_thread \/ GotName
        \/ \E i \in Conns : FdConnect(i) \/ FdConnectError(i) \/ SocketEvent(i)
    BY <1>1, <2>7 DEF Sockets
  <2>9. CASE \E rekeying \in BOOLEAN : accept_local_connection(rekeying)
    BY Zenon, <2>1, <2>9
  <2>10. CASE \E i \in Conns : FdConnect(i) \/ FdConnectError(i) \/ SocketEvent(i)
    BY Zenon, <2>4, <2>5, <2>6, <2>10
  <2>11. QED
    BY <2>2, <2>3, <2>8, <2>9, <2>10
<1>2. CASE Packets
  <2>1. PICK k : Arrives(k)
    BY Zenon, <1>2 DEF Packets, handle_SSH2_channel_open, handle_SSH2_open_confirm,
       handle_SSH2_open_failure, handle_SSH2_channel_data, handle_SSH2_channel_eof,
       handle_SSH2_channel_close
  <2>2. QED
    BY Zenon, <2>1 DEF Arrives, Connected
<1>3. CASE Server
  <2>1. PICK m : Send(m)
    BY Zenon, <1>3 DEF Server, SvOpen, SvAnswer, SvSend
  <2>2. QED
    BY Zenon, <2>1 DEF Send, Connected
<1>4. QED
  BY Zenon, <1>1, <1>2, <1>3 DEF Next

(* Every step out of calm stays calm, or strands a Channel_t.              *)
LEMMA CalmSteps ==
    ASSUME FwdInv, CalmParts, Next
    PROVE  CalmNext
<1>0. ~confused
  BY Zenon, OnlyWhileConnected
<1>1. CASE Sockets
  <2>1. ASSUME NEW rekeying \in BOOLEAN, accept_local_connection(rekeying) PROVE CalmNext
    BY Zenon, <1>0, <2>1, AcceptCalm
  <2>2. CASE getaddrinfo_thread
    BY Zenon, <1>0, <2>2, LookupThreadCalm
  <2>3. CASE GotName
    BY Zenon, <1>0, <2>3, GotNameCalm
  <2>4. ASSUME NEW i \in Conns, FdConnect(i) PROVE CalmNext
    BY Zenon, <1>0, <2>4, FdConnectCalm
  <2>5. ASSUME NEW i \in Conns, FdConnectError(i) PROVE CalmNext
    BY Zenon, <1>0, <2>5, FdConnectErrorCalm
  <2>6. ASSUME NEW i \in Conns, FdRead(i) PROVE CalmNext
    BY Zenon, <1>0, <2>6, FdReadCalm
  <2>7. ASSUME NEW i \in Conns, FdWrite(i) PROVE CalmNext
    BY Zenon, <1>0, <2>7, FdWriteCalm
  <2>8. ASSUME NEW i \in Conns, NEW rekeying \in BOOLEAN, FdClose(i, rekeying) PROVE CalmNext
    BY Zenon, <1>0, <2>8, FdCloseCalm
  <2>9. QED
    BY Zenon, <1>1, <2>1, <2>2, <2>3, <2>4, <2>5, <2>6, <2>7, <2>8 DEF Sockets
<1>2. CASE Packets
  <2>1. CASE handle_SSH2_channel_open
    BY Zenon, <1>0, <2>1, OpenCalm
  <2>2. CASE handle_SSH2_open_confirm
    BY Zenon, <1>0, <2>2, ConfirmCalm
  <2>3. CASE handle_SSH2_open_failure
    BY Zenon, <1>0, <2>3, FailCalm
  <2>4. CASE handle_SSH2_channel_data
    BY Zenon, <1>0, <2>4, DataCalm
  <2>5. CASE handle_SSH2_channel_eof
    BY Zenon, <1>0, <2>5, EofCalm
  <2>6. CASE handle_SSH2_channel_close
    BY Zenon, <1>0, <2>6, CloseCalm
  <2>7. QED
    BY Zenon, <1>2, <2>1, <2>2, <2>3, <2>4, <2>5, <2>6 DEF Packets
<1>3. CASE Server
  <2>1. CASE SvOpen
    BY Zenon, <1>0, <2>1, SvOpenCalm
  <2>2. ASSUME NEW s \in Conns, SvAnswer(s) PROVE CalmNext
    BY Zenon, <1>0, <2>2, SvAnswerCalm
  <2>3. ASSUME NEW s \in Conns, SvSend(s) PROVE CalmNext
    BY Zenon, <1>0, <2>3, SvSendCalm
  <2>4. QED
    BY Zenon, <1>3, <2>1, <2>2, <2>3 DEF Server
<1>4. QED
  BY Zenon, <1>1, <1>2, <1>3 DEF Next

(* Every step keeps the calm there is.                                     *)
LEMMA CalmStep ==
    ASSUME FwdInv, CalmInv, [Next]_vars
    PROVE  CalmInv'
<1>1. CASE Next
  <2>1. CASE reconnected
    BY Zenon, <1>1, <2>1, OnlyWhileConnected DEF CalmInv
  <2>2. CASE ~reconnected
    <3>1. CalmParts
      BY Zenon, <1>1, <2>2, OnlyWhileConnected DEF CalmInv
    <3>2. QED
      BY Zenon, <1>1, <3>1, CalmSteps DEF CalmInv, CalmNext
  <2>3. QED
    BY Zenon, <2>1, <2>2
<1>2. CASE UNCHANGED vars
  <2>1. /\ slots' = slots /\ chans' = chans /\ toClient' = toClient /\ sv' = sv
        /\ confused' = confused /\ reconnected' = reconnected
    BY Zenon, <1>2 DEF vars, fwd, ssh
  <2>2. CASE reconnected
    BY Zenon, <2>1, <2>2 DEF CalmInv
  <2>3. CASE ~reconnected /\ confused
    <3>1. Stranded # {}
      BY Zenon, <2>3 DEF CalmInv
    <3>2. PICK k \in Conns : chans[k].used /\ slots[chans[k].local].conn # chans[k].conn
      BY Zenon, <3>1 DEF Stranded
    <3>3. k \in Stranded'
      BY Zenon, <2>1, <3>2 DEF Stranded
    <3>4. QED
      BY Zenon, <2>1, <2>3, <3>3 DEF CalmInv
  <2>4. CASE ~reconnected /\ ~confused
    <3>1. CalmParts
      BY Zenon, <2>4 DEF CalmInv
    <3>2. \A k \in Conns : ChanStays(k) /\ AnswersStay(chans[k].conn)
      BY Zenon, <2>1, NoneTakenAnswers DEF ChanStays
    <3>3. CalmNext
      BY Zenon, <2>1, <2>4, <3>1, <3>2, QuietCalm
    <3>4. QED
      BY Zenon, <3>3 DEF CalmInv, CalmNext
  <2>5. QED
    BY Zenon, <2>2, <2>3, <2>4
<1>3. QED
  BY Zenon, <1>1, <1>2

(* CalmInv is invariant.                                                   *)
LEMMA CalmInvariant == Spec => []CalmInv
<1>1. Init => CalmInv
  BY Zenon, CalmInit
<1>2. FwdInv /\ CalmInv /\ [Next]_vars => CalmInv'
  BY Zenon, CalmStep
<1>3. QED
  BY <1>1, <1>2, FwdInvariant, PTL DEF Spec

(* As long as no Channel_t has lost its slot and no slot was connected     *)
(* twice, the search by a slot's number finds the Channel_t of the slot's  *)
(* connection, and the server can place every packet of the client's.      *)
THEOREM FwdSoundUnlessStranded == Spec => []SoundUnlessStranded
<1>1. FwdInv /\ CalmInv => SoundUnlessStranded
  <2> SUFFICES ASSUME CalmInv, Stranded = {}, ~reconnected
               PROVE  LookupIsRight /\ ~confused
    BY Zenon DEF SoundUnlessStranded
  <2>1. ~confused
    BY Zenon DEF CalmInv
  <2>2. ASSUME NEW i \in Conns, ChansOf(i) # {}
        PROVE  chans[local_channel_lookup(i)].conn = slots[i].conn
    <3>1. PICK k \in Conns : k = local_channel_lookup(i) /\ chans[k].used /\ chans[k].local = i
      BY Zenon, <2>2, LookupFinds
    <3>2. k \notin Stranded
      BY Zenon
    <3>3. slots[chans[k].local].conn = chans[k].conn
      BY Zenon, <3>1, <3>2 DEF Stranded
    <3>4. QED
      BY Zenon, <3>1, <3>3
  <2>3. QED
    BY Zenon, <2>1, <2>2 DEF LookupIsRight
<1>2. QED
  BY <1>1, FwdInvariant, CalmInvariant, PTL
=============================================================================
