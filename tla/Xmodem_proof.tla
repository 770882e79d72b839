---------------------------- MODULE Xmodem_proof ----------------------------
(***************************************************************************)
(* Proofs about Xmodem: what the variables hold, and that in a clean       *)
(* transfer the answers without numbers are matched with the right block.  *)
(***************************************************************************)
EXTENDS Xmodem, TLAPS

Modes == {"SOH", "BLK", "BLK2", "DATA"}

(* The records in TypeOK.                                                  *)
RSet ==
    [state : States, mode : Modes, pkt : Seq(Symbol),
     num : Nat, opt : Opts, nakMode : {"C", "NAK"},
     nakCount : -1 .. NakTries + CTries, can : 0 .. 2, in : Nat,
     busy : BOOLEAN, askCancel : BOOLEAN, success : BOOLEAN, file : Seq(Nat)]

SSet ==
    [state : States, opt : Opts, num : Nat, sent : Nat, out : Seq(Symbol),
     open : BOOLEAN, can : 0 .. 3, in : Nat, busy : BOOLEAN, flag : BOOLEAN,
     c43 : BOOLEAN, askCancel : BOOLEAN, success : BOOLEAN]

(* How the fields of the receiver go together: tries are left as long as   *)
(* it runs, it reads only what has arrived, and the packet is as long as   *)
(* its state says.                                                         *)
RShape(q) ==
    /\ q.nakCount = -1 => ~Running(q)
    /\ q.state = "flush" => q.in = 0 /\ ~q.busy /\ q.mode = "SOH"
    /\ q.state = "normal" /\ q.busy => q.in > 0
    /\ q.mode \in {"SOH", "BLK"} => q.pkt = << >>
    /\ Running(q) /\ q.mode = "BLK2" => Len(q.pkt) = 1
    /\ Running(q) /\ q.mode = "DATA" =>
          Len(q.pkt) > 1 /\ Byte(q.pkt[2]) + Byte(q.pkt[1]) = 255
    /\ q.success => q.state = "ended"

(* The same of the sender: a packet half written and answers read never    *)
(* go together.                                                            *)
SShape(q) ==
    /\ q.can = 3 => q.state = "ended"
    /\ q.state = "flush" => q.in = 0 /\ q.out = << >>
    /\ q.busy => q.state = "normal" /\ q.out = << >>
    /\ q.flag => q.busy
    /\ q.out # << >> => q.in = 0
    /\ q.success => q.state = "ended"

RTypes == r \in RSet /\ RShape(r) /\ toR \in Seq(Symbol) /\ r.in <= Len(toR)
STypes == s \in SSet /\ SShape(s) /\ toS \in Seq(Symbol) /\ s.in <= Len(toS)
HTypes == faults \in 0 .. MaxFaults /\ early \in 0 .. MaxEvents /\ misread \in BOOLEAN

XTypes == RTypes /\ STypes /\ HTypes
-----------------------------------------------------------------------------
(* Numbers and symbols.                                                    *)

LEMMA Tries == NakTries \in Nat /\ NakTries > 0 /\ CTries \in Nat /\ CTries > 0
BY TriesAssumption

LEMMA Mod == BlkMod \in Nat /\ BlkMod > 2 /\ \A n \in Nat : n % BlkMod \in Nat
<1>1. BlkMod \in Nat /\ BlkMod > 2
  BY NumbersAssumption
<1>2. QED
  BY <1>1

Words == {"SOH", "STX", "EOT", "CAN", "ACK", "NAK", "C", "noise"}

LEMMA CtlIsSymbol == \A c \in Words : Ctl(c) \in Symbol /\ Ctl(c).is = c
BY DEF Words, Ctl, Symbol

LEMMA CancelSymbols == Cancel \in Seq(Symbol) /\ Len(Cancel) = 5 /\ \A i \in 1 .. 5 : Cancel[i] = Ctl("CAN")
<1>1. Ctl("CAN") \in Symbol
  BY DEF Ctl, Symbol
<1>2. QED
  BY <1>1 DEF Cancel

(* One answer.                                                             *)
LEMMA OneSymbol ==
    ASSUME NEW c \in Words
    PROVE  << Ctl(c) >> \in Seq(Symbol) /\ Len(<< Ctl(c) >>) = 1
<1>1. Ctl(c) \in Symbol
  BY CtlIsSymbol
<1>2. QED
  BY <1>1

LEMMA CheckSymbols ==
    ASSUME NEW opt \in Opts, NEW n \in Nat
    PROVE  /\ CheckOf(opt, n) \in Seq(Symbol) /\ Len(CheckOf(opt, n)) = CheckLen(opt)
           /\ \A i \in 1 .. Len(CheckOf(opt, n)) : CheckOf(opt, n)[i].is \in {"sum", "hi", "lo"}
<1>1. /\ [is |-> "sum", n |-> n] \in Symbol
      /\ [is |-> "hi", n |-> n] \in Symbol /\ [is |-> "lo", n |-> n] \in Symbol
  BY DEF Symbol
<1>2. QED
  BY <1>1 DEF CheckOf, CheckLen

(* A packet, symbol by symbol.                                             *)
LEMMA PacketSymbols ==
    ASSUME NEW opt \in Opts, NEW n \in Nat
    PROVE  /\ Packet(opt, n) \in Seq(Symbol) /\ Len(Packet(opt, n)) = 4 + CheckLen(opt)
           /\ Packet(opt, n)[1].is \in {"SOH", "STX"}
           /\ Packet(opt, n)[2] = [is |-> "blk", n |-> n % BlkMod]
           /\ Packet(opt, n)[3] = [is |-> "com", n |-> n % BlkMod]
           /\ Packet(opt, n)[4] = [is |-> "data", n |-> n]
           /\ \A i \in 5 .. 4 + CheckLen(opt) : Packet(opt, n)[i].is \in {"sum", "hi", "lo"}
<1> DEFINE h == Ctl(IF Long(opt) THEN "STX" ELSE "SOH")
           b == [is |-> "blk", n |-> n % BlkMod]
           c == [is |-> "com", n |-> n % BlkMod]
           d == [is |-> "data", n |-> n]
           k == CheckOf(opt, n)
<1>1. h \in Symbol /\ h.is \in {"SOH", "STX"}
  BY DEF Ctl, Symbol
<1>2. b \in Symbol /\ c \in Symbol /\ d \in Symbol
  BY Mod DEF Symbol
<1>3. /\ k \in Seq(Symbol) /\ Len(k) = CheckLen(opt)
      /\ \A i \in 1 .. Len(k) : k[i].is \in {"sum", "hi", "lo"}
  BY CheckSymbols
<1>4. CheckLen(opt) \in {1, 2}
  BY DEF CheckLen
<1>5. Packet(opt, n) = << h, b, c, d >> \o k
  BY Zenon DEF Packet
<1> HIDE DEF h, b, c, d, k
<1>6. PICK p : p = << h, b, c, d >> \o k
  OBVIOUS
<1>7. /\ p \in Seq(Symbol) /\ Len(p) = 4 + CheckLen(opt)
      /\ p[1] = h /\ p[2] = b /\ p[3] = c /\ p[4] = d
  BY <1>1, <1>2, <1>3, <1>4, <1>6
<1>8. ASSUME NEW i \in 5 .. 4 + CheckLen(opt)
      PROVE  p[i].is \in {"sum", "hi", "lo"}
  <2>1. i - 4 \in 1 .. Len(k) /\ p[i] = k[i - 4]
    BY <1>1, <1>2, <1>3, <1>4, <1>6
  <2>2. QED
    BY <1>3, <2>1
<1>9. QED
  BY Zenon, <1>1, <1>5, <1>6, <1>7, <1>8 DEF b, c, d
-----------------------------------------------------------------------------
(* What the updates of the records leave.                                  *)

(* Fields that only the named parts of the receiver change.                *)
RSame(p, q) ==
    /\ p.num = q.num /\ p.file = q.file /\ p.success = q.success
    /\ p.askCancel = q.askCancel

RMove(q, k) ==
    [q EXCEPT !.in = k, !.busy = TRUE]

RMoved(p, q, k) ==
    /\ p \in RSet /\ RSame(p, q) /\ p.in = k /\ p.busy
    /\ p.state = q.state /\ p.mode = q.mode /\ p.pkt = q.pkt
    /\ p.nakCount = q.nakCount /\ p.nakMode = q.nakMode /\ p.opt = q.opt /\ p.can = q.can

LEMMA RMoveFields ==
    ASSUME NEW q \in RSet, NEW k \in Nat,
           NEW p, p = RMove(q, k)
    PROVE  RMoved(p, q, k)
BY DEF RSet, RSame, RMove, RMoved

RRest(q, k) ==
    [q EXCEPT !.in = k, !.busy = FALSE]

RRested(p, q, k) ==
    /\ p \in RSet /\ RSame(p, q) /\ p.in = k /\ ~p.busy
    /\ p.state = q.state /\ p.mode = q.mode /\ p.pkt = q.pkt
    /\ p.nakCount = q.nakCount /\ p.nakMode = q.nakMode /\ p.opt = q.opt /\ p.can = q.can

LEMMA RRestFields ==
    ASSUME NEW q \in RSet, NEW k \in Nat,
           NEW p, p = RRest(q, k)
    PROVE  RRested(p, q, k)
BY DEF RSet, RSame, RRest, RRested

RIdle(q) ==
    [q EXCEPT !.busy = FALSE]

LEMMA RIdleFields ==
    ASSUME NEW q \in RSet,
           NEW p, p = RIdle(q)
    PROVE  /\ p \in RSet /\ RSame(p, q) /\ p.in = q.in /\ ~p.busy
           /\ p.state = q.state /\ p.mode = q.mode /\ p.pkt = q.pkt
           /\ p.nakCount = q.nakCount
BY DEF RSet, RSame, RIdle

RTurn(q, m, u) ==
    [q EXCEPT !.mode = m, !.pkt = u]

LEMMA RTurnFields ==
    ASSUME NEW q \in RSet, NEW m \in Modes, NEW u \in Seq(Symbol),
           NEW p, p = RTurn(q, m, u)
    PROVE  /\ p \in RSet /\ RSame(p, q) /\ p.in = q.in /\ p.busy = q.busy
           /\ p.state = q.state /\ p.mode = m /\ p.pkt = u
           /\ p.nakCount = q.nakCount /\ p.nakMode = q.nakMode /\ p.opt = q.opt /\ p.can = q.can
BY DEF RSet, RSame, RTurn

RHead(q, c, m, z) ==
    [q EXCEPT !.mode = m, !.can = z, !.opt = c]

LEMMA RHeadFields ==
    ASSUME NEW q \in RSet, NEW c \in Opts, NEW m \in Modes, NEW z \in 0 .. 2,
           NEW p, p = RHead(q, c, m, z)
    PROVE  /\ p \in RSet /\ RSame(p, q) /\ p.in = q.in /\ p.busy = q.busy
           /\ p.state = q.state /\ p.mode = m /\ p.pkt = q.pkt
           /\ p.nakCount = q.nakCount
BY DEF RSet, RSame, Modes, RHead

RCan(q, c) ==
    [q EXCEPT !.can = c]

LEMMA RCanFields ==
    ASSUME NEW q \in RSet, NEW c \in 0 .. 2,
           NEW p, p = RCan(q, c)
    PROVE  /\ p \in RSet /\ RSame(p, q) /\ p.in = q.in /\ p.busy = q.busy
           /\ p.state = q.state /\ p.mode = q.mode /\ p.pkt = q.pkt
           /\ p.nakCount = q.nakCount
BY DEF RSet, RSame, RCan

RState(q, st) ==
    [q EXCEPT !.state = st]

LEMMA RStateFields ==
    ASSUME NEW q \in RSet, NEW st \in States,
           NEW p, p = RState(q, st)
    PROVE  /\ p \in RSet /\ RSame(p, q) /\ p.in = q.in /\ p.busy = q.busy
           /\ p.state = st /\ p.mode = q.mode /\ p.pkt = q.pkt
           /\ p.nakCount = q.nakCount
BY DEF RSet, RSame, RState

RStop(q, g, u) ==
    [q EXCEPT !.state = "ended", !.success = g, !.in = 0, !.pkt = u]

LEMMA RStopFields ==
    ASSUME NEW q \in RSet, NEW g \in BOOLEAN, NEW u \in Seq(Symbol),
           NEW p, p = RStop(q, g, u)
    PROVE  /\ p \in RSet /\ p.num = q.num /\ p.file = q.file /\ p.success = g
           /\ p.state = "ended" /\ p.mode = q.mode /\ p.pkt = u /\ p.in = 0
           /\ p.nakCount = q.nakCount
BY DEF RSet, States, RStop

RFlushed(q, k, u) ==
    [q EXCEPT !.in = 0, !.pkt = u, !.nakCount = k]

LEMMA RFlushedFields ==
    ASSUME NEW q \in RSet, NEW k \in -1 .. NakTries + CTries, NEW u \in Seq(Symbol),
           NEW p, p = RFlushed(q, k, u)
    PROVE  /\ p \in RSet /\ RSame(p, q) /\ p.in = 0 /\ p.busy = q.busy
           /\ p.state = q.state /\ p.mode = q.mode /\ p.pkt = u
           /\ p.nakCount = k /\ p.nakMode = q.nakMode
BY DEF RSet, RSame, RFlushed

RFallBack(q, k) ==
    [q EXCEPT !.mode = "SOH", !.nakMode = "NAK",
     !.nakCount = k, !.opt = "Check"]

LEMMA RFallBackFields ==
    ASSUME NEW q \in RSet, NEW k \in -1 .. NakTries + CTries,
           NEW p, p = RFallBack(q, k)
    PROVE  /\ p \in RSet /\ RSame(p, q) /\ p.in = q.in /\ p.busy = q.busy
           /\ p.state = q.state /\ p.mode = "SOH" /\ p.pkt = q.pkt
           /\ p.nakCount = k
BY DEF RSet, RSame, Modes, Opts, Checksum, RFallBack

RCount(q, k) ==
    [q EXCEPT !.nakCount = k]

LEMMA RCountFields ==
    ASSUME NEW q \in RSet, NEW k \in -1 .. NakTries + CTries,
           NEW p, p = RCount(q, k)
    PROVE  /\ p \in RSet /\ RSame(p, q) /\ p.in = q.in /\ p.busy = q.busy
           /\ p.state = q.state /\ p.mode = q.mode /\ p.pkt = q.pkt
           /\ p.nakCount = k /\ p.nakMode = q.nakMode
BY DEF RSet, RSame, RCount

RStore(q, k, n, f) ==
    [q EXCEPT !.nakMode = "NAK", !.nakCount = k, !.num = n, !.file = f]

RStored(p, q, k, n, f) ==
    /\ p \in RSet /\ p.num = n /\ p.file = f /\ p.success = q.success
    /\ p.askCancel = q.askCancel /\ p.in = q.in /\ p.busy = q.busy
    /\ p.state = q.state /\ p.mode = q.mode /\ p.pkt = q.pkt
    /\ p.nakCount = k

LEMMA RStoreFields ==
    ASSUME NEW q \in RSet, NEW k \in -1 .. NakTries + CTries, NEW n \in Nat, NEW f \in Seq(Nat),
           NEW p, p = RStore(q, k, n, f)
    PROVE  RStored(p, q, k, n, f)
BY DEF RSet, RStore, RStored

RAsk(q) ==
    [q EXCEPT !.state = "canceled", !.askCancel = TRUE]

LEMMA RAskFields ==
    ASSUME NEW q \in RSet,
           NEW p, p = RAsk(q)
    PROVE  /\ p \in RSet /\ p.num = q.num /\ p.file = q.file /\ p.success = q.success
           /\ p.in = q.in /\ p.busy = q.busy
           /\ p.state = "canceled" /\ p.mode = q.mode /\ p.pkt = q.pkt
           /\ p.nakCount = q.nakCount
BY DEF RSet, States, RAsk

RPut(q, u) ==
    [q EXCEPT !.pkt = u]

LEMMA RPutFields ==
    ASSUME NEW q \in RSet, NEW u \in Seq(Symbol),
           NEW p, p = RPut(q, u)
    PROVE  /\ p \in RSet /\ RSame(p, q) /\ p.in = q.in /\ p.busy = q.busy
           /\ p.state = q.state /\ p.mode = q.mode /\ p.pkt = u /\ p.nakCount = q.nakCount
BY DEF RSet, RSame, RPut

RTaken(q, k, u) ==
    [q EXCEPT !.in = k, !.busy = FALSE, !.mode = "SOH", !.pkt = u]

RTook(p, q, k, u) ==
    /\ p \in RSet /\ RSame(p, q) /\ p.in = k /\ ~p.busy
    /\ p.state = q.state /\ p.mode = "SOH" /\ p.pkt = u
    /\ p.nakCount = q.nakCount /\ p.nakMode = q.nakMode

LEMMA RTakenFields ==
    ASSUME NEW q \in RSet, NEW k \in Nat, NEW u \in Seq(Symbol),
           NEW p, p = RTaken(q, k, u)
    PROVE  RTook(p, q, k, u)
BY DEF RSet, RSame, RTaken, Modes, RTook

(* The same of the sender.                                                 *)
SSame(p, q) == p.num = q.num /\ p.sent = q.sent /\ p.open = q.open /\ p.success = q.success

SMove(q, k) ==
    [q EXCEPT !.in = k, !.busy = TRUE]

SMoved(p, q, k) ==
    /\ p \in SSet /\ SSame(p, q) /\ p.in = k /\ p.busy
    /\ p.state = q.state /\ p.out = q.out /\ p.can = q.can /\ p.flag = q.flag

LEMMA SMoveFields ==
    ASSUME NEW q \in SSet, NEW k \in Nat, NEW p, p = SMove(q, k)
    PROVE  SMoved(p, q, k)
BY DEF SSet, SSame, States, SMove, SMoved

STake(q, k, c) ==
    [q EXCEPT !.in = k, !.can = c]

STook(p, q, k, c) ==
    /\ p \in SSet /\ SSame(p, q) /\ p.in = k /\ p.can = c
    /\ p.state = q.state /\ p.out = q.out /\ p.busy = q.busy /\ p.flag = q.flag
    /\ p.opt = q.opt

LEMMA STakeFields ==
    ASSUME NEW q \in SSet, NEW k \in Nat, NEW c \in 0 .. 3, NEW p, p = STake(q, k, c)
    PROVE  STook(p, q, k, c)
BY DEF SSet, SSame, States, STake, STook

SAck(q, n) ==
    [q EXCEPT !.num = n, !.flag = TRUE]

SAcked(p, q, n) ==
    /\ p \in SSet /\ p.num = n /\ p.sent = q.sent /\ p.open = q.open
    /\ p.success = q.success /\ p.in = q.in /\ p.can = q.can
    /\ p.state = q.state /\ p.out = q.out /\ p.busy = q.busy /\ p.flag

LEMMA SAckFields ==
    ASSUME NEW q \in SSet, NEW n \in Nat, NEW p, p = SAck(q, n)
    PROVE  SAcked(p, q, n)
BY DEF SSet, SSame, States, SAck, SAcked

SNak(q, o) ==
    [q EXCEPT !.flag = TRUE, !.opt = o]

SNaked(p, q, o) ==
    /\ p \in SSet /\ SSame(p, q) /\ p.in = q.in /\ p.can = q.can
    /\ p.state = q.state /\ p.out = q.out /\ p.busy = q.busy /\ p.flag

LEMMA SNakFields ==
    ASSUME NEW q \in SSet, NEW o \in Opts, NEW p, p = SNak(q, o)
    PROVE  SNaked(p, q, o)
BY DEF SSet, SSame, States, SNak, SNaked

SCee(q, o) ==
    [q EXCEPT !.opt = o, !.flag = TRUE, !.c43 = TRUE]

SCeed(p, q, o) ==
    /\ p \in SSet /\ SSame(p, q) /\ p.in = q.in /\ p.can = q.can
    /\ p.state = q.state /\ p.out = q.out /\ p.busy = q.busy /\ p.flag

LEMMA SCeeFields ==
    ASSUME NEW q \in SSet, NEW o \in Opts, NEW p, p = SCee(q, o)
    PROVE  SCeed(p, q, o)
BY DEF SSet, SSame, States, SCee, SCeed

SNumber(q, n, o) ==
    [q EXCEPT !.sent = n, !.open = o]

SNumbered(p, q, n, o) ==
    /\ p \in SSet /\ p.num = q.num /\ p.sent = n /\ p.open = o
    /\ p.success = q.success /\ p.in = q.in /\ p.can = q.can
    /\ p.state = q.state /\ p.out = q.out /\ p.busy = q.busy /\ p.flag = q.flag

LEMMA SNumberFields ==
    ASSUME NEW q \in SSet, NEW n \in Nat, NEW o \in BOOLEAN, NEW p, p = SNumber(q, n, o)
    PROVE  SNumbered(p, q, n, o)
BY DEF SSet, SSame, States, SNumber, SNumbered

SWritten(q, u) ==
    [q EXCEPT !.out = u, !.busy = FALSE, !.flag = FALSE, !.c43 = FALSE]

SWrote(p, q, u) ==
    /\ p \in SSet /\ SSame(p, q) /\ p.in = q.in /\ p.can = q.can
    /\ p.state = q.state /\ p.out = u /\ ~p.busy /\ ~p.flag

LEMMA SWrittenFields ==
    ASSUME NEW q \in SSet, NEW u \in Seq(Symbol), NEW p, p = SWritten(q, u)
    PROVE  SWrote(p, q, u)
BY DEF SSet, SSame, States, SWritten, SWrote

SIdle(q) ==
    [q EXCEPT !.busy = FALSE, !.c43 = FALSE]

SIdled(p, q) ==
    /\ p \in SSet /\ SSame(p, q) /\ p.in = q.in /\ p.can = q.can
    /\ p.state = q.state /\ p.out = q.out /\ ~p.busy /\ p.flag = q.flag

LEMMA SIdleFields ==
    ASSUME NEW q \in SSet, NEW p, p = SIdle(q)
    PROVE  SIdled(p, q)
BY DEF SSet, SSame, States, SIdle, SIdled

SAsk(q) ==
    [q EXCEPT !.askCancel = TRUE]

SAsked(p, q) ==
    /\ p \in SSet /\ SSame(p, q) /\ p.in = q.in /\ p.can = q.can
    /\ p.state = q.state /\ p.out = q.out /\ p.busy = q.busy /\ p.flag = q.flag

LEMMA SAskFields ==
    ASSUME NEW q \in SSet, NEW p, p = SAsk(q)
    PROVE  SAsked(p, q)
BY DEF SSet, SSame, States, SAsk, SAsked

SQuit(q) ==
    [q EXCEPT !.state = "canceled", !.busy = FALSE, !.flag = FALSE, !.c43 = FALSE]

SQuitted(p, q) ==
    /\ p \in SSet /\ SSame(p, q) /\ p.in = q.in /\ p.can = q.can
    /\ p.state = "canceled" /\ p.out = q.out /\ ~p.busy /\ ~p.flag

LEMMA SQuitFields ==
    ASSUME NEW q \in SSet, NEW p, p = SQuit(q)
    PROVE  SQuitted(p, q)
BY DEF SSet, SSame, States, SQuit, SQuitted

SState(q, st) ==
    [q EXCEPT !.state = st]

SStated(p, q, st) ==
    /\ p \in SSet /\ SSame(p, q) /\ p.in = q.in /\ p.can = q.can
    /\ p.state = st /\ p.out = q.out /\ p.busy = q.busy /\ p.flag = q.flag

LEMMA SStateFields ==
    ASSUME NEW q \in SSet, NEW st \in States, NEW p, p = SState(q, st)
    PROVE  SStated(p, q, st)
BY DEF SSet, SSame, States, SState, SStated

SStop(q, g, u) ==
    [q EXCEPT !.state = "ended", !.success = g, !.in = 0, !.out = u,
              !.busy = FALSE, !.flag = FALSE, !.c43 = FALSE]

SStopped(p, q, g, u) ==
    /\ p \in SSet /\ p.num = q.num /\ p.sent = q.sent /\ p.open = q.open
    /\ p.success = g /\ p.in = 0 /\ p.can = q.can
    /\ p.state = "ended" /\ p.out = u /\ ~p.busy /\ ~p.flag

LEMMA SStopFields ==
    ASSUME NEW q \in SSet, NEW g \in BOOLEAN, NEW u \in Seq(Symbol),
           NEW p, p = SStop(q, g, u)
    PROVE  SStopped(p, q, g, u)
BY DEF SSet, SSame, States, SStop, SStopped
-----------------------------------------------------------------------------
(* The line.                                                               *)

(* p is q without its first k symbols.                                     *)
Shifted(q, p, k) == Len(p) = Len(q) - k /\ \A j \in 1 .. Len(p) : p[j] = q[j + k]

LEMMA DropShifts ==
    ASSUME NEW q \in Seq(Symbol), NEW k \in 0 .. Len(q)
    PROVE  Drop(q, k) \in Seq(Symbol) /\ Len(Drop(q, k)) = Len(q) - k /\ Shifted(q, Drop(q, k), k)
BY DEF Drop, Shifted

LEMMA TailShifts ==
    ASSUME NEW q \in Seq(Symbol), q # << >>
    PROVE  /\ Tail(q) \in Seq(Symbol) /\ Len(Tail(q)) = Len(q) - 1 /\ Shifted(q, Tail(q), 1)
           /\ Head(q) \in Symbol /\ Head(q) = q[1] /\ Len(q) \in Nat /\ Len(q) > 0
BY DEF Shifted

LEMMA StayShifts ==
    ASSUME NEW q \in Seq(Symbol)
    PROVE  Shifted(q, q, 0)
BY DEF Shifted

LEMMA ShiftTwice ==
    ASSUME NEW q \in Seq(Symbol), NEW p \in Seq(Symbol), NEW o \in Seq(Symbol),
           NEW a \in Nat, NEW b \in Nat, Shifted(q, p, a), Shifted(p, o, b)
    PROVE  Shifted(q, o, a + b)
<1>1. Len(o) = Len(q) - (a + b)
  BY DEF Shifted
<1>2. ASSUME NEW j \in 1 .. Len(o)
      PROVE  o[j] = q[j + (a + b)]
  <2>1. j + b \in 1 .. Len(p) /\ o[j] = p[j + b]
    BY DEF Shifted
  <2>2. p[j + b] = q[(j + b) + a]
    BY <2>1 DEF Shifted
  <2>3. (j + b) + a = j + (a + b)
    OBVIOUS
  <2>4. QED
    BY Zenon, <2>1, <2>2, <2>3
<1>3. QED
  BY Zenon, <1>1, <1>2 DEF Shifted

LEMMA Longer ==
    ASSUME NEW m \in Seq(Symbol), NEW k \in Nat, NEW o \in Seq(Symbol), k <= Len(o)
    PROVE  o \o m \in Seq(Symbol) /\ k <= Len(o \o m) /\ Len(o \o m) = Len(o) + Len(m)
OBVIOUS

(* What is sent is put behind the line, or lost at a peer that has ended.  *)
LEMMA Sent ==
    ASSUME STypes, NEW m \in Seq(Symbol), toS' = ToSender(m), s' = s
    PROVE  STypes'
<1>1. s \in SSet /\ SShape(s) /\ toS \in Seq(Symbol) /\ s.in <= Len(toS)
  BY Zenon DEF STypes
<1>2. toS' = toS \/ toS' = toS \o m
  BY Zenon DEF ToSender
<1>3. s.in \in Nat
  BY <1>1 DEF SSet
<1>4. toS' \in Seq(Symbol) /\ s.in <= Len(toS')
  <2>1. PICK k : k = s.in
    OBVIOUS
  <2>2. k \in Nat /\ k <= Len(toS)
    BY Zenon, <1>1, <1>3, <2>1
  <2>3. toS \in Seq(Symbol) /\ m \in Seq(Symbol)
    BY Zenon, <1>1
  <2>4. \A o \in Seq(Symbol) : k <= Len(o) => o \o m \in Seq(Symbol) /\ k <= Len(o \o m)
    BY <2>2, Longer
  <2>5. QED
    BY Zenon, <1>2, <2>1, <2>2, <2>3, <2>4
<1>5. QED
  BY Zenon, <1>1, <1>4 DEF STypes

LEMMA Received ==
    ASSUME RTypes, NEW m \in Seq(Symbol), toR' = ToReceiver(m), r' = r
    PROVE  RTypes'
<1>1. r \in RSet /\ RShape(r) /\ toR \in Seq(Symbol) /\ r.in <= Len(toR)
  BY Zenon DEF RTypes
<1>2. toR' = toR \/ toR' = toR \o m
  BY Zenon DEF ToReceiver
<1>3. r.in \in Nat
  BY <1>1 DEF RSet
<1>4. toR' \in Seq(Symbol) /\ r.in <= Len(toR')
  <2>1. PICK k : k = r.in
    OBVIOUS
  <2>2. k \in Nat /\ k <= Len(toR)
    BY Zenon, <1>1, <1>3, <2>1
  <2>3. toR \in Seq(Symbol) /\ m \in Seq(Symbol)
    BY Zenon, <1>1
  <2>4. \A o \in Seq(Symbol) : k <= Len(o) => o \o m \in Seq(Symbol) /\ k <= Len(o \o m)
    BY <2>2, Longer
  <2>5. QED
    BY Zenon, <1>2, <2>1, <2>2, <2>3, <2>4
<1>5. QED
  BY Zenon, <1>1, <1>4 DEF RTypes
-----------------------------------------------------------------------------
(* What a step of the receiver is, seen from the line.                     *)

(* It drops what stands in front of the next packet.                       *)
RDrops ==
    /\ RSame(r', r) /\ r'.mode = r.mode /\ r'.pkt = r.pkt /\ toS' = toS
    /\ Running(r') => Running(r)
    /\ \E k \in Nat : Shifted(toR, toR', k) /\ (k # 0 => r.mode = "SOH")

(* It meets the head of a packet.                                          *)
RMeets ==
    /\ RSame(r', r) /\ Running(r) /\ r.mode = "SOH" /\ r'.mode = "BLK" /\ r'.pkt = << >>
    /\ toS' = toS /\ toR # << >> /\ toR' = Tail(toR)
    /\ misread' \/ toR[1].is \in {"SOH", "STX"}

(* It takes the next byte of a packet.                                     *)
RTakes ==
    /\ RSame(r', r) /\ Running(r) /\ r.mode # "SOH" /\ r'.mode # "SOH"
    /\ toS' = toS /\ toR # << >> /\ toR' = Tail(toR) /\ r'.pkt = Append(r.pkt, toR[1])

(* It asks for the packet again.                                           *)
RDenies ==
    /\ RSame(r', r) /\ Running(r) /\ r'.mode = "SOH"
    /\ \E k \in Nat : Shifted(toR, toR', k)
    /\ \E c \in {"C", "NAK"} : toS' = ToSender(<< Ctl(c) >>)
    /\ r.mode # "SOH" \/ Quiet \/ early' # 0

(* It ends without success.                                                *)
RGivesUp ==
    /\ ~Running(r') /\ r'.num = r.num /\ r'.file = r.file /\ ~r'.success /\ ~r.success
    /\ toS' = toS \/ toS' = ToSender(Cancel)

(* It ends with the file.                                                  *)
RFinishes ==
    /\ Running(r) /\ ~Running(r') /\ r'.num = r.num /\ r'.file = r.file /\ r'.success
    /\ r.mode = "SOH" /\ toR # << >> /\ (misread' \/ toR[1].is = "EOT")
    /\ toS' = ToSender(<< Ctl("ACK") >>)

(* It has a packet whose check is right.                                   *)
RAccepts ==
    /\ Running(r) /\ r.mode = "DATA" /\ r'.mode = "SOH" /\ r'.success = r.success
    /\ \E k \in Nat : Shifted(toR, toR', k)
    /\ toS' = ToSender(<< Ctl("ACK") >>) /\ toR # << >>
    /\ \E p \in Seq(Symbol), d \in {0, 1} :
          /\ p = Append(r.pkt, toR[1]) /\ Len(p) > 3 /\ p[3].is = "data"
          /\ d = (Byte(p[1]) - r.num) % BlkMod
          /\ r'.num = r.num + d
          /\ r'.file = IF d = 0 THEN r.file ELSE Append(r.file, p[3].n)

RStep == RDrops \/ RMeets \/ RTakes \/ RDenies \/ RGivesUp \/ RFinishes \/ RAccepts

(* The step of the receiver proper, with what it leaves.                   *)
RDone == RTypes' /\ STypes' /\ RStep

(* The answers XSendNAK gives.                                             *)
LEMMA NakStep ==
    ASSUME NEW q \in RSet, NEW line \in Seq(Symbol), q.in <= Len(line), q.nakCount # -1,
           Running(q), ~q.busy, ~q.success, XSendNAK(q, line)
    PROVE  /\ r' \in RSet /\ RShape(r') /\ RSame(r', q) /\ r'.in = 0
           /\ toR' \in Seq(Symbol) /\ Shifted(line, toR', q.in)
           /\ \/ /\ r'.mode = "SOH"
                 /\ \E c \in {"C", "NAK"} : toS' = ToSender(<< Ctl(c) >>)
              \/ ~Running(r') /\ toS' = ToSender(Cancel)
<1> DEFINE left == q.nakCount - 1
           f == [q EXCEPT !.in = 0, !.pkt = << >>, !.nakCount = left]
<1>1. /\ q.nakCount \in -1 .. NakTries + CTries /\ q.in \in Nat /\ q.nakMode \in {"C", "NAK"}
      /\ q.in \in 0 .. Len(line)
  BY DEF RSet
<1>2. left \in -1 .. NakTries + CTries /\ (left < 0 => left = -1) /\ << >> \in Seq(Symbol)
  BY <1>1, Tries
<1>3. /\ toR' = Drop(line, q.in)
      /\ \/ /\ left >= 0
            /\ r' = [f EXCEPT !.mode = "SOH"]
            /\ toS' = ToSender(<< Ctl(q.nakMode) >>)
         \/ /\ left < 0 /\ q.nakMode = "C"
            /\ r' = [f EXCEPT !.mode = "SOH", !.nakMode = "NAK",
                              !.nakCount = NakTries - 1, !.opt = "Check"]
            /\ toS' = ToSender(<< Ctl("NAK") >>)
         \/ /\ left < 0 /\ q.nakMode = "NAK"
            /\ r' = [f EXCEPT !.state = "canceled"]
            /\ toS' = ToSender(Cancel)
  BY Zenon DEF XSendNAK
<1>4. PICK k, u : k = left /\ u = << >>
  OBVIOUS
<1>5. f = RFlushed(q, k, u)
  BY Zenon, <1>4 DEF RFlushed
<1>6. k \in -1 .. NakTries + CTries /\ u \in Seq(Symbol)
  BY Zenon, <1>2, <1>4
<1> HIDE DEF f
<1>7. /\ f \in RSet /\ RSame(f, q) /\ f.in = 0 /\ f.busy = q.busy
      /\ f.state = q.state /\ f.mode = q.mode /\ f.pkt = u
      /\ f.nakCount = k /\ f.nakMode = q.nakMode
  BY <1>5, <1>6, RFlushedFields
<1>8. toR' \in Seq(Symbol) /\ Shifted(line, toR', q.in)
  BY <1>1, <1>3, DropShifts
<1>9. CASE left >= 0 /\ r' = [f EXCEPT !.mode = "SOH"] /\ toS' = ToSender(<< Ctl(q.nakMode) >>)
  <2>1. "SOH" \in Modes
    BY DEF Modes
  <2>2. r' = RTurn(f, "SOH", u)
    BY <1>7, <1>9 DEF RSet, RTurn
  <2>3. /\ r' \in RSet /\ RSame(r', f) /\ r'.in = 0 /\ r'.busy = q.busy
        /\ r'.state = q.state /\ r'.mode = "SOH" /\ r'.pkt = u /\ r'.nakCount = k
    BY <1>6, <1>7, <2>1, <2>2, RTurnFields
  <2>4. RSame(r', q)
    BY Zenon, <1>7, <2>3 DEF RSame
  <2>5. k # -1
    BY <1>4, <1>6, <1>9
  <2>6. RShape(r')
    BY <1>4, <1>6, <2>3, <2>4, <2>5 DEF RShape, RSame, Running
  <2>7. QED
    BY Zenon, <1>1, <1>8, <1>9, <2>3, <2>4, <2>6
<1>10. CASE /\ left < 0 /\ q.nakMode = "C" /\ toS' = ToSender(<< Ctl("NAK") >>)
            /\ r' = [f EXCEPT !.mode = "SOH", !.nakMode = "NAK",
                              !.nakCount = NakTries - 1, !.opt = "Check"]
  <2>1. PICK n : n = NakTries - 1
    OBVIOUS
  <2>2. n \in -1 .. NakTries + CTries /\ n # -1
    BY <2>1, Tries
  <2>3. r' = RFallBack(f, n)
    BY Zenon, <1>10, <2>1 DEF RFallBack
  <2>4. /\ r' \in RSet /\ RSame(r', f) /\ r'.in = f.in /\ r'.busy = f.busy
        /\ r'.state = f.state /\ r'.mode = "SOH" /\ r'.pkt = f.pkt /\ r'.nakCount = n
    BY <1>7, <2>2, <2>3, RFallBackFields
  <2>5. RSame(r', q)
    BY Zenon, <1>7, <2>4 DEF RSame
  <2>6. RShape(r')
    BY <1>4, <1>6, <1>7, <2>2, <2>4, <2>5 DEF RShape, RSame, Running
  <2>7. QED
    BY Zenon, <1>7, <1>8, <1>10, <2>4, <2>5, <2>6
<1>11. CASE r' = [f EXCEPT !.state = "canceled"] /\ toS' = ToSender(Cancel)
  <2>1. "canceled" \in States
    BY DEF States
  <2>2. r' = RState(f, "canceled")
    BY Zenon, <1>11 DEF RState
  <2>3. /\ r' \in RSet /\ RSame(r', f) /\ r'.in = f.in /\ r'.busy = f.busy
        /\ r'.state = "canceled" /\ r'.mode = f.mode /\ r'.pkt = f.pkt
    BY <1>7, <2>1, <2>2, RStateFields
  <2>4. RSame(r', q)
    BY Zenon, <1>7, <2>3 DEF RSame
  <2>5. RShape(r') /\ ~Running(r')
    BY <1>4, <1>6, <1>7, <2>3, <2>4 DEF RShape, RSame, Running
  <2>6. QED
    BY Zenon, <1>7, <1>8, <1>11, <2>3, <2>4, <2>5
<1>12. QED
  BY Zenon, <1>3, <1>9, <1>10, <1>11
-----------------------------------------------------------------------------
(* The steps of the receiver.                                              *)

LEMMA RFieldTypes ==
    ASSUME RTypes
    PROVE  /\ r \in RSet /\ RShape(r) /\ toR \in Seq(Symbol) /\ r.in <= Len(toR)
           /\ r.in \in Nat /\ r.num \in Nat /\ r.file \in Seq(Nat) /\ r.pkt \in Seq(Symbol)
           /\ r.can \in 0 .. 2 /\ r.opt \in Opts /\ r.mode \in Modes
           /\ r.nakCount \in -1 .. NakTries + CTries /\ Len(toR) \in Nat
           /\ r.state \in States /\ r.busy \in BOOLEAN
BY DEF RTypes, RSet

LEMMA SKept ==
    ASSUME STypes, toS' = toS, s' = s
    PROVE  STypes'
BY Zenon DEF STypes

(* One byte is taken from the receive buffer.                              *)
LEMMA ByteTaken ==
    ASSUME RTypes, r.state = "normal", r.busy
    PROVE  LET q == ReadByte
           IN  /\ q \in RSet /\ RSame(q, r) /\ q.in = r.in - 1 /\ q.in \in Nat
               /\ (q.busy <=> r.in > 1)
               /\ q.state = r.state /\ q.mode = r.mode /\ q.pkt = r.pkt
               /\ q.nakCount = r.nakCount /\ q.nakMode = r.nakMode /\ q.opt = r.opt /\ q.can = r.can
               /\ toR # << >> /\ q.in <= Len(Tail(toR)) /\ Running(r) /\ r.nakCount # -1
               /\ ~r.success
<1>1. r \in RSet /\ RShape(r) /\ toR \in Seq(Symbol) /\ r.in <= Len(toR) /\ r.in \in Nat
  BY Zenon, RFieldTypes
<1>2. r.in > 0 /\ r.nakCount # -1 /\ Running(r) /\ ~r.success
  BY <1>1 DEF RShape, Running
<1>3. PICK k : k = r.in - 1
  OBVIOUS
<1>4. k \in Nat
  BY <1>1, <1>2, <1>3
<1>5. PICK q : q = ReadByte
  OBVIOUS
<1>6. /\ q \in RSet /\ RSame(q, r) /\ q.in = k /\ (q.busy <=> r.in > 1)
      /\ q.state = r.state /\ q.mode = r.mode /\ q.pkt = r.pkt
      /\ q.nakCount = r.nakCount /\ q.nakMode = r.nakMode /\ q.opt = r.opt /\ q.can = r.can
  <2>1. CASE r.in > 1
    <3>1. (r.in > 1) = TRUE
      BY <2>1
    <3>2. q = RMove(r, k)
      BY Zenon, <1>3, <1>5, <3>1 DEF ReadByte, RMove
    <3>3. RMoved(q, r, k)
      BY Zenon, <1>1, <1>4, <3>2, RMoveFields
    <3>4. QED
      BY Zenon, <2>1, <3>3 DEF RMoved
  <2>2. CASE ~(r.in > 1)
    <3>1. (r.in > 1) = FALSE
      BY <2>2
    <3>2. q = RRest(r, k)
      BY Zenon, <1>3, <1>5, <3>1 DEF ReadByte, RRest
    <3>3. RRested(q, r, k)
      BY Zenon, <1>1, <1>4, <3>2, RRestFields
    <3>4. QED
      BY Zenon, <2>2, <3>3 DEF RRested
  <2>3. QED
    BY Zenon, <2>1, <2>2
<1>7. toR # << >> /\ k <= Len(Tail(toR))
  BY <1>1, <1>2, <1>3
<1>8. QED
  BY Zenon, <1>2, <1>3, <1>4, <1>5, <1>6, <1>7

LEMMA DoneRFlush ==
    ASSUME XTypes, RFlush
    PROVE  RDone
<1>1. RTypes /\ STypes
  BY Zenon DEF XTypes
<1>2. PICK k \in 0 .. Len(toR) : toR' = Drop(toR, k)
  BY Zenon DEF RFlush
<1>3. r.state = "flush" /\ r' = RState(r, "normal") /\ s' = s /\ toS' = toS
  BY Zenon DEF RFlush, RState
<1>4. r \in RSet /\ RShape(r) /\ toR \in Seq(Symbol) /\ Len(toR) \in Nat
  BY Zenon, <1>1, RFieldTypes
<1>5. "normal" \in States
  BY DEF States
<1>6. /\ r' \in RSet /\ RSame(r', r) /\ r'.in = r.in /\ r'.busy = r.busy
      /\ r'.state = "normal" /\ r'.mode = r.mode /\ r'.pkt = r.pkt /\ r'.nakCount = r.nakCount
  BY <1>3, <1>4, <1>5, RStateFields
<1>7. /\ Running(r) /\ r.in = 0 /\ r.mode = "SOH" /\ ~r.busy /\ ~r.success
      /\ r.pkt = << >> /\ r.nakCount # -1
  BY <1>3, <1>4 DEF RShape, Running
<1>8. toR' \in Seq(Symbol) /\ Shifted(toR, toR', k) /\ k \in Nat
  BY <1>2, <1>4, DropShifts
<1>9. RShape(r')
  BY <1>6, <1>7 DEF RShape, Running, RSame
<1>10. RTypes'
  <2>1. r'.in <= Len(toR')
    BY <1>6, <1>7, <1>8
  <2>2. QED
    BY Zenon, <1>6, <1>8, <1>9, <2>1 DEF RTypes
<1>11. STypes'
  BY Zenon, <1>1, <1>3, SKept
<1>12. RDrops
  BY Zenon, <1>3, <1>6, <1>7, <1>8 DEF RDrops
<1>13. QED
  BY Zenon, <1>10, <1>11, <1>12 DEF RDone, RStep

LEMMA DoneRArrive ==
    ASSUME XTypes, RArrive
    PROVE  RDone
<1>1. RTypes /\ STypes
  BY Zenon DEF XTypes
<1>2. PICK k \in r.in .. Len(toR) : k > 0 /\ r' = RMove(r, k)
  BY Zenon DEF RArrive, RMove
<1>3. r.state = "normal" /\ s' = s /\ toS' = toS /\ toR' = toR
  BY Zenon DEF RArrive
<1>4. r \in RSet /\ RShape(r) /\ toR \in Seq(Symbol) /\ Len(toR) \in Nat /\ r.in \in Nat
  BY Zenon, <1>1, RFieldTypes
<1>5. k \in Nat /\ k <= Len(toR) 
  BY <1>4
<1>6. /\ r' \in RSet /\ RSame(r', r) /\ r'.in = k /\ r'.busy
      /\ r'.state = r.state /\ r'.mode = r.mode /\ r'.pkt = r.pkt /\ r'.nakCount = r.nakCount
  <2>1. RMoved(r', r, k)
    BY Zenon, <1>2, <1>4, <1>5, RMoveFields
  <2>2. QED
    BY Zenon, <2>1 DEF RMoved
<1>7. RShape(r') /\ Running(r)
  BY <1>2, <1>3, <1>4, <1>6 DEF RShape, Running, RSame
<1>8. RTypes'
  BY Zenon, <1>3, <1>4, <1>5, <1>6, <1>7 DEF RTypes
<1>9. STypes'
  BY Zenon, <1>1, <1>3, SKept
<1>10. RDrops
  <2>1. Shifted(toR, toR', 0)
    BY Zenon, <1>3, <1>4, StayShifts
  <2>2. 0 \in Nat
    OBVIOUS
  <2>3. QED
    BY Zenon, <1>3, <1>6, <1>7, <2>1, <2>2 DEF RDrops
<1>11. QED
  BY Zenon, <1>8, <1>9, <1>10 DEF RDone, RStep

(* The transfer of the receiver is over.                                   *)
LEMMA Ended ==
    ASSUME NEW q \in RSet, NEW g \in BOOLEAN, REnd(q, g)
    PROVE  /\ RTypes' /\ ~Running(r') /\ r'.num = q.num /\ r'.file = q.file
           /\ (r'.success <=> g)
<1>1. PICK u : u = << >>
  OBVIOUS
<1>2. u \in Seq(Symbol)
  BY <1>1
<1>3. r' = RStop(q, g, u) /\ toR' = u
  BY Zenon, <1>1 DEF REnd, RStop
<1>4. /\ r' \in RSet /\ r'.num = q.num /\ r'.file = q.file /\ r'.success = g
      /\ r'.state = "ended" /\ r'.mode = q.mode /\ r'.pkt = u /\ r'.in = 0
  BY <1>2, <1>3, RStopFields
<1>5. RShape(r') /\ ~Running(r')
  BY <1>1, <1>4 DEF RShape, Running
<1>6. toR' \in Seq(Symbol) /\ r'.in <= Len(toR')
  BY <1>1, <1>3, <1>4
<1>7. QED
  BY Zenon, <1>4, <1>5, <1>6 DEF RTypes

(* The answers fit the line.                                               *)
LEMMA Answered ==
    ASSUME STypes, NEW c \in Words, toS' = ToSender(<< Ctl(c) >>), s' = s
    PROVE  STypes'
BY Zenon, OneSymbol, Sent

LEMMA CancelSent ==
    ASSUME STypes, toS' = ToSender(Cancel), s' = s
    PROVE  STypes'
BY Zenon, CancelSymbols, Sent

LEMMA OptsOfOpts ==
    \A o \in Opts : /\ ShortOpt(o) \in Opts /\ LongOpt(o) \in Opts
                    /\ CrcOpt(o) \in Opts /\ SumOpt(o) \in Opts
BY DEF ShortOpt, LongOpt, CrcOpt, SumOpt, Opts, Checksum, Crc

LEMMA GenuineIs ==
    ASSUME NEW b, NEW c, Genuine(b, c)
    PROVE  b.is = c
BY DEF Genuine, Ctl

LEMMA DoneRReadSOH ==
    ASSUME XTypes, RReadSOH
    PROVE  RDone
<1>1. RTypes /\ STypes
  BY Zenon DEF XTypes
<1>2. r.state = "normal" /\ r.busy /\ r.mode = "SOH" /\ s' = s
  BY Zenon DEF RReadSOH, RReading
<1>3. PICK q : q = ReadByte
  OBVIOUS
<1>4. /\ q \in RSet /\ RSame(q, r) /\ q.in = r.in - 1 /\ q.in \in Nat
      /\ (q.busy <=> r.in > 1)
      /\ q.state = r.state /\ q.mode = r.mode /\ q.pkt = r.pkt
      /\ q.nakCount = r.nakCount /\ q.opt = r.opt /\ q.can = r.can
      /\ toR # << >> /\ q.in <= Len(Tail(toR)) /\ Running(r) /\ r.nakCount # -1
      /\ ~r.success
  BY Zenon, <1>1, <1>2, <1>3, ByteTaken
<1>5. /\ r \in RSet /\ RShape(r) /\ toR \in Seq(Symbol) /\ r.in <= Len(toR) /\ r.in \in Nat
      /\ r.can \in 0 .. 2 /\ r.opt \in Opts /\ Len(toR) \in Nat
  BY Zenon, <1>1, RFieldTypes
<1>6. /\ Tail(toR) \in Seq(Symbol) /\ Shifted(toR, Tail(toR), 1) /\ Head(toR) = toR[1]
  BY Zenon, <1>4, <1>5, TailShifts
<1>7. r.pkt = << >>
  BY Zenon, <1>2, <1>5 DEF RShape
<1>8. CASE /\ IsCommand(Head(toR), "SOH") \/ IsCommand(Head(toR), "STX")
           /\ r' = [q EXCEPT !.mode = "BLK", !.can = 0,
                             !.opt = IF IsCommand(Head(toR), "SOH") THEN ShortOpt(@) ELSE LongOpt(@)]
           /\ toR' = Tail(toR)
           /\ misread' = (misread \/ ~(Genuine(Head(toR), "SOH") \/ Genuine(Head(toR), "STX")))
           /\ toS' = toS
  <2>1. PICK c : c = IF IsCommand(Head(toR), "SOH") THEN ShortOpt(q.opt) ELSE LongOpt(q.opt)
    OBVIOUS
  <2>2. c \in Opts
    BY Zenon, <1>4, <1>5, <2>1, OptsOfOpts
  <2>3. PICK z : z = 0
    OBVIOUS
  <2>4. "BLK" \in Modes /\ z \in 0 .. 2
    BY <2>3 DEF Modes
  <2>5. r' = RHead(q, c, "BLK", z)
    BY Zenon, <1>8, <2>1, <2>3 DEF RHead
  <2>6. /\ r' \in RSet /\ RSame(r', q) /\ r'.in = q.in /\ r'.busy = q.busy
        /\ r'.state = q.state /\ r'.mode = "BLK" /\ r'.pkt = q.pkt
        /\ r'.nakCount = q.nakCount
    BY <1>4, <2>2, <2>4, <2>5, RHeadFields
  <2>7. RSame(r', r)
    BY Zenon, <1>4, <2>6 DEF RSame
  <2>8. RShape(r')
    BY <1>2, <1>4, <1>5, <1>7, <2>6, <2>7 DEF RShape, RSame, Running
  <2>9. RTypes'
    BY Zenon, <1>4, <1>6, <1>8, <2>6, <2>8 DEF RTypes
  <2>10. misread' \/ toR[1].is \in {"SOH", "STX"}
    BY Zenon, <1>6, <1>8, GenuineIs
  <2>11. RMeets
    BY Zenon, <1>2, <1>4, <1>7, <1>8, <2>6, <2>7, <2>10 DEF RMeets
  <2>12. STypes'
    BY Zenon, <1>1, <1>2, <1>8, SKept
  <2>13. QED
    BY Zenon, <2>9, <2>11, <2>12 DEF RDone, RStep
<1>9. CASE /\ REnd(q, TRUE) /\ toS' = ToSender(<< Ctl("ACK") >>)
           /\ misread' = (misread \/ ~Genuine(Head(toR), "EOT"))
  <2>1. /\ RTypes' /\ ~Running(r') /\ r'.num = q.num /\ r'.file = q.file /\ r'.success
    BY Zenon, <1>4, <1>9, Ended
  <2>2. STypes'
    <3>1. "ACK" \in Words
      BY DEF Words
    <3>2. QED
      BY Zenon, <1>1, <1>2, <1>9, <3>1, Answered
  <2>3. misread' \/ toR[1].is = "EOT"
    BY Zenon, <1>6, <1>9, GenuineIs
  <2>4. RFinishes
    BY Zenon, <1>2, <1>4, <1>9, <2>1, <2>3 DEF RFinishes, RSame
  <2>5. QED
    BY Zenon, <2>1, <2>2, <2>4 DEF RDone, RStep
<1>10. CASE r.can < 2 /\ r' = [q EXCEPT !.can = @ + 1] /\ toR' = Tail(toR) /\ toS' = toS
  <2>1. PICK c : c = q.can + 1
    OBVIOUS
  <2>2. c \in 0 .. 2
    BY <1>4, <1>5, <1>10, <2>1
  <2>3. r' = RCan(q, c)
    BY Zenon, <1>10, <2>1 DEF RCan
  <2>4. /\ r' \in RSet /\ RSame(r', q) /\ r'.in = q.in /\ r'.busy = q.busy
        /\ r'.state = q.state /\ r'.mode = q.mode /\ r'.pkt = q.pkt
        /\ r'.nakCount = q.nakCount
    BY <1>4, <2>2, <2>3, RCanFields
  <2>5. RSame(r', r)
    BY Zenon, <1>4, <2>4 DEF RSame
  <2>6. RShape(r')
    BY <1>2, <1>4, <1>5, <1>7, <2>4, <2>5 DEF RShape, RSame, Running
  <2>7. RTypes'
    BY Zenon, <1>4, <1>6, <1>10, <2>4, <2>6 DEF RTypes
  <2>8. RDrops
    <3>1. 1 \in Nat
      OBVIOUS
    <3>2. QED
      BY Zenon, <1>2, <1>4, <1>6, <1>10, <2>4, <2>5, <3>1 DEF RDrops
  <2>9. STypes'
    BY Zenon, <1>1, <1>2, <1>10, SKept
  <2>10. QED
    BY Zenon, <2>7, <2>8, <2>9 DEF RDone, RStep
<1>11. CASE REnd(q, FALSE) /\ toS' = toS
  <2>1. /\ RTypes' /\ ~Running(r') /\ r'.num = q.num /\ r'.file = q.file /\ ~r'.success
    BY Zenon, <1>4, <1>11, Ended
  <2>2. STypes'
    BY Zenon, <1>1, <1>2, <1>11, SKept
  <2>3. RGivesUp
    BY Zenon, <1>4, <1>11, <2>1 DEF RGivesUp, RSame
  <2>4. QED
    BY Zenon, <2>1, <2>2, <2>3 DEF RDone, RStep
<1>12. CASE r' = [q EXCEPT !.in = 0, !.busy = FALSE] /\ toR' = Drop(toR, r.in) /\ toS' = toS
  <2>1. PICK z : z = 0
    OBVIOUS
  <2>2. z \in Nat
    BY <2>1
  <2>3. r' = RRest(q, z)
    BY Zenon, <1>12, <2>1 DEF RRest
  <2>4. RRested(r', q, z)
    BY Zenon, <1>4, <2>2, <2>3, RRestFields
  <2>5. /\ r' \in RSet /\ RSame(r', q) /\ r'.in = z /\ ~r'.busy
        /\ r'.state = q.state /\ r'.mode = q.mode /\ r'.pkt = q.pkt
        /\ r'.nakCount = q.nakCount
    BY Zenon, <2>4 DEF RRested
  <2>6. RSame(r', r)
    BY Zenon, <1>4, <2>5 DEF RSame
  <2>7. RShape(r')
    BY <1>2, <1>4, <1>7, <2>5, <2>6 DEF RShape, RSame, Running
  <2>8. toR' \in Seq(Symbol) /\ Shifted(toR, toR', r.in)
    <3>1. r.in \in 0 .. Len(toR)
      BY <1>5
    <3>2. QED
      BY Zenon, <1>5, <1>12, <3>1, DropShifts
  <2>9. RTypes'
    <3>1. r'.in <= Len(toR')
      BY <2>1, <2>5, <2>8
    <3>2. QED
      BY Zenon, <2>5, <2>7, <2>8, <3>1 DEF RTypes
  <2>10. RDrops
    BY Zenon, <1>2, <1>4, <1>5, <1>12, <2>5, <2>6, <2>8 DEF RDrops
  <2>11. STypes'
    BY Zenon, <1>1, <1>2, <1>12, SKept
  <2>12. QED
    BY Zenon, <2>9, <2>10, <2>11 DEF RDone, RStep
<1>13. QED
  BY Zenon, <1>3, <1>8, <1>9, <1>10, <1>11, <1>12 DEF RReadSOH

(* XSendNAK at the end of a step that has read a part of the line.         *)
LEMMA Denied ==
    ASSUME RTypes, STypes, s' = s,
           NEW q \in RSet, RSame(q, r), Running(q), ~q.busy, q.nakCount # -1,
           NEW line \in Seq(Symbol), NEW a \in Nat, Shifted(toR, line, a), q.in <= Len(line),
           Running(r), r.mode # "SOH" \/ Quiet \/ early' # 0, XSendNAK(q, line)
    PROVE  RDone
<1>1. r \in RSet /\ RShape(r) /\ toR \in Seq(Symbol)
  BY Zenon, RFieldTypes
<1>2. ~r.success
  BY Zenon, <1>1 DEF RShape, Running
<1>3. ~q.success
  BY Zenon, <1>2 DEF RSame
<1>4. /\ r' \in RSet /\ RShape(r') /\ RSame(r', q) /\ r'.in = 0
      /\ toR' \in Seq(Symbol) /\ Shifted(line, toR', q.in)
      /\ \/ /\ r'.mode = "SOH"
            /\ \E c \in {"C", "NAK"} : toS' = ToSender(<< Ctl(c) >>)
         \/ ~Running(r') /\ toS' = ToSender(Cancel)
  BY Zenon, <1>3, NakStep
<1>5. RSame(r', r)
  BY Zenon, <1>4 DEF RSame
<1>6. RTypes'
  <2>1. r'.in <= Len(toR')
    BY <1>4
  <2>2. QED
    BY Zenon, <1>4, <2>1 DEF RTypes
<1>7. \E k \in Nat : Shifted(toR, toR', k)
  <2>1. q.in \in Nat
    BY DEF RSet
  <2>2. a + q.in \in Nat
    BY <2>1
  <2>3. QED
    BY Zenon, <1>1, <1>4, <2>1, <2>2, ShiftTwice
<1>8. CASE r'.mode = "SOH" /\ \E c \in {"C", "NAK"} : toS' = ToSender(<< Ctl(c) >>)
  <2>1. PICK c \in {"C", "NAK"} : toS' = ToSender(<< Ctl(c) >>)
    BY Zenon, <1>8
  <2>2. c \in Words
    BY DEF Words
  <2>3. STypes'
    BY Zenon, <2>1, <2>2, Answered
  <2>4. RDenies
    BY Zenon, <1>5, <1>7, <1>8 DEF RDenies
  <2>5. QED
    BY Zenon, <1>6, <2>3, <2>4 DEF RDone, RStep
<1>9. CASE ~Running(r') /\ toS' = ToSender(Cancel)
  <2>1. STypes'
    BY Zenon, <1>9, CancelSent
  <2>2. RGivesUp
    BY Zenon, <1>2, <1>5, <1>9 DEF RGivesUp, RSame
  <2>3. QED
    BY Zenon, <1>6, <2>1, <2>2 DEF RDone, RStep
<1>10. QED
  BY Zenon, <1>4, <1>8, <1>9

LEMMA Appended ==
    ASSUME NEW p \in Seq(Symbol), NEW x \in Symbol
    PROVE  /\ Append(p, x) \in Seq(Symbol) /\ Len(Append(p, x)) = Len(p) + 1
           /\ Append(p, x)[Len(p) + 1] = x
           /\ \A j \in 1 .. Len(p) : Append(p, x)[j] = p[j]
OBVIOUS

LEMMA DoneRReadBLK ==
    ASSUME XTypes, RReadBLK
    PROVE  RDone
<1>1. RTypes /\ STypes
  BY Zenon DEF XTypes
<1>2. r.state = "normal" /\ r.busy /\ r.mode = "BLK" /\ s' = s /\ toS' = toS /\ toR' = Tail(toR)
  BY Zenon DEF RReadBLK, RReading
<1>3. PICK q : q = ReadByte
  OBVIOUS
<1>4. /\ q \in RSet /\ RSame(q, r) /\ q.in = r.in - 1 /\ q.in \in Nat
      /\ (q.busy <=> r.in > 1)
      /\ q.state = r.state /\ q.mode = r.mode /\ q.pkt = r.pkt
      /\ q.nakCount = r.nakCount
      /\ toR # << >> /\ q.in <= Len(Tail(toR)) /\ Running(r) /\ r.nakCount # -1
      /\ ~r.success
  BY Zenon, <1>1, <1>2, <1>3, ByteTaken
<1>5. /\ r \in RSet /\ RShape(r) /\ toR \in Seq(Symbol) /\ r.in \in Nat
  BY Zenon, <1>1, RFieldTypes
<1>6. Tail(toR) \in Seq(Symbol) /\ Head(toR) = toR[1] /\ toR[1] \in Symbol
  BY Zenon, <1>4, <1>5, TailShifts
<1>7. r.pkt = << >>
  BY Zenon, <1>2, <1>5 DEF RShape
<1>8. PICK u : u = << toR[1] >>
  OBVIOUS
<1>9. u \in Seq(Symbol) /\ Len(u) = 1
  BY <1>6, <1>8
<1>10. "BLK2" \in Modes
  BY DEF Modes
<1>11. r' = RTurn(q, "BLK2", u)
  BY Zenon, <1>3, <1>6, <1>8 DEF RReadBLK, RTurn
<1>12. /\ r' \in RSet /\ RSame(r', q) /\ r'.in = q.in /\ r'.busy = q.busy
       /\ r'.state = q.state /\ r'.mode = "BLK2" /\ r'.pkt = u
       /\ r'.nakCount = q.nakCount
  BY <1>4, <1>9, <1>10, <1>11, RTurnFields
<1>13. RSame(r', r)
  BY Zenon, <1>4, <1>12 DEF RSame
<1>14. RShape(r')
  BY <1>2, <1>4, <1>5, <1>9, <1>12, <1>13 DEF RShape, RSame, Running
<1>15. RTypes'
  BY Zenon, <1>2, <1>4, <1>6, <1>12, <1>14 DEF RTypes
<1>16. u = Append(r.pkt, toR[1])
  BY <1>7, <1>8
<1>17. RTakes
  BY Zenon, <1>2, <1>4, <1>12, <1>13, <1>16 DEF RTakes
<1>18. STypes'
  BY Zenon, <1>1, <1>2, SKept
<1>19. QED
  BY Zenon, <1>15, <1>17, <1>18 DEF RDone, RStep

LEMMA DoneRReadBLK2 ==
    ASSUME XTypes, RReadBLK2
    PROVE  RDone
<1>1. RTypes /\ STypes
  BY Zenon DEF XTypes
<1>2. r.state = "normal" /\ r.busy /\ r.mode = "BLK2" /\ s' = s
  BY Zenon DEF RReadBLK2, RReading
<1>3. PICK q : q = ReadByte
  OBVIOUS
<1>4. /\ q \in RSet /\ RSame(q, r) /\ q.in = r.in - 1 /\ q.in \in Nat
      /\ (q.busy <=> r.in > 1)
      /\ q.state = r.state /\ q.mode = r.mode /\ q.pkt = r.pkt
      /\ q.nakCount = r.nakCount
      /\ toR # << >> /\ q.in <= Len(Tail(toR)) /\ Running(r) /\ r.nakCount # -1
      /\ ~r.success
  BY Zenon, <1>1, <1>2, <1>3, ByteTaken
<1>5. /\ r \in RSet /\ RShape(r) /\ toR \in Seq(Symbol) /\ r.in \in Nat /\ r.pkt \in Seq(Symbol)
  BY Zenon, <1>1, RFieldTypes
<1>6. /\ Tail(toR) \in Seq(Symbol) /\ Head(toR) = toR[1] /\ toR[1] \in Symbol
      /\ Shifted(toR, Tail(toR), 1)
  BY Zenon, <1>4, <1>5, TailShifts
<1>7. Len(r.pkt) = 1
  BY Zenon, <1>2, <1>4, <1>5 DEF RShape
<1>8. CASE /\ Byte(toR[1]) + Byte(r.pkt[1]) = 255
           /\ r' = [q EXCEPT !.mode = "DATA", !.pkt = Append(@, Head(toR))]
           /\ toR' = Tail(toR) /\ toS' = toS
  <2>1. PICK u : u = Append(r.pkt, toR[1])
    OBVIOUS
  <2>2. /\ u \in Seq(Symbol) /\ Len(u) = Len(r.pkt) + 1
        /\ u[Len(r.pkt) + 1] = toR[1] /\ \A j \in 1 .. Len(r.pkt) : u[j] = r.pkt[j]
    BY Zenon, <1>5, <1>6, <2>1, Appended
  <2>3. Len(u) > 1 /\ u[2] = toR[1] /\ u[1] = r.pkt[1]
    BY <1>7, <2>2
  <2>4. Byte(u[2]) + Byte(u[1]) = 255
    BY Zenon, <1>8, <2>3
  <2>5. "DATA" \in Modes
    BY DEF Modes
  <2>6. r' = RTurn(q, "DATA", u)
    BY Zenon, <1>4, <1>6, <1>8, <2>1 DEF RTurn
  <2>7. /\ r' \in RSet /\ RSame(r', q) /\ r'.in = q.in /\ r'.busy = q.busy
        /\ r'.state = q.state /\ r'.mode = "DATA" /\ r'.pkt = u
        /\ r'.nakCount = q.nakCount
    BY <1>4, <2>2, <2>5, <2>6, RTurnFields
  <2>8. RSame(r', r)
    BY Zenon, <1>4, <2>7 DEF RSame
  <2>9. RShape(r')
    BY <1>2, <1>4, <1>5, <2>3, <2>4, <2>7, <2>8 DEF RShape, RSame, Running
  <2>10. RTypes'
    BY Zenon, <1>4, <1>6, <1>8, <2>7, <2>9 DEF RTypes
  <2>11. RTakes
    BY Zenon, <1>2, <1>4, <1>8, <2>1, <2>7, <2>8 DEF RTakes
  <2>12. STypes'
    BY Zenon, <1>1, <1>2, <1>8, SKept
  <2>13. QED
    BY Zenon, <2>10, <2>11, <2>12 DEF RDone, RStep
<1>9. CASE XSendNAK([q EXCEPT !.busy = FALSE], Tail(toR))
  <2>1. PICK p : p = RIdle(q)
    OBVIOUS
  <2>2. /\ p \in RSet /\ RSame(p, q) /\ p.in = q.in /\ ~p.busy
        /\ p.state = q.state /\ p.nakCount = q.nakCount
    BY <1>4, <2>1, RIdleFields
  <2>3. RSame(p, r) /\ Running(p)
    BY Zenon, <1>4, <2>2 DEF RSame, Running
  <2>4. XSendNAK(p, Tail(toR))
    BY Zenon, <1>9, <2>1 DEF RIdle
  <2>5. 1 \in Nat /\ r.mode # "SOH"
    BY <1>2
  <2>6. QED
    BY Zenon, <1>1, <1>2, <1>4, <1>6, <2>2, <2>3, <2>4, <2>5, Denied
<1>10. QED
  BY Zenon, <1>3, <1>6, <1>8, <1>9 DEF RReadBLK2

LEMMA DoneRReadDATA ==
    ASSUME XTypes, RReadDATA
    PROVE  RDone
<1>1. RTypes /\ STypes
  BY Zenon DEF XTypes
<1>2. r.state = "normal" /\ r.busy /\ r.mode = "DATA" /\ s' = s /\ toS' = toS /\ toR' = Tail(toR)
  BY Zenon DEF RReadDATA, RReading
<1>3. PICK q : q = ReadByte
  OBVIOUS
<1>4. /\ q \in RSet /\ RSame(q, r) /\ q.in = r.in - 1 /\ q.in \in Nat
      /\ (q.busy <=> r.in > 1)
      /\ q.state = r.state /\ q.mode = r.mode /\ q.pkt = r.pkt
      /\ q.nakCount = r.nakCount
      /\ toR # << >> /\ q.in <= Len(Tail(toR)) /\ Running(r) /\ r.nakCount # -1
      /\ ~r.success
  BY Zenon, <1>1, <1>2, <1>3, ByteTaken
<1>5. /\ r \in RSet /\ RShape(r) /\ toR \in Seq(Symbol) /\ r.in \in Nat /\ r.pkt \in Seq(Symbol)
  BY Zenon, <1>1, RFieldTypes
<1>6. Tail(toR) \in Seq(Symbol) /\ Head(toR) = toR[1] /\ toR[1] \in Symbol
  BY Zenon, <1>4, <1>5, TailShifts
<1>7. Len(r.pkt) > 1 /\ Byte(r.pkt[2]) + Byte(r.pkt[1]) = 255
  BY Zenon, <1>2, <1>4, <1>5 DEF RShape
<1>8. PICK u : u = Append(r.pkt, toR[1])
  OBVIOUS
<1>9. /\ u \in Seq(Symbol) /\ Len(u) = Len(r.pkt) + 1
      /\ \A j \in 1 .. Len(r.pkt) : u[j] = r.pkt[j]
  BY Zenon, <1>5, <1>6, <1>8, Appended
<1>10. Len(u) > 1 /\ u[2] = r.pkt[2] /\ u[1] = r.pkt[1]
  BY <1>5, <1>7, <1>9
<1>11. Byte(u[2]) + Byte(u[1]) = 255
  BY Zenon, <1>7, <1>10
<1>12. r' = RPut(q, u)
  BY Zenon, <1>3, <1>4, <1>6, <1>8 DEF RReadDATA, RPut
<1>13. /\ r' \in RSet /\ RSame(r', q) /\ r'.in = q.in /\ r'.busy = q.busy
       /\ r'.state = q.state /\ r'.mode = q.mode /\ r'.pkt = u /\ r'.nakCount = q.nakCount
  BY <1>4, <1>9, <1>12, RPutFields
<1>14. RSame(r', r)
  BY Zenon, <1>4, <1>13 DEF RSame
<1>15. RShape(r')
  BY <1>2, <1>4, <1>5, <1>10, <1>11, <1>13, <1>14 DEF RShape, RSame, Running
<1>16. RTypes'
  BY Zenon, <1>2, <1>4, <1>6, <1>13, <1>15 DEF RTypes
<1>17. RTakes
  BY Zenon, <1>2, <1>4, <1>8, <1>13, <1>14 DEF RTakes
<1>18. STypes'
  BY Zenon, <1>1, <1>2, SKept
<1>19. QED
  BY Zenon, <1>16, <1>17, <1>18 DEF RDone, RStep

LEMMA DoneRCanceled ==
    ASSUME XTypes, RCanceled
    PROVE  RDone
<1>1. RTypes /\ STypes
  BY Zenon DEF XTypes
<1>2. s' = s /\ toS' = toS /\ REnd(r, FALSE) /\ r.state = "canceled"
  BY Zenon DEF RCanceled
<1>3. r \in RSet /\ ~r.success
  <2>1. r \in RSet /\ RShape(r)
    BY Zenon, <1>1, RFieldTypes
  <2>2. QED
    BY <1>2, <2>1 DEF RShape
<1>4. /\ RTypes' /\ ~Running(r') /\ r'.num = r.num /\ r'.file = r.file /\ ~r'.success
  BY Zenon, <1>2, <1>3, Ended
<1>5. STypes'
  BY Zenon, <1>1, <1>2, SKept
<1>6. RGivesUp
  BY Zenon, <1>2, <1>3, <1>4 DEF RGivesUp
<1>7. QED
  BY Zenon, <1>4, <1>5, <1>6 DEF RDone, RStep

LEMMA DoneRUserCancel ==
    ASSUME XTypes, RUserCancel
    PROVE  RDone
<1>1. RTypes /\ STypes
  BY Zenon DEF XTypes
<1>2. /\ s' = s /\ toR' = toR /\ toS' = ToSender(Cancel) /\ Running(r) /\ ~r.busy
      /\ r' = RAsk(r)
  BY Zenon DEF RUserCancel, RAsk
<1>3. r \in RSet /\ RShape(r) /\ toR \in Seq(Symbol) /\ r.in <= Len(toR)
  BY Zenon, <1>1, RFieldTypes
<1>4. /\ r' \in RSet /\ r'.num = r.num /\ r'.file = r.file /\ r'.success = r.success
      /\ r'.in = r.in /\ r'.busy = r.busy
      /\ r'.state = "canceled" /\ r'.mode = r.mode /\ r'.pkt = r.pkt
  BY <1>2, <1>3, RAskFields
<1>5. RShape(r') /\ ~Running(r') /\ ~r.success
  BY <1>2, <1>3, <1>4 DEF RShape, Running
<1>6. RTypes'
  BY Zenon, <1>2, <1>3, <1>4, <1>5 DEF RTypes
<1>7. STypes'
  BY Zenon, <1>1, <1>2, CancelSent
<1>8. RGivesUp
  BY Zenon, <1>2, <1>4, <1>5 DEF RGivesUp
<1>9. QED
  BY Zenon, <1>6, <1>7, <1>8 DEF RDone, RStep

LEMMA DoneRTimeout ==
    ASSUME XTypes, RTimeout
    PROVE  RDone
<1>1. RTypes /\ STypes
  BY Zenon DEF XTypes
<1>2. s' = s /\ Running(r) /\ ~r.busy /\ Expires(Quiet) /\ XSendNAK(r, toR)
  BY Zenon DEF RTimeout
<1>3. r \in RSet /\ RShape(r) /\ toR \in Seq(Symbol) /\ r.in <= Len(toR)
  BY Zenon, <1>1, RFieldTypes
<1>4. r.nakCount # -1
  BY Zenon, <1>2, <1>3 DEF RShape
<1>5. Quiet \/ early' # 0
  <2>1. Quiet \/ early' = early + 1
    BY Zenon, <1>2 DEF Expires
  <2>2. early \in Nat
    BY BoundAssumption DEF XTypes, HTypes
  <2>3. early + 1 # 0
    BY <2>2
  <2>4. QED
    BY Zenon, <2>1, <2>3
<1>6. RSame(r, r) /\ Shifted(toR, toR, 0)
  BY Zenon, <1>3, StayShifts DEF RSame
<1>7. 0 \in Nat
  OBVIOUS
<1>8. QED
  BY Zenon, <1>1, <1>2, <1>3, <1>4, <1>5, <1>6, <1>7, Denied

(* The value of a byte is a number, and a block number is compared with    *)
(* the next one as a rest.                                                 *)
LEMMA ByteIsNumber ==
    ASSUME NEW b \in Symbol
    PROVE  Byte(b) \in Int
<1>1. b.n \in Int
  BY DEF Symbol
<1>2. \A c : CtlByte(c) \in Int
  BY DEF CtlByte
<1>3. CASE b.is = "blk"
  BY <1>1, <1>3 DEF Byte
<1>4. CASE b.is = "com"
  BY <1>1, <1>4 DEF Byte
<1>5. CASE b.is = "data"
  <2>1. Byte(b) = CtlByte(File[b.n])
    BY <1>5 DEF Byte
  <2>2. QED
    BY Zenon, <1>2, <2>1
<1>6. CASE b.is \notin {"blk", "com", "data"}
  <2>1. Byte(b) = CtlByte(b.is)
    BY <1>6 DEF Byte
  <2>2. QED
    BY Zenon, <1>2, <2>1
<1>7. QED
  BY Zenon, <1>3, <1>4, <1>5, <1>6

LEMMA Rest ==
    ASSUME NEW b \in Int, NEW n \in Nat
    PROVE  (b - n) % BlkMod \in Nat
BY Mod

LEMMA DoneRPacket ==
    ASSUME XTypes, RPacket
    PROVE  RDone
<1>1. RTypes /\ STypes
  BY Zenon DEF XTypes
<1>2. r.state = "normal" /\ r.busy /\ r.mode = "DATA" /\ s' = s
  BY Zenon DEF RPacket, RReading
<1>3. PICK u : u = Append(r.pkt, Head(toR))
  OBVIOUS
<1>4. PICK x : x = IF r.in > 1 THEN 1 ELSE 0
  OBVIOUS
<1>5. PICK e : e = << >>
  OBVIOUS
<1>6. PICK q : q = [r EXCEPT !.in = @ - 1 - x, !.busy = FALSE, !.mode = "SOH", !.pkt = e]
  OBVIOUS
<1>7. PICK line : line = Drop(toR, 1 + x)
  OBVIOUS
<1>8. PICK d : d = (Byte(u[1]) - r.num) % BlkMod
  OBVIOUS
<1>9. PICK block0 : block0 = (Byte(u[1]) = 0 /\ r.num = 0)
  OBVIOUS
<1>10. /\ Complete(u, r.opt)
       /\ \/ XSendNAK([q EXCEPT !.nakCount = IF block0 THEN TriesOf(q.nakMode) ELSE @], line)
          \/ /\ r' = [q EXCEPT !.state = "canceled"]
             /\ toS' = ToSender(Cancel)
             /\ toR' = line
          \/ /\ XCheckPacket(u, r.opt) /\ d <= 1
             /\ r' = Accept(q, d, u[3].n)
             /\ toS' = ToSender(<< Ctl("ACK") >>)
             /\ toR' = line
  BY Zenon, <1>3, <1>4, <1>5, <1>6, <1>7, <1>8, <1>9 DEF RPacket
<1>11. /\ r \in RSet /\ RShape(r) /\ toR \in Seq(Symbol) /\ r.in \in Nat /\ r.in <= Len(toR)
       /\ r.pkt \in Seq(Symbol) /\ r.num \in Nat /\ r.file \in Seq(Nat) /\ r.opt \in Opts
       /\ Len(toR) \in Nat /\ r.nakCount \in -1 .. NakTries + CTries
  BY Zenon, <1>1, RFieldTypes
<1>12. r.in > 0 /\ r.nakCount # -1 /\ Running(r) /\ ~r.success
  BY Zenon, <1>2, <1>11 DEF RShape, Running
<1>13. toR # << >>
  BY <1>11, <1>12
<1>14. Head(toR) = toR[1] /\ toR[1] \in Symbol
  BY Zenon, <1>11, <1>13, TailShifts
<1>15. PICK k : k = r.in - 1 - x
  OBVIOUS
<1>16. 1 + x \in 0 .. Len(toR) /\ 1 + x \in Nat /\ k \in Nat /\ k <= Len(toR) - (1 + x)
  BY <1>4, <1>11, <1>12, <1>15
<1>17. /\ line \in Seq(Symbol) /\ Len(line) = Len(toR) - (1 + x)
       /\ Shifted(toR, line, 1 + x)
  BY Zenon, <1>7, <1>11, <1>16, DropShifts
<1>18. k <= Len(line)
  BY Zenon, <1>16, <1>17
<1>19. /\ q \in RSet /\ RSame(q, r) /\ q.in = k /\ ~q.busy
       /\ q.state = r.state /\ q.mode = "SOH" /\ q.pkt = e
       /\ q.nakCount = r.nakCount /\ q.nakMode = r.nakMode
  <2>1. e \in Seq(Symbol)
    BY <1>5
  <2>2. q = RTaken(r, k, e)
    BY Zenon, <1>6, <1>15 DEF RTaken
  <2>3. RTook(q, r, k, e)
    BY Zenon, <1>11, <1>16, <2>1, <2>2, RTakenFields
  <2>4. QED
    BY Zenon, <2>3 DEF RTook
<1>20. Running(q)
  BY Zenon, <1>12, <1>19 DEF Running
<1>21. r.mode # "SOH"
  BY <1>2
<1>22. CASE XSendNAK([q EXCEPT !.nakCount = IF block0 THEN TriesOf(q.nakMode) ELSE @], line)
  <2>1. PICK n : n = IF block0 THEN TriesOf(q.nakMode) ELSE q.nakCount
    OBVIOUS
  <2>2. n \in -1 .. NakTries + CTries /\ n # -1
    <3>1. TriesOf(q.nakMode) \in -1 .. NakTries + CTries /\ TriesOf(q.nakMode) # -1
      BY Tries DEF TriesOf
    <3>2. QED
      BY Zenon, <1>11, <1>12, <1>19, <2>1, <3>1
  <2>3. PICK p : p = RCount(q, n)
    OBVIOUS
  <2>4. /\ p \in RSet /\ RSame(p, q) /\ p.in = q.in /\ p.busy = q.busy
        /\ p.state = q.state /\ p.nakCount = n
    BY <1>19, <2>2, <2>3, RCountFields
  <2>5. RSame(p, r) /\ Running(p) /\ ~p.busy
    BY Zenon, <1>19, <1>20, <2>4 DEF RSame, Running
  <2>6. XSendNAK(p, line)
    BY Zenon, <1>22, <2>1, <2>3 DEF RCount
  <2>7. QED
    BY Zenon, <1>1, <1>2, <1>12, <1>16, <1>17, <1>18, <1>19, <1>21, <2>2, <2>4, <2>5, <2>6, Denied
<1>23. CASE r' = [q EXCEPT !.state = "canceled"] /\ toS' = ToSender(Cancel) /\ toR' = line
  <2>1. "canceled" \in States
    BY DEF States
  <2>2. r' = RState(q, "canceled")
    BY Zenon, <1>23 DEF RState
  <2>3. /\ r' \in RSet /\ RSame(r', q) /\ r'.in = q.in /\ r'.busy = q.busy
        /\ r'.state = "canceled" /\ r'.mode = q.mode /\ r'.pkt = q.pkt
    BY <1>19, <2>1, <2>2, RStateFields
  <2>4. RSame(r', r)
    BY Zenon, <1>19, <2>3 DEF RSame
  <2>5. RShape(r') /\ ~Running(r')
    BY <1>5, <1>12, <1>19, <2>3, <2>4 DEF RShape, Running, RSame
  <2>6. RTypes'
    BY Zenon, <1>17, <1>18, <1>19, <1>23, <2>3, <2>5 DEF RTypes
  <2>7. STypes'
    BY Zenon, <1>1, <1>2, <1>23, CancelSent
  <2>8. RGivesUp
    BY Zenon, <1>12, <1>23, <2>4, <2>5 DEF RGivesUp, RSame
  <2>9. QED
    BY Zenon, <2>6, <2>7, <2>8 DEF RDone, RStep
<1>24. CASE /\ XCheckPacket(u, r.opt) /\ d <= 1 /\ r' = Accept(q, d, u[3].n)
            /\ toS' = ToSender(<< Ctl("ACK") >>) /\ toR' = line
  <2>1. u \in Seq(Symbol) /\ u = Append(r.pkt, toR[1])
    BY Zenon, <1>3, <1>11, <1>14, Appended
  <2>2. Len(u) > 3 /\ Len(u) \in Nat
    BY <1>10, <2>1 DEF Complete, CheckLen
  <2>3. u[1] \in Symbol /\ u[3] \in Symbol
    BY <2>1, <2>2
  <2>4. u[3].n \in Nat
    BY <2>3 DEF Symbol
  <2>5. d \in Nat
    BY Zenon, <1>8, <1>11, <2>3, ByteIsNumber, Rest
  <2>6. d \in {0, 1}
    BY <1>24, <2>5
  <2>7. PICK n, m, f : /\ n = q.num + d /\ m = NakTries
                       /\ f = IF d = 0 THEN q.file ELSE Append(q.file, u[3].n)
    OBVIOUS
  <2>8. n \in Nat /\ m \in -1 .. NakTries + CTries /\ m # -1 /\ q.num = r.num /\ q.file = r.file
    BY <1>11, <1>19, <2>5, <2>7, Tries DEF RSame
  <2>9. f \in Seq(Nat)
    <3>1. Append(r.file, u[3].n) \in Seq(Nat)
      BY <1>11, <2>4
    <3>2. QED
      BY Zenon, <1>11, <2>7, <2>8, <3>1
  <2>10. r' = RStore(q, m, n, f)
    BY Zenon, <1>24, <2>7 DEF Accept, RStore
  <2>11. RStored(r', q, m, n, f)
    BY Zenon, <1>19, <2>8, <2>9, <2>10, RStoreFields
  <2>12. /\ r' \in RSet /\ r'.num = n /\ r'.file = f /\ r'.success = q.success
         /\ r'.askCancel = q.askCancel /\ r'.in = q.in /\ r'.busy = q.busy
         /\ r'.state = q.state /\ r'.mode = q.mode /\ r'.pkt = q.pkt
         /\ r'.nakCount = m
    BY Zenon, <2>11 DEF RStored
  <2>13. r'.success = r.success
    BY Zenon, <1>19, <2>12 DEF RSame
  <2>14. RShape(r')
    BY <1>2, <1>5, <1>12, <1>19, <2>8, <2>12, <2>13 DEF RShape, Running
  <2>15. RTypes'
    BY Zenon, <1>17, <1>18, <1>19, <1>24, <2>12, <2>14 DEF RTypes
  <2>16. STypes'
    <3>1. "ACK" \in Words
      BY DEF Words
    <3>2. QED
      BY Zenon, <1>1, <1>2, <1>24, <3>1, Answered
  <2>17. RAccepts
    <3>1. u[3].is = "data"
      BY Zenon, <1>24 DEF XCheckPacket
    <3>2. r'.num = r.num + d /\ r'.file = IF d = 0 THEN r.file ELSE Append(r.file, u[3].n)
      BY Zenon, <2>7, <2>8, <2>12
    <3>3. \E k1 \in Nat : Shifted(toR, toR', k1)
      BY Zenon, <1>16, <1>17, <1>24
    <3>4. r'.mode = "SOH"
      BY Zenon, <1>19, <2>12
    <3>5. \E p \in Seq(Symbol), dd \in {0, 1} :
             /\ p = Append(r.pkt, toR[1]) /\ Len(p) > 3 /\ p[3].is = "data"
             /\ dd = (Byte(p[1]) - r.num) % BlkMod
             /\ r'.num = r.num + dd
             /\ r'.file = IF dd = 0 THEN r.file ELSE Append(r.file, p[3].n)
      BY Zenon, <1>8, <2>1, <2>2, <2>6, <3>1, <3>2
    <3>6. QED
      BY Zenon, <1>2, <1>12, <1>13, <1>24, <2>13, <3>3, <3>4, <3>5 DEF RAccepts
  <2>18. QED
    BY Zenon, <2>15, <2>16, <2>17 DEF RDone, RStep
<1>25. QED
  BY Zenon, <1>10, <1>22, <1>23, <1>24
-----------------------------------------------------------------------------
(* What a step of the sender is, seen from the line.                       *)

(* It reads nothing that changes what it sends.                            *)
SDrops ==
    /\ SSame(s', s) /\ s'.out = s.out /\ toR' = toR
    /\ s'.flag => s.flag
    /\ Running(s') <=> Running(s)
    /\ \E k \in Nat : Shifted(toS, toS', k)

(* It reads the answer, which makes it send.                               *)
STurns ==
    /\ Running(s) /\ Running(s') /\ toS # << >> /\ toS[1].is \in {"ACK", "NAK", "C"}
    /\ toS' = Tail(toS) /\ toR' = toR /\ s'.out = s.out
    /\ s'.sent = s.sent /\ s'.open = s.open /\ s'.success = s.success
    /\ s'.num = s.num \/ (toS[1].is = "ACK" /\ s.open /\ s'.num = s.sent)

(* It reads the answer to the end of the file.                             *)
SFinishes ==
    /\ Running(s) /\ toS # << >> /\ toS[1].is = "ACK" /\ ~s.open
    /\ s'.num = s.num /\ s'.sent = s.sent /\ s'.open = s.open
    /\ ~Running(s') /\ s'.out = s.out /\ s.out = << >> /\ toR' = toR

(* It ends without success.                                                *)
SGivesUp ==
    /\ ~Running(s') /\ s'.num = s.num /\ s'.sent = s.sent /\ s'.open = s.open /\ ~s'.success
    /\ toR' = toR \/ toR' = ToReceiver(Cancel)
    /\ \/ s'.out = << >> /\ (s.out = << >> \/ ~Running(s))
       \/ early' # 0

(* It sends the packet whose turn it is.                                   *)
SSends ==
    /\ Running(s) /\ Running(s') /\ s.flag /\ ~s'.flag /\ s.out = << >> /\ toS' = toS
    /\ s'.num = s.num /\ s'.success = s.success
    /\ s'.sent = IF s.sent = s.num THEN s.sent + 1 ELSE s.sent
    /\ s'.open <=> s.open /\ s'.sent <= Len(File)
    /\ \E pkt \in Seq(Symbol) : \E k \in 0 .. Len(pkt) :
          /\ pkt = PktOut(s.opt, s'.sent)
          /\ s'.out = Drop(pkt, k) /\ toR' = ToReceiver(SubSeq(pkt, 1, k))

(* It writes more of the packet.                                           *)
SWrites ==
    /\ SSame(s', s) /\ Running(s) /\ Running(s') /\ ~s'.flag
    /\ \E k \in 0 .. Len(s.out) :
          s'.out = Drop(s.out, k) /\ toR' = ToReceiver(SubSeq(s.out, 1, k))
    /\ \E k \in Nat : Shifted(toS, toS', k)

SStep == SDrops \/ STurns \/ SFinishes \/ SGivesUp \/ SSends \/ SWrites

SDone == RTypes' /\ STypes' /\ SStep
-----------------------------------------------------------------------------
(* The steps of the sender.                                                *)

LEMMA SFieldTypes ==
    ASSUME STypes
    PROVE  /\ s \in SSet /\ SShape(s) /\ toS \in Seq(Symbol) /\ s.in <= Len(toS)
           /\ s.in \in Nat /\ s.num \in Nat /\ s.sent \in Nat /\ s.out \in Seq(Symbol)
           /\ s.can \in 0 .. 3 /\ s.opt \in Opts /\ Len(toS) \in Nat
           /\ s.state \in States /\ s.open \in BOOLEAN
BY DEF STypes, SSet

LEMMA RKept ==
    ASSUME RTypes, toR' = toR, r' = r
    PROVE  RTypes'
BY Zenon DEF RTypes

LEMMA RCancelSent ==
    ASSUME RTypes, toR' = ToReceiver(Cancel), r' = r
    PROVE  RTypes'
BY Zenon, CancelSymbols, Received

(* The transfer of the sender is over.                                     *)
LEMMA SEnded ==
    ASSUME NEW q \in SSet, NEW g \in BOOLEAN, SEnd(q, g)
    PROVE  /\ STypes' /\ ~Running(s') /\ s'.num = q.num /\ s'.sent = q.sent /\ s'.open = q.open
           /\ (s'.success <=> g) /\ s'.out = << >>
<1>1. PICK u : u = << >>
  OBVIOUS
<1>2. u \in Seq(Symbol)
  BY <1>1
<1>3. s' = SStop(q, g, u) /\ toS' = u
  BY Zenon, <1>1 DEF SEnd, SStop
<1>4. SStopped(s', q, g, u)
  BY Zenon, <1>2, <1>3, SStopFields
<1>5. /\ s' \in SSet /\ s'.num = q.num /\ s'.sent = q.sent /\ s'.open = q.open
      /\ s'.success = g /\ s'.in = 0
      /\ s'.state = "ended" /\ s'.out = u /\ ~s'.busy /\ ~s'.flag
  BY Zenon, <1>4 DEF SStopped
<1>6. SShape(s') /\ ~Running(s')
  BY <1>1, <1>5 DEF SShape, Running
<1>7. toS' \in Seq(Symbol) /\ s'.in <= Len(toS')
  BY <1>1, <1>3, <1>5
<1>8. QED
  BY Zenon, <1>1, <1>5, <1>6, <1>7 DEF STypes

LEMMA DoneSFlush ==
    ASSUME XTypes, SFlush
    PROVE  SDone
<1>1. RTypes /\ STypes
  BY Zenon DEF XTypes
<1>2. PICK k \in 0 .. Len(toS) : toS' = Drop(toS, k)
  BY Zenon DEF SFlush
<1>3. s.state = "flush" /\ s' = SState(s, "normal") /\ r' = r /\ toR' = toR
  BY Zenon DEF SFlush, SState
<1>4. s \in SSet /\ SShape(s) /\ toS \in Seq(Symbol) /\ Len(toS) \in Nat
  BY Zenon, <1>1, SFieldTypes
<1>5. "normal" \in States
  BY DEF States
<1>6. SStated(s', s, "normal")
  BY Zenon, <1>3, <1>4, <1>5, SStateFields
<1>7. /\ s' \in SSet /\ SSame(s', s) /\ s'.in = s.in /\ s'.can = s.can
      /\ s'.state = "normal" /\ s'.out = s.out /\ s'.busy = s.busy /\ s'.flag = s.flag
  BY Zenon, <1>6 DEF SStated
<1>8. toS' \in Seq(Symbol) /\ Shifted(toS, toS', k) /\ k \in Nat /\ Len(toS') \in Nat
  BY <1>2, <1>4, DropShifts
<1>9. SShape(s') /\ Running(s) /\ Running(s') /\ s'.in = 0
  BY <1>3, <1>4, <1>7 DEF SShape, Running, SSame
<1>10. s'.in <= Len(toS')
  BY <1>8, <1>9
<1>11. STypes'
  BY Zenon, <1>7, <1>8, <1>9, <1>10 DEF STypes
<1>12. SDrops
  BY Zenon, <1>3, <1>7, <1>8, <1>9 DEF SDrops
<1>13. RTypes'
  BY Zenon, <1>1, <1>3, RKept
<1>14. QED
  BY Zenon, <1>11, <1>12, <1>13 DEF SDone, SStep

LEMMA DoneSArrive ==
    ASSUME XTypes, SArrive
    PROVE  SDone
<1>1. RTypes /\ STypes
  BY Zenon DEF XTypes
<1>2. PICK k \in s.in .. Len(toS) : s' = SMove(s, k)
  BY Zenon DEF SArrive, SMove
<1>3. s.state = "normal" /\ s.out = << >> /\ ~s.busy /\ r' = r /\ toS' = toS /\ toR' = toR
  BY Zenon DEF SArrive
<1>4. s \in SSet /\ SShape(s) /\ toS \in Seq(Symbol) /\ Len(toS) \in Nat /\ s.in \in Nat
  BY Zenon, <1>1, SFieldTypes
<1>5. k \in Nat /\ k <= Len(toS)
  BY <1>4
<1>6. SMoved(s', s, k)
  BY Zenon, <1>2, <1>4, <1>5, SMoveFields
<1>7. /\ s' \in SSet /\ SSame(s', s) /\ s'.in = k /\ s'.busy
      /\ s'.state = s.state /\ s'.out = s.out /\ s'.can = s.can /\ s'.flag = s.flag
  BY Zenon, <1>6 DEF SMoved
<1>8. SShape(s') /\ Running(s) /\ Running(s')
  BY <1>3, <1>4, <1>7 DEF SShape, Running, SSame
<1>9. STypes'
  BY Zenon, <1>3, <1>4, <1>5, <1>7, <1>8 DEF STypes
<1>10. SDrops
  <2>1. Shifted(toS, toS', 0)
    BY Zenon, <1>3, <1>4, StayShifts
  <2>2. 0 \in Nat
    OBVIOUS
  <2>3. QED
    BY Zenon, <1>3, <1>7, <1>8, <2>1, <2>2 DEF SDrops
<1>11. RTypes'
  BY Zenon, <1>1, <1>3, RKept
<1>12. QED
  BY Zenon, <1>9, <1>10, <1>11 DEF SDone, SStep

(* What the sender has read, q, when it has read one more answer.          *)
LEMMA DoneSRead ==
    ASSUME XTypes, SRead
    PROVE  SDone
<1>1. RTypes /\ STypes
  BY Zenon DEF XTypes
<1>2. s.state = "normal" /\ s.busy /\ s.in > 0 /\ r' = r /\ toR' = toR
  BY Zenon DEF SRead, SReading
<1>3. /\ s \in SSet /\ SShape(s) /\ toS \in Seq(Symbol) /\ Len(toS) \in Nat /\ s.in \in Nat
      /\ s.in <= Len(toS) /\ s.can \in 0 .. 3 /\ s.opt \in Opts /\ s.sent \in Nat
  BY Zenon, <1>1, SFieldTypes
<1>4. RTypes'
  BY Zenon, <1>1, <1>2, RKept
<1>5. toS # << >> /\ s.out = << >> /\ Running(s) /\ s.can # 3 /\ ~s.success
  BY <1>2, <1>3 DEF SShape, Running
<1>6. /\ Tail(toS) \in Seq(Symbol) /\ Shifted(toS, Tail(toS), 1) /\ Head(toS) = toS[1]
      /\ Len(Tail(toS)) = Len(toS) - 1
  BY Zenon, <1>3, <1>5, TailShifts
<1>7. PICK b : b = toS[1]
  OBVIOUS
<1>8. PICK k, c : k = s.in - 1 /\ c = IF b.is = "CAN" THEN s.can + 1 ELSE 0
  OBVIOUS
<1>9. k \in Nat /\ k <= Len(Tail(toS)) /\ c \in 0 .. 3 /\ (c = 3 => b.is = "CAN" /\ ~(s.can < 2))
  BY <1>2, <1>3, <1>5, <1>6, <1>8
<1>10. PICK q : q = STake(s, k, c)
  OBVIOUS
<1>11. STook(q, s, k, c)
  BY Zenon, <1>3, <1>9, <1>10, STakeFields
<1>12. /\ q \in SSet /\ SSame(q, s) /\ q.in = k /\ q.can = c
       /\ q.state = s.state /\ q.out = s.out /\ q.busy = s.busy /\ q.flag = s.flag
       /\ q.opt = s.opt
  BY Zenon, <1>11 DEF STook
<1>13. \/ b.is = "ACK" /\ ~s.open /\ SEnd(q, TRUE)
       \/ /\ b.is = "ACK" /\ s.open
          /\ s' = IF s.sent = s.num + 1 THEN [q EXCEPT !.num = s.sent, !.flag = TRUE] ELSE q
          /\ toS' = Tail(toS)
       \/ /\ b.is = "NAK"
          /\ s' = [q EXCEPT !.flag = TRUE, !.opt = IF AtStart /\ ~s.c43 THEN SumOpt(@) ELSE @]
          /\ toS' = Tail(toS)
       \/ b.is = "CAN" /\ s.can < 2 /\ s' = q /\ toS' = Tail(toS)
       \/ b.is = "CAN" /\ SEnd(q, FALSE)
       \/ /\ b.is = "C"
          /\ s' = IF AtStart THEN [q EXCEPT !.opt = CrcOpt(@), !.flag = TRUE, !.c43 = TRUE]
                             ELSE q
          /\ toS' = Tail(toS)
       \/ b.is = "noise" /\ s' = q /\ toS' = Tail(toS)
  BY Zenon, <1>6, <1>7, <1>8, <1>10 DEF SRead, STake
<1>14. ASSUME s'.in = q.in, s'.state = q.state, s'.out = q.out, s'.can = q.can, s' \in SSet,
              s'.busy = q.busy, s'.success = q.success, toS' = Tail(toS), q.can # 3
       PROVE  STypes' /\ Running(s')
  <2>1. SShape(s') /\ Running(s')
    BY <1>2, <1>5, <1>12, <1>14 DEF SShape, Running, SSame
  <2>2. QED
    BY Zenon, <1>6, <1>9, <1>12, <1>14, <2>1 DEF STypes
<1>15. CASE b.is = "ACK" /\ ~s.open /\ SEnd(q, TRUE)
  <2>1. /\ STypes' /\ ~Running(s') /\ s'.num = q.num /\ s'.sent = q.sent /\ s'.open = q.open
        /\ s'.out = << >>
    BY Zenon, <1>12, <1>15, SEnded
  <2>2. SFinishes
    BY Zenon, <1>2, <1>5, <1>7, <1>12, <1>15, <2>1 DEF SFinishes, SSame
  <2>3. QED
    BY Zenon, <1>4, <2>1, <2>2 DEF SDone, SStep
<1>16. CASE s' = q /\ toS' = Tail(toS) /\ q.can # 3
  <2>1. STypes' /\ Running(s')
    BY Zenon, <1>12, <1>14, <1>16
  <2>2. 1 \in Nat
    OBVIOUS
  <2>3. SDrops
    BY Zenon, <1>2, <1>5, <1>6, <1>12, <1>16, <2>1, <2>2 DEF SDrops
  <2>4. QED
    BY Zenon, <1>4, <2>1, <2>3 DEF SDone, SStep
<1>17. CASE b.is = "ACK" /\ s.open /\ s' = SAck(q, s.sent) /\ toS' = Tail(toS)
  <2>1. SAcked(s', q, s.sent)
    BY Zenon, <1>3, <1>12, <1>17, SAckFields
  <2>2. /\ s' \in SSet /\ s'.num = s.sent /\ s'.sent = q.sent /\ s'.open = q.open
        /\ s'.success = q.success /\ s'.in = q.in /\ s'.can = q.can
        /\ s'.state = q.state /\ s'.out = q.out /\ s'.busy = q.busy
    BY Zenon, <2>1 DEF SAcked
  <2>3. q.can # 3
    BY <1>9, <1>12, <1>17
  <2>4. STypes' /\ Running(s')
    BY Zenon, <1>14, <1>17, <2>2, <2>3
  <2>5. STurns
    BY Zenon, <1>2, <1>5, <1>7, <1>12, <1>17, <2>2, <2>4 DEF STurns, SSame
  <2>6. QED
    BY Zenon, <1>4, <2>4, <2>5 DEF SDone, SStep
<1>18. ASSUME s' \in SSet, SSame(s', q), s'.in = q.in, s'.can = q.can, s'.state = q.state,
              s'.out = q.out, s'.busy = q.busy, toS' = Tail(toS), b.is \in {"NAK", "C"}
       PROVE  SDone
  <2>1. q.can # 3
    BY <1>9, <1>12, <1>18
  <2>2. STypes' /\ Running(s')
    BY Zenon, <1>14, <1>18, <2>1 DEF SSame
  <2>3. toS[1].is \in {"ACK", "NAK", "C"}
    BY <1>7, <1>18
  <2>4. s'.sent = s.sent /\ s'.open = s.open /\ s'.success = s.success /\ s'.num = s.num
    BY Zenon, <1>12, <1>18 DEF SSame
  <2>5. s'.out = s.out /\ toS' = Tail(toS)
    BY Zenon, <1>12, <1>18
  <2>6. STurns
    BY Zenon, <1>2, <1>5, <2>2, <2>3, <2>4, <2>5 DEF STurns
  <2>7. QED
    BY Zenon, <1>4, <2>2, <2>6 DEF SDone, SStep
<1>19. CASE /\ b.is = "NAK" /\ toS' = Tail(toS)
            /\ s' = [q EXCEPT !.flag = TRUE, !.opt = IF AtStart /\ ~s.c43 THEN SumOpt(@) ELSE @]
  <2>1. PICK o : o = IF AtStart /\ ~s.c43 THEN SumOpt(q.opt) ELSE q.opt
    OBVIOUS
  <2>2. o \in Opts
    BY Zenon, <1>3, <1>12, <2>1, OptsOfOpts
  <2>3. s' = SNak(q, o)
    BY Zenon, <1>19, <2>1 DEF SNak
  <2>4. SNaked(s', q, o)
    BY Zenon, <1>12, <2>2, <2>3, SNakFields
  <2>5. QED
    BY Zenon, <1>18, <1>19, <2>4 DEF SNaked
<1>20. CASE b.is = "CAN" /\ SEnd(q, FALSE)
  <2>1. /\ STypes' /\ ~Running(s') /\ s'.num = q.num /\ s'.sent = q.sent /\ s'.open = q.open
        /\ s'.out = << >> /\ ~s'.success
    BY Zenon, <1>12, <1>20, SEnded
  <2>2. SGivesUp
    BY Zenon, <1>2, <1>5, <1>12, <2>1 DEF SGivesUp, SSame
  <2>3. QED
    BY Zenon, <1>4, <2>1, <2>2 DEF SDone, SStep
<1>21. CASE b.is = "C" /\ s' = [q EXCEPT !.opt = CrcOpt(@), !.flag = TRUE, !.c43 = TRUE] /\ toS' = Tail(toS)
  <2>1. PICK o : o = CrcOpt(q.opt)
    OBVIOUS
  <2>2. o \in Opts
    BY Zenon, <1>3, <1>12, <2>1, OptsOfOpts
  <2>3. s' = SCee(q, o)
    BY Zenon, <1>21, <2>1 DEF SCee
  <2>4. SCeed(s', q, o)
    BY Zenon, <1>12, <2>2, <2>3, SCeeFields
  <2>5. QED
    BY Zenon, <1>18, <1>21, <2>4 DEF SCeed
<1>22. (~(b.is = "CAN") \/ s.can < 2) => q.can # 3
  BY Zenon, <1>9, <1>12
<1>23. b.is \in {"ACK", "C", "noise"} => b.is # "CAN"
  OBVIOUS
<1>24. QED
  BY Zenon, <1>13, <1>15, <1>16, <1>17, <1>19, <1>20, <1>21, <1>22, <1>23 DEF SAck

(* PktOut is a sequence of symbols.                                        *)
LEMMA PktOutSymbols ==
    ASSUME NEW opt \in Opts, NEW n \in Nat
    PROVE  PktOut(opt, n) \in Seq(Symbol)
<1>1. << Ctl("EOT") >> \in Seq(Symbol)
  BY OneSymbol DEF Words
<1>2. Packet(opt, n) \in Seq(Symbol)
  BY Zenon, PacketSymbols
<1>3. QED
  BY Zenon, <1>1, <1>2 DEF PktOut

LEMMA PartOf ==
    ASSUME NEW p \in Seq(Symbol), NEW k \in 0 .. Len(p)
    PROVE  SubSeq(p, 1, k) \in Seq(Symbol) /\ Drop(p, k) \in Seq(Symbol)
BY DEF Drop

(* What Write leaves.                                                      *)
LEMMA Written ==
    ASSUME RTypes, r' = r, NEW q \in SSet, q.state = "normal", q.in = 0, q.can # 3, ~q.success,
           NEW pkt \in Seq(Symbol), toS' \in Seq(Symbol), Write(q, pkt)
    PROVE  /\ RTypes' /\ STypes' /\ SSame(s', q) /\ ~s'.flag /\ Running(s')
           /\ \E k \in 0 .. Len(pkt) : s'.out = Drop(pkt, k) /\ toR' = ToReceiver(SubSeq(pkt, 1, k))
<1>1. PICK k \in {Len(pkt)} \cup {c \in Cuts : c < Len(pkt)} :
         /\ s' = [q EXCEPT !.out = Drop(pkt, k), !.busy = FALSE, !.flag = FALSE, !.c43 = FALSE]
         /\ toR' = ToReceiver(SubSeq(pkt, 1, k))
  BY Zenon DEF Write
<1>2. k \in 0 .. Len(pkt)
  <2>1. Cuts \subseteq Nat
    BY Zenon, BoundAssumption
  <2>2. Len(pkt) \in Nat
    OBVIOUS
  <2>3. k = Len(pkt) \/ (k \in Cuts /\ k < Len(pkt))
    BY Zenon, <1>1
  <2>4. CASE k = Len(pkt)
    BY <2>2, <2>4
  <2>5. CASE k \in Cuts /\ k < Len(pkt)
    <3>1. k \in Nat
      BY Zenon, <2>1, <2>5
    <3>2. QED
      BY <2>2, <2>5, <3>1
  <2>6. QED
    BY Zenon, <2>3, <2>4, <2>5
<1>3. PICK u, v : u = Drop(pkt, k) /\ v = SubSeq(pkt, 1, k)
  OBVIOUS
<1>4. u \in Seq(Symbol) /\ v \in Seq(Symbol)
  BY Zenon, <1>2, <1>3, PartOf
<1>5. s' = SWritten(q, u)
  BY Zenon, <1>1, <1>3 DEF SWritten
<1>6. SWrote(s', q, u)
  BY Zenon, <1>4, <1>5, SWrittenFields
<1>7. /\ s' \in SSet /\ SSame(s', q) /\ s'.in = q.in /\ s'.can = q.can
      /\ s'.state = q.state /\ s'.out = u /\ ~s'.busy /\ ~s'.flag
  BY Zenon, <1>6 DEF SWrote
<1>8. SShape(s') /\ Running(s')
  BY <1>7 DEF SShape, Running, SSame
<1>9. s'.in <= Len(toS')
  BY <1>7
<1>10. RTypes'
  BY Zenon, <1>1, <1>3, <1>4, Received
<1>11. QED
  BY Zenon, <1>1, <1>2, <1>3, <1>7, <1>8, <1>9, <1>10 DEF STypes

LEMMA DoneSSend ==
    ASSUME XTypes, SSend
    PROVE  SDone
<1>1. RTypes /\ STypes
  BY Zenon DEF XTypes
<1>2. s.state = "normal" /\ s.busy /\ s.in = 0 /\ s.flag /\ r' = r /\ toS' = toS
  BY Zenon DEF SSend
<1>3. /\ s \in SSet /\ SShape(s) /\ toS \in Seq(Symbol) /\ s.num \in Nat /\ s.sent \in Nat
      /\ s.opt \in Opts /\ s.open \in BOOLEAN
  BY Zenon, <1>1, SFieldTypes
<1>4. s.out = << >> /\ Running(s) /\ s.can # 3 /\ ~s.success
  BY <1>2, <1>3 DEF SShape, Running
<1>5. PICK n : n = IF s.sent = s.num THEN s.sent + 1 ELSE s.sent
  OBVIOUS
<1>6. n \in Nat
  BY <1>3, <1>5
<1>7. PICK o : o = (s.open /\ n <= Len(File))
  OBVIOUS
<1>8. o \in BOOLEAN
  BY <1>3, <1>7
<1>9. PICK q, pkt : q = SNumber(s, n, o) /\ pkt = PktOut(s.opt, n)
  OBVIOUS
<1>10. Write(q, pkt)
  BY Zenon, <1>5, <1>7, <1>9 DEF SSend, SNumber
<1>11. SNumbered(q, s, n, o) /\ pkt \in Seq(Symbol)
  BY Zenon, <1>3, <1>6, <1>8, <1>9, SNumberFields, PktOutSymbols
<1>12. /\ q \in SSet /\ q.num = s.num /\ q.sent = n /\ q.open = o
       /\ q.success = s.success /\ q.in = s.in /\ q.can = s.can /\ q.state = s.state
  BY Zenon, <1>11 DEF SNumbered
<1>13. /\ RTypes' /\ STypes' /\ SSame(s', q) /\ ~s'.flag /\ Running(s')
       /\ \E k \in 0 .. Len(pkt) : s'.out = Drop(pkt, k) /\ toR' = ToReceiver(SubSeq(pkt, 1, k))
  BY Zenon, <1>1, <1>2, <1>3, <1>4, <1>10, <1>11, <1>12, Written
<1>14. /\ s'.num = s.num /\ s'.sent = n /\ (s'.open <=> s.open /\ n <= Len(File))
       /\ s'.success = s.success
  BY Zenon, <1>7, <1>12, <1>13 DEF SSame
<1>15. SSends
  <2>1. \E p \in Seq(Symbol) : \E k \in 0 .. Len(p) :
           /\ p = PktOut(s.opt, s'.sent)
           /\ s'.out = Drop(p, k) /\ toR' = ToReceiver(SubSeq(p, 1, k))
    BY Zenon, <1>9, <1>11, <1>13, <1>14
  <2>2. s'.sent = IF s.sent = s.num THEN s.sent + 1 ELSE s.sent
    BY Zenon, <1>5, <1>14
  <2>3. s'.open <=> s.open /\ s'.sent <= Len(File)
    BY Zenon, <1>14
  <2>4. QED
    BY Zenon, <1>2, <1>4, <1>13, <1>14, <2>1, <2>2, <2>3 DEF SSends
<1>16. QED
  BY Zenon, <1>13, <1>15 DEF SDone, SStep

LEMMA DoneSWriteMore ==
    ASSUME XTypes, SWriteMore
    PROVE  SDone
<1>1. RTypes /\ STypes
  BY Zenon DEF XTypes
<1>2. s.state = "normal" /\ s.out # << >> /\ Write(s, s.out) /\ r' = r
  BY Zenon DEF SWriteMore
<1>3. PICK k \in 0 .. Len(toS) : toS' = Drop(toS, k)
  BY Zenon DEF SWriteMore
<1>4. s \in SSet /\ SShape(s) /\ toS \in Seq(Symbol) /\ s.out \in Seq(Symbol) /\ Len(toS) \in Nat
  BY Zenon, <1>1, SFieldTypes
<1>5. s.in = 0 /\ Running(s) /\ s.can # 3 /\ ~s.success
  BY <1>2, <1>4 DEF SShape, Running
<1>6. toS' \in Seq(Symbol) /\ Shifted(toS, toS', k) /\ k \in Nat
  BY <1>3, <1>4, DropShifts
<1>7. /\ RTypes' /\ STypes' /\ SSame(s', s) /\ ~s'.flag /\ Running(s')
      /\ \E i \in 0 .. Len(s.out) : s'.out = Drop(s.out, i) /\ toR' = ToReceiver(SubSeq(s.out, 1, i))
  BY Zenon, <1>1, <1>2, <1>4, <1>5, <1>6, Written
<1>8. SWrites
  BY Zenon, <1>5, <1>6, <1>7 DEF SWrites
<1>9. QED
  BY Zenon, <1>7, <1>8 DEF SDone, SStep

LEMMA DoneSNothing ==
    ASSUME XTypes, SNothing
    PROVE  SDone
<1>1. RTypes /\ STypes
  BY Zenon DEF XTypes
<1>2. s.state = "normal" /\ s.busy /\ s' = SIdle(s) /\ r' = r /\ toR' = toR /\ toS' = toS /\ ~s.flag
  BY Zenon DEF SNothing, SIdle
<1>3. s \in SSet /\ SShape(s) /\ toS \in Seq(Symbol) /\ s.in <= Len(toS)
  BY Zenon, <1>1, SFieldTypes
<1>4. SIdled(s', s)
  BY Zenon, <1>2, <1>3, SIdleFields
<1>5. /\ s' \in SSet /\ SSame(s', s) /\ s'.in = s.in /\ s'.can = s.can
      /\ s'.state = s.state /\ s'.out = s.out /\ ~s'.busy /\ s'.flag = s.flag
  BY Zenon, <1>4 DEF SIdled
<1>6. SShape(s') /\ Running(s) /\ Running(s')
  BY <1>2, <1>3, <1>5 DEF SShape, Running, SSame
<1>7. STypes'
  BY Zenon, <1>2, <1>3, <1>5, <1>6 DEF STypes
<1>8. SDrops
  <2>1. Shifted(toS, toS', 0)
    BY Zenon, <1>2, <1>3, StayShifts
  <2>2. 0 \in Nat
    OBVIOUS
  <2>3. QED
    BY Zenon, <1>2, <1>5, <1>6, <2>1, <2>2 DEF SDrops
<1>9. RTypes'
  BY Zenon, <1>1, <1>2, RKept
<1>10. QED
  BY Zenon, <1>7, <1>8, <1>9 DEF SDone, SStep

LEMMA DoneSUserCancel ==
    ASSUME XTypes, SUserCancel
    PROVE  SDone
<1>1. RTypes /\ STypes
  BY Zenon DEF XTypes
<1>2. Running(s) /\ s' = SAsk(s) /\ r' = r /\ toR' = toR /\ toS' = toS
  BY Zenon DEF SUserCancel, SAsk
<1>3. s \in SSet /\ SShape(s) /\ toS \in Seq(Symbol) /\ s.in <= Len(toS)
  BY Zenon, <1>1, SFieldTypes
<1>4. SAsked(s', s)
  BY Zenon, <1>2, <1>3, SAskFields
<1>5. /\ s' \in SSet /\ SSame(s', s) /\ s'.in = s.in /\ s'.can = s.can
      /\ s'.state = s.state /\ s'.out = s.out /\ s'.busy = s.busy /\ s'.flag = s.flag
  BY Zenon, <1>4 DEF SAsked
<1>6. SShape(s') /\ Running(s')
  BY <1>2, <1>3, <1>5 DEF SShape, Running, SSame
<1>7. STypes'
  BY Zenon, <1>2, <1>3, <1>5, <1>6 DEF STypes
<1>8. SDrops
  <2>1. Shifted(toS, toS', 0)
    BY Zenon, <1>2, <1>3, StayShifts
  <2>2. 0 \in Nat
    OBVIOUS
  <2>3. QED
    BY Zenon, <1>2, <1>5, <1>6, <2>1, <2>2 DEF SDrops
<1>9. RTypes'
  BY Zenon, <1>1, <1>2, RKept
<1>10. QED
  BY Zenon, <1>7, <1>8, <1>9 DEF SDone, SStep

LEMMA DoneSSendCancel ==
    ASSUME XTypes, SSendCancel
    PROVE  SDone
<1>1. RTypes /\ STypes
  BY Zenon DEF XTypes
<1>2. /\ s.state = "normal" /\ s.busy /\ s' = SQuit(s) /\ r' = r /\ toR' = ToReceiver(Cancel)
      /\ toS' = toS
  BY Zenon DEF SSendCancel, SQuit
<1>3. s \in SSet /\ SShape(s) /\ toS \in Seq(Symbol) /\ s.in <= Len(toS)
  BY Zenon, <1>1, SFieldTypes
<1>4. SQuitted(s', s)
  BY Zenon, <1>2, <1>3, SQuitFields
<1>5. /\ s' \in SSet /\ SSame(s', s) /\ s'.in = s.in /\ s'.can = s.can
      /\ s'.state = "canceled" /\ s'.out = s.out /\ ~s'.busy /\ ~s'.flag
  BY Zenon, <1>4 DEF SQuitted
<1>6. SShape(s') /\ ~Running(s') /\ s.out = << >> /\ ~s'.success
  BY <1>2, <1>3, <1>5 DEF SShape, Running, SSame
<1>7. STypes'
  BY Zenon, <1>2, <1>3, <1>5, <1>6 DEF STypes
<1>8. SGivesUp
  BY Zenon, <1>2, <1>5, <1>6 DEF SGivesUp, SSame
<1>9. RTypes'
  BY Zenon, <1>1, <1>2, RCancelSent
<1>10. QED
  BY Zenon, <1>7, <1>8, <1>9 DEF SDone, SStep

LEMMA DoneSCanceled ==
    ASSUME XTypes, SCanceled
    PROVE  SDone
<1>1. RTypes /\ STypes
  BY Zenon DEF XTypes
<1>2. s.state = "canceled" /\ SEnd(s, FALSE) /\ r' = r /\ toR' = toR
  BY Zenon DEF SCanceled
<1>3. s \in SSet /\ ~Running(s)
  <2>1. s \in SSet
    BY Zenon, <1>1, SFieldTypes
  <2>2. QED
    BY <1>2, <2>1 DEF Running
<1>4. /\ STypes' /\ ~Running(s') /\ s'.num = s.num /\ s'.sent = s.sent /\ s'.open = s.open
      /\ s'.out = << >> /\ ~s'.success
  BY Zenon, <1>2, <1>3, SEnded
<1>5. SGivesUp
  BY Zenon, <1>2, <1>3, <1>4 DEF SGivesUp
<1>6. RTypes'
  BY Zenon, <1>1, <1>2, RKept
<1>7. QED
  BY Zenon, <1>4, <1>5, <1>6 DEF SDone, SStep

LEMMA DoneSTimeout ==
    ASSUME XTypes, STimeout
    PROVE  SDone
<1>1. RTypes /\ STypes
  BY Zenon DEF XTypes
<1>2. /\ Running(s) /\ ~s.busy /\ s' = SState(s, "canceled") /\ r' = r /\ toR' = toR /\ toS' = toS
      /\ Expires(Quiet /\ r.state = "ended")
  BY Zenon DEF STimeout, SenderTimer, SState
<1>3. s \in SSet /\ SShape(s) /\ toS \in Seq(Symbol) /\ s.in <= Len(toS)
  BY Zenon, <1>1, SFieldTypes
<1>4. "canceled" \in States
  BY DEF States
<1>5. SStated(s', s, "canceled")
  BY Zenon, <1>2, <1>3, <1>4, SStateFields
<1>6. /\ s' \in SSet /\ SSame(s', s) /\ s'.in = s.in /\ s'.can = s.can
      /\ s'.state = "canceled" /\ s'.out = s.out /\ s'.busy = s.busy /\ s'.flag = s.flag
  BY Zenon, <1>5 DEF SStated
<1>7. SShape(s') /\ ~Running(s') /\ ~s'.success
  BY <1>2, <1>3, <1>6 DEF SShape, Running, SSame
<1>8. STypes'
  BY Zenon, <1>2, <1>3, <1>6, <1>7 DEF STypes
<1>9. s.out = << >> \/ early' # 0
  <2>1. Quiet \/ early' = early + 1
    BY Zenon, <1>2 DEF Expires
  <2>2. early \in Nat
    BY BoundAssumption DEF XTypes, HTypes
  <2>3. early + 1 # 0
    BY <2>2
  <2>4. QED
    BY Zenon, <2>1, <2>3 DEF Quiet
<1>10. SGivesUp
  BY Zenon, <1>2, <1>6, <1>7, <1>9 DEF SGivesUp, SSame
<1>11. RTypes'
  BY Zenon, <1>1, <1>2, RKept
<1>12. QED
  BY Zenon, <1>8, <1>10, <1>11 DEF SDone, SStep
-----------------------------------------------------------------------------
(* A line on which symbols were read, lost or damaged.                     *)

(* f finds each symbol of p again in q; a symbol not found is damaged.     *)
ThinBy(q, p, f) ==
    /\ f \in [1 .. Len(p) -> 1 .. Len(q)]
    /\ \A i, j \in 1 .. Len(p) : i < j => f[i] < f[j]
    /\ \A j \in 1 .. Len(p) : p[j] = q[f[j]] \/ p[j] = Ctl("noise")

Thin(q, p) == \E f : ThinBy(q, p, f)

LEMMA ShiftedIsThin ==
    ASSUME NEW q \in Seq(Symbol), NEW p \in Seq(Symbol), NEW k \in Nat, Shifted(q, p, k)
    PROVE  Thin(q, p)
<1> DEFINE f == [j \in 1 .. Len(p) |-> j + k]
<1>1. Len(p) = Len(q) - k /\ Len(p) \in Nat /\ Len(q) \in Nat
  BY DEF Shifted
<1>2. f \in [1 .. Len(p) -> 1 .. Len(q)]
  BY <1>1
<1>3. \A j \in 1 .. Len(p) : f[j] = j + k
  OBVIOUS
<1> HIDE DEF f
<1>4. \A i, j \in 1 .. Len(p) : i < j => f[i] < f[j]
  BY <1>1, <1>3
<1>5. \A j \in 1 .. Len(p) : p[j] = q[f[j]]
  BY Zenon, <1>3 DEF Shifted
<1>6. QED
  BY Zenon, <1>2, <1>4, <1>5 DEF Thin, ThinBy

LEMMA LenIsNat ==
    ASSUME NEW q \in Seq(Symbol)
    PROVE  Len(q) \in Nat
OBVIOUS

LEMMA LossIsThin ==
    ASSUME NEW q \in Seq(Symbol), NEW i \in 1 .. Len(q)
    PROVE  /\ Lose(q, i) \in Seq(Symbol) /\ Len(Lose(q, i)) = Len(q) - 1
           /\ Thin(q, Lose(q, i))
<1>1. PICK p : p = SubSeq(q, 1, i - 1) \o SubSeq(q, i + 1, Len(q))
  OBVIOUS
<1>2. Lose(q, i) = p
  BY Zenon, <1>1 DEF Lose, RemoveAt
<1>3. /\ p \in Seq(Symbol) /\ Len(p) = Len(q) - 1 /\ Len(q) \in Nat
      /\ \A j \in 1 .. Len(p) : IF j < i THEN p[j] = q[j] ELSE p[j] = q[j + 1]
  <2>1. PICK x, y : x = SubSeq(q, 1, i - 1) /\ y = SubSeq(q, i + 1, Len(q))
    OBVIOUS
  <2>2. x \in Seq(Symbol) /\ Len(x) = i - 1 /\ \A j \in 1 .. i - 1 : x[j] = q[j]
    BY <2>1
  <2>3. /\ y \in Seq(Symbol) /\ Len(y) = Len(q) - i
        /\ \A j \in 1 .. Len(q) - i : y[j] = q[j + i]
    BY <2>1
  <2>4. p = x \o y /\ Len(q) \in Nat
    BY Zenon, <1>1, <2>1, LenIsNat
  <2>5. p \in Seq(Symbol) /\ Len(p) = Len(q) - 1
    BY <2>2, <2>3, <2>4
  <2>6. ASSUME NEW j \in 1 .. Len(p)
        PROVE  IF j < i THEN p[j] = q[j] ELSE p[j] = q[j + 1]
    <3>1. CASE j < i
      <4>1. p[j] = x[j] /\ j \in 1 .. i - 1
        BY <2>2, <2>3, <2>4, <2>5, <3>1
      <4>2. QED
        BY <2>2, <3>1, <4>1
    <3>2. CASE ~(j < i)
      <4>1. PICK h : h = j - (i - 1)
        OBVIOUS
      <4>2. p[j] = y[h] /\ h \in 1 .. Len(q) - i /\ h + i = j + 1
        BY <2>2, <2>3, <2>4, <2>5, <3>2, <4>1
      <4>3. y[h] = q[j + 1]
        BY Zenon, <2>3, <4>2
      <4>4. QED
        BY Zenon, <3>2, <4>2, <4>3
    <3>3. QED
      BY Zenon, <3>1, <3>2
  <2>7. QED
    BY Zenon, <2>4, <2>5, <2>6
<1> DEFINE f == [j \in 1 .. Len(p) |-> IF j < i THEN j ELSE j + 1]
<1>4. f \in [1 .. Len(p) -> 1 .. Len(q)]
  BY <1>3
<1>5. \A j \in 1 .. Len(p) : f[j] = IF j < i THEN j ELSE j + 1
  OBVIOUS
<1> HIDE DEF f
<1>6. \A a, b \in 1 .. Len(p) : a < b => f[a] < f[b]
  BY <1>3, <1>5
<1>7. ASSUME NEW j \in 1 .. Len(p)
      PROVE  p[j] = q[f[j]]
  <2>1. CASE j < i
    <3>1. p[j] = q[j]
      BY Zenon, <1>3, <2>1
    <3>2. f[j] = j
      BY <1>5, <2>1
    <3>3. QED
      BY Zenon, <3>1, <3>2
  <2>2. CASE ~(j < i)
    <3>1. p[j] = q[j + 1]
      BY Zenon, <1>3, <2>2
    <3>2. f[j] = j + 1
      BY <1>5, <2>2
    <3>3. QED
      BY Zenon, <3>1, <3>2
  <2>3. QED
    BY Zenon, <2>1, <2>2
<1>8. QED
  BY Zenon, <1>2, <1>3, <1>4, <1>6, <1>7 DEF Thin, ThinBy

LEMMA DamageIsThin ==
    ASSUME NEW q \in Seq(Symbol), NEW i \in 1 .. Len(q)
    PROVE  /\ Damage(q, i) \in Seq(Symbol) /\ Len(Damage(q, i)) = Len(q)
           /\ Thin(q, Damage(q, i))
<1>1. PICK x : x = Ctl("noise")
  OBVIOUS
<1>2. x \in Symbol
  BY <1>1 DEF Ctl, Symbol
<1>3. PICK p : p = [q EXCEPT ![i] = x]
  OBVIOUS
<1>4. Damage(q, i) = p
  BY Zenon, <1>1, <1>3 DEF Damage, ReplaceAt
<1>5. /\ p \in Seq(Symbol) /\ Len(p) = Len(q) /\ Len(q) \in Nat
      /\ \A j \in 1 .. Len(p) : p[j] = q[j] \/ p[j] = x
  BY <1>2, <1>3
<1> DEFINE f == [j \in 1 .. Len(p) |-> j]
<1>6. f \in [1 .. Len(p) -> 1 .. Len(q)] /\ \A j \in 1 .. Len(p) : f[j] = j
  BY <1>5
<1> HIDE DEF f
<1>7. \A a, b \in 1 .. Len(p) : a < b => f[a] < f[b]
  BY Zenon, <1>6
<1>8. QED
  BY Zenon, <1>1, <1>4, <1>5, <1>6, <1>7 DEF Thin, ThinBy

LEMMA ThinBefore ==
    ASSUME NEW q \in Seq(Symbol), NEW p \in Seq(Symbol), NEW o \in Seq(Symbol), Thin(q, p)
    PROVE  Thin(q \o o, p \o o)
<1>1. PICK f : ThinBy(q, p, f)
  BY Zenon DEF Thin
<1>2. PICK a, b, c : a = Len(p) /\ b = Len(q) /\ c = Len(o)
  OBVIOUS
<1>3. a \in Nat /\ b \in Nat /\ c \in Nat
  BY <1>2
<1>4. PICK u, v : u = q \o o /\ v = p \o o
  OBVIOUS
<1>5. /\ Len(v) = a + c /\ Len(u) = b + c
      /\ \A j \in 1 .. a : v[j] = p[j] 
      /\ \A j \in 1 .. b : u[j] = q[j]
      /\ \A j \in a + 1 .. a + c : v[j] = o[j - a]
      /\ \A j \in b + 1 .. b + c : u[j] = o[j - b]
  BY <1>2, <1>4
<1> DEFINE g == [j \in 1 .. Len(v) |-> IF j <= a THEN f[j] ELSE j - a + b]
<1>6. \A j \in 1 .. Len(v) : g[j] = IF j <= a THEN f[j] ELSE j - a + b
  OBVIOUS
<1>7. /\ \A j \in 1 .. a : f[j] \in 1 .. b /\ (p[j] = q[f[j]] \/ p[j] = Ctl("noise"))
      /\ \A i, j \in 1 .. a : i < j => f[i] < f[j]
  BY Zenon, <1>1, <1>2 DEF ThinBy
<1>8. g \in [1 .. Len(v) -> 1 .. Len(u)]
  <2>1. ASSUME NEW j \in 1 .. Len(v)
        PROVE  (IF j <= a THEN f[j] ELSE j - a + b) \in 1 .. Len(u)
    BY <1>3, <1>5, <1>7
  <2>2. QED
    BY Zenon, <2>1
<1> HIDE DEF g
<1>9. ASSUME NEW i \in 1 .. Len(v), NEW j \in 1 .. Len(v), i < j
      PROVE  g[i] < g[j]
  <2>1. CASE j <= a
    <3>1. i \in 1 .. a /\ j \in 1 .. a /\ i <= a
      BY <1>3, <1>9, <2>1
    <3>2. g[i] = f[i] /\ g[j] = f[j]
      BY Zenon, <1>6, <2>1, <3>1
    <3>3. f[i] < f[j]
      BY Zenon, <1>7, <1>9, <3>1
    <3>4. QED
      BY Zenon, <3>2, <3>3
  <2>2. CASE i <= a /\ ~(j <= a)
    <3>1. f[i] \in 1 .. b /\ g[i] = f[i] /\ g[j] = j - a + b
      BY <1>3, <1>5, <1>6, <1>7, <2>2
    <3>2. QED
      BY <1>3, <1>5, <2>2, <3>1
  <2>3. CASE ~(i <= a)
    <3>1. ~(j <= a) /\ i \in Int /\ j \in Int
      BY <1>3, <1>5, <1>9, <2>3
    <3>2. g[i] = i - a + b /\ g[j] = j - a + b
      BY Zenon, <1>6, <2>3, <3>1
    <3>3. QED
      BY <1>3, <1>9, <3>1, <3>2
  <2>4. QED
    BY <1>3, <2>1, <2>2, <2>3
<1>10. ASSUME NEW j \in 1 .. Len(v)
       PROVE  v[j] = u[g[j]] \/ v[j] = Ctl("noise")
  <2>1. CASE j <= a
    <3>1. j \in 1 .. a /\ g[j] = f[j]
      BY <1>3, <1>6, <2>1
    <3>2. QED
      BY Zenon, <1>5, <1>7, <3>1
  <2>2. CASE ~(j <= a)
    <3>1. /\ j \in a + 1 .. a + c /\ g[j] = j - a + b /\ g[j] \in b + 1 .. b + c
          /\ g[j] - b = j - a
      BY <1>3, <1>5, <1>6, <2>2
    <3>2. QED
      BY Zenon, <1>5, <3>1
  <2>3. QED
    BY Zenon, <2>1, <2>2
<1>11. QED
  BY Zenon, <1>4, <1>8, <1>9, <1>10 DEF Thin, ThinBy

LEMMA ThinBehind ==
    ASSUME NEW q \in Seq(Symbol), NEW p \in Seq(Symbol), NEW o \in Seq(Symbol), Thin(q, p)
    PROVE  Thin(o \o q, o \o p)
<1>1. PICK f : ThinBy(q, p, f)
  BY Zenon DEF Thin
<1>2. PICK a, b, c : a = Len(p) /\ b = Len(q) /\ c = Len(o)
  OBVIOUS
<1>3. a \in Nat /\ b \in Nat /\ c \in Nat
  BY <1>2
<1>4. PICK u, v : u = o \o q /\ v = o \o p
  OBVIOUS
<1>5. /\ Len(v) = c + a /\ Len(u) = c + b
      /\ \A j \in 1 .. c : v[j] = o[j] /\ u[j] = o[j]
      /\ \A j \in c + 1 .. c + a : v[j] = p[j - c]
      /\ \A j \in c + 1 .. c + b : u[j] = q[j - c]
  BY <1>2, <1>4
<1> DEFINE g == [j \in 1 .. Len(v) |-> IF j <= c THEN j ELSE f[j - c] + c]
<1>6. \A j \in 1 .. Len(v) : g[j] = IF j <= c THEN j ELSE f[j - c] + c
  OBVIOUS
<1>7. /\ \A j \in 1 .. a : f[j] \in 1 .. b /\ (p[j] = q[f[j]] \/ p[j] = Ctl("noise"))
      /\ \A i, j \in 1 .. a : i < j => f[i] < f[j]
  BY Zenon, <1>1, <1>2 DEF ThinBy
<1>8. g \in [1 .. Len(v) -> 1 .. Len(u)]
  <2>1. ASSUME NEW j \in 1 .. Len(v)
        PROVE  (IF j <= c THEN j ELSE f[j - c] + c) \in 1 .. Len(u)
    <3>1. CASE j <= c
      BY <1>3, <1>5, <3>1
    <3>2. CASE ~(j <= c)
      <4>1. j - c \in 1 .. a
        BY <1>3, <1>5, <3>2
      <4>2. f[j - c] \in 1 .. b
        BY Zenon, <1>7, <4>1
      <4>3. QED
        BY <1>3, <1>5, <3>2, <4>2
    <3>3. QED
      BY Zenon, <3>1, <3>2
  <2>2. QED
    BY Zenon, <2>1
<1> HIDE DEF g
<1>9. ASSUME NEW i \in 1 .. Len(v), NEW j \in 1 .. Len(v), i < j
      PROVE  g[i] < g[j]
  <2>1. CASE j <= c
    BY <1>3, <1>6, <1>9, <2>1
  <2>2. CASE i <= c /\ ~(j <= c)
    <3>1. j - c \in 1 .. a
      BY <1>3, <1>5, <2>2
    <3>2. f[j - c] \in 1 .. b /\ g[i] = i /\ g[j] = f[j - c] + c
      BY <1>6, <1>7, <2>2, <3>1
    <3>3. QED
      BY <1>3, <2>2, <3>2
  <2>3. CASE ~(i <= c)
    <3>1. i - c \in 1 .. a /\ j - c \in 1 .. a /\ i - c < j - c /\ ~(j <= c)
      BY <1>3, <1>5, <1>9, <2>3
    <3>2. f[i - c] \in 1 .. b /\ f[j - c] \in 1 .. b /\ f[i - c] < f[j - c]
      BY Zenon, <1>7, <3>1
    <3>3. g[i] = f[i - c] + c /\ g[j] = f[j - c] + c
      BY <1>6, <2>3, <3>1
    <3>4. QED
      BY <1>3, <3>2, <3>3
  <2>4. QED
    BY Zenon, <2>1, <2>2, <2>3
<1>10. ASSUME NEW j \in 1 .. Len(v)
       PROVE  v[j] = u[g[j]] \/ v[j] = Ctl("noise")
  <2>1. CASE j <= c
    <3>1. j \in 1 .. c /\ g[j] = j
      BY <1>3, <1>6, <2>1
    <3>2. QED
      BY Zenon, <1>5, <3>1
  <2>2. CASE ~(j <= c)
    <3>1. j - c \in 1 .. a /\ j \in c + 1 .. c + a
      BY <1>3, <1>5, <2>2
    <3>2. g[j] = f[j - c] + c
      BY <1>6, <2>2
    <3>3. f[j - c] \in 1 .. b /\ (p[j - c] = q[f[j - c]] \/ p[j - c] = Ctl("noise"))
      BY Zenon, <1>7, <3>1
    <3>4. g[j] \in c + 1 .. c + b /\ g[j] - c = f[j - c]
      <4>1. PICK x, y : x = g[j] /\ y = f[j - c]
        OBVIOUS
      <4>2. x = y + c /\ y \in 1 .. b
        BY Zenon, <3>2, <3>3, <4>1
      <4>3. x \in c + 1 .. c + b /\ x - c = y
        BY <1>3, <4>2
      <4>4. QED
        BY Zenon, <4>1, <4>3
    <3>5. v[j] = p[j - c] /\ u[g[j]] = q[f[j - c]]
      BY Zenon, <1>5, <3>1, <3>4
    <3>6. QED
      BY Zenon, <3>3, <3>5
  <2>3. QED
    BY Zenon, <2>1, <2>2
<1>11. QED
  BY Zenon, <1>4, <1>8, <1>9, <1>10 DEF Thin, ThinBy
-----------------------------------------------------------------------------
(* The types, in every step.                                               *)

RSide ==
    \/ RFlush \/ RArrive \/ RReadSOH \/ RReadBLK \/ RReadBLK2 \/ RReadDATA \/ RPacket
    \/ RCanceled \/ RTimeout \/ RUserCancel

SSide ==
    \/ SFlush \/ SArrive \/ SRead \/ SSend \/ SNothing \/ SWriteMore \/ SSendCancel
    \/ SCanceled \/ STimeout \/ SUserCancel

LEMMA Sides == Next => RSide \/ SSide \/ LineFault
BY Zenon DEF Next, Receiver, Sender, Timers, User, RSide, SSide

LEMMA RSideDone ==
    ASSUME XTypes, RSide
    PROVE  RDone /\ s' = s /\ faults' = faults
<1>1. RDone
  BY Zenon, DoneRFlush, DoneRArrive, DoneRReadSOH, DoneRReadBLK, DoneRReadBLK2, DoneRReadDATA,
     DoneRPacket, DoneRCanceled, DoneRTimeout, DoneRUserCancel DEF RSide
<1>2. s' = s /\ faults' = faults
  BY Zenon DEF RSide, RFlush, RArrive, RReadSOH, RReadBLK, RReadBLK2, RReadDATA, RPacket,
     RCanceled, RTimeout, RUserCancel
<1>3. QED
  BY Zenon, <1>1, <1>2

LEMMA SSideDone ==
    ASSUME XTypes, SSide
    PROVE  SDone /\ r' = r /\ faults' = faults
<1>1. SDone
  BY Zenon, DoneSFlush, DoneSArrive, DoneSRead, DoneSSend, DoneSNothing, DoneSWriteMore,
     DoneSSendCancel, DoneSCanceled, DoneSTimeout, DoneSUserCancel DEF SSide
<1>2. r' = r /\ faults' = faults
  BY Zenon DEF SSide, SFlush, SArrive, SRead, SSend, SNothing, SWriteMore, SSendCancel,
     SCanceled, STimeout, SUserCancel
<1>3. QED
  BY Zenon, <1>1, <1>2

(* A fault thins one of the two lines, behind what has arrived.            *)
Faulted ==
    /\ r' = r /\ s' = s /\ early' = early /\ misread' = misread
    /\ RTypes' /\ STypes' /\ HTypes'
    /\ (toR' = toR \/ Thin(toR, toR')) /\ (toS' = toS \/ Thin(toS, toS'))

LEMMA CutOf ==
    ASSUME NEW q \in Seq(Symbol), NEW k \in Nat, NEW i \in k + 1 .. Len(q), NEW p,
           p \in {Lose(q, i), Damage(q, i)}
    PROVE  p \in Seq(Symbol) /\ k <= Len(p) /\ Thin(q, p)
<1>1. i \in 1 .. Len(q) /\ k + 1 <= Len(q) /\ Len(q) \in Nat
  OBVIOUS
<1>2. p \in Seq(Symbol) /\ Thin(q, p) /\ (Len(p) = Len(q) - 1 \/ Len(p) = Len(q))
  BY Zenon, <1>1, LossIsThin, DamageIsThin
<1>3. k <= Len(p)
  BY <1>1, <1>2
<1>4. QED
  BY Zenon, <1>2, <1>3

LEMMA DoneLineFault ==
    ASSUME XTypes, LineFault
    PROVE  Faulted
<1>1. RTypes /\ STypes /\ HTypes
  BY Zenon DEF XTypes
<1>2. r' = r /\ s' = s /\ early' = early /\ misread' = misread
  BY Zenon DEF LineFault
<1>3. HTypes'
  <2>1. faults < MaxFaults /\ faults' = faults + 1
    BY Zenon DEF LineFault
  <2>2. faults \in 0 .. MaxFaults /\ MaxFaults \in Nat
    BY Zenon, <1>1, BoundAssumption DEF HTypes
  <2>3. faults' \in 0 .. MaxFaults
    BY <2>1, <2>2
  <2>4. QED
    BY Zenon, <1>1, <1>2, <2>3 DEF HTypes
<1>4. CASE \E i \in r.in + 1 .. Len(toR) : toR' \in {Lose(toR, i), Damage(toR, i)} /\ toS' = toS
  <2>1. r \in RSet /\ RShape(r) /\ toR \in Seq(Symbol) /\ r.in \in Nat
    BY Zenon, <1>1, RFieldTypes
  <2>2. PICK i \in r.in + 1 .. Len(toR) : toR' \in {Lose(toR, i), Damage(toR, i)}
    BY Zenon, <1>4
  <2>3. toR' \in Seq(Symbol) /\ r.in <= Len(toR') /\ Thin(toR, toR')
    BY Zenon, <2>1, <2>2, CutOf
  <2>4. RTypes'
    BY Zenon, <1>2, <2>1, <2>3 DEF RTypes
  <2>5. STypes'
    BY Zenon, <1>1, <1>2, <1>4, SKept
  <2>6. QED
    BY Zenon, <1>2, <1>3, <1>4, <2>3, <2>4, <2>5 DEF Faulted
<1>5. CASE \E i \in s.in + 1 .. Len(toS) : toS' \in {Lose(toS, i), Damage(toS, i)} /\ toR' = toR
  <2>1. s \in SSet /\ SShape(s) /\ toS \in Seq(Symbol) /\ s.in \in Nat
    BY Zenon, <1>1, SFieldTypes
  <2>2. PICK i \in s.in + 1 .. Len(toS) : toS' \in {Lose(toS, i), Damage(toS, i)}
    BY Zenon, <1>5
  <2>3. toS' \in Seq(Symbol) /\ s.in <= Len(toS') /\ Thin(toS, toS')
    BY Zenon, <2>1, <2>2, CutOf
  <2>4. STypes'
    BY Zenon, <1>2, <2>1, <2>3 DEF STypes
  <2>5. RTypes'
    BY Zenon, <1>1, <1>2, <1>5, RKept
  <2>6. QED
    BY Zenon, <1>2, <1>3, <1>5, <2>3, <2>4, <2>5 DEF Faulted
<1>6. QED
  BY Zenon, <1>4, <1>5 DEF LineFault

(* Timeouts are counted, and what was misread stays so.                    *)
LEMMA Counted ==
    ASSUME XTypes, RSide \/ SSide
    PROVE  early' \in 0 .. MaxEvents /\ misread' \in BOOLEAN /\ (Clean' => Clean)
<1>1. early \in 0 .. MaxEvents /\ misread \in BOOLEAN /\ MaxEvents \in Nat
  BY Zenon, BoundAssumption DEF XTypes, HTypes
<1>2. CASE early' = early /\ misread' = misread
  BY Zenon, <1>1, <1>2 DEF Clean
<1>3. ASSUME NEW x, x = misread', early' = early, \E y \in BOOLEAN : x = (misread \/ y)
      PROVE  early' \in 0 .. MaxEvents /\ misread' \in BOOLEAN /\ (Clean' => Clean)
  <2>1. x \in BOOLEAN /\ (misread => x)
    BY <1>1, <1>3
  <2>2. QED
    BY Zenon, <1>1, <1>3, <2>1 DEF Clean
<1>4. CASE RReadSOH
  <2>1. early' = early
    BY Zenon, <1>4 DEF RReadSOH
  <2>2. \/ misread' = misread
        \/ misread' = (misread \/ ~(Genuine(Head(toR), "SOH") \/ Genuine(Head(toR), "STX")))
        \/ misread' = (misread \/ ~Genuine(Head(toR), "EOT"))
        \/ misread' = (misread \/ ~Genuine(Head(toR), "CAN"))
    BY Zenon, <1>4 DEF RReadSOH
  <2>3. \A a : (~a) \in BOOLEAN
    OBVIOUS
  <2>4. CASE misread' = misread
    BY Zenon, <1>2, <2>1, <2>4
  <2>5. QED
    BY Zenon, <1>3, <2>1, <2>2, <2>3, <2>4
<1>5. ASSUME NEW due, Expires(due), misread' = misread
      PROVE  early' \in 0 .. MaxEvents /\ misread' \in BOOLEAN /\ (Clean' => Clean)
  <2>1. CASE early' = early
    BY Zenon, <1>2, <1>5, <2>1
  <2>2. CASE Events < MaxEvents /\ early' = early + 1
    <3>1. Asked(r) \in {0, 1} /\ Asked(s) \in {0, 1}
      BY Zenon DEF Asked
    <3>2. Events = early + Asked(r) + Asked(s)
      BY Zenon DEF Events
    <3>3. early' \in 0 .. MaxEvents /\ early' # 0
      BY <1>1, <2>2, <3>1, <3>2
    <3>4. QED
      BY Zenon, <1>1, <1>5, <3>3 DEF Clean
  <2>3. QED
    BY Zenon, <1>5, <2>1, <2>2 DEF Expires
<1>6. CASE RTimeout \/ STimeout
  BY Zenon, <1>5, <1>6 DEF RTimeout, STimeout
<1>7. CASE RFlush \/ RArrive \/ RReadBLK \/ RReadBLK2 \/ RReadDATA \/ RPacket \/ RCanceled \/ RUserCancel
  BY Zenon, <1>2, <1>7 DEF RFlush, RArrive, RReadBLK, RReadBLK2, RReadDATA, RPacket, RCanceled,
     RUserCancel
<1>8. CASE SFlush \/ SArrive \/ SRead \/ SSend \/ SNothing \/ SWriteMore \/ SSendCancel \/ SCanceled \/ SUserCancel
  BY Zenon, <1>2, <1>8 DEF SFlush, SArrive, SRead, SSend, SNothing, SWriteMore, SSendCancel,
     SCanceled, SUserCancel
<1>9. QED
  BY Zenon, <1>4, <1>6, <1>7, <1>8 DEF RSide, SSide

LEMMA XTypesInit == Init => XTypes
<1> SUFFICES ASSUME Init
             PROVE  XTypes
  OBVIOUS
<1>1. PICK a \in ReceiverOpts : r = ReceiverInit(a)
  BY Zenon DEF Init
<1>2. PICK b \in SenderOpts : s = SenderInit(b)
  BY Zenon DEF Init
<1>3. a \in Opts /\ b \in Opts
  BY Zenon, OptAssumption
<1>4. PICK e : e = << >>
  OBVIOUS
<1>5. e \in Seq(Symbol) /\ e \in Seq(Nat)
  BY <1>4
<1>6. PICK m : m = NakModeOf(a)
  OBVIOUS
<1>7. m \in {"C", "NAK"}
  BY Zenon, <1>6 DEF NakModeOf
<1>8. PICK k : k = TriesOf(m) - 1
  OBVIOUS
<1>9. k \in -1 .. NakTries + CTries /\ k # -1
  BY <1>8, Tries DEF TriesOf
<1>10. r = [state |-> "flush", mode |-> "SOH", pkt |-> e, num |-> 0, opt |-> a,
            nakMode |-> m, nakCount |-> k, can |-> 0, in |-> 0, busy |-> FALSE,
            askCancel |-> FALSE, success |-> FALSE, file |-> e]
  BY Zenon, <1>1, <1>4, <1>6, <1>8 DEF ReceiverInit
<1>11. r \in RSet /\ RShape(r) /\ r.in = 0 /\ r.nakMode = m
  BY <1>3, <1>4, <1>5, <1>7, <1>9, <1>10 DEF RSet, RShape, States, Modes, Running
<1>12. s = [state |-> "flush", opt |-> b, num |-> 0, sent |-> 0, out |-> e, open |-> TRUE,
            can |-> 0, in |-> 0, busy |-> FALSE, flag |-> FALSE, c43 |-> FALSE,
            askCancel |-> FALSE, success |-> FALSE]
  BY Zenon, <1>2, <1>4 DEF SenderInit
<1>13. s \in SSet /\ SShape(s) /\ s.in = 0
  BY <1>3, <1>4, <1>5, <1>12 DEF SSet, SShape, States
<1>14. m \in Words
  BY <1>7 DEF Words
<1>15. /\ toR = << >> /\ toS = << Ctl(m) >>
       /\ faults = 0 /\ early = 0 /\ misread = FALSE
  BY Zenon, <1>11 DEF Init
<1>16. toR \in Seq(Symbol) /\ r.in <= Len(toR)
  BY <1>11, <1>15
<1>17. toS \in Seq(Symbol) /\ s.in <= Len(toS)
  <2>1. toS \in Seq(Symbol) /\ Len(toS) = 1
    BY Zenon, <1>14, <1>15, OneSymbol
  <2>2. QED
    BY <1>13, <2>1
<1>18. HTypes
  <2>1. MaxFaults \in Nat /\ MaxEvents \in Nat
    BY Zenon, BoundAssumption
  <2>2. 0 \in 0 .. MaxFaults /\ 0 \in 0 .. MaxEvents /\ FALSE \in BOOLEAN
    BY <2>1
  <2>3. QED
    BY Zenon, <1>15, <2>2 DEF HTypes
<1>19. QED
  BY Zenon, <1>11, <1>13, <1>16, <1>17, <1>18 DEF XTypes, RTypes, STypes

LEMMA XTypesStep ==
    ASSUME XTypes, [Next]_vars
    PROVE  XTypes'
<1>1. CASE RSide
  BY Zenon, <1>1, RSideDone, Counted DEF XTypes, HTypes, RDone
<1>2. CASE SSide
  BY Zenon, <1>2, SSideDone, Counted DEF XTypes, HTypes, SDone
<1>3. CASE LineFault
  BY Zenon, <1>3, DoneLineFault DEF XTypes, Faulted
<1>4. CASE UNCHANGED vars
  BY Zenon, <1>4 DEF vars, XTypes, RTypes, STypes, HTypes
<1>5. QED
  BY Zenon, <1>1, <1>2, <1>3, <1>4, Sides

(* The records and the lines hold what the code can put there, and neither *)
(* program counts more bytes as arrived than stand on its line.            *)
THEOREM XTypeCorrect == Spec => []TypeOK
<1>1. XTypes => TypeOK
  BY Zenon DEF XTypes, RTypes, STypes, HTypes, TypeOK, RSet, SSet, Modes
<1>2. QED
  BY <1>1, XTypesInit, XTypesStep, PTL DEF Spec
-----------------------------------------------------------------------------
(* The answers are matched with the right block.                           *)

(* What the sender has handed over and the receiver has not read.          *)
Line == toR \o s.out

Answering == {"ACK", "NAK", "C"}
Heading == {"SOH", "STX", "EOT"}

None(q, K) == \A i \in 1 .. Len(q) : q[i].is \notin K
Once(q, K) == \A i, j \in 1 .. Len(q) : q[i].is \in K /\ q[j].is \in K => i = j

(* What stands for the number of a block and for its complement.           *)
NumberOf(n) == {[is |-> "blk", n |-> n % BlkMod], Ctl("noise")}
ComplementOf(n) == {[is |-> "com", n |-> n % BlkMod], Ctl("noise")}

(* Behind the place i stands at most one block, the one numbered n, with   *)
(* its number or a damaged byte in front of it.                            *)
Stands(q, i, n) ==
    \A j \in i + 1 .. Len(q) : q[j].is = "data" =>
        /\ j <= i + 3 /\ q[j].n = n
        /\ j = i + 3 => /\ q[i + 1] \in NumberOf(n)
                        /\ q[i + 2] \in ComplementOf(n)

(* Every head on the line is the head of the packet of n.                  *)
HeadsFit(q, n) ==
    \A i \in 1 .. Len(q) :
        /\ q[i].is \in {"SOH", "STX"} => Stands(q, i, n) /\ 1 <= n /\ n <= Len(File)
        /\ q[i].is = "EOT" => n > Len(File)

(* The two counts are at most one block apart.                             *)
Numbers ==
    /\ s.num <= r.num /\ r.num <= s.sent /\ s.sent <= s.num + 1
    /\ r.num <= Len(File)
    /\ s.open <=> s.sent <= Len(File)

(* Packet and answer alternate: one head or one answer is under way, or    *)
(* one of the two programs is about to send.                               *)
Tokens ==
    Running(s) =>
        /\ Once(toS, Answering)
        /\ s.flag => None(toS, Answering)
        /\ Running(r) =>
             /\ Once(Line, Heading)
             /\ r.mode # "SOH" => None(Line, Heading)
             /\ (None(toS, Answering) /\ ~s.flag) \/ (None(Line, Heading) /\ r.mode = "SOH")

(* The packet under way is the one of the block sent last.                 *)
Live ==
    Running(r) =>
        /\ HeadsFit(Line, s.sent)
        /\ r.mode # "SOH" =>
              Stands(r.pkt \o Line, 0, s.sent) /\ 1 <= s.sent /\ s.sent <= Len(File)

(* An acknowledgement under way is the one of the block sent last.         *)
Acks ==
    Running(s) /\ ~None(toS, {"ACK"}) => IF s.open THEN r.num = s.sent ELSE r.success

Ends == (r.success => r.num = Len(File)) /\ (s.success => r.success)

Silent == ~Running(s) => s.out = << >>

Agree == Numbers /\ FileInOrder /\ Tokens /\ Live /\ Acks /\ Ends /\ Silent

XInv == XTypes /\ (Clean => Agree)
-----------------------------------------------------------------------------
(* What is thinned keeps what it is.                                       *)

LEMMA ThinNone ==
    ASSUME NEW q \in Seq(Symbol), NEW p \in Seq(Symbol), Thin(q, p), NEW K, "noise" \notin K,
           None(q, K)
    PROVE  None(p, K)
<1>1. PICK f : ThinBy(q, p, f)
  BY Zenon DEF Thin
<1>2. ASSUME NEW i \in 1 .. Len(p)
      PROVE  p[i].is \notin K
  <2>1. f[i] \in 1 .. Len(q) /\ (p[i] = q[f[i]] \/ p[i] = Ctl("noise"))
    BY Zenon, <1>1 DEF ThinBy
  <2>2. CASE p[i] = q[f[i]]
    BY Zenon, <2>1, <2>2 DEF None
  <2>3. CASE p[i] = Ctl("noise")
    <3>1. p[i].is = "noise"
      BY <2>3 DEF Ctl
    <3>2. QED
      BY Zenon, <3>1
  <2>4. QED
    BY Zenon, <2>1, <2>2, <2>3
<1>3. QED
  BY Zenon, <1>2 DEF None

LEMMA ThinOnce ==
    ASSUME NEW q \in Seq(Symbol), NEW p \in Seq(Symbol), Thin(q, p), NEW K, "noise" \notin K,
           Once(q, K)
    PROVE  Once(p, K)
<1>1. PICK f : ThinBy(q, p, f)
  BY Zenon DEF Thin
<1>2. ASSUME NEW i \in 1 .. Len(p), p[i].is \in K
      PROVE  f[i] \in 1 .. Len(q) /\ p[i] = q[f[i]]
  <2>1. f[i] \in 1 .. Len(q) /\ (p[i] = q[f[i]] \/ p[i] = Ctl("noise"))
    BY Zenon, <1>1 DEF ThinBy
  <2>2. Ctl("noise").is = "noise"
    BY DEF Ctl
  <2>3. QED
    BY Zenon, <1>2, <2>1, <2>2
<1>3. ASSUME NEW i \in 1 .. Len(p), NEW j \in 1 .. Len(p), p[i].is \in K, p[j].is \in K
      PROVE  i = j
  <2>1. f[i] = f[j] /\ f[i] \in Int
    <3>1. f[i] \in 1 .. Len(q) /\ f[j] \in 1 .. Len(q) /\ q[f[i]].is \in K /\ q[f[j]].is \in K
      BY Zenon, <1>2, <1>3
    <3>2. f[i] = f[j]
      BY Zenon, <3>1 DEF Once
    <3>3. QED
      BY <3>1, <3>2
  <2>2. ~(i < j) /\ ~(j < i)
    <3>1. i < j => f[i] < f[j]
      BY Zenon, <1>1 DEF ThinBy
    <3>2. j < i => f[j] < f[i]
      BY Zenon, <1>1 DEF ThinBy
    <3>3. QED
      BY <2>1, <3>1, <3>2
  <2>3. QED
    BY <2>2
<1>4. QED
  BY Zenon, <1>3 DEF Once

(* The block behind a place stands behind the same place, nearer at most.  *)
LEMMA ThinStands ==
    ASSUME NEW q \in Seq(Symbol), NEW p \in Seq(Symbol), NEW f, ThinBy(q, p, f), NEW n,
           NEW a \in 0 .. Len(p), NEW b \in 0 .. Len(q), Stands(q, b, n),
           \A j \in a + 1 .. Len(p) : f[j] > b
    PROVE  Stands(p, a, n)
<1> SUFFICES ASSUME NEW j \in a + 1 .. Len(p), p[j].is = "data"
             PROVE  /\ j <= a + 3 /\ p[j].n = n
                    /\ j = a + 3 =>
                         /\ p[a + 1] \in NumberOf(n)
                         /\ p[a + 2] \in ComplementOf(n)
  BY Zenon DEF Stands
<1>1. /\ \A i \in 1 .. Len(p) : f[i] \in 1 .. Len(q) /\ (p[i] = q[f[i]] \/ p[i] = Ctl("noise"))
      /\ \A i, h \in 1 .. Len(p) : i < h => f[i] < f[h]
  BY Zenon DEF ThinBy
<1>2. Len(p) \in Nat /\ Len(q) \in Nat /\ j \in 1 .. Len(p)
  OBVIOUS
<1>3. p[j] = q[f[j]] /\ f[j] \in 1 .. Len(q)
  <2>1. Ctl("noise").is = "noise"
    BY DEF Ctl
  <2>2. Ctl("noise").is # "data"
    BY <2>1
  <2>3. QED
    BY Zenon, <1>1, <1>2, <2>2
<1>4. f[j] \in b + 1 .. Len(q)
  BY <1>3
<1>5. /\ f[j] <= b + 3 /\ q[f[j]].n = n
      /\ f[j] = b + 3 => /\ q[b + 1] \in NumberOf(n)
                         /\ q[b + 2] \in ComplementOf(n)
  BY Zenon, <1>3, <1>4 DEF Stands
<1>6. ASSUME NEW i \in a + 1 .. Len(p), NEW h \in a + 1 .. Len(p), i < h
      PROVE  f[i] < f[h]
  <2>1. i \in 1 .. Len(p) /\ h \in 1 .. Len(p)
    BY <1>2
  <2>2. QED
    BY Zenon, <1>1, <1>6, <2>1
<1>7. \A i \in a + 1 .. Len(p) : f[i] \in Int /\ f[i] > b
  <2>1. \A i \in a + 1 .. Len(p) : i \in 1 .. Len(p)
    BY <1>2
  <2>2. QED
    BY <1>1, <2>1
<1>8. j <= a + 3
  <2>1. SUFFICES ASSUME j >= a + 4
                 PROVE  FALSE
    OBVIOUS
  <2>2. a + 1 \in a + 1 .. Len(p) /\ a + 2 \in a + 1 .. Len(p) /\ a + 3 \in a + 1 .. Len(p)
    BY <1>2, <2>1
  <2>3. f[a + 1] < f[a + 2] /\ f[a + 2] < f[a + 3] /\ f[a + 3] < f[j]
    BY <1>6, <2>1, <2>2
  <2>4. f[a + 1] \in Int /\ f[a + 2] \in Int /\ f[a + 3] \in Int /\ f[j] \in Int /\ f[a + 1] > b
    BY Zenon, <1>7, <2>2
  <2>5. PICK u, v, w, x : u = f[a + 1] /\ v = f[a + 2] /\ w = f[a + 3] /\ x = f[j]
    OBVIOUS
  <2>6. /\ u \in Int /\ v \in Int /\ w \in Int /\ x \in Int
        /\ b < u /\ u < v /\ v < w /\ w < x /\ x <= b + 3
    <3>1. f[j] <= b + 3
      BY Zenon, <1>5
    <3>2. f[a + 1] > b => b < f[a + 1]
      BY <2>4
    <3>3. QED
      BY Zenon, <2>3, <2>4, <2>5, <3>1, <3>2
  <2>7. b \in Nat
    OBVIOUS
  <2>8. QED
    BY <2>6, <2>7
<1>9. ASSUME j = a + 3
      PROVE  /\ p[a + 1] \in NumberOf(n)
             /\ p[a + 2] \in ComplementOf(n)
  <2>1. a + 1 \in a + 1 .. Len(p) /\ a + 2 \in a + 1 .. Len(p) /\ a + 1 < a + 2 /\ a + 2 < j
    BY <1>2, <1>9
  <2>2. f[a + 1] < f[a + 2] /\ f[a + 2] < f[j]
    BY Zenon, <1>6, <2>1
  <2>3. f[a + 1] \in Int /\ f[a + 2] \in Int /\ f[j] \in Int /\ f[a + 1] > b
    BY Zenon, <1>7, <2>1
  <2>4. f[a + 1] = b + 1 /\ f[a + 2] = b + 2 /\ f[j] = b + 3
    <3>1. f[j] <= b + 3
      BY Zenon, <1>5
    <3>2. PICK u, v, w : u = f[a + 1] /\ v = f[a + 2] /\ w = f[j]
      OBVIOUS
    <3>3. u \in Int /\ v \in Int /\ w \in Int /\ u > b /\ u < v /\ v < w /\ w <= b + 3
      BY Zenon, <2>2, <2>3, <3>1, <3>2
    <3>4. b \in Nat
      OBVIOUS
    <3>5. u = b + 1 /\ v = b + 2 /\ w = b + 3
      BY <3>3, <3>4
    <3>6. QED
      BY Zenon, <3>2, <3>5
  <2>5. a + 1 \in 1 .. Len(p) /\ a + 2 \in 1 .. Len(p)
    BY <1>2, <2>1
  <2>6. /\ p[a + 1] = q[b + 1] \/ p[a + 1] = Ctl("noise")
        /\ p[a + 2] = q[b + 2] \/ p[a + 2] = Ctl("noise")
    BY Zenon, <1>1, <2>4, <2>5
  <2>7. /\ q[b + 1] \in NumberOf(n)
        /\ q[b + 2] \in ComplementOf(n)
    BY Zenon, <1>5, <2>4
  <2>8. Ctl("noise") \in NumberOf(n) /\ Ctl("noise") \in ComplementOf(n)
    BY Zenon DEF NumberOf, ComplementOf
  <2>9. QED
    BY Zenon, <2>6, <2>7, <2>8
<1>10. QED
  BY Zenon, <1>3, <1>5, <1>8, <1>9

LEMMA ThinStart ==
    ASSUME NEW q \in Seq(Symbol), NEW p \in Seq(Symbol), Thin(q, p), NEW n, Stands(q, 0, n)
    PROVE  Stands(p, 0, n)
<1>1. PICK f : ThinBy(q, p, f)
  BY Zenon DEF Thin
<1>2. \A j \in 1 .. Len(p) : f[j] \in 1 .. Len(q)
  BY Zenon, <1>1 DEF ThinBy
<1>3. 0 \in 0 .. Len(p) /\ 0 \in 0 .. Len(q) /\ \A j \in 0 + 1 .. Len(p) : f[j] > 0
  BY <1>2
<1>4. QED
  BY Zenon, <1>1, <1>3, ThinStands

LEMMA ThinFits ==
    ASSUME NEW q \in Seq(Symbol), NEW p \in Seq(Symbol), Thin(q, p), NEW n, HeadsFit(q, n)
    PROVE  HeadsFit(p, n)
<1>1. PICK f : ThinBy(q, p, f)
  BY Zenon DEF Thin
<1>2. ASSUME NEW i \in 1 .. Len(p), p[i].is \in Heading
      PROVE  f[i] \in 1 .. Len(q) /\ p[i] = q[f[i]]
  <2>1. f[i] \in 1 .. Len(q) /\ (p[i] = q[f[i]] \/ p[i] = Ctl("noise"))
    BY Zenon, <1>1 DEF ThinBy
  <2>2. Ctl("noise").is \notin Heading
    BY DEF Ctl, Heading
  <2>3. QED
    BY Zenon, <1>2, <2>1, <2>2
<1>3. ASSUME NEW i \in 1 .. Len(p), p[i].is \in {"SOH", "STX"}
      PROVE  Stands(p, i, n) /\ 1 <= n /\ n <= Len(File)
  <2>1. p[i].is \in Heading
    BY <1>3 DEF Heading
  <2>2. f[i] \in 1 .. Len(q) /\ q[f[i]].is \in {"SOH", "STX"}
    BY Zenon, <1>2, <1>3, <2>1
  <2>3. Stands(q, f[i], n) /\ 1 <= n /\ n <= Len(File)
    BY Zenon, <2>2 DEF HeadsFit
  <2>4. i \in 0 .. Len(p) /\ f[i] \in 0 .. Len(q)
    BY <2>2
  <2>5. ASSUME NEW j \in i + 1 .. Len(p)
        PROVE  f[j] > f[i]
    <3>1. j \in 1 .. Len(p) /\ i < j
      OBVIOUS
    <3>2. f[i] < f[j] /\ f[j] \in 1 .. Len(q)
      BY Zenon, <1>1, <3>1 DEF ThinBy
    <3>3. QED
      BY <2>2, <3>2
  <2>6. QED
    BY Zenon, <1>1, <2>3, <2>4, <2>5, ThinStands
<1>4. ASSUME NEW i \in 1 .. Len(p), p[i].is = "EOT"
      PROVE  n > Len(File)
  <2>1. p[i].is \in Heading
    BY <1>4 DEF Heading
  <2>2. QED
    BY Zenon, <1>2, <1>4, <2>1 DEF HeadsFit
<1>5. QED
  BY Zenon, <1>3, <1>4 DEF HeadsFit

LEMMA NoiseIsNone == "noise" \notin Answering /\ "noise" \notin Heading /\ "noise" \notin {"ACK"}
BY DEF Answering, Heading

LEMMA CancelIsNone == None(Cancel, Answering) /\ None(Cancel, Heading) /\ None(Cancel, {"ACK"})
<1>1. \A i \in 1 .. Len(Cancel) : Cancel[i].is = "CAN"
  <2>1. Ctl("CAN").is = "CAN"
    BY DEF Ctl
  <2>2. QED
    BY Zenon, <2>1, CancelSymbols
<1>2. "CAN" \notin Answering /\ "CAN" \notin Heading /\ "CAN" \notin {"ACK"}
  BY DEF Answering, Heading
<1>3. QED
  BY Zenon, <1>1, <1>2 DEF None

LEMMA Behind ==
    ASSUME NEW q \in Seq(Symbol), NEW m \in Seq(Symbol), NEW i \in 1 .. Len(q \o m)
    PROVE  \/ i \in 1 .. Len(q) /\ (q \o m)[i] = q[i]
           \/ i - Len(q) \in 1 .. Len(m) /\ (q \o m)[i] = m[i - Len(q)]
OBVIOUS

LEMMA AppendNone ==
    ASSUME NEW q \in Seq(Symbol), NEW m \in Seq(Symbol), NEW K, None(q, K), None(m, K)
    PROVE  None(q \o m, K)
<1>1. ASSUME NEW i \in 1 .. Len(q \o m)
      PROVE  (q \o m)[i].is \notin K
  <2>1. CASE i \in 1 .. Len(q) /\ (q \o m)[i] = q[i]
    BY Zenon, <2>1 DEF None
  <2>2. CASE i - Len(q) \in 1 .. Len(m) /\ (q \o m)[i] = m[i - Len(q)]
    BY Zenon, <2>2 DEF None
  <2>3. QED
    BY Zenon, <2>1, <2>2, Behind
<1>2. QED
  BY Zenon, <1>1 DEF None

LEMMA AppendOnce ==
    ASSUME NEW q \in Seq(Symbol), NEW m \in Seq(Symbol), NEW K, Once(q, K), None(m, K)
    PROVE  Once(q \o m, K)
<1>1. ASSUME NEW i \in 1 .. Len(q \o m), (q \o m)[i].is \in K
      PROVE  i \in 1 .. Len(q) /\ (q \o m)[i] = q[i]
  BY Zenon, <1>1, Behind DEF None
<1>2. QED
  BY Zenon, <1>1 DEF Once

(* One more of a kind, behind none of it.                                  *)
LEMMA OneMore ==
    ASSUME NEW q \in Seq(Symbol), NEW m \in Seq(Symbol), NEW K, None(q, K), Once(m, K)
    PROVE  Once(q \o m, K)
<1>1. ASSUME NEW i \in 1 .. Len(q \o m), (q \o m)[i].is \in K
      PROVE  i - Len(q) \in 1 .. Len(m) /\ (q \o m)[i] = m[i - Len(q)]
  BY Zenon, <1>1, Behind DEF None
<1>2. ASSUME NEW i \in 1 .. Len(q \o m), NEW j \in 1 .. Len(q \o m),
             (q \o m)[i].is \in K, (q \o m)[j].is \in K
      PROVE  i = j
  <2>1. i - Len(q) = j - Len(q)
    BY Zenon, <1>1, <1>2 DEF Once
  <2>2. Len(q) \in Nat /\ i \in Int /\ j \in Int
    OBVIOUS
  <2>3. QED
    BY <2>1, <2>2
<1>3. QED
  BY Zenon, <1>2 DEF Once

LEMMA SingleOnce ==
    ASSUME NEW x, NEW K
    PROVE  Once(<< x >>, K)
BY DEF Once

LEMMA TailNone ==
    ASSUME NEW q \in Seq(Symbol), q # << >>, NEW K, Once(q, K), q[1].is \in K
    PROVE  None(Tail(q), K)
<1>1. ASSUME NEW i \in 1 .. Len(Tail(q)), Tail(q)[i].is \in K
      PROVE  FALSE
  <2>1. 1 \in 1 .. Len(q) /\ i + 1 \in 1 .. Len(q) /\ Tail(q)[i] = q[i + 1] /\ i + 1 # 1
    OBVIOUS
  <2>2. 1 = i + 1
    BY Zenon, <1>1, <2>1 DEF Once
  <2>3. QED
    BY Zenon, <2>1, <2>2
<1>2. QED
  BY Zenon, <1>1 DEF None

LEMMA FirstIsThere ==
    ASSUME NEW q \in Seq(Symbol), q # << >>, NEW K, q[1].is \in K
    PROVE  ~None(q, K)
<1>1. 1 \in 1 .. Len(q)
  OBVIOUS
<1>2. QED
  BY Zenon, <1>1 DEF None

LEMMA NoAnswerNoAck == \A q : None(q, Answering) => None(q, {"ACK"})
BY DEF None, Answering

LEMMA EmptyNone ==
    ASSUME NEW q, q = << >>, NEW K
    PROVE  None(q, K)
BY DEF None

LEMMA NoneOnce ==
    ASSUME NEW q, NEW K, None(q, K)
    PROVE  Once(q, K)
BY Zenon DEF None, Once

LEMMA NoneFits ==
    ASSUME NEW q, None(q, Heading), NEW n
    PROVE  HeadsFit(q, n)
<1>1. ASSUME NEW i \in 1 .. Len(q)
      PROVE  q[i].is \notin {"SOH", "STX"} /\ q[i].is # "EOT"
  <2>1. q[i].is \notin Heading
    BY Zenon DEF None
  <2>2. QED
    BY <2>1 DEF Heading
<1>2. QED
  BY Zenon, <1>1 DEF HeadsFit

(* The parts, as the steps need them.                                      *)
LEMMA Parts ==
    ASSUME XTypes
    PROVE  /\ toR \in Seq(Symbol) /\ toS \in Seq(Symbol) /\ s.out \in Seq(Symbol)
           /\ r.pkt \in Seq(Symbol) /\ Line \in Seq(Symbol)
           /\ r.num \in Nat /\ s.num \in Nat /\ s.sent \in Nat /\ Len(File) \in Nat
           /\ r.file \in Seq(Nat)
<1>1. /\ toR \in Seq(Symbol) /\ toS \in Seq(Symbol) /\ s.out \in Seq(Symbol)
      /\ r.pkt \in Seq(Symbol)
      /\ r.num \in Nat /\ s.num \in Nat /\ s.sent \in Nat /\ r.file \in Seq(Nat)
  BY Zenon, RFieldTypes, SFieldTypes DEF XTypes
<1>2. Len(File) \in Nat
  BY FileAssumption
<1>3. Line \in Seq(Symbol)
  BY <1>1 DEF Line
<1>4. QED
  BY Zenon, <1>1, <1>2, <1>3

LEMMA SentTo ==
    ASSUME NEW m, toS' = ToSender(m)
    PROVE  (toS' = toS \/ toS' = toS \o m) /\ (Running(s) => toS' = toS \o m)
<1>1. Running(s) => s.state # "ended"
  BY DEF Running
<1>2. QED
  BY Zenon, <1>1 DEF ToSender

(* The line, when the receiver has read from it.                           *)
LEMMA LineShifts ==
    ASSUME XTypes, XTypes', s' = s, NEW k \in Nat, Shifted(toR, toR', k)
    PROVE  Thin(Line, Line') /\ (k = 0 => Line' = Line)
<1>1. toR \in Seq(Symbol) /\ s.out \in Seq(Symbol) /\ toR' \in Seq(Symbol) /\ s'.out = s.out
  BY Zenon, Parts DEF XTypes, RTypes
<1>2. Thin(toR, toR')
  BY Zenon, <1>1, ShiftedIsThin
<1>3. Line' = toR' \o s.out /\ Line = toR \o s.out
  BY Zenon, <1>1 DEF Line
<1>4. Thin(Line, Line')
  BY Zenon, <1>1, <1>2, <1>3, ThinBefore
<1>5. k = 0 => toR' = toR
  BY <1>1 DEF Shifted
<1>6. QED
  BY Zenon, <1>3, <1>4, <1>5

LEMMA LineTail ==
    ASSUME XTypes, s' = s, toR # << >>, toR' = Tail(toR)
    PROVE  /\ Line # << >> /\ Line' = Tail(Line) /\ Line[1] = toR[1] /\ Shifted(toR, toR', 1)
           /\ toR[1] \in Symbol
<1>1. toR \in Seq(Symbol) /\ s.out \in Seq(Symbol)
  BY Zenon, Parts
<1>2. PICK a, b : a = toR /\ b = s.out
  OBVIOUS
<1>3. a \in Seq(Symbol) /\ b \in Seq(Symbol) /\ a # << >>
  BY Zenon, <1>1, <1>2
<1>4. a \o b # << >> /\ Tail(a) \o b = Tail(a \o b) /\ (a \o b)[1] = a[1] /\ a[1] \in Symbol
  BY <1>3
<1>5. Shifted(a, Tail(a), 1)
  BY Zenon, <1>3, TailShifts
<1>6. QED
  BY Zenon, <1>2, <1>4, <1>5 DEF Line
-----------------------------------------------------------------------------
(* The steps of the receiver keep the two in agreement.                    *)

(* The line thinned keeps its heads.                                       *)
LEMMA HeadsKept ==
    ASSUME XTypes, XTypes', Thin(Line, Line')
    PROVE  /\ None(Line, Heading) => None(Line', Heading)
           /\ Once(Line, Heading) => Once(Line', Heading)
           /\ \A n : HeadsFit(Line, n) => HeadsFit(Line', n)
<1>1. Line \in Seq(Symbol)
  BY Zenon, Parts
<1>2. Line' \in Seq(Symbol)
  <2>1. toR' \in Seq(Symbol) /\ s'.out \in Seq(Symbol)
    BY Zenon, RFieldTypes, SFieldTypes DEF XTypes, RTypes, STypes, SSet
  <2>2. QED
    BY <2>1 DEF Line
<1>3. QED
  BY Zenon, <1>1, <1>2, ThinNone, ThinOnce, ThinFits, NoiseIsNone

LEMMA KeepDrops ==
    ASSUME XTypes, XTypes', Agree, s' = s, RDrops
    PROVE  Agree'
<1>1. /\ Numbers /\ FileInOrder /\ Tokens /\ Live /\ Acks /\ Ends /\ Silent
  BY Zenon DEF Agree
<1>2. PICK k \in Nat : Shifted(toR, toR', k) /\ (k # 0 => r.mode = "SOH")
  BY Zenon DEF RDrops
<1>3. /\ r'.num = r.num /\ r'.file = r.file /\ r'.success = r.success /\ toS' = toS
      /\ r'.mode = r.mode /\ r'.pkt = r.pkt /\ (Running(r') => Running(r))
  BY Zenon DEF RDrops, RSame
<1>4. Thin(Line, Line') /\ (r.mode # "SOH" => Line' = Line)
  BY Zenon, <1>2, LineShifts
<1>5. /\ None(Line, Heading) => None(Line', Heading)
      /\ Once(Line, Heading) => Once(Line', Heading)
      /\ HeadsFit(Line, s.sent) => HeadsFit(Line', s.sent)
  BY Zenon, <1>4, HeadsKept
<1>6. Tokens'
  BY Zenon, <1>1, <1>3, <1>5 DEF Tokens
<1>7. Live'
  BY Zenon, <1>1, <1>3, <1>4, <1>5 DEF Live
<1>8. Numbers' /\ FileInOrder' /\ Acks' /\ Ends' /\ Silent'
  BY Zenon, <1>1, <1>3 DEF Numbers, FileInOrder, Acks, Ends, Silent
<1>9. QED
  BY Zenon, <1>6, <1>7, <1>8 DEF Agree

LEMMA KeepMeets ==
    ASSUME XTypes, XTypes', Agree, s' = s, RMeets, ~misread'
    PROVE  Agree'
<1>1. /\ Numbers /\ FileInOrder /\ Tokens /\ Live /\ Acks /\ Ends /\ Silent
  BY Zenon DEF Agree
<1>2. /\ r'.num = r.num /\ r'.file = r.file /\ r'.success = r.success /\ toS' = toS
      /\ Running(r) /\ r.mode = "SOH" /\ r'.mode = "BLK" /\ r'.pkt = << >>
      /\ toR # << >> /\ toR' = Tail(toR) /\ toR[1].is \in {"SOH", "STX"}
  BY Zenon DEF RMeets, RSame
<1>3. /\ Line # << >> /\ Line' = Tail(Line) /\ Line[1] = toR[1] /\ Shifted(toR, toR', 1)
  BY Zenon, <1>2, LineTail
<1>4. Line \in Seq(Symbol)
  BY Zenon, Parts
<1>5. Line[1].is \in Heading
  BY <1>2, <1>3 DEF Heading
<1>6. ~None(Line, Heading)
  BY Zenon, <1>3, <1>4, <1>5, FirstIsThere
<1>7. Thin(Line, Line')
  <2>1. 1 \in Nat
    OBVIOUS
  <2>2. QED
    BY Zenon, <1>3, <2>1, LineShifts
<1>8. HeadsFit(Line', s.sent)
  BY Zenon, <1>1, <1>2, <1>7, HeadsKept DEF Live
<1>9. Tokens'
  <2>1. ASSUME Running(s)
        PROVE  None(Line', Heading) /\ None(toS, Answering) /\ ~s.flag /\ Once(toS, Answering)
    <3>1. /\ Once(Line, Heading) /\ None(toS, Answering) /\ ~s.flag /\ Once(toS, Answering)
      BY Zenon, <1>1, <1>2, <1>6, <2>1 DEF Tokens
    <3>2. None(Line', Heading)
      BY Zenon, <1>3, <1>4, <1>5, <3>1, TailNone
    <3>3. QED
      BY Zenon, <3>1, <3>2
  <2>2. QED
    BY Zenon, <1>2, <2>1, NoneOnce DEF Tokens
<1>10. Live'
  <2>1. 1 \in 1 .. Len(Line)
    BY <1>3, <1>4
  <2>2. Line[1].is \in {"SOH", "STX"}
    BY Zenon, <1>2, <1>3
  <2>3. Stands(Line, 1, s.sent) /\ 1 <= s.sent /\ s.sent <= Len(File)
    BY Zenon, <1>1, <1>2, <2>1, <2>2 DEF Live, HeadsFit
  <2>4. r'.pkt \o Line' = Line'
    <3>1. PICK t : t = Tail(Line)
      OBVIOUS
    <3>2. t \in Seq(Symbol)
      BY <1>3, <1>4, <3>1
    <3>3. << >> \o t = t
      BY <3>2
    <3>4. QED
      BY Zenon, <1>2, <1>3, <3>1, <3>3
  <2>5. ASSUME NEW n, Stands(Line, 1, n)
        PROVE  Stands(Tail(Line), 0, n)
    <3>1. PICK t : t = Tail(Line)
      OBVIOUS
    <3>2. /\ Len(t) = Len(Line) - 1 /\ Len(t) \in Nat
          /\ \A j \in 1 .. Len(t) : t[j] = Line[j + 1]
      BY <1>3, <1>4, <3>1
    <3>3. ASSUME NEW j \in 0 + 1 .. Len(t), t[j].is = "data"
          PROVE  /\ j <= 0 + 3 /\ t[j].n = n
                 /\ j = 0 + 3 => /\ t[0 + 1] \in NumberOf(n)
                                 /\ t[0 + 2] \in ComplementOf(n)
      <4>1. j \in 1 .. Len(t) /\ j + 1 \in 1 + 1 .. Len(Line)
        BY <3>2
      <4>2. Line[j + 1].is = "data"
        BY Zenon, <3>2, <3>3, <4>1
      <4>3. /\ j + 1 <= 1 + 3 /\ Line[j + 1].n = n
            /\ j + 1 = 1 + 3 => /\ Line[1 + 1] \in NumberOf(n)
                                /\ Line[1 + 2] \in ComplementOf(n)
        BY Zenon, <2>5, <4>1, <4>2 DEF Stands
      <4>4. t[j].n = n
        BY Zenon, <3>2, <4>1, <4>3
      <4>5. j <= 0 + 3 /\ (j = 0 + 3 => j + 1 = 1 + 3)
        BY <4>3
      <4>6. j = 0 + 3 => t[0 + 1] = Line[1 + 1] /\ t[0 + 2] = Line[1 + 2]
        BY <3>2
      <4>7. QED
        BY Zenon, <4>3, <4>4, <4>5, <4>6
    <3>4. QED
      BY Zenon, <3>1, <3>3 DEF Stands
  <2>6. Stands(r'.pkt \o Line', 0, s.sent)
    BY Zenon, <1>3, <2>3, <2>4, <2>5
  <2>7. QED
    BY Zenon, <1>8, <2>3, <2>6 DEF Live
<1>11. Numbers' /\ FileInOrder' /\ Acks' /\ Ends' /\ Silent'
  BY Zenon, <1>1, <1>2 DEF Numbers, FileInOrder, Acks, Ends, Silent
<1>12. QED
  BY Zenon, <1>9, <1>10, <1>11 DEF Agree

LEMMA KeepTakes ==
    ASSUME XTypes, XTypes', Agree, s' = s, RTakes
    PROVE  Agree'
<1>1. /\ Numbers /\ FileInOrder /\ Tokens /\ Live /\ Acks /\ Ends /\ Silent
  BY Zenon DEF Agree
<1>2. /\ r'.num = r.num /\ r'.file = r.file /\ r'.success = r.success /\ toS' = toS
      /\ Running(r) /\ r.mode # "SOH" /\ r'.mode # "SOH"
      /\ toR # << >> /\ toR' = Tail(toR) /\ r'.pkt = Append(r.pkt, toR[1])
  BY Zenon DEF RTakes, RSame
<1>3. /\ Line' = Tail(Line) /\ Line[1] = toR[1] /\ Shifted(toR, toR', 1) /\ Line # << >>
      /\ toR[1] \in Symbol
  BY Zenon, <1>2, LineTail
<1>4. Line \in Seq(Symbol) /\ r.pkt \in Seq(Symbol)
  BY Zenon, Parts
<1>5. Thin(Line, Line')
  <2>1. 1 \in Nat
    OBVIOUS
  <2>2. QED
    BY Zenon, <1>3, <2>1, LineShifts
<1>6. /\ None(Line, Heading) => None(Line', Heading)
      /\ HeadsFit(Line, s.sent) => HeadsFit(Line', s.sent)
      /\ Once(Line, Heading) => Once(Line', Heading)
  BY Zenon, <1>5, HeadsKept
<1>7. r'.pkt \o Line' = r.pkt \o Line
  <2>1. PICK p, q : p = r.pkt /\ q = Line
    OBVIOUS
  <2>2. p \in Seq(Symbol) /\ q \in Seq(Symbol) /\ q # << >>
    BY Zenon, <1>3, <1>4, <2>1
  <2>3. Append(p, q[1]) \o Tail(q) = p \o q
    BY <2>2
  <2>4. QED
    BY Zenon, <1>2, <1>3, <2>1, <2>3
<1>8. Tokens'
  BY Zenon, <1>1, <1>2, <1>6 DEF Tokens
<1>9. Live'
  BY Zenon, <1>1, <1>2, <1>6, <1>7 DEF Live
<1>10. Numbers' /\ FileInOrder' /\ Acks' /\ Ends' /\ Silent'
  BY Zenon, <1>1, <1>2 DEF Numbers, FileInOrder, Acks, Ends, Silent
<1>11. QED
  BY Zenon, <1>8, <1>9, <1>10 DEF Agree

LEMMA KeepRGivesUp ==
    ASSUME XTypes, XTypes', Agree, s' = s, RGivesUp
    PROVE  Agree'
<1>1. /\ Numbers /\ FileInOrder /\ Tokens /\ Live /\ Acks /\ Ends /\ Silent
  BY Zenon DEF Agree
<1>2. /\ ~Running(r') /\ r'.num = r.num /\ r'.file = r.file /\ ~r'.success /\ ~r.success
      /\ toS' = toS \/ toS' = ToSender(Cancel)
  BY Zenon DEF RGivesUp
<1>3. toS \in Seq(Symbol) /\ Cancel \in Seq(Symbol)
  BY Zenon, Parts, CancelSymbols
<1>4. toS' = toS \/ toS' = toS \o Cancel
  BY Zenon, <1>2, SentTo
<1>5. /\ Once(toS, Answering) => Once(toS', Answering)
      /\ None(toS, Answering) => None(toS', Answering)
      /\ None(toS, {"ACK"}) => None(toS', {"ACK"})
  BY Zenon, <1>3, <1>4, AppendOnce, AppendNone, CancelIsNone
<1>6. Tokens'
  BY Zenon, <1>1, <1>2, <1>5 DEF Tokens
<1>7. Live'
  BY Zenon, <1>2 DEF Live
<1>8. Acks'
  BY Zenon, <1>1, <1>2, <1>5 DEF Acks
<1>9. Numbers' /\ FileInOrder' /\ Ends' /\ Silent'
  BY Zenon, <1>1, <1>2 DEF Numbers, FileInOrder, Ends, Silent
<1>10. QED
  BY Zenon, <1>6, <1>7, <1>8, <1>9 DEF Agree

(* One answer more.                                                        *)
LEMMA OneAnswer ==
    ASSUME XTypes, NEW c \in Answering, toS' = ToSender(<< Ctl(c) >>), Running(s),
           None(toS, Answering)
    PROVE  /\ Once(toS', Answering) /\ (c # "ACK" => None(toS', {"ACK"}))
<1>1. toS \in Seq(Symbol)
  BY Zenon, Parts
<1>2. c \in Words
  BY DEF Answering, Words
<1>3. PICK m : m = << Ctl(c) >>
  OBVIOUS
<1>4. m \in Seq(Symbol) /\ Len(m) = 1
  BY Zenon, <1>2, <1>3, OneSymbol
<1>5. toS' = toS \o m
  BY Zenon, <1>3, SentTo
<1>6. Once(m, Answering)
  BY Zenon, <1>3, SingleOnce
<1>7. Once(toS', Answering)
  BY Zenon, <1>1, <1>4, <1>5, <1>6, OneMore
<1>8. c # "ACK" => None(m, {"ACK"})
  <2>1. m[1].is = c
    BY <1>3 DEF Ctl
  <2>2. QED
    BY <1>4, <2>1 DEF None
<1>9. None(toS, {"ACK"})
  BY Zenon, NoAnswerNoAck
<1>10. QED
  BY Zenon, <1>1, <1>4, <1>5, <1>7, <1>8, <1>9, AppendNone

LEMMA KeepDenies ==
    ASSUME XTypes, XTypes', Agree, s' = s, RDenies, early' = 0
    PROVE  Agree'
<1>1. /\ Numbers /\ FileInOrder /\ Tokens /\ Live /\ Acks /\ Ends /\ Silent
  BY Zenon DEF Agree
<1>2. /\ r'.num = r.num /\ r'.file = r.file /\ r'.success = r.success
      /\ Running(r) /\ r'.mode = "SOH" /\ (r.mode # "SOH" \/ Quiet)
  BY Zenon DEF RDenies, RSame
<1>3. PICK k \in Nat : Shifted(toR, toR', k)
  BY Zenon DEF RDenies
<1>4. PICK c \in {"C", "NAK"} : toS' = ToSender(<< Ctl(c) >>)
  BY Zenon DEF RDenies
<1>5. Thin(Line, Line')
  BY Zenon, <1>3, LineShifts
<1>6. /\ None(Line, Heading) => None(Line', Heading)
      /\ Once(Line, Heading) => Once(Line', Heading)
      /\ HeadsFit(Line, s.sent) => HeadsFit(Line', s.sent)
  BY Zenon, <1>5, HeadsKept
<1>7. c \in Answering /\ c # "ACK"
  BY DEF Answering
<1>8. ASSUME Running(s)
      PROVE  None(Line, Heading) /\ None(toS, Answering) /\ ~s.flag
  <2>1. CASE r.mode # "SOH"
    BY Zenon, <1>1, <1>2, <1>8, <2>1 DEF Tokens
  <2>2. CASE Quiet
    <3>1. toR = << >> /\ toS = << >> /\ s.out = << >> /\ ~s.busy
      BY Zenon, <2>2 DEF Quiet
    <3>2. Line = << >>
      BY <3>1 DEF Line
    <3>3. ~s.flag
      BY Zenon, <3>1, SFieldTypes DEF XTypes, SShape
    <3>4. QED
      BY Zenon, <3>1, <3>2, <3>3, EmptyNone
  <2>3. QED
    BY Zenon, <1>2, <2>1, <2>2
<1>9. Running(s) => Once(toS', Answering) /\ None(toS', {"ACK"})
  BY Zenon, <1>4, <1>7, <1>8, OneAnswer
<1>10. Tokens'
  BY Zenon, <1>2, <1>6, <1>8, <1>9, NoneOnce DEF Tokens
<1>11. Live'
  BY Zenon, <1>1, <1>2, <1>6 DEF Live
<1>12. Acks'
  BY Zenon, <1>9 DEF Acks
<1>13. Numbers' /\ FileInOrder' /\ Ends' /\ Silent'
  BY Zenon, <1>1, <1>2 DEF Numbers, FileInOrder, Ends, Silent
<1>14. QED
  BY Zenon, <1>10, <1>11, <1>12, <1>13 DEF Agree

LEMMA KeepFinishes ==
    ASSUME XTypes, XTypes', Agree, s' = s, RFinishes, ~misread'
    PROVE  Agree'
<1>1. /\ Numbers /\ FileInOrder /\ Tokens /\ Live /\ Acks /\ Ends /\ Silent
  BY Zenon DEF Agree
<1>2. /\ r'.num = r.num /\ r'.file = r.file /\ r'.success /\ Running(r) /\ ~Running(r')
      /\ toR # << >> /\ toR[1].is = "EOT" /\ toS' = ToSender(<< Ctl("ACK") >>)
  BY Zenon DEF RFinishes
<1>3. /\ toR \in Seq(Symbol) /\ s.out \in Seq(Symbol) /\ Line \in Seq(Symbol)
      /\ r.num \in Nat /\ s.num \in Nat /\ s.sent \in Nat /\ Len(File) \in Nat
  BY Zenon, Parts
<1>4. Line # << >> /\ Line[1] = toR[1]
  <2>1. PICK a, b : a = toR /\ b = s.out
    OBVIOUS
  <2>2. a \in Seq(Symbol) /\ b \in Seq(Symbol) /\ a # << >>
    BY Zenon, <1>2, <1>3, <2>1
  <2>3. a \o b # << >> /\ (a \o b)[1] = a[1]
    BY <2>2
  <2>4. QED
    BY Zenon, <2>1, <2>3 DEF Line
<1>5. 1 \in 1 .. Len(Line)
  BY <1>3, <1>4
<1>6. s.sent > Len(File)
  BY Zenon, <1>1, <1>2, <1>4, <1>5 DEF Live, HeadsFit
<1>7. r.num = Len(File) /\ ~s.open
  <2>1. /\ s.num <= r.num /\ r.num <= s.sent /\ s.sent <= s.num + 1 /\ r.num <= Len(File)
        /\ (s.open <=> s.sent <= Len(File))
    BY Zenon, <1>1 DEF Numbers
  <2>2. r.num = Len(File) /\ ~(s.sent <= Len(File))
    BY <1>3, <1>6, <2>1
  <2>3. QED
    BY Zenon, <2>1, <2>2
<1>8. ASSUME Running(s)
      PROVE  None(toS, Answering) /\ ~s.flag
  <2>1. Line[1].is \in Heading
    BY <1>2, <1>4 DEF Heading
  <2>2. ~None(Line, Heading)
    BY Zenon, <1>3, <1>4, <2>1, FirstIsThere
  <2>3. QED
    BY Zenon, <1>1, <1>2, <1>8, <2>2 DEF Tokens
<1>9. Running(s) => Once(toS', Answering)
  <2>1. "ACK" \in Answering
    BY DEF Answering
  <2>2. QED
    BY Zenon, <1>2, <1>8, <2>1, OneAnswer
<1>10. Tokens'
  BY Zenon, <1>2, <1>8, <1>9 DEF Tokens
<1>11. Live'
  BY Zenon, <1>2 DEF Live
<1>12. Acks'
  BY Zenon, <1>2, <1>7 DEF Acks
<1>13. Numbers' /\ FileInOrder' /\ Ends' /\ Silent'
  BY Zenon, <1>1, <1>2, <1>7 DEF Numbers, FileInOrder, Ends, Silent
<1>14. QED
  BY Zenon, <1>10, <1>11, <1>12, <1>13 DEF Agree

(* A quotient and a rest are unique.                                       *)
LEMMA RestIs ==
    ASSUME NEW M \in Nat, M > 0, NEW x \in Int, NEW q \in Int, NEW e \in Nat, e < M,
           x = (M * q) + e
    PROVE  x % M = e
<1>1. PICK q2, e2 : q2 = x \div M /\ e2 = x % M
  OBVIOUS
<1>2. q2 \in Int /\ e2 \in Nat /\ e2 < M /\ x = (M * q2) + e2
  BY <1>1
<1>3. q2 = q
  <2>1. M * (q2 - q) = e - e2
    BY <1>2
  <2>2. q2 - q >= 1 => M * (q2 - q) >= M
    BY <1>2
  <2>3. q2 - q <= 0 - 1 => M * (q2 - q) <= 0 - M
    BY <1>2
  <2>4. e - e2 < M /\ e - e2 > 0 - M
    BY <1>2
  <2>5. ~(q2 - q >= 1) /\ ~(q2 - q <= 0 - 1)
    BY <1>2, <2>1, <2>2, <2>3, <2>4
  <2>6. QED
    BY <1>2, <2>5
<1>4. QED
  BY <1>1, <1>2, <1>3

LEMMA RestOfSame ==
    ASSUME NEW n \in Nat
    PROVE  ((n % BlkMod) - n) % BlkMod = 0
<1>1. PICK M : M = BlkMod
  OBVIOUS
<1>2. M \in Nat /\ M > 2
  BY <1>1, Mod
<1>3. PICK a, b : a = n \div M /\ b = n % M
  OBVIOUS
<1>4. a \in Int /\ b \in 0 .. M - 1 /\ n = (M * a) + b
  BY <1>2, <1>3
<1>5. (b - n) = M * (0 - a)
  BY <1>2, <1>4
<1>6. (M * (0 - a)) % M = 0
  <2>1. PICK x, q, e : x = M * (0 - a) /\ q = 0 - a /\ e = 0
    OBVIOUS
  <2>2. M > 0 /\ x \in Int /\ q \in Int /\ e \in Nat /\ e < M /\ x = (M * q) + e
    BY <1>2, <1>4, <2>1
  <2>3. QED
    BY Zenon, <1>2, <2>1, <2>2, RestIs
<1>7. QED
  BY Zenon, <1>1, <1>3, <1>5, <1>6

LEMMA RestOfNext ==
    ASSUME NEW n \in Nat, NEW k \in Nat, n = k + 1
    PROVE  ((n % BlkMod) - k) % BlkMod = 1
<1>1. PICK M : M = BlkMod
  OBVIOUS
<1>2. M \in Nat /\ M > 2
  BY <1>1, Mod
<1>3. PICK a, b : a = n \div M /\ b = n % M
  OBVIOUS
<1>4. a \in Int /\ b \in 0 .. M - 1 /\ n = (M * a) + b
  BY <1>2, <1>3
<1>5. (b - k) = (M * (0 - a)) + 1
  BY <1>2, <1>4
<1>6. ((M * (0 - a)) + 1) % M = 1
  <2>1. PICK x, q, e : x = (M * (0 - a)) + 1 /\ q = 0 - a /\ e = 1
    OBVIOUS
  <2>2. M > 0 /\ x \in Int /\ q \in Int /\ e \in Nat /\ e < M /\ x = (M * q) + e
    BY <1>2, <1>4, <2>1
  <2>3. QED
    BY Zenon, <1>2, <2>1, <2>2, RestIs
<1>7. QED
  BY Zenon, <1>1, <1>3, <1>5, <1>6

(* A number and a complement that fit each other tell the block, even when *)
(* one of them is damaged.                                                 *)
LEMMA NumberRead ==
    ASSUME NEW n \in Nat,
           NEW x \in NumberOf(n),
           NEW y \in ComplementOf(n),
           Byte(y) + Byte(x) = 255
    PROVE  Byte(x) = n % BlkMod
<1>1. PICK m : m = n % BlkMod
  OBVIOUS
<1>2. m \in Nat
  BY Zenon, <1>1, Mod
<1> DEFINE bx == [is |-> "blk", n |-> m]
           by == [is |-> "com", n |-> m]
<1>3. PICK ns : ns = Ctl("noise")
  OBVIOUS
<1>4. PICK z : z = 255 - m
  OBVIOUS
<1>5. Byte(bx) = m /\ Byte(by) = z
  BY <1>4 DEF Byte
<1>6. Byte(ns) = 128
  <2>1. ns.is = "noise"
    BY <1>3 DEF Ctl
  <2>2. Byte(ns) = CtlByte("noise")
    BY <2>1 DEF Byte
  <2>3. CtlByte("noise") = 128
    BY DEF CtlByte
  <2>4. QED
    BY Zenon, <2>2, <2>3
<1>7. /\ Byte(x) = m \/ Byte(x) = 128
      /\ Byte(y) = z \/ Byte(y) = 128
  <2>1. x = bx \/ x = ns
    BY Zenon, <1>1, <1>3 DEF NumberOf
  <2>2. y = by \/ y = ns
    BY Zenon, <1>1, <1>3 DEF ComplementOf
  <2> HIDE DEF bx, by
  <2>3. Byte(x) = m \/ Byte(x) = 128
    BY Zenon, <1>5, <1>6, <2>1
  <2>4. Byte(y) = z \/ Byte(y) = 128
    BY Zenon, <1>5, <1>6, <2>2
  <2>5. QED
    BY Zenon, <2>3, <2>4
<1>8. Byte(x) = m
  BY <1>2, <1>7, <1>4
<1>9. QED
  BY Zenon, <1>1, <1>8

LEMMA KeepAccepts ==
    ASSUME XTypes, XTypes', Agree, s' = s, RAccepts
    PROVE  Agree'
<1>1. /\ Numbers /\ FileInOrder /\ Tokens /\ Live /\ Acks /\ Ends /\ Silent
  BY Zenon DEF Agree
<1>2. /\ Running(r) /\ r.mode = "DATA" /\ r'.mode = "SOH" /\ r'.success = r.success
      /\ toS' = ToSender(<< Ctl("ACK") >>) /\ toR # << >>
  BY Zenon DEF RAccepts
<1>3. PICK k \in Nat : Shifted(toR, toR', k)
  BY Zenon DEF RAccepts
<1>4. PICK p \in Seq(Symbol), d \in {0, 1} :
         /\ p = Append(r.pkt, toR[1]) /\ Len(p) > 3 /\ p[3].is = "data"
         /\ d = (Byte(p[1]) - r.num) % BlkMod
         /\ r'.num = r.num + d
         /\ r'.file = IF d = 0 THEN r.file ELSE Append(r.file, p[3].n)
  BY Zenon DEF RAccepts
<1>5. /\ toR \in Seq(Symbol) /\ s.out \in Seq(Symbol) /\ Line \in Seq(Symbol)
      /\ r.pkt \in Seq(Symbol) /\ r.num \in Nat /\ s.num \in Nat /\ s.sent \in Nat
      /\ Len(File) \in Nat /\ r.file \in Seq(Nat)
  BY Zenon, Parts
<1>6. /\ r.mode # "SOH" /\ Stands(r.pkt \o Line, 0, s.sent)
      /\ 1 <= s.sent /\ s.sent <= Len(File)
  <2>1. r.mode # "SOH"
    BY <1>2
  <2>2. QED
    BY Zenon, <1>1, <1>2, <2>1 DEF Live
<1>7. PICK w : w = r.pkt \o Line
  OBVIOUS
<1>8. w[1] = p[1] /\ w[2] = p[2] /\ w[3] = p[3] /\ Len(w) >= 3 /\ Len(w) \in Nat
      /\ p[1] = r.pkt[1] /\ p[2] = r.pkt[2]
  <2>1. PICK a, b, c : a = toR /\ b = s.out /\ c = r.pkt
    OBVIOUS
  <2>2. a \in Seq(Symbol) /\ b \in Seq(Symbol) /\ c \in Seq(Symbol) /\ a # << >>
    BY Zenon, <1>2, <1>5, <2>1
  <2>3. w = c \o (a \o b) /\ p = Append(c, a[1]) /\ Len(p) > 3
    BY Zenon, <1>4, <1>7, <2>1 DEF Line
  <2>4. Len(c) >= 3
    BY <2>2, <2>3
  <2>5. p[1] = c[1] /\ p[2] = c[2] /\ p[3] = c[3]
    BY <2>2, <2>3, <2>4
  <2>6. a \o b \in Seq(Symbol)
    BY <2>2
  <2>7. w[1] = c[1] /\ w[2] = c[2] /\ w[3] = c[3] /\ Len(w) >= 3 /\ Len(w) \in Nat
    BY <2>2, <2>3, <2>4, <2>6
  <2>8. QED
    BY Zenon, <2>1, <2>5, <2>7
<1>9. /\ p[3].n = s.sent
      /\ p[1] \in NumberOf(s.sent)
      /\ p[2] \in ComplementOf(s.sent)
  <2>1. 3 \in 0 + 1 .. Len(w) /\ 3 = 0 + 3 /\ 0 + 1 = 1 /\ 0 + 2 = 2
    BY <1>8
  <2>2. w[3].is = "data" /\ Stands(w, 0, s.sent)
    BY Zenon, <1>4, <1>6, <1>7, <1>8
  <2>3. /\ w[3].n = s.sent
        /\ w[0 + 1] \in NumberOf(s.sent)
        /\ w[0 + 2] \in ComplementOf(s.sent)
    BY Zenon, <2>1, <2>2 DEF Stands
  <2>4. QED
    BY Zenon, <1>8, <2>1, <2>3
<1>10. Byte(p[1]) = s.sent % BlkMod
  <2>1. Byte(r.pkt[2]) + Byte(r.pkt[1]) = 255
    BY Zenon, <1>2, RFieldTypes DEF XTypes, RShape
  <2>2. Byte(p[2]) + Byte(p[1]) = 255
    BY Zenon, <1>8, <2>1
  <2>3. PICK n, x, y : n = s.sent /\ x = p[1] /\ y = p[2]
    OBVIOUS
  <2>4. n \in Nat /\ x \in NumberOf(n) /\ y \in ComplementOf(n) /\ Byte(y) + Byte(x) = 255
    BY Zenon, <1>5, <1>9, <2>2, <2>3
  <2>5. Byte(x) = n % BlkMod
    BY Zenon, <2>4, NumberRead
  <2>6. QED
    BY Zenon, <2>3, <2>5
<1>11. /\ s.num <= r.num /\ r.num <= s.sent /\ s.sent <= s.num + 1 /\ r.num <= Len(File)
       /\ (s.open <=> s.sent <= Len(File))
  BY Zenon, <1>1 DEF Numbers
<1>12. r'.num = s.sent /\ (d = 0 => r'.num = r.num) /\ (d = 1 => r'.num = r.num + 1)
  <2>0. 1 # 0
    OBVIOUS
  <2>1. d = ((s.sent % BlkMod) - r.num) % BlkMod
    BY Zenon, <1>4, <1>10
  <2>2. CASE r.num = s.sent
    <3>1. d = 0
      BY Zenon, <1>5, <2>1, <2>2, RestOfSame
    <3>2. QED
      <4>1. r.num + 0 = r.num /\ 0 # 1
        BY <1>5
      <4>2. QED
        BY Zenon, <1>4, <2>2, <3>1, <4>1
  <2>3. CASE s.sent = r.num + 1
    <3>1. d = 1
      BY Zenon, <1>5, <2>1, <2>3, RestOfNext
    <3>2. QED
      BY Zenon, <1>4, <2>3, <3>1, <2>0
  <2>4. r.num = s.sent \/ s.sent = r.num + 1
    <3>1. PICK a, b, c : a = s.num /\ b = r.num /\ c = s.sent
      OBVIOUS
    <3>2. a \in Nat /\ b \in Nat /\ c \in Nat /\ a <= b /\ b <= c /\ c <= a + 1
      BY Zenon, <1>5, <1>11, <3>1
    <3>3. b = c \/ c = b + 1
      BY <3>2
    <3>4. QED
      BY Zenon, <3>1, <3>3
  <2>5. QED
    BY Zenon, <2>2, <2>3, <2>4
<1>13. r'.num \in Nat /\ s.num <= r'.num /\ r'.num <= s.sent /\ r'.num <= Len(File)
  <2>1. s.num <= s.sent
    BY <1>5, <1>11
  <2>2. s.sent <= s.sent
    BY <1>5
  <2>3. QED
    BY Zenon, <1>5, <1>6, <1>12, <2>1, <2>2
<1>14. FileInOrder'
  <2>1. r.file = [i \in 1 .. r.num |-> i]
    BY Zenon, <1>1 DEF FileInOrder
  <2>2. CASE d = 0
    BY Zenon, <1>4, <1>12, <2>1, <2>2 DEF FileInOrder
  <2>3. CASE d = 1
    <3>1. PICK n, f : n = r.num /\ f = r.file
      OBVIOUS
    <3>2. n \in Nat /\ f \in Seq(Nat) /\ f = [i \in 1 .. n |-> i]
      BY Zenon, <1>5, <2>1, <3>1
    <3>3. Len(f) = n
      BY <3>2
    <3>4. Append(f, n + 1) = [i \in 1 .. n + 1 |-> i]
      BY <3>2, <3>3
    <3>5. d # 0
      BY <2>3
    <3>6. r'.file = Append(f, n + 1) /\ r'.num = n + 1
      BY Zenon, <1>4, <1>9, <1>12, <2>3, <3>1, <3>5
    <3>7. QED
      BY Zenon, <3>4, <3>6 DEF FileInOrder
  <2>4. QED
    BY Zenon, <2>2, <2>3
<1>15. Thin(Line, Line')
  BY Zenon, <1>3, LineShifts
<1>16. /\ None(Line, Heading) => None(Line', Heading)
       /\ HeadsFit(Line, s.sent) => HeadsFit(Line', s.sent)
  BY Zenon, <1>15, HeadsKept
<1>17. ASSUME Running(s)
       PROVE  None(Line', Heading) /\ Once(toS', Answering) /\ ~s.flag
  <2>1. None(Line, Heading) /\ None(toS, Answering) /\ ~s.flag
    BY Zenon, <1>1, <1>2, <1>6, <1>17 DEF Tokens
  <2>2. "ACK" \in Answering
    BY DEF Answering
  <2>3. QED
    BY Zenon, <1>2, <1>16, <1>17, <2>1, <2>2, OneAnswer
<1>18. Tokens'
  BY Zenon, <1>2, <1>17, NoneOnce DEF Tokens
<1>19. Live'
  BY Zenon, <1>1, <1>2, <1>16 DEF Live
<1>20. Numbers'
  BY Zenon, <1>11, <1>13 DEF Numbers
<1>21. ~r.success
  BY Zenon, <1>2, RFieldTypes DEF XTypes, RShape, Running
<1>22. Acks' /\ Ends' /\ Silent'
  <2>1. s.open
    BY Zenon, <1>6, <1>11
  <2>2. QED
    BY Zenon, <1>1, <1>2, <1>12, <1>21, <2>1 DEF Acks, Ends, Silent
<1>23. QED
  BY Zenon, <1>14, <1>18, <1>19, <1>20, <1>22 DEF Agree
-----------------------------------------------------------------------------
(* The steps of the sender keep the two in agreement.                      *)

LEMMA ToSKept ==
    ASSUME XTypes, XTypes', NEW k \in Nat, Shifted(toS, toS', k)
    PROVE  /\ Once(toS, Answering) => Once(toS', Answering)
           /\ None(toS, Answering) => None(toS', Answering)
           /\ None(toS, {"ACK"}) => None(toS', {"ACK"})
<1>1. toS \in Seq(Symbol) /\ toS' \in Seq(Symbol)
  BY Zenon DEF XTypes, STypes
<1>2. Thin(toS, toS')
  BY Zenon, <1>1, ShiftedIsThin
<1>3. QED
  BY Zenon, <1>1, <1>2, ThinNone, ThinOnce, NoiseIsNone

LEMMA KeepSDrops ==
    ASSUME XTypes, XTypes', Agree, r' = r, SDrops
    PROVE  Agree'
<1>1. /\ Numbers /\ FileInOrder /\ Tokens /\ Live /\ Acks /\ Ends /\ Silent
  BY Zenon DEF Agree
<1>2. /\ s'.num = s.num /\ s'.sent = s.sent /\ s'.open = s.open /\ s'.success = s.success
      /\ s'.out = s.out /\ toR' = toR /\ (s'.flag => s.flag)
      /\ (Running(s') <=> Running(s))
  BY Zenon DEF SDrops, SSame
<1>3. PICK k \in Nat : Shifted(toS, toS', k)
  BY Zenon DEF SDrops
<1>4. /\ Once(toS, Answering) => Once(toS', Answering)
      /\ None(toS, Answering) => None(toS', Answering)
      /\ None(toS, {"ACK"}) => None(toS', {"ACK"})
  BY Zenon, <1>3, ToSKept
<1>5. Line' = Line
  BY Zenon, <1>2 DEF Line
<1>6. Tokens'
  BY Zenon, <1>1, <1>2, <1>4, <1>5 DEF Tokens
<1>7. Live'
  BY Zenon, <1>1, <1>2, <1>5 DEF Live
<1>8. Acks'
  BY Zenon, <1>1, <1>2, <1>4 DEF Acks
<1>9. Numbers' /\ FileInOrder' /\ Ends' /\ Silent'
  BY Zenon, <1>1, <1>2 DEF Numbers, FileInOrder, Ends, Silent
<1>10. QED
  BY Zenon, <1>6, <1>7, <1>8, <1>9 DEF Agree

LEMMA KeepTurns ==
    ASSUME XTypes, XTypes', Agree, r' = r, STurns
    PROVE  Agree'
<1>1. /\ Numbers /\ FileInOrder /\ Tokens /\ Live /\ Acks /\ Ends /\ Silent
  BY Zenon DEF Agree
<1>2. /\ Running(s) /\ Running(s') /\ toS # << >> /\ toS[1].is \in {"ACK", "NAK", "C"}
      /\ toS' = Tail(toS) /\ toR' = toR /\ s'.out = s.out
      /\ s'.sent = s.sent /\ s'.open = s.open /\ s'.success = s.success
      /\ s'.num = s.num \/ (toS[1].is = "ACK" /\ s.open /\ s'.num = s.sent)
  BY Zenon DEF STurns
<1>3. toS \in Seq(Symbol) /\ s.sent \in Nat
  BY Zenon, Parts
<1>4. toS[1].is \in Answering
  BY <1>2 DEF Answering
<1>5. ~None(toS, Answering)
  BY Zenon, <1>2, <1>3, <1>4, FirstIsThere
<1>6. None(toS', Answering) /\ Once(toS', Answering)
  <2>1. Once(toS, Answering)
    BY Zenon, <1>1, <1>2 DEF Tokens
  <2>2. QED
    BY Zenon, <1>2, <1>3, <1>4, <2>1, TailNone, NoneOnce
<1>7. Line' = Line
  BY Zenon, <1>2 DEF Line
<1>8. Tokens'
  BY Zenon, <1>1, <1>2, <1>5, <1>6, <1>7 DEF Tokens
<1>9. Live'
  BY Zenon, <1>1, <1>2, <1>7 DEF Live
<1>10. None(toS', {"ACK"})
  BY Zenon, <1>6, NoAnswerNoAck
<1>11. Acks'
  BY Zenon, <1>10 DEF Acks
<1>12. Numbers'
  <2>1. CASE s'.num = s.num
    BY Zenon, <1>1, <1>2, <2>1 DEF Numbers
  <2>2. CASE toS[1].is = "ACK" /\ s.open /\ s'.num = s.sent
    <3>1. ~None(toS, {"ACK"})
      <4>1. toS[1].is \in {"ACK"}
        BY <2>2
      <4>2. QED
        BY Zenon, <1>2, <1>3, <4>1, FirstIsThere
    <3>2. r.num = s.sent
      BY Zenon, <1>1, <1>2, <2>2, <3>1 DEF Acks
    <3>3. s.sent <= s.sent /\ s.sent <= s.sent + 1
      BY <1>3
    <3>4. QED
      BY Zenon, <1>1, <1>2, <2>2, <3>2, <3>3 DEF Numbers
  <2>3. QED
    BY Zenon, <1>2, <2>1, <2>2
<1>13. FileInOrder' /\ Ends' /\ Silent'
  BY Zenon, <1>1, <1>2 DEF FileInOrder, Ends, Silent
<1>14. QED
  BY Zenon, <1>8, <1>9, <1>11, <1>12, <1>13 DEF Agree

LEMMA KeepSFinishes ==
    ASSUME XTypes, XTypes', Agree, r' = r, SFinishes
    PROVE  Agree'
<1>1. /\ Numbers /\ FileInOrder /\ Tokens /\ Live /\ Acks /\ Ends /\ Silent
  BY Zenon DEF Agree
<1>2. /\ Running(s) /\ toS # << >> /\ toS[1].is = "ACK" /\ ~s.open
      /\ s'.num = s.num /\ s'.sent = s.sent /\ s'.open = s.open
      /\ ~Running(s') /\ s'.out = s.out /\ s.out = << >> /\ toR' = toR
  BY Zenon DEF SFinishes
<1>3. toS \in Seq(Symbol)
  BY Zenon, Parts
<1>4. ~None(toS, {"ACK"})
  <2>1. toS[1].is \in {"ACK"}
    BY <1>2
  <2>2. QED
    BY Zenon, <1>2, <1>3, <2>1, FirstIsThere
<1>5. r.success
  BY Zenon, <1>1, <1>2, <1>4 DEF Acks
<1>6. Line' = Line
  BY Zenon, <1>2 DEF Line
<1>7. Live'
  BY Zenon, <1>1, <1>2, <1>6 DEF Live
<1>8. Numbers' /\ FileInOrder' /\ Tokens' /\ Acks' /\ Ends' /\ Silent'
  BY Zenon, <1>1, <1>2, <1>5 DEF Numbers, FileInOrder, Tokens, Acks, Ends, Silent
<1>9. QED
  BY Zenon, <1>7, <1>8 DEF Agree

(* What holds neither heads nor data may follow.                           *)
LEMMA AppendFits ==
    ASSUME NEW q \in Seq(Symbol), NEW m \in Seq(Symbol), NEW n, None(m, Heading),
           None(m, {"data"})
    PROVE  /\ \A i \in 0 .. Len(q) : Stands(q, i, n) => Stands(q \o m, i, n)
           /\ HeadsFit(q, n) => HeadsFit(q \o m, n)
<1>1. PICK w : w = q \o m
  OBVIOUS
<1>2. w \in Seq(Symbol) /\ Len(w) = Len(q) + Len(m) /\ Len(q) \in Nat /\ Len(m) \in Nat
      /\ \A j \in 1 .. Len(q) : w[j] = q[j]
  BY <1>1
<1>3. ASSUME NEW j \in 1 .. Len(w), w[j].is \in {"SOH", "STX", "EOT", "data"}
      PROVE  j \in 1 .. Len(q) /\ w[j] = q[j]
  <2>1. CASE j - Len(q) \in 1 .. Len(m) /\ w[j] = m[j - Len(q)]
    <3>1. w[j].is \notin Heading /\ w[j].is \notin {"data"}
      BY Zenon, <2>1 DEF None
    <3>2. FALSE
      BY <1>3, <3>1 DEF Heading
    <3>3. QED
      BY Zenon, <3>2
  <2>2. QED
    BY Zenon, <1>1, <2>1, Behind
<1>4. ASSUME NEW i \in 0 .. Len(q), Stands(q, i, n)
      PROVE  Stands(w, i, n)
  <2>1. ASSUME NEW j \in i + 1 .. Len(w), w[j].is = "data"
        PROVE  /\ j <= i + 3 /\ w[j].n = n
               /\ j = i + 3 => w[i + 1] \in NumberOf(n) /\ w[i + 2] \in ComplementOf(n)
    <3>1. j \in 1 .. Len(w)
      BY <1>2
    <3>2. j \in 1 .. Len(q) /\ w[j] = q[j]
      <4>1. w[j].is \in {"SOH", "STX", "EOT", "data"}
        BY <2>1
      <4>2. QED
        BY Zenon, <1>3, <3>1, <4>1
    <3>3. j \in i + 1 .. Len(q)
      BY <3>2
    <3>4. /\ j <= i + 3 /\ q[j].n = n
          /\ j = i + 3 => q[i + 1] \in NumberOf(n) /\ q[i + 2] \in ComplementOf(n)
      BY Zenon, <1>4, <2>1, <3>2, <3>3 DEF Stands
    <3>5. j = i + 3 => i + 1 \in 1 .. Len(q) /\ i + 2 \in 1 .. Len(q)
      BY <3>2
    <3>6. QED
      BY Zenon, <1>2, <3>2, <3>4, <3>5
  <2>2. QED
    BY Zenon, <2>1 DEF Stands
<1>5. ASSUME HeadsFit(q, n)
      PROVE  HeadsFit(w, n)
  <2>1. ASSUME NEW i \in 1 .. Len(w), w[i].is \in {"SOH", "STX"}
        PROVE  Stands(w, i, n) /\ 1 <= n /\ n <= Len(File)
    <3>1. w[i].is \in {"SOH", "STX", "EOT", "data"}
      BY <2>1
    <3>2. i \in 1 .. Len(q) /\ w[i] = q[i]
      BY Zenon, <1>3, <3>1
    <3>3. Stands(q, i, n) /\ 1 <= n /\ n <= Len(File)
      BY Zenon, <1>5, <2>1, <3>2 DEF HeadsFit
    <3>4. i \in 0 .. Len(q)
      BY <3>2
    <3>5. QED
      BY Zenon, <1>4, <3>3, <3>4
  <2>2. ASSUME NEW i \in 1 .. Len(w), w[i].is = "EOT"
        PROVE  n > Len(File)
    <3>1. w[i].is \in {"SOH", "STX", "EOT", "data"}
      BY <2>2
    <3>2. i \in 1 .. Len(q) /\ w[i] = q[i]
      BY Zenon, <1>3, <3>1
    <3>3. QED
      BY Zenon, <1>5, <2>2, <3>2 DEF HeadsFit
  <2>3. QED
    BY Zenon, <2>1, <2>2 DEF HeadsFit
<1>6. QED
  BY Zenon, <1>1, <1>4, <1>5

LEMMA GotBy ==
    ASSUME NEW m, toR' = ToReceiver(m)
    PROVE  (toR' = toR \/ toR' = toR \o m) /\ (Running(r) => toR' = toR \o m)
<1>1. Running(r) => r.state # "ended"
  BY DEF Running
<1>2. QED
  BY Zenon, <1>1 DEF ToReceiver

LEMMA Regroup ==
    ASSUME NEW a \in Seq(Symbol), NEW b \in Seq(Symbol), NEW c \in Seq(Symbol)
    PROVE  (a \o b) \o c = a \o (b \o c)
OBVIOUS

LEMMA Halves ==
    ASSUME NEW p \in Seq(Symbol), NEW k \in 0 .. Len(p)
    PROVE  SubSeq(p, 1, k) \o Drop(p, k) = p
<1>1. PICK a, b : a = SubSeq(p, 1, k) /\ b = SubSeq(p, k + 1, Len(p))
  OBVIOUS
<1>2. PICK n : n = Len(p)
  OBVIOUS
<1>3. /\ a \in Seq(Symbol) /\ b \in Seq(Symbol) /\ Len(a) = k /\ Len(b) = n - k
      /\ n \in Nat /\ k \in 0 .. n
  BY <1>1, <1>2
<1>4. /\ \A i \in 1 .. k : a[i] = p[i]
      /\ \A i \in 1 .. n - k : b[i] = p[k + i]
  BY <1>1, <1>2
<1>5. a \o b \in Seq(Symbol) /\ Len(a \o b) = n
  BY <1>3
<1>6. ASSUME NEW i \in 1 .. n
      PROVE  (a \o b)[i] = p[i]
  <2>1. CASE i \in 1 .. k
    <3>1. (a \o b)[i] = a[i]
      BY <1>3, <2>1
    <3>2. QED
      BY Zenon, <1>4, <2>1, <3>1
  <2>2. CASE i - k \in 1 .. n - k
    <3>1. (a \o b)[i] = b[i - k]
      BY <1>3, <2>2
    <3>2. k + (i - k) = i
      BY <1>3
    <3>3. QED
      BY Zenon, <1>4, <2>2, <3>1, <3>2
  <2>3. i \in 1 .. k \/ i - k \in 1 .. n - k
    BY <1>3
  <2>4. QED
    BY Zenon, <2>1, <2>2, <2>3
<1>7. a \o b = p
  <2>1. PICK w : w = a \o b
    OBVIOUS
  <2>2. w \in Seq(Symbol) /\ Len(w) = Len(p) /\ \A i \in 1 .. Len(p) : w[i] = p[i]
    BY Zenon, <1>2, <1>5, <1>6, <2>1
  <2>3. w = p
    BY <2>2
  <2>4. QED
    BY Zenon, <2>1, <2>3
<1>8. QED
  BY Zenon, <1>1, <1>7 DEF Drop

LEMMA EmptyBehind ==
    ASSUME NEW a \in Seq(Symbol), NEW e, e = << >>
    PROVE  a \o e = a
OBVIOUS

LEMMA KeepSGivesUp ==
    ASSUME XTypes, XTypes', Agree, r' = r, SGivesUp, early' = 0
    PROVE  Agree'
<1>1. /\ Numbers /\ FileInOrder /\ Tokens /\ Live /\ Acks /\ Ends /\ Silent
  BY Zenon DEF Agree
<1>2. /\ ~Running(s') /\ s'.num = s.num /\ s'.sent = s.sent /\ s'.open = s.open /\ ~s'.success
      /\ toR' = toR \/ toR' = ToReceiver(Cancel)
      /\ s'.out = << >> /\ (s.out = << >> \/ ~Running(s))
  BY Zenon DEF SGivesUp
<1>3. s.out = << >>
  BY Zenon, <1>1, <1>2 DEF Silent
<1>4. toR \in Seq(Symbol) /\ toR' \in Seq(Symbol) /\ r.pkt \in Seq(Symbol)
  BY Zenon, Parts DEF XTypes, RTypes
<1>5. Line = toR /\ Line' = toR'
  BY Zenon, <1>2, <1>3, <1>4, EmptyBehind DEF Line
<1>6. CASE toR' = toR
  <2>1. Live'
    BY Zenon, <1>1, <1>2, <1>5, <1>6 DEF Live
  <2>2. Numbers' /\ FileInOrder' /\ Tokens' /\ Acks' /\ Ends' /\ Silent'
    BY Zenon, <1>1, <1>2 DEF Numbers, FileInOrder, Tokens, Acks, Ends, Silent
  <2>3. QED
    BY Zenon, <2>1, <2>2 DEF Agree
<1>7. CASE toR' = toR \o Cancel
  <2>1. Cancel \in Seq(Symbol) /\ None(Cancel, Heading) /\ None(Cancel, {"data"})
    <3>1. Ctl("CAN").is = "CAN"
      BY DEF Ctl
    <3>2. "CAN" \notin {"data"}
      OBVIOUS
    <3>3. None(Cancel, {"data"})
      BY Zenon, <3>1, <3>2, CancelSymbols DEF None
    <3>4. QED
      BY Zenon, <3>3, CancelSymbols, CancelIsNone
  <2>2. HeadsFit(Line, s.sent) => HeadsFit(Line', s.sent)
    BY Zenon, <1>4, <1>5, <1>7, <2>1, AppendFits
  <2>3. Stands(r.pkt \o Line, 0, s.sent) => Stands(r.pkt \o Line', 0, s.sent)
    <3>1. r.pkt \o Line' = (r.pkt \o Line) \o Cancel
      BY Zenon, <1>4, <1>5, <1>7, <2>1, Regroup
    <3>2. PICK q : q = r.pkt \o Line
      OBVIOUS
    <3>3. q \in Seq(Symbol)
      BY <1>4, <1>5, <3>2
    <3>4. 0 \in 0 .. Len(q)
      BY <3>3
    <3>5. QED
      BY Zenon, <2>1, <3>1, <3>2, <3>3, <3>4, AppendFits
  <2>4. Live'
    BY Zenon, <1>1, <1>2, <2>2, <2>3 DEF Live
  <2>5. Numbers' /\ FileInOrder' /\ Tokens' /\ Acks' /\ Ends' /\ Silent'
    BY Zenon, <1>1, <1>2 DEF Numbers, FileInOrder, Tokens, Acks, Ends, Silent
  <2>6. QED
    BY Zenon, <2>4, <2>5 DEF Agree
<1>8. QED
  BY Zenon, <1>2, <1>6, <1>7, GotBy

LEMMA KeepWrites ==
    ASSUME XTypes, XTypes', Agree, r' = r, SWrites
    PROVE  Agree'
<1>1. /\ Numbers /\ FileInOrder /\ Tokens /\ Live /\ Acks /\ Ends /\ Silent
  BY Zenon DEF Agree
<1>2. /\ s'.num = s.num /\ s'.sent = s.sent /\ s'.open = s.open /\ s'.success = s.success
      /\ Running(s) /\ Running(s') /\ ~s'.flag
  BY Zenon DEF SWrites, SSame
<1>3. PICK k \in 0 .. Len(s.out) :
         s'.out = Drop(s.out, k) /\ toR' = ToReceiver(SubSeq(s.out, 1, k))
  BY Zenon DEF SWrites
<1>4. PICK h \in Nat : Shifted(toS, toS', h)
  BY Zenon DEF SWrites
<1>5. /\ Once(toS, Answering) => Once(toS', Answering)
      /\ None(toS, Answering) => None(toS', Answering)
      /\ None(toS, {"ACK"}) => None(toS', {"ACK"})
  BY Zenon, <1>4, ToSKept
<1>6. ASSUME Running(r)
      PROVE  Line' = Line
  <2>1. toR \in Seq(Symbol) /\ s.out \in Seq(Symbol)
    BY Zenon, Parts
  <2>2. PICK a, b : a = SubSeq(s.out, 1, k) /\ b = Drop(s.out, k)
    OBVIOUS
  <2>3. a \in Seq(Symbol) /\ b \in Seq(Symbol) /\ a \o b = s.out
    BY Zenon, <2>1, <2>2, PartOf, Halves
  <2>4. toR' = toR \o a
    BY Zenon, <1>3, <1>6, <2>2, GotBy
  <2>5. Line' = (toR \o a) \o b
    BY Zenon, <1>3, <2>2, <2>4 DEF Line
  <2>6. (toR \o a) \o b = toR \o s.out
    <3>1. (toR \o a) \o b = toR \o (a \o b)
      BY Zenon, <2>1, <2>3, Regroup
    <3>2. QED
      BY Zenon, <2>3, <3>1
  <2>7. QED
    BY Zenon, <2>5, <2>6 DEF Line
<1>7. Tokens'
  BY Zenon, <1>1, <1>2, <1>5, <1>6 DEF Tokens
<1>8. Live'
  BY Zenon, <1>1, <1>2, <1>6 DEF Live
<1>9. Acks'
  BY Zenon, <1>1, <1>2, <1>5 DEF Acks
<1>10. Numbers' /\ FileInOrder' /\ Ends' /\ Silent'
  BY Zenon, <1>1, <1>2 DEF Numbers, FileInOrder, Ends, Silent
<1>11. QED
  BY Zenon, <1>7, <1>8, <1>9, <1>10 DEF Agree

LEMMA KeepFault ==
    ASSUME XTypes, XTypes', Agree, Faulted
    PROVE  Agree'
<1>1. /\ Numbers /\ FileInOrder /\ Tokens /\ Live /\ Acks /\ Ends /\ Silent
  BY Zenon DEF Agree
<1>2. /\ r' = r /\ s' = s
      /\ (toR' = toR \/ Thin(toR, toR')) /\ (toS' = toS \/ Thin(toS, toS'))
  BY Zenon DEF Faulted
<1>3. /\ toR \in Seq(Symbol) /\ toS \in Seq(Symbol) /\ s.out \in Seq(Symbol)
      /\ r.pkt \in Seq(Symbol) /\ Line \in Seq(Symbol)
      /\ toR' \in Seq(Symbol) /\ toS' \in Seq(Symbol)
  BY Zenon, Parts DEF XTypes, RTypes, STypes
<1>4. /\ Once(toS, Answering) => Once(toS', Answering)
      /\ None(toS, Answering) => None(toS', Answering)
      /\ None(toS, {"ACK"}) => None(toS', {"ACK"})
  BY Zenon, <1>2, <1>3, ThinNone, ThinOnce, NoiseIsNone
<1>5. Line' = Line \/ Thin(Line, Line')
  <2>1. Line' = toR' \o s.out /\ Line = toR \o s.out
    BY Zenon, <1>2 DEF Line
  <2>2. QED
    BY Zenon, <1>2, <1>3, <2>1, ThinBefore
<1>6. /\ None(Line, Heading) => None(Line', Heading)
      /\ Once(Line, Heading) => Once(Line', Heading)
      /\ HeadsFit(Line, s.sent) => HeadsFit(Line', s.sent)
  BY Zenon, <1>5, HeadsKept
<1>7. Stands(r.pkt \o Line, 0, s.sent) => Stands(r.pkt \o Line', 0, s.sent)
  <2>1. CASE Thin(Line, Line')
    <3>1. Line' \in Seq(Symbol)
      <4>1. PICK a, b : a = toR' /\ b = s.out
        OBVIOUS
      <4>2. a \o b \in Seq(Symbol)
        BY <1>3, <4>1
      <4>3. QED
        BY Zenon, <1>2, <4>1, <4>2 DEF Line
    <3>2. PICK p, q, o : p = Line' /\ q = Line /\ o = r.pkt
      OBVIOUS
    <3>3. p \in Seq(Symbol) /\ q \in Seq(Symbol) /\ o \in Seq(Symbol) /\ Thin(q, p)
      BY Zenon, <1>3, <2>1, <3>1, <3>2
    <3>4. o \o q \in Seq(Symbol) /\ o \o p \in Seq(Symbol)
      BY <3>3
    <3>5. Thin(o \o q, o \o p)
      BY Zenon, <3>3, ThinBehind
    <3>6. Stands(o \o q, 0, s.sent) => Stands(o \o p, 0, s.sent)
      BY Zenon, <3>4, <3>5, ThinStart
    <3>7. QED
      BY Zenon, <3>2, <3>6
  <2>2. QED
    BY Zenon, <1>5, <2>1
<1>8. Tokens'
  BY Zenon, <1>1, <1>2, <1>4, <1>6 DEF Tokens
<1>9. Live'
  BY Zenon, <1>1, <1>2, <1>6, <1>7 DEF Live
<1>10. Acks'
  BY Zenon, <1>1, <1>2, <1>4 DEF Acks
<1>11. Numbers' /\ FileInOrder' /\ Ends' /\ Silent'
  BY Zenon, <1>1, <1>2 DEF Numbers, FileInOrder, Ends, Silent
<1>12. QED
  BY Zenon, <1>8, <1>9, <1>10, <1>11 DEF Agree

(* The packet that is sent: one head, in front, that fits.                 *)
LEMMA PktFits ==
    ASSUME NEW opt \in Opts, NEW n \in Nat, n >= 1, NEW q \in Seq(Symbol), None(q, Heading),
           NEW p \in Seq(Symbol), p = PktOut(opt, n)
    PROVE  /\ Once(p, Heading) /\ HeadsFit(q \o p, n)
<1>1. Len(File) \in Nat
  BY FileAssumption
<1>2. CASE n <= Len(File)
  <2>1. p = Packet(opt, n)
    BY Zenon, <1>2 DEF PktOut
  <2>2. PICK c : c = 4 + CheckLen(opt)
    OBVIOUS
  <2>3. c \in {5, 6}
    BY <2>2 DEF CheckLen
  <2>4. /\ Len(p) = c /\ p[1].is \in {"SOH", "STX"}
        /\ p[2] = [is |-> "blk", n |-> n % BlkMod]
        /\ p[3] = [is |-> "com", n |-> n % BlkMod]
        /\ p[4] = [is |-> "data", n |-> n]
        /\ \A i \in 5 .. c : p[i].is \in {"sum", "hi", "lo"}
    <3>1. /\ Len(p) = 4 + CheckLen(opt) /\ p[1].is \in {"SOH", "STX"}
          /\ p[2] = [is |-> "blk", n |-> n % BlkMod]
          /\ p[3] = [is |-> "com", n |-> n % BlkMod]
          /\ p[4] = [is |-> "data", n |-> n]
          /\ \A i \in 5 .. 4 + CheckLen(opt) : p[i].is \in {"sum", "hi", "lo"}
      BY <2>1, PacketSymbols
    <3>2. QED
      BY <2>2, <3>1
  <2>5. p[2].is = "blk" /\ p[3].is = "com" /\ p[4].is = "data" /\ p[4].n = n
    BY <2>4
  <2>6. p[2] \in NumberOf(n) /\ p[3] \in ComplementOf(n)
    BY Zenon, <2>4 DEF NumberOf, ComplementOf
  <2>7. ASSUME NEW j \in 1 .. Len(p)
        PROVE  /\ p[j].is \in Heading => j = 1
               /\ p[j].is # "EOT"
               /\ p[j].is = "data" => j = 4
    <3>1. j \in {1, 2, 3, 4} \/ j \in 5 .. c
      BY <2>3, <2>4
    <3>2. CASE j \in 5 .. c
      <4>1. p[j].is \in {"sum", "hi", "lo"}
        BY Zenon, <2>4, <3>2
      <4>2. QED
        BY <4>1 DEF Heading
    <3>3. CASE j = 1
      BY <2>4, <3>3 DEF Heading
    <3>4. CASE j = 2
      <4>1. p[j].is = "blk"
        BY Zenon, <2>5, <3>4
      <4>2. QED
        BY <4>1 DEF Heading
    <3>5. CASE j = 3
      <4>1. p[j].is = "com"
        BY Zenon, <2>5, <3>5
      <4>2. QED
        BY <4>1 DEF Heading
    <3>6. CASE j = 4
      <4>1. p[j].is = "data"
        BY Zenon, <2>5, <3>6
      <4>2. QED
        BY <3>6, <4>1 DEF Heading
    <3>7. QED
      BY Zenon, <3>1, <3>2, <3>3, <3>4, <3>5, <3>6
  <2>8. Once(p, Heading)
    BY Zenon, <2>7 DEF Once
  <2>9. PICK w, b : w = q \o p /\ b = Len(q)
    OBVIOUS
  <2>10. /\ b \in Nat /\ Len(w) = b + c
         /\ \A j \in 1 .. c : w[b + j] = p[j]
    BY <2>3, <2>4, <2>9
  <2>11. Stands(w, b + 1, n)
    <3>1. ASSUME NEW j \in b + 1 + 1 .. Len(w), w[j].is = "data"
          PROVE  /\ j <= b + 1 + 3 /\ w[j].n = n
                 /\ j = b + 1 + 3 => /\ w[b + 1 + 1] \in NumberOf(n)
                                     /\ w[b + 1 + 2] \in ComplementOf(n)
      <4>1. PICK i : i = j - b
        OBVIOUS
      <4>2. i \in 1 .. c /\ j = b + i
        <5>1. PICK e : e = Len(w)
          OBVIOUS
        <5>2. b \in Nat /\ e = b + c
          BY Zenon, <2>10, <5>1
        <5>3. j \in b + 1 + 1 .. e
          BY Zenon, <5>1
        <5>4. QED
          BY <2>3, <4>1, <5>2, <5>3
      <4>3. w[j] = p[i]
        BY Zenon, <2>10, <4>2
      <4>4. i = 4
        BY Zenon, <2>4, <2>7, <3>1, <4>2, <4>3
      <4>5. j <= b + 1 + 3
        BY <2>10, <4>2, <4>4
      <4>6. w[j].n = n
        BY Zenon, <2>5, <4>3, <4>4
      <4>7. 2 \in 1 .. c /\ 3 \in 1 .. c /\ b + 1 + 1 = b + 2 /\ b + 1 + 2 = b + 3
        BY <2>3, <2>10
      <4>8. w[b + 1 + 1] = p[2] /\ w[b + 1 + 2] = p[3]
        BY Zenon, <2>10, <4>7
      <4>9. QED
        BY Zenon, <2>6, <4>5, <4>6, <4>8
    <3>2. QED
      BY Zenon, <3>1 DEF Stands
  <2>12. ASSUME NEW i \in 1 .. Len(w), w[i].is \in Heading
         PROVE  i = b + 1 /\ w[i].is # "EOT"
    <3>1. CASE i \in 1 .. Len(q) /\ w[i] = q[i]
      BY Zenon, <2>12, <3>1 DEF None
    <3>2. CASE i - Len(q) \in 1 .. Len(p) /\ w[i] = p[i - Len(q)]
      <4>1. i - Len(q) = 1 /\ w[i].is # "EOT"
        BY Zenon, <2>7, <2>12, <3>2
      <4>2. i = b + 1
        <5>1. i - b = 1 /\ b \in Nat
          BY Zenon, <2>9, <2>10, <4>1
        <5>2. i \in Int
          OBVIOUS
        <5>3. QED
          BY <5>1, <5>2
      <4>3. QED
        BY Zenon, <4>1, <4>2
    <3>3. QED
      BY Zenon, <2>9, <3>1, <3>2, Behind
  <2>13. HeadsFit(w, n)
    <3>1. {"SOH", "STX"} \subseteq Heading /\ "EOT" \in Heading
      BY DEF Heading
    <3>2. ASSUME NEW i \in 1 .. Len(w), w[i].is \in {"SOH", "STX"}
          PROVE  Stands(w, i, n) /\ 1 <= n /\ n <= Len(File)
      <4>1. w[i].is \in Heading
        BY Zenon, <3>1, <3>2
      <4>2. i = b + 1
        BY Zenon, <2>12, <4>1
      <4>3. 1 <= n
        OBVIOUS
      <4>4. QED
        BY Zenon, <1>2, <2>11, <4>2, <4>3
    <3>3. ASSUME NEW i \in 1 .. Len(w), w[i].is = "EOT"
          PROVE  n > Len(File)
      BY Zenon, <2>12, <3>1, <3>3
    <3>4. QED
      BY Zenon, <3>2, <3>3 DEF HeadsFit
  <2>14. QED
    BY Zenon, <2>8, <2>9, <2>13
<1>3. CASE ~(n <= Len(File))
  <2>1. p = << Ctl("EOT") >>
    BY Zenon, <1>3 DEF PktOut
  <2>2. Len(p) = 1 /\ p[1].is = "EOT"
    BY <2>1 DEF Ctl
  <2>3. Once(p, Heading)
    BY Zenon, <2>1, SingleOnce
  <2>4. PICK w : w = q \o p
    OBVIOUS
  <2>5. ASSUME NEW i \in 1 .. Len(w), w[i].is \in Heading
        PROVE  w[i].is = "EOT"
    <3>1. CASE i \in 1 .. Len(q) /\ w[i] = q[i]
      BY Zenon, <2>5, <3>1 DEF None
    <3>2. CASE i - Len(q) \in 1 .. Len(p) /\ w[i] = p[i - Len(q)]
      <4>1. i - Len(q) = 1
        BY <2>2, <3>2
      <4>2. QED
        BY Zenon, <2>2, <3>2, <4>1
    <3>3. QED
      BY Zenon, <2>4, <3>1, <3>2, Behind
  <2>6. HeadsFit(w, n)
    <3>1. ASSUME NEW i \in 1 .. Len(w)
          PROVE  w[i].is \notin {"SOH", "STX"}
      <4>1. SUFFICES ASSUME w[i].is \in {"SOH", "STX"}
                     PROVE  FALSE
        OBVIOUS
      <4>2. w[i].is \in Heading
        BY <4>1 DEF Heading
      <4>3. w[i].is = "EOT"
        BY Zenon, <2>5, <4>2
      <4>4. QED
        BY <4>1, <4>3
    <3>2. n > Len(File)
      BY <1>1, <1>3
    <3>3. QED
      BY Zenon, <3>1, <3>2 DEF HeadsFit
  <2>7. QED
    BY Zenon, <2>3, <2>4, <2>6
<1>4. QED
  BY Zenon, <1>2, <1>3

LEMMA KeepSends ==
    ASSUME XTypes, XTypes', Agree, r' = r, SSends
    PROVE  Agree'
<1>1. /\ Numbers /\ FileInOrder /\ Tokens /\ Live /\ Acks /\ Ends /\ Silent
  BY Zenon DEF Agree
<1>2. /\ Running(s) /\ Running(s') /\ s.flag /\ ~s'.flag /\ s.out = << >> /\ toS' = toS
      /\ s'.num = s.num /\ s'.success = s.success
      /\ s'.sent = IF s.sent = s.num THEN s.sent + 1 ELSE s.sent
      /\ (s'.open <=> (s.open /\ s'.sent <= Len(File)))
  BY Zenon DEF SSends
<1>3. PICK pkt \in Seq(Symbol) : \E k \in 0 .. Len(pkt) :
          /\ pkt = PktOut(s.opt, s'.sent)
          /\ s'.out = Drop(pkt, k) /\ toR' = ToReceiver(SubSeq(pkt, 1, k))
  BY Zenon DEF SSends
<1>4. PICK k \in 0 .. Len(pkt) :
         /\ pkt = PktOut(s.opt, s'.sent)
         /\ s'.out = Drop(pkt, k) /\ toR' = ToReceiver(SubSeq(pkt, 1, k))
  BY Zenon, <1>3
<1>5. /\ toR \in Seq(Symbol) /\ toS \in Seq(Symbol) /\ r.num \in Nat /\ s.num \in Nat
      /\ s.sent \in Nat /\ Len(File) \in Nat /\ s.opt \in Opts
  BY Zenon, Parts, SFieldTypes DEF XTypes
<1>6. PICK n : n = s'.sent
  OBVIOUS
<1>7. /\ s.num <= r.num /\ r.num <= s.sent /\ s.sent <= s.num + 1 /\ r.num <= Len(File)
      /\ (s.open <=> s.sent <= Len(File))
  BY Zenon, <1>1 DEF Numbers
<1>8. n \in Nat /\ n >= 1 /\ r.num <= n /\ n <= s.num + 1 /\ s.sent <= n
  <2>1. PICK a, b, c : a = s.num /\ b = r.num /\ c = s.sent
    OBVIOUS
  <2>2. a \in Nat /\ b \in Nat /\ c \in Nat /\ a <= b /\ b <= c /\ c <= a + 1
    BY Zenon, <1>5, <1>7, <2>1
  <2>3. n = IF c = a THEN c + 1 ELSE c
    BY Zenon, <1>2, <1>6, <2>1
  <2>4. n \in Nat /\ n >= 1 /\ b <= n /\ n <= a + 1 /\ c <= n
    BY <2>2, <2>3
  <2>5. QED
    BY Zenon, <2>1, <2>4
<1>9. s'.open <=> n <= Len(File)
  <2>1. n <= Len(File) => s.sent <= Len(File)
    BY <1>5, <1>8
  <2>2. QED
    BY Zenon, <1>2, <1>6, <1>7, <2>1
<1>10. Numbers'
  BY Zenon, <1>2, <1>6, <1>7, <1>8, <1>9 DEF Numbers
<1>11. None(toS, Answering) /\ (Running(r) => None(Line, Heading) /\ r.mode = "SOH")
  BY Zenon, <1>1, <1>2 DEF Tokens
<1>12. ASSUME Running(r)
       PROVE  Once(Line', Heading) /\ HeadsFit(Line', n)
  <2>1. Line = toR
    BY Zenon, <1>2, <1>5, EmptyBehind DEF Line
  <2>2. PICK a, b : a = SubSeq(pkt, 1, k) /\ b = Drop(pkt, k)
    OBVIOUS
  <2>3. a \in Seq(Symbol) /\ b \in Seq(Symbol) /\ a \o b = pkt
    BY Zenon, <2>2, PartOf, Halves
  <2>4. toR' = toR \o a
    BY Zenon, <1>4, <1>12, <2>2, GotBy
  <2>5. Line' = (toR \o a) \o b
    BY Zenon, <1>4, <2>2, <2>4 DEF Line
  <2>6. Line' = toR \o pkt
    <3>1. PICK t : t = toR
      OBVIOUS
    <3>2. t \in Seq(Symbol) /\ a \in Seq(Symbol) /\ b \in Seq(Symbol)
      BY Zenon, <1>5, <2>3, <3>1
    <3>3. (t \o a) \o b = t \o (a \o b)
      BY Zenon, <3>2, Regroup
    <3>4. QED
      BY Zenon, <2>3, <2>5, <3>1, <3>3
  <2>7. None(toR, Heading)
    BY Zenon, <1>11, <1>12, <2>1
  <2>8. Once(pkt, Heading) /\ HeadsFit(toR \o pkt, n)
    BY Zenon, <1>4, <1>5, <1>6, <1>8, <2>7, PktFits
  <2>9. Once(toR \o pkt, Heading)
    BY Zenon, <1>5, <2>7, <2>8, OneMore
  <2>10. QED
    BY Zenon, <2>6, <2>8, <2>9
<1>13. Tokens'
  BY Zenon, <1>2, <1>11, <1>12, NoneOnce DEF Tokens
<1>14. Live'
  BY Zenon, <1>6, <1>11, <1>12 DEF Live
<1>15. Acks'
  BY Zenon, <1>2, <1>11, NoAnswerNoAck DEF Acks
<1>16. FileInOrder' /\ Ends' /\ Silent'
  BY Zenon, <1>1, <1>2 DEF FileInOrder, Ends, Silent
<1>17. QED
  BY Zenon, <1>10, <1>13, <1>14, <1>15, <1>16 DEF Agree

LEMMA AgreeInit == Init => Agree
<1> SUFFICES ASSUME Init
             PROVE  Agree
  OBVIOUS
<1>1. PICK a \in ReceiverOpts : r = ReceiverInit(a)
  BY Zenon DEF Init
<1>2. PICK b \in SenderOpts : s = SenderInit(b)
  BY Zenon DEF Init
<1>3. /\ r.state = "flush" /\ r.mode = "SOH" /\ r.num = 0 /\ r.file = << >> /\ ~r.success
      /\ r.nakMode = NakModeOf(a)
  BY <1>1 DEF ReceiverInit
<1>4. /\ s.state = "flush" /\ s.num = 0 /\ s.sent = 0 /\ s.out = << >> /\ s.open = TRUE
      /\ ~s.flag /\ ~s.success
  BY <1>2 DEF SenderInit
<1>5. toR = << >> /\ toS = << Ctl(r.nakMode) >>
  BY Zenon DEF Init
<1>6. Line = << >>
  BY <1>4, <1>5 DEF Line
<1>7. None(Line, Heading) /\ Once(toS, Answering)
  BY Zenon, <1>5, <1>6, EmptyNone, SingleOnce
<1>8. r.nakMode # "ACK"
  BY Zenon, <1>3 DEF NakModeOf
<1>9. None(toS, {"ACK"})
  <2>1. Len(toS) = 1 /\ toS[1].is = r.nakMode
    BY <1>5 DEF Ctl
  <2>2. QED
    BY <1>8, <2>1 DEF None
<1>10. Len(File) \in Nat
  BY FileAssumption
<1>11. Numbers
  BY <1>3, <1>4, <1>10 DEF Numbers
<1>12. FileInOrder
  <2>1. r.file = [i \in 1 .. 0 |-> i]
    BY <1>3
  <2>2. QED
    BY Zenon, <1>3, <2>1 DEF FileInOrder
<1>13. Tokens
  BY Zenon, <1>3, <1>4, <1>7, NoneOnce DEF Tokens
<1>14. Live
  BY Zenon, <1>3, <1>7, NoneFits DEF Live
<1>15. Acks
  BY Zenon, <1>9 DEF Acks
<1>16. Ends /\ Silent
  BY Zenon, <1>3, <1>4 DEF Ends, Silent
<1>17. QED
  BY Zenon, <1>11, <1>12, <1>13, <1>14, <1>15, <1>16 DEF Agree

LEMMA XInvInit == Init => XInv
BY Zenon, XTypesInit, AgreeInit DEF XInv

LEMMA XInvStep ==
    ASSUME XInv, [Next]_vars
    PROVE  XInv'
<1>1. XTypes /\ (Clean => Agree)
  BY Zenon DEF XInv
<1>2. XTypes'
  BY Zenon, <1>1, XTypesStep
<1>3. ASSUME Clean'
      PROVE  Agree'
  <2>1. early' = 0 /\ ~misread'
    BY Zenon, <1>3 DEF Clean
  <2>2. CASE RSide
    <3>1. Agree
      BY Zenon, <1>1, <1>3, <2>2, Counted
    <3>2. RStep /\ s' = s
      BY Zenon, <1>1, <2>2, RSideDone DEF RDone
    <3>3. QED
      BY Zenon, <1>1, <1>2, <2>1, <3>1, <3>2, KeepDrops, KeepMeets, KeepTakes, KeepDenies,
         KeepRGivesUp, KeepFinishes, KeepAccepts DEF RStep
  <2>3. CASE SSide
    <3>1. Agree
      BY Zenon, <1>1, <1>3, <2>3, Counted
    <3>2. SStep /\ r' = r
      BY Zenon, <1>1, <2>3, SSideDone DEF SDone
    <3>3. QED
      BY Zenon, <1>1, <1>2, <2>1, <3>1, <3>2, KeepSDrops, KeepTurns, KeepSFinishes,
         KeepSGivesUp, KeepSends, KeepWrites DEF SStep
  <2>4. CASE LineFault
    <3>1. Faulted
      BY Zenon, <1>1, <2>4, DoneLineFault
    <3>2. Clean
      BY Zenon, <2>1, <3>1 DEF Faulted, Clean
    <3>3. QED
      BY Zenon, <1>1, <1>2, <3>1, <3>2, KeepFault
  <2>5. CASE UNCHANGED vars
    <3>1. r' = r /\ s' = s /\ toR' = toR /\ toS' = toS /\ early' = early /\ misread' = misread
      BY Zenon, <2>5 DEF vars
    <3>2. Agree
      BY Zenon, <1>1, <2>1, <3>1 DEF Clean
    <3>3. Line' = Line
      BY Zenon, <3>1 DEF Line
    <3>4. QED
      BY Zenon, <3>1, <3>2, <3>3 DEF Agree, Numbers, FileInOrder, Tokens, Live, Acks, Ends, Silent
  <2>6. QED
    BY Zenon, <2>2, <2>3, <2>4, <2>5, Sides
<1>4. QED
  BY Zenon, <1>2, <1>3 DEF XInv

(* In a transfer without an early timeout and without a byte taken for a   *)
(* command, the answers, which carry no number, are matched with the right *)
(* block whatever the line loses or damages: the sender counts no block as *)
(* delivered that the receiver has not stored, and the receiver does not   *)
(* get ahead of it.                                                        *)
THEOREM AnswersMatch == Spec => []InStep
<1>1. XInv => InStep
  BY Zenon DEF XInv, Agree, Numbers, InStep
<1>2. QED
  BY <1>1, XInvInit, XInvStep, PTL DEF Spec

(* In such a transfer the receiver reports success only with the whole     *)
(* file on its disk, and the sender only when the receiver does.           *)
THEOREM SuccessIsReal == Spec => []SuccessIfClean
<1>1. XInv => SuccessIfClean
  <2>1. SUFFICES ASSUME XInv, Clean
                 PROVE  (r.success => Whole) /\ (s.success => r.success)
    BY Zenon DEF SuccessIfClean
  <2>2. FileInOrder /\ (r.success => r.num = Len(File)) /\ (s.success => r.success)
    BY Zenon, <2>1 DEF XInv, Agree, Ends
  <2>3. QED
    BY Zenon, <2>2 DEF FileInOrder, Whole
<1>2. QED
  BY <1>1, XInvInit, XInvStep, PTL DEF Spec

(* In such a transfer the file on the receiver's disk is a prefix of the   *)
(* file sent, every block once and in order, although a block whose answer *)
(* is lost is sent again.                                                  *)
THEOREM BlocksInOrder == Spec => [](Clean => FileInOrder)
<1>1. XInv => (Clean => FileInOrder)
  BY Zenon DEF XInv, Agree
<1>2. QED
  BY <1>1, XInvInit, XInvStep, PTL DEF Spec
=============================================================================
