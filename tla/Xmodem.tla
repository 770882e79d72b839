---------------------------- MODULE Xmodem ----------------------------
(***************************************************************************)
(* XMODEM in ttpfile/xmodem.c: a Tera Term that sends a file to a Tera     *)
(* Term that receives it, over a line that delays, loses and damages       *)
(* bytes.  A packet is SOH or STX, the block number, its complement, the   *)
(* data and a check; the answer is a single ACK, NAK or 'C' without a      *)
(* number.                                                                 *)
(*                                                                         *)
(* Each program is one thread: the idle loop calls XParse again and again  *)
(* (ProtoDlgParse reads the line into the receive buffer first), and a     *)
(* timer message may come between two calls.                               *)
(*                                                                         *)
(* The line carries symbols: one for each header byte, one for the data of *)
(* a packet and one for each check byte.  A check fits only the data it    *)
(* was computed over; a damaged byte is no command and no complement.      *)
(***************************************************************************)
EXTENDS Integers, Sequences, SequencesExt, FiniteSets

CONSTANTS
    File,          \* for each block, the command its first byte would be, or "data"
    BlkMod,        \* values of a block number, 256 in the code
    SenderOpts,    \* XOpt of the sender at the start, one of these
    ReceiverOpts,  \* XOpt of the receiver at the start, one of these
    CTries,        \* tries with 'C', 3 in the code
    NakTries,      \* tries with NAK, 10 in the code
    MaxFaults,     \* bound: symbols lost or damaged
    MaxEvents,     \* bound: cancels of the users, and timeouts that come early
    Cuts           \* how many symbols the send buffer may have room for, when not for all

Checksum == {"Check", "1kCksum"}
Crc == {"CRC", "1kCRC"}
Opts == Checksum \cup Crc

ASSUME FileAssumption == File \in Seq({"data", "SOH", "STX", "EOT", "CAN"})
ASSUME NumbersAssumption == BlkMod \in 3 .. 256
ASSUME OptAssumption == SenderOpts \subseteq Opts /\ ReceiverOpts \subseteq Opts
ASSUME TriesAssumption == CTries \in Nat \ {0} /\ NakTries \in Nat \ {0}
ASSUME BoundAssumption == MaxFaults \in Nat /\ MaxEvents \in Nat /\ Cuts \subseteq Nat

VARIABLES
    r,         \* the receiver's XVar
    s,         \* the sender's XVar
    toR, toS,  \* the line, each way: symbols sent and not yet read
    faults,    \* symbols lost or damaged so far
    early,     \* timeouts so far that came while something was under way
    misread    \* history: a byte inside a packet was taken as a command

vars == <<r, s, toR, toS, faults, early, misread>>

-----------------------------------------------------------------------------
(* Symbols *)

Symbol == [is : {"SOH", "STX", "EOT", "CAN", "ACK", "NAK", "C", "noise",
                 "blk", "com", "data", "sum", "hi", "lo"}, n : Nat]

Ctl(c) == [is |-> c, n |-> 0]

\* Mutant: a cancel too short to be taken for one.
TwoCancels == [i \in 1 .. 2 |-> Ctl("CAN")]

\* Five cancels; the backspaces after them only clean up the peer's screen.
Cancel == [i \in 1 .. 5 |-> Ctl("CAN")]

\* The value of a control byte; 128 stands for any byte that is none.
CtlByte(c) == CASE c = "SOH" -> 1 [] c = "STX" -> 2 [] c = "EOT" -> 4
                [] c = "CAN" -> 24 [] c = "ACK" -> 6 [] c = "NAK" -> 21
                [] c = "C" -> 67 [] OTHER -> 128

\* The value of a byte where a symbol of another kind was expected.
Byte(b) == CASE b.is = "blk" -> b.n
             [] b.is = "com" -> 255 - b.n
             [] b.is = "data" -> CtlByte(File[b.n])
             [] OTHER -> CtlByte(b.is)

\* What the receiver takes a byte for where a packet should begin.
IsCommand(b, c) == Byte(b) = CtlByte(c)

CheckOf(opt, n) ==
    IF opt \in Checksum THEN <<[is |-> "sum", n |-> n]>>
                        ELSE <<[is |-> "hi", n |-> n], [is |-> "lo", n |-> n]>>

CheckLen(opt) == IF opt \in Checksum THEN 1 ELSE 2

Long(opt) == opt \in {"1kCRC", "1kCksum"}

Packet(opt, n) ==
    <<Ctl(IF Long(opt) THEN "STX" ELSE "SOH"),
      [is |-> "blk", n |-> n % BlkMod], [is |-> "com", n |-> n % BlkMod],
      [is |-> "data", n |-> n]>> \o CheckOf(opt, n)

\* The same kind of check with short and with long packets.
ShortOpt(opt) == CASE opt = "1kCRC" -> "CRC" [] opt = "1kCksum" -> "Check" [] OTHER -> opt
LongOpt(opt) == CASE opt = "CRC" -> "1kCRC" [] opt = "Check" -> "1kCksum" [] OTHER -> opt
\* The same length of packet with the other check.
CrcOpt(opt) == CASE opt = "Check" -> "CRC" [] opt = "1kCksum" -> "1kCRC" [] OTHER -> opt
SumOpt(opt) == CASE opt = "CRC" -> "Check" [] opt = "1kCRC" -> "1kCksum" [] OTHER -> opt

-----------------------------------------------------------------------------
(* The line.  What reaches a program whose transfer has ended goes to its   *)
(* terminal and is no longer of interest here.                              *)

ToSender(msg) == IF s.state = "ended" THEN toS ELSE toS \o msg
ToReceiver(msg) == IF r.state = "ended" THEN toR ELSE toR \o msg

Drop(line, k) == SubSeq(line, k + 1, Len(line))

Lose(line, i) == RemoveAt(line, i)
Damage(line, i) == ReplaceAt(line, i, Ctl("noise"))

LineFault ==
    /\ faults < MaxFaults
    /\ faults' = faults + 1
    /\ \/ \E i \in r.in + 1 .. Len(toR) : toR' \in {Lose(toR, i), Damage(toR, i)} /\ UNCHANGED toS
       \/ \E i \in s.in + 1 .. Len(toS) : toS' \in {Lose(toS, i), Damage(toS, i)} /\ UNCHANGED toR
    /\ UNCHANGED <<r, s, early, misread>>

-----------------------------------------------------------------------------
(* The receiver *)

NakModeOf(opt) == IF opt \in Checksum THEN "NAK" ELSE "C"
\* Mutant: the two limits swapped.
TriesSwapped(mode) == IF mode = "C" THEN NakTries ELSE CTries
TriesOf(mode) == IF mode = "NAK" THEN NakTries ELSE CTries

\* XSendNAK: drop what has arrived, count the try, fall back from CRC to
\* checksum when the tries with 'C' are used up, cancel when all are.
\* q is the receiver so far, line what follows the bytes it has read.
XSendNAK(q, line) ==
    LET left == q.nakCount - 1
        flushed == [q EXCEPT !.in = 0, !.pkt = << >>, !.nakCount = left]
    IN  /\ toR' = Drop(line, q.in)
        /\ \/ /\ left >= 0
              /\ r' = [flushed EXCEPT !.mode = "SOH"]
              /\ toS' = ToSender(<<Ctl(q.nakMode)>>)
           \/ /\ left < 0 /\ q.nakMode = "C"
              /\ r' = [flushed EXCEPT !.mode = "SOH", !.nakMode = "NAK",
                                      !.nakCount = NakTries - 1, !.opt = "Check"]
              /\ toS' = ToSender(<<Ctl("NAK")>>)
           \/ /\ left < 0 /\ q.nakMode = "NAK"
              /\ r' = [flushed EXCEPT !.state = "canceled"]
              /\ toS' = ToSender(Cancel)

REnd(q, success) ==
    /\ r' = [q EXCEPT !.state = "ended", !.success = success, !.in = 0, !.pkt = << >>]
    /\ toR' = << >>

\* STATE_FLUSH: the first XParse drops what has arrived.
RFlush ==
    /\ r.state = "flush"
    /\ \E k \in 0 .. Len(toR) : toR' = Drop(toR, k)
    /\ r' = [r EXCEPT !.state = "normal"]
    /\ UNCHANGED <<s, toS, faults, early, misread>>

\* ProtoDlgParse: some of the line arrives before XReadPacket reads it.
RArrive ==
    /\ r.state = "normal" /\ ~r.busy
    /\ \E k \in r.in .. Len(toR) : k > 0 /\ r' = [r EXCEPT !.in = k, !.busy = TRUE]
    /\ UNCHANGED <<s, toR, toS, faults, early, misread>>

\* Mutant: InBuffCount is not decremented.
ReadByteUncounted == [r EXCEPT !.busy = r.in > 1]

\* A byte has been taken from the receive buffer; XReadPacket returns when
\* the buffer is empty.
ReadByte == [r EXCEPT !.in = @ - 1, !.busy = r.in > 1]

RReading(mode) == r.state = "normal" /\ r.busy /\ r.mode = mode

Genuine(b, c) == b = Ctl(c)

RReadSOH ==
    /\ RReading("SOH")
    /\ LET b == Head(toR)
           q == ReadByte
       IN  \/ /\ IsCommand(b, "SOH") \/ IsCommand(b, "STX")
              /\ r' = [q EXCEPT !.mode = "BLK", !.can = 0,
                                !.opt = IF IsCommand(b, "SOH") THEN ShortOpt(@) ELSE LongOpt(@)]
              /\ toR' = Tail(toR)
              /\ misread' = (misread \/ ~(Genuine(b, "SOH") \/ Genuine(b, "STX")))
              /\ UNCHANGED toS
           \/ /\ IsCommand(b, "EOT")
              /\ REnd(q, TRUE)
              /\ toS' = ToSender(<<Ctl("ACK")>>)
              /\ misread' = (misread \/ ~Genuine(b, "EOT"))
           \/ /\ IsCommand(b, "CAN")
              /\ misread' = (misread \/ ~Genuine(b, "CAN"))
              /\ IF r.can < 2
                 THEN r' = [q EXCEPT !.can = @ + 1] /\ toR' = Tail(toR)
                 ELSE REnd(q, FALSE)
              /\ UNCHANGED toS
           \/ /\ \A c \in {"SOH", "STX", "EOT", "CAN"} : ~IsCommand(b, c)
              /\ r' = [q EXCEPT !.in = 0, !.busy = FALSE]
              /\ toR' = Drop(toR, r.in)
              /\ UNCHANGED <<toS, misread>>
    /\ UNCHANGED <<s, faults, early>>

RReadBLK ==
    /\ RReading("BLK")
    /\ r' = [ReadByte EXCEPT !.mode = "BLK2", !.pkt = <<Head(toR)>>]
    /\ toR' = Tail(toR)
    /\ UNCHANGED <<s, toS, faults, early, misread>>

RReadBLK2 ==
    /\ RReading("BLK2")
    /\ IF Byte(Head(toR)) + Byte(r.pkt[1]) = 255
       THEN /\ r' = [ReadByte EXCEPT !.mode = "DATA", !.pkt = Append(@, Head(toR))]
            /\ toR' = Tail(toR)
            /\ UNCHANGED toS
       ELSE XSendNAK([ReadByte EXCEPT !.busy = FALSE], Tail(toR))
    /\ UNCHANGED <<s, faults, early, misread>>

Complete(pkt, opt) == Len(pkt) = 3 + CheckLen(opt)

RReadDATA ==
    /\ RReading("DATA")
    /\ ~Complete(Append(r.pkt, Head(toR)), r.opt)
    /\ r' = [ReadByte EXCEPT !.pkt = Append(@, Head(toR))]
    /\ toR' = Tail(toR)
    /\ UNCHANGED <<s, toS, faults, early, misread>>

XCheckPacket(pkt, opt) ==
    pkt[3].is = "data" /\ SubSeq(pkt, 4, Len(pkt)) = CheckOf(opt, pkt[3].n)

\* Mutants: a repeated block is written again; the number is not advanced.
AcceptRepeated(q, d, block) ==
    [q EXCEPT !.nakMode = "NAK", !.nakCount = NakTries, !.num = @ + d,
              !.file = Append(@, block)]
AcceptUncounted(q, d, block) ==
    [q EXCEPT !.nakMode = "NAK", !.nakCount = NakTries,
              !.file = IF d = 0 THEN @ ELSE Append(@, block)]

\* A block that fits is acknowledged; a repeated one is not written again.
Accept(q, d, block) ==
    [q EXCEPT !.nakMode = "NAK", !.nakCount = NakTries, !.num = @ + d,
              !.file = IF d = 0 THEN @ ELSE Append(@, block)]

\* The last byte of a packet.  The loop reads one byte more, if one has
\* arrived, before it sees that the packet is complete; that byte is lost.
RPacket ==
    /\ RReading("DATA")
    /\ Complete(Append(r.pkt, Head(toR)), r.opt)
    /\ LET pkt == Append(r.pkt, Head(toR))
           extra == IF r.in > 1 THEN 1 ELSE 0
           q == [r EXCEPT !.in = @ - 1 - extra, !.busy = FALSE, !.mode = "SOH", !.pkt = << >>]
           line == Drop(toR, 1 + extra)
           d == (Byte(pkt[1]) - r.num) % BlkMod
           block0 == Byte(pkt[1]) = 0 /\ r.num = 0
           good == XCheckPacket(pkt, r.opt) /\ ~block0
       IN  \/ /\ ~good
              /\ XSendNAK([q EXCEPT !.nakCount = IF block0 THEN TriesOf(q.nakMode) ELSE @], line)
           \/ /\ good /\ d > 1
              /\ r' = [q EXCEPT !.state = "canceled"]
              /\ toS' = ToSender(Cancel)
              /\ toR' = line
           \/ /\ good /\ d <= 1
              /\ r' = Accept(q, d, pkt[3].n)
              /\ toS' = ToSender(<<Ctl("ACK")>>)
              /\ toR' = line
    /\ UNCHANGED <<s, faults, early, misread>>

\* STATE_CANCELED: XParse ends the transfer.
RCanceled ==
    /\ r.state = "canceled"
    /\ REnd(r, FALSE)
    /\ UNCHANGED <<s, toS, faults, early, misread>>

Running(x) == x.state \in {"flush", "normal"}

\* Nothing is under way and nobody has anything to do but wait.
Quiet == /\ toR = << >> /\ toS = << >>
         /\ s.out = << >> /\ ~s.busy /\ ~(Running(s) /\ s.askCancel)

Asked(x) == IF x.askCancel THEN 1 ELSE 0
Events == early + Asked(r) + Asked(s)

\* A timer fires when only it can help, or early.
Expires(due) ==
    \/ due /\ UNCHANGED early
    \/ ~due /\ Events < MaxEvents /\ early' = early + 1

\* XTimeOutProc of the receiver.
RTimeout ==
    /\ Running(r) /\ ~r.busy
    /\ Expires(Quiet)
    /\ XSendNAK(r, toR)
    /\ UNCHANGED <<s, faults, misread>>

\* XCancel of the receiver.
RUserCancel ==
    /\ Events < MaxEvents
    /\ Running(r) /\ ~r.busy
    /\ r' = [r EXCEPT !.state = "canceled", !.askCancel = TRUE]
    /\ toS' = ToSender(Cancel)
    /\ UNCHANGED <<s, toR, faults, early, misread>>

-----------------------------------------------------------------------------
(* The sender *)

SEnd(q, success) ==
    /\ s' = [q EXCEPT !.state = "ended", !.success = success, !.in = 0, !.out = << >>,
                      !.busy = FALSE, !.flag = FALSE, !.c43 = FALSE]
    /\ toS' = << >>

SFlush ==
    /\ s.state = "flush"
    /\ \E k \in 0 .. Len(toS) : toS' = Drop(toS, k)
    /\ s' = [s EXCEPT !.state = "normal"]
    /\ UNCHANGED <<r, toR, faults, early, misread>>

\* ProtoDlgParse, and XSendPacket with no packet half written.
SArrive ==
    /\ s.state = "normal" /\ ~s.busy /\ s.out = << >>
    /\ \E k \in s.in .. Len(toS) :
          /\ k > 0 \/ s.askCancel
          /\ s' = [s EXCEPT !.in = k, !.busy = TRUE]
    /\ UNCHANGED <<r, toR, toS, faults, early, misread>>

SReading == s.state = "normal" /\ s.busy /\ s.in > 0

AtStart == s.num = 0 /\ s.sent = 0

SRead ==
    /\ SReading
    /\ LET b == Head(toS)
           q == [s EXCEPT !.in = @ - 1, !.can = IF b.is = "CAN" THEN @ + 1 ELSE 0]
       IN  \/ /\ b.is = "ACK" /\ ~s.open
              /\ SEnd(q, TRUE)
           \/ /\ b.is = "ACK" /\ s.open
              /\ s' = IF s.sent = s.num + 1 THEN [q EXCEPT !.num = s.sent, !.flag = TRUE] ELSE q
              /\ toS' = Tail(toS)
           \/ /\ b.is = "NAK"
              /\ s' = [q EXCEPT !.flag = TRUE,
                                !.opt = IF AtStart /\ ~s.c43 THEN SumOpt(@) ELSE @]
              /\ toS' = Tail(toS)
           \/ /\ b.is = "CAN"
              /\ IF s.can < 2 THEN s' = q /\ toS' = Tail(toS) ELSE SEnd(q, FALSE)
           \/ /\ b.is = "C"
              /\ s' = IF AtStart THEN [q EXCEPT !.opt = CrcOpt(@), !.flag = TRUE, !.c43 = TRUE]
                                 ELSE q
              /\ toS' = Tail(toS)
           \/ /\ b.is = "noise"
              /\ s' = q
              /\ toS' = Tail(toS)
    /\ UNCHANGED <<r, toR, faults, early, misread>>

\* Mutant: the last block is left out.
PktOutShort(opt, sent) == IF sent < Len(File) THEN Packet(opt, sent) ELSE <<Ctl("EOT")>>

\* The packet in PktOut: the block numbered PktNumSent, or EOT after the last.
PktOut(opt, sent) == IF sent <= Len(File) THEN Packet(opt, sent) ELSE <<Ctl("EOT")>>

\* The bytes are written one by one until the send buffer is full.
Write(q, pkt) ==
    \E k \in {Len(pkt)} \cup {c \in Cuts : c < Len(pkt)} :
        /\ s' = [q EXCEPT !.out = Drop(pkt, k), !.busy = FALSE, !.flag = FALSE, !.c43 = FALSE]
        /\ toR' = ToReceiver(SubSeq(pkt, 1, k))

\* Everything that had arrived is read.  A new packet is made when the last
\* one is acknowledged; otherwise the last one is sent again.
SSend ==
    /\ s.state = "normal" /\ s.busy /\ s.in = 0
    /\ ~s.askCancel /\ s.flag
    /\ LET n == IF s.sent = s.num THEN s.sent + 1 ELSE s.sent
       IN  Write([s EXCEPT !.sent = n, !.open = @ /\ n <= Len(File)], PktOut(s.opt, n))
    /\ UNCHANGED <<r, toS, faults, early, misread>>

SNothing ==
    /\ s.state = "normal" /\ s.busy /\ s.in = 0
    /\ ~s.askCancel /\ ~s.flag
    /\ s' = [s EXCEPT !.busy = FALSE, !.c43 = FALSE]
    /\ UNCHANGED <<r, toR, toS, faults, early, misread>>

\* The rest of a packet that did not fit; what has arrived meanwhile is dropped.
SWriteMore ==
    /\ s.state = "normal" /\ s.out # << >>
    /\ \E k \in 0 .. Len(toS) : toS' = Drop(toS, k)
    /\ Write(s, s.out)
    /\ UNCHANGED <<r, faults, early, misread>>

\* XCancel of the sender only asks; the cancel goes out between two packets.
SUserCancel ==
    /\ Events < MaxEvents
    /\ Running(s) /\ ~s.askCancel
    /\ s' = [s EXCEPT !.askCancel = TRUE]
    /\ UNCHANGED <<r, toR, toS, faults, early, misread>>

SSendCancel ==
    /\ s.state = "normal" /\ s.busy /\ s.in = 0 /\ s.askCancel
    /\ s' = [s EXCEPT !.state = "canceled", !.busy = FALSE, !.flag = FALSE, !.c43 = FALSE]
    /\ toR' = ToReceiver(Cancel)
    /\ UNCHANGED <<r, toS, faults, early, misread>>

SCanceled ==
    /\ s.state = "canceled"
    /\ SEnd(s, FALSE)
    /\ UNCHANGED <<r, toR, faults, early, misread>>

\* Mutant: XSendPacket does not set the timer again.
TimerNotRearmed == Running(s) /\ ~s.busy /\ s.sent = 0

\* XInit and XSendPacket set the timer: it runs as long as the transfer does.
SenderTimer == Running(s) /\ ~s.busy

\* XTimeOutProc of the sender: the transfer ends, the receiver is not told.
\* The sender's time, XmodemTimeOutVLong, is longer than the receiver's.
STimeout ==
    /\ SenderTimer
    /\ Expires(Quiet /\ r.state = "ended")
    /\ s' = [s EXCEPT !.state = "canceled"]
    /\ UNCHANGED <<r, toR, toS, faults, misread>>

-----------------------------------------------------------------------------
\* XInit on both sides; the receiver's ends with the first XSendNAK.
ReceiverInit(opt) ==
    [state |-> "flush", mode |-> "SOH", pkt |-> << >>, num |-> 0, opt |-> opt,
     nakMode |-> NakModeOf(opt), nakCount |-> TriesOf(NakModeOf(opt)) - 1,
     can |-> 0, in |-> 0, busy |-> FALSE, askCancel |-> FALSE, success |-> FALSE, file |-> << >>]

SenderInit(opt) ==
    [state |-> "flush", opt |-> opt, num |-> 0, sent |-> 0, out |-> << >>, open |-> TRUE,
     can |-> 0, in |-> 0, busy |-> FALSE, flag |-> FALSE, c43 |-> FALSE,
     askCancel |-> FALSE, success |-> FALSE]

Init ==
    /\ \E opt \in ReceiverOpts : r = ReceiverInit(opt)
    /\ \E opt \in SenderOpts : s = SenderInit(opt)
    /\ toR = << >>
    /\ toS = <<Ctl(r.nakMode)>>
    /\ faults = 0 /\ early = 0 /\ misread = FALSE

Receiver == \/ RFlush \/ RArrive \/ RReadSOH \/ RReadBLK \/ RReadBLK2 \/ RReadDATA
            \/ RPacket \/ RCanceled
Sender == \/ SFlush \/ SArrive \/ SRead \/ SSend \/ SNothing \/ SWriteMore
          \/ SSendCancel \/ SCanceled
Timers == RTimeout \/ STimeout
User == RUserCancel \/ SUserCancel

Next == Receiver \/ Sender \/ Timers \/ User \/ LineFault

\* The idle loop runs XParse for ever and the timers fire.
Fairness ==
    /\ WF_vars(RFlush) /\ WF_vars(RArrive) /\ WF_vars(RReadSOH) /\ WF_vars(RReadBLK)
    /\ WF_vars(RReadBLK2) /\ WF_vars(RReadDATA) /\ WF_vars(RPacket) /\ WF_vars(RCanceled)
    /\ WF_vars(SFlush) /\ WF_vars(SArrive) /\ WF_vars(SRead) /\ WF_vars(SSend)
    /\ WF_vars(SNothing) /\ WF_vars(SWriteMore) /\ WF_vars(SSendCancel) /\ WF_vars(SCanceled)
    /\ WF_vars(RTimeout) /\ WF_vars(STimeout)

Spec == Init /\ [][Next]_vars
FairSpec == Spec /\ Fairness

-----------------------------------------------------------------------------
(* Properties *)

States == {"flush", "normal", "canceled", "ended"}

\* The variables stay in their types; what has arrived is a part of the line.
TypeOK ==
    /\ r \in [state : States, mode : {"SOH", "BLK", "BLK2", "DATA"}, pkt : Seq(Symbol),
              num : Nat, opt : Opts, nakMode : {"C", "NAK"},
              nakCount : -1 .. NakTries + CTries, can : 0 .. 2, in : Nat,
              busy : BOOLEAN, askCancel : BOOLEAN, success : BOOLEAN, file : Seq(Nat)]
    /\ s \in [state : States, opt : Opts, num : Nat, sent : Nat, out : Seq(Symbol),
              open : BOOLEAN, can : 0 .. 3, in : Nat, busy : BOOLEAN, flag : BOOLEAN,
              c43 : BOOLEAN, askCancel : BOOLEAN, success : BOOLEAN]
    /\ toR \in Seq(Symbol) /\ toS \in Seq(Symbol)
    /\ r.in <= Len(toR) /\ s.in <= Len(toS)
    /\ faults \in 0 .. MaxFaults /\ early \in 0 .. MaxEvents /\ misread \in BOOLEAN

\* The file on the receiver's disk is a prefix of the file sent, every block
\* once and in order, whatever the timers do and as long as fewer symbols are
\* lost than make one packet out of two: XReadPacket takes only the next number.
FileInOrder == r.file = [i \in 1 .. r.num |-> i]

\* No timeout came early and no byte inside a packet was taken as a command.
Clean == early = 0 /\ ~misread

\* XMODEM's answers carry no number.  In a clean transfer they are still
\* matched with the right block: the sender never counts a block as delivered
\* that the receiver has not stored, nor does the receiver get ahead of it.
InStep == Clean => s.num <= r.num /\ r.num <= s.sent

Whole == r.file = [i \in 1 .. Len(File) |-> i]

\* In a clean transfer the receiver reports success (Success = TRUE in
\* XReadPacket) only with the whole file, and the sender (XSendPacket) only
\* when the receiver does.
SuccessIfClean == Clean => (r.success => Whole) /\ (s.success => r.success)

\* As long as the faults are fewer than the tries of XSendNAK allow, a receiver
\* that gives up was cancelled by a user, did not have a clean transfer, or
\* never agreed with the sender on the check before the first block.
FailureHasReason ==
    r.state = "ended" /\ ~r.success =>
        \/ r.askCancel \/ s.askCancel
        \/ ~Clean
        \/ r.num = 0 /\ CheckLen(r.opt) # CheckLen(s.opt)

\* The cancel that XSendPacket sends between two packets ends the receiver at
\* once on a faultless line: it is never left waiting for its timer.  Before
\* the first block the receiver may still be dropping what arrives.
CancelIsHeard ==
    Clean /\ faults = 0 /\ Quiet /\ s.askCancel /\ s.state = "ended" /\ Running(r) =>
        r.num = 0

\* Both transfers end, with success or without: nobody waits for ever.
BothEnd == <>(r.state = "ended" /\ s.state = "ended")

\* doc/en/html/macro/command/xmodemrecv.html:28, xmodemsend.html:28: "If the
\* file is transferred successfully, the system variable "result" is set to 1.
\* Otherwise, "result" is set to zero."
SuccessMeansWhole == r.success \/ s.success => Whole

\* xmodem.c:608 and doc/en/html/about/history.html:1791: "When remote host sends
\* NAK at XMODEM CRC sending, Tera Term sends data as Checksum."  As long as
\* no block is acknowledged, a NAK with no 'C' beside it selects the checksum.
ChecksumAfterNak ==
    [][ SReading /\ Head(toS).is = "NAK" /\ s.num = 0 /\ ~s.c43 /\ s'.in < s.in
            => s'.opt \in Checksum ]_vars

=============================================================================
