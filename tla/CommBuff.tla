------------------------------ MODULE CommBuff ------------------------------
(***************************************************************************)
(* The way out (ttcmn_buff.c): what is typed goes into OutBuff, in line    *)
(* mode by way of LineModeBuff, where it can still be edited.  Telnet      *)
(* commands are put straight into OutBuff.  Telnet is on.                  *)
(*                                                                         *)
(* A byte is << number of the key, kind >>: "one" stands alone, "first"    *)
(* and "second" are a pair on the wire (CR NUL, CR LF, IAC IAC); key 0 is  *)
(* not typed but sent by the program.                                      *)
(***************************************************************************)
EXTENDS Integers, Sequences

CONSTANTS
    OutBuffSize,    \* capacity of OutBuff and of LineModeBuff
    MaxKeys,        \* keys pressed, in all
    MaxAsides       \* telnet commands, option changes and reports, in all

ASSUME BuffConstants ==
    /\ OutBuffSize \in Nat \ {0}
    /\ MaxKeys \in Nat /\ MaxAsides \in Nat

VARIABLES
    OutBuff, LineModeBuff, FlushLen,
    TelLineMode, TelBinSend,
    CRSend, EnableLineMode,     \* settings
    got,        \* what CommSend has handed to the connection
    entered,    \* bytes of the keys that are to be sent
    line,       \* bytes of the line that is being edited
    keys, asides

buffVars == << OutBuff, LineModeBuff, FlushLen, TelLineMode, TelBinSend, CRSend,
               EnableLineMode, got, entered, line, keys, asides >>

pending == << OutBuff, LineModeBuff, FlushLen >>
history == << entered, line >>
modes == << TelLineMode, TelBinSend, CRSend, EnableLineMode >>

Fewer(a, b) == IF a < b THEN a ELSE b

BuffInit ==
    /\ OutBuff = << >> /\ LineModeBuff = << >> /\ FlushLen = 0
    /\ EnableLineMode \in BOOLEAN /\ TelLineMode = EnableLineMode
    /\ TelBinSend = FALSE
    /\ CRSend \in {"IdCR", "IdCRLF", "IdLF"}
    /\ got = << >> /\ entered = << >> /\ line = << >>
    /\ keys = 0 /\ asides = 0
-----------------------------------------------------------------------------
One(k) == << << k, "one" >> >>
Pair(k) == << << k, "first" >>, << k, "second" >> >>

(* CommRawOut cuts what does not fit.                                      *)
CommRawOut(text) ==
    OutBuff \o SubSeq(text, 1, Fewer(Len(text), OutBuffSize - Len(OutBuff)))

(* A slip of WriteLine: what is flushed leaves LineModeBuff even where     *)
(* OutBuff has no room for it.                                             *)
WriteLineForgets(text, flush) ==
    LET full == OutBuffSize - Len(LineModeBuff) - Len(text) < 0
        buff == IF full THEN LineModeBuff ELSE LineModeBuff \o text
        due == IF flush /\ ~full THEN Len(buff) ELSE FlushLen
    IN  /\ OutBuff' = CommRawOut(SubSeq(buff, 1, due))
        /\ LineModeBuff' = SubSeq(buff, due + 1, Len(buff))
        /\ FlushLen' = 0
        /\ entered' = IF flush /\ ~full THEN entered \o line \o text ELSE entered
        /\ line' = IF full THEN line ELSE IF flush THEN << >> ELSE line \o text

(* All of the text or nothing; in line mode, what has been flushed moves   *)
(* to OutBuff as far as there is room, even if the text did not fit.       *)
WriteLine(text, flush) ==
    LET full == OutBuffSize - Len(LineModeBuff) - Len(text) < 0
        buff == IF full THEN LineModeBuff ELSE LineModeBuff \o text
        due == IF flush /\ ~full THEN Len(buff) ELSE FlushLen
        out == Fewer(due, OutBuffSize - Len(OutBuff))
    IN  /\ OutBuff' = CommRawOut(SubSeq(buff, 1, due))
        /\ LineModeBuff' = SubSeq(buff, out + 1, Len(buff))
        /\ FlushLen' = due - out
        /\ entered' = IF flush /\ ~full THEN entered \o line \o text ELSE entered
        /\ line' = IF full THEN line ELSE IF flush THEN << >> ELSE line \o text

(* A slip of WriteDirect: no test of the room for the whole text.          *)
WriteDirectCut(text) ==
    /\ OutBuff' = CommRawOut(text)
    /\ entered' = entered \o SubSeq(text, 1, Fewer(Len(text), OutBuffSize - Len(OutBuff)))
    /\ UNCHANGED << LineModeBuff, FlushLen, line >>

WriteDirect(text) ==
    /\ IF OutBuffSize - Len(OutBuff) - Len(text) < 0
       THEN UNCHANGED << OutBuff, entered >>
       ELSE OutBuff' = CommRawOut(text) /\ entered' = entered \o text
    /\ UNCHANGED << LineModeBuff, FlushLen, line >>

WriteOutBuff(text, flush) ==
    IF TelLineMode THEN WriteLine(text, flush) ELSE WriteDirect(text)

(* CR as the setting for line ends has it.                                 *)
LineEnd(k) ==
    IF CRSend = "IdCRLF" \/ (CRSend = "IdCR" /\ ~TelBinSend) THEN Pair(k) ELSE One(k)

(* BS and ctrl-U edit the line, down to what has been flushed; without     *)
(* line mode they are sent.                                                *)
Cut(n) ==
    /\ LineModeBuff' = SubSeq(LineModeBuff, 1, n)
    /\ UNCHANGED << OutBuff, FlushLen, entered >>

OutControl(key, k) ==
    \/ /\ key = "CR" /\ WriteOutBuff(LineEnd(k), TRUE)
    \/ /\ key = "BS" /\ TelLineMode
       /\ Cut(IF FlushLen < Len(LineModeBuff) THEN Len(LineModeBuff) - 1
              ELSE Len(LineModeBuff))
       /\ line' = SubSeq(line, 1, Len(line) - 1)
    \/ /\ key = "ctrl-U" /\ TelLineMode
       /\ Cut(FlushLen)
       /\ line' = << >>
    \/ /\ key \in {"BS", "ctrl-U"} /\ ~TelLineMode /\ WriteOutBuff(One(k), FALSE)

Key == keys < MaxKeys /\ keys' = keys + 1 /\ UNCHANGED << modes, got, asides >>

CommTextOutW ==
    /\ Key
    /\ \/ WriteOutBuff(One(keys + 1), FALSE)
       \/ \E key \in {"CR", "BS", "ctrl-U"} : OutControl(key, keys + 1)

(* A byte sent as it is: CR gets its NUL and flushes, 255 is doubled.  A   *)
(* doubled byte in a line that is edited is left out: BS takes half of it. *)
CommBinaryBuffOut ==
    /\ Key
    /\ \/ WriteOutBuff(One(keys + 1), FALSE)
       \/ WriteOutBuff(IF TelBinSend THEN One(keys + 1) ELSE Pair(keys + 1), TRUE)
       \/ ~TelLineMode /\ WriteOutBuff(Pair(keys + 1), FALSE)
-----------------------------------------------------------------------------
Aside == asides < MaxAsides /\ asides' = asides + 1 /\ UNCHANGED << keys, got, history >>

(* A report of the terminal, past the line that is edited.                 *)
CommBinaryOut ==
    /\ Aside
    /\ \E text \in {One(0), Pair(0)} :
          IF OutBuffSize - Len(OutBuff) - Len(text) >= 0
          THEN OutBuff' = CommRawOut(text) ELSE UNCHANGED OutBuff
    /\ UNCHANGED << LineModeBuff, FlushLen, modes >>

(* A telnet command (SendBack, TelSendNOP, ..): it is cut if OutBuff is    *)
(* full.                                                                   *)
SendCommand ==
    /\ Aside
    /\ OutBuff' = CommRawOut(One(0) \o One(0) \o One(0))
    /\ UNCHANGED << LineModeBuff, FlushLen, modes >>

(* An option comes into force: the host echoes or suppresses go-ahead,     *)
(* which ends line mode, or we send binary or no longer do.                *)
LineModeEnds ==
    /\ Aside
    /\ TelLineMode /\ TelLineMode' = FALSE
    /\ UNCHANGED << pending, TelBinSend, CRSend, EnableLineMode >>

BinarySwitches ==
    /\ Aside
    /\ TelBinSend' = ~TelBinSend
    /\ UNCHANGED << pending, TelLineMode, CRSend, EnableLineMode >>

(* The connection takes as much as it can.                                 *)
CommSend ==
    /\ \E n \in 1 .. Len(OutBuff) :
          /\ got' = got \o SubSeq(OutBuff, 1, n)
          /\ OutBuff' = SubSeq(OutBuff, n + 1, Len(OutBuff))
    /\ UNCHANGED << LineModeBuff, FlushLen, modes, history, keys, asides >>

BuffNext ==
    \/ CommTextOutW \/ CommBinaryBuffOut
    \/ CommBinaryOut \/ SendCommand \/ LineModeEnds \/ BinarySwitches
    \/ CommSend

BuffSpec == BuffInit /\ [][BuffNext]_buffVars /\ WF_buffVars(CommSend)
-----------------------------------------------------------------------------
Byte == (0 .. MaxKeys) \X {"one", "first", "second"}

BuffTypeOK ==
    /\ OutBuff \in Seq(Byte) /\ Len(OutBuff) <= OutBuffSize
    /\ LineModeBuff \in Seq(Byte) /\ Len(LineModeBuff) <= OutBuffSize
    /\ FlushLen \in 0 .. Len(LineModeBuff)
    /\ {TelLineMode, TelBinSend, EnableLineMode} \subseteq BOOLEAN
    /\ got \in Seq(Byte) /\ entered \in Seq(Byte) /\ line \in Seq(Byte)

(* The bytes of the keys, without what the program has sent.               *)
Typed(stream) ==
    LET keep[i \in 0 .. Len(stream)] ==
            IF i = 0 THEN << >>
            ELSE IF stream[i][1] # 0 THEN Append(keep[i - 1], stream[i]) ELSE keep[i - 1]
    IN  keep[Len(stream)]

(* What the keys said is what is sent, in order, none lost and none        *)
(* doubled, and the line that is edited is kept apart from what has been   *)
(* entered - as long as line mode does not end in the middle of a line.    *)
EnteredIsSent ==
    TelLineMode \/ LineModeBuff = << >> =>
        /\ Typed(got \o OutBuff) \o SubSeq(LineModeBuff, 1, FlushLen) = entered
        /\ SubSeq(LineModeBuff, FlushLen + 1, Len(LineModeBuff)) = line

(* Without line mode, nothing comes between the two bytes of a pair, even  *)
(* with the buffer full: a CR that lost its NUL would swallow or spoil the *)
(* byte behind it.                                                         *)
PairsWhole == ~EnableLineMode =>
    LET stream == got \o OutBuff
    IN  \A i \in 1 .. Len(stream) :
          /\ stream[i][2] = "first" =>
                /\ i < Len(stream)
                /\ stream[i + 1] = << stream[i][1], "second" >>
          /\ stream[i][2] = "second" =>
                i > 1 /\ stream[i - 1] = << stream[i][1], "first" >>
=============================================================================
