------------------------------- MODULE Telnet -------------------------------
(***************************************************************************)
(* Telnet options (telnet.c) and the telnet part of the receive buffer     *)
(* (CommRead1Byte, ttcmn_buff.c): Tera Term on one end of a connection, a  *)
(* host that follows RFC 1143 on the other.  Both ends may ask for an      *)
(* option at the same time.                                                *)
(*                                                                         *)
(* The stream to Tera Term is read byte by byte, as the program does on    *)
(* OnIdle; a command that Tera Term sends is one element of toHost, since  *)
(* SendBack hands it over whole.                                           *)
(***************************************************************************)
EXTENDS Integers, Sequences

CONSTANTS
    Opts,           \* option numbers in use
    MaxTelOpt,      \* those Tera Term keeps a state for (b <= MaxTelOpt)
    HisAccept,      \* HisOpt[..].Accept, see InitTelnet
    MyAccept,       \* MyOpt[..].Accept
    SubOptMax,      \* room in SubOptBuff
    HostWishes,     \* changes of mind of the host, in all
    UserToggles,    \* changes of the local echo setting, in all
    MaxSaid         \* characters the host says

ASSUME TelConstants ==
    /\ {"ECHO", "BINARY"} \subseteq MaxTelOpt
    /\ MaxTelOpt \subseteq Opts
    /\ HisAccept \subseteq MaxTelOpt /\ MyAccept \subseteq MaxTelOpt
    /\ {"ECHO", "BINARY"} \subseteq HisAccept
    /\ {SubOptMax, HostWishes, UserToggles, MaxSaid} \subseteq Nat
    /\ SubOptMax >= 5      \* a window size fits: the array has 51 bytes

VARIABLES
    HisOpt, MyOpt,          \* Status and Que of an option, per side
    LocalEcho, TelEcho,     \* ts: echo locally; let telnet change that
    began,                  \* Tera Term began to negotiate at the start
    TelFlag, TelBinRecv,    \* cv: telnet is on; the host sends binary
    TelMode, IACFlag, TelCRFlag,        \* cv: state of CommRead1Byte
    TelStatus, SubOptBuff, SubOptIAC,   \* state of ParseTel
    WinSize,                \* what the host last told of the window
    toTerm, toHost,         \* bytes and commands on their way
    hostDoes, hostSees,     \* the host's state of HisOpt and of MyOpt
    said, shown,            \* what the host said, what reached the screen
    wishes, toggles         \* bounds used up

telVars == << HisOpt, MyOpt, LocalEcho, TelEcho, began, TelFlag, TelBinRecv,
              TelMode, IACFlag, TelCRFlag, TelStatus, SubOptBuff, SubOptIAC, WinSize,
              toTerm, toHost, hostDoes, hostSees, said, shown, wishes, toggles >>

parser == << TelMode, IACFlag, TelCRFlag, TelStatus, SubOptBuff, SubOptIAC >>
settings == << TelEcho, began >>
options == << HisOpt, MyOpt, LocalEcho, TelBinRecv >>
host == << hostDoes, hostSees, said, wishes >>

Status == {"No", "Yes", "WantNo", "WantYes"}
TelOpt == [Status : Status, Que : {"Empty", "Opposite"}]
Off == [Status |-> "No", Que |-> "Empty"]
-----------------------------------------------------------------------------
(* The four events of RFC 1143 on the record of one option: the new record *)
(* and what to answer, "" for nothing.                                     *)
To(o, status, que, answer) ==
    [opt |-> [Status |-> status, Que |-> que], answer |-> answer]

(* A slip of Offered: the wish for the opposite is not told to the host.   *)
OfferedSilent(o, accept) ==
    CASE o.Status = "No" /\ accept -> To(o, "Yes", o.Que, "yes")
      [] o.Status = "No" /\ ~accept -> To(o, "No", o.Que, "no")
      [] o.Status = "Yes" -> To(o, "Yes", o.Que, "")
      [] o.Status = "WantNo" -> To(o, IF o.Que = "Empty" THEN "No" ELSE "Yes", o.Que, "")
      [] o.Status = "WantYes" ->
            To(o, IF o.Que = "Empty" THEN "Yes" ELSE "WantNo", "Empty", "")

Offered(o, accept) ==       \* WILL, or DO for an option of ours
    CASE o.Status = "No" /\ accept -> To(o, "Yes", o.Que, "yes")
      [] o.Status = "No" /\ ~accept -> To(o, "No", o.Que, "no")
      [] o.Status = "Yes" -> To(o, "Yes", o.Que, "")
      [] o.Status = "WantNo" -> To(o, IF o.Que = "Empty" THEN "No" ELSE "Yes", o.Que, "")
      [] o.Status = "WantYes" /\ o.Que = "Empty" -> To(o, "Yes", "Empty", "")
      [] o.Status = "WantYes" /\ o.Que = "Opposite" -> To(o, "WantNo", "Empty", "no")

(* A slip of Refused: what is refused is asked for again.                  *)
RefusedAgain(o) ==
    CASE o.Status = "No" -> To(o, "No", o.Que, "")
      [] o.Status = "Yes" -> To(o, "No", o.Que, "no")
      [] o.Status = "WantNo" /\ o.Que = "Empty" -> To(o, "No", "Empty", "")
      [] o.Status = "WantNo" /\ o.Que = "Opposite" -> To(o, "WantYes", "Empty", "yes")
      [] o.Status = "WantYes" -> To(o, "WantYes", "Empty", "yes")

Refused(o) ==               \* WONT, or DONT for an option of ours
    CASE o.Status = "No" -> To(o, "No", o.Que, "")
      [] o.Status = "Yes" -> To(o, "No", o.Que, "no")
      [] o.Status = "WantNo" /\ o.Que = "Empty" -> To(o, "No", "Empty", "")
      [] o.Status = "WantNo" /\ o.Que = "Opposite" -> To(o, "WantYes", "Empty", "yes")
      [] o.Status = "WantYes" -> To(o, "No", "Empty", "")

Enabled(o) ==
    CASE o.Status = "No" -> To(o, "WantYes", o.Que, "yes")
      [] o.Status = "Yes" -> To(o, "Yes", o.Que, "")
      [] o.Status = "WantNo" -> To(o, "WantNo", "Opposite", "")
      [] o.Status = "WantYes" -> To(o, "WantYes", "Empty", "")

Disabled(o) ==
    CASE o.Status = "Yes" -> To(o, "WantNo", o.Que, "no")
      [] o.Status = "No" -> To(o, "No", o.Que, "")
      [] o.Status = "WantNo" -> To(o, "WantNo", "Empty", "")
      [] o.Status = "WantYes" -> To(o, "WantYes", "Opposite", "")

(* SendBack of an answer, in the words of either side's options.           *)
SendBack(answer, yes, no, b) ==
    CASE answer = "yes" -> << << yes, b >> >>
      [] answer = "no" -> << << no, b >> >>
      [] answer = "" -> << >>
-----------------------------------------------------------------------------
(* A slip of EchoFollows: a refused echo does not turn on the local one.   *)
EchoFollowsYes(status) ==
    LocalEcho' = IF TelEcho /\ status = "Yes" THEN 0 ELSE LocalEcho

(* What ParseTelWill .. ParseTelDont do behind the switch on the state.    *)
EchoFollows(status) ==
    LocalEcho' = CASE TelEcho /\ status = "Yes" -> 0
                   [] TelEcho /\ status = "No" -> 1
                   [] OTHER -> LocalEcho

BinaryFollows(b, status) ==
    TelBinRecv' = IF b = "BINARY" /\ status \in {"Yes", "No"}
                  THEN status = "Yes" ELSE TelBinRecv

HisEvent(b, event) ==
    /\ HisOpt' = [HisOpt EXCEPT ![b] = event.opt]
    /\ toHost' = toHost \o SendBack(event.answer, "DO", "DONT", b)
    /\ IF b = "ECHO" THEN EchoFollows(event.opt.Status) ELSE UNCHANGED LocalEcho
    /\ BinaryFollows(b, event.opt.Status)
    /\ UNCHANGED MyOpt

MyEvent(b, event, more) ==
    /\ MyOpt' = [MyOpt EXCEPT ![b] = event.opt]
    /\ toHost' = toHost \o SendBack(event.answer, "WILL", "WONT", b) \o more
    /\ UNCHANGED << HisOpt, LocalEcho, TelBinRecv >>

Unknown(answer, b) ==
    /\ toHost' = Append(toHost, << answer, b >>)
    /\ UNCHANGED options

ParseTelWill(b) ==
    IF b \in MaxTelOpt THEN HisEvent(b, Offered(HisOpt[b], b \in HisAccept))
                       ELSE Unknown("DONT", b)

ParseTelWont(b) ==
    IF b \in MaxTelOpt THEN HisEvent(b, Refused(HisOpt[b])) ELSE Unknown("DONT", b)

(* DO: for the window size option that Tera Term has on, the size follows. *)
ParseTelDo(b) ==
    LET event == Offered(MyOpt[b], b \in MyAccept)
        SendWinSize == IF b = "NAWS" /\ event.opt.Status = "Yes"
                       THEN << << "SB", b >> >> ELSE << >>
    IN  IF b \in MaxTelOpt THEN MyEvent(b, event, SendWinSize) ELSE Unknown("WONT", b)

ParseTelDont(b) ==
    IF b \in MaxTelOpt THEN MyEvent(b, Refused(MyOpt[b]), << >>) ELSE Unknown("WONT", b)

(* A slip of ParseTelIAC: any command is taken to be longer.               *)
ParseTelIACAny(b) ==
    /\ TelStatus' = IF b = "SE" THEN "TelIAC" ELSE b
    /\ SubOptBuff' = IF b = "SB" THEN << >> ELSE SubOptBuff
    /\ UNCHANGED << options, toHost, SubOptIAC, WinSize >>

(* The byte behind an IAC.  SE leaves the status as it is.                 *)
ParseTelIAC(b) ==
    /\ TelStatus' = IF b \in {"SB", "WILL", "WONT", "DO", "DONT"} THEN b
                    ELSE IF b = "SE" THEN "TelIAC" ELSE "TelIdle"
    /\ SubOptBuff' = IF b = "SB" THEN << >> ELSE SubOptBuff
    /\ UNCHANGED << options, toHost, SubOptIAC, WinSize >>

(* A byte inside SB .. SE.                                                 *)
EndSub(size, answer) ==
    /\ SubOptBuff' = << >> /\ SubOptIAC' = FALSE /\ TelStatus' = "TelIdle"
    /\ WinSize' = size
    /\ toHost' = toHost \o answer

(* A slip of Collect: the byte behind a doubled IAC still counts as one    *)
(* behind an IAC.                                                          *)
CollectStill(bytes) ==
    IF Len(SubOptBuff \o bytes) > SubOptMax THEN EndSub(WinSize, << >>)
    ELSE /\ SubOptBuff' = SubOptBuff \o bytes
         /\ TelStatus' = "SB"
         /\ UNCHANGED << SubOptIAC, WinSize, toHost >>

Collect(bytes) ==
    IF Len(SubOptBuff \o bytes) > SubOptMax THEN EndSub(WinSize, << >>)
    ELSE /\ SubOptBuff' = SubOptBuff \o bytes /\ SubOptIAC' = FALSE
         /\ TelStatus' = "SB"
         /\ UNCHANGED << WinSize, toHost >>

(* The whole of it: a window size is taken over whatever HisOpt[NAWS] is,  *)
(* the terminal type and speed are told if we have the option on.          *)
EndOfSub ==
    LET told == Len(SubOptBuff) >= 5 /\ SubOptBuff[1] = "NAWS"
        asked == /\ Len(SubOptBuff) >= 2 /\ SubOptBuff[2] = "SEND"
                 /\ SubOptBuff[1] \in {"TERMTYPE", "TERMSPEED"} \cap MaxTelOpt
                 /\ MyOpt[SubOptBuff[1]].Status = "Yes"
    IN  EndSub(IF told THEN SubSeq(SubOptBuff, 2, 5) ELSE WinSize,
               IF asked THEN << << "SB", SubOptBuff[1] >> >> ELSE << >>)

ParseTelSB(b) ==
    /\ CASE ~SubOptIAC /\ b = "IAC" ->
                /\ SubOptIAC' = TRUE /\ TelStatus' = "SB"
                /\ UNCHANGED << SubOptBuff, WinSize, toHost >>
         [] SubOptIAC /\ b = "SE" -> EndOfSub
         [] SubOptIAC /\ b \notin {"SE", "IAC"} -> Collect(<< "IAC", b >>)
         [] SubOptIAC = (b = "IAC") -> Collect(<< b >>)
    /\ UNCHANGED options

(* ParseTel, one byte of its loop; it is entered from OnIdle.              *)
ParseTel ==
    /\ TelMode /\ toTerm # << >>
    /\ LET b == Head(toTerm)
           status == IF TelStatus = "TelIdle" THEN "TelIAC" ELSE TelStatus
       IN  \/ /\ status = "TelIAC" /\ ParseTelIAC(b)
           \/ /\ status = "SB" /\ ParseTelSB(b)
           \/ /\ \/ status = "WILL" /\ ParseTelWill(b)
                 \/ status = "WONT" /\ ParseTelWont(b)
                 \/ status = "DO" /\ ParseTelDo(b)
                 \/ status = "DONT" /\ ParseTelDont(b)
              /\ TelStatus' = "TelIdle"
              /\ UNCHANGED << SubOptBuff, SubOptIAC, WinSize >>
    /\ TelMode' = (TelStatus' # "TelIdle")
    /\ toTerm' = Tail(toTerm)
    /\ UNCHANGED << IACFlag, TelCRFlag, settings, TelFlag, host, shown, toggles >>

(* CommRead1Byte: one byte for the screen, or the start of a command (the  *)
(* byte behind the IAC is put back for ParseTel).  The host is on TCP/IP   *)
(* and the setting TelAutoDetect is on.                                    *)
CommRead1Byte ==
    /\ ~TelMode /\ toTerm # << >>
    /\ LET b == Head(toTerm)
           dropped == TelCRFlag /\ b = "NUL"
           command == ~dropped /\ IACFlag /\ b # "IAC"
           iac == ~dropped /\ ~IACFlag /\ b = "IAC"
           cr == ~dropped /\ ~IACFlag /\ TelFlag /\ ~TelBinRecv /\ b = "CR"
       IN  /\ TelCRFlag' = cr
           /\ IACFlag' = (iac \/ (dropped /\ IACFlag))
           /\ TelFlag' = (TelFlag \/ iac)
           /\ TelMode' = command
           /\ toTerm' = IF command THEN toTerm ELSE Tail(toTerm)
           /\ shown' = IF dropped \/ command \/ iac THEN shown ELSE Append(shown, b)
    /\ UNCHANGED << options, settings, TelStatus, SubOptBuff, SubOptIAC, WinSize,
                    toHost, host, toggles >>
-----------------------------------------------------------------------------
(* The settings: TelEcho and LocalEcho are what the user chose.  OnCommOpen *)
(* asks for options if telnet is on and the port is the telnet port; binary *)
(* says whether the setting TelBin is on.                                   *)
Asks(binary) ==
    LET echo == ~TelEcho \/ LocalEcho = 0
        his == (IF echo THEN {"ECHO"} ELSE {}) \cup (IF binary THEN {"BINARY"} ELSE {})
        my == ({"TERMTYPE", "NAWS", "TERMSPEED"} \cap MaxTelOpt)
              \cup (IF binary THEN {"BINARY"} ELSE {})
        Will(b) == IF b \in my THEN << << "WILL", b >> >> ELSE << >>
        Do(b) == IF b \in his THEN << << "DO", b >> >> ELSE << >>
    IN  /\ HisOpt = [b \in MaxTelOpt |-> IF b \in his THEN Enabled(Off).opt ELSE Off]
        /\ MyOpt = [b \in MaxTelOpt |-> IF b \in my THEN Enabled(Off).opt ELSE Off]
        /\ toHost = Will("TERMTYPE") \o Do("ECHO") \o Will("NAWS") \o Will("BINARY")
                      \o Do("BINARY") \o Will("TERMSPEED")

OnCommOpen ==
    /\ TelEcho \in BOOLEAN /\ LocalEcho \in {0, 1} /\ TelFlag \in BOOLEAN
    /\ began \in BOOLEAN /\ (began => TelFlag)
    /\ \/ began /\ \E binary \in BOOLEAN : Asks(binary)
       \/ /\ ~began
          /\ HisOpt = [b \in MaxTelOpt |-> Off]
          /\ MyOpt = [b \in MaxTelOpt |-> Off]
          /\ toHost = << >>
    /\ TelBinRecv = FALSE /\ TelMode = FALSE /\ IACFlag = FALSE /\ TelCRFlag = FALSE
    /\ TelStatus = "TelIdle" /\ SubOptBuff = << >> /\ SubOptIAC = FALSE
    /\ WinSize = << >>

TelInit ==
    /\ OnCommOpen
    /\ toTerm = << >>
    /\ hostDoes = [b \in Opts |-> "No"] /\ hostSees = [b \in Opts |-> "No"]
    /\ said = << >> /\ shown = << >> /\ wishes = 0 /\ toggles = 0

(* The user switches the local echo (menu, setup dialogue, macro, or the   *)
(* host by SRM): TelChangeEcho, if telnet may change it.                   *)
TelChangeEcho ==
    LET event == IF LocalEcho' = 0 THEN Enabled(HisOpt["ECHO"])
                                   ELSE Disabled(HisOpt["ECHO"])
    IN  /\ HisOpt' = [HisOpt EXCEPT !["ECHO"] = event.opt]
        /\ toHost' = toHost \o SendBack(event.answer, "DO", "DONT", "ECHO")

IdCmdLocalEcho ==
    /\ toggles < UserToggles
    /\ toggles' = toggles + 1
    /\ LocalEcho' = 1 - LocalEcho
    /\ IF TelFlag /\ TelEcho THEN TelChangeEcho ELSE UNCHANGED << HisOpt, toHost >>
    /\ UNCHANGED << MyOpt, settings, TelFlag, TelBinRecv, parser, WinSize, toTerm,
                    host, shown >>
-----------------------------------------------------------------------------
(* The host, outside the program: RFC 1143 without queueing of wishes.  It *)
(* may agree to an option one time and refuse it the next.                 *)
HostSays(bytes) == toTerm' = toTerm \o bytes

HostAsked(state, agree) ==     \* DO or WILL has come
    CASE state \in {"Yes", "WantYes"} -> << "Yes", "" >>
      [] state = "WantNo" -> << "No", "" >>
      [] state = "No" -> IF agree THEN << "Yes", "yes" >> ELSE << "No", "no" >>

HostTold(state) ==             \* DONT or WONT has come
    << "No", IF state = "Yes" THEN "no" ELSE "" >>

HostAnswer(answer, yes, no, b) ==
    HostSays(CASE answer = "yes" -> << "IAC", yes, b >>
               [] answer = "no" -> << "IAC", no, b >>
               [] answer = "" -> << >>)

HostReads ==
    /\ toHost # << >>
    /\ LET c == Head(toHost)[1]
           b == Head(toHost)[2]
       IN  \/ /\ c \in {"DO", "DONT"}
              /\ \E agree \in BOOLEAN :
                    LET r == IF c = "DO" THEN HostAsked(hostDoes[b], agree)
                                         ELSE HostTold(hostDoes[b])
                    IN  /\ hostDoes' = [hostDoes EXCEPT ![b] = r[1]]
                        /\ HostAnswer(r[2], "WILL", "WONT", b)
              /\ UNCHANGED hostSees
           \/ /\ c \in {"WILL", "WONT"}
              /\ \E agree \in BOOLEAN :
                    LET r == IF c = "WILL" THEN HostAsked(hostSees[b], agree)
                                           ELSE HostTold(hostSees[b])
                    IN  /\ hostSees' = [hostSees EXCEPT ![b] = r[1]]
                        /\ HostAnswer(r[2], "DO", "DONT", b)
              /\ UNCHANGED hostDoes
           \/ c = "SB" /\ UNCHANGED << hostDoes, hostSees, toTerm >>
    /\ toHost' = Tail(toHost)
    /\ UNCHANGED << options, settings, TelFlag, parser, WinSize, said, shown,
                    wishes, toggles >>

HostSize == << "a", "IAC", "a", "a" >>

HostWants ==
    /\ wishes < HostWishes
    /\ wishes' = wishes + 1
    /\ \/ \E b \in Opts :
             \/ /\ hostDoes[b] \in {"No", "Yes"}
                /\ LET on == hostDoes[b] = "No"
                   IN  /\ hostDoes' = [hostDoes EXCEPT ![b] = IF on THEN "WantYes" ELSE "WantNo"]
                       /\ HostSays(<< "IAC", IF on THEN "WILL" ELSE "WONT", b >>)
                /\ UNCHANGED hostSees
             \/ /\ hostSees[b] \in {"No", "Yes"}
                /\ LET on == hostSees[b] = "No"
                   IN  /\ hostSees' = [hostSees EXCEPT ![b] = IF on THEN "WantYes" ELSE "WantNo"]
                       /\ HostSays(<< "IAC", IF on THEN "DO" ELSE "DONT", b >>)
                /\ UNCHANGED hostDoes
             \/ /\ hostSees[b] = "Yes" /\ b \in {"TERMTYPE", "TERMSPEED"}
                /\ HostSays(<< "IAC", "SB", b, "SEND", "IAC", "SE" >>)
                /\ UNCHANGED << hostDoes, hostSees >>
       \/ /\ HostSays(<< "IAC", "SB", "NAWS", "a", "IAC", "IAC", "a", "a", "IAC", "SE" >>)
          /\ UNCHANGED << hostDoes, hostSees >>
       \/ HostSays(<< "IAC", "NOP" >>) /\ UNCHANGED << hostDoes, hostSees >>
    /\ UNCHANGED << options, settings, TelFlag, parser, WinSize, toHost, said, shown,
                    toggles >>

(* A character of the session: a carriage return goes out with a NUL       *)
(* unless binary is on, the character 255 goes out twice.                  *)
HostSpeaks ==
    /\ Len(said) < MaxSaid
    /\ \E c \in {"a", "CR", "IAC"} :
          /\ said' = Append(said, c)
          /\ HostSays(CASE c = "a" -> << c >>
                        [] c = "CR" -> IF hostDoes["BINARY"] = "Yes" THEN << c >>
                                       ELSE << c, "NUL" >>
                        [] c = "IAC" -> << c, c >>)
    /\ UNCHANGED << options, settings, TelFlag, parser, WinSize, toHost, hostDoes,
                    hostSees, shown, wishes, toggles >>
-----------------------------------------------------------------------------
OnIdle == ParseTel \/ CommRead1Byte

TelNext == OnIdle \/ IdCmdLocalEcho \/ HostReads \/ HostWants \/ HostSpeaks

(* The idle loop runs while input waits, the host reads what it is sent.   *)
TelSpec == TelInit /\ [][TelNext]_telVars /\ WF_telVars(OnIdle) /\ WF_telVars(HostReads)
-----------------------------------------------------------------------------
TelTypeOK ==
    /\ HisOpt \in [MaxTelOpt -> TelOpt] /\ MyOpt \in [MaxTelOpt -> TelOpt]
    /\ LocalEcho \in {0, 1}
    /\ {TelEcho, began, TelFlag, TelBinRecv, TelMode, IACFlag, TelCRFlag, SubOptIAC} \subseteq BOOLEAN
    /\ TelStatus \in {"TelIdle", "TelIAC", "SB", "WILL", "WONT", "DO", "DONT"}
    /\ Len(SubOptBuff) <= SubOptMax
    /\ hostDoes \in [Opts -> Status] /\ hostSees \in [Opts -> Status]
    /\ wishes \in 0 .. HostWishes /\ toggles \in 0 .. UserToggles

Quiet == toHost = << >> /\ toTerm = << >>

Agreed(o, state) ==
    o.Status = state /\ o.Status \in {"No", "Yes"} /\ o.Que = "Empty"

(* When nothing is on its way, both ends think the same of every option,   *)
(* nobody still waits for an answer, and no wish is left over that would   *)
(* undo a later negotiation: crossing requests are sorted out.             *)
Agreement == Quiet =>
    /\ \A b \in MaxTelOpt : Agreed(HisOpt[b], hostDoes[b]) /\ Agreed(MyOpt[b], hostSees[b])
    /\ \A b \in Opts \ MaxTelOpt : hostDoes[b] = "No" /\ hostSees[b] = "No"

(* Once all is quiet, what is typed is echoed by one side, not by both and *)
(* not by none, if telnet may change the local echo.                       *)
EchoOnce == Quiet /\ began /\ TelEcho =>
    (LocalEcho = 0 <=> HisOpt["ECHO"].Status = "Yes")

(* The screen gets what the host said, no less, no more, in order (a NUL   *)
(* shows nothing), and the window size is the one the host told.           *)
Printed == SelectSeq(shown, LAMBDA c : c # "NUL")
ScreenFaithful ==
    /\ Len(Printed) <= Len(said) /\ Printed = SubSeq(said, 1, Len(Printed))
    /\ toTerm = << >> => Printed = said
    /\ WinSize \in {<< >>, HostSize}

(* Negotiation comes to an end.                                            *)
Settles == <>[]Quiet
=============================================================================
