----------------------------- MODULE MCStreams ------------------------------
(***************************************************************************)
(* One instance of each way a byte takes: to a forwarded socket, out to    *)
(* the host, in from a port, to the macro, to the log file.  They share no *)
(* state; a behaviour is one of one of them, chosen at its start.          *)
(***************************************************************************)
EXTENDS SockWriteBuf, CommBuff, CommThread, MacroLink, LogWriter

VARIABLE way

Sockets == way = "socket"
Out == way = "out"
In == way = "in"
Macro == way = "macro"
Log == way = "log"

MCInit ==
    /\ way \in {"socket", "out", "in", "macro", "log"}
    /\ SockInit /\ BuffInit /\ RecvInit /\ LinkInit /\ LogStart
    /\ ~Out => ~EnableLineMode /\ CRSend = "IdCR"
    /\ ~In => PortType = "IdSerial"
    /\ ~Log => ~DeferredLogWriteMode /\ ~RotateMode

MCNext ==
    /\ UNCHANGED way
    /\ \/ Sockets /\ SockNext /\ UNCHANGED << buffVars, recvVars, linkVars, logVars >>
       \/ Out /\ BuffNext /\ UNCHANGED << sockVars, recvVars, linkVars, logVars >>
       \/ In /\ RecvNext /\ UNCHANGED << sockVars, buffVars, linkVars, logVars >>
       \/ Macro /\ LinkNext /\ UNCHANGED << sockVars, buffVars, recvVars, logVars >>
       \/ Log /\ LogNext /\ UNCHANGED << sockVars, buffVars, recvVars, linkVars >>

MCSpec ==
    /\ MCInit /\ [][MCNext]_<< way, sockVars, buffVars, recvVars, linkVars, logVars >>
    /\ (In => RecvFairness) /\ (Macro => LinkFairness)

TypeOK == SockTypeOK /\ BuffTypeOK /\ RecvTypeOK /\ LinkTypeOK /\ LogTypeOK
=============================================================================
