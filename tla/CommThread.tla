----------------------------- MODULE CommThread -----------------------------
(***************************************************************************)
(* The way in from a serial port or a named pipe (commlib.c): a receiver   *)
(* thread sees that bytes have come and posts FD_READ; the user interface  *)
(* thread reads them and lets the thread go on by the event ReadEnd.  One  *)
(* session, from CommStart on; bytes are counted, not told apart.          *)
(***************************************************************************)
EXTENDS Integers

CONSTANTS
    InBuffSize,     \* capacity of InBuff
    MaxArrived      \* bytes that come, in all

ASSUME ReceiverConstants == InBuffSize \in Nat \ {0} /\ MaxArrived \in Nat

VARIABLES
    PortType,
    Ready, RRQ,     \* cv: the port is in use; data may be read
    ReadEnd,        \* the event, reset by the wait that it ends
    recvPc,         \* where the receiver thread stands
    posted,         \* FD_READ messages on their way
    queued,         \* bytes the driver or the pipe holds
    noticed,        \* the driver has an event for WaitCommEvent
    InBuffCount,
    arrived,
    blocked         \* the user interface thread hangs in ReadFile

recvVars == << PortType, Ready, RRQ, ReadEnd, recvPc, posted, queued, noticed,
               InBuffCount, arrived, blocked >>

line_in == << queued, noticed, arrived >>

AtMost(a, b) == IF a < b THEN a ELSE b

RecvInit ==
    /\ PortType \in {"IdSerial", "IdNamedPipe"}
    /\ Ready = FALSE /\ RRQ = FALSE /\ ReadEnd = FALSE
    /\ recvPc = "none" /\ posted = 0
    /\ queued = 0 /\ noticed = FALSE
    /\ InBuffCount = 0 /\ arrived = 0 /\ blocked = FALSE
-----------------------------------------------------------------------------
(* CommStart creates the thread, which runs from then on, and only at its  *)
(* end says that the port is ready.                                        *)
CommStart ==
    /\ ~Ready /\ recvPc = "none"
    /\ recvPc' = "look"
    /\ UNCHANGED << PortType, Ready, RRQ, ReadEnd, posted, line_in, InBuffCount, blocked >>

CommStartEnds ==
    /\ ~Ready /\ recvPc # "none"
    /\ Ready' = TRUE
    /\ UNCHANGED << PortType, RRQ, ReadEnd, recvPc, posted, line_in, InBuffCount, blocked >>

(* The thread: PeekNamedPipe, over and over until there is a byte, or      *)
(* WaitCommEvent; it ends if the port is not ready.                        *)
ThreadLooks ==
    /\ recvPc = "look"
    /\ PortType = "IdSerial" => noticed
    /\ noticed' = (noticed /\ PortType = "IdNamedPipe")
    /\ recvPc' = IF ~Ready THEN "ended"
                 ELSE IF PortType = "IdNamedPipe" /\ queued = 0 THEN "look"
                 ELSE "post"
    /\ UNCHANGED << PortType, Ready, RRQ, ReadEnd, posted, queued, arrived,
                    InBuffCount, blocked >>

ThreadPosts ==
    /\ recvPc = "post"
    /\ recvPc' = "wait"
    /\ posted' = IF RRQ THEN posted ELSE posted + 1
    /\ UNCHANGED << PortType, Ready, RRQ, ReadEnd, line_in, InBuffCount, blocked >>

ThreadWaits ==
    /\ recvPc = "wait" /\ ReadEnd
    /\ ReadEnd' = FALSE
    /\ recvPc' = "look"
    /\ UNCHANGED << PortType, Ready, RRQ, posted, line_in, InBuffCount, blocked >>

Thread == ThreadLooks \/ ThreadPosts \/ ThreadWaits
-----------------------------------------------------------------------------
(* A slip of ReadPipe: the request to read stays.                          *)
ReadPipeOn(count) ==
    IF queued = 0
    THEN blocked' = TRUE /\ InBuffCount' = count /\ UNCHANGED << RRQ, ReadEnd, queued >>
    ELSE /\ \E n \in 1 .. AtMost(queued, InBuffSize - count) :
               InBuffCount' = count + n /\ queued' = queued - n
         /\ RRQ' = TRUE /\ ReadEnd' = TRUE
         /\ UNCHANGED blocked

(* A read from the pipe waits for a byte, takes what there is, and lets    *)
(* the thread go on at once.                                               *)
ReadPipe(count) ==
    IF queued = 0
    THEN blocked' = TRUE /\ InBuffCount' = count /\ UNCHANGED << RRQ, ReadEnd, queued >>
    ELSE /\ \E n \in 1 .. AtMost(queued, InBuffSize - count) :
               InBuffCount' = count + n /\ queued' = queued - n
         /\ RRQ' = FALSE /\ ReadEnd' = TRUE
         /\ UNCHANGED blocked

(* The serial port is read until it gives nothing or the buffer is full to *)
(* its end (older bytes may still stand at its start); the thread goes on  *)
(* when nothing is left to be parsed either.                               *)
SerialBytes(count) ==
    LET most == AtMost(queued, InBuffSize - count)
    IN  IF count = 0 THEN {most} ELSE AtMost(1, most) .. most

(* A slip of ReadSerial: the thread is not told that the read has ended.   *)
ReadSerialSilent(count) ==
    /\ \E n \in SerialBytes(count) :
          /\ InBuffCount' = count + n /\ queued' = queued - n
          /\ RRQ' = (count + n > 0)
    /\ UNCHANGED << ReadEnd, blocked >>

ReadSerial(count) ==
    /\ \E n \in SerialBytes(count) :
          /\ InBuffCount' = count + n /\ queued' = queued - n
          /\ RRQ' = (count + n > 0)
          /\ ReadEnd' = (ReadEnd \/ count + n = 0)
    /\ UNCHANGED blocked

CommReceive(request, count) ==
    IF ~Ready \/ ~request \/ count >= InBuffSize
    THEN /\ RRQ' = request /\ InBuffCount' = count
         /\ UNCHANGED << ReadEnd, queued, blocked >>
    ELSE IF PortType = "IdNamedPipe" THEN ReadPipe(count) ELSE ReadSerial(count)

CommProcRRQ ==
    /\ ~blocked /\ posted > 0
    /\ posted' = posted - 1
    /\ CommReceive(Ready \/ RRQ, InBuffCount)
    /\ UNCHANGED << PortType, Ready, recvPc, noticed, arrived >>

(* OnIdle: bytes are parsed, then it is read again if that is requested.   *)
ParseAndReceive ==
    /\ ~blocked /\ Ready
    /\ RRQ \/ InBuffCount > 0
    /\ \E n \in AtMost(1, InBuffCount) .. InBuffCount : CommReceive(RRQ, InBuffCount - n)
    /\ UNCHANGED << PortType, Ready, recvPc, posted, noticed, arrived >>

(* Outside: bytes come; what one read leaves over still counts as noticed. *)
Arrive ==
    /\ arrived < MaxArrived
    /\ arrived' = arrived + 1 /\ queued' = queued + 1 /\ noticed' = TRUE
    /\ UNCHANGED << PortType, Ready, RRQ, ReadEnd, recvPc, posted, InBuffCount, blocked >>

RecvNext ==
    \/ CommStart \/ CommStartEnds \/ Thread
    \/ CommProcRRQ \/ ParseAndReceive \/ Arrive

(* The scheduler lets both threads run; the idle loop turns while a read   *)
(* is requested or bytes wait.                                             *)
RecvFairness ==
    /\ WF_recvVars(CommStart \/ CommStartEnds) /\ WF_recvVars(Thread)
    /\ WF_recvVars(CommProcRRQ) /\ WF_recvVars(ParseAndReceive)

RecvSpec == RecvInit /\ [][RecvNext]_recvVars /\ RecvFairness
-----------------------------------------------------------------------------
RecvTypeOK ==
    /\ PortType \in {"IdSerial", "IdNamedPipe"}
    /\ {Ready, RRQ, ReadEnd, noticed, blocked} \subseteq BOOLEAN
    /\ recvPc \in {"none", "look", "post", "wait", "ended"}
    /\ posted \in 0 .. 1
    /\ queued \in 0 .. MaxArrived /\ arrived \in 0 .. MaxArrived
    /\ InBuffCount \in 0 .. InBuffSize

(* The comment in CommReceive: at least one byte is known to be in the     *)
(* pipe, so that ReadFile never blocks the user interface.                 *)
NoBlockingRead == ~blocked

(* What comes in is read and parsed in the end, as long as the thread      *)
(* lives: no byte is left behind between the thread's look and the read.   *)
EveryByteRead == <>(recvPc = "ended") \/ <>[](queued = 0 /\ InBuffCount = 0)
=============================================================================
