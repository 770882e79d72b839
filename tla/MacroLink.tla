----------------------------- MODULE MacroLink ------------------------------
(***************************************************************************)
(* The link between Tera Term (ttdde.c) and the macro interpreter, another *)
(* process (ttmdde.c, ttmmain.cpp): received bytes go one way, commands    *)
(* the other.  Both ends post messages; the macro waits for the answer of  *)
(* a transaction, dispatches what comes meanwhile, and gives up after a    *)
(* time although the command may still be carried out.                     *)
(*                                                                         *)
(* A byte is its number.  Bytes 0 and 1 travel as two, quoted by 01.       *)
(***************************************************************************)
EXTENDS Integers, SequencesExt

CONSTANTS
    DdeBuffSize,    \* capacity of cv_LogBuf (InBuffSize)
    DdeRoom,        \* room CommRead1Byte_ keeps free in it (10)
    PutMax,         \* bytes one character of the host can put into it
    RingBufSize,    \* capacity of the macro's ring buffer
    CreditMargin,   \* taken off the room the macro tells of (10)
    Quoted,         \* the numbers of the bytes that are 0 or 1
    MaxPut, MaxCmnds, MaxSyncs, MaxTimeouts     \* bounds, in all

ASSUME LinkConstants ==
    /\ {DdeBuffSize, RingBufSize, PutMax} \subseteq Nat \ {0}
    /\ DdeRoom \in PutMax .. DdeBuffSize
    /\ {CreditMargin, MaxPut, MaxCmnds, MaxSyncs, MaxTimeouts} \subseteq Nat
    /\ CreditMargin > 0
    /\ Quoted \subseteq Nat

VARIABLES
    put, dcount,            \* bytes put into cv_LogBuf in all; those it holds
    SyncMode, SyncRecv, SyncFreeSpace,      \* Tera Term's side of sync mode
    job,                    \* the command that runs and will report its end
    linked,                 \* Tera Term's end of the conversation is open
    toTerm, toMacro,        \* messages on their way
    RingBuf, QuoteFlag,     \* the macro's ring buffer
    MacroSync, SyncSent,    \* the macro's side of sync mode
    Linked, TTLStatus,
    idlePc,                 \* OnIdle: "sync" before, "rest" behind SendSync
    transact,               \* the transaction that is waited for
    issued, syncs, timeouts,
    read, readInOrder,      \* bytes read; they are the first ones put
    clean,                  \* Tera Term is in sync mode since before the first byte
    misfit                  \* a wait was ended by the end of another command

termVars == << put, dcount, SyncMode, SyncRecv, SyncFreeSpace, job, linked >>
ringVars == << RingBuf, QuoteFlag, MacroSync, SyncSent >>
runVars == << Linked, TTLStatus, idlePc, transact, issued, syncs, timeouts >>
linkHistory == << read, readInOrder, clean, misfit >>
linkVars == << termVars, toTerm, toMacro, ringVars, runVars, linkHistory >>

RCountLimit == RingBufSize \div 2

LinkInit ==
    /\ put = 0 /\ dcount = 0
    /\ SyncMode = FALSE /\ SyncRecv = FALSE /\ SyncFreeSpace = 0
    /\ job = 0 /\ linked = TRUE
    /\ toTerm = << >> /\ toMacro = << >>
    /\ RingBuf = << >> /\ QuoteFlag = FALSE /\ MacroSync = FALSE /\ SyncSent = FALSE
    /\ Linked = TRUE /\ TTLStatus = "Run" /\ idlePc = "sync" /\ transact = 0
    /\ issued = 0 /\ syncs = 0 /\ timeouts = 0
    /\ read = 0 /\ readInOrder = TRUE /\ clean = FALSE /\ misfit = FALSE

Ask(kind, id, room) == [kind |-> kind, id |-> id, room |-> room]
Tell(kind, id, data) == [kind |-> kind, id |-> id, data |-> data]
-----------------------------------------------------------------------------
(* Tera Term reads a character of the host only if cv_LogBuf has room; a   *)
(* full buffer drops its oldest byte.                                      *)
DDEPut1 ==
    /\ dcount < DdeBuffSize - DdeRoom
    /\ \E n \in 1 .. PutMax :
          /\ put + n <= MaxPut
          /\ put' = put + n
          /\ dcount' = IF dcount + n > DdeBuffSize THEN DdeBuffSize ELSE dcount + n
    /\ UNCHANGED << SyncMode, SyncRecv, SyncFreeSpace, job, linked, toTerm, toMacro,
                    ringVars, runVars, linkHistory >>

(* n bytes from cv_LogBuf as they travel.                                  *)
Wired(n) ==
    FlattenSeq([i \in 1 .. n |->
        LET k == put - dcount + i
        IN  IF k \in Quoted THEN << << k, "quote" >>, << k, "low" >> >>
                            ELSE << << k, "raw" >> >>])

(* A slip of Taken: a quoted byte counts once.                             *)
TakenUnquoted(room) == IF SyncMode /\ dcount > room THEN room ELSE dcount

(* AcceptRequest: what is there, in sync mode only as much as there is     *)
(* room; a quoted byte may exceed that by one.                             *)
Taken(room) ==
    IF SyncMode /\ Len(Wired(dcount)) > room
    THEN CHOOSE n \in 0 .. dcount :
            /\ Len(Wired(n)) >= room
            /\ \A m \in 0 .. n - 1 : Len(Wired(m)) < room
    ELSE dcount

DDEAdv ==
    /\ linked /\ dcount > 0
    /\ SyncMode => SyncRecv
    /\ LET room == IF SyncFreeSpace < CreditMargin THEN 0 ELSE SyncFreeSpace - CreditMargin
       IN  /\ SyncFreeSpace' = room
           /\ toMacro' = Append(toMacro, Tell("data", 0, Wired(Taken(room))))
           /\ dcount' = dcount - Taken(room)
    /\ SyncRecv' = FALSE
    /\ UNCHANGED << put, SyncMode, job, linked, toTerm, ringVars, runVars, linkHistory >>

(* Tera Term carries out a command and answers.  One that reports its end  *)
(* later is refused while another one runs.                                *)
CmdSetSync(c) ==
    /\ c.kind = "sync"
    /\ SyncFreeSpace' = c.room /\ SyncMode' = (c.room > 0) /\ SyncRecv' = TRUE
    /\ toMacro' = Append(toMacro, Tell("ack", c.id, << >>))
    /\ clean' = (c.room > 0 /\ (clean \/ put = 0))
    /\ UNCHANGED job

CmdStart(c) ==
    /\ c.kind = "cmnd"
    /\ \E ok \in {FALSE, job = 0} :
          /\ job' = IF ok THEN c.id ELSE job
          /\ toMacro' = Append(toMacro, Tell(IF ok THEN "ack" ELSE "nack", c.id, << >>))
    /\ UNCHANGED << SyncMode, SyncRecv, SyncFreeSpace, clean >>

AcceptExecute ==
    /\ linked /\ toTerm # << >>
    /\ CmdSetSync(Head(toTerm)) \/ CmdStart(Head(toTerm))
    /\ toTerm' = Tail(toTerm)
    /\ UNCHANGED << put, dcount, linked, ringVars, runVars, read, readInOrder, misfit >>

(* A slip of EndDdeCmnd: the end of a command is told more than once.      *)
EndDdeCmndTwice ==
    /\ linked /\ job > 0 /\ Len(toMacro) < 3
    /\ toMacro' = Append(toMacro, Tell("cmndend", job, << >>))
    /\ UNCHANGED << termVars, toTerm, ringVars, runVars, linkHistory >>

EndDdeCmnd ==
    /\ linked /\ job > 0
    /\ toMacro' = Append(toMacro, Tell("cmndend", job, << >>))
    /\ job' = 0
    /\ UNCHANGED << put, dcount, SyncMode, SyncRecv, SyncFreeSpace, linked, toTerm,
                    ringVars, runVars, linkHistory >>

(* Tera Term ends.                                                         *)
EndDDE ==
    /\ linked
    /\ linked' = FALSE /\ SyncMode' = FALSE /\ job' = 0 /\ toTerm' = << >>
    /\ dcount' = 0
    /\ toMacro' = toMacro \o << Tell("disconnect", 0, << >>), Tell("cmndend", 0, << >>) >>
    /\ UNCHANGED << put, SyncRecv, SyncFreeSpace, ringVars, runVars, linkHistory >>
-----------------------------------------------------------------------------
(* A slip of AcceptData: the room is not offered again.                    *)
AcceptDataOnce(m) ==
    /\ m.kind = "data"
    /\ LET all == RingBuf \o m.data
           over == Len(all) - RingBufSize
       IN  RingBuf' = IF over > 0 THEN SubSeq(all, over + 1, Len(all)) ELSE all
    /\ toMacro' = Tail(toMacro)
    /\ UNCHANGED << QuoteFlag, MacroSync, SyncSent, Linked, TTLStatus, transact, misfit >>

(* The macro.  AcceptData: a full ring buffer drops its oldest bytes.      *)
AcceptData(m) ==
    /\ m.kind = "data"
    /\ LET all == RingBuf \o m.data
           over == Len(all) - RingBufSize
       IN  RingBuf' = IF over > 0 THEN SubSeq(all, over + 1, Len(all)) ELSE all
    /\ SyncSent' = FALSE
    /\ toMacro' = Tail(toMacro)
    /\ UNCHANGED << QuoteFlag, MacroSync, Linked, TTLStatus, transact, misfit >>

(* A slip of Returns: a refused command is waited for.                     *)
ReturnsAnyway(ok) == transact' = 0 /\ UNCHANGED TTLStatus

(* A transaction ends without success: a command does not wait any more.   *)
Returns(ok) ==
    /\ transact' = 0
    /\ TTLStatus' = IF transact > 0 /\ ~ok THEN "Run" ELSE TTLStatus

(* The answer of a transaction; one that was given up is ignored.          *)
Acknowledge(m) ==
    /\ m.kind \in {"ack", "nack"}
    /\ IF transact = m.id THEN Returns(m.kind = "ack") ELSE UNCHANGED << transact, TTLStatus >>
    /\ toMacro' = Tail(toMacro)
    /\ UNCHANGED << ringVars, Linked, misfit >>

OnDdeCmndEnd(m) ==
    /\ m.kind = "cmndend"
    /\ TTLStatus' = IF TTLStatus = "WaitCmndEnd" THEN "Run" ELSE TTLStatus
    /\ misfit' = (misfit \/ (TTLStatus = "WaitCmndEnd" /\ m.id \notin {0, issued}))
    /\ toMacro' = Tail(toMacro)
    /\ UNCHANGED << ringVars, Linked, transact >>

(* DdeCallbackProc, XTYP_DISCONNECT; the transaction in progress fails.    *)
Disconnected(m) ==
    /\ m.kind = "disconnect"
    /\ Linked' = FALSE
    /\ IF transact # 0 THEN Returns(FALSE) ELSE UNCHANGED << transact, TTLStatus >>
    /\ toMacro' = Append(Tail(toMacro), Tell("ddeend", 0, << >>))
    /\ UNCHANGED << ringVars, misfit >>

(* A wait for bytes gets a timer that ends it at once.                     *)
OnDdeEnd(m) ==
    /\ m.kind = "ddeend"
    /\ TTLStatus' = "Run" /\ MacroSync' = FALSE
    /\ toMacro' = Tail(toMacro)
    /\ UNCHANGED << RingBuf, QuoteFlag, SyncSent, Linked, transact, misfit >>

(* Messages are dispatched between two calls of OnIdle and while a         *)
(* transaction waits.                                                      *)
Dispatch ==
    /\ toMacro # << >>
    /\ transact # 0 \/ idlePc = "sync"
    /\ \/ AcceptData(Head(toMacro)) \/ Acknowledge(Head(toMacro))
       \/ OnDdeCmndEnd(Head(toMacro)) \/ Disconnected(Head(toMacro)) \/ OnDdeEnd(Head(toMacro))
    /\ UNCHANGED << termVars, toTerm, idlePc, issued, syncs, timeouts, read, readInOrder, clean >>

(* DdeClientTransaction gives up after a second or five.                   *)
GiveUp ==
    /\ transact # 0 /\ timeouts < MaxTimeouts
    /\ timeouts' = timeouts + 1
    /\ Returns(FALSE)
    /\ UNCHANGED << termVars, toTerm, toMacro, ringVars, Linked, idlePc, issued, syncs,
                    linkHistory >>

(* A wait for bytes ran out of time.                                       *)
OnTimer ==
    /\ TTLStatus = "Wait" /\ timeouts < MaxTimeouts
    /\ transact # 0 \/ idlePc = "sync"
    /\ timeouts' = timeouts + 1
    /\ TTLStatus' = "Run"
    /\ UNCHANGED << termVars, toTerm, toMacro, ringVars, Linked, idlePc, transact, issued,
                    syncs, linkHistory >>
-----------------------------------------------------------------------------
(* OnIdle of the macro, called when no message waits.  A transaction that  *)
(* sets sync mode has a number below 0, a command that of its issue.       *)
SyncId == -(1 + timeouts)

(* SetSync and SendSync tell of the room; never of none.                   *)
TellRoom(room) ==
    /\ toTerm' = Append(toTerm, Ask("sync", SyncId, room))
    /\ transact' = SyncId

Room(n) == IF n < RingBufSize THEN RingBufSize - n ELSE 1

(* n is the number of bytes the ring buffer holds.                         *)
SendSync(n) ==
    IF Linked /\ MacroSync /\ ~SyncSent /\ n < RCountLimit
    THEN TellRoom(Room(n)) /\ SyncSent' = TRUE
    ELSE UNCHANGED << toTerm, transact, SyncSent >>

OnIdle ==
    /\ transact = 0 /\ idlePc = "sync" /\ toMacro = << >>
    /\ idlePc' = "rest"
    /\ SendSync(Len(RingBuf))
    /\ UNCHANGED << termVars, toMacro, RingBuf, QuoteFlag, MacroSync, Linked, TTLStatus,
                    issued, syncs, timeouts, linkHistory >>

(* Exec: a wait, a command that reports its end, setsync, or another.      *)
TTLWait ==
    /\ Linked /\ TTLStatus' = "Wait"
    /\ UNCHANGED << toTerm, transact, issued, syncs, MacroSync, SyncSent >>

(* The status is set before the command is sent.                           *)
SendCmnd ==
    /\ Linked /\ issued < MaxCmnds
    /\ issued' = issued + 1
    /\ TTLStatus' = "WaitCmndEnd"
    /\ toTerm' = Append(toTerm, Ask("cmnd", issued', 0)) /\ transact' = issued'
    /\ UNCHANGED << syncs, MacroSync, SyncSent >>

SetSync ==
    /\ Linked /\ syncs < MaxSyncs
    /\ syncs' = syncs + 1
    /\ MacroSync' = ~MacroSync
    /\ SyncSent' = (MacroSync' \/ SyncSent)
    /\ TellRoom(IF MacroSync' THEN Room(Len(RingBuf)) ELSE 0)
    /\ UNCHANGED << TTLStatus, issued >>

Exec ==
    /\ transact = 0 /\ idlePc = "rest" /\ TTLStatus = "Run"
    /\ idlePc' = "sync"
    /\ \/ TTLWait \/ SendCmnd \/ SetSync
       \/ ~Linked /\ UNCHANGED << TTLStatus, toTerm, transact, issued, syncs, MacroSync, SyncSent >>
    /\ UNCHANGED << termVars, toMacro, RingBuf, QuoteFlag, Linked, timeouts, linkHistory >>

(* Read1Byte gives no byte for the first one of a quoted pair, which ends  *)
(* the loop of Wait.                                                       *)
IsQuote(i) == RingBuf[i][2] = "quote" /\ ~(i = 1 /\ QuoteFlag)

(* The number of units Wait takes when it finds what it waits for, if it   *)
(* does, or all up to the first quote.                                     *)
WaitTakes(n, found) ==
    /\ \A i \in 1 .. n - 1 : ~IsQuote(i)
    /\ IF found THEN n > 0 /\ ~IsQuote(n)
                ELSE n = Len(RingBuf) \/ (n > 0 /\ IsQuote(n))

Wait ==
    /\ transact = 0 /\ idlePc = "rest" /\ TTLStatus = "Wait"
    /\ idlePc' = "sync"
    /\ \E n \in 0 .. Len(RingBuf), found \in BOOLEAN :
          /\ WaitTakes(n, found)
          /\ LET bytes == IF n > 0 /\ IsQuote(n) THEN n - 1 ELSE n
             IN  /\ read' = read + bytes
                 /\ readInOrder' = (readInOrder /\ \A i \in 1 .. bytes :
                       RingBuf[i] = << read + i, IF i = 1 /\ QuoteFlag THEN "low" ELSE "raw" >>)
                 /\ QuoteFlag' = IF n = 0 THEN QuoteFlag ELSE bytes < n
          /\ RingBuf' = SubSeq(RingBuf, n + 1, Len(RingBuf))
          /\ TTLStatus' = IF found THEN "Run" ELSE "Wait"
          /\ SendSync(Len(RingBuf) - n)
    /\ UNCHANGED << termVars, toMacro, MacroSync, Linked, issued, syncs, timeouts,
                    clean, misfit >>

(* OnIdle has nothing to do.                                               *)
Rests ==
    /\ transact = 0 /\ idlePc = "rest" /\ TTLStatus = "WaitCmndEnd"
    /\ idlePc' = "sync"
    /\ UNCHANGED << termVars, toTerm, toMacro, ringVars, Linked, TTLStatus, transact, issued,
                    syncs, timeouts, linkHistory >>
-----------------------------------------------------------------------------
MacroIdle == OnIdle \/ Exec \/ Wait \/ Rests

LinkNext ==
    \/ DDEPut1 \/ DDEAdv \/ AcceptExecute \/ EndDdeCmnd \/ EndDDE
    \/ Dispatch \/ GiveUp \/ OnTimer \/ MacroIdle

(* Both programs serve their messages and idle; a transfer ends.           *)
LinkFairness ==
    /\ WF_linkVars(DDEAdv) /\ WF_linkVars(AcceptExecute) /\ WF_linkVars(EndDdeCmnd)
    /\ WF_linkVars(Dispatch) /\ WF_linkVars(MacroIdle)

LinkSpec == LinkInit /\ [][LinkNext]_linkVars /\ LinkFairness
-----------------------------------------------------------------------------
Unit == (1 .. MaxPut) \X {"raw", "quote", "low"}

LinkTypeOK ==
    /\ put \in 0 .. MaxPut /\ dcount \in 0 .. DdeBuffSize
    /\ {SyncMode, SyncRecv, linked, QuoteFlag, MacroSync, SyncSent, Linked} \subseteq BOOLEAN
    /\ SyncFreeSpace \in 0 .. RingBufSize
    /\ {job, issued} \subseteq 0 .. MaxCmnds
    /\ toTerm \in Seq([kind : {"sync", "cmnd"}, id : Int, room : 0 .. RingBufSize])
    /\ toMacro \in Seq([kind : {"data", "ack", "nack", "cmndend", "disconnect", "ddeend"},
                        id : Int, data : Seq(Unit)])
    /\ RingBuf \in Seq(Unit) /\ Len(RingBuf) <= RingBufSize
    /\ TTLStatus \in {"Run", "Wait", "WaitCmndEnd"} /\ idlePc \in {"sync", "rest"}
    /\ transact \in -(1 + MaxTimeouts) .. MaxCmnds
    /\ timeouts \in 0 .. MaxTimeouts /\ syncs \in 0 .. MaxSyncs
    /\ read \in 0 .. put
    /\ {readInOrder, clean, misfit} \subseteq BOOLEAN

(* With sync mode on since before the first byte, what the macro reads is  *)
(* what the host sent: quoting, the grants of room and the two buffers     *)
(* lose, double or mix nothing (ttdde.c DDEAdv, AcceptRequest; ttmdde.c    *)
(* AcceptData, Read1Byte).                                                 *)
Received == INSTANCE ByteStream
    WITH taken <- put, given <- read, intact <- (clean => readInOrder)
SyncIsStream == Received!Spec

(* The two sides do not wait for each other: while the link is there, all  *)
(* bytes get to the macro, and it reads them (SyncSent, SyncRecv).         *)
AllRead == <>(~linked) \/ <>[](dcount = 0 /\ toMacro = << >> /\ RingBuf = << >>)

(* A command that waits for its end always goes on: its end cannot come    *)
(* before the macro waits for it, and a refusal, a timeout or the end of   *)
(* Tera Term ends the wait (SendCmnd, OnDdeCmndEnd, OnDdeEnd).             *)
WaitResumes == TTLStatus = "WaitCmndEnd" ~> TTLStatus = "Run"

(* Unless a transaction was given up, a wait for the end of a command is   *)
(* ended by the end of that command, not by that of an earlier one.        *)
CompletionFits == timeouts = 0 => ~misfit
=============================================================================
