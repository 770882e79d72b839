---------------------------- MODULE ChannelFlow ----------------------------
(***************************************************************************)
(* The way of the data of one forwarded TCP connection through TTSSH, from *)
(* the local socket to the SSH server (ttssh2/ttxssh/ssh.c and fwd.c):     *)
(*                                                                         *)
(*   - read_local_connection reads the socket while the channel's receive  *)
(*     side is not suspended, and hands every chunk to                     *)
(*     SSH2_send_channel_data;                                             *)
(*   - SSH2_send_channel_data sends the chunk, or appends it to the        *)
(*     channel's bufchain when a key exchange is running, when older       *)
(*     chunks wait, or when the server's window is too small;              *)
(*   - ssh2_channel_retry_send_bufchain sends the waiting chunks when the  *)
(*     window grows and at the end of a key exchange;                      *)
(*   - FWD_suspend_resume_local_connection stops and restarts the reading. *)
(*                                                                         *)
(* Everything of the client runs on the thread of the window procedure, so *)
(* a handler is atomic for the other handlers; the two loops are cut into  *)
(* one action per turn, and pc keeps other handlers out until the loop     *)
(* ends.  The server, the application on the local socket and the window   *)
(* messages of Winsock are the environment.  A byte is named by its        *)
(* position in the stream of the local socket.                             *)
(***************************************************************************)
EXTENDS Naturals, Sequences, FiniteSets, Stretch

CONSTANTS
    ReadBuf,        \* CHANNEL_READ_BUF_SIZE, the most bytes one recv returns
    HighWater,      \* FWD_HIGH_WATER_MARK
    LowWater,       \* FWD_LOW_WATER_MARK
    InitWindow,     \* window the server grants when the channel opens
    HostKeyPrompt,  \* may the host key of a key re-exchange need the user?
    TotalBytes,     \* bound: bytes the application writes
    MaxRekey        \* bound: key re-exchanges the server starts

ASSUME FlowAssumption ==
    /\ ReadBuf \in Nat \ {0}
    /\ HighWater \in Nat \ {0}
    /\ LowWater \in Nat
    /\ LowWater < HighWater
    /\ InitWindow \in Nat \ {0}
    /\ HostKeyPrompt \in BOOLEAN
    /\ TotalBytes \in Nat
    /\ MaxRekey \in Nat

VARIABLES
    \* the local application and its socket (external)
    written,        \* bytes the application has written
    hungUp,         \* how the application ended: "no", "closed" or "reset"
    \* Winsock notifications for the socket (external)
    armed,          \* the next arrival of data posts FD_READ
    fdRead,         \* an FD_READ is in the message queue of accept_wnd
    fdClose,        \* an FD_CLOSE is in that queue: "no", "ok" or "error"
    \* the client
    pc,             \* the handler that is in the middle of its loop
    nread,          \* bytes taken from the socket by recv
    socketOpen,     \* channel->local_socket # INVALID_SOCKET
    kex_status,     \* pvar->kex->kex_status, a set of KEX_FLAG_ names
    stage,          \* the packets SSH2_dispatch accepts
    askUser,        \* the known_hosts dialog is open
    remote_window,  \* c->remote_window
    bufchain,       \* c->bufchain
    bufchain_amount,\* c->bufchain_amount
    suspended,      \* c->bufchain_recv_suspended
    nsent,          \* bytes put on the wire (history)
    alive,          \* no notify_fatal_error yet
    \* the connection and the server (external)
    toServer,       \* packets under way to the server
    toClient,       \* packets under way to the client
    granted,        \* all the window the server has granted so far
    got,            \* bytes the server has received in order
    garbled,        \* the server received a byte out of its place
    overrun,        \* the server received more than it had granted
    srvKex,         \* the server's key exchange: "idle", "init" or "newkeys"
    srvKexOpen,     \* the client's KEXINIT arrived, its NEWKEYS did not
    rekeys          \* key re-exchanges started

app   == << written, hungUp >>
winsock == << armed, fdRead, fdClose >>
kex   == << kex_status, stage, askUser >>
chain == << bufchain, bufchain_amount, suspended >>
sent  == << remote_window, toServer, nsent >>
srv   == << granted, got, garbled, overrun, srvKex, srvKexOpen, rekeys >>
vars  == << app, winsock, pc, nread, socketOpen, kex, chain, sent, alive,
            toClient, srv >>

ServerKinds == { "ADJUST", "KEXINIT", "REPLY", "NEWKEYS" }
ClientKinds == { "DATA", "EOF", "KEXINIT", "NEWKEYS" }
KexFlags    == { "KEXDONE", "REKEYING", "NEWKEYS_SENT", "NEWKEYS_RECEIVED" }

(* A packet to the server carries its place in the stream of bytes, one to *)
(* the client its place in the stream of credit; size is 0 when it moves   *)
(* neither.                                                                *)
Packet(k, p, n) == [kind |-> k, pos |-> p, size |-> n]

Rekeying == "REKEYING" \in kex_status
Unread   == written - nread

Init ==
    /\ written = 0 /\ hungUp = "no"
    /\ armed = TRUE /\ fdRead = FALSE /\ fdClose = "no"
    /\ pc = "idle" /\ nread = 0 /\ socketOpen = TRUE
    /\ kex_status = { "KEXDONE" } /\ stage = "transfer" /\ askUser = FALSE
    /\ remote_window = InitWindow
    /\ bufchain = << >> /\ bufchain_amount = 0 /\ suspended = FALSE
    /\ nsent = 0 /\ alive = TRUE
    /\ toServer = << >> /\ toClient = << >>
    /\ granted = InitWindow /\ got = 0 /\ garbled = FALSE /\ overrun = FALSE
    /\ srvKex = "idle" /\ srvKexOpen = FALSE /\ rekeys = 0
-----------------------------------------------------------------------------
(* The application and Winsock.                                            *)

(* The application writes n bytes; an armed socket posts FD_READ once.     *)
AppWrite(n) ==
    /\ hungUp = "no" /\ written + n <= TotalBytes
    /\ written' = written + n
    /\ fdRead' = (fdRead \/ (armed /\ socketOpen))
    /\ armed' = FALSE
    /\ UNCHANGED << hungUp, fdClose, pc, nread, socketOpen, kex, chain, sent,
                    alive, toClient, srv >>

(* The application closes or resets its end; FD_CLOSE is posted.           *)
AppHangUp(how) ==
    /\ hungUp = "no"
    /\ hungUp' = how
    /\ fdClose' = IF ~socketOpen THEN fdClose
                  ELSE IF how = "closed" THEN "ok" ELSE "error"
    /\ UNCHANGED << written, armed, fdRead, pc, nread, socketOpen, kex, chain,
                    sent, alive, toClient, srv >>
-----------------------------------------------------------------------------
(* Sending.  SSH2_send_channel_data and the two helpers it shares with the *)
(* retry loop.                                                             *)

(* Three slips of MustQueue: without the test of the window, of the key    *)
(* exchange, or of the older chunks.                                       *)
MustQueueNoWindow(c, retry)  == Rekeying \/ (~retry /\ bufchain # << >>)
MustQueueInRekey(c, retry)   == (~retry /\ bufchain # << >>) \/ c.size > remote_window
MustQueueOvertakes(c, retry) == Rekeying \/ c.size > remote_window

(* The chunk has to wait in the bufchain.                                  *)
MustQueue(c, retry) ==
    \/ Rekeying
    \/ ~retry /\ bufchain # << >>
    \/ c.size > remote_window

(* Two slips of AddBufchain: the chunk is not counted, or the reading is   *)
(* suspended one byte too late.                                            *)
AddBufchainUncounted(c, rest, less) ==
    /\ bufchain' = Append(rest, c)
    /\ bufchain_amount' = bufchain_amount - less
    /\ suspended' = (suspended \/ bufchain_amount + c.size >= HighWater)
    /\ UNCHANGED sent

AddBufchainLate(c, rest, less) ==
    /\ bufchain' = Append(rest, c)
    /\ bufchain_amount' = bufchain_amount + c.size - less
    /\ suspended' = (suspended \/ bufchain_amount + c.size > HighWater)
    /\ UNCHANGED sent

(* ssh2_channel_add_bufchain; rest is the chain without the chunk a retry  *)
(* takes from it, and less the size of that chunk.                         *)
AddBufchain(c, rest, less) ==
    /\ bufchain' = Append(rest, c)
    /\ bufchain_amount' = bufchain_amount + c.size - less
    /\ suspended' = (suspended \/ bufchain_amount + c.size >= HighWater)
    /\ UNCHANGED sent

(* The packet itself.                                                      *)
SendData(c) ==
    /\ toServer' = Append(toServer, Packet("DATA", c.pos, c.size))
    /\ remote_window' = remote_window - c.size
    /\ nsent' = nsent + c.size

(* A chunk that was just read.                                             *)
SSH2_send_channel_data(c) ==
    \/ /\ MustQueue(c, FALSE)
       /\ AddBufchain(c, bufchain, 0)
    \/ /\ ~MustQueue(c, FALSE)
       /\ SendData(c)
       /\ UNCHANGED chain
-----------------------------------------------------------------------------
(* read_local_connection, called for FD_READ and once more for FD_CLOSE.   *)

HandleFdRead ==
    /\ alive /\ pc = "idle" /\ fdRead /\ socketOpen
    /\ fdRead' = FALSE
    /\ pc' = "read"
    /\ UNCHANGED << app, armed, fdClose, nread, socketOpen, kex, chain, sent,
                    alive, toClient, srv >>

(* A slip of HandleFdClose: it closes without the last read.               *)
HandleFdCloseNoRead ==
    /\ alive /\ pc = "idle" /\ fdClose = "ok"
    /\ fdClose' = "no"
    /\ pc' = "close"
    /\ UNCHANGED << app, armed, fdRead, nread, socketOpen, kex, chain, sent,
                    alive, toClient, srv >>

HandleFdClose ==
    /\ alive /\ pc = "idle" /\ fdClose = "ok"
    /\ fdClose' = "no"
    /\ pc' = "lastread"
    /\ UNCHANGED << app, armed, fdRead, nread, socketOpen, kex, chain, sent,
                    alive, toClient, srv >>

AfterRead == IF pc = "lastread" THEN "close" ELSE "idle"

(* recv returned data; Winsock posts FD_READ again if there is more.       *)
ReadChunk ==
    /\ alive /\ pc \in { "read", "lastread" } /\ ~suspended /\ Unread > 0
    /\ LET n == IF Unread < ReadBuf THEN Unread ELSE ReadBuf
       IN  /\ SSH2_send_channel_data(Packet("DATA", nread, n))
           /\ nread' = nread + n
           /\ fdRead' = (fdRead \/ Unread > n)
           /\ armed' = (Unread = n)
    /\ UNCHANGED << app, fdClose, pc, socketOpen, kex, alive, toClient, srv >>

(* recv would block: the loop ends and the socket is armed again.          *)
ReadNothing ==
    /\ alive /\ pc \in { "read", "lastread" } /\ ~suspended /\ Unread = 0
    /\ armed' = TRUE
    /\ pc' = AfterRead
    /\ UNCHANGED << app, fdRead, fdClose, nread, socketOpen, kex, chain, sent,
                    alive, toClient, srv >>

(* Reading is suspended: the loop ends without a recv.                     *)
ReadSkipped ==
    /\ alive /\ pc \in { "read", "lastread" } /\ suspended
    /\ pc' = AfterRead
    /\ UNCHANGED << app, winsock, nread, socketOpen, kex, chain, sent, alive,
                    toClient, srv >>

(* closed_local_connection with send_local_connection_closure: the socket  *)
(* goes away with its messages, and the server is told, unless a key       *)
(* exchange is running.                                                    *)
ClosedLocalConnection ==
    /\ socketOpen' = FALSE /\ fdRead' = FALSE /\ fdClose' = "no"
    /\ toServer' = IF Rekeying THEN toServer
                   ELSE Append(toServer, Packet("EOF", nsent, 0))
    /\ UNCHANGED << app, armed, nread, kex, chain, remote_window, nsent, alive,
                    toClient, srv >>

CloseAfterRead ==
    /\ alive /\ pc = "close"
    /\ pc' = "idle"
    /\ ClosedLocalConnection

(* recv fails on a connection the application has reset: channel_error.    *)
ReadError ==
    /\ alive /\ pc \in { "read", "lastread" } /\ ~suspended /\ hungUp = "reset"
    /\ pc' = "idle"
    /\ ClosedLocalConnection

(* channel_error, for an FD_CLOSE that carries an error.                   *)
HandleFdError ==
    /\ alive /\ pc = "idle" /\ fdClose = "error"
    /\ UNCHANGED pc
    /\ ClosedLocalConnection
-----------------------------------------------------------------------------
(* ssh2_channel_retry_send_bufchain, one turn of its loop at a time.       *)

(* A slip of StartRetry: the loop is not run.                              *)
StartRetryNever(p) == p

StartRetry(p) == IF bufchain = << >> THEN p ELSE "retry"

(* The loop's test lets the head of the chain through.                     *)
HeadFits == Head(bufchain).size < remote_window

RetrySend ==
    /\ alive /\ pc = "retry" /\ bufchain # << >> /\ HeadFits
    /\ LET c == Head(bufchain)
       IN  \/ /\ MustQueue(c, TRUE)
              /\ AddBufchain(c, Tail(bufchain), c.size)
           \/ /\ ~MustQueue(c, TRUE)
              /\ SendData(c)
              /\ bufchain' = Tail(bufchain)
              /\ bufchain_amount' = bufchain_amount - c.size
              /\ UNCHANGED suspended
    /\ UNCHANGED << app, winsock, pc, nread, socketOpen, kex, alive, toClient,
                    srv >>

RetryStop ==
    /\ alive /\ pc = "retry" /\ bufchain # << >> /\ ~HeadFits
    /\ pc' = "idle"
    /\ UNCHANGED << app, winsock, nread, socketOpen, kex, chain, sent, alive,
                    toClient, srv >>

(* Two slips of RetryResume: no FD_READ of its own, or a low-water mark    *)
(* that an empty chain may not be under.                                   *)
RetryResumeSilent ==
    /\ alive /\ pc = "retry" /\ bufchain = << >>
    /\ pc' = "idle"
    /\ suspended' = (suspended /\ bufchain_amount > LowWater)
    /\ UNCHANGED << app, winsock, nread, socketOpen, kex, bufchain,
                    bufchain_amount, sent, alive, toClient, srv >>

RetryResumeBelow ==
    /\ alive /\ pc = "retry" /\ bufchain = << >>
    /\ pc' = "idle"
    /\ suspended' = (suspended /\ bufchain_amount >= LowWater)
    /\ fdRead' = (fdRead \/ (socketOpen /\ bufchain_amount < LowWater))
    /\ UNCHANGED << app, armed, fdClose, nread, socketOpen, kex, bufchain,
                    bufchain_amount, sent, alive, toClient, srv >>

(* The chain has been emptied: FWD_suspend_resume_local_connection lets    *)
(* the reading go on and posts an FD_READ of its own.                      *)
RetryResume ==
    /\ alive /\ pc = "retry" /\ bufchain = << >>
    /\ pc' = "idle"
    /\ \/ /\ bufchain_amount <= LowWater
          /\ suspended' = FALSE
          /\ fdRead' = (fdRead \/ socketOpen)
       \/ /\ bufchain_amount > LowWater
          /\ UNCHANGED << suspended, fdRead >>
    /\ UNCHANGED << app, armed, fdClose, nread, socketOpen, kex, bufchain,
                    bufchain_amount, sent, alive, toClient, srv >>
-----------------------------------------------------------------------------
(* Packets from the server: SSH2_handle_packet and the handlers.           *)

Accepted(s) ==
    CASE s = "transfer" -> { "ADJUST", "KEXINIT" }
      [] s = "reply"    -> { "REPLY" }
      [] s = "newkeys"  -> { "NEWKEYS" }

Take(k) ==
    /\ alive /\ pc = "idle" /\ toClient # << >>
    /\ Head(toClient).kind = k /\ k \in Accepted(stage)
    /\ toClient' = Tail(toClient)

(* SSH2_handle_packet: a packet the stage does not expect ends the session.*)
Unexpected ==
    /\ alive /\ pc = "idle" /\ toClient # << >>
    /\ Head(toClient).kind \notin Accepted(stage)
    /\ toClient' = Tail(toClient)
    /\ alive' = FALSE
    /\ UNCHANGED << app, winsock, pc, nread, socketOpen, kex, chain, sent, srv >>

handle_SSH2_window_adjust ==
    /\ Take("ADJUST")
    /\ remote_window' = remote_window + Head(toClient).size
    /\ pc' = StartRetry("idle")
    /\ UNCHANGED << app, winsock, nread, socketOpen, kex, chain, toServer,
                    nsent, alive, srv >>

(* The server starts a key re-exchange; the answer carries the client's    *)
(* own KEXINIT and its first key exchange packet.                          *)
handle_SSH2_kexinit ==
    /\ Take("KEXINIT")
    /\ kex_status' = IF kex_status = { "KEXDONE" } THEN { "REKEYING" }
                     ELSE kex_status
    /\ stage' = "reply"
    /\ toServer' = Append(toServer, Packet("KEXINIT", nsent, 0))
    /\ UNCHANGED << app, winsock, pc, nread, socketOpen, askUser, chain,
                    remote_window, nsent, alive, srv >>

(* A slip of SendNewkeys: the dispatch table is not moved on.              *)
SendNewkeysSameStage(st) ==
    /\ toServer' = Append(toServer, Packet("NEWKEYS", nsent, 0))
    /\ kex_status' = IF "NEWKEYS_RECEIVED" \in st THEN { "KEXDONE" }
                     ELSE st \cup { "NEWKEYS_SENT" }
    /\ UNCHANGED stage

(* ssh2_send_newkeys; st is the kex_status it is called with.              *)
SendNewkeys(st) ==
    /\ toServer' = Append(toServer, Packet("NEWKEYS", nsent, 0))
    /\ \/ /\ "NEWKEYS_RECEIVED" \in st
          /\ kex_status' = { "KEXDONE" }
          /\ stage' = "transfer"
       \/ /\ "NEWKEYS_RECEIVED" \notin st
          /\ kex_status' = st \cup { "NEWKEYS_SENT" }
          /\ stage' = "newkeys"

(* The server's key exchange reply.  Either the host key is known and      *)
(* SSH_notify_host_OK sends NEWKEYS at once, or the known_hosts dialog is  *)
(* opened first.                                                           *)
handle_SSH2_dh_common_reply ==
    /\ Take("REPLY")
    /\ \/ /\ SendNewkeys(kex_status)
          /\ UNCHANGED askUser
       \/ /\ HostKeyPrompt
          /\ askUser' = TRUE
          /\ stage' = "newkeys"
          /\ UNCHANGED << kex_status, toServer >>
    /\ UNCHANGED << app, winsock, pc, nread, socketOpen, chain, remote_window,
                    nsent, alive, srv >>

(* The user accepts the host key in the dialog: SSH_notify_host_OK.        *)
SSH_notify_host_OK ==
    /\ alive /\ pc = "idle" /\ askUser
    /\ askUser' = FALSE
    /\ SendNewkeys(kex_status)
    /\ UNCHANGED << app, winsock, pc, nread, socketOpen, chain, remote_window,
                    nsent, alive, toClient, srv >>

(* A slip of handle_SSH2_newkeys: the waiting chunks are forgotten.        *)
HandleNewkeysNoRetry ==
    /\ Take("NEWKEYS")
    /\ kex_status' = IF "NEWKEYS_SENT" \in kex_status THEN { "KEXDONE" }
                     ELSE kex_status \cup { "NEWKEYS_RECEIVED" }
    /\ stage' = IF "NEWKEYS_SENT" \in kex_status THEN "transfer" ELSE stage
    /\ UNCHANGED << app, winsock, pc, nread, socketOpen, askUser, chain, sent,
                    alive, srv >>

(* The server's NEWKEYS.  When ours is out already the exchange is over    *)
(* and the waiting chunks are sent.                                        *)
handle_SSH2_newkeys ==
    /\ Take("NEWKEYS")
    /\ \/ /\ "NEWKEYS_SENT" \in kex_status
          /\ kex_status' = { "KEXDONE" }
          /\ stage' = "transfer"
          /\ pc' = StartRetry("idle")
       \/ /\ "NEWKEYS_SENT" \notin kex_status
          /\ kex_status' = kex_status \cup { "NEWKEYS_RECEIVED" }
          /\ UNCHANGED << stage, pc >>
    /\ UNCHANGED << app, winsock, nread, socketOpen, askUser, chain, sent,
                    alive, srv >>
-----------------------------------------------------------------------------
(* The server (external): it takes the packets in order, gives window back *)
(* except between its KEXINIT and its NEWKEYS, and re-exchanges the keys.  *)

ServerTake(k) ==
    /\ alive /\ toServer # << >> /\ Head(toServer).kind = k
    /\ toServer' = Tail(toServer)

ServerData ==
    /\ ServerTake("DATA")
    /\ LET p == Head(toServer)
       IN  /\ got' = got + p.size
           /\ garbled' = (garbled \/ p.pos # got)
           /\ overrun' = (overrun \/ got + p.size > granted)
    /\ UNCHANGED << app, winsock, pc, nread, socketOpen, kex, chain,
                    remote_window, nsent, alive, toClient, granted, srvKex,
                    srvKexOpen, rekeys >>

ServerEof ==
    /\ ServerTake("EOF")
    /\ UNCHANGED << app, winsock, pc, nread, socketOpen, kex, chain,
                    remote_window, nsent, alive, toClient, srv >>

ServerKexinit ==
    /\ ServerTake("KEXINIT")
    /\ srvKex' = "newkeys" /\ srvKexOpen' = TRUE
    /\ toClient' = Append(Append(toClient, Packet("REPLY", granted, 0)),
                          Packet("NEWKEYS", granted, 0))
    /\ UNCHANGED << app, winsock, pc, nread, socketOpen, kex, chain,
                    remote_window, nsent, alive, granted, got, garbled, overrun,
                    rekeys >>

ServerNewkeys ==
    /\ ServerTake("NEWKEYS")
    /\ srvKex' = "idle" /\ srvKexOpen' = FALSE
    /\ UNCHANGED << app, winsock, pc, nread, socketOpen, kex, chain,
                    remote_window, nsent, alive, toClient, granted, got,
                    garbled, overrun, rekeys >>

ServerAdjust(n) ==
    /\ alive /\ srvKex # "init" /\ granted + n <= got + InitWindow
    /\ granted' = granted + n
    /\ toClient' = Append(toClient, Packet("ADJUST", granted, n))
    /\ UNCHANGED << app, winsock, pc, nread, socketOpen, kex, chain, sent,
                    alive, got, garbled, overrun, srvKex, srvKexOpen, rekeys >>

ServerRekey ==
    /\ alive /\ srvKex = "idle" /\ rekeys < MaxRekey
    /\ rekeys' = rekeys + 1
    /\ srvKex' = "init"
    /\ toClient' = Append(toClient, Packet("KEXINIT", granted, 0))
    /\ UNCHANGED << app, winsock, pc, nread, socketOpen, kex, chain, sent,
                    alive, granted, got, garbled, overrun, srvKexOpen >>
-----------------------------------------------------------------------------
App == \/ \E n \in 1 .. TotalBytes : AppWrite(n)
       \/ \E how \in { "closed", "reset" } : AppHangUp(how)

Reader == \/ HandleFdRead \/ HandleFdClose \/ HandleFdError
          \/ ReadChunk \/ ReadNothing \/ ReadSkipped \/ ReadError
          \/ CloseAfterRead

Retry == RetrySend \/ RetryStop \/ RetryResume

Packets == \/ Unexpected \/ handle_SSH2_window_adjust \/ handle_SSH2_kexinit
           \/ handle_SSH2_dh_common_reply \/ SSH_notify_host_OK
           \/ handle_SSH2_newkeys

Server == \/ ServerData \/ ServerEof \/ ServerKexinit \/ ServerNewkeys
          \/ (\E n \in 1 .. InitWindow : ServerAdjust(n))
          \/ ServerRekey

Next == App \/ Reader \/ Retry \/ Packets \/ Server

Spec == Init /\ [][Next]_vars

(* The message loop of the client and the connection keep going; the       *)
(* server takes what arrives and gives window back once less than half of  *)
(* it is left, as servers do.  The application owes nothing.               *)
ServerRefill ==
    /\ 2 * (granted - got) < InitWindow
    /\ \E n \in 1 .. InitWindow : ServerAdjust(n)

Fairness ==
    /\ WF_vars(Reader) /\ WF_vars(Retry) /\ WF_vars(Packets)
    /\ WF_vars(ServerData \/ ServerEof \/ ServerKexinit \/ ServerNewkeys)
    /\ WF_vars(ServerRefill)

FairSpec == Spec /\ Fairness
-----------------------------------------------------------------------------
(* Properties.                                                             *)

(* Every variable has its type: the flags, and the data.  The socket never *)
(* yields more than was written, and the window never goes below zero.     *)
TypeFlags ==
    /\ armed \in BOOLEAN /\ fdRead \in BOOLEAN /\ socketOpen \in BOOLEAN
    /\ askUser \in BOOLEAN /\ suspended \in BOOLEAN /\ alive \in BOOLEAN
    /\ garbled \in BOOLEAN /\ overrun \in BOOLEAN /\ srvKexOpen \in BOOLEAN

TypeData ==
    /\ written \in Nat /\ hungUp \in { "no", "closed", "reset" }
    /\ fdClose \in { "no", "ok", "error" }
    /\ pc \in { "idle", "read", "lastread", "close", "retry" }
    /\ nread \in Nat /\ nread <= written
    /\ kex_status \in SUBSET KexFlags
    /\ stage \in { "transfer", "reply", "newkeys" }
    /\ remote_window \in Nat
    /\ bufchain \in Seq(Piece({ "DATA" })) /\ bufchain_amount \in Nat
    /\ nsent \in Nat
    /\ toServer \in Seq(Piece(ClientKinds))
    /\ toClient \in Seq(Piece(ServerKinds))
    /\ granted \in Nat /\ got \in Nat
    /\ srvKex \in { "idle", "init", "newkeys" }
    /\ rekeys \in 0 .. MaxRekey

TypeOK == TypeFlags /\ TypeData

(* bufchain_amount is the number of bytes read and not yet sent: what the  *)
(* flow control of FWD_suspend_resume_local_connection decides by.         *)
AmountIsBacklog == bufchain_amount = nread - nsent

(* The flow control bounds the backlog: one chunk past the high-water mark *)
(* at most, through any number of key exchanges.                           *)
BacklogBounded == bufchain_amount < HighWater + ReadBuf

(* Data in the socket is never forgotten: while it waits, a window message *)
(* for it is on its way, or the reading is suspended (and see              *)
(* Resumed).                                                               *)
NoLostWakeup ==
    pc = "idle" /\ socketOpen /\ Unread > 0 => fdRead \/ suspended

(* Nothing of the channel between the client's KEXINIT and its NEWKEYS,    *)
(* where the server expects key exchange packets only (ssh.c:3773).  The   *)
(* server finds the j-th packet of the queue q there when it has taken a   *)
(* KEXINIT already (open), or takes one from q, and no NEWKEYS follows.    *)
NewkeysWithin(q, a, b) == \E k \in a .. b : q[k].kind = "NEWKEYS"

InKex(q, open, j) ==
    \/ open /\ ~NewkeysWithin(q, 1, j - 1)
    \/ \E i \in 1 .. j - 1 : /\ q[i].kind = "KEXINIT"
                             /\ ~NewkeysWithin(q, i + 1, j - 1)

NoDataInKex ==
    \A j \in 1 .. Len(toServer) :
        toServer[j].kind \in { "DATA", "EOF" }
            => ~InKex(toServer, srvKexOpen, j)

(* Nothing waits that the loop of ssh2_channel_retry_send_bufchain would   *)
(* let through: every event that opens the way runs the loop.              *)
NothingHeldBack ==
    alive /\ pc = "idle" /\ bufchain # << >> /\ ~Rekeying => ~HeadFits

(* Stronger, and what the comment at ssh.c:320 says of that loop: with     *)
(* room in the window the waiting data is sent.                            *)
SentWhenRoom ==
    alive /\ pc = "idle" /\ bufchain # << >> /\ ~Rekeying
        => Head(bufchain).size > remote_window

(* A server that follows the protocol never makes the client give up.      *)
NeverUnexpected == alive

(* After a close in good order nothing but a suspended reading makes the   *)
(* client drop data of the application: FD_CLOSE reads the rest first.     *)
LossOnlyWhenSuspended ==
    [][pc = "close" /\ pc' = "idle" /\ Unread > 0 => suspended]_vars

(* Every byte taken from the socket reaches the server, as long as the     *)
(* server gives window back.                                               *)
Delivered ==
    \A k \in 1 .. TotalBytes : nread >= k ~> got >= k

(* A suspended reading is resumed.                                         *)
Resumed == suspended ~> ~suspended

(* The channel implements the FIFO pipe with credit.                       *)
Pipe == INSTANCE FlowPipe
            WITH accepted <- nread, delivered <- got, credit <- granted,
                 intact <- ~garbled
PipeSpec == Pipe!Spec
=============================================================================
