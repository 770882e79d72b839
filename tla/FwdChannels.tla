---------------------------- MODULE FwdChannels ----------------------------
(***************************************************************************)
(* The life of forwarded connections in TTSSH under SSH2.  A connection is *)
(* kept twice: as an FWDChannel in pvar->fwd_state.channels (fwd.c), the   *)
(* slot that owns the local socket, and as a Channel_t in channels         *)
(* (ssh.c), which knows the number the server gave the channel.  Both are  *)
(* arrays whose free entries are used again, and the way from a slot to    *)
(* its Channel_t is a search for the first one with the slot's number.     *)
(*                                                                         *)
(* A connection starts at a listening port of the client (request L) or at *)
(* the server (request R, whose target's addresses a thread looks up).     *)
(* Handlers run one at a time on the thread of the window; the lookup      *)
(* thread, the sockets, the server and the key exchanges are the           *)
(* environment.  Flow control and data queues are those of ChannelFlow.    *)
(***************************************************************************)
EXTENDS Naturals, Sequences, FiniteSetsExt

CONSTANTS
    MaxChannel,     \* pvar->settings.MaxChannel, 0 for no limit
    NAddrs,         \* addresses the target of request R resolves to
    MaxConns,       \* bound: connections in all
    MaxQueue        \* bound: packets under way from the server

ASSUME FwdAssumption ==
    /\ MaxChannel \in Nat
    /\ NAddrs \in Nat \ {0}
    /\ MaxConns \in Nat \ {0}
    /\ MaxQueue \in Nat \ {0}

Conns    == 1 .. MaxConns
Requests == { "L", "R" }
NoId     == 0                   \* SSH_CHANNEL_INVALID, or no connection yet

VARIABLES
    slots,              \* fwd_state.channels
    num_channels,       \* num_channels of the two requests
    to_host_addrs,      \* request R: are its to_host_addrs known?
    lookup,             \* request R: "idle", "running", "found" or "failed"
    chans,              \* channels of ssh.c
    channel_used_num,   \* channel_used_num
    toClient,           \* packets under way from the server (external)
    sv,                 \* the server's side of every connection (external)
    nconns,             \* connections so far
    confused,           \* the server got a packet it cannot place, and hung up
    reconnected         \* a second connect was made for a slot (history)

fwd  == << slots, num_channels, to_host_addrs, lookup >>
ssh  == << chans, channel_used_num >>
vars == << fwd, ssh, toClient, sv, nconns, confused, reconnected >>

Status == { "LOCAL", "REMOTE", "CLOSED_LOCAL", "CLOSED_REMOTE_IN" }
Both   == { "LOCAL", "REMOTE" }         \* FWD_BOTH_CONNECTED

(* conn names the connection an entry was made for; the code has no such   *)
(* field.                                                                  *)
EmptySlot == [status |-> {}, request |-> "none", sock |-> "none", addr |-> 0,
              remote |-> NoId, unsent |-> FALSE, conn |-> NoId]
EmptyChan == [used |-> FALSE, local |-> 0, remote_id |-> NoId, conn |-> NoId]
EmptyEnd  == [st |-> "none", cid |-> 0, sentEof |-> FALSE, sentClose |-> FALSE,
              gotEof |-> FALSE]

Message(k, to, sid) == [kind |-> k, to |-> to, sid |-> sid]

(* Arrays that grow by realloc are as long as they can ever get.           *)
Init ==
    /\ slots = [i \in Conns |-> EmptySlot]
    /\ num_channels = [r \in Requests |-> 0]
    /\ to_host_addrs = FALSE /\ lookup = "idle"
    /\ chans = [k \in Conns |-> EmptyChan] /\ channel_used_num = 0
    /\ toClient = << >>
    /\ sv = [s \in Conns |-> EmptyEnd] /\ nconns = 0
    /\ confused = FALSE /\ reconnected = FALSE
-----------------------------------------------------------------------------
(* The server's side (external): what it expects, and what it makes of it. *)

Expected(k, s) ==
    CASE k \in { "CONFIRM", "FAIL" } -> s.st = "opening"
      [] k \in { "DATA", "EOF" }     -> s.st = "open" /\ ~s.gotEof
      [] k = "CLOSE"                 -> s.st = "open"

Placed(k, s, cid) ==
    CASE k = "CONFIRM"           -> [s EXCEPT !.st = "open", !.cid = cid]
      [] k \in { "FAIL", "CLOSE" } -> [s EXCEPT !.st = "done"]
      [] k = "EOF"               -> [s EXCEPT !.gotEof = TRUE]
      [] k = "DATA"              -> s

(* Packets of kind k for the server's channels in S.  A server hangs up    *)
(* when it cannot place a packet.                                          *)
TellAll(k, S, cid) ==
    LET good == { s \in S : s \in Conns /\ Expected(k, sv[s]) }
    IN  /\ sv' = [s \in Conns |-> IF s \in good THEN Placed(k, sv[s], cid)
                                  ELSE sv[s]]
        /\ confused' = (confused \/ good # S)

Tell(k, s, cid) == TellAll(k, { s }, cid)
TellNothing     == UNCHANGED << sv, confused >>
Connected       == ~confused
-----------------------------------------------------------------------------
(* The two arrays.                                                         *)

(* ssh2_local_channel_lookup finds the first of these.                     *)
ChansOf(i) == { k \in Conns : chans[k].used /\ chans[k].local = i }
local_channel_lookup(i) == Min(ChansOf(i))

FreeChan == Min({ k \in Conns : ~chans[k].used })
FreeNum  == Min({ i \in Conns : slots[i].status = {} })

(* A slip of HasRoom: one channel too many.                                *)
HasRoomForOneMore == MaxChannel = 0 \/ channel_used_num <= MaxChannel

(* ssh2_channel_new refuses beyond the limit.                              *)
HasRoom == MaxChannel = 0 \/ channel_used_num + 1 <= MaxChannel

(* A slip of ssh2_channel_new: the channel is not counted.                 *)
ChannelNewUncounted(i, remote, c) ==
    /\ chans' = [chans EXCEPT ![FreeChan] =
                    [used |-> TRUE, local |-> i, remote_id |-> remote,
                     conn |-> c]]
    /\ UNCHANGED channel_used_num

ssh2_channel_new(i, remote, c) ==
    /\ chans' = [chans EXCEPT ![FreeChan] =
                    [used |-> TRUE, local |-> i, remote_id |-> remote,
                     conn |-> c]]
    /\ channel_used_num' = channel_used_num + 1

ssh2_channel_delete(k) ==
    /\ chans' = [chans EXCEPT ![k] = EmptyChan]
    /\ channel_used_num' = channel_used_num - 1

(* FWD_free_channel: its socket goes with what was not sent yet.  A slot   *)
(* that is free already has no request to count down.                      *)
FWD_free_channel(i) ==
    /\ slots' = [slots EXCEPT ![i] = EmptySlot]
    /\ num_channels' =
         [r \in Requests |->
            IF slots[i].request = r THEN num_channels[r] - 1
            ELSE num_channels[r]]

(* alloc_channel *)
NewSlot(i, slot) ==
    /\ slots' = [slots EXCEPT ![i] = slot]
    /\ num_channels' = [num_channels EXCEPT ![slot.request] = @ + 1]

(* FWD_check_local_channel_num *)
InUse(i) == i \in Conns /\ slots[i].status # {}
-----------------------------------------------------------------------------
(* Closing the local side.                                                 *)

(* A key exchange may begin and end between any two events of the sockets, *)
(* so every handler of such an event finds KEX_FLAG_REKEYING set or not;   *)
(* during one no packet of a channel is accepted.                          *)

(* SSH_channel_input_eof: dropped while the keys are exchanged.            *)
ChannelInputEof(i, rekeying) ==
    IF ChansOf(i) = {} \/ rekeying THEN TellNothing
    ELSE Tell("EOF", chans[local_channel_lookup(i)].remote_id, 0)

(* A slip of closed_local_connection: the server is told of a connection   *)
(* that was never completed.                                               *)
ClosedBeforeConnected(i, rekeying) ==
    /\ slots' = [slots EXCEPT ![i].sock = "none",
                              ![i].status = @ \cup { "CLOSED_LOCAL" }]
    /\ ChannelInputEof(i, rekeying)

(* closed_local_connection, for a slot with a socket.                      *)
closed_local_connection(i, rekeying) ==
    IF Both \subseteq slots[i].status
    THEN /\ slots' = [slots EXCEPT ![i].sock = "none",
                                   ![i].status = @ \cup { "CLOSED_LOCAL" }]
         /\ ChannelInputEof(i, rekeying)
    ELSE /\ slots' = [slots EXCEPT ![i].sock = "none"]
         /\ TellNothing
-----------------------------------------------------------------------------
(* A connection at the listening port: accept_local_connection with        *)
(* SSH_open_channel.  During a key exchange the open is dropped and the    *)
(* slot stays; beyond the limit the slot is freed at once.                 *)

LocalSlot(c) == [EmptySlot EXCEPT !.status = { "LOCAL" }, !.request = "L",
                                  !.sock = "open", !.conn = c]

accept_local_connection(rekeying) ==
    /\ Connected /\ nconns < MaxConns
    /\ nconns' = nconns + 1
    /\ \/ /\ rekeying
          /\ NewSlot(FreeNum, LocalSlot(nconns + 1))
          /\ UNCHANGED << ssh, sv >>
       \/ /\ ~rekeying /\ ~HasRoom
          /\ UNCHANGED << slots, num_channels, ssh, sv >>
       \/ /\ ~rekeying /\ HasRoom
          /\ NewSlot(FreeNum, LocalSlot(nconns + 1))
          /\ ssh2_channel_new(FreeNum, NoId, nconns + 1)
          /\ sv' = [sv EXCEPT ![nconns + 1].st = "asked",
                              ![nconns + 1].cid = FreeChan]
    /\ UNCHANGED << to_host_addrs, lookup, toClient,
                    confused, reconnected >>
-----------------------------------------------------------------------------
(* A connection from the server.                                           *)

RemoteSlot(c, a) ==
    [EmptySlot EXCEPT !.status = { "REMOTE" }, !.request = "R", !.remote = c,
                      !.sock = IF a = 0 THEN "none" ELSE "connecting",
                      !.addr = a, !.conn = c]

Arrives(k) ==
    /\ Connected /\ toClient # << >> /\ Head(toClient).kind = k
    /\ toClient' = Tail(toClient)
    /\ UNCHANGED << nconns, reconnected >>

(* handle_SSH2_channel_open, FWD_open, create_local_channel: the slot is   *)
(* made, the lookup started or (with addresses at hand) a connect tried,   *)
(* and only then the Channel_t is made.  A connect that fails at once has  *)
(* freed the slot by then; beyond the limit it is freed (again) and the    *)
(* server gets no answer.                                                  *)
handle_SSH2_channel_open ==
    /\ Arrives("OPEN")
    /\ LET c == Head(toClient).sid
           i == FreeNum
       IN  /\ \/ /\ ~to_host_addrs
                 /\ lookup' = IF lookup = "idle" THEN "running" ELSE lookup
                 /\ IF HasRoom THEN NewSlot(i, RemoteSlot(c, 0))
                    ELSE UNCHANGED << slots, num_channels >>
                 /\ TellNothing
              \/ /\ to_host_addrs
                 /\ UNCHANGED lookup
                 /\ \E a \in 1 .. NAddrs :
                      IF HasRoom THEN NewSlot(i, RemoteSlot(c, a))
                      ELSE UNCHANGED << slots, num_channels >>
                 /\ TellNothing
              \/ /\ to_host_addrs
                 /\ UNCHANGED << lookup, slots, num_channels >>
                 /\ Tell("FAIL", c, 0)
           /\ IF HasRoom THEN ssh2_channel_new(i, c, c) ELSE UNCHANGED ssh
    /\ UNCHANGED to_host_addrs

(* The thread of WSAAsyncGetAddrInfo: it stores the addresses itself, and  *)
(* posts WM_SOCK_GOTNAME.                                                  *)
getaddrinfo_thread ==
    /\ Connected /\ lookup = "running"
    /\ \/ lookup' = "found" /\ to_host_addrs' = TRUE
       \/ lookup' = "failed" /\ UNCHANGED to_host_addrs
    /\ UNCHANGED << slots, num_channels, ssh, toClient, sv, nconns,
                    confused, reconnected >>

(* WM_SOCK_GOTNAME: found_to_host_addr or failed_to_host_addr, for every   *)
(* slot of the request, whatever it is doing.  got gives each the address  *)
(* whose connect is under way, or 0 when all fail (channel_opening_error). *)
GotName ==
    /\ Connected /\ lookup \in { "found", "failed" }
    /\ lookup' = "idle"
    /\ LET R == { i \in Conns : slots[i].request = "R" }
       IN  \E got \in [R -> IF lookup = "found" THEN 0 .. NAddrs ELSE { 0 }] :
             /\ slots' = [i \in Conns |->
                    IF i \notin R THEN slots[i]
                    ELSE IF got[i] = 0 THEN EmptySlot
                    ELSE [slots[i] EXCEPT !.sock = "connecting",
                                          !.addr = got[i]]]
             /\ TellAll("FAIL", { slots[i].remote : i \in { j \in R : got[j] = 0 } }, 0)
             /\ num_channels' = [num_channels EXCEPT
                    !["R"] = Cardinality({ i \in R : got[i] # 0 })]
             /\ reconnected' = (reconnected \/ \E i \in R : slots[i].addr # 0)
    /\ UNCHANGED << to_host_addrs, ssh, toClient, nconns >>

(* FD_CONNECT: connected_local_connection.                                 *)
FdConnect(i) ==
    /\ Connected /\ slots[i].sock = "connecting"
    /\ slots' = [slots EXCEPT ![i].sock = "open",
                              ![i].status = @ \cup { "LOCAL" }]
    /\ IF ChansOf(i) = {} THEN TellNothing
       ELSE LET k == local_channel_lookup(i)
            IN  Tell("CONFIRM", chans[k].remote_id, k)
    /\ UNCHANGED << num_channels, to_host_addrs, lookup, ssh,
                    toClient, nconns, reconnected >>

(* FD_CONNECT with an error: the next address, or channel_opening_error.   *)
(* The Channel_t stays.  (The socket of the failed connect is closed only  *)
(* when there was no other address; sockets of no slot are not modelled.)  *)
FdConnectError(i) ==
    /\ Connected /\ slots[i].sock = "connecting"
    /\ \/ \E a \in slots[i].addr + 1 .. NAddrs :
            /\ slots' = [slots EXCEPT ![i].addr = a]
            /\ UNCHANGED num_channels
            /\ TellNothing
       \/ /\ FWD_free_channel(i)
          /\ Tell("FAIL", slots[i].remote, 0)
    /\ UNCHANGED << to_host_addrs, lookup, ssh, toClient, nconns,
                    reconnected >>
-----------------------------------------------------------------------------
(* The other notifications of the sockets.                                 *)

SocketEvent(i) ==
    /\ Connected /\ slots[i].sock = "open"
    /\ UNCHANGED << to_host_addrs, lookup, ssh, toClient, nconns,
                    reconnected >>

(* FD_READ: read_local_connection, with data to read.                      *)
FdRead(i) ==
    /\ SocketEvent(i)
    /\ Both \subseteq slots[i].status
    /\ UNCHANGED << slots, num_channels >>
    /\ IF ChansOf(i) = {} THEN TellNothing
       ELSE Tell("DATA", chans[local_channel_lookup(i)].remote_id, 0)

(* FD_CLOSE, or any event with an error (channel_error).  The data that    *)
(* FD_CLOSE reads first is that of FdRead.                                 *)
FdClose(i, rekeying) ==
    /\ SocketEvent(i)
    /\ closed_local_connection(i, rekeying)
    /\ UNCHANGED num_channels

(* FD_WRITE: write_local_connection_buffer sends the rest.                 *)
FdWrite(i) ==
    /\ SocketEvent(i)
    /\ Both \subseteq slots[i].status /\ slots[i].unsent
    /\ slots' = [slots EXCEPT ![i].unsent = FALSE]
    /\ UNCHANGED num_channels
    /\ TellNothing
-----------------------------------------------------------------------------
(* The channel packets of the server.                                      *)

Target == Head(toClient).to
Known  == chans[Target].used            \* ssh2_channel_lookup

(* FWD_confirmed_open (reading goes on with FdRead); the application may   *)
(* have closed the socket meanwhile.                                       *)
handle_SSH2_open_confirm ==
    /\ Arrives("CONFIRM")
    /\ IF ~Known THEN UNCHANGED << fwd, chans, sv, confused >>
       ELSE LET i == chans[Target].local
                s == Head(toClient).sid
            IN  /\ chans' = [chans EXCEPT ![Target].remote_id = s]
                /\ UNCHANGED << num_channels, to_host_addrs, lookup >>
                /\ IF ~InUse(i) THEN UNCHANGED slots /\ TellNothing
                   ELSE IF slots[i].sock # "none"
                   THEN /\ slots' = [slots EXCEPT
                                        ![i].status = @ \cup { "REMOTE" }]
                        /\ TellNothing
                   ELSE /\ slots' = [slots EXCEPT
                                        ![i].status = @ \cup { "CLOSED_LOCAL" }]
                        /\ IF { k \in ChansOf(i) : k < Target } = {}
                           THEN Tell("EOF", s, 0)
                           ELSE ChannelInputEof(i, FALSE)
    /\ UNCHANGED channel_used_num

(* FWD_failed_open *)
handle_SSH2_open_failure ==
    /\ Arrives("FAIL")
    /\ IF ~Known THEN UNCHANGED << fwd, ssh >>
       ELSE /\ ssh2_channel_delete(Target)
            /\ UNCHANGED << to_host_addrs, lookup >>
            /\ IF InUse(chans[Target].local)
               THEN FWD_free_channel(chans[Target].local)
               ELSE UNCHANGED << slots, num_channels >>
    /\ TellNothing

(* FWD_received_data: sent at once, kept in the write buffer, or the       *)
(* socket fails.                                                           *)
handle_SSH2_channel_data ==
    /\ Arrives("DATA")
    /\ LET i == chans[Target].local
       IN  IF /\ Known /\ chans[Target].remote_id # NoId
              /\ InUse(i) /\ slots[i].sock # "none"
           THEN \/ /\ \E b \in BOOLEAN :
                        slots' = [slots EXCEPT ![i].unsent = @ \/ b]
                   /\ TellNothing
                \/ closed_local_connection(i, FALSE)
           ELSE UNCHANGED << slots, sv, confused >>
    /\ UNCHANGED << num_channels, to_host_addrs, lookup, ssh >>

(* A slip of handle_SSH2_channel_eof: the EOF frees the channel already.   *)
HandleEofFrees ==
    /\ Arrives("EOF")
    /\ IF ~Known THEN UNCHANGED << fwd, ssh >>
       ELSE /\ FWD_free_channel(chans[Target].local)
            /\ ssh2_channel_delete(Target)
            /\ UNCHANGED << to_host_addrs, lookup >>
    /\ TellNothing

(* FWD_channel_input_eof *)
handle_SSH2_channel_eof ==
    /\ Arrives("EOF")
    /\ LET i == chans[Target].local
       IN  IF Known /\ InUse(i)
           THEN slots' = [slots EXCEPT
                            ![i].status = @ \cup { "CLOSED_REMOTE_IN" }]
           ELSE UNCHANGED slots
    /\ TellNothing
    /\ UNCHANGED << num_channels, to_host_addrs, lookup, ssh >>

(* A slip of handle_SSH2_channel_close: the slot and its socket stay.      *)
HandleCloseKeepsSlot ==
    /\ Arrives("CLOSE")
    /\ IF ~Known THEN UNCHANGED << ssh, sv, confused >>
       ELSE /\ Tell("CLOSE", chans[Target].remote_id, 0)
            /\ ssh2_channel_delete(Target)
    /\ UNCHANGED fwd

(* handle_SSH2_channel_close answers and frees both entries.               *)
handle_SSH2_channel_close ==
    /\ Arrives("CLOSE")
    /\ IF ~Known THEN UNCHANGED << fwd, ssh, sv, confused >>
       ELSE /\ Tell("CLOSE", chans[Target].remote_id, 0)
            /\ FWD_free_channel(chans[Target].local)
            /\ ssh2_channel_delete(Target)
            /\ UNCHANGED << to_host_addrs, lookup >>
-----------------------------------------------------------------------------
(* The server (external).                                                  *)

Send(m) ==
    /\ Connected /\ Len(toClient) < MaxQueue
    /\ toClient' = Append(toClient, m)
    /\ UNCHANGED << fwd, ssh, confused, reconnected >>

SvOpen ==
    /\ nconns < MaxConns
    /\ nconns' = nconns + 1
    /\ sv' = [sv EXCEPT ![nconns + 1].st = "opening"]
    /\ Send(Message("OPEN", 0, nconns + 1))

SvAnswer(s) ==
    /\ sv[s].st = "asked"
    /\ \E k \in { "CONFIRM", "FAIL" } :
         /\ sv' = [sv EXCEPT ![s].st = IF k = "CONFIRM" THEN "open" ELSE "done"]
         /\ Send(Message(k, sv[s].cid, s))
    /\ UNCHANGED nconns

SvSend(s) ==
    /\ sv[s].st = "open" /\ ~sv[s].sentClose
    /\ \/ /\ ~sv[s].sentEof
          /\ UNCHANGED sv
          /\ Send(Message("DATA", sv[s].cid, s))
       \/ /\ ~sv[s].sentEof
          /\ sv' = [sv EXCEPT ![s].sentEof = TRUE]
          /\ Send(Message("EOF", sv[s].cid, s))
       \/ /\ sv' = [sv EXCEPT ![s].sentClose = TRUE]
          /\ Send(Message("CLOSE", sv[s].cid, s))
    /\ UNCHANGED nconns
-----------------------------------------------------------------------------
Sockets == \/ \E rekeying \in BOOLEAN : accept_local_connection(rekeying)
           \/ getaddrinfo_thread \/ GotName
           \/ \E i \in Conns : \/ FdConnect(i) \/ FdConnectError(i)
                               \/ FdRead(i) \/ FdWrite(i)
                               \/ \E rekeying \in BOOLEAN : FdClose(i, rekeying)

Packets == \/ handle_SSH2_channel_open \/ handle_SSH2_open_confirm
           \/ handle_SSH2_open_failure \/ handle_SSH2_channel_data
           \/ handle_SSH2_channel_eof \/ handle_SSH2_channel_close

Server == SvOpen \/ \E s \in Conns : SvAnswer(s) \/ SvSend(s)

Next == Sockets \/ Packets \/ Server

Spec == Init /\ [][Next]_vars
-----------------------------------------------------------------------------
(* Properties.                                                             *)

Slot == [status : SUBSET Status, request : Requests \cup { "none" },
         sock : { "none", "connecting", "open" }, addr : 0 .. NAddrs,
         remote : 0 .. MaxConns, unsent : BOOLEAN, conn : 0 .. MaxConns]
Chan == [used : BOOLEAN, local : 0 .. MaxConns, remote_id : 0 .. MaxConns,
         conn : 0 .. MaxConns]
SvEnd == [st : { "none", "opening", "asked", "open", "done" },
          cid : 0 .. MaxConns, sentEof : BOOLEAN, sentClose : BOOLEAN,
          gotEof : BOOLEAN]
Kinds == { "OPEN", "CONFIRM", "FAIL", "DATA", "EOF", "CLOSE" }

(* Every variable has its type; the counters of channels and connections   *)
(* never go below zero.                                                    *)
TypeOK ==
    /\ slots \in [Conns -> Slot]
    /\ num_channels \in [Requests -> Nat]
    /\ to_host_addrs \in BOOLEAN
    /\ lookup \in { "idle", "running", "found", "failed" }
    /\ chans \in [Conns -> Chan] /\ channel_used_num \in Nat
    /\ toClient \in Seq([kind : Kinds, to : 0 .. MaxConns, sid : Conns])
    /\ sv \in [Conns -> SvEnd] /\ nconns \in 0 .. MaxConns
    /\ confused \in BOOLEAN /\ reconnected \in BOOLEAN

(* The counters the code decides by are right: a request counts its slots  *)
(* (its resources go when the last one goes), and channel_used_num counts  *)
(* the channels in use, within the limit.                                  *)
CountsAreRight ==
    /\ \A r \in Requests :
         num_channels[r] = Cardinality({ i \in Conns : slots[i].request = r })
    /\ channel_used_num = Cardinality({ k \in Conns : chans[k].used })
    /\ MaxChannel # 0 => channel_used_num <= MaxChannel

(* A packet of the server meets the Channel_t it was sent for, although    *)
(* the ids of channels are used again: ssh2_channel_lookup neither fails   *)
(* nor finds a later channel.                                              *)
MessagesMeetTheirChannel ==
    \A n \in 1 .. Len(toClient) :
        LET m == toClient[n]
        IN  m.kind # "OPEN" => chans[m.to].used /\ chans[m.to].conn = m.sid

(* No slot, and no socket in it, outlives the server's end of its          *)
(* connection.                                                             *)
NoSlotOutlivesServer ==
    \A i \in Conns :
        slots[i].status # {} /\ sv[slots[i].conn].st = "done"
            => \E n \in 1 .. Len(toClient) : /\ toClient[n].kind = "FAIL"
                                             /\ toClient[n].sid = slots[i].conn

(* The Channel_t of a slot is the one made for the same connection         *)
(* (ssh.c:468).                                                            *)
LookupIsRight ==
    \A i \in Conns :
        slots[i].status # {} /\ ChansOf(i) # {}
            => chans[local_channel_lookup(i)].conn = slots[i].conn

(* A Channel_t whose slot is gone, left by channel_opening_error.          *)
Stranded == { k \in Conns : /\ chans[k].used
                            /\ slots[chans[k].local].conn # chans[k].conn }

(* As long as no such Channel_t is left and no slot was connected twice,   *)
(* the lookup is right and every packet the client sends reaches a server  *)
(* channel that expects it.                                                *)
SoundUnlessStranded ==
    Stranded = {} /\ ~reconnected => LookupIsRight /\ ~confused

(* What the server has sent reaches the application: a slot is not freed   *)
(* while its socket is open and data for it waits (fwd.c:331).             *)
WritesSurviveClose ==
    [][\A i \in Conns : slots[i].unsent /\ slots[i].sock = "open"
                            => slots'[i].status # {}]_vars
=============================================================================
