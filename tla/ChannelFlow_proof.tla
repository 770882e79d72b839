------------------------- MODULE ChannelFlow_proof -------------------------
(***************************************************************************)
(* Proofs about ChannelFlow, for every size of the read buffer, of the     *)
(* water marks and of the window, and any number of key re-exchanges.      *)
(* A leaf about flags goes to Zenon and a leaf about data to SMT: neither  *)
(* back end is good at both.                                               *)
(***************************************************************************)
EXTENDS ChannelFlow, TLAPS

-----------------------------------------------------------------------------
(* What appending a piece and taking the head do to a queue of pieces.     *)

(* A queue that covers a stretch covers a longer one when the next piece   *)
(* is appended, and the rest of the stretch when its head is taken.        *)
LEMMA CoversAppend ==
    ASSUME NEW Tags, NEW q \in Seq(Piece(Tags)), NEW p \in Piece(Tags),
           NEW lo \in Nat, NEW hi \in Nat, Covers(q, lo, hi), p.pos = hi
    PROVE  Covers(Append(q, p), lo, hi + p.size)
<1> DEFINE r == Append(q, p)
<1>1. /\ Len(r) = Len(q) + 1 /\ r # << >> /\ r[Len(r)] = p
      /\ \A i \in 1 .. Len(q) : r[i] = q[i]
  OBVIOUS
<1>2. \A i \in 1 .. Len(q) : q[i] \in Piece(Tags)
  OBVIOUS
<1>3. r[1].pos = lo
  <2>1. CASE q = << >>
    BY <2>1, <1>1 DEF Covers
  <2>2. CASE q # << >>
    BY <2>2, <1>1 DEF Covers
  <2>3. QED
    BY <2>1, <2>2
<1>4. \A i \in 1 .. Len(r) : lo <= r[i].pos /\ End(r[i]) <= hi + p.size
  BY <1>1, <1>2 DEF Covers, End, Piece
<1>5. \A i, j \in 1 .. Len(r) : i < j => End(r[i]) <= r[j].pos
  <2> SUFFICES ASSUME NEW i \in 1 .. Len(r), NEW j \in 1 .. Len(r), i < j
               PROVE  End(r[i]) <= r[j].pos
    OBVIOUS
  <2>1. i \in 1 .. Len(q) /\ r[i] = q[i]
    BY <1>1
  <2>2. CASE j = Len(r)
    BY <2>1, <2>2, <1>1 DEF Covers
  <2>3. CASE j # Len(r)
    <3>1. j \in 1 .. Len(q) /\ r[j] = q[j]
      BY <2>3, <1>1
    <3>2. QED
      BY <2>1, <3>1 DEF Covers
  <2>4. QED
    BY <2>2, <2>3
<1>6. \A i \in 1 .. Len(r) - 1 : End(r[i]) = r[i + 1].pos
  <2> SUFFICES ASSUME NEW i \in 1 .. Len(q)
               PROVE  End(r[i]) = r[i + 1].pos
    BY <1>1
  <2>1. CASE i = Len(q)
    BY <2>1, <1>1 DEF Covers
  <2>2. CASE i < Len(q)
    BY <2>2, <1>1 DEF Covers
  <2>3. QED
    BY <2>1, <2>2
<1>7. lo <= hi + p.size /\ End(r[Len(r)]) = hi + p.size
  BY <1>1 DEF Covers, End, Piece
<1>8. QED
  BY <1>1, <1>3, <1>4, <1>5, <1>6, <1>7 DEF Covers

(* Without its first piece the stretch starts where that piece ends.       *)
LEMMA CoversTail ==
    ASSUME NEW Tags, NEW q \in Seq(Piece(Tags)), q # << >>,
           NEW lo \in Nat, NEW hi \in Nat, Covers(q, lo, hi)
    PROVE  /\ Head(q) \in Piece(Tags) /\ Head(q).pos = lo
           /\ lo + Head(q).size <= hi
           /\ Tail(q) \in Seq(Piece(Tags))
           /\ Covers(Tail(q), lo + Head(q).size, hi)
<1> DEFINE r == Tail(q)
<1>1. /\ Len(q) \in Nat /\ Len(q) > 0 /\ Len(r) = Len(q) - 1
      /\ \A i \in 1 .. Len(r) : r[i] = q[i + 1]
      /\ Head(q) = q[1] /\ r \in Seq(Piece(Tags))
  OBVIOUS
<1>2. \A i \in 1 .. Len(q) : q[i] \in Piece(Tags)
  OBVIOUS
<1>3. q[1].pos = lo /\ End(q[1]) = lo + q[1].size /\ End(q[1]) <= hi
  BY <1>1, <1>2 DEF Covers, End, Piece
<1>4. \A i \in 1 .. Len(r) : End(q[1]) <= r[i].pos /\ End(r[i]) <= hi
  BY <1>1, <1>2 DEF Covers, End, Piece
<1>5. \A i, j \in 1 .. Len(r) : i < j => End(r[i]) <= r[j].pos
  BY <1>1, <1>2 DEF Covers
<1>6. \A i \in 1 .. Len(r) - 1 : End(r[i]) = r[i + 1].pos
  BY <1>1, <1>2 DEF Covers
<1>7. r = << >> => End(q[1]) = hi
  <2> SUFFICES ASSUME r = << >> PROVE End(q[1]) = hi
    OBVIOUS
  <2>0. Len(<< >>) = 0
    OBVIOUS
  <2>1. Len(q) = 1
    <3> HIDE DEF r
    <3>1. Len(r) = 0
      BY <2>0
    <3>2. QED
      BY <3>1, <1>1
  <2>2. End(q[Len(q)]) = hi
    BY DEF Covers
  <2>3. QED
    BY <2>1, <2>2
<1>8. r # << >> => r[1].pos = End(q[1]) /\ End(r[Len(r)]) = hi
  <2> SUFFICES ASSUME r # << >>
               PROVE  r[1].pos = End(q[1]) /\ End(r[Len(r)]) = hi
    OBVIOUS
  <2>1. Len(r) > 0
    BY <1>1
  <2>2. r[1] = q[2] /\ r[Len(r)] = q[Len(q)] /\ q # << >>
    BY <2>1, <1>1
  <2>3. 1 \in 1 .. Len(q) - 1 /\ 1 + 1 = 2
    BY <2>1, <1>1
  <2>4. End(q[1]) = q[2].pos
    BY <2>3 DEF Covers
  <2>5. QED
    BY <2>2, <2>4 DEF Covers
<1>9. QED
  BY <1>1, <1>2, <1>3, <1>4, <1>5, <1>6, <1>7, <1>8 DEF Covers

(* The pieces that are no bytes stay so.                                   *)
LEMMA OnlyKindAppend ==
    ASSUME NEW Tags, NEW q \in Seq(Piece(Tags)), NEW p \in Piece(Tags), NEW k,
           OnlyKind(q, k), p.kind = k \/ p.size = 0
    PROVE  OnlyKind(Append(q, p), k)
<1>1. /\ Len(Append(q, p)) = Len(q) + 1 /\ Append(q, p)[Len(q) + 1] = p
      /\ \A i \in 1 .. Len(q) : Append(q, p)[i] = q[i]
  OBVIOUS
<1>2. QED
  BY <1>1 DEF OnlyKind

(* So does taking the first piece.                                         *)
LEMMA OnlyKindTail ==
    ASSUME NEW Tags, NEW q \in Seq(Piece(Tags)), q # << >>, NEW k,
           OnlyKind(q, k)
    PROVE  /\ OnlyKind(Tail(q), k)
           /\ Head(q).kind # k => Head(q).size = 0
<1>1. /\ Len(q) > 0 /\ Len(Tail(q)) = Len(q) - 1 /\ Head(q) = q[1]
      /\ \A i \in 1 .. Len(Tail(q)) : Tail(q)[i] = q[i + 1]
  OBVIOUS
<1>2. QED
  BY <1>1 DEF OnlyKind

-----------------------------------------------------------------------------
(* The flags.                                                              *)

(* No handler leaves a flag (armed, suspended, alive ...) without a truth  *)
(* value.                                                                  *)
LEMMA FlagsStep ==
    ASSUME TypeFlags, Next
    PROVE  TypeFlags'
<1> USE DEF TypeFlags, app, winsock, kex, chain, sent, srv
<1>1. CASE App
  <2>1. ASSUME NEW n, AppWrite(n) PROVE TypeFlags'
    BY Zenon, <2>1 DEF AppWrite
  <2>2. ASSUME NEW how, AppHangUp(how) PROVE TypeFlags'
    BY Zenon, <2>2 DEF AppHangUp
  <2>3. QED
    BY Zenon, <1>1, <2>1, <2>2 DEF App
<1>2. CASE HandleFdRead \/ HandleFdClose \/ ReadNothing \/ ReadSkipped
  BY Zenon, <1>2 DEF HandleFdRead, HandleFdClose, ReadNothing, ReadSkipped
<1>3. CASE CloseAfterRead \/ ReadError \/ HandleFdError
  BY Zenon, <1>3 DEF CloseAfterRead, ReadError, HandleFdError,
     ClosedLocalConnection
<1>4. CASE ReadChunk
  <2>1. PICK c : SSH2_send_channel_data(c)
    BY Zenon, <1>4 DEF ReadChunk
  <2>2. suspended' \in BOOLEAN
    BY Zenon, <2>1 DEF SSH2_send_channel_data, AddBufchain
  <2>3. QED
    BY Zenon, <1>4, <2>2 DEF ReadChunk
<1>5. CASE Retry
  BY Zenon, <1>5 DEF Retry, RetrySend, RetryStop, RetryResume, AddBufchain
<1>6. CASE Packets
  <2>1. CASE Unexpected
    BY Zenon, <2>1 DEF Unexpected
  <2>2. CASE handle_SSH2_window_adjust
    BY Zenon, <2>2 DEF handle_SSH2_window_adjust
  <2>3. CASE handle_SSH2_kexinit
    BY Zenon, <2>3 DEF handle_SSH2_kexinit
  <2>4. CASE handle_SSH2_dh_common_reply
    BY Zenon, <2>4 DEF handle_SSH2_dh_common_reply
  <2>5. CASE SSH_notify_host_OK
    BY Zenon, <2>5 DEF SSH_notify_host_OK
  <2>6. CASE handle_SSH2_newkeys
    BY Zenon, <2>6 DEF handle_SSH2_newkeys
  <2>7. QED
    BY Zenon, <1>6, <2>1, <2>2, <2>3, <2>4, <2>5, <2>6 DEF Packets
<1>7. CASE Server
  <2>1. CASE ServerData
    BY Zenon, <2>1 DEF ServerData
  <2>2. CASE ServerEof
    BY Zenon, <2>2 DEF ServerEof
  <2>3. CASE ServerKexinit
    BY Zenon, <2>3 DEF ServerKexinit
  <2>4. CASE ServerNewkeys
    BY Zenon, <2>4 DEF ServerNewkeys
  <2>5. ASSUME NEW n, ServerAdjust(n) PROVE TypeFlags'
    BY Zenon, <2>5 DEF ServerAdjust
  <2>6. CASE ServerRekey
    BY Zenon, <2>6 DEF ServerRekey
  <2>7. QED
    BY Zenon, <1>7, <2>1, <2>2, <2>3, <2>4, <2>5, <2>6 DEF Server
<1>8. QED
  BY Zenon, <1>1, <1>2, <1>3, <1>4, <1>5, <1>6, <1>7 DEF Next, Reader
-----------------------------------------------------------------------------
(* The data.                                                               *)

(* The fields of a packet.                                                 *)
LEMMA PacketType ==
    ASSUME NEW K, NEW k \in K, NEW p \in Nat, NEW n \in Nat
    PROVE  /\ Packet(k, p, n) \in Piece(K)
           /\ Packet(k, p, n).kind = k
           /\ Packet(k, p, n).pos = p
           /\ Packet(k, p, n).size = n
BY DEF Packet, Piece

(* The fields of a chunk of data.                                          *)
LEMMA ChunkType ==
    ASSUME NEW p \in Nat, NEW n \in Nat
    PROVE  /\ Packet("DATA", p, n) \in Piece({ "DATA" })
           /\ Packet("DATA", p, n).pos = p
           /\ Packet("DATA", p, n).size = n
BY DEF Packet, Piece

(* The head of a queue of pieces and the rest.                             *)
LEMMA QueueType ==
    ASSUME NEW K, NEW q \in Seq(Piece(K)), q # << >>
    PROVE  /\ Head(q) \in Piece(K) /\ Head(q).kind \in K
           /\ Head(q).pos \in Nat /\ Head(q).size \in Nat
           /\ Tail(q) \in Seq(Piece(K))
<1>1. Head(q) \in Piece(K)
  OBVIOUS
<1>2. QED
  BY <1>1 DEF Piece

(* What a chunk that is sent, or put into the chain, needs and leaves.     *)
LEMMA SendDataType ==
    ASSUME TypeData, NEW c \in Piece({ "DATA" }), c.size <= remote_window,
           SendData(c)
    PROVE  /\ toServer' \in Seq(Piece(ClientKinds))
           /\ remote_window' \in Nat /\ nsent' \in Nat
<1>1. c.pos \in Nat /\ c.size \in Nat
  BY DEF Piece
<1>2. Packet("DATA", c.pos, c.size) \in Piece(ClientKinds)
  BY <1>1, PacketType DEF ClientKinds
<1>3. /\ toServer \in Seq(Piece(ClientKinds)) /\ remote_window \in Nat /\ nsent \in Nat
      /\ toServer' = Append(toServer, Packet("DATA", c.pos, c.size))
      /\ remote_window' = remote_window - c.size /\ nsent' = nsent + c.size
  BY Zenon DEF TypeData, SendData
<1>4. toServer' \in Seq(Piece(ClientKinds))
  BY <1>2, <1>3
<1>5. remote_window' \in Nat /\ nsent' \in Nat
  BY <1>1, <1>3
<1>6. QED
  BY Zenon, <1>4, <1>5

(* The chunk a recv takes: not empty, and no longer than the buffer.       *)
LEMMA ChunkRead ==
    ASSUME TypeData, ReadChunk
    PROVE  \E n \in 1 .. ReadBuf :
              /\ SSH2_send_channel_data(Packet("DATA", nread, n))
              /\ nread' = nread + n /\ nread + n <= written
              /\ Unread \in Nat /\ n <= Unread
              /\ fdRead' = (fdRead \/ Unread > n) /\ armed' = (Unread = n)
<1> DEFINE n == IF Unread < ReadBuf THEN Unread ELSE ReadBuf
<1>1. Unread \in Nat /\ Unread > 0 /\ nread + Unread = written
  BY DEF TypeData, ReadChunk, Unread
<1>2. n \in 1 .. ReadBuf /\ n <= Unread /\ nread + n <= written
  BY <1>1, FlowAssumption DEF TypeData
<1>3. /\ SSH2_send_channel_data(Packet("DATA", nread, n))
      /\ nread' = nread + n
      /\ fdRead' = (fdRead \/ Unread > n) /\ armed' = (Unread = n)
  BY Zenon DEF ReadChunk
<1> HIDE DEF n
<1>4. QED
  BY Zenon, <1>1, <1>2, <1>3

(* A packet that moves no byte.                                            *)
LEMMA NotePacketType ==
    ASSUME TypeData, NEW k, k \in ClientKinds \/ k \in ServerKinds
    PROVE  /\ k \in ClientKinds =>
                Append(toServer, Packet(k, nsent, 0)) \in Seq(Piece(ClientKinds))
           /\ k \in ServerKinds =>
                Append(toClient, Packet(k, granted, 0)) \in Seq(Piece(ServerKinds))
<1>1. ASSUME k \in ClientKinds
      PROVE  Append(toServer, Packet(k, nsent, 0)) \in Seq(Piece(ClientKinds))
  <2>1. Packet(k, nsent, 0) \in Piece(ClientKinds)
    BY <1>1, PacketType DEF TypeData
  <2>2. QED
    BY <2>1 DEF TypeData
<1>2. ASSUME k \in ServerKinds
      PROVE  Append(toClient, Packet(k, granted, 0)) \in Seq(Piece(ServerKinds))
  <2>1. Packet(k, granted, 0) \in Piece(ServerKinds)
    BY <1>2, PacketType DEF TypeData
  <2>2. QED
    BY <2>1 DEF TypeData
<1>3. QED
  BY <1>1, <1>2

(* read_local_connection and what follows a close keep the types.          *)
LEMMA DataStepRead ==
    ASSUME TypeData, Reader
    PROVE  TypeData'
<1> USE DEF app, winsock, kex, chain, sent, srv
<1>1. CASE HandleFdRead \/ HandleFdClose
  BY <1>1 DEF HandleFdRead, HandleFdClose, TypeData
<1>2. CASE ReadNothing \/ ReadSkipped
  BY <1>2 DEF ReadNothing, ReadSkipped, AfterRead, TypeData
<1>3. CASE CloseAfterRead \/ ReadError \/ HandleFdError
  <2>1. ClosedLocalConnection /\ pc' \in { "idle", pc }
    BY Zenon, <1>3 DEF CloseAfterRead, ReadError, HandleFdError
  <2>2. "EOF" \in ClientKinds
    BY DEF ClientKinds
  <2>3. toServer' \in Seq(Piece(ClientKinds))
    BY <2>1, <2>2, NotePacketType DEF ClosedLocalConnection, TypeData
  <2>4. QED
    BY <2>1, <2>3 DEF ClosedLocalConnection, TypeData
<1>4. CASE ReadChunk
  <2>1. PICK n \in 1 .. ReadBuf :
            /\ SSH2_send_channel_data(Packet("DATA", nread, n))
            /\ nread' = nread + n /\ nread + n <= written
    BY Zenon, <1>4, ChunkRead
  <2> DEFINE c == Packet("DATA", nread, n)
  <2>2. n \in Nat
    BY FlowAssumption
  <2>3. c \in Piece({ "DATA" }) /\ c.size = n
    <3>1. nread \in Nat
      BY DEF TypeData
    <3>2. QED
      BY <2>2, <3>1, ChunkType
  <2> HIDE DEF c
  <2>4. /\ toServer' \in Seq(Piece(ClientKinds))
        /\ remote_window' \in Nat /\ nsent' \in Nat
        /\ bufchain' \in Seq(Piece({ "DATA" })) /\ bufchain_amount' \in Nat
    <3>1. CASE MustQueue(c, FALSE) /\ AddBufchain(c, bufchain, 0)
      BY <2>2, <2>3, <3>1 DEF AddBufchain, TypeData
    <3>2. CASE ~MustQueue(c, FALSE) /\ SendData(c) /\ UNCHANGED chain
      <4>1. c.size <= remote_window
        BY <2>2, <2>3, <3>2 DEF MustQueue, TypeData
      <4>2. QED
        BY <2>3, <3>2, <4>1, SendDataType DEF TypeData
    <3>3. QED
      BY Zenon, <2>1, <3>1, <3>2 DEF SSH2_send_channel_data, c
  <2>5. QED
    BY <1>4, <2>1, <2>2, <2>4 DEF ReadChunk, TypeData
<1>5. QED
  BY Zenon, <1>1, <1>2, <1>3, <1>4 DEF Reader

(* The amount covers the head of the chain: from FlowInv and StreamInv.    *)
LEMMA DataStepRetry ==
    ASSUME TypeData, Retry,
           bufchain # << >> => Head(bufchain).size <= bufchain_amount
    PROVE  TypeData'
<1> USE DEF app, winsock, kex, chain, sent, srv
<1>1. CASE RetryStop \/ RetryResume
  BY <1>1 DEF RetryStop, RetryResume, TypeData
<1>2. CASE RetrySend
  <2> DEFINE c == Head(bufchain)
  <2>1. /\ c \in Piece({ "DATA" }) /\ c.size \in Nat
        /\ Tail(bufchain) \in Seq(Piece({ "DATA" }))
        /\ c.size <= bufchain_amount /\ c.size < remote_window
    BY <1>2, QueueType DEF RetrySend, HeadFits, TypeData
  <2> HIDE DEF c
  <2>2. /\ toServer' \in Seq(Piece(ClientKinds))
        /\ remote_window' \in Nat /\ nsent' \in Nat
        /\ bufchain' \in Seq(Piece({ "DATA" })) /\ bufchain_amount' \in Nat
    <3>1. CASE AddBufchain(c, Tail(bufchain), c.size)
      BY <2>1, <3>1 DEF AddBufchain, TypeData
    <3>2. CASE /\ SendData(c) /\ bufchain' = Tail(bufchain)
               /\ bufchain_amount' = bufchain_amount - c.size
      <4>1. c.size <= remote_window
        BY <2>1 DEF TypeData
      <4>2. QED
        BY <2>1, <3>2, <4>1, SendDataType DEF TypeData
    <3>3. QED
      BY Zenon, <1>2, <3>1, <3>2 DEF RetrySend, c
  <2>3. QED
    BY <1>2, <2>2 DEF RetrySend, TypeData
<1>3. QED
  BY Zenon, <1>1, <1>2 DEF Retry

(* The handlers of the packets of the server keep the types.               *)
LEMMA DataStepPackets ==
    ASSUME TypeData, Packets
    PROVE  TypeData'
<1> USE DEF app, winsock, kex, chain, sent, srv
<1>1. toClient' \in Seq(Piece(ServerKinds))
  <2>1. toClient' = toClient \/ (toClient # << >> /\ toClient' = Tail(toClient))
    BY Zenon DEF Packets, Unexpected, handle_SSH2_window_adjust,
       handle_SSH2_kexinit, handle_SSH2_dh_common_reply, SSH_notify_host_OK,
       handle_SSH2_newkeys, Take
  <2>2. QED
    BY <2>1, QueueType DEF TypeData
<1>2. CASE Unexpected
  BY <1>1, <1>2 DEF Unexpected, TypeData
<1>3. CASE handle_SSH2_window_adjust
  <2>1. Head(toClient).size \in Nat
    BY <1>3, QueueType DEF handle_SSH2_window_adjust, Take, TypeData
  <2>2. QED
    BY <1>1, <1>3, <2>1 DEF handle_SSH2_window_adjust, StartRetry, Take, TypeData
<1>4. CASE handle_SSH2_kexinit
  <2>1. toServer' \in Seq(Piece(ClientKinds))
    BY <1>4, NotePacketType DEF handle_SSH2_kexinit, ClientKinds
  <2>2. kex_status' \in SUBSET KexFlags
    BY <1>4 DEF handle_SSH2_kexinit, TypeData, KexFlags
  <2>3. QED
    BY <1>1, <1>4, <2>1, <2>2 DEF handle_SSH2_kexinit, TypeData
<1>5. ASSUME SendNewkeys(kex_status)
      PROVE  /\ toServer' \in Seq(Piece(ClientKinds))
             /\ kex_status' \in SUBSET KexFlags
             /\ stage' \in { "transfer", "reply", "newkeys" }
  <2>1. toServer' \in Seq(Piece(ClientKinds))
    BY <1>5, NotePacketType DEF SendNewkeys, ClientKinds
  <2>2. kex_status' \in SUBSET KexFlags
    BY <1>5 DEF SendNewkeys, TypeData, KexFlags
  <2>3. QED
    BY <1>5, <2>1, <2>2 DEF SendNewkeys
<1>6. CASE handle_SSH2_dh_common_reply
  <2>1. CASE SendNewkeys(kex_status)
    BY <1>1, <1>5, <1>6, <2>1 DEF handle_SSH2_dh_common_reply, TypeData
  <2>2. CASE stage' = "newkeys" /\ UNCHANGED << kex_status, toServer >>
    BY <1>1, <1>6, <2>2 DEF handle_SSH2_dh_common_reply, TypeData
  <2>3. QED
    BY Zenon, <1>6, <2>1, <2>2 DEF handle_SSH2_dh_common_reply
<1>7. CASE SSH_notify_host_OK
  <2>1. SendNewkeys(kex_status)
    BY Zenon, <1>7 DEF SSH_notify_host_OK
  <2>2. QED
    BY <1>1, <1>5, <1>7, <2>1 DEF SSH_notify_host_OK, TypeData
<1>8. CASE handle_SSH2_newkeys
  <2>1. kex_status' \in SUBSET KexFlags
    BY <1>8 DEF handle_SSH2_newkeys, TypeData, KexFlags
  <2>2. QED
    BY <1>1, <1>8, <2>1 DEF handle_SSH2_newkeys, StartRetry, TypeData
<1>9. QED
  BY Zenon, <1>2, <1>3, <1>4, <1>6, <1>7, <1>8 DEF Packets

(* The server keeps the types of its own state and of the two queues.      *)
LEMMA DataStepServer ==
    ASSUME TypeData, Server
    PROVE  TypeData'
<1> USE DEF app, winsock, kex, chain, sent, srv
<1>1. ASSUME NEW k, ServerTake(k)
      PROVE  /\ toServer' \in Seq(Piece(ClientKinds))
             /\ Head(toServer).size \in Nat
  BY <1>1, QueueType DEF ServerTake, TypeData
<1>2. CASE ServerData
  BY <1>1, <1>2 DEF ServerData, TypeData
<1>3. CASE ServerEof \/ ServerNewkeys
  BY <1>1, <1>3 DEF ServerEof, ServerNewkeys, TypeData
<1>4. CASE ServerKexinit
  <2>1. /\ Packet("REPLY", granted, 0) \in Piece(ServerKinds)
        /\ Packet("NEWKEYS", granted, 0) \in Piece(ServerKinds)
    BY PacketType DEF ServerKinds, TypeData
  <2>2. toClient' \in Seq(Piece(ServerKinds))
    BY <1>4, <2>1 DEF ServerKexinit, TypeData
  <2>3. QED
    BY <1>1, <1>4, <2>2 DEF ServerKexinit, TypeData
<1>5. CASE \E n \in 1 .. InitWindow : ServerAdjust(n)
  <2>1. PICK n \in 1 .. InitWindow : ServerAdjust(n)
    BY Zenon, <1>5
  <2>2. n \in Nat
    BY FlowAssumption
  <2>3. Packet("ADJUST", granted, n) \in Piece(ServerKinds)
    BY <2>2, PacketType DEF ServerKinds, TypeData
  <2>4. QED
    BY <2>1, <2>2, <2>3 DEF ServerAdjust, TypeData
<1>6. CASE ServerRekey
  <2>1. toClient' \in Seq(Piece(ServerKinds))
    BY <1>6, NotePacketType DEF ServerRekey, ServerKinds
  <2>2. rekeys' \in 0 .. MaxRekey
    BY <1>6, FlowAssumption DEF ServerRekey, TypeData
  <2>3. QED
    BY <1>6, <2>1, <2>2 DEF ServerRekey, TypeData
<1>7. QED
  BY Zenon, <1>2, <1>3, <1>4, <1>5, <1>6 DEF Server

(* The application never writes less than it has written.                  *)
LEMMA DataStepApp ==
    ASSUME TypeData, App
    PROVE  TypeData'
<1> USE DEF app, winsock, kex, chain, sent, srv
<1>1. ASSUME NEW n \in 1 .. TotalBytes, AppWrite(n)
      PROVE  TypeData'
  BY <1>1, FlowAssumption DEF AppWrite, TypeData
<1>2. ASSUME NEW how \in { "closed", "reset" }, AppHangUp(how)
      PROVE  TypeData'
  BY <1>2 DEF AppHangUp, TypeData
<1>3. QED
  BY Zenon, <1>1, <1>2 DEF App
-----------------------------------------------------------------------------
(* The two directions as queues of pieces: the backlog continues what was  *)
(* sent, the packets under way continue what the server has, and the       *)
(* grants under way continue the credit the client knows of.               *)

Backlog  == Covers(bufchain, nsent, nread)
OnTheWay == Covers(toServer, got, nsent) /\ OnlyKind(toServer, "DATA")
Credit   == /\ Covers(toClient, nsent + remote_window, granted)
            /\ OnlyKind(toClient, "ADJUST")

StreamInv == Backlog /\ OnTheWay /\ (alive => Credit)

(* A chunk at the end of what was sent, and within the window, is sent.    *)
LEMMA StreamSend ==
    ASSUME TypeData, OnTheWay, NEW c \in Piece({ "DATA" }), c.pos = nsent,
           c.size <= remote_window, SendData(c)
    PROVE  /\ Covers(toServer', got, nsent') /\ OnlyKind(toServer', "DATA")
           /\ nsent' + remote_window' = nsent + remote_window
           /\ nsent' = nsent + c.size
<1> DEFINE p == Packet("DATA", c.pos, c.size)
<1>1. c.pos \in Nat /\ c.size \in Nat
  BY DEF Piece
<1>2. /\ p \in Piece(ClientKinds) /\ p.kind = "DATA" /\ p.pos = nsent
      /\ p.size = c.size
  BY <1>1 DEF Packet, Piece, ClientKinds
<1>3. toServer' = Append(toServer, p)
  BY DEF SendData
<1> HIDE DEF p
<1>4. Covers(toServer', got, nsent + c.size)
  BY <1>2, <1>3, CoversAppend DEF OnTheWay, TypeData
<1>5. OnlyKind(toServer', "DATA")
  BY <1>2, <1>3, OnlyKindAppend DEF OnTheWay, TypeData
<1>6. QED
  BY <1>1, <1>4, <1>5 DEF SendData, TypeData

(* A packet to the server that is no data.                                 *)
LEMMA StreamNote ==
    ASSUME TypeData, OnTheWay, NEW k \in ClientKinds,
           toServer' = Append(toServer, Packet(k, nsent, 0)),
           UNCHANGED << got, nsent >>
    PROVE  OnTheWay'
<1> DEFINE p == Packet(k, nsent, 0)
<1>1. /\ p \in Piece(ClientKinds) /\ p.kind = k /\ p.pos = nsent
      /\ p.size = 0
  BY DEF TypeData, Packet, Piece
<1>2. toServer' = Append(toServer, p)
  OBVIOUS
<1> HIDE DEF p
<1>3. Covers(toServer', got, nsent + 0)
  BY <1>1, <1>2, CoversAppend DEF OnTheWay, TypeData
<1>4. OnlyKind(toServer', "DATA")
  BY <1>1, <1>2, OnlyKindAppend DEF OnTheWay, TypeData
<1>5. QED
  BY <1>3, <1>4 DEF OnTheWay, TypeData

(* A packet to the client: n more bytes of credit, or none.                *)
LEMMA CreditAppend ==
    ASSUME TypeData, NEW q \in Seq(Piece(ServerKinds)), NEW lo \in Nat,
           NEW hi \in Nat, Covers(q, lo, hi), OnlyKind(q, "ADJUST"),
           NEW k \in ServerKinds, NEW n \in Nat, k = "ADJUST" \/ n = 0
    PROVE  /\ Append(q, Packet(k, hi, n)) \in Seq(Piece(ServerKinds))
           /\ Covers(Append(q, Packet(k, hi, n)), lo, hi + n)
           /\ OnlyKind(Append(q, Packet(k, hi, n)), "ADJUST")
<1> DEFINE p == Packet(k, hi, n)
<1>1. /\ p \in Piece(ServerKinds) /\ p.kind = k /\ p.pos = hi
      /\ p.size = n
  BY DEF Packet, Piece
<1> HIDE DEF p
<1>2. Covers(Append(q, p), lo, hi + n)
  BY <1>1, CoversAppend
<1>3. OnlyKind(Append(q, p), "ADJUST")
  BY <1>1, OnlyKindAppend
<1>4. QED
  BY <1>1, <1>2, <1>3 DEF p

(* Reading, queueing and sending a chunk keep the three streams            *)
(* contiguous: the backlog, the bytes on the way and the credit on the     *)
(* way.                                                                    *)
LEMMA StreamReader ==
    ASSUME TypeData, StreamInv, Reader
    PROVE  StreamInv'
<1> USE DEF app, winsock, kex, chain, sent, srv
<1>1. CASE HandleFdRead \/ HandleFdClose \/ ReadNothing \/ ReadSkipped
  BY Zenon, <1>1 DEF HandleFdRead, HandleFdClose, ReadNothing, ReadSkipped,
     StreamInv, Backlog, OnTheWay, Credit
<1>2. CASE CloseAfterRead \/ ReadError \/ HandleFdError
  <2>1. ClosedLocalConnection
    BY Zenon, <1>2 DEF CloseAfterRead, ReadError, HandleFdError
  <2>2. "EOF" \in ClientKinds
    BY DEF ClientKinds
  <2>3. UNCHANGED << bufchain, nsent, nread, got, toClient, remote_window,
                     granted, alive >>
    BY Zenon, <2>1 DEF ClosedLocalConnection
  <2>4. \/ toServer' = toServer
        \/ toServer' = Append(toServer, Packet("EOF", nsent, 0))
    BY Zenon, <2>1 DEF ClosedLocalConnection
  <2>5. OnTheWay'
    BY <2>2, <2>3, <2>4, StreamNote DEF StreamInv, OnTheWay
  <2>6. QED
    BY Zenon, <2>3, <2>5 DEF StreamInv, Backlog, Credit
<1>3. CASE ReadChunk
  <2>1. PICK n \in 1 .. ReadBuf :
            /\ SSH2_send_channel_data(Packet("DATA", nread, n))
            /\ nread' = nread + n
    BY Zenon, <1>3, ChunkRead
  <2> DEFINE c == Packet("DATA", nread, n)
  <2>2. /\ n \in Nat /\ nread \in Nat /\ c \in Piece({ "DATA" })
        /\ c.pos = nread /\ c.size = n
    BY FlowAssumption, ChunkType DEF TypeData
  <2>3. UNCHANGED << got, toClient, granted, alive >>
    BY Zenon, <1>3 DEF ReadChunk
  <2> HIDE DEF c
  <2>4. CASE MustQueue(c, FALSE) /\ AddBufchain(c, bufchain, 0)
    <3>1. Covers(Append(bufchain, c), nsent, nread + n)
      BY <2>2, CoversAppend DEF StreamInv, Backlog, TypeData
    <3>2. /\ bufchain' = Append(bufchain, c)
          /\ UNCHANGED << remote_window, toServer, nsent >>
      BY Zenon, <2>4 DEF AddBufchain
    <3>3. Backlog'
      BY Zenon, <2>1, <3>1, <3>2 DEF Backlog
    <3>4. QED
      BY Zenon, <2>3, <3>2, <3>3 DEF StreamInv, OnTheWay, Credit
  <2>5. CASE ~MustQueue(c, FALSE) /\ SendData(c) /\ UNCHANGED chain
    <3>1. bufchain = << >> /\ bufchain' = bufchain /\ c.size <= remote_window
      BY <2>2, <2>5 DEF MustQueue, TypeData
    <3>2. nsent = nread
      BY <3>1 DEF StreamInv, Backlog, Covers
    <3>3. /\ Covers(toServer', got, nsent') /\ OnlyKind(toServer', "DATA")
          /\ nsent' + remote_window' = nsent + remote_window
          /\ nsent' = nsent + n
      BY <2>2, <2>5, <3>1, <3>2, StreamSend DEF StreamInv
    <3>4. Covers(bufchain', nsent', nread')
      BY <2>1, <2>2, <3>1, <3>2, <3>3 DEF Covers
    <3>5. QED
      BY Zenon, <2>3, <3>3, <3>4 DEF StreamInv, Backlog, OnTheWay, Credit
  <2>6. QED
    BY Zenon, <2>1, <2>4, <2>5 DEF SSH2_send_channel_data, c
<1>4. QED
  BY Zenon, <1>1, <1>2, <1>3 DEF Reader

(* During the retry loop no key exchange runs and the head fits: the chunk *)
(* is sent, never put back at the end of the chain.                        *)
LEMMA RetrySends ==
    ASSUME TypeData, StreamInv, RetrySend, kex_status = { "KEXDONE" }
    PROVE  /\ Head(bufchain) \in Piece({ "DATA" })
           /\ Head(bufchain).pos = nsent /\ Head(bufchain).size \in Nat
           /\ Head(bufchain).size < remote_window
           /\ SendData(Head(bufchain)) /\ bufchain' = Tail(bufchain)
           /\ bufchain_amount' = bufchain_amount - Head(bufchain).size
           /\ suspended' = suspended
           /\ Covers(Tail(bufchain), nsent + Head(bufchain).size, nread)
<1> DEFINE c == Head(bufchain)
<1>1. bufchain # << >> /\ c.size < remote_window
  BY DEF RetrySend, HeadFits
<1>2. /\ c \in Piece({ "DATA" }) /\ c.pos = nsent /\ c.size \in Nat
      /\ Covers(Tail(bufchain), nsent + c.size, nread)
  BY <1>1, CoversTail, QueueType DEF TypeData, StreamInv, Backlog
<1> HIDE DEF c
<1>3. ~MustQueue(c, TRUE)
  BY <1>1, <1>2 DEF MustQueue, Rekeying, TypeData
<1>4. /\ SendData(c) /\ bufchain' = Tail(bufchain)
      /\ bufchain_amount' = bufchain_amount - c.size
      /\ suspended' = suspended
  BY Zenon, <1>3 DEF RetrySend, c
<1>5. QED
  BY <1>1, <1>2, <1>4 DEF c

(* A turn of the retry loop moves the head of the backlog to the wire;     *)
(* outside a key exchange it cannot go back to the tail of the chain.      *)
LEMMA StreamRetry ==
    ASSUME TypeData, StreamInv, Retry, kex_status = { "KEXDONE" }
    PROVE  StreamInv'
<1> USE DEF app, winsock, kex, chain, sent, srv
<1>1. CASE RetryStop \/ RetryResume
  BY Zenon, <1>1 DEF RetryStop, RetryResume, StreamInv, Backlog, OnTheWay,
     Credit
<1>2. CASE RetrySend
  <2> DEFINE c == Head(bufchain)
  <2>1. /\ c \in Piece({ "DATA" }) /\ c.pos = nsent /\ c.size \in Nat
        /\ c.size < remote_window /\ SendData(c) /\ bufchain' = Tail(bufchain)
        /\ Covers(Tail(bufchain), nsent + c.size, nread)
    BY Zenon, <1>2, RetrySends
  <2>2. UNCHANGED << nread, got, toClient, granted, alive >>
    BY Zenon, <1>2 DEF RetrySend
  <2> HIDE DEF c
  <2>3. c.size <= remote_window
    BY <2>1 DEF TypeData
  <2>4. /\ Covers(toServer', got, nsent') /\ OnlyKind(toServer', "DATA")
        /\ nsent' + remote_window' = nsent + remote_window
        /\ nsent' = nsent + c.size
    BY <2>1, <2>3, StreamSend DEF StreamInv
  <2>5. QED
    BY Zenon, <2>1, <2>2, <2>4 DEF StreamInv, Backlog, OnTheWay, Credit
<1>3. QED
  BY Zenon, <1>1, <1>2 DEF Retry

(* The client takes a packet; only an ADJUST carries credit.               *)
LEMMA CreditTake ==
    ASSUME TypeData, StreamInv, NEW k, Take(k)
    PROVE  /\ Head(toClient).size \in Nat
           /\ k # "ADJUST" => Head(toClient).size = 0
           /\ Covers(toClient', nsent + remote_window + Head(toClient).size,
                     granted)
           /\ OnlyKind(toClient', "ADJUST")
<1>1. /\ toClient # << >> /\ alive /\ toClient' = Tail(toClient)
      /\ Head(toClient).kind = k
  BY Zenon DEF Take
<1>2. Credit
  BY Zenon, <1>1 DEF StreamInv
<1>3. nsent + remote_window \in Nat
  BY DEF TypeData
<1>4. QED
  BY <1>1, <1>2, <1>3, CoversTail, OnlyKindTail, QueueType DEF Credit, TypeData

(* A handler of a server packet takes one piece of credit and touches no   *)
(* byte.                                                                   *)
LEMMA StreamPackets ==
    ASSUME TypeData, StreamInv, Packets
    PROVE  StreamInv'
<1> USE DEF app, winsock, kex, chain, sent, srv
<1>1. UNCHANGED << bufchain, nsent, nread, got, granted >>
  BY Zenon DEF Packets, Unexpected, handle_SSH2_window_adjust,
     handle_SSH2_kexinit, handle_SSH2_dh_common_reply, SSH_notify_host_OK,
     handle_SSH2_newkeys
<1>2. Backlog'
  BY Zenon, <1>1 DEF StreamInv, Backlog
<1>3. OnTheWay'
  <2>1. \/ toServer' = toServer
        \/ toServer' = Append(toServer, Packet("KEXINIT", nsent, 0))
        \/ toServer' = Append(toServer, Packet("NEWKEYS", nsent, 0))
    BY Zenon DEF Packets, Unexpected, handle_SSH2_window_adjust,
       handle_SSH2_kexinit, handle_SSH2_dh_common_reply, SSH_notify_host_OK,
       handle_SSH2_newkeys, SendNewkeys
  <2>2. "KEXINIT" \in ClientKinds /\ "NEWKEYS" \in ClientKinds
    BY DEF ClientKinds
  <2>3. CASE toServer' = toServer
    BY Zenon, <1>1, <2>3 DEF StreamInv, OnTheWay
  <2>4. CASE toServer' = Append(toServer, Packet("KEXINIT", nsent, 0))
    BY <1>1, <2>2, <2>4, StreamNote DEF StreamInv
  <2>5. CASE toServer' = Append(toServer, Packet("NEWKEYS", nsent, 0))
    BY <1>1, <2>2, <2>5, StreamNote DEF StreamInv
  <2>6. QED
    BY Zenon, <2>1, <2>3, <2>4, <2>5
<1>4. alive' => Credit'
  <2>1. CASE Unexpected
    BY Zenon, <2>1 DEF Unexpected
  <2>2. CASE SSH_notify_host_OK
    BY Zenon, <2>2 DEF SSH_notify_host_OK, StreamInv, Credit
  <2>3. CASE handle_SSH2_window_adjust
    <3>1. /\ Take("ADJUST") /\ granted' = granted /\ nsent' = nsent
          /\ remote_window' = remote_window + Head(toClient).size
      BY Zenon, <2>3 DEF handle_SSH2_window_adjust
    <3>2. /\ Head(toClient).size \in Nat
          /\ Covers(toClient', nsent + remote_window + Head(toClient).size,
                    granted)
          /\ OnlyKind(toClient', "ADJUST")
      BY <3>1, CreditTake
    <3>3. nsent + remote_window + Head(toClient).size = nsent' + remote_window'
      BY <3>1, <3>2 DEF TypeData
    <3>4. QED
      BY Zenon, <3>1, <3>2, <3>3 DEF Credit
  <2>4. ASSUME NEW k, Take(k), k # "ADJUST", remote_window' = remote_window
        PROVE  Credit'
    <3>1. nsent + remote_window + Head(toClient).size = nsent' + remote_window'
      BY <1>1, <2>4, CreditTake DEF TypeData
    <3>2. QED
      BY Zenon, <1>1, <2>4, <3>1, CreditTake DEF Credit
  <2>5. CASE handle_SSH2_kexinit
    <3>1. Take("KEXINIT") /\ remote_window' = remote_window
      BY Zenon, <2>5 DEF handle_SSH2_kexinit
    <3>2. QED
      BY <2>4, <3>1
  <2>6. CASE handle_SSH2_dh_common_reply
    <3>1. Take("REPLY") /\ remote_window' = remote_window
      BY Zenon, <2>6 DEF handle_SSH2_dh_common_reply
    <3>2. QED
      BY <2>4, <3>1
  <2>7. CASE handle_SSH2_newkeys
    <3>1. Take("NEWKEYS") /\ remote_window' = remote_window
      BY Zenon, <2>7 DEF handle_SSH2_newkeys
    <3>2. QED
      BY <2>4, <3>1
  <2>8. QED
    BY Zenon, <2>1, <2>2, <2>3, <2>5, <2>6, <2>7 DEF Packets
<1>5. QED
  BY Zenon, <1>2, <1>3, <1>4 DEF StreamInv

(* The server takes the next bytes and adds credit at the end.             *)
LEMMA StreamServer ==
    ASSUME TypeData, StreamInv, Server
    PROVE  StreamInv'
<1> USE DEF app, winsock, kex, chain, sent, srv
<1>1. /\ alive /\ Credit /\ OnTheWay /\ Backlog
      /\ UNCHANGED << bufchain, nsent, nread, remote_window, alive >>
  BY Zenon DEF Server, ServerData, ServerEof, ServerKexinit, ServerNewkeys,
     ServerAdjust, ServerRekey, ServerTake, StreamInv
<1>2. nsent + remote_window \in Nat /\ granted \in Nat
  BY DEF TypeData
<1>3. ASSUME NEW k, ServerTake(k)
      PROVE  /\ Head(toServer).size \in Nat
             /\ k # "DATA" => Head(toServer).size = 0
             /\ Covers(toServer', got + Head(toServer).size, nsent)
             /\ OnlyKind(toServer', "DATA")
  BY <1>1, <1>3, CoversTail, OnlyKindTail, QueueType DEF ServerTake, OnTheWay,
     TypeData
<1>4. CASE ServerData
  <2>1. /\ ServerTake("DATA") /\ got' = got + Head(toServer).size
        /\ UNCHANGED << toClient, granted >>
    BY Zenon, <1>4 DEF ServerData
  <2>2. OnTheWay'
    BY Zenon, <1>1, <1>3, <2>1 DEF OnTheWay
  <2>3. QED
    BY Zenon, <1>1, <2>1, <2>2 DEF StreamInv, Backlog, Credit
<1>5. ASSUME NEW k, ServerTake(k), k # "DATA", got' = got
      PROVE  OnTheWay'
  <2>1. got + Head(toServer).size = got'
    BY <1>3, <1>5 DEF TypeData
  <2>2. QED
    BY Zenon, <1>1, <1>3, <1>5, <2>1 DEF OnTheWay
<1>6. CASE ServerEof
  <2>1. ServerTake("EOF") /\ UNCHANGED << got, toClient, granted >>
    BY Zenon, <1>6 DEF ServerEof
  <2>2. OnTheWay'
    BY <1>5, <2>1
  <2>3. QED
    BY Zenon, <1>1, <2>1, <2>2 DEF StreamInv, Backlog, Credit
<1>7. CASE ServerNewkeys
  <2>1. ServerTake("NEWKEYS") /\ UNCHANGED << got, toClient, granted >>
    BY Zenon, <1>7 DEF ServerNewkeys
  <2>2. OnTheWay'
    BY <1>5, <2>1
  <2>3. QED
    BY Zenon, <1>1, <2>1, <2>2 DEF StreamInv, Backlog, Credit
<1>8. CASE ServerKexinit
  <2> DEFINE q == Append(toClient, Packet("REPLY", granted, 0))
  <2>1. /\ ServerTake("KEXINIT") /\ UNCHANGED << got, granted >>
        /\ toClient' = Append(q, Packet("NEWKEYS", granted, 0))
    BY Zenon, <1>8 DEF ServerKexinit
  <2>2. OnTheWay'
    BY <1>5, <2>1
  <2>3. "REPLY" \in ServerKinds /\ "NEWKEYS" \in ServerKinds /\ 0 \in Nat
        /\ granted + 0 = granted
    BY DEF ServerKinds, TypeData
  <2>4. /\ q \in Seq(Piece(ServerKinds))
        /\ Covers(q, nsent + remote_window, granted) /\ OnlyKind(q, "ADJUST")
    BY <1>1, <1>2, <2>3, CreditAppend DEF Credit, TypeData
  <2> HIDE DEF q
  <2>5. /\ Covers(toClient', nsent + remote_window, granted)
        /\ OnlyKind(toClient', "ADJUST")
    BY <1>2, <2>1, <2>3, <2>4, CreditAppend
  <2>6. QED
    BY Zenon, <1>1, <2>1, <2>2, <2>5 DEF StreamInv, Backlog, Credit
<1>9. CASE \E n \in 1 .. InitWindow : ServerAdjust(n)
  <2>1. PICK n \in 1 .. InitWindow : ServerAdjust(n)
    BY Zenon, <1>9
  <2>2. n \in Nat /\ "ADJUST" \in ServerKinds
    BY FlowAssumption DEF ServerKinds
  <2>3. /\ toClient' = Append(toClient, Packet("ADJUST", granted, n))
        /\ granted' = granted + n /\ UNCHANGED << toServer, got >>
    BY Zenon, <2>1 DEF ServerAdjust
  <2>4. /\ Covers(toClient', nsent + remote_window, granted')
        /\ OnlyKind(toClient', "ADJUST")
    BY <1>1, <1>2, <2>2, <2>3, CreditAppend DEF Credit, TypeData
  <2>5. QED
    BY Zenon, <1>1, <2>3, <2>4 DEF StreamInv, Backlog, OnTheWay, Credit
<1>10. CASE ServerRekey
  <2>1. "KEXINIT" \in ServerKinds /\ 0 \in Nat /\ granted + 0 = granted
    BY DEF ServerKinds, TypeData
  <2>2. /\ toClient' = Append(toClient, Packet("KEXINIT", granted, 0))
        /\ UNCHANGED << toServer, got, granted >>
    BY Zenon, <1>10 DEF ServerRekey
  <2>3. /\ Covers(toClient', nsent + remote_window, granted)
        /\ OnlyKind(toClient', "ADJUST")
    BY <1>1, <1>2, <2>1, <2>2, CreditAppend DEF Credit, TypeData
  <2>4. QED
    BY Zenon, <1>1, <2>2, <2>3 DEF StreamInv, Backlog, OnTheWay, Credit
<1>11. QED
  BY Zenon, <1>4, <1>6, <1>7, <1>8, <1>9, <1>10 DEF Server

(* The application does not touch what has been read.                      *)
LEMMA StreamApp ==
    ASSUME StreamInv, App
    PROVE  StreamInv'
<1> USE DEF app, winsock, kex, chain, sent, srv
<1>1. UNCHANGED << bufchain, nsent, nread, toServer, got, toClient,
                   remote_window, granted, alive >>
  BY Zenon DEF App, AppWrite, AppHangUp
<1>2. QED
  BY Zenon, <1>1 DEF StreamInv, Backlog, OnTheWay, Credit
-----------------------------------------------------------------------------
(* The key exchange: what its flags say of the dispatch stage.  A retry    *)
(* loop never runs during a key exchange.                                  *)

KexInv ==
    /\ stage = "transfer" => kex_status = { "KEXDONE" } /\ ~askUser
    /\ stage = "reply" => kex_status = { "REKEYING" } /\ ~askUser
    /\ stage = "newkeys" =>
         \/ /\ askUser
            /\ kex_status \in {{ "REKEYING" }, { "REKEYING", "NEWKEYS_RECEIVED" }}
         \/ ~askUser /\ kex_status = { "REKEYING", "NEWKEYS_SENT" }
    /\ pc = "retry" => stage = "transfer"

(* Facts about the flags of kex_status.                                    *)
LEMMA KexSets ==
    /\ "REKEYING" \notin { "KEXDONE" }
    /\ "NEWKEYS_SENT" \notin { "REKEYING" }
    /\ "NEWKEYS_RECEIVED" \notin { "REKEYING" }
    /\ "NEWKEYS_SENT" \notin { "REKEYING", "NEWKEYS_RECEIVED" }
    /\ "NEWKEYS_RECEIVED" \in { "REKEYING", "NEWKEYS_RECEIVED" }
    /\ { "REKEYING" } \cup { "NEWKEYS_SENT" } = { "REKEYING", "NEWKEYS_SENT" }
    /\ { "REKEYING" } \cup { "NEWKEYS_RECEIVED" }
           = { "REKEYING", "NEWKEYS_RECEIVED" }
    /\ { "REKEYING", "NEWKEYS_RECEIVED" } \cup { "NEWKEYS_RECEIVED" }
           = { "REKEYING", "NEWKEYS_RECEIVED" }
    /\ "NEWKEYS_SENT" \in { "REKEYING", "NEWKEYS_SENT" }
OBVIOUS

(* The dispatch stage, kex_status and the dialog go together, and the      *)
(* retry loop never runs while the keys are exchanged.                     *)
LEMMA KexStep ==
    ASSUME TypeData, KexInv, Next
    PROVE  KexInv'
<1> USE DEF app, winsock, kex, chain, sent, srv
<1>1. CASE App \/ Server
  <2>1. UNCHANGED << kex_status, stage, askUser, pc >>
    BY Zenon, <1>1 DEF App, AppWrite, AppHangUp, Server, ServerData, ServerEof,
       ServerKexinit, ServerNewkeys, ServerAdjust, ServerRekey
  <2>2. QED
    BY Zenon, <2>1 DEF KexInv
<1>2. CASE Reader
  <2>1. /\ UNCHANGED << kex_status, stage, askUser >>
        /\ pc' = pc \/ pc' \in { "idle", "read", "lastread", "close" }
    BY Zenon, <1>2 DEF Reader, HandleFdRead, HandleFdClose, HandleFdError,
       ReadChunk, ReadNothing, ReadSkipped, ReadError, CloseAfterRead, AfterRead,
       ClosedLocalConnection
  <2>2. pc' = "retry" => pc = "retry"
    BY <2>1
  <2>3. QED
    BY Zenon, <2>1, <2>2 DEF KexInv
<1>3. CASE Retry
  <2>1. /\ UNCHANGED << kex_status, stage, askUser >> /\ pc = "retry"
    BY Zenon, <1>3 DEF Retry, RetrySend, RetryStop, RetryResume
  <2>2. QED
    BY Zenon, <2>1 DEF KexInv
<1>4. ASSUME NEW k, Take(k)
      PROVE  k \in Accepted(stage) /\ pc # "retry"
  BY <1>4 DEF Take
<1>5. CASE Unexpected
  <2>1. UNCHANGED << kex_status, stage, askUser, pc >>
    BY Zenon, <1>5 DEF Unexpected
  <2>2. QED
    BY Zenon, <2>1 DEF KexInv
<1>6. CASE handle_SSH2_window_adjust
  <2>1. UNCHANGED << kex_status, stage, askUser >> /\ Take("ADJUST")
    BY Zenon, <1>6 DEF handle_SSH2_window_adjust
  <2>2. stage = "transfer"
    BY <1>4, <2>1 DEF Accepted, TypeData
  <2>3. QED
    BY Zenon, <2>1, <2>2 DEF KexInv
<1>7. CASE handle_SSH2_kexinit
  <2>1. Take("KEXINIT") /\ stage' = "reply" /\ askUser' = askUser /\ pc' = pc
    BY Zenon, <1>7 DEF handle_SSH2_kexinit
  <2>2. stage = "transfer" /\ pc # "retry" /\ stage' \notin { "transfer", "newkeys" }
    BY <1>4, <2>1 DEF Accepted, TypeData
  <2>3. kex_status' = { "REKEYING" }
    BY Zenon, <1>7, <2>2 DEF handle_SSH2_kexinit, KexInv
  <2>4. QED
    BY Zenon, <2>1, <2>2, <2>3 DEF KexInv
<1>8. CASE handle_SSH2_dh_common_reply
  <2>1. /\ Take("REPLY") /\ pc' = pc
        /\ \/ SendNewkeys(kex_status) /\ askUser' = askUser
           \/ askUser' = TRUE /\ stage' = "newkeys" /\ kex_status' = kex_status
    BY Zenon, <1>8 DEF handle_SSH2_dh_common_reply
  <2>2. stage = "reply" /\ pc # "retry"
    BY <1>4, <2>1 DEF Accepted, TypeData
  <2>3. kex_status = { "REKEYING" } /\ ~askUser
    BY Zenon, <2>2 DEF KexInv
  <2>4. stage' = "newkeys"
    BY Zenon, <2>1, <2>3, KexSets DEF SendNewkeys
  <2>5. stage' \notin { "transfer", "reply" } /\ pc' # "retry"
    BY <2>1, <2>2, <2>4
  <2>6. CASE SendNewkeys(kex_status) /\ askUser' = askUser
    <3>1. kex_status' = { "REKEYING", "NEWKEYS_SENT" }
      BY Zenon, <2>3, <2>6, KexSets DEF SendNewkeys
    <3>2. QED
      BY Zenon, <2>3, <2>5, <2>6, <3>1 DEF KexInv
  <2>7. CASE askUser' = TRUE /\ kex_status' = kex_status
    BY Zenon, <2>3, <2>5, <2>7 DEF KexInv
  <2>8. QED
    BY Zenon, <2>1, <2>6, <2>7
<1>9. CASE SSH_notify_host_OK
  <2>1. askUser /\ askUser' = FALSE /\ SendNewkeys(kex_status) /\ pc = "idle"
        /\ pc' = pc
    BY Zenon, <1>9 DEF SSH_notify_host_OK
  <2>2. stage = "newkeys"
    BY Zenon, <2>1 DEF KexInv, TypeData
  <2>3. kex_status \in {{ "REKEYING" }, { "REKEYING", "NEWKEYS_RECEIVED" }}
    BY Zenon, <2>1, <2>2 DEF KexInv
  <2>4. pc' # "retry"
    BY <2>1
  <2>5. CASE kex_status = { "REKEYING" }
    <3>1. kex_status' = { "REKEYING", "NEWKEYS_SENT" } /\ stage' = "newkeys"
      BY Zenon, <2>1, <2>5, KexSets DEF SendNewkeys
    <3>2. stage' \notin { "transfer", "reply" }
      BY <3>1
    <3>3. QED
      BY Zenon, <2>1, <2>4, <3>1, <3>2 DEF KexInv
  <2>6. CASE kex_status = { "REKEYING", "NEWKEYS_RECEIVED" }
    <3>1. kex_status' = { "KEXDONE" } /\ stage' = "transfer"
      BY Zenon, <2>1, <2>6, KexSets DEF SendNewkeys
    <3>2. stage' \notin { "newkeys", "reply" }
      BY <3>1
    <3>3. QED
      BY Zenon, <2>1, <2>4, <3>1, <3>2 DEF KexInv
  <2>7. QED
    BY Zenon, <2>3, <2>5, <2>6
<1>10. CASE handle_SSH2_newkeys
  <2>1. Take("NEWKEYS") /\ askUser' = askUser
    BY Zenon, <1>10 DEF handle_SSH2_newkeys
  <2>2. stage = "newkeys" /\ pc # "retry"
    BY <1>4, <2>1 DEF Accepted, TypeData
  <2>3. CASE askUser /\ kex_status \in {{ "REKEYING" }, { "REKEYING", "NEWKEYS_RECEIVED" }}
    <3>1. /\ kex_status' = { "REKEYING", "NEWKEYS_RECEIVED" }
          /\ stage' = stage /\ pc' = pc
      BY Zenon, <1>10, <2>3, KexSets DEF handle_SSH2_newkeys
    <3>2. stage' \notin { "transfer", "reply" } /\ pc' # "retry"
      BY <2>2, <3>1
    <3>3. QED
      BY Zenon, <2>1, <2>3, <3>1, <3>2 DEF KexInv
  <2>4. CASE ~askUser /\ kex_status = { "REKEYING", "NEWKEYS_SENT" }
    <3>1. kex_status' = { "KEXDONE" } /\ stage' = "transfer"
      BY Zenon, <1>10, <2>4, KexSets DEF handle_SSH2_newkeys
    <3>2. stage' \notin { "newkeys", "reply" }
      BY <3>1
    <3>3. QED
      BY Zenon, <2>1, <2>4, <3>1, <3>2 DEF KexInv
  <2>5. QED
    BY Zenon, <2>2, <2>3, <2>4 DEF KexInv
<1>11. QED
  BY Zenon, <1>1, <1>2, <1>3, <1>5, <1>6, <1>7, <1>8, <1>9, <1>10
     DEF Next, Packets
-----------------------------------------------------------------------------
(* The backlog: counted by bufchain_amount, below the high-water mark      *)
(* while the reading goes on, and never more than one chunk above it.      *)

FlowInv ==
    /\ AmountIsBacklog
    /\ ~suspended => bufchain_amount < HighWater
    /\ BacklogBounded

(* FlowInv depends on four variables only.                                 *)
LEMMA FlowFrame ==
    ASSUME FlowInv,
           UNCHANGED << nread, nsent, bufchain_amount, suspended >>
    PROVE  FlowInv'
BY Zenon DEF FlowInv, AmountIsBacklog, BacklogBounded

(* A chunk just read adds to the backlog what it adds to the amount, and   *)
(* reading goes on only below the high-water mark.                         *)
LEMMA FlowChunk ==
    ASSUME TypeData, StreamInv, FlowInv, ReadChunk
    PROVE  FlowInv'
<1>1. PICK n \in 1 .. ReadBuf :
          /\ SSH2_send_channel_data(Packet("DATA", nread, n))
          /\ nread' = nread + n
  BY Zenon, ChunkRead
<1> DEFINE c == Packet("DATA", nread, n)
<1>2. /\ n \in Nat /\ n <= ReadBuf /\ nread \in Nat /\ c.size = n
      /\ c \in Piece({ "DATA" })
  BY FlowAssumption, ChunkType DEF TypeData
<1>3. bufchain_amount < HighWater
  BY Zenon DEF ReadChunk, FlowInv
<1> HIDE DEF c
<1>4. CASE AddBufchain(c, bufchain, 0)
  <2>1. bufchain_amount' = bufchain_amount + n /\ nsent' = nsent
    BY <1>2, <1>4 DEF AddBufchain, sent, TypeData
  <2>2. ~suspended' => ~(bufchain_amount + n >= HighWater)
    BY Zenon, <1>2, <1>4 DEF AddBufchain
  <2>3. AmountIsBacklog' /\ BacklogBounded'
    BY <1>1, <1>2, <1>3, <2>1, FlowAssumption
       DEF FlowInv, AmountIsBacklog, BacklogBounded, TypeData
  <2>4. ~(bufchain_amount + n >= HighWater) => bufchain_amount' < HighWater
    BY <1>2, <2>1, FlowAssumption DEF TypeData
  <2>5. QED
    BY Zenon, <2>2, <2>3, <2>4 DEF FlowInv
<1>5. CASE SendData(c) /\ UNCHANGED chain
  <2>1. /\ nsent' = nsent + n /\ bufchain_amount' = bufchain_amount
        /\ suspended' = suspended
    BY Zenon, <1>2, <1>5 DEF SendData, chain
  <2>2. AmountIsBacklog'
    BY <1>1, <1>2, <2>1 DEF FlowInv, AmountIsBacklog, TypeData
  <2>3. QED
    BY Zenon, <2>1, <2>2 DEF FlowInv, BacklogBounded
<1>6. QED
  BY Zenon, <1>1, <1>4, <1>5 DEF SSH2_send_channel_data, c

(* Every step keeps the amount equal to the backlog, and the bound.        *)
LEMMA FlowStep ==
    ASSUME TypeData, StreamInv, KexInv, FlowInv, Next
    PROVE  FlowInv'
<1> USE DEF app, winsock, kex, chain, sent, srv
<1>1. CASE App \/ Packets \/ Server
  <2>1. UNCHANGED << nread, nsent, bufchain_amount, suspended >>
    BY Zenon, <1>1 DEF App, AppWrite, AppHangUp, Server, ServerData, ServerEof,
       ServerKexinit, ServerNewkeys, ServerAdjust, ServerRekey, Packets,
       Unexpected, handle_SSH2_window_adjust, handle_SSH2_kexinit,
       handle_SSH2_dh_common_reply, SSH_notify_host_OK, handle_SSH2_newkeys
  <2>2. QED
    BY <2>1, FlowFrame
<1>2. CASE Reader /\ ~ReadChunk
  <2>1. UNCHANGED << nread, nsent, bufchain_amount, suspended >>
    BY Zenon, <1>2 DEF Reader, HandleFdRead, HandleFdClose, HandleFdError,
       ReadNothing, ReadSkipped, ReadError, CloseAfterRead,
       ClosedLocalConnection
  <2>2. QED
    BY <2>1, FlowFrame
<1>3. CASE RetryStop
  <2>1. UNCHANGED << nread, nsent, bufchain_amount, suspended >>
    BY Zenon, <1>3 DEF RetryStop
  <2>2. QED
    BY <2>1, FlowFrame
<1>4. CASE RetryResume
  <2>1. bufchain = << >> /\ UNCHANGED << nread, nsent, bufchain_amount >>
    BY Zenon, <1>4 DEF RetryResume
  <2>2. bufchain_amount = 0
    BY <2>1 DEF StreamInv, Backlog, Covers, FlowInv, AmountIsBacklog, TypeData
  <2>3. bufchain_amount' < HighWater
    BY <2>1, <2>2, FlowAssumption
  <2>4. QED
    BY Zenon, <2>1, <2>3 DEF FlowInv, AmountIsBacklog, BacklogBounded
<1>5. CASE RetrySend
  <2>1. kex_status = { "KEXDONE" }
    BY Zenon, <1>5 DEF RetrySend, KexInv
  <2> DEFINE c == Head(bufchain)
  <2>2. /\ c.size \in Nat /\ SendData(c) /\ suspended' = suspended
        /\ bufchain_amount' = bufchain_amount - c.size
        /\ Covers(Tail(bufchain), nsent + c.size, nread)
    BY Zenon, <1>5, <2>1, RetrySends
  <2>3. nread' = nread /\ nsent' = nsent + c.size
    BY Zenon, <1>5, <2>2 DEF RetrySend, SendData
  <2>4. nsent + c.size <= nread
    BY Zenon, <2>2 DEF Covers
  <2> DEFINE n == c.size
  <2> HIDE DEF n, c
  <2>5. /\ AmountIsBacklog' /\ bufchain_amount' <= bufchain_amount
        /\ bufchain_amount' \in Nat
    <3>1. n \in Nat /\ bufchain_amount' = bufchain_amount - n
      BY Zenon, <2>2 DEF n
    <3>2. nread' = nread /\ nsent' = nsent + n /\ nsent + n <= nread
      BY Zenon, <2>3, <2>4 DEF n
    <3>3. bufchain_amount = nread - nsent
      BY Zenon DEF FlowInv, AmountIsBacklog
    <3>4. QED
      BY <3>1, <3>2, <3>3 DEF AmountIsBacklog, TypeData
  <2>6. BacklogBounded'
    BY <2>5, FlowAssumption DEF FlowInv, BacklogBounded, TypeData
  <2>7. bufchain_amount < HighWater => bufchain_amount' < HighWater
    BY <2>5, FlowAssumption DEF TypeData
  <2>8. QED
    BY Zenon, <2>2, <2>5, <2>6, <2>7 DEF FlowInv
<1>6. QED
  BY Zenon, <1>1, <1>2, <1>3, <1>4, <1>5, FlowChunk DEF Next, Reader, Retry
-----------------------------------------------------------------------------
(* Winsock: something will look at the socket again.                       *)

WakeInv ==
    socketOpen => \/ armed /\ Unread = 0
                  \/ fdRead
                  \/ suspended
                  \/ pc \in { "read", "lastread", "close" }

(* What a step must leave alone for WakeInv to survive it.                 *)
LEMMA WakeFrame ==
    ASSUME WakeInv, UNCHANGED << armed, written, nread >>, fdRead => fdRead',
           suspended => suspended', socketOpen' => socketOpen,
           pc \in { "read", "lastread", "close" }
              => pc' \in { "read", "lastread", "close" }
    PROVE  WakeInv'
BY Zenon DEF WakeInv, Unread

(* Every step that takes an FD_READ away, or suspends the reading, leaves  *)
(* another way for the waiting data.                                       *)
LEMMA WakeStep ==
    ASSUME TypeData, FlowInv, WakeInv, Next
    PROVE  WakeInv'
<1> USE DEF app, winsock, kex, chain, sent, srv
<1>1. ASSUME NEW n \in 1 .. TotalBytes, AppWrite(n)
      PROVE  WakeInv'
  <2>1. /\ fdRead' = (fdRead \/ (armed /\ socketOpen))
        /\ UNCHANGED << pc, suspended, socketOpen >>
    BY Zenon, <1>1 DEF AppWrite
  <2>2. QED
    BY Zenon, <2>1 DEF WakeInv
<1>2. CASE \E how \in { "closed", "reset" } : AppHangUp(how)
  <2>1. UNCHANGED << armed, written, nread, fdRead, suspended, socketOpen, pc >>
    BY Zenon, <1>2 DEF AppHangUp
  <2>2. QED
    BY Zenon, <2>1, WakeFrame
<1>3. CASE HandleFdRead \/ HandleFdClose
  <2>1. pc' \in { "read", "lastread", "close" }
    BY <1>3 DEF HandleFdRead, HandleFdClose
  <2>2. QED
    BY Zenon, <2>1 DEF WakeInv
<1>4. CASE ReadChunk
  <2>1. pc' \in { "read", "lastread", "close" }
    BY <1>4 DEF ReadChunk
  <2>2. QED
    BY Zenon, <2>1 DEF WakeInv
<1>5. CASE ReadNothing
  <2>1. armed' = TRUE /\ Unread = 0 /\ UNCHANGED << written, nread >>
    BY Zenon, <1>5 DEF ReadNothing
  <2>2. QED
    BY Zenon, <2>1 DEF WakeInv, Unread
<1>6. CASE ReadSkipped
  BY Zenon, <1>6 DEF ReadSkipped, WakeInv
<1>7. CASE CloseAfterRead \/ ReadError \/ HandleFdError
  BY Zenon, <1>7 DEF CloseAfterRead, ReadError, HandleFdError,
     ClosedLocalConnection, WakeInv
<1>8. CASE RetrySend
  <2> DEFINE c == Head(bufchain)
  <2>1. /\ UNCHANGED << armed, written, nread, fdRead, socketOpen, pc >>
        /\ \/ AddBufchain(c, Tail(bufchain), c.size)
           \/ suspended' = suspended
    BY Zenon, <1>8 DEF RetrySend
  <2> HIDE DEF c
  <2>2. suspended => suspended'
    BY Zenon, <2>1 DEF AddBufchain
  <2>3. QED
    BY Zenon, <2>1, <2>2, WakeFrame
<1>9. CASE RetryStop
  <2>1. pc \notin { "read", "lastread", "close" }
    BY <1>9 DEF RetryStop
  <2>2. UNCHANGED << armed, written, nread, fdRead, suspended, socketOpen >>
    BY Zenon, <1>9 DEF RetryStop
  <2>3. QED
    BY Zenon, <2>1, <2>2, WakeFrame
<1>10. CASE RetryResume
  <2>1. pc \notin { "read", "lastread", "close" }
    BY <1>10 DEF RetryResume
  <2>2. QED
    <3>1. /\ UNCHANGED << armed, written, nread, socketOpen >>
          /\ \/ fdRead' = (fdRead \/ socketOpen)
             \/ UNCHANGED << suspended, fdRead >>
      BY Zenon, <1>10 DEF RetryResume
    <3>2. QED
      BY Zenon, <2>1, <3>1 DEF WakeInv, Unread
<1>11. CASE Packets
  <2>1. /\ UNCHANGED << armed, written, nread, fdRead, suspended, socketOpen >>
        /\ pc' = pc \/ pc = "idle"
    BY Zenon, <1>11 DEF Packets, Unexpected, handle_SSH2_window_adjust,
       handle_SSH2_kexinit, handle_SSH2_dh_common_reply, SSH_notify_host_OK,
       handle_SSH2_newkeys, Take
  <2>2. pc \in { "read", "lastread", "close" }
           => pc' \in { "read", "lastread", "close" }
    BY <2>1
  <2>3. QED
    BY Zenon, <2>1, <2>2, WakeFrame
<1>12. CASE Server
  <2>1. UNCHANGED << armed, written, nread, fdRead, suspended, socketOpen, pc >>
    BY Zenon, <1>12 DEF Server, ServerData, ServerEof, ServerKexinit,
       ServerNewkeys, ServerAdjust, ServerRekey
  <2>2. QED
    BY Zenon, <2>1, WakeFrame
<1>13. QED
  BY Zenon, <1>1, <1>2, <1>3, <1>4, <1>5, <1>6, <1>7, <1>8, <1>9, <1>10,
     <1>11, <1>12 DEF Next, App, Reader, Retry
-----------------------------------------------------------------------------
(* The wire: channel packets stay out of the key exchange.  Unless the     *)
(* client owes its NEWKEYS, nothing on the wire puts the next packet there.*)

NoNewkeysOwed == "KEXDONE" \in kex_status \/ "NEWKEYS_SENT" \in kex_status

WireInv ==
    /\ NoDataInKex
    /\ NoNewkeysOwed => ~InKex(toServer, srvKexOpen, Len(toServer) + 1)

(* Appending a packet moves no earlier packet into a key exchange.         *)
LEMMA KexAppend ==
    ASSUME NEW K, NEW q \in Seq(Piece(K)), NEW p \in Piece(K), NEW open
    PROVE  /\ Len(Append(q, p)) = Len(q) + 1 /\ Append(q, p)[Len(q) + 1] = p
           /\ \A j \in 1 .. Len(q) : Append(q, p)[j] = q[j]
           /\ \A j \in 1 .. Len(q) + 1 :
                InKex(Append(q, p), open, j) => InKex(q, open, j)
           /\ p.kind = "NEWKEYS" => ~InKex(Append(q, p), open, Len(q) + 2)
           /\ p.kind # "KEXINIT" /\ InKex(Append(q, p), open, Len(q) + 2)
                => InKex(q, open, Len(q) + 1)
<1> DEFINE r == Append(q, p)
<1>1. /\ Len(q) \in Nat /\ Len(r) = Len(q) + 1 /\ r[Len(q) + 1] = p
      /\ \A j \in 1 .. Len(q) : r[j] = q[j]
  OBVIOUS
<1> HIDE DEF r
<1>2. ASSUME NEW a \in Nat, a > 0, NEW b \in Nat, b <= Len(q),
             NewkeysWithin(q, a, b)
      PROVE  NewkeysWithin(r, a, b)
  BY <1>1, <1>2 DEF NewkeysWithin
<1>3. ASSUME NEW j \in 1 .. Len(q) + 1, InKex(r, open, j)
      PROVE  InKex(q, open, j)
  <2>1. j \in Nat /\ j - 1 \in Nat /\ j - 1 <= Len(q) /\ 1 \in Nat /\ 1 > 0
    BY <1>1
  <2>2. CASE open /\ ~NewkeysWithin(r, 1, j - 1)
    BY Zenon, <1>2, <2>1, <2>2 DEF InKex
  <2>3. ASSUME NEW i \in 1 .. j - 1, r[i].kind = "KEXINIT",
               ~NewkeysWithin(r, i + 1, j - 1)
        PROVE  InKex(q, open, j)
    <3>1. i + 1 \in Nat /\ i + 1 > 0 /\ i \in 1 .. Len(q)
      BY <1>1
    <3>2. q[i].kind = "KEXINIT" /\ ~NewkeysWithin(q, i + 1, j - 1)
      BY Zenon, <1>1, <1>2, <2>1, <2>3, <3>1
    <3>3. QED
      BY Zenon, <3>2 DEF InKex
  <2>4. QED
    BY Zenon, <1>3, <2>2, <2>3 DEF InKex
<1>4. Len(q) + 1 = (Len(q) + 2) - 1
  BY <1>1
<1>5. ASSUME p.kind = "NEWKEYS" PROVE ~InKex(r, open, Len(q) + 2)
  <2>1. ASSUME NEW a \in 1 .. Len(q) + 1
        PROVE  NewkeysWithin(r, a, Len(q) + 1)
    BY <1>1, <1>5 DEF NewkeysWithin
  <2>2. 1 \in 1 .. Len(q) + 1
    BY <1>1
  <2>3. ASSUME NEW i \in 1 .. Len(q) + 1, r[i].kind = "KEXINIT"
        PROVE  NewkeysWithin(r, i + 1, Len(q) + 1)
    <3>1. i # Len(q) + 1
      BY <1>1, <1>5, <2>3
    <3>2. i + 1 \in 1 .. Len(q) + 1
      BY <1>1, <3>1
    <3>3. QED
      BY <2>1, <3>2
  <2>4. QED
    BY Zenon, <1>4, <2>1, <2>2, <2>3 DEF InKex
<1>6. ASSUME p.kind # "KEXINIT", InKex(r, open, Len(q) + 2)
      PROVE  InKex(q, open, Len(q) + 1)
  <2>0. /\ Len(q) = (Len(q) + 1) - 1
        /\ \A a \in Nat : NewkeysWithin(r, a, Len(q)) =>
                            NewkeysWithin(r, a, Len(q) + 1)
    BY <1>1 DEF NewkeysWithin
  <2>1. CASE open /\ ~NewkeysWithin(r, 1, Len(q) + 1)
    <3>1. ~NewkeysWithin(r, 1, Len(q))
      BY <2>0, <2>1
    <3>2. ~NewkeysWithin(q, 1, Len(q))
      BY <1>1, <1>2, <3>1
    <3>3. QED
      BY Zenon, <2>0, <2>1, <3>2 DEF InKex
  <2>2. ASSUME NEW i \in 1 .. Len(q) + 1, r[i].kind = "KEXINIT",
               ~NewkeysWithin(r, i + 1, Len(q) + 1)
        PROVE  InKex(q, open, Len(q) + 1)
    <3>1. i # Len(q) + 1
      BY <1>1, <1>6, <2>2
    <3>2. i \in 1 .. Len(q) /\ i + 1 \in Nat /\ i + 1 > 0 /\ Len(q) <= Len(q)
      BY <1>1, <3>1
    <3>3. ~NewkeysWithin(q, i + 1, Len(q)) /\ q[i].kind = "KEXINIT"
      BY <1>1, <1>2, <2>0, <2>2, <3>2
    <3>4. QED
      BY Zenon, <2>0, <3>2, <3>3 DEF InKex
  <2>3. QED
    BY Zenon, <1>4, <1>6, <2>1, <2>2 DEF InKex
<1>7. QED
  BY Zenon, <1>1, <1>3, <1>5, <1>6 DEF r

(* Nor does taking the first packet, when the receiver notes a KEXINIT.    *)
LEMMA KexTail ==
    ASSUME NEW K, NEW q \in Seq(Piece(K)), q # << >>, NEW open, NEW opened,
           opened => \/ Head(q).kind = "KEXINIT"
                     \/ open /\ Head(q).kind # "NEWKEYS"
    PROVE  /\ Len(Tail(q)) = Len(q) - 1 /\ Len(q) \in Nat
           /\ \A j \in 1 .. Len(Tail(q)) : Tail(q)[j] = q[j + 1]
           /\ \A j \in 1 .. Len(q) :
                InKex(Tail(q), opened, j) => InKex(q, open, j + 1)
<1> DEFINE r == Tail(q)
<1>1. /\ Len(q) \in Nat /\ Len(q) > 0 /\ Len(r) = Len(q) - 1
      /\ Head(q) = q[1] /\ \A j \in 1 .. Len(r) : r[j] = q[j + 1]
  OBVIOUS
<1> HIDE DEF r
<1>2. ASSUME NEW a \in Nat, a > 0, NEW b \in Nat, b < Len(q),
             NewkeysWithin(q, a + 1, b + 1)
      PROVE  NewkeysWithin(r, a, b)
  <2>1. PICK k \in a + 1 .. b + 1 : q[k].kind = "NEWKEYS"
    BY <1>2 DEF NewkeysWithin
  <2>2. k - 1 \in 1 .. Len(r) /\ k - 1 \in a .. b /\ (k - 1) + 1 = k
    BY <1>1, <1>2
  <2>3. r[k - 1].kind = "NEWKEYS"
    BY <1>1, <2>1, <2>2
  <2>4. QED
    BY <2>2, <2>3 DEF NewkeysWithin
<1>3. ASSUME NEW j \in 1 .. Len(q), InKex(r, opened, j)
      PROVE  InKex(q, open, j + 1)
  <2>1. /\ j - 1 \in Nat /\ j - 1 < Len(q) /\ (j - 1) + 1 = j
        /\ (j + 1) - 1 = j /\ 1 + 1 = 2 /\ 1 \in 1 .. j
        /\ 1 \in Nat /\ 1 > 0
    BY <1>1
  <2>2. CASE opened /\ ~NewkeysWithin(r, 1, j - 1)
    <3>1. ~NewkeysWithin(q, 2, j)
      BY <1>2, <2>1, <2>2
    <3>2. CASE q[1].kind = "KEXINIT"
      BY Zenon, <2>1, <3>1, <3>2 DEF InKex
    <3>3. CASE open /\ q[1].kind # "NEWKEYS"
      <4>1. ~NewkeysWithin(q, 1, j)
        BY <3>1, <3>3 DEF NewkeysWithin
      <4>2. QED
        BY Zenon, <2>1, <3>3, <4>1 DEF InKex
    <3>4. QED
      BY Zenon, <1>1, <2>2, <3>2, <3>3
  <2>3. ASSUME NEW i \in 1 .. j - 1, r[i].kind = "KEXINIT",
               ~NewkeysWithin(r, i + 1, j - 1)
        PROVE  InKex(q, open, j + 1)
    <3>1. i + 1 \in Nat /\ i + 1 > 0 /\ i \in 1 .. Len(r) /\ i + 1 \in 1 .. j
      BY <1>1
    <3>2. q[i + 1].kind = "KEXINIT"
      BY <1>1, <2>3, <3>1
    <3>3. ~NewkeysWithin(q, (i + 1) + 1, j)
      BY <1>2, <2>1, <2>3, <3>1
    <3>4. QED
      BY Zenon, <2>1, <3>1, <3>2, <3>3 DEF InKex
  <2>4. QED
    BY Zenon, <1>3, <2>2, <2>3 DEF InKex
<1>4. QED
  BY Zenon, <1>1, <1>3 DEF r

(* WireInv depends on the queue, the open exchange and kex_status only.    *)
LEMMA WireFrame ==
    ASSUME WireInv, UNCHANGED << toServer, srvKexOpen >>,
           NoNewkeysOwed' => NoNewkeysOwed
    PROVE  WireInv'
BY Zenon DEF WireInv, NoDataInKex

(* A packet of the channel may be appended while no NEWKEYS is owed.       *)
LEMMA WireAppend ==
    ASSUME TypeData, WireInv, NEW p \in Piece(ClientKinds),
           toServer' = Append(toServer, p), srvKexOpen' = srvKexOpen,
           p.kind \in { "DATA", "EOF" } => NoNewkeysOwed,
           NoNewkeysOwed' => \/ p.kind = "NEWKEYS"
                             \/ NoNewkeysOwed /\ p.kind # "KEXINIT"
    PROVE  WireInv'
<1> DEFINE q == toServer
<1>1. /\ q \in Seq(Piece(ClientKinds)) /\ Len(q) \in Nat
      /\ Len(toServer') = Len(q) + 1 /\ toServer'[Len(q) + 1] = p
      /\ Len(q) + 2 = (Len(q) + 1) + 1
  BY KexAppend DEF TypeData
<1>2. ASSUME NEW j \in 1 .. Len(q) + 1, toServer'[j].kind \in { "DATA", "EOF" }
      PROVE  ~InKex(toServer', srvKexOpen', j)
  <2>1. CASE j = Len(q) + 1
    <3>1. NoNewkeysOwed
      BY Zenon, <1>1, <1>2, <2>1
    <3>2. ~InKex(q, srvKexOpen, j)
      BY Zenon, <2>1, <3>1 DEF WireInv
    <3>3. QED
      BY Zenon, <1>1, <3>2, KexAppend
  <2>2. CASE j # Len(q) + 1
    <3>1. j \in 1 .. Len(q)
      BY <1>1, <2>2
    <3>2. toServer'[j] = q[j]
      BY <1>1, <3>1, KexAppend
    <3>3. ~InKex(q, srvKexOpen, j)
      BY Zenon, <1>2, <3>1, <3>2 DEF WireInv, NoDataInKex
    <3>4. QED
      BY Zenon, <1>1, <3>3, KexAppend
  <2>3. QED
    BY Zenon, <2>1, <2>2
<1>3. ASSUME NoNewkeysOwed'
      PROVE  ~InKex(toServer', srvKexOpen', Len(toServer') + 1)
  <2>1. CASE p.kind = "NEWKEYS"
    BY Zenon, <1>1, <2>1, KexAppend
  <2>2. CASE NoNewkeysOwed /\ p.kind # "KEXINIT"
    <3>1. ~InKex(q, srvKexOpen, Len(q) + 1)
      BY Zenon, <2>2 DEF WireInv
    <3>2. QED
      BY Zenon, <1>1, <2>2, <3>1, KexAppend
  <2>3. QED
    BY Zenon, <1>3, <2>1, <2>2
<1>4. QED
  BY Zenon, <1>1, <1>2, <1>3 DEF WireInv, NoDataInKex

(* The server takes a packet and notes a key exchange that opens.          *)
LEMMA WireTake ==
    ASSUME TypeData, WireInv, toServer # << >>, toServer' = Tail(toServer),
           kex_status' = kex_status,
           srvKexOpen' => \/ Head(toServer).kind = "KEXINIT"
                          \/ srvKexOpen /\ Head(toServer).kind # "NEWKEYS"
    PROVE  WireInv'
<1> DEFINE q == toServer
<1>1. /\ q \in Seq(Piece(ClientKinds)) /\ Len(q) \in Nat
      /\ Len(toServer') = Len(q) - 1 /\ (Len(q) - 1) + 1 = Len(q)
      /\ Len(q) > 0
  BY KexTail DEF TypeData
<1>2. /\ \A j \in 1 .. Len(toServer') : toServer'[j] = q[j + 1]
      /\ \A j \in 1 .. Len(q) :
           InKex(toServer', srvKexOpen', j) => InKex(q, srvKexOpen, j + 1)
  BY Zenon, <1>1, KexTail
<1>3. ASSUME NEW j \in 1 .. Len(toServer'),
             toServer'[j].kind \in { "DATA", "EOF" }
      PROVE  ~InKex(toServer', srvKexOpen', j)
  <2>1. j \in 1 .. Len(q) /\ j + 1 \in 1 .. Len(q)
    BY <1>1
  <2>2. ~InKex(q, srvKexOpen, j + 1)
    BY Zenon, <1>2, <1>3, <2>1 DEF WireInv, NoDataInKex
  <2>3. QED
    BY Zenon, <1>2, <2>1, <2>2
<1>4. ASSUME NoNewkeysOwed'
      PROVE  ~InKex(toServer', srvKexOpen', Len(toServer') + 1)
  <2>1. Len(q) \in 1 .. Len(q)
    BY <1>1
  <2>2. ~InKex(q, srvKexOpen, Len(q) + 1)
    BY Zenon, <1>4 DEF WireInv, NoNewkeysOwed
  <2>3. QED
    BY Zenon, <1>1, <1>2, <2>1, <2>2
<1>5. QED
  BY Zenon, <1>3, <1>4 DEF WireInv, NoDataInKex

(* Outside a key exchange no NEWKEYS is owed.                              *)
LEMMA OutsideKex ==
    ASSUME TypeData, KexInv, ~Rekeying
    PROVE  NoNewkeysOwed
<1>1. stage \in { "transfer", "reply", "newkeys" }
  BY DEF TypeData
<1>2. /\ "REKEYING" \in { "REKEYING" }
      /\ "REKEYING" \in { "REKEYING", "NEWKEYS_RECEIVED" }
      /\ "REKEYING" \in { "REKEYING", "NEWKEYS_SENT" }
      /\ "KEXDONE" \in { "KEXDONE" }
  OBVIOUS
<1>3. QED
  BY Zenon, <1>1, <1>2 DEF KexInv, Rekeying, NoNewkeysOwed

(* A packet without bytes at the end of what was sent.                     *)
LEMMA WireNote ==
    ASSUME TypeData, NEW k \in ClientKinds
    PROVE  Packet(k, nsent, 0) \in Piece(ClientKinds)
           /\ Packet(k, nsent, 0).kind = k
BY DEF TypeData, Packet, Piece

(* A chunk of data goes out outside a key exchange only.                   *)
LEMMA WireSend ==
    ASSUME TypeData, WireInv, NEW c \in Piece({ "DATA" }), SendData(c),
           NoNewkeysOwed, kex_status' = kex_status, srvKexOpen' = srvKexOpen
    PROVE  WireInv'
<1> DEFINE p == Packet("DATA", c.pos, c.size)
<1>1. p \in Piece(ClientKinds) /\ p.kind = "DATA"
  BY DEF Packet, Piece, ClientKinds
<1>2. toServer' = Append(toServer, p)
  BY DEF SendData
<1> HIDE DEF p
<1>3. p.kind # "KEXINIT" /\ p.kind # "NEWKEYS"
  BY <1>1
<1>4. QED
  BY Zenon, <1>1, <1>2, <1>3, WireAppend

(* The reader sends data and EOF outside a key exchange only.              *)
LEMMA WireReader ==
    ASSUME TypeData, KexInv, WireInv, Reader
    PROVE  WireInv'
<1> USE DEF app, winsock, kex, chain, sent, srv
<1>1. /\ kex_status' = kex_status /\ srvKexOpen' = srvKexOpen
      /\ NoNewkeysOwed' => NoNewkeysOwed
  BY Zenon DEF Reader, HandleFdRead, HandleFdClose, HandleFdError, ReadChunk,
     ReadNothing, ReadSkipped, ReadError, CloseAfterRead,
     ClosedLocalConnection, NoNewkeysOwed
<1>2. CASE HandleFdRead \/ HandleFdClose \/ ReadNothing \/ ReadSkipped
  <2>1. toServer' = toServer
    BY Zenon, <1>2 DEF HandleFdRead, HandleFdClose, ReadNothing, ReadSkipped
  <2>2. QED
    BY Zenon, <1>1, <2>1, WireFrame
<1>3. CASE CloseAfterRead \/ ReadError \/ HandleFdError
  <2>1. ClosedLocalConnection
    BY Zenon, <1>3 DEF CloseAfterRead, ReadError, HandleFdError
  <2>2. CASE Rekeying
    <3>1. toServer' = toServer
      BY Zenon, <2>1, <2>2 DEF ClosedLocalConnection
    <3>2. QED
      BY Zenon, <1>1, <3>1, WireFrame
  <2>3. CASE ~Rekeying
    <3> DEFINE p == Packet("EOF", nsent, 0)
    <3>1. toServer' = Append(toServer, p)
      BY Zenon, <2>1, <2>3 DEF ClosedLocalConnection
    <3>2. "EOF" \in ClientKinds
      BY DEF ClientKinds
    <3>3. p \in Piece(ClientKinds) /\ p.kind = "EOF"
      BY Zenon, <3>2, WireNote
    <3>4. NoNewkeysOwed
      BY Zenon, <2>3, OutsideKex
    <3> HIDE DEF p
    <3>5. p.kind # "KEXINIT"
      BY <3>3
    <3>6. QED
      BY Zenon, <1>1, <3>1, <3>3, <3>4, <3>5, WireAppend
  <2>4. QED
    BY Zenon, <2>2, <2>3
<1>4. CASE ReadChunk
  <2>1. PICK n \in 1 .. ReadBuf :
            SSH2_send_channel_data(Packet("DATA", nread, n))
    BY Zenon, <1>4, ChunkRead
  <2> DEFINE c == Packet("DATA", nread, n)
  <2>2. c \in Piece({ "DATA" })
    BY FlowAssumption, ChunkType DEF TypeData
  <2> HIDE DEF c
  <2>3. CASE AddBufchain(c, bufchain, 0)
    <3>1. toServer' = toServer
      BY Zenon, <2>3 DEF AddBufchain
    <3>2. QED
      BY Zenon, <1>1, <3>1, WireFrame
  <2>4. CASE ~MustQueue(c, FALSE) /\ SendData(c)
    <3>1. NoNewkeysOwed
      BY Zenon, <2>4, OutsideKex DEF MustQueue
    <3>2. QED
      BY Zenon, <1>1, <2>2, <2>4, <3>1, WireSend
  <2>5. QED
    BY Zenon, <2>1, <2>3, <2>4 DEF SSH2_send_channel_data, c
<1>5. QED
  BY Zenon, <1>2, <1>3, <1>4 DEF Reader

(* So does the retry loop.                                                 *)
LEMMA WireRetry ==
    ASSUME TypeData, StreamInv, KexInv, WireInv, Retry
    PROVE  WireInv'
<1> USE DEF app, winsock, kex, chain, sent, srv
<1>1. /\ pc = "retry" /\ kex_status' = kex_status
      /\ srvKexOpen' = srvKexOpen /\ (NoNewkeysOwed' => NoNewkeysOwed)
  BY Zenon DEF Retry, RetrySend, RetryStop, RetryResume, NoNewkeysOwed
<1>2. CASE RetryStop \/ RetryResume
  <2>1. toServer' = toServer
    BY Zenon, <1>2 DEF RetryStop, RetryResume
  <2>2. QED
    BY Zenon, <1>1, <2>1, WireFrame
<1>3. CASE RetrySend
  <2>1. kex_status = { "KEXDONE" }
    BY Zenon, <1>1 DEF KexInv
  <2>2. NoNewkeysOwed
    BY <2>1 DEF NoNewkeysOwed
  <2>3. Head(bufchain) \in Piece({ "DATA" }) /\ SendData(Head(bufchain))
    BY Zenon, <1>3, <2>1, RetrySends
  <2>4. QED
    BY Zenon, <1>1, <2>2, <2>3, WireSend
<1>4. QED
  BY Zenon, <1>2, <1>3 DEF Retry

(* The handlers of the key exchange open and end it on the wire.           *)
LEMMA WirePackets ==
    ASSUME TypeData, KexInv, WireInv, Packets
    PROVE  WireInv'
<1> USE DEF app, winsock, kex, chain, sent, srv
<1>1. srvKexOpen' = srvKexOpen
  BY Zenon DEF Packets, Unexpected, handle_SSH2_window_adjust,
     handle_SSH2_kexinit, handle_SSH2_dh_common_reply, SSH_notify_host_OK,
     handle_SSH2_newkeys
<1>2. CASE Unexpected \/ handle_SSH2_window_adjust
  <2>1. toServer' = toServer /\ (NoNewkeysOwed' => NoNewkeysOwed)
    BY Zenon, <1>2 DEF Unexpected, handle_SSH2_window_adjust, NoNewkeysOwed
  <2>2. QED
    BY Zenon, <1>1, <2>1, WireFrame
<1>3. "KEXINIT" \in ClientKinds /\ "NEWKEYS" \in ClientKinds
  BY DEF ClientKinds
<1>4. CASE handle_SSH2_kexinit
  <2> DEFINE p == Packet("KEXINIT", nsent, 0)
  <2>1. Take("KEXINIT") /\ toServer' = Append(toServer, p)
    BY Zenon, <1>4 DEF handle_SSH2_kexinit
  <2>2. p \in Piece(ClientKinds) /\ p.kind = "KEXINIT"
    BY Zenon, <1>3, WireNote
  <2> HIDE DEF p
  <2>3. p.kind \notin { "DATA", "EOF" }
    BY <2>2
  <2>4. stage = "transfer"
    BY <2>1 DEF Take, Accepted, TypeData
  <2>5. kex_status' = { "REKEYING" }
    BY Zenon, <1>4, <2>4 DEF handle_SSH2_kexinit, KexInv
  <2>6. ~NoNewkeysOwed'
    BY <2>5 DEF NoNewkeysOwed
  <2>7. QED
    BY Zenon, <1>1, <2>1, <2>2, <2>3, <2>6, WireAppend
<1>5. ASSUME SendNewkeys(kex_status)
      PROVE  WireInv'
  <2> DEFINE p == Packet("NEWKEYS", nsent, 0)
  <2>1. toServer' = Append(toServer, p)
    BY Zenon, <1>5 DEF SendNewkeys
  <2>2. p \in Piece(ClientKinds) /\ p.kind = "NEWKEYS"
    BY Zenon, <1>3, WireNote
  <2> HIDE DEF p
  <2>3. p.kind \notin { "DATA", "EOF" }
    BY <2>2
  <2>4. QED
    BY Zenon, <1>1, <2>1, <2>2, <2>3, WireAppend
<1>6. CASE handle_SSH2_dh_common_reply
  <2>1. CASE SendNewkeys(kex_status)
    BY <1>5, <2>1
  <2>2. CASE kex_status' = kex_status /\ toServer' = toServer
    <3>1. NoNewkeysOwed' => NoNewkeysOwed
      BY Zenon, <2>2 DEF NoNewkeysOwed
    <3>2. QED
      BY Zenon, <1>1, <2>2, <3>1, WireFrame
  <2>3. QED
    BY Zenon, <1>6, <2>1, <2>2 DEF handle_SSH2_dh_common_reply
<1>7. CASE SSH_notify_host_OK
  BY Zenon, <1>5, <1>7 DEF SSH_notify_host_OK
<1>8. CASE handle_SSH2_newkeys
  <2>1. toServer' = toServer
    BY Zenon, <1>8 DEF handle_SSH2_newkeys
  <2>2. NoNewkeysOwed' => NoNewkeysOwed
    <3>1. CASE "NEWKEYS_SENT" \in kex_status
      BY Zenon, <3>1 DEF NoNewkeysOwed
    <3>2. CASE kex_status' = kex_status \cup { "NEWKEYS_RECEIVED" }
      BY <3>2 DEF NoNewkeysOwed
    <3>3. QED
      BY Zenon, <1>8, <3>1, <3>2 DEF handle_SSH2_newkeys
  <2>3. QED
    BY Zenon, <1>1, <2>1, <2>2, WireFrame
<1>9. QED
  BY Zenon, <1>2, <1>4, <1>6, <1>7, <1>8 DEF Packets

(* The server takes packets in order.                                      *)
LEMMA WireServer ==
    ASSUME TypeData, WireInv, Server
    PROVE  WireInv'
<1> USE DEF app, winsock, kex, chain, sent, srv
<1>1. kex_status' = kex_status /\ (NoNewkeysOwed' => NoNewkeysOwed)
  BY Zenon DEF Server, ServerData, ServerEof, ServerKexinit, ServerNewkeys,
     ServerAdjust, ServerRekey, NoNewkeysOwed
<1>2. CASE ServerRekey \/ \E n \in 1 .. InitWindow : ServerAdjust(n)
  <2>1. UNCHANGED << toServer, srvKexOpen >>
    BY Zenon, <1>2 DEF ServerAdjust, ServerRekey
  <2>2. QED
    BY Zenon, <1>1, <2>1, WireFrame
<1>3. ASSUME NEW k, ServerTake(k)
      PROVE  /\ toServer # << >> /\ toServer' = Tail(toServer)
             /\ Head(toServer).kind = k
  BY Zenon, <1>3 DEF ServerTake
<1>4. CASE ServerData
  <2>1. ServerTake("DATA") /\ srvKexOpen' = srvKexOpen
    BY Zenon, <1>4 DEF ServerData
  <2>2. Head(toServer).kind # "NEWKEYS"
    BY <1>3, <2>1
  <2>3. QED
    BY Zenon, <1>1, <1>3, <2>1, <2>2, WireTake
<1>5. CASE ServerEof
  <2>1. ServerTake("EOF") /\ srvKexOpen' = srvKexOpen
    BY Zenon, <1>5 DEF ServerEof
  <2>2. Head(toServer).kind # "NEWKEYS"
    BY <1>3, <2>1
  <2>3. QED
    BY Zenon, <1>1, <1>3, <2>1, <2>2, WireTake
<1>6. CASE ServerKexinit
  <2>1. ServerTake("KEXINIT")
    BY Zenon, <1>6 DEF ServerKexinit
  <2>2. QED
    BY Zenon, <1>1, <1>3, <2>1, WireTake
<1>7. CASE ServerNewkeys
  <2>1. ServerTake("NEWKEYS") /\ srvKexOpen' = FALSE
    BY Zenon, <1>7 DEF ServerNewkeys
  <2>2. QED
    BY Zenon, <1>1, <1>3, <2>1, WireTake
<1>8. QED
  BY Zenon, <1>2, <1>4, <1>5, <1>6, <1>7 DEF Server

(* The application sends nothing.                                          *)
LEMMA WireApp ==
    ASSUME WireInv, App
    PROVE  WireInv'
<1>1. /\ UNCHANGED << toServer, srvKexOpen >>
      /\ NoNewkeysOwed' => NoNewkeysOwed
  BY Zenon DEF App, AppWrite, AppHangUp, sent, srv, kex, NoNewkeysOwed
<1>2. QED
  BY Zenon, <1>1, WireFrame
-----------------------------------------------------------------------------
(* The server sees the bytes in their order and within its window.         *)

ServerInv == ~garbled /\ ~overrun

(* The server never sees a byte out of place, or more than it granted.     *)
LEMMA ServerStep ==
    ASSUME TypeData, StreamInv, ServerInv, Next
    PROVE  /\ ServerInv'
           /\ ServerData => /\ got' \in Nat /\ got <= got' /\ got' <= nread
                            /\ got' <= granted
<1> USE DEF app, winsock, kex, chain, sent, srv
<1>1. CASE ServerData
  <2> DEFINE p == Head(toServer)
  <2>1. /\ alive /\ toServer # << >> /\ got' = got + p.size
        /\ garbled' = (garbled \/ p.pos # got)
        /\ overrun' = (overrun \/ got + p.size > granted)
    BY Zenon, <1>1 DEF ServerData, ServerTake
  <2>2. /\ p.pos = got /\ got + p.size <= nsent /\ p.size \in Nat
    BY <2>1, CoversTail, QueueType DEF StreamInv, OnTheWay, TypeData
  <2>3. nsent <= nread /\ nsent + remote_window <= granted
    BY Zenon, <2>1 DEF StreamInv, Backlog, Credit, Covers
  <2> HIDE DEF p
  <2>4. /\ got + p.size <= nread /\ got + p.size <= granted
        /\ got + p.size \in Nat /\ got <= got + p.size
        /\ ~(got + p.size > granted)
    BY <2>2, <2>3 DEF TypeData
  <2>5. QED
    BY Zenon, <2>1, <2>2, <2>4 DEF ServerInv
<1>2. CASE ~ServerData
  <2>1. UNCHANGED << garbled, overrun >>
    BY Zenon, <1>2 DEF Next, App, AppWrite, AppHangUp, Reader, HandleFdRead,
       HandleFdClose, HandleFdError, ReadChunk, ReadNothing, ReadSkipped,
       ReadError, CloseAfterRead, ClosedLocalConnection, Retry, RetrySend,
       RetryStop, RetryResume, Packets, Unexpected, handle_SSH2_window_adjust,
       handle_SSH2_kexinit, handle_SSH2_dh_common_reply, SSH_notify_host_OK,
       handle_SSH2_newkeys, Server, ServerEof, ServerKexinit, ServerNewkeys,
       ServerAdjust, ServerRekey
  <2>2. QED
    BY Zenon, <1>2, <2>1 DEF ServerInv
<1>3. QED
  BY Zenon, <1>1, <1>2
-----------------------------------------------------------------------------
(* The inductive invariant.                                                *)

IInv == /\ TypeOK /\ StreamInv /\ KexInv /\ FlowInv /\ WakeInv /\ WireInv
        /\ ServerInv

(* The inductive invariant holds when the channel opens.                   *)
LEMMA InitIInv == Init => IInv
<1> SUFFICES ASSUME Init PROVE IInv
  OBVIOUS
<1> USE FlowAssumption DEF Init
<1>1. TypeFlags
  BY Zenon DEF TypeFlags
<1>2. TypeData
  BY DEF TypeData, KexFlags
<1>3. StreamInv
  <2>1. Backlog
    BY DEF Backlog, Covers
  <2>2. OnTheWay
    BY DEF OnTheWay, OnlyKind, Covers
  <2>3. Credit
    BY DEF Credit, OnlyKind, Covers
  <2>4. QED
    BY Zenon, <2>1, <2>2, <2>3 DEF StreamInv
<1>4. KexInv
  <2>1. /\ stage = "transfer" /\ stage # "reply" /\ stage # "newkeys"
        /\ kex_status = { "KEXDONE" } /\ pc # "retry"
    OBVIOUS
  <2>2. QED
    BY Zenon, <2>1 DEF KexInv
<1>5. FlowInv
  <2>1. bufchain_amount = nread - nsent /\ bufchain_amount < HighWater
        /\ bufchain_amount < HighWater + ReadBuf
    OBVIOUS
  <2>2. QED
    BY Zenon, <2>1 DEF FlowInv, AmountIsBacklog, BacklogBounded
<1>6. WakeInv
  <2>1. Unread = 0
    BY DEF Unread
  <2>2. QED
    BY Zenon, <2>1 DEF WakeInv
<1>7. WireInv
  <2>1. toServer = << >> /\ Len(toServer) = 0 /\ 1 .. (0 + 1) - 1 = {}
        /\ 1 .. 0 = {}
    OBVIOUS
  <2>2. ~InKex(toServer, srvKexOpen, Len(toServer) + 1)
    BY Zenon, <2>1 DEF InKex
  <2>3. NoDataInKex
    BY Zenon, <2>1 DEF NoDataInKex
  <2>4. QED
    BY Zenon, <2>2, <2>3 DEF WireInv
<1>8. ServerInv
  BY Zenon DEF ServerInv
<1>9. QED
  BY Zenon, <1>1, <1>2, <1>3, <1>4, <1>5, <1>6, <1>7, <1>8 DEF IInv, TypeOK

(* The head of the backlog is counted.                                     *)
LEMMA HeadCounted ==
    ASSUME TypeData, StreamInv, FlowInv, bufchain # << >>
    PROVE  Head(bufchain).size <= bufchain_amount
<1>1. /\ nsent + Head(bufchain).size <= nread /\ Head(bufchain).size \in Nat
  BY CoversTail, QueueType DEF StreamInv, Backlog, TypeData
<1>2. bufchain_amount = nread - nsent
  BY Zenon DEF FlowInv, AmountIsBacklog
<1>3. QED
  BY <1>1, <1>2 DEF TypeData

(* Every step keeps the inductive invariant: the types and flags by the    *)
(* handler they belong to, the rest in the order of its dependencies.      *)
LEMMA StepIInv == IInv /\ [Next]_vars => IInv'
<1> SUFFICES ASSUME IInv, [Next]_vars PROVE IInv'
  OBVIOUS
<1>0. /\ TypeFlags /\ TypeData /\ StreamInv /\ KexInv /\ FlowInv /\ WakeInv
      /\ WireInv /\ ServerInv
  BY Zenon DEF IInv, TypeOK
<1>1. CASE UNCHANGED vars
  <2> USE <1>0, <1>1 DEF vars, app, winsock, kex, chain, sent, srv
  <2>1. TypeFlags'
    BY Zenon DEF TypeFlags
  <2>2. TypeData'
    BY DEF TypeData
  <2>3. StreamInv'
    BY Zenon DEF StreamInv, Backlog, OnTheWay, Credit
  <2>4. KexInv'
    BY Zenon DEF KexInv
  <2>5. FlowInv'
    BY Zenon, FlowFrame
  <2>6. WakeInv'
    BY Zenon, WakeFrame
  <2>7. WireInv'
    BY Zenon, WireFrame DEF NoNewkeysOwed
  <2>8. ServerInv'
    BY Zenon DEF ServerInv
  <2>9. QED
    BY Zenon, <2>1, <2>2, <2>3, <2>4, <2>5, <2>6, <2>7, <2>8 DEF IInv, TypeOK
<1>2. CASE Next
  <2> USE <1>0, <1>2
  <2>1. TypeFlags'
    BY Zenon, FlagsStep
  <2>2. CASE App
    <3>1. TypeData' /\ StreamInv' /\ WireInv'
      BY Zenon, <2>2, DataStepApp, StreamApp, WireApp
    <3>2. QED
      BY Zenon, <2>1, <3>1, KexStep, FlowStep, WakeStep, ServerStep
         DEF IInv, TypeOK
  <2>3. CASE Reader
    <3>1. TypeData' /\ StreamInv' /\ WireInv'
      BY Zenon, <2>3, DataStepRead, StreamReader, WireReader
    <3>2. QED
      BY Zenon, <2>1, <3>1, KexStep, FlowStep, WakeStep, ServerStep
         DEF IInv, TypeOK
  <2>4. CASE Retry
    <3>1. kex_status = { "KEXDONE" }
      BY Zenon, <2>4 DEF Retry, RetrySend, RetryStop, RetryResume, KexInv
    <3>2. TypeData' /\ StreamInv' /\ WireInv'
      BY Zenon, <2>4, <3>1, HeadCounted, DataStepRetry, StreamRetry, WireRetry
    <3>3. QED
      BY Zenon, <2>1, <3>2, KexStep, FlowStep, WakeStep, ServerStep
         DEF IInv, TypeOK
  <2>5. CASE Packets
    <3>1. TypeData' /\ StreamInv' /\ WireInv'
      BY Zenon, <2>5, DataStepPackets, StreamPackets, WirePackets
    <3>2. QED
      BY Zenon, <2>1, <3>1, KexStep, FlowStep, WakeStep, ServerStep
         DEF IInv, TypeOK
  <2>6. CASE Server
    <3>1. TypeData' /\ StreamInv' /\ WireInv'
      BY Zenon, <2>6, DataStepServer, StreamServer, WireServer
    <3>2. QED
      BY Zenon, <2>1, <3>1, KexStep, FlowStep, WakeStep, ServerStep
         DEF IInv, TypeOK
  <2>7. QED
    BY Zenon, <1>2, <2>2, <2>3, <2>4, <2>5, <2>6 DEF Next
<1>3. QED
  BY Zenon, <1>1, <1>2

(* The invariant the results rest on.                                      *)
LEMMA Inductive == Spec => []IInv
BY InitIInv, StepIInv, PTL DEF Spec
-----------------------------------------------------------------------------
(* The results.                                                            *)

(* Every variable keeps its type: no handler drives remote_window or       *)
(* bufchain_amount below zero, or reads past what was written.             *)
THEOREM TypeCorrect == Spec => []TypeOK
<1>1. IInv => TypeOK
  BY Zenon DEF IInv
<1>2. QED
  BY <1>1, Inductive, PTL

(* The amount the flow control goes by is the length of the backlog, in    *)
(* every interleaving of reads, window adjustments and key exchanges.      *)
THEOREM AmountCorrect == Spec => []AmountIsBacklog
<1>1. IInv => AmountIsBacklog
  BY Zenon DEF IInv, FlowInv
<1>2. QED
  BY <1>1, Inductive, PTL

(* The backlog stays under the high-water mark plus one read.              *)
THEOREM BacklogIsBounded == Spec => []BacklogBounded
<1>1. IInv => BacklogBounded
  BY Zenon DEF IInv, FlowInv
<1>2. QED
  BY <1>1, Inductive, PTL

(* No unread data without a notification under way or a suspended reading. *)
THEOREM WakeupNeverLost == Spec => []NoLostWakeup
<1>1. IInv => NoLostWakeup
  <2>1. SUFFICES ASSUME IInv, pc = "idle", socketOpen, Unread > 0
                 PROVE  fdRead \/ suspended
    BY Zenon DEF NoLostWakeup
  <2>2. Unread # 0
    BY <2>1
  <2>3. pc \notin { "read", "lastread", "close" }
    BY <2>1
  <2>4. QED
    BY Zenon, <2>1, <2>2, <2>3 DEF IInv, WakeInv
<1>2. QED
  BY <1>1, Inductive, PTL

(* No channel packet reaches the server inside a key exchange.             *)
THEOREM KexIsExclusive == Spec => []NoDataInKex
<1>1. IInv => NoDataInKex
  BY Zenon DEF IInv, WireInv
<1>2. QED
  BY <1>1, Inductive, PTL
-----------------------------------------------------------------------------
(* The refinement: reading a chunk is Accept, a packet with bytes reaching *)
(* the server is Deliver, a window adjustment is Grant, and everything     *)
(* else - queueing, retrying, suspending, exchanging keys, closing - is    *)
(* invisible at the two ends of the pipe.                                  *)

(* The channel opens as an empty pipe.                                     *)
LEMMA PipeInit == Init => Pipe!Init
<1> SUFFICES ASSUME Init PROVE Pipe!Init
  OBVIOUS
<1>1. nread = 0 /\ got = 0 /\ granted \in Nat
  BY FlowAssumption DEF Init
<1>2. (~garbled) = TRUE
  BY Zenon DEF Init
<1>3. QED
  BY Zenon, <1>1, <1>2 DEF Pipe!Init

(* Every step of the channel is a step of the pipe, or invisible there.    *)
LEMMA PipeStep == IInv /\ [Next]_vars => [Pipe!Next]_(Pipe!pipe)
<1> SUFFICES ASSUME IInv, [Next]_vars PROVE [Pipe!Next]_(Pipe!pipe)
  OBVIOUS
<1> USE DEF app, winsock, kex, chain, sent, srv
<1>0. TypeData /\ StreamInv /\ ServerInv
  BY Zenon DEF IInv, TypeOK
<1>1. ASSUME UNCHANGED << nread, got, granted, garbled >>
      PROVE  [Pipe!Next]_(Pipe!pipe)
  BY Zenon, <1>1 DEF Pipe!pipe
<1>2. CASE UNCHANGED vars
  BY Zenon, <1>1, <1>2 DEF vars
<1>3. CASE ReadChunk
  <2>1. UNCHANGED << got, granted, garbled >>
    BY Zenon, <1>3 DEF ReadChunk
  <2>2. PICK n \in 1 .. ReadBuf : nread' = nread + n
    BY Zenon, <1>0, <1>3, ChunkRead
  <2>3. nread' > nread
    BY <1>0, <2>2, FlowAssumption DEF TypeData
  <2>4. Pipe!Accept
    BY Zenon, <2>1, <2>3 DEF Pipe!Accept
  <2>5. QED
    BY Zenon, <2>4 DEF Pipe!Next
<1>4. CASE ServerData
  <2>1. UNCHANGED << nread, granted >>
    BY Zenon, <1>4 DEF ServerData
  <2>2. Next
    BY Zenon, <1>4 DEF Next, Server
  <2>3. /\ ServerInv' /\ got' \in Nat /\ got <= got' /\ got' <= nread
        /\ got' <= granted
    BY Zenon, <1>0, <1>4, <2>2, ServerStep
  <2>4. (~garbled') = (~garbled)
    BY Zenon, <1>0, <2>3 DEF ServerInv
  <2>5. CASE got' = got
    BY Zenon, <2>1, <2>4, <2>5 DEF Pipe!pipe
  <2>6. CASE got' # got
    <3>1. got' > got
      BY <1>0, <2>3, <2>6 DEF TypeData
    <3>2. Pipe!Deliver
      BY Zenon, <2>1, <2>3, <2>4, <3>1 DEF Pipe!Deliver
    <3>3. QED
      BY Zenon, <3>2 DEF Pipe!Next
  <2>7. QED
    BY Zenon, <2>5, <2>6
<1>5. CASE \E n \in 1 .. InitWindow : ServerAdjust(n)
  <2>1. PICK n \in 1 .. InitWindow : ServerAdjust(n)
    BY Zenon, <1>5
  <2>2. granted' = granted + n /\ UNCHANGED << nread, got, garbled >>
    BY Zenon, <2>1 DEF ServerAdjust
  <2>3. granted' > granted
    BY <1>0, <2>2, FlowAssumption DEF TypeData
  <2>4. Pipe!Grant
    BY Zenon, <2>2, <2>3 DEF Pipe!Grant
  <2>5. QED
    BY Zenon, <2>4 DEF Pipe!Next
<1>6. CASE /\ Next /\ ~ReadChunk /\ ~ServerData
           /\ ~\E n \in 1 .. InitWindow : ServerAdjust(n)
  <2>1. UNCHANGED << nread, got, granted, garbled >>
    BY Zenon, <1>6 DEF Next, App, AppWrite, AppHangUp, Reader, HandleFdRead,
       HandleFdClose, HandleFdError, ReadNothing, ReadSkipped, ReadError,
       CloseAfterRead, ClosedLocalConnection, Retry, RetrySend, RetryStop,
       RetryResume, Packets, Unexpected, handle_SSH2_window_adjust,
       handle_SSH2_kexinit, handle_SSH2_dh_common_reply, SSH_notify_host_OK,
       handle_SSH2_newkeys, Server, ServerEof, ServerKexinit, ServerNewkeys,
       ServerRekey
  <2>2. QED
    BY Zenon, <1>1, <2>1
<1>7. QED
  BY Zenon, <1>2, <1>3, <1>4, <1>5, <1>6

(* The data path of a forwarded connection implements the FIFO pipe with   *)
(* credit: whatever the key exchanges, the window and the suspensions do,  *)
(* the server gets the bytes in order, once, and within its window.        *)
THEOREM ImplementsPipe == Spec => PipeSpec
<1>1. Pipe!Spec <=> Pipe!Init /\ [][Pipe!Next]_(Pipe!pipe)
  BY DEF Pipe!Spec
<1>2. QED
  BY <1>1, PipeInit, PipeStep, Inductive, PTL DEF Spec, PipeSpec
-----------------------------------------------------------------------------
(* The close.  Once the application has ended nothing more is written, so  *)
(* the read that FD_CLOSE asks for leaves the socket empty, unless the     *)
(* reading is suspended.                                                   *)

CloseInv ==
    /\ fdClose # "no" => hungUp # "no"
    /\ pc \in { "lastread", "close" } => hungUp # "no"
    /\ pc = "close" => suspended \/ Unread = 0

(* The handlers keep pc at "close" for one step only, and nothing in       *)
(* between adds data or resumes the reading.                               *)
LEMMA CloseStep ==
    ASSUME CloseInv, [Next]_vars
    PROVE  CloseInv'
<1> USE DEF app, winsock, kex, chain, sent, srv
<1>1. CASE UNCHANGED vars
  BY Zenon, <1>1 DEF vars, CloseInv, Unread
<1>2. ASSUME UNCHANGED << written, nread, suspended, hungUp >>,
             fdClose' \in { fdClose, "no" },
             pc' \in { pc, "idle", "read", "retry" }
      PROVE  CloseInv'
  <2>1. pc' = "close" => pc = "close"
    BY <1>2
  <2>2. pc' \in { "lastread", "close" } => pc \in { "lastread", "close" }
    BY <1>2
  <2>3. fdClose' # "no" => fdClose # "no"
    BY <1>2
  <2>4. QED
    BY Zenon, <1>2, <2>1, <2>2, <2>3 DEF CloseInv, Unread
<1>3. CASE \E n \in 1 .. TotalBytes : AppWrite(n)
  <2>1. hungUp = "no" /\ UNCHANGED << hungUp, fdClose, pc >>
    BY Zenon, <1>3 DEF AppWrite
  <2>2. pc # "close"
    BY <2>1 DEF CloseInv
  <2>3. QED
    BY <2>1, <2>2 DEF CloseInv
<1>4. CASE \E how \in { "closed", "reset" } : AppHangUp(how)
  <2>1. hungUp' # "no" /\ UNCHANGED << written, nread, suspended, pc >>
    <3>1. PICK how \in { "closed", "reset" } : AppHangUp(how)
      BY Zenon, <1>4
    <3>2. QED
      BY <3>1 DEF AppHangUp
  <2>2. QED
    BY Zenon, <2>1 DEF CloseInv, Unread
<1>5. CASE HandleFdClose
  <2>1. hungUp # "no" /\ hungUp' = hungUp /\ pc' = "lastread"
    BY <1>5 DEF HandleFdClose, CloseInv
  <2>2. QED
    BY <2>1 DEF CloseInv
<1>6. CASE ReadChunk
  <2>1. /\ UNCHANGED << hungUp, fdClose, pc >> /\ pc # "close"
    BY <1>6 DEF ReadChunk
  <2>2. QED
    BY <2>1 DEF CloseInv
<1>7. CASE ReadNothing \/ ReadSkipped
  <2>1. /\ UNCHANGED << hungUp, fdClose, written, nread, suspended >>
        /\ suspended \/ Unread = 0
    BY Zenon, <1>7 DEF ReadNothing, ReadSkipped
  <2>2. pc' \in { "lastread", "close" } => pc \in { "lastread", "close" }
    BY <1>7 DEF ReadNothing, ReadSkipped, AfterRead
  <2>3. QED
    BY Zenon, <2>1, <2>2 DEF CloseInv, Unread
<1>8. CASE HandleFdRead \/ CloseAfterRead
  BY Zenon, <1>2, <1>8 DEF HandleFdRead, CloseAfterRead, ClosedLocalConnection
<1>9. CASE ReadError \/ HandleFdError
  BY Zenon, <1>2, <1>9 DEF ReadError, HandleFdError, ClosedLocalConnection
<1>10. CASE Retry
  <2>1. pc' \in { "idle", "retry" } /\ UNCHANGED << hungUp, fdClose >>
    BY <1>10 DEF Retry, RetrySend, RetryStop, RetryResume
  <2>2. pc' # "close" /\ pc' # "lastread"
    BY <2>1
  <2>3. QED
    BY Zenon, <2>1, <2>2 DEF CloseInv
<1>11. CASE Packets
  <2>1. UNCHANGED << written, nread, suspended, hungUp, fdClose >>
    BY Zenon, <1>11 DEF Packets, Unexpected, handle_SSH2_window_adjust,
       handle_SSH2_kexinit, handle_SSH2_dh_common_reply, SSH_notify_host_OK,
       handle_SSH2_newkeys
  <2>2. pc' \in { pc, "idle", "retry" }
    BY <1>11 DEF Packets, Unexpected, handle_SSH2_window_adjust,
       handle_SSH2_kexinit, handle_SSH2_dh_common_reply, SSH_notify_host_OK,
       handle_SSH2_newkeys, StartRetry, Take
  <2>3. QED
    BY Zenon, <1>2, <2>1, <2>2
<1>12. CASE Server
  <2>1. UNCHANGED << written, nread, suspended, hungUp, fdClose, pc >>
    BY Zenon, <1>12 DEF Server, ServerData, ServerEof, ServerKexinit,
       ServerNewkeys, ServerAdjust, ServerRekey
  <2>2. QED
    BY Zenon, <1>2, <2>1
<1>13. QED
  BY Zenon, <1>1, <1>3, <1>4, <1>5, <1>6, <1>7, <1>8, <1>9, <1>10, <1>11, <1>12
     DEF Next, App, Reader

(* A close in good order drops data of the application only when the       *)
(* reading is suspended (the read of FD_CLOSE is skipped then).            *)
THEOREM LossNeedsSuspension == Spec => LossOnlyWhenSuspended
<1>1. Init => CloseInv
  BY DEF Init, CloseInv
<1>2. CloseInv /\ [Next]_vars
        => [pc = "close" /\ pc' = "idle" /\ Unread > 0 => suspended]_vars
  <2>1. SUFFICES ASSUME CloseInv, pc = "close", Unread > 0
                 PROVE  suspended
    BY Zenon
  <2>2. Unread # 0
    BY <2>1
  <2>3. QED
    BY Zenon, <2>1, <2>2 DEF CloseInv
<1>3. QED
  BY <1>1, <1>2, CloseStep, PTL DEF Spec, LossOnlyWhenSuspended
-----------------------------------------------------------------------------
(* Without the known_hosts dialog: what waits does not fit, and the server *)
(* and the client agree on which packet comes next.                        *)

(* The head of the chain is too large for the window, except between a     *)
(* window adjust (or the end of an exchange) and the end of the retry loop.*)
HeldInv ==
    alive /\ pc # "retry" /\ bufchain # << >> /\ ~Rekeying => ~HeadFits

(* The stage of the dispatch table that accepts a packet of the server,    *)
(* and the stage its handler leaves.                                       *)
Before(k) ==
    CASE k \in { "ADJUST", "KEXINIT" } -> "transfer"
      [] k = "REPLY"                   -> "reply"
      [] k = "NEWKEYS"                 -> "newkeys"

After(k) ==
    CASE k \in { "ADJUST", "NEWKEYS" } -> "transfer"
      [] k = "KEXINIT"                 -> "reply"
      [] k = "REPLY"                   -> "newkeys"

(* The queue q takes the dispatch table from the stage a to the stage b.   *)
Leads(q, a, b) ==
    /\ q = << >> => a = b
    /\ q # << >> => Before(q[1].kind) = a /\ After(q[Len(q)].kind) = b
    /\ \A i \in 1 .. Len(q) - 1 : After(q[i].kind) = Before(q[i + 1].kind)

(* No packet, and exactly one packet, of kind k is in the queue q.         *)
Free(q, k) == \A i \in 1 .. Len(q) : q[i].kind # k

Lone(q, k) ==
    \E i \in 1 .. Len(q) : /\ q[i].kind = k
                           /\ \A j \in 1 .. Len(q) : q[j].kind = k => j = i

(* Where the one exchange stands that can be under way: nowhere, in the    *)
(* server's KEXINIT, in the client's, in the reply, in the client's        *)
(* NEWKEYS.                                                                *)
Round ==
    \/ /\ srvKex = "idle"
       /\ Free(toClient, "KEXINIT") /\ Free(toClient, "REPLY")
       /\ Free(toServer, "KEXINIT") /\ Free(toServer, "NEWKEYS")
    \/ /\ srvKex = "init"
       /\ Lone(toClient, "KEXINIT") /\ Free(toClient, "REPLY")
       /\ Free(toServer, "KEXINIT") /\ Free(toServer, "NEWKEYS")
    \/ /\ srvKex = "init"
       /\ Free(toClient, "KEXINIT") /\ Free(toClient, "REPLY")
       /\ Lone(toServer, "KEXINIT") /\ Free(toServer, "NEWKEYS")
    \/ /\ srvKex = "newkeys"
       /\ Free(toClient, "KEXINIT") /\ Lone(toClient, "REPLY")
       /\ Free(toServer, "KEXINIT") /\ Free(toServer, "NEWKEYS")
    \/ /\ srvKex = "newkeys"
       /\ Free(toClient, "KEXINIT") /\ Free(toClient, "REPLY")
       /\ Free(toServer, "KEXINIT") /\ Lone(toServer, "NEWKEYS")

(* The stage the client will be in when it has taken everything.           *)
Settled == IF srvKex = "init" THEN "reply" ELSE "transfer"

(* Nothing the server sends is unexpected.                                 *)
TalkInv ==
    /\ alive /\ ~askUser
    /\ Round
    /\ Leads(toClient, stage, Settled)
-----------------------------------------------------------------------------
(* Stages as the dispatch table has them.                                  *)
LEMMA StageFacts ==
    ASSUME TypeData, NEW k, k \in Accepted(stage)
    PROVE  /\ k \in { "ADJUST", "KEXINIT" } => stage = "transfer"
           /\ k = "REPLY" => stage = "reply"
           /\ k = "NEWKEYS" => stage = "newkeys"
BY DEF Accepted, TypeData

(* A handler that leaves the chain, the window and the exchange alone and  *)
(* does not leave the retry loop keeps HeldInv.                            *)
LEMMA HeldFrame ==
    ASSUME HeldInv, UNCHANGED << bufchain, remote_window >>,
           Rekeying => Rekeying', alive' => alive,
           pc' = "retry" \/ pc # "retry"
    PROVE  HeldInv'
BY Zenon DEF HeldInv, HeadFits

(* A chunk that was read waits behind older ones, or because it does not   *)
(* fit.                                                                    *)
LEMMA HeldChunk ==
    ASSUME TypeData, HeldInv, ReadChunk
    PROVE  HeldInv'
<1> USE DEF kex, chain, sent
<1>1. PICK n \in 1 .. ReadBuf : SSH2_send_channel_data(Packet("DATA", nread, n))
  BY Zenon, ChunkRead
<1>2. UNCHANGED << alive, pc, kex_status >> /\ pc # "retry" /\ Rekeying' = Rekeying
  BY DEF ReadChunk, Rekeying
<1> DEFINE c == Packet("DATA", nread, n)
<1>3. c \in Piece({ "DATA" }) /\ c.size \in Nat
  BY ChunkType, FlowAssumption DEF TypeData
<1> HIDE DEF c
<1>4. CASE MustQueue(c, FALSE) /\ AddBufchain(c, bufchain, 0)
  <2>1. bufchain' = Append(bufchain, c) /\ remote_window' = remote_window
    BY Zenon, <1>4 DEF AddBufchain
  <2>2. CASE bufchain = << >>
    <3>1. Head(bufchain') = c
      BY <2>1, <2>2, <1>3 DEF TypeData
    <3>2. Rekeying \/ c.size > remote_window
      BY Zenon, <1>4, <2>2 DEF MustQueue
    <3>3. c.size > remote_window => ~(c.size < remote_window)
      BY <1>3 DEF TypeData
    <3>4. QED
      BY Zenon, <1>2, <2>1, <3>1, <3>2, <3>3 DEF HeldInv, HeadFits
  <2>3. CASE bufchain # << >>
    <3>1. Head(bufchain') = Head(bufchain)
      BY <2>1, <2>3, <1>3 DEF TypeData
    <3>2. QED
      BY Zenon, <1>2, <2>1, <2>3, <3>1 DEF HeldInv, HeadFits
  <2>4. QED
    BY Zenon, <2>2, <2>3
<1>5. CASE ~MustQueue(c, FALSE) /\ UNCHANGED chain
  <2>1. bufchain' = << >>
    BY Zenon, <1>5 DEF MustQueue
  <2>2. QED
    BY Zenon, <2>1 DEF HeldInv
<1>6. QED
  BY Zenon, <1>1, <1>4, <1>5 DEF SSH2_send_channel_data, c

(* Every handler keeps HeldInv: each one that makes room in the window or  *)
(* ends an exchange goes into the retry loop.                              *)
LEMMA HeldStep ==
    ASSUME TypeData, KexInv, ~askUser, HeldInv, Next
    PROVE  HeldInv'
<1> USE DEF app, winsock, kex, chain, sent, srv
<1>1. CASE App \/ Server
  <2>1. UNCHANGED << bufchain, remote_window, kex_status, pc, alive >>
    BY Zenon, <1>1 DEF App, AppWrite, AppHangUp, Server, ServerData, ServerEof,
       ServerKexinit, ServerNewkeys, ServerAdjust, ServerRekey
  <2>2. QED
    BY Zenon, <2>1, HeldFrame DEF Rekeying
<1>2. CASE Reader
  <2>1. CASE ReadChunk
    BY Zenon, <2>1, HeldChunk
  <2>2. CASE ~ReadChunk
    <3>1. UNCHANGED << bufchain, remote_window, kex_status, alive >>
      BY Zenon, <1>2, <2>2 DEF Reader, HandleFdRead, HandleFdClose, HandleFdError,
         ReadNothing, ReadSkipped, ReadError, CloseAfterRead, ClosedLocalConnection
    <3>2. pc # "retry"
      BY <1>2, <2>2 DEF Reader, HandleFdRead, HandleFdClose, HandleFdError,
         ReadNothing, ReadSkipped, ReadError, CloseAfterRead
    <3>3. QED
      BY Zenon, <3>1, <3>2, HeldFrame DEF Rekeying
  <2>3. QED
    BY Zenon, <2>1, <2>2
<1>3. CASE RetrySend
  <2>1. pc' = "retry"
    BY Zenon, <1>3 DEF RetrySend
  <2>2. QED
    BY Zenon, <2>1 DEF HeldInv
<1>4. CASE RetryStop
  <2>1. ~HeadFits /\ bufchain' = bufchain /\ remote_window' = remote_window
    BY Zenon, <1>4 DEF RetryStop
  <2>2. QED
    BY Zenon, <2>1 DEF HeldInv, HeadFits
<1>5. CASE RetryResume
  <2>1. bufchain' = << >>
    BY Zenon, <1>5 DEF RetryResume
  <2>2. QED
    BY Zenon, <2>1 DEF HeldInv
<1>6. CASE Unexpected
  <2>1. ~alive'
    BY Zenon, <1>6 DEF Unexpected
  <2>2. QED
    BY Zenon, <2>1 DEF HeldInv
<1>7. CASE handle_SSH2_window_adjust
  <2>1. bufchain' = bufchain /\ (bufchain # << >> => pc' = "retry")
    BY Zenon, <1>7 DEF handle_SSH2_window_adjust, StartRetry
  <2>2. QED
    BY Zenon, <2>1 DEF HeldInv
<1>8. ASSUME NEW k, Take(k)
      PROVE  k \in Accepted(stage) /\ pc # "retry"
  BY <1>8 DEF Take
<1>9. CASE handle_SSH2_kexinit
  <2>1. Take("KEXINIT")
    BY Zenon, <1>9 DEF handle_SSH2_kexinit
  <2>2. stage = "transfer"
    BY <1>8, <2>1, StageFacts
  <2>3. kex_status' = { "REKEYING" }
    BY Zenon, <1>9, <2>2 DEF handle_SSH2_kexinit, KexInv
  <2>4. QED
    BY <2>3 DEF HeldInv, Rekeying
<1>10. CASE handle_SSH2_dh_common_reply
  <2>1. Take("REPLY")
    BY Zenon, <1>10 DEF handle_SSH2_dh_common_reply
  <2>2. stage = "reply"
    BY <1>8, <2>1, StageFacts
  <2>3. kex_status = { "REKEYING" }
    BY Zenon, <2>2 DEF KexInv
  <2>4. kex_status' = { "REKEYING", "NEWKEYS_SENT" } \/ kex_status' = kex_status
    BY Zenon, <1>10, <2>3, KexSets DEF handle_SSH2_dh_common_reply, SendNewkeys
  <2>5. Rekeying'
    BY <2>3, <2>4 DEF Rekeying
  <2>6. QED
    BY Zenon, <2>5 DEF HeldInv
<1>11. CASE SSH_notify_host_OK
  BY Zenon, <1>11 DEF SSH_notify_host_OK
<1>12. CASE handle_SSH2_newkeys
  <2>1. CASE pc' = StartRetry("idle")
    <3>1. bufchain' = bufchain /\ (bufchain # << >> => pc' = "retry")
      BY Zenon, <1>12, <2>1 DEF handle_SSH2_newkeys, StartRetry
    <3>2. QED
      BY Zenon, <3>1 DEF HeldInv
  <2>2. CASE kex_status' = kex_status \cup { "NEWKEYS_RECEIVED" } /\ pc' = pc
    <3>1. /\ UNCHANGED << bufchain, remote_window, alive >> /\ Take("NEWKEYS")
      BY Zenon, <1>12, <2>2 DEF handle_SSH2_newkeys
    <3>2. pc # "retry"
      BY Zenon, <3>1, <1>8
    <3>3. Rekeying => Rekeying'
      BY <2>2 DEF Rekeying
    <3>4. QED
      BY Zenon, <3>1, <3>2, <3>3, HeldFrame
  <2>3. QED
    BY Zenon, <1>12, <2>1, <2>2 DEF handle_SSH2_newkeys
<1>13. QED
  BY Zenon, <1>1, <1>2, <1>3, <1>4, <1>5, <1>6, <1>7, <1>9, <1>10, <1>11, <1>12
     DEF Next, Retry, Packets
-----------------------------------------------------------------------------
(* What Append and Tail do to the kinds of packets in a queue.             *)
LEMMA KindsAppend ==
    ASSUME NEW K, NEW q \in Seq(Piece(K)), NEW p \in Piece(K), NEW k
    PROVE  /\ Free(q, k) /\ p.kind # k => Free(Append(q, p), k)
           /\ Free(q, k) /\ p.kind = k => Lone(Append(q, p), k)
           /\ Lone(q, k) /\ p.kind # k => Lone(Append(q, p), k)
<1> DEFINE r == Append(q, p)
<1>1. /\ Len(q) \in Nat /\ Len(r) = Len(q) + 1 /\ r[Len(q) + 1] = p
      /\ \A i \in 1 .. Len(q) : r[i] = q[i]
  OBVIOUS
<1> HIDE DEF r
<1>2. \A i \in 1 .. Len(r) : i \in 1 .. Len(q) \/ i = Len(q) + 1
  BY <1>1
<1>3. Free(q, k) /\ p.kind # k => Free(r, k)
  BY <1>1, <1>2 DEF Free
<1>4. Free(q, k) /\ p.kind = k => Lone(r, k)
  <2>1. ASSUME Free(q, k), p.kind = k PROVE Lone(r, k)
    <3>1. r[Len(q) + 1].kind = k /\ Len(q) + 1 \in 1 .. Len(r)
      BY <1>1, <2>1
    <3>2. \A j \in 1 .. Len(r) : r[j].kind = k => j = Len(q) + 1
      BY Zenon, <1>1, <1>2, <2>1 DEF Free
    <3>3. QED
      BY Zenon, <3>1, <3>2 DEF Lone
  <2>2. QED
    BY Zenon, <2>1
<1>5. ASSUME Lone(q, k), p.kind # k
      PROVE  Lone(r, k)
  <2>1. PICK i \in 1 .. Len(q) : /\ q[i].kind = k
                                 /\ \A j \in 1 .. Len(q) : q[j].kind = k => j = i
    BY Zenon, <1>5 DEF Lone
  <2>2. i \in 1 .. Len(r) /\ r[i].kind = k
    BY <1>1, <2>1
  <2>3. \A j \in 1 .. Len(r) : r[j].kind = k => j = i
    BY <1>1, <1>2, <1>5, <2>1
  <2>4. QED
    BY Zenon, <2>2, <2>3 DEF Lone
<1>6. QED
  BY Zenon, <1>3, <1>4, <1>5 DEF r

(* The rest of a queue without its head.                                   *)
LEMMA KindsTail ==
    ASSUME NEW K, NEW q \in Seq(Piece(K)), q # << >>, NEW k
    PROVE  /\ Free(q, k) => Free(Tail(q), k) /\ Head(q).kind # k
           /\ Lone(q, k) /\ Head(q).kind = k => Free(Tail(q), k)
           /\ Lone(q, k) /\ Head(q).kind # k => Lone(Tail(q), k)
<1> DEFINE r == Tail(q)
<1>1. /\ Len(q) \in Nat /\ Len(q) >= 1 /\ Len(r) = Len(q) - 1 /\ Head(q) = q[1]
      /\ \A i \in 1 .. Len(r) : r[i] = q[i + 1]
  OBVIOUS
<1> HIDE DEF r
<1>2. \A i \in 1 .. Len(r) : i + 1 \in 1 .. Len(q) /\ i + 1 # 1
  BY <1>1
<1>3. 1 \in 1 .. Len(q)
  BY <1>1
<1>4. Free(q, k) => Free(r, k) /\ Head(q).kind # k
  BY <1>1, <1>2, <1>3 DEF Free
<1>5. ASSUME Lone(q, k)
      PROVE  /\ Head(q).kind = k => Free(r, k)
             /\ Head(q).kind # k => Lone(r, k)
  <2>1. PICK i \in 1 .. Len(q) : /\ q[i].kind = k
                                 /\ \A j \in 1 .. Len(q) : q[j].kind = k => j = i
    BY Zenon, <1>5 DEF Lone
  <2>2. ASSUME Head(q).kind = k
        PROVE  Free(r, k)
    <3>1. i = 1
      BY <1>1, <1>3, <2>1, <2>2
    <3>2. QED
      BY <1>1, <1>2, <2>1, <3>1 DEF Free
  <2>3. ASSUME Head(q).kind # k
        PROVE  Lone(r, k)
    <3>1. i # 1
      BY <1>1, <2>1, <2>3
    <3>2. i - 1 \in 1 .. Len(r) /\ r[i - 1].kind = k
      BY <1>1, <2>1, <3>1
    <3>3. \A j \in 1 .. Len(r) : r[j].kind = k => j = i - 1
      <4>1. SUFFICES ASSUME NEW j \in 1 .. Len(r), r[j].kind = k
                     PROVE  j = i - 1
        OBVIOUS
      <4>2. j + 1 \in 1 .. Len(q) /\ q[j + 1].kind = k
        BY <1>1, <1>2, <4>1
      <4>3. j + 1 = i
        BY Zenon, <2>1, <4>2
      <4>4. QED
        BY <4>3
    <3>4. QED
      BY Zenon, <3>2, <3>3 DEF Lone
  <2>4. QED
    BY Zenon, <2>2, <2>3
<1>6. QED
  BY Zenon, <1>4, <1>5 DEF r

(* A queue leads further with the packet appended.                         *)
LEMMA LeadsAppend ==
    ASSUME NEW K, NEW q \in Seq(Piece(K)), NEW p \in Piece(K), NEW a, NEW b,
           Leads(q, a, b), Before(p.kind) = b
    PROVE  Leads(Append(q, p), a, After(p.kind))
<1> DEFINE r == Append(q, p)
<1>1. /\ Len(q) \in Nat /\ Len(r) = Len(q) + 1 /\ r[Len(q) + 1] = p
      /\ \A i \in 1 .. Len(q) : r[i] = q[i]
      /\ r # << >>
  OBVIOUS
<1>2. q # << >> => Len(q) >= 1
  OBVIOUS
<1>3. q = << >> => Len(q) = 0
  OBVIOUS
<1> HIDE DEF r
<1>4. r[Len(r)] = p
  BY <1>1
<1>5. Before(r[1].kind) = a
  <2>1. CASE q = << >>
    <3>1. r[1] = p
      BY <1>1, <1>3, <2>1
    <3>2. QED
      BY Zenon, <2>1, <3>1 DEF Leads
  <2>2. CASE q # << >>
    <3>1. r[1] = q[1]
      BY <1>1, <1>2, <2>2
    <3>2. QED
      BY Zenon, <2>2, <3>1 DEF Leads
  <2>3. QED
    BY Zenon, <2>1, <2>2
<1>6. ASSUME NEW i \in 1 .. Len(r) - 1
      PROVE  After(r[i].kind) = Before(r[i + 1].kind)
  <2>1. i \in 1 .. Len(q) /\ r[i] = q[i]
    BY <1>1
  <2>2. CASE i = Len(q)
    <3>1. r[i + 1] = p /\ q # << >>
      BY <1>1, <1>3, <2>1, <2>2
    <3>2. QED
      BY Zenon, <2>1, <2>2, <3>1 DEF Leads
  <2>3. CASE i # Len(q)
    <3>1. i \in 1 .. Len(q) - 1 /\ r[i + 1] = q[i + 1]
      BY <1>1, <2>1, <2>3
    <3>2. QED
      BY Zenon, <2>1, <3>1 DEF Leads
  <2>4. QED
    BY Zenon, <2>2, <2>3
<1>7. QED
  BY Zenon, <1>1, <1>4, <1>5, <1>6 DEF Leads, r

(* Taking the head: it is what the first stage accepts.                    *)
LEMMA LeadsTail ==
    ASSUME NEW K, NEW q \in Seq(Piece(K)), q # << >>, NEW a, NEW b,
           Leads(q, a, b)
    PROVE  /\ Before(Head(q).kind) = a
           /\ Leads(Tail(q), After(Head(q).kind), b)
<1> DEFINE r == Tail(q)
<1>1. /\ Len(q) \in Nat /\ Len(q) >= 1 /\ Len(r) = Len(q) - 1 /\ Head(q) = q[1]
      /\ \A i \in 1 .. Len(r) : r[i] = q[i + 1]
  OBVIOUS
<1>2. r # << >> => Len(r) >= 1
  <2>1. r \in Seq(Piece(K))
    OBVIOUS
  <2> HIDE DEF r
  <2>2. QED
    BY <2>1
<1>3. r = << >> => Len(r) = 0
  <2> HIDE DEF r
  <2>1. QED
    OBVIOUS
<1> HIDE DEF r
<1>4. Before(Head(q).kind) = a
  BY Zenon, <1>1 DEF Leads
<1>5. ASSUME r = << >>
      PROVE  After(Head(q).kind) = b
  <2>1. Len(q) = 1
    BY <1>1, <1>3, <1>5
  <2>2. QED
    BY Zenon, <1>1, <2>1 DEF Leads
<1>6. ASSUME r # << >>
      PROVE  Before(r[1].kind) = After(Head(q).kind) /\ After(r[Len(r)].kind) = b
  <2>1. 1 \in 1 .. Len(q) - 1 /\ r[1] = q[1 + 1] /\ r[Len(r)] = q[Len(q)]
    BY <1>1, <1>2, <1>6
  <2>2. QED
    BY Zenon, <1>1, <2>1 DEF Leads
<1>7. ASSUME NEW i \in 1 .. Len(r) - 1
      PROVE  After(r[i].kind) = Before(r[i + 1].kind)
  <2>1. /\ i + 1 \in 1 .. Len(q) - 1 /\ r[i] = q[i + 1]
        /\ r[i + 1] = q[(i + 1) + 1]
    BY <1>1
  <2>2. QED
    BY Zenon, <2>1 DEF Leads
<1>8. QED
  BY Zenon, <1>4, <1>5, <1>6, <1>7 DEF Leads, r
-----------------------------------------------------------------------------
(* What the next stage is for each kind, and who accepts it.               *)
LEMMA StageOf ==
    /\ Before("ADJUST") = "transfer" /\ After("ADJUST") = "transfer"
    /\ Before("KEXINIT") = "transfer" /\ After("KEXINIT") = "reply"
    /\ Before("REPLY") = "reply" /\ After("REPLY") = "newkeys"
    /\ Before("NEWKEYS") = "newkeys" /\ After("NEWKEYS") = "transfer"
BY DEF Before, After

(* SSH2_dispatch accepts a packet in the stage Before names.               *)
LEMMA AcceptedBefore ==
    ASSUME NEW k \in ServerKinds
    PROVE  k \in Accepted(Before(k))
BY DEF ServerKinds, Accepted, Before

(* Packets that do not belong to the exchange leave the round as it is.    *)
LEMMA RoundKept ==
    ASSUME TypeData, Round, srvKex' = srvKex,
           \/ toServer' = toServer
           \/ \E p \in Piece(ClientKinds) :
                 /\ p.kind \in { "DATA", "EOF" }
                 /\ toServer' = Append(toServer, p)
           \/ /\ toServer # << >> /\ toServer' = Tail(toServer)
              /\ Head(toServer).kind \in { "DATA", "EOF" },
           \/ toClient' = toClient
           \/ \E p \in Piece(ServerKinds) :
                 p.kind = "ADJUST" /\ toClient' = Append(toClient, p)
           \/ /\ toClient # << >> /\ toClient' = Tail(toClient)
              /\ Head(toClient).kind \in { "ADJUST", "NEWKEYS" }
    PROVE  Round'
<1>1. ASSUME NEW k \in { "KEXINIT", "NEWKEYS" }
      PROVE  /\ Free(toServer, k) => Free(toServer', k)
             /\ Lone(toServer, k) => Lone(toServer', k)
  <2>1. CASE toServer' = toServer
    BY Zenon, <2>1
  <2>2. ASSUME NEW p \in Piece(ClientKinds), p.kind \in { "DATA", "EOF" },
               toServer' = Append(toServer, p)
        PROVE  /\ Free(toServer, k) => Free(toServer', k)
               /\ Lone(toServer, k) => Lone(toServer', k)
    <3>1. p.kind # k /\ toServer \in Seq(Piece(ClientKinds))
      BY <2>2, <1>1 DEF TypeData
    <3>2. QED
      BY <2>2, <3>1, KindsAppend
  <2>3. CASE /\ toServer # << >> /\ toServer' = Tail(toServer)
             /\ Head(toServer).kind \in { "DATA", "EOF" }
    <3>1. Head(toServer).kind # k /\ toServer \in Seq(Piece(ClientKinds))
      BY <2>3, <1>1 DEF TypeData
    <3>2. QED
      BY <2>3, <3>1, KindsTail
  <2>4. QED
    BY Zenon, <2>1, <2>2, <2>3
<1>2. ASSUME NEW k \in { "KEXINIT", "REPLY" }
      PROVE  /\ Free(toClient, k) => Free(toClient', k)
             /\ Lone(toClient, k) => Lone(toClient', k)
  <2>1. CASE toClient' = toClient
    BY Zenon, <2>1
  <2>2. ASSUME NEW p \in Piece(ServerKinds), p.kind = "ADJUST",
               toClient' = Append(toClient, p)
        PROVE  /\ Free(toClient, k) => Free(toClient', k)
               /\ Lone(toClient, k) => Lone(toClient', k)
    <3>1. p.kind # k /\ toClient \in Seq(Piece(ServerKinds))
      BY <2>2, <1>2 DEF TypeData
    <3>2. QED
      BY <2>2, <3>1, KindsAppend
  <2>3. CASE /\ toClient # << >> /\ toClient' = Tail(toClient)
             /\ Head(toClient).kind \in { "ADJUST", "NEWKEYS" }
    <3>1. Head(toClient).kind # k /\ toClient \in Seq(Piece(ServerKinds))
      BY <2>3, <1>2 DEF TypeData
    <3>2. QED
      BY <2>3, <3>1, KindsTail
  <2>4. QED
    BY Zenon, <2>1, <2>2, <2>3
<1>3. /\ Free(toServer, "KEXINIT") => Free(toServer', "KEXINIT")
      /\ Lone(toServer, "KEXINIT") => Lone(toServer', "KEXINIT")
  BY <1>1
<1>4. /\ Free(toServer, "NEWKEYS") => Free(toServer', "NEWKEYS")
      /\ Lone(toServer, "NEWKEYS") => Lone(toServer', "NEWKEYS")
  BY <1>1
<1>5. /\ Free(toClient, "KEXINIT") => Free(toClient', "KEXINIT")
      /\ Lone(toClient, "KEXINIT") => Lone(toClient', "KEXINIT")
  BY <1>2
<1>6. /\ Free(toClient, "REPLY") => Free(toClient', "REPLY")
      /\ Lone(toClient, "REPLY") => Lone(toClient', "REPLY")
  BY <1>2
<1>7. QED
  BY Zenon, <1>3, <1>4, <1>5, <1>6 DEF Round

(* Every step keeps the conversation in order, without the dialog.         *)
LEMMA TalkStep ==
    ASSUME HostKeyPrompt = FALSE, TypeData, KexInv, TalkInv, Next
    PROVE  TalkInv'
<1> USE DEF app, winsock, kex, chain, sent, srv
<1>0. /\ alive /\ ~askUser /\ Round /\ Leads(toClient, stage, Settled)
      /\ toClient \in Seq(Piece(ServerKinds))
      /\ toServer \in Seq(Piece(ClientKinds))
  BY Zenon DEF TalkInv, TypeData
\* Steps that concern neither the exchange nor the server's packets.
<1>1. ASSUME UNCHANGED << alive, askUser, stage, toClient, srvKex >>,
             \/ toServer' = toServer
             \/ \E p \in Piece(ClientKinds) :
                   /\ p.kind \in { "DATA", "EOF" }
                   /\ toServer' = Append(toServer, p)
             \/ /\ toServer # << >> /\ toServer' = Tail(toServer)
                /\ Head(toServer).kind \in { "DATA", "EOF" }
      PROVE  TalkInv'
  <2>1. Round'
    BY Zenon, <1>0, <1>1, RoundKept
  <2>2. QED
    BY Zenon, <1>0, <1>1, <2>1 DEF TalkInv, Settled
<1>2. CASE App
  BY Zenon, <1>1, <1>2 DEF App, AppWrite, AppHangUp
<1>3. ASSUME NEW c \in Piece({ "DATA" }), SendData(c)
      PROVE  \E p \in Piece(ClientKinds) :
                /\ p.kind \in { "DATA", "EOF" }
                /\ toServer' = Append(toServer, p)
  <2>1. c.pos \in Nat /\ c.size \in Nat
    BY DEF Piece
  <2>2. /\ Packet("DATA", c.pos, c.size) \in Piece(ClientKinds)
        /\ Packet("DATA", c.pos, c.size).kind \in { "DATA", "EOF" }
    BY <2>1 DEF Packet, Piece, ClientKinds
  <2>3. QED
    BY Zenon, <1>3, <2>2 DEF SendData
<1>4. CASE ReadChunk
  <2>1. PICK n \in 1 .. ReadBuf : SSH2_send_channel_data(Packet("DATA", nread, n))
    BY Zenon, <1>4, ChunkRead
  <2>2. Packet("DATA", nread, n) \in Piece({ "DATA" })
    BY ChunkType, FlowAssumption DEF TypeData
  <2>3. UNCHANGED << alive, askUser, stage, toClient, srvKex >>
    BY Zenon, <1>4 DEF ReadChunk
  <2>4. \/ toServer' = toServer
        \/ SendData(Packet("DATA", nread, n))
    BY Zenon, <2>1 DEF SSH2_send_channel_data, AddBufchain
  <2>5. QED
    BY Zenon, <1>1, <1>3, <2>2, <2>3, <2>4
<1>5. CASE CloseAfterRead \/ ReadError \/ HandleFdError
  <2>1. ClosedLocalConnection
    BY Zenon, <1>5 DEF CloseAfterRead, ReadError, HandleFdError
  <2>2. UNCHANGED << alive, askUser, stage, toClient, srvKex >>
    BY Zenon, <2>1 DEF ClosedLocalConnection
  <2>3. /\ Packet("EOF", nsent, 0) \in Piece(ClientKinds)
        /\ Packet("EOF", nsent, 0).kind \in { "DATA", "EOF" }
    BY DEF Packet, Piece, ClientKinds, TypeData
  <2>4. toServer' \in { toServer, Append(toServer, Packet("EOF", nsent, 0)) }
    BY <2>1 DEF ClosedLocalConnection
  <2>5. CASE toServer' = toServer
    BY Zenon, <1>1, <2>2, <2>5
  <2>6. CASE toServer' = Append(toServer, Packet("EOF", nsent, 0))
    BY Zenon, <1>1, <2>2, <2>3, <2>6
  <2>7. QED
    BY <2>4, <2>5, <2>6
<1>6. CASE HandleFdRead \/ HandleFdClose \/ ReadNothing \/ ReadSkipped
  BY Zenon, <1>1, <1>6 DEF HandleFdRead, HandleFdClose, ReadNothing, ReadSkipped
<1>7. CASE Retry
  <2>1. UNCHANGED << alive, askUser, stage, toClient, srvKex >>
    BY Zenon, <1>7 DEF Retry, RetrySend, RetryStop, RetryResume
  <2>2. CASE RetrySend
    <3>1. \/ toServer' = toServer
          \/ SendData(Head(bufchain))
      BY Zenon, <2>2 DEF RetrySend, AddBufchain
    <3>2. Head(bufchain) \in Piece({ "DATA" })
      BY <2>2, QueueType DEF RetrySend, TypeData
    <3>3. QED
      BY Zenon, <1>1, <1>3, <2>1, <3>1, <3>2
  <2>3. CASE RetryStop \/ RetryResume
    BY Zenon, <1>1, <2>1, <2>3 DEF RetryStop, RetryResume
  <2>4. QED
    BY Zenon, <1>7, <2>2, <2>3 DEF Retry
\* The packets of the server.
<1>8. ASSUME toClient # << >>
      PROVE  /\ Before(Head(toClient).kind) = stage
             /\ Leads(Tail(toClient), After(Head(toClient).kind), Settled)
             /\ Head(toClient).kind \in ServerKinds
             /\ Head(toClient).kind \in Accepted(stage)
  <2>1. /\ Before(Head(toClient).kind) = stage
        /\ Leads(Tail(toClient), After(Head(toClient).kind), Settled)
    BY <1>0, <1>8, LeadsTail
  <2>2. Head(toClient).kind \in ServerKinds
    BY <1>0, <1>8, QueueType
  <2>3. QED
    BY Zenon, <2>1, <2>2, AcceptedBefore
<1>9. CASE Unexpected
  BY Zenon, <1>8, <1>9 DEF Unexpected
<1>10. ASSUME NEW k, Take(k)
       PROVE  /\ toClient # << >> /\ toClient' = Tail(toClient)
              /\ Head(toClient).kind = k /\ stage = Before(k)
              /\ Leads(toClient', After(k), Settled)
  BY Zenon, <1>8, <1>10 DEF Take
<1>11. CASE handle_SSH2_window_adjust
  <2>1. /\ Take("ADJUST") /\ toServer' = toServer
        /\ UNCHANGED << alive, askUser, stage, srvKex >>
    BY Zenon, <1>11 DEF handle_SSH2_window_adjust
  <2>2. /\ Head(toClient).kind \in { "ADJUST", "NEWKEYS" } /\ stage = "transfer"
        /\ toClient # << >> /\ toClient' = Tail(toClient)
        /\ Leads(toClient', "transfer", Settled)
    BY <1>10, <2>1, StageOf
  <2>3. Round'
    BY Zenon, <1>0, <2>1, <2>2, RoundKept
  <2>4. QED
    BY Zenon, <1>0, <2>1, <2>2, <2>3 DEF TalkInv, Settled
<1>12. CASE handle_SSH2_newkeys
  <2>1. /\ Take("NEWKEYS") /\ toServer' = toServer
        /\ UNCHANGED << alive, askUser, srvKex >>
    BY Zenon, <1>12 DEF handle_SSH2_newkeys
  <2>2. /\ Head(toClient).kind \in { "ADJUST", "NEWKEYS" } /\ stage = "newkeys"
        /\ toClient # << >> /\ toClient' = Tail(toClient)
        /\ Leads(toClient', "transfer", Settled)
    BY <1>10, <2>1, StageOf
  <2>3. "NEWKEYS_SENT" \in kex_status
    BY Zenon, <1>0, <2>2, KexSets DEF KexInv
  <2>4. stage' = "transfer"
    BY Zenon, <1>12, <2>3 DEF handle_SSH2_newkeys
  <2>5. Round'
    BY Zenon, <1>0, <2>1, <2>2, RoundKept
  <2>6. QED
    BY Zenon, <1>0, <2>1, <2>2, <2>4, <2>5 DEF TalkInv, Settled
<1>13. CASE handle_SSH2_kexinit
  <2> DEFINE p == Packet("KEXINIT", nsent, 0)
  <2>1. /\ Take("KEXINIT") /\ toServer' = Append(toServer, p) /\ stage' = "reply"
        /\ UNCHANGED << alive, askUser, srvKex >>
    BY Zenon, <1>13 DEF handle_SSH2_kexinit
  <2>2. p \in Piece(ClientKinds) /\ p.kind = "KEXINIT" /\ p.kind # "NEWKEYS"
    BY DEF Packet, Piece, ClientKinds, TypeData
  <2> HIDE DEF p
  <2>3. /\ Head(toClient).kind = "KEXINIT" /\ Head(toClient).kind # "REPLY"
        /\ toClient # << >> /\ toClient' = Tail(toClient)
        /\ Leads(toClient', "reply", Settled)
    BY <1>10, <2>1, StageOf
  <2>4. /\ Free(toClient, "REPLY") => Free(toClient', "REPLY")
        /\ ~Free(toClient, "KEXINIT")
        /\ Lone(toClient, "KEXINIT") => Free(toClient', "KEXINIT")
    BY <1>0, <2>3, KindsTail
  <2>5. /\ Free(toServer, "KEXINIT") => Lone(toServer', "KEXINIT")
        /\ Free(toServer, "NEWKEYS") => Free(toServer', "NEWKEYS")
    BY <1>0, <2>1, <2>2, KindsAppend
  <2>6. Round'
    BY Zenon, <1>0, <2>1, <2>4, <2>5 DEF Round
  <2>7. QED
    BY Zenon, <1>0, <2>1, <2>3, <2>6 DEF TalkInv, Settled
<1>14. CASE handle_SSH2_dh_common_reply
  <2> DEFINE p == Packet("NEWKEYS", nsent, 0)
  <2>1. /\ Take("REPLY") /\ SendNewkeys(kex_status)
        /\ UNCHANGED << alive, askUser, srvKex >>
    BY Zenon, <1>14 DEF handle_SSH2_dh_common_reply
  <2>2. p \in Piece(ClientKinds) /\ p.kind = "NEWKEYS" /\ p.kind # "KEXINIT"
    BY DEF Packet, Piece, ClientKinds, TypeData
  <2>3. /\ Head(toClient).kind = "REPLY" /\ Head(toClient).kind # "KEXINIT"
        /\ toClient # << >> /\ toClient' = Tail(toClient) /\ stage = "reply"
        /\ Leads(toClient', "newkeys", Settled)
    BY <1>10, <2>1, StageOf
  <2>4. kex_status = { "REKEYING" }
    BY Zenon, <2>3 DEF KexInv
  <2>5. stage' = "newkeys" /\ toServer' = Append(toServer, p)
    BY Zenon, <2>1, <2>4, KexSets DEF SendNewkeys
  <2> HIDE DEF p
  <2>6. /\ Free(toClient, "KEXINIT") => Free(toClient', "KEXINIT")
        /\ ~Free(toClient, "REPLY")
        /\ Lone(toClient, "REPLY") => Free(toClient', "REPLY")
    BY <1>0, <2>3, KindsTail
  <2>7. /\ Free(toServer, "KEXINIT") => Free(toServer', "KEXINIT")
        /\ Free(toServer, "NEWKEYS") => Lone(toServer', "NEWKEYS")
    BY <1>0, <2>2, <2>5, KindsAppend
  <2>8. Round'
    BY Zenon, <1>0, <2>1, <2>6, <2>7 DEF Round
  <2>9. QED
    BY Zenon, <1>0, <2>1, <2>3, <2>5, <2>8 DEF TalkInv, Settled
<1>15. CASE SSH_notify_host_OK
  BY Zenon, <1>0, <1>15 DEF SSH_notify_host_OK
\* The server.
<1>16. CASE ServerData \/ ServerEof
  <2>1. /\ toServer # << >> /\ toServer' = Tail(toServer)
        /\ UNCHANGED << alive, askUser, stage, toClient, srvKex >>
    BY Zenon, <1>16 DEF ServerData, ServerEof, ServerTake
  <2>2. Head(toServer).kind \in { "DATA", "EOF" }
    BY <1>16 DEF ServerData, ServerEof, ServerTake
  <2>3. QED
    BY Zenon, <1>1, <2>1, <2>2
<1>17. CASE ServerKexinit
  <2> DEFINE p == Packet("REPLY", granted, 0)
             n == Packet("NEWKEYS", granted, 0)
             half == Append(toClient, p)
  <2>1. /\ toServer # << >> /\ toServer' = Tail(toServer)
        /\ Head(toServer).kind = "KEXINIT" /\ srvKex' = "newkeys"
        /\ toClient' = Append(half, n)
        /\ UNCHANGED << alive, askUser, stage >>
    BY Zenon, <1>17 DEF ServerKexinit, ServerTake
  <2>2. /\ p \in Piece(ServerKinds) /\ p.kind = "REPLY" /\ p.kind # "KEXINIT"
        /\ n \in Piece(ServerKinds) /\ n.kind = "NEWKEYS" /\ n.kind # "KEXINIT"
        /\ n.kind # "REPLY"
    BY DEF Packet, Piece, ServerKinds, TypeData
  <2> HIDE DEF p, n
  <2>3. half \in Seq(Piece(ServerKinds))
    BY <1>0, <2>2
  <2>4. Head(toServer).kind # "NEWKEYS"
    BY <2>1
  <2>5. /\ ~Free(toServer, "KEXINIT")
        /\ Lone(toServer, "KEXINIT") => Free(toServer', "KEXINIT")
        /\ Free(toServer, "NEWKEYS") => Free(toServer', "NEWKEYS")
    BY <1>0, <2>1, <2>4, KindsTail
  <2>6. /\ Free(toClient, "KEXINIT") => Free(half, "KEXINIT")
        /\ Free(toClient, "REPLY") => Lone(half, "REPLY")
    BY <1>0, <2>2, KindsAppend
  <2>7. srvKex = "init"
    BY Zenon, <1>0, <2>5 DEF Round
  <2>8. Leads(half, stage, "newkeys")
    BY <1>0, <2>2, <2>7, LeadsAppend, StageOf DEF Settled
  <2> HIDE DEF half
  <2>9. /\ Free(half, "KEXINIT") => Free(toClient', "KEXINIT")
        /\ Lone(half, "REPLY") => Lone(toClient', "REPLY")
    BY <2>1, <2>2, <2>3, KindsAppend
  <2>10. Leads(toClient', stage, "transfer")
    BY <2>1, <2>2, <2>3, <2>8, LeadsAppend, StageOf
  <2>11. Round'
    BY Zenon, <1>0, <2>1, <2>5, <2>6, <2>9 DEF Round
  <2>12. Settled' = "transfer"
    BY <2>1 DEF Settled
  <2>13. QED
    BY Zenon, <1>0, <2>1, <2>10, <2>11, <2>12 DEF TalkInv
<1>18. CASE ServerNewkeys
  <2>1. /\ toServer # << >> /\ toServer' = Tail(toServer)
        /\ Head(toServer).kind = "NEWKEYS" /\ srvKex' = "idle"
        /\ UNCHANGED << alive, askUser, stage, toClient >>
    BY Zenon, <1>18 DEF ServerNewkeys, ServerTake
  <2>2. Head(toServer).kind # "KEXINIT"
    BY <2>1
  <2>3. /\ ~Free(toServer, "NEWKEYS")
        /\ Lone(toServer, "NEWKEYS") => Free(toServer', "NEWKEYS")
        /\ Free(toServer, "KEXINIT") => Free(toServer', "KEXINIT")
    BY <1>0, <2>1, <2>2, KindsTail
  <2>4. Round' /\ srvKex = "newkeys"
    BY Zenon, <1>0, <2>1, <2>3 DEF Round
  <2>5. Settled' = Settled
    BY <2>1, <2>4 DEF Settled
  <2>6. QED
    BY Zenon, <1>0, <2>1, <2>4, <2>5 DEF TalkInv
<1>19. CASE \E m \in 1 .. InitWindow : ServerAdjust(m)
  <2>1. PICK m \in 1 .. InitWindow : ServerAdjust(m)
    BY Zenon, <1>19
  <2> DEFINE p == Packet("ADJUST", granted, m)
  <2>2. /\ toClient' = Append(toClient, p) /\ srvKex # "init"
        /\ toServer' = toServer
        /\ UNCHANGED << alive, askUser, stage, srvKex >>
    BY Zenon, <2>1 DEF ServerAdjust
  <2>3. p \in Piece(ServerKinds) /\ p.kind = "ADJUST"
    BY FlowAssumption DEF Packet, Piece, ServerKinds, TypeData
  <2> HIDE DEF p
  <2>4. Settled = "transfer" /\ Settled' = "transfer"
    BY <2>2 DEF Settled
  <2>5. Leads(toClient', stage, "transfer")
    BY <1>0, <2>2, <2>3, <2>4, LeadsAppend, StageOf
  <2>6. Round'
    BY Zenon, <1>0, <2>2, <2>3, RoundKept
  <2>7. QED
    BY Zenon, <1>0, <2>2, <2>4, <2>5, <2>6 DEF TalkInv
<1>20. CASE ServerRekey
  <2> DEFINE p == Packet("KEXINIT", granted, 0)
  <2>1. /\ toClient' = Append(toClient, p) /\ srvKex = "idle" /\ srvKex' = "init"
        /\ toServer' = toServer
        /\ UNCHANGED << alive, askUser, stage >>
    BY Zenon, <1>20 DEF ServerRekey
  <2>2. p \in Piece(ServerKinds) /\ p.kind = "KEXINIT" /\ p.kind # "REPLY"
    BY DEF Packet, Piece, ServerKinds, TypeData
  <2> HIDE DEF p
  <2>3. Settled = "transfer" /\ Settled' = "reply"
    BY <2>1 DEF Settled
  <2>4. Leads(toClient', stage, "reply")
    BY <1>0, <2>1, <2>2, <2>3, LeadsAppend, StageOf
  <2>5. /\ Free(toClient, "KEXINIT") => Lone(toClient', "KEXINIT")
        /\ Free(toClient, "REPLY") => Free(toClient', "REPLY")
    BY <1>0, <2>1, <2>2, KindsAppend
  <2>6. srvKex # "init" /\ srvKex # "newkeys"
    BY <2>1
  <2>7. Round'
    BY Zenon, <1>0, <2>1, <2>5, <2>6 DEF Round
  <2>8. QED
    BY Zenon, <1>0, <2>1, <2>3, <2>4, <2>7 DEF TalkInv
<1>21. QED
  BY Zenon, <1>2, <1>4, <1>5, <1>6, <1>7, <1>9, <1>11, <1>12, <1>13, <1>14, <1>15,
     <1>16, <1>17, <1>18, <1>19, <1>20
     DEF Next, Reader, Packets, Server

(* Initially nothing waits and nothing is under way.                       *)
LEMMA PromptlessInit == Init => HeldInv /\ TalkInv
<1> SUFFICES ASSUME Init PROVE HeldInv /\ TalkInv
  OBVIOUS
<1>1. bufchain = << >> /\ alive /\ ~askUser
  BY DEF Init
<1>2. HeldInv
  BY Zenon, <1>1 DEF HeldInv
<1>3. Len(toClient) = 0 /\ Len(toServer) = 0 /\ toClient = << >>
  BY DEF Init
<1>4. Round
  BY <1>3 DEF Round, Free, Init
<1>5. Leads(toClient, stage, Settled)
  BY <1>3 DEF Leads, Settled, Init
<1>6. QED
  BY Zenon, <1>1, <1>2, <1>4, <1>5 DEF TalkInv

(* The two invariants, relative to IInv.                                   *)
LEMMA PromptlessInvariant ==
    ASSUME HostKeyPrompt = FALSE
    PROVE  Spec => [](HeldInv /\ TalkInv)
<1>1. IInv /\ HeldInv /\ TalkInv /\ [Next]_vars => (HeldInv /\ TalkInv)'
  <2> SUFFICES ASSUME IInv, HeldInv, TalkInv, [Next]_vars
               PROVE  HeldInv' /\ TalkInv'
    OBVIOUS
  <2>1. CASE Next
    <3>1. TypeData /\ KexInv /\ ~askUser
      BY Zenon DEF IInv, TypeOK, TalkInv
    <3>2. QED
      BY Zenon, <2>1, <3>1, HeldStep, TalkStep
  <2>2. CASE UNCHANGED vars
    BY Zenon, <2>2 DEF vars, app, winsock, kex, chain, sent, srv, HeldInv, HeadFits,
       Rekeying, TalkInv, Round, Settled
  <2>3. QED
    BY Zenon, <2>1, <2>2
<1>2. QED
  BY <1>1, PromptlessInit, Inductive, PTL DEF Spec

(* When the host key of a re-exchange is known, what waits in the chain    *)
(* never waits for nothing: every event that makes room, or that ends an   *)
(* exchange, runs ssh2_channel_retry_send_bufchain.  (With the dialog of   *)
(* known_hosts this is false: run ChannelFlowPrompt.)                      *)
THEOREM NothingIsHeldBack ==
    ASSUME HostKeyPrompt = FALSE
    PROVE  Spec => []NothingHeldBack
<1>1. HeldInv => NothingHeldBack
  <2> SUFFICES ASSUME HeldInv, alive, pc = "idle", bufchain # << >>, ~Rekeying
               PROVE  ~HeadFits
    BY Zenon DEF NothingHeldBack
  <2>1. pc # "retry"
    OBVIOUS
  <2>2. QED
    BY Zenon, <2>1 DEF HeldInv
<1>2. QED
  BY <1>1, PromptlessInvariant, PTL

(* When the host key of a re-exchange is known, SSH2_dispatch never meets  *)
(* a packet it does not expect: window adjusts, the key exchange messages  *)
(* and the stages of the client fit together in every order of events.     *)
THEOREM NothingIsUnexpected ==
    ASSUME HostKeyPrompt = FALSE
    PROVE  Spec => []NeverUnexpected
<1>1. TalkInv => NeverUnexpected
  BY Zenon DEF TalkInv, NeverUnexpected
<1>2. QED
  BY <1>1, PromptlessInvariant, PTL
=============================================================================
