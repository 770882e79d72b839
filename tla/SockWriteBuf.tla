---------------------------- MODULE SockWriteBuf ----------------------------
(***************************************************************************)
(* The ring buffer of data that the socket of a local application has not  *)
(* taken yet (util.c), and the FD_WRITE handler that empties it (fwd.c).   *)
(*                                                                         *)
(* A byte is the number of its place in the stream: the first byte the SSH *)
(* server sends is 1.  Every handler runs to its end on the user interface *)
(* thread, so a call is one step; what differs from call to call is how    *)
(* much the socket takes before it would block.                            *)
(***************************************************************************)
EXTENDS Integers, Sequences

CONSTANTS
    WriteBufferSize,    \* the setting of that name: the largest ring
    MaxChunk,           \* largest call that is tried
    MaxHanded           \* bytes handed in, in all

ASSUME SockConstants ==
    /\ WriteBufferSize \in Nat \ {0}
    /\ MaxChunk \in Nat
    /\ MaxHanded \in Nat

VARIABLES
    bufdata,    \* the ring, a function on 0 .. buflen - 1
    buflen,     \* its size
    datastart,  \* place of its oldest byte
    datalen,    \* bytes it holds
    handed,     \* bytes FWD_received_data has handed in
    wired,      \* bytes the socket has taken
    inOrder,    \* it took them in the order of the stream
    armed,      \* Winsock owes an FD_WRITE
    broken      \* a send failed, the connection is closed

ring == << bufdata, buflen, datastart, datalen >>
sockVars == << bufdata, buflen, datastart, datalen,
               handed, wired, inOrder, armed, broken >>

Garbage == 0    \* what realloc leaves in the new part

SockInit ==
    /\ bufdata = << >> /\ buflen = 0 /\ datastart = 0 /\ datalen = 0
    /\ handed = 0 /\ wired = 0 /\ inOrder = TRUE
    /\ armed = FALSE /\ broken = FALSE
-----------------------------------------------------------------------------
(* The ring as a value, for the several steps of one call.                 *)
Ring == [data |-> bufdata, size |-> buflen, start |-> datastart, len |-> datalen]

SetRing(r) ==
    /\ bufdata' = r.data /\ buflen' = r.size
    /\ datastart' = r.start /\ datalen' = r.len

Smaller(a, b) == IF a < b THEN a ELSE b

(* Two slips of Grown: what has wrapped stays where it is, or the ring     *)
(* grows past the setting.                                                 *)
GrownUnmoved(r, n) ==
    LET desired == Smaller(WriteBufferSize, r.len + n)
        size == Smaller(WriteBufferSize, 2 * desired)
    IN  IF r.size >= desired THEN r
        ELSE [r EXCEPT !.size = size,
                       !.data = [i \in 0 .. size - 1 |-> IF i < r.size THEN r.data[i]
                                                                      ELSE Garbage]]
GrownTooFar(r, n) ==
    IF r.size >= r.len + n THEN r
    ELSE [r EXCEPT !.size = r.len + n, !.start = 0,
                   !.data = [i \in 0 .. r.len + n - 1 |->
                       IF i < r.len THEN r.data[(r.start + i) % r.size] ELSE Garbage]]

(* Growing: what had wrapped to the front moves behind the old end as far  *)
(* as the new part reaches, and the rest of it to the front.               *)
Grown(r, n) ==
    LET desired == Smaller(WriteBufferSize, r.len + n)
        size == Smaller(WriteBufferSize, 2 * desired)
        wrapped == r.start + r.len - r.size
        copied == Smaller(wrapped, size - r.size)
    IN  IF r.size >= desired THEN r
        ELSE [r EXCEPT
                !.size = size,
                !.data = [i \in 0 .. size - 1 |->
                    IF i >= r.size
                    THEN IF i - r.size < copied THEN r.data[i - r.size] ELSE Garbage
                    ELSE IF i < wrapped - copied THEN r.data[i + copied]
                    ELSE r.data[i]]]

(* The oldest n bytes, in the two pieces in which they are sent.           *)
Oldest(r, n) ==
    LET first == Smaller(n, r.size - r.start)
    IN  [i \in 1 .. n |-> IF i <= first THEN r.data[r.start + i - 1]
                          ELSE r.data[i - 1 - first]]

Dropped(r, n) ==
    [r EXCEPT !.len = @ - n,
              !.start = IF r.len = n THEN 0 ELSE (@ + n) % r.size]

(* The bytes data[1], data[2], .. of the stream behind the newest one.     *)
Appended(r, data) ==
    LET at == (r.start + r.len) % r.size
        first == Smaller(Len(data), r.size - at)
    IN  [r EXCEPT !.len = @ + Len(data),
                  !.data = [i \in 0 .. r.size - 1 |->
                      IF i >= at /\ i < at + first THEN data[i - at + 1]
                      ELSE IF i < Len(data) - first THEN data[i + first + 1]
                      ELSE r.data[i]]]

(* The socket takes the bytes of out.                                      *)
Wire(out) ==
    /\ wired' = wired + Len(out)
    /\ inOrder' = (inOrder /\ \A i \in 1 .. Len(out) : out[i] = wired + i)

(* n bytes of the stream from number k + 1 on.                             *)
Stream(k, n) == [i \in 1 .. n |-> k + i]
-----------------------------------------------------------------------------
(* The whole call fits the socket: the fast path, the ring is empty.       *)
WriteThrough(n) ==
    /\ datalen = 0
    /\ Wire(Stream(handed, n))
    /\ handed' = handed + n
    /\ UNCHANGED << ring, armed, broken >>

(* It does not, or the ring holds older bytes.  fast: what the fast path   *)
(* got rid of before the socket blocked.                                   *)
WriteBehind(n, fast, more) ==
    LET rest == n - fast
        grown == Grown(Ring, rest)
        required == IF grown.len + rest > grown.size
                    THEN grown.len + rest - grown.size ELSE 0
        old == Smaller(grown.len, required)
        new == required - old
        emptied == IF old > 0 THEN Dropped(grown, old) ELSE grown
        filled == Appended(emptied, Stream(handed + fast + new, rest - new))
        sent == Stream(handed, fast) \o Oldest(grown, old)
                \o Stream(handed + fast, new)
    IN  /\ datalen > 0 => fast = 0
        /\ rest > 0
        /\ IF required = 0
           THEN /\ more = 0
                /\ SetRing(filled)
                /\ Wire(sent)
                /\ armed' = (armed \/ datalen = 0)
           ELSE /\ more <= filled.len
                /\ SetRing(Dropped(filled, more))
                /\ Wire(sent \o Oldest(filled, more))
                /\ \E posted \in BOOLEAN : armed' = (posted \/ more < filled.len)
        /\ handed' = handed + n
        /\ UNCHANGED broken

(* A send fails: FALSE is returned and the caller closes the connection.   *)
(* How much of the bytes of the call went out is anyone's guess.           *)
WriteFails(n) ==
    /\ broken' = TRUE
    /\ handed' = handed + n
    /\ UNCHANGED << ring, wired, inOrder, armed >>

UTIL_sock_buffered_write ==
    /\ ~broken
    /\ \E n \in 1 .. Smaller(MaxChunk, MaxHanded - handed) :
          \/ WriteThrough(n)
          \/ \E fast \in 0 .. n, more \in 0 .. WriteBufferSize :
                WriteBehind(n, fast, more)
          \/ WriteFails(n)

(* A slip of UTIL_sock_write_more: one send, whether or not it would block *)
(* the next time.                                                          *)
WriteMoreOnce ==
    /\ ~broken /\ armed
    /\ \E more \in 0 .. datalen :
          /\ SetRing(IF more = 0 THEN Ring ELSE Dropped(Ring, more))
          /\ Wire(Oldest(Ring, more))
          /\ armed' = (more = 0 /\ datalen > 0)
    /\ UNCHANGED << handed, broken >>

(* FD_WRITE: send until the socket blocks again or the ring is empty.      *)
UTIL_sock_write_more ==
    /\ ~broken /\ armed
    /\ \E more \in 0 .. datalen :
          /\ SetRing(IF more = 0 THEN Ring ELSE Dropped(Ring, more))
          /\ Wire(Oldest(Ring, more))
          /\ armed' = (more < datalen)
    /\ UNCHANGED << handed, broken >>

write_more_fails ==
    /\ ~broken /\ armed /\ datalen > 0
    /\ broken' = TRUE
    /\ UNCHANGED << ring, handed, wired, inOrder, armed >>

SockNext == UTIL_sock_buffered_write \/ UTIL_sock_write_more \/ write_more_fails

SockSpec == SockInit /\ [][SockNext]_sockVars
-----------------------------------------------------------------------------
SockTypeOK ==
    /\ buflen \in 0 .. WriteBufferSize
    /\ datalen \in 0 .. buflen
    /\ datastart \in 0 .. buflen
    /\ DOMAIN bufdata = IF buflen = 0 THEN {} ELSE 0 .. buflen - 1
    /\ handed \in 0 .. MaxHanded /\ wired \in 0 .. handed
    /\ {inOrder, armed, broken} \subseteq BOOLEAN

(* The ring keeps the promise of a byte stream.                            *)
Sock == INSTANCE ByteStream WITH taken <- handed, given <- wired, intact <- inOrder
SockIsStream == Sock!Spec

(* Bytes never wait in the ring without an FD_WRITE to come for them.      *)
NeverStranded == datalen > 0 /\ ~broken => armed
=============================================================================
