---------------------------- MODULE SshTransport ----------------------------
(***************************************************************************)
(* struct ssh_transport of apps/ssh/ssh_client.c: the buffer between the   *)
(* lwIP callbacks, which fill it whenever a frame is polled, and the       *)
(* callbacks libssh2 reads and sends through.  The operators are the       *)
(* functions of that file on a transport t:                                *)
(*   pcb        "live", or "freed" once lwIP has freed it (t->pcb still    *)
(*              points to it)                                              *)
(*   rx, start  rx_buf[0 .. rx_len-1] and rx_start                         *)
(*   full       lwIP has no room for another request until the peer       *)
(*              acknowledges what was sent                                 *)
(* Bytes are the numbers 1, 2, ... in the order the server sends them.     *)
(***************************************************************************)
EXTENDS Integers, Sequences

CONSTANT RxSize      \* SSH_RX_BUF_SIZE

ASSUME RxSizeAssumption == RxSize \in Nat \ {0}

NoTransport == [pcb |-> "none", connected |-> FALSE, closed |-> FALSE, err |-> FALSE,
                full |-> FALSE, rx |-> <<>>, start |-> 0]
NewTransport == [NoTransport EXCEPT !.pcb = "live"]

\* a slip: the bytes are moved down and the length keeps counting the old ones
TrimKeepsStart(t) ==
    [t EXCEPT !.rx = SubSeq(t.rx, t.start + 1, Len(t.rx))]

Trim(t) ==
    [t EXCEPT !.rx = SubSeq(t.rx, t.start + 1, Len(t.rx)), !.start = 0]

FreeSpace(t) == RxSize - Len(t.rx)

\* one pbuf of a chain, with the test the callback makes before it pushes
PushSegment(t, seg) ==
    LET r == IF Len(seg) > FreeSpace(t) THEN Trim(t) ELSE t
    IN  IF Len(seg) > FreeSpace(r) THEN [r EXCEPT !.err = TRUE]
                                   ELSE [r EXCEPT !.rx = @ \o seg]

\* ssh_altcp_recv_cb with a chain of one or two pbufs: the first that does not
\* fit ends the loop, and the window is opened for all of them
RecvCb(t, chain) ==
    LET r == PushSegment(t, chain[1])
    IN  IF Len(chain) = 1 \/ Len(chain[1]) > FreeSpace(Trim(t)) THEN r
        ELSE PushSegment(r, chain[2])

EofCb(t) == [t EXCEPT !.closed = TRUE]
ErrCb(t) == [t EXCEPT !.closed = TRUE, !.err = TRUE, !.pcb = "freed"]
ConnectedCb(t) == [t EXCEPT !.connected = TRUE]

\* ssh_libssh2_recv of up to n bytes: what libssh2 gets, what is left, and the
\* answer when there is nothing
Libssh2Recv(t, n) ==
    LET avail == Len(t.rx) - t.start
        m == IF avail < n THEN avail ELSE n
        left == [t EXCEPT !.start = @ + m]
    IN  [bytes |-> SubSeq(t.rx, t.start + 1, t.start + m),
         t     |-> IF left.start >= Len(t.rx) THEN [t EXCEPT !.rx = <<>>, !.start = 0] ELSE left,
         rc    |-> IF avail > 0 THEN "data" ELSE IF t.closed \/ t.err THEN "broken" ELSE "EAGAIN"]

SentCb(t) == [t EXCEPT !.full = FALSE]

\* ssh_libssh2_send: refused once the connection is gone; EAGAIN when lwIP has
\* no room (ERR_MEM)
Libssh2Send(t) ==
    IF t.pcb = "none" \/ ~t.connected THEN "EAGAIN"
    ELSE IF t.closed \/ t.err THEN "broken"
    ELSE IF t.full THEN "EAGAIN" ELSE "sent"

=============================================================================
