----------------------------- MODULE TcpSockets -----------------------------
(* One TCP connection of a component and the sockets stacked on it: the      *)
(* framing on top (the agent's RFC 4571 frames, or a TURN-over-TCP socket),  *)
(* at most one tunnel (pseudo-SSL, HTTP CONNECT or SOCKS5) and the TCP       *)
(* socket with its queue of data the kernel had no room for.                 *)
(*                                                                           *)
(* A byte is a triple <<tag, value, index>>.  Where the code reads a word of *)
(* several bytes that the properties do not tell apart it is one byte here.  *)
EXTENDS Integers, Sequences, FiniteSets

CONSTANTS
    Setups,        \* the connections explored, records described at Init
    PacketMax,     \* the longest RFC 4571 packet (62 KB in the code)
    Alignment,     \* TURN messages over TCP are padded to this (4)
    StunHeader,    \* the part of a STUN header after type and length (16)
    RingInitial    \* the first size of the HTTP reply buffer (1024)

ASSUME SizesAssumption ==
    /\ PacketMax \in Nat \ {0} /\ Alignment \in Nat \ {0} /\ StunHeader \in Nat
    /\ RingInitial \in Nat \ {0}

VARIABLES
    setup,    \* the setup of this behaviour, with what is left to send and arrive
    tcp,      \* the TcpPriv of the connection, and the kernel behind it
    proxy,    \* the tunnel: its state, its queue and its reply buffer
    reader,   \* TurnTcpPriv, or the agent's rfc4571_expecting_length
    app       \* what the application asked for and received

vars == <<setup, tcp, proxy, reader, app>>

-----------------------------------------------------------------------------
(* Bytes and sequences of them *)

Min2(a, b) == IF a < b THEN a ELSE b
Take(s, n) == SubSeq(s, 1, Min2(n, Len(s)))
Drop(s, n) == SubSeq(s, n + 1, Len(s))
IsPrefix2(s, t) == Len(s) <= Len(t) /\ s = SubSeq(t, 1, Len(s))

\* The concatenation of a sequence of sequences.
Flatten(ss) ==
    LET upto[n \in 0 .. Len(ss)] == IF n = 0 THEN <<>> ELSE upto[n - 1] \o ss[n]
    IN  upto[Len(ss)]

Word(n) == <<<<"len", n, 1>>, <<"len", n, 2>>>>      \* a 16-bit length, in two bytes
Payload(m) == [i \in 1 .. m.size |-> <<"data", m.id, i>>] \o <<>>
Shake(step) == <<<<"hs", step, 1>>, <<"hs", step, 2>>>>  \* a request of the tunnel's handshake
Junk == <<"junk", 0, 0>>                             \* memory nobody wrote

\* Memory of n bytes into which only some are written: the rest is what was
\* there.
Filled(bytes, n, was) == [i \in 1 .. n |-> IF i <= Len(bytes) THEN bytes[i] ELSE was] \o <<>>

PadLen(n) == IF n % Alignment = 0 THEN 0 ELSE Alignment - (n % Alignment)
Padding(n) == [i \in 1 .. PadLen(n) |-> <<"pad", 0, 0>>] \o <<>>

-----------------------------------------------------------------------------
(* tcp-bsd.c and the queues of socket.c.  A message is a sequence of         *)
(* buffers.                                                                  *)

\* nice_tcp_bsd_socket_new: connect is non-blocking, nothing has room yet.
\* torn is history: the positions of the stream that Remainder got wrong.
NewTcp == [queue |-> <<>>, source |-> FALSE, error |-> FALSE, open |-> TRUE,
           link |-> "connecting", room |-> 0, wire |-> <<>>, inbox |-> <<>>,
           eof |-> FALSE, torn |-> {}]

\* Mutant: the offset is taken off every buffer
Remainder_every(bufs, n) ==
    LET Cut(buf) == SubSeq(buf, Min2(n, Len(buf)) + 1, Len(buf))
    IN  Filled(Flatten([j \in 1 .. Len(bufs) |-> Cut(bufs[j])]), Len(Flatten(bufs)) - n, Junk)

\* What nice_socket_queue_send_with_callback copies of a message of which n
\* bytes were sent.  skip is message_offset: it is kept, or only reduced, when
\* the first buffer that is copied from was cut in its second half, and bytes
\* of the next buffers are left out then; nobody writes the end of the copy.
Remainder(bufs, n) ==
    LET total == Len(Flatten(bufs)) - n
        Copied(r, buf) ==
            LET k == Min2(total - Len(r.out), Len(buf) - r.skip)
            IN  IF Len(buf) <= r.skip THEN [r EXCEPT !.skip = @ - Len(buf)]
                ELSE [out |-> r.out \o SubSeq(buf, r.skip + 1, r.skip + k),
                      skip |-> IF r.skip >= k THEN r.skip - k ELSE 0]
        copy[j \in 0 .. Len(bufs)] ==
            IF j = 0 THEN [out |-> <<>>, skip |-> n] ELSE Copied(copy[j - 1], bufs[j])
    IN  Filled(copy[Len(bufs)].out, total, Junk)

\* The bytes of a message behind a buffer that n bytes cut in its second half
Torn(bufs, n) ==
    LET end(j) == Len(Flatten(SubSeq(bufs, 1, j)))
    IN  UNION {end(j) + 1 .. end(Len(bufs)) :
                  j \in {i \in 1 .. Len(bufs) : end(i - 1) < n /\ n < end(i)
                                               /\ 2 * (n - end(i - 1)) > Len(bufs[i])}}

\* nice_socket_queue_send_with_callback: queue, and watch the socket.
QueueAndWatch(t, bytes, head) ==
    [t EXCEPT !.queue = IF head THEN <<bytes>> \o @ ELSE Append(@, bytes),
              !.source = TRUE]

\* The kernel takes what it has room for; before the connection is up the
\* send fails and counts as blocked.
Written(t, bytes) ==
    [t EXCEPT !.wire = @ \o Take(bytes, t.room), !.room = @ - Min2(@, Len(bytes))]

\* socket_send_message: 1 sent or queued, 0 would block, -1 error.
TcpSend(t, bufs, reliable) ==
    LET bytes == Flatten(bufs)
        torn  == {Len(t.wire) + i : i \in Torn(bufs, t.room)}
    IN
    IF ~t.open \/ t.error \/ (t.queue = <<>> /\ t.link = "reset") THEN [t |-> t, ret |-> -1]
    ELSE IF t.queue # <<>>
    THEN IF reliable THEN [t |-> QueueAndWatch(t, bytes, FALSE), ret |-> 1]
         ELSE [t |-> t, ret |-> 0]
    ELSE IF t.room = 0 THEN [t |-> QueueAndWatch(t, bytes, FALSE), ret |-> 1]
    ELSE IF t.room < Len(bytes)
    THEN [t |-> [QueueAndWatch(Written(t, bytes), Remainder(bufs, t.room), TRUE)
                    EXCEPT !.torn = @ \cup torn],
          ret |-> 1]
    ELSE [t |-> Written(t, bytes), ret |-> 1]

\* Mutant: what is left goes to the end of the queue
FlushTurn_tail(t) ==
    LET head == Head(t.queue)
        rest == Drop(head, t.room)
    IN  IF t.queue = <<>> \/ t.room = 0 THEN t
        ELSE [Written(t, head) EXCEPT
                 !.queue = IF rest = <<>> THEN Tail(@) ELSE Append(Tail(@), rest)]

\* nice_socket_flush_send_queue_to_socket: write from the head of the queue
\* and put back what the kernel does not take.
FlushTurn(t) ==
    LET head == Head(t.queue)
        rest == Drop(head, t.room)
    IN  IF t.queue = <<>> \/ t.room = 0 THEN t
        ELSE [Written(t, head) EXCEPT
                 !.queue = IF rest = <<>> THEN Tail(@) ELSE <<rest>> \o Tail(@)]
Flush(t) ==
    LET turn[n \in 0 .. Len(t.queue)] == IF n = 0 THEN t ELSE FlushTurn(turn[n - 1])
    IN  turn[Len(t.queue)]

\* socket_recv_messages: a read of nothing is the end of the stream.
TcpRecv(t, size) ==
    IF ~t.open THEN [t |-> t, ret |-> 0, bytes |-> <<>>]
    ELSE IF t.error THEN [t |-> t, ret |-> -1, bytes |-> <<>>]
    ELSE IF size = 0 \/ (t.inbox = <<>> /\ t.eof)
    THEN [t |-> [t EXCEPT !.error = TRUE], ret |-> -1, bytes |-> <<>>]
    ELSE IF t.inbox = <<>>
    THEN [t |-> t, ret |-> IF t.link = "reset" THEN -1 ELSE 0, bytes |-> <<>>]
    ELSE [t |-> [t EXCEPT !.inbox = Drop(@, size)], ret |-> 1,
          bytes |-> Take(t.inbox, size)]

\* socket_close: the source goes, the queue is freed.
TcpClose(t) == [t EXCEPT !.open = FALSE, !.source = FALSE, !.queue = <<>>]

-----------------------------------------------------------------------------
(* The tunnels.  A tunnel step is a record s = [t, p, ret] of the TCP        *)
(* socket, the tunnel and the value recv returns.                            *)

\* The tunnel as its constructor leaves it; the constructor sends Shake(1).
\* stack is what the array that a SOCKS5 answer is read into holds before, late
\* is what arrives between the two reads of its last one.
\* short is history: a part of an answer was taken for the whole of it.
NewProxy(kind) ==
    [kind |-> kind, state |-> IF kind = "none" THEN "connected" ELSE "init",
     base |-> TRUE, queue |-> <<>>, buf |-> <<>>, pos |-> 0, fill |-> 0, clen |-> 0,
     stack |-> Junk, late |-> <<>>, short |-> FALSE]

Send1(s, step) == [s EXCEPT !.t = TcpSend(s.t, <<Shake(step)>>, TRUE).t]

\* nice_socket_flush_send_queue: the queue goes down as reliable messages.
FlushQueue(s) ==
    LET n == Len(s.p.queue)
        sent[i \in 0 .. n] == IF i = 0 THEN s.t ELSE TcpSend(sent[i - 1], <<s.p.queue[i]>>, TRUE).t
    IN  [s EXCEPT !.t = sent[n], !.p.queue = <<>>]

\* The error exit of the three: the base socket is freed.
ProxyError(s) == [s EXCEPT !.t = TcpClose(@), !.p.base = FALSE, !.p.state = "error", !.ret = -1]
Stay(s) == [s EXCEPT !.ret = 0]

\* The base socket was read: the tunnel goes on with what that returned.  None
\* of the reads of an answer looks at how many bytes came.
Base(s, r, short) == [s EXCEPT !.t = r.t, !.ret = r.ret, !.p.short = @ \/ short]
Short(r, n) == r.ret = 1 /\ Len(r.bytes) < n

\* pseudossl.c socket_recv_messages: what comes must be the server's hello.
Hello == <<<<"hello", 0, 1>>, <<"hello", 0, 2>>>>
PseudoSslRecv(s) ==
    LET Answered(r, n) ==
            IF r.ret <= 0 THEN n
            ELSE IF r.bytes = Hello THEN Stay(FlushQueue([n EXCEPT !.p.state = "connected"]))
            ELSE ProxyError(n)
        Received(r) == Answered(r, Base(s, r, Short(r, Len(Hello))))
    IN  Received(TcpRecv(s.t, Len(Hello)))

\* socks5.c socket_recv_messages: method, authentication, connect.
V5 == <<"socks5", 0, 0>>
Method(name) == <<"method", name, 0>>
Status(name) == <<"status", name, 0>>
BoundAddress == <<<<"bound", 0, 1>>, <<"bound", 0, 2>>>>

SocksConnect(s) == Stay([Send1(s, 3) EXCEPT !.p.state = "connect"])
SocksInit(s, auth) ==
    LET Answered(n, data) ==
            IF n.ret <= 0 THEN n
            ELSE IF data[1] # V5 THEN ProxyError(n)
            ELSE IF data[2] = Method("password") /\ auth
            THEN Stay([Send1(n, 2) EXCEPT !.p.state = "auth"])
            ELSE IF data[2] = Method("none") THEN SocksConnect(n)
            ELSE ProxyError(n)
        Received(r) == Answered(Base(s, r, Short(r, 2)), Filled(r.bytes, 2, s.p.stack))
    IN  Received(TcpRecv(s.t, 2))
SocksAuth(s) ==
    LET Answered(n, data) ==
            IF n.ret <= 0 THEN n
            ELSE IF data = <<V5, Status("granted")>> THEN SocksConnect(n)
            ELSE ProxyError(n)
        Received(r) == Answered(Base(s, r, Short(r, 2)), Filled(r.bytes, 2, s.p.stack))
    IN  Received(TcpRecv(s.t, 2))
\* The reply has a fixed part and an address, read one after the other; the
\* second read is an error unless something is there.
SocksReply(s) ==
    LET Address(n) ==
            IF n.ret # 1 THEN ProxyError(n)
            ELSE Stay([FlushQueue(n) EXCEPT !.p.state = "connected"])
        Rest(n, r) == Address(Base(n, r, Len(r.bytes) < Len(BoundAddress)))
        Late(n) == [n EXCEPT !.t.inbox = @ \o n.p.late, !.p.late = <<>>]
        Answered(n, data) ==
            IF n.ret <= 0 THEN n
            ELSE IF data # <<V5, Status("granted")>> THEN ProxyError(n)
            ELSE Rest(Late(n), TcpRecv(Late(n).t, Len(BoundAddress)))
        Received(r) == Answered(Base(s, r, Short(r, 2)), Filled(r.bytes, 2, s.p.stack))
    IN  Received(TcpRecv(s.t, 2))
Socks5Recv(s, auth) ==
    CASE s.p.state = "init"    -> SocksInit(s, auth)
      [] s.p.state = "auth"    -> SocksAuth(s)
      [] s.p.state = "connect" -> SocksReply(s)
      [] OTHER                 -> ProxyError(s)

-----------------------------------------------------------------------------
(* http.c: the reply is collected in a ring buffer and parsed there          *)

Version == <<"version", 0, 0>>
Code(n) == <<"code", n, 0>>
ContentLength == <<"clen", 0, 0>>
Digit(n) == <<"digit", n, 0>>
Letter == <<"letter", 0, 0>>
CR == <<"cr", 0, 0>>
LF == <<"lf", 0, 0>>

\* GET_BYTE: position i of the ring, whether or not it is filled.
At(p, i) == p.buf[((i + p.pos) % Len(p.buf)) + 1]

\* The buffer doubles when it is full; the bytes stay where they are.
Grown(p) ==
    IF p.fill < Len(p.buf) THEN p
    ELSE LET size == IF Len(p.buf) = 0 THEN RingInitial ELSE 2 * Len(p.buf)
         IN  [p EXCEPT !.buf = @ \o [i \in 1 .. size - Len(@) |-> Junk]]
\* The bytes that were read go behind the filled part.
Stored(p, bytes) ==
    LET size == Len(p.buf)
        Offset(i) == (i - 1 - (p.pos + p.fill) + 2 * size) % size
    IN  [p EXCEPT !.buf = [i \in 1 .. size |-> IF Offset(i) < Len(bytes) THEN bytes[Offset(i) + 1]
                                               ELSE p.buf[i]] \o <<>>,
                  !.fill = @ + Len(bytes)]
Consume(p, n) == [p EXCEPT !.pos = (@ + n) % Len(p.buf), !.fill = @ - n]

\* "Clear any trailing chars", "Skip over the header": where the line that
\* contains position i ends, -1 when its end is not there yet.
LineEnd(p, i) ==
    LET ends == {j \in i .. p.fill - 2 : At(p, j) = CR \/ At(p, j + 1) = LF}
    IN  IF ends = {} THEN -1 ELSE 2 + CHOOSE j \in ends : \A k \in ends : j <= k

\* The value of a Content-Length header: where its digits end, the byte after
\* the filled part included, and the number they are.
ValueEnd(p) ==
    LET ends == {j \in 1 .. p.fill : At(p, j)[1] # "digit"}
    IN  IF ends = {} THEN p.fill + 1 ELSE CHOOSE j \in ends : \A k \in ends : j <= k
Value(p, end) ==
    LET v[j \in 0 .. end - 1] == IF j = 0 THEN 0 ELSE 10 * v[j - 1] + At(p, j)[2]
    IN  v[end - 1]

\* Mutant: the status code is not looked at
HttpInit_anycode(p) ==
    LET end == LineEnd(p, 1) IN
    IF p.fill = 0 THEN [p |-> p, next |-> "wait"]
    ELSE IF At(p, 0) # Version THEN [p |-> p, next |-> "error"]
    ELSE IF end = -1 THEN [p |-> p, next |-> "wait"]
    ELSE [p |-> [Consume(p, end) EXCEPT !.clen = 0, !.state = "headers"], next |-> "retry"]

\* One round of the parser: the tunnel after it, and what follows: another
\* round, more data to wait for, an error, or the end.
HttpInit(p) ==
    LET end == LineEnd(p, 1) IN
    IF p.fill = 0 THEN [p |-> p, next |-> "wait"]
    ELSE IF At(p, 0) # Version THEN [p |-> p, next |-> "error"]
    ELSE IF p.fill = 1 THEN [p |-> p, next |-> "wait"]
    ELSE IF At(p, 1) # Code(200) THEN [p |-> p, next |-> "error"]
    ELSE IF end = -1 THEN [p |-> p, next |-> "wait"]
    ELSE [p |-> [Consume(p, end) EXCEPT !.clen = 0, !.state = "headers"], next |-> "retry"]
SkipHeader(p, i) ==
    LET end == LineEnd(p, i) IN
    IF end = -1 THEN [p |-> p, next |-> "wait"]
    ELSE [p |-> [Consume(p, end) EXCEPT !.state = IF end = 2 THEN "body" ELSE @], next |-> "retry"]
HttpHeaders(p) ==
    LET end == ValueEnd(p) IN
    IF p.fill < 2 \/ At(p, 0) # ContentLength THEN SkipHeader(p, 0)
    ELSE IF end > p.fill THEN [p |-> p, next |-> "wait"]
    ELSE IF At(p, end) # CR THEN [p |-> [p EXCEPT !.clen = 0], next |-> "error"]
    ELSE SkipHeader([p EXCEPT !.clen = Value(p, end)], end)
HttpBody(p) ==
    LET n == Min2(p.clen, p.fill) IN
    IF p.clen = 0 THEN [p |-> [p EXCEPT !.state = "connected"], next |-> "retry"]
    ELSE IF p.fill = 0 THEN [p |-> p, next |-> "wait"]
    ELSE [p |-> [Consume(p, n) EXCEPT !.clen = @ - n], next |-> "retry"]
HttpRound(r) ==
    IF r.next # "retry" THEN r
    ELSE CASE r.p.state = "init"      -> HttpInit(r.p)
           [] r.p.state = "headers"   -> HttpHeaders(r.p)
           [] r.p.state = "body"      -> HttpBody(r.p)
           [] r.p.state = "connected" -> [r EXCEPT !.next = "done"]
           [] OTHER                   -> [r EXCEPT !.next = "error"]
HttpParse(p) ==
    LET round[n \in 0 .. p.fill + 4] ==
            IF n = 0 THEN [p |-> p, next |-> "retry"] ELSE HttpRound(round[n - 1])
    IN  round[p.fill + 4]

\* http.c socket_recv_messages before the tunnel is up.  What follows the
\* reply in the buffer is copied to the caller, who is told a length of 0.
HttpRecv(s, size) ==
    LET Done(n, left) ==
            FlushQueue([n EXCEPT !.p = Consume(@, left), !.ret = IF left > 0 THEN 1 ELSE 0])
        Parsed(n, next) ==
            CASE next = "error" -> ProxyError(n)
              [] next = "done"  -> Done(n, Min2(n.p.fill, size))
              [] OTHER          -> n
        Answered(t, parsed) == Parsed([t |-> t, p |-> parsed.p, ret |-> 0], parsed.next)
        Received(p, r) ==
            IF r.ret <= 0 THEN [t |-> r.t, p |-> p, ret |-> r.ret]
            ELSE Answered(r.t, HttpParse(Stored(p, r.bytes)))
        Room(p) == Received(p, TcpRecv(s.t, Len(p.buf) - p.fill))
    IN  Room(Grown(s.p))

-----------------------------------------------------------------------------
(* recv and send through the tunnel *)

\* nice_socket_recv_messages of the tunnel, or of the TCP socket itself: up to
\* size bytes.
ProxyRecv(t, p, size) ==
    LET Direct(r) == [t |-> r.t, p |-> p, ret |-> r.ret, bytes |-> r.bytes]
        Shaken(n) == [t |-> n.t, p |-> n.p, ret |-> n.ret, bytes |-> <<>>]
        Handshake(s) ==
            CASE ~p.base -> ProxyError(s)
              [] p.kind = "pseudossl" -> PseudoSslRecv(s)
              [] p.kind = "socks5" -> Socks5Recv(s, setup.auth)
              [] OTHER -> HttpRecv(s, size)
    IN  IF p.base /\ p.state = "connected" THEN Direct(TcpRecv(t, size))
        ELSE Shaken(Handshake([t |-> t, p |-> p, ret |-> -1]))

\* socket_send_messages and socket_send_messages_reliable of the tunnel.  A
\* pseudo-SSL tunnel that failed goes on like one that is not up yet.
ProxySend(t, p, bufs, reliable) ==
    LET Direct(r) == [t |-> r.t, p |-> p, ret |-> r.ret] IN
    IF p.state = "connected" THEN Direct(TcpSend(t, bufs, reliable))
    ELSE IF p.state = "error" /\ p.kind # "pseudossl" THEN [t |-> t, p |-> p, ret |-> -1]
    ELSE IF reliable
    THEN [t |-> t, p |-> [p EXCEPT !.queue = Append(@, Flatten(bufs))], ret |-> 1]
    ELSE [t |-> t, p |-> p, ret |-> 0]

-----------------------------------------------------------------------------
(* udp-turn-over-tcp.c: TURN messages on the stream.  A message is a record  *)
(* [id, kind, size, reliable, bufs]: bufs are the sizes of its buffers.      *)

\* The message as the TURN socket hands it down: RFC 5766 messages start with
\* type and length, MS-TURN ones are RFC 4571 frames.
Body(compat, m) ==
    CASE compat = "rfc5766" ->
            <<<<"type", m.kind, 0>>, <<"len", m.size, 1>>>>
            \o (IF m.kind = "stun" THEN [i \in 1 .. StunHeader |-> <<"cookie", 0, i>>] ELSE <<>>)
            \o Payload(m)
      [] compat = "oc2007" -> Word(m.size) \o Payload(m)
      [] OTHER -> Payload(m)

\* socket_send_message: a padding behind it or a header in front of it, in a
\* buffer of its own; so is the length of an RFC 4571 frame.
TurnBuffers(compat, m) ==
    LET body == Body(compat, m) IN
    CASE compat = "rfc5766" -> <<body, Padding(Len(body))>>
      [] compat = "google"  -> <<Word(Len(body)), body>>
      [] OTHER              -> <<<<<<"type", m.kind, 0>>>>, Word(m.size), Payload(m)>>
TurnFrame(compat, m) == Flatten(TurnBuffers(compat, m))

HeaderLen(compat) == IF compat = "oc2007" THEN 3 ELSE 2
LengthIn(byte) == IF byte[1] = "len" THEN byte[2] ELSE 1

\* The header is complete: what is expected and what of it is kept.
HeaderRead(compat, rd) ==
    CASE compat = "rfc5766" ->
            [rd EXCEPT !.expecting = 2 + LengthIn(rd.buf[2])
                           + IF rd.buf[1] = <<"type", "stun", 0>> THEN StunHeader ELSE 0]
      [] compat = "google" -> [rd EXCEPT !.expecting = LengthIn(rd.buf[1]), !.buf = <<>>]
      [] OTHER -> [rd EXCEPT !.expecting = 2 + LengthIn(rd.buf[2]), !.buf = Tail(@)]

\* A read of the TURN framing: the sockets, the framing and what recv returns.
TurnStep(r, rd, ret, msg) == [t |-> r.t, p |-> r.p, rd |-> rd, ret |-> ret, msg |-> msg]

\* Mutant: the padding is not read
TurnPad_none(compat, rd) == 0

\* The padding read with a message.
TurnPad(compat, rd) == IF compat = "rfc5766" THEN PadLen(rd.expecting) ELSE 0

\* socket_recv_message: the header, when none is being worked on, then the
\* rest with its padding; a message when all of it is there.
TurnBody(compat, s) ==
    LET want == s.rd.expecting + TurnPad(compat, s.rd)
        Received(r, got) ==
            IF r.ret < 0 THEN TurnStep(r, s.rd, r.ret, <<>>)
            ELSE IF Len(got) = want
            THEN TurnStep(r, [s.rd EXCEPT !.buf = <<>>, !.expecting = 0], 1,
                          Take(got, setup.readsize))
            ELSE TurnStep(r, [s.rd EXCEPT !.buf = got], 0, <<>>)
        Read(r) == Received(r, s.rd.buf \o r.bytes)
    IN  Read(ProxyRecv(s.t, s.p, want - Len(s.rd.buf)))
TurnHeader(compat, s) ==
    LET Received(r, rd) ==
            CASE r.ret < 0 -> TurnStep(r, s.rd, r.ret, <<>>)
              [] r.ret >= 0 /\ Len(rd.buf) < HeaderLen(compat) -> TurnStep(r, rd, 0, <<>>)
              [] OTHER ->
                    IF compat = "oc2007" /\ rd.buf[1][1] # "type" THEN TurnStep(r, rd, -1, <<>>)
                    ELSE TurnStep(r, HeaderRead(compat, rd), 1, <<>>)
        Read(r) == Received(r, [s.rd EXCEPT !.buf = @ \o r.bytes])
    IN  Read(ProxyRecv(s.t, s.p, HeaderLen(compat) - Len(s.rd.buf)))
TurnRecv(compat, t, p, rd) ==
    LET Rest(s) == IF s.ret = 1 THEN TurnBody(compat, s) ELSE s
        Start(s) == Rest(IF rd.expecting > 0 THEN s ELSE TurnHeader(compat, s))
    IN  Start([t |-> t, p |-> p, rd |-> rd, ret |-> 1, msg |-> <<>>])

-----------------------------------------------------------------------------
(* agent.c: RFC 4571 frames on an ICE-TCP connection *)

\* The buffers of one packet of nice_agent_send_messages_nonblocking_internal:
\* len bytes of the message from offset on, cut out buffer by buffer.
Packet(m, offset, len) ==
    LET n == Len(m.bufs)
        base[j \in 1 .. n + 1] == IF j = 1 THEN 0 ELSE base[j - 1] + m.bufs[j - 1]
        reached == {j \in 1 .. n : m.bufs[j] >= offset - base[j]}
        start == IF reached = {} THEN n + 1 ELSE CHOOSE j \in reached : \A k \in reached : j <= k
        left[j \in 1 .. n + 1] ==
            IF j <= start THEN len ELSE left[j - 1] - Min2(m.bufs[j - 1], left[j - 1])
        Cell(j, k) == IF k <= m.bufs[j] THEN <<"data", m.id, base[j] + k>> ELSE Junk
        Cut(j) == [k \in 1 .. Min2(m.bufs[j], left[j]) |->
                      Cell(j, k + IF j = start THEN offset - base[j] ELSE 0)] \o <<>>
    IN  [j \in 1 .. n + 1 - start |-> Cut(start + j - 1)] \o <<>>

\* The packets of one message: the first one may be refused, the others are
\* sent reliably behind it.
SendPacket(s, m) ==
    LET Sent(r, n) == [t |-> r.t, offset |-> s.offset + n, ret |-> r.ret]
        Cut(len, bufs) ==
            Sent(TcpSend(s.t, <<Word(len)>> \o bufs, s.offset > 0), Len(Flatten(bufs)))
        Piece(len) == Cut(len, Packet(m, s.offset, len))
    IN  IF s.ret # 1 \/ s.offset >= m.size THEN s
        ELSE Piece(Min2(PacketMax, m.size - s.offset))
SendFramed(t, m) ==
    LET sent[n \in 0 .. m.size] ==
            IF n = 0 THEN [t |-> t, offset |-> 0, ret |-> 1] ELSE SendPacket(sent[n - 1], m)
    IN  sent[m.size]

\* agent_recv_message_unlocked on an ICE-TCP connection: the length, then the
\* frame once all of it has arrived.
FramedRecv(t, p, rd) ==
    LET Step(t1, expecting, ret, msg) ==
            [t |-> t1, p |-> p, rd |-> [rd EXCEPT !.expecting = expecting],
             ret |-> ret, msg |-> msg]
        Whole(b, len) == Step(b.t, len - Len(b.bytes), b.ret, b.bytes)
        Frame(t1, len, fresh) ==
            IF len > 0 /\ Len(t1.inbox) >= len
            THEN Whole(TcpRecv(t1, Min2(len, setup.readsize)), len)
            ELSE Step(t1, len, IF fresh THEN 1 ELSE 0, <<>>)
        Length(r) ==
            IF r.ret = 1 THEN Frame(r.t, LengthIn(r.bytes[1]), TRUE)
            ELSE Frame(t, rd.expecting, FALSE)
    IN  IF t.inbox = <<>> THEN Step(t, rd.expecting, IF t.eof \/ t.link = "reset" THEN -1 ELSE 0, <<>>)
        ELSE IF rd.expecting = 0 /\ Len(t.inbox) >= 2 THEN Length(TcpRecv(t, 2))
        ELSE Frame(t, rd.expecting, FALSE)

-----------------------------------------------------------------------------
(* A setup: compat ("rfc4571" for ICE-TCP), proxy, auth (the agent has proxy *)
(* credentials), link ("up" for an accepted connection), out (messages to    *)
(* send), coming (what will arrive: [bytes, split, after]), in (the messages *)
(* in it), grants (the proxy accepts), capacity (the kernel's buffer),       *)
(* readsize (the room of the message the agent reads into), closes and       *)
(* resets (whether the peer may end the connection).                         *)

Init ==
    /\ setup \in Setups
    /\ proxy = NewProxy(setup.proxy)
    /\ LET t == [NewTcp EXCEPT !.link = setup.link,
                               !.room = IF setup.link = "up" THEN setup.capacity ELSE 0]
       IN  tcp = IF setup.proxy = "none" THEN t ELSE TcpSend(t, <<Shake(1)>>, TRUE).t
    /\ reader = [buf |-> <<>>, expecting |-> 0, watching |-> TRUE]
    /\ app = [accepted |-> <<>>, delivered |-> <<>>, blocked |-> FALSE]

\* The frames a message is, when nothing goes wrong.
FramesOf(m) ==
    IF setup.compat # "rfc4571" THEN TurnFrame(setup.compat, m)
    ELSE LET n == (m.size + PacketMax - 1) \div PacketMax
             Piece(i) == SubSeq(Payload(m), (i - 1) * PacketMax + 1, Min2(i * PacketMax, m.size))
         IN  Flatten([i \in 1 .. n |-> Word(Len(Piece(i))) \o Piece(i)])

\* The application (or the TURN socket) sends its next message.  A datagram
\* that would block is dropped; a stream of ICE-TCP data waits for the
\* writable callback.  A stack that HangUp freed is not used any more.
AgentSend ==
    /\ setup.out # <<>> /\ ~app.blocked
    /\ tcp.open \/ ~proxy.base
    /\ LET m == Head(setup.out)
           framed == setup.compat = "rfc4571"
       IN  \E r \in {IF framed THEN SendFramed(tcp, m)
                    ELSE ProxySend(tcp, proxy, TurnBuffers(setup.compat, m), m.reliable)} :
           /\ tcp' = r.t
           /\ proxy' = IF framed THEN proxy ELSE r.p
           /\ setup' = [setup EXCEPT !.out = IF framed /\ r.ret = 0 THEN @ ELSE Tail(@)]
           /\ app' = [app EXCEPT
                         !.accepted = IF r.ret = 1 THEN Append(@, FramesOf(m)) ELSE @,
                         !.blocked = framed /\ tcp'.open /\ tcp'.queue # <<>>]
    /\ UNCHANGED reader

\* What socket_send_more writes
SendMore(t) == IF t.link = "reset" THEN t ELSE Flush(t)

\* Mutant: watching stops after one write
SocketSendMore_once ==
    /\ tcp.source /\ (tcp.room > 0 \/ tcp.link = "reset")
    /\ tcp' = [SendMore(tcp) EXCEPT !.source = FALSE]
    /\ app' = [app EXCEPT !.blocked = FALSE]
    /\ UNCHANGED <<setup, proxy, reader>>

\* socket_send_more: flush; when all is written, or the peer hung up, stop
\* watching and tell the writer.
SocketSendMore ==
    /\ tcp.source /\ (tcp.room > 0 \/ tcp.link = "reset")
    /\ \E t \in {SendMore(tcp)} :
          LET done == t.link = "reset" \/ t.queue = <<>>
          IN  /\ tcp' = [t EXCEPT !.source = ~done]
              /\ app' = [app EXCEPT !.blocked = @ /\ ~done]
    /\ UNCHANGED <<setup, proxy, reader>>

\* The next n bytes that arrive, and what comes after them
CanCome == setup.coming # <<>> /\ Len(tcp.wire) >= setup.coming[1].after
Cuts == LET c == setup.coming[1]
        IN  IF c.split THEN 1 .. Len(c.bytes) ELSE {Len(c.bytes)}
Coming(n) == IF n = 0 THEN <<>> ELSE Take(setup.coming[1].bytes, n)
Left(n) ==
    LET c == setup.coming[1]
    IN  IF n = 0 THEN setup.coming
        ELSE (IF n = Len(c.bytes) THEN <<>> ELSE <<[c EXCEPT !.bytes = Drop(@, n)]>>)
             \o Tail(setup.coming)
LateBytes ==
    {0} \cup IF proxy.kind = "socks5" /\ proxy.state = "connect" /\ CanCome THEN Cuts ELSE {}

\* What memory that nobody wrote may hold where it is compared with something
Stacks ==
    IF proxy.kind = "socks5" /\ proxy.state # "connected"
    THEN {Junk, Method("none"), Method("password"), Status("granted")}
    ELSE {Junk}

\* component_io_cb: one read of the topmost socket.  After an error the socket
\* is no longer watched.
ComponentRead ==
    /\ reader.watching /\ tcp.open /\ tcp.link = "up"
    /\ tcp.inbox # <<>> \/ tcp.eof
    /\ \E stack \in Stacks, n \in LateBytes :
       \E r \in {IF setup.compat = "rfc4571" THEN FramedRecv(tcp, proxy, reader)
                 ELSE TurnRecv(setup.compat, tcp,
                               [proxy EXCEPT !.stack = stack, !.late = Coming(n)], reader)} :
          /\ tcp' = [r.t EXCEPT !.inbox = @ \o r.p.late]
          /\ proxy' = [r.p EXCEPT !.stack = Junk, !.late = <<>>]
          /\ setup' = [setup EXCEPT !.coming = Left(n)]
          /\ reader' = [r.rd EXCEPT !.watching = r.ret >= 0]
          /\ app' = [app EXCEPT !.delivered =
                        IF r.ret = 1 /\ r.msg # <<>> THEN Append(@, r.msg) ELSE @]

\* A hang-up: the component detaches the socket and frees the whole stack.
HangUp ==
    /\ tcp.open /\ tcp.link = "reset"
    /\ tcp' = TcpClose(tcp) /\ proxy' = [proxy EXCEPT !.queue = <<>>]
    /\ reader' = [reader EXCEPT !.watching = FALSE]
    /\ UNCHANGED <<setup, app>>

(* The kernel and the peer *)

Connected ==
    /\ tcp.open /\ tcp.link = "connecting"
    /\ tcp' = [tcp EXCEPT !.link = "up", !.room = setup.capacity]
    /\ UNCHANGED <<setup, proxy, reader, app>>

\* The peer acknowledges: the kernel has room again, for some or for all.
Drains ==
    /\ tcp.open /\ tcp.link = "up"
    /\ \E n \in tcp.room + 1 .. setup.capacity : tcp' = [tcp EXCEPT !.room = n]
    /\ UNCHANGED <<setup, proxy, reader, app>>

\* The next bytes arrive, cut anywhere where the network may cut them.
Arrives ==
    /\ tcp.open /\ tcp.link = "up" /\ CanCome
    /\ \E n \in Cuts : /\ tcp' = [tcp EXCEPT !.inbox = @ \o Coming(n)]
                      /\ setup' = [setup EXCEPT !.coming = Left(n)]
    /\ UNCHANGED <<proxy, reader, app>>

PeerCloses ==
    /\ tcp.link = "up" /\ setup.closes /\ setup.coming = <<>> /\ ~tcp.eof
    /\ tcp' = [tcp EXCEPT !.eof = TRUE]
    /\ UNCHANGED <<setup, proxy, reader, app>>

PeerResets ==
    /\ tcp.open /\ tcp.link # "reset" /\ setup.resets
    /\ tcp' = [tcp EXCEPT !.link = "reset", !.room = 0]
    /\ UNCHANGED <<setup, proxy, reader, app>>

Next ==
    \/ AgentSend \/ SocketSendMore \/ ComponentRead \/ HangUp
    \/ Connected \/ Drains \/ Arrives \/ PeerCloses \/ PeerResets

Spec == Init /\ [][Next]_vars

-----------------------------------------------------------------------------
(* Properties *)

Alive == tcp.open /\ tcp.link # "reset" /\ proxy.base

\* What socket.c promises of a send ("the first N messages in @messages have
\* been sent in full, and the remaining messages have not been sent at all"):
\* the stream that has left, is queued at the TCP socket and is queued at the
\* tunnel is the tunnel's handshake followed by the frames of the accepted
\* messages, whole, in order and with nothing between them, whatever was
\* written in parts, refused or queued at either level.  The code breaks the
\* promise in one case: when the kernel cuts a message in the second half of a
\* buffer, it queues the buffers behind that one with bytes left out and as
\* many added that nobody wrote (Remainder), so of these bytes only the number
\* is right.
FramesWhole ==
    LET sent == tcp.wire \o Flatten(tcp.queue) \o Flatten(proxy.queue)
        handshake == SelectSeq(sent, LAMBDA b : b[1] = "hs")
        whole == handshake \o Flatten(app.accepted)
    IN  Alive => /\ Len(sent) = Len(whole)
                 /\ \A i \in 1 .. Len(sent) \ tcp.torn : sent[i] = whole[i]

\* While data waits in the queue of the TCP socket, or a writer for the
\* writable callback, the socket is watched for room: nothing else would ever
\* run socket_send_more (tcp-bsd.c).  Nothing waits in the queue of a tunnel
\* that is up: only the end of the handshake flushes it.
QueueWatched ==
    /\ (Alive /\ (tcp.queue # <<>> \/ app.blocked)) => tcp.source
    /\ (Alive /\ proxy.state = "connected") => proxy.queue = <<>>

\* socks5.c took a part of an answer for all of it: what it makes of that
\* depends on memory nobody wrote, and the rest of the answer comes as data.
Misled == proxy.kind = "socks5" /\ proxy.short

\* The messages given to the agent are those the peer sent, in order and
\* whole, however the stream was cut into reads (udp-turn-over-tcp.c
\* socket_recv_message; on ICE-TCP a long frame may come in pieces), unless the
\* cut was in an answer of a SOCKS5 proxy.
FramesReassembled ==
    IF setup.compat = "rfc4571" THEN IsPrefix2(Flatten(app.delivered), Flatten(setup.in))
    ELSE Misled \/ IsPrefix2(app.delivered, setup.in)

\* The connection is given up only for what the peer did, and used only with
\* its consent.  tcp-bsd.c socket_recv_messages marks it failed when a read
\* returns nothing because "the peer performed a shutdown", and only then; a
\* tunnel is up only if the proxy granted it, and fails only if the proxy
\* refused it or the connection ended.  For http.c that is so however the reply
\* was cut into reads.  socks5.c and pseudossl.c expect each answer in one
\* read: pseudossl.c fails when it comes in two, socks5.c may also go on
\* without consent, and both are right as long as no answer is cut.
FailsWithCause ==
    /\ tcp.error => tcp.eof
    /\ proxy.kind # "none" =>
          /\ proxy.state = "connected" => setup.grants \/ Misled
          /\ proxy.state = "error" =>
                ~setup.grants \/ tcp.eof \/ tcp.link = "reset" \/ proxy.short
=============================================================================
