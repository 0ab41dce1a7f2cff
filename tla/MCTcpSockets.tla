---------------------------- MODULE MCTcpSockets ----------------------------
(* Small connections: every framing, every tunnel, both ways of an answer.   *)
EXTENDS TcpSockets

Msg(id, kind, size, reliable) ==
    [id |-> id, kind |-> kind, size |-> size, reliable |-> reliable, bufs |-> <<size>>]
TwoBuffers(id, a, b) ==
    [id |-> id, kind |-> "data", size |-> a + b, reliable |-> FALSE, bufs |-> <<a, b>>]

Chunk(bytes, split, after) == [bytes |-> bytes, split |-> split, after |-> after]

\* Messages of the peer as they come on the stream and as they are delivered.
Stream(compat, ms, after) ==
    <<Chunk(Flatten([i \in 1 .. Len(ms) |->
                IF compat = "rfc4571" THEN Word(ms[i].size) \o Payload(ms[i])
                ELSE TurnFrame(compat, ms[i])]), TRUE, after)>>
Delivered(compat, ms) ==
    [i \in 1 .. Len(ms) |->
        CASE compat = "rfc5766" -> Body(compat, ms[i]) \o Padding(Len(Body(compat, ms[i])))
          [] OTHER -> Body(compat, ms[i])]

Setup(compat, kind, handshake, grants, out, in, after) ==
    [compat |-> compat, proxy |-> kind, auth |-> FALSE, link |-> "connecting", out |-> out,
     coming |-> handshake \o Stream(compat, in, after), in |-> Delivered(compat, in),
     grants |-> grants, capacity |-> 3, readsize |-> 9, closes |-> FALSE, resets |-> FALSE]

In2 == <<Msg(11, "data", 1, FALSE), Msg(12, "stun", 2, FALSE)>>
Out3 == <<Msg(1, "stun", 1, TRUE), Msg(2, "data", 1, FALSE), Msg(3, "data", 2, TRUE)>>

SslReply(split) == <<Chunk(Hello, split, 2)>>
SslRefusal(split) == <<Chunk(<<Letter, Letter>>, split, 2)>>

SocksReplies(method, split) ==
    <<Chunk(<<V5, Method(method)>>, split, 2)>>
    \o (IF method = "password" THEN <<Chunk(<<V5, Status("granted")>>, split, 4)>> ELSE <<>>)
    \o <<Chunk(<<V5, Status("granted")>> \o BoundAddress, split,
               IF method = "password" THEN 6 ELSE 4)>>
SocksRefusal(split) ==
    <<Chunk(<<V5, Method("none")>>, split, 2), Chunk(<<V5, Status("refused")>>, split, 4)>>

\* A reply with a header and a body, its length in one read; one with a
\* header longer than the first buffer.
HttpReply ==
    <<Chunk(<<Version, Code(200), CR>>, TRUE, 2),
      Chunk(<<LF, ContentLength, Digit(2), CR>>, FALSE, 2),
      Chunk(<<LF, CR, LF, Letter, Letter>>, TRUE, 2)>>
LongReply ==
    <<Chunk(<<Version, Code(200), CR, LF>> \o [i \in 1 .. 8 |-> Letter], FALSE, 2),
      Chunk(<<Letter, Letter, Letter, CR, LF, CR, LF>>, TRUE, 2)>>
HttpRefusal == <<Chunk(<<Version, Code(407), CR, LF, CR, LF>>, TRUE, 2)>>

MCSetups ==
    LET framed == Setup("rfc4571", "none", <<>>, TRUE,
                        <<Msg(1, "data", 5, FALSE), TwoBuffers(2, 1, 1)>>, In2, 0)
        buffers == [framed EXCEPT !.link = "up", !.capacity = 4,
                                  !.out = <<TwoBuffers(1, 3, 1), TwoBuffers(2, 2, 2)>>]
        turn(compat) == Setup(compat, "none", <<>>, TRUE, Out3, In2, 0)
        ssl(split) == Setup("google", "pseudossl", SslReply(split), TRUE, Out3, In2, 3)
        socks(method, split) ==
            Setup("rfc5766", "socks5", SocksReplies(method, split), TRUE, Out3, In2, 5)
        password(split) == [socks("password", split) EXCEPT !.auth = TRUE, !.coming[4].after = 7]
        http == Setup("rfc5766", "http", HttpReply, TRUE, Out3, In2, 5)
        Brief(s) == [s EXCEPT !.out = SubSeq(@, 1, 1), !.in = <<>>,
                              !.coming = SubSeq(@, 1, Len(@) - 1)]
        Refused(s, coming) == [s EXCEPT !.coming = coming, !.grants = FALSE, !.in = <<>>]
    IN  { framed, buffers,
          [framed EXCEPT !.link = "up", !.closes = TRUE, !.readsize = 1],
          [framed EXCEPT !.resets = TRUE],
          turn("rfc5766"), turn("google"), turn("oc2007"),
          ssl(FALSE), Brief(ssl(TRUE)),
          Refused(ssl(FALSE), SslRefusal(FALSE)), Refused(Brief(ssl(FALSE)), SslRefusal(TRUE)),
          socks("none", FALSE), password(FALSE), socks("none", TRUE), Brief(password(TRUE)),
          [socks("password", FALSE) EXCEPT !.grants = FALSE],
          Refused(socks("none", FALSE), SocksRefusal(FALSE)),
          Refused(Brief(socks("none", FALSE)), SocksRefusal(TRUE)),
          http, [http EXCEPT !.resets = TRUE],
          Setup("rfc5766", "http", LongReply, TRUE, Out3, In2, 5),
          Refused(http, HttpRefusal) }

=============================================================================
