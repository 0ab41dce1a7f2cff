------------------------------ MODULE PseudoTcp ------------------------------
(***************************************************************************)
(* The pseudo-TCP socket of reliable components (agent/pseudotcp.c), at    *)
(* both ends of a datagram path that loses, duplicates and reorders.       *)
(*                                                                         *)
(* A socket is one record, changed by operators named after the functions  *)
(* of the code; an action is one call of the public interface, or one      *)
(* packet handed to pseudo_tcp_socket_notify_packet.  The packets a call   *)
(* writes are collected in the field out.                                  *)
(*                                                                         *)
(* Sequence numbers are taken modulo SeqMod (2^32 in the code) and every   *)
(* comparison of them is the modular one of the code.  Bytes are numbered  *)
(* by their place in the stream, so that a byte delivered twice, out of    *)
(* place or never written is seen.  Clock readings are left out: whether a *)
(* running timer is due is a choice of the call that looks at it, because  *)
(* the clock callback may be arbitrarily late.                             *)
(***************************************************************************)
EXTENDS Integers, Sequences, FiniteSets, Lists

CONSTANTS
    SeqMod,        \* sequence numbers are taken modulo this (2^32)
    SBufLen,       \* sbuf_len, the capacity of the send buffer
    RBufLen,       \* rbuf_len asked for with the rcv-buf property
    DefRBufLen,    \* DEFAULT_RCV_BUF_SIZE
    MaxWire,       \* largest window the header field holds (0xFFFF)
    MinMss,        \* mss before the connection is established
    AdviseMss,     \* mss that follows from mtu_advise
    Levels,        \* mss of the PACKET_MAXIMUMS levels, decreasing
    PathMss,       \* a longer payload is answered WR_TOO_LARGE
    MaxXmit,       \* transmissions of a segment when established (15)
    MaxXmitOther,  \* transmissions of a segment in other states (30)
    Setups,        \* what is explored together: the ends' support-fin-ack, the
                   \* ends that connect, the arguments of shutdown and close,
                   \* the faults, of "loss", "dup", "fail" (of the writer)
    WndScale,      \* end -> support_wnd_scale
    Nagle,         \* use_nagling
    AckDelay,      \* is ack_delay non-zero?
    Idles,         \* the answers to "idle for longer than rx_rto?"
    ChunkLen,      \* bytes handed to one pseudo_tcp_socket_send
    ReadLens,      \* buffer lengths handed to pseudo_tcp_socket_recv
    MaxBytes,      \* end -> bound on the bytes its user writes
    MaxNet,        \* bound on the packets in flight
    MaxFaults,     \* bound on the faults of a behaviour
    MaxTimeouts,   \* bound on retransmission timeouts
    MaxFins,       \* bound on the FIN segments queued by one end
    CwndCap        \* bound on the congestion window

Ends == {"L", "R"}
Peer(e) == IF e = "L" THEN "R" ELSE "L"

ASSUME SizesAssumption ==
    /\ SeqMod \in Nat /\ SBufLen \in Nat /\ MaxFins \in Nat
    /\ SBufLen + MaxFins < SeqMod \div 2 - 1
    /\ RBufLen < SeqMod \div 2 - 1 /\ SBufLen >= 7 /\ MinMss >= 7 /\ PathMss >= 7

\* Five scale factors are enough for both sizes of the receive buffer
ASSUME BuffersAssumption ==
    /\ RBufLen \in Nat \ {0} /\ DefRBufLen \in Nat \ {0} /\ MaxWire \in Nat \ {0}
    /\ RBufLen \div 16 <= MaxWire /\ DefRBufLen \div 16 <= MaxWire

ASSUME SegmentsAssumption ==
    /\ MinMss \in Nat /\ AdviseMss \in Nat \ {0} /\ CwndCap \in Nat \ {0}
    /\ Levels \in Seq(Nat \ {0}) /\ Levels # <<>>
    /\ PathMss \in Nat /\ MaxXmit \in Nat /\ MaxXmitOther \in Nat

ASSUME CallsAssumption ==
    /\ ChunkLen \in Nat /\ ReadLens \subseteq Nat /\ MaxBytes \in [Ends -> Nat]
    /\ WndScale \in [Ends -> BOOLEAN]
    /\ \A s \in Setups : s.finAck \in [Ends -> BOOLEAN]

VARIABLES
    tcp,       \* end -> socket
    net,       \* packets in flight: [to, pkt]
    wr,        \* history: end -> number of bytes its send calls accepted
    rd,        \* history: end -> the bytes its recv calls returned
    budget     \* faults and retransmission timeouts so far, and the setup

vars == <<tcp, net, wr, rd, budget>>

-----------------------------------------------------------------------------
\* Helpers

Least(a, b) == IF a < b THEN a ELSE b
Most(a, b) == IF a > b THEN a ELSE b
Sub(a, b) == (a - b) % SeqMod
Add(a, b) == (a + b) % SeqMod

\* The macros LARGER and LARGER_OR_EQUAL
Larger(a, b) == Sub(Sub(a, b), 1) < SeqMod \div 2 - 1
LargerEq(a, b) == Sub(a, b) < SeqMod \div 2 - 1

\* Drop the first n elements; keep the first n elements
DropN(s, n) == SubSeq(s, n + 1, Len(s))
TakeN(s, n) == SubSeq(s, 1, Least(n, Len(s)))

States == {"LISTEN", "SYN_SENT", "SYN_RECEIVED", "ESTABLISHED", "CLOSED",
           "FIN_WAIT_1", "FIN_WAIT_2", "CLOSING", "TIME_WAIT", "CLOSE_WAIT",
           "LAST_ACK"}

\* pseudo_tcp_state_has_sent_fin, pseudo_tcp_state_has_received_fin
has_sent_fin(s) ==
    s \in {"CLOSED", "FIN_WAIT_1", "FIN_WAIT_2", "CLOSING", "TIME_WAIT", "LAST_ACK"}
has_received_fin(s) ==
    s \in {"CLOSED", "CLOSING", "TIME_WAIT", "CLOSE_WAIT", "LAST_ACK"}

\* The transitions set_state asserts to be valid
ValidTransitions ==
    {<<"CLOSED", "SYN_SENT">>, <<"SYN_SENT", "CLOSED">>, <<"CLOSED", "LISTEN">>,
     <<"LISTEN", "CLOSED">>, <<"LISTEN", "SYN_SENT">>, <<"LISTEN", "SYN_RECEIVED">>,
     <<"SYN_SENT", "SYN_RECEIVED">>, <<"SYN_RECEIVED", "ESTABLISHED">>,
     <<"SYN_SENT", "ESTABLISHED">>, <<"SYN_RECEIVED", "FIN_WAIT_1">>,
     <<"ESTABLISHED", "FIN_WAIT_1">>, <<"ESTABLISHED", "CLOSE_WAIT">>,
     <<"FIN_WAIT_1", "FIN_WAIT_2">>, <<"FIN_WAIT_1", "CLOSING">>,
     <<"CLOSE_WAIT", "LAST_ACK">>, <<"FIN_WAIT_2", "TIME_WAIT">>,
     <<"CLOSING", "TIME_WAIT">>, <<"LAST_ACK", "CLOSED">>, <<"TIME_WAIT", "CLOSED">>,
     <<"SYN_RECEIVED", "LISTEN">>, <<"FIN_WAIT_1", "TIME_WAIT">>}

\* A g_assert of the code: t.bad remembers the ones that failed
Assert(t, ok, name) == IF ok THEN t ELSE [t EXCEPT !.bad = @ \cup {name}]

set_state(t, s) ==
    IF s = t.state THEN t
    ELSE [Assert(t, <<t.state, s>> \in ValidTransitions, "transition") EXCEPT !.state = s]

\* adjustMTU: the level found is the first one within the advised size
adjustMTU(t) ==
    LET fits == {l \in 1..Len(Levels) : Levels[l] <= AdviseMss \/ l = Len(Levels)}
    IN  [t EXCEPT !.msslevel = CHOOSE l \in fits : \A m \in fits : l <= m,
                  !.mss = AdviseMss,
                  !.ssthresh = Most(@, 2 * AdviseMss),
                  !.cwnd = Most(@, AdviseMss)]

\* set_state_established, with the PseudoTcpOpened callback
set_state_established(t) ==
    [adjustMTU(set_state(t, "ESTABLISHED")) EXCEPT !.cb = @ \cup {"opened"}]

\* set_state_closed: the PseudoTcpClosed callback reports errors only
set_state_closed(t, err) ==
    [set_state(t, "CLOSED") EXCEPT !.cb = IF err = "none" THEN @ ELSE @ \cup {"closed"},
                                   !.err = IF err = "none" THEN @ ELSE err]

\* The scale factor with which a buffer of that size fits the header field
ScaleOf(size) == CHOOSE k \in 0..4 :
    /\ size \div 2^k <= MaxWire
    /\ \A j \in 0..(k - 1) : size \div 2^j > MaxWire

\* resize_receive_buffer: what the FIFO holds past its end is not copied
resize_receive_buffer(t, size) ==
    IF t.rbuf_len = size THEN t
    ELSE LET k == ScaleOf(size)
             n == (size \div 2^k) * 2^k
         IN  [Assert(t, Len(t.rbuf) <= n, "capacity") EXCEPT
                !.rbuf_len = n, !.rwnd_scale = k, !.ssthresh = n,
                !.rcv_wnd = n - Len(t.rbuf), !.ooo = [i \in {} |-> 0]]

\* pseudo_tcp_socket_init, followed by the rcv-buf property
NewSocket(e, finAck) ==
    resize_receive_buffer(
      [state |-> "LISTEN", snd_una |-> 0, snd_nxt |-> 0, snd_wnd |-> 1,
       rcv_nxt |-> 0, rcv_wnd |-> DefRBufLen, rbuf_len |-> DefRBufLen,
       rwnd_scale |-> 0, swnd_scale |-> 0, sbuf |-> <<>>, slist |-> <<>>,
       rbuf |-> <<>>, ooo |-> [i \in {} |-> 0], rlist |-> <<>>, rto |-> FALSE,
       t_ack |-> FALSE, wen |-> FALSE, mss |-> MinMss, msslevel |-> 1,
       cwnd |-> 2 * MinMss, ssthresh |-> DefRBufLen, dup_acks |-> 0,
       recover |-> 0, shutdown |-> "none", shutdown_reads |-> FALSE,
       fin_ack |-> finAck, opts |-> <<FALSE, 0, FALSE>>, err |-> "none",
       bad |-> {}, out |-> {}, cb |-> {}, idle |-> FALSE, down |-> FALSE],
      RBufLen)

-----------------------------------------------------------------------------
\* Sending

\* The segments of slist not transmitted yet are the list unsent_slist
unsent(t) == {i \in 1..Len(t.slist) : t.slist[i].xmit = 0}

\* The sequence number of the next byte queued
QueueSeq(t) == Add(t.snd_una, Len(t.sbuf))

\* The send list with n more bytes, from seq on: the last segment is extended
\* if it has the same flags and was not sent
QueueList(slist, seq, n, flags) ==
    LET k == Len(slist)
    IN  IF k > 0 /\ slist[k].flags = flags /\ slist[k].xmit = 0
        THEN [slist EXCEPT ![k].len = @ + n]
        ELSE Append(slist, [seq |-> seq, len |-> n, flags |-> flags, xmit |-> 0])

\* queue: what the send buffer has no room for is left out
queue(t, bytes, flags) ==
    LET room == SBufLen - Len(t.sbuf)
        u    == Assert(t, Len(bytes) <= room \/ flags = "none", "control")
        d    == TakeN(bytes, room)
    IN  [u EXCEPT !.slist = QueueList(@, QueueSeq(t), Len(d), flags), !.sbuf = @ \o d]

\* queue_connect_message: the window opens for just this message
queue_connect_message(t, e) ==
    LET size == 1 + (IF WndScale[e] THEN 3 ELSE 0) + (IF t.fin_ack THEN 3 ELSE 0)
    IN  queue([t EXCEPT !.snd_wnd = size,
                        !.opts = <<WndScale[e], t.rwnd_scale, t.fin_ack>>],
              [i \in 1..size |-> 0], "ctl")

queue_fin_message(t) == queue(Assert(t, t.fin_ack, "fin_ack"), <<>>, "fin")
queue_rst_message(t) == queue(Assert(t, t.fin_ack, "fin_ack"), <<>>, "rst")

\* packet: build a segment and hand it to the WritePacket callback; for an
\* empty one the result of the callback is not looked at
packet(t, seq, flags, data) ==
    [t EXCEPT !.out = IF t.down THEN @
                      ELSE @ \cup {[seq |-> seq, ack |-> t.rcv_nxt, flags |-> flags,
                                    wnd |-> t.rcv_wnd \div 2^t.rwnd_scale, data |-> data,
                                    opts |-> IF flags = "ctl" THEN t.opts
                                             ELSE <<FALSE, 0, FALSE>>]},
              !.t_ack = FALSE]

\* The levels transmit steps through when a payload of n bytes is too large
SmallerLevels(t, n) == {l \in (t.msslevel + 1)..Len(Levels) : Levels[l] < n}
PathLevel(t, n) ==
    LET ok == {l \in SmallerLevels(t, n) : Levels[l] <= PathMss}
    IN  IF ok = {} THEN 0 ELSE CHOOSE l \in ok : \A m \in ok : l <= m

\* Mutant: a FIN takes no sequence number
SeqLength_payload(flags, n) == n

\* The sequence numbers a segment takes: a FIN takes one
SeqLength(flags, n) == IF n = 0 /\ flags = "fin" THEN 1 ELSE n

\* Mutant: the second part keeps the sequence number of the first
Split_seq(seg, n) == <<[seg EXCEPT !.len = n], [seg EXCEPT !.len = @ - n]>>

\* A segment cut after n bytes, as transmit and attempt_send do
Split(seg, n) ==
    <<[seg EXCEPT !.len = n], [seg EXCEPT !.seq = Add(@, n), !.len = @ - n]>>

\* transmit, once the payload length n is settled: split what is longer, and
\* account for a first transmission
Transmitted(t, i, n) ==
    LET seg  == t.slist[i]
        off  == Sub(seg.seq, t.snd_una)
        u    == Assert(packet(t, seg.seq, seg.flags, TakeN(DropN(t.sbuf, off), n)),
                       off + n <= Len(t.sbuf), IF n = 0 THEN "acked" ELSE "data")
    IN  [u EXCEPT
           !.slist = TakeN(@, i - 1)
                     \o <<[seg EXCEPT !.len = n, !.xmit = @ + 1]>>
                     \o (IF n < seg.len THEN Tail(Split(seg, n)) ELSE <<>>)
                     \o DropN(@, i),
           !.snd_nxt = IF seg.xmit > 0 THEN @
                       ELSE Add(@, SeqLength(seg.flags, n)),
           !.rto = TRUE]

\* transmit segment i of slist; ok is the value returned
transmit(t, i) ==
    LET seg   == t.slist[i]
        n     == Least(seg.len, t.mss)
        limit == IF t.state = "ESTABLISHED" THEN MaxXmit ELSE MaxXmitOther
        l     == PathLevel(t, n)
    IN  CASE seg.xmit >= limit \/ (n > 0 /\ t.down) -> [ok |-> FALSE, t |-> t]
          [] seg.xmit < limit /\ ~(n > 0 /\ t.down) /\ n <= PathMss ->
                [ok |-> TRUE, t |-> Transmitted(t, i, n)]
          [] seg.xmit < limit /\ ~(n > 0 /\ t.down) /\ n > PathMss /\ l = 0 ->
                [ok |-> FALSE, t |-> [t EXCEPT !.msslevel = Len(Levels),
                                               !.mss = Levels[Len(Levels)],
                                               !.cwnd = 2 * Levels[Len(Levels)]]]
          [] OTHER ->
                [ok |-> TRUE,
                 t |-> Transmitted([t EXCEPT !.msslevel = l, !.mss = Levels[l],
                                             !.cwnd = 2 * Levels[l]], i, Levels[l])]

\* Half of what is in flight, but two segments at least
HalfFlight(t) == Most(Sub(t.snd_nxt, t.snd_una) \div 2, 2 * t.mss)

\* The first segment again, of a list the callers take not to be empty
TransmitFirst(t) ==
    IF t.slist = <<>> THEN [ok |-> FALSE, t |-> Assert(t, FALSE, "slist")] ELSE transmit(t, 1)

\* The bytes attempt_send may send now: within the peer's and the congestion
\* window, at most a segment, nothing if that would only be a small part
Available(t) ==
    LET limited == IF t.dup_acks \in {1, 2} THEN t.dup_acks * t.mss ELSE 0
        nWindow == Least(t.snd_wnd, t.cwnd + limited)
        flight  == Sub(t.snd_nxt, t.snd_una)
        usable  == IF flight < nWindow THEN nWindow - flight ELSE 0
        avail   == IF Len(t.sbuf) < flight THEN 0
                   ELSE Least(Len(t.sbuf) - flight, t.mss)
    IN  IF avail <= usable THEN avail
        ELSE IF usable * 4 < nWindow THEN 0 ELSE usable

\* One turn of the loop of attempt_send, from [t, flags, done]
SendTurn(s) ==
    LET t     == s.t
        force == s.flags \in {"sfFin", "sfRst"}
        avail == Available(t)
        i     == IF unsent(t) = {} THEN 0
                 ELSE CHOOSE k \in unsent(t) : \A j \in unsent(t) : k <= j
        seg   == t.slist[i]
        cut   == [t EXCEPT !.slist = TakeN(@, i - 1) \o Split(seg, avail) \o DropN(@, i)]
        Sent(r) == [t |-> r.t, done |-> ~r.ok, flags |-> IF force THEN s.flags ELSE "sfNone"]
    IN  IF avail = 0 /\ ~force
        THEN [s EXCEPT !.done = TRUE,
                !.t = CASE s.flags = "sfNone" -> t
                        [] s.flags = "sfImmediateAck" \/ (s.flags = "sfDelayedAck" /\ t.t_ack) ->
                              packet(t, t.snd_nxt, "none", <<>>)
                        [] OTHER -> [t EXCEPT !.t_ack = TRUE]]
        ELSE IF \/ Nagle /\ ~force /\ t.snd_nxt > t.snd_una /\ avail < t.mss
                \/ i = 0
        THEN [s EXCEPT !.done = TRUE]
        ELSE Sent(transmit(IF seg.len > avail /\ ~force THEN cut ELSE t, i))

\* The loop: a turn transmits a segment or is the last one
SendLoop(s) == IF s.done THEN s ELSE SendTurn(s)

\* attempt_send, with as many turns as there can be
attempt_send(t, flags) ==
    LET start == [t |-> IF t.idle THEN [t EXCEPT !.cwnd = t.mss] ELSE t,
                  flags |-> flags, done |-> FALSE]
        turns == Len(t.sbuf) + Len(t.slist) + 1
        turn[n \in 0..turns] == IF n = 0 THEN start ELSE SendLoop(turn[n - 1])
    IN  turn[turns].t

\* closedown: reset the peer if the error is local, and reach CLOSED along
\* the transitions set_state accepts
closedown(t, err, source) ==
    LET Told ==
          CASE source = "LOCAL" /\ t.fin_ack -> attempt_send(queue_rst_message(t), "sfRst")
            [] source = "LOCAL" /\ ~t.fin_ack -> [t EXCEPT !.shutdown = "forceful"]
            [] OTHER -> t
        Unwound(u) ==
          CASE u.state \in {"SYN_RECEIVED", "ESTABLISHED"} ->
                 set_state(set_state(set_state(u, "FIN_WAIT_1"), "FIN_WAIT_2"), "TIME_WAIT")
            [] u.state = "FIN_WAIT_1" -> set_state(set_state(u, "FIN_WAIT_2"), "TIME_WAIT")
            [] u.state \in {"FIN_WAIT_2", "CLOSING"} -> set_state(u, "TIME_WAIT")
            [] u.state = "CLOSE_WAIT" -> set_state(u, "LAST_ACK")
            [] OTHER -> u
    IN  set_state_closed(Unwound(Told), err)

-----------------------------------------------------------------------------
\* Receiving

\* parse_options: a peer without window scaling takes the scaled buffer back
\* to the default size, one without FIN-ACK disables it here too
parse_options(t, opts) ==
    LET u == IF opts[1] THEN [t EXCEPT !.swnd_scale = opts[2]]
             ELSE IF t.rwnd_scale > 0
             THEN [resize_receive_buffer(t, DefRBufLen) EXCEPT !.swnd_scale = 0]
             ELSE t
    IN  [u EXCEPT !.fin_ack = opts[3]]

\* The FLAG_CTL part of process
ProcessControl(t, seg, e) ==
    LET Control(u) ==
          CASE u.state = "LISTEN" -> queue_connect_message(set_state(u, "SYN_RECEIVED"), e)
            [] u.state = "SYN_SENT" -> set_state_established(u)
            [] OTHER -> u
    IN  IF seg.flags = "ctl" THEN Control(parse_options(t, seg.opts)) ELSE t

\* Free n acknowledged bytes from the head of slist; an empty segment at the
\* head stays when nothing is left to free
FreeSegments(slist, n) ==
    LET bytes[i \in 0..Len(slist)] == IF i = 0 THEN 0 ELSE bytes[i - 1] + slist[i].len
        \* k: the segments the loop frees, the last of them by its last byte
        whole == {i \in 0..Len(slist) : bytes[i] <= n /\ (i = 0 \/ bytes[i - 1] < n)}
        k     == CHOOSE i \in whole : \A j \in whole : j <= i
        part  == n - bytes[k]
        tail  == DropN(slist, k)
    IN  IF part = 0 \/ tail = <<>> THEN tail
        ELSE <<[tail[1] EXCEPT !.len = @ - part, !.seq = Add(@, part)]>> \o Tail(tail)

\* Recovery or slow start after a valuable acknowledgement; [ok, t]
Congestion(t, nAcked) ==
    LET flight == Sub(t.snd_nxt, t.snd_una)
        capped(w) == Least(w, CwndCap)
        Resent(r) ==
          [r EXCEPT !.t.cwnd = IF r.ok THEN capped(@ + r.t.mss - Least(nAcked, @)) ELSE @]
    IN  CASE t.dup_acks >= 3 /\ LargerEq(t.snd_una, t.recover) ->
                [ok |-> TRUE, t |-> [t EXCEPT !.cwnd = Least(t.ssthresh, flight + t.mss),
                                              !.dup_acks = 0]]
          [] t.dup_acks >= 3 /\ ~LargerEq(t.snd_una, t.recover) ->
                Resent(TransmitFirst(t))
          [] OTHER ->
                [ok |-> TRUE,
                 t |-> [t EXCEPT !.dup_acks = 0,
                          !.cwnd = capped(IF @ < t.ssthresh THEN @ + t.mss
                                          ELSE @ + Most(1, (t.mss * t.mss) \div @))]]

\* Mutant: the sequence number of the FIN is taken for a byte
FinAcked_never(t, n) == FALSE

\* Do n more acknowledged sequence numbers include the one of our FIN?
FinAcked(t, n) == n = Len(t.sbuf) + 1 /\ has_sent_fin(t.state)

\* Mutant: an acknowledgement always stops the timer
RtoAfterAck_stop(t, ack) == FALSE

\* The retransmission timer runs on while something is not acknowledged
RtoAfterAck(t, ack) == ack # t.snd_nxt

\* A valuable acknowledgement; [ok, fin, t], where fin says our FIN was acked
ValuableAck(t, seg) ==
    LET n   == Sub(seg.ack, t.snd_una)
        fin == FinAcked(t, n)
        m   == IF fin THEN n - 1 ELSE n
        u   == [Assert(t, m <= Len(t.sbuf), "consume") EXCEPT
                  !.snd_wnd = seg.wnd * 2^t.swnd_scale, !.snd_una = seg.ack,
                  !.rto = RtoAfterAck(t, seg.ack),
                  !.sbuf = DropN(@, m), !.slist = FreeSegments(@, m)]
        Result(r) == [ok |-> r.ok, fin |-> fin, t |-> r.t]
    IN  Result(Congestion(u, m))

\* A duplicate acknowledgement: the third starts fast retransmission.  Counts
\* above three are alike (the 8-bit counter of the code may also wrap)
DuplicateAck(t, seg) ==
    LET u == [t EXCEPT !.snd_wnd = seg.wnd * 2^t.swnd_scale]
        d == [u EXCEPT !.dup_acks = Least(@ + 1, 4)]
        Halved(v, half) == [v EXCEPT !.recover = v.snd_nxt, !.ssthresh = half,
                                     !.cwnd = Least(half + 3 * v.mss, CwndCap)]
        Resent(r) == [ok |-> r.ok, fin |-> FALSE,
                      t |-> IF r.ok THEN Halved(r.t, HalfFlight(r.t)) ELSE r.t]
    IN  CASE seg.data # <<>> -> [ok |-> TRUE, fin |-> FALSE, t |-> u]
          [] seg.data = <<>> /\ t.snd_una = t.snd_nxt ->
                [ok |-> TRUE, fin |-> FALSE, t |-> [u EXCEPT !.dup_acks = 0]]
          [] seg.data = <<>> /\ t.snd_una # t.snd_nxt /\ t.dup_acks = 2 ->
                Resent(TransmitFirst(d))
          [] seg.data = <<>> /\ t.snd_una # t.snd_nxt /\ t.dup_acks < 2 ->
                [ok |-> TRUE, fin |-> FALSE, t |-> d]
          [] OTHER -> [ok |-> TRUE, fin |-> FALSE,
                       t |-> [d EXCEPT !.cwnd = Least(@ + t.mss, CwndCap)]]

\* The acknowledgement part of process
ProcessAck(t, seg) ==
    CASE Larger(seg.ack, t.snd_una) /\ LargerEq(t.snd_nxt, seg.ack) -> ValuableAck(t, seg)
      [] seg.ack = t.snd_una -> DuplicateAck(t, seg)
      [] OTHER -> [ok |-> TRUE, fin |-> FALSE, t |-> t]

\* The closing state machine of process: a FIN counts whatever its sequence
\* number, finAcked is the acknowledgement of our own
ProcessFin(t, seg, finAcked) ==
    LET fin == seg.flags = "fin"
    IN  CASE ~t.fin_ack -> t
          [] t.fin_ack /\ t.state = "ESTABLISHED" /\ fin -> set_state(t, "CLOSE_WAIT")
          [] t.fin_ack /\ t.state = "CLOSING" /\ finAcked -> set_state(t, "TIME_WAIT")
          [] t.fin_ack /\ t.state = "LAST_ACK" /\ finAcked -> set_state_closed(t, "none")
          [] t.fin_ack /\ t.state = "FIN_WAIT_1" /\ finAcked /\ fin -> set_state(t, "TIME_WAIT")
          [] t.fin_ack /\ t.state = "FIN_WAIT_1" /\ finAcked /\ ~fin -> set_state(t, "FIN_WAIT_2")
          [] t.fin_ack /\ t.state = "FIN_WAIT_1" /\ ~finAcked /\ fin -> set_state(t, "CLOSING")
          [] t.fin_ack /\ t.state = "FIN_WAIT_2" /\ fin -> set_state(t, "TIME_WAIT")
          [] OTHER -> t

\* Mutant: a segment out of order is written at the next byte expected
WriteOffset_front(t, off, data) ==
    [t EXCEPT !.ooo = [i \in DOMAIN @ \cup (0..(Len(data) - 1)) |->
                         IF i < Len(data) THEN data[i + 1] ELSE @[i]]]

\* pseudo_tcp_fifo_write_offset past the data of the receive buffer; offsets
\* count from the next byte expected
WriteOffset(t, off, data) ==
    [t EXCEPT !.ooo = [i \in DOMAIN @ \cup (off..(off + Len(data) - 1)) |->
                         IF i \in off..(off + Len(data) - 1) THEN data[i - off + 1] ELSE @[i]]]

\* Mutant: the window announced does not shrink with what arrives
ConsumeWrite_window(t, n) ==
    [t EXCEPT !.rbuf = @ \o [i \in 1..n |-> IF i - 1 \in DOMAIN t.ooo THEN t.ooo[i - 1] ELSE -1],
       !.ooo = [i \in {j - n : j \in {k \in DOMAIN @ : k >= n}} |-> @[i + n]],
       !.rcv_nxt = Add(@, n)]

\* pseudo_tcp_fifo_consume_write_buffer: n more bytes of the receive buffer
\* become data; one that nothing was written to is read as -1
ConsumeWrite(t, n) ==
    [Assert(t, n <= t.rbuf_len - Len(t.rbuf), "consume") EXCEPT
       !.rbuf = @ \o [i \in 1..n |-> IF i - 1 \in DOMAIN t.ooo THEN t.ooo[i - 1] ELSE -1],
       !.ooo = [i \in {j - n : j \in {k \in DOMAIN @ : k >= n}} |-> @[i + n]],
       !.rcv_nxt = Add(@, n), !.rcv_wnd = @ - n]

\* The first segment saved in rlist is taken over once the bytes received so
\* far reach it
RecoverFirst(t) ==
    LET h == t.rlist[1]
        end == Add(h.seq, h.len)
    IN  IF t.rlist = <<>> THEN t
        ELSE IF ~LargerEq(t.rcv_nxt, h.seq) THEN t
        ELSE [(IF Larger(end, t.rcv_nxt) THEN ConsumeWrite(t, Sub(end, t.rcv_nxt)) ELSE t)
              EXCEPT !.rlist = Tail(@)]

\* They are taken over one by one
Recover(t) ==
    LET step[n \in 0..Len(t.rlist)] == IF n = 0 THEN t ELSE RecoverFirst(step[n - 1])
    IN  step[Len(t.rlist)]

\* A segment out of order is saved in rlist, sorted by sequence number
Save(t, seq, len) ==
    LET before == {i \in 1..Len(t.rlist) :
                     \A j \in 1..i : Larger(seq, t.rlist[j].seq)}
        k == Cardinality(before)
    IN  [t EXCEPT !.rlist = TakeN(@, k) \o <<[seq |-> seq, len |-> len]>> \o DropN(@, k)]

\* What a segment [seq, data] has that was not received before
FreshPart(t, seg) ==
    LET old == IF Larger(t.rcv_nxt, seg.seq) THEN Sub(t.rcv_nxt, seg.seq) ELSE 0
    IN  IF old < Len(seg.data) THEN [seq |-> Add(seg.seq, old), data |-> DropN(seg.data, old)]
        ELSE [seq |-> seg.seq, data |-> <<>>]

\* What of it the receive buffer has room for
FittingPart(t, f) ==
    LET over == Sub(f.seq, t.rcv_nxt) + Len(f.data) - (t.rbuf_len - Len(t.rbuf))
    IN  IF over > 0 THEN [f EXCEPT !.data = TakeN(@, Most(0, Len(@) - over))] ELSE f

\* The acknowledgement a segment asks for
AckFor(t, seg) ==
    CASE seg.seq # t.rcv_nxt -> "sfImmediateAck"
      [] seg.seq = t.rcv_nxt /\ seg.data # <<>> ->
            IF AckDelay THEN "sfDelayedAck" ELSE "sfImmediateAck"
      [] OTHER -> IF seg.flags = "fin" THEN "sfImmediateAck" ELSE "sfNone"

\* The data part of process, with the acknowledgement it asks for
ProcessData(t, seg) ==
    LET fin == seg.flags = "fin"
        ack == AckFor(t, seg)
        Taken(u, next) ==
          [t |-> [u EXCEPT !.cb = @ \cup {"readable"}],
           ack |-> IF u.rcv_nxt # next THEN "sfImmediateAck" ELSE ack]
        Skip(u, f, n) == IF f.seq = u.rcv_nxt THEN [u EXCEPT !.rcv_nxt = Add(@, n)] ELSE u
        Store(u, f, n) ==
          IF fin THEN [t |-> Skip(u, f, 1), ack |-> ack]
          ELSE IF n = 0 \/ seg.flags = "ctl" \/ (~u.fin_ack /\ u.shutdown # "none")
          THEN [t |-> Skip(u, f, n), ack |-> ack]
          ELSE IF f.seq = u.rcv_nxt
          THEN Taken(Recover(ConsumeWrite(WriteOffset(u, 0, f.data), n)), Add(u.rcv_nxt, n))
          ELSE [t |-> Save(WriteOffset(u, Sub(f.seq, u.rcv_nxt), f.data), f.seq, n), ack |-> ack]
        Fit(u, f) == Store(u, f, Len(f.data))
        Place(u) == Fit(u, FittingPart(u, FreshPart(u, seg)))
    IN  Place(IF fin /\ seg.seq = t.rcv_nxt /\ seg.data = <<>>
              THEN [t EXCEPT !.rcv_nxt = Add(@, 1)] ELSE t)

\* process, once the acknowledgement was handled
ProcessRest(t, seg, finAcked) ==
    LET opened == IF t.state = "SYN_RECEIVED" /\ seg.flags # "ctl"
                  THEN set_state_established(t) ELSE t
        Writable(v) == IF v.wen /\ Len(v.sbuf) < (SBufLen + v.rbuf_len) \div 2
                       THEN [v EXCEPT !.wen = FALSE, !.cb = @ \cup {"writable"}] ELSE v
        Send(d) == attempt_send(d.t, d.ack)
    IN  Send(ProcessData(Writable(ProcessFin(opened, seg, finAcked)), seg))

\* process (reached through pseudo_tcp_socket_notify_packet and parse)
process(t, seg, e) ==
    LET Acked(a) == IF a.ok THEN ProcessRest(a.t, seg, a.fin)
                    ELSE closedown(a.t, "ECONNABORTED", "LOCAL")
    IN  CASE t.state = "CLOSED" \/ (has_sent_fin(t.state) /\ seg.data # <<>>) ->
                IF seg.flags = "rst" THEN t ELSE closedown(t, "none", "LOCAL")
          [] ~(t.state = "CLOSED" \/ (has_sent_fin(t.state) /\ seg.data # <<>>))
             /\ seg.flags = "rst" -> closedown(t, "ECONNRESET", "REMOTE")
          [] OTHER -> Acked(ProcessAck(ProcessControl(t, seg, e), seg))

-----------------------------------------------------------------------------
\* Actions: one call of the interface each, made by one end

Init ==
    /\ \E s \in Setups :
         /\ tcp = [e \in Ends |-> NewSocket(e, s.finAck[e])]
         /\ budget = [faults |-> 0, rto |-> 0, openers |-> s.openers, hows |-> s.hows,
                      kinds |-> s.faults]
    /\ net = {}
    /\ wr = [e \in Ends |-> 0]
    /\ rd = [e \in Ends |-> <<>>]

\* The socket at the start of a call: is it idle, does the writer fail?
Enter(e, idle, down) == [tcp[e] EXCEPT !.idle = idle, !.down = down]

\* What is never read again is forgotten, to keep the state space small: most
\* of a closed socket, and all of a reset segment but its flag
Rest(t) ==
    IF t.state # "CLOSED" THEN t
    ELSE [t EXCEPT !.slist = Keep(@, {@[i] : i \in unsent(t)}), !.rto = FALSE,
                   !.t_ack = FALSE, !.wen = FALSE, !.cwnd = 0, !.ssthresh = 0,
                   !.dup_acks = 0, !.recover = 0, !.snd_wnd = 0, !.rlist = <<>>,
                   !.ooo = [i \in {} |-> 0], !.rbuf = <<>>]
OnWire(p) == IF p.flags = "rst" THEN [p EXCEPT !.seq = 0, !.ack = 0, !.wnd = 0] ELSE p

\* The end of a call: the packets written are in flight
Leave(e, t, rest) ==
    LET pkts == {[to |-> Peer(e), pkt |-> OnWire(p)] : p \in t.out}
    IN  /\ tcp' = [tcp EXCEPT ![e] = [Rest(t) EXCEPT !.out = {}, !.cb = {}, !.idle = FALSE,
                                                     !.down = FALSE]]
        /\ net' = rest \cup pkts
        /\ Cardinality(net') <= MaxNet

\* A call may find the writer failing a bounded number of times
Down(down) ==
    /\ down => budget.faults < MaxFaults
    /\ budget' = [budget EXCEPT !.faults = IF down THEN @ + 1 ELSE @]

Downs == IF "fail" \in budget.kinds THEN BOOLEAN ELSE {FALSE}

\* pseudo_tcp_socket_connect
connect(e, idle, down) ==
    /\ e \in budget.openers /\ tcp[e].state = "LISTEN"
    /\ LET t == set_state(Enter(e, idle, down), "SYN_SENT")
       IN  Leave(e, attempt_send(queue_connect_message(t, e), "sfNone"), net)
    /\ Down(down) /\ UNCHANGED <<wr, rd>>

\* pseudo_tcp_socket_send: a full buffer asks for the writable callback
send(e, idle, down) ==
    /\ tcp[e].state = "ESTABLISHED" /\ wr[e] < MaxBytes[e]
    /\ LET t    == Enter(e, idle, down)
           want == Least(ChunkLen, MaxBytes[e] - wr[e])
           n    == Least(want, SBufLen - Len(t.sbuf))
           u    == attempt_send(queue(t, [i \in 1..n |-> wr[e] + i], "none"), "sfNone")
       IN  IF n = 0
           THEN /\ ~t.wen /\ Leave(e, [t EXCEPT !.wen = TRUE], net)
                /\ UNCHANGED wr
           ELSE /\ Leave(e, [u EXCEPT !.wen = @ \/ n < want], net)
                /\ wr' = [wr EXCEPT ![e] = @ + n]
    /\ Down(down) /\ UNCHANGED rd

\* pseudo_tcp_socket_recv returns 0, end of stream, once the peer's FIN has
\* arrived or reading was shut down
AtEnd(t) == IF t.fin_ack THEN t.shutdown_reads \/ has_received_fin(t.state)
            ELSE t.state = "CLOSED"

\* pseudo_tcp_socket_recv: a window that was closed is announced as soon as it
\* opens
recv(e, len, idle, down) ==
    LET t     == Enter(e, idle, down)
        got   == TakeN(t.rbuf, len)
        space == t.rbuf_len - (Len(t.rbuf) - Len(got))
        open  == space - t.rcv_wnd >= Least(t.rbuf_len \div 2, t.mss)
        u     == [t EXCEPT !.rbuf = DropN(@, Len(got)), !.rcv_wnd = IF open THEN space ELSE @]
    IN  /\ ~AtEnd(t) /\ got # <<>>
        /\ t.fin_ack \/ t.state = "ESTABLISHED"
        /\ rd' = [rd EXCEPT ![e] = @ \o got]
        /\ Leave(e, IF open /\ t.rcv_wnd = 0 THEN attempt_send(u, "sfImmediateAck") ELSE u, net)
        /\ Down(down) /\ UNCHANGED wr

\* pseudo_tcp_socket_shutdown; how is "RD", "WR" or "RDWR"
shutdown(e, how, idle, down) ==
    /\ tcp[e].state # "CLOSED"
    /\ LET t0 == Enter(e, idle, down)
           t  == IF how \in {"RD", "RDWR"} THEN [t0 EXCEPT !.shutdown_reads = TRUE] ELSE t0
           f  == attempt_send(queue_fin_message(t), "sfFin")
       IN  Leave(e,
             CASE ~t0.fin_ack -> [t0 EXCEPT !.shutdown = IF @ = "none" THEN "graceful" ELSE @]
               [] t0.fin_ack /\ how = "RD" -> t
               [] t0.fin_ack /\ how # "RD" /\ t.state \in {"LISTEN", "SYN_SENT"} ->
                     set_state_closed(t, "none")
               [] t0.fin_ack /\ how # "RD" /\ t.state \in {"SYN_RECEIVED", "ESTABLISHED"} ->
                     IF t.state = "ESTABLISHED" /\ t.rbuf # <<>>
                     THEN closedown(t, "ECONNABORTED", "LOCAL")
                     ELSE set_state(f, "FIN_WAIT_1")
               [] t0.fin_ack /\ how # "RD" /\ t.state = "CLOSE_WAIT" -> set_state(f, "LAST_ACK")
               [] OTHER -> t, net)
    /\ Down(down) /\ UNCHANGED <<wr, rd>>

\* pseudo_tcp_socket_close with force; without, it is a shutdown of "RDWR"
close(e, idle, down) ==
    /\ "FORCE" \in budget.hows /\ tcp[e].state # "CLOSED"
    /\ Leave(e, closedown(Enter(e, idle, down), "ECONNABORTED", "LOCAL"), net)
    /\ Down(down) /\ UNCHANGED <<wr, rd>>

\* The part of pseudo_tcp_socket_notify_clock before the timers: TIME-WAIT
\* ends, LAST-ACK queues its FIN again
ClockState(t) ==
    CASE t.fin_ack /\ t.state = "TIME_WAIT" -> set_state_closed(t, "none")
      [] t.fin_ack /\ t.state = "LAST_ACK" -> attempt_send(queue_fin_message(t), "sfFin")
      [] OTHER -> t

\* Its retransmission timer; [ok, t]
ClockRetransmit(t) ==
    LET Resent(r) ==
          IF ~r.ok THEN r
          ELSE [r EXCEPT !.t.ssthresh = HalfFlight(r.t), !.t.cwnd = r.t.mss]
    IN  Resent(TransmitFirst(t))

\* Its timers in turn: retransmission, the probe of a closed window, the
\* delayed acknowledgement
ClockTimers(t, due) ==
    LET Retransmitted(u) ==
          IF u.rto /\ "rto" \in due THEN ClockRetransmit(u) ELSE [ok |-> TRUE, t |-> u]
        shut(u) == u.snd_wnd = 0 /\ "probe" \in due
        Probed(u) == IF shut(u) THEN packet(u, Sub(u.snd_nxt, 1), "none", <<>>) ELSE u
        Acked(u) == IF u.t_ack /\ "ack" \in due THEN packet(u, u.snd_nxt, "none", <<>>) ELSE u
        Finish(r) == IF ~r.ok \/ (shut(r.t) /\ "dead" \in due)
                     THEN closedown(r.t, "ECONNABORTED", "LOCAL") ELSE Acked(Probed(r.t))
    IN  Finish(Retransmitted(t))

\* pseudo_tcp_socket_notify_clock: due are the timers that have run out, of
\* "rto", "probe" (of a closed window), "dead" (15 s of silence) and "ack"
notify_clock(e, due, idle, down) ==
    /\ tcp[e].state # "CLOSED" /\ ("rto" \in due => budget.rto < MaxTimeouts)
    /\ tcp[e].state = "LAST_ACK" =>
         Cardinality({i \in 1..Len(tcp[e].slist) : tcp[e].slist[i].flags = "fin"}) < MaxFins
    /\ Leave(e, ClockTimers(ClockState(Enter(e, idle, down)), due), net)
    /\ tcp' # tcp \/ net' # net
    /\ down => budget.faults < MaxFaults
    /\ budget' = [budget EXCEPT !.faults = IF down THEN @ + 1 ELSE @,
                                !.rto = IF "rto" \in due THEN @ + 1 ELSE @]
    /\ UNCHANGED <<wr, rd>>

\* What can be due at a call; two timers due at once act as at two calls
Timers(t) ==
    {{}} \cup (IF t.rto THEN {{"rto"}} ELSE {}) \cup (IF t.t_ack THEN {{"ack"}} ELSE {})
    \cup (IF t.snd_wnd = 0 THEN {{"probe"}, {"probe", "dead"}} ELSE {})

\* pseudo_tcp_socket_get_next_clock, as far as it changes the socket: without
\* FIN-ACK it is what closes the socket after a shutdown
get_next_clock(e) ==
    LET t == tcp[e]
    IN  /\ \/ t.shutdown = "forceful"
           \/ /\ t.shutdown = "graceful"
              /\ t.state # "ESTABLISHED" \/ (t.sbuf = <<>> /\ ~t.t_ack)
        /\ t.state # "CLOSED"
        /\ Leave(e, closedown(t, "none", "REMOTE"), net)
        /\ UNCHANGED <<wr, rd, budget>>

\* pseudo_tcp_socket_notify_packet
notify_packet(m, idle, down) ==
    /\ Leave(m.to, process(Enter(m.to, idle, down), m.pkt, m.to), net \ {m})
    /\ Down(down) /\ UNCHANGED <<wr, rd>>

\* The network duplicates a packet (delivers it and keeps it) or loses one
Duplicate(m) ==
    /\ "dup" \in budget.kinds /\ budget.faults < MaxFaults
    /\ Leave(m.to, process(tcp[m.to], m.pkt, m.to), net)
    /\ budget' = [budget EXCEPT !.faults = @ + 1] /\ UNCHANGED <<wr, rd>>

Lose(m) ==
    /\ "loss" \in budget.kinds /\ budget.faults < MaxFaults
    /\ net' = net \ {m}
    /\ budget' = [budget EXCEPT !.faults = @ + 1] /\ UNCHANGED <<tcp, wr, rd>>

Next ==
    \/ \E e \in Ends, idle \in Idles, down \in Downs :
         \/ connect(e, idle, down)
         \/ send(e, idle, down)
         \/ \E len \in ReadLens : recv(e, len, idle, down)
         \/ \E how \in budget.hows \ {"FORCE"} : shutdown(e, how, idle, down)
         \/ close(e, idle, down)
         \/ \E due \in Timers(tcp[e]) : notify_clock(e, due, idle, down)
         \/ \E m \in net : m.to = e /\ notify_packet(m, idle, down)
    \/ \E e \in Ends : get_next_clock(e)
    \/ \E m \in net : Duplicate(m) \/ Lose(m)

Spec == Init /\ [][Next]_vars

-----------------------------------------------------------------------------
\* Properties

\* No assertion of the code fails but the one of AckedNotResent: the state
\* transitions are valid, buffers are consumed within their data, the
\* retransmission timer never runs with an empty send list
NoAssertFails == \A e \in Ends : tcp[e].bad \subseteq {"acked"}

\* "The packet must not have already been acknowledged": the assertion of
\* transmit about the segment it is given
AckedNotResent == \A e \in Ends : "acked" \notin tcp[e].bad

\* The stream of bytes the two sockets implement: see ByteStream
Stream == INSTANCE ByteStream WITH Ends <- Ends, Peer <- Peer, written <- wr, read <- rd
StreamSpec == Stream!Spec

\* The segments of the send list cover the send buffer without gap or overlap,
\* starting at the first byte not acknowledged: queue, the two ways a segment
\* is split and the freeing of acknowledged bytes agree on it
SendListCovers == \A e \in Ends :
    LET t == tcp[e]
        before[i \in 0..Len(t.slist)] ==
            IF i = 0 THEN 0 ELSE before[i - 1] + t.slist[i].len
    IN  t.state # "CLOSED" =>
          /\ before[Len(t.slist)] = Len(t.sbuf)
          /\ \A i \in 1..Len(t.slist) :
               t.slist[i].len > 0 => t.slist[i].seq = Add(t.snd_una, before[i - 1])

\* Bytes in flight always have the retransmission timer running; otherwise
\* their loss would never be repaired
InFlightTimed == \A e \in Ends :
    tcp[e].state # "CLOSED" /\ tcp[e].snd_una # tcp[e].snd_nxt => tcp[e].rto

\* The window a socket announces never exceeds the room its buffer has, so
\* bytes sent within it are not thrown away
WindowFits == \A e \in Ends :
    tcp[e].state # "CLOSED" => tcp[e].rcv_wnd \in 0..(tcp[e].rbuf_len - Len(tcp[e].rbuf))

\* What one end takes as acknowledged the other has received, and what it has
\* received was sent: the two views of a stream are ordered, modulo 2^32
ViewsOrdered == \A e \in Ends :
    LET t == tcp[e]
        u == tcp[Peer(e)]
    IN  /\ LargerEq(u.rcv_nxt, t.snd_una)
        /\ LargerEq(t.snd_nxt, u.rcv_nxt)

=============================================================================
