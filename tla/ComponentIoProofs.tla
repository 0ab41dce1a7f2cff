------------------------- MODULE ComponentIoProofs -------------------------
(***************************************************************************)
(* Proofs about ComponentIo, for any packets, callbacks, reads, writes and *)
(* removals by the threads: data that wait on their way to the client are  *)
(* always moved on by somebody, a writer that waits is woken, and nothing  *)
(* runs with a component freed while no caller of its own was using it.    *)
(*                                                                         *)
(* The invariant is about the component's record; each helper has a lemma  *)
(* that says what it keeps and what it leaves alone.                       *)
(***************************************************************************)
EXTENDS ComponentIo, Recursion, FiniteSetTheorems, SequenceTheorems

-----------------------------------------------------------------------------
\* Types, as far as the properties depend on them

Fields == {"alive", "reliable", "state", "cb", "ctx", "recv", "attached", "net", "coming",
           "pending", "id", "sources", "selected", "queued", "tcp", "buf", "readable",
           "clock", "sbuf", "writeEnable", "cancelled", "signals", "flying", "media",
           "keepalive", "socks", "age", "polled", "polledAge", "used", "delivered",
           "dropped", "received", "slow", "heard", "raced", "exposed",
           "dangling"}

\* What may be meant for pseudo-TCP
Segments == {p \in Packets : p.kind # "stun"}
TcpStates == {"closed", "connecting", "established", "finished", "closing"}

Shape(g) ==
    /\ DOMAIN g = Fields
    /\ g.alive \in BOOLEAN /\ g.reliable \in BOOLEAN /\ g.cb \in BOOLEAN
    /\ g.attached \in BOOLEAN /\ g.selected \in BOOLEAN /\ g.readable \in BOOLEAN
    /\ g.writeEnable \in BOOLEAN /\ g.cancelled \in BOOLEAN
    /\ g.tcp \in TcpStates /\ g.sbuf \in 0 .. SendBuffer
    /\ g.net \in Seq(Packets) /\ g.coming \in Seq(Packets) /\ g.queued \in Seq(Segments)
    /\ IsFiniteSet(g.sources)

-----------------------------------------------------------------------------
\* The inductive invariant, as predicates on the component

\* A removed component has no pseudo-TCP, no idle source and no socket; a
\* callback is attached to the main context; the pseudo-TCP socket is opened
\* after a pair was selected, for a reliable agent only; a writer that is not
\* told to go on will be.
Sound(g) ==
    /\ Shape(g)
    /\ ~g.alive => g.tcp = "closed" /\ g.id = 0 /\ ~g.attached
    /\ g.cb => g.ctx = "main"
    /\ g.tcp \notin {"closed", "connecting"} => g.selected
    /\ ~g.reliable => g.tcp = "closed"
    /\ g.tcp = "established" /\ ~g.cancelled => g.writeEnable

\* Messages that wait for a callback have an idle source
Scheduled(g) == g.alive /\ g.cb /\ g.pending # <<>> => g.id # 0

\* With a callback nothing stays in the pseudo-TCP buffer; without one, the
\* next callback is told that there is something
Emptied(g) ==
    g.tcp \in {"connecting", "established"} =>
        (g.cb => g.buf = <<>>) /\ (g.buf # <<>> => g.readable)

Good(g) == Sound(g) /\ Scheduled(g) /\ Emptied(g)

\* The writable signal is on its way, or will be sent when there is room
Signalled(g) == "writable" \in g.signals \cup g.flying
Awaited(g) == Signalled(g) \/ (g.writeEnable /\ g.sbuf > 0)

-----------------------------------------------------------------------------
\* What a helper does to the component

\* No writer that could rely on the signal loses it
Woken(g, h) ==
    h.tcp = "established" => Awaited(h) \/ (g.tcp = "established" /\ ~Awaited(g))

\* The latest idle source is what it was, or there is none, or it is attached
IdKept(g, h) ==
    h.id = 0 \/ h.id \in h.sources \/ (h.id = g.id /\ h.sources = g.sources)

Steady(g, h) ==
    /\ h.alive = g.alive /\ h.reliable = g.reliable /\ h.cb = g.cb /\ h.ctx = g.ctx
    /\ h.selected = g.selected /\ h.socks = g.socks /\ h.age = g.age /\ h.used = g.used
    /\ h.polled = g.polled /\ h.polledAge = g.polledAge
    /\ h.exposed = g.exposed /\ h.dangling = g.dangling
    /\ g.tcp = "closed" => h.tcp = "closed"

Moves(g, h) == Steady(g, h) /\ Woken(g, h) /\ IdKept(g, h)

\* The same, and no packet moved
Stays(g, h) == Moves(g, h) /\ h.net = g.net /\ h.queued = g.queued

LEMMA MovesTrans ==
  ASSUME NEW g, NEW h, NEW k, Moves(g, h), Moves(h, k)
  PROVE  Moves(g, k)
BY DEF Moves, Steady, Woken, IdKept

LEMMA StaysTrans ==
  ASSUME NEW g, NEW h, NEW k, Stays(g, h), Stays(h, k)
  PROVE  Stays(g, k)
BY MovesTrans DEF Stays

LEMMA StaysSame ==
  ASSUME NEW g
  PROVE  Stays(g, g)
BY DEF Stays, Moves, Steady, Woken, IdKept

-----------------------------------------------------------------------------
\* Signals, timers and the idle source

LEMMA Unlocked ==
  ASSUME NEW g, Good(g)
  PROVE  Good(agent_unlock_and_emit(g)) /\ Stays(g, agent_unlock_and_emit(g))
BY DEF agent_unlock_and_emit, Good, Sound, Shape, Fields, Scheduled, Emptied, Stays, Moves,
       Steady, Woken, Awaited, Signalled, IdKept

LEMMA SignalQueued ==
  ASSUME NEW g, Good(g), NEW sig
  PROVE  Good(agent_queue_signal(g, sig)) /\ Stays(g, agent_queue_signal(g, sig))
BY DEF agent_queue_signal, Good, Sound, Shape, Fields, Scheduled, Emptied, Stays, Moves,
       Steady, Woken, Awaited, Signalled, IdKept

LEMMA ClockAdjusted ==
  ASSUME NEW g, Good(g)
  PROVE  Good(adjust_tcp_clock(g)) /\ Stays(g, adjust_tcp_clock(g))
         /\ adjust_tcp_clock(g).tcp = g.tcp
BY DEF adjust_tcp_clock, Good, Sound, Shape, Fields, Scheduled, Emptied, Stays, Moves,
       Steady, Woken, Awaited, Signalled, IdKept

LEMMA ErrorStays ==
  ASSUME NEW g, Good(g)
  PROVE  Good(priv_pseudo_tcp_error(g)) /\ Stays(g, priv_pseudo_tcp_error(g))
BY DEF priv_pseudo_tcp_error, agent_queue_signal, Good, Sound, Shape, Fields, Scheduled,
       Emptied, TcpStates, Stays, Moves, Steady, Woken, Awaited, Signalled, IdKept

LEMMA MinIn ==
  ASSUME NEW I \in SUBSET Nat, I # {}
  PROVE  Least(I) \in I
BY NatMinimum DEF Least

\* There is a number for a new idle source
LEMMA FreshSource ==
  ASSUME NEW S, IsFiniteSet(S)
  PROVE  Least((1 .. Cardinality(S) + 1) \ S) \in Nat \ {0}
<1> DEFINE n == Cardinality(S)
           I == (1 .. n + 1) \ S
<1>1. n \in Nat
  BY FS_CardinalityType
<1>2. I # {}
  <2> SUFFICES ASSUME 1 .. n + 1 \subseteq S PROVE FALSE
    OBVIOUS
  <2>1. Cardinality(1 .. n + 1) <= n
    BY FS_Subset
  <2>2. Cardinality(1 .. n + 1) = n + 1
    BY <1>1, FS_Interval
  <2> QED
    BY <1>1, <2>1, <2>2
<1>3. I \in SUBSET Nat
  BY <1>1
<1>4. Least(I) \in I
  BY <1>2, <1>3, MinIn
<1> QED
  BY <1>1, <1>4

\* An idle source for the messages that wait, if there is none
LEMMA ScheduledSource ==
  ASSUME NEW g, Sound(g), g.alive
  PROVE  /\ Sound(component_schedule_io_callback(g))
         /\ Scheduled(component_schedule_io_callback(g))
         /\ Stays(g, component_schedule_io_callback(g))
         /\ component_schedule_io_callback(g).tcp = g.tcp
         /\ component_schedule_io_callback(g).buf = g.buf
         /\ component_schedule_io_callback(g).readable = g.readable
<1> DEFINE h == component_schedule_io_callback(g)
           fresh == Least((1 .. (Cardinality(g.sources) + 1)) \ g.sources)
<1>1. CASE g.id # 0 \/ g.pending = <<>>
  BY <1>1, StaysSame DEF component_schedule_io_callback, Scheduled
<1>2. CASE ~(g.id # 0 \/ g.pending = <<>>)
  <2>1. fresh # 0
    BY FreshSource DEF Sound, Shape
  <2>2. IsFiniteSet(g.sources \cup {fresh})
    BY FS_AddElement DEF Sound, Shape
  <2>3. h = [g EXCEPT !.id = fresh, !.sources = @ \cup {fresh}]
    BY <1>2 DEF component_schedule_io_callback
  <2> HIDE DEF h, fresh
  <2>4. /\ DOMAIN h = Fields /\ h.id = fresh /\ h.sources = g.sources \cup {fresh}
    BY <2>3 DEF Sound, Shape, Fields
  <2>5. Sound(h) /\ h.tcp = g.tcp /\ h.buf = g.buf /\ h.readable = g.readable
    BY <2>2, <2>3 DEF Sound, Shape, Fields
  <2>6. Stays(g, h)
    BY ZenonT(40), <2>3, <2>4 DEF Sound, Shape, Fields, Stays, Moves, Steady, Woken, Awaited, Signalled, IdKept
  <2> QED
    BY <2>1, <2>4, <2>5, <2>6 DEF h, Scheduled
<1> QED
  BY <1>1, <1>2

-----------------------------------------------------------------------------
\* Pseudo-TCP glue

LEMMA Emitted ==
  ASSUME NEW g, Sound(g), Scheduled(g), g.alive, NEW chunk, NEW owner \in BOOLEAN
  PROVE  /\ Sound(component_emit_io_callback(g, chunk, owner))
         /\ Scheduled(component_emit_io_callback(g, chunk, owner))
         /\ Stays(g, component_emit_io_callback(g, chunk, owner))
         /\ component_emit_io_callback(g, chunk, owner).tcp = g.tcp
         /\ component_emit_io_callback(g, chunk, owner).buf = g.buf
         /\ component_emit_io_callback(g, chunk, owner).readable = g.readable
<1> DEFINE h == component_emit_io_callback(g, chunk, owner)
<1>1. CASE owner
  BY ZenonT(40), <1>1 DEF component_emit_io_callback, agent_unlock_and_emit, Sound, Shape, Fields,
       Scheduled, Stays, Moves, Steady, Woken, Awaited, Signalled, IdKept
<1>2. CASE ~owner
  <2> DEFINE k == [g EXCEPT !.pending = Append(@, chunk), !.slow = TRUE]
  <2>1. Sound(k) /\ Stays(g, k) /\ k.alive /\ k.tcp = g.tcp /\ k.buf = g.buf
        /\ k.readable = g.readable
    BY ZenonT(40) DEF Sound, Shape, Fields, Stays, Moves, Steady, Woken, Awaited, Signalled, IdKept
  <2>2. h = component_schedule_io_callback(k)
    BY <1>2 DEF component_emit_io_callback
  <2> HIDE DEF k, h
  <2>3. QED
    BY <2>1, <2>2, ScheduledSource, StaysTrans DEF h
<1> QED
  BY <1>1, <1>2

\* A turn of the loop leaves the buffer empty
LEMMA TurnStays ==
  ASSUME NEW g, Sound(g), Scheduled(g), g.alive, g.cb, NEW owner \in BOOLEAN
  PROVE  /\ Good(ReadableTurn(g, owner).g) /\ Stays(g, ReadableTurn(g, owner).g)
         /\ ReadableTurn(g, owner).call \in BOOLEAN
         /\ ReadableTurn(g, owner).call => owner
<1> DEFINE r == ReadableTurn(g, owner)
<1>1. CASE Finished(g)
  <2> DEFINE k == [g EXCEPT !.readable = FALSE, !.tcp = "closing"]
  <2>0. g.selected /\ g.tcp \notin {"closed", "established"} /\ g.alive /\ g.reliable
    BY <1>1 DEF Finished, Sound, Shape
  <2>1. Sound(k) /\ k.tcp = "closing"
    BY <2>0 DEF TcpStates, Sound, Shape, Fields
  <2>2. Good(k)
    BY <2>1 DEF Good, Emptied, Sound, Shape, Fields, Scheduled
  <2>3. Stays(g, k)
    BY <2>0, <2>1 DEF Sound, Shape, Fields, Stays, Moves, Steady, Woken, IdKept
  <2>4. r = Done(adjust_tcp_clock(k))
    BY <1>1 DEF ReadableTurn
  <2> HIDE DEF k, r
  <2> QED
    BY <2>2, <2>3, <2>4, ClockAdjusted, StaysTrans DEF Done, r
<1>2. CASE ~Finished(g) /\ g.buf = <<>>
  <2>1. r = Done(adjust_tcp_clock(g)) /\ Good(g)
    BY <1>2 DEF ReadableTurn, Good, Emptied
  <2> HIDE DEF r
  <2> QED
    BY <2>1, ClockAdjusted DEF Done, r
<1>3. CASE ~Finished(g) /\ g.buf # <<>>
  <2> DEFINE k == [g EXCEPT !.buf = <<>>]
             h == component_emit_io_callback(k, g.buf, owner)
  <2>1. Sound(k) /\ Scheduled(k) /\ Stays(g, k) /\ k.alive /\ k.buf = <<>>
    BY ZenonT(40) DEF Sound, Shape, Fields, Scheduled, Stays, Moves, Steady, Woken, Awaited, Signalled, IdKept
  <2>2. r = IF owner THEN [g |-> h, call |-> TRUE] ELSE Done(adjust_tcp_clock(h))
    BY <1>3 DEF ReadableTurn
  <2> HIDE DEF k
  <2>3. Sound(h) /\ Scheduled(h) /\ Stays(k, h) /\ h.buf = <<>>
    BY <2>1, Emitted
  <2>4. Good(h) /\ Stays(g, h)
    BY <2>1, <2>3, StaysTrans DEF Good, Emptied
  <2> HIDE DEF h, r
  <2> QED
    BY <2>2, <2>4, ClockAdjusted, StaysTrans DEF Done, r
<1> QED
  BY <1>1, <1>2, <1>3

\* pseudo_tcp_socket_readable, when data may have come since the last turn
LEMMA ReadableStays ==
  ASSUME NEW g, Sound(g), Scheduled(g), g.alive, NEW owner \in BOOLEAN
  PROVE  /\ Good(pseudo_tcp_socket_readable(g, owner).g)
         /\ Stays(g, pseudo_tcp_socket_readable(g, owner).g)
         /\ pseudo_tcp_socket_readable(g, owner).call \in BOOLEAN
         /\ pseudo_tcp_socket_readable(g, owner).call => owner /\ g.cb
<1> DEFINE k == [g EXCEPT !.readable = TRUE]
           r == pseudo_tcp_socket_readable(g, owner)
<1>1. Sound(k) /\ Scheduled(k) /\ Stays(g, k) /\ k.alive /\ k.cb = g.cb /\ k.readable
  <2>1. Sound(k)
    BY DEF Sound, Shape, Fields
  <2>2. Scheduled(k) /\ k.alive /\ k.cb = g.cb /\ k.readable
    BY DEF Sound, Shape, Fields, Scheduled
  <2>3. Stays(g, k)
    BY DEF Sound, Shape, Fields, Stays, Moves, Steady, Woken, Awaited, Signalled, IdKept
  <2> QED
    BY <2>1, <2>2, <2>3
<1>2. CASE g.cb
  <2>1. r = ReadableTurn(k, owner)
    BY <1>2 DEF pseudo_tcp_socket_readable
  <2> HIDE DEF k, r
  <2> QED
    BY <1>1, <1>2, <2>1, TurnStays, StaysTrans DEF r
<1>3. CASE ~g.cb /\ g.recv # None
  <2> DEFINE h == pseudo_tcp_socket_recv_messages(k)
  <2>1. r = Done(adjust_tcp_clock(h))
    BY <1>3 DEF pseudo_tcp_socket_readable
  <2> HIDE DEF k
  <2>2. Sound(h)
    BY ZenonT(40), <1>1 DEF pseudo_tcp_socket_recv_messages, Sound, Shape, Fields
  <2>3. Good(h)
    BY <1>1, <1>3, <2>2 DEF pseudo_tcp_socket_recv_messages, Good, Emptied, Sound, Shape,
         Fields, Scheduled
  <2>4. Stays(k, h)
    BY ZenonT(40), <1>1 DEF pseudo_tcp_socket_recv_messages, Sound, Shape, Fields, Stays, Moves, Steady,
         Woken, Awaited, Signalled, IdKept
  <2> HIDE DEF h, r
  <2> QED
    BY <1>1, <2>1, <2>3, <2>4, ClockAdjusted, StaysTrans DEF Done, r
<1>4. CASE ~g.cb /\ g.recv = None
  <2>1. r = Done(adjust_tcp_clock(k))
    BY <1>4 DEF pseudo_tcp_socket_readable
  <2>2. Good(k)
    BY <1>1, <1>4 DEF Good, Emptied
  <2> HIDE DEF k, r
  <2> QED
    BY <1>1, <2>1, <2>2, ClockAdjusted, StaysTrans DEF Done, r
<1> QED
  BY <1>2, <1>3, <1>4 DEF Sound, Shape

-----------------------------------------------------------------------------
\* Packets for the pseudo-TCP socket

LEMMA SendBufferNat == SendBuffer \in Nat /\ Refill \in Nat \ {0} /\ Refill <= SendBuffer
BY BufferAssumption

\* Room in the send buffer: who waits for it is told
LEMMA RoomStays ==
  ASSUME NEW g, Good(g), NEW n \in Nat
  PROVE  /\ Good(Writable(Acked(g, n))) /\ Stays(g, Writable(Acked(g, n)))
         /\ Writable(Acked(g, n)).tcp = g.tcp
<1> DEFINE a == Acked(g, n)
           h == Writable(a)
<1>1. /\ a.sbuf \in 0 .. SendBuffer /\ a = [g EXCEPT !.sbuf = a.sbuf]
  BY SendBufferNat DEF Acked, Good, Sound, Shape, Fields
<1>2. CASE g.writeEnable /\ a.sbuf < Refill
  <2>1. h = agent_signal_socket_writable([a EXCEPT !.writeEnable = FALSE])
    BY <1>1, <1>2 DEF Writable, Good, Sound, Shape, Fields
  <2> HIDE DEF a, h
  <2>2. Good(h) /\ h.tcp = g.tcp /\ Signalled(h)
    BY <1>1, <2>1 DEF agent_signal_socket_writable, agent_queue_signal, Good, Sound, Shape,
         Fields, Scheduled, Emptied, Signalled
  <2>4. /\ Steady(g, h) /\ h.net = g.net /\ h.queued = g.queued
        /\ h.id = g.id /\ h.sources = g.sources
    BY <1>1, <2>1 DEF agent_signal_socket_writable, agent_queue_signal, Good, Sound,
         Shape, Fields, Steady
  <2>3. Stays(g, h)
    BY <2>2, <2>4 DEF Stays, Moves, Woken, Awaited, IdKept
  <2> QED
    BY <2>2, <2>3 DEF h, a
<1>3. CASE ~(g.writeEnable /\ a.sbuf < Refill)
  <2>1. h = a
    BY <1>1, <1>3 DEF Writable, Good, Sound, Shape, Fields
  <2>2. g.writeEnable => a.sbuf > 0
    BY <1>1, <1>3, SendBufferNat
  <2> HIDE DEF a, h
  <2>3. Good(a) /\ a.tcp = g.tcp
    BY <1>1 DEF Good, Sound, Shape, Fields, Scheduled, Emptied
  <2>4. Stays(g, a)
    BY SMTT(40), <1>1, <2>2 DEF Good, Sound, Shape, Fields, Stays, Moves, Steady, Woken, Awaited,
         Signalled, IdKept
  <2> QED
    BY <2>1, <2>3, <2>4 DEF h, a
<1> QED
  BY <1>2, <1>3

LEMMA NotifyPacketStays ==
  ASSUME NEW g, Good(g), g.alive, g.selected, g.tcp # "closed",
         NEW p \in Segments, NEW owner \in BOOLEAN
  PROVE  /\ Good(NotifyPacket(g, p, owner).g) /\ Stays(g, NotifyPacket(g, p, owner).g)
         /\ NotifyPacket(g, p, owner).call \in BOOLEAN
         /\ NotifyPacket(g, p, owner).call => owner /\ g.cb
<1> DEFINE r == NotifyPacket(g, p, owner)
           opened == IF g.tcp = "connecting"
                     THEN agent_signal_socket_writable([g EXCEPT !.tcp = "established"])
                     ELSE g
           room == Writable(Acked(opened, p.acks))
<1>1. p \in Packets /\ p.kind \in {"data", "ack", "fin", "rst"} /\ p.acks \in Nat
  BY DEF Segments, Packets
<1>2. Good(opened) /\ Stays(g, opened) /\ opened.tcp \notin {"closed", "connecting"}
  <2>1. CASE g.tcp = "connecting"
    <3>1. opened = agent_signal_socket_writable([g EXCEPT !.tcp = "established"])
      BY <2>1
    <3> HIDE DEF opened
    <3>2. Good(opened) /\ opened.tcp = "established" /\ Signalled(opened)
      BY ZenonT(40), <2>1, <3>1 DEF agent_signal_socket_writable, agent_queue_signal, Good, Sound,
           Shape, Fields, TcpStates, Scheduled, Emptied, Signalled
    <3>4. /\ Steady(g, opened) /\ opened.net = g.net /\ opened.queued = g.queued
          /\ opened.id = g.id /\ opened.sources = g.sources
      BY <2>1, <3>1 DEF agent_signal_socket_writable, agent_queue_signal, Good, Sound,
           Shape, Fields, Steady
    <3>3. Stays(g, opened)
      BY <3>2, <3>4 DEF Stays, Moves, Woken, Awaited, IdKept
    <3> QED
      BY <3>2, <3>3
  <2>2. CASE g.tcp # "connecting"
    BY <2>2, StaysSame
  <2> QED
    BY <2>1, <2>2
<1> HIDE DEF opened
<1>3. /\ Good(room) /\ Stays(opened, room) /\ room.tcp \notin {"closed", "connecting"}
  BY <1>1, <1>2, RoomStays
<1>4. Stays(g, room) /\ room.alive /\ room.selected /\ room.cb = g.cb
  <2>1. Stays(g, room)
    BY <1>2, <1>3, StaysTrans
  <2> HIDE DEF room
  <2> QED
    BY <2>1 DEF Stays, Moves, Steady
<1>5. r = CASE p.kind = "data" ->
                  pseudo_tcp_socket_readable([room EXCEPT !.buf = Append(@, p.n)], owner)
            [] p.kind = "ack" ->
                  Done(IF g.tcp = "closing" THEN [room EXCEPT !.tcp = "closed"] ELSE room)
            [] p.kind = "fin" -> Done([room EXCEPT !.tcp = "finished"])
            [] p.kind = "rst" -> Done(priv_pseudo_tcp_error(g))
  BY DEF NotifyPacket, opened
<1> HIDE DEF room, r
<1>6. CASE p.kind = "data"
  <2> DEFINE k == [room EXCEPT !.buf = Append(@, p.n)]
  <2>1. Sound(k) /\ Scheduled(k) /\ Stays(room, k) /\ k.alive /\ k.cb = g.cb
    BY ZenonT(40), <1>3, <1>4 DEF Good, Sound, Shape, Fields, Scheduled, Stays, Moves, Steady, Woken,
         Awaited, Signalled, IdKept
  <2>2. r = pseudo_tcp_socket_readable(k, owner)
    BY <1>5, <1>6
  <2> HIDE DEF k
  <2>3. Good(r.g) /\ Stays(k, r.g) /\ r.call \in BOOLEAN /\ (r.call => owner /\ k.cb)
    BY <2>1, <2>2, ReadableStays
  <2>4. Stays(g, r.g)
    BY <1>4, <2>1, <2>3, StaysTrans
  <2>5. k.cb => g.cb
    BY <2>1
  <2>6. r.call => owner /\ g.cb
    BY <2>3, <2>5
  <2> QED
    BY <2>3, <2>4, <2>6 DEF r
<1>7. CASE p.kind = "ack"
  <2> DEFINE k == [room EXCEPT !.tcp = "closed"]
  <2>1. Good(k) /\ Stays(room, k)
    BY ZenonT(40), <1>3, <1>4 DEF Good, Sound, Shape, Fields, TcpStates, Scheduled, Emptied, Stays,
         Moves, Steady, Woken, Awaited, Signalled, IdKept
  <2>2. r = Done(k) \/ r = Done(room)
    BY <1>5, <1>7
  <2> HIDE DEF k
  <2>3. r.call = FALSE /\ (r.g = k \/ r.g = room)
    BY <2>2 DEF Done
  <2>4. Good(r.g) /\ Stays(g, r.g)
    BY <1>3, <1>4, <2>1, <2>3, StaysTrans
  <2> QED
    BY <2>3, <2>4 DEF r
<1>8. CASE p.kind = "fin"
  <2> DEFINE k == [room EXCEPT !.tcp = "finished"]
  <2>1. Good(k) /\ Stays(room, k)
    BY ZenonT(40), <1>3, <1>4 DEF Good, Sound, Shape, Fields, TcpStates, Scheduled, Emptied, Stays,
         Moves, Steady, Woken, Awaited, Signalled, IdKept
  <2>2. r = Done(k)
    BY <1>5, <1>8
  <2> HIDE DEF k
  <2>3. r.call = FALSE /\ r.g = k
    BY <2>2 DEF Done
  <2>4. Good(r.g) /\ Stays(g, r.g)
    BY <1>4, <2>1, <2>3, StaysTrans
  <2> QED
    BY <2>3, <2>4 DEF r
<1>9. CASE p.kind = "rst"
  <2>1. r = Done(priv_pseudo_tcp_error(g))
    BY <1>5, <1>9
  <2> QED
    BY <2>1, ErrorStays DEF Done, r
<1> QED
  BY <1>1, <1>6, <1>7, <1>8, <1>9

-----------------------------------------------------------------------------
\* Packets that waited for a pair to be selected.  The two loops are recursive
\* functions; that they exist is shown first.

LEMMA QueuedTurnsExist ==
  ASSUME NEW N \in Nat, NEW b, NEW owner
  PROVE  \E f : f = [n \in 0 .. N |-> IF n = 0 THEN b ELSE QueuedTurn(f[n - 1], owner)]
<1> DEFINE Turns(f, k) ==
             f = [n \in 0 .. k |-> IF n = 0 THEN b ELSE QueuedTurn(f[n - 1], owner)]
           T == {k \in Nat : \E f : Turns(f, k)}
<1>1. 0 \in T
  <2> DEFINE f == [n \in 0 .. 0 |-> b]
  <2>1. Turns(f, 0)
    OBVIOUS
  <2> QED
    BY <2>1
<1>2. \A k \in Nat : k \in T => k + 1 \in T
  <2> SUFFICES ASSUME NEW k \in Nat, NEW f, Turns(f, k) PROVE \E h : Turns(h, k + 1)
    OBVIOUS
  <2> DEFINE h == [n \in 0 .. k + 1 |-> IF n = k + 1 THEN QueuedTurn(f[k], owner) ELSE f[n]]
  <2>1. \A n \in 0 .. k + 1 :
           h[n] = IF n = 0 THEN b ELSE QueuedTurn(h[n - 1], owner)
    <3> TAKE n \in 0 .. k + 1
    <3>1. CASE n = k + 1
      BY <3>1
    <3>2. CASE n # k + 1
      <4>1. n \in 0 .. k /\ h[n] = f[n] /\ (n # 0 => h[n - 1] = f[n - 1])
        BY <3>2
      <4>2. f[n] = IF n = 0 THEN b ELSE QueuedTurn(f[n - 1], owner)
        BY <4>1
      <4> QED
        BY <4>1, <4>2
    <3> QED
      BY <3>1, <3>2
  <2>2. Turns(h, k + 1)
    BY <2>1
  <2> QED
    BY <2>2
<1>3. \A k \in Nat : k \in T
  <2> HIDE DEF T
  <2> QED
    BY <1>1, <1>2, NatSetInduction
<1> QED
  BY <1>3

LEMMA TakenMoves ==
  ASSUME NEW g, Good(g), g.tcp # "closed" => g.queued # <<>>
  PROVE  /\ Good(Taken(g)) /\ Moves(g, Taken(g)) /\ Taken(g).net = g.net
         /\ Taken(g).tcp = g.tcp
         /\ g.tcp # "closed" => Len(Taken(g).queued) = Len(g.queued) - 1
<1>1. CASE g.tcp = "closed"
  BY <1>1, StaysSame DEF Taken, Stays
<1>2. CASE g.tcp # "closed"
  <2> DEFINE a == adjust_tcp_clock(g)
             h == [a EXCEPT !.queued = Tail(@)]
  <2>1. Taken(g) = h
    BY <1>2 DEF Taken
  <2>2. Good(a) /\ Stays(g, a) /\ a.tcp = g.tcp
    BY ClockAdjusted
  <2> HIDE DEF a
  <2>3. a.queued \in Seq(Segments) /\ a.queued # <<>> /\ a.queued = g.queued
    BY <1>2, <2>2 DEF Good, Sound, Shape, Stays
  <2>4. Tail(a.queued) \in Seq(Segments) /\ Len(Tail(a.queued)) = Len(g.queued) - 1
    BY <2>3
  <2>5. Good(h) /\ h.tcp = a.tcp /\ h.queued = Tail(a.queued) /\ h.net = a.net
    BY <2>2, <2>4 DEF Good, Sound, Shape, Fields, Scheduled, Emptied
  <2>6. Moves(a, h)
    BY <2>2 DEF Good, Sound, Shape, Fields, Moves, Steady, Woken, Awaited, Signalled, IdKept
  <2> QED
    BY <2>1, <2>2, <2>4, <2>5, <2>6, MovesTrans DEF Stays
<1> QED
  BY <1>1, <1>2

\* The result of r after n turns from g with N packets in the queue
Processed(g, r, owner, left) ==
    /\ Good(r.g) /\ Moves(g, r.g) /\ r.g.net = g.net
    /\ r.call \in BOOLEAN /\ (r.call => owner /\ g.cb /\ r.g.queued # <<>>)
    /\ ~r.call => r.g.tcp = "closed" \/ Len(r.g.queued) = left

LEMMA QueuedTurnMoves ==
  ASSUME NEW g, g.alive, g.selected, NEW r, NEW owner \in BOOLEAN, NEW left \in Nat,
         Processed(g, r, owner, left + 1)
  PROVE  Processed(g, QueuedTurn(r, owner), owner, left)
<1> DEFINE p == Head(r.g.queued)
           t == NotifyPacket(r.g, p, owner)
           q == QueuedTurn(r, owner)
<1>1. CASE r.call \/ r.g.tcp = "closed"
  BY <1>1 DEF QueuedTurn, Processed
<1>2. CASE ~r.call /\ r.g.tcp # "closed"
  <2>1. /\ r.g.queued \in Seq(Segments) /\ r.g.queued # <<>> /\ p \in Segments
        /\ Len(r.g.queued) = left + 1
    BY <1>2 DEF Processed, Good, Sound, Shape
  <2>2. r.g.alive /\ r.g.selected /\ (r.g.cb => g.cb)
    BY DEF Processed, Moves, Steady
  <2>3. /\ Good(t.g) /\ Stays(r.g, t.g) /\ t.call \in BOOLEAN /\ (t.call => owner /\ r.g.cb)
    BY <1>2, <2>1, <2>2, NotifyPacketStays DEF Processed
  <2>4. q = IF t.call THEN t ELSE Done(Taken(t.g))
    BY <1>2 DEF QueuedTurn
  <2>5. Moves(g, t.g) /\ t.g.queued = r.g.queued /\ t.g.net = g.net
    BY <2>3, MovesTrans DEF Processed, Stays
  <2> HIDE DEF t, q, p
  <2>6. CASE t.call
    BY <2>1, <2>2, <2>3, <2>4, <2>5, <2>6 DEF Processed, q
  <2>7. CASE ~t.call
    <3>1. /\ Good(Taken(t.g)) /\ Moves(t.g, Taken(t.g)) /\ Taken(t.g).net = g.net
          /\ Taken(t.g).tcp = t.g.tcp
          /\ t.g.tcp # "closed" => Len(Taken(t.g).queued) = left
      BY <2>1, <2>3, <2>5, TakenMoves
    <3>2. q.g = Taken(t.g) /\ q.call = FALSE
      BY <2>4, <2>7 DEF Done
    <3> QED
      BY <2>5, <3>1, <3>2, MovesTrans DEF Processed, q
  <2> QED
    BY <2>3, <2>6, <2>7
<1> QED
  BY <1>1, <1>2 DEF Processed

\* After it the queue is empty, unless the client is called
LEMMA QueueProcessed ==
  ASSUME NEW g, Good(g), g.alive, g.selected, NEW owner \in BOOLEAN
  PROVE  Processed(g, process_queued_tcp_packets(g, owner), owner, 0)
<1> DEFINE N == Len(g.queued)
           Turns(f) == f = [n \in 0 .. N |-> IF n = 0 THEN Done(g)
                                             ELSE QueuedTurn(f[n - 1], owner)]
           run == CHOOSE f : Turns(f)
           T == {n \in Nat : n <= N => Processed(g, run[n], owner, N - n)}
<1>1. N \in Nat
  BY DEF Good, Sound, Shape
<1>2. Turns(run)
  BY <1>1, QueuedTurnsExist
<1>3. process_queued_tcp_packets(g, owner) = run[N]
  BY DEF process_queued_tcp_packets
<1> HIDE DEF run
<1>4. run[0] = Done(g) /\ \A n \in 1 .. N : run[n] = QueuedTurn(run[n - 1], owner)
  <2> HIDE DEF N
  <2>1. \A n \in 0 .. N : run[n] = IF n = 0 THEN Done(g) ELSE QueuedTurn(run[n - 1], owner)
    BY <1>2
  <2> QED
    BY <1>1, <2>1
<1> HIDE DEF Turns
<1>5. 0 \in T
  <2>1. Moves(g, g)
    BY StaysSame DEF Stays
  <2>2. Processed(g, Done(g), owner, N)
    BY <2>1 DEF Processed, Done
  <2> QED
    BY <1>4, <2>2
<1>6. \A n \in Nat : n \in T => n + 1 \in T
  <2> SUFFICES ASSUME NEW n \in Nat, n + 1 <= N, Processed(g, run[n], owner, N - n)
               PROVE  Processed(g, run[n + 1], owner, N - (n + 1))
    BY <1>1
  <2>1. run[n + 1] = QueuedTurn(run[n], owner)
    BY <1>1, <1>4
  <2>2. N - (n + 1) \in Nat /\ (N - (n + 1)) + 1 = N - n
    BY <1>1
  <2> QED
    BY <2>1, <2>2, QueuedTurnMoves
<1>7. N \in T
  <2> HIDE DEF T, N
  <2> QED
    BY <1>1, <1>5, <1>6, NatSetInduction
<1> QED
  BY <1>1, <1>3, <1>7

LEMMA NothingProcessed ==
  ASSUME NEW g, g.queued = <<>>, NEW owner
  PROVE  process_queued_tcp_packets(g, owner) = Done(g)
<1> DEFINE Turns(f) == f = [n \in 0 .. Len(g.queued) |-> IF n = 0 THEN Done(g)
                                             ELSE QueuedTurn(f[n - 1], owner)]
           run == CHOOSE f : Turns(f)
<1>1. Len(g.queued) = 0
  OBVIOUS
<1>2. Turns(run)
  BY <1>1, QueuedTurnsExist
<1>3. process_queued_tcp_packets(g, owner) = run[0]
  BY <1>1 DEF process_queued_tcp_packets
<1> HIDE DEF run
<1>4. run[0] = Done(g)
  BY <1>1, <1>2
<1> QED
  BY <1>3, <1>4

-----------------------------------------------------------------------------
\* Packets from the sockets

\* No packet waits for a pair that was selected
Drained(g) == g.selected /\ g.tcp # "closed" => g.queued = <<>>

\* A packet was taken from the sockets, or several were
Read(g, r, owner) ==
    /\ Good(r.g) /\ Moves(g, r.g) /\ Drained(r.g)
    /\ r.call \in BOOLEAN /\ (r.call => owner /\ g.cb)

LEMMA MessageRead ==
  ASSUME NEW g, Good(g), Drained(g), g.alive, g.net # <<>>, NEW owner \in BOOLEAN
  PROVE  /\ Read(g, agent_recv_message_unlocked(g, owner), owner)
         /\ Len(agent_recv_message_unlocked(g, owner).g.net) = Len(g.net) - 1
<1> DEFINE p == Head(g.net)
           h == Received([g EXCEPT !.net = Tail(@), !.heard = TRUE,
                                   !.received = IF p.kind = "data" THEN @ + 1 ELSE @], p)
           r == agent_recv_message_unlocked(g, owner)
           n == NotifyPacket(process_queued_tcp_packets(h, owner).g, p, owner)
<1>1. /\ g.net \in Seq(Packets) /\ p \in Packets /\ Tail(g.net) \in Seq(Packets)
      /\ Len(Tail(g.net)) = Len(g.net) - 1
  BY DEF Good, Sound, Shape
<1>2. /\ Good(h) /\ Moves(g, h) /\ h.net = Tail(g.net) /\ h.queued = g.queued
      /\ h.tcp = g.tcp /\ h.reliable = g.reliable
  <2>1. Good(h)
    BY ZenonT(40), <1>1 DEF Received, Good, Sound, Shape, Fields, Scheduled, Emptied
  <2>2. /\ Steady(g, h) /\ h.net = Tail(g.net) /\ h.queued = g.queued /\ h.tcp = g.tcp
        /\ h.id = g.id /\ h.sources = g.sources /\ h.signals = g.signals
        /\ h.flying = g.flying /\ h.sbuf = g.sbuf /\ h.writeEnable = g.writeEnable
    BY <1>1 DEF Received, Good, Sound, Shape, Fields, Steady
  <2> HIDE DEF h
  <2>3. Moves(g, h)
    BY <2>2 DEF Moves, Woken, Awaited, Signalled, IdKept
  <2> QED
    BY <2>1, <2>2, <2>3 DEF Steady
<1>3. h.alive /\ (h.cb => g.cb) /\ Drained(h)
  BY <1>2 DEF Moves, Steady, Drained
<1>4. r = CASE p.kind = "stun" -> Done(priv_map_reply_to_keepalive_conncheck(h, p))
            [] p.kind # "stun" /\ h.reliable /\ h.tcp = "closed" -> Done(h)
            [] p.kind # "stun" /\ h.reliable /\ h.tcp # "closed" /\ ~h.selected ->
                  Done(Enqueue(h, p))
            [] p.kind # "stun" /\ h.reliable /\ h.tcp # "closed" /\ h.selected ->
                  IF n.call THEN n ELSE Done(adjust_tcp_clock(n.g))
            [] p.kind # "stun" /\ ~h.reliable /\ h.cb ->
                  [g |-> component_emit_io_callback(h, <<p.n>>, owner), call |-> owner]
            [] p.kind # "stun" /\ ~h.reliable /\ ~h.cb ->
                  Done([h EXCEPT !.recv.got = Append(@, p.n)])
  BY DEF agent_recv_message_unlocked
<1> HIDE DEF h, r
\* It is enough that the rest moves no packet
<1>5. ASSUME Good(r.g), Stays(h, r.g), Drained(r.g), r.call \in BOOLEAN,
             r.call => owner /\ h.cb
      PROVE  Read(g, r, owner) /\ Len(r.g.net) = Len(g.net) - 1
  BY <1>1, <1>2, <1>3, <1>5, MovesTrans DEF Stays, Read
<1>6. CASE p.kind = "stun"
  <2> DEFINE k == priv_map_reply_to_keepalive_conncheck(h, p)
  <2>1. Good(k) /\ Stays(h, k) /\ Drained(k)
    <3> DEFINE e == [h EXCEPT !.keepalive = 0]
    <3>1. k = e \/ k = h
      BY DEF priv_map_reply_to_keepalive_conncheck
    <3> HIDE DEF k
    <3>2. Good(e) /\ Stays(h, e) /\ Drained(e)
      BY ZenonT(40), <1>2, <1>3 DEF Drained, Good, Sound, Shape, Fields, Scheduled, Emptied, Stays,
           Moves, Steady, Woken, Awaited, Signalled, IdKept
    <3> QED
      BY <1>2, <1>3, <3>1, <3>2, StaysSame
  <2>2. r.g = k /\ r.call = FALSE
    BY <1>4, <1>6 DEF Done
  <2> HIDE DEF k
  <2> QED
    BY <1>5, <2>1, <2>2 DEF r
<1>7. CASE p.kind # "stun" /\ h.reliable /\ h.tcp = "closed"
  <2>1. r.g = h /\ r.call = FALSE
    BY <1>4, <1>7 DEF Done
  <2> QED
    BY <1>2, <1>3, <1>5, <2>1, StaysSame DEF r
<1>8. CASE p.kind # "stun" /\ h.reliable /\ h.tcp # "closed" /\ ~h.selected
  <2> DEFINE k == Enqueue(h, p)
  <2>1. r.g = k /\ r.call = FALSE
    BY <1>4, <1>8 DEF Done
  <2>2. h.queued \in Seq(Segments) /\ Append(h.queued, p) \in Seq(Segments)
    BY <1>1, <1>2, <1>8 DEF Good, Sound, Shape, Segments
  <2>3. Good(k) /\ Moves(h, k) /\ k.net = h.net /\ k.selected = h.selected
    BY ZenonT(40), <1>2, <2>2 DEF Enqueue, Good, Sound, Shape, Fields, Scheduled, Emptied, Moves,
         Steady, Woken, Awaited, Signalled, IdKept
  <2>4. Drained(k)
    BY <1>8, <2>3 DEF Drained
  <2> HIDE DEF k
  <2>5. Read(g, r, owner)
    BY <1>2, <2>1, <2>3, <2>4, MovesTrans DEF Read
  <2> QED
    BY <1>1, <1>2, <2>1, <2>3, <2>5 DEF r
<1>9. CASE p.kind # "stun" /\ h.reliable /\ h.tcp # "closed" /\ h.selected
  <2>1. h.queued = <<>> /\ p \in Segments
    BY <1>1, <1>3, <1>9 DEF Drained, Segments
  <2>2. n = NotifyPacket(h, p, owner)
    BY <2>1, NothingProcessed DEF Done
  <2> HIDE DEF n
  <2>3. Good(n.g) /\ Stays(h, n.g) /\ n.call \in BOOLEAN /\ (n.call => owner /\ h.cb)
    BY <1>2, <1>3, <1>9, <2>1, <2>2, NotifyPacketStays
  <2>4. r = IF n.call THEN n ELSE Done(adjust_tcp_clock(n.g))
    BY <1>4, <1>9
  <2>5. Good(r.g) /\ Stays(h, r.g)
    BY <2>3, <2>4, ClockAdjusted, StaysTrans DEF Done
  <2>6. r.call \in BOOLEAN /\ (r.call => owner /\ h.cb)
    BY <2>3, <2>4 DEF Done
  <2>7. Drained(r.g)
    BY <2>1, <2>5 DEF Stays, Drained
  <2> QED
    BY <1>5, <2>5, <2>6, <2>7 DEF r
<1>10. CASE p.kind # "stun" /\ ~h.reliable /\ h.cb
  <2> DEFINE k == component_emit_io_callback(h, <<p.n>>, owner)
  <2>1. r.g = k /\ r.call = owner
    BY <1>4, <1>10
  <2> HIDE DEF k
  <2>2. /\ Sound(k) /\ Scheduled(k) /\ Stays(h, k) /\ k.tcp = h.tcp /\ k.buf = h.buf
        /\ k.readable = h.readable
    BY <1>2, <1>3, Emitted DEF k, Good
  <2>3. Good(k) /\ Drained(k)
    BY <1>2, <1>3, <2>2 DEF Good, Emptied, Drained, Stays, Moves, Steady
  <2> QED
    BY <1>5, <1>10, <2>1, <2>2, <2>3 DEF r
<1>11. CASE p.kind # "stun" /\ ~h.reliable /\ ~h.cb
  <2> DEFINE k == [h EXCEPT !.recv.got = Append(@, p.n)]
  <2>3. Good(k) /\ Drained(k)
    BY ZenonT(40), <1>2, <1>3 DEF Drained, Good, Sound, Shape, Fields, Scheduled, Emptied
  <2>1. Good(k) /\ Stays(h, k) /\ Drained(k)
    BY ZenonT(40), <1>2, <2>3 DEF Good, Sound, Shape, Fields, Stays, Moves, Steady, Woken, Awaited,
         Signalled, IdKept
  <2>2. r.g = k /\ r.call = FALSE
    BY <1>4, <1>11 DEF Done
  <2> HIDE DEF k
  <2> QED
    BY <1>5, <2>1, <2>2 DEF r
<1> QED
  <2>1. h.reliable \in BOOLEAN /\ h.cb \in BOOLEAN /\ h.selected \in BOOLEAN
    BY <1>2 DEF Good, Sound, Shape
  <2> QED
    BY <2>1, <1>6, <1>7, <1>8, <1>9, <1>10, <1>11

LEMMA IoTurnsExist ==
  ASSUME NEW N \in Nat, NEW b, NEW owner
  PROVE  \E f : f = [n \in 0 .. N |-> IF n = 0 THEN b ELSE IoTurn(f[n - 1], owner)]
<1> DEFINE Turns(f, k) == f = [n \in 0 .. k |-> IF n = 0 THEN b ELSE IoTurn(f[n - 1], owner)]
           T == {k \in Nat : \E f : Turns(f, k)}
<1>1. 0 \in T
  <2> DEFINE f == [n \in 0 .. 0 |-> b]
  <2>1. Turns(f, 0)
    OBVIOUS
  <2> QED
    BY <2>1
<1>2. \A k \in Nat : k \in T => k + 1 \in T
  <2> SUFFICES ASSUME NEW k \in Nat, NEW f, Turns(f, k) PROVE \E h : Turns(h, k + 1)
    OBVIOUS
  <2> DEFINE h == [n \in 0 .. k + 1 |-> IF n = k + 1 THEN IoTurn(f[k], owner) ELSE f[n]]
  <2>1. \A n \in 0 .. k + 1 : h[n] = IF n = 0 THEN b ELSE IoTurn(h[n - 1], owner)
    <3> TAKE n \in 0 .. k + 1
    <3>1. CASE n = k + 1
      BY <3>1
    <3>2. CASE n # k + 1
      <4>1. n \in 0 .. k /\ h[n] = f[n] /\ (n # 0 => h[n - 1] = f[n - 1])
        BY <3>2
      <4>2. f[n] = IF n = 0 THEN b ELSE IoTurn(f[n - 1], owner)
        BY <4>1
      <4> QED
        BY <4>1, <4>2
    <3> QED
      BY <3>1, <3>2
  <2>2. Turns(h, k + 1)
    BY <2>1
  <2> QED
    BY <2>2
<1>3. \A k \in Nat : k \in T
  <2> HIDE DEF T
  <2> QED
    BY <1>1, <1>2, NatSetInduction
<1> QED
  BY <1>3

LEMMA IoTurnRead ==
  ASSUME NEW g, g.alive, NEW r, NEW owner \in BOOLEAN, Read(g, r, owner), NEW left \in Nat,
         Len(r.g.net) >= left + 1
  PROVE  Read(g, IoTurn(r, owner), owner) /\ Len(IoTurn(r, owner).g.net) >= left
<1> DEFINE q == agent_recv_message_unlocked(r.g, owner)
<1>0. r.g.net \in Seq(Packets) /\ Len(r.g.net) \in Nat
  BY DEF Read, Good, Sound, Shape
<1>1. CASE r.call \/ ~Wants(r.g)
  BY <1>0, <1>1 DEF IoTurn
<1>2. CASE ~(r.call \/ ~Wants(r.g))
  <2>1. r.g.net # <<>> /\ r.g.alive /\ (r.g.cb => g.cb)
    BY <1>0 DEF Read, Moves, Steady
  <2>2. Read(r.g, q, owner) /\ Len(q.g.net) = Len(r.g.net) - 1
    BY <2>1, MessageRead DEF Read
  <2>3. IoTurn(r, owner) = q
    BY <1>2 DEF IoTurn
  <2> HIDE DEF q
  <2>4. Read(g, q, owner)
    BY <2>1, <2>2, MovesTrans DEF Read
  <2> QED
    BY <1>0, <2>2, <2>3, <2>4
<1> QED
  BY <1>1, <1>2

LEMMA IoLoopRead ==
  ASSUME NEW g, Good(g), Drained(g), g.alive, NEW owner \in BOOLEAN
  PROVE  Read(g, IoLoop(g, owner), owner)
<1> DEFINE N == Len(g.net)
           Turns(f) == f = [n \in 0 .. N |-> IF n = 0 THEN Done(g) ELSE IoTurn(f[n - 1], owner)]
           run == CHOOSE f : Turns(f)
           T == {n \in Nat : n <= N => Read(g, run[n], owner) /\ Len(run[n].g.net) >= N - n}
<1>1. N \in Nat
  BY DEF Good, Sound, Shape
<1>2. Turns(run)
  BY <1>1, IoTurnsExist
<1>3. IoLoop(g, owner) = run[N]
  BY DEF IoLoop
<1> HIDE DEF run
<1>4. run[0] = Done(g) /\ \A n \in 1 .. N : run[n] = IoTurn(run[n - 1], owner)
  <2> HIDE DEF N
  <2>1. \A n \in 0 .. N : run[n] = IF n = 0 THEN Done(g) ELSE IoTurn(run[n - 1], owner)
    BY <1>2
  <2> QED
    BY <1>1, <2>1
<1> HIDE DEF Turns
<1>5. 0 \in T
  <2>1. Moves(g, g)
    BY StaysSame DEF Stays
  <2>2. Read(g, Done(g), owner) /\ Len(Done(g).g.net) >= N
    BY <1>1, <2>1 DEF Read, Done
  <2> QED
    BY <1>1, <1>4, <2>2
<1>6. \A n \in Nat : n \in T => n + 1 \in T
  <2> SUFFICES ASSUME NEW n \in Nat, n + 1 <= N, Read(g, run[n], owner),
                      Len(run[n].g.net) >= N - n
               PROVE  Read(g, run[n + 1], owner) /\ Len(run[n + 1].g.net) >= N - (n + 1)
    BY <1>1
  <2>1. run[n + 1] = IoTurn(run[n], owner)
    BY <1>1, <1>4
  <2>2. N - (n + 1) \in Nat /\ (N - (n + 1)) + 1 = N - n
    BY <1>1
  <2> QED
    BY <2>1, <2>2, IoTurnRead
<1>7. N \in T
  <2> HIDE DEF T, N
  <2> QED
    BY <1>1, <1>5, <1>6, NatSetInduction
<1> QED
  BY <1>1, <1>3, <1>7

-----------------------------------------------------------------------------
\* What thread X has yet to do

FrameNames == {"udp", "slow", "tcp", "readable", "queue", "attach"}

\* The callbacks of the sockets and of the idle source come from the main
\* loop, the others may come within another.  pseudo_tcp_socket_readable goes
\* back to its caller, and a pair is selected once.
Framed(s) ==
    /\ s \in Seq(FrameNames)
    /\ \A i \in 2 .. Len(s) : s[i] \in {"queue", "attach", "readable"}
    /\ \A i \in 1 .. Len(s) :
          s[i] = "readable" => i >= 2 /\ s[i - 1] \in {"tcp", "queue", "attach"}
    /\ \A i, j \in 1 .. Len(s) : s[i] = "queue" /\ s[j] = "queue" => i = j

\* While process_queued_tcp_packets is under way the packet it works on is in
\* the queue; otherwise the queue is empty once a pair was selected.
Queues(g, s) ==
    /\ In("queue", s) => (g.alive => g.selected) /\ (g.tcp # "closed" => g.queued # <<>>)
    /\ ~In("queue", s) => Drained(g)

\* The latest idle source is attached, unless it is the one that runs
Sourced(g, s) == g.id # 0 => g.id \in g.sources \/ In("slow", s)

\* What is polled was attached once; the sockets that were attached since are
\* in front of those that are polled.
Polls(g) ==
    /\ g.age \in Nat /\ g.polledAge \in 0 .. g.age
    /\ g.socks \in Seq(g.used) /\ g.polled \subseteq g.used
    /\ \A i, j \in 1 .. Len(g.socks) :
          i < j /\ g.socks[i] \in g.polled => g.socks[j] \in g.polled
    /\ g.alive /\ g.age = g.polledAge => g.polled = {g.socks[i] : i \in 1 .. Len(g.socks)}

\* Nothing dangles while the component is open; whatever still points to a
\* component that was closed exposed it.
Closed(g, s) ==
    /\ g.alive => ~g.dangling
    /\ ~g.alive /\ ~g.exposed =>
          ~In("tcp", s) /\ ~In("queue", s) /\ g.sources = {} /\ ~g.dangling

Core(g, s) ==
    /\ Good(g) /\ Polls(g) /\ Framed(s) /\ Queues(g, s) /\ Sourced(g, s) /\ Closed(g, s)
    /\ s # <<>> => g.ctx = "main"

\* A writer that is about to wait, or waits, relies on the signal
WriterSound ==
    /\ DOMAIN writer = {"pc", "left", "writable", "cancelled"}
    /\ writer.pc \in {"idle", "try", "send", "blocked", "wait"}
    /\ writer.pc # "idle" => writer.left \in Nat \ {0}
    /\ writer.pc = "blocked" /\ c.tcp = "established" => Awaited(c) \/ writer.writable
    /\ writer.pc = "wait" /\ c.tcp = "established" => Awaited(c)

IoInvariant == Core(c, stack) /\ WriterSound

-----------------------------------------------------------------------------
\* Sequences of frames

LEMMA FramedEmpty ==
  Framed(<<>>) /\ ~In("queue", <<>>) /\ ~In("slow", <<>>) /\ ~In("tcp", <<>>)
BY DEF Framed, In

LEMMA FramedOne ==
  ASSUME NEW f \in {"udp", "slow"}
  PROVE  Framed(<<f>>) /\ ~In("queue", <<f>>) /\ (f = "slow" => In("slow", <<f>>))
<1>1. <<f>> \in Seq(FrameNames) /\ Len(<<f>>) = 1 /\ <<f>>[1] = f
  BY DEF FrameNames
<1>2. Framed(<<f>>)
  BY <1>1 DEF Framed
<1> QED
  BY <1>1, <1>2 DEF In

LEMMA FramedTcp == Framed(<<"tcp", "readable">>) /\ ~In("queue", <<"tcp", "readable">>)
<1> DEFINE s == <<"tcp", "readable">>
<1>1. s \in Seq(FrameNames) /\ Len(s) = 2 /\ s[1] = "tcp" /\ s[2] = "readable"
  BY DEF FrameNames
<1> HIDE DEF s
<1>2. Framed(s)
  <2>1. \A i \in 1 .. Len(s) : i = 1 \/ i = 2
    BY <1>1
  <2>2. \A i \in 2 .. Len(s) : i = 2
    BY <1>1
  <2> QED
    BY <1>1, <2>1, <2>2 DEF Framed
<1>3. ~In("queue", s)
  BY <1>1 DEF In
<1> QED
  BY <1>2, <1>3 DEF s

\* A callback within another
LEMMA FramedNested ==
  ASSUME NEW s, Framed(s), NEW f \in {"queue", "attach"}, f = "queue" => ~In("queue", s)
  PROVE  /\ Framed(s \o <<f, "readable">>)
         /\ In("slow", s) => In("slow", s \o <<f, "readable">>)
         /\ In("queue", s \o <<f, "readable">>) <=> (In("queue", s) \/ f = "queue")
<1> DEFINE t == s \o <<f, "readable">>
           n == Len(s)
<1>1. /\ s \in Seq(FrameNames) /\ n \in Nat /\ t \in Seq(FrameNames) /\ Len(t) = n + 2
      /\ t[n + 1] = f /\ t[n + 2] = "readable"
  BY DEF Framed, FrameNames
<1>2. \A i \in 1 .. n : t[i] = s[i]
  BY <1>1
<1>3. \A i \in 1 .. n + 2 : i \in 1 .. n \/ i = n + 1 \/ i = n + 2
  BY <1>1
<1> HIDE DEF t, n
<1>4. \A i \in 2 .. Len(t) : t[i] \in {"queue", "attach", "readable"}
  <2> TAKE i \in 2 .. Len(t)
  <2>1. i \in 1 .. n + 2 /\ (i \in 1 .. n => i \in 2 .. n)
    BY <1>1
  <2> QED
    BY <1>1, <1>2, <1>3, <2>1 DEF Framed, n
<1>5. \A i \in 1 .. Len(t) :
         t[i] = "readable" => i >= 2 /\ t[i - 1] \in {"tcp", "queue", "attach"}
  <2> SUFFICES ASSUME NEW i \in 1 .. Len(t), t[i] = "readable"
               PROVE  i >= 2 /\ t[i - 1] \in {"tcp", "queue", "attach"}
    OBVIOUS
  <2>1. CASE i \in 1 .. n
    <3>1. i >= 2 /\ s[i - 1] \in {"tcp", "queue", "attach"}
      BY <1>2, <2>1 DEF Framed, n
    <3>2. i - 1 \in 1 .. n
      BY <1>1, <2>1, <3>1
    <3> QED
      BY <1>2, <3>1, <3>2
  <2>2. CASE i = n + 2
    <3>1. i >= 2 /\ i - 1 = n + 1
      BY <1>1, <2>2
    <3> QED
      BY <1>1, <3>1
  <2> QED
    BY <1>1, <1>3, <2>1, <2>2
<1>6. \A i, j \in 1 .. Len(t) : t[i] = "queue" /\ t[j] = "queue" => i = j
  <2> SUFFICES ASSUME NEW i \in 1 .. Len(t), NEW j \in 1 .. Len(t), t[i] = "queue", t[j] = "queue"
               PROVE  i = j
    OBVIOUS
  <2>1. i # n + 2 /\ j # n + 2
    BY <1>1
  <2>2. CASE f = "queue"
    BY <1>1, <1>2, <1>3, <2>1, <2>2 DEF In, n
  <2>3. CASE f # "queue"
    BY <1>1, <1>2, <1>3, <2>1, <2>3 DEF Framed, n
  <2> QED
    BY <2>2, <2>3
<1>7. Framed(t)
  BY <1>1, <1>4, <1>5, <1>6 DEF Framed
<1>8. In("slow", s) => In("slow", t)
  BY <1>1, <1>2 DEF In, n
<1>9. In("queue", s) => In("queue", t)
  BY <1>1, <1>2 DEF In, n
<1>10. f = "queue" => In("queue", t)
  <2>1. n + 1 \in 1 .. Len(t)
    BY <1>1
  <2> QED
    BY <1>1, <2>1 DEF In
<1>11. In("queue", t) => In("queue", s) \/ f = "queue"
  BY <1>1, <1>2, <1>3 DEF In, n
<1> QED
  BY <1>7, <1>8, <1>9, <1>10, <1>11 DEF t

\* The main loop's own callback is the first one
LEMMA FramedFirst ==
  ASSUME NEW s, Framed(s), s # <<>>, s[Len(s)] \in {"udp", "slow", "tcp"}
  PROVE  Len(s) = 1 /\ SubSeq(s, 1, Len(s) - 1) = <<>>
<1>1. Len(s) \in Nat /\ Len(s) >= 1
  BY DEF Framed
<1>2. Len(s) < 2
  BY <1>1 DEF Framed
<1>3. Len(s) = 1
  BY <1>1, <1>2
<1>4. SubSeq(s, 1, 0) = <<>>
  BY DEF Framed
<1> QED
  BY <1>3, <1>4

\* The frames below the top one
Outer(s) == SubSeq(s, 1, Len(s) - 1)

\* pseudo_tcp_socket_readable and its caller return
LEMMA FramedCaller ==
  ASSUME NEW s, Framed(s), s # <<>>, s[Len(s)] = "readable",
         NEW b, b = Outer(s), NEW r, r = Outer(b)
  PROVE  /\ b[Len(b)] \in {"tcp", "queue", "attach"} /\ Framed(r)
         /\ b[Len(b)] = "tcp" => r = <<>>
         /\ b[Len(b)] = "queue" => In("queue", s) /\ ~In("queue", r)
         /\ b[Len(b)] # "queue" => (In("queue", s) <=> In("queue", r))
         /\ In("slow", s) => In("slow", r)
         /\ b[Len(b)] = "tcp" => In("tcp", s)
         /\ In("tcp", r) => In("tcp", s)
         /\ In("queue", r) => In("queue", s)
<1> DEFINE n == Len(s)
<1>1. s \in Seq(FrameNames) /\ n \in Nat /\ n >= 2 /\ s[n - 1] \in {"tcp", "queue", "attach"}
  <2>1. n \in Nat /\ n >= 1
    BY DEF Framed
  <2>2. n \in 1 .. n
    BY <2>1
  <2> QED
    BY <2>1, <2>2 DEF Framed
<1>2. b \in Seq(FrameNames) /\ Len(b) = n - 1 /\ \A i \in 1 .. n - 1 : b[i] = s[i]
  BY <1>1 DEF Outer
<1>3. r \in Seq(FrameNames) /\ Len(r) = n - 2 /\ \A i \in 1 .. n - 2 : r[i] = b[i]
  <2>1. Len(b) - 1 = n - 2
    BY <1>1, <1>2
  <2> QED
    BY <1>1, <1>2, <2>1 DEF Outer
<1>4. b[Len(b)] = s[n - 1]
  <2>1. n - 1 \in 1 .. n - 1
    BY <1>1
  <2> QED
    BY <1>2, <2>1
<1>5. \A i \in 1 .. n - 2 : i \in 1 .. n - 1 /\ i \in 1 .. n /\ r[i] = s[i]
  BY <1>1, <1>2, <1>3
<1>6. n \in 1 .. n /\ n - 1 \in 1 .. n
  BY <1>1
<1>7. \A i \in 1 .. n : i \in 1 .. n - 2 \/ i = n - 1 \/ i = n
  BY <1>1
<1>8. Framed(r)
  <2>1. \A i \in 2 .. Len(r) : r[i] \in {"queue", "attach", "readable"}
    <3> TAKE i \in 2 .. Len(r)
    <3>1. i \in 1 .. n - 2 /\ i \in 2 .. n
      BY <1>1, <1>3
    <3> QED
      BY <1>5, <3>1 DEF Framed
  <2>2. \A i \in 1 .. Len(r) :
           r[i] = "readable" => i >= 2 /\ r[i - 1] \in {"tcp", "queue", "attach"}
    <3> SUFFICES ASSUME NEW i \in 1 .. Len(r), r[i] = "readable"
                 PROVE  i >= 2 /\ r[i - 1] \in {"tcp", "queue", "attach"}
      OBVIOUS
    <3>1. i \in 1 .. n - 2 /\ s[i] = "readable"
      BY <1>3, <1>5
    <3>2. i >= 2 /\ s[i - 1] \in {"tcp", "queue", "attach"}
      BY <1>5, <3>1 DEF Framed
    <3>3. i - 1 \in 1 .. n - 2
      BY <1>1, <3>1, <3>2
    <3> QED
      BY <1>5, <3>2, <3>3
  <2>3. \A i, j \in 1 .. Len(r) : r[i] = "queue" /\ r[j] = "queue" => i = j
    BY <1>3, <1>5 DEF Framed
  <2> QED
    BY <1>3, <2>1, <2>2, <2>3 DEF Framed
<1>9. b[Len(b)] = "tcp" => r = <<>>
  <2> SUFFICES ASSUME s[n - 1] = "tcp" PROVE r = <<>>
    BY <1>4
  <2>1. n - 1 < 2
    BY <1>1 DEF Framed
  <2>2. Len(r) = 0
    BY <1>1, <1>3, <2>1
  <2> QED
    BY <1>3, <2>2
<1>10. b[Len(b)] = "queue" => In("queue", s) /\ ~In("queue", r)
  <2> SUFFICES ASSUME s[n - 1] = "queue" PROVE In("queue", s) /\ ~In("queue", r)
    BY <1>4
  <2>1. In("queue", s)
    BY <1>6 DEF In
  <2>2. \A i \in 1 .. n - 2 : i # n - 1
    BY <1>1
  <2>3. ~In("queue", r)
    <3> SUFFICES ASSUME NEW i \in 1 .. Len(r), r[i] = "queue" PROVE FALSE
      BY DEF In
    <3>1. i \in 1 .. n - 2 /\ i \in 1 .. n /\ s[i] = "queue"
      BY <1>3, <1>5
    <3>2. i = n - 1
      BY <1>6, <3>1 DEF Framed
    <3> QED
      BY <2>2, <3>1, <3>2
  <2> QED
    BY <2>1, <2>3
<1>11. b[Len(b)] # "queue" => (In("queue", s) <=> In("queue", r))
  <2> SUFFICES ASSUME s[n - 1] # "queue" PROVE In("queue", s) <=> In("queue", r)
    BY <1>4
  <2>1. In("queue", s) => In("queue", r)
    BY <1>3, <1>5, <1>7 DEF In
  <2>2. In("queue", r) => In("queue", s)
    BY <1>3, <1>5 DEF In
  <2> QED
    BY <2>1, <2>2
<1>12. In("slow", s) => In("slow", r)
  BY <1>1, <1>3, <1>5, <1>7 DEF In
<1>13. b[Len(b)] = "tcp" => In("tcp", s)
  BY <1>4, <1>6 DEF In
<1>14. /\ In("tcp", r) => In("tcp", s)
       /\ In("queue", r) => In("queue", s)
  BY <1>3, <1>5 DEF In
<1> QED
  BY <1>1, <1>4, <1>8, <1>9, <1>10, <1>11, <1>12, <1>13, <1>14

-----------------------------------------------------------------------------
\* What a step keeps

\* The same as Stays, for a step that may attach or detach a callback
Keeps(g, h) ==
    /\ h.alive = g.alive /\ h.selected = g.selected /\ h.queued = g.queued
    /\ h.socks = g.socks /\ h.age = g.age /\ h.used = g.used
    /\ h.polled = g.polled /\ h.polledAge = g.polledAge
    /\ h.exposed = g.exposed /\ h.dangling = g.dangling
    /\ g.tcp = "closed" => h.tcp = "closed"
    /\ g.ctx = "main" => h.ctx = "main"
    /\ Woken(g, h) /\ IdKept(g, h)

LEMMA StaysKeeps ==
  ASSUME NEW g, NEW h, Stays(g, h)
  PROVE  Keeps(g, h)
BY DEF Stays, Moves, Steady, Keeps

LEMMA KeepsTrans ==
  ASSUME NEW g, NEW h, NEW k, Keeps(g, h), Keeps(h, k)
  PROVE  Keeps(g, k)
BY DEF Keeps, Woken, IdKept

LEMMA MovesPolls ==
  ASSUME NEW g, NEW h, Polls(g), Moves(g, h)
  PROVE  Polls(h)
BY DEF Polls, Moves, Steady

LEMMA KeepsPolls ==
  ASSUME NEW g, NEW h, Polls(g), Keeps(g, h)
  PROVE  Polls(h)
BY DEF Polls, Keeps

\* The invariant of a component that keeps its packets
LEMMA CoreKept ==
  ASSUME NEW g, NEW h, NEW s, Core(g, s), Good(h), Keeps(g, h),
         g.alive \/ h.sources = g.sources
  PROVE  Core(h, s)
<1>1. Polls(h)
  BY KeepsPolls DEF Core
<1>2. Queues(h, s)
  BY DEF Core, Keeps, Queues, Drained
<1>3. Sourced(h, s)
  BY DEF Core, Keeps, Sourced, IdKept
<1>4. s # <<>> => h.ctx = "main"
  BY DEF Core, Keeps
<1>5. Closed(h, s)
  BY DEF Core, Keeps, Closed
<1> QED
  BY <1>1, <1>2, <1>3, <1>4, <1>5 DEF Core

\* ... and of one in the main loop, that may have taken packets
LEMMA CoreMoved ==
  ASSUME NEW g, NEW h, NEW s, Core(g, s), Good(h), Moves(g, h), ~In("queue", s), Drained(h),
         g.alive
  PROVE  Core(h, s)
<1>1. Polls(h)
  BY MovesPolls DEF Core
<1>2. Queues(h, s)
  BY DEF Queues
<1>3. Sourced(h, s)
  BY DEF Core, Moves, Sourced, IdKept
<1>4. s # <<>> => h.ctx = "main"
  BY DEF Core, Moves, Steady
<1>5. Closed(h, s)
  BY DEF Core, Moves, Steady, Closed
<1> QED
  BY <1>1, <1>2, <1>3, <1>4, <1>5 DEF Core

\* A step that leaves the writer alone
LEMMA WriterKept ==
  ASSUME WriterSound, Woken(c, c'), writer' = writer
  PROVE  WriterSound'
BY DEF WriterSound, Woken, Awaited, Signalled

LEMMA LeaveStays ==
  ASSUME NEW g, Good(g)
  PROVE  Good(Leave(g)) /\ Stays(g, Leave(g))
BY Unlocked, StaysSame DEF Leave

\* What releases the lock or sets a timer attaches no idle source
LEMMA SourcesKept ==
  ASSUME NEW g, Good(g), NEW sig
  PROVE  /\ agent_unlock_and_emit(g).sources = g.sources
         /\ Leave(g).sources = g.sources
         /\ adjust_tcp_clock(g).sources = g.sources
         /\ agent_queue_signal(g, sig).sources = g.sources
         /\ priv_pseudo_tcp_error(g).sources = g.sources
BY DEF agent_unlock_and_emit, Leave, adjust_tcp_clock, agent_queue_signal, priv_pseudo_tcp_error,
       Good, Sound, Shape, Fields

\* An open component
LEMMA ClosedOpen ==
  ASSUME NEW g, NEW h, NEW s, NEW q, Closed(g, s), g.alive, h.alive = g.alive,
         h.dangling = g.dangling
  PROVE  Closed(h, q)
BY DEF Closed

\* The rest of component_io_cb
LEMMA ContinueKept ==
  ASSUME NEW g, Core(g, <<>>), g.alive, g.ctx = "main", Continue(g, <<>>)
  PROVE  Core(c', stack') /\ Moves(g, c')
<1> DEFINE r == IoLoop(g, TRUE)
<1>1. Drained(g) /\ Good(g)
  BY FramedEmpty DEF Core, Queues
<1>2. Read(g, r, TRUE)
  BY <1>1, IoLoopRead
<1>3. IF r.call THEN c' = r.g /\ stack' = <<>> \o Frames(g)
      ELSE c' = Leave(r.g) /\ stack' = <<>>
  BY DEF Continue
<1> HIDE DEF r
<1>4. CASE r.call
  <2>1. c' = r.g /\ stack' = <<>> \o Frames(g)
    BY <1>3, <1>4
  <2>2. stack' = <<"udp">> \/ stack' = <<"tcp", "readable">>
    BY <2>1 DEF Frames
  <2>3. Framed(stack') /\ ~In("queue", stack')
    BY <2>2, FramedOne, FramedTcp
  <2>4. Good(c') /\ Moves(g, c') /\ Drained(c')
    BY <1>2, <2>1 DEF Read
  <2>5. c'.ctx = "main"
    BY <2>4 DEF Moves, Steady
  <2>6. Polls(c')
    BY <2>4, MovesPolls DEF Core
  <2>7. Sourced(c', stack')
    BY <2>4, FramedEmpty DEF Core, Moves, Sourced, IdKept
  <2>8. Closed(c', stack')
    BY <2>4, ClosedOpen DEF Core, Moves, Steady
  <2> QED
    BY <2>3, <2>4, <2>5, <2>6, <2>7, <2>8 DEF Core, Queues
<1>5. CASE ~r.call
  <2>1. c' = Leave(r.g) /\ stack' = <<>>
    BY <1>3, <1>5
  <2>2. Good(r.g) /\ Moves(g, r.g) /\ Drained(r.g)
    BY <1>2 DEF Read
  <2>3. Good(c') /\ Stays(r.g, c')
    BY <2>1, <2>2, LeaveStays
  <2>4. Moves(g, c') /\ Drained(c')
    BY <2>2, <2>3, MovesTrans DEF Stays, Moves, Steady, Drained
  <2> QED
    BY <2>1, <2>3, <2>4, CoreMoved, FramedEmpty
<1> QED
  BY <1>4, <1>5

-----------------------------------------------------------------------------
\* Thread X

LEMMA SocketCallbackKept ==
  ASSUME IoInvariant, component_io_cb
  PROVE  IoInvariant'
<1>0. Core(c, stack) /\ stack = <<>> /\ Good(c) /\ WriterSound
  BY DEF IoInvariant, Core, component_io_cb
<1>1. c.attached /\ c.ctx = "main" /\ c.alive /\ writer' = writer
  BY <1>0 DEF component_io_cb, Good, Sound, Shape
<1>2. CASE c.reliable /\ c.tcp = "closed"
  <2> DEFINE g == [c EXCEPT !.attached = FALSE]
  <2>1. c' = Leave(g) /\ stack' = stack
    BY <1>2 DEF component_io_cb
  <2>2. Good(g) /\ Stays(c, g)
    BY <1>0 DEF Good, Sound, Shape, Fields, Scheduled, Emptied, Stays, Moves, Steady, Woken,
         Awaited, Signalled, IdKept
  <2> HIDE DEF g
  <2>3. Good(c') /\ Keeps(c, c')
    BY <2>1, <2>2, LeaveStays, StaysTrans, StaysKeeps
  <2>4. Core(c', stack')
    BY <1>0, <1>1, <2>1, <2>3, CoreKept
  <2> QED
    BY <1>0, <1>1, <2>3, <2>4, WriterKept DEF IoInvariant, Keeps
<1>3. CASE ~(c.reliable /\ c.tcp = "closed")
  <2>1. Continue(c, <<>>)
    BY <1>3 DEF component_io_cb
  <2>2. Core(c', stack') /\ Moves(c, c')
    BY <1>0, <1>1, <2>1, ContinueKept
  <2> QED
    BY <1>0, <1>1, <2>2, WriterKept DEF IoInvariant, Moves
<1> QED
  BY <1>2, <1>3

\* A step that keeps the packets, the frames and the writer
LEMMA QuietStep ==
  ASSUME IoInvariant, Good(c'), Keeps(c, c'), UNCHANGED <<stack, writer>>,
         c.alive \/ c'.sources = c.sources
  PROVE  IoInvariant'
<1>1. Core(c', stack')
  BY CoreKept DEF IoInvariant
<1> QED
  BY <1>1, WriterKept DEF IoInvariant, Keeps

LEMMA SocketErrorKept ==
  ASSUME IoInvariant, component_io_cb_error \/ component_io_cb_hup
  PROVE  IoInvariant'
<1> DEFINE g == [c EXCEPT !.attached = FALSE]
           f == [agent_queue_signal([c EXCEPT !.state = "FAILED"], "failed")
                    EXCEPT !.attached = FALSE]
<1>0. Good(c)
  BY DEF IoInvariant, Core
<1>1. c' = Leave(g) \/ c' = g \/ c' = f
  BY DEF component_io_cb_error, component_io_cb_hup
<1>2. UNCHANGED <<stack, writer>>
  BY DEF component_io_cb_error, component_io_cb_hup
<1>3. Good(g) /\ Stays(c, g)
  BY <1>0 DEF Good, Sound, Shape, Fields, Scheduled, Emptied, Stays, Moves, Steady, Woken,
       Awaited, Signalled, IdKept
<1>4. Good(f) /\ Stays(c, f)
  BY <1>0 DEF agent_queue_signal, Good, Sound, Shape, Fields, Scheduled, Emptied, Stays,
       Moves, Steady, Woken, Awaited, Signalled, IdKept
<1> HIDE DEF g, f
<1>5. Good(c') /\ Keeps(c, c')
  BY <1>1, <1>3, <1>4, LeaveStays, StaysTrans, StaysKeeps
<1>6. c.alive
  BY <1>0 DEF component_io_cb_error, component_io_cb_hup, Good, Sound, Shape
<1> QED
  BY <1>2, <1>5, <1>6, QuietStep

\* The loop of the idle source, whose number no longer counts
LEMMA SlowTurnKept ==
  ASSUME NEW g, Good(g), Polls(g), Queues(g, <<>>), g.alive, ~g.dangling,
         g.ctx = "main",
         SlowTurn(g, <<>>)
  PROVE  Core(c', stack') /\ Woken(g, c')
<1>1. CASE g.pending # <<>> /\ g.cb
  <2>0. Append(<<>>, "slow") = <<"slow">>
    OBVIOUS
  <2>1. c' = [g EXCEPT !.delivered = @ \o Head(g.pending)] /\ stack' = <<"slow">>
    BY <1>1, <2>0, Zenon DEF SlowTurn
  <2>2. Good(c') /\ Stays(g, c')
    BY ZenonT(40), <2>1 DEF Good, Sound, Shape, Fields, Scheduled, Emptied, Stays, Moves, Steady, Woken,
         Awaited, Signalled, IdKept
  <2>3. Framed(stack') /\ ~In("queue", stack') /\ In("slow", stack')
    BY <2>1, FramedOne
  <2>4. Polls(c')
    BY <2>2, MovesPolls DEF Stays
  <2>5. Queues(c', stack')
    BY <2>2, <2>3, FramedEmpty DEF Queues, Drained, Stays, Moves, Steady
  <2>6. Sourced(c', stack') /\ c'.ctx = "main" /\ Woken(g, c')
    BY <2>2, <2>3 DEF Sourced, Stays, Moves, Steady
  <2>7. Closed(c', stack')
    BY <2>2 DEF Closed, Stays, Moves, Steady
  <2> QED
    BY <2>2, <2>3, <2>4, <2>5, <2>6, <2>7 DEF Core
<1>2. CASE ~(g.pending # <<>> /\ g.cb)
  <2>1. c' = [g EXCEPT !.id = 0] /\ stack' = <<>>
    BY <1>2 DEF SlowTurn
  <2>2. Good(c')
    BY <1>2, <2>1 DEF Good, Sound, Shape, Fields, Scheduled, Emptied
  <2>3. Stays(g, c') /\ c'.id = 0
    BY <2>1 DEF Good, Sound, Shape, Fields, Stays, Moves, Steady, Woken, Awaited, Signalled,
         IdKept
  <2>4. Polls(c')
    BY <2>3, MovesPolls DEF Stays
  <2>5. Queues(c', stack')
    BY <2>1, <2>3, FramedEmpty DEF Queues, Drained, Stays, Moves, Steady
  <2>6. Closed(c', stack')
    BY <2>3 DEF Closed, Stays, Moves, Steady
  <2>7. Sourced(c', stack') /\ Woken(g, c') /\ Framed(stack')
    BY <2>1, <2>3, FramedEmpty DEF Sourced, Stays, Moves
  <2> QED
    BY <2>1, <2>2, <2>4, <2>5, <2>6, <2>7 DEF Core
<1> QED
  BY <1>1, <1>2

LEMMA IdleSourceKept ==
  ASSUME IoInvariant, emit_io_callback_cb
  PROVE  IoInvariant'
<1>0. /\ Core(c, stack) /\ stack = <<>> /\ Good(c) /\ WriterSound /\ c.ctx = "main"
      /\ writer' = writer
  BY DEF IoInvariant, Core, emit_io_callback_cb
<1>1. PICK s \in c.sources :
         IF c.alive THEN SlowTurn([c EXCEPT !.sources = @ \ {s}], <<>>)
         ELSE /\ c' = [c EXCEPT !.sources = @ \ {s}, !.dangling = TRUE]
              /\ stack' = stack
  BY DEF emit_io_callback_cb
<1>2. IsFiniteSet(c.sources \ {s})
  BY <1>0, FS_RemoveElement DEF Good, Sound, Shape
<1>3. CASE c.alive
  <2> DEFINE g == [c EXCEPT !.sources = @ \ {s}]
  <2>1. Good(g)
    BY <1>0, <1>2 DEF Good, Sound, Shape, Fields, Scheduled, Emptied
  <2>2. /\ Steady(c, g) /\ Woken(c, g) /\ Woken(g, c) /\ g.queued = c.queued /\ g.tcp = c.tcp
        /\ g.dangling = c.dangling /\ Awaited(g) = Awaited(c)
    BY <1>0 DEF Good, Sound, Shape, Fields, Steady, Woken, Awaited, Signalled
  <2>3. SlowTurn(g, <<>>)
    BY <1>1, <1>3
  <2> HIDE DEF g
  <2>4. Polls(g)
    BY <1>0, <2>2 DEF Core, Polls, Steady
  <2>5. Queues(g, <<>>)
    BY <1>0, <2>2 DEF Core, Queues, Drained, Steady
  <2>6. Core(c', stack') /\ Woken(g, c')
    <3>1. ~g.dangling
      BY <1>0, <1>3, <2>2 DEF Core, Closed
    <3> QED
      BY <1>0, <1>3, <2>1, <2>2, <2>3, <2>4, <2>5, <3>1, SlowTurnKept DEF Steady
  <2>7. Woken(c, c')
    BY <2>2, <2>6 DEF Woken
  <2> QED
    BY <1>0, <2>6, <2>7, WriterKept DEF IoInvariant
<1>4. CASE ~c.alive
  <2>1. c' = [c EXCEPT !.sources = @ \ {s}, !.dangling = TRUE] /\ stack' = stack
    BY <1>1, <1>4
  <2>2. Good(c')
    BY <1>0, <1>2, <2>1 DEF Good, Sound, Shape, Fields, Scheduled, Emptied
  <2>3. c'.id = 0
    BY <1>0, <1>4, <2>1 DEF Good, Sound, Shape, Fields
  <2>4. /\ c'.alive = c.alive /\ c'.selected = c.selected /\ c'.queued = c.queued
        /\ c'.socks = c.socks /\ c'.age = c.age /\ c'.used = c.used /\ c'.polled = c.polled
        /\ c'.polledAge = c.polledAge /\ c'.ctx = c.ctx /\ c'.tcp = c.tcp
        /\ c'.exposed = c.exposed
    BY <1>0, <2>1 DEF Good, Sound, Shape, Fields
  <2>5. c.exposed /\ c.tcp = "closed"
    BY <1>0, <1>4 DEF Core, Closed, Good, Sound
  <2>6. Polls(c') /\ Closed(c', stack')
    BY <1>0, <1>4, <2>4, <2>5 DEF Core, Polls, Closed
  <2>7. Queues(c', stack') /\ Sourced(c', stack')
    BY <1>0, <2>1, <2>3, <2>4 DEF Core, Queues, Drained, Sourced
  <2>8. Core(c', stack')
    BY <1>0, <2>1, <2>2, <2>4, <2>6, <2>7 DEF Core
  <2>9. Woken(c, c')
    BY <2>4, <2>5 DEF Woken
  <2> QED
    BY <1>0, <2>8, <2>9, WriterKept DEF IoInvariant
<1> QED
  BY <1>3, <1>4 DEF Core

LEMMA SlowReturnsKept ==
  ASSUME IoInvariant, SlowReturns
  PROVE  IoInvariant'
<1>0. /\ Core(c, stack) /\ Good(c) /\ WriterSound /\ c.ctx = "main" /\ Framed(stack)
      /\ writer' = writer /\ stack # <<>> /\ stack[Len(stack)] = "slow"
  BY DEF IoInvariant, Core, SlowReturns, Top
<1>1. Len(stack) = 1 /\ Below = <<>>
  BY <1>0, FramedFirst DEF Below
<1>2. ~In("queue", stack)
  BY <1>0, <1>1 DEF In
<1>3. CASE c.alive
  <2> DEFINE g == Pop(c)
  <2>1. g = [c EXCEPT !.pending = IF @ = <<>> THEN @ ELSE Tail(@)]
    BY DEF Pop
  <2>2. g.pending # <<>> => c.pending # <<>>
    BY <1>0, <2>1 DEF Good, Sound, Shape, Fields
  <2> HIDE DEF g
  <2>3. Good(g)
    BY <1>0, <2>1, <2>2 DEF Good, Sound, Shape, Fields, Scheduled, Emptied
  <2>4. Stays(c, g) /\ g.tcp = c.tcp
    BY <1>0, <2>1 DEF Good, Sound, Shape, Fields, Stays, Moves, Steady, Woken, Awaited,
         Signalled, IdKept
  <2>5. SlowTurn(g, <<>>)
    BY <1>1, <1>3 DEF SlowReturns, g
  <2>6. Polls(g) /\ Queues(g, <<>>) /\ g.alive /\ g.ctx = "main"
    BY <1>0, <1>2, <1>3, <2>4, MovesPolls, FramedEmpty
       DEF Core, Queues, Drained, Stays, Moves, Steady
  <2>7. Core(c', stack') /\ Woken(g, c')
    <3>1. ~g.dangling
      BY <1>0, <1>3, <2>4 DEF Core, Closed, Stays, Moves, Steady
    <3> QED
      BY <2>3, <2>5, <2>6, <3>1, SlowTurnKept
  <2>8. Woken(c, c')
    BY <2>4, <2>7 DEF Stays, Moves, Woken
  <2> QED
    BY <1>0, <2>7, <2>8, WriterKept DEF IoInvariant
<1>4. CASE ~c.alive
  <2>1. c' = c /\ stack' = <<>>
    BY <1>1, <1>4 DEF SlowReturns
  <2>2. Good(c') /\ Moves(c, c') /\ Drained(c')
    BY <1>0, <1>4, <2>1, StaysSame DEF Stays, Drained, Good, Sound
  <2>3. Sourced(c', stack')
    BY <1>0, <1>4, <2>1 DEF Sourced, Good, Sound
  <2>5. Closed(c', stack')
    BY <1>0, <2>1, FramedEmpty DEF Core, Closed
  <2>4. Core(c', stack')
    BY <1>0, <2>1, <2>2, <2>3, <2>5, FramedEmpty DEF Core, Queues
  <2> QED
    BY <1>0, <2>2, <2>4, WriterKept DEF IoInvariant, Moves
<1> QED
  BY <1>0, <1>3, <1>4 DEF Good, Sound, Shape

LEMMA UdpReturnsKept ==
  ASSUME IoInvariant, UdpReturns
  PROVE  IoInvariant'
<1>0. /\ Core(c, stack) /\ Good(c) /\ WriterSound /\ c.ctx = "main" /\ Framed(stack)
      /\ writer' = writer /\ stack # <<>> /\ stack[Len(stack)] = "udp"
  BY DEF IoInvariant, Core, UdpReturns, Top
<1>1. Len(stack) = 1 /\ Below = <<>>
  BY <1>0, FramedFirst DEF Below
<1>2. ~In("queue", stack) /\ ~In("slow", stack)
  BY <1>0, <1>1 DEF In
<1>3. Core(c, <<>>)
  BY <1>0, <1>2, FramedEmpty DEF Core, Queues, Sourced, Closed
<1>4. CASE c.attached /\ c.cb
  <2>1. Continue(c, <<>>) /\ c.alive
    BY <1>0, <1>1, <1>4 DEF UdpReturns, Good, Sound, Shape
  <2>2. Core(c', stack') /\ Moves(c, c')
    BY <1>0, <1>3, <2>1, ContinueKept
  <2> QED
    BY <1>0, <2>2, WriterKept DEF IoInvariant, Moves
<1>5. CASE ~(c.attached /\ c.cb)
  <2>1. /\ c' = Leave(c) \/ c' = agent_unlock_and_emit(c)
        /\ stack' = <<>>
    BY <1>1, <1>5 DEF UdpReturns
  <2>2. Good(c') /\ Keeps(c, c')
    BY <1>0, <2>1, Unlocked, LeaveStays, StaysKeeps
  <2>3. Core(c', stack')
    BY <1>0, <1>3, <2>1, <2>2, SourcesKept, CoreKept
  <2> QED
    BY <1>0, <2>2, <2>3, WriterKept DEF IoInvariant, Keeps
<1> QED
  BY <1>4, <1>5

\* The callers of pseudo_tcp_socket_readable
LEMMA ResumeKept ==
  ASSUME NEW g, Core(g, stack), stack # <<>>, stack[Len(stack)] = "readable",
         NEW b, b = Outer(stack), NEW rest, rest = Outer(b), Resume(g, b[Len(b)], rest)
  PROVE  Core(c', stack') /\ Woken(g, c')
<1> DEFINE caller == b[Len(b)]
<1>0. Good(g) /\ Polls(g) /\ Queues(g, stack) /\ Sourced(g, stack) /\ g.ctx = "main"
      /\ g.alive \in BOOLEAN
  BY DEF Core, Good, Sound, Shape
<1>1. /\ caller = "tcp" => In("tcp", stack)
      /\ In("tcp", rest) => In("tcp", stack)
      /\ In("queue", rest) => In("queue", stack)
      /\ caller \in {"tcp", "queue", "attach"} /\ Framed(rest)
      /\ caller = "tcp" => rest = <<>>
      /\ caller = "queue" => In("queue", stack) /\ ~In("queue", rest)
      /\ caller # "queue" => (In("queue", stack) <=> In("queue", rest))
      /\ In("slow", stack) => In("slow", rest)
  <2> HIDE DEF caller
  <2>1. Framed(stack)
    BY DEF Core
  <2>2. /\ b[Len(b)] = "tcp" => In("tcp", stack)
        /\ In("tcp", rest) => In("tcp", stack)
        /\ In("queue", rest) => In("queue", stack)
        /\ b[Len(b)] \in {"tcp", "queue", "attach"} /\ Framed(rest)
        /\ b[Len(b)] = "tcp" => rest = <<>>
        /\ b[Len(b)] = "queue" => In("queue", stack) /\ ~In("queue", rest)
        /\ b[Len(b)] # "queue" => (In("queue", stack) <=> In("queue", rest))
        /\ In("slow", stack) => In("slow", rest)
    BY <2>1, FramedCaller
  <2> QED
    BY <2>2 DEF caller
<1>2. Resume(g, caller, rest)
  OBVIOUS
<1> HIDE DEF caller
<1>3. Sourced(g, rest)
  BY <1>0, <1>1 DEF Sourced
<1>9. Closed(g, stack) /\ Closed(g, rest)
  BY <1>1 DEF Core, Closed
<1>4. ASSUME caller # "queue" PROVE Core(g, rest)
  BY <1>0, <1>1, <1>3, <1>4, <1>9 DEF Core, Queues
<1>5. CASE ~g.alive
  <2> DEFINE d == [g EXCEPT !.dangling = TRUE]
  <2>1. /\ c' = IF caller = "attach" THEN agent_unlock_and_emit(g) ELSE d
        /\ stack' = rest
    BY <1>2, <1>5 DEF Resume
  <2>2. /\ Good(d) /\ d.tcp = g.tcp /\ d.alive = g.alive /\ d.exposed = g.exposed
        /\ d.queued = g.queued /\ d.selected = g.selected /\ d.ctx = g.ctx
        /\ d.id = g.id /\ d.sources = g.sources /\ d.socks = g.socks /\ d.age = g.age
        /\ d.used = g.used /\ d.polled = g.polled /\ d.polledAge = g.polledAge
    BY <1>0 DEF Good, Sound, Shape, Fields, Scheduled, Emptied
  <2> HIDE DEF d
  <2>3. g.tcp = "closed"
    BY <1>0, <1>5 DEF Good, Sound
  <2>4. Core(g, rest)
    BY <1>0, <1>1, <1>3, <1>9, <2>3 DEF Core, Queues, Drained
  <2>5. CASE caller = "attach"
    <3>1. c' = agent_unlock_and_emit(g)
      BY <2>1, <2>5
    <3>2. Good(c') /\ Keeps(g, c') /\ c'.sources = g.sources
      BY <1>0, <3>1, Unlocked, StaysKeeps, SourcesKept
    <3> QED
      BY <2>1, <2>4, <3>2, CoreKept DEF Keeps
  <2>6. CASE caller # "attach"
    <3>1. c' = d
      BY <2>1, <2>6
    <3>2. g.exposed
      BY <1>1, <1>5, <1>9, <2>6 DEF Closed
    <3>3. Closed(d, rest) /\ Polls(d)
      BY <1>0, <1>5, <2>2, <3>2 DEF Closed, Polls
    <3>4. Queues(d, rest) /\ Sourced(d, rest)
      BY <1>3, <2>2, <2>3, <2>4 DEF Core, Queues, Drained, Sourced
    <3>5. Core(d, rest)
      BY <1>0, <1>1, <2>2, <3>3, <3>4 DEF Core
    <3> QED
      BY <2>1, <2>2, <2>3, <3>1, <3>5 DEF Woken
  <2> QED
    BY <2>5, <2>6
<1>6. CASE g.alive /\ caller = "tcp"
  <2> DEFINE a == adjust_tcp_clock(g)
  <2>1. Continue(a, <<>>)
    BY <1>1, <1>2, <1>6 DEF Resume
  <2>2. Good(a) /\ Stays(g, a)
    BY <1>0, ClockAdjusted
  <2> HIDE DEF a
  <2>3. Core(a, <<>>) /\ a.alive /\ a.ctx = "main"
    BY <1>0, <1>1, <1>4, <1>6, <2>2, CoreKept, StaysKeeps DEF Stays, Moves, Steady
  <2>4. Core(c', stack') /\ Moves(a, c')
    BY <2>1, <2>3, ContinueKept
  <2>5. Moves(g, c')
    BY <2>2, <2>4, MovesTrans DEF Stays
  <2> QED
    BY <2>4, <2>5 DEF Moves
<1>7. CASE g.alive /\ caller = "attach"
  <2>1. c' = agent_unlock_and_emit(g) /\ stack' = rest
    BY <1>2, <1>7 DEF Resume
  <2>2. Good(c') /\ Keeps(g, c')
    BY <1>0, <2>1, Unlocked, StaysKeeps
  <2>3. Core(c', rest)
    BY <1>4, <1>7, <2>2, CoreKept
  <2> QED
    BY <2>1, <2>2, <2>3 DEF Keeps
<1>8. CASE g.alive /\ caller = "queue"
  <2> DEFINE t == Taken(g)
             r == process_queued_tcp_packets(t, TRUE)
  <2>1. IF r.call THEN c' = r.g /\ stack' = rest \o <<"queue", "readable">>
        ELSE c' = agent_unlock_and_emit(r.g) /\ stack' = rest
    BY <1>2, <1>8 DEF Resume
  <2>2. g.selected /\ (g.tcp # "closed" => g.queued # <<>>)
    BY <1>0, <1>1, <1>8 DEF Queues
  <2>3. Good(t) /\ Moves(g, t)
    BY <1>0, <2>2, TakenMoves
  <2> HIDE DEF t
  <2>4. t.alive /\ t.selected
    BY <1>8, <2>2, <2>3 DEF Moves, Steady
  <2>5. Processed(t, r, TRUE, 0)
    BY <2>3, <2>4, QueueProcessed
  <2> HIDE DEF r
  <2>6. Good(r.g) /\ Moves(g, r.g) /\ r.g.selected /\ r.g.ctx = "main"
    BY <1>0, <2>3, <2>4, <2>5, MovesTrans DEF Processed, Moves, Steady
  <2>7. Polls(r.g)
    BY <1>0, <2>6, MovesPolls
  <2>8. Sourced(r.g, rest)
    BY <1>3, <2>6 DEF Sourced, Moves, IdKept
  <2>9. CASE r.call
    <3>1. c' = r.g /\ stack' = rest \o <<"queue", "readable">> /\ r.g.queued # <<>>
      BY <2>1, <2>5, <2>9 DEF Processed
    <3>2. /\ Framed(stack') /\ In("queue", stack')
          /\ In("slow", rest) => In("slow", stack')
      BY <1>1, <1>8, <3>1, FramedNested
    <3>3. Queues(c', stack') /\ Sourced(c', stack')
      BY <2>6, <2>8, <3>1, <3>2 DEF Queues, Sourced
    <3>4. Closed(c', stack')
      BY <1>8, <1>9, <2>6, <3>1, ClosedOpen DEF Moves, Steady
    <3> QED
      BY <2>6, <2>7, <3>1, <3>2, <3>3, <3>4 DEF Core, Moves
  <2>10. CASE ~r.call
    <3>1. c' = agent_unlock_and_emit(r.g) /\ stack' = rest
      BY <2>1, <2>10
    <3>2. Drained(r.g)
      BY <2>5, <2>10 DEF Processed, Drained, Good, Sound, Shape
    <3>3. Core(r.g, rest)
      <4>1. Closed(r.g, rest)
        BY <1>8, <1>9, <2>6, ClosedOpen DEF Moves, Steady
      <4> QED
        BY <1>1, <1>8, <2>6, <2>7, <2>8, <3>2, <4>1 DEF Core, Queues
    <3>4. Good(c') /\ Keeps(r.g, c') /\ Stays(r.g, c')
      BY <2>6, <3>1, Unlocked, StaysKeeps
    <3>5. Core(c', rest)
      BY <2>6, <3>1, <3>3, <3>4, SourcesKept, CoreKept
    <3>6. Moves(g, c')
      BY <2>6, <3>4, MovesTrans DEF Stays
    <3> QED
      BY <3>1, <3>5, <3>6 DEF Moves
  <2> QED
    BY <2>5, <2>9, <2>10 DEF Processed
<1> QED
  BY <1>0, <1>1, <1>5, <1>6, <1>7, <1>8

LEMMA ReadableReturnsKept ==
  ASSUME IoInvariant, ReadableReturns
  PROVE  IoInvariant'
<1> DEFINE r == IF c.alive /\ c.tcp # "closed" /\ c.cb THEN ReadableTurn(c, TRUE) ELSE Done(c)
<1>0. /\ Core(c, stack) /\ Good(c) /\ WriterSound
      /\ writer' = writer /\ stack # <<>> /\ stack[Len(stack)] = "readable"
  BY DEF IoInvariant, Core, ReadableReturns, Top
<1>1. IF r.call THEN c' = r.g /\ stack' = stack
      ELSE Resume(r.g, Below[Len(Below)], SubSeq(Below, 1, Len(Below) - 1))
  BY DEF ReadableReturns
<1>2. Good(r.g) /\ Stays(c, r.g) /\ (c.alive \/ r.g.sources = c.sources)
  <2>1. CASE c.alive /\ c.tcp # "closed" /\ c.cb
    BY <1>0, <2>1, TurnStays DEF Good
  <2>2. CASE ~(c.alive /\ c.tcp # "closed" /\ c.cb)
    <3>1. r.g = c
      BY <2>2 DEF Done
    <3> QED
      BY <1>0, <3>1, StaysSame
  <2> QED
    BY <2>1, <2>2
<1> HIDE DEF r
<1>3. Core(r.g, stack)
  BY <1>0, <1>2, CoreKept, StaysKeeps
<1>4. CASE r.call
  BY <1>0, <1>1, <1>2, <1>3, <1>4, WriterKept DEF IoInvariant, Stays, Moves
<1>5. CASE ~r.call
  <2>1. Resume(r.g, Below[Len(Below)], SubSeq(Below, 1, Len(Below) - 1))
    BY <1>1, <1>5
  <2>2. Below = Outer(stack) /\ SubSeq(Below, 1, Len(Below) - 1) = Outer(Below)
    BY DEF Below, Outer
  <2>3. Core(c', stack') /\ Woken(r.g, c')
    BY <1>0, <1>3, <2>1, <2>2, ResumeKept
  <2>4. Woken(c, c')
    BY <1>2, <2>3 DEF Stays, Moves, Woken
  <2> QED
    BY <1>0, <2>3, <2>4, WriterKept DEF IoInvariant
<1> QED
  BY <1>4, <1>5

-----------------------------------------------------------------------------
\* Calls of the client and of the agent's timers

LEMMA ContextSet ==
  ASSUME NEW g, Good(g), g.alive
  PROVE  /\ Good(component_set_io_context(g)) /\ Keeps(g, component_set_io_context(g))
         /\ component_set_io_context(g).ctx = "main" /\ component_set_io_context(g).alive
<1> DEFINE h == [g EXCEPT !.ctx = "main", !.attached = TRUE]
<1>1. component_set_io_context(g) = h \/ (component_set_io_context(g) = g /\ g.ctx = "main")
  BY DEF component_set_io_context
<1>2. Good(h) /\ h.ctx = "main" /\ h.alive
  BY ZenonT(40) DEF Good, Sound, Shape, Fields, Scheduled, Emptied
<1>3. Keeps(g, h)
  BY DEF Good, Sound, Shape, Fields, Keeps, Woken, Awaited, Signalled, IdKept
<1> HIDE DEF h
<1> QED
  BY <1>1, <1>2, <1>3, StaysSame, StaysKeeps

\* No callback, but perhaps the buffers of a read
LEMMA CallbackUnset ==
  ASSUME NEW g, Good(g), NEW recv
  PROVE  /\ Good(component_set_io_callback(g, FALSE, recv))
         /\ Keeps(g, component_set_io_callback(g, FALSE, recv))
         /\ ~component_set_io_callback(g, FALSE, recv).cb
<1> DEFINE a == [g EXCEPT !.cb = FALSE, !.recv = recv]
           h == [a EXCEPT !.sources = @ \ {a.id}, !.id = 0]
<1>1. component_set_io_callback(g, FALSE, recv) = h
  BY DEF component_set_io_callback, component_deschedule_io_callback
<1>2. Good(a) /\ ~a.cb
  BY DEF Good, Sound, Shape, Fields, Scheduled, Emptied
<1>3. Keeps(g, a)
  BY DEF Good, Sound, Shape, Fields, Keeps, Woken, Awaited, Signalled, IdKept
<1> HIDE DEF a
<1>4. IsFiniteSet(a.sources \ {a.id})
  BY <1>2, FS_RemoveElement DEF Good, Sound, Shape
<1>5. Good(h) /\ ~h.cb
  BY <1>2, <1>4 DEF Good, Sound, Shape, Fields, Scheduled, Emptied
<1>6. Keeps(a, h)
  BY <1>2 DEF Good, Sound, Shape, Fields, Keeps, Woken, Awaited, Signalled, IdKept
<1> HIDE DEF h
<1> QED
  BY <1>1, <1>3, <1>5, <1>6, KeepsTrans

LEMMA AttachKept ==
  ASSUME IoInvariant, NEW th, nice_agent_attach_recv(th)
  PROVE  IoInvariant'
<1> DEFINE m == component_set_io_context(c)
           a == [m EXCEPT !.cb = TRUE, !.recv = None]
           g == component_schedule_io_callback(a)
           owner == th = "X"
           r == Reread(g, owner)
<1>0. Core(c, stack) /\ Good(c) /\ WriterSound /\ writer' = writer /\ c.alive /\ Framed(stack)
  BY DEF IoInvariant, Core, nice_agent_attach_recv, Free
<1>1. component_set_io_callback(m, TRUE, None) = g
  BY DEF component_set_io_callback
<1>2. IF r.call THEN c' = r.g /\ stack' = stack \o <<"attach", "readable">>
      ELSE c' = agent_unlock_and_emit(r.g) /\ stack' = stack
  BY <1>1, Zenon DEF nice_agent_attach_recv
<1>3. Good(m) /\ Keeps(c, m) /\ m.ctx = "main" /\ m.alive
  BY <1>0, ContextSet
<1> HIDE DEF m
<1>4. Sound(a) /\ a.alive /\ a.ctx = "main"
  BY <1>3 DEF Good, Sound, Shape, Fields
<1>5. Keeps(m, a) /\ a.buf = m.buf /\ a.tcp = m.tcp /\ a.readable = m.readable
  BY <1>3 DEF Good, Sound, Shape, Fields, Keeps, Woken, Awaited, Signalled, IdKept
<1> HIDE DEF a
<1>6. /\ Sound(g) /\ Scheduled(g) /\ Stays(a, g) /\ g.tcp = m.tcp /\ g.buf = m.buf
      /\ g.readable = m.readable
  BY <1>4, <1>5, ScheduledSource
<1>7. Keeps(c, g) /\ g.alive /\ g.ctx = "main"
  BY <1>3, <1>4, <1>5, <1>6, StaysKeeps, KeepsTrans DEF Stays, Moves, Steady
<1> HIDE DEF g
<1>8. Good(r.g) /\ Stays(g, r.g) /\ r.call \in BOOLEAN
  <2>1. CASE g.reliable /\ g.tcp # "closed" /\ g.readable
    <3>1. r = pseudo_tcp_socket_readable(g, owner)
      BY <2>1 DEF Reread
    <3> HIDE DEF r, owner
    <3>2. owner \in BOOLEAN
      BY DEF owner
    <3> QED
      BY <1>6, <1>7, <3>1, <3>2, ReadableStays
  <2>2. CASE ~(g.reliable /\ g.tcp # "closed" /\ g.readable)
    <3>1. r.g = g /\ r.call = FALSE
      BY <2>2 DEF Reread, Done
    <3>2. Emptied(g)
      BY <1>3, <1>6, <2>2 DEF Good, Sound, Emptied
    <3> QED
      BY <1>6, <3>1, <3>2, StaysSame DEF Good
  <2> QED
    BY <2>1, <2>2
<1> HIDE DEF r
<1>9. Keeps(c, r.g) /\ r.g.ctx = "main"
  BY <1>7, <1>8, StaysKeeps, KeepsTrans DEF Stays, Moves, Steady
<1>10. Core(r.g, stack)
  BY <1>0, <1>8, <1>9, CoreKept
<1>11. CASE r.call
  <2>1. c' = r.g /\ stack' = stack \o <<"attach", "readable">>
    BY <1>2, <1>11
  <2>2. /\ Framed(stack') /\ (In("slow", stack) => In("slow", stack'))
        /\ (In("queue", stack') <=> In("queue", stack))
    BY <1>0, <2>1, FramedNested
  <2>3. Core(c', stack')
    <3>1. Closed(c', stack')
      BY <1>0, <1>9, <2>1, ClosedOpen DEF Core, Keeps
    <3> QED
      BY <1>9, <1>10, <2>1, <2>2, <3>1 DEF Core, Queues, Sourced
  <2> QED
    BY <1>0, <1>9, <2>1, <2>3, WriterKept DEF IoInvariant, Keeps
<1>12. CASE ~r.call
  <2>1. c' = agent_unlock_and_emit(r.g) /\ stack' = stack
    BY <1>2, <1>12
  <2>2. Good(c') /\ Keeps(c, c')
    BY <1>8, <1>9, <2>1, Unlocked, StaysKeeps, KeepsTrans
  <2> QED
    BY <1>0, <2>1, <2>2, QuietStep
<1> QED
  BY <1>11, <1>12

LEMMA DetachKept ==
  ASSUME IoInvariant, NEW th, nice_agent_detach_recv(th)
  PROVE  IoInvariant'
<1> DEFINE m == component_set_io_context(c)
           g == component_set_io_callback(m, FALSE, None)
<1>0. Good(c) /\ c.alive
  BY DEF IoInvariant, Core, nice_agent_detach_recv, Free
<1>1. c' = agent_unlock_and_emit(g) /\ UNCHANGED <<stack, writer>>
  BY DEF nice_agent_detach_recv
<1>2. Good(m) /\ Keeps(c, m)
  BY <1>0, ContextSet
<1> HIDE DEF m
<1>3. Good(g) /\ Keeps(m, g)
  BY <1>2, CallbackUnset
<1> HIDE DEF g
<1>4. Good(c') /\ Keeps(c, c')
  BY <1>1, <1>2, <1>3, Unlocked, StaysKeeps, KeepsTrans
<1> QED
  BY <1>0, <1>1, <1>4, QuietStep

LEMMA SelectKept ==
  ASSUME IoInvariant, NEW th, agent_signal_new_selected_pair(th)
  PROVE  IoInvariant'
<1> DEFINE g == [c EXCEPT !.selected = TRUE, !.state = "READY"]
           owner == th = "X"
           r == IF g.reliable THEN process_queued_tcp_packets(g, owner) ELSE Done(g)
<1>0. /\ Core(c, stack) /\ Good(c) /\ WriterSound /\ writer' = writer /\ c.alive
      /\ Framed(stack) /\ ~c.selected
  BY DEF IoInvariant, Core, agent_signal_new_selected_pair, Free
<1>1. IF r.call THEN c' = r.g /\ stack' = stack \o <<"queue", "readable">>
      ELSE c' = agent_unlock_and_emit(adjust_tcp_clock(r.g)) /\ stack' = stack
  BY DEF agent_signal_new_selected_pair
<1>2. ~In("queue", stack)
  BY <1>0 DEF Core, Queues
<1>3. Good(g) /\ g.alive /\ g.selected
  BY <1>0 DEF Good, Sound, Shape, Fields, Scheduled, Emptied
<1>4. Woken(c, g) /\ IdKept(c, g) /\ Polls(g) /\ g.ctx = c.ctx /\ g.id = c.id
      /\ g.sources = c.sources /\ g.alive = c.alive /\ g.dangling = c.dangling
  <2>1. /\ g.ctx = c.ctx /\ g.id = c.id /\ g.sources = c.sources /\ g.alive = c.alive
        /\ g.dangling = c.dangling /\ g.tcp = c.tcp /\ g.signals = c.signals
        /\ g.flying = c.flying /\ g.sbuf = c.sbuf /\ g.writeEnable = c.writeEnable
        /\ g.age = c.age /\ g.polledAge = c.polledAge /\ g.socks = c.socks
        /\ g.used = c.used /\ g.polled = c.polled
    BY <1>0 DEF Good, Sound, Shape, Fields
  <2> HIDE DEF g
  <2> QED
    BY <1>0, <2>1 DEF Core, Polls, Woken, Awaited, Signalled, IdKept
<1> HIDE DEF g
<1>5. Processed(g, r, owner, 0)
  <2>1. CASE g.reliable
    <3>1. owner \in BOOLEAN
      OBVIOUS
    <3> HIDE DEF owner
    <3> QED
      BY <1>3, <2>1, <3>1, QueueProcessed
  <2>2. CASE ~g.reliable
    <3>1. r.g = g /\ r.call = FALSE
      BY <2>2 DEF Done
    <3>2. g.tcp = "closed" /\ Moves(g, g)
      BY <1>3, <2>2, StaysSame DEF Good, Sound, Stays
    <3> QED
      BY <1>3, <3>1, <3>2 DEF Processed
  <2> QED
    BY <2>1, <2>2
<1> HIDE DEF r, owner
<1>6. Good(r.g) /\ Moves(g, r.g) /\ r.g.ctx = c.ctx
  BY <1>4, <1>5 DEF Processed, Moves, Steady
<1>7. Polls(r.g) /\ Woken(c, r.g)
  BY <1>4, <1>6, MovesPolls DEF Moves, Woken
<1>8. Sourced(r.g, stack)
  BY <1>0, <1>4, <1>6 DEF Core, Sourced, Moves, IdKept
<1>11. \A s : Closed(r.g, s)
  <2>1. r.g.alive = c.alive /\ r.g.dangling = c.dangling
    BY <1>4, <1>6 DEF Moves, Steady
  <2> QED
    BY <1>0, <2>1, ClosedOpen DEF Core
<1>9. CASE r.call
  <2>1. c' = r.g /\ stack' = stack \o <<"queue", "readable">> /\ r.g.queued # <<>> /\ g.cb
    BY <1>1, <1>5, <1>9 DEF Processed
  <2>2. Framed(stack') /\ (In("slow", stack) => In("slow", stack')) /\ In("queue", stack')
    BY <1>0, <1>2, <2>1, FramedNested
  <2>3. c'.ctx = "main"
    BY <1>3, <1>4, <1>6, <2>1 DEF Good, Sound
  <2>4. r.g.selected
    BY <1>3, <1>6 DEF Moves, Steady
  <2>5. Queues(c', stack') /\ Sourced(c', stack')
    BY <1>8, <2>1, <2>2, <2>4 DEF Queues, Sourced
  <2>6. Core(c', stack')
    BY <1>6, <1>7, <1>11, <2>1, <2>2, <2>3, <2>5 DEF Core
  <2> QED
    BY <1>0, <1>7, <2>1, <2>6, WriterKept DEF IoInvariant
<1>10. CASE ~r.call
  <2> DEFINE a == adjust_tcp_clock(r.g)
  <2>1. c' = agent_unlock_and_emit(a) /\ stack' = stack
    BY <1>1, <1>10
  <2>2. Drained(r.g)
    BY <1>5, <1>10 DEF Processed, Drained, Good, Sound, Shape
  <2>3. Core(r.g, stack)
    BY <1>0, <1>2, <1>6, <1>7, <1>8, <1>11, <2>2 DEF Core, Queues
  <2>4. Good(a) /\ Stays(r.g, a)
    BY <1>6, ClockAdjusted
  <2> HIDE DEF a
  <2>5. Good(c') /\ Stays(r.g, c')
    BY <2>1, <2>4, Unlocked, StaysTrans
  <2>6. Core(c', stack')
    <3>1. r.g.alive
      BY <1>3, <1>6 DEF Moves, Steady
    <3> QED
      BY <2>1, <2>3, <2>5, <3>1, CoreKept, StaysKeeps
  <2>7. Woken(c, c')
    BY <1>7, <2>5 DEF Stays, Moves, Woken
  <2> QED
    BY <1>0, <2>6, <2>7, WriterKept DEF IoInvariant
<1> QED
  BY <1>5, <1>9, <1>10 DEF Processed

LEMMA RemoveKept ==
  ASSUME IoInvariant, NEW th, nice_agent_remove_stream(th)
  PROVE  IoInvariant'
<1> DEFINE x == [c EXCEPT !.exposed = Exposed]
           a == [x EXCEPT !.alive = FALSE, !.tcp = "closed", !.attached = FALSE,
                          !.clock = FALSE, !.cancelled = TRUE, !.pending = <<>>,
                          !.queued = <<>>, !.selected = FALSE, !.keepalive = 0,
                          !.socks = <<>>, !.age = @ + 1]
           g == component_close(x)
           h == agent_queue_signal(g, "removed")
<1>0. Core(c, stack) /\ Good(c) /\ Polls(c) /\ WriterSound
  BY DEF IoInvariant, Core
<1>1. c' = agent_unlock_and_emit(h) /\ UNCHANGED <<stack, writer>>
  BY DEF nice_agent_remove_stream
<1>2. /\ Shape(a) /\ ~a.alive /\ a.tcp = "closed" /\ a.queued = <<>> /\ a.socks = <<>>
      /\ a.pending = <<>> /\ ~a.attached /\ (a.cb => a.ctx = "main") /\ a.age = c.age + 1 /\ a.used = c.used /\ a.polled = c.polled
      /\ a.polledAge = c.polledAge /\ a.ctx = c.ctx
  <2>1. a.queued \in Seq(Segments)
    <3>1. a.queued = <<>> /\ <<>> \in Seq(Segments)
      BY <1>0 DEF Good, Sound, Shape, Fields
    <3> QED
      BY <3>1
  <2>2. Shape(a) /\ a.id = c.id
    BY ZenonT(40), <1>0, <2>1 DEF Good, Sound, Shape, Fields, TcpStates
  <2>3. /\ ~a.alive /\ a.tcp = "closed" /\ a.queued = <<>> /\ a.socks = <<>> /\ a.pending = <<>>
        /\ a.age = c.age + 1 /\ a.used = c.used /\ a.polled = c.polled /\ ~a.attached
        /\ a.polledAge = c.polledAge /\ a.ctx = c.ctx /\ a.cb = c.cb
    BY <1>0 DEF Good, Sound, Shape, Fields
  <2> HIDE DEF a
  <2>4. c.cb => c.ctx = "main"
    BY <1>0 DEF Good, Sound
  <2> QED
    BY <2>2, <2>3, <2>4
<1>3. g = [a EXCEPT !.sources = @ \ {a.id}, !.id = 0]
  BY DEF component_close, component_deschedule_io_callback
<1> HIDE DEF a, g
<1>4. IsFiniteSet(a.sources \ {a.id})
  BY <1>2, FS_RemoveElement DEF Shape
<1>5. /\ Good(g) /\ ~g.alive /\ g.tcp = "closed" /\ g.queued = <<>> /\ g.socks = <<>>
      /\ g.age = c.age + 1 /\ g.used = c.used /\ g.polled = c.polled
      /\ g.polledAge = c.polledAge /\ g.ctx = c.ctx
  <2>1. /\ g.alive = a.alive /\ g.tcp = "closed" /\ g.queued = <<>> /\ g.socks = <<>>
        /\ g.pending = <<>> /\ g.attached = a.attached /\ g.age = a.age /\ g.used = a.used
        /\ g.polled = a.polled /\ g.polledAge = a.polledAge /\ g.ctx = a.ctx /\ g.cb = a.cb
        /\ g.id = 0
    BY <1>2, <1>3 DEF Shape, Fields
  <2>2. Shape(g)
    BY <1>2, <1>3, <1>4 DEF Shape, Fields
  <2> QED
    BY <1>2, <2>1, <2>2 DEF Good, Sound, Scheduled, Emptied
<1>6. Polls(g)
  BY <1>0, <1>5 DEF Polls
<1>7. g.id = 0
  BY <1>5 DEF Good, Sound
<1>13. Closed(g, stack)
  <2>1. /\ a.exposed = Exposed /\ a.dangling = c.dangling /\ a.sources = c.sources
        /\ a.id = c.id /\ DOMAIN a = Fields
    BY <1>0 DEF a, Good, Sound, Shape, Fields
  <2>2. g.exposed = a.exposed /\ g.dangling = a.dangling /\ g.sources = c.sources \ {c.id}
    BY <1>3, <2>1 DEF Fields
  <2>3. ~c.dangling
    BY <1>0 DEF Core, Closed, nice_agent_remove_stream, Free
  <2> QED
    BY <1>5, <2>1, <2>2, <2>3 DEF Closed, Exposed
<1>8. Core(g, stack)
  BY <1>0, <1>5, <1>6, <1>7, <1>13 DEF Core, Queues, Drained, Sourced
<1>9. Good(h) /\ Stays(g, h)
  BY <1>5, SignalQueued
<1>14. h.sources = g.sources
  BY <1>5, SourcesKept
<1> HIDE DEF h
<1>10. Good(c') /\ Stays(g, c') /\ c'.sources = g.sources
  BY <1>1, <1>9, <1>14, Unlocked, StaysTrans, SourcesKept
<1>11. Core(c', stack')
  BY <1>1, <1>8, <1>10, CoreKept, StaysKeeps
<1>12. Woken(c, c')
  BY <1>5, <1>10 DEF Stays, Moves, Steady, Woken
<1> QED
  BY <1>0, <1>1, <1>11, <1>12, WriterKept DEF IoInvariant

-----------------------------------------------------------------------------
\* nice_agent_recv_messages_blocking_or_nonblocking

LEMMA ReturnKept ==
  ASSUME NEW g, Good(g), NEW error, Return(g, error)
  PROVE  Good(c') /\ Keeps(g, c')
<1> DEFINE d == [g EXCEPT !.dropped = @ \o g.recv.got]
           e == [g EXCEPT !.delivered = @ \o g.recv.got]
           f == IF error THEN d ELSE e
           h == component_set_io_callback(f, FALSE, None)
<1>1. c' = agent_unlock_and_emit(h)
  BY DEF Return
<1>2. Good(d) /\ Stays(g, d)
  BY DEF Good, Sound, Shape, Fields, Scheduled, Emptied, Stays, Moves, Steady, Woken,
     Awaited, Signalled, IdKept
<1>3. Good(e) /\ Stays(g, e)
  BY DEF Good, Sound, Shape, Fields, Scheduled, Emptied, Stays, Moves, Steady, Woken,
     Awaited, Signalled, IdKept
<1>4. f = d \/ f = e
  OBVIOUS
<1> HIDE DEF d, e, f
<1>5. Good(f) /\ Keeps(g, f)
  BY <1>2, <1>3, <1>4, StaysKeeps
<1>6. Good(h) /\ Keeps(f, h)
  BY <1>5, CallbackUnset
<1> HIDE DEF h
<1> QED
  BY <1>1, <1>5, <1>6, Unlocked, StaysKeeps, KeepsTrans

LEMMA IterateKept ==
  ASSUME NEW g, Good(g), Iterate(g)
  PROVE  Good(c') /\ Keeps(g, c')
BY Unlocked, StaysKeeps DEF Iterate

LEMMA RecvKept ==
  ASSUME IoInvariant, nice_agent_recv
  PROVE  IoInvariant'
<1> DEFINE g == component_set_io_callback(c, FALSE,
                    [want |-> budget.want, got |-> <<>>, ragged |-> FALSE])
           d == pending_io_messages_recv_messages(g)
           h == IF g.pending = <<>> THEN g ELSE [d EXCEPT !.raced = @ \/ In("slow", stack)]
           e == pseudo_tcp_socket_recv_messages(h)
           t == IF h.reliable /\ h.tcp = "established" /\ h.buf # <<>>
                THEN adjust_tcp_clock(e) ELSE h
<1>0. Good(c) /\ c.alive /\ UNCHANGED <<stack, writer>>
  BY DEF IoInvariant, Core, nice_agent_recv
<1>1. c' = g \/ Return(t, FALSE) \/ Iterate(t)
  BY DEF nice_agent_recv
<1>2. Good(g) /\ Keeps(c, g) /\ ~g.cb
  BY <1>0, CallbackUnset
<1> HIDE DEF g
<1>3. Good(h) /\ Keeps(g, h) /\ ~h.cb
  <2>1. CASE g.pending = <<>>
    BY <1>2, <2>1, StaysSame, StaysKeeps
  <2>2. CASE g.pending # <<>>
    <3>1. Good(d) /\ ~d.cb
      BY <1>2 DEF pending_io_messages_recv_messages, Good, Sound, Shape, Fields,
           Scheduled, Emptied
    <3>2. Keeps(g, d)
      BY <1>2 DEF pending_io_messages_recv_messages, Good, Sound, Shape, Fields,
           Keeps, Woken, Awaited, Signalled, IdKept
    <3>3. h = [d EXCEPT !.raced = d.raced \/ In("slow", stack)]
      BY <2>2
    <3> HIDE DEF d, h
    <3> DEFINE taken == d.raced \/ In("slow", stack)
    <3>4. h = [d EXCEPT !.raced = taken]
      BY <3>3
    <3> HIDE DEF taken
    <3>5. Good(h) /\ ~h.cb
      BY <3>1, <3>4 DEF Good, Sound, Shape, Fields, Scheduled, Emptied
    <3>6. Keeps(d, h)
      BY <3>1, <3>4 DEF Good, Sound, Shape, Fields, Keeps, Woken, Awaited, Signalled, IdKept
    <3> QED
      BY <3>2, <3>5, <3>6, KeepsTrans
  <2> QED
    BY <2>1, <2>2
<1> HIDE DEF h
<1>4. Good(t) /\ Keeps(h, t)
  <2>1. CASE h.reliable /\ h.tcp = "established" /\ h.buf # <<>>
    <3>1. h.readable
      BY <1>3, <2>1 DEF Good, Emptied
    <3>2. Good(e)
      BY <1>3, <3>1 DEF pseudo_tcp_socket_recv_messages, Good, Sound, Shape, Fields,
           Scheduled, Emptied
    <3>3. Keeps(h, e)
      BY <1>3 DEF pseudo_tcp_socket_recv_messages, Good, Sound, Shape, Fields, Keeps,
           Woken, Awaited, Signalled, IdKept
    <3> HIDE DEF e
    <3> QED
      BY <2>1, <3>2, <3>3, ClockAdjusted, StaysKeeps, KeepsTrans
  <2>2. CASE ~(h.reliable /\ h.tcp = "established" /\ h.buf # <<>>)
    <3>1. t = h
      BY <2>2
    <3> HIDE DEF t
    <3> QED
      BY <1>3, <3>1, StaysSame, StaysKeeps
  <2> QED
    BY <2>1, <2>2
<1> HIDE DEF t
<1>5. Good(c') /\ Keeps(c, c')
  <2>1. Keeps(c, t)
    BY <1>2, <1>3, <1>4, KeepsTrans
  <2>2. ASSUME Return(t, FALSE) PROVE Good(c') /\ Keeps(t, c')
    BY <1>4, <2>2, ReturnKept
  <2>3. ASSUME Iterate(t) PROVE Good(c') /\ Keeps(t, c')
    BY <1>4, <2>3, IterateKept
  <2> QED
    BY <1>1, <1>2, <2>1, <2>2, <2>3, KeepsTrans
<1> QED
  BY <1>0, <1>5, QuietStep

LEMMA IterationKept ==
  ASSUME IoInvariant, MainContextIteration
  PROVE  IoInvariant'
<1> DEFINE g == [c EXCEPT !.attached = FALSE]
           r == IoLoop(c, FALSE)
           ready == c.alive /\ c.ctx = "own" /\ c.attached /\ c.net # <<>>
<1>0. Core(c, stack) /\ Good(c) /\ WriterSound /\ UNCHANGED <<stack, writer>>
  BY DEF IoInvariant, Core, MainContextIteration
<1>1. c' = c \/ c' = g \/ (c.alive /\ c.ctx = "own" /\ c' = Leave(r.g))
  BY DEF MainContextIteration
<1>2. CASE c' = c
  BY <1>0, <1>2, StaysSame, StaysKeeps, QuietStep
<1>3. CASE c' = g
  <2>1. Good(c') /\ Stays(c, c')
    BY <1>0, <1>3 DEF Good, Sound, Shape, Fields, Scheduled, Emptied, Stays, Moves, Steady,
         Woken, Awaited, Signalled, IdKept
  <2>2. c'.sources = c.sources
    BY <1>0, <1>3 DEF Good, Sound, Shape, Fields
  <2> QED
    BY <1>0, <2>1, <2>2, StaysKeeps, QuietStep
<1>4. CASE c.alive /\ c.ctx = "own" /\ c' = Leave(r.g)
  <2>1. stack = <<>> /\ ~In("queue", stack)
    BY <1>0, <1>4, FramedEmpty DEF Core
  <2>2. Drained(c)
    BY <1>0, <2>1 DEF Core, Queues
  <2>3. Read(c, r, FALSE)
    BY <1>0, <1>4, <2>2, IoLoopRead
  <2> HIDE DEF r
  <2>4. Good(r.g) /\ Moves(c, r.g) /\ Drained(r.g)
    BY <2>3 DEF Read
  <2>5. Good(c') /\ Stays(r.g, c')
    BY <1>4, <2>4, LeaveStays
  <2>6. Moves(c, c') /\ Drained(c')
    BY <2>4, <2>5, MovesTrans DEF Stays, Moves, Steady, Drained
  <2>7. Core(c', stack')
    BY <1>0, <1>4, <2>1, <2>5, <2>6, CoreMoved
  <2> QED
    BY <1>0, <2>6, <2>7, WriterKept DEF IoInvariant, Moves
<1> QED
  BY <1>1, <1>2, <1>3, <1>4

LEMMA RecvCheckKept ==
  ASSUME IoInvariant, RecvCheck
  PROVE  IoInvariant'
<1>0. Good(c) /\ UNCHANGED <<stack, writer>>
  BY DEF IoInvariant, Core, RecvCheck
<1>1. c' = agent_unlock_and_emit(c) \/ Return(c, TRUE) \/ Return(c, FALSE) \/ Iterate(c)
  BY DEF RecvCheck
<1>2. Good(c') /\ Keeps(c, c')
  <2>1. ASSUME NEW error, Return(c, error) PROVE Good(c') /\ Keeps(c, c')
    BY <1>0, <2>1, ReturnKept
  <2>2. ASSUME Iterate(c) PROVE Good(c') /\ Keeps(c, c')
    BY <1>0, <2>2, IterateKept
  <2> QED
    BY <1>0, <1>1, <2>1, <2>2, Unlocked, StaysKeeps
<1>3. c.alive \/ c'.sources = c.sources
  BY <1>0, SourcesKept DEF RecvCheck
<1> QED
  BY <1>0, <1>2, <1>3, QuietStep

-----------------------------------------------------------------------------
\* nice_agent_send and the writer

LEMMA SendStays ==
  ASSUME NEW g, Good(g), NEW n \in Nat \ {0}
  PROVE  /\ Good(nice_agent_send(g, n).g) /\ Stays(g, nice_agent_send(g, n).g)
         /\ nice_agent_send(g, n).sent \in 0 .. n
         /\ nice_agent_send(g, n).sent = 0 /\ nice_agent_send(g, n).g.tcp = "established"
               => Awaited(nice_agent_send(g, n).g)
<1> DEFINE r == nice_agent_send(g, n)
<1>1. CASE ~g.selected \/ (g.reliable /\ g.tcp = "closed")
  <2>1. r.g = g /\ r.sent = 0
    BY <1>1 DEF nice_agent_send
  <2>2. g.tcp # "established"
    BY <1>1 DEF Good, Sound
  <2> HIDE DEF r
  <2> QED
    BY <2>1, <2>2, StaysSame DEF r
<1>2. CASE ~(~g.selected \/ (g.reliable /\ g.tcp = "closed")) /\ ~g.reliable
  <2>1. r.g = g /\ r.sent = n
    BY <1>2 DEF nice_agent_send
  <2> HIDE DEF r
  <2> QED
    BY <2>1, StaysSame DEF r
<1>3. CASE ~(~g.selected \/ (g.reliable /\ g.tcp = "closed")) /\ g.reliable
  <2> DEFINE room == IF g.tcp = "established" THEN SendBuffer - g.sbuf ELSE 0
             k == IF n < room THEN n ELSE room
             h == [g EXCEPT !.sbuf = @ + k,
                            !.writeEnable = @ \/ (g.tcp = "established" /\ k < n)]
             full == h.tcp # "established" \/ h.sbuf = SendBuffer
             a == adjust_tcp_clock(h)
             told == pseudo_tcp_socket_can_send(a)
             silent == [told EXCEPT !.cancelled = FALSE]
  <2>1. r.g = (IF full THEN silent ELSE told) /\ r.sent = k
    BY <1>3 DEF nice_agent_send
  <2>2. /\ g.sbuf \in 0 .. SendBuffer /\ SendBuffer \in Nat /\ g.writeEnable \in BOOLEAN
        /\ DOMAIN g = Fields
    BY SendBufferNat DEF Good, Sound, Shape
  <2>3. /\ k \in 0 .. n /\ g.sbuf + k \in 0 .. SendBuffer
        /\ g.tcp = "established" /\ k = 0 => g.sbuf = SendBuffer
    BY <2>2
  <2> HIDE DEF k
  <2>4. /\ h.sbuf = g.sbuf + k /\ h.tcp = g.tcp /\ h.cancelled = g.cancelled
        /\ h.writeEnable = (g.writeEnable \/ (g.tcp = "established" /\ k < n))
    BY <2>2 DEF Fields
  <2>5. Good(h)
    BY <2>3, <2>4 DEF Good, Sound, Shape, Fields, Scheduled, Emptied
  <2>6. Stays(g, h)
    BY <2>3, <2>2 DEF Good, Sound, Shape, Fields, Stays, Moves, Steady, Woken, Awaited,
         Signalled, IdKept
  <2> HIDE DEF h
  <2>7. Good(a) /\ Stays(g, a) /\ a.tcp = g.tcp /\ a.sbuf = h.sbuf
    BY <2>4, <2>5, <2>6, ClockAdjusted, StaysTrans DEF adjust_tcp_clock, Good, Sound, Shape,
       Fields
  <2> HIDE DEF a
  <2>8. told = IF a.tcp = "established" /\ a.sbuf < SendBuffer THEN a
               ELSE [a EXCEPT !.writeEnable = TRUE]
    BY DEF pseudo_tcp_socket_can_send
  <2> HIDE DEF told
  <2>9. Good(told) /\ told.tcp = g.tcp /\ told.sbuf = h.sbuf
    BY ZenonT(40), <2>7, <2>8 DEF Good, Sound, Shape, Fields, Scheduled, Emptied
  <2>10. Stays(a, told)
    BY <2>7, <2>8, StaysSame DEF Good, Sound, Shape, Fields, Stays, Moves, Steady, Woken,
       Awaited, Signalled, IdKept
  <2>11. full => told.writeEnable
    BY <2>2, <2>4, <2>7, <2>8 DEF Good, Sound, Shape, Fields
  <2>12. full => Good(silent) /\ silent.tcp = g.tcp /\ silent.sbuf = h.sbuf
                 /\ silent.writeEnable
    BY <2>9, <2>11 DEF Good, Sound, Shape, Fields, Scheduled, Emptied
  <2>13. Stays(told, silent)
    <3>1. /\ Steady(told, silent) /\ silent.net = told.net /\ silent.queued = told.queued
          /\ silent.id = told.id /\ silent.sources = told.sources
          /\ silent.signals = told.signals /\ silent.flying = told.flying
          /\ silent.sbuf = told.sbuf /\ silent.writeEnable = told.writeEnable
          /\ silent.tcp = told.tcp
      BY <2>9 DEF Good, Sound, Shape, Fields, Steady
    <3> HIDE DEF silent
    <3> QED
      BY <3>1 DEF Stays, Moves, Woken, Awaited, Signalled, IdKept
  <2>14. k = 0 /\ g.tcp = "established" => full /\ h.sbuf > 0
    BY <2>2, <2>3, <2>4, SendBufferNat
  <2> HIDE DEF full, silent, r
  <2>15. Good(r.g) /\ Stays(g, r.g) /\ r.g.tcp = g.tcp
    BY <2>1, <2>7, <2>9, <2>10, <2>12, <2>13, StaysTrans
  <2>16. r.sent = 0 /\ r.g.tcp = "established" => Awaited(r.g)
    BY <2>1, <2>12, <2>14, <2>15 DEF Awaited
  <2> QED
    BY <2>1, <2>3, <2>15, <2>16 DEF r
<1> QED
  BY <1>1, <1>2, <1>3 DEF Good, Sound, Shape

LEMMA WriteSendKept ==
  ASSUME IoInvariant, WriteSend
  PROVE  IoInvariant'
<1> DEFINE r == IF c.alive THEN nice_agent_send(c, writer.left) ELSE [g |-> c, sent |-> 0]
<1>0. /\ Core(c, stack) /\ Good(c) /\ WriterSound /\ stack' = stack /\ writer.pc = "send"
      /\ writer.left \in Nat \ {0}
  BY DEF IoInvariant, Core, WriteSend, WriterSound
<1>1. /\ c' = agent_unlock_and_emit(r.g)
      /\ writer' = [writer EXCEPT !.left = @ - r.sent,
                                  !.pc = IF r.sent = 0 THEN "blocked"
                                         ELSE IF r.sent = writer.left THEN "idle" ELSE "try"]
  BY DEF WriteSend
<1>2. /\ Good(r.g) /\ Stays(c, r.g) /\ r.sent \in 0 .. writer.left
      /\ c.alive \/ r.g.sources = c.sources
      /\ r.sent = 0 /\ r.g.tcp = "established" => Awaited(r.g)
  <2>1. CASE c.alive
    BY <1>0, <2>1, SendStays
  <2>2. CASE ~c.alive
    <3>1. r.g = c /\ r.sent = 0 /\ c.tcp = "closed"
      BY <1>0, <2>2 DEF Good, Sound
    <3> QED
      BY <1>0, <3>1, StaysSame
  <2> QED
    BY <2>1, <2>2
<1> HIDE DEF r
<1>3. Good(c') /\ Stays(r.g, c')
  BY <1>1, <1>2, Unlocked
<1>4. Core(c', stack')
  <2>1. Keeps(c, c')
    BY <1>2, <1>3, StaysTrans, StaysKeeps
  <2>2. c.alive \/ c'.sources = c.sources
    BY <1>1, <1>2, SourcesKept
  <2> QED
    BY <1>0, <1>3, <2>1, <2>2, CoreKept
<1>5. c'.tcp = r.g.tcp /\ (Awaited(r.g) => Awaited(c'))
  BY <1>1, <1>2 DEF agent_unlock_and_emit, Good, Sound, Shape, Fields, Awaited, Signalled
<1>6. /\ DOMAIN writer' = {"pc", "left", "writable", "cancelled"}
      /\ writer'.left = writer.left - r.sent
      /\ writer'.pc = IF r.sent = 0 THEN "blocked"
                      ELSE IF r.sent = writer.left THEN "idle" ELSE "try"
  BY <1>0, <1>1 DEF WriterSound
<1>7. writer'.pc = "blocked" /\ c'.tcp = "established" => Awaited(c')
  BY <1>2, <1>5, <1>6
<1>8. writer'.pc # "idle" => writer'.left \in Nat \ {0}
  BY <1>0, <1>2, <1>6
<1>9. WriterSound'
  BY <1>6, <1>7, <1>8 DEF WriterSound
<1> QED
  BY <1>4, <1>9 DEF IoInvariant

LEMMA WriterStepKept ==
  ASSUME IoInvariant, nice_output_stream_write \/ WriteTry \/ WriteWait
  PROVE  IoInvariant'
<1>0. Core(c, stack) /\ WriterSound /\ UNCHANGED <<c, stack>>
  BY DEF IoInvariant, nice_output_stream_write, WriteTry, WriteWait
<1>1. CASE nice_output_stream_write
  <2>1. PICK n \in SendBuffer .. (SendBuffer + 1) :
           writer' = [writer EXCEPT !.pc = "try", !.left = n]
    BY <1>1 DEF nice_output_stream_write
  <2>2. n \in Nat \ {0}
    BY SendBufferNat
  <2>3. WriterSound'
    BY <1>0, <2>1, <2>2 DEF WriterSound
  <2> QED
    BY <1>0, <2>3 DEF IoInvariant
<1>2. CASE WriteTry
  <2>1. writer' = IF writer.cancelled THEN [writer EXCEPT !.pc = "idle"]
                  ELSE [writer EXCEPT !.pc = "send", !.writable = FALSE]
    BY <1>2 DEF WriteTry
  <2>2. WriterSound'
    BY <1>0, <1>2, <2>1 DEF WriterSound, WriteTry
  <2> QED
    BY <1>0, <2>2 DEF IoInvariant
<1>3. CASE WriteWait
  <2>1. WriterSound'
    BY <1>0, <1>3 DEF WriterSound, WriteWait
  <2> QED
    BY <1>0, <2>1 DEF IoInvariant
<1> QED
  BY <1>1, <1>2, <1>3

LEMMA EmitSignalKept ==
  ASSUME IoInvariant, EmitSignal
  PROVE  IoInvariant'
<1>0. Core(c, stack) /\ Good(c) /\ WriterSound /\ stack' = stack
  BY DEF IoInvariant, Core, EmitSignal
<1>1. PICK sig \in c.flying :
         /\ c' = [c EXCEPT !.flying = @ \ {sig}]
         /\ writer' = [writer EXCEPT
                          !.writable = @ \/ sig = "writable",
                          !.cancelled = @ \/ sig = "removed",
                          !.pc = IF @ = "wait" /\ sig # "failed" THEN "try" ELSE @]
  BY DEF EmitSignal
<1>2. /\ Good(c') /\ c'.tcp = c.tcp /\ c'.signals = c.signals /\ c'.flying = c.flying \ {sig}
      /\ c'.sbuf = c.sbuf /\ c'.writeEnable = c.writeEnable
  BY <1>0, <1>1 DEF Good, Sound, Shape, Fields, Scheduled, Emptied
<1>3. Core(c', stack')
  <2>1. /\ c'.alive = c.alive /\ c'.selected = c.selected /\ c'.queued = c.queued
        /\ c'.socks = c.socks /\ c'.age = c.age /\ c'.used = c.used /\ c'.polled = c.polled
        /\ c'.polledAge = c.polledAge /\ c'.ctx = c.ctx /\ c'.id = c.id
        /\ c'.sources = c.sources /\ c'.exposed = c.exposed /\ c'.dangling = c.dangling
    BY <1>0, <1>1 DEF Good, Sound, Shape, Fields
  <2>2. Polls(c')
    BY <1>0, <2>1 DEF Core, Polls
  <2>3. Queues(c', stack') /\ Sourced(c', stack') /\ Closed(c', stack')
    BY <1>0, <1>2, <2>1 DEF Core, Queues, Drained, Sourced, Closed
  <2> QED
    BY <1>0, <1>2, <2>1, <2>2, <2>3 DEF Core
<1>4. sig # "writable" => (Awaited(c) => Awaited(c'))
  BY <1>2 DEF Awaited, Signalled
<1>5. /\ DOMAIN writer' = {"pc", "left", "writable", "cancelled"}
      /\ writer'.left = writer.left
      /\ writer'.pc = IF writer.pc = "wait" /\ sig # "failed" THEN "try" ELSE writer.pc
      /\ writer'.writable = (writer.writable \/ sig = "writable")
  BY <1>0, <1>1 DEF WriterSound
<1>6. writer'.pc \in {"idle", "try", "send", "blocked", "wait"}
      /\ (writer'.pc # "idle" => writer'.left \in Nat \ {0})
  BY <1>0, <1>5 DEF WriterSound
<1>7. writer'.pc = "blocked" /\ c'.tcp = "established" => Awaited(c') \/ writer'.writable
  BY <1>0, <1>2, <1>4, <1>5 DEF WriterSound
<1>8. writer'.pc = "wait" /\ c'.tcp = "established" => Awaited(c')
  BY <1>0, <1>2, <1>4, <1>5 DEF WriterSound
<1>9. WriterSound'
  BY <1>5, <1>6, <1>7, <1>8 DEF WriterSound
<1> QED
  BY <1>3, <1>9 DEF IoInvariant

-----------------------------------------------------------------------------
\* The network and the timers

LEMMA ArriveKept ==
  ASSUME IoInvariant, Arrive
  PROVE  IoInvariant'
<1>0. Good(c) /\ UNCHANGED <<stack, writer>>
  BY DEF IoInvariant, Core, Arrive
<1>1. c' = [c EXCEPT !.net = Append(@, Head(c.coming)), !.coming = Tail(@)] /\ c.coming # <<>>
  BY DEF Arrive
<1>2. c.coming \in Seq(Packets) /\ c.net \in Seq(Packets)
  BY <1>0 DEF Good, Sound, Shape
<1>3. Append(c.net, Head(c.coming)) \in Seq(Packets) /\ Tail(c.coming) \in Seq(Packets)
  BY <1>1, <1>2
<1>4. Good(c')
  BY <1>0, <1>1, <1>3 DEF Good, Sound, Shape, Fields, Scheduled, Emptied
<1>5. Keeps(c, c')
  BY <1>0, <1>1 DEF Good, Sound, Shape, Fields, Keeps, Woken, Awaited, Signalled, IdKept
<1>6. c.alive
  BY DEF Arrive
<1> QED
  BY <1>0, <1>4, <1>5, <1>6, QuietStep

LEMMA ClockKept ==
  ASSUME IoInvariant, notify_pseudo_tcp_socket_clock
  PROVE  IoInvariant'
<1>0. Good(c) /\ UNCHANGED <<stack, writer>>
  BY DEF IoInvariant, Core, notify_pseudo_tcp_socket_clock
<1>1. PICK g \in {c, priv_pseudo_tcp_error(c)} : c' = agent_unlock_and_emit(adjust_tcp_clock(g))
  BY DEF notify_pseudo_tcp_socket_clock
<1> DEFINE a == adjust_tcp_clock(g)
<1>2. Good(g) /\ Stays(c, g)
  BY <1>0, ErrorStays, StaysSame
<1>3. Good(a) /\ Stays(c, a)
  BY <1>2, ClockAdjusted, StaysTrans
<1>5. g.sources = c.sources /\ a.sources = c.sources
  BY <1>0, <1>2, SourcesKept
<1> HIDE DEF a
<1>4. Good(c') /\ Keeps(c, c')
  BY <1>1, <1>3, Unlocked, StaysTrans, StaysKeeps DEF a
<1>6. c'.sources = c.sources
  BY <1>1, <1>3, <1>5, SourcesKept DEF a
<1> QED
  BY <1>0, <1>4, <1>6, QuietStep

LEMMA KeepaliveKept ==
  ASSUME IoInvariant, priv_conn_keepalive_tick \/ priv_conn_keepalive_retransmissions_tick
  PROVE  IoInvariant'
<1> DEFINE sent == [c EXCEPT !.keepalive = KaTries, !.media = FALSE, !.heard = FALSE]
           resent == [c EXCEPT !.keepalive = IF @ > 1 THEN @ - 1 ELSE 0]
           failed == [c EXCEPT !.keepalive = 0, !.state = "FAILED"]
           told == agent_queue_signal(failed, "failed")
<1>0. Good(c) /\ UNCHANGED <<stack, writer>>
  BY DEF IoInvariant, Core, priv_conn_keepalive_tick, priv_conn_keepalive_retransmissions_tick
<1>1. \E g \in {sent, resent, told} : c' = agent_unlock_and_emit(g)
  BY DEF priv_conn_keepalive_tick, priv_conn_keepalive_retransmissions_tick
<1>2. Good(sent) /\ Stays(c, sent)
  BY <1>0 DEF Good, Sound, Shape, Fields, Scheduled, Emptied, Stays, Moves, Steady, Woken,
       Awaited, Signalled, IdKept
<1>3. Good(resent) /\ Stays(c, resent)
  BY <1>0 DEF Good, Sound, Shape, Fields, Scheduled, Emptied, Stays, Moves, Steady, Woken,
       Awaited, Signalled, IdKept
<1>4. Good(failed) /\ Stays(c, failed)
  BY <1>0 DEF Good, Sound, Shape, Fields, Scheduled, Emptied, Stays, Moves, Steady, Woken,
       Awaited, Signalled, IdKept
<1>7. sent.sources = c.sources /\ resent.sources = c.sources /\ failed.sources = c.sources
  BY <1>0 DEF Good, Sound, Shape, Fields
<1> HIDE DEF sent, resent, failed
<1>8. told.sources = c.sources
  BY <1>4, <1>7, SourcesKept
<1>5. Good(told) /\ Stays(c, told)
  BY <1>4, SignalQueued, StaysTrans
<1> HIDE DEF told
<1>6. Good(c') /\ Keeps(c, c')
  BY <1>1, <1>2, <1>3, <1>5, Unlocked, StaysTrans, StaysKeeps
<1>9. c'.sources = c.sources
  BY <1>1, <1>2, <1>3, <1>5, <1>7, <1>8, SourcesKept
<1> QED
  BY <1>0, <1>6, <1>9, QuietStep

-----------------------------------------------------------------------------
\* The sockets that are polled

\* A step that concerns these alone
LEMMA SocketsStep ==
  ASSUME IoInvariant, UNCHANGED <<stack, writer>>, Polls(c'),
         NEW socks, NEW age, NEW used, NEW polled, NEW polledAge,
         c' = [c EXCEPT !.socks = socks, !.age = age, !.used = used, !.polled = polled,
                        !.polledAge = polledAge]
  PROVE  IoInvariant'
<1>0. Core(c, stack) /\ Good(c) /\ WriterSound
  BY DEF IoInvariant, Core
<1>1. Good(c')
  BY <1>0 DEF Good, Sound, Shape, Fields, Scheduled, Emptied
<1>2. /\ c'.alive = c.alive /\ c'.selected = c.selected /\ c'.queued = c.queued
      /\ c'.tcp = c.tcp /\ c'.ctx = c.ctx /\ c'.id = c.id /\ c'.sources = c.sources
      /\ c'.exposed = c.exposed /\ c'.dangling = c.dangling
  BY <1>0 DEF Good, Sound, Shape, Fields
<1>3. Woken(c, c')
  BY <1>0 DEF Good, Sound, Shape, Fields, Woken, Awaited, Signalled
<1>4. Queues(c', stack') /\ Sourced(c', stack') /\ Closed(c', stack')
  BY <1>0, <1>2 DEF Core, Queues, Drained, Sourced, Closed
<1>5. Core(c', stack')
  BY <1>0, <1>1, <1>2, <1>4 DEF Core
<1> QED
  BY <1>0, <1>3, <1>5, WriterKept DEF IoInvariant

LEMMA AttachSocketKept ==
  ASSUME IoInvariant, component_attach_socket
  PROVE  IoInvariant'
<1>0. Good(c) /\ Polls(c) /\ UNCHANGED <<stack, writer>>
  BY DEF IoInvariant, Core, component_attach_socket
<1>1. PICK s \in Sockets \ c.used :
         c' = [c EXCEPT !.socks = <<s>> \o @, !.age = @ + 1, !.used = @ \cup {s}]
  BY DEF component_attach_socket
<1> DEFINE t == <<s>> \o c.socks
           n == Len(c.socks)
<1>2. /\ c'.socks = t /\ c'.age = c.age + 1 /\ c'.used = c.used \cup {s}
      /\ c'.polled = c.polled /\ c'.polledAge = c.polledAge /\ DOMAIN c = Fields
  BY <1>0, <1>1 DEF Good, Sound, Shape, Fields
<1>3. c.socks \in Seq(c'.used) /\ n \in Nat
  BY <1>0, <1>2 DEF Polls
<1>4. /\ t \in Seq(c'.used) /\ Len(t) = n + 1 /\ t[1] = s
      /\ \A i \in 2 .. n + 1 : t[i] = c.socks[i - 1]
  BY <1>2, <1>3
<1>5. s \notin c.polled
  BY <1>0 DEF Polls
<1> HIDE DEF t, n
<1>6. \A i, j \in 1 .. Len(t) : i < j /\ t[i] \in c.polled => t[j] \in c.polled
  <2> SUFFICES ASSUME NEW i \in 1 .. Len(t), NEW j \in 1 .. Len(t), i < j, t[i] \in c.polled
               PROVE  t[j] \in c.polled
    OBVIOUS
  <2>1. i # 1
    BY <1>4, <1>5
  <2>2. /\ i - 1 \in 1 .. n /\ j - 1 \in 1 .. n /\ i - 1 < j - 1
        /\ t[i] = c.socks[i - 1] /\ t[j] = c.socks[j - 1]
    BY <1>3, <1>4, <2>1
  <2> QED
    BY <1>0, <2>2 DEF Polls, n
<1>7. Polls(c')
  BY <1>0, <1>2, <1>4, <1>6 DEF Polls
<1>8. c' = [c EXCEPT !.socks = t, !.age = c.age + 1, !.used = c.used \cup {s},
                     !.polled = c.polled, !.polledAge = c.polledAge]
  BY <1>1, <1>2 DEF Fields, t
<1> QED
  BY <1>0, <1>7, <1>8, SocketsStep

\* The i-th element is taken out
LEMMA Removed ==
  ASSUME NEW S, NEW s \in Seq(S), NEW i \in 1 .. Len(s), NEW t,
         t = SubSeq(s, 1, i - 1) \o SubSeq(s, i + 1, Len(s))
  PROVE  /\ t \in Seq(S) /\ Len(t) = Len(s) - 1
         /\ \A k \in 1 .. Len(s) - 1 : t[k] = s[IF k < i THEN k ELSE k + 1]
<1> DEFINE a == SubSeq(s, 1, i - 1)
           b == SubSeq(s, i + 1, Len(s))
           n == Len(s)
<1>0. n \in Nat /\ i \in 1 .. n /\ \A k \in 1 .. n : s[k] \in S
  OBVIOUS
<1>1. a \in Seq(S) /\ Len(a) = i - 1 /\ \A k \in 1 .. i - 1 : a[k] = s[k]
  <2>1. \A k \in 1 .. i - 1 : s[k] \in S
    BY <1>0
  <2>2. 1 \in Int /\ i - 1 \in Int
    BY <1>0
  <2>3. /\ a \in Seq(S) /\ Len(a) = IF 1 <= i - 1 THEN i - 1 - 1 + 1 ELSE 0
        /\ \A k \in 1 .. i - 1 - 1 + 1 : a[k] = s[1 + k - 1]
    BY <2>1, <2>2, SubSeqProperties
  <2> HIDE DEF a, n
  <2> QED
    BY <1>0, <2>3
<1>2. b \in Seq(S) /\ Len(b) = n - i /\ \A k \in 1 .. n - i : b[k] = s[i + k]
  <2>1. \A k \in i + 1 .. n : s[k] \in S
    BY <1>0
  <2>2. i + 1 \in Int /\ n \in Int
    BY <1>0
  <2>3. /\ b \in Seq(S) /\ Len(b) = IF i + 1 <= n THEN n - (i + 1) + 1 ELSE 0
        /\ \A k \in 1 .. n - (i + 1) + 1 : b[k] = s[i + 1 + k - 1]
    BY <2>1, <2>2, SubSeqProperties
  <2> HIDE DEF b, n
  <2> QED
    BY <1>0, <2>3
<1>3. t = a \o b
  OBVIOUS
<1> HIDE DEF a, b, n
<1>4. /\ t \in Seq(S) /\ Len(t) = n - 1
      /\ \A k \in 1 .. n - 1 : t[k] = IF k <= i - 1 THEN a[k] ELSE b[k - (i - 1)]
  <2>1. /\ a \o b \in Seq(S) /\ Len(a \o b) = Len(a) + Len(b)
        /\ \A k \in 1 .. Len(a) + Len(b) :
              (a \o b)[k] = IF k <= Len(a) THEN a[k] ELSE b[k - Len(a)]
    BY <1>1, <1>2, ConcatProperties
  <2>2. Len(a) + Len(b) = n - 1
    BY <1>0, <1>1, <1>2
  <2> QED
    BY <1>1, <1>3, <2>1, <2>2
<1>5. \A k \in 1 .. n - 1 : t[k] = s[IF k < i THEN k ELSE k + 1]
  <2> TAKE k \in 1 .. n - 1
  <2>1. CASE k < i
    <3>1. k \in 1 .. i - 1 /\ k <= i - 1
      BY <1>0, <2>1
    <3>2. t[k] = a[k] /\ a[k] = s[k]
      BY <1>1, <1>4, <3>1
    <3> QED
      BY <2>1, <3>2
  <2>2. CASE ~(k < i)
    <3>1. k - (i - 1) \in 1 .. n - i /\ i + (k - (i - 1)) = k + 1 /\ ~(k <= i - 1)
      BY <1>0, <2>2
    <3>2. t[k] = b[k - (i - 1)] /\ b[k - (i - 1)] = s[i + (k - (i - 1))]
      BY <1>2, <1>4, <3>1
    <3> QED
      BY <2>2, <3>1, <3>2
  <2> QED
    BY <2>1, <2>2
<1> QED
  BY <1>4, <1>5 DEF n

LEMMA DetachSocketKept ==
  ASSUME IoInvariant, component_detach_socket
  PROVE  IoInvariant'
<1>0. Good(c) /\ Polls(c) /\ UNCHANGED <<stack, writer>>
  BY DEF IoInvariant, Core, component_detach_socket
<1>1. PICK i \in 1 .. Len(c.socks) :
         c' = [c EXCEPT !.socks = SubSeq(@, 1, i - 1) \o SubSeq(@, i + 1, Len(@)),
                        !.age = @ + 1]
  BY DEF component_detach_socket
<1> DEFINE t == SubSeq(c.socks, 1, i - 1) \o SubSeq(c.socks, i + 1, Len(c.socks))
           n == Len(c.socks)
           From(k) == IF k < i THEN k ELSE k + 1
<1>2. /\ c'.socks = t /\ c'.age = c.age + 1 /\ c'.used = c.used
      /\ c'.polled = c.polled /\ c'.polledAge = c.polledAge /\ DOMAIN c = Fields
  BY <1>0, <1>1 DEF Good, Sound, Shape, Fields
<1>3. c.socks \in Seq(c.used) /\ n \in Nat /\ i \in 1 .. n
  BY <1>0 DEF Polls
<1>4. /\ t \in Seq(c.used) /\ Len(t) = n - 1
      /\ \A k \in 1 .. n - 1 : t[k] = c.socks[From(k)]
  BY ZenonT(40), <1>2, <1>3, Removed DEF t, n
<1> HIDE DEF t, n
<1>5. \A k, l \in 1 .. Len(t) : k < l /\ t[k] \in c.polled => t[l] \in c.polled
  <2> SUFFICES ASSUME NEW k \in 1 .. Len(t), NEW l \in 1 .. Len(t), k < l, t[k] \in c.polled
               PROVE  t[l] \in c.polled
    OBVIOUS
  <2>1. /\ From(k) \in 1 .. n /\ From(l) \in 1 .. n /\ From(k) < From(l)
        /\ t[k] = c.socks[From(k)] /\ t[l] = c.socks[From(l)]
    BY <1>3, <1>4
  <2> HIDE DEF From
  <2> QED
    BY <1>0, <2>1 DEF Polls, n
<1>6. Polls(c')
  BY <1>0, <1>2, <1>4, <1>5 DEF Polls
<1>7. c' = [c EXCEPT !.socks = t, !.age = c.age + 1, !.used = c.used,
                     !.polled = c.polled, !.polledAge = c.polledAge]
  BY <1>1, <1>2 DEF Fields, t
<1> QED
  BY <1>0, <1>6, <1>7, SocketsStep

\* The source of the input stream catches up: what is in front is new, the
\* rest is polled already.
LEMMA PrepareKept ==
  ASSUME IoInvariant, component_source_prepare
  PROVE  IoInvariant'
<1> DEFINE p == {s \in c.polled \cup NewSockets(c) : In(s, c.socks)}
           g == [c EXCEPT !.polled = p, !.polledAge = c.age]
           n == Len(c.socks)
           all == {c.socks[i] : i \in 1 .. n}
<1>0. Good(c) /\ Polls(c) /\ UNCHANGED <<stack, writer>> /\ c' = agent_unlock_and_emit(g)
  BY DEF IoInvariant, Core, component_source_prepare
<1>1. n \in Nat /\ c.socks \in Seq(c.used)
  BY <1>0 DEF Polls
<1>2. p = all
  <2>1. p \subseteq all
    BY DEF In
  <2>2. all \subseteq p
    <3> SUFFICES ASSUME NEW i \in 1 .. n PROVE c.socks[i] \in p
      OBVIOUS
    <3>1. In(c.socks[i], c.socks)
      BY DEF In
    <3>2. CASE c.socks[i] \in c.polled
      BY <3>1, <3>2
    <3>3. CASE c.socks[i] \notin c.polled
      <4>1. \A k \in 1 .. i : c.socks[k] \notin c.polled
        <5> SUFFICES ASSUME NEW k \in 1 .. i, c.socks[k] \in c.polled PROVE FALSE
          OBVIOUS
        <5>1. k \in 1 .. n /\ (k < i \/ k = i)
          BY <1>1
        <5> QED
          BY <1>0, <3>3, <5>1 DEF Polls
      <4>2. c.socks[i] \in NewSockets(c)
        BY <4>1 DEF NewSockets
      <4> QED
        BY <3>1, <4>2
    <3> QED
      BY <3>2, <3>3
  <2> QED
    BY <2>1, <2>2
<1> HIDE DEF p
<1>3. /\ g.polled = all /\ g.polledAge = c.age /\ g.age = c.age /\ g.used = c.used
      /\ g.socks = c.socks
  BY <1>0, <1>2 DEF Good, Sound, Shape, Fields
<1>4. all \subseteq c.used /\ \A i \in 1 .. n : c.socks[i] \in all
  BY <1>1
<1>5. Polls(g)
  <2>1. \A i, j \in 1 .. n : i < j /\ c.socks[i] \in all => c.socks[j] \in all
    BY <1>4
  <2> HIDE DEF g
  <2> QED
    BY <1>0, <1>3, <1>4, <2>1 DEF Polls
<1>6. Good(g) /\ Woken(c, g)
  BY <1>0 DEF Good, Sound, Shape, Fields, Scheduled, Emptied, Woken, Awaited, Signalled
<1>7. Core(g, stack)
  <2>1. Core(c, stack)
    BY DEF IoInvariant
  <2>2. /\ g.alive = c.alive /\ g.selected = c.selected /\ g.queued = c.queued
        /\ g.tcp = c.tcp /\ g.ctx = c.ctx /\ g.id = c.id /\ g.sources = c.sources
        /\ g.exposed = c.exposed /\ g.dangling = c.dangling
    BY <1>0 DEF Good, Sound, Shape, Fields
  <2> HIDE DEF g
  <2>3. Queues(g, stack) /\ Sourced(g, stack) /\ Closed(g, stack)
    BY <2>1, <2>2 DEF Core, Queues, Drained, Sourced, Closed
  <2> QED
    BY <1>5, <1>6, <2>1, <2>2, <2>3 DEF Core
<1> HIDE DEF g
<1>8. Good(c') /\ Stays(g, c')
  BY <1>0, <1>6, Unlocked
<1>9. Core(c', stack') /\ Woken(c, c')
  <2>1. Keeps(g, c') /\ c'.sources = g.sources
    BY <1>0, <1>6, <1>8, SourcesKept, StaysKeeps
  <2> QED
    BY <1>0, <1>6, <1>7, <1>8, <2>1, CoreKept DEF Stays, Moves, Woken
<1> QED
  BY <1>0, <1>9, WriterKept DEF IoInvariant

-----------------------------------------------------------------------------
\* The theorems

LEMMA InitHolds ==
  ASSUME Init
  PROVE  IoInvariant
<1>1. PICK setup \in Setups : c = NewComponent(setup)
  BY DEF Init
<1>2. setup.reliable \in BOOLEAN /\ setup.net \in Seq(Packets)
  BY SetupsAssumption
<1>3. stack = <<>> /\ writer = [pc |-> "idle", left |-> 0, writable |-> FALSE, cancelled |-> FALSE]
  BY DEF Init
<1>4. IsFiniteSet({})
  BY FS_EmptySet
<1>5. /\ DOMAIN c = Fields /\ c.alive = TRUE /\ c.reliable = setup.reliable /\ c.cb = FALSE
      /\ c.attached = TRUE /\ c.selected = FALSE /\ c.readable = FALSE
      /\ c.writeEnable = FALSE /\ c.cancelled = FALSE
      /\ c.tcp = (IF setup.reliable THEN "connecting" ELSE "closed") /\ c.sbuf = 0
      /\ c.net = <<>> /\ c.coming = setup.net /\ c.queued = <<>> /\ c.sources = {}
      /\ c.id = 0 /\ c.buf = <<>> /\ c.pending = <<>> /\ c.age = 0 /\ c.polledAge = 0
      /\ c.socks = <<>> /\ c.polled = {} /\ c.used = {} /\ c.dangling = FALSE
  BY <1>1, Zenon DEF NewComponent, Fields
<1>6. Shape(c)
  <2>1. c.net \in Seq(Packets) /\ c.coming \in Seq(Packets) /\ c.queued \in Seq(Segments)
    <3>1. <<>> \in Seq(Packets) /\ <<>> \in Seq(Segments)
      OBVIOUS
    <3> QED
      BY <1>2, <1>5, <3>1
  <2>2. c.sbuf \in 0 .. SendBuffer /\ c.tcp \in TcpStates /\ c.reliable \in BOOLEAN
    BY <1>2, <1>5, SendBufferNat DEF TcpStates
  <2>3. IsFiniteSet(c.sources)
    BY <1>4, <1>5
  <2> QED
    BY <1>5, <2>1, <2>2, <2>3, Zenon DEF Shape
<1>7. Good(c)
  BY <1>2, <1>5, <1>6 DEF Good, Sound, Scheduled, Emptied
<1>8. Polls(c)
  BY <1>5 DEF Polls
<1>9. Core(c, stack)
  BY <1>3, <1>5, <1>7, <1>8, FramedEmpty DEF Core, Queues, Drained, Sourced, Closed
<1>10. WriterSound
  BY <1>3 DEF WriterSound
<1> QED
  BY <1>9, <1>10 DEF IoInvariant

LEMMA NextKeeps ==
  ASSUME IoInvariant, [Next]_vars
  PROVE  IoInvariant'
<1>1. CASE ThreadX
  BY <1>1, SocketCallbackKept, IdleSourceKept, SlowReturnsKept, UdpReturnsKept,
     ReadableReturnsKept DEF ThreadX
<1>2. CASE Arrive
  BY <1>2, ArriveKept
<1>3. CASE component_io_cb_error \/ component_io_cb_hup
  BY <1>3, SocketErrorKept
<1>4. ASSUME NEW th \in {"X", "T"},
             \/ nice_agent_attach_recv(th)
             \/ nice_agent_detach_recv(th)
             \/ agent_signal_new_selected_pair(th)
             \/ nice_agent_remove_stream(th)
      PROVE  IoInvariant'
  BY <1>4, AttachKept, DetachKept, SelectKept, RemoveKept
<1>5. CASE nice_agent_recv
  BY <1>5, RecvKept
<1>6. CASE Cancel
  BY <1>6 DEF Cancel, IoInvariant, WriterSound
<1>7. CASE Reading
  BY <1>7, IterationKept, RecvCheckKept DEF Reading
<1>8. CASE nice_output_stream_write \/ WriteTry \/ WriteWait
  BY <1>8, WriterStepKept
<1>9. CASE WriteSend
  BY <1>9, WriteSendKept
<1>10. CASE EmitSignal
  BY <1>10, EmitSignalKept
<1>11. CASE notify_pseudo_tcp_socket_clock
  BY <1>11, ClockKept
<1>12. CASE priv_conn_keepalive_tick \/ priv_conn_keepalive_retransmissions_tick
  BY <1>12, KeepaliveKept
<1>13. CASE component_attach_socket
  BY <1>13, AttachSocketKept
<1>14. CASE component_detach_socket
  BY <1>14, DetachSocketKept
<1>15. CASE component_source_prepare
  BY <1>15, PrepareKept
<1>16. CASE UNCHANGED vars
  BY <1>16 DEF vars, IoInvariant, WriterSound
<1> QED
  BY <1>1, <1>2, <1>3, <1>4, <1>5, <1>6, <1>7, <1>8, <1>9, <1>10, <1>11, <1>12, <1>13,
     <1>14, <1>15, <1>16 DEF Next

\* The invariant above holds in every reachable state, for any packets, any
\* calls of the client from two threads and any sizes of the buffers
\* (agent.c, component.c).
THEOREM ComponentIoInvariant == Spec => []IoInvariant
<1>1. Init => IoInvariant
  BY InitHolds
<1>2. IoInvariant /\ [Next]_vars => IoInvariant'
  BY NextKeeps
<1> QED
  BY <1>1, <1>2, PTL DEF Spec

\* Data on their way to the client are moved on, wherever they wait: a source
\* of the input stream polls the right sockets (component_source_prepare),
\* queued_tcp_packets is drained when a pair is selected
\* (process_queued_tcp_packets), a client's callback empties the pseudo-TCP
\* buffer (pseudo_tcp_socket_readable), and messages in pending_io_messages
\* have an idle source (component_schedule_io_callback).
THEOREM NothingStrandedHolds == Spec => []NothingStranded
<1>1. IoInvariant => NothingStranded
  <2> SUFFICES ASSUME IoInvariant PROVE NothingStranded
    OBVIOUS
  <2>0. Core(c, stack) /\ Good(c)
    BY DEF IoInvariant, Core
  <2>1. PollsSockets
    BY <2>0 DEF Core, Polls, PollsSockets
  <2>2. QueueDrained
    BY <2>0 DEF Core, Queues, Drained, QueueDrained, OnStack
  <2>3. BufferRead
    BY <2>0 DEF Good, Emptied, BufferRead
  <2>4. PendingScheduled
    BY <2>0 DEF Core, Good, Scheduled, Sourced, PendingScheduled, OnStack
  <2> QED
    BY <2>1, <2>2, <2>3, <2>4 DEF NothingStranded
<1> QED
  BY <1>1, ComponentIoInvariant, PTL

\* A thread that waits in nice_output_stream_write is woken: the writable
\* signal is on its way, or pseudo-TCP will send it when the peer acknowledges
\* (agent_signal_socket_writable); who waits on tcp_writable_cancellable is
\* told in the same way (pseudo_tcp_socket_can_send).
THEOREM WriterWokenHolds == Spec => []WriterWoken
<1>1. IoInvariant => WriterWoken
  BY DEF IoInvariant, Core, Good, Sound, WriterSound, WriterWoken, Awaited, Signalled
<1> QED
  BY <1>1, ComponentIoInvariant, PTL

\* Whenever a stream is removed, in whatever callbacks or from another thread,
\* nothing runs on the component that was freed, except where a caller of
\* pseudo_tcp_socket_readable or a forgotten idle source still pointed to it.
THEOREM NoDanglingHolds == Spec => []NoDangling
<1>1. IoInvariant => NoDangling
  <2> SUFFICES ASSUME IoInvariant, c.dangling PROVE c.exposed
    BY DEF NoDangling
  <2>1. Closed(c, stack) /\ c.alive \in BOOLEAN
    BY DEF IoInvariant, Core, Good, Sound, Shape
  <2> QED
    BY <2>1 DEF Closed
<1> QED
  BY <1>1, ComponentIoInvariant, PTL
=============================================================================
