---------------------------- MODULE ComponentIo ----------------------------
(***************************************************************************)
(* Data through one component: the sockets' I/O callback, nice_agent_recv  *)
(* and nice_agent_attach_recv, the queue of I/O messages between threads,  *)
(* the glue around the pseudo-TCP socket, nice_agent_send and the blocking *)
(* write of NiceOutputStream (agent.c, component.c, inputstream.c,         *)
(* outputstream.c), and the keepalives of the selected pair (conncheck.c). *)
(*                                                                         *)
(* The component c is one record.  An action is what one thread does while *)
(* it holds the agent's lock; the lock is released around every callback   *)
(* of the client, so other threads act in between.  Thread X runs the main *)
(* context the client attached its callback to, T is another thread of the *)
(* client, W one that writes to an output stream.  What X has yet to do    *)
(* when the client's callback returns is a stack of frames.                *)
(*                                                                         *)
(* The pseudo-TCP socket is reduced to its buffers: module PseudoTcp is    *)
(* about the protocol.  Data are numbered in the order they were sent.     *)
(***************************************************************************)
EXTENDS Integers, Sequences, FiniteSets

CONSTANTS
    Sockets,       \* sockets that may be attached while connecting
    SendBuffer,    \* bytes the pseudo-TCP send buffer holds
    Refill,        \* writable is signalled when fewer are buffered
    Buffer,        \* data that one buffer of nice_agent_recv holds
    MaxFrames,     \* bound on callbacks of the client within each other
    KaTries,       \* transmissions of a keepalive
    Setups,        \* explored together: records of reliable, threads (those
                   \* that attach and select), net (the packets that arrive),
                   \* want, blocking (of nice_agent_recv) and bounds on kinds
                   \* of events
    None

VARIABLES
    c,             \* the component
    stack,         \* what thread X returns to
    reader,        \* thread T, in nice_agent_recv
    writer,        \* thread W, in nice_output_stream_write
    budget         \* what may still happen, by kind of event

vars == <<c, stack, reader, writer, budget>>

ASSUME BufferAssumption ==
    Buffer \in Nat \ {0} /\ SendBuffer \in Nat /\ Refill \in 1..SendBuffer

Packets == [kind : {"data", "ack", "fin", "rst", "stun"}, n : Nat, acks : Nat, reply : BOOLEAN]

ASSUME SetupsAssumption ==
    \A setup \in Setups : setup.reliable \in BOOLEAN /\ setup.net \in Seq(Packets)

Spend(kind) == budget[kind] > 0 /\ budget' = [budget EXCEPT ![kind] = @ - 1]

\* nice_agent_recv took the lock and does not give it back
Held == reader.pc = "spin"

In(x, s) == \E i \in 1..Len(s) : s[i] = x

Least(S) == CHOOSE i \in S : \A j \in S : i <= j

-----------------------------------------------------------------------------
\* Signals wait in the agent until somebody releases the lock through
\* agent_unlock_and_emit, and are emitted after it was released

agent_queue_signal(g, sig) == [g EXCEPT !.signals = @ \cup {sig}]

agent_unlock_and_emit(g) == [g EXCEPT !.flying = @ \cup g.signals, !.signals = {}]

\* The idle source that hands pending messages to the client.  io_callback_id
\* is the latest one attached; an earlier one may still be attached.

component_schedule_io_callback(g) ==
    IF g.id # 0 \/ g.pending = <<>> THEN g
    ELSE LET fresh == Least((1..(Cardinality(g.sources) + 1)) \ g.sources)
         IN [g EXCEPT !.id = fresh, !.sources = @ \cup {fresh}]

component_deschedule_io_callback(g) ==
    [g EXCEPT !.sources = @ \ {g.id}, !.id = 0]

\* Mutant: what waits is not scheduled for the new callback
component_set_io_callback_unscheduled(g, func, recv) ==
    LET set == [g EXCEPT !.cb = func, !.recv = recv]
    IN IF func THEN set ELSE component_deschedule_io_callback(set)

\* func is TRUE for a callback, recv the buffers of nice_agent_recv or None
component_set_io_callback(g, func, recv) ==
    LET set == [g EXCEPT !.cb = func, !.recv = recv]
    IN IF func THEN component_schedule_io_callback(set)
       ELSE component_deschedule_io_callback(set)

component_set_io_context(g) ==
    IF g.ctx = "main" THEN g ELSE [g EXCEPT !.ctx = "main", !.attached = TRUE]

\* recv_messages_iter: a reliable reader fills its buffers, an unreliable one
\* has one packet in each.  ragged: it stands behind the last buffer of a
\* message, where it does not count as being at the end.
Capacity(g) == IF g.reliable THEN g.recv.want * Buffer ELSE g.recv.want

nice_input_message_iter_is_at_end(g) ==
    Len(g.recv.got) >= Capacity(g) /\ ~g.recv.ragged

\* Does the sockets' I/O callback want another packet?
Wants(g) == g.cb \/ (g.recv # None /\ ~nice_input_message_iter_is_at_end(g))

-----------------------------------------------------------------------------
\* Pseudo-TCP glue

adjust_tcp_clock(g) == IF g.tcp = "closed" THEN g ELSE [g EXCEPT !.clock = TRUE]

agent_signal_socket_writable(g) ==
    agent_queue_signal([g EXCEPT !.cancelled = TRUE], "writable")

priv_pseudo_tcp_error(g) ==
    agent_queue_signal([g EXCEPT !.cancelled = TRUE, !.state = "FAILED",
                                 !.attached = FALSE, !.tcp = "closed", !.clock = FALSE],
                       "failed")

\* Mutant: nobody asks to be told
pseudo_tcp_socket_can_send_quiet(g) == g

\* A full buffer, or a socket that cannot send, asks to be told
pseudo_tcp_socket_can_send(g) ==
    IF g.tcp = "established" /\ g.sbuf < SendBuffer THEN g
    ELSE [g EXCEPT !.writeEnable = TRUE]

\* The thread that owns the context calls the client at once, after it
\* released the lock; another one leaves the data to the idle source.
component_emit_io_callback(g, chunk, owner) ==
    IF owner
    THEN [agent_unlock_and_emit(g) EXCEPT !.delivered = @ \o chunk]
    ELSE component_schedule_io_callback(
             [g EXCEPT !.pending = Append(@, chunk), !.slow = TRUE])

\* The peer's FIN was received
Finished(g) == g.tcp \in {"finished", "closing"}

\* A result is the component and whether the client's callback now runs
Done(g) == [g |-> g, call |-> FALSE]

\* One turn of the loop of pseudo_tcp_socket_readable.  After a FIN
\* pseudo_tcp_socket_recv returns 0; before, all that is buffered.
ReadableTurn(g, owner) ==
    IF Finished(g)
    THEN Done(adjust_tcp_clock([g EXCEPT !.readable = FALSE, !.tcp = "closing"]))
    ELSE IF g.buf = <<>> THEN Done(adjust_tcp_clock(g))
    ELSE LET sent == component_emit_io_callback([g EXCEPT !.buf = <<>>], g.buf, owner)
         IN IF owner THEN [g |-> sent, call |-> TRUE] ELSE Done(adjust_tcp_clock(sent))

\* Fill the client's buffers from the pseudo-TCP buffer
pseudo_tcp_socket_recv_messages(g) ==
    LET room == Capacity(g) - Len(g.recv.got)
        n == IF room < Len(g.buf) THEN room ELSE Len(g.buf)
    IN [g EXCEPT !.recv.got = @ \o SubSeq(g.buf, 1, n), !.recv.ragged = FALSE,
                 !.buf = SubSeq(@, n + 1, Len(@))]

pseudo_tcp_socket_readable(g, owner) ==
    LET told == [g EXCEPT !.readable = TRUE]
    IN CASE g.cb -> ReadableTurn(told, owner)
         [] ~g.cb /\ g.recv # None ->
               Done(adjust_tcp_clock(pseudo_tcp_socket_recv_messages(told)))
         [] OTHER -> Done(adjust_tcp_clock(told))

\* Any segment may find that the send buffer has room again
Writable(g) ==
    IF g.writeEnable /\ g.sbuf < Refill
    THEN agent_signal_socket_writable([g EXCEPT !.writeEnable = FALSE])
    ELSE g

Acked(g, n) == [g EXCEPT !.sbuf = IF @ < n THEN 0 ELSE @ - n]

\* pseudo_tcp_socket_notify_packet: what a segment does to the socket.  The
\* first one from the peer opens it, each acknowledges up to acks bytes.
NotifyPacket(g, p, owner) ==
    LET opened == IF g.tcp = "connecting"
                  THEN agent_signal_socket_writable([g EXCEPT !.tcp = "established"])
                  ELSE g
        room == Writable(Acked(opened, p.acks))
    IN CASE p.kind = "data" ->
               pseudo_tcp_socket_readable([room EXCEPT !.buf = Append(@, p.n)], owner)
         [] p.kind = "ack" ->
               Done(IF g.tcp = "closing" THEN [room EXCEPT !.tcp = "closed"] ELSE room)
         [] p.kind = "fin" -> Done([room EXCEPT !.tcp = "finished"])
         [] p.kind = "rst" -> Done(priv_pseudo_tcp_error(g))

Taken(g) ==
    IF g.tcp = "closed" THEN g ELSE [adjust_tcp_clock(g) EXCEPT !.queued = Tail(@)]

\* Packets that came before a pair was selected.  One leaves the queue after
\* the socket took it, and after the client's callback if that ran.
QueuedTurn(done, owner) ==
    LET r == NotifyPacket(done.g, Head(done.g.queued), owner)
    IN IF done.call \/ done.g.tcp = "closed" THEN done
       ELSE IF r.call THEN r ELSE Done(Taken(r.g))

process_queued_tcp_packets(g, owner) ==
    LET run[k \in 0..Len(g.queued)] ==
            IF k = 0 THEN Done(g) ELSE QueuedTurn(run[k - 1], owner)
    IN run[Len(g.queued)]

-----------------------------------------------------------------------------
\* Packets from the sockets

\* Mutant: STUN messages do not count
Received_media(g, p) ==
    IF p.kind = "stun" THEN g ELSE [g EXCEPT !.media = TRUE]

Received(g, p) == [g EXCEPT !.media = TRUE]

\* conn_check_handle_inbound_stun, as far as keepalives are concerned
priv_map_reply_to_keepalive_conncheck(g, p) ==
    IF p.reply THEN [g EXCEPT !.keepalive = 0] ELSE g

\* A packet waits until a pair is selected: it could not be acknowledged
Enqueue(g, p) == [g EXCEPT !.queued = Append(@, p)]

\* agent_recv_message_unlocked takes one packet; heard and received record
\* what arrived.
agent_recv_message_unlocked(g, owner) ==
    LET p == Head(g.net)
        h == Received([g EXCEPT !.net = Tail(@), !.heard = TRUE,
                                !.received = IF p.kind = "data" THEN @ + 1 ELSE @], p)
    IN CASE p.kind = "stun" -> Done(priv_map_reply_to_keepalive_conncheck(h, p))
         [] p.kind # "stun" /\ h.reliable /\ h.tcp = "closed" -> Done(h)
         [] p.kind # "stun" /\ h.reliable /\ h.tcp # "closed" /\ ~h.selected ->
               Done(Enqueue(h, p))
         [] p.kind # "stun" /\ h.reliable /\ h.tcp # "closed" /\ h.selected ->
               LET r == NotifyPacket(process_queued_tcp_packets(h, owner).g, p, owner)
               IN IF r.call THEN r ELSE Done(adjust_tcp_clock(r.g))
         [] p.kind # "stun" /\ ~h.reliable /\ h.cb ->
               [g |-> component_emit_io_callback(h, <<p.n>>, owner), call |-> owner]
         [] p.kind # "stun" /\ ~h.reliable /\ ~h.cb ->
               Done([h EXCEPT !.recv.got = Append(@, p.n)])

\* The loop of component_io_cb: packets are taken while somebody wants them,
\* until a callback of the client runs or the socket would block.
IoTurn(done, owner) ==
    IF done.call \/ ~Wants(done.g) THEN done
    ELSE agent_recv_message_unlocked(done.g, owner)

IoLoop(g, owner) ==
    LET run[k \in 0..Len(g.net)] ==
            IF k = 0 THEN Done(g) ELSE IoTurn(run[k - 1], owner)
    IN run[Len(g.net)]

\* No signals are emitted in the middle of a read
Leave(g) == IF g.recv = None THEN agent_unlock_and_emit(g) ELSE g

Frames(g) == IF g.reliable THEN <<"tcp", "readable">> ELSE <<"udp">>

\* The rest of component_io_cb, and the frames it leaves
Continue(g, below) ==
    LET r == IoLoop(g, TRUE)
    IN IF r.call THEN c' = r.g /\ stack' = below \o Frames(g)
       ELSE c' = Leave(r.g) /\ stack' = below

\* The network delivers the next packet
Arrive ==
    /\ c.alive /\ c.coming # <<>>
    /\ c' = [c EXCEPT !.net = Append(@, Head(c.coming)), !.coming = Tail(@)]
    /\ UNCHANGED <<stack, reader, writer, budget>>

component_io_cb ==
    /\ ~Held /\ stack = <<>>
    /\ c.attached /\ c.ctx = "main" /\ c.net # <<>>
    /\ IF c.reliable /\ c.tcp = "closed"
       THEN c' = Leave([c EXCEPT !.attached = FALSE]) /\ stack' = stack
       ELSE Wants(c) /\ Continue(c, <<>>)
    /\ UNCHANGED <<reader, writer, budget>>

\* The socket fails: its source is removed
component_io_cb_error ==
    /\ ~Held /\ stack = <<>> /\ c.attached /\ c.ctx = "main" /\ Wants(c)
    /\ Spend("error")
    /\ c' = Leave([c EXCEPT !.attached = FALSE])
    /\ UNCHANGED <<stack, reader, writer>>

\* The peer hangs up.  Nothing is emitted.
component_io_cb_hup ==
    /\ ~Held /\ stack = <<>> /\ c.attached /\ c.ctx = "main"
    /\ Spend("hup")
    /\ c' = [(IF c.selected /\ c.state = "READY"
              THEN agent_queue_signal([c EXCEPT !.state = "FAILED"], "failed") ELSE c)
                EXCEPT !.attached = FALSE]
    /\ UNCHANGED <<stack, reader, writer>>

-----------------------------------------------------------------------------
\* The idle source

\* Mutant: the message stays in the queue
Pop_none(g) == g

Pop(g) == [g EXCEPT !.pending = IF @ = <<>> THEN @ ELSE Tail(@)]

\* The loop of emit_io_callback_cb: call the client with the oldest message,
\* which leaves the queue afterwards, or stop.
SlowTurn(g, below) ==
    IF g.pending # <<>> /\ g.cb
    THEN /\ c' = [g EXCEPT !.delivered = @ \o Head(g.pending)]
         /\ stack' = Append(below, "slow")
    ELSE c' = [g EXCEPT !.id = 0] /\ stack' = below

emit_io_callback_cb ==
    /\ ~Held /\ stack = <<>> /\ c.ctx = "main"
    /\ \E s \in c.sources :
          IF c.alive THEN SlowTurn([c EXCEPT !.sources = @ \ {s}], <<>>)
          ELSE /\ c' = [c EXCEPT !.sources = @ \ {s}, !.dangling = TRUE]
               /\ stack' = stack
    /\ UNCHANGED <<reader, writer, budget>>

Top == stack[Len(stack)]

Below == SubSeq(stack, 1, Len(stack) - 1)

\* After the client's callback came back to emit_io_callback_cb
SlowReturns ==
    /\ ~Held /\ stack # <<>> /\ Top = "slow"
    /\ IF c.alive THEN SlowTurn(Pop(c), Below) ELSE c' = c /\ stack' = Below
    /\ UNCHANGED <<reader, writer, budget>>

\* ... to component_io_cb, for a socket without pseudo-TCP
UdpReturns ==
    /\ ~Held /\ stack # <<>> /\ Top = "udp"
    /\ IF c.attached /\ c.cb THEN Continue(c, Below)
       ELSE /\ c' = IF c.attached THEN Leave(c) ELSE agent_unlock_and_emit(c)
            /\ stack' = Below
    /\ UNCHANGED <<reader, writer, budget>>

\* When pseudo_tcp_socket_readable is through, its caller goes on: the loop of
\* component_io_cb, that of process_queued_tcp_packets, or the end of
\* nice_agent_attach_recv.  The first two use a component that may be gone.
Resume(g, caller, rest) ==
    CASE ~g.alive ->
            /\ c' = IF caller = "attach" THEN agent_unlock_and_emit(g)
                    ELSE [g EXCEPT !.dangling = TRUE]
            /\ stack' = rest
      [] g.alive /\ caller = "tcp" -> Continue(adjust_tcp_clock(g), rest)
      [] g.alive /\ caller = "queue" ->
            LET r == process_queued_tcp_packets(Taken(g), TRUE)
            IN IF r.call THEN c' = r.g /\ stack' = rest \o <<"queue", "readable">>
               ELSE c' = agent_unlock_and_emit(r.g) /\ stack' = rest
      [] g.alive /\ caller = "attach" -> c' = agent_unlock_and_emit(g) /\ stack' = rest

\* ... to pseudo_tcp_socket_readable
ReadableReturns ==
    /\ ~Held /\ stack # <<>> /\ Top = "readable"
    /\ LET r == IF c.alive /\ c.tcp # "closed" /\ c.cb THEN ReadableTurn(c, TRUE)
                ELSE Done(c)
       IN IF r.call THEN c' = r.g /\ stack' = stack
          ELSE Resume(r.g, Below[Len(Below)], SubSeq(Below, 1, Len(Below) - 1))
    /\ UNCHANGED <<reader, writer, budget>>

-----------------------------------------------------------------------------
\* Calls of the client or of the agent's timers, on thread X, within a
\* callback or not, or on thread T

Free(th) ==
    /\ ~Held /\ c.alive /\ th \in budget.threads
    /\ IF th = "X" THEN Len(stack) < MaxFrames ELSE reader.pc = "idle"

\* Data may be left in the pseudo-TCP buffer from before a callback was
\* detached
Reread(g, owner) ==
    IF g.reliable /\ g.tcp # "closed" /\ g.readable
    THEN pseudo_tcp_socket_readable(g, owner) ELSE Done(g)

\* The client does not attach a callback while one of its reads is under way.
nice_agent_attach_recv(th) ==
    /\ Free(th) /\ reader.pc = "idle" /\ Spend("attach")
    /\ LET g == component_set_io_callback(component_set_io_context(c), TRUE, None)
           r == Reread(g, th = "X")
       IN IF r.call THEN c' = r.g /\ stack' = stack \o <<"attach", "readable">>
          ELSE c' = agent_unlock_and_emit(r.g) /\ stack' = stack
    /\ UNCHANGED <<reader, writer>>

nice_agent_detach_recv(th) ==
    /\ Free(th) /\ c.cb /\ Spend("detach")
    /\ c' = agent_unlock_and_emit(component_set_io_callback(component_set_io_context(c), FALSE, None))
    /\ UNCHANGED <<stack, reader, writer>>

\* conn_check and nice_agent_set_selected_pair
agent_signal_new_selected_pair(th) ==
    /\ Free(th) /\ ~c.selected /\ Spend("select")
    /\ LET g == [c EXCEPT !.selected = TRUE, !.state = "READY"]
           r == IF g.reliable THEN process_queued_tcp_packets(g, th = "X") ELSE Done(g)
       IN IF r.call THEN c' = r.g /\ stack' = stack \o <<"queue", "readable">>
          ELSE c' = agent_unlock_and_emit(adjust_tcp_clock(r.g)) /\ stack' = stack
    /\ UNCHANGED <<reader, writer>>

\* Mutant: the idle source is left behind
component_close_scheduled(g) ==
    [g EXCEPT !.alive = FALSE, !.tcp = "closed", !.attached = FALSE, !.clock = FALSE,
              !.cancelled = TRUE, !.pending = <<>>, !.queued = <<>>, !.selected = FALSE,
              !.keepalive = 0, !.socks = <<>>, !.age = @ + 1]

component_close(g) ==
    component_deschedule_io_callback(
        [g EXCEPT !.alive = FALSE, !.tcp = "closed", !.attached = FALSE, !.clock = FALSE,
                  !.cancelled = TRUE, !.pending = <<>>, !.queued = <<>>, !.selected = FALSE,
                  !.keepalive = 0, !.socks = <<>>, !.age = @ + 1])

\* Something keeps pointing to the component although it is closed: a caller
\* of pseudo_tcp_socket_readable that X is to return to, or an idle source
\* that io_callback_id does not name.
Exposed == In("tcp", stack) \/ In("queue", stack) \/ c.sources \ {c.id} # {}

\* exposed records what the stream was removed under
nice_agent_remove_stream(th) ==
    /\ Free(th) /\ Spend("remove")
    /\ c' = agent_unlock_and_emit(agent_queue_signal(
                component_close([c EXCEPT !.exposed = Exposed]), "removed"))
    /\ UNCHANGED <<stack, reader, writer>>

-----------------------------------------------------------------------------
\* nice_agent_recv_messages_blocking_or_nonblocking, on thread T

Flat(chunks) ==
    LET flat[k \in 0..Len(chunks)] == IF k = 0 THEN <<>> ELSE flat[k - 1] \o chunks[k]
    IN flat[Len(chunks)]

\* pending_io_messages_recv_messages copies until a buffer is full, and only
\* then looks at the message: it comes to an end when each message that
\* waits fits a buffer exactly, and for a reliable agent when there is one.
Drainable(g) ==
    /\ \A k \in 1..Len(g.pending) : Len(g.pending[k]) = Buffer
    /\ g.reliable => Len(g.pending) = 1

pending_io_messages_recv_messages(g) ==
    LET n == IF Len(g.pending) < g.recv.want THEN Len(g.pending) ELSE g.recv.want
    IN [g EXCEPT !.recv.got = Flat(SubSeq(g.pending, 1, n)), !.recv.ragged = g.reliable,
                 !.pending = SubSeq(@, n + 1, Len(@))]

\* The read is over: got is what the client has, unless an error is returned
Return(g, error) ==
    /\ c' = agent_unlock_and_emit(
                component_set_io_callback(
                    IF error THEN [g EXCEPT !.dropped = @ \o g.recv.got]
                    ELSE [g EXCEPT !.delivered = @ \o g.recv.got], FALSE, None))
    /\ reader' = [reader EXCEPT !.pc = "idle", !.cancelled = FALSE]

Iterate(g) ==
    /\ c' = agent_unlock_and_emit(g)
    /\ reader' = [reader EXCEPT !.pc = "iterate", !.prev = Len(g.recv.got)]

\* raced records that messages are taken while emit_io_callback_cb is calling
\* the client with the first of them
nice_agent_recv ==
    /\ ~Held /\ c.alive /\ reader.pc = "idle" /\ Spend("recv")
    /\ LET g == component_set_io_callback(c, FALSE,
                    [want |-> budget.want, got |-> <<>>, ragged |-> FALSE])
           h == IF g.pending = <<>> THEN g
                ELSE [pending_io_messages_recv_messages(g) EXCEPT !.raced = @ \/ In("slow", stack)]
           t == IF h.reliable /\ h.tcp = "established" /\ h.buf # <<>>
                THEN adjust_tcp_clock(pseudo_tcp_socket_recv_messages(h)) ELSE h
       IN CASE g.pending # <<>> /\ ~Drainable(g) ->
                  c' = g /\ reader' = [reader EXCEPT !.pc = "spin"]
            [] ~(g.pending # <<>> /\ ~Drainable(g)) ->
                  IF nice_input_message_iter_is_at_end(t) THEN Return(t, FALSE) ELSE Iterate(t)
    /\ UNCHANGED <<stack, writer>>

Cancel ==
    /\ reader.pc = "iterate" /\ ~reader.cancelled /\ Spend("cancel")
    /\ reader' = [reader EXCEPT !.cancelled = TRUE]
    /\ UNCHANGED <<c, stack, writer>>

\* g_main_context_iteration on the component's own context runs the sockets'
\* I/O callback here if the sockets are attached to it.
MainContextIteration ==
    /\ ~Held /\ reader.pc = "iterate"
    /\ LET ready == c.alive /\ c.ctx = "own" /\ c.attached /\ c.net # <<>>
       IN /\ ready \/ reader.cancelled \/ ~budget.blocking
          /\ c' = IF ~ready THEN c
                  ELSE IF c.reliable /\ c.tcp = "closed" THEN [c EXCEPT !.attached = FALSE]
                  ELSE Leave(IoLoop(c, FALSE).g)
    /\ reader' = [reader EXCEPT !.pc = "check"]
    /\ UNCHANGED <<stack, writer, budget>>

RecvCheck ==
    /\ ~Held /\ reader.pc = "check"
    /\ IF ~c.alive
       THEN /\ c' = agent_unlock_and_emit(c)
            /\ reader' = [reader EXCEPT !.pc = "idle", !.cancelled = FALSE]
       ELSE LET still == Len(c.recv.got) = reader.prev
                eos == c.reliable /\ Finished(c) /\ still
            IN IF reader.cancelled THEN Return(c, TRUE)
               ELSE IF nice_input_message_iter_is_at_end(c) \/ eos \/ (~budget.blocking /\ still)
               THEN Return(c, FALSE)
               ELSE Iterate(c)
    /\ UNCHANGED <<stack, writer, budget>>

-----------------------------------------------------------------------------
\* nice_agent_send and the blocking write of an output stream, on thread W.
\* writable and cancelled belong to the write and have a lock of their own.

\* nice_agent_send_messages_nonblocking_internal: the component and the
\* number of bytes taken
nice_agent_send(g, n) ==
    IF ~g.selected \/ (g.reliable /\ g.tcp = "closed") THEN [g |-> g, sent |-> 0]
    ELSE IF ~g.reliable THEN [g |-> g, sent |-> n]
    ELSE LET room == IF g.tcp = "established" THEN SendBuffer - g.sbuf ELSE 0
             k == IF n < room THEN n ELSE room
             h == [g EXCEPT !.sbuf = @ + k, !.writeEnable = @ \/ (g.tcp = "established" /\ k < n)]
             full == h.tcp # "established" \/ h.sbuf = SendBuffer
             told == pseudo_tcp_socket_can_send(adjust_tcp_clock(h))
         IN [g |-> IF full THEN [told EXCEPT !.cancelled = FALSE] ELSE told, sent |-> k]

nice_output_stream_write ==
    /\ writer.pc = "idle" /\ Spend("write")
    /\ \E n \in SendBuffer..(SendBuffer + 1) :
          writer' = [writer EXCEPT !.pc = "try", !.left = n]
    /\ UNCHANGED <<c, stack, reader>>

WriteTry ==
    /\ writer.pc = "try"
    /\ writer' = IF writer.cancelled THEN [writer EXCEPT !.pc = "idle"]
                 ELSE [writer EXCEPT !.pc = "send", !.writable = FALSE]
    /\ UNCHANGED <<c, stack, reader, budget>>

WriteSend ==
    /\ ~Held /\ writer.pc = "send"
    /\ LET r == IF c.alive THEN nice_agent_send(c, writer.left) ELSE [g |-> c, sent |-> 0]
       IN /\ c' = agent_unlock_and_emit(r.g)
          /\ writer' = [writer EXCEPT !.left = @ - r.sent,
                                      !.pc = IF r.sent = 0 THEN "blocked"
                                             ELSE IF r.sent = writer.left THEN "idle" ELSE "try"]
    /\ UNCHANGED <<stack, reader, budget>>

WriteWait ==
    /\ writer.pc = "blocked"
    /\ writer' = [writer EXCEPT !.pc = IF ~writer.writable /\ ~writer.cancelled
                                       THEN "wait" ELSE "try"]
    /\ UNCHANGED <<c, stack, reader, budget>>

\* A signal reaches its handlers: reliable_transport_writeable_cb and
\* write_cancelled_cb
EmitSignal ==
    /\ \E sig \in c.flying :
          /\ c' = [c EXCEPT !.flying = @ \ {sig}]
          /\ writer' = [writer EXCEPT
                           !.writable = @ \/ sig = "writable",
                           !.cancelled = @ \/ sig = "removed",
                           !.pc = IF @ = "wait" /\ sig # "failed" THEN "try" ELSE @]
    /\ UNCHANGED <<stack, reader, budget>>

-----------------------------------------------------------------------------
\* Timers

notify_pseudo_tcp_socket_clock ==
    /\ ~Held /\ c.clock /\ Spend("clock")
    /\ \E g \in {c, priv_pseudo_tcp_error(c)} :
          c' = agent_unlock_and_emit(adjust_tcp_clock(g))
    /\ UNCHANGED <<stack, reader, writer>>

priv_conn_keepalive_tick ==
    /\ ~Held /\ c.alive /\ c.selected /\ Spend("tick")
    /\ c' = agent_unlock_and_emit([c EXCEPT !.keepalive = KaTries, !.media = FALSE, !.heard = FALSE])
    /\ UNCHANGED <<stack, reader, writer>>

priv_conn_keepalive_retransmissions_tick ==
    /\ ~Held /\ c.keepalive > 0
    /\ c' = IF c.keepalive > 1 \/ c.media
            THEN agent_unlock_and_emit([c EXCEPT !.keepalive = IF @ > 1 THEN @ - 1 ELSE 0])
            ELSE agent_unlock_and_emit(
                     agent_queue_signal([c EXCEPT !.keepalive = 0, !.state = "FAILED"], "failed"))
    /\ UNCHANGED <<stack, reader, writer, budget>>

-----------------------------------------------------------------------------
\* The sockets that a source of the input stream polls

component_attach_socket ==
    /\ ~Held /\ c.alive /\ Spend("socket")
    /\ \E s \in Sockets \ c.used :
          c' = [c EXCEPT !.socks = <<s>> \o @, !.age = @ + 1, !.used = @ \cup {s}]
    /\ UNCHANGED <<stack, reader, writer>>

component_detach_socket ==
    /\ ~Held /\ c.alive
    /\ \E i \in 1..Len(c.socks) :
          c' = [c EXCEPT !.socks = SubSeq(@, 1, i - 1) \o SubSeq(@, i + 1, Len(@)),
                         !.age = @ + 1]
    /\ UNCHANGED <<stack, reader, writer, budget>>

\* The sockets in front of the first that is polled already
NewSockets(g) ==
    {g.socks[i] : i \in {j \in 1..Len(g.socks) : \A k \in 1..j : g.socks[k] \notin g.polled}}

component_source_prepare ==
    /\ ~Held /\ c.alive /\ c.age # c.polledAge
    /\ c' = agent_unlock_and_emit(
                [c EXCEPT !.polled = {s \in @ \cup NewSockets(c) : In(s, c.socks)},
                          !.polledAge = c.age])
    /\ UNCHANGED <<stack, reader, writer, budget>>

-----------------------------------------------------------------------------
NewComponent(setup) ==
    [alive |-> TRUE, reliable |-> setup.reliable, state |-> "CONNECTING",
     cb |-> FALSE, ctx |-> "own", recv |-> None, attached |-> TRUE, net |-> <<>>,
     coming |-> setup.net,
     pending |-> <<>>, id |-> 0, sources |-> {}, selected |-> FALSE, queued |-> <<>>,
     tcp |-> IF setup.reliable THEN "connecting" ELSE "closed", buf |-> <<>>,
     readable |-> FALSE, clock |-> FALSE, sbuf |-> 0, writeEnable |-> FALSE,
     cancelled |-> FALSE, signals |-> {}, flying |-> {}, media |-> FALSE, keepalive |-> 0,
     socks |-> <<>>, age |-> 0, polled |-> {}, polledAge |-> 0, used |-> {},
     delivered |-> <<>>, dropped |-> <<>>, received |-> 0, slow |-> FALSE, heard |-> FALSE,
     raced |-> FALSE, exposed |-> FALSE, dangling |-> FALSE]

Init ==
    \E setup \in Setups :
        /\ c = NewComponent(setup) /\ budget = setup.bounds
        /\ stack = <<>>
        /\ reader = [pc |-> "idle", prev |-> 0, cancelled |-> FALSE]
        /\ writer = [pc |-> "idle", left |-> 0, writable |-> FALSE, cancelled |-> FALSE]

ThreadX ==
    \/ component_io_cb
    \/ emit_io_callback_cb
    \/ SlowReturns
    \/ UdpReturns
    \/ ReadableReturns

Reading == MainContextIteration \/ RecvCheck

Next ==
    \/ ThreadX
    \/ Arrive
    \/ component_io_cb_error
    \/ component_io_cb_hup
    \/ \E th \in {"X", "T"} :
          \/ nice_agent_attach_recv(th)
          \/ nice_agent_detach_recv(th)
          \/ agent_signal_new_selected_pair(th)
          \/ nice_agent_remove_stream(th)
    \/ nice_agent_recv
    \/ Cancel
    \/ Reading
    \/ nice_output_stream_write
    \/ WriteTry
    \/ WriteSend
    \/ WriteWait
    \/ EmitSignal
    \/ notify_pseudo_tcp_socket_clock
    \/ priv_conn_keepalive_tick
    \/ priv_conn_keepalive_retransmissions_tick
    \/ component_attach_socket
    \/ component_detach_socket
    \/ component_source_prepare

Spec == Init /\ [][Next]_vars

-----------------------------------------------------------------------------
OnStack(frame) == In(frame, stack)

\* Messages in the queue that the client has not been called with
Waiting(g) ==
    IF OnStack("slow") /\ g.pending # <<>> THEN Tail(g.pending) ELSE g.pending

\* Data among the packets that pseudo-TCP has yet to see
QueuedData(g) ==
    LET unseen == CASE g.tcp = "closed" -> <<>>
                    [] g.tcp # "closed" /\ OnStack("queue") -> Tail(g.queued)
                    [] OTHER -> g.queued
        data == SelectSeq(unseen, LAMBDA p : p.kind = "data")
    IN [i \in 1..Len(data) |-> data[i].n]

\* What was received, wherever it is now
Everywhere(g) ==
    g.delivered \o g.dropped \o Flat(Waiting(g)) \o g.buf \o QueuedData(g)
       \o (IF g.recv = None THEN <<>> ELSE g.recv.got)

\* Every datum that was taken from a socket is in exactly one place: with the
\* client, in pending_io_messages, in the pseudo-TCP buffer, in
\* queued_tcp_packets or in the buffers of a read (component.c:708 "no data
\* loss"), as long as the connection is open.  None is delivered twice.
\* Data that never waited for the idle source reach the client in the order
\* they were sent.  Callbacks are attached and detached and reads are made in
\* any order, by the thread of the callbacks and by another one.  It does not
\* hold once a read took the message that emit_io_callback_cb
\* (component.c:818-831) was just calling the client with.
DeliveredOnce ==
    LET all == Everywhere(c)
        known == c.alive /\ (c.reliable => c.tcp \in {"connecting", "established"})
    IN ~c.raced =>
       /\ \A i, j \in 1..Len(all) : i # j => all[i] # all[j]
       /\ known => \A n \in 1..c.received : In(n, all)
       /\ ~c.slow => \A i, j \in 1..Len(c.delivered) : i < j => c.delivered[i] < c.delivered[j]

\* Parts of NothingStranded

\* While messages wait in pending_io_messages and there is a callback, an idle
\* source is attached or running: they are never forgotten.
PendingScheduled ==
    c.alive /\ c.cb /\ c.pending # <<>> => c.sources # {} \/ OnStack("slow")

\* With a callback attached, no data stay in the pseudo-TCP buffer unless
\* pseudo_tcp_socket_readable is at work on them.
BufferRead ==
    c.cb /\ c.tcp = "established" => c.buf = <<>> \/ OnStack("readable")

\* Once a pair is selected no packet stays queued for the pseudo-TCP socket.
QueueDrained ==
    c.selected /\ c.tcp # "closed" => c.queued = <<>> \/ OnStack("queue")

\* When a source of the input stream is up to date, it polls the component's
\* sockets and no others.
PollsSockets ==
    c.alive /\ c.age = c.polledAge => c.polled = {c.socks[i] : i \in 1..Len(c.socks)}

\* Wherever data may wait on their way to the client (in a socket, in
\* queued_tcp_packets, in the pseudo-TCP buffer, in pending_io_messages) there
\* is something that will move them on.
NothingStranded == PollsSockets /\ QueueDrained /\ BufferRead /\ PendingScheduled

\* A writer that waits, or a source on tcp_writable_cancellable, is woken: the
\* signal is on its way, or the pseudo-TCP socket is to report room it does
\* not have yet.
WriterWoken ==
    c.tcp = "established" =>
        /\ writer.pc = "wait" =>
              \/ "writable" \in c.signals \cup c.flying
              \/ c.writeEnable /\ c.sbuf > 0
        /\ ~c.cancelled => c.writeEnable

\* A component fails for want of keepalives only when nothing was received
\* since the last one was sent.
FailsOnlyWhenSilent ==
    [][c.keepalive = 1 /\ c'.keepalive = 0 /\ c.state = "READY" /\ c'.state = "FAILED"
          => ~c.heard]_vars

\* Nothing runs on a component that was freed, wherever the client removes
\* the stream: within a callback from a socket, from the idle source
\* (component.c:804) or from nice_agent_attach_recv, or from another thread.
\* Only where Exposed held does something still point to the component.
NoDangling == c.dangling => c.exposed
=============================================================================
