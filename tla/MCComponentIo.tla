--------------------------- MODULE MCComponentIo ---------------------------
(* Bounds for model checking ComponentIo. *)
EXTENDS ComponentIo

Data(n) == [kind |-> "data", n |-> n, acks |-> 0, reply |-> FALSE]
Packet(kind, acks) == [kind |-> kind, n |-> 0, acks |-> acks, reply |-> FALSE]
Stun(reply) == [kind |-> "stun", n |-> 0, acks |-> 0, reply |-> reply]
Bounds == [threads |-> {"X"}, want |-> 1, blocking |-> FALSE, attach |-> 0, detach |-> 0,
           select |-> 1, remove |-> 0, recv |-> 0, cancel |-> 0, error |-> 0, hup |-> 0,
           write |-> 0, clock |-> 0, tick |-> 0, socket |-> 0]
Base == [reliable |-> FALSE, net |-> <<>>, bounds |-> Bounds]

\* A callback without pseudo-TCP; the stream may be removed in the callback
UdpSetup == [Base EXCEPT !.net = <<Data(1), Stun(FALSE), Data(2), Data(3)>>,
                !.bounds = [Bounds EXCEPT !.threads = {"X", "T"}, !.attach = 3, !.detach = 2,
                               !.remove = 1, !.error = 1, !.hup = 1]]
\* A callback with pseudo-TCP, all on one thread; the stream may be removed in
\* the callback
TcpSetup == [Base EXCEPT !.reliable = TRUE, !.net = <<Data(1), Data(2), Data(3), Packet("fin", 0), Packet("ack", 0)>>,
                !.bounds = [Bounds EXCEPT !.attach = 4, !.detach = 3, !.clock = 2, !.remove = 1]]
\* ... and with another thread that attaches, detaches and selects
SlowSetup == [TcpSetup EXCEPT !.net = <<Data(1), Data(2), Data(3), Data(4)>>,
                 !.bounds = [Bounds EXCEPT !.threads = {"T", "X"}, !.attach = 4, !.detach = 3]]
\* Removal while the idle source is due
RemoveSetup == [SlowSetup EXCEPT !.bounds = [Bounds EXCEPT !.threads = {"T"}, !.attach = 1,
                                                !.detach = 1, !.remove = 1]]
\* Callbacks and reads one after the other, from two threads
SwitchSetups ==
    {[SlowSetup EXCEPT !.reliable = rel, !.net = <<Data(1), Data(2), Data(3)>>,
         !.bounds = [Bounds EXCEPT !.threads = {"T", "X"}, !.attach = 3, !.detach = 1,
                        !.recv = 2, !.remove = 1]] : rel \in BOOLEAN}
\* Reads, blocking and not
ReadSetups ==
    {[reliable |-> rel, net |-> net,
      bounds |-> [Bounds EXCEPT !.threads = {"X"}, !.want = 2, !.blocking = blk, !.recv = 3,
                                !.cancel = 1, !.remove = 1]] :
        rel \in BOOLEAN, blk \in BOOLEAN,
        net \in {<<Data(1), Data(2), Stun(FALSE), Data(3)>>}}
     \cup {[reliable |-> TRUE, net |-> <<Data(1), Packet("fin", 0), Packet("rst", 0)>>,
            bounds |-> [Bounds EXCEPT !.blocking = blk, !.recv = 3]] : blk \in BOOLEAN}
\* A writer, with acknowledgements that come between reads or callbacks
WriteNet == <<Packet("ack", 0), Packet("ack", 1), Packet("ack", 2), Packet("ack", 1)>>
WriteSetups ==
    {[Base EXCEPT !.reliable = TRUE, !.net = WriteNet,
         !.bounds = [Bounds EXCEPT !.attach = 1, !.write = 1, !.remove = 1, !.clock = 1]],
     [Base EXCEPT !.reliable = TRUE, !.net = WriteNet,
         !.bounds = [Bounds EXCEPT !.write = 1, !.recv = 1, !.blocking = TRUE]],
     [Base EXCEPT !.bounds = [Bounds EXCEPT !.write = 1]]}
\* Keepalives
KeepaliveSetup == [Base EXCEPT !.net = <<Stun(TRUE), Stun(FALSE), Data(1), Stun(TRUE)>>,
                      !.bounds = [Bounds EXCEPT !.attach = 1, !.tick = 2, !.detach = 1]]
PollSetup == [Base EXCEPT !.bounds = [Bounds EXCEPT !.socket = 3]]
RstSetup == [TcpSetup EXCEPT !.net = <<Data(1), Data(2), Packet("rst", 0), Data(3)>>]
MCSetups == {UdpSetup, TcpSetup, RstSetup, SlowSetup, RemoveSetup, KeepaliveSetup, PollSetup}
               \cup SwitchSetups \cup ReadSetups \cup WriteSetups
=============================================================================
