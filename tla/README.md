# TLA+ specifications for libnice (jni/libnice)

This directory holds TLA+ models of the ICE agent in `src/jni/libnice`, the TLC
configurations that check them on small instances and TLAPS proofs of what can
be proved for all instances. File names below are relative to
`src/jni/libnice/`. `PROJECT.json` maps every definition to the lines it
models and lists the runs, the mutants, the findings, the hazards and the
theorems.

## 1. Inventory

| Component | State | Operations | Talks to |
|---|---|---|---|
| STUN timer (`stun/usages/timer.c`) | deadline, delay, retransmissions | start, start_reliable, remainder, refresh | every user of a transaction |
| Connectivity checks (`agent/conncheck.c`) | check list of each stream, pacing timer, early checks, selected pair, component state | pacing tick, send, triggered check, inbound request, response, nomination, unfreezing, pruning, early checks | STUN agent, timer, component, discovery |
| Role conflicts (`stun/usages/ice.c`, `conncheck.c`) | `controlling_mode`, `tie_breaker`, role remembered by a pair | answer a request, accept a 487 | the other agent |
| Keepalives, TURN refresh (`conncheck.c`) | keepalive transaction of a component, refresh list | keepalive tick, retransmission tick, refresh, cancel | timer, TURN server |
| Agent API (`agent/agent.c`) | streams, properties, the lock | add and remove streams, credentials, candidates, gather, restart, set pair, send, receive | everything |
| Component, stream (`agent/component.c`, `stream.c`) | candidates, sockets, sources, I/O callback queue | restart, find pair, attach and detach sources, emit I/O | agent, main contexts |
| Candidates (`agent/candidate.c`) | – | priorities | conncheck, discovery |
| Discovery (`agent/discovery.c`) | discovery items, foundations | add candidates, tick, prune, learn a peer reflexive candidate | STUN/TURN servers, conncheck |
| Pseudo-TCP (`agent/pseudotcp.c`) | two ring buffers, segment lists, sequence numbers, windows, RTO, FIN states | connect, send, recv, notify_packet, notify_clock, shutdown, close | its peer, the agent's clock |
| STUN agent (`stun/stunagent.c`) | table of 200 outstanding transactions | init and finish a message, validate, forget | all STUN users |
| STUN messages (`stun/stunmessage.c`, ...) | – | append and find attributes | STUN agent |
| TURN socket (`socket/udp-turn.c`) | permissions, channel bindings, pending bindings, queued packets | send, recv, set_peer, timeouts, retransmissions | TURN server |
| Other sockets (`socket/*.c`) | send queues, proxy handshake state | send, recv | the operating system |
| GIO and GStreamer wrappers, JNI | – | forward to the agent | agent |

Interaction. The agent is driven by GLib main contexts: timer callbacks (the
pacing timer every `timer_ta` ms, discovery, keepalives, TURN refreshes) and
socket callbacks, each taking `agent_lock` for its whole duration, and by API
calls of the application under the same lock. A received packet goes to the
TURN socket, then to `conn_check_handle_inbound_stun`, and, when it is no STUN
message, to pseudo-TCP or the application. What is hard is therefore not a race
within a handler but the order of the handlers: requests of the peer before its
candidates are known, answers after a pair was cancelled, role switches between
the send of a check and its answer, candidates found after the checks ended, a
restart in between, and timers that run, or no longer run, when work appears.

What makes the parts correct:

* timer: late refresh calls neither lose nor stretch a transaction, and it is
  given up neither early nor never;
* checks: every check ends, the timer stops only with every component decided,
  the selected pair is an answered one and only improves, READY is final, early
  checks take effect, the list is sorted and limited;
* roles: of two agents exactly one switches, whatever the network does;
* discovery, TURN: every request ends, gathering ends and is reported once its
  work is done, a refresh precedes the expiry, data that waits leaves in order;
* pseudo-TCP: the bytes read are a prefix of the bytes written, the FIN
  handshake loses no data, the clock always has a next deadline;
* STUN agent: an answer matches at most one request, slots are given back;
* sockets: the stream of a TCP connection holds whole frames only, in both
  directions, and a tunnel is used exactly when the proxy granted it;
* component: what was taken from a socket is delivered once and in order,
  whoever attaches, detaches, reads or removes meanwhile; a writer that sleeps
  is woken; nothing is used after a stream is removed.

## 2. Plan

The modules, in the order of their importance to the rest:

| Module | About | Uses |
|---|---|---|
| `StunTimer` (`StunTimerProofs`) | retransmission schedule of every transaction | |
| `ConnCheck` (`ConnCheckProofs`) | one agent's checks against an arbitrary peer and network | `Lists` |
| `IceRole` (`IceRoleProofs`) | two agents that run the same role code | |
| `PseudoTcp` (`PseudoTcpProofs`) | two sockets over a lossy, reordering network | `Lists`; implements `ByteStream` |
| `ByteStream` | what pseudo-TCP promises: two byte streams | |
| `StunAgent` | transactions, credentials and validation, as operators | |
| `UdpTurn` (`UdpTurnProofs`) | the TURN client socket and a server | extends `StunAgent` |
| `Gathering` (`GatheringProofs`) | gathering, discovery timer, UPnP, TURN refreshes | |
| `ComponentIo` (`ComponentIoProofs`) | data between sockets, threads and the client; keepalives | |
| `TcpSockets` | one TCP connection, its framing and its tunnel | |
| `Lists` | filtering a linked list and looping over it, as recursive functions | |
| `Recursion` | induction and recursive functions, as lemmas for the proofs | `Lists` |

Each `MC` module holds the bounds of one of them. Written so far is all of the
list. To do, in this order:

1. proofs for `TcpSockets`, `QueueWatched` first; and, with a bound on the
   lifetime of packets in the model, `WindowFits` of `PseudoTcp` and the step
   simulation behind `StreamSpec` (section 6 says why they need one);
2. several components in a stream for `ConnCheck`, and TCP candidates;
3. the making of active and the accepting of passive TCP connections;
4. candidate priorities as pure operators.

## 3. Modules and code

### StunTimer

`now` is `CLOCK_MONOTONIC` in microseconds, `timer` is the C structure with its
timeval, `status`/`ret` what the caller was told; `start` and `initial` are
history for the properties. `stun_timer_refresh` is split by its three return
values. The user calls it from the main loop, so the clock may advance by any
step in between; the remainder keeps the C truncation of a negative division,
and `add_delay` its one-turn carry (`> 1000000`).

### ConnCheck

`agent` is one record: role, pacing timer, whether discovery is under way,
remote credentials, the check list of each stream, and for each component its
state, local and remote candidates, early checks and selected pair. Because
every handler runs under the lock, a handler is one action. The C helpers call
each other in many orders, so each is an operator from agent to agent with the
C name: `priv_conn_check_tick_unlocked`, `priv_schedule_triggered_check`,
`priv_mark_pair_nominated` and so on. The body of a loop over a list is an
operator of its own, and the loop is `Loop` of `Lists` over it: a recursive
function and no RECURSIVE operator, so that proofs can speak of it.

| Action | Code |
|---|---|
| `SetRemoteCredentials`, `SetRemoteCandidates` | the two API calls, the second with the pairs, the early checks and `conn_check_schedule_next` |
| `GatherLocalCandidate`, `GatheringDone` | a candidate found by discovery, `agent_gathering_done` |
| `Tick` | `priv_conn_check_tick` |
| `InboundRequest`, `InboundResponse`, `InboundUnmatched` | `conn_check_handle_inbound_stun` for a request, for the answer to an open check, and for anything else |
| `Restart`, `SetSelectedPair` | the two API calls |

The peer and the network are arbitrary: a request comes from any of a set of
addresses on any socket, with or without USE-CANDIDATE, with or without a
conflict that this agent loses; an open check gets any answer, from the right
or the wrong source, with any of the mapped addresses, with an error, or none.

Abstractions. RFC 5245 mode with UDP candidates. `due` in a tick stands for
`next_tick` and the STUN timer having run out; StunTimer says when that is.
`retransmissions` is the counter of the pair's timer. `buf` says that
`stun_message.buffer` is not NULL, that is, that an answer can match. Early
checks are used component by component (the code meets the components in the
order of their first pairs; the work on one leaves the other alone). A pair
points to its remote candidate by address, unique in a component, so that
updates of the candidate are seen through it. A pair is found again after a
local peer reflexive candidate was added (`MappedUnknown`) by its rank among the
pairs of other candidates, because the new pairs are all of the new one. The
media timestamp and socket attachment set when a pair is selected, usernames,
passwords and signals other than the component state are left out. 64-bit
priorities keep their formula with a smaller base (`PrioBase`) that all the
priorities respect.

### IceRole

Two agents, each with a role, a tie-breaker and check list entries that
remember the role they were made in (`CandidateCheckPair.controlling`).
Messages once sent stay in `requests` and `replies`: they may be received
never, late, or repeatedly, in any order. A check is sent with the role of
*now*; a 487 applies the opposite of the role of the *pair*. One ICE
generation; equal tie-breakers (probability 2^-64) are excluded by assumption.
A request that the loser accepts is answered with success and also switches its
role; one that the winner refuses is answered with 487.

### PseudoTcp and ByteStream

Both ends of a connection, each one record with the fields of
`PseudoTcpSocketPrivate` that decide something: state, send and receive
buffers, segment lists, sequence numbers, windows and their scale, duplicate
acknowledgements, recovery, the running timers. The C functions are operators
from socket to socket (`queue`, `transmit`, `attempt_send`, `process`, ...);
the actions are the public calls `connect`, `send`, `recv`, `shutdown`,
`close`, `get_next_clock`, `notify_clock`, `notify_packet` and the network's
`Duplicate` and `Lose`. A packet in flight may be received at any time, which
is the reordering. The writer callback may fail.

Sequence numbers are modulo `SeqMod` and all comparisons are the modular ones of
the code; the numbers of the instance that TLC checks stay below `SeqMod`, those
of the proofs may wrap. The bytes of a stream are their positions, so a byte
that is wrong is seen. Clock readings are left out: which of the running timers
is due is a choice of `notify_clock`. The assertions of the code (`g_assert`)
are recorded in `bad`.

`ByteStream` is what the users of the two sockets may rely on: a read returns
the next bytes that the other end's send calls accepted. `PseudoTcp` is shown
to implement it (`StreamSpec`) with `written` and `read` mapped to the history
variables `wr` and `rd`, which count what `send` accepted and hold what `recv`
returned.

### StunAgent and UdpTurn

`StunAgent` has no variables: an agent is a record with its compatibility,
flags and remembered transactions, and `stun_agent_finish_message`,
`stun_agent_validate` and `stun_agent_forget_transaction` are operators with
the checks of the code in the order of the code. A message is a record of
class, method, id, the attributes that are looked at and the key it was signed
with; whether a signature is right is whether the keys are the same. The table
holds `MaxSavedIds` entries (200 in the code), and a request that finds it full
is not sent. Transaction ids are `1..MaxIds`, each used once (the code draws 96
random bits); an operation is bounded to states in which three are left
(`IdsLeft`), since no call makes more than three requests.

`UdpTurn` has the socket (permissions, permissions asked for, channel bindings
with their timers, pending bindings, queued data, outstanding requests), the
server's channel table, and the requests and answers in flight, which may be
received never, late or twice. Actions: `set_peer`, `send_message`,
`recv_message` (answers, indications, channel data), `socket_close` and one per
timer callback. The server may refuse with 401, 438 or 403, in every
compatibility mode. Its own bindings lapse (`Lapse`) 600 s after the request
that made them, before or after the socket's, which counts 540 s and 60 s from
the answer. Of the time that passes one thing is assumed: a datagram does not
live for ten minutes, so that with a binding the requests from before it
(`older`) are gone. `again` remembers the channel numbers that the search for a
free one gave to a second binding.

### Gathering

`agent` holds the streams (gathering or not, servers, candidates, selected
relay), the discovery list with the state of each item and the transactions its
STUN agent remembers, the shared timer and `discovery_unsched_items`, UPnP
mappings and their timer, and the refresh list; `allocs` is what the TURN
servers have allocated. Actions: the API calls `nice_agent_gather_candidates`
(and the ways it fails half-way), `nice_agent_set_relay_info`,
`nice_agent_forget_relays`, `nice_agent_remove_stream`, the change of the
selected pair, the ticks of the discovery timer and of a refresh, every kind of
answer to an item (`DiscoveryReply` in its cases) and to a refresh, and the
UPnP callbacks. One component per stream and one local address; TURN is asked
from the UDP host candidate only. Servers grant lifetimes of a minute or more
(`LifetimesAssumption`): the code takes a minute off without looking.

### ComponentIo

`c` is the component: its callback, `pending_io_messages` and the idle sources
that serve them, `queued_tcp_packets`, the buffers of the pseudo-TCP socket,
sockets and sources, its signals, the keepalive transaction. The agent's lock is
released around every callback of the client, so a step is what one thread does
between taking the lock and releasing it, and what thread X does after the
callback returns is a stack of frames (`readable`, `slow`, `queue`, ...). Inside
its callback, or on another thread, the client attaches, detaches, selects a
pair, removes the stream; a second thread reads, blocking or not, and a third
writes to an output stream, in the steps try, send, wait of
`nice_output_stream_write`. Callbacks and reads may follow one another, as
`agent.c:4069` says they must be able to: a read by thread T may come while the
callback of X is under way. A callback is not attached while a read is, which
would fail the assertion at `agent.c:4192`, and the client does not read within
its callback.

Three pieces of history say what has happened: `dangling` that the component was
used after it was freed; `exposed` that the stream was removed while a caller of
`pseudo_tcp_socket_readable` or an idle source that `io_callback_id` does not
name still pointed to the component; `raced` that a read took the message which
the idle source was calling the client with.

### TcpSockets

`tcp` is a `TcpPriv` with the kernel's buffers behind it; `proxy` the tunnel,
with its state, queue and reply buffer; `reader` the reassembly state; `app`
what was accepted and delivered. A byte is `<<tag, value, index>>`. Actions:
`AgentSend` (one message through framing, tunnel and TCP socket, each of which
may queue), `SocketSendMore` (the writable source), `ComponentRead` (one read
through all the layers, in which a handshake may advance), `HangUp`, and the
kernel and the peer: connecting, draining, data arriving in arbitrary pieces,
shutdown and reset. The peer's stream and the proxy's answers are part of the
setup; they come in any cut that the setup allows. A message is a sequence of
buffers down to the TCP socket, which cuts it where the kernel stops and queues
the rest the way `nice_socket_queue_send_with_callback` copies it
(`Remainder`). Two pieces of history say where the code goes astray: `tcp.torn`
holds the places of the stream that this copy gets wrong, and `proxy.short` that
an answer of a proxy was taken for complete when only a part of it had come. What
an array on the stack held before such a read (`proxy.stack`) is any of the bytes
it is compared with.

## 4. Runs

Passing runs:

| Run | Instance | Shows |
|---|---|---|
| `stun_timer` | timeouts 100 and 250 ms, three retransmissions or none, clock steps of 149999 and 450001 us up to 4 s | `DeadlineSchedule`, `RemainderAccurate`, `NoEarlyTimeout`, `OverdueTimesOut` |
| `ice_role` | two entries per agent, one check on each, entries removed and made again | `RolesStable`, `WinnerKeepsRole`, `ConflictReplyResolves`, `ConflictEnds` |
| `conncheck_basic` | one component, two remote candidates, either role, one request, one 487, one retransmission | `OutstandingChecks`, `ReadyConcludes`, `SelectedMonotone`, `ChecksConclude` |
| `conncheck_paths` | controlled; a NAT and two requests from an unsignalled peer address, or one of them from the candidate; or a late relayed candidate and a restart, with candidates set twice or a pair set by the application | `TypeOK` (no pair refers to a candidate that is gone), `ConcludeDecides`, `SelectedRemoteAnswered` |
| `pseudo_tcp` | both ends connect over a network that reorders; or one does, with one fault (loss, duplication, failing writer); or one connects to a peer without FIN-ACK and may force its close; one timeout, a buffer of eight bytes, split by the path's MTU | `StreamSpec` (refinement), `SendListCovers`, `ViewsOrdered`, `WindowFits`, `InFlightTimed`, `NoAssertFails` |
| `udp_turn` | seven setups: data that waits, data and a channel, two peers for channels, a channel number given twice, refusals, Google, MSN; a table of three transactions | `DataInOrder`, `WorkTimed`, `TransactionsOwned`, `Attribution`, `DataLeaves` |
| `gathering` | eight setups: two streams with STUN, TURN on one of two, refreshes, forgotten relays, Google, OC2007, UPnP with TCP, UPnP with two streams | `ItemsScheduled`, `RefreshesKept`, `FoundationsMatch`, `DoneAfterItems`, `GatheringEnds` |
| `component_io` | setups without and with pseudo-TCP, callbacks on one thread or two, removal in every callback, blocking and non-blocking reads, reads between and during callbacks, a writer, keepalives, polled sockets | `DeliveredOnce`, `NothingStranded`, `WriterWoken`, `NoDangling`, `FailsOnlyWhenSilent` |
| `tcp_sockets` | RFC 4571 (one buffer or several) and three TURN framings, bare and through each tunnel, granted and refused, with answers in one piece or several, resets and shutdown | `FramesWhole`, `QueueWatched`, `FramesReassembled`, `FailsWithCause` |

Bounds. The clock steps of `stun_timer` are no divisors of a millisecond or a
second, so readings fall on all sides of a deadline and cross seconds, and 4 s
is more than the total time of 250 ms with three retransmissions (3.75 s).
In the other modules a setup bounds what the environment and the client may do;
each is the least with which the interleaving it is about happens, and several
setups are explored in one run. Answers and timeouts are not bounded unless
said here.

* `ConnCheck`: two pairs of different priority are what nomination, pruning and
  selection can tell apart; a third comes from peer reflexive candidates.
  `MaxRetransmissions` is 1 or, in the larger run, 0: a retransmission only
  changes the counter. The passing runs stay away from the situations of the
  findings below.
* `PseudoTcp`: `SeqMod` is 24, three times the buffer. The numbers of this
  instance stay below it: that they wrap is in the proofs only. A path that
  takes seven bytes splits the first write of eight, which gives two segments in
  flight and two packets (`MaxNet`) that overtake each other. One fault and one
  timeout reach fast retransmission, recovery and the FIN states with a segment
  missing; `MaxFins` 2 is the FIN and one repetition.
* `UdpTurn`: two peers, a table of three transactions, which fills, though in
  this run only after the permission requests have been made (see `WorkTimed`
  in section 5); one retransmission.
* `Gathering`: two streams, because the timer is shared; lifetimes of 60 s (see
  below for shorter ones).
* `ComponentIo`: three or four packets; a buffer of one datum, so that a read
  leaves some behind; a send buffer of two; callbacks nest four deep.
* `TcpSockets`: one to three messages out and two in, a kernel buffer of three
  bytes (four for the frames in several buffers), so that frames may be written
  in parts, cut within their first, middle and last buffers. Packets are of four
  bytes at most (62 KB in the code), so that a message of five is split.

Deadlock. It is checked in the runs of `IceRole` and `ConnCheck`, where it says
little, as the network may always deliver one more stray message. The other
systems may stop: a transaction is over, a connection is closed, all the events
of the setup have happened. What must not stop is said by the invariants that
tie waiting work to a running timer, a source or a signal (`ItemsScheduled`,
`WorkTimed`, `InFlightTimed`, `NothingStranded`, `WriterWoken`,
`QueueWatched`) and by the liveness properties.

Fairness. `StunTimer`: a running timer whose refresh would report a
retransmission or a timeout is refreshed, because the main loop calls the users
again as long as they exist. `ConnCheck`: `WF(TickAllDue)`, the GLib source of
the pacing timer fires again while it exists, and the time every open check
waits for comes. `UdpTurn`: the timer of the permission requests is dispatched
while it exists. `Gathering`: the discovery timer is dispatched while it exists
and meets the deadline of every item at some tick (`TickAll`), and so is the
UPnP timer. In none of these is anything assumed of the peer, the server, the
network or the application. `IceRole`: an agent without pairs makes one, an
agent that makes pairs again and again checks one before it is pruned (strong
fairness: the pacing timer takes a waiting pair at every tick, and pairs are
pruned only when the list is over its limit or a pair was nominated), and one
transmission of a request gets through; 487s may all be lost.

Runs that show a disagreement between the code and what its comments or
documentation say (the quotations are in `PROJECT.json`, `findings`):

| Run | Violated | What happens |
|---|---|---|
| `conncheck_ready_pair` | `ReadyHasSelected` | a check answered with the address of a known peer reflexive candidate makes the component READY without a selected pair |
| `gathering_lost` | `GatheringEnds` | the only stream with discoveries is removed; the timer stops and the other streams are never told that gathering is done |
| `pseudo_tcp_resend` | `AckedNotResent` | a repeated FIN and three duplicate ACKs start recovery; the first FIN is acknowledged, stays at the head of the send list and is handed to `transmit`, whose assertion fails |

Every property of a passing run has a mutant in `PROJECT.json`: a plausible
mistake in one definition, marked `Mutant:` in the module, with which TLC finds
the property violated.

## 5. What else was found while modelling

These have no run of their own. Where a passing property would meet one of
them, its instance stays away from it, as said.

Connectivity checks:

* a check triggered after the pacing timer stopped (`conncheck.c:2041`) is never
  retransmitted or timed out and may keep a nominated component from READY;
* pairs of a local candidate found after the timer stopped are never checked
  (`agent.c:1916`), though line 354 of `conncheck.c` says "keep the timer going
  as long as there is work to be done";
* the selected pair is looked up by foundation (`component.c:357`), which two
  learned candidates of one IP share, so the wrong one may be selected;
  `SelectedRemoteAnswered` is checked with one such address;
* stored early checks are freed after the first pair of the component
  (`conncheck.c:1158`), so a nomination for a later pair is lost;
* nominated pairs are counted per stream (`conncheck.c:360`), so two of one
  component hide that another has none; `ConcludeDecides` is checked with one
  component;
* `priv_update_selected_pair` replaces the selected pair of a READY component by
  a nominated one of higher priority, although READY is documented as final;
* an update of a known remote candidate sets its type to what is signalled,
  peer reflexive included (`agent.c:3058`), while a new one of that type is
  refused (line 3087); the updated candidate may have no socket, which
  `priv_add_new_check_pair` (`conncheck.c:1383`) then gives to its pairs.
  `CandidatesAssumption` excludes it;
* `priv_recalculate_pair_priorities` leaves the list in the order of the old
  role; `priv_add_peer_reflexive_pair` inserts beyond the limit that
  `priv_add_new_check_pair` enforces.

Pseudo-TCP:

* a FIN that overtakes data ends the stream before the data is complete
  (`pseudotcp.c:1738`), although `pseudotcp.h` (line 337) says that the socket
  "will finish sending pending data before closing"; `StreamSpec` says only that
  what is read is right;
* data received after the own `shutdown(WR)` is answered with RST; a CLOSED
  peer answers the repeated FIN of LAST_ACK with RST, so an orderly close may
  end in ECONNRESET; RST segments pile up in the list of a closed socket.

TURN socket:

* `priv_retransmissions_tick` destroys the tick source after the work that may
  have made a new one (`udp-turn.c:1669`);
* the search for a free channel (`udp-turn.c:1979`) starts again at the second
  binding after a match, so it depends on their order: with bindings of the
  numbers 1 and 0, as a renewal that comes after the expiry leaves them, it
  returns 1, which is in use. Data of the server on that channel is then taken
  for data of the wrong peer. `Attribution` says that this happens to no other
  number; without the exemption it is violated with three `set_peer` and three
  timers;
* a second `priv_add_channel_binding` during a renewal replaces the message
  without forgetting its transaction;
* an error answer to a Send request frees the agent's slot
  (`stunagent.c:311`) and leaves the socket's entry (`udp-turn.c:1178`, 1210)
  until its timer runs out, so `TransactionsOwned` does not say that every entry
  is remembered;
* with the transaction table full no permission request is sent, while the peer
  stays in `sent_permissions` (`udp-turn.c:1829` registers it before the request
  is built, and `socket_send_message` ignores the failure at line 834), so its
  data is stranded until the permissions time out. The proof of `WorkTimed`
  needs the hypothesis that the table has room; with `MaxSavedIds` = 1, a
  `set_peer` followed by a `send_message` is a counterexample without it. The
  table can fill because the transactions of replaced binding requests are
  never given back;
* a refused renewal is sent again at once, until the binding expires.

Gathering:

* `(lifetime - 60) * 1000` wraps for lifetimes under a minute
  (`conncheck.c:2592`), although the comment says "refresh should be sent 1
  minute before it expires"; the lifetime is not initialised when the attribute
  is missing;
* `nice_agent_set_relay_info` with an unusable server after gathering marks the
  stream as gathering, which nothing ends; a second gathering with UPnP gets no
  UPnP timer, and a failed one stops the UPnP of all streams;
* `nice_agent_forget_relays` while an Allocate is pending leaves its candidate.

Component I/O:

* a callback that attaches again inside the idle source overwrites
  `io_callback_id` (`component.c:837`): removing the stream then leaves a source
  with a freed component, against the comment at lines 803-805;
* a callback called through `pseudo_tcp_socket_readable` may remove the stream.
  `pseudo_tcp_socket_readable` and `process_queued_tcp_packets` look for the
  component again (`agent.c:1650`, `1990`) and return, but their callers do not:
  `agent_recv_message_unlocked` adjusts the clock of the freed component
  (`agent.c:3649`), also after `process_queued_tcp_packets`, and
  `component_io_cb` asks it for its callback (`agent.c:4859`);
* `NoDangling` says that these two (`Exposed`) are all: whenever else the stream
  is removed, in a callback for a socket without pseudo-TCP, from the idle
  source, in the callback of `nice_agent_attach_recv` or by another thread,
  nothing uses the component afterwards;
* `emit_io_callback_cb` calls the client with the head of `pending_io_messages`
  and without `io_mutex` (`component.c:818`); a `nice_agent_recv` that comes then
  copies and frees the same head (`agent.c:3961`, `4069`), and `component.c:831`
  frees it again and removes what is the head by then. `agent.h:904` does
  not allow the two to be combined, but `agent.c:4069` says that to switch from
  a callback to reads "still must be supported". `DeliveredOnce` exempts the runs
  in which this happened (`raced`), and only those; without the exemption TLC
  finds the message delivered twice. A message lost in this way needs one
  that enters the queue while the callback is under way, after the read; with
  the calls that are modelled none does, as a read of two waiting messages does
  not end (see below) and later data go to the read;
* in reliable mode data may overtake what waits in `pending_io_messages`
  (`DeliveredOnce` speaks of the order of data that never waited there);
* a blocking write sleeps for ever when the peer has sent FIN or pseudo-TCP has
  failed (`outputstream.c:443`); a read that finds a pending message smaller or
  larger than its buffer loops (`agent.c:3946`), holding the lock; a read that is
  cancelled loses what it had copied;
* a hang-up (`agent.c:4769`) leaks a reference and queues FAILED without
  emitting it; `rfc4571_expecting_length` and `media_after_tick` are kept per
  agent and not per socket or component.

Sockets:

* an empty ChannelData over TCP makes a read of size 0, which is taken for a
  shutdown (`udp-turn-over-tcp.c:211`, `tcp-bsd.c:251`); `FailsWithCause` is
  checked with frames that are not empty;
* an HTTP answer cut inside the Content-Length number may fail the tunnel
  (`http.c:490`, one byte too few is demanded); what follows the answer in the
  same read is dropped; doubling the ring buffer while it is wrapped garbles
  it; `FailsWithCause` is checked with the number in one
  read;
* when the kernel takes a part of a message and stops in the second half of one
  of its buffers, `nice_socket_queue_send_with_callback` reduces
  `message_offset` by what it copied of that buffer instead of clearing it
  (`socket.c:376`): bytes of the buffers behind are left out of the queued copy,
  whose end nobody writes. With buffers of 2, 5 and 5 bytes and six bytes sent,
  one byte of the second and two of the third are queued, and three that are not
  initialised. `FramesWhole` says that nothing but these bytes is wrong;
* `pseudossl.c:238` fails the tunnel when the server's hello comes in two reads.
  `socks5.c:210` looks at the size of its buffer and not at the bytes that came:
  of a cut answer the rest is whatever the stack held, and what follows is read
  as the next answer or as data. `FailsWithCause` and `FramesReassembled` exempt
  the tunnels to which that happened, and only those. An HTTP answer may be cut
  anywhere but in the number;
* after a refused hello a pseudo-SSL socket goes on queueing reliable messages
  for a tunnel that will never be up (`pseudossl.c:292`);
* an RFC 4571 message longer than a frame and in several buffers is split past
  the ends of the buffers (`agent.c:4412`);
* `socket_send_more` reads its socket after releasing the lock
  (`tcp-bsd.c:441`); after a hang-up it leaves a queue that nothing watches
  (line 431; `QueueWatched` speaks of connections that are alive).

## 6. Proofs

All proofs are checked by TLAPS for every value of the constants, under the
assumptions named in the modules.

`StunTimerProofs` assumes positive initial timeouts and clock steps.
`TypeOK /\ DeadlineSchedule /\ TimeoutIsDue` is inductive: the schedule speaks
only of the delay in force (the due time is `2 * delay - initial` after the
start), so that doubling the delay and adding it to the *old* deadline
preserves it. It rests on three lemmas on the arithmetic: splitting a clock
reading is exact (`GettimeExact`), `add_delay` adds exactly and one carry is
enough (`AddDelayExact`), and the remainder errs by less than a millisecond,
also with negative microseconds (`RemainderExact`). `RemainderAccurate` and
`TimeoutIsDue` follow.

`IceRoleProofs` assumes distinct tie-breakers. `RolesStable` alone is not
inductive: a stray 487 to a pair that remembers the new role would undo the
switch. The invariant excludes it:

* the winner never switches, so every request of the winner carries its present
  role (`RequestsSound`);
* while the conflict lasts, all pairs of the loser were made in that role
  (`PairsOfConflict`): it has had no other;
* an open check that still claims the winner's role is on such a pair
  (`PairRoleOfConflict`), and only such a check is answered with a 487, so the
  pair that accepts a 487 has the winner's role and its opposite is the right
  one (`ConflictRepliesSound`);
* a removed pair has no transaction (`OpenExists`), and ids are never used
  twice.

`WinnerKeepsRole`, `RolesStable` and `ConflictReplyResolves` are action
properties that follow from it.

`Recursion` is what the other proofs stand on where the code loops over a list.
A property is a set and the step of a recursion a function, so that nothing has
an operator as parameter: induction over the natural numbers
(`NatSetInduction`, from the well-foundedness of the order), the existence and
uniqueness of the function that a recursion defines, and what `Keep` does to a
list. `NoEarlyTimeout`, which speaks of powers of two, is proved with it.

`GatheringProofs` assumes of the constants only that servers grant a minute or
more. The inductive invariant `IInv` is about the agent's record between two
calls made under the agent's lock:

* `Base`: the types; candidates belong to living streams, and two of them share
  a foundation exactly when they are alike (`CandsOk`, `Matched`); items belong
  to living streams and carry the state that their transaction asks for
  (`ItemsOk`); a refresh belongs to a relayed candidate of its stream
  (`RefreshesOk`), the allocations of the servers are those of the refreshes
  (`AllocsOk`), and every refresh has a timer that runs before its allocation
  ends (`AllTimed`);
* `Scheduled`: there is a discovery timer exactly while there are items, and the
  count of unscheduled ones is that of the list. It does not hold inside a
  call, so every operator has a lemma that says which part it keeps and which
  it restores.

`ItemsScheduled`, `FoundationsMatch` and `RefreshesKept` follow.
`DoneAfterItems` is an action property: `Quiet` relates the records before and
after a step, and is proved along with the invariant.

`UdpTurnProofs` assumes `TurnAssumption` (the sizes are natural numbers, and
`None` is neither a peer nor a request). Its invariant consists of

* `Owned`: transactions have distinct ids, those of permission requests are
  exactly the ones of the requests that are outstanding, and those of Send
  requests are outstanding (`SendsOk`); this needs `CurOwn`, that the
  transaction of the binding request is none of them;
* `ChannelsOk`: a binding has the timer that its `renew` flag asks for;
* `QueuesOk` and `Ticking`: only peers without a permission have queues, and
  the tick source exists while there are permission requests;
* `RequestsOk` and `RepliesOk`: an answer in flight, duplicated or late, is one
  that a server could give to a request that was made;
* the data on the wire followed by the queue is, for each peer, what was sent.

Between the entry to a call and its end only parts of it hold (`Enter`, `Leave`).
`TransactionsOwned`, `BindingsTimed` and `DataInOrder` are consequences.
`WorkTimed` holds as long as the table of transactions has room: then a peer
that was registered has a request (`Asked`).

`Attribution` needs a second invariant, `AInv`, which relates the socket to the
server. It is inductive together with the first. Its core is `Clear` of a channel
and a peer: the server has the channel bound to nobody or to that peer, and a
request for another peer is one from before the server bound the channel to that
peer. Such a request is refused while the binding lasts and does not live longer,
so the channel can only become that peer's.

* `Served`: the channel and the peer of every binding are `Clear`;
* `Awaited`: a binding to come has a request, and either it is `Clear`, or the
  request asks for exactly this and no success for it is in flight. A success
  that arrives therefore finds it `Clear`;
* `Agreed`: the bindings, the one to come and the request name one peer for a
  channel, so that no request of the socket takes `Clear` away from another
  binding;
* `Known`: the binding request is a ChannelBind request and no other request has
  its id, so an answer to a request that was given up, a duplicate, or an answer
  of a permission request is not taken for its answer;
* `Fits`: the table of transactions is within its size.

The first three leave out the numbers in `again`. A step of the socket is composed
of operators that keep `Backed` (these parts, with the requests, the answers and
the bindings of the server as they were when the call began); a step of the
server keeps `Clear`: when it binds a channel, what was asked for the channel
before becomes `older`, and with the binding that is gone too. Nothing is assumed
of the order in which the two ends drop a binding.

`ConnCheckProofs` is about any number of streams and components, any candidates,
limits and events. It assumes that components belong to streams
(`StreamAssumption`), that pair priorities are ordered as 31-bit candidate
priorities make them (`PriorityAssumption`), that the application signals no
peer reflexive candidates (`CandidatesAssumption`) and that environments are
what the declaration says (`SetupsAssumption`). The invariant `IInv` is `Good`
of the agent's record, and a budget that is an environment:

* the record has its types, down to the fields of pairs, candidates and early
  checks (`Agents`);
* a pair is in the list of its component's stream, and its component has its
  local candidate, its remote candidate and a local candidate on its socket
  (`CheckOk`);
* early checks and remote peer reflexive candidates name a socket of their
  component (`ComponentOk`): both come back as the socket of a new pair, so
  without this a triggered check could make a pair on no socket;
* only a check in progress or one that the limit cancelled has a transaction
  (`Quiet`).

`TypeOK` alone is not inductive: a restart frees the remote candidates, which is
harmless only because the pairs, in the list of the stream of *their* component,
go with them, and the pairs made from early checks need the third part. Since
the helpers call each other in many orders, each has one lemma that says
what it leaves alone besides keeping `Good`: `Kept` (the candidates and early
checks), `Held` (also the pairs, each in its place), `Added` (pairs may be
inserted, the old ones keep their order) and `Learned` (remote candidates of
one component are added). A loop is a
recursive function, and its lemma an induction over the positions of the list.
`HandleResponse` uses the position of the answered pair after pairs were added
to a sorted list; `Embeds` says that the old list is in the new one in its
order, `RankOf` and `MovedTo` that the rank of the pair finds it again.
`TypeOK` and `OutstandingChecks` follow.

The other properties of `ConnCheck` are not true for all values of the constants
and cannot be theorems as they stand: `SelectedRemoteAnswered` and
`SelectedMonotone` fail with candidates that share a foundation,
`ConcludeDecides` with several components in a stream or with pairs cancelled by
the limit, and `ReadyConcludes` when an early check is used for a failed pair
on the socket of a valid one (it nominates before it triggers,
`conncheck.c:1007`). Their runs show them on instances without these.

`ComponentIoProofs` assumes that the send buffer holds at least `Refill` bytes,
that a buffer of a read is not empty (`BufferAssumption`) and that packets are
packets (`SetupsAssumption`). Its invariant `IoInvariant` relates the
component to what thread X has yet to do:

* `Sound`, `Scheduled`, `Emptied`: a callback is attached to the main context;
  messages that wait for it have an idle source; it leaves nothing in the
  pseudo-TCP buffer, and what a detached callback leaves there is remembered in
  `readable`; the pseudo-TCP socket is open only when a pair was selected;
* `Framed`: only the main loop's callbacks are at the bottom of the stack, and
  `pseudo_tcp_socket_readable` is above one of its three callers. Hence the loop
  of `component_io_cb` never runs while `process_queued_tcp_packets` is under
  way, which the proof needs, as that loop works on the head of the queue;
* `Queues`: a packet that is being processed is still in the queue, also when
  the client's callback selected, detached or attached in between; `Sourced`:
  the idle source of `io_callback_id` is attached unless it is running;
* `Polls`: new sockets are in front of those that are polled, so a source that
  stops at the first known one misses none;
* `Closed`: after the removal nothing but what `Exposed` names is on the stack
  or scheduled, so nothing that runs later has the component;
* `WriterSound`: a writer about to sleep has `writable` set, or the signal is on
  its way, or the socket is to report room and its buffer is not empty.

`NothingStranded` alone is not inductive: what a step may do to the queue or to
`io_callback_id` depends on the frames below it. A helper has a lemma that says
it keeps `Good` and what it leaves alone (`Stays`, `Moves`, `Keeps`); `Woken` in
them says that no writer loses the signal it could rely on. `WriterWoken` speaks
of connections that are established, as section 5 explains. `NothingStranded`,
`WriterWoken` and `NoDangling` follow.

`PseudoTcpProofs` is about any sizes of buffers, segments and windows, any
network and any calls of the two users. It assumes that the sequence space is
more than twice the buffer and the FINs (`SizesAssumption`), that buffer sizes
fit the window scales (`BuffersAssumption`), that segments have a positive size
(`SegmentsAssumption`) and that calls pass lengths (`CallsAssumption`). The
invariant `SocketsSound` says of each socket, whatever its peer sends, that it
is `Sound`:

* `Receives`, `Paces`: the types of the receiving side, and a congestion window
  and segment size that are positive once the socket has left `LISTEN`;
* `Accounted`: the send list covers the send buffer (`CoverBy`: each segment
  starts where the bytes before it end, counted from `snd_una` around the
  sequence space), the transmitted segments are the first ones, a FIN is at the
  end, and until a FIN is queued the distance from `snd_una` to `snd_nxt` is
  the length of the transmitted segments;
* `Sends`: the timer runs while `snd_una` and `snd_nxt` differ, and the
  assertions named in `AssertsHeld` have held;
* `Fresh`, `Open`: in `LISTEN` nothing is queued, and there is no FIN in the
  list before the state says so.

`SendListCovers` alone is not inductive: `attempt_send` takes what is in
flight off what is buffered to see what it may send, and cuts the first unsent
segment there. This is where that segment begins only if flight and transmitted
segments agree; and `process` frees segments by their lengths until the bytes
acknowledged are used up, which ends on a segment only because an
acknowledgement is within the flight. Each operator on the socket has a lemma
that says which parts it keeps; inside `process` the flight is ahead of the
list for a moment, so the lemmas speak of the acknowledged prefix that is still
there. The loops of `attempt_send` and of the recovery of `rlist` are recursive
functions and their lemmas inductions over the turns. The arithmetic of
sequence numbers (`AddSub`, `SubAdd` and others) is proved from the division
theorem. `SendListCovers`, `InFlightTimed`, `FlightIsTransmitted` and
`AssertsHeld` follow.

`WindowFits`, `ViewsOrdered`, the remaining assertions of `NoAssertFails` and
the refinement of `ByteStream` relate the two ends. They do not hold for all
values of the constants: a duplicate that stays in the network until the
sequence numbers have wrapped is taken for new data, in the model as in the
code, which like TCP relies on a bound on the lifetime of a packet. The runs
check them with fewer bytes than would allow that.

Model-checked only: the liveness properties (`DataLeaves` among them; fairness
and ENABLED are outside the prover), the action properties of `ConnCheck` and
its `ReadyConcludes`, `DeliveredOnce` and `FailsOnlyWhenSilent` of
`ComponentIo`, what the paragraphs above leave of `PseudoTcp`, and all of
`TcpSockets`.

## 7. Not modelled

Not intended: hash functions (`stun/sha1.c`, `md5.c`, `stunhmac.c`,
`stuncrc32.c`) and the random source, the encoding of STUN attributes, address
formatting and interface queries, the GStreamer elements and the JNI wrapper,
which keep no protocol state; `udp-bsd.c` and the parts of the GIO streams that
only forward. SDP, properties and socket options of the agent.

Not yet: `tcp-active.c` and `tcp-passive.c`; TCP candidates in the checks and
the checks of the Google, MSN and OC2007 modes, which change how a candidate is
found for a message, not the life of a pair; several components per stream and
several local addresses in `Gathering`. The pacing interval and the
retransmission interval as times are left to `StunTimer`, and the round-trip
estimate of pseudo-TCP to the choice of which timer is due.
