------------------------------ MODULE UdpTurn ------------------------------
(***************************************************************************)
(* The TURN client socket (socket/udp-turn.c), with the STUN agent it owns *)
(* and a TURN server at the other end of an unreliable path.               *)
(*                                                                         *)
(* The socket is one record, changed by operators named after the          *)
(* functions of the code; an action is one call or one timer callback,     *)
(* made under the agent's lock.  Requests and data written in a call are   *)
(* collected in the field out.  Data is numbered per peer.  The server     *)
(* answers requests in any order, late, twice or never: a message that is  *)
(* lost is one that stays in flight.                                       *)
(***************************************************************************)
EXTENDS Integers, Sequences, FiniteSets, StunAgent

CONSTANTS
    Peers,         \* addresses data is relayed to
    Setups,        \* explored together: records of compat (the compatibility)
                   \* and of who (the peers used) and the bounds data, peers,
                   \* errors, timers, closes, inds on events
    Key,           \* the password
    MaxRetrans,    \* retransmissions of a request (0 on a reliable base socket)
    MaxIds,        \* bound on the transaction ids in use at one time
    None           \* absence of a binding or a message

VARIABLES
    sock,          \* the socket
    reqs,          \* requests the server has not answered
    replies,       \* messages of the server in flight
    srv,           \* channel -> peer, the server's bindings
    older,         \* history: the ChannelBind requests in flight that were sent
                   \* before the server last bound their channel
    app,           \* history: peer -> number of data accepted for it
    wire,          \* history: peer -> the data handed to the base socket
    budget         \* what may still happen, by kind of event

vars == <<sock, reqs, replies, srv, older, app, wire, budget>>

\* STUN messages, requests with where they ask for, and TURNMessage: a request
\* and how often it may still be sent
Keys == {Key, NoKey}
Methods == {"SEND", "OLD_SET_ACTIVE_DST", "CHANNELBIND", "CREATEPERMISSION", "IND_DATA"}
Attributes == {"USERNAME", "REALM", "NONCE", "MAGIC_COOKIE", "DESTINATION", "DATA", "OPTIONS",
               "SOFTWARE", "MESSAGE_INTEGRITY", "ERROR_CODE"}
Message == [shape : {"whole"}, class : {"REQUEST", "RESPONSE", "ERROR", "INDICATION"},
            method : Methods, id : Nat, cookie : BOOLEAN, fpr : {"none"}, code : Nat,
            mac : Keys, attrs : SUBSET Attributes]
Req == [msg : Message, peer : Peers, channel : Nat \cup {None}]
TurnMessage == [req : Req, left : Nat]

ASSUME TurnAssumption ==
    /\ MaxRetrans \in Nat /\ MaxIds \in Nat
    /\ None \notin Peers /\ None \notin TurnMessage
    /\ \A s \in Setups :
          /\ s.who \subseteq Peers
          /\ {s.data, s.peers, s.errors, s.timers, s.closes, s.inds} \subseteq Nat

Base == 0          \* the first channel number, 0x4000 in the code
MaxChannel == 3    \* more than the bindings of any run need
Channels == Base..MaxChannel
Rfc(t) == t.compat \in {"RFC5766", "DRAFT9"}

-----------------------------------------------------------------------------
\* The socket

\* The agent of nice_udp_turn_socket_new
NewAgent(compat) ==
    CASE compat \in {"RFC5766", "DRAFT9"} ->
            stun_agent_init("RFC5389", {"LONG_TERM_CREDENTIALS"})
      [] compat = "MSN" ->
            stun_agent_init("RFC3489", {"SHORT_TERM_CREDENTIALS", "NO_INDICATION_AUTH"})
      [] compat = "GOOGLE" ->
            stun_agent_init("RFC3489", {"SHORT_TERM_CREDENTIALS", "IGNORE_CREDENTIALS"})
      [] OTHER -> stun_agent_init("OC2007", {"LONG_TERM_CREDENTIALS", "NO_ALIGNED_ATTRIBUTES"})

\* nice_udp_turn_socket_new
NewSocket(compat) ==
    [open |-> TRUE, compat |-> compat, agent |-> NewAgent(compat),
     key |-> IF compat = "GOOGLE" THEN NoKey ELSE Key,
     channels |-> <<>>, pending |-> <<>>, cur |-> None, curmsg |-> None,
     perms |-> {}, sentperms |-> {}, permmsgs |-> <<>>,
     queues |-> [p \in Peers |-> <<>>], sendreqs |-> {},
     tickBind |-> FALSE, tickPerm |-> FALSE, permTimer |-> FALSE,
     again |-> {},  \* history: the numbers given to a binding while another has them
     late |-> FALSE, used |-> {}, out |-> {}, data |-> [p \in Peers |-> <<>>]]

\* A transaction id nothing in use has: ids are random 96-bit numbers
FreeIds(t) == (1..MaxIds) \ (t.used \cup {s.id : s \in t.agent.sent})
FreshId(t) == CHOOSE i \in FreeIds(t) : TRUE

\* A request, finished by the agent and sent: [ok, t, msg], where msg is the
\* TURNMessage kept for retransmissions
Request(t, method, peer, channel, attrs) ==
    LET m == stun_agent_init_message(t.agent, "REQUEST", method, FreshId(t),
                                     attrs \cup {"USERNAME"})
        Sent(f, r) ==
          [ok |-> f.ok, msg |-> [req |-> r, left |-> MaxRetrans],
           t |-> IF ~f.ok THEN t
                 ELSE [t EXCEPT !.agent = f.agent, !.used = @ \cup {r.msg.id}, !.out = @ \cup {r}]]
        Finished(f) == Sent(f, [msg |-> f.msg, peer |-> peer, channel |-> channel])
    IN  Finished(stun_agent_finish_message(t.agent, m, t.key))

\* Data handed to the base socket
Emit(t, peer, items) == [t EXCEPT !.data[peer] = @ \o items]

-----------------------------------------------------------------------------
\* Channel bindings

\* Mutant: the retransmission timer is left to whoever scheduled it
ScheduleTick_bindonly(t) == [t EXCEPT !.tickBind = t.curmsg # None]

\* priv_schedule_tick, when no timer has run out: one timer per kind of
\* request, running while such a request is outstanding
ScheduleTick(t) == [t EXCEPT !.tickBind = t.curmsg # None, !.tickPerm = t.permmsgs # <<>>]

\* priv_send_turn_message: the request outstanding before is dropped, its
\* transaction is not forgotten
priv_send_turn_message(t, m) == ScheduleTick([t EXCEPT !.curmsg = m, !.late = FALSE])

\* priv_send_channel_bind: [ok, t]; realm says whether a realm and a nonce of
\* an answer are appended
priv_send_channel_bind(t, realm, channel, peer) ==
    LET Sent(r) == [ok |-> r.ok, t |-> IF r.ok THEN priv_send_turn_message(r.t, r.msg) ELSE t]
    IN  Sent(Request(t, "CHANNELBIND", peer, channel,
                     IF realm THEN {"REALM", "NONCE"} ELSE {}))

\* The search for a channel number in priv_add_channel_binding: after a match
\* it goes on with the next number from the second binding of the list
FreeChannel(channels) ==
    LET n == Len(channels)
        step[k \in Nat] ==
          IF k = 0 THEN [i |-> 1, c |-> Base]
          ELSE LET s == step[k - 1]
               IN  IF s.i > n THEN s
                   ELSE IF channels[s.i].channel = s.c THEN [i |-> 2, c |-> s.c + 1]
                   ELSE [s EXCEPT !.i = @ + 1]
    IN  step[(n + 1) * (n + 1)].c

\* {c} if a binding has the number c already
Taken(t, c) == {t.channels[i].channel : i \in 1..Len(t.channels)} \cap {c}

Binding(peer, channel) == [peer |-> peer, channel |-> channel, renew |-> FALSE, timer |-> "none"]

\* priv_add_channel_binding: [ok, t]; a request for a renewal that is
\* outstanding is replaced
priv_add_channel_binding(t, peer) ==
    LET Named(r, c) ==
          IF r.ok THEN [r EXCEPT !.t.cur = Binding(peer, c), !.t.again = @ \cup Taken(t, c)] ELSE r
        Bind(c) == Named(priv_send_channel_bind(t, FALSE, c, peer), c)
        Active(r) ==
          IF r.ok
          THEN [ok |-> TRUE,
                t |-> priv_send_turn_message([r.t EXCEPT !.cur = Binding(peer, 0)], r.msg)]
          ELSE [ok |-> FALSE, t |-> t]
    IN  CASE t.cur # None -> [ok |-> FALSE, t |-> [t EXCEPT !.pending = Append(@, peer)]]
          [] t.cur = None /\ Rfc(t) -> Bind(FreeChannel(t.channels))
          [] t.cur = None /\ t.compat \in {"MSN", "OC2007"} ->
                Active(Request(t, "OLD_SET_ACTIVE_DST", peer, 0, {"MAGIC_COOKIE", "DESTINATION"}))
          [] OTHER -> [ok |-> TRUE, t |-> [t EXCEPT !.cur = Binding(peer, 0)]]

\* priv_process_pending_bindings: the first pending binding that can be
\* requested is; without one a binding that is to be renewed
priv_process_pending_bindings(t) ==
    LET Try(s) ==
          IF s.ok THEN s
          ELSE [priv_add_channel_binding(s.t, Head(s.t.pending)) EXCEPT !.t.pending = Tail(@)]
        step[k \in 0..Len(t.pending)] ==
          IF k = 0 THEN [ok |-> FALSE, t |-> t] ELSE Try(step[k - 1])
        Renew(u, b) == priv_send_channel_bind(u, FALSE, b.channel, b.peer).t
        Finish(u, renew) ==
          IF u.pending = <<>> /\ u.curmsg = None /\ renew # {}
          THEN Renew(u, u.channels[CHOOSE i \in renew : \A j \in renew : i <= j])
          ELSE u
        Requested(u) == Finish(u, {i \in 1..Len(u.channels) : u.channels[i].renew})
    IN  Requested(step[Len(t.pending)].t)

\* The binding request is given up: priv_retransmissions_tick_unlocked when
\* its timer has run out for the last time
GiveUpBinding(t) ==
    priv_process_pending_bindings(
      [t EXCEPT !.agent = stun_agent_forget_transaction(@, t.curmsg.req.msg.id),
                !.cur = None, !.curmsg = None])

\* Mutant: retransmissions are not counted
Resent_forever(m) == m

\* A message after stun_timer_refresh asked for its retransmission
Resent(m) == [m EXCEPT !.left = @ - 1]

\* The binding request is sent again
ResendBinding(t) ==
    ScheduleTick([t EXCEPT !.curmsg = Resent(@), !.out = @ \cup {t.curmsg.req}])

\* priv_schedule_tick, called when the timer of a binding request may have run
\* out unnoticed (late)
LateTick(t) ==
    IF ~t.late \/ t.curmsg = None THEN ScheduleTick(t)
    ELSE IF t.curmsg.left > 0 THEN ResendBinding([t EXCEPT !.late = FALSE])
    ELSE ScheduleTick(GiveUpBinding([t EXCEPT !.late = FALSE]))

\* msn_google_lock: the current binding becomes the only one
msn_google_lock(t) ==
    IF t.cur = None THEN t
    ELSE priv_process_pending_bindings([t EXCEPT !.channels = <<t.cur>>, !.cur = None])

-----------------------------------------------------------------------------
\* Permissions and data

\* priv_send_create_permission; a peer stays registered when the request
\* cannot be made
priv_send_create_permission(t, realm, peer) ==
    LET u == [t EXCEPT !.sentperms = @ \cup {peer}]
        Sent(r) == IF r.ok THEN LateTick([r.t EXCEPT !.permmsgs = Append(@, r.msg)]) ELSE u
    IN  Sent(Request(u, "CREATEPERMISSION", peer, None,
                     IF realm THEN {"REALM", "NONCE"} ELSE {}))

\* A peer is permitted, or taken to be: socket_dequeue_all_data
Permitted(t, peer) ==
    [Emit(t, peer, t.queues[peer]) EXCEPT !.sentperms = @ \ {peer}, !.perms = @ \cup {peer},
                                          !.queues[peer] = <<>>]

\* Mutant: data is held back only until a permission was asked for
MustWait_asked(t, peer) ==
    t.compat = "RFC5766" /\ peer \notin t.perms /\ peer \notin t.sentperms

\* Data for a peer without a permission waits for it
MustWait(t, peer) == t.compat = "RFC5766" /\ peer \notin t.perms

Bound(t, peer) == \E i \in 1..Len(t.channels) : t.channels[i].peer = peer

\* socket_send_message, as far as it does not fail: without a binding the data
\* goes into a Send indication or request.  A request for which the agent has
\* no place left is passed to the base socket as it is, not relayed
socket_send_message(t, peer, n) ==
    LET Wrapped(r) ==
          Emit(IF r.ok THEN [r.t EXCEPT !.sendreqs = @ \cup {r.msg.req.msg.id}] ELSE t,
               peer, <<n>>)
        u == IF peer \in t.sentperms THEN t ELSE priv_send_create_permission(t, FALSE, peer)
    IN  CASE ~Rfc(t) /\ ~Bound(t, peer) ->
                Wrapped(Request(t, "SEND", peer, None, {"MAGIC_COOKIE", "DESTINATION", "DATA"}
                          \cup (IF t.compat = "GOOGLE" /\ t.cur # None /\ t.cur.peer = peer
                                THEN {"OPTIONS"} ELSE {})))
          [] (Rfc(t) \/ Bound(t, peer)) /\ MustWait(t, peer) ->
                [u EXCEPT !.queues[peer] = Append(@, n)]
          [] OTHER -> Emit(t, peer, <<n>>)

\* Mutant: the channel number is not compared
Lookup_first(t, channel) == IF t.channels = <<>> THEN None ELSE t.channels[1].peer

\* The binding a datagram of the server belongs to: of its channel number, or
\* without channel numbers the first one
Lookup(t, channel) ==
    LET match == {i \in 1..Len(t.channels) : ~Rfc(t) \/ t.channels[i].channel = channel}
    IN  IF match = {} THEN None
        ELSE t.channels[CHOOSE i \in match : \A j \in match : i <= j].peer

-----------------------------------------------------------------------------
\* Answers: nice_udp_turn_socket_parse_recv once the agent accepted a message

\* Is the request to be sent again, with the realm and nonce of the answer?
Unauthorized(req, m) ==
    m.code = 438 \/ (m.code = 401 /\ ~("REALM" \in m.attrs /\ "REALM" \in req.msg.attrs))

\* The answer to a Send request; Google's server may lock the binding with it
OnSend(t, m) ==
    LET u == [t EXCEPT !.sendreqs = @ \ {m.id}]
    IN  CASE m.class # "RESPONSE" -> t
          [] m.class = "RESPONSE" /\ t.compat = "GOOGLE" /\ "OPTIONS" \in m.attrs ->
                msn_google_lock(u)
          [] OTHER -> u

\* The answer to a Set Active Destination request
OnSetActive(t, m) ==
    LET u == [t EXCEPT !.curmsg = None]
    IN  CASE t.cur = None \/ t.curmsg = None -> t
          [] t.cur # None /\ t.curmsg # None ->
                IF t.curmsg.req.msg.id # m.id THEN t
                ELSE IF m.class = "RESPONSE" THEN msn_google_lock(u)
                ELSE [u EXCEPT !.cur = None]

\* A binding whose request succeeded: the timer for its renewal starts
Refreshed(b) == [b EXCEPT !.renew = FALSE, !.timer = "refresh"]

\* The answer to a ChannelBind request: of a new binding, which is then the
\* current one, or the renewal of the first with that peer
OnChannelBind(t, m) ==
    LET peer == t.curmsg.req.peer
        same == {i \in 1..Len(t.channels) : t.channels[i].peer = peer}
        i    == CHOOSE k \in same : \A j \in same : k <= j
        b    == IF t.cur # None THEN t.cur ELSE t.channels[i]
        u    == [t EXCEPT !.curmsg = None]
    IN  CASE m.class = "ERROR" /\ Unauthorized(t.curmsg.req, m) ->
                IF t.cur = None /\ same = {} THEN u
                ELSE priv_send_channel_bind(u, TRUE, b.channel, b.peer).t
          [] m.class = "RESPONSE" \/ (m.class = "ERROR" /\ ~Unauthorized(t.curmsg.req, m)) ->
                priv_process_pending_bindings(
                  IF m.class = "ERROR" THEN [u EXCEPT !.cur = None]
                  ELSE IF t.cur # None
                  THEN [u EXCEPT !.channels = Append(@, Refreshed(t.cur)), !.cur = None]
                  ELSE IF same # {} THEN [u EXCEPT !.channels[i] = Refreshed(@)] ELSE u)
          [] OTHER -> t

\* The answer to CreatePermission request i; an error counts as success
OnCreatePermission(t, i, m) ==
    LET req == t.permmsgs[i].req
        u   == [t EXCEPT !.permmsgs = SubSeq(@, 1, i - 1) \o SubSeq(@, i + 1, Len(@))]
    IN  IF m.class = "ERROR" /\ Unauthorized(req, m)
        THEN priv_send_create_permission(u, TRUE, req.peer)
        ELSE [Permitted(u, req.peer) EXCEPT !.permTimer = @ \/ m.class = "RESPONSE"]

\* A data indication: a peer that sends without a permission gets one
OnData(t, peer) ==
    IF t.compat = "RFC5766" /\ peer \notin t.perms \cup t.sentperms
    THEN priv_send_create_permission(t, FALSE, peer) ELSE t

\* nice_udp_turn_socket_parse_recv for a message of the server
parse_recv(t0, m, from) ==
    LET i == {k \in 1..Len(t0.permmsgs) : t0.permmsgs[k].req.msg.id = m.id}
        Dispatch(t, status) ==
          IF status # "SUCCESS" \/ (~Rfc(t) /\ "MAGIC_COOKIE" \notin m.attrs) THEN t
          ELSE CASE m.method = "SEND" -> OnSend(t, m)
                 [] m.method = "OLD_SET_ACTIVE_DST" -> OnSetActive(t, m)
                 [] m.method = "CHANNELBIND" ->
                       IF t.curmsg = None THEN t
                       ELSE IF t.curmsg.req.msg.id = m.id THEN OnChannelBind(t, m) ELSE t
                 [] m.method = "CREATEPERMISSION" ->
                       IF i = {} THEN t ELSE OnCreatePermission(t, CHOOSE k \in i : TRUE, m)
                 [] m.method = "IND_DATA" /\ m.class = "INDICATION" -> OnData(t, from)
                 [] OTHER -> t
        Validated(v) == Dispatch([t0 EXCEPT !.agent = v.agent], v.status)
    IN  Validated(stun_agent_validate(t0.agent, m, NoKey))

-----------------------------------------------------------------------------
\* Actions

Init ==
    /\ \E s \in Setups :
         /\ sock = NewSocket(s.compat)
         /\ budget = [data |-> s.data, peers |-> s.peers, errors |-> s.errors,
                      timers |-> s.timers, closes |-> s.closes, inds |-> s.inds,
                      who |-> s.who]
    /\ reqs = {} /\ replies = {} /\ older = {}
    /\ srv = [c \in Channels |-> None]
    /\ app = [p \in Peers |-> 0]
    /\ wire = [p \in Peers |-> <<>>]

\* The socket at the start of a call: ids in use elsewhere, and whether the
\* timer of the binding request has run out unnoticed
Enter(late) ==
    [sock EXCEPT !.late = late,
       !.used = {r.msg.id : r \in reqs} \cup {m.msg.id : m \in replies}
                \cup (IF sock.curmsg = None THEN {} ELSE {sock.curmsg.req.msg.id})
                \cup {sock.permmsgs[i].req.msg.id : i \in 1..Len(sock.permmsgs)} \cup sock.sendreqs]

Late == IF sock.curmsg = None \/ budget.timers = 0 THEN {FALSE} ELSE BOOLEAN

\* A call makes three requests at most
IdsLeft == Cardinality(FreeIds(Enter(FALSE))) >= 3

\* The end of a call
Leave(t) ==
    /\ IdsLeft
    /\ sock' = [t EXCEPT !.late = FALSE, !.used = {}, !.out = {},
                         !.data = [p \in Peers |-> <<>>]]
    /\ reqs' = reqs \cup t.out /\ older' = older \ t.out
    /\ wire' = [p \in Peers |-> wire[p] \o t.data[p]]

Spend(kind) == budget[kind] > 0 /\ budget' = [budget EXCEPT ![kind] = @ - 1]
SpendLate(late) == IF late THEN Spend("timers") ELSE UNCHANGED budget

\* nice_udp_turn_socket_set_peer, called when a relayed pair is selected
set_peer(p) ==
    /\ sock.open /\ Leave(priv_add_channel_binding(Enter(FALSE), p).t)
    /\ Spend("peers") /\ UNCHANGED <<replies, srv, app>>

\* socket_send_messages, of one datagram
send_message(p, late) ==
    /\ sock.open /\ app[p] < budget.data
    /\ Leave(socket_send_message(Enter(late), p, app[p] + 1))
    /\ app' = [app EXCEPT ![p] = @ + 1]
    /\ SpendLate(late) /\ UNCHANGED <<replies, srv>>

\* socket_recv_messages, of one datagram
recv_message(m, late) ==
    /\ sock.open /\ replies' = replies \ {m}
    /\ Leave(parse_recv(Enter(late), m.msg, m.from))
    /\ SpendLate(late) /\ UNCHANGED <<srv, app>>

\* priv_forget_send_request
priv_forget_send_request(id) ==
    /\ sock.open
    /\ Leave([Enter(FALSE) EXCEPT !.sendreqs = @ \ {id},
                                  !.agent = stun_agent_forget_transaction(@, id)])
    /\ UNCHANGED <<replies, srv, app, budget>>

\* priv_permission_timeout
priv_permission_timeout ==
    /\ sock.open /\ sock.permTimer
    /\ Leave([Enter(FALSE) EXCEPT !.perms = {}])
    /\ Spend("timers") /\ UNCHANGED <<replies, srv, app>>

\* priv_binding_timeout
priv_binding_timeout(i) ==
    LET b == sock.channels[i]
        t == [Enter(FALSE) EXCEPT !.channels[i].renew = TRUE, !.channels[i].timer = "expire"]
    IN  /\ sock.open /\ b.timer = "refresh"
        /\ Leave(IF t.curmsg = None THEN priv_send_channel_bind(t, FALSE, b.channel, b.peer).t
                 ELSE t)
        /\ Spend("timers") /\ UNCHANGED <<replies, srv, app>>

\* priv_binding_expired_timeout: a binding whose renewal is outstanding counts
\* as new
priv_binding_expired_timeout(i) ==
    LET b == sock.channels[i]
        t == [Enter(FALSE) EXCEPT !.channels = SubSeq(@, 1, i - 1) \o SubSeq(@, i + 1, Len(@))]
        renewing == t.cur = None /\ t.curmsg # None /\ t.curmsg.req.peer = b.peer
    IN  /\ sock.open /\ b.timer = "expire"
        /\ Leave(IF renewing THEN [t EXCEPT !.cur = [b EXCEPT !.timer = "none"]]
                 ELSE priv_add_channel_binding(t, b.peer).t)
        /\ Spend("timers") /\ UNCHANGED <<replies, srv, app>>

\* priv_retransmissions_tick: when the request is given up, the timer that is
\* destroyed is the one of the next request, if there is one
priv_retransmissions_tick ==
    /\ sock.open /\ sock.tickBind /\ sock.curmsg # None
    /\ Leave(IF sock.curmsg.left > 0 THEN ResendBinding(Enter(FALSE))
             ELSE [GiveUpBinding(Enter(FALSE)) EXCEPT !.tickBind = FALSE])
    /\ Spend("timers") /\ UNCHANGED <<replies, srv, app>>

\* priv_retransmissions_create_permission_tick, with request i due
create_permission_tick(i) ==
    LET m == sock.permmsgs[i]
        t == Enter(FALSE)
        u == [t EXCEPT !.permmsgs = SubSeq(@, 1, i - 1) \o SubSeq(@, i + 1, Len(@)),
                       !.agent = stun_agent_forget_transaction(@, m.req.msg.id)]
    IN  /\ sock.open /\ sock.tickPerm
        /\ Leave(ScheduleTick(IF m.left > 0
                              THEN [t EXCEPT !.permmsgs[i] = Resent(@), !.out = @ \cup {m.req}]
                              ELSE Permitted(u, m.req.peer)))
        /\ UNCHANGED <<replies, srv, app, budget>>

\* socket_close
socket_close ==
    /\ sock.open /\ Leave([NewSocket(sock.compat) EXCEPT !.open = FALSE])
    /\ Spend("closes") /\ UNCHANGED <<replies, srv, app>>

\* The ChannelBind requests of channel c
Binds(R, c) == {r \in R : r.msg.method = "CHANNELBIND" /\ r.channel = c}

\* The server answers a request; code 0 is success, for which a request of
\* RFC 5766 is signed and does not conflict with a channel bound already.  An
\* error may answer any request, 401 one without a realm
Answer(r, code) ==
    LET ok   == ~Rfc(sock) \/ (r.msg.mac = Key
                  /\ (r.msg.method = "CHANNELBIND" =>
                        /\ srv[r.channel] \in {None, r.peer}
                        /\ \A c \in Channels : srv[c] = r.peer => c = r.channel))
        bound == code = 0 /\ r.msg.method = "CHANNELBIND"
        a    == stun_agent_init_reply(sock.agent, r.msg,
                  (r.msg.attrs \cap {"MAGIC_COOKIE", "OPTIONS"})
                  \cup (IF code \in {401, 438} THEN {"REALM", "NONCE"} ELSE {}), code)
        f    == stun_agent_finish_message(sock.agent,
                  [a EXCEPT !.attrs = @ \cup (r.msg.attrs \cap {"USERNAME", "REALM"})], r.msg.mac)
    IN  /\ IF code = 0 THEN ok ELSE code = 401 => "REALM" \notin r.msg.attrs
        /\ replies' = replies \cup {[msg |-> IF code \in {401, 438} THEN a ELSE f.msg, from |-> r.peer]}
        /\ reqs' = reqs \ {r}
        /\ srv' = IF bound THEN [srv EXCEPT ![r.channel] = r.peer] ELSE srv
        /\ older' = (IF bound THEN older \cup Binds(reqs, r.channel) ELSE older) \ {r}
        /\ IF code \in {0, 401} THEN UNCHANGED budget ELSE Spend("errors")
        /\ UNCHANGED <<sock, app, wire>>

\* A channel binding of the server lapses, 600 seconds after the request that
\* made or renewed it: the socket, which counts 540 and 60 seconds from the
\* answer, may still have its own, or may have asked for another.  A datagram
\* does not live that long, so the requests sent before it are gone
Lapse(c) ==
    /\ srv[c] # None
    /\ srv' = [srv EXCEPT ![c] = None]
    /\ reqs' = reqs \ Binds(older, c) /\ older' = older \ Binds(older, c)
    /\ Spend("timers") /\ UNCHANGED <<sock, replies, app, wire>>

\* A peer sends data, which the server relays in an indication
PeerSends(p) ==
    LET m == stun_agent_init_message(sock.agent, "INDICATION", "IND_DATA", 0, {"DATA", "MAGIC_COOKIE"})
    IN  /\ replies' = replies \cup {[msg |-> m, from |-> p]}
        /\ Spend("inds") /\ UNCHANGED <<sock, reqs, srv, older, app, wire>>

Next ==
    \/ \E p \in budget.who : set_peer(p) \/ PeerSends(p)
    \/ \E p \in budget.who, late \in Late : send_message(p, late)
    \/ \E m \in replies, late \in Late : recv_message(m, late)
    \/ \E id \in sock.sendreqs : priv_forget_send_request(id)
    \/ priv_permission_timeout
    \/ \E i \in 1..Len(sock.channels) : priv_binding_timeout(i) \/ priv_binding_expired_timeout(i)
    \/ priv_retransmissions_tick
    \/ \E i \in 1..Len(sock.permmsgs) : create_permission_tick(i)
    \/ socket_close
    \/ \E r \in reqs, code \in {0, 401, 438, 403} : Answer(r, code)
    \/ \E c \in Channels : Lapse(c)

\* The main loop dispatches the timer of the permission requests
Fairness == WF_vars(\E i \in 1..Len(sock.permmsgs) : create_permission_tick(i))

Spec == Init /\ [][Next]_vars /\ Fairness

-----------------------------------------------------------------------------
\* Properties

\* Data leaves in the order it was sent, none lost and none twice: what was
\* handed to the base socket and what still waits for a permission are
\* together what was accepted
DataInOrder == \A p \in Peers :
    sock.open => wire[p] \o sock.queues[p] = [i \in 1..app[p] |-> i]

\* Part of WorkTimed.  Data waits only while a request for its permission is outstanding and the
\* timer that resends or gives up that request is running
WaitsForRequest == \A p \in Peers :
    sock.queues[p] # <<>> =>
      /\ \E i \in 1..Len(sock.permmsgs) : sock.permmsgs[i].req.peer = p
      /\ sock.tickPerm

\* No slot of the agent's table of 200 transactions leaks, and no answer is
\* refused that is waited for: a permission or Send request that the table
\* remembers is outstanding, and one for a permission that is outstanding is
\* remembered.  An error answer to a Send request frees its slot and leaves the
\* socket's entry until the entry's timer, which then has nothing to free
\* (udp-turn.c:1178, 1210)
TransactionsOwned ==
    LET perm == {sock.permmsgs[i].req.msg.id : i \in 1..Len(sock.permmsgs)}
        remembered == {s.id : s \in {x \in sock.agent.sent : x.method \in {"CREATEPERMISSION", "SEND"}}}
    IN  perm \subseteq remembered /\ remembered \subseteq perm \cup sock.sendreqs

\* Part of WorkTimed.  Every channel binding has a timer that renews or removes it, also after the
\* answer to its renewal raced with its expiry
BindingsTimed == Rfc(sock) =>
    \A i \in 1..Len(sock.channels) :
      sock.channels[i].timer = IF sock.channels[i].renew THEN "expire" ELSE "refresh"

\* Whatever the socket waits for has a running timer: data that waits for a
\* permission, and a binding that is to be renewed or removed, through answers
\* that race with the timers.
WorkTimed == WaitsForRequest /\ BindingsTimed

\* Data the server sends on a channel is taken for data of the peer the server
\* has bound to the channel, or of none while the answer is on its way, also
\* when the server's binding ends or is made anew before the socket's.  This
\* does not hold of a number that the search for a free one has given to two
\* bindings (udp-turn.c:1979-1988)
Attribution == Rfc(sock) =>
    \A c \in Channels \ sock.again : srv[c] # None => Lookup(sock, c) \in {srv[c], None}

\* Data that waits is sent in the end, whatever the server answers
DataLeaves == \A p \in Peers : sock.queues[p] # <<>> ~> sock.queues[p] = <<>>

=============================================================================
