----------------------------- MODULE Gathering -----------------------------
(***************************************************************************)
(* Gathering local candidates: nice_agent_gather_candidates, the discovery *)
(* items it queues for STUN and TURN servers and the timer that runs them  *)
(* (discovery.c), UPnP port mappings, the answers of the servers and the   *)
(* refreshes that keep TURN allocations alive (conncheck.c).               *)
(*                                                                         *)
(* The agent is one record, changed by operators named after the functions *)
(* of the code; an action is one call, callback or message, made under the *)
(* agent's lock.  Each stream has one component on one local address.      *)
(* Servers answer in any order or never; an answer counts only once, for   *)
(* the transaction that the item's own STUN agent remembers.               *)
(***************************************************************************)
EXTENDS Integers, SequencesExt, FiniteSets, Lists

CONSTANTS
    Streams,       \* stream ids
    Servers,       \* TURN servers that may be added after gathering began
    Unusable,      \* TURN servers no socket can be made for
    Lifetimes,     \* lifetimes of allocations, in seconds
    Word,          \* values of a guint, 2^32 in the code
    MaxRetrans,    \* retransmissions of a request
    Setups,        \* explored together: records of compat, streams (those
                   \* added), stun (a STUN server is set), upnp, tcp, relay
                   \* (stream -> TURN servers set before gathering) and
                   \* bounds on kinds of events
    None

VARIABLES
    agent,         \* the agent
    budget         \* what may still happen, by kind of event

vars == <<agent, budget>>

\* Servers grant a minute at least: the code subtracts it without a check
ASSUME LifetimesAssumption == Word \in Nat /\ Lifetimes \subseteq 60..(Word - 1)
ASSUME RetransAssumption == MaxRetrans \in Nat
ASSUME SetupsAssumption ==
    \A setup \in Setups :
        /\ setup.stun \in BOOLEAN /\ setup.upnp \in BOOLEAN /\ setup.tcp \in BOOLEAN
        /\ \A s \in Streams : IsFiniteSet(setup.relay[s])

Spend(kind) == budget[kind] > 0 /\ budget' = [budget EXCEPT ![kind] = @ - 1]

-----------------------------------------------------------------------------
\* The agent

NewStream(alive, relay) ==
    [alive |-> alive, gathering |-> FALSE, started |-> FALSE, servers |-> relay,
     cands |-> {}, selected |-> None, kept |-> None]

NewAgent(setup) ==
    [compat |-> setup.compat, stun |-> setup.stun, tcp |-> setup.tcp,
     streams |-> [s \in Streams |-> NewStream(s \in setup.streams, setup.relay[s])],
     disc |-> <<>>, unsched |-> 0, timer |-> FALSE, bad |-> FALSE,
     upnp |-> IF setup.upnp THEN "enabled" ELSE "disabled",
     upnpTimer |-> FALSE, mapping |-> {}, ports |-> {},
     refreshes |-> <<>>, allocs |-> {}, foundations |-> 1, uids |-> 1]

Init ==
    \E setup \in Setups :
        agent = NewAgent(setup) /\ budget = setup.bounds

\* Local candidates

Cands(g) == UNION {g.streams[s].cands : s \in {t \in Streams : g.streams[t].alive}}

\* Mutant: the stream does not count
Kin_nostream(g, c) ==
    {n \in Cands(g) :
        /\ c.type = n.type /\ c.transport = n.transport
        /\ c.type = "RELAYED" => c.turn = n.turn
        /\ ~(g.compat = "GOOGLE" /\ n.type = "RELAYED")}

\* The candidates that give their foundation to c.  All bases are on the one
\* local address.
Kin(g, c) ==
    {n \in Cands(g) :
        /\ c.type = n.type /\ c.transport = n.transport /\ c.stream = n.stream
        /\ c.type = "RELAYED" => c.turn = n.turn
        /\ ~(g.compat = "GOOGLE" /\ n.type = "RELAYED")}

priv_assign_foundation(g, c) ==
    IF Kin(g, c) # {}
    THEN [g |-> g, c |-> [c EXCEPT !.foundation = (CHOOSE n \in Kin(g, c) : TRUE).foundation]]
    ELSE [g |-> [g EXCEPT !.foundations = @ + 1],
          c |-> [c EXCEPT !.foundation = g.foundations]]

\* Whether c adds nothing to the candidates of its component
Redundant(g, c) ==
    \E n \in g.streams[c.stream].cands :
        n.base = c.base /\ n.addr = c.addr /\ n.transport = c.transport

\* The candidate with its foundation, added unless it is redundant:
\* [ok, g, c]
AddCandidate(g, type, s, transport, addr, turn) ==
    LET r == priv_assign_foundation(g,
                 [type |-> type, stream |-> s, transport |-> transport,
                  base |-> <<s, transport>>, addr |-> addr, turn |-> turn,
                  foundation |-> 0])
        ok == ~Redundant(g, r.c)
    IN  [ok |-> ok, c |-> r.c,
         g |-> IF ok THEN [r.g EXCEPT !.streams[s].cands = @ \cup {r.c}] ELSE r.g]

HostAddr(s) == <<"host", s>>
MappedAddr(s) == <<"mapped", s>>
RelayAddr(uid) == <<"relay", uid>>

discovery_add_local_host_candidate(g, s, transport) ==
    AddCandidate(g, "HOST", s, transport, HostAddr(s), None).g

discovery_add_server_reflexive_candidate(g, s, transport, addr) ==
    AddCandidate(g, "SERVER_REFLEXIVE", s, transport, addr, None).g

discovery_discover_tcp_server_reflexive_candidates(g, s, addr) ==
    LET add(h, transport) ==
            IF \E c \in g.streams[s].cands : c.type = "HOST" /\ c.transport = transport
            THEN discovery_add_server_reflexive_candidate(h, s, transport, addr)
            ELSE h
    IN  add(add(g, "TCP_ACTIVE"), "TCP_PASSIVE")

discovery_add_relay_candidate(g, s, uid, turn) ==
    AddCandidate(g, "RELAYED", s, "UDP", RelayAddr(uid), turn)

-----------------------------------------------------------------------------
\* The end of gathering

agent_signal_gathering_done(g) ==
    [g EXCEPT !.streams = [s \in Streams |->
        IF g.streams[s].alive THEN [g.streams[s] EXCEPT !.gathering = FALSE]
        ELSE g.streams[s]]]

\* Mutant: only UPnP is waited for
agent_gathering_done_upnp(g) ==
    IF ~g.upnpTimer THEN agent_signal_gathering_done(g) ELSE g

agent_gathering_done(g) ==
    IF ~g.timer /\ ~g.upnpTimer THEN agent_signal_gathering_done(g) ELSE g

-----------------------------------------------------------------------------
\* Discovery items

\* An item is done, waits to be sent (not pending) or for an answer to the
\* message msg (0 for none) that its agent remembers in sent.  realm holds
\* when an earlier answer gave the realm, asked when msg carries it.
Discovery(uid, s, type, turn) ==
    [uid |-> uid, stream |-> s, type |-> type, turn |-> turn, pending |-> FALSE,
     done |-> FALSE, msg |-> 0, sent |-> {}, left |-> 0, realm |-> FALSE, asked |-> FALSE]

AddDiscovery(g, s, type, turn) ==
    [g EXCEPT !.disc = Append(@, Discovery(g.uids, s, type, turn)),
              !.unsched = @ + 1, !.uids = @ + 1]

priv_add_new_candidate_discovery_stun(g, s) == AddDiscovery(g, s, "SERVER_REFLEXIVE", None)

\* A TURN server is asked from the UDP host candidate: from the TCP_ACTIVE one
\* this function returns early, except for TURN-TCP servers in OC2007 mode,
\* which are not modelled.  One that refuses the TCP connection is passed over
priv_add_new_candidate_discovery_turn(g, s, turn) ==
    IF turn \in Unusable THEN g ELSE AddDiscovery(g, s, "RELAYED", turn)

discovery_free(g) == [g EXCEPT !.disc = <<>>, !.unsched = 0, !.timer = FALSE]

\* Mutant: the removal of one stream drops the items of all
discovery_prune_stream_all(g, s) == discovery_free(g)

\* The discovery list of the agent
ItemsOf(g) == {g.disc[i] : i \in DOMAIN g.disc}

\* Mutant: the timer goes on with an empty list
discovery_prune_stream_keep(g, s) ==
    [g EXCEPT !.disc = Keep(@, {it \in ItemsOf(g) : it.stream # s})]

discovery_prune_stream(g, s) ==
    LET rest == Keep(g.disc, {it \in ItemsOf(g) : it.stream # s})
    IN  IF rest = <<>> THEN discovery_free(g) ELSE [g EXCEPT !.disc = rest]

FreshId(it) == CHOOSE i \in 1..2 : i \notin it.sent \cup {it.msg}

\* A request on its way: stun_usage_bind_create or stun_usage_turn_create
Send(it) ==
    LET id == FreshId(it)
    IN  [it EXCEPT !.msg = id, !.sent = @ \cup {id}, !.left = MaxRetrans, !.asked = it.realm]

Forget(it) == [it EXCEPT !.msg = 0, !.sent = @ \ {it.msg}]

\* What one tick does to an item; expired tells whether its timer ran out
Visit(it, expired) ==
    CASE ~it.pending -> Send([it EXCEPT !.pending = TRUE])
      [] it.pending /\ ~it.done /\ it.msg = 0 -> [it EXCEPT !.done = TRUE]
      [] it.pending /\ ~it.done /\ it.msg # 0 /\ expired ->
            IF it.left = 0 THEN [Forget(it) EXCEPT !.done = TRUE]
                           ELSE [it EXCEPT !.left = @ - 1]
      [] OTHER -> it

\* [more, g], where more says that the timer goes on
priv_discovery_tick_unlocked(g, expired) ==
    LET list == [i \in DOMAIN g.disc |-> Visit(g.disc[i], i \in expired)]
        fresh == Cardinality({i \in DOMAIN g.disc : ~g.disc[i].pending})
        h == [g EXCEPT !.disc = list, !.unsched = IF fresh > @ THEN 0 ELSE @ - fresh]
        more == \E i \in DOMAIN list : ~list[i].done
    IN  [more |-> more,
         g |-> IF more THEN h ELSE agent_gathering_done(discovery_free(h))]

discovery_schedule(g) ==
    LET r == priv_discovery_tick_unlocked(g, {})
        h == IF g.unsched > 0 /\ ~g.timer
             THEN (IF r.more THEN [r.g EXCEPT !.timer = TRUE] ELSE r.g)
             ELSE g
    IN  [h EXCEPT !.bad = @ \/ g.disc = <<>>]

\* The timer's callback.  The expired items are those whose deadline passed
priv_discovery_tick(expired) ==
    /\ agent.timer
    /\ agent' = priv_discovery_tick_unlocked(agent, expired).g
    /\ UNCHANGED budget

-----------------------------------------------------------------------------
\* TURN refreshes

\* The refresh timer, one minute before the allocation expires
Delay(lifetime) == (((lifetime - 60) % Word) * 1000) % Word
priv_add_new_turn_refresh(g, it, cand, lifetime) ==
    [g EXCEPT !.refreshes = Append(@,
        [stream |-> it.stream, cand |-> cand, msg |-> 0, sent |-> it.sent, left |-> 0,
         realm |-> it.realm, asked |-> FALSE, lifetime |-> lifetime,
         timer |-> TRUE, delay |-> Delay(lifetime), tick |-> FALSE])]

\* The refresh list of the agent
RefreshesOf(g) == {g.refreshes[i] : i \in DOMAIN g.refreshes}

\* refresh_free_item: the server is asked to drop the allocation
FreeRefreshes(g, gone) ==
    [g EXCEPT !.refreshes = Keep(@, RefreshesOf(g) \ gone),
              !.allocs = @ \ {r.cand.addr : r \in gone}]

refresh_prune_stream(g, s) == FreeRefreshes(g, {r \in RefreshesOf(g) : r.stream = s})

\* Mutant: the refresh of a removed candidate goes on
refresh_prune_candidate_none(g, c) == g

refresh_prune_candidate(g, c) == FreeRefreshes(g, {r \in RefreshesOf(g) : r.cand = c})
refresh_cancel(g, r) == FreeRefreshes(g, {r})

\* priv_turn_allocate_refresh_tick_unlocked
SendRefresh(r) == [Send(r) EXCEPT !.tick = TRUE]

\* The refresh timer fires
priv_turn_allocate_refresh_tick(i) ==
    /\ i \in DOMAIN agent.refreshes /\ agent.refreshes[i].timer
    /\ Spend("refresh")
    /\ agent' = [agent EXCEPT !.refreshes[i] = SendRefresh([@ EXCEPT !.timer = FALSE])]

\* The retransmission timer of a refresh fires
priv_turn_allocate_refresh_retransmissions_tick(i) ==
    /\ i \in DOMAIN agent.refreshes /\ agent.refreshes[i].tick
    /\ LET r == agent.refreshes[i]
       IN  agent' = IF r.left = 0
                    THEN refresh_cancel([agent EXCEPT !.refreshes[i] = Forget(r)], Forget(r))
                    ELSE [agent EXCEPT !.refreshes[i].left = @ - 1]
    /\ UNCHANGED budget

-----------------------------------------------------------------------------
\* Answers of the servers

\* What is left of an item that found its answer
Finish(it) == [it EXCEPT !.msg = 0, !.done = TRUE]

\* The agent of item i accepts an answer to its message
Accept(g, i) == [g EXCEPT !.disc[i].sent = @ \ {g.disc[i].msg}]

Awaits(it) == it.msg # 0 /\ it.msg \in it.sent

\* priv_map_reply_to_discovery_request: the answer names an alternate server,
\* gives the mapped address, is an error, or is not understood
DiscoveryReply(i, res) ==
    /\ i \in DOMAIN agent.disc /\ agent.disc[i].type = "SERVER_REFLEXIVE"
    /\ Awaits(agent.disc[i])
    /\ IF res \in {"ALTERNATE_SERVER", "INVALID"} THEN Spend("again") ELSE UNCHANGED budget
    /\ LET g == Accept(agent, i)
           it == g.disc[i]
           s == it.stream
           Tcp(h, addr) ==
               IF g.tcp THEN discovery_discover_tcp_server_reflexive_candidates(h, s, addr) ELSE h
           srflx(addr) ==
               [Tcp(discovery_add_server_reflexive_candidate(g, s, "UDP", addr), addr)
                   EXCEPT !.disc[i] = Finish(it)]
       IN  agent' = CASE res = "ALTERNATE_SERVER" -> [g EXCEPT !.disc[i].pending = FALSE]
                      [] res \in {"MAPPED", "HOST"} ->
                            srflx(IF res = "MAPPED" THEN MappedAddr(s) ELSE HostAddr(s))
                      [] res = "ERROR" -> [g EXCEPT !.disc[i] = Finish(it)]
                      [] res = "INVALID" -> g

DiscoveryResults == {"ALTERNATE_SERVER", "MAPPED", "HOST", "ERROR", "INVALID"}

\* Whether an error answer asks for the request again, with a realm: 438, or
\* 401 for a realm the request did not carry
AskedAgain(g, it, res) ==
    /\ g.compat \in {"RFC5245", "OC2007"}
    /\ res = "STALE_NONCE" \/ (res = "UNAUTHORIZED" /\ ~it.asked)

\* priv_map_reply_to_relay_request
RelayReply(i, res, lifetime) ==
    /\ i \in DOMAIN agent.disc /\ agent.disc[i].type = "RELAYED"
    /\ Awaits(agent.disc[i])
    /\ IF res \in {"ALTERNATE_SERVER", "STALE_NONCE", "INVALID"} THEN Spend("again")
                                                                ELSE UNCHANGED budget
    /\ LET g == Accept(agent, i)
           it == g.disc[i]
           s == it.stream
           mapped == IF res = "RELAY_SUCCESS" THEN g
                     ELSE discovery_add_server_reflexive_candidate(g, s, "UDP", MappedAddr(s))
           Tcp(h) == IF res = "MAPPED_SUCCESS" /\ g.tcp
                     THEN discovery_discover_tcp_server_reflexive_candidates(h, s, MappedAddr(s))
                     ELSE h
           Kept(relay) ==
               IF ~relay.ok \/ g.compat = "OC2007" THEN relay.g
               ELSE [priv_add_new_turn_refresh(relay.g, it, relay.c, lifetime)
                        EXCEPT !.allocs = @ \cup {RelayAddr(it.uid)}]
       IN  agent' = CASE res = "ALTERNATE_SERVER" -> [g EXCEPT !.disc[i].pending = FALSE]
                      [] res \in {"RELAY_SUCCESS", "MAPPED_SUCCESS"} ->
                            [Kept(discovery_add_relay_candidate(Tcp(mapped), s, it.uid, it.turn))
                                EXCEPT !.disc[i] = Finish(it)]
                      [] res \in {"ERROR", "UNAUTHORIZED", "STALE_NONCE"} ->
                            IF AskedAgain(g, it, res)
                            THEN [g EXCEPT !.disc[i].realm = TRUE, !.disc[i].pending = FALSE]
                            ELSE [g EXCEPT !.disc[i] = Finish(it)]
                      [] res = "INVALID" -> g

RelayResults == {"ALTERNATE_SERVER", "RELAY_SUCCESS", "MAPPED_SUCCESS", "ERROR",
                 "UNAUTHORIZED", "STALE_NONCE", "INVALID"}

\* The state of a refresh whose request succeeded
Refreshed(r, lifetime) ==
    [r EXCEPT !.timer = TRUE, !.delay = Delay(lifetime), !.lifetime = lifetime, !.tick = FALSE]

\* priv_map_reply_to_relay_refresh
RefreshReply(i, res, lifetime) ==
    /\ i \in DOMAIN agent.refreshes /\ Awaits(agent.refreshes[i])
    /\ IF res \in {"STALE_NONCE", "INVALID"} THEN Spend("again") ELSE UNCHANGED budget
    /\ LET r == [agent.refreshes[i] EXCEPT !.sent = @ \ {agent.refreshes[i].msg}]
           g == [agent EXCEPT !.refreshes[i] = r]
       IN  agent' = CASE res = "RELAY_SUCCESS" ->
                            [g EXCEPT !.refreshes[i] = Refreshed(r, lifetime)]
                      [] res \in {"ERROR", "UNAUTHORIZED", "STALE_NONCE"} ->
                            IF g.compat = "RFC5245" /\ AskedAgain(g, r, res)
                            THEN [g EXCEPT !.refreshes[i] =
                                     SendRefresh([r EXCEPT !.realm = TRUE])]
                            ELSE refresh_cancel(g, r)
                      [] res = "INVALID" -> g

RefreshResults == {"RELAY_SUCCESS", "ERROR", "UNAUTHORIZED", "STALE_NONCE", "INVALID"}

-----------------------------------------------------------------------------
\* UPnP

agent_check_upnp_gathering_done(g) ==
    IF g.mapping # {} THEN g
    ELSE agent_gathering_done([g EXCEPT !.upnpTimer = FALSE])

priv_upnp_timeout_cb ==
    /\ agent.upnpTimer
    /\ agent' = agent_check_upnp_gathering_done([agent EXCEPT !.mapping = {}])
    /\ UNCHANGED budget

\* The router reports a port, perhaps again and after the timeout
_upnp_mapped_external_port(port) ==
    /\ port \in agent.ports
    /\ Spend("upnp")
    /\ LET g == [agent EXCEPT !.mapping = @ \ {port}]
           added == IF \E c \in Cands(g) : c.base = port
                    THEN discovery_add_server_reflexive_candidate(
                             g, port[1], port[2], MappedAddr(port[1]))
                    ELSE g
       IN  agent' = agent_check_upnp_gathering_done(IF agent.upnpTimer THEN added ELSE agent)

_upnp_error_mapping_port(port) ==
    /\ port \in agent.ports
    /\ Spend("upnp")
    /\ agent' = agent_check_upnp_gathering_done([agent EXCEPT !.mapping = @ \ {port}])

priv_stop_upnp(g) ==
    IF g.upnp = "created" THEN [g EXCEPT !.mapping = {}, !.upnpTimer = FALSE] ELSE g

-----------------------------------------------------------------------------
\* The application's calls

StartUpnp(g) ==
    IF g.upnp = "enabled" THEN [g EXCEPT !.upnp = "created", !.upnpTimer = TRUE] ELSE g

\* The TURN servers of a stream, each with an item
AddTurns(g, s, servers) ==
    LET order == SetToSeq(servers)
        add[n \in 0..Cardinality(servers)] ==
            IF n = 0 THEN g
            ELSE priv_add_new_candidate_discovery_turn(add[n - 1], s, order[n])
    IN  add[Cardinality(servers)]

\* A host candidate, its UPnP port and, for UDP, the discoveries that start
\* from it (the call for a TCP_ACTIVE one adds none, see above)
AddHost(g, s, transport) ==
    LET ports == IF g.upnp = "created" /\ transport # "TCP_ACTIVE" THEN {<<s, transport>>} ELSE {}
        Mapped(h) == [h EXCEPT !.mapping = @ \cup ports, !.ports = @ \cup ports]
        Asked(h) == IF h.stun THEN priv_add_new_candidate_discovery_stun(h, s) ELSE h
        Discovered(h) ==
            IF transport = "UDP" THEN AddTurns(Asked(h), s, h.streams[s].servers) ELSE h
    IN  Discovered(Mapped(discovery_add_local_host_candidate(g, s, transport)))

\* The first n host candidates, in the order of their transports
AddHosts(g, s, n) ==
    LET order == <<"UDP", "TCP_ACTIVE", "TCP_PASSIVE">>
        add[i \in 0..n] == IF i = 0 THEN g ELSE AddHost(add[i - 1], s, order[i])
    IN  add[n]

Transports(g) == IF g.tcp THEN 3 ELSE 1

CanGather(s) == agent.streams[s].alive /\ ~agent.streams[s].started

\* nice_agent_gather_candidates
nice_agent_gather_candidates(s) ==
    /\ CanGather(s)
    /\ \E g \in {[AddHosts(StartUpnp(agent), s, Transports(agent)) EXCEPT
                   !.streams[s].gathering = TRUE, !.streams[s].started = TRUE]} :
          agent' = CASE g.unsched = 0 /\ g.mapping = {} -> agent_gathering_done(g)
                     [] g.unsched > 0 -> discovery_schedule(g)
                     [] OTHER -> g
    /\ UNCHANGED budget

\* ... when the socket of a host candidate cannot be made after n of them
GatherFails(s, n) ==
    /\ CanGather(s)
    /\ n < Transports(agent)
    /\ Spend("fail")
    /\ LET g == priv_stop_upnp(AddHosts(StartUpnp(agent), s, n))
       IN  agent' = discovery_prune_stream(
                        [g EXCEPT !.streams[s].cands = {},
                                  !.ports = {p \in @ : p[1] # s}], s)

nice_agent_set_relay_info(s, turn) ==
    /\ agent.streams[s].alive /\ turn \notin agent.streams[s].servers
    /\ Spend("relay")
    /\ LET g == [agent EXCEPT !.streams[s].servers = @ \cup {turn}]
           h == priv_add_new_candidate_discovery_turn(
                    [g EXCEPT !.streams[s].gathering = TRUE], s, turn)
       IN  agent' = IF ~g.streams[s].started THEN g
                    ELSE IF h.unsched > 0 THEN discovery_schedule(h) ELSE h

\* component_clean_turn_servers, called by nice_agent_forget_relays: the
\* selected relayed candidate stays alive outside the list
nice_agent_forget_relays(s) ==
    /\ agent.streams[s].alive
    /\ Spend("forget")
    /\ LET st == agent.streams[s]
           relayed == {c \in st.cands : c.type = "RELAYED"}
           kept == relayed \cap {st.selected}
           gone == (relayed \ kept) \cup (IF kept # {} THEN {st.kept} ELSE {})
           g == FreeRefreshes(agent, {r \in RefreshesOf(agent) : r.cand \in gone})
       IN  agent' = [g EXCEPT !.streams[s].servers = {}, !.streams[s].cands = @ \ relayed,
                              !.streams[s].kept = IF kept # {} THEN st.selected ELSE @]

\* The connectivity checks select a pair with the local candidate c
component_update_selected_pair(s, c) ==
    /\ agent.streams[s].alive /\ c \in agent.streams[s].cands
    /\ c # agent.streams[s].selected
    /\ Spend("select")
    /\ LET st == agent.streams[s]
           drop == st.selected # None /\ st.selected = st.kept
           g == IF drop THEN refresh_prune_candidate(agent, st.kept) ELSE agent
       IN  agent' = [g EXCEPT !.streams[s].selected = c,
                              !.streams[s].kept = IF drop THEN None ELSE @]

nice_agent_remove_stream(s) ==
    /\ agent.streams[s].alive
    /\ Spend("remove")
    /\ LET g == refresh_prune_stream(discovery_prune_stream(agent, s), s)
       IN  agent' = [g EXCEPT !.ports = {p \in @ : p[1] # s},
                              !.streams[s] = NewStream(FALSE, {})]

-----------------------------------------------------------------------------
TickAll == priv_discovery_tick(DOMAIN agent.disc)

Next ==
    \/ \E expired \in SUBSET DOMAIN agent.disc : priv_discovery_tick(expired)
    \/ \E i \in DOMAIN agent.disc, res \in DiscoveryResults : DiscoveryReply(i, res)
    \/ \E i \in DOMAIN agent.disc, res \in RelayResults, l \in Lifetimes :
          RelayReply(i, res, l)
    \/ \E i \in DOMAIN agent.refreshes :
          \/ priv_turn_allocate_refresh_tick(i)
          \/ priv_turn_allocate_refresh_retransmissions_tick(i)
          \/ \E res \in RefreshResults, l \in Lifetimes : RefreshReply(i, res, l)
    \/ priv_upnp_timeout_cb
    \/ \E port \in agent.ports :
          _upnp_mapped_external_port(port) \/ _upnp_error_mapping_port(port)
    \/ \E s \in Streams :
          \/ nice_agent_gather_candidates(s)
          \/ \E n \in 0..2 : GatherFails(s, n)
          \/ \E turn \in Servers : nice_agent_set_relay_info(s, turn)
          \/ nice_agent_forget_relays(s)
          \/ \E c \in agent.streams[s].cands : component_update_selected_pair(s, c)
          \/ nice_agent_remove_stream(s)

\* The main loop runs the timers: a deadline that passed is seen by a later tick
Fairness == WF_vars(TickAll) /\ WF_vars(priv_upnp_timeout_cb)

Spec == Init /\ [][Next]_vars /\ Fairness

-----------------------------------------------------------------------------
\* Properties

Items == ItemsOf(agent)
Refreshes == RefreshesOf(agent)

\* Between calls, work is queued exactly while the discovery timer runs, so
\* that no item is left without a tick; the count of unscheduled items, which
\* pruning does not lower, never outlives the list, and discovery_schedule
\* always meets its assertion (discovery.c:1210).
ItemsScheduled ==
    /\ agent.timer <=> agent.disc # <<>>
    /\ agent.unsched > 0 => agent.disc # <<>>
    /\ ~agent.bad

\* Gathering-done is never signalled for a stream that still has an unanswered
\* discovery or, before the timeout, a port mapping the router may confirm
\* (agent.c:1924, agent.c:1934).
DoneAfterItems ==
    [][\A s \in Streams :
         (agent.streams[s].gathering /\ agent'.streams[s].alive /\ ~agent'.streams[s].gathering)
         => /\ \A i \in DOMAIN agent'.disc : agent'.disc[i].stream # s
            /\ ~agent'.upnpTimer]_vars

\* Part of RefreshesKept.  An allocation that is still wanted is always about to be refreshed: its
\* timer is set to fire before the allocation expires, or a refresh is on the
\* way and its retransmissions are timed (conncheck.c:2592, conncheck.c:853).
RefreshTimed ==
    \A r \in Refreshes :
        \/ r.timer /\ r.delay < r.lifetime * 1000
        \/ r.tick /\ r.msg # 0

\* Allocations are refreshed in time exactly as long as they are wanted.  A
\* refresh never outlives what it points to, and the server is asked to drop
\* every allocation that is no longer refreshed: after removal of a stream,
\* after nice_agent_forget_relays, whether the candidate is selected or not,
\* and after the selection moves on (discovery.c:158, component.c:167).
RefreshesKept ==
    /\ RefreshTimed
    /\ \A r \in Refreshes :
          LET st == agent.streams[r.stream]
          IN  st.alive /\ r.cand \in st.cands \cup {st.kept}
    /\ agent.allocs = {r.cand.addr : r \in Refreshes}
    /\ \A it \in Items : agent.streams[it.stream].alive

\* Candidates have the same foundation exactly when they have type, transport,
\* stream and server in common, whatever was added, pruned or removed in
\* between; Google relays each have their own (discovery.c:380).
FoundationsMatch ==
    \A c, d \in Cands(agent) :
        c # d =>
            (c.foundation = d.foundation <=>
                /\ c.type = d.type /\ c.transport = d.transport /\ c.stream = d.stream
                /\ c.turn = d.turn
                /\ ~(agent.compat = "GOOGLE" /\ c.type = "RELAYED"))

\* Every gathering ends: "Once done, candidate-gathering-done is called for
\* the stream" (agent.h:544).
GatheringEnds ==
    \A s \in Streams : agent.streams[s].gathering ~> ~agent.streams[s].gathering
=============================================================================
