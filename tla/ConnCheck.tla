------------------------------ MODULE ConnCheck ------------------------------
(***************************************************************************)
(* The connectivity checks of one ICE agent (agent/conncheck.c), RFC 5245  *)
(* compatibility, UDP candidates: the check list of every stream, the      *)
(* pacing timer, triggered checks, nomination, role conflicts, peer        *)
(* reflexive candidates, early checks, and the component states they set.  *)
(*                                                                         *)
(* The agent lock makes every callback atomic, so a callback is one        *)
(* action.  The callbacks call the same helpers in many orders; a helper   *)
(* is an operator from the agent (a record) to the agent, named after the  *)
(* C function.  The peer and the network are the environment: requests may *)
(* come from any address on any socket at any time, responses come to      *)
(* outstanding transactions only (StunAgent refuses the others) and carry  *)
(* any mapped address or error, or never come.                             *)
(***************************************************************************)
EXTENDS Integers, Sequences, FiniteSets, SequencesExt, Lists

CONSTANTS
    NStreams,         \* streams of the agent, 1..NStreams
    StreamOf,         \* component -> its stream; components are 1..n
    LocalCands,       \* component -> sequence of local candidates at the start
    RemoteBatches,    \* component -> candidate lists the application may set
    PrflxLocalPrio,   \* priority of a local peer reflexive candidate
    PrflxRemotePrio,  \* PRIORITY attribute of inbound checks
    PrioBase,         \* stands for 2^32 in the pair priority
    MaxConnChecks,    \* agent->max_conn_checks
    MaxPending,       \* NICE_AGENT_MAX_REMOTE_CANDIDATES (early checks kept)
    MaxRetransmissions, \* STUN_TIMER_DEFAULT_MAX_RETRANSMISSIONS
    InitialControlling, \* values of the controlling-mode property
    Setups            \* environments, one of which a behaviour is in: the late
                      \* local candidates of each component, the addresses inbound
                      \* checks may come from, the mapped addresses responses may
                      \* carry, and a bound on each kind of event

Streams == 1..NStreams
Components == DOMAIN StreamOf
StreamSeq == [s \in Streams |-> s]
ComponentSeq == [c \in Components |-> c]

\* Names of hosts, sockets and networks; "none" is that of no candidate.  An
\* address is <<ip, port>>, a foundation <<type, ip>>.
Names == STRING \cup {"none"}
CandidateTypes == {"host", "srflx", "prflx", "relayed", "none"}
Addrs == Names \X Nat
Foundations == CandidateTypes \X Names
Candidates == [type : CandidateTypes, addr : Addrs, sock : Names, net : Names, prio : Nat,
               found : Foundations]
Environments ==
    [late : [Components -> SUBSET Candidates], requests : SUBSET Addrs,
     mapped : [Components -> SUBSET Addrs],
     request : Nat, set : Nat, conflict : Nat, restart : Nat, select : Nat]

ASSUME StreamAssumption ==
    /\ NStreams \in Nat \ {0}
    /\ StreamOf \in Seq(Streams)
\* 2*p + 1 < 2^32 for every candidate priority, as for 31-bit priorities
ASSUME PriorityAssumption ==
    /\ {PrflxLocalPrio, PrflxRemotePrio} \subseteq Nat \ {0} /\ PrioBase \in Nat
    /\ 2 * PrflxLocalPrio + 1 < PrioBase /\ 2 * PrflxRemotePrio + 1 < PrioBase
\* The application signals no peer reflexive candidates: new ones are refused
\* (priv_add_remote_candidate), but an update of a known one is not.
ASSUME CandidatesAssumption ==
    /\ LocalCands \in [Components -> Seq(Candidates)]
    /\ \A c \in Components : \A batch \in RemoteBatches[c] :
          /\ batch \in Seq(Candidates)
          /\ \A d \in ToSet(batch) : d.type # "prflx"
ASSUME SetupsAssumption == Setups \subseteq Environments /\ InitialControlling \subseteq BOOLEAN

VARIABLES
    agent,    \* the NiceAgent, its streams, check lists and components
    budget    \* the environment, with the events still allowed

vars == <<agent, budget>>

CheckStates == {"WAITING", "IN_PROGRESS", "SUCCEEDED", "FAILED", "FROZEN",
                "CANCELLED", "DISCOVERED"}
ComponentStates == {"DISCONNECTED", "GATHERING", "CONNECTING", "CONNECTED",
                    "READY", "FAILED"}
NoAddr == <<"none", 0>>
NoCandidate == [type |-> "none", addr |-> NoAddr, sock |-> "none", net |-> "none",
                prio |-> 0, found |-> <<"none", "none">>]
NoPair == [local |-> NoCandidate, remote |-> NoAddr, prio |-> 0]

-----------------------------------------------------------------------------
(* Candidates and pairs.  A remote candidate is known by its address, which *)
(* is unique in its component; a pair refers to it by that address, as the  *)
(* code does by pointer, so an update of the candidate is seen by the pair. *)

Remote(a, c, addr) ==
    LET rs == a.comp[c].remotes
    IN  rs[SelectInSeq(rs, LAMBDA r : r.addr = addr)]

KnownRemote(a, c, addr) == \E r \in ToSet(a.comp[c].remotes) : r.addr = addr

nice_candidate_pair_priority(o, e) ==
    PrioBase * Min({o, e}) + 2 * Max({o, e}) + (IF o > e THEN 1 ELSE 0)

agent_candidate_pair_priority(a, local, remote) ==
    IF a.controlling THEN nice_candidate_pair_priority(local.prio, remote.prio)
                     ELSE nice_candidate_pair_priority(remote.prio, local.prio)

\* A valid pair, in the sense of the valid list of the ICE specification
Valid(p) == p.state \in {"SUCCEEDED", "DISCOVERED"}
ValidNominated(p) == Valid(p) /\ p.nominated

\* The check list pairs of a component, by position
PairsOf(a, c) == {i \in DOMAIN a.list[StreamOf[c]] :
                    a.list[StreamOf[c]][i].comp = c}
Pair(a, c, i) == a.list[StreamOf[c]][i]

WithPair(a, s, i, p) == [a EXCEPT !.list[s][i] = p]
SetState(a, s, i, st) == WithPair(a, s, i, [a.list[s][i] EXCEPT !.state = st])

\* The loops over a check list and over the components.  Appending the empty
\* sequence changes nothing; TLC then keeps a tuple of values, not a function
\* it evaluates anew at every use.
ForEachPair(a, s, F(_, _)) ==
    [a EXCEPT !.list[s] = [i \in DOMAIN @ |-> F(i, @[i])] \o <<>>]
ForEachComponent(a, F(_, _)) ==
    [a EXCEPT !.comp = [c \in Components |-> F(c, @[c])] \o <<>>]

agent_signal_component_state_change(a, c, st) == [a EXCEPT !.comp[c].state = st]

-----------------------------------------------------------------------------
(* Sending and scheduling checks                                            *)

\* conn_check_send: without remote credentials nothing is sent and the
\* transaction buffer stays empty; a controlling agent nominates every pair it
\* sends a check on
conn_check_send(a, p) ==
    [p EXCEPT !.nominated = a.controlling \/ @,
              !.buf = a.creds[StreamOf[p.comp]],
              !.retransmissions = 0]

priv_conn_check_initiate(a, p) ==
    conn_check_send(a, [p EXCEPT !.state = "IN_PROGRESS"])

InState(a, s, st) == {i \in DOMAIN a.list[s] : a.list[s][i].state = st}
StreamsWith(a, st) == {s \in Streams : InState(a, s, st) # {}}

\* The highest priority FROZEN pair of the first stream that has one
priv_conn_check_unfreeze_next(a) ==
    IF StreamsWith(a, "FROZEN") = {} THEN a
    ELSE LET s == Min(StreamsWith(a, "FROZEN"))
             best == {i \in InState(a, s, "FROZEN") :
                        \A j \in InState(a, s, "FROZEN") :
                           a.list[s][i].prio >= a.list[s][j].prio}
         IN  SetState(a, s, Min(best), "WAITING")

\* Step (2) of the C function loops over the check list of the stream of the
\* successful check, so it meets no pair of another stream and does nothing.
priv_conn_check_unfreeze_related(a, s, i) ==
    LET related == {j \in InState(a, s, "FROZEN") :
                      a.list[s][j].found = a.list[s][i].found}
    IN  IF related = {} THEN priv_conn_check_unfreeze_next(a)
        ELSE ForEachPair(a, s, LAMBDA j, p :
                IF j \in related THEN [p EXCEPT !.state = "WAITING"] ELSE p)

\* Mutant: the STUN context of a failed pair stays
pair_fail_keeps_context(p) == [p EXCEPT !.state = "FAILED"]

candidate_check_pair_fail(p) == [p EXCEPT !.state = "FAILED", !.buf = FALSE]

-----------------------------------------------------------------------------
(* The selected pair and the component state                                *)

\* component_find_pair: the first local and the first remote candidate with
\* the foundations of the pair
component_find_pair(a, c, lfound, rfound) ==
    LET ls == a.comp[c].locals
        rs == a.comp[c].remotes
        l == ls[SelectInSeq(ls, LAMBDA x : x.found = lfound)]
        r == rs[SelectInSeq(rs, LAMBDA x : x.found = rfound)]
    IN  [local |-> l, remote |-> r.addr,
         prio |-> agent_candidate_pair_priority(a, l, r)]

\* Mutant: any nominated pair replaces the selected one
update_selected_any_priority(a, c, p) ==
    [a EXCEPT !.comp[c].selected =
        component_find_pair(a, c, p.local.found, Remote(a, c, p.remote).found)]

priv_update_selected_pair(a, c, p) ==
    IF p.prio > a.comp[c].selected.prio
    THEN [a EXCEPT !.comp[c].selected =
            component_find_pair(a, c, p.local.found,
                                Remote(a, c, p.remote).found)]
    ELSE a

\* priv_prune_pending_checks: its effect on one pair of the component, with
\* the highest priority of the nominated valid pairs
HighestNominated(a, c) ==
    Max({0} \cup {Pair(a, c, i).prio :
                    i \in {j \in PairsOf(a, c) : ValidNominated(Pair(a, c, j))}})

PrunePending(p, highest) ==
    CASE p.state \in {"FROZEN", "WAITING"} -> [p EXCEPT !.state = "CANCELLED"]
      [] p.state = "IN_PROGRESS" /\ highest # 0 /\ p.prio < highest ->
            [p EXCEPT !.state = "CANCELLED", !.buf = FALSE]
      [] OTHER -> p

priv_prune_pending_checks(a, c) ==
    ForEachPair(a, StreamOf[c], LAMBDA i, p :
        IF p.comp = c THEN PrunePending(p, HighestNominated(a, c)) ELSE p)

\* Mutant: the checks still in progress after the pruning are not counted
ready_with_checks_in_progress(a, c) ==
    IF \E i \in PairsOf(a, c) : ValidNominated(Pair(a, c, i))
    THEN agent_signal_component_state_change(priv_prune_pending_checks(a, c), c, "READY")
    ELSE a

priv_update_check_list_state_for_ready(a, c) ==
    IF \E i \in PairsOf(a, c) : ValidNominated(Pair(a, c, i))
    THEN LET a1 == priv_prune_pending_checks(a, c)
         IN  IF \E i \in PairsOf(a1, c) : Pair(a1, c, i).state = "IN_PROGRESS"
             THEN a1
             ELSE agent_signal_component_state_change(a1, c, "READY")
    ELSE a

\* A component fails when every pair in its list has (CANCELLED pairs are in
\* the list and have not), it has remote candidates and no discovery is under
\* way
priv_update_check_list_failed_components(a, s) ==
    IF a.discovering THEN a
    ELSE ForEachComponent(a, LAMBDA c, component :
            IF /\ StreamOf[c] = s
               /\ \A i \in PairsOf(a, c) : Pair(a, c, i).state = "FAILED"
               /\ component.remotes # <<>>
            THEN [component EXCEPT !.state = "FAILED"]
            ELSE component)

\* Mutant: a pair that has not been answered yet is selected too
mark_nominated_selects_unanswered(a, c, remote) ==
    LET s == StreamOf[c]
        match == {i \in PairsOf(a, c) : Pair(a, c, i).remote = remote}
        a1 == ForEachPair(a, s, LAMBDA i, p :
                 IF i \in match THEN [p EXCEPT !.nominated = TRUE] ELSE p)
        ok == Keep(a1.list[s], {p \in ToSet(a1.list[s]) : p.comp = c /\ p.remote = remote})
        a2 == Loop(LAMBDA x, p : priv_update_selected_pair(x, c, p), a1, ok)
    IN  IF match = {} THEN a ELSE priv_update_check_list_state_for_ready(a2, c)

\* All the pairs with the remote candidate become nominated
priv_mark_pair_nominated(a, c, remote) ==
    LET s == StreamOf[c]
        match == {i \in PairsOf(a, c) : Pair(a, c, i).remote = remote}
        a1 == ForEachPair(a, s, LAMBDA i, p :
                 IF i \in match THEN [p EXCEPT !.nominated = TRUE] ELSE p)
        ok == Keep(a1.list[s], {p \in ToSet(a1.list[s]) : /\ p.comp = c
                                                           /\ p.remote = remote
                                                           /\ Valid(p)})
        a2 == Loop(LAMBDA x, p : priv_update_selected_pair(x, c, p), a1, ok)
    IN  IF match = {} THEN a ELSE priv_update_check_list_state_for_ready(a2, c)

-----------------------------------------------------------------------------
(* Adding pairs                                                             *)

\* g_slist_insert_sorted with conn_check_compare: before the first element
\* that does not have a higher priority
InsertSorted(list, p) ==
    LET k == SelectInSeq(list, LAMBDA q : q.prio <= p.prio)
    IN  InsertAt(list, IF k = 0 THEN Len(list) + 1 ELSE k, p)

\* Cancels what lies beyond the first MaxConnChecks live pairs
priv_limit_conn_check_list_size(a, s) ==
    LET valid(i) == {j \in 1..i : a.list[s][j].state # "CANCELLED"}
    IN  ForEachPair(a, s, LAMBDA i, p :
            IF Cardinality(valid(i)) > MaxConnChecks
            THEN [p EXCEPT !.state = "CANCELLED"] ELSE p)

NewPair(a, c, local, remote, sock, state, nominated) ==
    [comp |-> c, local |-> local, remote |-> remote.addr, sock |-> sock,
     found |-> <<local.found, remote.found>>,
     prio |-> agent_candidate_pair_priority(a, local, remote),
     state |-> state, nominated |-> nominated, controlling |-> a.controlling,
     restarted |-> FALSE, buf |-> FALSE, retransmissions |-> 0]

priv_add_new_check_pair(a, c, local, remote, state, use_candidate) ==
    LET sock == IF remote.type = "prflx" THEN remote.sock ELSE local.sock
        p == NewPair(a, c, local, remote, sock, state, use_candidate)
    IN  priv_limit_conn_check_list_size(
            [a EXCEPT !.list[StreamOf[c]] = InsertSorted(@, p)], StreamOf[c])

\* conn_check_add_for_candidate_pair with ..._pair_matched: no pair for a
\* server reflexive local candidate or another transport or address family
conn_check_add_for_candidate_pair(a, c, local, remote) ==
    IF local.type = "srflx" \/ local.net # remote.net THEN a
    ELSE agent_signal_component_state_change(
            priv_add_new_check_pair(a, c, local, remote, "FROZEN", FALSE), c,
            IF a.comp[c].state \in {"CONNECTED", "READY"} THEN "CONNECTED"
                                                          ELSE "CONNECTING")

conn_check_add_for_candidate(a, c, remote) ==
    Loop(LAMBDA x, l : conn_check_add_for_candidate_pair(x, c, l, remote),
         a, a.comp[c].locals)

conn_check_add_for_local_candidate(a, c, local) ==
    Loop(LAMBDA x, r : conn_check_add_for_candidate_pair(x, c, local, r),
         a, a.comp[c].remotes)

\* priv_add_local_candidate_pruned: a candidate with the socket and address of
\* a known one is redundant
Redundant(a, c, cand) ==
    \E l \in ToSet(a.comp[c].locals) : l.sock = cand.sock /\ l.addr = cand.addr

priv_add_local_candidate_pruned(a, c, cand) ==
    IF Redundant(a, c, cand) THEN a
    ELSE conn_check_add_for_local_candidate(
            [a EXCEPT !.comp[c].locals = Append(@, cand)], c, cand)

\* Foundations follow the type and the base IP address; a learned remote
\* candidate shares the foundation of a peer reflexive one with the same IP
PrflxFoundation(addr) == <<"prflx", addr[1]>>

\* The address of a socket is that of the host or relayed candidate on it,
\* which comes before the reflexive ones
SocketAddr(a, c, sock) ==
    LET ls == a.comp[c].locals
    IN  ls[SelectInSeq(ls, LAMBDA l : l.sock = sock)].addr

discovery_learn_remote_peer_reflexive_candidate(a, c, from, sock, net) ==
    [a EXCEPT !.comp[c].remotes = Append(@,
        [type |-> "prflx", addr |-> from, sock |-> sock, net |-> net,
         prio |-> PrflxRemotePrio, found |-> PrflxFoundation(from)])]

-----------------------------------------------------------------------------
(* Triggered checks and roles                                               *)

priv_schedule_triggered_check(a, c, sock, remote, use_candidate) ==
    LET s == StreamOf[c]
        i == SelectInSeq(a.list[s], LAMBDA p : /\ p.comp = c
                                               /\ p.remote = remote
                                               /\ p.local.sock = sock)
        p == a.list[s][i]
        ls == a.comp[c].locals
        l == SelectInSeq(ls, LAMBDA x : x.sock = sock)
        ready == priv_update_check_list_state_for_ready(a, c)
    IN  CASE i = 0 /\ l = 0 -> a
          [] i = 0 /\ l # 0 ->
                priv_add_new_check_pair(a, c, ls[l], Remote(a, c, remote),
                                        "WAITING", use_candidate)
          [] i # 0 /\ p.state \in {"WAITING", "FROZEN", "FAILED"} ->
                WithPair(a, s, i, priv_conn_check_initiate(a, p))
          [] i # 0 /\ p.state = "IN_PROGRESS" ->
                IF p.restarted THEN a
                ELSE WithPair(a, s, i, [p EXCEPT !.retransmissions = 0, !.restarted = TRUE])
          [] i # 0 /\ Valid(p) ->
                IF a.controlling
                THEN WithPair(ready, s, i,
                              priv_conn_check_initiate(ready, ready.list[s][i]))
                ELSE ready
          [] OTHER -> a                                          \* CANCELLED

\* The positions of the pairs in the list stay what they were
priv_recalculate_pair_priorities(a) ==
    LET recalculate(p) == [p EXCEPT !.prio = agent_candidate_pair_priority(
                              a, p.local, Remote(a, p.comp, p.remote))]
    IN  [a EXCEPT !.list = [s \in Streams |->
                               [i \in DOMAIN @[s] |-> recalculate(@[s][i])] \o <<>>]]

priv_check_for_role_conflict(a, control) ==
    IF control = a.controlling THEN a
    ELSE priv_recalculate_pair_priorities([a EXCEPT !.controlling = control])

-----------------------------------------------------------------------------
(* Inbound requests                                                         *)

\* The case of conn_check_handle_inbound_stun and of the early checks where a
\* remote candidate is learned and paired
LearnAndPair(a, c, from, sock) ==
    LET ls == a.comp[c].locals
        l == SelectInSeq(ls, LAMBDA x : x.sock = sock)
        a1 == discovery_learn_remote_peer_reflexive_candidate(
                 a, c, from, sock, ls[l].net)
    IN  conn_check_add_for_candidate(a1, c, Remote(a1, c, from))

priv_reply_to_conn_check(a, c, sock, remote, use_candidate) ==
    LET a1 == priv_schedule_triggered_check(a, c, sock, remote, use_candidate)
    IN  IF use_candidate THEN priv_mark_pair_nominated(a1, c, remote) ELSE a1

\* A check that comes before the remote candidates is kept, up to a limit
priv_store_pending_check(a, c, icheck) ==
    IF Len(a.comp[c].incoming) >= MaxPending THEN a
    ELSE [a EXCEPT !.comp[c].incoming = Append(@, icheck)]

\* conn_check_handle_inbound_stun for an authenticated request.  switch: the
\* request claims our role and has the larger tie-breaker (a conflict the
\* agent wins is answered with an error and then handled like any request).
HandleRequest(a, c, sock, from, use, switch) ==
    LET a1 == IF switch THEN priv_check_for_role_conflict(a, ~a.controlling) ELSE a
        use_candidate == use \/ a1.controlling
        a2 == IF a1.comp[c].remotes # <<>> /\ ~KnownRemote(a1, c, from)
              THEN LearnAndPair(a1, c, from, sock)
              ELSE a1
    IN  IF a1.comp[c].remotes = <<>>
        THEN priv_store_pending_check(a1, c, [from |-> from, sock |-> sock,
                                              use |-> use_candidate])
        ELSE priv_reply_to_conn_check(a2, c, sock, from, use_candidate)

-----------------------------------------------------------------------------
(* Remote candidates set by the application, and early checks               *)

\* priv_preprocess_conn_check_pending_data, for the pair p
PreprocessCheck(a, c, p, ic) ==
    IF ic.from = p.remote /\ ic.sock = p.sock
    THEN priv_schedule_triggered_check(
            IF ic.use THEN priv_mark_pair_nominated(a, c, p.remote) ELSE a,
            c, ic.sock, p.remote, ic.use)
    ELSE a

Preprocess(a, c, p) ==
    Loop(LAMBDA x, ic : PreprocessCheck(x, c, p, ic), a, a.comp[c].incoming)

\* One early check from an address that may be unknown; once one of them came
\* from a known address, match stays set for the ones that follow
EarlyCheck(st, c, ic) ==
    LET match == st.match \/ KnownRemote(st.a, c, ic.from)
        a1 == LearnAndPair(st.a, c, ic.from, ic.sock)
        a2 == IF ic.use THEN priv_mark_pair_nominated(a1, c, ic.from) ELSE a1
    IN  [match |-> match,
         a |-> IF match THEN st.a
               ELSE priv_schedule_triggered_check(a2, c, ic.sock, ic.from, ic.use)]

prune_cancelled_conn_check(list) ==
    Keep(list, {p \in ToSet(list) : p.state # "CANCELLED"})

\* conn_check_remote_candidates_set: the early checks of a component are used
\* for the first pair of the component in the list, then freed, so the rest of
\* the loop over the list finds none
UseEarlyChecks(a, c) ==
    IF PairsOf(a, c) = {} THEN a
    ELSE LET first == Pair(a, c, Min(PairsOf(a, c)))
             a1 == Preprocess(a, c, first)
             st == Loop(LAMBDA x, ic : EarlyCheck(x, c, ic),
                        [a |-> a1, match |-> FALSE], a1.comp[c].incoming)
         IN  [st.a EXCEPT !.comp[c].incoming = <<>>]

conn_check_remote_candidates_set(a) ==
    [Loop(UseEarlyChecks, a, ComponentSeq) EXCEPT
        !.list = [s \in Streams |-> prune_cancelled_conn_check(@[s])]]

\* priv_add_remote_candidate: a known address updates the candidate in place;
\* in both cases pairs are added for it
priv_add_remote_candidate(a, c, d) ==
    LET k == SelectInSeq(a.comp[c].remotes, LAMBDA r : r.addr = d.addr)
        a1 == IF k # 0
              THEN [a EXCEPT !.comp[c].remotes[k] =
                      [@ EXCEPT !.type = d.type, !.prio = d.prio, !.found = d.found]]
              ELSE [a EXCEPT !.comp[c].remotes = Append(@, d)]
    IN  conn_check_add_for_candidate(a1, c, Remote(a1, c, d.addr))

-----------------------------------------------------------------------------
(* The pacing timer                                                         *)

\* Mutant: a check that could not be sent is left in progress
tick_pair_ignores_unsent(p, due) ==
    CASE p.state = "IN_PROGRESS" /\ p.buf /\ due /\ p.retransmissions >= MaxRetransmissions ->
            candidate_check_pair_fail(p)
      [] p.state = "IN_PROGRESS" /\ p.buf /\ due /\ p.retransmissions < MaxRetransmissions ->
            [p EXCEPT !.retransmissions = @ + 1]
      [] OTHER -> p

\* priv_conn_check_tick_stream on one pair.  due: the next_tick of the pair and
\* its STUN timer have expired (see StunTimer for when that is)
TickPair(p, due) ==
    CASE p.state = "IN_PROGRESS" /\ ~p.buf -> [p EXCEPT !.state = "FAILED"]
      [] p.state = "IN_PROGRESS" /\ p.buf /\ due /\ p.retransmissions >= MaxRetransmissions ->
            candidate_check_pair_fail(p)
      [] p.state = "IN_PROGRESS" /\ p.buf /\ due /\ p.retransmissions < MaxRetransmissions ->
            [p EXCEPT !.retransmissions = @ + 1]
      [] OTHER -> p

NComponents(s) == Cardinality({c \in Components : StreamOf[c] = s})

\* The counts of nominated and of valid but not nominated pairs are over the
\* whole stream
WaitsForNomination(a, s) ==
    LET L == a.list[s]
    IN  /\ Cardinality({i \in DOMAIN L : ValidNominated(L[i])}) < NComponents(s)
        /\ \E i \in DOMAIN L : Valid(L[i]) /\ ~L[i].nominated

\* A controlling agent checks the first valid pair of every component again
NominateFirstValid(a, s) ==
    LET first(i, p) == \A j \in 1..(i - 1) :
                          ~(a.list[s][j].comp = p.comp /\ Valid(a.list[s][j]))
    IN  ForEachPair(a, s, LAMBDA i, p :
            IF Valid(p) /\ first(i, p)
            THEN priv_conn_check_initiate(a, [p EXCEPT !.nominated = TRUE])
            ELSE p)

\* The state of the agent and whether to keep the timer going
priv_conn_check_tick_stream(st, s, due) ==
    LET a1 == ForEachPair(st.a, s, LAMBDA i, p : TickPair(p, <<s, i>> \in due))
        wait == WaitsForNomination(a1, s)
    IN  [a |-> IF wait /\ a1.controlling THEN NominateFirstValid(a1, s) ELSE a1,
         keep |-> st.keep \/ wait \/ InState(a1, s, "IN_PROGRESS") # {}]

FirstWaiting(a, s) == SelectInSeq(a.list[s], LAMBDA p : p.state = "WAITING")

SendNextCheck(a) ==
    LET W == StreamsWith(a, "WAITING")
        s == Min(W)
        i == FirstWaiting(a, s)
    IN  IF W # {}
        THEN [a |-> WithPair(a, s, i, priv_conn_check_initiate(a, a.list[s][i])),
              keep |-> TRUE]
        ELSE [a |-> priv_conn_check_unfreeze_next(a),
              keep |-> StreamsWith(a, "FROZEN") # {}]

\* Mutant: the component states are not decided when the timer stops
conclude_only_stops(a) == [a EXCEPT !.timer = FALSE]

\* The end of the checks: failed and ready components, then no timer
Conclude(a) ==
    LET a1 == Loop(priv_update_check_list_failed_components, a, StreamSeq)
        a2 == Loop(priv_update_check_list_state_for_ready, a1, ComponentSeq)
    IN  [a2 EXCEPT !.timer = FALSE]

\* The agent after a tick and whether the timer keeps going
priv_conn_check_tick_unlocked(a, due) ==
    LET st == Loop(LAMBDA x, s : priv_conn_check_tick_stream(x, s, due),
                   SendNextCheck(a), StreamSeq)
    IN  IF st.keep THEN st ELSE [st EXCEPT !.a = Conclude(@)]

conn_check_schedule_next(a, due) ==
    LET st == priv_conn_check_tick_unlocked(priv_conn_check_unfreeze_next(a), due)
    IN  [st.a EXCEPT !.timer = st.keep \/ @]

\* The in-progress checks whose retransmission timer may have run out
Pending(a) ==
    UNION {{<<s, i>> : i \in {j \in InState(a, s, "IN_PROGRESS") : a.list[s][j].buf}} :
             s \in Streams}

-----------------------------------------------------------------------------
(* Responses                                                                *)

\* A response whose mapped address is that of a local candidate: the pair
\* succeeds; the result is the pair of that candidate, if there is one
MappedKnown(a, s, i, cand) ==
    LET p == a.list[s][i]
        k == SelectInSeq(a.list[s], LAMBDA q : q.comp = p.comp /\ q.local = cand
                                               /\ q.remote = p.remote)
    IN  [a |-> priv_conn_check_unfreeze_related(SetState(a, s, i, "SUCCEEDED"), s, i),
         ok |-> IF k = 0 THEN i ELSE k]

\* An unknown mapped address: a local peer reflexive candidate is added (with
\* pairs for all the remote candidates), the pair fails, and a discovered pair
\* is added.  The pairs that were in the list keep their order; the added ones
\* are those of the new candidate.
MappedUnknown(a, s, i, mapped) ==
    LET p == a.list[s][i]
        cand == [type |-> "prflx", addr |-> mapped, sock |-> p.sock,
                 net |-> p.local.net, prio |-> PrflxLocalPrio,
                 found |-> PrflxFoundation(SocketAddr(a, p.comp, p.sock))]
        a1 == priv_add_local_candidate_pruned(a, p.comp, cand)
        old(L) == {j \in DOMAIN L : <<L[j].comp, L[j].local>> # <<p.comp, cand>>}
        j == CHOOSE j \in old(a1.list[s]) :
                Cardinality({k \in old(a1.list[s]) : k <= j}) = i
        a2 == SetState(a1, s, j, "FAILED")
        d == NewPair(a2, p.comp, cand, Remote(a2, p.comp, p.remote), cand.sock,
                     "DISCOVERED", FALSE)
        a3 == [a2 EXCEPT !.list[s] = InsertSorted(@, d)]
    IN  [a |-> a3,
         ok |-> SelectInSeq(a3.list[s], LAMBDA q : q = d)]

priv_process_response_check_for_peer_reflexive(a, s, i, mapped) ==
    LET p == a.list[s][i]
        k == SelectInSeq(a.comp[p.comp].locals, LAMBDA l : l.addr = mapped)
    IN  IF k # 0 THEN MappedKnown(a, s, i, a.comp[p.comp].locals[k])
                 ELSE MappedUnknown(a, s, i, mapped)

\* After a success: st.ok is the pair whose nominated flag counts
FinishSuccess(st, s, c) ==
    LET ok == st.a.list[s][st.ok]
        a1 == priv_update_selected_pair(st.a, c, ok)
        a2 == IF a1.comp[c].state = "READY" THEN a1
              ELSE agent_signal_component_state_change(a1, c, "CONNECTED")
    IN  priv_update_check_list_state_for_ready(
            IF ok.nominated THEN a2 ELSE st.a, c)

\* priv_map_reply_to_conn_check_request, the outcomes of a matched response.
\* The transaction ends in all of them, and the cancelled pairs go.
Responses(c) ==
    [kind : {"mapped"}, mapped : budget.mapped[c]] \cup
    [kind : {"wrong_source", "no_mapped_address", "role_conflict", "error"},
     mapped : {NoAddr}]

HandleResponse(a, s, i, resp) ==
    LET p == a.list[s][i]
        a0 == WithPair(a, s, i, [p EXCEPT !.buf = FALSE])
        done == SetState(a0, s, i, "SUCCEEDED")
        a1 == CASE resp.kind = "wrong_source" -> SetState(a0, s, i, "FAILED")
                [] resp.kind = "no_mapped_address" ->
                      FinishSuccess([a |-> priv_conn_check_unfreeze_related(done, s, i),
                                     ok |-> i], s, p.comp)
                [] resp.kind = "role_conflict" ->
                      SetState(priv_check_for_role_conflict(a0, ~p.controlling), s, i,
                               "WAITING")
                [] resp.kind = "error" -> a0
                [] resp.kind = "mapped" ->
                      FinishSuccess(priv_process_response_check_for_peer_reflexive(
                                        a0, s, i, resp.mapped), s, p.comp)
    IN  [a1 EXCEPT !.list[s] = prune_cancelled_conn_check(@)]

-----------------------------------------------------------------------------
(* Actions                                                                  *)

Init ==
    /\ budget \in Setups
    /\ \E control \in InitialControlling :
         agent = [controlling |-> control,
                  timer |-> FALSE,
                  discovering |-> \E c \in Components : budget.late[c] # {},
                  creds |-> [s \in Streams |-> FALSE],
                  list |-> [s \in Streams |-> <<>>],
                  comp |-> [c \in Components |->
                              [state |-> "GATHERING", locals |-> LocalCands[c],
                               remotes |-> <<>>, incoming |-> <<>>,
                               selected |-> NoPair]]]

Spend(kind) == /\ budget[kind] > 0
               /\ budget' = [budget EXCEPT ![kind] = @ - 1]

\* nice_agent_set_remote_credentials
SetRemoteCredentials(s) ==
    /\ ~agent.creds[s]
    /\ agent' = [agent EXCEPT !.creds[s] = TRUE]
    /\ UNCHANGED budget

\* nice_agent_set_remote_candidates
SetRemoteCandidates(c) ==
    /\ Spend("set")
    /\ \E batch \in RemoteBatches[c] :
         LET a1 == Loop(LAMBDA x, d : priv_add_remote_candidate(x, c, d), agent, batch)
             a2 == conn_check_remote_candidates_set(a1)
         IN  \E due \in SUBSET Pending(a2) :
               agent' = IF batch = <<>> THEN a2 ELSE conn_check_schedule_next(a2, due)

\* A server reflexive or relayed candidate is found while gathering
GatherLocalCandidate(c) ==
    /\ agent.discovering
    /\ \E cand \in budget.late[c] :
         /\ ~Contains(agent.comp[c].locals, cand)
         /\ agent' = priv_add_local_candidate_pruned(agent, c, cand)
    /\ UNCHANGED budget

\* agent_gathering_done, with the discovery list empty: pairs that are missing
\* are added, nothing is scheduled
Unpaired(a, c, l) ==
    {r \in ToSet(a.comp[c].remotes) :
        \A i \in PairsOf(a, c) : ~(Pair(a, c, i).local = l /\ Pair(a, c, i).remote = r.addr)}
PairUnpaired(a, c, l) ==
    Loop(LAMBDA x, r : conn_check_add_for_candidate_pair(x, c, l, r),
         a, Keep(a.comp[c].remotes, Unpaired(a, c, l)))
PairComponent(a, c) ==
    Loop(LAMBDA x, l : PairUnpaired(x, c, l), a, a.comp[c].locals)

agent_gathering_done(a) ==
    Loop(PairComponent, [a EXCEPT !.discovering = FALSE], ComponentSeq)

GatheringDone ==
    /\ agent.discovering
    /\ agent' = agent_gathering_done(agent)
    /\ UNCHANGED budget

\* priv_conn_check_tick: the timer callback, with any set of checks due
Tick ==
    /\ agent.timer
    /\ \E due \in SUBSET Pending(agent) :
         agent' = priv_conn_check_tick_unlocked(agent, due).a
    /\ UNCHANGED budget

\* The same when every outstanding check is due
TickAllDue ==
    /\ agent.timer
    /\ agent' = priv_conn_check_tick_unlocked(agent, Pending(agent)).a
    /\ UNCHANGED budget

InboundRequest(c) ==
    /\ Spend("request")
    /\ \E l \in ToSet(agent.comp[c].locals), from \in budget.requests,
          use \in BOOLEAN, switch \in BOOLEAN :
         agent' = HandleRequest(agent, c, l.sock, from, use, switch)

InboundResponse ==
    /\ \E s \in Streams : \E i \in DOMAIN agent.list[s] :
         /\ agent.list[s][i].buf
         /\ \E resp \in Responses(agent.list[s][i].comp) :
              /\ IF resp.kind = "role_conflict" THEN Spend("conflict")
                                                ELSE UNCHANGED budget
              /\ agent' = HandleResponse(agent, s, i, resp)

\* A response or an indication that no outstanding check is waiting for: the
\* cancelled pairs of the stream go all the same
InboundUnmatched(s) ==
    /\ agent' = [agent EXCEPT !.list[s] = prune_cancelled_conn_check(@)]
    /\ UNCHANGED budget

\* Mutant: the pairs of the stream stay in the check list
prune_stream_keeps_pairs(a, s) == [a EXCEPT !.timer = FALSE]

\* conn_check_prune_stream: the timer stops when no stream has checks left
conn_check_prune_stream(a, s) ==
    LET list == [a.list EXCEPT ![s] = <<>>]
    IN  [a EXCEPT !.list = list,
                  !.timer = @ /\ \E t \in Streams : list[t] # <<>>]

\* stream_restart, component_restart: the selected candidates stay in use but
\* the priority is forgotten; the component states stay
stream_restart(a, s) ==
    ForEachComponent(conn_check_prune_stream(a, s), LAMBDA c, component :
        IF StreamOf[c] = s
        THEN [component EXCEPT !.remotes = <<>>, !.incoming = <<>>,
                               !.selected.prio = 0]
        ELSE component)

\* nice_agent_restart
Restart ==
    /\ Spend("restart")
    /\ agent' = Loop(stream_restart, agent, StreamSeq)

\* nice_agent_set_selected_pair (an unreliable agent): the checks of the whole
\* stream stop
SetSelectedPair(c) ==
    /\ Spend("select")
    /\ \E l \in ToSet(agent.comp[c].locals), r \in ToSet(agent.comp[c].remotes) :
         agent' = [conn_check_prune_stream(agent, StreamOf[c]) EXCEPT
                     !.comp[c].state = "READY",
                     !.comp[c].selected =
                        component_find_pair(agent, c, l.found, r.found)]

Next ==
    \/ \E s \in Streams : SetRemoteCredentials(s)
    \/ \E c \in Components : SetRemoteCandidates(c)
    \/ \E c \in Components : GatherLocalCandidate(c)
    \/ GatheringDone
    \/ Tick
    \/ \E c \in Components : InboundRequest(c)
    \/ InboundResponse
    \/ \E s \in Streams : InboundUnmatched(s)
    \/ Restart
    \/ \E c \in Components : SetSelectedPair(c)

Spec == Init /\ [][Next]_vars

\* The main loop runs the timer callback as long as its source exists, and the
\* time every outstanding check waits for comes
FairSpec == Spec /\ WF_vars(TickAllDue)

-----------------------------------------------------------------------------
(* Properties                                                               *)

Live(p) == p.state \in {"FROZEN", "WAITING", "IN_PROGRESS"}
LivePairs(a, c) == {i \in PairsOf(a, c) : Live(Pair(a, c, i))}

\* The steps in which the application itself resets or chooses the selected pair
ApiStep == Restart \/ \E c \in Components : SetSelectedPair(c)

\* The states are those of the two C enumerations, and every pair refers to a
\* local and to a remote candidate that its component still has, as its
\* pointers must.
TypeOK ==
    /\ agent.controlling \in BOOLEAN /\ agent.timer \in BOOLEAN
    /\ agent.discovering \in BOOLEAN
    /\ \A c \in Components : agent.comp[c].state \in ComponentStates
    /\ \A s \in Streams : \A i \in DOMAIN agent.list[s] :
         LET p == agent.list[s][i]
         IN  /\ p.state \in CheckStates /\ StreamOf[p.comp] = s
             /\ Contains(agent.comp[p.comp].locals, p.local)
             /\ KnownRemote(agent, p.comp, p.remote)

\* Only a check in progress, or one cancelled by the limit on the list, has a
\* transaction a late response could match: a pair that failed, succeeded or
\* went back to waiting cannot be moved again by the old answer.
OutstandingChecks ==
    \A s \in Streams : \A i \in DOMAIN agent.list[s] :
        agent.list[s][i].buf => agent.list[s][i].state \in {"IN_PROGRESS", "CANCELLED"}

\* When the timer stops for want of work, every component that has remote
\* candidates is decided: READY or FAILED.
ConcludeDecides ==
    [][Tick /\ ~agent'.timer /\ ~agent.discovering =>
         \A c \in Components : agent.comp[c].remotes # <<>> =>
            agent'.comp[c].state \in {"READY", "FAILED"}]_vars

\* The checks alone never replace the selected pair by one of lower priority
SelectedMonotone ==
    [][~ApiStep => \A c \in Components :
         agent'.comp[c].selected.prio >= agent.comp[c].selected.prio]_vars

\* The checks select only a remote address that has answered a check and that
\* a nominated pair is for
SelectedRemoteAnswered ==
    [][~ApiStep => \A c \in Components :
         agent'.comp[c].selected.remote # agent.comp[c].selected.remote =>
            LET pairs == {Pair(agent', c, i) : i \in PairsOf(agent', c)}
                chosen == {p \in pairs : p.remote = agent'.comp[c].selected.remote}
            IN  /\ \E p \in chosen : Valid(p)
                /\ \E p \in chosen : p.nominated]_vars

\* A component becomes READY only when no check of it is still to be answered,
\* except a second check of a pair that was valid already
ReadyConcludes ==
    [][~ApiStep => \A c \in Components :
         agent.comp[c].state # "READY" /\ agent'.comp[c].state = "READY" =>
            \A i \in LivePairs(agent', c) : \E j \in PairsOf(agent, c) :
               /\ Valid(Pair(agent, c, j))
               /\ Pair(agent, c, j).local = Pair(agent', c, i).local
               /\ Pair(agent, c, j).remote = Pair(agent', c, i).remote]_vars

\* A READY component has a selected pair
ReadyHasSelected ==
    \A c \in Components : agent.comp[c].state = "READY" =>
        agent.comp[c].selected # NoPair

\* The timer stops, or goes on only because a controlled agent waits for the
\* peer to nominate a pair
ChecksConclude ==
    []<>(~agent.timer \/ \E s \in Streams : WaitsForNomination(agent, s))
=============================================================================
