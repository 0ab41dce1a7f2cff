------------------------------- MODULE IceRole -------------------------------
(***************************************************************************)
(* Role conflicts between two agents: the connectivity checks of both, seen *)
(* for the role attribute and the tie-breaker they carry (conncheck.c and   *)
(* stun/usages/ice.c), over a network that loses, delays, duplicates and    *)
(* reorders.  ConnCheck has one agent and an arbitrary peer; here the peer  *)
(* is another agent that runs the same code.                                *)
(*                                                                          *)
(* A message once sent stays in its set: it may be received never, late,    *)
(* or again, which also covers the retransmissions of a check (the same     *)
(* bytes).  One ICE generation: nobody restarts, so the tie-breakers stay.  *)
(***************************************************************************)
EXTENDS Integers

CONSTANTS
    Pairs,        \* names for the entries of a check list
    tie_breaker,  \* agent -> its random 64-bit number
    MaxSends      \* bound on the checks sent on one entry

Agents == {"A", "B"}
Peer(a) == IF a = "A" THEN "B" ELSE "A"

\* Two 64-bit random numbers; that they are equal is not considered
ASSUME TieAssumption ==
    /\ tie_breaker \in [Agents -> Nat]
    /\ tie_breaker["A"] # tie_breaker["B"]
ASSUME MaxSendsAssumption == MaxSends \in Nat

VARIABLES
    controlling_mode,  \* agent -> its role now
    pair,              \* agent -> name -> the check list entry
    requests,          \* binding requests that were sent
    replies            \* binding responses that were sent

vars == <<controlling_mode, pair, requests, replies>>

\* controlling: the role of the agent when the pair was made.  The pair has a
\* transaction while open; its id is the number of checks sent so far.
PairRecord == [exists : BOOLEAN, controlling : BOOLEAN, open : BOOLEAN, id : Nat]
Request == [from : Agents, pair : Pairs, id : Nat, controlling : BOOLEAN, tie : Nat]
Reply == [to : Agents, pair : Pairs, id : Nat, kind : {"SUCCESS", "ROLE_CONFLICT"}]

Init ==
    /\ controlling_mode \in [Agents -> BOOLEAN]
    /\ pair = [a \in Agents |-> [p \in Pairs |->
                 [exists |-> FALSE, controlling |-> FALSE, open |-> FALSE, id |-> 0]]]
    /\ requests = {}
    /\ replies = {}

\* priv_add_new_check_pair, priv_add_peer_reflexive_pair
AddPair(a, p) ==
    /\ ~pair[a][p].exists
    /\ pair' = [pair EXCEPT ![a][p] = [@ EXCEPT !.exists = TRUE,
                                                 !.controlling = controlling_mode[a]]]
    /\ UNCHANGED <<controlling_mode, requests, replies>>

\* A cancelled pair is pruned; a later pair may take the entry
RemovePair(a, p) ==
    /\ pair[a][p].exists
    /\ pair' = [pair EXCEPT ![a][p] = [@ EXCEPT !.exists = FALSE, !.open = FALSE]]
    /\ UNCHANGED <<controlling_mode, requests, replies>>

\* conn_check_send: the check has the role of now, not that of the pair; a
\* new check replaces the transaction of an earlier one
conn_check_send(a, p) ==
    /\ pair[a][p].exists
    /\ pair[a][p].id < MaxSends
    /\ pair' = [pair EXCEPT ![a][p].open = TRUE, ![a][p].id = @ + 1]
    /\ requests' = requests \cup
          {[from |-> a, pair |-> p, id |-> pair[a][p].id + 1,
            controlling |-> controlling_mode[a], tie |-> tie_breaker[a]]}
    /\ UNCHANGED <<controlling_mode, replies>>

\* candidate_check_pair_fail: the check times out
CheckTimeout(a, p) ==
    /\ pair[a][p].open
    /\ pair' = [pair EXCEPT ![a][p] = [@ EXCEPT !.open = FALSE]]
    /\ UNCHANGED <<controlling_mode, requests, replies>>

ReplyTo(m, kind) == [to |-> m.from, pair |-> m.pair, id |-> m.id, kind |-> kind]

\* Mutant: the larger tie-breaker gives way
switch_larger(b, m) == m.controlling = controlling_mode[b] /\ tie_breaker[b] > m.tie

\* stun_usage_ice_conncheck_create_reply: the request has the attribute of the
\* receiver's own role and the larger tie-breaker
MustSwitch(b, m) == m.controlling = controlling_mode[b] /\ tie_breaker[b] < m.tie

\* Mutant: the new role is answered for but not kept
receive_request_forgets_role(b, m) ==
    LET conflict == m.controlling = controlling_mode[b]
    IN  /\ replies' = replies \cup
              {ReplyTo(m, IF conflict /\ ~MustSwitch(b, m) THEN "ROLE_CONFLICT"
                                                           ELSE "SUCCESS")}
        /\ UNCHANGED <<controlling_mode, pair, requests>>

\* conn_check_handle_inbound_stun for a request, as far as roles go
ReceiveRequest(b, m) ==
    LET conflict == m.controlling = controlling_mode[b]
    IN  /\ controlling_mode' = [controlling_mode EXCEPT ![b] =
                                  IF MustSwitch(b, m) THEN ~@ ELSE @]
        /\ replies' = replies \cup
              {ReplyTo(m, IF conflict /\ ~MustSwitch(b, m) THEN "ROLE_CONFLICT"
                                                           ELSE "SUCCESS")}
        /\ UNCHANGED <<pair, requests>>

\* Mutant: a 487 toggles the role, even one that came after the switch
conflict_toggles(a, m) == ~controlling_mode[a]

\* priv_check_for_role_conflict (agent, !p->controlling)
RoleAfterConflict(a, m) == ~pair[a][m.pair].controlling

\* priv_map_reply_to_conn_check_request, for a reply to an open transaction
ReceiveReply(a, m) ==
    /\ pair[a][m.pair].open
    /\ pair[a][m.pair].id = m.id
    /\ pair' = [pair EXCEPT ![a][m.pair] = [@ EXCEPT !.open = FALSE]]
    /\ controlling_mode' = [controlling_mode EXCEPT ![a] =
                              IF m.kind = "ROLE_CONFLICT" THEN RoleAfterConflict(a, m)
                                                          ELSE @]
    /\ UNCHANGED <<requests, replies>>

RequestArrives(b) == \E m \in requests : m.from = Peer(b) /\ ReceiveRequest(b, m)
ReplyArrives(a) == \E m \in replies : m.to = a /\ ReceiveReply(a, m)

Next ==
    \E a \in Agents :
        \/ \E p \in Pairs : \/ AddPair(a, p)
                            \/ RemovePair(a, p)
                            \/ conn_check_send(a, p)
                            \/ CheckTimeout(a, p)
        \/ RequestArrives(a)
        \/ ReplyArrives(a)

Spec == Init /\ [][Next]_vars

\* An agent without pairs makes one, an agent that makes pairs again and again
\* checks one before it is pruned, and a request that was sent reaches the other
\* side in one of its transmissions
Fairness ==
    /\ \A a \in Agents : WF_vars(\E p \in Pairs : AddPair(a, p) /\ pair[a][p].id = 0)
    /\ \A a \in Agents : SF_vars(\E p \in Pairs : conn_check_send(a, p) /\ pair[a][p].id = 0)
    /\ \A a \in Agents : WF_vars(RequestArrives(a))

FairSpec == Spec /\ Fairness

-----------------------------------------------------------------------------
RolesDiffer == controlling_mode["A"] # controlling_mode["B"]

\* Roles, check list entries and messages are what conncheck.c keeps and sends
TypeOK ==
    /\ controlling_mode \in [Agents -> BOOLEAN]
    /\ pair \in [Agents -> [Pairs -> PairRecord]]
    /\ requests \subseteq Request
    /\ replies \subseteq Reply

\* The agent whose tie-breaker is larger and the other one
Winner == IF tie_breaker["A"] > tie_breaker["B"] THEN "A" ELSE "B"
Loser == Peer(Winner)

\* The role a pair remembers is the one its open check was sent in, whenever
\* that check claims the role of the agent with the larger tie-breaker: the
\* only checks a 487 comes back to.  (A pair made before the switch and checked
\* after it remembers the old role and sends the new one.)
PairRoleOfConflict ==
    \A m \in requests :
        /\ m.from = Loser /\ m.controlling = controlling_mode[Winner]
        /\ pair[Loser][m.pair].open /\ pair[Loser][m.pair].id = m.id
        => pair[Loser][m.pair].controlling = m.controlling

\* Once the roles differ they stay different: no delayed or repeated request,
\* and no late 487 to a check from before the switch, brings the conflict back.
RolesStable == [][RolesDiffer => RolesDiffer']_vars

\* Only the agent with the smaller tie-breaker changes its role.
WinnerKeepsRole ==
    [][\A a \in Agents : tie_breaker[a] > tie_breaker[Peer(a)] =>
         controlling_mode'[a] = controlling_mode[a]]_vars

\* After a 487 that an open check accepts the roles differ, whichever of the
\* two notices of the conflict (the 487 or the peer's request) came first.
ConflictReplyResolves ==
    [][\A a \in Agents : \A m \in replies :
         m.to = a /\ m.kind = "ROLE_CONFLICT" /\ ReceiveReply(a, m) => RolesDiffer']_vars

\* A conflict ends: as soon as a check of the agent with the larger tie-breaker
\* gets through.
ConflictEnds == <>RolesDiffer
=============================================================================
