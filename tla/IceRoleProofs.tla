--------------------------- MODULE IceRoleProofs ---------------------------
(***************************************************************************)
(* Proofs that a role conflict is resolved once, for any check lists, any  *)
(* number of checks and any distinct tie-breakers.                         *)
(*                                                                         *)
(* The argument: the winner (larger tie-breaker) never switches, so all    *)
(* its requests carry its present role.  The loser switches only away from *)
(* the winner's role.  While it has that role all its pairs were made in   *)
(* it; so was, later, any pair whose open check still claims it, and only  *)
(* such a check is answered with a 487.                                    *)
(***************************************************************************)
EXTENDS IceRole, TLAPS

\* The winner's requests carry its role; every request has its sender's
\* tie-breaker and an id its pair has used
RequestsSound ==
    \A m \in requests :
        /\ m.tie = tie_breaker[m.from]
        /\ m.from = Winner => m.controlling = controlling_mode[Winner]
        /\ m.id <= pair[m.from][m.pair].id

\* While the conflict lasts, the loser's pairs were made in the role it has
PairsOfConflict ==
    controlling_mode[Loser] = controlling_mode[Winner] =>
        \A p \in Pairs : pair[Loser][p].exists =>
            pair[Loser][p].controlling = controlling_mode[Winner]

\* Only the loser is sent a 487, and the pair that would accept it was made in
\* the winner's role
ConflictRepliesSound ==
    \A m \in replies : m.kind = "ROLE_CONFLICT" =>
        /\ m.to = Loser
        /\ m.id <= pair[Loser][m.pair].id
        /\ pair[Loser][m.pair].open /\ pair[Loser][m.pair].id = m.id =>
              pair[Loser][m.pair].controlling = controlling_mode[Winner]

\* A removed pair has no transaction
OpenExists == \A a \in Agents : \A p \in Pairs : pair[a][p].open => pair[a][p].exists

\* The inductive invariant
IInv ==
    /\ TypeOK
    /\ OpenExists
    /\ RequestsSound
    /\ PairsOfConflict
    /\ PairRoleOfConflict
    /\ ConflictRepliesSound

\* Of two agents one wins and the other loses
LEMMA WinnerLoser ==
    /\ Winner \in Agents /\ Loser \in Agents /\ Winner # Loser
    /\ Peer(Loser) = Winner /\ Peer(Winner) = Loser
    /\ tie_breaker[Loser] < tie_breaker[Winner]
    /\ \A a \in Agents : a = Winner \/ a = Loser
BY TieAssumption DEF Winner, Loser, Peer, Agents

\* The updates of a pair give a pair
LEMMA PairUpdates ==
    ASSUME NEW r \in PairRecord, NEW c \in BOOLEAN
    PROVE  /\ [r EXCEPT !.exists = TRUE, !.controlling = c] \in PairRecord
           /\ [r EXCEPT !.exists = FALSE, !.open = FALSE] \in PairRecord
           /\ [r EXCEPT !.open = FALSE] \in PairRecord
<1>1. [r EXCEPT !.exists = TRUE, !.controlling = c] \in PairRecord
    BY DEF PairRecord
<1>2. [r EXCEPT !.exists = FALSE, !.open = FALSE] \in PairRecord
    BY DEF PairRecord
<1>3. [r EXCEPT !.open = FALSE] \in PairRecord
    BY DEF PairRecord
<1> QED
    BY <1>1, <1>2, <1>3

\* Replacing one pair by a well-typed one
LEMMA PairUpdateType ==
    ASSUME TypeOK, NEW a \in Agents, NEW p \in Pairs, NEW r \in PairRecord,
           pair' = [pair EXCEPT ![a][p] = r]
    PROVE  pair' \in [Agents -> [Pairs -> PairRecord]]
<1>1. pair[a] \in [Pairs -> PairRecord]
    BY DEF TypeOK
<1>2. [pair[a] EXCEPT ![p] = r] \in [Pairs -> PairRecord]
    BY <1>1
<1> QED
    BY <1>2 DEF TypeOK

\* No agent has pairs, and no message was sent, at the start
LEMMA InitIInv == Init => IInv
<1> SUFFICES ASSUME Init PROVE IInv
    OBVIOUS
<1>1. TypeOK
    BY DEF Init, TypeOK, PairRecord, Request, Reply
<1>2. OpenExists /\ PairsOfConflict
    BY WinnerLoser DEF Init, OpenExists, PairsOfConflict
<1>3. RequestsSound /\ PairRoleOfConflict /\ ConflictRepliesSound
    BY DEF Init, RequestsSound, PairRoleOfConflict, ConflictRepliesSound
<1> QED
    BY <1>1, <1>2, <1>3 DEF IInv

\* What a received request and a received reply do to the roles: a request
\* makes at most the loser switch, away from the winner's role, and a 487
\* gives the loser the other role
LEMMA RequestRoles ==
    ASSUME IInv, NEW b \in Agents, NEW m \in requests, m.from = Peer(b),
           ReceiveRequest(b, m)
    PROVE  /\ controlling_mode'[Winner] = controlling_mode[Winner]
           /\ \/ controlling_mode'[Loser] = controlling_mode[Loser]
              \/ controlling_mode'[Loser] = ~controlling_mode[Winner]
           /\ controlling_mode' \in [Agents -> BOOLEAN]
<1>1. CASE b = Winner
    <2>1. m.tie = tie_breaker[Loser]
        BY <1>1, WinnerLoser DEF IInv, RequestsSound
    <2>2. ~MustSwitch(b, m)
        BY <2>1, <1>1, WinnerLoser, TieAssumption DEF MustSwitch
    <2> QED
        BY <2>2, WinnerLoser DEF ReceiveRequest, IInv, TypeOK
<1>2. CASE b = Loser
    <2>1. m.controlling = controlling_mode[Winner]
        BY <1>2, WinnerLoser DEF IInv, RequestsSound
    <2> QED
        BY <2>1, <1>2, WinnerLoser DEF ReceiveRequest, MustSwitch, IInv, TypeOK
<1> QED
    BY <1>1, <1>2, WinnerLoser

LEMMA ReplyRoles ==
    ASSUME IInv, NEW a \in Agents, NEW m \in replies, m.to = a, ReceiveReply(a, m)
    PROVE  /\ controlling_mode'[Winner] = controlling_mode[Winner]
           /\ \/ controlling_mode'[Loser] = controlling_mode[Loser]
              \/ controlling_mode'[Loser] = ~controlling_mode[Winner]
           /\ controlling_mode' \in [Agents -> BOOLEAN]
           /\ m.kind = "ROLE_CONFLICT" =>
                 controlling_mode'[Loser] = ~controlling_mode[Winner]
<1>1. CASE m.kind = "ROLE_CONFLICT"
    <2>1. a = Loser /\ pair[Loser][m.pair].controlling = controlling_mode[Winner]
        BY <1>1 DEF IInv, ConflictRepliesSound, ReceiveReply
    <2> QED
        BY <1>1, <2>1, WinnerLoser DEF ReceiveReply, RoleAfterConflict, IInv, TypeOK
<1>2. CASE m.kind # "ROLE_CONFLICT"
    <2>1. controlling_mode' = [controlling_mode EXCEPT ![a] = @]
        BY <1>2 DEF ReceiveReply
    <2>2. controlling_mode' = controlling_mode
        BY <2>1 DEF IInv, TypeOK
    <2> QED
        BY <1>2, <2>2 DEF IInv, TypeOK
<1> QED
    BY <1>1, <1>2

\* The two names stand for constants
LEMMA NamesRigid == Winner' = Winner /\ Loser' = Loser
BY DEF Winner, Loser, Peer

\* A step that changes neither roles nor messages, opens no transaction, and
\* makes new pairs only in the present role keeps the invariant
LEMMA PairStep ==
    ASSUME IInv, TypeOK',
           UNCHANGED <<controlling_mode, requests, replies>>,
           \A b \in Agents : \A q \in Pairs :
              /\ pair'[b][q].id = pair[b][q].id
              /\ pair'[b][q].open => /\ pair[b][q].open /\ pair'[b][q].exists
                                     /\ pair'[b][q].controlling = pair[b][q].controlling
              /\ pair'[b][q].exists =>
                    \/ pair'[b][q].controlling = controlling_mode[b]
                    \/ pair[b][q].exists /\ pair'[b][q].controlling = pair[b][q].controlling
    PROVE  IInv'
<1> USE DEF IInv
<1>1. OpenExists'
    BY DEF OpenExists
<1>2. RequestsSound'
    BY WinnerLoser, NamesRigid DEF RequestsSound, TypeOK, Request
<1>3. PairsOfConflict'
    BY WinnerLoser, NamesRigid DEF PairsOfConflict
<1>4. PairRoleOfConflict'
    <2> SUFFICES ASSUME NEW m \in requests, m.from = Loser,
                        m.controlling = controlling_mode[Winner],
                        pair'[Loser][m.pair].open, pair'[Loser][m.pair].id = m.id
                 PROVE  pair'[Loser][m.pair].controlling = m.controlling
        BY NamesRigid DEF PairRoleOfConflict
    <2>1. m.pair \in Pairs
        BY DEF TypeOK, Request
    <2> QED
        BY <2>1, WinnerLoser DEF PairRoleOfConflict
<1>5. ConflictRepliesSound'
    BY WinnerLoser, NamesRigid DEF ConflictRepliesSound, TypeOK, Reply
<1> QED
    BY <1>1, <1>2, <1>3, <1>4, <1>5

\* A new check has the id after the last one, so no old message matches it,
\* and while the conflict lasts its pair was made in the role it claims
LEMMA SendStep ==
    ASSUME IInv, NEW a \in Agents, NEW p \in Pairs, conn_check_send(a, p)
    PROVE  IInv'
<1> USE DEF IInv
<1> DEFINE new == [from |-> a, pair |-> p, id |-> pair[a][p].id + 1,
                   controlling |-> controlling_mode[a], tie |-> tie_breaker[a]]
<1>1. /\ controlling_mode' = controlling_mode /\ replies' = replies
      /\ requests' = requests \cup {new}
    BY DEF conn_check_send
<1>2. new \in Request
    BY TieAssumption DEF Request, TypeOK, PairRecord
<1>3. TypeOK'
    BY <1>1, <1>2 DEF conn_check_send, TypeOK, PairRecord
<1>4. \A b \in Agents : \A q \in Pairs :
         /\ pair'[b][q].exists = pair[b][q].exists
         /\ pair'[b][q].controlling = pair[b][q].controlling
         /\ b = a /\ q = p => /\ pair'[b][q].id = pair[b][q].id + 1
                              /\ pair'[b][q].open /\ pair[b][q].exists
         /\ b # a \/ q # p => pair'[b][q] = pair[b][q]
    BY DEF conn_check_send, TypeOK, PairRecord
<1>5. \A b \in Agents : \A q \in Pairs : pair[b][q].id \in Nat
    BY DEF TypeOK, PairRecord
<1> HIDE DEF new
<1>6. OpenExists'
    BY <1>4 DEF OpenExists
<1>7. RequestsSound'
    <2>1. /\ new.tie = tie_breaker[new.from]
          /\ new.from = Winner => new.controlling = controlling_mode[Winner]
          /\ new.id <= pair'[new.from][new.pair].id
        BY <1>4, <1>5 DEF new
    <2>2. ASSUME NEW m \in requests PROVE m.id <= pair'[m.from][m.pair].id
        BY <1>4, <1>5 DEF RequestsSound, TypeOK, Request
    <2> QED
        BY <1>1, <2>1, <2>2, NamesRigid DEF RequestsSound
<1>8. PairsOfConflict'
    BY <1>1, <1>4, WinnerLoser, NamesRigid DEF PairsOfConflict
<1>9. PairRoleOfConflict'
    <2>1. ASSUME new.from = Loser, new.controlling = controlling_mode[Winner]
          PROVE pair'[Loser][new.pair].controlling = new.controlling
        BY <2>1, <1>4, WinnerLoser DEF new, PairsOfConflict
    <2>2. ASSUME NEW m \in requests, m.from = Loser, m.pair = p, Loser = a
          PROVE pair'[Loser][m.pair].id # m.id
        BY <2>2, <1>4, <1>5 DEF RequestsSound, TypeOK, Request
    <2>3. ASSUME NEW m \in requests, ~(m.pair = p /\ Loser = a)
          PROVE pair'[Loser][m.pair] = pair[Loser][m.pair]
        BY <2>3, <1>4, WinnerLoser DEF TypeOK, Request
    <2> QED
        BY <1>1, <2>1, <2>2, <2>3, NamesRigid DEF PairRoleOfConflict
<1>10. ConflictRepliesSound'
    <2>1. ASSUME NEW m \in replies, m.kind = "ROLE_CONFLICT", m.pair = p, Loser = a
          PROVE /\ pair'[Loser][m.pair].id # m.id
                /\ m.id <= pair'[Loser][m.pair].id
        BY <2>1, <1>4, <1>5 DEF ConflictRepliesSound, TypeOK, Reply
    <2>2. ASSUME NEW m \in replies, ~(m.pair = p /\ Loser = a)
          PROVE pair'[Loser][m.pair] = pair[Loser][m.pair]
        BY <2>2, <1>4, WinnerLoser DEF TypeOK, Reply
    <2> QED
        BY <1>1, <2>1, <2>2, NamesRigid DEF ConflictRepliesSound
<1> QED
    BY <1>3, <1>6, <1>7, <1>8, <1>9, <1>10

\* A received request or reply opens no transaction and changes no pair's role;
\* the winner stays, and the loser at most takes the other role
LEMMA ReceiveStep ==
    ASSUME IInv, TypeOK', requests' = requests,
           controlling_mode'[Winner] = controlling_mode[Winner],
           \/ controlling_mode'[Loser] = controlling_mode[Loser]
           \/ controlling_mode'[Loser] = ~controlling_mode[Winner],
           \A b \in Agents : \A q \in Pairs :
              /\ pair'[b][q].id = pair[b][q].id
              /\ pair'[b][q].open => pair[b][q].open
              /\ pair'[b][q].exists = pair[b][q].exists
              /\ pair'[b][q].controlling = pair[b][q].controlling,
           \A m \in replies' : m.kind = "ROLE_CONFLICT" =>
              \/ m \in replies
              \/ /\ m.to = Loser
                 /\ \E r \in requests : /\ r.from = Loser /\ r.pair = m.pair /\ r.id = m.id
                                        /\ r.controlling = controlling_mode[Winner]
    PROVE  IInv'
<1> USE DEF IInv
<1>1. OpenExists'
    BY DEF OpenExists
<1>2. RequestsSound'
    BY WinnerLoser, NamesRigid DEF RequestsSound, TypeOK, Request
<1>3. PairsOfConflict'
    <2>1. CASE controlling_mode'[Loser] = controlling_mode[Loser]
        BY <2>1, WinnerLoser, NamesRigid DEF PairsOfConflict
    <2>2. CASE controlling_mode'[Loser] = ~controlling_mode[Winner]
        <3>1. controlling_mode[Winner] \in BOOLEAN
            BY WinnerLoser DEF TypeOK
        <3>2. controlling_mode'[Loser] # controlling_mode'[Winner]
            BY <2>2, <3>1
        <3> QED
            BY <3>2, NamesRigid DEF PairsOfConflict
    <2> QED
        BY <2>1, <2>2
<1>4. PairRoleOfConflict'
    <2> SUFFICES ASSUME NEW m \in requests, m.from = Loser,
                        m.controlling = controlling_mode[Winner],
                        pair'[Loser][m.pair].open, pair'[Loser][m.pair].id = m.id
                 PROVE  pair'[Loser][m.pair].controlling = m.controlling
        BY NamesRigid DEF PairRoleOfConflict
    <2>1. m.pair \in Pairs
        BY DEF TypeOK, Request
    <2> QED
        BY <2>1, WinnerLoser DEF PairRoleOfConflict
<1>5. ConflictRepliesSound'
    <2> SUFFICES ASSUME NEW m \in replies', m.kind = "ROLE_CONFLICT"
                 PROVE  /\ m.to = Loser
                        /\ m.id <= pair'[Loser][m.pair].id
                        /\ pair'[Loser][m.pair].open /\ pair'[Loser][m.pair].id = m.id =>
                              pair'[Loser][m.pair].controlling = controlling_mode[Winner]
        BY NamesRigid DEF ConflictRepliesSound
    <2>1. m.pair \in Pairs
        BY DEF TypeOK, Reply
    <2>2. CASE m \in replies
        BY <2>1, <2>2, WinnerLoser DEF ConflictRepliesSound
    <2>3. CASE m \notin replies
        <3>1. PICK r \in requests : /\ r.from = Loser /\ r.pair = m.pair /\ r.id = m.id
                                    /\ r.controlling = controlling_mode[Winner]
            BY <2>3
        <3>2. m.id <= pair'[Loser][m.pair].id
            BY <2>1, <3>1, WinnerLoser DEF RequestsSound
        <3>3. ASSUME pair'[Loser][m.pair].open, pair'[Loser][m.pair].id = m.id
              PROVE  pair'[Loser][m.pair].controlling = controlling_mode[Winner]
            BY <2>1, <3>1, <3>3, WinnerLoser DEF PairRoleOfConflict
        <3> QED
            BY <2>3, <3>2, <3>3
    <2> QED
        BY <2>2, <2>3
<1> QED
    BY <1>1, <1>2, <1>3, <1>4, <1>5

\* Every step keeps the invariant
LEMMA NextIInv == IInv /\ [Next]_vars => IInv'
<1> SUFFICES ASSUME IInv, [Next]_vars PROVE IInv'
    OBVIOUS
<1>1. ASSUME NEW a \in Agents, NEW p \in Pairs, AddPair(a, p) PROVE IInv'
    <2>1. TypeOK'
        <3>1. TypeOK
            BY DEF IInv
        <3>2. pair' \in [Agents -> [Pairs -> PairRecord]]
            <4>1. [pair[a][p] EXCEPT !.exists = TRUE, !.controlling = controlling_mode[a]]
                    \in PairRecord
                BY <3>1, PairUpdates DEF TypeOK
            <4> QED
                BY <1>1, <3>1, <4>1, PairUpdateType DEF AddPair
        <3> QED
            BY <1>1, <3>1, <3>2 DEF AddPair, TypeOK
    <2>2. \A b \in Agents : \A q \in Pairs :
             /\ pair'[b][q].id = pair[b][q].id
             /\ pair'[b][q].open => /\ pair[b][q].open /\ pair'[b][q].exists
                                    /\ pair'[b][q].controlling = pair[b][q].controlling
             /\ pair'[b][q].exists =>
                   \/ pair'[b][q].controlling = controlling_mode[b]
                   \/ pair[b][q].exists /\ pair'[b][q].controlling = pair[b][q].controlling
        BY <1>1 DEF AddPair, TypeOK, PairRecord, OpenExists, IInv
    <2> QED
        BY <1>1, <2>1, <2>2, PairStep DEF AddPair
<1>2. ASSUME NEW a \in Agents, NEW p \in Pairs, RemovePair(a, p) PROVE IInv'
    <2>1. TypeOK'
        <3>1. TypeOK
            BY DEF IInv
        <3>2. pair' \in [Agents -> [Pairs -> PairRecord]]
            <4>1. [pair[a][p] EXCEPT !.exists = FALSE, !.open = FALSE]
                    \in PairRecord
                BY <3>1, PairUpdates DEF TypeOK
            <4> QED
                BY <1>2, <3>1, <4>1, PairUpdateType DEF RemovePair
        <3> QED
            BY <1>2, <3>1, <3>2 DEF RemovePair, TypeOK
    <2>2. \A b \in Agents : \A q \in Pairs :
             /\ pair'[b][q].id = pair[b][q].id
             /\ pair'[b][q].open => /\ pair[b][q].open /\ pair'[b][q].exists
                                    /\ pair'[b][q].controlling = pair[b][q].controlling
             /\ pair'[b][q].exists =>
                   \/ pair'[b][q].controlling = controlling_mode[b]
                   \/ pair[b][q].exists /\ pair'[b][q].controlling = pair[b][q].controlling
        BY <1>2 DEF RemovePair, TypeOK, PairRecord, OpenExists, IInv
    <2> QED
        BY <1>2, <2>1, <2>2, PairStep DEF RemovePair
<1>3. ASSUME NEW a \in Agents, NEW p \in Pairs, conn_check_send(a, p) PROVE IInv'
    BY <1>3, SendStep
<1>4. ASSUME NEW a \in Agents, NEW p \in Pairs, CheckTimeout(a, p) PROVE IInv'
    <2>1. TypeOK'
        <3>1. TypeOK
            BY DEF IInv
        <3>2. pair' \in [Agents -> [Pairs -> PairRecord]]
            <4>1. [pair[a][p] EXCEPT !.open = FALSE]
                    \in PairRecord
                BY <3>1, PairUpdates DEF TypeOK
            <4> QED
                BY <1>4, <3>1, <4>1, PairUpdateType DEF CheckTimeout
        <3> QED
            BY <1>4, <3>1, <3>2 DEF CheckTimeout, TypeOK
    <2>2. \A b \in Agents : \A q \in Pairs :
             /\ pair'[b][q].id = pair[b][q].id
             /\ pair'[b][q].open => /\ pair[b][q].open /\ pair'[b][q].exists
                                    /\ pair'[b][q].controlling = pair[b][q].controlling
             /\ pair'[b][q].exists =>
                   \/ pair'[b][q].controlling = controlling_mode[b]
                   \/ pair[b][q].exists /\ pair'[b][q].controlling = pair[b][q].controlling
        BY <1>4 DEF CheckTimeout, TypeOK, PairRecord, OpenExists, IInv
    <2> QED
        BY <1>4, <2>1, <2>2, PairStep DEF CheckTimeout
<1>5. ASSUME NEW b \in Agents, NEW m \in requests, m.from = Peer(b), ReceiveRequest(b, m)
      PROVE  IInv'
    <2> DEFINE kind == IF m.controlling = controlling_mode[b] /\ ~MustSwitch(b, m)
                       THEN "ROLE_CONFLICT" ELSE "SUCCESS"
    <2>1. requests' = requests /\ pair' = pair /\ replies' = replies \cup {ReplyTo(m, kind)}
        BY <1>5 DEF ReceiveRequest
    <2>2. ReplyTo(m, kind) \in Reply
        BY DEF ReplyTo, Reply, Request, TypeOK, IInv
    <2>3. TypeOK'
        BY <1>5, <2>1, <2>2, RequestRoles DEF TypeOK, IInv
    <2>4. ASSUME kind = "ROLE_CONFLICT"
          PROVE  /\ b = Winner /\ m.from = Loser
                 /\ m.controlling = controlling_mode[Winner]
        <3>1. m.tie = tie_breaker[m.from] /\ ~MustSwitch(b, m)
              /\ m.controlling = controlling_mode[b]
            BY <2>4 DEF RequestsSound, IInv
        <3>2. b # Loser
            BY <1>5, <3>1, WinnerLoser DEF MustSwitch
        <3> QED
            BY <1>5, <3>1, <3>2, WinnerLoser
    <2>5. ASSUME NEW r \in replies', r.kind = "ROLE_CONFLICT", r \notin replies
          PROVE  /\ r.to = Loser
                 /\ \E q \in requests : /\ q.from = Loser /\ q.pair = r.pair /\ q.id = r.id
                                        /\ q.controlling = controlling_mode[Winner]
        <3>1. r = ReplyTo(m, kind)
            BY <2>1, <2>5
        <3>2. kind = "ROLE_CONFLICT" /\ r.to = m.from /\ r.pair = m.pair /\ r.id = m.id
            BY <2>5, <3>1 DEF ReplyTo
        <3> QED
            BY <2>4, <3>2
    <2> QED
        BY <1>5, <2>1, <2>3, <2>5, RequestRoles, ReceiveStep
<1>6. ASSUME NEW a \in Agents, NEW m \in replies, m.to = a, ReceiveReply(a, m)
      PROVE  IInv'
    <2>1. m.pair \in Pairs
        BY DEF TypeOK, Reply, IInv
    <2>2. TypeOK'
        <3>1. TypeOK
            BY DEF IInv
        <3>2. pair' \in [Agents -> [Pairs -> PairRecord]]
            <4>1. [pair[a][m.pair] EXCEPT !.open = FALSE] \in PairRecord
                BY <2>1, <3>1, PairUpdates DEF TypeOK
            <4> QED
                BY <1>6, <2>1, <3>1, <4>1, PairUpdateType DEF ReceiveReply
        <3>3. controlling_mode' \in [Agents -> BOOLEAN]
            BY <1>6, ReplyRoles
        <3> QED
            BY <1>6, <3>1, <3>2, <3>3 DEF ReceiveReply, TypeOK
    <2>3. \A b \in Agents : \A q \in Pairs :
              /\ pair'[b][q].id = pair[b][q].id
              /\ pair'[b][q].open => pair[b][q].open
              /\ pair'[b][q].exists = pair[b][q].exists
              /\ pair'[b][q].controlling = pair[b][q].controlling
        BY <1>6, <2>1 DEF ReceiveReply, TypeOK, PairRecord, IInv
    <2>4. requests' = requests /\ replies' = replies
        BY <1>6 DEF ReceiveReply
    <2> QED
        BY <1>6, <2>2, <2>3, <2>4, ReplyRoles, ReceiveStep
<1>7. CASE UNCHANGED vars
    BY <1>7 DEF vars, IInv, TypeOK, OpenExists, RequestsSound, PairsOfConflict,
        PairRoleOfConflict, ConflictRepliesSound
<1> QED
    BY <1>1, <1>2, <1>3, <1>4, <1>5, <1>6, <1>7
       DEF Next, RequestArrives, ReplyArrives

\* The inductive invariant holds in every reachable state
THEOREM IInvHolds == Spec => []IInv
BY InitIInv, NextIInv, PTL DEF Spec

\* What any step does to the two roles
LEMMA StepRoles ==
    ASSUME IInv, [Next]_vars
    PROVE  /\ controlling_mode'[Winner] = controlling_mode[Winner]
           /\ \/ controlling_mode'[Loser] = controlling_mode[Loser]
              \/ controlling_mode'[Loser] = ~controlling_mode[Winner]
<1>1. ASSUME NEW b \in Agents, NEW m \in requests, m.from = Peer(b), ReceiveRequest(b, m)
      PROVE  /\ controlling_mode'[Winner] = controlling_mode[Winner]
             /\ \/ controlling_mode'[Loser] = controlling_mode[Loser]
                \/ controlling_mode'[Loser] = ~controlling_mode[Winner]
    BY <1>1, RequestRoles
<1>2. ASSUME NEW a \in Agents, NEW m \in replies, m.to = a, ReceiveReply(a, m)
      PROVE  /\ controlling_mode'[Winner] = controlling_mode[Winner]
             /\ \/ controlling_mode'[Loser] = controlling_mode[Loser]
                \/ controlling_mode'[Loser] = ~controlling_mode[Winner]
    BY <1>2, ReplyRoles
<1>3. CASE UNCHANGED controlling_mode
    BY <1>3
<1> QED
    BY <1>1, <1>2, <1>3 DEF Next, RequestArrives, ReplyArrives, AddPair, RemovePair,
        conn_check_send, CheckTimeout, vars

\* RolesDiffer says that the winner and the loser have different roles
LEMMA DifferByName ==
    ASSUME NEW f \in [Agents -> BOOLEAN]
    PROVE  f["A"] # f["B"] <=> f[Winner] # f[Loser]
BY DEF Winner, Loser, Peer

\* The values the variables range over, in every reachable state
THEOREM TypeCorrect == Spec => []TypeOK
<1>1. IInv => TypeOK
    BY DEF IInv
<1> QED
    BY <1>1, IInvHolds, PTL

\* Only pairs made in the winner's role have an open check that claims it: the
\* checks conn_check_send sends after a switch are never answered with a 487
THEOREM PairRoleOfConflictHolds == Spec => []PairRoleOfConflict
<1>1. IInv => PairRoleOfConflict
    BY DEF IInv
<1> QED
    BY <1>1, IInvHolds, PTL

\* The agent with the larger tie-breaker keeps its role, whatever it receives
THEOREM WinnerKeepsRoleHolds == Spec => WinnerKeepsRole
<1>1. IInv /\ [Next]_vars =>
        [\A a \in Agents : tie_breaker[a] > tie_breaker[Peer(a)] =>
            controlling_mode'[a] = controlling_mode[a]]_vars
    <2> SUFFICES ASSUME IInv, [Next]_vars, NEW a \in Agents,
                        tie_breaker[a] > tie_breaker[Peer(a)]
                 PROVE  controlling_mode'[a] = controlling_mode[a]
        OBVIOUS
    <2>1. a = Winner
        BY WinnerLoser, TieAssumption
    <2> QED
        BY <2>1, StepRoles
<1> QED
    BY <1>1, IInvHolds, PTL DEF Spec, WinnerKeepsRole

\* Roles that differ stay different: late requests and late 487s included
THEOREM RolesStableHolds == Spec => RolesStable
<1>1. IInv /\ IInv' /\ [Next]_vars => [RolesDiffer => RolesDiffer']_vars
    <2> SUFFICES ASSUME IInv, IInv', [Next]_vars, RolesDiffer PROVE RolesDiffer'
        OBVIOUS
    <2>1. /\ controlling_mode \in [Agents -> BOOLEAN]
          /\ controlling_mode' \in [Agents -> BOOLEAN]
        BY DEF IInv, TypeOK
    <2>2. controlling_mode[Winner] # controlling_mode[Loser]
        BY <2>1, DifferByName DEF RolesDiffer
    <2>3. controlling_mode[Winner] \in BOOLEAN
        BY <2>1, WinnerLoser
    <2>4. controlling_mode'[Winner] # controlling_mode'[Loser]
        BY <2>2, <2>3, StepRoles
    <2>5. controlling_mode'["A"] # controlling_mode'["B"]
        BY <2>1, <2>4, DifferByName
    <2> QED
        BY <2>5 DEF RolesDiffer
<1> QED
    BY <1>1, IInvHolds, PTL DEF Spec, RolesStable

\* A 487 that is accepted leaves the two agents in different roles
THEOREM ConflictReplyResolvesHolds == Spec => ConflictReplyResolves
<1>1. IInv /\ IInv' /\ [Next]_vars =>
        [\A a \in Agents : \A m \in replies :
            m.to = a /\ m.kind = "ROLE_CONFLICT" /\ ReceiveReply(a, m) => RolesDiffer']_vars
    <2> SUFFICES ASSUME IInv, IInv', NEW a \in Agents, NEW m \in replies, m.to = a,
                        m.kind = "ROLE_CONFLICT", ReceiveReply(a, m)
                 PROVE  RolesDiffer'
        OBVIOUS
    <2>1. /\ controlling_mode \in [Agents -> BOOLEAN]
          /\ controlling_mode' \in [Agents -> BOOLEAN]
        BY DEF IInv, TypeOK
    <2>2. /\ controlling_mode'[Loser] = ~controlling_mode[Winner]
          /\ controlling_mode'[Winner] = controlling_mode[Winner]
        BY ReplyRoles
    <2>3. controlling_mode[Winner] \in BOOLEAN
        BY <2>1, WinnerLoser
    <2>4. controlling_mode'[Winner] # controlling_mode'[Loser]
        BY <2>2, <2>3
    <2>5. controlling_mode'["A"] # controlling_mode'["B"]
        BY <2>1, <2>4, DifferByName
    <2> QED
        BY <2>5 DEF RolesDiffer
<1> QED
    BY <1>1, IInvHolds, PTL DEF Spec, ConflictReplyResolves
=============================================================================
