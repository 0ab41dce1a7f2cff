-------------------------- MODULE ConnCheckProofs --------------------------
(***************************************************************************)
(* Proofs about ConnCheck, for any streams, components, candidates, limits *)
(* and events: the pairs of the check lists refer to candidates that their *)
(* component still has, and only a check in progress or one cancelled by   *)
(* the limit on the list has a transaction.                                *)
(*                                                                         *)
(* Each helper has a lemma that says that it preserves the invariant; most *)
(* of them replace pairs of one list, one by one.                          *)
(***************************************************************************)
EXTENDS ConnCheck, Recursion, FiniteSetTheorems, SequenceTheorems

-----------------------------------------------------------------------------
\* Types

Check == [comp : Components, local : Candidates, remote : Addrs, sock : Names,
          found : Foundations \X Foundations, prio : Nat, state : CheckStates,
          nominated : BOOLEAN, controlling : BOOLEAN, restarted : BOOLEAN,
          buf : BOOLEAN, retransmissions : Nat]
Early == [from : Addrs, sock : Names, use : BOOLEAN]
Selection == [local : Candidates, remote : Addrs, prio : Nat]
Component == [state : ComponentStates, locals : Seq(Candidates), remotes : Seq(Candidates),
              incoming : Seq(Early), selected : Selection]
Agents == [controlling : BOOLEAN, timer : BOOLEAN, discovering : BOOLEAN,
           creds : [Streams -> BOOLEAN], list : [Streams -> Seq(Check)],
           comp : [Components -> Component]]

-----------------------------------------------------------------------------
\* The inductive invariant, as predicates on the agent's record

HasLocal(k, l) == \E i \in DOMAIN k.locals : k.locals[i] = l
HasRemote(k, addr) == \E i \in DOMAIN k.remotes : k.remotes[i].addr = addr
HasSock(k, sock) == \E i \in DOMAIN k.locals : k.locals[i].sock = sock

\* Early checks came in on a socket of the component, and so did the checks by
\* which peer reflexive candidates were learned.
ComponentOk(k) ==
    /\ \A i \in DOMAIN k.incoming : HasSock(k, k.incoming[i].sock)
    /\ \A i \in DOMAIN k.remotes :
          k.remotes[i].type = "prflx" => HasSock(k, k.remotes[i].sock)

Quiet(p) == p.buf => p.state \in {"IN_PROGRESS", "CANCELLED"}

\* A pair p of stream s, with the candidates of its component
CheckOk(comp, s, p) ==
    /\ StreamOf[p.comp] = s
    /\ HasLocal(comp[p.comp], p.local)
    /\ HasRemote(comp[p.comp], p.remote)
    /\ HasSock(comp[p.comp], p.sock)
    /\ Quiet(p)

Good(a) ==
    /\ a \in Agents
    /\ \A c \in Components : ComponentOk(a.comp[c])
    /\ \A s \in Streams : \A i \in DOMAIN a.list[s] : CheckOk(a.comp, s, a.list[s][i])

\* Agents with the same candidates and early checks
Alike(a, b) ==
    \A c \in Components : /\ b.comp[c].locals = a.comp[c].locals
                          /\ b.comp[c].remotes = a.comp[c].remotes
                          /\ b.comp[c].incoming = a.comp[c].incoming

-----------------------------------------------------------------------------
\* Numbers, sets of positions and lists

LEMMA MinIn ==
  ASSUME NEW I \in SUBSET Nat, I # {}
  PROVE  Min(I) \in I /\ \A y \in I : Min(I) <= y
BY NatMinimum DEF Min

\* Some position of S has the largest value of f.
LEMMA LargestExists ==
  ASSUME NEW N \in Nat, NEW f \in [1 .. N -> Nat], NEW S \in SUBSET (1 .. N), S # {}
  PROVE  \E i \in S : \A j \in S : f[i] >= f[j]
<1> DEFINE U(n) == S \cap (1 .. n)
           Peak(V) == \E i \in V : \A j \in V : f[i] >= f[j]
           T == {n \in Nat : n <= N => (U(n) = {} \/ Peak(U(n)))}
<1>1. 0 \in T
  OBVIOUS
<1>2. ASSUME NEW n \in Nat, n \in T PROVE n + 1 \in T
  <2>0. SUFFICES ASSUME n + 1 <= N PROVE U(n + 1) = {} \/ Peak(U(n + 1))
    <3> HIDE DEF U, Peak
    <3> QED
      OBVIOUS
  <2>a. U(n) = {} \/ Peak(U(n))
    <3>1. n <= N
      BY <2>0
    <3> HIDE DEF U, Peak
    <3> QED
      BY <1>2, <3>1
  <2>1. CASE n + 1 \notin S
    <3>1. U(n + 1) = U(n)
      BY <2>1
    <3> HIDE DEF U, Peak
    <3> QED
      BY <2>a, <3>1
  <2>2. CASE n + 1 \in S /\ U(n) = {}
    <3>1. U(n + 1) = {n + 1} /\ f[n + 1] \in Nat
      BY <2>0, <2>2
    <3> HIDE DEF U
    <3>2. f[n + 1] >= f[n + 1]
      BY <3>1
    <3> QED
      BY <3>1, <3>2
  <2>3. CASE n + 1 \in S /\ U(n) # {}
    <3>1. PICK i \in U(n) : \A j \in U(n) : f[i] >= f[j]
      BY <2>a, <2>3
    <3>2. /\ U(n + 1) = U(n) \cup {n + 1} /\ f[n + 1] \in Nat /\ f[i] \in Nat
          /\ \A j \in U(n) : f[j] \in Nat
      BY <2>0, <2>3
    <3> HIDE DEF U
    <3>3. CASE f[i] >= f[n + 1]
      <4>1. \A j \in U(n + 1) : f[i] >= f[j]
        BY <3>1, <3>2, <3>3
      <4> QED
        BY <3>1, <3>2, <4>1
    <3>4. CASE ~(f[i] >= f[n + 1])
      <4>1. \A j \in U(n + 1) : f[n + 1] >= f[j]
        BY <3>1, <3>2, <3>4
      <4> QED
        BY <3>2, <4>1
    <3> QED
      BY <3>3, <3>4
  <2> QED
    BY <2>1, <2>2, <2>3
<1>3. N \in T
  <2> HIDE DEF T
  <2> QED
    BY <1>1, <1>2, NatSetInduction
<1>4. U(N) = S
  OBVIOUS
<1> QED
  BY <1>3, <1>4

LEMMA MakeSeq ==
  ASSUME NEW S, NEW n \in Nat, NEW f \in [1 .. n -> S]
  PROVE  f \in Seq(S) /\ Len(f) = n /\ DOMAIN f = 1 .. n
BY SeqDef

\* The streams and components are numbers.
LEMMA Numbers ==
  /\ NStreams \in Nat /\ Streams = 1 .. NStreams
  /\ StreamOf \in [Components -> Streams]
  /\ \E n \in Nat : Components = 1 .. n
BY StreamAssumption DEF Streams, Components

\* The pair priority is a number.
LEMMA PriorityNat ==
  ASSUME NEW o \in Nat, NEW e \in Nat
  PROVE  nice_candidate_pair_priority(o, e) \in Nat
<1> DEFINE x == Min({o, e})
           y == Max({o, e})
<1>1. x \in Nat
  BY MinIn
<1>2. y \in Nat
  <2>1. \E z \in {o, e} : \A w \in {o, e} : z >= w
    OBVIOUS
  <2> QED
    BY <2>1 DEF Max
<1> HIDE DEF x, y
<1>3. PrioBase * x \in Nat
  BY <1>1, PriorityAssumption
<1> QED
  BY <1>2, <1>3 DEF nice_candidate_pair_priority, x, y

LEMMA AgentPriorityNat ==
  ASSUME NEW a, NEW l \in Candidates, NEW r \in Candidates
  PROVE  agent_candidate_pair_priority(a, l, r) \in Nat
<1>1. l.prio \in Nat /\ r.prio \in Nat
  BY DEF Candidates
<1> QED
  BY <1>1, PriorityNat DEF agent_candidate_pair_priority

-----------------------------------------------------------------------------
\* Replacing parts of the agent

\* A step inside a call, which leaves the candidates alone
Kept(a, b) == Good(b) /\ Alike(a, b)

\* The same, with the pairs of each list in their places
InPlace(L, M) == DOMAIN M = DOMAIN L /\ \A i \in DOMAIN L : M[i].comp = L[i].comp
Held(a, b) == Kept(a, b) /\ \A s \in Streams : InPlace(a.list[s], b.list[s])

LEMMA AgentFields ==
  ASSUME NEW a \in Agents
  PROVE  /\ a.controlling \in BOOLEAN /\ a.timer \in BOOLEAN /\ a.discovering \in BOOLEAN
         /\ a.creds \in [Streams -> BOOLEAN] /\ a.list \in [Streams -> Seq(Check)]
         /\ a.comp \in [Components -> Component]
         /\ \A s \in Streams : a.list[s] \in Seq(Check)
         /\ \A c \in Components : a.comp[c] \in Component
BY DEF Agents

LEMMA ListFields ==
  ASSUME NEW a \in Agents, NEW s \in Streams
  PROVE  /\ a.list[s] \in Seq(Check) /\ Len(a.list[s]) \in Nat
         /\ DOMAIN a.list[s] = 1 .. Len(a.list[s])
         /\ \A i \in DOMAIN a.list[s] : a.list[s][i] \in Check
<1>1. a.list[s] \in Seq(Check)
  BY AgentFields
<1> DEFINE L == a.list[s]
<1> HIDE DEF L
<1>2. L \in Seq(Check)
  BY <1>1 DEF L
<1>3. Len(L) \in Nat /\ DOMAIN L = 1 .. Len(L) /\ \A i \in DOMAIN L : L[i] \in Check
  BY <1>2
<1> QED
  BY <1>2, <1>3 DEF L

LEMMA ComponentFields ==
  ASSUME NEW k \in Component
  PROVE  /\ k.state \in ComponentStates /\ k.locals \in Seq(Candidates)
         /\ k.remotes \in Seq(Candidates) /\ k.incoming \in Seq(Early)
         /\ k.selected \in Selection
         /\ DOMAIN k.locals = 1 .. Len(k.locals) /\ Len(k.locals) \in Nat
         /\ DOMAIN k.remotes = 1 .. Len(k.remotes) /\ Len(k.remotes) \in Nat
         /\ DOMAIN k.incoming = 1 .. Len(k.incoming) /\ Len(k.incoming) \in Nat
         /\ \A i \in DOMAIN k.locals : k.locals[i] \in Candidates
         /\ \A i \in DOMAIN k.remotes : k.remotes[i] \in Candidates
         /\ \A i \in DOMAIN k.incoming : k.incoming[i] \in Early
<1>1. /\ k.state \in ComponentStates /\ k.locals \in Seq(Candidates)
      /\ k.remotes \in Seq(Candidates) /\ k.incoming \in Seq(Early)
      /\ k.selected \in Selection
  BY DEF Component
<1> DEFINE l == k.locals
           r == k.remotes
           e == k.incoming
<1>2. l \in Seq(Candidates) /\ r \in Seq(Candidates) /\ e \in Seq(Early)
  BY <1>1
<1> HIDE DEF l, r, e
<1>3. /\ DOMAIN l = 1 .. Len(l) /\ Len(l) \in Nat
      /\ \A i \in DOMAIN l : l[i] \in Candidates
  BY <1>2
<1>4. /\ DOMAIN r = 1 .. Len(r) /\ Len(r) \in Nat
      /\ \A i \in DOMAIN r : r[i] \in Candidates
  BY <1>2
<1>5. /\ DOMAIN e = 1 .. Len(e) /\ Len(e) \in Nat
      /\ \A i \in DOMAIN e : e[i] \in Early
  BY <1>2
<1> QED
  BY <1>1, <1>3, <1>4, <1>5 DEF l, r, e

LEMMA KeptTrans ==
  ASSUME NEW a, NEW b, NEW d, Kept(a, b), Kept(b, d)
  PROVE  Kept(a, d)
BY DEF Kept, Alike

LEMMA KeptSame ==
  ASSUME NEW a, Good(a)
  PROVE  Kept(a, a) /\ Held(a, a)
BY DEF Kept, Alike, Held, InPlace

LEMMA HeldTrans ==
  ASSUME NEW a, NEW b, NEW d, Held(a, b), Held(b, d)
  PROVE  Held(a, d)
<1>1. Kept(a, d)
  BY KeptTrans DEF Held
<1>2. ASSUME NEW s \in Streams PROVE InPlace(a.list[s], d.list[s])
  BY DEF Held, InPlace
<1> QED
  BY <1>1, <1>2 DEF Held

LEMMA ListsReplaced ==
  ASSUME NEW a, Good(a), NEW F \in [Streams -> Seq(Check)],
         \A s \in Streams : \A i \in DOMAIN F[s] : CheckOk(a.comp, s, F[s][i])
  PROVE  Kept(a, [a EXCEPT !.list = F])
<1> DEFINE b == [a EXCEPT !.list = F]
<1>1. a \in Agents /\ \A c \in Components : ComponentOk(a.comp[c])
  BY DEF Good
<1>2. b \in Agents /\ b.comp = a.comp /\ b.list = F
  BY <1>1 DEF Agents
<1> HIDE DEF b
<1>3. Good(b)
  BY <1>1, <1>2 DEF Good
<1>4. Alike(a, b)
  BY <1>2 DEF Alike
<1> QED
  BY <1>3, <1>4 DEF Kept, b

LEMMA ListReplaced ==
  ASSUME NEW a, Good(a), NEW s \in Streams, NEW L \in Seq(Check),
         \A i \in DOMAIN L : CheckOk(a.comp, s, L[i])
  PROVE  Kept(a, [a EXCEPT !.list[s] = L])
<1> DEFINE F == [a.list EXCEPT ![s] = L]
<1>1. a \in Agents /\ a.list \in [Streams -> Seq(Check)]
  BY AgentFields DEF Good
<1>2. F \in [Streams -> Seq(Check)]
  BY <1>1
<1>3. \A t \in Streams : F[t] = IF t = s THEN L ELSE a.list[t]
  BY <1>1
<1>4. [a EXCEPT !.list[s] = L] = [a EXCEPT !.list = F]
  OBVIOUS
<1> HIDE DEF F
<1>5. ASSUME NEW t \in Streams PROVE \A i \in DOMAIN F[t] : CheckOk(a.comp, t, F[t][i])
  <2>1. CASE t = s
    <3>1. F[t] = L
      BY <1>3, <2>1
    <3> QED
      BY <2>1, <3>1
  <2>2. CASE t # s
    <3>1. F[t] = a.list[t]
      BY <1>3, <2>2
    <3> QED
      BY <3>1 DEF Good
  <2> QED
    BY <2>1, <2>2
<1>6. Kept(a, [a EXCEPT !.list = F])
  BY <1>2, <1>5, ListsReplaced
<1> QED
  BY <1>4, <1>6

LEMMA CheckReplaced ==
  ASSUME NEW a, Good(a), NEW s \in Streams, NEW i \in DOMAIN a.list[s],
         NEW p \in Check, CheckOk(a.comp, s, p), p.comp = a.list[s][i].comp
  PROVE  /\ Held(a, WithPair(a, s, i, p))
         /\ WithPair(a, s, i, p).comp = a.comp
         /\ WithPair(a, s, i, p).list[s] = [a.list[s] EXCEPT ![i] = p]
<1> DEFINE L == a.list[s]
           M == [L EXCEPT ![i] = p]
           b == [a EXCEPT !.list[s] = M]
<1>1. WithPair(a, s, i, p) = b
  BY DEF WithPair
<1>2. /\ a \in Agents /\ L \in Seq(Check)
      /\ \A j \in DOMAIN L : CheckOk(a.comp, s, L[j])
  BY ListFields DEF Good
<1>3. b.comp = a.comp /\ b.list[s] = M /\ \A t \in Streams : t # s => b.list[t] = a.list[t]
  BY <1>2 DEF Agents
<1> HIDE DEF L
<1>5. i \in DOMAIN L
  BY DEF L
<1>4. M \in Seq(Check) /\ DOMAIN M = DOMAIN L /\ \A j \in DOMAIN L : j # i => M[j] = L[j]
  <2>1. Len(L) \in Nat /\ L \in [1 .. Len(L) -> Check]
    BY <1>2
  <2>2. M \in [1 .. Len(L) -> Check] /\ DOMAIN M = DOMAIN L
    BY <2>1
  <2> HIDE DEF M
  <2>3. M \in Seq(Check)
    BY <2>1, <2>2, MakeSeq
  <2> QED
    BY <2>2, <2>3 DEF M
<1>6. M[i] = p
  BY <1>5
<1> HIDE DEF M
<1>7. \A j \in DOMAIN M : CheckOk(a.comp, s, M[j])
  BY <1>2, <1>4, <1>6
<1>8. Kept(a, b)
  BY <1>4, <1>7, ListReplaced
<1>9. InPlace(L, M)
  BY <1>4, <1>6 DEF InPlace, L
<1> HIDE DEF b
<1>10. Held(a, b)
  BY <1>3, <1>8, <1>9 DEF Held, InPlace, L
<1> QED
  BY <1>1, <1>3, <1>10 DEF M, L

LEMMA StateReplaced ==
  ASSUME NEW a, Good(a), NEW s \in Streams, NEW i \in DOMAIN a.list[s],
         NEW st \in CheckStates, Quiet([a.list[s][i] EXCEPT !.state = st])
  PROVE  /\ Held(a, SetState(a, s, i, st))
         /\ SetState(a, s, i, st).comp = a.comp
         /\ SetState(a, s, i, st).list[s]
              = [a.list[s] EXCEPT ![i] = [a.list[s][i] EXCEPT !.state = st]]
<1> DEFINE p == a.list[s][i]
           q == [p EXCEPT !.state = st]
<1>1. p \in Check /\ CheckOk(a.comp, s, p)
  BY ListFields DEF Good
<1> HIDE DEF p
<1>2. /\ q \in Check /\ q.comp = p.comp /\ q.local = p.local /\ q.remote = p.remote
      /\ q.sock = p.sock
  BY <1>1 DEF Check
<1>3. Quiet(q)
  BY DEF p
<1> HIDE DEF q
<1>4. CheckOk(a.comp, s, q)
  BY <1>1, <1>2, <1>3 DEF CheckOk
<1>5. /\ Held(a, WithPair(a, s, i, q))
      /\ WithPair(a, s, i, q).comp = a.comp
      /\ WithPair(a, s, i, q).list[s] = [a.list[s] EXCEPT ![i] = q]
  BY <1>2, <1>4, CheckReplaced DEF p
<1> QED
  BY <1>5 DEF SetState, p, q

LEMMA ComponentsReplaced ==
  ASSUME NEW a, Good(a), NEW K \in [Components -> Component],
         \A c \in Components : /\ K[c].locals = a.comp[c].locals
                               /\ K[c].remotes = a.comp[c].remotes
                               /\ K[c].incoming = a.comp[c].incoming
  PROVE  Kept(a, [a EXCEPT !.comp = K])
<1> DEFINE b == [a EXCEPT !.comp = K]
<1>1. a \in Agents /\ \A c \in Components : ComponentOk(a.comp[c])
  BY DEF Good
<1>2. b \in Agents /\ b.comp = K /\ b.list = a.list
  BY <1>1 DEF Agents
<1> HIDE DEF b
<1>3. \A c \in Components : ComponentOk(K[c])
  BY <1>1 DEF ComponentOk, HasSock
<1>4. ASSUME NEW s \in Streams, NEW i \in DOMAIN a.list[s]
      PROVE  CheckOk(K, s, a.list[s][i])
  <2> DEFINE p == a.list[s][i]
  <2>1. p \in Check /\ CheckOk(a.comp, s, p)
    BY <1>1, ListFields DEF Good
  <2> HIDE DEF p
  <2>2. p.comp \in Components
    BY <2>1 DEF Check
  <2>3. CheckOk(K, s, p)
    BY <2>1, <2>2 DEF CheckOk, HasLocal, HasRemote, HasSock
  <2> QED
    BY <2>3 DEF p
<1>5. Good(b)
  BY <1>2, <1>3, <1>4 DEF Good
<1>6. Alike(a, b)
  BY <1>2 DEF Alike
<1> QED
  BY <1>5, <1>6 DEF Kept, b

LEMMA ComponentReplaced ==
  ASSUME NEW a, Good(a), NEW c \in Components, NEW k \in Component,
         k.locals = a.comp[c].locals, k.remotes = a.comp[c].remotes,
         k.incoming = a.comp[c].incoming
  PROVE  Kept(a, [a EXCEPT !.comp[c] = k])
<1> DEFINE K == [a.comp EXCEPT ![c] = k]
<1>1. a.comp \in [Components -> Component]
  BY AgentFields DEF Good
<1>2. [a EXCEPT !.comp[c] = k] = [a EXCEPT !.comp = K]
  OBVIOUS
<1>3. K \in [Components -> Component] /\ \A d \in Components : K[d] = IF d = c THEN k ELSE a.comp[d]
  BY <1>1
<1> HIDE DEF K
<1>4. \A d \in Components : /\ K[d].locals = a.comp[d].locals
                            /\ K[d].remotes = a.comp[d].remotes
                            /\ K[d].incoming = a.comp[d].incoming
  BY <1>3
<1>5. Kept(a, [a EXCEPT !.comp = K])
  BY <1>3, <1>4, ComponentsReplaced
<1> QED
  BY <1>2, <1>5

\* A component that has learned of candidates
Grown(k, m) ==
    /\ \A l : HasLocal(k, l) => HasLocal(m, l)
    /\ \A addr : HasRemote(k, addr) => HasRemote(m, addr)
    /\ \A sock : HasSock(k, sock) => HasSock(m, sock)

LEMMA ComponentGrown ==
  ASSUME NEW a, Good(a), NEW c \in Components, NEW k \in Component,
         Grown(a.comp[c], k), ComponentOk(k)
  PROVE  /\ Good([a EXCEPT !.comp[c] = k])
         /\ [a EXCEPT !.comp[c] = k].comp = [a.comp EXCEPT ![c] = k]
         /\ [a EXCEPT !.comp[c] = k].list = a.list
<1> DEFINE K == [a.comp EXCEPT ![c] = k]
           b == [a EXCEPT !.comp[c] = k]
<1>1. a \in Agents /\ \A d \in Components : ComponentOk(a.comp[d])
  BY DEF Good
<1>2. b \in Agents /\ b.comp = K /\ b.list = a.list
  BY <1>1 DEF Agents
<1>3. \A d \in Components : K[d] = IF d = c THEN k ELSE a.comp[d]
  BY <1>1, AgentFields
<1> HIDE DEF b, K
<1>4. \A d \in Components : ComponentOk(K[d])
  BY <1>1, <1>3
<1>5. ASSUME NEW s \in Streams, NEW i \in DOMAIN a.list[s]
      PROVE  CheckOk(K, s, a.list[s][i])
  <2> DEFINE p == a.list[s][i]
  <2>1. p \in Check /\ CheckOk(a.comp, s, p)
    BY <1>1, ListFields DEF Good
  <2> HIDE DEF p
  <2>2. p.comp \in Components
    BY <2>1 DEF Check
  <2>3. CASE p.comp = c
    <3>1. K[p.comp] = k /\ Grown(a.comp[p.comp], k)
      BY <1>3, <2>2, <2>3
    <3> QED
      BY <2>1, <3>1 DEF CheckOk, Grown, p
  <2>4. CASE p.comp # c
    <3>1. K[p.comp] = a.comp[p.comp]
      BY <1>3, <2>2, <2>4
    <3> QED
      BY <2>1, <3>1 DEF CheckOk, p
  <2> QED
    BY <2>3, <2>4
<1>6. Good(b)
  BY <1>2, <1>4, <1>5 DEF Good
<1> QED
  BY <1>2, <1>6 DEF b, K

\* The pairs of a list replaced one by one (ForEachPair)
LEMMA ChecksMapped ==
  ASSUME NEW a, Good(a), NEW s \in Streams, NEW G \in [DOMAIN a.list[s] -> Check],
         \A i \in DOMAIN a.list[s] : CheckOk(a.comp, s, G[i]) /\ G[i].comp = a.list[s][i].comp
  PROVE  /\ Held(a, [a EXCEPT !.list[s] = G \o <<>>])
         /\ [a EXCEPT !.list[s] = G \o <<>>].comp = a.comp
         /\ [a EXCEPT !.list[s] = G \o <<>>].list[s] = G
<1> DEFINE L == G \o <<>>
           b == [a EXCEPT !.list[s] = L]
           n == Len(a.list[s])
<1>1. a \in Agents /\ n \in Nat /\ DOMAIN a.list[s] = 1 .. n
  BY ListFields DEF Good
<1>2. G \in Seq(Check) /\ DOMAIN G = 1 .. n
  <2> HIDE DEF n
  <2> QED
    BY <1>1, MakeSeq
<1>3. L = G
  BY <1>2
<1>4. b.comp = a.comp /\ b.list[s] = L /\ \A t \in Streams : t # s => b.list[t] = a.list[t]
  BY <1>1 DEF Agents
<1> HIDE DEF L
<1>5. Kept(a, b)
  <2>1. L \in Seq(Check) /\ \A i \in DOMAIN L : CheckOk(a.comp, s, L[i])
    BY <1>1, <1>2, <1>3
  <2> QED
    BY <2>1, ListReplaced
<1> HIDE DEF b
<1>6. Held(a, b)
  BY <1>1, <1>2, <1>3, <1>4, <1>5 DEF Held, InPlace
<1> QED
  BY <1>3, <1>4, <1>6 DEF b, L

-----------------------------------------------------------------------------
\* Sending and scheduling checks

\* p becomes q: another state or check of the same pair of candidates
SamePair(p, q) ==
    /\ q \in Check /\ q.comp = p.comp /\ q.local = p.local /\ q.remote = p.remote
    /\ q.sock = p.sock

LEMMA SamePairOk ==
  ASSUME NEW comp, NEW s, NEW p, NEW q, CheckOk(comp, s, p), SamePair(p, q), Quiet(q)
  PROVE  CheckOk(comp, s, q)
BY DEF CheckOk, SamePair

LEMMA StatePair ==
  ASSUME NEW p \in Check, NEW st \in CheckStates
  PROVE  /\ SamePair(p, [p EXCEPT !.state = st])
         /\ [p EXCEPT !.state = st].buf = p.buf
         /\ [p EXCEPT !.state = st].state = st
BY DEF Check, SamePair

LEMMA InitiatePair ==
  ASSUME NEW a \in Agents, NEW p \in Check
  PROVE  /\ SamePair(p, priv_conn_check_initiate(a, p))
         /\ Quiet(priv_conn_check_initiate(a, p))
<1>1. a.controlling \in BOOLEAN /\ a.creds[StreamOf[p.comp]] \in BOOLEAN
  <2>1. p.comp \in Components
    BY DEF Check
  <2> QED
    BY <2>1, Numbers, AgentFields
<1> DEFINE x == a.controlling
           y == a.creds[StreamOf[p.comp]]
           q == [p EXCEPT !.state = "IN_PROGRESS"]
           r == [q EXCEPT !.nominated = x \/ q.nominated, !.buf = y, !.retransmissions = 0]
<1>2. q \in Check /\ SamePair(p, q) /\ q.state = "IN_PROGRESS"
  BY StatePair DEF CheckStates, SamePair
<1>3. priv_conn_check_initiate(a, p) = r
  BY <1>2 DEF priv_conn_check_initiate, conn_check_send, SamePair
<1> HIDE DEF x, y, q
<1>4. x \in BOOLEAN /\ y \in BOOLEAN
  BY <1>1 DEF x, y
<1>5. (x \/ q.nominated) \in BOOLEAN /\ 0 \in Nat
  OBVIOUS
<1>6. /\ r \in Check /\ r.comp = q.comp /\ r.local = q.local /\ r.remote = q.remote
      /\ r.sock = q.sock /\ r.state = q.state
  BY <1>2, <1>4, <1>5 DEF Check
<1> HIDE DEF r
<1>7. SamePair(p, r) /\ Quiet(r)
  BY <1>2, <1>6 DEF SamePair, Quiet
<1> QED
  BY <1>3, <1>7

LEMMA InitiateReplaced ==
  ASSUME NEW a, Good(a), NEW s \in Streams, NEW i \in DOMAIN a.list[s]
  PROVE  Held(a, WithPair(a, s, i, priv_conn_check_initiate(a, a.list[s][i])))
<1> DEFINE p == a.list[s][i]
           q == priv_conn_check_initiate(a, p)
<1>1. a \in Agents /\ p \in Check /\ CheckOk(a.comp, s, p)
  BY ListFields DEF Good
<1> HIDE DEF p
<1>2. SamePair(p, q) /\ Quiet(q)
  BY <1>1, InitiatePair
<1> HIDE DEF q
<1>3. q \in Check /\ CheckOk(a.comp, s, q)
  BY <1>1, <1>2, SamePairOk DEF SamePair
<1>4. Held(a, WithPair(a, s, i, q))
  BY <1>2, <1>3, CheckReplaced DEF SamePair, p
<1> QED
  BY <1>4 DEF q, p

\* A frozen pair has no transaction, so it may be made waiting.
LEMMA Unfrozen ==
  ASSUME NEW p \in Check, Quiet(p), p.state \in {"FROZEN", "WAITING"}
  PROVE  /\ p.buf = FALSE
         /\ \A st \in CheckStates : Quiet([p EXCEPT !.state = st])
<1>1. p.buf = FALSE
  BY DEF Quiet, Check
<1> QED
  BY <1>1, StatePair DEF Quiet

LEMMA UnfreezeNextHeld ==
  ASSUME NEW a, Good(a)
  PROVE  Held(a, priv_conn_check_unfreeze_next(a))
<1>1. CASE StreamsWith(a, "FROZEN") = {}
  BY <1>1, KeptSame DEF priv_conn_check_unfreeze_next
<1>2. CASE StreamsWith(a, "FROZEN") # {}
  <2> DEFINE W == StreamsWith(a, "FROZEN")
             s == Min(W)
             I == InState(a, s, "FROZEN")
             best == {i \in I : \A j \in I : a.list[s][i].prio >= a.list[s][j].prio}
             k == Min(best)
  <2>1. priv_conn_check_unfreeze_next(a) = SetState(a, s, k, "WAITING")
    BY <1>2, Zenon DEF priv_conn_check_unfreeze_next
  <2>2. W \in SUBSET Streams /\ W # {} /\ W \in SUBSET Nat
    BY <1>2, Numbers DEF StreamsWith
  <2>3. s \in W
    <3> HIDE DEF W
    <3> QED
      BY <2>2, MinIn
  <2>4. s \in Streams /\ I # {}
    BY <2>3 DEF StreamsWith
  <2> HIDE DEF s, W
  <2> DEFINE L == a.list[s]
             f == [i \in 1 .. Len(L) |-> L[i].prio]
  <2>5. /\ Len(L) \in Nat /\ DOMAIN L = 1 .. Len(L)
        /\ \A i \in DOMAIN L : L[i] \in Check /\ CheckOk(a.comp, s, L[i])
    BY <2>4, ListFields DEF Good
  <2>6. I = {i \in DOMAIN L : L[i].state = "FROZEN"}
    BY DEF InState
  <2> HIDE DEF L
  <2>7. f \in [1 .. Len(L) -> Nat] /\ I \in SUBSET (1 .. Len(L))
    BY <2>5, <2>6 DEF Check
  <2>8. \A i \in I : f[i] = L[i].prio
    BY <2>5, <2>6
  <2> HIDE DEF f, I
  <2>9. \E i \in I : \A j \in I : f[i] >= f[j]
    BY <2>4, <2>5, <2>7, LargestExists
  <2>10. best # {} /\ best \in SUBSET Nat /\ best \subseteq I
    <3>1. PICK i \in I : \A j \in I : L[i].prio >= L[j].prio
      BY <2>8, <2>9
    <3>2. i \in best
      BY <3>1 DEF L
    <3>3. best \subseteq I
      OBVIOUS
    <3> HIDE DEF best
    <3> QED
      BY <2>7, <3>2, <3>3
  <2> HIDE DEF best
  <2>11. k \in I
    BY <2>10, MinIn
  <2> HIDE DEF k
  <2>12. k \in DOMAIN a.list[s] /\ a.list[s][k] \in Check /\ CheckOk(a.comp, s, a.list[s][k])
         /\ a.list[s][k].state = "FROZEN"
    BY <2>5, <2>6, <2>11 DEF L
  <2>13. Quiet([a.list[s][k] EXCEPT !.state = "WAITING"]) /\ "WAITING" \in CheckStates
    BY <2>12, Unfrozen DEF CheckOk, CheckStates
  <2>14. Held(a, SetState(a, s, k, "WAITING"))
    BY <2>4, <2>12, <2>13, StateReplaced
  <2> QED
    BY <2>1, <2>14, Zenon
<1> QED
  BY <1>1, <1>2

LEMMA UnfreezeRelatedHeld ==
  ASSUME NEW a, Good(a), NEW s \in Streams, NEW i
  PROVE  Held(a, priv_conn_check_unfreeze_related(a, s, i))
<1> DEFINE R == {j \in InState(a, s, "FROZEN") : a.list[s][j].found = a.list[s][i].found}
<1>1. CASE R = {}
  BY <1>1, UnfreezeNextHeld DEF priv_conn_check_unfreeze_related
<1>2. CASE R # {}
  <2> DEFINE L == a.list[s]
             G == [j \in DOMAIN L |-> IF j \in R THEN [L[j] EXCEPT !.state = "WAITING"] ELSE L[j]]
  <2>1. priv_conn_check_unfreeze_related(a, s, i) = [a EXCEPT !.list[s] = G \o <<>>]
    BY <1>2 DEF priv_conn_check_unfreeze_related, ForEachPair
  <2>2. \A j \in DOMAIN L : L[j] \in Check /\ CheckOk(a.comp, s, L[j])
    BY ListFields DEF Good
  <2>3. \A j \in R : L[j].state = "FROZEN"
    BY DEF InState
  <2> HIDE DEF L, R
  <2>4. ASSUME NEW j \in DOMAIN L
        PROVE  G[j] \in Check /\ CheckOk(a.comp, s, G[j]) /\ G[j].comp = L[j].comp
    <3>1. CASE j \in R
      <4>1. G[j] = [L[j] EXCEPT !.state = "WAITING"]
        BY <3>1
      <4>2. L[j] \in Check /\ CheckOk(a.comp, s, L[j]) /\ Quiet(L[j]) /\ L[j].state = "FROZEN"
        BY <2>2, <2>3, <3>1 DEF CheckOk
      <4> HIDE DEF G
      <4>3. Quiet(G[j])
        BY <4>1, <4>2, Unfrozen DEF CheckStates
      <4>4. SamePair(L[j], G[j])
        BY <4>1, <4>2, StatePair DEF CheckStates
      <4> QED
        BY <4>2, <4>3, <4>4, SamePairOk DEF SamePair
    <3>2. CASE j \notin R
      BY <2>2, <3>2
    <3> QED
      BY <3>1, <3>2
  <2>5. G \in [DOMAIN L -> Check]
    BY <2>4
  <2> HIDE DEF G
  <2>6. Held(a, [a EXCEPT !.list[s] = G \o <<>>])
    BY <2>4, <2>5, ChecksMapped DEF L
  <2> QED
    BY <2>1, <2>6
<1> QED
  BY <1>1, <1>2

-----------------------------------------------------------------------------
\* The selected pair and the component state

LEMMA AlikeOk ==
  ASSUME NEW a, NEW b, Alike(a, b), NEW s, NEW p \in Check, CheckOk(a.comp, s, p)
  PROVE  CheckOk(b.comp, s, p)
<1>1. p.comp \in Components
  BY DEF Check
<1> QED
  BY <1>1 DEF Alike, CheckOk, HasLocal, HasRemote, HasSock

LEMMA RemoteKnown ==
  ASSUME NEW a, Good(a), NEW c \in Components, NEW addr, HasRemote(a.comp[c], addr)
  PROVE  \E i \in DOMAIN a.comp[c].remotes :
            /\ Remote(a, c, addr) = a.comp[c].remotes[i]
            /\ Remote(a, c, addr) \in Candidates
            /\ Remote(a, c, addr).addr = addr
<1> DEFINE rs == a.comp[c].remotes
           I == {i \in 1 .. Len(rs) : rs[i].addr = addr}
           k == IF I # {} THEN Min(I) ELSE 0
<1>1. Remote(a, c, addr) = rs[k]
  BY DEF Remote, SelectInSeq
<1>2. a.comp[c] \in Component
  BY AgentFields DEF Good
<1>3. DOMAIN rs = 1 .. Len(rs) /\ Len(rs) \in Nat /\ \A i \in DOMAIN rs : rs[i] \in Candidates
  BY <1>2, ComponentFields
<1>4. I \in SUBSET Nat /\ I # {}
  BY <1>3 DEF HasRemote
<1> HIDE DEF rs
<1>5. k \in I
  <2> HIDE DEF I
  <2> QED
    BY <1>4, MinIn
<1> HIDE DEF k
<1>6. k \in DOMAIN rs /\ rs[k].addr = addr /\ rs[k] \in Candidates
  BY <1>3, <1>5
<1> QED
  BY <1>1, <1>6 DEF rs

LEMMA FoundPair ==
  ASSUME NEW a, Good(a), NEW c \in Components, NEW lf, NEW rf,
         \E i \in DOMAIN a.comp[c].locals : a.comp[c].locals[i].found = lf,
         \E i \in DOMAIN a.comp[c].remotes : a.comp[c].remotes[i].found = rf
  PROVE  component_find_pair(a, c, lf, rf) \in Selection
<1> DEFINE ls == a.comp[c].locals
           rs == a.comp[c].remotes
           I == {i \in 1 .. Len(ls) : ls[i].found = lf}
           J == {i \in 1 .. Len(rs) : rs[i].found = rf}
           l == ls[IF I # {} THEN Min(I) ELSE 0]
           r == rs[IF J # {} THEN Min(J) ELSE 0]
<1>1. component_find_pair(a, c, lf, rf)
        = [local |-> l, remote |-> r.addr, prio |-> agent_candidate_pair_priority(a, l, r)]
  BY DEF component_find_pair, SelectInSeq
<1>2. a.comp[c] \in Component
  BY AgentFields DEF Good
<1>3. /\ DOMAIN ls = 1 .. Len(ls) /\ Len(ls) \in Nat /\ \A i \in DOMAIN ls : ls[i] \in Candidates
      /\ DOMAIN rs = 1 .. Len(rs) /\ Len(rs) \in Nat /\ \A i \in DOMAIN rs : rs[i] \in Candidates
  BY <1>2, ComponentFields
<1>4. I \in SUBSET Nat /\ I # {} /\ J \in SUBSET Nat /\ J # {}
  BY <1>3
<1>5. I \subseteq DOMAIN ls /\ J \subseteq DOMAIN rs
  BY <1>3
<1> HIDE DEF ls, rs, I, J
<1>6. Min(I) \in I /\ Min(J) \in J
  BY <1>4, MinIn
<1>7. l \in Candidates /\ r \in Candidates
  BY <1>3, <1>4, <1>5, <1>6
<1> HIDE DEF l, r
<1>8. r.addr \in Addrs /\ agent_candidate_pair_priority(a, l, r) \in Nat
  BY <1>7, AgentPriorityNat DEF Candidates
<1> QED
  BY <1>1, <1>7, <1>8 DEF Selection

\* Another state or selected pair of a component
LEMMA ComponentStateHeld ==
  ASSUME NEW a, Good(a), NEW c \in Components, NEW st \in ComponentStates
  PROVE  /\ Held(a, agent_signal_component_state_change(a, c, st))
         /\ agent_signal_component_state_change(a, c, st).list = a.list
<1> DEFINE k == [a.comp[c] EXCEPT !.state = st]
           b == [a EXCEPT !.comp[c] = k]
<1>1. agent_signal_component_state_change(a, c, st) = b
  BY DEF agent_signal_component_state_change
<1>2. a \in Agents /\ a.comp[c] \in Component
  BY AgentFields DEF Good
<1>3. /\ k \in Component /\ k.locals = a.comp[c].locals /\ k.remotes = a.comp[c].remotes
      /\ k.incoming = a.comp[c].incoming
  BY <1>2 DEF Component
<1>4. b.list = a.list
  BY <1>2 DEF Agents
<1> HIDE DEF k
<1>5. Kept(a, b)
  BY <1>3, ComponentReplaced
<1> HIDE DEF b
<1> QED
  BY <1>1, <1>4, <1>5 DEF Held, InPlace

LEMMA UpdateSelectedHeld ==
  ASSUME NEW a, Good(a), NEW c \in Components, NEW p \in Check, p.comp = c,
         CheckOk(a.comp, StreamOf[c], p)
  PROVE  /\ Held(a, priv_update_selected_pair(a, c, p))
         /\ priv_update_selected_pair(a, c, p).list = a.list
<1> DEFINE r == Remote(a, c, p.remote)
           x == component_find_pair(a, c, p.local.found, r.found)
           k == [a.comp[c] EXCEPT !.selected = x]
           b == [a EXCEPT !.comp[c] = k]
<1>1. CASE ~(p.prio > a.comp[c].selected.prio)
  BY <1>1, KeptSame DEF priv_update_selected_pair
<1>2. CASE p.prio > a.comp[c].selected.prio
  <2>1. priv_update_selected_pair(a, c, p) = b
    BY <1>2 DEF priv_update_selected_pair
  <2>2. HasLocal(a.comp[c], p.local) /\ HasRemote(a.comp[c], p.remote)
    BY DEF CheckOk
  <2>3. \E i \in DOMAIN a.comp[c].locals : a.comp[c].locals[i].found = p.local.found
    BY <2>2 DEF HasLocal
  <2>4. \E i \in DOMAIN a.comp[c].remotes : a.comp[c].remotes[i].found = r.found
    BY <2>2, RemoteKnown
  <2> HIDE DEF r
  <2>5. x \in Selection
    BY <2>3, <2>4, FoundPair
  <2> HIDE DEF x
  <2>6. a \in Agents /\ a.comp[c] \in Component
    BY AgentFields DEF Good
  <2>7. /\ k \in Component /\ k.locals = a.comp[c].locals /\ k.remotes = a.comp[c].remotes
        /\ k.incoming = a.comp[c].incoming
    BY <2>5, <2>6 DEF Component
  <2>8. b.list = a.list
    BY <2>6 DEF Agents
  <2> HIDE DEF k
  <2>9. Kept(a, b)
    BY <2>7, ComponentReplaced
  <2> HIDE DEF b
  <2> QED
    BY <2>1, <2>8, <2>9 DEF Held, InPlace
<1> QED
  BY <1>1, <1>2

LEMMA PrunePendingPair ==
  ASSUME NEW p \in Check, Quiet(p), NEW highest
  PROVE  SamePair(p, PrunePending(p, highest)) /\ Quiet(PrunePending(p, highest))
<1>1. CASE p.state \in {"FROZEN", "WAITING"}
  <2>1. PrunePending(p, highest) = [p EXCEPT !.state = "CANCELLED"]
    BY <1>1 DEF PrunePending
  <2> DEFINE q == [p EXCEPT !.state = "CANCELLED"]
  <2>2. SamePair(p, q) /\ q.state = "CANCELLED"
    BY StatePair DEF CheckStates
  <2> HIDE DEF q
  <2>3. Quiet(q)
    BY <2>2 DEF Quiet
  <2> QED
    BY <2>1, <2>2, <2>3 DEF q
<1>2. CASE p.state = "IN_PROGRESS" /\ highest # 0 /\ p.prio < highest
  <2> DEFINE q == [p EXCEPT !.state = "CANCELLED", !.buf = FALSE]
  <2>1. PrunePending(p, highest) = q
    BY <1>2 DEF PrunePending
  <2>2. q \in Check /\ q.comp = p.comp /\ q.local = p.local /\ q.remote = p.remote
        /\ q.sock = p.sock /\ q.buf = FALSE
    BY DEF Check, CheckStates
  <2> QED
    BY <2>1, <2>2 DEF SamePair, Quiet
<1>3. CASE ~(p.state \in {"FROZEN", "WAITING"})
           /\ ~(p.state = "IN_PROGRESS" /\ highest # 0 /\ p.prio < highest)
  <2>1. PrunePending(p, highest) = p
    BY <1>3 DEF PrunePending
  <2> QED
    BY <2>1 DEF SamePair
<1> QED
  BY <1>1, <1>2, <1>3

LEMMA PrunePendingHeld ==
  ASSUME NEW a, Good(a), NEW c \in Components
  PROVE  Held(a, priv_prune_pending_checks(a, c))
<1> DEFINE s == StreamOf[c]
           L == a.list[s]
           h == HighestNominated(a, c)
           G == [i \in DOMAIN L |-> IF L[i].comp = c THEN PrunePending(L[i], h) ELSE L[i]]
<1>1. priv_prune_pending_checks(a, c) = [a EXCEPT !.list[s] = G \o <<>>]
  BY DEF priv_prune_pending_checks, ForEachPair
<1>2. s \in Streams
  BY Numbers
<1>3. \A i \in DOMAIN L : L[i] \in Check /\ CheckOk(a.comp, s, L[i])
  BY <1>2, ListFields DEF Good
<1> HIDE DEF L, h, s
<1>4. ASSUME NEW i \in DOMAIN L
      PROVE  G[i] \in Check /\ CheckOk(a.comp, s, G[i]) /\ G[i].comp = L[i].comp
  <2>1. CASE L[i].comp = c
    <3>1. G[i] = PrunePending(L[i], h)
      BY <2>1
    <3>2. SamePair(L[i], G[i]) /\ Quiet(G[i])
      BY <1>3, <3>1, PrunePendingPair DEF CheckOk
    <3> HIDE DEF G
    <3> QED
      BY <1>3, <3>2, SamePairOk DEF SamePair
  <2>2. CASE L[i].comp # c
    BY <1>3, <2>2
  <2> QED
    BY <2>1, <2>2
<1>5. G \in [DOMAIN L -> Check]
  BY <1>4
<1> HIDE DEF G
<1>6. Held(a, [a EXCEPT !.list[s] = G \o <<>>])
  BY <1>2, <1>4, <1>5, ChecksMapped DEF L
<1> QED
  BY <1>1, <1>6

LEMMA ReadyHeld ==
  ASSUME NEW a, Good(a), NEW c \in Components
  PROVE  Held(a, priv_update_check_list_state_for_ready(a, c))
<1> DEFINE x == priv_prune_pending_checks(a, c)
           y == agent_signal_component_state_change(x, c, "READY")
<1>1. Held(a, x)
  BY PrunePendingHeld
<1>2. \/ priv_update_check_list_state_for_ready(a, c) = a
      \/ priv_update_check_list_state_for_ready(a, c) = x
      \/ priv_update_check_list_state_for_ready(a, c) = y
  BY DEF priv_update_check_list_state_for_ready
<1> HIDE DEF x
<1>3. Held(x, y)
  BY <1>1, ComponentStateHeld DEF Held, Kept, ComponentStates
<1> HIDE DEF y
<1> QED
  BY <1>1, <1>2, <1>3, KeptSame, HeldTrans

LEMMA FailedHeld ==
  ASSUME NEW a, Good(a), NEW s \in Streams
  PROVE  Held(a, priv_update_check_list_failed_components(a, s))
<1> DEFINE cond(c) == /\ StreamOf[c] = s
                      /\ \A i \in PairsOf(a, c) : Pair(a, c, i).state = "FAILED"
                      /\ a.comp[c].remotes # <<>>
           K == [c \in Components |-> IF cond(c) THEN [a.comp[c] EXCEPT !.state = "FAILED"]
                                                 ELSE a.comp[c]]
<1>1. \/ priv_update_check_list_failed_components(a, s) = a
      \/ priv_update_check_list_failed_components(a, s) = [a EXCEPT !.comp = K \o <<>>]
  BY DEF priv_update_check_list_failed_components, ForEachComponent
<1>2. a \in Agents /\ \A c \in Components : a.comp[c] \in Component
  BY AgentFields DEF Good
<1> HIDE DEF cond
<1>3. ASSUME NEW c \in Components
      PROVE  /\ K[c] \in Component /\ K[c].locals = a.comp[c].locals
             /\ K[c].remotes = a.comp[c].remotes /\ K[c].incoming = a.comp[c].incoming
  <2>1. a.comp[c] \in Component /\ "FAILED" \in ComponentStates
    BY <1>2 DEF ComponentStates
  <2>2. CASE cond(c)
    <3>1. K[c] = [a.comp[c] EXCEPT !.state = "FAILED"]
      BY <2>2
    <3> QED
      BY <2>1, <3>1 DEF Component
  <2>3. CASE ~cond(c)
    BY <2>1, <2>3
  <2> QED
    BY <2>2, <2>3
<1>4. K \in [Components -> Component]
  BY <1>3
<1> HIDE DEF K
<1>5. K \o <<>> = K
  <2>1. PICK n \in Nat : Components = 1 .. n
    BY Numbers
  <2>2. K \in Seq(Component)
    BY <1>4, <2>1, MakeSeq
  <2> QED
    BY <2>2
<1>6. Kept(a, [a EXCEPT !.comp = K])
  BY <1>3, <1>4, ComponentsReplaced
<1>7. [a EXCEPT !.comp = K].list = a.list
  BY <1>2 DEF Agents
<1>8. Held(a, [a EXCEPT !.comp = K])
  BY <1>6, <1>7 DEF Held, InPlace
<1> QED
  BY <1>1, <1>5, <1>8, KeptSame

LEMMA KeepSeq ==
  ASSUME NEW S, NEW L \in Seq(S), NEW T
  PROVE  /\ Keep(L, T) \in Seq(S)
         /\ \A i \in DOMAIN Keep(L, T) : Keep(L, T)[i] \in T /\ \E j \in DOMAIN L : Keep(L, T)[i] = L[j]
BY KeepElements DEF Filters

\* The nominated pairs are offered as the selected pair, one after the other.
LEMMA UpdatesHeld ==
  ASSUME NEW a, Good(a), NEW c \in Components, NEW ok \in Seq(Check),
         \A i \in DOMAIN ok : ok[i].comp = c /\ CheckOk(a.comp, StreamOf[c], ok[i])
  PROVE  Held(a, Loop(LAMBDA x, p : priv_update_selected_pair(x, c, p), a, ok))
<1> DEFINE N == Len(ok)
           D == {x \in Agents : Held(a, x)}
           b == a
           Step(n, y) == priv_update_selected_pair(y, c, ok[n])
           done[n \in 0 .. N] == IF n = 0 THEN b ELSE Step(n, done[n - 1])
           G == [n \in 1 .. N |-> [y \in D |-> Step(n, y)]]
<1>1. N \in Nat
  OBVIOUS
<1>2. Loop(LAMBDA x, p : priv_update_selected_pair(x, c, p), a, ok) = done[N]
  BY DEF Loop
<1>3. b \in D
  BY KeptSame DEF Good
<1>4. ASSUME NEW n \in 1 .. N, NEW y \in D PROVE Step(n, y) \in D
  <2> DEFINE p == ok[n]
             z == Step(n, y)
  <2>1. p \in Check /\ p.comp = c /\ CheckOk(a.comp, StreamOf[c], p)
    OBVIOUS
  <2>2. y \in Agents /\ Held(a, y) /\ Good(y) /\ Alike(a, y)
    BY <1>4 DEF Held, Kept
  <2> HIDE DEF p
  <2>3. CheckOk(y.comp, StreamOf[c], p)
    BY <2>1, <2>2, AlikeOk
  <2>4. Held(y, z)
    BY <2>1, <2>2, <2>3, UpdateSelectedHeld DEF p
  <2> HIDE DEF z
  <2>5. Held(a, z) /\ z \in Agents
    BY <2>2, <2>4, HeldTrans DEF Held, Kept, Good
  <2> QED
    BY <2>5 DEF z
<1> HIDE DEF N, D, b, Step
<1>5. IsStep(G, N, D)
  BY <1>4 DEF IsStep
<1>6. PICK g : Iterates(g, N, D, b, G)
  <2> HIDE DEF G
  <2> QED
    BY <1>1, <1>3, <1>5, RecursionExists, Zenon
<1>7. done = [n \in 0 .. N |-> IF n = 0 THEN b ELSE Step(n, done[n - 1])]
  <2>1. \A n \in 1 .. N : g[n - 1] \in D /\ g[n] = G[n][g[n - 1]]
    BY <1>1, <1>6 DEF Iterates
  <2>2. \A n \in 1 .. N : g[n] = Step(n, g[n - 1])
    BY <2>1
  <2>3. g = [n \in 0 .. N |-> IF n = 0 THEN b ELSE Step(n, g[n - 1])]
    BY <1>1, <1>6, <2>2 DEF Iterates
  <2> QED
    BY <2>3, Zenon DEF done
<1> HIDE DEF done
<1>8. done[0] = b /\ \A n \in 1 .. N : done[n] = Step(n, done[n - 1])
  <2>1. \A n \in 0 .. N : done[n] = IF n = 0 THEN b ELSE Step(n, done[n - 1])
    BY <1>7, Zenon
  <2> QED
    BY <1>1, <2>1
<1>9. \A n \in 0 .. N : done[n] \in D
  <2>1. done[0] \in D /\ \A n \in 1 .. N : done[n - 1] \in D => done[n] \in D
    BY <1>3, <1>4, <1>8
  <2> QED
    BY <1>1, <2>1, IntervalInduction, Zenon
<1>10. done[N] \in D
  BY <1>1, <1>9
<1> QED
  BY <1>2, <1>10 DEF D

LEMMA NominatedHeld ==
  ASSUME NEW a, Good(a), NEW c \in Components, NEW remote
  PROVE  Held(a, priv_mark_pair_nominated(a, c, remote))
<1> DEFINE s == StreamOf[c]
           L == a.list[s]
           match == {i \in PairsOf(a, c) : Pair(a, c, i).remote = remote}
           G == [i \in DOMAIN L |-> IF i \in match THEN [L[i] EXCEPT !.nominated = TRUE] ELSE L[i]]
           x == [a EXCEPT !.list[s] = G \o <<>>]
           T == {p \in ToSet(x.list[s]) : p.comp = c /\ p.remote = remote /\ Valid(p)}
           ok == Keep(x.list[s], T)
           y == Loop(LAMBDA u, p : priv_update_selected_pair(u, c, p), x, ok)
           z == priv_update_check_list_state_for_ready(y, c)
<1>1. priv_mark_pair_nominated(a, c, remote) = a \/ priv_mark_pair_nominated(a, c, remote) = z
  BY DEF priv_mark_pair_nominated, ForEachPair
<1>2. s \in Streams
  BY Numbers
<1>3. \A i \in DOMAIN L : L[i] \in Check /\ CheckOk(a.comp, s, L[i])
  BY <1>2, ListFields DEF Good
<1> HIDE DEF L, match, s, z
<1>4. ASSUME NEW i \in DOMAIN L
      PROVE  G[i] \in Check /\ CheckOk(a.comp, s, G[i]) /\ G[i].comp = L[i].comp
  <2>1. CASE i \in match
    <3> DEFINE p == L[i]
    <3>1. p \in Check /\ CheckOk(a.comp, s, p) /\ G[i] = [p EXCEPT !.nominated = TRUE]
      BY <1>3, <2>1
    <3> HIDE DEF p, G
    <3>2. SamePair(p, G[i]) /\ G[i].buf = p.buf /\ G[i].state = p.state
      BY <3>1 DEF Check, SamePair
    <3>3. Quiet(G[i])
      BY <3>1, <3>2 DEF CheckOk, Quiet
    <3>4. CheckOk(a.comp, s, G[i]) /\ G[i] \in Check /\ G[i].comp = p.comp
      BY <3>1, <3>2, <3>3, SamePairOk DEF SamePair
    <3> QED
      BY <3>4 DEF p
  <2>2. CASE i \notin match
    BY <1>3, <2>2
  <2> QED
    BY <2>1, <2>2
<1>5. G \in [DOMAIN L -> Check]
  BY <1>4
<1> HIDE DEF G
<1>6. Held(a, x)
  BY <1>2, <1>4, <1>5, ChecksMapped DEF L
<1> HIDE DEF x
<1>7. Good(x) /\ x.list[s] \in Seq(Check)
      /\ \A i \in DOMAIN x.list[s] : CheckOk(x.comp, s, x.list[s][i])
  BY <1>2, <1>6, ListFields DEF Held, Kept, Good
<1>8. ok \in Seq(Check) /\ \A i \in DOMAIN ok : ok[i] \in T /\ \E j \in DOMAIN x.list[s] : ok[i] = x.list[s][j]
  <2> HIDE DEF T
  <2> QED
    BY <1>7, KeepSeq
<1> HIDE DEF ok
<1>9. \A i \in DOMAIN ok : ok[i].comp = c /\ CheckOk(x.comp, s, ok[i])
  BY <1>7, <1>8
<1>10. Held(x, y)
  BY <1>7, <1>8, <1>9, UpdatesHeld DEF s
<1> HIDE DEF y
<1>11. Held(y, z)
  BY <1>10, ReadyHeld DEF Held, Kept, z
<1> QED
  BY <1>1, <1>6, <1>10, <1>11, KeptSame, HeldTrans

-----------------------------------------------------------------------------
\* Adding pairs

LEMMA Inserted ==
  ASSUME NEW S, NEW L \in Seq(S), NEW k \in 1 .. Len(L) + 1, NEW p \in S
  PROVE  /\ InsertAt(L, k, p) \in Seq(S)
         /\ Len(InsertAt(L, k, p)) = Len(L) + 1
         /\ InsertAt(L, k, p)[k] = p
         /\ \A i \in 1 .. k - 1 : InsertAt(L, k, p)[i] = L[i]
         /\ \A i \in k .. Len(L) : InsertAt(L, k, p)[i + 1] = L[i]
<1> DEFINE A == SubSeq(L, 1, k - 1)
           B == SubSeq(L, k, Len(L))
           M == A \o <<p>> \o B
<1>1. InsertAt(L, k, p) = M
  BY DEF InsertAt
<1>2. /\ A \in Seq(S) /\ Len(A) = k - 1 /\ \A i \in 1 .. k - 1 : A[i] = L[i]
  BY SubSeqProperties
<1>3. /\ B \in Seq(S) /\ Len(B) = Len(L) - k + 1 /\ \A i \in 1 .. Len(L) - k + 1 : B[i] = L[k + i - 1]
  BY SubSeqProperties
<1> HIDE DEF A, B
<1>4. /\ M \in Seq(S) /\ Len(M) = Len(L) + 1
  BY <1>2, <1>3
<1>5. M[k] = p /\ \A i \in 1 .. k - 1 : M[i] = A[i]
  BY <1>2, <1>3
<1>6. ASSUME NEW i \in k .. Len(L) PROVE M[i + 1] = L[i]
  <2>1. i - k + 1 \in 1 .. Len(L) - k + 1
    OBVIOUS
  <2>2. M[i + 1] = B[i - k + 1]
    BY <1>2, <1>3
  <2>3. B[i - k + 1] = L[k + (i - k + 1) - 1]
    BY <1>3, <2>1
  <2>4. k + (i - k + 1) - 1 = i
    OBVIOUS
  <2> QED
    BY <2>2, <2>3, <2>4
<1> HIDE DEF M
<1> QED
  BY <1>1, <1>2, <1>4, <1>5, <1>6

LEMMA SortedPosition ==
  ASSUME NEW L \in Seq(Check), NEW p
  PROVE  \E k \in 1 .. Len(L) + 1 : InsertSorted(L, p) = InsertAt(L, k, p)
<1> DEFINE I == {i \in 1 .. Len(L) : L[i].prio <= p.prio}
           j == IF I # {} THEN Min(I) ELSE 0
           k == IF j = 0 THEN Len(L) + 1 ELSE j
<1>1. InsertSorted(L, p) = InsertAt(L, k, p)
  BY DEF InsertSorted, SelectInSeq
<1>2. I \in SUBSET Nat /\ I \subseteq 1 .. Len(L) /\ Len(L) \in Nat
  OBVIOUS
<1> HIDE DEF I
<1>3. j = 0 \/ j \in 1 .. Len(L)
  BY <1>2, MinIn
<1> HIDE DEF j
<1>4. k \in 1 .. Len(L) + 1
  BY <1>2, <1>3
<1> QED
  BY <1>1, <1>4

\* The component and the local candidate of a pair
Owner(p) == <<p.comp, p.local>>

\* The pairs of L are those of M in the same order, but for the state; the
\* other pairs of M have the owner o.
Embedding(e, L, M, o) ==
    /\ e \in [DOMAIN L -> DOMAIN M]
    /\ \A i, j \in DOMAIN L : i < j => e[i] < e[j]
    /\ \A i \in DOMAIN L : M[e[i]].buf = L[i].buf /\ Owner(M[e[i]]) = Owner(L[i])
    /\ \A k \in DOMAIN M : Owner(M[k]) = o \/ \E i \in DOMAIN L : e[i] = k
Embeds(L, M, o) == \E e : Embedding(e, L, M, o)

LEMMA EmbedsSelf ==
  ASSUME NEW L, NEW M, NEW o, DOMAIN M = DOMAIN L,
         \A i \in DOMAIN L : M[i].buf = L[i].buf /\ Owner(M[i]) = Owner(L[i])
  PROVE  Embeds(L, M, o)
<1> DEFINE e == [i \in DOMAIN L |-> i]
<1>1. Embedding(e, L, M, o)
  BY DEF Embedding
<1> QED
  BY <1>1 DEF Embeds

LEMMA EmbedsTrans ==
  ASSUME NEW L, NEW M, NEW K, NEW o, Embeds(L, M, o), Embeds(M, K, o)
  PROVE  Embeds(L, K, o)
<1>1. PICK e : Embedding(e, L, M, o)
  BY DEF Embeds
<1>2. PICK f : Embedding(f, M, K, o)
  BY DEF Embeds
<1> DEFINE g == [i \in DOMAIN L |-> f[e[i]]]
<1>3. g \in [DOMAIN L -> DOMAIN K]
  BY <1>1, <1>2 DEF Embedding
<1>4. \A i, j \in DOMAIN L : i < j => g[i] < g[j]
  BY <1>1, <1>2 DEF Embedding
<1>5. \A i \in DOMAIN L : K[g[i]].buf = L[i].buf /\ Owner(K[g[i]]) = Owner(L[i])
  BY <1>1, <1>2 DEF Embedding
<1>6. ASSUME NEW k \in DOMAIN K PROVE Owner(K[k]) = o \/ \E i \in DOMAIN L : g[i] = k
  <2>1. CASE Owner(K[k]) = o
    BY <2>1
  <2>2. CASE \E m \in DOMAIN M : f[m] = k
    <3>1. PICK m \in DOMAIN M : f[m] = k
      BY <2>2
    <3>2. Owner(M[m]) = o \/ \E i \in DOMAIN L : e[i] = m
      BY <1>1 DEF Embedding
    <3>3. Owner(K[k]) = Owner(M[m])
      BY <1>2, <3>1 DEF Embedding
    <3> QED
      BY <3>1, <3>2, <3>3
  <2> QED
    BY <1>2, <2>1, <2>2 DEF Embedding
<1> HIDE DEF g
<1>7. Embedding(g, L, K, o)
  BY <1>3, <1>4, <1>5, <1>6 DEF Embedding
<1> QED
  BY <1>7 DEF Embeds

LEMMA EmbedsInserted ==
  ASSUME NEW L \in Seq(Check), NEW k \in 1 .. Len(L) + 1, NEW p \in Check
  PROVE  Embeds(L, InsertAt(L, k, p), Owner(p))
<1> DEFINE M == InsertAt(L, k, p)
           e == [i \in DOMAIN L |-> IF i < k THEN i ELSE i + 1]
           n == Len(L)
<1>1. /\ M \in Seq(Check) /\ Len(M) = n + 1 /\ M[k] = p
      /\ \A i \in 1 .. k - 1 : M[i] = L[i]
      /\ \A i \in k .. n : M[i + 1] = L[i]
  BY Inserted
<1> HIDE DEF M
<1>2. n \in Nat /\ DOMAIN L = 1 .. n /\ DOMAIN M = 1 .. n + 1 /\ k \in 1 .. n + 1
  BY <1>1
<1> HIDE DEF n
<1>3. e \in [DOMAIN L -> DOMAIN M]
  BY <1>2
<1>4. \A i, j \in DOMAIN L : i < j => e[i] < e[j]
  BY <1>2
<1>5. ASSUME NEW i \in DOMAIN L PROVE M[e[i]] = L[i]
  <2>1. CASE i < k
    BY <1>1, <1>2, <2>1
  <2>2. CASE ~(i < k)
    <3>1. i \in k .. n /\ e[i] = i + 1
      BY <1>2, <2>2
    <3> QED
      BY <1>1, <3>1
  <2> QED
    BY <2>1, <2>2
<1>6. ASSUME NEW j \in DOMAIN M PROVE Owner(M[j]) = Owner(p) \/ \E i \in DOMAIN L : e[i] = j
  <2>1. CASE j = k
    BY <1>1, <2>1
  <2>2. CASE j < k
    <3>1. j \in DOMAIN L /\ e[j] = j
      BY <1>2, <2>2
    <3> QED
      BY <3>1
  <2>3. CASE j > k
    <3>1. j - 1 \in DOMAIN L /\ e[j - 1] = j
      BY <1>2, <2>3
    <3> QED
      BY <3>1
  <2> QED
    BY <1>2, <2>1, <2>2, <2>3
<1> HIDE DEF e
<1>7. Embedding(e, L, M, Owner(p))
  BY <1>3, <1>4, <1>5, <1>6 DEF Embedding
<1> QED
  BY <1>7 DEF Embeds, M

LEMMA LimitHeld ==
  ASSUME NEW a, Good(a), NEW s \in Streams, NEW o
  PROVE  /\ Held(a, priv_limit_conn_check_list_size(a, s))
         /\ Embeds(a.list[s], priv_limit_conn_check_list_size(a, s).list[s], o)
<1> DEFINE L == a.list[s]
           over(i) == Cardinality({j \in 1 .. i : L[j].state # "CANCELLED"}) > MaxConnChecks
           G == [i \in DOMAIN L |-> IF over(i) THEN [L[i] EXCEPT !.state = "CANCELLED"] ELSE L[i]]
           b == [a EXCEPT !.list[s] = G \o <<>>]
<1>1. priv_limit_conn_check_list_size(a, s) = b
  BY DEF priv_limit_conn_check_list_size, ForEachPair
<1>2. \A i \in DOMAIN L : L[i] \in Check /\ CheckOk(a.comp, s, L[i])
  BY ListFields DEF Good
<1> HIDE DEF L, over
<1>3. ASSUME NEW i \in DOMAIN L
      PROVE  /\ G[i] \in Check /\ CheckOk(a.comp, s, G[i])
             /\ G[i].buf = L[i].buf /\ G[i].local = L[i].local /\ G[i].comp = L[i].comp
  <2>1. CASE over(i)
    <3>1. G[i] = [L[i] EXCEPT !.state = "CANCELLED"] /\ "CANCELLED" \in CheckStates
      BY <2>1 DEF CheckStates
    <3> HIDE DEF G
    <3>2. SamePair(L[i], G[i]) /\ G[i].buf = L[i].buf /\ G[i].state = "CANCELLED"
      BY <1>2, <3>1, StatePair
    <3>3. Quiet(G[i])
      BY <3>2 DEF Quiet
    <3> QED
      BY <1>2, <3>2, <3>3, SamePairOk DEF SamePair
  <2>2. CASE ~over(i)
    BY <1>2, <2>2
  <2> QED
    BY <2>1, <2>2
<1>4. G \in [DOMAIN L -> Check] /\ DOMAIN G = DOMAIN L
  BY <1>3
<1> HIDE DEF G
<1>5. Held(a, b) /\ b.list[s] = G
  <2>1. \A i \in DOMAIN a.list[s] : CheckOk(a.comp, s, G[i]) /\ G[i].comp = a.list[s][i].comp
    BY <1>3 DEF L
  <2>2. G \in [DOMAIN a.list[s] -> Check]
    BY <1>4 DEF L
  <2> QED
    BY <2>1, <2>2, ChecksMapped
<1> HIDE DEF b
<1>6. Embeds(L, G, o)
  <2>1. \A i \in DOMAIN L : Owner(G[i]) = Owner(L[i])
    BY <1>3 DEF Owner
  <2> QED
    BY <1>3, <1>4, <2>1, EmbedsSelf
<1> QED
  BY <1>1, <1>5, <1>6 DEF L

\* What a new pair needs: candidates that the component has
Pairable(a, c, local, remote) ==
    /\ local \in Candidates /\ HasLocal(a.comp[c], local)
    /\ \E i \in DOMAIN a.comp[c].remotes : remote = a.comp[c].remotes[i]

LEMMA NewPairOk ==
  ASSUME NEW a, Good(a), NEW c \in Components, NEW local, NEW remote,
         Pairable(a, c, local, remote), NEW sock \in Names, HasSock(a.comp[c], sock),
         NEW st \in CheckStates, NEW nominated \in BOOLEAN
  PROVE  /\ NewPair(a, c, local, remote, sock, st, nominated) \in Check
         /\ CheckOk(a.comp, StreamOf[c], NewPair(a, c, local, remote, sock, st, nominated))
         /\ NewPair(a, c, local, remote, sock, st, nominated).local = local
         /\ NewPair(a, c, local, remote, sock, st, nominated).comp = c
<1> DEFINE p == NewPair(a, c, local, remote, sock, st, nominated)
           pr == agent_candidate_pair_priority(a, local, remote)
<1>1. a \in Agents /\ a.comp[c] \in Component /\ a.controlling \in BOOLEAN
  BY AgentFields DEF Good
<1>2. local \in Candidates /\ remote \in Candidates
  BY <1>1, ComponentFields DEF Pairable
<1>3. pr \in Nat /\ remote.addr \in Addrs /\ <<local.found, remote.found>> \in Foundations \X Foundations
  BY <1>2, AgentPriorityNat DEF Candidates
<1>4. p = [comp |-> c, local |-> local, remote |-> remote.addr, sock |-> sock,
           found |-> <<local.found, remote.found>>, prio |-> pr,
           state |-> st, nominated |-> nominated, controlling |-> a.controlling,
           restarted |-> FALSE, buf |-> FALSE, retransmissions |-> 0]
  BY DEF NewPair
<1> HIDE DEF p, pr
<1>5. p \in Check
  BY <1>1, <1>2, <1>3, <1>4 DEF Check
<1>6. p.comp = c /\ p.local = local /\ p.remote = remote.addr /\ p.sock = sock /\ p.buf = FALSE
  BY <1>4
<1>7. HasRemote(a.comp[c], remote.addr)
  BY DEF HasRemote, Pairable
<1>8. CheckOk(a.comp, StreamOf[c], p)
  BY <1>6, <1>7 DEF CheckOk, Pairable, Quiet
<1> QED
  BY <1>5, <1>6, <1>8 DEF p

LEMMA InsertedKept ==
  ASSUME NEW a, Good(a), NEW s \in Streams, NEW p \in Check, CheckOk(a.comp, s, p)
  PROVE  /\ Kept(a, [a EXCEPT !.list[s] = InsertSorted(a.list[s], p)])
         /\ [a EXCEPT !.list[s] = InsertSorted(a.list[s], p)].list[s] = InsertSorted(a.list[s], p)
         /\ Embeds(a.list[s], InsertSorted(a.list[s], p), Owner(p))
         /\ \E k \in DOMAIN InsertSorted(a.list[s], p) : InsertSorted(a.list[s], p)[k] = p
<1> DEFINE L == a.list[s]
           M == InsertSorted(L, p)
           b == [a EXCEPT !.list[s] = M]
<1>1. /\ a \in Agents /\ L \in Seq(Check) /\ Len(L) \in Nat /\ DOMAIN L = 1 .. Len(L)
      /\ \A i \in DOMAIN L : CheckOk(a.comp, s, L[i])
  BY ListFields DEF Good
<1>2. b.list[s] = M
  BY <1>1 DEF Agents
<1> HIDE DEF L
<1>3. PICK k \in 1 .. Len(L) + 1 : M = InsertAt(L, k, p)
  BY <1>1, SortedPosition
<1> HIDE DEF M
<1>4. /\ M \in Seq(Check) /\ Len(M) = Len(L) + 1 /\ M[k] = p
      /\ \A i \in 1 .. k - 1 : M[i] = L[i]
      /\ \A i \in k .. Len(L) : M[i + 1] = L[i]
  BY <1>1, <1>3, Inserted
<1>5. Embeds(L, M, Owner(p))
  BY <1>1, <1>3, EmbedsInserted
<1>6. DOMAIN M = 1 .. Len(L) + 1
  BY <1>4
<1>7. ASSUME NEW i \in DOMAIN M PROVE CheckOk(a.comp, s, M[i])
  <2>1. CASE i = k
    BY <1>4, <2>1
  <2>2. CASE i < k
    <3>1. i \in DOMAIN L /\ M[i] = L[i]
      BY <1>1, <1>4, <1>6, <2>2
    <3> QED
      BY <1>1, <3>1
  <2>3. CASE i > k
    <3>1. i - 1 \in k .. Len(L) /\ i - 1 \in DOMAIN L /\ i - 1 + 1 = i
      BY <1>1, <1>6, <2>3
    <3>2. M[i] = L[i - 1]
      BY <1>4, <3>1
    <3> QED
      BY <1>1, <3>1, <3>2
  <2> QED
    BY <1>1, <1>6, <2>1, <2>2, <2>3
<1>8. Kept(a, b)
  BY <1>4, <1>7, ListReplaced
<1> QED
  BY <1>1, <1>2, <1>4, <1>5, <1>6, <1>8 DEF M, L

\* Pairs with the local candidate l were added to stream s
Added(a, b, s, o) == Kept(a, b) /\ Embeds(a.list[s], b.list[s], o)

LEMMA AddedTrans ==
  ASSUME NEW a, NEW b, NEW d, NEW s, NEW o, Added(a, b, s, o), Added(b, d, s, o)
  PROVE  Added(a, d, s, o)
BY KeptTrans, EmbedsTrans DEF Added

LEMMA AddedSame ==
  ASSUME NEW a, Good(a), NEW s, NEW o
  PROVE  Added(a, a, s, o)
BY KeptSame, EmbedsSelf DEF Added

LEMMA AddNewPair ==
  ASSUME NEW a, Good(a), NEW c \in Components, NEW local, NEW remote,
         Pairable(a, c, local, remote), NEW st \in CheckStates, NEW use \in BOOLEAN
  PROVE  Added(a, priv_add_new_check_pair(a, c, local, remote, st, use), StreamOf[c], <<c, local>>)
<1> DEFINE s == StreamOf[c]
           sock == IF remote.type = "prflx" THEN remote.sock ELSE local.sock
           p == NewPair(a, c, local, remote, sock, st, use)
           x == [a EXCEPT !.list[s] = InsertSorted(a.list[s], p)]
           y == priv_limit_conn_check_list_size(x, s)
<1>1. priv_add_new_check_pair(a, c, local, remote, st, use) = y
  BY DEF priv_add_new_check_pair
<1>2. a \in Agents /\ a.comp[c] \in Component /\ ComponentOk(a.comp[c]) /\ s \in Streams
  BY AgentFields, Numbers DEF Good
<1>3. sock \in Names /\ HasSock(a.comp[c], sock)
  <2>1. local \in Candidates /\ remote \in Candidates
    BY <1>2, ComponentFields DEF Pairable
  <2>2. sock \in Names
    BY <2>1 DEF Candidates
  <2>3. HasSock(a.comp[c], local.sock)
    BY DEF Pairable, HasLocal, HasSock
  <2>4. remote.type = "prflx" => HasSock(a.comp[c], remote.sock)
    BY <1>2 DEF Pairable, ComponentOk
  <2> QED
    BY <2>2, <2>3, <2>4
<1> HIDE DEF sock
<1>4. p \in Check /\ CheckOk(a.comp, s, p) /\ Owner(p) = <<c, local>>
  BY <1>3, NewPairOk DEF Owner
<1> HIDE DEF p, s
<1>5. Kept(a, x) /\ Embeds(a.list[s], x.list[s], <<c, local>>)
  BY <1>2, <1>4, InsertedKept
<1> HIDE DEF x
<1>6. Held(x, y) /\ Embeds(x.list[s], y.list[s], <<c, local>>)
  BY <1>2, <1>5, LimitHeld DEF Kept
<1> HIDE DEF y
<1>7. Added(a, x, s, <<c, local>>) /\ Added(x, y, s, <<c, local>>)
  BY <1>5, <1>6 DEF Added, Held
<1>8. Added(a, y, s, <<c, local>>)
  BY <1>7, AddedTrans
<1> QED
  BY <1>1, <1>8 DEF s

LEMMA AddForPair ==
  ASSUME NEW a, Good(a), NEW c \in Components, NEW local, NEW remote,
         Pairable(a, c, local, remote)
  PROVE  Added(a, conn_check_add_for_candidate_pair(a, c, local, remote), StreamOf[c], <<c, local>>)
<1> DEFINE s == StreamOf[c]
           x == priv_add_new_check_pair(a, c, local, remote, "FROZEN", FALSE)
           st == IF a.comp[c].state \in {"CONNECTED", "READY"} THEN "CONNECTED" ELSE "CONNECTING"
           y == agent_signal_component_state_change(x, c, st)
<1>1. \/ conn_check_add_for_candidate_pair(a, c, local, remote) = a
      \/ conn_check_add_for_candidate_pair(a, c, local, remote) = y
  BY DEF conn_check_add_for_candidate_pair
<1>2. Added(a, x, s, <<c, local>>)
  BY AddNewPair DEF CheckStates
<1>3. st \in ComponentStates
  BY DEF ComponentStates
<1> HIDE DEF x, st
<1>4. Held(x, y) /\ y.list = x.list
  BY <1>2, <1>3, ComponentStateHeld DEF Added, Kept
<1> HIDE DEF y
<1>5. Added(x, y, s, <<c, local>>)
  BY <1>4, EmbedsSelf DEF Added, Held
<1> QED
  BY <1>1, <1>2, <1>5, AddedTrans, AddedSame

LEMMA PairableAlike ==
  ASSUME NEW a, NEW b, Alike(a, b), NEW c \in Components, NEW local, NEW remote,
         Pairable(a, c, local, remote)
  PROVE  Pairable(b, c, local, remote)
BY DEF Alike, Pairable, HasLocal

\* A new remote candidate is paired with the local ones.
LEMMA AddForRemote ==
  ASSUME NEW a, Good(a), NEW c \in Components, NEW remote,
         \E i \in DOMAIN a.comp[c].remotes : remote = a.comp[c].remotes[i]
  PROVE  Kept(a, conn_check_add_for_candidate(a, c, remote))
<1> DEFINE N == Len(a.comp[c].locals)
           D == {x \in Agents : Kept(a, x)}
           b == a
           Step(n, y) == conn_check_add_for_candidate_pair(y, c, a.comp[c].locals[n], remote)
           done[n \in 0 .. N] == IF n = 0 THEN b ELSE Step(n, done[n - 1])
           G == [n \in 1 .. N |-> [y \in D |-> Step(n, y)]]
<1>1. N \in Nat
  BY AgentFields, ComponentFields DEF Good
<1>2. conn_check_add_for_candidate(a, c, remote) = done[N]
  BY DEF conn_check_add_for_candidate, Loop
<1>3. b \in D
  BY KeptSame DEF Good
<1>4. ASSUME NEW n \in 1 .. N, NEW y \in D PROVE Step(n, y) \in D
  <2> DEFINE z == Step(n, y)
  <2>1. y \in Agents /\ Kept(a, y) /\ Good(y) /\ Alike(a, y)
    BY <1>4 DEF Kept
  <2>2. Pairable(a, c, a.comp[c].locals[n], remote)
    <3>1. a.comp[c] \in Component /\ n \in DOMAIN a.comp[c].locals
      BY AgentFields, ComponentFields DEF Good
    <3> QED
      BY <3>1, ComponentFields DEF Pairable, HasLocal
  <2>3. Pairable(y, c, a.comp[c].locals[n], remote)
    BY <2>1, <2>2, PairableAlike
  <2>4. Added(y, z, StreamOf[c], <<c, a.comp[c].locals[n]>>)
    BY <2>1, <2>3, AddForPair
  <2> HIDE DEF z
  <2>5. Kept(a, z) /\ z \in Agents
    BY <1>4, <2>1, <2>4, KeptTrans DEF Added, Kept, Good
  <2> QED
    BY <2>5 DEF z
<1> HIDE DEF N, D, b, Step
<1>5. IsStep(G, N, D)
  BY <1>4 DEF IsStep
<1>6. PICK g : Iterates(g, N, D, b, G)
  <2> HIDE DEF G
  <2> QED
    BY <1>1, <1>3, <1>5, RecursionExists, Zenon
<1>7. done = [n \in 0 .. N |-> IF n = 0 THEN b ELSE Step(n, done[n - 1])]
  <2>1. \A n \in 1 .. N : g[n - 1] \in D /\ g[n] = G[n][g[n - 1]]
    BY <1>1, <1>6 DEF Iterates
  <2>2. \A n \in 1 .. N : g[n] = Step(n, g[n - 1])
    BY <2>1
  <2>3. g = [n \in 0 .. N |-> IF n = 0 THEN b ELSE Step(n, g[n - 1])]
    BY <1>1, <1>6, <2>2 DEF Iterates
  <2> QED
    BY <2>3, Zenon DEF done
<1> HIDE DEF done
<1>8. done[0] = b /\ \A n \in 1 .. N : done[n] = Step(n, done[n - 1])
  <2>1. \A n \in 0 .. N : done[n] = IF n = 0 THEN b ELSE Step(n, done[n - 1])
    BY <1>7, Zenon
  <2> QED
    BY <1>1, <2>1
<1>9. \A n \in 0 .. N : done[n] \in D
  <2>1. done[0] \in D /\ \A n \in 1 .. N : done[n - 1] \in D => done[n] \in D
    BY <1>3, <1>4, <1>8
  <2> QED
    BY <1>1, <2>1, IntervalInduction, Zenon
<1>10. done[N] \in D
  BY <1>1, <1>9
<1> QED
  BY <1>2, <1>10 DEF D

\* A new local candidate is paired with the remote ones.
LEMMA AddForLocal ==
  ASSUME NEW a, Good(a), NEW c \in Components, NEW local \in Candidates,
         HasLocal(a.comp[c], local)
  PROVE  Added(a, conn_check_add_for_local_candidate(a, c, local), StreamOf[c], <<c, local>>)
<1> DEFINE N == Len(a.comp[c].remotes)
           D == {x \in Agents : Added(a, x, StreamOf[c], <<c, local>>)}
           b == a
           Step(n, y) == conn_check_add_for_candidate_pair(y, c, local, a.comp[c].remotes[n])
           done[n \in 0 .. N] == IF n = 0 THEN b ELSE Step(n, done[n - 1])
           G == [n \in 1 .. N |-> [y \in D |-> Step(n, y)]]
<1>1. N \in Nat
  BY AgentFields, ComponentFields DEF Good
<1>2. conn_check_add_for_local_candidate(a, c, local) = done[N]
  BY DEF conn_check_add_for_local_candidate, Loop
<1>3. b \in D
  BY AddedSame DEF Good
<1>4. ASSUME NEW n \in 1 .. N, NEW y \in D PROVE Step(n, y) \in D
  <2> DEFINE z == Step(n, y)
  <2>1. y \in Agents /\ Kept(a, y) /\ Good(y) /\ Alike(a, y)
    BY <1>4 DEF Kept, Added
  <2>2. Pairable(a, c, local, a.comp[c].remotes[n])
    <3>1. n \in DOMAIN a.comp[c].remotes
      BY AgentFields, ComponentFields DEF Good
    <3> QED
      BY <3>1 DEF Pairable
  <2>3. Pairable(y, c, local, a.comp[c].remotes[n])
    BY <2>1, <2>2, PairableAlike
  <2>4. Added(y, z, StreamOf[c], <<c, local>>)
    BY <2>1, <2>3, AddForPair
  <2> HIDE DEF z
  <2>5. Added(a, z, StreamOf[c], <<c, local>>) /\ z \in Agents
    BY <1>4, <2>1, <2>4, AddedTrans DEF Added, Kept, Good
  <2> QED
    BY <2>5 DEF z
<1> HIDE DEF N, D, b, Step
<1>5. IsStep(G, N, D)
  BY <1>4 DEF IsStep
<1>6. PICK g : Iterates(g, N, D, b, G)
  <2> HIDE DEF G
  <2> QED
    BY <1>1, <1>3, <1>5, RecursionExists, Zenon
<1>7. done = [n \in 0 .. N |-> IF n = 0 THEN b ELSE Step(n, done[n - 1])]
  <2>1. \A n \in 1 .. N : g[n - 1] \in D /\ g[n] = G[n][g[n - 1]]
    BY <1>1, <1>6 DEF Iterates
  <2>2. \A n \in 1 .. N : g[n] = Step(n, g[n - 1])
    BY <2>1
  <2>3. g = [n \in 0 .. N |-> IF n = 0 THEN b ELSE Step(n, g[n - 1])]
    BY <1>1, <1>6, <2>2 DEF Iterates
  <2> QED
    BY <2>3, Zenon DEF done
<1> HIDE DEF done
<1>8. done[0] = b /\ \A n \in 1 .. N : done[n] = Step(n, done[n - 1])
  <2>1. \A n \in 0 .. N : done[n] = IF n = 0 THEN b ELSE Step(n, done[n - 1])
    BY <1>7, Zenon
  <2> QED
    BY <1>1, <2>1
<1>9. \A n \in 0 .. N : done[n] \in D
  <2>1. done[0] \in D /\ \A n \in 1 .. N : done[n - 1] \in D => done[n] \in D
    BY <1>3, <1>4, <1>8
  <2> QED
    BY <1>1, <2>1, IntervalInduction, Zenon
<1>10. done[N] \in D
  BY <1>1, <1>9
<1> QED
  BY <1>2, <1>10 DEF D

\* A component that has gained candidates, and the agent with it
Learned(a, b, c) ==
    /\ Good(b) /\ Grown(a.comp[c], b.comp[c])
    /\ b.comp[c].locals = a.comp[c].locals /\ b.comp[c].incoming = a.comp[c].incoming

LEMMA LearnedTrans ==
  ASSUME NEW a, NEW b, NEW d, NEW c, Learned(a, b, c), Learned(b, d, c)
  PROVE  Learned(a, d, c)
BY DEF Learned, Grown

LEMMA KeptLearned ==
  ASSUME NEW a, NEW b, Kept(a, b), NEW c \in Components
  PROVE  Learned(a, b, c)
BY DEF Kept, Alike, Learned, Grown, HasLocal, HasRemote, HasSock

LEMMA LocalAppended ==
  ASSUME NEW a, Good(a), NEW c \in Components, NEW cand \in Candidates
  PROVE  /\ Good([a EXCEPT !.comp[c].locals = Append(@, cand)])
         /\ Grown(a.comp[c], [a EXCEPT !.comp[c].locals = Append(@, cand)].comp[c])
         /\ HasLocal([a EXCEPT !.comp[c].locals = Append(@, cand)].comp[c], cand)
         /\ [a EXCEPT !.comp[c].locals = Append(@, cand)].list = a.list
<1> DEFINE m == a.comp[c]
           ls == m.locals
           ks == Append(ls, cand)
           k == [m EXCEPT !.locals = ks]
           b == [a EXCEPT !.comp[c] = k]
<1>1. [a EXCEPT !.comp[c].locals = Append(@, cand)] = b
  OBVIOUS
<1>2. a \in Agents /\ a.comp \in [Components -> Component] /\ m \in Component /\ ComponentOk(m)
  BY AgentFields DEF Good
<1>3. ls \in Seq(Candidates)
  BY <1>2, ComponentFields
<1> HIDE DEF ls, m
<1>4. /\ ks \in Seq(Candidates) /\ \A i \in DOMAIN ls : i \in DOMAIN ks /\ ks[i] = ls[i]
      /\ Len(ls) + 1 \in DOMAIN ks /\ ks[Len(ls) + 1] = cand
  BY <1>3
<1> HIDE DEF ks
<1>5. k \in Component /\ k.locals = ks /\ k.remotes = m.remotes /\ k.incoming = m.incoming
  BY <1>2, <1>4 DEF Component
<1> HIDE DEF k
<1>6. Grown(m, k)
  <2>1. \A l : HasLocal(m, l) => HasLocal(k, l)
    BY <1>4, <1>5 DEF HasLocal, ls
  <2>2. \A sock : HasSock(m, sock) => HasSock(k, sock)
    BY <1>4, <1>5 DEF HasSock, ls
  <2>3. \A addr : HasRemote(m, addr) => HasRemote(k, addr)
    BY <1>5 DEF HasRemote
  <2> QED
    BY <2>1, <2>2, <2>3 DEF Grown
<1>7. ComponentOk(k)
  BY <1>2, <1>5, <1>6 DEF ComponentOk, Grown
<1>8. HasLocal(k, cand)
  BY <1>4, <1>5 DEF HasLocal
<1>9. Good(b) /\ b.comp = [a.comp EXCEPT ![c] = k] /\ b.list = a.list
  BY <1>5, <1>6, <1>7, ComponentGrown DEF m
<1>10. b.comp[c] = k
  BY <1>2, <1>9
<1> QED
  BY <1>1, <1>6, <1>8, <1>9, <1>10 DEF m

LEMMA AddLocal ==
  ASSUME NEW a, Good(a), NEW c \in Components, NEW cand \in Candidates
  PROVE  /\ Good(priv_add_local_candidate_pruned(a, c, cand))
         /\ Grown(a.comp[c], priv_add_local_candidate_pruned(a, c, cand).comp[c])
         /\ ~Redundant(a, c, cand) =>
              /\ HasLocal(priv_add_local_candidate_pruned(a, c, cand).comp[c], cand)
              /\ Embeds(a.list[StreamOf[c]],
                        priv_add_local_candidate_pruned(a, c, cand).list[StreamOf[c]], <<c, cand>>)
<1> DEFINE x == [a EXCEPT !.comp[c].locals = Append(@, cand)]
           y == conn_check_add_for_local_candidate(x, c, cand)
<1>1. CASE Redundant(a, c, cand)
  <2>1. priv_add_local_candidate_pruned(a, c, cand) = a
    BY <1>1 DEF priv_add_local_candidate_pruned
  <2>2. Grown(a.comp[c], a.comp[c])
    BY DEF Grown
  <2> QED
    BY <1>1, <2>1, <2>2
<1>2. CASE ~Redundant(a, c, cand)
  <2>1. priv_add_local_candidate_pruned(a, c, cand) = y
    BY <1>2 DEF priv_add_local_candidate_pruned
  <2>2. Good(x) /\ Grown(a.comp[c], x.comp[c]) /\ HasLocal(x.comp[c], cand) /\ x.list = a.list
    BY LocalAppended
  <2> HIDE DEF x
  <2>3. Added(x, y, StreamOf[c], <<c, cand>>)
    BY <2>2, AddForLocal
  <2> HIDE DEF y
  <2>4. Good(y) /\ Grown(x.comp[c], y.comp[c])
    BY <2>3, KeptLearned DEF Added, Learned
  <2>5. Grown(a.comp[c], y.comp[c]) /\ HasLocal(y.comp[c], cand)
    BY <2>2, <2>4 DEF Grown
  <2> QED
    BY <2>1, <2>2, <2>3, <2>4, <2>5 DEF Added
<1> QED
  BY <1>1, <1>2

\* A remote candidate appended to those of the component
LEMMA RemoteAppended ==
  ASSUME NEW a, Good(a), NEW c \in Components, NEW r \in Candidates,
         r.type = "prflx" => HasSock(a.comp[c], r.sock)
  PROVE  /\ Learned(a, [a EXCEPT !.comp[c].remotes = Append(@, r)], c)
         /\ HasRemote([a EXCEPT !.comp[c].remotes = Append(@, r)].comp[c], r.addr)
<1> DEFINE m == a.comp[c]
           ls == m.remotes
           ks == Append(ls, r)
           k == [m EXCEPT !.remotes = ks]
           b == [a EXCEPT !.comp[c] = k]
<1>1. [a EXCEPT !.comp[c].remotes = Append(@, r)] = b
  OBVIOUS
<1>2. a \in Agents /\ a.comp \in [Components -> Component] /\ m \in Component /\ ComponentOk(m)
  BY AgentFields DEF Good
<1>3. ls \in Seq(Candidates)
  BY <1>2, ComponentFields
<1> HIDE DEF ls, m
<1>4. /\ ks \in Seq(Candidates) /\ \A i \in DOMAIN ls : i \in DOMAIN ks /\ ks[i] = ls[i]
      /\ Len(ls) + 1 \in DOMAIN ks /\ ks[Len(ls) + 1] = r
      /\ \A i \in DOMAIN ks : i \in DOMAIN ls \/ ks[i] = r
  BY <1>3
<1> HIDE DEF ks
<1>5. k \in Component /\ k.remotes = ks /\ k.locals = m.locals /\ k.incoming = m.incoming
  BY <1>2, <1>4 DEF Component
<1> HIDE DEF k
<1>6. Grown(m, k)
  <2>1. \A l : HasRemote(m, l) => HasRemote(k, l)
    BY <1>4, <1>5 DEF HasRemote, ls
  <2>2. \A sock : HasSock(m, sock) => HasSock(k, sock)
    BY <1>5 DEF HasSock
  <2>3. \A addr : HasLocal(m, addr) => HasLocal(k, addr)
    BY <1>5 DEF HasLocal
  <2> QED
    BY <2>1, <2>2, <2>3 DEF Grown
<1>7. ComponentOk(k)
  <2>1. \A i \in DOMAIN k.incoming : HasSock(k, k.incoming[i].sock)
    BY <1>2, <1>5, <1>6 DEF ComponentOk, Grown
  <2>2. \A i \in DOMAIN ls : ls[i].type = "prflx" => HasSock(m, ls[i].sock)
    BY <1>2 DEF ComponentOk, ls
  <2>3. r.type = "prflx" => HasSock(m, r.sock)
    BY DEF m
  <2>4. ASSUME NEW i \in DOMAIN k.remotes, k.remotes[i].type = "prflx"
        PROVE  HasSock(k, k.remotes[i].sock)
    <3>1. HasSock(m, k.remotes[i].sock)
      BY <1>4, <1>5, <2>2, <2>3, <2>4
    <3> QED
      BY <1>6, <3>1 DEF Grown
  <2> QED
    BY <2>1, <2>4 DEF ComponentOk
<1>8. HasRemote(k, r.addr)
  BY <1>4, <1>5 DEF HasRemote
<1>9. Good(b) /\ b.comp = [a.comp EXCEPT ![c] = k]
  BY <1>5, <1>6, <1>7, ComponentGrown DEF m
<1>10. b.comp[c] = k
  BY <1>2, <1>9
<1> QED
  BY <1>1, <1>5, <1>6, <1>8, <1>9, <1>10 DEF m, Learned

LEMMA LearnPair ==
  ASSUME NEW a, Good(a), NEW c \in Components, NEW from \in Addrs, NEW sock \in Names,
         HasSock(a.comp[c], sock)
  PROVE  /\ Learned(a, LearnAndPair(a, c, from, sock), c)
         /\ HasRemote(LearnAndPair(a, c, from, sock).comp[c], from)
<1> DEFINE ls == a.comp[c].locals
           I == {i \in 1 .. Len(ls) : ls[i].sock = sock}
           l == IF I # {} THEN Min(I) ELSE 0
           r == [type |-> "prflx", addr |-> from, sock |-> sock, net |-> ls[l].net,
                 prio |-> PrflxRemotePrio, found |-> PrflxFoundation(from)]
           x == [a EXCEPT !.comp[c].remotes = Append(@, r)]
           y == conn_check_add_for_candidate(x, c, Remote(x, c, from))
<1>1. LearnAndPair(a, c, from, sock) = y
  BY DEF LearnAndPair, discovery_learn_remote_peer_reflexive_candidate, SelectInSeq
<1>2. /\ a.comp[c] \in Component /\ DOMAIN ls = 1 .. Len(ls) /\ Len(ls) \in Nat
      /\ \A i \in DOMAIN ls : ls[i] \in Candidates
  BY AgentFields, ComponentFields DEF Good
<1>3. I \in SUBSET Nat /\ I # {} /\ I \subseteq DOMAIN ls
  BY <1>2 DEF HasSock
<1> HIDE DEF I
<1>4. l \in DOMAIN ls
  BY <1>3, MinIn
<1> HIDE DEF l
<1>5. ls[l].net \in Names
  BY <1>2, <1>4 DEF Candidates
<1>6. PrflxFoundation(from) \in Foundations
  <2>1. from[1] \in Names
    BY DEF Addrs
  <2> QED
    BY <2>1 DEF PrflxFoundation, Foundations, CandidateTypes
<1>7. PrflxRemotePrio \in Nat
  BY PriorityAssumption
<1>8. r \in Candidates /\ r.sock = sock /\ r.addr = from
  BY <1>5, <1>6, <1>7 DEF Candidates, CandidateTypes
<1> HIDE DEF r
<1>9. Learned(a, x, c) /\ HasRemote(x.comp[c], from)
  BY <1>8, RemoteAppended
<1> HIDE DEF x
<1>10. \E i \in DOMAIN x.comp[c].remotes : Remote(x, c, from) = x.comp[c].remotes[i]
  BY <1>9, RemoteKnown DEF Learned
<1>11. Kept(x, y)
  BY <1>9, <1>10, AddForRemote DEF Learned
<1> HIDE DEF y
<1>12. Learned(x, y, c)
  BY <1>11, KeptLearned
<1>13. Learned(a, y, c) /\ HasRemote(y.comp[c], from)
  BY <1>9, <1>12, LearnedTrans DEF Learned, Grown
<1> QED
  BY <1>1, <1>13

-----------------------------------------------------------------------------
\* Triggered checks and roles

LEMMA TriggeredKept ==
  ASSUME NEW a, Good(a), NEW c \in Components, NEW sock, NEW remote,
         HasRemote(a.comp[c], remote), NEW use \in BOOLEAN
  PROVE  Kept(a, priv_schedule_triggered_check(a, c, sock, remote, use))
<1> DEFINE s == StreamOf[c]
           L == a.list[s]
           I == {j \in 1 .. Len(L) : L[j].comp = c /\ L[j].remote = remote
                                        /\ L[j].local.sock = sock}
           i == IF I # {} THEN Min(I) ELSE 0
           p == L[i]
           ls == a.comp[c].locals
           J == {j \in 1 .. Len(ls) : ls[j].sock = sock}
           l == IF J # {} THEN Min(J) ELSE 0
           ready == priv_update_check_list_state_for_ready(a, c)
           x1 == priv_add_new_check_pair(a, c, ls[l], Remote(a, c, remote), "WAITING", use)
           x2 == WithPair(a, s, i, priv_conn_check_initiate(a, p))
           q == [p EXCEPT !.retransmissions = 0, !.restarted = TRUE]
           x3 == WithPair(a, s, i, q)
           x4 == WithPair(ready, s, i, priv_conn_check_initiate(ready, ready.list[s][i]))
           res == priv_schedule_triggered_check(a, c, sock, remote, use)
<1>1. res = CASE i = 0 /\ l = 0 -> a
              [] i = 0 /\ l # 0 -> x1
              [] i # 0 /\ p.state \in {"WAITING", "FROZEN", "FAILED"} -> x2
              [] i # 0 /\ p.state = "IN_PROGRESS" -> IF p.restarted THEN a ELSE x3
              [] i # 0 /\ Valid(p) -> IF a.controlling THEN x4 ELSE ready
              [] OTHER -> a
  BY DEF priv_schedule_triggered_check, SelectInSeq
<1>2. /\ a \in Agents /\ s \in Streams /\ L \in Seq(Check) /\ Len(L) \in Nat
      /\ DOMAIN L = 1 .. Len(L) /\ \A j \in DOMAIN L : L[j] \in Check /\ CheckOk(a.comp, s, L[j])
  BY Numbers, ListFields DEF Good
<1>3. /\ a.comp[c] \in Component /\ DOMAIN ls = 1 .. Len(ls) /\ Len(ls) \in Nat
      /\ \A j \in DOMAIN ls : ls[j] \in Candidates
  BY AgentFields, ComponentFields DEF Good
<1>4. Held(a, ready)
  BY ReadyHeld
<1> HIDE DEF ready
<1>5. i # 0 => i \in DOMAIN L
  <2>1. I \in SUBSET Nat /\ I \subseteq DOMAIN L
    BY <1>2
  <2> HIDE DEF I
  <2> QED
    BY <2>1, MinIn
<1>6. l # 0 => l \in DOMAIN ls
  <2>1. J \in SUBSET Nat /\ J \subseteq DOMAIN ls
    BY <1>3
  <2> HIDE DEF J
  <2> QED
    BY <2>1, MinIn
<1> HIDE DEF i, l
<1>7. res = a \/ (i = 0 /\ l # 0 /\ res = x1) \/ (i # 0 /\ res \in {x2, x4, ready})
        \/ (i # 0 /\ p.state = "IN_PROGRESS" /\ res = x3)
  <2> HIDE DEF res, x1, x2, x3, x4, L
  <2> QED
    BY <1>1
<1>8. CASE i = 0 /\ l # 0 /\ res = x1
  <2> DEFINE lc == ls[l]
             rc == Remote(a, c, remote)
  <2>1. lc \in Candidates /\ HasLocal(a.comp[c], lc)
    BY <1>3, <1>6, <1>8 DEF HasLocal
  <2>2. Pairable(a, c, lc, rc)
    BY <2>1, RemoteKnown DEF Pairable
  <2> HIDE DEF lc, rc
  <2>3. Added(a, priv_add_new_check_pair(a, c, lc, rc, "WAITING", use), s, <<c, lc>>)
    BY <2>2, AddNewPair DEF CheckStates
  <2> QED
    BY <1>8, <2>3 DEF Added, lc, rc
<1>9. CASE i # 0 /\ res = x2
  <2>1. Held(a, x2)
    BY <1>2, <1>5, <1>9, InitiateReplaced
  <2> QED
    BY <1>9, <2>1 DEF Held
<1>10. CASE i # 0 /\ p.state = "IN_PROGRESS" /\ res = x3
  <2>1. p \in Check /\ CheckOk(a.comp, s, p)
    BY <1>2, <1>5, <1>10
  <2> HIDE DEF p
  <2>2. SamePair(p, q) /\ q.state = p.state
    BY <2>1 DEF Check, SamePair
  <2> HIDE DEF q
  <2>3. q \in Check /\ CheckOk(a.comp, s, q)
    BY <1>10, <2>1, <2>2, SamePairOk DEF SamePair, Quiet
  <2>4. Held(a, x3)
    BY <1>2, <1>5, <1>10, <2>2, <2>3, CheckReplaced DEF SamePair, p
  <2> QED
    BY <1>10, <2>4 DEF Held
<1>11. CASE i # 0 /\ res = x4
  <2>1. Good(ready) /\ i \in DOMAIN ready.list[s]
    BY <1>2, <1>4, <1>5, <1>11 DEF Held, InPlace, Kept
  <2>2. Held(ready, x4)
    BY <1>2, <2>1, InitiateReplaced
  <2>3. Held(a, x4)
    BY <1>4, <2>2, HeldTrans
  <2> QED
    BY <1>11, <2>3 DEF Held
<1>12. CASE res = ready
  BY <1>4, <1>12 DEF Held
<1>13. CASE res = a
  BY <1>13, KeptSame
<1> QED
  BY <1>7, <1>8, <1>9, <1>10, <1>11, <1>12, <1>13

\* The priorities are those of the present role; nothing else changes.
Recalculated(a, b) ==
    /\ Held(a, b)
    /\ \A s \in Streams : \A i \in DOMAIN a.list[s] : b.list[s][i].buf = a.list[s][i].buf

LEMMA RecalculatedPair ==
  ASSUME NEW a, Good(a), NEW s \in Streams, NEW p \in Check, CheckOk(a.comp, s, p), NEW q,
         q = [p EXCEPT !.prio = agent_candidate_pair_priority(
                          a, p.local, Remote(a, p.comp, p.remote))]
  PROVE  q \in Check /\ CheckOk(a.comp, s, q) /\ q.buf = p.buf /\ q.comp = p.comp
<1> DEFINE n == agent_candidate_pair_priority(a, p.local, Remote(a, p.comp, p.remote))
<1>1. p.comp \in Components /\ p.local \in Candidates
  BY DEF Check
<1>2. Remote(a, p.comp, p.remote) \in Candidates
  BY <1>1, RemoteKnown DEF CheckOk
<1>3. n \in Nat
  BY <1>1, <1>2, AgentPriorityNat
<1>4. q = [p EXCEPT !.prio = n]
  OBVIOUS
<1> HIDE DEF n
<1>5. SamePair(p, q) /\ q.buf = p.buf /\ q.state = p.state
  BY <1>3, <1>4 DEF Check, SamePair
<1> QED
  BY <1>5, SamePairOk DEF SamePair, CheckOk, Quiet

LEMMA RecalculatePriorities ==
  ASSUME NEW a, Good(a)
  PROVE  Recalculated(a, priv_recalculate_pair_priorities(a))
<1> DEFINE new(p) == [p EXCEPT !.prio = agent_candidate_pair_priority(
                                 a, p.local, Remote(a, p.comp, p.remote))]
           G(s) == [i \in DOMAIN a.list[s] |-> new(a.list[s][i])]
           F == [s \in Streams |-> G(s) \o <<>>]
           b == [a EXCEPT !.list = F]
<1>1. priv_recalculate_pair_priorities(a) = b
  BY DEF priv_recalculate_pair_priorities
<1>2. ASSUME NEW s \in Streams
      PROVE  /\ F[s] \in Seq(Check) /\ DOMAIN F[s] = DOMAIN a.list[s]
             /\ \A i \in DOMAIN a.list[s] :
                   /\ CheckOk(a.comp, s, F[s][i]) /\ F[s][i].buf = a.list[s][i].buf
                   /\ F[s][i].comp = a.list[s][i].comp
  <2> DEFINE L == a.list[s]
             K == [i \in DOMAIN L |-> new(L[i])]
  <2>1. F[s] = K \o <<>>
    OBVIOUS
  <2>2. /\ Len(L) \in Nat /\ DOMAIN L = 1 .. Len(L)
        /\ \A i \in DOMAIN L : L[i] \in Check /\ CheckOk(a.comp, s, L[i])
    BY ListFields DEF Good
  <2> HIDE DEF F, L, new
  <2>3. ASSUME NEW i \in DOMAIN L
        PROVE  /\ K[i] \in Check /\ CheckOk(a.comp, s, K[i]) /\ K[i].buf = L[i].buf
               /\ K[i].comp = L[i].comp
    <3>1. K[i] = new(L[i])
      OBVIOUS
    <3> HIDE DEF K
    <3> QED
      BY <2>2, <3>1, RecalculatedPair DEF new
  <2>4. K \in [1 .. Len(L) -> Check]
    BY <2>2, <2>3
  <2> HIDE DEF K
  <2>5. K \in Seq(Check) /\ DOMAIN K = DOMAIN L
    BY <2>2, <2>4, MakeSeq
  <2>6. K \o <<>> = K
    BY <2>5
  <2> QED
    BY <2>1, <2>3, <2>5, <2>6 DEF L
<1>3. F \in [Streams -> Seq(Check)]
  BY <1>2
<1>4. b.list = F
  BY DEF Good, Agents
<1> HIDE DEF F
<1>5. Kept(a, b)
  BY <1>2, <1>3, ListsReplaced
<1> HIDE DEF b
<1>6. Held(a, b)
  BY <1>2, <1>4, <1>5 DEF Held, InPlace
<1>7. Recalculated(a, b)
  BY <1>2, <1>4, <1>6 DEF Recalculated
<1> QED
  BY <1>1, <1>7

LEMMA RoleConflict ==
  ASSUME NEW a, Good(a), NEW control \in BOOLEAN
  PROVE  Recalculated(a, priv_check_for_role_conflict(a, control))
<1> DEFINE x == [a EXCEPT !.controlling = control]
           y == priv_recalculate_pair_priorities(x)
<1>1. CASE control = a.controlling
  BY <1>1, KeptSame DEF priv_check_for_role_conflict, Recalculated
<1>2. CASE control # a.controlling
  <2>1. priv_check_for_role_conflict(a, control) = y
    BY <1>2 DEF priv_check_for_role_conflict
  <2>2. x \in Agents /\ x.comp = a.comp /\ x.list = a.list
    BY DEF Good, Agents
  <2> HIDE DEF x
  <2>3. Good(x)
    BY <2>2 DEF Good
  <2>4. Held(a, x)
    BY <2>2, <2>3 DEF Held, InPlace, Kept, Alike
  <2>5. Recalculated(x, y)
    BY <2>3, RecalculatePriorities
  <2> HIDE DEF y
  <2>6. Held(a, y)
    BY <2>4, <2>5, HeldTrans DEF Recalculated
  <2>7. Recalculated(a, y)
    BY <2>2, <2>4, <2>5, <2>6 DEF Recalculated
  <2> QED
    BY <2>1, <2>7
<1> QED
  BY <1>1, <1>2

-----------------------------------------------------------------------------
\* Inbound requests

LEMMA KnownHas ==
  ASSUME NEW a, NEW c, NEW addr
  PROVE  KnownRemote(a, c, addr) <=> HasRemote(a.comp[c], addr)
BY DEF KnownRemote, HasRemote, ToSet

\* Other early checks, from the component's sockets
LEMMA IncomingReplaced ==
  ASSUME NEW a, Good(a), NEW c \in Components, NEW e \in Seq(Early),
         \A i \in DOMAIN e : HasSock(a.comp[c], e[i].sock)
  PROVE  Good([a EXCEPT !.comp[c].incoming = e])
<1> DEFINE k == [a.comp[c] EXCEPT !.incoming = e]
           b == [a EXCEPT !.comp[c] = k]
<1>1. [a EXCEPT !.comp[c].incoming = e] = b
  OBVIOUS
<1>2. a.comp[c] \in Component /\ ComponentOk(a.comp[c])
  BY AgentFields DEF Good
<1>3. /\ k \in Component /\ k.locals = a.comp[c].locals /\ k.remotes = a.comp[c].remotes
      /\ k.incoming = e
  BY <1>2 DEF Component
<1> HIDE DEF k
<1>4. Grown(a.comp[c], k)
  BY <1>3 DEF Grown, HasLocal, HasRemote, HasSock
<1>5. ComponentOk(k)
  BY <1>2, <1>3, <1>4 DEF ComponentOk, HasSock
<1>6. Good(b)
  BY <1>3, <1>4, <1>5, ComponentGrown
<1> QED
  BY <1>1, <1>6

LEMMA StorePending ==
  ASSUME NEW a, Good(a), NEW c \in Components, NEW ic \in Early, HasSock(a.comp[c], ic.sock)
  PROVE  Good(priv_store_pending_check(a, c, ic))
<1> DEFINE u == a.comp[c].incoming
           e == Append(u, ic)
<1>1. \/ priv_store_pending_check(a, c, ic) = a
      \/ priv_store_pending_check(a, c, ic) = [a EXCEPT !.comp[c].incoming = e]
  BY DEF priv_store_pending_check
<1>2. a.comp[c] \in Component /\ ComponentOk(a.comp[c])
  BY AgentFields DEF Good
<1>3. u \in Seq(Early) /\ \A i \in DOMAIN u : HasSock(a.comp[c], u[i].sock)
  BY <1>2, ComponentFields DEF ComponentOk
<1> HIDE DEF u
<1>4. /\ e \in Seq(Early) /\ DOMAIN e = 1 .. Len(u) + 1 /\ e[Len(u) + 1] = ic
      /\ \A i \in 1 .. Len(u) : e[i] = u[i] /\ i \in DOMAIN u
  BY <1>3
<1> HIDE DEF e
<1>5. \A i \in DOMAIN e : HasSock(a.comp[c], e[i].sock)
  <2>1. \A i \in DOMAIN e : i = Len(u) + 1 \/ i \in 1 .. Len(u)
    BY <1>3, <1>4
  <2> QED
    BY <1>3, <1>4, <2>1
<1>6. Good([a EXCEPT !.comp[c].incoming = e])
  BY <1>4, <1>5, IncomingReplaced
<1> QED
  BY <1>1, <1>6

LEMMA ReplyKept ==
  ASSUME NEW a, Good(a), NEW c \in Components, NEW sock, NEW remote,
         HasRemote(a.comp[c], remote), NEW use \in BOOLEAN
  PROVE  Kept(a, priv_reply_to_conn_check(a, c, sock, remote, use))
<1> DEFINE x == priv_schedule_triggered_check(a, c, sock, remote, use)
           y == priv_mark_pair_nominated(x, c, remote)
<1>1. priv_reply_to_conn_check(a, c, sock, remote, use) \in {x, y}
  BY DEF priv_reply_to_conn_check
<1>2. Kept(a, x)
  BY TriggeredKept
<1> HIDE DEF x
<1>3. Held(x, y)
  BY <1>2, NominatedHeld DEF Kept
<1> HIDE DEF y
<1> QED
  BY <1>1, <1>2, <1>3, KeptTrans DEF Held

LEMMA HandleRequestGood ==
  ASSUME NEW a, Good(a), NEW c \in Components, NEW sock \in Names, HasSock(a.comp[c], sock),
         NEW from \in Addrs, NEW use \in BOOLEAN, NEW switch \in BOOLEAN
  PROVE  Good(HandleRequest(a, c, sock, from, use, switch))
<1> DEFINE x == IF switch THEN priv_check_for_role_conflict(a, ~a.controlling) ELSE a
           u == use \/ x.controlling
           ic == [from |-> from, sock |-> sock, use |-> u]
           y == IF x.comp[c].remotes # <<>> /\ ~KnownRemote(x, c, from)
                THEN LearnAndPair(x, c, from, sock) ELSE x
           stored == priv_store_pending_check(x, c, ic)
           replied == priv_reply_to_conn_check(y, c, sock, from, u)
<1>1. HandleRequest(a, c, sock, from, use, switch)
        = IF x.comp[c].remotes = <<>> THEN stored ELSE replied
  BY DEF HandleRequest
<1>2. a.controlling \in BOOLEAN
  BY AgentFields DEF Good
<1>3. Kept(a, x)
  BY <1>2, RoleConflict, KeptSame DEF Recalculated, Held
<1> HIDE DEF x
<1>4. Good(x) /\ HasSock(x.comp[c], sock) /\ x.controlling \in BOOLEAN
  BY <1>3, AgentFields DEF Kept, Good, Alike, HasSock
<1>5. u \in BOOLEAN
  BY <1>4
<1> HIDE DEF u
<1>6. CASE x.comp[c].remotes = <<>>
  <2>1. ic \in Early /\ ic.sock = sock
    BY <1>5 DEF Early
  <2> HIDE DEF ic
  <2>2. Good(stored)
    BY <1>4, <2>1, StorePending
  <2> QED
    BY <1>1, <1>6, <2>2
<1>7. CASE x.comp[c].remotes # <<>>
  <2>1. Good(y) /\ HasRemote(y.comp[c], from)
    <3>1. CASE KnownRemote(x, c, from)
      BY <1>4, <3>1, KnownHas
    <3>2. CASE ~KnownRemote(x, c, from)
      BY <1>4, <1>7, <3>2, LearnPair DEF Learned
    <3> QED
      BY <3>1, <3>2
  <2> HIDE DEF y
  <2>2. Kept(y, replied)
    BY <1>5, <2>1, ReplyKept
  <2> HIDE DEF replied
  <2> QED
    BY <1>1, <1>7, <2>2 DEF Kept
<1> QED
  BY <1>6, <1>7

-----------------------------------------------------------------------------
\* Remote candidates set by the application, and early checks

\* The loops over all the streams and all the components
LEMMA AllInOrder ==
  /\ Len(StreamSeq) \in Nat /\ \A n \in 1 .. Len(StreamSeq) : StreamSeq[n] \in Streams
  /\ Len(ComponentSeq) \in Nat /\ \A n \in 1 .. Len(ComponentSeq) : ComponentSeq[n] \in Components
<1>1. StreamSeq \in [1 .. NStreams -> Streams] /\ NStreams \in Nat
  BY Numbers DEF StreamSeq
<1>2. PICK m \in Nat : Components = 1 .. m
  BY Numbers
<1>3. ComponentSeq \in [1 .. m -> Components]
  BY <1>2 DEF ComponentSeq
<1>4. Len(StreamSeq) = NStreams
  BY <1>1, MakeSeq
<1>5. Len(ComponentSeq) = m
  BY <1>2, <1>3, MakeSeq
<1> QED
  BY <1>1, <1>2, <1>3, <1>4, <1>5

LEMMA PreprocessCheckKept ==
  ASSUME NEW a, Good(a), NEW c \in Components, NEW p, HasRemote(a.comp[c], p.remote),
         NEW ic \in Early
  PROVE  Kept(a, PreprocessCheck(a, c, p, ic))
<1> DEFINE x == IF ic.use THEN priv_mark_pair_nominated(a, c, p.remote) ELSE a
           y == priv_schedule_triggered_check(x, c, ic.sock, p.remote, ic.use)
<1>1. PreprocessCheck(a, c, p, ic) \in {a, y}
  BY DEF PreprocessCheck
<1>2. Kept(a, x)
  BY NominatedHeld, KeptSame DEF Held
<1> HIDE DEF x
<1>3. Good(x) /\ HasRemote(x.comp[c], p.remote) /\ ic.use \in BOOLEAN
  BY <1>2 DEF Kept, Alike, HasRemote, Early
<1>4. Kept(x, y)
  BY <1>3, TriggeredKept
<1> HIDE DEF y
<1> QED
  BY <1>1, <1>2, <1>4, KeptTrans, KeptSame

LEMMA PreprocessKept ==
  ASSUME NEW a, Good(a), NEW c \in Components, NEW p, HasRemote(a.comp[c], p.remote)
  PROVE  Kept(a, Preprocess(a, c, p))
<1> DEFINE N == Len(a.comp[c].incoming)
           D == {x \in Agents : Kept(a, x)}
           b == a
           Step(n, y) == PreprocessCheck(y, c, p, a.comp[c].incoming[n])
           done[n \in 0 .. N] == IF n = 0 THEN b ELSE Step(n, done[n - 1])
           G == [n \in 1 .. N |-> [y \in D |-> Step(n, y)]]
<1>1. N \in Nat
  BY AgentFields, ComponentFields DEF Good
<1>2. Preprocess(a, c, p) = done[N]
  BY DEF Preprocess, Loop
<1>3. b \in D
  BY KeptSame DEF Good
<1>4. ASSUME NEW n \in 1 .. N, NEW y \in D PROVE Step(n, y) \in D
  <2> DEFINE z == Step(n, y)
  <2>1. y \in Agents /\ Kept(a, y) /\ Good(y) /\ Alike(a, y)
    BY <1>4 DEF Kept, Held
  <2>2. HasRemote(y.comp[c], p.remote)
    BY <2>1 DEF Alike, HasRemote
  <2>3. a.comp[c].incoming[n] \in Early
    BY AgentFields, ComponentFields DEF Good
  <2>8. Kept(y, z)
    BY <2>1, <2>2, <2>3, PreprocessCheckKept
  <2> HIDE DEF z
  <2>9. Kept(a, z) /\ z \in Agents
    BY <2>1, <2>8, KeptTrans DEF Kept, Held, Good
  <2> QED
    BY <2>9 DEF z
<1> HIDE DEF N, D, b, Step
<1>5. IsStep(G, N, D)
  BY <1>4 DEF IsStep
<1>6. PICK g : Iterates(g, N, D, b, G)
  <2> HIDE DEF G
  <2> QED
    BY <1>1, <1>3, <1>5, RecursionExists, Zenon
<1>7. done = [n \in 0 .. N |-> IF n = 0 THEN b ELSE Step(n, done[n - 1])]
  <2>1. \A n \in 1 .. N : g[n - 1] \in D /\ g[n] = G[n][g[n - 1]]
    BY <1>1, <1>6 DEF Iterates
  <2>2. \A n \in 1 .. N : g[n] = Step(n, g[n - 1])
    BY <2>1
  <2>3. g = [n \in 0 .. N |-> IF n = 0 THEN b ELSE Step(n, g[n - 1])]
    BY <1>1, <1>6, <2>2 DEF Iterates
  <2> QED
    BY <2>3, Zenon DEF done
<1> HIDE DEF done
<1>8. done[0] = b /\ \A n \in 1 .. N : done[n] = Step(n, done[n - 1])
  <2>1. \A n \in 0 .. N : done[n] = IF n = 0 THEN b ELSE Step(n, done[n - 1])
    BY <1>7, Zenon
  <2> QED
    BY <1>1, <2>1
<1>9. \A n \in 0 .. N : done[n] \in D
  <2>1. done[0] \in D /\ \A n \in 1 .. N : done[n - 1] \in D => done[n] \in D
    BY <1>3, <1>4, <1>8
  <2> QED
    BY <1>1, <2>1, IntervalInduction, Zenon
<1>10. done[N] \in D
  BY <1>1, <1>9
<1> QED
  BY <1>2, <1>10 DEF D

LEMMA EarlyCheckLearned ==
  ASSUME NEW a, Good(a), NEW m \in BOOLEAN, NEW c \in Components, NEW ic \in Early,
         HasSock(a.comp[c], ic.sock)
  PROVE  /\ Learned(a, EarlyCheck([a |-> a, match |-> m], c, ic).a, c)
         /\ EarlyCheck([a |-> a, match |-> m], c, ic) \in [match : BOOLEAN, a : Agents]
<1> DEFINE st == [a |-> a, match |-> m]
           w == m \/ KnownRemote(a, c, ic.from)
           x == LearnAndPair(a, c, ic.from, ic.sock)
           y == IF ic.use THEN priv_mark_pair_nominated(x, c, ic.from) ELSE x
           z == priv_schedule_triggered_check(y, c, ic.sock, ic.from, ic.use)
           v == IF w THEN a ELSE z
<1>1. EarlyCheck(st, c, ic) = [match |-> w, a |-> v]
  BY DEF EarlyCheck
<1>2. w \in BOOLEAN
  BY DEF KnownRemote
<1>3. ic.from \in Addrs /\ ic.sock \in Names /\ ic.use \in BOOLEAN
  BY DEF Early
<1>4. Learned(a, x, c) /\ HasRemote(x.comp[c], ic.from)
  BY <1>3, LearnPair
<1> HIDE DEF x, w
<1>5. Kept(x, y)
  BY <1>4, NominatedHeld, KeptSame DEF Held, Learned
<1> HIDE DEF y
<1>6. Good(y) /\ HasRemote(y.comp[c], ic.from)
  BY <1>4, <1>5 DEF Kept, Alike, HasRemote
<1>7. Kept(y, z)
  BY <1>3, <1>6, TriggeredKept
<1> HIDE DEF z
<1>8. Learned(a, z, c)
  BY <1>4, <1>5, <1>7, KeptTrans, KeptLearned, LearnedTrans
<1>9. Learned(a, a, c)
  BY KeptSame, KeptLearned
<1>10. Learned(a, v, c)
  BY <1>8, <1>9
<1> HIDE DEF v
<1>11. v \in Agents
  BY <1>10 DEF Learned, Good
<1> QED
  BY <1>1, <1>2, <1>10, <1>11

LEMMA EarlyChecksLearned ==
  ASSUME NEW a, Good(a), NEW c \in Components
  PROVE  Good(Loop(LAMBDA x, ic : EarlyCheck(x, c, ic), [a |-> a, match |-> FALSE],
                   a.comp[c].incoming).a)
<1> DEFINE N == Len(a.comp[c].incoming)
           D == {st \in [match : BOOLEAN, a : Agents] : Learned(a, st.a, c)}
           b == [a |-> a, match |-> FALSE]
           Step(n, y) == EarlyCheck(y, c, a.comp[c].incoming[n])
           done[n \in 0 .. N] == IF n = 0 THEN b ELSE Step(n, done[n - 1])
           G == [n \in 1 .. N |-> [y \in D |-> Step(n, y)]]
<1>1. N \in Nat
  BY AgentFields, ComponentFields DEF Good
<1>2. Loop(LAMBDA x, ic : EarlyCheck(x, c, ic), [a |-> a, match |-> FALSE], a.comp[c].incoming) = done[N]
  BY DEF Loop
<1>3. b \in D
  <2>1. a \in Agents /\ Learned(a, a, c)
    BY KeptSame, KeptLearned DEF Good
  <2> QED
    BY <2>1
<1>4. ASSUME NEW n \in 1 .. N, NEW y \in D PROVE Step(n, y) \in D
  <2> DEFINE ic == a.comp[c].incoming[n]
             d == y.a
             m == y.match
  <2>1. d \in Agents /\ m \in BOOLEAN /\ Learned(a, d, c) /\ y = [a |-> d, match |-> m]
    BY <1>4
  <2>2. n \in DOMAIN a.comp[c].incoming /\ ic \in Early /\ ComponentOk(a.comp[c])
    BY AgentFields, ComponentFields DEF Good
  <2>3. HasSock(a.comp[c], ic.sock)
    BY <2>2 DEF ComponentOk
  <2>4. HasSock(d.comp[c], ic.sock) /\ Good(d)
    BY <2>1, <2>3 DEF Learned, Grown
  <2> DEFINE z == EarlyCheck([a |-> d, match |-> m], c, ic)
  <2> HIDE DEF d, m, ic
  <2>5. Learned(d, z.a, c) /\ z \in [match : BOOLEAN, a : Agents]
    BY <2>1, <2>2, <2>4, EarlyCheckLearned
  <2>6. Step(n, y) = z
    BY <2>1 DEF ic
  <2> HIDE DEF z, Step
  <2>7. Learned(a, z.a, c)
    BY <2>1, <2>5, LearnedTrans
  <2> QED
    BY <2>5, <2>6, <2>7
<1> HIDE DEF N, D, b, Step
<1>5. IsStep(G, N, D)
  BY <1>4 DEF IsStep
<1>6. PICK g : Iterates(g, N, D, b, G)
  <2> HIDE DEF G
  <2> QED
    BY <1>1, <1>3, <1>5, RecursionExists, Zenon
<1>7. done = [n \in 0 .. N |-> IF n = 0 THEN b ELSE Step(n, done[n - 1])]
  <2>1. \A n \in 1 .. N : g[n - 1] \in D /\ g[n] = G[n][g[n - 1]]
    BY <1>1, <1>6 DEF Iterates
  <2>2. \A n \in 1 .. N : g[n] = Step(n, g[n - 1])
    BY <2>1
  <2>3. g = [n \in 0 .. N |-> IF n = 0 THEN b ELSE Step(n, g[n - 1])]
    BY <1>1, <1>6, <2>2 DEF Iterates
  <2> QED
    BY <2>3, Zenon DEF done
<1> HIDE DEF done
<1>8. done[0] = b /\ \A n \in 1 .. N : done[n] = Step(n, done[n - 1])
  <2>1. \A n \in 0 .. N : done[n] = IF n = 0 THEN b ELSE Step(n, done[n - 1])
    BY <1>7, Zenon
  <2> QED
    BY <1>1, <2>1
<1>9. \A n \in 0 .. N : done[n] \in D
  <2>1. done[0] \in D /\ \A n \in 1 .. N : done[n - 1] \in D => done[n] \in D
    BY <1>3, <1>4, <1>8
  <2> QED
    BY <1>1, <2>1, IntervalInduction, Zenon
<1>10. done[N] \in D
  BY <1>1, <1>9
<1> QED
  BY <1>2, <1>10 DEF D, Learned

LEMMA UseEarlyGood ==
  ASSUME NEW a, Good(a), NEW c \in Components
  PROVE  Good(UseEarlyChecks(a, c))
<1> DEFINE I == PairsOf(a, c)
           s == StreamOf[c]
           p == Pair(a, c, Min(I))
           x == Preprocess(a, c, p)
           y == Loop(LAMBDA u, ic : EarlyCheck(u, c, ic), [a |-> x, match |-> FALSE],
                     x.comp[c].incoming).a
           z == [y EXCEPT !.comp[c].incoming = <<>>]
<1>1. I = {} => UseEarlyChecks(a, c) = a
  BY DEF UseEarlyChecks
<1>2. I # {} => UseEarlyChecks(a, c) = z
  BY DEF UseEarlyChecks
<1>3. CASE I # {}
  <2>1. s \in Streams
    BY Numbers
  <2>2. DOMAIN a.list[s] \subseteq Nat /\ \A i \in DOMAIN a.list[s] : CheckOk(a.comp, s, a.list[s][i])
    BY <2>1, ListFields DEF Good
  <2>3. I \in SUBSET Nat /\ I \subseteq DOMAIN a.list[s] /\ \A i \in I : Pair(a, c, i).comp = c
    BY <2>2 DEF PairsOf, Pair
  <2> HIDE DEF I
  <2>4. Min(I) \in I
    BY <1>3, <2>3, MinIn
  <2>5. CheckOk(a.comp, s, p) /\ p.comp = c
    BY <2>2, <2>3, <2>4 DEF Pair
  <2> HIDE DEF p
  <2>6. HasRemote(a.comp[c], p.remote)
    BY <2>5 DEF CheckOk
  <2>7. Good(x)
    BY <2>6, PreprocessKept DEF Kept
  <2> HIDE DEF x
  <2>8. Good(y)
    BY <2>7, EarlyChecksLearned
  <2> HIDE DEF y
  <2>9. Good(z)
    <3> DEFINE e == <<>>
    <3>1. e \in Seq(Early) /\ \A i \in DOMAIN e : HasSock(y.comp[c], e[i].sock)
      OBVIOUS
    <3> HIDE DEF e
    <3>2. Good([y EXCEPT !.comp[c].incoming = e])
      BY <2>8, <3>1, IncomingReplaced
    <3> QED
      BY <3>2 DEF e
  <2> QED
    BY <1>2, <1>3, <2>9
<1> QED
  BY <1>1, <1>3

\* What is left of a list without its cancelled pairs
LEMMA PrunedList ==
  ASSUME NEW a, Good(a), NEW s \in Streams
  PROVE  /\ prune_cancelled_conn_check(a.list[s]) \in Seq(Check)
         /\ \A i \in DOMAIN prune_cancelled_conn_check(a.list[s]) :
               CheckOk(a.comp, s, prune_cancelled_conn_check(a.list[s])[i])
<1> DEFINE L == a.list[s]
           T == {p \in ToSet(L) : p.state # "CANCELLED"}
           K == Keep(L, T)
<1>1. prune_cancelled_conn_check(L) = K
  BY DEF prune_cancelled_conn_check
<1>2. L \in Seq(Check) /\ \A i \in DOMAIN L : CheckOk(a.comp, s, L[i])
  BY ListFields DEF Good
<1> HIDE DEF L, T
<1>3. K \in Seq(Check) /\ \A i \in DOMAIN K : \E j \in DOMAIN L : K[i] = L[j]
  BY <1>2, KeepSeq
<1> HIDE DEF K
<1>4. \A i \in DOMAIN K : CheckOk(a.comp, s, K[i])
  BY <1>2, <1>3
<1> QED
  BY <1>1, <1>3, <1>4 DEF L

LEMMA PruneCancelled ==
  ASSUME NEW a, Good(a), NEW s \in Streams
  PROVE  Kept(a, [a EXCEPT !.list[s] = prune_cancelled_conn_check(a.list[s])])
<1> DEFINE L == prune_cancelled_conn_check(a.list[s])
<1>1. L \in Seq(Check) /\ \A i \in DOMAIN L : CheckOk(a.comp, s, L[i])
  BY PrunedList
<1> HIDE DEF L
<1>2. Kept(a, [a EXCEPT !.list[s] = L])
  BY <1>1, ListReplaced
<1> QED
  BY <1>2 DEF L

LEMMA PruneAllCancelled ==
  ASSUME NEW a, Good(a)
  PROVE  Kept(a, [a EXCEPT !.list = [s \in Streams |-> prune_cancelled_conn_check(a.list[s])]])
<1> DEFINE F == [s \in Streams |-> prune_cancelled_conn_check(a.list[s])]
<1>1. F \in [Streams -> Seq(Check)]
  BY PrunedList
<1>2. \A s \in Streams : \A i \in DOMAIN F[s] : CheckOk(a.comp, s, F[s][i])
  BY PrunedList
<1> HIDE DEF F
<1>3. Kept(a, [a EXCEPT !.list = F])
  BY <1>1, <1>2, ListsReplaced
<1> QED
  BY <1>3 DEF F

LEMMA UseAllEarlyGood ==
  ASSUME NEW a, Good(a)
  PROVE  Good(Loop(UseEarlyChecks, a, ComponentSeq))
<1> DEFINE N == Len(ComponentSeq)
           D == {x \in Agents : Good(x)}
           b == a
           Step(n, y) == UseEarlyChecks(y, ComponentSeq[n])
           done[n \in 0 .. N] == IF n = 0 THEN b ELSE Step(n, done[n - 1])
           G == [n \in 1 .. N |-> [y \in D |-> Step(n, y)]]
<1>1. N \in Nat
  BY AllInOrder
<1>2. Loop(UseEarlyChecks, a, ComponentSeq) = done[N]
  BY DEF Loop
<1>3. b \in D
  BY DEF Good
<1>4. ASSUME NEW n \in 1 .. N, NEW y \in D PROVE Step(n, y) \in D
  <2> DEFINE z == Step(n, y)
  <2>1. Good(y)
    OBVIOUS

  <2>8. Good(z)
    BY <2>1, AllInOrder, UseEarlyGood
  <2> HIDE DEF z
  <2>9. z \in Agents
    BY <2>8 DEF Good
  <2> QED
    BY <2>8, <2>9 DEF z
<1> HIDE DEF N, D, b, Step
<1>5. IsStep(G, N, D)
  BY <1>4 DEF IsStep
<1>6. PICK g : Iterates(g, N, D, b, G)
  <2> HIDE DEF G
  <2> QED
    BY <1>1, <1>3, <1>5, RecursionExists, Zenon
<1>7. done = [n \in 0 .. N |-> IF n = 0 THEN b ELSE Step(n, done[n - 1])]
  <2>1. \A n \in 1 .. N : g[n - 1] \in D /\ g[n] = G[n][g[n - 1]]
    BY <1>1, <1>6 DEF Iterates
  <2>2. \A n \in 1 .. N : g[n] = Step(n, g[n - 1])
    BY <2>1
  <2>3. g = [n \in 0 .. N |-> IF n = 0 THEN b ELSE Step(n, g[n - 1])]
    BY <1>1, <1>6, <2>2 DEF Iterates
  <2> QED
    BY <2>3, Zenon DEF done
<1> HIDE DEF done
<1>8. done[0] = b /\ \A n \in 1 .. N : done[n] = Step(n, done[n - 1])
  <2>1. \A n \in 0 .. N : done[n] = IF n = 0 THEN b ELSE Step(n, done[n - 1])
    BY <1>7, Zenon
  <2> QED
    BY <1>1, <2>1
<1>9. \A n \in 0 .. N : done[n] \in D
  <2>1. done[0] \in D /\ \A n \in 1 .. N : done[n - 1] \in D => done[n] \in D
    BY <1>3, <1>4, <1>8
  <2> QED
    BY <1>1, <2>1, IntervalInduction, Zenon
<1>10. done[N] \in D
  BY <1>1, <1>9
<1> QED
  BY <1>2, <1>10 DEF D

LEMMA RemoteCandidatesSetGood ==
  ASSUME NEW a, Good(a)
  PROVE  Good(conn_check_remote_candidates_set(a))
<1> DEFINE x == Loop(UseEarlyChecks, a, ComponentSeq)
           y == [x EXCEPT !.list = [s \in Streams |-> prune_cancelled_conn_check(x.list[s])]]
<1>1. conn_check_remote_candidates_set(a) = y
  BY DEF conn_check_remote_candidates_set
<1>2. Good(x)
  BY UseAllEarlyGood
<1> HIDE DEF x
<1>3. Kept(x, y)
  BY <1>2, PruneAllCancelled
<1> HIDE DEF y
<1> QED
  BY <1>1, <1>3 DEF Kept

\* An update of a known remote candidate keeps its address.
LEMMA RemoteUpdated ==
  ASSUME NEW a, Good(a), NEW c \in Components, NEW k \in DOMAIN a.comp[c].remotes,
         NEW r \in Candidates, r.addr = a.comp[c].remotes[k].addr, r.type # "prflx"
  PROVE  /\ Good([a EXCEPT !.comp[c].remotes[k] = r])
         /\ HasRemote([a EXCEPT !.comp[c].remotes[k] = r].comp[c], r.addr)
<1> DEFINE rs == a.comp[c].remotes
           ts == [rs EXCEPT ![k] = r]
           m == [a.comp[c] EXCEPT !.remotes = ts]
           b == [a EXCEPT !.comp[c] = m]
<1>1. [a EXCEPT !.comp[c].remotes[k] = r] = b
  OBVIOUS
<1>2. a \in Agents /\ a.comp \in [Components -> Component] /\ a.comp[c] \in Component /\ ComponentOk(a.comp[c])
  BY AgentFields DEF Good
<1>3. rs \in Seq(Candidates)
  BY <1>2, ComponentFields
<1>4. /\ ts \in Seq(Candidates) /\ DOMAIN ts = DOMAIN rs /\ ts[k] = r
      /\ \A i \in DOMAIN rs : i # k => ts[i] = rs[i]
  <2> HIDE DEF rs
  <2> QED
    BY <1>3 DEF rs
<1> HIDE DEF ts
<1>5. /\ m \in Component /\ m.locals = a.comp[c].locals /\ m.remotes = ts
      /\ m.incoming = a.comp[c].incoming
  BY <1>2, <1>4 DEF Component
<1> HIDE DEF m
<1>6. \A i \in DOMAIN rs : ts[i].addr = rs[i].addr
  BY <1>4
<1>7. Grown(a.comp[c], m)
  BY <1>4, <1>5, <1>6 DEF Grown, HasLocal, HasRemote, HasSock
<1>8. ComponentOk(m)
  <2>1. \A i \in DOMAIN ts : ts[i].type = "prflx" => ts[i] = rs[i]
    BY <1>4
  <2>2. \A sock : HasSock(a.comp[c], sock) => HasSock(m, sock)
    BY <1>7 DEF Grown
  <2> QED
    BY <1>2, <1>4, <1>5, <2>1, <2>2 DEF ComponentOk
<1>9. Good(b) /\ b.comp = [a.comp EXCEPT ![c] = m]
  BY <1>5, <1>7, <1>8, ComponentGrown
<1> HIDE DEF b
<1>10. b.comp[c] = m
  BY <1>2, <1>9
<1>11. HasRemote(m, r.addr)
  BY <1>4, <1>5 DEF HasRemote
<1> QED
  BY <1>1, <1>9, <1>10, <1>11

LEMMA AddRemote ==
  ASSUME NEW a, Good(a), NEW c \in Components, NEW d \in Candidates, d.type # "prflx"
  PROVE  Good(priv_add_remote_candidate(a, c, d))
<1> DEFINE rs == a.comp[c].remotes
           I == {i \in 1 .. Len(rs) : rs[i].addr = d.addr}
           k == IF I # {} THEN Min(I) ELSE 0
           r == [rs[k] EXCEPT !.type = d.type, !.prio = d.prio, !.found = d.found]
           x == IF k # 0 THEN [a EXCEPT !.comp[c].remotes[k] = r]
                         ELSE [a EXCEPT !.comp[c].remotes = Append(@, d)]
           y == conn_check_add_for_candidate(x, c, Remote(x, c, d.addr))
<1>1. priv_add_remote_candidate(a, c, d) = y
  BY DEF priv_add_remote_candidate, SelectInSeq
<1>2. a.comp[c] \in Component
  BY AgentFields DEF Good
<1>3. DOMAIN rs = 1 .. Len(rs) /\ Len(rs) \in Nat /\ \A i \in DOMAIN rs : rs[i] \in Candidates
  BY <1>2, ComponentFields
<1>4. I \in SUBSET Nat /\ I \subseteq DOMAIN rs /\ 0 \notin I /\ \A i \in I : rs[i].addr = d.addr
  BY <1>3
<1>5. k = 0 \/ (k \in DOMAIN rs /\ rs[k].addr = d.addr)
  <2> HIDE DEF I, rs
  <2> QED
    BY <1>4, MinIn
<1> HIDE DEF k
<1>6. Good(x) /\ HasRemote(x.comp[c], d.addr)
  <2>1. CASE k # 0
    <3> DEFINE q == rs[k]
    <3>1. q \in Candidates /\ q.addr = d.addr /\ k \in DOMAIN rs
      BY <1>3, <1>5, <2>1
    <3> HIDE DEF q
    <3>2. /\ [q EXCEPT !.type = d.type, !.prio = d.prio, !.found = d.found] \in Candidates
          /\ [q EXCEPT !.type = d.type, !.prio = d.prio, !.found = d.found].addr = q.addr
          /\ [q EXCEPT !.type = d.type, !.prio = d.prio, !.found = d.found].type = d.type
      BY <3>1 DEF Candidates
    <3>3. r \in Candidates /\ r.addr = d.addr /\ r.type # "prflx" /\ r.addr = rs[k].addr
      BY <3>1, <3>2 DEF q
    <3> HIDE DEF r
    <3>4. /\ Good([a EXCEPT !.comp[c].remotes[k] = r])
          /\ HasRemote([a EXCEPT !.comp[c].remotes[k] = r].comp[c], r.addr)
      BY <3>1, <3>3, RemoteUpdated
    <3> QED
      BY <2>1, <3>3, <3>4
  <2>2. CASE k = 0
    <3>1. /\ Learned(a, [a EXCEPT !.comp[c].remotes = Append(@, d)], c)
          /\ HasRemote([a EXCEPT !.comp[c].remotes = Append(@, d)].comp[c], d.addr)
      BY RemoteAppended
    <3> QED
      BY <2>2, <3>1 DEF Learned
  <2> QED
    BY <2>1, <2>2
<1> HIDE DEF x
<1>7. \E i \in DOMAIN x.comp[c].remotes : Remote(x, c, d.addr) = x.comp[c].remotes[i]
  BY <1>6, RemoteKnown
<1>8. Kept(x, y)
  BY <1>6, <1>7, AddForRemote
<1> HIDE DEF y
<1> QED
  BY <1>1, <1>8 DEF Kept

LEMMA AddRemotes ==
  ASSUME NEW a, Good(a), NEW c \in Components, NEW batch \in Seq(Candidates),
         \A n \in DOMAIN batch : batch[n].type # "prflx"
  PROVE  Good(Loop(LAMBDA x, d : priv_add_remote_candidate(x, c, d), a, batch))
<1> DEFINE N == Len(batch)
           D == {x \in Agents : Good(x)}
           b == a
           Step(n, y) == priv_add_remote_candidate(y, c, batch[n])
           done[n \in 0 .. N] == IF n = 0 THEN b ELSE Step(n, done[n - 1])
           G == [n \in 1 .. N |-> [y \in D |-> Step(n, y)]]
<1>1. N \in Nat
  OBVIOUS
<1>2. Loop(LAMBDA x, d : priv_add_remote_candidate(x, c, d), a, batch) = done[N]
  BY DEF Loop
<1>3. b \in D
  BY DEF Good
<1>4. ASSUME NEW n \in 1 .. N, NEW y \in D PROVE Step(n, y) \in D
  <2> DEFINE z == Step(n, y)
  <2>1. Good(y)
    OBVIOUS
  <2>2. batch[n] \in Candidates /\ batch[n].type # "prflx"
    OBVIOUS
  <2>8. Good(z)
    BY <2>1, <2>2, AddRemote
  <2> HIDE DEF z
  <2>9. z \in Agents
    BY <2>8 DEF Good
  <2> QED
    BY <2>8, <2>9 DEF z
<1> HIDE DEF N, D, b, Step
<1>5. IsStep(G, N, D)
  BY <1>4 DEF IsStep
<1>6. PICK g : Iterates(g, N, D, b, G)
  <2> HIDE DEF G
  <2> QED
    BY <1>1, <1>3, <1>5, RecursionExists, Zenon
<1>7. done = [n \in 0 .. N |-> IF n = 0 THEN b ELSE Step(n, done[n - 1])]
  <2>1. \A n \in 1 .. N : g[n - 1] \in D /\ g[n] = G[n][g[n - 1]]
    BY <1>1, <1>6 DEF Iterates
  <2>2. \A n \in 1 .. N : g[n] = Step(n, g[n - 1])
    BY <2>1
  <2>3. g = [n \in 0 .. N |-> IF n = 0 THEN b ELSE Step(n, g[n - 1])]
    BY <1>1, <1>6, <2>2 DEF Iterates
  <2> QED
    BY <2>3, Zenon DEF done
<1> HIDE DEF done
<1>8. done[0] = b /\ \A n \in 1 .. N : done[n] = Step(n, done[n - 1])
  <2>1. \A n \in 0 .. N : done[n] = IF n = 0 THEN b ELSE Step(n, done[n - 1])
    BY <1>7, Zenon
  <2> QED
    BY <1>1, <2>1
<1>9. \A n \in 0 .. N : done[n] \in D
  <2>1. done[0] \in D /\ \A n \in 1 .. N : done[n - 1] \in D => done[n] \in D
    BY <1>3, <1>4, <1>8
  <2> QED
    BY <1>1, <2>1, IntervalInduction, Zenon
<1>10. done[N] \in D
  BY <1>1, <1>9
<1> QED
  BY <1>2, <1>10 DEF D

-----------------------------------------------------------------------------
\* The pacing timer

LEMMA TimerGood ==
  ASSUME NEW a, Good(a), NEW t \in BOOLEAN
  PROVE  Good([a EXCEPT !.timer = t])
<1> DEFINE b == [a EXCEPT !.timer = t]
<1>1. b \in Agents /\ b.comp = a.comp /\ b.list = a.list
  BY DEF Good, Agents
<1> HIDE DEF b
<1>2. Good(b)
  BY <1>1 DEF Good
<1> QED
  BY <1>2 DEF b

LEMMA TickPairOk ==
  ASSUME NEW p \in Check, Quiet(p), NEW due \in BOOLEAN
  PROVE  SamePair(p, TickPair(p, due)) /\ Quiet(TickPair(p, due))
<1> DEFINE q == TickPair(p, due)
<1>1. "FAILED" \in CheckStates /\ p.retransmissions + 1 \in Nat
  BY DEF CheckStates, Check
<1>2. CASE p.state = "IN_PROGRESS" /\ ~p.buf
  <2>1. q = [p EXCEPT !.state = "FAILED"]
    BY <1>2 DEF TickPair
  <2> HIDE DEF q
  <2>2. SamePair(p, q) /\ q.buf = p.buf
    BY <1>1, <2>1, StatePair
  <2> QED
    BY <1>2, <2>2 DEF Quiet, q
<1>3. CASE q = candidate_check_pair_fail(p)
  <2>1. q = [p EXCEPT !.state = "FAILED", !.buf = FALSE]
    BY <1>3 DEF candidate_check_pair_fail
  <2> HIDE DEF q
  <2>2. SamePair(p, q) /\ q.buf = FALSE
    BY <1>1, <2>1 DEF SamePair, Check
  <2> QED
    BY <2>2 DEF Quiet, q
<1>4. CASE q = [p EXCEPT !.retransmissions = @ + 1]
  <2> HIDE DEF q
  <2>1. SamePair(p, q) /\ q.buf = p.buf /\ q.state = p.state
    BY <1>1, <1>4 DEF SamePair, Check
  <2> QED
    BY <2>1 DEF Quiet, q
<1>5. CASE q = p
  <2>1. SamePair(p, p)
    BY DEF SamePair
  <2> QED
    BY <1>5, <2>1
<1>6. \/ p.state = "IN_PROGRESS" /\ ~p.buf
      \/ q = candidate_check_pair_fail(p)
      \/ q = [p EXCEPT !.retransmissions = @ + 1]
      \/ q = p
  BY DEF TickPair
<1> QED
  BY <1>2, <1>3, <1>4, <1>5, <1>6

\* The effect of a tick on the pairs of a stream
TickPairs(a, s, due) == ForEachPair(a, s, LAMBDA i, p : TickPair(p, <<s, i>> \in due))

LEMMA TickPairsHeld ==
  ASSUME NEW a, Good(a), NEW s \in Streams, NEW due
  PROVE  Held(a, TickPairs(a, s, due))
<1> DEFINE L == a.list[s]
           G == [i \in DOMAIN L |-> TickPair(L[i], <<s, i>> \in due)]
           b == [a EXCEPT !.list[s] = G \o <<>>]
<1>1. TickPairs(a, s, due) = b
  BY DEF TickPairs, ForEachPair
<1>2. \A i \in DOMAIN L : L[i] \in Check /\ CheckOk(a.comp, s, L[i])
  BY ListFields DEF Good
<1> HIDE DEF L
<1>3. ASSUME NEW i \in DOMAIN L
      PROVE  G[i] \in Check /\ CheckOk(a.comp, s, G[i]) /\ G[i].comp = L[i].comp
  <2> DEFINE p == L[i]
             q == G[i]
             w == <<s, i>> \in due
  <2>1. p \in Check /\ CheckOk(a.comp, s, p) /\ Quiet(p) /\ q = TickPair(p, w) /\ w \in BOOLEAN
    BY <1>2 DEF CheckOk
  <2> HIDE DEF p, q, w, G
  <2>2. SamePair(p, q) /\ Quiet(q)
    BY <2>1, TickPairOk
  <2>3. q \in Check /\ CheckOk(a.comp, s, q) /\ q.comp = p.comp
    BY <2>1, <2>2, SamePairOk DEF SamePair
  <2> QED
    BY <2>3 DEF p, q
<1>4. /\ G \in [DOMAIN a.list[s] -> Check]
      /\ \A i \in DOMAIN a.list[s] : CheckOk(a.comp, s, G[i]) /\ G[i].comp = a.list[s][i].comp
  BY <1>3 DEF L
<1> HIDE DEF G
<1>5. Held(a, b)
  BY <1>4, ChecksMapped
<1> QED
  BY <1>1, <1>5

LEMMA NominateHeld ==
  ASSUME NEW a, Good(a), NEW s \in Streams
  PROVE  Held(a, NominateFirstValid(a, s))
<1> DEFINE L == a.list[s]
           first(i) == Valid(L[i]) /\ \A j \in 1 .. (i - 1) : ~(L[j].comp = L[i].comp /\ Valid(L[j]))
           G == [i \in DOMAIN L |->
                   IF first(i) THEN priv_conn_check_initiate(a, [L[i] EXCEPT !.nominated = TRUE])
                               ELSE L[i]]
           b == [a EXCEPT !.list[s] = G \o <<>>]
<1>1. NominateFirstValid(a, s) = b
  BY DEF NominateFirstValid, ForEachPair
<1>2. \A i \in DOMAIN L : L[i] \in Check /\ CheckOk(a.comp, s, L[i])
  BY ListFields DEF Good
<1> HIDE DEF L, first
<1>3. ASSUME NEW i \in DOMAIN L
      PROVE  G[i] \in Check /\ CheckOk(a.comp, s, G[i]) /\ G[i].comp = L[i].comp
  <2> DEFINE p == L[i]
             r == [p EXCEPT !.nominated = TRUE]
             q == priv_conn_check_initiate(a, r)
  <2>1. p \in Check /\ CheckOk(a.comp, s, p) /\ G[i] = IF first(i) THEN q ELSE p
    BY <1>2
  <2> HIDE DEF p, G
  <2>2. SamePair(p, r)
    BY <2>1 DEF SamePair, Check
  <2> HIDE DEF r
  <2>3. SamePair(r, q) /\ Quiet(q)
    BY <2>2, InitiatePair DEF SamePair, Good
  <2> HIDE DEF q
  <2>4. q \in Check /\ CheckOk(a.comp, s, q) /\ q.comp = p.comp
    <3>1. SamePair(p, q)
      BY <2>2, <2>3 DEF SamePair
    <3> QED
      BY <2>1, <2>3, <3>1, SamePairOk DEF SamePair
  <2>5. G[i] \in Check /\ CheckOk(a.comp, s, G[i]) /\ G[i].comp = p.comp
    BY <2>1, <2>4
  <2> QED
    BY <2>5 DEF p
<1>4. /\ G \in [DOMAIN a.list[s] -> Check]
      /\ \A i \in DOMAIN a.list[s] : CheckOk(a.comp, s, G[i]) /\ G[i].comp = a.list[s][i].comp
  BY <1>3 DEF L
<1> HIDE DEF G
<1>5. Held(a, b)
  BY <1>4, ChecksMapped
<1> QED
  BY <1>1, <1>5

\* The state of the agent and whether the timer keeps going
Ticks == [a : Agents, keep : BOOLEAN]

LEMMA TickStreamGood ==
  ASSUME NEW st \in Ticks, Good(st.a), NEW s \in Streams, NEW due
  PROVE  /\ priv_conn_check_tick_stream(st, s, due) \in Ticks
         /\ Good(priv_conn_check_tick_stream(st, s, due).a)
<1> DEFINE x == TickPairs(st.a, s, due)
           w == WaitsForNomination(x, s)
           y == IF w /\ x.controlling THEN NominateFirstValid(x, s) ELSE x
           k == st.keep \/ w \/ InState(x, s, "IN_PROGRESS") # {}
<1>1. priv_conn_check_tick_stream(st, s, due) = [a |-> y, keep |-> k]
  BY DEF priv_conn_check_tick_stream, TickPairs
<1>2. k \in BOOLEAN
  BY DEF Ticks
<1>3. Good(x)
  BY TickPairsHeld DEF Held, Kept
<1> HIDE DEF x, w, k
<1>4. Good(y)
  BY <1>3, NominateHeld DEF Held, Kept
<1> HIDE DEF y
<1>5. y \in Agents
  BY <1>4 DEF Good
<1> QED
  BY <1>1, <1>2, <1>4, <1>5 DEF Ticks

LEMMA SendNextGood ==
  ASSUME NEW a, Good(a)
  PROVE  SendNextCheck(a) \in Ticks /\ Good(SendNextCheck(a).a)
<1> DEFINE W == StreamsWith(a, "WAITING")
           s == Min(W)
           L == a.list[s]
           I == {j \in 1 .. Len(L) : L[j].state = "WAITING"}
           i == IF I # {} THEN Min(I) ELSE 0
           x == WithPair(a, s, i, priv_conn_check_initiate(a, L[i]))
           y == priv_conn_check_unfreeze_next(a)
           k == StreamsWith(a, "FROZEN") # {}
<1>1. SendNextCheck(a) = IF W # {} THEN [a |-> x, keep |-> TRUE] ELSE [a |-> y, keep |-> k]
  BY DEF SendNextCheck, FirstWaiting, SelectInSeq
<1>2. k \in BOOLEAN
  OBVIOUS
<1>3. CASE W = {}
  <2>1. Good(y)
    BY UnfreezeNextHeld DEF Held, Kept
  <2> HIDE DEF y, k, W
  <2>2. y \in Agents /\ SendNextCheck(a) = [a |-> y, keep |-> k]
    BY <1>1, <1>3, <2>1 DEF Good
  <2> QED
    BY <1>2, <2>1, <2>2 DEF Ticks
<1>4. CASE W # {}
  <2>1. W \in SUBSET Nat /\ W \subseteq Streams /\ \A t \in W : InState(a, t, "WAITING") # {}
    BY Numbers DEF StreamsWith
  <2> HIDE DEF W
  <2>2. s \in Streams /\ InState(a, s, "WAITING") # {}
    BY <1>4, <2>1, MinIn
  <2> HIDE DEF s
  <2>3. DOMAIN L = 1 .. Len(L) /\ Len(L) \in Nat
    BY <2>2, ListFields DEF Good
  <2>4. I \in SUBSET Nat /\ I # {} /\ I \subseteq DOMAIN L
    BY <2>2, <2>3 DEF InState
  <2> HIDE DEF I
  <2>5. i \in DOMAIN L
    BY <2>4, MinIn
  <2> HIDE DEF i
  <2>6. Good(x)
    BY <2>2, <2>5, InitiateReplaced DEF Held, Kept
  <2> HIDE DEF x
  <2>7. x \in Agents /\ SendNextCheck(a) = [a |-> x, keep |-> TRUE]
    BY <1>1, <1>4, <2>6 DEF Good
  <2> QED
    BY <2>6, <2>7 DEF Ticks
<1> QED
  BY <1>3, <1>4

LEMMA FailedLoop ==
  ASSUME NEW a, Good(a)
  PROVE  Good(Loop(priv_update_check_list_failed_components, a, StreamSeq))
<1> DEFINE N == Len(StreamSeq)
           D == {x \in Agents : Good(x)}
           b == a
           Step(n, y) == priv_update_check_list_failed_components(y, StreamSeq[n])
           done[n \in 0 .. N] == IF n = 0 THEN b ELSE Step(n, done[n - 1])
           G == [n \in 1 .. N |-> [y \in D |-> Step(n, y)]]
<1>1. N \in Nat
  BY AllInOrder
<1>2. Loop(priv_update_check_list_failed_components, a, StreamSeq) = done[N]
  BY DEF Loop
<1>3. b \in D
  BY DEF Good
<1>4. ASSUME NEW n \in 1 .. N, NEW y \in D PROVE Step(n, y) \in D
  <2> DEFINE z == Step(n, y)
  <2>1. Good(y)
    OBVIOUS

  <2>8. Good(z)
    BY <2>1, AllInOrder, FailedHeld DEF Held, Kept
  <2> HIDE DEF z
  <2>9. z \in Agents
    BY <2>8 DEF Good
  <2> QED
    BY <2>8, <2>9 DEF z
<1> HIDE DEF N, D, b, Step
<1>5. IsStep(G, N, D)
  BY <1>4 DEF IsStep
<1>6. PICK g : Iterates(g, N, D, b, G)
  <2> HIDE DEF G
  <2> QED
    BY <1>1, <1>3, <1>5, RecursionExists, Zenon
<1>7. done = [n \in 0 .. N |-> IF n = 0 THEN b ELSE Step(n, done[n - 1])]
  <2>1. \A n \in 1 .. N : g[n - 1] \in D /\ g[n] = G[n][g[n - 1]]
    BY <1>1, <1>6 DEF Iterates
  <2>2. \A n \in 1 .. N : g[n] = Step(n, g[n - 1])
    BY <2>1
  <2>3. g = [n \in 0 .. N |-> IF n = 0 THEN b ELSE Step(n, g[n - 1])]
    BY <1>1, <1>6, <2>2 DEF Iterates
  <2> QED
    BY <2>3, Zenon DEF done
<1> HIDE DEF done
<1>8. done[0] = b /\ \A n \in 1 .. N : done[n] = Step(n, done[n - 1])
  <2>1. \A n \in 0 .. N : done[n] = IF n = 0 THEN b ELSE Step(n, done[n - 1])
    BY <1>7, Zenon
  <2> QED
    BY <1>1, <2>1
<1>9. \A n \in 0 .. N : done[n] \in D
  <2>1. done[0] \in D /\ \A n \in 1 .. N : done[n - 1] \in D => done[n] \in D
    BY <1>3, <1>4, <1>8
  <2> QED
    BY <1>1, <2>1, IntervalInduction, Zenon
<1>10. done[N] \in D
  BY <1>1, <1>9
<1> QED
  BY <1>2, <1>10 DEF D

LEMMA ReadyLoop ==
  ASSUME NEW a, Good(a)
  PROVE  Good(Loop(priv_update_check_list_state_for_ready, a, ComponentSeq))
<1> DEFINE N == Len(ComponentSeq)
           D == {x \in Agents : Good(x)}
           b == a
           Step(n, y) == priv_update_check_list_state_for_ready(y, ComponentSeq[n])
           done[n \in 0 .. N] == IF n = 0 THEN b ELSE Step(n, done[n - 1])
           G == [n \in 1 .. N |-> [y \in D |-> Step(n, y)]]
<1>1. N \in Nat
  BY AllInOrder
<1>2. Loop(priv_update_check_list_state_for_ready, a, ComponentSeq) = done[N]
  BY DEF Loop
<1>3. b \in D
  BY DEF Good
<1>4. ASSUME NEW n \in 1 .. N, NEW y \in D PROVE Step(n, y) \in D
  <2> DEFINE z == Step(n, y)
  <2>1. Good(y)
    OBVIOUS

  <2>8. Good(z)
    BY <2>1, AllInOrder, ReadyHeld DEF Held, Kept
  <2> HIDE DEF z
  <2>9. z \in Agents
    BY <2>8 DEF Good
  <2> QED
    BY <2>8, <2>9 DEF z
<1> HIDE DEF N, D, b, Step
<1>5. IsStep(G, N, D)
  BY <1>4 DEF IsStep
<1>6. PICK g : Iterates(g, N, D, b, G)
  <2> HIDE DEF G
  <2> QED
    BY <1>1, <1>3, <1>5, RecursionExists, Zenon
<1>7. done = [n \in 0 .. N |-> IF n = 0 THEN b ELSE Step(n, done[n - 1])]
  <2>1. \A n \in 1 .. N : g[n - 1] \in D /\ g[n] = G[n][g[n - 1]]
    BY <1>1, <1>6 DEF Iterates
  <2>2. \A n \in 1 .. N : g[n] = Step(n, g[n - 1])
    BY <2>1
  <2>3. g = [n \in 0 .. N |-> IF n = 0 THEN b ELSE Step(n, g[n - 1])]
    BY <1>1, <1>6, <2>2 DEF Iterates
  <2> QED
    BY <2>3, Zenon DEF done
<1> HIDE DEF done
<1>8. done[0] = b /\ \A n \in 1 .. N : done[n] = Step(n, done[n - 1])
  <2>1. \A n \in 0 .. N : done[n] = IF n = 0 THEN b ELSE Step(n, done[n - 1])
    BY <1>7, Zenon
  <2> QED
    BY <1>1, <2>1
<1>9. \A n \in 0 .. N : done[n] \in D
  <2>1. done[0] \in D /\ \A n \in 1 .. N : done[n - 1] \in D => done[n] \in D
    BY <1>3, <1>4, <1>8
  <2> QED
    BY <1>1, <2>1, IntervalInduction, Zenon
<1>10. done[N] \in D
  BY <1>1, <1>9
<1> QED
  BY <1>2, <1>10 DEF D

LEMMA ConcludeGood ==
  ASSUME NEW a, Good(a)
  PROVE  Good(Conclude(a))
<1> DEFINE x == Loop(priv_update_check_list_failed_components, a, StreamSeq)
           y == Loop(priv_update_check_list_state_for_ready, x, ComponentSeq)
<1>1. Conclude(a) = [y EXCEPT !.timer = FALSE]
  BY DEF Conclude
<1>2. Good(x)
  BY FailedLoop
<1> HIDE DEF x
<1>3. Good(y)
  BY <1>2, ReadyLoop
<1> HIDE DEF y
<1> QED
  BY <1>1, <1>3, TimerGood

\* The loop of a tick over the streams
TickAll(a, due) ==
    Loop(LAMBDA x, s : priv_conn_check_tick_stream(x, s, due), SendNextCheck(a), StreamSeq)

LEMMA TickLoop ==
  ASSUME NEW a, Good(a), NEW due
  PROVE  /\ TickAll(a, due) \in Ticks
         /\ Good(TickAll(a, due).a)
<1> DEFINE N == Len(StreamSeq)
           D == {st \in Ticks : Good(st.a)}
           b == SendNextCheck(a)
           Step(n, y) == priv_conn_check_tick_stream(y, StreamSeq[n], due)
           done[n \in 0 .. N] == IF n = 0 THEN b ELSE Step(n, done[n - 1])
           G == [n \in 1 .. N |-> [y \in D |-> Step(n, y)]]
<1>1. N \in Nat
  BY AllInOrder
<1>2. TickAll(a, due) = done[N]
  BY DEF TickAll, Loop
<1>3. b \in D
  BY SendNextGood
<1>4. ASSUME NEW n \in 1 .. N, NEW y \in D PROVE Step(n, y) \in D
  BY AllInOrder, TickStreamGood
<1> HIDE DEF N, D, b, Step
<1>5. IsStep(G, N, D)
  BY <1>4 DEF IsStep
<1>6. PICK g : Iterates(g, N, D, b, G)
  <2> HIDE DEF G
  <2> QED
    BY <1>1, <1>3, <1>5, RecursionExists, Zenon
<1>7. done = [n \in 0 .. N |-> IF n = 0 THEN b ELSE Step(n, done[n - 1])]
  <2>1. \A n \in 1 .. N : g[n - 1] \in D /\ g[n] = G[n][g[n - 1]]
    BY <1>1, <1>6 DEF Iterates
  <2>2. \A n \in 1 .. N : g[n] = Step(n, g[n - 1])
    BY <2>1
  <2>3. g = [n \in 0 .. N |-> IF n = 0 THEN b ELSE Step(n, g[n - 1])]
    BY <1>1, <1>6, <2>2 DEF Iterates
  <2> QED
    BY <2>3, Zenon DEF done
<1> HIDE DEF done
<1>8. done[0] = b /\ \A n \in 1 .. N : done[n] = Step(n, done[n - 1])
  <2>1. \A n \in 0 .. N : done[n] = IF n = 0 THEN b ELSE Step(n, done[n - 1])
    BY <1>7, Zenon
  <2> QED
    BY <1>1, <2>1
<1>9. \A n \in 0 .. N : done[n] \in D
  <2>1. done[0] \in D /\ \A n \in 1 .. N : done[n - 1] \in D => done[n] \in D
    BY <1>3, <1>4, <1>8
  <2> QED
    BY <1>1, <2>1, IntervalInduction, Zenon
<1>10. done[N] \in D
  BY <1>1, <1>9
<1> QED
  BY <1>2, <1>10 DEF D

LEMMA TickGood ==
  ASSUME NEW a, Good(a), NEW due
  PROVE  /\ priv_conn_check_tick_unlocked(a, due) \in Ticks
         /\ Good(priv_conn_check_tick_unlocked(a, due).a)
<1> DEFINE st == TickAll(a, due)
           b == st.a
           d == Conclude(b)
<1>1. priv_conn_check_tick_unlocked(a, due) = IF st.keep THEN st ELSE [st EXCEPT !.a = d]
  BY DEF priv_conn_check_tick_unlocked, TickAll
<1>2. st \in Ticks /\ Good(b)
  BY TickLoop
<1> HIDE DEF st, b
<1>3. Good(d)
  BY <1>2, ConcludeGood
<1> HIDE DEF d
<1>4. d \in Agents
  BY <1>3 DEF Good
<1>5. [st EXCEPT !.a = d] \in Ticks /\ [st EXCEPT !.a = d].a = d
  BY <1>2, <1>4 DEF Ticks
<1> QED
  BY <1>1, <1>2, <1>3, <1>5 DEF b

LEMMA ScheduleNextGood ==
  ASSUME NEW a, Good(a), NEW due
  PROVE  Good(conn_check_schedule_next(a, due))
<1> DEFINE x == priv_conn_check_unfreeze_next(a)
           st == priv_conn_check_tick_unlocked(x, due)
           b == st.a
           t == st.keep \/ b.timer
<1>1. conn_check_schedule_next(a, due) = [b EXCEPT !.timer = t]
  BY DEF conn_check_schedule_next
<1>2. Good(x)
  BY UnfreezeNextHeld DEF Held, Kept
<1> HIDE DEF x
<1>3. st \in Ticks /\ Good(b)
  BY <1>2, TickGood
<1>4. st.keep \in BOOLEAN
  BY <1>3 DEF Ticks
<1> HIDE DEF st, b
<1>5. t \in BOOLEAN
  BY <1>3, <1>4, AgentFields DEF Good
<1> HIDE DEF t
<1> QED
  BY <1>1, <1>3, <1>5, TimerGood

-----------------------------------------------------------------------------
\* The end of gathering

LEMMA PairUnpairedKept ==
  ASSUME NEW a, Good(a), NEW c \in Components, NEW l \in Candidates, HasLocal(a.comp[c], l)
  PROVE  Kept(a, PairUnpaired(a, c, l))
<1> DEFINE K == Keep(a.comp[c].remotes, Unpaired(a, c, l))
           N == Len(K)
           D == {x \in Agents : Kept(a, x)}
           b == a
           Step(n, y) == conn_check_add_for_candidate_pair(y, c, l, K[n])
           done[n \in 0 .. N] == IF n = 0 THEN b ELSE Step(n, done[n - 1])
           G == [n \in 1 .. N |-> [y \in D |-> Step(n, y)]]
<1>0. K \in Seq(Candidates) /\ \A n \in DOMAIN K : \E i \in DOMAIN a.comp[c].remotes : K[n] = a.comp[c].remotes[i]
  BY AgentFields, ComponentFields, KeepSeq DEF Good, K
<1> HIDE DEF K
<1>1. N \in Nat
  BY <1>0
<1>2. PairUnpaired(a, c, l) = done[N]
  BY DEF PairUnpaired, Loop, K
<1>3. b \in D
  BY KeptSame DEF Good
<1>4. ASSUME NEW n \in 1 .. N, NEW y \in D PROVE Step(n, y) \in D
  <2> DEFINE z == Step(n, y)
  <2>1. y \in Agents /\ Kept(a, y) /\ Good(y) /\ Alike(a, y)
    BY <1>4 DEF Kept, Held
  <2>2. Pairable(a, c, l, K[n])
    BY <1>0 DEF Pairable
  <2>3. Pairable(y, c, l, K[n])
    BY <2>1, <2>2, PairableAlike
  <2>8. Kept(y, z)
    BY <2>1, <2>3, AddForPair DEF Added
  <2> HIDE DEF z
  <2>9. Kept(a, z) /\ z \in Agents
    BY <2>1, <2>8, KeptTrans DEF Kept, Held, Good
  <2> QED
    BY <2>9 DEF z
<1> HIDE DEF N, D, b, Step
<1>5. IsStep(G, N, D)
  BY <1>4 DEF IsStep
<1>6. PICK g : Iterates(g, N, D, b, G)
  <2> HIDE DEF G
  <2> QED
    BY <1>1, <1>3, <1>5, RecursionExists, Zenon
<1>7. done = [n \in 0 .. N |-> IF n = 0 THEN b ELSE Step(n, done[n - 1])]
  <2>1. \A n \in 1 .. N : g[n - 1] \in D /\ g[n] = G[n][g[n - 1]]
    BY <1>1, <1>6 DEF Iterates
  <2>2. \A n \in 1 .. N : g[n] = Step(n, g[n - 1])
    BY <2>1
  <2>3. g = [n \in 0 .. N |-> IF n = 0 THEN b ELSE Step(n, g[n - 1])]
    BY <1>1, <1>6, <2>2 DEF Iterates
  <2> QED
    BY <2>3, Zenon DEF done
<1> HIDE DEF done
<1>8. done[0] = b /\ \A n \in 1 .. N : done[n] = Step(n, done[n - 1])
  <2>1. \A n \in 0 .. N : done[n] = IF n = 0 THEN b ELSE Step(n, done[n - 1])
    BY <1>7, Zenon
  <2> QED
    BY <1>1, <2>1
<1>9. \A n \in 0 .. N : done[n] \in D
  <2>1. done[0] \in D /\ \A n \in 1 .. N : done[n - 1] \in D => done[n] \in D
    BY <1>3, <1>4, <1>8
  <2> QED
    BY <1>1, <2>1, IntervalInduction, Zenon
<1>10. done[N] \in D
  BY <1>1, <1>9
<1> QED
  BY <1>2, <1>10 DEF D

LEMMA PairComponentKept ==
  ASSUME NEW a, Good(a), NEW c \in Components
  PROVE  Kept(a, PairComponent(a, c))
<1> DEFINE N == Len(a.comp[c].locals)
           D == {x \in Agents : Kept(a, x)}
           b == a
           Step(n, y) == PairUnpaired(y, c, a.comp[c].locals[n])
           done[n \in 0 .. N] == IF n = 0 THEN b ELSE Step(n, done[n - 1])
           G == [n \in 1 .. N |-> [y \in D |-> Step(n, y)]]
<1>1. N \in Nat
  BY AgentFields, ComponentFields DEF Good
<1>2. PairComponent(a, c) = done[N]
  BY DEF PairComponent, Loop
<1>3. b \in D
  BY KeptSame DEF Good
<1>4. ASSUME NEW n \in 1 .. N, NEW y \in D PROVE Step(n, y) \in D
  <2> DEFINE z == Step(n, y)
  <2>1. y \in Agents /\ Kept(a, y) /\ Good(y) /\ Alike(a, y)
    BY <1>4 DEF Kept, Held
  <2>2. n \in DOMAIN a.comp[c].locals /\ a.comp[c].locals[n] \in Candidates
    BY AgentFields, ComponentFields DEF Good
  <2>3. HasLocal(y.comp[c], a.comp[c].locals[n])
    BY <2>1, <2>2 DEF Alike, HasLocal
  <2>8. Kept(y, z)
    BY <2>1, <2>2, <2>3, PairUnpairedKept
  <2> HIDE DEF z
  <2>9. Kept(a, z) /\ z \in Agents
    BY <2>1, <2>8, KeptTrans DEF Kept, Held, Good
  <2> QED
    BY <2>9 DEF z
<1> HIDE DEF N, D, b, Step
<1>5. IsStep(G, N, D)
  BY <1>4 DEF IsStep
<1>6. PICK g : Iterates(g, N, D, b, G)
  <2> HIDE DEF G
  <2> QED
    BY <1>1, <1>3, <1>5, RecursionExists, Zenon
<1>7. done = [n \in 0 .. N |-> IF n = 0 THEN b ELSE Step(n, done[n - 1])]
  <2>1. \A n \in 1 .. N : g[n - 1] \in D /\ g[n] = G[n][g[n - 1]]
    BY <1>1, <1>6 DEF Iterates
  <2>2. \A n \in 1 .. N : g[n] = Step(n, g[n - 1])
    BY <2>1
  <2>3. g = [n \in 0 .. N |-> IF n = 0 THEN b ELSE Step(n, g[n - 1])]
    BY <1>1, <1>6, <2>2 DEF Iterates
  <2> QED
    BY <2>3, Zenon DEF done
<1> HIDE DEF done
<1>8. done[0] = b /\ \A n \in 1 .. N : done[n] = Step(n, done[n - 1])
  <2>1. \A n \in 0 .. N : done[n] = IF n = 0 THEN b ELSE Step(n, done[n - 1])
    BY <1>7, Zenon
  <2> QED
    BY <1>1, <2>1
<1>9. \A n \in 0 .. N : done[n] \in D
  <2>1. done[0] \in D /\ \A n \in 1 .. N : done[n - 1] \in D => done[n] \in D
    BY <1>3, <1>4, <1>8
  <2> QED
    BY <1>1, <2>1, IntervalInduction, Zenon
<1>10. done[N] \in D
  BY <1>1, <1>9
<1> QED
  BY <1>2, <1>10 DEF D

LEMMA PairAllGood ==
  ASSUME NEW a, Good(a)
  PROVE  Good(Loop(PairComponent, a, ComponentSeq))
<1> DEFINE N == Len(ComponentSeq)
           D == {x \in Agents : Good(x)}
           b == a
           Step(n, y) == PairComponent(y, ComponentSeq[n])
           done[n \in 0 .. N] == IF n = 0 THEN b ELSE Step(n, done[n - 1])
           G == [n \in 1 .. N |-> [y \in D |-> Step(n, y)]]
<1>1. N \in Nat
  BY AllInOrder
<1>2. Loop(PairComponent, a, ComponentSeq) = done[N]
  BY DEF Loop
<1>3. b \in D
  BY DEF Good
<1>4. ASSUME NEW n \in 1 .. N, NEW y \in D PROVE Step(n, y) \in D
  <2> DEFINE z == Step(n, y)
  <2>1. Good(y)
    OBVIOUS

  <2>8. Good(z)
    BY <2>1, AllInOrder, PairComponentKept DEF Kept
  <2> HIDE DEF z
  <2>9. z \in Agents
    BY <2>8 DEF Good
  <2> QED
    BY <2>8, <2>9 DEF z
<1> HIDE DEF N, D, b, Step
<1>5. IsStep(G, N, D)
  BY <1>4 DEF IsStep
<1>6. PICK g : Iterates(g, N, D, b, G)
  <2> HIDE DEF G
  <2> QED
    BY <1>1, <1>3, <1>5, RecursionExists, Zenon
<1>7. done = [n \in 0 .. N |-> IF n = 0 THEN b ELSE Step(n, done[n - 1])]
  <2>1. \A n \in 1 .. N : g[n - 1] \in D /\ g[n] = G[n][g[n - 1]]
    BY <1>1, <1>6 DEF Iterates
  <2>2. \A n \in 1 .. N : g[n] = Step(n, g[n - 1])
    BY <2>1
  <2>3. g = [n \in 0 .. N |-> IF n = 0 THEN b ELSE Step(n, g[n - 1])]
    BY <1>1, <1>6, <2>2 DEF Iterates
  <2> QED
    BY <2>3, Zenon DEF done
<1> HIDE DEF done
<1>8. done[0] = b /\ \A n \in 1 .. N : done[n] = Step(n, done[n - 1])
  <2>1. \A n \in 0 .. N : done[n] = IF n = 0 THEN b ELSE Step(n, done[n - 1])
    BY <1>7, Zenon
  <2> QED
    BY <1>1, <2>1
<1>9. \A n \in 0 .. N : done[n] \in D
  <2>1. done[0] \in D /\ \A n \in 1 .. N : done[n - 1] \in D => done[n] \in D
    BY <1>3, <1>4, <1>8
  <2> QED
    BY <1>1, <2>1, IntervalInduction, Zenon
<1>10. done[N] \in D
  BY <1>1, <1>9
<1> QED
  BY <1>2, <1>10 DEF D

LEMMA GatheringDoneGood ==
  ASSUME NEW a, Good(a)
  PROVE  Good(agent_gathering_done(a))
<1> DEFINE b == [a EXCEPT !.discovering = FALSE]
<1>1. agent_gathering_done(a) = Loop(PairComponent, b, ComponentSeq)
  BY DEF agent_gathering_done
<1>2. b \in Agents /\ b.comp = a.comp /\ b.list = a.list
  BY DEF Good, Agents
<1> HIDE DEF b
<1>3. Good(b)
  BY <1>2 DEF Good
<1> QED
  BY <1>1, <1>3, PairAllGood

-----------------------------------------------------------------------------
\* Calls of the application that end the checks of a stream

LEMMA PruneStreamKept ==
  ASSUME NEW a, Good(a), NEW s \in Streams
  PROVE  /\ Kept(a, conn_check_prune_stream(a, s))
         /\ conn_check_prune_stream(a, s).comp = a.comp
         /\ conn_check_prune_stream(a, s).list[s] = <<>>
<1> DEFINE e == <<>>
           x == [a EXCEPT !.list[s] = e]
           t == a.timer /\ \E u \in Streams : x.list[u] # <<>>
           y == [x EXCEPT !.timer = t]
<1>1. e \in Seq(Check) /\ DOMAIN e = {}
  OBVIOUS
<1>2. a \in Agents /\ a.list \in [Streams -> Seq(Check)] /\ a.timer \in BOOLEAN
  BY AgentFields DEF Good
<1>3. x.list = [a.list EXCEPT ![s] = e] /\ x.comp = a.comp /\ x.timer = a.timer
  BY <1>2 DEF Agents
<1>4. conn_check_prune_stream(a, s) = y
  <2>1. conn_check_prune_stream(a, s) = [a EXCEPT !.list = [a.list EXCEPT ![s] = e], !.timer = t]
    BY <1>3 DEF conn_check_prune_stream
  <2> HIDE DEF t, e
  <2> QED
    BY <1>2, <2>1 DEF Agents
<1>5. t \in BOOLEAN
  BY <1>2
<1> HIDE DEF t, e
<1>6. Kept(a, x)
  BY <1>1, ListReplaced
<1>7. x.list[s] = e
  BY <1>2, <1>3
<1> HIDE DEF x
<1>8. Good(y)
  BY <1>5, <1>6, TimerGood DEF Kept
<1>9. y.comp = x.comp /\ y.list = x.list
  BY <1>6 DEF Kept, Good, Agents
<1> HIDE DEF y
<1>10. Alike(a, y)
  BY <1>3, <1>9 DEF Alike
<1> QED
  BY <1>3, <1>4, <1>7, <1>8, <1>9, <1>10 DEF Kept, e

\* The candidates of the components of a stream without pairs may go.
LEMMA StreamRestartGood ==
  ASSUME NEW a, Good(a), NEW s \in Streams
  PROVE  Good(stream_restart(a, s))
<1> DEFINE x == conn_check_prune_stream(a, s)
           K == [c \in Components |->
                   IF StreamOf[c] = s
                   THEN [x.comp[c] EXCEPT !.remotes = <<>>, !.incoming = <<>>, !.selected.prio = 0]
                   ELSE x.comp[c]]
           b == [x EXCEPT !.comp = K \o <<>>]
<1>1. stream_restart(a, s) = b
  BY DEF stream_restart, ForEachComponent
<1>2. Good(x) /\ x.list[s] = <<>>
  BY PruneStreamKept DEF Kept
<1> HIDE DEF x
<1>3. x \in Agents /\ \A c \in Components : x.comp[c] \in Component /\ ComponentOk(x.comp[c])
  BY <1>2, AgentFields DEF Good
<1>4. ASSUME NEW c \in Components
      PROVE  K[c] \in Component /\ ComponentOk(K[c]) /\ (StreamOf[c] # s => K[c] = x.comp[c])
  <2>1. CASE StreamOf[c] = s
    <3> DEFINE k == x.comp[c]
    <3>1. k \in Component /\ K[c] = [k EXCEPT !.remotes = <<>>, !.incoming = <<>>, !.selected.prio = 0]
      BY <1>3, <2>1
    <3> HIDE DEF K, k
    <3>2. [k.selected EXCEPT !.prio = 0] \in Selection
      BY <3>1, ComponentFields DEF Selection
    <3>3. <<>> \in Seq(Candidates) /\ <<>> \in Seq(Early)
      OBVIOUS
    <3>4. K[c] \in Component /\ K[c].remotes = <<>> /\ K[c].incoming = <<>>
      BY <3>1, <3>2, <3>3 DEF Component
    <3>5. ComponentOk(K[c])
      BY <3>4 DEF ComponentOk
    <3> QED
      BY <2>1, <3>4, <3>5
  <2>2. CASE StreamOf[c] # s
    BY <1>3, <2>2
  <2> QED
    BY <2>1, <2>2
<1>5. K \in [Components -> Component]
  BY <1>4
<1> HIDE DEF K
<1>6. K \o <<>> = K
  <2>1. PICK n \in Nat : Components = 1 .. n
    BY Numbers
  <2>2. K \in Seq(Component)
    BY <1>5, <2>1, MakeSeq
  <2> QED
    BY <2>2
<1>7. b \in Agents /\ b.comp = K /\ b.list = x.list
  BY <1>3, <1>5, <1>6 DEF Agents
<1> HIDE DEF b
<1>8. ASSUME NEW t \in Streams, NEW i \in DOMAIN b.list[t] PROVE CheckOk(b.comp, t, b.list[t][i])
  <2>1. t # s
    BY <1>2, <1>7
  <2> DEFINE p == b.list[t][i]
  <2>2. p \in Check /\ CheckOk(x.comp, t, p)
    BY <1>2, <1>3, <1>7, ListFields DEF Good
  <2> HIDE DEF p
  <2>3. p.comp \in Components /\ StreamOf[p.comp] = t
    BY <2>2 DEF Check, CheckOk
  <2>4. b.comp[p.comp] = x.comp[p.comp]
    BY <1>4, <1>7, <2>1, <2>3
  <2>5. CheckOk(b.comp, t, p)
    BY <2>2, <2>4 DEF CheckOk
  <2> QED
    BY <2>5 DEF p
<1> QED
  BY <1>1, <1>4, <1>7, <1>8 DEF Good

LEMMA RestartGood ==
  ASSUME NEW a, Good(a)
  PROVE  Good(Loop(stream_restart, a, StreamSeq))
<1> DEFINE N == Len(StreamSeq)
           D == {x \in Agents : Good(x)}
           b == a
           Step(n, y) == stream_restart(y, StreamSeq[n])
           done[n \in 0 .. N] == IF n = 0 THEN b ELSE Step(n, done[n - 1])
           G == [n \in 1 .. N |-> [y \in D |-> Step(n, y)]]
<1>1. N \in Nat
  BY AllInOrder
<1>2. Loop(stream_restart, a, StreamSeq) = done[N]
  BY DEF Loop
<1>3. b \in D
  BY DEF Good
<1>4. ASSUME NEW n \in 1 .. N, NEW y \in D PROVE Step(n, y) \in D
  <2> DEFINE z == Step(n, y)
  <2>1. Good(y)
    OBVIOUS

  <2>8. Good(z)
    BY <2>1, AllInOrder, StreamRestartGood
  <2> HIDE DEF z
  <2>9. z \in Agents
    BY <2>8 DEF Good
  <2> QED
    BY <2>8, <2>9 DEF z
<1> HIDE DEF N, D, b, Step
<1>5. IsStep(G, N, D)
  BY <1>4 DEF IsStep
<1>6. PICK g : Iterates(g, N, D, b, G)
  <2> HIDE DEF G
  <2> QED
    BY <1>1, <1>3, <1>5, RecursionExists, Zenon
<1>7. done = [n \in 0 .. N |-> IF n = 0 THEN b ELSE Step(n, done[n - 1])]
  <2>1. \A n \in 1 .. N : g[n - 1] \in D /\ g[n] = G[n][g[n - 1]]
    BY <1>1, <1>6 DEF Iterates
  <2>2. \A n \in 1 .. N : g[n] = Step(n, g[n - 1])
    BY <2>1
  <2>3. g = [n \in 0 .. N |-> IF n = 0 THEN b ELSE Step(n, g[n - 1])]
    BY <1>1, <1>6, <2>2 DEF Iterates
  <2> QED
    BY <2>3, Zenon DEF done
<1> HIDE DEF done
<1>8. done[0] = b /\ \A n \in 1 .. N : done[n] = Step(n, done[n - 1])
  <2>1. \A n \in 0 .. N : done[n] = IF n = 0 THEN b ELSE Step(n, done[n - 1])
    BY <1>7, Zenon
  <2> QED
    BY <1>1, <2>1
<1>9. \A n \in 0 .. N : done[n] \in D
  <2>1. done[0] \in D /\ \A n \in 1 .. N : done[n - 1] \in D => done[n] \in D
    BY <1>3, <1>4, <1>8
  <2> QED
    BY <1>1, <2>1, IntervalInduction, Zenon
<1>10. done[N] \in D
  BY <1>1, <1>9
<1> QED
  BY <1>2, <1>10 DEF D

LEMMA SelectGood ==
  ASSUME NEW a, Good(a), NEW c \in Components, NEW x \in Selection
  PROVE  Good([conn_check_prune_stream(a, StreamOf[c]) EXCEPT
                 !.comp[c].state = "READY", !.comp[c].selected = x])
<1> DEFINE y == conn_check_prune_stream(a, StreamOf[c])
           k == [y.comp[c] EXCEPT !.state = "READY", !.selected = x]
           z == [y EXCEPT !.comp[c] = k]
<1>1. Good(y)
  BY Numbers, PruneStreamKept DEF Kept
<1> HIDE DEF y
<1>2. y \in Agents /\ y.comp \in [Components -> Component] /\ y.comp[c] \in Component
  BY <1>1, AgentFields DEF Good
<1>3. [y EXCEPT !.comp[c].state = "READY", !.comp[c].selected = x] = z
  BY <1>2 DEF Agents
<1>4. /\ k \in Component /\ k.locals = y.comp[c].locals /\ k.remotes = y.comp[c].remotes
      /\ k.incoming = y.comp[c].incoming
  BY <1>2 DEF Component, ComponentStates
<1> HIDE DEF k
<1>5. Kept(y, z)
  BY <1>1, <1>4, ComponentReplaced
<1> QED
  BY <1>3, <1>5 DEF y, Kept

-----------------------------------------------------------------------------
\* Responses

Rank(O, j) == Cardinality({k \in O : k <= j})

\* The i-th of the old positions is the one the i-th pair has moved to.
LEMMA RankOf ==
  ASSUME NEW n \in Nat, NEW m \in Nat, NEW e \in [1 .. n -> 1 .. m],
         \A i, j \in 1 .. n : i < j => e[i] < e[j], NEW O, O = {e[k] : k \in 1 .. n}
  PROVE  \A i \in 1 .. n : Rank(O, e[i]) = i
<1> SUFFICES ASSUME NEW i \in 1 .. n PROVE Rank(O, e[i]) = i
  OBVIOUS
<1> DEFINE X == {k \in O : k <= e[i]}
           f == [k \in 1 .. i |-> e[k]]
<1>0. \A k \in 1 .. n : e[k] \in Nat
  OBVIOUS
<1>1. \A k \in 1 .. n : e[k] <= e[i] <=> k <= i
  <2> SUFFICES ASSUME NEW k \in 1 .. n PROVE e[k] <= e[i] <=> k <= i
    OBVIOUS
  <2>1. k < i => e[k] < e[i]
    OBVIOUS
  <2>2. i < k => e[i] < e[k]
    OBVIOUS
  <2>3. e[k] \in Nat /\ e[i] \in Nat /\ k \in Nat /\ i \in Nat
    BY <1>0
  <2> QED
    BY <2>1, <2>2, <2>3
<1>2. X = {e[k] : k \in 1 .. i}
  <2>1. \A x \in X : \E k \in 1 .. i : x = e[k]
    BY <1>1
  <2>2. \A k \in 1 .. i : e[k] \in X
    BY <1>1
  <2> QED
    BY <2>1, <2>2
<1>3. \A j, k \in 1 .. i : e[j] = e[k] => j = k
  <2> SUFFICES ASSUME NEW j \in 1 .. i, NEW k \in 1 .. i, e[j] = e[k] PROVE j = k
    OBVIOUS
  <2>1. j \in 1 .. n /\ k \in 1 .. n
    OBVIOUS
  <2>2. ~(j < k) /\ ~(k < j)
    BY <1>0, <2>1
  <2> QED
    BY <2>2
<1> HIDE DEF X
<1>4. f \in Bijection(1 .. i, X)
  <2>1. f \in [1 .. i -> X] /\ \A x \in X : \E k \in 1 .. i : f[k] = x
    BY <1>2
  <2>2. \A j, k \in 1 .. i : f[j] = f[k] => j = k
    BY <1>3
  <2> HIDE DEF f
  <2>3. f \in Injection(1 .. i, X)
    BY <2>1, <2>2 DEF Injection, IsInjective
  <2>4. f \in Surjection(1 .. i, X)
    BY <2>1 DEF Surjection
  <2> QED
    BY <2>3, <2>4 DEF Bijection
<1>5. IsFiniteSet(1 .. i) /\ Cardinality(1 .. i) = i
  BY FS_Interval
<1>6. Cardinality(X) = Cardinality(1 .. i)
  BY <1>4, <1>5, FS_Bijection DEF ExistsBijection
<1> QED
  BY <1>5, <1>6 DEF X, Rank

Ranked(O, i) == CHOOSE j \in O : Cardinality({k \in O : k <= j}) = i

LEMMA MovedTo ==
  ASSUME NEW L \in Seq(Check), NEW M \in Seq(Check), NEW o, NEW e, Embedding(e, L, M, o),
         \A i \in DOMAIN L : Owner(L[i]) # o, NEW i \in DOMAIN L, NEW O,
         O = {j \in DOMAIN M : Owner(M[j]) # o}
  PROVE  Ranked(O, i) = e[i]
<1> DEFINE n == Len(L)
           m == Len(M)
<1>1. n \in Nat /\ m \in Nat /\ DOMAIN L = 1 .. n /\ DOMAIN M = 1 .. m
  OBVIOUS
<1> HIDE DEF n, m
<1>2. e \in [1 .. n -> 1 .. m] /\ \A j, k \in 1 .. n : j < k => e[j] < e[k]
  BY <1>1 DEF Embedding
<1>3. O = {e[k] : k \in 1 .. n}
  <2>1. ASSUME NEW j \in O PROVE \E k \in 1 .. n : j = e[k]
    <3>1. j \in DOMAIN M /\ Owner(M[j]) # o
      OBVIOUS
    <3> QED
      BY <1>1, <3>1 DEF Embedding
  <2>2. ASSUME NEW k \in 1 .. n PROVE e[k] \in O
    <3>1. k \in DOMAIN L /\ e[k] \in DOMAIN M
      BY <1>1, <1>2
    <3>2. Owner(M[e[k]]) = Owner(L[k])
      BY <3>1 DEF Embedding
    <3> QED
      BY <3>1, <3>2
  <2> QED
    BY <2>1, <2>2
<1>4. \A k \in 1 .. n : Rank(O, e[k]) = k
  BY <1>1, <1>2, <1>3, RankOf
<1>5. e[i] \in O /\ Rank(O, e[i]) = i
  BY <1>1, <1>3, <1>4
<1>6. ASSUME NEW j \in O, Rank(O, j) = i PROVE j = e[i]
  <2>1. PICK k \in 1 .. n : j = e[k]
    BY <1>3
  <2> QED
    BY <1>4, <1>6, <2>1
<1>7. (CHOOSE j \in O : Rank(O, j) = i) = e[i]
  BY <1>5, <1>6
<1> QED
  BY <1>7 DEF Rank, Ranked

LEMMA FinishGood ==
  ASSUME NEW a, Good(a), NEW c \in Components, NEW k \in DOMAIN a.list[StreamOf[c]],
         a.list[StreamOf[c]][k].comp = c
  PROVE  Good(FinishSuccess([a |-> a, ok |-> k], StreamOf[c], c))
<1> DEFINE s == StreamOf[c]
           p == a.list[s][k]
           x == priv_update_selected_pair(a, c, p)
           y == IF x.comp[c].state = "READY" THEN x
                ELSE agent_signal_component_state_change(x, c, "CONNECTED")
           z == IF p.nominated THEN y ELSE a
<1>1. FinishSuccess([a |-> a, ok |-> k], s, c) = priv_update_check_list_state_for_ready(z, c)
  BY DEF FinishSuccess
<1>2. s \in Streams
  BY Numbers
<1>3. p \in Check /\ CheckOk(a.comp, s, p) /\ p.comp = c
  BY <1>2, ListFields DEF Good
<1> HIDE DEF p
<1>4. Good(x)
  BY <1>3, UpdateSelectedHeld DEF Held, Kept
<1> HIDE DEF x
<1>5. Good(y)
  BY <1>4, ComponentStateHeld DEF Held, Kept, ComponentStates
<1> HIDE DEF y
<1>6. Good(z)
  BY <1>5
<1> HIDE DEF z
<1> QED
  BY <1>1, <1>6, ReadyHeld DEF Held, Kept

\* A pair without a transaction may take any state.
LEMMA AnyState ==
  ASSUME NEW a, Good(a), NEW s \in Streams, NEW i \in DOMAIN a.list[s], ~a.list[s][i].buf,
         NEW st \in CheckStates
  PROVE  Held(a, SetState(a, s, i, st)) /\ SetState(a, s, i, st).comp = a.comp
<1> DEFINE p == a.list[s][i]
           q == [p EXCEPT !.state = st]
<1>1. p \in Check /\ ~p.buf
  BY ListFields DEF Good
<1> HIDE DEF p
<1>2. Quiet(q)
  BY <1>1, StatePair DEF Quiet
<1>3. Quiet([a.list[s][i] EXCEPT !.state = st])
  BY <1>2 DEF p
<1> HIDE DEF q
<1>4. /\ Held(a, SetState(a, s, i, st))
      /\ SetState(a, s, i, st).comp = a.comp
      /\ SetState(a, s, i, st).list[s]
           = [a.list[s] EXCEPT ![i] = [a.list[s][i] EXCEPT !.state = st]]
  BY <1>3, StateReplaced
<1> QED
  BY <1>4

\* What a successful response leaves: the agent and the position of a pair of c
Finishable(st, s, c) ==
    /\ st = [a |-> st.a, ok |-> st.ok]
    /\ Good(st.a) /\ st.ok \in DOMAIN st.a.list[s] /\ st.a.list[s][st.ok].comp = c

LEMMA SucceededHeld ==
  ASSUME NEW a, Good(a), NEW s \in Streams, NEW i \in DOMAIN a.list[s], ~a.list[s][i].buf
  PROVE  Held(a, priv_conn_check_unfreeze_related(SetState(a, s, i, "SUCCEEDED"), s, i))
<1> DEFINE x == SetState(a, s, i, "SUCCEEDED")
           y == priv_conn_check_unfreeze_related(x, s, i)
<1>1. Held(a, x)
  BY AnyState DEF CheckStates
<1> HIDE DEF x
<1>2. Held(x, y)
  BY <1>1, UnfreezeRelatedHeld DEF Held, Kept
<1> HIDE DEF y
<1> QED
  BY <1>1, <1>2, HeldTrans DEF x, y

LEMMA MappedKnownGood ==
  ASSUME NEW a, Good(a), NEW s \in Streams, NEW i \in DOMAIN a.list[s], ~a.list[s][i].buf,
         NEW cand
  PROVE  Finishable(MappedKnown(a, s, i, cand), s, a.list[s][i].comp)
<1> DEFINE L == a.list[s]
           p == L[i]
           I == {j \in 1 .. Len(L) : L[j].comp = p.comp /\ L[j].local = cand /\ L[j].remote = p.remote}
           k == IF I # {} THEN Min(I) ELSE 0
           ok == IF k = 0 THEN i ELSE k
           b == priv_conn_check_unfreeze_related(SetState(a, s, i, "SUCCEEDED"), s, i)
           st == MappedKnown(a, s, i, cand)
<1>1. st = [a |-> b, ok |-> ok]
  BY DEF MappedKnown, SelectInSeq
<1>2. Held(a, b)
  BY SucceededHeld
<1> HIDE DEF b
<1>3. Len(L) \in Nat /\ DOMAIN L = 1 .. Len(L)
  BY ListFields DEF Good
<1>4. I \in SUBSET Nat /\ I \subseteq DOMAIN L /\ \A j \in I : L[j].comp = p.comp
  BY <1>3
<1>5. k = 0 \/ (k \in DOMAIN L /\ L[k].comp = p.comp)
  <2> HIDE DEF I, L, p
  <2> QED
    BY <1>4, MinIn
<1> HIDE DEF k
<1>6. ok \in DOMAIN L /\ L[ok].comp = p.comp
  BY <1>5
<1> HIDE DEF ok
<1>7. ok \in DOMAIN b.list[s] /\ b.list[s][ok].comp = p.comp /\ Good(b)
  BY <1>2, <1>6 DEF Held, InPlace, Kept
<1> HIDE DEF st
<1> QED
  BY <1>1, <1>7 DEF Finishable, st

LEMMA SocketAddrType ==
  ASSUME NEW a, Good(a), NEW c \in Components, NEW sock, HasSock(a.comp[c], sock)
  PROVE  SocketAddr(a, c, sock) \in Addrs
<1> DEFINE ls == a.comp[c].locals
           I == {i \in 1 .. Len(ls) : ls[i].sock = sock}
           k == IF I # {} THEN Min(I) ELSE 0
<1>1. SocketAddr(a, c, sock) = ls[k].addr
  BY DEF SocketAddr, SelectInSeq
<1>2. DOMAIN ls = 1 .. Len(ls) /\ Len(ls) \in Nat /\ \A i \in DOMAIN ls : ls[i] \in Candidates
  BY AgentFields, ComponentFields DEF Good
<1>3. I \in SUBSET Nat /\ I # {} /\ I \subseteq DOMAIN ls
  BY <1>2 DEF HasSock
<1> HIDE DEF I, ls
<1>4. k \in DOMAIN ls
  BY <1>3, MinIn
<1> HIDE DEF k
<1>5. ls[k] \in Candidates
  BY <1>2, <1>4
<1> QED
  BY <1>1, <1>5 DEF Candidates

\* The peer reflexive candidate that the response to a check on p shows
MappedCandidate(a, p, mapped) ==
    [type |-> "prflx", addr |-> mapped, sock |-> p.sock, net |-> p.local.net,
     prio |-> PrflxLocalPrio, found |-> PrflxFoundation(SocketAddr(a, p.comp, p.sock))]

LEMMA MappedCandidateType ==
  ASSUME NEW a, Good(a), NEW s \in Streams, NEW p \in Check, CheckOk(a.comp, s, p),
         NEW mapped \in Addrs
  PROVE  /\ MappedCandidate(a, p, mapped) \in Candidates
         /\ MappedCandidate(a, p, mapped).addr = mapped
         /\ MappedCandidate(a, p, mapped).sock = p.sock
<1> DEFINE sa == SocketAddr(a, p.comp, p.sock)
           f == PrflxFoundation(sa)
<1>1. p.comp \in Components /\ p.sock \in Names /\ p.local \in Candidates
  BY DEF Check
<1>2. sa \in Addrs
  BY <1>1, SocketAddrType DEF CheckOk
<1> HIDE DEF sa
<1>3. f \in Foundations
  BY <1>2 DEF PrflxFoundation, Foundations, CandidateTypes, Addrs
<1> HIDE DEF f
<1>4. p.local.net \in Names /\ PrflxLocalPrio \in Nat /\ "prflx" \in CandidateTypes
  BY <1>1, PriorityAssumption DEF Candidates, CandidateTypes
<1>5. MappedCandidate(a, p, mapped) = [type |-> "prflx", addr |-> mapped, sock |-> p.sock,
         net |-> p.local.net, prio |-> PrflxLocalPrio, found |-> f]
  BY DEF MappedCandidate, f, sa
<1> QED
  BY <1>1, <1>3, <1>4, <1>5 DEF Candidates

\* The pair d of c can be put into the list of s.
Insertable(a, s, c, d) ==
    /\ d \in Check /\ d.comp = c
    /\ Good([a EXCEPT !.list[s] = InsertSorted(a.list[s], d)])
    /\ [a EXCEPT !.list[s] = InsertSorted(a.list[s], d)].list[s] = InsertSorted(a.list[s], d)
    /\ \E k \in DOMAIN InsertSorted(a.list[s], d) : InsertSorted(a.list[s], d)[k] = d

LEMMA DiscoveredPair ==
  ASSUME NEW a, Good(a), NEW c \in Components, NEW s, s = StreamOf[c], NEW cand \in Candidates,
         HasLocal(a.comp[c], cand), NEW r, \E i \in DOMAIN a.comp[c].remotes : r = a.comp[c].remotes[i],
         NEW u \in CheckStates, NEW f \in BOOLEAN,
         NEW d, d = NewPair(a, c, cand, r, cand.sock, u, f)
  PROVE  Insertable(a, s, c, d)
<1>1. s \in Streams
  BY Numbers
<1>2. Pairable(a, c, cand, r)
  BY DEF Pairable
<1>3. cand.sock \in Names /\ HasSock(a.comp[c], cand.sock)
  BY DEF Candidates, HasLocal, HasSock
<1>5. d \in Check /\ CheckOk(a.comp, s, d) /\ d.comp = c
  BY <1>2, <1>3, NewPairOk
<1>6. /\ Kept(a, [a EXCEPT !.list[s] = InsertSorted(a.list[s], d)])
      /\ [a EXCEPT !.list[s] = InsertSorted(a.list[s], d)].list[s] = InsertSorted(a.list[s], d)
      /\ Embeds(a.list[s], InsertSorted(a.list[s], d), Owner(d))
      /\ \E k \in DOMAIN InsertSorted(a.list[s], d) : InsertSorted(a.list[s], d)[k] = d
  BY <1>1, <1>5, InsertedKept
<1> QED
  BY <1>5, <1>6 DEF Kept, Insertable

LEMMA MappedUnknownGood ==
  ASSUME NEW a, Good(a), NEW s \in Streams, NEW i \in DOMAIN a.list[s], ~a.list[s][i].buf,
         NEW mapped \in Addrs,
         \A l \in DOMAIN a.comp[a.list[s][i].comp].locals :
            a.comp[a.list[s][i].comp].locals[l].addr # mapped
  PROVE  Finishable(MappedUnknown(a, s, i, mapped), s, a.list[s][i].comp)
<1> DEFINE L == a.list[s]
           p == L[i]
           c == p.comp
           cand == MappedCandidate(a, p, mapped)
           o == <<c, cand>>
           x == priv_add_local_candidate_pruned(a, c, cand)
           O == {j \in DOMAIN x.list[s] : <<x.list[s][j].comp, x.list[s][j].local>> # o}
           j == Ranked(O, i)
           y == SetState(x, s, j, "FAILED")
           r == Remote(y, c, p.remote)
           d == NewPair(y, c, cand, r, cand.sock, "DISCOVERED", FALSE)
           z == [y EXCEPT !.list[s] = InsertSorted(y.list[s], d)]
           K == {m \in 1 .. Len(z.list[s]) : z.list[s][m] = d}
           k == IF K # {} THEN Min(K) ELSE 0
           st == MappedUnknown(a, s, i, mapped)
<1>1. st = [a |-> z, ok |-> k]
  BY DEF MappedUnknown, MappedCandidate, SelectInSeq, Ranked
<1>2. L \in Seq(Check) /\ \A m \in DOMAIN L : L[m] \in Check /\ CheckOk(a.comp, s, L[m])
  BY ListFields DEF Good
<1>3. p \in Check /\ CheckOk(a.comp, s, p) /\ ~p.buf /\ c \in Components /\ StreamOf[c] = s
  BY <1>2 DEF CheckOk, Check
<1>4. \A l \in DOMAIN a.comp[c].locals : a.comp[c].locals[l].addr # mapped
  OBVIOUS
<1>5. i \in DOMAIN L
  OBVIOUS
<1> HIDE DEF L, st
<1>6. ~L[i].buf
  BY <1>3
<1> HIDE DEF p
<1>7. cand \in Candidates /\ cand.addr = mapped /\ cand.sock = p.sock
  BY <1>3, MappedCandidateType
<1> HIDE DEF cand, c
<1>8. ~Redundant(a, c, cand) /\ ~HasLocal(a.comp[c], cand)
  BY <1>4, <1>7 DEF Redundant, HasLocal, ToSet
<1>9. /\ Good(x) /\ Grown(a.comp[c], x.comp[c]) /\ HasLocal(x.comp[c], cand)
      /\ Embeds(L, x.list[s], o)
  BY <1>3, <1>7, <1>8, AddLocal DEF L
<1> HIDE DEF x
<1>10. PICK e : Embedding(e, L, x.list[s], o)
  BY <1>9 DEF Embeds
<1>11. \A m \in DOMAIN L : Owner(L[m]) # o
  <2> SUFFICES ASSUME NEW m \in DOMAIN L, Owner(L[m]) = o PROVE FALSE
    OBVIOUS
  <2>1. L[m].comp = c /\ L[m].local = cand
    BY DEF Owner
  <2> QED
    BY <1>2, <1>8, <2>1 DEF CheckOk
<1>12. x.list[s] \in Seq(Check)
  BY <1>9, ListFields DEF Good
<1>13. O = {m \in DOMAIN x.list[s] : Owner(x.list[s][m]) # o}
  BY DEF Owner
<1> HIDE DEF O, o
<1>14. j = e[i]
  <2> DEFINE X == x.list[s]
  <2>1. X \in Seq(Check) /\ Embedding(e, L, X, o) /\ O = {m \in DOMAIN X : Owner(X[m]) # o}
    BY <1>10, <1>12, <1>13
  <2> HIDE DEF X
  <2>2. Ranked(O, i) = e[i]
    BY <1>2, <1>5, <1>11, <2>1, MovedTo
  <2> QED
    BY <2>2
<1> HIDE DEF j
<1>15. j \in DOMAIN x.list[s] /\ ~x.list[s][j].buf
  BY <1>5, <1>6, <1>10, <1>14 DEF Embedding
<1>16. Good(y) /\ y.comp = x.comp
  BY <1>9, <1>15, AnyState DEF Held, Kept, CheckStates
<1> HIDE DEF y
<1>17. HasLocal(y.comp[c], cand) /\ HasRemote(y.comp[c], p.remote)
  <2>1. HasRemote(a.comp[c], p.remote)
    BY <1>3 DEF CheckOk, c
  <2> QED
    BY <1>9, <1>16, <2>1 DEF Grown
<1>18. \E m \in DOMAIN y.comp[c].remotes : r = y.comp[c].remotes[m]
  BY <1>3, <1>16, <1>17, RemoteKnown
<1> HIDE DEF r
<1> DEFINE M == InsertSorted(y.list[s], d)
<1>19. /\ d \in Check /\ d.comp = c
       /\ Good(z) /\ z.list[s] = M /\ \E m \in DOMAIN M : M[m] = d
  <2> DEFINE u == "DISCOVERED"
             f == FALSE
  <2>1. d = NewPair(y, c, cand, r, cand.sock, u, f) /\ u \in CheckStates /\ f \in BOOLEAN
    BY DEF CheckStates
  <2> HIDE DEF d, u, f
  <2>2. s = StreamOf[c] /\ c \in Components /\ cand \in Candidates /\ Good(y) /\ HasLocal(y.comp[c], cand)
    BY <1>3, <1>7, <1>16, <1>17
  <2>3. Insertable(y, s, c, d)
    BY <1>18, <2>1, <2>2, DiscoveredPair
  <2> QED
    BY <2>3 DEF Insertable
<1> HIDE DEF d, M, z
<1>20. DOMAIN z.list[s] = 1 .. Len(z.list[s]) /\ Len(z.list[s]) \in Nat
  BY <1>19, ListFields DEF Good
<1>21. K # {} /\ K \in SUBSET Nat /\ \A m \in K : m \in DOMAIN z.list[s] /\ z.list[s][m] = d
  BY <1>19, <1>20
<1> HIDE DEF K
<1>22. k \in K
  BY <1>21, MinIn
<1> HIDE DEF k
<1>23. k \in DOMAIN z.list[s] /\ z.list[s][k].comp = c
  BY <1>19, <1>21, <1>22
<1> QED
  BY <1>1, <1>19, <1>23 DEF Finishable, st, c, p, L

LEMMA MappedGood ==
  ASSUME NEW a, Good(a), NEW s \in Streams, NEW i \in DOMAIN a.list[s], ~a.list[s][i].buf,
         NEW mapped \in Addrs
  PROVE  Finishable(priv_process_response_check_for_peer_reflexive(a, s, i, mapped), s,
                    a.list[s][i].comp)
<1> DEFINE c == a.list[s][i].comp
           ls == a.comp[c].locals
           I == {l \in 1 .. Len(ls) : ls[l].addr = mapped}
           k == IF I # {} THEN Min(I) ELSE 0
           st == priv_process_response_check_for_peer_reflexive(a, s, i, mapped)
<1>1. st = IF k # 0 THEN MappedKnown(a, s, i, ls[k]) ELSE MappedUnknown(a, s, i, mapped)
  BY DEF priv_process_response_check_for_peer_reflexive, SelectInSeq
<1>2. c \in Components
  BY ListFields DEF Good, Check
<1>3. DOMAIN ls = 1 .. Len(ls) /\ Len(ls) \in Nat
  BY <1>2, AgentFields, ComponentFields DEF Good
<1>4. CASE k # 0
  <2>1. Finishable(MappedKnown(a, s, i, ls[k]), s, c)
    BY MappedKnownGood
  <2> HIDE DEF k, ls, st
  <2> QED
    BY <1>1, <1>4, <2>1 DEF st
<1>5. CASE k = 0
  <2>1. I \in SUBSET Nat /\ 0 \notin I
    OBVIOUS
  <2>2. I = {}
    <3> HIDE DEF I
    <3> QED
      BY <1>5, <2>1, MinIn
  <2>3. \A l \in DOMAIN ls : ls[l].addr # mapped
    BY <1>3, <2>2
  <2>4. Finishable(MappedUnknown(a, s, i, mapped), s, c)
    BY <2>3, MappedUnknownGood
  <2> HIDE DEF k, ls, st
  <2> QED
    BY <1>1, <1>5, <2>4 DEF st
<1> QED
  BY <1>4, <1>5

\* The responses the network may bring to a check
Answers == [kind : {"mapped"}, mapped : Addrs] \cup
           [kind : {"wrong_source", "no_mapped_address", "role_conflict", "error"},
            mapped : {NoAddr}]

LEMMA HandleResponseGood ==
  ASSUME NEW a, Good(a), NEW s \in Streams, NEW i \in DOMAIN a.list[s], NEW resp \in Answers
  PROVE  Good(HandleResponse(a, s, i, resp))
<1> DEFINE p == a.list[s][i]
           c == p.comp
           q == [p EXCEPT !.buf = FALSE]
           x == WithPair(a, s, i, q)
           failed == SetState(x, s, i, "FAILED")
           done == priv_conn_check_unfreeze_related(SetState(x, s, i, "SUCCEEDED"), s, i)
           finished == FinishSuccess([a |-> done, ok |-> i], s, c)
           w == priv_check_for_role_conflict(x, ~p.controlling)
           waiting == SetState(w, s, i, "WAITING")
           st == priv_process_response_check_for_peer_reflexive(x, s, i, resp.mapped)
           mapped == FinishSuccess(st, s, c)
           y == CASE resp.kind = "wrong_source" -> failed
                  [] resp.kind = "no_mapped_address" -> finished
                  [] resp.kind = "role_conflict" -> waiting
                  [] resp.kind = "error" -> x
                  [] resp.kind = "mapped" -> mapped
           z == [y EXCEPT !.list[s] = prune_cancelled_conn_check(y.list[s])]
<1>1. HandleResponse(a, s, i, resp) = z
  BY DEF HandleResponse
<1>2. p \in Check /\ CheckOk(a.comp, s, p)
  BY ListFields DEF Good
<1>3. c \in Components /\ StreamOf[c] = s /\ p.controlling \in BOOLEAN
  BY <1>2 DEF CheckOk, Check
<1> HIDE DEF p
<1>4. SamePair(p, q) /\ q.buf = FALSE
  BY <1>2 DEF SamePair, Check
<1> HIDE DEF q, c
<1>5. q \in Check /\ CheckOk(a.comp, s, q) /\ q.comp = c
  BY <1>2, <1>4, SamePairOk DEF SamePair, Quiet, c
<1>6. Held(a, x) /\ x.list[s] = [a.list[s] EXCEPT ![i] = q]
  BY <1>5, CheckReplaced DEF c, p
<1> HIDE DEF x
<1>7. Good(x) /\ i \in DOMAIN x.list[s] /\ x.list[s][i] = q /\ ~x.list[s][i].buf
  BY <1>4, <1>6 DEF Held, Kept
<1>8. Good(failed)
  BY <1>7, AnyState DEF Held, Kept, CheckStates
<1>9. Good(finished)
  <2>1. Held(x, done)
    BY <1>7, SucceededHeld
  <2> HIDE DEF done
  <2>2. Good(done) /\ i \in DOMAIN done.list[s] /\ done.list[s][i].comp = c
    BY <1>5, <1>7, <2>1 DEF Held, InPlace, Kept
  <2> QED
    BY <1>3, <2>2, FinishGood
<1>10. Good(waiting)
  <2>1. Recalculated(x, w)
    BY <1>3, <1>7, RoleConflict
  <2> HIDE DEF w
  <2>2. Good(w) /\ i \in DOMAIN w.list[s] /\ ~w.list[s][i].buf
    BY <1>7, <2>1 DEF Recalculated, Held, InPlace, Kept
  <2> QED
    BY <2>2, AnyState DEF Held, Kept, CheckStates
<1>11. resp.kind = "mapped" => Good(mapped)
  <2> SUFFICES ASSUME resp.kind = "mapped" PROVE Good(mapped)
    OBVIOUS
  <2>1. resp.mapped \in Addrs
    BY DEF Answers
  <2>2. Finishable(st, s, c)
    BY <1>5, <1>7, <2>1, MappedGood
  <2> HIDE DEF st
  <2> DEFINE b == st.a
             k == st.ok
  <2>3. st = [a |-> b, ok |-> k] /\ Good(b) /\ k \in DOMAIN b.list[s] /\ b.list[s][k].comp = c
    BY <2>2 DEF Finishable
  <2> HIDE DEF b, k
  <2>4. Good(FinishSuccess([a |-> b, ok |-> k], s, c))
    BY <1>3, <2>3, FinishGood
  <2> QED
    BY <2>3, <2>4
<1> HIDE DEF failed, finished, waiting, mapped
<1>12. Good(y)
  BY <1>7, <1>8, <1>9, <1>10, <1>11 DEF Answers
<1> HIDE DEF y
<1>13. Kept(y, z)
  BY <1>12, PruneCancelled
<1> HIDE DEF z
<1> QED
  BY <1>1, <1>13 DEF Kept

-----------------------------------------------------------------------------
\* The inductive invariant

IInv == Good(agent) /\ budget \in Environments

LEMMA NoneTypes == NoCandidate \in Candidates /\ NoPair \in Selection
<1>1. /\ "none" \in CandidateTypes /\ "none" \in Names /\ 0 \in Nat
  BY DEF CandidateTypes, Names
<1>2. NoAddr \in Addrs
  BY <1>1 DEF NoAddr, Addrs
<1>3. <<"none", "none">> \in Foundations
  BY <1>1 DEF Foundations
<1>4. NoCandidate \in Candidates
  BY <1>1, <1>2, <1>3 DEF NoCandidate, Candidates
<1> QED
  BY <1>2, <1>4 DEF NoPair, Selection

LEMMA InitGood ==
  ASSUME Init
  PROVE  IInv
<1>1. budget \in Environments
  BY SetupsAssumption DEF Init
<1> DEFINE K == [c \in Components |->
                   [state |-> "GATHERING", locals |-> LocalCands[c], remotes |-> <<>>,
                    incoming |-> <<>>, selected |-> NoPair]]
           L == [s \in Streams |-> <<>>]
           C == [s \in Streams |-> FALSE]
           d == \E c \in Components : budget.late[c] # {}
<1>2. PICK control \in BOOLEAN :
        agent = [controlling |-> control, timer |-> FALSE, discovering |-> d, creds |-> C,
                 list |-> L, comp |-> K]
  BY SetupsAssumption DEF Init
<1>3. ASSUME NEW c \in Components PROVE K[c] \in Component /\ ComponentOk(K[c])
  <2>1. LocalCands[c] \in Seq(Candidates) /\ "GATHERING" \in ComponentStates
    BY CandidatesAssumption DEF ComponentStates
  <2>2. <<>> \in Seq(Candidates) /\ <<>> \in Seq(Early)
    OBVIOUS
  <2>3. K[c] = [state |-> "GATHERING", locals |-> LocalCands[c], remotes |-> <<>>,
                incoming |-> <<>>, selected |-> NoPair]
    OBVIOUS
  <2> HIDE DEF K
  <2>4. K[c] \in Component /\ K[c].remotes = <<>> /\ K[c].incoming = <<>>
    BY <2>1, <2>2, <2>3, NoneTypes DEF Component
  <2> QED
    BY <2>4 DEF ComponentOk
<1>4. K \in [Components -> Component]
  BY <1>3
<1>5. L \in [Streams -> Seq(Check)] /\ \A s \in Streams : L[s] = <<>>
  OBVIOUS
<1>6. C \in [Streams -> BOOLEAN] /\ d \in BOOLEAN
  OBVIOUS
<1> HIDE DEF K, L, C, d
<1>7. agent \in Agents /\ agent.comp = K /\ agent.list = L
  BY <1>2, <1>4, <1>5, <1>6 DEF Agents
<1>8. Good(agent)
  BY <1>3, <1>5, <1>7 DEF Good
<1> QED
  BY <1>1, <1>8 DEF IInv

\* A budgeted event leaves the environment one of its kind.
LEMMA SpendKeeps ==
  ASSUME budget \in Environments,
         NEW kind \in {"request", "set", "conflict", "restart", "select"}, Spend(kind)
  PROVE  budget' \in Environments
<1>1. CASE kind = "request"
  BY <1>1 DEF Spend, Environments
<1>2. CASE kind = "set"
  BY <1>2 DEF Spend, Environments
<1>3. CASE kind = "conflict"
  BY <1>3 DEF Spend, Environments
<1>4. CASE kind = "restart"
  BY <1>4 DEF Spend, Environments
<1>5. CASE kind = "select"
  BY <1>5 DEF Spend, Environments
<1> QED
  BY <1>1, <1>2, <1>3, <1>4, <1>5

LEMMA CredentialsGood ==
  ASSUME IInv, NEW s \in Streams, SetRemoteCredentials(s)
  PROVE  IInv'
<1> DEFINE b == [agent EXCEPT !.creds[s] = TRUE]
<1>1. agent \in Agents /\ agent' = b /\ budget' = budget
  BY DEF IInv, Good, SetRemoteCredentials
<1>2. b \in Agents /\ b.comp = agent.comp /\ b.list = agent.list
  BY <1>1 DEF Agents
<1> HIDE DEF b
<1>3. Good(b)
  BY <1>2 DEF IInv, Good
<1> QED
  BY <1>1, <1>3 DEF IInv

LEMMA SetRemoteGood ==
  ASSUME IInv, NEW c \in Components, SetRemoteCandidates(c)
  PROVE  IInv'
<1>1. budget' \in Environments
  BY SpendKeeps DEF IInv, SetRemoteCandidates
<1>2. PICK batch \in RemoteBatches[c] :
        \E due \in SUBSET Pending(conn_check_remote_candidates_set(
                            Loop(LAMBDA x, d : priv_add_remote_candidate(x, c, d), agent, batch))) :
          agent' = IF batch = <<>>
                   THEN conn_check_remote_candidates_set(
                          Loop(LAMBDA x, d : priv_add_remote_candidate(x, c, d), agent, batch))
                   ELSE conn_check_schedule_next(conn_check_remote_candidates_set(
                          Loop(LAMBDA x, d : priv_add_remote_candidate(x, c, d), agent, batch)), due)
  BY Zenon DEF SetRemoteCandidates
<1> DEFINE x == Loop(LAMBDA x, d : priv_add_remote_candidate(x, c, d), agent, batch)
           y == conn_check_remote_candidates_set(x)
<1>3. PICK due : agent' = IF batch = <<>> THEN y ELSE conn_check_schedule_next(y, due)
  BY <1>2, Zenon
<1>4. batch \in Seq(Candidates) /\ \A n \in DOMAIN batch : batch[n].type # "prflx"
  BY <1>2, CandidatesAssumption DEF ToSet
<1>5. Good(x)
  BY <1>4, AddRemotes DEF IInv
<1> HIDE DEF x
<1>6. Good(y)
  BY <1>5, RemoteCandidatesSetGood
<1> HIDE DEF y
<1>7. Good(agent')
  BY <1>3, <1>6, ScheduleNextGood
<1> QED
  BY <1>1, <1>7 DEF IInv

LEMMA GatherGood ==
  ASSUME IInv, NEW c \in Components, GatherLocalCandidate(c)
  PROVE  IInv'
<1>1. PICK cand \in budget.late[c] : agent' = priv_add_local_candidate_pruned(agent, c, cand)
  BY DEF GatherLocalCandidate
<1>2. cand \in Candidates
  BY <1>1 DEF IInv, Environments
<1>3. Good(agent')
  BY <1>1, <1>2, AddLocal DEF IInv
<1> QED
  BY <1>3 DEF GatherLocalCandidate, IInv

LEMMA RequestGood ==
  ASSUME IInv, NEW c \in Components, InboundRequest(c)
  PROVE  IInv'
<1>1. budget' \in Environments
  BY SpendKeeps DEF IInv, InboundRequest
<1>2. PICK l \in ToSet(agent.comp[c].locals), from \in budget.requests, use \in BOOLEAN,
           switch \in BOOLEAN : agent' = HandleRequest(agent, c, l.sock, from, use, switch)
  BY DEF InboundRequest
<1>3. from \in Addrs
  BY <1>2 DEF IInv, Environments
<1>4. PICK i \in DOMAIN agent.comp[c].locals : l = agent.comp[c].locals[i]
  BY <1>2 DEF ToSet
<1>5. l \in Candidates
  BY <1>4, AgentFields, ComponentFields DEF IInv, Good
<1>6. l.sock \in Names /\ HasSock(agent.comp[c], l.sock)
  BY <1>4, <1>5 DEF Candidates, HasSock
<1>7. Good(agent')
  BY <1>2, <1>3, <1>6, HandleRequestGood DEF IInv
<1> QED
  BY <1>1, <1>7 DEF IInv

LEMMA ResponseGood ==
  ASSUME IInv, InboundResponse
  PROVE  IInv'
<1>0. PICK s \in Streams : \E i \in DOMAIN agent.list[s] :
        \E resp \in Responses(agent.list[s][i].comp) :
          /\ IF resp.kind = "role_conflict" THEN Spend("conflict") ELSE UNCHANGED budget
          /\ agent' = HandleResponse(agent, s, i, resp)
  BY DEF InboundResponse
<1>1. PICK i \in DOMAIN agent.list[s] :
        \E resp \in Responses(agent.list[s][i].comp) :
          /\ IF resp.kind = "role_conflict" THEN Spend("conflict") ELSE UNCHANGED budget
          /\ agent' = HandleResponse(agent, s, i, resp)
  BY <1>0
<1>2. PICK resp \in Responses(agent.list[s][i].comp) :
          /\ IF resp.kind = "role_conflict" THEN Spend("conflict") ELSE UNCHANGED budget
          /\ agent' = HandleResponse(agent, s, i, resp)
  BY <1>1
<1>3. budget' \in Environments
  BY <1>2, SpendKeeps DEF IInv
<1>4. resp \in Answers
  <2> DEFINE c == agent.list[s][i].comp
  <2>1. c \in Components
    BY <1>1, ListFields DEF IInv, Good, Check
  <2> HIDE DEF c
  <2>2. budget.mapped[c] \subseteq Addrs
    BY <2>1 DEF IInv, Environments
  <2>3. resp \in Responses(c)
    BY <1>2 DEF c
  <2> QED
    BY <2>2, <2>3 DEF Responses, Answers
<1>5. Good(agent')
  BY <1>1, <1>2, <1>4, HandleResponseGood DEF IInv
<1> QED
  BY <1>3, <1>5 DEF IInv

LEMMA SelectPairGood ==
  ASSUME IInv, NEW c \in Components, SetSelectedPair(c)
  PROVE  IInv'
<1>1. budget' \in Environments
  BY SpendKeeps DEF IInv, SetSelectedPair
<1>2. PICK l \in ToSet(agent.comp[c].locals), r \in ToSet(agent.comp[c].remotes) :
         agent' = [conn_check_prune_stream(agent, StreamOf[c]) EXCEPT
                     !.comp[c].state = "READY",
                     !.comp[c].selected = component_find_pair(agent, c, l.found, r.found)]
  BY DEF SetSelectedPair
<1> DEFINE x == component_find_pair(agent, c, l.found, r.found)
<1>3. /\ \E i \in DOMAIN agent.comp[c].locals : agent.comp[c].locals[i].found = l.found
      /\ \E i \in DOMAIN agent.comp[c].remotes : agent.comp[c].remotes[i].found = r.found
  BY <1>2 DEF ToSet
<1>4. x \in Selection
  BY <1>3, FoundPair DEF IInv
<1>5. agent' = [conn_check_prune_stream(agent, StreamOf[c]) EXCEPT
                  !.comp[c].state = "READY", !.comp[c].selected = x]
  BY <1>2
<1> HIDE DEF x
<1>6. Good(agent')
  BY <1>4, <1>5, SelectGood DEF IInv
<1> QED
  BY <1>1, <1>6 DEF IInv

LEMMA NextGood ==
  ASSUME IInv, [Next]_vars
  PROVE  IInv'
<1>1. ASSUME NEW s \in Streams, SetRemoteCredentials(s) PROVE IInv'
  BY <1>1, CredentialsGood
<1>2. ASSUME NEW c \in Components, SetRemoteCandidates(c) PROVE IInv'
  BY <1>2, SetRemoteGood
<1>3. ASSUME NEW c \in Components, GatherLocalCandidate(c) PROVE IInv'
  BY <1>3, GatherGood
<1>4. CASE GatheringDone
  BY <1>4, GatheringDoneGood DEF GatheringDone, IInv
<1>5. CASE Tick
  <2>1. PICK due : agent' = priv_conn_check_tick_unlocked(agent, due).a
    BY <1>5 DEF Tick
  <2>2. Good(agent')
    BY <2>1, TickGood DEF IInv
  <2> QED
    BY <1>5, <2>2 DEF Tick, IInv
<1>6. ASSUME NEW c \in Components, InboundRequest(c) PROVE IInv'
  BY <1>6, RequestGood
<1>7. CASE InboundResponse
  BY <1>7, ResponseGood
<1>8. ASSUME NEW s \in Streams, InboundUnmatched(s) PROVE IInv'
  <2>1. /\ agent' = [agent EXCEPT !.list[s] = prune_cancelled_conn_check(agent.list[s])]
        /\ budget' = budget
    BY <1>8 DEF InboundUnmatched
  <2>2. Good(agent')
    BY <2>1, PruneCancelled DEF IInv, Kept
  <2> QED
    BY <2>1, <2>2 DEF IInv
<1>9. CASE Restart
  <2>1. budget' \in Environments
    BY <1>9, SpendKeeps DEF Restart, IInv
  <2>2. Good(agent')
    BY <1>9, RestartGood DEF Restart, IInv
  <2> QED
    BY <2>1, <2>2 DEF IInv
<1>10. ASSUME NEW c \in Components, SetSelectedPair(c) PROVE IInv'
  BY <1>10, SelectPairGood
<1>11. CASE UNCHANGED vars
  BY <1>11 DEF vars, IInv
<1> QED
  BY <1>1, <1>2, <1>3, <1>4, <1>5, <1>6, <1>7, <1>8, <1>9, <1>10, <1>11 DEF Next

-----------------------------------------------------------------------------
\* In every reachable state the agent and its environment are of their types;
\* every pair is in the list of the stream of its component, and has a local
\* candidate, a remote candidate and a socket that its component still has;
\* the early checks that are stored, and the peer reflexive remote candidates,
\* came in on a socket of the component; and a pair has a transaction only
\* while it is in progress or has been cancelled by the limit on the list.
THEOREM ConnCheckInvariant == Spec => []IInv
<1>1. Init => IInv
  BY InitGood
<1>2. IInv /\ [Next]_vars => IInv'
  BY NextGood
<1> QED
  BY <1>1, <1>2, PTL DEF Spec

\* TypeOK, with the pointers of the pairs: whatever the application, the peer
\* and the timer do, no pair of a check list refers to a candidate that its
\* component does not have any more.
THEOREM TypeOKHolds == Spec => []TypeOK
<1>1. ASSUME IInv PROVE TypeOK
  <2>1. agent \in Agents /\ \A c \in Components : agent.comp[c] \in Component
    BY <1>1, AgentFields DEF IInv, Good
  <2>2. agent.controlling \in BOOLEAN /\ agent.timer \in BOOLEAN /\ agent.discovering \in BOOLEAN
    BY <2>1, AgentFields
  <2>3. \A c \in Components : agent.comp[c].state \in ComponentStates
    BY <2>1, ComponentFields
  <2>4. ASSUME NEW s \in Streams, NEW i \in DOMAIN agent.list[s], NEW p, p = agent.list[s][i]
        PROVE  /\ p.state \in CheckStates /\ StreamOf[p.comp] = s
               /\ Contains(agent.comp[p.comp].locals, p.local)
               /\ KnownRemote(agent, p.comp, p.remote)
    <3>1. p \in Check /\ CheckOk(agent.comp, s, p)
      BY <1>1, <2>1, <2>4, ListFields DEF IInv, Good
    <3>2. p.comp \in Components /\ p.state \in CheckStates /\ StreamOf[p.comp] = s
      BY <3>1 DEF Check, CheckOk
    <3>3. DOMAIN agent.comp[p.comp].locals = 1 .. Len(agent.comp[p.comp].locals)
      BY <2>1, <3>2, ComponentFields
    <3>4. Contains(agent.comp[p.comp].locals, p.local)
      BY <3>1, <3>3 DEF CheckOk, HasLocal, Contains
    <3>5. KnownRemote(agent, p.comp, p.remote)
      BY <3>1, KnownHas DEF CheckOk
    <3> QED
      BY <3>2, <3>4, <3>5
  <2> QED
    BY <2>2, <2>3, <2>4 DEF TypeOK
<1> QED
  BY <1>1, ConnCheckInvariant, PTL

\* OutstandingChecks: only a check in progress, or one cancelled by the limit on
\* the list, has a transaction that a late response could match.
THEOREM OutstandingChecksHolds == Spec => []OutstandingChecks
<1>1. ASSUME IInv PROVE OutstandingChecks
  BY <1>1 DEF IInv, Good, CheckOk, Quiet, OutstandingChecks
<1> QED
  BY <1>1, ConnCheckInvariant, PTL
=============================================================================
