-------------------------- MODULE GatheringProofs --------------------------
(***************************************************************************)
(* Proofs about Gathering, for any streams, servers, set-ups and number of *)
(* events: the discovery timer runs exactly while there are items, done is *)
(* not signalled before they are answered, the refreshes of allocations    *)
(* are timed and point to living candidates, foundations match.            *)
(*                                                                         *)
(* Each operator on the agent has a lemma that says what it preserves; an  *)
(* action is a composition of them.                                        *)
(***************************************************************************)
EXTENDS Gathering, Recursion, FiniteSetTheorems

-----------------------------------------------------------------------------
\* Types

Turns == {None} \cup Servers
            \cup UNION {UNION {setup.relay[s] : s \in Streams} : setup \in Setups}
TransportType == {"UDP", "TCP_ACTIVE", "TCP_PASSIVE"}
Port == Streams \X TransportType
Addr == ({"host", "mapped"} \X Streams) \cup ({"relay"} \X Nat)
Cand == [type : {"HOST", "SERVER_REFLEXIVE", "RELAYED"}, stream : Streams,
         transport : TransportType, base : Port, addr : Addr, turn : Turns,
         foundation : Nat]
Stream == [alive : BOOLEAN, gathering : BOOLEAN, started : BOOLEAN,
           servers : {S \in SUBSET Turns : IsFiniteSet(S)}, cands : SUBSET Cand,
           selected : Cand \cup {None}, kept : Cand \cup {None}]
Item == [uid : Nat, stream : Streams, type : {"SERVER_REFLEXIVE", "RELAYED"}, turn : Turns,
         pending : BOOLEAN, done : BOOLEAN, msg : 0..2, sent : SUBSET (1..2), left : Nat,
         realm : BOOLEAN, asked : BOOLEAN]
Refresh == [stream : Streams, cand : Cand, msg : 0..2, sent : SUBSET (1..2), left : Nat,
            realm : BOOLEAN, asked : BOOLEAN, lifetime : Lifetimes, timer : BOOLEAN,
            delay : Nat, tick : BOOLEAN]
Compats == {setup.compat : setup \in Setups}
Agent == [compat : Compats, stun : BOOLEAN, tcp : BOOLEAN, streams : [Streams -> Stream],
          disc : Seq(Item), unsched : Nat, timer : BOOLEAN, bad : BOOLEAN,
          upnp : {"enabled", "disabled", "created"}, upnpTimer : BOOLEAN,
          mapping : SUBSET Port, ports : SUBSET Port, refreshes : Seq(Refresh),
          allocs : SUBSET Addr, foundations : Nat, uids : Nat]

-----------------------------------------------------------------------------
\* The inductive invariant, as predicates on the agent's record

\* Candidates know their stream, only relays have a server, and foundations
\* that were given are below the next one.
CandsKnown(g) ==
    \A s \in Streams : \A c \in g.streams[s].cands :
        /\ c.stream = s /\ c.foundation < g.foundations
        /\ c.type # "RELAYED" => c.turn = None

\* FoundationsMatch, of any agent.
Alike(g, c, d) ==
    /\ c.type = d.type /\ c.transport = d.transport /\ c.stream = d.stream
    /\ c.turn = d.turn
    /\ ~(g.compat = "GOOGLE" /\ c.type = "RELAYED")
Matched(g) ==
    \A c, d \in Cands(g) : c # d => (c.foundation = d.foundation <=> Alike(g, c, d))

\* Items of living streams, known by their uid; one that is not done has no
\* refresh yet.
ItemOk(it) ==
    /\ it.sent \subseteq {it.msg} /\ (~it.pending => it.sent = {})
    /\ it.done => it.msg = 0 /\ it.pending
ItemsOk(g) ==
    \A i \in DOMAIN g.disc :
        /\ ItemOk(g.disc[i])
        /\ g.disc[i].uid < g.uids
        /\ g.streams[g.disc[i].stream].alive
        /\ ~g.disc[i].done => \A k \in DOMAIN g.refreshes :
                                 g.refreshes[k].cand.addr # RelayAddr(g.disc[i].uid)
        /\ \A j \in DOMAIN g.disc : j # i => g.disc[j].uid # g.disc[i].uid

\* Refreshes of relayed candidates that the stream still has, each for an
\* allocation of its own.
RelayOf(g, c) ==
    /\ c.type = "RELAYED"
    /\ \E u \in Nat : u < g.uids /\ c.addr = RelayAddr(u)
RefreshesOk(g) ==
    \A k \in DOMAIN g.refreshes :
        LET r == g.refreshes[k]
            st == g.streams[r.stream]
        IN  /\ r.sent \subseteq {r.msg} /\ (r.timer => r.sent = {})
            /\ RelayOf(g, r.cand)
            /\ st.alive /\ r.cand \in st.cands \cup {st.kept}
            /\ \A j \in DOMAIN g.refreshes : j # k => g.refreshes[j].cand.addr # r.cand.addr
AllocsOk(g) == g.allocs = {r.cand.addr : r \in RefreshesOf(g)}

Timed(r) == \/ r.timer /\ r.delay < r.lifetime * 1000
            \/ r.tick /\ r.msg # 0
AllTimed(g) == \A k \in DOMAIN g.refreshes : Timed(g.refreshes[k])

\* Items and refreshes belong to streams that have gathered.
Started(g) ==
    /\ \A i \in DOMAIN g.disc : g.streams[g.disc[i].stream].started
    /\ \A k \in DOMAIN g.refreshes : g.streams[g.refreshes[k].stream].started

\* ItemsScheduled, of any agent.
Scheduled(g) ==
    /\ g.timer <=> g.disc # <<>>
    /\ g.unsched > 0 => g.disc # <<>>
    /\ ~g.bad

CandsOk(g) == CandsKnown(g) /\ Matched(g)
Base(g) == g \in Agent /\ CandsOk(g) /\ ItemsOk(g) /\ RefreshesOk(g) /\ AllocsOk(g)
Good(g) == Base(g) /\ AllTimed(g) /\ Started(g) /\ Scheduled(g)
IInv == Good(agent)

-----------------------------------------------------------------------------
\* The fields of an agent, and agents that differ in one of them.
LEMMA AgentFields ==
  ASSUME NEW g \in Agent
  PROVE  /\ g.streams \in [Streams -> Stream]
         /\ g.disc \in Seq(Item) /\ \A i \in DOMAIN g.disc : g.disc[i] \in Item
         /\ g.refreshes \in Seq(Refresh)
         /\ \A k \in DOMAIN g.refreshes : g.refreshes[k] \in Refresh
         /\ g.unsched \in Nat /\ g.foundations \in Nat /\ g.uids \in Nat
         /\ g.timer \in BOOLEAN /\ g.upnpTimer \in BOOLEAN /\ g.bad \in BOOLEAN
         /\ g.stun \in BOOLEAN /\ g.tcp \in BOOLEAN
         /\ g.mapping \in SUBSET Port /\ g.ports \in SUBSET Port /\ g.allocs \in SUBSET Addr
<1>1. g.disc \in Seq(Item) /\ g.refreshes \in Seq(Refresh)
  BY DEF Agent
<1>2. \A i \in DOMAIN g.disc : g.disc[i] \in Item
  BY <1>1
<1>3. \A k \in DOMAIN g.refreshes : g.refreshes[k] \in Refresh
  BY <1>1
<1> QED
  BY <1>1, <1>2, <1>3 DEF Agent

LEMMA AgentUpdates ==
  ASSUME NEW g \in Agent
  PROVE  /\ \A x \in [Streams -> Stream] : [g EXCEPT !.streams = x] \in Agent
         /\ \A x \in Seq(Item) : [g EXCEPT !.disc = x] \in Agent
         /\ \A x \in Seq(Refresh) : [g EXCEPT !.refreshes = x] \in Agent
         /\ \A x \in SUBSET Addr : [g EXCEPT !.allocs = x] \in Agent
         /\ \A x \in Nat : [g EXCEPT !.unsched = x] \in Agent
         /\ \A x \in Nat : [g EXCEPT !.foundations = x] \in Agent
         /\ \A x \in Nat : [g EXCEPT !.uids = x] \in Agent
         /\ \A x \in BOOLEAN : [g EXCEPT !.timer = x] \in Agent
         /\ \A x \in BOOLEAN : [g EXCEPT !.upnpTimer = x] \in Agent
         /\ \A x \in BOOLEAN : [g EXCEPT !.bad = x] \in Agent
         /\ \A x \in SUBSET Port : [g EXCEPT !.mapping = x] \in Agent
         /\ \A x \in SUBSET Port : [g EXCEPT !.ports = x] \in Agent
         /\ [g EXCEPT !.upnp = "created"] \in Agent
<1>1. ASSUME NEW x \in [Streams -> Stream] PROVE [g EXCEPT !.streams = x] \in Agent
  BY DEF Agent
<1>2. ASSUME NEW x \in Seq(Item) PROVE [g EXCEPT !.disc = x] \in Agent
  BY DEF Agent
<1>3. ASSUME NEW x \in Seq(Refresh) PROVE [g EXCEPT !.refreshes = x] \in Agent
  BY DEF Agent
<1>4. ASSUME NEW x \in SUBSET Addr PROVE [g EXCEPT !.allocs = x] \in Agent
  BY DEF Agent
<1>5. ASSUME NEW x \in Nat
      PROVE  /\ [g EXCEPT !.unsched = x] \in Agent
             /\ [g EXCEPT !.foundations = x] \in Agent
             /\ [g EXCEPT !.uids = x] \in Agent
  BY DEF Agent
<1>6. ASSUME NEW x \in BOOLEAN
      PROVE  /\ [g EXCEPT !.timer = x] \in Agent
             /\ [g EXCEPT !.upnpTimer = x] \in Agent
             /\ [g EXCEPT !.bad = x] \in Agent
  BY DEF Agent
<1>7. ASSUME NEW x \in SUBSET Port
      PROVE  /\ [g EXCEPT !.mapping = x] \in Agent
             /\ [g EXCEPT !.ports = x] \in Agent
  BY DEF Agent
<1>8. [g EXCEPT !.upnp = "created"] \in Agent
  BY DEF Agent
<1> QED
  BY <1>1, <1>2, <1>3, <1>4, <1>5, <1>6, <1>7, <1>8

-----------------------------------------------------------------------------
\* h is g with more candidates
Grown(g, h) ==
    /\ h \in Agent /\ CandsOk(h)
    /\ h.compat = g.compat /\ h.stun = g.stun /\ h.tcp = g.tcp /\ h.disc = g.disc
    /\ h.unsched = g.unsched /\ h.timer = g.timer /\ h.bad = g.bad /\ h.upnp = g.upnp
    /\ h.upnpTimer = g.upnpTimer /\ h.mapping = g.mapping /\ h.ports = g.ports
    /\ h.refreshes = g.refreshes /\ h.allocs = g.allocs /\ h.uids = g.uids
    /\ \A s \in Streams :
          /\ h.streams[s].alive = g.streams[s].alive
          /\ h.streams[s].gathering = g.streams[s].gathering
          /\ h.streams[s].started = g.streams[s].started
          /\ h.streams[s].servers = g.streams[s].servers
          /\ h.streams[s].selected = g.streams[s].selected
          /\ h.streams[s].kept = g.streams[s].kept
          /\ g.streams[s].cands \subseteq h.streams[s].cands

\* More candidates disturb nothing else.
LEMMA GrownKeeps ==
  ASSUME NEW g, NEW h, Base(g), Grown(g, h)
  PROVE  /\ Base(h)
         /\ AllTimed(g) => AllTimed(h)
         /\ Started(g) => Started(h)
         /\ Scheduled(g) => Scheduled(h)
<1>1. g \in Agent /\ h \in Agent
  BY DEF Base, Grown
<1>2. \A i \in DOMAIN g.disc : g.disc[i].stream \in Streams
  BY <1>1, AgentFields DEF Item
<1>3. \A k \in DOMAIN g.refreshes : g.refreshes[k].stream \in Streams
  BY <1>1, AgentFields DEF Refresh
<1>4. ItemsOk(h)
  BY <1>2 DEF Base, Grown, ItemsOk
<1>5. RefreshesOk(h)
  BY <1>3 DEF Base, Grown, RefreshesOk, RelayOf
<1>6. AllocsOk(h)
  BY DEF Base, Grown, AllocsOk, RefreshesOf
<1>7. AllTimed(g) => AllTimed(h)
  BY DEF Grown, AllTimed
<1>8. Started(g) => Started(h)
  BY <1>2, <1>3 DEF Grown, Started
<1>9. Scheduled(g) => Scheduled(h)
  BY DEF Grown, Scheduled
<1> QED
  BY <1>4, <1>5, <1>6, <1>7, <1>8, <1>9 DEF Base, Grown

\* Candidates may be added one after the other.
LEMMA GrownTransitive ==
  ASSUME NEW g, NEW h, NEW k, Grown(g, h), Grown(h, k)
  PROVE  Grown(g, k)
BY DEF Grown

LEMMA GrownReflexive ==
  ASSUME NEW g \in Agent, CandsOk(g)
  PROVE  Grown(g, g)
BY DEF Grown

\* A candidate that is to be added.
NewCand(c) == c \in Cand /\ c.foundation = 0 /\ (c.type # "RELAYED" => c.turn = None)

\* The foundation that a new candidate gets is that of the candidates it is
\* alike to, or one that no candidate has.
LEMMA FoundationAssigned ==
  ASSUME NEW g \in Agent, CandsOk(g), NEW c, NewCand(c)
  PROVE  LET r == priv_assign_foundation(g, c)
         IN  /\ r.c \in Cand /\ r.c = [c EXCEPT !.foundation = r.c.foundation]
             /\ r.g \in Agent
             /\ r.g = [g EXCEPT !.foundations = r.g.foundations]
             /\ g.foundations <= r.g.foundations
             /\ r.c.foundation < r.g.foundations
             /\ \A d \in Cands(g) : r.c.foundation = d.foundation <=> Alike(g, r.c, d)
<1> DEFINE r == priv_assign_foundation(g, c)
           n == CHOOSE m \in Kin(g, c) : TRUE
<1>1. \A d \in Cands(g) : /\ d \in Cand /\ d.foundation < g.foundations
                          /\ d.type # "RELAYED" => d.turn = None
  BY DEF Cands, CandsOk, CandsKnown, Agent, Stream
<1>2. \A d \in Cands(g) : d \in Kin(g, c) <=> Alike(g, c, d)
  BY <1>1 DEF Kin, Alike, NewCand
<1>3. Kin(g, c) \subseteq Cands(g)
  BY DEF Kin
<1>4. g.foundations \in Nat
  BY DEF Agent
<1>5. CASE Kin(g, c) # {}
  <2>1. n \in Kin(g, c) /\ n \in Cands(g)
    BY <1>3, <1>5
  <2>2. r = [g |-> g, c |-> [c EXCEPT !.foundation = n.foundation]]
    BY <1>5 DEF priv_assign_foundation
  <2> HIDE DEF n
  <2>3. n.foundation \in Nat /\ n.foundation < g.foundations
    BY <1>1, <2>1 DEF Cand
  <2>4. Alike(g, c, n)
    BY <1>2, <2>1
  <2>5. ASSUME NEW d \in Cands(g) PROVE n.foundation = d.foundation <=> Alike(g, c, d)
    <3>1. CASE d = n
      BY <2>4, <3>1
    <3>2. CASE d # n
      <4>1. n.foundation = d.foundation <=> Alike(g, n, d)
        BY <2>1, <3>2 DEF CandsOk, Matched
      <4>2. Alike(g, n, d) <=> Alike(g, c, d)
        BY <2>4 DEF Alike
      <4> QED
        BY <4>1, <4>2
    <3> QED
      BY <3>1, <3>2
  <2>6. r.g = g /\ r.c = [c EXCEPT !.foundation = n.foundation]
    BY <2>2
  <2> HIDE DEF r
  <2>7. /\ r.c \in Cand /\ r.c = [c EXCEPT !.foundation = r.c.foundation]
        /\ r.c.foundation = n.foundation
    BY <2>3, <2>6 DEF NewCand, Cand
  <2>8. \A d \in Cands(g) : Alike(g, r.c, d) <=> Alike(g, c, d)
    BY <2>6 DEF Alike, NewCand, Cand
  <2>9. g = [g EXCEPT !.foundations = g.foundations]
    BY DEF Agent
  <2> QED
    BY <1>4, <2>3, <2>5, <2>6, <2>7, <2>8, <2>9 DEF r
<1>6. CASE Kin(g, c) = {}
  <2>1. r = [g |-> [g EXCEPT !.foundations = @ + 1], c |-> [c EXCEPT !.foundation = g.foundations]]
    BY <1>6 DEF priv_assign_foundation
  <2>2. r.g = [g EXCEPT !.foundations = g.foundations + 1]
        /\ r.c = [c EXCEPT !.foundation = g.foundations]
    BY <2>1
  <2> HIDE DEF r
  <2>3. r.g \in Agent /\ r.g.foundations = g.foundations + 1
    <3> DEFINE x == g.foundations + 1
    <3>1. x \in Nat
      BY <1>4
    <3>2. r.g = [g EXCEPT !.foundations = x]
      BY <2>2
    <3> HIDE DEF x
    <3>3. r.g \in Agent
      BY <3>1, <3>2, AgentUpdates
    <3>4. r.g.foundations = x
      BY <3>2 DEF Agent
    <3> QED
      BY <3>3, <3>4 DEF x
  <2>4. r.c \in Cand /\ r.c.foundation = g.foundations
    BY <1>4, <2>2 DEF NewCand, Cand
  <2>5. ASSUME NEW d \in Cands(g) PROVE r.c.foundation # d.foundation /\ ~Alike(g, r.c, d)
    <3>1. d.foundation \in Nat /\ d.foundation < g.foundations
      BY <1>1 DEF Cand
    <3>2. ~Alike(g, c, d)
      BY <1>2, <1>6
    <3>3. Alike(g, r.c, d) <=> Alike(g, c, d)
      BY <2>2 DEF Alike, NewCand, Cand
    <3> QED
      BY <1>4, <2>4, <3>1, <3>2, <3>3
  <2> QED
    BY <1>4, <2>2, <2>3, <2>4, <2>5 DEF r
<1> QED
  BY <1>5, <1>6

\* What AddCandidate does to the agent and to the candidate.
LEMMA CandidateAdded ==
  ASSUME NEW g \in Agent, CandsOk(g), NEW type \in {"HOST", "SERVER_REFLEXIVE", "RELAYED"},
         NEW s \in Streams, NEW transport \in TransportType, NEW addr \in Addr,
         NEW turn \in Turns, type # "RELAYED" => turn = None
  PROVE  LET a == AddCandidate(g, type, s, transport, addr, turn)
         IN  /\ Grown(g, a.g)
             /\ a.c \in Cand /\ a.c.type = type /\ a.c.stream = s /\ a.c.addr = addr
             /\ a.ok \in BOOLEAN
             /\ a.ok => a.c \in a.g.streams[s].cands
<1> DEFINE c == [type |-> type, stream |-> s, transport |-> transport,
                 base |-> <<s, transport>>, addr |-> addr, turn |-> turn, foundation |-> 0]
           r == priv_assign_foundation(g, c)
           ok == ~Redundant(g, r.c)
           h == [r.g EXCEPT !.streams[s].cands = @ \cup {r.c}]
           a == AddCandidate(g, type, s, transport, addr, turn)
<1>1. NewCand(c)
  BY DEF NewCand, Cand, Port
<1>2. a = [ok |-> ok, c |-> r.c, g |-> IF ok THEN h ELSE r.g]
  BY DEF AddCandidate
<1>3. /\ r.c \in Cand /\ r.c = [c EXCEPT !.foundation = r.c.foundation]
      /\ r.g \in Agent
      /\ r.g = [g EXCEPT !.foundations = r.g.foundations]
      /\ g.foundations <= r.g.foundations
      /\ r.c.foundation < r.g.foundations
      /\ \A d \in Cands(g) : r.c.foundation = d.foundation <=> Alike(g, r.c, d)
  <2> HIDE DEF c
  <2> QED
    BY <1>1, FoundationAssigned
<1>4. /\ r.c.type = type /\ r.c.stream = s /\ r.c.addr = addr /\ r.c.turn = turn
  BY <1>3
<1> DEFINE n == r.c
           f == r.g
<1> HIDE DEF c, r
<1>5. /\ f.streams = g.streams /\ f.compat = g.compat /\ Cands(f) = Cands(g)
      /\ f.stun = g.stun /\ f.tcp = g.tcp /\ f.disc = g.disc
      /\ f.unsched = g.unsched /\ f.timer = g.timer /\ f.bad = g.bad /\ f.upnp = g.upnp
      /\ f.upnpTimer = g.upnpTimer /\ f.mapping = g.mapping /\ f.ports = g.ports
      /\ f.refreshes = g.refreshes /\ f.allocs = g.allocs /\ f.uids = g.uids
  BY <1>3 DEF Agent, Cands
<1>6. g.foundations \in Nat /\ f.foundations \in Nat /\ n.foundation \in Nat
      /\ \A t \in Streams : \A d \in g.streams[t].cands : d.foundation \in Nat
  BY <1>3, AgentFields DEF Cand, Stream
<1>7. CandsKnown(f)
  BY <1>3, <1>5, <1>6 DEF CandsOk, CandsKnown
<1>8. Matched(f)
  BY <1>5 DEF CandsOk, Matched, Alike
<1>9. Grown(g, f)
  BY <1>3, <1>5, <1>7, <1>8 DEF Grown, CandsOk
<1>10. Grown(g, h) /\ n \in h.streams[s].cands
  <2> DEFINE st == [f.streams[s] EXCEPT !.cands = @ \cup {n}]
             x == [f.streams EXCEPT ![s] = st]
  <2>1. f.streams \in [Streams -> Stream] /\ f.streams[s] \in Stream
    BY <1>3, AgentFields
  <2>2. st \in Stream /\ x \in [Streams -> Stream]
    BY <1>3, <2>1 DEF Stream
  <2>3. h = [f EXCEPT !.streams = x]
    BY <1>3, <2>1 DEF Agent
  <2> HIDE DEF h, x
  <2>4. h \in Agent
    BY <1>3, <2>2, <2>3, AgentUpdates
  <2>5. /\ h.streams = x /\ h.compat = f.compat
        /\ h.stun = f.stun /\ h.tcp = f.tcp /\ h.disc = f.disc
        /\ h.unsched = f.unsched /\ h.timer = f.timer /\ h.bad = f.bad /\ h.upnp = f.upnp
        /\ h.upnpTimer = f.upnpTimer /\ h.mapping = f.mapping /\ h.ports = f.ports
        /\ h.refreshes = f.refreshes /\ h.allocs = f.allocs /\ h.uids = f.uids
        /\ h.foundations = f.foundations
    BY <1>3, <2>3 DEF Agent
  <2>6. \A t \in Streams : t # s => x[t] = f.streams[t]
    BY <2>1 DEF x
  <2>7. /\ x[s].cands = f.streams[s].cands \cup {n}
        /\ x[s].alive = f.streams[s].alive
        /\ x[s].gathering = f.streams[s].gathering
        /\ x[s].started = f.streams[s].started
        /\ x[s].servers = f.streams[s].servers
        /\ x[s].selected = f.streams[s].selected
        /\ x[s].kept = f.streams[s].kept
    BY <2>1 DEF x, Stream
  <2> HIDE DEF f, n
  <2>8. CandsKnown(h)
    <3> SUFFICES ASSUME NEW t \in Streams, NEW d \in h.streams[t].cands
                 PROVE  /\ d.stream = t /\ d.foundation < h.foundations
                        /\ d.type # "RELAYED" => d.turn = None
      BY DEF CandsKnown
    <3>1. CASE d \in f.streams[t].cands
      BY <1>7, <2>5, <3>1 DEF CandsKnown
    <3>2. CASE t = s /\ d = n
      BY <1>3, <1>4, <2>5, <3>2 DEF n, f
    <3> QED
      BY <2>5, <2>6, <2>7, <3>1, <3>2
  <2>9. Cands(h) \subseteq Cands(f) \cup {n}
    BY <2>5, <2>6, <2>7 DEF Cands
  <2>10. Matched(h)
    <3> SUFFICES ASSUME NEW d \in Cands(h), NEW e \in Cands(h), d # e
                 PROVE  d.foundation = e.foundation <=> Alike(h, d, e)
      BY DEF Matched
    <3>1. \A u, v : Alike(h, u, v) <=> Alike(g, u, v)
      BY <1>5, <2>5 DEF Alike
    <3>2. \A u, v : Alike(g, u, v) <=> Alike(g, v, u)
      BY DEF Alike
    <3>3. CASE d \in Cands(g) /\ e \in Cands(g)
      BY <3>1, <3>3 DEF CandsOk, Matched
    <3>4. CASE d = n /\ e \in Cands(g)
      BY <1>3, <3>1, <3>4 DEF n
    <3>5. CASE e = n /\ d \in Cands(g)
      <4>1. e.foundation = d.foundation <=> Alike(g, e, d)
        BY <1>3, <3>5 DEF n
      <4> QED
        BY <3>1, <3>2, <4>1
    <3> QED
      BY <1>5, <2>9, <3>3, <3>4, <3>5
  <2>11. Grown(f, h)
    BY <2>4, <2>5, <2>6, <2>7, <2>8, <2>10 DEF Grown, CandsOk
  <2>12. n \in h.streams[s].cands
    BY <2>5, <2>7
  <2> QED
    BY <1>9, <2>11, <2>12, GrownTransitive
<1>11. a.ok = ok /\ a.c = n /\ a.g = IF ok THEN h ELSE f
  BY <1>2
<1>12. ok \in BOOLEAN
  OBVIOUS
<1> HIDE DEF a, ok, h, n, f
<1> QED
  BY <1>3, <1>4, <1>9, <1>10, <1>11, <1>12 DEF n, f, a

LEMMA HostAdded ==
  ASSUME NEW g \in Agent, CandsOk(g), NEW s \in Streams, NEW transport \in TransportType
  PROVE  Grown(g, discovery_add_local_host_candidate(g, s, transport))
<1>1. HostAddr(s) \in Addr /\ None \in Turns
  BY DEF HostAddr, Addr, Turns
<1> QED
  BY <1>1, CandidateAdded DEF discovery_add_local_host_candidate

LEMMA ReflexiveAdded ==
  ASSUME NEW g \in Agent, CandsOk(g), NEW s \in Streams, NEW transport \in TransportType,
         NEW addr \in Addr
  PROVE  Grown(g, discovery_add_server_reflexive_candidate(g, s, transport, addr))
<1>1. None \in Turns
  BY DEF Turns
<1> QED
  BY <1>1, CandidateAdded DEF discovery_add_server_reflexive_candidate

LEMMA TcpReflexiveAdded ==
  ASSUME NEW g \in Agent, CandsOk(g), NEW s \in Streams, NEW addr \in Addr
  PROVE  Grown(g, discovery_discover_tcp_server_reflexive_candidates(g, s, addr))
<1> DEFINE add(h, transport) ==
              IF \E c \in g.streams[s].cands : c.type = "HOST" /\ c.transport = transport
              THEN discovery_add_server_reflexive_candidate(h, s, transport, addr)
              ELSE h
           one == add(g, "TCP_ACTIVE")
           two == add(one, "TCP_PASSIVE")
<1>1. ASSUME NEW h \in Agent, CandsOk(h), NEW transport \in TransportType
      PROVE  Grown(h, add(h, transport))
  <2>1. Grown(h, discovery_add_server_reflexive_candidate(h, s, transport, addr))
    BY <1>1, ReflexiveAdded
  <2>2. Grown(h, h)
    BY <1>1, GrownReflexive
  <2> QED
    BY <2>1, <2>2
<1>2. discovery_discover_tcp_server_reflexive_candidates(g, s, addr) = two
  BY DEF discovery_discover_tcp_server_reflexive_candidates
<1>3. "TCP_ACTIVE" \in TransportType /\ "TCP_PASSIVE" \in TransportType
  BY DEF TransportType
<1> HIDE DEF add
<1>4. Grown(g, one)
  BY <1>1, <1>3
<1>5. Grown(one, two)
  <2>1. one \in Agent /\ CandsOk(one)
    BY <1>4 DEF Grown
  <2> HIDE DEF one
  <2> QED
    BY <1>1, <1>3, <2>1
<1> HIDE DEF one, two
<1> QED
  BY <1>2, <1>4, <1>5, GrownTransitive

-----------------------------------------------------------------------------
\* What an operator leaves alone when items, refreshes and the candidates they
\* need stay: h has those of g.
Carries(g, h) ==
    /\ h \in Agent /\ CandsOk(h)
    /\ h.disc = g.disc /\ h.refreshes = g.refreshes
    /\ h.allocs = g.allocs /\ h.uids = g.uids
    /\ \A s \in Streams :
          /\ h.streams[s].alive = g.streams[s].alive
          /\ g.streams[s].started => h.streams[s].started
          /\ h.streams[s].kept = g.streams[s].kept
          /\ g.streams[s].cands \subseteq h.streams[s].cands

LEMMA CarriesKeeps ==
  ASSUME NEW g, NEW h, Base(g), Carries(g, h)
  PROVE  /\ Base(h)
         /\ AllTimed(g) => AllTimed(h)
         /\ Started(g) => Started(h)
<1>1. g \in Agent /\ h \in Agent
  BY DEF Base, Carries
<1>2. \A i \in DOMAIN g.disc : g.disc[i].stream \in Streams
  BY <1>1, AgentFields DEF Item
<1>3. \A k \in DOMAIN g.refreshes : g.refreshes[k].stream \in Streams
  BY <1>1, AgentFields DEF Refresh
<1>4. ItemsOk(h)
  BY <1>2 DEF Base, Carries, ItemsOk
<1>5. RefreshesOk(h)
  BY <1>3 DEF Base, Carries, RefreshesOk, RelayOf
<1>6. AllocsOk(h)
  BY DEF Base, Carries, AllocsOk, RefreshesOf
<1>7. AllTimed(g) => AllTimed(h)
  BY DEF Carries, AllTimed
<1>8. Started(g) => Started(h)
  BY <1>2, <1>3 DEF Carries, Started
<1> QED
  BY <1>4, <1>5, <1>6, <1>7, <1>8 DEF Base, Carries

\* Candidates that are left when some go are in order.
LEMMA FewerCands ==
  ASSUME NEW g \in Agent, NEW h \in Agent, CandsOk(g), h.compat = g.compat,
         h.foundations = g.foundations,
         \A s \in Streams : /\ h.streams[s].cands \subseteq g.streams[s].cands
                            /\ h.streams[s].alive => g.streams[s].alive
  PROVE  CandsOk(h)
<1>1. CandsKnown(h)
  BY DEF CandsOk, CandsKnown
<1>2. Cands(h) \subseteq Cands(g)
  BY DEF Cands
<1>3. \A c, d : Alike(h, c, d) <=> Alike(g, c, d)
  BY DEF Alike
<1>4. Matched(h)
  BY <1>2, <1>3 DEF CandsOk, Matched
<1> QED
  BY <1>1, <1>4 DEF CandsOk

\* The signal changes nothing but the streams' gathering.
Signalled(g, h) ==
    /\ h \in Agent
    /\ h = [g EXCEPT !.streams = h.streams]
    /\ \A s \in Streams :
          /\ h.streams[s] = [g.streams[s] EXCEPT !.gathering = h.streams[s].gathering]
          /\ h.streams[s].gathering => g.streams[s].gathering

LEMMA DoneSignalled ==
  ASSUME NEW g \in Agent
  PROVE  Signalled(g, agent_signal_gathering_done(g))
<1> DEFINE x == [s \in Streams |->
                   IF g.streams[s].alive THEN [g.streams[s] EXCEPT !.gathering = FALSE]
                   ELSE g.streams[s]]
           h == agent_signal_gathering_done(g)
<1>1. h = [g EXCEPT !.streams = x]
  BY DEF agent_signal_gathering_done
<1>2. g.streams \in [Streams -> Stream] /\ \A s \in Streams : g.streams[s] \in Stream
  BY AgentFields
<1>3. x \in [Streams -> Stream]
  BY <1>2 DEF Stream
<1>4. \A s \in Streams :
          /\ x[s] = [g.streams[s] EXCEPT !.gathering = x[s].gathering]
          /\ x[s].gathering => g.streams[s].gathering
  BY <1>2 DEF Stream
<1> HIDE DEF x, h
<1>5. h \in Agent
  BY <1>1, <1>3, AgentUpdates
<1>6. h.streams = x
  BY <1>1 DEF Agent
<1> QED
  BY <1>1, <1>4, <1>5, <1>6 DEF Signalled, h

\* Nothing is lost by the signal, and it is given only when both timers are off.
LEMMA GatheringDone ==
  ASSUME NEW g, Base(g)
  PROVE  LET h == agent_gathering_done(g)
         IN  /\ Signalled(g, h) /\ Base(h)
             /\ h.disc = g.disc /\ h.timer = g.timer /\ h.upnpTimer = g.upnpTimer
             /\ AllTimed(g) => AllTimed(h)
             /\ Started(g) => Started(h)
             /\ Scheduled(g) => Scheduled(h)
             /\ \A s \in Streams :
                   g.streams[s].gathering /\ ~h.streams[s].gathering => ~h.timer /\ ~h.upnpTimer
<1> DEFINE h == agent_gathering_done(g)
<1>1. g \in Agent
  BY DEF Base
<1>2. g = [g EXCEPT !.streams = g.streams]
      /\ \A s \in Streams : g.streams[s] = [g.streams[s] EXCEPT !.gathering = g.streams[s].gathering]
  BY <1>1, AgentFields DEF Agent, Stream
<1>3. Signalled(g, h)
  <2>1. Signalled(g, g)
    BY <1>1, <1>2 DEF Signalled
  <2> QED
    BY <1>1, <2>1, DoneSignalled DEF agent_gathering_done
<1>4. ASSUME NEW s \in Streams, g.streams[s].gathering, ~h.streams[s].gathering
      PROVE  ~g.timer /\ ~g.upnpTimer
  BY <1>4 DEF agent_gathering_done
<1> HIDE DEF h
<1>5. h \in Agent
  BY <1>3 DEF Signalled
<1>6. /\ h.disc = g.disc /\ h.refreshes = g.refreshes /\ h.allocs = g.allocs
      /\ h.uids = g.uids /\ h.timer = g.timer /\ h.upnpTimer = g.upnpTimer
      /\ h.unsched = g.unsched /\ h.bad = g.bad /\ h.compat = g.compat
      /\ h.foundations = g.foundations
  BY <1>1, <1>3 DEF Signalled, Agent
<1>7. \A s \in Streams : /\ h.streams[s].alive = g.streams[s].alive
                         /\ h.streams[s].started = g.streams[s].started
                         /\ h.streams[s].kept = g.streams[s].kept
                         /\ h.streams[s].cands = g.streams[s].cands
  <2>1. \A s \in Streams : g.streams[s] \in Stream
    BY <1>1, AgentFields
  <2> TAKE s \in Streams
  <2> DEFINE p == h.streams[s]
             q == g.streams[s]
             b == p.gathering
  <2>2. p = [q EXCEPT !.gathering = b] /\ q \in Stream
    BY <1>3, <2>1 DEF Signalled
  <2> HIDE DEF p, q, b
  <2>3. p.alive = q.alive /\ p.started = q.started /\ p.kept = q.kept /\ p.cands = q.cands
    BY <2>2 DEF Stream
  <2> QED
    BY <2>3 DEF p, q
<1>8. CandsOk(h)
  BY <1>1, <1>5, <1>6, <1>7, FewerCands DEF Base
<1>9. Carries(g, h)
  BY <1>5, <1>6, <1>7, <1>8 DEF Carries
<1>10. Scheduled(g) => Scheduled(h)
  BY <1>6 DEF Scheduled
<1> QED
  BY <1>3, <1>4, <1>6, <1>9, <1>10, CarriesKeeps DEF h

-----------------------------------------------------------------------------
\* Discovery items

\* A request gets an id that no earlier one of the item has.
LEMMA FreshIdOk ==
  ASSUME NEW it, it.sent = {}
  PROVE  FreshId(it) \in 1..2 /\ FreshId(it) # it.msg
<1>1. \E i \in 1..2 : i \notin it.sent \cup {it.msg}
  <2>1. 1 \in 1..2 /\ 2 \in 1..2 /\ 1 # 2
    OBVIOUS
  <2> QED
    BY <2>1
<1> QED
  BY <1>1 DEF FreshId

\* What a tick makes of an item.
LEMMA Visited ==
  ASSUME NEW it \in Item, ItemOk(it), NEW e \in BOOLEAN
  PROVE  LET v == Visit(it, e)
         IN  /\ v \in Item /\ ItemOk(v) /\ v.uid = it.uid /\ v.stream = it.stream
             /\ ~v.done => ~it.done
             /\ ~it.pending => ~v.done
<1> DEFINE v == Visit(it, e)
<1>1. CASE ~it.pending
  <2> DEFINE p == [it EXCEPT !.pending = TRUE]
             id == FreshId(p)
  <2>1. p.sent = {} /\ p \in Item /\ ~p.done /\ p.pending /\ p.uid = it.uid
        /\ p.stream = it.stream
    BY <1>1 DEF ItemOk, Item
  <2>2. v = Send(p)
    BY <1>1 DEF Visit
  <2> HIDE DEF p, v
  <2>3. id \in 1..2
    BY <2>1, FreshIdOk
  <2>4. v = [p EXCEPT !.msg = id, !.sent = @ \cup {id}, !.left = MaxRetrans, !.asked = p.realm]
    BY <2>2 DEF Send
  <2> HIDE DEF id
  <2>5. v \in Item
    <3> DEFINE S == p.sent \cup {id}
    <3>1. S \in SUBSET (1..2) /\ id \in 0..2 /\ p.realm \in BOOLEAN
      BY <2>1, <2>3 DEF Item
    <3>2. v = [p EXCEPT !.msg = id, !.sent = S, !.left = MaxRetrans, !.asked = p.realm]
      BY <2>4
    <3> HIDE DEF S
    <3> QED
      BY <2>1, <3>1, <3>2, RetransAssumption DEF Item
  <2>6. v.uid = it.uid /\ v.stream = it.stream /\ ~v.done /\ v.pending
        /\ v.msg = id /\ v.sent = {id}
    BY <2>1, <2>4 DEF Item
  <2> QED
    BY <1>1, <2>5, <2>6 DEF ItemOk, v
<1>2. CASE it.pending /\ ~it.done /\ it.msg = 0
  <2>1. v = [it EXCEPT !.done = TRUE]
    BY <1>2 DEF Visit
  <2> QED
    BY <1>2, <2>1 DEF ItemOk, Item
<1>3. CASE it.pending /\ ~it.done /\ it.msg # 0 /\ e /\ it.left = 0
  <2>1. v = [it EXCEPT !.msg = 0, !.sent = @ \ {it.msg}, !.done = TRUE]
    BY <1>3 DEF Visit, Forget
  <2> HIDE DEF v
  <2>2. v.uid = it.uid /\ v.stream = it.stream /\ v.done /\ v.pending
        /\ v.msg = 0 /\ v.sent = {}
    BY <1>3, <2>1 DEF ItemOk, Item
  <2>3. v \in Item
    <3> DEFINE S == it.sent \ {it.msg}
    <3>1. S \in SUBSET (1..2) /\ 0 \in 0..2
      BY DEF Item
    <3>2. v = [it EXCEPT !.msg = 0, !.sent = S, !.done = TRUE]
      BY <2>1
    <3> HIDE DEF S
    <3> QED
      BY <3>1, <3>2 DEF Item
  <2> QED
    BY <1>3, <2>2, <2>3 DEF ItemOk, v
<1>4. CASE it.pending /\ ~it.done /\ it.msg # 0 /\ e /\ it.left # 0
  <2>1. v = [it EXCEPT !.left = @ - 1]
    BY <1>4 DEF Visit
  <2> HIDE DEF v
  <2>2. it.left \in Nat /\ it.left - 1 \in Nat
    BY <1>4 DEF Item
  <2>3. v \in Item
    BY <2>1, <2>2 DEF Item
  <2>4. v.uid = it.uid /\ v.stream = it.stream /\ v.done = it.done /\ v.pending = it.pending
        /\ v.msg = it.msg /\ v.sent = it.sent
    BY <2>1 DEF Item
  <2> QED
    BY <1>4, <2>3, <2>4 DEF ItemOk, v
<1>5. CASE it.pending /\ (it.done \/ (it.msg # 0 /\ ~e))
  <2>1. v = it
    BY <1>5 DEF Visit
  <2> QED
    BY <1>5, <2>1
<1> QED
  BY <1>1, <1>2, <1>3, <1>4, <1>5 DEF Item

\* New states of the items, whose uids and streams stay.
LEMMA ItemsReplaced ==
  ASSUME NEW g, Base(g), NEW x \in Seq(Item), DOMAIN x = DOMAIN g.disc,
         \A i \in DOMAIN x : /\ ItemOk(x[i]) /\ x[i].uid = g.disc[i].uid
                             /\ x[i].stream = g.disc[i].stream
                             /\ ~x[i].done => ~g.disc[i].done
  PROVE  LET h == [g EXCEPT !.disc = x]
         IN  /\ Base(h)
             /\ AllTimed(g) => AllTimed(h)
             /\ Started(g) => Started(h)
<1> DEFINE h == [g EXCEPT !.disc = x]
<1>1. g \in Agent /\ h \in Agent
  BY AgentUpdates DEF Base
<1>2. /\ h.disc = x /\ h.refreshes = g.refreshes /\ h.allocs = g.allocs
      /\ h.uids = g.uids /\ h.streams = g.streams /\ h.compat = g.compat
      /\ h.foundations = g.foundations
  BY <1>1 DEF Agent
<1> HIDE DEF h
<1>3. CandsOk(h)
  BY <1>1, <1>2, FewerCands DEF Base
<1>4. ItemsOk(h)
  BY <1>2 DEF Base, ItemsOk
<1>5. RefreshesOk(h)
  BY <1>2 DEF Base, RefreshesOk, RelayOf
<1>6. AllocsOk(h)
  BY <1>2 DEF Base, AllocsOk, RefreshesOf
<1>7. AllTimed(g) => AllTimed(h)
  BY <1>2 DEF AllTimed
<1>8. Started(g) => Started(h)
  BY <1>2 DEF Started
<1> QED
  BY <1>1, <1>3, <1>4, <1>5, <1>6, <1>7, <1>8 DEF Base, h

LEMMA ItemReplaced ==
  ASSUME NEW g, Base(g), NEW i \in DOMAIN g.disc, NEW it \in Item, ItemOk(it),
         it.uid = g.disc[i].uid, it.stream = g.disc[i].stream,
         ~it.done => ~g.disc[i].done
  PROVE  LET h == [g EXCEPT !.disc[i] = it]
         IN  /\ Base(h)
             /\ AllTimed(g) => AllTimed(h)
             /\ Started(g) => Started(h)
             /\ Scheduled(g) => Scheduled(h)
             /\ h.disc = [g.disc EXCEPT ![i] = it]
             /\ h.streams = g.streams /\ h.refreshes = g.refreshes /\ h.uids = g.uids
             /\ h.timer = g.timer /\ h.upnpTimer = g.upnpTimer
<1> DEFINE x == [g.disc EXCEPT ![i] = it]
           h == [g EXCEPT !.disc[i] = it]
<1>1. g \in Agent /\ g.disc \in Seq(Item)
  BY AgentFields DEF Base
<1>2. x \in Seq(Item) /\ DOMAIN x = DOMAIN g.disc /\ Len(x) = Len(g.disc)
  BY <1>1
<1>3. h = [g EXCEPT !.disc = x]
  BY <1>1 DEF Agent
<1>4. \A j \in DOMAIN x : /\ ItemOk(x[j]) /\ x[j].uid = g.disc[j].uid
                          /\ x[j].stream = g.disc[j].stream
                          /\ ~x[j].done => ~g.disc[j].done
  BY <1>1 DEF Base, ItemsOk
<1> HIDE DEF x, h
<1>5. Base(h) /\ (AllTimed(g) => AllTimed(h)) /\ (Started(g) => Started(h))
  BY <1>2, <1>3, <1>4, ItemsReplaced
<1>6. /\ h.timer = g.timer /\ h.unsched = g.unsched /\ h.bad = g.bad /\ h.disc = x
      /\ h.streams = g.streams /\ h.refreshes = g.refreshes /\ h.uids = g.uids
      /\ h.upnpTimer = g.upnpTimer
  BY <1>1, <1>3 DEF Agent
<1>7. Scheduled(g) => Scheduled(h)
  BY <1>1, <1>2, <1>6 DEF Scheduled
<1> QED
  BY <1>5, <1>6, <1>7 DEF h, x

\* All items are dropped.
LEMMA DiscoveryFreed ==
  ASSUME NEW g, Base(g)
  PROVE  LET h == discovery_free(g)
         IN  /\ Base(h)
             /\ AllTimed(g) => AllTimed(h)
             /\ Started(g) => Started(h)
             /\ h.disc = <<>> /\ h.unsched = 0 /\ ~h.timer /\ h.bad = g.bad
             /\ h.streams = g.streams /\ h.upnpTimer = g.upnpTimer /\ h.refreshes = g.refreshes
             /\ h.ports = g.ports /\ h.mapping = g.mapping
<1> DEFINE h == discovery_free(g)
<1>1. g \in Agent
  BY DEF Base
<1>2. <<>> \in Seq(Item) /\ DOMAIN <<>> = {}
  OBVIOUS
<1>3. h \in Agent
  BY <1>1, <1>2 DEF discovery_free, Agent
<1>4. /\ h.disc = <<>> /\ h.unsched = 0 /\ ~h.timer /\ h.bad = g.bad
      /\ h.streams = g.streams /\ h.upnpTimer = g.upnpTimer /\ h.refreshes = g.refreshes
      /\ h.allocs = g.allocs /\ h.uids = g.uids /\ h.compat = g.compat
      /\ h.foundations = g.foundations /\ h.ports = g.ports /\ h.mapping = g.mapping
  BY <1>1 DEF discovery_free, Agent
<1> HIDE DEF h
<1>5. CandsOk(h)
  BY <1>1, <1>3, <1>4, FewerCands DEF Base
<1>6. ItemsOk(h)
  BY <1>2, <1>4 DEF ItemsOk
<1>7. RefreshesOk(h)
  BY <1>4 DEF Base, RefreshesOk, RelayOf
<1>8. AllocsOk(h)
  BY <1>4 DEF Base, AllocsOk, RefreshesOf
<1>9. AllTimed(g) => AllTimed(h)
  BY <1>4 DEF AllTimed
<1>10. Started(g) => Started(h)
  BY <1>2, <1>4 DEF Started
<1> QED
  BY <1>3, <1>4, <1>5, <1>6, <1>7, <1>8, <1>9, <1>10 DEF Base, h

\* Gathering ends for a stream only when both timers are off.
Quiet(g, h) ==
    \A s \in Streams :
        g.streams[s].gathering /\ h.streams[s].alive /\ ~h.streams[s].gathering
        => ~h.timer /\ ~h.upnpTimer

\* A tick, from the timer or from discovery_schedule.
LEMMA Ticked ==
  ASSUME NEW g, Base(g), NEW expired
  PROVE  LET t == priv_discovery_tick_unlocked(g, expired)
             h == t.g
         IN  /\ t.more \in BOOLEAN
             /\ Base(h) /\ h.bad = g.bad /\ Quiet(g, h)
             /\ AllTimed(g) => AllTimed(h)
             /\ Started(g) => Started(h)
             /\ t.more => h.disc # <<>> /\ h.timer = g.timer /\ h.streams = g.streams
             /\ ~t.more => h.disc = <<>> /\ h.unsched = 0 /\ ~h.timer
             /\ (\E i \in DOMAIN g.disc : ~g.disc[i].pending) => t.more
<1> DEFINE x == [i \in DOMAIN g.disc |-> Visit(g.disc[i], i \in expired)]
           fresh == Cardinality({i \in DOMAIN g.disc : ~g.disc[i].pending})
           u == IF fresh > g.unsched THEN 0 ELSE g.unsched - fresh
           f == [g EXCEPT !.disc = x]
           k == [f EXCEPT !.unsched = u]
           more == \E i \in DOMAIN x : ~x[i].done
           t == priv_discovery_tick_unlocked(g, expired)
<1>1. g \in Agent /\ g.disc \in Seq(Item) /\ g.unsched \in Nat
      /\ \A i \in DOMAIN g.disc : g.disc[i] \in Item /\ ItemOk(g.disc[i])
  BY AgentFields DEF Base, ItemsOk
<1>2. \A i \in DOMAIN g.disc : /\ x[i] \in Item /\ ItemOk(x[i]) /\ x[i].uid = g.disc[i].uid
                               /\ x[i].stream = g.disc[i].stream
                               /\ ~x[i].done => ~g.disc[i].done
                               /\ ~g.disc[i].pending => ~x[i].done
  <2> TAKE i \in DOMAIN g.disc
  <2> DEFINE it == g.disc[i]
             e == i \in expired
  <2>1. x[i] = Visit(it, e)
    OBVIOUS
  <2>2. it \in Item /\ ItemOk(it) /\ e \in BOOLEAN
    BY <1>1
  <2> HIDE DEF x, it, e
  <2>3. /\ x[i] \in Item /\ ItemOk(x[i]) /\ x[i].uid = it.uid /\ x[i].stream = it.stream
        /\ ~x[i].done => ~it.done
        /\ ~it.pending => ~x[i].done
    BY <2>1, <2>2, Visited
  <2> QED
    BY <2>3 DEF it
<1>3. DOMAIN x = DOMAIN g.disc
  OBVIOUS
<1>4. x \in Seq(Item)
  <2>1. PICK n \in Nat : DOMAIN g.disc = 1 .. n
    BY <1>1
  <2>2. x \in [1 .. n -> Item]
    BY <1>2, <2>1
  <2> HIDE DEF x
  <2> QED
    BY <2>2
<1>5. fresh \in Nat
  <2>1. DOMAIN g.disc = 1 .. Len(g.disc) /\ Len(g.disc) \in Nat
    BY <1>1
  <2>2. IsFiniteSet(1 .. Len(g.disc))
    BY <2>1, FS_Interval
  <2>3. IsFiniteSet({i \in DOMAIN g.disc : ~g.disc[i].pending})
    BY <2>1, <2>2, FS_Subset
  <2> QED
    BY <2>3, FS_CardinalityType
<1>6. u \in Nat
  BY <1>1, <1>5
<1>7. /\ t.more = more
      /\ t.g = IF more THEN k ELSE agent_gathering_done(discovery_free(k))
  <2>1. k = [g EXCEPT !.disc = x, !.unsched = IF fresh > @ THEN 0 ELSE @ - fresh]
    BY <1>1 DEF Agent
  <2> QED
    BY <2>1 DEF priv_discovery_tick_unlocked
<1> HIDE DEF x, t, u, fresh
<1>8. Base(f) /\ (AllTimed(g) => AllTimed(f)) /\ (Started(g) => Started(f))
  BY <1>2, <1>3, <1>4, ItemsReplaced
<1>9. /\ f.disc = x /\ f.streams = g.streams /\ f.timer = g.timer /\ f.bad = g.bad
      /\ f.upnpTimer = g.upnpTimer
  BY <1>1 DEF Agent
<1> HIDE DEF f
<1>10. /\ k.disc = f.disc /\ k.streams = f.streams /\ k.timer = f.timer /\ k.bad = f.bad
       /\ k.upnpTimer = f.upnpTimer /\ k.refreshes = f.refreshes /\ k.allocs = f.allocs
       /\ k.uids = f.uids /\ k.compat = f.compat /\ k.foundations = f.foundations
  BY <1>8 DEF Base, Agent
<1>11. f \in Agent /\ k \in Agent
  BY <1>6, <1>8, AgentUpdates DEF Base
<1> HIDE DEF k
<1>12. Base(k) /\ (AllTimed(g) => AllTimed(k)) /\ (Started(g) => Started(k))
  <2>1. CandsOk(k)
    BY <1>8, <1>10, <1>11, FewerCands DEF Base
  <2>2. Carries(f, k)
    BY <1>10, <1>11, <2>1 DEF Carries
  <2> QED
    BY <1>8, <2>2, CarriesKeeps
<1>13. (\E i \in DOMAIN g.disc : ~g.disc[i].pending) => more
  BY <1>2, <1>3
<1>14. CASE more
  <2>1. x # <<>>
    BY <1>14
  <2>2. Quiet(g, k)
    BY <1>9, <1>10 DEF Quiet
  <2> HIDE DEF more
  <2> QED
    BY <1>7, <1>9, <1>10, <1>12, <1>14, <2>1, <2>2 DEF t
<1>15. CASE ~more
  <2> DEFINE d == discovery_free(k)
             h == agent_gathering_done(d)
  <2>1. /\ Base(d) /\ (AllTimed(k) => AllTimed(d)) /\ (Started(k) => Started(d))
        /\ d.disc = <<>> /\ d.unsched = 0 /\ ~d.timer /\ d.bad = k.bad
        /\ d.streams = k.streams /\ d.upnpTimer = k.upnpTimer
    BY <1>12, DiscoveryFreed
  <2> HIDE DEF d
  <2>2. /\ Signalled(d, h) /\ Base(h)
        /\ h.disc = d.disc /\ h.timer = d.timer /\ h.upnpTimer = d.upnpTimer
        /\ AllTimed(d) => AllTimed(h)
        /\ Started(d) => Started(h)
        /\ \A s \in Streams :
              d.streams[s].gathering /\ ~h.streams[s].gathering => ~h.timer /\ ~h.upnpTimer
    BY <2>1, GatheringDone
  <2>3. h.bad = d.bad /\ h.unsched = d.unsched
    <3>1. d \in Agent
      BY <2>1 DEF Base
    <3> HIDE DEF h
    <3> QED
      BY <2>2, <3>1 DEF Signalled, Agent
  <2>4. Quiet(g, h)
    BY <1>9, <1>10, <2>1, <2>2 DEF Quiet
  <2>5. t.g = h /\ t.more = FALSE
    BY <1>7, <1>15 DEF d
  <2> HIDE DEF more, h
  <2> QED
    BY <1>9, <1>10, <1>12, <1>13, <1>15, <2>1, <2>2, <2>3, <2>4, <2>5 DEF t
<1> QED
  BY <1>14, <1>15

\* The items of a stream are dropped, and the timer with the last of all.
LEMMA StreamPruned ==
  ASSUME NEW g, Base(g), NEW s \in Streams, ~g.bad,
         g.timer => g.disc # <<>>,
         \A i \in DOMAIN g.disc : g.disc[i].stream # s => g.timer
  PROVE  LET h == discovery_prune_stream(g, s)
         IN  /\ Base(h) /\ Scheduled(h)
             /\ AllTimed(g) => AllTimed(h)
             /\ Started(g) => Started(h)
             /\ \A i \in DOMAIN h.disc : /\ h.disc[i].stream # s
                                         /\ \E j \in DOMAIN g.disc : h.disc[i] = g.disc[j]
             /\ h.streams = g.streams /\ h.refreshes = g.refreshes
             /\ h.upnpTimer = g.upnpTimer /\ h.ports = g.ports /\ h.mapping = g.mapping
<1> DEFINE S == {it \in ItemsOf(g) : it.stream # s}
           rest == Keep(g.disc, S)
           h == discovery_prune_stream(g, s)
<1>1. g \in Agent /\ g.disc \in Seq(Item)
  BY AgentFields DEF Base
<1>2. /\ rest \in Seq(Item)
      /\ \A i \in DOMAIN rest : rest[i] \in S
      /\ \A i \in DOMAIN rest : \E a \in DOMAIN g.disc : rest[i] = g.disc[a]
      /\ \A i, j \in DOMAIN rest : i # j =>
            \E a, b \in DOMAIN g.disc : a # b /\ rest[i] = g.disc[a] /\ rest[j] = g.disc[b]
  <2> HIDE DEF S
  <2>1. rest \in Seq(Item) /\ Filters(rest, g.disc, S)
    BY <1>1, KeepElements, Zenon
  <2> HIDE DEF rest
  <2> QED
    BY <2>1 DEF Filters
<1>3. h = IF rest = <<>> THEN discovery_free(g) ELSE [g EXCEPT !.disc = rest]
  BY DEF discovery_prune_stream
<1>4. \A i \in DOMAIN rest : rest[i].stream # s
  BY <1>2
<1> HIDE DEF rest, h
<1>5. CASE rest = <<>>
  <2>1. h = discovery_free(g)
    BY <1>3, <1>5
  <2>2. DOMAIN <<>> = {}
    OBVIOUS
  <2> QED
    BY <2>1, <2>2, DiscoveryFreed DEF Scheduled, h
<1>6. CASE rest # <<>>
  <2>1. h = [g EXCEPT !.disc = rest]
    BY <1>3, <1>6
  <2>2. h \in Agent
    BY <1>1, <1>2, <2>1, AgentUpdates
  <2>3. /\ h.disc = rest /\ h.refreshes = g.refreshes /\ h.allocs = g.allocs
        /\ h.uids = g.uids /\ h.streams = g.streams /\ h.compat = g.compat
        /\ h.foundations = g.foundations /\ h.timer = g.timer /\ h.bad = g.bad
        /\ h.upnpTimer = g.upnpTimer /\ h.ports = g.ports /\ h.mapping = g.mapping
    BY <1>1, <2>1 DEF Agent
  <2>4. CandsOk(h)
    BY <1>1, <2>2, <2>3, FewerCands DEF Base
  <2>5. ItemsOk(h)
    <3> SUFFICES ASSUME NEW i \in DOMAIN rest
                 PROVE  /\ ItemOk(rest[i])
                        /\ rest[i].uid < g.uids
                        /\ g.streams[rest[i].stream].alive
                        /\ ~rest[i].done => \A k \in DOMAIN g.refreshes :
                                 g.refreshes[k].cand.addr # RelayAddr(rest[i].uid)
                        /\ \A j \in DOMAIN rest : j # i => rest[j].uid # rest[i].uid
      BY <2>3 DEF ItemsOk
    <3>1. PICK a \in DOMAIN g.disc : rest[i] = g.disc[a]
      BY <1>2
    <3>2. ASSUME NEW j \in DOMAIN rest, j # i PROVE rest[j].uid # rest[i].uid
      <4>1. PICK b \in DOMAIN g.disc, c \in DOMAIN g.disc :
               b # c /\ rest[j] = g.disc[b] /\ rest[i] = g.disc[c]
        BY <1>2, <3>2
      <4> QED
        BY <4>1 DEF Base, ItemsOk
    <3> QED
      BY <3>1, <3>2 DEF Base, ItemsOk
  <2>6. RefreshesOk(h) /\ AllocsOk(h)
    BY <2>3 DEF Base, RefreshesOk, RelayOf, AllocsOk, RefreshesOf
  <2>7. g.timer
    <3>1. PICK i \in DOMAIN rest : TRUE
      BY <1>2, <1>6
    <3> QED
      BY <1>2, <1>4, <3>1
  <2>8. Scheduled(h)
    BY <1>6, <2>3, <2>7 DEF Scheduled
  <2>9. (AllTimed(g) => AllTimed(h)) /\ (Started(g) => Started(h))
    BY <1>2, <2>3 DEF AllTimed, Started
  <2> QED
    BY <1>2, <1>4, <2>2, <2>3, <2>4, <2>5, <2>6, <2>8, <2>9 DEF Base, h
<1> QED
  BY <1>5, <1>6

-----------------------------------------------------------------------------
\* h is g with items queued for stream s
Queued(g, s, h) ==
    /\ Base(h)
    /\ h.compat = g.compat /\ h.stun = g.stun /\ h.tcp = g.tcp /\ h.timer = g.timer
    /\ h.bad = g.bad /\ h.upnp = g.upnp /\ h.upnpTimer = g.upnpTimer
    /\ h.refreshes = g.refreshes
    /\ \A t \in Streams :
          /\ h.streams[t].alive = g.streams[t].alive
          /\ h.streams[t].gathering = g.streams[t].gathering
          /\ h.streams[t].started = g.streams[t].started
          /\ h.streams[t].servers = g.streams[t].servers
    /\ Len(g.disc) <= Len(h.disc)
    /\ \A i \in DOMAIN g.disc : h.disc[i] = g.disc[i]
    /\ \A i \in DOMAIN h.disc : i > Len(g.disc) => h.disc[i].stream = s /\ ~h.disc[i].pending
    /\ h.unsched + Len(g.disc) = g.unsched + Len(h.disc)

LEMMA QueuedReflexive ==
  ASSUME NEW g, Base(g), NEW s
  PROVE  Queued(g, s, g)
<1>1. g.disc \in Seq(Item)
  BY AgentFields DEF Base
<1> QED
  BY <1>1 DEF Queued

LEMMA QueuedTransitive ==
  ASSUME NEW g, NEW h, NEW k, NEW s, Base(g), Queued(g, s, h), Queued(h, s, k)
  PROVE  Queued(g, s, k)
<1>1. /\ g.disc \in Seq(Item) /\ h.disc \in Seq(Item) /\ k.disc \in Seq(Item)
      /\ g.unsched \in Nat /\ h.unsched \in Nat /\ k.unsched \in Nat
  BY AgentFields DEF Base, Queued
<1>2. /\ Len(g.disc) \in Nat /\ DOMAIN g.disc = 1 .. Len(g.disc)
      /\ Len(h.disc) \in Nat /\ DOMAIN h.disc = 1 .. Len(h.disc)
      /\ Len(k.disc) \in Nat /\ DOMAIN k.disc = 1 .. Len(k.disc)
  BY <1>1
<1>3. Len(g.disc) <= Len(k.disc) /\ k.unsched + Len(g.disc) = g.unsched + Len(k.disc)
  <2> DEFINE a == Len(g.disc)
             b == Len(h.disc)
             c == Len(k.disc)
             u == g.unsched
             v == h.unsched
             w == k.unsched
  <2>1. a \in Nat /\ b \in Nat /\ c \in Nat /\ u \in Nat /\ v \in Nat /\ w \in Nat
    BY <1>1, <1>2
  <2>2. a <= b /\ b <= c /\ v + a = u + b /\ w + b = v + c
    BY DEF Queued
  <2> HIDE DEF a, b, c, u, v, w
  <2>3. a <= c /\ w + a = u + c
    BY <2>1, <2>2
  <2> QED
    BY <2>3 DEF a, c, w, u
<1>4. \A i \in DOMAIN g.disc : k.disc[i] = g.disc[i]
  BY <1>2 DEF Queued
<1>5. ASSUME NEW i \in DOMAIN k.disc, i > Len(g.disc)
      PROVE  k.disc[i].stream = s /\ ~k.disc[i].pending
  <2>1. CASE i > Len(h.disc)
    BY <2>1 DEF Queued
  <2>2. CASE i \in DOMAIN h.disc
    BY <1>5, <2>2 DEF Queued
  <2> QED
    BY <1>2, <2>1, <2>2
<1> QED
  BY <1>3, <1>4, <1>5 DEF Queued

\* A new item, with a uid of its own.
LEMMA ItemAdded ==
  ASSUME NEW g, Base(g), NEW s \in Streams, g.streams[s].alive,
         NEW type \in {"SERVER_REFLEXIVE", "RELAYED"}, NEW turn \in Turns
  PROVE  Queued(g, s, AddDiscovery(g, s, type, turn))
<1> DEFINE it == Discovery(g.uids, s, type, turn)
           x == Append(g.disc, it)
           h == AddDiscovery(g, s, type, turn)
<1>1. g \in Agent /\ g.disc \in Seq(Item) /\ g.unsched \in Nat /\ g.uids \in Nat
      /\ (\A i \in DOMAIN g.disc : g.disc[i] \in Item)
      /\ \A k \in DOMAIN g.refreshes : g.refreshes[k] \in Refresh
  BY AgentFields DEF Base
<1>2. it \in Item /\ ItemOk(it) /\ it.uid = g.uids /\ it.stream = s /\ ~it.done /\ ~it.pending
  <2>1. 0 \in 0..2 /\ {} \in SUBSET (1..2)
    OBVIOUS
  <2> QED
    BY <1>1, <2>1 DEF Discovery, Item, ItemOk
<1>3. h = [g EXCEPT !.disc = x, !.unsched = g.unsched + 1, !.uids = g.uids + 1]
  BY DEF AddDiscovery
<1> HIDE DEF it, h
<1>4. /\ x \in Seq(Item) /\ Len(x) = Len(g.disc) + 1 /\ x[Len(g.disc) + 1] = it
      /\ DOMAIN x = 1 .. Len(g.disc) + 1 /\ DOMAIN g.disc = 1 .. Len(g.disc)
      /\ Len(g.disc) \in Nat
      /\ \A i \in DOMAIN g.disc : x[i] = g.disc[i]
  BY <1>1, <1>2
<1> HIDE DEF x
<1>5. h \in Agent
  <2>1. g.unsched + 1 \in Nat /\ g.uids + 1 \in Nat
    BY <1>1
  <2> QED
    BY <1>1, <1>3, <1>4, <2>1 DEF Agent
<1>6. /\ h.disc = x /\ h.unsched = g.unsched + 1 /\ h.uids = g.uids + 1
      /\ h.refreshes = g.refreshes /\ h.allocs = g.allocs
      /\ h.streams = g.streams /\ h.compat = g.compat /\ h.stun = g.stun /\ h.tcp = g.tcp
      /\ h.foundations = g.foundations /\ h.timer = g.timer /\ h.bad = g.bad
      /\ h.upnp = g.upnp /\ h.upnpTimer = g.upnpTimer
  BY <1>1, <1>3 DEF Agent
<1>7. CandsOk(h)
  BY <1>1, <1>5, <1>6, FewerCands DEF Base
<1>8. RefreshesOk(h)
  <2>1. \A c : RelayOf(g, c) => RelayOf(h, c)
    BY <1>1, <1>6 DEF RelayOf
  <2> QED
    BY <1>6, <2>1 DEF Base, RefreshesOk
<1>9. AllocsOk(h)
  BY <1>6 DEF Base, AllocsOk, RefreshesOf
<1>10. \A k \in DOMAIN g.refreshes : g.refreshes[k].cand.addr # RelayAddr(g.uids)
  BY <1>1 DEF Base, RefreshesOk, RelayOf, RelayAddr
<1>11. \A i \in DOMAIN x : i = Len(g.disc) + 1 \/ i \in DOMAIN g.disc
  BY <1>4
<1>12. ItemsOk(h)
  <2> SUFFICES ASSUME NEW i \in DOMAIN x
               PROVE  /\ ItemOk(x[i])
                      /\ x[i].uid < h.uids
                      /\ g.streams[x[i].stream].alive
                      /\ ~x[i].done => \A k \in DOMAIN g.refreshes :
                                 g.refreshes[k].cand.addr # RelayAddr(x[i].uid)
                      /\ \A j \in DOMAIN x : j # i => x[j].uid # x[i].uid
    BY <1>6 DEF ItemsOk
  <2>1. \A j \in DOMAIN g.disc : g.disc[j].uid \in Nat /\ g.disc[j].uid < g.uids
    BY <1>1 DEF Base, ItemsOk, Item
  <2>2. CASE i = Len(g.disc) + 1
    BY <1>1, <1>2, <1>4, <1>6, <1>10, <1>11, <2>1, <2>2
  <2>3. CASE i \in DOMAIN g.disc
    <3>1. ItemOk(g.disc[i]) /\ g.streams[g.disc[i].stream].alive
      BY <2>3 DEF Base, ItemsOk
    <3>2. ~g.disc[i].done => \A k \in DOMAIN g.refreshes :
                                 g.refreshes[k].cand.addr # RelayAddr(g.disc[i].uid)
      BY <2>3 DEF Base, ItemsOk
    <3>3. \A j \in DOMAIN g.disc : j # i => g.disc[j].uid # g.disc[i].uid
      BY <2>3 DEF Base, ItemsOk
    <3>4. x[i] = g.disc[i]
      BY <1>4, <2>3
    <3>5. g.disc[i].uid < h.uids
      BY <1>1, <1>6, <2>1, <2>3
    <3>6. ASSUME NEW j \in DOMAIN x, j # i PROVE x[j].uid # g.disc[i].uid
      <4>1. CASE j \in DOMAIN g.disc
        BY <1>4, <3>3, <3>6, <4>1
      <4>2. CASE j = Len(g.disc) + 1
        <5>1. x[j].uid = g.uids
          BY <1>2, <1>4, <4>2
        <5>2. g.disc[i].uid \in Nat /\ g.disc[i].uid < g.uids /\ g.uids \in Nat
          BY <1>1, <2>1, <2>3
        <5> QED
          BY <5>1, <5>2
      <4> QED
        BY <1>11, <3>6, <4>1, <4>2
    <3> QED
      BY <3>1, <3>2, <3>4, <3>5, <3>6
  <2> QED
    BY <1>11, <2>2, <2>3
<1>13. \A i \in DOMAIN x : i > Len(g.disc) => x[i].stream = s /\ ~x[i].pending
  BY <1>2, <1>4
<1>14. g.unsched + 1 + Len(g.disc) = g.unsched + Len(x) /\ Len(g.disc) <= Len(x)
  <2>1. Len(x) = Len(g.disc) + 1 /\ Len(g.disc) \in Nat /\ g.unsched \in Nat
    BY <1>1, <1>4
  <2> QED
    BY <2>1
<1> QED
  BY <1>4, <1>5, <1>6, <1>7, <1>8, <1>9, <1>12, <1>13, <1>14 DEF Queued, Base, h

LEMMA TurnAdded ==
  ASSUME NEW g, Base(g), NEW s \in Streams, g.streams[s].alive, NEW turn \in Turns
  PROVE  Queued(g, s, priv_add_new_candidate_discovery_turn(g, s, turn))
BY ItemAdded, QueuedReflexive DEF priv_add_new_candidate_discovery_turn

LEMMA StunAdded ==
  ASSUME NEW g, Base(g), NEW s \in Streams, g.streams[s].alive
  PROVE  Queued(g, s, priv_add_new_candidate_discovery_stun(g, s))
<1>1. None \in Turns
  BY DEF Turns
<1> QED
  BY <1>1, ItemAdded DEF priv_add_new_candidate_discovery_stun

\* A set of servers in some order.
LEMMA OrderTyped ==
  ASSUME NEW S, IsFiniteSet(S)
  PROVE  Cardinality(S) \in Nat /\ SetToSeq(S) \in [1 .. Cardinality(S) -> S]
<1>1. Cardinality(S) \in Nat /\ ExistsBijection(1 .. Cardinality(S), S)
  BY FS_CardinalityType
<1>2. \E f \in [1 .. Cardinality(S) -> S] : IsInjective(f)
  BY <1>1 DEF ExistsBijection, Bijection, Injection
<1> QED
  BY <1>1, <1>2 DEF SetToSeq

\* An item for each of the stream's TURN servers.
LEMMA TurnsAdded ==
  ASSUME NEW g, Base(g), NEW s \in Streams, g.streams[s].alive,
         NEW servers \in SUBSET Turns, IsFiniteSet(servers)
  PROVE  Queued(g, s, AddTurns(g, s, servers))
<1> DEFINE N == Cardinality(servers)
           order == SetToSeq(servers)
           D == {h \in Agent : Queued(g, s, h)}
           Step(n, h) == priv_add_new_candidate_discovery_turn(h, s, order[n])
           add[n \in 0 .. N] ==
              IF n = 0 THEN g ELSE priv_add_new_candidate_discovery_turn(add[n - 1], s, order[n])
           G == [n \in 1 .. N |-> [h \in D |-> Step(n, h)]]
<1>1. N \in Nat /\ order \in [1 .. N -> servers]
  BY OrderTyped
<1>2. g \in D
  BY QueuedReflexive DEF Base
<1>3. ASSUME NEW n \in 1 .. N, NEW h \in D PROVE Step(n, h) \in D
  <2> DEFINE k == Step(n, h)
  <2>1. Base(h) /\ h.streams[s].alive /\ Queued(g, s, h) /\ order[n] \in Turns
    BY <1>1, <1>3 DEF Queued
  <2>2. Queued(h, s, k)
    BY <2>1, TurnAdded
  <2> HIDE DEF k
  <2>3. Queued(g, s, k)
    BY <2>1, <2>2, QueuedTransitive
  <2> QED
    BY <2>3 DEF Queued, Base, k
<1>4. AddTurns(g, s, servers) = add[N]
  BY DEF AddTurns
<1> HIDE DEF D, Step, N
<1>5. IsStep(G, N, D)
  BY <1>3 DEF IsStep
<1>6. PICK f : Iterates(f, N, D, g, G)
  <2> HIDE DEF G
  <2> QED
    BY <1>1, <1>2, <1>5, RecursionExists, Zenon
<1>7. f \in [0 .. N -> D] /\ f[0] = g
  BY <1>6, Zenon DEF Iterates
<1>8. ASSUME NEW n \in 1 .. N PROVE f[n] = Step(n, f[n - 1])
  <2>1. f[n] = G[n][f[n - 1]] /\ f[n - 1] \in D
    BY <1>1, <1>6, <1>7 DEF Iterates
  <2> QED
    BY <2>1
<1>9. f = [n \in 0 .. N |-> IF n = 0 THEN g
                            ELSE priv_add_new_candidate_discovery_turn(f[n - 1], s, order[n])]
  <2>1. ASSUME NEW n \in 0 .. N
        PROVE  f[n] = IF n = 0 THEN g
                      ELSE priv_add_new_candidate_discovery_turn(f[n - 1], s, order[n])
    <3>1. CASE n = 0
      BY <1>7, <3>1
    <3>2. CASE n # 0
      <4>1. n \in 1 .. N
        BY <1>1, <3>2
      <4> QED
        BY <1>8, <3>2, <4>1 DEF Step
    <3> QED
      BY <3>1, <3>2
  <2> QED
    BY <1>7, <2>1
<1>10. add = [n \in 0 .. N |-> IF n = 0 THEN g
                            ELSE priv_add_new_candidate_discovery_turn(add[n - 1], s, order[n])]
  BY <1>9, Zenon DEF add
<1> HIDE DEF add, G
<1>11. add[0] = g /\ \A n \in 1 .. N : add[n] = Step(n, add[n - 1])
  <2>1. \A n \in 0 .. N : add[n] =
           IF n = 0 THEN g ELSE priv_add_new_candidate_discovery_turn(add[n - 1], s, order[n])
    BY <1>10, Zenon
  <2> QED
    BY <1>1, <2>1 DEF Step
<1>12. \A n \in 0 .. N : add[n] \in D
  <2>1. \A n \in 1 .. N : add[n - 1] \in D => add[n] \in D
    BY <1>3, <1>11, Zenon
  <2>2. add[0] \in D
    BY <1>2, <1>11
  <2> QED
    BY <1>1, <2>1, <2>2, IntervalInduction, Zenon
<1>13. add[N] \in D
  BY <1>1, <1>12
<1> QED
  BY <1>4, <1>13 DEF D

\* Adding candidates queues nothing.
LEMMA GrownQueued ==
  ASSUME NEW g, NEW h, NEW s, Base(g), Grown(g, h)
  PROVE  Queued(g, s, h)
<1>1. Base(h)
  BY GrownKeeps
<1>2. g.disc \in Seq(Item) /\ g.unsched \in Nat
  BY AgentFields DEF Base
<1>3. Len(g.disc) \in Nat /\ DOMAIN g.disc = 1 .. Len(g.disc)
  BY <1>2
<1> QED
  BY <1>1, <1>2, <1>3 DEF Queued, Grown

\* A host candidate with all that starts from it.
LEMMA HostQueued ==
  ASSUME NEW g, Base(g), NEW s \in Streams, g.streams[s].alive, NEW transport \in TransportType
  PROVE  Queued(g, s, AddHost(g, s, transport))
<1> DEFINE ports == IF g.upnp = "created" /\ transport # "TCP_ACTIVE" THEN {<<s, transport>>} ELSE {}
           a == discovery_add_local_host_candidate(g, s, transport)
           b == [a EXCEPT !.mapping = @ \cup ports, !.ports = @ \cup ports]
           c == IF b.stun THEN priv_add_new_candidate_discovery_stun(b, s) ELSE b
           d == AddTurns(c, s, b.streams[s].servers)
           h == AddHost(g, s, transport)
<1>1. h = IF transport = "UDP" THEN d ELSE b
  BY DEF AddHost
<1>2. Queued(g, s, a)
  BY HostAdded, GrownQueued DEF Base
<1>3. ports \in SUBSET Port
  BY DEF Port
<1> HIDE DEF a, ports, h
<1>4. a \in Agent /\ Base(a)
  BY <1>2 DEF Queued, Base
<1>5. b \in Agent
  <2> DEFINE x == a.mapping \cup ports
             y == a.ports \cup ports
  <2>1. x \in SUBSET Port /\ y \in SUBSET Port
    BY <1>3, <1>4, AgentFields
  <2>2. b = [a EXCEPT !.mapping = x, !.ports = y]
    OBVIOUS
  <2> HIDE DEF x, y, b
  <2> QED
    BY <1>4, <2>1, <2>2 DEF Agent
<1>6. /\ b.disc = a.disc /\ b.refreshes = a.refreshes /\ b.allocs = a.allocs
      /\ b.uids = a.uids /\ b.streams = a.streams /\ b.compat = a.compat /\ b.stun = a.stun
      /\ b.tcp = a.tcp /\ b.foundations = a.foundations /\ b.timer = a.timer
      /\ b.bad = a.bad /\ b.upnp = a.upnp /\ b.upnpTimer = a.upnpTimer
      /\ b.unsched = a.unsched
  BY <1>4 DEF Agent
<1> HIDE DEF b
<1>7. Base(b)
  <2>1. CandsOk(b)
    BY <1>4, <1>5, <1>6, FewerCands DEF Base
  <2>2. Carries(a, b)
    BY <1>5, <1>6, <2>1 DEF Carries
  <2> QED
    BY <1>4, <2>2, CarriesKeeps
<1>8. Queued(g, s, b)
  BY <1>2, <1>6, <1>7 DEF Queued
<1>9. b.streams[s].alive
  BY <1>8 DEF Queued
<1>10. Queued(b, s, c)
  BY <1>7, <1>9, StunAdded, QueuedReflexive
<1> HIDE DEF c
<1>11. b.streams[s].servers \in SUBSET Turns /\ IsFiniteSet(b.streams[s].servers)
  BY <1>5, AgentFields DEF Stream
<1>12. Base(c) /\ c.streams[s].alive
  BY <1>9, <1>10 DEF Queued
<1>13. Queued(c, s, d)
  <2> DEFINE S == b.streams[s].servers
  <2> HIDE DEF S
  <2> QED
    BY <1>11, <1>12, TurnsAdded DEF S
<1> HIDE DEF d
<1> QED
  BY <1>1, <1>7, <1>8, <1>10, <1>12, <1>13, QueuedTransitive DEF h

\* The host candidates of a stream.
LEMMA HostsQueued ==
  ASSUME NEW g, Base(g), NEW s \in Streams, g.streams[s].alive, NEW N \in 0..3
  PROVE  Queued(g, s, AddHosts(g, s, N))
<1> DEFINE order == <<"UDP", "TCP_ACTIVE", "TCP_PASSIVE">>
           D == {h \in Agent : Queued(g, s, h)}
           Step(n, h) == AddHost(h, s, order[n])
           add[n \in 0 .. N] == IF n = 0 THEN g ELSE AddHost(add[n - 1], s, order[n])
           G == [n \in 1 .. N |-> [h \in D |-> Step(n, h)]]
<1>1. N \in Nat /\ \A n \in 1 .. N : order[n] \in TransportType
  <2>1. \A n \in 1 .. N : n = 1 \/ n = 2 \/ n = 3
    OBVIOUS
  <2> QED
    BY <2>1 DEF TransportType
<1>2. g \in D
  BY QueuedReflexive DEF Base
<1>3. ASSUME NEW n \in 1 .. N, NEW h \in D PROVE Step(n, h) \in D
  <2> DEFINE k == Step(n, h)
  <2> HIDE DEF order
  <2>1. Base(h) /\ h.streams[s].alive /\ Queued(g, s, h) /\ order[n] \in TransportType
    BY <1>1, <1>3 DEF Queued
  <2>2. Queued(h, s, k)
    BY <2>1, HostQueued
  <2> HIDE DEF k
  <2>3. Queued(g, s, k)
    BY <2>1, <2>2, QueuedTransitive
  <2> QED
    BY <2>3 DEF Queued, Base, k
<1>4. AddHosts(g, s, N) = add[N]
  BY DEF AddHosts
<1> HIDE DEF D, Step, order
<1>5. IsStep(G, N, D)
  BY <1>3 DEF IsStep
<1>6. PICK f : Iterates(f, N, D, g, G)
  <2> HIDE DEF G
  <2> QED
    BY <1>1, <1>2, <1>5, RecursionExists, Zenon
<1>7. f \in [0 .. N -> D] /\ f[0] = g
  BY <1>6, Zenon DEF Iterates
<1>8. ASSUME NEW n \in 1 .. N PROVE f[n] = Step(n, f[n - 1])
  <2>1. f[n] = G[n][f[n - 1]] /\ f[n - 1] \in D
    BY <1>1, <1>6, <1>7 DEF Iterates
  <2> QED
    BY <2>1
<1>9. f = [n \in 0 .. N |-> IF n = 0 THEN g ELSE AddHost(f[n - 1], s, order[n])]
  <2>1. ASSUME NEW n \in 0 .. N
        PROVE  f[n] = IF n = 0 THEN g ELSE AddHost(f[n - 1], s, order[n])
    <3>1. CASE n = 0
      BY <1>7, <3>1
    <3>2. CASE n # 0
      <4>1. n \in 1 .. N
        BY <1>1, <3>2
      <4> QED
        BY <1>8, <3>2, <4>1 DEF Step
    <3> QED
      BY <3>1, <3>2
  <2> QED
    BY <1>7, <2>1
<1>10. add = [n \in 0 .. N |-> IF n = 0 THEN g ELSE AddHost(add[n - 1], s, order[n])]
  BY <1>9, Zenon DEF add
<1> HIDE DEF add, G
<1>11. add[0] = g /\ \A n \in 1 .. N : add[n] = Step(n, add[n - 1])
  <2>1. \A n \in 0 .. N : add[n] = IF n = 0 THEN g ELSE AddHost(add[n - 1], s, order[n])
    BY <1>10, Zenon
  <2> QED
    BY <1>1, <2>1 DEF Step
<1>12. \A n \in 0 .. N : add[n] \in D
  <2>1. \A n \in 1 .. N : add[n - 1] \in D => add[n] \in D
    BY <1>3, <1>11, Zenon
  <2>2. add[0] \in D
    BY <1>2, <1>11
  <2> QED
    BY <1>1, <2>1, <2>2, IntervalInduction, Zenon
<1>13. add[N] \in D
  BY <1>1, <1>12
<1> QED
  BY <1>4, <1>13 DEF D

\* What is known of the timer when items were queued for stream s, before they
\* are scheduled.
Unscheduled(s, h) ==
    /\ ~h.bad
    /\ h.timer => h.disc # <<>>
    /\ h.unsched > 0 => h.disc # <<>>
    /\ ~h.timer /\ h.unsched = 0 => h.disc = <<>>
    /\ ~h.timer => \A i \in DOMAIN h.disc : h.disc[i].stream = s /\ ~h.disc[i].pending

LEMMA QueuedUnscheduled ==
  ASSUME NEW g, NEW h, NEW s, Base(g), Scheduled(g), Queued(g, s, h)
  PROVE  /\ Unscheduled(s, h)
         /\ AllTimed(g) => AllTimed(h)
<1>1. /\ g.disc \in Seq(Item) /\ h.disc \in Seq(Item)
      /\ g.unsched \in Nat /\ h.unsched \in Nat
  BY AgentFields DEF Base, Queued
<1> DEFINE a == Len(g.disc)
           b == Len(h.disc)
           u == g.unsched
           v == h.unsched
<1>2. /\ a \in Nat /\ DOMAIN g.disc = 1 .. a /\ (g.disc = <<>> <=> a = 0)
      /\ b \in Nat /\ DOMAIN h.disc = 1 .. b /\ (h.disc = <<>> <=> b = 0)
  BY <1>1
<1>3. a <= b /\ v + a = u + b /\ u \in Nat /\ v \in Nat
  BY <1>1 DEF Queued
<1>4. (g.timer <=> a # 0) /\ (u > 0 => a # 0) /\ ~g.bad /\ h.timer = g.timer /\ h.bad = g.bad
  BY <1>2 DEF Scheduled, Queued
<1>5. \A i \in DOMAIN h.disc : i > a => h.disc[i].stream = s /\ ~h.disc[i].pending
  BY DEF Queued
<1>6. AllTimed(g) => AllTimed(h)
  BY DEF Queued, AllTimed
<1> HIDE DEF a, b, u, v
<1>7. (h.timer => b # 0) /\ (v > 0 => b # 0) /\ (~h.timer /\ v = 0 => b = 0)
  BY <1>2, <1>3, <1>4
<1>8. ~h.timer => \A i \in DOMAIN h.disc : h.disc[i].stream = s /\ ~h.disc[i].pending
  BY <1>2, <1>4, <1>5
<1> QED
  BY <1>2, <1>4, <1>6, <1>7, <1>8 DEF Unscheduled, v

\* Items that wait get a timer.
LEMMA ItemsGetTimer ==
  ASSUME NEW g, Base(g), NEW s, Unscheduled(s, g), g.unsched > 0
  PROVE  LET h == discovery_schedule(g)
         IN  /\ Base(h) /\ Scheduled(h) /\ Quiet(g, h)
             /\ AllTimed(g) => AllTimed(h)
             /\ Started(g) => Started(h)
<1> DEFINE t == priv_discovery_tick_unlocked(g, {})
           f == IF ~g.timer THEN t.g ELSE g
           h == discovery_schedule(g)
<1>1. g.disc # <<>> /\ g \in Agent /\ g.disc \in Seq(Item)
  BY AgentFields DEF Unscheduled, Base
<1>2. /\ t.more \in BOOLEAN
      /\ Base(t.g) /\ t.g.bad = g.bad /\ Quiet(g, t.g)
      /\ AllTimed(g) => AllTimed(t.g)
      /\ Started(g) => Started(t.g)
      /\ t.more => t.g.disc # <<>> /\ t.g.timer = g.timer /\ t.g.streams = g.streams
      /\ (\E i \in DOMAIN g.disc : ~g.disc[i].pending) => t.more
  BY Ticked
<1>3. ~g.timer => t.more
  <2> DEFINE q == g.disc
  <2>1. q # <<>> /\ q \in Seq(Item)
    BY <1>1
  <2> HIDE DEF q
  <2>2. 1 \in DOMAIN q
    BY <2>1
  <2> QED
    BY <1>2, <2>2 DEF Unscheduled, q
<1>4. h = [f EXCEPT !.timer = TRUE, !.bad = FALSE]
  <2>1. CASE ~g.timer
    <3>1. h = [[t.g EXCEPT !.timer = TRUE] EXCEPT !.bad = @ \/ g.disc = <<>>]
      BY <1>3, <2>1 DEF discovery_schedule
    <3> HIDE DEF t, h
    <3>2. t.g \in Agent /\ t.g.bad = FALSE
      BY <1>2, AgentFields DEF Base, Unscheduled
    <3>3. (FALSE \/ g.disc = <<>>) = FALSE
      BY <1>1
    <3> DEFINE k == [t.g EXCEPT !.timer = TRUE]
    <3>4. k.bad = FALSE
      BY <3>2 DEF Agent
    <3>5. h = [k EXCEPT !.bad = FALSE]
      BY <3>1, <3>3, <3>4
    <3> QED
      BY <2>1, <3>5
  <2>2. CASE g.timer
    <3>1. h = [g EXCEPT !.bad = @ \/ g.disc = <<>>]
      BY <2>2 DEF discovery_schedule
    <3>2. (g.bad \/ g.disc = <<>>) = FALSE
      BY <1>1 DEF Unscheduled
    <3>3. h = [g EXCEPT !.bad = FALSE]
      BY <3>1, <3>2
    <3>4. g.timer = TRUE
      BY <1>1, <2>2, AgentFields
    <3> HIDE DEF h
    <3>5. g = [g EXCEPT !.timer = TRUE]
      BY <1>1, <3>4 DEF Agent
    <3> QED
      BY <2>2, <3>3, <3>5
  <2> QED
    BY <2>1, <2>2
<1>5. /\ Base(f) /\ f.disc # <<>> /\ f.streams = g.streams
      /\ AllTimed(g) => AllTimed(f)
      /\ Started(g) => Started(f)
  BY <1>1, <1>2, <1>3
<1> HIDE DEF f, h, t
<1>6. h \in Agent
  BY <1>4, <1>5 DEF Base, Agent
<1>7. /\ h.disc = f.disc /\ h.streams = f.streams /\ h.timer /\ ~h.bad
      /\ h.refreshes = f.refreshes /\ h.allocs = f.allocs
      /\ h.uids = f.uids /\ h.compat = f.compat /\ h.foundations = f.foundations
  BY <1>4, <1>5 DEF Base, Agent
<1>8. CandsOk(h)
  BY <1>5, <1>6, <1>7, FewerCands DEF Base
<1>9. Carries(f, h)
  BY <1>6, <1>7, <1>8 DEF Carries
<1>10. Base(h) /\ (AllTimed(f) => AllTimed(h)) /\ (Started(f) => Started(h))
  BY <1>5, <1>9, CarriesKeeps
<1>11. Scheduled(h) /\ Quiet(g, h)
  BY <1>5, <1>7 DEF Scheduled, Quiet
<1> QED
  BY <1>5, <1>10, <1>11 DEF h

-----------------------------------------------------------------------------
\* A new state of stream s, which keeps what its items and refreshes need.
LEMMA StreamChanged ==
  ASSUME NEW g, Base(g), NEW s \in Streams, NEW st \in Stream,
         st.cands \subseteq g.streams[s].cands, st.alive => g.streams[s].alive,
         \A i \in DOMAIN g.disc : g.disc[i].stream = s => st.alive,
         \A k \in DOMAIN g.refreshes :
            g.refreshes[k].stream = s =>
               st.alive /\ g.refreshes[k].cand \in st.cands \cup {st.kept}
  PROVE  LET h == [g EXCEPT !.streams[s] = st]
         IN  /\ Base(h)
             /\ AllTimed(g) => AllTimed(h)
             /\ Scheduled(g) => Scheduled(h)
             /\ h.streams = [g.streams EXCEPT ![s] = st]
             /\ h.disc = g.disc /\ h.refreshes = g.refreshes /\ h.timer = g.timer
             /\ h.upnpTimer = g.upnpTimer /\ h.bad = g.bad /\ h.unsched = g.unsched
<1> DEFINE x == [g.streams EXCEPT ![s] = st]
           h == [g EXCEPT !.streams[s] = st]
<1>1. g \in Agent /\ g.streams \in [Streams -> Stream]
  BY AgentFields DEF Base
<1>2. x \in [Streams -> Stream] /\ x[s] = st /\ \A t \in Streams : t # s => x[t] = g.streams[t]
  BY <1>1
<1>3. h = [g EXCEPT !.streams = x]
  BY <1>1 DEF Agent
<1> HIDE DEF x, h
<1>4. h \in Agent
  BY <1>1, <1>2, <1>3, AgentUpdates
<1>5. /\ h.disc = g.disc /\ h.streams = x /\ h.timer = g.timer /\ h.bad = g.bad
      /\ h.unsched = g.unsched /\ h.refreshes = g.refreshes /\ h.allocs = g.allocs
      /\ h.uids = g.uids /\ h.compat = g.compat /\ h.foundations = g.foundations
      /\ h.upnpTimer = g.upnpTimer
  BY <1>1, <1>3 DEF Agent
<1>6. \A t \in Streams : /\ x[t].cands \subseteq g.streams[t].cands
                         /\ x[t].alive => g.streams[t].alive
  BY <1>2
<1>7. CandsOk(h)
  BY <1>1, <1>4, <1>5, <1>6, FewerCands DEF Base
<1>8. ItemsOk(h)
  <2>1. \A i \in DOMAIN g.disc : x[g.disc[i].stream].alive
    <3>1. \A i \in DOMAIN g.disc : g.disc[i].stream \in Streams
      BY <1>1, AgentFields DEF Item
    <3> QED
      BY <1>2, <3>1 DEF Base, ItemsOk
  <2> QED
    BY <1>5, <2>1 DEF Base, ItemsOk
<1>9. RefreshesOk(h)
  <2>1. \A k \in DOMAIN g.refreshes :
           LET p == x[g.refreshes[k].stream]
           IN  p.alive /\ g.refreshes[k].cand \in p.cands \cup {p.kept}
    <3>1. \A k \in DOMAIN g.refreshes : g.refreshes[k].stream \in Streams
      BY <1>1, AgentFields DEF Refresh
    <3> QED
      BY <1>2, <3>1 DEF Base, RefreshesOk
  <2>2. \A c : RelayOf(g, c) => RelayOf(h, c)
    BY <1>5 DEF RelayOf
  <2> QED
    BY <1>5, <2>1, <2>2 DEF Base, RefreshesOk
<1>10. AllocsOk(h)
  BY <1>5 DEF Base, AllocsOk, RefreshesOf
<1>11. (AllTimed(g) => AllTimed(h)) /\ (Scheduled(g) => Scheduled(h))
  BY <1>5 DEF AllTimed, Scheduled
<1> QED
  BY <1>4, <1>5, <1>7, <1>8, <1>9, <1>10, <1>11 DEF Base, h, x

-----------------------------------------------------------------------------
\* Refreshes

\* The refresh timer is set to fire before the allocation expires.
LEMMA DelayInTime ==
  ASSUME NEW l \in Lifetimes
  PROVE  Delay(l) \in Nat /\ Delay(l) < l * 1000
<1> DEFINE y == l - 60
           x == y * 1000
<1>1. l \in Nat /\ Word \in Nat /\ Word > 0 /\ y \in Nat /\ y < Word /\ x \in Nat
      /\ x < l * 1000 /\ l * 1000 \in Nat
  BY LifetimesAssumption
<1>2. Delay(l) = ((y % Word) * 1000) % Word
  BY DEF Delay
<1> HIDE DEF y
<1>3. y % Word = y
  BY <1>1
<1>4. Delay(l) = x % Word
  BY <1>2, <1>3
<1> HIDE DEF x
<1>5. x % Word \in 0 .. (Word - 1)
  BY <1>1
<1>6. x < Word => x % Word = x
  BY <1>1
<1> DEFINE z == x % Word
<1>7. z \in 0 .. (Word - 1) /\ (x < Word => z = x)
  BY <1>5, <1>6
<1> HIDE DEF z
<1>8. z \in Nat /\ z <= x
  BY <1>1, <1>7
<1>9. z < l * 1000
  <2> DEFINE m == l * 1000
  <2>1. m \in Nat /\ x < m
    BY <1>1
  <2> HIDE DEF m
  <2>2. z < m
    BY <1>1, <1>8, <2>1
  <2> QED
    BY <2>2 DEF m
<1> QED
  BY <1>4, <1>8, <1>9 DEF z

\* A refresh request on its way is timed.
LEMMA RefreshSent ==
  ASSUME NEW r \in Refresh, r.sent = {}, ~r.timer
  PROVE  LET v == SendRefresh(r)
         IN  /\ v \in Refresh /\ v.cand = r.cand /\ v.stream = r.stream
             /\ v.sent \subseteq {v.msg} /\ ~v.timer /\ Timed(v)
<1> DEFINE id == FreshId(r)
           v == SendRefresh(r)
<1>1. id \in 1..2
  BY FreshIdOk
<1>2. v = [r EXCEPT !.msg = id, !.sent = @ \cup {id}, !.left = MaxRetrans,
                    !.asked = r.realm, !.tick = TRUE]
  BY DEF SendRefresh, Send
<1> HIDE DEF id, v
<1> DEFINE S == r.sent \cup {id}
<1>3. S \in SUBSET (1..2) /\ S = {id} /\ id \in 0..2 /\ id # 0 /\ r.realm \in BOOLEAN
  BY <1>1 DEF Refresh
<1>4. v = [r EXCEPT !.msg = id, !.sent = S, !.left = MaxRetrans, !.asked = r.realm, !.tick = TRUE]
  BY <1>2
<1> HIDE DEF S
<1>5. v \in Refresh
  BY <1>3, <1>4, RetransAssumption DEF Refresh
<1>6. /\ v.cand = r.cand /\ v.stream = r.stream /\ v.msg = id /\ v.sent = S
      /\ v.timer = r.timer /\ v.tick = TRUE
  BY <1>4 DEF Refresh
<1> QED
  BY <1>3, <1>5, <1>6 DEF Timed, v

\* A new state of one refresh, for the same candidate.
LEMMA RefreshReplaced ==
  ASSUME NEW g, Base(g), NEW i \in DOMAIN g.refreshes, NEW r \in Refresh,
         r.sent \subseteq {r.msg}, r.timer => r.sent = {},
         r.cand = g.refreshes[i].cand, r.stream = g.refreshes[i].stream
  PROVE  LET h == [g EXCEPT !.refreshes[i] = r]
         IN  /\ Base(h)
             /\ AllTimed(g) /\ Timed(r) => AllTimed(h)
             /\ Started(g) => Started(h)
             /\ Scheduled(g) => Scheduled(h)
             /\ h.refreshes = [g.refreshes EXCEPT ![i] = r]
             /\ h.streams = g.streams /\ h.disc = g.disc
<1> DEFINE x == [g.refreshes EXCEPT ![i] = r]
           h == [g EXCEPT !.refreshes[i] = r]
<1>1. g \in Agent /\ g.refreshes \in Seq(Refresh)
  BY AgentFields DEF Base
<1>2. x \in Seq(Refresh) /\ DOMAIN x = DOMAIN g.refreshes
  BY <1>1
<1>3. h = [g EXCEPT !.refreshes = x]
  BY <1>1 DEF Agent
<1>4. x[i] = r /\ \A k \in DOMAIN x : k # i => x[k] = g.refreshes[k]
  BY <1>1
<1> HIDE DEF x, h
<1>5. h \in Agent
  BY <1>1, <1>2, <1>3, AgentUpdates
<1>6. /\ h.disc = g.disc /\ h.streams = g.streams /\ h.timer = g.timer /\ h.bad = g.bad
      /\ h.unsched = g.unsched /\ h.refreshes = x /\ h.allocs = g.allocs
      /\ h.uids = g.uids /\ h.compat = g.compat /\ h.foundations = g.foundations
  BY <1>1, <1>3 DEF Agent
<1>7. \A k \in DOMAIN x : x[k].cand = g.refreshes[k].cand /\ x[k].stream = g.refreshes[k].stream
  BY <1>4
<1>8. CandsOk(h)
  BY <1>1, <1>5, <1>6, FewerCands DEF Base
<1>9. ItemsOk(h)
  BY <1>2, <1>6, <1>7 DEF Base, ItemsOk
<1>10. RefreshesOk(h)
  <2>1. \A c : RelayOf(g, c) => RelayOf(h, c)
    BY <1>6 DEF RelayOf
  <2>2. \A k \in DOMAIN x : x[k].sent \subseteq {x[k].msg} /\ (x[k].timer => x[k].sent = {})
    BY <1>2, <1>4 DEF Base, RefreshesOk
  <2> QED
    BY <1>2, <1>6, <1>7, <2>1, <2>2 DEF Base, RefreshesOk
<1>11. AllocsOk(h)
  <2>1. {q.cand.addr : q \in RefreshesOf(h)} = {q.cand.addr : q \in RefreshesOf(g)}
    BY <1>2, <1>6, <1>7 DEF RefreshesOf
  <2> QED
    BY <1>6, <2>1 DEF Base, AllocsOk
<1>12. /\ AllTimed(g) /\ Timed(r) => AllTimed(h)
       /\ Started(g) => Started(h)
       /\ Scheduled(g) => Scheduled(h)
  BY <1>2, <1>4, <1>6, <1>7 DEF AllTimed, Started, Scheduled
<1> QED
  BY <1>5, <1>6, <1>8, <1>9, <1>10, <1>11, <1>12 DEF Base, h, x

\* Refreshes go, and with them their allocations and no others.
LEMMA RefreshesFreed ==
  ASSUME NEW g, Base(g), NEW gone, gone \subseteq RefreshesOf(g)
  PROVE  LET h == FreeRefreshes(g, gone)
         IN  /\ Base(h)
             /\ (\A r \in RefreshesOf(g) \ gone : Timed(r)) => AllTimed(h)
             /\ Started(g) => Started(h)
             /\ Scheduled(g) => Scheduled(h)
             /\ \A k \in DOMAIN h.refreshes :
                   h.refreshes[k] \in RefreshesOf(g) /\ h.refreshes[k] \notin gone
             /\ h.streams = g.streams /\ h.disc = g.disc /\ h.timer = g.timer
             /\ h.ports = g.ports /\ h.upnpTimer = g.upnpTimer
<1> DEFINE S == RefreshesOf(g) \ gone
           x == Keep(g.refreshes, S)
           y == g.allocs \ {r.cand.addr : r \in gone}
           h == FreeRefreshes(g, gone)
<1>1. g \in Agent /\ g.refreshes \in Seq(Refresh) /\ g.allocs \in SUBSET Addr
  BY AgentFields DEF Base
<1>2. x \in Seq(Refresh) /\ Filters(x, g.refreshes, S)
  <2> HIDE DEF S
  <2> QED
    BY <1>1, KeepElements, Zenon
<1>3. h = [g EXCEPT !.refreshes = x, !.allocs = y]
  BY DEF FreeRefreshes
<1>4. y \in SUBSET Addr
  BY <1>1
<1> HIDE DEF x, h, y
<1>5. h \in Agent
  BY <1>1, <1>2, <1>3, <1>4 DEF Agent
<1>6. /\ h.disc = g.disc /\ h.streams = g.streams /\ h.timer = g.timer /\ h.bad = g.bad
      /\ h.unsched = g.unsched /\ h.refreshes = x /\ h.allocs = y
      /\ h.uids = g.uids /\ h.compat = g.compat /\ h.foundations = g.foundations
      /\ h.ports = g.ports /\ h.upnpTimer = g.upnpTimer
  BY <1>1, <1>3 DEF Agent
<1>7. /\ \A k \in DOMAIN x : x[k] \in RefreshesOf(g) /\ x[k] \notin gone
      /\ \A k \in DOMAIN x : \E a \in DOMAIN g.refreshes : x[k] = g.refreshes[a]
      /\ \A a \in DOMAIN g.refreshes : g.refreshes[a] \notin gone =>
            \E k \in DOMAIN x : x[k] = g.refreshes[a]
      /\ \A i, j \in DOMAIN x : i # j =>
            \E a, b \in DOMAIN g.refreshes :
                a # b /\ x[i] = g.refreshes[a] /\ x[j] = g.refreshes[b]
  BY <1>2 DEF Filters, RefreshesOf
<1>8. CandsOk(h)
  BY <1>1, <1>5, <1>6, FewerCands DEF Base
<1>9. ItemsOk(h)
  <2>1. ASSUME NEW i \in DOMAIN g.disc, ~g.disc[i].done, NEW k \in DOMAIN x
        PROVE  x[k].cand.addr # RelayAddr(g.disc[i].uid)
    <3>1. PICK a \in DOMAIN g.refreshes : x[k] = g.refreshes[a]
      BY <1>7
    <3> QED
      BY <2>1, <3>1 DEF Base, ItemsOk
  <2> QED
    BY <1>6, <2>1 DEF Base, ItemsOk
<1>10. RefreshesOk(h)
  <2>1. \A c : RelayOf(g, c) => RelayOf(h, c)
    BY <1>6 DEF RelayOf
  <2>2. ASSUME NEW k \in DOMAIN x
        PROVE  LET r == x[k]
                   st == g.streams[r.stream]
               IN  /\ r.sent \subseteq {r.msg} /\ (r.timer => r.sent = {})
                   /\ RelayOf(h, r.cand)
                   /\ st.alive /\ r.cand \in st.cands \cup {st.kept}
    <3>1. PICK a \in DOMAIN g.refreshes : x[k] = g.refreshes[a]
      BY <1>7
    <3> QED
      BY <2>1, <3>1 DEF Base, RefreshesOk
  <2>3. ASSUME NEW k \in DOMAIN x, NEW j \in DOMAIN x, j # k
        PROVE  x[j].cand.addr # x[k].cand.addr
    <3>1. PICK a \in DOMAIN g.refreshes, b \in DOMAIN g.refreshes :
                a # b /\ x[j] = g.refreshes[a] /\ x[k] = g.refreshes[b]
      BY <1>7, <2>3
    <3> QED
      BY <3>1 DEF Base, RefreshesOk
  <2> QED
    BY <1>6, <2>2, <2>3 DEF RefreshesOk
<1>11. AllocsOk(h)
  <2> DEFINE old == {r.cand.addr : r \in RefreshesOf(g)}
             dropped == {r.cand.addr : r \in gone}
             new == {r.cand.addr : r \in RefreshesOf(h)}
  <2>1. g.allocs = old /\ y = old \ dropped
    BY DEF Base, AllocsOk, y
  <2>2. ASSUME NEW e \in old, e \notin dropped PROVE e \in new
    <3>1. PICK a \in DOMAIN g.refreshes : e = g.refreshes[a].cand.addr
      BY DEF RefreshesOf
    <3>2. g.refreshes[a] \notin gone
      BY <2>2, <3>1
    <3>3. PICK k \in DOMAIN x : x[k] = g.refreshes[a]
      BY <1>7, <3>2
    <3> QED
      BY <1>6, <3>1, <3>3 DEF RefreshesOf
  <2>3. ASSUME NEW e \in new PROVE e \in old /\ e \notin dropped
    <3>1. PICK k \in DOMAIN x : e = x[k].cand.addr
      BY <1>6 DEF RefreshesOf
    <3>2. PICK a \in DOMAIN g.refreshes : x[k] = g.refreshes[a]
      BY <1>7
    <3>3. e \in old
      BY <3>1, <3>2 DEF RefreshesOf
    <3>4. ASSUME NEW r \in gone, r.cand.addr = e PROVE FALSE
      <4>1. PICK b \in DOMAIN g.refreshes : r = g.refreshes[b]
        BY DEF RefreshesOf
      <4>2. a = b
        BY <3>1, <3>2, <3>4, <4>1 DEF Base, RefreshesOk
      <4> QED
        BY <1>7, <3>2, <4>1, <4>2
    <3> QED
      BY <3>3, <3>4
  <2>4. y = new
    <3> HIDE DEF old, dropped, new
    <3> QED
      BY <2>1, <2>2, <2>3
  <2> QED
    BY <1>6, <2>4 DEF AllocsOk
<1>12. (\A r \in RefreshesOf(g) \ gone : Timed(r)) => AllTimed(h)
  BY <1>6, <1>7 DEF AllTimed
<1>13. (Started(g) => Started(h)) /\ (Scheduled(g) => Scheduled(h))
  BY <1>6, <1>7 DEF Started, Scheduled, RefreshesOf
<1> QED
  BY <1>5, <1>6, <1>7, <1>8, <1>9, <1>10, <1>11, <1>12, <1>13 DEF Base, h

\* A refresh for an allocation that has none.
WithRefresh(g, r, u) ==
    [g EXCEPT !.refreshes = Append(@, r), !.allocs = @ \cup {RelayAddr(u)}]

LEMMA RefreshAdded ==
  ASSUME NEW g, Good(g), NEW r \in Refresh, NEW u \in Nat, u < g.uids,
         r.sent = {}, Timed(r), r.cand.type = "RELAYED", r.cand.addr = RelayAddr(u),
         r.cand \in g.streams[r.stream].cands, g.streams[r.stream].alive,
         g.streams[r.stream].started,
         \A i \in DOMAIN g.disc : ~g.disc[i].done => g.disc[i].uid # u,
         \A k \in DOMAIN g.refreshes : g.refreshes[k].cand.addr # RelayAddr(u)
  PROVE  Good(WithRefresh(g, r, u)) /\ WithRefresh(g, r, u).streams = g.streams
<1> DEFINE x == Append(g.refreshes, r)
           y == g.allocs \cup {RelayAddr(u)}
           h == WithRefresh(g, r, u)
           n == Len(g.refreshes)
<1>1. g \in Agent /\ g.refreshes \in Seq(Refresh) /\ g.allocs \in SUBSET Addr
      /\ g.disc \in Seq(Item) /\ \A i \in DOMAIN g.disc : g.disc[i] \in Item
  BY AgentFields DEF Good, Base
<1>2. /\ x \in Seq(Refresh) /\ DOMAIN x = 1 .. n + 1 /\ x[n + 1] = r
      /\ n \in Nat /\ DOMAIN g.refreshes = 1 .. n
      /\ \A k \in DOMAIN g.refreshes : x[k] = g.refreshes[k]
  BY <1>1
<1>3. h = [g EXCEPT !.refreshes = x, !.allocs = y]
  BY DEF WithRefresh
<1>4. y \in SUBSET Addr
  BY <1>1 DEF Addr, RelayAddr
<1> HIDE DEF x, y, h, n
<1>5. h \in Agent
  BY <1>1, <1>2, <1>3, <1>4 DEF Agent
<1>6. /\ h.disc = g.disc /\ h.streams = g.streams /\ h.timer = g.timer /\ h.bad = g.bad
      /\ h.unsched = g.unsched /\ h.refreshes = x /\ h.allocs = y
      /\ h.uids = g.uids /\ h.compat = g.compat /\ h.foundations = g.foundations
  BY <1>1, <1>3 DEF Agent
<1>7. \A k \in DOMAIN x : k = n + 1 \/ k \in DOMAIN g.refreshes
  BY <1>2
<1>8. n + 1 \in DOMAIN x /\ DOMAIN g.refreshes \subseteq DOMAIN x
  BY <1>2
<1>9. CandsOk(h)
  BY <1>1, <1>5, <1>6, FewerCands DEF Good, Base
<1>10. ItemsOk(h)
  <2>1. ASSUME NEW i \in DOMAIN g.disc, ~g.disc[i].done, NEW k \in DOMAIN x
        PROVE  x[k].cand.addr # RelayAddr(g.disc[i].uid)
    <3>1. CASE k \in DOMAIN g.refreshes
      BY <1>2, <2>1, <3>1 DEF Good, Base, ItemsOk
    <3>2. CASE k = n + 1
      <4>1. g.disc[i].uid # u /\ x[k].cand.addr = RelayAddr(u)
        BY <1>2, <2>1, <3>2
      <4> QED
        BY <4>1 DEF RelayAddr
    <3> QED
      BY <1>7, <3>1, <3>2
  <2> QED
    BY <1>6, <2>1 DEF Good, Base, ItemsOk
<1>11. RefreshesOk(h)
  <2>1. \A c : RelayOf(g, c) => RelayOf(h, c)
    BY <1>6 DEF RelayOf
  <2>2. RelayOf(h, r.cand)
    BY <1>6 DEF RelayOf
  <2>3. ASSUME NEW k \in DOMAIN x
        PROVE  LET q == x[k]
                   st == g.streams[q.stream]
               IN  /\ q.sent \subseteq {q.msg} /\ (q.timer => q.sent = {})
                   /\ RelayOf(h, q.cand)
                   /\ st.alive /\ q.cand \in st.cands \cup {st.kept}
    <3>1. CASE k \in DOMAIN g.refreshes
      BY <1>2, <2>1, <3>1 DEF Good, Base, RefreshesOk
    <3>2. CASE k = n + 1
      BY <1>2, <2>2, <3>2
    <3> QED
      BY <1>7, <3>1, <3>2
  <2>4. ASSUME NEW k \in DOMAIN x, NEW j \in DOMAIN x, j # k
        PROVE  x[j].cand.addr # x[k].cand.addr
    <3>1. CASE k \in DOMAIN g.refreshes /\ j \in DOMAIN g.refreshes
      BY <1>2, <2>4, <3>1 DEF Good, Base, RefreshesOk
    <3>2. CASE k = n + 1 /\ j \in DOMAIN g.refreshes
      BY <1>2, <3>2
    <3>3. CASE j = n + 1 /\ k \in DOMAIN g.refreshes
      BY <1>2, <3>3
    <3> QED
      BY <1>7, <2>4, <3>1, <3>2, <3>3
  <2> QED
    BY <1>6, <2>3, <2>4 DEF RefreshesOk
<1>12. AllocsOk(h)
  <2>1. RefreshesOf(h) = RefreshesOf(g) \cup {r}
    BY <1>2, <1>6, <1>7, <1>8 DEF RefreshesOf
  <2>2. g.allocs = {q.cand.addr : q \in RefreshesOf(g)}
    BY DEF Good, Base, AllocsOk
  <2> QED
    BY <1>6, <2>1, <2>2 DEF AllocsOk, y
<1>13. AllTimed(h) /\ Started(h) /\ Scheduled(h)
  BY <1>2, <1>6, <1>7 DEF Good, AllTimed, Started, Scheduled
<1> QED
  BY <1>5, <1>6, <1>9, <1>10, <1>11, <1>12, <1>13 DEF Good, Base, h

\* The fields that the invariant does not mention.
LEMMA OtherFields ==
  ASSUME NEW g, NEW h \in Agent, Good(g), h.disc = g.disc, h.refreshes = g.refreshes,
         h.allocs = g.allocs, h.uids = g.uids, h.streams = g.streams, h.compat = g.compat,
         h.foundations = g.foundations, h.timer = g.timer, h.unsched = g.unsched, h.bad = g.bad
  PROVE  Good(h)
<1>1. CandsOk(h)
  BY FewerCands DEF Good, Base
<1>2. Carries(g, h)
  BY <1>1 DEF Carries
<1>3. Base(h) /\ AllTimed(h) /\ Started(h)
  BY <1>2, CarriesKeeps DEF Good
<1>4. Scheduled(h)
  BY DEF Good, Scheduled
<1> QED
  BY <1>3, <1>4 DEF Good

\* An item that has its answer.
LEMMA ItemFinished ==
  ASSUME NEW g, Good(g), NEW i \in DOMAIN g.disc, NEW it, it = g.disc[i],
         it.sent = {}, it.pending
  PROVE  LET h == [g EXCEPT !.disc[i] = Finish(it)]
         IN  /\ Good(h) /\ h.streams = g.streams /\ h.refreshes = g.refreshes
             /\ h.uids = g.uids /\ h.disc = [g.disc EXCEPT ![i] = Finish(it)]
             /\ h.disc[i].done
<1> DEFINE f == Finish(it)
<1>1. g \in Agent /\ it \in Item /\ g.disc \in Seq(Item) /\ Base(g)
  BY AgentFields DEF Good, Base
<1>2. f = [it EXCEPT !.msg = 0, !.done = TRUE]
  BY DEF Finish
<1>3. f \in Item /\ f.sent = {} /\ f.pending /\ f.done /\ f.uid = it.uid /\ f.stream = it.stream
      /\ f.msg = 0
  <2>1. 0 \in 0..2
    OBVIOUS
  <2> QED
    BY <1>1, <1>2, <2>1 DEF Item
<1> HIDE DEF f
<1>4. ItemOk(f)
  BY <1>3 DEF ItemOk
<1> DEFINE h == [g EXCEPT !.disc[i] = f]
<1>5. /\ Base(h)
      /\ AllTimed(g) => AllTimed(h)
      /\ Started(g) => Started(h)
      /\ Scheduled(g) => Scheduled(h)
      /\ h.disc = [g.disc EXCEPT ![i] = f]
      /\ h.streams = g.streams /\ h.refreshes = g.refreshes /\ h.uids = g.uids
  BY <1>1, <1>3, <1>4, ItemReplaced
<1> HIDE DEF h
<1>6. h.disc[i] = f
  BY <1>1, <1>5
<1> QED
  BY <1>3, <1>5, <1>6 DEF Good, h, f

\* The item's agent accepts the answer it waits for.
LEMMA Accepted ==
  ASSUME NEW g, Good(g), NEW i \in DOMAIN g.disc, Awaits(g.disc[i])
  PROVE  LET h == Accept(g, i)
             it == h.disc[i]
         IN  /\ Good(h) /\ h.streams = g.streams /\ h.refreshes = g.refreshes
             /\ h.timer = g.timer /\ h.upnpTimer = g.upnpTimer
             /\ it \in Item /\ it.sent = {} /\ it.pending /\ ~it.done
             /\ it.stream \in Streams /\ h.streams[it.stream].alive
             /\ i \in DOMAIN h.disc
<1> DEFINE o == g.disc[i]
           S == o.sent \ {o.msg}
           n == [o EXCEPT !.sent = S]
           h == Accept(g, i)
<1>1. g \in Agent /\ o \in Item /\ ItemOk(o) /\ g.disc \in Seq(Item) /\ Base(g)
  BY AgentFields DEF Good, Base, ItemsOk
<1>2. o.pending /\ ~o.done /\ S = {} /\ g.streams[o.stream].alive
  BY <1>1 DEF Awaits, ItemOk, Good, Base, ItemsOk
<1>3. h = [g EXCEPT !.disc[i] = n]
  BY <1>1 DEF Accept, Agent
<1> HIDE DEF S, o
<1>4. n \in Item /\ n.sent = {} /\ n.pending /\ ~n.done /\ n.uid = o.uid /\ n.stream = o.stream
  BY <1>1, <1>2 DEF Item
<1>5. ItemOk(n)
  BY <1>4 DEF ItemOk
<1> HIDE DEF n, h
<1>6. /\ Base(h)
      /\ AllTimed(g) => AllTimed(h)
      /\ Started(g) => Started(h)
      /\ Scheduled(g) => Scheduled(h)
      /\ h.disc = [g.disc EXCEPT ![i] = n]
      /\ h.streams = g.streams /\ h.refreshes = g.refreshes
      /\ h.timer = g.timer /\ h.upnpTimer = g.upnpTimer
  BY <1>1, <1>2, <1>3, <1>4, <1>5, ItemReplaced DEF o
<1>7. h.disc[i] = n /\ i \in DOMAIN h.disc
  BY <1>1, <1>6
<1>8. n.stream \in Streams /\ h.streams[n.stream].alive
  BY <1>1, <1>2, <1>4, <1>6 DEF Item
<1> QED
  BY <1>4, <1>6, <1>7, <1>8 DEF Good, h

-----------------------------------------------------------------------------
\* The actions

LEMMA GrownGood ==
  ASSUME NEW g, NEW h, Good(g), Grown(g, h)
  PROVE  Good(h) /\ Quiet(g, h)
<1>1. Good(h)
  BY GrownKeeps DEF Good
<1>2. Quiet(g, h)
  BY DEF Grown, Quiet
<1> QED
  BY <1>1, <1>2

LEMMA DiscoveryReplyStep ==
  ASSUME Good(agent), NEW i, NEW res \in DiscoveryResults, DiscoveryReply(i, res)
  PROVE  Good(agent') /\ Quiet(agent, agent')
<1> DEFINE g == Accept(agent, i)
           it == g.disc[i]
           s == it.stream
           addr == IF res = "MAPPED" THEN MappedAddr(s) ELSE HostAddr(s)
           a == discovery_add_server_reflexive_candidate(g, s, "UDP", addr)
           b == IF g.tcp THEN discovery_discover_tcp_server_reflexive_candidates(a, s, addr) ELSE a
<1>1. i \in DOMAIN agent.disc /\ Awaits(agent.disc[i])
  BY DEF DiscoveryReply
<1>2. agent' = CASE res = "ALTERNATE_SERVER" -> [g EXCEPT !.disc[i].pending = FALSE]
                 [] res \in {"MAPPED", "HOST"} -> [b EXCEPT !.disc[i] = Finish(it)]
                 [] res = "ERROR" -> [g EXCEPT !.disc[i] = Finish(it)]
                 [] res = "INVALID" -> g
  BY DEF DiscoveryReply
<1>3. /\ Good(g) /\ g.streams = agent.streams
      /\ it \in Item /\ it.sent = {} /\ it.pending /\ ~it.done
      /\ s \in Streams /\ g.streams[s].alive /\ i \in DOMAIN g.disc
  BY <1>1, Accepted
<1> HIDE DEF g
<1>4. CASE res = "ALTERNATE_SERVER"
  <2> DEFINE n == [it EXCEPT !.pending = FALSE]
             h == [g EXCEPT !.disc[i] = n]
  <2>1. g \in Agent /\ g.disc \in Seq(Item) /\ Base(g)
    BY <1>3, AgentFields DEF Good, Base
  <2>2. agent' = h
    BY <1>2, <1>3, <1>4, <2>1 DEF Agent
  <2>3. n \in Item /\ n.sent = {} /\ ~n.done /\ n.uid = it.uid /\ n.stream = it.stream
    BY <1>3 DEF Item
  <2> HIDE DEF n
  <2>4. ItemOk(n)
    BY <2>3 DEF ItemOk
  <2>5. /\ Base(h)
        /\ AllTimed(g) => AllTimed(h)
        /\ Started(g) => Started(h)
        /\ Scheduled(g) => Scheduled(h)
        /\ h.streams = g.streams
    BY <1>3, <2>1, <2>3, <2>4, ItemReplaced
  <2> HIDE DEF h
  <2> QED
    BY <1>3, <2>2, <2>5 DEF Good, Quiet
<1>5. CASE res \in {"MAPPED", "HOST"}
  <2>1. agent' = [b EXCEPT !.disc[i] = Finish(it)]
    BY <1>2, <1>5
  <2>2. addr \in Addr /\ "UDP" \in TransportType
    BY <1>3 DEF Addr, MappedAddr, HostAddr, TransportType
  <2>3. g \in Agent /\ CandsOk(g)
    BY <1>3 DEF Good, Base
  <2> HIDE DEF addr
  <2>4. Grown(g, a)
    BY <1>3, <2>2, <2>3, ReflexiveAdded
  <2>5. Grown(g, b)
    <3>1. a \in Agent /\ CandsOk(a)
      BY <2>4 DEF Grown
    <3> HIDE DEF a
    <3>2. Grown(a, discovery_discover_tcp_server_reflexive_candidates(a, s, addr))
      BY <1>3, <2>2, <3>1, TcpReflexiveAdded
    <3> QED
      BY <2>4, <3>2, GrownTransitive
  <2> HIDE DEF b
  <2>6. Good(b) /\ Quiet(g, b)
    BY <1>3, <2>5, GrownGood
  <2>7. b.disc = g.disc /\ \A t \in Streams : b.streams[t].gathering = g.streams[t].gathering
    BY <2>5 DEF Grown
  <2> DEFINE h == [b EXCEPT !.disc[i] = Finish(it)]
  <2>8. Good(h) /\ h.streams = b.streams
    BY <1>3, <2>6, <2>7, ItemFinished
  <2> HIDE DEF h
  <2>9. Quiet(agent, h)
    BY <1>3, <2>7, <2>8 DEF Quiet
  <2> QED
    BY <2>1, <2>8, <2>9 DEF h
<1>6. CASE res = "ERROR"
  <2> DEFINE h == [g EXCEPT !.disc[i] = Finish(it)]
  <2>1. agent' = h
    BY <1>2, <1>6
  <2>2. Good(h) /\ h.streams = g.streams
    BY <1>3, ItemFinished
  <2> HIDE DEF h
  <2> QED
    BY <1>3, <2>1, <2>2 DEF Quiet
<1>7. CASE res = "INVALID"
  <2>1. agent' = g
    BY <1>2, <1>7
  <2> QED
    BY <1>3, <2>1 DEF Quiet
<1> QED
  BY <1>4, <1>5, <1>6, <1>7 DEF DiscoveryResults

\* The end of a successful RelayReply: the candidate is added and, with it,
\* the refresh that keeps the allocation.
RelayKept(g, i, it, lifetime) ==
    LET relay == discovery_add_relay_candidate(g, it.stream, it.uid, it.turn)
        kept == IF ~relay.ok \/ g.compat = "OC2007" THEN relay.g
                ELSE [priv_add_new_turn_refresh(relay.g, it, relay.c, lifetime)
                         EXCEPT !.allocs = @ \cup {RelayAddr(it.uid)}]
    IN  [kept EXCEPT !.disc[i] = Finish(it)]

LEMMA AllocationKept ==
  ASSUME NEW g, Good(g), NEW i \in DOMAIN g.disc, NEW it, it = g.disc[i], it.sent = {},
         it.pending, ~it.done, NEW lifetime \in Lifetimes
  PROVE  /\ Good(RelayKept(g, i, it, lifetime))
         /\ \A t \in Streams : RelayKept(g, i, it, lifetime).streams[t].gathering
                                = g.streams[t].gathering
<1> DEFINE s == it.stream
           u == it.uid
           relay == discovery_add_relay_candidate(g, s, u, it.turn)
           f == relay.g
           c == relay.c
           r == [stream |-> s, cand |-> c, msg |-> 0, sent |-> it.sent, left |-> 0,
                 realm |-> it.realm, asked |-> FALSE, lifetime |-> lifetime,
                 timer |-> TRUE, delay |-> Delay(lifetime), tick |-> FALSE]
           h == RelayKept(g, i, it, lifetime)
           e == [f EXCEPT !.disc[i] = Finish(it)]
           k == WithRefresh(e, r, u)
<1>1. g \in Agent /\ CandsOk(g) /\ it \in Item /\ g.uids \in Nat /\ g.disc \in Seq(Item)
      /\ \A j \in DOMAIN g.disc : g.disc[j] \in Item
  BY AgentFields DEF Good, Base
<1>2. s \in Streams /\ u \in Nat /\ it.turn \in Turns /\ it.realm \in BOOLEAN
  BY <1>1 DEF Item
<1>3. /\ u < g.uids /\ g.streams[s].alive /\ g.streams[s].started
      /\ \A n \in DOMAIN g.refreshes : g.refreshes[n].cand.addr # RelayAddr(u)
      /\ \A j \in DOMAIN g.disc : j # i => g.disc[j].uid # u
  BY DEF Good, Base, ItemsOk, Started
<1>4. /\ Grown(g, f)
      /\ c \in Cand /\ c.type = "RELAYED" /\ c.stream = s /\ c.addr = RelayAddr(u)
      /\ relay.ok \in BOOLEAN
      /\ relay.ok => c \in f.streams[s].cands
  <2>1. RelayAddr(u) \in Addr /\ "UDP" \in TransportType
    BY <1>2 DEF RelayAddr, Addr, TransportType
  <2> QED
    BY <1>1, <1>2, <2>1, CandidateAdded DEF discovery_add_relay_candidate
<1>5. r \in Refresh /\ r.sent = {} /\ Timed(r) /\ r.cand = c /\ r.stream = s
  <2>1. Delay(lifetime) \in Nat /\ Delay(lifetime) < lifetime * 1000 /\ 0 \in 0..2
        /\ it.sent \in SUBSET (1..2)
    BY <1>1, DelayInTime DEF Item
  <2> HIDE DEF c, s
  <2>2. r \in Refresh
    BY <1>2, <1>4, <2>1 DEF Refresh
  <2>3. Timed(r)
    BY <2>1 DEF Timed
  <2> QED
    BY <2>2, <2>3
<1>6. h = IF ~relay.ok \/ g.compat = "OC2007" THEN e ELSE k
  <2>1. priv_add_new_turn_refresh(f, it, c, lifetime) = [f EXCEPT !.refreshes = Append(@, r)]
    BY DEF priv_add_new_turn_refresh
  <2>2. f \in Agent
    BY <1>4 DEF Grown
  <2>4. h = [(IF ~relay.ok \/ g.compat = "OC2007" THEN f
              ELSE [priv_add_new_turn_refresh(f, it, c, lifetime)
                       EXCEPT !.allocs = @ \cup {RelayAddr(u)}]) EXCEPT !.disc[i] = Finish(it)]
    BY DEF RelayKept
  <2> HIDE DEF f, r, c, h, relay
  <2>3. [[[f EXCEPT !.refreshes = Append(@, r)] EXCEPT !.allocs = @ \cup {RelayAddr(u)}]
            EXCEPT !.disc[i] = Finish(it)] = k
    BY <2>2 DEF Agent, WithRefresh
  <2> QED
    BY <2>1, <2>3, <2>4
<1> HIDE DEF relay, r, h
<1>7. Good(f) /\ f.disc = g.disc /\ f.refreshes = g.refreshes /\ f.uids = g.uids
      /\ f.streams[s].alive /\ f.streams[s].started
      /\ \A t \in Streams : f.streams[t].gathering = g.streams[t].gathering
  BY <1>2, <1>3, <1>4, GrownGood DEF Grown
<1> HIDE DEF f, c
<1>8. /\ Good(e) /\ e.streams = f.streams /\ e.refreshes = f.refreshes
      /\ e.uids = f.uids /\ e.disc = [f.disc EXCEPT ![i] = Finish(it)]
      /\ e.disc[i].done
  BY <1>7, ItemFinished
<1> HIDE DEF e
<1>9. \A j \in DOMAIN e.disc : ~e.disc[j].done => e.disc[j].uid # u
  BY <1>1, <1>3, <1>7, <1>8
<1>10. relay.ok => Good(k) /\ k.streams = e.streams
  <2> SUFFICES ASSUME relay.ok PROVE Good(k) /\ k.streams = e.streams
    OBVIOUS
  <2>1. r.cand \in e.streams[r.stream].cands /\ e.streams[r.stream].alive
        /\ e.streams[r.stream].started /\ u < e.uids
        /\ \A n \in DOMAIN e.refreshes : e.refreshes[n].cand.addr # RelayAddr(u)
    BY <1>3, <1>4, <1>5, <1>7, <1>8
  <2>2. r.cand.type = "RELAYED" /\ r.cand.addr = RelayAddr(u) /\ u \in Nat
    BY <1>2, <1>4, <1>5
  <2> HIDE DEF u, s
  <2> QED
    BY <1>5, <1>8, <1>9, <2>1, <2>2, RefreshAdded
<1> HIDE DEF k
<1>11. Good(h) /\ \A t \in Streams : h.streams[t].gathering = g.streams[t].gathering
  BY <1>4, <1>6, <1>7, <1>8, <1>10
<1> QED
  BY <1>11 DEF h

LEMMA RelayReplyStep ==
  ASSUME Good(agent), NEW i, NEW res \in RelayResults, NEW lifetime \in Lifetimes,
         RelayReply(i, res, lifetime)
  PROVE  Good(agent') /\ Quiet(agent, agent')
<1> DEFINE g == Accept(agent, i)
           it == g.disc[i]
           s == it.stream
           a == IF res = "RELAY_SUCCESS" THEN g
                ELSE discovery_add_server_reflexive_candidate(g, s, "UDP", MappedAddr(s))
           b == IF res = "MAPPED_SUCCESS" /\ g.tcp
                THEN discovery_discover_tcp_server_reflexive_candidates(a, s, MappedAddr(s))
                ELSE a
           relay == discovery_add_relay_candidate(b, s, it.uid, it.turn)
           kept == IF ~relay.ok \/ g.compat = "OC2007" THEN relay.g
                   ELSE [priv_add_new_turn_refresh(relay.g, it, relay.c, lifetime)
                            EXCEPT !.allocs = @ \cup {RelayAddr(it.uid)}]
           h == [kept EXCEPT !.disc[i] = Finish(it)]
<1>1. i \in DOMAIN agent.disc /\ Awaits(agent.disc[i])
  BY DEF RelayReply
<1>2. agent' = CASE res = "ALTERNATE_SERVER" -> [g EXCEPT !.disc[i].pending = FALSE]
                 [] res \in {"RELAY_SUCCESS", "MAPPED_SUCCESS"} -> h
                 [] res \in {"ERROR", "UNAUTHORIZED", "STALE_NONCE"} ->
                       IF AskedAgain(g, it, res)
                       THEN [g EXCEPT !.disc[i].realm = TRUE, !.disc[i].pending = FALSE]
                       ELSE [g EXCEPT !.disc[i] = Finish(it)]
                 [] res = "INVALID" -> g
  BY DEF RelayReply
<1>3. /\ Good(g) /\ g.streams = agent.streams
      /\ it \in Item /\ it.sent = {} /\ it.pending /\ ~it.done
      /\ s \in Streams /\ g.streams[s].alive /\ i \in DOMAIN g.disc
  BY <1>1, Accepted
<1> HIDE DEF g
<1>4. g \in Agent /\ g.disc \in Seq(Item) /\ Base(g) /\ CandsOk(g)
  BY <1>3, AgentFields DEF Good, Base
\* The item is put back, with or without a realm
<1>5. ASSUME NEW n, n \in {[it EXCEPT !.pending = FALSE],
                           [it EXCEPT !.realm = TRUE, !.pending = FALSE]},
             agent' = [g EXCEPT !.disc[i] = n]
      PROVE  Good(agent') /\ Quiet(agent, agent')
  <2>1. n \in Item /\ n.sent = {} /\ ~n.done /\ n.uid = it.uid /\ n.stream = it.stream
    BY <1>3, <1>5 DEF Item
  <2>2. ItemOk(n)
    BY <2>1 DEF ItemOk
  <2> DEFINE k == [g EXCEPT !.disc[i] = n]
  <2>3. /\ Base(k)
        /\ AllTimed(g) => AllTimed(k)
        /\ Started(g) => Started(k)
        /\ Scheduled(g) => Scheduled(k)
        /\ k.streams = g.streams
    BY <1>3, <1>4, <2>1, <2>2, ItemReplaced
  <2> HIDE DEF k
  <2> QED
    BY <1>3, <1>5, <2>3 DEF Good, Quiet, k
<1>6. ASSUME agent' = [g EXCEPT !.disc[i] = Finish(it)]
      PROVE  Good(agent') /\ Quiet(agent, agent')
  <2> DEFINE k == [g EXCEPT !.disc[i] = Finish(it)]
  <2>1. Good(k) /\ k.streams = g.streams
    BY <1>3, ItemFinished
  <2> HIDE DEF k
  <2> QED
    BY <1>3, <1>6, <2>1 DEF Quiet, k
<1>7. CASE res = "ALTERNATE_SERVER"
  <2>1. agent' = [g EXCEPT !.disc[i] = [it EXCEPT !.pending = FALSE]]
    BY <1>2, <1>4, <1>7 DEF Agent
  <2> QED
    BY <1>5, <2>1
<1>8. CASE res \in {"RELAY_SUCCESS", "MAPPED_SUCCESS"}
  <2>1. agent' = h
    BY <1>2, <1>8
  <2>2. MappedAddr(s) \in Addr /\ "UDP" \in TransportType
    BY <1>3 DEF Addr, MappedAddr, TransportType
  <2>3. Grown(g, a)
    BY <1>3, <1>4, <2>2, ReflexiveAdded, GrownReflexive
  <2>4. Grown(g, b)
    <3>1. a \in Agent /\ CandsOk(a)
      BY <2>3 DEF Grown
    <3> HIDE DEF a
    <3>2. Grown(a, discovery_discover_tcp_server_reflexive_candidates(a, s, MappedAddr(s)))
      BY <1>3, <2>2, <3>1, TcpReflexiveAdded
    <3> QED
      BY <2>3, <3>2, GrownTransitive
  <2> HIDE DEF b
  <2>5. Good(b) /\ b.disc = g.disc /\ b.compat = g.compat
        /\ \A t \in Streams : b.streams[t].gathering = g.streams[t].gathering
    BY <1>3, <2>4, GrownGood DEF Grown
  <2>6. it = b.disc[i] /\ i \in DOMAIN b.disc
    BY <1>3, <2>5
  <2>7. Good(h) /\ \A t \in Streams : h.streams[t].gathering = b.streams[t].gathering
    <3>1. h = RelayKept(b, i, it, lifetime)
      BY <2>5 DEF RelayKept
    <3> HIDE DEF it, h
    <3> QED
      BY <1>3, <2>5, <2>6, <3>1, AllocationKept
  <2> HIDE DEF h
  <2>8. Quiet(agent, h)
    BY <1>3, <2>5, <2>7 DEF Quiet
  <2> QED
    BY <2>1, <2>7, <2>8
<1>9. CASE res \in {"ERROR", "UNAUTHORIZED", "STALE_NONCE"}
  <2>1. CASE AskedAgain(g, it, res)
    <3>1. agent' = [g EXCEPT !.disc[i].realm = TRUE, !.disc[i].pending = FALSE]
      BY <1>2, <1>9, <2>1
    <3>2. agent' = [g EXCEPT !.disc[i] = [it EXCEPT !.realm = TRUE, !.pending = FALSE]]
      BY <1>3, <1>4, <3>1 DEF Agent
    <3> QED
      BY <1>5, <3>2
  <2>2. CASE ~AskedAgain(g, it, res)
    <3>1. agent' = [g EXCEPT !.disc[i] = Finish(it)]
      BY <1>2, <1>9, <2>2
    <3> QED
      BY <1>6, <3>1
  <2> QED
    BY <2>1, <2>2
<1>10. CASE res = "INVALID"
  <2>1. agent' = g
    BY <1>2, <1>10
  <2> QED
    BY <1>3, <2>1 DEF Quiet
<1> QED
  BY <1>7, <1>8, <1>9, <1>10 DEF RelayResults

LEMMA TickStep ==
  ASSUME Good(agent), NEW expired, priv_discovery_tick(expired)
  PROVE  Good(agent') /\ Quiet(agent, agent')
<1> DEFINE t == priv_discovery_tick_unlocked(agent, expired)
           h == t.g
<1>1. agent.timer /\ agent' = h
  BY DEF priv_discovery_tick
<1>2. Base(agent) /\ AllTimed(agent) /\ Started(agent) /\ ~agent.bad
  BY DEF Good, Scheduled
<1>3. /\ t.more \in BOOLEAN
      /\ Base(h) /\ h.bad = agent.bad /\ Quiet(agent, h)
      /\ AllTimed(h) /\ Started(h)
      /\ t.more => h.disc # <<>> /\ h.timer = agent.timer
      /\ ~t.more => h.disc = <<>> /\ h.unsched = 0 /\ ~h.timer
  BY <1>2, Ticked
<1> HIDE DEF t, h
<1>4. Scheduled(h)
  <2>1. h.unsched = 0 => ~(h.unsched > 0)
    OBVIOUS
  <2>2. ~h.bad /\ (t.more => h.timer)
    BY <1>1, <1>2, <1>3
  <2>3. (h.timer <=> h.disc # <<>>) /\ (h.unsched > 0 => h.disc # <<>>)
    BY <1>3, <2>1, <2>2
  <2> QED
    BY <2>2, <2>3 DEF Scheduled
<1> QED
  BY <1>1, <1>3, <1>4 DEF Good

\* A refresh that is replaced in place, with its timers set.
LEMMA RefreshStep ==
  ASSUME NEW g, Good(g), NEW i \in DOMAIN g.refreshes, NEW r \in Refresh,
         r.sent \subseteq {r.msg}, r.timer => r.sent = {}, Timed(r),
         r.cand = g.refreshes[i].cand, r.stream = g.refreshes[i].stream,
         NEW h, h = [g EXCEPT !.refreshes[i] = r]
  PROVE  Good(h) /\ Quiet(g, h)
<1>1. /\ Base(h)
      /\ AllTimed(g) /\ Timed(r) => AllTimed(h)
      /\ Started(g) => Started(h)
      /\ Scheduled(g) => Scheduled(h)
      /\ h.streams = g.streams
  BY RefreshReplaced DEF Good
<1> QED
  BY <1>1 DEF Good, Quiet

\* A refresh that is given up, whatever became of its request.
LEMMA RefreshCancelled ==
  ASSUME NEW g, Good(g), NEW i \in DOMAIN g.refreshes, NEW r \in Refresh,
         r.sent = {}, r.cand = g.refreshes[i].cand, r.stream = g.refreshes[i].stream
  PROVE  LET h == refresh_cancel([g EXCEPT !.refreshes[i] = r], r)
         IN  Good(h) /\ Quiet(g, h)
<1> DEFINE k == [g EXCEPT !.refreshes[i] = r]
           S == {r}
           h == FreeRefreshes(k, S)
<1>1. /\ Base(k)
      /\ Started(g) => Started(k)
      /\ Scheduled(g) => Scheduled(k)
      /\ k.refreshes = [g.refreshes EXCEPT ![i] = r]
      /\ k.streams = g.streams
  BY RefreshReplaced DEF Good
<1>2. g.refreshes \in Seq(Refresh)
  BY AgentFields DEF Good, Base
<1> HIDE DEF k
<1>3. k.refreshes[i] = r /\ DOMAIN k.refreshes = DOMAIN g.refreshes
      /\ \A j \in DOMAIN g.refreshes : j # i => k.refreshes[j] = g.refreshes[j]
  BY <1>1, <1>2
<1>4. S \subseteq RefreshesOf(k)
  BY <1>3 DEF RefreshesOf
<1>5. \A q \in RefreshesOf(k) \ S : Timed(q)
  BY <1>3 DEF RefreshesOf, Good, AllTimed
<1> HIDE DEF S
<1>6. /\ Base(h)
      /\ (\A q \in RefreshesOf(k) \ S : Timed(q)) => AllTimed(h)
      /\ Started(k) => Started(h)
      /\ Scheduled(k) => Scheduled(h)
      /\ h.streams = k.streams
  BY <1>1, <1>4, RefreshesFreed
<1> HIDE DEF h
<1>7. Good(h) /\ h.streams = g.streams
  BY <1>1, <1>5, <1>6 DEF Good
<1>8. h = refresh_cancel(k, r)
  BY DEF h, S, refresh_cancel
<1>9. Good(h) /\ Quiet(g, h)
  BY <1>7 DEF Quiet
<1> QED
  BY <1>8, <1>9 DEF k

LEMMA RefreshTickStep ==
  ASSUME Good(agent), NEW i, priv_turn_allocate_refresh_tick(i)
  PROVE  Good(agent') /\ Quiet(agent, agent')
<1> DEFINE q == agent.refreshes[i]
           p == [q EXCEPT !.timer = FALSE]
           v == SendRefresh(p)
<1>1. i \in DOMAIN agent.refreshes /\ q.timer
  BY DEF priv_turn_allocate_refresh_tick
<1>2. agent.refreshes \in Seq(Refresh) /\ q \in Refresh /\ agent \in Agent
  BY <1>1, AgentFields DEF Good, Base
<1>3. agent' = [agent EXCEPT !.refreshes[i] = v]
  BY DEF priv_turn_allocate_refresh_tick
<1>4. q.sent = {}
  BY <1>1 DEF Good, Base, RefreshesOk
<1>5. p \in Refresh /\ p.sent = {} /\ ~p.timer /\ p.cand = q.cand /\ p.stream = q.stream
  BY <1>2, <1>4 DEF Refresh
<1> HIDE DEF p
<1>6. /\ v \in Refresh /\ v.cand = p.cand /\ v.stream = p.stream
      /\ v.sent \subseteq {v.msg} /\ ~v.timer /\ Timed(v)
  BY <1>5, RefreshSent
<1> HIDE DEF v
<1> QED
  BY <1>1, <1>3, <1>5, <1>6, RefreshStep

\* A request that its agent no longer waits for.
LEMMA Forgotten ==
  ASSUME NEW r \in Refresh, r.sent \subseteq {r.msg}
  PROVE  /\ Forget(r) \in Refresh /\ Forget(r).sent = {}
         /\ Forget(r).cand = r.cand /\ Forget(r).stream = r.stream
<1>1. r.sent \ {r.msg} = {}
  OBVIOUS
<1>2. Forget(r) = [r EXCEPT !.msg = 0, !.sent = {}]
  BY <1>1 DEF Forget, Refresh
<1>3. {} \in SUBSET (1..2) /\ 0 \in 0..2
  OBVIOUS
<1> QED
  BY <1>2, <1>3 DEF Refresh

LEMMA RetransmissionsStep ==
  ASSUME Good(agent), NEW i, priv_turn_allocate_refresh_retransmissions_tick(i)
  PROVE  Good(agent') /\ Quiet(agent, agent')
<1> DEFINE r == agent.refreshes[i]
           f == Forget(r)
           k == [agent EXCEPT !.refreshes[i] = f]
<1>1. i \in DOMAIN agent.refreshes
      /\ agent' = IF r.left = 0 THEN refresh_cancel(k, f)
                  ELSE [agent EXCEPT !.refreshes[i].left = @ - 1]
  BY DEF priv_turn_allocate_refresh_retransmissions_tick
<1>2. r \in Refresh /\ agent.refreshes \in Seq(Refresh) /\ agent \in Agent
  BY <1>1, AgentFields DEF Good, Base
<1>3. r.sent \subseteq {r.msg} /\ (r.timer => r.sent = {}) /\ Timed(r)
  BY <1>1 DEF Good, Base, RefreshesOk, AllTimed
<1>4. CASE r.left = 0
  <2>1. f \in Refresh /\ f.sent = {} /\ f.cand = r.cand /\ f.stream = r.stream
    BY <1>2, <1>3, Forgotten
  <2>2. agent' = refresh_cancel(k, f)
    BY <1>1, <1>4
  <2> HIDE DEF f
  <2>3. Good(refresh_cancel(k, f)) /\ Quiet(agent, refresh_cancel(k, f))
    BY <1>1, <2>1, RefreshCancelled
  <2> QED
    BY <2>2, <2>3
<1>5. CASE r.left # 0
  <2> DEFINE n == r.left - 1
             v == [r EXCEPT !.left = n]
  <2>1. agent' = [agent EXCEPT !.refreshes[i].left = @ - 1]
    BY <1>1, <1>5
  <2>2. agent' = [agent EXCEPT !.refreshes[i] = v]
    BY <1>1, <1>2, <2>1 DEF Agent
  <2>3. n \in Nat
    BY <1>2, <1>5 DEF Refresh
  <2> HIDE DEF n
  <2>4. /\ v \in Refresh /\ v.sent = r.sent /\ v.msg = r.msg /\ v.timer = r.timer
        /\ v.cand = r.cand /\ v.stream = r.stream /\ v.tick = r.tick
        /\ v.delay = r.delay /\ v.lifetime = r.lifetime
    BY <1>2, <2>3 DEF Refresh
  <2> HIDE DEF v
  <2>5. Timed(v)
    BY <1>3, <2>4 DEF Timed
  <2> QED
    BY <1>1, <1>3, <2>2, <2>4, <2>5, RefreshStep
<1> QED
  BY <1>4, <1>5

LEMMA RefreshReplyStep ==
  ASSUME Good(agent), NEW i, NEW res \in RefreshResults, NEW lifetime \in Lifetimes,
         RefreshReply(i, res, lifetime)
  PROVE  Good(agent') /\ Quiet(agent, agent')
<1> DEFINE q == agent.refreshes[i]
           r == [q EXCEPT !.sent = @ \ {q.msg}]
           g == [agent EXCEPT !.refreshes[i] = r]
           p == [r EXCEPT !.realm = TRUE]
<1>1. i \in DOMAIN agent.refreshes /\ q.msg # 0 /\ q.msg \in q.sent
  BY DEF RefreshReply, Awaits
<1>2. agent' = CASE res = "RELAY_SUCCESS" ->
                      [g EXCEPT !.refreshes[i] = Refreshed(r, lifetime)]
                 [] res \in {"ERROR", "UNAUTHORIZED", "STALE_NONCE"} ->
                      IF g.compat = "RFC5245" /\ AskedAgain(g, r, res)
                      THEN [g EXCEPT !.refreshes[i] = SendRefresh(p)]
                      ELSE refresh_cancel(g, r)
                 [] res = "INVALID" -> g
  BY DEF RefreshReply
<1>3. q \in Refresh /\ agent.refreshes \in Seq(Refresh) /\ agent \in Agent
  BY <1>1, AgentFields DEF Good, Base
<1>4. q.sent \subseteq {q.msg} /\ (q.timer => q.sent = {}) /\ Timed(q)
  BY <1>1 DEF Good, Base, RefreshesOk, AllTimed
<1>5. ~q.timer /\ q.tick
  BY <1>1, <1>4 DEF Timed
<1>6. /\ r \in Refresh /\ r.sent = {} /\ r.cand = q.cand /\ r.stream = q.stream
      /\ r.msg = q.msg /\ r.timer = q.timer /\ r.tick = q.tick
  <2>1. q.sent \ {q.msg} = {} /\ {} \in SUBSET (1..2)
    BY <1>4
  <2>2. r = [q EXCEPT !.sent = {}]
    BY <2>1
  <2> QED
    BY <1>3, <2>1, <2>2 DEF Refresh
<1>7. \A v : [g EXCEPT !.refreshes[i] = v] = [agent EXCEPT !.refreshes[i] = v]
  <2> HIDE DEF r
  <2> QED
    BY <1>1, <1>3 DEF Agent
<1> HIDE DEF r
<1>8. CASE res = "RELAY_SUCCESS"
  <2> DEFINE v == Refreshed(r, lifetime)
             d == Delay(lifetime)
  <2>1. d \in Nat /\ d < lifetime * 1000
    BY DelayInTime
  <2>2. v = [r EXCEPT !.timer = TRUE, !.delay = d, !.lifetime = lifetime, !.tick = FALSE]
    BY DEF Refreshed
  <2> HIDE DEF d, v
  <2>3. /\ v \in Refresh /\ v.sent = {} /\ v.cand = q.cand /\ v.stream = q.stream
        /\ v.timer /\ v.delay = d /\ v.lifetime = lifetime
    BY <1>6, <2>1, <2>2 DEF Refresh
  <2>4. Timed(v)
    BY <2>1, <2>3 DEF Timed
  <2>5. agent' = [agent EXCEPT !.refreshes[i] = v]
    BY <1>2, <1>7, <1>8 DEF v
  <2> QED
    BY <1>1, <2>3, <2>4, <2>5, RefreshStep
<1>9. CASE res \in {"ERROR", "UNAUTHORIZED", "STALE_NONCE"}
  <2>1. CASE g.compat = "RFC5245" /\ AskedAgain(g, r, res)
    <3> DEFINE v == SendRefresh(p)
    <3>1. p \in Refresh /\ p.sent = {} /\ ~p.timer /\ p.cand = q.cand /\ p.stream = q.stream
      BY <1>5, <1>6 DEF Refresh
    <3>2. agent' = [agent EXCEPT !.refreshes[i] = v]
      BY <1>2, <1>7, <1>9, <2>1
    <3> HIDE DEF p
    <3>3. /\ v \in Refresh /\ v.cand = p.cand /\ v.stream = p.stream
          /\ v.sent \subseteq {v.msg} /\ ~v.timer /\ Timed(v)
      BY <3>1, RefreshSent
    <3> HIDE DEF v
    <3> QED
      BY <1>1, <3>1, <3>2, <3>3, RefreshStep
  <2>2. CASE ~(g.compat = "RFC5245" /\ AskedAgain(g, r, res))
    <3>1. agent' = refresh_cancel(g, r)
      BY <1>2, <1>9, <2>2
    <3>2. Good(refresh_cancel(g, r)) /\ Quiet(agent, refresh_cancel(g, r))
      BY <1>1, <1>6, RefreshCancelled
    <3> QED
      BY <3>1, <3>2
  <2> QED
    BY <2>1, <2>2
<1>10. CASE res = "INVALID"
  <2>1. agent' = [agent EXCEPT !.refreshes[i] = r]
    BY <1>2, <1>10
  <2>2. Timed(r) /\ r.sent \subseteq {r.msg} /\ (r.timer => r.sent = {})
    BY <1>1, <1>5, <1>6 DEF Timed
  <2> QED
    BY <1>1, <1>6, <2>1, <2>2, RefreshStep
<1> QED
  BY <1>8, <1>9, <1>10 DEF RefreshResults

-----------------------------------------------------------------------------
\* UPnP

LEMMA GatheringDoneGood ==
  ASSUME NEW g, Good(g)
  PROVE  Good(agent_gathering_done(g)) /\ Quiet(g, agent_gathering_done(g))
<1> DEFINE h == agent_gathering_done(g)
<1>1. /\ Base(h)
      /\ AllTimed(g) => AllTimed(h)
      /\ Started(g) => Started(h)
      /\ Scheduled(g) => Scheduled(h)
      /\ \A s \in Streams :
            g.streams[s].gathering /\ ~h.streams[s].gathering => ~h.timer /\ ~h.upnpTimer
  BY GatheringDone DEF Good
<1> HIDE DEF h
<1>2. Good(h) /\ Quiet(g, h)
  BY <1>1 DEF Good, Quiet
<1> QED
  BY <1>2 DEF h

LEMMA UpnpChecked ==
  ASSUME NEW g, Good(g)
  PROVE  /\ Good(agent_check_upnp_gathering_done(g))
         /\ Quiet(g, agent_check_upnp_gathering_done(g))
<1> DEFINE k == [g EXCEPT !.upnpTimer = FALSE]
           h == agent_check_upnp_gathering_done(g)
<1>1. g \in Agent
  BY DEF Good, Base
<1>2. k \in Agent
  BY <1>1, AgentUpdates
<1>3. /\ k.disc = g.disc /\ k.refreshes = g.refreshes /\ k.allocs = g.allocs
      /\ k.uids = g.uids /\ k.streams = g.streams /\ k.compat = g.compat
      /\ k.foundations = g.foundations /\ k.timer = g.timer /\ k.unsched = g.unsched
      /\ k.bad = g.bad
  BY <1>1 DEF Agent
<1>4. h = IF g.mapping # {} THEN g ELSE agent_gathering_done(k)
  BY DEF agent_check_upnp_gathering_done
<1> HIDE DEF k
<1>5. Good(k)
  BY <1>2, <1>3, OtherFields
<1>6. Good(agent_gathering_done(k)) /\ Quiet(k, agent_gathering_done(k))
  BY <1>5, GatheringDoneGood
<1>7. Quiet(g, g) /\ Quiet(g, agent_gathering_done(k))
  BY <1>3, <1>6 DEF Quiet
<1> HIDE DEF h
<1>8. Good(h) /\ Quiet(g, h)
  BY <1>4, <1>6, <1>7
<1> QED
  BY <1>8 DEF h

\* The mappings that are waited for may change at any time.
LEMMA MappingChanged ==
  ASSUME NEW g, Good(g), NEW M \in SUBSET Port
  PROVE  Good([g EXCEPT !.mapping = M]) /\ [g EXCEPT !.mapping = M].streams = g.streams
<1> DEFINE h == [g EXCEPT !.mapping = M]
<1>1. g \in Agent
  BY DEF Good, Base
<1>2. h \in Agent
  BY <1>1, AgentUpdates
<1>3. /\ h.disc = g.disc /\ h.refreshes = g.refreshes /\ h.allocs = g.allocs
      /\ h.uids = g.uids /\ h.streams = g.streams /\ h.compat = g.compat
      /\ h.foundations = g.foundations /\ h.timer = g.timer /\ h.unsched = g.unsched
      /\ h.bad = g.bad
  BY <1>1 DEF Agent
<1> HIDE DEF h
<1>4. Good(h) /\ h.streams = g.streams
  BY <1>2, <1>3, OtherFields
<1> QED
  BY <1>4 DEF h

LEMMA UpnpTimeoutStep ==
  ASSUME Good(agent), priv_upnp_timeout_cb
  PROVE  Good(agent') /\ Quiet(agent, agent')
<1> DEFINE g == [agent EXCEPT !.mapping = {}]
<1>1. agent' = agent_check_upnp_gathering_done(g)
  BY DEF priv_upnp_timeout_cb
<1>2. {} \in SUBSET Port
  OBVIOUS
<1>3. Good(g) /\ g.streams = agent.streams
  BY <1>2, MappingChanged
<1> HIDE DEF g
<1>4. Good(agent') /\ Quiet(g, agent')
  BY <1>1, <1>3, UpnpChecked
<1> QED
  BY <1>3, <1>4 DEF Quiet

LEMMA UpnpErrorStep ==
  ASSUME Good(agent), NEW port, _upnp_error_mapping_port(port)
  PROVE  Good(agent') /\ Quiet(agent, agent')
<1> DEFINE M == agent.mapping \ {port}
           g == [agent EXCEPT !.mapping = M]
<1>1. agent' = agent_check_upnp_gathering_done(g)
  BY DEF _upnp_error_mapping_port
<1>2. M \in SUBSET Port
  BY AgentFields DEF Good, Base
<1> HIDE DEF M
<1>3. Good(g) /\ g.streams = agent.streams
  BY <1>2, MappingChanged
<1> HIDE DEF g
<1>4. Good(agent') /\ Quiet(g, agent')
  BY <1>1, <1>3, UpnpChecked
<1> QED
  BY <1>3, <1>4 DEF Quiet

LEMMA UpnpMappedStep ==
  ASSUME Good(agent), NEW port, _upnp_mapped_external_port(port)
  PROVE  Good(agent') /\ Quiet(agent, agent')
<1> DEFINE M == agent.mapping \ {port}
           g == [agent EXCEPT !.mapping = M]
           n == discovery_add_server_reflexive_candidate(g, port[1], port[2], MappedAddr(port[1]))
           added == IF \E c \in Cands(g) : c.base = port THEN n ELSE g
           h == IF agent.upnpTimer THEN added ELSE agent
<1>1. agent' = agent_check_upnp_gathering_done(h) /\ port \in agent.ports
  BY DEF _upnp_mapped_external_port
<1>2. M \in SUBSET Port /\ agent.ports \in SUBSET Port
  BY AgentFields DEF Good, Base
<1>3. port[1] \in Streams /\ port[2] \in TransportType /\ MappedAddr(port[1]) \in Addr
  BY <1>1, <1>2 DEF Port, MappedAddr, Addr
<1> HIDE DEF M
<1>4. Good(g) /\ g.streams = agent.streams
  BY <1>2, MappingChanged
<1> HIDE DEF g
<1>5. Grown(g, n)
  BY <1>3, <1>4, ReflexiveAdded DEF Good, Base
<1> HIDE DEF n
<1>6. Good(n) /\ \A s \in Streams : n.streams[s].gathering = g.streams[s].gathering
  BY <1>4, <1>5, GrownGood DEF Grown
<1>7. Good(h) /\ \A s \in Streams : h.streams[s].gathering = agent.streams[s].gathering
  BY <1>4, <1>6
<1> HIDE DEF h
<1>8. Good(agent') /\ Quiet(h, agent')
  BY <1>1, <1>7, UpnpChecked
<1> QED
  BY <1>7, <1>8 DEF Quiet

-----------------------------------------------------------------------------
\* The application's calls

LEMMA UpnpStarted ==
  ASSUME NEW g, Good(g)
  PROVE  Good(StartUpnp(g)) /\ StartUpnp(g).streams = g.streams /\ StartUpnp(g).disc = g.disc
         /\ StartUpnp(g).refreshes = g.refreshes
<1> DEFINE k == [g EXCEPT !.upnp = "created", !.upnpTimer = TRUE]
           h == StartUpnp(g)
<1>1. g \in Agent
  BY DEF Good, Base
<1>2. k \in Agent
  BY <1>1 DEF Agent
<1>3. /\ k.disc = g.disc /\ k.refreshes = g.refreshes /\ k.allocs = g.allocs
      /\ k.uids = g.uids /\ k.streams = g.streams /\ k.compat = g.compat
      /\ k.foundations = g.foundations /\ k.timer = g.timer /\ k.unsched = g.unsched
      /\ k.bad = g.bad
  BY <1>1 DEF Agent
<1>4. h = IF g.upnp = "enabled" THEN k ELSE g
  BY DEF StartUpnp
<1> HIDE DEF k
<1>5. Good(k)
  BY <1>2, <1>3, OtherFields
<1> HIDE DEF h
<1>6. Good(h) /\ h.streams = g.streams /\ h.disc = g.disc /\ h.refreshes = g.refreshes
  BY <1>3, <1>4, <1>5
<1> QED
  BY <1>6 DEF h

\* Nothing is left without a timer when nothing is left to schedule.
LEMMA NothingUnscheduled ==
  ASSUME NEW g, NEW s, Base(g), Unscheduled(s, g), ~(g.unsched > 0)
  PROVE  Scheduled(g)
<1>1. g.unsched \in Nat /\ g.timer \in BOOLEAN
  BY AgentFields DEF Base
<1>2. g.unsched = 0
  BY <1>1
<1> QED
  BY <1>1, <1>2 DEF Unscheduled, Scheduled

\* The stream after its host candidates were added.
LEMMA HostsStarted ==
  ASSUME Good(agent), NEW s \in Streams, agent.streams[s].alive
  PROVE  LET k == [AddHosts(StartUpnp(agent), s, Transports(agent)) EXCEPT
                      !.streams[s].gathering = TRUE, !.streams[s].started = TRUE]
         IN  /\ Base(k) /\ AllTimed(k) /\ Started(k) /\ Unscheduled(s, k)
             /\ \A t \in Streams : agent.streams[t].gathering => k.streams[t].gathering
<1> DEFINE a == StartUpnp(agent)
           N == Transports(agent)
           b == AddHosts(a, s, N)
           st == [b.streams[s] EXCEPT !.gathering = TRUE, !.started = TRUE]
           k == [b EXCEPT !.streams[s] = st]
<1>1. Good(a) /\ a.streams = agent.streams
  BY UpnpStarted
<1> HIDE DEF a
<1>2. N \in 0..3
  BY DEF Transports
<1> HIDE DEF N
<1>3. Queued(a, s, b)
  BY <1>1, <1>2, HostsQueued DEF Good
<1> HIDE DEF b
<1>4. Base(b) /\ Unscheduled(s, b) /\ AllTimed(b) /\ b \in Agent
  BY <1>1, <1>3, QueuedUnscheduled DEF Good, Queued, Base
<1>5. b.streams[s] \in Stream /\ b.streams \in [Streams -> Stream]
  BY <1>4, AgentFields
<1>6. /\ st \in Stream /\ st.cands = b.streams[s].cands /\ st.alive = b.streams[s].alive
      /\ st.kept = b.streams[s].kept /\ st.gathering /\ st.started
  BY <1>5 DEF Stream
<1>7. [b EXCEPT !.streams[s].gathering = TRUE, !.streams[s].started = TRUE] = k
  BY <1>4, <1>5 DEF Agent
<1> HIDE DEF st
<1>8. /\ Base(k)
      /\ AllTimed(b) => AllTimed(k)
      /\ k.streams = [b.streams EXCEPT ![s] = st]
      /\ k.disc = b.disc /\ k.refreshes = b.refreshes /\ k.timer = b.timer
      /\ k.bad = b.bad /\ k.unsched = b.unsched
  <2>1. \A i \in DOMAIN b.disc : b.disc[i].stream = s => st.alive
    BY <1>4, <1>6 DEF Base, ItemsOk
  <2>2. \A n \in DOMAIN b.refreshes :
          b.refreshes[n].stream = s =>
             st.alive /\ b.refreshes[n].cand \in st.cands \cup {st.kept}
    BY <1>4, <1>6 DEF Base, RefreshesOk
  <2> QED
    BY <1>4, <1>6, <2>1, <2>2, StreamChanged
<1> HIDE DEF k
<1>9. Unscheduled(s, k)
  BY <1>4, <1>8 DEF Unscheduled
<1>10. k.streams[s] = st /\ \A t \in Streams : t # s => k.streams[t] = b.streams[t]
  BY <1>5, <1>8
<1>11. \A t \in Streams : agent.streams[t].gathering => k.streams[t].gathering
  BY <1>1, <1>3, <1>6, <1>10 DEF Queued
<1>12. \A t \in Streams : a.streams[t].started => k.streams[t].started
  BY <1>3, <1>6, <1>10 DEF Queued
<1>13. Started(k)
  <2>1. a \in Agent /\ a.disc \in Seq(Item) /\ b.disc \in Seq(Item)
    BY <1>1, <1>4, AgentFields DEF Good, Base
  <2>2. ASSUME NEW i \in DOMAIN k.disc PROVE k.streams[k.disc[i].stream].started
    <3>1. CASE i \in DOMAIN a.disc
      <4>1. k.disc[i] = a.disc[i] /\ a.disc[i].stream \in Streams
        BY <1>3, <1>8, <2>1, <3>1, AgentFields DEF Queued, Item
      <4>2. a.streams[a.disc[i].stream].started
        BY <1>1, <3>1 DEF Good, Started
      <4> QED
        BY <1>12, <4>1, <4>2
    <3>2. CASE i \notin DOMAIN a.disc
      <4>1. i > Len(a.disc)
        BY <1>8, <2>1, <3>2
      <4>2. k.disc[i].stream = s
        BY <1>3, <1>8, <4>1 DEF Queued
      <4> QED
        BY <1>6, <1>10, <4>2
    <3> QED
      BY <3>1, <3>2
  <2>3. ASSUME NEW n \in DOMAIN k.refreshes PROVE k.streams[k.refreshes[n].stream].started
    <3>1. k.refreshes = a.refreshes
      BY <1>3, <1>8 DEF Queued
    <3>2. a.refreshes[n].stream \in Streams
      BY <2>1, <3>1, AgentFields DEF Refresh
    <3>3. a.streams[a.refreshes[n].stream].started
      BY <1>1, <3>1 DEF Good, Started
    <3> QED
      BY <1>12, <3>1, <3>2, <3>3
  <2> QED
    BY <2>2, <2>3 DEF Started
<1>14. /\ Base(k) /\ AllTimed(k) /\ Started(k) /\ Unscheduled(s, k)
       /\ \A t \in Streams : agent.streams[t].gathering => k.streams[t].gathering
  BY <1>4, <1>8, <1>9, <1>11, <1>13
<1> QED
  BY <1>7, <1>14 DEF b, N, a

LEMMA GatherStep ==
  ASSUME Good(agent), NEW s \in Streams, nice_agent_gather_candidates(s)
  PROVE  Good(agent') /\ Quiet(agent, agent')
<1> DEFINE k == [AddHosts(StartUpnp(agent), s, Transports(agent)) EXCEPT
                      !.streams[s].gathering = TRUE, !.streams[s].started = TRUE]
<1>1. agent.streams[s].alive
      /\ agent' = CASE k.unsched = 0 /\ k.mapping = {} -> agent_gathering_done(k)
                    [] k.unsched > 0 -> discovery_schedule(k)
                    [] OTHER -> k
  BY DEF nice_agent_gather_candidates, CanGather
<1>2. /\ Base(k) /\ AllTimed(k) /\ Started(k) /\ Unscheduled(s, k)
      /\ \A t \in Streams : agent.streams[t].gathering => k.streams[t].gathering
  BY <1>1, HostsStarted
<1> HIDE DEF k
<1>3. k.unsched \in Nat
  BY <1>2, AgentFields DEF Base
<1>4. \A h : Quiet(k, h) => Quiet(agent, h)
  BY <1>2 DEF Quiet
<1>5. CASE k.unsched > 0
  <2>1. agent' = discovery_schedule(k)
    BY <1>1, <1>3, <1>5
  <2> DEFINE h == discovery_schedule(k)
  <2>2. Base(h) /\ Scheduled(h) /\ Quiet(k, h) /\ AllTimed(h) /\ Started(h)
    BY <1>2, <1>5, ItemsGetTimer
  <2> HIDE DEF h
  <2>3. Good(h) /\ Quiet(agent, h)
    BY <1>4, <2>2 DEF Good
  <2> QED
    BY <2>1, <2>3 DEF h
<1>6. CASE ~(k.unsched > 0)
  <2>1. Good(k)
    BY <1>2, <1>6, NothingUnscheduled DEF Good
  <2>2. Good(agent_gathering_done(k)) /\ Quiet(agent, agent_gathering_done(k))
    BY <1>4, <2>1, GatheringDoneGood
  <2>3. Quiet(k, k)
    BY DEF Quiet
  <2>4. agent' = agent_gathering_done(k) \/ agent' = k
    BY <1>1, <1>3, <1>6
  <2> QED
    BY <1>4, <2>1, <2>2, <2>3, <2>4
<1> QED
  BY <1>5, <1>6

\* A stream that changes as its items and refreshes allow.
LEMMA StreamUpdated ==
  ASSUME NEW g, Good(g), NEW s \in Streams, NEW st \in Stream,
         st.cands \subseteq g.streams[s].cands, st.alive => g.streams[s].alive,
         \A i \in DOMAIN g.disc : g.disc[i].stream = s => st.alive /\ st.started,
         \A k \in DOMAIN g.refreshes :
            g.refreshes[k].stream = s =>
               st.alive /\ st.started /\ g.refreshes[k].cand \in st.cands \cup {st.kept}
  PROVE  LET h == [g EXCEPT !.streams[s] = st]
         IN  Good(h) /\ h.streams = [g.streams EXCEPT ![s] = st]
<1> DEFINE h == [g EXCEPT !.streams[s] = st]
<1>1. g \in Agent /\ g.streams \in [Streams -> Stream]
      /\ (\A i \in DOMAIN g.disc : g.disc[i].stream \in Streams)
      /\ (\A k \in DOMAIN g.refreshes : g.refreshes[k].stream \in Streams)
  BY AgentFields DEF Good, Base, Item, Refresh
<1>2. /\ Base(h)
      /\ AllTimed(g) => AllTimed(h)
      /\ Scheduled(g) => Scheduled(h)
      /\ h.streams = [g.streams EXCEPT ![s] = st]
      /\ h.disc = g.disc /\ h.refreshes = g.refreshes
  BY StreamChanged DEF Good
<1> HIDE DEF h
<1>3. h.streams[s] = st /\ \A t \in Streams : t # s => h.streams[t] = g.streams[t]
  BY <1>1, <1>2
<1>4. Started(h)
  BY <1>1, <1>2, <1>3 DEF Good, Started
<1>5. Good(h) /\ h.streams = [g.streams EXCEPT ![s] = st]
  BY <1>2, <1>4 DEF Good
<1> QED
  BY <1>5 DEF h

\* What an agent knows of the items and refreshes of a stream.
LEMMA StreamOf ==
  ASSUME NEW g, Good(g), NEW s \in Streams
  PROVE  /\ g \in Agent /\ g.streams \in [Streams -> Stream] /\ g.streams[s] \in Stream
         /\ \A i \in DOMAIN g.disc :
               g.disc[i].stream = s => g.streams[s].alive /\ g.streams[s].started
         /\ \A k \in DOMAIN g.refreshes :
               g.refreshes[k].stream = s =>
                  /\ g.streams[s].alive /\ g.streams[s].started
                  /\ g.refreshes[k].cand \in g.streams[s].cands \cup {g.streams[s].kept}
                  /\ g.refreshes[k].cand.type = "RELAYED"
<1>1. g \in Agent /\ g.streams \in [Streams -> Stream] /\ g.streams[s] \in Stream
  BY AgentFields DEF Good, Base
<1>2. \A i \in DOMAIN g.disc :
         g.disc[i].stream = s => g.streams[s].alive /\ g.streams[s].started
  BY DEF Good, Base, ItemsOk, Started
<1>3. \A k \in DOMAIN g.refreshes :
         g.refreshes[k].stream = s =>
            /\ g.streams[s].alive /\ g.streams[s].started
            /\ g.refreshes[k].cand \in g.streams[s].cands \cup {g.streams[s].kept}
            /\ g.refreshes[k].cand.type = "RELAYED"
  BY DEF Good, Base, RefreshesOk, RelayOf, Started
<1> QED
  BY <1>1, <1>2, <1>3

\* The ports of a removed stream are forgotten.
LEMMA PortsChanged ==
  ASSUME NEW g, Good(g), NEW P \in SUBSET Port
  PROVE  Good([g EXCEPT !.ports = P]) /\ [g EXCEPT !.ports = P].streams = g.streams
<1> DEFINE h == [g EXCEPT !.ports = P]
<1>1. g \in Agent
  BY DEF Good, Base
<1>2. h \in Agent
  BY <1>1, AgentUpdates
<1>3. /\ h.disc = g.disc /\ h.refreshes = g.refreshes /\ h.allocs = g.allocs
      /\ h.uids = g.uids /\ h.streams = g.streams /\ h.compat = g.compat
      /\ h.foundations = g.foundations /\ h.timer = g.timer /\ h.unsched = g.unsched
      /\ h.bad = g.bad
  BY <1>1 DEF Agent
<1> HIDE DEF h
<1>4. Good(h) /\ h.streams = g.streams
  BY <1>2, <1>3, OtherFields
<1> QED
  BY <1>4 DEF h

\* Refreshes may be given up at any time.
LEMMA FreedGood ==
  ASSUME NEW g, Good(g), NEW gone, gone \subseteq RefreshesOf(g)
  PROVE  /\ Good(FreeRefreshes(g, gone))
         /\ FreeRefreshes(g, gone).streams = g.streams
         /\ FreeRefreshes(g, gone).disc = g.disc
         /\ \A k \in DOMAIN FreeRefreshes(g, gone).refreshes :
               /\ FreeRefreshes(g, gone).refreshes[k] \in RefreshesOf(g)
               /\ FreeRefreshes(g, gone).refreshes[k] \notin gone
<1> DEFINE h == FreeRefreshes(g, gone)
<1>1. /\ Base(h)
      /\ (\A r \in RefreshesOf(g) \ gone : Timed(r)) => AllTimed(h)
      /\ Started(g) => Started(h)
      /\ Scheduled(g) => Scheduled(h)
      /\ \A k \in DOMAIN h.refreshes :
            h.refreshes[k] \in RefreshesOf(g) /\ h.refreshes[k] \notin gone
      /\ h.streams = g.streams /\ h.disc = g.disc
  BY RefreshesFreed DEF Good
<1>2. \A r \in RefreshesOf(g) \ gone : Timed(r)
  BY DEF Good, AllTimed, RefreshesOf
<1> HIDE DEF h
<1>3. Good(h)
  BY <1>1, <1>2 DEF Good
<1> QED
  BY <1>1, <1>3 DEF h

LEMMA RemoveStreamStep ==
  ASSUME Good(agent), NEW s \in Streams, nice_agent_remove_stream(s)
  PROVE  Good(agent') /\ Quiet(agent, agent')
<1> DEFINE a == discovery_prune_stream(agent, s)
           gone == {r \in RefreshesOf(a) : r.stream = s}
           b == FreeRefreshes(a, gone)
           st == NewStream(FALSE, {})
           e == [b EXCEPT !.streams[s] = st]
           P == {p \in b.ports : p[1] # s}
           h == [e EXCEPT !.ports = P]
<1>1. agent' = [b EXCEPT !.ports = P, !.streams[s] = st]
  BY DEF nice_agent_remove_stream, refresh_prune_stream
<1>2. /\ Base(a) /\ Scheduled(a)
      /\ AllTimed(agent) => AllTimed(a)
      /\ Started(agent) => Started(a)
      /\ \A i \in DOMAIN a.disc : a.disc[i].stream # s
      /\ a.streams = agent.streams
  <2>1. ~agent.bad /\ (agent.timer => agent.disc # <<>>)
        /\ \A i \in DOMAIN agent.disc : agent.disc[i].stream # s => agent.timer
    BY DEF Good, Scheduled
  <2> QED
    BY <2>1, StreamPruned DEF Good
<1> HIDE DEF a
<1>3. Good(a)
  BY <1>2 DEF Good
<1>4. gone \subseteq RefreshesOf(a)
  OBVIOUS
<1>5. \A r \in RefreshesOf(a) : r \notin gone => r.stream # s
  OBVIOUS
<1> HIDE DEF gone
<1>6. /\ Good(b) /\ b.streams = a.streams /\ b.disc = a.disc
      /\ \A k \in DOMAIN b.refreshes :
            b.refreshes[k] \in RefreshesOf(a) /\ b.refreshes[k] \notin gone
  BY <1>3, <1>4, FreedGood
<1> HIDE DEF b
<1>7. /\ st \in Stream /\ st.cands \subseteq b.streams[s].cands /\ ~st.alive
  <2>1. {} \in {S \in SUBSET Turns : IsFiniteSet(S)}
    BY FS_EmptySet
  <2> QED
    BY <2>1 DEF NewStream, Stream
<1>8. b \in Agent /\ P \in SUBSET Port /\ b.streams \in [Streams -> Stream]
  BY <1>6, AgentFields DEF Good, Base
<1> HIDE DEF st, P
<1>9. Good(e) /\ e.streams = [b.streams EXCEPT ![s] = st]
  BY <1>2, <1>5, <1>6, <1>7, StreamUpdated
<1>10. agent' = h
  BY <1>1, <1>8 DEF Agent
<1> HIDE DEF e
<1>11. Good(h) /\ h.streams = e.streams
  BY <1>8, <1>9, PortsChanged
<1> HIDE DEF h
<1>12. h.streams[s] = st /\ \A t \in Streams : t # s => h.streams[t] = agent.streams[t]
  BY <1>2, <1>6, <1>8, <1>9, <1>11
<1>13. Quiet(agent, h)
  BY <1>7, <1>12 DEF Quiet
<1> QED
  BY <1>10, <1>11, <1>13

LEMMA SelectStep ==
  ASSUME Good(agent), NEW s \in Streams, NEW c, component_update_selected_pair(s, c)
  PROVE  Good(agent') /\ Quiet(agent, agent')
<1> DEFINE st == agent.streams[s]
           drop == st.selected # None /\ st.selected = st.kept
           gone == {r \in RefreshesOf(agent) : r.cand = st.kept}
           g == IF drop THEN FreeRefreshes(agent, gone) ELSE agent
           new == [st EXCEPT !.selected = c, !.kept = IF drop THEN None ELSE @]
           h == [g EXCEPT !.streams[s] = new]
<1>1. c \in st.cands
      /\ agent' = [g EXCEPT !.streams[s].selected = c,
                            !.streams[s].kept = IF drop THEN None ELSE @]
  BY DEF component_update_selected_pair, refresh_prune_candidate
<1>2. agent.streams \in [Streams -> Stream] /\ st \in Stream
  BY StreamOf
<1>3. gone \subseteq RefreshesOf(agent)
      /\ \A r \in RefreshesOf(agent) : r \notin gone => r.cand # st.kept
  OBVIOUS
<1>4. /\ Good(g) /\ g.streams = agent.streams
      /\ drop => \A k \in DOMAIN g.refreshes : g.refreshes[k].cand # st.kept
  <2> HIDE DEF gone
  <2> QED
    BY <1>3, FreedGood
<1> HIDE DEF g
<1>5. /\ new \in Stream /\ new.cands = st.cands /\ new.alive = st.alive
      /\ new.started = st.started /\ new.gathering = st.gathering
      /\ new.kept = IF drop THEN None ELSE st.kept
  BY <1>1, <1>2 DEF Stream
<1>6. agent' = h
  BY <1>1, <1>2, <1>4, StreamOf DEF Agent
<1> HIDE DEF new
<1>7. Good(h) /\ h.streams = [g.streams EXCEPT ![s] = new]
  <2>1. \A i \in DOMAIN g.disc : g.disc[i].stream = s => new.alive /\ new.started
    BY <1>4, <1>5, StreamOf
  <2>2. \A k \in DOMAIN g.refreshes :
           g.refreshes[k].stream = s =>
              new.alive /\ new.started /\ g.refreshes[k].cand \in new.cands \cup {new.kept}
    BY <1>4, <1>5, StreamOf
  <2>3. new.cands \subseteq g.streams[s].cands /\ (new.alive => g.streams[s].alive)
    BY <1>4, <1>5
  <2> QED
    BY <1>4, <1>5, <2>1, <2>2, <2>3, StreamUpdated
<1> HIDE DEF h
<1>8. \A t \in Streams : h.streams[t].gathering = agent.streams[t].gathering
  BY <1>2, <1>4, <1>5, <1>7
<1> QED
  BY <1>6, <1>7, <1>8 DEF Quiet

LEMMA ForgetStep ==
  ASSUME Good(agent), NEW s \in Streams, nice_agent_forget_relays(s)
  PROVE  Good(agent') /\ Quiet(agent, agent')
<1> DEFINE st == agent.streams[s]
           relayed == {c \in st.cands : c.type = "RELAYED"}
           kept == relayed \cap {st.selected}
           lost == (relayed \ kept) \cup (IF kept # {} THEN {st.kept} ELSE {})
           gone == {r \in RefreshesOf(agent) : r.cand \in lost}
           g == FreeRefreshes(agent, gone)
           rest == st.cands \ relayed
           old == IF kept # {} THEN st.selected ELSE st.kept
           new == [st EXCEPT !.servers = {}, !.cands = rest, !.kept = old]
           h == [g EXCEPT !.streams[s] = new]
<1>1. agent' = [g EXCEPT !.streams[s].servers = {}, !.streams[s].cands = @ \ relayed,
                         !.streams[s].kept = IF kept # {} THEN st.selected ELSE @]
  BY DEF nice_agent_forget_relays
<1>2. agent.streams \in [Streams -> Stream] /\ st \in Stream
  BY StreamOf
<1>3. gone \subseteq RefreshesOf(agent)
      /\ \A r \in RefreshesOf(agent) : r \notin gone => r.cand \notin lost
  OBVIOUS
<1>4. /\ Good(g) /\ g.streams = agent.streams
      /\ \A k \in DOMAIN g.refreshes : g.refreshes[k].cand \notin lost
  <2> HIDE DEF gone
  <2> QED
    BY <1>3, FreedGood
<1> HIDE DEF g, gone
<1>5. \A c : c.type = "RELAYED" /\ c \in st.cands \cup {st.kept} /\ c \notin lost
             => c \in rest \cup {old}
  OBVIOUS
<1>6. old \in Cand \cup {None} /\ rest \in SUBSET Cand /\ rest \subseteq st.cands
  BY <1>2 DEF Stream
<1>7. {} \in {S \in SUBSET Turns : IsFiniteSet(S)}
  BY FS_EmptySet
<1>8. agent' = h
  <2>1. g \in Agent /\ g.streams[s] = st
    BY <1>4, StreamOf
  <2>2. agent' = [g EXCEPT !.streams[s] = [g.streams[s] EXCEPT
                      !.servers = {}, !.cands = @ \ relayed,
                      !.kept = IF kept # {} THEN st.selected ELSE @]]
    <3> HIDE DEF relayed, kept
    <3> QED
      BY <1>1, <1>2, <1>4, <2>1 DEF Agent
  <2>3. [st EXCEPT !.servers = {}, !.cands = @ \ relayed,
                   !.kept = IF kept # {} THEN st.selected ELSE @] = new
    <3> HIDE DEF relayed, kept
    <3> QED
      BY <1>2 DEF Stream
  <2> HIDE DEF new
  <2> QED
    BY <2>1, <2>2, <2>3
<1> HIDE DEF old, rest, lost
<1>9. /\ new \in Stream /\ new.cands = rest /\ new.alive = st.alive
      /\ new.started = st.started /\ new.gathering = st.gathering /\ new.kept = old
  BY <1>2, <1>6, <1>7 DEF Stream
<1> HIDE DEF new
<1>10. Good(h) /\ h.streams = [g.streams EXCEPT ![s] = new]
  <2>1. \A i \in DOMAIN g.disc : g.disc[i].stream = s => new.alive /\ new.started
    BY <1>4, <1>9, StreamOf
  <2>2. ASSUME NEW k \in DOMAIN g.refreshes, g.refreshes[k].stream = s
        PROVE  new.alive /\ new.started /\ g.refreshes[k].cand \in new.cands \cup {new.kept}
    BY <1>4, <1>5, <1>9, <2>2, StreamOf
  <2>3. new.cands \subseteq g.streams[s].cands /\ (new.alive => g.streams[s].alive)
    BY <1>4, <1>6, <1>9
  <2> QED
    BY <1>4, <1>9, <2>1, <2>2, <2>3, StreamUpdated
<1> HIDE DEF h
<1>11. \A t \in Streams : h.streams[t].gathering = agent.streams[t].gathering
  BY <1>2, <1>4, <1>9, <1>10
<1> QED
  BY <1>8, <1>10, <1>11 DEF Quiet

\* The fields that only the timers' clauses mention may change with the rest.
LEMMA OtherFieldsBase ==
  ASSUME NEW g, NEW h \in Agent, Base(g), h.disc = g.disc, h.refreshes = g.refreshes,
         h.allocs = g.allocs, h.uids = g.uids, h.streams = g.streams, h.compat = g.compat,
         h.foundations = g.foundations
  PROVE  Base(h) /\ (AllTimed(g) => AllTimed(h))
<1>1. CandsOk(h)
  BY FewerCands DEF Base
<1>2. Carries(g, h)
  BY <1>1 DEF Carries
<1> QED
  BY <1>2, CarriesKeeps

LEMMA UpnpStopped ==
  ASSUME NEW g, Base(g)
  PROVE  LET h == priv_stop_upnp(g)
         IN  /\ Base(h) /\ (AllTimed(g) => AllTimed(h))
             /\ h.streams = g.streams /\ h.disc = g.disc /\ h.refreshes = g.refreshes
             /\ h.timer = g.timer /\ h.bad = g.bad /\ h.unsched = g.unsched
<1> DEFINE k == [g EXCEPT !.mapping = {}, !.upnpTimer = FALSE]
           h == priv_stop_upnp(g)
<1>1. g \in Agent
  BY DEF Base
<1>2. {} \in SUBSET Port
  OBVIOUS
<1>3. k \in Agent
  BY <1>1, <1>2 DEF Agent
<1>4. /\ k.disc = g.disc /\ k.refreshes = g.refreshes /\ k.allocs = g.allocs
      /\ k.uids = g.uids /\ k.streams = g.streams /\ k.compat = g.compat
      /\ k.foundations = g.foundations /\ k.timer = g.timer /\ k.unsched = g.unsched
      /\ k.bad = g.bad
  BY <1>1 DEF Agent
<1>5. h = IF g.upnp = "created" THEN k ELSE g
  BY DEF priv_stop_upnp
<1> HIDE DEF k
<1>6. Base(k) /\ (AllTimed(g) => AllTimed(k))
  BY <1>3, <1>4, OtherFieldsBase
<1> HIDE DEF h
<1>7. /\ Base(h) /\ (AllTimed(g) => AllTimed(h))
      /\ h.streams = g.streams /\ h.disc = g.disc /\ h.refreshes = g.refreshes
      /\ h.timer = g.timer /\ h.bad = g.bad /\ h.unsched = g.unsched
  BY <1>4, <1>5, <1>6
<1> QED
  BY <1>7 DEF h

LEMMA GatherFailsStep ==
  ASSUME Good(agent), NEW s \in Streams, NEW n \in 0..2, GatherFails(s, n)
  PROVE  Good(agent') /\ Quiet(agent, agent')
<1> DEFINE a == StartUpnp(agent)
           b == AddHosts(a, s, n)
           c == priv_stop_upnp(b)
           st == [c.streams[s] EXCEPT !.cands = {}]
           e == [c EXCEPT !.streams[s] = st]
           P == {p \in c.ports : p[1] # s}
           d == [e EXCEPT !.ports = P]
           h == discovery_prune_stream(d, s)
<1>1. agent' = discovery_prune_stream([c EXCEPT !.streams[s].cands = {},
                                                !.ports = {p \in @ : p[1] # s}], s)
      /\ agent.streams[s].alive /\ ~agent.streams[s].started
  BY DEF GatherFails, CanGather
<1>2. Good(a) /\ a.streams = agent.streams
  BY UpnpStarted
<1> HIDE DEF a
<1>3. Queued(a, s, b)
  BY <1>1, <1>2, HostsQueued DEF Good
<1> HIDE DEF b
<1>4. Base(b) /\ Unscheduled(s, b) /\ AllTimed(b)
  BY <1>2, <1>3, QueuedUnscheduled DEF Good, Queued
<1>5. /\ Base(c) /\ AllTimed(c)
      /\ c.streams = b.streams /\ c.disc = b.disc /\ c.refreshes = b.refreshes
      /\ c.timer = b.timer /\ c.bad = b.bad /\ c.unsched = b.unsched
  BY <1>4, UpnpStopped
<1>6. c \in Agent /\ c.streams \in [Streams -> Stream] /\ c.streams[s] \in Stream
      /\ P \in SUBSET Port
  <2> HIDE DEF c
  <2> QED
    BY <1>5, AgentFields DEF Base
<1>7. [c EXCEPT !.streams[s].cands = {}, !.ports = {p \in @ : p[1] # s}] = d
  <2> HIDE DEF c
  <2> QED
    BY <1>6 DEF Agent
<1> HIDE DEF c, P
<1>8. /\ st \in Stream /\ st.cands = {} /\ st.alive = c.streams[s].alive
      /\ st.started = c.streams[s].started /\ st.gathering = c.streams[s].gathering
  BY <1>6 DEF Stream
<1> HIDE DEF st
<1>9. \A k \in DOMAIN a.refreshes : a.refreshes[k].stream # s
  BY <1>1, <1>2, StreamOf
<1>10. /\ Base(e) /\ AllTimed(e)
       /\ e.streams = [c.streams EXCEPT ![s] = st]
       /\ e.disc = c.disc /\ e.refreshes = c.refreshes /\ e.timer = c.timer
       /\ e.bad = c.bad /\ e.unsched = c.unsched
  <2>1. \A i \in DOMAIN c.disc : c.disc[i].stream = s => st.alive
    BY <1>5, <1>8 DEF Base, ItemsOk
  <2>2. \A k \in DOMAIN c.refreshes : c.refreshes[k].stream # s
    BY <1>3, <1>5, <1>9 DEF Queued
  <2>3. st.cands \subseteq c.streams[s].cands /\ (st.alive => c.streams[s].alive)
    BY <1>8
  <2> QED
    BY <1>5, <1>8, <2>1, <2>2, <2>3, StreamChanged
<1> HIDE DEF e
<1>11. e \in Agent
  BY <1>10 DEF Base
<1>12. d \in Agent
  BY <1>6, <1>11, AgentUpdates
<1>13. /\ d.disc = e.disc /\ d.refreshes = e.refreshes /\ d.allocs = e.allocs
       /\ d.uids = e.uids /\ d.streams = e.streams /\ d.compat = e.compat
       /\ d.foundations = e.foundations /\ d.timer = e.timer /\ d.unsched = e.unsched
       /\ d.bad = e.bad
  BY <1>11 DEF Agent
<1> HIDE DEF d
<1>14. Base(d) /\ AllTimed(d)
  BY <1>10, <1>12, <1>13, OtherFieldsBase
<1>15. ~d.bad /\ (d.timer => d.disc # <<>>)
       /\ \A i \in DOMAIN d.disc : d.disc[i].stream # s => d.timer
  <2>1. d.bad = b.bad /\ d.timer = b.timer /\ d.disc = b.disc
    BY <1>5, <1>10, <1>13
  <2> QED
    BY <1>4, <2>1 DEF Unscheduled
<1>16. /\ Base(h) /\ Scheduled(h)
       /\ AllTimed(d) => AllTimed(h)
       /\ \A i \in DOMAIN h.disc : /\ h.disc[i].stream # s
                                   /\ \E j \in DOMAIN d.disc : h.disc[i] = d.disc[j]
       /\ h.streams = d.streams /\ h.refreshes = d.refreshes
  BY <1>14, <1>15, StreamPruned
<1> HIDE DEF h
<1>17. \A t \in Streams : /\ h.streams[t].started = agent.streams[t].started
                          /\ h.streams[t].gathering = agent.streams[t].gathering
  <2>1. \A t \in Streams : /\ b.streams[t].started = agent.streams[t].started
                           /\ b.streams[t].gathering = agent.streams[t].gathering
    BY <1>2, <1>3 DEF Queued
  <2>2. h.streams = [c.streams EXCEPT ![s] = st]
    BY <1>10, <1>13, <1>16
  <2>3. \A t \in Streams : /\ h.streams[t].started = c.streams[t].started
                           /\ h.streams[t].gathering = c.streams[t].gathering
    BY <1>6, <1>8, <2>2
  <2> QED
    BY <1>5, <2>1, <2>3
<1>18. Started(h)
  <2>1. a \in Agent /\ a.disc \in Seq(Item) /\ b.disc \in Seq(Item)
        /\ \A i \in DOMAIN a.disc : a.disc[i].stream \in Streams
    BY <1>2, <1>4, AgentFields DEF Good, Base, Item
  <2>2. ASSUME NEW i \in DOMAIN h.disc PROVE h.streams[h.disc[i].stream].started
    <3>1. PICK j \in DOMAIN b.disc : h.disc[i] = b.disc[j] /\ b.disc[j].stream # s
      BY <1>5, <1>10, <1>13, <1>16
    <3>2. ~(j > Len(a.disc))
      BY <1>3, <3>1 DEF Queued
    <3>3. j \in DOMAIN a.disc
      BY <2>1, <3>2
    <3>4. b.disc[j] = a.disc[j]
      BY <1>3, <3>3 DEF Queued
    <3>5. a.streams[a.disc[j].stream].started
      BY <1>2, <3>3 DEF Good, Started
    <3> QED
      BY <1>2, <1>17, <2>1, <3>1, <3>3, <3>4, <3>5
  <2>3. ASSUME NEW k \in DOMAIN h.refreshes PROVE h.streams[h.refreshes[k].stream].started
    <3>1. h.refreshes = a.refreshes
      BY <1>3, <1>5, <1>10, <1>13, <1>16 DEF Queued
    <3>2. a.refreshes[k].stream \in Streams
      BY <2>1, <3>1, AgentFields DEF Refresh
    <3>3. a.streams[a.refreshes[k].stream].started
      BY <1>2, <3>1 DEF Good, Started
    <3> QED
      BY <1>2, <1>17, <3>1, <3>2, <3>3
  <2> QED
    BY <2>2, <2>3 DEF Started
<1>19. agent' = h
  BY <1>1, <1>7 DEF h
<1>20. Good(h) /\ Quiet(agent, h)
  BY <1>14, <1>16, <1>17, <1>18 DEF Good, Quiet
<1> QED
  BY <1>19, <1>20

LEMMA RelayInfoStep ==
  ASSUME Good(agent), NEW s \in Streams, NEW turn \in Servers, nice_agent_set_relay_info(s, turn)
  PROVE  Good(agent') /\ Quiet(agent, agent')
<1> DEFINE st == agent.streams[s]
           S == st.servers \cup {turn}
           u == [st EXCEPT !.servers = S]
           g == [agent EXCEPT !.streams[s] = u]
           w == [u EXCEPT !.gathering = TRUE]
           k == [agent EXCEPT !.streams[s] = w]
           h == priv_add_new_candidate_discovery_turn(k, s, turn)
           G == [agent EXCEPT !.streams[s].servers = @ \cup {turn}]
           K == [G EXCEPT !.streams[s].gathering = TRUE]
           H == priv_add_new_candidate_discovery_turn(K, s, turn)
<1>1. agent.streams \in [Streams -> Stream] /\ st \in Stream /\ agent \in Agent
  BY StreamOf
<1>2. agent.streams[s].alive
       /\ agent' = IF ~G.streams[s].started THEN G
                   ELSE IF H.unsched > 0 THEN discovery_schedule(H) ELSE H
  BY DEF nice_agent_set_relay_info
<1>3. G = g
  BY <1>1 DEF Agent
<1>4. S \in {T \in SUBSET Turns : IsFiniteSet(T)}
  <2>1. st.servers \in SUBSET Turns /\ IsFiniteSet(st.servers)
    BY <1>1 DEF Stream
  <2>2. IsFiniteSet(S)
    BY <2>1, FS_AddElement
  <2>3. turn \in Turns
    BY DEF Turns
  <2> QED
    BY <2>1, <2>2, <2>3
<1> HIDE DEF S
<1>5. /\ u \in Stream /\ u.cands = st.cands /\ u.kept = st.kept /\ u.alive = st.alive
      /\ u.started = st.started /\ u.gathering = st.gathering
  BY <1>1, <1>4 DEF Stream
<1> HIDE DEF u
<1>6. /\ w \in Stream /\ w.cands = st.cands /\ w.kept = st.kept /\ w.alive = st.alive
      /\ w.started = st.started /\ w.gathering
  BY <1>5 DEF Stream
<1>7. [g EXCEPT !.streams[s].gathering = TRUE] = k
  BY <1>1, <1>5 DEF Agent
<1>8. H = h
  <2> HIDE DEF G, g, k
  <2> QED
    BY <1>3, <1>7
<1> HIDE DEF w
<1>9. agent.streams[s].alive
      /\ agent' = IF ~g.streams[s].started THEN g
                  ELSE IF h.unsched > 0 THEN discovery_schedule(h) ELSE h
  <2> HIDE DEF G, H, g, h
  <2> QED
    BY <1>3, <1>2, <1>8
<1>10. Good(g) /\ g.streams = [agent.streams EXCEPT ![s] = u]
  BY <1>5, StreamOf, StreamUpdated
<1>11. Good(k) /\ k.streams = [agent.streams EXCEPT ![s] = w]
  BY <1>6, StreamOf, StreamUpdated
<1> HIDE DEF g, k
<1>12. CASE ~g.streams[s].started
  <2>1. \A t \in Streams : g.streams[t].gathering = agent.streams[t].gathering
    BY <1>1, <1>5, <1>10
  <2> QED
    BY <1>9, <1>10, <1>12, <2>1 DEF Quiet
<1>13. CASE g.streams[s].started
  <2>1. \A t \in Streams : /\ agent.streams[t].gathering => k.streams[t].gathering
                           /\ k.streams[t].started = g.streams[t].started
    BY <1>1, <1>5, <1>6, <1>10, <1>11
  <2>2. k.streams[s].alive /\ k.streams[s].started /\ turn \in Turns
    BY <1>1, <1>6, <1>9, <1>11, <1>13, <2>1 DEF Turns
  <2>3. Queued(k, s, h)
    BY <1>11, <2>2, TurnAdded DEF Good
  <2> HIDE DEF h
  <2>4. Base(h) /\ Unscheduled(s, h) /\ AllTimed(h)
    BY <1>11, <2>3, QueuedUnscheduled DEF Good, Queued
  <2>5. Started(h)
    <3>1. k \in Agent /\ k.disc \in Seq(Item) /\ h.disc \in Seq(Item)
          /\ \A i \in DOMAIN k.disc : k.disc[i].stream \in Streams
      BY <1>11, <2>4, AgentFields DEF Good, Base, Item
    <3>2. \A t \in Streams : h.streams[t].started = k.streams[t].started
      BY <2>3 DEF Queued
    <3>3. ASSUME NEW i \in DOMAIN h.disc PROVE h.streams[h.disc[i].stream].started
      <4>1. CASE i \in DOMAIN k.disc
        <5>1. h.disc[i] = k.disc[i] /\ k.streams[k.disc[i].stream].started
          BY <1>11, <2>3, <4>1 DEF Queued, Good, Started
        <5> QED
          BY <3>1, <3>2, <4>1, <5>1
      <4>2. CASE i \notin DOMAIN k.disc
        <5>1. i > Len(k.disc)
          BY <3>1, <4>2
        <5>2. h.disc[i].stream = s
          BY <2>3, <5>1 DEF Queued
        <5> QED
          BY <2>2, <3>2, <5>2
      <4> QED
        BY <4>1, <4>2
    <3>4. ASSUME NEW j \in DOMAIN h.refreshes PROVE h.streams[h.refreshes[j].stream].started
      <4>1. h.refreshes = k.refreshes
        BY <2>3 DEF Queued
      <4>2. k.refreshes[j].stream \in Streams
        BY <3>1, <4>1, AgentFields DEF Refresh
      <4>3. k.streams[k.refreshes[j].stream].started
        BY <1>11, <4>1 DEF Good, Started
      <4> QED
        BY <3>2, <4>1, <4>2, <4>3
    <3> QED
      BY <3>3, <3>4 DEF Started
  <2>6. \A t \in Streams : agent.streams[t].gathering => h.streams[t].gathering
    BY <2>1, <2>3 DEF Queued
  <2>7. \A x : Quiet(h, x) => Quiet(agent, x)
    BY <2>6 DEF Quiet
  <2>8. CASE h.unsched > 0
    <3> DEFINE x == discovery_schedule(h)
    <3>1. Base(x) /\ Scheduled(x) /\ Quiet(h, x) /\ AllTimed(x) /\ Started(x)
      BY <2>4, <2>5, <2>8, ItemsGetTimer
    <3> HIDE DEF x
    <3>2. Good(x) /\ Quiet(agent, x)
      BY <2>7, <3>1 DEF Good
    <3> QED
      BY <1>9, <1>13, <2>8, <3>2 DEF x
  <2>9. CASE ~(h.unsched > 0)
    <3>1. Good(h)
      BY <2>4, <2>5, <2>9, NothingUnscheduled DEF Good
    <3>2. Quiet(h, h)
      BY DEF Quiet
    <3> QED
      BY <1>9, <1>13, <2>7, <2>9, <3>1, <3>2
  <2> QED
    BY <2>8, <2>9
<1> QED
  BY <1>12, <1>13

-----------------------------------------------------------------------------
\* The invariant holds

LEMMA InitGood ==
  Init => IInv
<1> SUFFICES ASSUME Init PROVE Good(agent)
  BY DEF IInv
<1>1. PICK setup \in Setups : agent = NewAgent(setup)
  BY DEF Init
<1>2. /\ setup.compat \in Compats /\ setup.stun \in BOOLEAN /\ setup.upnp \in BOOLEAN
      /\ setup.tcp \in BOOLEAN
      /\ \A s \in Streams : IsFiniteSet(setup.relay[s]) /\ setup.relay[s] \in SUBSET Turns
  BY SetupsAssumption DEF Compats, Turns
<1> DEFINE x == [s \in Streams |-> NewStream(s \in setup.streams, setup.relay[s])]
           up == IF setup.upnp THEN "enabled" ELSE "disabled"
<1>3. x \in [Streams -> Stream]
  <2>1. ASSUME NEW s \in Streams PROVE NewStream(s \in setup.streams, setup.relay[s]) \in Stream
    <3>1. (s \in setup.streams) \in BOOLEAN
      OBVIOUS
    <3>2. setup.relay[s] \in {S \in SUBSET Turns : IsFiniteSet(S)}
      BY <1>2
    <3> QED
      BY <3>1, <3>2 DEF NewStream, Stream
  <2> QED
    BY <2>1
<1>4. \A s \in Streams : x[s].cands = {}
  BY DEF NewStream
<1>5. agent = [compat |-> setup.compat, stun |-> setup.stun, tcp |-> setup.tcp,
               streams |-> x, disc |-> <<>>, unsched |-> 0, timer |-> FALSE, bad |-> FALSE,
               upnp |-> up, upnpTimer |-> FALSE, mapping |-> {}, ports |-> {},
               refreshes |-> <<>>, allocs |-> {}, foundations |-> 1, uids |-> 1]
  BY <1>1 DEF NewAgent
<1>6. up \in {"enabled", "disabled", "created"}
  OBVIOUS
<1> HIDE DEF x, up
<1>7. agent \in Agent
  <2>1. <<>> \in Seq(Item) /\ <<>> \in Seq(Refresh) /\ {} \in SUBSET Port /\ {} \in SUBSET Addr
    OBVIOUS
  <2> QED
    BY <1>2, <1>3, <1>5, <1>6, <2>1 DEF Agent
<1>8. /\ agent.streams = x /\ agent.disc = <<>> /\ agent.refreshes = <<>> /\ agent.allocs = {}
      /\ ~agent.timer /\ ~agent.bad /\ agent.unsched = 0
  BY <1>5
<1>9. DOMAIN agent.disc = {} /\ DOMAIN agent.refreshes = {}
  BY <1>8
<1>10. CandsOk(agent)
  BY <1>4, <1>8 DEF CandsOk, CandsKnown, Matched, Cands
<1>11. ItemsOk(agent) /\ RefreshesOk(agent) /\ AllTimed(agent) /\ Started(agent)
  BY <1>9 DEF ItemsOk, RefreshesOk, AllTimed, Started
<1>12. AllocsOk(agent)
  BY <1>8, <1>9 DEF AllocsOk, RefreshesOf
<1>13. Scheduled(agent)
  BY <1>8 DEF Scheduled
<1> QED
  BY <1>7, <1>10, <1>11, <1>12, <1>13 DEF Good, Base

\* What Next preserves, and the condition under which it ends a gathering.
LEMMA NextGood ==
  ASSUME IInv, [Next]_vars
  PROVE  IInv' /\ Quiet(agent, agent')
<1> SUFFICES Good(agent') /\ Quiet(agent, agent')
  BY DEF IInv
<1>1. Good(agent)
  BY DEF IInv
<1>2. CASE UNCHANGED vars
  <2>1. agent' = agent
    BY <1>2 DEF vars
  <2> QED
    BY <1>1, <2>1 DEF Quiet
<1>3. ASSUME NEW expired \in SUBSET DOMAIN agent.disc, priv_discovery_tick(expired)
      PROVE  Good(agent') /\ Quiet(agent, agent')
  BY <1>1, <1>3, TickStep
<1>4. ASSUME NEW i \in DOMAIN agent.disc, NEW res \in DiscoveryResults, DiscoveryReply(i, res)
      PROVE  Good(agent') /\ Quiet(agent, agent')
  BY <1>1, <1>4, DiscoveryReplyStep
<1>5. ASSUME NEW i \in DOMAIN agent.disc, NEW res \in RelayResults, NEW l \in Lifetimes,
             RelayReply(i, res, l)
      PROVE  Good(agent') /\ Quiet(agent, agent')
  BY <1>1, <1>5, RelayReplyStep
<1>6. ASSUME NEW i \in DOMAIN agent.refreshes, priv_turn_allocate_refresh_tick(i)
      PROVE  Good(agent') /\ Quiet(agent, agent')
  BY <1>1, <1>6, RefreshTickStep
<1>7. ASSUME NEW i \in DOMAIN agent.refreshes,
             priv_turn_allocate_refresh_retransmissions_tick(i)
      PROVE  Good(agent') /\ Quiet(agent, agent')
  BY <1>1, <1>7, RetransmissionsStep
<1>8. ASSUME NEW i \in DOMAIN agent.refreshes, NEW res \in RefreshResults, NEW l \in Lifetimes,
             RefreshReply(i, res, l)
      PROVE  Good(agent') /\ Quiet(agent, agent')
  BY <1>1, <1>8, RefreshReplyStep
<1>9. ASSUME priv_upnp_timeout_cb
      PROVE  Good(agent') /\ Quiet(agent, agent')
  BY <1>1, <1>9, UpnpTimeoutStep
<1>10. ASSUME NEW port \in agent.ports, _upnp_mapped_external_port(port)
       PROVE  Good(agent') /\ Quiet(agent, agent')
  BY <1>1, <1>10, UpnpMappedStep
<1>11. ASSUME NEW port \in agent.ports, _upnp_error_mapping_port(port)
       PROVE  Good(agent') /\ Quiet(agent, agent')
  BY <1>1, <1>11, UpnpErrorStep
<1>12. ASSUME NEW s \in Streams, nice_agent_gather_candidates(s)
       PROVE  Good(agent') /\ Quiet(agent, agent')
  BY <1>1, <1>12, GatherStep
<1>13. ASSUME NEW s \in Streams, NEW n \in 0..2, GatherFails(s, n)
       PROVE  Good(agent') /\ Quiet(agent, agent')
  BY <1>1, <1>13, GatherFailsStep
<1>14. ASSUME NEW s \in Streams, NEW turn \in Servers, nice_agent_set_relay_info(s, turn)
       PROVE  Good(agent') /\ Quiet(agent, agent')
  BY <1>1, <1>14, RelayInfoStep
<1>15. ASSUME NEW s \in Streams, nice_agent_forget_relays(s)
       PROVE  Good(agent') /\ Quiet(agent, agent')
  BY <1>1, <1>15, ForgetStep
<1>16. ASSUME NEW s \in Streams, NEW c \in agent.streams[s].cands,
              component_update_selected_pair(s, c)
       PROVE  Good(agent') /\ Quiet(agent, agent')
  BY <1>1, <1>16, SelectStep
<1>17. ASSUME NEW s \in Streams, nice_agent_remove_stream(s)
       PROVE  Good(agent') /\ Quiet(agent, agent')
  BY <1>1, <1>17, RemoveStreamStep
<1> QED
  BY <1>2, <1>3, <1>4, <1>5, <1>6, <1>7, <1>8, <1>9, <1>10, <1>11, <1>12, <1>13, <1>14,
     <1>15, <1>16, <1>17 DEF Next

\* The inductive invariant of gathering: it types the agent's record and says
\* what every function that changes the agent (discovery.c, conncheck.c and
\* agent.c) may rely on between two calls made under the agent's lock.
THEOREM GatheringInvariant ==
  Spec => []IInv
<1>1. Init => IInv
  BY InitGood
<1>2. IInv /\ [Next]_vars => IInv'
  BY NextGood
<1> QED
  BY <1>1, <1>2, PTL DEF Spec

\* The discovery timer runs exactly while items are queued, the count of
\* unscheduled items never outlives the list, and the assertion of
\* discovery_schedule (discovery.c:1210) never fails, for any streams, servers
\* and sequence of calls, answers and timeouts.
THEOREM ItemsScheduledHolds ==
  Spec => []ItemsScheduled
<1>1. IInv => ItemsScheduled
  BY DEF IInv, Good, Scheduled, ItemsScheduled
<1> QED
  BY <1>1, GatheringInvariant, PTL

\* Two candidates share a foundation exactly when type, transport, stream and
\* server agree (priv_assign_foundation, discovery.c:380), however many were
\* added, pruned and removed before.
THEOREM FoundationsMatchHolds ==
  Spec => []FoundationsMatch
<1>1. IInv => FoundationsMatch
  BY DEF IInv, Good, Base, CandsOk, Matched, Alike, FoundationsMatch
<1> QED
  BY <1>1, GatheringInvariant, PTL

\* Allocations are refreshed in time exactly as long as they are wanted, and
\* no refresh or item outlives its candidate and stream (discovery.c:158,
\* component.c:167, conncheck.c:2592), for every lifetime a server may grant.
THEOREM RefreshesKeptHolds ==
  Spec => []RefreshesKept
<1>1. IInv => RefreshesKept
  <2> SUFFICES ASSUME IInv PROVE RefreshesKept
    OBVIOUS
  <2>1. RefreshTimed
    BY DEF IInv, Good, AllTimed, Timed, RefreshTimed, Refreshes, RefreshesOf
  <2>2. \A r \in Refreshes :
           LET st == agent.streams[r.stream]
           IN  st.alive /\ r.cand \in st.cands \cup {st.kept}
    BY DEF IInv, Good, Base, RefreshesOk, Refreshes, RefreshesOf
  <2>3. agent.allocs = {r.cand.addr : r \in Refreshes}
    BY DEF IInv, Good, Base, AllocsOk, Refreshes
  <2>4. \A it \in Items : agent.streams[it.stream].alive
    BY DEF IInv, Good, Base, ItemsOk, Items, ItemsOf
  <2> QED
    BY <2>1, <2>2, <2>3, <2>4 DEF RefreshesKept
<1> QED
  BY <1>1, GatheringInvariant, PTL

\* No step signals that gathering is done for a stream that still has items
\* or while the router may still confirm a port (agent_gathering_done,
\* agent.c:1924 and agent.c:1934).
THEOREM DoneAfterItemsHolds ==
  Spec => DoneAfterItems
<1>1. ASSUME IInv, [Next]_vars
      PROVE  [\A s \in Streams :
                (agent.streams[s].gathering /\ agent'.streams[s].alive
                    /\ ~agent'.streams[s].gathering)
                => /\ \A i \in DOMAIN agent'.disc : agent'.disc[i].stream # s
                   /\ ~agent'.upnpTimer]_vars
  <2>1. Quiet(agent, agent') /\ Good(agent')
    BY <1>1, NextGood DEF IInv
  <2>2. ~agent'.timer => agent'.disc = <<>>
    BY <2>1 DEF Good, Scheduled
  <2>3. DOMAIN <<>> = {}
    OBVIOUS
  <2>4. ~agent'.timer => DOMAIN agent'.disc = {}
    BY <2>2, <2>3
  <2> QED
    BY <2>1, <2>4 DEF Quiet
<1> QED
  BY <1>1, GatheringInvariant, PTL DEF Spec, DoneAfterItems
=============================================================================
