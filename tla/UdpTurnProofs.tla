--------------------------- MODULE UdpTurnProofs ---------------------------
(***************************************************************************)
(* Proofs about UdpTurn, for any peers, set-ups and bounds: data leaves in *)
(* order, the transactions that the socket's STUN agent remembers are      *)
(* outstanding, what waits has a running timer as long as the table of     *)
(* transactions has room, and channels given once are the server's.        *)
(*                                                                         *)
(* Each operator on the socket has a lemma that says what it preserves; an *)
(* action is a composition of them between Enter and Leave.                *)
(***************************************************************************)
EXTENDS UdpTurn, Recursion, FiniteSetTheorems, SequenceTheorems

-----------------------------------------------------------------------------
\* Types

Ids == 1..MaxIds
Flags == {"LONG_TERM_CREDENTIALS", "SHORT_TERM_CREDENTIALS", "NO_INDICATION_AUTH",
          "IGNORE_CREDENTIALS", "NO_ALIGNED_ATTRIBUTES"}
Transaction == [id : Ids, method : Methods, key : Keys, ltk : BOOLEAN]
StunAgents == [compat : {"RFC5389", "RFC3489", "OC2007"}, flags : SUBSET Flags,
               sent : SUBSET Transaction]
ChannelBinding == [peer : Peers, channel : Nat, renew : BOOLEAN,
                   timer : {"none", "refresh", "expire"}]
Compats == {s.compat : s \in Setups}
Sock == [open : BOOLEAN, compat : Compats, agent : StunAgents, key : Keys,
         channels : Seq(ChannelBinding), pending : Seq(Peers),
         cur : ChannelBinding \cup {None}, curmsg : TurnMessage \cup {None},
         perms : SUBSET Peers, sentperms : SUBSET Peers, permmsgs : Seq(TurnMessage),
         queues : [Peers -> Seq(Nat)], sendreqs : SUBSET Ids,
         tickBind : BOOLEAN, tickPerm : BOOLEAN, permTimer : BOOLEAN,
         again : SUBSET Nat, late : BOOLEAN, used : SUBSET Nat, out : SUBSET Req,
         data : [Peers -> Seq(Nat)]]
Budget == [data : Nat, peers : Nat, errors : Nat, timers : Nat, closes : Nat, inds : Nat,
           who : SUBSET Peers]
Answers == [msg : Message, from : Peers]

-----------------------------------------------------------------------------
\* The inductive invariant, as predicates on the socket's record

IdsOf(t, method) == {x.id : x \in {y \in t.agent.sent : y.method = method}}
PermIds(t) == {t.permmsgs[i].req.msg.id : i \in DOMAIN t.permmsgs}

\* The transactions of Send requests that are remembered are outstanding, with
\* servers that know such requests.
SendsOk(t) == IdsOf(t, "SEND") \subseteq t.sendreqs /\ (Rfc(t) => t.sendreqs = {})

\* The transactions remembered: each with its own id, those of permission
\* requests exactly while these are outstanding.
Owned(t) ==
    /\ IsFiniteSet(t.agent.sent)
    /\ \A x, y \in t.agent.sent : x.id = y.id => x = y
    /\ IdsOf(t, "CREATEPERMISSION") = PermIds(t)
    /\ SendsOk(t)
    /\ \A i, j \in DOMAIN t.permmsgs :
          i # j => t.permmsgs[i].req.msg.id # t.permmsgs[j].req.msg.id
    /\ \A i \in DOMAIN t.permmsgs : t.permmsgs[i].req.msg.method = "CREATEPERMISSION"
    /\ \A x \in t.agent.sent :
          /\ x.method = "CREATEPERMISSION" => Rfc(t)
          /\ x.method \in {"SEND", "OLD_SET_ACTIVE_DST"} => ~Rfc(t)

\* The id of the binding request is not that of a permission or Send request,
\* and nothing new gets it.
CurOwn(t) ==
    t.curmsg # None =>
      /\ t.curmsg.req.msg.id \in t.used /\ t.curmsg.req.msg.method # "SEND"
      /\ \A x \in t.agent.sent :
            x.id = t.curmsg.req.msg.id => x.method \notin {"CREATEPERMISSION", "SEND"}

\* Bindings have the timer that their state asks for (BindingsTimed).
ChannelsOk(t) ==
    Rfc(t) => \A i \in DOMAIN t.channels :
                 t.channels[i].timer = IF t.channels[i].renew THEN "expire" ELSE "refresh"

\* Send requests are those of servers with a magic cookie, which their answers
\* have as well.
Understood(m) == m.method = "SEND" => "MAGIC_COOKIE" \in m.attrs
RequestsOk(R) == \A r \in R : Understood(r.msg)

Ticking(t) == t.permmsgs # <<>> => t.tickPerm

\* Queues are for data that waits for a permission.
QueuesOk(t) ==
    \A p \in Peers : (p \in t.perms \/ t.compat # "RFC5766") => t.queues[p] = <<>>

Sound(t) == t \in Sock /\ Owned(t) /\ CurOwn(t) /\ ChannelsOk(t) /\ RequestsOk(t.out)
               /\ QueuesOk(t)
Safe(t) == Sound(t) /\ Ticking(t)

\* Peers with a permission to come have a request for it.
Asked(t) ==
    \A p \in Peers : (p \in t.sentperms \/ t.queues[p] # <<>>) =>
                        \E i \in DOMAIN t.permmsgs : t.permmsgs[i].req.peer = p

-----------------------------------------------------------------------------
\* The fields of a socket, and sockets that differ in one of them.
LEMMA SockFields ==
  ASSUME NEW t \in Sock
  PROVE  /\ t.agent \in StunAgents /\ t.agent.sent \in SUBSET Transaction
         /\ t.channels \in Seq(ChannelBinding) /\ t.pending \in Seq(Peers)
         /\ t.cur \in ChannelBinding \cup {None} /\ t.curmsg \in TurnMessage \cup {None}
         /\ t.perms \in SUBSET Peers /\ t.sentperms \in SUBSET Peers
         /\ t.permmsgs \in Seq(TurnMessage)
         /\ \A i \in DOMAIN t.permmsgs : t.permmsgs[i] \in TurnMessage
         /\ \A i \in DOMAIN t.channels : t.channels[i] \in ChannelBinding
         /\ t.queues \in [Peers -> Seq(Nat)] /\ t.data \in [Peers -> Seq(Nat)]
         /\ t.sendreqs \in SUBSET Ids /\ t.used \in SUBSET Nat /\ t.out \in SUBSET Req
         /\ t.again \in SUBSET Nat /\ t.tickBind \in BOOLEAN /\ t.tickPerm \in BOOLEAN /\ t.permTimer \in BOOLEAN
         /\ t.late \in BOOLEAN /\ t.open \in BOOLEAN /\ t.key \in Keys
<1>1. t.permmsgs \in Seq(TurnMessage) /\ t.channels \in Seq(ChannelBinding)
  BY DEF Sock
<1>2. /\ \A i \in DOMAIN t.permmsgs : t.permmsgs[i] \in TurnMessage
      /\ \A i \in DOMAIN t.channels : t.channels[i] \in ChannelBinding
  BY <1>1
<1>3. t.agent \in StunAgents /\ t.agent.sent \in SUBSET Transaction
  BY DEF Sock, StunAgents
<1> QED
  BY <1>1, <1>2, <1>3 DEF Sock

LEMMA SockUpdates ==
  ASSUME NEW t \in Sock
  PROVE  /\ \A x \in StunAgents : [t EXCEPT !.agent = x] \in Sock
         /\ \A x \in Seq(ChannelBinding) : [t EXCEPT !.channels = x] \in Sock
         /\ \A x \in Seq(Peers) : [t EXCEPT !.pending = x] \in Sock
         /\ \A x \in ChannelBinding \cup {None} : [t EXCEPT !.cur = x] \in Sock
         /\ \A x \in TurnMessage \cup {None} : [t EXCEPT !.curmsg = x] \in Sock
         /\ \A x \in SUBSET Peers : [t EXCEPT !.perms = x] \in Sock
         /\ \A x \in SUBSET Peers : [t EXCEPT !.sentperms = x] \in Sock
         /\ \A x \in Seq(TurnMessage) : [t EXCEPT !.permmsgs = x] \in Sock
         /\ \A x \in [Peers -> Seq(Nat)] : [t EXCEPT !.queues = x] \in Sock
         /\ \A x \in [Peers -> Seq(Nat)] : [t EXCEPT !.data = x] \in Sock
         /\ \A x \in SUBSET Ids : [t EXCEPT !.sendreqs = x] \in Sock
         /\ \A x \in SUBSET Nat : [t EXCEPT !.used = x] \in Sock
         /\ \A x \in SUBSET Nat : [t EXCEPT !.again = x] \in Sock
         /\ \A x \in SUBSET Req : [t EXCEPT !.out = x] \in Sock
         /\ \A x \in BOOLEAN : [t EXCEPT !.tickBind = x] \in Sock
         /\ \A x \in BOOLEAN : [t EXCEPT !.tickPerm = x] \in Sock
         /\ \A x \in BOOLEAN : [t EXCEPT !.permTimer = x] \in Sock
         /\ \A x \in BOOLEAN : [t EXCEPT !.late = x] \in Sock
<1>1. ASSUME NEW x \in StunAgents PROVE [t EXCEPT !.agent = x] \in Sock
  BY DEF Sock
<1>2. ASSUME NEW x \in Seq(ChannelBinding) PROVE [t EXCEPT !.channels = x] \in Sock
  BY DEF Sock
<1>3. ASSUME NEW x \in Seq(Peers) PROVE [t EXCEPT !.pending = x] \in Sock
  BY DEF Sock
<1>4. ASSUME NEW x \in ChannelBinding \cup {None} PROVE [t EXCEPT !.cur = x] \in Sock
  BY DEF Sock
<1>5. ASSUME NEW x \in TurnMessage \cup {None} PROVE [t EXCEPT !.curmsg = x] \in Sock
  BY DEF Sock
<1>6. ASSUME NEW x \in SUBSET Peers
      PROVE  [t EXCEPT !.perms = x] \in Sock /\ [t EXCEPT !.sentperms = x] \in Sock
  BY DEF Sock
<1>7. ASSUME NEW x \in Seq(TurnMessage) PROVE [t EXCEPT !.permmsgs = x] \in Sock
  BY DEF Sock
<1>8. ASSUME NEW x \in [Peers -> Seq(Nat)]
      PROVE  [t EXCEPT !.queues = x] \in Sock /\ [t EXCEPT !.data = x] \in Sock
  BY DEF Sock
<1>9. ASSUME NEW x \in SUBSET Ids PROVE [t EXCEPT !.sendreqs = x] \in Sock
  BY DEF Sock
<1>10. ASSUME NEW x \in SUBSET Nat
       PROVE  [t EXCEPT !.used = x] \in Sock /\ [t EXCEPT !.again = x] \in Sock
  BY DEF Sock
<1>11. ASSUME NEW x \in SUBSET Req PROVE [t EXCEPT !.out = x] \in Sock
  BY DEF Sock
<1>12. ASSUME NEW x \in BOOLEAN
       PROVE  /\ [t EXCEPT !.tickBind = x] \in Sock /\ [t EXCEPT !.tickPerm = x] \in Sock
              /\ [t EXCEPT !.permTimer = x] \in Sock /\ [t EXCEPT !.late = x] \in Sock
  BY DEF Sock
<1> QED
  BY <1>1, <1>2, <1>3, <1>4, <1>5, <1>6, <1>7, <1>8, <1>9, <1>10, <1>11, <1>12

-----------------------------------------------------------------------------
\* Transaction ids

Left1(t) == FreeIds(t) # {}
Left2(t) == \A i : FreeIds(t) \ {i} # {}
Left3(t) == \A i, j : FreeIds(t) \ {i, j} # {}

\* One id is taken at most
TakesOne(t, u) == \E i : FreeIds(t) \ {i} \subseteq FreeIds(u)

LEMMA IdsTaken ==
  ASSUME NEW t, NEW u, TakesOne(t, u)
  PROVE  (Left2(t) => Left1(u)) /\ (Left3(t) => Left2(u))
<1>1. PICK i : FreeIds(t) \ {i} \subseteq FreeIds(u)
  BY DEF TakesOne
<1>2. Left2(t) => Left1(u)
  BY <1>1 DEF Left1, Left2
<1>3. ASSUME Left3(t), NEW j PROVE FreeIds(u) \ {j} # {}
  <2>1. PICK k : k \in FreeIds(t) \ {i, j}
    BY <1>3 DEF Left3
  <2> QED
    BY <1>1, <2>1
<1> QED
  BY <1>2, <1>3 DEF Left2

LEMMA LeftLess ==
  ASSUME NEW t
  PROVE  (Left3(t) => Left2(t)) /\ (Left2(t) => Left1(t))
<1>1. ASSUME Left3(t), NEW i PROVE FreeIds(t) \ {i} # {}
  BY <1>1 DEF Left3
<1>2. Left2(t) => Left1(t)
  BY DEF Left1, Left2
<1> QED
  BY <1>1, <1>2 DEF Left2

LEMMA FreshIdFree ==
  ASSUME NEW t, Left1(t)
  PROVE  /\ FreshId(t) \in Ids /\ FreshId(t) \in Nat
         /\ FreshId(t) \notin t.used
         /\ \A x \in t.agent.sent : x.id # FreshId(t)
<1>1. FreshId(t) \in FreeIds(t)
  BY DEF Left1, FreshId
<1>2. MaxIds \in Nat
  BY TurnAssumption
<1> QED
  BY <1>1, <1>2 DEF FreeIds, Ids

-----------------------------------------------------------------------------
\* Requests

\* r.t is t after the request r.msg was made with the id i
Requested(t, r, i, method, peer, attrs) ==
    /\ r.msg \in TurnMessage /\ r.msg.req.peer = peer
    /\ r.msg.req.msg.id = i /\ r.msg.req.msg.method = method
    /\ r.msg.req.msg.class = "REQUEST"
    /\ attrs \subseteq r.msg.req.msg.attrs
    /\ r.msg.req.msg.attrs \subseteq attrs \cup {"USERNAME", "SOFTWARE", "MESSAGE_INTEGRITY"}
    /\ \E x \in Transaction :
          /\ x.id = i /\ x.method = method
          /\ r.t = [t EXCEPT !.agent = [t.agent EXCEPT !.sent = @ \cup {x}],
                             !.used = @ \cup {i}, !.out = @ \cup {r.msg.req}]

LEMMA RequestMade ==
  ASSUME NEW t \in Sock, Left1(t), NEW method \in Methods, NEW peer \in Peers,
         NEW channel \in Nat \cup {None}, NEW attrs \in SUBSET Attributes
  PROVE  LET r == Request(t, method, peer, channel, attrs)
         IN  /\ r.ok \in BOOLEAN
             /\ r.ok <=> Cardinality(t.agent.sent) < MaxSavedIds
             /\ ~r.ok => r.t = t
             /\ r.ok => Requested(t, r, FreshId(t), method, peer, attrs)
<1> DEFINE i == FreshId(t)
           at == attrs \cup {"USERNAME"}
           m == stun_agent_init_message(t.agent, "REQUEST", method, i, at)
           f == stun_agent_finish_message(t.agent, m, t.key)
           r == Request(t, method, peer, channel, attrs)
           q == [msg |-> f.msg, peer |-> peer, channel |-> channel]
<1>1. i \in Ids /\ i \in Nat /\ t.agent \in StunAgents /\ t.key \in Keys
  BY FreshIdFree, SockFields
<1> HIDE DEF i
<1>2. /\ m \in Message /\ m.class = "REQUEST" /\ m.method = method /\ m.id = i
      /\ at \subseteq m.attrs /\ m.attrs \subseteq at \cup {"SOFTWARE"}
  <2> DEFINE extra == IF "REQUEST" = "REQUEST" /\ HasCookies(t.agent) /\ "ADD_SOFTWARE" \in t.agent.flags
                      THEN {"SOFTWARE"} ELSE {}
             z == at \cup extra
             c == HasCookies(t.agent)
  <2>1. z \in SUBSET Attributes /\ at \subseteq z /\ z \subseteq at \cup {"SOFTWARE"} /\ NoKey \in Keys
        /\ c \in BOOLEAN
    BY DEF Keys, HasCookies, Attributes
  <2>2. m = [shape |-> "whole", class |-> "REQUEST", method |-> method, id |-> i,
             cookie |-> c, fpr |-> "none", code |-> 0, mac |-> NoKey, attrs |-> z]
    BY DEF stun_agent_init_message
  <2> HIDE DEF z, m, c
  <2> QED
    BY <1>1, <2>1, <2>2 DEF Message
<1> HIDE DEF m
<1> DEFINE mac == Signature(t.agent, m, t.key)
           more == IF mac # NoKey THEN {"MESSAGE_INTEGRITY"} ELSE {}
           fp == IF HasCookies(t.agent) /\ "USE_FINGERPRINT" \in t.agent.flags THEN "good" ELSE m.fpr
           n == [m EXCEPT !.mac = mac, !.attrs = m.attrs \cup more, !.fpr = fp]
           x == [id |-> i, method |-> method, key |-> t.key, ltk |-> LongTerm(t.agent) /\ mac # NoKey]
           room == Cardinality(t.agent.sent) < MaxSavedIds
<1>3. mac \in Keys
  BY <1>1 DEF Signature, Keys
<1>4. f = IF room THEN [ok |-> TRUE, agent |-> [t.agent EXCEPT !.sent = @ \cup {x}], msg |-> n]
          ELSE [ok |-> FALSE, agent |-> t.agent, msg |-> m]
  BY <1>2 DEF stun_agent_finish_message
<1>5. x \in Transaction
  BY <1>1 DEF Transaction, LongTerm
<1> HIDE DEF mac
<1>6. /\ n \in Message /\ n.class = "REQUEST" /\ n.method = method /\ n.id = i
      /\ n.attrs = m.attrs \cup more
  <2>1. fp = "none"
    BY <1>1, <1>2 DEF Message, StunAgents, Flags
  <2>2. m.attrs \cup more \in SUBSET Attributes
    BY <1>2 DEF Message, Attributes
  <2> HIDE DEF fp, more
  <2> QED
    BY <1>2, <1>3, <2>1, <2>2 DEF Message
<1> HIDE DEF n, x
<1>7. r = [ok |-> f.ok, msg |-> [req |-> q, left |-> MaxRetrans],
           t |-> IF ~f.ok THEN t
                 ELSE [t EXCEPT !.agent = f.agent, !.used = @ \cup {q.msg.id}, !.out = @ \cup {q}]]
  BY DEF Request, m, i
<1> HIDE DEF f, r, room
<1>8. CASE room
  <2>1. f.ok /\ f.msg = n /\ f.agent = [t.agent EXCEPT !.sent = @ \cup {x}] /\ f.ok = TRUE
    BY <1>4, <1>8
  <2>2. q \in Req /\ q.msg = n /\ q.peer = peer
    BY <1>6, <2>1 DEF Req
  <2> HIDE DEF q
  <2>3. r.ok = TRUE /\ r.msg = [req |-> q, left |-> MaxRetrans]
        /\ r.t = [t EXCEPT !.agent = f.agent, !.used = @ \cup {i}, !.out = @ \cup {q}]
    BY <1>6, <1>7, <2>1, <2>2
  <2>4. r.msg \in TurnMessage /\ r.msg.req = q
    BY <2>2, <2>3, TurnAssumption DEF TurnMessage
  <2>5. attrs \subseteq n.attrs
        /\ n.attrs \subseteq attrs \cup {"USERNAME", "SOFTWARE", "MESSAGE_INTEGRITY"}
    BY <1>2, <1>6
  <2>6. x.id = i /\ x.method = method
    BY DEF x
  <2>7. \E y \in Transaction :
           /\ y.id = i /\ y.method = method
           /\ r.t = [t EXCEPT !.agent = [t.agent EXCEPT !.sent = @ \cup {y}],
                              !.used = @ \cup {i}, !.out = @ \cup {r.msg.req}]
    BY <1>5, <2>1, <2>3, <2>4, <2>6
  <2>8. Requested(t, r, i, method, peer, attrs)
    BY <1>6, <2>2, <2>4, <2>5, <2>7 DEF Requested
  <2> QED
    BY <1>8, <2>3, <2>8 DEF r, i, room
<1>9. CASE ~room
  <2>1. f.ok = FALSE
    BY <1>4, <1>9
  <2>2. r.ok = FALSE /\ r.t = t
    BY <1>7, <2>1
  <2> QED
    BY <1>9, <2>2 DEF r, room
<1> QED
  BY <1>8, <1>9

-----------------------------------------------------------------------------
\* What the operations on channel bindings leave alone

SameRest(t, u) ==
    /\ u.open = t.open /\ u.compat = t.compat /\ u.key = t.key
    /\ u.perms = t.perms /\ u.sentperms = t.sentperms /\ u.permmsgs = t.permmsgs
    /\ u.queues = t.queues /\ u.sendreqs = t.sendreqs /\ u.permTimer = t.permTimer
    /\ u.data = t.data
Frame(t, u) == SameRest(t, u) /\ (Ticking(t) => Ticking(u))
SameBinding(t, u) == u.channels = t.channels /\ u.pending = t.pending /\ u.cur = t.cur

LEMMA FrameTransitive ==
  ASSUME NEW t, NEW u, NEW v, Frame(t, u), Frame(u, v)
  PROVE  Frame(t, v)
  BY DEF Frame, SameRest

LEMMA SoundFrame ==
  ASSUME NEW t, NEW u \in Sock, Sound(t), SameRest(t, u), Owned(u), CurOwn(u), ChannelsOk(u),
         RequestsOk(u.out)
  PROVE  Sound(u)
  BY DEF Sound, SameRest, QueuesOk

LEMMA OwnedSame ==
  ASSUME NEW t, NEW u, Owned(t), u.agent.sent = t.agent.sent, u.permmsgs = t.permmsgs,
         u.sendreqs = t.sendreqs, u.compat = t.compat
  PROVE  Owned(u)
<1>1. /\ IdsOf(u, "CREATEPERMISSION") = IdsOf(t, "CREATEPERMISSION")
      /\ IdsOf(u, "SEND") = IdsOf(t, "SEND") /\ PermIds(u) = PermIds(t) /\ Rfc(u) = Rfc(t)
  BY DEF IdsOf, PermIds, Rfc
<1> QED
  BY <1>1 DEF Owned, SendsOk

\* A transaction that is neither of a permission nor of a Send request
LEMMA OwnedAdds ==
  ASSUME NEW t \in Sock, NEW u \in Sock, NEW x, Owned(t), u.agent.sent = t.agent.sent \cup {x},
         \A y \in t.agent.sent : y.id # x.id, x.method \notin {"CREATEPERMISSION", "SEND"},
         x.method = "OLD_SET_ACTIVE_DST" => ~Rfc(t),
         u.permmsgs = t.permmsgs, u.sendreqs = t.sendreqs, u.compat = t.compat
  PROVE  Owned(u)
<1>1. IsFiniteSet(u.agent.sent)
  BY FS_AddElement DEF Owned
<1>2. \A y, z \in u.agent.sent : y.id = z.id => y = z
  BY DEF Owned
<1>3. IdsOf(u, "CREATEPERMISSION") = IdsOf(t, "CREATEPERMISSION")
      /\ SendsOk(u) /\ PermIds(u) = PermIds(t)
  BY DEF IdsOf, PermIds, Owned, SendsOk, Rfc
<1>4. \A y \in u.agent.sent : /\ y.method = "CREATEPERMISSION" => Rfc(u)
                              /\ y.method \in {"SEND", "OLD_SET_ACTIVE_DST"} => ~Rfc(u)
  BY DEF Owned, Rfc
<1> QED
  BY <1>1, <1>2, <1>3, <1>4 DEF Owned

\* The transaction with one id is forgotten, with what was outstanding for it
LEMMA OwnedForgets ==
  ASSUME NEW t \in Sock, NEW u \in Sock, NEW id, Owned(t),
         u.agent.sent = {y \in t.agent.sent : y.id # id},
         PermIds(u) = PermIds(t) \ {id},
         u.sendreqs \subseteq t.sendreqs, t.sendreqs \ {id} \subseteq u.sendreqs,
         \A i, j \in DOMAIN u.permmsgs :
            i # j => u.permmsgs[i].req.msg.id # u.permmsgs[j].req.msg.id,
         \A i \in DOMAIN u.permmsgs : u.permmsgs[i].req.msg.method = "CREATEPERMISSION",
         u.compat = t.compat
  PROVE  Owned(u)
<1>1. IsFiniteSet(u.agent.sent)
  BY FS_Subset DEF Owned
<1>2. \A y, z \in u.agent.sent : y.id = z.id => y = z
  BY DEF Owned
<1>3. ASSUME NEW m PROVE IdsOf(u, m) = IdsOf(t, m) \ {id}
  BY DEF IdsOf
<1>4. \A y \in u.agent.sent : /\ y.method = "CREATEPERMISSION" => Rfc(u)
                              /\ y.method \in {"SEND", "OLD_SET_ACTIVE_DST"} => ~Rfc(u)
  BY DEF Owned, Rfc
<1>5. SendsOk(u)
  BY <1>3 DEF Owned, SendsOk, Rfc
<1> QED
  BY <1>1, <1>2, <1>3, <1>4, <1>5 DEF Owned

LEMMA ScheduleTickDone ==
  ASSUME NEW t, Sound(t)
  PROVE  LET u == ScheduleTick(t)
         IN  /\ Safe(u) /\ Frame(t, u) /\ SameBinding(t, u) /\ FreeIds(u) = FreeIds(t)
             /\ u.curmsg = t.curmsg /\ u.agent = t.agent /\ u.used = t.used /\ u.out = t.out
<1> DEFINE a == [t EXCEPT !.tickBind = t.curmsg # None]
           u == ScheduleTick(t)
<1>1. t \in Sock
  BY DEF Sound
<1>2. a \in Sock /\ a.permmsgs = t.permmsgs
  <2>1. (t.curmsg # None) \in BOOLEAN
    OBVIOUS
  <2>2. a \in Sock
    BY <1>1, <2>1, SockUpdates
  <2> QED
    BY <1>1, <2>2 DEF Sock
<1>3. u = [a EXCEPT !.tickPerm = t.permmsgs # <<>>]
  BY <1>1 DEF ScheduleTick, Sock
<1>4. u \in Sock
  <2> HIDE DEF u, a
  <2> QED
    BY <1>2, <1>3, SockUpdates
<1>5. /\ u.curmsg = t.curmsg /\ u.agent = t.agent /\ u.used = t.used /\ u.out = t.out
      /\ SameRest(t, u) /\ SameBinding(t, u) /\ u.tickPerm = (u.permmsgs # <<>>)
  BY <1>1 DEF ScheduleTick, Sock, SameRest, SameBinding
<1> HIDE DEF u, a
<1>6. FreeIds(u) = FreeIds(t)
  BY <1>5 DEF FreeIds
<1>7. Ticking(u)
  BY <1>5 DEF Ticking
<1>8. Sound(u)
  <2>1. Owned(u)
    BY <1>5, OwnedSame DEF Sound, SameRest
  <2>2. CurOwn(u) /\ ChannelsOk(u) /\ RequestsOk(u.out)
    BY <1>5 DEF Sound, CurOwn, ChannelsOk, SameBinding, SameRest, Rfc
  <2> QED
    BY <1>4, <1>5, <2>1, <2>2, SoundFrame
<1> QED
  BY <1>5, <1>6, <1>7, <1>8 DEF u, Safe, Frame

\* The binding request becomes m, whose id is taken and not that of another
\* request.
LEMMA MessageSent ==
  ASSUME NEW t, Sound(t), NEW m \in TurnMessage, m.req.msg.id \in t.used,
         m.req.msg.method # "SEND",
         \A x \in t.agent.sent : x.id = m.req.msg.id => x.method \notin {"CREATEPERMISSION", "SEND"}
  PROVE  LET u == priv_send_turn_message(t, m)
         IN  /\ Safe(u) /\ Frame(t, u) /\ SameBinding(t, u) /\ FreeIds(u) = FreeIds(t)
             /\ u.curmsg = m
<1> DEFINE a == [t EXCEPT !.curmsg = m]
           b == [t EXCEPT !.curmsg = m, !.late = FALSE]
           u == priv_send_turn_message(t, m)
<1>1. t \in Sock
  BY DEF Sound
<1>2. a \in Sock
  BY <1>1, SockUpdates
<1>3. b = [a EXCEPT !.late = FALSE]
  BY <1>1 DEF Sock
<1>4. b \in Sock
  <2> HIDE DEF a, b
  <2> QED
    BY <1>2, <1>3, SockUpdates
<1>5. /\ b.curmsg = m /\ b.agent = t.agent /\ b.used = t.used /\ b.out = t.out
      /\ SameRest(t, b) /\ SameBinding(t, b) /\ b.tickPerm = t.tickPerm
  BY <1>1 DEF Sock, SameRest, SameBinding
<1>6. u = ScheduleTick(b)
  BY DEF priv_send_turn_message
<1> HIDE DEF a, b, u
<1>7. Sound(b)
  <2>1. Owned(b)
    BY <1>5, OwnedSame DEF Sound, SameRest
  <2>2. CurOwn(b) /\ ChannelsOk(b) /\ RequestsOk(b.out)
    BY <1>5 DEF Sound, CurOwn, ChannelsOk, SameBinding, SameRest, Rfc
  <2> QED
    BY <1>4, <1>5, <2>1, <2>2, SoundFrame
<1>8. Frame(t, b) /\ FreeIds(b) = FreeIds(t)
  BY <1>5 DEF Frame, Ticking, SameRest, FreeIds
<1>9. /\ Safe(u) /\ Frame(b, u) /\ SameBinding(b, u) /\ FreeIds(u) = FreeIds(b)
      /\ u.curmsg = b.curmsg
  BY <1>6, <1>7, ScheduleTickDone
<1>10. Frame(t, u) /\ SameBinding(t, u)
  BY <1>5, <1>8, <1>9, FrameTransitive DEF SameBinding
<1> QED
  BY <1>5, <1>8, <1>9, <1>10 DEF u

\* A request for a binding is made and sent.
LEMMA BindingRequested ==
  ASSUME NEW t, Sound(t), Left1(t), NEW method \in {"CHANNELBIND", "OLD_SET_ACTIVE_DST"},
         method = "OLD_SET_ACTIVE_DST" => ~Rfc(t), NEW peer \in Peers,
         NEW channel \in Nat \cup {None}, NEW attrs \in SUBSET Attributes
  PROVE  LET r == Request(t, method, peer, channel, attrs)
         IN  /\ r.ok \in BOOLEAN
             /\ r.ok => /\ Sound(r.t) /\ Frame(t, r.t) /\ SameBinding(t, r.t)
                        /\ TakesOne(t, r.t)
                        /\ r.msg \in TurnMessage /\ r.msg.req.msg.id \in r.t.used
                        /\ r.msg.req.msg.method # "SEND"
                        /\ \A x \in r.t.agent.sent :
                              x.id = r.msg.req.msg.id =>
                                 x.method \notin {"CREATEPERMISSION", "SEND"}
<1> DEFINE r == Request(t, method, peer, channel, attrs)
           u == r.t
           i == FreshId(t)
           q == r.msg.req
<1>1. t \in Sock /\ method \in Methods
  BY DEF Sound, Methods
<1>2. /\ r.ok \in BOOLEAN
      /\ r.ok => Requested(t, r, i, method, peer, attrs)
  BY <1>1, RequestMade
<1>3. i \in Ids /\ i \in Nat /\ i \notin t.used /\ \A x \in t.agent.sent : x.id # i
  BY FreshIdFree
<1> HIDE DEF r, i
<1> SUFFICES ASSUME r.ok
             PROVE  /\ Sound(u) /\ Frame(t, u) /\ SameBinding(t, u) /\ TakesOne(t, u)
                    /\ r.msg \in TurnMessage /\ q.msg.id \in u.used /\ q.msg.method # "SEND"
                    /\ \A x \in u.agent.sent :
                          x.id = q.msg.id => x.method \notin {"CREATEPERMISSION", "SEND"}
  BY <1>2 DEF r
<1>4. PICK x \in Transaction :
         /\ x.id = i /\ x.method = method
         /\ u = [t EXCEPT !.agent = [t.agent EXCEPT !.sent = @ \cup {x}],
                          !.used = @ \cup {i}, !.out = @ \cup {q}]
  BY <1>2 DEF Requested
<1>5. r.msg \in TurnMessage /\ q.msg.id = i /\ q.msg.method = method /\ q \in Req
  BY <1>2 DEF Requested, TurnMessage
<1> DEFINE A == [t.agent EXCEPT !.sent = @ \cup {x}]
           B == t.used \cup {i}
           C == t.out \cup {q}
<1>6. A \in StunAgents /\ A.sent = t.agent.sent \cup {x} /\ B \in SUBSET Nat /\ C \in SUBSET Req
  <2> HIDE DEF u, q
  <2>1. /\ t.agent \in StunAgents /\ t.agent.sent \in SUBSET Transaction
        /\ t.used \in SUBSET Nat /\ t.out \in SUBSET Req
    BY <1>1, SockFields
  <2>2. t.agent.sent \cup {x} \in SUBSET Transaction
    BY <1>4, <2>1
  <2>3. A \in StunAgents /\ A.sent = t.agent.sent \cup {x}
    BY <2>1, <2>2 DEF StunAgents
  <2> QED
    BY <1>3, <1>5, <2>1, <2>3
<1>7. u = [t EXCEPT !.agent = A, !.used = B, !.out = C]
  BY <1>4
<1> HIDE DEF A, u, q
<1>8. /\ u \in Sock /\ SameRest(t, u) /\ SameBinding(t, u) /\ u.agent = A /\ u.used = B /\ u.out = C
      /\ u.curmsg = t.curmsg /\ u.tickPerm = t.tickPerm
  <2> HIDE DEF B, C
  <2> QED
    BY <1>1, <1>6, <1>7 DEF Sock, SameRest, SameBinding
<1>9. Owned(u)
  <2>1. Owned(t)
    BY DEF Sound
  <2> QED
    <3>1. \A y \in t.agent.sent : y.id # x.id
      BY <1>3, <1>4
    <3>2. /\ x.method \notin {"CREATEPERMISSION", "SEND"}
          /\ x.method = "OLD_SET_ACTIVE_DST" => ~Rfc(t)
      BY <1>4
    <3>3. /\ u.agent.sent = t.agent.sent \cup {x} /\ u.permmsgs = t.permmsgs
          /\ u.sendreqs = t.sendreqs /\ u.compat = t.compat
      BY <1>6, <1>8 DEF SameRest
    <3> QED
      BY <1>1, <1>8, <2>1, <3>1, <3>2, <3>3, OwnedAdds
<1>10. CurOwn(u)
  BY <1>4, <1>6, <1>8 DEF Sound, CurOwn
<1>11. ChannelsOk(u) /\ RequestsOk(u.out)
  BY <1>5, <1>8 DEF Sound, ChannelsOk, SameBinding, SameRest, Rfc, RequestsOk, Understood
<1>12. Sound(u) /\ Frame(t, u)
  BY <1>8, <1>9, <1>10, <1>11, SoundFrame DEF Frame, Ticking, SameRest
<1>13. TakesOne(t, u)
  <2>1. FreeIds(t) \ {i} \subseteq FreeIds(u)
    BY <1>4, <1>6, <1>8 DEF FreeIds
  <2> QED
    BY <2>1 DEF TakesOne
<1>14. \A y \in u.agent.sent :
          y.id = q.msg.id => y.method \notin {"CREATEPERMISSION", "SEND"}
  BY <1>3, <1>4, <1>5, <1>6, <1>8
<1>15. q.msg.id \in u.used
  BY <1>5, <1>8
<1> QED
  BY <1>5, <1>8, <1>12, <1>13, <1>14, <1>15

-----------------------------------------------------------------------------
\* Channel bindings

\* An operation on bindings that makes one request at most
Step(t, u) == Sound(u) /\ Frame(t, u) /\ TakesOne(t, u)

LEMMA StepSame ==
  ASSUME NEW t, Sound(t)
  PROVE  Step(t, t)
  BY DEF Step, Frame, SameRest, TakesOne

LEMMA TakesOneSame ==
  ASSUME NEW t, NEW u, NEW v, TakesOne(t, u), FreeIds(v) = FreeIds(u)
  PROVE  TakesOne(t, v)
  BY DEF TakesOne

LEMMA ChannelBindSent ==
  ASSUME NEW t, Sound(t), Left1(t), NEW realm \in BOOLEAN, NEW channel \in Nat, NEW peer \in Peers
  PROVE  LET r == priv_send_channel_bind(t, realm, channel, peer)
         IN  /\ r = [ok |-> r.ok, t |-> r.t] /\ r.ok \in BOOLEAN
             /\ Step(t, r.t) /\ SameBinding(t, r.t) /\ (~r.ok => r.t = t)
<1> DEFINE attrs == IF realm THEN {"REALM", "NONCE"} ELSE {}
           q == Request(t, "CHANNELBIND", peer, channel, attrs)
           r == priv_send_channel_bind(t, realm, channel, peer)
<1>1. attrs \in SUBSET Attributes
  BY DEF Attributes
<1>2. r = [ok |-> q.ok, t |-> IF q.ok THEN priv_send_turn_message(q.t, q.msg) ELSE t]
  BY DEF priv_send_channel_bind
<1> HIDE DEF attrs, r
<1>3. /\ q.ok \in BOOLEAN
      /\ q.ok => /\ Sound(q.t) /\ Frame(t, q.t) /\ SameBinding(t, q.t)
                 /\ TakesOne(t, q.t)
                 /\ q.msg \in TurnMessage /\ q.msg.req.msg.id \in q.t.used /\ q.msg.req.msg.method # "SEND"
                 /\ \A x \in q.t.agent.sent :
                       x.id = q.msg.req.msg.id =>
                          x.method \notin {"CREATEPERMISSION", "SEND"}
  BY <1>1, BindingRequested
<1> HIDE DEF q
<1>4. CASE q.ok
  <2> DEFINE u == priv_send_turn_message(q.t, q.msg)
  <2>1. /\ Safe(u) /\ Frame(q.t, u) /\ SameBinding(q.t, u) /\ FreeIds(u) = FreeIds(q.t)
    BY <1>3, <1>4, MessageSent
  <2>2. r.t = u /\ r.ok = q.ok
    BY <1>2, <1>4
  <2> HIDE DEF u
  <2>3. Step(t, u) /\ SameBinding(t, u)
    BY <1>3, <1>4, <2>1, FrameTransitive, TakesOneSame DEF Step, Safe, SameBinding
  <2> QED
    BY <1>2, <1>3, <1>4, <2>2, <2>3 DEF r
<1>5. CASE ~q.ok
  <2>1. r.t = t /\ r.ok = q.ok
    BY <1>2, <1>5
  <2> QED
    BY <1>2, <1>3, <2>1, StepSame DEF r, SameBinding
<1> QED
  BY <1>3, <1>4, <1>5

\* The number that the search for a free channel ends with
LEMMA FreeChannelNat ==
  ASSUME NEW channels, Len(channels) \in Nat
  PROVE  FreeChannel(channels) \in Nat
<1> DEFINE n == Len(channels)
           D == [i : Nat, c : Nat]
           Go(s) == IF s.i > n THEN s
                    ELSE IF channels[s.i].channel = s.c THEN [i |-> 2, c |-> s.c + 1]
                    ELSE [s EXCEPT !.i = @ + 1]
           b == [i |-> 1, c |-> Base]
           step[k \in Nat] ==
              IF k = 0 THEN [i |-> 1, c |-> Base]
              ELSE LET s == step[k - 1]
                   IN  IF s.i > n THEN s
                       ELSE IF channels[s.i].channel = s.c THEN [i |-> 2, c |-> s.c + 1]
                       ELSE [s EXCEPT !.i = @ + 1]
           G == [k \in Nat |-> [s \in D |-> Go(s)]]
<1>1. FreeChannel(channels) = step[(n + 1) * (n + 1)].c
  BY DEF FreeChannel
<1>2. \A s \in D : Go(s) \in D
  OBVIOUS
<1>3. b \in D
  BY DEF Base
<1>4. IsNatStep(G, D)
  <2> HIDE DEF D, Go
  <2> QED
    BY <1>2 DEF IsNatStep
<1>5. PICK g : NatIterates(g, D, b, G)
  <2> HIDE DEF D, G, b
  <2> QED
    BY <1>3, <1>4, NatRecursionExists, Zenon
<1>6. g \in [Nat -> D] /\ g[0] = b
  BY <1>5, Zenon DEF NatIterates
<1>7. ASSUME NEW k \in Nat \ {0} PROVE g[k] = Go(g[k - 1])
  <2> HIDE DEF D, Go
  <2>1. g[k] = G[k][g[k - 1]] /\ g[k - 1] \in D
    BY <1>5, <1>6 DEF NatIterates
  <2> QED
    BY <2>1
<1>8. g = [k \in Nat |-> IF k = 0 THEN [i |-> 1, c |-> Base] ELSE Go(g[k - 1])]
  <2>1. ASSUME NEW k \in Nat
        PROVE  g[k] = IF k = 0 THEN [i |-> 1, c |-> Base] ELSE Go(g[k - 1])
    <3> HIDE DEF D, Go
    <3> QED
      BY <1>6, <1>7
  <2> HIDE DEF D, Go
  <2> QED
    BY <1>6, <2>1
<1>9. \E f : f = [k \in Nat |-> IF k = 0 THEN [i |-> 1, c |-> Base] ELSE Go(f[k - 1])]
  BY <1>8, Zenon
<1>10. step = [k \in Nat |-> IF k = 0 THEN [i |-> 1, c |-> Base] ELSE Go(step[k - 1])]
  BY <1>9, Zenon DEF step
<1> HIDE DEF step, G
<1>11. step[0] = b /\ \A k \in Nat : step[k + 1] = Go(step[k])
  <2> HIDE DEF Go, D
  <2>1. \A k \in Nat : step[k] = IF k = 0 THEN [i |-> 1, c |-> Base] ELSE Go(step[k - 1])
    BY <1>10, Zenon
  <2>2. ASSUME NEW k \in Nat PROVE step[k + 1] = Go(step[k])
    <3>1. k + 1 \in Nat /\ k + 1 # 0 /\ k + 1 - 1 = k
      OBVIOUS
    <3> QED
      BY <2>1, <3>1
  <2>3. step[0] = b
    BY <2>1
  <2> QED
    BY <2>2, <2>3
<1> DEFINE T == {k \in Nat : step[k] \in D}
<1>12. 0 \in T
  BY <1>3, <1>11
<1>13. \A k \in Nat : k \in T => k + 1 \in T
  <2> SUFFICES ASSUME NEW k \in Nat, k \in T PROVE k + 1 \in T
    OBVIOUS
  <2>1. step[k] \in D /\ step[k + 1] = Go(step[k])
    BY <1>11
  <2> HIDE DEF D, Go
  <2>2. step[k + 1] \in D
    BY <1>2, <2>1
  <2> QED
    BY <2>2
<1>14. \A k \in Nat : k \in T
  <2> HIDE DEF T
  <2> QED
    BY <1>12, <1>13, NatSetInduction
<1>15. (n + 1) * (n + 1) \in Nat
  OBVIOUS
<1>16. step[(n + 1) * (n + 1)] \in D
  BY <1>14, <1>15
<1> QED
  BY <1>1, <1>16

\* What priv_add_channel_binding returns
Added(t, r) ==
    /\ r = [ok |-> r.ok, t |-> r.t] /\ r.ok \in BOOLEAN
    /\ Step(t, r.t) /\ Len(r.t.pending) >= Len(t.pending)
    /\ ~r.ok => FreeIds(r.t) = FreeIds(t)

\* A change to the bindings that keeps their timers right.
LEMMA BindingsChanged ==
  ASSUME NEW t, NEW u \in Sock, Sound(t), SameRest(t, u), u.agent = t.agent, u.curmsg = t.curmsg,
         u.used = t.used, u.out = t.out, u.tickPerm = t.tickPerm, ChannelsOk(u)
  PROVE  Step(t, u) /\ FreeIds(u) = FreeIds(t)
<1>1. Owned(u)
  BY OwnedSame DEF Sound, SameRest
<1>2. CurOwn(u) /\ RequestsOk(u.out)
  BY DEF Sound, CurOwn
<1>3. Sound(u)
  BY <1>1, <1>2, SoundFrame
<1>4. Frame(t, u) /\ FreeIds(u) = FreeIds(t)
  BY DEF Frame, SameRest, Ticking, FreeIds
<1> QED
  BY <1>3, <1>4 DEF Step, TakesOne

LEMMA CurChanged ==
  ASSUME NEW t, Sound(t), NEW b \in ChannelBinding \cup {None}
  PROVE  LET u == [t EXCEPT !.cur = b]
         IN  Step(t, u) /\ FreeIds(u) = FreeIds(t) /\ u.pending = t.pending /\ u.agent = t.agent
             /\ u.used = t.used
<1> DEFINE u == [t EXCEPT !.cur = b]
<1>1. t \in Sock
  BY DEF Sound
<1>2. u \in Sock
  BY <1>1, SockUpdates
<1>3. /\ SameRest(t, u) /\ u.agent = t.agent /\ u.curmsg = t.curmsg /\ u.channels = t.channels
      /\ u.pending = t.pending /\ u.used = t.used /\ u.out = t.out /\ u.tickPerm = t.tickPerm
  BY <1>1 DEF Sock, SameRest
<1> HIDE DEF u
<1>4. ChannelsOk(u)
  BY <1>3 DEF Sound, ChannelsOk, SameRest, Rfc
<1> QED
  BY <1>2, <1>3, <1>4, BindingsChanged DEF u

\* ... of a new binding, whose number may be that of another
LEMMA NewCurChanged ==
  ASSUME NEW t, Sound(t), NEW b \in ChannelBinding \cup {None}, NEW D \in SUBSET Nat
  PROVE  LET u == [t EXCEPT !.cur = b, !.again = D]
         IN  Step(t, u) /\ FreeIds(u) = FreeIds(t) /\ u.pending = t.pending
<1> DEFINE u == [t EXCEPT !.cur = b, !.again = D]
<1>1. t \in Sock
  BY DEF Sound
<1>2. /\ u \in Sock /\ SameRest(t, u) /\ u.agent = t.agent /\ u.curmsg = t.curmsg
      /\ u.channels = t.channels /\ u.pending = t.pending /\ u.used = t.used /\ u.out = t.out
      /\ u.tickPerm = t.tickPerm
  BY <1>1 DEF Sock, SameRest
<1> HIDE DEF u
<1>3. ChannelsOk(u)
  BY <1>2 DEF Sound, ChannelsOk, SameRest, Rfc
<1> QED
  BY <1>2, <1>3, BindingsChanged DEF u

\* What priv_add_channel_binding does with the answer s of
\* priv_send_channel_bind for channel c
LEMMA BindingNamed ==
  ASSUME NEW t, t.cur = None, Rfc(t), NEW peer
  PROVE  LET c == FreeChannel(t.channels)
             s == priv_send_channel_bind(t, FALSE, c, peer)
         IN  priv_add_channel_binding(t, peer) =
               IF s.ok THEN [s EXCEPT !.t.cur = Binding(peer, c), !.t.again = @ \cup Taken(t, c)]
               ELSE s
<1>1. t.cur = None /\ Rfc(t) /\ ~(t.compat \in {"MSN", "OC2007"})
  BY DEF Rfc
<1> QED
  BY <1>1, Zenon DEF priv_add_channel_binding

LEMMA TakenNat ==
  ASSUME NEW t \in Sock, NEW u \in Sock, NEW c
  PROVE  u.again \cup Taken(t, c) \in SUBSET Nat
<1>1. t.channels \in Seq(ChannelBinding) /\ u.again \in SUBSET Nat
  BY SockFields
<1>2. \A i \in 1..Len(t.channels) : t.channels[i] \in ChannelBinding
  BY <1>1
<1> QED
  BY <1>1, <1>2 DEF Taken, ChannelBinding

LEMMA PendingChanged ==
  ASSUME NEW t, Sound(t), NEW q \in Seq(Peers)
  PROVE  LET u == [t EXCEPT !.pending = q]
         IN  Step(t, u) /\ FreeIds(u) = FreeIds(t) /\ u.pending = q
<1> DEFINE u == [t EXCEPT !.pending = q]
<1>1. t \in Sock
  BY DEF Sound
<1>2. u \in Sock
  BY <1>1, SockUpdates
<1>3. /\ SameRest(t, u) /\ u.agent = t.agent /\ u.curmsg = t.curmsg /\ u.channels = t.channels
      /\ u.pending = q /\ u.used = t.used /\ u.out = t.out /\ u.tickPerm = t.tickPerm
  BY <1>1 DEF Sock, SameRest
<1> HIDE DEF u
<1>4. ChannelsOk(u)
  BY <1>3 DEF Sound, ChannelsOk, SameRest, Rfc
<1> QED
  BY <1>2, <1>3, <1>4, BindingsChanged DEF u

LEMMA BindingType ==
  ASSUME NEW p \in Peers, NEW c \in Nat
  PROVE  Binding(p, c) \in ChannelBinding
  BY DEF Binding, ChannelBinding

LEMMA StepThen ==
  ASSUME NEW t, NEW u, NEW v, Step(t, u), Sound(v), Frame(u, v), FreeIds(v) = FreeIds(u)
  PROVE  Step(t, v)
  BY FrameTransitive, TakesOneSame DEF Step

LEMMA AddBinding ==
  ASSUME NEW t, Sound(t), Left1(t), NEW peer \in Peers
  PROVE  Added(t, priv_add_channel_binding(t, peer))
<1> DEFINE r == priv_add_channel_binding(t, peer)
<1>1. t \in Sock /\ t.pending \in Seq(Peers) /\ t.channels \in Seq(ChannelBinding)
  BY SockFields DEF Sound
<1>0. Len(t.pending) >= Len(t.pending)
  BY <1>1
<1>2. CASE t.cur # None
  <2> DEFINE q == Append(t.pending, peer)
             u == [t EXCEPT !.pending = q]
  <2>1. q \in Seq(Peers) /\ Len(q) >= Len(t.pending)
    BY <1>1
  <2>2. r = [ok |-> FALSE, t |-> u]
    BY <1>2 DEF priv_add_channel_binding
  <2> HIDE DEF q, r
  <2>3. Step(t, u) /\ FreeIds(u) = FreeIds(t) /\ u.pending = q
    BY <2>1, PendingChanged
  <2> HIDE DEF u
  <2>4. Added(t, r)
    BY <2>1, <2>2, <2>3 DEF Added
  <2> QED
    BY <2>4 DEF r
<1>3. CASE t.cur = None /\ Rfc(t)
  <2> DEFINE c == FreeChannel(t.channels)
             s == priv_send_channel_bind(t, FALSE, c, peer)
             b == Binding(peer, c)
             D == s.t.again \cup Taken(t, c)
             u == [s.t EXCEPT !.cur = b, !.again = D]
  <2>1. c \in Nat /\ b \in ChannelBinding \cup {None}
    BY <1>1, FreeChannelNat, BindingType
  <2>2. r = IF s.ok THEN [s EXCEPT !.t.cur = b, !.t.again = @ \cup Taken(t, c)] ELSE s
    BY <1>3, BindingNamed
  <2> HIDE DEF c, b, r
  <2>3. /\ s = [ok |-> s.ok, t |-> s.t] /\ s.ok \in BOOLEAN
        /\ Step(t, s.t) /\ SameBinding(t, s.t) /\ (~s.ok => s.t = t)
    BY <2>1, ChannelBindSent
  <2> HIDE DEF s
  <2>4. CASE s.ok
    <3>0. D \in SUBSET Nat
      BY <1>1, <2>3, TakenNat DEF Step, Sound
    <3>2. r = [ok |-> TRUE, t |-> u]
      BY <2>2, <2>3, <2>4
    <3> HIDE DEF D
    <3>5. Sound(s.t) /\ s.t.pending = t.pending
      BY <2>3 DEF Step, SameBinding
    <3>1. Step(s.t, u) /\ FreeIds(u) = FreeIds(s.t) /\ u.pending = t.pending
      <4> DEFINE e == s.t
                 v == [e EXCEPT !.cur = b, !.again = D]
      <4> HIDE DEF e
      <4>1. Sound(e) /\ e.pending = t.pending
        BY <3>5 DEF e
      <4>2. Step(e, v) /\ FreeIds(v) = FreeIds(e) /\ v.pending = e.pending
        BY <2>1, <3>0, <4>1, NewCurChanged
      <4>3. u = v
        BY DEF e
      <4> HIDE DEF u, v
      <4> QED
        BY <4>1, <4>2, <4>3 DEF e
    <3> HIDE DEF u
    <3>3. Step(t, u)
      BY <2>3, <3>1, StepThen DEF Step
    <3>4. Added(t, r)
      BY <1>0, <3>1, <3>2, <3>3 DEF Added
    <3> QED
      BY <3>4 DEF r
  <2>5. CASE ~s.ok
    <3>1. r = s /\ Len(t.pending) >= Len(t.pending)
      BY <1>1, <2>2, <2>5
    <3>2. Added(t, s)
      BY <2>3, <2>5, <3>1 DEF Added
    <3> QED
      BY <3>1, <3>2 DEF r
  <2> QED
    BY <2>3, <2>4, <2>5
<1>4. CASE t.cur = None /\ ~Rfc(t) /\ t.compat \in {"MSN", "OC2007"}
  <2> DEFINE attrs == {"MAGIC_COOKIE", "DESTINATION"}
             q == Request(t, "OLD_SET_ACTIVE_DST", peer, 0, attrs)
             b == Binding(peer, 0)
             v == [q.t EXCEPT !.cur = b]
             u == priv_send_turn_message(v, q.msg)
  <2>1. attrs \in SUBSET Attributes /\ b \in ChannelBinding \cup {None}
    BY BindingType DEF Attributes
  <2>2. r = IF q.ok THEN [ok |-> TRUE, t |-> u] ELSE [ok |-> FALSE, t |-> t]
    BY <1>4 DEF priv_add_channel_binding
  <2> HIDE DEF attrs, b, r
  <2>3. /\ q.ok \in BOOLEAN
        /\ q.ok => /\ Sound(q.t) /\ Frame(t, q.t) /\ SameBinding(t, q.t)
                   /\ TakesOne(t, q.t)
                   /\ q.msg \in TurnMessage /\ q.msg.req.msg.id \in q.t.used /\ q.msg.req.msg.method # "SEND"
                   /\ \A x \in q.t.agent.sent :
                         x.id = q.msg.req.msg.id =>
                            x.method \notin {"CREATEPERMISSION", "SEND"}
    BY <1>4, <2>1, BindingRequested
  <2> HIDE DEF q
  <2>4. CASE q.ok
    <3>1. Step(q.t, v) /\ FreeIds(v) = FreeIds(q.t) /\ v.agent = q.t.agent /\ v.used = q.t.used
          /\ v.pending = t.pending
      BY <2>1, <2>3, <2>4, CurChanged DEF SameBinding
    <3> HIDE DEF v
    <3>2. Safe(u) /\ Frame(v, u) /\ FreeIds(u) = FreeIds(v) /\ u.pending = t.pending
      BY <2>3, <2>4, <3>1, MessageSent DEF Step, SameBinding
    <3> HIDE DEF u
    <3>3. Step(t, v)
      BY <2>3, <2>4, <3>1, StepThen DEF Step
    <3>4. Step(t, u)
      BY <3>2, <3>3, StepThen DEF Safe
    <3>5. r = [ok |-> TRUE, t |-> u]
      BY <2>2, <2>4
    <3>6. Added(t, r)
      BY <1>0, <3>2, <3>4, <3>5 DEF Added
    <3> QED
      BY <3>6 DEF r
  <2>5. CASE ~q.ok
    <3>1. r = [ok |-> FALSE, t |-> t] /\ Len(t.pending) >= Len(t.pending)
      BY <1>1, <2>2, <2>5
    <3>2. Added(t, r)
      BY <3>1, StepSame DEF Added
    <3> QED
      BY <3>2 DEF r
  <2> QED
    BY <2>3, <2>4, <2>5
<1>5. CASE t.cur = None /\ ~Rfc(t) /\ t.compat \notin {"MSN", "OC2007"}
  <2> DEFINE b == Binding(peer, 0)
             u == [t EXCEPT !.cur = b]
  <2>1. b \in ChannelBinding \cup {None}
    BY BindingType
  <2>2. r = [ok |-> TRUE, t |-> u]
    BY <1>5 DEF priv_add_channel_binding
  <2> HIDE DEF b, r
  <2>3. Step(t, u) /\ u.pending = t.pending
    BY <2>1, CurChanged
  <2> HIDE DEF u
  <2>4. Added(t, r)
    BY <1>0, <2>2, <2>3 DEF Added
  <2> QED
    BY <2>4 DEF r
<1> QED
  BY <1>2, <1>3, <1>4, <1>5

-----------------------------------------------------------------------------
\* Pending bindings

\* One round of the loop of priv_process_pending_bindings, and what holds after
\* n of them
Try(s) ==
    IF s.ok THEN s
    ELSE [priv_add_channel_binding(s.t, Head(s.t.pending)) EXCEPT !.t.pending = Tail(@)]
Tried(t, n, s) ==
    /\ s \in [ok : BOOLEAN, t : Sock] /\ Step(t, s.t)
    /\ ~s.ok => FreeIds(s.t) = FreeIds(t) /\ Len(s.t.pending) >= Len(t.pending) - n

LEMMA TriedOne ==
  ASSUME NEW t, Sound(t), Left1(t), NEW n \in 1 .. Len(t.pending), NEW s, Tried(t, n - 1, s)
  PROVE  Tried(t, n, Try(s))
<1> DEFINE N == Len(t.pending)
           u == s.t
           r == priv_add_channel_binding(u, Head(u.pending))
           q == Tail(r.t.pending)
           v == [r.t EXCEPT !.pending = q]
<1>1. N \in Nat /\ n \in Nat /\ n >= 1 /\ n <= N
  BY SockFields DEF Sound
<1>2. s \in [ok : BOOLEAN, t : Sock] /\ Step(t, u) /\ u \in Sock /\ Len(u.pending) \in Nat
      /\ s.ok \in BOOLEAN
  BY SockFields DEF Tried
<1>3. CASE s.ok
  BY <1>2, <1>3 DEF Tried, Try
<1>4. CASE ~s.ok
  <2>1. FreeIds(u) = FreeIds(t) /\ Len(u.pending) >= N - (n - 1)
    BY <1>4 DEF Tried
  <2>2. Head(u.pending) \in Peers /\ Len(u.pending) >= 1
    <3>1. Len(u.pending) >= 1
      BY <1>1, <1>2, <2>1
    <3> QED
      BY <1>2, <3>1, SockFields
  <2>3. Left1(u)
    BY <2>1 DEF Left1
  <2>4. Added(u, r)
    BY <1>2, <2>2, <2>3, AddBinding DEF Step
  <2> HIDE DEF r
  <2>5. /\ r = [ok |-> r.ok, t |-> r.t] /\ r.ok \in BOOLEAN /\ Step(u, r.t)
        /\ Len(r.t.pending) >= Len(u.pending) /\ (~r.ok => FreeIds(r.t) = FreeIds(u))
    BY <2>4 DEF Added
  <2>6. r.t \in Sock /\ r.t.pending \in Seq(Peers) /\ Len(r.t.pending) \in Nat
    BY <2>5, SockFields DEF Step, Sound
  <2>7. q \in Seq(Peers) /\ Len(q) = Len(r.t.pending) - 1
    <3>1. Len(r.t.pending) >= 1
      BY <1>2, <2>2, <2>5, <2>6
    <3> QED
      BY <2>6, <3>1
  <2>8. Step(r.t, v) /\ FreeIds(v) = FreeIds(r.t) /\ v.pending = q
    BY <2>5, <2>7, PendingChanged DEF Step
  <2>9. Try(s) = [ok |-> r.ok, t |-> v]
    <3>1. Try(s) = [r EXCEPT !.t.pending = Tail(@)]
      BY <1>4 DEF Try, r
    <3> QED
      BY <2>5, <3>1
  <2> HIDE DEF v, q
  <2>10. Step(u, v)
    BY <2>5, <2>8, StepThen DEF Step
  <2>11. Step(t, v)
    BY <1>2, <2>1, <2>10, FrameTransitive DEF Step, TakesOne
  <2>12. ~r.ok => FreeIds(v) = FreeIds(t) /\ Len(v.pending) >= N - n
    <3>1. Len(v.pending) >= N - n
      BY <1>1, <1>2, <2>1, <2>5, <2>6, <2>7, <2>8
    <3> QED
      BY <2>1, <2>5, <2>8, <3>1
  <2>13. v \in Sock
    BY <2>11 DEF Step, Sound
  <2> HIDE DEF u
  <2> QED
    BY <2>5, <2>9, <2>11, <2>12, <2>13 DEF Tried
<1> QED
  BY <1>2, <1>3, <1>4

\* What the loop keeps: after k rounds its state is in P[k].
LEMMA PendingLoop ==
  ASSUME NEW t, Len(t.pending) \in Nat, NEW D, NEW P \in [0..Len(t.pending) -> SUBSET D],
         [ok |-> FALSE, t |-> t] \in P[0],
         \A k \in 1..Len(t.pending) : \A s \in P[k - 1] : Try(s) \in P[k]
  PROVE  LET step[k \in 0..Len(t.pending)] ==
               IF k = 0 THEN [ok |-> FALSE, t |-> t] ELSE Try(step[k - 1])
         IN  step[Len(t.pending)] \in P[Len(t.pending)]
<1> DEFINE N == Len(t.pending)
           b == [ok |-> FALSE, t |-> t]
           Go(s) == IF Try(s) \in D THEN Try(s) ELSE s
           G == [n \in 1 .. N |-> [s \in D |-> Go(s)]]
           step[k \in 0..Len(t.pending)] ==
               IF k = 0 THEN [ok |-> FALSE, t |-> t] ELSE Try(step[k - 1])
<1>1. N \in Nat
  OBVIOUS
<1>2. b \in P[0] /\ b \in D
  <2>1. 0 \in 0 .. Len(t.pending)
    OBVIOUS
  <2> QED
    BY <2>1
<1>3. IsStep(G, N, D)
  <2>1. \A s \in D : Go(s) \in D
    OBVIOUS
  <2> HIDE DEF Go, N
  <2> QED
    BY <2>1 DEF IsStep
<1>4. PICK g : Iterates(g, N, D, b, G)
  <2> HIDE DEF G, N, b
  <2> QED
    BY <1>1, <1>2, <1>3, RecursionExists, Zenon
<1>5. g \in [0 .. N -> D] /\ g[0] = b
  BY <1>4, Zenon DEF Iterates
<1>6. ASSUME NEW k \in 1 .. N PROVE g[k] = Go(g[k - 1])
  <2> HIDE DEF Go, N
  <2>1. k - 1 \in 0 .. N
    BY <1>1
  <2>2. g[k] = G[k][g[k - 1]] /\ g[k - 1] \in D
    BY <1>4, <1>5, <2>1 DEF Iterates
  <2> QED
    BY <2>2
<1> DEFINE T == {k \in Nat : k <= N => g[k] \in P[k]}
<1> HIDE DEF b, G
<1>7. ASSUME NEW k \in 1 .. N, g[k - 1] \in P[k - 1]
      PROVE  g[k] = Try(g[k - 1]) /\ g[k] \in P[k]
  <2>1. Try(g[k - 1]) \in P[k]
    BY <1>7
  <2>2. Try(g[k - 1]) \in D
    <3>1. k \in 0 .. Len(t.pending)
      BY <1>1
    <3> QED
      BY <2>1, <3>1
  <2>3. g[k] = Try(g[k - 1])
    <3> HIDE DEF N
    <3> QED
      BY <1>6, <2>2
  <2> QED
    BY <2>1, <2>3
<1>8. 0 \in T
  <2> HIDE DEF N
  <2> QED
    BY <1>2, <1>5
<1>9. \A k \in Nat : k \in T => k + 1 \in T
  <2> SUFFICES ASSUME NEW k \in Nat, k \in T, k + 1 <= N PROVE g[k + 1] \in P[k + 1]
    OBVIOUS
  <2>1. k + 1 \in 1 .. N /\ k + 1 - 1 = k /\ g[k] \in P[k]
    BY <1>1
  <2> HIDE DEF N
  <2> QED
    BY <1>7, <2>1
<1>10. \A k \in Nat : k \in T
  <2> HIDE DEF T
  <2> QED
    BY <1>8, <1>9, NatSetInduction
<1>11. \A k \in 0 .. N : g[k] \in P[k]
  <2> HIDE DEF N
  <2> QED
    BY <1>1, <1>10
<1>12. g = [k \in 0 .. N |-> IF k = 0 THEN [ok |-> FALSE, t |-> t] ELSE Try(g[k - 1])]
  <2>1. ASSUME NEW k \in 0 .. N
        PROVE  g[k] = IF k = 0 THEN [ok |-> FALSE, t |-> t] ELSE Try(g[k - 1])
    <3>1. CASE k = 0
      BY <1>5, <3>1 DEF b
    <3>2. CASE k # 0
      <4>1. k \in 1 .. N /\ k - 1 \in 0 .. N
        BY <1>1, <3>2
      <4> HIDE DEF N
      <4>2. g[k] = Try(g[k - 1])
        BY <1>7, <1>11, <4>1
      <4> QED
        BY <3>2, <4>2
    <3> QED
      BY <3>1, <3>2
  <2> HIDE DEF N
  <2> QED
    BY <1>5, <2>1
<1>13. step = [k \in 0 .. N |-> IF k = 0 THEN [ok |-> FALSE, t |-> t] ELSE Try(step[k - 1])]
  <2>1. \E f : f = [k \in 0 .. N |-> IF k = 0 THEN [ok |-> FALSE, t |-> t] ELSE Try(f[k - 1])]
    BY <1>12, Zenon
  <2> QED
    BY <2>1, Zenon DEF step
<1> HIDE DEF step
<1>14. \A k \in 0 .. N : step[k] = IF k = 0 THEN [ok |-> FALSE, t |-> t] ELSE Try(step[k - 1])
  BY <1>13, Zenon
<1> DEFINE Q == {k \in Nat : k <= N => step[k] \in P[k]}
<1>15. 0 \in Q
  <2>1. step[0] = b
    <3>1. 0 \in 0 .. N
      BY <1>1
    <3> HIDE DEF N
    <3>2. step[0] = IF 0 = 0 THEN [ok |-> FALSE, t |-> t] ELSE Try(step[0 - 1])
      BY <1>14, <3>1, Zenon
    <3> QED
      BY <3>2, Zenon DEF b
  <2> QED
    BY <1>2, <2>1
<1>16. \A k \in Nat : k \in Q => k + 1 \in Q
  <2> SUFFICES ASSUME NEW k \in Nat, k \in Q, k + 1 <= N PROVE step[k + 1] \in P[k + 1]
    OBVIOUS
  <2> DEFINE m == k + 1
  <2>1. m \in 1 .. N /\ m \in 0 .. N /\ m # 0 /\ m - 1 = k /\ step[k] \in P[k]
    BY <1>1
  <2> HIDE DEF m
  <2>2. step[m] = Try(step[k])
    BY <1>14, <2>1
  <2>3. Try(step[k]) \in P[m]
    BY <2>1
  <2> QED
    BY <2>2, <2>3 DEF m
<1>17. \A k \in Nat : k \in Q
  <2> HIDE DEF Q
  <2> QED
    BY <1>15, <1>16, NatSetInduction
<1>18. step[N] \in P[N]
  BY <1>1, <1>17
<1> QED
  BY <1>18 DEF step

LEMMA PendingTried ==
  ASSUME NEW t, Sound(t), Left1(t)
  PROVE  LET step[k \in 0..Len(t.pending)] ==
               IF k = 0 THEN [ok |-> FALSE, t |-> t] ELSE Try(step[k - 1])
         IN  Tried(t, Len(t.pending), step[Len(t.pending)])
<1> DEFINE N == Len(t.pending)
           b == [ok |-> FALSE, t |-> t]
           D == [ok : BOOLEAN, t : Sock]
           Ok(k) == {s \in D : Tried(t, k, s)}
           P == [k \in 0 .. N |-> Ok(k)]
           step[k \in 0..Len(t.pending)] ==
               IF k = 0 THEN [ok |-> FALSE, t |-> t] ELSE Try(step[k - 1])
<1>1. N \in Nat /\ t \in Sock
  BY SockFields DEF Sound
<1>2. b \in D /\ b.ok = FALSE /\ b.t = t
  BY <1>1
<1>3. Tried(t, 0, b)
  <2>1. Len(t.pending) >= Len(t.pending) - 0
    BY <1>1
  <2> HIDE DEF D
  <2> QED
    BY <1>2, <2>1, StepSame DEF Tried, D
<1>4. P \in [0 .. N -> SUBSET D] /\ b \in P[0]
  <2>1. 0 \in 0 .. N
    BY <1>1
  <2> HIDE DEF N, D
  <2> QED
    BY <1>2, <1>3, <2>1
<1>5. ASSUME NEW k \in 1 .. N, NEW s \in P[k - 1] PROVE Try(s) \in P[k]
  <2>1. k \in 0 .. N /\ k - 1 \in 0 .. N
    BY <1>1
  <2>2. Tried(t, k - 1, s)
    <3> HIDE DEF N, D
    <3> QED
      BY <2>1
  <2>3. Tried(t, k, Try(s))
    BY <2>2, TriedOne
  <2>4. Try(s) \in D
    BY <2>3 DEF Tried
  <2> HIDE DEF N, D
  <2> QED
    BY <2>1, <2>3, <2>4
<1>6. step[N] \in P[N]
  <2> HIDE DEF P, D
  <2> QED
    BY <1>1, <1>4, <1>5, PendingLoop
<1>7. Tried(t, N, step[N])
  <2>1. N \in 0 .. N
    BY <1>1
  <2> HIDE DEF step, N, D
  <2> QED
    BY <1>6, <2>1
<1> QED
  BY <1>7 DEF step

\* The first place of a list that satisfies a condition
LEMMA FirstOf ==
  ASSUME NEW S \in SUBSET Nat, S # {}
  PROVE  (CHOOSE k \in S : \A j \in S : k <= j) \in S
<1>1. IsWellFoundedOn(NatLess, Nat)
  BY NatLessThanWellFounded DEF OpToRel, NatLess
<1>2. PICK x \in S : \A y \in S : ~(<<y, x>> \in NatLess)
  BY <1>1, WFMin
<1>3. \A y \in S : x <= y
  <2> TAKE y \in S
  <2>1. x \in Nat /\ y \in Nat /\ ~(<<y, x>> \in NatLess)
    BY <1>2
  <2>2. ~(y < x)
    BY <2>1 DEF NatLess
  <2> QED
    BY <2>1, <2>2
<1> QED
  BY <1>3

\* An operation that makes no request after it
Done(t, u) == Sound(u) /\ Frame(t, u)

LEMMA ProcessPending ==
  ASSUME NEW t, Sound(t), Left2(t)
  PROVE  Done(t, priv_process_pending_bindings(t))
<1> DEFINE N == Len(t.pending)
           step[k \in 0..Len(t.pending)] ==
               IF k = 0 THEN [ok |-> FALSE, t |-> t] ELSE Try(step[k - 1])
           u == step[N].t
           renew == {i \in 1..Len(u.channels) : u.channels[i].renew}
           i == CHOOSE i \in renew : \A j \in renew : i <= j
           b == u.channels[i]
           s == priv_send_channel_bind(u, FALSE, b.channel, b.peer)
           more == u.pending = <<>> /\ u.curmsg = None /\ renew # {}
           v == priv_process_pending_bindings(t)
<1>1. Tried(t, N, step[N])
  <2>1. Left1(t)
    BY LeftLess
  <2> QED
    BY <2>1, PendingTried
<1>2. v = IF more THEN s.t ELSE u
  BY DEF priv_process_pending_bindings, Try
<1> HIDE DEF step, v
<1>3. Step(t, u)
  BY <1>1 DEF Tried
<1> HIDE DEF u
<1>4. CASE more
  <2>1. u \in Sock /\ u.channels \in Seq(ChannelBinding)
    BY <1>3, SockFields DEF Step, Sound
  <2>2. i \in renew
    <3>1. renew \subseteq Nat /\ renew # {}
      BY <1>4, <2>1
    <3> HIDE DEF renew
    <3> QED
      BY <3>1, FirstOf
  <2>3. b \in ChannelBinding
    <3> HIDE DEF i
    <3> QED
      BY <2>1, <2>2
  <2>4. b.channel \in Nat /\ b.peer \in Peers
    BY <2>3 DEF ChannelBinding
  <2> HIDE DEF b, i, renew
  <2>5. Left1(u)
    BY <1>3, IdsTaken DEF Step
  <2>6. Step(u, s.t)
    BY <1>3, <2>4, <2>5, ChannelBindSent DEF Step
  <2> HIDE DEF s
  <2>7. v = s.t
    BY <1>2, <1>4
  <2> QED
    BY <1>3, <2>6, <2>7, FrameTransitive DEF Done, Step, v
<1>5. CASE ~more
  BY <1>2, <1>3, <1>5 DEF Done, Step, v
<1> QED
  BY <1>4, <1>5

\* Fewer ids in use
LEMMA LeftMore ==
  ASSUME NEW t, NEW u, FreeIds(t) \subseteq FreeIds(u)
  PROVE  (Left1(t) => Left1(u)) /\ (Left2(t) => Left2(u)) /\ (Left3(t) => Left3(u))
<1>1. Left1(t) => Left1(u)
  BY DEF Left1
<1>2. ASSUME Left2(t), NEW i PROVE FreeIds(u) \ {i} # {}
  BY <1>2 DEF Left2
<1>3. ASSUME Left3(t), NEW i, NEW j PROVE FreeIds(u) \ {i, j} # {}
  <2>1. PICK k : k \in FreeIds(t) \ {i, j}
    BY <1>3 DEF Left3
  <2> QED
    BY <2>1
<1> QED
  BY <1>1, <1>2, <1>3 DEF Left2, Left3

\* The binding request is dropped and its transaction forgotten.
LEMMA CurDropped ==
  ASSUME NEW t, Sound(t), NEW id, NEW u \in Sock, SameRest(t, u), u.curmsg = None,
         t.curmsg # None, id = t.curmsg.req.msg.id, u.agent.sent = {y \in t.agent.sent : y.id # id},
         u.used = t.used, u.out = t.out, u.tickPerm = t.tickPerm, ChannelsOk(u)
  PROVE  Done(t, u) /\ FreeIds(t) \subseteq FreeIds(u)
<1>1. t \in Sock /\ Owned(t) /\ id \in t.used
      /\ \A x \in t.agent.sent : x.id = id => x.method \notin {"CREATEPERMISSION", "SEND"}
  BY DEF Sound, CurOwn
<1>2. id \notin PermIds(t)
  BY <1>1 DEF Owned, IdsOf
<1>3. PermIds(u) = PermIds(t) \ {id} /\ u.sendreqs = t.sendreqs
  <2>1. PermIds(u) = PermIds(t) /\ u.sendreqs = t.sendreqs
    BY DEF SameRest, PermIds
  <2> QED
    BY <1>2, <2>1
<1>4. Owned(u)
  <2>1. /\ \A i, j \in DOMAIN u.permmsgs :
              i # j => u.permmsgs[i].req.msg.id # u.permmsgs[j].req.msg.id
        /\ \A i \in DOMAIN u.permmsgs : u.permmsgs[i].req.msg.method = "CREATEPERMISSION"
        /\ u.compat = t.compat
    BY <1>1 DEF Owned, SameRest
  <2> QED
    BY <1>1, <1>3, <2>1, OwnedForgets
<1>5. CurOwn(u) /\ RequestsOk(u.out)
  BY DEF Sound, CurOwn
<1>6. Sound(u)
  BY <1>4, <1>5, SoundFrame
<1>7. Frame(t, u) /\ FreeIds(t) \subseteq FreeIds(u)
  BY DEF Frame, SameRest, Ticking, FreeIds
<1> QED
  BY <1>6, <1>7 DEF Done

LEMMA BindingGivenUp ==
  ASSUME NEW t, Sound(t), Left2(t), t.curmsg # None
  PROVE  Done(t, GiveUpBinding(t))
<1> DEFINE id == t.curmsg.req.msg.id
           A == stun_agent_forget_transaction(t.agent, id)
           u == [t EXCEPT !.agent = A, !.cur = None, !.curmsg = None]
<1>1. t \in Sock
  BY DEF Sound
<1>2. A \in StunAgents /\ A.sent = {y \in t.agent.sent : y.id # id}
  BY <1>1, SockFields DEF stun_agent_forget_transaction, StunAgents
<1>3. GiveUpBinding(t) = priv_process_pending_bindings(u)
  <2>1. u = [t EXCEPT !.agent = stun_agent_forget_transaction(@, t.curmsg.req.msg.id),
                      !.cur = None, !.curmsg = None]
    BY <1>1 DEF Sock
  <2> QED
    BY <2>1 DEF GiveUpBinding
<1> HIDE DEF A, id
<1>4. /\ u \in Sock /\ SameRest(t, u) /\ u.curmsg = None /\ u.agent = A /\ u.used = t.used
      /\ u.out = t.out /\ u.tickPerm = t.tickPerm /\ u.channels = t.channels
  BY <1>1, <1>2 DEF Sock, SameRest
<1> HIDE DEF u
<1>5. ChannelsOk(u)
  BY <1>4 DEF Sound, ChannelsOk, SameRest, Rfc
<1>6. Done(t, u) /\ FreeIds(t) \subseteq FreeIds(u)
  BY <1>2, <1>4, <1>5, CurDropped DEF id
<1>7. Done(u, priv_process_pending_bindings(u))
  BY <1>6, LeftMore, ProcessPending DEF Done
<1> QED
  BY <1>3, <1>6, <1>7, FrameTransitive DEF Done

LEMMA BindingResent ==
  ASSUME NEW t, Sound(t), t.curmsg # None, t.curmsg.left > 0
  PROVE  Safe(ResendBinding(t)) /\ Frame(t, ResendBinding(t))
<1> DEFINE m == Resent(t.curmsg)
           C == t.out \cup {t.curmsg.req}
           u == [t EXCEPT !.curmsg = m, !.out = C]
<1>1. t \in Sock /\ t.curmsg \in TurnMessage
  BY SockFields DEF Sound
<1>2. m \in TurnMessage /\ m.req = t.curmsg.req /\ m.req \in Req
  BY <1>1 DEF Resent, TurnMessage
<1>3. C \in SUBSET Req
  BY <1>1, <1>2, SockFields
<1>4. ResendBinding(t) = ScheduleTick(u)
  <2>1. u = [t EXCEPT !.curmsg = Resent(@), !.out = @ \cup {t.curmsg.req}]
    BY <1>1 DEF Sock
  <2> QED
    BY <2>1 DEF ResendBinding
<1> HIDE DEF m
<1>5. /\ u \in Sock /\ SameRest(t, u) /\ u.curmsg = m /\ u.agent = t.agent /\ u.used = t.used
      /\ u.out = C /\ u.tickPerm = t.tickPerm /\ u.channels = t.channels
  <2> HIDE DEF C
  <2> QED
    BY <1>1, <1>2, <1>3 DEF Sock, SameRest
<1> HIDE DEF u
<1>6. Owned(u)
  BY <1>5, OwnedSame DEF Sound, SameRest
<1>7. ChannelsOk(u)
  BY <1>5 DEF Sound, ChannelsOk, SameRest, Rfc
<1>8. CurOwn(u)
  BY <1>2, <1>5 DEF Sound, CurOwn
<1>9. RequestsOk(u.out)
  BY <1>5 DEF Sound, CurOwn, RequestsOk, Understood
<1>10. Sound(u)
  BY <1>5, <1>6, <1>7, <1>8, <1>9, SoundFrame
<1>11. Frame(t, u)
  BY <1>5 DEF Frame, SameRest, Ticking
<1> QED
  BY <1>4, <1>10, <1>11, ScheduleTickDone, FrameTransitive

LEMMA LateTickDone ==
  ASSUME NEW t, Sound(t), Left2(t)
  PROVE  Safe(LateTick(t)) /\ SameRest(t, LateTick(t))
<1> DEFINE u == [t EXCEPT !.late = FALSE]
<1>1. CASE ~t.late \/ t.curmsg = None
  BY <1>1, ScheduleTickDone DEF LateTick, Frame
<1>2. CASE ~(~t.late \/ t.curmsg = None)
  <2>1. t \in Sock /\ t.curmsg # None /\ t.curmsg \in TurnMessage
    BY <1>2, SockFields DEF Sound
  <2>2. u \in Sock
    BY <2>1, SockUpdates
  <2>3. /\ SameRest(t, u) /\ u.curmsg = t.curmsg /\ u.agent = t.agent /\ u.used = t.used
        /\ u.out = t.out /\ u.tickPerm = t.tickPerm /\ u.channels = t.channels
    BY <2>1 DEF Sock, SameRest
  <2>4. LateTick(t) = IF t.curmsg.left > 0 THEN ResendBinding(u) ELSE ScheduleTick(GiveUpBinding(u))
    BY <1>2 DEF LateTick
  <2> HIDE DEF u
  <2>5. ChannelsOk(u)
    BY <2>3 DEF Sound, ChannelsOk, SameRest, Rfc
  <2>6. Step(t, u) /\ FreeIds(u) = FreeIds(t)
    BY <2>2, <2>3, <2>5, BindingsChanged
  <2>7. CASE t.curmsg.left > 0
    <3>1. Safe(ResendBinding(u)) /\ Frame(u, ResendBinding(u))
      BY <2>1, <2>3, <2>6, <2>7, BindingResent DEF Step
    <3> QED
      BY <2>4, <2>6, <2>7, <3>1, FrameTransitive DEF Step, Frame
  <2>8. CASE ~(t.curmsg.left > 0)
    <3> DEFINE v == GiveUpBinding(u)
    <3>1. Done(u, v)
      BY <2>1, <2>3, <2>6, LeftMore, BindingGivenUp DEF Step
    <3> HIDE DEF v
    <3>2. Safe(ScheduleTick(v)) /\ Frame(v, ScheduleTick(v))
      BY <3>1, ScheduleTickDone DEF Done
    <3>3. Frame(t, ScheduleTick(v))
      BY <2>6, <3>1, <3>2, FrameTransitive DEF Step, Done
    <3> QED
      BY <2>4, <2>8, <3>2, <3>3 DEF v, Frame
  <2> QED
    BY <2>7, <2>8
<1> QED
  BY <1>1, <1>2

\* The current binding becomes the only one, of servers without channels.
LEMMA Locked ==
  ASSUME NEW t, Sound(t), Left2(t), ~Rfc(t)
  PROVE  Done(t, msn_google_lock(t))
<1> DEFINE u == [t EXCEPT !.channels = <<t.cur>>, !.cur = None]
<1>1. t \in Sock
  BY DEF Sound
<1>2. CASE t.cur = None
  BY <1>2, StepSame DEF msn_google_lock, Done, Step
<1>3. CASE t.cur # None
  <2>1. <<t.cur>> \in Seq(ChannelBinding)
    BY <1>1, <1>3, SockFields
  <2>2. /\ u \in Sock /\ SameRest(t, u) /\ u.curmsg = t.curmsg /\ u.agent = t.agent
        /\ u.used = t.used /\ u.out = t.out /\ u.tickPerm = t.tickPerm
    BY <1>1, <2>1 DEF Sock, SameRest
  <2>3. msn_google_lock(t) = priv_process_pending_bindings(u)
    BY <1>3 DEF msn_google_lock
  <2> HIDE DEF u
  <2>4. ChannelsOk(u)
    BY <2>2 DEF ChannelsOk, SameRest, Rfc
  <2>5. Step(t, u) /\ FreeIds(u) = FreeIds(t)
    BY <2>2, <2>4, BindingsChanged
  <2>6. Done(u, priv_process_pending_bindings(u))
    BY <2>5, LeftMore, ProcessPending DEF Step
  <2> QED
    BY <2>3, <2>5, <2>6, FrameTransitive DEF Done, Step
<1> QED
  BY <1>2, <1>3

-----------------------------------------------------------------------------
\* Permissions and data

\* What asking for a permission leaves alone
PermFrame(t, u) ==
    /\ u.open = t.open /\ u.compat = t.compat /\ u.perms = t.perms /\ u.queues = t.queues
    /\ u.data = t.data /\ u.sendreqs = t.sendreqs

LEMMA OwnedMeans ==
  ASSUME NEW u, IsFiniteSet(u.agent.sent),
         \A x, y \in u.agent.sent : x.id = y.id => x = y,
         IdsOf(u, "CREATEPERMISSION") = PermIds(u), SendsOk(u),
         \A i, j \in DOMAIN u.permmsgs :
            i # j => u.permmsgs[i].req.msg.id # u.permmsgs[j].req.msg.id,
         \A i \in DOMAIN u.permmsgs : u.permmsgs[i].req.msg.method = "CREATEPERMISSION",
         \A x \in u.agent.sent :
            /\ x.method = "CREATEPERMISSION" => Rfc(u)
            /\ x.method \in {"SEND", "OLD_SET_ACTIVE_DST"} => ~Rfc(u)
  PROVE  Owned(u)
  BY DEF Owned

\* The transaction of a new permission request
PermissionAdded(t, u, x, m) ==
    /\ u.agent.sent = t.agent.sent \cup {x}
    /\ \A y \in t.agent.sent : y.id # x.id
    /\ x.method = "CREATEPERMISSION"
    /\ m.req.msg.id = x.id /\ m.req.msg.method = "CREATEPERMISSION"
    /\ u.permmsgs = Append(t.permmsgs, m) /\ u.sendreqs = t.sendreqs /\ u.compat = t.compat

LEMMA OwnedAddsPermission ==
  ASSUME NEW t \in Sock, NEW u \in Sock, NEW x, NEW m \in TurnMessage, Owned(t), Rfc(t),
         PermissionAdded(t, u, x, m)
  PROVE  Owned(u)
<1> DEFINE P == t.permmsgs
           Q == u.permmsgs
           n == Len(P)
<1>0. P \in Seq(TurnMessage) /\ n \in Nat
  BY SockFields
<1>1. /\ DOMAIN P = 1 .. n /\ DOMAIN Q = 1 .. n + 1
      /\ Q[n + 1] = m /\ \A i \in 1 .. n : Q[i] = P[i]
  BY <1>0 DEF PermissionAdded
<1>2. IsFiniteSet(u.agent.sent)
  BY FS_AddElement DEF Owned, PermissionAdded
<1>3. \A y, z \in u.agent.sent : y.id = z.id => y = z
  BY DEF Owned, PermissionAdded
<1>4. IdsOf(u, "CREATEPERMISSION") = IdsOf(t, "CREATEPERMISSION") \cup {x.id}
      /\ IdsOf(u, "SEND") = IdsOf(t, "SEND")
  BY DEF IdsOf, PermissionAdded
<1>5. \A i \in 1 .. n + 1 : i = n + 1 \/ i \in 1 .. n
  BY <1>0
<1>6. 1 .. n \subseteq 1 .. n + 1 /\ n + 1 \in 1 .. n + 1
  BY <1>0
<1>7. x.id \notin PermIds(t)
  BY DEF Owned, IdsOf, PermissionAdded
<1> HIDE DEF Q, P, n
<1>8. PermIds(u) = PermIds(t) \cup {x.id}
  <2>1. PermIds(t) = {P[i].req.msg.id : i \in 1 .. n}
        /\ PermIds(u) = {Q[i].req.msg.id : i \in 1 .. n + 1}
    BY <1>1 DEF PermIds, P, Q
  <2> QED
    BY <1>1, <1>5, <1>6, <2>1 DEF PermissionAdded
<1>9. \A i, j \in DOMAIN Q : i # j => Q[i].req.msg.id # Q[j].req.msg.id
  <2>1. \A i, j \in 1 .. n : i # j => P[i].req.msg.id # P[j].req.msg.id
    BY <1>1 DEF Owned, P
  <2>2. \A i \in 1 .. n : P[i].req.msg.id # x.id
    BY <1>1, <1>7 DEF PermIds, P
  <2> QED
    BY <1>1, <1>5, <2>1, <2>2 DEF PermissionAdded
<1>10. \A i \in DOMAIN Q : Q[i].req.msg.method = "CREATEPERMISSION"
  <2>1. \A i \in 1 .. n : P[i].req.msg.method = "CREATEPERMISSION"
    BY <1>1 DEF Owned, P
  <2> QED
    BY <1>1, <1>5, <2>1 DEF PermissionAdded
<1>11. \A y \in u.agent.sent : /\ y.method = "CREATEPERMISSION" => Rfc(u)
                               /\ y.method \in {"SEND", "OLD_SET_ACTIVE_DST"} => ~Rfc(u)
  BY DEF Owned, Rfc, PermissionAdded
<1>12. IdsOf(u, "CREATEPERMISSION") = PermIds(u) /\ SendsOk(u)
  BY <1>4, <1>8 DEF Owned, PermissionAdded, SendsOk, Rfc
<1> QED
  <2>1. /\ \A i, j \in DOMAIN u.permmsgs :
              i # j => u.permmsgs[i].req.msg.id # u.permmsgs[j].req.msg.id
        /\ \A i \in DOMAIN u.permmsgs : u.permmsgs[i].req.msg.method = "CREATEPERMISSION"
    BY <1>9, <1>10 DEF Q
  <2> QED
    BY <1>2, <1>3, <1>11, <1>12, <2>1, OwnedMeans, Zenon

Room(t) == Cardinality(t.agent.sent) < MaxSavedIds

\* v is t after a permission for the peer was asked for.
PermissionAsked(t, v, peer) ==
    /\ Sound(v) /\ PermFrame(t, v) /\ (Ticking(t) => Ticking(v))
    /\ v.sentperms = t.sentperms \cup {peer}
    /\ Room(t) => \E m \in TurnMessage : v.permmsgs = Append(t.permmsgs, m) /\ m.req.peer = peer

LEMMA PermissionSent ==
  ASSUME NEW t, Sound(t), Left3(t), Rfc(t), NEW realm \in BOOLEAN, NEW peer \in Peers
  PROVE  PermissionAsked(t, priv_send_create_permission(t, realm, peer), peer)
<1> DEFINE P == t.sentperms \cup {peer}
           u == [t EXCEPT !.sentperms = P]
           attrs == IF realm THEN {"REALM", "NONCE"} ELSE {}
           r == Request(u, "CREATEPERMISSION", peer, None, attrs)
           i == FreshId(u)
           w == [r.t EXCEPT !.permmsgs = Append(@, r.msg)]
           v == priv_send_create_permission(t, realm, peer)
<1>1. t \in Sock /\ P \in SUBSET Peers /\ attrs \in SUBSET Attributes
      /\ "CREATEPERMISSION" \in Methods
  BY SockFields DEF Sound, Attributes, Methods
<1>2. v = IF r.ok THEN LateTick(w) ELSE u
  <2>1. u = [t EXCEPT !.sentperms = @ \cup {peer}]
    BY <1>1 DEF Sock
  <2> QED
    BY <2>1 DEF priv_send_create_permission
<1> HIDE DEF attrs, v
<1>3. /\ u \in Sock /\ PermFrame(t, u) /\ u.sentperms = P /\ u.permmsgs = t.permmsgs
      /\ u.agent = t.agent /\ u.used = t.used /\ u.out = t.out /\ u.curmsg = t.curmsg
      /\ u.channels = t.channels /\ u.tickPerm = t.tickPerm
  <2> HIDE DEF P
  <2> QED
    BY <1>1 DEF Sock, PermFrame
<1> HIDE DEF u
<1>4. Sound(u) /\ FreeIds(u) = FreeIds(t) /\ (Ticking(t) => Ticking(u)) /\ Rfc(u)
  <2>1. Owned(u)
    BY <1>3, OwnedSame DEF Sound, PermFrame
  <2>2. CurOwn(u) /\ ChannelsOk(u) /\ RequestsOk(u.out) /\ QueuesOk(u) /\ Rfc(u)
    BY <1>3 DEF Sound, CurOwn, ChannelsOk, PermFrame, Rfc, QueuesOk
  <2>3. FreeIds(u) = FreeIds(t) /\ (Ticking(t) => Ticking(u))
    BY <1>3 DEF FreeIds, Ticking
  <2> QED
    BY <1>3, <2>1, <2>2, <2>3 DEF Sound
<1>5. Left3(u) /\ Left1(u)
  BY <1>4, LeftMore, LeftLess
<1>6. /\ r.ok \in BOOLEAN
      /\ r.ok <=> Cardinality(u.agent.sent) < MaxSavedIds
      /\ r.ok => Requested(u, r, i, "CREATEPERMISSION", peer, attrs)
  BY <1>1, <1>3, <1>5, RequestMade
<1>7. i \in Ids /\ i \in Nat /\ i \notin u.used /\ \A x \in u.agent.sent : x.id # i
  BY <1>5, FreshIdFree
<1> HIDE DEF r, i
<1>8. CASE ~r.ok
  <2>1. v = u /\ ~Room(t)
    BY <1>2, <1>3, <1>6, <1>8 DEF Room
  <2> QED
    BY <1>3, <1>4, <2>1 DEF v, PermissionAsked
<1>9. CASE r.ok
  <2> DEFINE m == r.msg
             q == m.req
  <2>1. PICK x \in Transaction :
         /\ x.id = i /\ x.method = "CREATEPERMISSION"
         /\ r.t = [u EXCEPT !.agent = [u.agent EXCEPT !.sent = @ \cup {x}],
                            !.used = @ \cup {i}, !.out = @ \cup {q}]
    BY <1>6, <1>9 DEF Requested
  <2>2. /\ m \in TurnMessage /\ q.msg.id = i /\ q.msg.method = "CREATEPERMISSION" /\ q \in Req
        /\ q.peer = peer
    BY <1>6, <1>9 DEF Requested, TurnMessage
  <2> DEFINE A == [u.agent EXCEPT !.sent = @ \cup {x}]
             B == u.used \cup {i}
             C == u.out \cup {q}
             M == Append(u.permmsgs, m)
  <2>3. A \in StunAgents /\ A.sent = u.agent.sent \cup {x} /\ B \in SUBSET Nat /\ C \in SUBSET Req
        /\ M \in Seq(TurnMessage)
    <3>1. u.agent \in StunAgents /\ u.used \in SUBSET Nat /\ u.out \in SUBSET Req
          /\ u.permmsgs \in Seq(TurnMessage)
      BY <1>3, SockFields
    <3>2. A \in StunAgents /\ A.sent = u.agent.sent \cup {x}
      BY <2>1, <3>1 DEF StunAgents
    <3> HIDE DEF A, m, q
    <3> QED
      BY <1>7, <2>2, <3>1, <3>2
  <2>4. w = [u EXCEPT !.agent = A, !.used = B, !.out = C, !.permmsgs = M]
    <3>1. r.t = [u EXCEPT !.agent = A, !.used = B, !.out = C]
      BY <2>1
    <3> HIDE DEF A, B, C
    <3>2. r.t.permmsgs = u.permmsgs
      BY <1>3, <3>1 DEF Sock
    <3> QED
      BY <1>3, <3>1, <3>2 DEF Sock
  <2> HIDE DEF A, w, q, m
  <2>5. /\ w \in Sock /\ PermFrame(u, w) /\ w.sentperms = P /\ w.agent = A /\ w.used = B
        /\ w.out = C /\ w.permmsgs = M
        /\ w.curmsg = u.curmsg /\ w.channels = u.channels
    <3> HIDE DEF B, C, P, M
    <3> QED
      BY <1>3, <2>3, <2>4 DEF Sock, PermFrame
  <2>6. Owned(w)
    <3>1. /\ w.agent.sent = u.agent.sent \cup {x} /\ w.permmsgs = Append(u.permmsgs, m)
          /\ w.sendreqs = u.sendreqs /\ w.compat = u.compat
      BY <2>3, <2>5 DEF PermFrame
    <3>2. Owned(u) /\ \A y \in u.agent.sent : y.id # x.id
      BY <1>4, <1>7, <2>1 DEF Sound
    <3>3. m.req.msg.id = x.id /\ m.req.msg.method = "CREATEPERMISSION"
      BY <2>1, <2>2 DEF q
    <3> QED
      BY <1>3, <1>4, <2>1, <2>2, <2>5, <3>1, <3>2, <3>3, OwnedAddsPermission DEF PermissionAdded
  <2>7. CurOwn(w)
    <3>1. CurOwn(u)
      BY <1>4 DEF Sound
    <3> QED
      BY <1>7, <2>1, <2>3, <2>5, <3>1 DEF CurOwn
  <2>8. ChannelsOk(w) /\ RequestsOk(w.out) /\ QueuesOk(w)
    BY <1>4, <2>2, <2>5 DEF Sound, ChannelsOk, PermFrame, Rfc, RequestsOk, Understood, QueuesOk
  <2>9. Sound(w)
    BY <2>5, <2>6, <2>7, <2>8 DEF Sound
  <2>10. Left2(w)
    <3>1. FreeIds(u) \ {i} \subseteq FreeIds(w)
      BY <2>1, <2>3, <2>5 DEF FreeIds
    <3> QED
      BY <1>5, <3>1, IdsTaken DEF TakesOne
  <2>11. Safe(LateTick(w)) /\ SameRest(w, LateTick(w)) /\ v = LateTick(w)
    BY <1>2, <1>9, <2>9, <2>10, LateTickDone
  <2>12. Sound(v) /\ Ticking(v) /\ PermFrame(t, v) /\ v.sentperms = P
    BY <1>3, <2>5, <2>11 DEF Safe, SameRest, PermFrame
  <2>13. v.permmsgs = Append(t.permmsgs, m) /\ m.req.peer = peer
    BY <1>3, <2>2, <2>5, <2>11 DEF SameRest, q
  <2> QED
    BY <2>2, <2>12, <2>13 DEF v, PermissionAsked
<1> QED
  BY <1>6, <1>8, <1>9

\* The data of a peer that leaves in this call, and after it what waits
Flow(t, p) == t.data[p] \o t.queues[p]

\* A call: what it keeps, and that permissions are asked for while the table of
\* transactions has room
Called(t, u) ==
    /\ Sound(u) /\ u.open = t.open /\ u.compat = t.compat /\ (Ticking(t) => Ticking(u))
    /\ Room(t) /\ Asked(t) => Asked(u)
Calm(t, u) == Called(t, u) /\ \A p \in Peers : Flow(u, p) = Flow(t, p)

LEMMA AskedSame ==
  ASSUME NEW t, NEW u, u.permmsgs = t.permmsgs, u.queues = t.queues, u.sentperms = t.sentperms
  PROVE  Asked(t) => Asked(u)
  BY DEF Asked

LEMMA DoneCalm ==
  ASSUME NEW t, NEW u, Done(t, u)
  PROVE  Calm(t, u)
<1>1. SameRest(t, u)
  BY DEF Done, Frame
<1>2. Asked(t) => Asked(u)
  BY <1>1, AskedSame DEF SameRest
<1>3. \A p \in Peers : Flow(u, p) = Flow(t, p)
  BY <1>1 DEF SameRest, Flow
<1> QED
  BY <1>1, <1>2, <1>3 DEF Calm, Called, Done, Frame, SameRest

LEMMA EmptyFlow ==
  ASSUME NEW s \in Seq(Nat)
  PROVE  s \o <<>> = s
  OBVIOUS

\* The same for all peers but one
AskedExcept(t, peer) ==
    \A p \in Peers \ {peer} : (p \in t.sentperms \/ t.queues[p] # <<>>) =>
                                  \E i \in DOMAIN t.permmsgs : t.permmsgs[i].req.peer = p

\* Permission requests stay while another is added.
LEMMA AskedMore ==
  ASSUME NEW t \in Sock, NEW u \in Sock, NEW m \in TurnMessage, NEW peer,
         u.permmsgs = Append(t.permmsgs, m), m.req.peer = peer,
         \A p \in Peers : p # peer => u.queues[p] = t.queues[p],
         u.sentperms \subseteq t.sentperms \cup {peer}
  PROVE  (Asked(t) => Asked(u)) /\ (AskedExcept(t, peer) => Asked(u))
<1>1. t.permmsgs \in Seq(TurnMessage)
  BY SockFields
<1> DEFINE n == Len(t.permmsgs)
<1>2. /\ n \in Nat /\ DOMAIN t.permmsgs = 1 .. n /\ DOMAIN u.permmsgs = 1 .. n + 1
      /\ u.permmsgs[n + 1] = m /\ \A i \in 1 .. n : u.permmsgs[i] = t.permmsgs[i]
  BY <1>1
<1>3. 1 .. n \subseteq 1 .. n + 1 /\ n + 1 \in 1 .. n + 1
  BY <1>2
<1> HIDE DEF n
<1>0. Asked(t) => AskedExcept(t, peer)
  BY DEF Asked, AskedExcept
<1> SUFFICES ASSUME AskedExcept(t, peer), NEW p \in Peers, p \in u.sentperms \/ u.queues[p] # <<>>
             PROVE  \E i \in DOMAIN u.permmsgs : u.permmsgs[i].req.peer = p
  BY <1>0 DEF Asked
<1>4. CASE p = peer
  BY <1>2, <1>3, <1>4
<1>5. CASE p # peer
  <2>1. p \in t.sentperms \/ t.queues[p] # <<>>
    BY <1>5
  <2>2. PICK i \in DOMAIN t.permmsgs : t.permmsgs[i].req.peer = p
    BY <1>5, <2>1 DEF AskedExcept
  <2>3. i \in DOMAIN u.permmsgs /\ u.permmsgs[i] = t.permmsgs[i]
    BY <1>2, <1>3, <2>2
  <2> QED
    BY <2>2, <2>3
<1> QED
  BY <1>4, <1>5

LEMMA PermittedDone ==
  ASSUME NEW t, Sound(t), NEW peer \in Peers
  PROVE  LET u == Permitted(t, peer)
         IN  /\ Sound(u) /\ u.open = t.open /\ u.compat = t.compat
             /\ u.permmsgs = t.permmsgs /\ u.tickPerm = t.tickPerm /\ u.agent = t.agent
             /\ u.sentperms = t.sentperms \ {peer} /\ u.queues[peer] = <<>>
             /\ \A p \in Peers : p # peer => u.queues[p] = t.queues[p]
             /\ \A p \in Peers : Flow(u, p) = Flow(t, p)
<1> DEFINE u == Permitted(t, peer)
           d == [t.data EXCEPT ![peer] = @ \o t.queues[peer]]
           q == [t.queues EXCEPT ![peer] = <<>>]
           S == t.sentperms \ {peer}
           P == t.perms \cup {peer}
<1>1. t \in Sock
  BY DEF Sound
<1>2. /\ t.queues \in [Peers -> Seq(Nat)] /\ t.data \in [Peers -> Seq(Nat)]
      /\ S \in SUBSET Peers /\ P \in SUBSET Peers
  BY <1>1, SockFields
<1>3. /\ d \in [Peers -> Seq(Nat)] /\ q \in [Peers -> Seq(Nat)]
      /\ d[peer] = t.data[peer] \o t.queues[peer] /\ q[peer] = <<>>
      /\ \A p \in Peers : p # peer => d[p] = t.data[p] /\ q[p] = t.queues[p]
  <2> DEFINE all == t.data[peer] \o t.queues[peer]
  <2>1. all \in Seq(Nat) /\ <<>> \in Seq(Nat)
    BY <1>2
  <2>2. d = [t.data EXCEPT ![peer] = all]
    BY <1>2
  <2> HIDE DEF all
  <2>3. /\ d \in [Peers -> Seq(Nat)] /\ d[peer] = all
        /\ \A p \in Peers : p # peer => d[p] = t.data[p]
    BY <1>2, <2>1, <2>2
  <2>4. /\ q \in [Peers -> Seq(Nat)] /\ q[peer] = <<>>
        /\ \A p \in Peers : p # peer => q[p] = t.queues[p]
    BY <1>2, <2>1
  <2> QED
    BY <2>3, <2>4 DEF all
<1>4. u = [t EXCEPT !.data = d, !.sentperms = S, !.perms = P, !.queues = q]
  <2>1. Emit(t, peer, t.queues[peer]) = [t EXCEPT !.data = d]
    BY <1>1 DEF Emit, Sock
  <2> HIDE DEF d
  <2>2. u = [[t EXCEPT !.data = d] EXCEPT !.sentperms = @ \ {peer}, !.perms = @ \cup {peer},
                                          !.queues[peer] = <<>>]
    BY <2>1 DEF Permitted
  <2> QED
    BY <1>1, <2>2 DEF Sock
<1> HIDE DEF d, q, u
<1>5. /\ u \in Sock /\ u.open = t.open /\ u.compat = t.compat /\ u.permmsgs = t.permmsgs
      /\ u.tickPerm = t.tickPerm /\ u.agent = t.agent /\ u.sentperms = S /\ u.perms = P
      /\ u.queues = q /\ u.data = d /\ u.sendreqs = t.sendreqs /\ u.used = t.used
      /\ u.out = t.out /\ u.curmsg = t.curmsg /\ u.channels = t.channels
  <2> HIDE DEF S, P
  <2> QED
    BY <1>1, <1>2, <1>3, <1>4 DEF Sock
<1>6. Owned(u)
  BY <1>5, OwnedSame DEF Sound
<1>7. CurOwn(u) /\ ChannelsOk(u) /\ RequestsOk(u.out)
  BY <1>5 DEF Sound, CurOwn, ChannelsOk, Rfc
<1>8. QueuesOk(u)
  <2> SUFFICES ASSUME NEW p \in Peers, p \in u.perms \/ u.compat # "RFC5766"
               PROVE  u.queues[p] = <<>>
    BY DEF QueuesOk
  <2> QED
    BY <1>3, <1>5 DEF Sound, QueuesOk
<1>9. ASSUME NEW p \in Peers PROVE Flow(u, p) = Flow(t, p)
  <2>1. CASE p = peer
    <3> DEFINE a == t.data[peer]
               b == t.queues[peer]
    <3>1. a \in Seq(Nat) /\ b \in Seq(Nat)
      BY <1>2
    <3>2. a \o b \in Seq(Nat)
      BY <3>1
    <3>3. (a \o b) \o <<>> = a \o b
      BY <3>2, EmptyFlow
    <3> HIDE DEF a, b
    <3> QED
      BY <1>3, <1>5, <2>1, <3>3 DEF Flow, a, b
  <2>2. CASE p # peer
    BY <1>3, <1>5, <2>2 DEF Flow
  <2> QED
    BY <2>1, <2>2
<1>10. Sound(u)
  BY <1>5, <1>6, <1>7, <1>8 DEF Sound
<1>11. u.queues[peer] = <<>> /\ \A p \in Peers : p # peer => u.queues[p] = t.queues[p]
  BY <1>3, <1>5
<1> QED
  BY <1>5, <1>9, <1>10, <1>11 DEF u

\* A datagram is sent, or kept until the permission is there.
Grows(t, u, peer, n) ==
    /\ Flow(u, peer) = Flow(t, peer) \o <<n>>
    /\ \A p \in Peers : p # peer => Flow(u, p) = Flow(t, p)

LEMMA DataEmitted ==
  ASSUME NEW t, Sound(t), NEW peer \in Peers, t.queues[peer] = <<>>, NEW n \in Nat
  PROVE  LET u == Emit(t, peer, <<n>>)
         IN  /\ Sound(u) /\ u.open = t.open /\ u.compat = t.compat /\ (Ticking(t) => Ticking(u))
             /\ Asked(t) => Asked(u)
             /\ Grows(t, u, peer, n)
<1> DEFINE u == Emit(t, peer, <<n>>)
           d == [t.data EXCEPT ![peer] = @ \o <<n>>]
<1>1. t \in Sock
  BY DEF Sound
<1>2. t.queues \in [Peers -> Seq(Nat)] /\ t.data \in [Peers -> Seq(Nat)]
  BY <1>1, SockFields
<1>3. /\ d \in [Peers -> Seq(Nat)]
      /\ d[peer] = t.data[peer] \o <<n>>
      /\ \A p \in Peers : p # peer => d[p] = t.data[p]
  BY <1>2
<1>4. u = [t EXCEPT !.data = d]
  BY <1>1 DEF Emit, Sock
<1> HIDE DEF d, u
<1>5. /\ u \in Sock /\ u.open = t.open /\ u.compat = t.compat /\ u.permmsgs = t.permmsgs
      /\ u.tickPerm = t.tickPerm /\ u.agent = t.agent /\ u.sentperms = t.sentperms
      /\ u.perms = t.perms
      /\ u.queues = t.queues /\ u.data = d /\ u.sendreqs = t.sendreqs /\ u.used = t.used
      /\ u.out = t.out /\ u.curmsg = t.curmsg /\ u.channels = t.channels
  BY <1>1, <1>3, <1>4 DEF Sock
<1>6. Owned(u)
  BY <1>5, OwnedSame DEF Sound
<1>7. CurOwn(u) /\ ChannelsOk(u) /\ RequestsOk(u.out) /\ QueuesOk(u)
  BY <1>5 DEF Sound, CurOwn, ChannelsOk, Rfc, QueuesOk
<1>8. Sound(u) /\ (Ticking(t) => Ticking(u)) /\ (Asked(t) => Asked(u))
  BY <1>5, <1>6, <1>7, AskedSame DEF Sound, Ticking
<1>9. Flow(u, peer) = Flow(t, peer) \o <<n>>
  <2> DEFINE a == t.data[peer]
  <2>1. a \in Seq(Nat) /\ a \o <<n>> \in Seq(Nat)
    BY <1>2
  <2>2. (a \o <<n>>) \o <<>> = (a \o <<>>) \o <<n>>
    BY <2>1, EmptyFlow
  <2> HIDE DEF a
  <2> QED
    BY <1>3, <1>5, <2>2 DEF Flow, a
<1>10. \A p \in Peers : p # peer => Flow(u, p) = Flow(t, p)
  BY <1>3, <1>5 DEF Flow
<1> QED
  BY <1>5, <1>8, <1>9, <1>10 DEF u, Grows

\* The transaction of a new Send request
SendAdded(t, u, x) ==
    /\ u.agent.sent = t.agent.sent \cup {x}
    /\ \A y \in t.agent.sent : y.id # x.id
    /\ x.method = "SEND"
    /\ u.permmsgs = t.permmsgs /\ u.sendreqs = t.sendreqs \cup {x.id} /\ u.compat = t.compat

LEMMA OwnedAddsSend ==
  ASSUME NEW t \in Sock, NEW u \in Sock, NEW x, Owned(t), ~Rfc(t), SendAdded(t, u, x)
  PROVE  Owned(u)
<1>1. IsFiniteSet(u.agent.sent)
  BY FS_AddElement DEF Owned, SendAdded
<1>2. \A y, z \in u.agent.sent : y.id = z.id => y = z
  BY DEF Owned, SendAdded
<1>3. IdsOf(u, "SEND") = IdsOf(t, "SEND") \cup {x.id}
      /\ IdsOf(u, "CREATEPERMISSION") = IdsOf(t, "CREATEPERMISSION")
  BY DEF IdsOf, SendAdded
<1>4. PermIds(u) = PermIds(t)
  BY DEF PermIds, SendAdded
<1>5. /\ \A i, j \in DOMAIN u.permmsgs :
            i # j => u.permmsgs[i].req.msg.id # u.permmsgs[j].req.msg.id
      /\ \A i \in DOMAIN u.permmsgs : u.permmsgs[i].req.msg.method = "CREATEPERMISSION"
  BY DEF Owned, SendAdded
<1>6. \A y \in u.agent.sent :
         /\ y.method = "CREATEPERMISSION" => Rfc(u)
         /\ y.method \in {"SEND", "OLD_SET_ACTIVE_DST"} => ~Rfc(u)
  BY DEF Owned, Rfc, SendAdded
<1>7. IdsOf(u, "CREATEPERMISSION") = PermIds(u) /\ SendsOk(u)
  BY <1>3, <1>4 DEF Owned, SendAdded, SendsOk, Rfc
<1> QED
  BY <1>1, <1>2, <1>5, <1>6, <1>7, OwnedMeans, Zenon

LEMMA SendRequested ==
  ASSUME NEW t, Sound(t), Left1(t), ~Rfc(t), NEW peer \in Peers, NEW attrs \in SUBSET Attributes,
         "MAGIC_COOKIE" \in attrs
  PROVE  LET r == Request(t, "SEND", peer, None, attrs)
             u == IF r.ok THEN [r.t EXCEPT !.sendreqs = @ \cup {r.msg.req.msg.id}] ELSE t
         IN  /\ Sound(u) /\ u.open = t.open /\ u.compat = t.compat /\ u.permmsgs = t.permmsgs
             /\ u.queues = t.queues /\ u.sentperms = t.sentperms /\ u.data = t.data
             /\ u.tickPerm = t.tickPerm
<1> DEFINE r == Request(t, "SEND", peer, None, attrs)
           i == FreshId(t)
           w == [r.t EXCEPT !.sendreqs = @ \cup {r.msg.req.msg.id}]
<1>1. t \in Sock /\ "SEND" \in Methods
  BY DEF Sound, Methods
<1>2. /\ r.ok \in BOOLEAN
      /\ r.ok => Requested(t, r, i, "SEND", peer, attrs)
  BY <1>1, RequestMade
<1>3. i \in Ids /\ i \in Nat /\ i \notin t.used /\ \A x \in t.agent.sent : x.id # i
  BY FreshIdFree
<1> HIDE DEF r, i
<1>4. ASSUME r.ok
      PROVE  /\ Sound(w) /\ w.open = t.open /\ w.compat = t.compat /\ w.permmsgs = t.permmsgs
             /\ w.queues = t.queues /\ w.sentperms = t.sentperms /\ w.data = t.data
             /\ w.tickPerm = t.tickPerm
  <2> DEFINE m == r.msg
             q == m.req
  <2>1. PICK x \in Transaction :
         /\ x.id = i /\ x.method = "SEND"
         /\ r.t = [t EXCEPT !.agent = [t.agent EXCEPT !.sent = @ \cup {x}],
                            !.used = @ \cup {i}, !.out = @ \cup {q}]
    BY <1>2, <1>4 DEF Requested
  <2>2. /\ m \in TurnMessage /\ q.msg.id = i /\ "MAGIC_COOKIE" \in q.msg.attrs /\ q \in Req
    BY <1>2, <1>4 DEF Requested, TurnMessage
  <2> DEFINE A == [t.agent EXCEPT !.sent = @ \cup {x}]
             B == t.used \cup {i}
             C == t.out \cup {q}
             S == t.sendreqs \cup {i}
  <2>3. A \in StunAgents /\ A.sent = t.agent.sent \cup {x} /\ B \in SUBSET Nat /\ C \in SUBSET Req
        /\ S \in SUBSET Ids
    <3>1. t.agent \in StunAgents /\ t.used \in SUBSET Nat /\ t.out \in SUBSET Req
          /\ t.sendreqs \in SUBSET Ids
      BY <1>1, SockFields
    <3>2. A \in StunAgents /\ A.sent = t.agent.sent \cup {x}
      BY <2>1, <3>1 DEF StunAgents
    <3> HIDE DEF A, m, q
    <3> QED
      BY <1>3, <2>2, <3>1, <3>2
  <2>4. w = [t EXCEPT !.agent = A, !.used = B, !.out = C, !.sendreqs = S]
    <3>1. r.t = [t EXCEPT !.agent = A, !.used = B, !.out = C]
      BY <2>1
    <3> HIDE DEF A, B, C, q, m
    <3>2. r.t.sendreqs = t.sendreqs
      BY <1>1, <3>1 DEF Sock
    <3>3. w = [r.t EXCEPT !.sendreqs = S]
      BY <2>2, <3>2 DEF q, m
    <3> HIDE DEF S, w
    <3> QED
      BY <1>1, <3>1, <3>3 DEF Sock
  <2> HIDE DEF A, w, q, m
  <2>5. /\ w \in Sock /\ w.open = t.open /\ w.compat = t.compat /\ w.permmsgs = t.permmsgs
        /\ w.queues = t.queues /\ w.sentperms = t.sentperms /\ w.data = t.data
        /\ w.tickPerm = t.tickPerm /\ w.agent = A /\ w.used = B /\ w.out = C /\ w.sendreqs = S
        /\ w.curmsg = t.curmsg /\ w.channels = t.channels /\ w.perms = t.perms
    <3> HIDE DEF B, C, S
    <3> QED
      BY <1>1, <2>3, <2>4 DEF Sock
  <2>6. Owned(w)
    <3>1. SendAdded(t, w, x)
      BY <1>3, <2>1, <2>3, <2>5 DEF SendAdded
    <3> QED
      BY <1>1, <2>5, <3>1, OwnedAddsSend DEF Sound
  <2>7. CurOwn(w)
    <3>1. CurOwn(t)
      BY DEF Sound
    <3> QED
      BY <1>3, <2>1, <2>3, <2>5, <3>1 DEF CurOwn
  <2>8. ChannelsOk(w) /\ RequestsOk(w.out) /\ QueuesOk(w)
    BY <2>2, <2>5 DEF Sound, ChannelsOk, Rfc, RequestsOk, Understood, QueuesOk
  <2> QED
    BY <2>5, <2>6, <2>7, <2>8 DEF Sound
<1>5. CASE r.ok
  BY <1>4, <1>5 DEF r
<1>6. CASE ~r.ok
  BY <1>6 DEF r
<1> QED
  BY <1>5, <1>6

\* Joining sequences of numbers.
LEMMA NatConcat ==
  ASSUME NEW a \in Seq(Nat), NEW b \in Seq(Nat), NEW c \in Seq(Nat)
  PROVE  (a \o b) \o c = a \o (b \o c)
OBVIOUS

\* socket_send_message
LEMMA MessageAccepted ==
  ASSUME NEW t, Sound(t), Left3(t), NEW peer \in Peers, NEW n \in Nat
  PROVE  LET u == socket_send_message(t, peer, n)
         IN  Called(t, u) /\ Grows(t, u, peer, n)
<1> DEFINE u == socket_send_message(t, peer, n)
<1>1. t \in Sock
  BY DEF Sound
<1>2. CASE ~Rfc(t) /\ ~Bound(t, peer)
  <2> DEFINE attrs == {"MAGIC_COOKIE", "DESTINATION", "DATA"}
                      \cup (IF t.compat = "GOOGLE" /\ t.cur # None /\ t.cur.peer = peer
                            THEN {"OPTIONS"} ELSE {})
             r == Request(t, "SEND", peer, None, attrs)
             w == IF r.ok THEN [r.t EXCEPT !.sendreqs = @ \cup {r.msg.req.msg.id}] ELSE t
  <2>1. attrs \in SUBSET Attributes /\ "MAGIC_COOKIE" \in attrs
    BY DEF Attributes
  <2>2. u = Emit(w, peer, <<n>>)
    BY <1>2, Zenon DEF socket_send_message
  <2> HIDE DEF attrs, u
  <2>3. /\ Sound(w) /\ w.open = t.open /\ w.compat = t.compat /\ w.permmsgs = t.permmsgs
        /\ w.queues = t.queues /\ w.sentperms = t.sentperms /\ w.data = t.data
        /\ w.tickPerm = t.tickPerm
    BY <1>2, <2>1, LeftLess, SendRequested
  <2> HIDE DEF w
  <2>4. w.queues[peer] = <<>>
    BY <1>2, <2>3 DEF Sound, QueuesOk, Rfc
  <2>5. /\ Sound(u) /\ u.open = w.open /\ u.compat = w.compat /\ (Ticking(w) => Ticking(u))
        /\ Asked(w) => Asked(u)
        /\ Grows(w, u, peer, n)
    BY <2>2, <2>3, <2>4, DataEmitted
  <2>6. (Asked(t) => Asked(w)) /\ (Ticking(t) => Ticking(w))
    BY <2>3, AskedSame DEF Ticking
  <2>7. Grows(t, u, peer, n)
    BY <2>3, <2>5 DEF Grows, Flow
  <2> QED
    BY <2>3, <2>5, <2>6, <2>7 DEF Called, u
<1>3. CASE (Rfc(t) \/ Bound(t, peer)) /\ ~MustWait(t, peer)
  <2>1. u = Emit(t, peer, <<n>>)
    BY <1>3, Zenon DEF socket_send_message
  <2>2. t.queues[peer] = <<>>
    BY <1>3 DEF Sound, QueuesOk, MustWait
  <2> HIDE DEF u
  <2>3. /\ Sound(u) /\ u.open = t.open /\ u.compat = t.compat /\ (Ticking(t) => Ticking(u))
        /\ Asked(t) => Asked(u)
        /\ Grows(t, u, peer, n)
    BY <2>1, <2>2, DataEmitted
  <2> QED
    BY <2>3 DEF Called, u
<1>4. CASE (Rfc(t) \/ Bound(t, peer)) /\ MustWait(t, peer)
  <2> DEFINE v == IF peer \in t.sentperms THEN t ELSE priv_send_create_permission(t, FALSE, peer)
             Q == Append(v.queues[peer], n)
             q == [v.queues EXCEPT ![peer] = Q]
  <2>1. u = [v EXCEPT !.queues[peer] = Append(@, n)]
    BY <1>4, Zenon DEF socket_send_message
  <2>2. Rfc(t) /\ t.compat = "RFC5766" /\ peer \notin t.perms
    BY <1>4 DEF MustWait, Rfc
  <2>3. /\ Sound(v) /\ PermFrame(t, v) /\ (Ticking(t) => Ticking(v))
        /\ v.sentperms = t.sentperms \cup {peer}
        /\ Room(t) /\ peer \notin t.sentperms =>
             \E m \in TurnMessage : v.permmsgs = Append(t.permmsgs, m) /\ m.req.peer = peer
        /\ peer \in t.sentperms => v = t
    <3>1. CASE peer \in t.sentperms
      BY <3>1 DEF PermFrame
    <3>2. CASE peer \notin t.sentperms
      <4> DEFINE z == priv_send_create_permission(t, FALSE, peer)
      <4>1. PermissionAsked(t, z, peer)
        <5>1. FALSE \in BOOLEAN
          OBVIOUS
        <5>2. Rfc(t)
          BY <2>2
        <5> HIDE DEF v, Q, q, u
        <5> QED
          BY <5>1, <5>2, PermissionSent, Zenon
      <4>2. v = z
        BY <3>2
      <4> HIDE DEF z, v
      <4> QED
        BY <3>2, <4>1, <4>2 DEF PermissionAsked
    <3> QED
      BY <3>1, <3>2
  <2> HIDE DEF v, u
  <2>4. v \in Sock /\ v.queues \in [Peers -> Seq(Nat)]
    BY <2>3, SockFields DEF Sound
  <2>5. Q \in Seq(Nat) /\ Q = v.queues[peer] \o <<n>>
    BY <2>4
  <2>6. u = [v EXCEPT !.queues = q]
    BY <2>1, <2>4 DEF Sock
  <2> HIDE DEF Q
  <2>7. /\ q \in [Peers -> Seq(Nat)] /\ q[peer] = Q
        /\ \A p \in Peers : p # peer => q[p] = v.queues[p]
    BY <2>4, <2>5
  <2> HIDE DEF q
  <2>8. /\ u \in Sock /\ u.open = v.open /\ u.compat = v.compat /\ u.permmsgs = v.permmsgs
        /\ u.tickPerm = v.tickPerm /\ u.agent = v.agent /\ u.sentperms = v.sentperms
        /\ u.perms = v.perms
        /\ u.queues = q /\ u.data = v.data /\ u.sendreqs = v.sendreqs /\ u.used = v.used
        /\ u.out = v.out /\ u.curmsg = v.curmsg /\ u.channels = v.channels
    BY <2>4, <2>6, <2>7 DEF Sock
  <2>9. Owned(u)
    BY <2>3, <2>8, OwnedSame DEF Sound
  <2>10. CurOwn(u) /\ ChannelsOk(u) /\ RequestsOk(u.out)
    BY <2>3, <2>8 DEF Sound, CurOwn, ChannelsOk, Rfc
  <2>11. QueuesOk(u)
    BY <2>2, <2>3, <2>7, <2>8 DEF Sound, QueuesOk, PermFrame
  <2>12. Sound(u) /\ (Ticking(v) => Ticking(u))
    BY <2>8, <2>9, <2>10, <2>11 DEF Sound, Ticking
  <2>13. Grows(t, u, peer, n)
    <3> DEFINE a == t.data[peer]
               b == t.queues[peer]
    <3>1. a \in Seq(Nat) /\ b \in Seq(Nat) /\ <<n>> \in Seq(Nat)
      BY <1>1, SockFields
    <3>2. Flow(u, peer) = a \o (b \o <<n>>) /\ Flow(t, peer) = a \o b
      BY <2>3, <2>5, <2>7, <2>8 DEF Flow, PermFrame
    <3> HIDE DEF a, b
    <3>3. a \o (b \o <<n>>) = (a \o b) \o <<n>>
      BY <3>1, NatConcat
    <3>4. \A p \in Peers : p # peer => Flow(u, p) = Flow(t, p)
      BY <2>3, <2>7, <2>8 DEF Flow, PermFrame
    <3> QED
      BY <3>2, <3>3, <3>4 DEF Grows
  <2>14. Room(t) /\ Asked(t) => Asked(u)
    <3> SUFFICES ASSUME Room(t), Asked(t) PROVE Asked(u)
      OBVIOUS
    <3>1. CASE peer \notin t.sentperms
      <4>1. PICK m \in TurnMessage : v.permmsgs = Append(t.permmsgs, m) /\ m.req.peer = peer
        BY <2>3, <3>1
      <4>2. /\ u.permmsgs = Append(t.permmsgs, m)
            /\ \A p \in Peers : p # peer => u.queues[p] = t.queues[p]
            /\ u.sentperms \subseteq t.sentperms \cup {peer}
        BY <2>3, <2>7, <2>8, <4>1 DEF PermFrame
      <4> QED
        BY <1>1, <2>8, <4>1, <4>2, AskedMore
    <3>2. CASE peer \in t.sentperms
      <4> SUFFICES ASSUME NEW p \in Peers, p \in u.sentperms \/ u.queues[p] # <<>>
                   PROVE  \E i \in DOMAIN u.permmsgs : u.permmsgs[i].req.peer = p
        BY DEF Asked
      <4>1. v = t
        BY <2>3, <3>2
      <4>2. p \in t.sentperms \/ t.queues[p] # <<>>
        BY <2>7, <2>8, <3>2, <4>1
      <4> QED
        BY <2>8, <4>1, <4>2 DEF Asked
    <3> QED
      BY <3>1, <3>2
  <2> QED
    BY <2>3, <2>8, <2>12, <2>13, <2>14 DEF Called, u, PermFrame
<1> QED
  BY <1>2, <1>3, <1>4 DEF Bound

-----------------------------------------------------------------------------
\* Answers

\* What the server may send: answers with the attributes of the requests, data.
Plausible(t, m) ==
    /\ Understood(m)
    /\ \/ m.class = "RESPONSE"
       \/ m.class = "ERROR"
       \/ m.class = "INDICATION" /\ m.method = "IND_DATA"

Reply(m) == m.class \in {"RESPONSE", "ERROR"}

\* A message that is accepted, where v is what stun_agent_validate returns: of
\* an answer the transaction is forgotten.
Accepted(a, m, v) ==
    /\ v.status # "SUCCESS" => v.agent = a
    /\ v.status = "SUCCESS" /\ ~Reply(m) => v.agent = a
    /\ v.status = "SUCCESS" /\ Reply(m) =>
          /\ v.agent = [a EXCEPT !.sent = {y \in @ : y.id # m.id}]
          /\ \E x \in a.sent : x.id = m.id /\ x.method = m.method

LEMMA Validation ==
  ASSUME NEW a \in StunAgents, \A x, y \in a.sent : x.id = y.id => x = y, NEW m \in Message
  PROVE  Accepted(a, m, stun_agent_validate(a, m, NoKey))
<1> DEFINE c == Credentials(a, m, NoKey)
           v == stun_agent_validate(a, m, NoKey)
           M == Matches(a, m)
<1>1. UnknownStatus(m) = "SUCCESS"
  BY DEF Message, Attributes, UnknownStatus
<1>2. v = IF c # "SUCCESS" THEN [status |-> c, agent |-> a]
          ELSE [status |-> "SUCCESS",
                agent |-> IF Reply(m) THEN [a EXCEPT !.sent = @ \ M] ELSE a]
  BY <1>1 DEF stun_agent_validate, Reply
<1>3. ASSUME c = "SUCCESS", Reply(m) PROVE M # {}
  <2> SUFFICES ASSUME M = {} PROVE c # "SUCCESS"
    BY <1>3
  <2>1. CASE ShapeStatus(m) # "SUCCESS"
    BY <2>1 DEF Credentials
  <2>2. CASE ShapeStatus(m) = "SUCCESS" /\ HasCookies(a)
             /\ (~m.cookie \/ ("USE_FINGERPRINT" \in a.flags /\ m.fpr # "good"))
    BY <2>2 DEF Credentials
  <2>3. CASE ~(ShapeStatus(m) # "SUCCESS")
             /\ ~(ShapeStatus(m) = "SUCCESS" /\ HasCookies(a)
             /\ (~m.cookie \/ ("USE_FINGERPRINT" \in a.flags /\ m.fpr # "good")))
    <3>1. c = "UNMATCHED_RESPONSE"
      BY <1>3, <2>3 DEF Credentials, Reply
    <3> QED
      BY <3>1
  <2> QED
    BY <2>1, <2>2, <2>3
<1> HIDE DEF c, v
<1>4. CASE c # "SUCCESS"
  BY <1>2, <1>4 DEF v, Accepted
<1>5. CASE c = "SUCCESS" /\ ~Reply(m)
  BY <1>2, <1>5 DEF v, Accepted
<1>6. CASE c = "SUCCESS" /\ Reply(m)
  <2>1. PICK x \in a.sent : x.id = m.id /\ x.method = m.method
    BY <1>3, <1>6 DEF Matches
  <2>2. a.sent \ M = {y \in a.sent : y.id # m.id}
    BY <2>1 DEF Matches
  <2>3. v.agent = [a EXCEPT !.sent = @ \ M] /\ v.status = "SUCCESS"
    BY <1>2, <1>6
  <2>4. v.agent = [a EXCEPT !.sent = {y \in @ : y.id # m.id}]
    <3> HIDE DEF M
    <3> QED
      BY <2>2, <2>3 DEF StunAgents
  <2> QED
    BY <1>6, <2>1, <2>3, <2>4 DEF v, Accepted
<1> QED
  BY <1>4, <1>5, <1>6

\* The list s without the element at place i
Without(s, i) == SubSeq(s, 1, i - 1) \o SubSeq(s, i + 1, Len(s))

LEMMA WithoutElements ==
  ASSUME NEW S, NEW s \in Seq(S), NEW i \in DOMAIN s
  PROVE  /\ Without(s, i) \in Seq(S) /\ DOMAIN Without(s, i) = 1 .. Len(s) - 1
         /\ \A k \in 1 .. i - 1 : Without(s, i)[k] = s[k]
         /\ \A k \in i .. Len(s) - 1 : Without(s, i)[k] = s[k + 1]
<1> DEFINE n == Len(s)
           a == SubSeq(s, 1, i - 1)
           b == SubSeq(s, i + 1, n)
<1>1. n \in Nat /\ i \in 1 .. n /\ DOMAIN s = 1 .. n
  OBVIOUS
<1>2. a \in Seq(S) /\ Len(a) = i - 1 /\ \A k \in 1 .. i - 1 : a[k] = s[k]
  BY <1>1
<1>3. b \in Seq(S) /\ Len(b) = n - i /\ \A k \in 1 .. n - i : b[k] = s[i + k]
  BY <1>1
<1> HIDE DEF a, b
<1> DEFINE c == a \o b
<1>4. c \in Seq(S) /\ Len(c) = n - 1
  <2>0. a \in Seq(S) /\ b \in Seq(S)
    BY <1>2, <1>3
  <2>1. c \in Seq(S) /\ Len(c) = Len(a) + Len(b)
    BY <2>0, ConcatProperties
  <2>2. i - 1 + (n - i) = n - 1
    BY <1>1
  <2> QED
    BY <1>2, <1>3, <2>1, <2>2
<1>5. \A k \in 1 .. i - 1 : c[k] = s[k]
  BY <1>1, <1>2, <1>3
<1>6. \A k \in i .. n - 1 : c[k] = s[k + 1]
  <2> TAKE k \in i .. n - 1
  <2>1. k - (i - 1) \in 1 .. n - i /\ i + (k - (i - 1)) = k + 1
    BY <1>1
  <2>2. c[k] = b[k - (i - 1)]
    BY <1>1, <1>2, <1>3
  <2> QED
    BY <1>3, <2>1, <2>2
<1>7. DOMAIN c = 1 .. n - 1
  BY <1>4
<1> HIDE DEF c
<1>8. Without(s, i) = c
  BY DEF Without, a, b, c
<1> QED
  BY <1>4, <1>5, <1>6, <1>7, <1>8

\* The elements of w are those of s but for place i, each at one place.
Others(s, i, w) ==
    /\ \A k \in DOMAIN w : \E j \in DOMAIN s : j # i /\ w[k] = s[j]
    /\ \A j \in DOMAIN s : j # i => \E k \in DOMAIN w : w[k] = s[j]
    /\ \A k, l \in DOMAIN w : k # l =>
          \E a, b \in DOMAIN s : a # b /\ a # i /\ b # i /\ w[k] = s[a] /\ w[l] = s[b]

LEMMA WithoutPlaces ==
  ASSUME NEW S, NEW s \in Seq(S), NEW i \in DOMAIN s
  PROVE  Others(s, i, Without(s, i))
<1> DEFINE n == Len(s)
           w == Without(s, i)
           At(k) == IF k < i THEN k ELSE k + 1
<1>1. n \in Nat /\ i \in 1 .. n /\ DOMAIN s = 1 .. n
  OBVIOUS
<1>2. /\ DOMAIN w = 1 .. n - 1
      /\ \A k \in 1 .. i - 1 : w[k] = s[k]
      /\ \A k \in i .. n - 1 : w[k] = s[k + 1]
  BY WithoutElements
<1> HIDE DEF w, n
<1>3. \A k \in DOMAIN w : At(k) \in DOMAIN s /\ At(k) # i /\ w[k] = s[At(k)]
  <2> TAKE k \in DOMAIN w
  <2>1. CASE k < i
    <3>1. k \in 1 .. i - 1 /\ At(k) = k /\ k \in 1 .. n /\ k # i
      BY <1>1, <1>2, <2>1
    <3> QED
      BY <1>1, <1>2, <3>1
  <2>2. CASE ~(k < i)
    <3>1. k \in i .. n - 1 /\ At(k) = k + 1 /\ k + 1 \in 1 .. n /\ k + 1 # i
      BY <1>1, <1>2, <2>2
    <3> QED
      BY <1>1, <1>2, <3>1
  <2> QED
    BY <2>1, <2>2
<1>4. ASSUME NEW j \in DOMAIN s, j # i PROVE \E k \in DOMAIN w : w[k] = s[j]
  <2>1. CASE j < i
    <3>1. j \in 1 .. i - 1 /\ j \in 1 .. n - 1
      BY <1>1, <2>1
    <3> QED
      BY <1>2, <3>1
  <2>2. CASE ~(j < i)
    <3>1. j - 1 \in i .. n - 1 /\ j - 1 \in 1 .. n - 1 /\ j - 1 + 1 = j
      BY <1>1, <1>4, <2>2
    <3>2. w[j - 1] = s[j]
      BY <1>2, <3>1
    <3> QED
      BY <1>2, <3>1, <3>2
  <2> QED
    BY <2>1, <2>2
<1>5. \A k, l \in DOMAIN w : k # l => At(k) # At(l)
  BY <1>1, <1>2
<1> HIDE DEF At
<1>6. \A k, l \in DOMAIN w : k # l =>
         \E a, b \in DOMAIN s : a # b /\ a # i /\ b # i /\ w[k] = s[a] /\ w[l] = s[b]
  BY <1>3, <1>5
<1>7. \A k \in DOMAIN w : \E j \in DOMAIN s : j # i /\ w[k] = s[j]
  BY <1>3
<1> QED
  BY <1>4, <1>6, <1>7 DEF w, Others

\* A transaction that is not of a permission request is forgotten, if it is still
\* remembered; a Send request may no longer be outstanding.
LEMMA TransactionForgotten ==
  ASSUME NEW t, Sound(t), NEW u \in Sock, NEW id, id \notin PermIds(t),
         u.agent.sent = {y \in t.agent.sent : y.id # id},
         u.sendreqs \subseteq t.sendreqs, t.sendreqs \ {id} \subseteq u.sendreqs,
         u.open = t.open, u.compat = t.compat, u.perms = t.perms, u.sentperms = t.sentperms,
         u.permmsgs = t.permmsgs, u.queues = t.queues, u.data = t.data, u.used = t.used,
         u.out = t.out, u.curmsg = t.curmsg, u.channels = t.channels, u.tickPerm = t.tickPerm
  PROVE  Sound(u) /\ Calm(t, u) /\ FreeIds(t) \subseteq FreeIds(u)
<1>1. t \in Sock /\ Owned(t)
  BY DEF Sound
<1>3. PermIds(u) = PermIds(t) \ {id}
  <2>1. PermIds(u) = PermIds(t)
    BY DEF PermIds
  <2> QED
    BY <2>1
<1>4. /\ \A i, j \in DOMAIN u.permmsgs :
            i # j => u.permmsgs[i].req.msg.id # u.permmsgs[j].req.msg.id
      /\ \A i \in DOMAIN u.permmsgs : u.permmsgs[i].req.msg.method = "CREATEPERMISSION"
  BY <1>1 DEF Owned
<1>5. Owned(u)
  BY <1>1, <1>3, <1>4, OwnedForgets
<1>6. CurOwn(u) /\ ChannelsOk(u) /\ RequestsOk(u.out) /\ QueuesOk(u)
  BY DEF Sound, CurOwn, ChannelsOk, Rfc, QueuesOk
<1>7. Sound(u)
  BY <1>5, <1>6 DEF Sound
<1>8. (Asked(t) => Asked(u)) /\ (Ticking(t) => Ticking(u))
  BY AskedSame DEF Ticking
<1>9. FreeIds(t) \subseteq FreeIds(u)
  BY DEF FreeIds
<1> QED
  BY <1>7, <1>8, <1>9 DEF Calm, Called, Flow

\* The request is no longer outstanding; what it was for becomes b or joins the
\* bindings.
LEMMA Rebound ==
  ASSUME NEW t, Sound(t), NEW C \in Seq(ChannelBinding), NEW b \in ChannelBinding \cup {None},
         Rfc(t) => \A i \in DOMAIN C : C[i].timer = IF C[i].renew THEN "expire" ELSE "refresh"
  PROVE  LET u == [t EXCEPT !.curmsg = None, !.cur = b, !.channels = C]
         IN  Done(t, u) /\ FreeIds(u) = FreeIds(t)
<1> DEFINE u == [t EXCEPT !.curmsg = None, !.cur = b, !.channels = C]
<1>1. t \in Sock
  BY DEF Sound
<1>2. /\ u \in Sock /\ SameRest(t, u) /\ u.curmsg = None /\ u.agent = t.agent /\ u.used = t.used
      /\ u.out = t.out /\ u.tickPerm = t.tickPerm /\ u.channels = C
  BY <1>1 DEF Sock, SameRest
<1> HIDE DEF u
<1>3. Owned(u)
  BY <1>2, OwnedSame DEF Sound, SameRest
<1>4. CurOwn(u) /\ RequestsOk(u.out) /\ ChannelsOk(u)
  BY <1>2 DEF Sound, CurOwn, ChannelsOk, Rfc, SameRest
<1>5. Sound(u)
  BY <1>2, <1>3, <1>4, SoundFrame
<1>6. Frame(t, u) /\ FreeIds(u) = FreeIds(t)
  BY <1>2 DEF Frame, SameRest, Ticking, FreeIds
<1> QED
  BY <1>5, <1>6 DEF Done, u

LEMMA DoneThen ==
  ASSUME NEW t, NEW u, NEW v, Done(t, u), Done(u, v)
  PROVE  Done(t, v)
  BY FrameTransitive DEF Done

LEMMA OnSetActiveDone ==
  ASSUME NEW t, Sound(t), Left2(t), ~Rfc(t), NEW m
  PROVE  Done(t, OnSetActive(t, m))
<1> DEFINE u == [t EXCEPT !.curmsg = None]
           w == [u EXCEPT !.cur = None]
<1>1. t \in Sock /\ t.channels \in Seq(ChannelBinding) /\ t.cur \in ChannelBinding \cup {None}
  BY SockFields DEF Sound
<1>2. u = [t EXCEPT !.curmsg = None, !.cur = t.cur, !.channels = t.channels]
      /\ w = [t EXCEPT !.curmsg = None, !.cur = None, !.channels = t.channels]
  BY <1>1 DEF Sock
<1> HIDE DEF u, w
<1>3. Done(t, u) /\ FreeIds(u) = FreeIds(t) /\ Done(t, w)
  BY <1>1, <1>2, Rebound
<1>4. ~Rfc(u) /\ Left2(u)
  BY <1>3, LeftMore DEF Done, Frame, SameRest, Rfc
<1>5. Done(u, msn_google_lock(u))
  BY <1>3, <1>4, Locked DEF Done
<1>6. Done(t, t)
  BY StepSame DEF Done, Step
<1>7. OnSetActive(t, m) \in {t, msn_google_lock(u), w}
  BY DEF OnSetActive, u, w
<1> QED
  BY <1>3, <1>5, <1>6, <1>7, DoneThen

LEMMA RefreshedOk ==
  ASSUME NEW b \in ChannelBinding
  PROVE  /\ Refreshed(b) \in ChannelBinding
         /\ Refreshed(b).timer = IF Refreshed(b).renew THEN "expire" ELSE "refresh"
  BY DEF Refreshed, ChannelBinding

\* A ChannelBind request that is to be made again
LEMMA BindRefused ==
  ASSUME NEW t, NEW m, m.class = "ERROR", Unauthorized(t.curmsg.req, m)
  PROVE  LET peer == t.curmsg.req.peer
             same == {k \in 1..Len(t.channels) : t.channels[k].peer = peer}
             i == CHOOSE k \in same : \A j \in same : k <= j
             b == IF t.cur # None THEN t.cur ELSE t.channels[i]
             u == [t EXCEPT !.curmsg = None]
         IN  OnChannelBind(t, m) =
               IF t.cur = None /\ same = {} THEN u
               ELSE priv_send_channel_bind(u, TRUE, b.channel, b.peer).t
  BY Zenon DEF OnChannelBind

\* The cases of the answer to a ChannelBind request
LEMMA BindAnswered ==
  ASSUME NEW t, NEW m
  PROVE  LET peer == t.curmsg.req.peer
             same == {k \in 1..Len(t.channels) : t.channels[k].peer = peer}
             i == CHOOSE k \in same : \A j \in same : k <= j
             b == IF t.cur # None THEN t.cur ELSE t.channels[i]
             u == [t EXCEPT !.curmsg = None]
             una == Unauthorized(t.curmsg.req, m)
             a1 == [u EXCEPT !.cur = None]
             a2 == [u EXCEPT !.channels = Append(@, Refreshed(t.cur)), !.cur = None]
             a3 == [u EXCEPT !.channels[i] = Refreshed(@)]
             s == priv_send_channel_bind(u, TRUE, b.channel, b.peer)
         IN  /\ m.class = "ERROR" /\ una =>
                   OnChannelBind(t, m) = IF t.cur = None /\ same = {} THEN u ELSE s.t
             /\ m.class = "ERROR" /\ ~una =>
                   OnChannelBind(t, m) = priv_process_pending_bindings(a1)
             /\ m.class = "RESPONSE" /\ t.cur # None =>
                   OnChannelBind(t, m) = priv_process_pending_bindings(a2)
             /\ m.class = "RESPONSE" /\ t.cur = None /\ same # {} =>
                   OnChannelBind(t, m) = priv_process_pending_bindings(a3)
             /\ m.class = "RESPONSE" /\ t.cur = None /\ same = {} =>
                   OnChannelBind(t, m) = priv_process_pending_bindings(u)
<1> DEFINE peer == t.curmsg.req.peer
           same == {k \in 1..Len(t.channels) : t.channels[k].peer = peer}
           i == CHOOSE k \in same : \A j \in same : k <= j
           b == IF t.cur # None THEN t.cur ELSE t.channels[i]
           u == [t EXCEPT !.curmsg = None]
           una == Unauthorized(t.curmsg.req, m)
           a1 == [u EXCEPT !.cur = None]
           a2 == [u EXCEPT !.channels = Append(@, Refreshed(t.cur)), !.cur = None]
           a3 == [u EXCEPT !.channels[i] = Refreshed(@)]
           s == priv_send_channel_bind(u, TRUE, b.channel, b.peer)
<1>1. ASSUME m.class = "ERROR", una
      PROVE  OnChannelBind(t, m) = IF t.cur = None /\ same = {} THEN u ELSE s.t
  BY <1>1, BindRefused
<1> DEFINE more == IF m.class = "ERROR" THEN a1
                   ELSE IF t.cur # None THEN a2 ELSE IF same # {} THEN a3 ELSE u
           again == m.class = "ERROR" /\ una
           final == m.class = "RESPONSE" \/ (m.class = "ERROR" /\ ~una)
           x == IF t.cur = None /\ same = {} THEN u ELSE s.t
           y == priv_process_pending_bindings(more)
           o == OnChannelBind(t, m)
<1>2. o = CASE again -> x [] final -> y [] OTHER -> t
  BY Zenon DEF OnChannelBind
<1>3. ~(again /\ final)
  OBVIOUS
<1>4. final => o = y
  <2> HIDE DEF again, final, x, y, o
  <2> QED
    BY <1>2, <1>3
<1>5. ASSUME m.class = "ERROR", ~una PROVE o = priv_process_pending_bindings(a1)
  <2>1. final /\ more = a1
    BY <1>5
  <2> HIDE DEF more, final, a1, o
  <2> QED
    BY <1>4, <2>1
<1>6. ASSUME m.class = "RESPONSE", t.cur # None PROVE o = priv_process_pending_bindings(a2)
  <2> HIDE DEF a1, a2, a3
  <2>1. final /\ more = a2
    BY <1>6
  <2> HIDE DEF more, final, o
  <2> QED
    BY <1>4, <2>1
<1>7. ASSUME m.class = "RESPONSE", t.cur = None, same # {}
      PROVE  o = priv_process_pending_bindings(a3)
  <2> HIDE DEF a1, a2, a3, same
  <2>1. final /\ more = a3
    BY <1>7
  <2> HIDE DEF more, final, o
  <2> QED
    BY <1>4, <2>1
<1>8. ASSUME m.class = "RESPONSE", t.cur = None, same = {}
      PROVE  o = priv_process_pending_bindings(u)
  <2> HIDE DEF a1, a2, a3, same, u
  <2>1. final /\ more = u
    BY <1>8
  <2> HIDE DEF more, final, o
  <2> QED
    BY <1>4, <2>1
<1> QED
  BY <1>1, <1>5, <1>6, <1>7, <1>8, Zenon

LEMMA OnChannelBindDone ==
  ASSUME NEW t, Sound(t), Left2(t), t.curmsg # None, NEW m, Reply(m)
  PROVE  Done(t, OnChannelBind(t, m))
<1> DEFINE peer == t.curmsg.req.peer
           C == t.channels
           same == {k \in 1..Len(t.channels) : t.channels[k].peer = peer}
           i == CHOOSE k \in same : \A j \in same : k <= j
           b == IF t.cur # None THEN t.cur ELSE t.channels[i]
           u == [t EXCEPT !.curmsg = None]
           una == Unauthorized(t.curmsg.req, m)
           a1 == [u EXCEPT !.cur = None]
           a2 == [u EXCEPT !.channels = Append(@, Refreshed(t.cur)), !.cur = None]
           a3 == [u EXCEPT !.channels[i] = Refreshed(@)]
           s == priv_send_channel_bind(u, TRUE, b.channel, b.peer)
<1>1. t \in Sock /\ C \in Seq(ChannelBinding) /\ t.cur \in ChannelBinding \cup {None}
  BY SockFields DEF Sound
<1>2. Rfc(t) => \A k \in DOMAIN C : C[k].timer = IF C[k].renew THEN "expire" ELSE "refresh"
  BY DEF Sound, ChannelsOk
<1>3. same # {} => i \in same /\ i \in DOMAIN C /\ C[i] \in ChannelBinding
  <2>1. same \in SUBSET Nat /\ same \subseteq DOMAIN C
    BY <1>1
  <2> HIDE DEF same
  <2>2. same # {} => i \in same
    BY <2>1, FirstOf
  <2> HIDE DEF i, C
  <2>3. same # {} => i \in DOMAIN C
    BY <2>1, <2>2
  <2>4. \A k \in DOMAIN C : C[k] \in ChannelBinding
    BY <1>1
  <2> QED
    BY <2>2, <2>3, <2>4
<1>4. /\ m.class = "ERROR" /\ una =>
            OnChannelBind(t, m) = IF t.cur = None /\ same = {} THEN u ELSE s.t
      /\ m.class = "ERROR" /\ ~una => OnChannelBind(t, m) = priv_process_pending_bindings(a1)
      /\ m.class = "RESPONSE" /\ t.cur # None =>
            OnChannelBind(t, m) = priv_process_pending_bindings(a2)
      /\ m.class = "RESPONSE" /\ t.cur = None /\ same # {} =>
            OnChannelBind(t, m) = priv_process_pending_bindings(a3)
      /\ m.class = "RESPONSE" /\ t.cur = None /\ same = {} =>
            OnChannelBind(t, m) = priv_process_pending_bindings(u)
  BY BindAnswered, Zenon
<1> HIDE DEF same, i
<1>5. Done(t, u) /\ FreeIds(u) = FreeIds(t)
  <2>1. u = [t EXCEPT !.curmsg = None, !.cur = t.cur, !.channels = C]
    BY <1>1 DEF Sock
  <2> HIDE DEF u, C
  <2> QED
    BY <1>1, <1>2, <2>1, Rebound
<1>6. Done(t, a1) /\ FreeIds(a1) = FreeIds(t)
  <2>1. a1 = [t EXCEPT !.curmsg = None, !.cur = None, !.channels = C]
    BY <1>1 DEF Sock
  <2> HIDE DEF a1, C
  <2> QED
    BY <1>1, <1>2, <2>1, Rebound
<1>7. ASSUME t.cur # None PROVE Done(t, a2) /\ FreeIds(a2) = FreeIds(t)
  <2> DEFINE R == Refreshed(t.cur)
             D == Append(C, R)
  <2>1. R \in ChannelBinding /\ R.timer = IF R.renew THEN "expire" ELSE "refresh"
    BY <1>1, <1>7, RefreshedOk
  <2> HIDE DEF R
  <2>2. /\ D \in Seq(ChannelBinding) /\ DOMAIN D = 1 .. Len(C) + 1
        /\ D[Len(C) + 1] = R /\ \A k \in 1 .. Len(C) : D[k] = C[k]
    BY <1>1, <2>1
  <2>3. DOMAIN C = 1 .. Len(C) /\ \A k \in 1 .. Len(C) + 1 : k = Len(C) + 1 \/ k \in 1 .. Len(C)
    BY <1>1
  <2>4. a2 = [t EXCEPT !.curmsg = None, !.cur = None, !.channels = D]
    BY <1>1 DEF Sock, R
  <2> HIDE DEF D, C
  <2>5. Rfc(t) => \A k \in DOMAIN D : D[k].timer = IF D[k].renew THEN "expire" ELSE "refresh"
    BY <1>2, <2>1, <2>2, <2>3
  <2>6. None \in ChannelBinding \cup {None}
    OBVIOUS
  <2> HIDE DEF a2
  <2> QED
    BY <2>2, <2>4, <2>5, <2>6, Rebound
<1>8. ASSUME same # {} PROVE Done(t, a3) /\ FreeIds(a3) = FreeIds(t)
  <2> DEFINE R == Refreshed(C[i])
             D == [C EXCEPT ![i] = R]
  <2>1. R \in ChannelBinding /\ R.timer = IF R.renew THEN "expire" ELSE "refresh"
    BY <1>3, <1>8, RefreshedOk
  <2>2. a3 = [t EXCEPT !.curmsg = None, !.cur = t.cur, !.channels = D]
    BY <1>1 DEF Sock
  <2> HIDE DEF R
  <2>3. D \in Seq(ChannelBinding) /\ DOMAIN D = DOMAIN C
        /\ \A k \in DOMAIN C : D[k] = IF k = i THEN R ELSE C[k]
    BY <1>1, <1>3, <1>8, <2>1
  <2> HIDE DEF D, C, a3
  <2>4. Rfc(t) => \A k \in DOMAIN D : D[k].timer = IF D[k].renew THEN "expire" ELSE "refresh"
    BY <1>2, <2>1, <2>3
  <2> QED
    BY <1>1, <2>2, <2>3, <2>4, Rebound
<1>9. ASSUME NEW z, Done(t, z), FreeIds(z) = FreeIds(t)
      PROVE  Done(t, priv_process_pending_bindings(z))
  <2>1. Left2(z)
    BY <1>9, LeftMore
  <2>2. Done(z, priv_process_pending_bindings(z))
    BY <1>9, <2>1, ProcessPending DEF Done
  <2> QED
    BY <1>9, <2>2, DoneThen
<1>10. ASSUME ~(t.cur = None /\ same = {}) PROVE Done(t, s.t)
  <2>1. b \in ChannelBinding
    BY <1>1, <1>3, <1>10
  <2>2. b.channel \in Nat /\ b.peer \in Peers
    BY <2>1 DEF ChannelBinding
  <2> HIDE DEF b, u
  <2>3. Sound(u) /\ Left1(u) /\ TRUE \in BOOLEAN
    BY <1>5, LeftMore, LeftLess DEF Done
  <2>4. Step(u, s.t)
    BY <2>2, <2>3, ChannelBindSent
  <2> QED
    BY <1>5, <2>4, DoneThen DEF Done, Step
<1> HIDE DEF u, s, a1, a2, a3, b, una, same, i, C
<1>11. CASE m.class = "ERROR" /\ una
  BY <1>5, <1>10, <1>4, <1>11
<1>12. CASE m.class = "ERROR" /\ ~una
  BY <1>6, <1>9, <1>4, <1>12
<1>13. CASE m.class = "RESPONSE" /\ t.cur # None
  BY <1>7, <1>9, <1>4, <1>13
<1>14. CASE m.class = "RESPONSE" /\ t.cur = None
  BY <1>5, <1>8, <1>9, <1>4, <1>14
<1> QED
  BY <1>11, <1>12, <1>13, <1>14 DEF Reply

\* A permission request is no longer outstanding.
PermissionRemoved(t, u, i) ==
    /\ u.permmsgs = Without(t.permmsgs, i)
    /\ u.agent.sent = {y \in t.agent.sent : y.id # t.permmsgs[i].req.msg.id}
    /\ u.open = t.open /\ u.compat = t.compat /\ u.perms = t.perms /\ u.sentperms = t.sentperms
    /\ u.queues = t.queues /\ u.data = t.data /\ u.used = t.used /\ u.sendreqs = t.sendreqs
    /\ u.out = t.out /\ u.curmsg = t.curmsg /\ u.channels = t.channels /\ u.tickPerm = t.tickPerm

LEMMA PermissionForgotten ==
  ASSUME NEW t, Sound(t), NEW u \in Sock, NEW i \in DOMAIN t.permmsgs, PermissionRemoved(t, u, i)
  PROVE  /\ Sound(u) /\ (Ticking(t) => Ticking(u)) /\ FreeIds(t) \subseteq FreeIds(u)
         /\ Asked(t) => AskedExcept(u, t.permmsgs[i].req.peer)
         /\ Room(t) => Room(u)
         /\ \A p \in Peers : Flow(u, p) = Flow(t, p)
<1> DEFINE P == t.permmsgs
           Q == u.permmsgs
           id == P[i].req.msg.id
<1>1. t \in Sock /\ Owned(t) /\ P \in Seq(TurnMessage)
  BY SockFields DEF Sound
<1>2. Q = Without(P, i) /\ u.agent.sent = {y \in t.agent.sent : y.id # id}
      /\ u.sendreqs = t.sendreqs /\ u.compat = t.compat
  BY DEF PermissionRemoved
<1>3. /\ \A k \in DOMAIN Q : \E j \in DOMAIN P : j # i /\ Q[k] = P[j]
      /\ \A j \in DOMAIN P : j # i => \E k \in DOMAIN Q : Q[k] = P[j]
      /\ \A k, l \in DOMAIN Q : k # l =>
            \E a, b \in DOMAIN P : a # b /\ a # i /\ b # i /\ Q[k] = P[a] /\ Q[l] = P[b]
  <2>1. Others(P, i, Without(P, i))
    BY <1>1, WithoutPlaces
  <2> HIDE DEF P, Q
  <2>2. Others(P, i, Q)
    BY <1>2, <2>1
  <2> QED
    BY <2>2 DEF Others
<1>4. /\ \A k, l \in DOMAIN P : k # l => P[k].req.msg.id # P[l].req.msg.id
      /\ \A k \in DOMAIN P : P[k].req.msg.method = "CREATEPERMISSION"
  BY <1>1 DEF Owned
<1>5. PermIds(t) = {P[k].req.msg.id : k \in DOMAIN P}
      /\ PermIds(u) = {Q[k].req.msg.id : k \in DOMAIN Q}
  BY DEF PermIds
<1> HIDE DEF P, Q
<1>7. PermIds(u) = PermIds(t) \ {id}
  <2>1. ASSUME NEW z \in PermIds(u) PROVE z \in PermIds(t) \ {id}
    <3>1. PICK k \in DOMAIN Q : z = Q[k].req.msg.id
      BY <1>5, <2>1
    <3>2. PICK j \in DOMAIN P : j # i /\ Q[k] = P[j]
      BY <1>3, <3>1
    <3> QED
      BY <1>4, <1>5, <3>1, <3>2 DEF P
  <2>2. ASSUME NEW z \in PermIds(t) \ {id} PROVE z \in PermIds(u)
    <3>1. PICK j \in DOMAIN P : z = P[j].req.msg.id
      BY <1>5, <2>2
    <3>2. j # i
      BY <2>2, <3>1
    <3>3. PICK k \in DOMAIN Q : Q[k] = P[j]
      BY <1>3, <3>2
    <3> QED
      BY <1>5, <3>1, <3>3
  <2> QED
    BY <2>1, <2>2
<1>8. /\ \A k, l \in DOMAIN Q : k # l => Q[k].req.msg.id # Q[l].req.msg.id
      /\ \A k \in DOMAIN Q : Q[k].req.msg.method = "CREATEPERMISSION"
  <2>1. ASSUME NEW k \in DOMAIN Q, NEW l \in DOMAIN Q, k # l
        PROVE  Q[k].req.msg.id # Q[l].req.msg.id
    <3>1. PICK a \in DOMAIN P, b \in DOMAIN P : a # b /\ Q[k] = P[a] /\ Q[l] = P[b]
      BY <1>3, <2>1
    <3> QED
      BY <1>4, <3>1
  <2>2. \A k \in DOMAIN Q : Q[k].req.msg.method = "CREATEPERMISSION"
    BY <1>3, <1>4
  <2> QED
    BY <2>1, <2>2
<1>9. Owned(u)
  <2>1. u.sendreqs \subseteq t.sendreqs /\ t.sendreqs \ {id} \subseteq u.sendreqs
    BY <1>2
  <2> HIDE DEF id
  <2> QED
    BY <1>1, <1>2, <1>7, <1>8, <2>1, OwnedForgets DEF Q
<1>10. CurOwn(u) /\ ChannelsOk(u) /\ RequestsOk(u.out) /\ QueuesOk(u)
  BY DEF Sound, CurOwn, ChannelsOk, Rfc, QueuesOk, PermissionRemoved
<1>11. Sound(u)
  BY <1>9, <1>10 DEF Sound
<1>12. Ticking(t) => Ticking(u)
  <2>1. t.permmsgs # <<>>
    BY <1>1 DEF P
  <2> QED
    BY <2>1 DEF Ticking, PermissionRemoved
<1>13. FreeIds(t) \subseteq FreeIds(u)
  BY DEF FreeIds, PermissionRemoved
<1>14. ASSUME Asked(t) PROVE AskedExcept(u, P[i].req.peer)
  <2> SUFFICES ASSUME NEW p \in Peers, p # P[i].req.peer, p \in t.sentperms \/ t.queues[p] # <<>>
               PROVE  \E k \in DOMAIN Q : Q[k].req.peer = p
    BY DEF AskedExcept, PermissionRemoved, Q
  <2>1. PICK j \in DOMAIN P : P[j].req.peer = p
    BY <1>14 DEF Asked, P
  <2>2. j # i
    BY <2>1
  <2>3. PICK k \in DOMAIN Q : Q[k] = P[j]
    BY <1>3, <2>2
  <2> QED
    BY <2>1, <2>3
<1>15. Room(t) => Room(u)
  <2>1. IsFiniteSet(t.agent.sent) /\ u.agent.sent \subseteq t.agent.sent
    BY <1>1, <1>2 DEF Owned
  <2>2. /\ Cardinality(u.agent.sent) \in Nat /\ Cardinality(t.agent.sent) \in Nat
        /\ Cardinality(u.agent.sent) <= Cardinality(t.agent.sent)
    BY <2>1, FS_Subset, FS_CardinalityType
  <2>3. MaxSavedIds \in Nat
    BY SavedIdsAssumption
  <2> DEFINE a == Cardinality(u.agent.sent)
             b == Cardinality(t.agent.sent)
  <2> HIDE DEF a, b
  <2>4. b < MaxSavedIds => a < MaxSavedIds
    BY <2>2, <2>3 DEF a, b
  <2> QED
    BY <2>4 DEF Room, a, b
<1>16. \A p \in Peers : Flow(u, p) = Flow(t, p)
  BY DEF Flow, PermissionRemoved
<1> QED
  BY <1>11, <1>12, <1>13, <1>14, <1>15, <1>16 DEF P

\* The answer to permission request i, where t is the socket before the
\* transaction was forgotten and w the one after it.
LEMMA OnCreatePermissionDone ==
  ASSUME NEW t, Sound(t), Left3(t), Rfc(t), NEW i \in DOMAIN t.permmsgs, NEW A \in StunAgents,
         A.sent = {y \in t.agent.sent : y.id # t.permmsgs[i].req.msg.id}, NEW m
  PROVE  Calm(t, OnCreatePermission([t EXCEPT !.agent = A], i, m))
<1> DEFINE w == [t EXCEPT !.agent = A]
           P == Without(t.permmsgs, i)
           u == [t EXCEPT !.agent = A, !.permmsgs = P]
           req == t.permmsgs[i].req
           peer == req.peer
           v == Permitted(u, peer)
           B == v.permTimer \/ m.class = "RESPONSE"
           z == [v EXCEPT !.permTimer = B]
           y == priv_send_create_permission(u, TRUE, peer)
           again == m.class = "ERROR" /\ Unauthorized(req, m)
<1>1. t \in Sock /\ t.permmsgs \in Seq(TurnMessage) /\ t.permmsgs[i] \in TurnMessage
  BY SockFields DEF Sound
<1>2. peer \in Peers
  BY <1>1 DEF TurnMessage, Req
<1>3. P \in Seq(TurnMessage)
  BY <1>1, WithoutElements
<1>4. OnCreatePermission(w, i, m) = IF again THEN y ELSE z
  <2>1. w.permmsgs = t.permmsgs /\ u = [w EXCEPT !.permmsgs = P]
    BY <1>1 DEF Sock
  <2>2. u = [w EXCEPT !.permmsgs = SubSeq(@, 1, i - 1) \o SubSeq(@, i + 1, Len(@))]
    <3>1. P = SubSeq(w.permmsgs, 1, i - 1) \o SubSeq(w.permmsgs, i + 1, Len(w.permmsgs))
      BY <2>1 DEF Without
    <3> HIDE DEF P, w, u
    <3> QED
      BY <2>1, <3>1
  <2>3. w.permmsgs[i].req = req
    BY <2>1
  <2> HIDE DEF u, w, req
  <2> QED
    BY <2>2, <2>3, Zenon DEF OnCreatePermission
<1> HIDE DEF P
<1>5. /\ u \in Sock /\ PermissionRemoved(t, u, i) /\ u.permTimer = t.permTimer
  <2>1. u \in Sock
    BY <1>1, <1>3 DEF Sock
  <2>2. /\ u.agent = A /\ u.permmsgs = P /\ u.permTimer = t.permTimer
        /\ u.open = t.open /\ u.compat = t.compat /\ u.perms = t.perms /\ u.sentperms = t.sentperms
        /\ u.queues = t.queues /\ u.data = t.data /\ u.used = t.used /\ u.sendreqs = t.sendreqs
        /\ u.out = t.out /\ u.curmsg = t.curmsg /\ u.channels = t.channels
        /\ u.tickPerm = t.tickPerm
    BY <1>1 DEF Sock
  <2> HIDE DEF u
  <2> QED
    BY <2>1, <2>2 DEF PermissionRemoved, P
<1> HIDE DEF u, w
<1>6. /\ Sound(u) /\ (Ticking(t) => Ticking(u)) /\ FreeIds(t) \subseteq FreeIds(u)
      /\ Asked(t) => AskedExcept(u, peer)
      /\ Room(t) => Room(u)
      /\ \A p \in Peers : Flow(u, p) = Flow(t, p)
  BY <1>5, PermissionForgotten
<1>7. u.open = t.open /\ u.compat = t.compat
  BY <1>5 DEF PermissionRemoved
<1> HIDE DEF peer, req
<1>8. Calm(t, y)
  <2>1. Rfc(u) /\ Left3(u) /\ TRUE \in BOOLEAN
    BY <1>6, <1>7, LeftMore DEF Rfc
  <2>2. PermissionAsked(u, y, peer)
    BY <1>2, <1>6, <2>1, PermissionSent
  <2> HIDE DEF y
  <2>3. /\ Sound(y) /\ PermFrame(u, y) /\ (Ticking(u) => Ticking(y))
        /\ y.sentperms = u.sentperms \cup {peer}
    BY <2>2 DEF PermissionAsked
  <2>4. Room(t) /\ Asked(t) => Asked(y)
    <3> SUFFICES ASSUME Room(t), Asked(t) PROVE Asked(y)
      OBVIOUS
    <3>1. PICK a \in TurnMessage : y.permmsgs = Append(u.permmsgs, a) /\ a.req.peer = peer
      BY <1>6, <2>2 DEF PermissionAsked
    <3>2. y.queues = u.queues /\ y.sentperms \subseteq u.sentperms \cup {peer} /\ y \in Sock
      BY <2>3 DEF PermFrame, Sound
    <3> QED
      BY <1>5, <1>6, <3>1, <3>2, AskedMore
  <2>5. \A p \in Peers : Flow(y, p) = Flow(t, p)
    BY <1>6, <2>3 DEF PermFrame, Flow
  <2> QED
    BY <1>6, <1>7, <2>3, <2>4, <2>5 DEF Calm, Called, PermFrame
<1>9. Calm(t, z)
  <2>1. /\ Sound(v) /\ v.open = u.open /\ v.compat = u.compat
        /\ v.permmsgs = u.permmsgs /\ v.tickPerm = u.tickPerm
        /\ v.sentperms = u.sentperms \ {peer} /\ v.queues[peer] = <<>>
        /\ \A p \in Peers : p # peer => v.queues[p] = u.queues[p]
        /\ \A p \in Peers : Flow(v, p) = Flow(u, p)
    BY <1>2, <1>6, PermittedDone
  <2> HIDE DEF v
  <2>2. v \in Sock /\ B \in BOOLEAN
    BY <2>1, SockFields DEF Sound
  <2> HIDE DEF B
  <2>3. /\ z \in Sock /\ SameBinding(v, z) /\ z.agent = v.agent /\ z.curmsg = v.curmsg
        /\ z.used = v.used /\ z.out = v.out /\ z.tickPerm = v.tickPerm
        /\ z.open = v.open /\ z.compat = v.compat /\ z.perms = v.perms
        /\ z.sentperms = v.sentperms /\ z.permmsgs = v.permmsgs /\ z.queues = v.queues
        /\ z.sendreqs = v.sendreqs /\ z.data = v.data
    BY <2>2 DEF Sock, SameBinding
  <2> HIDE DEF z
  <2>4. Sound(z)
    <3>1. Owned(z)
      BY <2>1, <2>3, OwnedSame DEF Sound
    <3>2. CurOwn(z) /\ ChannelsOk(z) /\ RequestsOk(z.out) /\ QueuesOk(z)
      BY <2>1, <2>3 DEF Sound, CurOwn, ChannelsOk, Rfc, QueuesOk, SameBinding
    <3> QED
      BY <2>3, <3>1, <3>2 DEF Sound
  <2>5. Ticking(u) => Ticking(z)
    BY <2>1, <2>3 DEF Ticking
  <2>6. AskedExcept(u, peer) => Asked(z)
    <3> SUFFICES ASSUME AskedExcept(u, peer), NEW p \in Peers,
                        p \in z.sentperms \/ z.queues[p] # <<>>
                 PROVE  \E k \in DOMAIN z.permmsgs : z.permmsgs[k].req.peer = p
      BY DEF Asked
    <3>1. p # peer /\ (p \in u.sentperms \/ u.queues[p] # <<>>)
      BY <2>1, <2>3
    <3> QED
      BY <2>1, <2>3, <3>1 DEF AskedExcept
  <2>7. \A p \in Peers : Flow(z, p) = Flow(t, p)
    BY <1>6, <2>1, <2>3 DEF Flow
  <2> QED
    BY <1>6, <1>7, <2>1, <2>3, <2>4, <2>5, <2>6, <2>7 DEF Calm, Called
<1> HIDE DEF y, z, again
<1> QED
  BY <1>4, <1>8, <1>9 DEF w

\* Data of a peer
LEMMA OnDataDone ==
  ASSUME NEW t, Sound(t), Left3(t), NEW peer \in Peers
  PROVE  Calm(t, OnData(t, peer))
<1> DEFINE y == priv_send_create_permission(t, FALSE, peer)
<1>1. CASE t.compat = "RFC5766" /\ peer \notin t.perms \cup t.sentperms
  <2>1. Rfc(t) /\ FALSE \in BOOLEAN
    BY <1>1 DEF Rfc
  <2>2. PermissionAsked(t, y, peer) /\ OnData(t, peer) = y
    BY <1>1, <2>1, PermissionSent DEF OnData
  <2> HIDE DEF y
  <2>3. /\ Sound(y) /\ PermFrame(t, y) /\ (Ticking(t) => Ticking(y))
        /\ y.sentperms = t.sentperms \cup {peer}
    BY <2>2 DEF PermissionAsked
  <2>4. Room(t) /\ Asked(t) => Asked(y)
    <3> SUFFICES ASSUME Room(t), Asked(t) PROVE Asked(y)
      OBVIOUS
    <3>1. PICK a \in TurnMessage : y.permmsgs = Append(t.permmsgs, a) /\ a.req.peer = peer
      BY <2>2 DEF PermissionAsked
    <3>2. y.queues = t.queues /\ y.sentperms \subseteq t.sentperms \cup {peer} /\ y \in Sock
          /\ t \in Sock
      BY <2>3 DEF PermFrame, Sound
    <3> QED
      BY <3>1, <3>2, AskedMore
  <2>5. \A p \in Peers : Flow(y, p) = Flow(t, p)
    BY <2>3 DEF PermFrame, Flow
  <2>6. Calm(t, y)
    BY <2>3, <2>4, <2>5 DEF Calm, Called, PermFrame
  <2> QED
    BY <2>2, <2>6
<1>2. CASE ~(t.compat = "RFC5766" /\ peer \notin t.perms \cup t.sentperms)
  <2>1. OnData(t, peer) = t
    BY <1>2 DEF OnData
  <2> QED
    BY <2>1 DEF Calm, Called
<1> QED
  BY <1>1, <1>2

LEMMA CalmDone ==
  ASSUME NEW t, NEW u, NEW v, Calm(t, u), Done(u, v)
  PROVE  Calm(t, v)
<1>1. SameRest(u, v) /\ Sound(v) /\ (Ticking(u) => Ticking(v))
  BY DEF Done, Frame
<1>2. Asked(u) => Asked(v)
  BY <1>1, AskedSame DEF SameRest
<1>3. \A p \in Peers : Flow(v, p) = Flow(u, p)
  BY <1>1 DEF SameRest, Flow
<1>4. v.open = u.open /\ v.compat = u.compat
  BY <1>1 DEF SameRest
<1> QED
  BY <1>1, <1>2, <1>3, <1>4 DEF Calm, Called

\* What happens to message m: v is its validation, w the socket after it and r
\* the socket in the end.
Handled(t, m, from, v, w, r) ==
    LET I == {k \in 1..Len(t.permmsgs) : t.permmsgs[k].req.msg.id = m.id}
        quiet == v.status # "SUCCESS" \/ (~Rfc(w) /\ "MAGIC_COOKIE" \notin m.attrs)
    IN  /\ quiet => r = w
        /\ ~quiet /\ m.method = "SEND" => r = OnSend(w, m)
        /\ ~quiet /\ m.method = "OLD_SET_ACTIVE_DST" => r = OnSetActive(w, m)
        /\ ~quiet /\ m.method = "CHANNELBIND" =>
              r = IF w.curmsg = None THEN w
                  ELSE IF w.curmsg.req.msg.id = m.id THEN OnChannelBind(w, m) ELSE w
        /\ ~quiet /\ m.method = "CREATEPERMISSION" =>
              r = IF I = {} THEN w ELSE OnCreatePermission(w, CHOOSE k \in I : TRUE, m)
        /\ ~quiet /\ m.method = "IND_DATA" =>
              r = IF m.class = "INDICATION" THEN OnData(w, from) ELSE w

\* What becomes of a message that the agent was shown
LEMMA Dispatched ==
  ASSUME NEW t, NEW m, NEW from
  PROVE  LET v == stun_agent_validate(t.agent, m, NoKey)
         IN  Handled(t, m, from, v, [t EXCEPT !.agent = v.agent], parse_recv(t, m, from))
<1> DEFINE v == stun_agent_validate(t.agent, m, NoKey)
           w == [t EXCEPT !.agent = v.agent]
           I == {k \in 1..Len(t.permmsgs) : t.permmsgs[k].req.msg.id = m.id}
           quiet == v.status # "SUCCESS" \/ (~Rfc(w) /\ "MAGIC_COOKIE" \notin m.attrs)
           r == parse_recv(t, m, from)
<1> DEFINE D(x, status) ==
               IF status # "SUCCESS" \/ (~Rfc(x) /\ "MAGIC_COOKIE" \notin m.attrs) THEN x
               ELSE CASE m.method = "SEND" -> OnSend(x, m)
                      [] m.method = "OLD_SET_ACTIVE_DST" -> OnSetActive(x, m)
                      [] m.method = "CHANNELBIND" ->
                            IF x.curmsg = None THEN x
                            ELSE IF x.curmsg.req.msg.id = m.id THEN OnChannelBind(x, m) ELSE x
                      [] m.method = "CREATEPERMISSION" ->
                            IF I = {} THEN x ELSE OnCreatePermission(x, CHOOSE k \in I : TRUE, m)
                      [] m.method = "IND_DATA" /\ m.class = "INDICATION" -> OnData(x, from)
                      [] OTHER -> x
<1>1. r = D(w, v.status)
  BY Zenon DEF parse_recv
<1> HIDE DEF r, w, v, I
<1>2. /\ quiet => r = w
      /\ ~quiet /\ m.method = "SEND" => r = OnSend(w, m)
      /\ ~quiet /\ m.method = "OLD_SET_ACTIVE_DST" => r = OnSetActive(w, m)
      /\ ~quiet /\ m.method = "CHANNELBIND" =>
            r = IF w.curmsg = None THEN w
                ELSE IF w.curmsg.req.msg.id = m.id THEN OnChannelBind(w, m) ELSE w
      /\ ~quiet /\ m.method = "CREATEPERMISSION" =>
            r = IF I = {} THEN w ELSE OnCreatePermission(w, CHOOSE k \in I : TRUE, m)
      /\ ~quiet /\ m.method = "IND_DATA" =>
            r = IF m.class = "INDICATION" THEN OnData(w, from) ELSE w
  BY <1>1
<1>3. Handled(t, m, from, v, w, r)
  BY <1>2, Zenon DEF Handled, I
<1> HIDE DEF quiet, D
<1> QED
  BY <1>3, Zenon DEF r, w, v

\* nice_udp_turn_socket_parse_recv
LEMMA Received ==
  ASSUME NEW t, Sound(t), Left3(t), NEW m \in Message, Plausible(t, m), NEW from \in Peers
  PROVE  Calm(t, parse_recv(t, m, from))
<1> DEFINE v == stun_agent_validate(t.agent, m, NoKey)
           w == [t EXCEPT !.agent = v.agent]
           u == [w EXCEPT !.sendreqs = @ \ {m.id}]
           I == {k \in 1..Len(t.permmsgs) : t.permmsgs[k].req.msg.id = m.id}
           quiet == v.status # "SUCCESS" \/ (~Rfc(w) /\ "MAGIC_COOKIE" \notin m.attrs)
           r == parse_recv(t, m, from)
<1>1. t \in Sock /\ Owned(t) /\ t.agent \in StunAgents
      /\ t.permmsgs \in Seq(TurnMessage)
  BY SockFields DEF Sound
<1>2. Accepted(t.agent, m, v)
  <2>1. \A x, y \in t.agent.sent : x.id = y.id => x = y
    BY <1>1 DEF Owned
  <2> QED
    BY <1>1, <2>1, Validation
<1>3. /\ quiet => r = w
      /\ ~quiet /\ m.method = "SEND" => r = OnSend(w, m)
      /\ ~quiet /\ m.method = "OLD_SET_ACTIVE_DST" => r = OnSetActive(w, m)
      /\ ~quiet /\ m.method = "CHANNELBIND" =>
            r = IF w.curmsg = None THEN w
                ELSE IF w.curmsg.req.msg.id = m.id THEN OnChannelBind(w, m) ELSE w
      /\ ~quiet /\ m.method = "CREATEPERMISSION" =>
            r = IF I = {} THEN w ELSE OnCreatePermission(w, CHOOSE k \in I : TRUE, m)
      /\ ~quiet /\ m.method = "IND_DATA" =>
            r = IF m.class = "INDICATION" THEN OnData(w, from) ELSE w
  <2>1. Handled(t, m, from, v, w, r)
    BY Dispatched
  <2> HIDE DEF r, v, w
  <2> QED
    BY <2>1, Zenon DEF Handled
<1> HIDE DEF r, v
<1>4. CASE v.status # "SUCCESS" \/ ~Reply(m)
  <2>1. v.agent = t.agent
    BY <1>2, <1>4 DEF Accepted
  <2>2. w = t
    BY <1>1, <2>1 DEF Sock
  <2>3. Calm(t, t)
    BY DEF Calm, Called
  <2>4. CASE v.status # "SUCCESS"
    BY <1>3, <2>2, <2>3, <2>4 DEF r
  <2>5. CASE v.status = "SUCCESS"
    <3>1. m.method = "IND_DATA" /\ m.class = "INDICATION"
      BY <1>4, <2>5 DEF Plausible, Reply
    <3>2. r = t \/ r = OnData(t, from)
      BY <1>3, <2>2, <3>1
    <3> QED
      BY <2>3, <3>2, OnDataDone DEF r
  <2> QED
    BY <2>4, <2>5
<1>5. CASE v.status = "SUCCESS" /\ Reply(m)
  <2>1. v.agent = [t.agent EXCEPT !.sent = {y \in @ : y.id # m.id}]
    BY <1>2, <1>5 DEF Accepted
  <2>2. PICK x \in t.agent.sent : x.id = m.id /\ x.method = m.method
    BY <1>2, <1>5 DEF Accepted
  <2>3. v.agent \in StunAgents /\ v.agent.sent = {y \in t.agent.sent : y.id # m.id}
    BY <1>1, <2>1 DEF StunAgents
  <2>4. /\ x.method = "CREATEPERMISSION" => Rfc(t)
        /\ x.method \in {"SEND", "OLD_SET_ACTIVE_DST"} => ~Rfc(t)
        /\ PermIds(t) = IdsOf(t, "CREATEPERMISSION")
        /\ \A a, b \in t.agent.sent : a.id = b.id => a = b
        /\ x.method # "CREATEPERMISSION" => m.id \notin PermIds(t)
    BY <1>1, <2>2 DEF Owned, IdsOf
  <2>5. /\ w \in Sock /\ w.agent = v.agent /\ w.sendreqs = t.sendreqs
        /\ w.open = t.open /\ w.compat = t.compat /\ w.perms = t.perms
        /\ w.sentperms = t.sentperms
        /\ w.permmsgs = t.permmsgs /\ w.queues = t.queues /\ w.data = t.data /\ w.used = t.used
        /\ w.out = t.out /\ w.curmsg = t.curmsg /\ w.channels = t.channels
        /\ w.tickPerm = t.tickPerm
    BY <1>1, <2>3 DEF Sock
  <2>6. m.method \in Methods
    BY DEF Message
  <2>7. CASE m.method = "CREATEPERMISSION"
    <3>1. Rfc(t) /\ Rfc(w)
      BY <2>2, <2>4, <2>5, <2>7 DEF Rfc
    <3>2. m.id \in PermIds(t)
      BY <2>2, <2>4, <2>7 DEF IdsOf
    <3>3. I # {} /\ I \subseteq DOMAIN t.permmsgs
      BY <1>1, <3>2 DEF PermIds
    <3> DEFINE i == CHOOSE k \in I : TRUE
    <3>4. i \in DOMAIN t.permmsgs /\ t.permmsgs[i].req.msg.id = m.id
      <4>1. i \in I
        BY <3>3
      <4> HIDE DEF i
      <4> QED
        BY <3>3, <4>1
    <3>5. r = OnCreatePermission(w, i, m)
      <4> HIDE DEF w, I
      <4> QED
        BY <1>3, <1>5, <2>7, <3>1, <3>3
    <3> HIDE DEF i
    <3>6. v.agent.sent = {y \in t.agent.sent : y.id # t.permmsgs[i].req.msg.id}
      BY <2>3, <3>4
    <3> DEFINE A == v.agent
    <3>7. A \in StunAgents /\ A.sent = {y \in t.agent.sent : y.id # t.permmsgs[i].req.msg.id}
          /\ w = [t EXCEPT !.agent = A]
      BY <2>3, <3>6
    <3> HIDE DEF A, w
    <3>8. Calm(t, OnCreatePermission(w, i, m))
      BY <3>1, <3>4, <3>7, OnCreatePermissionDone
    <3> QED
      BY <3>5, <3>8 DEF r
  <2>8. CASE m.method = "SEND"
    <3>1. ~Rfc(t) /\ ~Rfc(w) /\ "MAGIC_COOKIE" \in m.attrs
      BY <1>5, <2>2, <2>4, <2>5, <2>8 DEF Rfc, Plausible, Understood, Reply
    <3>2. t.sendreqs \ {m.id} \in SUBSET Ids
      BY <1>1, SockFields
    <3> DEFINE S == t.sendreqs \ {m.id}
    <3> HIDE DEF w
    <3>3. u = [w EXCEPT !.sendreqs = S]
      BY <2>5
    <3> HIDE DEF u
    <3>4. /\ u \in Sock /\ u.agent = v.agent /\ u.sendreqs = S
          /\ u.open = t.open /\ u.compat = t.compat /\ u.perms = t.perms
          /\ u.sentperms = t.sentperms
          /\ u.permmsgs = t.permmsgs /\ u.queues = t.queues /\ u.data = t.data /\ u.used = t.used
          /\ u.out = t.out /\ u.curmsg = t.curmsg /\ u.channels = t.channels
          /\ u.tickPerm = t.tickPerm
      <4> HIDE DEF S
      <4> QED
        BY <2>5, <3>2, <3>3 DEF Sock, S
    <3>5. Sound(u) /\ Calm(t, u) /\ FreeIds(t) \subseteq FreeIds(u)
      <4>1. m.id \notin PermIds(t) /\ S \subseteq t.sendreqs
        BY <2>2, <2>4, <2>8
      <4>2. S \subseteq u.sendreqs /\ u.sendreqs \subseteq t.sendreqs
        BY <3>4, <4>1
      <4> QED
        BY <2>3, <3>4, <4>1, <4>2, TransactionForgotten DEF S
    <3>6. Left2(u) /\ ~Rfc(u)
      BY <3>1, <3>4, <3>5, LeftMore, LeftLess DEF Rfc
    <3>7. Done(u, msn_google_lock(u))
      BY <3>5, <3>6, Locked
    <3>8. r = w \/ r = u \/ r = msn_google_lock(u)
      <4>1. r = OnSend(w, m)
        BY <1>3, <1>5, <2>8, <3>1
      <4>2. OnSend(w, m) \in {w, u, msn_google_lock(u)}
        BY DEF OnSend, u
      <4> QED
        BY <4>1, <4>2
    <3>9. Calm(t, w)
      <4>1. m.id \notin PermIds(t)
        BY <2>2, <2>4, <2>8
      <4> QED
        BY <2>3, <2>5, <4>1, TransactionForgotten
    <3> QED
      BY <3>5, <3>7, <3>8, <3>9, CalmDone DEF r
  <2>9. CASE m.method \notin {"CREATEPERMISSION", "SEND"}
    <3> HIDE DEF w
    <3>1. m.id \notin PermIds(t)
      BY <2>2, <2>4, <2>9
    <3>2. Sound(w) /\ Calm(t, w) /\ FreeIds(t) \subseteq FreeIds(w)
      BY <2>3, <2>5, <3>1, TransactionForgotten
    <3>3. Left2(w)
      BY <3>2, LeftMore, LeftLess
    <3>4. r = w \/ (m.method = "OLD_SET_ACTIVE_DST" /\ r = OnSetActive(w, m))
               \/ (w.curmsg # None /\ r = OnChannelBind(w, m))
      BY <1>3, <1>5, <2>6, <2>9 DEF Methods, Reply
    <3>5. m.method = "OLD_SET_ACTIVE_DST" => Done(w, OnSetActive(w, m))
      BY <2>2, <2>4, <2>5, <3>2, <3>3, OnSetActiveDone DEF Rfc
    <3>6. w.curmsg # None => Done(w, OnChannelBind(w, m))
      BY <1>5, <3>2, <3>3, OnChannelBindDone
    <3> QED
      BY <3>2, <3>4, <3>5, <3>6, CalmDone DEF r
  <2> QED
    BY <2>7, <2>8, <2>9
<1> QED
  BY <1>4, <1>5

-----------------------------------------------------------------------------
\* Between calls

RepliesOk(t, R) == \A m \in R : Plausible(t, m.msg)

\* The binding request has an id of its own (CurOwn outside a call).
CurAlone(t) ==
    t.curmsg # None =>
      /\ t.curmsg.req.msg.method # "SEND"
      /\ \A x \in t.agent.sent :
            x.id = t.curmsg.req.msg.id => x.method \notin {"CREATEPERMISSION", "SEND"}

Resting(t) ==
    /\ t \in Sock /\ Owned(t) /\ CurAlone(t) /\ ChannelsOk(t) /\ QueuesOk(t) /\ Ticking(t)
    /\ t.out = {} /\ t.data = [p \in Peers |-> <<>>]

\* The inductive invariant
IInv ==
    /\ Resting(sock)
    /\ reqs \in SUBSET Req /\ RequestsOk(reqs)
    /\ replies \in SUBSET Answers /\ RepliesOk(sock, replies)
    /\ budget \in Budget /\ app \in [Peers -> Nat] /\ wire \in [Peers -> Seq(Nat)]
    /\ DataInOrder

\* The socket at the start of a call
LEMMA Entered ==
  ASSUME IInv, NEW late \in BOOLEAN
  PROVE  LET t == Enter(late)
         IN  /\ Sound(t) /\ Ticking(t) /\ t.open = sock.open /\ t.compat = sock.compat
             /\ t.agent = sock.agent /\ t.permmsgs = sock.permmsgs /\ t.sendreqs = sock.sendreqs
             /\ t.channels = sock.channels /\ t.curmsg = sock.curmsg /\ t.cur = sock.cur
             /\ Asked(sock) => Asked(t)
             /\ FreeIds(t) = FreeIds(Enter(FALSE))
             /\ \A p \in Peers : Flow(t, p) = sock.queues[p]
<1> DEFINE U == {r.msg.id : r \in reqs} \cup {m.msg.id : m \in replies}
                \cup (IF sock.curmsg = None THEN {} ELSE {sock.curmsg.req.msg.id})
                \cup {sock.permmsgs[i].req.msg.id : i \in 1..Len(sock.permmsgs)} \cup sock.sendreqs
           t == Enter(late)
<1>1. /\ sock \in Sock /\ Owned(sock) /\ CurAlone(sock) /\ ChannelsOk(sock) /\ QueuesOk(sock)
      /\ Ticking(sock) /\ sock.out = {} /\ sock.data = [p \in Peers |-> <<>>]
  BY DEF IInv, Resting
<1>2. U \in SUBSET Nat
  <2>1. {r.msg.id : r \in reqs} \subseteq Nat
    BY DEF IInv, Req, Message
  <2>2. {m.msg.id : m \in replies} \subseteq Nat
    BY DEF IInv, Answers, Message
  <2>3. sock.curmsg # None => sock.curmsg.req.msg.id \in Nat
    BY <1>1, SockFields DEF TurnMessage, Req, Message
  <2>4. {sock.permmsgs[i].req.msg.id : i \in 1..Len(sock.permmsgs)} \subseteq Nat
    <3>1. \A i \in 1..Len(sock.permmsgs) : sock.permmsgs[i] \in TurnMessage
      BY <1>1, SockFields
    <3> QED
      BY <3>1 DEF TurnMessage, Req, Message
  <2>5. sock.sendreqs \subseteq Nat
    BY <1>1, SockFields, TurnAssumption DEF Ids
  <2> QED
    BY <2>1, <2>2, <2>3, <2>4, <2>5
<1>3. sock.curmsg # None => sock.curmsg.req.msg.id \in U
  OBVIOUS
<1>4. t = [sock EXCEPT !.late = late, !.used = U]
  BY DEF Enter
<1>5. Enter(FALSE) = [sock EXCEPT !.late = FALSE, !.used = U]
  BY DEF Enter
<1> HIDE DEF U, t
<1>6. /\ t \in Sock /\ t.used = U
      /\ t.open = sock.open /\ t.compat = sock.compat /\ t.out = sock.out
      /\ t.agent = sock.agent /\ t.permmsgs = sock.permmsgs /\ t.sendreqs = sock.sendreqs
      /\ t.channels = sock.channels /\ t.curmsg = sock.curmsg /\ t.cur = sock.cur
      /\ t.perms = sock.perms /\ t.queues = sock.queues /\ t.data = sock.data
      /\ t.sentperms = sock.sentperms /\ t.tickPerm = sock.tickPerm
  BY <1>1, <1>2, <1>4 DEF Sock
<1>7. FreeIds(t) = FreeIds(Enter(FALSE))
  <2>1. Enter(FALSE).used = U /\ Enter(FALSE).agent = sock.agent
    BY <1>1, <1>5 DEF Sock
  <2> QED
    BY <1>6, <2>1 DEF FreeIds
<1>8. Owned(t)
  BY <1>1, <1>6, OwnedSame
<1>9. CurOwn(t)
  BY <1>1, <1>3, <1>6 DEF CurOwn, CurAlone
<1>10. ChannelsOk(t) /\ RequestsOk(t.out) /\ QueuesOk(t) /\ Ticking(t)
  BY <1>1, <1>6 DEF ChannelsOk, Rfc, RequestsOk, QueuesOk, Ticking
<1>11. Asked(sock) => Asked(t)
  BY <1>6, AskedSame
<1>12. ASSUME NEW p \in Peers PROVE Flow(t, p) = sock.queues[p]
  <2>1. sock.queues[p] \in Seq(Nat)
    BY <1>1, SockFields
  <2>2. <<>> \o sock.queues[p] = sock.queues[p]
    BY <2>1, ConcatEmptySeq
  <2> QED
    BY <1>1, <1>6, <2>2 DEF Flow
<1> QED
  BY <1>6, <1>7, <1>8, <1>9, <1>10, <1>11, <1>12 DEF Sound, t

\* The ids that a call needs are there.
LEMMA IdsThere ==
  ASSUME IInv, IdsLeft, NEW late \in BOOLEAN
  PROVE  Left3(Enter(late))
<1> DEFINE F == FreeIds(Enter(FALSE))
<1>1. IsFiniteSet(F)
  <2>1. MaxIds \in Int /\ 1 \in Int
    BY TurnAssumption
  <2>2. IsFiniteSet(1..MaxIds)
    BY <2>1, FS_Interval
  <2>3. F \subseteq 1..MaxIds
    BY DEF FreeIds
  <2> QED
    BY <2>2, <2>3, FS_Subset
<1>2. Cardinality(F) >= 3 /\ Cardinality(F) \in Nat
  BY <1>1, FS_CardinalityType DEF IdsLeft
<1> HIDE DEF F
<1>3. ASSUME NEW i, NEW j PROVE F \ {i, j} # {}
  <2>1. IsFiniteSet({i}) /\ Cardinality({i}) = 1
    BY FS_Singleton
  <2>2. IsFiniteSet({i} \cup {j}) /\ Cardinality({i} \cup {j}) <= 2 /\ Cardinality({i} \cup {j}) \in Nat
    <3>1. /\ IsFiniteSet({i} \cup {j})
          /\ Cardinality({i} \cup {j}) = Cardinality({i}) \/ Cardinality({i} \cup {j}) = Cardinality({i}) + 1
      BY <2>1, FS_AddElement
    <3> QED
      BY <2>1, <3>1
  <2>3. {i} \cup {j} = {i, j}
    OBVIOUS
  <2> SUFFICES ASSUME F \subseteq {i, j} PROVE FALSE
    OBVIOUS
  <2>4. Cardinality(F) <= Cardinality({i, j})
    BY <2>2, <2>3, FS_Subset
  <2> QED
    BY <1>2, <2>2, <2>3, <2>4
<1>4. FreeIds(Enter(late)) = F
  BY Entered DEF F
<1> QED
  BY <1>3, <1>4 DEF Left3

\* The end of a call
LEMMA Left ==
  ASSUME IInv, NEW t, Leave(t), Sound(t), Ticking(t), t.compat = sock.compat
  PROVE  /\ Resting(sock)' /\ (reqs \in SUBSET Req /\ RequestsOk(reqs))'
         /\ (wire \in [Peers -> Seq(Nat)])' /\ sock'.open = t.open /\ sock'.compat = sock.compat
         /\ \A p \in Peers : wire'[p] \o sock'.queues[p] = wire[p] \o Flow(t, p)
         /\ Asked(t) => Asked(sock')
<1> DEFINE N == [p \in Peers |-> <<>>]
           s == sock'
<1>1. t \in Sock
  BY DEF Sound
<1>2. s = [t EXCEPT !.late = FALSE, !.used = {}, !.out = {}, !.data = N]
  BY DEF Leave
<1>3. N \in [Peers -> Seq(Nat)]
  OBVIOUS
<1> HIDE DEF N, s
<1>4. /\ s \in Sock /\ s.out = {} /\ s.data = N
      /\ s.open = t.open /\ s.compat = t.compat
      /\ s.agent = t.agent /\ s.permmsgs = t.permmsgs /\ s.sendreqs = t.sendreqs
      /\ s.channels = t.channels /\ s.curmsg = t.curmsg
      /\ s.perms = t.perms /\ s.queues = t.queues
      /\ s.sentperms = t.sentperms /\ s.tickPerm = t.tickPerm
  BY <1>1, <1>2, <1>3 DEF Sock
<1>5. Owned(s)
  BY <1>4, OwnedSame DEF Sound
<1>6. CurAlone(s) /\ ChannelsOk(s) /\ QueuesOk(s) /\ Ticking(s)
  BY <1>4 DEF Sound, CurOwn, CurAlone, ChannelsOk, Rfc, QueuesOk, Ticking
<1>7. Resting(s)
  BY <1>4, <1>5, <1>6 DEF Resting, N
<1>8. (reqs \in SUBSET Req /\ RequestsOk(reqs))'
  <2>1. reqs' = reqs \cup t.out /\ t.out \in SUBSET Req /\ RequestsOk(t.out)
    BY <1>1, SockFields DEF Leave, Sound
  <2> QED
    BY <2>1 DEF IInv, RequestsOk
<1>9. wire' = [p \in Peers |-> wire[p] \o t.data[p]]
  BY DEF Leave
<1>10. wire \in [Peers -> Seq(Nat)] /\ t.data \in [Peers -> Seq(Nat)] /\ t.queues \in [Peers -> Seq(Nat)]
  BY <1>1, SockFields DEF IInv
<1>11. \A p \in Peers : wire[p] \o t.data[p] \in Seq(Nat)
  BY <1>10
<1>12. wire' \in [Peers -> Seq(Nat)]
  BY <1>9, <1>11
<1>13. ASSUME NEW p \in Peers PROVE wire'[p] \o s.queues[p] = wire[p] \o Flow(t, p)
  <2> DEFINE a == wire[p]
             b == t.data[p]
             c == t.queues[p]
  <2>1. a \in Seq(Nat) /\ b \in Seq(Nat) /\ c \in Seq(Nat)
    BY <1>10
  <2> HIDE DEF a, b, c
  <2>2. (a \o b) \o c = a \o (b \o c)
    BY <2>1, NatConcat
  <2> QED
    BY <1>4, <1>9, <2>2 DEF Flow, a, b, c
<1>14. Asked(t) => Asked(s)
  BY <1>4, AskedSame
<1> QED
  BY <1>4, <1>7, <1>8, <1>12, <1>13, <1>14 DEF s

\* The budget, and who takes part
LEMMA Spent ==
  ASSUME budget \in Budget, NEW kind \in {"data", "peers", "errors", "timers", "closes", "inds"},
         Spend(kind)
  PROVE  budget' \in Budget
<1>1. budget[kind] \in Nat /\ budget[kind] > 0
  BY DEF Spend, Budget
<1>2. budget[kind] - 1 \in Nat
  BY <1>1
<1>3. budget' = [budget EXCEPT ![kind] = budget[kind] - 1]
  BY DEF Spend
<1> QED
  BY <1>2, <1>3 DEF Budget

LEMMA LateSpent ==
  ASSUME IInv, NEW late \in Late
  PROVE  late \in BOOLEAN /\ (SpendLate(late) => budget' \in Budget)
<1>1. late \in BOOLEAN
  BY DEF Late
<1>2. SpendLate(late) => Spend("timers") \/ budget' = budget
  BY DEF SpendLate
<1> QED
  BY <1>1, <1>2, Spent DEF IInv

LEMMA BudgetPeers ==
  ASSUME IInv, NEW p \in budget.who
  PROVE  p \in Peers
  BY DEF IInv, Budget

\* A call keeps the invariant and the compatibility, and as long as the table of
\* transactions has room, a request for every permission that something waits
\* for.
Kept == IInv' /\ sock'.compat = sock.compat /\ (Room(sock) /\ Asked(sock) => Asked(sock'))

LEMMA PlausibleSame ==
  ASSUME NEW t, NEW u, t.compat = u.compat, NEW R, RepliesOk(t, R), NEW S, S \subseteq R
  PROVE  RepliesOk(u, S)
  BY DEF RepliesOk, Plausible, Rfc

\* What holds after a call that ends with u, but for the order of the data
LEMMA CallEnds ==
  ASSUME IInv, NEW late \in BOOLEAN, NEW u, Leave(u), Called(Enter(late), u),
         replies' \subseteq replies, budget' \in Budget
  PROVE  /\ Resting(sock)' /\ (reqs \in SUBSET Req /\ RequestsOk(reqs))'
         /\ (replies \in SUBSET Answers)' /\ RepliesOk(sock, replies)'
         /\ (wire \in [Peers -> Seq(Nat)])' /\ sock'.open = sock.open /\ sock'.compat = sock.compat
         /\ \A p \in Peers : wire'[p] \o sock'.queues[p] = wire[p] \o Flow(u, p)
         /\ Room(sock) /\ Asked(sock) => Asked(sock')
<1> DEFINE t == Enter(late)
<1>1. /\ Sound(t) /\ Ticking(t) /\ t.open = sock.open /\ t.compat = sock.compat
      /\ t.agent = sock.agent /\ (Asked(sock) => Asked(t))
  BY Entered
<1> HIDE DEF t
<1>2. Called(t, u)
  BY DEF t
<1>3. /\ Sound(u) /\ Ticking(u) /\ u.open = sock.open /\ u.compat = sock.compat
      /\ Room(t) /\ Asked(t) => Asked(u)
  BY <1>1, <1>2 DEF Called
<1>4. /\ Resting(sock)' /\ (reqs \in SUBSET Req /\ RequestsOk(reqs))'
      /\ (wire \in [Peers -> Seq(Nat)])' /\ sock'.open = u.open /\ sock'.compat = sock.compat
      /\ \A p \in Peers : wire'[p] \o sock'.queues[p] = wire[p] \o Flow(u, p)
      /\ Asked(u) => Asked(sock')
  BY <1>3, Left
<1>5. RepliesOk(sock', replies')
  BY <1>4, PlausibleSame DEF IInv
<1>6. replies' \in SUBSET Answers
  BY DEF IInv
<1>7. Room(sock) => Room(t)
  BY <1>1 DEF Room
<1> QED
  BY <1>1, <1>3, <1>4, <1>5, <1>6, <1>7

LEMMA CallKeeps ==
  ASSUME IInv, NEW late \in BOOLEAN, NEW u, Leave(u), Calm(Enter(late), u),
         replies' \subseteq replies, budget' \in Budget, app' = app
  PROVE  Kept
<1>1. Called(Enter(late), u) /\ \A p \in Peers : Flow(u, p) = Flow(Enter(late), p)
  BY DEF Calm
<1>2. /\ Resting(sock)' /\ (reqs \in SUBSET Req /\ RequestsOk(reqs))'
      /\ (replies \in SUBSET Answers)' /\ RepliesOk(sock, replies)'
      /\ (wire \in [Peers -> Seq(Nat)])' /\ sock'.open = sock.open
      /\ sock'.compat = sock.compat
      /\ \A p \in Peers : wire'[p] \o sock'.queues[p] = wire[p] \o Flow(u, p)
      /\ Room(sock) /\ Asked(sock) => Asked(sock')
  BY <1>1, CallEnds
<1>3. \A p \in Peers : Flow(Enter(late), p) = sock.queues[p]
  BY Entered
<1>4. ASSUME NEW p \in Peers PROVE wire'[p] \o sock'.queues[p] = wire[p] \o sock.queues[p]
  BY <1>1, <1>2, <1>3
<1>5. DataInOrder'
  BY <1>2, <1>4 DEF IInv, DataInOrder
<1> QED
  BY <1>2, <1>5 DEF IInv, Kept

\* ... and so does one that accepts data.
LEMMA NextNumber ==
  ASSUME NEW n \in Nat
  PROVE  [i \in 1..n |-> i] \o <<n + 1>> = [i \in 1..n + 1 |-> i]
<1> DEFINE a == [i \in 1..n |-> i]
           b == <<n + 1>>
           c == [i \in 1..n + 1 |-> i]
<1>1. a \in Seq(Nat) /\ b \in Seq(Nat) /\ c \in Seq(Nat) /\ Len(a) = n /\ Len(b) = 1 /\ Len(c) = n + 1
  OBVIOUS
<1>2. /\ a \o b \in Seq(Nat) /\ Len(a \o b) = n + 1
      /\ \A i \in 1..n + 1 : (a \o b)[i] = IF i <= n THEN a[i] ELSE b[i - n]
  BY <1>1
<1>3. ASSUME NEW i \in 1..n + 1 PROVE (a \o b)[i] = c[i]
  <2>1. CASE i <= n
    <3>1. i \in 1..n
      BY <2>1
    <3>2. a[i] = i /\ c[i] = i
      BY <3>1
    <3> HIDE DEF a, b, c
    <3> QED
      BY <1>2, <2>1, <3>2
  <2>2. CASE i = n + 1
    <3>1. i - n = 1 /\ ~(i <= n)
      BY <2>2
    <3>2. b[1] = n + 1 /\ c[i] = i
      OBVIOUS
    <3> HIDE DEF a, b, c
    <3> QED
      BY <1>2, <2>2, <3>1, <3>2
  <2> QED
    BY <2>1, <2>2
<1> HIDE DEF a, b, c
<1>4. a \o b = c
  BY <1>1, <1>2, <1>3, SeqEqual
<1> QED
  BY <1>4 DEF a, b, c

\* The numbers of a peer's payloads, up to the n-th.
UpTo(n) == [i \in 1..n |-> i]

\* A number appended after the numbers of two sequences.
LEMMA NumberAppended ==
  ASSUME NEW a \in Seq(Nat), NEW b \in Seq(Nat), NEW n \in Nat, a \o b = UpTo(n)
  PROVE  a \o (b \o <<n + 1>>) = UpTo(n + 1)
<1> DEFINE c == <<n + 1>>
<1>1. c \in Seq(Nat)
  OBVIOUS
<1>2. UpTo(n) \o c = UpTo(n + 1)
  BY NextNumber DEF UpTo
<1> HIDE DEF c
<1>3. (a \o b) \o c = a \o (b \o c)
  BY <1>1, NatConcat
<1>4. a \o (b \o c) = UpTo(n + 1)
  BY <1>2, <1>3
<1> QED
  BY <1>4 DEF c

LEMMA SendKeeps ==
  ASSUME IInv, NEW late \in BOOLEAN, NEW u, Leave(u), NEW peer \in Peers,
         Called(Enter(late), u), Grows(Enter(late), u, peer, app[peer] + 1), sock.open,
         replies' \subseteq replies, budget' \in Budget,
         app' = [app EXCEPT ![peer] = @ + 1]
  PROVE  Kept
<1> DEFINE n == app[peer]
<1>1. app \in [Peers -> Nat] /\ n \in Nat /\ wire \in [Peers -> Seq(Nat)]
  BY DEF IInv
<1>2. /\ Resting(sock)' /\ (reqs \in SUBSET Req /\ RequestsOk(reqs))'
      /\ (replies \in SUBSET Answers)' /\ RepliesOk(sock, replies)'
      /\ (wire \in [Peers -> Seq(Nat)])' /\ sock'.open = sock.open
      /\ sock'.compat = sock.compat
      /\ \A p \in Peers : wire'[p] \o sock'.queues[p] = wire[p] \o Flow(u, p)
      /\ Room(sock) /\ Asked(sock) => Asked(sock')
  BY CallEnds
<1>3. \A p \in Peers : Flow(Enter(late), p) = sock.queues[p]
  BY Entered
<1>4. app' \in [Peers -> Nat] /\ app'[peer] = n + 1 /\ \A p \in Peers : p # peer => app'[p] = app[p]
  BY <1>1
<1>5. Flow(u, peer) = sock.queues[peer] \o <<n + 1>>
      /\ \A p \in Peers : p # peer => Flow(u, p) = sock.queues[p]
  BY <1>3 DEF Grows
<1>6. \A p \in Peers : wire[p] \o sock.queues[p] = [i \in 1..app[p] |-> i]
  BY DEF IInv, DataInOrder
<1>7. ASSUME NEW p \in Peers PROVE wire'[p] \o sock'.queues[p] = [i \in 1..app'[p] |-> i]
  <2>1. CASE p # peer
    <3>1. wire'[p] \o sock'.queues[p] = wire[p] \o sock.queues[p] /\ app'[p] = app[p]
      BY <1>2, <1>4, <1>5, <2>1
    <3> QED
      BY <1>6, <3>1
  <2>2. CASE p = peer
    <3> DEFINE a == wire[peer]
               b == sock.queues[peer]
               c == <<n + 1>>
    <3>1. a \in Seq(Nat) /\ b \in Seq(Nat) /\ c \in Seq(Nat)
      <4>1. sock \in Sock
        BY DEF IInv, Resting
      <4> QED
        BY <1>1, <4>1, SockFields
    <3>2. wire'[p] \o sock'.queues[p] = a \o (b \o c)
      BY <1>2, <1>5, <2>2
    <3>3. a \o b = UpTo(n)
      BY <1>6 DEF UpTo
    <3>4. app'[p] = n + 1
      BY <1>1, <1>4, <2>2
    <3>5. a \o (b \o c) = UpTo(n + 1)
      <4> HIDE DEF n, a, b
      <4> QED
        BY <1>1, <3>1, <3>3, NumberAppended
    <3> HIDE DEF n
    <3> QED
      BY <3>2, <3>4, <3>5 DEF UpTo
  <2> QED
    BY <2>1, <2>2
<1>8. DataInOrder'
  BY <1>7 DEF DataInOrder
<1>9. budget' \in Budget
  OBVIOUS
<1> QED
  BY <1>2, <1>4, <1>8, <1>9 DEF IInv, Kept

-----------------------------------------------------------------------------
\* The calls and timers

LEMMA SetPeerKeeps ==
  ASSUME IInv, NEW p \in budget.who, set_peer(p)
  PROVE  Kept
<1> DEFINE t == Enter(FALSE)
           r == priv_add_channel_binding(t, p)
<1>1. p \in Peers
  BY BudgetPeers
<1>2. Sound(t) /\ Left3(t)
  BY Entered, IdsThere DEF set_peer, Leave
<1>3. Leave(r.t) /\ Spend("peers") /\ replies' = replies /\ app' = app
  BY DEF set_peer
<1> HIDE DEF t
<1>4. Added(t, r)
  BY <1>1, <1>2, AddBinding, LeftLess
<1> HIDE DEF r
<1>5. Done(t, r.t)
  BY <1>4 DEF Added, Step, Done
<1>6. Calm(t, r.t)
  BY <1>5, DoneCalm
<1>7. budget' \in Budget
  BY <1>3, Spent DEF IInv
<1> QED
  BY <1>3, <1>6, <1>7, CallKeeps DEF t

LEMMA SendMessageKeeps ==
  ASSUME IInv, NEW p \in budget.who, NEW late \in Late, send_message(p, late)
  PROVE  Kept
<1> DEFINE t == Enter(late)
           n == app[p] + 1
           u == socket_send_message(t, p, n)
<1>1. p \in Peers /\ late \in BOOLEAN /\ budget' \in Budget
  BY BudgetPeers, LateSpent DEF send_message
<1>2. Sound(t) /\ Left3(t)
  BY <1>1, Entered, IdsThere DEF send_message, Leave
<1>3. n \in Nat
  BY <1>1 DEF IInv
<1>4. Leave(u) /\ sock.open /\ replies' = replies /\ app' = [app EXCEPT ![p] = @ + 1]
  BY DEF send_message
<1> HIDE DEF t, n
<1>5. Called(t, u) /\ Grows(t, u, p, n)
  BY <1>1, <1>2, <1>3, MessageAccepted
<1> HIDE DEF u
<1> QED
  BY <1>1, <1>4, <1>5, SendKeeps DEF t, n

LEMMA RecvMessageKeeps ==
  ASSUME IInv, NEW m \in replies, NEW late \in Late, recv_message(m, late)
  PROVE  Kept
<1> DEFINE t == Enter(late)
           u == parse_recv(t, m.msg, m.from)
<1>1. late \in BOOLEAN /\ budget' \in Budget
  BY LateSpent DEF recv_message
<1>2. Sound(t) /\ Left3(t) /\ t.compat = sock.compat
  BY <1>1, Entered, IdsThere DEF recv_message, Leave
<1>3. Leave(u) /\ replies' \subseteq replies /\ app' = app
  BY DEF recv_message
<1>4. m.msg \in Message /\ m.from \in Peers
  BY DEF IInv, Answers
<1> HIDE DEF t
<1>5. Plausible(t, m.msg)
  BY <1>2 DEF IInv, RepliesOk, Plausible, Rfc
<1>6. Calm(t, u)
  BY <1>2, <1>4, <1>5, Received
<1> HIDE DEF u
<1> QED
  BY <1>1, <1>3, <1>6, CallKeeps DEF t

LEMMA ForgetSendKeeps ==
  ASSUME IInv, NEW id \in sock.sendreqs, priv_forget_send_request(id)
  PROVE  Kept
<1> DEFINE t == Enter(FALSE)
           S == t.sendreqs \ {id}
           A == stun_agent_forget_transaction(t.agent, id)
           u == [t EXCEPT !.sendreqs = S, !.agent = A]
<1>1. Sound(t) /\ t.sendreqs = sock.sendreqs
  BY Entered
<1>2. Leave(u) /\ replies' = replies /\ app' = app /\ budget' = budget
  BY DEF priv_forget_send_request
<1> HIDE DEF t
<1>3. t \in Sock
  BY <1>1 DEF Sound
<1>4. id \notin PermIds(t)
  <2>1. ~Rfc(t)
    BY <1>1 DEF Sound, Owned, SendsOk
  <2> QED
    BY <1>1, <2>1 DEF Sound, Owned, IdsOf
<1>5. t.agent \in StunAgents /\ t.sendreqs \in SUBSET Ids
  BY <1>3, SockFields
<1>6. /\ A = [t.agent EXCEPT !.sent = {y \in @ : y.id # id}]
      /\ A \in StunAgents /\ A.sent = {y \in t.agent.sent : y.id # id}
  BY <1>5 DEF stun_agent_forget_transaction, StunAgents
<1>7. S \in SUBSET Ids
  BY <1>5
<1> HIDE DEF A, S
<1>8. /\ u \in Sock /\ u.agent = A /\ u.sendreqs = S
      /\ u.open = t.open /\ u.compat = t.compat /\ u.perms = t.perms /\ u.sentperms = t.sentperms
      /\ u.permmsgs = t.permmsgs /\ u.queues = t.queues /\ u.data = t.data /\ u.used = t.used
      /\ u.out = t.out /\ u.curmsg = t.curmsg /\ u.channels = t.channels /\ u.tickPerm = t.tickPerm
  BY <1>3, <1>6, <1>7 DEF Sock
<1> HIDE DEF u
<1>9. u.sendreqs \subseteq t.sendreqs /\ t.sendreqs \ {id} \subseteq u.sendreqs
      /\ u.agent.sent = {y \in t.agent.sent : y.id # id}
  BY <1>6, <1>8 DEF S
<1>10. Calm(t, u)
  BY <1>1, <1>4, <1>8, <1>9, TransactionForgotten
<1>11. budget' \in Budget
  BY <1>2 DEF IInv
<1> QED
  BY <1>2, <1>10, <1>11, CallKeeps DEF t

\* A call that leaves requests and transactions alone and holds queues back at
\* most more strictly
LEMMA PermsChanged ==
  ASSUME NEW t, Sound(t), NEW P \in SUBSET Peers, P \subseteq t.perms
  PROVE  Calm(t, [t EXCEPT !.perms = P])
<1> DEFINE u == [t EXCEPT !.perms = P]
<1>1. t \in Sock
  BY DEF Sound
<1>2. /\ u \in Sock /\ u.perms = P /\ u.agent = t.agent /\ u.sendreqs = t.sendreqs
      /\ u.open = t.open /\ u.compat = t.compat /\ u.sentperms = t.sentperms
      /\ u.permmsgs = t.permmsgs /\ u.queues = t.queues /\ u.data = t.data /\ u.used = t.used
      /\ u.out = t.out /\ u.curmsg = t.curmsg /\ u.channels = t.channels /\ u.tickPerm = t.tickPerm
  BY <1>1 DEF Sock
<1> HIDE DEF u
<1>3. Owned(u)
  BY <1>2, OwnedSame DEF Sound
<1>4. CurOwn(u) /\ ChannelsOk(u) /\ RequestsOk(u.out)
  BY <1>2 DEF Sound, CurOwn, ChannelsOk, Rfc
<1>5. QueuesOk(u)
  BY <1>2 DEF Sound, QueuesOk
<1>6. Sound(u)
  BY <1>2, <1>3, <1>4, <1>5 DEF Sound
<1>7. (Ticking(t) => Ticking(u)) /\ (Asked(t) => Asked(u))
  BY <1>2, AskedSame DEF Ticking
<1>8. \A p \in Peers : Flow(u, p) = Flow(t, p)
  BY <1>2 DEF Flow
<1> QED
  BY <1>2, <1>6, <1>7, <1>8 DEF Calm, Called, u

LEMMA PermissionTimeoutKeeps ==
  ASSUME IInv, priv_permission_timeout
  PROVE  Kept
<1> DEFINE t == Enter(FALSE)
           u == [t EXCEPT !.perms = {}]
<1>1. Sound(t)
  BY Entered
<1>2. Leave(u) /\ Spend("timers") /\ replies' = replies /\ app' = app
  BY DEF priv_permission_timeout
<1> HIDE DEF t
<1>3. Calm(t, u)
  BY <1>1, PermsChanged
<1> HIDE DEF u
<1>4. budget' \in Budget
  BY <1>2, Spent DEF IInv
<1> QED
  BY <1>2, <1>3, <1>4, CallKeeps DEF t

\* The bindings change
LEMMA ChannelsChanged ==
  ASSUME NEW t, Sound(t), NEW C \in Seq(ChannelBinding),
         Rfc(t) => \A i \in DOMAIN C : C[i].timer = IF C[i].renew THEN "expire" ELSE "refresh"
  PROVE  LET u == [t EXCEPT !.channels = C]
         IN  /\ Step(t, u) /\ FreeIds(u) = FreeIds(t)
             /\ u.cur = t.cur /\ u.curmsg = t.curmsg /\ u.channels = C
<1> DEFINE u == [t EXCEPT !.channels = C]
<1>1. t \in Sock
  BY DEF Sound
<1>2. /\ u \in Sock /\ SameRest(t, u) /\ u.agent = t.agent /\ u.curmsg = t.curmsg
      /\ u.used = t.used /\ u.out = t.out /\ u.tickPerm = t.tickPerm /\ u.cur = t.cur
      /\ u.channels = C
  BY <1>1 DEF Sock, SameRest
<1> HIDE DEF u
<1>3. ChannelsOk(u)
  BY <1>2 DEF ChannelsOk, Rfc, SameRest
<1>4. Step(t, u) /\ FreeIds(u) = FreeIds(t)
  BY <1>2, <1>3, BindingsChanged
<1> QED
  BY <1>2, <1>4 DEF u

LEMMA BindingTimeoutKeeps ==
  ASSUME IInv, NEW i \in 1..Len(sock.channels), priv_binding_timeout(i)
  PROVE  Kept
<1> DEFINE e == Enter(FALSE)
           b == sock.channels[i]
           t == [e EXCEPT !.channels[i].renew = TRUE, !.channels[i].timer = "expire"]
           r == priv_send_channel_bind(t, FALSE, b.channel, b.peer)
           u == IF t.curmsg = None THEN r.t ELSE t
           d == [b EXCEPT !.renew = TRUE, !.timer = "expire"]
           C == [e.channels EXCEPT ![i] = d]
<1>1. Sound(e) /\ Left3(e) /\ e.channels = sock.channels
  BY Entered, IdsThere DEF priv_binding_timeout, Leave
<1>2. Leave(u) /\ Spend("timers") /\ replies' = replies /\ app' = app
  BY DEF priv_binding_timeout
<1> HIDE DEF e
<1>3. e \in Sock /\ e.channels \in Seq(ChannelBinding) /\ i \in DOMAIN e.channels /\ ChannelsOk(e)
  BY <1>1, SockFields DEF Sound
<1>4. b = e.channels[i] /\ b \in ChannelBinding
  BY <1>1, <1>3
<1>5. d \in ChannelBinding /\ d.timer = "expire" /\ d.renew = TRUE
  BY <1>4 DEF ChannelBinding
<1>6. t = [e EXCEPT !.channels = C]
  <2>1. DOMAIN e.channels = 1..Len(e.channels) /\ e.channels = [k \in 1..Len(e.channels) |-> e.channels[k]]
    BY <1>3
  <2> QED
    BY <1>3, <1>4, <2>1 DEF Sock
<1> HIDE DEF d, b, t
<1>7. C \in Seq(ChannelBinding) /\ DOMAIN C = DOMAIN e.channels
      /\ \A k \in DOMAIN C : C[k] = IF k = i THEN d ELSE e.channels[k]
  BY <1>3, <1>5
<1> HIDE DEF C
<1>8. Rfc(e) => \A k \in DOMAIN C : C[k].timer = IF C[k].renew THEN "expire" ELSE "refresh"
  BY <1>3, <1>5, <1>7 DEF ChannelsOk
<1>9. Step(e, t) /\ FreeIds(t) = FreeIds(e)
  BY <1>1, <1>6, <1>7, <1>8, ChannelsChanged
<1>10. Done(e, t) /\ Sound(t)
  BY <1>9 DEF Step, Done
<1>11. Left1(t)
  BY <1>1, <1>9, LeftMore, LeftLess
<1>12. b.channel \in Nat /\ b.peer \in Peers
  BY <1>4 DEF ChannelBinding
<1>13. Step(t, r.t)
  BY <1>10, <1>11, <1>12, ChannelBindSent
<1> HIDE DEF r
<1>14. Done(t, r.t)
  BY <1>13 DEF Step, Done
<1>15. Done(e, u)
  BY <1>10, <1>14, DoneThen
<1> HIDE DEF u
<1>16. Calm(e, u)
  BY <1>15, DoneCalm
<1>17. budget' \in Budget
  BY <1>2, Spent DEF IInv
<1> QED
  BY <1>2, <1>16, <1>17, CallKeeps DEF e

LEMMA BindingExpiredKeeps ==
  ASSUME IInv, NEW i \in 1..Len(sock.channels), priv_binding_expired_timeout(i)
  PROVE  Kept
<1> DEFINE e == Enter(FALSE)
           b == sock.channels[i]
           C == Without(e.channels, i)
           t == [e EXCEPT !.channels = C]
           renewing == t.cur = None /\ t.curmsg # None /\ t.curmsg.req.peer = b.peer
           d == [b EXCEPT !.timer = "none"]
           v == [t EXCEPT !.cur = d]
           r == priv_add_channel_binding(t, b.peer)
           u == IF renewing THEN v ELSE r.t
<1>1. Sound(e) /\ Left3(e) /\ e.channels = sock.channels
  BY Entered, IdsThere DEF priv_binding_expired_timeout, Leave
<1>2. Leave(u) /\ Spend("timers") /\ replies' = replies /\ app' = app
  BY DEF priv_binding_expired_timeout, Without
<1> HIDE DEF e
<1>3. e \in Sock /\ e.channels \in Seq(ChannelBinding) /\ i \in DOMAIN e.channels /\ ChannelsOk(e)
  BY <1>1, SockFields DEF Sound
<1>4. b = e.channels[i] /\ b \in ChannelBinding
  BY <1>1, <1>3
<1>5. d \in ChannelBinding /\ b.peer \in Peers
  BY <1>4 DEF ChannelBinding
<1> HIDE DEF d, b
<1>6. C \in Seq(ChannelBinding) /\ Others(e.channels, i, C)
  BY <1>3, WithoutElements, WithoutPlaces
<1> HIDE DEF C
<1>7. Rfc(e) => \A k \in DOMAIN C : C[k].timer = IF C[k].renew THEN "expire" ELSE "refresh"
  BY <1>3, <1>6 DEF ChannelsOk, Others
<1>8. Step(e, t) /\ FreeIds(t) = FreeIds(e)
  BY <1>1, <1>6, <1>7, ChannelsChanged
<1> HIDE DEF t
<1>9. Done(e, t) /\ Sound(t)
  BY <1>8 DEF Step, Done
<1>10. Left1(t)
  BY <1>1, <1>8, LeftMore, LeftLess
<1>11. Added(t, r)
  BY <1>5, <1>9, <1>10, AddBinding
<1>12. Step(t, v)
  BY <1>5, <1>9, CurChanged
<1> HIDE DEF r, v
<1>13. Done(t, r.t) /\ Done(t, v)
  BY <1>11, <1>12 DEF Added, Step, Done
<1>14. Done(e, u)
  BY <1>9, <1>13, DoneThen
<1> HIDE DEF u
<1>15. Calm(e, u)
  BY <1>14, DoneCalm
<1>16. budget' \in Budget
  BY <1>2, Spent DEF IInv
<1> QED
  BY <1>2, <1>15, <1>16, CallKeeps DEF e

\* The timer of the binding request is none of the invariant's business.
LEMMA TickDestroyed ==
  ASSUME NEW t, Sound(t)
  PROVE  Done(t, [t EXCEPT !.tickBind = FALSE])
<1> DEFINE u == [t EXCEPT !.tickBind = FALSE]
<1>1. t \in Sock
  BY DEF Sound
<1>2. /\ u \in Sock /\ SameRest(t, u) /\ u.agent = t.agent /\ u.curmsg = t.curmsg
      /\ u.used = t.used /\ u.out = t.out /\ u.tickPerm = t.tickPerm /\ u.channels = t.channels
  BY <1>1 DEF Sock, SameRest
<1> HIDE DEF u
<1>3. ChannelsOk(u)
  BY <1>2 DEF Sound, ChannelsOk, Rfc, SameRest
<1>4. Step(t, u)
  BY <1>2, <1>3, BindingsChanged
<1> QED
  BY <1>4 DEF Step, Done, u

LEMMA RetransmissionKeeps ==
  ASSUME IInv, priv_retransmissions_tick
  PROVE  Kept
<1> DEFINE t == Enter(FALSE)
           a == ResendBinding(t)
           g == GiveUpBinding(t)
           b == [g EXCEPT !.tickBind = FALSE]
           u == IF sock.curmsg.left > 0 THEN a ELSE b
<1>1. Sound(t) /\ Left3(t) /\ t.curmsg = sock.curmsg
  BY Entered, IdsThere DEF priv_retransmissions_tick, Leave
<1>2. Leave(u) /\ Spend("timers") /\ replies' = replies /\ app' = app /\ sock.curmsg # None
  BY DEF priv_retransmissions_tick
<1> HIDE DEF t
<1>3. sock.curmsg.left > 0 => Done(t, a)
  BY <1>1, <1>2, BindingResent DEF Done, Safe
<1>4. Done(t, g)
  BY <1>1, <1>2, BindingGivenUp, LeftLess
<1> HIDE DEF a, g
<1>5. Done(g, b)
  BY <1>4, TickDestroyed DEF Done
<1> HIDE DEF b
<1>6. Done(t, b)
  BY <1>4, <1>5, DoneThen
<1>7. Done(t, u)
  BY <1>3, <1>6
<1> HIDE DEF u
<1>8. Calm(t, u)
  BY <1>7, DoneCalm
<1>9. budget' \in Budget
  BY <1>2, Spent DEF IInv
<1> QED
  BY <1>2, <1>8, <1>9, CallKeeps DEF t

\* A permission request is sent again.
PermissionAgain(t, u, i) ==
    /\ u.permmsgs = [t.permmsgs EXCEPT ![i] = Resent(@)]
    /\ u.out = t.out \cup {t.permmsgs[i].req}
    /\ u.agent = t.agent /\ u.sendreqs = t.sendreqs
    /\ u.open = t.open /\ u.compat = t.compat /\ u.perms = t.perms /\ u.sentperms = t.sentperms
    /\ u.queues = t.queues /\ u.data = t.data /\ u.used = t.used
    /\ u.curmsg = t.curmsg /\ u.channels = t.channels

LEMMA PermissionResent ==
  ASSUME NEW t, Sound(t), NEW u \in Sock, NEW i \in DOMAIN t.permmsgs, PermissionAgain(t, u, i)
  PROVE  /\ Sound(u) /\ (Asked(t) => Asked(u))
         /\ \A p \in Peers : Flow(u, p) = Flow(t, p)
<1> DEFINE P == t.permmsgs
           Q == u.permmsgs
<1>1. t \in Sock /\ P \in Seq(TurnMessage) /\ \A k \in DOMAIN P : P[k] \in TurnMessage
  BY SockFields DEF Sound
<1>2. Q = [P EXCEPT ![i] = Resent(@)]
  BY DEF PermissionAgain
<1>3. DOMAIN Q = DOMAIN P /\ \A k \in DOMAIN P : Q[k].req = P[k].req
  BY <1>1, <1>2 DEF Resent, TurnMessage
<1>4. u.agent.sent = t.agent.sent /\ u.sendreqs = t.sendreqs /\ u.compat = t.compat
  BY DEF PermissionAgain
<1>5. PermIds(u) = PermIds(t)
  BY <1>3 DEF PermIds
<1>6. Owned(t)
  BY DEF Sound
<1>7. Owned(u)
  <2>1. IdsOf(u, "CREATEPERMISSION") = PermIds(u) /\ SendsOk(u)
    BY <1>4, <1>5, <1>6 DEF Owned, IdsOf, SendsOk, Rfc
  <2>2. /\ \A k, j \in DOMAIN Q : k # j => Q[k].req.msg.id # Q[j].req.msg.id
        /\ \A k \in DOMAIN Q : Q[k].req.msg.method = "CREATEPERMISSION"
    BY <1>3, <1>6 DEF Owned
  <2>3. /\ IsFiniteSet(u.agent.sent) /\ \A x, y \in u.agent.sent : x.id = y.id => x = y
        /\ \A x \in u.agent.sent :
              /\ x.method = "CREATEPERMISSION" => Rfc(u)
              /\ x.method \in {"SEND", "OLD_SET_ACTIVE_DST"} => ~Rfc(u)
    BY <1>4, <1>6 DEF Owned, Rfc
  <2> QED
    BY <2>1, <2>2, <2>3, OwnedMeans
<1>8. CurOwn(u) /\ ChannelsOk(u) /\ QueuesOk(u)
  BY DEF Sound, PermissionAgain, CurOwn, ChannelsOk, QueuesOk, Rfc
<1>9. RequestsOk(u.out)
  <2>1. Understood(P[i].req.msg)
    BY <1>6 DEF Owned, Understood
  <2> QED
    BY <2>1 DEF Sound, PermissionAgain, RequestsOk
<1>10. Asked(t) => Asked(u)
  <2>1. u.queues = t.queues /\ u.sentperms = t.sentperms
    BY DEF PermissionAgain
  <2> QED
    BY <1>3, <2>1 DEF Asked
<1>11. \A p \in Peers : Flow(u, p) = Flow(t, p)
  BY DEF PermissionAgain, Flow
<1> QED
  BY <1>7, <1>8, <1>9, <1>10, <1>11 DEF Sound

LEMMA PermissionTickKeeps ==
  ASSUME IInv, NEW i \in 1..Len(sock.permmsgs), create_permission_tick(i)
  PROVE  Kept
<1> DEFINE t == Enter(FALSE)
           m == sock.permmsgs[i]
           A == stun_agent_forget_transaction(t.agent, m.req.msg.id)
           P == Without(t.permmsgs, i)
           R == [t.permmsgs EXCEPT ![i] = Resent(@)]
           O == t.out \cup {m.req}
           u == [t EXCEPT !.permmsgs = P, !.agent = A]
           w == [t EXCEPT !.permmsgs = R, !.out = O]
           z == Permitted(u, m.req.peer)
           v == IF m.left > 0 THEN w ELSE z
           x == ScheduleTick(v)
<1>1. Sound(t) /\ t.permmsgs = sock.permmsgs
  BY Entered
<1> HIDE DEF t
<1>2. t \in Sock /\ i \in DOMAIN t.permmsgs /\ m = t.permmsgs[i] /\ m \in TurnMessage
  <2>1. t \in Sock
    BY <1>1 DEF Sound
  <2>2. t.permmsgs \in Seq(TurnMessage)
    BY <2>1, SockFields
  <2> QED
    BY <1>1, <2>1, <2>2
<1>3. Leave(x) /\ replies' = replies /\ app' = app /\ budget' = budget
  BY DEF create_permission_tick, Without, t
<1>4. m.req \in Req /\ m.req.peer \in Peers /\ m.left \in Nat
  BY <1>2 DEF TurnMessage, Req
<1>5. ASSUME m.left > 0
      PROVE  /\ Sound(w) /\ (Asked(t) => Asked(w)) /\ w.open = t.open /\ w.compat = t.compat
             /\ \A p \in Peers : Flow(w, p) = Flow(t, p)
  <2>1. R \in Seq(TurnMessage)
    <3>1. Resent(m) \in TurnMessage
      BY <1>2, <1>4, <1>5 DEF Resent, TurnMessage
    <3>2. t.permmsgs \in Seq(TurnMessage)
      BY <1>2, SockFields
    <3> HIDE DEF m
    <3> QED
      BY <1>2, <3>1, <3>2
  <2>2. O \in SUBSET Req
    BY <1>2, <1>4, SockFields
  <2> HIDE DEF R, O
  <2>3. /\ w \in Sock /\ w.permmsgs = R /\ w.out = O /\ w.agent = t.agent
        /\ w.sendreqs = t.sendreqs /\ w.open = t.open /\ w.compat = t.compat
        /\ w.perms = t.perms /\ w.sentperms = t.sentperms
        /\ w.queues = t.queues /\ w.data = t.data /\ w.used = t.used
        /\ w.curmsg = t.curmsg /\ w.channels = t.channels
    BY <1>2, <2>1, <2>2 DEF Sock
  <2> HIDE DEF w
  <2>4. PermissionAgain(t, w, i)
    BY <1>2, <2>3 DEF PermissionAgain, R, O
  <2> QED
    BY <1>1, <1>2, <2>3, <2>4, PermissionResent
<1>6. /\ Sound(z) /\ (Asked(t) => Asked(z)) /\ z.open = t.open /\ z.compat = t.compat
      /\ \A p \in Peers : Flow(z, p) = Flow(t, p)
  <2>1. t.agent \in StunAgents /\ t.permmsgs \in Seq(TurnMessage)
    BY <1>2, SockFields
  <2>2. A \in StunAgents /\ A.sent = {y \in t.agent.sent : y.id # m.req.msg.id}
    BY <2>1 DEF stun_agent_forget_transaction, StunAgents
  <2>3. P \in Seq(TurnMessage)
    BY <1>2, <2>1, WithoutElements
  <2> HIDE DEF A, P
  <2>4. /\ u \in Sock /\ u.permmsgs = P /\ u.agent = A /\ u.out = t.out /\ u.tickPerm = t.tickPerm
        /\ u.sendreqs = t.sendreqs /\ u.open = t.open /\ u.compat = t.compat
        /\ u.perms = t.perms /\ u.sentperms = t.sentperms
        /\ u.queues = t.queues /\ u.data = t.data /\ u.used = t.used
        /\ u.curmsg = t.curmsg /\ u.channels = t.channels
    BY <1>2, <2>2, <2>3 DEF Sock
  <2> HIDE DEF u
  <2>5. PermissionRemoved(t, u, i)
    BY <1>2, <2>2, <2>4 DEF PermissionRemoved, P
  <2>6. /\ Sound(u) /\ (Asked(t) => AskedExcept(u, m.req.peer))
        /\ \A p \in Peers : Flow(u, p) = Flow(t, p)
    BY <1>1, <1>2, <2>4, <2>5, PermissionForgotten
  <2>7. /\ Sound(z) /\ z.open = u.open /\ z.compat = u.compat
        /\ z.permmsgs = u.permmsgs
        /\ z.sentperms = u.sentperms \ {m.req.peer} /\ z.queues[m.req.peer] = <<>>
        /\ \A p \in Peers : p # m.req.peer => z.queues[p] = u.queues[p]
        /\ \A p \in Peers : Flow(z, p) = Flow(u, p)
    BY <1>4, <2>6, PermittedDone
  <2> HIDE DEF z, m
  <2>8. AskedExcept(u, m.req.peer) => Asked(z)
    BY <2>7 DEF AskedExcept, Asked
  <2> QED
    BY <2>4, <2>6, <2>7, <2>8
<1> HIDE DEF w, z
<1>7. /\ Sound(v) /\ (Asked(t) => Asked(v)) /\ v.open = t.open /\ v.compat = t.compat
      /\ \A p \in Peers : Flow(v, p) = Flow(t, p)
  BY <1>5, <1>6
<1> HIDE DEF v
<1>8. Safe(x) /\ Frame(v, x)
  BY <1>7, ScheduleTickDone
<1> HIDE DEF x
<1>9. Done(v, x) /\ Ticking(x)
  BY <1>8 DEF Safe, Done
<1>10. Calm(v, x)
  BY <1>9, DoneCalm
<1>11. Asked(v) => Asked(x)
  BY <1>8, AskedSame DEF Frame, SameRest
<1>12. Calm(t, x)
  BY <1>7, <1>9, <1>10, <1>11 DEF Calm, Called
<1>13. budget' \in Budget
  BY <1>3 DEF IInv
<1> QED
  BY <1>3, <1>12, <1>13, CallKeeps DEF t

-----------------------------------------------------------------------------
\* New and closed sockets

LEMMA NewAgentType ==
  ASSUME NEW compat
  PROVE  NewAgent(compat) \in StunAgents /\ NewAgent(compat).sent = {}
<1> DEFINE F == {{"LONG_TERM_CREDENTIALS"}, {"SHORT_TERM_CREDENTIALS", "NO_INDICATION_AUTH"},
                 {"SHORT_TERM_CREDENTIALS", "IGNORE_CREDENTIALS"},
                 {"LONG_TERM_CREDENTIALS", "NO_ALIGNED_ATTRIBUTES"}}
<1>1. F \subseteq SUBSET Flags
  BY DEF Flags
<1>2. PICK c \in {"RFC5389", "RFC3489", "OC2007"}, f \in F : NewAgent(compat) = stun_agent_init(c, f)
  BY DEF NewAgent
<1> HIDE DEF F
<1>3. stun_agent_init(c, f) = [compat |-> c, flags |-> f, sent |-> {}]
  BY DEF stun_agent_init
<1>4. f \in SUBSET Flags
  BY <1>1
<1> QED
  BY <1>2, <1>3, <1>4 DEF StunAgents

LEMMA NewSocketSound ==
  ASSUME NEW compat \in Compats, NEW o \in BOOLEAN
  PROVE  LET t == [NewSocket(compat) EXCEPT !.open = o]
         IN  /\ Sound(t) /\ Resting(t) /\ Asked(t) /\ t.open = o /\ t.compat = compat
             /\ t.queues = [p \in Peers |-> <<>>]
             /\ NewSocket(compat) \in Sock /\ NewSocket(compat).open = TRUE
<1> DEFINE t == [NewSocket(compat) EXCEPT !.open = o]
           N == [p \in Peers |-> <<>>]
           A == NewAgent(compat)
           k == IF compat = "GOOGLE" THEN NoKey ELSE Key
<1>1. A \in StunAgents /\ A.sent = {}
  BY NewAgentType
<1>2. N \in [Peers -> Seq(Nat)] /\ k \in Keys /\ \A p \in Peers : N[p] = <<>>
  BY DEF Keys
<1>3. NewSocket(compat) =
        [open |-> TRUE, compat |-> compat, agent |-> A, key |-> k,
         channels |-> <<>>, pending |-> <<>>, cur |-> None, curmsg |-> None,
         perms |-> {}, sentperms |-> {}, permmsgs |-> <<>>,
         queues |-> N, sendreqs |-> {},
         tickBind |-> FALSE, tickPerm |-> FALSE, permTimer |-> FALSE,
         again |-> {}, late |-> FALSE, used |-> {}, out |-> {}, data |-> N]
  BY DEF NewSocket
<1> HIDE DEF N, A, k
<1> DEFINE n == NewSocket(compat)
<1> HIDE DEF n
<1>4. /\ n \in Sock /\ n.open = TRUE /\ n.compat = compat /\ n.agent = A /\ n.channels = <<>>
      /\ n.curmsg = None /\ n.permmsgs = <<>> /\ n.sendreqs = {} /\ n.sentperms = {}
      /\ n.queues = N /\ n.data = N /\ n.out = {}
  BY <1>1, <1>2, <1>3 DEF Sock, n
<1>5. t = [n EXCEPT !.open = o]
  BY DEF n
<1> HIDE DEF t
<1>6. /\ t \in Sock /\ t.open = o /\ t.compat = compat /\ t.agent.sent = {} /\ t.channels = <<>>
      /\ t.curmsg = None /\ t.permmsgs = <<>> /\ t.sendreqs = {} /\ t.sentperms = {}
      /\ t.queues = N /\ t.data = N /\ t.out = {}
  BY <1>1, <1>4, <1>5 DEF Sock
<1>7. DOMAIN t.permmsgs = {} /\ DOMAIN t.channels = {}
  BY <1>6
<1>8. Owned(t)
  <2>1. IsFiniteSet(t.agent.sent)
    BY <1>6, FS_EmptySet
  <2>2. IdsOf(t, "CREATEPERMISSION") = PermIds(t) /\ SendsOk(t)
    BY <1>6, <1>7 DEF IdsOf, PermIds, SendsOk
  <2> QED
    BY <1>6, <1>7, <2>1, <2>2 DEF Owned
<1>9. CurOwn(t) /\ CurAlone(t)
  BY <1>6 DEF CurOwn, CurAlone
<1>10. ChannelsOk(t) /\ Ticking(t) /\ RequestsOk(t.out)
  BY <1>6, <1>7 DEF ChannelsOk, Ticking, RequestsOk
<1>11. QueuesOk(t) /\ Asked(t)
  BY <1>2, <1>6 DEF QueuesOk, Asked
<1> QED
  BY <1>4, <1>6, <1>8, <1>9, <1>10, <1>11 DEF Sound, Resting, t, n, N

LEMMA CloseKeeps ==
  ASSUME IInv, socket_close
  PROVE  Kept
<1> DEFINE u == [NewSocket(sock.compat) EXCEPT !.open = FALSE]
<1>1. sock.compat \in Compats
  BY DEF IInv, Resting, Sock
<1>2. Leave(u) /\ Spend("closes") /\ replies' = replies /\ app' = app
  BY DEF socket_close
<1>3. Sound(u) /\ Resting(u) /\ Asked(u) /\ u.open = FALSE /\ u.compat = sock.compat
  BY <1>1, NewSocketSound
<1> HIDE DEF u
<1>4. Ticking(u)
  BY <1>3 DEF Resting
<1>5. /\ Resting(sock)' /\ (reqs \in SUBSET Req /\ RequestsOk(reqs))'
      /\ (wire \in [Peers -> Seq(Nat)])' /\ sock'.open = FALSE /\ sock'.compat = sock.compat
      /\ Asked(sock')
  BY <1>2, <1>3, <1>4, Left
<1>6. RepliesOk(sock', replies') /\ replies' \in SUBSET Answers
  BY <1>2, <1>5, PlausibleSame DEF IInv
<1>7. budget' \in Budget
  BY <1>2, Spent DEF IInv
<1>8. DataInOrder'
  BY <1>5 DEF DataInOrder
<1>9. app' \in [Peers -> Nat]
  BY <1>2 DEF IInv
<1> QED
  BY <1>5, <1>6, <1>7, <1>8, <1>9 DEF IInv, Kept

-----------------------------------------------------------------------------
\* The server and the peers

\* What stun_agent_init_reply and stun_agent_finish_message make of a request
LEMMA ReplyMade ==
  ASSUME NEW g \in StunAgents, NEW q \in Message, NEW at \in SUBSET Attributes,
         NEW code \in {0, 401, 438, 403}
  PROVE  LET a == stun_agent_init_reply(g, q, at, code)
         IN  /\ a \in Message /\ a.method = q.method /\ a.id = q.id /\ at \subseteq a.attrs
             /\ a.class = IF code = 0 THEN "RESPONSE" ELSE "ERROR"
<1> DEFINE class == IF code = 0 THEN "RESPONSE" ELSE "ERROR"
           z == at \cup (IF code = 0 THEN {} ELSE {"ERROR_CODE"})
           y == z \cup (IF class = "REQUEST" /\ HasCookies(g) /\ "ADD_SOFTWARE" \in g.flags
                        THEN {"SOFTWARE"} ELSE {})
           c == HasCookies(g)
           a == stun_agent_init_reply(g, q, at, code)
           b == [shape |-> "whole", class |-> class, method |-> q.method, id |-> q.id,
                 cookie |-> c, fpr |-> "none", code |-> 0, mac |-> NoKey, attrs |-> y]
<1>1. a = [b EXCEPT !.cookie = q.cookie, !.code = code]
  BY DEF stun_agent_init_reply, stun_agent_init_message
<1>2. y \in SUBSET Attributes /\ at \subseteq y
  BY DEF Attributes
<1>3. class \in {"RESPONSE", "ERROR"} /\ c \in BOOLEAN /\ NoKey \in Keys /\ code \in Nat
  BY DEF HasCookies, Keys
<1>4. q.method \in Methods /\ q.id \in Nat /\ q.cookie \in BOOLEAN
  BY DEF Message
<1> HIDE DEF y, c, a
<1>5. /\ a \in Message /\ a.method = q.method /\ a.id = q.id /\ a.attrs = y /\ a.class = class
  <2> HIDE DEF class
  <2> QED
    BY <1>1, <1>2, <1>3, <1>4 DEF Message
<1> QED
  BY <1>2, <1>5 DEF a

LEMMA ReplyFinished ==
  ASSUME NEW g \in StunAgents, NEW b \in Message, NEW k \in Keys, b.class # "REQUEST"
  PROVE  LET m == stun_agent_finish_message(g, b, k).msg
         IN  /\ m \in Message /\ m.method = b.method /\ m.id = b.id /\ b.attrs \subseteq m.attrs
             /\ m.class = b.class
<1> DEFINE f == stun_agent_finish_message(g, b, k)
           mac == Signature(g, b, k)
           more == IF mac # NoKey THEN {"MESSAGE_INTEGRITY"} ELSE {}
           at == b.attrs \cup more
           fp == IF HasCookies(g) /\ "USE_FINGERPRINT" \in g.flags THEN "good" ELSE b.fpr
           n == [b EXCEPT !.mac = mac, !.attrs = @ \cup more, !.fpr = fp]
<1>1. b.fpr = "none" /\ b.attrs \in SUBSET Attributes
  BY DEF Message
<1>2. mac \in Keys
  BY DEF Signature, Keys
<1>3. fp = "none"
  BY <1>1 DEF StunAgents, Flags
<1>4. at \in SUBSET Attributes
  BY <1>1 DEF Attributes
<1>5. f.msg = n
  BY DEF stun_agent_finish_message
<1> HIDE DEF mac, fp, more, f
<1>6. n \in Message /\ n.class = b.class /\ n.method = b.method /\ n.id = b.id /\ n.attrs = at
  BY <1>2, <1>3, <1>4 DEF Message
<1> HIDE DEF n
<1> QED
  BY <1>5, <1>6 DEF f

\* Steps of the server change nothing of the socket.
LEMMA AnswersKeep ==
  ASSUME IInv, sock' = sock, wire' = wire, app' = app, reqs' \subseteq reqs, budget' \in Budget,
         replies' \in SUBSET Answers, RepliesOk(sock, replies')
  PROVE  Kept
<1>1. DataInOrder'
  BY DEF IInv, DataInOrder
<1>2. (reqs \in SUBSET Req /\ RequestsOk(reqs))'
  BY DEF IInv, RequestsOk
<1>3. Resting(sock)' /\ RepliesOk(sock, replies)' /\ (app \in [Peers -> Nat])'
      /\ (wire \in [Peers -> Seq(Nat)])' /\ (budget \in Budget)' /\ (replies \in SUBSET Answers)'
  BY DEF IInv
<1>4. Asked(sock) => Asked(sock')
  OBVIOUS
<1> QED
  BY <1>1, <1>2, <1>3, <1>4 DEF IInv, Kept

\* The message of the server
LEMMA Answered ==
  ASSUME IInv, NEW r \in reqs, NEW code \in {0, 401, 438, 403}, Answer(r, code)
  PROVE  \E n \in Answers :
            /\ replies' = replies \cup {n} /\ Plausible(sock, n.msg) /\ n.msg.id = r.msg.id
            /\ n.msg.class = IF code = 0 THEN "RESPONSE" ELSE "ERROR"
<1> DEFINE at == (r.msg.attrs \cap {"MAGIC_COOKIE", "OPTIONS"})
                  \cup (IF code \in {401, 438} THEN {"REALM", "NONCE"} ELSE {})
           a == stun_agent_init_reply(sock.agent, r.msg, at, code)
           ut == r.msg.attrs \cap {"USERNAME", "REALM"}
           f == stun_agent_finish_message(sock.agent, [a EXCEPT !.attrs = @ \cup ut], r.msg.mac)
           m == IF code \in {401, 438} THEN a ELSE f.msg
           n == [msg |-> m, from |-> r.peer]
<1>1. sock.agent \in StunAgents /\ r \in Req /\ Understood(r.msg)
  <2>1. sock \in Sock
    BY DEF IInv, Resting
  <2> QED
    BY <2>1, SockFields DEF IInv, RequestsOk
<1>2. r.msg \in Message /\ r.peer \in Peers /\ r.msg.mac \in Keys /\ r.msg.attrs \in SUBSET Attributes
  BY <1>1 DEF Req, Message
<1>3. replies' = replies \cup {n}
  BY DEF Answer
<1>5. at \in SUBSET Attributes /\ ut \in SUBSET Attributes
      /\ ("MAGIC_COOKIE" \in r.msg.attrs => "MAGIC_COOKIE" \in at)
  BY <1>2 DEF Attributes
<1> HIDE DEF at, ut
<1>6. /\ a \in Message /\ a.method = r.msg.method /\ a.id = r.msg.id /\ at \subseteq a.attrs
      /\ a.class = IF code = 0 THEN "RESPONSE" ELSE "ERROR"
  BY <1>1, <1>2, <1>5, ReplyMade
<1> HIDE DEF a
<1>7. /\ f.msg \in Message /\ f.msg.method = a.method /\ f.msg.id = a.id
      /\ a.attrs \subseteq f.msg.attrs /\ f.msg.class = a.class
  <2> DEFINE g == sock.agent
             k == r.msg.mac
  <2>1. a.class # "REQUEST" /\ g \in StunAgents /\ k \in Keys
    BY <1>1, <1>2, <1>6
  <2> DEFINE z == a.attrs \cup ut
             b == [a EXCEPT !.attrs = z]
  <2>2. f = stun_agent_finish_message(g, b, k)
    OBVIOUS
  <2>3. z \in SUBSET Attributes /\ a.attrs \subseteq z
    BY <1>5, <1>6 DEF Message
  <2> HIDE DEF z
  <2>4. b \in Message /\ b.class = a.class /\ b.method = a.method /\ b.id = a.id /\ b.attrs = z
    BY <1>6, <2>3 DEF Message
  <2> HIDE DEF f, g, k, b
  <2>5. /\ f.msg \in Message /\ f.msg.method = b.method /\ f.msg.id = b.id
        /\ b.attrs \subseteq f.msg.attrs /\ f.msg.class = b.class
    BY <2>1, <2>2, <2>4, ReplyFinished
  <2> QED
    BY <2>3, <2>4, <2>5
<1> HIDE DEF f
<1>8. /\ m \in Message /\ m.method = r.msg.method /\ m.id = r.msg.id /\ at \subseteq m.attrs
      /\ m.class = IF code = 0 THEN "RESPONSE" ELSE "ERROR"
  BY <1>6, <1>7
<1> HIDE DEF m
<1>9. n \in Answers /\ n.msg = m
  BY <1>2, <1>8 DEF Answers
<1>10. Plausible(sock, m)
  BY <1>1, <1>5, <1>8 DEF Plausible, Understood
<1> HIDE DEF n
<1> QED
  BY <1>3, <1>8, <1>9, <1>10

LEMMA AnswerKeeps ==
  ASSUME IInv, NEW r \in reqs, NEW code \in {0, 401, 438, 403}, Answer(r, code)
  PROVE  Kept
<1>1. PICK n \in Answers : replies' = replies \cup {n} /\ Plausible(sock, n.msg)
  BY Answered
<1>2. reqs' \subseteq reqs /\ sock' = sock /\ app' = app /\ wire' = wire
  BY DEF Answer
<1>3. budget' = budget \/ Spend("errors")
  BY DEF Answer
<1>4. replies' \in SUBSET Answers /\ RepliesOk(sock, replies')
  BY <1>1 DEF IInv, RepliesOk
<1>5. budget' \in Budget
  BY <1>3, Spent DEF IInv
<1> QED
  BY <1>2, <1>4, <1>5, AnswersKeep

LEMMA LapseKeeps ==
  ASSUME IInv, NEW c \in Channels, Lapse(c)
  PROVE  Kept
<1>1. /\ Spend("timers") /\ sock' = sock /\ reqs' \subseteq reqs /\ replies' = replies
      /\ app' = app /\ wire' = wire
  BY DEF Lapse
<1>2. budget' \in Budget
  BY <1>1, Spent DEF IInv
<1>3. replies' \in SUBSET Answers /\ RepliesOk(sock, replies')
  BY <1>1 DEF IInv
<1> QED
  BY <1>1, <1>2, <1>3, AnswersKeep

LEMMA PeerSendsKeeps ==
  ASSUME IInv, NEW p \in budget.who, PeerSends(p)
  PROVE  Kept
<1> DEFINE m == stun_agent_init_message(sock.agent, "INDICATION", "IND_DATA", 0,
                                        {"DATA", "MAGIC_COOKIE"})
           n == [msg |-> m, from |-> p]
           c == HasCookies(sock.agent)
<1>1. /\ Spend("inds") /\ sock' = sock /\ reqs' = reqs /\ replies' = replies \cup {n} /\ app' = app
      /\ wire' = wire
  BY DEF PeerSends
<1>2. p \in Peers
  BY BudgetPeers
<1>3. m = [shape |-> "whole", class |-> "INDICATION", method |-> "IND_DATA", id |-> 0,
           cookie |-> c, fpr |-> "none", code |-> 0, mac |-> NoKey,
           attrs |-> {"DATA", "MAGIC_COOKIE"}]
  BY DEF stun_agent_init_message
<1>4. c \in BOOLEAN /\ NoKey \in Keys /\ {"DATA", "MAGIC_COOKIE"} \in SUBSET Attributes
      /\ "IND_DATA" \in Methods
  BY DEF HasCookies, Keys, Attributes, Methods
<1> HIDE DEF m, c
<1>5. m \in Message /\ m.class = "INDICATION" /\ m.method = "IND_DATA"
  BY <1>3, <1>4 DEF Message
<1>6. n \in Answers /\ n.msg = m
  BY <1>2, <1>5 DEF Answers
<1>7. Plausible(sock, m)
  BY <1>5 DEF Plausible, Understood
<1> HIDE DEF n
<1>8. replies' \in SUBSET Answers /\ RepliesOk(sock, replies')
  BY <1>1, <1>6, <1>7 DEF IInv, RepliesOk
<1>9. budget' \in Budget
  BY <1>1, Spent DEF IInv
<1> QED
  BY <1>1, <1>8, <1>9, AnswersKeep

-----------------------------------------------------------------------------
\* Channels and the server's bindings (Attribution)
\*
\* R are the requests the server has not answered, M the messages in flight and
\* S the server, all as they were at the start of a call: S.bound its bindings
\* and S.older the requests from before it made them.
Servers == [bound |-> srv, older |-> older]

\* Channel c can only become that of peer p, the requests O of the call
\* included.  Requests to bind it for another peer are refused while the server
\* has it bound, and do not live longer.
Clear(S, R, O, c, p) ==
    /\ S.bound[c] \in {None, p}
    /\ \A r \in Binds(R \cup O, c) :
          r.peer # p => S.bound[c] = p /\ r \in S.older /\ r \notin O

\* What the server has bound or will bind to the channel of a binding is its
\* peer, but for a number that two bindings were given.
Served(t, R, S) ==
    \A i \in DOMAIN t.channels :
       t.channels[i].channel \in Channels \ t.again =>
          Clear(S, R, t.out, t.channels[i].channel, t.channels[i].peer)

\* A binding to come has a request.  The same is so of its channel, or the
\* server has not confirmed this request for it.
Awaited(t, R, M, S) ==
    t.cur # None =>
      /\ t.curmsg # None
      /\ t.cur.channel \in Channels \ t.again =>
           \/ Clear(S, R, t.out, t.cur.channel, t.cur.peer)
           \/ /\ t.curmsg.req.channel = t.cur.channel /\ t.curmsg.req.peer = t.cur.peer
              /\ \A m \in M : m.msg.id = t.curmsg.req.msg.id => m.msg.class # "RESPONSE"

\* The socket holds channel c to be that of peer p, by a binding, the binding to
\* come or the binding request ...
Claim(t, c, p) ==
    \/ \E i \in DOMAIN t.channels : t.channels[i].channel = c /\ t.channels[i].peer = p
    \/ t.cur # None /\ t.cur.channel = c /\ t.cur.peer = p
    \/ t.curmsg # None /\ t.curmsg.req.channel = c /\ t.curmsg.req.peer = p

\* ... and these do not contradict each other.
Agreed(t) == \A c, p, o : c \notin t.again /\ Claim(t, c, p) /\ Claim(t, c, o) => p = o

\* The bindings do not contradict that c is the channel of p.
Fitting(t, c, p) ==
    c \notin t.again => \A i \in DOMAIN t.channels :
                          t.channels[i].channel = c => t.channels[i].peer = p

\* The binding request is a ChannelBind request, and no other has its id.
Known(t, R) ==
    t.curmsg # None =>
      /\ t.curmsg.req.msg.method = "CHANNELBIND"
      /\ \A r \in R : r.msg.id = t.curmsg.req.msg.id => r = t.curmsg.req

\* The ids in use
Noted(t, R, M) ==
    /\ \A r \in R \cup t.out : r.msg.id \in t.used
    /\ \A m \in M : m.msg.id \in t.used
    /\ t.curmsg # None => t.curmsg.req.msg.id \in t.used

\* What a call keeps, but for the binding to come
Fits(t) == IsFiniteSet(t.agent.sent) /\ Cardinality(t.agent.sent) <= MaxSavedIds
Settled(t, R, M, S) ==
    /\ t \in Sock /\ Rfc(t) /\ Fits(t) /\ Served(t, R, S) /\ Known(t, R \cup t.out)
    /\ Noted(t, R, M)
Backed(t, R, M, S) == Settled(t, R, M, S) /\ Awaited(t, R, M, S) /\ Agreed(t)

\* Two sockets that agree on what this is about, transactions aside
Alike(t, u) ==
    /\ u.compat = t.compat /\ u.channels = t.channels /\ u.cur = t.cur
    /\ u.curmsg = t.curmsg /\ u.used = t.used /\ u.out = t.out /\ u.again = t.again

\* A request is made for a claim.
LEMMA ClaimFits ==
  ASSUME NEW t, NEW c, NEW p, Agreed(t), Claim(t, c, p)
  PROVE  Fitting(t, c, p)
  BY DEF Agreed, Claim, Fitting

\* What claims less does not contradict itself either.
LEMMA LessAgreed ==
  ASSUME NEW t, NEW u, Agreed(t), t.again \subseteq u.again,
         \A c, p : Claim(u, c, p) => Claim(t, c, p)
  PROVE  Agreed(u)
  BY DEF Agreed

LEMMA ClearMore ==
  ASSUME NEW S, NEW R, NEW O, NEW q, NEW c, NEW p, Clear(S, R, O, c, p),
         q.msg.method = "CHANNELBIND" /\ q.channel = c => q.peer = p
  PROVE  Clear(S, R, O \cup {q}, c, p)
<1>1. ASSUME NEW r \in Binds(R \cup (O \cup {q}), c), r.peer # p
      PROVE  S.bound[c] = p /\ r \in S.older /\ r \notin O \cup {q}
  <2>1. r # q /\ r \in Binds(R \cup O, c)
    BY <1>1 DEF Binds
  <2> QED
    BY <1>1, <2>1 DEF Clear
<1> QED
  BY <1>1 DEF Clear

LEMMA AlikeBacked ==
  ASSUME NEW R, NEW M, NEW S, NEW t, Backed(t, R, M, S), NEW u \in Sock, Alike(t, u),
         u.agent.sent \subseteq t.agent.sent
  PROVE  Backed(u, R, M, S) /\ FreeIds(t) \subseteq FreeIds(u)
<1>1. Fits(u)
  <2>1. IsFiniteSet(u.agent.sent) /\ Cardinality(u.agent.sent) <= Cardinality(t.agent.sent)
    BY FS_Subset DEF Backed, Settled, Fits
  <2>2. Cardinality(u.agent.sent) \in Nat /\ Cardinality(t.agent.sent) \in Nat
    BY <2>1, FS_CardinalityType DEF Backed, Settled, Fits
  <2> QED
    BY <2>1, <2>2, SavedIdsAssumption DEF Backed, Settled, Fits
<1>2. Rfc(u) /\ Served(u, R, S) /\ Known(u, R \cup u.out) /\ Noted(u, R, M) /\ Awaited(u, R, M, S)
  BY DEF Alike, Backed, Settled, Rfc, Served, Known, Noted, Awaited
<1>3. FreeIds(t) \subseteq FreeIds(u)
  BY DEF FreeIds, Alike
<1>4. Agreed(u)
  BY LessAgreed DEF Alike, Backed, Claim
<1> QED
  BY <1>1, <1>2, <1>3, <1>4 DEF Backed, Settled

\* What the requests of a call keep
After(t, u, R, M, S) == Backed(u, R, M, S) /\ TakesOne(t, u)

LEMMA RequestChannel ==
  ASSUME NEW t, NEW method, NEW peer, NEW channel, NEW attrs
  PROVE  Request(t, method, peer, channel, attrs).msg.req.channel = channel
  BY DEF Request

\* A request is made: it has an id that no message of the server has.
LEMMA RequestBacked ==
  ASSUME NEW R, NEW M, NEW S, NEW t, Settled(t, R, M, S), Left1(t), NEW method \in Methods,
         NEW peer \in Peers, NEW channel \in Nat \cup {None}, NEW attrs \in SUBSET Attributes,
         method = "CHANNELBIND" => Fitting(t, channel, peer)
  PROVE  LET r == Request(t, method, peer, channel, attrs)
         IN  /\ r.ok \in BOOLEAN /\ (~r.ok => r.t = t)
             /\ r.ok <=> Cardinality(t.agent.sent) < MaxSavedIds
             /\ r.ok => /\ Settled(r.t, R, M, S) /\ TakesOne(t, r.t)
                        /\ r.t.cur = t.cur /\ r.t.curmsg = t.curmsg /\ r.t.channels = t.channels
                        /\ r.t.pending = t.pending /\ r.t.permmsgs = t.permmsgs
                        /\ r.t.again = t.again /\ r.t.out = t.out \cup {r.msg.req}
                        /\ r.msg \in TurnMessage /\ r.msg.req.msg.method = method
                        /\ r.msg.req.peer = peer /\ r.msg.req.channel = channel
                        /\ r.msg.req.msg.id \in r.t.used
                        /\ \A m \in M : m.msg.id # r.msg.req.msg.id
                        /\ \A q \in R \cup r.t.out :
                              q.msg.id = r.msg.req.msg.id => q = r.msg.req
<1> DEFINE r == Request(t, method, peer, channel, attrs)
           u == r.t
           i == FreshId(t)
           q == r.msg.req
<1>1. t \in Sock
  BY DEF Settled
<1>2. /\ r.ok \in BOOLEAN /\ (r.ok <=> Cardinality(t.agent.sent) < MaxSavedIds)
      /\ ~r.ok => r.t = t
      /\ r.ok => Requested(t, r, i, method, peer, attrs)
  BY <1>1, RequestMade
<1>3. i \in Ids /\ i \in Nat /\ i \notin t.used /\ \A x \in t.agent.sent : x.id # i
  BY FreshIdFree
<1>4. q.channel = channel
  BY RequestChannel
<1> HIDE DEF r, i
<1> SUFFICES ASSUME r.ok
             PROVE  /\ Settled(u, R, M, S) /\ TakesOne(t, u)
                    /\ u.cur = t.cur /\ u.curmsg = t.curmsg /\ u.channels = t.channels
                    /\ u.pending = t.pending /\ u.permmsgs = t.permmsgs
                    /\ u.again = t.again /\ u.out = t.out \cup {q}
                    /\ r.msg \in TurnMessage /\ q.msg.method = method
                    /\ q.peer = peer /\ q.msg.id \in u.used
                    /\ \A m \in M : m.msg.id # q.msg.id
                    /\ \A p \in R \cup u.out : p.msg.id = q.msg.id => p = q
  BY <1>2, <1>4 DEF r
<1>5. PICK x \in Transaction :
         /\ x.id = i /\ x.method = method
         /\ u = [t EXCEPT !.agent = [t.agent EXCEPT !.sent = @ \cup {x}],
                          !.used = @ \cup {i}, !.out = @ \cup {q}]
  BY <1>2 DEF Requested
<1>6. /\ r.msg \in TurnMessage /\ q.msg.id = i /\ q.msg.method = method /\ q \in Req
      /\ q.peer = peer
  BY <1>2 DEF Requested, TurnMessage
<1> DEFINE A == [t.agent EXCEPT !.sent = @ \cup {x}]
           B == t.used \cup {i}
           C == t.out \cup {q}
<1>7. A \in StunAgents /\ A.sent = t.agent.sent \cup {x} /\ B \in SUBSET Nat /\ C \in SUBSET Req
  <2> HIDE DEF u, q
  <2>1. /\ t.agent \in StunAgents /\ t.agent.sent \in SUBSET Transaction
        /\ t.used \in SUBSET Nat /\ t.out \in SUBSET Req
    BY <1>1, SockFields
  <2>2. t.agent.sent \cup {x} \in SUBSET Transaction
    BY <1>5, <2>1
  <2>3. A \in StunAgents /\ A.sent = t.agent.sent \cup {x}
    BY <2>1, <2>2 DEF StunAgents
  <2> QED
    BY <1>3, <1>6, <2>1, <2>3
<1>8. u = [t EXCEPT !.agent = A, !.used = B, !.out = C]
  BY <1>5
<1> HIDE DEF A, u, q
<1>9. /\ u \in Sock /\ u.compat = t.compat /\ u.agent = A /\ u.used = B /\ u.out = C
      /\ u.cur = t.cur /\ u.curmsg = t.curmsg /\ u.channels = t.channels
      /\ u.pending = t.pending /\ u.permmsgs = t.permmsgs /\ u.again = t.again
  <2> HIDE DEF B, C
  <2> QED
    BY <1>1, <1>7, <1>8 DEF Sock
<1>10. Fits(u)
  <2>1. IsFiniteSet(t.agent.sent) /\ Cardinality(t.agent.sent) \in Nat
    BY FS_CardinalityType DEF Settled, Fits
  <2> DEFINE D == t.agent.sent
  <2>2. u.agent.sent = D \cup {x}
    BY <1>7, <1>9
  <2> HIDE DEF D
  <2>3. /\ IsFiniteSet(D \cup {x})
        /\ Cardinality(D \cup {x}) = Cardinality(D) \/ Cardinality(D \cup {x}) = Cardinality(D) + 1
    BY <2>1, FS_AddElement DEF D
  <2> QED
    BY <1>2, <2>1, <2>2, <2>3, SavedIdsAssumption DEF Fits, D
<1>11. Rfc(u) /\ Served(u, R, S)
  <2>1. ASSUME NEW k \in DOMAIN t.channels, t.channels[k].channel \in Channels \ t.again
        PROVE  Clear(S, R, t.out \cup {q}, t.channels[k].channel, t.channels[k].peer)
    <3>1. Clear(S, R, t.out, t.channels[k].channel, t.channels[k].peer)
      BY <2>1 DEF Settled, Served
    <3>2. q.msg.method = "CHANNELBIND" /\ q.channel = t.channels[k].channel
            => q.peer = t.channels[k].peer
      BY <1>4, <1>6, <2>1 DEF Fitting, q
    <3> QED
      BY <3>1, <3>2, ClearMore
  <2>2. u.out = t.out \cup {q} /\ u.channels = t.channels /\ u.again = t.again
    BY <1>9 DEF C
  <2>3. Served(u, R, S)
    <3> HIDE DEF C
    <3> QED
      BY <2>1, <2>2 DEF Served
  <2> QED
    BY <1>9, <2>3 DEF Settled, Rfc
<1>12. Known(u, R \cup u.out)
  BY <1>3, <1>6, <1>9 DEF Settled, Known, Noted
<1>13. Noted(u, R, M)
  BY <1>6, <1>9 DEF Settled, Noted
<1>14. TakesOne(t, u)
  <2>1. FreeIds(t) \ {i} \subseteq FreeIds(u)
    BY <1>5, <1>7, <1>9 DEF FreeIds
  <2> QED
    BY <2>1 DEF TakesOne
<1>15. (\A m \in M : m.msg.id # q.msg.id) /\ \A p \in R \cup u.out : p.msg.id = q.msg.id => p = q
  BY <1>3, <1>6, <1>9 DEF Settled, Noted
<1>16. q.msg.id \in u.used
  BY <1>6, <1>9
<1>17. Settled(u, R, M, S)
  BY <1>9, <1>10, <1>11, <1>12, <1>13 DEF Settled
<1> QED
  BY <1>6, <1>9, <1>14, <1>15, <1>16, <1>17 DEF C

LEMMA TickAlike ==
  ASSUME NEW t \in Sock
  PROVE  LET u == ScheduleTick(t)
         IN  /\ u \in Sock /\ Alike(t, u) /\ u.agent = t.agent /\ u.pending = t.pending
             /\ u.permmsgs = t.permmsgs
<1> DEFINE u == ScheduleTick(t)
<1>1. (t.curmsg # None) \in BOOLEAN /\ (t.permmsgs # <<>>) \in BOOLEAN
  OBVIOUS
<1>2. u = [t EXCEPT !.tickBind = t.curmsg # None, !.tickPerm = t.permmsgs # <<>>]
  BY DEF ScheduleTick
<1> DEFINE x == t.curmsg # None
           y == t.permmsgs # <<>>
<1>3. u = [t EXCEPT !.tickBind = x, !.tickPerm = y]
  BY <1>2
<1> HIDE DEF u, x, y
<1>4. x \in BOOLEAN /\ y \in BOOLEAN
  BY <1>1 DEF x, y
<1>5. /\ u \in Sock /\ u.compat = t.compat /\ u.agent = t.agent /\ u.used = t.used
      /\ u.out = t.out /\ u.cur = t.cur /\ u.curmsg = t.curmsg
      /\ u.channels = t.channels /\ u.pending = t.pending /\ u.permmsgs = t.permmsgs
      /\ u.again = t.again
  BY <1>3, <1>4 DEF Sock
<1>6. Alike(t, u)
  BY <1>5 DEF Alike
<1> QED
  BY <1>5, <1>6 DEF u

LEMMA SettledAlike ==
  ASSUME NEW R, NEW M, NEW S, NEW t, Settled(t, R, M, S), NEW u \in Sock, Alike(t, u),
         u.agent = t.agent
  PROVE  Settled(u, R, M, S) /\ FreeIds(u) = FreeIds(t)
<1>1. /\ Rfc(u) /\ Fits(u) /\ Served(u, R, S) /\ Known(u, R \cup u.out) /\ Noted(u, R, M)
  BY DEF Alike, Settled, Rfc, Fits, Served, Known, Noted
<1>2. FreeIds(u) = FreeIds(t)
  BY DEF FreeIds, Alike
<1> QED
  BY <1>1, <1>2 DEF Settled

\* The ChannelBind request m becomes the binding request.
LEMMA MessageSettled ==
  ASSUME NEW R, NEW M, NEW S, NEW t, Settled(t, R, M, S), NEW m \in TurnMessage,
         m.req.msg.method = "CHANNELBIND", m.req.msg.id \in t.used,
         \A q \in R \cup t.out : q.msg.id = m.req.msg.id => q = m.req
  PROVE  LET u == priv_send_turn_message(t, m)
         IN  /\ Settled(u, R, M, S) /\ FreeIds(u) = FreeIds(t)
             /\ u.cur = t.cur /\ u.channels = t.channels /\ u.pending = t.pending
             /\ u.permmsgs = t.permmsgs /\ u.curmsg = m /\ u.again = t.again
<1> DEFINE b == [t EXCEPT !.curmsg = m, !.late = FALSE]
           u == priv_send_turn_message(t, m)
<1>1. t \in Sock
  BY DEF Settled
<1>2. /\ b \in Sock /\ b.curmsg = m /\ b.agent = t.agent /\ b.used = t.used /\ b.out = t.out
      /\ b.channels = t.channels /\ b.cur = t.cur /\ b.pending = t.pending
      /\ b.compat = t.compat /\ b.permmsgs = t.permmsgs /\ b.again = t.again
  BY <1>1 DEF Sock
<1>3. u = ScheduleTick(b)
  BY DEF priv_send_turn_message
<1> HIDE DEF b, u
<1>4. Settled(b, R, M, S) /\ FreeIds(b) = FreeIds(t)
  <2>1. /\ Rfc(b) /\ Fits(b) /\ Served(b, R, S) /\ Known(b, R \cup b.out) /\ Noted(b, R, M)
    BY <1>2 DEF Settled, Rfc, Fits, Served, Known, Noted
  <2> QED
    BY <1>2, <2>1 DEF Settled, FreeIds
<1>5. u \in Sock /\ Alike(b, u) /\ u.agent = b.agent /\ u.pending = b.pending
      /\ u.permmsgs = b.permmsgs
  BY <1>2, <1>3, TickAlike
<1>6. Settled(u, R, M, S) /\ FreeIds(u) = FreeIds(b)
  BY <1>4, <1>5, SettledAlike
<1> QED
  BY <1>2, <1>4, <1>5, <1>6 DEF u, Alike

\* A ChannelBind request that was made: no answer to it is on its way.
Asks(t, u, M, channel, peer) ==
    /\ u.cur = t.cur /\ u.channels = t.channels /\ u.pending = t.pending
    /\ u.permmsgs = t.permmsgs /\ u.again = t.again /\ TakesOne(t, u)
    /\ u.curmsg # None /\ u.curmsg.req.channel = channel /\ u.curmsg.req.peer = peer
    /\ \A m \in M : m.msg.id # u.curmsg.req.msg.id

\* ... if the agent has room for its transaction.
BindAsked(t, r, R, M, S, channel, peer) ==
    /\ r = [ok |-> r.ok, t |-> r.t] /\ r.ok \in BOOLEAN /\ (~r.ok => r.t = t)
    /\ r.ok <=> Cardinality(t.agent.sent) < MaxSavedIds
    /\ r.ok => Settled(r.t, R, M, S) /\ Asks(t, r.t, M, channel, peer)

LEMMA BindSettled ==
  ASSUME NEW R, NEW M, NEW S, NEW t, Settled(t, R, M, S), Left1(t), NEW realm,
         NEW channel \in Nat, NEW peer \in Peers, Fitting(t, channel, peer)
  PROVE  LET r == priv_send_channel_bind(t, realm, channel, peer)
         IN  BindAsked(t, r, R, M, S, channel, peer)
<1> DEFINE attrs == IF realm THEN {"REALM", "NONCE"} ELSE {}
           q == Request(t, "CHANNELBIND", peer, channel, attrs)
           r == priv_send_channel_bind(t, realm, channel, peer)
<1>1. attrs \in SUBSET Attributes /\ "CHANNELBIND" \in Methods
  BY DEF Attributes, Methods
<1>2. r = [ok |-> q.ok, t |-> IF q.ok THEN priv_send_turn_message(q.t, q.msg) ELSE t]
  BY DEF priv_send_channel_bind
<1> HIDE DEF attrs, r
<1>3. /\ q.ok \in BOOLEAN /\ (~q.ok => q.t = t)
      /\ q.ok <=> Cardinality(t.agent.sent) < MaxSavedIds
      /\ q.ok => /\ Settled(q.t, R, M, S) /\ TakesOne(t, q.t)
                 /\ q.t.cur = t.cur /\ q.t.curmsg = t.curmsg /\ q.t.channels = t.channels
                 /\ q.t.pending = t.pending /\ q.t.permmsgs = t.permmsgs
                 /\ q.t.again = t.again
                 /\ q.msg \in TurnMessage /\ q.msg.req.msg.method = "CHANNELBIND"
                 /\ q.msg.req.peer = peer /\ q.msg.req.channel = channel
                 /\ q.msg.req.msg.id \in q.t.used
                 /\ \A m \in M : m.msg.id # q.msg.req.msg.id
                 /\ \A p \in R \cup q.t.out : p.msg.id = q.msg.req.msg.id => p = q.msg.req
  BY <1>1, RequestBacked
<1> HIDE DEF q
<1>4. CASE q.ok
  <2> DEFINE u == priv_send_turn_message(q.t, q.msg)
  <2>1. /\ Settled(u, R, M, S) /\ FreeIds(u) = FreeIds(q.t)
        /\ u.cur = q.t.cur /\ u.channels = q.t.channels /\ u.pending = q.t.pending
        /\ u.permmsgs = q.t.permmsgs /\ u.curmsg = q.msg /\ u.again = q.t.again
    BY <1>3, <1>4, MessageSettled
  <2>2. r.t = u /\ r.ok = q.ok
    BY <1>2, <1>4
  <2> HIDE DEF u
  <2>3. Asks(t, u, M, channel, peer)
    BY <1>3, <1>4, <2>1, TakesOneSame, TurnAssumption DEF Asks
  <2> QED
    BY <1>2, <1>3, <1>4, <2>1, <2>2, <2>3 DEF BindAsked, r
<1>5. CASE ~q.ok
  <2>1. r.t = t /\ r.ok = q.ok
    BY <1>2, <1>5
  <2> QED
    BY <1>2, <1>3, <1>5, <2>1 DEF BindAsked, r
<1> QED
  BY <1>3, <1>4, <1>5

\* The request made is that of the binding to come, if there is one, or was
\* the first of it.
LEMMA AsksAwaits ==
  ASSUME NEW R, NEW M, NEW S, NEW t, NEW u, NEW channel, NEW peer, Asks(t, u, M, channel, peer),
         t.cur # None => t.cur.channel = channel /\ t.cur.peer = peer,
         Agreed(t), Fitting(t, channel, peer)
  PROVE  Awaited(u, R, M, S) /\ Agreed(u)
<1>1. Awaited(u, R, M, S)
  BY DEF Asks, Awaited
<1>2. ASSUME NEW c, NEW p, Claim(u, c, p)
      PROVE  Claim(t, c, p) \/ (c = channel /\ p = peer)
  BY <1>2 DEF Asks, Claim
<1>3. ASSUME NEW p, channel \notin t.again, Claim(u, channel, p)
      PROVE  p = peer
  BY <1>3 DEF Asks, Claim, Fitting
<1>4. Agreed(u)
  <2> SUFFICES ASSUME NEW c, NEW p, NEW o, c \notin u.again, Claim(u, c, p), Claim(u, c, o)
               PROVE  p = o
    BY DEF Agreed
  <2>1. c \notin t.again
    BY DEF Asks
  <2>2. CASE c = channel
    BY <1>3, <2>1, <2>2
  <2>3. CASE c # channel
    BY <1>2, <2>1, <2>3 DEF Agreed
  <2> QED
    BY <2>2, <2>3
<1> QED
  BY <1>1, <1>4

LEMMA CurSettled ==
  ASSUME NEW R, NEW M, NEW S, NEW t, Settled(t, R, M, S), NEW b \in ChannelBinding \cup {None}
  PROVE  LET u == [t EXCEPT !.cur = b]
         IN  /\ Settled(u, R, M, S) /\ FreeIds(u) = FreeIds(t) /\ u.cur = b
             /\ u.curmsg = t.curmsg /\ u.pending = t.pending /\ u.agent = t.agent
             /\ u.channels = t.channels /\ u.again = t.again /\ u.out = t.out
<1> DEFINE u == [t EXCEPT !.cur = b]
<1>1. t \in Sock
  BY DEF Settled
<1>2. u \in Sock
  BY <1>1, SockUpdates
<1>3. /\ u.compat = t.compat /\ u.agent = t.agent /\ u.curmsg = t.curmsg
      /\ u.channels = t.channels /\ u.pending = t.pending /\ u.used = t.used /\ u.out = t.out
      /\ u.cur = b /\ u.again = t.again
  BY <1>1 DEF Sock
<1> HIDE DEF u
<1>4. Rfc(u) /\ Fits(u) /\ Served(u, R, S) /\ Known(u, R \cup u.out) /\ Noted(u, R, M)
  BY <1>3 DEF Settled, Rfc, Fits, Served, Known, Noted
<1> QED
  BY <1>2, <1>3, <1>4 DEF Settled, FreeIds, u

LEMMA PendingSettled ==
  ASSUME NEW R, NEW M, NEW S, NEW t, Backed(t, R, M, S), NEW q \in Seq(Peers)
  PROVE  LET u == [t EXCEPT !.pending = q]
         IN  Backed(u, R, M, S) /\ FreeIds(u) = FreeIds(t) /\ u.pending = q
<1> DEFINE u == [t EXCEPT !.pending = q]
<1>1. t \in Sock
  BY DEF Backed, Settled
<1>2. u \in Sock
  BY <1>1, SockUpdates
<1>3. Alike(t, u) /\ u.agent = t.agent /\ u.pending = q
  BY <1>1 DEF Sock, Alike
<1> HIDE DEF u
<1>4. Backed(u, R, M, S) /\ FreeIds(u) = FreeIds(t)
  BY <1>2, <1>3, AlikeBacked, SettledAlike DEF Backed
<1> QED
  BY <1>3, <1>4 DEF u

\* z is as s, of a socket t whose history of numbers given again is A.
Apart(t, A, s, z) ==
    /\ z.ok = s.ok /\ (s.ok => z.t = [s.t EXCEPT !.again = A])
    /\ s = [ok |-> s.ok, t |-> s.t] /\ s.ok \in BOOLEAN /\ (~s.ok => s.t = t)
    /\ s.ok => s.t \in Sock /\ s.t.again = t.again

\* What is sent leaves a socket a socket.
LEMMA SentType ==
  ASSUME NEW v \in Sock, NEW m \in TurnMessage \cup {None}, NEW a \in BOOLEAN, NEW b \in BOOLEAN
  PROVE  [v EXCEPT !.curmsg = m, !.late = FALSE, !.tickBind = a, !.tickPerm = b] \in Sock
BY DEF Sock

\* The history of the numbers given again does not matter to a request.
LEMMA BindAgain ==
  ASSUME NEW t \in Sock, NEW A \in SUBSET Nat, NEW channel \in Nat, NEW peer \in Peers,
         Left1(t)
  PROVE  LET w == [t EXCEPT !.again = A]
             s == priv_send_channel_bind(t, FALSE, channel, peer)
             z == priv_send_channel_bind(w, FALSE, channel, peer)
         IN  Apart(t, A, s, z)
<1> DEFINE w == [t EXCEPT !.again = A]
           m == stun_agent_init_message(t.agent, "REQUEST", "CHANNELBIND", FreshId(t),
                                        {"USERNAME"})
           f == stun_agent_finish_message(t.agent, m, t.key)
           r == [msg |-> f.msg, peer |-> peer, channel |-> channel]
           n == [req |-> r, left |-> MaxRetrans]
           x == Request(t, "CHANNELBIND", peer, channel, {})
           y == Request(w, "CHANNELBIND", peer, channel, {})
           s == priv_send_channel_bind(t, FALSE, channel, peer)
           z == priv_send_channel_bind(w, FALSE, channel, peer)
<1>1. w \in Sock /\ w.agent = t.agent /\ w.key = t.key /\ w.used = t.used /\ w.out = t.out
  BY DEF Sock
<1>2. FreshId(w) = FreshId(t)
  BY <1>1 DEF FreshId, FreeIds
<1> HIDE DEF w
<1>3. {} \cup {"USERNAME"} = {"USERNAME"}
  OBVIOUS
<1>4. x = [ok |-> f.ok, msg |-> n,
           t |-> IF ~f.ok THEN t
                 ELSE [t EXCEPT !.agent = f.agent, !.used = @ \cup {r.msg.id}, !.out = @ \cup {r}]]
  BY <1>3, Zenon DEF Request
<1>5. y = [ok |-> f.ok, msg |-> n,
           t |-> IF ~f.ok THEN w
                 ELSE [w EXCEPT !.agent = f.agent, !.used = @ \cup {r.msg.id}, !.out = @ \cup {r}]]
  BY <1>1, <1>2, <1>3, Zenon DEF Request
<1>6. s = [ok |-> x.ok, t |-> IF x.ok THEN priv_send_turn_message(x.t, x.msg) ELSE t]
  BY DEF priv_send_channel_bind
<1>7. z = [ok |-> y.ok, t |-> IF y.ok THEN priv_send_turn_message(y.t, y.msg) ELSE w]
  BY DEF priv_send_channel_bind
<1>8. /\ x.ok \in BOOLEAN
      /\ x.ok => /\ x.t \in Sock /\ x.t.again = t.again /\ n \in TurnMessage
                 /\ y.t = [x.t EXCEPT !.again = A]
  <2>1. "CHANNELBIND" \in Methods /\ {} \in SUBSET Attributes
    BY DEF Methods
  <2>2. /\ x.ok \in BOOLEAN
        /\ x.ok => Requested(t, x, FreshId(t), "CHANNELBIND", peer, {})
    BY <2>1, RequestMade
  <2>3. x.msg = n /\ x.ok = f.ok
    BY <1>4
  <2> DEFINE a == f.agent
             b == t.used \cup {r.msg.id}
             o == t.out \cup {r}
             u == x.t
             e == y.t
  <2>4. f.ok => u = [t EXCEPT !.agent = a, !.used = b, !.out = o]
    BY <1>4
  <2>5. f.ok => e = [w EXCEPT !.agent = a, !.used = b, !.out = o]
    <3> HIDE DEF f, r
    <3> QED
      BY <1>1, <1>5
  <2> SUFFICES ASSUME x.ok
               PROVE  u \in Sock /\ u.again = t.again /\ n \in TurnMessage /\ e = [u EXCEPT !.again = A]
    BY <2>2
  <2> HIDE DEF x, y, f
  <2>6. n \in TurnMessage /\ n.req \in Req /\ n.req = r
    <3>1. n.req = r
      OBVIOUS
    <3> HIDE DEF n
    <3> QED
      BY <2>2, <2>3, <3>1 DEF Requested, TurnMessage
  <2>7. r \in Req /\ r.msg.id \in Nat
    <3> HIDE DEF n, r
    <3> QED
      BY <2>6 DEF Req, Message
  <2>8. b \in SUBSET Nat /\ o \in SUBSET Req
    BY <2>7, SockFields
  <2>9. a \in StunAgents
    <3> HIDE DEF b, o, u, n, r
    <3>1. PICK g \in Transaction : x.t = [t EXCEPT !.agent = [t.agent EXCEPT !.sent = @ \cup {g}],
                             !.used = @ \cup {FreshId(t)}, !.out = @ \cup {x.msg.req}]
      BY <2>2 DEF Requested
    <3> DEFINE h == [t.agent EXCEPT !.sent = @ \cup {g}]
    <3>2. u = [t EXCEPT !.agent = h, !.used = @ \cup {FreshId(t)}, !.out = @ \cup {x.msg.req}]
      BY <3>1 DEF u
    <3>3. h \in StunAgents
      <4>1. t.agent \in StunAgents
        BY SockFields
      <4>2. t.agent.sent \cup {g} \in SUBSET Transaction
        BY <4>1 DEF StunAgents
      <4> QED
        BY <4>1, <4>2 DEF StunAgents
    <3> HIDE DEF h, a
    <3>4. u.agent = h
      BY <3>2 DEF Sock
    <3>5. u.agent = a
      BY <2>3, <2>4 DEF Sock
    <3> QED
      BY <3>3, <3>4, <3>5
  <2> HIDE DEF a, b, o, u, e
  <2>10. w = [t EXCEPT !.again = A]
    BY DEF w
  <2>11. u \in Sock /\ u.again = t.again /\ e = [u EXCEPT !.again = A]
    <3>1. u = [t EXCEPT !.agent = a, !.used = b, !.out = o]
      BY <2>3, <2>4
    <3>2. e = [[t EXCEPT !.again = A] EXCEPT !.agent = a, !.used = b, !.out = o]
      BY <2>3, <2>5, <2>10
    <3>3. u \in Sock /\ u.again = t.again
      BY <2>8, <2>9, <3>1 DEF Sock
    <3>4. e = [u EXCEPT !.again = A]
      BY <3>1, <3>2 DEF Sock
    <3> QED
      BY <3>3, <3>4
  <2> QED
    BY <2>6, <2>11
<1>10. y.ok = x.ok /\ x.msg = n /\ y.msg = n
  BY <1>4, <1>5
<1> HIDE DEF x, y, n
<1>11. ASSUME NEW v \in Sock
       PROVE  LET u == priv_send_turn_message(v, n)
              IN  /\ n \in TurnMessage => u \in Sock
                  /\ u.again = v.again
                  /\ priv_send_turn_message([v EXCEPT !.again = A], n) = [u EXCEPT !.again = A]
  <2> DEFINE a == n # None
             b == v.permmsgs # <<>>
             u == priv_send_turn_message(v, n)
             h == priv_send_turn_message([v EXCEPT !.again = A], n)
  <2>1. a \in BOOLEAN /\ b \in BOOLEAN
    OBVIOUS
  <2>2. u = [v EXCEPT !.curmsg = n, !.late = FALSE, !.tickBind = a, !.tickPerm = b]
    <3>1. [v EXCEPT !.curmsg = n, !.late = FALSE].curmsg = n
          /\ [v EXCEPT !.curmsg = n, !.late = FALSE].permmsgs = v.permmsgs
      BY DEF Sock
    <3> QED
      BY <3>1 DEF priv_send_turn_message, ScheduleTick
  <2>3. h = [v EXCEPT !.again = A, !.curmsg = n, !.late = FALSE, !.tickBind = a, !.tickPerm = b]
    <3> DEFINE e == [v EXCEPT !.again = A]
               k == [e EXCEPT !.curmsg = n, !.late = FALSE]
    <3>1. k.curmsg = n /\ k.permmsgs = v.permmsgs
      BY DEF Sock
    <3>2. h = [k EXCEPT !.tickBind = k.curmsg # None, !.tickPerm = k.permmsgs # <<>>]
      BY DEF priv_send_turn_message, ScheduleTick
    <3>3. h = [k EXCEPT !.tickBind = a, !.tickPerm = b]
      BY <3>1, <3>2
    <3> HIDE DEF a, b, h
    <3> QED
      BY <3>3
  <2> HIDE DEF a, b, u, h
  <2>4. ASSUME n \in TurnMessage PROVE u \in Sock
    <3>1. n \in TurnMessage \cup {None} /\ FALSE \in BOOLEAN
      BY <2>4
    <3> QED
      BY <2>1, <2>2, <3>1, SentType
  <2>5. u.again = v.again /\ h = [u EXCEPT !.again = A]
    BY <2>2, <2>3 DEF Sock
  <2> QED
    BY <2>4, <2>5 DEF u, h
<1>12. x.ok => /\ priv_send_turn_message(x.t, n) \in Sock
               /\ priv_send_turn_message(x.t, n).again = t.again
               /\ priv_send_turn_message(y.t, n) = [priv_send_turn_message(x.t, n) EXCEPT !.again = A]
  BY <1>8, <1>11
<1>13. /\ s.ok = x.ok /\ s = [ok |-> s.ok, t |-> s.t] /\ (~s.ok => s.t = t)
       /\ x.ok => s.t = priv_send_turn_message(x.t, n)
  <2> HIDE DEF s
  <2> QED
    BY <1>6, <1>10
<1>14. z.ok = x.ok /\ (x.ok => z.t = priv_send_turn_message(y.t, n))
  <2> HIDE DEF z
  <2> QED
    BY <1>7, <1>10
<1> HIDE DEF s, z
<1>15. Apart(t, A, s, z)
  BY <1>8, <1>12, <1>13, <1>14 DEF Apart
<1> QED
  BY <1>15 DEF s, z, w

\* What priv_add_channel_binding returns
AddedBacked(t, r, R, M, S) ==
    /\ r = [ok |-> r.ok, t |-> r.t] /\ r.ok \in BOOLEAN
    /\ After(t, r.t, R, M, S) /\ Len(r.t.pending) >= Len(t.pending)
    /\ ~r.ok => FreeIds(r.t) = FreeIds(t)

LEMMA AddBacked ==
  ASSUME NEW R, NEW M, NEW S, NEW t, Backed(t, R, M, S), Left1(t), NEW peer \in Peers
  PROVE  AddedBacked(t, priv_add_channel_binding(t, peer), R, M, S)
<1> DEFINE r == priv_add_channel_binding(t, peer)
<1>1. t \in Sock /\ t.pending \in Seq(Peers) /\ t.channels \in Seq(ChannelBinding) /\ Rfc(t)
  BY SockFields DEF Backed, Settled
<1>2. Len(t.pending) >= Len(t.pending)
  BY <1>1
<1>3. CASE t.cur # None
  <2> DEFINE q == Append(t.pending, peer)
             u == [t EXCEPT !.pending = q]
  <2>1. q \in Seq(Peers) /\ Len(q) >= Len(t.pending)
    BY <1>1
  <2>2. r = [ok |-> FALSE, t |-> u]
    BY <1>3 DEF priv_add_channel_binding
  <2> HIDE DEF q, r
  <2>3. Backed(u, R, M, S) /\ FreeIds(u) = FreeIds(t) /\ u.pending = q
    BY <2>1, PendingSettled
  <2> HIDE DEF u
  <2>4. AddedBacked(t, r, R, M, S)
    BY <2>1, <2>2, <2>3 DEF AddedBacked, After, TakesOne
  <2> QED
    BY <2>4 DEF r
<1>4. CASE t.cur = None
  <2> DEFINE c == FreeChannel(t.channels)
             s == priv_send_channel_bind(t, FALSE, c, peer)
             b == Binding(peer, c)
             A == t.again \cup Taken(t, c)
             w == [t EXCEPT !.again = A]
             z == priv_send_channel_bind(w, FALSE, c, peer)
             u == [z.t EXCEPT !.cur = b]
  <2>1. c \in Nat /\ b \in ChannelBinding \cup {None} /\ b.channel = c /\ b.peer = peer
    BY <1>1, FreeChannelNat, BindingType DEF Binding
  <2>2. /\ z.ok = s.ok /\ (s.ok => z.t = [s.t EXCEPT !.again = A])
        /\ s = [ok |-> s.ok, t |-> s.t] /\ s.ok \in BOOLEAN /\ (~s.ok => s.t = t)
        /\ s.ok => s.t \in Sock /\ s.t.again = t.again
    <3>1. A \in SUBSET Nat
      BY <1>1, TakenNat
    <3> HIDE DEF c, A
    <3>2. Apart(t, A, s, z)
      BY <1>1, <2>1, <3>1, BindAgain
    <3> HIDE DEF s, z
    <3> QED
      BY <3>2 DEF Apart
  <2>3. r = IF s.ok THEN [s EXCEPT !.t.cur = b, !.t.again = A] ELSE s
    <3>1. r = IF s.ok THEN [s EXCEPT !.t.cur = b, !.t.again = @ \cup Taken(t, c)] ELSE s
      BY <1>1, <1>4, BindingNamed
    <3> HIDE DEF c, s, b
    <3>2. s.ok => [s EXCEPT !.t.cur = b, !.t.again = @ \cup Taken(t, c)]
                    = [s EXCEPT !.t.cur = b, !.t.again = A]
      BY <2>2
    <3> QED
      BY <3>1, <3>2
  <2>4. CASE s.ok
    <3>1. w \in Sock /\ w.again = A /\ w.channels = t.channels /\ w.cur = None /\ w.agent = t.agent
          /\ w.curmsg = t.curmsg /\ w.used = t.used /\ w.out = t.out /\ w.compat = t.compat
          /\ w.pending = t.pending
      <4>1. A \in SUBSET Nat
        BY <1>1, TakenNat
      <4> HIDE DEF A
      <4> QED
        BY <1>1, <1>4, <4>1 DEF Sock
    <3>2. r = [ok |-> TRUE, t |-> u]
      <4> DEFINE e == s.t
                 v == [s.t EXCEPT !.cur = b, !.again = A]
      <4> HIDE DEF b, A, c, s, z, w, r
      <4>1. r = [ok |-> TRUE, t |-> v]
        BY <2>2, <2>3, <2>4
      <4>2. e \in Sock /\ z.t = [e EXCEPT !.again = A] /\ v = [e EXCEPT !.cur = b, !.again = A]
        BY <2>2, <2>4
      <4> HIDE DEF e, v
      <4>3. v = [[e EXCEPT !.again = A] EXCEPT !.cur = b]
        BY <4>2 DEF Sock
      <4>4. v = u
        BY <4>2, <4>3
      <4> QED
        BY <4>1, <4>4
    <3> HIDE DEF w
    <3>3. Settled(w, R, M, S) /\ Agreed(w) /\ FreeIds(w) = FreeIds(t)
      <4>1. t.again \subseteq w.again
        BY <3>1
      <4>2. Agreed(w)
        BY <3>1, <4>1, LessAgreed DEF Backed, Claim
      <4>3. Served(w, R, S)
        BY <3>1, <4>1 DEF Backed, Settled, Served
      <4>4. Rfc(w) /\ Fits(w) /\ Known(w, R \cup w.out) /\ Noted(w, R, M)
        BY <3>1 DEF Backed, Settled, Rfc, Fits, Known, Noted
      <4> QED
        BY <3>1, <4>2, <4>3, <4>4 DEF Settled, FreeIds
    <3>4. Fitting(w, c, peer)
      <4>1. \A k \in DOMAIN t.channels : t.channels[k].channel = c => c \in A
        <5>1. DOMAIN t.channels = 1..Len(t.channels)
          BY <1>1
        <5> HIDE DEF c
        <5> QED
          BY <5>1 DEF Taken
      <4> HIDE DEF A, c
      <4> QED
        BY <3>1, <4>1 DEF Fitting
    <3>5. Left1(w)
      BY <3>3 DEF Left1
    <3>6. Settled(z.t, R, M, S) /\ Asks(w, z.t, M, c, peer)
      <4>1. BindAsked(w, z, R, M, S, c, peer)
        BY <2>1, <3>3, <3>4, <3>5, BindSettled
      <4> HIDE DEF z, s
      <4> QED
        BY <2>2, <2>4, <4>1 DEF BindAsked
    <3> HIDE DEF c, b, z, A
    <3>7. Agreed(z.t)
      <4> DEFINE e == z.t
      <4> HIDE DEF e
      <4>1. Asks(w, e, M, c, peer)
        BY <3>6 DEF e
      <4>2. w.cur # None => w.cur.channel = c /\ w.cur.peer = peer
        BY <3>1
      <4>3. Agreed(e)
        BY <3>3, <3>4, <4>1, <4>2, AsksAwaits
      <4> QED
        BY <4>3 DEF e
    <3>8. /\ Settled(u, R, M, S) /\ FreeIds(u) = FreeIds(z.t) /\ u.cur = b
          /\ u.curmsg = z.t.curmsg /\ u.pending = z.t.pending /\ u.channels = z.t.channels
          /\ u.again = z.t.again
      BY <2>1, <3>6, CurSettled
    <3> HIDE DEF u
    <3>9. Awaited(u, R, M, S)
      BY <2>1, <3>6, <3>8 DEF Asks, Awaited
    <3>10. Agreed(u)
      <4>1. \A x, y : Claim(u, x, y) => Claim(z.t, x, y)
        BY <2>1, <3>6, <3>8 DEF Asks, Claim
      <4> QED
        BY <3>7, <3>8, <4>1, LessAgreed
    <3>11. TakesOne(t, u) /\ u.pending = t.pending
      BY <3>1, <3>3, <3>6, <3>8 DEF Asks, TakesOne
    <3>12. AddedBacked(t, r, R, M, S)
      BY <1>2, <3>2, <3>8, <3>9, <3>10, <3>11 DEF AddedBacked, After, Backed
    <3> QED
      BY <3>12 DEF r
  <2> HIDE DEF s
  <2>5. CASE ~s.ok
    <3> HIDE DEF c, b, A, r
    <3>1. r = [ok |-> FALSE, t |-> t]
      BY <2>2, <2>3, <2>5
    <3>2. AddedBacked(t, r, R, M, S)
      BY <1>2, <3>1 DEF AddedBacked, After, TakesOne
    <3> QED
      BY <3>2 DEF r
  <2> QED
    BY <2>2, <2>4, <2>5
<1> QED
  BY <1>3, <1>4

\* What holds after n rounds of the loop over the pending bindings
TriedBacked(t, n, s, R, M, S) ==
    /\ s \in [ok : BOOLEAN, t : Sock] /\ After(t, s.t, R, M, S)
    /\ ~s.ok => FreeIds(s.t) = FreeIds(t) /\ Len(s.t.pending) >= Len(t.pending) - n

LEMMA TriedOneBacked ==
  ASSUME NEW R, NEW M, NEW S, NEW t, Backed(t, R, M, S), Left1(t),
         NEW n \in 1 .. Len(t.pending), NEW s, TriedBacked(t, n - 1, s, R, M, S)
  PROVE  TriedBacked(t, n, Try(s), R, M, S)
<1> DEFINE N == Len(t.pending)
           u == s.t
           r == priv_add_channel_binding(u, Head(u.pending))
           q == Tail(r.t.pending)
           v == [r.t EXCEPT !.pending = q]
<1>1. N \in Nat /\ n \in Nat /\ n >= 1 /\ n <= N
  BY SockFields DEF Backed, Settled
<1>2. s \in [ok : BOOLEAN, t : Sock] /\ After(t, u, R, M, S) /\ u \in Sock
      /\ Len(u.pending) \in Nat /\ s.ok \in BOOLEAN
  BY SockFields DEF TriedBacked
<1>3. CASE s.ok
  BY <1>2, <1>3 DEF TriedBacked, Try
<1>4. CASE ~s.ok
  <2>1. FreeIds(u) = FreeIds(t) /\ Len(u.pending) >= N - (n - 1)
    BY <1>4 DEF TriedBacked
  <2>2. Head(u.pending) \in Peers /\ Len(u.pending) >= 1
    <3>1. Len(u.pending) >= 1
      BY <1>1, <1>2, <2>1
    <3> QED
      BY <1>2, <3>1, SockFields
  <2>3. Left1(u)
    BY <2>1 DEF Left1
  <2>4. AddedBacked(u, r, R, M, S)
    BY <1>2, <2>2, <2>3, AddBacked DEF After
  <2> HIDE DEF r
  <2>5. /\ r = [ok |-> r.ok, t |-> r.t] /\ r.ok \in BOOLEAN /\ After(u, r.t, R, M, S)
        /\ Len(r.t.pending) >= Len(u.pending) /\ (~r.ok => FreeIds(r.t) = FreeIds(u))
    BY <2>4 DEF AddedBacked
  <2>6. r.t \in Sock /\ r.t.pending \in Seq(Peers) /\ Len(r.t.pending) \in Nat
    BY <2>5, SockFields DEF After, Backed, Settled
  <2>7. q \in Seq(Peers) /\ Len(q) = Len(r.t.pending) - 1
    <3>1. Len(r.t.pending) >= 1
      BY <1>2, <2>2, <2>5, <2>6
    <3> QED
      BY <2>6, <3>1
  <2>8. Backed(v, R, M, S) /\ FreeIds(v) = FreeIds(r.t) /\ v.pending = q
    <3>1. Backed(r.t, R, M, S)
      BY <2>5 DEF After
    <3> DEFINE x == r.t
    <3> HIDE DEF x, q
    <3>2. LET y == [x EXCEPT !.pending = q]
          IN  Backed(y, R, M, S) /\ FreeIds(y) = FreeIds(x) /\ y.pending = q
      BY <2>7, <3>1, PendingSettled DEF x
    <3> QED
      BY <3>2 DEF x
  <2>9. Try(s) = [ok |-> r.ok, t |-> v]
    <3>1. Try(s) = [r EXCEPT !.t.pending = Tail(@)]
      BY <1>4 DEF Try, r
    <3> QED
      BY <2>5, <3>1
  <2> HIDE DEF v, q
  <2>10. After(t, v, R, M, S)
    BY <1>2, <2>1, <2>5, <2>8 DEF After, TakesOne
  <2>11. ~r.ok => FreeIds(v) = FreeIds(t) /\ Len(v.pending) >= N - n
    <3>1. Len(v.pending) >= N - n
      BY <1>1, <1>2, <2>1, <2>5, <2>6, <2>7, <2>8
    <3> QED
      BY <2>1, <2>5, <2>8, <3>1
  <2>12. v \in Sock
    BY <2>10 DEF After, Backed, Settled
  <2> HIDE DEF u
  <2> QED
    BY <2>5, <2>9, <2>10, <2>11, <2>12 DEF TriedBacked
<1> QED
  BY <1>2, <1>3, <1>4

LEMMA PendingBacked ==
  ASSUME NEW R, NEW M, NEW S, NEW t, Backed(t, R, M, S), Left1(t)
  PROVE  LET step[k \in 0..Len(t.pending)] ==
               IF k = 0 THEN [ok |-> FALSE, t |-> t] ELSE Try(step[k - 1])
         IN  TriedBacked(t, Len(t.pending), step[Len(t.pending)], R, M, S)
<1> DEFINE N == Len(t.pending)
           b == [ok |-> FALSE, t |-> t]
           D == [ok : BOOLEAN, t : Sock]
           Ok(k) == {s \in D : TriedBacked(t, k, s, R, M, S)}
           P == [k \in 0 .. N |-> Ok(k)]
           step[k \in 0..Len(t.pending)] ==
               IF k = 0 THEN [ok |-> FALSE, t |-> t] ELSE Try(step[k - 1])
<1>1. N \in Nat /\ t \in Sock
  BY SockFields DEF Backed, Settled
<1>2. b \in D /\ b.ok = FALSE /\ b.t = t
  BY <1>1
<1>3. TriedBacked(t, 0, b, R, M, S)
  <2>1. Len(t.pending) >= Len(t.pending) - 0
    BY <1>1
  <2> HIDE DEF D
  <2> QED
    BY <1>2, <2>1 DEF TriedBacked, D, After, TakesOne
<1>4. P \in [0 .. N -> SUBSET D] /\ b \in P[0]
  <2>1. 0 \in 0 .. N
    BY <1>1
  <2> HIDE DEF N, D
  <2> QED
    BY <1>2, <1>3, <2>1
<1>5. ASSUME NEW k \in 1 .. N, NEW s \in P[k - 1] PROVE Try(s) \in P[k]
  <2>1. k \in 0 .. N /\ k - 1 \in 0 .. N
    BY <1>1
  <2>2. TriedBacked(t, k - 1, s, R, M, S)
    <3> HIDE DEF N, D
    <3> QED
      BY <2>1
  <2>3. TriedBacked(t, k, Try(s), R, M, S)
    BY <2>2, TriedOneBacked
  <2>4. Try(s) \in D
    BY <2>3 DEF TriedBacked
  <2> HIDE DEF N, D
  <2> QED
    BY <2>1, <2>3, <2>4
<1>6. step[N] \in P[N]
  <2> HIDE DEF P, D
  <2> QED
    BY <1>1, <1>4, <1>5, PendingLoop
<1>7. TriedBacked(t, N, step[N], R, M, S)
  <2>1. N \in 0 .. N
    BY <1>1
  <2> HIDE DEF step, N, D
  <2> QED
    BY <1>6, <2>1
<1> QED
  BY <1>7 DEF step

LEMMA ProcessBacked ==
  ASSUME NEW R, NEW M, NEW S, NEW t, Backed(t, R, M, S), Left2(t)
  PROVE  Backed(priv_process_pending_bindings(t), R, M, S)
<1> DEFINE N == Len(t.pending)
           step[k \in 0..Len(t.pending)] ==
               IF k = 0 THEN [ok |-> FALSE, t |-> t] ELSE Try(step[k - 1])
           u == step[N].t
           renew == {i \in 1..Len(u.channels) : u.channels[i].renew}
           i == CHOOSE i \in renew : \A j \in renew : i <= j
           b == u.channels[i]
           s == priv_send_channel_bind(u, FALSE, b.channel, b.peer)
           more == u.pending = <<>> /\ u.curmsg = None /\ renew # {}
           v == priv_process_pending_bindings(t)
<1>1. TriedBacked(t, N, step[N], R, M, S)
  <2>1. Left1(t)
    BY LeftLess
  <2> QED
    BY <2>1, PendingBacked
<1>2. v = IF more THEN s.t ELSE u
  BY DEF priv_process_pending_bindings, Try
<1> HIDE DEF step, v
<1>3. After(t, u, R, M, S)
  BY <1>1 DEF TriedBacked
<1> HIDE DEF u
<1>4. CASE more
  <2>1. u \in Sock /\ u.channels \in Seq(ChannelBinding)
    BY <1>3, SockFields DEF After, Backed, Settled
  <2>2. i \in renew
    <3>1. renew \subseteq Nat /\ renew # {}
      BY <1>4, <2>1
    <3> HIDE DEF renew
    <3> QED
      BY <3>1, FirstOf
  <2>3. b \in ChannelBinding
    <3> HIDE DEF i
    <3> QED
      BY <2>1, <2>2
  <2>4. b.channel \in Nat /\ b.peer \in Peers
    BY <2>3 DEF ChannelBinding
  <2>9. Claim(u, b.channel, b.peer)
    <3> HIDE DEF i
    <3>1. i \in DOMAIN u.channels
      BY <2>1, <2>2
    <3> QED
      BY <3>1 DEF Claim
  <2> HIDE DEF b, i, renew
  <2>10. Agreed(u) /\ Fitting(u, b.channel, b.peer)
    BY <1>3, <2>9, ClaimFits DEF After, Backed
  <2>5. Left1(u)
    BY <1>3, IdsTaken DEF After
  <2>6. /\ ~s.ok => s.t = u
        /\ s.ok => Settled(s.t, R, M, S) /\ Asks(u, s.t, M, b.channel, b.peer)
    <3>1. Settled(u, R, M, S)
      BY <1>3 DEF After, Backed
    <3>2. b.channel \in Nat /\ b.peer \in Peers
      BY <2>4
    <3>3. BindAsked(u, s, R, M, S, b.channel, b.peer)
      BY <2>5, <2>10, <3>1, <3>2, BindSettled
    <3> HIDE DEF s
    <3> QED
      BY <3>3 DEF BindAsked
  <2> HIDE DEF s
  <2>7. u.cur = None
    BY <1>3, <1>4 DEF After, Backed, Awaited
  <2>8. Backed(s.t, R, M, S)
    BY <1>3, <2>6, <2>7, <2>10, AsksAwaits DEF After, Backed
  <2> QED
    BY <1>2, <1>4, <2>8 DEF v
<1>5. CASE ~more
  BY <1>2, <1>3, <1>5 DEF After, v
<1> QED
  BY <1>4, <1>5

LEMMA FitsLess ==
  ASSUME NEW t, Fits(t), NEW u, u.agent.sent \subseteq t.agent.sent
  PROVE  Fits(u)
<1>1. IsFiniteSet(u.agent.sent) /\ Cardinality(u.agent.sent) <= Cardinality(t.agent.sent)
  BY FS_Subset DEF Fits
<1>2. Cardinality(u.agent.sent) \in Nat /\ Cardinality(t.agent.sent) \in Nat
  BY <1>1, FS_CardinalityType DEF Fits
<1> QED
  BY <1>1, <1>2, SavedIdsAssumption DEF Fits

\* No binding request is outstanding, and no binding waits for one.
LEMMA DroppedBacked ==
  ASSUME NEW R, NEW M, NEW S, NEW t, Settled(t, R, M, S), NEW u \in Sock, u.compat = t.compat,
         u.used = t.used, u.out = t.out, u.agent.sent \subseteq t.agent.sent, Served(u, R, S),
         u.cur = None, u.curmsg = None, Agreed(u)
  PROVE  Backed(u, R, M, S) /\ FreeIds(t) \subseteq FreeIds(u)
<1>1. Fits(u)
  BY FitsLess DEF Settled
<1>2. Rfc(u) /\ Known(u, R \cup u.out) /\ Noted(u, R, M) /\ Awaited(u, R, M, S)
  BY DEF Settled, Rfc, Known, Noted, Awaited
<1>3. FreeIds(t) \subseteq FreeIds(u)
  BY DEF FreeIds
<1> QED
  BY <1>1, <1>2, <1>3 DEF Backed, Settled

LEMMA GiveUpBacked ==
  ASSUME NEW R, NEW M, NEW S, NEW t, Backed(t, R, M, S), Left2(t)
  PROVE  Backed(GiveUpBinding(t), R, M, S)
<1> DEFINE id == t.curmsg.req.msg.id
           A == stun_agent_forget_transaction(t.agent, id)
           u == [t EXCEPT !.agent = A, !.cur = None, !.curmsg = None]
<1>1. t \in Sock
  BY DEF Backed, Settled
<1>2. A \in StunAgents /\ A.sent \subseteq t.agent.sent
  BY <1>1, SockFields DEF stun_agent_forget_transaction, StunAgents
<1>3. GiveUpBinding(t) = priv_process_pending_bindings(u)
  <2>1. u = [t EXCEPT !.agent = stun_agent_forget_transaction(@, t.curmsg.req.msg.id),
                      !.cur = None, !.curmsg = None]
    BY <1>1 DEF Sock
  <2> QED
    BY <2>1 DEF GiveUpBinding
<1> HIDE DEF A, id
<1>4. /\ u \in Sock /\ u.curmsg = None /\ u.cur = None /\ u.agent = A /\ u.used = t.used
      /\ u.out = t.out /\ u.channels = t.channels /\ u.compat = t.compat /\ u.again = t.again
  BY <1>1, <1>2 DEF Sock
<1> HIDE DEF u
<1>5. Served(u, R, S) /\ Agreed(u)
  <2>1. \A c, p : Claim(u, c, p) => Claim(t, c, p)
    BY <1>4 DEF Claim
  <2>2. Agreed(u)
    BY <1>4, <2>1, LessAgreed DEF Backed
  <2> QED
    BY <1>4, <2>2 DEF Backed, Settled, Served
<1>6. Backed(u, R, M, S) /\ FreeIds(t) \subseteq FreeIds(u)
  BY <1>2, <1>4, <1>5, DroppedBacked DEF Backed
<1>7. Left2(u)
  BY <1>6, LeftMore
<1> QED
  BY <1>3, <1>6, <1>7, ProcessBacked

LEMMA TickBacked ==
  ASSUME NEW R, NEW M, NEW S, NEW t, Backed(t, R, M, S)
  PROVE  Backed(ScheduleTick(t), R, M, S)
<1>1. t \in Sock
  BY DEF Backed, Settled
<1>2. LET u == ScheduleTick(t) IN u \in Sock /\ Alike(t, u) /\ u.agent = t.agent
  BY <1>1, TickAlike
<1> QED
  BY <1>2, AlikeBacked

LEMMA ResendBacked ==
  ASSUME NEW R, NEW M, NEW S, NEW t, Backed(t, R, M, S), t.curmsg # None, t.curmsg.left > 0
  PROVE  Backed(ResendBinding(t), R, M, S)
<1> DEFINE m == Resent(t.curmsg)
           C == t.out \cup {t.curmsg.req}
           u == [t EXCEPT !.curmsg = m, !.out = C]
<1>1. t \in Sock /\ t.curmsg \in TurnMessage
  BY SockFields DEF Backed, Settled
<1>2. m \in TurnMessage /\ m.req = t.curmsg.req /\ m.req \in Req
  BY <1>1 DEF Resent, TurnMessage
<1>3. C \in SUBSET Req
  BY <1>1, <1>2, SockFields
<1>4. ResendBinding(t) = ScheduleTick(u)
  <2>1. u = [t EXCEPT !.curmsg = Resent(@), !.out = @ \cup {t.curmsg.req}]
    BY <1>1 DEF Sock
  <2> QED
    BY <2>1 DEF ResendBinding
<1> HIDE DEF m
<1>5. /\ u \in Sock /\ u.curmsg = m /\ u.agent = t.agent /\ u.used = t.used /\ u.cur = t.cur
      /\ u.out = C /\ u.channels = t.channels /\ u.compat = t.compat /\ u.again = t.again
  <2> HIDE DEF C
  <2> QED
    BY <1>1, <1>2, <1>3 DEF Sock
<1> HIDE DEF u
<1> DEFINE q == t.curmsg.req
<1>11. ASSUME NEW c, NEW p, c \notin t.again, Claim(t, c, p), Clear(S, R, t.out, c, p)
       PROVE  Clear(S, R, u.out, c, p)
  <2>1. Claim(t, q.channel, q.peer)
    BY DEF Claim
  <2>2. q.channel = c => q.peer = p
    BY <1>11, <2>1 DEF Backed, Agreed
  <2>3. u.out = t.out \cup {q}
    BY <1>5
  <2> HIDE DEF q
  <2> QED
    BY <1>11, <2>2, <2>3, ClearMore
<1> HIDE DEF C
<1>12. Served(u, R, S)
  <2> SUFFICES ASSUME NEW i \in DOMAIN u.channels, u.channels[i].channel \in Channels \ u.again
               PROVE  Clear(S, R, u.out, u.channels[i].channel, u.channels[i].peer)
    BY DEF Served
  <2>1. /\ Claim(t, u.channels[i].channel, u.channels[i].peer)
        /\ Clear(S, R, t.out, u.channels[i].channel, u.channels[i].peer)
    BY <1>5 DEF Claim, Backed, Settled, Served
  <2> QED
    BY <1>5, <1>11, <2>1
<1>6. Rfc(u) /\ Fits(u) /\ Served(u, R, S)
  BY <1>5, <1>12 DEF Backed, Settled, Rfc, Fits
<1>13. Agreed(u)
  <2>1. m # None
    BY <1>2, TurnAssumption
  <2>2. \A c, p : Claim(u, c, p) => Claim(t, c, p)
    BY <1>2, <1>5, <2>1 DEF Claim
  <2> QED
    BY <1>5, <2>2, LessAgreed DEF Backed
<1>7. Known(u, R \cup u.out)
  BY <1>2, <1>5 DEF Backed, Settled, Known, C
<1>8. Noted(u, R, M)
  BY <1>2, <1>5 DEF Backed, Settled, Noted, C
<1>9. Awaited(u, R, M, S)
  <2>1. m # None
    BY <1>2, TurnAssumption
  <2>2. t.cur # None => Claim(t, t.cur.channel, t.cur.peer)
    BY DEF Claim
  <2>3. t.cur # None /\ t.cur.channel \notin t.again
          /\ Clear(S, R, t.out, t.cur.channel, t.cur.peer)
        => Clear(S, R, u.out, t.cur.channel, t.cur.peer)
    BY <1>11, <2>2
  <2> QED
    BY <1>2, <1>5, <2>1, <2>3 DEF Backed, Awaited
<1>10. Backed(u, R, M, S)
  BY <1>5, <1>6, <1>7, <1>8, <1>9, <1>13 DEF Backed, Settled
<1> QED
  BY <1>4, <1>10, TickBacked

LEMMA LateTickBacked ==
  ASSUME NEW R, NEW M, NEW S, NEW t, Backed(t, R, M, S), Left2(t)
  PROVE  Backed(LateTick(t), R, M, S)
<1> DEFINE u == [t EXCEPT !.late = FALSE]
<1>1. CASE ~t.late \/ t.curmsg = None
  BY <1>1, TickBacked DEF LateTick
<1>2. CASE ~(~t.late \/ t.curmsg = None)
  <2>1. t \in Sock /\ t.curmsg # None
    BY <1>2 DEF Backed, Settled
  <2>2. u \in Sock
    BY <2>1, SockUpdates
  <2>3. Alike(t, u) /\ u.agent = t.agent /\ u.curmsg = t.curmsg
    BY <2>1 DEF Sock, Alike
  <2>4. LateTick(t) = IF t.curmsg.left > 0 THEN ResendBinding(u) ELSE ScheduleTick(GiveUpBinding(u))
    BY <1>2 DEF LateTick
  <2> HIDE DEF u
  <2>5. Backed(u, R, M, S) /\ Left2(u)
    BY <2>2, <2>3, AlikeBacked, LeftMore
  <2>6. CASE t.curmsg.left > 0
    BY <2>1, <2>3, <2>4, <2>5, <2>6, ResendBacked
  <2>7. CASE ~(t.curmsg.left > 0)
    BY <2>4, <2>5, <2>7, GiveUpBacked, TickBacked
  <2> QED
    BY <2>6, <2>7
<1> QED
  BY <1>1, <1>2

LEMMA PermissionBacked ==
  ASSUME NEW R, NEW M, NEW S, NEW t, Backed(t, R, M, S), Left3(t), NEW realm \in BOOLEAN,
         NEW peer \in Peers
  PROVE  Backed(priv_send_create_permission(t, realm, peer), R, M, S)
<1> DEFINE P == t.sentperms \cup {peer}
           u == [t EXCEPT !.sentperms = P]
           attrs == IF realm THEN {"REALM", "NONCE"} ELSE {}
           r == Request(u, "CREATEPERMISSION", peer, None, attrs)
           q == Append(r.t.permmsgs, r.msg)
           w == [r.t EXCEPT !.permmsgs = q]
           v == priv_send_create_permission(t, realm, peer)
<1>1. t \in Sock /\ P \in SUBSET Peers /\ attrs \in SUBSET Attributes
      /\ "CREATEPERMISSION" \in Methods
  BY SockFields DEF Backed, Settled, Attributes, Methods
<1>2. v = IF r.ok THEN LateTick(w) ELSE u
  <2>1. u = [t EXCEPT !.sentperms = @ \cup {peer}]
    BY <1>1 DEF Sock
  <2>2. w = [r.t EXCEPT !.permmsgs = Append(@, r.msg)]
    OBVIOUS
  <2> HIDE DEF w, q
  <2> QED
    BY <2>1, <2>2 DEF priv_send_create_permission
<1> HIDE DEF attrs, v, P
<1>3. u \in Sock /\ Alike(t, u) /\ u.agent = t.agent
  BY <1>1 DEF Sock, Alike
<1> HIDE DEF u
<1>4. Backed(u, R, M, S) /\ Left3(u) /\ Left1(u)
  <2>1. Backed(u, R, M, S) /\ FreeIds(t) \subseteq FreeIds(u)
    BY <1>3, AlikeBacked
  <2> QED
    BY <2>1, LeftMore, LeftLess
<1>5. /\ r.ok \in BOOLEAN
      /\ r.ok => /\ Settled(r.t, R, M, S) /\ TakesOne(u, r.t)
                 /\ r.t.cur = u.cur /\ r.t.curmsg = u.curmsg /\ r.t.channels = u.channels
                 /\ r.t.again = u.again /\ r.t.out = u.out \cup {r.msg.req}
                 /\ r.msg \in TurnMessage /\ r.msg.req.msg.method = "CREATEPERMISSION"
  <2>1. Settled(u, R, M, S)
    BY <1>4 DEF Backed
  <2>2. None \in Nat \cup {None} /\ "CREATEPERMISSION" # "CHANNELBIND" /\ Left1(u)
    BY <1>4
  <2> HIDE DEF r
  <2>3. /\ r.ok \in BOOLEAN
        /\ r.ok => /\ Settled(r.t, R, M, S) /\ TakesOne(u, r.t)
                   /\ r.t.cur = u.cur /\ r.t.curmsg = u.curmsg /\ r.t.channels = u.channels
                   /\ r.t.again = u.again /\ r.t.out = u.out \cup {r.msg.req}
                   /\ r.msg \in TurnMessage /\ r.msg.req.msg.method = "CREATEPERMISSION"
    BY <1>1, <1>2, <2>1, <2>2, RequestBacked DEF r
  <2> QED
    BY <2>3
<1> HIDE DEF r
<1>6. CASE r.ok
  <2>1. Backed(r.t, R, M, S) /\ Left2(r.t)
    <3>1. Awaited(r.t, R, M, S)
      <4>1. \A c, p : Clear(S, R, u.out, c, p) => Clear(S, R, r.t.out, c, p)
        BY <1>5, <1>6, ClearMore
      <4> QED
        BY <1>4, <1>5, <1>6, <4>1 DEF Backed, Awaited
    <3>2. Agreed(r.t)
      <4>1. \A c, p : Claim(r.t, c, p) => Claim(u, c, p)
        BY <1>5, <1>6 DEF Claim
      <4> QED
        BY <1>4, <1>5, <1>6, <4>1, LessAgreed DEF Backed
    <3> QED
      BY <1>4, <1>5, <1>6, <3>1, <3>2, IdsTaken DEF Backed
  <2>2. r.t \in Sock /\ q \in Seq(TurnMessage)
    BY <1>5, <1>6, <2>1, SockFields DEF Backed, Settled
  <2> HIDE DEF q
  <2>3. w \in Sock /\ Alike(r.t, w) /\ w.agent = r.t.agent
    <3>1. w \in Sock
      BY <2>2, SockUpdates
    <3> QED
      BY <2>2, <3>1 DEF Sock, Alike
  <2> HIDE DEF w
  <2>4. Backed(w, R, M, S) /\ Left2(w)
    BY <2>1, <2>3, AlikeBacked, LeftMore
  <2> QED
    BY <1>2, <1>6, <2>4, LateTickBacked DEF v
<1>7. CASE ~r.ok
  BY <1>2, <1>4, <1>7 DEF v
<1> QED
  BY <1>5, <1>6, <1>7

\* Data is handed out, a peer is permitted: nothing about channels.
LEMMA DataAlike ==
  ASSUME NEW t \in Sock, NEW peer \in Peers, NEW items \in Seq(Nat)
  PROVE  LET u == Emit(t, peer, items)
         IN  u \in Sock /\ Alike(t, u) /\ u.agent = t.agent
<1> DEFINE d == [t.data EXCEPT ![peer] = @ \o items]
           u == [t EXCEPT !.data = d]
<1>1. d \in [Peers -> Seq(Nat)]
  <2>1. t.data \in [Peers -> Seq(Nat)]
    BY SockFields
  <2>2. t.data[peer] \in Seq(Nat)
    BY <2>1
  <2>3. t.data[peer] \o items \in Seq(Nat)
    BY <2>2
  <2> QED
    BY <2>1, <2>3
<1>2. Emit(t, peer, items) = u
  BY DEF Emit, Sock
<1> HIDE DEF d
<1>3. u \in Sock
  BY <1>1 DEF Sock
<1>4. Alike(t, u) /\ u.agent = t.agent
  BY DEF Sock, Alike
<1> QED
  BY <1>2, <1>3, <1>4

LEMMA PermittedAlike ==
  ASSUME NEW t \in Sock, NEW peer \in Peers
  PROVE  LET u == Permitted(t, peer)
         IN  u \in Sock /\ Alike(t, u) /\ u.agent = t.agent /\ u.permTimer = t.permTimer
<1> DEFINE e == Emit(t, peer, t.queues[peer])
           a == e.sentperms \ {peer}
           b == e.perms \cup {peer}
           c == [e.queues EXCEPT ![peer] = <<>>]
           u == [e EXCEPT !.sentperms = a, !.perms = b, !.queues = c]
<1>1. t.queues[peer] \in Seq(Nat)
  BY SockFields
<1>2. e \in Sock /\ Alike(t, e) /\ e.agent = t.agent /\ e.permTimer = t.permTimer
  BY <1>1, DataAlike DEF Emit, Sock
<1>3. Permitted(t, peer) = u
  BY <1>2 DEF Permitted, Sock
<1> HIDE DEF e
<1>4. a \in SUBSET Peers /\ b \in SUBSET Peers /\ c \in [Peers -> Seq(Nat)]
  BY <1>2, SockFields
<1> HIDE DEF a, b, c
<1>5. u \in Sock /\ Alike(e, u) /\ u.agent = e.agent /\ u.permTimer = e.permTimer
  BY <1>2, <1>4 DEF Sock, Alike
<1> QED
  BY <1>2, <1>3, <1>5 DEF Alike

\* socket_send_message
LEMMA SendBacked ==
  ASSUME NEW R, NEW M, NEW S, NEW t, Backed(t, R, M, S), Left3(t), NEW peer \in Peers,
         NEW n \in Nat
  PROVE  Backed(socket_send_message(t, peer, n), R, M, S)
<1> DEFINE u == IF peer \in t.sentperms THEN t ELSE priv_send_create_permission(t, FALSE, peer)
           c == [u.queues EXCEPT ![peer] = Append(@, n)]
           v == [u EXCEPT !.queues = c]
           e == Emit(t, peer, <<n>>)
<1>1. t \in Sock /\ Rfc(t)
  BY DEF Backed, Settled
<1>2. Backed(u, R, M, S)
  BY PermissionBacked
<1>3. u \in Sock
  BY <1>2 DEF Backed, Settled
<1>4. socket_send_message(t, peer, n) = IF MustWait(t, peer) THEN v ELSE e
  <2>1. [u EXCEPT !.queues[peer] = Append(@, n)] = v
    BY <1>3 DEF Sock
  <2> HIDE DEF e, v
  <2>2. CASE MustWait(t, peer)
    BY <1>1, <2>1, <2>2, Zenon DEF socket_send_message
  <2>3. CASE ~MustWait(t, peer)
    BY <1>1, <2>3, Zenon DEF socket_send_message, e
  <2> QED
    BY <2>2, <2>3
<1>5. Backed(e, R, M, S)
  <2>1. <<n>> \in Seq(Nat)
    OBVIOUS
  <2>2. e \in Sock /\ Alike(t, e) /\ e.agent = t.agent
    BY <1>1, <2>1, DataAlike
  <2> QED
    BY <2>2, AlikeBacked
<1> HIDE DEF u
<1>6. Backed(v, R, M, S)
  <2>1. c \in [Peers -> Seq(Nat)]
    <3>1. u.queues \in [Peers -> Seq(Nat)]
      BY <1>3, SockFields
    <3>2. u.queues[peer] \in Seq(Nat)
      BY <3>1
    <3>3. Append(u.queues[peer], n) \in Seq(Nat)
      BY <3>2
    <3> QED
      BY <3>1, <3>3
  <2> HIDE DEF c
  <2>2. v \in Sock
    BY <1>3, <2>1, SockUpdates
  <2>3. Alike(u, v) /\ v.agent = u.agent
    BY <1>3, <2>1 DEF Sock, Alike
  <2> HIDE DEF v
  <2> QED
    BY <1>2, <2>2, <2>3, AlikeBacked
<1> QED
  BY <1>4, <1>5, <1>6

\* Each binding of C has the number and the peer of one of D.
Within(C, D) ==
    \A k \in DOMAIN C : \E i \in DOMAIN D :
       C[k].channel = D[i].channel /\ C[k].peer = D[i].peer

\* Bindings go or are renewed.
LEMMA WithinServed ==
  ASSUME NEW R, NEW S, NEW t, NEW u, Served(t, R, S), Agreed(t), Within(u.channels, t.channels),
         u.again = t.again, u.out = t.out, u.cur \in {t.cur, None}, u.curmsg \in {t.curmsg, None}
  PROVE  Served(u, R, S) /\ Agreed(u)
<1>1. Served(u, R, S)
  BY DEF Served, Within
<1>2. \A c, p : Claim(u, c, p) => Claim(t, c, p)
  BY DEF Claim, Within
<1> QED
  BY <1>1, <1>2, LessAgreed

\* A binding to come, the channel of which is its own, becomes a binding.
LEMMA AppendServed ==
  ASSUME NEW R, NEW S, NEW t, NEW u, Served(t, R, S), Agreed(t), t.channels \in Seq(ChannelBinding),
         t.cur # None, NEW b \in ChannelBinding, b.channel = t.cur.channel, b.peer = t.cur.peer,
         b.channel \in Channels \ t.again => Clear(S, R, t.out, b.channel, b.peer),
         u.channels = Append(t.channels, b), u.again = t.again, u.out = t.out, u.cur = None,
         u.curmsg = None
  PROVE  Served(u, R, S) /\ Agreed(u)
<1> DEFINE C == t.channels
           D == Append(C, b)
<1>1. /\ DOMAIN D = 1 .. Len(C) + 1 /\ D[Len(C) + 1] = b /\ \A k \in 1 .. Len(C) : D[k] = C[k]
      /\ DOMAIN C = 1 .. Len(C) /\ \A k \in 1 .. Len(C) + 1 : k = Len(C) + 1 \/ k \in 1 .. Len(C)
  OBVIOUS
<1>2. u.channels = D /\ t.channels = C
  OBVIOUS
<1> HIDE DEF C, D
<1>3. \A k \in DOMAIN D : D[k] = b \/ (k \in DOMAIN C /\ D[k] = C[k])
  BY <1>1
<1>4. Served(u, R, S)
  BY <1>2, <1>3 DEF Served
<1>5. \A c, p : Claim(u, c, p) => Claim(t, c, p)
  BY <1>2, <1>3 DEF Claim
<1> QED
  BY <1>4, <1>5, LessAgreed

\* The answer to the binding request.  A binding to come joins the bindings
\* when the server confirmed it; a request that is to be made again has room in
\* the table of transactions, since the one it answers was forgotten.
LEMMA OnChannelBindBacked ==
  ASSUME NEW R, NEW M, NEW S, NEW t, Backed(t, R, M, S), Left2(t), Room(t), t.curmsg # None,
         NEW x \in M, x.msg.id = t.curmsg.req.msg.id, Reply(x.msg)
  PROVE  Backed(OnChannelBind(t, x.msg), R, M, S)
<1> DEFINE m == x.msg
           peer == t.curmsg.req.peer
           C == t.channels
           same == {k \in 1..Len(t.channels) : t.channels[k].peer = peer}
           i == CHOOSE k \in same : \A j \in same : k <= j
           b == IF t.cur # None THEN t.cur ELSE t.channels[i]
           u == [t EXCEPT !.curmsg = None]
           una == Unauthorized(t.curmsg.req, m)
           a1 == [u EXCEPT !.cur = None]
           a2 == [u EXCEPT !.channels = Append(@, Refreshed(t.cur)), !.cur = None]
           a3 == [u EXCEPT !.channels[i] = Refreshed(@)]
           s == priv_send_channel_bind(u, TRUE, b.channel, b.peer)
<1>1. t \in Sock /\ C \in Seq(ChannelBinding) /\ t.cur \in ChannelBinding \cup {None}
  BY SockFields DEF Backed, Settled
<1>2. Served(t, R, S) /\ Agreed(t)
  BY DEF Backed, Settled
<1>3. same # {} => i \in same /\ i \in DOMAIN C /\ C[i] \in ChannelBinding
  <2>1. same \in SUBSET Nat /\ same \subseteq DOMAIN C
    BY <1>1
  <2> HIDE DEF same
  <2>2. same # {} => i \in same
    BY <2>1, FirstOf
  <2> HIDE DEF i, C
  <2>3. same # {} => i \in DOMAIN C
    BY <2>1, <2>2
  <2>4. \A k \in DOMAIN C : C[k] \in ChannelBinding
    BY <1>1
  <2> QED
    BY <2>2, <2>3, <2>4
<1>4. /\ m.class = "ERROR" /\ una =>
            OnChannelBind(t, m) = IF t.cur = None /\ same = {} THEN u ELSE s.t
      /\ m.class = "ERROR" /\ ~una => OnChannelBind(t, m) = priv_process_pending_bindings(a1)
      /\ m.class = "RESPONSE" /\ t.cur # None =>
            OnChannelBind(t, m) = priv_process_pending_bindings(a2)
      /\ m.class = "RESPONSE" /\ t.cur = None /\ same # {} =>
            OnChannelBind(t, m) = priv_process_pending_bindings(a3)
      /\ m.class = "RESPONSE" /\ t.cur = None /\ same = {} =>
            OnChannelBind(t, m) = priv_process_pending_bindings(u)
  BY BindAnswered, Zenon
<1> HIDE DEF same, i
<1>5. /\ u \in Sock /\ u.compat = t.compat /\ u.used = t.used /\ u.out = t.out
      /\ u.agent = t.agent /\ u.channels = C /\ u.cur = t.cur /\ u.curmsg = None
      /\ u.again = t.again
  BY <1>1 DEF Sock
<1>6. Settled(u, R, M, S) /\ FreeIds(u) = FreeIds(t)
  <2> HIDE DEF u
  <2>1. Rfc(u) /\ Fits(u) /\ Served(u, R, S) /\ Known(u, R \cup u.out) /\ Noted(u, R, M)
    BY <1>5 DEF Backed, Settled, Rfc, Fits, Served, Known, Noted
  <2> QED
    BY <1>5, <2>1 DEF Settled, FreeIds
<1>7. ASSUME NEW z \in Sock, z.compat = t.compat, z.used = t.used, z.out = t.out,
             z.agent = t.agent, z.cur = None, z.curmsg = None, Served(z, R, S), Agreed(z)
      PROVE  Backed(z, R, M, S) /\ Backed(priv_process_pending_bindings(z), R, M, S)
  <2>1. Settled(t, R, M, S) /\ z.agent.sent \subseteq t.agent.sent
    BY <1>7 DEF Backed
  <2>2. Backed(z, R, M, S) /\ FreeIds(t) \subseteq FreeIds(z)
    BY <1>7, <2>1, DroppedBacked
  <2>3. Left2(z)
    BY <2>2, LeftMore
  <2> QED
    BY <2>2, <2>3, ProcessBacked
<1>8. Served(u, R, S) /\ Agreed(u)
  <2> HIDE DEF u
  <2>1. Within(u.channels, t.channels)
    BY <1>5 DEF Within
  <2> QED
    BY <1>2, <1>5, <2>1, WithinServed
<1>9. CASE m.class = "ERROR" /\ una
  <2>1. CASE t.cur = None /\ same = {}
    <3> HIDE DEF u
    <3>1. Backed(u, R, M, S)
      BY <1>5, <1>7, <1>8, <2>1
    <3> HIDE DEF s, una, m
    <3> QED
      BY <1>4, <1>9, <2>1, <3>1 DEF m
  <2>2. CASE ~(t.cur = None /\ same = {})
    <3>1. b \in ChannelBinding
      BY <1>1, <1>3, <2>2
    <3>2. b.channel \in Nat /\ b.peer \in Peers
      BY <3>1 DEF ChannelBinding
    <3>3. t.cur # None => t.cur.channel = b.channel /\ t.cur.peer = b.peer
      OBVIOUS
    <3>8. Claim(u, b.channel, b.peer)
      <4>1. CASE t.cur # None
        BY <1>5, <3>3, <4>1 DEF Claim
      <4>2. CASE t.cur = None
        <5>1. i \in DOMAIN C /\ b = C[i]
          BY <1>3, <2>2, <4>2
        <5> HIDE DEF b, u, C
        <5> QED
          BY <1>5, <5>1 DEF Claim
      <4> QED
        BY <4>1, <4>2
    <3> HIDE DEF b, u
    <3>9. Fitting(u, b.channel, b.peer)
      BY <1>8, <3>8, ClaimFits
    <3>4. Left1(u) /\ Cardinality(u.agent.sent) < MaxSavedIds
      BY <1>5, <1>6, LeftMore, LeftLess DEF Room
    <3>5. BindAsked(u, s, R, M, S, b.channel, b.peer)
      BY <1>6, <3>2, <3>4, <3>9, BindSettled
    <3> HIDE DEF s
    <3>6. Settled(s.t, R, M, S) /\ Asks(u, s.t, M, b.channel, b.peer)
      BY <3>4, <3>5 DEF BindAsked
    <3>7. Backed(s.t, R, M, S)
      BY <1>5, <1>8, <3>3, <3>6, <3>9, AsksAwaits DEF Backed
    <3> HIDE DEF una, m
    <3> QED
      BY <1>4, <1>9, <2>2, <3>7 DEF m
  <2> QED
    BY <2>1, <2>2
<1>10. CASE m.class = "ERROR" /\ ~una
  <2>1. /\ a1 \in Sock /\ a1.compat = t.compat /\ a1.used = t.used /\ a1.out = t.out
        /\ a1.agent = t.agent /\ a1.cur = None /\ a1.curmsg = None /\ a1.channels = C
        /\ a1.again = t.again
    BY <1>1 DEF Sock
  <2> HIDE DEF a1, una
  <2>2. Served(a1, R, S) /\ Agreed(a1)
    <3>1. Within(a1.channels, t.channels)
      BY <2>1 DEF Within
    <3> QED
      BY <1>2, <2>1, <3>1, WithinServed
  <2> QED
    BY <1>4, <1>7, <1>10, <2>1, <2>2
<1>11. CASE m.class = "RESPONSE" /\ t.cur # None
  <2> DEFINE r == Refreshed(t.cur)
             D == Append(C, r)
  <2>1. r \in ChannelBinding /\ r.channel = t.cur.channel /\ r.peer = t.cur.peer
    BY <1>1, <1>11 DEF Refreshed, ChannelBinding
  <2>2. r.channel \in Channels \ t.again => Clear(S, R, t.out, r.channel, r.peer)
    BY <1>11, <2>1 DEF Backed, Awaited
  <2> HIDE DEF r
  <2>3. D \in Seq(ChannelBinding)
    BY <1>1, <2>1
  <2>5. a2 = [t EXCEPT !.curmsg = None, !.channels = D, !.cur = None]
    BY <1>1 DEF Sock, r
  <2> HIDE DEF D, a2
  <2>6. /\ a2 \in Sock /\ a2.compat = t.compat /\ a2.used = t.used /\ a2.out = t.out
        /\ a2.agent = t.agent /\ a2.cur = None /\ a2.curmsg = None /\ a2.channels = D
        /\ a2.again = t.again
    BY <1>1, <2>3, <2>5 DEF Sock
  <2>7. Served(a2, R, S) /\ Agreed(a2)
    BY <1>1, <1>2, <1>11, <2>1, <2>2, <2>6, AppendServed DEF D
  <2> QED
    BY <1>4, <1>7, <1>11, <2>6, <2>7
<1>12. CASE m.class = "RESPONSE" /\ t.cur = None /\ same # {}
  <2> DEFINE r == Refreshed(C[i])
             D == [C EXCEPT ![i] = r]
  <2>1. r \in ChannelBinding /\ r.channel = C[i].channel /\ r.peer = C[i].peer
    BY <1>3, <1>12 DEF Refreshed, ChannelBinding
  <2>2. a3 = [t EXCEPT !.curmsg = None, !.channels = D]
    BY <1>1 DEF Sock
  <2> HIDE DEF r
  <2>3. D \in Seq(ChannelBinding) /\ DOMAIN D = DOMAIN C
        /\ \A k \in DOMAIN C : D[k] = IF k = i THEN r ELSE C[k]
    BY <1>1, <1>3, <1>12, <2>1
  <2> HIDE DEF D, a3
  <2>4. /\ a3 \in Sock /\ a3.compat = t.compat /\ a3.used = t.used /\ a3.out = t.out
        /\ a3.agent = t.agent /\ a3.cur = t.cur /\ a3.curmsg = None /\ a3.channels = D
        /\ a3.again = t.again
    BY <1>1, <2>2, <2>3 DEF Sock
  <2>6. Within(D, C)
    <3> HIDE DEF C
    <3> QED
      BY <2>1, <2>3 DEF Within
  <2>5. Served(a3, R, S) /\ Agreed(a3)
    BY <1>2, <2>4, <2>6, WithinServed
  <2> QED
    BY <1>4, <1>7, <1>12, <2>4, <2>5
<1>13. CASE m.class = "RESPONSE" /\ t.cur = None /\ same = {}
  <2> HIDE DEF u
  <2> QED
    BY <1>4, <1>5, <1>7, <1>8, <1>13
<1> HIDE DEF una
<1> QED
  BY <1>9, <1>10, <1>11, <1>12, <1>13 DEF Reply

LEMMA OnCreatePermissionBacked ==
  ASSUME NEW R, NEW M, NEW S, NEW t, Backed(t, R, M, S), Left3(t), NEW i \in DOMAIN t.permmsgs,
         NEW m
  PROVE  Backed(OnCreatePermission(t, i, m), R, M, S)
<1> DEFINE P == Without(t.permmsgs, i)
           u == [t EXCEPT !.permmsgs = P]
           req == t.permmsgs[i].req
           peer == req.peer
           v == Permitted(u, peer)
           B == v.permTimer \/ m.class = "RESPONSE"
           z == [v EXCEPT !.permTimer = B]
           y == priv_send_create_permission(u, TRUE, peer)
           again == m.class = "ERROR" /\ Unauthorized(req, m)
<1>1. t \in Sock /\ t.permmsgs \in Seq(TurnMessage) /\ t.permmsgs[i] \in TurnMessage
  BY SockFields DEF Backed, Settled
<1>2. peer \in Peers
  BY <1>1 DEF TurnMessage, Req
<1>3. P \in Seq(TurnMessage)
  BY <1>1, WithoutElements
<1>4. OnCreatePermission(t, i, m) = IF again THEN y ELSE z
  <2>1. u = [t EXCEPT !.permmsgs = SubSeq(@, 1, i - 1) \o SubSeq(@, i + 1, Len(@))]
    BY DEF Without
  <2> HIDE DEF u, req
  <2> QED
    BY <2>1, Zenon DEF OnCreatePermission, req
<1> HIDE DEF P
<1>5. u \in Sock /\ Alike(t, u) /\ u.agent = t.agent
  BY <1>1, <1>3 DEF Sock, Alike
<1> HIDE DEF u, peer, req
<1>6. Backed(u, R, M, S) /\ Left3(u) /\ TRUE \in BOOLEAN
  BY <1>5, AlikeBacked, LeftMore
<1>7. Backed(y, R, M, S)
  BY <1>2, <1>6, PermissionBacked
<1>8. Backed(z, R, M, S)
  <2>1. v \in Sock /\ Alike(u, v) /\ v.agent = u.agent
    BY <1>2, <1>5, PermittedAlike
  <2> HIDE DEF v
  <2>2. B \in BOOLEAN
    BY <2>1, SockFields
  <2> HIDE DEF B
  <2>3. z \in Sock /\ Alike(v, z) /\ z.agent = v.agent
    BY <2>1, <2>2 DEF Sock, Alike
  <2> HIDE DEF z
  <2>4. Backed(v, R, M, S)
    BY <1>6, <2>1, AlikeBacked
  <2> QED
    BY <2>3, <2>4, AlikeBacked
<1> HIDE DEF y, z, again
<1> QED
  BY <1>4, <1>7, <1>8

\* nice_udp_turn_socket_parse_recv
LEMMA ReceivedBacked ==
  ASSUME NEW R, NEW M, NEW S, NEW t, Backed(t, R, M, S), Owned(t), Left3(t), NEW x \in M,
         x.msg \in Message, Plausible(t, x.msg), NEW from \in Peers
  PROVE  Backed(parse_recv(t, x.msg, from), R, M, S)
<1> DEFINE m == x.msg
           v == stun_agent_validate(t.agent, m, NoKey)
           w == [t EXCEPT !.agent = v.agent]
           I == {k \in 1..Len(t.permmsgs) : t.permmsgs[k].req.msg.id = m.id}
           quiet == v.status # "SUCCESS" \/ (~Rfc(w) /\ "MAGIC_COOKIE" \notin m.attrs)
           r == parse_recv(t, m, from)
<1>1. t \in Sock /\ t.agent \in StunAgents /\ Rfc(t) /\ t.permmsgs \in Seq(TurnMessage)
  BY SockFields DEF Backed, Settled
<1>2. Accepted(t.agent, m, v)
  <2>1. \A y, z \in t.agent.sent : y.id = z.id => y = z
    BY DEF Owned
  <2> QED
    BY <1>1, <2>1, Validation
<1>3. /\ quiet => r = w
      /\ ~quiet /\ m.method = "SEND" => r = OnSend(w, m)
      /\ ~quiet /\ m.method = "OLD_SET_ACTIVE_DST" => r = OnSetActive(w, m)
      /\ ~quiet /\ m.method = "CHANNELBIND" =>
            r = IF w.curmsg = None THEN w
                ELSE IF w.curmsg.req.msg.id = m.id THEN OnChannelBind(w, m) ELSE w
      /\ ~quiet /\ m.method = "CREATEPERMISSION" =>
            r = IF I = {} THEN w ELSE OnCreatePermission(w, CHOOSE k \in I : TRUE, m)
      /\ ~quiet /\ m.method = "IND_DATA" =>
            r = IF m.class = "INDICATION" THEN OnData(w, from) ELSE w
  <2>1. Handled(t, m, from, v, w, r)
    BY Dispatched
  <2> HIDE DEF r, v, w
  <2> QED
    BY <2>1, Zenon DEF Handled
<1> HIDE DEF r, v
<1>4. CASE v.status # "SUCCESS" \/ ~Reply(m)
  <2>1. v.agent = t.agent
    BY <1>2, <1>4 DEF Accepted
  <2>2. w = t
    BY <1>1, <2>1 DEF Sock
  <2>3. Backed(OnData(t, from), R, M, S)
    <3>1. FALSE \in BOOLEAN
      OBVIOUS
    <3>2. Backed(priv_send_create_permission(t, FALSE, from), R, M, S)
      BY <3>1, PermissionBacked
    <3> QED
      BY <3>2 DEF OnData
  <2>4. CASE v.status # "SUCCESS"
    BY <1>3, <2>2, <2>4 DEF r
  <2>5. CASE v.status = "SUCCESS"
    <3>1. m.method = "IND_DATA" /\ m.class = "INDICATION"
      BY <1>4, <2>5 DEF Plausible, Reply
    <3>2. r = t \/ r = OnData(t, from)
      BY <1>3, <2>2, <3>1
    <3> QED
      BY <2>3, <3>2 DEF r
  <2> QED
    BY <2>4, <2>5
<1>5. CASE v.status = "SUCCESS" /\ Reply(m)
  <2>1. v.agent = [t.agent EXCEPT !.sent = {y \in @ : y.id # m.id}]
    BY <1>2, <1>5 DEF Accepted
  <2>2. PICK y \in t.agent.sent : y.id = m.id /\ y.method = m.method
    BY <1>2, <1>5 DEF Accepted
  <2>3. v.agent \in StunAgents /\ v.agent.sent = {z \in t.agent.sent : z.id # m.id}
    BY <1>1, <2>1 DEF StunAgents
  <2>4. m.method \notin {"SEND", "OLD_SET_ACTIVE_DST"} /\ m.method \in Methods
    BY <1>1, <2>2 DEF Owned, Message
  <2>5. w \in Sock /\ Alike(t, w) /\ w.agent = v.agent /\ w.permmsgs = t.permmsgs
    BY <1>1, <2>3 DEF Sock, Alike
  <2> HIDE DEF w
  <2>6. Backed(w, R, M, S) /\ Left3(w) /\ Left2(w) /\ Rfc(w)
    <3>1. Backed(w, R, M, S) /\ FreeIds(t) \subseteq FreeIds(w)
      BY <2>3, <2>5, AlikeBacked
    <3> QED
      BY <3>1, LeftMore, LeftLess DEF Backed, Settled
  <2>7. Room(w)
    <3>1. w.agent.sent = t.agent.sent \ {y}
      BY <2>2, <2>3, <2>5 DEF Owned
    <3>2. /\ IsFiniteSet(t.agent.sent) /\ Cardinality(t.agent.sent) <= MaxSavedIds
          /\ Cardinality(t.agent.sent) \in Nat
      BY FS_CardinalityType DEF Backed, Settled, Fits
    <3>3. Cardinality(w.agent.sent) = Cardinality(t.agent.sent) - 1
      BY <2>2, <3>1, <3>2, FS_RemoveElement
    <3> QED
      BY <3>2, <3>3, SavedIdsAssumption DEF Room
  <2>8. CASE m.method = "CREATEPERMISSION"
    <3> DEFINE i == CHOOSE k \in I : TRUE
    <3>1. r = IF I = {} THEN w ELSE OnCreatePermission(w, i, m)
      BY <1>3, <1>5, <2>6, <2>8
    <3>2. I # {} => i \in DOMAIN w.permmsgs
      <4>1. I \subseteq DOMAIN t.permmsgs /\ (I # {} => i \in I)
        <5>1. DOMAIN t.permmsgs = 1..Len(t.permmsgs)
          BY <1>1
        <5>2. I \subseteq DOMAIN t.permmsgs
          BY <5>1
        <5> HIDE DEF I
        <5> QED
          BY <5>2
      <4> HIDE DEF i, I
      <4> QED
        BY <2>5, <4>1
    <3> HIDE DEF i, I
    <3>3. I # {} => Backed(OnCreatePermission(w, i, m), R, M, S)
      BY <2>6, <3>2, OnCreatePermissionBacked
    <3> QED
      BY <2>6, <3>1, <3>3 DEF r
  <2>9. CASE m.method # "CREATEPERMISSION"
    <3>1. r = w \/ (w.curmsg # None /\ w.curmsg.req.msg.id = m.id /\ r = OnChannelBind(w, m))
      BY <1>3, <1>5, <2>4, <2>6, <2>9 DEF Methods, Reply
    <3>2. w.curmsg # None /\ w.curmsg.req.msg.id = m.id => Backed(OnChannelBind(w, m), R, M, S)
      BY <1>5, <2>6, <2>7, OnChannelBindBacked
    <3> QED
      BY <2>6, <3>1, <3>2 DEF r
  <2> QED
    BY <2>8, <2>9
<1> QED
  BY <1>4, <1>5

-----------------------------------------------------------------------------
\* Channels between calls

Steady(t, R, M, S) ==
    Rfc(t) => Fits(t) /\ Served(t, R, S) /\ Awaited(t, R, M, S) /\ Known(t, R) /\ Agreed(t)

AInv == srv \in [Channels -> Peers \cup {None}] /\ Steady(sock, reqs, replies, Servers)

\* The socket at the start of a call
LEMMA EnterBacked ==
  ASSUME IInv, AInv, Rfc(sock), NEW late \in BOOLEAN
  PROVE  LET t == Enter(late)
         IN  /\ Backed(t, reqs, replies, Servers) /\ Owned(t) /\ t.out = {} /\ t.compat = sock.compat
             /\ t.channels = sock.channels /\ t.curmsg = sock.curmsg /\ t.cur = sock.cur
             /\ t.permmsgs = sock.permmsgs /\ t.agent = sock.agent
             /\ \A i \in DOMAIN t.permmsgs : t.permmsgs[i].req.msg.id \in t.used
<1> DEFINE U == {r.msg.id : r \in reqs} \cup {m.msg.id : m \in replies}
                \cup (IF sock.curmsg = None THEN {} ELSE {sock.curmsg.req.msg.id})
                \cup {sock.permmsgs[i].req.msg.id : i \in 1..Len(sock.permmsgs)} \cup sock.sendreqs
           t == Enter(late)
<1>1. /\ Sound(t) /\ t.compat = sock.compat /\ t.agent = sock.agent /\ t.permmsgs = sock.permmsgs
      /\ t.channels = sock.channels /\ t.curmsg = sock.curmsg /\ t.cur = sock.cur
  BY Entered
<1>2. sock \in Sock /\ sock.out = {}
  BY DEF IInv, Resting
<1>3. t.used = U /\ t.out = {} /\ t.again = sock.again
  <2>1. t = [sock EXCEPT !.late = late, !.used = U]
    BY DEF Enter
  <2> HIDE DEF U, t
  <2> QED
    BY <1>2, <2>1 DEF Sock
<1>4. /\ \A r \in reqs : r.msg.id \in U
      /\ \A m \in replies : m.msg.id \in U
      /\ sock.curmsg # None => sock.curmsg.req.msg.id \in U
      /\ \A i \in 1..Len(sock.permmsgs) : sock.permmsgs[i].req.msg.id \in U
  OBVIOUS
<1>5. DOMAIN sock.permmsgs = 1..Len(sock.permmsgs)
  BY <1>2, SockFields
<1> HIDE DEF U, t
<1>6. Noted(t, reqs, replies)
  BY <1>1, <1>3, <1>4 DEF Noted
<1>7. /\ Fits(sock) /\ Served(sock, reqs, Servers) /\ Awaited(sock, reqs, replies, Servers)
      /\ Known(sock, reqs) /\ Agreed(sock)
  BY DEF AInv, Steady
<1>8. /\ Fits(t) /\ Served(t, reqs, Servers) /\ Awaited(t, reqs, replies, Servers) /\ Rfc(t)
      /\ Agreed(t)
  <2>1. Agreed(t)
    BY <1>1, <1>3, <1>7, LessAgreed DEF Claim
  <2>2. Served(t, reqs, Servers) /\ Awaited(t, reqs, replies, Servers)
    BY <1>1, <1>2, <1>3, <1>7 DEF Served, Awaited
  <2> QED
    BY <1>1, <1>7, <2>1, <2>2 DEF Fits, Rfc
<1>9. Known(t, reqs \cup t.out)
  BY <1>1, <1>3, <1>7 DEF Known
<1>10. Backed(t, reqs, replies, Servers) /\ Owned(t)
  BY <1>1, <1>6, <1>8, <1>9 DEF Backed, Settled, Sound
<1>11. \A i \in DOMAIN t.permmsgs : t.permmsgs[i].req.msg.id \in t.used
  BY <1>1, <1>3, <1>4, <1>5
<1> QED
  BY <1>1, <1>3, <1>10, <1>11 DEF t

\* What the socket holds of a channel stays so when a call sends its requests.
LEMMA ClearLeft ==
  ASSUME NEW O, reqs' = reqs \cup O, older' = older \ O, srv' = srv, NEW c, NEW p,
         Clear(Servers, reqs, O, c, p)
  PROVE  Clear([bound |-> srv', older |-> older'], reqs', {}, c, p)
<1>1. /\ srv[c] \in {None, p}
      /\ \A r \in Binds(reqs \cup O, c) : r.peer # p => srv[c] = p /\ r \in older /\ r \notin O
  BY DEF Clear, Servers
<1>2. reqs' \cup {} = reqs \cup O
  OBVIOUS
<1>3. ASSUME NEW r \in Binds(reqs' \cup {}, c), r.peer # p
      PROVE  srv'[c] = p /\ r \in older' /\ r \notin {}
  BY <1>1, <1>2, <1>3
<1> QED
  BY <1>1, <1>3 DEF Clear

\* The end of a call
LEMMA LeaveSteady ==
  ASSUME NEW u, Leave(u), Backed(u, reqs, replies, Servers), replies' \subseteq replies, srv' = srv,
         AInv
  PROVE  AInv'
<1> DEFINE s == sock'
           N == [p \in Peers |-> <<>>]
           T == [bound |-> srv', older |-> older']
<1>1. u \in Sock
  BY DEF Backed, Settled
<1>2. /\ s = [u EXCEPT !.late = FALSE, !.used = {}, !.out = {}, !.data = N]
      /\ reqs' = reqs \cup u.out /\ older' = older \ u.out
  BY DEF Leave
<1> HIDE DEF N, s
<1>3. /\ s.agent = u.agent /\ s.channels = u.channels /\ s.cur = u.cur /\ s.curmsg = u.curmsg
      /\ s.again = u.again /\ s.out = {}
  BY <1>1, <1>2 DEF Sock
<1>4. \A c, p : Clear(Servers, reqs, u.out, c, p) => Clear(T, reqs', {}, c, p)
  BY <1>2, ClearLeft
<1> HIDE DEF T
<1>5. Fits(s) /\ Known(s, reqs')
  BY <1>2, <1>3 DEF Backed, Settled, Fits, Known
<1>6. Served(s, reqs', T)
  BY <1>3, <1>4 DEF Backed, Settled, Served
<1>7. Awaited(s, reqs', replies', T)
  BY <1>3, <1>4 DEF Backed, Awaited
<1>8. Agreed(s)
  BY <1>3, LessAgreed DEF Backed, Claim
<1>9. Steady(s, reqs', replies', T)
  BY <1>5, <1>6, <1>7, <1>8 DEF Steady
<1> QED
  BY <1>9 DEF AInv, s, T, Servers

\* A socket without channels has none that are wrong.
LEMMA OtherSteady ==
  ASSUME AInv, ~Rfc(sock), sock'.compat = sock.compat, (srv \in [Channels -> Peers \cup {None}])'
  PROVE  AInv'
  BY DEF AInv, Steady, Rfc

\* The calls and timers keep the channels right.
LEMMA SetPeerSteady ==
  ASSUME IInv, AInv, Rfc(sock), NEW p \in budget.who, set_peer(p)
  PROVE  AInv'
<1> DEFINE t == Enter(FALSE)
           u == priv_add_channel_binding(t, p).t
<1>1. p \in Peers
  BY BudgetPeers
<1>2. Left3(t) /\ Backed(t, reqs, replies, Servers)
  BY IdsThere, EnterBacked DEF set_peer, Leave
<1>3. Leave(u) /\ replies' = replies /\ srv' = srv
  BY DEF set_peer
<1> HIDE DEF t
<1>4. Backed(u, reqs, replies, Servers)
  BY <1>1, <1>2, AddBacked, LeftLess DEF AddedBacked, After
<1> HIDE DEF u
<1> QED
  BY <1>3, <1>4, LeaveSteady

LEMMA SendMessageSteady ==
  ASSUME IInv, AInv, Rfc(sock), NEW p \in budget.who, NEW late \in Late, send_message(p, late)
  PROVE  AInv'
<1> DEFINE t == Enter(late)
           n == app[p] + 1
           u == socket_send_message(t, p, n)
<1>1. p \in Peers /\ late \in BOOLEAN /\ n \in Nat
  BY BudgetPeers, LateSpent DEF IInv
<1>2. Left3(t) /\ Backed(t, reqs, replies, Servers)
  BY <1>1, IdsThere, EnterBacked DEF send_message, Leave
<1>3. Leave(u) /\ replies' = replies /\ srv' = srv
  BY DEF send_message
<1> HIDE DEF t, n
<1>4. Backed(u, reqs, replies, Servers)
  BY <1>1, <1>2, SendBacked
<1> HIDE DEF u
<1> QED
  BY <1>3, <1>4, LeaveSteady

LEMMA RecvMessageSteady ==
  ASSUME IInv, AInv, Rfc(sock), NEW m \in replies, NEW late \in Late, recv_message(m, late)
  PROVE  AInv'
<1> DEFINE t == Enter(late)
           u == parse_recv(t, m.msg, m.from)
<1>1. late \in BOOLEAN
  BY LateSpent
<1>2. Left3(t) /\ Backed(t, reqs, replies, Servers) /\ Owned(t) /\ t.compat = sock.compat
  BY <1>1, IdsThere, EnterBacked DEF recv_message, Leave
<1>3. Leave(u) /\ replies' \subseteq replies /\ srv' = srv
  BY DEF recv_message
<1>4. m.msg \in Message /\ m.from \in Peers
  BY DEF IInv, Answers
<1> HIDE DEF t
<1>5. Plausible(t, m.msg)
  BY <1>2 DEF IInv, RepliesOk, Plausible, Rfc
<1>6. Backed(u, reqs, replies, Servers)
  BY <1>2, <1>4, <1>5, ReceivedBacked
<1> HIDE DEF u
<1> QED
  BY <1>3, <1>6, LeaveSteady

LEMMA ForgetSendSteady ==
  ASSUME IInv, AInv, Rfc(sock), NEW id \in sock.sendreqs, priv_forget_send_request(id)
  PROVE  AInv'
<1> DEFINE t == Enter(FALSE)
           S == t.sendreqs \ {id}
           A == stun_agent_forget_transaction(t.agent, id)
           u == [t EXCEPT !.sendreqs = S, !.agent = A]
<1>1. Backed(t, reqs, replies, Servers)
  BY EnterBacked
<1>2. Leave(u) /\ replies' = replies /\ srv' = srv
  BY DEF priv_forget_send_request
<1> HIDE DEF t
<1>3. t \in Sock
  BY <1>1 DEF Backed, Settled
<1>4. A \in StunAgents /\ A.sent \subseteq t.agent.sent
  BY <1>3, SockFields DEF stun_agent_forget_transaction, StunAgents
<1>5. S \in SUBSET Ids
  BY <1>3, SockFields
<1> HIDE DEF A, S
<1>6. u \in Sock /\ Alike(t, u) /\ u.agent = A
  BY <1>3, <1>4, <1>5 DEF Sock, Alike
<1> HIDE DEF u
<1>7. Backed(u, reqs, replies, Servers)
  BY <1>1, <1>4, <1>6, AlikeBacked
<1> QED
  BY <1>2, <1>7, LeaveSteady

LEMMA PermissionTimeoutSteady ==
  ASSUME IInv, AInv, Rfc(sock), priv_permission_timeout
  PROVE  AInv'
<1> DEFINE t == Enter(FALSE)
           u == [t EXCEPT !.perms = {}]
<1>1. Backed(t, reqs, replies, Servers)
  BY EnterBacked
<1>2. Leave(u) /\ replies' = replies /\ srv' = srv
  BY DEF priv_permission_timeout
<1> HIDE DEF t
<1>3. t \in Sock
  BY <1>1 DEF Backed, Settled
<1>4. u \in Sock /\ Alike(t, u) /\ u.agent = t.agent
  BY <1>3 DEF Sock, Alike
<1> HIDE DEF u
<1>5. Backed(u, reqs, replies, Servers)
  BY <1>1, <1>4, AlikeBacked
<1> QED
  BY <1>2, <1>5, LeaveSteady

\* The bindings change: each is as one that was there.
LEMMA ChannelsBacked ==
  ASSUME NEW R, NEW M, NEW S, NEW t, Backed(t, R, M, S), NEW C \in Seq(ChannelBinding),
         Within(C, t.channels)
  PROVE  LET u == [t EXCEPT !.channels = C]
         IN  /\ Backed(u, R, M, S) /\ FreeIds(u) = FreeIds(t) /\ u.cur = t.cur
             /\ u.curmsg = t.curmsg /\ u.channels = C /\ u.again = t.again /\ u.out = t.out
<1> DEFINE u == [t EXCEPT !.channels = C]
<1>1. t \in Sock
  BY DEF Backed, Settled
<1>2. /\ u \in Sock /\ u.agent = t.agent /\ u.curmsg = t.curmsg /\ u.compat = t.compat
      /\ u.used = t.used /\ u.out = t.out /\ u.cur = t.cur /\ u.channels = C
      /\ u.again = t.again
  BY <1>1 DEF Sock
<1> HIDE DEF u
<1>3. Served(u, R, S) /\ Agreed(u)
  BY <1>2, WithinServed DEF Backed, Settled
<1>4. Rfc(u) /\ Fits(u) /\ Known(u, R \cup u.out) /\ Noted(u, R, M) /\ Awaited(u, R, M, S)
  BY <1>2 DEF Backed, Settled, Rfc, Fits, Known, Noted, Awaited
<1>5. FreeIds(u) = FreeIds(t)
  BY <1>2 DEF FreeIds
<1>6. Backed(u, R, M, S)
  BY <1>2, <1>3, <1>4 DEF Backed, Settled
<1> QED
  BY <1>2, <1>5, <1>6 DEF u

LEMMA BindingTimeoutSteady ==
  ASSUME IInv, AInv, Rfc(sock), NEW i \in 1..Len(sock.channels), priv_binding_timeout(i)
  PROVE  AInv'
<1> DEFINE e == Enter(FALSE)
           b == sock.channels[i]
           t == [e EXCEPT !.channels[i].renew = TRUE, !.channels[i].timer = "expire"]
           r == priv_send_channel_bind(t, FALSE, b.channel, b.peer)
           u == IF t.curmsg = None THEN r.t ELSE t
           d == [b EXCEPT !.renew = TRUE, !.timer = "expire"]
           C == [e.channels EXCEPT ![i] = d]
<1>1. Left3(e) /\ e.channels = sock.channels /\ Backed(e, reqs, replies, Servers)
  BY IdsThere, EnterBacked DEF priv_binding_timeout, Leave
<1>2. Leave(u) /\ replies' = replies /\ srv' = srv
  BY DEF priv_binding_timeout
<1> HIDE DEF e
<1>3. e \in Sock /\ e.channels \in Seq(ChannelBinding) /\ i \in DOMAIN e.channels
  BY <1>1, SockFields DEF Backed, Settled
<1>4. b = e.channels[i] /\ b \in ChannelBinding
  BY <1>1, <1>3
<1>5. d \in ChannelBinding /\ d.channel = b.channel /\ d.peer = b.peer
  BY <1>4 DEF ChannelBinding
<1>6. t = [e EXCEPT !.channels = C]
  <2>1. DOMAIN e.channels = 1..Len(e.channels) /\ e.channels = [k \in 1..Len(e.channels) |-> e.channels[k]]
    BY <1>3
  <2> QED
    BY <1>3, <1>4, <2>1 DEF Sock
<1> HIDE DEF d, b, t
<1>7. C \in Seq(ChannelBinding) /\ DOMAIN C = DOMAIN e.channels
      /\ \A k \in DOMAIN C : C[k] = IF k = i THEN d ELSE e.channels[k]
  BY <1>3, <1>5
<1> HIDE DEF C
<1>8. Within(C, e.channels)
  BY <1>3, <1>4, <1>5, <1>7 DEF Within
<1>9. Backed(t, reqs, replies, Servers) /\ FreeIds(t) = FreeIds(e) /\ t.channels = C
  BY <1>1, <1>6, <1>7, <1>8, ChannelsBacked
<1>10. Left1(t)
  BY <1>1, <1>9, LeftMore, LeftLess
<1>11. b.channel \in Nat /\ b.peer \in Peers
  BY <1>4 DEF ChannelBinding
<1>12. Fitting(t, b.channel, b.peer)
  <2>1. Claim(t, b.channel, b.peer)
    BY <1>3, <1>5, <1>7, <1>9 DEF Claim
  <2> QED
    BY <1>9, <2>1, ClaimFits DEF Backed
<1>13. /\ ~r.ok => r.t = t
       /\ r.ok => Settled(r.t, reqs, replies, Servers) /\ Asks(t, r.t, replies, b.channel, b.peer)
  <2>1. Settled(t, reqs, replies, Servers)
    BY <1>9 DEF Backed
  <2>2. BindAsked(t, r, reqs, replies, Servers, b.channel, b.peer)
    BY <1>10, <1>11, <1>12, <2>1, BindSettled
  <2> HIDE DEF r
  <2> QED
    BY <2>2 DEF BindAsked
<1> HIDE DEF r
<1>14. ASSUME t.curmsg = None PROVE Backed(r.t, reqs, replies, Servers)
  <2>1. t.cur = None
    BY <1>9, <1>14 DEF Backed, Awaited
  <2>2. CASE r.ok
    <3>1. Awaited(r.t, reqs, replies, Servers) /\ Agreed(r.t)
      BY <1>9, <1>12, <1>13, <2>1, <2>2, AsksAwaits DEF Backed
    <3> QED
      BY <1>13, <2>2, <3>1 DEF Backed
  <2> QED
    BY <1>9, <1>13, <2>2
<1>15. Backed(u, reqs, replies, Servers)
  BY <1>9, <1>14
<1> HIDE DEF u
<1> QED
  BY <1>2, <1>15, LeaveSteady

LEMMA BindingExpiredSteady ==
  ASSUME IInv, AInv, Rfc(sock), NEW i \in 1..Len(sock.channels), priv_binding_expired_timeout(i)
  PROVE  AInv'
<1> DEFINE e == Enter(FALSE)
           b == sock.channels[i]
           C == Without(e.channels, i)
           t == [e EXCEPT !.channels = C]
           renewing == t.cur = None /\ t.curmsg # None /\ t.curmsg.req.peer = b.peer
           d == [b EXCEPT !.timer = "none"]
           v == [t EXCEPT !.cur = d]
           r == priv_add_channel_binding(t, b.peer)
           u == IF renewing THEN v ELSE r.t
<1>1. Left3(e) /\ e.channels = sock.channels /\ Backed(e, reqs, replies, Servers)
  BY IdsThere, EnterBacked DEF priv_binding_expired_timeout, Leave
<1>2. Leave(u) /\ replies' = replies /\ srv' = srv
  BY DEF priv_binding_expired_timeout, Without
<1> HIDE DEF e
<1>3. e \in Sock /\ e.channels \in Seq(ChannelBinding) /\ i \in DOMAIN e.channels
      /\ Served(e, reqs, Servers) /\ Agreed(e)
  BY <1>1, SockFields DEF Backed, Settled
<1>4. b = e.channels[i] /\ b \in ChannelBinding
  BY <1>1, <1>3
<1>5. d \in ChannelBinding /\ b.peer \in Peers /\ d.channel = b.channel /\ d.peer = b.peer
  BY <1>4 DEF ChannelBinding
<1>6. d.channel \in Channels \ e.again => Clear(Servers, reqs, e.out, d.channel, d.peer)
  BY <1>3, <1>4, <1>5 DEF Served
<1> HIDE DEF d, b
<1>7. C \in Seq(ChannelBinding) /\ Others(e.channels, i, C)
  BY <1>3, WithoutElements, WithoutPlaces
<1> HIDE DEF C
<1>8. Within(C, e.channels)
  BY <1>7 DEF Within, Others
<1>9. /\ Backed(t, reqs, replies, Servers) /\ FreeIds(t) = FreeIds(e) /\ t.cur = e.cur
      /\ t.curmsg = e.curmsg /\ t.channels = C /\ t.again = e.again /\ t.out = e.out
  BY <1>1, <1>7, <1>8, ChannelsBacked
<1> HIDE DEF t
<1>10. Left1(t)
  BY <1>1, <1>9, LeftMore, LeftLess
<1>11. Backed(r.t, reqs, replies, Servers)
  BY <1>5, <1>9, <1>10, AddBacked DEF AddedBacked, After
<1>12. /\ Settled(v, reqs, replies, Servers) /\ v.cur = d /\ v.curmsg = t.curmsg
       /\ v.channels = t.channels /\ v.again = t.again /\ v.out = t.out
  BY <1>5, <1>9, CurSettled DEF Backed
<1> HIDE DEF r, v
<1>13. Agreed(v)
  <2>1. ASSUME NEW c, NEW p, Claim(v, c, p) PROVE Claim(e, c, p)
    <3>1. CASE \E k \in DOMAIN C : C[k].channel = c /\ C[k].peer = p
      BY <1>8, <3>1 DEF Within, Claim
    <3>2. CASE c = d.channel /\ p = d.peer
      BY <1>3, <1>4, <1>5, <3>2 DEF Claim
    <3>3. CASE e.curmsg # None /\ e.curmsg.req.channel = c /\ e.curmsg.req.peer = p
      BY <3>3 DEF Claim
    <3> QED
      BY <1>9, <1>12, <2>1, <3>1, <3>2, <3>3 DEF Claim
  <2> QED
    BY <1>3, <1>9, <1>12, <2>1, LessAgreed
<1>14. renewing => Awaited(v, reqs, replies, Servers)
  BY <1>6, <1>9, <1>12 DEF Awaited
<1>15. Backed(u, reqs, replies, Servers)
  BY <1>11, <1>12, <1>13, <1>14 DEF Backed
<1> HIDE DEF u
<1> QED
  BY <1>2, <1>15, LeaveSteady

LEMMA RetransmissionSteady ==
  ASSUME IInv, AInv, Rfc(sock), priv_retransmissions_tick
  PROVE  AInv'
<1> DEFINE t == Enter(FALSE)
           a == ResendBinding(t)
           g == GiveUpBinding(t)
           b == [g EXCEPT !.tickBind = FALSE]
           u == IF sock.curmsg.left > 0 THEN a ELSE b
<1>1. Left3(t) /\ t.curmsg = sock.curmsg /\ Backed(t, reqs, replies, Servers)
  BY IdsThere, EnterBacked DEF priv_retransmissions_tick, Leave
<1>2. Leave(u) /\ replies' = replies /\ srv' = srv /\ sock.curmsg # None
  BY DEF priv_retransmissions_tick
<1> HIDE DEF t
<1>3. sock.curmsg.left > 0 => Backed(a, reqs, replies, Servers)
  BY <1>1, <1>2, ResendBacked
<1>4. Backed(g, reqs, replies, Servers)
  BY <1>1, GiveUpBacked, LeftLess
<1> HIDE DEF a, g
<1>5. g \in Sock
  BY <1>4 DEF Backed, Settled
<1>6. b \in Sock /\ Alike(g, b) /\ b.agent = g.agent
  BY <1>5 DEF Sock, Alike
<1> HIDE DEF b
<1>7. Backed(b, reqs, replies, Servers)
  BY <1>4, <1>6, AlikeBacked
<1>8. Backed(u, reqs, replies, Servers)
  BY <1>3, <1>7
<1> HIDE DEF u
<1> QED
  BY <1>2, <1>8, LeaveSteady

\* A permission request is sent again: it binds no channel, and its id is not
\* that of the binding request.
LEMMA AgainBacked ==
  ASSUME NEW R, NEW M, NEW S, NEW t, Backed(t, R, M, S), NEW u \in Sock, NEW q,
         u.compat = t.compat, u.agent = t.agent, u.channels = t.channels, u.cur = t.cur,
         u.curmsg = t.curmsg, u.used = t.used, u.out = t.out \cup {q}, u.again = t.again,
         q.msg.method = "CREATEPERMISSION", q.msg.id \in t.used, t.curmsg # None => q.msg.id # t.curmsg.req.msg.id
  PROVE  Backed(u, R, M, S)
<1>1. \A c, p : Clear(S, R, t.out, c, p) => Clear(S, R, u.out, c, p)
  BY ClearMore
<1>2. Rfc(u) /\ Fits(u)
  BY DEF Backed, Settled, Rfc, Fits
<1>3. Served(u, R, S) /\ Awaited(u, R, M, S)
  BY <1>1 DEF Backed, Settled, Served, Awaited
<1>4. Known(u, R \cup u.out)
  BY DEF Backed, Settled, Known
<1>5. Noted(u, R, M)
  BY DEF Backed, Settled, Noted
<1>6. Agreed(u)
  BY LessAgreed DEF Backed, Claim
<1> QED
  BY <1>2, <1>3, <1>4, <1>5, <1>6 DEF Backed, Settled

LEMMA PermissionTickSteady ==
  ASSUME IInv, AInv, Rfc(sock), NEW i \in 1..Len(sock.permmsgs), create_permission_tick(i)
  PROVE  AInv'
<1> DEFINE t == Enter(FALSE)
           m == sock.permmsgs[i]
           A == stun_agent_forget_transaction(t.agent, m.req.msg.id)
           P == Without(t.permmsgs, i)
           R == [t.permmsgs EXCEPT ![i] = Resent(@)]
           O == t.out \cup {m.req}
           u == [t EXCEPT !.permmsgs = P, !.agent = A]
           w == [t EXCEPT !.permmsgs = R, !.out = O]
           z == Permitted(u, m.req.peer)
           v == IF m.left > 0 THEN w ELSE z
           x == ScheduleTick(v)
<1>1. /\ Backed(t, reqs, replies, Servers) /\ t.permmsgs = sock.permmsgs /\ Sound(t)
      /\ \A k \in DOMAIN t.permmsgs : t.permmsgs[k].req.msg.id \in t.used
  BY EnterBacked, Entered
<1>2. t \in Sock /\ Owned(t) /\ CurOwn(t)
  BY <1>1 DEF Sound
<1>3. Leave(x) /\ replies' = replies /\ srv' = srv
  <2>1. t = Enter(FALSE)
    OBVIOUS
  <2> HIDE DEF t
  <2>2. w = [t EXCEPT !.permmsgs[i] = Resent(@), !.out = @ \cup {m.req}]
    BY <1>1, <1>2 DEF Sock
  <2>3. u = [t EXCEPT !.permmsgs = SubSeq(@, 1, i - 1) \o SubSeq(@, i + 1, Len(@)),
                      !.agent = stun_agent_forget_transaction(@, m.req.msg.id)]
    BY <1>2 DEF Sock, Without
  <2> HIDE DEF w, u
  <2> QED
    BY <2>1, <2>2, <2>3 DEF create_permission_tick
<1> HIDE DEF t
<1>4. /\ i \in DOMAIN t.permmsgs /\ m = t.permmsgs[i] /\ m \in TurnMessage
      /\ t.permmsgs \in Seq(TurnMessage)
  BY <1>1, <1>2, SockFields
<1>5. m.req \in Req /\ m.req.peer \in Peers /\ m.req.msg.id \in t.used
  BY <1>1, <1>4 DEF TurnMessage, Req
<1>6. /\ t.curmsg # None => m.req.msg.id # t.curmsg.req.msg.id
      /\ m.req.msg.method = "CREATEPERMISSION"
  <2>1. m.req.msg.method = "CREATEPERMISSION" /\ m.req.msg.id \in IdsOf(t, "CREATEPERMISSION")
    BY <1>2, <1>4 DEF Owned, PermIds
  <2>2. PICK y \in t.agent.sent : y.method = "CREATEPERMISSION" /\ y.id = m.req.msg.id
    BY <2>1 DEF IdsOf
  <2> QED
    BY <1>2, <2>1, <2>2 DEF CurOwn
<1>7. m.left > 0 => Backed(w, reqs, replies, Servers)
  <2> SUFFICES ASSUME m.left > 0 PROVE Backed(w, reqs, replies, Servers)
    OBVIOUS
  <2>1. R \in Seq(TurnMessage)
    <3>1. Resent(m) \in TurnMessage
      BY <1>4 DEF Resent, TurnMessage
    <3>2. R = [t.permmsgs EXCEPT ![i] = Resent(m)]
      BY <1>4
    <3> QED
      BY <1>4, <3>1, <3>2
  <2>2. O \in SUBSET Req
    BY <1>2, <1>5, SockFields
  <2> HIDE DEF R
  <2>3. /\ w \in Sock /\ w.out = t.out \cup {m.req} /\ w.agent = t.agent /\ w.compat = t.compat
        /\ w.channels = t.channels /\ w.cur = t.cur /\ w.curmsg = t.curmsg /\ w.used = t.used
        /\ w.again = t.again
    BY <1>2, <2>1, <2>2 DEF Sock
  <2> HIDE DEF w, m
  <2> QED
    BY <1>1, <1>5, <1>6, <2>3, AgainBacked
<1>8. Backed(z, reqs, replies, Servers)
  <2>1. A \in StunAgents /\ A.sent \subseteq t.agent.sent
    BY <1>2, SockFields DEF stun_agent_forget_transaction, StunAgents
  <2>2. P \in Seq(TurnMessage)
    BY <1>4, WithoutElements
  <2> HIDE DEF A, P
  <2>3. u \in Sock /\ Alike(t, u) /\ u.agent = A
    BY <1>2, <2>1, <2>2 DEF Sock, Alike
  <2> HIDE DEF u
  <2>4. Backed(u, reqs, replies, Servers)
    BY <1>1, <2>1, <2>3, AlikeBacked
  <2>5. z \in Sock /\ Alike(u, z) /\ z.agent = u.agent
    BY <1>5, <2>3, PermittedAlike
  <2> HIDE DEF z
  <2> QED
    BY <2>4, <2>5, AlikeBacked
<1> HIDE DEF w, z
<1>9. Backed(v, reqs, replies, Servers)
  BY <1>7, <1>8
<1> HIDE DEF v
<1>10. Backed(x, reqs, replies, Servers)
  BY <1>9, TickBacked
<1> HIDE DEF x
<1> QED
  BY <1>3, <1>10, LeaveSteady

LEMMA CloseSteady ==
  ASSUME IInv, AInv, Rfc(sock), socket_close
  PROVE  AInv'
<1> DEFINE n == NewSocket(sock.compat)
           u == [n EXCEPT !.open = FALSE]
           N == [p \in Peers |-> <<>>]
<1>1. sock.compat \in Compats
  BY DEF IInv, Resting, Sock
<1>2. Leave(u) /\ srv' = srv
  BY DEF socket_close
<1>3. n \in Sock
  BY <1>1, NewSocketSound
<1>4. n.agent.sent = {} /\ n.channels = <<>> /\ n.cur = None /\ n.curmsg = None
  BY NewAgentType DEF NewSocket
<1> HIDE DEF n
<1>5. sock' = [u EXCEPT !.late = FALSE, !.used = {}, !.out = {}, !.data = N]
  BY <1>2 DEF Leave
<1> HIDE DEF N
<1>6. sock'.agent.sent = {} /\ sock'.channels = <<>> /\ sock'.cur = None /\ sock'.curmsg = None
  BY <1>3, <1>4, <1>5 DEF Sock
<1>7. Fits(sock')
  BY <1>6, FS_EmptySet, SavedIdsAssumption DEF Fits
<1> DEFINE T == [bound |-> srv', older |-> older']
<1>8. Served(sock', reqs', T) /\ Awaited(sock', reqs', replies', T) /\ Known(sock', reqs')
  BY <1>6 DEF Served, Awaited, Known
<1>9. Agreed(sock')
  BY <1>6 DEF Agreed, Claim
<1> QED
  BY <1>2, <1>7, <1>8, <1>9 DEF AInv, Steady, Servers

\* The server does something: Clear is kept, or became so of the binding to
\* come.
LEMMA ServerSteady ==
  ASSUME IInv, AInv, Rfc(sock), sock' = sock, reqs' \subseteq reqs,
         srv' \in [Channels -> Peers \cup {None}],
         \A c \in Channels, p \in Peers :
            Clear(Servers, reqs, {}, c, p) => Clear([bound |-> srv', older |-> older'], reqs', {}, c, p),
         NEW N, replies' = replies \cup N,
         \A n \in N :
            sock.cur # None /\ n.msg.id = sock.curmsg.req.msg.id /\ n.msg.class = "RESPONSE"
              /\ sock.curmsg.req.channel = sock.cur.channel /\ sock.curmsg.req.peer = sock.cur.peer
              /\ sock.cur.channel \in Channels
            => Clear([bound |-> srv', older |-> older'], reqs', {}, sock.cur.channel, sock.cur.peer)
  PROVE  AInv'
<1> DEFINE T == [bound |-> srv', older |-> older']
<1>1. /\ Fits(sock) /\ Served(sock, reqs, Servers) /\ Awaited(sock, reqs, replies, Servers)
      /\ Known(sock, reqs) /\ Agreed(sock)
  BY DEF AInv, Steady
<1>2. sock \in Sock /\ sock.out = {}
  BY DEF IInv, Resting
<1> HIDE DEF T
<1>3. \A c \in Channels, p \in Peers : Clear(Servers, reqs, {}, c, p) => Clear(T, reqs', {}, c, p)
  BY DEF T
<1>4. Served(sock, reqs', T)
  <2> SUFFICES ASSUME NEW i \in DOMAIN sock.channels,
                      sock.channels[i].channel \in Channels \ sock.again
               PROVE  Clear(T, reqs', {}, sock.channels[i].channel, sock.channels[i].peer)
    BY <1>2 DEF Served
  <2>1. sock.channels[i].peer \in Peers
    BY <1>2, SockFields DEF ChannelBinding
  <2> QED
    BY <1>1, <1>2, <1>3, <2>1 DEF Served
<1>5. Awaited(sock, reqs', replies', T)
  <2> DEFINE c == sock.cur.channel
             p == sock.cur.peer
             Of(R) == \A m \in R : m.msg.id = sock.curmsg.req.msg.id => m.msg.class # "RESPONSE"
             q == sock.curmsg.req.channel = c /\ sock.curmsg.req.peer = p
  <2> SUFFICES ASSUME sock.cur # None, c \in Channels \ sock.again
               PROVE  Clear(T, reqs', {}, c, p) \/ (q /\ Of(replies'))
    BY <1>1, <1>2 DEF Awaited
  <2>1. Clear(Servers, reqs, {}, c, p) \/ (q /\ Of(replies))
    BY <1>1, <1>2 DEF Awaited
  <2>2. p \in Peers
    BY <1>2, SockFields DEF ChannelBinding
  <2>3. CASE Clear(Servers, reqs, {}, c, p)
    BY <1>3, <2>2, <2>3
  <2>4. CASE q /\ Of(replies)
    <3>1. \A n \in N : q /\ n.msg.id = sock.curmsg.req.msg.id /\ n.msg.class = "RESPONSE"
                       => Clear(T, reqs', {}, c, p)
      BY DEF T
    <3>2. replies' = replies \cup N
      OBVIOUS
    <3> HIDE DEF q, c, p
    <3> QED
      BY <2>4, <3>1, <3>2
  <2> QED
    BY <2>1, <2>3, <2>4
<1>6. Known(sock, reqs')
  BY <1>1 DEF Known
<1>7. Steady(sock, reqs', replies', T)
  BY <1>1, <1>4, <1>5, <1>6 DEF Steady
<1> QED
  BY <1>7 DEF AInv, T, Servers

\* The server answers.  When it binds a channel, what was asked for the channel
\* before is older.
LEMMA AnswerSteady ==
  ASSUME IInv, AInv, Rfc(sock), NEW r \in reqs, NEW code \in {0, 401, 438, 403}, Answer(r, code)
  PROVE  AInv'
<1> DEFINE binds == code = 0 /\ r.msg.method = "CHANNELBIND"
           T == [bound |-> srv', older |-> older']
<1>1. PICK n \in Answers :
        /\ replies' = replies \cup {n} /\ n.msg.id = r.msg.id
        /\ n.msg.class = IF code = 0 THEN "RESPONSE" ELSE "ERROR"
  BY Answered
<1>2. sock' = sock /\ reqs' = reqs \ {r}
  BY DEF Answer
<1>3. /\ srv' = IF binds THEN [srv EXCEPT ![r.channel] = r.peer] ELSE srv
      /\ older' = (IF binds THEN older \cup Binds(reqs, r.channel) ELSE older) \ {r}
  BY DEF Answer
<1>4. binds => srv[r.channel] \in {None, r.peer}
  BY DEF Answer
<1>5. r.peer \in Peers /\ sock \in Sock /\ srv \in [Channels -> Peers \cup {None}]
  BY DEF IInv, Req, Resting, AInv
<1>6. binds => r \in Binds(reqs, r.channel)
  BY DEF Binds
<1>7. binds => code = 0 /\ r.msg.method = "CHANNELBIND"
  OBVIOUS
<1>8. code = 0 /\ r.msg.method = "CHANNELBIND" => binds
  OBVIOUS
<1> HIDE DEF binds
<1>9. srv' \in [Channels -> Peers \cup {None}]
  BY <1>3, <1>5
<1>10. /\ T.bound = srv' /\ T.older = older'
       /\ Servers.bound = srv /\ Servers.older = older
  BY DEF Servers
<1> HIDE DEF T
<1>11. ASSUME NEW c \in Channels, NEW p \in Peers, Clear(Servers, reqs, {}, c, p)
       PROVE  Clear(T, reqs', {}, c, p)
  <2>1. /\ srv[c] \in {None, p}
        /\ \A q \in Binds(reqs \cup {}, c) : q.peer # p => srv[c] = p /\ q \in older
    BY <1>10, <1>11 DEF Clear
  <2>2. \A q \in Binds(reqs' \cup {}, c) : q \in Binds(reqs \cup {}, c) /\ q # r
    BY <1>2 DEF Binds
  <2>3. CASE binds /\ c = r.channel
    <3>1. srv'[c] = r.peer
      BY <1>3, <1>5, <2>3
    <3>2. r.peer = p
      <4>1. r \in Binds(reqs \cup {}, c)
        BY <1>6, <2>3
      <4>2. p # None
        BY TurnAssumption
      <4> QED
        BY <1>4, <2>1, <2>3, <4>1, <4>2, TurnAssumption
    <3>3. ASSUME NEW q \in Binds(reqs' \cup {}, c), q.peer # p
          PROVE  srv'[c] = p /\ q \in older' /\ q \notin {}
      BY <1>3, <2>1, <2>2, <2>3, <3>1, <3>2, <3>3
    <3> QED
      BY <1>10, <3>1, <3>2, <3>3 DEF Clear
  <2>4. CASE ~(binds /\ c = r.channel)
    <3>1. srv'[c] = srv[c]
      BY <1>3, <1>5, <2>4
    <3>2. ASSUME NEW q \in Binds(reqs' \cup {}, c), q.peer # p
          PROVE  srv'[c] = p /\ q \in older' /\ q \notin {}
      BY <1>3, <2>1, <2>2, <3>1, <3>2
    <3> QED
      BY <1>10, <2>1, <3>1, <3>2 DEF Clear
  <2> QED
    BY <2>3, <2>4
<1>12. ASSUME binds, r.channel \in Channels PROVE Clear(T, reqs', {}, r.channel, r.peer)
  <2>1. srv'[r.channel] = r.peer
    BY <1>3, <1>5, <1>12
  <2>2. ASSUME NEW q \in Binds(reqs' \cup {}, r.channel)
        PROVE  srv'[r.channel] = r.peer /\ q \in older' /\ q \notin {}
    <3>1. q \in Binds(reqs, r.channel) /\ q # r
      BY <1>2 DEF Binds
    <3>2. q \in older'
      BY <1>3, <1>12, <3>1
    <3> QED
      BY <2>1, <3>2
  <2> QED
    BY <1>10, <2>1, <2>2 DEF Clear
<1>13. ASSUME sock.cur # None, n.msg.id = sock.curmsg.req.msg.id, n.msg.class = "RESPONSE",
              sock.curmsg.req.channel = sock.cur.channel, sock.curmsg.req.peer = sock.cur.peer,
              sock.cur.channel \in Channels
       PROVE  Clear(T, reqs', {}, sock.cur.channel, sock.cur.peer)
  <2>1. code = 0
    BY <1>1, <1>13
  <2>2. sock.curmsg # None /\ Known(sock, reqs)
    BY <1>13 DEF AInv, Steady, Awaited
  <2>3. r = sock.curmsg.req /\ r.msg.method = "CHANNELBIND"
    <3>1. r.msg.id = sock.curmsg.req.msg.id
      BY <1>1, <1>13
    <3>2. \A q \in reqs : q.msg.id = sock.curmsg.req.msg.id => q = sock.curmsg.req
      BY <2>2, Zenon DEF Known
    <3>3. r = sock.curmsg.req
      BY <3>1, <3>2, Zenon
    <3> QED
      BY <2>2, <3>3, Zenon DEF Known
  <2>4. r.channel = sock.cur.channel /\ r.peer = sock.cur.peer
    BY <1>13, <2>3
  <2>5. binds
    BY <1>8, <2>1, <2>3
  <2> QED
    BY <1>12, <1>13, <2>4, <2>5
<1> DEFINE N == {n}
<1>14. replies' = replies \cup N /\ reqs' \subseteq reqs
  BY <1>1, <1>2
<1>15. \A m \in N :
          sock.cur # None /\ m.msg.id = sock.curmsg.req.msg.id /\ m.msg.class = "RESPONSE"
            /\ sock.curmsg.req.channel = sock.cur.channel /\ sock.curmsg.req.peer = sock.cur.peer
            /\ sock.cur.channel \in Channels
          => Clear(T, reqs', {}, sock.cur.channel, sock.cur.peer)
  BY <1>13
<1> HIDE DEF N
<1> QED
  BY <1>2, <1>9, <1>11, <1>14, <1>15, ServerSteady DEF T

\* A binding of the server lapses, and the requests sent before it was made are
\* gone: what is left asks for the channel for the peer that the socket holds
\* it to be of.
LEMMA LapseSteady ==
  ASSUME IInv, AInv, Rfc(sock), NEW c \in Channels, Lapse(c)
  PROVE  AInv'
<1> DEFINE T == [bound |-> srv', older |-> older']
<1>1. /\ sock' = sock /\ reqs' = reqs \ Binds(older, c) /\ older' = older \ Binds(older, c)
      /\ srv' = [srv EXCEPT ![c] = None] /\ replies' = replies
  BY DEF Lapse
<1>2. srv \in [Channels -> Peers \cup {None}]
  BY DEF AInv
<1>3. srv' \in [Channels -> Peers \cup {None}] /\ srv'[c] = None
      /\ \A d \in Channels : d # c => srv'[d] = srv[d]
  BY <1>1, <1>2
<1>4. /\ T.bound = srv' /\ T.older = older'
      /\ Servers.bound = srv /\ Servers.older = older
  BY DEF Servers
<1> HIDE DEF T
<1>5. ASSUME NEW d \in Channels, NEW p \in Peers, Clear(Servers, reqs, {}, d, p)
      PROVE  Clear(T, reqs', {}, d, p)
  <2>1. /\ srv[d] \in {None, p}
        /\ \A q \in Binds(reqs \cup {}, d) : q.peer # p => srv[d] = p /\ q \in older
    BY <1>4, <1>5 DEF Clear
  <2>2. ASSUME NEW q \in Binds(reqs' \cup {}, d)
        PROVE  q \in Binds(reqs \cup {}, d) /\ q \in reqs /\ q \notin Binds(older, c)
               /\ q.msg.method = "CHANNELBIND" /\ q.channel = d
    BY <1>1 DEF Binds
  <2>3. ASSUME NEW q \in Binds(reqs' \cup {}, d), q.peer # p
        PROVE  srv'[d] = p /\ q \in older' /\ q \notin {}
    <3>1. srv[d] = p /\ q \in older
      BY <2>1, <2>2, <2>3
    <3>2. d # c
      BY <2>2, <3>1 DEF Binds
    <3> QED
      BY <1>1, <1>3, <2>2, <3>1, <3>2
  <2> QED
    BY <1>3, <1>4, <2>1, <2>3 DEF Clear
<1> DEFINE N == {x \in replies : FALSE}
<1>6. replies' = replies \cup N /\ reqs' \subseteq reqs /\ \A n \in N : FALSE
  BY <1>1
<1> HIDE DEF N
<1>7. sock' = sock
  BY <1>1
<1>8. srv' \in [Channels -> Peers \cup {None}]
  BY <1>3
<1> QED
  BY <1>5, <1>6, <1>7, <1>8, ServerSteady DEF T

LEMMA PeerSendsSteady ==
  ASSUME IInv, AInv, Rfc(sock), NEW p \in budget.who, PeerSends(p)
  PROVE  AInv'
<1> DEFINE m == stun_agent_init_message(sock.agent, "INDICATION", "IND_DATA", 0,
                                        {"DATA", "MAGIC_COOKIE"})
           n == [msg |-> m, from |-> p]
<1>1. /\ sock' = sock /\ reqs' = reqs /\ srv' = srv /\ older' = older
      /\ replies' = replies \cup {n}
  BY DEF PeerSends
<1>2. n.msg.class # "RESPONSE"
  BY DEF stun_agent_init_message
<1> HIDE DEF n
<1>3. srv' \in [Channels -> Peers \cup {None}]
  BY <1>1 DEF AInv
<1>4. [bound |-> srv', older |-> older'] = Servers
  BY <1>1 DEF Servers
<1>5. \A c \in Channels, o \in Peers :
         Clear(Servers, reqs, {}, c, o) => Clear([bound |-> srv', older |-> older'], reqs', {}, c, o)
  BY <1>1, <1>4
<1> DEFINE N == {n}
<1>6. replies' = replies \cup N /\ \A x \in N : x.msg.class # "RESPONSE"
  BY <1>1, <1>2
<1> HIDE DEF N
<1> QED
  BY <1>1, <1>3, <1>5, <1>6, ServerSteady

\* The server's bindings are of its channels.
LEMMA ServerType ==
  ASSUME IInv, srv \in [Channels -> Peers \cup {None}], [Next]_vars
  PROVE  srv' \in [Channels -> Peers \cup {None}]
<1>1. CASE srv' = srv
  BY <1>1
<1>2. ASSUME NEW r \in reqs, NEW code \in {0, 401, 438, 403}, Answer(r, code)
      PROVE  srv' \in [Channels -> Peers \cup {None}]
  <2>1. r.peer \in Peers
    BY DEF IInv, Req
  <2>2. srv' = srv \/ srv' = [srv EXCEPT ![r.channel] = r.peer]
    BY <1>2 DEF Answer
  <2> QED
    BY <2>1, <2>2
<1>3. ASSUME NEW c \in Channels, Lapse(c) PROVE srv' \in [Channels -> Peers \cup {None}]
  <2>1. srv' = [srv EXCEPT ![c] = None]
    BY <1>3 DEF Lapse
  <2> QED
    BY <2>1
<1>4. \/ srv' = srv
      \/ \E r \in reqs, code \in {0, 401, 438, 403} : Answer(r, code)
      \/ \E c \in Channels : Lapse(c)
  BY DEF Next, vars, set_peer, PeerSends, send_message, recv_message, priv_forget_send_request,
     priv_permission_timeout, priv_binding_timeout, priv_binding_expired_timeout,
     priv_retransmissions_tick, create_permission_tick, socket_close
<1> QED
  BY <1>1, <1>2, <1>3, <1>4

-----------------------------------------------------------------------------
\* The theorems

LEMMA InitInv == Init => IInv /\ Asked(sock)
<1> SUFFICES ASSUME Init PROVE IInv /\ Asked(sock)
  OBVIOUS
<1>1. PICK s \in Setups :
        /\ sock = NewSocket(s.compat)
        /\ budget = [data |-> s.data, peers |-> s.peers, errors |-> s.errors,
                     timers |-> s.timers, closes |-> s.closes, inds |-> s.inds,
                     who |-> s.who]
  BY DEF Init
<1>2. s.compat \in Compats
  BY DEF Compats
<1> DEFINE t == [NewSocket(s.compat) EXCEPT !.open = TRUE]
           N == [p \in Peers |-> <<>>]
<1>3. Resting(t) /\ Asked(t) /\ t.queues = N
  BY <1>2, NewSocketSound
<1>4. NewSocket(s.compat) = t
  <2> DEFINE n == NewSocket(s.compat)
  <2>1. n \in Sock /\ n.open = TRUE
    BY <1>2, NewSocketSound
  <2> HIDE DEF n
  <2>2. [n EXCEPT !.open = TRUE] = n
    BY <2>1 DEF Sock
  <2> QED
    BY <2>2 DEF n
<1> HIDE DEF t
<1>5. Resting(sock) /\ Asked(sock) /\ sock.queues = N
  BY <1>1, <1>3, <1>4
<1>6. budget \in Budget
  BY <1>1, TurnAssumption DEF Budget
<1>7. reqs = {} /\ replies = {} /\ app = [p \in Peers |-> 0] /\ wire = N
  BY DEF Init
<1>8. reqs \in SUBSET Req /\ RequestsOk(reqs) /\ replies \in SUBSET Answers
      /\ RepliesOk(sock, replies)
  BY <1>7 DEF RequestsOk, RepliesOk
<1>9. app \in [Peers -> Nat] /\ wire \in [Peers -> Seq(Nat)]
  BY <1>7
<1>10. ASSUME NEW p \in Peers PROVE wire[p] \o sock.queues[p] = [i \in 1..app[p] |-> i]
  <2>1. wire[p] = <<>> /\ sock.queues[p] = <<>> /\ app[p] = 0
    BY <1>5, <1>7
  <2>2. <<>> \o <<>> = <<>>
    OBVIOUS
  <2>3. [i \in 1..0 |-> i] = <<>>
    OBVIOUS
  <2> QED
    BY <2>1, <2>2, <2>3
<1>11. DataInOrder
  BY <1>10 DEF DataInOrder
<1> QED
  BY <1>5, <1>6, <1>8, <1>9, <1>11 DEF IInv

LEMMA NextInv == IInv /\ [Next]_vars => Kept
<1> SUFFICES ASSUME IInv, [Next]_vars PROVE Kept
  OBVIOUS
<1>1. ASSUME NEW p \in budget.who, set_peer(p) PROVE Kept
  BY <1>1, SetPeerKeeps
<1>2. ASSUME NEW p \in budget.who, PeerSends(p) PROVE Kept
  BY <1>2, PeerSendsKeeps
<1>3. ASSUME NEW p \in budget.who, NEW late \in Late, send_message(p, late) PROVE Kept
  BY <1>3, SendMessageKeeps
<1>4. ASSUME NEW m \in replies, NEW late \in Late, recv_message(m, late) PROVE Kept
  BY <1>4, RecvMessageKeeps
<1>5. ASSUME NEW id \in sock.sendreqs, priv_forget_send_request(id) PROVE Kept
  BY <1>5, ForgetSendKeeps
<1>6. ASSUME priv_permission_timeout PROVE Kept
  BY <1>6, PermissionTimeoutKeeps
<1>7. ASSUME NEW i \in 1..Len(sock.channels), priv_binding_timeout(i) PROVE Kept
  BY <1>7, BindingTimeoutKeeps
<1>8. ASSUME NEW i \in 1..Len(sock.channels), priv_binding_expired_timeout(i) PROVE Kept
  BY <1>8, BindingExpiredKeeps
<1>9. ASSUME priv_retransmissions_tick PROVE Kept
  BY <1>9, RetransmissionKeeps
<1>10. ASSUME NEW i \in 1..Len(sock.permmsgs), create_permission_tick(i) PROVE Kept
  BY <1>10, PermissionTickKeeps
<1>11. ASSUME socket_close PROVE Kept
  BY <1>11, CloseKeeps
<1>12. ASSUME NEW r \in reqs, NEW code \in {0, 401, 438, 403}, Answer(r, code) PROVE Kept
  BY <1>12, AnswerKeeps
<1>13. ASSUME NEW c \in Channels, Lapse(c) PROVE Kept
  BY <1>13, LapseKeeps
<1>14. ASSUME UNCHANGED vars PROVE Kept
  <2>1. sock' = sock /\ wire' = wire /\ app' = app /\ reqs' = reqs /\ replies' = replies
        /\ budget' = budget
    BY <1>14 DEF vars
  <2>2. budget' \in Budget /\ replies' \in SUBSET Answers /\ RepliesOk(sock, replies')
    BY <2>1 DEF IInv
  <2> QED
    BY <2>1, <2>2, AnswersKeep
<1> QED
  BY <1>1, <1>2, <1>3, <1>4, <1>5, <1>6, <1>7, <1>8, <1>9, <1>10, <1>11, <1>12, <1>13, <1>14
  DEF Next

LEMMA InitSteady == Init => AInv
<1> SUFFICES ASSUME Init PROVE AInv
  OBVIOUS
<1>1. PICK s \in Setups : sock = NewSocket(s.compat)
  BY DEF Init
<1>2. sock.agent.sent = {} /\ sock.channels = <<>> /\ sock.cur = None /\ sock.curmsg = None
  BY <1>1, NewAgentType DEF NewSocket
<1>3. Fits(sock)
  BY <1>2, FS_EmptySet, SavedIdsAssumption DEF Fits
<1>4. Served(sock, reqs, Servers) /\ Awaited(sock, reqs, replies, Servers) /\ Known(sock, reqs)
  BY <1>2 DEF Served, Awaited, Known
<1>5. Agreed(sock)
  BY <1>2 DEF Agreed, Claim
<1> QED
  BY <1>3, <1>4, <1>5 DEF AInv, Steady, Init

LEMMA NextSteady == IInv /\ AInv /\ [Next]_vars => AInv'
<1> SUFFICES ASSUME IInv, AInv, [Next]_vars PROVE AInv'
  OBVIOUS
<1> DEFINE R == Rfc(sock)
<1>1. ASSUME R, NEW p \in budget.who, set_peer(p) PROVE AInv'
  BY <1>1, SetPeerSteady
<1>2. ASSUME R, NEW p \in budget.who, PeerSends(p) PROVE AInv'
  BY <1>2, PeerSendsSteady
<1>3. ASSUME R, NEW p \in budget.who, NEW late \in Late, send_message(p, late) PROVE AInv'
  BY <1>3, SendMessageSteady
<1>4. ASSUME R, NEW m \in replies, NEW late \in Late, recv_message(m, late) PROVE AInv'
  BY <1>4, RecvMessageSteady
<1>5. ASSUME R, NEW id \in sock.sendreqs, priv_forget_send_request(id) PROVE AInv'
  BY <1>5, ForgetSendSteady
<1>6. ASSUME R, priv_permission_timeout PROVE AInv'
  BY <1>6, PermissionTimeoutSteady
<1>7. ASSUME R, NEW i \in 1..Len(sock.channels), priv_binding_timeout(i) PROVE AInv'
  BY <1>7, BindingTimeoutSteady
<1>8. ASSUME R, NEW i \in 1..Len(sock.channels), priv_binding_expired_timeout(i) PROVE AInv'
  BY <1>8, BindingExpiredSteady
<1>9. ASSUME R, priv_retransmissions_tick PROVE AInv'
  BY <1>9, RetransmissionSteady
<1>10. ASSUME R, NEW i \in 1..Len(sock.permmsgs), create_permission_tick(i) PROVE AInv'
  BY <1>10, PermissionTickSteady
<1>11. ASSUME R, socket_close PROVE AInv'
  BY <1>11, CloseSteady
<1>12. ASSUME R, NEW r \in reqs, NEW code \in {0, 401, 438, 403}, Answer(r, code) PROVE AInv'
  BY <1>12, AnswerSteady
<1>13. ASSUME R, NEW c \in Channels, Lapse(c) PROVE AInv'
  BY <1>13, LapseSteady
<1>14. ASSUME UNCHANGED vars PROVE AInv'
  BY <1>14 DEF vars, AInv, Servers
<1>15. ASSUME ~R PROVE AInv'
  <2>1. sock'.compat = sock.compat
    BY NextInv DEF Kept
  <2>2. (srv \in [Channels -> Peers \cup {None}])'
    BY ServerType DEF AInv
  <2> QED
    BY <1>15, <2>1, <2>2, OtherSteady
<1> HIDE DEF R
<1> QED
  BY <1>1, <1>2, <1>3, <1>4, <1>5, <1>6, <1>7, <1>8, <1>9, <1>10, <1>11, <1>12, <1>13, <1>14,
     <1>15 DEF Next

\* The invariant holds throughout: types, transactions, timers and the order
\* of the data, whatever the server answers and the timers do.
THEOREM TurnInvariant == Spec => []IInv
<1>1. Init => IInv
  BY InitInv
<1>2. IInv /\ [Next]_vars => IInv'
  BY NextInv DEF Kept
<1> QED
  BY <1>1, <1>2, PTL DEF Spec

\* Data leaves in the order in which it was sent, none lost and none twice, on
\* the way through the queue that waits for a permission (socket_send_message,
\* socket_dequeue_all_data).
THEOREM DataInOrderHolds == Spec => []DataInOrder
<1>1. IInv => DataInOrder
  BY DEF IInv
<1> QED
  BY <1>1, TurnInvariant, PTL

\* A permission or Send request that the agent remembers is outstanding, so that
\* none of its places is lost to them, and the agent remembers a permission
\* request as long as it is outstanding, so that its answer is accepted
\* (priv_forget_send_request, stun_agent_forget_transaction).
THEOREM TransactionsOwnedHolds == Spec => []TransactionsOwned
<1>1. IInv => TransactionsOwned
  <2> SUFFICES ASSUME IInv PROVE TransactionsOwned
    OBVIOUS
  <2>1. sock \in Sock /\ IdsOf(sock, "CREATEPERMISSION") = PermIds(sock)
        /\ IdsOf(sock, "SEND") \subseteq sock.sendreqs
    BY DEF IInv, Resting, Owned, SendsOk
  <2>2. DOMAIN sock.permmsgs = 1..Len(sock.permmsgs)
    BY <2>1, SockFields
  <2>3. {s.id : s \in {x \in sock.agent.sent : x.method \in {"CREATEPERMISSION", "SEND"}}}
          = IdsOf(sock, "CREATEPERMISSION") \cup IdsOf(sock, "SEND")
    BY DEF IdsOf
  <2>4. PermIds(sock) = {sock.permmsgs[i].req.msg.id : i \in 1..Len(sock.permmsgs)}
    BY <2>2 DEF PermIds
  <2> QED
    BY <2>1, <2>3, <2>4 DEF TransactionsOwned
<1> QED
  BY <1>1, TurnInvariant, PTL

\* Every channel binding has the timer that renews it or removes it
\* (priv_binding_timeout, priv_binding_expired_timeout).
THEOREM BindingsTimedHolds == Spec => []BindingsTimed
<1>1. IInv => BindingsTimed
  <2> SUFFICES ASSUME IInv PROVE BindingsTimed
    OBVIOUS
  <2>1. sock \in Sock /\ ChannelsOk(sock)
    BY DEF IInv, Resting
  <2>2. DOMAIN sock.channels = 1..Len(sock.channels)
    BY <2>1, SockFields
  <2> QED
    BY <2>1, <2>2 DEF BindingsTimed, ChannelsOk
<1> QED
  BY <1>1, TurnInvariant, PTL

\* Data that the server sends on a channel is taken for data of the peer that
\* the server has bound to the channel, or of none: through answers that are
\* late, twice or of requests given up, and bindings that end at the server
\* before or after they do at the socket.  A number that the socket gave to a
\* second binding while the first was there is left out
\* (priv_add_channel_binding, nice_udp_turn_socket_parse_recv,
\* priv_binding_expired_timeout).
THEOREM AttributionHolds == Spec => []Attribution
<1> DEFINE J == IInv /\ AInv
<1>1. Init => J
  BY InitInv, InitSteady
<1>2. J /\ [Next]_vars => J'
  BY NextInv, NextSteady DEF Kept
<1>3. J => Attribution
  <2> SUFFICES ASSUME J, Rfc(sock), NEW c \in Channels \ sock.again, srv[c] # None
               PROVE  Lookup(sock, c) \in {srv[c], None}
    BY DEF Attribution
  <2>1. sock \in Sock /\ Served(sock, reqs, Servers)
    BY DEF IInv, Resting, AInv, Steady
  <2> DEFINE C == sock.channels
             match == {i \in 1..Len(C) : ~Rfc(sock) \/ C[i].channel = c}
             i == CHOOSE k \in match : \A j \in match : k <= j
  <2>2. DOMAIN C = 1..Len(C) /\ Len(C) \in Nat
    BY <2>1, SockFields
  <2>3. Lookup(sock, c) = IF match = {} THEN None ELSE C[i].peer
    BY DEF Lookup
  <2>4. ASSUME match # {} PROVE C[i].peer = srv[c]
    <3>1. match \subseteq 1..Len(C)
      OBVIOUS
    <3> HIDE DEF match
    <3>2. i \in match
      BY <2>2, <2>4, <3>1, FirstOf
    <3> HIDE DEF i
    <3>3. i \in DOMAIN C /\ C[i].channel = c
      BY <2>2, <3>2 DEF match
    <3>4. Clear(Servers, reqs, sock.out, C[i].channel, C[i].peer)
      BY <2>1, <3>3 DEF Served
    <3> QED
      BY <3>3, <3>4 DEF Clear, Servers
  <2> HIDE DEF i, match
  <2> QED
    BY <2>3, <2>4
<1> HIDE DEF J
<1> QED
  BY <1>1, <1>2, <1>3, PTL DEF Spec

\* The table of the agent has room for a transaction.
RoomLeft == Cardinality(sock.agent.sent) < MaxSavedIds

\* As long as the table of transactions never fills up, whatever the socket
\* waits for has a running timer: data that waits for a permission has a
\* request that is resent or given up, through answers that race with the
\* timers.  Without room it is not so: priv_send_create_permission then leaves
\* the peer registered without a request.
THEOREM WorkTimedHolds == Spec /\ []RoomLeft => []WorkTimed
<1> DEFINE J == IInv /\ Asked(sock)
<1>1. Init => J
  BY InitInv
<1>2. J /\ RoomLeft /\ [Next]_vars => J'
  <2>1. RoomLeft => Room(sock)
    BY DEF RoomLeft, Room
  <2> QED
    BY <2>1, NextInv DEF Kept
<1>3. J => WorkTimed
  <2> SUFFICES ASSUME IInv, Asked(sock) PROVE WorkTimed
    OBVIOUS
  <2>1. sock \in Sock /\ ChannelsOk(sock) /\ Ticking(sock)
    BY DEF IInv, Resting
  <2>2. DOMAIN sock.channels = 1..Len(sock.channels) /\ sock.permmsgs \in Seq(TurnMessage)
        /\ DOMAIN sock.permmsgs = 1..Len(sock.permmsgs)
    BY <2>1, SockFields
  <2>3. BindingsTimed
    BY <2>1, <2>2 DEF BindingsTimed, ChannelsOk
  <2>4. ASSUME NEW p \in Peers, sock.queues[p] # <<>>
        PROVE  (\E i \in 1..Len(sock.permmsgs) : sock.permmsgs[i].req.peer = p) /\ sock.tickPerm
    <3>1. PICK i \in 1..Len(sock.permmsgs) : sock.permmsgs[i].req.peer = p
      BY <2>2, <2>4 DEF Asked
    <3>2. sock.permmsgs # <<>>
      BY <2>2, <3>1
    <3> QED
      BY <2>1, <3>1, <3>2 DEF Ticking
  <2> QED
    BY <2>3, <2>4 DEF WorkTimed, WaitsForRequest
<1> HIDE DEF J
<1> QED
  BY <1>1, <1>2, <1>3, PTL DEF Spec
=============================================================================
