-------------------------- MODULE PseudoTcpProofs --------------------------
(***************************************************************************)
(* Proofs about PseudoTcp, for any sizes of buffers, segments and sequence *)
(* numbers, any network and any calls of the two users: what an end keeps  *)
(* about the bytes it sends agrees.  The segments of its send list cover   *)
(* its send buffer, what is in flight is what was transmitted of them, and *)
(* the retransmission timer runs while something is in flight.             *)
(*                                                                         *)
(* The invariant is about one socket; each operator on the socket has a    *)
(* lemma that says what it keeps, whatever the packets say.                *)
(***************************************************************************)
EXTENDS PseudoTcp, Recursion, FiniteSetTheorems, SequenceTheorems

-----------------------------------------------------------------------------
\* Sequence numbers

Seqs == 0 .. (SeqMod - 1)

LEMMA SeqModNat == SeqMod \in Nat /\ SeqMod > 16
BY SizesAssumption

LEMMA Quotient ==
  ASSUME NEW a \in Int
  PROVE  /\ a = SeqMod * (a \div SeqMod) + (a % SeqMod)
         /\ a \div SeqMod \in Int /\ a % SeqMod \in Seqs
BY SeqModNat DEF Seqs

LEMMA RemainderUnique ==
  ASSUME NEW q \in Int, NEW p \in Int, NEW r \in Seqs, NEW s \in Seqs,
         SeqMod * q + r = SeqMod * p + s
  PROVE  r = s
BY SeqModNat DEF Seqs

LEMMA Remainder ==
  ASSUME NEW a \in Int, NEW q \in Int, NEW r \in Seqs, a = SeqMod * q + r
  PROVE  r = a % SeqMod
<1>1. a = SeqMod * (a \div SeqMod) + (a % SeqMod) /\ a \div SeqMod \in Int /\ a % SeqMod \in Seqs
  BY Quotient
<1>2. SeqMod * q + r = SeqMod * (a \div SeqMod) + (a % SeqMod)
  BY <1>1
<1> QED
  BY <1>1, <1>2, RemainderUnique, Zenon

LEMMA Distribute ==
  ASSUME NEW q \in Int, NEW p \in Int
  PROVE  /\ SeqMod * (q + p) = SeqMod * q + SeqMod * p
         /\ SeqMod * (q - p) = SeqMod * q - SeqMod * p
         /\ SeqMod * q \in Int /\ SeqMod * p \in Int
BY SeqModNat

\* A remainder may be taken before adding, or before subtracting from
LEMMA RemainderFirst ==
  ASSUME NEW a \in Int, NEW n \in Int
  PROVE  /\ ((a % SeqMod) + n) % SeqMod = (a + n) % SeqMod
         /\ (n - (a % SeqMod)) % SeqMod = (n - a) % SeqMod
<1> DEFINE r == a % SeqMod
           p == a \div SeqMod
<1>1. r \in Seqs /\ p \in Int /\ a = SeqMod * p + r /\ r \in Int
  BY Quotient, SeqModNat DEF Seqs
<1> HIDE DEF r, p
<1>2. ASSUME NEW b \in Int, NEW c \in Int, NEW k \in Int, c = b + SeqMod * k
      PROVE  b % SeqMod = c % SeqMod
  <2> DEFINE q == b \div SeqMod
             d == b % SeqMod
  <2>1. q \in Int /\ d \in Seqs /\ b = SeqMod * q + d /\ d \in Int
    BY <1>2, Quotient, SeqModNat DEF Seqs
  <2> HIDE DEF q, d
  <2>2. SeqMod * q \in Int /\ SeqMod * k \in Int /\ q + k \in Int
        /\ SeqMod * (q + k) = SeqMod * q + SeqMod * k
    BY <1>2, <2>1, Distribute
  <2>3. c = SeqMod * (q + k) + d
    BY <1>2, <2>1, <2>2
  <2>4. d = c % SeqMod
    BY <1>2, <2>1, <2>2, <2>3, Remainder
  <2> QED
    BY <2>4 DEF d
<1>3. SeqMod * p \in Int /\ -p \in Int /\ SeqMod * (0 - p) = 0 - SeqMod * p
  BY <1>1, SeqModNat, Distribute
<1>4. (r + n) % SeqMod = (a + n) % SeqMod
  <2>1. r + n \in Int /\ a + n \in Int /\ a + n = (r + n) + SeqMod * p
    BY <1>1, <1>3
  <2> QED
    BY <1>1, <1>2, <2>1
<1>5. (n - r) % SeqMod = (n - a) % SeqMod
  <2>1. n - r \in Int /\ n - a \in Int /\ n - r = (n - a) + SeqMod * p
    BY <1>1, <1>3
  <2> QED
    BY <1>1, <1>2, <2>1
<1> QED
  BY <1>4, <1>5 DEF r

LEMMA SmallRemainder ==
  ASSUME NEW a \in Seqs
  PROVE  a % SeqMod = a
BY SeqModNat DEF Seqs

LEMMA SeqTypes ==
  ASSUME NEW a \in Int, NEW b \in Int
  PROVE  /\ Add(a, b) \in Seqs /\ Add(a, b) \in Int
         /\ Sub(a, b) \in Seqs /\ Sub(a, b) \in Nat
<1>1. a + b \in Int /\ a - b \in Int /\ \A s \in Seqs : s \in Nat /\ s \in Int
  BY SeqModNat DEF Seqs
<1>2. Add(a, b) \in Seqs /\ Sub(a, b) \in Seqs
  BY <1>1, Quotient DEF Add, Sub
<1> QED
  BY <1>1, <1>2

LEMMA AddAdd ==
  ASSUME NEW a \in Int, NEW b \in Int, NEW c \in Int
  PROVE  Add(Add(a, b), c) = Add(a, b + c)
<1>1. a + b \in Int /\ (a + b) + c = a + (b + c)
  OBVIOUS
<1> QED
  BY <1>1, RemainderFirst DEF Add

\* From a to b and on to a + n
LEMMA AddSub ==
  ASSUME NEW a \in Int, NEW b \in Int, NEW n \in Int
  PROVE  Add(b, n - Sub(b, a)) = Add(a, n)
<1> DEFINE d == b - a
           r == d % SeqMod
<1>1. d \in Int /\ r \in Int
  BY SeqModNat
<1>2. ((b + n) - r) % SeqMod = ((b + n) - d) % SeqMod
  BY <1>1, RemainderFirst
<1>3. b + (n - r) = (b + n) - r /\ (b + n) - d = a + n
  BY <1>1
<1> QED
  BY <1>2, <1>3 DEF Add, Sub

\* The distance to a number that was reached by adding
LEMMA SubAdd ==
  ASSUME NEW a \in Int, NEW n \in Seqs
  PROVE  Sub(Add(a, n), a) = n
<1>1. n \in Int /\ a + n \in Int /\ -a \in Int /\ (a + n) + (-a) = n
  BY SeqModNat DEF Seqs
<1>2. (((a + n) % SeqMod) + (-a)) % SeqMod = n % SeqMod
  BY <1>1, RemainderFirst
<1>3. (a + n) % SeqMod \in Int
  BY <1>1, SeqModNat
<1> QED
  BY <1>1, <1>2, <1>3, SmallRemainder DEF Add, Sub
-----------------------------------------------------------------------------
\* Parts of sequences

LEMMA Dropped ==
  ASSUME NEW S, NEW s \in Seq(S), NEW n \in Nat
  PROVE  /\ DropN(s, n) \in Seq(S)
         /\ Len(DropN(s, n)) = IF n <= Len(s) THEN Len(s) - n ELSE 0
         /\ \A i \in 1 .. Len(DropN(s, n)) : DropN(s, n)[i] = s[i + n]
<1>1. Len(s) \in Nat
  OBVIOUS
<1>2. CASE n <= Len(s)
  <2>1. n + 1 \in 1 .. Len(s) + 1 /\ Len(s) \in (n + 1) - 1 .. Len(s)
    BY <1>1, <1>2
  <2>2. /\ SubSeq(s, n + 1, Len(s)) \in Seq(S)
        /\ Len(SubSeq(s, n + 1, Len(s))) = Len(s) - (n + 1) + 1
        /\ \A i \in 1 .. Len(s) - (n + 1) + 1 :
              SubSeq(s, n + 1, Len(s))[i] = s[(n + 1) + i - 1]
    BY <2>1, SubSeqProperties
  <2> QED
    BY <1>1, <1>2, <2>2 DEF DropN
<1>3. CASE n > Len(s)
  <2>1. DropN(s, n) = <<>>
    BY <1>1, <1>3 DEF DropN
  <2> QED
    BY <1>1, <1>3, <2>1
<1> QED
  BY <1>1, <1>2, <1>3

LEMMA Taken ==
  ASSUME NEW S, NEW s \in Seq(S), NEW n \in Int
  PROVE  /\ TakeN(s, n) \in Seq(S)
         /\ Len(TakeN(s, n)) = IF n <= 0 THEN 0 ELSE IF n <= Len(s) THEN n ELSE Len(s)
         /\ \A i \in 1 .. Len(TakeN(s, n)) : TakeN(s, n)[i] = s[i]
<1> DEFINE m == Least(n, Len(s))
<1>1. Len(s) \in Nat /\ m \in Int /\ m <= Len(s)
      /\ m = IF n <= Len(s) THEN n ELSE Len(s)
  BY DEF Least
<1> HIDE DEF m
<1>2. CASE m >= 0
  <2>1. m \in 1 - 1 .. Len(s) /\ 1 \in 1 .. Len(s) + 1
    BY <1>1, <1>2
  <2>2. /\ SubSeq(s, 1, m) \in Seq(S) /\ Len(SubSeq(s, 1, m)) = m - 1 + 1
        /\ \A i \in 1 .. m - 1 + 1 : SubSeq(s, 1, m)[i] = s[1 + i - 1]
    BY <2>1, SubSeqProperties
  <2> QED
    BY <1>1, <1>2, <2>2 DEF TakeN, m
<1>3. CASE m < 0
  <2>1. SubSeq(s, 1, m) = <<>>
    BY <1>1, <1>3
  <2> QED
    BY <1>1, <1>3, <2>1 DEF TakeN, m
<1> QED
  BY <1>1, <1>2, <1>3

\* One element replaced by others
Replaced(s, i, parts) == (TakeN(s, i - 1) \o parts) \o DropN(s, i)

IsReplaced(r, S, s, i, parts) ==
    /\ r \in Seq(S) /\ Len(r) = Len(s) - 1 + Len(parts)
    /\ \A j \in 1 .. i - 1 : r[j] = s[j]
    /\ \A j \in 1 .. Len(parts) : r[i - 1 + j] = parts[j]
    /\ \A j \in i + 1 .. Len(s) : r[j - 1 + Len(parts)] = s[j]

LEMMA ReplacedElements ==
  ASSUME NEW S, NEW s \in Seq(S), NEW i \in 1 .. Len(s), NEW parts \in Seq(S)
  PROVE  IsReplaced(Replaced(s, i, parts), S, s, i, parts)
<1> DEFINE a == TakeN(s, i - 1)
           z == DropN(s, i)
           ap == a \o parts
<1>1. Len(s) \in Nat /\ Len(parts) \in Nat /\ i \in Nat /\ i - 1 \in Nat /\ i <= Len(s)
  OBVIOUS
<1>2. a \in Seq(S) /\ Len(a) = i - 1 /\ \A j \in 1 .. i - 1 : a[j] = s[j]
  BY <1>1, Taken
<1>3. z \in Seq(S) /\ Len(z) = Len(s) - i /\ \A j \in 1 .. Len(s) - i : z[j] = s[j + i]
  BY <1>1, Dropped
<1> HIDE DEF a, z
<1>4. /\ ap \in Seq(S) /\ Len(ap) = i - 1 + Len(parts)
      /\ \A j \in 1 .. i - 1 : ap[j] = s[j]
      /\ \A j \in 1 .. Len(parts) : ap[i - 1 + j] = parts[j]
  <2>1. /\ ap \in Seq(S) /\ Len(ap) = Len(a) + Len(parts)
        /\ \A j \in 1 .. Len(a) + Len(parts) :
              ap[j] = IF j <= Len(a) THEN a[j] ELSE parts[j - Len(a)]
    BY <1>2, ConcatProperties, Zenon
  <2> HIDE DEF ap
  <2>2. \A j \in 1 .. i - 1 : ap[j] = s[j]
    BY <1>1, <1>2, <2>1
  <2>3. ASSUME NEW j \in 1 .. Len(parts) PROVE ap[i - 1 + j] = parts[j]
    <3>1. i - 1 + j \in 1 .. Len(a) + Len(parts) /\ ~(i - 1 + j <= Len(a))
          /\ (i - 1 + j) - Len(a) = j
      BY <1>1, <1>2
    <3> QED
      BY <2>1, <3>1
  <2> QED
    BY <1>2, <2>1, <2>2, <2>3
<1> HIDE DEF ap
<1>5. /\ ap \o z \in Seq(S) /\ Len(ap \o z) = Len(ap) + Len(z)
      /\ \A j \in 1 .. Len(ap) + Len(z) :
            (ap \o z)[j] = IF j <= Len(ap) THEN ap[j] ELSE z[j - Len(ap)]
  <2>1. ap \in Seq(S) /\ z \in Seq(S)
    BY <1>3, <1>4
  <2> QED
    BY <2>1, ConcatProperties, Zenon
<1>6. Replaced(s, i, parts) = ap \o z
  BY DEF Replaced, ap, a, z
<1>7. \A j \in 1 .. i - 1 : (ap \o z)[j] = s[j]
  BY <1>1, <1>3, <1>4, <1>5
<1>8. \A j \in 1 .. Len(parts) : (ap \o z)[i - 1 + j] = parts[j]
  BY <1>1, <1>3, <1>4, <1>5
<1>9. ASSUME NEW j \in i + 1 .. Len(s) PROVE (ap \o z)[j - 1 + Len(parts)] = s[j]
  <2>1. /\ j - 1 + Len(parts) \in 1 .. Len(ap) + Len(z) /\ j - 1 + Len(parts) > Len(ap)
        /\ (j - 1 + Len(parts)) - Len(ap) = j - i /\ j - i \in 1 .. Len(s) - i
    BY <1>1, <1>3, <1>4
  <2>2. (ap \o z)[j - 1 + Len(parts)] = z[j - i]
    BY <1>5, <2>1
  <2>3. z[j - i] = s[(j - i) + i] /\ (j - i) + i = j
    BY <1>1, <1>3, <2>1
  <2> QED
    BY <2>2, <2>3
<1>10. Len(ap \o z) = Len(s) - 1 + Len(parts)
  BY <1>1, <1>3, <1>4, <1>5
<1> QED
  BY <1>5, <1>6, <1>7, <1>8, <1>9, <1>10, Zenon DEF IsReplaced
LEMMA ReplacedByOne ==
  ASSUME NEW S, NEW s \in Seq(S), NEW i \in 1 .. Len(s), NEW x \in S
  PROVE  /\ Replaced(s, i, <<x>>) \in Seq(S)
         /\ Len(Replaced(s, i, <<x>>)) = Len(s)
         /\ Replaced(s, i, <<x>>)[i] = x
         /\ \A j \in 1 .. Len(s) : j # i => Replaced(s, i, <<x>>)[j] = s[j]
<1> DEFINE one == <<x>>
<1>1. one \in Seq(S) /\ Len(one) = 1 /\ one[1] = x /\ Len(s) \in Nat /\ i \in 1 .. Len(s)
  OBVIOUS
<1> HIDE DEF one
<1> DEFINE r == Replaced(s, i, one)
<1>2. IsReplaced(r, S, s, i, one)
  BY <1>1, ReplacedElements
<1> HIDE DEF r
<1> USE DEF IsReplaced
<1>3. r[i - 1 + 1] = x /\ i - 1 + 1 = i
  BY <1>1, <1>2
<1>4. \A j \in i + 1 .. Len(s) : j - 1 + 1 = j /\ r[j] = s[j]
  BY <1>1, <1>2
<1>5. \A j \in 1 .. Len(s) : j # i => j \in 1 .. i - 1 \/ j \in i + 1 .. Len(s)
  BY <1>1
<1>6. r \in Seq(S) /\ Len(r) = Len(s) /\ r[i] = x /\ \A j \in 1 .. Len(s) : j # i => r[j] = s[j]
  BY <1>1, <1>2, <1>3, <1>4, <1>5
<1> QED
  BY <1>6 DEF r, one

LEMMA ReplacedByTwo ==
  ASSUME NEW S, NEW s \in Seq(S), NEW i \in 1 .. Len(s), NEW x \in S, NEW y \in S
  PROVE  /\ Replaced(s, i, <<x, y>>) \in Seq(S)
         /\ Len(Replaced(s, i, <<x, y>>)) = Len(s) + 1
         /\ \A j \in 1 .. i - 1 : Replaced(s, i, <<x, y>>)[j] = s[j]
         /\ Replaced(s, i, <<x, y>>)[i] = x /\ Replaced(s, i, <<x, y>>)[i + 1] = y
         /\ \A j \in i + 1 .. Len(s) : Replaced(s, i, <<x, y>>)[j + 1] = s[j]
<1> DEFINE two == <<x, y>>
<1>1. /\ two \in Seq(S) /\ Len(two) = 2 /\ two[1] = x /\ two[2] = y
      /\ Len(s) \in Nat /\ i \in 1 .. Len(s)
  OBVIOUS
<1> HIDE DEF two
<1> DEFINE r == Replaced(s, i, two)
<1>2. IsReplaced(r, S, s, i, two)
  BY <1>1, ReplacedElements
<1> HIDE DEF r
<1> USE DEF IsReplaced
<1>3. r[i - 1 + 1] = x /\ i - 1 + 1 = i /\ r[i - 1 + 2] = y /\ i - 1 + 2 = i + 1
  BY <1>1, <1>2
<1>4. \A j \in i + 1 .. Len(s) : j - 1 + 2 = j + 1 /\ r[j + 1] = s[j]
  BY <1>1, <1>2
<1>5. Len(r) = Len(s) + 1
  BY <1>1, <1>2
<1>6. /\ r \in Seq(S) /\ Len(r) = Len(s) + 1 /\ \A j \in 1 .. i - 1 : r[j] = s[j]
      /\ r[i] = x /\ r[i + 1] = y /\ \A j \in i + 1 .. Len(s) : r[j + 1] = s[j]
  BY <1>2, <1>3, <1>4, <1>5
<1> QED
  BY <1>6 DEF r, two

-----------------------------------------------------------------------------
\* Send lists that cover a send buffer

SegFlags == {"none", "ctl", "fin", "rst"}

\* A segment without bytes is a FIN or RST
Segs == {s \in [seq : Int, len : Nat, flags : SegFlags, xmit : Nat] :
           s.flags \in {"fin", "rst"} <=> s.len = 0}

\* The segments of sl cover n bytes from una on: segment i those from b[i - 1]
\* to b[i].  The first p of them were transmitted.  A FIN follows all bytes.
CoverBy(sl, una, n, b, p) ==
    /\ b \in [0 .. Len(sl) -> Nat] /\ p \in 0 .. Len(sl)
    /\ b[0] = 0 /\ b[Len(sl)] = n
    /\ \A i \in 1 .. Len(sl) : b[i] = b[i - 1] + sl[i].len
    /\ \A i \in 1 .. Len(sl) : sl[i].len > 0 => sl[i].seq = Add(una, b[i - 1])
    /\ \A i \in 1 .. Len(sl) : sl[i].xmit > 0 <=> i <= p
    /\ \A i \in 1 .. Len(sl) : sl[i].flags = "fin" => b[i] = n

NoFin(sl) == \A i \in 1 .. Len(sl) : sl[i].flags # "fin"

LEMMA CoverGrows ==
  ASSUME NEW sl \in Seq(Segs), NEW una, NEW n, NEW b, NEW p, CoverBy(sl, una, n, b, p)
  PROVE  \A i, j \in 0 .. Len(sl) : i <= j => b[i] <= b[j]
<1> DEFINE N == Len(sl)
           T == {j \in Nat : j <= N => \A i \in 0 .. j : b[i] <= b[j]}
<1>1. N \in Nat /\ b \in [0 .. N -> Nat] /\ \A i \in 1 .. N : b[i] = b[i - 1] + sl[i].len
  BY DEF CoverBy
<1>2. \A i \in 1 .. N : sl[i].len \in Nat
  BY ElementOfSeq DEF Segs
<1> HIDE DEF N
<1>3. 0 \in T
  BY <1>1
<1>4. \A j \in Nat : j \in T => j + 1 \in T
  <2> SUFFICES ASSUME NEW j \in Nat, j \in T, j + 1 <= N, NEW i \in 0 .. j + 1
               PROVE  b[i] <= b[j + 1]
    OBVIOUS
  <2>1. j + 1 \in 1 .. N /\ (j + 1) - 1 = j /\ j \in 0 .. N /\ j + 1 \in 0 .. N /\ i \in 0 .. N
    BY <1>1
  <2>2. b[j + 1] = b[j] + sl[j + 1].len /\ sl[j + 1].len \in Nat /\ b[j] \in Nat /\ b[i] \in Nat
    BY <1>1, <1>2, <2>1
  <2>3. i # j + 1 => b[i] <= b[j]
    BY <2>1
  <2> QED
    BY <2>2, <2>3
<1>5. \A j \in Nat : j \in T
  <2> HIDE DEF T
  <2> QED
    BY <1>3, <1>4, NatSetInduction
<1> QED
  <2> SUFFICES ASSUME NEW i \in 0 .. N, NEW j \in 0 .. N, i <= j PROVE b[i] <= b[j]
    BY DEF N
  <2>1. j \in Nat /\ j <= N /\ i \in 0 .. j
    BY <1>1
  <2> QED
    BY <1>5, <2>1

\* A segment is (re)transmitted as it is
LEMMA CoverSent ==
  ASSUME NEW sl \in Seq(Segs), NEW una, NEW n, NEW b, NEW p, CoverBy(sl, una, n, b, p),
         NEW i \in 1 .. Len(sl), i <= p + 1,
         NEW x \in Segs, x.seq = sl[i].seq, x.len = sl[i].len, x.flags = sl[i].flags,
         x.xmit > 0
  PROVE  CoverBy(Replaced(sl, i, <<x>>), una, n, b, IF i <= p THEN p ELSE i)
<1> DEFINE r == Replaced(sl, i, <<x>>)
           N == Len(sl)
           q == IF i <= p THEN p ELSE i
<1>1. N \in Nat /\ i \in 1 .. N /\ p \in 0 .. N /\ b \in [0 .. N -> Nat] /\ q \in 0 .. N
  BY DEF CoverBy
<1>2. r \in Seq(Segs) /\ Len(r) = N /\ r[i] = x /\ \A j \in 1 .. N : j # i => r[j] = sl[j]
  BY ReplacedByOne
<1>3. /\ \A j \in 1 .. N : b[j] = b[j - 1] + sl[j].len
      /\ \A j \in 1 .. N : sl[j].len > 0 => sl[j].seq = Add(una, b[j - 1])
      /\ \A j \in 1 .. N : sl[j].xmit > 0 <=> j <= p
      /\ \A j \in 1 .. N : sl[j].flags = "fin" => b[j] = n
      /\ b[0] = 0 /\ b[N] = n
  BY DEF CoverBy
<1> HIDE DEF r, N
<1>4. \A j \in 1 .. N : r[j].len = sl[j].len /\ r[j].seq = sl[j].seq /\ r[j].flags = sl[j].flags
  BY <1>2
<1>5. ASSUME NEW j \in 1 .. N PROVE r[j].xmit > 0 <=> j <= q
  <2>1. CASE j = i
    BY <1>1, <1>2, <2>1
  <2>2. CASE j # i
    <3>1. r[j] = sl[j] /\ (sl[j].xmit > 0 <=> j <= p)
      BY <1>2, <1>3, <2>2
    <3>2. j <= p <=> j <= q
      BY <1>1, <2>2
    <3> QED
      BY <3>1, <3>2
  <2> QED
    BY <2>1, <2>2
<1> HIDE DEF q
<1>6. CoverBy(r, una, n, b, q)
  BY <1>1, <1>2, <1>3, <1>4, <1>5 DEF CoverBy
<1> QED
  BY <1>6 DEF r, q

IsCut(s, k, x, y) ==
    /\ k < s.len /\ x.seq = s.seq /\ x.len = k /\ x.flags = s.flags
    /\ y.seq = Add(s.seq, k) /\ y.len = s.len - k /\ y.flags = s.flags

CutSent(p, q, i, x, y) ==
    \/ q = p + 1 /\ i <= p + 1 /\ x.xmit > 0 /\ (y.xmit > 0 <=> i <= p)
    \/ q = p /\ i > p /\ x.xmit = 0 /\ y.xmit = 0

\* The first q segments cover the first m bytes
CoversTo(sl, una, n, q, m) == \E c : CoverBy(sl, una, n, c, q) /\ c[q] = m

\* A segment is cut in two: one that was transmitted, the first one that was
\* not, to transmit its first part, or one that was not
LEMMA CoverCut ==
  ASSUME NEW sl \in Seq(Segs), NEW una \in Int, NEW n, NEW b, NEW p, CoverBy(sl, una, n, b, p),
         NEW i \in 1 .. Len(sl), NEW k \in Nat, NEW x \in Segs, NEW y \in Segs,
         IsCut(sl[i], k, x, y), NEW q, CutSent(p, q, i, x, y)
  PROVE  CoversTo(Replaced(sl, i, <<x, y>>), una, n, q, b[p] + IF q = i THEN k ELSE 0)
<1> DEFINE r == Replaced(sl, i, <<x, y>>)
           N == Len(sl)
           m == b[i - 1]
           c == [j \in 0 .. N + 1 |-> IF j < i THEN b[j] ELSE IF j = i THEN m + k ELSE b[j - 1]]
<1> USE DEF IsCut, CutSent
<1>1. N \in Nat /\ i \in 1 .. N /\ p \in 0 .. N /\ b \in [0 .. N -> Nat]
  BY DEF CoverBy
<1>2. /\ r \in Seq(Segs) /\ Len(r) = N + 1
      /\ \A j \in 1 .. i - 1 : r[j] = sl[j]
      /\ r[i] = x /\ r[i + 1] = y
      /\ \A j \in i + 1 .. N : r[j + 1] = sl[j]
  BY ReplacedByTwo
<1>3. /\ \A j \in 1 .. N : b[j] = b[j - 1] + sl[j].len
      /\ \A j \in 1 .. N : sl[j].len > 0 => sl[j].seq = Add(una, b[j - 1])
      /\ \A j \in 1 .. N : sl[j].xmit > 0 <=> j <= p
      /\ \A j \in 1 .. N : sl[j].flags = "fin" => b[j] = n
      /\ b[0] = 0 /\ b[N] = n
  BY DEF CoverBy
<1>4. sl[i] \in Segs /\ sl[i].len \in Nat /\ x.xmit \in Nat /\ y.xmit \in Nat
  BY ElementOfSeq DEF Segs
<1> HIDE DEF r, N
<1>5. m \in Nat /\ b[i] = m + sl[i].len /\ sl[i].seq = Add(una, m)
  <2>1. i - 1 \in 0 .. N /\ i \in 1 .. N
    BY <1>1
  <2>2. b[i] = m + sl[i].len /\ (sl[i].len > 0 => sl[i].seq = Add(una, m))
    BY <1>3, <2>1
  <2>3. m \in Nat /\ sl[i].len > 0
    BY <1>1, <1>4, <2>1
  <2> QED
    BY <2>2, <2>3
<1> HIDE DEF m
<1>6. /\ \A j \in 0 .. i - 1 : c[j] = b[j]
      /\ c[i] = m + k
      /\ \A j \in i + 1 .. N + 1 : c[j] = b[j - 1]
      /\ c \in [0 .. N + 1 -> Nat]
  <2>1. \A j \in 0 .. i - 1 : c[j] = b[j] /\ c[j] \in Nat
    BY <1>1
  <2>2. c[i] = m + k /\ m + k \in Nat
    BY <1>1, <1>5
  <2>3. \A j \in i + 1 .. N + 1 : c[j] = b[j - 1] /\ c[j] \in Nat
    BY <1>1
  <2>4. DOMAIN c = 0 .. N + 1 /\ \A j \in 0 .. N + 1 : c[j] \in Nat
    BY <1>1, <2>1, <2>2, <2>3
  <2>5. c = [j \in 0 .. N + 1 |-> c[j]]
    OBVIOUS
  <2> HIDE DEF c
  <2> QED
    BY <2>1, <2>2, <2>3, <2>4, <2>5
<1> HIDE DEF c
<1>7. c[0] = 0 /\ c[N + 1] = n /\ q \in 0 .. N + 1
  <2>1. 0 \in 0 .. i - 1 /\ N + 1 \in i + 1 .. N + 1 /\ (N + 1) - 1 = N
    BY <1>1
  <2>2. q \in 0 .. N + 1
    BY <1>1
  <2> QED
    BY <1>3, <1>6, <2>1, <2>2
<1>8. \A j \in 1 .. N + 1 : j < i \/ j = i \/ j = i + 1 \/ j > i + 1
  BY <1>1
<1>9. ASSUME NEW j \in 1 .. N + 1, j < i
      PROVE  /\ c[j] = b[j] /\ c[j - 1] = b[j - 1] /\ r[j] = sl[j] /\ j \in 1 .. N
  <2>1. j \in 1 .. i - 1 /\ j \in 0 .. i - 1 /\ j - 1 \in 0 .. i - 1 /\ j \in 1 .. N
    BY <1>1, <1>9
  <2> QED
    BY <1>2, <1>6, <2>1
<1>10. c[i - 1] = m
  <2>1. i - 1 \in 0 .. i - 1
    BY <1>1
  <2> QED
    BY <1>6, <2>1 DEF m
<1>11. c[i + 1] = b[i]
  <2>1. i + 1 \in i + 1 .. N + 1 /\ (i + 1) - 1 = i
    BY <1>1
  <2> QED
    BY <1>6, <2>1
<1>12. ASSUME NEW j \in 1 .. N + 1, j > i + 1
       PROVE  /\ c[j] = b[j - 1] /\ c[j - 1] = b[(j - 1) - 1] /\ r[j] = sl[j - 1]
              /\ j - 1 \in 1 .. N
  <2>1. /\ j \in i + 1 .. N + 1 /\ j - 1 \in i + 1 .. N + 1 /\ j - 1 \in i + 1 .. N
        /\ (j - 1) + 1 = j /\ j - 1 \in 1 .. N
    BY <1>1, <1>12
  <2>2. r[(j - 1) + 1] = sl[j - 1]
    BY <1>2, <2>1
  <2> QED
    BY <1>6, <2>1, <2>2
<1>13. ASSUME NEW j \in 1 .. N + 1 PROVE c[j] = c[j - 1] + r[j].len
  <2>1. CASE j < i
    BY <1>3, <1>9, <2>1
  <2>2. CASE j = i
    BY <1>2, <1>6, <1>10, <2>2
  <2>3. CASE j = i + 1
    <3>1. c[j] = b[i] /\ c[j - 1] = m + k /\ r[j].len = sl[i].len - k
      BY <1>1, <1>2, <1>6, <1>11, <2>3
    <3> QED
      BY <1>4, <1>5, <3>1
  <2>4. CASE j > i + 1
    BY <1>3, <1>12, <2>4
  <2> QED
    BY <1>8, <2>1, <2>2, <2>3, <2>4
<1>14. ASSUME NEW j \in 1 .. N + 1, r[j].len > 0 PROVE r[j].seq = Add(una, c[j - 1])
  <2>1. CASE j < i
    BY <1>3, <1>9, <1>14, <2>1
  <2>2. CASE j = i
    BY <1>2, <1>5, <1>10, <2>2
  <2>3. CASE j = i + 1
    <3>0. j - 1 = i
      BY <1>1, <2>3
    <3>1. c[j - 1] = m + k /\ r[j].seq = Add(Add(una, m), k)
      BY <1>2, <1>5, <1>6, <2>3, <3>0
    <3> QED
      BY <1>5, <3>1, AddAdd
  <2>4. CASE j > i + 1
    BY <1>3, <1>12, <1>14, <2>4
  <2> QED
    BY <1>8, <2>1, <2>2, <2>3, <2>4
<1>15. ASSUME NEW j \in 1 .. N + 1 PROVE r[j].xmit > 0 <=> j <= q
  <2>1. CASE j < i
    <3>1. r[j].xmit > 0 <=> j <= p
      BY <1>3, <1>9, <2>1
    <3>2. j <= p <=> j <= q
      BY <1>1, <2>1
    <3> QED
      BY <3>1, <3>2
  <2>2. CASE j = i
    <3>1. r[j] = x
      BY <1>2, <2>2
    <3>2. x.xmit > 0 <=> j <= q
      <4>1. CASE q = p + 1
        BY <1>1, <1>4, <2>2, <4>1
      <4>2. CASE q = p
        BY <1>1, <1>4, <2>2, <4>2
      <4> QED
        BY <4>1, <4>2
    <3> QED
      BY <3>1, <3>2
  <2>3. CASE j = i + 1
    <3>1. r[j] = y
      BY <1>2, <2>3
    <3>2. y.xmit > 0 <=> j <= q
      <4>1. CASE q = p + 1
        BY <1>1, <1>4, <2>3, <4>1
      <4>2. CASE q = p
        BY <1>1, <1>4, <2>3, <4>2
      <4> QED
        BY <4>1, <4>2
    <3> QED
      BY <3>1, <3>2
  <2>4. CASE j > i + 1
    <3>1. r[j].xmit > 0 <=> j - 1 <= p
      BY <1>3, <1>12, <2>4
    <3> QED
      BY <1>1, <2>4, <3>1
  <2> QED
    BY <1>8, <2>1, <2>2, <2>3, <2>4
<1>16. c[q] = b[p] + IF q = i THEN k ELSE 0
  <2>1. CASE q = p /\ i > p
    <3>1. p \in 0 .. i - 1 /\ b[p] \in Nat /\ q # i
      BY <1>1, <2>1
    <3> QED
      BY <1>6, <2>1, <3>1
  <2>2. CASE q = p + 1 /\ i <= p
    <3>1. q \in i + 1 .. N + 1 /\ q - 1 = p /\ b[p] \in Nat /\ q # i
      BY <1>1, <2>2
    <3> QED
      BY <1>6, <3>1
  <2>3. CASE q = p + 1 /\ i = p + 1
    <3>1. i - 1 = p
      BY <1>1, <2>3
    <3> QED
      BY <1>6, <2>3, <3>1 DEF m
  <2> QED
    BY <1>1, <2>1, <2>2, <2>3
<1>17. ASSUME NEW j \in 1 .. N + 1, r[j].flags = "fin" PROVE c[j] = n
  <2>0. sl[i].flags # "fin"
    <3>1. sl[i] \in Segs /\ sl[i].len # 0
      BY <1>4
    <3> QED
      BY <3>1 DEF Segs
  <2>1. CASE j < i
    BY <1>3, <1>9, <1>17, <2>1
  <2>2. CASE j = i
    BY <1>2, <1>17, <2>0, <2>2
  <2>3. CASE j = i + 1
    BY <1>2, <1>17, <2>0, <2>3
  <2>4. CASE j > i + 1
    BY <1>3, <1>12, <1>17, <2>4
  <2> QED
    BY <1>8, <2>1, <2>2, <2>3, <2>4
<1>18. CoverBy(r, una, n, c, q)
  BY <1>2, <1>6, <1>7, <1>13, <1>14, <1>15, <1>17, Zenon DEF CoverBy
<1> QED
  BY <1>16, <1>18 DEF r, CoversTo

\* A segment is queued
LEMMA CoverQueued ==
  ASSUME NEW sl \in Seq(Segs), NEW una, NEW n \in Nat, NEW b, NEW p, CoverBy(sl, una, n, b, p),
         NEW x \in Segs, x.xmit = 0, x.len > 0 => x.seq = Add(una, n) /\ NoFin(sl)
  PROVE  \E c : CoverBy(Append(sl, x), una, n + x.len, c, p) /\ c[p] = b[p]
<1> DEFINE N == Len(sl)
           r == Append(sl, x)
           c == [j \in 0 .. N + 1 |-> IF j <= N THEN b[j] ELSE n + x.len]
<1>1. N \in Nat /\ p \in 0 .. N /\ b \in [0 .. N -> Nat]
  BY DEF CoverBy
<1>2. r \in Seq(Segs) /\ Len(r) = N + 1 /\ r[N + 1] = x /\ \A j \in 1 .. N : r[j] = sl[j]
  BY AppendProperties
<1>3. /\ \A j \in 1 .. N : b[j] = b[j - 1] + sl[j].len
      /\ \A j \in 1 .. N : sl[j].len > 0 => sl[j].seq = Add(una, b[j - 1])
      /\ \A j \in 1 .. N : sl[j].xmit > 0 <=> j <= p
      /\ \A j \in 1 .. N : sl[j].flags = "fin" => b[j] = n
      /\ b[0] = 0 /\ b[N] = n
  BY DEF CoverBy
<1>4. x.len \in Nat
  BY DEF Segs
<1>5. x.len > 0 => x.seq = Add(una, n) /\ \A j \in 1 .. N : sl[j].flags # "fin"
  BY DEF NoFin
<1> HIDE DEF r, N
<1>6. /\ \A j \in 0 .. N : c[j] = b[j]
      /\ c[N + 1] = n + x.len
      /\ c \in [0 .. N + 1 -> Nat]
  BY <1>1, <1>4
<1> HIDE DEF c
<1>7. c[0] = 0 /\ p \in 0 .. N + 1 /\ c[p] = b[p] /\ c[N] = n
  BY <1>1, <1>3, <1>6
<1>8. ASSUME NEW j \in 1 .. N + 1
      PROVE  /\ c[j] = c[j - 1] + r[j].len
             /\ r[j].len > 0 => r[j].seq = Add(una, c[j - 1])
             /\ r[j].xmit > 0 <=> j <= p
             /\ r[j].flags = "fin" => c[j] = n + x.len
  <2>1. CASE j = N + 1
    <3>1. j - 1 = N /\ ~(j <= p)
      BY <1>1, <2>1
    <3> QED
      BY <1>2, <1>5, <1>6, <1>7, <2>1, <3>1
  <2>2. CASE j # N + 1
    <3>1. j \in 1 .. N /\ j \in 0 .. N /\ j - 1 \in 0 .. N
      BY <1>1, <2>2
    <3>2. r[j] = sl[j] /\ c[j] = b[j] /\ c[j - 1] = b[j - 1]
      BY <1>2, <1>6, <3>1
    <3>3. r[j].flags = "fin" => c[j] = n + x.len
      <4> SUFFICES ASSUME sl[j].flags = "fin" PROVE b[j] = n + x.len
        BY <3>2
      <4>1. ~(x.len > 0)
        BY <1>5, <3>1
      <4> QED
        BY <1>3, <1>4, <3>1, <4>1
    <3> QED
      BY <1>3, <3>1, <3>2, <3>3
  <2> QED
    BY <2>1, <2>2
<1>9. CoverBy(r, una, n + x.len, c, p)
  BY <1>2, <1>6, <1>7, <1>8, Zenon DEF CoverBy
<1> QED
  BY <1>7, <1>9 DEF r

\* The list with another last segment
Ending(sl, x) == [sl EXCEPT ![Len(sl)] = x]

\* The last segment, not transmitted yet, gets longer
LEMMA CoverExtended ==
  ASSUME NEW sl \in Seq(Segs), NEW una, NEW n \in Nat, NEW b, NEW p, CoverBy(sl, una, n, b, p),
         sl # <<>>, NEW d \in Nat, NEW x \in Segs, sl[Len(sl)].xmit = 0,
         x.len = sl[Len(sl)].len + d, x.seq = sl[Len(sl)].seq, x.xmit = sl[Len(sl)].xmit,
         x.flags = sl[Len(sl)].flags, d > 0 => NoFin(sl) /\ sl[Len(sl)].len > 0
  PROVE  CoversTo(Ending(sl, x), una, n + d, p, b[p])
<1> DEFINE N == Len(sl)
           r == [sl EXCEPT ![N] = x]
           c == [j \in 0 .. N |-> IF j < N THEN b[j] ELSE n + d]
<1>1. N \in Nat \ {0} /\ N \in 1 .. N /\ p \in 0 .. N /\ b \in [0 .. N -> Nat]
  BY DEF CoverBy
<1>2. r \in Seq(Segs) /\ Len(r) = N /\ r[N] = x /\ \A j \in 1 .. N - 1 : r[j] = sl[j]
  BY <1>1
<1>3. /\ \A j \in 1 .. N : b[j] = b[j - 1] + sl[j].len
      /\ \A j \in 1 .. N : sl[j].len > 0 => sl[j].seq = Add(una, b[j - 1])
      /\ \A j \in 1 .. N : sl[j].xmit > 0 <=> j <= p
      /\ \A j \in 1 .. N : sl[j].flags = "fin" => b[j] = n
      /\ b[0] = 0 /\ b[N] = n
  BY DEF CoverBy
<1>4. /\ x.len = sl[N].len + d /\ x.seq = sl[N].seq /\ x.xmit = sl[N].xmit
      /\ x.flags = sl[N].flags /\ sl[N].len \in Nat
  BY <1>1, ElementOfSeq DEF Segs
<1>5. d > 0 => sl[N].len > 0 /\ \A j \in 1 .. N : sl[j].flags # "fin"
  BY DEF NoFin
<1>6. p < N
  BY <1>1, <1>3
<1> HIDE DEF r, N
<1>7. /\ \A j \in 0 .. N - 1 : c[j] = b[j]
      /\ c[N] = n + d
      /\ c \in [0 .. N -> Nat]
  BY <1>1
<1> HIDE DEF c
<1>8. c[0] = 0 /\ p \in 0 .. N /\ c[p] = b[p]
  BY <1>1, <1>3, <1>6, <1>7
<1>9. ASSUME NEW j \in 1 .. N
      PROVE  /\ c[j] = c[j - 1] + r[j].len
             /\ r[j].len > 0 => r[j].seq = Add(una, c[j - 1])
             /\ r[j].xmit > 0 <=> j <= p
             /\ r[j].flags = "fin" => c[j] = n + d
  <2>0. j - 1 \in 0 .. N - 1 /\ c[j - 1] = b[j - 1] /\ b[j - 1] \in Nat
    BY <1>1, <1>7
  <2>1. CASE j = N
    <3>0. /\ r[j] = x /\ c[j] = n + d /\ n = b[j - 1] + sl[N].len
          /\ sl[N].len > 0 => sl[N].seq = Add(una, b[j - 1])
      BY <1>1, <1>2, <1>3, <1>7, <2>1
    <3>1. c[j] = c[j - 1] + r[j].len
      BY <1>4, <2>0, <3>0
    <3>2. r[j].len > 0 => r[j].seq = Add(una, c[j - 1])
      <4>1. r[j].len > 0 => sl[N].len > 0
        BY <1>4, <1>5, <3>0
      <4> QED
        BY <1>4, <2>0, <3>0, <4>1
    <3>3. r[j].xmit > 0 <=> j <= p
      <4>1. sl[N].xmit > 0 <=> N <= p
        BY <1>1, <1>3
      <4> QED
        BY <1>2, <1>4, <2>1, <4>1
    <3>4. r[j].flags = "fin" => c[j] = n + d
      BY <1>7, <2>1
    <3> QED
      BY <3>1, <3>2, <3>3, <3>4
  <2>2. CASE j # N
    <3>1. j \in 1 .. N - 1 /\ j \in 0 .. N - 1
      BY <1>1, <2>2
    <3>2. r[j] = sl[j] /\ c[j] = b[j]
      BY <1>2, <1>7, <3>1
    <3>3. r[j].flags = "fin" => c[j] = n + d
      <4> SUFFICES ASSUME sl[j].flags = "fin" PROVE b[j] = n + d
        BY <3>2
      <4>1. ~(d > 0)
        BY <1>5
      <4> QED
        BY <1>3, <4>1
    <3> QED
      BY <1>3, <2>0, <3>1, <3>2, <3>3
  <2> QED
    BY <2>1, <2>2
<1>10. CoverBy(r, una, n + d, c, p)
  BY <1>1, <1>2, <1>7, <1>8, <1>9, Zenon DEF CoverBy
<1> QED
  BY <1>2, <1>8, <1>10 DEF r, N, CoversTo, Ending

-----------------------------------------------------------------------------
\* Acknowledged bytes are freed

\* The sums the code computes are the borders of the segments
IsBytes(f, sl) == f = [i \in 0 .. Len(sl) |-> IF i = 0 THEN 0 ELSE f[i - 1] + sl[i].len]

LEMMA BytesExist ==
  ASSUME NEW sl \in Seq(Segs), NEW una, NEW n, NEW b, NEW p, CoverBy(sl, una, n, b, p)
  PROVE  IsBytes(b, sl)
<1> DEFINE N == Len(sl)
<1>1. N \in Nat /\ b \in [0 .. N -> Nat] /\ b[0] = 0 /\ \A i \in 1 .. N : b[i] = b[i - 1] + sl[i].len
  BY DEF CoverBy
<1> HIDE DEF N
<1>2. \A i \in 0 .. N : b[i] = IF i = 0 THEN 0 ELSE b[i - 1] + sl[i].len
  <2> TAKE i \in 0 .. N
  <2>1. i = 0 \/ i \in 1 .. N
    BY <1>1
  <2> QED
    BY <1>1, <2>1
<1>3. b = [i \in 0 .. N |-> b[i]]
  BY <1>1
<1>4. b = [i \in 0 .. N |-> IF i = 0 THEN 0 ELSE b[i - 1] + sl[i].len]
  BY <1>2, <1>3
<1> QED
  BY <1>4 DEF N, IsBytes

LEMMA BytesAre ==
  ASSUME NEW sl \in Seq(Segs), NEW una, NEW n, NEW b, NEW p, CoverBy(sl, una, n, b, p), NEW f, IsBytes(f, sl)
  PROVE  f = b
<1> DEFINE N == Len(sl)
           T == {i \in Nat : i <= N => f[i] = b[i]}
<1>1. N \in Nat /\ b \in [0 .. N -> Nat] /\ b[0] = 0 /\ \A i \in 1 .. N : b[i] = b[i - 1] + sl[i].len
  BY DEF CoverBy
<1>2. \A i \in 0 .. N : f[i] = IF i = 0 THEN 0 ELSE f[i - 1] + sl[i].len
  BY DEF IsBytes
<1>3. DOMAIN f = 0 .. N /\ f = [i \in 0 .. N |-> f[i]]
  BY DEF IsBytes
<1> HIDE DEF N
<1>4. 0 \in T
  BY <1>1, <1>2
<1>5. \A i \in Nat : i \in T => i + 1 \in T
  <2>0. N \in Nat
    BY <1>1
  <2> SUFFICES ASSUME NEW i \in Nat, i + 1 <= N, f[i] = b[i] PROVE f[i + 1] = b[i + 1]
    BY <2>0
  <2>1. i + 1 \in 1 .. N /\ i + 1 \in 0 .. N /\ (i + 1) - 1 = i
    BY <1>1
  <2> QED
    BY <1>1, <1>2, <2>1
<1>6. \A i \in Nat : i \in T
  <2> HIDE DEF T
  <2> QED
    BY <1>4, <1>5, NatSetInduction
<1>7. \A i \in 0 .. N : f[i] = b[i]
  BY <1>1, <1>6
<1> QED
  BY <1>1, <1>3, <1>7

\* The largest of some numbers up to N
LEMMA LargestExists ==
  ASSUME NEW N \in Nat, NEW W \in SUBSET (0 .. N), W # {}
  PROVE  \E k \in W : \A j \in W : j <= k
<1> DEFINE I == {N - i : i \in W}
<1>1. I \in SUBSET Nat /\ I # {}
  <2>1. \A i \in W : N - i \in Nat
    OBVIOUS
  <2>2. \A y \in I : y \in Nat
    BY <2>1
  <2>3. PICK i \in W : TRUE
    OBVIOUS
  <2>4. N - i \in I
    OBVIOUS
  <2> HIDE DEF I
  <2> QED
    BY <2>2, <2>4
<1>2. PICK x \in I : \A y \in I : x <= y
  <2> HIDE DEF I
  <2> QED
    BY <1>1, NatMinimum
<1>3. PICK k \in W : x = N - k
  BY <1>2
<1>4. ASSUME NEW j \in W PROVE j <= k
  <2>1. N - k <= N - j
    BY <1>2, <1>3
  <2> QED
    BY <2>1
<1> QED
  BY <1>4

\* The segments left: k of them went, and the next one lost what is freed of it
IsFreed(r, sl, b, m, k) ==
    /\ k \in 0 .. Len(sl) /\ r \in Seq(Segs) /\ Len(r) = Len(sl) - k
    /\ b[k] <= m /\ (k = 0 \/ b[k - 1] < m)
    /\ \A j \in 1 .. Len(sl) - k :
         /\ r[j].flags = sl[k + j].flags /\ r[j].xmit = sl[k + j].xmit
         /\ j = 1 => r[j].len = b[k + 1] - m /\ b[k + 1] >= m
         /\ j = 1 /\ r[j].len > 0 => r[j].seq = Add(sl[k + 1].seq, m - b[k]) /\ sl[k + 1].len > 0
         /\ j # 1 => r[j] = sl[k + j]
    /\ k = Len(sl) => b[k] = m

LEMMA FreedElements ==
  ASSUME NEW sl \in Seq(Segs), NEW una \in Int, NEW n, NEW b, NEW p, CoverBy(sl, una, n, b, p),
         NEW m \in Nat, m <= n
  PROVE  \E k : IsFreed(FreeSegments(sl, m), sl, b, m, k)
<1> DEFINE N == Len(sl)
           bytes[i \in 0 .. Len(sl)] == IF i = 0 THEN 0 ELSE bytes[i - 1] + sl[i].len
           whole(f) == {i \in 0 .. Len(sl) : f[i] <= m /\ (i = 0 \/ f[i - 1] < m)}
           last(f) == CHOOSE i \in whole(f) : \A j \in whole(f) : j <= i
           freed(k, part, tail) ==
             IF part = 0 \/ tail = <<>> THEN tail
             ELSE <<[tail[1] EXCEPT !.len = @ - part, !.seq = Add(@, part)]>> \o Tail(tail)
<1>1. bytes = b
  <2>1. \E f : f = [i \in 0 .. Len(sl) |-> IF i = 0 THEN 0 ELSE f[i - 1] + sl[i].len]
    BY BytesExist DEF IsBytes
  <2>2. IsBytes(bytes, sl)
    BY <2>1 DEF IsBytes
  <2> HIDE DEF bytes
  <2> QED
    BY <2>2, BytesAre
<1>2. FreeSegments(sl, m) = freed(last(bytes), m - bytes[last(bytes)], DropN(sl, last(bytes)))
  BY DEF FreeSegments
<1> HIDE DEF bytes, last, freed, whole
<1>3. N \in Nat /\ b \in [0 .. N -> Nat] /\ b[0] = 0 /\ b[N] = n
      /\ \A i \in 1 .. N : b[i] = b[i - 1] + sl[i].len
  <2>1. N \in Nat
    OBVIOUS
  <2> QED
    BY <2>1, Zenon DEF CoverBy
<1> DEFINE k == last(b)
           part == m - b[k]
           tail == DropN(sl, k)
<1> USE DEF whole, last
<1>4. k \in 0 .. N /\ b[k] <= m /\ (k = 0 \/ b[k - 1] < m) /\ \A j \in whole(b) : j <= k
  <2>1. 0 \in whole(b) /\ whole(b) \in SUBSET (0 .. N)
    BY <1>3
  <2>2. \E i \in whole(b) : \A j \in whole(b) : j <= i
    <3> HIDE DEF whole, N
    <3> QED
      BY <1>3, <2>1, LargestExists
  <2>3. k \in whole(b) /\ \A j \in whole(b) : j <= k
    <3> HIDE DEF whole
    <3> QED
      BY <2>2
  <2> QED
    BY <2>3
<1>5. FreeSegments(sl, m) = freed(k, part, tail)
  BY <1>1, <1>2, Zenon
<1> HIDE DEF k, freed
<1>6. tail \in Seq(Segs) /\ Len(tail) = N - k /\ \A i \in 1 .. N - k : tail[i] = sl[k + i]
  <2>1. k \in Nat /\ k <= N
    BY <1>3, <1>4
  <2>2. tail \in Seq(Segs) /\ Len(tail) = N - k /\ \A i \in 1 .. N - k : tail[i] = sl[i + k]
    BY <2>1, Dropped
  <2> HIDE DEF tail, N
  <2>3. \A i \in 1 .. N - k : i + k = k + i
    BY <1>3, <2>1
  <2> QED
    BY <2>2, <2>3
<1>7. part \in Nat /\ b[k] \in Nat
  BY <1>3, <1>4
<1>8. k = N => part = 0
  BY <1>3, <1>4
<1>9. k < N => b[k + 1] = b[k] + sl[k + 1].len /\ b[k + 1] \in Nat /\ b[k + 1] >= m
               /\ (part > 0 => b[k + 1] > m) /\ sl[k + 1] \in Segs
  <2> SUFFICES ASSUME k < N
               PROVE b[k + 1] = b[k] + sl[k + 1].len /\ b[k + 1] \in Nat /\ b[k + 1] >= m
                     /\ (part > 0 => b[k + 1] > m) /\ sl[k + 1] \in Segs
    OBVIOUS
  <2>1. k + 1 \in 1 .. N /\ k + 1 \in 0 .. N /\ (k + 1) - 1 = k
    BY <1>3, <1>4
  <2>2. b[k + 1] = b[k] + sl[k + 1].len /\ b[k + 1] \in Nat /\ sl[k + 1] \in Segs
    BY <1>3, <2>1, ElementOfSeq
  <2>3. ~(k + 1 <= k)
    BY <1>3, <1>4
  <2>4. ~(b[k + 1] <= m /\ b[k] < m)
    BY <1>3, <1>4, <2>1, <2>3
  <2>5. sl[k + 1].len \in Nat
    BY <2>2 DEF Segs
  <2> QED
    BY <1>4, <1>7, <2>2, <2>4, <2>5
<1>10. CASE part = 0
  <2>1. FreeSegments(sl, m) = tail /\ m = b[k]
    BY <1>4, <1>5, <1>7, <1>10 DEF freed
  <2>2. ASSUME NEW j \in 1 .. N - k
        PROVE  /\ tail[j].flags = sl[k + j].flags /\ tail[j].xmit = sl[k + j].xmit
               /\ j = 1 => tail[j].len = b[k + 1] - m /\ b[k + 1] >= m
               /\ j = 1 /\ tail[j].len > 0 => tail[j].seq = Add(sl[k + 1].seq, m - b[k])
                                              /\ sl[k + 1].len > 0
               /\ j # 1 => tail[j] = sl[k + j]
    <3>1. tail[j] = sl[k + j] /\ k < N
      BY <1>3, <1>4, <1>6
    <3>2. j = 1 => tail[j].len = b[k + 1] - m /\ b[k + 1] >= m
      <4>1. sl[k + 1].len \in Nat
        BY <1>9, <3>1 DEF Segs
      <4> QED
        BY <1>7, <1>9, <2>1, <3>1, <4>1
    <3>3. j = 1 /\ tail[j].len > 0 => tail[j].seq = Add(sl[k + 1].seq, m - b[k])
                                      /\ sl[k + 1].len > 0
      <4> SUFFICES ASSUME j = 1, sl[k + 1].len > 0
                   PROVE sl[k + 1].seq = Add(sl[k + 1].seq, m - b[k])
        BY <3>1
      <4>1. k + 1 \in 1 .. N /\ (k + 1) - 1 = k
        BY <1>3, <1>4, <3>1
      <4>2. sl[k + 1].seq = Add(una, b[k])
        BY <4>1 DEF CoverBy
      <4>3. Add(Add(una, b[k]), m - b[k]) = Add(una, b[k] + (m - b[k]))
        BY <1>7, AddAdd
      <4>4. b[k] + (m - b[k]) = b[k]
        BY <1>7, <2>1
      <4> QED
        BY <4>2, <4>3, <4>4
    <3> QED
      BY <3>1, <3>2, <3>3
  <2>3. IsFreed(tail, sl, b, m, k)
    <3> HIDE DEF tail
    <3> QED
      BY <1>4, <1>6, <2>1, <2>2, Zenon DEF IsFreed, N
  <2> QED
    BY <2>1, <2>3
<1>11. CASE part # 0
  <2>1. part > 0 /\ k < N /\ b[k] + part = m
    BY <1>3, <1>4, <1>7, <1>8, <1>11
  <2>2. tail # <<>> /\ 1 \in 1 .. N - k /\ tail[1] = sl[k + 1]
    <3>1. 1 \in 1 .. N - k
      BY <1>3, <1>4, <2>1
    <3> HIDE DEF tail
    <3> QED
      BY <1>6, <3>1
  <2> DEFINE x == [tail[1] EXCEPT !.len = @ - part, !.seq = Add(@, part)]
             r == <<x>> \o Tail(tail)
  <2>3. FreeSegments(sl, m) = r
    <3> HIDE DEF part, tail
    <3> QED
      BY <1>5, <1>11, <2>2 DEF freed
  <2>4. /\ x \in Segs /\ x.flags = sl[k + 1].flags /\ x.xmit = sl[k + 1].xmit
        /\ x.len = b[k + 1] - m /\ x.len > 0 /\ x.seq = Add(sl[k + 1].seq, m - b[k])
    <3>1. sl[k + 1] \in Segs /\ b[k + 1] = b[k] + sl[k + 1].len /\ b[k + 1] > m /\ b[k + 1] \in Nat
      BY <1>9, <2>1
    <3>2. sl[k + 1].len \in Nat /\ sl[k + 1].seq \in Int
      BY <3>1 DEF Segs
    <3>3. sl[k + 1].len - part = b[k + 1] - m /\ sl[k + 1].len - part > 0 /\ sl[k + 1].len > 0
      BY <1>7, <2>1, <3>1, <3>2
    <3>4. Add(sl[k + 1].seq, part) \in Int
      <4>1. part \in Int
        BY <1>7
      <4> HIDE DEF part
      <4> QED
        BY <3>2, <4>1, SeqTypes
    <3>5. x = [sl[k + 1] EXCEPT !.len = @ - part, !.seq = Add(@, part)]
      BY <2>2
    <3>6. part = m - b[k]
      OBVIOUS
    <3> HIDE DEF x, tail, part, r, last, whole, N
    <3>7. DOMAIN x = {"seq", "len", "flags", "xmit"}
          /\ x.flags = sl[k + 1].flags /\ x.xmit = sl[k + 1].xmit
          /\ x.len = sl[k + 1].len - part /\ x.seq = Add(sl[k + 1].seq, part)
          /\ sl[k + 1].flags \in SegFlags /\ sl[k + 1].xmit \in Nat
      BY <3>1, <3>5 DEF Segs
    <3>8. x.flags \notin {"fin", "rst"}
      BY <3>1, <3>2, <3>3, <3>7 DEF Segs
    <3>9. x \in [seq : Int, len : Nat, flags : SegFlags, xmit : Nat]
      <4>1. x = [seq |-> x.seq, len |-> x.len, flags |-> x.flags, xmit |-> x.xmit]
        BY <3>5, <3>1 DEF Segs
      <4>2. x.seq \in Int /\ x.len \in Nat /\ x.flags \in SegFlags /\ x.xmit \in Nat
        BY <1>7, <3>2, <3>3, <3>4, <3>7
      <4> QED
        BY <4>1, <4>2
    <3> QED
      BY <3>3, <3>6, <3>7, <3>8, <3>9 DEF Segs
  <2>5. /\ r \in Seq(Segs) /\ Len(r) = N - k /\ r[1] = x
        /\ \A j \in 2 .. N - k : r[j] = sl[k + j]
    <3> HIDE DEF tail, x
    <3>1. /\ Tail(tail) \in Seq(Segs) /\ Len(Tail(tail)) = N - k - 1
          /\ \A i \in 1 .. N - k - 1 : Tail(tail)[i] = tail[i + 1]
      <4>1. /\ Tail(tail) \in Seq(Segs) /\ Len(Tail(tail)) = Len(tail) - 1
            /\ \A i \in 1 .. Len(tail) - 1 : Tail(tail)[i] = tail[i + 1]
        BY <1>6, <2>2, HeadTailProperties
      <4> QED
        BY <1>6, <4>1
    <3> DEFINE one == <<x>>
               rest == Tail(tail)
    <3>2. one \in Seq(Segs) /\ Len(one) = 1 /\ one[1] = x
      BY <2>4
    <3> HIDE DEF one, rest, N
    <3>3. rest \in Seq(Segs) /\ Len(rest) = N - k - 1 /\ \A i \in 1 .. N - k - 1 : rest[i] = tail[i + 1]
      BY <3>1 DEF rest
    <3>4. /\ one \o rest \in Seq(Segs) /\ Len(one \o rest) = Len(one) + Len(rest)
          /\ \A i \in 1 .. Len(one) + Len(rest) :
                (one \o rest)[i] = IF i <= Len(one) THEN one[i] ELSE rest[i - Len(one)]
      BY <3>2, <3>3, ConcatProperties, Zenon
    <3>5. ASSUME NEW j \in 2 .. N - k PROVE (one \o rest)[j] = sl[k + j]
      <4>1. j \in 1 .. Len(one) + Len(rest) /\ ~(j <= Len(one)) /\ j - Len(one) = j - 1
            /\ j - 1 \in 1 .. N - k - 1 /\ (j - 1) + 1 = j /\ j \in 1 .. N - k
        BY <1>3, <1>4, <3>2, <3>3
      <4>2. (one \o rest)[j] = rest[j - 1] /\ rest[j - 1] = tail[j] /\ tail[j] = sl[k + j]
        BY <1>6, <3>3, <3>4, <4>1
      <4> QED
        BY <4>2
    <3>6. 1 \in 1 .. Len(one) + Len(rest) /\ 1 <= Len(one) /\ Len(one) + Len(rest) = N - k
      BY <1>3, <1>4, <2>1, <3>2, <3>3
    <3>7. r = one \o rest
      BY DEF one, rest
    <3> QED
      BY <3>2, <3>4, <3>5, <3>6, <3>7
  <2> HIDE DEF r, x, tail
  <2>6. ASSUME NEW j \in 1 .. N - k
        PROVE  /\ r[j].flags = sl[k + j].flags /\ r[j].xmit = sl[k + j].xmit
               /\ j = 1 => r[j].len = b[k + 1] - m /\ b[k + 1] >= m
               /\ j = 1 /\ r[j].len > 0 => r[j].seq = Add(sl[k + 1].seq, m - b[k])
                                           /\ sl[k + 1].len > 0
               /\ j # 1 => r[j] = sl[k + j]
    <3>1. CASE j = 1
      <4>1. sl[k + 1].len > 0
        <5>1. sl[k + 1].len \in Nat
          BY <1>9, <2>1 DEF Segs
        <5> HIDE DEF part
        <5> QED
          BY <1>7, <1>9, <2>1, <5>1, <1>4
      <4> QED
        BY <1>9, <2>1, <2>4, <2>5, <3>1, <4>1
    <3>2. CASE j # 1
      <4>1. j \in 2 .. N - k
        BY <1>3, <1>4, <3>2
      <4> QED
        BY <2>5, <3>2, <4>1
    <3> QED
      BY <3>1, <3>2
  <2>7. k = N => b[k] = m
    BY <1>3, <1>4, <2>1
  <2>8. IsFreed(r, sl, b, m, k)
    BY <1>4, <2>5, <2>6, <2>7, Zenon DEF IsFreed, N
  <2> QED
    BY <2>3, <2>8
<1> QED
  BY <1>10, <1>11

\* What is left of a list whose first segments cover x bytes
LeftOf(sl, una, n, m, x) ==
    \E c, q : CoverBy(sl, una, n, c, q) /\ (m <= x => c[q] = x - m)

\* What is left covers what is left of the buffer
LEMMA CoverFreed ==
  ASSUME NEW sl \in Seq(Segs), NEW una \in Int, NEW n \in Nat, NEW b, NEW p,
         CoverBy(sl, una, n, b, p), NEW m \in Nat, m <= n
  PROVE  /\ FreeSegments(sl, m) \in Seq(Segs)
         /\ NoFin(FreeSegments(sl, m)) => NoFin(sl)
         /\ NoFin(sl) => NoFin(FreeSegments(sl, m))
         /\ LeftOf(FreeSegments(sl, m), Add(una, m), n - m, m, b[p])
<1> DEFINE N == Len(sl)
           r == FreeSegments(sl, m)
<1>1. PICK k : IsFreed(r, sl, b, m, k)
  BY FreedElements
<1> HIDE DEF r
<1> DEFINE M == N - k
           c == [j \in 0 .. M |-> IF j = 0 THEN 0 ELSE b[k + j] - m]
           q == IF p >= k THEN p - k ELSE 0
<1>2. /\ N \in Nat /\ b \in [0 .. N -> Nat] /\ p \in 0 .. N /\ b[0] = 0 /\ b[N] = n
      /\ \A i \in 1 .. N : b[i] = b[i - 1] + sl[i].len
      /\ \A i \in 1 .. N : sl[i].len > 0 => sl[i].seq = Add(una, b[i - 1])
      /\ \A i \in 1 .. N : sl[i].xmit > 0 <=> i <= p
      /\ \A i \in 1 .. N : sl[i].flags = "fin" => b[i] = n
  <2>1. N \in Nat
    OBVIOUS
  <2> QED
    BY <2>1, Zenon DEF CoverBy
<1>3. \A i, j \in 0 .. N : i <= j => b[i] <= b[j]
  BY CoverGrows
<1>4. /\ k \in 0 .. N /\ r \in Seq(Segs) /\ Len(r) = M
      /\ b[k] <= m /\ (k = 0 \/ b[k - 1] < m)
      /\ \A j \in 1 .. M :
           /\ r[j].flags = sl[k + j].flags /\ r[j].xmit = sl[k + j].xmit
           /\ j = 1 => r[j].len = b[k + 1] - m /\ b[k + 1] >= m
           /\ j = 1 /\ r[j].len > 0 => r[j].seq = Add(sl[k + 1].seq, m - b[k]) /\ sl[k + 1].len > 0
           /\ j # 1 => r[j] = sl[k + j]
      /\ k = N => b[k] = m
  BY <1>1, Zenon DEF IsFreed
<1>5. \A i \in 1 .. N : sl[i] \in Segs /\ sl[i].len \in Nat
  BY ElementOfSeq DEF Segs
<1>6. M \in Nat /\ k + M = N /\ q \in 0 .. M
  BY <1>2, <1>4
<1>7. \A j \in 1 .. M : k + j \in 1 .. N /\ k + j \in 0 .. N /\ (k + j) - 1 = k + (j - 1)
                        /\ b[k + j] \in Nat /\ b[k + j] >= m /\ b[k + j] = b[k + (j - 1)] + sl[k + j].len
  <2> TAKE j \in 1 .. M
  <2>1. k + j \in 1 .. N /\ k + j \in 0 .. N /\ (k + j) - 1 = k + (j - 1) /\ k + 1 \in 0 .. N
        /\ k + 1 <= k + j /\ 1 \in 1 .. M
    BY <1>2, <1>4, <1>6
  <2>2. b[k + 1] >= m /\ b[k + 1] <= b[k + j] /\ b[k + j] \in Nat /\ b[k + 1] \in Nat
    <3>1. b[k + 1] >= m
      BY <1>1, <2>1 DEF IsFreed
    <3>2. b[k + 1] <= b[k + j]
      BY <1>3, <2>1
    <3> QED
      BY <1>2, <2>1, <3>1, <3>2
  <2> DEFINE i == k + j
  <2>3. i \in 1 .. N
    BY <2>1
  <2> HIDE DEF i, N
  <2>4. b[i] = b[i - 1] + sl[i].len
    BY <1>2, <2>3
  <2>5. i - 1 = k + (j - 1) /\ i = k + j
    BY <2>1 DEF i
  <2>6. b[k + j] = b[k + (j - 1)] + sl[k + j].len
    BY <2>4, <2>5
  <2> HIDE DEF c, q, M
  <2> QED
    BY <2>1, <2>2, <2>6
<1> HIDE DEF N
<1>8. /\ c[0] = 0 /\ \A j \in 1 .. M : c[j] = b[k + j] - m
      /\ c \in [0 .. M -> Nat] /\ c[M] = n - m
  <2>1. c[0] = 0 /\ \A j \in 1 .. M : c[j] = b[k + j] - m
    BY <1>6
  <2>2. \A j \in 0 .. M : c[j] \in Nat
    <3> TAKE j \in 0 .. M
    <3>1. j = 0 \/ j \in 1 .. M
      BY <1>6
    <3>2. c \in [0 .. M -> {c[i] : i \in 0 .. M}]
      OBVIOUS
    <3> HIDE DEF c, M
    <3> QED
      BY <1>7, <2>1, <3>1
  <2>3. c = [j \in 0 .. M |-> c[j]]
    OBVIOUS
  <2>4. c[M] = n - m
    <3>1. CASE M = 0
      <4>1. k = N
        BY <1>2, <1>4, <1>6, <3>1
      <4>2. b[N] = m /\ b[N] = n
        BY <1>2, <1>4, <4>1
      <4> HIDE DEF c
      <4> QED
        BY <2>1, <3>1, <4>2
    <3>2. CASE M # 0
      <4>1. M \in 1 .. M
        BY <1>6, <3>2
      <4> HIDE DEF c
      <4> QED
        BY <1>2, <1>6, <2>1, <4>1
    <3> QED
      BY <3>1, <3>2
  <2> HIDE DEF c, M
  <2> QED
    BY <2>1, <2>2, <2>3, <2>4
<1> HIDE DEF c, M, q
<1>9. ASSUME NEW j \in 1 .. M
      PROVE  /\ c[j] = c[j - 1] + r[j].len
             /\ r[j].len > 0 => r[j].seq = Add(Add(una, m), c[j - 1])
  <2>1. CASE j = 1
    <3>1. c[j - 1] = 0 /\ c[j] = b[k + 1] - m /\ r[j].len = b[k + 1] - m /\ b[k + 1] \in Nat
      <4>1. j - 1 = 0
        BY <2>1
      <4> QED
        BY <1>4, <1>7, <1>8, <2>1, <4>1
    <3>2. r[j].len > 0 => r[j].seq = Add(Add(una, m), c[j - 1])
      <4> SUFFICES ASSUME r[j].len > 0 PROVE r[j].seq = Add(Add(una, m), 0)
        BY <3>1
      <4>1. r[j].seq = Add(sl[k + 1].seq, m - b[k]) /\ sl[k + 1].len > 0
        BY <1>4, <2>1
      <4>2. k + 1 \in 1 .. N /\ (k + 1) - 1 = k /\ b[k] \in Nat
        BY <1>2, <1>4, <1>7, <2>1
      <4>3. sl[k + 1].seq = Add(una, b[k])
        BY <1>2, <4>1, <4>2
      <4>4. Add(Add(una, b[k]), m - b[k]) = Add(una, b[k] + (m - b[k]))
        <5>1. b[k] \in Int /\ m - b[k] \in Int
          BY <4>2
        <5> QED
          BY <5>1, AddAdd
      <4>5. Add(Add(una, m), 0) = Add(una, m + 0)
        BY AddAdd
      <4>6. b[k] + (m - b[k]) = m + 0
        BY <4>2
      <4> QED
        BY <4>1, <4>3, <4>4, <4>5, <4>6
    <3> QED
      BY <3>1, <3>2
  <2>2. CASE j # 1
    <3>1. j - 1 \in 1 .. M /\ r[j] = sl[k + j]
      BY <1>4, <1>6, <2>2
    <3>2. c[j] = b[k + j] - m /\ c[j - 1] = b[k + (j - 1)] - m
          /\ b[k + j] = b[k + (j - 1)] + sl[k + j].len
          /\ b[k + j] \in Nat /\ b[k + (j - 1)] \in Nat /\ k + j \in 1 .. N
          /\ (k + j) - 1 = k + (j - 1)
      BY <1>7, <1>8, <3>1
    <3>3. sl[k + j].len \in Nat /\ (sl[k + j].len > 0 => sl[k + j].seq = Add(una, b[k + (j - 1)]))
      BY <1>2, <1>5, <3>2
    <3>4. Add(Add(una, m), c[j - 1]) = Add(una, m + c[j - 1])
      <4>1. c[j - 1] \in Int /\ m \in Int
        BY <3>2
      <4> QED
        BY <4>1, AddAdd
    <3>5. m + c[j - 1] = b[k + (j - 1)]
      BY <3>2
    <3>6. c[j] = c[j - 1] + sl[k + j].len
      BY <3>2, <3>3
    <3> QED
      BY <3>1, <3>3, <3>4, <3>5, <3>6
  <2> QED
    BY <2>1, <2>2
<1>10. ASSUME NEW j \in 1 .. M
       PROVE  /\ r[j].xmit > 0 <=> j <= q
              /\ r[j].flags = "fin" => c[j] = n - m
  <2>1. r[j].flags = sl[k + j].flags /\ r[j].xmit = sl[k + j].xmit /\ k + j \in 1 .. N
        /\ c[j] = b[k + j] - m
    BY <1>4, <1>7, <1>8
  <2>2. k + j <= p <=> j <= q
    <3>1. CASE p >= k
      BY <1>2, <1>4, <3>1 DEF q
    <3>2. CASE ~(p >= k)
      BY <1>2, <1>4, <3>2 DEF q
    <3> QED
      BY <3>1, <3>2
  <2>3. r[j].xmit > 0 <=> k + j <= p
    BY <1>2, <2>1
  <2> QED
    BY <1>2, <2>1, <2>2, <2>3
<1>11. CoverBy(r, Add(una, m), n - m, c, q)
  BY <1>4, <1>6, <1>8, <1>9, <1>10, Zenon DEF CoverBy
<1>12. m <= b[p] => c[q] = b[p] - m
  <2> SUFFICES ASSUME m <= b[p] PROVE c[q] = b[p] - m
    OBVIOUS
  <2>1. p >= k
    <3> SUFFICES ASSUME p < k PROVE FALSE
      BY <1>2, <1>4
    <3>1. k # 0 /\ k - 1 \in 0 .. N /\ p <= k - 1
      BY <1>2, <1>4
    <3>2. b[p] <= b[k - 1] /\ b[k - 1] < m /\ b[k - 1] \in Nat /\ b[p] \in Nat
      BY <1>2, <1>3, <1>4, <3>1
    <3> QED
      BY <3>2
  <2>2. q = p - k
    BY <2>1 DEF q
  <2>3. CASE p = k
    <3>1. b[p] \in Nat /\ b[p] <= m /\ q = 0
      BY <1>2, <1>4, <2>2, <2>3
    <3> QED
      BY <1>8, <3>1
  <2>4. CASE p > k
    <3>1. q \in 1 .. M /\ k + q = p
      BY <1>2, <1>4, <1>6, <2>2, <2>4
    <3> QED
      BY <1>8, <3>1
  <2> QED
    BY <1>2, <1>4, <2>1, <2>3, <2>4
<1>13. ASSUME NoFin(r) PROVE NoFin(sl)
  <2> SUFFICES ASSUME NEW i \in 1 .. N, sl[i].flags = "fin" PROVE FALSE
    BY DEF NoFin, N
  <2>1. b[i] = n /\ sl[i].len = 0 /\ b[i - 1] = n
    <3>1. b[i] = n /\ b[i] = b[i - 1] + sl[i].len /\ i - 1 \in 0 .. N
      BY <1>2
    <3>2. sl[i].len = 0
      BY <1>5 DEF Segs
    <3> QED
      BY <1>2, <3>1, <3>2
  <2>2. i <= k
    <3> SUFFICES ASSUME i > k PROVE FALSE
      BY <1>2, <1>4
    <3>1. i - k \in 1 .. M /\ k + (i - k) = i
      BY <1>2, <1>4, <1>6
    <3>2. r[i - k].flags = "fin" /\ i - k \in 1 .. Len(r)
      BY <1>4, <3>1
    <3> QED
      BY <1>13, <3>2 DEF NoFin
  <2>3. i - 1 \in 0 .. N /\ k - 1 \in 0 .. N /\ i - 1 <= k - 1 /\ k # 0
    BY <1>2, <1>4, <2>2
  <2>4. b[i - 1] <= b[k - 1] /\ b[k - 1] < m /\ b[k - 1] \in Nat
    BY <1>2, <1>3, <1>4, <2>3
  <2> QED
    BY <2>1, <2>4
<1>14. ASSUME NoFin(sl) PROVE NoFin(r)
  <2> SUFFICES ASSUME NEW j \in 1 .. M PROVE r[j].flags # "fin"
    BY <1>4 DEF NoFin
  <2>1. k + j \in 1 .. Len(sl) /\ r[j].flags = sl[k + j].flags
    BY <1>4, <1>7 DEF N
  <2> QED
    BY <1>14, <2>1 DEF NoFin
<1> QED
  BY <1>4, <1>11, <1>12, <1>13, <1>14 DEF r, LeftOf

\* More is acknowledged than there is
LEMMA AllFreed ==
  ASSUME NEW sl \in Seq(Segs), NEW una \in Int, NEW n \in Nat, NEW b, NEW p,
         CoverBy(sl, una, n, b, p), NEW m \in Nat, m > n
  PROVE  FreeSegments(sl, m) = <<>>
<1> DEFINE N == Len(sl)
           bytes[i \in 0 .. Len(sl)] == IF i = 0 THEN 0 ELSE bytes[i - 1] + sl[i].len
           whole(f) == {i \in 0 .. Len(sl) : f[i] <= m /\ (i = 0 \/ f[i - 1] < m)}
           last(f) == CHOOSE i \in whole(f) : \A j \in whole(f) : j <= i
           freed(k, part, tail) ==
             IF part = 0 \/ tail = <<>> THEN tail
             ELSE <<[tail[1] EXCEPT !.len = @ - part, !.seq = Add(@, part)]>> \o Tail(tail)
<1>1. bytes = b
  <2>1. \E f : f = [i \in 0 .. Len(sl) |-> IF i = 0 THEN 0 ELSE f[i - 1] + sl[i].len]
    BY BytesExist DEF IsBytes
  <2>2. IsBytes(bytes, sl)
    BY <2>1 DEF IsBytes
  <2> HIDE DEF bytes
  <2> QED
    BY <2>2, BytesAre
<1>2. FreeSegments(sl, m) = freed(last(bytes), m - bytes[last(bytes)], DropN(sl, last(bytes)))
  BY DEF FreeSegments
<1> HIDE DEF bytes, freed
<1>3. N \in Nat /\ b \in [0 .. N -> Nat] /\ b[N] = n
  <2>1. N \in Nat
    OBVIOUS
  <2> QED
    BY <2>1, Zenon DEF CoverBy
<1>4. \A i, j \in 0 .. N : i <= j => b[i] <= b[j]
  BY CoverGrows
<1>5. last(b) = N
  <2>1. N \in whole(b)
    <3>1. N = 0 \/ (N - 1 \in 0 .. N /\ N \in 0 .. N /\ N - 1 <= N)
      BY <1>3
    <3>2. N = 0 \/ (b[N - 1] <= b[N] /\ b[N - 1] \in Nat)
      BY <1>3, <1>4, <3>1
    <3> QED
      BY <1>3, <3>2
  <2>2. \A j \in whole(b) : j <= N /\ j \in Nat
    BY <1>3
  <2>3. last(b) \in whole(b) /\ \A j \in whole(b) : j <= last(b)
    <3> HIDE DEF whole
    <3> QED
      BY <2>1, <2>2
  <2> HIDE DEF whole, last
  <2> QED
    BY <1>3, <2>1, <2>2, <2>3
<1>6. DropN(sl, N) = <<>>
  <2>1. DropN(sl, N) \in Seq(Segs) /\ Len(DropN(sl, N)) = 0
    BY <1>3, Dropped
  <2> QED
    BY <2>1, EmptySeq
<1> QED
  BY <1>1, <1>2, <1>5, <1>6 DEF freed

\* Segments without bytes cover nothing anywhere
LEMMA CoverEmpty ==
  ASSUME NEW sl \in Seq(Segs), NEW una, NEW b, NEW p, CoverBy(sl, una, 0, b, p), NEW other
  PROVE  CoverBy(sl, other, 0, b, p)
<1>1. /\ b \in [0 .. Len(sl) -> Nat] /\ Len(sl) \in Nat /\ b[Len(sl)] = 0
      /\ \A i \in 1 .. Len(sl) : b[i] = b[i - 1] + sl[i].len
  BY DEF CoverBy
<1>2. \A i, j \in 0 .. Len(sl) : i <= j => b[i] <= b[j]
  BY CoverGrows
<1>3. \A i \in 1 .. Len(sl) : sl[i].len = 0
  <2> TAKE i \in 1 .. Len(sl)
  <2>1. i \in 0 .. Len(sl) /\ i - 1 \in 0 .. Len(sl) /\ Len(sl) \in 0 .. Len(sl) /\ i <= Len(sl)
    BY <1>1
  <2>2. b[i] <= 0 /\ b[i] \in Nat /\ b[i - 1] \in Nat
    BY <1>1, <1>2, <2>1
  <2>3. sl[i].len \in Nat
    BY ElementOfSeq DEF Segs
  <2> QED
    BY <1>1, <2>2, <2>3
<1>4. \A i \in 1 .. Len(sl) : sl[i].len > 0 => sl[i].seq = Add(other, b[i - 1])
  BY <1>3
<1> QED
  BY <1>4 DEF CoverBy

LEMMA CoverNone ==
  ASSUME NEW una
  PROVE  CoverBy(<<>>, una, 0, [i \in 0 .. 0 |-> 0], 0)
BY DEF CoverBy

-----------------------------------------------------------------------------
\* The invariant of a socket, also in the middle of a call

Fields == {"state", "snd_una", "snd_nxt", "snd_wnd", "rcv_nxt", "rcv_wnd", "rbuf_len",
           "rwnd_scale", "swnd_scale", "sbuf", "slist", "rbuf", "ooo", "rlist", "rto",
           "t_ack", "wen", "mss", "msslevel", "cwnd", "ssthresh", "dup_acks", "recover",
           "shutdown", "shutdown_reads", "fin_ack", "opts", "err", "bad", "out", "cb",
           "idle", "down"}

\* What a packet may be, also one that is late or was duplicated
PktOk(p) ==
    /\ DOMAIN p = {"seq", "ack", "flags", "wnd", "data", "opts"}
    /\ p.seq \in Int /\ p.ack \in Seqs /\ p.wnd \in Int /\ p.data \in Seq(Int)
    /\ p.opts[2] \in 0 .. 4

Written(ooo) == DOMAIN ooo \subseteq Int /\ \A i \in DOMAIN ooo : ooo[i] \in Int

\* The receiving side
Receives(t) ==
    /\ t.rcv_nxt \in Seqs /\ t.rcv_wnd \in Int /\ t.rbuf_len \in Int
    /\ t.rwnd_scale \in 0 .. 4 /\ t.swnd_scale \in 0 .. 4
    /\ t.rbuf \in Seq(Int) /\ Written(t.ooo)
    /\ t.rlist \in Seq([seq : Int, len : Nat])
    /\ t.opts[2] \in 0 .. 4

\* The sizes and windows that say how much is sent at a time
Paces(t) ==
    /\ t.snd_wnd \in Int /\ t.mss \in Nat \ {0} /\ t.msslevel \in Nat
    /\ t.cwnd \in Nat /\ t.ssthresh \in Nat /\ t.dup_acks \in Nat
    /\ t.state # "CLOSED" => t.cwnd > 0 /\ t.ssthresh > 0

\* A segment is part of the buffer
PlacedSegs(una, n) ==
    {s \in Segs : s.len > 0 => \E o \in Nat : o + s.len <= n /\ s.seq = Add(una, o)}

\* Before the FIN is queued, what is in flight is what was transmitted of the
\* send list
PreFin == {"LISTEN", "SYN_SENT", "SYN_RECEIVED", "ESTABLISHED", "CLOSE_WAIT"}

Accounted(t) ==
    t.state # "CLOSED" =>
       \E b, p : /\ CoverBy(t.slist, t.snd_una, Len(t.sbuf), b, p)
                 /\ t.state \in PreFin /\ NoFin(t.slist) => Sub(t.snd_nxt, t.snd_una) = b[p]

\* The assertions that may fail; the others never do
Fallible == {"acked", "slist", "consume", "capacity"}

\* The sending side
Sends(t) ==
    /\ t.snd_una \in Seqs /\ t.snd_nxt \in Seqs
    /\ t.sbuf \in Seq(Int) /\ Len(t.sbuf) <= SBufLen
    /\ t.slist \in Seq(PlacedSegs(t.snd_una, Len(t.sbuf)))
    /\ t.bad \subseteq Fallible
    /\ t.state # "CLOSED" /\ t.snd_una # t.snd_nxt => t.rto

Good(t) ==
    /\ DOMAIN t = Fields /\ t.state \in States
    /\ Receives(t) /\ Paces(t) /\ Sends(t) /\ Accounted(t)
    /\ \A p \in t.out : PktOk(p)

LEMMA ReceivesSame ==
  ASSUME NEW t, Receives(t), NEW u,
         u.rcv_nxt = t.rcv_nxt, u.rcv_wnd = t.rcv_wnd, u.rbuf_len = t.rbuf_len,
         u.rwnd_scale = t.rwnd_scale, u.swnd_scale = t.swnd_scale, u.rbuf = t.rbuf,
         u.ooo = t.ooo, u.rlist = t.rlist, u.opts = t.opts
  PROVE  Receives(u)
BY DEF Receives

LEMMA PacesSame ==
  ASSUME NEW t, Paces(t), NEW u, u.state = t.state, u.snd_wnd = t.snd_wnd, u.mss = t.mss,
         u.msslevel = t.msslevel, u.cwnd = t.cwnd, u.ssthresh = t.ssthresh,
         u.dup_acks = t.dup_acks
  PROVE  Paces(u)
BY DEF Paces

LEMMA SendsSame ==
  ASSUME NEW t, Sends(t), Accounted(t), NEW u, u.state = t.state, u.snd_una = t.snd_una,
         u.snd_nxt = t.snd_nxt, u.sbuf = t.sbuf, u.slist = t.slist, u.bad = t.bad, u.rto = t.rto
  PROVE  Sends(u) /\ Accounted(u)
BY DEF Sends, Accounted

\* A segment of the buffer stays one when the buffer gets longer
LEMMA PlacedLonger ==
  ASSUME NEW una, NEW n \in Nat, NEW m \in Nat, n <= m, NEW sl \in Seq(PlacedSegs(una, n))
  PROVE  sl \in Seq(PlacedSegs(una, m)) /\ sl \in Seq(Segs)
<1>1. \A s \in PlacedSegs(una, n) : s \in PlacedSegs(una, m) /\ s \in Segs
  <2> TAKE s \in PlacedSegs(una, n)
  <2>1. s \in Segs /\ s.len \in Nat
    BY DEF PlacedSegs, Segs
  <2>2. s.len > 0 => \E o \in Nat : o + s.len <= m /\ s.seq = Add(una, o)
    <3> SUFFICES ASSUME s.len > 0 PROVE \E o \in Nat : o + s.len <= m /\ s.seq = Add(una, o)
      OBVIOUS
    <3>1. PICK o \in Nat : o + s.len <= n /\ s.seq = Add(una, o)
      BY DEF PlacedSegs
    <3>2. o + s.len <= m
      BY <2>1, <3>1
    <3> QED
      BY <3>1, <3>2
  <2> QED
    BY <2>1, <2>2 DEF PlacedSegs
<1>2. Len(sl) \in Nat /\ sl = [i \in 1 .. Len(sl) |-> sl[i]]
      /\ \A i \in 1 .. Len(sl) : sl[i] \in PlacedSegs(una, n)
  BY ElementOfSeq
<1>3. \A i \in 1 .. Len(sl) : sl[i] \in PlacedSegs(una, m) /\ sl[i] \in Segs
  BY <1>1, <1>2
<1> HIDE DEF PlacedSegs, Segs
<1>4. DOMAIN sl = 1 .. Len(sl)
  BY <1>2
<1>5. sl \in [1 .. Len(sl) -> PlacedSegs(una, m)] /\ sl \in [1 .. Len(sl) -> Segs]
  BY <1>2, <1>3
<1> QED
  BY <1>2, <1>5

LEMMA PlacedAreSegs ==
  ASSUME NEW una, NEW n \in Nat, NEW sl \in Seq(PlacedSegs(una, n))
  PROVE  sl \in Seq(Segs)
<1>1. n <= n
  OBVIOUS
<1> QED
  BY <1>1, PlacedLonger

\* A list that covers the buffer is one of segments of the buffer
LEMMA CoverPlaced ==
  ASSUME NEW sl \in Seq(Segs), NEW una, NEW n, NEW b, NEW p, CoverBy(sl, una, n, b, p)
  PROVE  sl \in Seq(PlacedSegs(una, n))
<1>1. \A i \in 1 .. Len(sl) : sl[i] \in PlacedSegs(una, n)
  <2> TAKE i \in 1 .. Len(sl)
  <2>1. sl[i] \in Segs /\ sl[i].len \in Nat
    BY ElementOfSeq DEF Segs
  <2>2. Len(sl) \in Nat
    OBVIOUS
  <2>3. i \in 0 .. Len(sl) /\ i - 1 \in 0 .. Len(sl) /\ Len(sl) \in 0 .. Len(sl) /\ i <= Len(sl)
    BY <2>2
  <2>4. b[i] = b[i - 1] + sl[i].len /\ b[i - 1] \in Nat /\ b[Len(sl)] = n
        /\ (sl[i].len > 0 => sl[i].seq = Add(una, b[i - 1]))
    BY <2>3 DEF CoverBy
  <2>5. b[i] <= b[Len(sl)]
    BY <2>3, CoverGrows
  <2>6. b[i - 1] + sl[i].len <= n
    BY <2>4, <2>5
  <2>7. sl[i].len > 0 => \E o \in Nat : o + sl[i].len <= n /\ sl[i].seq = Add(una, o)
    BY <2>4, <2>6
  <2> QED
    BY <2>1, <2>7 DEF PlacedSegs
<1>2. Len(sl) \in Nat /\ sl = [i \in 1 .. Len(sl) |-> sl[i]]
  OBVIOUS
<1> QED
  BY <1>1, <1>2

\* What a call of the sending side leaves alone
Stays(t, u) ==
    /\ u.state = t.state /\ u.fin_ack = t.fin_ack /\ u.sbuf = t.sbuf
    /\ t.slist = <<>> => u.slist = <<>>
    /\ NoFin(t.slist) => NoFin(u.slist)

LEMMA StaysTrans ==
  ASSUME NEW t, NEW u, NEW v, Stays(t, u), Stays(u, v)
  PROVE  Stays(t, v)
BY DEF Stays

LEMMA StaysSelf ==
  ASSUME NEW t
  PROVE  Stays(t, t)
BY DEF Stays

SameSending(t, u) == u.fin_ack = t.fin_ack /\ u.sbuf = t.sbuf /\ u.slist = t.slist

-----------------------------------------------------------------------------
\* State changes and packets

LEMMA PowerNat ==
  ASSUME NEW k \in 0 .. 4
  PROVE  2^k \in Nat \ {0}
<1>1. k = 0 \/ k = 1 \/ k = 2 \/ k = 3 \/ k = 4
  OBVIOUS
<1>2. CASE k = 0
  BY <1>2
<1>3. CASE k = 1
  BY <1>3
<1>4. CASE k = 2
  BY <1>4
<1>5. CASE k = 3
  BY <1>5
<1>6. CASE k = 4
  BY <1>6
<1> QED
  BY <1>1, <1>2, <1>3, <1>4, <1>5, <1>6

LEMMA StateSet ==
  ASSUME NEW t, Good(t), NEW s \in States, s = t.state \/ <<t.state, s>> \in ValidTransitions,
         s \in PreFin => t.state \in PreFin, t.state = "CLOSED" => s = "CLOSED"
  PROVE  LET u == set_state(t, s) IN Good(u) /\ u.state = s /\ SameSending(t, u)
<1> DEFINE u == [t EXCEPT !.state = s]
<1>1. DOMAIN t = Fields
  BY DEF Good
<1>2. CASE s = t.state
  BY <1>2 DEF set_state, SameSending
<1>3. ASSUME s # t.state PROVE set_state(t, s) = u
  BY <1>3 DEF set_state, Assert
<1>4. DOMAIN u = Fields /\ u.state = s /\ SameSending(t, u)
  BY <1>1 DEF Fields, SameSending
<1>5. Receives(u)
  BY <1>1, ReceivesSame DEF Good, Fields
<1>6. Paces(u)
  BY <1>1 DEF Good, Paces, Fields
<1>7. Sends(u)
  BY <1>1 DEF Good, Sends, Fields
<1>8. Accounted(u)
  <2>1. u.slist = t.slist /\ u.snd_una = t.snd_una /\ u.sbuf = t.sbuf /\ u.snd_nxt = t.snd_nxt
    BY <1>1 DEF Fields
  <2> HIDE DEF u
  <2> QED
    BY <1>4, <2>1 DEF Good, Accounted
<1>9. \A p \in u.out : PktOk(p)
  BY <1>1 DEF Good, Fields
<1>10. Good(u)
  BY <1>4, <1>5, <1>6, <1>7, <1>8, <1>9 DEF Good
<1> QED
  BY <1>2, <1>3, <1>4, <1>10

\* A packet is written
LEMMA PacketWritten ==
  ASSUME NEW t, Good(t), NEW seq \in Int, NEW flags, NEW data \in Seq(Int)
  PROVE  LET u == packet(t, seq, flags, data) IN
         /\ Good(u) /\ Stays(t, u)
         /\ u.slist = t.slist /\ u.snd_una = t.snd_una /\ u.snd_nxt = t.snd_nxt /\ u.mss = t.mss
<1> DEFINE u == packet(t, seq, flags, data)
           pkt == [seq |-> seq, ack |-> t.rcv_nxt, flags |-> flags,
                   wnd |-> t.rcv_wnd \div 2^t.rwnd_scale, data |-> data,
                   opts |-> IF flags = "ctl" THEN t.opts ELSE <<FALSE, 0, FALSE>>]
<1>1. DOMAIN t = Fields /\ Receives(t) /\ Paces(t) /\ Sends(t) /\ Accounted(t)
      /\ \A p \in t.out : PktOk(p)
  BY DEF Good
<1>2. PktOk(pkt)
  <2>1. t.rcv_wnd \div 2^t.rwnd_scale \in Int
    <3>1. t.rcv_wnd \in Int /\ 2^t.rwnd_scale \in Nat \ {0}
      BY <1>1, PowerNat DEF Receives
    <3> QED
      BY <3>1
  <2>2. (IF flags = "ctl" THEN t.opts ELSE <<FALSE, 0, FALSE>>)[2] \in 0 .. 4
    BY <1>1 DEF Receives
  <2> QED
    BY <1>1, <2>1, <2>2 DEF PktOk, Receives
<1> HIDE DEF pkt
<1>3. u = [t EXCEPT !.out = IF t.down THEN @ ELSE @ \cup {pkt}, !.t_ack = FALSE]
  BY DEF packet, pkt
<1> HIDE DEF u
<1>4. DOMAIN u = Fields /\ u.out = IF t.down THEN t.out ELSE t.out \cup {pkt}
  BY <1>1, <1>3 DEF Fields
<1>5. /\ u.state = t.state /\ u.fin_ack = t.fin_ack /\ u.sbuf = t.sbuf /\ u.slist = t.slist
      /\ u.snd_una = t.snd_una /\ u.snd_nxt = t.snd_nxt /\ u.mss = t.mss /\ u.bad = t.bad
      /\ u.rto = t.rto
  BY <1>1, <1>3 DEF Fields
<1>6. Receives(u)
  BY <1>1, <1>3, ReceivesSame DEF Fields
<1>7. Paces(u)
  BY <1>1, <1>3, PacesSame DEF Fields
<1>8. Sends(u) /\ Accounted(u)
  BY <1>1, <1>5, SendsSame
<1>9. \A p \in u.out : PktOk(p)
  BY <1>1, <1>2, <1>4
<1>10. Good(u) /\ Stays(t, u)
  BY <1>4, <1>5, <1>6, <1>7, <1>8, <1>9 DEF Good, Stays
<1> QED
  BY <1>5, <1>10 DEF u

-----------------------------------------------------------------------------
\* Transmissions

\* The number of sequence numbers to the next one to send grows with it
LEMMA SubGrows ==
  ASSUME NEW a \in Int, NEW b \in Int, NEW n \in Int, Sub(b, a) + n \in Seqs
  PROVE  Sub(Add(b, n), a) = Sub(b, a) + n
<1> DEFINE d == b - a
<1>1. d \in Int /\ b + n \in Int /\ -a \in Int /\ Sub(b, a) = d % SeqMod /\ d % SeqMod \in Int
  BY SeqModNat DEF Sub
<1>2. ((d % SeqMod) + n) % SeqMod = (d + n) % SeqMod
  BY <1>1, RemainderFirst
<1>3. (((b + n) % SeqMod) + (-a)) % SeqMod = ((b + n) + (-a)) % SeqMod
  BY <1>1, RemainderFirst
<1>4. (b + n) + (-a) = d + n /\ (b + n) % SeqMod \in Int
  BY <1>1, SeqModNat
<1>5. ((b + n) % SeqMod) + (-a) = ((b + n) % SeqMod) - a
  BY <1>4
<1>6. (Sub(b, a) + n) % SeqMod = Sub(b, a) + n
  BY SmallRemainder
<1> QED
  BY <1>1, <1>2, <1>3, <1>4, <1>5, <1>6 DEF Sub, Add

\* The list transmit leaves, in one piece
LEMMA TransmittedList ==
  ASSUME NEW S, NEW s \in Seq(S), NEW i \in 1 .. Len(s), NEW x \in S, NEW y \in S
  PROVE  /\ TakeN(s, i - 1) \o <<x>> \o <<y>> \o DropN(s, i) = Replaced(s, i, <<x, y>>)
         /\ TakeN(s, i - 1) \o <<x>> \o <<>> \o DropN(s, i) = Replaced(s, i, <<x>>)
<1>1. i - 1 \in Int
  OBVIOUS
<1>2. TakeN(s, i - 1) \in Seq(S) /\ <<x>> \in Seq(S) /\ <<y>> \in Seq(S)
  BY <1>1, Taken
<1>3. <<x>> \o <<y>> = <<x, y>>
  <2>1. Append(<<x>>, y) = <<x>> \o <<y>>
    BY <1>2, AppendIsConcat
  <2>2. Append(<<x>>, y) = <<x, y>>
    <3> DEFINE one == <<x>>
               two == <<x, y>>
    <3>1. one \in Seq(S) /\ Len(one) = 1 /\ one[1] = x
          /\ two \in Seq(S) /\ Len(two) = 2 /\ two[1] = x /\ two[2] = y
      OBVIOUS
    <3> HIDE DEF one, two
    <3>2. /\ Append(one, y) \in Seq(S) /\ Len(Append(one, y)) = Len(one) + 1
          /\ \A i1 \in 1 .. Len(one) : Append(one, y)[i1] = one[i1]
          /\ Append(one, y)[Len(one) + 1] = y
      <4>1. one \in Seq(S) /\ y \in S
        BY <3>1
      <4> QED
        BY <4>1, AppendProperties
    <3>3. \A i1 \in 1 .. 2 : Append(one, y)[i1] = two[i1]
      <4>1. Len(one) + 1 = 2 /\ \A i1 \in 1 .. 2 : i1 = 1 \/ i1 = 2
        BY <3>1
      <4> QED
        BY <3>1, <3>2, <4>1
    <3>4. Append(one, y) = two
      BY <3>1, <3>2, <3>3, SeqEqual
    <3> QED
      BY <3>4 DEF one, two
  <2> QED
    BY <2>1, <2>2
<1>4. (TakeN(s, i - 1) \o <<x>>) \o <<y>> = TakeN(s, i - 1) \o (<<x>> \o <<y>>)
  BY <1>2, ConcatAssociative
<1>5. (TakeN(s, i - 1) \o <<x>>) \o <<>> = TakeN(s, i - 1) \o <<x>>
  <2>1. TakeN(s, i - 1) \o <<x>> \in Seq(S)
    BY <1>2, ConcatProperties
  <2> QED
    BY <2>1, ConcatEmptySeq
<1> QED
  BY <1>3, <1>4, <1>5 DEF Replaced

\* The parts of a segment of the buffer
FirstPart(s, k, a) == [s EXCEPT !.len = k, !.xmit = a]
SecondPart(s, k) == [s EXCEPT !.seq = Add(@, k), !.len = @ - k]

LEMMA PlacedParts ==
  ASSUME NEW una \in Int, NEW n \in Nat, NEW s \in PlacedSegs(una, n), NEW k \in Nat, k <= s.len,
         k = 0 => s.len = 0, NEW a \in Nat
  PROVE  /\ FirstPart(s, k, a) \in PlacedSegs(una, n)
         /\ FirstPart(s, k, a).seq = s.seq /\ FirstPart(s, k, a).len = k
         /\ FirstPart(s, k, a).flags = s.flags /\ FirstPart(s, k, a).xmit = a
         /\ k < s.len => /\ SecondPart(s, k) \in PlacedSegs(una, n)
                         /\ SecondPart(s, k).seq = Add(s.seq, k)
                         /\ SecondPart(s, k).len = s.len - k
                         /\ SecondPart(s, k).flags = s.flags /\ SecondPart(s, k).xmit = s.xmit
<1> DEFINE x == FirstPart(s, k, a)
           y == SecondPart(s, k)
<1>1. s \in [seq : Int, len : Nat, flags : SegFlags, xmit : Nat]
      /\ (s.flags \in {"fin", "rst"} <=> s.len = 0)
      /\ (s.len > 0 => \E o \in Nat : o + s.len <= n /\ s.seq = Add(una, o))
  BY DEF PlacedSegs, Segs
<1>2. /\ x.seq = s.seq /\ x.len = k /\ x.flags = s.flags /\ x.xmit = a
      /\ x \in [seq : Int, len : Nat, flags : SegFlags, xmit : Nat]
  BY <1>1 DEF FirstPart
<1>3. /\ y.seq = Add(s.seq, k) /\ y.len = s.len - k /\ y.flags = s.flags /\ y.xmit = s.xmit
      /\ y = [seq |-> Add(s.seq, k), len |-> s.len - k, flags |-> s.flags, xmit |-> s.xmit]
  <2>1. /\ y.seq = Add(s.seq, k) /\ y.len = s.len - k /\ y.flags = s.flags /\ y.xmit = s.xmit
        /\ DOMAIN y = {"seq", "len", "flags", "xmit"}
    BY <1>1 DEF SecondPart
  <2>2. y = [f \in {"seq", "len", "flags", "xmit"} |-> y[f]]
    BY <1>1 DEF SecondPart
  <2> HIDE DEF y
  <2>3. y = [seq |-> y.seq, len |-> y.len, flags |-> y.flags, xmit |-> y.xmit]
    BY <2>2
  <2> QED
    BY <2>1, <2>3
<1> HIDE DEF SegFlags, x, y
<1>4. x \in PlacedSegs(una, n)
  <2>1. x.flags \in {"fin", "rst"} <=> x.len = 0
    BY <1>1, <1>2
  <2>2. x.len > 0 => \E o \in Nat : o + x.len <= n /\ x.seq = Add(una, o)
    <3> SUFFICES ASSUME x.len > 0 PROVE \E o \in Nat : o + x.len <= n /\ x.seq = Add(una, o)
      OBVIOUS
    <3>1. s.len > 0 /\ s.len \in Nat
      BY <1>1, <1>2
    <3>2. PICK o \in Nat : o + s.len <= n /\ s.seq = Add(una, o)
      BY <1>1, <3>1
    <3>3. o + x.len <= n
      BY <1>2, <3>1, <3>2
    <3> QED
      BY <1>2, <3>2, <3>3
  <2> QED
    BY <1>2, <2>1, <2>2 DEF PlacedSegs, Segs
<1>5. ASSUME k < s.len PROVE y \in PlacedSegs(una, n)
  <2>1. s.len > 0 /\ s.len \in Nat /\ s.len - k \in Nat /\ s.len - k > 0 /\ s.seq \in Int
        /\ s.flags \in SegFlags /\ s.xmit \in Nat
    BY <1>1, <1>5
  <2>2. PICK o \in Nat : o + s.len <= n /\ s.seq = Add(una, o)
    BY <1>1, <2>1
  <2>3. Add(s.seq, k) = Add(una, o + k) /\ Add(s.seq, k) \in Int
    <3>1. o \in Int /\ k \in Int
      OBVIOUS
    <3>2. Add(Add(una, o), k) = Add(una, o + k)
      BY <3>1, AddAdd
    <3>3. Add(s.seq, k) \in Int
      BY <2>1, <3>1, SeqTypes
    <3> QED
      BY <2>2, <3>2, <3>3
  <2>4. o + k \in Nat /\ (o + k) + y.len <= n
    BY <1>3, <2>1, <2>2
  <2>5. y \in [seq : Int, len : Nat, flags : SegFlags, xmit : Nat]
    BY <1>3, <2>1, <2>3
  <2>6. y.flags \in {"fin", "rst"} <=> y.len = 0
    BY <1>1, <1>3, <2>1
  <2> QED
    BY <1>3, <2>3, <2>4, <2>5, <2>6 DEF PlacedSegs, Segs
<1> QED
  BY <1>2, <1>3, <1>4, <1>5 DEF x, y

\* A segment replaced by parts of it
LEMMA ReplacedFlags ==
  ASSUME NEW s \in Seq(Segs), NEW i \in 1 .. Len(s), NEW parts \in Seq(Segs), parts # <<>>,
         NEW r, IsReplaced(r, Segs, s, i, parts),
         \A k \in 1 .. Len(parts) : parts[k].flags = s[i].flags
  PROVE  NoFin(r) <=> NoFin(s)
<1> DEFINE N == Len(s)
           K == Len(parts)
<1>1. N \in Nat /\ K \in Nat \ {0} /\ i \in 1 .. N
  OBVIOUS
<1>2. /\ Len(r) = N - 1 + K
      /\ \A j \in 1 .. i - 1 : r[j] = s[j]
      /\ \A j \in 1 .. K : r[i - 1 + j] = parts[j]
      /\ \A j \in i + 1 .. N : r[j - 1 + K] = s[j]
  BY DEF IsReplaced
<1>3. \A k \in 1 .. K : parts[k].flags = s[i].flags
  OBVIOUS
<1> HIDE DEF N, K
<1>4. ASSUME NEW j \in 1 .. N - 1 + K PROVE \E k \in 1 .. N : r[j].flags = s[k].flags
  <2>1. CASE j < i
    <3>1. j \in 1 .. i - 1 /\ j \in 1 .. N
      BY <1>1, <2>1
    <3> QED
      BY <1>2, <3>1
  <2>2. CASE j >= i /\ j <= i - 1 + K
    <3>1. j - i + 1 \in 1 .. K /\ i - 1 + (j - i + 1) = j
      BY <1>1, <2>2
    <3>2. r[i - 1 + (j - i + 1)] = parts[j - i + 1]
      BY <1>2, <3>1
    <3> QED
      BY <1>1, <1>3, <3>1, <3>2
  <2>3. CASE j > i - 1 + K
    <3>1. j + 1 - K \in i + 1 .. N /\ (j + 1 - K) - 1 + K = j /\ j + 1 - K \in 1 .. N
      BY <1>1, <2>3
    <3>2. r[(j + 1 - K) - 1 + K] = s[j + 1 - K]
      BY <1>2, <3>1
    <3> QED
      BY <3>1, <3>2
  <2> QED
    BY <1>1, <2>1, <2>2, <2>3
<1>5. ASSUME NEW k \in 1 .. N PROVE \E j \in 1 .. N - 1 + K : r[j].flags = s[k].flags
  <2>1. CASE k < i
    <3>1. k \in 1 .. i - 1 /\ k \in 1 .. N - 1 + K
      BY <1>1, <2>1
    <3> QED
      BY <1>2, <3>1
  <2>2. CASE k = i
    <3>1. 1 \in 1 .. K /\ i - 1 + 1 = i /\ i \in 1 .. N - 1 + K
      BY <1>1
    <3>2. r[i - 1 + 1] = parts[1] /\ parts[1].flags = s[i].flags
      BY <1>2, <1>3, <3>1
    <3> QED
      BY <2>2, <3>1, <3>2
  <2>3. CASE k > i
    <3>1. k \in i + 1 .. N /\ k - 1 + K \in 1 .. N - 1 + K
      BY <1>1, <2>3
    <3> QED
      BY <1>2, <3>1
  <2> QED
    BY <1>1, <2>1, <2>2, <2>3
<1>6. ASSUME NoFin(r) PROVE NoFin(s)
  <2>1. \A j \in 1 .. N - 1 + K : r[j].flags # "fin"
    BY <1>2, <1>6 DEF NoFin
  <2>2. \A k \in 1 .. N : s[k].flags # "fin"
    BY <1>5, <2>1
  <2> QED
    BY <2>2 DEF NoFin, N
<1>7. ASSUME NoFin(s) PROVE NoFin(r)
  <2>1. \A k \in 1 .. N : s[k].flags # "fin"
    BY <1>7 DEF NoFin, N
  <2>2. \A j \in 1 .. N - 1 + K : r[j].flags # "fin"
    BY <1>4, <2>1
  <2> QED
    BY <1>2, <2>2 DEF NoFin
<1> QED
  BY <1>6, <1>7

\* Transmitting a segment, or the first n bytes of it
LEMMA TransmittedGood ==
  ASSUME NEW t, Good(t), NEW i \in 1 .. Len(t.slist), NEW n \in Nat, n <= t.slist[i].len,
         n = 0 => t.slist[i].len = 0,
         \A j \in 1 .. i - 1 : t.slist[j].xmit > 0
  PROVE  Good(Transmitted(t, i, n)) /\ Stays(t, Transmitted(t, i, n))
<1> DEFINE seg == t.slist[i]
           off == Sub(seg.seq, t.snd_una)
           pk == packet(t, seg.seq, seg.flags, TakeN(DropN(t.sbuf, off), n))
           name == IF n = 0 THEN "acked" ELSE "data"
           a == Assert(pk, off + n <= Len(t.sbuf), name)
           x == [seg EXCEPT !.len = n, !.xmit = @ + 1]
           z == SecondPart(seg, n)
           nxt == IF seg.xmit > 0 THEN t.snd_nxt ELSE Add(t.snd_nxt, SeqLength(seg.flags, n))
           u == Transmitted(t, i, n)
           parts == IF n < seg.len THEN <<x, z>> ELSE <<x>>
           P == PlacedSegs(t.snd_una, Len(t.sbuf))
<1>1. /\ DOMAIN t = Fields /\ t.state \in States /\ Receives(t) /\ Paces(t) /\ Sends(t)
      /\ Accounted(t) /\ \A p \in t.out : PktOk(p)
  BY DEF Good
<1>2. /\ t.snd_una \in Seqs /\ t.snd_nxt \in Seqs /\ t.sbuf \in Seq(Int) /\ Len(t.sbuf) \in Nat
      /\ Len(t.sbuf) <= SBufLen /\ t.slist \in Seq(P) /\ t.bad \subseteq Fallible
      /\ t.snd_una \in Int /\ t.snd_nxt \in Int
  BY <1>1, SeqModNat DEF Sends, Seqs
<1>3. /\ seg \in P /\ seg \in [seq : Int, len : Nat, flags : SegFlags, xmit : Nat]
      /\ (seg.flags \in {"fin", "rst"} <=> seg.len = 0)
      /\ (seg.len > 0 => \E o \in Nat : o + seg.len <= Len(t.sbuf) /\ seg.seq = Add(t.snd_una, o))
  <2>1. seg \in P
    <3> HIDE DEF P
    <3> QED
      BY <1>2, ElementOfSeq
  <2> HIDE DEF seg
  <2> QED
    BY <2>1 DEF PlacedSegs, Segs
<1>4. /\ seg.seq \in Int /\ seg.len \in Nat /\ seg.xmit \in Nat
      /\ n <= seg.len /\ (n = 0 => seg.len = 0)
  BY <1>3
<1>5. off \in Nat
  BY <1>2, <1>4, SeqTypes
<1>6. n > 0 => off + n <= Len(t.sbuf)
  <2> SUFFICES ASSUME n > 0 PROVE off + n <= Len(t.sbuf)
    OBVIOUS
  <2>1. seg.len > 0
    BY <1>4
  <2>2. PICK o \in Nat : o + seg.len <= Len(t.sbuf) /\ seg.seq = Add(t.snd_una, o)
    BY <1>3, <2>1
  <2>3. o \in Seqs
    <3>1. SBufLen < SeqMod /\ SBufLen \in Nat /\ SeqMod \in Nat
      BY SizesAssumption
    <3> HIDE DEF seg
    <3> QED
      BY <1>2, <1>4, <2>2, <3>1 DEF Seqs
  <2>4. off = o
    BY <1>2, <2>2, <2>3, SubAdd
  <2> HIDE DEF off, seg
  <2> QED
    BY <1>2, <1>4, <2>2, <2>4
<1> HIDE DEF seg, off
<1>7. TakeN(DropN(t.sbuf, off), n) \in Seq(Int)
  <2>1. DropN(t.sbuf, off) \in Seq(Int)
    BY <1>2, <1>5, Dropped
  <2> QED
    BY <2>1, Taken
<1>8. Good(pk) /\ Stays(t, pk) /\ pk.slist = t.slist /\ pk.snd_una = t.snd_una /\ pk.snd_nxt = t.snd_nxt
  BY <1>4, <1>7, PacketWritten
<1> HIDE DEF pk
<1>9. /\ u = [a EXCEPT !.slist = TakeN(@, i - 1) \o <<x>>
                                 \o (IF n < seg.len THEN Tail(Split(seg, n)) ELSE <<>>) \o DropN(@, i),
                       !.snd_nxt = IF seg.xmit > 0 THEN @ ELSE Add(@, SeqLength(seg.flags, n)),
                       !.rto = TRUE]
  BY DEF Transmitted, seg, off, pk
<1>10. /\ DOMAIN a = Fields /\ a.bad \subseteq Fallible /\ a.state = t.state
       /\ a.sbuf = t.sbuf /\ a.slist = t.slist /\ a.snd_una = t.snd_una /\ a.snd_nxt = t.snd_nxt
       /\ a.fin_ack = t.fin_ack /\ Receives(a) /\ Paces(a) /\ \A p \in a.out : PktOk(p)
  <2>0. DOMAIN pk = Fields /\ pk.bad \subseteq Fallible /\ Receives(pk) /\ Paces(pk)
        /\ \A p \in pk.out : PktOk(p)
    BY <1>8 DEF Good, Sends
  <2>1. CASE a = pk
    BY <1>8, <2>0, <2>1 DEF Stays
  <2>2. CASE a # pk
    <3>1. ~(off + n <= Len(t.sbuf)) /\ n = 0
      BY <1>6, <2>2 DEF Assert
    <3>2. a = [pk EXCEPT !.bad = @ \cup {"acked"}]
      BY <3>1 DEF Assert
    <3> HIDE DEF a
    <3>3. DOMAIN a = Fields /\ a.bad \subseteq Fallible /\ a.out = pk.out
      BY <2>0, <3>2 DEF Fields, Fallible
    <3>4. /\ a.state = pk.state /\ a.sbuf = pk.sbuf /\ a.slist = pk.slist
          /\ a.snd_una = pk.snd_una /\ a.snd_nxt = pk.snd_nxt /\ a.fin_ack = pk.fin_ack
      BY <2>0, <3>2 DEF Fields
    <3>5. Receives(a)
      BY <2>0, <3>2, ReceivesSame DEF Fields
    <3>6. Paces(a)
      BY <2>0, <3>2, PacesSame DEF Fields
    <3> QED
      BY <1>8, <2>0, <3>3, <3>4, <3>5, <3>6 DEF Stays
  <2> QED
    BY <2>1, <2>2
<1>11. /\ x \in P /\ x.seq = seg.seq /\ x.len = n /\ x.flags = seg.flags /\ x.xmit = seg.xmit + 1
       /\ n < seg.len => /\ z \in P /\ z.seq = Add(seg.seq, n) /\ z.len = seg.len - n
                         /\ z.flags = seg.flags /\ z.xmit = seg.xmit
  <2>1. x = FirstPart(seg, n, seg.xmit + 1)
    BY DEF FirstPart
  <2> HIDE DEF x, z, seg
  <2> DEFINE a1 == seg.xmit + 1
             len == Len(t.sbuf)
  <2>2. a1 \in Nat /\ t.snd_una \in Int /\ len \in Nat /\ seg \in PlacedSegs(t.snd_una, len)
        /\ n <= seg.len /\ (n = 0 => seg.len = 0)
    BY <1>2, <1>3, <1>4 DEF P
  <2> HIDE DEF a1, len, P
  <2>3. /\ FirstPart(seg, n, a1) \in PlacedSegs(t.snd_una, len)
        /\ FirstPart(seg, n, a1).seq = seg.seq /\ FirstPart(seg, n, a1).len = n
        /\ FirstPart(seg, n, a1).flags = seg.flags /\ FirstPart(seg, n, a1).xmit = a1
        /\ n < seg.len => /\ SecondPart(seg, n) \in PlacedSegs(t.snd_una, len)
                          /\ SecondPart(seg, n).seq = Add(seg.seq, n)
                          /\ SecondPart(seg, n).len = seg.len - n
                          /\ SecondPart(seg, n).flags = seg.flags
                          /\ SecondPart(seg, n).xmit = seg.xmit
    BY <2>2, PlacedParts
  <2> QED
    BY <2>1, <2>3 DEF P, z, a1, len
<1>12. u.slist = Replaced(t.slist, i, parts)
  <2>1. u.slist = TakeN(t.slist, i - 1) \o <<x>>
                   \o (IF n < seg.len THEN Tail(Split(seg, n)) ELSE <<>>) \o DropN(t.slist, i)
    <3> HIDE DEF a, u, x, P
    <3> QED
      BY <1>9, <1>10 DEF Fields
  <2>2. Tail(Split(seg, n)) = <<z>>
    BY DEF Split, SecondPart
  <2>3. CASE n < seg.len
    <3>1. u.slist = TakeN(t.slist, i - 1) \o <<x>> \o <<z>> \o DropN(t.slist, i)
      <4> HIDE DEF u, x, z
      <4> QED
        BY <2>1, <2>2, <2>3
    <3>2. x \in P /\ z \in P
      BY <1>11, <2>3
    <3> HIDE DEF u, x, z, P
    <3>3. TakeN(t.slist, i - 1) \o <<x>> \o <<z>> \o DropN(t.slist, i) = Replaced(t.slist, i, <<x, z>>)
      BY <1>2, <3>2, TransmittedList
    <3> QED
      BY <2>3, <3>1, <3>3, Zenon
  <2>4. CASE ~(n < seg.len)
    <3>1. u.slist = TakeN(t.slist, i - 1) \o <<x>> \o <<>> \o DropN(t.slist, i)
      <4> HIDE DEF u, x, z
      <4> QED
        BY <2>1, <2>4
    <3>2. x \in P
      BY <1>11
    <3> HIDE DEF u, x, z, P
    <3>3. TakeN(t.slist, i - 1) \o <<x>> \o <<>> \o DropN(t.slist, i) = Replaced(t.slist, i, <<x>>)
      BY <1>2, <3>2, TransmittedList
    <3> QED
      BY <2>4, <3>1, <3>3, Zenon
  <2> QED
    BY <2>3, <2>4
<1>13. u.slist \in Seq(P) /\ u.slist \in Seq(Segs)
  <2>1. parts \in Seq(P)
    <3> HIDE DEF x, z, P
    <3> QED
      BY <1>11
  <2>2. u.slist \in Seq(P)
    <3> HIDE DEF u, parts, P
    <3> QED
      BY <1>2, <1>12, <2>1, ReplacedElements DEF IsReplaced
  <2> HIDE DEF u
  <2> QED
    BY <1>2, <2>2, PlacedLonger
<1>14. /\ DOMAIN u = Fields /\ u.state = t.state /\ u.fin_ack = t.fin_ack /\ u.sbuf = t.sbuf
       /\ u.snd_una = t.snd_una /\ u.snd_nxt = nxt /\ u.rto /\ u.bad \subseteq Fallible
       /\ u.out = a.out
  <2> HIDE DEF a, u, x, P
  <2> QED
    BY <1>9, <1>10 DEF Fields
<1>15. Receives(u)
  <2> HIDE DEF a, u, x, P
  <2> QED
    BY <1>9, <1>10, ReceivesSame DEF Fields
<1>16. Paces(u)
  <2> HIDE DEF a, u, x, P
  <2> QED
    BY <1>9, <1>10, PacesSame DEF Fields
<1> HIDE DEF a, u, x, z, parts
<1>17. nxt \in Seqs
  <2>1. SeqLength(seg.flags, n) \in Int
    BY DEF SeqLength
  <2>2. Add(t.snd_nxt, SeqLength(seg.flags, n)) \in Seqs
    BY <1>2, <2>1, SeqTypes
  <2> QED
    BY <1>2, <2>2
<1>18. Sends(u)
  <2> HIDE DEF nxt
  <2> QED
    BY <1>2, <1>13, <1>14, <1>17 DEF Sends, P
<1>19. IsReplaced(u.slist, Segs, t.slist, i, parts) /\ parts \in Seq(Segs)
  <2>1. t.slist \in Seq(Segs) /\ (x \in P => x \in Segs) /\ (z \in P => z \in Segs)
    BY <1>2, PlacedLonger DEF PlacedSegs
  <2>2. parts \in Seq(Segs)
    BY <1>11, <2>1 DEF parts
  <2> QED
    BY <1>12, <2>1, <2>2, ReplacedElements
<1>20. NoFin(u.slist) <=> NoFin(t.slist)
  <2>1. parts # <<>> /\ \A k \in 1 .. Len(parts) : parts[k].flags = t.slist[i].flags
    <3>1. CASE n < seg.len
      <4>1. parts = <<x, z>>
        BY <3>1 DEF parts
      <4> QED
        BY <1>11, <3>1, <4>1 DEF seg
    <3>2. CASE ~(n < seg.len)
      <4>1. parts = <<x>>
        BY <3>2 DEF parts
      <4> QED
        BY <1>11, <4>1 DEF seg
    <3> QED
      BY <3>1, <3>2
  <2>2. t.slist \in Seq(Segs)
    BY <1>2, PlacedAreSegs DEF P
  <2> QED
    BY <1>19, <2>1, <2>2, ReplacedFlags
<1>21. Accounted(u)
  <2> SUFFICES ASSUME t.state # "CLOSED"
               PROVE \E b, p : /\ CoverBy(u.slist, t.snd_una, Len(t.sbuf), b, p)
                               /\ t.state \in PreFin /\ NoFin(t.slist)
                                    => Sub(nxt, t.snd_una) = b[p]
    BY <1>14, <1>20 DEF Accounted
  <2>1. PICK b, p : /\ CoverBy(t.slist, t.snd_una, Len(t.sbuf), b, p)
                    /\ t.state \in PreFin /\ NoFin(t.slist) => Sub(t.snd_nxt, t.snd_una) = b[p]
    BY <1>1 DEF Accounted
  <2>2. t.slist \in Seq(Segs) /\ Len(t.slist) \in Nat
    BY <1>2, PlacedAreSegs DEF P
  <2>3. /\ b \in [0 .. Len(t.slist) -> Nat] /\ p \in 0 .. Len(t.slist)
        /\ \A j \in 1 .. Len(t.slist) : t.slist[j].xmit > 0 <=> j <= p
        /\ \A j \in 1 .. Len(t.slist) : b[j] = b[j - 1] + t.slist[j].len
        /\ b[Len(t.slist)] = Len(t.sbuf)
    BY <2>1 DEF CoverBy
  <2>4. i <= p + 1 /\ (seg.xmit > 0 <=> i <= p)
    <3>1. seg.xmit > 0 <=> i <= p
      BY <2>3 DEF seg
    <3>2. ~(i > p + 1)
      <4> SUFFICES ASSUME i > p + 1 PROVE FALSE
        OBVIOUS
      <4>1. p + 1 \in 1 .. i - 1 /\ p + 1 \in 1 .. Len(t.slist) /\ ~(p + 1 <= p)
        BY <2>2, <2>3
      <4> QED
        BY <2>3, <4>1
    <3> QED
      BY <2>2, <2>3, <3>1, <3>2
  <2>5. \A j \in 0 .. Len(t.slist) : b[j] <= Len(t.sbuf)
    <3>1. Len(t.slist) \in 0 .. Len(t.slist)
      BY <2>2
    <3>2. \A j, k \in 0 .. Len(t.slist) : j <= k => b[j] <= b[k]
      BY <2>1, <2>2, CoverGrows
    <3>3. \A j \in 0 .. Len(t.slist) : j <= Len(t.slist)
      BY <2>2
    <3> QED
      BY <2>3, <3>1, <3>2, <3>3
  <2>6. ASSUME NoFin(t.slist), Sub(t.snd_nxt, t.snd_una) = b[p]
        PROVE  Sub(nxt, t.snd_una) = b[p] + IF i = p + 1 THEN n ELSE 0
    <3>1. CASE i <= p
      <4>1. nxt = t.snd_nxt /\ i # p + 1 /\ b[p] \in Nat
        BY <2>3, <2>4, <3>1
      <4> QED
        BY <2>6, <4>1
    <3>2. CASE i = p + 1
      <4>1. nxt = Add(t.snd_nxt, SeqLength(seg.flags, n))
        BY <2>3, <2>4, <3>2
      <4>2. seg.flags # "fin"
        BY <2>6 DEF NoFin, seg
      <4>3. SeqLength(seg.flags, n) = n
        BY <4>2 DEF SeqLength
      <4>4. b[p] + n \in Seqs
        <5>1. i \in 0 .. Len(t.slist) /\ i - 1 = p /\ p \in 0 .. Len(t.slist)
          BY <2>2, <2>3, <3>2
        <5>2. b[i] = b[p] + seg.len /\ b[i] <= Len(t.sbuf) /\ b[p] \in Nat
          BY <2>3, <2>5, <5>1 DEF seg
        <5>3. SBufLen < SeqMod /\ SBufLen \in Nat /\ SeqMod \in Nat
          BY SizesAssumption
        <5>4. Len(t.sbuf) < SeqMod /\ b[p] + n <= b[i] /\ b[p] + n \in Nat
          <6>1. Len(t.sbuf) < SeqMod
            BY <1>2, <5>3
          <6>2. n <= seg.len /\ seg.len \in Nat /\ b[p] \in Nat
            BY <1>4, <5>2
          <6>3. b[p] + n <= b[p] + seg.len /\ b[p] + n \in Nat
            BY <6>2
          <6> QED
            BY <5>2, <6>1, <6>3
        <5>5. b[i] \in Nat
          BY <2>3, <5>1
        <5> QED
          BY <1>2, <5>2, <5>3, <5>4, <5>5 DEF Seqs
      <4>5. n \in Int
        OBVIOUS
      <4>6. Sub(Add(t.snd_nxt, n), t.snd_una) = Sub(t.snd_nxt, t.snd_una) + n
        BY <1>2, <2>6, <4>4, <4>5, SubGrows
      <4> QED
        BY <2>6, <3>2, <4>1, <4>3, <4>6
    <3> QED
      BY <2>2, <2>3, <2>4, <3>1, <3>2
  <2>7. (x \in P => x \in Segs) /\ (z \in P => z \in Segs)
    BY DEF PlacedSegs
  <2>8. x.xmit > 0
    BY <1>4, <1>11
  <2>9. CASE n < seg.len
    <3> DEFINE q == p + 1
    <3>1. CoversTo(Replaced(t.slist, i, <<x, z>>), t.snd_una, Len(t.sbuf), q,
                   b[p] + IF q = i THEN n ELSE 0)
      <4>1. IsCut(t.slist[i], n, x, z)
        BY <1>11, <2>9 DEF seg, IsCut
      <4>2. CutSent(p, q, i, x, z)
        BY <1>11, <2>4, <2>8, <2>9 DEF CutSent
      <4> HIDE DEF q
      <4>3. x \in Segs /\ z \in Segs
        BY <1>11, <2>7, <2>9
      <4>4. t.snd_una \in Int /\ i \in 1 .. Len(t.slist) /\ n \in Nat
            /\ CoverBy(t.slist, t.snd_una, Len(t.sbuf), b, p)
        BY <1>2, <2>1
      <4> QED
        BY <2>2, <4>1, <4>2, <4>3, <4>4, CoverCut
    <3>2. PICK c : /\ CoverBy(Replaced(t.slist, i, <<x, z>>), t.snd_una, Len(t.sbuf), c, q)
                   /\ c[q] = b[p] + IF q = i THEN n ELSE 0
      BY <3>1 DEF CoversTo
    <3>3. u.slist = Replaced(t.slist, i, <<x, z>>)
      BY <1>12, <2>9 DEF parts
    <3>4. t.state \in PreFin /\ NoFin(t.slist) => Sub(nxt, t.snd_una) = c[q]
      <4>1. (IF i = p + 1 THEN n ELSE 0) = (IF q = i THEN n ELSE 0)
        OBVIOUS
      <4> HIDE DEF nxt, q
      <4> QED
        BY <2>1, <2>6, <3>2, <4>1
    <3> HIDE DEF nxt, q
    <3> QED
      BY <3>2, <3>3, <3>4
  <2>10. CASE ~(n < seg.len)
    <3> DEFINE q == IF i <= p THEN p ELSE i
    <3>1. CoverBy(Replaced(t.slist, i, <<x>>), t.snd_una, Len(t.sbuf), b, q)
      <4>1. x.seq = t.slist[i].seq /\ x.flags = t.slist[i].flags /\ x.len = t.slist[i].len
        BY <1>4, <1>11, <2>10 DEF seg
      <4>2. x \in Segs
        BY <1>11, <2>7
      <4> QED
        BY <2>1, <2>2, <2>4, <2>8, <4>1, <4>2, CoverSent
    <3>2. u.slist = Replaced(t.slist, i, <<x>>)
      BY <1>12, <2>10 DEF parts
    <3>3. b[q] = b[p] + IF i = p + 1 THEN n ELSE 0
      <4>1. CASE i <= p
        BY <2>2, <2>3, <4>1
      <4>2. CASE i = p + 1
        <5>1. i - 1 = p /\ ~(i <= p) /\ n = seg.len
          BY <1>4, <2>2, <2>3, <2>10, <4>2
        <5>2. b[i] = b[p] + seg.len
          BY <2>3, <5>1 DEF seg
        <5> QED
          BY <4>2, <5>1, <5>2
      <4> QED
        BY <2>2, <2>3, <2>4, <4>1, <4>2
    <3>4. t.state \in PreFin /\ NoFin(t.slist) => Sub(nxt, t.snd_una) = b[q]
      <4> HIDE DEF nxt, q
      <4> QED
        BY <2>1, <2>6, <3>3
    <3> HIDE DEF nxt, q
    <3> QED
      BY <3>1, <3>2, <3>4
  <2> QED
    BY <2>9, <2>10
<1>22. Stays(t, u)
  <2>1. t.slist # <<>>
    OBVIOUS
  <2> QED
    BY <1>14, <1>20, <2>1 DEF Stays
<1> QED
  BY <1>1, <1>10, <1>14, <1>15, <1>16, <1>18, <1>21, <1>22 DEF Good, u

\* Only what says how much is sent changed
SameButPaces(t, u) ==
    /\ DOMAIN u = Fields /\ u.state = t.state /\ u.fin_ack = t.fin_ack /\ u.bad = t.bad
    /\ u.snd_una = t.snd_una /\ u.snd_nxt = t.snd_nxt /\ u.sbuf = t.sbuf /\ u.slist = t.slist
    /\ u.rto = t.rto /\ u.out = t.out
    /\ u.rcv_nxt = t.rcv_nxt /\ u.rcv_wnd = t.rcv_wnd /\ u.rbuf_len = t.rbuf_len
    /\ u.rwnd_scale = t.rwnd_scale /\ u.swnd_scale = t.swnd_scale /\ u.rbuf = t.rbuf
    /\ u.ooo = t.ooo /\ u.rlist = t.rlist /\ u.opts = t.opts

LEMMA Repaced ==
  ASSUME NEW t, Good(t), NEW u, SameButPaces(t, u), Paces(u)
  PROVE  Good(u) /\ Stays(t, u)
<1>1. Receives(t) /\ Sends(t) /\ Accounted(t) /\ t.state \in States /\ \A p \in t.out : PktOk(p)
  BY DEF Good
<1>2. Receives(u)
  BY <1>1, ReceivesSame DEF SameButPaces
<1>3. Sends(u) /\ Accounted(u)
  BY <1>1, SendsSame DEF SameButPaces
<1>4. Good(u)
  BY <1>1, <1>2, <1>3 DEF Good, SameButPaces
<1>5. Stays(t, u)
  BY DEF Stays, SameButPaces
<1> QED
  BY <1>4, <1>5

\* A step to a smaller level
LEMMA Levelled ==
  ASSUME NEW t, Good(t), NEW l \in 1 .. Len(Levels)
  PROVE  LET u == [t EXCEPT !.msslevel = l, !.mss = Levels[l], !.cwnd = 2 * Levels[l]] IN
         Good(u) /\ Stays(t, u) /\ u.slist = t.slist /\ u.mss = Levels[l]
<1> DEFINE u == [t EXCEPT !.msslevel = l, !.mss = Levels[l], !.cwnd = 2 * Levels[l]]
<1>1. DOMAIN t = Fields /\ Paces(t)
  BY DEF Good
<1>2. Levels[l] \in Nat \ {0} /\ l \in Nat
  <2>1. Levels \in Seq(Nat \ {0})
    BY SegmentsAssumption
  <2>2. Levels[l] \in Nat \ {0}
    BY <2>1, ElementOfSeq
  <2> QED
    BY <2>2
<1> DEFINE m == Levels[l]
<1>3. m \in Nat \ {0} /\ 2 * m \in Nat \ {0}
  BY <1>2
<1> HIDE DEF m
<1>4. u = [t EXCEPT !.msslevel = l, !.mss = m, !.cwnd = 2 * m]
  BY DEF m
<1> HIDE DEF u
<1>5. SameButPaces(t, u)
  BY <1>1, <1>4 DEF SameButPaces, Fields
<1>6. /\ u.msslevel = l /\ u.mss = m /\ u.cwnd = 2 * m /\ u.state = t.state
      /\ u.snd_wnd = t.snd_wnd /\ u.ssthresh = t.ssthresh /\ u.dup_acks = t.dup_acks
  BY <1>1, <1>4 DEF Fields
<1>7. Paces(u)
  BY <1>1, <1>2, <1>3, <1>6 DEF Paces
<1> QED
  BY <1>5, <1>6, <1>7, Repaced DEF SameButPaces, u, m

LEMMA PathLevelOk ==
  ASSUME NEW t, t.msslevel \in Nat, NEW n, PathLevel(t, n) # 0
  PROVE  PathLevel(t, n) \in 1 .. Len(Levels) /\ Levels[PathLevel(t, n)] < n
<1> DEFINE ok == {l \in SmallerLevels(t, n) : Levels[l] <= PathMss}
<1>1. Len(Levels) \in Nat
  BY SegmentsAssumption
<1>2. ok # {}
  BY DEF PathLevel
<1>3. ok \in SUBSET Nat /\ \A l \in ok : l \in 1 .. Len(Levels) /\ Levels[l] < n
  BY <1>1 DEF SmallerLevels
<1>4. PathLevel(t, n) = CHOOSE l \in ok : \A m \in ok : l <= m
  BY <1>2 DEF PathLevel
<1> HIDE DEF ok
<1>5. \E l \in ok : \A m \in ok : l <= m
  BY <1>2, <1>3, NatMinimum
<1>6. PathLevel(t, n) \in ok
  BY <1>4, <1>5
<1> QED
  BY <1>3, <1>6

\* The segments before i were transmitted
AllSent(sl, i) == \A j \in 1 .. i - 1 : sl[j].xmit > 0

LEMMA TransmitGood ==
  ASSUME NEW t, Good(t), NEW i \in 1 .. Len(t.slist), AllSent(t.slist, i)
  PROVE  Good(transmit(t, i).t) /\ Stays(t, transmit(t, i).t)
<1> DEFINE seg == t.slist[i]
           n == Least(seg.len, t.mss)
           l == PathLevel(t, n)
           last == Len(Levels)
<1>1. DOMAIN t = Fields /\ Paces(t) /\ Sends(t)
  BY DEF Good
<1>2. seg.len \in Nat /\ seg.xmit \in Nat
  <2>1. t.slist \in Seq(PlacedSegs(t.snd_una, Len(t.sbuf))) /\ Len(t.sbuf) \in Nat
    BY <1>1 DEF Sends
  <2>2. t.slist \in Seq(Segs)
    BY <2>1, PlacedAreSegs
  <2> QED
    BY <2>2, ElementOfSeq DEF Segs
<1>3. t.mss \in Nat \ {0} /\ t.msslevel \in Nat
  BY <1>1 DEF Paces
<1>4. n \in Nat /\ n <= seg.len /\ (n = 0 => seg.len = 0)
  BY <1>2, <1>3 DEF Least
<1>5. MaxXmit \in Nat /\ MaxXmitOther \in Nat /\ PathMss \in Nat /\ last \in 1 .. Len(Levels)
  <2>1. Levels \in Seq(Nat \ {0}) /\ Levels # <<>>
    BY SegmentsAssumption
  <2>2. Len(Levels) \in Nat \ {0}
    BY <2>1, EmptySeq
  <2> QED
    BY <2>2, SegmentsAssumption
<1> DEFINE limit == IF t.state = "ESTABLISHED" THEN MaxXmit ELSE MaxXmitOther
<1>6. limit \in Nat
  BY <1>5
<1> DEFINE a == [t EXCEPT !.msslevel = last, !.mss = Levels[last], !.cwnd = 2 * Levels[last]]
           b == [t EXCEPT !.msslevel = l, !.mss = Levels[l], !.cwnd = 2 * Levels[l]]
           r == transmit(t, i)
<1>7. \/ r.t = t
      \/ r.t = Transmitted(t, i, n)
      \/ r.t = a
      \/ l # 0 /\ r.t = Transmitted(b, i, Levels[l])
  <2> DEFINE c1 == seg.xmit >= limit \/ (n > 0 /\ t.down)
             c2 == seg.xmit < limit /\ ~(n > 0 /\ t.down)
  <2>1. r = CASE c1 -> [ok |-> FALSE, t |-> t]
              [] c2 /\ n <= PathMss -> [ok |-> TRUE, t |-> Transmitted(t, i, n)]
              [] c2 /\ n > PathMss /\ l = 0 -> [ok |-> FALSE, t |-> a]
              [] OTHER -> [ok |-> TRUE, t |-> Transmitted(b, i, Levels[l])]
    BY DEF transmit
  <2>2. c1 \/ c2
    BY <1>2, <1>6
  <2>3. c2 => ~c1
    BY <1>2, <1>6
  <2>4. n <= PathMss \/ n > PathMss
    BY <1>4, <1>5
  <2>5. n <= PathMss => ~(n > PathMss)
    BY <1>4, <1>5
  <2> DEFINE T1 == Transmitted(t, i, n)
             T2 == Transmitted(b, i, Levels[l])
  <2> HIDE DEF c1, c2, a, b, l, r, n, T1, T2
  <2>6. r = CASE c1 -> [ok |-> FALSE, t |-> t]
              [] c2 /\ n <= PathMss -> [ok |-> TRUE, t |-> T1]
              [] c2 /\ n > PathMss /\ l = 0 -> [ok |-> FALSE, t |-> a]
              [] OTHER -> [ok |-> TRUE, t |-> T2]
    BY <2>1 DEF T1, T2
  <2>7. r.t = t \/ r.t = T1 \/ r.t = a \/ (l # 0 /\ r.t = T2)
    <3>1. CASE c1
      BY <2>3, <2>6, <3>1
    <3>2. CASE c2 /\ n <= PathMss
      BY <2>3, <2>5, <2>6, <3>2
    <3>3. CASE c2 /\ n > PathMss /\ l = 0
      BY <2>3, <2>5, <2>6, <3>3
    <3>4. CASE c2 /\ n > PathMss /\ l # 0
      BY <2>3, <2>5, <2>6, <3>4
    <3> QED
      BY <2>2, <2>4, <3>1, <3>2, <3>3, <3>4
  <2> QED
    BY <2>7 DEF T1, T2, r
<1> HIDE DEF r
<1>8. CASE r.t = t
  BY <1>8, StaysSelf DEF r
<1>9. CASE r.t = Transmitted(t, i, n)
  <2>1. Good(Transmitted(t, i, n)) /\ Stays(t, Transmitted(t, i, n))
    <3> HIDE DEF n
    <3> QED
      BY <1>4, TransmittedGood DEF seg, AllSent
  <2> QED
    BY <1>9, <2>1 DEF r
<1>10. CASE r.t = a
  <2>1. Good(a) /\ Stays(t, a)
    <3> HIDE DEF last
    <3> QED
      BY <1>5, Levelled
  <2> HIDE DEF a
  <2> QED
    BY <1>10, <2>1 DEF r
<1>11. CASE l # 0 /\ r.t = Transmitted(b, i, Levels[l])
  <2>1. l \in 1 .. Len(Levels) /\ Levels[l] < n
    BY <1>3, <1>11, PathLevelOk
  <2>2. Good(b) /\ Stays(t, b) /\ b.slist = t.slist /\ b.mss = Levels[l]
    <3> HIDE DEF l
    <3> QED
      BY <2>1, Levelled
  <2>3. Levels[l] \in Nat \ {0}
    <3>1. Levels \in Seq(Nat \ {0})
      BY SegmentsAssumption
    <3> QED
      BY <2>1, <3>1, ElementOfSeq
  <2> HIDE DEF b, l, n
  <2> DEFINE k == Levels[l]
  <2>4. k \in Nat /\ k # 0 /\ k <= b.slist[i].len /\ i \in 1 .. Len(b.slist)
    BY <1>2, <1>4, <2>1, <2>2, <2>3
  <2>5. \A j \in 1 .. i - 1 : b.slist[j].xmit > 0
    BY <2>2 DEF AllSent
  <2> HIDE DEF k
  <2>6. Good(Transmitted(b, i, k)) /\ Stays(b, Transmitted(b, i, k))
    BY <2>2, <2>4, <2>5, TransmittedGood
  <2> QED
    BY <1>11, <2>2, <2>6, StaysTrans DEF k, r
<1> QED
  BY <1>7, <1>8, <1>9, <1>10, <1>11

LEMMA TransmitFirstGood ==
  ASSUME NEW t, Good(t)
  PROVE  Good(TransmitFirst(t).t) /\ Stays(t, TransmitFirst(t).t)
<1>1. DOMAIN t = Fields /\ Receives(t) /\ Paces(t) /\ Sends(t) /\ Accounted(t)
      /\ t.state \in States /\ \A p \in t.out : PktOk(p)
  BY DEF Good
<1>2. CASE t.slist = <<>>
  <2> DEFINE u == [t EXCEPT !.bad = @ \cup {"slist"}]
  <2>1. TransmitFirst(t).t = u
    BY <1>2 DEF TransmitFirst, Assert
  <2>2. /\ DOMAIN u = Fields /\ u.bad \subseteq Fallible /\ u.state = t.state
        /\ u.snd_una = t.snd_una /\ u.snd_nxt = t.snd_nxt /\ u.sbuf = t.sbuf
        /\ u.slist = t.slist /\ u.rto = t.rto /\ u.fin_ack = t.fin_ack /\ u.out = t.out
    BY <1>1 DEF Fields, Sends, Fallible
  <2>3. Receives(u)
    BY <1>1, ReceivesSame DEF Fields
  <2>4. Paces(u)
    BY <1>1, PacesSame DEF Fields
  <2> HIDE DEF u
  <2>5. Sends(u) /\ Accounted(u)
    BY <1>1, <2>2 DEF Sends, Accounted
  <2> QED
    BY <1>1, <2>1, <2>2, <2>3, <2>4, <2>5 DEF Good, Stays
<1>3. CASE t.slist # <<>>
  <2>1. 1 \in 1 .. Len(t.slist)
    <3>1. t.slist \in Seq(PlacedSegs(t.snd_una, Len(t.sbuf)))
      BY <1>1 DEF Sends
    <3> QED
      BY <1>3, <3>1, EmptySeq
  <2>2. AllSent(t.slist, 1)
    BY DEF AllSent
  <2>3. TransmitFirst(t) = transmit(t, 1)
    BY <1>3 DEF TransmitFirst
  <2> QED
    BY <2>1, <2>2, <2>3, TransmitGood
<1> QED
  BY <1>2, <1>3

-----------------------------------------------------------------------------
\* The loop of attempt_send

\* What the send list is made of
LEMMA SlistTypes ==
  ASSUME NEW t, Good(t)
  PROVE  /\ t.slist \in Seq(Segs) /\ Len(t.slist) \in Nat /\ Len(t.sbuf) \in Nat
         /\ t.slist \in Seq(PlacedSegs(t.snd_una, Len(t.sbuf)))
         /\ t.snd_una \in Int /\ t.snd_nxt \in Int
         /\ \A i \in 1 .. Len(t.slist) :
              /\ t.slist[i] \in PlacedSegs(t.snd_una, Len(t.sbuf)) /\ t.slist[i] \in Segs
              /\ t.slist[i].len \in Nat /\ t.slist[i].xmit \in Nat
<1> DEFINE P == PlacedSegs(t.snd_una, Len(t.sbuf))
<1>1. /\ t.sbuf \in Seq(Int) /\ t.slist \in Seq(P)
      /\ t.snd_una \in Seqs /\ t.snd_nxt \in Seqs
  BY DEF Good, Sends
<1>2. t.snd_una \in Int /\ t.snd_nxt \in Int /\ Len(t.sbuf) \in Nat
  BY <1>1, SeqModNat DEF Seqs
<1>3. t.slist \in Seq(Segs)
  BY <1>1, <1>2, PlacedAreSegs
<1> HIDE DEF P
<1>4. Len(t.slist) \in Nat /\ \A i \in 1 .. Len(t.slist) : t.slist[i] \in P /\ t.slist[i] \in Segs
  BY <1>1, <1>3, ElementOfSeq
<1>5. \A s \in Segs : s.len \in Nat /\ s.xmit \in Nat
  BY DEF Segs
<1> QED
  BY <1>1, <1>2, <1>3, <1>4, <1>5 DEF P

\* Before the first segment that was not transmitted, all were
LEMMA FirstUnsent ==
  ASSUME NEW t, Good(t), unsent(t) # {}
  PROVE  LET i == CHOOSE k \in unsent(t) : \A j \in unsent(t) : k <= j IN
         i \in 1 .. Len(t.slist) /\ t.slist[i].xmit = 0 /\ AllSent(t.slist, i)
<1> DEFINE i == CHOOSE k \in unsent(t) : \A j \in unsent(t) : k <= j
<1>1. Len(t.slist) \in Nat /\ \A j \in 1 .. Len(t.slist) : t.slist[j].xmit \in Nat
  BY SlistTypes
<1>2. unsent(t) \in SUBSET Nat
  BY <1>1 DEF unsent
<1>3. \E k \in unsent(t) : \A j \in unsent(t) : k <= j
  BY <1>2, NatMinimum
<1>4. i \in unsent(t) /\ \A j \in unsent(t) : i <= j
  <2> HIDE <1>1, <1>2
  <2> QED
    BY <1>3
<1> HIDE DEF i
<1>5. i \in 1 .. Len(t.slist) /\ t.slist[i].xmit = 0
  BY <1>4 DEF unsent
<1>6. AllSent(t.slist, i)
  <2> SUFFICES ASSUME NEW j \in 1 .. i - 1 PROVE t.slist[j].xmit > 0
    BY DEF AllSent
  <2>1. j \in 1 .. Len(t.slist) /\ ~(i <= j)
    BY <1>1, <1>5
  <2>2. t.slist[j].xmit # 0
    BY <1>4, <2>1 DEF unsent
  <2> QED
    BY <1>1, <2>1, <2>2
<1> QED
  BY <1>5, <1>6 DEF i

LEMMA AvailableNat ==
  ASSUME NEW t, Good(t)
  PROVE  Available(t) \in Nat
<1> DEFINE limited == IF t.dup_acks \in {1, 2} THEN t.dup_acks * t.mss ELSE 0
           nWindow == Least(t.snd_wnd, t.cwnd + limited)
           flight == Sub(t.snd_nxt, t.snd_una)
           usable == IF flight < nWindow THEN nWindow - flight ELSE 0
           avail == IF Len(t.sbuf) < flight THEN 0 ELSE Least(Len(t.sbuf) - flight, t.mss)
<1>1. t.snd_wnd \in Int /\ t.mss \in Nat /\ t.cwnd \in Nat /\ t.dup_acks \in Nat
  BY DEF Good, Paces
<1>2. flight \in Nat /\ Len(t.sbuf) \in Nat
  <2>1. t.snd_una \in Int /\ t.snd_nxt \in Int
    BY SlistTypes
  <2> QED
    BY <2>1, SeqTypes, SlistTypes
<1>3. limited \in Nat
  <2>1. CASE t.dup_acks = 1
    BY <1>1, <2>1
  <2>2. CASE t.dup_acks = 2
    BY <1>1, <2>2
  <2> QED
    BY <2>1, <2>2
<1> HIDE DEF limited
<1>4. nWindow \in Int
  BY <1>1, <1>3 DEF Least
<1> HIDE DEF nWindow, flight
<1>5. usable \in Nat
  BY <1>2, <1>4
<1>6. avail \in Nat
  BY <1>1, <1>2 DEF Least
<1> HIDE DEF usable, avail
<1>7. Available(t) = IF avail <= usable THEN avail ELSE IF usable * 4 < nWindow THEN 0 ELSE usable
  BY DEF Available, avail, usable, nWindow, flight, limited
<1> QED
  BY <1>5, <1>6, <1>7

\* A segment is cut before its first part is sent
LEMMA CutGood ==
  ASSUME NEW t, Good(t), NEW i \in 1 .. Len(t.slist), AllSent(t.slist, i),
         t.slist[i].xmit = 0, NEW k \in Nat \ {0}, k < t.slist[i].len
  PROVE  LET u == [t EXCEPT !.slist = TakeN(@, i - 1) \o Split(t.slist[i], k) \o DropN(@, i)] IN
         Good(u) /\ Stays(t, u) /\ i \in 1 .. Len(u.slist) /\ AllSent(u.slist, i)
<1> DEFINE seg == t.slist[i]
           x == FirstPart(seg, k, 0)
           y == SecondPart(seg, k)
           parts == <<x, y>>
           sl == Replaced(t.slist, i, parts)
           u == [t EXCEPT !.slist = TakeN(@, i - 1) \o Split(seg, k) \o DropN(@, i)]
           P == PlacedSegs(t.snd_una, Len(t.sbuf))
<1>1. /\ DOMAIN t = Fields /\ t.state \in States /\ Receives(t) /\ Paces(t) /\ Sends(t)
      /\ Accounted(t) /\ \A p \in t.out : PktOk(p)
  BY DEF Good
<1>2. /\ t.slist \in Seq(Segs) /\ t.slist \in Seq(P) /\ seg \in P /\ seg \in Segs
      /\ t.snd_una \in Int /\ Len(t.sbuf) \in Nat /\ Len(t.slist) \in Nat /\ seg.len \in Nat
  BY SlistTypes
<1>3. x = [seg EXCEPT !.len = k]
  <2>1. seg \in [seq : Int, len : Nat, flags : SegFlags, xmit : Nat] /\ seg.xmit = 0
    BY <1>2 DEF Segs
  <2> HIDE DEF seg
  <2> QED
    BY <2>1 DEF FirstPart
<1>4. Split(seg, k) = parts
  BY <1>3 DEF Split, SecondPart
<1>5. /\ x \in P /\ x.seq = seg.seq /\ x.len = k /\ x.flags = seg.flags /\ x.xmit = 0
      /\ y \in P /\ y.seq = Add(seg.seq, k) /\ y.len = seg.len - k
      /\ y.flags = seg.flags /\ y.xmit = 0
  <2> DEFINE len == Len(t.sbuf)
             una == t.snd_una
  <2>1. /\ una \in Int /\ len \in Nat /\ seg \in PlacedSegs(una, len) /\ k \in Nat /\ 0 \in Nat
        /\ k <= seg.len /\ (k = 0 => seg.len = 0) /\ k < seg.len /\ seg.xmit = 0
    BY <1>2
  <2> HIDE DEF seg, len, una
  <2>2. /\ FirstPart(seg, k, 0) \in PlacedSegs(una, len)
        /\ FirstPart(seg, k, 0).seq = seg.seq /\ FirstPart(seg, k, 0).len = k
        /\ FirstPart(seg, k, 0).flags = seg.flags /\ FirstPart(seg, k, 0).xmit = 0
        /\ SecondPart(seg, k) \in PlacedSegs(una, len)
        /\ SecondPart(seg, k).seq = Add(seg.seq, k)
        /\ SecondPart(seg, k).len = seg.len - k
        /\ SecondPart(seg, k).flags = seg.flags
        /\ SecondPart(seg, k).xmit = seg.xmit
    BY <2>1, PlacedParts
  <2> QED
    BY <2>1, <2>2 DEF len, una
<1>6. x \in Segs /\ y \in Segs
  BY <1>5 DEF PlacedSegs
<1>7. parts \in Seq(P) /\ parts \in Seq(Segs) /\ Len(parts) = 2 /\ parts # <<>>
      /\ \A j \in 1 .. Len(parts) : parts[j].flags = seg.flags
  <2> HIDE DEF x, y, seg, P
  <2> QED
    BY <1>5, <1>6
<1> HIDE DEF x, y, seg
<1>8. u = [t EXCEPT !.slist = sl]
  BY <1>4 DEF Replaced
<1> HIDE DEF u
<1>9. IsReplaced(sl, P, t.slist, i, parts) /\ IsReplaced(sl, Segs, t.slist, i, parts)
  <2> HIDE DEF P, parts, sl
  <2> QED
    BY <1>2, <1>7, ReplacedElements DEF sl
<1> HIDE DEF sl
<1>10. /\ DOMAIN u = Fields /\ u.slist = sl /\ u.state = t.state /\ u.fin_ack = t.fin_ack
       /\ u.sbuf = t.sbuf /\ u.snd_una = t.snd_una /\ u.snd_nxt = t.snd_nxt /\ u.bad = t.bad
       /\ u.rto = t.rto /\ u.out = t.out
  BY <1>1, <1>8 DEF Fields
<1>11. Receives(u)
  BY <1>1, <1>8, ReceivesSame DEF Fields
<1>12. Paces(u)
  BY <1>1, <1>8, PacesSame DEF Fields
<1>13. sl \in Seq(P) /\ sl \in Seq(Segs) /\ Len(sl) = Len(t.slist) - 1 + Len(parts)
       /\ \A j \in 1 .. i - 1 : sl[j] = t.slist[j]
  BY <1>9 DEF IsReplaced
<1>14. Sends(u)
  BY <1>1, <1>10, <1>13 DEF Sends
<1>15. NoFin(sl) <=> NoFin(t.slist)
  <2> HIDE DEF parts
  <2> QED
    BY <1>2, <1>7, <1>9, ReplacedFlags DEF seg
<1>16. i \in 1 .. Len(sl)
  BY <1>2, <1>7, <1>13
<1>17. AllSent(sl, i)
  BY <1>13 DEF AllSent
<1>18. Accounted(u)
  <2> SUFFICES ASSUME t.state # "CLOSED"
               PROVE \E b, p : /\ CoverBy(sl, t.snd_una, Len(t.sbuf), b, p)
                               /\ t.state \in PreFin /\ NoFin(t.slist)
                                    => Sub(t.snd_nxt, t.snd_una) = b[p]
    BY <1>10, <1>15 DEF Accounted
  <2>1. PICK b, p : /\ CoverBy(t.slist, t.snd_una, Len(t.sbuf), b, p)
                    /\ t.state \in PreFin /\ NoFin(t.slist) => Sub(t.snd_nxt, t.snd_una) = b[p]
    BY <1>1 DEF Accounted
  <2>2. /\ b \in [0 .. Len(t.slist) -> Nat] /\ p \in 0 .. Len(t.slist)
        /\ \A j \in 1 .. Len(t.slist) : t.slist[j].xmit > 0 <=> j <= p
    BY <2>1 DEF CoverBy
  <2>3. i > p
    BY <1>2, <2>2
  <2>4. IsCut(t.slist[i], k, x, y)
    BY <1>5 DEF seg, IsCut
  <2>5. CutSent(p, p, i, x, y)
    BY <1>5, <2>3 DEF CutSent
  <2>6. CoversTo(Replaced(t.slist, i, <<x, y>>), t.snd_una, Len(t.sbuf), p,
                 b[p] + IF p = i THEN k ELSE 0)
    <3>1. t.snd_una \in Int /\ i \in 1 .. Len(t.slist) /\ k \in Nat
          /\ CoverBy(t.slist, t.snd_una, Len(t.sbuf), b, p)
      BY <1>2, <2>1
    <3> QED
      BY <1>2, <1>6, <2>4, <2>5, <3>1, CoverCut
  <2>7. PICK c : /\ CoverBy(Replaced(t.slist, i, <<x, y>>), t.snd_una, Len(t.sbuf), c, p)
                 /\ c[p] = b[p] + IF p = i THEN k ELSE 0
    BY <2>6 DEF CoversTo
  <2>8. c[p] = b[p]
    <3>1. b[p] \in Nat /\ p # i
      BY <2>2, <2>3
    <3> QED
      BY <2>7, <3>1
  <2> QED
    BY <2>1, <2>7, <2>8 DEF sl
<1>19. Good(u)
  BY <1>1, <1>10, <1>11, <1>12, <1>14, <1>18 DEF Good
<1>20. Stays(t, u)
  <2>1. t.slist # <<>>
    OBVIOUS
  <2> QED
    BY <1>10, <1>15, <2>1 DEF Stays
<1> QED
  BY <1>10, <1>16, <1>17, <1>19, <1>20 DEF u, seg

\* What a turn of the loop keeps
Turning(t, s) == DOMAIN s = {"t", "flags", "done"} /\ Good(s.t) /\ Stays(t, s.t)

LEMMA SendTurnGood ==
  ASSUME NEW t0, NEW s, Turning(t0, s)
  PROVE  Turning(t0, SendLoop(s))
<1> DEFINE t == s.t
           force == s.flags \in {"sfFin", "sfRst"}
           avail == Available(t)
           i == IF unsent(t) = {} THEN 0
                ELSE CHOOSE k \in unsent(t) : \A j \in unsent(t) : k <= j
           seg == t.slist[i]
           cut == [t EXCEPT !.slist = TakeN(@, i - 1) \o Split(seg, avail) \o DropN(@, i)]
           v == IF seg.len > avail /\ ~force THEN cut ELSE t
           last == CASE s.flags = "sfNone" -> t
                     [] s.flags = "sfImmediateAck" \/ (s.flags = "sfDelayedAck" /\ t.t_ack) ->
                           packet(t, t.snd_nxt, "none", <<>>)
                     [] OTHER -> [t EXCEPT !.t_ack = TRUE]
           stop == avail = 0 /\ ~force
           wait == (Nagle /\ ~force /\ t.snd_nxt > t.snd_una /\ avail < t.mss) \/ i = 0
           sent == transmit(v, i)
<1>1. DOMAIN s = {"t", "flags", "done"} /\ Good(t) /\ Stays(t0, t)
  BY DEF Turning
<1>2. SendTurn(s) = IF stop THEN [s EXCEPT !.done = TRUE, !.t = last]
                    ELSE IF wait THEN [s EXCEPT !.done = TRUE]
                    ELSE [t |-> sent.t, done |-> ~sent.ok,
                          flags |-> IF force THEN s.flags ELSE "sfNone"]
  BY DEF SendTurn
<1>3. Good(last) /\ Stays(t, last)
  <2> DEFINE pk == packet(t, t.snd_nxt, "none", <<>>)
             w == [t EXCEPT !.t_ack = TRUE]
  <2>1. Good(pk) /\ Stays(t, pk)
    <3>1. t.snd_nxt \in Int /\ <<>> \in Seq(Int)
      BY <1>1, SlistTypes
    <3> HIDE DEF t
    <3> QED
      BY <1>1, <3>1, PacketWritten
  <2>2. Good(w) /\ Stays(t, w)
    <3>1. DOMAIN t = Fields /\ Paces(t)
      BY <1>1 DEF Good
    <3> HIDE DEF t
    <3>2. SameButPaces(t, w)
      BY <3>1 DEF SameButPaces, Fields
    <3>3. Paces(w)
      BY <3>1, PacesSame DEF Fields
    <3> HIDE DEF w
    <3> QED
      BY <1>1, <3>2, <3>3, Repaced
  <2>3. last = t \/ last = pk \/ last = w
    <3> HIDE DEF pk, w, t
    <3> QED
      BY DEF pk, w
  <2> HIDE DEF last, pk, w, t
  <2> QED
    BY <1>1, <2>1, <2>2, <2>3, StaysSelf
<1> HIDE DEF last
<1>4. CASE stop
  <2>1. SendTurn(s) = [s EXCEPT !.done = TRUE, !.t = last]
    BY <1>2, <1>4
  <2> DEFINE r == SendTurn(s)
  <2>2. DOMAIN r = {"t", "flags", "done"} /\ r.t = last
    BY <1>1, <2>1
  <2>3. Stays(t0, last)
    BY <1>1, <1>3, StaysTrans
  <2>4. Turning(t0, SendTurn(s))
    BY <1>3, <2>2, <2>3 DEF Turning
  <2> QED
    BY <2>4 DEF SendLoop
<1>5. CASE ~stop /\ wait
  <2>1. SendTurn(s) = [s EXCEPT !.done = TRUE]
    BY <1>2, <1>5
  <2> DEFINE r == SendTurn(s)
  <2>2. DOMAIN r = {"t", "flags", "done"} /\ r.t = t
    BY <1>1, <2>1
  <2>3. Turning(t0, SendTurn(s))
    BY <1>1, <2>2 DEF Turning
  <2> QED
    BY <2>3 DEF SendLoop
<1>6. CASE ~stop /\ ~wait
  <2>1. SendTurn(s) = [t |-> sent.t, done |-> ~sent.ok,
                       flags |-> IF force THEN s.flags ELSE "sfNone"]
    BY <1>2, <1>6
  <2>2. i # 0 /\ unsent(t) # {}
    BY <1>6
  <2>3. i \in 1 .. Len(t.slist) /\ t.slist[i].xmit = 0 /\ AllSent(t.slist, i)
    <3>1. i = CHOOSE k \in unsent(t) : \A j \in unsent(t) : k <= j
      BY <2>2
    <3> HIDE DEF i, t
    <3> QED
      BY <1>1, <2>2, <3>1, FirstUnsent
  <2> HIDE DEF i
  <2>4. avail \in Nat
    BY <1>1, AvailableNat
  <2> HIDE DEF t
  <2>5. Good(v) /\ Stays(t, v) /\ i \in 1 .. Len(v.slist) /\ AllSent(v.slist, i)
    <3>1. CASE seg.len > avail /\ ~force
      <4>1. avail # 0
        BY <1>6, <3>1
      <4> HIDE DEF avail
      <4>2. avail \in Nat \ {0} /\ avail < t.slist[i].len
        <5>1. seg.len \in Nat
          BY <1>1, <2>3, SlistTypes
        <5> QED
          BY <2>4, <3>1, <4>1, <5>1
      <4>3. Good(cut) /\ Stays(t, cut) /\ i \in 1 .. Len(cut.slist) /\ AllSent(cut.slist, i)
        BY <1>1, <2>3, <4>2, CutGood
      <4> QED
        BY <3>1, <4>3, Zenon
    <3>2. CASE ~(seg.len > avail /\ ~force)
      BY <1>1, <2>3, <3>2, StaysSelf
    <3> QED
      BY <3>1, <3>2
  <2> HIDE DEF v
  <2>6. Good(sent.t) /\ Stays(v, sent.t)
    BY <2>5, TransmitGood
  <2>7. Stays(t0, sent.t)
    BY <1>1, <2>5, <2>6, StaysTrans
  <2>8. Turning(t0, SendTurn(s))
    <3> HIDE DEF sent, force
    <3> DEFINE r == SendTurn(s)
    <3>1. DOMAIN r = {"t", "flags", "done"} /\ r.t = sent.t
      BY <2>1
    <3> QED
      BY <2>6, <2>7, <3>1 DEF Turning, sent
  <2> QED
    BY <1>1, <2>8 DEF SendLoop
<1>7. CASE s.done
  BY <1>7 DEF SendLoop
<1> QED
  BY <1>4, <1>5, <1>6

\* The turns of the loop
SendTurns(f, N, start) ==
    f = [n \in 0 .. N |-> IF n = 0 THEN start ELSE SendLoop(f[n - 1])]

LEMMA SendTurnsExist ==
  ASSUME NEW N \in Nat, NEW start
  PROVE  \E f : SendTurns(f, N, start)
<1> DEFINE Turns(f, k) ==
             f = [n \in 0 .. k |-> IF n = 0 THEN start ELSE SendLoop(f[n - 1])]
           T == {k \in Nat : \E f : Turns(f, k)}
<1>1. 0 \in T
  <2> DEFINE f == [n \in 0 .. 0 |-> start]
  <2>1. Turns(f, 0)
    OBVIOUS
  <2> QED
    BY <2>1
<1>2. \A k \in Nat : k \in T => k + 1 \in T
  <2> SUFFICES ASSUME NEW k \in Nat, NEW f, Turns(f, k) PROVE \E h : Turns(h, k + 1)
    OBVIOUS
  <2> DEFINE h == [n \in 0 .. k + 1 |-> IF n = k + 1 THEN SendLoop(f[k]) ELSE f[n]]
  <2>1. \A n \in 0 .. k + 1 : h[n] = IF n = 0 THEN start ELSE SendLoop(h[n - 1])
    <3> TAKE n \in 0 .. k + 1
    <3>1. CASE n = k + 1
      BY <3>1
    <3>2. CASE n # k + 1
      <4>1. n \in 0 .. k /\ h[n] = f[n] /\ (n # 0 => h[n - 1] = f[n - 1])
        BY <3>2
      <4>2. f[n] = IF n = 0 THEN start ELSE SendLoop(f[n - 1])
        BY <4>1
      <4> QED
        BY <4>1, <4>2
    <3> QED
      BY <3>1, <3>2
  <2>2. Turns(h, k + 1)
    BY <2>1
  <2> QED
    BY <2>2
<1>3. \A k \in Nat : k \in T
  <2> HIDE DEF T
  <2> QED
    BY <1>1, <1>2, NatSetInduction
<1> QED
  BY <1>3 DEF SendTurns

LEMMA AttemptSendGood ==
  ASSUME NEW t, Good(t), NEW flags
  PROVE  Good(attempt_send(t, flags)) /\ Stays(t, attempt_send(t, flags))
<1> DEFINE w == IF t.idle THEN [t EXCEPT !.cwnd = t.mss] ELSE t
           start == [t |-> w, flags |-> flags, done |-> FALSE]
           N == Len(t.sbuf) + Len(t.slist) + 1
           run == CHOOSE f : SendTurns(f, N, start)
           T == {n \in Nat : n <= N => Turning(t, run[n])}
<1>1. N \in Nat
  <2>1. Len(t.sbuf) \in Nat /\ Len(t.slist) \in Nat
    BY SlistTypes
  <2>2. \A a, c \in Nat : a + c + 1 \in Nat
    OBVIOUS
  <2> QED
    BY <2>1, <2>2
<1>2. Good(w) /\ Stays(t, w)
  <2>1. CASE t.idle
    <3>1. DOMAIN t = Fields /\ Paces(t)
      BY DEF Good
    <3> DEFINE u == [t EXCEPT !.cwnd = t.mss]
    <3>2. SameButPaces(t, u)
      BY <3>1 DEF SameButPaces, Fields
    <3>3. /\ u.cwnd = t.mss /\ u.state = t.state /\ u.snd_wnd = t.snd_wnd /\ u.mss = t.mss
          /\ u.msslevel = t.msslevel /\ u.ssthresh = t.ssthresh /\ u.dup_acks = t.dup_acks
      BY <3>1 DEF Fields
    <3> HIDE DEF u
    <3>4. Paces(u)
      BY <3>1, <3>3 DEF Paces
    <3>5. Good(u) /\ Stays(t, u)
      BY <3>2, <3>4, Repaced
    <3> QED
      BY <2>1, <3>5 DEF u
  <2>2. CASE ~t.idle
    BY <2>2, StaysSelf
  <2> QED
    BY <2>1, <2>2
<1> HIDE DEF w
<1>3. attempt_send(t, flags) = run[N].t
  BY DEF attempt_send, w, SendTurns
<1> HIDE DEF N
<1>4. SendTurns(run, N, start)
  <2> HIDE DEF start
  <2>1. \E f : SendTurns(f, N, start)
    BY <1>1, SendTurnsExist
  <2> QED
    BY <2>1
<1> HIDE DEF run
<1>5. Turning(t, start)
  <2>1. DOMAIN start = {"t", "flags", "done"} /\ start.t = w
    OBVIOUS
  <2> HIDE DEF start
  <2> QED
    BY <1>2, <2>1 DEF Turning
<1> HIDE DEF start
<1>6. run[0] = start /\ \A n \in 1 .. N : run[n] = SendLoop(run[n - 1])
  <2>1. \A n \in 0 .. N : run[n] = IF n = 0 THEN start ELSE SendLoop(run[n - 1])
    BY <1>4 DEF SendTurns
  <2> QED
    BY <1>1, <2>1
<1>7. 0 \in T
  BY <1>5, <1>6
<1>8. \A n \in Nat : n \in T => n + 1 \in T
  <2> SUFFICES ASSUME NEW n \in Nat, n + 1 <= N, Turning(t, run[n])
               PROVE  Turning(t, run[n + 1])
    BY <1>1
  <2>1. run[n + 1] = SendLoop(run[n])
    BY <1>1, <1>6
  <2> QED
    BY <2>1, SendTurnGood
<1>9. N \in T
  <2> HIDE DEF T
  <2> QED
    BY <1>1, <1>7, <1>8, NatSetInduction
<1>10. Turning(t, run[N])
  BY <1>1, <1>9
<1> QED
  BY <1>3, <1>10 DEF Turning

-----------------------------------------------------------------------------
\* What queue does

\* A segment may be queued: one without bytes is a FIN or RST
MayQueue(d, flags) == d \in Nat /\ flags \in SegFlags /\ (flags \in {"fin", "rst"} <=> d = 0)

LEMMA QueueListFlags ==
  ASSUME NEW sl \in Seq(Segs), NEW seq \in Int, NEW d, NEW flags, MayQueue(d, flags)
  PROVE  LET r == QueueList(sl, seq, d, flags) IN
         /\ r \in Seq(Segs)
         /\ NoFin(r) => NoFin(sl)
         /\ flags # "fin" /\ NoFin(sl) => NoFin(r)
<1> DEFINE N == Len(sl)
           x == [sl[N] EXCEPT !.len = @ + d]
           y == [seq |-> seq, len |-> d, flags |-> flags, xmit |-> 0]
           r == QueueList(sl, seq, d, flags)
<1>1. N \in Nat
  OBVIOUS
<1>2. CASE N > 0 /\ sl[N].flags = flags /\ sl[N].xmit = 0
  <2>1. N \in 1 .. N /\ r = [sl EXCEPT ![N] = x]
    BY <1>1, <1>2 DEF QueueList
  <2>2. sl[N] \in Segs
    BY <2>1, ElementOfSeq
  <2>3. x \in Segs /\ x.flags = sl[N].flags
    <3> DEFINE s == sl[N]
    <3>1. /\ s \in [seq : Int, len : Nat, flags : SegFlags, xmit : Nat]
          /\ s.flags \in {"fin", "rst"} <=> s.len = 0
          /\ s.flags \in {"fin", "rst"} <=> d = 0
          /\ d \in Nat
      BY <1>2, <2>2 DEF Segs, MayQueue
    <3> HIDE DEF s
    <3> DEFINE z == [s EXCEPT !.len = @ + d]
    <3>2. z \in [seq : Int, len : Nat, flags : SegFlags, xmit : Nat]
          /\ z.flags = s.flags /\ z.len = s.len + d
      BY <3>1
    <3> HIDE DEF z
    <3>3. z.flags \in {"fin", "rst"} <=> z.len = 0
      BY <3>1, <3>2
    <3> QED
      BY <3>2, <3>3 DEF Segs, z, s
  <2> HIDE DEF x, N
  <2>4. /\ r \in Seq(Segs) /\ Len(r) = N /\ r[N] = x /\ \A j \in 1 .. N : j # N => r[j] = sl[j]
    BY <1>1, <2>1, <2>3 DEF N
  <2>5. \A j \in 1 .. N : r[j].flags = sl[j].flags
    BY <2>3, <2>4
  <2> HIDE DEF r
  <2>6. NoFin(r) <=> NoFin(sl)
    BY <2>4, <2>5 DEF NoFin, N
  <2> QED
    BY <2>4, <2>6 DEF r
<1>3. CASE ~(N > 0 /\ sl[N].flags = flags /\ sl[N].xmit = 0)
  <2>1. r = Append(sl, y)
    BY <1>3 DEF QueueList
  <2>2. y \in Segs /\ y.flags = flags
    BY DEF Segs, MayQueue
  <2> HIDE DEF y, r
  <2>3. /\ r \in Seq(Segs) /\ Len(r) = N + 1 /\ r[N + 1] = y
        /\ \A j \in 1 .. N : r[j] = sl[j]
    BY <2>1, <2>2, AppendProperties
  <2> HIDE DEF N
  <2>4. NoFin(r) => NoFin(sl)
    <3> SUFFICES ASSUME NoFin(r), NEW j \in 1 .. N PROVE sl[j].flags # "fin"
      BY DEF NoFin, N
    <3>1. j \in 1 .. Len(r) /\ r[j] = sl[j]
      BY <1>1, <2>3
    <3> QED
      BY <3>1 DEF NoFin
  <2>5. ASSUME flags # "fin", NoFin(sl) PROVE NoFin(r)
    <3> SUFFICES ASSUME NEW j \in 1 .. N + 1 PROVE r[j].flags # "fin"
      BY <2>3 DEF NoFin
    <3>1. CASE j = N + 1
      BY <2>2, <2>3, <2>5, <3>1
    <3>2. CASE j # N + 1
      <4>1. j \in 1 .. N
        BY <1>1, <3>2
      <4> QED
        BY <2>3, <2>5, <4>1 DEF NoFin, N
    <3> QED
      BY <3>1, <3>2
  <2> QED
    BY <2>3, <2>4, <2>5 DEF r
<1> QED
  BY <1>2, <1>3

LEMMA QueueListPlaced ==
  ASSUME NEW una \in Int, NEW n \in Nat, NEW sl \in Seq(PlacedSegs(una, n)), NEW seq \in Int,
         NEW flags, MayQueue(0, flags)
  PROVE  QueueList(sl, seq, 0, flags) \in Seq(PlacedSegs(una, n))
<1> DEFINE N == Len(sl)
           x == [sl[N] EXCEPT !.len = @ + 0]
           y == [seq |-> seq, len |-> 0, flags |-> flags, xmit |-> 0]
           r == QueueList(sl, seq, 0, flags)
           P == PlacedSegs(una, n)
<1>1. N \in Nat
  OBVIOUS
<1>2. CASE N > 0 /\ sl[N].flags = flags /\ sl[N].xmit = 0
  <2>1. N \in 1 .. N /\ r = [sl EXCEPT ![N] = x]
    BY <1>1, <1>2 DEF QueueList
  <2>2. sl[N] \in P /\ sl \in Seq(P)
    <3> HIDE DEF P
    <3> QED
      BY <2>1, ElementOfSeq DEF P
  <2>3. x = sl[N]
    <3> DEFINE s == sl[N]
    <3>1. s \in [seq : Int, len : Nat, flags : SegFlags, xmit : Nat]
      BY <2>2 DEF PlacedSegs, Segs
    <3> HIDE DEF s
    <3>2. [s EXCEPT !.len = @ + 0] = s
      BY <3>1
    <3> QED
      BY <3>2 DEF s
  <2> HIDE DEF x, P
  <2>4. r \in Seq(P)
    BY <1>1, <2>1, <2>2, <2>3
  <2> QED
    BY <2>4 DEF P
<1>3. CASE ~(N > 0 /\ sl[N].flags = flags /\ sl[N].xmit = 0)
  <2>1. r = Append(sl, y)
    BY <1>3 DEF QueueList
  <2>2. y \in P
    BY DEF PlacedSegs, Segs, MayQueue
  <2> HIDE DEF y, P
  <2>3. sl \in Seq(P)
    BY DEF P
  <2>4. r \in Seq(P)
    BY <2>1, <2>2, <2>3
  <2> QED
    BY <2>4 DEF P
<1> QED
  BY <1>2, <1>3

LEMMA CoverQueueList ==
  ASSUME NEW sl \in Seq(Segs), NEW una \in Int, NEW n \in Nat, NEW b, NEW p,
         CoverBy(sl, una, n, b, p), NEW d, NEW flags, MayQueue(d, flags), d > 0 => NoFin(sl)
  PROVE  CoversTo(QueueList(sl, Add(una, n), d, flags), una, n + d, p, b[p])
<1> DEFINE N == Len(sl)
           x == [sl[N] EXCEPT !.len = @ + d]
           y == [seq |-> Add(una, n), len |-> d, flags |-> flags, xmit |-> 0]
           r == QueueList(sl, Add(una, n), d, flags)
<1>1. N \in Nat /\ d \in Nat /\ n \in Int /\ Add(una, n) \in Int
  <2>1. n \in Int
    OBVIOUS
  <2> QED
    BY <2>1, SeqTypes DEF MayQueue
<1>2. CASE N > 0 /\ sl[N].flags = flags /\ sl[N].xmit = 0
  <2>1. N \in 1 .. N /\ r = [sl EXCEPT ![N] = x] /\ sl # <<>>
    BY <1>1, <1>2 DEF QueueList
  <2>2. sl[N] \in Segs
    BY <2>1, ElementOfSeq
  <2>3. x \in Segs /\ (d > 0 => sl[N].len > 0)
    <3> DEFINE s == sl[N]
    <3>1. /\ s \in [seq : Int, len : Nat, flags : SegFlags, xmit : Nat]
          /\ s.flags \in {"fin", "rst"} <=> s.len = 0
          /\ s.flags \in {"fin", "rst"} <=> d = 0
          /\ d \in Nat
      BY <1>2, <2>2 DEF Segs, MayQueue
    <3> HIDE DEF s
    <3> DEFINE z == [s EXCEPT !.len = @ + d]
    <3>2. z \in [seq : Int, len : Nat, flags : SegFlags, xmit : Nat]
          /\ z.flags = s.flags /\ z.len = s.len + d
      BY <3>1
    <3> HIDE DEF z
    <3>3. z.flags \in {"fin", "rst"} <=> z.len = 0
      BY <3>1, <3>2
    <3>4. d > 0 => s.len > 0
      BY <3>1
    <3> QED
      BY <3>2, <3>3, <3>4 DEF Segs, z, s
  <2>4. CoversTo(Ending(sl, x), una, n + d, p, b[p])
    <3>1. /\ x.len = sl[Len(sl)].len + d /\ x.seq = sl[Len(sl)].seq
          /\ x.xmit = sl[Len(sl)].xmit /\ x.flags = sl[Len(sl)].flags
          /\ sl[Len(sl)].xmit = 0
      BY <1>2, <2>2 DEF Segs
    <3>2. d > 0 => NoFin(sl) /\ sl[Len(sl)].len > 0
      BY <2>3
    <3> HIDE DEF x
    <3> QED
      BY <1>1, <2>1, <2>3, <3>1, <3>2, CoverExtended
  <2> QED
    BY <2>1, <2>4 DEF Ending
<1>3. CASE ~(N > 0 /\ sl[N].flags = flags /\ sl[N].xmit = 0)
  <2>1. r = Append(sl, y)
    BY <1>3 DEF QueueList
  <2>2. y \in Segs /\ y.xmit = 0 /\ y.len = d /\ y.seq = Add(una, n)
    BY <1>1 DEF Segs, MayQueue
  <2> HIDE DEF y
  <2>3. \E c : CoverBy(Append(sl, y), una, n + y.len, c, p) /\ c[p] = b[p]
    BY <2>2, CoverQueued
  <2> QED
    BY <2>1, <2>2, <2>3 DEF CoversTo
<1> QED
  BY <1>2, <1>3

LEMMA QueueGood ==
  ASSUME NEW t, Good(t), NEW bytes \in Seq(Int), NEW flags, MayQueue(Len(bytes), flags),
         Len(bytes) <= SBufLen - Len(t.sbuf),
         Len(bytes) > 0 => t.state # "CLOSED" /\ NoFin(t.slist)
  PROVE  LET u == queue(t, bytes, flags) IN
         /\ Good(u) /\ u.state = t.state /\ u.fin_ack = t.fin_ack
         /\ flags # "fin" /\ NoFin(t.slist) => NoFin(u.slist)
<1> DEFINE n == Len(t.sbuf)
           d == Len(bytes)
           una == t.snd_una
           sl == QueueList(t.slist, Add(una, n), d, flags)
           sb == t.sbuf \o bytes
           u == queue(t, bytes, flags)
<1>1. /\ DOMAIN t = Fields /\ t.state \in States /\ Receives(t) /\ Paces(t) /\ Sends(t)
      /\ Accounted(t) /\ \A p \in t.out : PktOk(p)
  BY DEF Good
<1>2. /\ t.sbuf \in Seq(Int) /\ n \in Nat /\ n <= SBufLen /\ SBufLen \in Nat /\ d \in Nat
      /\ una \in Int /\ t.slist \in Seq(Segs) /\ t.slist \in Seq(PlacedSegs(una, n))
      /\ Len(t.slist) \in Nat
  BY <1>1, SlistTypes, SizesAssumption DEF Sends
<1>3. TakeN(bytes, SBufLen - n) = bytes
  <2> DEFINE room == SBufLen - n
             k == TakeN(bytes, room)
  <2>1. room \in Int /\ d <= room
    BY <1>2
  <2> HIDE DEF room
  <2>2. /\ k \in Seq(Int) /\ Len(k) = IF room <= 0 THEN 0 ELSE IF room <= d THEN room ELSE d
        /\ \A i \in 1 .. Len(k) : k[i] = bytes[i]
    BY <2>1, Taken
  <2>3. Len(k) = Len(bytes)
    BY <1>2, <2>1, <2>2
  <2> HIDE DEF k
  <2>4. k = bytes
    BY <2>2, <2>3, SeqEqual
  <2> QED
    BY <2>4 DEF k, room
<1>4. u = [t EXCEPT !.slist = sl, !.sbuf = sb]
  <2>1. Assert(t, d <= SBufLen - n \/ flags = "none", "control") = t
    BY DEF Assert
  <2> DEFINE e == TakeN(bytes, SBufLen - n)
             W(v, f) == [v EXCEPT !.slist = QueueList(@, QueueSeq(t), Len(f), flags),
                                  !.sbuf = @ \o f]
  <2>2. u = W(Assert(t, d <= SBufLen - n \/ flags = "none", "control"), e)
    BY DEF queue
  <2>3. u = W(t, bytes)
    <3> HIDE DEF u, W, d, n
    <3> QED
      BY <1>3, <2>1, <2>2
  <2>4. W(t, bytes) = [t EXCEPT !.slist = sl, !.sbuf = sb]
    BY DEF QueueSeq
  <2> HIDE DEF u, W
  <2> QED
    BY <2>3, <2>4
<1>5. sb \in Seq(Int) /\ Len(sb) = n + d /\ n + d <= SBufLen
  BY <1>2, ConcatProperties
<1>6. n \in Int /\ Add(una, n) \in Int
  <2>1. n \in Int
    BY <1>2
  <2> HIDE DEF n, una
  <2> QED
    BY <1>2, <2>1, SeqTypes
<1>7. sl \in Seq(Segs) /\ (NoFin(sl) => NoFin(t.slist)) /\ (flags # "fin" /\ NoFin(t.slist) => NoFin(sl))
  <2> HIDE DEF d, n, una
  <2> QED
    BY <1>2, <1>6, QueueListFlags DEF d
<1>8. t.state # "CLOSED" =>
        \E b, p : /\ CoverBy(sl, una, n + d, b, p)
                  /\ t.state \in PreFin /\ NoFin(t.slist) => Sub(t.snd_nxt, una) = b[p]
  <2> SUFFICES ASSUME t.state # "CLOSED"
               PROVE \E b, p : /\ CoverBy(sl, una, n + d, b, p)
                               /\ t.state \in PreFin /\ NoFin(t.slist)
                                    => Sub(t.snd_nxt, una) = b[p]
    OBVIOUS
  <2>1. PICK b, p : /\ CoverBy(t.slist, una, n, b, p)
                    /\ t.state \in PreFin /\ NoFin(t.slist) => Sub(t.snd_nxt, una) = b[p]
    BY <1>1 DEF Accounted
  <2>2. CoversTo(sl, una, n + d, p, b[p])
    <3> HIDE DEF d, n, una
    <3> QED
      BY <1>2, <2>1, CoverQueueList DEF d
  <2>3. PICK c : CoverBy(sl, una, n + d, c, p) /\ c[p] = b[p]
    BY <2>2 DEF CoversTo
  <2> QED
    BY <2>1, <2>3
<1>9. sl \in Seq(PlacedSegs(una, n + d))
  <2>1. CASE d = 0
    <3>1. n + d = n /\ MayQueue(0, flags)
      BY <1>2, <2>1
    <3>2. QueueList(t.slist, Add(una, n), 0, flags) \in Seq(PlacedSegs(una, n))
      <4> HIDE DEF n, una
      <4> QED
        BY <1>2, <1>6, <3>1, QueueListPlaced
    <3> QED
      BY <2>1, <3>1, <3>2
  <2>2. CASE d # 0
    <3>1. t.state # "CLOSED"
      BY <1>2, <2>2
    <3>2. PICK b, p : CoverBy(sl, una, n + d, b, p)
      BY <1>8, <3>1
    <3> HIDE DEF sl, n, d, una
    <3> QED
      BY <1>7, <3>2, CoverPlaced
  <2> QED
    BY <2>1, <2>2
<1> HIDE DEF sl, sb, u, n, d
<1>10. /\ DOMAIN u = Fields /\ u.slist = sl /\ u.state = t.state /\ u.fin_ack = t.fin_ack
       /\ u.sbuf = sb /\ u.snd_una = t.snd_una /\ u.snd_nxt = t.snd_nxt /\ u.bad = t.bad
       /\ u.rto = t.rto /\ u.out = t.out
  BY <1>1, <1>4 DEF Fields
<1>11. Receives(u)
  BY <1>1, <1>4, ReceivesSame DEF Fields
<1>12. Paces(u)
  BY <1>1, <1>4, PacesSame DEF Fields
<1>13. Sends(u)
  BY <1>1, <1>5, <1>9, <1>10 DEF Sends
<1>14. Accounted(u)
  BY <1>5, <1>7, <1>8, <1>10 DEF Accounted
<1>15. Good(u)
  BY <1>1, <1>10, <1>11, <1>12, <1>13, <1>14 DEF Good
<1> QED
  BY <1>7, <1>10, <1>15 DEF u

-----------------------------------------------------------------------------
\* Opening and closing

\* What the sender keeps about its bytes did not change
SameSender(t, u) ==
    /\ u.state = t.state /\ u.snd_una = t.snd_una /\ u.snd_nxt = t.snd_nxt
    /\ u.sbuf = t.sbuf /\ u.slist = t.slist /\ u.rto = t.rto

LEMMA Rebuilt ==
  ASSUME NEW t, Good(t), NEW u, SameSender(t, u), DOMAIN u = Fields, Receives(u), Paces(u),
         u.bad \subseteq Fallible, \A p \in u.out : PktOk(p)
  PROVE  Good(u)
<1>1. t.state \in States /\ Sends(t) /\ Accounted(t)
  BY DEF Good
<1>2. Sends(u) /\ Accounted(u) /\ u.state \in States
  BY <1>1 DEF Sends, Accounted, SameSender
<1> QED
  BY <1>2 DEF Good

\* Between two calls nothing was queued by a socket that listens, and no FIN
\* before the state says so
Fresh(t) == t.state = "LISTEN" => t.slist = <<>> /\ t.sbuf = <<>>
Open(t) == t.state \in PreFin => NoFin(t.slist)
Sound(t) == Good(t) /\ Fresh(t) /\ Open(t)

LEMMA StaysSound ==
  ASSUME NEW t, Sound(t), NEW u, Good(u), Stays(t, u)
  PROVE  Sound(u)
BY DEF Sound, Fresh, Open, Stays

LEMMA SenderSound ==
  ASSUME NEW t, Sound(t), NEW u, Good(u), SameSender(t, u)
  PROVE  Sound(u)
BY DEF Sound, Fresh, Open, SameSender

LEMMA ClosedSound ==
  ASSUME NEW t, Good(t), t.state = "CLOSED"
  PROVE  Sound(t)
BY DEF Sound, Fresh, Open, PreFin

\* States reached before the FIN, but not LISTEN
LEMMA StateSound ==
  ASSUME NEW t, Sound(t), NEW s \in States, s = t.state \/ <<t.state, s>> \in ValidTransitions,
         s \in PreFin => t.state \in PreFin, t.state = "CLOSED" => s = "CLOSED", s # "LISTEN"
  PROVE  Sound(set_state(t, s)) /\ set_state(t, s).state = s
<1> DEFINE u == set_state(t, s)
<1>1. Good(u) /\ u.state = s /\ SameSending(t, u)
  BY StateSet DEF Sound
<1> HIDE DEF u
<1>2. Sound(u)
  BY <1>1 DEF Sound, Fresh, Open, SameSending
<1> QED
  BY <1>1, <1>2 DEF u

\* States after the FIN
LEMMA StateAfterFin ==
  ASSUME NEW t, Good(t), NEW s \in States \ PreFin,
         s = t.state \/ <<t.state, s>> \in ValidTransitions, t.state = "CLOSED" => s = "CLOSED"
  PROVE  Sound(set_state(t, s)) /\ set_state(t, s).state = s
<1> DEFINE u == set_state(t, s)
<1>1. Good(u) /\ u.state = s
  BY StateSet
<1> HIDE DEF u
<1>2. Sound(u)
  BY <1>1 DEF Sound, Fresh, Open, PreFin
<1> QED
  BY <1>1, <1>2 DEF u

LEMMA FinQueued ==
  ASSUME NEW t, Good(t), t.fin_ack
  PROVE  Good(queue_fin_message(t)) /\ queue_fin_message(t).state = t.state
<1> DEFINE none == <<>>
<1>1. none \in Seq(Int) /\ Len(none) = 0
  OBVIOUS
<1>2. queue_fin_message(t) = queue(t, none, "fin")
  BY DEF queue_fin_message, Assert
<1> HIDE DEF none
<1>3. MayQueue(Len(none), "fin")
  BY <1>1 DEF MayQueue, SegFlags
<1>4. Len(none) <= SBufLen - Len(t.sbuf)
  <2>1. Len(t.sbuf) \in Nat /\ Len(t.sbuf) <= SBufLen /\ SBufLen \in Nat
    BY SlistTypes, SizesAssumption DEF Good, Sends
  <2> QED
    BY <1>1, <2>1
<1>5. Len(none) > 0 => t.state # "CLOSED" /\ NoFin(t.slist)
  BY <1>1
<1> DEFINE u == queue(t, none, "fin")
<1>6. Good(u) /\ u.state = t.state
  BY <1>1, <1>3, <1>4, <1>5, QueueGood
<1> QED
  BY <1>2, <1>6

LEMMA RstQueued ==
  ASSUME NEW t, Good(t), t.fin_ack
  PROVE  Good(queue_rst_message(t)) /\ queue_rst_message(t).state = t.state
<1> DEFINE none == <<>>
<1>1. none \in Seq(Int) /\ Len(none) = 0
  OBVIOUS
<1>2. queue_rst_message(t) = queue(t, none, "rst")
  BY DEF queue_rst_message, Assert
<1> HIDE DEF none
<1>3. MayQueue(Len(none), "rst")
  BY <1>1 DEF MayQueue, SegFlags
<1>4. Len(none) <= SBufLen - Len(t.sbuf)
  <2>1. Len(t.sbuf) \in Nat /\ Len(t.sbuf) <= SBufLen /\ SBufLen \in Nat
    BY SlistTypes, SizesAssumption DEF Good, Sends
  <2> QED
    BY <1>1, <2>1
<1>5. Len(none) > 0 => t.state # "CLOSED" /\ NoFin(t.slist)
  BY <1>1
<1> DEFINE u == queue(t, none, "rst")
<1>6. Good(u) /\ u.state = t.state
  BY <1>1, <1>3, <1>4, <1>5, QueueGood
<1> QED
  BY <1>2, <1>6

\* The SYN: sent by a socket with nothing queued
LEMMA ConnectQueued ==
  ASSUME NEW t, Good(t), t.state \in {"SYN_SENT", "SYN_RECEIVED"}, t.slist = <<>>, t.sbuf = <<>>,
         NEW e \in Ends
  PROVE  Sound(queue_connect_message(t, e)) /\ queue_connect_message(t, e).state = t.state
<1> DEFINE size == 1 + (IF WndScale[e] THEN 3 ELSE 0) + (IF t.fin_ack THEN 3 ELSE 0)
           w == [t EXCEPT !.snd_wnd = size, !.opts = <<WndScale[e], t.rwnd_scale, t.fin_ack>>]
           bytes == [i \in 1 .. size |-> 0]
<1>1. DOMAIN t = Fields /\ Receives(t) /\ Paces(t) /\ t.bad \subseteq Fallible
      /\ \A p \in t.out : PktOk(p)
  BY DEF Good, Sends
<1>2. size \in Nat /\ size >= 1 /\ size <= 7
  OBVIOUS
<1>3. queue_connect_message(t, e) = queue(w, bytes, "ctl")
  BY DEF queue_connect_message
<1> HIDE DEF size
<1>4. bytes \in Seq(Int) /\ Len(bytes) = size
  <2>1. bytes \in [1 .. size -> Int]
    OBVIOUS
  <2> QED
    BY <1>2, <2>1
<1> HIDE DEF bytes
<1>5. /\ DOMAIN w = Fields /\ w.snd_wnd = size /\ w.opts = <<WndScale[e], t.rwnd_scale, t.fin_ack>>
      /\ w.bad = t.bad /\ w.out = t.out
      /\ w.rcv_nxt = t.rcv_nxt /\ w.rcv_wnd = t.rcv_wnd /\ w.rbuf_len = t.rbuf_len
      /\ w.rwnd_scale = t.rwnd_scale /\ w.swnd_scale = t.swnd_scale /\ w.rbuf = t.rbuf
      /\ w.ooo = t.ooo /\ w.rlist = t.rlist
      /\ w.mss = t.mss /\ w.msslevel = t.msslevel /\ w.cwnd = t.cwnd
      /\ w.ssthresh = t.ssthresh /\ w.dup_acks = t.dup_acks
  BY <1>1 DEF Fields
<1>6. SameSender(t, w)
  BY <1>1 DEF Fields, SameSender
<1> HIDE DEF w
<1>7. w.opts[2] = t.rwnd_scale
  BY <1>5
<1>8. Receives(w)
  BY <1>1, <1>5, <1>7 DEF Receives
<1>9. Paces(w)
  BY <1>1, <1>2, <1>5, <1>6 DEF Paces, SameSender
<1>10. Good(w)
  BY <1>1, <1>5, <1>6, <1>8, <1>9, Rebuilt
<1>11. /\ w.state = t.state /\ w.slist = <<>> /\ w.sbuf = <<>> /\ w.state # "CLOSED"
       /\ w.state # "LISTEN"
  BY <1>6 DEF SameSender
<1>12. NoFin(w.slist)
  BY <1>11 DEF NoFin
<1>13. MayQueue(Len(bytes), "ctl")
  BY <1>2, <1>4 DEF MayQueue, SegFlags
<1>14. Len(bytes) <= SBufLen - Len(w.sbuf)
  <2>1. SBufLen \in Nat /\ SBufLen >= 7 /\ Len(w.sbuf) = 0
    BY <1>11, SizesAssumption
  <2> QED
    BY <1>2, <1>4, <2>1
<1> DEFINE u == queue(w, bytes, "ctl")
<1>15. Good(u) /\ u.state = w.state /\ NoFin(u.slist)
  <2>1. "ctl" # "fin" /\ (Len(bytes) > 0 => w.state # "CLOSED" /\ NoFin(w.slist))
    BY <1>11, <1>12
  <2> QED
    BY <1>4, <1>10, <1>12, <1>13, <1>14, <2>1, QueueGood
<1> HIDE DEF u
<1>16. Sound(u)
  BY <1>11, <1>15 DEF Sound, Fresh, Open
<1> QED
  BY <1>3, <1>11, <1>15, <1>16 DEF u

LEMMA EstablishedSet ==
  ASSUME NEW t, Sound(t), t.state \in {"SYN_SENT", "SYN_RECEIVED"}
  PROVE  Sound(set_state_established(t)) /\ set_state_established(t).state = "ESTABLISHED"
<1> DEFINE s == set_state(t, "ESTABLISHED")
           fits == {l \in 1 .. Len(Levels) : Levels[l] <= AdviseMss \/ l = Len(Levels)}
           level == CHOOSE l \in fits : \A m \in fits : l <= m
           u == set_state_established(t)
<1>1. Sound(s) /\ s.state = "ESTABLISHED"
  <2>1. /\ "ESTABLISHED" \in States /\ <<t.state, "ESTABLISHED">> \in ValidTransitions
        /\ t.state \in PreFin /\ t.state # "CLOSED"
    BY DEF States, ValidTransitions, PreFin
  <2> QED
    BY <2>1, StateSound
<1> HIDE DEF s
<1>2. DOMAIN s = Fields /\ Receives(s) /\ Paces(s) /\ s.bad \subseteq Fallible
      /\ \A p \in s.out : PktOk(p)
  BY <1>1 DEF Sound, Good, Sends
<1>3. level \in Nat
  <2>1. Levels \in Seq(Nat \ {0}) /\ Levels # <<>>
    BY SegmentsAssumption
  <2>2. Len(Levels) \in 1 .. Len(Levels)
    BY <2>1, EmptySeq
  <2>3. fits \in SUBSET Nat /\ fits # {}
    BY <2>2
  <2> HIDE DEF fits
  <2>4. \E l \in fits : \A m \in fits : l <= m
    BY <2>3, NatMinimum
  <2>5. level \in fits
    BY <2>4
  <2> QED
    BY <2>3, <2>5
<1>4. u = [[s EXCEPT !.msslevel = level, !.mss = AdviseMss,
                     !.ssthresh = Most(@, 2 * AdviseMss), !.cwnd = Most(@, AdviseMss)]
           EXCEPT !.cb = @ \cup {"opened"}]
  BY DEF set_state_established, adjustMTU, s
<1> HIDE DEF level, u
<1>5. /\ DOMAIN u = Fields /\ u.bad = s.bad /\ u.out = s.out /\ u.msslevel = level
      /\ u.mss = AdviseMss /\ u.ssthresh = Most(s.ssthresh, 2 * AdviseMss)
      /\ u.cwnd = Most(s.cwnd, AdviseMss) /\ u.snd_wnd = s.snd_wnd /\ u.dup_acks = s.dup_acks
  BY <1>2, <1>4 DEF Fields
<1>6. SameSender(s, u)
  BY <1>2, <1>4 DEF Fields, SameSender
<1>7. Receives(u)
  BY <1>2, <1>4, ReceivesSame DEF Fields
<1>8. Paces(u)
  <2>1. AdviseMss \in Nat \ {0}
    BY SegmentsAssumption
  <2>2. s.snd_wnd \in Int /\ s.cwnd \in Nat /\ s.ssthresh \in Nat /\ s.dup_acks \in Nat
    BY <1>2 DEF Paces
  <2>3. u.ssthresh \in Nat /\ u.ssthresh > 0 /\ u.cwnd \in Nat /\ u.cwnd > 0
    BY <1>5, <2>1, <2>2 DEF Most
  <2> QED
    BY <1>3, <1>5, <2>1, <2>2, <2>3 DEF Paces
<1>9. Good(u)
  BY <1>1, <1>2, <1>5, <1>6, <1>7, <1>8, Rebuilt DEF Sound
<1> QED
  BY <1>1, <1>6, <1>9, SenderSound DEF u, SameSender

\* From these states a socket may close
LEMMA ClosedSet ==
  ASSUME NEW t, Good(t), t.state \in {"LISTEN", "SYN_SENT", "LAST_ACK", "TIME_WAIT", "CLOSED"},
         NEW err
  PROVE  Sound(set_state_closed(t, err)) /\ set_state_closed(t, err).state = "CLOSED"
<1> DEFINE s == set_state(t, "CLOSED")
           u == set_state_closed(t, err)
<1>1. Good(s) /\ s.state = "CLOSED"
  <2>1. /\ "CLOSED" \in States \ PreFin
        /\ "CLOSED" = t.state \/ <<t.state, "CLOSED">> \in ValidTransitions
    BY DEF States, ValidTransitions, PreFin
  <2> QED
    BY <2>1, StateAfterFin DEF Sound
<1> HIDE DEF s
<1>2. DOMAIN s = Fields /\ Receives(s) /\ Paces(s) /\ s.bad \subseteq Fallible
      /\ \A p \in s.out : PktOk(p)
  BY <1>1 DEF Good, Sends
<1>3. u = [s EXCEPT !.cb = IF err = "none" THEN @ ELSE @ \cup {"closed"},
                    !.err = IF err = "none" THEN @ ELSE err]
  BY DEF set_state_closed, s
<1> HIDE DEF u
<1>4. DOMAIN u = Fields /\ u.bad = s.bad /\ u.out = s.out
  BY <1>2, <1>3 DEF Fields
<1>5. SameSender(s, u)
  BY <1>2, <1>3 DEF Fields, SameSender
<1>6. Receives(u)
  BY <1>2, <1>3, ReceivesSame DEF Fields
<1>7. Paces(u)
  BY <1>2, <1>3, PacesSame DEF Fields
<1>8. Good(u) /\ u.state = "CLOSED"
  BY <1>1, <1>2, <1>4, <1>5, <1>6, <1>7, Rebuilt DEF SameSender
<1> QED
  BY <1>8, ClosedSound DEF u

\* The transitions by which closedown gets to a state that may close
LEMMA Unwinds ==
  ASSUME NEW t, Good(t)
  PROVE  LET u == CASE t.state \in {"SYN_RECEIVED", "ESTABLISHED"} ->
                         set_state(set_state(set_state(t, "FIN_WAIT_1"), "FIN_WAIT_2"), "TIME_WAIT")
                    [] t.state = "FIN_WAIT_1" -> set_state(set_state(t, "FIN_WAIT_2"), "TIME_WAIT")
                    [] t.state \in {"FIN_WAIT_2", "CLOSING"} -> set_state(t, "TIME_WAIT")
                    [] t.state = "CLOSE_WAIT" -> set_state(t, "LAST_ACK")
                    [] OTHER -> t
         IN  Good(u) /\ u.state \in {"LISTEN", "SYN_SENT", "LAST_ACK", "TIME_WAIT", "CLOSED"}
<1>1. t.state \in States
  BY DEF Good
<1>2. /\ "FIN_WAIT_1" \in States \ PreFin /\ "FIN_WAIT_2" \in States \ PreFin
      /\ "TIME_WAIT" \in States \ PreFin /\ "LAST_ACK" \in States \ PreFin
  BY DEF States, PreFin
<1>3. CASE t.state \in {"SYN_RECEIVED", "ESTABLISHED"}
  <2> DEFINE a == set_state(t, "FIN_WAIT_1")
             b == set_state(a, "FIN_WAIT_2")
             c == set_state(b, "TIME_WAIT")
  <2>1. Good(a) /\ a.state = "FIN_WAIT_1"
    <3>1. <<t.state, "FIN_WAIT_1">> \in ValidTransitions /\ t.state # "CLOSED"
      BY <1>3 DEF ValidTransitions
    <3> QED
      BY <1>2, <3>1, StateAfterFin DEF Sound
  <2> HIDE DEF a
  <2>2. Good(b) /\ b.state = "FIN_WAIT_2"
    <3>1. <<a.state, "FIN_WAIT_2">> \in ValidTransitions /\ a.state # "CLOSED"
      BY <2>1 DEF ValidTransitions
    <3> QED
      BY <1>2, <2>1, <3>1, StateAfterFin DEF Sound
  <2> HIDE DEF b
  <2>3. Good(c) /\ c.state = "TIME_WAIT"
    <3>1. <<b.state, "TIME_WAIT">> \in ValidTransitions /\ b.state # "CLOSED"
      BY <2>2 DEF ValidTransitions
    <3> QED
      BY <1>2, <2>2, <3>1, StateAfterFin DEF Sound
  <2> HIDE DEF c
  <2> QED
    BY <1>3, <2>3 DEF a, b, c
<1>4. CASE t.state = "FIN_WAIT_1"
  <2> DEFINE b == set_state(t, "FIN_WAIT_2")
             c == set_state(b, "TIME_WAIT")
  <2>2. Good(b) /\ b.state = "FIN_WAIT_2"
    <3>1. <<t.state, "FIN_WAIT_2">> \in ValidTransitions /\ t.state # "CLOSED"
      BY <1>4 DEF ValidTransitions
    <3> QED
      BY <1>2, <3>1, StateAfterFin DEF Sound
  <2> HIDE DEF b
  <2>3. Good(c) /\ c.state = "TIME_WAIT"
    <3>1. <<b.state, "TIME_WAIT">> \in ValidTransitions /\ b.state # "CLOSED"
      BY <2>2 DEF ValidTransitions
    <3> QED
      BY <1>2, <2>2, <3>1, StateAfterFin DEF Sound
  <2> HIDE DEF c
  <2> QED
    BY <1>4, <2>3 DEF b, c
<1>5. CASE t.state \in {"FIN_WAIT_2", "CLOSING"}
  <2> DEFINE c == set_state(t, "TIME_WAIT")
  <2>3. Good(c) /\ c.state = "TIME_WAIT"
    <3>1. <<t.state, "TIME_WAIT">> \in ValidTransitions /\ t.state # "CLOSED"
      BY <1>5 DEF ValidTransitions
    <3> QED
      BY <1>2, <3>1, StateAfterFin DEF Sound
  <2> HIDE DEF c
  <2> QED
    BY <1>5, <2>3 DEF c
<1>6. CASE t.state = "CLOSE_WAIT"
  <2> DEFINE c == set_state(t, "LAST_ACK")
  <2>3. Good(c) /\ c.state = "LAST_ACK"
    <3>1. <<t.state, "LAST_ACK">> \in ValidTransitions /\ t.state # "CLOSED"
      BY <1>6 DEF ValidTransitions
    <3> QED
      BY <1>2, <3>1, StateAfterFin DEF Sound
  <2> HIDE DEF c
  <2> QED
    BY <1>6, <2>3 DEF c
<1>7. CASE t.state \in {"LISTEN", "SYN_SENT", "LAST_ACK", "TIME_WAIT", "CLOSED"}
  BY <1>7
<1> QED
  BY <1>1, <1>3, <1>4, <1>5, <1>6, <1>7 DEF States

LEMMA ClosedDown ==
  ASSUME NEW t, Good(t), NEW err, NEW source
  PROVE  Sound(closedown(t, err, source)) /\ closedown(t, err, source).state = "CLOSED"
<1> DEFINE rst == queue_rst_message(t)
           sent == attempt_send(rst, "sfRst")
           force == [t EXCEPT !.shutdown = "forceful"]
           told == CASE source = "LOCAL" /\ t.fin_ack -> sent
                     [] source = "LOCAL" /\ ~t.fin_ack -> force
                     [] OTHER -> t
           Unwound(u) == CASE u.state \in {"SYN_RECEIVED", "ESTABLISHED"} ->
                               set_state(set_state(set_state(u, "FIN_WAIT_1"), "FIN_WAIT_2"),
                                         "TIME_WAIT")
                           [] u.state = "FIN_WAIT_1" ->
                               set_state(set_state(u, "FIN_WAIT_2"), "TIME_WAIT")
                           [] u.state \in {"FIN_WAIT_2", "CLOSING"} -> set_state(u, "TIME_WAIT")
                           [] u.state = "CLOSE_WAIT" -> set_state(u, "LAST_ACK")
                           [] OTHER -> u
<1>1. closedown(t, err, source) = set_state_closed(Unwound(told), err)
  BY DEF closedown
<1>2. Good(force)
  <2>1. DOMAIN t = Fields /\ Receives(t) /\ Paces(t) /\ t.bad \subseteq Fallible
        /\ \A p \in t.out : PktOk(p)
    BY DEF Good, Sends
  <2>2. /\ DOMAIN force = Fields /\ force.bad = t.bad /\ force.out = t.out /\ SameSender(t, force)
    BY <2>1 DEF Fields, SameSender
  <2>3. Receives(force)
    BY <2>1, ReceivesSame DEF Fields
  <2>4. Paces(force)
    BY <2>1, PacesSame DEF Fields
  <2> HIDE DEF force
  <2> QED
    BY <2>1, <2>2, <2>3, <2>4, Rebuilt
<1>3. ASSUME t.fin_ack PROVE Good(sent)
  <2>1. Good(rst)
    BY <1>3, RstQueued
  <2> HIDE DEF rst
  <2> QED
    BY <2>1, AttemptSendGood
<1> HIDE DEF sent, force
<1>4. Good(told)
  BY <1>2, <1>3
<1> HIDE DEF told
<1> DEFINE u == Unwound(told)
<1>5. Good(u) /\ u.state \in {"LISTEN", "SYN_SENT", "LAST_ACK", "TIME_WAIT", "CLOSED"}
  BY <1>4, Unwinds
<1> HIDE DEF u
<1>6. closedown(t, err, source) = set_state_closed(u, err)
  BY <1>1 DEF u
<1> HIDE DEF Unwound
<1> QED
  BY <1>5, <1>6, ClosedSet

-----------------------------------------------------------------------------
\* The receive buffer, and what a SYN changes

LEMMA Powers == 2^0 = 1 /\ 2^1 = 2 /\ 2^2 = 4 /\ 2^3 = 8 /\ 2^4 = 16
OBVIOUS

LEMMA ScaleOk ==
  ASSUME NEW size \in Nat \ {0}, size \div 16 <= MaxWire
  PROVE  ScaleOf(size) \in 0 .. 4 /\ (size \div 2^ScaleOf(size)) * 2^ScaleOf(size) \in Nat \ {0}
<1> DEFINE W == {k \in 0 .. 4 : size \div 2^k <= MaxWire}
<1>1. MaxWire \in Nat \ {0}
  BY BuffersAssumption
<1>2. 4 \in W
  BY Powers
<1>3. W \in SUBSET Nat /\ W # {}
  <2>1. W \subseteq 0 .. 4
    BY Zenon
  <2> HIDE DEF W
  <2> QED
    BY <2>1, <1>2
<1>4. PICK k \in W : \A j \in W : k <= j
  <2> HIDE DEF W
  <2> QED
    BY <1>3, NatMinimum
<1>5. k \in 0 .. 4 /\ size \div 2^k <= MaxWire
  BY DEF W
<1>6. \A j \in 0 .. (k - 1) : size \div 2^j > MaxWire
  <2> TAKE j \in 0 .. (k - 1)
  <2>1. j \in 0 .. 4 /\ ~(k <= j)
    BY <1>5
  <2>2. 2^j \in Nat \ {0}
    BY <2>1, PowerNat
  <2>3. ~(size \div 2^j <= MaxWire)
    BY <1>4, <2>1
  <2>4. size \div 2^j \in Int
    BY <2>2
  <2> QED
    BY <1>1, <2>3, <2>4
<1> DEFINE c == ScaleOf(size)
<1>7. c \in 0 .. 4 /\ size \div 2^c <= MaxWire /\ \A j \in 0 .. (c - 1) : size \div 2^j > MaxWire
  <2>1. \E x \in 0 .. 4 : size \div 2^x <= MaxWire /\ \A j \in 0 .. (x - 1) : size \div 2^j > MaxWire
    BY <1>5, <1>6
  <2> QED
    BY <2>1, Zenon DEF ScaleOf
<1> HIDE DEF c
<1>8. (size \div 2^c) * 2^c \in Nat \ {0}
  <2>1. CASE c = 0
    <3>1. 2^c = 1
      BY <2>1, Powers
    <3> QED
      BY <3>1
  <2>2. CASE c = 1
    <3>1. 2^c = 2 /\ 0 \in 0 .. (c - 1) /\ 2^0 = 1
      BY <2>2, Powers
    <3>2. size \div 1 > MaxWire
      BY <1>7, <3>1
    <3> QED
      BY <1>1, <3>1, <3>2
  <2>3. CASE c = 2
    <3>1. 2^c = 4 /\ 1 \in 0 .. (c - 1) /\ 2^1 = 2
      BY <2>3, Powers
    <3>2. size \div 2 > MaxWire
      BY <1>7, <3>1
    <3> QED
      BY <1>1, <3>1, <3>2
  <2>4. CASE c = 3
    <3>1. 2^c = 8 /\ 2 \in 0 .. (c - 1) /\ 2^2 = 4
      BY <2>4, Powers
    <3>2. size \div 4 > MaxWire
      BY <1>7, <3>1
    <3> QED
      BY <1>1, <3>1, <3>2
  <2>5. CASE c = 4
    <3>1. 2^c = 16 /\ 3 \in 0 .. (c - 1) /\ 2^3 = 8
      BY <2>5, Powers
    <3>2. size \div 8 > MaxWire
      BY <1>7, <3>1
    <3> QED
      BY <1>1, <3>1, <3>2
  <2>6. c = 0 \/ c = 1 \/ c = 2 \/ c = 3 \/ c = 4
    BY <1>7
  <2> QED
    BY <2>1, <2>2, <2>3, <2>4, <2>5, <2>6
<1> QED
  BY <1>7, <1>8 DEF c

LEMMA Resized ==
  ASSUME NEW t, Good(t), NEW size \in {RBufLen, DefRBufLen}
  PROVE  LET u == resize_receive_buffer(t, size) IN
         Good(u) /\ SameSender(t, u) /\ u.fin_ack = t.fin_ack
<1>1. CASE t.rbuf_len = size
  BY <1>1 DEF resize_receive_buffer, SameSender
<1>2. CASE t.rbuf_len # size
  <2> DEFINE k == ScaleOf(size)
             n == (size \div 2^k) * 2^k
             a == Assert(t, Len(t.rbuf) <= n, "capacity")
             u == resize_receive_buffer(t, size)
             bad == IF Len(t.rbuf) <= n THEN t.bad ELSE t.bad \cup {"capacity"}
             none == [i \in {} |-> 0]
  <2>1. k \in 0 .. 4 /\ n \in Nat \ {0}
    <3>1. size \in Nat \ {0} /\ size \div 16 <= MaxWire
      BY BuffersAssumption
    <3> QED
      BY <3>1, ScaleOk
  <2>2. u = [a EXCEPT !.rbuf_len = n, !.rwnd_scale = k, !.ssthresh = n,
                      !.rcv_wnd = n - Len(t.rbuf), !.ooo = none]
    BY <1>2 DEF resize_receive_buffer
  <2> HIDE DEF k, n, u
  <2>3. DOMAIN t = Fields /\ Receives(t) /\ Paces(t) /\ t.bad \subseteq Fallible
        /\ \A p \in t.out : PktOk(p)
    BY DEF Good, Sends
  <2>4. /\ DOMAIN a = Fields /\ a.bad = bad /\ a.out = t.out /\ SameSender(t, a)
        /\ a.fin_ack = t.fin_ack /\ a.rcv_nxt = t.rcv_nxt /\ a.swnd_scale = t.swnd_scale
        /\ a.rbuf = t.rbuf /\ a.rlist = t.rlist /\ a.opts = t.opts
        /\ a.snd_wnd = t.snd_wnd /\ a.mss = t.mss /\ a.msslevel = t.msslevel
        /\ a.cwnd = t.cwnd /\ a.dup_acks = t.dup_acks
    <3>1. CASE Len(t.rbuf) <= n
      <4>1. a = t
        BY <3>1 DEF Assert
      <4> HIDE DEF a
      <4> QED
        BY <2>3, <3>1, <4>1 DEF SameSender
    <3>2. CASE ~(Len(t.rbuf) <= n)
      <4>1. a = [t EXCEPT !.bad = @ \cup {"capacity"}]
        BY <3>2 DEF Assert
      <4> HIDE DEF a
      <4> QED
        BY <2>3, <3>2, <4>1 DEF SameSender, Fields
    <3> QED
      BY <3>1, <3>2
  <2> HIDE DEF a
  <2>5. /\ DOMAIN u = Fields /\ u.bad = bad /\ u.out = t.out /\ SameSender(a, u)
        /\ u.fin_ack = t.fin_ack /\ u.rcv_nxt = t.rcv_nxt /\ u.swnd_scale = t.swnd_scale
        /\ u.rbuf = t.rbuf /\ u.rlist = t.rlist /\ u.opts = t.opts
        /\ u.snd_wnd = t.snd_wnd /\ u.mss = t.mss /\ u.msslevel = t.msslevel
        /\ u.cwnd = t.cwnd /\ u.dup_acks = t.dup_acks
        /\ u.rbuf_len = n /\ u.rwnd_scale = k /\ u.ssthresh = n
        /\ u.rcv_wnd = n - Len(t.rbuf) /\ u.ooo = none
    <3> HIDE DEF none, bad
    <3> QED
      BY <2>2, <2>4 DEF Fields, SameSender
  <2>6. SameSender(t, u)
    BY <2>4, <2>5 DEF SameSender
  <2>7. Receives(u)
    <3>1. Len(t.rbuf) \in Nat /\ t.rbuf \in Seq(Int)
      BY <2>3 DEF Receives
    <3>2. n - Len(t.rbuf) \in Int /\ Written(none)
      BY <2>1, <3>1 DEF Written
    <3> QED
      BY <2>1, <2>3, <2>5, <3>2 DEF Receives
  <2>8. Paces(u)
    BY <2>1, <2>3, <2>5, <2>6 DEF Paces, SameSender
  <2>9. u.bad \subseteq Fallible
    BY <2>3, <2>5 DEF Fallible
  <2>10. Good(u)
    BY <2>3, <2>5, <2>6, <2>7, <2>8, <2>9, Rebuilt
  <2> QED
    BY <2>5, <2>6, <2>10 DEF u
<1> QED
  BY <1>1, <1>2

LEMMA OptionsParsed ==
  ASSUME NEW t, Good(t), NEW opts, opts[2] \in 0 .. 4
  PROVE  Good(parse_options(t, opts)) /\ SameSender(t, parse_options(t, opts))
<1> DEFINE d == resize_receive_buffer(t, DefRBufLen)
           r == IF t.rwnd_scale > 0 THEN d ELSE t
           k == IF opts[1] THEN opts[2] ELSE IF t.rwnd_scale > 0 THEN 0 ELSE t.swnd_scale
           v == IF opts[1] THEN t ELSE r
           u == parse_options(t, opts)
<1>1. Good(v) /\ SameSender(t, v)
  <2>1. Good(d) /\ SameSender(t, d)
    BY Resized
  <2> HIDE DEF d
  <2> QED
    BY <2>1 DEF SameSender
<1>2. DOMAIN v = Fields /\ Receives(v) /\ Paces(v) /\ v.bad \subseteq Fallible
      /\ \A p \in v.out : PktOk(p)
  BY <1>1 DEF Good, Sends
<1> DEFINE w == IF opts[1] THEN [v EXCEPT !.swnd_scale = opts[2]]
                ELSE IF t.rwnd_scale > 0 THEN [v EXCEPT !.swnd_scale = 0] ELSE v
<1>3. u = [w EXCEPT !.fin_ack = opts[3]]
  <2> HIDE DEF d
  <2> QED
    BY DEF parse_options, d
<1>4. k \in 0 .. 4
  BY DEF Good, Receives
<1>5. /\ DOMAIN w = Fields /\ w.swnd_scale = IF opts[1] \/ t.rwnd_scale > 0 THEN k ELSE v.swnd_scale
      /\ w.bad = v.bad /\ w.out = v.out /\ SameSender(v, w)
      /\ w.rcv_nxt = v.rcv_nxt /\ w.rcv_wnd = v.rcv_wnd /\ w.rbuf_len = v.rbuf_len
      /\ w.rwnd_scale = v.rwnd_scale /\ w.rbuf = v.rbuf
      /\ w.ooo = v.ooo /\ w.rlist = v.rlist /\ w.opts = v.opts /\ w.snd_wnd = v.snd_wnd
      /\ w.mss = v.mss /\ w.msslevel = v.msslevel /\ w.cwnd = v.cwnd
      /\ w.ssthresh = v.ssthresh /\ w.dup_acks = v.dup_acks
  <2> HIDE DEF v
  <2>1. CASE opts[1]
    BY <1>2, <2>1 DEF Fields, SameSender
  <2>2. CASE ~opts[1] /\ t.rwnd_scale > 0
    BY <1>2, <2>2 DEF Fields, SameSender
  <2>3. CASE ~opts[1] /\ ~(t.rwnd_scale > 0)
    BY <1>2, <2>3 DEF Fields, SameSender
  <2> QED
    BY <2>1, <2>2, <2>3
<1> HIDE DEF v, k, w, u
<1>6. /\ DOMAIN u = Fields /\ u.bad = w.bad /\ u.out = w.out /\ SameSender(w, u)
      /\ u.rcv_nxt = w.rcv_nxt /\ u.rcv_wnd = w.rcv_wnd /\ u.rbuf_len = w.rbuf_len
      /\ u.rwnd_scale = w.rwnd_scale /\ u.swnd_scale = w.swnd_scale /\ u.rbuf = w.rbuf
      /\ u.ooo = w.ooo /\ u.rlist = w.rlist /\ u.opts = w.opts /\ u.snd_wnd = w.snd_wnd
      /\ u.mss = w.mss /\ u.msslevel = w.msslevel /\ u.cwnd = w.cwnd
      /\ u.ssthresh = w.ssthresh /\ u.dup_acks = w.dup_acks
  BY <1>3, <1>5 DEF Fields, SameSender
<1>7. SameSender(t, u) /\ SameSender(v, u)
  BY <1>1, <1>5, <1>6 DEF SameSender
<1>8. u.swnd_scale \in 0 .. 4
  <2>1. v.swnd_scale \in 0 .. 4
    BY <1>2 DEF Receives
  <2> QED
    BY <1>4, <1>5, <1>6, <2>1
<1>9. Receives(u)
  BY <1>2, <1>5, <1>6, <1>8 DEF Receives
<1>10. Paces(u)
  BY <1>2, <1>5, <1>6, <1>7 DEF Paces, SameSender
<1>11. Good(u)
  BY <1>1, <1>2, <1>5, <1>6, <1>7, <1>9, <1>10, Rebuilt
<1> QED
  BY <1>7, <1>11 DEF u

LEMMA ControlProcessed ==
  ASSUME NEW t, Sound(t), NEW seg, PktOk(seg), NEW e \in Ends
  PROVE  LET u == ProcessControl(t, seg, e) IN
         Sound(u) /\ (t.state # "CLOSED" => u.state # "CLOSED")
<1> DEFINE v == parse_options(t, seg.opts)
           u == ProcessControl(t, seg, e)
<1>1. CASE seg.flags # "ctl"
  BY <1>1 DEF ProcessControl
<1>2. CASE seg.flags = "ctl"
  <2>1. Good(v) /\ SameSender(t, v)
    BY OptionsParsed DEF Sound, PktOk
  <2>2. Sound(v) /\ v.state = t.state
    BY <2>1, SenderSound DEF SameSender
  <2>3. u = CASE v.state = "LISTEN" -> queue_connect_message(set_state(v, "SYN_RECEIVED"), e)
              [] v.state = "SYN_SENT" -> set_state_established(v)
              [] OTHER -> v
    BY <1>2 DEF ProcessControl
  <2> HIDE DEF v, u
  <2>4. CASE v.state = "LISTEN"
    <3> DEFINE s == set_state(v, "SYN_RECEIVED")
    <3>1. Good(s) /\ s.state = "SYN_RECEIVED" /\ SameSending(v, s)
      <4>1. /\ "SYN_RECEIVED" \in States /\ <<v.state, "SYN_RECEIVED">> \in ValidTransitions
            /\ v.state \in PreFin /\ v.state # "CLOSED"
        BY <2>4 DEF States, ValidTransitions, PreFin
      <4> QED
        BY <2>1, <4>1, StateSet
    <3> HIDE DEF s
    <3>2. s.slist = <<>> /\ s.sbuf = <<>>
      BY <2>2, <2>4, <3>1 DEF Sound, Fresh, SameSending
    <3>3. Sound(queue_connect_message(s, e)) /\ queue_connect_message(s, e).state = s.state
      BY <3>1, <3>2, ConnectQueued
    <3>4. u = queue_connect_message(s, e)
      BY <2>3, <2>4 DEF s
    <3> QED
      BY <3>1, <3>3, <3>4 DEF u
  <2>5. CASE v.state = "SYN_SENT"
    <3>1. u = set_state_established(v)
      BY <2>3, <2>5
    <3> QED
      BY <2>2, <2>5, <3>1, EstablishedSet DEF u
  <2>6. CASE v.state # "LISTEN" /\ v.state # "SYN_SENT"
    BY <2>2, <2>3, <2>6 DEF u
  <2> QED
    BY <2>4, <2>5, <2>6
<1> QED
  BY <1>1, <1>2

-----------------------------------------------------------------------------
\* Acknowledgements

LEMMA AddBack ==
  ASSUME NEW a \in Int, NEW b \in Seqs
  PROVE  Add(a, Sub(b, a)) = b
<1>1. b \in Int /\ Sub(b, a) \in Int
  BY SeqModNat, SeqTypes DEF Seqs
<1>2. Add(b, Sub(b, a) - Sub(b, a)) = Add(a, Sub(b, a))
  BY <1>1, AddSub
<1>3. Add(b, 0) = b
  BY <1>1, SmallRemainder DEF Add
<1> QED
  BY <1>1, <1>2, <1>3

\* What an acknowledgement in the window takes off the flight
LEMMA FlightParts ==
  ASSUME NEW una \in Seqs, NEW nxt \in Seqs, NEW ack \in Seqs,
         Larger(ack, una), LargerEq(nxt, ack)
  PROVE  LET n == Sub(ack, una) IN
         /\ n \in Nat /\ n >= 1 /\ n <= Sub(nxt, una)
         /\ Sub(nxt, ack) = Sub(nxt, una) - n /\ Add(una, n) = ack
<1> DEFINE n == Sub(ack, una)
           k == Sub(nxt, ack)
           H == SeqMod \div 2 - 1
<1>1. una \in Int /\ nxt \in Int /\ ack \in Int
  BY SeqModNat DEF Seqs
<1>2. n \in Seqs /\ k \in Seqs /\ n \in Int /\ k \in Int
  <2>1. n \in Seqs /\ k \in Seqs
    BY <1>1, SeqTypes
  <2> HIDE DEF n, k
  <2> QED
    BY <2>1, SeqModNat DEF Seqs
<1>3. Sub(n, 1) < H /\ k < H
  BY DEF Larger, LargerEq
<1>4. H \in Int /\ 2 * H < SeqMod /\ H + 1 < SeqMod
  BY SeqModNat
<1>5. Add(una, n) = ack /\ Add(ack, k) = nxt
  BY <1>1, AddBack
<1> HIDE DEF n, k, H
<1>6. n >= 1
  <2> SUFFICES ASSUME n = 0 PROVE FALSE
    BY <1>2, SeqModNat DEF Seqs
  <2>1. Sub(n, 1) = SeqMod - 1
    BY SeqModNat DEF Sub
  <2> QED
    BY <2>1, <1>3, <1>4, SeqModNat
<1>7. n <= H
  <2>1. n - 1 \in Seqs
    BY <1>2, <1>6, SeqModNat DEF Seqs
  <2>2. Sub(n, 1) = n - 1
    BY <2>1, SmallRemainder DEF Sub
  <2> QED
    BY <2>2, <1>2, <1>3, <1>4
<1>8. n + k \in Seqs
  BY <1>2, <1>3, <1>4, <1>6, <1>7, SeqModNat DEF Seqs
<1>9. Sub(Add(ack, k), una) = Sub(ack, una) + k
  BY <1>1, <1>2, <1>8, SubGrows DEF n
<1>10. Sub(nxt, una) = n + k
  BY <1>9, <1>5 DEF n
<1>11. /\ n \in Nat /\ n >= 1 /\ n <= Sub(nxt, una)
       /\ k = Sub(nxt, una) - n
  BY <1>2, <1>6, <1>10, SeqModNat DEF Seqs
<1> QED
  BY <1>11, <1>5 DEF n, k

LEMMA HalfFlightNat ==
  ASSUME NEW t, Good(t)
  PROVE  HalfFlight(t) \in Nat \ {0} /\ t.mss \in Nat \ {0} /\ t.cwnd \in Nat
<1>1. t.mss \in Nat \ {0} /\ t.cwnd \in Nat
  BY DEF Good, Paces
<1>2. t.snd_nxt \in Int /\ t.snd_una \in Int
  BY SeqModNat DEF Good, Sends, Seqs
<1>3. Sub(t.snd_nxt, t.snd_una) \in Nat
  BY <1>2, SeqTypes
<1> QED
  BY <1>1, <1>3 DEF HalfFlight, Most

\* Only the windows and the count of duplicates changed
Rewindowed(t, u) ==
    /\ SameButPaces(t, u) /\ u.mss = t.mss /\ u.msslevel = t.msslevel
    /\ u.snd_wnd \in Int /\ u.dup_acks \in Nat
    /\ u.cwnd \in Nat /\ u.ssthresh \in Nat
    /\ t.state # "CLOSED" => u.cwnd > 0 /\ u.ssthresh > 0

LEMMA RewindowedGood ==
  ASSUME NEW t, Good(t), NEW u, Rewindowed(t, u)
  PROVE  Good(u) /\ Stays(t, u)
<1>1. t.mss \in Nat \ {0} /\ t.msslevel \in Nat
  BY DEF Good, Paces
<1>2. Paces(u)
  BY <1>1 DEF Paces, Rewindowed, SameButPaces
<1> QED
  BY <1>2, Repaced DEF Rewindowed

LEMMA Capped ==
  ASSUME NEW w \in Nat \ {0}
  PROVE  Least(w, CwndCap) \in Nat \ {0}
BY SegmentsAssumption DEF Least

LEMMA CongestionGood ==
  ASSUME NEW t, Good(t), t.state # "CLOSED", NEW nAcked \in Nat
  PROVE  Good(Congestion(t, nAcked).t) /\ Stays(t, Congestion(t, nAcked).t)
<1>1. DOMAIN t = Fields
  BY DEF Good
<1>2. /\ t.mss \in Nat \ {0} /\ t.cwnd \in Nat \ {0} /\ t.ssthresh \in Nat \ {0}
      /\ t.snd_wnd \in Int /\ t.dup_acks \in Nat
  BY DEF Good, Paces
<1>3. Sub(t.snd_nxt, t.snd_una) \in Nat
  <2>1. t.snd_nxt \in Int /\ t.snd_una \in Int
    BY SeqModNat DEF Good, Sends, Seqs
  <2> QED
    BY <2>1, SeqTypes
<1>4. CASE t.dup_acks >= 3 /\ LargerEq(t.snd_una, t.recover)
  <2> DEFINE w == Least(t.ssthresh, Sub(t.snd_nxt, t.snd_una) + t.mss)
             u == [t EXCEPT !.cwnd = w, !.dup_acks = 0]
  <2>1. Congestion(t, nAcked).t = u
    BY <1>4 DEF Congestion
  <2>2. w \in Nat \ {0}
    BY <1>2, <1>3 DEF Least
  <2> HIDE DEF w
  <2>3. Rewindowed(t, u)
    BY <1>1, <1>2, <2>2 DEF Rewindowed, SameButPaces, Fields
  <2> HIDE DEF u
  <2> QED
    BY <2>1, <2>3, RewindowedGood
<1>5. CASE t.dup_acks >= 3 /\ ~LargerEq(t.snd_una, t.recover)
  <2> DEFINE r == TransmitFirst(t)
             v == r.t
  <2>1. Good(v) /\ Stays(t, v)
    BY TransmitFirstGood
  <2>2. /\ DOMAIN v = Fields /\ v.state # "CLOSED"
        /\ v.mss \in Nat \ {0} /\ v.cwnd \in Nat \ {0} /\ v.ssthresh \in Nat \ {0}
        /\ v.snd_wnd \in Int /\ v.dup_acks \in Nat
    <3> HIDE DEF v
    <3>1. v.state # "CLOSED"
      BY <2>1 DEF Stays
    <3> QED
      BY <2>1, <3>1 DEF Good, Paces
  <2>3. DOMAIN r = {"ok", "t"}
    BY DEF TransmitFirst, transmit
  <2> DEFINE W(x) == IF r.ok THEN Least(x + v.mss - Least(nAcked, x), CwndCap) ELSE x
             u == [v EXCEPT !.cwnd = W(v.cwnd)]
  <2>4. Congestion(t, nAcked) = [r EXCEPT !.t.cwnd = W(@)]
    BY <1>5 DEF Congestion
  <2>5. W(v.cwnd) \in Nat \ {0}
    <3>1. v.cwnd + v.mss - Least(nAcked, v.cwnd) \in Nat \ {0}
      <4> HIDE DEF v
      <4> QED
        BY <2>2 DEF Least
    <3> DEFINE x == v.cwnd + v.mss - Least(nAcked, v.cwnd)
    <3>2. W(v.cwnd) = IF r.ok THEN Least(x, CwndCap) ELSE v.cwnd
      OBVIOUS
    <3> HIDE DEF x, W, v
    <3>3. Least(x, CwndCap) \in Nat \ {0}
      BY <3>1, Capped DEF x
    <3> QED
      BY <3>2, <3>3, <2>2
  <2> HIDE DEF W
  <2>6. [r EXCEPT !.t.cwnd = W(@)].t = u
    <3> HIDE DEF r
    <3> QED
      BY <2>3
  <2> HIDE DEF r, v
  <2>7. Rewindowed(v, u)
    BY <2>2, <2>5 DEF Rewindowed, SameButPaces, Fields
  <2> HIDE DEF u
  <2>8. Good(u) /\ Stays(v, u)
    BY <2>1, <2>7, RewindowedGood
  <2> QED
    BY <2>1, <2>4, <2>6, <2>8, StaysTrans
<1>6. CASE ~(t.dup_acks >= 3)
  <2> DEFINE x == IF t.cwnd < t.ssthresh THEN t.cwnd + t.mss
                  ELSE t.cwnd + Most(1, (t.mss * t.mss) \div t.cwnd)
             u == [t EXCEPT !.dup_acks = 0, !.cwnd = Least(x, CwndCap)]
  <2>1. Congestion(t, nAcked).t = u
    BY <1>6 DEF Congestion
  <2>2. x \in Nat \ {0}
    <3> DEFINE y == (t.mss * t.mss) \div t.cwnd
    <3>1. t.mss * t.mss \in Int
      BY <1>2
    <3>2. y \in Int
      BY <1>2, <3>1
    <3> HIDE DEF y
    <3>3. Most(1, y) \in Nat
      BY <3>2 DEF Most
    <3> QED
      BY <1>2, <3>3 DEF y
  <2> HIDE DEF x
  <2>3. Least(x, CwndCap) \in Nat \ {0}
    BY <2>2, Capped
  <2>4. Rewindowed(t, u)
    BY <1>1, <1>2, <2>3 DEF Rewindowed, SameButPaces, Fields
  <2> HIDE DEF u
  <2> QED
    BY <2>1, <2>4, RewindowedGood
<1> QED
  BY <1>4, <1>5, <1>6

\* What of the send list is left when n bytes, or n - 1 and the FIN, are acked
LEMMA AckedList ==
  ASSUME NEW t, Good(t), Open(t), t.state # "CLOSED", NEW ack \in Seqs,
         Larger(ack, t.snd_una), LargerEq(t.snd_nxt, ack), NEW fin \in BOOLEAN,
         fin = FinAcked(t, Sub(ack, t.snd_una)), NEW m,
         m = IF fin THEN Sub(ack, t.snd_una) - 1 ELSE Sub(ack, t.snd_una)
  PROVE  /\ m \in Nat /\ (~fin => m >= 1)
         /\ DropN(t.sbuf, m) \in Seq(Int) /\ Len(DropN(t.sbuf, m)) <= SBufLen
         /\ FreeSegments(t.slist, m) \in Seq(PlacedSegs(ack, Len(DropN(t.sbuf, m))))
         /\ NoFin(t.slist) => NoFin(FreeSegments(t.slist, m))
         /\ m > Len(t.sbuf) => FreeSegments(t.slist, m) = <<>>
         /\ \E b, p : /\ CoverBy(FreeSegments(t.slist, m), ack, Len(DropN(t.sbuf, m)), b, p)
                      /\ t.state \in PreFin => Sub(t.snd_nxt, ack) = b[p]
<1> DEFINE una == t.snd_una
           n == Sub(ack, una)
           N == Len(t.sbuf)
           r == FreeSegments(t.slist, m)
           flight == Sub(t.snd_nxt, una)
<1>1. una \in Seqs /\ t.snd_nxt \in Seqs /\ t.sbuf \in Seq(Int) /\ N \in Nat /\ N <= SBufLen
  BY DEF Good, Sends
<1>2. una \in Int /\ ack \in Int /\ t.snd_nxt \in Int
  BY <1>1, SeqModNat DEF Seqs
<1>3. /\ n \in Nat /\ n >= 1 /\ n <= flight
      /\ Sub(t.snd_nxt, ack) = flight - n /\ Add(una, n) = ack
  BY <1>1, FlightParts
<1>4. flight \in Nat
  BY <1>2, SeqTypes
<1>5. t.slist \in Seq(Segs)
  BY SlistTypes
<1>6. PICK b, p : /\ CoverBy(t.slist, una, N, b, p)
                  /\ t.state \in PreFin /\ NoFin(t.slist) => flight = b[p]
  BY DEF Good, Accounted
<1>7. fin => m = N /\ n = N + 1 /\ t.state \notin PreFin
  <2> SUFFICES ASSUME fin PROVE m = N /\ n = N + 1 /\ t.state \notin PreFin
    OBVIOUS
  <2>1. FinAcked(t, n)
    BY Zenon
  <2>2. n = N + 1 /\ has_sent_fin(t.state) /\ m = n - 1
    BY <2>1, Zenon DEF FinAcked
  <2> HIDE DEF n, N
  <2> QED
    BY <2>2, <1>1 DEF has_sent_fin, PreFin
<1>8. ~fin => m = n
  OBVIOUS
<1> HIDE DEF n, flight, una
<1>9. m \in Nat /\ (~fin => m >= 1)
  BY <1>1, <1>3, <1>7, <1>8
<1>10. /\ DropN(t.sbuf, m) \in Seq(Int)
       /\ Len(DropN(t.sbuf, m)) = IF m <= N THEN N - m ELSE 0
  BY <1>1, <1>9, Dropped
<1> HIDE DEF N
<1>11. Len(DropN(t.sbuf, m)) <= SBufLen /\ Len(DropN(t.sbuf, m)) \in Nat
  BY <1>1, <1>9, <1>10, SizesAssumption
<1>12. CASE m > N
  <2>1. r = <<>>
    BY <1>1, <1>2, <1>5, <1>6, <1>9, <1>12, AllFreed
  <2>2. ~fin
    BY <1>1, <1>7, <1>12
  <2>3. t.state \notin PreFin
    <3> SUFFICES ASSUME t.state \in PreFin PROVE FALSE
      OBVIOUS
    <3>1. flight = b[p]
      BY <1>6 DEF Open
    <3>2. b[p] <= b[Len(t.slist)] /\ b[Len(t.slist)] = N /\ b[p] \in Nat
      BY <1>5, <1>6, CoverGrows DEF CoverBy
    <3> QED
      BY <3>1, <3>2, <1>1, <1>3, <1>8, <2>2, <1>12
  <2>4. Len(DropN(t.sbuf, m)) = 0
    BY <1>1, <1>9, <1>10, <1>12
  <2>5. CoverBy(<<>>, ack, 0, [i \in 0 .. 0 |-> 0], 0)
    BY CoverNone
  <2>6. <<>> \in Seq(PlacedSegs(ack, 0)) /\ NoFin(<<>>)
    BY DEF NoFin
  <2> HIDE DEF r
  <2>7. \E c, q : CoverBy(r, ack, Len(DropN(t.sbuf, m)), c, q)
                  /\ (t.state \in PreFin => Sub(t.snd_nxt, ack) = c[q])
    BY <2>1, <2>3, <2>4, <2>5
  <2>8. r \in Seq(PlacedSegs(ack, Len(DropN(t.sbuf, m)))) /\ NoFin(r)
    BY <2>1, <2>4, <2>6
  <2> QED
    BY <1>9, <1>10, <1>11, <2>1, <2>7, <2>8 DEF r, N
<1>13. CASE m <= N
  <2>1. r \in Seq(Segs) /\ (NoFin(t.slist) => NoFin(r))
    BY <1>1, <1>2, <1>5, <1>6, <1>9, <1>13, CoverFreed
  <2>2. LeftOf(r, Add(una, m), N - m, m, b[p])
    <3>1. CoverBy(t.slist, una, N, b, p)
      BY <1>6
    <3>2. m <= N
      BY <1>13
    <3> QED
      BY <1>1, <1>2, <1>5, <1>9, <3>1, <3>2, CoverFreed
  <2>3. PICK c, q : CoverBy(r, Add(una, m), N - m, c, q) /\ (m <= b[p] => c[q] = b[p] - m)
    BY <2>2 DEF LeftOf
  <2>4. Len(DropN(t.sbuf, m)) = N - m
    BY <1>10, <1>13
  <2> HIDE DEF r
  <2>5. CoverBy(r, ack, N - m, c, q)
    <3>1. CASE fin
      <4>1. N - m = 0
        BY <1>1, <1>7, <3>1
      <4> QED
        BY <4>1, <2>1, <2>3, CoverEmpty
    <3>2. CASE ~fin
      BY <2>3, <1>3, <1>8, <3>2
    <3> QED
      BY <3>1, <3>2
  <2>6. t.state \in PreFin => Sub(t.snd_nxt, ack) = c[q]
    <3> SUFFICES ASSUME t.state \in PreFin PROVE Sub(t.snd_nxt, ack) = c[q]
      OBVIOUS
    <3>1. flight = b[p] /\ m = n
      BY <1>6, <1>7, <1>8 DEF Open
    <3> QED
      BY <3>1, <2>3, <1>3, <1>4
  <2>7. r \in Seq(PlacedSegs(ack, N - m))
    BY <2>1, <2>5, CoverPlaced
  <2>8. r \in Seq(PlacedSegs(ack, Len(DropN(t.sbuf, m))))
    BY <2>4, <2>7
  <2>9. CoverBy(r, ack, Len(DropN(t.sbuf, m)), c, q)
    BY <2>4, <2>5
  <2>10. ~(m > N)
    BY <1>1, <1>9, <1>13
  <2> QED
    BY <1>9, <1>10, <1>11, <2>1, <2>6, <2>8, <2>9, <2>10 DEF r, N
<1> QED
  BY <1>1, <1>9, <1>12, <1>13

\* An assertion that may fail
LEMMA Asserted ==
  ASSUME NEW t, Good(t), NEW ok, NEW name \in Fallible
  PROVE  LET u == Assert(t, ok, name) IN
         Good(u) /\ Stays(t, u) /\ SameSender(t, u)
<1> DEFINE u == Assert(t, ok, name)
<1>1. CASE ok
  <2>1. u = t
    BY <1>1 DEF Assert
  <2> QED
    BY <2>1, StaysSelf DEF SameSender
<1>2. CASE ~ok
  <2>1. DOMAIN t = Fields /\ t.bad \subseteq Fallible
    BY DEF Good, Sends
  <2>2. u = [t EXCEPT !.bad = @ \cup {name}]
    BY <1>2 DEF Assert
  <2>3. SameSender(t, u) /\ DOMAIN u = Fields /\ u.bad \subseteq Fallible /\ u.out = t.out
        /\ u.fin_ack = t.fin_ack
    BY <2>1, <2>2 DEF SameSender, Fields
  <2>4. Receives(t) /\ Paces(t) /\ \A p \in t.out : PktOk(p)
    BY DEF Good
  <2>5. Receives(u)
    <3>1. /\ u.rcv_nxt = t.rcv_nxt /\ u.rcv_wnd = t.rcv_wnd /\ u.rbuf_len = t.rbuf_len
          /\ u.rwnd_scale = t.rwnd_scale /\ u.swnd_scale = t.swnd_scale /\ u.rbuf = t.rbuf
          /\ u.ooo = t.ooo /\ u.rlist = t.rlist /\ u.opts = t.opts
      BY <2>1, <2>2 DEF Fields
    <3> HIDE DEF u
    <3> QED
      BY <3>1, <2>4, ReceivesSame
  <2>6. Paces(u)
    <3>1. /\ u.state = t.state /\ u.snd_wnd = t.snd_wnd /\ u.mss = t.mss
          /\ u.msslevel = t.msslevel /\ u.cwnd = t.cwnd /\ u.ssthresh = t.ssthresh
          /\ u.dup_acks = t.dup_acks
      BY <2>1, <2>2 DEF Fields
    <3> HIDE DEF u
    <3> QED
      BY <3>1, <2>4, PacesSame
  <2> HIDE DEF u
  <2>7. Good(u)
    BY <2>3, <2>4, <2>5, <2>6, Rebuilt
  <2>8. Stays(t, u)
    BY <2>3 DEF Stays, SameSender
  <2> QED
    BY <2>3, <2>7, <2>8 DEF u
<1> QED
  BY <1>1, <1>2

LEMMA ValuableAckSound ==
  ASSUME NEW t, Sound(t), t.state # "CLOSED", NEW seg, PktOk(seg),
         Larger(seg.ack, t.snd_una), LargerEq(t.snd_nxt, seg.ack)
  PROVE  LET v == ValuableAck(t, seg).t IN Sound(v) /\ v.state = t.state
<1> DEFINE n == Sub(seg.ack, t.snd_una)
           fin == FinAcked(t, n)
           m == IF fin THEN n - 1 ELSE n
           a == Assert(t, m <= Len(t.sbuf), "consume")
           sl == FreeSegments(t.slist, m)
           wnd == seg.wnd * 2^t.swnd_scale
           u == [a EXCEPT !.snd_wnd = wnd, !.snd_una = seg.ack, !.rto = RtoAfterAck(t, seg.ack),
                          !.sbuf = DropN(@, m), !.slist = FreeSegments(@, m)]
<1>1. Good(t) /\ Open(t) /\ Fresh(t)
  BY DEF Sound
<1>2. Good(a) /\ SameSender(t, a) /\ a.state = t.state
  <2>1. Good(a) /\ SameSender(t, a)
    BY <1>1, Asserted DEF Fallible
  <2> HIDE DEF a
  <2> QED
    BY <2>1 DEF SameSender
<1>3. ValuableAck(t, seg).t = Congestion(u, m).t
  BY DEF ValuableAck
<1>4. /\ m \in Nat /\ (~fin => m >= 1)
      /\ DropN(t.sbuf, m) \in Seq(Int) /\ Len(DropN(t.sbuf, m)) <= SBufLen
      /\ sl \in Seq(PlacedSegs(seg.ack, Len(DropN(t.sbuf, m))))
      /\ NoFin(t.slist) => NoFin(sl)
      /\ m > Len(t.sbuf) => sl = <<>>
      /\ \E b, p : /\ CoverBy(sl, seg.ack, Len(DropN(t.sbuf, m)), b, p)
                   /\ t.state \in PreFin => Sub(t.snd_nxt, seg.ack) = b[p]
  <2>1. fin \in BOOLEAN
    BY DEF FinAcked
  <2>2. fin = FinAcked(t, Sub(seg.ack, t.snd_una)) /\ seg.ack \in Seqs
    BY DEF PktOk
  <2>3. m = IF fin THEN Sub(seg.ack, t.snd_una) - 1 ELSE Sub(seg.ack, t.snd_una)
    OBVIOUS
  <2> HIDE DEF fin, m
  <2> QED
    BY <1>1, <2>1, <2>2, <2>3, AckedList
<1>5. t.state = "LISTEN" => m > Len(t.sbuf)
  <2>1. ASSUME t.state = "LISTEN" PROVE ~fin /\ t.sbuf = <<>>
    BY <1>1, <2>1 DEF Fresh, FinAcked, has_sent_fin
  <2> HIDE DEF m, fin
  <2> QED
    BY <2>1, <1>4
<1>6. wnd \in Int
  <2>1. 2^t.swnd_scale \in Nat \ {0}
    BY <1>1, PowerNat DEF Good, Receives
  <2>2. seg.wnd \in Int
    BY DEF PktOk
  <2> QED
    BY <2>1, <2>2
<1>7. DOMAIN a = Fields /\ a.bad \subseteq Fallible
  BY <1>2, Zenon DEF Good, Sends
<1>8. a.sbuf = t.sbuf /\ a.slist = t.slist /\ a.snd_nxt = t.snd_nxt
  BY <1>2, Zenon DEF SameSender
<1> HIDE DEF a, m, wnd, fin
<1>9. /\ DOMAIN u = Fields /\ u.state = t.state /\ u.snd_una = seg.ack /\ u.snd_nxt = t.snd_nxt
      /\ u.sbuf = DropN(t.sbuf, m) /\ u.slist = sl /\ u.bad = a.bad /\ u.out = a.out
      /\ u.rto = RtoAfterAck(t, seg.ack) /\ u.snd_wnd = wnd
  BY <1>2, <1>7, <1>8 DEF Fields
<1>10. /\ u.rcv_nxt = a.rcv_nxt /\ u.rcv_wnd = a.rcv_wnd /\ u.rbuf_len = a.rbuf_len
       /\ u.rwnd_scale = a.rwnd_scale /\ u.swnd_scale = a.swnd_scale /\ u.rbuf = a.rbuf
       /\ u.ooo = a.ooo /\ u.rlist = a.rlist /\ u.opts = a.opts
       /\ u.mss = a.mss /\ u.msslevel = a.msslevel /\ u.cwnd = a.cwnd
       /\ u.ssthresh = a.ssthresh /\ u.dup_acks = a.dup_acks
  BY <1>7 DEF Fields
<1> HIDE DEF u, sl
<1>11. Receives(u)
  BY <1>2, <1>10, ReceivesSame DEF Good
<1>12. Paces(u)
  <2>1. Paces(a)
    BY <1>2 DEF Good
  <2> QED
    BY <2>1, <1>2, <1>6, <1>9, <1>10 DEF Paces
<1>13. Sends(u)
  <2>1. t.snd_nxt \in Seqs /\ seg.ack \in Seqs
    BY <1>1 DEF Good, Sends, PktOk
  <2>2. u.snd_una # u.snd_nxt => u.rto
    BY <1>9 DEF RtoAfterAck
  <2> QED
    BY <2>1, <2>2, <1>4, <1>7, <1>9 DEF Sends
<1>14. Accounted(u)
  <2>1. PICK b, p : /\ CoverBy(sl, seg.ack, Len(DropN(t.sbuf, m)), b, p)
                    /\ t.state \in PreFin => Sub(t.snd_nxt, seg.ack) = b[p]
    BY <1>4
  <2>2. /\ CoverBy(u.slist, u.snd_una, Len(u.sbuf), b, p)
        /\ u.state \in PreFin => Sub(u.snd_nxt, u.snd_una) = b[p]
    BY <2>1, <1>9
  <2> QED
    BY <2>2, Zenon DEF Accounted
<1>15. Good(u)
  <2>1. u.state \in States /\ \A p \in u.out : PktOk(p)
    BY <1>1, <1>2, <1>9, Zenon DEF Good
  <2> QED
    BY <2>1, <1>9, <1>11, <1>12, <1>13, <1>14, Zenon DEF Good
<1>16. Open(u) /\ Fresh(u)
  <2>1. Open(u)
    BY <1>1, <1>4, <1>9 DEF Open
  <2>2. Fresh(u)
    <3> SUFFICES ASSUME t.state = "LISTEN" PROVE u.slist = <<>> /\ u.sbuf = <<>>
      BY <1>9 DEF Fresh
    <3>1. m > Len(t.sbuf) /\ t.sbuf = <<>>
      BY <1>1, <1>5 DEF Fresh
    <3>2. Len(DropN(t.sbuf, m)) = 0
      <4>1. t.sbuf \in Seq(Int) /\ Len(t.sbuf) = 0
        BY <1>1, <3>1 DEF Good, Sends
      <4>2. Len(DropN(t.sbuf, m)) = IF m <= Len(t.sbuf) THEN Len(t.sbuf) - m ELSE 0
        BY <4>1, <1>4, Dropped
      <4> QED
        BY <4>1, <4>2, <3>1, <1>4
    <3> QED
      BY <3>1, <3>2, <1>4, <1>9
  <2> QED
    BY <2>1, <2>2
<1>17. Sound(u)
  BY <1>15, <1>16 DEF Sound
<1>18. Good(Congestion(u, m).t) /\ Stays(u, Congestion(u, m).t)
  BY <1>4, <1>9, <1>15, CongestionGood
<1>19. Sound(Congestion(u, m).t) /\ Congestion(u, m).t.state = u.state
  BY <1>17, <1>18, StaysSound DEF Stays
<1> QED
  BY <1>3, <1>9, <1>19

LEMMA DuplicateAckSound ==
  ASSUME NEW t, Sound(t), NEW seg, PktOk(seg)
  PROVE  LET v == DuplicateAck(t, seg).t IN Sound(v) /\ v.state = t.state
<1> DEFINE wnd == seg.wnd * 2^t.swnd_scale
           u == [t EXCEPT !.snd_wnd = wnd]
           d == [u EXCEPT !.dup_acks = Least(@ + 1, 4)]
           r == DuplicateAck(t, seg)
<1>1. Good(t)
  BY DEF Sound
<1>2. wnd \in Int
  <2>1. 2^t.swnd_scale \in Nat \ {0}
    BY <1>1, PowerNat DEF Good, Receives
  <2>2. seg.wnd \in Int
    BY DEF PktOk
  <2> QED
    BY <2>1, <2>2
<1>3. /\ DOMAIN t = Fields /\ t.mss \in Nat \ {0} /\ t.cwnd \in Nat /\ t.ssthresh \in Nat
      /\ t.dup_acks \in Nat /\ (t.state # "CLOSED" => t.cwnd > 0 /\ t.ssthresh > 0)
  BY <1>1 DEF Good, Paces
<1> HIDE DEF wnd
<1>4. Rewindowed(t, u) /\ u.dup_acks = t.dup_acks /\ u.cwnd = t.cwnd /\ u.ssthresh = t.ssthresh
      /\ u.mss = t.mss /\ u.state = t.state /\ DOMAIN u = Fields
  BY <1>2, <1>3 DEF Rewindowed, SameButPaces, Fields
<1> HIDE DEF u
<1>5. Good(u) /\ Stays(t, u) /\ u.snd_wnd \in Int
  BY <1>1, <1>4, RewindowedGood DEF Rewindowed
<1>6. Rewindowed(u, d) /\ d.cwnd = u.cwnd /\ d.ssthresh = u.ssthresh /\ d.mss = u.mss
      /\ d.snd_wnd = u.snd_wnd /\ d.dup_acks \in Nat /\ d.state = u.state /\ DOMAIN d = Fields
  <2>1. Least(u.dup_acks + 1, 4) \in Nat
    BY <1>3, <1>4 DEF Least
  <2> DEFINE k == Least(u.dup_acks + 1, 4)
  <2>2. d = [u EXCEPT !.dup_acks = k]
    OBVIOUS
  <2> HIDE DEF k, d
  <2>3. k \in Nat
    BY <2>1 DEF k
  <2> QED
    BY <2>2, <2>3, <1>3, <1>4, <1>5 DEF Rewindowed, SameButPaces, Fields
<1> HIDE DEF d
<1>7. Good(d) /\ Stays(t, d)
  BY <1>5, <1>6, RewindowedGood, StaysTrans
<1>8. ASSUME NEW w, Rewindowed(t, w) \/ Rewindowed(u, w) \/ Rewindowed(d, w)
      PROVE  Good(w) /\ Stays(t, w)
  BY <1>1, <1>5, <1>7, <1>8, RewindowedGood, StaysTrans
<1>9. Good(r.t) /\ Stays(t, r.t)
  <2>1. CASE seg.data # <<>>
    <3>1. r.t = u
      BY <2>1 DEF DuplicateAck, u, wnd
    <3> HIDE DEF r
    <3> QED
      BY <3>1, <1>5
  <2>2. CASE seg.data = <<>> /\ t.snd_una = t.snd_nxt
    <3> DEFINE w == [u EXCEPT !.dup_acks = 0]
    <3>1. r.t = w
      BY <2>2 DEF DuplicateAck, u, wnd
    <3>2. Rewindowed(u, w)
      BY <1>3, <1>4, <1>5 DEF Rewindowed, SameButPaces, Fields
    <3> HIDE DEF r, w
    <3> QED
      BY <3>1, <3>2, <1>8
  <2>3. CASE seg.data = <<>> /\ t.snd_una # t.snd_nxt /\ t.dup_acks = 2
    <3> DEFINE f == TransmitFirst(d)
               v == f.t
               half == HalfFlight(v)
               c == Least(half + 3 * v.mss, CwndCap)
               w == [v EXCEPT !.recover = v.snd_nxt, !.ssthresh = half, !.cwnd = c]
    <3>1. r.t = IF f.ok THEN w ELSE v
      BY <2>3 DEF DuplicateAck, d, u, wnd
    <3>2. Good(v) /\ Stays(d, v)
      BY <1>7, TransmitFirstGood
    <3> HIDE DEF f, v, r
    <3>3. Stays(t, v)
      BY <1>7, <3>2, StaysTrans
    <3>4. half \in Nat \ {0} /\ v.mss \in Nat \ {0}
      BY <3>2, HalfFlightNat
    <3> HIDE DEF half
    <3>5. half + 3 * v.mss \in Nat \ {0}
      BY <3>4
    <3>6. c \in Nat \ {0}
      BY <3>5, Capped
    <3>7. DOMAIN v = Fields /\ v.snd_wnd \in Int /\ v.dup_acks \in Nat
      BY <3>2 DEF Good, Paces
    <3> HIDE DEF c
    <3>8. Rewindowed(v, w)
      BY <3>4, <3>6, <3>7 DEF Rewindowed, SameButPaces, Fields
    <3> HIDE DEF w
    <3>9. Good(w) /\ Stays(t, w)
      BY <3>2, <3>3, <3>8, RewindowedGood, StaysTrans
    <3> QED
      BY <3>1, <3>2, <3>3, <3>9
  <2>4. CASE seg.data = <<>> /\ t.snd_una # t.snd_nxt /\ t.dup_acks < 2
    <3>0. t.dup_acks # 2
      BY <2>4, <1>3
    <3>1. r.t = d
      BY <2>4, <3>0 DEF DuplicateAck, d, u, wnd
    <3> HIDE DEF r
    <3> QED
      BY <3>1, <1>7
  <2>5. CASE seg.data = <<>> /\ t.snd_una # t.snd_nxt /\ t.dup_acks > 2
    <3> DEFINE c == Least(d.cwnd + t.mss, CwndCap)
               w == [d EXCEPT !.cwnd = c]
    <3>0. t.dup_acks # 2 /\ ~(t.dup_acks < 2)
      BY <2>5, <1>3
    <3>1. r.t = w
      BY <2>5, <3>0 DEF DuplicateAck, d, u, wnd
    <3>2. d.cwnd + t.mss \in Nat \ {0}
      BY <1>3, <1>4, <1>6
    <3>3. c \in Nat \ {0}
      BY <3>2, Capped
    <3> HIDE DEF r, c
    <3>4. Rewindowed(d, w)
      BY <3>3, <1>3, <1>4, <1>5, <1>6 DEF Rewindowed, SameButPaces, Fields
    <3> HIDE DEF w
    <3> QED
      BY <3>1, <3>4, <1>8
  <2> QED
    BY <1>3, <2>1, <2>2, <2>3, <2>4, <2>5
<1> HIDE DEF r
<1>10. Sound(r.t) /\ r.t.state = t.state
  BY <1>9, StaysSound DEF Stays
<1> QED
  BY <1>10 DEF r

LEMMA AckSound ==
  ASSUME NEW t, Sound(t), t.state # "CLOSED", NEW seg, PktOk(seg)
  PROVE  LET v == ProcessAck(t, seg).t IN Sound(v) /\ v.state = t.state
<1> DEFINE v == ProcessAck(t, seg).t
<1>1. CASE Larger(seg.ack, t.snd_una) /\ LargerEq(t.snd_nxt, seg.ack)
  <2>0. seg.ack # t.snd_una
    <3> SUFFICES ASSUME seg.ack = t.snd_una PROVE FALSE
      OBVIOUS
    <3>1. t.snd_una \in Seqs /\ t.snd_nxt \in Seqs
      BY DEF Sound, Good, Sends
    <3>2. Sub(t.snd_una, t.snd_una) >= 1
      BY <1>1, <3>1, FlightParts
    <3>3. t.snd_una - t.snd_una = 0
      BY <3>1, SeqModNat DEF Seqs
    <3>4. 0 % SeqMod = 0
      BY SmallRemainder, SeqModNat DEF Seqs
    <3> QED
      BY <3>2, <3>3, <3>4 DEF Sub
  <2>1. v = ValuableAck(t, seg).t
    BY <1>1, <2>0 DEF ProcessAck
  <2> HIDE DEF v
  <2> QED
    BY <1>1, <2>1, ValuableAckSound DEF v
<1>2. CASE ~(Larger(seg.ack, t.snd_una) /\ LargerEq(t.snd_nxt, seg.ack)) /\ seg.ack = t.snd_una
  <2>1. v = DuplicateAck(t, seg).t
    BY <1>2 DEF ProcessAck
  <2> HIDE DEF v
  <2> QED
    BY <2>1, DuplicateAckSound DEF v
<1>3. CASE ~(Larger(seg.ack, t.snd_una) /\ LargerEq(t.snd_nxt, seg.ack)) /\ seg.ack # t.snd_una
  <2>1. v = t
    BY <1>3 DEF ProcessAck
  <2> QED
    BY <2>1
<1> QED
  BY <1>1, <1>2, <1>3

-----------------------------------------------------------------------------
\* The closing state machine

LEMMA FinSound ==
  ASSUME NEW t, Sound(t), NEW seg, NEW finAcked \in BOOLEAN
  PROVE  Sound(ProcessFin(t, seg, finAcked))
<1> DEFINE u == ProcessFin(t, seg, finAcked)
           fin == seg.flags = "fin"
<1>1. Good(t)
  BY DEF Sound
<1>2. ASSUME NEW s \in {"TIME_WAIT", "FIN_WAIT_2", "CLOSING"}, <<t.state, s>> \in ValidTransitions,
             t.state # "CLOSED"
      PROVE  Sound(set_state(t, s))
  <2>1. s \in States \ PreFin
    BY DEF States, PreFin
  <2> QED
    BY <1>1, <1>2, <2>1, StateAfterFin
<1>3. CASE ~t.fin_ack
  BY <1>3 DEF ProcessFin
<1>4. CASE t.fin_ack /\ t.state = "ESTABLISHED" /\ fin
  <2>1. u = set_state(t, "CLOSE_WAIT")
    BY <1>4 DEF ProcessFin
  <2>2. <<t.state, "CLOSE_WAIT">> \in ValidTransitions /\ t.state \in PreFin /\ t.state # "CLOSED"
        /\ "CLOSE_WAIT" \in States
    BY <1>4 DEF ValidTransitions, PreFin, States
  <2> HIDE DEF u
  <2>3. Sound(set_state(t, "CLOSE_WAIT"))
    BY <2>2, StateSound
  <2> QED
    BY <2>1, <2>3 DEF u
<1>5. CASE t.fin_ack /\ t.state = "CLOSING" /\ finAcked
  <2>1. u = set_state(t, "TIME_WAIT")
    BY <1>5 DEF ProcessFin
  <2>2. <<t.state, "TIME_WAIT">> \in ValidTransitions /\ t.state # "CLOSED"
    BY <1>5 DEF ValidTransitions
  <2> HIDE DEF u
  <2> QED
    BY <2>1, <2>2, <1>2 DEF u
<1>6. CASE t.fin_ack /\ t.state = "LAST_ACK" /\ finAcked
  <2>1. u = set_state_closed(t, "none")
    BY <1>6 DEF ProcessFin
  <2> HIDE DEF u
  <2>2. Sound(set_state_closed(t, "none"))
    BY <1>1, <1>6, ClosedSet
  <2> QED
    BY <2>1, <2>2 DEF u
<1>7. CASE t.fin_ack /\ t.state = "FIN_WAIT_1" /\ finAcked /\ fin
  <2>1. u = set_state(t, "TIME_WAIT")
    BY <1>7 DEF ProcessFin
  <2>2. <<t.state, "TIME_WAIT">> \in ValidTransitions /\ t.state # "CLOSED"
    BY <1>7 DEF ValidTransitions
  <2> HIDE DEF u
  <2> QED
    BY <2>1, <2>2, <1>2 DEF u
<1>8. CASE t.fin_ack /\ t.state = "FIN_WAIT_1" /\ finAcked /\ ~fin
  <2>1. u = set_state(t, "FIN_WAIT_2")
    BY <1>8 DEF ProcessFin
  <2>2. <<t.state, "FIN_WAIT_2">> \in ValidTransitions /\ t.state # "CLOSED"
    BY <1>8 DEF ValidTransitions
  <2> HIDE DEF u
  <2> QED
    BY <2>1, <2>2, <1>2 DEF u
<1>9. CASE t.fin_ack /\ t.state = "FIN_WAIT_1" /\ ~finAcked /\ fin
  <2>1. u = set_state(t, "CLOSING")
    BY <1>9 DEF ProcessFin
  <2>2. <<t.state, "CLOSING">> \in ValidTransitions /\ t.state # "CLOSED"
    BY <1>9 DEF ValidTransitions
  <2> HIDE DEF u
  <2> QED
    BY <2>1, <2>2, <1>2 DEF u
<1>10. CASE t.fin_ack /\ t.state = "FIN_WAIT_2" /\ fin
  <2>1. u = set_state(t, "TIME_WAIT")
    BY <1>10 DEF ProcessFin
  <2>2. <<t.state, "TIME_WAIT">> \in ValidTransitions /\ t.state # "CLOSED"
    BY <1>10 DEF ValidTransitions
  <2> HIDE DEF u
  <2> QED
    BY <2>1, <2>2, <1>2 DEF u
<1>11. CASE /\ t.fin_ack
            /\ ~(t.state = "ESTABLISHED" /\ fin) /\ ~(t.state = "CLOSING" /\ finAcked)
            /\ ~(t.state = "LAST_ACK" /\ finAcked) /\ ~(t.state = "FIN_WAIT_1" /\ finAcked)
            /\ ~(t.state = "FIN_WAIT_1" /\ fin) /\ ~(t.state = "FIN_WAIT_2" /\ fin)
  <2>1. u = t
    BY <1>11 DEF ProcessFin
  <2> QED
    BY <2>1
<1> HIDE DEF u, fin
<1>12. Sound(u)
  BY <1>3, <1>4, <1>5, <1>6, <1>7, <1>8, <1>9, <1>10, <1>11 DEF u
<1> QED
  BY <1>12 DEF u

-----------------------------------------------------------------------------
\* The receive buffer: what comes in does not touch what the end sends

Receiving(t, u) ==
    /\ DOMAIN u = Fields /\ SameSender(t, u) /\ u.out = t.out /\ u.fin_ack = t.fin_ack
    /\ u.snd_wnd = t.snd_wnd /\ u.mss = t.mss /\ u.msslevel = t.msslevel /\ u.cwnd = t.cwnd
    /\ u.ssthresh = t.ssthresh /\ u.dup_acks = t.dup_acks
    /\ u.bad \subseteq Fallible /\ Receives(u)

LEMMA ReceivingSelf ==
  ASSUME NEW t, Good(t)
  PROVE  Receiving(t, t)
BY DEF Receiving, SameSender, Good, Sends

LEMMA ReceivingTrans ==
  ASSUME NEW t, NEW u, NEW v, Receiving(t, u), Receiving(u, v)
  PROVE  Receiving(t, v)
BY DEF Receiving, SameSender

LEMMA ReceivingGood ==
  ASSUME NEW t, Good(t), NEW u, Receiving(t, u)
  PROVE  Good(u) /\ SameSender(t, u)
<1>1. u.state = t.state /\ SameSender(t, u) /\ DOMAIN u = Fields /\ Receives(u)
      /\ u.bad \subseteq Fallible /\ u.out = t.out
  BY DEF Receiving, SameSender
<1>2. Paces(t) /\ \A p \in t.out : PktOk(p)
  BY DEF Good
<1>3. Paces(u)
  BY <1>1, <1>2, PacesSame DEF Receiving
<1> QED
  BY <1>1, <1>2, <1>3, Rebuilt

\* Bytes are written past the data of the buffer
LEMMA OffsetWritten ==
  ASSUME NEW t, Good(t), NEW off \in Int, NEW data \in Seq(Int)
  PROVE  Receiving(t, WriteOffset(t, off, data))
<1> DEFINE D == off .. (off + Len(data) - 1)
           o == [i \in DOMAIN t.ooo \cup D |-> IF i \in D THEN data[i - off + 1] ELSE t.ooo[i]]
           u == [t EXCEPT !.ooo = o]
<1>1. WriteOffset(t, off, data) = u
  BY DEF WriteOffset
<1>2. DOMAIN t = Fields /\ Receives(t) /\ t.bad \subseteq Fallible
  BY DEF Good, Sends
<1>3. Written(o)
  <2>1. Written(t.ooo) /\ Len(data) \in Nat
    BY <1>2 DEF Receives
  <2>2. \A i \in D : i \in Int /\ data[i - off + 1] \in Int
    <3> TAKE i \in D
    <3>1. i \in Int /\ i - off + 1 \in 1 .. Len(data)
      BY <2>1
    <3> QED
      BY <3>1, ElementOfSeq
  <2> HIDE DEF D
  <2>3. DOMAIN o = DOMAIN t.ooo \cup D
    OBVIOUS
  <2>4. \A i \in DOMAIN t.ooo \cup D : o[i] = IF i \in D THEN data[i - off + 1] ELSE t.ooo[i]
    OBVIOUS
  <2> HIDE DEF o
  <2> QED
    BY <2>1, <2>2, <2>3, <2>4 DEF Written
<1> HIDE DEF o
<1>4. Receives(u)
  BY <1>2, <1>3 DEF Receives, Fields
<1>5. Receiving(t, u)
  BY <1>2, <1>4 DEF Receiving, SameSender, Fields
<1> QED
  BY <1>1, <1>5

\* n more bytes of it become data
LEMMA WriteConsumed ==
  ASSUME NEW t, Good(t), NEW n \in Nat
  PROVE  Receiving(t, ConsumeWrite(t, n))
<1> DEFINE d == [i \in 1 .. n |-> IF i - 1 \in DOMAIN t.ooo THEN t.ooo[i - 1] ELSE -1]
           D == {j - n : j \in {k \in DOMAIN t.ooo : k >= n}}
           o == [i \in D |-> t.ooo[i + n]]
           a == Assert(t, n <= t.rbuf_len - Len(t.rbuf), "consume")
           u == [a EXCEPT !.rbuf = @ \o d, !.ooo = o, !.rcv_nxt = Add(@, n), !.rcv_wnd = @ - n]
<1>1. DOMAIN t = Fields /\ Receives(t) /\ t.bad \subseteq Fallible /\ Written(t.ooo)
  BY DEF Good, Sends, Receives
<1>2. d \in Seq(Int)
  <2>1. \A i \in 1 .. n : (IF i - 1 \in DOMAIN t.ooo THEN t.ooo[i - 1] ELSE -1) \in Int
    BY <1>1 DEF Written
  <2>2. d \in [1 .. n -> Int]
    BY <2>1
  <2> HIDE DEF d
  <2> QED
    BY <2>2
<1>3. Written(o)
  <2>1. \A i \in D : i \in Int /\ i + n \in DOMAIN t.ooo
    <3> TAKE i \in D
    <3>1. PICK j \in DOMAIN t.ooo : i = j - n
      OBVIOUS
    <3>2. j \in Int
      BY <1>1 DEF Written
    <3>3. (j - n) + n = j
      BY <3>2
    <3> QED
      BY <3>1, <3>2, <3>3
  <2>2. DOMAIN o = D /\ \A i \in D : o[i] = t.ooo[i + n]
    OBVIOUS
  <2> HIDE DEF D, o
  <2> QED
    BY <1>1, <2>1, <2>2 DEF Written
<1>4. /\ DOMAIN a = Fields /\ SameSender(t, a) /\ a.out = t.out /\ a.fin_ack = t.fin_ack
      /\ a.snd_wnd = t.snd_wnd /\ a.mss = t.mss /\ a.msslevel = t.msslevel /\ a.cwnd = t.cwnd
      /\ a.ssthresh = t.ssthresh /\ a.dup_acks = t.dup_acks
      /\ a.bad \subseteq Fallible /\ a.rbuf = t.rbuf /\ a.ooo = t.ooo /\ a.rcv_nxt = t.rcv_nxt
      /\ a.rcv_wnd = t.rcv_wnd /\ a.rbuf_len = t.rbuf_len /\ a.rwnd_scale = t.rwnd_scale
      /\ a.swnd_scale = t.swnd_scale /\ a.rlist = t.rlist /\ a.opts = t.opts
  <2> DEFINE ok == n <= t.rbuf_len - Len(t.rbuf)
  <2>1. a = IF ok THEN t ELSE [t EXCEPT !.bad = @ \cup {"consume"}]
    BY DEF Assert
  <2> HIDE DEF ok, a
  <2>2. CASE ok
    BY <1>1, <2>1, <2>2 DEF SameSender
  <2>3. CASE ~ok
    BY <1>1, <2>1, <2>3 DEF SameSender, Fields, Fallible
  <2> QED
    BY <2>2, <2>3
<1>5. ConsumeWrite(t, n) = u
  <2>1. a.ooo = t.ooo
    BY <1>4
  <2> QED
    BY <2>1 DEF ConsumeWrite
<1> HIDE DEF a, d, o
<1>6. Receives(u)
  <2>1. /\ u.rbuf = t.rbuf \o d /\ u.ooo = o /\ u.rcv_nxt = Add(t.rcv_nxt, n)
        /\ u.rcv_wnd = t.rcv_wnd - n /\ u.rbuf_len = t.rbuf_len /\ u.rwnd_scale = t.rwnd_scale
        /\ u.swnd_scale = t.swnd_scale /\ u.rlist = t.rlist /\ u.opts = t.opts
    BY <1>4 DEF Fields
  <2> HIDE DEF u
  <2>2. /\ t.rcv_nxt \in Int /\ t.rcv_wnd \in Int /\ t.rbuf_len \in Int
        /\ t.rwnd_scale \in 0 .. 4 /\ t.swnd_scale \in 0 .. 4
        /\ t.rbuf \in Seq(Int) /\ t.rlist \in Seq([seq : Int, len : Nat]) /\ t.opts[2] \in 0 .. 4
    BY <1>1, SeqModNat DEF Receives, Seqs
  <2>3. t.rbuf \o d \in Seq(Int) /\ Add(t.rcv_nxt, n) \in Seqs /\ t.rcv_wnd - n \in Int
    <3>1. t.rbuf \o d \in Seq(Int)
      BY <1>2, <2>2, ConcatProperties
    <3>2. n \in Int /\ t.rcv_wnd - n \in Int
      BY <2>2
    <3>3. Add(t.rcv_nxt, n) \in Seqs
      BY <2>2, <3>2, SeqTypes
    <3> QED
      BY <3>1, <3>2, <3>3
  <2> QED
    BY <1>3, <2>1, <2>2, <2>3 DEF Receives
<1>7. Receiving(t, u)
  <2>1. /\ DOMAIN u = Fields /\ SameSender(a, u) /\ u.out = a.out /\ u.fin_ack = a.fin_ack
        /\ u.snd_wnd = a.snd_wnd /\ u.mss = a.mss /\ u.msslevel = a.msslevel /\ u.cwnd = a.cwnd
        /\ u.ssthresh = a.ssthresh /\ u.dup_acks = a.dup_acks /\ u.bad = a.bad
    BY <1>4 DEF SameSender, Fields
  <2> HIDE DEF u
  <2> QED
    BY <1>4, <1>6, <2>1 DEF Receiving, SameSender
<1> QED
  BY <1>5, <1>7

\* A segment saved in rlist, or taken from it
LEMMA ListReplaced ==
  ASSUME NEW t, Good(t), NEW l \in Seq([seq : Int, len : Nat])
  PROVE  Receiving(t, [t EXCEPT !.rlist = l])
<1> DEFINE u == [t EXCEPT !.rlist = l]
<1>1. DOMAIN t = Fields /\ Receives(t) /\ t.bad \subseteq Fallible
  BY DEF Good, Sends
<1>2. Receives(u)
  BY <1>1 DEF Receives, Fields
<1> QED
  BY <1>1, <1>2 DEF Receiving, SameSender, Fields

LEMMA FirstRecovered ==
  ASSUME NEW t, Good(t)
  PROVE  Receiving(t, RecoverFirst(t))
<1> DEFINE h == t.rlist[1]
           end == Add(h.seq, h.len)
           c == IF Larger(end, t.rcv_nxt) THEN ConsumeWrite(t, Sub(end, t.rcv_nxt)) ELSE t
           u == [c EXCEPT !.rlist = Tail(@)]
<1>1. RecoverFirst(t) \in {t} \/ (t.rlist # <<>> /\ RecoverFirst(t) = u)
  BY DEF RecoverFirst
<1>2. ASSUME t.rlist # <<>> PROVE Receiving(t, u)
  <2>1. t.rlist \in Seq([seq : Int, len : Nat]) /\ t.rcv_nxt \in Int
    BY SeqModNat DEF Good, Receives, Seqs
  <2>2. h.seq \in Int /\ h.len \in Int
    <3>1. h \in [seq : Int, len : Nat]
      <4> DEFINE S == [seq : Int, len : Nat]
      <4>1. t.rlist \in Seq(S)
        BY <2>1
      <4> HIDE DEF S
      <4>2. 1 \in 1 .. Len(t.rlist)
        BY <4>1, <1>2
      <4>3. t.rlist[1] \in S
        BY <4>1, <4>2, ElementOfSeq
      <4> QED
        BY <4>3 DEF S
    <3> HIDE DEF h
    <3> QED
      BY <3>1
  <2> HIDE DEF h
  <2>3. Sub(end, t.rcv_nxt) \in Nat
    <3>1. end \in Int
      BY <2>2, SeqTypes
    <3> HIDE DEF end
    <3> QED
      BY <2>1, <3>1, SeqTypes
  <2> DEFINE k == Sub(end, t.rcv_nxt)
  <2> HIDE DEF k
  <2>4. Receiving(t, c)
    <3>1. Receiving(t, ConsumeWrite(t, k)) /\ Receiving(t, t)
      BY <2>3, WriteConsumed, ReceivingSelf DEF k
    <3> QED
      BY <3>1 DEF k
  <2>5. Good(c)
    <3> HIDE DEF c
    <3> QED
      BY <2>4, ReceivingGood
  <2>6. c.rlist = t.rlist
    <3>1. DOMAIN t = Fields
      BY DEF Good
    <3>2. ConsumeWrite(t, k).rlist = t.rlist
      <4> DEFINE a == Assert(t, k <= t.rbuf_len - Len(t.rbuf), "consume")
      <4>1. DOMAIN a = Fields /\ a.rlist = t.rlist
        BY <3>1 DEF Assert, Fields
      <4> HIDE DEF a
      <4>2. \A x, y, z, w : [a EXCEPT !.rbuf = x, !.ooo = y, !.rcv_nxt = z, !.rcv_wnd = w].rlist = t.rlist
        BY <4>1 DEF Fields
      <4> QED
        BY <4>1, <4>2 DEF ConsumeWrite, a
    <3> QED
      BY <3>2 DEF k
  <2> HIDE DEF c
  <2>7. Tail(c.rlist) \in Seq([seq : Int, len : Nat])
    BY <2>1, <2>6, <1>2
  <2>8. Receiving(c, [c EXCEPT !.rlist = Tail(c.rlist)])
    BY <2>5, <2>7, ListReplaced
  <2>9. Receiving(c, u)
    BY <2>8
  <2> HIDE DEF u
  <2> QED
    BY <2>4, <2>9, ReceivingTrans
<1> HIDE DEF u
<1> QED
  BY <1>1, <1>2, ReceivingSelf

\* The turns of Recover
RecoverTurns(f, N, start) ==
    f = [n \in 0 .. N |-> IF n = 0 THEN start ELSE RecoverFirst(f[n - 1])]

LEMMA RecoverTurnsExist ==
  ASSUME NEW N \in Nat, NEW start
  PROVE  \E f : RecoverTurns(f, N, start)
<1> DEFINE Turns(f, k) ==
             f = [n \in 0 .. k |-> IF n = 0 THEN start ELSE RecoverFirst(f[n - 1])]
           T == {k \in Nat : \E f : Turns(f, k)}
<1>1. 0 \in T
  <2> DEFINE f == [n \in 0 .. 0 |-> start]
  <2>1. Turns(f, 0)
    OBVIOUS
  <2> QED
    BY <2>1
<1>2. \A k \in Nat : k \in T => k + 1 \in T
  <2> SUFFICES ASSUME NEW k \in Nat, NEW f, Turns(f, k) PROVE \E h : Turns(h, k + 1)
    OBVIOUS
  <2> DEFINE h == [n \in 0 .. k + 1 |-> IF n = k + 1 THEN RecoverFirst(f[k]) ELSE f[n]]
  <2>1. \A n \in 0 .. k + 1 : h[n] = IF n = 0 THEN start ELSE RecoverFirst(h[n - 1])
    <3> TAKE n \in 0 .. k + 1
    <3>1. CASE n = k + 1
      BY <3>1
    <3>2. CASE n # k + 1
      <4>1. n \in 0 .. k /\ h[n] = f[n] /\ (n # 0 => h[n - 1] = f[n - 1])
        BY <3>2
      <4>2. f[n] = IF n = 0 THEN start ELSE RecoverFirst(f[n - 1])
        BY <4>1
      <4> QED
        BY <4>1, <4>2
    <3> QED
      BY <3>1, <3>2
  <2>2. Turns(h, k + 1)
    BY <2>1
  <2> QED
    BY <2>2
<1>3. \A k \in Nat : k \in T
  <2> HIDE DEF T
  <2> QED
    BY <1>1, <1>2, NatSetInduction
<1> QED
  BY <1>3 DEF RecoverTurns

LEMMA Recovered ==
  ASSUME NEW t, Good(t)
  PROVE  Receiving(t, Recover(t))
<1> DEFINE N == Len(t.rlist)
           run == CHOOSE f : RecoverTurns(f, N, t)
           T == {n \in Nat : n <= N => Receiving(t, run[n])}
<1>1. N \in Nat
  <2>1. t.rlist \in Seq([seq : Int, len : Nat])
    BY DEF Good, Receives
  <2> QED
    BY <2>1
<1>2. Recover(t) = run[N]
  BY DEF Recover, RecoverTurns
<1> HIDE DEF N
<1>3. RecoverTurns(run, N, t)
  <2>1. \E f : RecoverTurns(f, N, t)
    BY <1>1, RecoverTurnsExist
  <2> QED
    BY <2>1
<1> HIDE DEF run
<1>4. run[0] = t /\ \A n \in 1 .. N : run[n] = RecoverFirst(run[n - 1])
  <2>1. \A n \in 0 .. N : run[n] = IF n = 0 THEN t ELSE RecoverFirst(run[n - 1])
    BY <1>3 DEF RecoverTurns
  <2> QED
    BY <1>1, <2>1
<1>5. 0 \in T
  BY <1>4, ReceivingSelf
<1>6. \A n \in Nat : n \in T => n + 1 \in T
  <2> SUFFICES ASSUME NEW n \in Nat, n + 1 <= N, Receiving(t, run[n])
               PROVE  Receiving(t, run[n + 1])
    BY <1>1
  <2>1. run[n + 1] = RecoverFirst(run[n])
    BY <1>1, <1>4
  <2>2. Receiving(run[n], RecoverFirst(run[n]))
    BY ReceivingGood, FirstRecovered
  <2> QED
    BY <2>1, <2>2, ReceivingTrans
<1>7. N \in T
  <2> HIDE DEF T
  <2> QED
    BY <1>1, <1>5, <1>6, NatSetInduction
<1> QED
  BY <1>1, <1>2, <1>7

LEMMA SegmentSaved ==
  ASSUME NEW t, Good(t), NEW seq \in Int, NEW len \in Nat
  PROVE  Receiving(t, Save(t, seq, len))
<1> DEFINE S == [seq : Int, len : Nat]
           before == {i \in 1 .. Len(t.rlist) : \A j \in 1 .. i : Larger(seq, t.rlist[j].seq)}
           k == Cardinality(before)
           x == [seq |-> seq, len |-> len]
           l == TakeN(t.rlist, k) \o <<x>> \o DropN(t.rlist, k)
<1>1. t.rlist \in Seq(S)
  BY DEF Good, Receives
<1>2. k \in Nat
  <2>1. IsFiniteSet(1 .. Len(t.rlist))
    BY <1>1, FS_Interval
  <2>2. IsFiniteSet(before)
    BY <2>1, FS_Subset
  <2> HIDE DEF before
  <2> QED
    BY <2>2, FS_CardinalityType
<1>3. Save(t, seq, len) = [t EXCEPT !.rlist = l]
  BY DEF Save
<1> HIDE DEF k
<1>4. l \in Seq(S)
  <2>1. x \in S
    OBVIOUS
  <2>2. TakeN(t.rlist, k) \in Seq(S) /\ DropN(t.rlist, k) \in Seq(S)
    BY <1>1, <1>2, Dropped, Taken
  <2> HIDE DEF S, x
  <2>3. <<x>> \in Seq(S)
    BY <2>1
  <2> DEFINE a == TakeN(t.rlist, k)
             b == DropN(t.rlist, k)
             y == <<x>>
  <2> HIDE DEF a, b, y
  <2>4. a \o y \in Seq(S)
    BY <2>2, <2>3, ConcatProperties DEF a, y
  <2>5. (a \o y) \o b \in Seq(S)
    BY <2>2, <2>4, ConcatProperties DEF b
  <2> QED
    BY <2>5 DEF a, b, y
<1> HIDE DEF l
<1> QED
  BY <1>3, <1>4, ListReplaced

\* A segment, or a part of it
Data(f) == f.seq \in Int /\ f.data \in Seq(Int)

LEMMA FreshData ==
  ASSUME NEW t, Good(t), NEW seg, Data(seg)
  PROVE  Data(FreshPart(t, seg)) /\ FreshPart(t, seg) = [seq |-> FreshPart(t, seg).seq, data |-> FreshPart(t, seg).data]
<1> DEFINE old == IF Larger(t.rcv_nxt, seg.seq) THEN Sub(t.rcv_nxt, seg.seq) ELSE 0
<1>1. t.rcv_nxt \in Int /\ seg.seq \in Int /\ seg.data \in Seq(Int)
  BY SeqModNat DEF Good, Receives, Seqs, Data
<1>2. old \in Nat
  BY <1>1, SeqTypes
<1>3. FreshPart(t, seg) = IF old < Len(seg.data)
                          THEN [seq |-> Add(seg.seq, old), data |-> DropN(seg.data, old)]
                          ELSE [seq |-> seg.seq, data |-> <<>>]
  BY DEF FreshPart
<1> HIDE DEF old
<1>4. Add(seg.seq, old) \in Int /\ DropN(seg.data, old) \in Seq(Int)
  <2>1. old \in Int
    BY <1>2
  <2>2. Add(seg.seq, old) \in Int
    BY <1>1, <2>1, SeqTypes
  <2>3. DropN(seg.data, old) \in Seq(Int)
    BY <1>1, <1>2, Dropped
  <2> QED
    BY <2>2, <2>3
<1>5. CASE old < Len(seg.data)
  <2>1. FreshPart(t, seg) = [seq |-> Add(seg.seq, old), data |-> DropN(seg.data, old)]
    BY <1>3, <1>5
  <2> QED
    BY <1>4, <2>1 DEF Data
<1>6. CASE ~(old < Len(seg.data))
  <2>1. FreshPart(t, seg) = [seq |-> seg.seq, data |-> <<>>]
    BY <1>3, <1>6
  <2> QED
    BY <1>1, <2>1 DEF Data
<1> QED
  BY <1>5, <1>6

LEMMA FittingData ==
  ASSUME NEW t, Good(t), NEW f, Data(f), f = [seq |-> f.seq, data |-> f.data]
  PROVE  Data(FittingPart(t, f))
<1> DEFINE over == Sub(f.seq, t.rcv_nxt) + Len(f.data) - (t.rbuf_len - Len(t.rbuf))
           k == Most(0, Len(f.data) - over)
<1>1. t.rcv_nxt \in Int /\ f.seq \in Int /\ f.data \in Seq(Int) /\ t.rbuf \in Seq(Int)
      /\ t.rbuf_len \in Int
  BY SeqModNat DEF Good, Receives, Seqs, Data
<1>2. Sub(f.seq, t.rcv_nxt) \in Nat /\ Len(f.data) \in Nat /\ Len(t.rbuf) \in Nat
  BY <1>1, SeqTypes
<1>3. over \in Int
  BY <1>1, <1>2
<1>4. FittingPart(t, f) = IF over > 0 THEN [f EXCEPT !.data = TakeN(@, k)] ELSE f
  BY DEF FittingPart
<1> HIDE DEF over
<1>5. k \in Int
  BY <1>2, <1>3 DEF Most
<1> HIDE DEF k
<1>6. TakeN(f.data, k) \in Seq(Int)
  BY <1>1, <1>5, Taken
<1>7. Data([f EXCEPT !.data = TakeN(f.data, k)])
  BY <1>1, <1>6 DEF Data
<1> QED
  BY <1>4, <1>7

\* The next number expected is past n more
LEMMA Skipped ==
  ASSUME NEW t, Good(t), NEW n \in Int
  PROVE  Receiving(t, [t EXCEPT !.rcv_nxt = Add(@, n)])
<1> DEFINE u == [t EXCEPT !.rcv_nxt = Add(@, n)]
<1>1. DOMAIN t = Fields /\ Receives(t) /\ t.bad \subseteq Fallible
  BY DEF Good, Sends
<1>2. Add(t.rcv_nxt, n) \in Seqs
  <2>1. t.rcv_nxt \in Int
    BY <1>1, SeqModNat DEF Receives, Seqs
  <2> QED
    BY <2>1, SeqTypes
<1> DEFINE x == Add(t.rcv_nxt, n)
<1>3. u = [t EXCEPT !.rcv_nxt = x] /\ x \in Seqs
  BY <1>2
<1> HIDE DEF x, u
<1>4. Receives(u)
  BY <1>1, <1>3 DEF Receives, Fields
<1>5. Receiving(t, u)
  BY <1>1, <1>3, <1>4 DEF Receiving, SameSender, Fields
<1> QED
  BY <1>5 DEF u

LEMMA CallbackAdded ==
  ASSUME NEW t, Good(t), NEW c
  PROVE  Receiving(t, [t EXCEPT !.cb = c])
<1> DEFINE u == [t EXCEPT !.cb = c]
<1>1. DOMAIN t = Fields /\ Receives(t) /\ t.bad \subseteq Fallible
  BY DEF Good, Sends
<1>2. Receives(u)
  BY <1>1 DEF Receives, Fields
<1> QED
  BY <1>1, <1>2 DEF Receiving, SameSender, Fields

LEMMA DataProcessed ==
  ASSUME NEW t, Good(t), NEW seg, Data(seg)
  PROVE  Receiving(t, ProcessData(t, seg).t)
<1> DEFINE fin == seg.flags = "fin"
           Skip(u, f, n) == IF f.seq = u.rcv_nxt THEN [u EXCEPT !.rcv_nxt = Add(@, n)] ELSE u
           Written1(u, f) == Recover(ConsumeWrite(WriteOffset(u, 0, f.data), Len(f.data)))
           Store(u, f, n) ==
             IF fin THEN Skip(u, f, 1)
             ELSE IF n = 0 \/ seg.flags = "ctl" \/ (~u.fin_ack /\ u.shutdown # "none")
             THEN Skip(u, f, n)
             ELSE IF f.seq = u.rcv_nxt
             THEN [Written1(u, f) EXCEPT !.cb = @ \cup {"readable"}]
             ELSE Save(WriteOffset(u, Sub(f.seq, u.rcv_nxt), f.data), f.seq, n)
           u == IF fin /\ seg.seq = t.rcv_nxt /\ seg.data = <<>>
                THEN [t EXCEPT !.rcv_nxt = Add(@, 1)] ELSE t
           f == FittingPart(u, FreshPart(u, seg))
<1>1. ProcessData(t, seg).t = Store(u, f, Len(f.data))
  BY DEF ProcessData
<1>2. Receiving(t, u) /\ Good(u)
  <2>1. Receiving(t, u)
    <3>1. Receiving(t, [t EXCEPT !.rcv_nxt = Add(@, 1)]) /\ Receiving(t, t)
      BY Skipped, ReceivingSelf
    <3> QED
      BY <3>1
  <2> HIDE DEF u
  <2> QED
    BY <2>1, ReceivingGood
<1> HIDE DEF u
<1>3. Data(f)
  BY <1>2, FreshData, FittingData
<1> HIDE DEF f
<1>4. f.seq \in Int /\ f.data \in Seq(Int) /\ Len(f.data) \in Nat /\ Len(f.data) \in Int
  BY <1>3 DEF Data
<1>5. \A n \in Int : Receiving(u, Skip(u, f, n))
  BY <1>2, Skipped, ReceivingSelf
<1>6. Receiving(u, Written1(u, f))
  <2> DEFINE w == WriteOffset(u, 0, f.data)
             c == ConsumeWrite(w, Len(f.data))
  <2>1. Receiving(u, w)
    BY <1>2, <1>4, OffsetWritten
  <2> HIDE DEF w
  <2>2. Receiving(w, c)
    BY <1>2, <1>4, <2>1, ReceivingGood, WriteConsumed
  <2> HIDE DEF c
  <2>3. Receiving(u, c)
    BY <2>1, <2>2, ReceivingTrans
  <2>4. Receiving(c, Recover(c))
    BY <1>2, <2>3, ReceivingGood, Recovered
  <2> QED
    BY <2>3, <2>4, ReceivingTrans DEF c, w
<1>7. Receiving(u, [Written1(u, f) EXCEPT !.cb = @ \cup {"readable"}])
  <2> DEFINE v == Written1(u, f)
  <2>1. Receiving(u, v)
    BY <1>6
  <2> HIDE DEF v
  <2>2. Receiving(v, [v EXCEPT !.cb = v.cb \cup {"readable"}])
    BY <1>2, <2>1, ReceivingGood, CallbackAdded
  <2>3. Receiving(u, [v EXCEPT !.cb = v.cb \cup {"readable"}])
    BY <2>1, <2>2, ReceivingTrans
  <2> QED
    BY <2>3 DEF v
<1>8. Receiving(u, Save(WriteOffset(u, Sub(f.seq, u.rcv_nxt), f.data), f.seq, Len(f.data)))
  <2>1. Sub(f.seq, u.rcv_nxt) \in Int
    <3>1. u.rcv_nxt \in Int
      BY <1>2, SeqModNat DEF Good, Receives, Seqs
    <3>2. Sub(f.seq, u.rcv_nxt) \in Nat
      BY <3>1, <1>4, SeqTypes
    <3> QED
      BY <3>2
  <2> DEFINE w == WriteOffset(u, Sub(f.seq, u.rcv_nxt), f.data)
  <2>2. Receiving(u, w)
    BY <1>2, <1>4, <2>1, OffsetWritten
  <2> HIDE DEF w
  <2>3. Receiving(w, Save(w, f.seq, Len(f.data)))
    BY <1>2, <1>4, <2>2, ReceivingGood, SegmentSaved
  <2> QED
    BY <2>2, <2>3, ReceivingTrans DEF w
<1> HIDE DEF Skip, Written1
<1>9. Receiving(u, Store(u, f, Len(f.data)))
  BY <1>4, <1>5, <1>7, <1>8
<1> HIDE DEF Store
<1> QED
  BY <1>1, <1>2, <1>9, ReceivingTrans

-----------------------------------------------------------------------------
\* A packet arrives

SideFields == {"wen", "cb", "idle", "down", "shutdown", "shutdown_reads", "err", "t_ack"}

\* Only what the users and the timers see changed
Aside(t, u) == DOMAIN u = Fields /\ \A x \in Fields \ SideFields : u[x] = t[x]

LEMMA AsideReceiving ==
  ASSUME NEW t, Good(t), NEW u, Aside(t, u)
  PROVE  Receiving(t, u)
<1>1. DOMAIN t = Fields /\ Receives(t) /\ t.bad \subseteq Fallible
  BY DEF Good, Sends
<1>2. /\ u.rcv_nxt = t.rcv_nxt /\ u.rcv_wnd = t.rcv_wnd /\ u.rbuf_len = t.rbuf_len
      /\ u.rwnd_scale = t.rwnd_scale /\ u.swnd_scale = t.swnd_scale /\ u.rbuf = t.rbuf
      /\ u.ooo = t.ooo /\ u.rlist = t.rlist /\ u.opts = t.opts
      /\ u.state = t.state /\ u.snd_una = t.snd_una /\ u.snd_nxt = t.snd_nxt
      /\ u.sbuf = t.sbuf /\ u.slist = t.slist /\ u.rto = t.rto /\ u.bad = t.bad
      /\ u.out = t.out /\ u.fin_ack = t.fin_ack
      /\ u.snd_wnd = t.snd_wnd /\ u.mss = t.mss /\ u.msslevel = t.msslevel /\ u.cwnd = t.cwnd
      /\ u.ssthresh = t.ssthresh /\ u.dup_acks = t.dup_acks
  BY DEF Aside, Fields, SideFields
<1>3. Receives(u)
  BY <1>1, <1>2, ReceivesSame
<1> QED
  BY <1>1, <1>2, <1>3 DEF Receiving, SameSender, Aside

LEMMA AsideSound ==
  ASSUME NEW t, Sound(t), NEW u, Aside(t, u)
  PROVE  Sound(u) /\ u.state = t.state /\ u.fin_ack = t.fin_ack
<1>1. Good(t)
  BY DEF Sound
<1>2. Receiving(t, u)
  BY <1>1, AsideReceiving
<1> QED
  BY <1>1, <1>2, ReceivingGood, SenderSound DEF Receiving, SameSender

LEMMA AsideGood ==
  ASSUME NEW t, Good(t), NEW u, Aside(t, u)
  PROVE  Good(u) /\ u.state = t.state /\ u.fin_ack = t.fin_ack
<1>1. Receiving(t, u)
  BY AsideReceiving
<1> QED
  BY <1>1, ReceivingGood DEF Receiving, SameSender

LEMMA FinAckedBoolean ==
  ASSUME NEW t, NEW seg
  PROVE  ProcessAck(t, seg).fin \in BOOLEAN
<1>1. ValuableAck(t, seg).fin \in BOOLEAN
  BY DEF ValuableAck, FinAcked
<1>2. DuplicateAck(t, seg).fin \in BOOLEAN
  BY DEF DuplicateAck
<1> DEFINE other == [ok |-> TRUE, fin |-> FALSE, t |-> t]
<1>3. ProcessAck(t, seg) = ValuableAck(t, seg) \/ ProcessAck(t, seg) = DuplicateAck(t, seg)
      \/ ProcessAck(t, seg) = other
  BY DEF ProcessAck
<1>4. other.fin \in BOOLEAN
  OBVIOUS
<1> HIDE DEF other
<1> QED
  BY <1>1, <1>2, <1>3, <1>4, Zenon

LEMMA RestProcessed ==
  ASSUME NEW t, Sound(t), NEW seg, PktOk(seg), NEW finAcked \in BOOLEAN
  PROVE  Sound(ProcessRest(t, seg, finAcked))
<1> DEFINE opened == IF t.state = "SYN_RECEIVED" /\ seg.flags # "ctl"
                     THEN set_state_established(t) ELSE t
           f == ProcessFin(opened, seg, finAcked)
           w == IF f.wen /\ Len(f.sbuf) < (SBufLen + f.rbuf_len) \div 2
                THEN [f EXCEPT !.wen = FALSE, !.cb = @ \cup {"writable"}] ELSE f
           d == ProcessData(w, seg)
           r == attempt_send(d.t, d.ack)
<1>1. Sound(opened)
  <2>1. t.state = "SYN_RECEIVED" => Sound(set_state_established(t))
    BY EstablishedSet
  <2> QED
    BY <2>1
<1>2. ProcessRest(t, seg, finAcked) = r
  BY DEF ProcessRest
<1> HIDE DEF opened
<1>3. Sound(f)
  BY <1>1, FinSound
<1> HIDE DEF f
<1>4. Sound(w)
  <2> DEFINE v == [f EXCEPT !.wen = FALSE, !.cb = @ \cup {"writable"}]
  <2>1. DOMAIN f = Fields
    BY <1>3 DEF Sound, Good
  <2>2. Aside(f, v)
    BY <2>1 DEF Aside, Fields, SideFields
  <2>3. w = f \/ w = v
    OBVIOUS
  <2> HIDE DEF v, w
  <2>4. Sound(v)
    BY <1>3, <2>2, AsideSound
  <2> QED
    BY <1>3, <2>3, <2>4
<1> HIDE DEF w
<1>5. Receiving(w, d.t)
  <2>1. Data(seg)
    BY DEF Data, PktOk
  <2> QED
    BY <1>4, <2>1, DataProcessed DEF Sound
<1> HIDE DEF d
<1>6. Sound(d.t)
  <2>1. Good(w)
    BY <1>4 DEF Sound
  <2>2. Good(d.t) /\ SameSender(w, d.t)
    BY <1>5, <2>1, ReceivingGood
  <2> QED
    BY <1>4, <2>2, SenderSound
<1>7. Good(r) /\ Stays(d.t, r)
  BY <1>6, AttemptSendGood DEF Sound
<1> HIDE DEF r
<1> QED
  BY <1>2, <1>6, <1>7, StaysSound

LEMMA PacketProcessed ==
  ASSUME NEW t, Sound(t), NEW seg, PktOk(seg), NEW e \in Ends
  PROVE  Sound(process(t, seg, e))
<1> DEFINE closed == t.state = "CLOSED" \/ (has_sent_fin(t.state) /\ seg.data # <<>>)
           c == ProcessControl(t, seg, e)
           a == ProcessAck(c, seg)
           r == process(t, seg, e)
<1>1. \A err, source : Sound(closedown(t, err, source))
  BY ClosedDown DEF Sound
<1>2. CASE closed
  <2>1. r = IF seg.flags = "rst" THEN t ELSE closedown(t, "none", "LOCAL")
    BY <1>2 DEF process
  <2> HIDE DEF r
  <2> QED
    BY <1>1, <2>1 DEF r
<1>3. CASE ~closed /\ seg.flags = "rst"
  <2>1. r = closedown(t, "ECONNRESET", "REMOTE")
    BY <1>3 DEF process
  <2> HIDE DEF r
  <2> QED
    BY <1>1, <2>1 DEF r
<1>4. CASE ~closed /\ seg.flags # "rst"
  <2>1. r = IF a.ok THEN ProcessRest(a.t, seg, a.fin)
            ELSE closedown(a.t, "ECONNABORTED", "LOCAL")
    BY <1>4 DEF process
  <2>2. Sound(c) /\ c.state # "CLOSED"
    BY <1>4, ControlProcessed
  <2> HIDE DEF c, r
  <2>3. Sound(a.t)
    BY <2>2, AckSound
  <2>4. a.fin \in BOOLEAN
    BY FinAckedBoolean
  <2> HIDE DEF a
  <2>5. Sound(ProcessRest(a.t, seg, a.fin))
    BY <2>3, <2>4, RestProcessed
  <2>6. Sound(closedown(a.t, "ECONNABORTED", "LOCAL"))
    BY <2>3, ClosedDown DEF Sound
  <2> QED
    BY <2>1, <2>5, <2>6 DEF r
<1> QED
  BY <1>2, <1>3, <1>4

-----------------------------------------------------------------------------
\* The invariant of the two sockets and the network

SocketsSound ==
    /\ DOMAIN tcp = Ends /\ \A e \in Ends : Sound(tcp[e])
    /\ \A m \in net : m.to \in Ends /\ PktOk(m.pkt)
    /\ wr \in [Ends -> Nat]

LEMMA NewSocketSound ==
  ASSUME NEW e, NEW finAck
  PROVE  Sound(NewSocket(e, finAck))
<1> DEFINE b == [state |-> "LISTEN", snd_una |-> 0, snd_nxt |-> 0, snd_wnd |-> 1,
       rcv_nxt |-> 0, rcv_wnd |-> DefRBufLen, rbuf_len |-> DefRBufLen,
       rwnd_scale |-> 0, swnd_scale |-> 0, sbuf |-> <<>>, slist |-> <<>>,
       rbuf |-> <<>>, ooo |-> [i \in {} |-> 0], rlist |-> <<>>, rto |-> FALSE,
       t_ack |-> FALSE, wen |-> FALSE, mss |-> MinMss, msslevel |-> 1,
       cwnd |-> 2 * MinMss, ssthresh |-> DefRBufLen, dup_acks |-> 0,
       recover |-> 0, shutdown |-> "none", shutdown_reads |-> FALSE,
       fin_ack |-> finAck, opts |-> <<FALSE, 0, FALSE>>, err |-> "none",
       bad |-> {}, out |-> {}, cb |-> {}, idle |-> FALSE, down |-> FALSE]
<1>1. NewSocket(e, finAck) = resize_receive_buffer(b, RBufLen)
  BY DEF NewSocket
<1>2. DOMAIN b = Fields
  BY DEF Fields
<1>3. /\ b.state = "LISTEN" /\ b.snd_una = 0 /\ b.snd_nxt = 0 /\ b.sbuf = <<>> /\ b.slist = <<>>
      /\ b.bad = {} /\ b.out = {} /\ b.rto = FALSE
  OBVIOUS
<1>4. /\ b.rcv_nxt = 0 /\ b.rcv_wnd = DefRBufLen /\ b.rbuf_len = DefRBufLen
      /\ b.rwnd_scale = 0 /\ b.swnd_scale = 0 /\ b.rbuf = <<>> /\ b.rlist = <<>>
      /\ b.ooo = [i \in {} |-> 0] /\ b.opts = <<FALSE, 0, FALSE>>
  OBVIOUS
<1>5. /\ b.snd_wnd = 1 /\ b.mss = MinMss /\ b.msslevel = 1 /\ b.cwnd = 2 * MinMss
      /\ b.ssthresh = DefRBufLen /\ b.dup_acks = 0
  OBVIOUS
<1> HIDE DEF b
<1>6. Receives(b)
  <2>1. Written([i \in {} |-> 0])
    BY DEF Written
  <2>2. 0 \in Seqs /\ DefRBufLen \in Int /\ <<FALSE, 0, FALSE>>[2] \in 0 .. 4
    BY SeqModNat, BuffersAssumption DEF Seqs
  <2>3. <<>> \in Seq(Int) /\ <<>> \in Seq([seq : Int, len : Nat])
    OBVIOUS
  <2> QED
    BY <1>4, <2>1, <2>2, <2>3 DEF Receives
<1>7. Paces(b)
  BY <1>3, <1>5, BuffersAssumption, SegmentsAssumption, SizesAssumption DEF Paces
<1>8. Sends(b)
  <2>1. 0 \in Seqs /\ Len(<<>>) = 0
    BY SeqModNat DEF Seqs
  <2>2. <<>> \in Seq(Int) /\ <<>> \in Seq(PlacedSegs(0, 0)) /\ 0 <= SBufLen
    BY SizesAssumption
  <2> QED
    BY <1>3, <2>1, <2>2 DEF Sends, Fallible
<1>9. Accounted(b)
  <2> DEFINE c == [i \in 0 .. 0 |-> 0]
  <2>1. CoverBy(<<>>, 0, 0, c, 0)
    BY CoverNone
  <2>2. c[0] = 0 /\ Len(<<>>) = 0
    OBVIOUS
  <2> HIDE DEF c
  <2>3. Sub(0, 0) = 0
    BY SmallRemainder, SeqModNat DEF Sub, Seqs
  <2>4. CoverBy(b.slist, b.snd_una, Len(b.sbuf), c, 0) /\ Sub(b.snd_nxt, b.snd_una) = c[0]
    BY <1>3, <2>1, <2>2, <2>3
  <2> QED
    BY <2>4 DEF Accounted
<1>10. Good(b)
  BY <1>2, <1>3, <1>6, <1>7, <1>8, <1>9 DEF Good, States
<1>11. Sound(b)
  BY <1>3, <1>10 DEF Sound, Fresh, Open, NoFin
<1>12. Sound(resize_receive_buffer(b, RBufLen))
  BY <1>10, <1>11, Resized, SenderSound
<1> QED
  BY <1>1, <1>12

\* What is forgotten of a closed socket
LEMMA Rested ==
  ASSUME NEW t, Sound(t)
  PROVE  Sound(Rest(t)) /\ Rest(t).out = t.out
<1> DEFINE l == Keep(t.slist, {t.slist[i] : i \in unsent(t)})
           u == [t EXCEPT !.slist = l, !.rto = FALSE, !.t_ack = FALSE, !.wen = FALSE, !.cwnd = 0,
                          !.ssthresh = 0, !.dup_acks = 0, !.recover = 0, !.snd_wnd = 0,
                          !.rlist = <<>>, !.ooo = [i \in {} |-> 0], !.rbuf = <<>>]
<1>1. CASE t.state # "CLOSED"
  BY <1>1 DEF Rest
<1>2. CASE t.state = "CLOSED"
  <2>1. Rest(t) = u
    BY <1>2 DEF Rest
  <2>2. DOMAIN t = Fields /\ Receives(t) /\ Paces(t) /\ Sends(t) /\ \A p \in t.out : PktOk(p)
    BY DEF Sound, Good
  <2>3. l \in Seq(PlacedSegs(t.snd_una, Len(t.sbuf)))
    <3>1. t.slist \in Seq(PlacedSegs(t.snd_una, Len(t.sbuf)))
      BY <2>2 DEF Sends
    <3> DEFINE S == {t.slist[i] : i \in unsent(t)}
    <3> HIDE DEF S
    <3>2. Keep(t.slist, S) \in Seq(PlacedSegs(t.snd_una, Len(t.sbuf)))
      BY <3>1, KeepElements
    <3> QED
      BY <3>2 DEF S
  <2> HIDE DEF l
  <2>4. /\ DOMAIN u = Fields /\ u.state = "CLOSED" /\ u.out = t.out
        /\ u.snd_una = t.snd_una /\ u.snd_nxt = t.snd_nxt /\ u.sbuf = t.sbuf /\ u.slist = l
        /\ u.bad = t.bad
    BY <1>2, <2>2 DEF Fields
  <2>5. /\ u.rcv_nxt = t.rcv_nxt /\ u.rcv_wnd = t.rcv_wnd /\ u.rbuf_len = t.rbuf_len
        /\ u.rwnd_scale = t.rwnd_scale /\ u.swnd_scale = t.swnd_scale /\ u.opts = t.opts
        /\ u.rlist = <<>> /\ u.ooo = [i \in {} |-> 0] /\ u.rbuf = <<>>
    BY <2>2 DEF Fields
  <2>6. /\ u.mss = t.mss /\ u.msslevel = t.msslevel /\ u.cwnd = 0 /\ u.ssthresh = 0
        /\ u.dup_acks = 0 /\ u.snd_wnd = 0
    BY <2>2 DEF Fields
  <2> HIDE DEF u
  <2>7. Receives(u)
    <3>1. Written([i \in {} |-> 0])
      BY DEF Written
    <3>2. <<>> \in Seq(Int) /\ <<>> \in Seq([seq : Int, len : Nat])
      OBVIOUS
    <3> QED
      BY <2>2, <2>5, <3>1, <3>2 DEF Receives
  <2>8. Paces(u)
    BY <2>2, <2>4, <2>6 DEF Paces
  <2>9. Sends(u)
    BY <2>2, <2>3, <2>4 DEF Sends
  <2>10. Accounted(u)
    BY <2>4 DEF Accounted
  <2>11. Good(u)
    BY <2>2, <2>4, <2>7, <2>8, <2>9, <2>10 DEF Good, States
  <2> QED
    BY <2>1, <2>4, <2>11, ClosedSound
<1> QED
  BY <1>1, <1>2

LEMMA OnWireOk ==
  ASSUME NEW p, PktOk(p)
  PROVE  PktOk(OnWire(p))
<1> DEFINE q == [p EXCEPT !.seq = 0, !.ack = 0, !.wnd = 0]
<1>1. DOMAIN p = {"seq", "ack", "flags", "wnd", "data", "opts"}
  BY DEF PktOk
<1>2. DOMAIN q = DOMAIN p /\ q.seq = 0 /\ q.ack = 0 /\ q.wnd = 0 /\ q.data = p.data /\ q.opts = p.opts
  BY <1>1
<1> HIDE DEF q
<1>3. 0 \in Seqs
  BY SeqModNat DEF Seqs
<1>4. PktOk(q)
  BY <1>1, <1>2, <1>3 DEF PktOk
<1> QED
  BY <1>4 DEF OnWire, q

\* The end of a call
LEMMA Left ==
  ASSUME SocketsSound, NEW e \in Ends, NEW t, Sound(t), NEW rest, rest \subseteq net, Leave(e, t, rest)
  PROVE  /\ DOMAIN tcp' = Ends /\ \A d \in Ends : Sound(tcp'[d])
         /\ \A m \in net' : m.to \in Ends /\ PktOk(m.pkt)
<1> DEFINE w == Rest(t)
           v == [w EXCEPT !.out = {}, !.cb = {}, !.idle = FALSE, !.down = FALSE]
<1>1. Sound(w) /\ w.out = t.out
  BY Rested
<1>2. tcp' = [tcp EXCEPT ![e] = v]
  BY DEF Leave
<1> HIDE DEF w
<1>3. Sound(v)
  <2> DEFINE o == [w EXCEPT !.out = {}]
  <2>1. DOMAIN w = Fields /\ Receives(w) /\ Paces(w) /\ w.bad \subseteq Fallible
    BY <1>1 DEF Sound, Good, Sends
  <2>2. DOMAIN o = Fields /\ SameSender(w, o) /\ o.out = {} /\ o.bad = w.bad
    BY <2>1 DEF SameSender, Fields
  <2>3. Receives(o)
    <3>1. /\ o.rcv_nxt = w.rcv_nxt /\ o.rcv_wnd = w.rcv_wnd /\ o.rbuf_len = w.rbuf_len
          /\ o.rwnd_scale = w.rwnd_scale /\ o.swnd_scale = w.swnd_scale /\ o.rbuf = w.rbuf
          /\ o.ooo = w.ooo /\ o.rlist = w.rlist /\ o.opts = w.opts
      BY <2>1 DEF Fields
    <3> HIDE DEF o
    <3> QED
      BY <3>1, <2>1, ReceivesSame
  <2>4. Paces(o)
    <3>1. /\ o.state = w.state /\ o.snd_wnd = w.snd_wnd /\ o.mss = w.mss
          /\ o.msslevel = w.msslevel /\ o.cwnd = w.cwnd /\ o.ssthresh = w.ssthresh
          /\ o.dup_acks = w.dup_acks
      BY <2>1 DEF Fields
    <3> HIDE DEF o
    <3> QED
      BY <3>1, <2>1, PacesSame
  <2>5. Aside(o, v)
    BY <2>1 DEF Aside, Fields, SideFields
  <2> HIDE DEF o, v
  <2>6. Good(o)
    BY <1>1, <2>1, <2>2, <2>3, <2>4, Rebuilt DEF Sound
  <2>7. Sound(o)
    BY <1>1, <2>2, <2>6, SenderSound
  <2> QED
    BY <2>5, <2>7, AsideSound
<1> HIDE DEF v
<1>4. DOMAIN tcp' = Ends /\ \A d \in Ends : Sound(tcp'[d])
  BY <1>2, <1>3 DEF SocketsSound
<1>5. \A m \in net' : m.to \in Ends /\ PktOk(m.pkt)
  <2> TAKE m \in net'
  <2>1. m \in rest \/ \E p \in t.out : m = [to |-> Peer(e), pkt |-> OnWire(p)]
    BY DEF Leave
  <2>2. CASE m \in rest
    BY <2>2 DEF SocketsSound
  <2>3. ASSUME NEW p \in t.out, m = [to |-> Peer(e), pkt |-> OnWire(p)]
        PROVE  m.to \in Ends /\ PktOk(m.pkt)
    <3>1. PktOk(p)
      BY DEF Sound, Good
    <3>2. m.to = Peer(e) /\ m.pkt = OnWire(p)
      BY <2>3
    <3> QED
      BY <3>1, <3>2, OnWireOk DEF Peer, Ends
  <2> QED
    BY <2>1, <2>2, <2>3
<1> QED
  BY <1>4, <1>5

-----------------------------------------------------------------------------
\* The calls

LEMMA Entered ==
  ASSUME SocketsSound, NEW e \in Ends, NEW idle, NEW down
  PROVE  LET t == Enter(e, idle, down) IN
         /\ Sound(t) /\ Good(t) /\ DOMAIN t = Fields /\ t.state = tcp[e].state /\ t.sbuf = tcp[e].sbuf
         /\ t.slist = tcp[e].slist /\ t.fin_ack = tcp[e].fin_ack
<1> DEFINE t == Enter(e, idle, down)
<1>1. Sound(tcp[e]) /\ DOMAIN tcp[e] = Fields
  BY DEF SocketsSound, Sound, Good
<1>2. Aside(tcp[e], t)
  BY <1>1 DEF Enter, Aside, Fields, SideFields
<1>3. t.sbuf = tcp[e].sbuf /\ t.slist = tcp[e].slist /\ DOMAIN t = Fields
  BY <1>1 DEF Enter, Fields
<1> HIDE DEF t
<1>4. Sound(t) /\ t.state = tcp[e].state /\ t.fin_ack = tcp[e].fin_ack
  BY <1>1, <1>2, AsideSound
<1>5. Good(t)
  BY <1>4 DEF Sound
<1> QED
  BY <1>3, <1>4, <1>5 DEF t

LEMMA Sent ==
  ASSUME NEW t, Sound(t), NEW flags
  PROVE  Sound(attempt_send(t, flags)) /\ attempt_send(t, flags).state = t.state
<1>1. Good(attempt_send(t, flags)) /\ Stays(t, attempt_send(t, flags))
  BY AttemptSendGood DEF Sound
<1> QED
  BY <1>1, StaysSound DEF Stays

LEMMA ConnectSound ==
  ASSUME SocketsSound, NEW e \in Ends, NEW idle, NEW down, connect(e, idle, down)
  PROVE  SocketsSound'
<1> DEFINE t == Enter(e, idle, down)
           s == set_state(t, "SYN_SENT")
           q == queue_connect_message(s, e)
           a == attempt_send(q, "sfNone")
<1>1. /\ Sound(t) /\ Good(t) /\ t.state = "LISTEN"
  BY Entered DEF connect
<1>2. Leave(e, a, net) /\ UNCHANGED wr
  BY DEF connect
<1> HIDE DEF t
<1>3. <<t.state, "SYN_SENT">> \in ValidTransitions /\ t.state \in PreFin /\ t.state # "CLOSED"
      /\ "SYN_SENT" \in States
  BY <1>1 DEF ValidTransitions, PreFin, States
<1>4. Good(s) /\ s.state = "SYN_SENT" /\ SameSending(t, s)
  BY <1>1, <1>3, StateSet
<1> HIDE DEF s
<1>5. s.slist = <<>> /\ s.sbuf = <<>>
  BY <1>1, <1>4 DEF SameSending, Sound, Fresh
<1>6. Sound(q)
  BY <1>4, <1>5, ConnectQueued
<1> HIDE DEF q
<1>7. Sound(a)
  BY <1>6, Sent
<1> HIDE DEF a
<1>8. /\ DOMAIN tcp' = Ends /\ \A d \in Ends : Sound(tcp'[d])
      /\ \A m \in net' : m.to \in Ends /\ PktOk(m.pkt)
  BY <1>2, <1>7, Left
<1> QED
  BY <1>2, <1>8 DEF SocketsSound

\* The call remembers that the buffer was full
LEMMA Waiting ==
  ASSUME NEW t, Sound(t), NEW w
  PROVE  Sound([t EXCEPT !.wen = w])
<1>1. DOMAIN t = Fields
  BY DEF Sound, Good
<1>2. Aside(t, [t EXCEPT !.wen = w])
  BY <1>1 DEF Aside, Fields, SideFields
<1> QED
  BY <1>2, AsideSound

LEMMA SendSound ==
  ASSUME SocketsSound, NEW e \in Ends, NEW idle, NEW down, send(e, idle, down)
  PROVE  SocketsSound'
<1> DEFINE t == Enter(e, idle, down)
           want == Least(ChunkLen, MaxBytes[e] - wr[e])
           n == Least(want, SBufLen - Len(t.sbuf))
           d == [i \in 1 .. n |-> wr[e] + i]
           q == queue(t, d, "none")
           u == attempt_send(q, "sfNone")
           full == [t EXCEPT !.wen = TRUE]
           part == [u EXCEPT !.wen = @ \/ n < want]
<1>1. /\ Sound(t) /\ Good(t) /\ t.state = "ESTABLISHED"
  BY Entered DEF send
<1>2. \/ n = 0 /\ Leave(e, full, net) /\ UNCHANGED wr
      \/ n # 0 /\ Leave(e, part, net) /\ wr' = [wr EXCEPT ![e] = @ + n]
  BY DEF send
<1>3. want \in Nat
  <2>1. ChunkLen \in Nat /\ MaxBytes[e] \in Nat /\ wr[e] \in Nat /\ wr[e] < MaxBytes[e]
    BY CallsAssumption DEF send, SocketsSound
  <2> QED
    BY <2>1 DEF Least
<1> HIDE DEF want, t
<1>4. n \in Nat /\ n <= SBufLen - Len(t.sbuf)
  <2>1. t.sbuf \in Seq(Int) /\ Len(t.sbuf) <= SBufLen /\ SBufLen \in Nat
    BY <1>1, SizesAssumption DEF Good, Sends
  <2>2. SBufLen - Len(t.sbuf) \in Nat
    BY <2>1
  <2> QED
    BY <1>3, <2>2 DEF Least
<1> HIDE DEF n
<1>5. CASE n = 0
  <2>1. Sound(full)
    BY <1>1, Waiting
  <2> HIDE DEF full
  <2>2. /\ DOMAIN tcp' = Ends /\ \A x \in Ends : Sound(tcp'[x])
        /\ \A m \in net' : m.to \in Ends /\ PktOk(m.pkt)
    BY <1>2, <1>5, <2>1, Left
  <2>3. wr' = wr
    BY <1>2, <1>5
  <2> QED
    BY <2>2, <2>3 DEF SocketsSound
<1>6. CASE n # 0
  <2>1. d \in Seq(Int) /\ Len(d) = n
    <3>1. wr[e] \in Int
      BY DEF SocketsSound
    <3>2. d \in [1 .. n -> Int]
      BY <3>1, <1>4
    <3> HIDE DEF d
    <3> QED
      BY <3>2, <1>4
  <2> HIDE DEF d
  <2>2. MayQueue(Len(d), "none")
    BY <1>4, <1>6, <2>1 DEF MayQueue, SegFlags
  <2>3. t.state # "CLOSED" /\ NoFin(t.slist) /\ "none" # "fin" /\ Len(d) <= SBufLen - Len(t.sbuf)
    BY <1>1, <1>4, <2>1 DEF Sound, Open, PreFin
  <2>4. Good(q) /\ q.state = t.state /\ NoFin(q.slist)
    <3>1. Len(d) > 0 => t.state # "CLOSED" /\ NoFin(t.slist)
      BY <2>3
    <3> QED
      BY <1>1, <2>1, <2>2, <2>3, <3>1, QueueGood
  <2> HIDE DEF q
  <2>5. Sound(q)
    BY <1>1, <2>4 DEF Sound, Fresh, Open
  <2>6. Sound(u)
    BY <2>5, Sent
  <2> HIDE DEF u
  <2>7. Sound(part)
    <3> DEFINE w == u.wen \/ n < want
    <3>1. part = [u EXCEPT !.wen = w]
      OBVIOUS
    <3> HIDE DEF w
    <3> QED
      BY <2>6, <3>1, Waiting
  <2> HIDE DEF part
  <2>8. /\ DOMAIN tcp' = Ends /\ \A x \in Ends : Sound(tcp'[x])
        /\ \A m \in net' : m.to \in Ends /\ PktOk(m.pkt)
    BY <1>2, <1>6, <2>7, Left
  <2>9. wr' \in [Ends -> Nat]
    BY <1>2, <1>4, <1>6 DEF SocketsSound
  <2> QED
    BY <2>8, <2>9 DEF SocketsSound
<1> QED
  BY <1>5, <1>6

LEMMA RecvSound ==
  ASSUME SocketsSound, NEW e \in Ends, NEW len \in ReadLens, NEW idle, NEW down,
         recv(e, len, idle, down)
  PROVE  SocketsSound'
<1> DEFINE t == Enter(e, idle, down)
           got == TakeN(t.rbuf, len)
           space == t.rbuf_len - (Len(t.rbuf) - Len(got))
           open == space - t.rcv_wnd >= Least(t.rbuf_len \div 2, t.mss)
           left == DropN(t.rbuf, Len(got))
           wnd == IF open THEN space ELSE t.rcv_wnd
           u == [t EXCEPT !.rbuf = left, !.rcv_wnd = wnd]
           r == IF open /\ t.rcv_wnd = 0 THEN attempt_send(u, "sfImmediateAck") ELSE u
<1>1. Sound(t) /\ Good(t)
  BY Entered
<1>2. Leave(e, r, net) /\ UNCHANGED wr
  BY DEF recv
<1> HIDE DEF t
<1>3. DOMAIN t = Fields /\ Receives(t) /\ t.bad \subseteq Fallible
  BY <1>1 DEF Good, Sends
<1>4. got \in Seq(Int) /\ Len(got) \in Nat
  <2>1. len \in Int
    BY CallsAssumption
  <2>2. got \in Seq(Int)
    BY <1>3, <2>1, Taken DEF Receives
  <2> HIDE DEF got
  <2> QED
    BY <2>2
<1> HIDE DEF got
<1>5. left \in Seq(Int)
  BY <1>3, <1>4, Dropped DEF Receives
<1>6. wnd \in Int
  <2>1. t.rbuf \in Seq(Int) /\ t.rbuf_len \in Int /\ t.rcv_wnd \in Int
    BY <1>3 DEF Receives
  <2>2. space \in Int
    BY <2>1, <1>4
  <2> HIDE DEF space, open
  <2> QED
    BY <2>1, <2>2
<1> HIDE DEF left, wnd, open
<1>7. Receives(u)
  BY <1>3, <1>5, <1>6 DEF Receives, Fields
<1>8. Receiving(t, u)
  BY <1>3, <1>7 DEF Receiving, SameSender, Fields
<1> HIDE DEF u
<1>9. Sound(u)
  BY <1>1, <1>8, ReceivingGood, SenderSound
<1>10. Sound(r)
  BY <1>9, Sent
<1> HIDE DEF r
<1>11. /\ DOMAIN tcp' = Ends /\ \A d \in Ends : Sound(tcp'[d])
       /\ \A m \in net' : m.to \in Ends /\ PktOk(m.pkt)
  BY <1>2, <1>10, Left
<1> QED
  BY <1>2, <1>11 DEF SocketsSound

LEMMA ShutdownSound ==
  ASSUME SocketsSound, NEW e \in Ends, NEW how, NEW idle, NEW down, shutdown(e, how, idle, down)
  PROVE  SocketsSound'
<1> DEFINE t0 == Enter(e, idle, down)
           t == IF how \in {"RD", "RDWR"} THEN [t0 EXCEPT !.shutdown_reads = TRUE] ELSE t0
           f == attempt_send(queue_fin_message(t), "sfFin")
           g == [t0 EXCEPT !.shutdown = IF @ = "none" THEN "graceful" ELSE @]
           r == CASE ~t0.fin_ack -> g
                  [] t0.fin_ack /\ how = "RD" -> t
                  [] t0.fin_ack /\ how # "RD" /\ t.state \in {"LISTEN", "SYN_SENT"} ->
                        set_state_closed(t, "none")
                  [] t0.fin_ack /\ how # "RD" /\ t.state \in {"SYN_RECEIVED", "ESTABLISHED"} ->
                        IF t.state = "ESTABLISHED" /\ t.rbuf # <<>>
                        THEN closedown(t, "ECONNABORTED", "LOCAL")
                        ELSE set_state(f, "FIN_WAIT_1")
                  [] t0.fin_ack /\ how # "RD" /\ t.state = "CLOSE_WAIT" -> set_state(f, "LAST_ACK")
                  [] OTHER -> t
<1>1. Sound(t0) /\ Good(t0) /\ DOMAIN t0 = Fields
  BY Entered
<1>2. Leave(e, r, net) /\ UNCHANGED wr
  BY DEF shutdown
<1> HIDE DEF t0
<1>3. Sound(g)
  <2> DEFINE v == IF t0.shutdown = "none" THEN "graceful" ELSE t0.shutdown
  <2>1. g = [t0 EXCEPT !.shutdown = v]
    OBVIOUS
  <2> HIDE DEF v
  <2>2. Aside(t0, g)
    BY <1>1, <2>1 DEF Aside, Fields, SideFields
  <2> HIDE DEF g
  <2> QED
    BY <1>1, <2>2, AsideSound
<1>4. Sound(t) /\ t.fin_ack = t0.fin_ack /\ t.state = t0.state
  <2> DEFINE v == [t0 EXCEPT !.shutdown_reads = TRUE]
  <2>1. Aside(t0, v)
    BY <1>1 DEF Aside, Fields, SideFields
  <2>2. t = t0 \/ t = v
    OBVIOUS
  <2> HIDE DEF v, t
  <2>3. Sound(v) /\ v.fin_ack = t0.fin_ack /\ v.state = t0.state
    BY <1>1, <2>1, AsideSound
  <2> QED
    BY <1>1, <2>2, <2>3
<1> HIDE DEF t, g
<1>5. Good(t)
  BY <1>4 DEF Sound
<1>6. ASSUME t0.fin_ack PROVE Good(f) /\ f.state = t.state
  <2>1. Good(queue_fin_message(t)) /\ queue_fin_message(t).state = t.state
    BY <1>4, <1>5, <1>6, FinQueued
  <2> QED
    BY <2>1, AttemptSendGood DEF Stays
<1> HIDE DEF f
<1>7. Sound(closedown(t, "ECONNABORTED", "LOCAL"))
  BY <1>5, ClosedDown
<1>8. Sound(r)
  <2>1. CASE ~t0.fin_ack
    <3>1. r = g
      BY <2>1
    <3> QED
      BY <3>1, <1>3
  <2>2. CASE t0.fin_ack /\ how = "RD"
    <3>1. r = t
      BY <2>2
    <3> QED
      BY <3>1, <1>4
  <2>3. CASE t0.fin_ack /\ how # "RD" /\ t.state \in {"LISTEN", "SYN_SENT"}
    <3>1. r = set_state_closed(t, "none")
      BY <2>3
    <3> HIDE DEF r
    <3>2. Sound(set_state_closed(t, "none"))
      BY <1>5, <2>3, ClosedSet
    <3> QED
      BY <3>1, <3>2
  <2>4. CASE t0.fin_ack /\ how # "RD" /\ t.state \in {"SYN_RECEIVED", "ESTABLISHED"}
    <3>1. r = IF t.state = "ESTABLISHED" /\ t.rbuf # <<>>
              THEN closedown(t, "ECONNABORTED", "LOCAL")
              ELSE set_state(f, "FIN_WAIT_1")
      BY <2>4
    <3> HIDE DEF r
    <3>2. <<f.state, "FIN_WAIT_1">> \in ValidTransitions /\ f.state # "CLOSED"
          /\ "FIN_WAIT_1" \in States \ PreFin
      BY <1>6, <2>4 DEF ValidTransitions, States, PreFin
    <3>3. Sound(set_state(f, "FIN_WAIT_1"))
      BY <1>6, <2>4, <3>2, StateAfterFin
    <3> QED
      BY <3>1, <3>3, <1>7
  <2>5. CASE t0.fin_ack /\ how # "RD" /\ t.state = "CLOSE_WAIT"
    <3>1. r = set_state(f, "LAST_ACK")
      BY <2>5
    <3> HIDE DEF r
    <3>2. <<f.state, "LAST_ACK">> \in ValidTransitions /\ f.state # "CLOSED"
          /\ "LAST_ACK" \in States \ PreFin
      BY <1>6, <2>5 DEF ValidTransitions, States, PreFin
    <3>3. Sound(set_state(f, "LAST_ACK"))
      BY <1>6, <2>5, <3>2, StateAfterFin
    <3> QED
      BY <3>1, <3>3
  <2>6. CASE /\ t0.fin_ack /\ how # "RD"
             /\ t.state \notin {"LISTEN", "SYN_SENT", "SYN_RECEIVED", "ESTABLISHED", "CLOSE_WAIT"}
    <3>1. r = t
      BY <2>6
    <3> QED
      BY <3>1, <1>4
  <2> HIDE DEF r
  <2> QED
    BY <2>1, <2>2, <2>3, <2>4, <2>5, <2>6
<1> HIDE DEF r
<1>9. /\ DOMAIN tcp' = Ends /\ \A d \in Ends : Sound(tcp'[d])
      /\ \A m \in net' : m.to \in Ends /\ PktOk(m.pkt)
  BY <1>2, <1>8, Left
<1> QED
  BY <1>2, <1>9 DEF SocketsSound

LEMMA CloseSound ==
  ASSUME SocketsSound, NEW e \in Ends, NEW idle, NEW down, close(e, idle, down)
  PROVE  SocketsSound'
<1> DEFINE r == closedown(Enter(e, idle, down), "ECONNABORTED", "LOCAL")
<1>1. Leave(e, r, net) /\ UNCHANGED wr
  BY DEF close
<1>2. Sound(r)
  BY Entered, ClosedDown
<1> HIDE DEF r
<1>3. /\ DOMAIN tcp' = Ends /\ \A d \in Ends : Sound(tcp'[d])
      /\ \A m \in net' : m.to \in Ends /\ PktOk(m.pkt)
  BY <1>1, <1>2, Left
<1> QED
  BY <1>1, <1>3 DEF SocketsSound

LEMMA NextClockSound ==
  ASSUME SocketsSound, NEW e \in Ends, get_next_clock(e)
  PROVE  SocketsSound'
<1> DEFINE r == closedown(tcp[e], "none", "REMOTE")
<1>1. Leave(e, r, net) /\ UNCHANGED wr
  BY DEF get_next_clock
<1>2. Sound(r)
  BY ClosedDown DEF SocketsSound, Sound
<1> HIDE DEF r
<1>3. /\ DOMAIN tcp' = Ends /\ \A d \in Ends : Sound(tcp'[d])
      /\ \A m \in net' : m.to \in Ends /\ PktOk(m.pkt)
  BY <1>1, <1>2, Left
<1> QED
  BY <1>1, <1>3 DEF SocketsSound

LEMMA ClockStateSound ==
  ASSUME NEW t, Sound(t)
  PROVE  Sound(ClockState(t))
<1>1. Good(t)
  BY DEF Sound
<1>2. CASE t.fin_ack /\ t.state = "TIME_WAIT"
  <2>1. ClockState(t) = set_state_closed(t, "none")
    BY <1>2 DEF ClockState
  <2>2. Sound(set_state_closed(t, "none"))
    BY <1>1, <1>2, ClosedSet
  <2> QED
    BY <2>1, <2>2
<1>3. CASE t.fin_ack /\ t.state = "LAST_ACK"
  <2>1. ClockState(t) = attempt_send(queue_fin_message(t), "sfFin")
    BY <1>3 DEF ClockState
  <2> DEFINE q == queue_fin_message(t)
             a == attempt_send(q, "sfFin")
  <2>2. Good(q) /\ q.state = "LAST_ACK"
    BY <1>1, <1>3, FinQueued
  <2> HIDE DEF q
  <2>3. Good(a) /\ a.state = "LAST_ACK"
    BY <2>2, AttemptSendGood DEF Stays
  <2> HIDE DEF a
  <2>4. Sound(a)
    BY <2>3 DEF Sound, Fresh, Open, PreFin
  <2> QED
    BY <2>1, <2>4 DEF a, q
<1>4. CASE ~(t.fin_ack /\ t.state = "TIME_WAIT") /\ ~(t.fin_ack /\ t.state = "LAST_ACK")
  BY <1>4 DEF ClockState
<1> QED
  BY <1>2, <1>3, <1>4

LEMMA ClockRetransmitSound ==
  ASSUME NEW t, Sound(t)
  PROVE  Sound(ClockRetransmit(t).t)
<1> DEFINE r == TransmitFirst(t)
           v == r.t
           half == HalfFlight(v)
           u == [v EXCEPT !.ssthresh = half, !.cwnd = v.mss]
<1>1. Good(t)
  BY DEF Sound
<1>2. Good(v) /\ Stays(t, v)
  BY <1>1, TransmitFirstGood
<1>3. DOMAIN r = {"ok", "t"}
  BY DEF TransmitFirst, transmit
<1>4. ClockRetransmit(t).t = IF r.ok THEN u ELSE v
  <2>1. ClockRetransmit(t) = IF ~r.ok THEN r ELSE [r EXCEPT !.t.ssthresh = half, !.t.cwnd = v.mss]
    BY DEF ClockRetransmit
  <2> HIDE DEF half, r
  <2>2. [r EXCEPT !.t.ssthresh = half, !.t.cwnd = v.mss].t = u
    BY <1>3
  <2> QED
    BY <2>1, <2>2
<1> HIDE DEF v, r
<1>5. half \in Nat \ {0} /\ v.mss \in Nat \ {0}
  BY <1>2, HalfFlightNat
<1>6. DOMAIN v = Fields /\ v.snd_wnd \in Int /\ v.dup_acks \in Nat
  BY <1>2 DEF Good, Paces
<1> HIDE DEF half
<1>7. Rewindowed(v, u)
  BY <1>5, <1>6 DEF Rewindowed, SameButPaces, Fields
<1> HIDE DEF u
<1>8. Sound(v) /\ Sound(u)
  BY <1>2, <1>7, RewindowedGood, StaysTrans, StaysSound
<1> QED
  BY <1>4, <1>8

LEMMA ClockTimersSound ==
  ASSUME NEW t, Sound(t), NEW due
  PROVE  Sound(ClockTimers(t, due))
<1> DEFINE r == IF t.rto /\ "rto" \in due THEN ClockRetransmit(t) ELSE [ok |-> TRUE, t |-> t]
           v == r.t
           shut == v.snd_wnd = 0 /\ "probe" \in due
           p == IF shut THEN packet(v, Sub(v.snd_nxt, 1), "none", <<>>) ELSE v
           a == IF p.t_ack /\ "ack" \in due THEN packet(p, p.snd_nxt, "none", <<>>) ELSE p
<1>1. Sound(v)
  BY ClockRetransmitSound
<1>2. ClockTimers(t, due) = IF ~r.ok \/ (shut /\ "dead" \in due)
                            THEN closedown(v, "ECONNABORTED", "LOCAL") ELSE a
  BY DEF ClockTimers
<1> HIDE DEF v
<1>3. ASSUME NEW x, Sound(x)
      PROVE  /\ Sound(packet(x, Sub(x.snd_nxt, 1), "none", <<>>))
             /\ Sound(packet(x, x.snd_nxt, "none", <<>>))
  <2>1. Good(x) /\ x.snd_nxt \in Int /\ 1 \in Int
    BY <1>3, SeqModNat DEF Sound, Good, Sends, Seqs
  <2>2. Sub(x.snd_nxt, 1) \in Int
    <3>1. Sub(x.snd_nxt, 1) \in Nat
      BY <2>1, SeqTypes
    <3> QED
      BY <3>1
  <2>3. <<>> \in Seq(Int)
    OBVIOUS
  <2> QED
    BY <1>3, <2>1, <2>2, <2>3, PacketWritten, StaysSound
<1>4. Sound(p)
  BY <1>1, <1>3
<1> HIDE DEF p
<1>5. Sound(a)
  BY <1>3, <1>4
<1> HIDE DEF a, shut, r
<1>6. Sound(closedown(v, "ECONNABORTED", "LOCAL"))
  BY <1>1, ClosedDown DEF Sound
<1> QED
  BY <1>2, <1>5, <1>6

LEMMA NotifyClockSound ==
  ASSUME SocketsSound, NEW e \in Ends, NEW due, NEW idle, NEW down, notify_clock(e, due, idle, down)
  PROVE  SocketsSound'
<1> DEFINE r == ClockTimers(ClockState(Enter(e, idle, down)), due)
<1>1. Leave(e, r, net) /\ UNCHANGED wr
  BY DEF notify_clock
<1>2. Sound(r)
  BY Entered, ClockStateSound, ClockTimersSound
<1> HIDE DEF r
<1>3. /\ DOMAIN tcp' = Ends /\ \A d \in Ends : Sound(tcp'[d])
      /\ \A m \in net' : m.to \in Ends /\ PktOk(m.pkt)
  BY <1>1, <1>2, Left
<1> QED
  BY <1>1, <1>3 DEF SocketsSound

LEMMA NotifyPacketSound ==
  ASSUME SocketsSound, NEW m \in net, NEW idle, NEW down, notify_packet(m, idle, down)
  PROVE  SocketsSound'
<1> DEFINE r == process(Enter(m.to, idle, down), m.pkt, m.to)
<1>1. Leave(m.to, r, net \ {m}) /\ UNCHANGED wr
  BY DEF notify_packet
<1>2. m.to \in Ends /\ PktOk(m.pkt)
  BY DEF SocketsSound
<1>3. Sound(r)
  BY <1>2, Entered, PacketProcessed
<1> HIDE DEF r
<1>4. /\ DOMAIN tcp' = Ends /\ \A d \in Ends : Sound(tcp'[d])
      /\ \A x \in net' : x.to \in Ends /\ PktOk(x.pkt)
  <2>1. net \ {m} \subseteq net
    OBVIOUS
  <2> QED
    BY <1>1, <1>2, <1>3, <2>1, Left
<1> QED
  BY <1>1, <1>4 DEF SocketsSound

LEMMA DuplicateSound ==
  ASSUME SocketsSound, NEW m \in net, Duplicate(m)
  PROVE  SocketsSound'
<1> DEFINE r == process(tcp[m.to], m.pkt, m.to)
<1>1. Leave(m.to, r, net) /\ UNCHANGED wr
  BY DEF Duplicate
<1>2. m.to \in Ends /\ PktOk(m.pkt)
  BY DEF SocketsSound
<1>3. Sound(r)
  BY <1>2, PacketProcessed DEF SocketsSound
<1> HIDE DEF r
<1>4. /\ DOMAIN tcp' = Ends /\ \A d \in Ends : Sound(tcp'[d])
      /\ \A x \in net' : x.to \in Ends /\ PktOk(x.pkt)
  BY <1>1, <1>2, <1>3, Left
<1> QED
  BY <1>1, <1>4 DEF SocketsSound

-----------------------------------------------------------------------------
\* The theorems

LEMMA InitSound == Init => SocketsSound
<1> SUFFICES ASSUME Init PROVE SocketsSound
  OBVIOUS
<1>1. PICK s \in Setups : tcp = [e \in Ends |-> NewSocket(e, s.finAck[e])]
  BY DEF Init
<1>2. DOMAIN tcp = Ends /\ \A e \in Ends : Sound(tcp[e])
  BY <1>1, NewSocketSound
<1>3. net = {} /\ wr = [e \in Ends |-> 0]
  BY DEF Init
<1>4. wr \in [Ends -> Nat]
  BY <1>3
<1> QED
  BY <1>2, <1>3, <1>4 DEF SocketsSound

LEMMA NextSound == SocketsSound /\ [Next]_vars => SocketsSound'
<1> SUFFICES ASSUME SocketsSound, [Next]_vars PROVE SocketsSound'
  OBVIOUS
<1>1. ASSUME NEW e \in Ends, NEW idle \in Idles, NEW down \in Downs, connect(e, idle, down)
      PROVE  SocketsSound'
  BY <1>1, ConnectSound
<1>2. ASSUME NEW e \in Ends, NEW idle \in Idles, NEW down \in Downs, send(e, idle, down)
      PROVE  SocketsSound'
  BY <1>2, SendSound
<1>3. ASSUME NEW e \in Ends, NEW idle \in Idles, NEW down \in Downs, NEW len \in ReadLens,
             recv(e, len, idle, down)
      PROVE  SocketsSound'
  BY <1>3, RecvSound
<1>4. ASSUME NEW e \in Ends, NEW idle \in Idles, NEW down \in Downs, NEW how,
             shutdown(e, how, idle, down)
      PROVE  SocketsSound'
  BY <1>4, ShutdownSound
<1>5. ASSUME NEW e \in Ends, NEW idle \in Idles, NEW down \in Downs, close(e, idle, down)
      PROVE  SocketsSound'
  BY <1>5, CloseSound
<1>6. ASSUME NEW e \in Ends, NEW idle \in Idles, NEW down \in Downs, NEW due,
             notify_clock(e, due, idle, down)
      PROVE  SocketsSound'
  BY <1>6, NotifyClockSound
<1>7. ASSUME NEW idle \in Idles, NEW down \in Downs, NEW m \in net, notify_packet(m, idle, down)
      PROVE  SocketsSound'
  BY <1>7, NotifyPacketSound
<1>8. ASSUME NEW e \in Ends, get_next_clock(e) PROVE SocketsSound'
  BY <1>8, NextClockSound
<1>9. ASSUME NEW m \in net, Duplicate(m) PROVE SocketsSound'
  BY <1>9, DuplicateSound
<1>10. ASSUME NEW m \in net, Lose(m) PROVE SocketsSound'
  BY <1>10 DEF Lose, SocketsSound
<1>11. CASE UNCHANGED vars
  BY <1>11 DEF vars, SocketsSound
<1>12. CASE Next
  BY <1>1, <1>2, <1>3, <1>4, <1>5, <1>6, <1>7, <1>8, <1>9, <1>10, <1>12 DEF Next
<1> QED
  BY <1>11, <1>12

\* Whatever packets arrive, late, twice or never, what each socket keeps about
\* the bytes it sends agrees (pseudo_tcp_socket_send, process, transmit,
\* attempt_send, closedown, pseudo_tcp_socket_notify_clock)
THEOREM SocketsInvariant == Spec => []SocketsSound
<1>1. Init => SocketsSound
  BY InitSound
<1>2. SocketsSound /\ [Next]_vars => SocketsSound'
  BY NextSound
<1> QED
  BY <1>1, <1>2, PTL DEF Spec

\* Bytes in flight always have the retransmission timer running: transmit
\* starts it and process stops it only when nothing is in flight
THEOREM TimerRuns == Spec => []InFlightTimed
<1>1. SocketsSound => InFlightTimed
  BY DEF SocketsSound, Sound, Good, Sends, InFlightTimed
<1> QED
  BY <1>1, SocketsInvariant, PTL

\* The segments of slist cover sbuf without gap or overlap, through queue, the
\* splitting of transmit and attempt_send and the freeing of process
THEOREM ListCovers == Spec => []SendListCovers
<1>1. SocketsSound => SendListCovers
  <2> SUFFICES ASSUME SocketsSound PROVE SendListCovers
    OBVIOUS
  <2> DEFINE before(e) == CHOOSE f : IsBytes(f, tcp[e].slist)
  <2>1. ASSUME NEW e \in Ends, tcp[e].state # "CLOSED"
        PROVE  /\ before(e)[Len(tcp[e].slist)] = Len(tcp[e].sbuf)
               /\ \A i \in 1 .. Len(tcp[e].slist) :
                    tcp[e].slist[i].len > 0 =>
                      tcp[e].slist[i].seq = Add(tcp[e].snd_una, before(e)[i - 1])
    <3> DEFINE t == tcp[e]
    <3>1. Good(t)
      BY DEF SocketsSound, Sound
    <3>2. t.slist \in Seq(Segs)
      BY <3>1, SlistTypes
    <3>3. PICK b, p : CoverBy(t.slist, t.snd_una, Len(t.sbuf), b, p)
      BY <2>1, <3>1 DEF Good, Accounted
    <3>4. IsBytes(b, t.slist)
      BY <3>2, <3>3, BytesExist
    <3> DEFINE f == CHOOSE f : IsBytes(f, t.slist)
    <3>5. IsBytes(f, t.slist)
      BY <3>4
    <3> HIDE DEF f
    <3>6. f = b
      BY <3>2, <3>3, <3>5, BytesAre
    <3>7. before(e) = f
      BY DEF f
    <3> HIDE DEF before, t
    <3>8. /\ f[Len(t.slist)] = Len(t.sbuf)
          /\ \A i \in 1 .. Len(t.slist) :
               t.slist[i].len > 0 => t.slist[i].seq = Add(t.snd_una, f[i - 1])
      BY <3>3, <3>6 DEF CoverBy
    <3> QED
      BY <3>7, <3>8 DEF t
  <2> QED
    BY <2>1 DEF SendListCovers, IsBytes
<1> QED
  BY <1>1, SocketsInvariant, PTL

\* Before a FIN is queued, what is in flight is what was transmitted of the
\* send list: the list starts with the segments transmitted, and together they
\* are as long as the distance from snd_una to snd_nxt, across wrapping
\* sequence numbers
FlightIsTransmitted == \A e \in Ends :
    tcp[e].state \in PreFin =>
      \E b, p : /\ IsBytes(b, tcp[e].slist) /\ p \in 0 .. Len(tcp[e].slist)
                /\ \A i \in 1 .. Len(tcp[e].slist) : tcp[e].slist[i].xmit > 0 <=> i <= p
                /\ Sub(tcp[e].snd_nxt, tcp[e].snd_una) = b[p]

\* The bookkeeping of transmit, attempt_send and process agrees
THEOREM FlightCounted == Spec => []FlightIsTransmitted
<1>1. SocketsSound => FlightIsTransmitted
  <2> SUFFICES ASSUME SocketsSound, NEW e \in Ends, tcp[e].state \in PreFin
               PROVE  \E b, p : /\ IsBytes(b, tcp[e].slist) /\ p \in 0 .. Len(tcp[e].slist)
                                /\ \A i \in 1 .. Len(tcp[e].slist) : tcp[e].slist[i].xmit > 0 <=> i <= p
                                /\ Sub(tcp[e].snd_nxt, tcp[e].snd_una) = b[p]
    BY DEF FlightIsTransmitted
  <2> DEFINE t == tcp[e]
  <2>1. Good(t) /\ Open(t)
    BY DEF SocketsSound, Sound
  <2>2. t.state # "CLOSED" /\ NoFin(t.slist)
    BY <2>1 DEF PreFin, Open
  <2>3. PICK b, p : /\ CoverBy(t.slist, t.snd_una, Len(t.sbuf), b, p)
                    /\ t.state \in PreFin /\ NoFin(t.slist) => Sub(t.snd_nxt, t.snd_una) = b[p]
    BY <2>1, <2>2 DEF Good, Accounted
  <2>4. IsBytes(b, t.slist)
    BY <2>1, <2>3, SlistTypes, BytesExist
  <2>5. p \in 0 .. Len(t.slist) /\ \A i \in 1 .. Len(t.slist) : t.slist[i].xmit > 0 <=> i <= p
    BY <2>3, Zenon DEF CoverBy
  <2>6. Sub(t.snd_nxt, t.snd_una) = b[p]
    BY <2>2, <2>3
  <2> QED
    BY <2>4, <2>5, <2>6, Zenon
<1> QED
  BY <1>1, SocketsInvariant, PTL

\* Of the assertions of the code: every change of state is one that set_state
\* accepts, a SYN, FIN or RST always finds room in the send buffer, transmit
\* reads within it, and no FIN is queued without support for it
AssertsHeld == \A e \in Ends :
    tcp[e].bad \cap {"transition", "control", "data", "fin_ack"} = {}

\* set_state, queue, transmit, queue_fin_message and queue_rst_message never
\* stop the program, whatever packets arrive
THEOREM AssertionsHold == Spec => []AssertsHeld
<1>1. SocketsSound => AssertsHeld
  BY DEF SocketsSound, Sound, Good, Sends, AssertsHeld, Fallible
<1> QED
  BY <1>1, SocketsInvariant, PTL
=============================================================================
