-------------------------- MODULE PahoSocket_proof --------------------------
(***************************************************************************)
(* Proofs about PahoSocket for buffers and packets of every number and     *)
(* length, and however writes and reads are cut: the broker gets whole     *)
(* packets, and the client reads the packets it was sent.                  *)
(***************************************************************************)
EXTENDS PahoSocket, SequenceTheorems, WellFoundedInduction, TLAPS

Reading == {"head", "len", "body"}
RcvPlaces == Reading \cup {"idle", "select", "continue", "remove", "fail", "ready",
                           "answer", "retry", "error"}
OutBytes == Nat \X Nat \X Nat
InBytes == Nat \X Nat
Writes == [pkt : Nat, lens : {Iovecs, Short}, bytes : Nat]
Queues == [listed : BOOLEAN, index : Nat, header : Seq(InBytes), data : Seq(InBytes)]

SocketTypes ==
    /\ up \in BOOLEAN /\ broken \in BOOLEAN
    /\ writes \in Seq(Writes)
    /\ wpending \in BOOLEAN /\ wset \in BOOLEAN /\ pwset \in BOOLEAN
    /\ pub \in {"idle", "register", "wait", "close"}
    /\ rcv \in RcvPlaces
    /\ owner \in {"none", "pub", "rcv"}
    /\ sent \in Nat

\* Which places of the two threads and which entries in the lists occur together.
Places ==
    /\ pub \in {"register", "close"} <=> owner = "pub"
    /\ rcv \in Reading \cup {"answer"} => owner = "rcv" /\ up
    /\ owner = "rcv" => rcv \in Reading \cup {"answer", "retry", "error"}
    /\ pub = "register" => up /\ ~wpending /\ Len(writes) = 1
    /\ pub = "close" => up /\ broken
    /\ rcv = "continue" => wpending
    /\ rcv \in {"remove", "fail"} => wpending /\ writes = <<>>
    /\ rcv = "fail" => broken
    /\ wpending /\ rcv \notin {"remove", "fail"} => Len(writes) = 1
    /\ ~wpending /\ pub # "register" => writes = <<>>
    /\ ~up => ~wpending

\* y is the next byte of the packet of x, or x is the last of its packet.
Followed(x, y) ==
    \/ y[1] = x[1] /\ y[2] = x[2] + 1
    \/ y[1] > x[1] /\ y[2] = 1 /\ x[2] = x[3]

\* The first two parts of PacketsWhole, of any sequence of bytes.
WholeBytes(w) ==
    /\ w # <<>> => w[1][2] = 1
    /\ \A i \in 1 .. Len(w) - 1 : Followed(w[i], w[i + 1])

\* The last packet of w is complete and its number less than p.
EndsBefore(w, p) ==
    w # <<>> => w[Len(w)][2] = w[Len(w)][3] /\ w[Len(w)][1] < p

\* The first n of t bytes of packet p end w, or nothing of it is there yet.
EndsWith(w, p, n, t) ==
    IF n = 0 THEN EndsBefore(w, p) ELSE w # <<>> /\ w[Len(w)] = <<p, n, t>>

\* The pending write pw goes on where w ends.
GoesOn(w, pw) ==
    /\ pw.pkt <= sent /\ pw.bytes < Total(pw.lens)
    /\ EndsWith(w, pw.pkt, pw.bytes, Total(pw.lens))

WireInv ==
    /\ wire \in Seq(OutBytes)
    /\ WholeBytes(wire)
    /\ \A i \in DOMAIN wire : wire[i][1] <= sent
    /\ up => \A i \in DOMAIN writes : GoesOn(wire, writes[i])
    /\ up /\ ~broken /\ writes = <<>> => EndsBefore(wire, sent + 1)

\* The input up to the end of a packet.
InEnds == Ends([p \in DOMAIN Input |-> InLen(p)])

Current == Len(got) + 1

\* The queue holds the first bytes of the packet that is being read; the header is
\* read or replayed up to index.
QueueInv ==
    LET h == queue.header  d == queue.data  i == queue.index IN
    /\ read = InEnds[Len(got)] + Len(h) + Len(d)
    /\ \A k \in 1 .. Len(h) : h[k] = <<Current, k>>
    /\ \A k \in 1 .. Len(d) : d[k] = <<Current, Len(h) + k>>
    /\ h # <<>> => Current <= Len(Input) /\ Len(h) <= Input[Current][1]
    /\ d # <<>> => h # <<>> /\ Len(h) = Input[Current][1] /\ Len(d) < Input[Current][2]
                   /\ queue.listed
    /\ i <= Len(h)
    /\ ~queue.listed => i = Len(h)
    /\ rcv \notin {"len", "body"} => i = 0
    /\ rcv = "len" => i > 0 /\ i < Input[Current][1]
    /\ rcv = "body" => i = Len(h) /\ h # <<>> /\ Len(h) = Input[Current][1]

ReadInv ==
    /\ avail \in 0 .. Len(Stream) /\ read \in 0 .. avail
    /\ queue \in Queues /\ got \in Seq(Seq(InBytes))
    /\ Len(got) <= Len(Input)
    /\ PacketsRead
    /\ ~up => queue = NoQueue
    /\ up /\ rcv # "error" => QueueInv

SocketInv == SocketTypes /\ Places /\ WireInv /\ ReadInv
-----------------------------------------------------------------------------
(* Sums and concatenations, which are recursive functions.                 *)

\* A set of natural numbers has a least element.
LEMMA LeastNat ==
  ASSUME NEW T, T \subseteq Nat, T # {}
  PROVE  \E x \in T : \A y \in T : x <= y
<1>1. IsWellFoundedOn(OpToRel(<, Nat), Nat)
  BY NatLessThanWellFounded
<1>2. PICK R : R = OpToRel(<, Nat)
  OBVIOUS
<1>3. PICK x \in T : \A y \in T : ~(<<y, x>> \in R)
  BY <1>1, <1>2, WFMin
<1>4. R = {ss \in Nat \X Nat : ss[1] < ss[2]}
  BY <1>2 DEF OpToRel
<1>5. ASSUME NEW y \in T PROVE x <= y
  <2>1. x \in Nat /\ y \in Nat
    OBVIOUS
  <2>2. y < x => <<y, x>> \in R
    BY <1>4, <2>1
  <2> QED BY <1>3, <2>1, <2>2
<1> QED BY <1>5

\* Induction up to a bound, over a set in place of a predicate: there is no least
\* number outside of it.
LEMMA Induction ==
  ASSUME NEW n \in Nat, NEW T, 0 \in T, \A k \in 0 .. n - 1 : k \in T => k + 1 \in T
  PROVE  \A k \in 0 .. n : k \in T
<1> DEFINE Out == {k \in 0 .. n : k \notin T}
<1>1. SUFFICES ASSUME Out # {} PROVE FALSE
  OBVIOUS
<1>2. PICK x \in Out : \A y \in Out : x <= y
  <2>1. Out \subseteq Nat
    OBVIOUS
  <2> QED BY <1>1, <2>1, LeastNat
<1>3. x \in 0 .. n /\ x \notin T /\ x # 0
  OBVIOUS
<1>4. x - 1 \in 0 .. n - 1 /\ x - 1 \in 0 .. n /\ (x - 1) + 1 = x /\ ~(x <= x - 1)
  BY <1>3
<1>5. x - 1 \in T
  BY <1>2, <1>4
<1> QED BY <1>3, <1>4, <1>5

EndsIs(lens, n, f) ==
    f = [i \in 0 .. n |-> IF i = 0 THEN 0 ELSE f[i - 1] + lens[i]]

LEMMA EndsExists ==
  ASSUME NEW lens \in Seq(Nat)
  PROVE  \E f : EndsIs(lens, Len(lens), f)
<1> DEFINE n == Len(lens)
           T == {k \in 0 .. n : \E f : EndsIs(lens, k, f)}
<1>1. n \in Nat
  OBVIOUS
<1>2. 0 \in T
  <2>1. EndsIs(lens, 0, [i \in 0 .. 0 |-> 0])
    BY DEF EndsIs
  <2> QED BY <1>1, <2>1
<1>3. ASSUME NEW k \in 0 .. n - 1, k \in T PROVE k + 1 \in T
  <2>1. PICK f : EndsIs(lens, k, f)
    BY <1>3
  <2> DEFINE g == [i \in 0 .. k + 1 |-> IF i <= k THEN f[i] ELSE f[k] + lens[k + 1]]
  <2>2. \A i \in 0 .. k + 1 : g[i] = IF i = 0 THEN 0 ELSE g[i - 1] + lens[i]
    <3> SUFFICES ASSUME NEW i \in 0 .. k + 1
                 PROVE  g[i] = IF i = 0 THEN 0 ELSE g[i - 1] + lens[i]
      OBVIOUS
    <3>1. CASE i <= k
      <4>1. i \in 0 .. k /\ g[i] = f[i]
        BY <3>1
      <4>2. f[i] = IF i = 0 THEN 0 ELSE f[i - 1] + lens[i]
        BY <2>1, <4>1 DEF EndsIs
      <4>3. i # 0 => g[i - 1] = f[i - 1]
        BY <3>1
      <4> QED BY <4>1, <4>2, <4>3
    <3>2. CASE i = k + 1
      <4>1. g[i] = f[k] + lens[k + 1] /\ g[i - 1] = f[k] /\ i # 0
        BY <3>2
      <4> QED BY <3>2, <4>1
    <3> QED BY <3>1, <3>2
  <2>3. g = [i \in 0 .. k + 1 |-> IF i = 0 THEN 0 ELSE g[i - 1] + lens[i]]
    BY <2>2, Zenon
  <2>4. EndsIs(lens, k + 1, g)
    BY <2>3 DEF EndsIs
  <2>5. k + 1 \in 0 .. n
    BY <1>1
  <2> QED BY <2>4, <2>5
<1> HIDE DEF n
<1>4. n \in T
  <2> HIDE DEF T
  <2>1. \A k \in 0 .. n : k \in T
    BY <1>1, <1>2, <1>3, Induction
  <2> QED BY <1>1, <2>1
<1> QED BY <1>4 DEF n

LEMMA EndsFacts ==
  ASSUME NEW lens \in Seq(Nat)
  PROVE  /\ Ends(lens) \in [0 .. Len(lens) -> Nat]
         /\ Ends(lens)[0] = 0
         /\ \A i \in 1 .. Len(lens) : Ends(lens)[i] = Ends(lens)[i - 1] + lens[i]
         /\ Total(lens) = Ends(lens)[Len(lens)] /\ Total(lens) \in Nat
<1>1. PICK e : e = Ends(lens)
  OBVIOUS
<1>2. EndsIs(lens, Len(lens), e)
  <2>1. e = CHOOSE f : EndsIs(lens, Len(lens), f)
    BY <1>1 DEF Ends, EndsIs
  <2> QED BY <2>1, EndsExists
<1>3. /\ DOMAIN e = 0 .. Len(lens) /\ e[0] = 0
      /\ \A i \in 1 .. Len(lens) : e[i] = e[i - 1] + lens[i]
  BY <1>2 DEF EndsIs
<1> DEFINE T == {k \in 0 .. Len(lens) : e[k] \in Nat}
<1>4. 0 \in T
  BY <1>3
<1>5. ASSUME NEW k \in 0 .. Len(lens) - 1, k \in T PROVE k + 1 \in T
  <2>1. k + 1 \in 1 .. Len(lens) /\ (k + 1) - 1 = k /\ e[k] \in Nat
    BY <1>5
  <2>2. lens[k + 1] \in Nat
    BY <2>1
  <2>3. e[k + 1] = e[k] + lens[k + 1]
    BY <1>3, <2>1
  <2> QED BY <2>1, <2>2, <2>3
<1>6. \A k \in 0 .. Len(lens) : k \in T
  <2> HIDE DEF T
  <2>1. Len(lens) \in Nat
    OBVIOUS
  <2> QED BY <1>4, <1>5, <2>1, Induction
<1>7. e \in [0 .. Len(lens) -> Nat]
  <2>1. \A k \in 0 .. Len(lens) : e[k] \in Nat
    BY <1>6
  <2>2. e = [k \in 0 .. Len(lens) |-> e[k]]
    BY <1>2 DEF EndsIs
  <2> QED BY <2>1, <2>2
<1>8. e[Len(lens)] \in Nat
  BY <1>7
<1> QED BY <1>1, <1>3, <1>7, <1>8 DEF Total

LEMMA EndsGrow ==
  ASSUME NEW lens \in Seq(Nat), NEW i \in 0 .. Len(lens), NEW j \in 0 .. Len(lens), i <= j
  PROVE  Ends(lens)[i] <= Ends(lens)[j]
<1>1. PICK e : e = Ends(lens)
  OBVIOUS
<1>2. /\ e \in [0 .. Len(lens) -> Nat]
      /\ \A k \in 1 .. Len(lens) : e[k] = e[k - 1] + lens[k]
  BY <1>1, EndsFacts
<1> DEFINE m == Len(lens) - i
           T == {k \in 0 .. m : e[i] <= e[i + k]}
<1>3. m \in Nat
  OBVIOUS
<1>4. 0 \in T
  BY <1>2, <1>3
<1>5. ASSUME NEW k \in 0 .. m - 1, k \in T PROVE k + 1 \in T
  <2>1. /\ i + (k + 1) \in 1 .. Len(lens) /\ (i + (k + 1)) - 1 = i + k /\ i + k \in 0 .. Len(lens)
        /\ e[i] <= e[i + k] /\ k + 1 \in 0 .. m
    BY <1>3, <1>5
  <2>2. e[i + (k + 1)] = e[i + k] + lens[i + (k + 1)] /\ lens[i + (k + 1)] \in Nat
    BY <1>2, <2>1
  <2>3. e[i] \in Nat /\ e[i + k] \in Nat
    BY <1>2, <2>1
  <2>4. e[i] <= e[i + (k + 1)]
    BY <2>1, <2>2, <2>3
  <2> QED BY <2>1, <2>4
<1>6. \A k \in 0 .. m : k \in T
  <2> HIDE DEF T, m
  <2> QED BY <1>3, <1>4, <1>5, Induction
<1>7. j - i \in 0 .. m /\ i + (j - i) = j
  OBVIOUS
<1> QED BY <1>1, <1>6, <1>7

FlatIs(s, n, f) ==
    f = [i \in 1 .. n |-> IF i = 1 THEN s[i] ELSE f[i - 1] \o s[i]]

LEMMA FlatExists ==
  ASSUME NEW n \in Nat, NEW s
  PROVE  \E f : FlatIs(s, n, f)
<1> DEFINE T == {k \in 0 .. n : \E f : FlatIs(s, k, f)}
<1>1. 0 \in T
  <2>1. FlatIs(s, 0, [i \in 1 .. 0 |-> 0])
    BY DEF FlatIs
  <2> QED BY <2>1
<1>2. ASSUME NEW k \in 0 .. n - 1, k \in T PROVE k + 1 \in T
  <2>1. PICK f : FlatIs(s, k, f)
    BY <1>2
  <2> DEFINE g == [i \in 1 .. k + 1 |-> IF i <= k THEN f[i]
                                         ELSE IF i = 1 THEN s[i] ELSE f[i - 1] \o s[i]]
  <2>2. \A i \in 1 .. k + 1 : g[i] = IF i = 1 THEN s[i] ELSE g[i - 1] \o s[i]
    <3> SUFFICES ASSUME NEW i \in 1 .. k + 1
                 PROVE  g[i] = IF i = 1 THEN s[i] ELSE g[i - 1] \o s[i]
      OBVIOUS
    <3>1. i # 1 => i - 1 \in 1 .. k + 1 /\ i - 1 <= k /\ g[i - 1] = f[i - 1]
      OBVIOUS
    <3>2. CASE i <= k
      <4>1. i \in 1 .. k /\ g[i] = f[i]
        BY <3>2
      <4>2. f[i] = IF i = 1 THEN s[i] ELSE f[i - 1] \o s[i]
        BY <2>1, <4>1 DEF FlatIs
      <4> HIDE DEF g
      <4> QED BY <3>1, <4>1, <4>2
    <3>3. CASE ~(i <= k)
      <4>1. g[i] = IF i = 1 THEN s[i] ELSE f[i - 1] \o s[i]
        BY <3>3
      <4> HIDE DEF g
      <4> QED BY <3>1, <4>1
    <3> QED BY <3>2, <3>3
  <2>3. g = [i \in 1 .. k + 1 |-> IF i = 1 THEN s[i] ELSE g[i - 1] \o s[i]]
    BY <2>2, Zenon
  <2>4. FlatIs(s, k + 1, g)
    BY <2>3 DEF FlatIs
  <2>5. k + 1 \in 0 .. n
    OBVIOUS
  <2> QED BY <2>4, <2>5
<1>3. n \in T
  <2> HIDE DEF T
  <2>1. \A k \in 0 .. n : k \in T
    BY <1>1, <1>2, Induction
  <2> QED BY <2>1
<1> QED BY <1>3

\* FlattenSeq is the last one of the partial concatenations.
LEMMA FlattenIs ==
  ASSUME NEW s, Len(s) \in Nat \ {0}
  PROVE  \E f : /\ f[1] = s[1]
                /\ \A i \in 2 .. Len(s) : f[i] = f[i - 1] \o s[i]
                /\ FlattenSeq(s) = f[Len(s)]
<1> DEFINE f == CHOOSE g : FlatIs(s, Len(s), g)
<1>1. FlattenSeq(s) = f[Len(s)]
  BY DEF FlattenSeq, FlatIs
<1>2. FlatIs(s, Len(s), f)
  <2>1. \E g : FlatIs(s, Len(s), g)
    BY FlatExists
  <2> QED BY <2>1
<1>3. PICK h : h = f
  OBVIOUS
<1>4. FlatIs(s, Len(s), h) /\ FlattenSeq(s) = h[Len(s)]
  BY <1>1, <1>2, <1>3
<1>5. h[1] = s[1] /\ \A i \in 2 .. Len(s) : h[i] = h[i - 1] \o s[i]
  <2>1. h = [i \in 1 .. Len(s) |-> IF i = 1 THEN s[i] ELSE h[i - 1] \o s[i]]
    BY <1>4 DEF FlatIs
  <2>2. \A i \in 1 .. Len(s) : h[i] = IF i = 1 THEN s[i] ELSE h[i - 1] \o s[i]
    BY <2>1, Zenon
  <2>3. 1 \in 1 .. Len(s) /\ \A i \in 2 .. Len(s) : i \in 1 .. Len(s) /\ i # 1
    OBVIOUS
  <2> QED BY <2>2, <2>3
<1> QED BY <1>4, <1>5

\* A function on 1..n is a sequence of length n.
LEMMA FunIsSeq ==
  ASSUME NEW S, NEW n \in Nat, NEW f \in [1 .. n -> S]
  PROVE  f \in Seq(S) /\ Len(f) = n /\ DOMAIN f = 1 .. n
OBVIOUS

\* The bytes of a packet after the first m up to the n-th.
Bytes(pkt, m, n, total) == [k \in 1 .. n - m |-> <<pkt, m + k, total>>]

IsBytes(b, pkt, m, n, total) ==
    /\ b \in Seq(OutBytes) /\ Len(b) = n - m
    /\ \A k \in 1 .. n - m : b[k] = <<pkt, m + k, total>>

LEMMA BytesAre ==
  ASSUME NEW pkt \in Nat, NEW m \in Nat, NEW n \in Nat, m <= n, NEW total \in Nat
  PROVE  IsBytes(Bytes(pkt, m, n, total), pkt, m, n, total)
<1>1. n - m \in Nat
  OBVIOUS
<1>2. Bytes(pkt, m, n, total) \in [1 .. n - m -> OutBytes]
  BY DEF Bytes, OutBytes
<1>3. \A k \in 1 .. n - m : Bytes(pkt, m, n, total)[k] = <<pkt, m + k, total>>
  BY DEF Bytes
<1>4. /\ Bytes(pkt, m, n, total) \in Seq(OutBytes)
      /\ Len(Bytes(pkt, m, n, total)) = n - m
  BY <1>1, <1>2, FunIsSeq
<1> QED BY <1>3, <1>4 DEF IsBytes

LEMMA BytesEmpty ==
  ASSUME NEW pkt, NEW m \in Int, NEW n \in Int, n <= m, NEW total
  PROVE  Bytes(pkt, m, n, total) = <<>>
<1>1. 1 .. n - m = {}
  OBVIOUS
<1> QED BY <1>1 DEF Bytes

\* Bytes up to l and from there to n are those up to n.
Joined(pkt, m, l, n, total) ==
    Bytes(pkt, m, l, total) \o Bytes(pkt, l, n, total) = Bytes(pkt, m, n, total)

LEMMA BytesJoin ==
  ASSUME NEW pkt \in Nat, NEW m \in Nat, NEW l \in Nat, NEW n \in Nat, m <= l, l <= n,
         NEW total \in Nat
  PROVE  Joined(pkt, m, l, n, total)
<1>1. PICK a : a = Bytes(pkt, m, l, total)
  OBVIOUS
<1>2. PICK b : b = Bytes(pkt, l, n, total)
  OBVIOUS
<1>3. PICK c : c = Bytes(pkt, m, n, total)
  OBVIOUS
<1>4. /\ a \in Seq(OutBytes) /\ Len(a) = l - m
      /\ \A k \in 1 .. l - m : a[k] = <<pkt, m + k, total>>
  <2>1. IsBytes(a, pkt, m, l, total)
    BY <1>1, BytesAre
  <2> QED BY <2>1 DEF IsBytes
<1>5. /\ b \in Seq(OutBytes) /\ Len(b) = n - l
      /\ \A k \in 1 .. n - l : b[k] = <<pkt, l + k, total>>
  <2>1. IsBytes(b, pkt, l, n, total)
    BY <1>2, BytesAre
  <2> QED BY <2>1 DEF IsBytes
<1>6. /\ c \in Seq(OutBytes) /\ Len(c) = n - m
      /\ \A k \in 1 .. n - m : c[k] = <<pkt, m + k, total>>
  <2>1. m <= n
    OBVIOUS
  <2>2. IsBytes(c, pkt, m, n, total)
    BY <1>3, <2>1, BytesAre
  <2> QED BY <2>2 DEF IsBytes
<1>7. /\ a \o b \in Seq(OutBytes) /\ Len(a \o b) = Len(a) + Len(b)
      /\ \A k \in 1 .. Len(a) + Len(b) : (a \o b)[k] = IF k <= Len(a) THEN a[k] ELSE b[k - Len(a)]
  BY <1>4, <1>5, ConcatProperties
<1>8. PICK d : d = a \o b
  OBVIOUS
<1>9. /\ d \in Seq(OutBytes) /\ Len(d) = n - m
      /\ \A k \in 1 .. n - m : d[k] = IF k <= l - m THEN a[k] ELSE b[k - (l - m)]
  <2>1. Len(a) + Len(b) = n - m
    BY <1>4, <1>5
  <2> QED BY <1>4, <1>7, <1>8, <2>1
<1>10. \A k \in 1 .. n - m : d[k] = c[k]
  <2> SUFFICES ASSUME NEW k \in 1 .. n - m PROVE d[k] = c[k]
    OBVIOUS
  <2>1. CASE k <= l - m
    <3>1. k \in 1 .. l - m /\ d[k] = a[k]
      BY <1>9, <2>1
    <3> QED BY <1>4, <1>6, <3>1
  <2>2. CASE ~(k <= l - m)
    <3>1. k - (l - m) \in 1 .. n - l /\ l + (k - (l - m)) = m + k
      BY <2>2
    <3> QED BY <1>5, <1>6, <1>9, <2>2, <3>1
  <2> QED BY <2>1, <2>2
<1>11. d = c
  BY <1>6, <1>9, <1>10, SeqEqual
<1> QED BY <1>1, <1>2, <1>3, <1>8, <1>11 DEF Joined

Piece(pkt, lens, done, i) ==
    LET start == Ends(lens)[i - 1]
        offset == IF done <= start THEN 0 ELSE Least(done - start, lens[i])
    IN [k \in 1 .. (lens[i] - offset) |-> <<pkt, start + offset + k, Total(lens)>>]

\* What the loop of Socket_continueWrite takes from one buffer.
LEMMA PieceIs ==
  ASSUME NEW pkt \in Nat, NEW lens \in Seq(Nat), NEW done \in Nat, NEW i \in 1 .. Len(lens)
  PROVE  /\ done <= Ends(lens)[i - 1]
              => Piece(pkt, lens, done, i) = Bytes(pkt, Ends(lens)[i - 1], Ends(lens)[i], Total(lens))
         /\ done > Ends(lens)[i - 1]
              => Piece(pkt, lens, done, i) = Bytes(pkt, done, Ends(lens)[i], Total(lens))
<1>1. PICK e : e = Ends(lens)
  OBVIOUS
<1>2. /\ i - 1 \in 0 .. Len(lens) /\ i \in 0 .. Len(lens)
      /\ e[i - 1] \in Nat /\ e[i] \in Nat /\ lens[i] \in Nat /\ e[i] = e[i - 1] + lens[i]
  <2>1. i - 1 \in 0 .. Len(lens) /\ i \in 0 .. Len(lens)
    OBVIOUS
  <2>2. /\ e \in [0 .. Len(lens) -> Nat]
        /\ \A j \in 1 .. Len(lens) : e[j] = e[j - 1] + lens[j]
    BY <1>1, EndsFacts
  <2>3. e[i - 1] \in Nat /\ e[i] \in Nat /\ lens[i] \in Nat
    <3>1. lens[i] \in Nat
      OBVIOUS
    <3>2. e[i] \in Nat /\ e[i - 1] \in Nat
      BY <2>1, <2>2, Zenon
    <3> QED BY <3>1, <3>2
  <2>4. e[i] = e[i - 1] + lens[i]
    BY <2>2
  <2> QED BY <2>1, <2>3, <2>4
<1>3. PICK total : total = Total(lens)
  OBVIOUS
<1>4. CASE done <= e[i - 1]
  <2>1. Piece(pkt, lens, done, i) = [k \in 1 .. (lens[i] - 0) |-> <<pkt, e[i - 1] + 0 + k, total>>]
    BY <1>1, <1>3, <1>4 DEF Piece
  <2>2. lens[i] - 0 = e[i] - e[i - 1] /\ \A k \in Int : e[i - 1] + 0 + k = e[i - 1] + k
    BY <1>2
  <2>3. Piece(pkt, lens, done, i) = Bytes(pkt, e[i - 1], e[i], total)
    BY <2>1, <2>2 DEF Bytes
  <2> QED BY <1>1, <1>2, <1>3, <1>4, <2>3
<1>5. CASE done > e[i - 1] /\ done <= e[i]
  <2>1. Least(done - e[i - 1], lens[i]) = done - e[i - 1]
    BY <1>2, <1>5 DEF Least
  <2>2. ~(done <= e[i - 1])
    BY <1>2, <1>5
  <2>3. Piece(pkt, lens, done, i)
          = [k \in 1 .. (lens[i] - (done - e[i - 1])) |-> <<pkt, e[i - 1] + (done - e[i - 1]) + k, total>>]
    BY <1>1, <1>3, <2>1, <2>2 DEF Piece
  <2>4. lens[i] - (done - e[i - 1]) = e[i] - done
        /\ \A k \in Int : e[i - 1] + (done - e[i - 1]) + k = done + k
    <3>1. PICK x, y, z : x = e[i - 1] /\ y = e[i] /\ z = lens[i]
      OBVIOUS
    <3>2. x \in Nat /\ y \in Nat /\ z \in Nat /\ y = x + z
      BY <1>2, <3>1
    <3>3. z - (done - x) = y - done /\ \A k \in Int : x + (done - x) + k = done + k
      BY <3>2
    <3> QED BY <3>1, <3>3
  <2>5. Piece(pkt, lens, done, i) = Bytes(pkt, done, e[i], total)
    <3>1. \A k \in 1 .. e[i] - done :
            <<pkt, e[i - 1] + (done - e[i - 1]) + k, total>> = <<pkt, done + k, total>>
      <4>1. \A k \in 1 .. e[i] - done : k \in Int
        OBVIOUS
      <4>2. ASSUME NEW k \in 1 .. e[i] - done
            PROVE  <<pkt, e[i - 1] + (done - e[i - 1]) + k, total>> = <<pkt, done + k, total>>
        <5>1. e[i - 1] + (done - e[i - 1]) + k = done + k
          BY <2>4, <4>1
        <5> QED BY <5>1, Zenon
      <4> QED BY <4>2, Zenon
    <3> QED BY <2>3, <2>4, <3>1 DEF Bytes
  <2> QED BY <1>1, <1>2, <1>3, <1>5, <2>5
<1>6. CASE done > e[i]
  <2>1. Least(done - e[i - 1], lens[i]) = lens[i]
    BY <1>2, <1>6 DEF Least
  <2>2. ~(done <= e[i - 1])
    BY <1>2, <1>6
  <2>3. Piece(pkt, lens, done, i)
          = [k \in 1 .. (lens[i] - lens[i]) |-> <<pkt, e[i - 1] + lens[i] + k, total>>]
    BY <1>1, <1>3, <2>1, <2>2 DEF Piece
  <2>4. 1 .. (lens[i] - lens[i]) = {} /\ 1 .. (e[i] - done) = {}
    <3>1. PICK y, z : y = e[i] /\ z = lens[i]
      OBVIOUS
    <3>2. y \in Nat /\ z \in Nat /\ done > y
      BY <1>2, <1>6, <3>1
    <3>3. 1 .. (z - z) = {} /\ 1 .. (y - done) = {}
      BY <3>2
    <3> QED BY <3>1, <3>3
  <2>5. Piece(pkt, lens, done, i) = Bytes(pkt, done, e[i], total)
    BY <2>3, <2>4 DEF Bytes
  <2> QED BY <1>1, <1>2, <1>3, <2>2, <2>5
<1> QED BY <1>1, <1>2, <1>4, <1>5, <1>6

\* However a packet is laid out in buffers, Left is what follows the first bytes.
LEMMA LeftIs ==
  ASSUME NEW pkt \in Nat, NEW lens \in Seq(Nat), NEW done \in 0 .. Total(lens)
  PROVE  Left(pkt, lens, done) = Bytes(pkt, done, Total(lens), Total(lens))
<1>1. PICK e : e = Ends(lens)
  OBVIOUS
<1>2. PICK total : total = Total(lens)
  OBVIOUS
<1>3. /\ e \in [0 .. Len(lens) -> Nat] /\ e[0] = 0 /\ Len(lens) \in Nat
      /\ \A i \in 1 .. Len(lens) : e[i] = e[i - 1] + lens[i]
      /\ total = e[Len(lens)] /\ total \in Nat /\ done \in 0 .. total
  BY <1>1, <1>2, EndsFacts
<1>4. PICK s : s = [i \in 1 .. Len(lens) |-> Piece(pkt, lens, done, i)]
  OBVIOUS
<1>5. Left(pkt, lens, done) = FlattenSeq(s)
  <2>1. DOMAIN lens = 1 .. Len(lens)
    OBVIOUS
  <2> QED BY <1>4, <2>1, Zenon DEF Left, Piece
<1>6. Len(s) = Len(lens) /\ \A i \in 1 .. Len(lens) : s[i] = Piece(pkt, lens, done, i)
  BY <1>3, <1>4
<1>7. CASE Len(lens) = 0
  <2>1. FlattenSeq(s) = s
    BY <1>6, <1>7 DEF FlattenSeq
  <2>2. s = <<>>
    <3>1. 1 .. Len(lens) = {}
      BY <1>7
    <3> QED BY <1>4, <3>1
  <2>3. total = 0 /\ done = 0
    BY <1>3, <1>7
  <2> QED BY <1>2, <1>5, <2>1, <2>2, <2>3, BytesEmpty
<1>8. CASE Len(lens) # 0
  <2>1. PICK f : /\ f[1] = s[1]
                 /\ \A i \in 2 .. Len(lens) : f[i] = f[i - 1] \o s[i]
                 /\ FlattenSeq(s) = f[Len(lens)]
    <3>1. Len(s) \in Nat \ {0}
      BY <1>3, <1>6, <1>8
    <3> QED BY <1>6, <3>1, FlattenIs
  <2> DEFINE n == Len(lens) - 1
             T == {k \in 0 .. n : f[k + 1] = Bytes(pkt, done, e[k + 1], total)}
  <2>2. n \in Nat
    BY <1>3, <1>8
  <2>3. \A i \in 1 .. Len(lens) :
          /\ i - 1 \in 0 .. Len(lens) /\ e[i - 1] \in Nat /\ e[i] \in Nat /\ e[i - 1] <= e[i]
          /\ done <= e[i - 1] => s[i] = Bytes(pkt, e[i - 1], e[i], total)
          /\ done > e[i - 1] => s[i] = Bytes(pkt, done, e[i], total)
    <3> SUFFICES ASSUME NEW i \in 1 .. Len(lens)
                 PROVE  /\ i - 1 \in 0 .. Len(lens) /\ e[i - 1] \in Nat /\ e[i] \in Nat /\ e[i - 1] <= e[i]
                        /\ done <= e[i - 1] => s[i] = Bytes(pkt, e[i - 1], e[i], total)
                        /\ done > e[i - 1] => s[i] = Bytes(pkt, done, e[i], total)
      OBVIOUS
    <3>1. i - 1 \in 0 .. Len(lens) /\ i \in 0 .. Len(lens) /\ lens[i] \in Nat
      BY <1>3
    <3>2. e[i - 1] \in Nat /\ e[i] \in Nat /\ e[i] = e[i - 1] + lens[i]
      BY <1>3, <3>1
    <3>3. done \in Nat
      BY <1>3
    <3>4. s[i] = Piece(pkt, lens, done, i)
      BY <1>6
    <3>5. /\ done <= e[i - 1] => s[i] = Bytes(pkt, e[i - 1], e[i], total)
          /\ done > e[i - 1] => s[i] = Bytes(pkt, done, e[i], total)
      BY <1>1, <1>2, <3>3, <3>4, PieceIs
    <3>6. e[i - 1] <= e[i]
      BY <3>1, <3>2
    <3> QED BY <3>1, <3>2, <3>5, <3>6
  <2>4. 0 \in T
    <3>1. 1 \in 1 .. Len(lens)
      BY <1>3, <1>8
    <3>2. f[1] = Bytes(pkt, done, e[1], total)
      BY <1>3, <2>1, <2>3, <3>1
    <3> QED BY <2>2, <3>2
  <2>5. ASSUME NEW k \in 0 .. n - 1, k \in T PROVE k + 1 \in T
    <3>1. /\ (k + 1) + 1 \in 2 .. Len(lens) /\ (k + 1) + 1 \in 1 .. Len(lens)
          /\ ((k + 1) + 1) - 1 = k + 1 /\ k + 1 \in 0 .. n
      BY <1>3, <2>2
    <3>2. f[(k + 1) + 1] = f[k + 1] \o s[(k + 1) + 1]
      BY <2>1, <3>1
    <3>3. f[k + 1] = Bytes(pkt, done, e[k + 1], total)
      BY <2>5
    <3>4. /\ e[k + 1] \in Nat /\ e[(k + 1) + 1] \in Nat /\ e[k + 1] <= e[(k + 1) + 1]
          /\ done <= e[k + 1] => s[(k + 1) + 1] = Bytes(pkt, e[k + 1], e[(k + 1) + 1], total)
          /\ done > e[k + 1] => s[(k + 1) + 1] = Bytes(pkt, done, e[(k + 1) + 1], total)
      BY <2>3, <3>1
    <3>5. CASE done <= e[k + 1]
      <4>1. f[(k + 1) + 1] = Bytes(pkt, done, e[(k + 1) + 1], total)
        <5>1. done \in Nat /\ s[(k + 1) + 1] = Bytes(pkt, e[k + 1], e[(k + 1) + 1], total)
          BY <1>3, <3>4, <3>5
        <5>2. Bytes(pkt, done, e[k + 1], total) \o Bytes(pkt, e[k + 1], e[(k + 1) + 1], total)
                = Bytes(pkt, done, e[(k + 1) + 1], total)
          <6>1. PICK x, y : x = e[k + 1] /\ y = e[(k + 1) + 1]
            OBVIOUS
          <6>2. x \in Nat /\ y \in Nat /\ x <= y /\ done <= x /\ total \in Nat
            BY <1>3, <3>4, <3>5, <6>1
          <6>3. Bytes(pkt, done, x, total) \o Bytes(pkt, x, y, total) = Bytes(pkt, done, y, total)
            <7>1. done \in Nat
              BY <5>1
            <7>2. Joined(pkt, done, x, y, total)
              BY <6>2, <7>1, BytesJoin
            <7> QED BY <7>2 DEF Joined
          <6> QED BY <6>1, <6>3
        <5> QED BY <3>2, <3>3, <5>1, <5>2
      <4> QED BY <3>1, <4>1
    <3>6. CASE done > e[k + 1]
      <4>1. f[k + 1] = <<>>
        BY <1>3, <3>3, <3>4, <3>6, BytesEmpty
      <4>2. PICK b : b = Bytes(pkt, done, e[(k + 1) + 1], total)
        OBVIOUS
      <4>3. b \in Seq(OutBytes)
        <5>1. CASE done <= e[(k + 1) + 1]
          <6>1. done \in Nat
            BY <1>3
          <6>2. IsBytes(b, pkt, done, e[(k + 1) + 1], total)
            BY <1>3, <3>4, <4>2, <5>1, <6>1, BytesAre
          <6> QED BY <6>2 DEF IsBytes
        <5>2. CASE ~(done <= e[(k + 1) + 1])
          <6>1. b = <<>>
            BY <1>3, <3>4, <4>2, <5>2, BytesEmpty
          <6> QED BY <6>1
        <5> QED BY <5>1, <5>2
      <4>4. f[(k + 1) + 1] = <<>> \o b
        BY <3>2, <3>4, <3>6, <4>1, <4>2
      <4>5. <<>> \o b = b
        BY <4>3
      <4> QED BY <3>1, <4>2, <4>4, <4>5
    <3> QED BY <1>3, <3>4, <3>5, <3>6
  <2>6. n \in T
    <3> HIDE DEF T, n
    <3>1. \A k \in 0 .. n : k \in T
      BY <2>2, <2>4, <2>5, Induction
    <3> QED BY <2>2, <3>1
  <2>7. n + 1 = Len(lens)
    BY <1>3
  <2> QED BY <1>2, <1>3, <1>5, <2>1, <2>6, <2>7
<1> QED BY <1>7, <1>8
-----------------------------------------------------------------------------
(* What the broker sends.                                                  *)

LEMMA InputFacts ==
  /\ Len(Input) \in Nat /\ DOMAIN Input = 1 .. Len(Input)
  /\ \A p \in 1 .. Len(Input) :
        /\ Input[p][1] \in 2 .. 5 /\ Input[p][2] \in Nat /\ Input[p][3] \in BOOLEAN
        /\ InLen(p) \in Nat /\ InLen(p) = Input[p][1] + Input[p][2]
<1>1. Input \in Seq((2 .. 5) \X Nat \X BOOLEAN)
  BY PahoSocketAssumption
<1>2. Len(Input) \in Nat /\ DOMAIN Input = 1 .. Len(Input)
  BY <1>1
<1>3. ASSUME NEW p \in 1 .. Len(Input)
      PROVE  Input[p][1] \in 2 .. 5 /\ Input[p][2] \in Nat /\ Input[p][3] \in BOOLEAN
  <2>1. Input[p] \in (2 .. 5) \X Nat \X BOOLEAN
    BY <1>1
  <2> QED BY <2>1
<1> QED BY <1>2, <1>3 DEF InLen

LEMMA InEndsFacts ==
  /\ InEnds \in [0 .. Len(Input) -> Nat] /\ InEnds[0] = 0
  /\ \A p \in 1 .. Len(Input) : InEnds[p] = InEnds[p - 1] + InLen(p)
  /\ \A p, q \in 0 .. Len(Input) : p <= q => InEnds[p] <= InEnds[q]
<1>1. PICK lens : lens = [p \in DOMAIN Input |-> InLen(p)]
  OBVIOUS
<1>2. lens \in Seq(Nat) /\ Len(lens) = Len(Input)
  <2>1. lens \in [1 .. Len(Input) -> Nat]
    BY <1>1, InputFacts
  <2> QED BY <2>1, InputFacts, FunIsSeq
<1>3. \A p \in 1 .. Len(Input) : lens[p] = InLen(p)
  BY <1>1, InputFacts
<1>4. InEnds = Ends(lens)
  BY <1>1 DEF InEnds
<1>5. /\ Ends(lens) \in [0 .. Len(lens) -> Nat] /\ Ends(lens)[0] = 0
      /\ \A p \in 1 .. Len(lens) : Ends(lens)[p] = Ends(lens)[p - 1] + lens[p]
  BY <1>2, EndsFacts
<1>6. \A p, q \in 0 .. Len(lens) : p <= q => Ends(lens)[p] <= Ends(lens)[q]
  BY <1>2, EndsGrow
<1> QED BY <1>2, <1>3, <1>4, <1>5, <1>6

Sent(p) == [k \in 1 .. InLen(p) |-> <<p, k>>]

\* f is the input up to the end of packet n.
UpTo(f, n) ==
    /\ f \in Seq(InBytes) /\ Len(f) = InEnds[n]
    /\ \A p \in 1 .. n : \A k \in 1 .. InLen(p) : f[InEnds[p - 1] + k] = <<p, k>>

LEMMA SentIs ==
  ASSUME NEW p \in 1 .. Len(Input)
  PROVE  /\ Sent(p) \in Seq(InBytes) /\ Len(Sent(p)) = InLen(p)
         /\ \A k \in 1 .. InLen(p) : Sent(p)[k] = <<p, k>>
<1>1. InLen(p) \in Nat /\ p \in Nat
  BY InputFacts
<1>2. Sent(p) \in [1 .. InLen(p) -> InBytes]
  BY <1>1 DEF Sent, InBytes
<1> QED BY <1>1, <1>2, FunIsSeq DEF Sent

LEMMA UpToNext ==
  ASSUME NEW n \in 1 .. Len(Input) - 1, NEW f, UpTo(f, n)
  PROVE  UpTo(f \o Sent(n + 1), n + 1)
<1>1. PICK s : s = Sent(n + 1)
  OBVIOUS
<1>2. n + 1 \in 1 .. Len(Input) /\ (n + 1) - 1 = n /\ n \in 0 .. Len(Input)
  BY InputFacts
<1>3. /\ s \in Seq(InBytes) /\ Len(s) = InLen(n + 1)
      /\ \A k \in 1 .. InLen(n + 1) : s[k] = <<n + 1, k>>
  BY <1>1, <1>2, SentIs
<1>4. f \in Seq(InBytes) /\ Len(f) = InEnds[n]
  BY DEF UpTo
<1>5. PICK g : g = f \o s
  OBVIOUS
<1>6. /\ g \in Seq(InBytes) /\ Len(g) = Len(f) + Len(s)
      /\ \A k \in 1 .. Len(f) + Len(s) : g[k] = IF k <= Len(f) THEN f[k] ELSE s[k - Len(f)]
  BY <1>3, <1>4, <1>5, ConcatProperties
<1>7. /\ InEnds[n + 1] = InEnds[n] + InLen(n + 1)
      /\ InEnds[n] \in Nat /\ InLen(n + 1) \in Nat
  BY <1>2, InEndsFacts, InputFacts
<1>8. Len(g) = InEnds[n + 1]
  BY <1>3, <1>4, <1>6, <1>7
<1>9. ASSUME NEW p \in 1 .. n + 1, NEW k \in 1 .. InLen(p)
      PROVE  g[InEnds[p - 1] + k] = <<p, k>>
  <2>1. CASE p \in 1 .. n
    <3>1. p - 1 \in 0 .. Len(Input) /\ p \in 0 .. Len(Input) /\ p \in 1 .. Len(Input) /\ p <= n
      BY <1>2, <2>1
    <3>2. /\ InEnds[p] = InEnds[p - 1] + InLen(p) /\ InEnds[p - 1] \in Nat /\ InEnds[p] <= InEnds[n]
          /\ InLen(p) \in Nat
      BY <1>2, <3>1, InEndsFacts, InputFacts
    <3>3. InEnds[p - 1] + k \in 1 .. Len(f) + Len(s) /\ InEnds[p - 1] + k <= Len(f)
      <4>1. PICK x, l, y, z : x = InEnds[p - 1] /\ l = InLen(p) /\ y = Len(f) /\ z = Len(s)
        OBVIOUS
      <4>2. x \in Nat /\ l \in Nat /\ y \in Nat /\ z \in Nat /\ x + l <= y /\ k \in 1 .. l
        BY <1>3, <1>4, <1>7, <3>2, <4>1
      <4>3. x + k \in 1 .. y + z /\ x + k <= y
        BY <4>2
      <4> QED BY <4>1, <4>3
    <3>4. g[InEnds[p - 1] + k] = f[InEnds[p - 1] + k]
      BY <1>6, <3>3
    <3> QED BY <2>1, <3>4 DEF UpTo
  <2>2. CASE p = n + 1
    <3>1. /\ InEnds[n] + k \in 1 .. Len(f) + Len(s) /\ ~(InEnds[n] + k <= Len(f))
          /\ (InEnds[n] + k) - Len(f) = k
      BY <1>3, <1>4, <1>7, <2>2
    <3>2. g[InEnds[n] + k] = s[k]
      BY <1>6, <3>1
    <3> QED BY <1>2, <1>3, <2>2, <3>2
  <2>3. p \in 1 .. n \/ p = n + 1
    OBVIOUS
  <2> QED BY <2>1, <2>2, <2>3
<1>10. UpTo(g, n + 1)
  BY <1>6, <1>8, <1>9 DEF UpTo
<1> QED BY <1>1, <1>5, <1>10

\* Stream is the packets one after the other.
LEMMA StreamIs ==
  UpTo(Stream, Len(Input))
<1>1. PICK s : s = [p \in DOMAIN Input |-> Sent(p)]
  OBVIOUS
<1>2. Stream = FlattenSeq(s)
  BY <1>1, Zenon DEF Stream, Sent
<1>3. Len(s) = Len(Input) /\ \A p \in 1 .. Len(Input) : s[p] = Sent(p)
  BY <1>1, InputFacts
<1>4. CASE Len(Input) = 0
  <2>1. FlattenSeq(s) = s
    BY <1>3, <1>4 DEF FlattenSeq
  <2>2. s = <<>>
    <3>1. DOMAIN Input = {}
      BY <1>4, InputFacts
    <3> QED BY <1>1, <3>1
  <2> QED BY <1>2, <1>4, <2>1, <2>2, InEndsFacts DEF UpTo
<1>5. CASE Len(Input) # 0
  <2>1. PICK f : /\ f[1] = s[1]
                 /\ \A i \in 2 .. Len(Input) : f[i] = f[i - 1] \o s[i]
                 /\ FlattenSeq(s) = f[Len(Input)]
    <3>1. Len(s) \in Nat \ {0}
      BY <1>3, <1>5, InputFacts
    <3> QED BY <1>3, <3>1, FlattenIs
  <2> DEFINE n == Len(Input) - 1
             T == {k \in 0 .. n : UpTo(f[k + 1], k + 1)}
  <2>2. n \in Nat /\ 1 \in 1 .. Len(Input)
    BY <1>5, InputFacts
  <2>3. 0 \in T
    <3>1. f[1] = Sent(1)
      BY <1>3, <2>1, <2>2
    <3>2. /\ Sent(1) \in Seq(InBytes) /\ Len(Sent(1)) = InLen(1)
          /\ \A k \in 1 .. InLen(1) : Sent(1)[k] = <<1, k>>
      BY <2>2, SentIs
    <3>3. InEnds[1] = InLen(1) /\ InEnds[1 - 1] = 0 /\ InLen(1) \in Nat
      BY <2>2, InEndsFacts, InputFacts
    <3>4. ASSUME NEW p \in 1 .. 1, NEW k \in 1 .. InLen(p)
          PROVE  Sent(1)[InEnds[p - 1] + k] = <<p, k>>
      <4>1. p = 1
        OBVIOUS
      <4>2. InEnds[p - 1] + k = k
        BY <3>3, <4>1
      <4> QED BY <3>2, <4>1, <4>2
    <3>5. UpTo(Sent(1), 1)
      BY <3>2, <3>3, <3>4 DEF UpTo
    <3> QED BY <2>2, <3>1, <3>5
  <2>4. ASSUME NEW k \in 0 .. n - 1, k \in T PROVE k + 1 \in T
    <3>1. /\ k + 1 \in 1 .. Len(Input) - 1 /\ (k + 1) + 1 \in 2 .. Len(Input)
          /\ (k + 1) + 1 \in 1 .. Len(Input) /\ ((k + 1) + 1) - 1 = k + 1 /\ k + 1 \in 0 .. n
      BY <2>2, InputFacts
    <3>2. f[(k + 1) + 1] = f[k + 1] \o Sent((k + 1) + 1)
      BY <1>3, <2>1, <3>1
    <3>3. UpTo(f[k + 1], k + 1)
      BY <2>4
    <3>4. UpTo(f[(k + 1) + 1], (k + 1) + 1)
      BY <3>1, <3>2, <3>3, UpToNext
    <3> QED BY <3>1, <3>4
  <2>5. n \in T
    <3> HIDE DEF T, n
    <3>1. \A k \in 0 .. n : k \in T
      BY <2>2, <2>3, <2>4, Induction
    <3> QED BY <2>2, <3>1
  <2>6. n + 1 = Len(Input)
    BY InputFacts
  <2> QED BY <1>2, <2>1, <2>5, <2>6
<1> QED BY <1>4, <1>5

LEMMA StreamFacts ==
  /\ Stream \in Seq(InBytes) /\ Len(Stream) \in Nat /\ Len(Stream) = InEnds[Len(Input)]
  /\ \A p \in 1 .. Len(Input) : \A k \in 1 .. InLen(p) : Stream[InEnds[p - 1] + k] = <<p, k>>
BY StreamIs DEF UpTo
-----------------------------------------------------------------------------
(* What a write appends to the bytes on the wire.                          *)

LEMMA Layouts ==
  /\ Iovecs \in Seq(Nat) /\ Short \in Seq(Nat)
  /\ Total(Iovecs) \in Nat /\ Total(Short) = 2
<1>1. Iovecs \in Seq(Nat \ {0})
  BY PahoSocketAssumption
<1>2. Iovecs \in Seq(Nat)
  <2>1. Iovecs \in [1 .. Len(Iovecs) -> Nat] /\ Len(Iovecs) \in Nat
    BY <1>1
  <2> QED BY <2>1, FunIsSeq
<1>3. Short \in Seq(Nat) /\ Len(Short) = 1 /\ Short[1] = 2
  BY DEF Short
<1>4. Total(Iovecs) \in Nat
  BY <1>2, EndsFacts
<1>5. /\ Ends(Short)[0] = 0 /\ \A i \in 1 .. Len(Short) : Ends(Short)[i] = Ends(Short)[i - 1] + Short[i]
      /\ Total(Short) = Ends(Short)[Len(Short)]
  BY <1>3, EndsFacts
<1>6. 1 \in 1 .. Len(Short)
  BY <1>3
<1>7. Total(Short) = 2
  BY <1>3, <1>5, <1>6
<1> QED BY <1>2, <1>3, <1>4, <1>7

LEMMA FirstBytes ==
  ASSUME NEW p \in Nat, NEW d \in Nat, NEW t \in Nat, NEW n \in Nat, d + n <= t
  PROVE  IsBytes(SubSeq(Bytes(p, d, t, t), 1, n), p, d, d + n, t)
<1>1. PICK b : b = Bytes(p, d, t, t)
  OBVIOUS
<1>2. IsBytes(b, p, d, t, t)
  <2>1. d <= t
    OBVIOUS
  <2> QED BY <1>1, <2>1, BytesAre
<1>3. /\ b \in Seq(OutBytes) /\ Len(b) = t - d
      /\ \A k \in 1 .. t - d : b[k] = <<p, d + k, t>>
  BY <1>2 DEF IsBytes
<1>4. PICK c : c = SubSeq(b, 1, n)
  OBVIOUS
<1>5. c \in Seq(OutBytes) /\ Len(c) = n /\ \A k \in 1 .. n : c[k] = b[k]
  BY <1>3, <1>4
<1>6. (d + n) - d = n /\ \A k \in 1 .. n : k \in 1 .. t - d
  OBVIOUS
<1>7. \A k \in 1 .. n : c[k] = <<p, d + k, t>>
  BY <1>3, <1>5, <1>6
<1> QED BY <1>1, <1>4, <1>5, <1>6, <1>7 DEF IsBytes

\* The next bytes of a packet keep the wire whole.
LEMMA WireGrows ==
  ASSUME NEW w \in Seq(OutBytes), WholeBytes(w), NEW p \in Nat, NEW d \in Nat, NEW n \in Nat \ {0},
         NEW t \in Nat, NEW b, IsBytes(b, p, d, d + n, t), EndsWith(w, p, d, t),
         NEW s \in Nat, p <= s, \A i \in DOMAIN w : w[i][1] <= s
  PROVE  /\ w \o b \in Seq(OutBytes) /\ WholeBytes(w \o b)
         /\ \A i \in DOMAIN (w \o b) : (w \o b)[i][1] <= s
         /\ EndsWith(w \o b, p, d + n, t)
<1>1. PICK v : v = w \o b
  OBVIOUS
<1>2. b \in Seq(OutBytes) /\ Len(b) = n /\ \A k \in 1 .. n : b[k] = <<p, d + k, t>>
  <2>1. (d + n) - d = n
    OBVIOUS
  <2> QED BY <2>1 DEF IsBytes
<1>3. PICK m : m = Len(w)
  OBVIOUS
<1>4. m \in Nat /\ DOMAIN w = 1 .. m
  BY <1>3
<1>5. /\ v \in Seq(OutBytes) /\ Len(v) = m + n
      /\ \A k \in 1 .. m + n : v[k] = IF k <= m THEN w[k] ELSE b[k - m]
  <2>1. /\ v \in Seq(OutBytes) /\ Len(v) = Len(w) + Len(b)
        /\ \A k \in 1 .. Len(w) + Len(b) : v[k] = IF k <= Len(w) THEN w[k] ELSE b[k - Len(w)]
    BY <1>1, <1>2, ConcatProperties
  <2> QED BY <1>2, <1>3, <2>1, Zenon
<1>6. \A k \in 1 .. m + n : /\ k <= m => v[k] = w[k]
                            /\ k > m => v[k] = <<p, d + (k - m), t>>
  <2> SUFFICES ASSUME NEW k \in 1 .. m + n
               PROVE  (k <= m => v[k] = w[k]) /\ (k > m => v[k] = <<p, d + (k - m), t>>)
    OBVIOUS
  <2>1. k <= m => v[k] = w[k]
    BY <1>5
  <2>2. ASSUME k > m PROVE v[k] = <<p, d + (k - m), t>>
    <3>1. k - m \in 1 .. n /\ ~(k <= m)
      BY <1>4, <2>2
    <3>2. v[k] = b[k - m]
      BY <1>5, <3>1
    <3> QED BY <1>2, <3>1, <3>2
  <2> QED BY <2>1, <2>2
<1>7. DOMAIN v = 1 .. m + n
  BY <1>5
<1>8. ASSUME NEW i \in DOMAIN v PROVE v[i][1] <= s
  <2>1. CASE i <= m
    BY <1>4, <1>6, <1>7, <2>1
  <2>2. CASE ~(i <= m)
    <3>1. i > m /\ i \in 1 .. m + n
      BY <1>4, <1>7, <2>2
    <3>2. v[i] = <<p, d + (i - m), t>>
      BY <1>6, <3>1
    <3> QED BY <3>2
  <2> QED BY <2>1, <2>2
<1>9. EndsWith(v, p, d + n, t)
  <2>1. m + n \in 1 .. m + n /\ m + n > m /\ (m + n) - m = n /\ d + n # 0
    BY <1>4
  <2>2. v[m + n] = <<p, d + n, t>>
    BY <1>6, <2>1
  <2>3. v # <<>>
    BY <1>5, <2>1
  <2> QED BY <1>5, <2>1, <2>2, <2>3 DEF EndsWith
<1>10. v[1][2] = 1
  <2>1. 1 \in 1 .. m + n
    BY <1>4
  <2>2. CASE w = <<>>
    <3>1. m = 0 /\ d = 0
      BY <1>3, <2>2 DEF EndsWith
    <3>2. v[1] = <<p, d + (1 - m), t>>
      BY <1>6, <2>1, <3>1
    <3> QED BY <3>1, <3>2
  <2>3. CASE w # <<>>
    <3>1. m > 0
      BY <1>3, <2>3
    <3>2. v[1] = w[1]
      BY <1>4, <1>6, <2>1, <3>1
    <3> QED BY <2>3, <3>2 DEF WholeBytes
  <2> QED BY <2>2, <2>3
<1>11. ASSUME NEW i \in 1 .. m + n - 1 PROVE Followed(v[i], v[i + 1])
  <2>1. i \in 1 .. m + n /\ i + 1 \in 1 .. m + n
    BY <1>4
  <2>2. CASE i + 1 <= m
    <3>1. i \in 1 .. Len(w) - 1 /\ v[i] = w[i] /\ v[i + 1] = w[i + 1]
      BY <1>3, <1>4, <1>6, <2>1, <2>2
    <3>2. Followed(w[i], w[i + 1])
      BY <3>1 DEF WholeBytes
    <3> QED BY <3>1, <3>2
  <2>3. CASE i > m
    <3>1. i + 1 > m /\ d + ((i + 1) - m) = (d + (i - m)) + 1
      BY <1>4, <2>3
    <3>2. v[i] = <<p, d + (i - m), t>> /\ v[i + 1] = <<p, d + ((i + 1) - m), t>>
      BY <1>6, <2>1, <2>3, <3>1
    <3> QED BY <3>1, <3>2 DEF Followed
  <2>4. CASE i = m
    <3>1. /\ v[i] = w[m] /\ i + 1 > m /\ d + ((i + 1) - m) = d + 1 /\ w # <<>>
      BY <1>3, <1>4, <1>6, <2>1, <2>4
    <3>2. v[i + 1] = <<p, d + 1, t>>
      BY <1>6, <2>1, <3>1
    <3>3. w[m] \in OutBytes
      BY <1>4, <2>1, <2>4
    <3>4. CASE d = 0
      <4>1. w[m][2] = w[m][3] /\ w[m][1] < p
        BY <1>3, <3>1, <3>4 DEF EndsWith, EndsBefore
      <4>2. p > w[m][1] /\ d + 1 = 1
        BY <3>3, <3>4, <4>1 DEF OutBytes
      <4> QED BY <3>1, <3>2, <4>1, <4>2 DEF Followed
    <3>5. CASE d # 0
      <4>1. w[m] = <<p, d, t>>
        BY <1>3, <3>5 DEF EndsWith
      <4> QED BY <3>1, <3>2, <4>1 DEF Followed
    <3> QED BY <3>4, <3>5
  <2> QED BY <1>4, <2>2, <2>3, <2>4
<1>12. WholeBytes(v)
  <2>1. 1 .. Len(v) - 1 = 1 .. m + n - 1
    <3>1. Len(v) = m + n
      BY <1>5, Zenon
    <3> QED BY <1>4, <3>1
  <2>2. \A i \in 1 .. Len(v) - 1 : Followed(v[i], v[i + 1])
    BY <1>11, <2>1, Zenon
  <2> QED BY <1>10, <2>2 DEF WholeBytes
<1> QED BY <1>1, <1>5, <1>8, <1>9, <1>12

\* A write of n bytes from place d on, in terms of the packet.
LEMMA WritevIs ==
  ASSUME wire \in Seq(OutBytes), WholeBytes(wire),
         NEW lens \in Seq(Nat), NEW p \in Nat, NEW d \in Nat, NEW n \in Nat, d + n <= Total(lens),
         Writev(Left(p, lens, d), n), EndsWith(wire, p, d, Total(lens)),
         NEW s \in Nat, p <= s, \A i \in DOMAIN wire : wire[i][1] <= s
  PROVE  /\ wire' \in Seq(OutBytes) /\ WholeBytes(wire')
         /\ \A i \in DOMAIN wire' : wire'[i][1] <= s
         /\ EndsWith(wire', p, d + n, Total(lens))
<1>1. PICK t : t = Total(lens)
  OBVIOUS
<1>2. t \in Nat /\ d \in 0 .. t
  BY <1>1, EndsFacts
<1>3. Left(p, lens, d) = Bytes(p, d, t, t)
  BY <1>1, <1>2, LeftIs
<1>4. PICK b : b = SubSeq(Bytes(p, d, t, t), 1, n)
  OBVIOUS
<1>5. IsBytes(b, p, d, d + n, t)
  BY <1>1, <1>2, <1>4, FirstBytes
<1>6. wire' = wire \o b
  BY <1>3, <1>4 DEF Writev
<1>7. CASE n = 0
  <2>1. b = <<>>
    BY <1>5, <1>7 DEF IsBytes
  <2>2. wire' = wire
    BY <1>6, <2>1
  <2>3. d + n = d
    BY <1>7
  <2> QED BY <2>2, <2>3
<1>8. CASE n # 0
  <2>1. n \in Nat \ {0}
    BY <1>8
  <2>2. EndsWith(wire, p, d, t)
    BY <1>1
  <2>3. PICK w : w = wire
    OBVIOUS
  <2>4. /\ w \in Seq(OutBytes) /\ WholeBytes(w) /\ EndsWith(w, p, d, t)
        /\ \A i \in DOMAIN w : w[i][1] <= s
    BY <2>2, <2>3
  <2>5. /\ w \o b \in Seq(OutBytes) /\ WholeBytes(w \o b)
        /\ \A i \in DOMAIN (w \o b) : (w \o b)[i][1] <= s
        /\ EndsWith(w \o b, p, d + n, t)
    BY <1>2, <1>5, <2>1, <2>4, WireGrows
  <2> QED BY <1>1, <1>6, <2>3, <2>5
<1> QED BY <1>7, <1>8
-----------------------------------------------------------------------------
(* Steps that leave the wire or the input alone.                           *)

LEMMA WireSame ==
  ASSUME WireInv, UNCHANGED <<wire, writes, sent>>, up' => up, up' /\ ~broken' => ~broken
  PROVE  WireInv'
BY DEF WireInv, GoesOn

LEMMA ReadSame ==
  ASSUME ReadInv, UNCHANGED <<up, input>>,
         \/ rcv' = rcv \/ rcv' = "error"
         \/ rcv \notin {"len", "body", "error"} /\ rcv' \notin {"len", "body"}
  PROVE  ReadInv'
<1>1. UNCHANGED <<up, avail, read, queue, got>>
  BY DEF input
<1>2. /\ avail' \in 0 .. Len(Stream) /\ read' \in 0 .. avail'
      /\ queue' \in Queues /\ got' \in Seq(Seq(InBytes))
      /\ Len(got') <= Len(Input) /\ (~up' => queue' = NoQueue)
  BY <1>1 DEF ReadInv
<1>3. PacketsRead'
  BY <1>1 DEF ReadInv, PacketsRead
<1>4. ASSUME up', rcv' # "error" PROVE QueueInv'
  <2>1. QueueInv
    BY <1>1, <1>4 DEF ReadInv
  <2> QED BY <1>1, <1>4, <2>1 DEF QueueInv, Current
<1>5. Stream' = Stream
  OBVIOUS
<1> QED BY <1>2, <1>3, <1>4 DEF ReadInv

LEMMA NoQueueOk == NoQueue \in Queues
BY DEF NoQueue, Queues

LEMMA SocketInit == Init => SocketInv
<1> SUFFICES ASSUME Init PROVE SocketInv
  OBVIOUS
<1>1. SocketTypes
  <2>1. <<>> \in Seq(Writes)
    OBVIOUS
  <2> QED BY <2>1 DEF Init, SocketTypes, RcvPlaces
<1>2. Places
  BY DEF Init, Places, Reading
<1>3. WireInv
  BY DEF Init, WireInv, WholeBytes, EndsBefore
<1>4. ReadInv
  BY NoQueueOk, StreamFacts, InputFacts DEF Init, ReadInv, PacketsRead
<1> QED BY <1>1, <1>2, <1>3, <1>4 DEF SocketInv

\* What is true when a session has been closed.
Closed ==
    /\ up' = FALSE /\ broken' = broken
    /\ writes' = <<>> /\ wpending' = FALSE /\ wset' = FALSE /\ queue' = NoQueue
    /\ UNCHANGED <<avail, read, got>>
    /\ sent' \in Nat /\ wire' \in Seq(OutBytes) /\ WholeBytes(wire')
    /\ \A i \in DOMAIN wire' : wire'[i][1] <= sent'

\* No write is pending and the connection takes bytes: a new packet may begin.
LEMMA NewPacket ==
  ASSUME SocketInv, up, ~broken, ~wpending, pub # "register"
  PROVE  writes = <<>> /\ EndsWith(wire, sent + 1, 0, 2) /\ EndsWith(wire, sent + 1, 0, Total(Iovecs))
         /\ sent + 1 \in Nat /\ \A i \in DOMAIN wire : wire[i][1] <= sent + 1
<1>1. writes = <<>> /\ sent \in Nat
  BY DEF SocketInv, Places, SocketTypes
<1>2. EndsBefore(wire, sent + 1)
  BY <1>1 DEF SocketInv, WireInv
<1>3. ASSUME NEW i \in DOMAIN wire PROVE wire[i][1] <= sent + 1
  <2>1. wire[i] \in OutBytes /\ wire[i][1] <= sent
    BY DEF SocketInv, WireInv
  <2> QED BY <1>1, <2>1 DEF OutBytes
<1> QED BY <1>1, <1>2, <1>3 DEF EndsWith

\* A packet of one short buffer is written in part or in full.
LEMMA ShortWritten ==
  ASSUME SocketInv, up, ~broken, ~wpending, pub # "register", sent' = sent + 1,
         NEW n \in 0 .. 2, Writev(Left(sent + 1, Short, 0), n)
  PROVE  /\ sent' \in Nat /\ wire' \in Seq(OutBytes) /\ WholeBytes(wire')
         /\ \A i \in DOMAIN wire' : wire'[i][1] <= sent'
         /\ EndsWith(wire', sent', n, 2)
<1>1. /\ EndsWith(wire, sent + 1, 0, 2) /\ sent + 1 \in Nat
      /\ \A i \in DOMAIN wire : wire[i][1] <= sent + 1
  BY NewPacket
<1>2. wire \in Seq(OutBytes) /\ WholeBytes(wire)
  BY DEF SocketInv, WireInv
<1>3. Short \in Seq(Nat) /\ Total(Short) = 2 /\ n \in Nat /\ 0 + n <= Total(Short) /\ 0 + n = n
  BY Layouts
<1>4. PICK p : p = sent + 1
  OBVIOUS
<1>5. /\ p \in Nat /\ p <= p /\ EndsWith(wire, p, 0, Total(Short)) /\ Writev(Left(p, Short, 0), n)
      /\ \A i \in DOMAIN wire : wire[i][1] <= p
  BY <1>1, <1>3, <1>4
<1>6. /\ wire' \in Seq(OutBytes) /\ WholeBytes(wire')
      /\ \A i \in DOMAIN wire' : wire'[i][1] <= p
      /\ EndsWith(wire', p, 0 + n, Total(Short))
  BY <1>2, <1>3, <1>5, WritevIs
<1> QED BY <1>3, <1>4, <1>5, <1>6

LEMMA OneElement ==
  ASSUME NEW S, NEW s \in Seq(S), Len(s) = 1
  PROVE  Tail(s) = <<>> /\ s[1] \in S /\ DOMAIN s = {1}
<1>1. Tail(s) \in Seq(S) /\ Len(Tail(s)) = 0
  OBVIOUS
<1>2. Tail(s) = <<>>
  BY <1>1, EmptySeq
<1>3. 1 \in 1 .. Len(s) /\ DOMAIN s = 1 .. 1 /\ 1 .. 1 = {1}
  OBVIOUS
<1>4. s[1] \in S
  BY <1>3
<1> QED BY <1>2, <1>3, <1>4

LEMMA SocketCloses ==
  ASSUME SocketInv, SocketClose, pub # "register", rcv \notin {"continue", "remove", "fail"}
  PROVE  writes' = <<>> /\ wpending' = FALSE /\ wset' = FALSE /\ queue' = NoQueue
<1>1. writes = <<>> \/ Len(writes) = 1
  BY DEF SocketInv, Places, SocketTypes
<1>2. writes \in Seq(Writes)
  BY DEF SocketInv, SocketTypes
<1>3. Len(writes) = 1 => Tail(writes) = <<>>
  BY <1>2, OneElement
<1> QED BY <1>1, <1>3 DEF SocketClose

LEMMA SessionCloses ==
  ASSUME SocketInv, MQTTClient_closeSession, up, pub # "register",
         rcv \notin {"continue", "remove", "fail"}
  PROVE  Closed
<1>1. writes' = <<>> /\ wpending' = FALSE /\ wset' = FALSE /\ queue' = NoQueue
  BY SocketCloses DEF MQTTClient_closeSession
<1>2. up' = FALSE /\ broken' = broken /\ UNCHANGED <<avail, read, got>>
  BY DEF MQTTClient_closeSession
<1>3. /\ sent' \in Nat /\ wire' \in Seq(OutBytes) /\ WholeBytes(wire')
      /\ \A i \in DOMAIN wire' : wire'[i][1] <= sent'
  <2>1. CASE wpending \/ broken
    BY <2>1 DEF MQTTClient_closeSession, SocketInv, SocketTypes, WireInv
  <2>2. CASE ~(wpending \/ broken)
    <3>1. PICK n \in 0 .. 2 : Writev(Left(sent + 1, Short, 0), n)
      BY <2>2 DEF MQTTClient_closeSession
    <3>2. sent' = sent + 1
      BY <2>2 DEF MQTTClient_closeSession
    <3> QED BY <2>2, <3>1, <3>2, ShortWritten
  <2> QED BY <2>1, <2>2
<1> QED BY <1>1, <1>2, <1>3 DEF Closed

\* A closed session satisfies the invariant wherever the threads are then.
LEMMA AfterClosed ==
  ASSUME SocketInv, Closed, pwset' \in BOOLEAN, pub' \in {"idle", "wait"},
         rcv' \in {"idle", "select", "ready", "retry", "error"}, owner' \in {"none", "rcv"},
         owner' = "rcv" => rcv' \in {"retry", "error"}
  PROVE  SocketInv'
<1>1. SocketTypes'
  <2>1. <<>> \in Seq(Writes)
    OBVIOUS
  <2> QED BY <2>1 DEF SocketInv, SocketTypes, Closed, RcvPlaces
<1>2. Places'
  BY DEF Places, Closed, Reading
<1>3. WireInv'
  BY DEF WireInv, Closed
<1>4. ReadInv'
  <2>1. PacketsRead'
    BY DEF SocketInv, ReadInv, PacketsRead, Closed
  <2> QED BY <2>1, NoQueueOk DEF SocketInv, ReadInv, Closed
<1> QED BY <1>1, <1>2, <1>3, <1>4 DEF SocketInv
-----------------------------------------------------------------------------
(* The steps of the publisher, the network and the application.            *)

LEMMA ConnectStep ==
  ASSUME SocketInv, Connect
  PROVE  SocketInv'
<1>1. /\ ~up /\ pub = "idle" /\ owner = "none"
      /\ up' = TRUE /\ broken' = FALSE /\ wire' = <<>> /\ avail' = 0 /\ read' = 0 /\ got' = <<>>
      /\ UNCHANGED <<writes, wpending, wset, pwset, queue, pub, rcv, owner, sent>>
  BY DEF Connect, pend
<1>2. ~wpending /\ writes = <<>> /\ queue = NoQueue
  BY <1>1 DEF SocketInv, Places, ReadInv, SocketTypes
<1>3. SocketTypes'
  BY <1>1 DEF SocketInv, SocketTypes
<1>4. Places'
  BY <1>1, <1>2 DEF SocketInv, Places, Reading
<1>5. WireInv'
  <2>1. <<>> \in Seq(OutBytes)
    OBVIOUS
  <2> QED BY <1>1, <1>2, <2>1 DEF WireInv, WholeBytes, EndsBefore
<1>6. ReadInv'
  <2>1. rcv \notin {"len", "body"}
    BY <1>1 DEF SocketInv, Places, Reading
  <2>2. <<>> \in Seq(Seq(InBytes)) /\ Len(<<>>) = 0
    OBVIOUS
  <2>3. PacketsRead'
    BY <1>1 DEF PacketsRead
  <2>4. QueueInv'
    <3>1. queue'.header = <<>> /\ queue'.data = <<>> /\ queue'.index = 0 /\ queue'.listed = FALSE
      BY <1>1, <1>2 DEF NoQueue
    <3> QED BY <1>1, <2>1, <3>1, InEndsFacts DEF QueueInv
  <2> QED BY <1>1, <1>2, <2>2, <2>3, <2>4, NoQueueOk, StreamFacts, InputFacts DEF ReadInv
<1> QED BY <1>3, <1>4, <1>5, <1>6 DEF SocketInv

\* A new packet is put to the socket: what is left becomes a pending write.
LEMMA PutDatasIs ==
  ASSUME SocketInv, up, ~broken, ~wpending, pub # "register", NEW lens \in {Iovecs, Short},
         NEW n \in 0 .. Total(lens), PutDatas(lens, n)
  PROVE  /\ sent' \in Nat /\ wire' \in Seq(OutBytes) /\ WholeBytes(wire')
         /\ \A i \in DOMAIN wire' : wire'[i][1] <= sent'
         /\ n = Total(lens) => writes' = <<>> /\ EndsBefore(wire', sent' + 1)
         /\ n # Total(lens) => /\ writes' \in Seq(Writes) /\ Len(writes') = 1
                               /\ \A i \in DOMAIN writes' : GoesOn(wire, writes[i])'
<1>1. /\ EndsBefore(wire, sent + 1) /\ sent + 1 \in Nat /\ sent \in Nat /\ writes = <<>>
      /\ \A i \in DOMAIN wire : wire[i][1] <= sent + 1
  BY NewPacket DEF EndsWith, SocketInv, SocketTypes
<1>2. wire \in Seq(OutBytes) /\ WholeBytes(wire)
  BY DEF SocketInv, WireInv
<1>3. PICK t : t = Total(lens)
  OBVIOUS
<1>4. lens \in Seq(Nat) /\ t \in Nat /\ n \in Nat /\ n <= t /\ 0 + n <= Total(lens) /\ 0 + n = n
  BY <1>3, Layouts
<1>5. PICK p : p = sent + 1
  OBVIOUS
<1>6. /\ p \in Nat /\ p <= p /\ EndsWith(wire, p, 0, Total(lens)) /\ Writev(Left(p, lens, 0), n)
      /\ \A i \in DOMAIN wire : wire[i][1] <= p
  BY <1>1, <1>5 DEF EndsWith, PutDatas
<1>7. /\ wire' \in Seq(OutBytes) /\ WholeBytes(wire')
      /\ \A i \in DOMAIN wire' : wire'[i][1] <= p
      /\ EndsWith(wire', p, 0 + n, Total(lens))
  BY <1>2, <1>4, <1>6, WritevIs
<1>8. sent' = p /\ EndsWith(wire', p, n, t)
  BY <1>3, <1>4, <1>5, <1>7 DEF PutDatas
<1>9. CASE n = t
  <2>1. writes' = <<>>
    BY <1>1, <1>3, <1>9 DEF PutDatas
  <2>2. EndsBefore(wire', p + 1)
    <3>1. CASE n = 0
      <4>1. EndsBefore(wire', p)
        BY <1>8, <3>1 DEF EndsWith
      <4>2. ASSUME wire' # <<>> PROVE wire'[Len(wire')][1] < p + 1
        <5>1. wire'[Len(wire')] \in OutBytes
          BY <1>7, <4>2
        <5> QED BY <1>6, <4>1, <4>2, <5>1 DEF EndsBefore, OutBytes
      <4> QED BY <4>1, <4>2 DEF EndsBefore
    <3>2. CASE n # 0
      <4>1. wire'[Len(wire')] = <<p, n, t>>
        BY <1>8, <3>2 DEF EndsWith
      <4> QED BY <1>6, <1>9, <4>1 DEF EndsBefore
    <3> QED BY <3>1, <3>2
  <2> QED BY <1>3, <1>6, <1>7, <1>8, <1>9, <2>1, <2>2
<1>10. CASE n # t
  <2>1. PICK pw : pw = [pkt |-> p, lens |-> lens, bytes |-> n]
    OBVIOUS
  <2>2. pw \in Writes /\ pw.pkt = p /\ pw.lens = lens /\ pw.bytes = n
    BY <1>4, <1>6, <2>1 DEF Writes
  <2>3. writes' = <<pw>>
    BY <1>1, <1>3, <1>5, <1>10, <2>1 DEF PutDatas
  <2>4. writes' \in Seq(Writes) /\ Len(writes') = 1 /\ DOMAIN writes' = {1} /\ writes'[1] = pw
    BY <2>2, <2>3
  <2>5. n < t
    BY <1>4, <1>10
  <2>6. GoesOn(wire, writes[1])'
    BY <1>3, <1>6, <1>8, <2>2, <2>4, <2>5 DEF GoesOn
  <2> QED BY <1>3, <1>6, <1>7, <1>8, <1>10, <2>4, <2>6
<1> QED BY <1>9, <1>10

LEMMA PublishStep ==
  ASSUME SocketInv, Publish
  PROVE  SocketInv'
<1>1. /\ pub = "idle" /\ up /\ owner = "none" /\ ~wpending
      /\ UNCHANGED <<up, broken, wpending, wset, pwset, avail, read, queue, got, rcv>>
  BY DEF Publish, input
<1>2. ReadInv'
  BY <1>1, ReadSame DEF SocketInv, input
<1>3. rcv \notin Reading \cup {"answer", "continue", "remove", "fail"}
  BY <1>1 DEF SocketInv, Places
<1>4. CASE broken
  <2>1. pub' = "close" /\ owner' = "pub" /\ UNCHANGED <<wire, writes, sent>>
    BY <1>4 DEF Publish
  <2>2. SocketTypes'
    BY <1>1, <2>1 DEF SocketInv, SocketTypes
  <2>3. Places'
    BY <1>1, <1>3, <1>4, <2>1 DEF SocketInv, Places
  <2>4. WireInv'
    BY <1>1, <2>1, WireSame DEF SocketInv
  <2> QED BY <1>2, <2>2, <2>3, <2>4 DEF SocketInv
<1>5. CASE ~broken
  <2>1. PICK n \in 0 .. Total(Iovecs) :
           /\ PutDatas(Iovecs, n)
           /\ IF n = Total(Iovecs) THEN UNCHANGED <<pub, owner>>
              ELSE pub' = "register" /\ owner' = "pub"
    BY <1>5 DEF Publish
  <2>2. /\ sent' \in Nat /\ wire' \in Seq(OutBytes) /\ WholeBytes(wire')
        /\ \A i \in DOMAIN wire' : wire'[i][1] <= sent'
        /\ n = Total(Iovecs) => writes' = <<>> /\ EndsBefore(wire', sent' + 1)
        /\ n # Total(Iovecs) => /\ writes' \in Seq(Writes) /\ Len(writes') = 1
                                /\ \A i \in DOMAIN writes' : GoesOn(wire, writes[i])'
    BY <1>1, <1>5, <2>1, PutDatasIs
  <2>3. <<>> \in Seq(Writes) /\ DOMAIN <<>> = {}
    OBVIOUS
  <2>4. CASE n = Total(Iovecs)
    <3>1. UNCHANGED <<pub, owner>> /\ writes' = <<>>
      BY <2>1, <2>2, <2>4
    <3>2. SocketTypes'
      BY <1>1, <2>2, <2>3, <3>1 DEF SocketInv, SocketTypes
    <3>3. Places'
      BY <1>1, <1>3, <3>1 DEF SocketInv, Places
    <3>4. WireInv'
      BY <2>2, <2>3, <2>4, <3>1 DEF WireInv
    <3> QED BY <1>2, <3>2, <3>3, <3>4 DEF SocketInv
  <2>5. CASE n # Total(Iovecs)
    <3>1. pub' = "register" /\ owner' = "pub" /\ Len(writes') = 1 /\ writes' \in Seq(Writes)
      BY <2>1, <2>2, <2>5
    <3>2. SocketTypes'
      BY <1>1, <2>2, <3>1 DEF SocketInv, SocketTypes
    <3>3. Places'
      BY <1>1, <1>3, <3>1 DEF SocketInv, Places
    <3>4. WireInv'
      <4>1. writes' # <<>>
        BY <3>1
      <4> QED BY <2>2, <2>5, <4>1 DEF WireInv
    <3> QED BY <1>2, <3>2, <3>3, <3>4 DEF SocketInv
  <2> QED BY <2>4, <2>5
<1> QED BY <1>4, <1>5

LEMMA RegisterStep ==
  ASSUME SocketInv, Register
  PROVE  SocketInv'
<1>1. /\ pub = "register" /\ wpending' = TRUE /\ wset' = TRUE /\ pub' = "wait" /\ owner' = "none"
      /\ UNCHANGED <<up, broken, wire, writes, pwset, avail, read, queue, got, rcv, sent>>
  BY DEF Register, net, input
<1>2. owner = "pub" /\ up /\ ~wpending /\ Len(writes) = 1
  BY <1>1 DEF SocketInv, Places
<1>4. rcv \notin Reading \cup {"answer", "continue", "remove", "fail"}
  BY <1>2 DEF SocketInv, Places
<1>5. SocketTypes'
  BY <1>1 DEF SocketInv, SocketTypes
<1>6. Places'
  BY <1>1, <1>2, <1>4 DEF Places
<1>7. WireInv'
  BY <1>1, WireSame DEF SocketInv
<1>8. ReadInv'
  BY <1>1, ReadSame DEF SocketInv, input
<1> QED BY <1>5, <1>6, <1>7, <1>8 DEF SocketInv

LEMMA PublishWaitsStep ==
  ASSUME SocketInv, PublishWaits
  PROVE  SocketInv'
<1>1. /\ pub = "wait" /\ owner = "none" /\ pub' = "idle"
      /\ UNCHANGED <<up, broken, wire, writes, wpending, wset, pwset, avail, read, queue, got,
                     rcv, owner, sent>>
  BY DEF PublishWaits, net, pend, input
<1>2. SocketTypes'
  BY <1>1 DEF SocketInv, SocketTypes
<1>3. Places'
  BY <1>1 DEF SocketInv, Places
<1>4. WireInv'
  BY <1>1, WireSame DEF SocketInv
<1>5. ReadInv'
  BY <1>1, ReadSame DEF SocketInv, input
<1> QED BY <1>2, <1>3, <1>4, <1>5 DEF SocketInv

LEMMA PublishFailsStep ==
  ASSUME SocketInv, PublishFails
  PROVE  SocketInv'
<1>1. /\ pub = "close" /\ ~InSocketMutex /\ MQTTClient_closeSession
      /\ pub' = "idle" /\ owner' = "none" /\ UNCHANGED <<pwset, rcv>>
  BY DEF PublishFails
<1>2. owner = "pub" /\ up
  BY <1>1 DEF SocketInv, Places
<1>3. rcv \in {"idle", "select", "ready", "retry", "error"} /\ pwset \in BOOLEAN
  BY <1>1, <1>2 DEF SocketInv, Places, SocketTypes, RcvPlaces, InSocketMutex
<1>4. Closed
  BY <1>1, <1>2, <1>3, SessionCloses
<1> QED BY <1>1, <1>3, <1>4, AfterClosed

LEMMA ArriveStep ==
  ASSUME SocketInv, Arrive
  PROVE  SocketInv'
<1>1. /\ avail < Len(Stream) /\ avail' = avail + 1
      /\ UNCHANGED <<up, broken, wire, writes, wpending, wset, pwset, read, queue, got, pub,
                     rcv, owner, sent>>
  BY DEF Arrive, net, pend
<1>2. SocketTypes'
  BY <1>1 DEF SocketInv, SocketTypes
<1>3. Places'
  BY <1>1 DEF SocketInv, Places
<1>4. WireInv'
  BY <1>1, WireSame DEF SocketInv
<1>5. ReadInv'
  <2>1. avail' \in 0 .. Len(Stream) /\ read' \in 0 .. avail'
    BY <1>1, StreamFacts DEF SocketInv, ReadInv
  <2>2. PacketsRead'
    BY <1>1 DEF SocketInv, ReadInv, PacketsRead
  <2>3. up' /\ rcv' # "error" => QueueInv'
    BY <1>1 DEF SocketInv, ReadInv, QueueInv, Current
  <2> QED BY <1>1, <2>1, <2>2, <2>3 DEF SocketInv, ReadInv
<1> QED BY <1>2, <1>3, <1>4, <1>5 DEF SocketInv

LEMMA BreakStep ==
  ASSUME SocketInv, Break
  PROVE  SocketInv'
<1>1. /\ broken' = TRUE
      /\ UNCHANGED <<up, wire, writes, wpending, wset, pwset, avail, read, queue, got, pub,
                     rcv, owner, sent>>
  BY DEF Break, pend, input
<1>2. SocketTypes'
  BY <1>1 DEF SocketInv, SocketTypes
<1>3. Places'
  BY <1>1 DEF SocketInv, Places
<1>4. WireInv'
  BY <1>1, WireSame DEF SocketInv
<1>5. ReadInv'
  BY <1>1, ReadSame DEF SocketInv, input
<1> QED BY <1>2, <1>3, <1>4, <1>5 DEF SocketInv
-----------------------------------------------------------------------------
(* The steps of the receive thread.                                        *)

LEMMA SelectStep ==
  ASSUME SocketInv, Select \/ SelectWritable \/ SelectDone \/ CycleBegins
  PROVE  SocketInv'
<1>1. /\ UNCHANGED <<up, broken, wire, writes, wpending, wset, avail, read, queue, got, pub, sent>>
      /\ rcv \in {"idle", "select", "ready"}
      /\ rcv' \in {"select", "continue", "ready", "retry", "head"}
      /\ rcv' \in {"head", "retry"} /\ rcv = "ready"
           => owner = "none" /\ owner' = "rcv" /\ (rcv' = "head" => up)
      /\ rcv # "ready" => owner' = owner /\ rcv' # "head"
      /\ rcv = "ready" => rcv' \in {"head", "retry"}
      /\ rcv' = "continue" => wpending
      /\ pwset' \in {pwset, wset}
  BY DEF Select, SelectWritable, SelectDone, CycleBegins, net, pend, input, SocketInv, SocketTypes
<1>2. SocketTypes'
  BY <1>1 DEF SocketInv, SocketTypes, RcvPlaces, Reading
<1>3. Places'
  BY <1>1 DEF SocketInv, Places, Reading
<1>4. WireInv'
  BY <1>1, WireSame DEF SocketInv
<1>5. ReadInv'
  BY <1>1, ReadSame DEF SocketInv, input
<1> QED BY <1>2, <1>3, <1>4, <1>5 DEF SocketInv

LEMMA ContinueStep ==
  ASSUME SocketInv, Socket_continueWrite
  PROVE  SocketInv'
<1>1. /\ rcv = "continue"
      /\ UNCHANGED <<up, broken, wpending, pwset, avail, read, queue, got, pub, owner, sent>>
  BY DEF Socket_continueWrite, input
<1>2. wpending /\ Len(writes) = 1 /\ up /\ pub # "register" /\ sent \in Nat /\ writes \in Seq(Writes)
  BY <1>1 DEF SocketInv, Places, SocketTypes
<1>3. Tail(writes) = <<>> /\ writes[1] \in Writes /\ DOMAIN writes = {1}
  BY <1>2, OneElement
<1>4. PICK pw : pw = writes[1]
  OBVIOUS
<1>5. /\ pw.pkt \in Nat /\ pw.bytes \in Nat /\ pw.lens \in {Iovecs, Short}
  BY <1>3, <1>4 DEF Writes
<1>6. PICK t : t = Total(pw.lens)
  OBVIOUS
<1>7. pw.lens \in Seq(Nat) /\ t \in Nat
  BY <1>5, <1>6, Layouts
<1>8. pw.pkt <= sent /\ pw.bytes < t /\ EndsWith(wire, pw.pkt, pw.bytes, t)
  BY <1>2, <1>3, <1>4, <1>6 DEF SocketInv, WireInv, GoesOn
<1>9. /\ wire \in Seq(OutBytes) /\ WholeBytes(wire)
      /\ \A i \in DOMAIN wire : wire[i][1] <= sent
  BY DEF SocketInv, WireInv
<1>10. rcv' \in {"retry", "remove", "fail"} => ReadInv'
  BY <1>1, ReadSame DEF SocketInv, input
<1>11. <<>> \in Seq(Writes) /\ DOMAIN <<>> = {}
  OBVIOUS
<1>12. CASE broken
  <2>1. writes' = <<>> /\ wset' = FALSE /\ rcv' = "fail" /\ UNCHANGED wire
    BY <1>3, <1>12 DEF Socket_continueWrite
  <2>2. SocketTypes'
    BY <1>1, <1>11, <2>1 DEF SocketInv, SocketTypes, RcvPlaces
  <2>3. Places'
    BY <1>1, <1>2, <1>12, <2>1 DEF SocketInv, Places, Reading
  <2>4. WireInv'
    BY <1>1, <1>9, <1>11, <1>12, <2>1 DEF WireInv
  <2> QED BY <1>10, <2>1, <2>2, <2>3, <2>4 DEF SocketInv
<1>13. CASE ~broken
  <2>1. PICK rest : rest = Left(pw.pkt, pw.lens, pw.bytes)
    OBVIOUS
  <2>2. rest = Bytes(pw.pkt, pw.bytes, t, t)
    <3>1. pw.bytes \in 0 .. Total(pw.lens)
      BY <1>5, <1>6, <1>7, <1>8
    <3> QED BY <1>5, <1>6, <1>7, <2>1, <3>1, LeftIs
  <2>3. Len(rest) = t - pw.bytes
    <3>1. IsBytes(rest, pw.pkt, pw.bytes, t, t)
      BY <1>5, <1>7, <1>8, <2>2, BytesAre
    <3> QED BY <3>1 DEF IsBytes
  <2>4. PICK n \in 1 .. Len(rest) :
           /\ Writev(rest, n)
           /\ IF pw.bytes + n = t
              THEN writes' = Tail(writes) /\ wset' = FALSE /\ rcv' = "remove"
              ELSE /\ writes' = [writes EXCEPT ![1].bytes = @ + n]
                   /\ rcv' = "retry" /\ UNCHANGED wset
    BY <1>4, <1>6, <1>13, <2>1 DEF Socket_continueWrite
  <2>5. n \in Nat /\ pw.bytes + n <= t /\ n > 0 /\ pw.bytes + n # 0 /\ pw.bytes + n \in Nat
    BY <1>5, <1>7, <1>8, <2>3, <2>4
  <2>6. /\ wire' \in Seq(OutBytes) /\ WholeBytes(wire')
        /\ \A i \in DOMAIN wire' : wire'[i][1] <= sent
        /\ EndsWith(wire', pw.pkt, pw.bytes + n, t)
    <3>1. /\ pw.bytes + n <= Total(pw.lens) /\ Writev(Left(pw.pkt, pw.lens, pw.bytes), n)
          /\ EndsWith(wire, pw.pkt, pw.bytes, Total(pw.lens))
      BY <1>6, <1>8, <2>1, <2>4, <2>5
    <3>2. PICK p, d, lens : p = pw.pkt /\ d = pw.bytes /\ lens = pw.lens
      OBVIOUS
    <3>3. /\ p \in Nat /\ d \in Nat /\ lens \in Seq(Nat) /\ p <= sent /\ d + n <= Total(lens)
          /\ Writev(Left(p, lens, d), n) /\ EndsWith(wire, p, d, Total(lens))
      BY <1>5, <1>7, <1>8, <3>1, <3>2
    <3>4. /\ wire' \in Seq(OutBytes) /\ WholeBytes(wire')
          /\ \A i \in DOMAIN wire' : wire'[i][1] <= sent
          /\ EndsWith(wire', p, d + n, Total(lens))
      BY <1>2, <1>9, <2>5, <3>3, WritevIs
    <3> QED BY <1>6, <3>2, <3>4
  <2>7. wire' # <<>> /\ wire'[Len(wire')] = <<pw.pkt, pw.bytes + n, t>>
    BY <2>5, <2>6 DEF EndsWith
  <2>8. CASE pw.bytes + n = t
    <3>1. writes' = <<>> /\ wset' = FALSE /\ rcv' = "remove"
      BY <1>3, <2>4, <2>8
    <3>2. SocketTypes'
      BY <1>1, <1>11, <3>1 DEF SocketInv, SocketTypes, RcvPlaces
    <3>3. Places'
      BY <1>1, <1>2, <3>1 DEF SocketInv, Places, Reading
    <3>4. EndsBefore(wire', sent' + 1)
      BY <1>1, <1>2, <1>5, <1>8, <2>7, <2>8 DEF EndsBefore
    <3>5. WireInv'
      BY <1>1, <1>11, <2>6, <3>1, <3>4 DEF WireInv
    <3> QED BY <1>10, <3>1, <3>2, <3>3, <3>5 DEF SocketInv
  <2>9. CASE pw.bytes + n # t
    <3>1. rcv' = "retry" /\ UNCHANGED wset /\ writes' = [writes EXCEPT ![1].bytes = @ + n]
      BY <2>4, <2>9
    <3>2. PICK qw : qw = [pw EXCEPT !.bytes = @ + n]
      OBVIOUS
    <3>3. qw \in Writes /\ qw.pkt = pw.pkt /\ qw.lens = pw.lens /\ qw.bytes = pw.bytes + n
      BY <1>3, <1>4, <2>5, <3>2 DEF Writes
    <3>4. writes' = [writes EXCEPT ![1] = qw]
      BY <1>4, <3>1, <3>2
    <3>5. writes' \in Seq(Writes) /\ Len(writes') = 1 /\ DOMAIN writes' = {1} /\ writes'[1] = qw
      <4>1. 1 \in 1 .. Len(writes)
        BY <1>2
      <4>2. writes' \in Seq(Writes) /\ Len(writes') = Len(writes) /\ writes'[1] = qw
        <5>1. /\ [writes EXCEPT ![1] = qw] \in Seq(Writes)
              /\ Len([writes EXCEPT ![1] = qw]) = Len(writes)
          <6>1. writes \in [1 .. 1 -> Writes]
            BY <1>2
          <6>2. [writes EXCEPT ![1] = qw] \in [1 .. 1 -> Writes]
            BY <3>3, <6>1
          <6> QED BY <1>2, <6>2, FunIsSeq
        <5>2. [writes EXCEPT ![1] = qw][1] = qw
          BY <1>3
        <5> QED BY <3>4, <5>1, <5>2
      <4> QED BY <1>2, <4>2, OneElement
    <3>6. SocketTypes'
      BY <1>1, <3>1, <3>5 DEF SocketInv, SocketTypes, RcvPlaces
    <3>7. Places'
      BY <1>1, <1>2, <3>1, <3>5 DEF SocketInv, Places, Reading
    <3>8. GoesOn(wire, writes[1])'
      <4>1. pw.bytes + n < t
        BY <1>7, <2>5, <2>9
      <4> QED BY <1>1, <1>6, <1>8, <2>6, <3>3, <3>5, <4>1 DEF GoesOn
    <3>9. WireInv'
      <4>1. writes' # <<>>
        BY <3>5
      <4> QED BY <1>1, <2>6, <3>5, <3>8, <4>1 DEF WireInv
    <3> QED BY <1>10, <3>1, <3>6, <3>7, <3>9 DEF SocketInv
  <2> QED BY <2>8, <2>9
<1> QED BY <1>12, <1>13

LEMMA RemoveStep ==
  ASSUME SocketInv, RemovePending
  PROVE  SocketInv'
<1>1. /\ rcv \in {"remove", "fail"} /\ wpending' = FALSE /\ rcv' \in {"ready", "retry"}
      /\ UNCHANGED <<up, broken, wire, writes, wset, pwset, avail, read, queue, got, pub, owner, sent>>
  BY DEF RemovePending, net, input
<1>2. wpending /\ writes = <<>> /\ pub # "register"
  BY <1>1 DEF SocketInv, Places
<1>3. SocketTypes'
  BY <1>1 DEF SocketInv, SocketTypes, RcvPlaces
<1>4. Places'
  BY <1>1, <1>2 DEF SocketInv, Places, Reading
<1>5. WireInv'
  BY <1>1, WireSame DEF SocketInv
<1>6. ReadInv'
  BY <1>1, ReadSame DEF SocketInv, input
<1> QED BY <1>3, <1>4, <1>5, <1>6 DEF SocketInv

LEMMA AnswerStep ==
  ASSUME SocketInv, Answer
  PROVE  SocketInv'
<1>1. /\ rcv = "answer" /\ rcv' \in {"retry", "error"}
      /\ UNCHANGED <<up, broken, pwset, avail, read, queue, got, pub, owner>>
  BY DEF Answer, input
<1>2. owner = "rcv" /\ up /\ pub \notin {"register", "close"}
  BY <1>1 DEF SocketInv, Places
<1>3. ReadInv'
  BY <1>1, ReadSame DEF SocketInv, input
<1>4. CASE wpending \/ broken
  <2>1. rcv' = "error" /\ UNCHANGED <<wire, writes, wpending, wset, sent>>
    BY <1>4 DEF Answer, pend
  <2>2. SocketTypes'
    BY <1>1, <2>1 DEF SocketInv, SocketTypes, RcvPlaces
  <2>3. Places'
    BY <1>1, <2>1 DEF SocketInv, Places, Reading
  <2>4. WireInv'
    BY <1>1, <2>1, WireSame DEF SocketInv
  <2> QED BY <1>3, <2>2, <2>3, <2>4 DEF SocketInv
<1>5. CASE ~wpending /\ ~broken
  <2>1. PICK n \in 0 .. 2 : /\ PutDatas(Short, n)
                            /\ IF n < 2 THEN wpending' = TRUE /\ wset' = TRUE
                               ELSE UNCHANGED <<wpending, wset>>
    BY <1>5 DEF Answer
  <2>2. rcv' = "retry"
    BY <1>5 DEF Answer
  <2>3. n \in 0 .. Total(Short) /\ Total(Short) = 2 /\ Short \in {Iovecs, Short}
    BY Layouts
  <2>4. /\ sent' \in Nat /\ wire' \in Seq(OutBytes) /\ WholeBytes(wire')
        /\ \A i \in DOMAIN wire' : wire'[i][1] <= sent'
        /\ n = 2 => writes' = <<>> /\ EndsBefore(wire', sent' + 1)
        /\ n # 2 => /\ writes' \in Seq(Writes) /\ Len(writes') = 1
                    /\ \A i \in DOMAIN writes' : GoesOn(wire, writes[i])'
    BY <1>2, <1>5, <2>1, <2>3, PutDatasIs
  <2>5. <<>> \in Seq(Writes) /\ DOMAIN <<>> = {}
    OBVIOUS
  <2>6. CASE n = 2
    <3>1. UNCHANGED <<wpending, wset>> /\ writes' = <<>>
      BY <2>1, <2>4, <2>6
    <3>2. SocketTypes'
      BY <1>1, <2>2, <2>4, <2>5, <3>1 DEF SocketInv, SocketTypes, RcvPlaces
    <3>3. Places'
      BY <1>1, <1>2, <1>5, <2>2, <3>1 DEF SocketInv, Places, Reading
    <3>4. WireInv'
      BY <2>4, <2>5, <2>6, <3>1 DEF WireInv
    <3> QED BY <1>3, <3>2, <3>3, <3>4 DEF SocketInv
  <2>7. CASE n # 2
    <3>1. wpending' = TRUE /\ wset' = TRUE /\ Len(writes') = 1 /\ writes' \in Seq(Writes)
      <4>1. n < 2
        BY <2>7
      <4>2. wpending' = TRUE /\ wset' = TRUE
        BY <2>1, <4>1
      <4> QED BY <2>4, <2>7, <4>2
    <3>2. SocketTypes'
      BY <1>1, <2>2, <2>4, <3>1 DEF SocketInv, SocketTypes, RcvPlaces
    <3>3. Places'
      BY <1>1, <1>2, <2>2, <3>1 DEF SocketInv, Places, Reading
    <3>4. WireInv'
      <4>1. PICK w : w = writes'
        OBVIOUS
      <4>2. Len(w) = 1 /\ Len(<<>>) = 0
        BY <3>1, <4>1
      <4>3. writes' # <<>>
        BY <4>1, <4>2
      <4> QED BY <2>4, <2>7, <4>3 DEF WireInv
    <3> QED BY <1>3, <3>2, <3>3, <3>4 DEF SocketInv
  <2> QED BY <2>6, <2>7
<1> QED BY <1>4, <1>5 DEF SocketInv, SocketTypes

\* What MQTTProtocol_keepalive leaves: nothing changed, a PINGREQ more on the wire,
\* or a session that was closed.
Pinged ==
    /\ UNCHANGED <<up, broken, writes, wpending, wset, avail, read, queue, got>>
    /\ up /\ writes = <<>>
    /\ sent' \in Nat /\ wire' \in Seq(OutBytes) /\ WholeBytes(wire')
    /\ \A i \in DOMAIN wire' : wire'[i][1] <= sent'
    /\ EndsBefore(wire', sent' + 1)

LEMMA KeepaliveIs ==
  ASSUME SocketInv, MQTTProtocol_keepalive, pub # "register", rcv \in {"retry", "error"}
  PROVE  UNCHANGED <<net, pend, input, sent>> \/ Pinged \/ Closed
<1>1. CASE UNCHANGED <<net, pend, input, sent, pings>>
  BY <1>1
<1>2. CASE up /\ pings < MaxPings /\ pings' = pings + 1 /\ MQTTClient_closeSession
  BY <1>2, SessionCloses
<1>3. CASE /\ up /\ ~wpending /\ ~broken /\ sent' = sent + 1
           /\ \E n \in 0 .. 2 :
                 /\ Writev(Left(sent + 1, Short, 0), n)
                 /\ IF n = 2 THEN UNCHANGED <<up, pend, queue>>
                    ELSE up' = FALSE /\ SocketClose
           /\ UNCHANGED <<broken, avail, read, got>>
  <2>1. PICK n \in 0 .. 2 :
           /\ Writev(Left(sent + 1, Short, 0), n)
           /\ IF n = 2 THEN UNCHANGED <<up, pend, queue>> ELSE up' = FALSE /\ SocketClose
    BY <1>3
  <2>2. /\ sent' \in Nat /\ wire' \in Seq(OutBytes) /\ WholeBytes(wire')
        /\ \A i \in DOMAIN wire' : wire'[i][1] <= sent'
        /\ EndsWith(wire', sent', n, 2)
    BY <1>3, <2>1, ShortWritten
  <2>3. CASE n = 2
    <3>1. EndsBefore(wire', sent' + 1)
      BY <2>2, <2>3 DEF EndsWith, EndsBefore
    <3>2. writes = <<>>
      BY <1>3 DEF SocketInv, Places
    <3> QED BY <1>3, <2>1, <2>2, <2>3, <3>1, <3>2 DEF Pinged, pend
  <2>4. CASE n # 2
    <3>1. writes' = <<>> /\ wpending' = FALSE /\ wset' = FALSE /\ queue' = NoQueue
      BY <2>1, <2>4, SocketCloses
    <3> QED BY <1>3, <2>1, <2>2, <2>4, <3>1 DEF Closed
  <2> QED BY <2>3, <2>4
<1> QED BY <1>1, <1>2, <1>3 DEF MQTTProtocol_keepalive

LEMMA KeepaliveStep ==
  ASSUME SocketInv, MQTTClient_retry \/ ErrorReturned
  PROVE  SocketInv'
<1>1. /\ MQTTProtocol_keepalive /\ owner' = "none" /\ UNCHANGED <<pwset, pub>>
      /\ owner # "pub" /\ rcv \in {"retry", "error"} /\ rcv' \in {"idle", "error"}
      /\ rcv = "error" => rcv' = "error"
  BY DEF MQTTClient_retry, ErrorReturned
<1>2. pub \in {"idle", "wait"} /\ pwset \in BOOLEAN
  BY <1>1 DEF SocketInv, Places, SocketTypes
<1>3. UNCHANGED <<net, pend, input, sent>> \/ Pinged \/ Closed
  BY <1>1, <1>2, KeepaliveIs
<1>4. CASE Closed
  BY <1>1, <1>2, <1>4, AfterClosed
<1>5. CASE UNCHANGED <<net, pend, input, sent>>
  <2>1. UNCHANGED <<up, broken, wire, writes, wpending, wset, avail, read, queue, got, sent>>
    BY <1>5 DEF net, pend, input
  <2>2. SocketTypes'
    BY <1>1, <1>2, <2>1 DEF SocketInv, SocketTypes, RcvPlaces
  <2>3. Places'
    BY <1>1, <1>2, <2>1 DEF SocketInv, Places, Reading
  <2>4. WireInv'
    BY <2>1, WireSame DEF SocketInv
  <2>5. ReadInv'
    BY <1>1, <2>1, ReadSame DEF SocketInv, input
  <2> QED BY <2>2, <2>3, <2>4, <2>5 DEF SocketInv
<1>6. CASE Pinged
  <2>1. UNCHANGED <<up, broken, writes, wpending, wset, avail, read, queue, got>> /\ writes = <<>>
    BY <1>6 DEF Pinged
  <2>2. SocketTypes'
    BY <1>1, <1>2, <1>6, <2>1 DEF SocketInv, SocketTypes, RcvPlaces, Pinged
  <2>3. Places'
    BY <1>1, <1>2, <2>1 DEF SocketInv, Places, Reading
  <2>4. WireInv'
    <3>1. DOMAIN writes' = {}
      BY <2>1
    <3> QED BY <1>6, <3>1 DEF WireInv, Pinged
  <2>5. ReadInv'
    BY <1>1, <2>1, ReadSame DEF SocketInv, input
  <2> QED BY <2>2, <2>3, <2>4, <2>5 DEF SocketInv
<1> QED BY <1>3, <1>4, <1>5, <1>6

LEMMA RunClosesStep ==
  ASSUME SocketInv, RunCloses
  PROVE  SocketInv'
<1>1. /\ rcv = "error" /\ owner = "none" /\ rcv' = "idle" /\ UNCHANGED <<pwset, pub, owner>>
  BY DEF RunCloses
<1>2. pub \in {"idle", "wait"} /\ pwset \in BOOLEAN
  BY <1>1 DEF SocketInv, Places, SocketTypes
<1>3. CASE up
  <2>1. Closed
    BY <1>1, <1>2, <1>3, SessionCloses DEF RunCloses
  <2> QED BY <1>1, <1>2, <2>1, AfterClosed
<1>4. CASE ~up
  <2>1. UNCHANGED <<up, broken, wire, writes, wpending, wset, avail, read, queue, got, sent>>
    BY <1>4 DEF RunCloses, net, pend, input
  <2>2. SocketTypes'
    BY <1>1, <2>1 DEF SocketInv, SocketTypes, RcvPlaces
  <2>3. Places'
    BY <1>1, <2>1 DEF SocketInv, Places, Reading
  <2>4. WireInv'
    BY <2>1, WireSame DEF SocketInv
  <2>5. ReadInv'
    BY <1>4, <2>1 DEF SocketInv, ReadInv, PacketsRead
  <2> QED BY <2>2, <2>3, <2>4, <2>5 DEF SocketInv
<1> QED BY <1>3, <1>4
-----------------------------------------------------------------------------
(* Reading.                                                                *)

\* The parts of the invariant that reading a byte leaves alone.
LEMMA ReadingStep ==
  ASSUME SocketInv, rcv \in Reading, rcv' \in Reading \cup {"answer", "retry", "error"},
         UNCHANGED <<net, pend, pwset, pub, owner, sent>>
  PROVE  SocketTypes' /\ Places' /\ WireInv'
<1>1. UNCHANGED <<up, broken, wire, writes, wpending, wset, pwset, pub, owner, sent>>
  BY DEF net, pend
<1>2. SocketTypes'
  BY <1>1 DEF SocketInv, SocketTypes, RcvPlaces
<1>3. Places'
  BY <1>1 DEF SocketInv, Places, Reading
<1>4. WireInv'
  BY <1>1, WireSame DEF SocketInv
<1> QED BY <1>2, <1>3, <1>4

\* The queue, with the types of its parts.
LEMMA QueueFacts ==
  ASSUME ReadInv
  PROVE  /\ queue.listed \in BOOLEAN /\ queue.index \in Nat
         /\ queue.header \in Seq(InBytes) /\ queue.data \in Seq(InBytes)
         /\ Len(queue.header) \in Nat /\ Len(queue.data) \in Nat
         /\ Len(got) \in 0 .. Len(Input) /\ Len(Input) \in Nat /\ Current \in Nat
         /\ InEnds[Len(got)] \in Nat /\ read \in Nat /\ avail \in Nat /\ read <= avail
         /\ avail <= InEnds[Len(Input)] /\ InEnds[Len(Input)] \in Nat
<1>1. /\ queue \in Queues /\ got \in Seq(Seq(InBytes)) /\ Len(got) <= Len(Input)
      /\ avail \in 0 .. Len(Stream) /\ read \in 0 .. avail
  BY DEF ReadInv
<1>2. Len(got) \in Nat /\ Len(got) \in 0 .. Len(Input) /\ Len(Input) \in Nat
      /\ Len(Input) \in 0 .. Len(Input)
  BY <1>1, InputFacts
<1>3. InEnds[Len(got)] \in Nat /\ InEnds[Len(Input)] \in Nat
  BY <1>2, InEndsFacts
<1>4. /\ queue.listed \in BOOLEAN /\ queue.index \in Nat
      /\ queue.header \in Seq(InBytes) /\ queue.data \in Seq(InBytes)
  BY <1>1 DEF Queues
<1>5. Len(Stream) = InEnds[Len(Input)]
  BY StreamFacts
<1> QED BY <1>1, <1>2, <1>3, <1>4, <1>5 DEF Current

\* After the last packet there is nothing to read; before, the next byte of the
\* stream is the next byte of the current packet.
LEMMA NextByte ==
  ASSUME ReadInv, NEW k \in Nat, read = InEnds[Len(got)] + k, avail > read
  PROVE  /\ Current \in 1 .. Len(Input) /\ InEnds[Current - 1] = InEnds[Len(got)]
         /\ k < InLen(Current) => Stream[read + 1] = <<Current, k + 1>>
<1>1. /\ Len(got) \in 0 .. Len(Input) /\ Len(Input) \in Nat /\ avail <= InEnds[Len(Input)]
      /\ avail \in Nat /\ read \in Nat /\ InEnds[Len(got)] \in Nat /\ InEnds[Len(Input)] \in Nat
  BY QueueFacts
<1>2. Len(got) # Len(Input)
  BY <1>1
<1>3. Current \in 1 .. Len(Input) /\ Current - 1 = Len(got)
  BY <1>1, <1>2 DEF Current
<1>4. ASSUME k < InLen(Current) PROVE Stream[read + 1] = <<Current, k + 1>>
  <2>1. InLen(Current) \in Nat
    BY <1>3, InputFacts
  <2>2. k + 1 \in 1 .. InLen(Current)
    BY <1>4, <2>1
  <2>3. Stream[InEnds[Current - 1] + (k + 1)] = <<Current, k + 1>>
    BY <1>3, <2>2, StreamFacts
  <2>4. InEnds[Current - 1] + (k + 1) = read + 1
    <3>1. PICK x : x = InEnds[Len(got)]
      OBVIOUS
    <3>2. x \in Nat /\ read = x + k
      BY <1>1, <3>1
    <3>3. x + (k + 1) = read + 1
      BY <3>2
    <3> QED BY <1>3, <3>1, <3>3
  <2> QED BY <2>3, <2>4
<1> QED BY <1>3, <1>4

\* Where the header goes on after a byte of it.
LEMMA AfterIs ==
  ASSUME NEW p \in 1 .. Len(Input), NEW k \in Nat, rcv \in {"head", "len"}, After(<<p, k>>)
  PROVE  /\ rcv' \in {"len", "body"}
         /\ rcv' = "body" <=> rcv = "len" /\ ~(k < Input[p][1])
<1>1. <<p, k>>[1] = p /\ <<p, k>>[2] = k
  OBVIOUS
<1> QED BY <1>1 DEF After, Continues

LEMMA GetchStep ==
  ASSUME SocketInv, Socket_getch
  PROVE  SocketInv'
<1>1. /\ rcv \in {"head", "len"}
      /\ UNCHANGED <<net, pend, pwset, avail, got, pub, owner, sent>>
  BY DEF Socket_getch
<1>2. ReadInv /\ up /\ up' = up
  BY <1>1 DEF SocketInv, Places, Reading, net
<1>3. QueueInv
  BY <1>1, <1>2 DEF ReadInv
<1>4. PICK h : h = queue.header
  OBVIOUS
<1>5. PICK d : d = queue.data
  OBVIOUS
<1>6. PICK i : i = queue.index
  OBVIOUS
<1>7. /\ read = InEnds[Len(got)] + Len(h) + Len(d)
      /\ \A k \in 1 .. Len(h) : h[k] = <<Current, k>>
      /\ \A k \in 1 .. Len(d) : d[k] = <<Current, Len(h) + k>>
      /\ h # <<>> => Current <= Len(Input) /\ Len(h) <= Input[Current][1]
      /\ d # <<>> => h # <<>> /\ Len(h) = Input[Current][1] /\ Len(d) < Input[Current][2]
                     /\ queue.listed
      /\ i <= Len(h)
      /\ ~queue.listed => i = Len(h)
      /\ rcv \notin {"len", "body"} => i = 0
      /\ rcv = "len" => i > 0 /\ i < Input[Current][1]
  BY <1>3, <1>4, <1>5, <1>6 DEF QueueInv
<1>8. /\ queue.listed \in BOOLEAN /\ i \in Nat /\ h \in Seq(InBytes) /\ d \in Seq(InBytes)
      /\ Len(h) \in Nat /\ Len(d) \in Nat /\ Current \in Nat /\ Len(Input) \in Nat
      /\ InEnds[Len(got)] \in Nat /\ read \in Nat /\ avail \in Nat /\ read <= avail
  BY <1>2, <1>4, <1>5, <1>6, QueueFacts
<1>9. queue \in Queues
  BY <1>2 DEF ReadInv
<1>10. got' = got /\ Current' = Current /\ avail' = avail
  BY <1>1 DEF Current
<1>11. PacketsRead'
  BY <1>2, <1>10 DEF ReadInv, PacketsRead
<1>12. /\ avail' \in 0 .. Len(Stream) /\ got' \in Seq(Seq(InBytes)) /\ Len(got') <= Len(Input)
  BY <1>2, <1>10 DEF ReadInv
<1>13. CASE rcv' = "error" /\ UNCHANGED <<read, queue>>
  <2>1. ReadInv'
    BY <1>2, <1>9, <1>11, <1>12, <1>13, <1>10 DEF ReadInv
  <2>2. SocketTypes' /\ Places' /\ WireInv'
    BY <1>1, <1>13, ReadingStep DEF Reading
  <2> QED BY <2>1, <2>2 DEF SocketInv
<1>14. CASE /\ queue.listed /\ i < Len(h) /\ UNCHANGED read
            /\ queue' = [queue EXCEPT !.index = @ + 1] /\ After(queue.header[queue.index + 1])
  <2>1. h # <<>> /\ i + 1 \in 1 .. Len(h) /\ i + 1 \in Nat
    BY <1>8, <1>14
  <2>2. h[i + 1] = <<Current, i + 1>> /\ Current <= Len(Input) /\ Len(h) <= Input[Current][1]
    BY <1>7, <2>1
  <2>3. Current \in 1 .. Len(Input)
    BY <1>8, <2>2 DEF Current
  <2>4. Input[Current][1] \in 2 .. 5
    BY <2>3, InputFacts
  <2>5. After(<<Current, i + 1>>)
    BY <1>4, <1>6, <1>14, <2>2
  <2>6. /\ rcv' \in {"len", "body"}
        /\ rcv' = "body" <=> rcv = "len" /\ ~(i + 1 < Input[Current][1])
    BY <1>1, <2>1, <2>3, <2>5, AfterIs
  <2>8. queue' \in Queues
    BY <1>6, <1>9, <1>14, <2>1 DEF Queues
  <2>9. queue'.listed = queue.listed /\ queue'.index = i + 1 /\ queue'.header = h /\ queue'.data = d
    BY <1>4, <1>5, <1>6, <1>9, <1>14 DEF Queues
  <2>10. rcv' = "len" => i + 1 < Input[Current][1]
    BY <1>1, <1>7, <2>4, <2>6
  <2>11. rcv' = "body" => i + 1 = Len(h) /\ Len(h) = Input[Current][1]
    BY <1>8, <2>1, <2>2, <2>4, <2>6
  <2>12. QueueInv'
    <3>1. i + 1 > 0 /\ i + 1 <= Len(h) /\ read' = InEnds[Len(got')] + Len(h) + Len(d)
      BY <1>7, <1>8, <1>10, <1>14, <2>1
    <3>2. queue'.listed = TRUE /\ h # <<>>
      BY <1>14, <2>1, <2>9
    <3>3. /\ \A k \in 1 .. Len(h) : h[k] = <<Current', k>>
          /\ \A k \in 1 .. Len(d) : d[k] = <<Current', Len(h) + k>>
      BY <1>7, <1>10
    <3>4. /\ Current' <= Len(Input) /\ Len(h) <= Input[Current'][1]
          /\ d # <<>> => Len(h) = Input[Current'][1] /\ Len(d) < Input[Current'][2]
      BY <1>7, <1>10, <3>2
    <3>5. /\ rcv' = "len" => i + 1 < Input[Current'][1]
          /\ rcv' = "body" => i + 1 = Len(h) /\ Len(h) = Input[Current'][1]
      BY <1>10, <2>10, <2>11
    <3> QED BY <2>6, <2>9, <3>1, <3>2, <3>3, <3>4, <3>5 DEF QueueInv
  <2>13. ReadInv'
    BY <1>2, <1>8, <1>10, <1>11, <1>12, <1>14, <2>8, <2>12 DEF ReadInv
  <2>14. SocketTypes' /\ Places' /\ WireInv'
    BY <1>1, <2>6, ReadingStep DEF Reading
  <2> QED BY <2>13, <2>14 DEF SocketInv
<1>15. ASSUME ~(queue.listed /\ i < Len(h)) PROVE i = Len(h) /\ d = <<>>
  <2>1. i = Len(h)
    BY <1>7, <1>8, <1>15
  <2>2. ASSUME d # <<>> PROVE FALSE
    <3>1. h # <<>> /\ Len(h) = Input[Current][1] /\ Current <= Len(Input)
      BY <1>7, <2>2
    <3>2. Current \in 1 .. Len(Input)
      BY <1>8, <3>1 DEF Current
    <3>3. Input[Current][1] \in 2 .. 5
      BY <3>2, InputFacts
    <3> QED BY <1>1, <1>7, <1>8, <2>1, <3>1, <3>3
  <2> QED BY <2>1, <2>2
<1>16. CASE /\ ~(queue.listed /\ i < Len(h)) /\ avail > read /\ read' = read + 1
            /\ queue' = [queue EXCEPT !.index = @ + 1,
                   !.header = Append(SubSeq(@, 1, queue.index), Stream[read + 1])]
            /\ After(Stream[read + 1])
  <2>1. i = Len(h) /\ d = <<>> /\ Len(d) = 0
    BY <1>15, <1>16
  <2>2. read = InEnds[Len(got)] + Len(h)
    BY <1>7, <1>8, <2>1
  <2>3. /\ Current \in 1 .. Len(Input)
        /\ Len(h) < InLen(Current) => Stream[read + 1] = <<Current, Len(h) + 1>>
    BY <1>2, <1>8, <1>16, <2>2, NextByte
  <2>4. Input[Current][1] \in 2 .. 5 /\ Input[Current][2] \in Nat
        /\ InLen(Current) = Input[Current][1] + Input[Current][2]
    BY <2>3, InputFacts
  <2>5. i < Input[Current][1]
    BY <1>1, <1>7, <2>4
  <2>6. Stream[read + 1] = <<Current, i + 1>>
    BY <1>8, <2>1, <2>3, <2>4, <2>5
  <2>7. i + 1 \in Nat /\ After(<<Current, i + 1>>)
    BY <1>8, <1>16, <2>6
  <2>8. /\ rcv' \in {"len", "body"}
        /\ rcv' = "body" <=> rcv = "len" /\ ~(i + 1 < Input[Current][1])
    BY <1>1, <2>3, <2>7, AfterIs
  <2>9. PICK g : g = Append(h, <<Current, i + 1>>)
    OBVIOUS
  <2>10. SubSeq(h, 1, i) = h
    BY <1>8, <2>1
  <2>11. queue' = [queue EXCEPT !.index = i + 1, !.header = g]
    BY <1>4, <1>6, <1>16, <2>6, <2>9, <2>10
  <2>12. <<Current, i + 1>> \in InBytes
    BY <1>8, <2>7 DEF InBytes
  <2>13. /\ g \in Seq(InBytes) /\ Len(g) = i + 1 /\ g # <<>>
         /\ \A k \in 1 .. Len(h) : g[k] = h[k]
         /\ g[i + 1] = <<Current, i + 1>>
    BY <1>8, <2>1, <2>9, <2>12
  <2>14. queue' \in Queues
    BY <1>9, <2>7, <2>11, <2>13 DEF Queues
  <2>15. queue'.listed = queue.listed /\ queue'.index = i + 1 /\ queue'.header = g /\ queue'.data = d
    BY <1>5, <1>9, <2>11 DEF Queues
  <2>16. \A k \in 1 .. Len(g) : g[k] = <<Current, k>>
    <3> SUFFICES ASSUME NEW k \in 1 .. Len(g) PROVE g[k] = <<Current, k>>
      OBVIOUS
    <3>1. CASE k = i + 1
      BY <2>13, <3>1
    <3>2. CASE k # i + 1
      <4>1. k \in 1 .. Len(h)
        BY <1>8, <2>1, <2>13, <3>2
      <4> QED BY <1>7, <2>13, <4>1
    <3> QED BY <3>1, <3>2
  <2>17. i + 1 <= Input[Current][1] /\ Current <= Len(Input)
    BY <1>8, <2>3, <2>4, <2>5
  <2>18. rcv' = "len" => i + 1 < Input[Current][1]
    BY <1>1, <1>7, <2>4, <2>8
  <2>19. rcv' = "body" => i + 1 = Input[Current][1]
    BY <1>8, <2>4, <2>8, <2>17
  <2>20. read' = InEnds[Len(got')] + Len(g) + Len(d)
    BY <1>8, <1>10, <1>16, <2>1, <2>2, <2>13
  <2>21. QueueInv'
    <3>1. i + 1 > 0 /\ i + 1 <= Len(g)
      BY <1>8, <2>13
    <3> QED BY <1>10, <2>1, <2>8, <2>13, <2>15, <2>16, <2>17, <2>18, <2>19, <2>20, <3>1 DEF QueueInv
  <2>22. read' \in 0 .. avail'
    BY <1>8, <1>10, <1>16
  <2>23. ReadInv'
    BY <1>2, <1>11, <1>12, <2>14, <2>21, <2>22 DEF ReadInv
  <2>24. SocketTypes' /\ Places' /\ WireInv'
    BY <1>1, <2>8, ReadingStep DEF Reading
  <2> QED BY <2>23, <2>24 DEF SocketInv
<1>17. CASE ~(queue.listed /\ i < Len(h)) /\ Interrupted(<<>>) /\ rcv' = "retry" /\ UNCHANGED read
  <2>1. d = <<>> /\ Len(d) = 0
    BY <1>15, <1>17
  <2>2. queue' = [queue EXCEPT !.listed = TRUE, !.index = 0, !.data = d]
    BY <1>17, <2>1 DEF Interrupted
  <2>3. queue' \in Queues
    BY <1>8, <1>9, <2>2 DEF Queues
  <2>4. queue'.listed = TRUE /\ queue'.index = 0 /\ queue'.header = h /\ queue'.data = d
    BY <1>4, <1>9, <2>2 DEF Queues
  <2>5. QueueInv'
    BY <1>7, <1>8, <1>10, <1>17, <2>1, <2>4 DEF QueueInv
  <2>6. ReadInv'
    BY <1>2, <1>8, <1>10, <1>11, <1>12, <1>17, <2>3, <2>5 DEF ReadInv
  <2>7. SocketTypes' /\ Places' /\ WireInv'
    BY <1>1, <1>17, ReadingStep DEF Reading
  <2> QED BY <2>6, <2>7 DEF SocketInv
<1>18. \/ rcv' = "error" /\ UNCHANGED <<read, queue>>
       \/ /\ queue.listed /\ i < Len(h) /\ UNCHANGED read
          /\ queue' = [queue EXCEPT !.index = @ + 1] /\ After(queue.header[queue.index + 1])
       \/ /\ ~(queue.listed /\ i < Len(h)) /\ avail > read /\ read' = read + 1
          /\ queue' = [queue EXCEPT !.index = @ + 1,
                 !.header = Append(SubSeq(@, 1, queue.index), Stream[read + 1])]
          /\ After(Stream[read + 1])
       \/ ~(queue.listed /\ i < Len(h)) /\ Interrupted(<<>>) /\ rcv' = "retry" /\ UNCHANGED read
  BY <1>4, <1>6 DEF Socket_getch
<1> QED BY <1>13, <1>14, <1>16, <1>17, <1>18

\* u is the n elements of s that follow the first r.
PieceOf(u, s, r, n) == Len(u) = n /\ \A k \in 1 .. n : u[k] = s[r + k]

LEMMA SubSeqIs ==
  ASSUME NEW S, NEW s \in Seq(S), NEW r \in Nat, NEW n \in Nat, r + n <= Len(s),
         NEW v, v = SubSeq(s, r + 1, r + n)
  PROVE  v \in Seq(S) /\ PieceOf(v, s, r, n)
<1>1. PICK x, y : x = r + 1 /\ y = r + n
  OBVIOUS
<1>2. Len(s) \in Nat
  OBVIOUS
<1>3. x \in Nat /\ y \in Nat /\ x \in 1 .. Len(s) + 1 /\ y \in x - 1 .. Len(s) /\ y - x + 1 = n
  BY <1>1, <1>2
<1>4. PICK u : u = SubSeq(s, x, y)
  OBVIOUS
<1>5. /\ u \in Seq(S) /\ Len(u) = y - x + 1
      /\ \A i \in 1 .. y - x + 1 : u[i] = s[x + i - 1]
  BY <1>3, <1>4, SubSeqProperties
<1>6. ASSUME NEW k \in 1 .. n PROVE u[k] = s[r + k]
  <2>1. x + k - 1 = r + k /\ k \in 1 .. y - x + 1
    BY <1>1, <1>3
  <2> QED BY <1>5, <2>1
<1>7. v = u
  BY <1>1, <1>4
<1>8. Len(u) = n
  BY <1>3, <1>5
<1> QED BY <1>5, <1>6, <1>7, <1>8 DEF PieceOf

\* The body as far as it is known, and whole packets put together from it.
BodyIs(c, p, l, m) == \A k \in 1 .. m : c[k] = <<p, l + k>>

\* Packet p's header h and the part d of its body are read, r bytes in all, and n more are there.
ReadUpTo(p, h, d, r, n) ==
  /\ r = InEnds[p - 1] + Len(h) + Len(d)
  /\ r + n <= Len(Stream)
  /\ Len(h) + Len(d) + n <= InLen(p)
  /\ BodyIs(d, p, Len(h), Len(d))

LEMMA BodyRead ==
  ASSUME NEW p \in 1 .. Len(Input), NEW h \in Seq(InBytes), NEW d \in Seq(InBytes), NEW n \in Nat,
         NEW r \in Nat, ReadUpTo(p, h, d, r, n)
  PROVE  \E c \in Seq(InBytes) : /\ c = d \o SubSeq(Stream, r + 1, r + n) /\ Len(c) = Len(d) + n
                                 /\ BodyIs(c, p, Len(h), Len(d) + n)
<1>0. /\ r = InEnds[p - 1] + Len(h) + Len(d) /\ r + n <= Len(Stream)
      /\ Len(h) + Len(d) + n <= InLen(p) /\ BodyIs(d, p, Len(h), Len(d))
  BY DEF ReadUpTo
<1>1. PICK s : s = SubSeq(Stream, r + 1, r + n)
  OBVIOUS
<1>2. /\ InEnds[p - 1] \in Nat /\ InLen(p) \in Nat /\ Len(h) \in Nat /\ Len(d) \in Nat
      /\ Stream \in Seq(InBytes) /\ Len(Stream) \in Nat
  <2>1. p - 1 \in 0 .. Len(Input)
    BY InputFacts
  <2> QED BY <2>1, InEndsFacts, InputFacts, StreamFacts
<1>3. /\ s \in Seq(InBytes) /\ Len(s) = n
      /\ \A k \in 1 .. n : s[k] = Stream[r + k]
  <2>1. PICK st : st = Stream
    OBVIOUS
  <2>2. st \in Seq(InBytes) /\ r + n <= Len(st) /\ s = SubSeq(st, r + 1, r + n)
    BY <1>0, <1>1, <1>2, <2>1
  <2>3. s \in Seq(InBytes) /\ PieceOf(s, st, r, n)
    BY <2>2, SubSeqIs
  <2> QED BY <2>1, <2>3 DEF PieceOf
<1>4. ASSUME NEW k \in 1 .. n PROVE s[k] = <<p, Len(h) + (Len(d) + k)>>
  <2>1. Len(h) + (Len(d) + k) \in 1 .. InLen(p)
    <3>1. PICK y, z, l : y = Len(h) /\ z = Len(d) /\ l = InLen(p)
      OBVIOUS
    <3>2. y \in Nat /\ z \in Nat /\ l \in Nat /\ y + z + n <= l
      BY <1>0, <1>2, <3>1
    <3>3. y + (z + k) \in 1 .. l
      BY <3>2
    <3> QED BY <3>1, <3>3
  <2>2. Stream[InEnds[p - 1] + (Len(h) + (Len(d) + k))] = <<p, Len(h) + (Len(d) + k)>>
    BY <2>1, StreamFacts
  <2>3. InEnds[p - 1] + (Len(h) + (Len(d) + k)) = r + k
    <3>1. PICK x, y, z : x = InEnds[p - 1] /\ y = Len(h) /\ z = Len(d)
      OBVIOUS
    <3>2. x \in Nat /\ y \in Nat /\ z \in Nat /\ r = x + y + z
      BY <1>0, <1>2, <3>1
    <3>3. x + (y + (z + k)) = r + k
      BY <3>2
    <3> QED BY <3>1, <3>3
  <2> QED BY <1>3, <2>2, <2>3
<1>5. PICK c : c = d \o s
  OBVIOUS
<1>6. /\ c \in Seq(InBytes) /\ Len(c) = Len(d) + Len(s)
      /\ \A k \in 1 .. Len(d) + Len(s) : c[k] = IF k <= Len(d) THEN d[k] ELSE s[k - Len(d)]
  BY <1>3, <1>5, ConcatProperties
<1>7. ASSUME NEW k \in 1 .. Len(d) + n PROVE c[k] = <<p, Len(h) + k>>
  <2>1. c[k] = IF k <= Len(d) THEN d[k] ELSE s[k - Len(d)]
    BY <1>3, <1>6
  <2>2. CASE k <= Len(d)
    BY <1>0, <1>2, <2>1, <2>2 DEF BodyIs
  <2>3. CASE ~(k <= Len(d))
    <3>1. k - Len(d) \in 1 .. n /\ Len(d) + (k - Len(d)) = k
      BY <1>2, <2>3
    <3>2. s[k - Len(d)] = <<p, Len(h) + k>>
      BY <1>4, <3>1
    <3> QED BY <2>1, <2>3, <3>2
  <2> QED BY <2>2, <2>3
<1>8. BodyIs(c, p, Len(h), Len(d) + n)
  BY <1>7 DEF BodyIs
<1>9. c \in Seq(InBytes) /\ Len(c) = Len(d) + n /\ c = d \o SubSeq(Stream, r + 1, r + n)
  BY <1>1, <1>3, <1>5, <1>6
<1> QED BY <1>8, <1>9

LEMMA PacketIs ==
  ASSUME NEW p \in 1 .. Len(Input), NEW h \in Seq(InBytes), NEW c \in Seq(InBytes),
         Len(h) + Len(c) = InLen(p),
         \A k \in 1 .. Len(h) : h[k] = <<p, k>>,
         \A k \in 1 .. Len(c) : c[k] = <<p, Len(h) + k>>
  PROVE  h \o c \in Seq(InBytes) /\ h \o c = Sent(p)
<1>1. PICK b : b = h \o c
  OBVIOUS
<1>2. /\ b \in Seq(InBytes) /\ Len(b) = Len(h) + Len(c)
      /\ \A k \in 1 .. Len(h) + Len(c) : b[k] = IF k <= Len(h) THEN h[k] ELSE c[k - Len(h)]
  BY <1>1, ConcatProperties
<1>3. /\ Sent(p) \in Seq(InBytes) /\ Len(Sent(p)) = InLen(p)
      /\ \A k \in 1 .. InLen(p) : Sent(p)[k] = <<p, k>>
  BY SentIs
<1>4. ASSUME NEW k \in 1 .. Len(b) PROVE b[k] = Sent(p)[k]
  <2>1. k \in 1 .. Len(h) + Len(c) /\ k \in 1 .. InLen(p)
    BY <1>2
  <2>2. b[k] = IF k <= Len(h) THEN h[k] ELSE c[k - Len(h)]
    BY <1>2, <2>1
  <2>3. CASE k <= Len(h)
    <3>1. k \in 1 .. Len(h) /\ b[k] = h[k]
      BY <2>1, <2>2, <2>3
    <3> QED BY <1>3, <2>1, <3>1
  <2>4. CASE ~(k <= Len(h))
    <3>1. k - Len(h) \in 1 .. Len(c) /\ Len(h) + (k - Len(h)) = k
      BY <2>1, <2>4
    <3>2. c[k - Len(h)] = <<p, k>>
      BY <3>1
    <3> QED BY <1>3, <2>1, <2>2, <2>4, <3>2
  <2> QED BY <2>3, <2>4
<1>5. Len(b) = Len(Sent(p))
  BY <1>2, <1>3
<1>6. b = Sent(p)
  BY <1>2, <1>3, <1>4, <1>5, SeqEqual
<1> QED BY <1>1, <1>2, <1>6

LEMMA GetdataStep ==
  ASSUME SocketInv, Socket_getdata
  PROVE  SocketInv'
<1>1. /\ rcv = "body"
      /\ UNCHANGED <<net, pend, pwset, avail, pub, owner, sent>>
  BY DEF Socket_getdata
<1>2. ReadInv /\ up /\ up' = up
  BY <1>1 DEF SocketInv, Places, Reading, net
<1>3. QueueInv
  BY <1>1, <1>2 DEF ReadInv
<1>4. PICK h, d : h = queue.header /\ d = queue.data
  OBVIOUS
<1>5. /\ read = InEnds[Len(got)] + Len(h) + Len(d)
      /\ \A k \in 1 .. Len(h) : h[k] = <<Current, k>>
      /\ \A k \in 1 .. Len(d) : d[k] = <<Current, Len(h) + k>>
      /\ h # <<>> /\ Current <= Len(Input) /\ Len(h) = Input[Current][1]
      /\ d # <<>> => Len(d) < Input[Current][2] /\ queue.listed
  BY <1>1, <1>3, <1>4 DEF QueueInv
<1>6. /\ queue.listed \in BOOLEAN /\ h \in Seq(InBytes) /\ d \in Seq(InBytes)
      /\ Len(h) \in Nat /\ Len(d) \in Nat /\ Current \in Nat /\ Len(Input) \in Nat
      /\ Len(got) \in 0 .. Len(Input)
      /\ InEnds[Len(got)] \in Nat /\ read \in Nat /\ avail \in Nat /\ read <= avail
  BY <1>2, <1>4, QueueFacts
<1>7. queue \in Queues /\ got \in Seq(Seq(InBytes)) /\ avail \in 0 .. Len(Stream) /\ Len(Stream) \in Nat
  BY <1>2, StreamFacts DEF ReadInv
<1>8. Current \in 1 .. Len(Input) /\ Current - 1 = Len(got) /\ Current = Len(got) + 1
  BY <1>5, <1>6 DEF Current
<1>9. PICK m : m = Input[Current][2]
  OBVIOUS
<1>10. /\ Input[Current][1] \in 2 .. 5 /\ m \in Nat /\ InLen(Current) \in Nat
       /\ InLen(Current) = Len(h) + m
  BY <1>5, <1>8, <1>9, InputFacts
<1>11. Rest(queue.header) = m
  <2>1. 1 \in 1 .. Len(h)
    BY <1>5, <1>6, <1>10
  <2>2. h[1] = <<Current, 1>>
    BY <1>5, <2>1
  <2> QED BY <1>4, <1>9, <2>2 DEF Rest
<1>12. (IF queue.listed THEN queue.data ELSE <<>>) = d
  BY <1>4, <1>5, <1>6
<1>13. Len(d) <= m
  <2>1. d = <<>> => Len(d) = 0
    OBVIOUS
  <2> QED BY <1>5, <1>6, <1>9, <1>10, <2>1
<1>14. PICK n : n = Least(m - Len(d), avail - read)
  OBVIOUS
<1>15. n \in Nat /\ n <= m - Len(d) /\ n <= avail - read
  BY <1>6, <1>10, <1>13, <1>14 DEF Least
<1>16. PICK c : c = d \o SubSeq(Stream, read + 1, read + n)
  OBVIOUS
<1>17. c \in Seq(InBytes) /\ Len(c) = Len(d) + n /\ \A k \in 1 .. Len(d) + n : c[k] = <<Current, Len(h) + k>>
  <2>1. /\ read = InEnds[Current - 1] + Len(h) + Len(d) /\ read + n <= Len(Stream)
        /\ Len(h) + Len(d) + n <= InLen(Current)
    <3>1. PICK x, y, z : x = InEnds[Len(got)] /\ y = Len(h) /\ z = Len(d)
      OBVIOUS
    <3>2. PICK l, w : l = InLen(Current) /\ w = Len(Stream)
      OBVIOUS
    <3>3. /\ x \in Nat /\ y \in Nat /\ z \in Nat /\ l \in Nat /\ w \in Nat
          /\ l = y + m /\ avail <= w /\ read = x + y + z /\ n <= m - z /\ z <= m
      BY <1>5, <1>6, <1>7, <1>10, <1>13, <1>15, <3>1, <3>2
    <3>4. read + n <= w /\ y + z + n <= l
      BY <1>6, <1>10, <1>15, <3>3
    <3> QED BY <1>5, <1>8, <3>1, <3>2, <3>4
  <2>2. PICK p, r : p = Current /\ r = read
    OBVIOUS
  <2>3. /\ p \in 1 .. Len(Input) /\ r \in Nat /\ r = InEnds[p - 1] + Len(h) + Len(d)
        /\ r + n <= Len(Stream) /\ Len(h) + Len(d) + n <= InLen(p)
        /\ c = d \o SubSeq(Stream, r + 1, r + n)
    BY <1>6, <1>8, <1>16, <2>1, <2>2
  <2>4. BodyIs(d, p, Len(h), Len(d))
    BY <1>5, <2>2 DEF BodyIs
  <2>5. ReadUpTo(p, h, d, r, n)
    BY <2>3, <2>4 DEF ReadUpTo
  <2>6. \E e \in Seq(InBytes) : /\ e = d \o SubSeq(Stream, r + 1, r + n) /\ Len(e) = Len(d) + n
                                /\ BodyIs(e, p, Len(h), Len(d) + n)
    BY <1>6, <1>15, <2>3, <2>5, BodyRead
  <2>7. c \in Seq(InBytes) /\ Len(c) = Len(d) + n /\ BodyIs(c, p, Len(h), Len(d) + n)
    BY <2>3, <2>6
  <2> QED BY <2>2, <2>7 DEF BodyIs
<1>18. /\ read' = read + n /\ avail' = avail
       /\ \/ /\ Len(c) = m
             /\ got' = Append(got, h \o c) /\ queue' = NoQueue /\ rcv' \in {"answer", "retry"}
          \/ Len(c) < m /\ Interrupted(c) /\ rcv' = "retry" /\ UNCHANGED got
          \/ rcv' = "error" /\ UNCHANGED <<queue, got>>
  BY <1>1, <1>4, <1>11, <1>12, <1>14, <1>16 DEF Socket_getdata
<1>19. avail' \in 0 .. Len(Stream) /\ read' \in 0 .. avail'
  BY <1>6, <1>7, <1>15, <1>18
<1>20. SocketTypes' /\ Places' /\ WireInv'
  BY <1>1, <1>18, ReadingStep DEF Reading
<1>21. CASE rcv' = "error" /\ UNCHANGED <<queue, got>>
  <2>1. PacketsRead'
    BY <1>2, <1>21 DEF ReadInv, PacketsRead
  <2>2. ReadInv'
    BY <1>2, <1>19, <1>21, <2>1 DEF ReadInv
  <2> QED BY <1>20, <2>2 DEF SocketInv
<1>22. CASE Len(c) < m /\ Interrupted(c) /\ rcv' = "retry" /\ UNCHANGED got
  <2>1. queue' = [queue EXCEPT !.listed = TRUE, !.index = 0, !.data = c]
    BY <1>22 DEF Interrupted
  <2>2. queue' \in Queues
    BY <1>7, <1>17, <2>1 DEF Queues
  <2>3. queue'.listed = TRUE /\ queue'.index = 0 /\ queue'.header = h /\ queue'.data = c
    BY <1>4, <1>7, <2>1 DEF Queues
  <2>4. read' = InEnds[Len(got')] + Len(h) + Len(c)
    <3>1. PICK x, y, z : x = InEnds[Len(got)] /\ y = Len(h) /\ z = Len(d)
      OBVIOUS
    <3>2. x \in Nat /\ y \in Nat /\ z \in Nat /\ Len(c) = z + n /\ read' = x + y + z + n
      BY <1>5, <1>6, <1>17, <1>18, <3>1
    <3>3. read' = x + y + Len(c)
      BY <1>15, <3>2
    <3> QED BY <1>22, <3>1, <3>3
  <2>5. Current' = Current
    BY <1>22 DEF Current
  <2>6. QueueInv'
    <3>1. \A k \in 1 .. Len(c) : c[k] = <<Current, Len(h) + k>>
      BY <1>17
    <3>2. 0 <= Len(h) /\ Len(h) <= Input[Current][1]
      BY <1>5, <1>6
    <3> QED BY <1>5, <1>9, <1>22, <2>3, <2>4, <2>5, <3>1, <3>2 DEF QueueInv
  <2>7. PacketsRead'
    BY <1>2, <1>22 DEF ReadInv, PacketsRead
  <2>8. ReadInv'
    BY <1>2, <1>19, <1>22, <2>2, <2>6, <2>7 DEF ReadInv
  <2> QED BY <1>20, <2>8 DEF SocketInv
<1>23. CASE /\ Len(c) = m
            /\ got' = Append(got, h \o c) /\ queue' = NoQueue /\ rcv' \in {"answer", "retry"}
  <2>1. h \o c \in Seq(InBytes) /\ h \o c = Sent(Current)
    <3>1. Len(h) + Len(c) = InLen(Current) /\ \A k \in 1 .. Len(c) : c[k] = <<Current, Len(h) + k>>
      BY <1>10, <1>17, <1>23
    <3>2. PICK p : p = Current
      OBVIOUS
    <3>3. /\ p \in 1 .. Len(Input) /\ Len(h) + Len(c) = InLen(p)
          /\ \A k \in 1 .. Len(h) : h[k] = <<p, k>>
          /\ \A k \in 1 .. Len(c) : c[k] = <<p, Len(h) + k>>
      BY <1>5, <1>8, <3>1, <3>2
    <3>4. h \o c \in Seq(InBytes) /\ h \o c = Sent(p)
      BY <1>6, <1>17, <3>3, PacketIs
    <3> QED BY <3>2, <3>4
  <2>2. PICK b : b = h \o c
    OBVIOUS
  <2>3. b \in Seq(InBytes) /\ b = Sent(Current) /\ got' = Append(got, b)
    BY <1>23, <2>1, <2>2
  <2>4. /\ got' \in Seq(Seq(InBytes)) /\ Len(got') = Len(got) + 1
        /\ \A j \in 1 .. Len(got) : got'[j] = got[j]
        /\ got'[Len(got) + 1] = b /\ DOMAIN got' = 1 .. Len(got) + 1
    BY <1>7, <2>3
  <2>5. PacketsRead'
    <3>1. ASSUME NEW j \in DOMAIN got' PROVE got'[j] = [k \in 1 .. InLen(j) |-> <<j, k>>]
      <4>1. CASE j \in 1 .. Len(got)
        <5>1. j \in DOMAIN got
          BY <1>7, <4>1
        <5>2. got[j] = [k \in 1 .. InLen(j) |-> <<j, k>>]
          BY <1>2, <5>1 DEF ReadInv, PacketsRead
        <5> QED BY <2>4, <4>1, <5>2
      <4>2. CASE j = Len(got) + 1
        <5>1. j = Current
          BY <1>8, <4>2
        <5>2. got'[j] = Sent(j)
          BY <2>3, <2>4, <4>2, <5>1
        <5> QED BY <5>2 DEF Sent
      <4> QED BY <1>6, <2>4, <3>1, <4>1, <4>2
    <3> QED BY <3>1 DEF PacketsRead
  <2>6. Len(got') <= Len(Input)
    BY <1>6, <1>8, <2>4
  <2>7. /\ queue'.header = <<>> /\ queue'.data = <<>> /\ queue'.index = 0 /\ queue'.listed = FALSE
    BY <1>23 DEF NoQueue
  <2>8. read' = InEnds[Len(got')]
    <3>1. InEnds[Current] = InEnds[Len(got)] + InLen(Current)
      BY <1>8, InEndsFacts
    <3>2. read' = InEnds[Len(got)] + InLen(Current)
      <4>1. PICK x, y, z : x = InEnds[Len(got)] /\ y = Len(h) /\ z = Len(d)
        OBVIOUS
      <4>2. /\ x \in Nat /\ y \in Nat /\ z \in Nat /\ m = z + n /\ read' = x + y + z + n
            /\ InLen(Current) = y + m
        BY <1>5, <1>6, <1>10, <1>17, <1>18, <1>23, <4>1
      <4>3. read' = x + (y + m)
        BY <1>15, <4>2
      <4> QED BY <4>1, <4>2, <4>3
    <3> QED BY <1>8, <2>4, <3>1, <3>2
  <2>9. QueueInv'
    <3>1. read' = InEnds[Len(got')] + 0 + 0
      <4>1. read' \in Nat
        BY <1>6, <1>15, <1>18
      <4> QED BY <2>8, <4>1
    <3>2. Len(<<>>) = 0 /\ 1 .. 0 = {}
      OBVIOUS
    <3> QED BY <1>23, <2>7, <3>1, <3>2 DEF QueueInv
  <2>10. ReadInv'
    BY <1>2, <1>19, <1>23, <2>4, <2>5, <2>6, <2>9, NoQueueOk DEF ReadInv
  <2> QED BY <1>20, <2>10 DEF SocketInv
<1> QED BY <1>18, <1>21, <1>22, <1>23
-----------------------------------------------------------------------------
(* The theorems.                                                           *)

LEMMA SocketStep ==
  SocketInv /\ [Next]_vars => SocketInv'
<1> SUFFICES ASSUME SocketInv, [Next]_vars PROVE SocketInv'
  OBVIOUS
<1>1. CASE Connect
  BY <1>1, ConnectStep
<1>2. CASE Publisher
  BY <1>2, PublishStep, RegisterStep, PublishWaitsStep, PublishFailsStep DEF Publisher
<1>3. CASE Receiver
  BY <1>3, SelectStep, ContinueStep, RemoveStep, GetchStep, GetdataStep, AnswerStep, KeepaliveStep,
     RunClosesStep DEF Receiver
<1>4. CASE Arrive
  BY <1>4, ArriveStep
<1>5. CASE Break
  BY <1>5, BreakStep
<1>6. CASE UNCHANGED vars
  <2>1. UNCHANGED <<up, broken, wire, writes, wpending, wset, pwset, avail, read, queue, got, pub,
                    rcv, owner, sent>>
    BY <1>6 DEF vars, net, pend, input
  <2>2. SocketTypes'
    BY <2>1 DEF SocketInv, SocketTypes
  <2>3. Places'
    BY <2>1 DEF SocketInv, Places
  <2>4. WireInv'
    BY <2>1, WireSame DEF SocketInv
  <2>5. ReadInv'
    BY <2>1, ReadSame DEF SocketInv, input
  <2> QED BY <2>2, <2>3, <2>4, <2>5 DEF SocketInv
<1> QED BY <1>1, <1>2, <1>3, <1>4, <1>5, <1>6 DEF Next

LEMMA SocketInvAlways == Spec => []SocketInv
<1>1. Init => SocketInv
  BY SocketInit
<1>2. SocketInv /\ [Next]_vars => SocketInv'
  BY SocketStep
<1> QED BY <1>1, <1>2, PTL DEF Spec

LEMMA FirstTwo ==
  ASSUME NEW x, NEW y, NEW z
  PROVE  SubSeq(<<x, y, z>>, 1, 2) = <<x, y>>
<1>1. PICK S : S = {x, y, z}
  OBVIOUS
<1>2. <<x, y, z>> \in Seq(S) /\ <<x, y>> \in Seq(S) /\ Len(<<x, y, z>>) = 3 /\ Len(<<x, y>>) = 2
  BY <1>1
<1>3. PICK s : s = <<x, y, z>>
  OBVIOUS
<1>4. s \in Seq(S) /\ Len(s) = 3 /\ s[1] = x /\ s[2] = y
  BY <1>2, <1>3
<1>5. PICK u : u = SubSeq(s, 1, 2)
  OBVIOUS
<1>6. u \in Seq(S) /\ Len(u) = 2 /\ u[1] = s[1] /\ u[2] = s[2]
  BY <1>4, <1>5
<1>7. PICK v : v = <<x, y>>
  OBVIOUS
<1>8. v \in Seq(S) /\ Len(v) = 2 /\ v[1] = x /\ v[2] = y
  BY <1>2, <1>7
<1>9. \A i \in 1 .. Len(u) : u[i] = v[i]
  BY <1>4, <1>6, <1>8
<1>10. u = v
  BY <1>6, <1>8, <1>9, SeqEqual
<1> QED BY <1>3, <1>5, <1>7, <1>10

LEMMA WholeFromInv ==
  ASSUME SocketInv
  PROVE  PacketsWhole
<1>1. wire \in Seq(OutBytes) /\ WholeBytes(wire)
  BY DEF SocketInv, WireInv
<1>2. Last(wire) = wire[Len(wire)]
  BY DEF Last
<1>3. ASSUME NEW i \in DOMAIN writes, up
      PROVE  \/ writes[i].bytes = 0 /\ (wire = <<>> \/ Last(wire)[2] = Last(wire)[3])
             \/ wire # <<>> /\ SubSeq(Last(wire), 1, 2) = <<writes[i].pkt, writes[i].bytes>>
  <2>1. PICK p, n, t : p = writes[i].pkt /\ n = writes[i].bytes /\ t = Total(writes[i].lens)
    OBVIOUS
  <2>2. EndsWith(wire, p, n, t)
    BY <1>3, <2>1 DEF SocketInv, WireInv, GoesOn
  <2>3. CASE n = 0
    BY <1>2, <2>1, <2>2, <2>3 DEF EndsWith, EndsBefore
  <2>4. CASE n # 0
    <3>1. wire # <<>> /\ Last(wire) = <<p, n, t>>
      BY <1>2, <2>2, <2>4 DEF EndsWith
    <3>2. SubSeq(<<p, n, t>>, 1, 2) = <<p, n>>
      BY FirstTwo
    <3> QED BY <2>1, <3>1, <3>2
  <2> QED BY <2>3, <2>4
<1>4. \A i \in 1 .. Len(wire) - 1 :
        LET this == wire[i]  next == wire[i + 1] IN
        \/ next[1] = this[1] /\ next[2] = this[2] + 1
        \/ next[1] > this[1] /\ next[2] = 1 /\ this[2] = this[3]
  BY <1>1 DEF WholeBytes, Followed
<1> QED BY <1>1, <1>3, <1>4 DEF PacketsWhole, WholeBytes

\* The broker sees whole packets one after the other, for PUBLISH packets in any
\* number of buffers of any length and writes cut at any byte: what
\* Socket_continueWrite puts together from the buffers is what was left, and a
\* new packet is begun only when the last one is complete.
THEOREM WritesWhole == Spec => []PacketsWhole
<1>1. SocketInv => PacketsWhole
  BY WholeFromInv
<1> QED BY <1>1, SocketInvAlways, PTL

\* The client reads the packets the broker sent, whole and in order, for any
\* packets and reads that end at any byte: the queue is replayed to where it was.
THEOREM ReadsWhole == Spec => []PacketsRead
<1>1. SocketInv => PacketsRead
  BY DEF SocketInv, ReadInv
<1> QED BY <1>1, SocketInvAlways, PTL
=============================================================================
