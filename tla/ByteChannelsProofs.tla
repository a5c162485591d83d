------------------------- MODULE ByteChannelsProofs -------------------------
(* ByteChannels, for any sizes of packets and banks, any timeouts, any bytes,  *)
(* and whatever the interrupts do between two tries of a byte: the bytes of    *)
(* either direction come out in the order they went in.                        *)
EXTENDS ByteChannels, SequenceTheorems, TLAPS

-----------------------------------------------------------------------------
(* A sequence cut in pieces.                                                  *)

\* p is what lies between two places of s.
Piece(p, s, from, to) == /\ Len(p) = to - from
                         /\ \A k \in 1 .. Len(p) : p[k] = s[from + k]

\* There is nothing between two places.
Void(ps, i, j) == \A k \in i + 1 .. j : ps[k] = <<>>

\* The places where s is cut, in their order.  Where all pieces between two places are
\* empty, the places are one (which follows from the others, but by induction only).
Cuts(s, ps, cut) ==
    /\ cut \in [0 .. Len(ps) -> 0 .. Len(s)]
    /\ cut[0] = 0 /\ cut[Len(ps)] = Len(s)
    /\ \A i \in 0 .. Len(ps) : \A j \in i .. Len(ps) :
          /\ cut[i] <= cut[j]
          /\ Void(ps, i, j) => cut[i] = cut[j]
    /\ \A i \in 1 .. Len(ps) : Piece(ps[i], s, cut[i - 1], cut[i])

Joins(s, ps) == \E cut : Cuts(s, ps, cut)

LEMMA CutIs ==
    ASSUME NEW s, NEW ps, Len(ps) \in Nat, NEW cut, Cuts(s, ps, cut), NEW i \in 0 .. Len(ps)
    PROVE  /\ cut[i] \in 0 .. Len(s)
           /\ \A j \in i .. Len(ps) :
                 /\ cut[i] <= cut[j] /\ cut[j] \in 0 .. Len(s)
                 /\ Void(ps, i, j) => cut[i] = cut[j]
<1>1. \A j \in i .. Len(ps) : j \in 0 .. Len(ps)
  OBVIOUS
<1>2. \A j \in 0 .. Len(ps) : cut[j] \in 0 .. Len(s)
  BY DEF Cuts
<1> QED BY <1>1, <1>2 DEF Cuts

LEMMA PieceIs ==
    ASSUME NEW s, NEW ps, Len(ps) \in Nat, NEW cut, Cuts(s, ps, cut), NEW i \in 1 .. Len(ps)
    PROVE  /\ i - 1 \in 0 .. Len(ps) /\ i \in 0 .. Len(ps)
           /\ Piece(ps[i], s, cut[i - 1], cut[i])
           /\ cut[i - 1] \in 0 .. Len(s) /\ cut[i] \in 0 .. Len(s) /\ cut[i - 1] <= cut[i]
<1>1. i - 1 \in 0 .. Len(ps) /\ i \in 0 .. Len(ps) /\ i \in i - 1 .. Len(ps)
  OBVIOUS
<1> QED BY <1>1, CutIs DEF Cuts

LEMMA JoinsNone == Joins(<<>>, <<>>)
<1> DEFINE cut == [i \in 0 .. 0 |-> 0]
<1>1. Len(<<>>) = 0
  OBVIOUS
<1>2. Cuts(<<>>, <<>>, cut)
  BY <1>1 DEF Cuts
<1> QED BY <1>2 DEF Joins

LEMMA JoinsAppend ==
    ASSUME NEW S, NEW s \in Seq(S), NEW p \in Seq(S), NEW ps \in Seq(Seq(S)), Joins(s, ps)
    PROVE  Joins(s \o p, Append(ps, p))
<1> PICK cut : Cuts(s, ps, cut)
  BY DEF Joins
<1> DEFINE t == s \o p
           qs == Append(ps, p)
           new == [i \in 0 .. Len(qs) |-> IF i <= Len(ps) THEN cut[i] ELSE Len(t)]
<1>1. /\ Len(t) = Len(s) + Len(p) /\ Len(s) \in Nat /\ Len(p) \in Nat
      /\ \A i \in 1 .. Len(s) : t[i] = s[i]
      /\ \A i \in 1 .. Len(p) : t[Len(s) + i] = p[i]
  BY ConcatProperties
<1>2. /\ Len(qs) = Len(ps) + 1 /\ Len(ps) \in Nat /\ qs[Len(ps) + 1] = p
      /\ \A i \in 1 .. Len(ps) : qs[i] = ps[i]
  BY AppendProperties
<1> HIDE DEF t, qs
<1>3. new \in [0 .. Len(qs) -> 0 .. Len(t)] /\ new[0] = 0 /\ new[Len(qs)] = Len(t)
  BY <1>1, <1>2 DEF Cuts
<1>4. ASSUME NEW i \in 0 .. Len(qs), NEW j \in i .. Len(qs)
      PROVE  /\ new[i] <= new[j]
             /\ Void(qs, i, j) => new[i] = new[j]
  <2>1. CASE j <= Len(ps)
    <3>1. i \in 0 .. Len(ps) /\ j \in i .. Len(ps) /\ new[i] = cut[i] /\ new[j] = cut[j]
      BY <1>2, <2>1
    <3>2. Void(qs, i, j) => Void(ps, i, j)
      <4>1. \A k \in i + 1 .. j : qs[k] = ps[k]
        BY <1>2, <3>1
      <4> QED BY <4>1 DEF Void
    <3> HIDE DEF new
    <3> QED BY <1>2, <3>1, <3>2, CutIs
  <2>2. CASE i = j
    BY <1>1, <1>2, <1>3, <2>2
  <2>3. CASE i <= Len(ps) /\ j = Len(ps) + 1
    <3>1. /\ new[i] = cut[i] /\ new[j] = Len(s) + Len(p)
          /\ i \in 0 .. Len(ps) /\ Len(ps) \in i .. Len(ps)
      BY <1>1, <1>2, <2>3
    <3>2. cut[i] <= Len(s) /\ cut[i] \in Nat
      BY <1>1, <1>2, <3>1, CutIs
    <3>3. ASSUME Void(qs, i, j) PROVE new[i] = new[j]
      <4>1. p = <<>> /\ Len(p) = 0
        BY <1>2, <2>3, <3>3 DEF Void
      <4>2. Void(ps, i, Len(ps))
        BY <1>2, <2>3, <3>3 DEF Void
      <4>3. cut[i] = Len(s)
        BY <3>1, <4>2, <1>2, CutIs DEF Cuts
      <4> HIDE DEF new
      <4> QED BY <1>1, <3>1, <4>1, <4>3
    <3> HIDE DEF new
    <3>4. new[i] <= new[j]
      BY <1>1, <3>1, <3>2
    <3> QED BY <3>3, <3>4
  <2> QED BY <1>2, <2>1, <2>2, <2>3
<1>5. ASSUME NEW i \in 1 .. Len(qs) PROVE Piece(qs[i], t, new[i - 1], new[i])
  <2>1. CASE i <= Len(ps)
    <3>1. i \in 1 .. Len(ps)
      BY <1>2, <2>1
    <3>2. /\ Piece(ps[i], s, cut[i - 1], cut[i])
          /\ cut[i - 1] \in 0 .. Len(s) /\ cut[i] \in 0 .. Len(s)
      BY <1>2, <3>1, PieceIs
    <3>3. qs[i] = ps[i] /\ new[i - 1] = cut[i - 1] /\ new[i] = cut[i]
      BY <1>2, <3>1
    <3> DEFINE q == qs[i]
               a == new[i - 1]
               b == new[i]
    <3>4. /\ a \in 0 .. Len(s) /\ b \in 0 .. Len(s) /\ Len(q) = b - a
          /\ \A k \in 1 .. Len(q) : q[k] = s[a + k]
      BY <3>2, <3>3 DEF Piece
    <3> HIDE DEF new, q, a, b
    <3>5. \A k \in 1 .. Len(q) : a + k \in 1 .. Len(s)
      BY <1>1, <3>4
    <3>6. Piece(q, t, a, b)
      BY <1>1, <3>4, <3>5 DEF Piece
    <3> QED BY <3>6 DEF q, a, b
  <2>2. CASE i = Len(ps) + 1
    <3>1. new[i - 1] = Len(s) /\ new[i] = Len(t) /\ qs[i] = p
      BY <1>2, <2>2 DEF Cuts
    <3> HIDE DEF new
    <3> QED BY <1>1, <3>1 DEF Piece
  <2> QED BY <1>2, <2>1, <2>2
<1>6. Cuts(t, qs, new)
  <2> HIDE DEF new
  <2> QED BY <1>3, <1>4, <1>5 DEF Cuts
<1> QED BY <1>6 DEF Joins, t, qs

\* What follows some elements of a sequence.
After(s, n) == SubSeq(s, n + 1, Len(s))

LEMMA AfterIs ==
    ASSUME NEW S, NEW s \in Seq(S), NEW n \in 0 .. Len(s)
    PROVE  /\ After(s, n) \in Seq(S) /\ Len(After(s, n)) = Len(s) - n
           /\ \A i \in 1 .. Len(s) - n : After(s, n)[i] = s[n + i]
<1> DEFINE m == n + 1
           l == Len(s)
<1>1. m \in Int /\ l \in Int /\ \A i \in m .. l : s[i] \in S
  OBVIOUS
<1>2. /\ SubSeq(s, m, l) \in Seq(S)
      /\ Len(SubSeq(s, m, l)) = IF m <= l THEN l - m + 1 ELSE 0
      /\ \A i \in 1 .. l - m + 1 : SubSeq(s, m, l)[i] = s[m + i - 1]
  <2> HIDE DEF m, l
  <2> QED BY <1>1, SubSeqProperties
<1> QED BY <1>2 DEF After

LEMMA AfterConcat ==
    ASSUME NEW S, NEW t \in Seq(S), NEW b \in Seq(S), NEW d \in 0 .. Len(t)
    PROVE  After(t \o b, d) = After(t, d) \o b
<1> DEFINE s == t \o b
           u == After(s, d)
           v == After(t, d)
           w == v \o b
<1>1. /\ s \in Seq(S) /\ Len(s) = Len(t) + Len(b) /\ Len(t) \in Nat /\ Len(b) \in Nat
      /\ \A i \in 1 .. Len(t) + Len(b) : s[i] = IF i <= Len(t) THEN t[i] ELSE b[i - Len(t)]
  BY ConcatProperties
<1> HIDE DEF s
<1>2. d \in 0 .. Len(s) /\ s \in Seq(S)
  BY <1>1
<1>3. u \in Seq(S) /\ Len(u) = Len(s) - d /\ \A i \in 1 .. Len(s) - d : u[i] = s[d + i]
  <2>1. s \in Seq(S) /\ d \in 0 .. Len(s)
    BY <1>2
  <2> QED BY <2>1, AfterIs
<1>4. v \in Seq(S) /\ Len(v) = Len(t) - d /\ \A i \in 1 .. Len(t) - d : v[i] = t[d + i]
  BY AfterIs
<1> HIDE DEF u, v
<1>5. /\ w \in Seq(S) /\ Len(w) = Len(v) + Len(b)
      /\ \A i \in 1 .. Len(v) + Len(b) : w[i] = IF i <= Len(v) THEN v[i] ELSE b[i - Len(v)]
  BY <1>4, ConcatProperties
<1> HIDE DEF w
<1>6. Len(u) = Len(w)
  BY <1>1, <1>3, <1>4, <1>5
<1>7. ASSUME NEW i \in 1 .. Len(u) PROVE u[i] = w[i]
  <2>1. d + i \in 1 .. Len(t) + Len(b) /\ i \in 1 .. Len(s) - d /\ i \in 1 .. Len(v) + Len(b)
    BY <1>1, <1>3, <1>5, <1>6
  <2>2. u[i] = s[d + i]
    BY <1>3, <2>1
  <2>3. CASE i <= Len(t) - d
    <3>1. i <= Len(v) /\ d + i <= Len(t) /\ i \in 1 .. Len(t) - d
      BY <1>1, <1>4, <2>1, <2>3
    <3>2. w[i] = v[i] /\ v[i] = t[d + i] /\ s[d + i] = t[d + i]
      BY <1>1, <1>4, <1>5, <2>1, <3>1
    <3> QED BY <2>2, <3>2
  <2>4. CASE i > Len(t) - d
    <3>1. (d + i) - Len(t) = i - Len(v) /\ ~(i <= Len(v)) /\ ~(d + i <= Len(t))
      BY <1>1, <1>4, <2>1, <2>4
    <3>2. w[i] = b[i - Len(v)] /\ s[d + i] = b[(d + i) - Len(t)]
      BY <1>1, <1>5, <2>1, <3>1
    <3> QED BY <2>2, <3>1, <3>2
  <2> QED BY <1>1, <2>1, <2>3, <2>4
<1>8. u = w
  BY <1>3, <1>5, <1>6, <1>7, SeqEqual
<1> QED BY <1>8 DEF s, u, v, w

\* Some pieces are taken away, and with them what lies in them.
LEMMA JoinsAfter ==
    ASSUME NEW S, NEW s \in Seq(S), NEW ps \in Seq(Seq(S)), Joins(s, ps),
           NEW n \in 0 .. Len(ps)
    PROVE  \E d \in 0 .. Len(s) : /\ Joins(After(s, d), After(ps, n))
                                  /\ Void(ps, 0, n) => d = 0
                                  /\ n = 1 => Piece(ps[1], s, 0, d)
<1> PICK cut : Cuts(s, ps, cut)
  BY DEF Joins
<1> DEFINE d == cut[n]
           t == After(s, d)
           qs == After(ps, n)
           new == [i \in 0 .. Len(qs) |-> cut[n + i] - d]
<1>1. Len(s) \in Nat /\ Len(ps) \in Nat /\ 0 \in 0 .. Len(ps) /\ n \in 0 .. Len(ps)
  OBVIOUS
<1>2. d \in 0 .. Len(s) /\ (Void(ps, 0, n) => d = 0)
  BY <1>1, CutIs DEF Cuts
<1> HIDE DEF d
<1>3. Len(t) = Len(s) - d /\ \A i \in 1 .. Len(s) - d : t[i] = s[d + i]
  BY <1>2, AfterIs
<1>4. Len(qs) = Len(ps) - n /\ \A i \in 1 .. Len(ps) - n : qs[i] = ps[n + i]
  BY AfterIs
<1> HIDE DEF t, qs
<1>5. ASSUME NEW i \in 0 .. Len(qs)
      PROVE  /\ n + i \in n .. Len(ps) /\ n + i \in 0 .. Len(ps)
             /\ cut[n + i] \in d .. Len(s)
  <2>1. n + i \in n .. Len(ps) /\ n + i \in 0 .. Len(ps)
    BY <1>4
  <2>2. d <= cut[n + i] /\ cut[n + i] \in 0 .. Len(s)
    BY <1>1, <2>1, CutIs DEF d
  <2> QED BY <1>2, <2>1, <2>2
<1>6. new \in [0 .. Len(qs) -> 0 .. Len(t)] /\ new[0] = 0 /\ new[Len(qs)] = Len(t)
  <2>1. \A i \in 0 .. Len(qs) : cut[n + i] - d \in 0 .. Len(t)
    BY <1>2, <1>3, <1>5
  <2>2. n + 0 = n /\ n + Len(qs) = Len(ps) /\ 0 \in 0 .. Len(qs) /\ Len(qs) \in 0 .. Len(qs)
    BY <1>4
  <2>3. new[0] = d - d /\ new[Len(qs)] = Len(s) - d
    BY <2>2 DEF Cuts, d
  <2>4. new \in [0 .. Len(qs) -> 0 .. Len(t)]
    BY <2>1
  <2> HIDE DEF new
  <2> QED BY <1>2, <1>3, <2>3, <2>4
<1>7. ASSUME NEW i \in 0 .. Len(qs), NEW j \in i .. Len(qs)
      PROVE  new[i] <= new[j] /\ (Void(qs, i, j) => new[i] = new[j])
  <2>1. /\ j \in 0 .. Len(qs) /\ n + j \in n + i .. Len(ps)
        /\ new[i] = cut[n + i] - d /\ new[j] = cut[n + j] - d
    BY <1>4, <1>5
  <2>2. cut[n + i] \in d .. Len(s) /\ cut[n + j] \in d .. Len(s)
    BY <1>5, <2>1
  <2>3. cut[n + i] <= cut[n + j] /\ (Void(ps, n + i, n + j) => cut[n + i] = cut[n + j])
    BY <1>1, <1>5, <2>1, CutIs
  <2>4. ASSUME Void(qs, i, j) PROVE Void(ps, n + i, n + j)
    <3>1. ASSUME NEW k \in n + i + 1 .. n + j PROVE ps[k] = <<>>
      <4>1. k - n \in i + 1 .. j /\ k - n \in 1 .. Len(ps) - n /\ n + (k - n) = k
        <5>1. n \in Nat /\ i \in Nat /\ j \in Nat /\ Len(ps) \in Nat /\ j <= Len(ps) - n
          BY <1>1, <1>4, <2>1
        <5> QED BY <5>1
      <4> QED BY <1>4, <2>4, <4>1 DEF Void
    <3> QED BY <3>1 DEF Void
  <2> HIDE DEF new
  <2> QED BY <1>2, <2>1, <2>2, <2>3, <2>4
<1>8. ASSUME NEW i \in 1 .. Len(qs) PROVE Piece(qs[i], t, new[i - 1], new[i])
  <2>1. n + i \in 1 .. Len(ps) /\ n + i - 1 = n + (i - 1) /\ i - 1 \in 0 .. Len(qs) /\ i \in 0 .. Len(qs)
    BY <1>4
  <2> DEFINE q == qs[i]
             a == cut[n + (i - 1)]
             b == cut[n + i]
  <2>2. Piece(ps[n + i], s, a, b)
    BY <1>1, <2>1, PieceIs
  <2>3. a \in d .. Len(s) /\ b \in d .. Len(s) /\ new[i - 1] = a - d /\ new[i] = b - d
    BY <1>5, <2>1
  <2>4. q = ps[n + i]
    BY <1>4, <2>1
  <2>5. Len(q) = b - a /\ \A k \in 1 .. Len(q) : q[k] = s[a + k]
    BY <2>2, <2>4 DEF Piece
  <2> HIDE DEF new, q, a, b
  <2>6. ASSUME NEW k \in 1 .. Len(q) PROVE q[k] = t[(a - d) + k]
    <3> DEFINE m == (a - d) + k
    <3>1. m \in 1 .. Len(s) - d /\ d + m = a + k
      BY <1>1, <1>2, <2>3, <2>5
    <3> HIDE DEF m
    <3>2. t[m] = s[d + m]
      BY <1>3, <3>1
    <3> QED BY <2>5, <3>1, <3>2 DEF m
  <2>7. Len(q) = (b - d) - (a - d)
    BY <1>1, <1>2, <2>3, <2>5
  <2>8. Piece(q, t, a - d, b - d)
    BY <2>6, <2>7 DEF Piece
  <2> QED BY <2>3, <2>8 DEF q
<1>9. Cuts(t, qs, new)
  <2> HIDE DEF new
  <2> QED BY <1>6, <1>7, <1>8 DEF Cuts
<1>10. n = 1 => Piece(ps[1], s, 0, d)
  BY <1>1, PieceIs DEF Cuts, d
<1> QED BY <1>2, <1>9, <1>10 DEF Joins, t, qs

\* A piece is put before the others.
LEMMA JoinsBefore ==
    ASSUME NEW S, NEW s \in Seq(S), NEW p \in Seq(S), NEW ps \in Seq(Seq(S)), Joins(s, ps)
    PROVE  Joins(p \o s, <<p>> \o ps)
<1> PICK cut : Cuts(s, ps, cut)
  BY DEF Joins
<1> DEFINE t == p \o s
           qs == <<p>> \o ps
           d == Len(p)
           new == [i \in 0 .. Len(qs) |-> IF i = 0 THEN 0 ELSE d + cut[i - 1]]
<1>1. /\ Len(t) = d + Len(s) /\ Len(s) \in Nat /\ d \in Nat /\ Len(ps) \in Nat
      /\ \A i \in 1 .. d : t[i] = p[i]
      /\ \A i \in 1 .. Len(s) : t[d + i] = s[i]
  BY ConcatProperties
<1>2. Len(qs) = 1 + Len(ps) /\ qs[1] = p /\ \A i \in 1 .. Len(ps) : qs[1 + i] = ps[i]
  <2>1. <<p>> \in Seq(Seq(S)) /\ Len(<<p>>) = 1 /\ <<p>>[1] = p
    OBVIOUS
  <2>2. \A i \in 1 .. 1 + Len(ps) : qs[i] = IF i <= 1 THEN <<p>>[i] ELSE ps[i - 1]
    BY <2>1, ConcatProperties
  <2>3. Len(qs) = 1 + Len(ps)
    BY <2>1, ConcatProperties
  <2> HIDE DEF qs
  <2> QED BY <1>1, <2>1, <2>2, <2>3
<1>0. d = 0 <=> p = <<>>
  BY EmptySeq
<1> HIDE DEF t, qs, d
<1>3. ASSUME NEW i \in 1 .. Len(qs)
      PROVE  i - 1 \in 0 .. Len(ps) /\ cut[i - 1] \in 0 .. Len(s) /\ new[i] = d + cut[i - 1]
  <2>1. i - 1 \in 0 .. Len(ps) /\ new[i] = d + cut[i - 1]
    BY <1>2
  <2> QED BY <1>1, <2>1, CutIs
<1>4. new \in [0 .. Len(qs) -> 0 .. Len(t)] /\ new[0] = 0 /\ new[Len(qs)] = Len(t)
  <2>1. \A i \in 0 .. Len(qs) : (IF i = 0 THEN 0 ELSE d + cut[i - 1]) \in 0 .. Len(t)
    <3>1. ASSUME NEW i \in 1 .. Len(qs) PROVE d + cut[i - 1] \in 0 .. Len(t)
      <4>1. cut[i - 1] \in 0 .. Len(s)
        BY <1>3
      <4> QED BY <1>1, <4>1
    <3>2. \A i \in 0 .. Len(qs) : i = 0 \/ i \in 1 .. Len(qs)
      BY <1>1, <1>2
    <3> QED BY <1>1, <3>1, <3>2
  <2>2. new[0] = 0 /\ Len(qs) \in 1 .. Len(qs) /\ Len(qs) - 1 = Len(ps)
    BY <1>1, <1>2
  <2>3. new[Len(qs)] = d + cut[Len(ps)]
    BY <1>3, <2>2
  <2>4. new \in [0 .. Len(qs) -> 0 .. Len(t)]
    BY <2>1
  <2> HIDE DEF new
  <2> QED BY <1>1, <2>2, <2>3, <2>4 DEF Cuts
<1>5. ASSUME NEW i \in 0 .. Len(qs), NEW j \in i .. Len(qs)
      PROVE  new[i] <= new[j] /\ (Void(qs, i, j) => new[i] = new[j])
  <2>0. new[i] \in Nat /\ new[j] \in Nat /\ new[0] = 0
    BY <1>1, <1>2, <1>4
  <2>1. CASE j = i
    BY <2>0, <2>1
  <2>2. CASE i = 0 /\ j # 0
    <3>1. j \in 1 .. Len(qs) /\ 0 \in 0 .. Len(ps)
      BY <1>1, <1>2, <2>2
    <3>2. new[j] = d + cut[j - 1] /\ j - 1 \in 0 .. Len(ps) /\ cut[0] = 0
      BY <1>3, <3>1 DEF Cuts
    <3>3. ASSUME Void(qs, i, j) PROVE new[j] = 0
      <4>1. p = <<>>
        BY <1>2, <2>2, <3>1, <3>3 DEF Void
      <4>2. Void(ps, 0, j - 1)
        <5>1. \A k \in 1 .. j - 1 : k \in 1 .. Len(ps) /\ 1 + k \in 1 .. j
          BY <1>2, <3>1
        <5> QED BY <1>2, <2>2, <3>3, <5>1 DEF Void
      <4>3. cut[0] = cut[j - 1]
        <5>1. \A y \in 0 .. Len(ps) : Void(ps, 0, y) => cut[0] = cut[y]
          BY <1>1, <3>1, CutIs
        <5> QED BY <3>2, <4>2, <5>1
      <4> QED BY <1>0, <1>1, <3>2, <4>1, <4>3
    <3> QED BY <2>0, <2>2, <3>3
  <2>3. CASE i # 0 /\ j # i
    <3>1. i \in 1 .. Len(qs) /\ j \in 1 .. Len(qs)
      BY <2>3
    <3>2. /\ new[i] = d + cut[i - 1] /\ new[j] = d + cut[j - 1]
          /\ cut[i - 1] \in 0 .. Len(s) /\ cut[j - 1] \in 0 .. Len(s)
          /\ i - 1 \in 0 .. Len(ps) /\ j - 1 \in i - 1 .. Len(ps)
      <4>1. i - 1 \in 0 .. Len(ps) /\ j - 1 \in i - 1 .. Len(ps)
        BY <1>1, <1>2, <3>1
      <4> HIDE DEF new
      <4>2. new[i] = d + cut[i - 1] /\ cut[i - 1] \in 0 .. Len(s)
        BY <1>3, <3>1
      <4>3. new[j] = d + cut[j - 1] /\ cut[j - 1] \in 0 .. Len(s)
        BY <1>3, <3>1
      <4> QED BY <4>1, <4>2, <4>3
    <3>3. cut[i - 1] <= cut[j - 1] /\ (Void(ps, i - 1, j - 1) => cut[i - 1] = cut[j - 1])
      <4> DEFINE x == i - 1
                 y == j - 1
      <4>1. x \in 0 .. Len(ps) /\ y \in x .. Len(ps)
        BY <3>2
      <4> HIDE DEF x, y
      <4>2. cut[x] <= cut[y] /\ (Void(ps, x, y) => cut[x] = cut[y])
        BY <1>1, <4>1, CutIs
      <4> QED BY <4>2 DEF x, y
    <3>4. ASSUME Void(qs, i, j) PROVE Void(ps, i - 1, j - 1)
      <4>1. \A k \in (i - 1) + 1 .. j - 1 : k \in 1 .. Len(ps) /\ 1 + k \in i + 1 .. j
        BY <1>2, <3>1
      <4> QED BY <1>2, <3>4, <4>1 DEF Void
    <3> HIDE DEF new
    <3> QED BY <1>1, <3>2, <3>3, <3>4
  <2> QED BY <2>1, <2>2, <2>3
<1>6. ASSUME NEW i \in 1 .. Len(qs) PROVE Piece(qs[i], t, new[i - 1], new[i])
  <2>1. CASE i = 1
    <3>1. new[i - 1] = 0 /\ new[i] = d /\ qs[i] = p /\ Len(p) = d
      <4>1. new[0] = 0 /\ i - 1 = 0 /\ cut[i - 1] = 0
        BY <1>1, <1>2, <2>1 DEF Cuts
      <4> QED BY <1>1, <1>2, <1>3, <2>1, <4>1 DEF d
    <3> HIDE DEF new
    <3> QED BY <1>1, <3>1 DEF Piece
  <2>2. CASE i # 1
    <3>1. i - 1 \in 1 .. Len(ps) /\ 1 + (i - 1) = i /\ i - 1 \in 1 .. Len(qs)
      BY <1>2, <2>2
    <3> DEFINE q == qs[i]
               a == cut[(i - 1) - 1]
               b == cut[i - 1]
    <3>2. /\ Piece(ps[i - 1], s, a, b) /\ a \in 0 .. Len(s) /\ b \in 0 .. Len(s)
      BY <1>1, <3>1, PieceIs
    <3>3. q = ps[i - 1] /\ new[i - 1] = d + a /\ new[i] = d + b
      BY <1>2, <1>3, <3>1
    <3>4. Len(q) = b - a /\ \A k \in 1 .. Len(q) : q[k] = s[a + k]
      BY <3>2, <3>3 DEF Piece
    <3> HIDE DEF new, q, a, b
    <3>5. ASSUME NEW k \in 1 .. Len(q) PROVE q[k] = t[(d + a) + k]
      <4> DEFINE m == a + k
      <4>1. m \in 1 .. Len(s) /\ d + m = (d + a) + k
        BY <1>1, <3>2, <3>4
      <4> HIDE DEF m
      <4>2. t[d + m] = s[m]
        BY <1>1, <4>1
      <4> QED BY <3>4, <4>1, <4>2 DEF m
    <3>6. Piece(q, t, d + a, d + b)
      BY <1>1, <3>2, <3>4, <3>5 DEF Piece
    <3> QED BY <3>3, <3>6 DEF q
  <2> QED BY <2>1, <2>2
<1>7. Cuts(t, qs, new)
  <2> HIDE DEF new
  <2> QED BY <1>4, <1>5, <1>6 DEF Cuts
<1> QED BY <1>7 DEF Joins, t, qs
-----------------------------------------------------------------------------
(* Bytes on their way to the host.                                            *)

\* Of the bytes s, some are in the packets, and b in a bank behind them.
Carried(s, r, b) ==
    \E t \in Seq(Byte) : \E ps \in Seq(Seq(Byte)) :
       /\ Joins(t, ps) /\ s = t \o b
       /\ Len(r) = Len(ps) /\ \A i \in 1 .. Len(ps) : Content(r[i]) = ps[i]

Filling == Byte \union {Pad}

LEMMA ContentIs ==
    ASSUME NEW p \in Seq(Byte), NEW q \in Seq(Filling), Len(p) <= Len(q),
           \A i \in 1 .. Len(q) : q[i] = IF i <= Len(p) THEN p[i] ELSE Pad
    PROVE  Content(q) = p
<1> DEFINE IsEnd(n) == \A i \in 1 .. Len(q) : q[i] = Pad <=> i > n
           n == CHOOSE n \in 0 .. Len(q) : IsEnd(n)
<1>1. Len(p) \in 0 .. Len(q) /\ Len(q) \in Nat
  OBVIOUS
<1>2. IsEnd(Len(p))
  <2>1. \A i \in 1 .. Len(p) : p[i] # Pad
    BY ChannelAssumption
  <2> SUFFICES ASSUME NEW i \in 1 .. Len(q) PROVE q[i] = Pad <=> i > Len(p)
    OBVIOUS
  <2>2. i \in Nat /\ Len(p) \in Nat /\ i >= 1
    BY <1>1
  <2>3. q[i] = IF i <= Len(p) THEN p[i] ELSE Pad
    OBVIOUS
  <2>4. CASE i <= Len(p)
    <3>1. i \in 1 .. Len(p) /\ ~(i > Len(p))
      BY <2>2, <2>4
    <3> QED BY <2>1, <2>3, <2>4, <3>1
  <2>5. CASE ~(i <= Len(p))
    <3>1. i > Len(p)
      BY <2>2, <2>5
    <3> QED BY <2>3, <2>5, <3>1
  <2> QED BY <2>4, <2>5
<1>3. n \in 0 .. Len(q) /\ IsEnd(n)
  BY <1>1, <1>2
<1>4. n = Len(p)
  <2>1. CASE n < Len(p)
    <3>1. n + 1 \in 1 .. Len(q) /\ n + 1 > n /\ ~(n + 1 > Len(p))
      BY <1>1, <1>3, <2>1
    <3> QED BY <1>2, <1>3, <3>1
  <2>2. CASE n > Len(p)
    <3>1. n \in 1 .. Len(q) /\ ~(n > n)
      BY <1>1, <1>3, <2>2
    <3> QED BY <1>2, <1>3, <2>2, <3>1
  <2> QED BY <1>1, <1>3, <2>1, <2>2
<1>5. SubSeq(q, 1, Len(p)) = p
  <2>1. \A i \in 1 .. Len(p) : q[i] \in Byte /\ q[i] = p[i]
    BY <1>1
  <2>2. /\ SubSeq(q, 1, Len(p)) \in Seq(Byte)
        /\ Len(SubSeq(q, 1, Len(p))) = IF 1 <= Len(p) THEN Len(p) - 1 + 1 ELSE 0
        /\ \A i \in 1 .. Len(p) - 1 + 1 : SubSeq(q, 1, Len(p))[i] = q[1 + i - 1]
    <3>1. 1 \in Int /\ Len(p) \in Int
      OBVIOUS
    <3> QED BY <2>1, <3>1, SubSeqProperties
  <2>3. Len(SubSeq(q, 1, Len(p))) = Len(p)
    BY <1>1, <2>2
  <2>4. \A i \in 1 .. Len(p) : SubSeq(q, 1, Len(p))[i] = p[i]
    BY <1>1, <2>1, <2>2
  <2> QED BY <2>2, <2>3, <2>4, SeqEqual
<1> QED BY <1>4, <1>5 DEF Content

\* As it is, and filled up.
LEMMA ContentOf ==
    ASSUME NEW p \in Seq(Byte), NEW n \in Nat
    PROVE  /\ p \in Seq(Filling) /\ Content(p) = p
           /\ p \o [i \in 1 .. n |-> Pad] \in Seq(Filling)
           /\ Content(p \o [i \in 1 .. n |-> Pad]) = p
<1> DEFINE f == [i \in 1 .. n |-> Pad]
           q == p \o f
<1>1. p \in Seq(Filling)
  BY SeqMonotonic DEF Filling
<1>2. f \in Seq(Filling) /\ Len(f) = n /\ \A i \in 1 .. n : f[i] = Pad
  <2>1. f \in [1 .. n -> Filling]
    BY DEF Filling
  <2> QED BY <2>1
<1> HIDE DEF f
<1>3. /\ q \in Seq(Filling) /\ Len(q) = Len(p) + n
      /\ \A i \in 1 .. Len(p) + n : q[i] = IF i <= Len(p) THEN p[i] ELSE f[i - Len(p)]
  BY <1>1, <1>2, ConcatProperties
<1>4. \A i \in 1 .. Len(q) : q[i] = IF i <= Len(p) THEN p[i] ELSE Pad
  BY <1>2, <1>3
<1>5. Len(p) <= Len(q) /\ Len(p) <= Len(p)
  BY <1>3
<1> HIDE DEF q
<1>6. Content(q) = p
  BY <1>3, <1>4, <1>5, ContentIs
<1>7. Content(p) = p
  BY <1>1, <1>5, ContentIs
<1> QED BY <1>1, <1>3, <1>6, <1>7 DEF q, f

LEMMA CarriedNone == Carried(<<>>, <<>>, <<>>)
<1>1. /\ <<>> \in Seq(Byte) /\ <<>> \in Seq(Seq(Byte)) /\ Len(<<>>) = 0
      /\ <<>> = <<>> \o <<>>
  <2>1. <<>> \in Seq(Byte)
    BY EmptySeq
  <2> QED BY <2>1, ConcatEmptySeq, EmptySeq
<1>2. \A i \in 1 .. Len(<<>>) : Content(<<>>[i]) = <<>>[i]
  BY <1>1
<1> HIDE DEF Content
<1> QED BY <1>1, <1>2, JoinsNone DEF Carried

LEMMA CarriedByte ==
    ASSUME NEW s, NEW r, NEW b \in Seq(Byte), NEW c \in Byte, Carried(s, r, b)
    PROVE  Carried(Append(s, c), r, Append(b, c))
<1> PICK t \in Seq(Byte), ps \in Seq(Seq(Byte)) :
       /\ Joins(t, ps) /\ s = t \o b
       /\ Len(r) = Len(ps) /\ \A i \in 1 .. Len(ps) : Content(r[i]) = ps[i]
  BY DEF Carried
<1>1. s \in Seq(Byte) /\ <<c>> \in Seq(Byte)
  BY ConcatProperties
<1>2. Append(s, c) = t \o Append(b, c)
  <2>1. Append(s, c) = s \o <<c>> /\ Append(b, c) = b \o <<c>>
    BY <1>1, AppendIsConcat
  <2>2. (t \o b) \o <<c>> = t \o (b \o <<c>>)
    BY <1>1, ConcatAssociative
  <2> QED BY <2>1, <2>2
<1> QED BY <1>2 DEF Carried

LEMMA CarriedPacket ==
    ASSUME NEW s, NEW r \in Seq(Seq(Filling)), NEW b \in Seq(Byte), Carried(s, r, b),
           NEW q \in Seq(Filling), Content(q) = b
    PROVE  Carried(s, Append(r, q), <<>>)
<1> PICK t \in Seq(Byte), ps \in Seq(Seq(Byte)) :
       /\ Joins(t, ps) /\ s = t \o b
       /\ Len(r) = Len(ps) /\ \A i \in 1 .. Len(ps) : Content(r[i]) = ps[i]
  BY DEF Carried
<1>1. s \in Seq(Byte) /\ s = s \o <<>>
  BY ConcatProperties, ConcatEmptySeq
<1>2. Joins(s, Append(ps, b))
  BY JoinsAppend
<1>3. /\ Append(ps, b) \in Seq(Seq(Byte)) /\ Len(Append(ps, b)) = Len(ps) + 1
      /\ Append(ps, b)[Len(ps) + 1] = b /\ \A i \in 1 .. Len(ps) : Append(ps, b)[i] = ps[i]
  BY AppendProperties
<1>4. /\ Len(Append(r, q)) = Len(ps) + 1 /\ Append(r, q)[Len(ps) + 1] = q
      /\ \A i \in 1 .. Len(ps) : Append(r, q)[i] = r[i]
  BY AppendProperties
<1> DEFINE qs == Append(ps, b)
           rs == Append(r, q)
<1>5. \A i \in 1 .. Len(ps) + 1 : Content(rs[i]) = qs[i]
  BY <1>3, <1>4
<1>6. qs \in Seq(Seq(Byte)) /\ Joins(s, qs) /\ Len(rs) = Len(qs)
  BY <1>2, <1>3, <1>4
<1>7. \A i \in 1 .. Len(qs) : Content(rs[i]) = qs[i]
  BY <1>3, <1>5
<1> HIDE DEF qs, rs
<1>8. Carried(s, rs, <<>>)
  BY <1>1, <1>6, <1>7 DEF Carried
<1> QED BY <1>8 DEF rs

LEMMA CarriedCollected ==
    ASSUME NEW s \in Seq(Byte), NEW r \in Seq(Seq(Filling)), NEW b \in Seq(Byte),
           Carried(s, r, b), r # <<>>, NEW p, p = Content(Head(r))
    PROVE  /\ p \in Seq(Byte) /\ Len(p) \in 0 .. Len(s) /\ p = SubSeq(s, 1, Len(p))
           /\ Carried(After(s, Len(p)), Tail(r), b)
<1> PICK t \in Seq(Byte), ps \in Seq(Seq(Byte)) :
       /\ Joins(t, ps) /\ s = t \o b
       /\ Len(r) = Len(ps) /\ \A i \in 1 .. Len(ps) : Content(r[i]) = ps[i]
  BY DEF Carried
<1>1. 1 \in 1 .. Len(ps) /\ 1 \in 0 .. Len(ps) /\ Head(r) = r[1]
  OBVIOUS
<1>2. PICK d \in 0 .. Len(t) : Joins(After(t, d), After(ps, 1)) /\ Piece(ps[1], t, 0, d)
  BY <1>1, JoinsAfter
<1>3. p = ps[1] /\ p \in Seq(Byte)
  BY <1>1
<1>4. Len(p) = d /\ \A i \in 1 .. d : p[i] = t[i]
  BY <1>2, <1>3 DEF Piece
<1>5. /\ Len(s) = Len(t) + Len(b) /\ Len(t) \in Nat /\ Len(b) \in Nat
      /\ \A i \in 1 .. Len(t) + Len(b) : s[i] = IF i <= Len(t) THEN t[i] ELSE b[i - Len(t)]
  BY ConcatProperties
<1>6. d \in 0 .. Len(s)
  BY <1>5
<1>7. p = SubSeq(s, 1, d)
  <2> DEFINE q == SubSeq(s, 1, d)
  <2>1. \A i \in 1 .. d : s[i] \in Byte /\ s[i] = t[i]
    BY <1>5, <1>6
  <2>2. /\ q \in Seq(Byte) /\ Len(q) = IF 1 <= d THEN d - 1 + 1 ELSE 0
        /\ \A i \in 1 .. d - 1 + 1 : q[i] = s[1 + i - 1]
    <3>1. 1 \in Int /\ d \in Int
      OBVIOUS
    <3> QED BY <2>1, <3>1, SubSeqProperties
  <2> HIDE DEF q
  <2>3. Len(q) = d /\ \A i \in 1 .. d : q[i] = p[i]
    BY <1>4, <2>1, <2>2
  <2>4. p = q
    BY <1>3, <1>4, <2>2, <2>3, SeqEqual
  <2> QED BY <2>4 DEF q
<1>8. After(s, d) = After(t, d) \o b
  BY AfterConcat
<1>9. /\ After(ps, 1) \in Seq(Seq(Byte)) /\ Len(After(ps, 1)) = Len(ps) - 1
      /\ \A i \in 1 .. Len(ps) - 1 : After(ps, 1)[i] = ps[1 + i]
  <2> DEFINE S == Seq(Byte)
  <2>1. ps \in Seq(S) /\ 1 \in 0 .. Len(ps)
    BY <1>1
  <2> HIDE DEF S
  <2>2. /\ After(ps, 1) \in Seq(S) /\ Len(After(ps, 1)) = Len(ps) - 1
        /\ \A i \in 1 .. Len(ps) - 1 : After(ps, 1)[i] = ps[1 + i]
    BY <2>1, AfterIs
  <2> QED BY <2>2 DEF S
<1>10. /\ Len(Tail(r)) = Len(ps) - 1
       /\ \A i \in 1 .. Len(ps) - 1 : Content(Tail(r)[i]) = After(ps, 1)[i]
  <2>1. Len(Tail(r)) = Len(r) - 1 /\ \A i \in 1 .. Len(Tail(r)) : Tail(r)[i] = r[i + 1]
    BY HeadTailProperties
  <2>2. \A i \in 1 .. Len(ps) - 1 : i + 1 \in 1 .. Len(ps) /\ 1 + i = i + 1
    BY <1>1
  <2> QED BY <1>9, <2>1, <2>2
<1>11. After(t, d) \in Seq(Byte)
  BY AfterIs
<1>12. Carried(After(s, d), Tail(r), b)
  BY <1>2, <1>8, <1>9, <1>10, <1>11 DEF Carried
<1> QED BY <1>3, <1>4, <1>6, <1>7, <1>12
-----------------------------------------------------------------------------
(* Bytes on their way to the line.                                            *)

LEMMA AfterNone == ASSUME NEW S, NEW s \in Seq(S) PROVE After(s, 0) = s
<1>1. /\ After(s, 0) \in Seq(S) /\ Len(After(s, 0)) = Len(s) - 0
      /\ \A i \in 1 .. Len(s) - 0 : After(s, 0)[i] = s[0 + i]
  <2>1. 0 \in 0 .. Len(s)
    OBVIOUS
  <2> QED BY <2>1, AfterIs
<1>2. Len(After(s, 0)) = Len(s) /\ \A i \in 1 .. Len(After(s, 0)) : After(s, 0)[i] = s[i]
  BY <1>1
<1> QED BY <1>1, <1>2, SeqEqual

LEMMA AfterAfter ==
    ASSUME NEW S, NEW s \in Seq(S), NEW k \in 1 .. Len(s)
    PROVE  /\ Len(After(s, k - 1)) >= 1 /\ After(s, k - 1)[1] = s[k]
           /\ After(After(s, k - 1), 1) = After(s, k)
<1> DEFINE m == k - 1
           u == After(s, m)
           v == After(u, 1)
           w == After(s, k)
<1>1. m \in 0 .. Len(s) /\ k \in 0 .. Len(s) /\ m + 1 = k /\ m \in Nat /\ Len(s) \in Nat
  OBVIOUS
<1> HIDE DEF m
<1>2. u \in Seq(S) /\ Len(u) = Len(s) - m /\ \A i \in 1 .. Len(s) - m : u[i] = s[m + i]
  BY <1>1, AfterIs
<1>3. w \in Seq(S) /\ Len(w) = Len(s) - k /\ \A i \in 1 .. Len(s) - k : w[i] = s[k + i]
  BY <1>1, AfterIs
<1> HIDE DEF u, w
<1>4. Len(u) >= 1 /\ u[1] = s[k]
  BY <1>1, <1>2
<1>5. 1 \in 0 .. Len(u) /\ u \in Seq(S)
  BY <1>2, <1>4
<1>6. v \in Seq(S) /\ Len(v) = Len(u) - 1 /\ \A i \in 1 .. Len(u) - 1 : v[i] = u[1 + i]
  BY <1>5, AfterIs
<1> HIDE DEF v
<1>7. Len(v) = Len(w)
  <2>1. Len(v) = (Len(s) - m) - 1 /\ Len(w) = Len(s) - k
    BY <1>2, <1>3, <1>6
  <2> QED BY <1>1, <2>1
<1>8. ASSUME NEW i \in 1 .. Len(v) PROVE v[i] = w[i]
  <2> DEFINE j == 1 + i
  <2>1. i \in 1 .. Len(u) - 1 /\ i \in 1 .. Len(s) - k /\ j \in 1 .. Len(s) - m /\ m + j = k + i
    BY <1>1, <1>2, <1>3, <1>6, <1>7
  <2>2. v[i] = u[j]
    BY <1>6, <2>1
  <2> HIDE DEF j
  <2>3. u[j] = s[m + j] /\ w[i] = s[k + i]
    BY <1>2, <1>3, <2>1
  <2> QED BY <2>1, <2>2, <2>3
<1>9. v = w
  BY <1>3, <1>6, <1>7, <1>8, SeqEqual
<1> QED BY <1>4, <1>9 DEF m, u, v, w

LEMMA JoinsVoid ==
    ASSUME NEW S, NEW s \in Seq(S), NEW ps \in Seq(Seq(S)), Joins(s, ps), Void(ps, 0, Len(ps))
    PROVE  s = <<>>
<1> PICK cut : Cuts(s, ps, cut)
  BY DEF Joins
<1>1. Len(ps) \in Nat /\ 0 \in 0 .. Len(ps) /\ Len(ps) \in 0 .. Len(ps)
  OBVIOUS
<1>2. cut[0] = cut[Len(ps)]
  BY <1>1, CutIs
<1>3. Len(s) = 0
  BY <1>2 DEF Cuts
<1> QED BY <1>3, EmptySeq

\* The first byte of what is in the packets is taken from the first that holds any.
LEMMA JoinsTaken ==
    ASSUME NEW S, NEW s \in Seq(S), NEW ps \in Seq(Seq(S)), Joins(s, ps),
           NEW k \in 1 .. Len(ps), Void(ps, 0, k - 1), ps[k] # <<>>
    PROVE  /\ s # <<>> /\ Head(s) = Head(ps[k])
           /\ Joins(Tail(s), (IF Len(ps[k]) = 1 THEN <<>> ELSE <<Tail(ps[k])>>) \o After(ps, k))
<1> DEFINE p == ps[k]
           qs == After(ps, k - 1)
           rest == After(ps, k)
<1>1. k - 1 \in 0 .. Len(ps) /\ k \in 0 .. Len(ps)
  OBVIOUS
<1>2. PICK z \in 0 .. Len(s) : Joins(After(s, z), qs) /\ (Void(ps, 0, k - 1) => z = 0)
  BY <1>1, JoinsAfter
<1>3. Joins(s, qs)
  <2>1. z = 0 /\ After(s, 0) = s
    BY <1>2, AfterNone
  <2> QED BY <1>2, <2>1
<1>4. Len(qs) >= 1 /\ qs[1] = p /\ After(qs, 1) = rest
  BY AfterAfter
<1>5. qs \in Seq(Seq(S)) /\ rest \in Seq(Seq(S))
  BY <1>1, AfterIs
<1>6. p \in Seq(S)
  OBVIOUS
<1> HIDE DEF p, qs, rest
<1>7. 1 \in 0 .. Len(qs) /\ qs \in Seq(Seq(S))
  BY <1>4, <1>5
<1>8. PICK d \in 0 .. Len(s) : Joins(After(s, d), rest) /\ Piece(p, s, 0, d)
  BY <1>3, <1>4, <1>7, JoinsAfter
<1> DEFINE t == After(s, d)
<1>9. Len(p) = d /\ \A i \in 1 .. d : p[i] = s[i]
  <2>1. Len(p) = d - 0 /\ \A i \in 1 .. Len(p) : p[i] = s[0 + i]
    BY <1>8 DEF Piece
  <2>2. d - 0 = d /\ \A i \in 1 .. d : 0 + i = i
    OBVIOUS
  <2> QED BY <2>1, <2>2
<1>10. d >= 1
  <2>1. p # <<>>
    BY DEF p
  <2> QED BY <1>6, <1>9, <2>1
<1>11. s # <<>> /\ Head(s) = Head(p)
  BY <1>6, <1>9, <1>10
<1>12. t \in Seq(S) /\ Len(t) = Len(s) - d /\ \A i \in 1 .. Len(s) - d : t[i] = s[d + i]
  BY AfterIs
<1> HIDE DEF t
<1>13. Tail(s) \in Seq(S) /\ Len(Tail(s)) = Len(s) - 1 /\ \A i \in 1 .. Len(s) - 1 : Tail(s)[i] = s[i + 1]
  BY <1>11, HeadTailProperties
<1>14. CASE d = 1
  <2>1. \A i \in 1 .. Len(t) : t[i] = Tail(s)[i]
    BY <1>12, <1>13, <1>14
  <2>2. Len(t) = Len(Tail(s))
    BY <1>12, <1>13, <1>14
  <2>3. t = Tail(s)
    BY <1>12, <1>13, <2>1, <2>2, SeqEqual
  <2>4. <<>> \o rest = rest
    BY <1>5, ConcatEmptySeq
  <2> QED BY <1>8, <1>9, <1>11, <1>14, <2>3, <2>4 DEF t, p, rest
<1>15. CASE d # 1
  <2> DEFINE q == Tail(p)
             w == q \o t
  <2>1. q \in Seq(S) /\ Len(q) = d - 1 /\ \A i \in 1 .. d - 1 : q[i] = p[i + 1]
    <3>1. p # <<>>
      BY <1>9, <1>10
    <3> QED BY <1>6, <1>9, <3>1, HeadTailProperties
  <2> HIDE DEF q
  <2>2. /\ w \in Seq(S) /\ Len(w) = Len(q) + Len(t)
        /\ \A i \in 1 .. Len(q) + Len(t) : w[i] = IF i <= Len(q) THEN q[i] ELSE t[i - Len(q)]
    <3>1. q \in Seq(S) /\ t \in Seq(S)
      BY <1>12, <2>1
    <3> QED BY <3>1, ConcatProperties
  <2> HIDE DEF w
  <2>3. Len(w) = Len(Tail(s))
    BY <1>10, <1>12, <1>13, <2>1, <2>2
  <2>4. ASSUME NEW i \in 1 .. Len(w) PROVE w[i] = Tail(s)[i]
    <3>1. i \in 1 .. Len(s) - 1 /\ i \in 1 .. Len(q) + Len(t)
      BY <1>13, <2>2, <2>3
    <3>2. CASE i <= Len(q)
      <4>1. i \in 1 .. d - 1 /\ i + 1 \in 1 .. d
        BY <1>10, <2>1, <3>1, <3>2
      <4> QED BY <1>9, <1>13, <2>1, <2>2, <3>1, <3>2, <4>1
    <3>3. CASE i > Len(q)
      <4> DEFINE j == i - Len(q)
      <4>1. j \in 1 .. Len(s) - d /\ d + j = i + 1
        BY <1>10, <1>12, <2>1, <3>1, <3>3
      <4>2. w[i] = t[j]
        <5>1. ~(i <= Len(q))
          <6>1. Len(q) \in Nat /\ i \in Nat
            BY <1>10, <2>1, <3>1
          <6> QED BY <3>3, <6>1
        <5>2. w[i] = IF i <= Len(q) THEN q[i] ELSE t[i - Len(q)]
          BY <2>2, <3>1
        <5> QED BY <5>1, <5>2
      <4> HIDE DEF j
      <4>3. t[j] = s[d + j] /\ Tail(s)[i] = s[i + 1]
        BY <1>12, <1>13, <3>1, <4>1
      <4> QED BY <4>1, <4>2, <4>3
    <3> QED BY <2>1, <3>1, <3>2, <3>3
  <2>5. w = Tail(s)
    BY <1>13, <2>2, <2>3, <2>4, SeqEqual
  <2>6. Joins(t, rest)
    BY <1>8 DEF t
  <2>7. Joins(w, <<q>> \o rest)
    BY <1>5, <1>12, <2>1, <2>6, JoinsBefore DEF w
  <2> QED BY <1>9, <1>11, <1>15, <2>5, <2>7 DEF p, q, rest
<1> QED BY <1>14, <1>15
-----------------------------------------------------------------------------
(* The inductive invariant, and what each step is for the two streams.        *)

USE ChannelAssumption, BridgeAssumption

DataInv == /\ pc # "done" => byte \in Byte
           /\ usart \in Seq(Byte)
           /\ bank \in Seq(Byte) /\ Len(bank) < Size
           /\ released \in Seq(Seq(Filling))
           /\ accepted \in Seq(Byte)
           /\ packets \in Seq(Seq(Byte))
           /\ given \in Seq(Byte) /\ hand \in Seq(Byte)

\* What putchar took is in the packets and the bank, and nowhere else.
HostInv == Carried(accepted, released, bank)

\* What the host sent is in the main loop's hand and in the packets behind it.
LineInv == /\ Len(hand) = IF at = "send" THEN 1 ELSE 0
           /\ \E t \in Seq(Byte) : given = hand \o t /\ Joins(t, packets)

IInv == DataInv /\ HostInv /\ LineInv

HostStep == [ToHost!BNext]_(ToHost!bvars)
LineStep == [ToLine!BNext]_(ToLine!bvars)

LEMMA HostSame ==
    ASSUME HostInv, UNCHANGED <<txVars, heard>>
    PROVE  HostInv' /\ HostStep
BY DEF HostInv, HostStep, txVars, ToHost!bvars

LEMMA LineSame ==
    ASSUME LineInv, UNCHANGED <<rxVars, line>>, at = "send" <=> at' = "send"
    PROVE  LineInv' /\ LineStep
BY DEF LineInv, LineStep, rxVars, ToLine!bvars

\* What was put into a stream, at its end or not at all.
LEMMA Accepted ==
    ASSUME NEW S, NEW s \in Seq(S), NEW p \in Seq(S)
    PROVE  \/ s \o p = s
           \/ Len(s \o p) > Len(s) /\ SubSeq(s \o p, 1, Len(s)) = s
<1>1. /\ s \o p \in Seq(S) /\ Len(s \o p) = Len(s) + Len(p) /\ Len(s) \in Nat /\ Len(p) \in Nat
      /\ \A i \in 1 .. Len(s) + Len(p) : (s \o p)[i] = IF i <= Len(s) THEN s[i]
                                                                    ELSE p[i - Len(s)]
  BY ConcatProperties
<1>2. CASE Len(p) = 0
  <2>1. p = <<>>
    BY <1>2, EmptySeq
  <2> QED BY <2>1, ConcatEmptySeq
<1>3. CASE Len(p) > 0
  <2> DEFINE t == s \o p
             q == SubSeq(t, 1, Len(s))
  <2>1. \A i \in 1 .. Len(s) : t[i] \in S /\ t[i] = s[i]
    BY <1>1
  <2>2. 1 \in Int /\ Len(s) \in Int
    OBVIOUS
  <2> HIDE DEF t
  <2>3. /\ q \in Seq(S) /\ Len(q) = IF 1 <= Len(s) THEN Len(s) - 1 + 1 ELSE 0
        /\ \A i \in 1 .. Len(s) - 1 + 1 : q[i] = t[1 + i - 1]
    BY <2>1, <2>2, SubSeqProperties
  <2> HIDE DEF q
  <2>4. Len(q) = Len(s) /\ \A i \in 1 .. Len(q) : q[i] = s[i]
    BY <1>1, <2>1, <2>3
  <2>5. q = s
    BY <2>3, <2>4, SeqEqual
  <2>6. SubSeq(s \o p, 1, Len(s)) = s
    BY <2>5, Zenon DEF q, t
  <2>7. Len(s \o p) > Len(s)
    BY <1>1, <1>3
  <2> QED BY <2>6, <2>7
<1> QED BY <1>1, <1>2, <1>3

\* The first of two parts of a stream.
LEMMA FirstPart ==
    ASSUME NEW S, NEW s \in Seq(S), NEW p \in Seq(S)
    PROVE  Len(s) \in 0 .. Len(s \o p) /\ SubSeq(s \o p, 1, Len(s)) = s
<1>1. Len(s \o p) = Len(s) + Len(p) /\ Len(s) \in Nat /\ Len(p) \in Nat
  BY ConcatProperties
<1>2. CASE s \o p = s
  <2>1. SubSeq(s, 1, Len(s)) = s
    OBVIOUS
  <2> QED BY <1>1, <1>2, <2>1
<1>3. CASE SubSeq(s \o p, 1, Len(s)) = s
  BY <1>1, <1>3
<1> QED BY <1>2, <1>3, Accepted

LEMMA WriteTells ==
    ASSUME DataInv, HostInv, byte \in Byte, Write("tx"), UNCHANGED heard
    PROVE  /\ HostInv' /\ HostStep
           /\ bank' \in Seq(Byte) /\ Len(bank') < Size
           /\ released' \in Seq(Seq(Filling)) /\ accepted' \in Seq(Byte)
<1> DEFINE b == Append(bank, byte)
<1>1. b \in Seq(Byte) /\ Len(b) = Len(bank) + 1 /\ Len(bank) \in Nat
  BY AppendProperties DEF DataInv
<1>2. Carried(accepted', released, b)
  BY CarriedByte DEF HostInv, DataInv, Write
<1>3. accepted' \in Seq(Byte) /\ accepted' = accepted \o <<byte>> /\ <<byte>> \in Seq(Byte)
  BY AppendProperties, AppendIsConcat DEF DataInv, Write
<1>4. HostStep
  <2>1. \/ accepted' = accepted
        \/ Len(accepted') > Len(accepted) /\ SubSeq(accepted', 1, Len(accepted)) = accepted
    BY <1>3, Accepted DEF DataInv
  <2> QED BY <2>1 DEF HostStep, ToHost!BNext, ToHost!Accept, ToHost!bvars
<1>5. CASE Len(b) < Size /\ bank' = b /\ UNCHANGED released
  BY <1>1, <1>2, <1>3, <1>4, <1>5 DEF HostInv, DataInv
<1>6. CASE Len(b) = Size /\ bank' = <<>> /\ released' = Append(released, b)
  <2>1. b \in Seq(Filling) /\ Content(b) = b
    BY <1>1, ContentOf
  <2> HIDE DEF b
  <2>2. Carried(accepted', released', <<>>) /\ released' \in Seq(Seq(Filling))
    BY <1>1, <1>2, <1>6, <2>1, CarriedPacket, AppendProperties DEF DataInv
  <2>3. bank' \in Seq(Byte) /\ Len(bank') < Size
    BY <1>6, EmptySeq
  <2> QED BY <1>3, <1>4, <1>6, <2>2, <2>3 DEF HostInv
<1> QED BY <1>5, <1>6 DEF Write

LEMMA FlushTells ==
    ASSUME DataInv, HostInv, Flush, UNCHANGED heard
    PROVE  /\ HostInv' /\ HostStep
           /\ bank' \in Seq(Byte) /\ Len(bank') < Size
           /\ released' \in Seq(Seq(Filling)) /\ accepted' \in Seq(Byte)
<1>1. UNCHANGED accepted /\ HostStep
  BY DEF Flush, HostStep, ToHost!bvars
<1>2. CASE UNCHANGED <<released, bank>>
  BY <1>1, <1>2 DEF HostInv, DataInv
<1>3. ASSUME NEW q, q \in {Padded, bank}, released' = Append(released, q), bank' = <<>>
      PROVE  /\ HostInv' /\ bank' \in Seq(Byte) /\ Len(bank') < Size
             /\ released' \in Seq(Seq(Filling)) /\ accepted' \in Seq(Byte)
  <2>1. Size - Len(bank) \in Nat
    BY DEF DataInv
  <2>2. q \in Seq(Filling) /\ Content(q) = bank
    BY <1>3, <2>1, ContentOf DEF DataInv, Padded
  <2>3. Carried(accepted, released', <<>>) /\ released' \in Seq(Seq(Filling))
    BY <1>3, <2>2, CarriedPacket, AppendProperties DEF DataInv, HostInv
  <2>4. bank' \in Seq(Byte) /\ Len(bank') < Size
    BY <1>3, EmptySeq
  <2> QED BY <1>1, <1>3, <2>3, <2>4 DEF HostInv, DataInv
<1> QED BY <1>1, <1>2, <1>3 DEF Flush

LEMMA EmptyTxTells ==
    ASSUME DataInv, EmptyTx, UNCHANGED heard
    PROVE  /\ HostInv' /\ HostStep
           /\ bank' \in Seq(Byte) /\ Len(bank') < Size
           /\ released' \in Seq(Seq(Filling)) /\ accepted' \in Seq(Byte)
<1>1. bank' = <<>> /\ released' = <<>> /\ accepted' = <<>>
  BY DEF EmptyTx
<1>2. HostInv'
  BY <1>1, CarriedNone DEF HostInv
<1>3. 0 \in 0 .. Len(accepted) /\ accepted' = SubSeq(accepted, 1, 0)
  BY <1>1, SubSeqEmpty DEF DataInv
<1>4. HostStep
  BY <1>3 DEF HostStep, ToHost!BNext, ToHost!Cut
<1> QED BY <1>1, <1>2, <1>4, EmptySeq

LEMMA CollectTells ==
    ASSUME DataInv, HostInv, Collect
    PROVE  /\ HostInv' /\ HostStep
           /\ released' \in Seq(Seq(Filling)) /\ accepted' \in Seq(Byte)
<1> DEFINE p == Content(Head(released))
<1>1. /\ p \in Seq(Byte) /\ Len(p) \in 0 .. Len(accepted) /\ p = SubSeq(accepted, 1, Len(p))
      /\ Carried(After(accepted, Len(p)), Tail(released), bank)
  BY CarriedCollected DEF DataInv, HostInv, Collect
<1> HIDE DEF p
<1>2. accepted' = After(accepted, Len(p)) /\ accepted' \in Seq(Byte)
  BY <1>1, AfterIs DEF Collect, After, DataInv, p
<1>3. HostInv'
  BY <1>1, <1>2 DEF HostInv, Collect
<1>4. released' \in Seq(Seq(Filling))
  BY HeadTailProperties DEF Collect, DataInv
<1>5. HostStep
  <2>1. CASE p = <<>>
    <3>1. accepted' = accepted
      BY <1>2, <2>1, AfterNone, EmptySeq DEF DataInv
    <3> QED BY <2>1, <3>1 DEF HostStep, ToHost!bvars, Collect, p
  <2>2. CASE p # <<>>
    <3>1. Len(p) \in 1 .. Len(accepted) /\ heard' = p
      BY <1>1, <2>2, EmptySeq DEF Collect, p
    <3> QED BY <1>1, <1>2, <3>1 DEF HostStep, ToHost!BNext, ToHost!Deliver, After
  <2> QED BY <2>1, <2>2
<1> QED BY <1>2, <1>3, <1>4, <1>5

LEMMA EmptyRxTells ==
    ASSUME DataInv, LineInv, EmptyRx, UNCHANGED line, at = "send" <=> at' = "send"
    PROVE  /\ LineInv' /\ LineStep
           /\ packets' \in Seq(Seq(Byte)) /\ given' \in Seq(Byte) /\ hand' \in Seq(Byte)
<1>1. packets' = <<>> /\ given' = hand /\ hand' = hand
  BY DEF EmptyRx
<1> PICK t \in Seq(Byte) : given = hand \o t
  BY DEF LineInv
<1>2. given' = hand' \o <<>> /\ <<>> \in Seq(Byte)
  BY <1>1, ConcatEmptySeq, EmptySeq DEF DataInv
<1>3. LineInv'
  BY <1>1, <1>2, JoinsNone DEF LineInv
<1>4. Len(hand) \in 0 .. Len(given) /\ given' = SubSeq(given, 1, Len(hand))
  BY <1>1, FirstPart DEF DataInv
<1>5. LineStep
  BY <1>4 DEF LineStep, ToLine!BNext, ToLine!Cut
<1> QED BY <1>1, <1>2, <1>3, <1>5, EmptySeq DEF DataInv

LEMMA HostSendTells ==
    ASSUME DataInv, LineInv, NEW p \in Packet, HostSend(p)
    PROVE  /\ LineInv' /\ LineStep
           /\ packets' \in Seq(Seq(Byte)) /\ given' \in Seq(Byte) /\ hand' \in Seq(Byte)
<1> PICK t \in Seq(Byte) : given = hand \o t /\ Joins(t, packets)
  BY DEF LineInv
<1>1. p \in Seq(Byte) /\ given' = given \o p /\ UNCHANGED <<hand, line, at>>
  BY DEF HostSend
<1>2. packets' = Append(packets, p) /\ packets' \in Seq(Seq(Byte))
  BY <1>1, AppendProperties DEF HostSend, DataInv
<1>3. Joins(t \o p, packets')
  BY <1>1, <1>2, JoinsAppend DEF DataInv
<1>4. given' = hand \o (t \o p) /\ t \o p \in Seq(Byte) /\ given' \in Seq(Byte)
  <2>1. hand \in Seq(Byte) /\ given \in Seq(Byte) /\ p \in Seq(Byte)
    BY <1>1 DEF DataInv
  <2>2. (hand \o t) \o p = hand \o (t \o p)
    BY <2>1, ConcatAssociative
  <2>3. t \o p \in Seq(Byte) /\ given \o p \in Seq(Byte)
    BY <2>1, ConcatProperties
  <2> QED BY <1>1, <2>2, <2>3
<1>5. LineInv'
  BY <1>1, <1>3, <1>4 DEF LineInv
<1>6. LineStep
  <2>1. \/ given' = given
        \/ Len(given') > Len(given) /\ SubSeq(given', 1, Len(given)) = given
    BY <1>1, Accepted DEF DataInv
  <2> QED BY <1>1, <2>1 DEF LineStep, ToLine!BNext, ToLine!Accept, ToLine!bvars
<1> QED BY <1>1, <1>2, <1>4, <1>5, <1>6 DEF DataInv

LEMMA GetCharTells ==
    ASSUME DataInv, LineInv, GetChar
    PROVE  /\ LineInv' /\ LineStep
           /\ packets' \in Seq(Seq(Byte)) /\ given' \in Seq(Byte) /\ hand' \in Seq(Byte)
<1> PICK t \in Seq(Byte) : given = hand \o t /\ Joins(t, packets)
  BY DEF LineInv
<1>1. UNCHANGED line /\ at = "get" /\ Len(hand) = 0
  BY DEF GetChar, LineInv
<1>2. hand = <<>> /\ given = t
  <2>1. hand = <<>>
    BY <1>1, EmptySeq DEF DataInv
  <2> QED BY <2>1, ConcatEmptySeq
<1>3. UNCHANGED given => LineStep
  BY <1>1 DEF LineStep, ToLine!bvars
<1>4. ASSUME NEW k \in 1 .. Len(packets), IsFilled(k), hand' = <<Head(packets[k])>>,
             packets' = (IF Len(packets[k]) = 1 THEN <<>> ELSE <<Tail(packets[k])>>)
                        \o SubSeq(packets, k + 1, Len(packets)),
             at' = "send", UNCHANGED given
      PROVE  LineInv' /\ packets' \in Seq(Seq(Byte)) /\ hand' \in Seq(Byte)
  <2>1. packets[k] # <<>> /\ Void(packets, 0, k - 1) /\ packets[k] \in Seq(Byte)
    <3>1. packets[k] # <<>> /\ \A i \in 1 .. k - 1 : packets[i] = <<>>
      BY <1>4 DEF IsFilled
    <3>2. Void(packets, 0, k - 1)
      BY <3>1 DEF Void
    <3> QED BY <3>1, <3>2 DEF DataInv
  <2>2. /\ t # <<>> /\ Head(t) = Head(packets[k]) /\ Joins(Tail(t), packets')
    <3> DEFINE rest == (IF Len(packets[k]) = 1 THEN <<>> ELSE <<Tail(packets[k])>>)
                       \o After(packets, k)
    <3>1. packets \in Seq(Seq(Byte)) /\ packets' = rest
      BY <1>4 DEF DataInv, After
    <3>2. /\ t # <<>> /\ Head(t) = Head(packets[k]) /\ Joins(Tail(t), rest)
      BY <2>1, <3>1, JoinsTaken
    <3> QED BY <3>1, <3>2
  <2>3. Head(t) \in Byte /\ Tail(t) \in Seq(Byte) /\ t = <<Head(t)>> \o Tail(t)
    BY <2>2, HeadTailProperties
  <2>4. hand' = <<Head(t)>> /\ hand' \in Seq(Byte) /\ Len(hand') = 1
    BY <1>4, <2>2, <2>3
  <2>5. given' = hand' \o Tail(t)
    BY <1>2, <1>4, <2>3, <2>4
  <2>6. LineInv'
    BY <1>4, <2>2, <2>3, <2>4, <2>5 DEF LineInv
  <2>7. packets' \in Seq(Seq(Byte))
    <3>1. Tail(packets[k]) \in Seq(Byte)
      BY <2>1, HeadTailProperties
    <3>2. After(packets, k) \in Seq(Seq(Byte))
      <4>1. k \in 0 .. Len(packets)
        BY DEF DataInv
      <4> QED BY <4>1, AfterIs DEF DataInv
    <3>3. (IF Len(packets[k]) = 1 THEN <<>> ELSE <<Tail(packets[k])>>) \in Seq(Seq(Byte))
      BY <3>1, EmptySeq
    <3> QED BY <1>4, <3>2, <3>3, ConcatProperties DEF After
  <2> QED BY <2>4, <2>6, <2>7
<1>5. CASE EmptyRx /\ at' = "low"
  BY <1>1, <1>5, EmptyRxTells
<1>6. CASE UNCHANGED rxVars /\ at' = "low"
  BY <1>1, <1>6, LineSame DEF DataInv, rxVars
<1>7. UNCHANGED given => given' \in Seq(Byte)
  BY DEF DataInv
<1> QED BY <1>3, <1>4, <1>5, <1>6, <1>7 DEF GetChar

LEMMA SendByteTells ==
    ASSUME DataInv, LineInv, SendByte
    PROVE  /\ LineInv' /\ LineStep
           /\ packets' \in Seq(Seq(Byte)) /\ given' \in Seq(Byte) /\ hand' \in Seq(Byte)
<1> PICK t \in Seq(Byte) : given = hand \o t /\ Joins(t, packets)
  BY DEF LineInv
<1>1. /\ line' = hand /\ hand' = <<>> /\ given' = Tail(given) /\ at' = "low"
      /\ UNCHANGED packets /\ Len(hand) = 1
  BY DEF SendByte, LineInv
<1>2. Len(hand) \in 0 .. Len(given) /\ SubSeq(given, 1, Len(hand)) = hand
  BY FirstPart DEF DataInv
<1>3. 1 \in 1 .. Len(given) /\ SubSeq(given, 1, 1) = hand
  BY <1>1, <1>2
<1>4. given' = SubSeq(given, 2, Len(given))
  BY <1>1, <1>3, TailIsSubSeq, EmptySeq DEF DataInv
<1>5. given' = t
  <2>1. Len(hand) \in 0 .. Len(hand)
    BY <1>1
  <2>2. After(hand \o t, Len(hand)) = After(hand, Len(hand)) \o t
    BY <2>1, AfterConcat DEF DataInv
  <2>3. After(hand, 1) = <<>>
    BY <1>1, SubSeqEmpty DEF After
  <2>4. <<>> \o t = t
    BY ConcatEmptySeq
  <2>5. After(given, 1) = given'
    BY <1>4 DEF After
  <2> QED BY <1>1, <2>2, <2>3, <2>4, <2>5
<1>6. given' = hand' \o t
  BY <1>1, <1>5, ConcatEmptySeq
<1>7. LineInv'
  <2>1. Len(hand') = 0 /\ at' # "send"
    BY <1>1, EmptySeq
  <2>2. Joins(t, packets')
    BY <1>1
  <2> QED BY <1>6, <2>1, <2>2 DEF LineInv
<1>8. LineStep
  <2>1. 1 + 1 = 2
    OBVIOUS
  <2>2. line' = SubSeq(given, 1, 1) /\ given' = SubSeq(given, 1 + 1, Len(given))
    BY <1>1, <1>3, <1>4, <2>1
  <2>3. ToLine!Deliver
    BY <1>3, <2>2 DEF ToLine!Deliver
  <2> QED BY <2>3 DEF LineStep, ToLine!BNext
<1>9. hand' \in Seq(Byte)
  BY <1>1, EmptySeq
<1>10. packets' \in Seq(Seq(Byte))
  BY <1>1 DEF DataInv
<1>11. given' \in Seq(Byte)
  BY <1>5
<1> QED BY <1>7, <1>8, <1>9, <1>10, <1>11
-----------------------------------------------------------------------------
(* Every step.                                                                *)

Kept == IInv' /\ HostStep /\ LineStep

LEMMA InitHolds == Init => IInv /\ ToHost!BInit /\ ToLine!BInit
<1> SUFFICES ASSUME Init PROVE IInv /\ ToHost!BInit /\ ToLine!BInit
  OBVIOUS
<1> USE DEF Init, ChannelInit, BridgeInit
<1>1. <<>> \in Seq(Byte) /\ <<>> \in Seq(Seq(Byte)) /\ <<>> \in Seq(Seq(Filling)) /\ Len(<<>>) = 0
  OBVIOUS
<1>2. DataInv
  BY <1>1 DEF DataInv
<1>3. HostInv
  BY CarriedNone DEF HostInv
<1>4. LineInv
  <2>1. <<>> \o <<>> = <<>>
    BY <1>1, ConcatEmptySeq
  <2>2. given = hand \o <<>> /\ Joins(<<>>, packets)
    BY <2>1, JoinsNone
  <2>3. hand \in Seq(Byte) /\ Len(hand) = 0 /\ at # "send"
    BY <1>1
  <2>4. \E t \in Seq(Byte) : given = hand \o t /\ Joins(t, packets)
    <3> HIDE DEF Init
    <3>1. <<>> \in Seq(Byte)
      OBVIOUS
    <3> QED BY <2>2, <3>1, Zenon
  <2>5. Len(hand) = IF at = "send" THEN 1 ELSE 0
    BY <2>3
  <2> QED BY <2>4, <2>5 DEF LineInv
<1>5. ToHost!BInit
  BY DEF ToHost!BInit
<1>6. ToLine!BInit
  BY DEF ToLine!BInit
<1> QED BY <1>2, <1>3, <1>4, <1>5, <1>6 DEF IInv

\* The steps that touch neither stream.
LEMMA NeitherStep ==
    ASSUME IInv, UNCHANGED <<txVars, rxVars, heard, line>>, at = "send" <=> at' = "send",
           usart' \in Seq(Byte), pc' # "done" => byte' \in Byte
    PROVE  Kept
<1>1. HostInv' /\ HostStep /\ LineInv' /\ LineStep
  BY HostSame, LineSame DEF IInv
<1>2. DataInv'
  BY DEF IInv, DataInv, txVars, rxVars
<1> QED BY <1>1, <1>2 DEF Kept, IInv

LEMMA PutcharKeeps == ASSUME IInv, Putchar, UNCHANGED bridgeVars PROVE Kept
<1> USE DEF bridgeVars
<1>1. CASE TestConfigured \/ TestTimeout
  <2>1. /\ UNCHANGED <<txVars, rxVars, heard, line, at, usart, byte>>
        /\ pc # "done"
    BY <1>1 DEF TestConfigured, TestTimeout
  <2> QED BY <2>1, NeitherStep DEF IInv, DataInv
<1>2. CASE FirstTry \/ TryAgain
  <2>1. /\ UNCHANGED <<rxVars, heard, line, at, usart, byte>> /\ pc # "done"
        /\ Write("tx") \/ UNCHANGED txVars
    BY <1>2 DEF FirstTry, TryAgain, Try, txVars
  <2>2. byte \in Byte
    BY <2>1 DEF IInv, DataInv
  <2>3. CASE UNCHANGED txVars
    BY <2>1, <2>2, <2>3, NeitherStep DEF IInv, DataInv
  <2>4. CASE Write("tx")
    <3>1. /\ HostInv' /\ HostStep /\ bank' \in Seq(Byte) /\ Len(bank') < Size
          /\ released' \in Seq(Seq(Filling)) /\ accepted' \in Seq(Byte)
      BY <2>1, <2>2, <2>4, WriteTells DEF IInv
    <3>2. LineInv' /\ LineStep
      BY <2>1, LineSame DEF IInv
    <3>3. DataInv'
      BY <2>1, <2>2, <3>1 DEF IInv, DataInv, rxVars
    <3> QED BY <3>1, <3>2, <3>3 DEF Kept, IInv
  <2> QED BY <2>1, <2>3, <2>4
<1> QED BY <1>1, <1>2 DEF Putchar

LEMMA BridgeKeeps == ASSUME IInv, Bridge PROVE Kept
<1>1. CASE ReadLow \/ ReadHigh \/ SetBaudRate \/ Remember
  <2>1. /\ UNCHANGED <<txVars, rxVars, heard, line, byte, pc>>
        /\ at # "send" /\ at' # "send" /\ usart' \in {usart, <<>>}
    BY <1>1 DEF ReadLow, ReadHigh, SetBaudRate, Remember, channelVars, putVars
  <2>2. usart' \in Seq(Byte) /\ (pc' # "done" => byte' \in Byte)
    BY <2>1, EmptySeq DEF IInv, DataInv
  <2> QED BY <2>1, <2>2, NeitherStep
<1>2. CASE Tell
  <2>1. /\ UNCHANGED <<txVars, rxVars, heard, line, at, usart>> /\ byte' = Note
    BY <1>2 DEF Tell, Call
  <2> QED BY <2>1, NeitherStep DEF IInv, DataInv
<1>3. CASE Poll
  <2>1. /\ UNCHANGED <<txVars, rxVars, heard, line>> /\ at # "send" /\ at' # "send"
        /\ \/ usart # <<>> /\ usart' = Tail(usart) /\ byte' = Head(usart)
           \/ UNCHANGED <<usart, byte, pc>>
    BY <1>3 DEF Poll, Call, putVars
  <2>2. usart' \in Seq(Byte) /\ (pc' # "done" => byte' \in Byte)
    BY <2>1, HeadTailProperties DEF IInv, DataInv
  <2> QED BY <2>1, <2>2, NeitherStep
<1>4. CASE GetChar \/ SendByte
  <2>1. UNCHANGED <<txVars, heard, usart, byte, pc>>
    BY <1>4 DEF GetChar, SendByte, putVars
  <2>2. /\ LineInv' /\ LineStep
        /\ packets' \in Seq(Seq(Byte)) /\ given' \in Seq(Byte) /\ hand' \in Seq(Byte)
    BY <1>4, GetCharTells, SendByteTells DEF IInv
  <2>3. HostInv' /\ HostStep
    BY <2>1, HostSame DEF IInv
  <2>4. DataInv'
    BY <2>1, <2>2 DEF IInv, DataInv, txVars
  <2> QED BY <2>2, <2>3, <2>4 DEF Kept, IInv
<1> QED BY <1>1, <1>2, <1>3, <1>4 DEF Bridge

\* The interrupts and the host leave the main loop where it is.
LEMMA BusKeeps ==
    ASSUME IInv, UNCHANGED <<pc, byte, usart, line, at>>,
           \/ UNCHANGED <<txVars, heard>>
           \/ (Flush \/ EmptyTx) /\ UNCHANGED heard
           \/ Collect,
           UNCHANGED rxVars \/ EmptyRx
    PROVE  Kept
<1>1. /\ HostInv' /\ HostStep /\ bank' \in Seq(Byte) /\ Len(bank') < Size
      /\ released' \in Seq(Seq(Filling)) /\ accepted' \in Seq(Byte)
  <2>1. CASE UNCHANGED <<txVars, heard>>
    BY <2>1, HostSame DEF IInv, DataInv, txVars
  <2>2. CASE (Flush \/ EmptyTx) /\ UNCHANGED heard
    BY <2>2, FlushTells, EmptyTxTells DEF IInv
  <2>3. CASE Collect
    <3>1. UNCHANGED bank
      BY <2>3 DEF Collect
    <3> QED BY <2>3, <3>1, CollectTells DEF IInv, DataInv
  <2> QED BY <2>1, <2>2, <2>3
<1>2. /\ LineInv' /\ LineStep
      /\ packets' \in Seq(Seq(Byte)) /\ given' \in Seq(Byte) /\ hand' \in Seq(Byte)
  <2>1. CASE UNCHANGED rxVars
    BY <2>1, LineSame DEF IInv, DataInv, rxVars
  <2>2. CASE EmptyRx
    BY <2>2, EmptyRxTells DEF IInv
  <2> QED BY <2>1, <2>2
<1>3. DataInv'
  BY <1>1, <1>2 DEF IInv, DataInv
<1> QED BY <1>1, <1>2, <1>3 DEF Kept, IInv

LEMMA NextKeeps == ASSUME IInv, [Next]_vars PROVE Kept
<1> USE DEF bridgeVars, putVars
<1>1. CASE MainLoop
  BY <1>1, PutcharKeeps, BridgeKeeps DEF MainLoop
<1>2. CASE Frames \/ Resets \/ Collects \/ Configures \/ (Requests /\ UNCHANGED bridgeVars)
  <2>1. UNCHANGED <<pc, byte, usart, line, at>>
    BY <1>2 DEF Frames, Resets, Collects, Configures, Requests, Frame, ResetInterrupt, Collect,
                Configure, Resume, Configured, BusReset, SetConfiguration, OtherRequest,
                ClearHalt, SetHalt, HaltEnds
  <2>2. /\ \/ UNCHANGED <<txVars, heard>>
           \/ (Flush \/ EmptyTx) /\ UNCHANGED heard
           \/ Collect
        /\ UNCHANGED rxVars \/ EmptyRx
    BY <1>2 DEF Frames, Resets, Collects, Configures, Requests, Frame, CountDown, ResetInterrupt,
                Collect, Configure, Resume, Configured, BusReset, SetConfiguration,
                OtherRequest, ClearHalt, SetHalt, HaltEnds
  <2> QED BY <2>1, <2>2, BusKeeps
<1>3. ASSUME NEW c \in Byte, DoPrint(c) PROVE Kept
  <2>1. UNCHANGED <<txVars, rxVars, heard, line, at, usart>> /\ byte' = c
    BY <1>3 DEF DoPrint, Call
  <2> QED BY <2>1, NeitherStep DEF IInv, DataInv
<1>4. ASSUME NEW b \in Byte, Arrive(b) PROVE Kept
  <2>1. /\ UNCHANGED <<txVars, rxVars, heard, line, at, pc, byte>>
        /\ usart' \in {usart, Append(usart, b)}
    BY <1>4 DEF Arrive, channelVars
  <2>2. usart \in Seq(Byte)
    BY DEF IInv, DataInv
  <2>3. Append(usart, b) \in Seq(Byte)
    BY <2>2, AppendProperties
  <2>4. usart' \in Seq(Byte)
    BY <2>1, <2>2, <2>3
  <2>5. pc' # "done" => byte' \in Byte
    BY <2>1 DEF IInv, DataInv
  <2> QED BY <2>1, <2>4, <2>5, NeitherStep
<1>5. ASSUME NEW b \in Coding, SetLineCoding(b) PROVE Kept
  <2>1. UNCHANGED <<txVars, rxVars, heard, line, at, usart, pc, byte>>
    BY <1>5 DEF SetLineCoding
  <2> QED BY <2>1, NeitherStep DEF IInv, DataInv
<1>6. ASSUME NEW p \in Packet, HostSend(p) PROVE Kept
  <2>1. UNCHANGED <<txVars, heard, usart, pc, byte>>
    BY <1>6 DEF HostSend
  <2>2. /\ LineInv' /\ LineStep
        /\ packets' \in Seq(Seq(Byte)) /\ given' \in Seq(Byte) /\ hand' \in Seq(Byte)
    BY <1>6, HostSendTells DEF IInv
  <2>3. HostInv' /\ HostStep
    BY <2>1, HostSame DEF IInv
  <2>4. DataInv'
    BY <2>1, <2>2 DEF IInv, DataInv, txVars
  <2> QED BY <2>2, <2>3, <2>4 DEF Kept, IInv
<1>7. CASE UNCHANGED vars
  BY <1>7, NeitherStep DEF vars, channelVars, IInv, DataInv
<1> QED BY <1>1, <1>2, <1>3, <1>4, <1>5, <1>6, <1>7 DEF Next

\* The safety half of ImplementsStreams: in either direction bytes come out in the
\* order they went in, none twice, and only the reset of a bus or an endpoint, from some
\* place on, throws any away; for both programs, and wherever the interrupts fall between
\* the tries of putchar (usb_debug_channel.cpp, usb_serial.c).
THEOREM BytesInOrder == Spec => ToHost!BInOrder /\ ToLine!BInOrder
<1>1. IInv /\ [Next]_vars => IInv' /\ [ToHost!BNext]_(ToHost!bvars) /\ [ToLine!BNext]_(ToLine!bvars)
  BY NextKeeps DEF Kept, HostStep, LineStep
<1> QED BY <1>1, InitHolds, PTL DEF Spec, ToHost!BInOrder, ToLine!BInOrder
=============================================================================
