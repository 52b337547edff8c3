---------------------------- MODULE ReaderProofs ----------------------------
(***************************************************************************)
(* Proofs about the reader task.  Its order of delivery rests on one fact  *)
(* about the stream: the pieces still to be read, those in the buffer and  *)
(* the frames already passed on are consecutive stretches of it, so each   *)
(* channel, and the history of what was taken from it, only ever grows at  *)
(* its end by a later frame.                                               *)
(***************************************************************************)
EXTENDS ReadLoop, SequenceTheorems, WellFoundedInduction, TLAPS

\* The time a leaf may take, in seconds; most take a fraction of one.
USE SMTT(30), ZenonT(30)

\* The pieces of the stream, and the order in which they are sent.
Piece == [n: Nat \ {0}, part: 0..3]
Earlier(p, q) == p.n < q.n \/ (p.n = q.n /\ p.part < q.part)
InOrder(b) == \A i, j \in 1..Len(b) : i < j => Earlier(b[i], b[j])

LEMMA SetInduction ==
  ASSUME NEW S, S \subseteq Nat, 0 \in S, \A n \in S : n + 1 \in S
  PROVE  S = Nat
<1> DEFINE T == Nat \ S
<1>1. SUFFICES ASSUME T # {} PROVE FALSE
  BY ZenonT(30)
<1>2. PICK x \in T : \A y \in T : ~(<<y, x>> \in OpToRel(<, Nat))
  <2>1. T \subseteq Nat
    OBVIOUS
  <2> HIDE DEF T
  <2>2. QED BY ZenonT(30), <1>1, <2>1, WFMin, NatLessThanWellFounded
<1>3. x \in Nat /\ x # 0
  OBVIOUS
<1>4. x - 1 \in Nat
  BY <1>3
<1>5. <<x - 1, x>> \in OpToRel(<, Nat)
  BY <1>3, <1>4 DEF OpToRel
<1>6. x - 1 \in S
  BY ZenonT(30), <1>2, <1>4, <1>5
<1>7. QED BY <1>3, <1>6

LEMMA LeastOf ==
  ASSUME NEW S, S \subseteq Nat, S # {}
  PROVE  \E k \in S : \A j \in S : k <= j
<1>1. PICK k \in S : \A j \in S : ~(<<j, k>> \in OpToRel(<, Nat))
  BY ZenonT(30), WFMin, NatLessThanWellFounded
<1>2. \A j \in S : ~(j < k)
  BY ZenonT(30), <1>1 DEF OpToRel
<1>3. QED BY <1>2

Join(a, b) == a \o b

\* f holds the concatenations of the first i sequences of seqs, up to n of them.
IsFlat(seqs, f, n) ==
  f = [i \in 1..n |-> IF i = 1 THEN seqs[i] ELSE Join(f[i - 1], seqs[i])]

LEMMA FlatExists ==
  ASSUME NEW seqs, NEW n \in Nat
  PROVE  \E f : IsFlat(seqs, f, n)
<1> DEFINE S == {k \in Nat : \E f : IsFlat(seqs, f, k)}
<1>1. 0 \in S
  <2>1. IsFlat(seqs, [i \in 1..0 |-> seqs[i]], 0)
    BY DEF IsFlat
  <2>2. QED BY <2>1
<1>2. ASSUME NEW k \in S PROVE k + 1 \in S
  <2>1. PICK f : IsFlat(seqs, f, k)
    OBVIOUS
  <2> DEFINE last == IF k = 0 THEN seqs[1] ELSE Join(f[k], seqs[k + 1])
             g == [i \in 1..(k + 1) |-> IF i <= k THEN f[i] ELSE last]
  <2>2. \A i \in 1..(k + 1) : g[i] = IF i = 1 THEN seqs[i] ELSE Join(g[i - 1], seqs[i])
    <3> TAKE i \in 1..(k + 1)
    <3>1. \A j \in 1..k : f[j] = IF j = 1 THEN seqs[j] ELSE Join(f[j - 1], seqs[j])
      BY <2>1, ZenonT(40) DEF IsFlat
    <3>2. CASE i = 1
      BY <3>1, <3>2
    <3>3. CASE i # 1
      <4>1. i - 1 \in 1..k /\ g[i - 1] = f[i - 1]
        BY <3>3
      <4>2. g[i] = Join(f[i - 1], seqs[i])
        <5>1. CASE i <= k
          BY <3>1, <3>3, <5>1
        <5>2. CASE i = k + 1
          BY <3>3, <5>2
        <5>3. QED BY <5>1, <5>2
      <4>3. QED BY <3>3, <4>1, <4>2
    <3>4. QED BY <3>2, <3>3
  <2>3. IsFlat(seqs, g, k + 1)
    BY <2>2 DEF IsFlat
  <2>4. QED BY <2>3
<1>3. S \subseteq Nat
  OBVIOUS
<1> HIDE DEF S
<1>4. S = Nat
  BY ZenonT(30), <1>1, <1>2, <1>3, SetInduction
<1>5. QED BY <1>4 DEF S

LEMMA JoinAt ==
  ASSUME NEW a \in Seq(Piece), NEW b \in Seq(Piece), NEW c, c = a \o b,
         NEW i \in 1..Len(c), i > Len(a)
  PROVE  i - Len(a) \in 1..Len(b) /\ c[i] = b[i - Len(a)]
OBVIOUS

LEMMA JoinBelow ==
  ASSUME NEW a \in Seq(Piece), NEW b \in Seq(Piece), NEW c, c = a \o b, NEW k \in Nat,
         \A i \in 1..Len(a) : a[i].n <= k, \A i \in 1..Len(b) : b[i].n = k + 1
  PROVE  \A i \in 1..Len(c) : c[i].n <= k + 1
<1> TAKE i \in 1..Len(c)
<1>1. CASE i <= Len(a)
  <2>1. c[i] = a[i] /\ a[i].n <= k /\ a[i] \in Piece
    BY <1>1
  <2>2. QED BY <2>1 DEF Piece
<1>2. CASE i > Len(a)
  <2>1. i - Len(a) \in 1..Len(b) /\ c[i] = b[i - Len(a)]
    BY <1>2, JoinAt
  <2>2. c[i].n = k + 1
    BY <2>1
  <2>3. QED BY <2>2
<1>3. QED BY <1>1, <1>2

\* Appending later pieces keeps the order.
LEMMA JoinInOrder ==
  ASSUME NEW a \in Seq(Piece), NEW b \in Seq(Piece), InOrder(a), InOrder(b),
         \A i \in 1..Len(a), j \in 1..Len(b) : Earlier(a[i], b[j])
  PROVE  a \o b \in Seq(Piece) /\ InOrder(a \o b)
<1>1. a \o b \in Seq(Piece) /\ Len(a \o b) = Len(a) + Len(b)
      /\ (\A i \in 1..Len(a) : (a \o b)[i] = a[i])
      /\ (\A i \in 1..Len(b) : (a \o b)[Len(a) + i] = b[i])
  OBVIOUS
<1>2. ASSUME NEW i \in 1..(Len(a) + Len(b)), i > Len(a)
      PROVE  i - Len(a) \in 1..Len(b) /\ (a \o b)[i] = b[i - Len(a)]
  BY <1>2
<1>3. ASSUME NEW i \in 1..(Len(a) + Len(b)), NEW j \in 1..(Len(a) + Len(b)), i < j
      PROVE  Earlier((a \o b)[i], (a \o b)[j])
  <2>1. CASE j <= Len(a)
    <3>1. i \in 1..Len(a) /\ j \in 1..Len(a)
      BY <1>3, <2>1
    <3>2. QED BY <1>1, <1>3, <3>1 DEF InOrder
  <2>2. CASE i <= Len(a) /\ j > Len(a)
    <3>1. i \in 1..Len(a) /\ j - Len(a) \in 1..Len(b) /\ (a \o b)[j] = b[j - Len(a)]
      BY <1>2, <2>2
    <3>2. QED BY <1>1, <3>1
  <2>3. CASE i > Len(a)
    <3>1. i - Len(a) \in 1..Len(b) /\ (a \o b)[i] = b[i - Len(a)]
      BY <1>2, <2>3
    <3>2. j - Len(a) \in 1..Len(b) /\ (a \o b)[j] = b[j - Len(a)]
      BY <1>2, <1>3, <2>3
    <3>3. i - Len(a) < j - Len(a)
      BY <1>3
    <3>4. QED BY <3>1, <3>2, <3>3 DEF InOrder
  <2>4. QED BY <2>1, <2>2, <2>3
<1>4. QED BY <1>1, <1>3 DEF InOrder

LEMMA PiecesInOrder ==
  ASSUME NEW k \in Nat \ {0}, NEW kind
  PROVE  LET q == Pieces(k, kind)
         IN  q \in Seq(Piece) /\ InOrder(q) /\ \A i \in 1..Len(q) : q[i].n = k
<1> DEFINE piece(p) == [n |-> k, part |-> p]
<1>1. \A p \in 0..3 : piece(p) \in Piece /\ piece(p).n = k /\ piece(p).part = p
  BY DEF Piece
<1>2. \A p, q \in 0..3 : p < q => Earlier(piece(p), piece(q))
  BY <1>1 DEF Earlier
<1>3. CASE kind \in {"noise", "junk"}
  <2>1. Pieces(k, kind) = <<piece(0)>>
    BY <1>3 DEF Pieces
  <2> HIDE DEF piece
  <2>2. 0 \in 0..3 /\ Len(<<piece(0)>>) = 1 /\ <<piece(0)>>[1] = piece(0)
    OBVIOUS
  <2>3. <<piece(0)>> \in Seq(Piece)
    BY <1>1
  <2>4. InOrder(<<piece(0)>>)
    BY <2>2 DEF InOrder
  <2>5. QED BY <1>1, <2>1, <2>2, <2>3, <2>4
<1>4. CASE kind \notin {"noise", "junk"}
  <2>1. Pieces(k, kind) = [p \in 1..3 |-> piece(p)]
    BY <1>4 DEF Pieces
  <2> HIDE DEF piece
  <2> DEFINE q == [p \in 1..3 |-> piece(p)]
  <2>2. q \in [1..3 -> Piece]
    <3>1. \A p \in 1..3 : piece(p) \in Piece
      BY <1>1
    <3>2. QED BY <3>1, ZenonT(30)
  <2>3. \A p \in 1..3 : q[p] = piece(p)
    OBVIOUS
  <2>4. Pieces(k, kind) = q
    BY <2>1
  <2> HIDE DEF q
  <2>5. q \in Seq(Piece) /\ Len(q) = 3
    <3>1. q \in Seq(Piece)
      BY <2>2, SeqDef, ZenonT(30)
    <3>2. DOMAIN q = 1..3
      BY <2>2
    <3>3. QED BY <3>1, <3>2, LenProperties
  <2>6. InOrder(q)
    BY <1>2, <2>3, <2>5 DEF InOrder
  <2>7. QED BY <1>1, <2>3, <2>4, <2>5, <2>6
<1>5. QED BY <1>3, <1>4

\* The stream is sent in order: frame by frame, piece by piece.
LEMMA BytesInOrder ==
  ASSUME NEW kinds \in Seq(Kinds)
  PROVE  Bytes(kinds) \in Seq(Piece) /\ InOrder(Bytes(kinds))
<1> DEFINE seqs == [n \in DOMAIN kinds |-> Pieces(n, kinds[n])]
           flat == CHOOSE f : IsFlat(seqs, f, Len(kinds))
<1>1. Len(kinds) \in Nat /\ DOMAIN kinds = 1..Len(kinds)
  OBVIOUS
<1>2. ASSUME NEW n \in 1..Len(kinds)
      PROVE  /\ seqs[n] \in Seq(Piece) /\ InOrder(seqs[n])
             /\ \A i \in 1..Len(seqs[n]) : seqs[n][i].n = n
  <2>1. seqs[n] = Pieces(n, kinds[n]) /\ n \in Nat \ {0}
    BY <1>1
  <2>2. QED BY <2>1, PiecesInOrder
<1>3. seqs \in Seq(Seq(Piece)) /\ Len(seqs) = Len(kinds)
  BY <1>1, <1>2
<1>4. CASE Len(kinds) = 0
  BY <1>3, <1>4 DEF Bytes, FlattenSeq, InOrder
<1>5. CASE Len(kinds) # 0
  <2>1. Bytes(kinds) = flat[Len(kinds)]
    BY ZenonT(30), <1>3, <1>5 DEF Bytes, FlattenSeq, IsFlat, Join
  <2> HIDE DEF seqs
  <2>2. IsFlat(seqs, flat, Len(kinds))
    <3>1. \E f : IsFlat(seqs, f, Len(kinds))
      BY ZenonT(30), <1>1, <1>3, FlatExists
    <3>2. QED BY <3>1
  <2> HIDE DEF flat
  <2> DEFINE Fine(k) == /\ flat[k] \in Seq(Piece) /\ InOrder(flat[k])
                        /\ \A i \in 1..Len(flat[k]) : flat[k][i].n <= k
             S == {k \in Nat : k \in 1..Len(kinds) => Fine(k)}
  <2>3. 0 \in S
    OBVIOUS
  <2>4. ASSUME NEW k \in S PROVE k + 1 \in S
    <3>1. SUFFICES ASSUME k + 1 \in 1..Len(kinds) PROVE Fine(k + 1)
      OBVIOUS
    <3>2. seqs[k + 1] \in Seq(Piece) /\ InOrder(seqs[k + 1])
          /\ \A i \in 1..Len(seqs[k + 1]) : seqs[k + 1][i].n = k + 1
      BY <1>2, <3>1
    <3>3. CASE k = 0
      <4>1. flat[k + 1] = seqs[k + 1]
        BY <1>3, <2>2, <3>1, <3>3 DEF IsFlat
      <4>2. QED BY <3>2, <4>1
    <3>4. CASE k # 0
      <4>1. Fine(k) /\ k \in Nat
        BY <1>1, <3>1, <3>4
      <4>2. flat[k + 1] = flat[k] \o seqs[k + 1]
        <5> HIDE DEF S, Fine
        <5>1. k + 1 \in 1..Len(seqs) /\ k + 1 # 1 /\ (k + 1) - 1 = k
          BY <1>3, <3>1, <3>4, <4>1
        <5>2. \A j \in 1..Len(kinds) :
                flat[j] = IF j = 1 THEN seqs[j] ELSE Join(flat[j - 1], seqs[j])
          BY <2>2, ZenonT(40) DEF IsFlat
        <5>3. QED BY ZenonT(30), <1>3, <5>1, <5>2 DEF Join
      <4>3. \A i \in 1..Len(flat[k]), j \in 1..Len(seqs[k + 1]) :
              Earlier(flat[k][i], seqs[k + 1][j])
        <5> TAKE i \in 1..Len(flat[k]), j \in 1..Len(seqs[k + 1])
        <5>1. flat[k][i].n <= k /\ flat[k][i] \in Piece /\ seqs[k + 1][j].n = k + 1
          BY <3>2, <4>1
        <5>2. QED BY <4>1, <5>1 DEF Earlier, Piece
      <4>4. flat[k + 1] \in Seq(Piece) /\ InOrder(flat[k + 1])
        BY <3>2, <4>1, <4>2, <4>3, JoinInOrder
      <4>5. \A i \in 1..Len(flat[k + 1]) : flat[k + 1][i].n <= k + 1
        BY ZenonT(30), <3>2, <4>1, <4>2, JoinBelow
      <4>6. QED BY <4>4, <4>5
    <3>5. QED BY <3>3, <3>4
  <2>5. S \subseteq Nat
    OBVIOUS
  <2> HIDE DEF S
  <2>6. S = Nat
    BY ZenonT(30), <2>3, <2>4, <2>5, SetInduction
  <2>7. Fine(Len(kinds))
    BY <1>1, <1>5, <2>6 DEF S
  <2>8. QED BY <2>1, <2>7
<1>6. QED BY <1>4, <1>5

-----------------------------------------------------------------------------
(***************************************************************************)
(* Queues and buffers as they are filled and emptied.                      *)
(***************************************************************************)
Items(q) == {q[i] : i \in 1..Len(q)}
Sorted(q) == \A i, j \in 1..Len(q) : i < j => q[i] < q[j]
Number == Nat \ {0}

LEMMA ItemsEmpty == Items(<<>>) = {} /\ Sorted(<<>>) /\ InOrder(<<>>)
BY DEF Items, Sorted, InOrder

LEMMA ItemsTyped ==
  ASSUME NEW S, NEW q \in Seq(S), NEW x \in Items(q)
  PROVE  x \in S
BY DEF Items

LEMMA AppendKeeps ==
  ASSUME NEW q \in Seq(Number), NEW x \in Number
  PROVE  /\ Append(q, x) \in Seq(Number)
         /\ Items(Append(q, x)) = Items(q) \cup {x}
         /\ (Sorted(q) /\ \A y \in Items(q) : y < x) => Sorted(Append(q, x))
<1>1. /\ Append(q, x) \in Seq(Number) /\ Len(Append(q, x)) = Len(q) + 1
      /\ Append(q, x)[Len(q) + 1] = x
      /\ \A i \in 1..Len(q) : Append(q, x)[i] = q[i]
  OBVIOUS
<1>2. 1..(Len(q) + 1) = 1..Len(q) \cup {Len(q) + 1}
  OBVIOUS
<1>3. Items(Append(q, x)) = Items(q) \cup {x}
  BY <1>1, <1>2 DEF Items
<1>4. ASSUME Sorted(q), \A y \in Items(q) : y < x PROVE Sorted(Append(q, x))
  <2> SUFFICES ASSUME NEW i \in 1..(Len(q) + 1), NEW j \in 1..(Len(q) + 1), i < j
               PROVE  Append(q, x)[i] < Append(q, x)[j]
    BY <1>1 DEF Sorted
  <2>1. i \in 1..Len(q)
    OBVIOUS
  <2>2. q[i] \in Items(q)
    BY <2>1 DEF Items
  <2>3. CASE j = Len(q) + 1
    BY <1>1, <1>4, <2>1, <2>2, <2>3
  <2>4. CASE j \in 1..Len(q)
    BY <1>1, <1>4, <2>1, <2>4 DEF Sorted
  <2>5. QED BY <2>3, <2>4
<1>5. QED BY <1>1, <1>3, <1>4

LEMMA TailKeeps ==
  ASSUME NEW q \in Seq(Number), q # <<>>
  PROVE  /\ Tail(q) \in Seq(Number) /\ Head(q) \in Number
         /\ Items(q) = Items(Tail(q)) \cup {Head(q)}
         /\ Sorted(q) => Sorted(Tail(q)) /\ \A y \in Items(Tail(q)) : Head(q) < y
<1>1. /\ Tail(q) \in Seq(Number) /\ Len(Tail(q)) = Len(q) - 1 /\ Len(q) \in Number
      /\ Head(q) = q[1] /\ Head(q) \in Number
      /\ \A i \in 1..(Len(q) - 1) : Tail(q)[i] = q[i + 1]
  BY DEF Number
<1>2. Items(q) \subseteq Items(Tail(q)) \cup {Head(q)}
  <2> SUFFICES ASSUME NEW i \in 1..Len(q), i # 1 PROVE q[i] \in Items(Tail(q))
    BY <1>1 DEF Items
  <2>1. i - 1 \in 1..Len(Tail(q)) /\ (i - 1) + 1 = i
    BY <1>1 DEF Number
  <2>2. QED BY <1>1, <2>1 DEF Items
<1>3. Items(Tail(q)) \cup {Head(q)} \subseteq Items(q)
  <2>1. ASSUME NEW i \in 1..(Len(q) - 1) PROVE i + 1 \in 1..Len(q)
    BY <1>1 DEF Number
  <2>2. 1 \in 1..Len(q)
    BY <1>1 DEF Number
  <2>3. QED BY <1>1, <2>1, <2>2 DEF Items
<1>4. ASSUME Sorted(q) PROVE Sorted(Tail(q)) /\ \A y \in Items(Tail(q)) : Head(q) < y
  <2>1. \A i, j \in 1..(Len(q) - 1) : i < j => q[i + 1] < q[j + 1]
    BY <1>1, <1>4 DEF Sorted, Number
  <2>2. \A j \in 1..(Len(q) - 1) : q[1] < q[j + 1]
    BY <1>1, <1>4 DEF Sorted, Number
  <2>3. QED BY <1>1, <2>1, <2>2 DEF Sorted, Items
<1>5. QED BY <1>1, <1>2, <1>3, <1>4

LEMMA SuffixKeeps ==
  ASSUME NEW b \in Seq(Piece), InOrder(b), NEW k \in 1..(Len(b) + 1)
  PROVE  LET r == SubSeq(b, k, Len(b))
         IN  /\ r \in Seq(Piece) /\ InOrder(r) /\ Items(r) \subseteq Items(b)
             /\ Items(r) = {b[i] : i \in k..Len(b)}
<1> DEFINE r == SubSeq(b, k, Len(b))
<1>1. Len(b) \in Nat /\ r \in Seq(Piece) /\ Len(r) = Len(b) - k + 1
      /\ \A i \in 1..Len(r) : r[i] = b[k + i - 1]
  OBVIOUS
<1> HIDE DEF r
<1>2. ASSUME NEW i \in 1..Len(r) PROVE k + i - 1 \in k..Len(b)
  BY <1>1
<1>3. k..Len(b) \subseteq 1..Len(b)
  OBVIOUS
<1>4. InOrder(r)
  <2> SUFFICES ASSUME NEW i \in 1..Len(r), NEW j \in 1..Len(r), i < j
               PROVE  Earlier(r[i], r[j])
    BY DEF InOrder
  <2>1. k + i - 1 \in 1..Len(b) /\ k + j - 1 \in 1..Len(b) /\ k + i - 1 < k + j - 1
    BY <1>1, <1>2, <1>3
  <2>2. QED BY ZenonT(30), <1>1, <2>1 DEF InOrder
<1>5. Items(r) = {b[i] : i \in k..Len(b)}
  <2>1. ASSUME NEW i \in k..Len(b) PROVE b[i] \in Items(r)
    <3>1. i - k + 1 \in 1..Len(r) /\ k + (i - k + 1) - 1 = i
      BY <1>1
    <3>2. QED BY ZenonT(30), <1>1, <3>1 DEF Items
  <2>2. ASSUME NEW i \in 1..Len(r) PROVE r[i] \in {b[j] : j \in k..Len(b)}
    BY ZenonT(30), <1>1, <1>2
  <2>3. QED BY ZenonT(30), <2>1, <2>2 DEF Items
<1>6. Items(r) \subseteq Items(b)
  BY <1>3, <1>5 DEF Items
<1>7. QED BY <1>1, <1>4, <1>5, <1>6 DEF r

LEMMA PrefixKeeps ==
  ASSUME NEW b \in Seq(Piece), InOrder(b), NEW k \in 1..Len(b)
  PROVE  LET r == SubSeq(b, 1, k)
         IN  /\ r \in Seq(Piece) /\ InOrder(r) /\ Items(r) \subseteq Items(b)
             /\ Items(r) = {b[i] : i \in 1..k}
<1> DEFINE r == SubSeq(b, 1, k)
<1>1. Len(b) \in Nat /\ r \in Seq(Piece) /\ Len(r) = k
      /\ \A i \in 1..k : r[i] = b[i]
  OBVIOUS
<1> HIDE DEF r
<1>2. 1..k \subseteq 1..Len(b)
  OBVIOUS
<1>3. InOrder(r)
  BY <1>1, <1>2 DEF InOrder
<1>4. Items(r) = {b[i] : i \in 1..k} /\ Items(r) \subseteq Items(b)
  BY <1>1, <1>2 DEF Items
<1>5. QED BY <1>1, <1>3, <1>4 DEF r

\* All of a comes before all of b.
Precedes(a, b) == \A p \in Items(a), q \in Items(b) : Earlier(p, q)

LEMMA JoinItems ==
  ASSUME NEW a \in Seq(Piece), NEW b \in Seq(Piece), InOrder(a), InOrder(b), Precedes(a, b)
  PROVE  /\ a \o b \in Seq(Piece) /\ InOrder(a \o b)
         /\ Items(a \o b) \subseteq Items(a) \cup Items(b)
<1>1. \A i \in 1..Len(a), j \in 1..Len(b) : Earlier(a[i], b[j])
  BY DEF Precedes, Items
<1>2. a \o b \in Seq(Piece) /\ InOrder(a \o b)
  BY <1>1, JoinInOrder
<1>3. ASSUME NEW i \in 1..Len(a \o b) PROVE (a \o b)[i] \in Items(a) \cup Items(b)
  <2>1. CASE i <= Len(a)
    <3>1. i \in 1..Len(a) /\ (a \o b)[i] = a[i]
      BY <2>1
    <3>2. QED BY <3>1 DEF Items
  <2>2. CASE i > Len(a)
    <3>1. i - Len(a) \in 1..Len(b) /\ (a \o b)[i] = b[i - Len(a)]
      BY <2>2, JoinAt
    <3>2. QED BY <3>1 DEF Items
  <2>3. QED BY <2>1, <2>2
<1>4. QED BY <1>2, <1>3 DEF Items

\* A frame has three pieces: what comes after the third is of a later frame.
LEMMA ThreePieces ==
  ASSUME NEW b \in Seq(Piece), InOrder(b), Len(b) >= 3, b[1].part = 1,
         NEW q \in Piece, Earlier(b[3], q)
  PROVE  b[1].n < q.n
<1>1. b[1] \in Piece /\ b[2] \in Piece /\ b[3] \in Piece
  OBVIOUS
<1>2. Earlier(b[1], b[2]) /\ Earlier(b[2], b[3])
  BY DEF InOrder
<1>3. QED BY <1>1, <1>2 DEF Earlier, Piece

-----------------------------------------------------------------------------
(***************************************************************************)
(* The invariant.                                                          *)
(***************************************************************************)

\* Two frames that go the same way.
SameWay(x, y) == HasApp => (frames[x] = "app" <=> frames[y] = "app")

Waiting == Items(admin) \cup Items(app) \cup Items(pending_app)
Given == Items(handled) \cup ({busy} \ {0})
Ahead == Items(buf) \cup Items(wire)

Shaped ==
  /\ frames \in Seq(Kinds)
  /\ buf \in Seq(Piece) /\ wire \in Seq(Piece)
  /\ admin \in Seq(Number) /\ app \in Seq(Number) /\ pending_app \in Seq(Number)
  /\ handled \in Seq(Number) /\ busy \in Nat

\* What is to be read, what was read and what was passed on is in the order of the
\* stream: the channels hold what is behind the buffer, each in order, and
\* everything given to the session is before what waits for it in its channel.
Flow ==
  /\ InOrder(buf) /\ InOrder(wire) /\ Precedes(buf, wire)
  /\ \A x \in Waiting \cup Given, p \in Ahead : x < p.n
  /\ Sorted(admin) /\ Sorted(app) /\ Sorted(pending_app)
  /\ \A x \in Items(app), y \in Items(pending_app) : x < y
  /\ \A x \in Items(admin) : HasApp => frames[x] # "app"
  /\ \A x \in Items(app) \cup Items(pending_app) : HasApp /\ frames[x] = "app"

Sequence ==
  /\ \A x \in Given, y \in Waiting : SameWay(x, y) => x < y
  /\ \A x \in Items(handled) : (busy # 0 /\ SameWay(x, busy)) => x < busy
  /\ \A i, j \in 1..Len(handled) :
       (i < j /\ SameWay(handled[i], handled[j])) => handled[i] < handled[j]

StreamInv == reader \in Readers /\ Shaped /\ Flow /\ Sequence

LEMMA InitReader == ReadLoopInit => StreamInv
<1> SUFFICES ASSUME ReadLoopInit PROVE StreamInv
  OBVIOUS
<1>1. frames \in Seq(Kinds) /\ reader \in Readers
  BY ReadLoopAssumption DEF ReadLoopAssumption, ReadLoopInit
<1>2. wire \in Seq(Piece) /\ InOrder(wire)
  BY <1>1, BytesInOrder DEF ReadLoopInit
<1>3. buf = <<>> /\ admin = <<>> /\ app = <<>> /\ pending_app = <<>> /\ handled = <<>>
      /\ busy = 0
  BY DEF ReadLoopInit
<1>4. Given = {} /\ Waiting = {}
  BY <1>3, ItemsEmpty DEF Given, Waiting
<1>5. Shaped
  BY <1>1, <1>2, <1>3 DEF Shaped
<1>6. Flow
  BY <1>2, <1>3, <1>4, ItemsEmpty DEF Flow, Precedes
<1>7. Sequence
  BY <1>3, <1>4, ItemsEmpty DEF Sequence
<1>8. QED BY <1>1, <1>5, <1>6, <1>7 DEF StreamInv

\* What a step of the reader leaves as it is.
LEMMA SameRoute ==
  ASSUME UNCHANGED <<reader, frames>>
  PROVE  HasApp' = HasApp /\ \A x, y : SameWay(x, y)' = SameWay(x, y)
BY DEF HasApp, AppCap, SameWay

\* A frame leaves the buffer for its channel.
LEMMA ForwardKeeps ==
  ASSUME StreamInv, NEW n \in Number, NEW rest \in Seq(Piece), Forward(n, rest),
         InOrder(rest), Items(rest) \subseteq Items(buf),
         \A x \in Waiting \cup Given : x < n,
         \A p \in Items(rest) \cup Items(wire) : n < p.n,
         UNCHANGED <<app, wire, reader, frames, handled, busy>>
  PROVE  StreamInv'
<1>1. HasApp' = HasApp /\ \A x, y : SameWay(x, y)' = SameWay(x, y)
  BY SameRoute
<1>2. /\ buf' = rest
      /\ \/ /\ pending_app' = Append(pending_app, n) /\ admin' = admin
            /\ HasApp /\ frames[n] = "app"
         \/ /\ admin' = Append(admin, n) /\ pending_app' = pending_app
            /\ HasApp => frames[n] # "app"
  BY DEF Forward
<1>0. /\ Append(admin, n) \in Seq(Number) /\ Items(Append(admin, n)) = Items(admin) \cup {n}
      /\ Append(pending_app, n) \in Seq(Number)
      /\ Items(Append(pending_app, n)) = Items(pending_app) \cup {n}
  BY AppendKeeps DEF StreamInv, Shaped
<1>3. /\ Waiting' = Waiting \cup {n} /\ Given' = Given
      /\ Ahead' \subseteq Ahead /\ Ahead' = Items(rest) \cup Items(wire)
  <2>1. Waiting' = Waiting \cup {n}
    BY ZenonT(30), <1>0, <1>2 DEF Waiting
  <2>2. Given' = Given /\ Ahead' = Items(rest) \cup Items(wire)
    BY <1>2 DEF Given, Ahead
  <2>3. QED BY <2>1, <2>2 DEF Ahead
<1>4. Shaped'
  BY ZenonT(30), <1>0, <1>2 DEF StreamInv, Shaped
<1>5. Items(admin) \subseteq Waiting /\ Items(app) \subseteq Waiting
      /\ Items(pending_app) \subseteq Waiting
  BY DEF Waiting
<1>6. Flow'
  <2>1. InOrder(buf)' /\ InOrder(wire)' /\ Precedes(buf, wire)'
    BY <1>2 DEF StreamInv, Flow, Precedes
  <2>2. \A x \in Waiting' \cup Given', p \in Ahead' : x < p.n
    BY ZenonT(30), <1>3 DEF StreamInv, Flow
  <2>3. CASE pending_app' = Append(pending_app, n) /\ admin' = admin /\ HasApp
             /\ frames[n] = "app"
    <3>1. Sorted(pending_app') /\ Items(pending_app') = Items(pending_app) \cup {n}
      BY ZenonT(30), <1>0, <1>5, <2>3, AppendKeeps DEF StreamInv, Shaped, Flow
    <3>2. QED BY ZenonT(30), <1>1, <1>5, <2>1, <2>2, <2>3, <3>1 DEF StreamInv, Flow
  <2>4. CASE admin' = Append(admin, n) /\ pending_app' = pending_app
             /\ (HasApp => frames[n] # "app")
    <3>1. Sorted(admin') /\ Items(admin') = Items(admin) \cup {n}
      BY ZenonT(30), <1>0, <1>5, <2>4, AppendKeeps DEF StreamInv, Shaped, Flow
    <3>2. QED BY ZenonT(30), <1>1, <1>5, <2>1, <2>2, <2>4, <3>1 DEF StreamInv, Flow
  <2>5. QED BY <1>2, <2>3, <2>4
<1>7. Sequence'
  BY ZenonT(30), <1>1, <1>3 DEF StreamInv, Sequence, Given
<1>8. QED BY <1>4, <1>6, <1>7 DEF StreamInv

LEMMA HeadFacts ==
  ASSUME StreamInv, buf # <<>>
  PROVE  /\ Len(buf) \in Nat /\ Len(buf) >= 1 /\ Head(buf) = buf[1]
         /\ buf[1] \in Items(buf) /\ buf[1] \in Piece /\ buf[1].n \in Number
         /\ \A x \in Waiting \cup Given : x < buf[1].n
<1>1. Len(buf) \in Nat /\ Len(buf) >= 1 /\ Head(buf) = buf[1] /\ buf[1] \in Piece
  BY DEF StreamInv, Shaped
<1>2. buf[1] \in Items(buf)
  BY <1>1 DEF Items
<1>3. QED BY <1>1, <1>2 DEF StreamInv, Flow, Ahead, Piece, Number

\* A whole frame is taken from the front of the buffer; nothing of it remains.
LEMMA FrameLeaves ==
  ASSUME StreamInv, Len(buf) >= 3, buf[1].part = 1
  PROVE  /\ \A i \in 4..Len(buf) : buf[1].n < buf[i].n
         /\ \A p \in Items(wire) : buf[1].n < p.n
<1>1. buf \in Seq(Piece) /\ InOrder(buf) /\ Len(buf) \in Nat /\ buf[3] \in Items(buf)
  BY DEF StreamInv, Shaped, Flow, Items
<1>2. ASSUME NEW i \in 4..Len(buf) PROVE buf[1].n < buf[i].n
  <2>1. Earlier(buf[3], buf[i]) /\ buf[i] \in Piece
    BY <1>1 DEF InOrder
  <2>2. QED BY <1>1, <2>1, ThreePieces
<1>3. ASSUME NEW p \in Items(wire) PROVE buf[1].n < p.n
  <2>1. Earlier(buf[3], p) /\ p \in Piece
    BY <1>1, ItemsTyped DEF StreamInv, Shaped, Flow, Precedes
  <2>2. QED BY <1>1, <2>1, ThreePieces
<1>4. QED BY ZenonT(30), <1>2, <1>3

\* The buffer loses a prefix, or all of it.
LEMMA DropKeeps ==
  ASSUME StreamInv, buf' \in Seq(Piece), InOrder(buf'), Items(buf') \subseteq Items(buf),
         UNCHANGED <<admin, app, pending_app, wire, reader, frames, handled, busy>>
  PROVE  StreamInv'
<1>1. HasApp' = HasApp /\ \A x, y : SameWay(x, y)' = SameWay(x, y)
  BY SameRoute
<1>2. Waiting' = Waiting /\ Given' = Given /\ Ahead' \subseteq Ahead
  BY DEF Waiting, Given, Ahead
<1>3. Shaped'
  BY DEF StreamInv, Shaped
<1>4. Flow'
  BY <1>1, <1>2 DEF StreamInv, Flow, Precedes
<1>5. Sequence'
  BY <1>1, <1>2 DEF StreamInv, Sequence
<1>6. QED BY <1>3, <1>4, <1>5 DEF StreamInv

LEMMA BufferedKeeps ==
  ASSUME StreamInv, ClassifyBuffered
  PROVE  StreamInv'
<1>1. UNCHANGED <<app, wire, reader, frames, handled, busy>>
  BY DEF ClassifyBuffered, Reading, connVars
<1>2. CASE UNCHANGED <<buf, admin, pending_app>>
  BY ZenonT(30), <1>1, <1>2, DropKeeps DEF StreamInv, Shaped, Flow
<1>3. CASE frame_length(buf) = "bad" /\ buf' = Resync(buf) /\ UNCHANGED <<admin, pending_app>>
  <2> DEFINE i == next_frame_start(buf)
             starts == {k \in 2..(Len(buf) - 1) : buf[k].part = 1 /\ buf[k + 1].part = 2}
  <2>1. buf' \in Seq(Piece) /\ InOrder(buf') /\ Items(buf') \subseteq Items(buf)
    <3>1. CASE i = 0
      BY <1>3, <3>1, ItemsEmpty DEF Resync
    <3>2. CASE i # 0
      <4>1. i \in starts
        <5>1. \E k \in starts : \A j \in starts : k <= j
          <6>1. starts \subseteq Nat /\ starts # {}
            BY <3>2 DEF next_frame_start
          <6>2. QED BY ZenonT(30), <6>1, LeastOf
        <5>2. QED BY <3>2, <5>1 DEF next_frame_start
      <4>2. buf \in Seq(Piece) /\ InOrder(buf) /\ Len(buf) \in Nat
        BY DEF StreamInv, Shaped, Flow
      <4>3. i \in 1..(Len(buf) + 1)
        BY <4>1, <4>2
      <4>4. buf' = SubSeq(buf, i, Len(buf))
        BY ZenonT(30), <1>3, <3>2 DEF Resync
      <4> HIDE DEF i
      <4>5. QED BY <4>2, <4>3, <4>4, SuffixKeeps
    <3>3. QED BY <3>1, <3>2
  <2>2. QED BY <1>1, <1>3, <2>1, DropKeeps
<1>4. CASE frame_length(buf) = "frame" /\ Forward(Head(buf).n, SubSeq(buf, 4, Len(buf)))
  <2> DEFINE rest == SubSeq(buf, 4, Len(buf))
  <2>1. buf # <<>> /\ Head(buf).part = 1 /\ ~(Len(buf) < 3)
    <3>1. HasSoh(buf) /\ Head(buf).part = 1 /\ ~(Len(buf) < 3)
      BY <1>4 DEF frame_length
    <3>2. QED BY <3>1
  <2>2. Len(buf) \in Nat /\ Len(buf) >= 3 /\ buf[1].part = 1 /\ Head(buf) = buf[1]
    BY <2>1, HeadFacts
  <2>3. /\ rest \in Seq(Piece) /\ InOrder(rest) /\ Items(rest) \subseteq Items(buf)
        /\ Items(rest) = {buf[i] : i \in 4..Len(buf)}
    <3>1. 4 \in 1..(Len(buf) + 1) /\ buf \in Seq(Piece) /\ InOrder(buf)
      BY <2>2 DEF StreamInv, Shaped, Flow
    <3>2. QED BY ZenonT(30), <3>1, SuffixKeeps
  <2> HIDE DEF rest
  <2>4. \A p \in Items(rest) \cup Items(wire) : buf[1].n < p.n
    BY <2>2, <2>3, FrameLeaves
  <2>5. Forward(buf[1].n, rest)
    BY <1>4, <2>2 DEF rest
  <2>6. QED BY <1>1, <2>1, <2>3, <2>4, <2>5, HeadFacts, ForwardKeeps
<1>5. QED BY ZenonT(30), <1>2, <1>3, <1>4 DEF ClassifyBuffered, ReaderEnds

LEMMA BinaryKeeps ==
  ASSUME StreamInv, ClassifyBinary
  PROVE  StreamInv'
<1>1. UNCHANGED <<app, wire, reader, frames, handled, busy>>
  BY DEF ClassifyBinary, Reading, connVars
<1>2. CASE UNCHANGED <<buf, admin, pending_app>>
  BY ZenonT(30), <1>1, <1>2, DropKeeps DEF StreamInv, Shaped, Flow
<1>3. CASE Len(buf) >= 3 /\ Head(buf).part = 1 /\ Forward(Head(buf).n, <<>>)
  <2>1. buf # <<>>
    BY <1>3
  <2>2. buf[1].part = 1 /\ Forward(buf[1].n, <<>>)
    BY <1>3, <2>1, HeadFacts
  <2>3. \A p \in Items(<<>>) \cup Items(wire) : buf[1].n < p.n
    BY ZenonT(30), <1>3, <2>2, FrameLeaves, ItemsEmpty
  <2>4. <<>> \in Seq(Piece) /\ Items(<<>>) \subseteq Items(buf) /\ InOrder(<<>>)
    BY ItemsEmpty
  <2>5. QED BY ZenonT(30), <1>1, <2>1, <2>2, <2>3, <2>4, HeadFacts, ForwardKeeps
<1>4. QED BY <1>2, <1>3 DEF ClassifyBinary, ReaderEnds

\* The oldest staged message goes to the application channel.
LEMMA ReserveKeeps ==
  ASSUME StreamInv, Reserve
  PROVE  StreamInv'
<1> DEFINE x == Head(pending_app)
<1>1. /\ UNCHANGED <<buf, wire, admin, reader, frames, handled, busy>>
      /\ app' = Append(app, x) /\ pending_app' = Tail(pending_app) /\ pending_app # <<>>
  BY DEF Reserve, MayReserve, Reading, connVars
<1>2. HasApp' = HasApp /\ \A y, z : SameWay(y, z)' = SameWay(y, z)
  BY <1>1, SameRoute
<1>3. /\ Tail(pending_app) \in Seq(Number) /\ x \in Number
      /\ Items(pending_app) = Items(Tail(pending_app)) \cup {x}
      /\ Sorted(Tail(pending_app)) /\ \A y \in Items(Tail(pending_app)) : x < y
  BY <1>1, TailKeeps DEF StreamInv, Shaped, Flow
<1> HIDE DEF x
<1>4. /\ Append(app, x) \in Seq(Number) /\ Items(Append(app, x)) = Items(app) \cup {x}
      /\ Sorted(Append(app, x))
  <2>1. app \in Seq(Number) /\ Sorted(app) /\ \A y \in Items(app) : y < x
    BY <1>3 DEF StreamInv, Shaped, Flow
  <2>2. QED BY <1>3, <2>1, AppendKeeps
<1>5. Waiting' = Waiting /\ Given' = Given /\ Ahead' = Ahead
  BY <1>1, <1>3, <1>4 DEF Waiting, Given, Ahead
<1>6. Shaped'
  BY <1>1, <1>3, <1>4 DEF StreamInv, Shaped
<1>7. Flow'
  <2>1. \A y \in Items(app'), z \in Items(pending_app') : y < z
    BY ZenonT(30), <1>1, <1>3, <1>4 DEF StreamInv, Flow
  <2>2. \A y \in Items(app') \cup Items(pending_app') : HasApp /\ frames[y] = "app"
    BY ZenonT(30), <1>1, <1>3, <1>4 DEF StreamInv, Flow
  <2>3. QED BY ZenonT(30), <1>1, <1>2, <1>3, <1>4, <1>5, <2>1, <2>2 DEF StreamInv, Flow, Precedes
<1>8. Sequence'
  BY ZenonT(30), <1>1, <1>2, <1>5 DEF StreamInv, Sequence
<1>9. QED BY <1>1, <1>6, <1>7, <1>8 DEF StreamInv

\* A read moves pieces from the front of the stream to the end of the buffer.
LEMMA ReadKeeps ==
  ASSUME StreamInv, Read
  PROVE  StreamInv'
<1>1. PICK k \in 1..Chunk :
        /\ k <= Len(wire) /\ buf' = buf \o SubSeq(wire, 1, k)
        /\ wire' = SubSeq(wire, k + 1, Len(wire))
  BY ZenonT(30) DEF Read
<1>2. UNCHANGED <<admin, app, pending_app, reader, frames, handled, busy>>
  BY DEF Read, Reading, connVars
<1> DEFINE got == SubSeq(wire, 1, k)
           left == SubSeq(wire, k + 1, Len(wire))
<1>3. wire \in Seq(Piece) /\ InOrder(wire) /\ buf \in Seq(Piece) /\ InOrder(buf)
      /\ Precedes(buf, wire) /\ Len(wire) \in Nat
  BY DEF StreamInv, Shaped, Flow
<1>4. k \in 1..Len(wire) /\ k + 1 \in 1..(Len(wire) + 1)
  BY <1>1, <1>3, ReadLoopAssumption DEF ReadLoopAssumption
<1>5. /\ got \in Seq(Piece) /\ InOrder(got) /\ Items(got) \subseteq Items(wire)
      /\ Items(got) = {wire[i] : i \in 1..k}
  BY <1>3, <1>4, PrefixKeeps
<1>6. /\ left \in Seq(Piece) /\ InOrder(left) /\ Items(left) \subseteq Items(wire)
      /\ Items(left) = {wire[i] : i \in (k + 1)..Len(wire)}
  BY <1>3, <1>4, SuffixKeeps
<1>7. buf' = buf \o got /\ wire' = left
  BY <1>1
<1> HIDE DEF got, left
<1>8. Precedes(buf, got) /\ Precedes(buf, left)
  BY <1>3, <1>5, <1>6 DEF Precedes
<1>9. Precedes(got, left)
  <2>1. ASSUME NEW i \in 1..k, NEW j \in (k + 1)..Len(wire) PROVE Earlier(wire[i], wire[j])
    BY <1>3, <1>4 DEF InOrder
  <2>2. QED BY ZenonT(30), <1>5, <1>6, <2>1 DEF Precedes
<1>10. /\ buf' \in Seq(Piece) /\ InOrder(buf') /\ Items(buf') \subseteq Items(buf) \cup Items(got)
  BY ZenonT(30), <1>3, <1>5, <1>7, <1>8, JoinItems
<1>11. Waiting' = Waiting /\ Given' = Given /\ Ahead' \subseteq Ahead
  BY ZenonT(30), <1>2, <1>5, <1>6, <1>7, <1>10 DEF Waiting, Given, Ahead
<1>12. HasApp' = HasApp /\ \A y, z : SameWay(y, z)' = SameWay(y, z)
  BY <1>2, SameRoute
<1>13. Shaped'
  BY ZenonT(30), <1>2, <1>6, <1>7, <1>10 DEF StreamInv, Shaped
<1>14. Precedes(buf', wire')
  BY <1>7, <1>8, <1>9, <1>10 DEF Precedes
<1>15. Flow'
  BY ZenonT(30), <1>2, <1>6, <1>7, <1>10, <1>11, <1>12, <1>14 DEF StreamInv, Flow, Precedes
<1>16. Sequence'
  BY <1>2, <1>11, <1>12 DEF StreamInv, Sequence
<1>17. QED BY <1>2, <1>13, <1>15, <1>16 DEF StreamInv

\* A step that touches neither the stream nor the channels.
LEMMA QuietKeeps ==
  ASSUME StreamInv,
         UNCHANGED <<buf, wire, admin, app, pending_app, reader, frames, handled, busy>>
  PROVE  StreamInv'
BY ZenonT(30), DropKeeps DEF StreamInv, Shaped, Flow

LEMMA RecvAdminKeeps ==
  ASSUME StreamInv, RecvAdmin
  PROVE  StreamInv'
<1>1. UNCHANGED <<buf, wire, app, pending_app, reader, frames, handled>> /\ busy = 0
  BY DEF RecvAdmin, AtSelect, Handling, readVars
<1>2. CASE admin = <<>>
  BY <1>1, <1>2, QuietKeeps DEF RecvAdmin
<1>3. CASE admin # <<>>
  <2> DEFINE x == Head(admin)
  <2>1. busy' = x /\ admin' = Tail(admin)
    BY <1>3 DEF RecvAdmin
  <2>2. /\ Tail(admin) \in Seq(Number) /\ x \in Number
        /\ Items(admin) = Items(Tail(admin)) \cup {x}
        /\ Sorted(Tail(admin)) /\ \A y \in Items(Tail(admin)) : x < y
    BY <1>3, TailKeeps DEF StreamInv, Shaped, Flow
  <2> HIDE DEF x
  <2>3. HasApp' = HasApp /\ \A y, z : SameWay(y, z)' = SameWay(y, z)
    BY <1>1, SameRoute
  <2>4. Waiting' \subseteq Waiting /\ x \in Waiting /\ Given' = Given \cup {x} /\ Ahead' = Ahead
        /\ Given = Items(handled)
    BY <1>1, <2>1, <2>2 DEF Waiting, Given, Ahead, Number
  <2>5. Shaped'
    BY <1>1, <2>1, <2>2 DEF StreamInv, Shaped, Number
  <2>6. Flow'
    BY ZenonT(30), <1>1, <2>1, <2>2, <2>3, <2>4 DEF StreamInv, Flow, Precedes
  <2>7. \A y \in Waiting' : SameWay(x, y) => x < y
    <3>1. ASSUME NEW y \in Items(app) \cup Items(pending_app) PROVE ~SameWay(x, y)
      BY <2>2 DEF StreamInv, Flow, SameWay
    <3>2. QED BY <1>1, <2>1, <2>2, <3>1 DEF Waiting
  <2>8. \A y \in Items(handled) : SameWay(y, x) => y < x
    BY <2>4 DEF StreamInv, Sequence
  <2>9. Sequence'
    <3>1. \A y \in Given', z \in Waiting' : SameWay(y, z) => y < z
      BY <2>4, <2>7 DEF StreamInv, Sequence
    <3>2. QED BY <1>1, <2>1, <2>3, <2>8, <3>1 DEF StreamInv, Sequence
  <2>10. QED BY <1>1, <2>5, <2>6, <2>9 DEF StreamInv
<1>4. QED BY <1>2, <1>3

LEMMA RecvAppKeeps ==
  ASSUME StreamInv, RecvApp
  PROVE  StreamInv'
<1>1. UNCHANGED <<buf, wire, admin, pending_app, reader, frames, handled>> /\ busy = 0
  BY DEF RecvApp, AtSelect, Handling, readVars
<1>2. CASE app = <<>>
  BY <1>1, <1>2, QuietKeeps DEF RecvApp
<1>3. CASE app # <<>>
  <2> DEFINE x == Head(app)
  <2>1. busy' = x /\ app' = Tail(app)
    BY <1>3 DEF RecvApp
  <2>2. /\ Tail(app) \in Seq(Number) /\ x \in Number
        /\ Items(app) = Items(Tail(app)) \cup {x}
        /\ Sorted(Tail(app)) /\ \A y \in Items(Tail(app)) : x < y
    BY <1>3, TailKeeps DEF StreamInv, Shaped, Flow
  <2> HIDE DEF x
  <2>3. HasApp' = HasApp /\ \A y, z : SameWay(y, z)' = SameWay(y, z)
    BY <1>1, SameRoute
  <2>4. Waiting' \subseteq Waiting /\ x \in Waiting /\ Given' = Given \cup {x} /\ Ahead' = Ahead
        /\ Given = Items(handled)
    BY <1>1, <2>1, <2>2 DEF Waiting, Given, Ahead, Number
  <2>5. Shaped'
    BY <1>1, <2>1, <2>2 DEF StreamInv, Shaped, Number
  <2>6. Flow'
    BY ZenonT(30), <1>1, <2>1, <2>2, <2>3, <2>4 DEF StreamInv, Flow, Precedes
  <2>7. \A y \in Waiting' : SameWay(x, y) => x < y
    <3>1. ASSUME NEW y \in Items(admin) PROVE ~SameWay(x, y)
      BY <2>2 DEF StreamInv, Flow, SameWay
    <3>2. \A y \in Items(pending_app) : x < y
      BY <2>2 DEF StreamInv, Flow
    <3>3. QED BY <1>1, <2>1, <2>2, <3>1, <3>2 DEF Waiting
  <2>8. \A y \in Items(handled) : SameWay(y, x) => y < x
    BY <2>4 DEF StreamInv, Sequence
  <2>9. Sequence'
    <3>1. \A y \in Given', z \in Waiting' : SameWay(y, z) => y < z
      BY <2>4, <2>7 DEF StreamInv, Sequence
    <3>2. QED BY ZenonT(30), <1>1, <2>1, <2>3, <2>8, <3>1 DEF StreamInv, Sequence
  <2>10. QED BY <1>1, <2>5, <2>6, <2>9 DEF StreamInv
<1>4. QED BY <1>2, <1>3

LEMMA HandledKeeps ==
  ASSUME StreamInv, Handled
  PROVE  StreamInv'
<1>1. /\ UNCHANGED <<buf, wire, admin, app, pending_app, reader, frames>>
      /\ handled' = Append(handled, busy) /\ busy' = 0 /\ busy # 0
  BY DEF Handled, Handling, readVars
<1>2. handled \in Seq(Number) /\ busy \in Number
  BY <1>1 DEF StreamInv, Shaped, Number
<1>3. /\ Append(handled, busy) \in Seq(Number)
      /\ Items(Append(handled, busy)) = Items(handled) \cup {busy}
  BY <1>2, AppendKeeps
<1>4. HasApp' = HasApp /\ \A y, z : SameWay(y, z)' = SameWay(y, z)
  BY <1>1, SameRoute
<1>5. Waiting' = Waiting /\ Given' = Given /\ Ahead' = Ahead
  BY <1>1, <1>3 DEF Waiting, Given, Ahead
<1>6. Shaped'
  BY <1>1, <1>3 DEF StreamInv, Shaped
<1>7. Flow'
  BY ZenonT(30), <1>1, <1>4, <1>5 DEF StreamInv, Flow, Precedes
<1>8. ASSUME NEW i \in 1..Len(handled'), NEW j \in 1..Len(handled'), i < j,
             SameWay(handled'[i], handled'[j])
      PROVE  handled'[i] < handled'[j]
  <2>1. /\ Len(handled) \in Nat /\ Len(handled') = Len(handled) + 1
        /\ handled'[Len(handled) + 1] = busy
        /\ \A k \in 1..Len(handled) : handled'[k] = handled[k]
    BY <1>1, <1>2
  <2>2. i \in 1..Len(handled) /\ handled[i] \in Items(handled)
    BY <1>8, <2>1 DEF Items
  <2>3. CASE j = Len(handled) + 1
    BY ZenonT(30), <1>1, <1>8, <2>1, <2>2, <2>3 DEF StreamInv, Sequence
  <2>4. CASE j \in 1..Len(handled)
    BY ZenonT(30), <1>8, <2>1, <2>2, <2>4 DEF StreamInv, Sequence
  <2>5. QED BY <2>1, <2>3, <2>4
<1>9. Sequence'
  BY <1>1, <1>4, <1>5, <1>8 DEF StreamInv, Sequence
<1>10. QED BY <1>1, <1>6, <1>7, <1>9 DEF StreamInv

LEMMA NextReader == StreamInv /\ [ReadLoopNext]_ReadLoopVars => StreamInv'
<1> SUFFICES ASSUME StreamInv, [ReadLoopNext]_ReadLoopVars PROVE StreamInv'
  OBVIOUS
<1>1. CASE ReadEof \/ TickDue \/ ServeTick \/ LoopOver \/ Teardown \/ UNCHANGED ReadLoopVars
  <2>1. UNCHANGED <<buf, wire, admin, app, pending_app, reader, frames, handled, busy>>
    BY ZenonT(30), <1>1 DEF ReadEof, TickDue, ServeTick, LoopOver, Teardown, ReadLoopVars, Reading,
                Handling, readVars, connVars
  <2>2. QED BY <2>1, QuietKeeps
<1>2. QED
  BY <1>1, BufferedKeeps, BinaryKeeps, ReserveKeeps, ReadKeeps, RecvAdminKeeps,
     RecvAppKeeps, HandledKeeps DEF ReadLoopNext

\* What the session is given of each channel is in wire order, for every stream,
\* however the reads cut it and whatever the capacities of the channels
\* (read_loop, classify_buffered, classify_binary_buffered, run_connection).
THEOREM InWireOrder == ReadLoopSpec => []WireOrder
<1>1. StreamInv => WireOrder
  <2> SUFFICES ASSUME StreamInv, NEW class \in Classes, NEW i \in DOMAIN handled,
                      NEW j \in DOMAIN handled, i < j,
                      {frames[handled[i]], frames[handled[j]]} \subseteq class
               PROVE  handled[i] < handled[j]
    BY DEF WireOrder
  <2>1. DOMAIN handled = 1..Len(handled)
    BY DEF StreamInv, Shaped
  <2>2. SameWay(handled[i], handled[j])
    BY DEF Classes, SameWay
  <2>3. QED BY <2>1, <2>2 DEF StreamInv, Sequence
<1>2. QED BY <1>1, InitReader, NextReader, PTL DEF ReadLoopSpec
=============================================================================
