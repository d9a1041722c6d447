---------------------------- MODULE InvoiceProofs ----------------------------
(***************************************************************************)
(* What the functions of Invoice compute, for every sequence of transfers. *)
(* The library's induction theorems cannot be used by the provers; the     *)
(* induction that is needed here is over sets of numbers, as data.         *)
(***************************************************************************)
EXTENDS Invoice, SequenceTheorems, FiniteSetTheorems, TLAPS

LEMMA Least ==
  ASSUME NEW T \in SUBSET Nat, T # {}
  PROVE  \E m \in T : \A k \in T : m <= k
  <1> DEFINE R == OpToRel(<, Nat)
  <1>1. IsWellFoundedOn(R, Nat)
    BY NatLessThanWellFounded
  <1>2. \A x, y \in Nat : <<x, y>> \in R <=> x < y
    BY DEF OpToRel
  <1> HIDE DEF R
  <1>3. PICK x \in T : \A y \in T : ~ (<<y, x>> \in R)
    BY <1>1, WFMin
  <1>4. \A y \in T : ~ (y < x) /\ x \in Nat /\ y \in Nat
    BY <1>2, <1>3
  <1> QED
    BY <1>3, <1>4

LEMMA Induction ==
  ASSUME NEW S \in SUBSET Nat, 0 \in S, \A n \in S : n + 1 \in S
  PROVE  S = Nat
  <1> SUFFICES ASSUME Nat \ S # {} PROVE FALSE
    OBVIOUS
  <1>1. PICK m \in Nat \ S : \A k \in Nat \ S : m <= k
    BY Least
  <1>2. m - 1 \in Nat /\ m - 1 \in S
    BY <1>1
  <1> QED
    BY <1>1, <1>2
------------------------------------------------------------------------------
LEMMA FlattenExists ==
  ASSUME NEW V, NEW ss \in Seq(Seq(V)), Len(ss) # 0
  PROVE  \E flat : flat = [i \in 1 .. Len(ss) |-> IF i = 1 THEN ss[i] ELSE flat[i - 1] \o ss[i]]
  <1> DEFINE Good(n, f) == f \in [1 .. n -> Seq(V)]
                           /\ \A i \in 1 .. n : f[i] = IF i = 1 THEN ss[i] ELSE f[i - 1] \o ss[i]
             K == {n \in Nat : n <= Len(ss) => \E f : Good(n, f)}
  <1>1. 0 \in K
    <2>1. Good(0, [i \in 1 .. 0 |-> <<>>])
      OBVIOUS
    <2> QED
      BY <2>1
  <1>2. ASSUME NEW n \in K, n + 1 <= Len(ss)
        PROVE  \E f : Good(n + 1, f)
    <2>1. n \in Nat /\ n <= Len(ss)
      BY <1>2
    <2>2. PICK f : Good(n, f)
      BY <2>1
    <2> DEFINE x == IF n + 1 = 1 THEN ss[n + 1] ELSE f[n] \o ss[n + 1]
               g == [i \in 1 .. n + 1 |-> IF i = n + 1 THEN x ELSE f[i]]
    <2>3. ss[n + 1] \in Seq(V)
      BY <1>2, <2>1
    <2>4. x \in Seq(V)
      BY <2>1, <2>2, <2>3
    <2> HIDE DEF x
    <2>5. g \in [1 .. n + 1 -> Seq(V)]
      BY <2>1, <2>2, <2>4
    <2>6. ASSUME NEW i \in 1 .. n + 1
          PROVE  g[i] = IF i = 1 THEN ss[i] ELSE g[i - 1] \o ss[i]
      <3>1. CASE i = n + 1
        <4>1. g[i] = x /\ (i # 1 => g[i - 1] = f[n])
          BY <2>1, <3>1
        <4> QED
          BY <2>1, <3>1, <4>1 DEF x
      <3>2. CASE i # n + 1
        <4>1. i \in 1 .. n /\ g[i] = f[i] /\ (i # 1 => g[i - 1] = f[i - 1])
          BY <2>1, <2>6, <3>2
        <4> QED
          BY <2>2, <4>1
      <3> QED
        BY <3>1, <3>2
    <2> HIDE DEF g
    <2> QED
      BY <2>5, <2>6
  <1>3. \A n \in K : n + 1 \in K
    <2> TAKE n \in K
    <2>1. n + 1 \in Nat
      OBVIOUS
    <2>2. n + 1 <= Len(ss) => \E f : Good(n + 1, f)
      BY <1>2
    <2> QED
      BY <2>1, <2>2
  <1>4. K \in SUBSET Nat
    OBVIOUS
  <1>5. K = Nat
    <2> HIDE DEF K
    <2> QED
      BY <1>1, <1>3, <1>4, Induction
  <1>6. Len(ss) \in K
    <2> HIDE DEF K
    <2> QED
      BY <1>5
  <1>7. PICK f : Good(Len(ss), f)
    BY <1>6
  <1> DEFINE h == [i \in 1 .. Len(ss) |-> IF i = 1 THEN ss[i] ELSE f[i - 1] \o ss[i]]
  <1>8. \A i \in 1 .. Len(ss) : f[i] = h[i]
    BY <1>7
  <1>9. f = [i \in 1 .. Len(ss) |-> f[i]] /\ h = [i \in 1 .. Len(ss) |-> h[i]]
    BY <1>7
  <1> HIDE DEF h
  <1>10. f = h
    BY <1>8, <1>9
  <1> QED
    BY <1>10 DEF h

LEMMA ConcatElements ==
  ASSUME NEW V, NEW p \in Seq(V), NEW q \in Seq(V)
  PROVE  ToSet(p \o q) = ToSet(p) \cup ToSet(q)
  <1>1. Len(p \o q) = Len(p) + Len(q) /\ Len(p) \in Nat /\ Len(q) \in Nat /\ p \o q \in Seq(V)
    OBVIOUS
  <1>2. \A i \in 1 .. Len(p) : i \in 1 .. Len(p \o q) /\ (p \o q)[i] = p[i]
    BY <1>1
  <1>3. \A i \in 1 .. Len(q) : Len(p) + i \in 1 .. Len(p \o q) /\ (p \o q)[Len(p) + i] = q[i]
    BY <1>1
  <1>4. \A i \in 1 .. Len(p \o q) : i \in 1 .. Len(p) \/ \E j \in 1 .. Len(q) : i = Len(p) + j
    <2> TAKE i \in 1 .. Len(p \o q)
    <2>1. CASE i > Len(p)
      <3>1. i - Len(p) \in 1 .. Len(q) /\ i = Len(p) + (i - Len(p))
        BY <1>1, <2>1
      <3> QED
        BY <3>1
    <2> QED
      BY <1>1, <2>1
  <1>5. DOMAIN p = 1 .. Len(p) /\ DOMAIN q = 1 .. Len(q) /\ DOMAIN (p \o q) = 1 .. Len(p \o q)
    BY <1>1
  <1> QED
    BY <1>2, <1>3, <1>4, <1>5 DEF ToSet

\* FlattenSeq joins from the left.
LEMMA FlattenSteps ==
  ASSUME NEW V, NEW ss \in Seq(Seq(V)), Len(ss) # 0
  PROVE  \E flat : /\ FlattenSeq(ss) = flat[Len(ss)]
                   /\ \A i \in 1 .. Len(ss) :
                        flat[i] = IF i = 1 THEN ss[i] ELSE flat[i - 1] \o ss[i]
  <1> DEFINE flatten == CHOOSE flat : flat = [i \in 1 .. Len(ss) |->
                           IF i = 1 THEN ss[i] ELSE flat[i - 1] \o ss[i]]
  <1>1. FlattenSeq(ss) = flatten[Len(ss)]
    BY DEF FlattenSeq
  <1>2. flatten = [i \in 1 .. Len(ss) |-> IF i = 1 THEN ss[i] ELSE flatten[i - 1] \o ss[i]]
    BY FlattenExists
  <1> HIDE DEF flatten
  <1>3. \A i \in 1 .. Len(ss) : flatten[i] = IF i = 1 THEN ss[i] ELSE flatten[i - 1] \o ss[i]
    <2> DEFINE body(i) == IF i = 1 THEN ss[i] ELSE flatten[i - 1] \o ss[i]
    <2>1. flatten = [i \in 1 .. Len(ss) |-> body(i)]
      BY <1>2
    <2> HIDE DEF body
    <2>2. \A i \in 1 .. Len(ss) : flatten[i] = body(i)
      BY <2>1
    <2> QED
      BY <2>2 DEF body
  <1> QED
    BY <1>1, <1>3

LEMMA Flatten ==
  ASSUME NEW V, NEW ss \in Seq(Seq(V))
  PROVE  /\ FlattenSeq(ss) \in Seq(V)
         /\ \A v : v \in ToSet(FlattenSeq(ss)) <=> \E n \in 1 .. Len(ss) : v \in ToSet(ss[n])
  <1>1. CASE Len(ss) = 0
    <2>1. FlattenSeq(ss) = <<>>
      BY <1>1, EmptySeq DEF FlattenSeq
    <2> QED
      BY <1>1, <2>1 DEF ToSet
  <1>2. CASE Len(ss) # 0
    <2>1. PICK flatten : /\ FlattenSeq(ss) = flatten[Len(ss)]
                         /\ \A i \in 1 .. Len(ss) :
                              flatten[i] = IF i = 1 THEN ss[i] ELSE flatten[i - 1] \o ss[i]
      BY <1>2, FlattenSteps
    <2> DEFINE Joins(n) == /\ flatten[n] \in Seq(V)
                           /\ \A v : v \in ToSet(flatten[n]) <=> \E i \in 1 .. n : v \in ToSet(ss[i])
               K == {n \in Nat : n \in 1 .. Len(ss) => Joins(n)}
    <2>5. Len(ss) \in Nat
      OBVIOUS
    <2> HIDE DEF Joins
    <2>3. ASSUME NEW n \in Nat, n \in 1 .. Len(ss) => Joins(n), n + 1 \in 1 .. Len(ss)
          PROVE  Joins(n + 1)
      <3>1. ss[n + 1] \in Seq(V)
        BY <2>3
      <3>2. CASE n = 0
        <4>1. flatten[n + 1] = ss[n + 1]
          BY <2>1, <2>3, <3>2
        <4>2. flatten[n + 1] \in Seq(V)
          BY <3>1, <4>1
        <4>3. \A v : v \in ToSet(flatten[n + 1]) <=> \E i \in 1 .. n + 1 : v \in ToSet(ss[i])
          <5>1. \A i : i \in 1 .. n + 1 <=> i = n + 1
            BY <3>2
          <5>2. \A v : (\E i \in 1 .. n + 1 : v \in ToSet(ss[i])) <=> v \in ToSet(ss[n + 1])
            BY <5>1
          <5> QED
            BY <4>1, <5>2
        <4> QED
          BY <4>2, <4>3 DEF Joins
      <3>3. CASE n # 0
        <4>1. flatten[n + 1] = flatten[n] \o ss[n + 1] /\ n \in 1 .. Len(ss)
          <5>1. n + 1 \in 1 .. Len(ss) /\ n \in 1 .. Len(ss) /\ n + 1 # 1 /\ n + 1 - 1 = n
            BY <2>3, <2>5, <3>3
          <5>2. PICK m \in 1 .. Len(ss) : m = n + 1 /\ m # 1 /\ m - 1 = n
            BY <5>1
          <5>3. flatten[m] = flatten[m - 1] \o ss[m]
            BY <2>1, <5>2, Zenon
          <5> QED
            BY <5>1, <5>2, <5>3, Zenon
        <4>2. Joins(n)
          BY <2>3, <4>1
        <4>3. ToSet(flatten[n + 1]) = ToSet(flatten[n]) \cup ToSet(ss[n + 1])
          BY <3>1, <4>1, <4>2, ConcatElements DEF Joins
        <4>4. \A i : i \in 1 .. n + 1 <=> i \in 1 .. n \/ i = n + 1
          BY <2>3
        <4> QED
          BY <3>1, <4>1, <4>2, <4>3, <4>4 DEF Joins
      <3> QED
        BY <3>2, <3>3
    <2>4. K = Nat
      <3>1. ASSUME NEW n \in Nat, n \in K PROVE n + 1 \in K
        <4>1. n + 1 \in 1 .. Len(ss) => Joins(n + 1)
          BY <2>3, <3>1
        <4> QED
          BY <4>1
      <3>2. 0 \in K /\ K \in SUBSET Nat
        OBVIOUS
      <3> HIDE DEF K
      <3> QED
        BY <3>1, <3>2, Induction
    <2>6. Joins(Len(ss))
      BY <1>2, <2>4, <2>5
    <2> QED
      BY <2>1, <2>6 DEF Joins
  <1> QED
    BY <1>1, <1>2

\* What Only keeps.
LEMMA OnlyThose ==
  ASSUME NEW V, NEW s \in Seq(V), NEW S
  PROVE  Only(s, S) \in Seq(V) /\ ToSet(Only(s, S)) = ToSet(s) \cap S
  <1> DEFINE ss == [n \in DOMAIN s |-> IF s[n] \in S THEN <<s[n]>> ELSE <<>>]
  <1>1. Len(s) \in Nat /\ DOMAIN s = 1 .. Len(s) /\ \A n \in 1 .. Len(s) : s[n] \in V
    OBVIOUS
  <1>2. \A n \in 1 .. Len(s) : ss[n] \in Seq(V)
    BY <1>1
  <1>3. ss \in Seq(Seq(V)) /\ Len(ss) = Len(s)
    BY <1>1, <1>2
  <1>4. Only(s, S) = FlattenSeq(ss)
    BY DEF Only
  <1>5. ASSUME NEW n \in 1 .. Len(s), NEW v PROVE v \in ToSet(ss[n]) <=> v = s[n] /\ v \in S
    <2>1. CASE s[n] \in S
      <3>1. ss[n] = <<s[n]>> /\ DOMAIN ss[n] = {1}
        BY <1>1, <2>1
      <3> QED
        BY <2>1, <3>1 DEF ToSet
    <2>2. CASE s[n] \notin S
      <3>1. ss[n] = <<>> /\ DOMAIN ss[n] = {}
        BY <1>1, <2>2
      <3> QED
        BY <2>2, <3>1 DEF ToSet
    <2> QED
      BY <2>1, <2>2
  <1> HIDE DEF ss
  <1>6. Only(s, S) \in Seq(V)
        /\ \A v : v \in ToSet(Only(s, S)) <=> \E n \in 1 .. Len(s) : v \in ToSet(ss[n])
    BY <1>3, <1>4, Flatten
  <1>7. \A v : v \in ToSet(Only(s, S)) <=> \E n \in 1 .. Len(s) : v = s[n] /\ v \in S
    BY <1>5, <1>6
  <1>8. \A v : v \in ToSet(s) <=> \E n \in 1 .. Len(s) : v = s[n]
    BY <1>1 DEF ToSet
  <1> QED
    BY <1>6, <1>7, <1>8

LEMMA SumExists ==
  ASSUME NEW f, NEW L \in Nat, \A i \in 1 .. L : f[i].amount \in Nat
  PROVE  \E sum : /\ sum = [n \in 0 .. L |-> IF n = 0 THEN 0 ELSE sum[n - 1] + f[n].amount]
                  /\ sum[L] \in Nat
  <1> DEFINE Good(n, g) == g \in [0 .. n -> Nat]
                           /\ \A i \in 0 .. n : g[i] = IF i = 0 THEN 0 ELSE g[i - 1] + f[i].amount
             K == {n \in Nat : n <= L => \E g : Good(n, g)}
  <1>1. 0 \in K
    <2>1. Good(0, [i \in 0 .. 0 |-> 0])
      OBVIOUS
    <2> QED
      BY <2>1
  <1>2. ASSUME NEW n \in K, n + 1 <= L
        PROVE  \E g : Good(n + 1, g)
    <2>1. n \in Nat /\ n <= L
      BY <1>2
    <2>2. PICK g : Good(n, g)
      BY <2>1
    <2> DEFINE x == g[n] + f[n + 1].amount
               h == [i \in 0 .. n + 1 |-> IF i = n + 1 THEN x ELSE g[i]]
    <2>3. f[n + 1].amount \in Nat /\ g[n] \in Nat
      BY <1>2, <2>1, <2>2
    <2>4. x \in Nat
      BY <2>3
    <2> HIDE DEF x
    <2>5. h \in [0 .. n + 1 -> Nat]
      BY <2>1, <2>2, <2>4
    <2>6. ASSUME NEW i \in 0 .. n + 1
          PROVE  h[i] = IF i = 0 THEN 0 ELSE h[i - 1] + f[i].amount
      <3>1. CASE i = n + 1
        <4>1. h[i] = x /\ i # 0 /\ h[i - 1] = g[n]
          BY <2>1, <3>1
        <4> QED
          BY <2>1, <3>1, <4>1 DEF x
      <3>2. CASE i # n + 1
        <4>1. i \in 0 .. n /\ h[i] = g[i] /\ (i # 0 => h[i - 1] = g[i - 1])
          BY <2>1, <2>6, <3>2
        <4> QED
          BY <2>2, <4>1
      <3> QED
        BY <3>1, <3>2
    <2> HIDE DEF h
    <2> QED
      BY <2>5, <2>6
  <1>3. \A n \in K : n + 1 \in K
    <2> TAKE n \in K
    <2>1. n + 1 \in Nat
      OBVIOUS
    <2>2. n + 1 <= L => \E g : Good(n + 1, g)
      BY <1>2
    <2> QED
      BY <2>1, <2>2
  <1>4. K \in SUBSET Nat
    OBVIOUS
  <1>5. L \in K
    <2> HIDE DEF K
    <2> QED
      BY <1>1, <1>3, <1>4, Induction
  <1>6. PICK g : Good(L, g)
    BY <1>5
  <1> DEFINE body(n) == IF n = 0 THEN 0 ELSE g[n - 1] + f[n].amount
             h == [n \in 0 .. L |-> body(n)]
  <1>7. \A n \in 0 .. L : g[n] = h[n]
    BY <1>6
  <1>8. g = [n \in 0 .. L |-> g[n]] /\ h = [n \in 0 .. L |-> h[n]]
    BY <1>6
  <1> HIDE DEF h
  <1>9. g = h
    BY <1>7, <1>8
  <1>10. g[L] \in Nat
    BY <1>6
  <1> QED
    BY <1>9, <1>10 DEF h

\* SumOf adds the amounts one by one.
LEMMA SumSteps ==
  ASSUME NEW f, Len(f) \in Nat, \A i \in 1 .. Len(f) : f[i].amount \in Nat
  PROVE  \E sum \in [0 .. Len(f) -> Nat] :
           /\ sum[0] = 0
           /\ \A n \in 1 .. Len(f) : sum[n] = sum[n - 1] + f[n].amount
           /\ SumOf(f) = sum[Len(f)]
  <1> DEFINE L == Len(f)
             Fits(sum) == sum = [n \in 0 .. L |-> IF n = 0 THEN 0 ELSE sum[n - 1] + f[n].amount]
             sum == CHOOSE sum : Fits(sum)
  <1>1. \E g : Fits(g)
    BY SumExists
  <1>2. SumOf(f) = sum[L]
    BY DEF SumOf
  <1>3. Fits(sum)
    BY <1>1
  <1> HIDE DEF sum
  <1>4. DOMAIN sum = 0 .. L /\ sum = [n \in 0 .. L |-> sum[n]]
    BY <1>3
  <1>5. \A n \in 0 .. L : sum[n] = IF n = 0 THEN 0 ELSE sum[n - 1] + f[n].amount
    <2> DEFINE body(n) == IF n = 0 THEN 0 ELSE sum[n - 1] + f[n].amount
    <2>1. sum = [n \in 0 .. L |-> body(n)]
      BY <1>3
    <2> HIDE DEF body
    <2>2. \A n \in 0 .. L : sum[n] = body(n)
      BY <2>1
    <2> QED
      BY <2>2 DEF body
  <1> DEFINE K == {n \in Nat : n <= L => sum[n] \in Nat}
  <1>6. 0 \in K /\ K \in SUBSET Nat
    BY <1>5
  <1>7. ASSUME NEW n \in K PROVE n + 1 \in K
    <2>0. n \in Nat /\ n + 1 \in Nat
      OBVIOUS
    <2>1. ASSUME n + 1 <= L PROVE sum[n + 1] \in Nat
      <3>1. n \in Nat /\ n <= L /\ sum[n] \in Nat
        BY <2>1
      <3>2. PICK m \in 0 .. L : m = n + 1 /\ m # 0 /\ m - 1 = n
        BY <2>1, <3>1
      <3>3. sum[m] = sum[m - 1] + f[m].amount
        BY <1>5, <3>2, Zenon
      <3>4. sum[m - 1] = sum[n] /\ f[m].amount \in Nat
        BY <3>1, <3>2
      <3> QED
        BY <3>1, <3>2, <3>3, <3>4
    <2> QED
      BY <2>0, <2>1
  <1>8. \A n \in 0 .. L : sum[n] \in Nat
    <2> HIDE DEF K
    <2>1. K = Nat
      BY <1>6, <1>7, Induction
    <2> QED
      BY <2>1 DEF K
  <1>9. sum \in [0 .. L -> Nat]
    BY <1>4, <1>8
  <1>10. sum[0] = 0 /\ \A n \in 1 .. L : sum[n] = sum[n - 1] + f[n].amount
    BY <1>5
  <1> QED
    BY <1>2, <1>9, <1>10

LEMMA SumIsNat ==
  ASSUME NEW f, Len(f) \in Nat, \A i \in 1 .. Len(f) : f[i].amount \in Nat
  PROVE  SumOf(f) \in Nat
  BY SumSteps
------------------------------------------------------------------------------
LEMMA SumOfTransfers ==
  ASSUME NEW f \in Seq(TransferType)
  PROVE  SumOf(f) \in Nat
  <1>1. Len(f) \in Nat /\ \A i \in 1 .. Len(f) : f[i] \in TransferType
    OBVIOUS
  <1>2. \A i \in 1 .. Len(f) : f[i].amount \in Nat
    BY <1>1 DEF TransferType
  <1> QED
    BY <1>1, <1>2, SumIsNat

\* The height of payment is that of a mined transfer which, with those before it,
\* covers the amount, and there is one if any such transfer is.
LEMMA PaidHeightFacts ==
  ASSUME NEW inv, inv.transfers \in Seq(TransferType)
  PROVE  /\ PaidHeight(inv) \in Height
         /\ PaidHeight(inv) # NoHeight =>
              \E n \in 1 .. Len(inv.transfers) :
                /\ SumOf(SubSeq(inv.transfers, 1, n)) >= inv.amount_requested
                /\ inv.transfers[n].height = PaidHeight(inv)
         /\ \A n \in 1 .. Len(inv.transfers) :
              /\ SumOf(SubSeq(inv.transfers, 1, n)) >= inv.amount_requested
              /\ inv.transfers[n].height # NoHeight
              => PaidHeight(inv) # NoHeight
  <1> DEFINE covered == {n \in DOMAIN inv.transfers :
                           /\ SumOf(SubSeq(inv.transfers, 1, n)) >= inv.amount_requested
                           /\ inv.transfers[n].height # NoHeight}
             first == CHOOSE n \in covered : \A m \in covered : n <= m
  <1>1. DOMAIN inv.transfers = 1 .. Len(inv.transfers) /\ Len(inv.transfers) \in Nat
    OBVIOUS
  <1>2. PaidHeight(inv) = IF covered = {} THEN NoHeight ELSE inv.transfers[first].height
    BY DEF PaidHeight
  <1>3. /\ covered \in SUBSET Nat
        /\ \A n : n \in covered <=> /\ n \in 1 .. Len(inv.transfers)
                                    /\ SumOf(SubSeq(inv.transfers, 1, n)) >= inv.amount_requested
                                    /\ inv.transfers[n].height # NoHeight
    BY <1>1
  <1> HIDE DEF covered
  <1>4. covered # {} => first \in covered
    BY <1>3, Least
  <1> HIDE DEF first
  <1>5. covered # {} => inv.transfers[first] \in TransferType
    <2>1. covered # {} => first \in 1 .. Len(inv.transfers)
      BY <1>3, <1>4
    <2> QED
      BY <2>1
  <1> QED
    BY <1>2, <1>3, <1>4, <1>5 DEF TransferType, Height

LEMMA SameElements ==
  ASSUME NEW V, NEW a \in Seq(V), NEW b \in Seq(V), SameTransfers(a, b)
  PROVE  ToSet(a) = ToSet(b)
  <1> DEFINE at(s, t) == {n \in DOMAIN s : s[n] = t}
  <1>1. \A t \in ToSet(a) \cup ToSet(b) : Cardinality(at(a, t)) = Cardinality(at(b, t))
    BY DEF SameTransfers
  <1>2. ASSUME NEW s \in Seq(V), NEW t PROVE t \in ToSet(s) <=> Cardinality(at(s, t)) # 0
    <2>1. DOMAIN s = 1 .. Len(s) /\ Len(s) \in Nat
      OBVIOUS
    <2>2. IsFiniteSet(at(s, t))
      <3>1. IsFiniteSet(1 .. Len(s))
        BY <2>1, FS_Interval
      <3>2. at(s, t) \subseteq 1 .. Len(s)
        BY <2>1
      <3> HIDE DEF at
      <3> QED
        BY <3>1, <3>2, FS_Subset
    <2>3. at(s, t) = {} <=> Cardinality(at(s, t)) = 0
      BY <2>2, FS_EmptySet
    <2>4. at(s, t) # {} <=> t \in ToSet(s)
      BY DEF ToSet
    <2> QED
      BY <2>3, <2>4
  <1> HIDE DEF at
  <1> QED
    BY <1>1, <1>2

LEMMA WithoutTransfers ==
  ASSUME NEW Index, NEW a \in InvoiceType(Index), NEW b \in InvoiceType(Index),
         [a EXCEPT !.transfers = <<>>] = [b EXCEPT !.transfers = <<>>]
  PROVE  a.current_height = b.current_height
  <1>1. ASSUME NEW c \in InvoiceType(Index)
        PROVE  [c EXCEPT !.transfers = <<>>].current_height = c.current_height
    BY DEF InvoiceType
  <1> QED
    BY <1>1

(***************************************************************************)
(* An invoice keeps its identity in a round of Scanner::scan, and holds    *)
(* afterwards the transfers below deepest_update that it held before, and  *)
(* those that the scan has found for it, and no others.                    *)
(***************************************************************************)
THEOREM UpdatedHolds ==
  ASSUME NEW Index, NEW inv \in InvoiceType(Index), NEW found \in Seq(FoundType(Index)),
         NEW deepest, NEW top \in Nat
  PROVE  LET new == Updated(inv, found, deepest, top)
         IN  /\ new \in InvoiceType(Index)
             /\ new.index = inv.index /\ new.creation_height = inv.creation_height
             /\ new.current_height = top + 1
             /\ \A t : t \in ToSet(new.transfers) <=>
                  \/ t \in ToSet(inv.transfers) /\ Before(t.height, deepest)
                  \/ \E f \in ToSet(found) : Mine(inv, f) /\ t = Transfer(f.amount, f.height)
  <1> DEFINE kept == {t \in ToSet(inv.transfers) : Before(t.height, deepest)}
             those == {f \in ToSet(found) : Mine(inv, f)}
             old == Only(inv.transfers, kept)
             mine == Only(found, those)
             fresh == [n \in DOMAIN mine |-> Transfer(mine[n].amount, mine[n].height)]
             new == [inv EXCEPT !.transfers = old \o fresh, !.current_height = top + 1]
             result == Updated(inv, found, deepest, top)
             Held(t) == \/ t \in ToSet(inv.transfers) /\ Before(t.height, deepest)
                        \/ \E f \in ToSet(found) : Mine(inv, f) /\ t = Transfer(f.amount, f.height)
  <1>1. inv.transfers \in Seq(TransferType)
    BY DEF InvoiceType
  <1>2. result = IF SameInvoice(new, inv) THEN inv ELSE Recomputed(new)
    BY DEF Updated
  <1>3. old \in Seq(TransferType) /\ ToSet(old) = kept
    BY <1>1, OnlyThose
  <1>4. mine \in Seq(FoundType(Index)) /\ ToSet(mine) = those
    BY OnlyThose
  <1> HIDE DEF mine, old
  <1>5. /\ Len(mine) \in Nat /\ DOMAIN mine = 1 .. Len(mine)
        /\ \A n \in 1 .. Len(mine) : mine[n] \in FoundType(Index)
    BY <1>4
  <1>6. \A n \in 1 .. Len(mine) : Transfer(mine[n].amount, mine[n].height) \in TransferType
    BY <1>5 DEF FoundType, TransferType, Transfer
  <1>7. fresh \in Seq(TransferType) /\ Len(fresh) = Len(mine) /\ DOMAIN fresh = 1 .. Len(mine)
    BY <1>5, <1>6
  <1>8. \A t : t \in ToSet(fresh) <=> \E f \in those : t = Transfer(f.amount, f.height)
    <2>1. \A t : t \in ToSet(fresh) <=>
            \E n \in 1 .. Len(mine) : t = Transfer(mine[n].amount, mine[n].height)
      BY <1>5, <1>7 DEF ToSet
    <2>2. \A f : f \in those <=> \E n \in 1 .. Len(mine) : f = mine[n]
      BY <1>4, <1>5 DEF ToSet
    <2> HIDE DEF those, fresh
    <2> QED
      BY <2>1, <2>2
  <1> HIDE DEF fresh
  <1>9. old \o fresh \in Seq(TransferType) /\ ToSet(old \o fresh) = kept \cup ToSet(fresh)
    BY <1>3, <1>7, ConcatElements
  <1>10. \A t : t \in ToSet(old \o fresh) <=> Held(t)
    BY <1>8, <1>9
  <1>11. /\ new \in InvoiceType(Index)
         /\ new.index = inv.index /\ new.creation_height = inv.creation_height
         /\ new.current_height = top + 1 /\ new.transfers = old \o fresh
    <2>1. top + 1 \in Nat
      OBVIOUS
    <2>2. PICK ts, h : ts = old \o fresh /\ h = top + 1
      OBVIOUS
    <2>3. new = [inv EXCEPT !.transfers = ts, !.current_height = h]
      BY <2>2, Zenon
    <2>4. ts \in Seq(TransferType) /\ h \in Nat
      BY <1>9, <2>1, <2>2
    <2> HIDE DEF new
    <2>5. /\ new \in InvoiceType(Index)
          /\ new.index = inv.index /\ new.creation_height = inv.creation_height
          /\ new.current_height = h /\ new.transfers = ts
      BY <2>3, <2>4 DEF InvoiceType
    <2> QED
      BY <2>2, <2>5, Zenon
  <1> HIDE DEF new, Held, result
  <1>12. CASE SameInvoice(new, inv)
    <2>1. result = inv /\ SameTransfers(new.transfers, inv.transfers)
          /\ [new EXCEPT !.transfers = <<>>] = [inv EXCEPT !.transfers = <<>>]
      BY <1>2, <1>12 DEF SameInvoice
    <2>2. new.current_height = inv.current_height
      BY <1>11, <2>1, WithoutTransfers
    <2>3. ToSet(inv.transfers) = ToSet(new.transfers)
      BY <1>1, <1>9, <1>11, <2>1, SameElements
    <2>4. \A t : t \in ToSet(inv.transfers) <=> Held(t)
      BY <1>10, <1>11, <2>3
    <2> QED
      BY <1>11, <2>1, <2>2, <2>4 DEF Held, result
  <1>13. CASE ~ SameInvoice(new, inv)
    <2>1. result = Recomputed(new)
      BY <1>2, <1>13
    <2>2. SumOf(new.transfers) \in Nat /\ PaidHeight(new) \in Height
      BY <1>9, <1>11, SumOfTransfers, PaidHeightFacts
    <2>3. /\ result \in InvoiceType(Index)
          /\ result.index = new.index /\ result.creation_height = new.creation_height
          /\ result.current_height = new.current_height /\ result.transfers = new.transfers
      BY <1>11, <2>1, <2>2 DEF Recomputed, InvoiceType
    <2>4. \A t : t \in ToSet(result.transfers) <=> Held(t)
      BY <1>10, <1>11, <2>3
    <2> QED
      BY <1>11, <2>3, <2>4 DEF Held, result
  <1> QED
    BY <1>12, <1>13

\* What the scan has found for an invoice is among its transfers.
LEMMA UpdatedAdds ==
  ASSUME NEW Index, NEW inv \in InvoiceType(Index), NEW found \in Seq(FoundType(Index)),
         NEW deepest, NEW top \in Nat, NEW f \in ToSet(found), Mine(inv, f)
  PROVE  Transfer(f.amount, f.height) \in ToSet(Updated(inv, found, deepest, top).transfers)
  BY UpdatedHolds
------------------------------------------------------------------------------
(***************************************************************************)
(* What a sequence holds once is held once by what is made of it.          *)
(***************************************************************************)
AtMostOnce(seq, v) == \A m, n \in DOMAIN seq : seq[m] = v /\ seq[n] = v => m = n

LEMMA ConcatOnce ==
  ASSUME NEW V, NEW p \in Seq(V), NEW q \in Seq(V), NEW v, AtMostOnce(p, v), AtMostOnce(q, v),
         ~ (v \in ToSet(p) /\ v \in ToSet(q))
  PROVE  AtMostOnce(p \o q, v)
  <1>1. /\ Len(p \o q) = Len(p) + Len(q) /\ Len(p) \in Nat /\ Len(q) \in Nat
        /\ DOMAIN p = 1 .. Len(p) /\ DOMAIN q = 1 .. Len(q) /\ DOMAIN (p \o q) = 1 .. Len(p \o q)
    OBVIOUS
  <1>2. ASSUME NEW n \in DOMAIN (p \o q), (p \o q)[n] = v
        PROVE  \/ n \in DOMAIN p /\ p[n] = v /\ v \in ToSet(p)
               \/ n > Len(p) /\ n - Len(p) \in DOMAIN q /\ q[n - Len(p)] = v /\ v \in ToSet(q)
    <2>1. CASE n <= Len(p)
      BY <1>1, <1>2, <2>1 DEF ToSet
    <2>2. CASE n > Len(p)
      <3>1. n - Len(p) \in DOMAIN q /\ (p \o q)[n] = q[n - Len(p)]
        BY <1>1, <1>2, <2>2
      <3> QED
        BY <1>2, <2>2, <3>1 DEF ToSet
    <2> QED
      BY <1>1, <2>1, <2>2
  <1> SUFFICES ASSUME NEW m \in DOMAIN (p \o q), NEW n \in DOMAIN (p \o q),
                      (p \o q)[m] = v, (p \o q)[n] = v
               PROVE  m = n
    BY DEF AtMostOnce
  <1>3. CASE v \in ToSet(p)
    BY <1>2, <1>3 DEF AtMostOnce
  <1>4. CASE v \notin ToSet(p)
    <2>1. m - Len(p) = n - Len(p)
      BY <1>2, <1>4 DEF AtMostOnce
    <2> QED
      BY <1>1, <2>1
  <1> QED
    BY <1>3, <1>4

LEMMA FlattenOnce ==
  ASSUME NEW V, NEW ss \in Seq(Seq(V)), NEW v, \A i \in 1 .. Len(ss) : AtMostOnce(ss[i], v),
         \A i, j \in 1 .. Len(ss) : v \in ToSet(ss[i]) /\ v \in ToSet(ss[j]) => i = j
  PROVE  AtMostOnce(FlattenSeq(ss), v)
  <1>1. CASE Len(ss) = 0
    <2>1. FlattenSeq(ss) = <<>>
      BY <1>1, EmptySeq DEF FlattenSeq
    <2> QED
      BY <2>1 DEF AtMostOnce
  <1>2. CASE Len(ss) # 0
    <2>1. PICK flatten : /\ FlattenSeq(ss) = flatten[Len(ss)]
                         /\ \A i \in 1 .. Len(ss) :
                              flatten[i] = IF i = 1 THEN ss[i] ELSE flatten[i - 1] \o ss[i]
      BY <1>2, FlattenSteps
    <2>2. Len(ss) \in Nat /\ \A i \in 1 .. Len(ss) : ss[i] \in Seq(V)
      OBVIOUS
    <2> DEFINE Joins(n) == /\ flatten[n] \in Seq(V) /\ AtMostOnce(flatten[n], v)
                           /\ v \in ToSet(flatten[n]) => \E i \in 1 .. n : v \in ToSet(ss[i])
               K == {n \in Nat : n + 1 \in 1 .. Len(ss) => Joins(n + 1)}
    <2>3. 0 \in K
      <3>1. 1 \in 1 .. Len(ss) => flatten[1] = ss[1]
        BY <2>1
      <3> QED
        BY <2>2, <3>1
    <2>4. ASSUME NEW n \in K PROVE n + 1 \in K
      <3> SUFFICES ASSUME n + 2 \in 1 .. Len(ss) PROVE Joins(n + 2)
        OBVIOUS
      <3>1. n \in Nat /\ n + 1 \in 1 .. Len(ss) /\ Joins(n + 1)
        BY <2>2, <2>4
      <3>2. PICK m \in 1 .. Len(ss) : m = n + 2 /\ m # 1 /\ m - 1 = n + 1
        BY <3>1
      <3>3. flatten[m] = flatten[m - 1] \o ss[m]
        BY <2>1, <3>2, Zenon
      <3>4. flatten[n + 2] = flatten[n + 1] \o ss[n + 2] /\ ss[n + 2] \in Seq(V)
        BY <2>2, <3>2, <3>3
      <3>5. ~ (v \in ToSet(flatten[n + 1]) /\ v \in ToSet(ss[n + 2]))
        BY <3>1
      <3>6. AtMostOnce(flatten[n + 2], v)
        BY <3>1, <3>4, <3>5, ConcatOnce
      <3>7. ToSet(flatten[n + 2]) = ToSet(flatten[n + 1]) \cup ToSet(ss[n + 2])
        BY <3>1, <3>4, ConcatElements
      <3>8. v \in ToSet(flatten[n + 2]) => \E i \in 1 .. n + 2 : v \in ToSet(ss[i])
        BY <3>1, <3>7
      <3>9. flatten[n + 2] \in Seq(V)
        BY <3>1, <3>4
      <3> QED
        BY <3>6, <3>8, <3>9
    <2>5. K = Nat
      <3>1. K \in SUBSET Nat
        OBVIOUS
      <3> HIDE DEF K
      <3> QED
        BY <2>3, <2>4, <3>1, Induction
    <2>6. Joins(Len(ss))
      <3>1. Len(ss) - 1 \in Nat /\ Len(ss) - 1 + 1 = Len(ss) /\ Len(ss) \in 1 .. Len(ss)
        BY <1>2, <2>2
      <3> HIDE DEF Joins
      <3>2. \A n \in K : n + 1 \in 1 .. Len(ss) => Joins(n + 1)
        OBVIOUS
      <3> HIDE DEF K
      <3>3. Len(ss) - 1 \in K
        BY <2>5, <3>1
      <3>4. Joins(Len(ss) - 1 + 1)
        BY <3>1, <3>2, <3>3
      <3> QED
        BY <3>1, <3>4
    <2> QED
      BY <2>1, <2>6
  <1> QED
    BY <1>1, <1>2

LEMMA OnlyOnce ==
  ASSUME NEW V, NEW s \in Seq(V), NEW S, NEW v, AtMostOnce(s, v)
  PROVE  AtMostOnce(Only(s, S), v)
  <1> DEFINE ss == [n \in DOMAIN s |-> IF s[n] \in S THEN <<s[n]>> ELSE <<>>]
  <1>1. Len(s) \in Nat /\ DOMAIN s = 1 .. Len(s) /\ \A n \in 1 .. Len(s) : s[n] \in V
    OBVIOUS
  <1>2. \A n \in 1 .. Len(s) : ss[n] \in Seq(V)
    BY <1>1
  <1>3. ss \in Seq(Seq(V)) /\ Len(ss) = Len(s)
    BY <1>1, <1>2
  <1>4. Only(s, S) = FlattenSeq(ss)
    BY DEF Only
  <1>5. ASSUME NEW n \in 1 .. Len(s)
        PROVE  AtMostOnce(ss[n], v) /\ (v \in ToSet(ss[n]) => v = s[n])
    <2>1. CASE s[n] \in S
      <3>1. ss[n] = <<s[n]>> /\ DOMAIN ss[n] = {1}
        BY <1>1, <2>1
      <3> QED
        BY <3>1 DEF ToSet, AtMostOnce
    <2>2. CASE s[n] \notin S
      <3>1. ss[n] = <<>> /\ DOMAIN ss[n] = {}
        BY <1>1, <2>2
      <3> QED
        BY <3>1 DEF ToSet, AtMostOnce
    <2> QED
      BY <2>1, <2>2
  <1> HIDE DEF ss
  <1>6. \A i, j \in 1 .. Len(ss) : v \in ToSet(ss[i]) /\ v \in ToSet(ss[j]) => i = j
    BY <1>1, <1>3, <1>5 DEF AtMostOnce
  <1> QED
    BY <1>3, <1>4, <1>5, <1>6, FlattenOnce

(***************************************************************************)
(* A transfer is there once after a scan, if it was there once before, was *)
(* found once, and was not both kept and found.                            *)
(***************************************************************************)
LEMMA UpdatedOnce ==
  ASSUME NEW Index, NEW inv \in InvoiceType(Index), NEW found \in Seq(FoundType(Index)),
         NEW deepest, NEW top \in Nat, NEW t \in ToSet(Updated(inv, found, deepest, top).transfers),
         t \in ToSet(inv.transfers) => AtMostOnce(inv.transfers, t),
         \A f \in ToSet(found) : Mine(inv, f) /\ t = Transfer(f.amount, f.height) =>
           /\ AtMostOnce(found, f)
           /\ t \in ToSet(inv.transfers) => ~ Before(t.height, deepest)
  PROVE  AtMostOnce(Updated(inv, found, deepest, top).transfers, t)
  <1> DEFINE kept == {u \in ToSet(inv.transfers) : Before(u.height, deepest)}
             those == {f \in ToSet(found) : Mine(inv, f)}
             old == Only(inv.transfers, kept)
             mine == Only(found, those)
             fresh == [n \in DOMAIN mine |-> Transfer(mine[n].amount, mine[n].height)]
             new == [inv EXCEPT !.transfers = old \o fresh, !.current_height = top + 1]
             result == Updated(inv, found, deepest, top)
  <1>1. inv.transfers \in Seq(TransferType)
    BY DEF InvoiceType
  <1>2. result = IF SameInvoice(new, inv) THEN inv ELSE Recomputed(new)
    BY DEF Updated
  <1>3. old \in Seq(TransferType) /\ ToSet(old) = kept
    BY <1>1, OnlyThose
  <1>4. mine \in Seq(FoundType(Index)) /\ ToSet(mine) = those
    BY OnlyThose
  <1>5. t \in ToSet(inv.transfers) => AtMostOnce(old, t)
    BY <1>1, OnlyOnce
  <1>6. \A f : AtMostOnce(found, f) => AtMostOnce(mine, f)
    BY OnlyOnce
  <1> HIDE DEF mine, old
  <1>7. /\ Len(mine) \in Nat /\ DOMAIN mine = 1 .. Len(mine)
        /\ \A n \in 1 .. Len(mine) : mine[n] \in FoundType(Index) /\ mine[n] \in those
    <2>1. Len(mine) \in Nat /\ DOMAIN mine = 1 .. Len(mine)
      BY <1>4
    <2>2. \A n \in 1 .. Len(mine) : mine[n] \in ToSet(mine)
      BY <2>1 DEF ToSet
    <2> QED
      BY <1>4, <2>1, <2>2
  <1>8. fresh \in Seq(TransferType) /\ DOMAIN fresh = 1 .. Len(mine)
    <2>1. \A n \in 1 .. Len(mine) : Transfer(mine[n].amount, mine[n].height) \in TransferType
      BY <1>7 DEF FoundType, TransferType, Transfer
    <2> QED
      BY <1>7, <2>1
  <1>9. \A n \in 1 .. Len(mine) :
          fresh[n] = t => t = Transfer(mine[n].amount, mine[n].height)
    BY <1>7
  <1>10. t \in ToSet(fresh) => \E f \in those : t = Transfer(f.amount, f.height)
    BY <1>7, <1>8, <1>9 DEF ToSet
  <1>11. \A m, n \in 1 .. Len(mine) : fresh[m] = t /\ fresh[n] = t => mine[m] = mine[n]
    BY <1>7, <1>9 DEF FoundType, Transfer, Mine
  <1> HIDE DEF fresh
  <1>12. AtMostOnce(fresh, t)
    <2> SUFFICES ASSUME NEW m \in 1 .. Len(mine), NEW n \in 1 .. Len(mine),
                        fresh[m] = t, fresh[n] = t
                 PROVE  m = n
      BY <1>8 DEF AtMostOnce
    <2>1. mine[m] = mine[n] /\ mine[m] \in those /\ t = Transfer(mine[m].amount, mine[m].height)
      BY <1>7, <1>9, <1>11
    <2>2. AtMostOnce(mine, mine[m])
      BY <1>6, <2>1
    <2> QED
      BY <1>7, <2>1, <2>2 DEF AtMostOnce
  <1>13. ~ (t \in ToSet(old) /\ t \in ToSet(fresh))
    BY <1>3, <1>10
  <1>14. AtMostOnce(old, t)
    <2>1. CASE t \in ToSet(inv.transfers)
      BY <1>5, <2>1
    <2>2. CASE t \notin ToSet(inv.transfers)
      <3>1. t \notin ToSet(old)
        BY <1>3, <2>2
      <3> QED
        BY <3>1 DEF AtMostOnce, ToSet
    <2> QED
      BY <2>1, <2>2
  <1>15. AtMostOnce(old \o fresh, t)
    BY <1>3, <1>8, <1>12, <1>13, <1>14, ConcatOnce
  <1>16. new.transfers = old \o fresh
    BY DEF InvoiceType
  <1> HIDE DEF new
  <1>17. CASE SameInvoice(new, inv)
    BY <1>2, <1>17
  <1>18. CASE ~ SameInvoice(new, inv)
    <2>1. result.transfers = new.transfers
      BY <1>2, <1>18 DEF Recomputed
    <2> QED
      BY <1>15, <1>16, <2>1
  <1> QED
    BY <1>17, <1>18
------------------------------------------------------------------------------
(***************************************************************************)
(* Sums: the transfers of an invoice, one by one, and the weights of the   *)
(* elements of a set, taken in any order.                                  *)
(***************************************************************************)
\* The sums of the beginnings of a sequence.
LEMMA PartSums ==
  ASSUME NEW f \in Seq(TransferType)
  PROVE  \E sum \in [0 .. Len(f) -> Nat] :
           /\ sum[0] = 0
           /\ \A n \in 1 .. Len(f) : sum[n] = sum[n - 1] + f[n].amount
           /\ SumOf(f) = sum[Len(f)]
           /\ \A n \in 0 .. Len(f) : SumOf(SubSeq(f, 1, n)) = sum[n]
  <1>1. Len(f) \in Nat /\ \A i \in 1 .. Len(f) : f[i].amount \in Nat
    <2>1. \A i \in 1 .. Len(f) : f[i] \in TransferType
      OBVIOUS
    <2> QED
      BY <2>1 DEF TransferType
  <1>2. PICK sum \in [0 .. Len(f) -> Nat] :
          /\ sum[0] = 0
          /\ \A n \in 1 .. Len(f) : sum[n] = sum[n - 1] + f[n].amount
          /\ SumOf(f) = sum[Len(f)]
    BY <1>1, SumSteps
  <1>3. ASSUME NEW n \in 0 .. Len(f) PROVE SumOf(SubSeq(f, 1, n)) = sum[n]
    <2> DEFINE g == SubSeq(f, 1, n)
    <2>1. Len(g) = n /\ n \in Nat /\ \A i \in 1 .. n : g[i] = f[i]
      BY <1>1, <1>3
    <2> HIDE DEF g
    <2>2. \A i \in 1 .. n : g[i].amount \in Nat
      BY <1>1, <1>3, <2>1
    <2>3. PICK part \in [0 .. n -> Nat] :
            /\ part[0] = 0
            /\ \A m \in 1 .. n : part[m] = part[m - 1] + g[m].amount
            /\ SumOf(g) = part[n]
      BY <2>1, <2>2, SumSteps
    <2>4. \A m \in 1 .. n : /\ sum[m] = sum[m - 1] + f[m].amount
                            /\ part[m] = part[m - 1] + f[m].amount
      BY <1>1, <1>2, <1>3, <2>1, <2>3
    <2> DEFINE K == {m \in Nat : m <= n => sum[m] = part[m]}
    <2>5. 0 \in K /\ K \in SUBSET Nat
      BY <1>2, <2>3
    <2>6. ASSUME NEW m \in K PROVE m + 1 \in K
      <3>1. ASSUME m + 1 <= n PROVE sum[m + 1] = part[m + 1]
        <4>1. m + 1 \in 1 .. n /\ (m + 1) - 1 = m /\ sum[m] = part[m]
          BY <2>1, <3>1
        <4> QED
          BY <2>4, <4>1
      <3> QED
        BY <3>1
    <2>7. sum[n] = part[n]
      <3> HIDE DEF K
      <3>1. K = Nat
        BY <2>5, <2>6, Induction
      <3> QED
        BY <2>1, <3>1 DEF K
    <2> QED
      BY <2>3, <2>7 DEF g
  <1> QED
    BY <1>2, <1>3

\* The element that a fold over a set takes first.
Some(T) == CHOOSE x \in T : TRUE

\* tot folds the weights of the elements of a set up to their sum.
FoldsUp(tot, S, w) ==
  tot = [T \in SUBSET S |-> IF T = {} THEN 0 ELSE w[Some(T)] + tot[T \ {Some(T)}]]

\* Such a function exists, however the elements are chosen.
LEMMA SetSumExists ==
  ASSUME NEW S, IsFiniteSet(S), NEW w \in [S -> Nat]
  PROVE  \E tot : FoldsUp(tot, S, w) /\ tot \in [SUBSET S -> Nat]
  <1> DEFINE Small(n) == {T \in SUBSET S : Cardinality(T) <= n}
             rest(T) == T \ {Some(T)}
             Good(n, g) == g \in [Small(n) -> Nat]
                           /\ \A T \in Small(n) : g[T] = IF T = {} THEN 0 ELSE w[Some(T)] + g[rest(T)]
             K == {n \in Nat : \E g : Good(n, g)}
  <1>1. \A T \in SUBSET S : /\ IsFiniteSet(T) /\ Cardinality(T) \in Nat
                            /\ Cardinality(T) = 0 <=> T = {}
    BY FS_Subset, FS_CardinalityType, FS_EmptySet
  <1>2. \A T \in SUBSET S : T # {} =>
          /\ Some(T) \in S /\ w[Some(T)] \in Nat
          /\ rest(T) \in SUBSET S /\ Cardinality(rest(T)) = Cardinality(T) - 1
    <2> TAKE T \in SUBSET S
    <2> HAVE T # {}
    <2>1. Some(T) \in T
      BY DEF Some
    <2>2. Cardinality(T \ {Some(T)}) = Cardinality(T) - 1
      BY <1>1, <2>1, FS_RemoveElement
    <2> QED
      BY <2>1, <2>2
  <1>3. 0 \in K
    <2>1. Good(0, [T \in Small(0) |-> 0])
      <3>1. \A T \in Small(0) : T = {}
        BY <1>1
      <3> QED
        BY <3>1
    <2> QED
      BY <2>1
  <1>4. ASSUME NEW n \in K PROVE n + 1 \in K
    <2>1. n \in Nat
      OBVIOUS
    <2>2. PICK g : Good(n, g)
      OBVIOUS
    <2> DEFINE h == [T \in Small(n + 1) |-> IF T = {} THEN 0 ELSE w[Some(T)] + g[rest(T)]]
    <2>3. \A T \in Small(n + 1) : T # {} => rest(T) \in Small(n)
      BY <1>1, <1>2, <2>1
    <2> HIDE DEF rest
    <2>4. h \in [Small(n + 1) -> Nat]
      BY <1>2, <2>2, <2>3
    <2>5. \A T \in Small(n) : T \in Small(n + 1) /\ h[T] = g[T]
      BY <1>1, <2>1, <2>2
    <2>6. \A T \in Small(n + 1) : h[T] = IF T = {} THEN 0 ELSE w[Some(T)] + h[rest(T)]
      <3> TAKE T \in Small(n + 1)
      <3>1. h[T] = IF T = {} THEN 0 ELSE w[Some(T)] + g[rest(T)]
        OBVIOUS
      <3>2. T # {} => h[rest(T)] = g[rest(T)]
        BY <2>3, <2>5
      <3> HIDE DEF h
      <3> QED
        BY <3>1, <3>2
    <2> HIDE DEF h, Small
    <2>7. Good(n + 1, h)
      BY <2>4, <2>6
    <2> HIDE DEF Good
    <2>8. \E f : Good(n + 1, f)
      BY <2>7
    <2>9. n + 1 \in Nat
      BY <2>1
    <2> QED
      BY <2>8, <2>9
  <1>5. K = Nat
    <2>1. K \in SUBSET Nat
      OBVIOUS
    <2> HIDE DEF K
    <2> QED
      BY <1>3, <1>4, <2>1, Induction
  <1>6. PICK g : Good(Cardinality(S), g)
    <2>1. Cardinality(S) \in K
      <3> HIDE DEF K
      <3> QED
        BY <1>1, <1>5
    <2> QED
      BY <2>1
  <1>7. Small(Cardinality(S)) = SUBSET S
    BY FS_Subset
  <1> DEFINE h == [T \in SUBSET S |-> IF T = {} THEN 0 ELSE w[Some(T)] + g[rest(T)]]
  <1>8. g \in [SUBSET S -> Nat] /\ \A T \in SUBSET S : g[T] = h[T]
    <2> HIDE DEF Small
    <2> QED
      BY <1>6, <1>7
  <1>9. g = h
    BY <1>8
  <1>10. FoldsUp(g, S, w)
    BY <1>9 DEF FoldsUp
  <1> HIDE DEF h
  <1> QED
    BY <1>8, <1>10

\* tot adds up weights over the subsets of S, whichever element is taken first.
Adds(tot, S, w) ==
  /\ tot \in [SUBSET S -> Nat] /\ tot[{}] = 0
  /\ \A T \in SUBSET S : \A x \in T : tot[T] = w[x] + tot[T \ {x}]

LEMMA AnyOrder ==
  ASSUME NEW S, IsFiniteSet(S), NEW w \in [S -> Nat], NEW tot \in [SUBSET S -> Nat],
         \A T \in SUBSET S : tot[T] = IF T = {} THEN 0 ELSE w[Some(T)] + tot[T \ {Some(T)}]
  PROVE  Adds(tot, S, w)
  <1> DEFINE K == {n \in Nat : \A T \in SUBSET S : Cardinality(T) = n =>
                     \A x \in T : tot[T] = w[x] + tot[T \ {x}]}
  <1>1. \A T \in SUBSET S : /\ IsFiniteSet(T) /\ Cardinality(T) \in Nat
                            /\ Cardinality(T) = 0 <=> T = {}
                            /\ \A x \in T : Cardinality(T \ {x}) = Cardinality(T) - 1
    BY FS_Subset, FS_CardinalityType, FS_EmptySet, FS_RemoveElement
  <1>2. 0 \in K /\ K \in SUBSET Nat
    BY <1>1
  <1>3. ASSUME NEW n \in K PROVE n + 1 \in K
    <2>1. ASSUME NEW T \in SUBSET S, Cardinality(T) = n + 1, NEW x \in T
          PROVE  tot[T] = w[x] + tot[T \ {x}]
      <3> DEFINE y == Some(T)
      <3>1. y \in T /\ tot[T] = w[y] + tot[T \ {y}]
        BY DEF Some
      <3> HIDE DEF y
      <3>2. CASE x # y
        <4> DEFINE less(U, v) == U \ {v}
        <4>1. x \in less(T, y) /\ y \in less(T, x) /\ less(less(T, y), x) = less(less(T, x), y)
          BY <3>1, <3>2
        <4>2. Cardinality(less(T, y)) = n /\ Cardinality(less(T, x)) = n
          BY <1>1, <2>1, <3>1
        <4>3. /\ tot[less(T, y)] = w[x] + tot[less(less(T, y), x)]
              /\ tot[less(T, x)] = w[y] + tot[less(less(T, x), y)]
          BY <4>1, <4>2
        <4>4. w[x] \in Nat /\ w[y] \in Nat /\ tot[less(less(T, x), y)] \in Nat
          BY <3>1
        <4>5. tot[T] = w[y] + tot[less(T, y)]
          BY <3>1
        <4> HIDE DEF K, less
        <4>6. tot[T] = w[x] + tot[less(T, x)]
          BY <4>1, <4>3, <4>4, <4>5
        <4> QED
          BY <4>6 DEF less
      <3> QED
        BY <3>1, <3>2
    <2> QED
      BY <2>1
  <1>4. K = Nat
    <2> HIDE DEF K
    <2> QED
      BY <1>2, <1>3, Induction
  <1>5. ASSUME NEW T \in SUBSET S, NEW x \in T PROVE tot[T] = w[x] + tot[T \ {x}]
    <2>1. Cardinality(T) \in K
      <3> HIDE DEF K
      <3> QED
        BY <1>1, <1>4
    <2> QED
      BY <2>1
  <1> QED
    BY <1>5 DEF Adds

\* So does every function that satisfies the equation of the fold.
LEMMA SetSumAdds ==
  ASSUME NEW S, IsFiniteSet(S), NEW w \in [S -> Nat], NEW tot, FoldsUp(tot, S, w)
  PROVE  Adds(tot, S, w)
  <1> DEFINE K == {n \in Nat : \A T \in SUBSET S : Cardinality(T) = n => tot[T] \in Nat}
  <1>1. \A T \in SUBSET S : tot[T] = IF T = {} THEN 0 ELSE w[Some(T)] + tot[T \ {Some(T)}]
    <2> DEFINE body(T) == IF T = {} THEN 0 ELSE w[Some(T)] + tot[T \ {Some(T)}]
    <2>1. tot = [T \in SUBSET S |-> body(T)]
      BY DEF FoldsUp
    <2> HIDE DEF body
    <2>2. \A T \in SUBSET S : tot[T] = body(T)
      BY <2>1
    <2> QED
      BY <2>2 DEF body
  <1>2. \A T \in SUBSET S : /\ IsFiniteSet(T) /\ Cardinality(T) \in Nat
                            /\ Cardinality(T) = 0 <=> T = {}
                            /\ \A x \in T : Cardinality(T \ {x}) = Cardinality(T) - 1
    BY FS_Subset, FS_CardinalityType, FS_EmptySet, FS_RemoveElement
  <1>3. 0 \in K /\ K \in SUBSET Nat
    <2>1. \A T \in SUBSET S : Cardinality(T) = 0 => tot[T] \in Nat
      <3> TAKE T \in SUBSET S
      <3>1. Cardinality(T) = 0 <=> T = {}
        BY <1>2
      <3>2. tot[T] = IF T = {} THEN 0 ELSE w[Some(T)] + tot[T \ {Some(T)}]
        BY <1>1
      <3>3. T = {} => tot[T] = 0
        BY <3>2, Zenon
      <3> QED
        BY <3>1, <3>3
    <2> QED
      BY <2>1
  <1>4. ASSUME NEW n \in K PROVE n + 1 \in K
    <2>1. n \in Nat /\ \A T \in SUBSET S : Cardinality(T) = n => tot[T] \in Nat
      OBVIOUS
    <2> HIDE DEF K
    <2>2. ASSUME NEW T \in SUBSET S, Cardinality(T) = n + 1 PROVE tot[T] \in Nat
      <3>1. T # {}
        BY <1>2, <2>1, <2>2
      <3>2. Some(T) \in T
        BY <3>1 DEF Some
      <3>3. tot[T] = w[Some(T)] + tot[T \ {Some(T)}]
        BY <1>1, <3>1, Zenon
      <3> DEFINE x == Some(T)
                 U == T \ {x}
      <3>4. x \in S /\ U \in SUBSET S /\ Cardinality(U) = n
        BY <1>2, <2>1, <2>2, <3>2
      <3>5. tot[T] = w[x] + tot[U]
        BY <3>3
      <3> HIDE DEF x, U
      <3> QED
        BY <2>1, <3>4, <3>5
    <2> QED
      BY <2>1, <2>2 DEF K
  <1>5. \A T \in SUBSET S : tot[T] \in Nat
    <2> TAKE T \in SUBSET S
    <2>1. \A n \in K : \A U \in SUBSET S : Cardinality(U) = n => tot[U] \in Nat
      OBVIOUS
    <2> HIDE DEF K
    <2>2. Cardinality(T) \in K
      BY <1>2, <1>3, <1>4, Induction
    <2> QED
      BY <2>1, <2>2
  <1>6. tot \in [SUBSET S -> Nat]
    <2> DEFINE body(T) == IF T = {} THEN 0 ELSE w[Some(T)] + tot[T \ {Some(T)}]
    <2>1. tot = [T \in SUBSET S |-> body(T)]
      BY DEF FoldsUp
    <2> HIDE DEF body
    <2> QED
      BY <1>5, <2>1
  <1> QED
    BY <1>1, <1>6, AnyOrder

\* A part of a set weighs no more than the whole.
LEMMA PartWeighsLess ==
  ASSUME NEW S, IsFiniteSet(S), NEW w \in [S -> Nat], NEW tot, Adds(tot, S, w), NEW T \in SUBSET S
  PROVE  tot[T] <= tot[S]
  <1> DEFINE K == {n \in Nat : \A U \in SUBSET S : Cardinality(S \ U) = n => tot[U] <= tot[S]}
  <1>1. \A U \in SUBSET S : /\ Cardinality(S \ U) \in Nat
                            /\ Cardinality(S \ U) = 0 => U = S
                            /\ \A x \in S \ U : Cardinality((S \ U) \ {x}) = Cardinality(S \ U) - 1
    <2> TAKE U \in SUBSET S
    <2>1. IsFiniteSet(S \ U)
      BY FS_Difference
    <2> QED
      BY <2>1, FS_CardinalityType, FS_EmptySet, FS_RemoveElement
  <1>2. \A U \in SUBSET S : tot[U] \in Nat
    BY DEF Adds
  <1>3. 0 \in K /\ K \in SUBSET Nat
    BY <1>1, <1>2
  <1>4. ASSUME NEW n \in K PROVE n + 1 \in K
    <2>1. ASSUME NEW U \in SUBSET S, Cardinality(S \ U) = n + 1
          PROVE  tot[U] <= tot[S]
      <3>1. PICK x \in S : x \notin U
        <4>1. S # U
          <5>1. Cardinality(S \ S) = 0
            <6>1. S \ S = {}
              OBVIOUS
            <6> QED
              BY <6>1, FS_EmptySet
          <5>2. n + 1 # 0
            OBVIOUS
          <5> QED
            BY <2>1, <5>1, <5>2
        <4> QED
          BY <4>1
      <3>2. U \cup {x} \in SUBSET S /\ S \ (U \cup {x}) = (S \ U) \ {x} /\ (U \cup {x}) \ {x} = U
        BY <3>1
      <3>3. Cardinality(S \ (U \cup {x})) = n
        BY <1>1, <2>1, <3>1, <3>2
      <3>4. tot[U \cup {x}] <= tot[S]
        BY <3>2, <3>3
      <3>5. tot[U \cup {x}] = w[x] + tot[U]
        BY <3>2 DEF Adds
      <3> HIDE DEF K
      <3> QED
        BY <1>2, <3>2, <3>4, <3>5
    <2> QED
      BY <2>1
  <1>5. Cardinality(S \ T) \in K
    <2> HIDE DEF K
    <2>1. K = Nat
      BY <1>3, <1>4, Induction
    <2> QED
      BY <1>1, <2>1
  <1> QED
    BY <1>5

\* The sums of the beginnings of a sequence grow by one transfer at a time.
LEMMA NextSum ==
  ASSUME NEW f \in Seq(TransferType)
  PROVE  \E sum \in [0 .. Len(f) -> Nat] :
           /\ sum[0] = 0
           /\ \A m \in Nat : m < Len(f) => /\ f[m + 1].amount \in Nat
                                           /\ sum[m + 1] = sum[m] + f[m + 1].amount
           /\ \A m \in 0 .. Len(f) : SumOf(SubSeq(f, 1, m)) = sum[m]
  <1>1. PICK sum \in [0 .. Len(f) -> Nat] :
          /\ sum[0] = 0
          /\ \A m \in 1 .. Len(f) : sum[m] = sum[m - 1] + f[m].amount
          /\ SumOf(f) = sum[Len(f)]
          /\ \A m \in 0 .. Len(f) : SumOf(SubSeq(f, 1, m)) = sum[m]
    BY PartSums
  <1>2. Len(f) \in Nat /\ \A i \in 1 .. Len(f) : f[i].amount \in Nat
    <2>1. \A i \in 1 .. Len(f) : f[i] \in TransferType
      OBVIOUS
    <2> QED
      BY <2>1 DEF TransferType
  <1>3. ASSUME NEW m \in Nat, m < Len(f)
        PROVE  f[m + 1].amount \in Nat /\ sum[m + 1] = sum[m] + f[m + 1].amount
    <2>1. PICK k \in 1 .. Len(f) : k = m + 1 /\ k - 1 = m
      BY <1>2, <1>3
    <2>2. sum[k] = sum[k - 1] + f[k].amount
      BY <1>1, Zenon
    <2> QED
      BY <1>2, <2>1, <2>2
  <1> QED
    BY <1>1, <1>3

\* Transfers that stand for different elements of a set amount to no more than it.
LEMMA SumWithin ==
  ASSUME NEW S, IsFiniteSet(S), NEW w \in [S -> Nat], NEW tot, Adds(tot, S, w),
         NEW f \in Seq(TransferType), NEW n \in 0 .. Len(f), NEW g \in [1 .. n -> S],
         \A i, j \in 1 .. n : g[i] = g[j] => i = j,
         \A i \in 1 .. n : f[i].amount = w[g[i]]
  PROVE  SumOf(SubSeq(f, 1, n)) <= tot[S]
  <1>1. PICK sum \in [0 .. Len(f) -> Nat] :
          /\ sum[0] = 0
          /\ \A m \in Nat : m < Len(f) => /\ f[m + 1].amount \in Nat
                                          /\ sum[m + 1] = sum[m] + f[m + 1].amount
          /\ \A m \in 0 .. Len(f) : SumOf(SubSeq(f, 1, m)) = sum[m]
    BY NextSum
  <1> DEFINE img(m) == {g[i] : i \in 1 .. m}
             K == {m \in Nat : m <= n => sum[m] = tot[img(m)]}
  <1>2. Len(f) \in Nat /\ n \in Nat /\ n <= Len(f)
    OBVIOUS
  <1>3. 0 \in K /\ K \in SUBSET Nat
    <2>1. img(0) = {}
      OBVIOUS
    <2> HIDE DEF img
    <2> QED
      BY <1>1, <2>1 DEF Adds
  <1>4. ASSUME NEW m \in K PROVE m + 1 \in K
    <2>1. m \in Nat /\ (m <= n => sum[m] = tot[img(m)])
      OBVIOUS
    <2> HIDE DEF K
    <2>2. ASSUME m + 1 <= n PROVE sum[m + 1] = tot[img(m + 1)]
      <3>1. m + 1 \in 1 .. n /\ m < Len(f) /\ sum[m] = tot[img(m)]
        <4> HIDE DEF img
        <4> QED
          BY <1>2, <2>1, <2>2
      <3>2. sum[m + 1] = sum[m] + f[m + 1].amount
        BY <1>1, <2>1, <3>1, Zenon
      <3>3. img(m + 1) \in SUBSET S /\ g[m + 1] \in img(m + 1)
        BY <2>1, <2>2, <3>1
      <3>4. img(m + 1) \ {g[m + 1]} = img(m)
        <4>1. \A i \in 1 .. m + 1 : i \in 1 .. m \/ i = m + 1
          BY <2>1
        <4>2. \A i \in 1 .. m : i \in 1 .. m + 1 /\ g[i] # g[m + 1]
          <5> TAKE i \in 1 .. m
          <5>1. i \in 1 .. n /\ i # m + 1 /\ i \in 1 .. m + 1
            BY <2>1, <2>2
          <5> QED
            BY <3>1, <5>1
        <4> QED
          BY <4>1, <4>2
      <3> HIDE DEF img
      <3>5. tot[img(m + 1)] = w[g[m + 1]] + tot[img(m)]
        BY <3>3, <3>4 DEF Adds
      <3>6. f[m + 1].amount = w[g[m + 1]]
        BY <3>1
      <3>7. w[g[m + 1]] \in Nat /\ tot[img(m)] \in Nat
        <4>1. img(m) \in SUBSET S
          BY <3>3, <3>4
        <4> QED
          BY <3>1, <4>1 DEF Adds
      <3> QED
        BY <3>1, <3>2, <3>5, <3>6, <3>7
    <2> QED
      BY <2>1, <2>2 DEF K
  <1>5. sum[n] = tot[img(n)]
    <2>1. n \in K
      <3> HIDE DEF K
      <3> QED
        BY <1>2, <1>3, <1>4, Induction
    <2> HIDE DEF img
    <2> QED
      BY <1>2, <2>1
  <1>6. img(n) \in SUBSET S
    OBVIOUS
  <1> HIDE DEF img, K
  <1>7. tot[img(n)] <= tot[S]
    BY <1>6, PartWeighsLess
  <1> QED
    BY <1>1, <1>5, <1>7

\* A set whose elements have different transfers amounts to no more than these.
LEMMA SumBeyond ==
  ASSUME NEW S, IsFiniteSet(S), NEW w \in [S -> Nat], NEW tot, Adds(tot, S, w),
         NEW f \in Seq(TransferType), NEW n \in 0 .. Len(f), NEW g \in [S -> 1 .. n],
         \A x, y \in S : g[x] = g[y] => x = y,
         \A x \in S : w[x] = f[g[x]].amount
  PROVE  tot[S] <= SumOf(SubSeq(f, 1, n))
  <1>1. PICK sum \in [0 .. Len(f) -> Nat] :
          /\ sum[0] = 0
          /\ \A m \in Nat : m < Len(f) => /\ f[m + 1].amount \in Nat
                                          /\ sum[m + 1] = sum[m] + f[m + 1].amount
          /\ \A m \in 0 .. Len(f) : SumOf(SubSeq(f, 1, m)) = sum[m]
    BY NextSum
  <1> DEFINE upto(m) == {x \in S : g[x] <= m}
             K == {m \in Nat : m <= n => tot[upto(m)] <= sum[m]}
  <1>2. Len(f) \in Nat /\ n \in Nat /\ n <= Len(f)
    OBVIOUS
  <1>3. 0 \in K /\ K \in SUBSET Nat
    <2>1. upto(0) = {}
      OBVIOUS
    <2> HIDE DEF upto
    <2>2. tot[{}] = 0 /\ sum[0] = 0
      BY <1>1 DEF Adds
    <2>3. tot[upto(0)] = 0
      BY <2>1, <2>2
    <2>4. tot[upto(0)] <= sum[0]
      BY <2>2, <2>3
    <2> QED
      BY <2>4
  <1>4. ASSUME NEW m \in K PROVE m + 1 \in K
    <2>1. m \in Nat /\ (m <= n => tot[upto(m)] <= sum[m])
      OBVIOUS
    <2> HIDE DEF K
    <2>2. ASSUME m + 1 <= n PROVE tot[upto(m + 1)] <= sum[m + 1]
      <3>1. m \in 0 .. Len(f) /\ m < Len(f) /\ tot[upto(m)] <= sum[m]
        <4> HIDE DEF upto
        <4> QED
          BY <1>2, <2>1, <2>2
      <3>2. sum[m + 1] = sum[m] + f[m + 1].amount /\ f[m + 1].amount \in Nat
        BY <1>1, <2>1, <3>1, Zenon
      <3>3. sum[m] \in Nat
        BY <3>1
      <3>4. upto(m + 1) \in SUBSET S /\ upto(m) \in SUBSET S /\ tot[upto(m)] \in Nat
        BY DEF Adds
      <3>5. CASE \E x \in S : g[x] = m + 1
        <4>1. PICK x \in S : g[x] = m + 1
          BY <3>5
        <4>2. x \in upto(m + 1) /\ upto(m + 1) \ {x} = upto(m)
          <5>1. \A y \in S : g[y] \in Int /\ (g[y] = m + 1 => y = x)
            BY <4>1
          <5>2. \A y \in S : g[y] <= m + 1 <=> g[y] <= m \/ y = x
            BY <2>1, <4>1, <5>1
          <5>3. ~ (g[x] <= m)
            BY <2>1, <4>1
          <5> QED
            BY <4>1, <5>2, <5>3
        <4> HIDE DEF upto
        <4>3. tot[upto(m + 1)] = w[x] + tot[upto(m)]
          BY <3>4, <4>2 DEF Adds
        <4>4. w[x] = f[m + 1].amount
          BY <4>1
        <4> QED
          BY <3>1, <3>2, <3>3, <3>4, <4>3, <4>4
      <3>6. CASE ~ \E x \in S : g[x] = m + 1
        <4>1. \A y \in S : g[y] \in Int /\ g[y] # m + 1
          BY <3>6
        <4>2. upto(m + 1) = upto(m)
          BY <2>1, <4>1
        <4> HIDE DEF upto
        <4> QED
          BY <3>1, <3>2, <3>3, <3>4, <4>2
      <3> QED
        BY <3>5, <3>6
    <2> HIDE DEF upto
    <2> QED
      BY <2>1, <2>2 DEF K
  <1>5. tot[upto(n)] <= sum[n]
    <2>1. n \in K
      <3> HIDE DEF K
      <3> QED
        BY <1>2, <1>3, <1>4, Induction
    <2> HIDE DEF upto
    <2> QED
      BY <1>2, <2>1
  <1>6. upto(n) = S
    OBVIOUS
  <1> HIDE DEF upto, K
  <1> QED
    BY <1>1, <1>5, <1>6
------------------------------------------------------------------------------
(***************************************************************************)
(* The order of transfers by height.  R is the set of pairs <<a, b>> of    *)
(* heights such that a may stand before b.                                 *)
(***************************************************************************)
Ordered(seq, R) == \A m, n \in DOMAIN seq : m < n => <<seq[m].height, seq[n].height>> \in R

LEMMA ConcatOrdered ==
  ASSUME NEW V, NEW p \in Seq(V), NEW q \in Seq(V), NEW R, Ordered(p, R), Ordered(q, R),
         \A x \in ToSet(p), y \in ToSet(q) : <<x.height, y.height>> \in R
  PROVE  Ordered(p \o q, R)
  <1>1. /\ Len(p \o q) = Len(p) + Len(q) /\ Len(p) \in Nat /\ Len(q) \in Nat
        /\ DOMAIN p = 1 .. Len(p) /\ DOMAIN q = 1 .. Len(q) /\ DOMAIN (p \o q) = 1 .. Len(p \o q)
    OBVIOUS
  <1>2. ASSUME NEW n \in DOMAIN (p \o q)
        PROVE  \/ n \in DOMAIN p /\ (p \o q)[n] = p[n] /\ p[n] \in ToSet(p)
               \/ /\ n > Len(p) /\ n - Len(p) \in DOMAIN q
                  /\ (p \o q)[n] = q[n - Len(p)] /\ q[n - Len(p)] \in ToSet(q)
    <2>1. CASE n <= Len(p)
      BY <1>1, <1>2, <2>1 DEF ToSet
    <2>2. CASE n > Len(p)
      <3>1. n - Len(p) \in DOMAIN q /\ (p \o q)[n] = q[n - Len(p)]
        BY <1>1, <1>2, <2>2
      <3> QED
        BY <2>2, <3>1 DEF ToSet
    <2> QED
      BY <1>1, <2>1, <2>2
  <1> DEFINE pq == p \o q
  <1>3. \A n \in DOMAIN pq : n \in Int /\ Len(p) \in Int /\ (n \in DOMAIN p => n <= Len(p))
    BY <1>1
  <1>4. \A n \in DOMAIN pq : \/ n \in DOMAIN p /\ pq[n] = p[n] /\ p[n] \in ToSet(p)
                             \/ /\ n > Len(p) /\ n - Len(p) \in DOMAIN q
                                /\ pq[n] = q[n - Len(p)] /\ q[n - Len(p)] \in ToSet(q)
    BY <1>2
  <1> HIDE DEF pq
  <1> SUFFICES ASSUME NEW m \in DOMAIN pq, NEW n \in DOMAIN pq, m < n
               PROVE  <<pq[m].height, pq[n].height>> \in R
    BY DEF Ordered, pq
  <1>5. CASE n \in DOMAIN p /\ pq[n] = p[n]
    <2>1. m \in DOMAIN p /\ pq[m] = p[m]
      BY <1>3, <1>4, <1>5
    <2> QED
      BY <1>5, <2>1 DEF Ordered
  <1>6. CASE n > Len(p) /\ n - Len(p) \in DOMAIN q /\ pq[n] = q[n - Len(p)] /\ q[n - Len(p)] \in ToSet(q)
    <2>1. CASE pq[m] = p[m] /\ p[m] \in ToSet(p)
      BY <1>6, <2>1
    <2>2. CASE m > Len(p) /\ m - Len(p) \in DOMAIN q /\ pq[m] = q[m - Len(p)]
      <3>1. m - Len(p) < n - Len(p)
        BY <1>3
      <3> QED
        BY <1>6, <2>2, <3>1 DEF Ordered
    <2> QED
      BY <1>4, <2>1, <2>2
  <1> QED
    BY <1>4, <1>5, <1>6

LEMMA FlattenOrdered ==
  ASSUME NEW V, NEW ss \in Seq(Seq(V)), NEW R, \A i \in 1 .. Len(ss) : Ordered(ss[i], R),
         \A i, j \in 1 .. Len(ss) : i < j =>
           \A x \in ToSet(ss[i]), y \in ToSet(ss[j]) : <<x.height, y.height>> \in R
  PROVE  Ordered(FlattenSeq(ss), R)
  <1>1. CASE Len(ss) = 0
    <2>1. FlattenSeq(ss) = <<>>
      BY <1>1, EmptySeq DEF FlattenSeq
    <2> QED
      BY <2>1 DEF Ordered
  <1>2. CASE Len(ss) # 0
    <2>1. PICK flatten : /\ FlattenSeq(ss) = flatten[Len(ss)]
                         /\ \A i \in 1 .. Len(ss) :
                              flatten[i] = IF i = 1 THEN ss[i] ELSE flatten[i - 1] \o ss[i]
      BY <1>2, FlattenSteps
    <2>2. Len(ss) \in Nat /\ \A i \in 1 .. Len(ss) : ss[i] \in Seq(V)
      OBVIOUS
    <2> DEFINE Joins(n) == /\ flatten[n] \in Seq(V) /\ Ordered(flatten[n], R)
                           /\ \A x \in ToSet(flatten[n]) : \E i \in 1 .. n : x \in ToSet(ss[i])
               K == {n \in Nat : n + 1 \in 1 .. Len(ss) => Joins(n + 1)}
    <2>3. 0 \in K
      <3>1. 1 \in 1 .. Len(ss) => flatten[1] = ss[1]
        BY <2>1
      <3> QED
        BY <2>2, <3>1
    <2>4. ASSUME NEW n \in K PROVE n + 1 \in K
      <3> SUFFICES ASSUME n + 2 \in 1 .. Len(ss) PROVE Joins(n + 2)
        OBVIOUS
      <3>1. n \in Nat /\ n + 1 \in 1 .. Len(ss) /\ Joins(n + 1)
        BY <2>2, <2>4
      <3>2. PICK m \in 1 .. Len(ss) : m = n + 2 /\ m # 1 /\ m - 1 = n + 1
        BY <3>1
      <3>3. flatten[m] = flatten[m - 1] \o ss[m]
        BY <2>1, <3>2, Zenon
      <3>4. flatten[n + 2] = flatten[n + 1] \o ss[n + 2] /\ ss[n + 2] \in Seq(V)
        BY <2>2, <3>2, <3>3
      <3>5. \A x \in ToSet(flatten[n + 1]), y \in ToSet(ss[n + 2]) : <<x.height, y.height>> \in R
        <4> TAKE x \in ToSet(flatten[n + 1]), y \in ToSet(ss[n + 2])
        <4>1. PICK i \in 1 .. n + 1 : x \in ToSet(ss[i])
          BY <3>1
        <4>2. i \in 1 .. Len(ss) /\ n + 2 \in 1 .. Len(ss) /\ i < n + 2
          BY <2>2, <3>1, <4>1
        <4> QED
          BY <4>1, <4>2
      <3>6. Ordered(flatten[n + 2], R)
        BY <2>2, <3>1, <3>4, <3>5, ConcatOrdered
      <3>7. ToSet(flatten[n + 2]) = ToSet(flatten[n + 1]) \cup ToSet(ss[n + 2])
        BY <3>1, <3>4, ConcatElements
      <3>8. \A x \in ToSet(flatten[n + 2]) : \E i \in 1 .. n + 2 : x \in ToSet(ss[i])
        BY <3>1, <3>7
      <3>9. flatten[n + 2] \in Seq(V)
        BY <3>1, <3>4
      <3> QED
        BY <3>6, <3>8, <3>9
    <2>5. K = Nat
      <3>1. K \in SUBSET Nat
        OBVIOUS
      <3> HIDE DEF K
      <3> QED
        BY <2>3, <2>4, <3>1, Induction
    <2>6. Joins(Len(ss))
      <3>1. Len(ss) - 1 \in Nat /\ Len(ss) - 1 + 1 = Len(ss) /\ Len(ss) \in 1 .. Len(ss)
        BY <1>2, <2>2
      <3> HIDE DEF Joins
      <3>2. \A n \in K : n + 1 \in 1 .. Len(ss) => Joins(n + 1)
        OBVIOUS
      <3> HIDE DEF K
      <3>3. Len(ss) - 1 \in K
        BY <2>5, <3>1
      <3>4. Joins(Len(ss) - 1 + 1)
        BY <3>1, <3>2, <3>3
      <3> QED
        BY <3>1, <3>4
    <2> QED
      BY <2>1, <2>6
  <1> QED
    BY <1>1, <1>2

LEMMA OnlyOrdered ==
  ASSUME NEW V, NEW s \in Seq(V), NEW S, NEW R, Ordered(s, R)
  PROVE  Ordered(Only(s, S), R)
  <1> DEFINE ss == [n \in DOMAIN s |-> IF s[n] \in S THEN <<s[n]>> ELSE <<>>]
  <1>1. Len(s) \in Nat /\ DOMAIN s = 1 .. Len(s) /\ \A n \in 1 .. Len(s) : s[n] \in V
    OBVIOUS
  <1>2. \A n \in 1 .. Len(s) : ss[n] \in Seq(V)
    BY <1>1
  <1>3. ss \in Seq(Seq(V)) /\ Len(ss) = Len(s)
    BY <1>1, <1>2
  <1>4. Only(s, S) = FlattenSeq(ss)
    BY DEF Only
  <1>5. ASSUME NEW n \in 1 .. Len(s)
        PROVE  Ordered(ss[n], R) /\ \A x \in ToSet(ss[n]) : x = s[n]
    <2>1. CASE s[n] \in S
      <3>1. ss[n] = <<s[n]>> /\ DOMAIN ss[n] = {1}
        BY <1>1, <2>1
      <3>2. \A i, j \in DOMAIN ss[n] : ~ (i < j)
        BY <3>1
      <3>3. Ordered(ss[n], R)
        BY <3>2 DEF Ordered
      <3> QED
        BY <3>1, <3>3 DEF ToSet
    <2>2. CASE s[n] \notin S
      <3>1. ss[n] = <<>> /\ DOMAIN ss[n] = {}
        BY <1>1, <2>2
      <3> QED
        BY <3>1 DEF ToSet, Ordered
    <2> QED
      BY <2>1, <2>2
  <1> HIDE DEF ss
  <1>6. \A i, j \in 1 .. Len(ss) : i < j =>
          \A x \in ToSet(ss[i]), y \in ToSet(ss[j]) : <<x.height, y.height>> \in R
    BY <1>1, <1>3, <1>5 DEF Ordered
  <1> QED
    BY <1>3, <1>4, <1>5, <1>6, FlattenOrdered

\* new holds what is kept of inv, and then what is found for it, each in its order.
Parts(inv, found, deepest, new, kept, fresh, mine) ==
  /\ new.transfers = kept \o fresh
  /\ \A t \in ToSet(kept) : t \in ToSet(inv.transfers) /\ Before(t.height, deepest)
  /\ ToSet(mine) \subseteq ToSet(found)
  /\ \A R : /\ Ordered(inv.transfers, R) => Ordered(kept, R)
            /\ Ordered(found, R) => Ordered(mine, R)
  /\ DOMAIN fresh = DOMAIN mine
  /\ \A n \in DOMAIN mine : fresh[n].height = mine[n].height

\* An invoice either stays as it is or is computed anew.
LEMMA UpdatedParts ==
  ASSUME NEW Index, NEW inv \in InvoiceType(Index), NEW found \in Seq(FoundType(Index)),
         NEW deepest, NEW top \in Nat, NEW new, new = Updated(inv, found, deepest, top), new # inv
  PROVE  /\ new.amount_requested = inv.amount_requested
         /\ new.amount_paid = SumOf(new.transfers)
         /\ new.paid_height = PaidHeight(new)
         /\ \E kept, fresh \in Seq(TransferType), mine \in Seq(FoundType(Index)) :
              Parts(inv, found, deepest, new, kept, fresh, mine)
  <1> DEFINE those == {t \in ToSet(inv.transfers) : Before(t.height, deepest)}
             wanted == {f \in ToSet(found) : Mine(inv, f)}
             kept == Only(inv.transfers, those)
             mine == Only(found, wanted)
             fresh == [n \in DOMAIN mine |-> Transfer(mine[n].amount, mine[n].height)]
             next == [inv EXCEPT !.transfers = kept \o fresh, !.current_height = top + 1]
  <1>1. new = IF SameInvoice(next, inv) THEN inv ELSE Recomputed(next)
    BY DEF Updated
  <1>2. /\ kept \in Seq(TransferType) /\ mine \in Seq(FoundType(Index))
        /\ \A t \in ToSet(kept) : t \in ToSet(inv.transfers) /\ Before(t.height, deepest)
        /\ ToSet(mine) \subseteq ToSet(found)
        /\ \A R : /\ Ordered(inv.transfers, R) => Ordered(kept, R)
                  /\ Ordered(found, R) => Ordered(mine, R)
    <2>1. inv.transfers \in Seq(TransferType)
      BY DEF InvoiceType
    <2>2. \A t \in those : t \in ToSet(inv.transfers) /\ Before(t.height, deepest)
      OBVIOUS
    <2> HIDE DEF those, wanted
    <2> QED
      BY <2>1, <2>2, OnlyThose, OnlyOrdered
  <1> HIDE DEF kept, mine
  <1>3. fresh \in Seq(TransferType) /\ DOMAIN fresh = DOMAIN mine
    <2>1. /\ Len(mine) \in Nat /\ DOMAIN mine = 1 .. Len(mine)
          /\ \A n \in 1 .. Len(mine) : mine[n] \in FoundType(Index)
      BY <1>2
    <2>2. \A n \in 1 .. Len(mine) : Transfer(mine[n].amount, mine[n].height) \in TransferType
      BY <2>1 DEF FoundType, TransferType, Transfer
    <2> QED
      BY <2>1, <2>2
  <1>4. \A n \in DOMAIN mine : fresh[n].height = mine[n].height
    BY DEF Transfer
  <1> HIDE DEF fresh
  <1>5. next.transfers = kept \o fresh /\ next.amount_requested = inv.amount_requested
    BY DEF InvoiceType
  <1>6. DOMAIN next = DOMAIN inv /\ {"amount_paid", "paid_height", "transfers", "amount_requested"}
                                      \subseteq DOMAIN inv
    BY DEF InvoiceType
  <1> HIDE DEF next
  <1>7. new = Recomputed(next)
    BY <1>1
  <1>8. /\ new.transfers = next.transfers /\ new.amount_requested = next.amount_requested
        /\ new.amount_paid = SumOf(next.transfers) /\ new.paid_height = PaidHeight(next)
    BY <1>6, <1>7 DEF Recomputed
  <1>9. PaidHeight(new) = PaidHeight(next)
    BY <1>8 DEF PaidHeight
  <1> QED
    BY <1>2, <1>3, <1>4, <1>5, <1>8, <1>9 DEF Parts

\* amount_paid and paid_height are those of the transfers.
Reckoned(inv) == inv.amount_paid = SumOf(inv.transfers) /\ inv.paid_height = PaidHeight(inv)

LEMMA NewIsReckoned ==
  ASSUME NEW inv, inv.transfers = <<>>, inv.amount_paid = 0, inv.paid_height = NoHeight
  PROVE  Reckoned(inv) /\ \A R : Ordered(inv.transfers, R)
  <1>1. SumOf(<<>>) = 0
    <2>1. <<>> \in Seq(TransferType) /\ Len(<<>>) = 0
      OBVIOUS
    <2> QED
      BY <2>1, PartSums
  <1>2. PaidHeight(inv) = NoHeight
    <2>1. DOMAIN inv.transfers = {}
      OBVIOUS
    <2> QED
      BY <2>1 DEF PaidHeight
  <1> QED
    BY <1>1, <1>2 DEF Reckoned, Ordered

\* A scan keeps an invoice reckoned, and in order if what it finds is in order
\* and may stand after what is kept.
LEMMA UpdatedReckoned ==
  ASSUME NEW Index, NEW inv \in InvoiceType(Index), NEW found \in Seq(FoundType(Index)),
         NEW deepest, NEW top \in Nat, Reckoned(inv),
         NEW new, new = Updated(inv, found, deepest, top)
  PROVE  Reckoned(new) /\ new.amount_requested = inv.amount_requested
  <1>1. CASE new = inv
    BY <1>1
  <1>2. CASE new # inv
    BY <1>2, UpdatedParts DEF Reckoned
  <1> QED
    BY <1>1, <1>2

LEMMA UpdatedOrdered ==
  ASSUME NEW Index, NEW inv \in InvoiceType(Index), NEW found \in Seq(FoundType(Index)),
         NEW deepest, NEW top \in Nat, NEW R, Ordered(inv.transfers, R), Ordered(found, R),
         \A t \in ToSet(inv.transfers), f \in ToSet(found) :
           Before(t.height, deepest) => <<t.height, f.height>> \in R,
         NEW new, new = Updated(inv, found, deepest, top)
  PROVE  Ordered(new.transfers, R)
  <1>1. CASE new = inv
    BY <1>1
  <1>2. CASE new # inv
    <2>1. PICK kept \in Seq(TransferType), fresh \in Seq(TransferType), mine \in Seq(FoundType(Index)) :
            Parts(inv, found, deepest, new, kept, fresh, mine)
      BY <1>2, UpdatedParts
    <2>2. Ordered(kept, R) /\ Ordered(fresh, R)
      <3>1. Ordered(kept, R) /\ Ordered(mine, R)
        BY <2>1 DEF Parts
      <3> QED
        BY <2>1, <3>1 DEF Ordered, Parts
    <2>3. \A y \in ToSet(fresh) : \E f \in ToSet(found) : y.height = f.height
      BY <2>1 DEF ToSet, Parts
    <2>4. \A x \in ToSet(kept), y \in ToSet(fresh) : <<x.height, y.height>> \in R
      BY <2>1, <2>3 DEF Parts
    <2> QED
      BY <2>1, <2>2, <2>4, ConcatOrdered DEF Parts
  <1> QED
    BY <1>1, <1>2
==============================================================================
