---------------------------- MODULE SnifferProofs ----------------------------
(***************************************************************************)
(* The device is open exactly as long as clients hold the sniffer, every   *)
(* client gets its share of the packets, the packets of a stream are found *)
(* wherever TCP has cut it, and a capture finds in a file what was written *)
(* to it, for every set of clients, filters, scenarios, files and streams. *)
(***************************************************************************)
EXTENDS Sniffer, WellFoundedInduction, SequenceTheorems, TLAPS

-----------------------------------------------------------------------------
(* Sequences.                                                              *)

\* Induction over the naturals, for sets.
LEMMA SetInduction ==
    ASSUME NEW S, 0 \in S, \A n \in Nat : n \in S => n + 1 \in S
    PROVE  Nat \subseteq S
<1> DEFINE T == Nat \ S
<1> SUFFICES ASSUME T # {} PROVE FALSE
  OBVIOUS
<1>1. PICK x \in T : \A y \in T : ~(<<y, x>> \in OpToRel(<, Nat))
  BY WFMin, NatLessThanWellFounded
<1>2. x \in Nat /\ x # 0 /\ x - 1 \in Nat
  OBVIOUS
<1>3. x - 1 \in T
  <2>1. x - 1 \in S => x \in S
    BY <1>2
  <2> QED
    BY <1>2, <2>1
<1> DEFINE p == <<x - 1, x>>
<1>4. p \in Nat \X Nat /\ p[1] < p[2]
  BY <1>2
<1>5. p \in OpToRel(<, Nat)
  BY <1>4, Zenon DEF OpToRel
<1> QED
  BY <1>1, <1>3, <1>5

\* at[i] elements of the whole are those of the first i parts it is made of.
Ends(at, parts, whole) ==
    /\ at \in [0..Len(parts) -> Nat]
    /\ at[0] = 0
    /\ at[Len(parts)] = Len(whole)
    /\ \A i \in 1..Len(parts) :
          /\ at[i] = at[i - 1] + Len(parts[i])
          /\ at[i] <= Len(whole)
          /\ \A k \in 1..Len(parts[i]) : whole[at[i - 1] + k] = parts[i][k]

\* What FlattenSeq returns is made part by part.
LEMMA FlattenSteps ==
    ASSUME NEW X, NEW s \in Seq(Seq(X)), Len(s) # 0
    PROVE  \E f : /\ FlattenSeq(s) = f[Len(s)]
                  /\ f[1] = s[1]
                  /\ \A i \in 2..Len(s) : f[i] = f[i - 1] \o s[i]
<1> DEFINE Flat(n, g) ==
      /\ g \in [1..n -> Seq(X)]
      /\ \A i \in 1..n : g[i] = IF i = 1 THEN s[i] ELSE g[i - 1] \o s[i]
<1> DEFINE Rec(g) == g = [i \in 1..Len(s) |-> IF i = 1 THEN s[i] ELSE g[i - 1] \o s[i]]
<1> DEFINE f == CHOOSE g : Rec(g)
<1>1. FlattenSeq(s) = f[Len(s)]
  BY DEF FlattenSeq
<1>2. Len(s) \in Nat /\ \A i \in 1..Len(s) : s[i] \in Seq(X)
  OBVIOUS
<1> DEFINE Some(n) == \E g : Flat(n, g)
<1> DEFINE S == {n \in Nat : n <= Len(s) => Some(n)}
<1>3. 0 \in S
  <2>1. Flat(0, [i \in 1..0 |-> <<>>])
    OBVIOUS
  <2> QED
    BY <2>1
<1>4. ASSUME NEW n \in Nat, n \in S PROVE n + 1 \in S
  <2> HIDE DEF Some
  <2> SUFFICES ASSUME n + 1 <= Len(s) PROVE Some(n + 1)
    OBVIOUS
  <2>1. Some(n)
    BY <1>2, <1>4
  <2> HIDE DEF Flat
  <2>2. PICK g : Flat(n, g)
    BY <2>1 DEF Some
  <2> USE DEF Flat
  <2> DEFINE v == IF n = 0 THEN s[1] ELSE g[n] \o s[n + 1]
  <2> DEFINE h == [i \in 1..(n + 1) |-> IF i <= n THEN g[i] ELSE v]
  <2>3. v \in Seq(X)
    BY <1>2, <2>2
  <2> HIDE DEF v
  <2>4. h \in [1..(n + 1) -> Seq(X)]
    BY <2>2, <2>3
  <2>5. ASSUME NEW i \in 1..(n + 1)
        PROVE  h[i] = IF i = 1 THEN s[i] ELSE h[i - 1] \o s[i]
    <3>1. CASE i <= n
      <4>1. h[i] = g[i] /\ (i # 1 => i - 1 \in 1..(n + 1) /\ h[i - 1] = g[i - 1])
        BY <3>1
      <4>2. g[i] = IF i = 1 THEN s[i] ELSE g[i - 1] \o s[i]
        <5>1. i \in 1..n
          BY <3>1
        <5> QED
          BY <2>2, <5>1, Zenon
      <4> QED
        BY <4>1, <4>2, Zenon
    <3>2. CASE i = n + 1
      BY <3>2 DEF v
    <3> QED
      BY <3>1, <3>2
  <2>6. Flat(n + 1, h)
    BY <2>4, <2>5
  <2> HIDE DEF Flat
  <2> QED
    BY <2>6 DEF Some
<1>5. PICK g : Flat(Len(s), g)
  <2> HIDE DEF S
  <2>1. Nat \subseteq S
    BY <1>3, <1>4, SetInduction
  <2>2. Some(Len(s))
    <3> HIDE DEF Some
    <3> QED
      BY <1>2, <2>1 DEF S
  <2> HIDE DEF Flat
  <2> QED
    BY <2>2 DEF Some
<1>6. Rec(g)
  BY <1>2, <1>5
<1>7. Rec(f)
  BY <1>6
<1> HIDE DEF f
<1> DEFINE F == [i \in 1..Len(s) |-> IF i = 1 THEN s[i] ELSE f[i - 1] \o s[i]]
<1>8. ASSUME NEW i \in 1..Len(s) PROVE f[i] = F[i]
  <2> HIDE DEF F
  <2> QED
    BY <1>7 DEF F
<1>9. ASSUME NEW i \in 1..Len(s)
      PROVE  f[i] = IF i = 1 THEN s[i] ELSE f[i - 1] \o s[i]
  BY <1>8
<1>10. 1 \in 1..Len(s) /\ \A i \in 2..Len(s) : i \in 1..Len(s) /\ i # 1
  BY <1>2
<1>11. f[1] = s[1] /\ \A i \in 2..Len(s) : f[i] = f[i - 1] \o s[i]
  <2> HIDE DEF F
  <2> QED
    BY <1>9, <1>10, Zenon
<1> QED
  BY <1>1, <1>11

\* Two sequences in a row.
LEMMA Joined ==
    ASSUME NEW X, NEW a \in Seq(X), NEW b \in Seq(X)
    PROVE  /\ a \o b \in Seq(X)
           /\ Len(a \o b) = Len(a) + Len(b)
           /\ \A k \in 1..Len(a) : (a \o b)[k] = a[k]
           /\ \A k \in 1..Len(b) : (a \o b)[Len(a) + k] = b[k]
OBVIOUS

\* Where each part of a flattened sequence of sequences is.
LEMMA FlattenParts ==
    ASSUME NEW X, NEW s \in Seq(Seq(X))
    PROVE  /\ FlattenSeq(s) \in Seq(X)
           /\ \E at : Ends(at, s, FlattenSeq(s))
<1>1. CASE Len(s) = 0
  <2>1. s = <<>> /\ FlattenSeq(s) = s
    BY <1>1 DEF FlattenSeq
  <2>2. Ends([i \in 0..0 |-> 0], s, FlattenSeq(s))
    BY <1>1, <2>1 DEF Ends
  <2> QED
    BY <2>1, <2>2
<1>2. CASE Len(s) # 0
  <2>1. PICK f : /\ FlattenSeq(s) = f[Len(s)]
                 /\ f[1] = s[1]
                 /\ \A i \in 2..Len(s) : f[i] = f[i - 1] \o s[i]
    BY <1>2, FlattenSteps
  <2>2. Len(s) \in Nat /\ 1 <= Len(s) /\ \A i \in 1..Len(s) : s[i] \in Seq(X)
    BY <1>2
  <2> DEFINE Made(at, n) ==
        /\ at \in [0..n -> Nat]
        /\ at[0] = 0
        /\ at[n] = Len(f[n])
        /\ \A i \in 1..n :
              /\ at[i] = at[i - 1] + Len(s[i])
              /\ at[i] <= Len(f[n])
              /\ \A k \in 1..Len(s[i]) : f[n][at[i - 1] + k] = s[i][k]
  <2> DEFINE Good(n) == f[n] \in Seq(X) /\ \E at : Made(at, n)
  <2> DEFINE S == {n \in Nat : n + 1 <= Len(s) => Good(n + 1)}
  <2>3. 0 \in S
    <3> DEFINE at == [i \in 0..1 |-> IF i = 0 THEN 0 ELSE Len(s[1])]
    <3>1. s[1] \in Seq(X) /\ Len(s[1]) \in Nat
      BY <2>2
    <3>2. at \in [0..1 -> Nat] /\ at[0] = 0 /\ at[1] = Len(s[1])
      BY <3>1
    <3> HIDE DEF at
    <3>3. Made(at, 1)
      BY <2>1, <3>1, <3>2
    <3> HIDE DEF Made
    <3>4. Good(1)
      BY <2>1, <3>1, <3>3
    <3> QED
      BY <3>4
  <2>4. ASSUME NEW n \in Nat, n \in S PROVE n + 1 \in S
    <3> HIDE DEF Good
    <3> SUFFICES ASSUME (n + 1) + 1 <= Len(s) PROVE Good((n + 1) + 1)
      OBVIOUS
    <3> DEFINE m == n + 1
    <3>1. m \in Nat /\ m >= 1 /\ m + 1 \in 2..Len(s) /\ m \in 1..Len(s)
      BY <2>2
    <3>2. Good(m)
      BY <2>2, <2>4, <3>1
    <3> HIDE DEF m
    <3> USE DEF Good
    <3> HIDE DEF Made
    <3>3. PICK at : Made(at, m)
      BY <3>2
    <3> USE DEF Made
    <3>4. f[m] \in Seq(X) /\ s[m + 1] \in Seq(X) /\ f[m + 1] = f[m] \o s[m + 1]
      <4>1. (m + 1) - 1 = m /\ m + 1 \in 1..Len(s)
        BY <3>1
      <4>2. f[m + 1] = f[(m + 1) - 1] \o s[m + 1]
        BY <2>1, <3>1
      <4>3. f[m] \in Seq(X)
        BY <3>2
      <4> QED
        BY <2>2, <4>1, <4>2, <4>3
    <3> DEFINE to == [i \in 0..(m + 1) |-> IF i <= m THEN at[i] ELSE at[m] + Len(s[m + 1])]
    <3>5. /\ f[m + 1] \in Seq(X)
          /\ Len(f[m + 1]) \in Nat
          /\ Len(f[m + 1]) = Len(f[m]) + Len(s[m + 1])
          /\ \A k \in 1..Len(f[m]) : f[m + 1][k] = f[m][k]
          /\ \A k \in 1..Len(s[m + 1]) : f[m + 1][Len(f[m]) + k] = s[m + 1][k]
      <4> DEFINE a == f[m]
                 b == s[m + 1]
                 c == f[m + 1]
      <4>1. a \in Seq(X) /\ b \in Seq(X) /\ c = a \o b
        BY <3>4
      <4> HIDE DEF a, b, c
      <4>2. /\ c \in Seq(X)
            /\ Len(c) \in Nat
            /\ Len(c) = Len(a) + Len(b)
            /\ \A k \in 1..Len(a) : c[k] = a[k]
            /\ \A k \in 1..Len(b) : c[Len(a) + k] = b[k]
        BY <4>1, Joined
      <4> QED
        BY <4>2 DEF a, b, c
    <3>6. at \in [0..m -> Nat] /\ at[0] = 0 /\ at[m] = Len(f[m])
      BY <3>3
    <3>7. Len(f[m]) \in Nat /\ Len(s[m + 1]) \in Nat
      BY <3>4
    <3>8. /\ to \in [0..(m + 1) -> Nat]
          /\ to[0] = 0
          /\ to[m + 1] = Len(f[m + 1])
      <4>1. 0 \in 0..(m + 1) /\ 0 <= m /\ m + 1 \in 0..(m + 1) /\ ~(m + 1 <= m)
            /\ m \in 0..m
        BY <3>1
      <4>2. to[0] = at[0] /\ to[m + 1] = at[m] + Len(s[m + 1])
        BY <4>1
      <4>3. ASSUME NEW i \in 0..(m + 1)
            PROVE  (IF i <= m THEN at[i] ELSE at[m] + Len(s[m + 1])) \in Nat
        <5>1. i <= m => i \in 0..m
          BY <3>1
        <5>2. at[m] + Len(s[m + 1]) \in Nat
          <6> DEFINE p == at[m]
                     q == Len(s[m + 1])
          <6>1. p \in Nat /\ q \in Nat
            BY <3>6, <3>7, Zenon
          <6> HIDE DEF p, q
          <6>2. p + q \in Nat
            BY <6>1
          <6> QED
            BY <6>2 DEF p, q
        <5> QED
          BY <3>6, <5>1, <5>2
      <4>4. to \in [0..(m + 1) -> Nat]
        BY <4>3
      <4> HIDE DEF to
      <4> QED
        BY <3>5, <3>6, <4>2, <4>4
    <3>9. ASSUME NEW i \in 1..(m + 1)
          PROVE  /\ to[i] = to[i - 1] + Len(s[i])
                 /\ to[i] <= Len(f[m + 1])
                 /\ \A k \in 1..Len(s[i]) : f[m + 1][to[i - 1] + k] = s[i][k]
      <4>1. CASE i <= m
        <5>1. i \in 1..m /\ i - 1 \in 0..m /\ i \in 0..(m + 1) /\ i - 1 \in 0..(m + 1)
              /\ i - 1 <= m
          BY <3>1, <4>1
        <5>2. to[i] = at[i] /\ to[i - 1] = at[i - 1]
          BY <4>1, <5>1
        <5>3. /\ at[i] = at[i - 1] + Len(s[i])
              /\ at[i] <= Len(f[m])
              /\ \A k \in 1..Len(s[i]) : f[m][at[i - 1] + k] = s[i][k]
          BY <3>3, <5>1
        <5>4. at[i] \in Nat /\ at[i - 1] \in Nat /\ Len(s[i]) \in Nat
          <6>1. i \in 1..Len(s)
            BY <3>1, <5>1
          <6>2. s[i] \in Seq(X)
            BY <2>2, <6>1
          <6>3. Len(s[i]) \in Nat
            BY <6>2
          <6> QED
            BY <3>1, <3>6, <5>1, <6>3
        <5> DEFINE p == at[i - 1]
                   q == Len(s[i])
                   l == Len(f[m])
                   r == Len(s[m + 1])
        <5>6. p \in Nat /\ q \in Nat /\ l \in Nat /\ p + q <= l
          BY <3>7, <5>3, <5>4, Zenon
        <5>5. ASSUME NEW k \in 1..Len(s[i]) PROVE f[m + 1][at[i - 1] + k] = s[i][k]
          <6>1. at[i - 1] + k \in 1..Len(f[m])
            <7> HIDE DEF p, q, l
            <7>1. k \in 1..q
              BY DEF q
            <7>2. p + k \in 1..l
              BY <5>6, <7>1
            <7> QED
              BY <7>2 DEF p, l
          <6>2. f[m + 1][at[i - 1] + k] = f[m][at[i - 1] + k]
            BY <3>5, <6>1
          <6> QED
            BY <5>3, <6>2
        <5>7. to[i] = to[i - 1] + Len(s[i])
          BY <5>2, <5>3, Zenon
        <5>8. to[i] <= Len(f[m + 1])
          <6>1. at[i] \in Nat /\ at[i] <= l /\ r \in Nat /\ to[i] = at[i]
                /\ Len(f[m + 1]) = l + r
            BY <3>5, <3>7, <5>2, <5>3, <5>4, Zenon
          <6> HIDE DEF to, l, r
          <6> QED
            BY <5>6, <6>1
        <5>9. \A k \in 1..Len(s[i]) : f[m + 1][to[i - 1] + k] = s[i][k]
          BY <5>2, <5>5, Zenon
        <5> QED
          BY <5>7, <5>8, <5>9, Zenon
      <4>2. CASE ~(i <= m)
        <5>1. i = m + 1 /\ i - 1 = m /\ m \in 0..(m + 1)
          BY <3>1, <4>2
        <5>2. to[m] = at[m] /\ to[m + 1] = at[m] + Len(s[m + 1])
          BY <3>1
        <5> HIDE DEF to
        <5>3. to[i - 1] = Len(f[m]) /\ to[i] = Len(f[m]) + Len(s[i]) /\ s[i] = s[m + 1]
          BY <3>6, <5>1, <5>2, Zenon
        <5>4. to[i] = to[i - 1] + Len(s[i])
          BY <5>3, Zenon
        <5>5. to[i] = Len(f[m + 1])
          BY <3>5, <5>3, Zenon
        <5>6. \A k \in 1..Len(s[i]) : f[m + 1][to[i - 1] + k] = s[i][k]
          BY <3>5, <5>3, Zenon
        <5>7. Len(f[m + 1]) \in Nat
          BY <3>5, Zenon
        <5>8. to[i] <= Len(f[m + 1])
          <6> DEFINE p == Len(f[m + 1])
          <6>1. p \in Nat /\ to[i] = p
            BY <5>5, <5>7, Zenon
          <6> HIDE DEF p
          <6>2. to[i] <= p
            BY <6>1
          <6> QED
            BY <6>2 DEF p
        <5> QED
          BY <5>4, <5>6, <5>8, Zenon
      <4> QED
        BY <4>1, <4>2
    <3>10. Made(to, m + 1)
      <4> HIDE DEF to
      <4> QED
        BY <3>8, <3>9
    <3> HIDE DEF Made, to
    <3>11. Good(m + 1)
      BY <3>5, <3>10
    <3> QED
      BY <3>11 DEF m
  <2>5. Good(Len(s))
    <3> HIDE DEF S, Good
    <3>1. Nat \subseteq S
      BY <2>3, <2>4, SetInduction
    <3>2. Len(s) - 1 \in Nat /\ (Len(s) - 1) + 1 = Len(s)
      BY <2>2
    <3>3. Len(s) - 1 \in S
      BY <3>1, <3>2
    <3>4. (Len(s) - 1) + 1 <= Len(s) => Good((Len(s) - 1) + 1)
      BY <3>3, Zenon DEF S
    <3>5. Good((Len(s) - 1) + 1)
      BY <2>2, <3>2, <3>4
    <3> QED
      BY <3>2, <3>5, Zenon
  <2> HIDE DEF Made
  <2>6. PICK at : Made(at, Len(s))
    BY <2>5
  <2>7. Ends(at, s, FlattenSeq(s))
    BY <2>1, <2>6 DEF Ends, Made
  <2> QED
    BY <2>1, <2>5, <2>7
<1> QED
  BY <1>1, <1>2

\* f[i] is made of the first i parts of s.
Steps(f, s, n) == f[1] = s[1] /\ \A i \in 2..n : f[i] = f[i - 1] \o s[i]

\* The part in which an element of a flattened sequence lies, and the order of
\* the parts.
LEMMA EndsGrow ==
    ASSUME NEW X, NEW s \in Seq(Seq(X)), NEW t, NEW at, Ends(at, s, t),
           NEW i \in 0..Len(s), NEW j \in 0..Len(s), i <= j
    PROVE  at[i] <= at[j]
<1>1. Len(s) \in Nat /\ \A k \in 1..Len(s) : Len(s[k]) \in Nat
  <2>1. \A k \in 1..Len(s) : s[k] \in Seq(X)
    OBVIOUS
  <2> QED
    BY <2>1
<1>2. /\ at \in [0..Len(s) -> Nat]
      /\ \A k \in 1..Len(s) : at[k] = at[k - 1] + Len(s[k])
  BY Zenon DEF Ends
<1> DEFINE S == {n \in Nat : i + n <= Len(s) => at[i] <= at[i + n]}
<1>3. 0 \in S
  <2>1. i + 0 = i
    BY <1>1
  <2>2. at[i] \in Nat
    BY <1>2, Zenon
  <2> DEFINE x == at[i]
  <2>3. x \in Nat
    BY <2>2
  <2> HIDE DEF x
  <2>4. x <= x
    BY <2>3
  <2>5. at[i] <= at[i + 0]
    BY <2>1, <2>4, Zenon DEF x
  <2> QED
    BY <2>5
<1>4. ASSUME NEW n \in Nat, n \in S PROVE n + 1 \in S
  <2> SUFFICES ASSUME i + (n + 1) <= Len(s) PROVE at[i] <= at[i + (n + 1)]
    OBVIOUS
  <2> DEFINE k == i + (n + 1)
  <2>1. k \in 1..Len(s) /\ k - 1 = i + n /\ k - 1 \in 0..Len(s) /\ i + n <= Len(s)
    BY <1>1
  <2>2. at[i] <= at[k - 1]
    BY <1>4, <2>1
  <2> HIDE DEF k
  <2>3. at[k] = at[k - 1] + Len(s[k]) /\ at[i] \in Nat /\ at[k - 1] \in Nat /\ Len(s[k]) \in Nat
    BY <1>1, <1>2, <2>1
  <2>4. at[i] <= at[k]
    <3> DEFINE x == at[i]
               y == at[k - 1]
               z == Len(s[k])
               w == at[k]
    <3>1. x \in Nat /\ y \in Nat /\ z \in Nat /\ x <= y /\ w = y + z
      BY <2>2, <2>3, Zenon
    <3> HIDE DEF x, y, z, w
    <3>2. x <= w
      BY <3>1
    <3> QED
      BY <3>2 DEF x, w
  <2> QED
    BY <2>4 DEF k
<1> HIDE DEF S
<1>5. j - i \in S
  <2>1. j - i \in Nat
    BY <1>1
  <2>2. Nat \subseteq S
    BY <1>3, <1>4, SetInduction
  <2> QED
    BY <2>1, <2>2
<1> QED
  BY <1>1, <1>5 DEF S

LEMMA EndsCover ==
    ASSUME NEW X, NEW s \in Seq(Seq(X)), NEW t, NEW at, Ends(at, s, t),
           NEW p \in 1..Len(t)
    PROVE  \E i \in 1..Len(s) : at[i - 1] < p /\ p <= at[i]
<1>1. Len(s) \in Nat
  OBVIOUS
<1>2. at \in [0..Len(s) -> Nat] /\ at[0] = 0 /\ at[Len(s)] = Len(t)
  BY Zenon DEF Ends
<1>3. p \in Nat /\ 1 <= p /\ p <= at[Len(s)]
  <2>1. Len(t) \in Nat
    BY <1>1, <1>2
  <2> QED
    BY <1>2, <2>1
<1> SUFFICES ASSUME \A i \in 1..Len(s) : at[i - 1] < p => ~(p <= at[i])
             PROVE  FALSE
  BY Zenon
<1> DEFINE S == {n \in Nat : n <= Len(s) => at[n] < p}
<1>4. 0 \in S
  BY <1>2, <1>3
<1>5. ASSUME NEW n \in Nat, n \in S PROVE n + 1 \in S
  <2> SUFFICES ASSUME n + 1 <= Len(s) PROVE at[n + 1] < p
    OBVIOUS
  <2>1. n + 1 \in 1..Len(s) /\ (n + 1) - 1 = n /\ n + 1 \in 0..Len(s) /\ at[n] < p
    BY <1>1, <1>5
  <2>2. ~(p <= at[n + 1]) /\ at[n + 1] \in Nat
    BY <1>2, <2>1
  <2> QED
    BY <1>3, <2>2
<1> HIDE DEF S
<1>6. Len(s) \in S
  BY <1>1, <1>4, <1>5, SetInduction
<1>7. at[Len(s)] < p /\ at[Len(s)] \in Nat
  BY <1>1, <1>2, <1>6 DEF S
<1> QED
  BY <1>3, <1>7

Agree(s, t, n) == \A i \in 1..n : s[i] = t[i]

\* As long as two sequences of sequences agree, so do they when flattened.
LEMMA FlattenAgree ==
    ASSUME NEW f, NEW g, NEW s, NEW t, NEW n \in Nat,
           Steps(f, s, n), Steps(g, t, n), Agree(s, t, n)
    PROVE  Agree(f, g, n)
<1> USE DEF Steps, Agree
<1> DEFINE S == {m \in Nat : m + 1 <= n => f[m + 1] = g[m + 1]}
<1>1. 0 \in S
  OBVIOUS
<1>2. ASSUME NEW m \in Nat, m \in S PROVE m + 1 \in S
  <2> DEFINE k == (m + 1) + 1
  <2> SUFFICES ASSUME k <= n PROVE f[k] = g[k]
    OBVIOUS
  <2>1. k \in 2..n /\ k \in 1..n /\ k - 1 = m + 1 /\ m + 1 <= n
    OBVIOUS
  <2>2. f[k - 1] = g[k - 1]
    BY <1>2, <2>1
  <2> HIDE DEF k
  <2>3. f[k] = f[k - 1] \o s[k] /\ g[k] = g[k - 1] \o t[k] /\ s[k] = t[k]
    BY <2>1
  <2> QED
    BY <2>2, <2>3
<1> HIDE DEF S
<1>3. Nat \subseteq S
  BY <1>1, <1>2, SetInduction
<1>4. ASSUME NEW m \in 1..n PROVE f[m] = g[m]
  <2>1. m - 1 \in S /\ (m - 1) + 1 = m
    BY <1>3
  <2> QED
    BY <2>1 DEF S
<1> QED
  BY <1>4

\* What is made part by part is a sequence all the way.
LEMMA FlattenStepsType ==
    ASSUME NEW X, NEW s \in Seq(Seq(X)), NEW f, f[1] = s[1],
           \A i \in 2..Len(s) : f[i] = f[i - 1] \o s[i]
    PROVE  \A m \in 1..Len(s) : f[m] \in Seq(X)
<1> DEFINE n == Len(s)
<1>0. n \in Nat /\ \A i \in 1..n : s[i] \in Seq(X)
  OBVIOUS
<1>a. \A i \in 2..n : f[i] = f[i - 1] \o s[i]
  OBVIOUS
<1> HIDE DEF n
<1> DEFINE S == {m \in Nat : m + 1 <= n => f[m + 1] \in Seq(X)}
<1>1. 0 \in S
  BY <1>0
<1>2. ASSUME NEW m \in Nat, m \in S PROVE m + 1 \in S
  <2> DEFINE k == (m + 1) + 1
  <2> SUFFICES ASSUME k <= n PROVE f[k] \in Seq(X)
    OBVIOUS
  <2>1. k \in 2..n /\ k \in 1..n /\ k - 1 = m + 1 /\ m + 1 <= n
    BY <1>0
  <2>2. f[k - 1] \in Seq(X) /\ s[k] \in Seq(X)
    BY <1>0, <1>2, <2>1
  <2> HIDE DEF k
  <2>3. f[k] = f[k - 1] \o s[k]
    BY <1>a, <2>1
  <2> QED
    BY <2>2, <2>3, Joined
<1> HIDE DEF S
<1>3. Nat \subseteq S
  BY <1>1, <1>2, SetInduction
<1>4. ASSUME NEW m \in 1..n PROVE f[m] \in Seq(X)
  <2>1. m - 1 \in S /\ (m - 1) + 1 = m
    BY <1>0, <1>3
  <2> QED
    BY <2>1 DEF S
<1> QED
  BY <1>4 DEF n

\* One part more.
LEMMA FlattenSnoc ==
    ASSUME NEW X, NEW s \in Seq(Seq(X)), NEW x \in Seq(X)
    PROVE  FlattenSeq(Append(s, x)) = FlattenSeq(s) \o x
<1> DEFINE t == Append(s, x)
<1>0. PICK n : n = Len(s)
  OBVIOUS
<1>1. /\ n \in Nat /\ t \in Seq(Seq(X)) /\ Len(t) = n + 1 /\ Len(t) # 0
      /\ t[n + 1] = x /\ \A i \in 1..n : t[i] = s[i]
  BY <1>0
<1> HIDE DEF t
<1>2. PICK f : /\ FlattenSeq(t) = f[Len(t)]
               /\ f[1] = t[1]
               /\ \A i \in 2..Len(t) : f[i] = f[i - 1] \o t[i]
  BY <1>1, FlattenSteps
<1>3. CASE n = 0
  <2>1. FlattenSeq(t) = x
    BY <1>1, <1>2, <1>3
  <2>2. FlattenSeq(s) = <<>>
    <3>1. Len(s) = 0
      BY <1>0, <1>3, Zenon
    <3>2. FlattenSeq(s) = s
      BY <3>1, Zenon DEF FlattenSeq
    <3> QED
      BY <3>1, <3>2, EmptySeq
  <2> QED
    BY <2>1, <2>2 DEF t
<1>4. CASE n # 0
  <2>1. PICK g : /\ FlattenSeq(s) = g[n]
                 /\ g[1] = s[1]
                 /\ \A i \in 2..n : g[i] = g[i - 1] \o s[i]
    BY <1>0, <1>4, FlattenSteps
  <2>2. \A i \in 2..n : f[i] = f[i - 1] \o t[i]
    <3>1. \A i \in 2..n : i \in 2..Len(t)
      BY <1>1
    <3> QED
      BY <1>2, <3>1
  <2>3. \A i \in 1..n : t[i] = s[i]
    BY <1>1
  <2>4. f[n] = g[n]
    <3>1. n \in Nat /\ f[1] = t[1] /\ g[1] = s[1]
      BY <1>1, <1>2, <2>1
    <3>2. \A i \in 2..n : g[i] = g[i - 1] \o s[i]
      BY <2>1
    <3>3. Steps(f, t, n) /\ Steps(g, s, n)
      BY <2>2, <3>1, <3>2 DEF Steps
    <3>4. Agree(t, s, n)
      BY <2>3 DEF Agree
    <3>5. Agree(f, g, n)
      BY <3>1, <3>3, <3>4, FlattenAgree
    <3> QED
      BY <1>1, <1>4, <3>5 DEF Agree
  <2>5. f[n + 1] = f[n] \o x
    <3>1. n + 1 \in 2..Len(t) /\ (n + 1) - 1 = n
      BY <1>1, <1>4
    <3> QED
      BY <1>1, <1>2, <3>1
  <2> QED
    BY <1>1, <1>2, <2>1, <2>4, <2>5 DEF t
<1> QED
  BY <1>3, <1>4

\* A part that was empty, and behind which all are, is filled.
LEMMA FlattenFill ==
    ASSUME NEW X, NEW s \in Seq(Seq(X)), NEW t \in Seq(Seq(X)), Len(s) = Len(t),
           NEW k \in 1..Len(s), s[k] = <<>>,
           \A i \in 1..(k - 1) : s[i] = t[i],
           \A i \in (k + 1)..Len(s) : s[i] = <<>> /\ t[i] = <<>>
    PROVE  FlattenSeq(t) = FlattenSeq(s) \o t[k]
<1> DEFINE n == Len(s)
<1>1. n \in Nat /\ n # 0 /\ k \in 1..n /\ t[k] \in Seq(X) /\ Len(t) = n
  OBVIOUS
<1>2. PICK f : /\ FlattenSeq(s) = f[n]
               /\ f[1] = s[1]
               /\ \A i \in 2..n : f[i] = f[i - 1] \o s[i]
  BY <1>1, FlattenSteps
<1>3. PICK g : /\ FlattenSeq(t) = g[n]
               /\ g[1] = t[1]
               /\ \A i \in 2..n : g[i] = g[i - 1] \o t[i]
  <2>1. Len(t) # 0 /\ Len(t) = n
    BY <1>1
  <2> HIDE DEF n
  <2>2. \E g : /\ FlattenSeq(t) = g[Len(t)]
               /\ g[1] = t[1]
               /\ \A i \in 2..Len(t) : g[i] = g[i - 1] \o t[i]
    BY <2>1, FlattenSteps
  <2> QED
    BY <2>1, <2>2
<1>4. \A m \in 1..n : f[m] \in Seq(X) /\ g[m] \in Seq(X)
  BY <1>1, <1>2, <1>3, FlattenStepsType
<1>a. \A i \in (k + 1)..n : s[i] = <<>> /\ t[i] = <<>>
  OBVIOUS
<1> HIDE DEF n
<1>5. g[k] = f[k] \o t[k]
  <2>1. CASE k = 1
    <3>1. f[k] = <<>> /\ g[k] = t[k]
      BY <1>2, <1>3, <2>1
    <3> QED
      BY <1>1, <3>1
  <2>2. CASE k # 1
    <3>1. k \in 2..n /\ k - 1 \in 1..n /\ k - 1 \in Nat /\ k - 1 \in 1..(k - 1)
      BY <1>1, <2>2
    <3>2. f[k] = f[k - 1] \o <<>> /\ g[k] = g[k - 1] \o t[k]
      BY <1>2, <1>3, <3>1
    <3>3. f[k] = f[k - 1]
      BY <1>4, <3>1, <3>2
    <3>4. f[k - 1] = g[k - 1]
      <4>1. k - 1 \in Nat /\ \A i \in 2..(k - 1) : i \in 2..n
        BY <1>1, <3>1
      <4>2. Steps(f, s, k - 1)
        BY <1>2, <4>1 DEF Steps
      <4>3. Steps(g, t, k - 1)
        BY <1>3, <4>1 DEF Steps
      <4>4. Agree(s, t, k - 1)
        BY DEF Agree
      <4>5. Agree(f, g, k - 1)
        BY <4>1, <4>2, <4>3, <4>4, FlattenAgree
      <4> QED
        BY <3>1, <4>5 DEF Agree
    <3> QED
      BY <3>2, <3>3, <3>4
  <2> QED
    BY <2>1, <2>2
<1> DEFINE S == {m \in Nat : k + m <= n => f[k + m] = f[k] /\ g[k + m] = g[k]}
<1>6. 0 \in S
  BY <1>1
<1>7. ASSUME NEW m \in Nat, m \in S PROVE m + 1 \in S
  <2> DEFINE j == k + (m + 1)
  <2> SUFFICES ASSUME j <= n PROVE f[j] = f[k] /\ g[j] = g[k]
    OBVIOUS
  <2>1. j \in 2..n /\ j \in (k + 1)..n /\ j - 1 = k + m /\ j - 1 \in 1..n /\ k + m <= n
    BY <1>1
  <2>2. f[j - 1] = f[k] /\ g[j - 1] = g[k]
    BY <1>7, <2>1
  <2> HIDE DEF j
  <2>3. f[j] = f[j - 1] \o <<>> /\ g[j] = g[j - 1] \o <<>>
    BY <1>2, <1>3, <1>a, <2>1
  <2>4. f[j] = f[j - 1] /\ g[j] = g[j - 1]
    BY <1>4, <2>1, <2>3
  <2> QED
    BY <2>2, <2>4
<1> HIDE DEF S
<1>8. n - k \in S /\ k + (n - k) = n
  <2>1. n - k \in Nat /\ k + (n - k) = n
    BY <1>1
  <2> QED
    BY <1>6, <1>7, <2>1, SetInduction
<1>9. f[n] = f[k] /\ g[n] = g[k]
  BY <1>1, <1>8 DEF S
<1> QED
  BY <1>2, <1>3, <1>5, <1>9

\* Of parts with one element at most, each element is a part of its own.
LEMMA Sparse ==
    ASSUME NEW X, NEW s \in Seq(Seq(X)), NEW t, NEW at, Ends(at, s, t),
           \A i \in 1..Len(s) : Len(s[i]) <= 1, NEW p \in 1..Len(t)
    PROVE  \E i \in 1..Len(s) : at[i] = p /\ Len(s[i]) = 1 /\ t[p] = s[i][1]
<1>1. PICK i \in 1..Len(s) : at[i - 1] < p /\ p <= at[i]
  BY EndsCover
<1>2. Len(s) \in Nat /\ s[i] \in Seq(X) /\ Len(s[i]) <= 1
  OBVIOUS
<1>3. Len(s[i]) \in Nat
  BY <1>2
<1>4. /\ at \in [0..Len(s) -> Nat]
      /\ at[Len(s)] = Len(t)
      /\ at[i] = at[i - 1] + Len(s[i])
      /\ \A k \in 1..Len(s[i]) : t[at[i - 1] + k] = s[i][k]
  BY Zenon DEF Ends
<1>5. i - 1 \in 0..Len(s) /\ i \in 0..Len(s) /\ Len(s) \in 0..Len(s)
  BY <1>2
<1>6. at[i - 1] \in Nat /\ at[i] \in Nat /\ Len(t) \in Nat
  BY <1>4, <1>5
<1> DEFINE x == at[i - 1]
           y == at[i]
           l == Len(s[i])
<1>7. l = 1 /\ y = p /\ x + 1 = p
  <2>1. x \in Nat /\ y \in Nat /\ l \in Nat /\ l <= 1 /\ y = x + l /\ x < p /\ p <= y /\ p \in Int
    <3>1. p \in Int
      BY <1>6
    <3> QED
      BY <1>1, <1>2, <1>3, <1>4, <1>6, <3>1, Zenon
  <2> HIDE DEF x, y, l
  <2> QED
    BY <2>1
<1>8. t[p] = s[i][1]
  <2>1. t[at[i - 1] + 1] = s[i][1]
    <3>1. 1 \in 1..Len(s[i])
      BY <1>7
    <3> QED
      BY <1>4, <3>1
  <2> QED
    BY <1>7, <2>1
<1> QED
  BY <1>7, <1>8

\* Of empty parts nothing is made.
LEMMA FlattenEmpty ==
    ASSUME NEW X, NEW s \in Seq(Seq(X)), \A i \in 1..Len(s) : s[i] = <<>>
    PROVE  FlattenSeq(s) = <<>>
<1>1. PICK t : t = FlattenSeq(s)
  OBVIOUS
<1>2. t \in Seq(X) /\ \E at : Ends(at, s, t)
  BY <1>1, FlattenParts
<1>3. PICK at : Ends(at, s, t)
  BY <1>2
<1>4. \A i \in 1..Len(s) : Len(s[i]) = 0 /\ Len(s[i]) <= 1
  OBVIOUS
<1>5. Len(t) \in Nat
  BY <1>2, LenProperties
<1>6. CASE Len(t) = 0
  BY <1>1, <1>2, <1>6
<1>7. CASE Len(t) # 0
  <2>1. 1 \in 1..Len(t)
    BY <1>5, <1>7
  <2>2. PICK i \in 1..Len(s) : Len(s[i]) = 1
    BY <1>3, <1>4, <2>1, Sparse
  <2>3. PICK l : l = Len(s[i])
    OBVIOUS
  <2>4. l = 0 /\ l = 1
    BY <1>4, <2>2, <2>3, Zenon
  <2> QED
    BY <2>4
<1> QED
  BY <1>6, <1>7

\* The packets found so far stay where they are.
Extended ==
    /\ out' \in Seq(Range(out'))
    /\ Len(out) <= Len(out')
    /\ \A i \in 1..Len(out) : out'[i] = out[i]

\* More packets at the end.
LEMMA ConcatExtends ==
    ASSUME out \in Seq(Range(out)), NEW X, NEW t \in Seq(X), out' = out \o t
    PROVE  Extended
<1> DEFINE A == Range(out) \cup X
<1>1. out \in Seq(A) /\ t \in Seq(A)
  OBVIOUS
<1>2. /\ out' \in Seq(A)
      /\ Len(out') = Len(out) + Len(t)
      /\ \A i \in 1..Len(out) : out'[i] = out[i]
  BY <1>1
<1>3. Len(out) \in Nat /\ Len(t) \in Nat
  BY <1>1
<1>4. out' \in Seq(Range(out'))
  <2> DEFINE s == out'
  <2>1. s \in Seq(A)
    BY <1>2
  <2> HIDE DEF s
  <2>2. s \in Seq(Range(s))
    BY <2>1, SeqOfRange
  <2> QED
    BY <2>2 DEF s
<1> QED
  BY <1>2, <1>3, <1>4 DEF Extended

-----------------------------------------------------------------------------
(* The parser: what it holds is made of cells of the stream, and what it   *)
(* finds is put behind what it has found before.                           *)

Cell == (DOMAIN stream) \X Nat

Parser ==
    /\ stream \in Streams \cup {<<>>}
    /\ sent \in Nat
    /\ rstate \in {"WAIT_HEADER", "READ_HEADER", "READ_BODY"}
    /\ buffer \in Seq(Cell)
    /\ dataSize \in Nat
    /\ out \in Seq(Range(out))

\* The blocks of a stream.
LEMMA Blocks ==
    ASSUME Parser
    PROVE  /\ DOMAIN stream = 1..Len(stream) /\ Len(stream) \in Nat
           /\ \A k \in DOMAIN stream :
                stream[k].count \in Nat /\ stream[k].size \in Nat /\ stream[k].zip \in Nat
<1>1. CASE stream = <<>>
  BY <1>1
<1>2. CASE stream \in Streams
  <2>1. stream \in Seq(Range(stream))
    BY <1>2, VoipAssumption
  <2>2. DOMAIN stream = 1..Len(stream) /\ Len(stream) \in Nat
    <3> DEFINE R == Range(stream)
    <3>1. stream \in Seq(R)
      BY <2>1
    <3> HIDE DEF R
    <3> QED
      BY <3>1
  <2>3. ASSUME NEW k \in DOMAIN stream
        PROVE  stream[k].count \in Nat /\ stream[k].size \in Nat /\ stream[k].zip \in Nat
    <3>1. stream[k] \in Range(stream)
      BY Zenon DEF Range
    <3>2. {stream[k].count, stream[k].size, stream[k].zip} \subseteq Nat
      BY <1>2, <3>1, VoipAssumption
    <3> QED
      BY <3>2
  <2> QED
    BY <2>2, <2>3
<1> QED
  BY <1>1, <1>2 DEF Parser

LEMMA CellsType == Parser => Cells \in Seq(Cell)
<1> SUFFICES ASSUME Parser PROVE Cells \in Seq(Cell)
  OBVIOUS
<1> DEFINE B(b) == [i \in 1..BlockSize(stream[b]) |-> <<b, i>>]
<1>1. ASSUME NEW b \in DOMAIN stream PROVE B(b) \in Seq(Cell)
  <2>1. BlockSize(stream[b]) \in Nat
    BY Blocks DEF BlockSize, DataSize, HdrSize
  <2> QED
    BY <2>1 DEF Cell
<1> DEFINE S == [b \in DOMAIN stream |-> B(b)]
<1> HIDE DEF B
<1>2. S \in Seq(Seq(Cell))
  BY <1>1, Blocks
<1> HIDE DEF S
<1>3. FlattenSeq(S) \in Seq(Cell)
  BY <1>2, FlattenParts
<1> QED
  BY <1>3 DEF Cells, S, B

\* A piece of the stream.
LEMMA PieceType ==
    ASSUME Parser, NEW m \in Nat, NEW n \in Nat, m < n, sent + n <= Len(Cells)
    PROVE  Piece(m, n) \in Seq(Cell)
<1>1. Cells \in Seq(Cell) /\ sent \in Nat
  BY CellsType DEF Parser
<1> HIDE DEF Cells, Cell
<1>2. sent + m + 1 \in 1..(Len(Cells) + 1) /\ sent + n \in (sent + m + 1 - 1)..Len(Cells)
  BY <1>1
<1> QED
  BY <1>1, <1>2, SubSeqProperties DEF Piece

\* A parser without state finds one packet or none.
LEMMA PacketsForm ==
    ASSUME NEW r, NEW p
    PROVE  PacketsFrom(r, p) = <<>> \/ \E x : PacketsFrom(r, p) = <<x>>
BY DEF PacketsFrom

\* The packets of a block.
LEMMA BlockPacketsType ==
    ASSUME Parser, NEW k \in DOMAIN stream
    PROVE  BlockPackets(k) \in Seq(Nat \X Nat)
<1> DEFINE b == stream[k]
           Found(i) == IF b.offsets[i] + PacketSize(b, i) <= b.size
                       THEN RecordPayload(b.items[i], PacketSize(b, i)) ELSE <<>>
           P(i) == [j \in DOMAIN Found(i) |-> <<k, i>>]
           S == [i \in 1..b.count |-> P(i)]
<1>1. k \in Nat /\ b.count \in Nat
  BY Blocks
<1>2. ASSUME NEW i \in 1..b.count PROVE P(i) \in Seq(Nat \X Nat)
  <2>1. Found(i) = <<>> \/ \E x : Found(i) = <<x>>
    BY PacketsForm DEF RecordPayload
  <2> HIDE DEF Found
  <2>2. DOMAIN Found(i) = 1..0 \/ DOMAIN Found(i) = 1..1
    BY <2>1
  <2> QED
    BY <1>1, <2>2
<1>3. S \in Seq(Seq(Nat \X Nat))
  <2> DEFINE n == b.count
             Q == Seq(Nat \X Nat)
  <2>1. n \in Nat /\ \A i \in 1..n : P(i) \in Q
    BY <1>1, <1>2
  <2> HIDE DEF P, Q, n
  <2>2. [i \in 1..n |-> P(i)] \in Seq(Q)
    BY <2>1
  <2> QED
    BY <2>2 DEF n, Q
<1>4. FlattenSeq(S) \in Seq(Nat \X Nat)
  <2> HIDE DEF S
  <2> QED
    BY <1>3, FlattenParts
<1> QED
  BY <1>4 DEF BlockPackets

\* What parsing a piece of the stream comes to.
LEMMA ParseHeaderType ==
    ASSUME Parser, NEW c \in Seq(Cell), NEW buf \in Seq(Cell), NEW need \in Nat,
           NEW r \in ParseHeader(c, buf, need)
    PROVE  /\ r.threw \/ /\ r.st \in {"READ_HEADER", "READ_BODY"}
                         /\ r.buf \in Seq(Cell) /\ r.need \in Nat
           /\ r.pk \in Seq(Nat \X Nat)
<1>1. CASE r = Throw
  <2>1. r.threw
    BY <1>1, Zenon DEF Throw
  <2>2. r.pk = <<>>
    BY <1>1 DEF Throw
  <2> QED
    BY <2>1, <2>2
<1>2. ASSUME NEW n \in Nat, r = Result("READ_BODY", buf \o c, n, <<>>)
      PROVE  /\ r.st = "READ_BODY" /\ r.buf \in Seq(Cell) /\ r.need \in Nat
             /\ r.pk \in Seq(Nat \X Nat)
  <2>1. buf \o c \in Seq(Cell)
    BY ConcatProperties
  <2> HIDE DEF Cell
  <2> QED
    BY <1>2, <2>1 DEF Result
<1>3. CASE r = Result("READ_HEADER", buf, need, <<Junk>>)
  BY <1>3 DEF Result, Junk
<1>4. CASE c # <<>> /\ r = Result("READ_HEADER", buf, need, BlockPackets(c[1][1]))
  <2>1. c[1][1] \in DOMAIN stream
    BY <1>4 DEF Cell
  <2>2. BlockPackets(c[1][1]) \in Seq(Nat \X Nat)
    BY <2>1, BlockPacketsType
  <2> QED
    BY <1>4, <2>2 DEF Result
<1>5. HdrSize + 2 .. HdrSize + 3 \subseteq Nat
  BY DEF HdrSize
<1>6. ASSUME c # <<>> PROVE BlockSize(stream[c[1][1]]) \in Nat
  <2>1. PICK b : b = stream[c[1][1]]
    OBVIOUS
  <2>2. c[1][1] \in DOMAIN stream
    BY <1>6 DEF Cell
  <2>3. b.count \in Nat /\ b.size \in Nat /\ b.zip \in Nat
    BY <2>1, <2>2, Blocks
  <2>4. BlockSize(b) \in Nat
    BY <2>3 DEF BlockSize, DataSize, HdrSize
  <2> QED
    BY <2>1, <2>4
<1> QED
  BY <1>1, <1>2, <1>3, <1>4, <1>5, <1>6 DEF ParseHeader

LEMMA ParseType ==
    ASSUME Parser, NEW c \in Seq(Cell), NEW r \in Parse(c)
    PROVE  /\ After(r).st \in {"WAIT_HEADER", "READ_HEADER", "READ_BODY"}
           /\ After(r).buf \in Seq(Cell)
           /\ After(r).need \in Nat
           /\ After(r).pk \in Seq(Nat \X Nat)
<1>1. buffer \in Seq(Cell) /\ buffer \o c \in Seq(Cell) /\ dataSize \in Nat
  BY ConcatProperties DEF Parser
<1>2. /\ r.threw \/ /\ r.st \in {"WAIT_HEADER", "READ_HEADER", "READ_BODY"}
                    /\ r.buf \in Seq(Cell) /\ r.need \in Nat
      /\ r.pk \in Seq(Nat \X Nat)
  <2>1. CASE r = Result("WAIT_HEADER", buffer, dataSize, <<>>)
    BY <1>1, <2>1 DEF Result
  <2>2. CASE r = Result("READ_BODY", buffer \o c, dataSize, <<>>)
    <3> HIDE DEF Cell
    <3> QED
      BY <1>1, <2>2 DEF Result
  <2>3. CASE r \in ParseHeader(buffer \o c, buffer \o c, dataSize)
    BY <1>1, <2>3, ParseHeaderType
  <2>4. CASE r \in ParseHeader(c, buffer, dataSize)
    BY <1>1, <2>4, ParseHeaderType
  <2> QED
    BY <2>1, <2>2, <2>3, <2>4 DEF Parse
<1>3. CASE r.threw \/ r.pk # <<>>
  BY <1>2, <1>3 DEF After, Result
<1>4. CASE ~(r.threw \/ r.pk # <<>>)
  BY <1>2, <1>4 DEF After
<1> QED
  BY <1>3, <1>4

\* Initially the parser has seen nothing.
LEMMA ParserInit == Init => Parser
<1> SUFFICES ASSUME Init PROVE Parser
  OBVIOUS
<1>1. stream \in Streams \cup {<<>>}
  BY DEF Init
<1>2. sent = 0 /\ rstate = "WAIT_HEADER" /\ buffer = <<>> /\ dataSize = 0 /\ out = <<>>
  BY DEF Init, ReassemblerInit
<1> QED
  BY <1>1, <1>2 DEF Parser

\* A step of the parser puts what it finds behind what it has found before; the
\* other steps leave it alone, or make a new one.
LEMMA ParserNext == Parser /\ [Next]_vars => Parser' /\ Extended
<1> SUFFICES ASSUME Parser, [Next]_vars PROVE Parser' /\ Extended
  OBVIOUS
<1>0. Len(out) \in Nat
  BY LenProperties DEF Parser
<1>1. ASSUME UNCHANGED rvars PROVE Parser' /\ Extended
  BY <1>0, <1>1 DEF rvars, Parser, Extended, Cell
<1>2. ASSUME Started PROVE Parser' /\ Extended
  <2>1. /\ UNCHANGED <<stream, sent, out>>
        /\ rstate' = "WAIT_HEADER" /\ buffer' = <<>> /\ dataSize' = 0
    BY <1>2 DEF Started
  <2> QED
    BY <1>0, <2>1 DEF Parser, Extended
<1>3. ASSUME NextPacket PROVE Parser' /\ Extended
  <2>1. Extended
    <3> DEFINE t == Packets(params.parser, Snapped(Head(source).pkt))
    <3>1. PICK X : t \in Seq(X)
      <4>1. t = <<>> \/ \E x : t = <<x>>
        BY PacketsForm DEF Packets
      <4> HIDE DEF t
      <4>2. ASSUME NEW x, t = <<x>> PROVE t \in Seq({x})
        BY <4>2
      <4>3. CASE t = <<>>
        <5>1. t \in Seq({})
          BY <4>3
        <5> QED
          BY <5>1
      <4> QED
        BY <4>1, <4>2, <4>3
    <3>2. out' = IF StreamParser THEN out ELSE out \o t
      BY <1>3 DEF NextPacket
    <3> HIDE DEF t
    <3>3. CASE out' = out \o t
      BY <3>1, <3>3, ConcatExtends DEF Parser
    <3>4. CASE out' = out
      BY <1>0, <3>4 DEF Parser, Extended
    <3> QED
      BY <3>2, <3>3, <3>4
  <2> QED
    BY <1>3, <2>1 DEF NextPacket, Parser, Extended, Cell
<1>4. ASSUME NEW m \in Nat, NEW n \in Nat, NextSegment(m, n) PROVE Parser' /\ Extended
  <2> DEFINE c == Piece(m, n)
  <2>1. c \in Seq(Cell)
    BY <1>4, PieceType DEF NextSegment, Feed
  <2>2. PICK r \in Parse(c) : /\ rstate' = After(r).st
                              /\ buffer' = After(r).buf
                              /\ dataSize' = After(r).need
                              /\ out' = out \o After(r).pk
    BY <1>4 DEF NextSegment, Feed
  <2> HIDE DEF c
  <2>3. /\ After(r).st \in {"WAIT_HEADER", "READ_HEADER", "READ_BODY"}
        /\ After(r).buf \in Seq(Cell)
        /\ After(r).need \in Nat
        /\ After(r).pk \in Seq(Nat \X Nat)
    BY <2>1, ParseType
  <2>4. Extended
    BY <2>2, <2>3, ConcatExtends DEF Parser
  <2>5. sent' \in Nat /\ UNCHANGED stream
    BY <1>4 DEF NextSegment, Feed, Parser
  <2> QED
    BY <2>2, <2>3, <2>4, <2>5 DEF Parser, Extended, Cell
<1>5. ASSUME NEW m \in Nat, NEW n \in Nat, NextPiece(m, n) PROVE Parser' /\ Extended
  <2>1. Extended
    <3> DEFINE p == Piece(m, n)
    <3>1. out' = Append(out, p)
      BY <1>5 DEF NextPiece
    <3> HIDE DEF p
    <3>2. <<p>> \in Seq({p}) /\ out \in Seq(Range(out) \cup {p})
      BY DEF Parser
    <3>3. out' = out \o <<p>>
      BY <3>1, <3>2, AppendIsConcat
    <3> QED
      BY <3>2, <3>3, ConcatExtends DEF Parser
  <2> QED
    BY <1>5, <2>1 DEF NextPiece, Parser, Extended, Cell
<1> QED
  <2>1. 1..MaxSegment \subseteq Nat /\ 0..MaxHeld \subseteq Nat
    BY VoipAssumption
  <2>2. CASE Next
    BY <1>1, <1>2, <1>3, <1>4, <1>5, <2>1, <2>2
       DEF Next, WritePacket, WriteFails, Join, NotConfigured, CreateSniffer, Leave,
           Construct, Open, Load, SetNonblock, Stage, OpenFails, Fails, Arrive, WaitEnds,
           WaitFails, Process, Begin, ReportError, NoMore, Eof, ReadError, Notify,
           ConnStep, RunPosted, Expire, Disconnect, StrayRuns
  <2> QED
    BY <1>1, <2>2 DEF vars

-----------------------------------------------------------------------------
(* The inductive invariant.                                                *)

Told == told \in 0..Len(out) /\ cut \subseteq 1..Len(out)

\* The sniffer's life: while its constructor runs it is made for one client,
\* whose connection does not exist yet; a sniffer that is live has its handle
\* and a client, and reads or has said why not.
Device ==
    /\ sniffer \in Opening \cup {"none", "opened", "live"}
    /\ wait \in {"none", "armed", "ready", "error", "processing"}
    /\ fstate \in {"good", "bad"}
    /\ held \subseteq {"handle", "bpf"}
    /\ ended \in {"", "eof", "error", "silent"}
    /\ conn \in [Conn -> {"none", "waiting", "refused", "on", "closing", "dying", "gone"}]
    /\ sniffer \in {"none", "lookup", "open"} => held = {}
    /\ sniffer \in {"compile", "nonblock", "opened", "live"} => held = {"handle"}
    /\ sniffer = "setfilter" => held = {"handle", "bpf"}
    /\ sniffer = "live" /\ wait = "none" => ended # ""
    /\ sniffer \in Opening \cup {"opened"} =>
         \E c \in Conn : creator = {c} /\ conn[c] = "waiting"
    /\ sniffer = "live" <=> \E c \in Conn : Holds(c)

\* Whatever step of opening fails, nothing is kept and the client is refused.
LEMMA FailsForm ==
    ASSUME OpenFails
    PROVE  /\ sniffer \in Opening /\ sniffer' = "none"
           /\ held' \subseteq held /\ (Device => held' = {})
           /\ creator' = {}
           /\ conn' = [c \in Conn |-> IF c \in creator THEN "refused" ELSE conn[c]]
           /\ UNCHANGED <<rvars, fvars, dvars, gen, wvars, nvars, slots, posted, written, span>>
<1>1. ASSUME NEW step \in Opening, NEW released \in SUBSET {"handle", "bpf"},
             Fails(step, released), Device => held \subseteq released
      PROVE  /\ sniffer \in Opening /\ sniffer' = "none"
             /\ held' \subseteq held /\ (Device => held' = {})
             /\ creator' = {}
             /\ conn' = [c \in Conn |-> IF c \in creator THEN "refused" ELSE conn[c]]
             /\ UNCHANGED <<rvars, fvars, dvars, gen, wvars, nvars, slots, posted, written, span>>
  BY <1>1 DEF Fails
<1>2. CASE Fails("lookup", {})
  <2>1. Device => held \subseteq {}
    BY <1>2 DEF Fails, Device
  <2> QED
    BY <1>1, <1>2, <2>1 DEF Opening
<1>3. CASE Fails("open", {})
  <2>1. Device => held \subseteq {}
    BY <1>3 DEF Fails, Device
  <2> QED
    BY <1>1, <1>3, <2>1 DEF Opening
<1>4. CASE Fails("compile", {"handle"})
  <2>1. Device => held \subseteq {"handle"}
    BY <1>4 DEF Fails, Device
  <2> QED
    BY <1>1, <1>4, <2>1 DEF Opening
<1>5. CASE Fails("setfilter", {"bpf", "handle"})
  <2>1. Device => held \subseteq {"bpf", "handle"}
    BY <1>5 DEF Fails, Device
  <2> QED
    BY <1>1, <1>5, <2>1 DEF Opening
<1>6. CASE Fails("nonblock", {"handle"})
  <2>1. Device => held \subseteq {"handle"}
    BY <1>6 DEF Fails, Device
  <2> QED
    BY <1>1, <1>6, <2>1 DEF Opening
<1> QED
  BY <1>2, <1>3, <1>4, <1>5, <1>6 DEF OpenFails

\* Each connection that exists has one slot.
Slots ==
    /\ slots \in Seq(Conn)
    /\ \A i, j \in 1..Len(slots) : slots[i] = slots[j] => i = j
    /\ \A c \in Conn : Holds(c) <=> \E i \in 1..Len(slots) : slots[i] = c

Subscribed(c) == conn[c] \in {"on", "closing", "dying", "gone"}

\* The last packet that concerns c.
Upto(c) == IF conn[c] = "gone" THEN span[c][2] ELSE told

\* A client that has not subscribed has nothing; one whose connection is being
\* destroyed has no handler left.
Empty(c) ==
    /\ ~Subscribed(c) => posted[c] = {} /\ written[c] = {}
    /\ conn[c] \in {"dying", "gone"} => posted[c] = {}

\* ClientsGetTheirShare, packet by packet.
Right(c) ==
    /\ span[c][1] \in 1..(told + 1) /\ Upto(c) <= told
    /\ \A i \in Nat :
         /\ i \in span[c][1]..Upto(c) /\ Passes(c, i) /\ i \notin cut
              => i \in posted[c] \cup written[c]
         /\ i \in written[c] => i \in span[c][1]..Upto(c) /\ Passes(c, i)
         /\ i \in posted[c] => i \in span[c][1]..Upto(c)

Shares ==
    /\ posted \in [Conn -> SUBSET Nat]
    /\ written \in [Conn -> SUBSET Nat]
    /\ span \in [Conn -> Nat \X Nat]
    /\ \A c \in Conn : Empty(c) /\ (Subscribed(c) => Right(c))

IInv ==
    /\ Parser
    /\ Told
    /\ Device
    /\ Slots
    /\ Shares

\* Initially there is no sniffer and no connection.
LEMMA InitInv == Init => IInv
<1> SUFFICES ASSUME Init PROVE IInv
  OBVIOUS
<1>1. Parser
  BY ParserInit
<1>2. Told
  <2>1. out = <<>> /\ told = 0 /\ cut = {}
    BY DEF Init
  <2> QED
    BY <2>1 DEF Told
<1>3. Device
  BY DEF Init, Device, Opening, Holds
<1>4. Slots
  <2>1. slots = <<>> /\ \A c \in Conn : conn[c] = "none"
    BY DEF Init
  <2> QED
    BY <2>1 DEF Slots, Holds
<1>5. Shares
  BY DEF Init, Shares, Empty, Subscribed
<1> QED
  BY <1>1, <1>2, <1>3, <1>4, <1>5 DEF IInv

\* Taking one element out of a sequence.
LEMMA RemoveAtProperties ==
    ASSUME NEW X, NEW s \in Seq(X), NEW i \in 1..Len(s)
    PROVE  /\ RemoveAt(s, i) \in Seq(X)
           /\ Len(RemoveAt(s, i)) = Len(s) - 1
           /\ \A j \in 1..(Len(s) - 1) :
                RemoveAt(s, i)[j] = IF j < i THEN s[j] ELSE s[j + 1]
<1> DEFINE a == SubSeq(s, 1, i - 1)
           b == SubSeq(s, i + 1, Len(s))
<1>0. Len(s) \in Nat /\ \A j \in 1..Len(s) : s[j] \in X
  OBVIOUS
<1>1. a \in Seq(X) /\ Len(a) = i - 1 /\ \A j \in 1..(i - 1) : a[j] = s[j]
  BY <1>0, SubSeqProperties
<1>2. b \in Seq(X) /\ Len(b) = Len(s) - i /\ \A j \in 1..(Len(s) - i) : b[j] = s[i + j]
  BY <1>0, SubSeqProperties
<1> HIDE DEF a, b
<1>3. /\ a \o b \in Seq(X)
      /\ Len(a \o b) = Len(a) + Len(b)
      /\ \A j \in 1..(Len(a) + Len(b)) :
           (a \o b)[j] = IF j <= Len(a) THEN a[j] ELSE b[j - Len(a)]
  BY <1>1, <1>2, ConcatProperties
<1>4. RemoveAt(s, i) = a \o b
  BY DEF RemoveAt, a, b
<1>5. ASSUME NEW j \in 1..(Len(s) - 1)
      PROVE  (a \o b)[j] = IF j < i THEN s[j] ELSE s[j + 1]
  <2>1. (a \o b)[j] = IF j <= i - 1 THEN a[j] ELSE b[j - (i - 1)]
    BY <1>0, <1>1, <1>2, <1>3
  <2>2. CASE j < i
    BY <1>0, <1>1, <2>1, <2>2
  <2>3. CASE ~(j < i)
    <3>1. j - (i - 1) \in 1..(Len(s) - i) /\ i + (j - (i - 1)) = j + 1
      BY <1>0, <2>3
    <3> QED
      BY <1>2, <2>1, <2>3, <3>1
  <2> QED
    BY <2>2, <2>3
<1> QED
  BY <1>0, <1>1, <1>2, <1>3, <1>4, <1>5

\* A packet that was found passes a filter as before.
LEMMA PassesSame ==
    ASSUME Extended, UNCHANGED params
    PROVE  \A c \in Conn : \A i \in 1..Len(out) : Passes(c, i)' <=> Passes(c, i)
BY DEF Extended, Passes, StreamParser

\* A step that concerns no connection, notifies nobody and leaves the sniffer's
\* life alone keeps the shares, however many packets it finds.
LEMMA SharesFrame ==
    ASSUME IInv, Extended, UNCHANGED <<params, cvars, told, cut>>
    PROVE  Told' /\ Slots' /\ Shares'
<1> USE DEF IInv, cvars
<1>0. Len(out) \in Nat /\ Len(out') \in Nat
  BY LenProperties DEF Extended, Parser
<1>1. Told'
  BY <1>0 DEF Told, Extended
<1>2. Slots'
  BY DEF Slots, Holds
<1>3. ASSUME NEW c \in Conn PROVE Empty(c)' /\ (Subscribed(c)' => Right(c)')
  <2>1. Empty(c)'
    BY DEF Shares, Empty, Subscribed
  <2>2. ASSUME Subscribed(c)' PROVE Right(c)'
    <3>1. Right(c) /\ UNCHANGED Upto(c)
      BY <2>2 DEF Shares, Subscribed, Upto
    <3>2. \A i \in Nat : i \in span[c][1]..Upto(c) => i \in 1..Len(out)
      <4>1. span[c][1] \in Nat /\ span[c][1] >= 1 /\ Upto(c) \in Nat /\ Upto(c) <= told
        BY <3>1 DEF Right, Shares, Upto, Told
      <4>2. told <= Len(out) /\ told \in Nat
        BY <1>0 DEF Told
      <4> QED
        BY <1>0, <4>1, <4>2
    <3>3. \A i \in Nat : i \in span[c][1]..Upto(c) => (Passes(c, i)' <=> Passes(c, i))
      BY <3>2, PassesSame
    <3> QED
      BY <3>1, <3>3 DEF Right
  <2> QED
    BY <2>1, <2>2
<1> QED
  BY <1>1, <1>2, <1>3 DEF Shares

\* A step that changes nothing of a client keeps its share.
LEMMA RightSame ==
    ASSUME NEW c \in Conn, Right(c), UNCHANGED <<params, out, told, cut>>,
           posted'[c] = posted[c], written'[c] = written[c], span'[c] = span[c],
           conn'[c] = "gone" <=> conn[c] = "gone"
    PROVE  Right(c)'
<1>1. UNCHANGED Upto(c)
  BY DEF Upto
<1>2. \A i \in Nat : Passes(c, i)' <=> Passes(c, i)
  BY DEF Passes, StreamParser
<1> QED
  BY <1>1, <1>2 DEF Right

\* The steps of the file, the device and the parser.
LEMMA CaptureInv ==
    ASSUME IInv, Parser', Extended,
           \/ \E n \in Sizes, v \in {4, 6} : WritePacket(v, n) \/ WriteFails(v, n)
           \/ Open \/ Load \/ SetNonblock
           \/ \E p \in LivePackets : Arrive(p)
           \/ WaitEnds \/ WaitFails
           \/ Begin \/ ReportError \/ NextPacket \/ NoMore \/ Eof \/ ReadError
           \/ \E n \in 1..MaxSegment, m \in 0..MaxHeld : NextSegment(m, n) \/ NextPiece(m, n)
           \/ \E h \in stray : StrayRuns(h)
    PROVE  IInv'
<1>1. UNCHANGED <<params, cvars, told, cut>>
  BY DEF WritePacket, WriteFails, Open, Load, SetNonblock, Stage, Arrive, WaitEnds,
         WaitFails, Begin, ReportError, NextPacket, NoMore, Eof, ReadError, NextSegment,
         NextPiece, StrayRuns, fvars, nvars
<1>2. Device'
  <2>1. Device
    BY DEF IInv
  <2>2. CASE Open \/ Load \/ SetNonblock
    BY <1>1, <2>1, <2>2
    DEF Open, Load, SetNonblock, Stage, Device, Opening, Holds, cvars, fvars, wvars,
        nvars
  <2>3. CASE WaitEnds \/ WaitFails \/ Begin \/ ReportError \/ NoMore \/ Eof \/ ReadError
    BY <1>1, <2>1, <2>3
    DEF WaitEnds, WaitFails, Begin, ReportError, NoMore, Eof, ReadError, Device,
        Opening, Holds, cvars, fvars, svars, nvars
  <2>4. CASE UNCHANGED <<sniffer, creator, held, wait, ended>> /\ fstate' \in {"good", "bad"}
    BY <1>1, <2>1, <2>4 DEF Device, Opening, Holds, cvars
  <2> QED
    BY <2>1, <2>2, <2>3, <2>4
    DEF WritePacket, WriteFails, Arrive, NextPacket, NextSegment, NextPiece,
        StrayRuns, fvars, svars, wvars, nvars, Device
<1> QED
  BY <1>1, <1>2, SharesFrame DEF IInv

\* A connection that subscribes starts with an empty share.
LEMMA SubscribeInv ==
    ASSUME IInv, NEW c \in Conn, ~Subscribed(c), Subscribe(c),
           UNCHANGED <<params, out, told, cut, posted, written>>
    PROVE  Told' /\ Slots' /\ Shares'
<1> USE DEF IInv
<1>0. Len(out) \in Nat /\ told \in Nat /\ told <= Len(out)
  BY LenProperties DEF Parser, Told
<1>1. Told'
  BY DEF Told
<1>2. conn'[c] = "on" /\ \A d \in Conn \ {c} : conn'[d] = conn[d]
  BY DEF Subscribe, Device
<1>3. Slots'
  <2>1. /\ slots' \in Seq(Conn)
        /\ Len(slots') = Len(slots) + 1
        /\ Len(slots) \in Nat
        /\ slots'[Len(slots) + 1] = c
        /\ \A i \in 1..Len(slots) : slots'[i] = slots[i]
    BY DEF Subscribe, Slots
  <2>2. \A i \in 1..Len(slots) : slots[i] # c
    BY DEF Slots, Subscribed, Holds
  <2>3. \A i, j \in 1..Len(slots') : slots'[i] = slots'[j] => i = j
    BY <2>1, <2>2 DEF Slots
  <2>4. ASSUME NEW d \in Conn
        PROVE  Holds(d)' <=> \E i \in 1..Len(slots') : slots'[i] = d
    <3>1. CASE d = c
      BY <1>2, <2>1, <3>1 DEF Holds
    <3>2. CASE d # c
      <4>1. Holds(d)' <=> Holds(d)
        BY <1>2, <3>2 DEF Holds
      <4>2. (\E i \in 1..Len(slots') : slots'[i] = d) <=> \E i \in 1..Len(slots) : slots[i] = d
        BY <2>1, <3>2
      <4> QED
        BY <4>1, <4>2 DEF Slots
    <3> QED
      BY <3>1, <3>2
  <2> QED
    BY <2>1, <2>3, <2>4 DEF Slots
<1>4. span' \in [Conn -> Nat \X Nat] /\ span'[c] = <<told + 1, 0>>
      /\ \A d \in Conn \ {c} : span'[d] = span[d]
  BY <1>0 DEF Subscribe, Shares
<1>5. ASSUME NEW d \in Conn PROVE Empty(d)' /\ (Subscribed(d)' => Right(d)')
  <2>1. CASE d = c
    <3>1. posted'[c] = {} /\ written'[c] = {}
      BY DEF Shares, Empty
    <3>2. Upto(c)' = told /\ span'[c][1] = told + 1
      BY <1>2, <1>4 DEF Upto
    <3>3. Right(c)'
      BY <1>0, <3>1, <3>2 DEF Right
    <3> QED
      BY <1>2, <2>1, <3>1, <3>3 DEF Empty, Subscribed
  <2>2. CASE d # c
    <3>1. Empty(d)' /\ (Subscribed(d)' <=> Subscribed(d))
      BY <1>2, <2>2 DEF Shares, Empty, Subscribed
    <3> QED
      BY <1>2, <1>4, <2>2, <3>1, RightSame DEF Shares
  <2> QED
    BY <2>1, <2>2
<1> QED
  BY <1>1, <1>3, <1>4, <1>5 DEF Shares

\* A step of any thread keeps the invariant.
LEMMA NextInv == IInv /\ [Next]_vars => IInv'
<1> SUFFICES ASSUME IInv, [Next]_vars PROVE IInv'
  OBVIOUS
<1>0. Parser' /\ Extended
  BY ParserNext DEF IInv
<1> USE DEF IInv, rvars, fvars, svars, wvars, nvars
<1>a. Len(out) \in Nat /\ told \in Nat /\ told <= Len(out)
  BY LenProperties DEF Parser, Told
<1>1. ASSUME NEW c \in Conn, NotConfigured(c) PROVE IInv'
  <2>1. UNCHANGED <<params, out, told, cut, slots, posted, written, span>>
    BY <1>1 DEF NotConfigured
  <2>2. Told'
    BY <2>1 DEF Told
  <2>3. Device'
    BY <1>1 DEF NotConfigured, Device, Opening, Holds
  <2>4. \A d \in Conn : Holds(d)' <=> Holds(d)
    BY <1>1 DEF NotConfigured, Device, Opening, Holds
  <2>5. Slots'
    BY <2>1, <2>4 DEF Slots
  <2>6. ASSUME NEW d \in Conn PROVE Empty(d)' /\ (Subscribed(d)' => Right(d)')
    <3>1. Subscribed(d)' <=> Subscribed(d)
      BY <1>1 DEF NotConfigured, Subscribed, Device, Opening, Holds
    <3>2. Empty(d)'
      BY <1>1, <2>1, <3>1 DEF NotConfigured, Shares, Empty, Subscribed, Device, Opening
    <3>3. conn'[d] = "gone" <=> conn[d] = "gone"
      BY <1>1 DEF NotConfigured, Device, Opening
    <3> QED
      BY <2>1, <3>1, <3>2, <3>3, RightSame DEF Shares
  <2> QED
    BY <1>0, <2>1, <2>2, <2>3, <2>5, <2>6 DEF Shares
<1>2. ASSUME NEW c \in Conn, CreateSniffer(c) PROVE IInv'
  <2>1. UNCHANGED <<params, out, told, cut, slots, posted, written, span>>
    BY <1>2 DEF CreateSniffer
  <2>2. Told'
    BY <2>1 DEF Told
  <2>3. Device'
    BY <1>2 DEF CreateSniffer, Device, Opening, Holds
  <2>4. \A d \in Conn : Holds(d)' <=> Holds(d)
    BY <1>2 DEF CreateSniffer, Device, Opening, Holds
  <2>5. Slots'
    BY <2>1, <2>4 DEF Slots
  <2>6. ASSUME NEW d \in Conn PROVE Empty(d)' /\ (Subscribed(d)' => Right(d)')
    <3>1. Subscribed(d)' <=> Subscribed(d)
      BY <1>2 DEF CreateSniffer, Subscribed, Device, Opening, Holds
    <3>2. Empty(d)'
      BY <1>2, <2>1, <3>1 DEF CreateSniffer, Shares, Empty, Subscribed, Device, Opening
    <3>3. conn'[d] = "gone" <=> conn[d] = "gone"
      BY <1>2 DEF CreateSniffer, Device, Opening
    <3> QED
      BY <2>1, <3>1, <3>2, <3>3, RightSame DEF Shares
  <2> QED
    BY <1>0, <2>1, <2>2, <2>3, <2>5, <2>6 DEF Shares
<1>3. ASSUME OpenFails PROVE IInv'
  <2>1. UNCHANGED <<params, out, told, cut, slots, posted, written, span>>
    BY <1>3 DEF OpenFails, Fails
  <2>2. Told'
    BY <2>1 DEF Told
  <2>3. Device'
    BY <1>3, FailsForm DEF Device, Opening, Holds
  <2>4. \A d \in Conn : Holds(d)' <=> Holds(d)
    BY <1>3, FailsForm DEF Device, Opening, Holds
  <2>5. Slots'
    BY <2>1, <2>4 DEF Slots
  <2>6. ASSUME NEW d \in Conn PROVE Empty(d)' /\ (Subscribed(d)' => Right(d)')
    <3>1. Subscribed(d)' <=> Subscribed(d)
      BY <1>3 DEF OpenFails, Fails, Subscribed, Device, Opening, Holds
    <3>2. Empty(d)'
      BY <1>3, <2>1, <3>1 DEF OpenFails, Fails, Shares, Empty, Subscribed, Device, Opening
    <3>3. conn'[d] = "gone" <=> conn[d] = "gone"
      BY <1>3 DEF OpenFails, Fails, Device, Opening
    <3> QED
      BY <2>1, <3>1, <3>2, <3>3, RightSame DEF Shares
  <2> QED
    BY <1>0, <2>1, <2>2, <2>3, <2>5, <2>6 DEF Shares
<1>4. ASSUME NEW c \in Conn, Leave(c) PROVE IInv'
  <2>1. UNCHANGED <<params, out, told, cut, slots, posted, written, span>>
    BY <1>4 DEF Leave
  <2>2. Told'
    BY <2>1 DEF Told
  <2>3. Device'
    BY <1>4 DEF Leave, Device, Opening, Holds
  <2>4. \A d \in Conn : Holds(d)' <=> Holds(d)
    BY <1>4 DEF Leave, Device, Opening, Holds
  <2>5. Slots'
    BY <2>1, <2>4 DEF Slots
  <2>6. ASSUME NEW d \in Conn PROVE Empty(d)' /\ (Subscribed(d)' => Right(d)')
    <3>1. Subscribed(d)' <=> Subscribed(d)
      BY <1>4 DEF Leave, Subscribed, Device, Opening, Holds
    <3>2. Empty(d)'
      BY <1>4, <2>1, <3>1 DEF Leave, Shares, Empty, Subscribed, Device, Opening
    <3>3. conn'[d] = "gone" <=> conn[d] = "gone"
      BY <1>4 DEF Leave, Device, Opening
    <3> QED
      BY <2>1, <3>1, <3>2, <3>3, RightSame DEF Shares
  <2> QED
    BY <1>0, <2>1, <2>2, <2>3, <2>5, <2>6 DEF Shares
<1>5. ASSUME NEW c \in Conn, Expire(c) PROVE IInv'
  <2>1. UNCHANGED <<params, out, told, cut, slots, posted, written, span>>
    BY <1>5 DEF Expire
  <2>2. Told'
    BY <2>1 DEF Told
  <2>3. Device'
    BY <1>5 DEF Expire, Device, Opening, Holds
  <2>4. \A d \in Conn : Holds(d)' <=> Holds(d)
    BY <1>5 DEF Expire, Device, Opening, Holds
  <2>5. Slots'
    BY <2>1, <2>4 DEF Slots
  <2>6. ASSUME NEW d \in Conn PROVE Empty(d)' /\ (Subscribed(d)' => Right(d)')
    <3>1. Subscribed(d)' <=> Subscribed(d)
      BY <1>5 DEF Expire, Subscribed, Device, Opening, Holds
    <3>2. Empty(d)'
      BY <1>5, <2>1, <3>1 DEF Expire, Shares, Empty, Subscribed, Device, Opening
    <3>3. conn'[d] = "gone" <=> conn[d] = "gone"
      BY <1>5 DEF Expire, Device, Opening
    <3> QED
      BY <2>1, <3>1, <3>2, <3>3, RightSame DEF Shares
  <2> QED
    BY <1>0, <2>1, <2>2, <2>3, <2>5, <2>6 DEF Shares
<1>6. ASSUME NEW c \in Conn, Join(c) PROVE IInv'
  <2>1. ~Subscribed(c) /\ Subscribe(c) /\ UNCHANGED <<params, out, told, cut, posted, written>>
    BY <1>6 DEF Join, Subscribed
  <2>2. Device'
    BY <1>6 DEF Join, Subscribe, Device, Opening, Holds
  <2> QED
    BY <1>0, <2>1, <2>2, SubscribeInv
<1>7. ASSUME Started PROVE IInv'
  <2>1. PICK c \in Conn : creator = {c} /\ conn[c] = "waiting"
    BY <1>7 DEF Started, Device
  <2>2. /\ ~Subscribed(c) /\ Subscribe(c)
        /\ UNCHANGED <<params, out, told, cut, posted, written>>
    BY <1>7, <2>1 DEF Started, Subscribed
  <2>3. Device'
    BY <1>7, <2>1, <2>2 DEF Started, Subscribe, Device, Opening, Holds
  <2> QED
    BY <1>0, <2>2, <2>3, SubscribeInv
<1>8. ASSUME NEW c \in Conn, NEW i \in posted[c], RunPosted(c, i) PROVE IInv'
  <2>1. UNCHANGED <<params, out, told, cut, conn, slots, span>>
    BY <1>8 DEF RunPosted
  <2>2. Told' /\ Slots'
    BY <2>1 DEF Told, Slots, Holds
  <2>6. Device'
    BY <1>8, <2>1 DEF RunPosted, Device, Opening, Holds
  <2>3. i \in Nat /\ Subscribed(c)
    BY DEF Shares, Empty
  <2>4. /\ posted' \in [Conn -> SUBSET Nat] /\ written' \in [Conn -> SUBSET Nat]
        /\ posted'[c] = posted[c] \ {i}
        /\ Passes(c, i) => written'[c] = written[c] \cup {i}
        /\ ~Passes(c, i) => written'[c] = written[c]
        /\ \A d \in Conn \ {c} : posted'[d] = posted[d] /\ written'[d] = written[d]
    BY <1>8, <2>3 DEF RunPosted, Shares
  <2>5. ASSUME NEW d \in Conn PROVE Empty(d)' /\ (Subscribed(d)' => Right(d)')
    <3>1. CASE d = c
      <4>1. Empty(c)'
        BY <2>1, <2>3, <2>4 DEF Shares, Empty, Subscribed
      <4>2. \A j \in Nat : Passes(c, j)' <=> Passes(c, j)
        BY <2>1 DEF Passes, StreamParser
      <4>3. Right(c)'
        BY <2>1, <2>3, <2>4, <4>2 DEF Shares, Right, Upto
      <4> QED
        BY <3>1, <4>1, <4>3
    <3>2. CASE d # c
      <4>1. Empty(d)' /\ (Subscribed(d)' <=> Subscribed(d))
        BY <2>1, <2>4, <3>2 DEF Shares, Empty, Subscribed
      <4> QED
        BY <2>1, <2>4, <3>2, <4>1, RightSame DEF Shares
    <3> QED
      BY <3>1, <3>2
  <2> QED
    BY <1>0, <2>1, <2>2, <2>4, <2>5, <2>6 DEF Shares
<1>9. ASSUME Notify PROVE IInv'
  <2>1. UNCHANGED <<params, out, conn, slots, written, span>> /\ told' = told + 1
    BY <1>9 DEF Notify
  <2>2. told + 1 \in 1..Len(out) /\ cut \subseteq cut' /\ cut' \subseteq cut \cup {told + 1}
    BY <1>9, <1>a DEF Notify
  <2>3. Told' /\ Slots' /\ Device'
    <3>1. Told'
      BY <1>a, <2>1, <2>2 DEF Told
    <3>2. Slots'
      BY <2>1 DEF Slots, Holds
    <3>3. Device'
      BY <1>9, <2>1 DEF Notify, Device, Opening, Holds
    <3> QED
      BY <3>1, <3>2, <3>3
  <2>4. posted' = [c \in Conn |-> IF c \in Reached THEN posted[c] \cup {told + 1}
                                                   ELSE posted[c]]
    BY <1>9 DEF Notify
  <2>5. ASSUME NEW c \in Conn, c \in Reached
        PROVE  conn[c] \in {"on", "closing"}
    <3>1. PICK j \in DOMAIN slots : slots[j] = c /\ \A k \in 1..j : conn[slots[k]] # "dying"
      BY <2>5, Zenon DEF Reached
    <3>2. j \in 1..Len(slots) /\ j \in 1..j
      BY <3>1 DEF Slots
    <3>3. Holds(c) /\ conn[c] # "dying"
      BY <3>1, <3>2 DEF Slots
    <3> QED
      BY <3>3 DEF Holds
  <2>6. ASSUME NEW c \in Conn, conn[c] \in {"on", "closing", "dying"}
        PROVE  c \in Reached \/ told + 1 \in cut'
    <3>1. c \in Range(slots)
      BY <2>6 DEF Slots, Holds, Range
    <3> QED
      BY <1>9, <3>1 DEF Notify
  <2>7. ASSUME NEW c \in Conn PROVE Empty(c)' /\ (Subscribed(c)' => Right(c)')
    <3>1. Empty(c)'
      BY <2>1, <2>4, <2>5 DEF Shares, Empty, Subscribed
    <3>2. CASE conn[c] = "gone"
      <4>1. Right(c) /\ Upto(c) \in Nat /\ UNCHANGED Upto(c)
        BY <2>1, <3>2 DEF Shares, Subscribed, Upto
      <4>2. \A j \in Nat : Passes(c, j)' <=> Passes(c, j)
        BY <2>1 DEF Passes, StreamParser
      <4>3. posted'[c] = posted[c]
        BY <2>4, <2>5, <3>2
      <4>4. Right(c)'
        BY <1>a, <2>1, <2>2, <4>1, <4>2, <4>3 DEF Right
      <4> QED
        BY <3>1, <4>4
    <3>3. CASE conn[c] \in {"on", "closing", "dying"}
      <4>1. Right(c) /\ Upto(c) = told /\ Upto(c)' = told + 1
        BY <2>1, <3>3 DEF Shares, Subscribed, Upto
      <4>2. \A j \in Nat : Passes(c, j)' <=> Passes(c, j)
        BY <2>1 DEF Passes, StreamParser
      <4>3. span[c][1] \in Nat
        BY DEF Shares
      <4>4. told + 1 \in posted'[c] \/ told + 1 \in cut'
        BY <2>4, <2>6, <3>3
      <4>5. posted[c] \subseteq posted'[c] /\ posted'[c] \subseteq posted[c] \cup {told + 1}
        BY <2>4
      <4>6. \A j \in Nat : j \in span[c][1]..(told + 1) <=>
                             j \in span[c][1]..told \/ (j = told + 1 /\ span[c][1] <= told + 1)
        BY <1>a, <4>3
      <4>7. Right(c)'
        BY <1>a, <2>1, <2>2, <4>1, <4>2, <4>3, <4>4, <4>5, <4>6 DEF Right
      <4> QED
        BY <3>1, <4>7
    <3> QED
      BY <2>1, <3>1, <3>2, <3>3 DEF Subscribed
  <2>8. posted' \in [Conn -> SUBSET Nat]
    BY <1>a, <2>4 DEF Shares
  <2> QED
    BY <1>0, <2>1, <2>3, <2>7, <2>8 DEF Shares
<1>10. ASSUME NEW c \in Conn, Disconnect(c) PROVE IInv'
  <2> DEFINE Alone == ~\E d \in Conn \ {c} : Holds(d)
  <2>1. UNCHANGED <<params, out, cut, posted, written, fstate, ended, creator>>
    BY <1>10 DEF Disconnect
  <2>2. /\ conn[c] = "dying" /\ Holds(c) /\ conn'[c] = "gone"
        /\ \A d \in Conn \ {c} : conn'[d] = conn[d]
        /\ conn' \in [Conn -> {"none", "waiting", "refused", "on", "closing", "dying", "gone"}]
    BY <1>10 DEF Disconnect, Holds, Device
  <2>3. ~Alone => UNCHANGED <<sniffer, held, wait, told>>
    BY <1>10 DEF Disconnect
  <2>4. Alone => sniffer' = "none" /\ held' = held \ {"handle"} /\ wait' = "none" /\ told' = Len(out)
    BY <1>10 DEF Disconnect, DestroySniffer
  <2>5. \A d \in Conn : Holds(d)' <=> d # c /\ Holds(d)
    BY <2>2 DEF Holds
  <2>6. Device'
    <3>1. sniffer = "live"
      BY <2>2 DEF Device
    <3>2. CASE Alone
      BY <2>1, <2>2, <2>4, <2>5, <3>2 DEF Device, Opening
    <3>3. CASE ~Alone
      BY <2>1, <2>2, <2>3, <2>5, <3>1, <3>3 DEF Device, Opening
    <3> QED
      BY <3>2, <3>3
  <2>7. told' \in Nat /\ told <= told' /\ told' <= Len(out)
    BY <1>a, <2>3, <2>4
  <2>8. Told'
    BY <1>a, <2>1, <2>7 DEF Told
  <2>9. Slots'
    <3>1. PICK i \in DOMAIN slots : slots[i] = c /\ slots' = RemoveAt(slots, i)
      BY <1>10 DEF Disconnect
    <3>2. i \in 1..Len(slots) /\ Len(slots) \in Nat
      BY DEF Slots
    <3>3. /\ slots' \in Seq(Conn)
          /\ Len(slots') = Len(slots) - 1
          /\ \A j \in 1..(Len(slots) - 1) : slots'[j] = IF j < i THEN slots[j] ELSE slots[j + 1]
      <4>1. slots \in Seq(Conn)
        BY DEF Slots
      <4>2. /\ RemoveAt(slots, i) \in Seq(Conn)
            /\ Len(RemoveAt(slots, i)) = Len(slots) - 1
            /\ \A j \in 1..(Len(slots) - 1) :
                 RemoveAt(slots, i)[j] = IF j < i THEN slots[j] ELSE slots[j + 1]
        BY <3>2, <4>1, RemoveAtProperties
      <4> QED
        BY <3>1, <4>2, Zenon
    <3> DEFINE at(j) == IF j < i THEN j ELSE j + 1
    <3>4. \A j \in 1..Len(slots') :
             at(j) \in 1..Len(slots) /\ at(j) # i /\ slots'[j] = slots[at(j)]
      BY <3>2, <3>3
    <3>5. \A j, k \in 1..Len(slots') : at(j) = at(k) => j = k
      BY <3>2, <3>3
    <3>6. \A j, k \in 1..Len(slots') : slots'[j] = slots'[k] => j = k
      <4> HIDE DEF at
      <4> QED
        BY <3>4, <3>5 DEF Slots
    <3>7. ASSUME NEW d \in Conn
          PROVE  Holds(d)' <=> \E j \in 1..Len(slots') : slots'[j] = d
      <4>1. ASSUME NEW j \in 1..Len(slots'), slots'[j] = d PROVE d # c /\ Holds(d)
        <5> HIDE DEF at
        <5> QED
          BY <3>1, <3>2, <3>4, <4>1 DEF Slots
      <4>2. ASSUME d # c, Holds(d) PROVE \E j \in 1..Len(slots') : slots'[j] = d
        <5>1. PICK k \in 1..Len(slots) : slots[k] = d /\ k # i
          BY <3>1, <4>2 DEF Slots
        <5>2. CASE k < i
          BY <3>2, <3>3, <5>1, <5>2
        <5>3. CASE k > i
          <6>1. k - 1 \in 1..Len(slots') /\ k - 1 + 1 = k /\ ~(k - 1 < i)
            BY <3>2, <3>3, <5>3
          <6>2. slots'[k - 1] = slots[k]
            BY <3>3, <6>1
          <6> QED
            BY <5>1, <6>1, <6>2
        <5> QED
          BY <3>2, <5>1, <5>2, <5>3
      <4> QED
        BY <2>5, <4>1, <4>2
    <3> QED
      BY <3>3, <3>6, <3>7 DEF Slots
  <2>10. /\ span' \in [Conn -> Nat \X Nat]
         /\ span'[c][1] = span[c][1] /\ span'[c][2] = told
         /\ \A d \in Conn \ {c} : span'[d] = span[d]
    BY <1>10, <1>a DEF Disconnect, Shares
  <2>11. ASSUME NEW d \in Conn PROVE Empty(d)' /\ (Subscribed(d)' => Right(d)')
    <3>1. Empty(d)'
      BY <2>1, <2>2 DEF Shares, Empty, Subscribed
    <3>2. ASSUME Subscribed(d)' PROVE Right(d)'
      <4>1. Right(d) /\ span[d][1] \in Nat /\ Upto(d) \in Nat
        BY <1>a, <2>2, <3>2 DEF Shares, Subscribed, Upto
      <4>2. span'[d][1] = span[d][1] /\ UNCHANGED Upto(d)
        <5>1. CASE d = c
          BY <2>2, <2>10, <5>1 DEF Upto
        <5>2. CASE d # c /\ conn[d] = "gone"
          BY <2>2, <2>10, <5>2 DEF Upto
        <5>3. CASE d # c /\ conn[d] # "gone"
          <6>1. Holds(d)
            BY <2>2, <3>2, <5>3 DEF Subscribed, Holds
          <6>2. UNCHANGED told
            BY <2>3, <5>3, <6>1
          <6> QED
            BY <2>2, <2>10, <5>3, <6>2 DEF Upto
        <5> QED
          BY <5>1, <5>2, <5>3
      <4>3. \A j \in Nat : Passes(d, j)' <=> Passes(d, j)
        BY <2>1 DEF Passes, StreamParser
      <4> QED
        BY <1>a, <2>1, <2>7, <4>1, <4>2, <4>3 DEF Right
    <3> QED
      BY <3>1, <3>2
  <2> QED
    BY <1>0, <2>1, <2>6, <2>8, <2>9, <2>10, <2>11 DEF Shares
<1>11. ASSUME UNCHANGED vars PROVE IInv'
  <2>1. UNCHANGED <<params, cvars, told, cut>>
    BY <1>11 DEF vars, cvars
  <2>2. UNCHANGED <<sniffer, creator, held, wait, ended, fstate, conn>>
    BY <1>11 DEF vars, cvars
  <2>3. Device'
    BY <2>2 DEF Device, Opening, Holds
  <2> QED
    BY <1>0, <2>1, <2>3, SharesFrame
<1> HIDE DEF IInv
<1> QED
  BY <1>0, <1>1, <1>2, <1>3, <1>4, <1>5, <1>6, <1>7, <1>8, <1>9, <1>10, <1>11,
     CaptureInv
  DEF Next, Construct, Process, ConnStep

\* The invariant holds in every state of every behaviour.
THEOREM Invariant == Spec => []IInv
BY InitInv, NextInv, PTL DEF Spec

\* Whatever step of opening fails, nothing of libpcap is left; a sniffer has its
\* handle as long as a client holds it; and one that has stopped to read either
\* said so or could not (device.cpp:24-88, capture.cpp:23-108, grabber.cpp:85-115).
THEOREM DeviceMatchesClientsHolds == Spec => []DeviceMatchesClients
<1>1. IInv => DeviceMatchesClients
  BY DEF IInv, Parser, Told, Device, DeviceMatchesClients, TypeOK
<1> QED
  BY <1>1, Invariant, PTL

\* A client is posted every packet from its subscription to its end, and is
\* written those that pass its filter, except a packet whose notification was
\* interrupted; and it gets nothing else (sniffer.cpp:69-94,
\* livecapture/connection.cpp:28-38,110-138).
THEOREM ClientsGetTheirShareHolds == Spec => []ClientsGetTheirShare
<1>1. IInv => ClientsGetTheirShare
  <2> SUFFICES ASSUME IInv, NEW c \in Conn, Subscribed(c)
               PROVE  LET share == {i \in span[c][1]..Upto(c) : Passes(c, i)}
                      IN  /\ share \ cut \subseteq posted[c] \cup written[c]
                          /\ written[c] \subseteq share
                          /\ posted[c] \subseteq span[c][1]..Upto(c)
    BY DEF ClientsGetTheirShare, Subscribed, Upto
  <2>1. Right(c) /\ posted[c] \subseteq Nat /\ written[c] \subseteq Nat
    BY DEF IInv, Shares
  <2>2. span[c][1]..Upto(c) \subseteq Nat
    <3>1. told \in Nat
      BY LenProperties DEF IInv, Told, Parser
    <3>2. span[c][1] \in Nat /\ Upto(c) \in Nat
      BY <3>1 DEF IInv, Shares, Upto
    <3> QED
      BY <3>2
  <2> QED
    BY <2>1, <2>2 DEF Right
<1> QED
  BY <1>1, Invariant, PTL

-----------------------------------------------------------------------------
(* The blocks in the stream.                                               *)

Laid == [b \in DOMAIN stream |-> [i \in 1..BlockSize(stream[b]) |-> <<b, i>>]]

\* EndOf[k] cells of the stream are those of the first k blocks.
EndOf == CHOOSE at : Ends(at, Laid, Cells)

LEMMA CellsFacts ==
    ASSUME Parser
    PROVE  /\ Cells \in Seq(Cell) /\ Len(Cells) \in Nat /\ Len(stream) \in Nat
           /\ Laid \in Seq(Seq(Cell)) /\ Len(Laid) = Len(stream)
           /\ Ends(EndOf, Laid, Cells)
           /\ EndOf \in [0..Len(stream) -> Nat]
           /\ EndOf[0] = 0 /\ EndOf[Len(stream)] = Len(Cells)
           /\ \A k \in 1..Len(stream) :
                 /\ BlockSize(stream[k]) \in Nat /\ HdrSize <= BlockSize(stream[k])
                 /\ EndOf[k] = EndOf[k - 1] + BlockSize(stream[k])
                 /\ EndOf[k] <= Len(Cells)
                 /\ \A i \in 1..BlockSize(stream[k]) : Cells[EndOf[k - 1] + i] = <<k, i>>
<1>1. DOMAIN stream = 1..Len(stream) /\ Len(stream) \in Nat
  BY Blocks
<1> DEFINE B(b) == [i \in 1..BlockSize(stream[b]) |-> <<b, i>>]
<1>2. \A b \in 1..Len(stream) : BlockSize(stream[b]) \in Nat /\ HdrSize <= BlockSize(stream[b])
  <2> SUFFICES ASSUME NEW b \in 1..Len(stream)
               PROVE  BlockSize(stream[b]) \in Nat /\ HdrSize <= BlockSize(stream[b])
    OBVIOUS
  <2>1. stream[b].count \in Nat /\ DataSize(stream[b]) \in Nat
    BY Blocks, <1>1 DEF DataSize
  <2> QED
    BY <2>1 DEF BlockSize, HdrSize
<1>3. ASSUME NEW b \in 1..Len(stream)
      PROVE  B(b) \in Seq(Cell) /\ Len(B(b)) = BlockSize(stream[b])
  BY <1>1, <1>2 DEF Cell
<1>4. \A b \in 1..Len(stream) : \A i \in 1..BlockSize(stream[b]) : B(b)[i] = <<b, i>>
  OBVIOUS
<1>5. Laid = [b \in 1..Len(stream) |-> B(b)]
  BY <1>1, Zenon DEF Laid
<1> HIDE DEF B
<1>6. Laid \in [1..Len(stream) -> Seq(Cell)] /\ \A b \in 1..Len(stream) : Laid[b] = B(b)
  BY <1>3, <1>5, Zenon
<1>7. Laid \in Seq(Seq(Cell)) /\ Len(Laid) = Len(stream)
  BY <1>1, <1>6
<1>8. Cells = FlattenSeq(Laid)
  BY Zenon DEF Cells, Laid
<1>9. Cells \in Seq(Cell) /\ Ends(EndOf, Laid, Cells)
  <2>1. FlattenSeq(Laid) \in Seq(Cell) /\ \E at : Ends(at, Laid, FlattenSeq(Laid))
    BY <1>7, FlattenParts
  <2>2. \E at : Ends(at, Laid, Cells)
    BY <1>8, <2>1, Zenon
  <2> QED
    BY <1>8, <2>1, <2>2, Zenon DEF EndOf
<1>10. Len(Cells) \in Nat
  <2> HIDE DEF Cell
  <2> QED
    BY <1>9, LenProperties
<1>11. /\ EndOf \in [0..Len(stream) -> Nat]
       /\ EndOf[0] = 0 /\ EndOf[Len(stream)] = Len(Cells)
       /\ \A k \in 1..Len(stream) :
             /\ EndOf[k] = EndOf[k - 1] + Len(Laid[k])
             /\ EndOf[k] <= Len(Cells)
             /\ \A i \in 1..Len(Laid[k]) : Cells[EndOf[k - 1] + i] = Laid[k][i]
  BY <1>7, <1>9, Zenon DEF Ends
<1>12. \A k \in 1..Len(stream) :
          /\ EndOf[k] = EndOf[k - 1] + BlockSize(stream[k])
          /\ \A i \in 1..BlockSize(stream[k]) : Cells[EndOf[k - 1] + i] = <<k, i>>
  <2> SUFFICES ASSUME NEW k \in 1..Len(stream)
               PROVE  /\ EndOf[k] = EndOf[k - 1] + BlockSize(stream[k])
                      /\ \A i \in 1..BlockSize(stream[k]) : Cells[EndOf[k - 1] + i] = <<k, i>>
    BY Zenon
  <2>1. Laid[k] = B(k) /\ Len(Laid[k]) = BlockSize(stream[k])
    BY <1>3, <1>6, Zenon
  <2>2. \A i \in 1..BlockSize(stream[k]) : Laid[k][i] = <<k, i>>
    BY <1>4, <2>1, Zenon
  <2>3. /\ EndOf[k] = EndOf[k - 1] + Len(Laid[k])
        /\ \A i \in 1..Len(Laid[k]) : Cells[EndOf[k - 1] + i] = Laid[k][i]
    BY <1>11, Zenon
  <2>4. EndOf[k] = EndOf[k - 1] + BlockSize(stream[k])
    BY <2>1, <2>3, Zenon
  <2>5. \A i \in 1..BlockSize(stream[k]) : Cells[EndOf[k - 1] + i] = <<k, i>>
    BY <2>1, <2>2, <2>3, Zenon
  <2> QED
    BY <2>4, <2>5, Zenon
<1> QED
  BY <1>1, <1>2, <1>7, <1>9, <1>10, <1>11, <1>12, Zenon

\* Where a block ends and where the next one does.
LEMMA EndOfGrows ==
    ASSUME Parser, NEW i \in 0..Len(stream), NEW j \in 0..Len(stream)
    PROVE  /\ EndOf[i] \in Nat /\ EndOf[i] <= Len(Cells)
           /\ i <= j => EndOf[i] <= EndOf[j]
           /\ i < j => EndOf[i] < EndOf[j]
           /\ i < j => EndOf[i] <= EndOf[j - 1]
<1>1. /\ Len(stream) \in Nat /\ Laid \in Seq(Seq(Cell)) /\ Len(Laid) = Len(stream)
      /\ Ends(EndOf, Laid, Cells) /\ EndOf \in [0..Len(stream) -> Nat]
      /\ EndOf[Len(stream)] = Len(Cells)
      /\ \A k \in 1..Len(stream) :
            /\ BlockSize(stream[k]) \in Nat /\ HdrSize <= BlockSize(stream[k])
            /\ EndOf[k] = EndOf[k - 1] + BlockSize(stream[k])
  BY CellsFacts
<1> DEFINE e == EndOf
           n == Len(stream)
<1>2. \A k, l \in 0..n : k <= l => e[k] <= e[l]
  BY <1>1, EndsGrow
<1>3. e \in [0..n -> Nat] /\ n \in Nat /\ e[n] = Len(Cells)
  BY <1>1
<1>a. i \in 0..n /\ j \in 0..n
  OBVIOUS
<1>4. \A k \in 1..n : e[k - 1] < e[k]
  <2> SUFFICES ASSUME NEW k \in 1..n PROVE e[k - 1] < e[k]
    OBVIOUS
  <2> DEFINE b == BlockSize(stream[k])
  <2>1. e[k] = e[k - 1] + b /\ b \in Nat /\ HdrSize <= b
    BY <1>1
  <2> HIDE DEF e, n, b
  <2>2. e[k - 1] \in Nat /\ k - 1 \in 0..n
    BY <1>3
  <2> QED
    BY <2>1, <2>2 DEF HdrSize
<1> HIDE DEF e, n
<1>5. e[i] \in Nat /\ e[i] <= Len(Cells) /\ (i <= j => e[i] <= e[j])
  <2>1. n \in 0..n /\ i <= n
    BY <1>3, <1>a
  <2> QED
    BY <1>2, <1>3, <1>a, <2>1
<1>6. ASSUME i < j PROVE e[i] <= e[j - 1] /\ e[i] < e[j]
  <2>1. j \in 1..n /\ j - 1 \in 0..n /\ i <= j - 1
    BY <1>3, <1>6, <1>a
  <2>2. e[i] <= e[j - 1] /\ e[j - 1] < e[j] /\ e[i] \in Nat /\ e[j - 1] \in Nat /\ e[j] \in Nat
    BY <1>2, <1>3, <1>4, <1>a, <2>1
  <2> QED
    BY <2>2
<1> QED
  BY <1>5, <1>6 DEF e

\* The block in which a cell lies.
LEMMA CellAt ==
    ASSUME Parser, NEW p \in 1..Len(Cells)
    PROVE  \E k \in 1..Len(stream) :
              /\ EndOf[k - 1] \in Nat /\ EndOf[k] \in Nat
              /\ EndOf[k - 1] < p /\ p <= EndOf[k]
              /\ Cells[p] = <<k, p - EndOf[k - 1]>>
<1>1. /\ Len(stream) \in Nat /\ Laid \in Seq(Seq(Cell)) /\ Len(Laid) = Len(stream)
      /\ Ends(EndOf, Laid, Cells) /\ EndOf \in [0..Len(stream) -> Nat]
      /\ \A k \in 1..Len(stream) :
            /\ EndOf[k] = EndOf[k - 1] + BlockSize(stream[k])
            /\ BlockSize(stream[k]) \in Nat
            /\ \A i \in 1..BlockSize(stream[k]) : Cells[EndOf[k - 1] + i] = <<k, i>>
  BY CellsFacts
<1>2. PICK k \in 1..Len(stream) : EndOf[k - 1] < p /\ p <= EndOf[k]
  BY <1>1, EndsCover
<1> DEFINE e == EndOf
           x == EndOf[k - 1]
           y == EndOf[k]
           b == BlockSize(stream[k])
<1>3. x \in Nat /\ y \in Nat
  <2>1. k - 1 \in 0..Len(stream) /\ k \in 0..Len(stream)
    BY <1>1
  <2> QED
    BY <1>1, <2>1
<1>4. y = x + b /\ b \in Nat /\ x < p /\ p <= y /\ p \in Int
  BY <1>1, <1>2, <1>3
<1>5. p - x \in 1..b /\ x + (p - x) = p
  <2> HIDE DEF x, y, b
  <2> QED
    BY <1>3, <1>4
<1>6. Cells[x + (p - x)] = <<k, p - x>>
  BY <1>1, <1>5
<1> QED
  BY <1>2, <1>3, <1>5, <1>6

\* A block has arrived when its last cell has.
LEMMA Completed ==
    ASSUME Parser, NEW n \in 0..Len(Cells), NEW k \in 1..Len(stream)
    PROVE  (\E i \in 1..n : Cells[i] = <<k, BlockSize(stream[k])>>) <=> EndOf[k] <= n
<1>1. /\ Len(stream) \in Nat /\ Len(Cells) \in Nat
      /\ BlockSize(stream[k]) \in Nat /\ HdrSize <= BlockSize(stream[k])
      /\ EndOf[k] = EndOf[k - 1] + BlockSize(stream[k])
      /\ \A i \in 1..BlockSize(stream[k]) : Cells[EndOf[k - 1] + i] = <<k, i>>
  BY CellsFacts
<1>2. EndOf[k - 1] \in Nat /\ EndOf[k] \in Nat
  <2>1. k - 1 \in 0..Len(stream) /\ k \in 0..Len(stream)
    BY <1>1
  <2> QED
    BY <2>1, EndOfGrows
<1>3. ASSUME NEW i \in 1..n, Cells[i] = <<k, BlockSize(stream[k])>> PROVE EndOf[k] <= n
  <2>1. i \in 1..Len(Cells)
    BY <1>1
  <2>2. PICK l \in 1..Len(stream) : EndOf[l - 1] \in Nat /\ Cells[i] = <<l, i - EndOf[l - 1]>>
    BY <2>1, CellAt
  <2>3. l = k /\ BlockSize(stream[k]) = i - EndOf[k - 1]
    BY <1>3, <2>2
  <2>4. i = EndOf[k]
    <3> DEFINE x == EndOf[k - 1]
               b == BlockSize(stream[k])
    <3>1. x \in Nat /\ b \in Nat /\ b = i - x /\ i \in Int
      BY <1>1, <1>2, <2>3
    <3> HIDE DEF x, b
    <3>2. i = x + b
      BY <3>1
    <3> QED
      BY <1>1, <3>2 DEF x, b
  <2> QED
    BY <1>2, <2>4
<1>4. ASSUME EndOf[k] <= n PROVE \E i \in 1..n : Cells[i] = <<k, BlockSize(stream[k])>>
  <2> DEFINE y == EndOf[k]
             x == EndOf[k - 1]
             b == BlockSize(stream[k])
  <2>1. y \in 1..n /\ b \in 1..b
    <3>1. y = x + b /\ x \in Nat /\ b \in Nat /\ HdrSize <= b /\ y \in Nat /\ y <= n /\ n \in Int
      BY <1>1, <1>2, <1>4
    <3> HIDE DEF x, y, b
    <3> QED
      BY <3>1 DEF HdrSize
  <2>2. Cells[y] = <<k, b>>
    BY <1>1, <2>1
  <2> QED
    BY <2>1, <2>2
<1> QED
  BY <1>3, <1>4

\* The packets of a block are in the order of its records.
LEMMA BlockPacketsOrder ==
    ASSUME Parser, NEW k \in DOMAIN stream
    PROVE  /\ BlockPackets(k) \in Seq(Nat \X Nat)
           /\ \A p \in 1..Len(BlockPackets(k)) : BlockPackets(k)[p][1] = k
           /\ \A p, q \in 1..Len(BlockPackets(k)) :
                 p < q => BlockPackets(k)[p][2] < BlockPackets(k)[q][2]
<1> DEFINE b == stream[k]
           Found(i) == IF b.offsets[i] + PacketSize(b, i) <= b.size
                       THEN RecordPayload(b.items[i], PacketSize(b, i)) ELSE <<>>
           P(i) == [j \in DOMAIN Found(i) |-> <<k, i>>]
<1>1. k \in Nat /\ b.count \in Nat
  BY Blocks
<1>2. PICK n : n = b.count
  OBVIOUS
<1>3. ASSUME NEW i \in 1..n
      PROVE  P(i) \in Seq(Nat \X Nat) /\ Len(P(i)) <= 1 /\ (Len(P(i)) = 1 => P(i)[1] = <<k, i>>)
  <2>1. Found(i) = <<>> \/ \E x : Found(i) = <<x>>
    BY PacketsForm DEF RecordPayload
  <2> HIDE DEF Found
  <2>2. DOMAIN Found(i) = 1..0 \/ DOMAIN Found(i) = 1..1
    BY <2>1
  <2>3. i \in Nat
    BY <1>1, <1>2
  <2>4. CASE DOMAIN Found(i) = 1..0
    <3>1. P(i) = [j \in 1..0 |-> <<k, i>>]
      BY <2>4
    <3> QED
      BY <3>1
  <2>5. CASE DOMAIN Found(i) = 1..1
    <3>1. P(i) = [j \in 1..1 |-> <<k, i>>]
      BY <2>5
    <3> QED
      BY <1>1, <2>3, <3>1
  <2> QED
    BY <2>2, <2>4, <2>5
<1>4. PICK s : s = [i \in 1..n |-> P(i)]
  OBVIOUS
<1>5. BlockPackets(k) = FlattenSeq(s)
  BY <1>2, <1>4, Zenon DEF BlockPackets
<1> HIDE DEF P, Found
<1>6. s \in Seq(Seq(Nat \X Nat)) /\ Len(s) = n /\ n \in Nat
      /\ \A i \in 1..n : Len(s[i]) <= 1 /\ (Len(s[i]) = 1 => s[i][1] = <<k, i>>)
  <2>1. n \in Nat
    BY <1>1, <1>2
  <2>2. s \in [1..n -> Seq(Nat \X Nat)] /\ \A i \in 1..n : s[i] = P(i)
    BY <1>3, <1>4
  <2>3. s \in Seq(Seq(Nat \X Nat)) /\ Len(s) = n
    BY <2>1, <2>2
  <2> QED
    BY <1>3, <2>1, <2>2, <2>3
<1>7. PICK t : t = FlattenSeq(s)
  OBVIOUS
<1>8. t \in Seq(Nat \X Nat) /\ \E at : Ends(at, s, t)
  BY <1>6, <1>7, FlattenParts
<1>9. PICK at : Ends(at, s, t)
  BY <1>8
<1>10. \A p \in 1..Len(t) : \E i \in 1..n : at[i] = p /\ t[p] = <<k, i>>
  <2> SUFFICES ASSUME NEW p \in 1..Len(t)
               PROVE  \E i \in 1..n : at[i] = p /\ t[p] = <<k, i>>
    OBVIOUS
  <2>1. PICK i \in 1..Len(s) : at[i] = p /\ Len(s[i]) = 1 /\ t[p] = s[i][1]
    BY <1>6, <1>9, Sparse
  <2> QED
    BY <1>6, <2>1
<1>11. ASSUME NEW p \in 1..Len(t), NEW q \in 1..Len(t), p < q PROVE t[p][2] < t[q][2]
  <2>1. PICK i \in 1..n : at[i] = p /\ t[p] = <<k, i>>
    BY <1>10
  <2>2. PICK j \in 1..n : at[j] = q /\ t[q] = <<k, j>>
    BY <1>10
  <2>3. i < j
    <3>1. i \in Int /\ j \in Int /\ i \in 0..Len(s) /\ j \in 0..Len(s) /\ p \in Int /\ q \in Int
      <4>1. Len(t) \in Nat
        BY <1>8, LenProperties
      <4> QED
        BY <1>6, <4>1
    <3>2. j <= i => at[j] <= at[i]
      BY <1>6, <1>9, <3>1, EndsGrow
    <3>3. ~(q <= p)
      BY <1>11, <3>1
    <3> QED
      BY <2>1, <2>2, <3>1, <3>2, <3>3
  <2> QED
    BY <2>1, <2>2, <2>3
<1>12. \A p \in 1..Len(t) : t[p][1] = k
  BY <1>10
<1>13. t = BlockPackets(k)
  BY <1>5, <1>7
<1> QED
  BY <1>8, <1>11, <1>12, <1>13, Zenon

-----------------------------------------------------------------------------
(* What is kept between two segments.                                      *)

Readable(b) == HeaderOK(b) /\ OffsetsOK(b) /\ Decompresses(b)

\* Of the first at cells, buf holds those of block k, which has more of them.
Partial(k, buf, need, at) ==
    /\ HeaderOK(stream[k])
    /\ EndOf[k - 1] + HdrSize <= at /\ at < EndOf[k]
    /\ buf = SubSeq(Cells, EndOf[k - 1] + 1, at)
    /\ need = BlockSize(stream[k])

\* A block in which no packet was found has stayed in the buffer.
Stale(k, buf) ==
    /\ Readable(stream[k]) /\ BlockPackets(k) = <<>>
    /\ BlockSize(stream[k]) <= Len(buf)
    /\ \A i \in 1..BlockSize(stream[k]) : buf[i] = <<k, i>>

Kept(st, buf, need, at) ==
    /\ st = "WAIT_HEADER" => buf = <<>>
    /\ st = "READ_HEADER" => buf = <<>> \/ \E k \in 1..Len(stream) : Stale(k, buf)
    /\ st = "READ_BODY" =>
         \E k \in 1..Len(stream) : Stale(k, buf) \/ Partial(k, buf, need, at)

\* reset()
LEMMA AfterCases ==
    /\ After(Throw) = Result("READ_HEADER", <<>>, 0, <<>>)
    /\ \A st, buf, need : After(Result(st, buf, need, <<>>)) = Result(st, buf, need, <<>>)
    /\ \A st, buf, need, pk :
         pk # <<>> => After(Result(st, buf, need, pk)) = Result("READ_HEADER", <<>>, 0, pk)
BY DEF After, Throw, Result

LEMMA ResultFields ==
    \A st, buf, need, pk :
       /\ Result(st, buf, need, pk).st = st /\ Result(st, buf, need, pk).buf = buf
       /\ Result(st, buf, need, pk).need = need /\ Result(st, buf, need, pk).pk = pk
       /\ Result(st, buf, need, pk).threw = FALSE
BY DEF Result

\* What comes of a buffer that begins with block k, as far as it goes.
LEMMA ParseBlock ==
    ASSUME NEW k, NEW c, NEW buf, NEW need, NEW r \in ParseHeader(c, buf, need),
           c # <<>>, HdrSize <= Len(c), Len(c) \in Nat, BlockSize(stream[k]) \in Nat,
           c[1] = <<k, 1>>, c[2] = <<k, 2>>,
           BlockSize(stream[k]) <= Len(c) =>
             \A i \in 1..BlockSize(stream[k]) : c[i] = <<k, i>>
    PROVE  \/ ~HeaderOK(stream[k]) /\ r = Throw
           \/ /\ HeaderOK(stream[k]) /\ Len(c) < BlockSize(stream[k])
              /\ r = Result("READ_BODY", buf \o c, BlockSize(stream[k]), <<>>)
           \/ /\ HeaderOK(stream[k]) /\ BlockSize(stream[k]) <= Len(c)
              /\ ~Readable(stream[k]) /\ r = Throw
           \/ /\ Readable(stream[k]) /\ BlockSize(stream[k]) <= Len(c)
              /\ r = Result("READ_HEADER", buf, need, BlockPackets(k))
<1>1. HeaderRead(c) /\ c[1][1] = k /\ c[1][2] = 1
  BY DEF HeaderRead
<1>2. BlockSize(stream[k]) > Len(c) \/ BlockSize(stream[k]) <= Len(c)
  OBVIOUS
<1>3. BlockSize(stream[k]) > Len(c) => Len(c) < BlockSize(stream[k])
  OBVIOUS
<1>4. BlockSize(stream[k]) <= Len(c) => ~(BlockSize(stream[k]) > Len(c)) /\ Intact(c, k)
  BY DEF Intact
<1>5. r \in IF ~HeaderOK(stream[k]) THEN {Throw}
            ELSE IF BlockSize(stream[k]) > Len(c)
            THEN {Result("READ_BODY", buf \o c, BlockSize(stream[k]), <<>>)}
            ELSE IF ~Intact(c, k)
            THEN {Throw, Result("READ_HEADER", buf, need, <<Junk>>)}
            ELSE IF ~OffsetsOK(stream[k]) \/ ~Decompresses(stream[k]) THEN {Throw}
            ELSE {Result("READ_HEADER", buf, need, BlockPackets(k))}
  BY <1>1, Zenon DEF ParseHeader
<1> QED
  BY <1>2, <1>3, <1>4, <1>5, Zenon DEF Readable

\* What does not begin with a block is refused.
LEMMA ParseMiddle ==
    ASSUME NEW c, NEW buf, NEW need, NEW r \in ParseHeader(c, buf, need), c[1][2] # 1
    PROVE  r = Throw
BY DEF ParseHeader

\* The cells of a piece.
LEMMA PieceFacts ==
    ASSUME Parser, NEW n \in Nat, 1 <= n, sent + n <= Len(Cells)
    PROVE  /\ Piece(0, n) \in Seq(Cell) /\ Len(Piece(0, n)) = n
           /\ Piece(0, n) = SubSeq(Cells, sent + 1, sent + n)
           /\ \A i \in 1..n : Piece(0, n)[i] = Cells[sent + i]
<1>1. Cells \in Seq(Cell) /\ Len(Cells) \in Nat /\ sent \in Nat
  BY CellsFacts DEF Parser
<1> HIDE DEF Cells, Cell
<1>2. sent + 1 \in 1..(Len(Cells) + 1) /\ sent + n \in (sent + 1 - 1)..Len(Cells)
  BY <1>1
<1>3. sent + 0 + 1 = sent + 1 /\ sent + n - (sent + 1) + 1 = n
      /\ \A i \in 1..n : sent + 1 + i - 1 = sent + i
  BY <1>1
<1>4. Piece(0, n) = SubSeq(Cells, sent + 1, sent + n)
  BY <1>3 DEF Piece
<1>5. PICK c : c = SubSeq(Cells, sent + 1, sent + n)
  OBVIOUS
<1>6. c \in Seq(Cell) /\ Len(c) = n /\ \A i \in 1..n : c[i] = Cells[sent + i]
  BY <1>1, <1>2, <1>3, <1>5, SubSeqProperties
<1> QED
  BY <1>4, <1>5, <1>6

\* A piece that begins with a block.
LEMMA PieceOfBlock ==
    ASSUME Parser, NEW n \in Nat, 1 <= n, sent + n <= Len(Cells),
           NEW k \in 1..Len(stream), EndOf[k - 1] = sent
    PROVE  /\ Piece(0, n)[1] = <<k, 1>>
           /\ HdrSize <= n => Piece(0, n)[2] = <<k, 2>>
           /\ BlockSize(stream[k]) <= n =>
                \A i \in 1..BlockSize(stream[k]) : Piece(0, n)[i] = <<k, i>>
           /\ EndOf[k] = sent + BlockSize(stream[k])
<1>1. /\ BlockSize(stream[k]) \in Nat /\ HdrSize <= BlockSize(stream[k])
      /\ EndOf[k] = EndOf[k - 1] + BlockSize(stream[k])
      /\ \A i \in 1..BlockSize(stream[k]) : Cells[EndOf[k - 1] + i] = <<k, i>>
  BY CellsFacts
<1>2. \A i \in 1..n : Piece(0, n)[i] = Cells[sent + i]
  BY PieceFacts
<1>3. \A i \in 1..n : i <= BlockSize(stream[k]) => Piece(0, n)[i] = <<k, i>>
  <2> SUFFICES ASSUME NEW i \in 1..n, i <= BlockSize(stream[k]) PROVE Piece(0, n)[i] = <<k, i>>
    OBVIOUS
  <2>1. i \in 1..BlockSize(stream[k])
    BY <1>1
  <2> QED
    BY <1>1, <1>2, <2>1
<1>4. 1 \in 1..n /\ 1 <= BlockSize(stream[k]) /\ (HdrSize <= n => 2 \in 1..n)
      /\ 2 <= BlockSize(stream[k])
  BY <1>1 DEF HdrSize
<1>5. BlockSize(stream[k]) <= n =>
        \A i \in 1..BlockSize(stream[k]) : i \in 1..n /\ i <= BlockSize(stream[k])
  BY <1>1
<1> QED
  BY <1>1, <1>3, <1>4, <1>5

\* More behind a block that has stayed.
LEMMA StaleGrows ==
    ASSUME Parser, NEW k \in 1..Len(stream), NEW buf \in Seq(Cell), NEW c \in Seq(Cell),
           Stale(k, buf)
    PROVE  Stale(k, buf \o c) /\ BlockSize(stream[k]) <= Len(buf \o c)
<1>1. BlockSize(stream[k]) \in Nat
  BY CellsFacts
<1>2. PICK X : X = Cell
  OBVIOUS
<1>3. /\ Len(buf \o c) = Len(buf) + Len(c)
      /\ \A i \in 1..Len(buf) : (buf \o c)[i] = buf[i]
      /\ Len(buf) \in Nat /\ Len(c) \in Nat
  <2>1. buf \in Seq(X) /\ c \in Seq(X)
    BY <1>2
  <2> QED
    BY <2>1, Joined, LenProperties
<1>4. BlockSize(stream[k]) <= Len(buf)
  BY DEF Stale
<1>5. BlockSize(stream[k]) <= Len(buf \o c)
  BY <1>1, <1>3, <1>4
<1>6. \A i \in 1..BlockSize(stream[k]) : i \in 1..Len(buf)
  BY <1>1, <1>3, <1>4
<1>7. \A i \in 1..BlockSize(stream[k]) : (buf \o c)[i] = <<k, i>>
  BY <1>3, <1>6, Zenon DEF Stale
<1> QED
  BY <1>5, <1>7, Zenon DEF Stale

\* More cells of a block that is not complete.
LEMMA PartialGrows ==
    ASSUME Parser, NEW k \in 1..Len(stream), NEW buf, NEW need, Partial(k, buf, need, sent),
           NEW n \in Nat, 1 <= n, sent + n <= Len(Cells)
    PROVE  /\ buf \o Piece(0, n) = SubSeq(Cells, EndOf[k - 1] + 1, sent + n)
           /\ buf \o Piece(0, n) \in Seq(Cell) /\ buf \in Seq(Cell)
           /\ Len(buf) = sent - EndOf[k - 1]
           /\ Len(buf \o Piece(0, n)) = (sent + n) - EndOf[k - 1]
           /\ \A i \in 1..((sent + n) - EndOf[k - 1]) :
                 (buf \o Piece(0, n))[i] = Cells[EndOf[k - 1] + i]
<1>1. PICK X : X = Cell
  OBVIOUS
<1>2. PICK s : s = Cells
  OBVIOUS
<1>3. PICK x : x = EndOf[k - 1]
  OBVIOUS
<1>4. PICK c : c = Piece(0, n)
  OBVIOUS
<1>5. s \in Seq(X) /\ Len(s) \in Nat
  BY <1>1, <1>2, CellsFacts
<1>6. c \in Seq(X) /\ Len(c) = n /\ \A i \in 1..n : c[i] = s[sent + i]
  BY <1>1, <1>2, <1>4, PieceFacts
<1>7. x \in Nat /\ sent \in Nat /\ x < sent /\ sent + n <= Len(s)
  <2>1. x \in Nat
    <3>1. k - 1 \in 0..Len(stream)
      BY CellsFacts
    <3> QED
      BY <1>3, <3>1, EndOfGrows
  <2>2. x + HdrSize <= sent /\ sent \in Nat
    BY <1>3 DEF Partial, Parser
  <2> QED
    BY <1>2, <2>1, <2>2 DEF HdrSize
<1>8. \A i \in 1..Len(s) : s[i] \in X
  BY <1>5
<1>9. /\ buf \in Seq(X) /\ Len(buf) = sent - x /\ \A i \in 1..(sent - x) : buf[i] = s[x + i]
  <2>1. buf = SubSeq(s, x + 1, sent)
    BY <1>2, <1>3 DEF Partial
  <2>2. x + 1 \in Int /\ sent \in Int /\ x + 1 <= sent /\ sent - (x + 1) + 1 = sent - x
    BY <1>7
  <2>3. \A i \in (x + 1)..sent : s[i] \in X
    BY <1>5, <1>7, <1>8
  <2>4. \A i \in 1..(sent - x) : (x + 1) + i - 1 = x + i
    BY <1>7
  <2>5. PICK t : t = SubSeq(s, x + 1, sent)
    OBVIOUS
  <2>6. t \in Seq(X) /\ Len(t) = sent - x /\ \A i \in 1..(sent - x) : t[i] = s[x + i]
    BY <2>2, <2>3, <2>4, <2>5, SubSeqProperties
  <2> QED
    BY <2>1, <2>5, <2>6, Zenon
<1>10. PICK d : d = buf \o c
  OBVIOUS
<1>11. /\ d \in Seq(X) /\ Len(d) = (sent - x) + n
       /\ \A i \in 1..(sent - x) : d[i] = buf[i]
       /\ \A i \in 1..n : d[(sent - x) + i] = c[i]
  <2>1. buf \in Seq(X) /\ c \in Seq(X)
    BY <1>6, <1>9
  <2>2. /\ d \in Seq(X) /\ Len(d) = Len(buf) + Len(c)
        /\ \A i \in 1..Len(buf) : d[i] = buf[i]
        /\ \A i \in 1..Len(c) : d[Len(buf) + i] = c[i]
    <3>1. /\ buf \o c \in Seq(X) /\ Len(buf \o c) = Len(buf) + Len(c)
          /\ \A i \in 1..Len(buf) : (buf \o c)[i] = buf[i]
          /\ \A i \in 1..Len(c) : (buf \o c)[Len(buf) + i] = c[i]
      BY <2>1, Joined
    <3> QED
      BY <1>10, <3>1, Zenon
  <2>3. Len(buf) = sent - x /\ Len(c) = n
    BY <1>6, <1>9
  <2> QED
    BY <2>2, <2>3, Zenon
<1>12. Len(d) = (sent + n) - x
  BY <1>7, <1>11
<1>13. \A i \in 1..((sent + n) - x) : d[i] = s[x + i]
  <2> SUFFICES ASSUME NEW i \in 1..((sent + n) - x) PROVE d[i] = s[x + i]
    OBVIOUS
  <2>1. CASE i <= sent - x
    <3>1. i \in 1..(sent - x)
      BY <1>7, <2>1
    <3> QED
      BY <1>9, <1>11, <3>1
  <2>2. CASE ~(i <= sent - x)
    <3>1. i - (sent - x) \in 1..n /\ (sent - x) + (i - (sent - x)) = i
          /\ sent + (i - (sent - x)) = x + i
      BY <1>7, <2>2
    <3>2. d[i] = c[i - (sent - x)]
      BY <1>11, <3>1
    <3>3. c[i - (sent - x)] = s[x + i]
      BY <1>6, <3>1
    <3> QED
      BY <3>2, <3>3
  <2> QED
    BY <2>1, <2>2
<1>14. d = SubSeq(s, x + 1, sent + n)
  <2>1. x + 1 \in Int /\ sent + n \in Int /\ x + 1 <= sent + n
        /\ (sent + n) - (x + 1) + 1 = (sent + n) - x
    BY <1>7
  <2>2. \A i \in (x + 1)..(sent + n) : s[i] \in X
    BY <1>5, <1>7, <1>8
  <2>3. \A i \in 1..((sent + n) - x) : (x + 1) + i - 1 = x + i
    BY <1>7
  <2>4. PICK t : t = SubSeq(s, x + 1, sent + n)
    OBVIOUS
  <2>5. t \in Seq(X) /\ Len(t) = (sent + n) - x /\ \A i \in 1..((sent + n) - x) : t[i] = s[x + i]
    BY <2>1, <2>2, <2>3, <2>4, SubSeqProperties
  <2>6. d = t
    BY <1>11, <1>12, <1>13, <2>5, SeqEqual
  <2> QED
    BY <2>4, <2>6
<1> QED
  BY <1>1, <1>2, <1>3, <1>4, <1>9, <1>10, <1>11, <1>12, <1>13, <1>14, Zenon

\* Parsing from the beginning of a segment.
LEMMA FedHeader ==
    ASSUME Parser, NEW n \in Nat, 1 <= n, sent + n <= Len(Cells),
           buffer = <<>> \/ \E k \in 1..Len(stream) : Stale(k, buffer),
           NEW r \in ParseHeader(Piece(0, n), buffer, dataSize),
           n < HdrSize => Piece(0, n)[1][2] # 1
    PROVE  /\ Kept(After(r).st, After(r).buf, After(r).need, sent + n)
           /\ \/ After(r).pk = <<>>
              \/ \E k \in 1..Len(stream) :
                    After(r).pk = BlockPackets(k) /\ sent < EndOf[k] /\ EndOf[k] <= sent + n
<1>1. PICK c : c = Piece(0, n)
  OBVIOUS
<1>2. /\ c \in Seq(Cell) /\ Len(c) = n /\ c # <<>>
      /\ c = SubSeq(Cells, sent + 1, sent + n)
      /\ c[1] = Cells[sent + 1]
  <2>1. c \in Seq(Cell) /\ Len(c) = n /\ c = SubSeq(Cells, sent + 1, sent + n)
        /\ \A i \in 1..n : c[i] = Cells[sent + i]
    BY <1>1, PieceFacts
  <2>2. c # <<>> /\ 1 \in 1..n
    <3>1. Len(c) # 0
      BY <2>1
    <3> QED
      BY <3>1
  <2> QED
    BY <2>1, <2>2
<1>3. sent \in Nat /\ Len(Cells) \in Nat /\ Len(stream) \in Nat
  BY CellsFacts DEF Parser
<1>4. CASE r = Throw
  <2>1. After(r) = Result("READ_HEADER", <<>>, 0, <<>>)
    BY <1>4, AfterCases
  <2>2. After(r).st = "READ_HEADER" /\ After(r).buf = <<>> /\ After(r).pk = <<>>
    BY <2>1, ResultFields
  <2> QED
    BY <2>2, Zenon DEF Kept
<1>5. CASE c[1][2] # 1
  <2>1. r = Throw
    BY <1>1, <1>5, ParseMiddle
  <2> QED
    BY <1>4, <2>1
<1>6. CASE c[1][2] = 1 /\ r # Throw
  <2>1. HdrSize <= n
    BY <1>1, <1>6 DEF HdrSize
  <2>2. sent + 1 \in 1..Len(Cells)
    BY <1>3
  <2>3. PICK k \in 1..Len(stream) : /\ EndOf[k - 1] \in Nat
                                    /\ Cells[sent + 1] = <<k, (sent + 1) - EndOf[k - 1]>>
    BY <2>2, CellAt
  <2>4. EndOf[k - 1] = sent
    <3>1. (sent + 1) - EndOf[k - 1] = 1
      BY <1>2, <1>6, <2>3
    <3> QED
      BY <1>3, <2>3, <3>1
  <2>5. /\ c[1] = <<k, 1>> /\ c[2] = <<k, 2>>
        /\ BlockSize(stream[k]) <= Len(c) =>
             \A i \in 1..BlockSize(stream[k]) : c[i] = <<k, i>>
        /\ EndOf[k] = sent + BlockSize(stream[k])
    BY <1>1, <1>2, <2>1, <2>4, PieceOfBlock
  <2>6. BlockSize(stream[k]) \in Nat /\ HdrSize <= BlockSize(stream[k])
    BY CellsFacts
  <2>7. \/ /\ HeaderOK(stream[k]) /\ Len(c) < BlockSize(stream[k])
           /\ r = Result("READ_BODY", buffer \o c, BlockSize(stream[k]), <<>>)
        \/ /\ Readable(stream[k]) /\ BlockSize(stream[k]) <= Len(c)
           /\ r = Result("READ_HEADER", buffer, dataSize, BlockPackets(k))
    <3>1. HdrSize <= Len(c) /\ Len(c) \in Nat /\ r \in ParseHeader(c, buffer, dataSize)
      BY <1>1, <1>2, <2>1
    <3> QED
      BY <1>2, <1>6, <2>5, <2>6, <3>1, ParseBlock
  <2>8. CASE /\ HeaderOK(stream[k]) /\ Len(c) < BlockSize(stream[k])
             /\ r = Result("READ_BODY", buffer \o c, BlockSize(stream[k]), <<>>)
    <3>1. PICK q, b : q = buffer \o c /\ b = BlockSize(stream[k])
      OBVIOUS
    <3>2. After(r) = Result("READ_BODY", q, b, <<>>)
      BY <2>8, <3>1, AfterCases
    <3>3. After(r).st = "READ_BODY" /\ After(r).buf = q /\ After(r).need = b /\ After(r).pk = <<>>
      BY <3>2, ResultFields
    <3>4. /\ After(r).st = "READ_BODY" /\ After(r).buf = buffer \o c
          /\ After(r).need = BlockSize(stream[k]) /\ After(r).pk = <<>>
      BY <3>1, <3>3, Zenon
    <3>5. CASE buffer = <<>>
      <4>1. buffer \o c = c
        BY <1>2, <3>5
      <4>2. Partial(k, c, BlockSize(stream[k]), sent + n)
        <5>1. PICK l : l = BlockSize(stream[k])
          OBVIOUS
        <5>2. n < l /\ EndOf[k] = sent + l /\ l \in Nat
          BY <1>2, <2>5, <2>6, <2>8, <5>1, Zenon
        <5>3. EndOf[k - 1] + HdrSize <= sent + n /\ sent + n < EndOf[k]
          BY <1>3, <2>1, <2>4, <5>2 DEF HdrSize
        <5>4. c = SubSeq(Cells, EndOf[k - 1] + 1, sent + n)
          BY <1>2, <2>4
        <5> QED
          BY <2>8, <5>3, <5>4, Zenon DEF Partial
      <4> QED
        BY <3>4, <4>1, <4>2 DEF Kept
    <3>6. ASSUME NEW l \in 1..Len(stream), Stale(l, buffer)
          PROVE  Kept(After(r).st, After(r).buf, After(r).need, sent + n)
      <4>1. Stale(l, buffer \o c)
        BY <1>2, <3>6, StaleGrows DEF Parser
      <4> QED
        BY <3>4, <4>1 DEF Kept
    <3> QED
      BY <3>4, <3>5, <3>6
  <2>9. CASE /\ Readable(stream[k]) /\ BlockSize(stream[k]) <= Len(c)
             /\ r = Result("READ_HEADER", buffer, dataSize, BlockPackets(k))
    <3>1. CASE BlockPackets(k) = <<>>
      <4>1. After(r) = r
        BY <2>9, <3>1, AfterCases
      <4>2. After(r).st = "READ_HEADER" /\ After(r).buf = buffer /\ After(r).pk = <<>>
        BY <2>9, <3>1, <4>1, ResultFields
      <4> QED
        BY <4>2, Zenon DEF Kept
    <3>2. CASE BlockPackets(k) # <<>>
      <4>1. After(r) = Result("READ_HEADER", <<>>, 0, BlockPackets(k))
        BY <2>9, <3>2, AfterCases
      <4>2. After(r).st = "READ_HEADER" /\ After(r).buf = <<>> /\ After(r).pk = BlockPackets(k)
        BY <4>1, ResultFields
      <4>3. sent < EndOf[k] /\ EndOf[k] <= sent + n
        BY <1>2, <1>3, <2>5, <2>6, <2>9 DEF HdrSize
      <4>4. Kept(After(r).st, After(r).buf, After(r).need, sent + n)
        BY <4>2, Zenon DEF Kept
      <4> QED
        BY <4>2, <4>3, <4>4
    <3> QED
      BY <3>1, <3>2
  <2> QED
    BY <2>7, <2>8, <2>9
<1> QED
  BY <1>4, <1>5, <1>6

\* Parsing from the beginning of a block that was left in the buffer.
LEMMA FedStale ==
    ASSUME Parser, NEW n \in Nat, 1 <= n, sent + n <= Len(Cells),
           NEW k \in 1..Len(stream), Stale(k, buffer),
           NEW r, \/ r = Result("READ_BODY", buffer \o Piece(0, n), dataSize, <<>>)
                  \/ r \in ParseHeader(buffer \o Piece(0, n), buffer \o Piece(0, n), dataSize)
    PROVE  /\ Kept(After(r).st, After(r).buf, After(r).need, sent + n)
           /\ After(r).pk = <<>>
<1>1. PICK d : d = buffer \o Piece(0, n)
  OBVIOUS
<1>2. Stale(k, d) /\ d \in Seq(Cell) /\ BlockSize(stream[k]) <= Len(d) /\ Len(d) \in Nat
  <2>1. PICK X : X = Cell
    OBVIOUS
  <2>2. buffer \in Seq(Cell) /\ Piece(0, n) \in Seq(Cell)
    BY PieceFacts DEF Parser
  <2>3. buffer \o Piece(0, n) \in Seq(X)
    BY <2>1, <2>2, Joined
  <2>4. Len(d) \in Nat
    BY <1>1, <2>3, LenProperties
  <2> QED
    BY <1>1, <2>1, <2>2, <2>3, <2>4, StaleGrows
<1>3. BlockSize(stream[k]) \in Nat /\ HdrSize <= BlockSize(stream[k])
  BY CellsFacts
<1>4. r = Result("READ_BODY", d, dataSize, <<>>) \/ r = Result("READ_HEADER", d, dataSize, <<>>)
  <2> SUFFICES ASSUME r \in ParseHeader(d, d, dataSize)
               PROVE  r = Result("READ_HEADER", d, dataSize, <<>>)
    BY <1>1
  <2>1. 1 \in 1..BlockSize(stream[k]) /\ 2 \in 1..BlockSize(stream[k]) /\ HdrSize <= Len(d)
    BY <1>2, <1>3 DEF HdrSize
  <2>2. /\ d[1] = <<k, 1>> /\ d[2] = <<k, 2>>
        /\ \A i \in 1..BlockSize(stream[k]) : d[i] = <<k, i>>
        /\ Readable(stream[k]) /\ BlockPackets(k) = <<>>
    BY <1>2, <2>1, Zenon DEF Stale
  <2>3. d # <<>>
    <3>1. Len(d) # 0
      BY <1>2, <2>1 DEF HdrSize
    <3> QED
      BY <3>1
  <2>4. \/ ~HeaderOK(stream[k]) /\ r = Throw
        \/ /\ HeaderOK(stream[k]) /\ Len(d) < BlockSize(stream[k])
           /\ r = Result("READ_BODY", d \o d, BlockSize(stream[k]), <<>>)
        \/ /\ HeaderOK(stream[k]) /\ BlockSize(stream[k]) <= Len(d)
           /\ ~Readable(stream[k]) /\ r = Throw
        \/ /\ Readable(stream[k]) /\ BlockSize(stream[k]) <= Len(d)
           /\ r = Result("READ_HEADER", d, dataSize, BlockPackets(k))
    BY <1>2, <1>3, <2>1, <2>2, <2>3, ParseBlock, Zenon
  <2>5. ~(Len(d) < BlockSize(stream[k]))
    BY <1>2, <1>3
  <2> QED
    BY <2>2, <2>4, <2>5, Zenon DEF Readable
<1>5. After(r) = r
  BY <1>4, AfterCases
<1>6. After(r).buf = d /\ After(r).pk = <<>> /\ After(r).st \in {"READ_BODY", "READ_HEADER"}
  BY <1>4, <1>5, ResultFields
<1> QED
  BY <1>2, <1>6, Zenon DEF Kept

\* What comes of a block when more of it arrives.
LEMMA FedPartial ==
    ASSUME Parser, NEW n \in Nat, 1 <= n, sent + n <= Len(Cells),
           NEW k \in 1..Len(stream), Partial(k, buffer, dataSize, sent),
           rstate = "READ_BODY", NEW r \in Parse(Piece(0, n))
    PROVE  \/ /\ r = Result("READ_BODY", buffer \o Piece(0, n), dataSize, <<>>)
              /\ Partial(k, buffer \o Piece(0, n), dataSize, sent + n)
              /\ sent + n < EndOf[k]
           \/ /\ EndOf[k] <= sent + n /\ ~Readable(stream[k]) /\ r = Throw
           \/ /\ EndOf[k] <= sent + n /\ Readable(stream[k])
              /\ r = Result("READ_HEADER", buffer \o Piece(0, n), dataSize, BlockPackets(k))
              /\ Stale(k, buffer \o Piece(0, n)) \/ BlockPackets(k) # <<>>
<1>1. PICK d : d = buffer \o Piece(0, n)
  OBVIOUS
<1>2. PICK x : x = EndOf[k - 1]
  OBVIOUS
<1>3. PICK b : b = BlockSize(stream[k])
  OBVIOUS
<1>4. PICK c : c = Piece(0, n)
  OBVIOUS
<1>5. /\ d = SubSeq(Cells, x + 1, sent + n) /\ d \in Seq(Cell)
      /\ Len(buffer) = sent - x /\ Len(d) = (sent + n) - x
      /\ \A i \in 1..((sent + n) - x) : d[i] = Cells[x + i]
  BY <1>1, <1>2, PartialGrows
<1>6. /\ b \in Nat /\ HdrSize <= b /\ EndOf[k] = x + b
      /\ \A i \in 1..b : Cells[x + i] = <<k, i>>
  BY <1>2, <1>3, CellsFacts
<1>7. Len(c) = n
  BY <1>4, PieceFacts
<1>8. HeaderOK(stream[k]) /\ x + HdrSize <= sent /\ sent < EndOf[k] /\ dataSize = b
  BY <1>2, <1>3 DEF Partial
<1>9. x \in Nat /\ sent \in Nat
  <2>1. k - 1 \in 0..Len(stream)
    BY CellsFacts
  <2> QED
    BY <1>2, <2>1, EndOfGrows DEF Parser
<1>10. CASE Len(buffer) + Len(c) < dataSize
  <2>1. r = Result("READ_BODY", d, dataSize, <<>>)
    <3>1. ~(Len(buffer) + Len(c) >= dataSize)
      BY <1>5, <1>6, <1>7, <1>8, <1>9, <1>10
    <3> QED
      BY <1>1, <1>4, <1>10, <3>1, Zenon DEF Parse
  <2>2. sent + n < EndOf[k] /\ x + HdrSize <= sent + n
    BY <1>5, <1>6, <1>7, <1>8, <1>9, <1>10 DEF HdrSize
  <2>3. Partial(k, d, dataSize, sent + n)
    BY <1>2, <1>3, <1>5, <1>8, <2>2, Zenon DEF Partial
  <2> QED
    BY <1>1, <2>1, <2>2, <2>3
<1>11. CASE ~(Len(buffer) + Len(c) < dataSize)
  <2>1. r \in ParseHeader(d, d, dataSize)
    <3>1. Len(buffer) + Len(c) >= dataSize
      BY <1>5, <1>6, <1>7, <1>8, <1>9, <1>11
    <3> QED
      BY <1>1, <1>4, <1>11, <3>1, Zenon DEF Parse
  <2>2. EndOf[k] <= sent + n /\ b <= Len(d) /\ Len(d) \in Nat /\ HdrSize <= Len(d)
        /\ 1 \in 1..b /\ 2 \in 1..b /\ Len(d) # 0
    BY <1>5, <1>6, <1>7, <1>8, <1>9, <1>11 DEF HdrSize
  <2>3. \A i \in 1..b : d[i] = <<k, i>>
    <3>1. \A i \in 1..b : i \in 1..((sent + n) - x)
      BY <1>5, <1>6, <2>2
    <3> QED
      BY <1>5, <1>6, <3>1
  <2>4. d # <<>>
    BY <2>2
  <2>5. d[1] = <<k, 1>> /\ d[2] = <<k, 2>>
    BY <2>2, <2>3, Zenon
  <2>6. \/ ~HeaderOK(stream[k]) /\ r = Throw
        \/ /\ HeaderOK(stream[k]) /\ Len(d) < b
           /\ r = Result("READ_BODY", d \o d, b, <<>>)
        \/ /\ HeaderOK(stream[k]) /\ b <= Len(d)
           /\ ~Readable(stream[k]) /\ r = Throw
        \/ /\ Readable(stream[k]) /\ b <= Len(d)
           /\ r = Result("READ_HEADER", d, dataSize, BlockPackets(k))
    <3>1. /\ HdrSize <= Len(d) /\ Len(d) \in Nat /\ BlockSize(stream[k]) \in Nat
          /\ d # <<>> /\ d[1] = <<k, 1>> /\ d[2] = <<k, 2>>
          /\ \A i \in 1..BlockSize(stream[k]) : d[i] = <<k, i>>
      BY <1>3, <1>6, <2>2, <2>3, <2>4, <2>5, Zenon
    <3>2. \/ ~HeaderOK(stream[k]) /\ r = Throw
          \/ /\ HeaderOK(stream[k]) /\ Len(d) < BlockSize(stream[k])
             /\ r = Result("READ_BODY", d \o d, BlockSize(stream[k]), <<>>)
          \/ /\ HeaderOK(stream[k]) /\ BlockSize(stream[k]) <= Len(d)
             /\ ~Readable(stream[k]) /\ r = Throw
          \/ /\ Readable(stream[k]) /\ BlockSize(stream[k]) <= Len(d)
             /\ r = Result("READ_HEADER", d, dataSize, BlockPackets(k))
      BY <2>1, <3>1, ParseBlock, Zenon
    <3> QED
      BY <1>3, <3>2, Zenon
  <2>7. ~(Len(d) < b)
    BY <1>6, <2>2
  <2>8. Readable(stream[k]) => Stale(k, d) \/ BlockPackets(k) # <<>>
    BY <1>3, <2>2, <2>3, Zenon DEF Stale
  <2> QED
    BY <1>1, <1>8, <2>2, <2>6, <2>7, <2>8, Zenon
<1> QED
  BY <1>10, <1>11

\* What is kept after a segment, and of which block packets may be found.
LEMMA Fed ==
    ASSUME Parser, NEW n \in Nat, 1 <= n, sent + n <= Len(Cells),
           Kept(rstate, buffer, dataSize, sent), NEW r \in Parse(Piece(0, n)),
           ~(rstate = "READ_HEADER" /\ n < HdrSize /\ Piece(0, n)[1][2] = 1)
    PROVE  /\ Kept(After(r).st, After(r).buf, After(r).need, sent + n)
           /\ \/ After(r).pk = <<>>
              \/ \E k \in 1..Len(stream) :
                    After(r).pk = BlockPackets(k) /\ sent < EndOf[k] /\ EndOf[k] <= sent + n
<1>1. Len(Piece(0, n)) = n
  BY PieceFacts
<1>2. CASE rstate = "WAIT_HEADER" /\ n < HdrSize
  <2>1. r = Result("WAIT_HEADER", buffer, dataSize, <<>>)
    BY <1>1, <1>2 DEF Parse
  <2>2. After(r).st = "WAIT_HEADER" /\ After(r).buf = buffer /\ After(r).pk = <<>>
    BY <2>1, AfterCases, ResultFields
  <2> QED
    BY <1>2, <2>2 DEF Kept
<1>3. CASE rstate = "READ_BODY"
  <2>1. PICK k \in 1..Len(stream) : Stale(k, buffer) \/ Partial(k, buffer, dataSize, sent)
    BY <1>3 DEF Kept
  <2>2. CASE Stale(k, buffer)
    <3>1. \/ r = Result("READ_BODY", buffer \o Piece(0, n), dataSize, <<>>)
          \/ r \in ParseHeader(buffer \o Piece(0, n), buffer \o Piece(0, n), dataSize)
      <4>1. PICK p, q : p = Len(buffer) /\ q = Len(Piece(0, n))
        OBVIOUS
      <4>2. p \in Nat /\ q \in Nat /\ dataSize \in Nat
        BY <1>1, <4>1, LenProperties DEF Parser
      <4>3. p + q < dataSize \/ p + q >= dataSize
        BY <4>2
      <4>4. rstate = "READ_BODY" /\ rstate # "WAIT_HEADER"
        BY <1>3
      <4> QED
        BY <4>1, <4>3, <4>4, Zenon DEF Parse
    <3> QED
      BY <2>2, <3>1, FedStale, Zenon
  <2>3. CASE Partial(k, buffer, dataSize, sent)
    <3>1. \/ /\ r = Result("READ_BODY", buffer \o Piece(0, n), dataSize, <<>>)
             /\ Partial(k, buffer \o Piece(0, n), dataSize, sent + n)
          \/ r = Throw
          \/ /\ EndOf[k] <= sent + n
             /\ r = Result("READ_HEADER", buffer \o Piece(0, n), dataSize, BlockPackets(k))
             /\ Stale(k, buffer \o Piece(0, n)) \/ BlockPackets(k) # <<>>
      BY <1>3, <2>3, FedPartial, Zenon
    <3>2. PICK d : d = buffer \o Piece(0, n)
      OBVIOUS
    <3>3. CASE r = Result("READ_BODY", d, dataSize, <<>>) /\ Partial(k, d, dataSize, sent + n)
      <4>1. After(r) = Result("READ_BODY", d, dataSize, <<>>)
        BY <3>3, AfterCases
      <4>2. /\ After(r).st = "READ_BODY" /\ After(r).buf = d
            /\ After(r).need = dataSize /\ After(r).pk = <<>>
        BY <4>1, ResultFields
      <4> QED
        BY <3>3, <4>2, Zenon DEF Kept
    <3>4. CASE r = Throw
      <4>1. After(r).st = "READ_HEADER" /\ After(r).buf = <<>> /\ After(r).pk = <<>>
        BY <3>4, AfterCases, ResultFields
      <4> QED
        BY <4>1, Zenon DEF Kept
    <3>5. CASE /\ EndOf[k] <= sent + n
               /\ r = Result("READ_HEADER", d, dataSize, BlockPackets(k))
               /\ Stale(k, d) \/ BlockPackets(k) # <<>>
      <4>1. CASE BlockPackets(k) = <<>>
        <5>1. After(r) = Result("READ_HEADER", d, dataSize, <<>>)
          BY <3>5, <4>1, AfterCases
        <5>2. After(r).st = "READ_HEADER" /\ After(r).buf = d /\ After(r).pk = <<>>
          BY <5>1, ResultFields
        <5> QED
          BY <3>5, <4>1, <5>2, Zenon DEF Kept
      <4>2. CASE BlockPackets(k) # <<>>
        <5>1. After(r) = Result("READ_HEADER", <<>>, 0, BlockPackets(k))
          BY <3>5, <4>2, AfterCases
        <5>2. After(r).st = "READ_HEADER" /\ After(r).buf = <<>> /\ After(r).pk = BlockPackets(k)
          BY <5>1, ResultFields
        <5>3. Kept(After(r).st, After(r).buf, After(r).need, sent + n)
          BY <5>2, Zenon DEF Kept
        <5>4. sent < EndOf[k]
          BY <2>3 DEF Partial
        <5> QED
          BY <3>5, <5>2, <5>3, <5>4, Zenon
      <4> QED
        BY <4>1, <4>2
    <3> QED
      BY <3>1, <3>2, <3>3, <3>4, <3>5, Zenon
  <2> QED
    BY <2>1, <2>2, <2>3
<1>4. CASE rstate # "READ_BODY" /\ ~(rstate = "WAIT_HEADER" /\ n < HdrSize)
  <2>1. r \in ParseHeader(Piece(0, n), buffer, dataSize)
    BY <1>1, <1>4 DEF Parse
  <2>2. rstate \in {"WAIT_HEADER", "READ_HEADER"}
    BY <1>4 DEF Parser
  <2>3. buffer = <<>> \/ \E k \in 1..Len(stream) : Stale(k, buffer)
    BY <2>2 DEF Kept
  <2>4. n < HdrSize => Piece(0, n)[1][2] # 1
    BY <1>4, <2>2
  <2> QED
    BY <2>1, <2>3, <2>4, FedHeader
<1> QED
  BY <1>2, <1>3, <1>4

-----------------------------------------------------------------------------
(* When nothing has cost a packet.                                         *)

\* Between two blocks nothing is kept; inside one, its cells are, unless its
\* header was refused.
AlignedAt(st, buf, need, at) ==
    /\ st = "WAIT_HEADER" => at = 0
    /\ \/ /\ \E k \in 0..Len(stream) : at = EndOf[k]
          /\ st # "READ_BODY" /\ buf = <<>>
       \/ \E k \in 1..Len(stream) :
             \/ Partial(k, buf, need, at) /\ st = "READ_BODY"
             \/ /\ ~HeaderOK(stream[k]) /\ EndOf[k - 1] + HdrSize <= at /\ at < EndOf[k]
                /\ st = "READ_HEADER" /\ buf = <<>>

\* What block k has yielded when at cells of the stream have arrived.
YieldOf(k, at) ==
    IF EndOf[k] <= at /\ Readable(stream[k]) THEN BlockPackets(k) ELSE <<>>

\* A segment of an aligned stream lies in one block.
LEMMA OneBlock ==
    ASSUME Parser, NEW n \in Nat, 1 <= n, sent + n <= Len(Cells),
           ~ \E i \in DOMAIN Piece(0, n) : Piece(0, n)[i][2] = 1 /\ i > 1
    PROVE  \E k \in 1..Len(stream) :
              /\ EndOf[k - 1] \in Nat /\ EndOf[k] \in Nat
              /\ EndOf[k - 1] <= sent /\ sent < EndOf[k] /\ sent + n <= EndOf[k]
              /\ Piece(0, n)[1] = <<k, (sent + 1) - EndOf[k - 1]>>
<1>1. sent \in Nat /\ Len(Cells) \in Nat /\ Len(stream) \in Nat /\ EndOf[Len(stream)] = Len(Cells)
  BY CellsFacts DEF Parser
<1>2. sent + 1 \in 1..Len(Cells)
  BY <1>1
<1>3. PICK k \in 1..Len(stream) :
         /\ EndOf[k - 1] \in Nat /\ EndOf[k] \in Nat
         /\ EndOf[k - 1] < sent + 1 /\ sent + 1 <= EndOf[k]
         /\ Cells[sent + 1] = <<k, (sent + 1) - EndOf[k - 1]>>
  <2>1. PICK p : p = sent + 1
    OBVIOUS
  <2>2. p \in 1..Len(Cells)
    BY <1>2, <2>1
  <2>3. PICK k \in 1..Len(stream) :
           /\ EndOf[k - 1] \in Nat /\ EndOf[k] \in Nat
           /\ EndOf[k - 1] < p /\ p <= EndOf[k] /\ Cells[p] = <<k, p - EndOf[k - 1]>>
    BY <2>2, CellAt, Zenon
  <2> QED
    BY <2>1, <2>3, Zenon
<1>4. EndOf[k - 1] <= sent /\ sent < EndOf[k]
  BY <1>1, <1>3
<1>5. /\ Piece(0, n) \in Seq(Cell) /\ Len(Piece(0, n)) = n
      /\ \A i \in 1..n : Piece(0, n)[i] = Cells[sent + i]
  BY PieceFacts
<1>6. DOMAIN Piece(0, n) = 1..n
  <2>1. PICK X : X = Cell
    OBVIOUS
  <2>2. Piece(0, n) \in Seq(X)
    BY <1>5, <2>1
  <2> QED
    BY <1>5, <2>2
<1>7. sent + n <= EndOf[k]
  <2> SUFFICES ASSUME ~(sent + n <= EndOf[k]) PROVE FALSE
    OBVIOUS
  <2>1. EndOf[k] < sent + n
    BY <1>1, <1>3
  <2>2. k # Len(stream)
    BY <1>1, <1>3, <2>1
  <2>3. k + 1 \in 1..Len(stream) /\ (k + 1) - 1 = k
    BY <1>1, <2>2
  <2>4. /\ BlockSize(stream[k + 1]) \in Nat /\ HdrSize <= BlockSize(stream[k + 1])
        /\ \A i \in 1..BlockSize(stream[k + 1]) : Cells[EndOf[(k + 1) - 1] + i] = <<k + 1, i>>
    BY <2>3, CellsFacts
  <2>5. 1 \in 1..BlockSize(stream[k + 1])
    BY <2>4 DEF HdrSize
  <2>6. Cells[EndOf[k] + 1] = <<k + 1, 1>>
    BY <2>3, <2>4, <2>5
  <2>7. PICK i : i = (EndOf[k] + 1) - sent
    OBVIOUS
  <2>8. i \in 1..n /\ i > 1 /\ sent + i = EndOf[k] + 1
    <3>1. PICK e : e = EndOf[k]
      OBVIOUS
    <3>2. e \in Nat /\ sent < e /\ e < sent + n /\ i = (e + 1) - sent
      BY <1>3, <1>4, <2>1, <2>7, <3>1
    <3>3. i \in 1..n /\ i > 1 /\ sent + i = e + 1
      BY <1>1, <3>2
    <3> QED
      BY <3>1, <3>3
  <2>9. Piece(0, n)[i] = <<k + 1, 1>>
    BY <1>5, <2>6, <2>8
  <2> QED
    BY <1>6, <2>8, <2>9
<1>8. Piece(0, n)[1] = <<k, (sent + 1) - EndOf[k - 1]>>
  <2>1. 1 \in 1..n
    OBVIOUS
  <2> QED
    BY <1>3, <1>5, <2>1
<1> QED
  BY <1>3, <1>4, <1>7, <1>8

\* A block in whose middle the stream stands.
LEMMA SameBlock ==
    ASSUME Parser, NEW k \in 1..Len(stream), NEW l \in 1..Len(stream),
           EndOf[k - 1] <= sent, sent < EndOf[k], EndOf[l - 1] <= sent, sent < EndOf[l]
    PROVE  k = l
<1>1. Len(stream) \in Nat /\ sent \in Nat
  BY CellsFacts DEF Parser
<1>2. k \in 0..Len(stream) /\ l \in 0..Len(stream) /\ k - 1 \in 0..Len(stream) /\ l - 1 \in 0..Len(stream)
  BY <1>1
<1>3. /\ EndOf[k] \in Nat /\ EndOf[l] \in Nat /\ EndOf[k - 1] \in Nat /\ EndOf[l - 1] \in Nat
      /\ k < l => EndOf[k] <= EndOf[l - 1]
      /\ l < k => EndOf[l] <= EndOf[k - 1]
  BY <1>2, EndOfGrows
<1> QED
  BY <1>1, <1>2, <1>3

\* After the whole of a refused block, or a part of it.
LEMMA RefusedAligned ==
    ASSUME Parser, NEW k \in 1..Len(stream), NEW at \in Nat, NEW r, r = Throw,
           EndOf[k - 1] + HdrSize <= at, at <= EndOf[k],
           ~Readable(stream[k]), EndOf[k] <= at \/ ~HeaderOK(stream[k])
    PROVE  /\ AlignedAt(After(r).st, After(r).buf, After(r).need, at)
           /\ After(r).pk = YieldOf(k, at)
<1>1. After(r) = Result("READ_HEADER", <<>>, 0, <<>>)
  BY AfterCases
<1>2. After(r).st = "READ_HEADER" /\ After(r).buf = <<>> /\ After(r).pk = <<>>
  BY <1>1, ResultFields
<1>3. After(r).pk = YieldOf(k, at)
  BY <1>2, Zenon DEF YieldOf
<1>4. k \in 0..Len(stream) /\ EndOf[k] \in Nat
  <2>1. k \in 0..Len(stream)
    BY CellsFacts
  <2> QED
    BY <2>1, EndOfGrows
<1>5. at = EndOf[k] \/ (at < EndOf[k] /\ ~HeaderOK(stream[k]))
  BY <1>4
<1> QED
  BY <1>2, <1>3, <1>4, <1>5, Zenon DEF AlignedAt

\* After the whole of a block that was read.
LEMMA ReadAligned ==
    ASSUME Parser, NEW k \in 1..Len(stream), NEW at \in Nat, at = EndOf[k],
           NEW r, NEW buf, NEW need, r = Result("READ_HEADER", buf, need, BlockPackets(k)),
           Readable(stream[k]), buf = <<>> \/ BlockPackets(k) # <<>>
    PROVE  /\ AlignedAt(After(r).st, After(r).buf, After(r).need, at)
           /\ After(r).pk = YieldOf(k, at)
<1>1. After(r).st = "READ_HEADER" /\ After(r).buf = <<>> /\ After(r).pk = BlockPackets(k)
  <2>1. CASE BlockPackets(k) # <<>>
    <3>1. After(r) = Result("READ_HEADER", <<>>, 0, BlockPackets(k))
      BY <2>1, AfterCases
    <3> QED
      BY <3>1, ResultFields
  <2>2. CASE BlockPackets(k) = <<>>
    <3>1. After(r) = Result("READ_HEADER", <<>>, need, <<>>)
      BY <2>2, AfterCases
    <3> QED
      BY <2>2, <3>1, ResultFields
  <2> QED
    BY <2>1, <2>2
<1>2. EndOf[k] <= at
  OBVIOUS
<1>3. k \in 0..Len(stream)
  BY CellsFacts
<1> QED
  BY <1>1, <1>2, <1>3, Zenon DEF AlignedAt, YieldOf

\* After a part of a block.
LEMMA PartAligned ==
    ASSUME Parser, NEW k \in 1..Len(stream), NEW at \in Nat, NEW r, NEW buf, NEW need,
           r = Result("READ_BODY", buf, need, <<>>), Partial(k, buf, need, at)
    PROVE  /\ AlignedAt(After(r).st, After(r).buf, After(r).need, at)
           /\ After(r).pk = YieldOf(k, at)
<1>1. After(r) = Result("READ_BODY", buf, need, <<>>)
  BY AfterCases
<1>2. /\ After(r).st = "READ_BODY" /\ After(r).buf = buf
      /\ After(r).need = need /\ After(r).pk = <<>>
  BY <1>1, ResultFields
<1>3. EndOf[k] \in Nat
  <2>1. k \in 0..Len(stream)
    BY CellsFacts
  <2> QED
    BY <2>1, EndOfGrows
<1>4. ~(EndOf[k] <= at)
  BY <1>3 DEF Partial
<1> QED
  BY <1>2, <1>4, Zenon DEF AlignedAt, YieldOf

\* What a segment makes of an aligned stream, when it does not cost a packet.
LEMMA FedAligned ==
    ASSUME Parser, NEW n \in Nat, 1 <= n, sent + n <= Len(Cells),
           AlignedAt(rstate, buffer, dataSize, sent), NEW r \in Parse(Piece(0, n)),
           Excuses(0, Piece(0, n), r) = {}
    PROVE  \E k \in 1..Len(stream) :
              /\ AlignedAt(After(r).st, After(r).buf, After(r).need, sent + n)
              /\ After(r).pk = YieldOf(k, sent + n)
              /\ EndOf[k - 1] <= sent /\ sent < EndOf[k] /\ sent + n <= EndOf[k]
<1>1. PICK c : c = Piece(0, n)
  OBVIOUS
<1>2. /\ ~ \E i \in DOMAIN c : c[i][2] = 1 /\ (i > 1 \/ Len(c) < HdrSize)
      /\ ~(rstate = "READ_BODY" /\ ~r.threw /\ r.st = "READ_HEADER" /\ r.pk = <<>>)
  <2>1. /\ (IF \E i \in DOMAIN c : c[i][2] = 1 /\ (i > 1 \/ Len(c) < HdrSize)
            THEN {"misaligned"} ELSE {}) = {}
        /\ (IF rstate = "READ_BODY" /\ ~r.threw /\ r.st = "READ_HEADER" /\ r.pk = <<>>
            THEN {"stale"} ELSE {}) = {}
    <3>1. PICK A, B, C, D :
             /\ A = IF 0 > 0 THEN {"merged"} ELSE {}
             /\ B = IF \E i \in DOMAIN c : c[i][2] = 1 /\ (i > 1 \/ Len(c) < HdrSize)
                    THEN {"misaligned"} ELSE {}
             /\ C = IF rstate = "READ_HEADER" /\ Len(c) < HdrSize /\ c[1][2] = 1
                    THEN {"overread"} ELSE {}
             /\ D = IF rstate = "READ_BODY" /\ ~r.threw /\ r.st = "READ_HEADER" /\ r.pk = <<>>
                    THEN {"stale"} ELSE {}
      OBVIOUS
    <3>2. A \cup B \cup C \cup D = {}
      BY <1>1, <3>1, Zenon DEF Excuses
    <3>3. B = {} /\ D = {}
      BY <3>2
    <3> QED
      BY <3>1, <3>3, Zenon
  <2>2. "misaligned" \notin {} /\ "stale" \notin {}
    OBVIOUS
  <2>3. "misaligned" \in {"misaligned"} /\ "stale" \in {"stale"}
    OBVIOUS
  <2> QED
    BY <2>1, <2>2, <2>3, Zenon
<1>3. PICK k \in 1..Len(stream) :
         /\ EndOf[k - 1] \in Nat /\ EndOf[k] \in Nat
         /\ EndOf[k - 1] <= sent /\ sent < EndOf[k] /\ sent + n <= EndOf[k]
         /\ c[1] = <<k, (sent + 1) - EndOf[k - 1]>>
  <2>1. ~ \E i \in DOMAIN Piece(0, n) : Piece(0, n)[i][2] = 1 /\ i > 1
    BY <1>1, <1>2, Zenon
  <2> QED
    BY <1>1, <2>1, OneBlock, Zenon
<1>4. /\ c \in Seq(Cell) /\ Len(c) = n /\ DOMAIN c = 1..n /\ c # <<>> /\ 1 \in DOMAIN c
      /\ c = SubSeq(Cells, sent + 1, sent + n)
  <2>1. c \in Seq(Cell) /\ Len(c) = n /\ c = SubSeq(Cells, sent + 1, sent + n)
    BY <1>1, PieceFacts
  <2>2. PICK X : X = Cell
    OBVIOUS
  <2>3. c \in Seq(X)
    BY <2>1, <2>2
  <2>4. DOMAIN c = 1..n /\ 1 \in 1..n
    BY <2>1, <2>3
  <2>5. c # <<>>
    <3>1. Len(c) # 0
      BY <2>1
    <3> QED
      BY <3>1
  <2> QED
    BY <2>1, <2>4, <2>5
<1>5. sent \in Nat /\ sent + n \in Nat /\ Len(stream) \in Nat
  BY CellsFacts DEF Parser
<1>6. /\ BlockSize(stream[k]) \in Nat /\ HdrSize <= BlockSize(stream[k])
      /\ EndOf[k] = EndOf[k - 1] + BlockSize(stream[k])
  BY CellsFacts
<1> DEFINE Goal == /\ AlignedAt(After(r).st, After(r).buf, After(r).need, sent + n)
                   /\ After(r).pk = YieldOf(k, sent + n)
<1> SUFFICES Goal
  BY <1>3, Zenon
<1>7. CASE /\ \E l \in 0..Len(stream) : sent = EndOf[l]
           /\ rstate # "READ_BODY" /\ buffer = <<>>
  <2>1. EndOf[k - 1] = sent
    <3>1. PICK l \in 0..Len(stream) : sent = EndOf[l]
      BY <1>7
    <3>2. k \in 0..Len(stream) /\ k - 1 \in 0..Len(stream)
      BY <1>5
    <3>3. l < k
      <4>1. k <= l => EndOf[k] <= EndOf[l]
        BY <3>2, EndOfGrows
      <4>2. ~(EndOf[k] <= EndOf[l])
        BY <1>3, <1>5, <3>1
      <4> QED
        BY <4>1, <4>2, <1>5
    <3>4. EndOf[l] <= EndOf[k - 1]
      BY <3>2, <3>3, EndOfGrows
    <3> QED
      BY <1>3, <1>5, <3>1, <3>4
  <2>2. /\ c[1] = <<k, 1>>
        /\ HdrSize <= n => c[2] = <<k, 2>>
        /\ BlockSize(stream[k]) <= n => \A i \in 1..BlockSize(stream[k]) : c[i] = <<k, i>>
    BY <1>1, <2>1, PieceOfBlock
  <2>3. HdrSize <= n /\ ~(Len(c) < HdrSize)
    <3>1. c[1][2] = 1
      BY <2>2
    <3>2. ~(Len(c) < HdrSize)
      BY <1>2, <1>4, <3>1, Zenon
    <3> QED
      BY <1>4, <3>2 DEF HdrSize
  <2>4. r \in ParseHeader(c, <<>>, dataSize)
    BY <1>1, <1>7, <2>3 DEF Parse
  <2>5. \/ ~HeaderOK(stream[k]) /\ r = Throw
        \/ /\ HeaderOK(stream[k]) /\ Len(c) < BlockSize(stream[k])
           /\ r = Result("READ_BODY", <<>> \o c, BlockSize(stream[k]), <<>>)
        \/ /\ HeaderOK(stream[k]) /\ BlockSize(stream[k]) <= Len(c)
           /\ ~Readable(stream[k]) /\ r = Throw
        \/ /\ Readable(stream[k]) /\ BlockSize(stream[k]) <= Len(c)
           /\ r = Result("READ_HEADER", <<>>, dataSize, BlockPackets(k))
    <3>1. HdrSize <= Len(c) /\ Len(c) \in Nat
      BY <1>4, <2>3
    <3>2. c[2] = <<k, 2>> /\ (BlockSize(stream[k]) <= Len(c) =>
                                \A i \in 1..BlockSize(stream[k]) : c[i] = <<k, i>>)
      BY <1>4, <2>2, <2>3
    <3> QED
      BY <1>4, <1>6, <2>2, <2>4, <3>1, <3>2, ParseBlock, Zenon
  <2>6. EndOf[k - 1] + HdrSize <= sent + n
    BY <1>5, <2>1, <2>3 DEF HdrSize
  <2>7. BlockSize(stream[k]) <= Len(c) => EndOf[k] <= sent + n /\ sent + n = EndOf[k]
    BY <1>3, <1>4, <1>5, <1>6, <2>1
  <2>8. CASE r = Throw /\ (~HeaderOK(stream[k]) \/ (BlockSize(stream[k]) <= Len(c) /\ ~Readable(stream[k])))
    <3>1. ~Readable(stream[k]) /\ (EndOf[k] <= sent + n \/ ~HeaderOK(stream[k]))
      BY <2>7, <2>8, Zenon DEF Readable
    <3> QED
      BY <1>3, <1>5, <2>6, <2>8, <3>1, RefusedAligned
  <2>9. CASE /\ HeaderOK(stream[k]) /\ Len(c) < BlockSize(stream[k])
             /\ r = Result("READ_BODY", <<>> \o c, BlockSize(stream[k]), <<>>)
    <3>1. <<>> \o c = c
      BY <1>4
    <3>2. r = Result("READ_BODY", c, BlockSize(stream[k]), <<>>)
      BY <2>9, <3>1, Zenon
    <3>3. sent + n < EndOf[k]
      BY <1>3, <1>4, <1>5, <1>6, <2>1, <2>9
    <3>4. Partial(k, c, BlockSize(stream[k]), sent + n)
      BY <1>4, <2>1, <2>6, <2>9, <3>3, Zenon DEF Partial
    <3> QED
      BY <1>5, <3>2, <3>4, PartAligned, Zenon
  <2>10. CASE /\ Readable(stream[k]) /\ BlockSize(stream[k]) <= Len(c)
              /\ r = Result("READ_HEADER", <<>>, dataSize, BlockPackets(k))
    <3>1. sent + n = EndOf[k] /\ Readable(stream[k])
      BY <2>7, <2>10
    <3>2. r = Result("READ_HEADER", <<>>, dataSize, BlockPackets(k))
      BY <2>10
    <3> QED
      BY <1>5, <3>1, <3>2, ReadAligned, Zenon
  <2> QED
    BY <2>5, <2>8, <2>9, <2>10
<1>8. ASSUME NEW l \in 1..Len(stream), Partial(l, buffer, dataSize, sent), rstate = "READ_BODY"
      PROVE  Goal
  <2>1. l = k
    <3>1. EndOf[l - 1] <= sent /\ sent < EndOf[l]
      <4>1. l - 1 \in 0..Len(stream)
        BY <1>5
      <4>2. EndOf[l - 1] \in Nat
        BY <4>1, EndOfGrows
      <4> QED
        BY <1>5, <1>8, <4>2 DEF Partial, HdrSize
    <3> QED
      BY <1>3, <3>1, SameBlock
  <2>2. PICK d : d = buffer \o Piece(0, n)
    OBVIOUS
  <2>3. \/ /\ r = Result("READ_BODY", d, dataSize, <<>>)
           /\ Partial(k, d, dataSize, sent + n)
        \/ /\ EndOf[k] <= sent + n /\ ~Readable(stream[k]) /\ r = Throw
        \/ /\ EndOf[k] <= sent + n /\ Readable(stream[k])
           /\ r = Result("READ_HEADER", d, dataSize, BlockPackets(k))
    BY <1>8, <2>1, <2>2, FedPartial, Zenon
  <2>4. CASE /\ r = Result("READ_BODY", d, dataSize, <<>>)
             /\ Partial(k, d, dataSize, sent + n)
    BY <1>5, <2>4, PartAligned
  <2>5. CASE EndOf[k] <= sent + n /\ ~Readable(stream[k]) /\ r = Throw
    <3>1. EndOf[k - 1] + HdrSize <= sent + n
      BY <1>3, <1>5, <1>6, <2>5 DEF HdrSize
    <3> QED
      BY <1>3, <1>5, <2>5, <3>1, RefusedAligned
  <2>6. CASE /\ EndOf[k] <= sent + n /\ Readable(stream[k])
             /\ r = Result("READ_HEADER", d, dataSize, BlockPackets(k))
    <3>1. BlockPackets(k) # <<>>
      <4>1. r.threw = FALSE /\ r.st = "READ_HEADER" /\ r.pk = BlockPackets(k)
        BY <2>6, ResultFields
      <4> QED
        BY <1>2, <1>8, <4>1, Zenon
    <3>2. sent + n = EndOf[k]
      BY <1>3, <1>5, <2>6
    <3> QED
      BY <1>5, <2>6, <3>1, <3>2, ReadAligned
  <2> QED
    BY <2>3, <2>4, <2>5, <2>6
<1>9. ASSUME NEW l \in 1..Len(stream), ~HeaderOK(stream[l]), EndOf[l - 1] + HdrSize <= sent,
             sent < EndOf[l], rstate = "READ_HEADER", buffer = <<>>
      PROVE  Goal
  <2>1. l = k
    <3>1. l - 1 \in 0..Len(stream)
      BY <1>5
    <3>2. EndOf[l - 1] \in Nat
      BY <3>1, EndOfGrows
    <3>3. EndOf[l - 1] <= sent
      BY <1>5, <1>9, <3>2 DEF HdrSize
    <3> QED
      BY <1>3, <1>9, <3>3, SameBlock
  <2>2. r \in ParseHeader(c, <<>>, dataSize)
    BY <1>1, <1>9 DEF Parse
  <2>3. c[1][2] # 1
    <3>1. c[1][2] = (sent + 1) - EndOf[k - 1]
      BY <1>3
    <3> QED
      BY <1>3, <1>5, <1>9, <2>1, <3>1 DEF HdrSize
  <2>4. r = Throw
    BY <2>2, <2>3, ParseMiddle
  <2>5. ~Readable(stream[k]) /\ ~HeaderOK(stream[k])
    BY <1>9, <2>1, Zenon DEF Readable
  <2>6. EndOf[k - 1] + HdrSize <= sent + n
    BY <1>3, <1>5, <1>9, <2>1 DEF HdrSize
  <2> QED
    BY <1>3, <1>5, <2>4, <2>5, <2>6, RefusedAligned
<1>10. \/ /\ \E l \in 0..Len(stream) : sent = EndOf[l]
          /\ rstate # "READ_BODY" /\ buffer = <<>>
       \/ \E l \in 1..Len(stream) :
             \/ Partial(l, buffer, dataSize, sent) /\ rstate = "READ_BODY"
             \/ /\ ~HeaderOK(stream[l]) /\ EndOf[l - 1] + HdrSize <= sent /\ sent < EndOf[l]
                /\ rstate = "READ_HEADER" /\ buffer = <<>>
  BY Zenon DEF AlignedAt
<1> QED
  BY <1>7, <1>8, <1>9, <1>10, Zenon

-----------------------------------------------------------------------------
(* The packets found so far.                                               *)

Before(x, y) == x[1] < y[1] \/ (x[1] = y[1] /\ x[2] < y[2])

\* They are of blocks that have arrived, in the order of the stream.
Ordered(o, at) ==
    /\ \A i \in 1..Len(o) : o[i][1] \in 1..Len(stream) /\ EndOf[o[i][1]] <= at
    /\ \A i, j \in 1..Len(o) : i < j => Before(o[i], o[j])

\* What the blocks have yielded when at cells of the stream have arrived.
Yields(at) == [k \in DOMAIN stream |-> YieldOf(k, at)]

\* More cells, without a packet.
LEMMA OrderedLater ==
    ASSUME Parser, NEW o, Ordered(o, sent), NEW n \in Nat
    PROVE  Ordered(o, sent + n)
<1>1. ASSUME NEW i \in 1..Len(o) PROVE EndOf[o[i][1]] <= sent + n
  <2>1. o[i][1] \in 1..Len(stream) /\ EndOf[o[i][1]] <= sent
    BY Zenon DEF Ordered
  <2>2. PICK k \in 1..Len(stream) : k = o[i][1]
    BY <2>1
  <2>3. EndOf[k] \in Nat
    <3>1. k \in 0..Len(stream)
      BY CellsFacts
    <3> QED
      BY <3>1, EndOfGrows
  <2>4. EndOf[k] <= sent + n
    BY <2>1, <2>2, <2>3 DEF Parser
  <2> QED
    BY <2>2, <2>4
<1> QED
  BY <1>1, Zenon DEF Ordered

\* The packets of a block that has just arrived come behind them.
LEMMA OrderedMore ==
    ASSUME Parser, NEW n \in Nat, out \in Seq(Nat \X Nat), Ordered(out, sent),
           NEW k \in 1..Len(stream), sent < EndOf[k], EndOf[k] <= sent + n
    PROVE  Ordered(out \o BlockPackets(k), sent + n)
<1>1. PICK p : p = BlockPackets(k)
  OBVIOUS
<1>2. PICK X : X = Nat \X Nat
  OBVIOUS
<1>3. k \in DOMAIN stream /\ k \in 0..Len(stream) /\ Len(stream) \in Nat
  BY Blocks
<1>4. /\ p \in Seq(X)
      /\ \A i \in 1..Len(p) : p[i][1] = k
      /\ \A i, j \in 1..Len(p) : i < j => p[i][2] < p[j][2]
  BY <1>1, <1>2, <1>3, BlockPacketsOrder
<1>5. out \in Seq(X)
  BY <1>2
<1>6. PICK o : o = out \o p
  OBVIOUS
<1>7. PICK l, m : l = Len(out) /\ m = Len(p)
  OBVIOUS
<1>8. /\ l \in Nat /\ m \in Nat /\ Len(o) = l + m
      /\ \A i \in 1..l : o[i] = out[i]
      /\ \A i \in 1..m : o[l + i] = p[i]
  BY <1>4, <1>5, <1>6, <1>7, Joined, LenProperties
<1>9. /\ \A i \in 1..l : out[i][1] \in 1..Len(stream) /\ EndOf[out[i][1]] <= sent
      /\ \A i, j \in 1..l : i < j => Before(out[i], out[j])
  BY <1>7, Zenon DEF Ordered
<1>10. \A i \in 1..l : out[i][1] < k /\ EndOf[out[i][1]] <= sent + n
  <2> SUFFICES ASSUME NEW i \in 1..l PROVE out[i][1] < k /\ EndOf[out[i][1]] <= sent + n
    OBVIOUS
  <2>1. PICK b \in 1..Len(stream) : b = out[i][1]
    BY <1>9
  <2>2. EndOf[b] <= sent
    BY <1>9, <2>1
  <2>3. b \in 0..Len(stream)
    BY <1>3
  <2>4. EndOf[b] \in Nat /\ EndOf[k] \in Nat /\ (k <= b => EndOf[k] <= EndOf[b])
    BY <1>3, <2>3, EndOfGrows
  <2>5. b < k /\ EndOf[b] <= sent + n
    BY <1>3, <2>2, <2>4 DEF Parser
  <2> QED
    BY <2>1, <2>5
<1>11. \A i \in 1..(l + m) : i \in 1..l \/ (i - l \in 1..m /\ l + (i - l) = i)
  BY <1>8
<1>12. ASSUME NEW i \in 1..(l + m)
       PROVE  o[i][1] \in 1..Len(stream) /\ EndOf[o[i][1]] <= sent + n
  <2>1. CASE i \in 1..l
    <3>1. o[i] = out[i]
      BY <1>8, <2>1
    <3>2. out[i][1] \in 1..Len(stream) /\ EndOf[out[i][1]] <= sent + n
      BY <1>9, <1>10, <2>1
    <3> QED
      BY <3>1, <3>2, Zenon
  <2>2. CASE i - l \in 1..m /\ l + (i - l) = i
    <3>1. o[i] = p[i - l]
      BY <1>8, <2>2
    <3>2. p[i - l][1] = k
      BY <1>4, <1>7, <2>2
    <3> QED
      BY <3>1, <3>2
  <2> QED
    BY <1>11, <2>1, <2>2
<1>13. ASSUME NEW i \in 1..(l + m), NEW j \in 1..(l + m), i < j
       PROVE  Before(o[i], o[j])
  <2>1. CASE i \in 1..l /\ j \in 1..l
    <3>1. o[i] = out[i] /\ o[j] = out[j]
      BY <1>8, <2>1
    <3>2. Before(out[i], out[j])
      BY <1>9, <1>13, <2>1
    <3> QED
      BY <3>1, <3>2, Zenon
  <2>2. CASE i \in 1..l /\ j - l \in 1..m /\ l + (j - l) = j
    <3>1. o[i] = out[i] /\ o[j] = p[j - l]
      BY <1>8, <2>2
    <3>2. out[i][1] < k /\ p[j - l][1] = k
      BY <1>4, <1>7, <1>10, <2>2
    <3>3. o[i][1] < o[j][1]
      BY <3>1, <3>2
    <3> QED
      BY <3>3, Zenon DEF Before
  <2>3. CASE i - l \in 1..m /\ l + (i - l) = i /\ j - l \in 1..m /\ l + (j - l) = j
    <3>1. o[i] = p[i - l] /\ o[j] = p[j - l]
      BY <1>8, <2>3
    <3>2. i - l < j - l
      BY <1>8, <1>13
    <3>3. p[i - l][1] = p[j - l][1] /\ p[i - l][2] < p[j - l][2]
      BY <1>4, <1>7, <2>3, <3>2
    <3> QED
      BY <3>1, <3>3, Zenon DEF Before
  <2>4. ~(i - l \in 1..m /\ j \in 1..l)
    BY <1>8, <1>13
  <2> QED
    BY <1>11, <2>1, <2>2, <2>3, <2>4
<1>14. Ordered(o, sent + n)
  <2>1. Len(o) = l + m
    BY <1>8
  <2> QED
    BY <1>12, <1>13, <2>1, Zenon DEF Ordered
<1> QED
  BY <1>1, <1>6, <1>14

\* The yields are sequences of packets.
LEMMA YieldsType ==
    ASSUME Parser, NEW at
    PROVE  /\ Yields(at) \in Seq(Seq(Nat \X Nat)) /\ Len(Yields(at)) = Len(stream)
           /\ \A k \in 1..Len(stream) : Yields(at)[k] = YieldOf(k, at)
<1>1. DOMAIN stream = 1..Len(stream) /\ Len(stream) \in Nat
  BY Blocks
<1>2. PICK X : X = Seq(Nat \X Nat)
  OBVIOUS
<1>3. ASSUME NEW k \in 1..Len(stream) PROVE YieldOf(k, at) \in X
  <2>1. BlockPackets(k) \in X
    BY <1>1, <1>2, BlockPacketsType
  <2>2. <<>> \in X
    BY <1>2
  <2> QED
    BY <2>1, <2>2, Zenon DEF YieldOf
<1>4. PICK s : s = Yields(at)
  OBVIOUS
<1>5. s \in [1..Len(stream) -> X] /\ \A k \in 1..Len(stream) : s[k] = YieldOf(k, at)
  <2>1. s = [k \in 1..Len(stream) |-> YieldOf(k, at)]
    BY <1>1, <1>4, Zenon DEF Yields
  <2> QED
    BY <1>3, <2>1, Zenon
<1>6. s \in Seq(X) /\ Len(s) = Len(stream)
  BY <1>1, <1>5
<1> QED
  BY <1>2, <1>4, <1>5, <1>6, Zenon

\* A segment within one block adds what this block yields.
LEMMA YieldsMore ==
    ASSUME Parser, NEW n \in Nat, NEW k \in 1..Len(stream),
           EndOf[k - 1] <= sent, sent < EndOf[k], sent + n <= EndOf[k]
    PROVE  FlattenSeq(Yields(sent + n)) = FlattenSeq(Yields(sent)) \o YieldOf(k, sent + n)
<1>1. PICK s : s = Yields(sent)
  OBVIOUS
<1>2. PICK at : at = sent + n
  OBVIOUS
<1>3. PICK t : t = Yields(at)
  OBVIOUS
<1>4. PICK X : X = Nat \X Nat
  OBVIOUS
<1>5. /\ s \in Seq(Seq(X)) /\ Len(s) = Len(stream)
      /\ t \in Seq(Seq(X)) /\ Len(t) = Len(stream)
      /\ \A i \in 1..Len(stream) : s[i] = YieldOf(i, sent) /\ t[i] = YieldOf(i, at)
  BY <1>1, <1>3, <1>4, YieldsType
<1>6. sent \in Nat /\ at \in Nat /\ Len(stream) \in Nat /\ sent <= at /\ at <= EndOf[k]
  BY <1>2, CellsFacts DEF Parser
<1>7. k \in 0..Len(stream) /\ k - 1 \in 0..Len(stream) /\ EndOf[k] \in Nat
  <2>1. k \in 0..Len(stream) /\ k - 1 \in 0..Len(stream)
    BY <1>6
  <2> QED
    BY <2>1, EndOfGrows
<1>8. s[k] = <<>>
  <2>1. ~(EndOf[k] <= sent)
    BY <1>6, <1>7
  <2> QED
    BY <1>5, <2>1, Zenon DEF YieldOf
<1>9. ASSUME NEW i \in 1..(k - 1) PROVE s[i] = t[i]
  <2>1. i \in 1..Len(stream) /\ i \in 0..Len(stream) /\ i <= k - 1
    BY <1>6
  <2>2. EndOf[i] <= EndOf[k - 1] /\ EndOf[i] \in Nat /\ EndOf[k - 1] \in Nat
    BY <1>7, <2>1, EndOfGrows
  <2>3. EndOf[i] <= sent /\ EndOf[i] <= at
    BY <1>6, <2>2
  <2> QED
    BY <1>5, <2>1, <2>3, Zenon DEF YieldOf
<1>10. ASSUME NEW i \in (k + 1)..Len(stream) PROVE s[i] = <<>> /\ t[i] = <<>>
  <2>1. i \in 1..Len(stream) /\ i \in 0..Len(stream) /\ k < i
    BY <1>6
  <2>2. EndOf[k] < EndOf[i] /\ EndOf[i] \in Nat
    BY <1>7, <2>1, EndOfGrows
  <2>3. ~(EndOf[i] <= sent) /\ ~(EndOf[i] <= at)
    BY <1>6, <1>7, <2>2
  <2> QED
    BY <1>5, <2>1, <2>3, Zenon DEF YieldOf
<1>11. FlattenSeq(t) = FlattenSeq(s) \o t[k]
  <2>1. k \in 1..Len(s) /\ Len(s) = Len(t)
    BY <1>5
  <2>2. \A i \in (k + 1)..Len(s) : s[i] = <<>> /\ t[i] = <<>>
    BY <1>5, <1>10
  <2> QED
    BY <1>5, <1>8, <1>9, <2>1, <2>2, FlattenFill
<1> QED
  BY <1>1, <1>2, <1>3, <1>5, <1>11, Zenon

-----------------------------------------------------------------------------
(* The invariant of the reassembly.                                        *)

\* No cell has arrived before the first sniffer reads.
Fresh ==
    /\ gen \in Nat /\ sent <= Len(Cells)
    /\ wait # "none" => sniffer = "live"
    /\ gen = 0 => sniffer = "none" /\ sent = 0
    /\ gen <= 1 /\ sniffer \in Opening \cup {"opened"} => sent = 0

\* The parser "tcpstream" has handed on the stream.
Handed ==
    params.parser = "tcpstream" =>
      /\ out \in Seq(Seq(Cell))
      /\ excuse = {} => FlattenSeq(out) = SubSeq(Cells, 1, sent)

\* The parser "voip" has found packets that were sent, in their order, and when
\* nothing has cost one all of them.
Found ==
    params.parser = "voip" =>
      /\ out \in Seq(Nat \X Nat)
      /\ excuse \cap {"overread", "merged"} = {} =>
           Kept(rstate, buffer, dataSize, sent) /\ Ordered(out, sent)
      /\ excuse = {} =>
           AlignedAt(rstate, buffer, dataSize, sent) /\ out = FlattenSeq(Yields(sent))

\* What is said of a stream that does not change.
LEMMA SameStream ==
    ASSUME stream' = stream
    PROVE  /\ Cells' = Cells /\ EndOf' = EndOf /\ Cell' = Cell
           /\ \A k : BlockPackets(k)' = BlockPackets(k)
<1>1. Cells' = Cells
  BY DEF Cells
<1>2. Laid' = Laid
  BY DEF Laid
<1>3. EndOf' = EndOf
  BY <1>1, <1>2 DEF EndOf
<1>4. \A k : BlockPackets(k)' = BlockPackets(k)
  BY DEF BlockPackets
<1> QED
  BY <1>1, <1>3, <1>4 DEF Cell

LEMMA SameKept ==
    ASSUME stream' = stream, Kept(rstate', buffer', dataSize', sent')
    PROVE  Kept(rstate, buffer, dataSize, sent)'
<1>1. Cells' = Cells /\ EndOf' = EndOf /\ \A k : BlockPackets(k)' = BlockPackets(k)
  BY SameStream
<1> QED
  BY <1>1, Zenon DEF Kept, Stale, Partial

LEMMA SameAligned ==
    ASSUME stream' = stream, AlignedAt(rstate', buffer', dataSize', sent')
    PROVE  AlignedAt(rstate, buffer, dataSize, sent)'
<1>1. Cells' = Cells /\ EndOf' = EndOf
  BY SameStream
<1> QED
  BY <1>1, Zenon DEF AlignedAt, Partial

LEMMA SameOrdered ==
    ASSUME stream' = stream, Ordered(out', sent')
    PROVE  Ordered(out, sent)'
<1>1. EndOf' = EndOf
  BY SameStream
<1> QED
  BY <1>1, Zenon DEF Ordered, Before

LEMMA SameYields ==
    ASSUME stream' = stream
    PROVE  Yields(sent)' = Yields(sent')
<1>1. EndOf' = EndOf /\ \A k : BlockPackets(k)' = BlockPackets(k)
  BY SameStream
<1>2. \A k : YieldOf(k, sent)' = YieldOf(k, sent')
  BY <1>1, Zenon DEF YieldOf
<1> QED
  BY <1>2, Zenon DEF Yields

\* A step that leaves the parser alone.
LEMMA FoundFrame ==
    ASSUME Handed, Found, UNCHANGED <<rvars, params>>
    PROVE  Handed' /\ Found'
<1>1. /\ stream' = stream /\ sent' = sent /\ rstate' = rstate /\ buffer' = buffer
      /\ dataSize' = dataSize /\ out' = out /\ excuse' = excuse /\ params' = params
  BY DEF rvars
<1>2. Cells' = Cells /\ Cell' = Cell
  BY <1>1, SameStream
<1>3. Handed'
  BY <1>1, <1>2 DEF Handed
<1>4. Kept(rstate, buffer, dataSize, sent) => Kept(rstate, buffer, dataSize, sent)'
  <2>1. Kept(rstate, buffer, dataSize, sent) => Kept(rstate', buffer', dataSize', sent')
    BY <1>1, Zenon
  <2> QED
    BY <1>1, <2>1, SameKept
<1>5. AlignedAt(rstate, buffer, dataSize, sent) => AlignedAt(rstate, buffer, dataSize, sent)'
  <2>1. AlignedAt(rstate, buffer, dataSize, sent) => AlignedAt(rstate', buffer', dataSize', sent')
    BY <1>1, Zenon
  <2> QED
    BY <1>1, <2>1, SameAligned
<1>6. Ordered(out, sent) => Ordered(out, sent)'
  <2>1. Ordered(out, sent) => Ordered(out', sent')
    BY <1>1, Zenon
  <2> QED
    BY <1>1, <2>1, SameOrdered
<1>7. Yields(sent)' = Yields(sent)
  <2>1. Yields(sent') = Yields(sent)
    BY <1>1, Zenon
  <2> QED
    BY <1>1, <2>1, SameYields
<1>8. Found'
  BY <1>1, <1>4, <1>5, <1>6, <1>7, Zenon DEF Found
<1> QED
  BY <1>3, <1>8

\* A new parser for the same stream.
LEMMA FoundStarted ==
    ASSUME Parser, Fresh, Handed, Found, Started
    PROVE  Handed' /\ Found'
<1>1. /\ stream' = stream /\ sent' = sent /\ out' = out /\ params' = params
      /\ rstate' = "WAIT_HEADER" /\ buffer' = <<>> /\ dataSize' = 0
      /\ excuse' = IF gen > 1 THEN excuse \cup {"restarted"} ELSE excuse
      /\ sniffer = "opened"
  BY DEF Started, fvars
<1>2. Cells' = Cells /\ Cell' = Cell
  BY <1>1, SameStream
<1>3. excuse \subseteq excuse'
  BY <1>1
<1>4. excuse' = {} => excuse = {} /\ sent = 0
  <2>1. gen > 1 => "restarted" \in excuse'
    BY <1>1
  <2>2. gen > 1 \/ gen <= 1
    BY DEF Fresh
  <2>3. gen <= 1 => sent = 0
    BY <1>1 DEF Fresh
  <2> QED
    BY <1>3, <2>1, <2>2, <2>3
<1>5. Handed'
  BY <1>1, <1>2, <1>4 DEF Handed
<1>6. Kept(rstate, buffer, dataSize, sent)'
  <2>1. Kept(rstate', buffer', dataSize', sent')
    BY <1>1, Zenon DEF Kept
  <2> QED
    BY <1>1, <2>1, SameKept
<1>7. Ordered(out, sent) => Ordered(out, sent)'
  <2>1. Ordered(out, sent) => Ordered(out', sent')
    BY <1>1, Zenon
  <2> QED
    BY <1>1, <2>1, SameOrdered
<1>8. sent = 0 => AlignedAt(rstate, buffer, dataSize, sent)'
  <2> SUFFICES ASSUME sent = 0 PROVE AlignedAt(rstate, buffer, dataSize, sent)'
    OBVIOUS
  <2>1. 0 \in 0..Len(stream) /\ sent' = EndOf[0]
    BY <1>1, CellsFacts
  <2>2. AlignedAt(rstate', buffer', dataSize', sent')
    BY <1>1, <2>1, Zenon DEF AlignedAt
  <2> QED
    BY <1>1, <2>2, SameAligned
<1>9. Yields(sent)' = Yields(sent)
  <2>1. Yields(sent') = Yields(sent)
    BY <1>1, Zenon
  <2> QED
    BY <1>1, <2>1, SameYields
<1>10. excuse' \cap {"overread", "merged"} = {} => excuse \cap {"overread", "merged"} = {}
  BY <1>3
<1>11. Found'
  BY <1>1, <1>4, <1>6, <1>7, <1>8, <1>9, <1>10, Zenon DEF Found
<1> QED
  BY <1>5, <1>11

\* A segment.
LEMMA FoundSegment ==
    ASSUME Parser, Found, NEW m \in Nat, NEW n \in Nat, params' = params,
           params.parser = "voip", Feed(m, n)
    PROVE  Found'
<1>1. /\ m < n /\ sent + n <= Len(Cells) /\ sent' = sent + n /\ stream' = stream
  BY DEF Feed
<1>2. PICK r \in Parse(Piece(m, n)) : /\ rstate' = After(r).st
                                      /\ buffer' = After(r).buf
                                      /\ dataSize' = After(r).need
                                      /\ out' = out \o After(r).pk
                                      /\ excuse' = excuse \cup Excuses(m, Piece(m, n), r)
  BY Zenon DEF Feed
<1>3. out' \in Seq(Nat \X Nat)
  <2>1. Piece(m, n) \in Seq(Cell)
    BY <1>1, PieceType
  <2>2. After(r).pk \in Seq(Nat \X Nat)
    BY <1>2, <2>1, ParseType
  <2>3. PICK X : X = Nat \X Nat
    OBVIOUS
  <2>4. out \in Seq(X) /\ After(r).pk \in Seq(X)
    BY <2>2, <2>3 DEF Found
  <2>5. out \o After(r).pk \in Seq(X)
    BY <2>4, Joined
  <2> QED
    BY <1>2, <2>3, <2>5
<1>4. CASE m # 0
  <2>1. m > 0
    BY <1>4
  <2>2. "merged" \in Excuses(m, Piece(m, n), r)
    BY <2>1 DEF Excuses
  <2>3. "merged" \in excuse'
    BY <1>2, <2>2, Zenon
  <2>4. excuse' # {} /\ excuse' \cap {"overread", "merged"} # {}
    BY <2>3
  <2> QED
    BY <1>3, <2>4, Zenon DEF Found
<1>5. CASE m = 0
  <2>1. 1 <= n /\ r \in Parse(Piece(0, n)) /\ excuse' = excuse \cup Excuses(0, Piece(0, n), r)
    BY <1>1, <1>2, <1>5
  <2>2. excuse' \cap {"overread", "merged"} = {} =>
          Kept(rstate, buffer, dataSize, sent)' /\ Ordered(out, sent)'
    <3> SUFFICES ASSUME excuse' \cap {"overread", "merged"} = {}
                 PROVE  Kept(rstate, buffer, dataSize, sent)' /\ Ordered(out, sent)'
      OBVIOUS
    <3>1. excuse \cap {"overread", "merged"} = {} /\ "overread" \notin Excuses(0, Piece(0, n), r)
      BY <2>1
    <3>2. ~(rstate = "READ_HEADER" /\ n < HdrSize /\ Piece(0, n)[1][2] = 1)
      <4>1. Len(Piece(0, n)) = n
        BY <1>1, <2>1, PieceFacts
      <4> QED
        BY <3>1, <4>1 DEF Excuses
    <3>3. Kept(rstate, buffer, dataSize, sent) /\ Ordered(out, sent) /\ out \in Seq(Nat \X Nat)
      BY <3>1 DEF Found
    <3>4. /\ Kept(After(r).st, After(r).buf, After(r).need, sent + n)
          /\ \/ After(r).pk = <<>>
             \/ \E k \in 1..Len(stream) :
                   After(r).pk = BlockPackets(k) /\ sent < EndOf[k] /\ EndOf[k] <= sent + n
      BY <1>1, <2>1, <3>2, <3>3, Fed, Zenon
    <3>5. Ordered(out \o After(r).pk, sent + n)
      <4>1. CASE After(r).pk = <<>>
        <5>1. out \o After(r).pk = out
          <6>1. PICK X : X = Nat \X Nat
            OBVIOUS
          <6>2. out \in Seq(X)
            BY <3>3, <6>1
          <6> QED
            BY <4>1, <6>2
        <5>2. Ordered(out, sent + n)
          BY <3>3, OrderedLater
        <5> QED
          BY <5>1, <5>2, Zenon
      <4>2. ASSUME NEW k \in 1..Len(stream), After(r).pk = BlockPackets(k),
                   sent < EndOf[k], EndOf[k] <= sent + n
            PROVE  Ordered(out \o After(r).pk, sent + n)
        <5>1. Ordered(out \o BlockPackets(k), sent + n)
          BY <3>3, <4>2, OrderedMore
        <5> QED
          BY <4>2, <5>1, Zenon
      <4> QED
        BY <3>4, <4>1, <4>2
    <3>6. Kept(rstate', buffer', dataSize', sent') /\ Ordered(out', sent')
      BY <1>1, <1>2, <3>4, <3>5, Zenon
    <3> QED
      BY <1>1, <3>6, SameKept, SameOrdered
  <2>3. excuse' = {} =>
          AlignedAt(rstate, buffer, dataSize, sent)' /\ out' = FlattenSeq(Yields(sent)')
    <3> SUFFICES ASSUME excuse' = {}
                 PROVE  /\ AlignedAt(rstate, buffer, dataSize, sent)'
                        /\ out' = FlattenSeq(Yields(sent)')
      OBVIOUS
    <3>1. excuse = {} /\ Excuses(0, Piece(0, n), r) = {}
      BY <2>1
    <3>2. AlignedAt(rstate, buffer, dataSize, sent) /\ out = FlattenSeq(Yields(sent))
      BY <3>1 DEF Found
    <3>3. PICK k \in 1..Len(stream) :
             /\ AlignedAt(After(r).st, After(r).buf, After(r).need, sent + n)
             /\ After(r).pk = YieldOf(k, sent + n)
             /\ EndOf[k - 1] <= sent /\ sent < EndOf[k] /\ sent + n <= EndOf[k]
      BY <1>1, <2>1, <3>1, <3>2, FedAligned, Zenon
    <3>4. FlattenSeq(Yields(sent + n)) = FlattenSeq(Yields(sent)) \o YieldOf(k, sent + n)
      BY <3>3, YieldsMore, Zenon
    <3>5. out' = FlattenSeq(Yields(sent'))
      BY <1>1, <1>2, <3>2, <3>3, <3>4, Zenon
    <3>6. AlignedAt(rstate', buffer', dataSize', sent')
      BY <1>1, <1>2, <3>3, Zenon
    <3> QED
      BY <1>1, <3>5, <3>6, SameAligned, SameYields
  <2> QED
    BY <1>3, <2>2, <2>3, Zenon DEF Found
<1> QED
  BY <1>4, <1>5

\* What has arrived, with a piece behind it.
LEMMA PieceJoins ==
    ASSUME Parser, NEW n \in Nat, 1 <= n, sent + n <= Len(Cells)
    PROVE  SubSeq(Cells, 1, sent) \o Piece(0, n) = SubSeq(Cells, 1, sent + n)
<1>1. PICK X : X = Cell
  OBVIOUS
<1>2. PICK s : s = Cells
  OBVIOUS
<1>3. PICK c : c = Piece(0, n)
  OBVIOUS
<1>4. s \in Seq(X) /\ Len(s) \in Nat /\ sent \in Nat /\ sent + n <= Len(s)
  BY <1>1, <1>2, CellsFacts DEF Parser
<1>5. c \in Seq(X) /\ Len(c) = n /\ \A i \in 1..n : c[i] = s[sent + i]
  BY <1>1, <1>2, <1>3, PieceFacts
<1>6. PICK a : a = SubSeq(s, 1, sent)
  OBVIOUS
<1>7. PICK b : b = SubSeq(s, 1, sent + n)
  OBVIOUS
<1>8. a \in Seq(X) /\ Len(a) = sent /\ \A i \in 1..sent : a[i] = s[i]
  <2>1. \A i \in 1..sent : s[i] \in X /\ 1 + i - 1 = i
    BY <1>4
  <2>2. 1 \in Int /\ sent \in Int /\ sent - 1 + 1 = sent
    BY <1>4
  <2> QED
    BY <1>4, <1>6, <2>1, <2>2, SubSeqProperties
<1>9. b \in Seq(X) /\ Len(b) = sent + n /\ \A i \in 1..(sent + n) : b[i] = s[i]
  <2>1. PICK e : e = sent + n
    OBVIOUS
  <2>2. \A i \in 1..e : s[i] \in X /\ 1 + i - 1 = i
    BY <1>4, <2>1
  <2>3. 1 \in Int /\ e \in Int /\ 1 <= e /\ e - 1 + 1 = e
    BY <1>4, <2>1
  <2>4. b = SubSeq(s, 1, e)
    BY <1>7, <2>1
  <2>5. b \in Seq(X) /\ Len(b) = e /\ \A i \in 1..e : b[i] = s[i]
    BY <2>2, <2>3, <2>4, SubSeqProperties
  <2> QED
    BY <2>1, <2>5, Zenon
<1>10. PICK d : d = a \o c
  OBVIOUS
<1>11. /\ d \in Seq(X) /\ Len(d) = sent + n
       /\ \A i \in 1..sent : d[i] = a[i]
       /\ \A i \in 1..n : d[sent + i] = c[i]
  <2>1. /\ a \o c \in Seq(X) /\ Len(a \o c) = Len(a) + Len(c)
        /\ \A i \in 1..Len(a) : (a \o c)[i] = a[i]
        /\ \A i \in 1..Len(c) : (a \o c)[Len(a) + i] = c[i]
    <3>1. a \in Seq(X) /\ c \in Seq(X)
      BY <1>5, <1>8
    <3> QED
      BY <3>1, Joined
  <2> QED
    BY <1>5, <1>8, <1>10, <2>1, Zenon
<1>12. ASSUME NEW i \in 1..(sent + n) PROVE d[i] = b[i]
  <2>1. CASE i \in 1..sent
    BY <1>4, <1>8, <1>9, <1>11, <2>1
  <2>2. CASE ~(i \in 1..sent)
    <3>1. i - sent \in 1..n /\ sent + (i - sent) = i
      BY <1>4, <2>2
    <3>2. d[i] = c[i - sent] /\ c[i - sent] = s[i]
      BY <1>5, <1>11, <3>1
    <3> QED
      BY <1>9, <3>2
  <2> QED
    BY <2>1, <2>2
<1>13. d = b
  BY <1>9, <1>11, <1>12, SeqEqual
<1> QED
  BY <1>2, <1>3, <1>6, <1>7, <1>10, <1>13, Zenon

\* A piece of a stream that is handed on.
LEMMA HandedPiece ==
    ASSUME Parser, Handed, NEW m \in Nat, NEW n \in Nat, NextPiece(m, n)
    PROVE  Handed' /\ Found'
<1>1. /\ m < n /\ sent + n <= Len(Cells) /\ sent' = sent + n /\ stream' = stream
      /\ params.parser = "tcpstream" /\ params' = params
      /\ out' = Append(out, Piece(m, n))
      /\ excuse' = IF m > 0 THEN excuse \cup {"merged"} ELSE excuse
  BY DEF NextPiece, fvars
<1>2. Found'
  <2>1. params'.parser # "voip"
    BY <1>1
  <2> QED
    BY <2>1 DEF Found
<1>3. Cells' = Cells /\ Cell' = Cell
  BY <1>1, SameStream
<1>4. PICK X : X = Cell
  OBVIOUS
<1>5. Piece(m, n) \in Seq(X)
  BY <1>1, <1>4, PieceType
<1>6. out \in Seq(Seq(X))
  BY <1>1, <1>4 DEF Handed
<1>7. out' \in Seq(Seq(X))
  BY <1>1, <1>5, <1>6
<1>8. ASSUME excuse' = {} PROVE FlattenSeq(out') = SubSeq(Cells, 1, sent')
  <2>1. m = 0 /\ excuse = {}
    <3>1. m > 0 => "merged" \in excuse'
      BY <1>1
    <3> QED
      BY <1>1, <1>8, <3>1
  <2>2. FlattenSeq(out) = SubSeq(Cells, 1, sent)
    BY <1>1, <2>1 DEF Handed
  <2>3. FlattenSeq(Append(out, Piece(m, n))) = FlattenSeq(out) \o Piece(m, n)
    BY <1>5, <1>6, FlattenSnoc
  <2>4. SubSeq(Cells, 1, sent) \o Piece(0, n) = SubSeq(Cells, 1, sent + n)
    <3>1. 1 <= n
      BY <1>1
    <3> QED
      BY <1>1, <3>1, PieceJoins
  <2> QED
    BY <1>1, <2>1, <2>2, <2>3, <2>4, Zenon
<1>9. Handed'
  BY <1>3, <1>4, <1>7, <1>8, Zenon DEF Handed
<1> QED
  BY <1>2, <1>9

\* Nothing arrives but at a sniffer that reads.
LEMMA FreshNext == Parser /\ Fresh /\ [Next]_vars => Fresh'
<1> SUFFICES ASSUME Parser, Fresh, [Next]_vars PROVE Fresh'
  OBVIOUS
<1>1. ASSUME UNCHANGED <<stream, sent>>
      PROVE  (sent <= Len(Cells))' /\ sent' = sent
  <2>1. Cells' = Cells
    BY <1>1, SameStream
  <2> QED
    BY <1>1, <2>1, Zenon DEF Fresh
<1>2. ASSUME UNCHANGED <<stream, sent, sniffer, gen>>, wait' # "none" => wait # "none"
      PROVE  Fresh'
  BY <1>1, <1>2 DEF Fresh, Opening
<1>3. ASSUME NEW m \in Nat, NEW n \in Nat, NextSegment(m, n) \/ NextPiece(m, n) PROVE Fresh'
  <2>1. /\ wait = "processing" /\ wait' = wait /\ UNCHANGED <<sniffer, gen, stream>>
        /\ sent' = sent + n /\ sent + n <= Len(Cells)
    BY <1>3 DEF NextSegment, NextPiece, Looping, Feed, svars, wvars
  <2>2. Cells' = Cells
    BY <2>1, SameStream
  <2> QED
    BY <2>1, <2>2 DEF Fresh, Opening
<1>4. ASSUME NEW c \in Conn, CreateSniffer(c) PROVE Fresh'
  <2>1. UNCHANGED <<stream, sent, wait>> /\ sniffer = "none" /\ gen' = gen + 1
    BY <1>4 DEF CreateSniffer, rvars, wvars
  <2>2. sniffer' \in {"lookup", "open"}
    BY <1>4 DEF CreateSniffer
  <2>3. wait = "none" /\ (gen' <= 1 => gen = 0)
    BY <2>1 DEF Fresh
  <2> QED
    BY <1>1, <2>1, <2>2, <2>3 DEF Fresh
<1>5. ASSUME OpenFails PROVE Fresh'
  <2>1. UNCHANGED <<stream, sent, wait, gen>> /\ sniffer \in Opening /\ sniffer' = "none"
    BY <1>5, FailsForm DEF rvars, wvars
  <2> QED
    BY <1>1, <2>1 DEF Fresh, Opening
<1>6. ASSUME Open \/ Load \/ SetNonblock PROVE Fresh'
  <2>1. /\ UNCHANGED <<stream, sent, wait, gen>>
        /\ sniffer \in Opening /\ sniffer' \in Opening \cup {"opened"}
    BY <1>6 DEF Open, Load, SetNonblock, Stage, Opening, rvars, wvars
  <2> QED
    BY <1>1, <2>1 DEF Fresh, Opening
<1>7. ASSUME Started PROVE Fresh'
  <2>1. UNCHANGED <<stream, sent, gen>> /\ sniffer = "opened" /\ sniffer' = "live"
    BY <1>7 DEF Started
  <2> QED
    BY <1>1, <2>1 DEF Fresh, Opening
<1>8. ASSUME NEW c \in Conn, Disconnect(c) PROVE Fresh'
  <2>1. /\ UNCHANGED <<stream, sent, gen>>
        /\ UNCHANGED <<sniffer, wait>> \/ (sniffer' = "none" /\ wait' = "none")
    BY <1>8 DEF Disconnect, DestroySniffer, rvars
  <2> QED
    BY <1>1, <2>1 DEF Fresh, Opening
<1>9. ASSUME \/ \E n \in Sizes, v \in {4, 6} : WritePacket(v, n) \/ WriteFails(v, n)
             \/ \E c \in Conn : Join(c) \/ NotConfigured(c) \/ Leave(c)
             \/ \E p \in LivePackets : Arrive(p)
             \/ WaitEnds \/ WaitFails
             \/ Begin \/ ReportError \/ NextPacket \/ NoMore \/ Eof \/ ReadError \/ Notify
             \/ \E c \in Conn : (\E i \in posted[c] : RunPosted(c, i)) \/ Expire(c)
             \/ \E h \in stray : StrayRuns(h)
             \/ UNCHANGED vars
      PROVE  Fresh'
  <2>1. UNCHANGED <<stream, sent, sniffer, gen>> /\ (wait' # "none" => wait # "none")
    BY <1>9
       DEF WritePacket, WriteFails, Join, NotConfigured, Leave, Arrive, WaitEnds, WaitFails,
           Begin, ReportError, NextPacket, NoMore, Eof, ReadError, Notify, Looping,
           RunPosted, Expire, StrayRuns, vars, rvars, svars, wvars
  <2> QED
    BY <1>2, <2>1
<1> QED
  <2>1. 1..MaxSegment \subseteq Nat /\ 0..MaxHeld \subseteq Nat
    BY VoipAssumption
  <2> QED
    BY <1>3, <1>4, <1>5, <1>6, <1>7, <1>8, <1>9, <2>1 DEF Next, Construct, Process, ConnStep

\* The parser is left alone by all but the steps of the capture.
LEMMA FoundNext == Parser /\ Fresh /\ Handed /\ Found /\ [Next]_vars => Handed' /\ Found'
<1> SUFFICES ASSUME Parser, Fresh, Handed, Found, [Next]_vars PROVE Handed' /\ Found'
  OBVIOUS
<1>1. ASSUME NextPacket PROVE Handed' /\ Found'
  <2>1. /\ params' = params /\ UNCHANGED <<stream, sent, rstate, buffer, dataSize, excuse>>
        /\ StreamParser => out' = out
    BY <1>1 DEF NextPacket, fvars
  <2>2. CASE StreamParser
    BY <2>1, <2>2, FoundFrame DEF rvars
  <2>3. CASE ~StreamParser
    <3>1. params'.parser # "tcpstream" /\ params'.parser # "voip"
      BY <2>1, <2>3 DEF StreamParser
    <3> QED
      BY <3>1 DEF Handed, Found
  <2> QED
    BY <2>2, <2>3
<1>2. ASSUME NEW m \in Nat, NEW n \in Nat, NextSegment(m, n) PROVE Handed' /\ Found'
  <2>1. params' = params /\ params.parser = "voip" /\ Feed(m, n)
    BY <1>2 DEF NextSegment, fvars
  <2>2. Found'
    BY <2>1, FoundSegment
  <2>3. Handed'
    <3>1. params'.parser # "tcpstream"
      BY <2>1
    <3> QED
      BY <3>1 DEF Handed
  <2> QED
    BY <2>2, <2>3
<1>3. ASSUME UNCHANGED <<rvars, params>> PROVE Handed' /\ Found'
  BY <1>3, FoundFrame
<1>4. ASSUME \/ \E n \in Sizes, v \in {4, 6} : WritePacket(v, n) \/ WriteFails(v, n)
             \/ \E c \in Conn : Join(c) \/ NotConfigured(c) \/ CreateSniffer(c) \/ Leave(c)
             \/ Open \/ Load \/ SetNonblock \/ OpenFails
             \/ \E p \in LivePackets : Arrive(p)
             \/ WaitEnds \/ WaitFails
             \/ Begin \/ ReportError \/ NoMore \/ Eof \/ ReadError \/ Notify
             \/ \E c \in Conn : ConnStep(c)
             \/ \E h \in stray : StrayRuns(h)
             \/ UNCHANGED vars
      PROVE  UNCHANGED <<rvars, params>>
  BY <1>4
     DEF WritePacket, WriteFails, Join, NotConfigured, CreateSniffer, Leave, Open, Load,
         SetNonblock, Stage, OpenFails, Fails, Arrive, WaitEnds, WaitFails, Begin, ReportError,
         NoMore, Eof, ReadError, Notify, ConnStep, RunPosted, Expire, Disconnect,
         StrayRuns, vars, fvars
<1> QED
  <2>1. 1..MaxSegment \subseteq Nat /\ 0..MaxHeld \subseteq Nat
    BY VoipAssumption
  <2> QED
    BY <1>1, <1>2, <1>3, <1>4, <2>1, FoundStarted, HandedPiece DEF Next, Construct, Process

\* Initially nothing has arrived.
LEMMA FoundInit == Init => Fresh /\ Handed /\ Found
<1> SUFFICES ASSUME Init PROVE Fresh /\ Handed /\ Found
  OBVIOUS
<1>1. Parser
  BY ParserInit
<1>2. /\ sent = 0 /\ rstate = "WAIT_HEADER" /\ buffer = <<>> /\ dataSize = 0 /\ excuse = {}
      /\ out = <<>> /\ gen = 0 /\ sniffer = "none" /\ wait = "none"
  BY DEF Init, ReassemblerInit
<1>3. /\ Cells \in Seq(Cell) /\ Len(Cells) \in Nat /\ Len(stream) \in Nat /\ EndOf[0] = 0
      /\ 0 \in 0..Len(stream)
  BY <1>1, CellsFacts
<1>4. Fresh
  BY <1>2, <1>3 DEF Fresh, Opening
<1>5. FlattenSeq(<<>>) = <<>>
  BY Zenon DEF FlattenSeq
<1>6. Handed
  <2>1. PICK X : X = Cell
    OBVIOUS
  <2>2. PICK s : s = Cells
    OBVIOUS
  <2>3. s \in Seq(X)
    BY <1>3, <2>1, <2>2
  <2>4. SubSeq(s, 1, 0) = <<>>
    BY <2>3
  <2>5. <<>> \in Seq(Seq(X))
    OBVIOUS
  <2> QED
    BY <1>2, <1>5, <2>1, <2>2, <2>4, <2>5, Zenon DEF Handed
<1>7. Kept(rstate, buffer, dataSize, sent)
  BY <1>2, Zenon DEF Kept
<1>8. Ordered(out, sent)
  BY <1>2 DEF Ordered
<1>9. AlignedAt(rstate, buffer, dataSize, sent)
  BY <1>2, <1>3, Zenon DEF AlignedAt
<1>10. FlattenSeq(Yields(sent)) = <<>>
  <2>1. PICK s : s = Yields(sent)
    OBVIOUS
  <2>2. PICK X : X = Nat \X Nat
    OBVIOUS
  <2>3. /\ s \in Seq(Seq(X)) /\ Len(s) = Len(stream)
        /\ \A k \in 1..Len(s) : s[k] = YieldOf(k, sent)
    BY <1>1, <2>1, <2>2, YieldsType
  <2>4. \A k \in 1..Len(s) : s[k] = <<>>
    <3> SUFFICES ASSUME NEW k \in 1..Len(s) PROVE s[k] = <<>>
      OBVIOUS
    <3>1. 0 < EndOf[k] /\ EndOf[k] \in Nat
      <4>1. k \in 0..Len(stream) /\ 0 < k
        BY <1>3, <2>3
      <4> QED
        BY <1>1, <1>3, <4>1, EndOfGrows
    <3>2. ~(EndOf[k] <= sent)
      BY <1>2, <3>1
    <3> QED
      BY <2>3, <3>2, Zenon DEF YieldOf
  <2>5. FlattenSeq(s) = <<>>
    BY <2>3, <2>4, FlattenEmpty
  <2> QED
    BY <2>1, <2>5
<1>11. out \in Seq(Nat \X Nat)
  BY <1>2
<1> QED
  BY <1>2, <1>4, <1>6, <1>7, <1>8, <1>9, <1>10, <1>11, Zenon DEF Found

\* What the parsers have found, and when.
LEMMA Reassembly == Spec => [](Parser /\ Fresh /\ Handed /\ Found)
<1>1. Init => Parser /\ Fresh /\ Handed /\ Found
  BY ParserInit, FoundInit
<1>2. (Parser /\ Fresh /\ Handed /\ Found) /\ [Next]_vars
        => (Parser /\ Fresh /\ Handed /\ Found)'
  BY ParserNext, FreshNext, FoundNext
<1> QED
  BY <1>1, <1>2, PTL DEF Spec

\* When every block begins a segment that has its header, and neither of the
\* known cases cost a packet, the packets found are those of the blocks that
\* have arrived, wherever TCP has cut them; "tcpstream" hands on the stream
\* itself; and whatever happened, no packet is found twice, out of order or
\* without having been sent, unless a header was read past the end or a piece
\* was overwritten (voip.cpp:104-234, tcpreassembler.cpp:50-77).
THEOREM BlocksReassembledHolds == Spec => []BlocksReassembled
<1>1. Parser /\ Fresh /\ Handed /\ Found => BlocksReassembled
  <2> SUFFICES ASSUME Parser, Fresh, Handed, Found PROVE BlocksReassembled
    OBVIOUS
  <2>1. params.parser = "tcpstream" /\ excuse = {} => FlattenSeq(out) = SubSeq(Cells, 1, sent)
    BY Zenon DEF Handed
  <2>2. ASSUME params.parser = "voip", excuse = {}
        PROVE  out = FlattenSeq([k \in DOMAIN stream |->
                       IF /\ \E i \in 1..sent : Cells[i] = <<k, BlockSize(stream[k])>>
                          /\ HeaderOK(stream[k]) /\ OffsetsOK(stream[k])
                          /\ Decompresses(stream[k])
                       THEN BlockPackets(k) ELSE <<>>])
    <3>1. DOMAIN stream = 1..Len(stream)
      BY Blocks
    <3>2. sent \in 0..Len(Cells)
      BY CellsFacts DEF Parser, Fresh
    <3>3. \A k \in DOMAIN stream :
            (\E i \in 1..sent : Cells[i] = <<k, BlockSize(stream[k])>>) <=> EndOf[k] <= sent
      BY <3>1, <3>2, Completed
    <3>4. \A k \in DOMAIN stream :
            YieldOf(k, sent) = IF /\ \E i \in 1..sent : Cells[i] = <<k, BlockSize(stream[k])>>
                                  /\ HeaderOK(stream[k]) /\ OffsetsOK(stream[k])
                                  /\ Decompresses(stream[k])
                               THEN BlockPackets(k) ELSE <<>>
      BY <3>3, Zenon DEF YieldOf, Readable
    <3>5. Yields(sent) =
            [k \in DOMAIN stream |->
               IF /\ \E i \in 1..sent : Cells[i] = <<k, BlockSize(stream[k])>>
                  /\ HeaderOK(stream[k]) /\ OffsetsOK(stream[k])
                  /\ Decompresses(stream[k])
               THEN BlockPackets(k) ELSE <<>>]
      BY <3>4, Zenon DEF Yields
    <3>6. out = FlattenSeq(Yields(sent))
      BY <2>2 DEF Found
    <3> QED
      BY <3>5, <3>6, Zenon
  <2>3. ASSUME params.parser = "voip", excuse \cap {"overread", "merged"} = {}
        PROVE  /\ Junk \notin Range(out)
               /\ \A i, j \in DOMAIN out :
                    i < j => \/ out[i][1] < out[j][1]
                             \/ out[i][1] = out[j][1] /\ out[i][2] < out[j][2]
    <3>1. Ordered(out, sent) /\ out \in Seq(Nat \X Nat)
      BY <2>3 DEF Found
    <3>2. DOMAIN out = 1..Len(out)
      <4>1. PICK X : X = Nat \X Nat
        OBVIOUS
      <4>2. out \in Seq(X)
        BY <3>1, <4>1
      <4> QED
        BY <4>2
    <3>3. ASSUME NEW i \in DOMAIN out PROVE out[i] # Junk
      <4>1. out[i][1] \in 1..Len(stream)
        BY <3>1, <3>2, Zenon DEF Ordered
      <4>2. out[i][1] # 0
        BY <4>1, CellsFacts
      <4> QED
        BY <4>2 DEF Junk
    <3>4. Junk \notin Range(out)
      BY <3>3, Zenon DEF Range
    <3>5. \A i, j \in DOMAIN out : i < j => Before(out[i], out[j])
      BY <3>1, <3>2, Zenon DEF Ordered
    <3> QED
      BY <3>4, <3>5, Zenon DEF Before
  <2> QED
    BY <2>1, <2>2, <2>3, Zenon DEF BlocksReassembled
<1> QED
  BY <1>1, Reassembly, PTL

-----------------------------------------------------------------------------
(* Sums and checksums.                                                     *)

\* What SumOver returns is made number by number.
LEMMA SumSteps ==
    ASSUME NEW s \in Seq(Int)
    PROVE  \E f : /\ SumOver(s) = f[Len(s)]
                  /\ f \in [0..Len(s) -> Int]
                  /\ f[0] = 0
                  /\ \A i \in 1..Len(s) : f[i] = f[i - 1] + s[i]
<1> DEFINE n == Len(s)
           Made(k, g) == /\ g \in [0..k -> Int]
                         /\ \A i \in 0..k : g[i] = IF i = 0 THEN 0 ELSE g[i - 1] + s[i]
           Rec(g) == g = [i \in 0..n |-> IF i = 0 THEN 0 ELSE g[i - 1] + s[i]]
           f == CHOOSE g : Rec(g)
<1>1. SumOver(s) = f[n]
  BY DEF SumOver
<1>2. n \in Nat /\ \A i \in 1..n : s[i] \in Int
  OBVIOUS
<1> DEFINE Some(k) == \E g : Made(k, g)
           S == {k \in Nat : k <= n => Some(k)}
<1>3. 0 \in S
  <2>1. Made(0, [i \in 0..0 |-> 0])
    OBVIOUS
  <2> QED
    BY <2>1
<1>4. ASSUME NEW k \in Nat, k \in S PROVE k + 1 \in S
  <2> HIDE DEF n, Some
  <2> SUFFICES ASSUME k + 1 <= n PROVE Some(k + 1)
    OBVIOUS
  <2>1. Some(k)
    BY <1>2, <1>4
  <2> HIDE DEF Made
  <2>2. PICK g : Made(k, g)
    BY <2>1 DEF Some
  <2> USE DEF Made
  <2>3. g[k] \in Int /\ s[k + 1] \in Int
    BY <1>2, <2>2
  <2> DEFINE h == [i \in 0..(k + 1) |-> IF i <= k THEN g[i] ELSE g[k] + s[k + 1]]
  <2>4. h \in [0..(k + 1) -> Int]
    BY <2>2, <2>3
  <2>5. ASSUME NEW i \in 0..(k + 1)
        PROVE  h[i] = IF i = 0 THEN 0 ELSE h[i - 1] + s[i]
    <3>1. CASE i <= k
      <4>1. h[i] = g[i] /\ (i # 0 => h[i - 1] = g[i - 1])
        BY <3>1
      <4>2. g[i] = IF i = 0 THEN 0 ELSE g[i - 1] + s[i]
        BY <2>2, <3>1
      <4> QED
        BY <4>1, <4>2, Zenon
    <3>2. CASE i = k + 1
      BY <3>2
    <3> QED
      BY <3>1, <3>2
  <2>6. Made(k + 1, h)
    BY <2>4, <2>5
  <2> HIDE DEF Made
  <2> QED
    BY <2>6 DEF Some
<1>5. PICK g : Made(n, g)
  <2> HIDE DEF S, n
  <2>1. Nat \subseteq S
    BY <1>3, <1>4, SetInduction
  <2>2. Some(n)
    <3> HIDE DEF Some
    <3> QED
      BY <1>2, <2>1 DEF S
  <2> HIDE DEF Made
  <2> QED
    BY <2>2 DEF Some
<1>6. Rec(g)
  BY <1>2, <1>5
<1>7. Rec(f)
  BY <1>6
<1> HIDE DEF f, n
<1>8. PICK F : F = [i \in 0..n |-> IF i = 0 THEN 0 ELSE f[i - 1] + s[i]]
  OBVIOUS
<1>9. f = F
  BY <1>7, <1>8
<1>10. ASSUME NEW i \in 0..n PROVE f[i] = IF i = 0 THEN 0 ELSE f[i - 1] + s[i]
  BY <1>8, <1>9
<1> DEFINE T == {k \in Nat : k <= n => f[k] \in Int}
<1>11. 0 \in T
  BY <1>2, <1>10
<1>12. ASSUME NEW k \in Nat, k \in T PROVE k + 1 \in T
  <2> SUFFICES ASSUME k + 1 <= n PROVE f[k + 1] \in Int
    OBVIOUS
  <2>1. f[k] \in Int /\ s[k + 1] \in Int
    BY <1>2, <1>12
  <2>2. f[k + 1] = f[k] + s[k + 1]
    <3>1. k + 1 \in 0..n /\ k + 1 # 0 /\ (k + 1) - 1 = k
      BY <1>2
    <3> QED
      BY <1>10, <3>1
  <2> QED
    BY <2>1, <2>2
<1>13. \A i \in 0..n : f[i] \in Int
  <2> HIDE DEF T
  <2>1. Nat \subseteq T
    BY <1>11, <1>12, SetInduction
  <2> USE DEF T
  <2> QED
    BY <1>2, <2>1
<1>14. f \in [0..n -> Int]
  <2>1. F \in [0..n -> Int]
    <3>1. \A i \in 0..n : F[i] \in Int
      BY <1>9, <1>13
    <3> QED
      BY <1>8, <3>1
  <2> QED
    BY <1>9, <2>1
<1>15. f[0] = 0 /\ \A i \in 1..n : f[i] = f[i - 1] + s[i]
  BY <1>2, <1>10
<1> QED
  BY <1>1, <1>14, <1>15 DEF n

\* One number more.
LEMMA SumSnoc ==
    ASSUME NEW s \in Seq(Int), NEW x \in Int
    PROVE  SumOver(s) \in Int /\ SumOver(Append(s, x)) = SumOver(s) + x
<1>1. PICK n : n = Len(s)
  OBVIOUS
<1>2. PICK t : t = Append(s, x)
  OBVIOUS
<1>3. /\ n \in Nat /\ t \in Seq(Int) /\ Len(t) = n + 1 /\ t[n + 1] = x
      /\ \A i \in 1..n : t[i] = s[i]
  BY <1>1, <1>2
<1>4. PICK f : /\ SumOver(s) = f[n]
               /\ f \in [0..n -> Int]
               /\ f[0] = 0
               /\ \A i \in 1..n : f[i] = f[i - 1] + s[i]
  BY <1>1, SumSteps
<1>5. PICK g : /\ SumOver(t) = g[n + 1]
               /\ g \in [0..(n + 1) -> Int]
               /\ g[0] = 0
               /\ \A i \in 1..(n + 1) : g[i] = g[i - 1] + t[i]
  <2>1. \E g : /\ SumOver(t) = g[Len(t)]
               /\ g \in [0..Len(t) -> Int]
               /\ g[0] = 0
               /\ \A i \in 1..Len(t) : g[i] = g[i - 1] + t[i]
    BY <1>3, SumSteps
  <2> QED
    BY <1>3, <2>1
<1> DEFINE S == {k \in Nat : k <= n => g[k] = f[k]}
<1>6. 0 \in S
  BY <1>4, <1>5
<1>7. ASSUME NEW k \in Nat, k \in S PROVE k + 1 \in S
  <2> SUFFICES ASSUME k + 1 <= n PROVE g[k + 1] = f[k + 1]
    OBVIOUS
  <2>1. k + 1 \in 1..n /\ k + 1 \in 1..(n + 1) /\ (k + 1) - 1 = k /\ g[k] = f[k]
    BY <1>3, <1>7
  <2>2. g[k + 1] = g[(k + 1) - 1] + t[k + 1] /\ f[k + 1] = f[(k + 1) - 1] + s[k + 1]
    BY <1>4, <1>5, <2>1
  <2> QED
    BY <1>3, <2>1, <2>2
<1>8. g[n] = f[n]
  <2> HIDE DEF S
  <2>1. Nat \subseteq S
    BY <1>6, <1>7, SetInduction
  <2> USE DEF S
  <2> QED
    BY <1>3, <2>1
<1>9. g[n + 1] = g[n] + x
  <2>1. n + 1 \in 1..(n + 1) /\ (n + 1) - 1 = n
    BY <1>3
  <2> QED
    BY <1>3, <1>5, <2>1
<1>10. f[n] \in Int
  BY <1>3, <1>4
<1> QED
  BY <1>2, <1>4, <1>5, <1>8, <1>9, <1>10

\* One step of the sum's folding into 16 bits.
Fold16(n) == U16(n) + (n \div 65536)

\* Adding a checksum to what it is the checksum of leaves nothing.
LEMMA WrapTwice ==
    ASSUME NEW n \in Nat, 1 <= n, n <= 655359, NEW c,
           c = 65535 - Fold16(Fold16(n))
    PROVE  c \in Nat /\ Fold16(Fold16(n + c)) = 65535
<1>1. PICK q \in Nat, a \in Nat : n = q * 65536 + a /\ q <= 9 /\ a <= 65535
  <2>1. /\ n \div 65536 \in Nat /\ n \div 65536 <= 9 /\ n % 65536 \in Nat /\ n % 65536 <= 65535
        /\ n = (n \div 65536) * 65536 + (n % 65536)
    BY SMT
  <2> QED
    BY <2>1, SMT
<1>2. n % 65536 = a /\ n \div 65536 = q
  BY <1>1, SMT
<1>3. CASE q + a <= 65535
  <2>1. (a + q) % 65536 = a + q /\ (a + q) \div 65536 = 0
    BY <1>1, <1>3, SMT
  <2>2. c = 65535 - (a + q) /\ c \in Nat
    BY <1>1, <1>2, <1>3, <2>1, SMT DEF Fold16, U16
  <2>3. n + c = q * 65536 + (65535 - q)
    BY <1>1, <2>2, SMT
  <2>4. (n + c) % 65536 = 65535 - q /\ (n + c) \div 65536 = q
    BY <1>1, <2>3, SMT
  <2>5. (65535 - q) + q = 65535 /\ 65535 % 65536 = 65535 /\ 65535 \div 65536 = 0
    BY <1>1, SMT
  <2> QED
    BY <2>2, <2>4, <2>5, SMT DEF Fold16, U16
<1>4. CASE q + a > 65535
  <2>1. PICK r \in Nat : a + q = 65536 + r /\ r <= 8
    <3>1. a + q - 65536 \in Nat /\ a + q - 65536 <= 8
      BY <1>1, <1>4, SMT
    <3> QED
      BY <3>1, SMT
  <2>2. (a + q) % 65536 = r /\ (a + q) \div 65536 = 1
    BY <2>1, SMT
  <2>3. c = 65534 - r /\ c \in Nat
    BY <1>2, <2>1, <2>2, SMT DEF Fold16, U16
  <2>4. n + c = (q + 1) * 65536 + (65535 - (q + 1))
    BY <1>1, <2>1, <2>3, SMT
  <2>5. (n + c) % 65536 = 65535 - (q + 1) /\ (n + c) \div 65536 = q + 1
    BY <1>1, <2>4, SMT
  <2>6. (65535 - (q + 1)) + (q + 1) = 65535 /\ 65535 % 65536 = 65535 /\ 65535 \div 65536 = 0
    BY <1>1, SMT
  <2> QED
    BY <2>3, <2>5, <2>6, SMT DEF Fold16, U16
<1> QED
  BY <1>1, <1>3, <1>4, SMT

-----------------------------------------------------------------------------
(* The packets that are written.                                           *)

\* What a field of 16 bits keeps.
LEMMA U16Range ==
    ASSUME NEW n \in Int
    PROVE  U16(n) \in Nat /\ U16(n) <= 65535 /\ U16(U16(n)) = U16(n)
BY SMT DEF U16

LEMMA WordRange ==
    ASSUME NEW high \in Nat, high <= 255, NEW low \in Nat, low <= 255
    PROVE  Word(high, low) \in Nat /\ U16(Word(high, low)) = Word(high, low)
           /\ (high # 0 => Word(high, low) # 0)
BY SMT DEF Word, U16

\* A number in the place of another.
Put(v, i, x) == [v EXCEPT ![i] = x]

LEMMA Replaced ==
    ASSUME NEW v \in Seq(Nat), NEW i \in 1..Len(v), NEW x \in Nat
    PROVE  /\ Put(v, i, x) \in Seq(Nat) /\ Len(Put(v, i, x)) = Len(v)
           /\ Put(v, i, x)[i] = x
           /\ \A k \in 1..Len(v) : k # i => Put(v, i, x)[k] = v[k]
BY DEF Put

\* Numbers in a row.
LEMMA JoinedNumbers ==
    ASSUME NEW a \in Seq(Nat), NEW b \in Seq(Nat), NEW w, w = a \o b
    PROVE  /\ w \in Seq(Nat)
           /\ Len(w) = Len(a) + Len(b)
           /\ \A k \in 1..Len(a) : w[k] = a[k]
           /\ \A k \in 1..Len(b) : w[Len(a) + k] = b[k]
OBVIOUS

LEMMA Naturals ==
    ASSUME NEW v \in Seq(Nat)
    PROVE  v \in Seq(Int) /\ \A i \in 1..Len(v) : v[i] \in Nat
OBVIOUS

\* The sum of ten words.
LEMMA SumOfTen ==
    ASSUME NEW v \in Seq(Int), Len(v) = 10
    PROVE  SumOver(v) = v[1] + v[2] + v[3] + v[4] + v[5] + v[6] + v[7] + v[8] + v[9] + v[10]
<1>1. PICK f : /\ SumOver(v) = f[10] /\ f[0] = 0
               /\ \A i \in 1..10 : f[i] = f[i - 1] + v[i]
  <2>1. \E f : /\ SumOver(v) = f[Len(v)]
               /\ f \in [0..Len(v) -> Int]
               /\ f[0] = 0
               /\ \A i \in 1..Len(v) : f[i] = f[i - 1] + v[i]
    BY SumSteps
  <2> QED
    BY <2>1
<1>2. /\ f[1] = f[0] + v[1] /\ f[2] = f[1] + v[2] /\ f[3] = f[2] + v[3] /\ f[4] = f[3] + v[4]
      /\ f[5] = f[4] + v[5]
  BY <1>1
<1>3. /\ f[6] = f[5] + v[6] /\ f[7] = f[6] + v[7]
      /\ f[8] = f[7] + v[8] /\ f[9] = f[8] + v[9] /\ f[10] = f[9] + v[10]
  BY <1>1
<1>4. /\ v[1] \in Int /\ v[2] \in Int /\ v[3] \in Int /\ v[4] \in Int /\ v[5] \in Int
      /\ v[6] \in Int /\ v[7] \in Int /\ v[8] \in Int /\ v[9] \in Int /\ v[10] \in Int
  <2>1. \A i \in 1..Len(v) : v[i] \in Int
    BY ElementOfSeq, Zenon
  <2>2. \A i \in 1..10 : v[i] \in Int
    BY <2>1, Zenon
  <2> QED
    BY <2>2
<1> QED
  BY <1>1, <1>2, <1>3, <1>4

\* The first n numbers of a sequence have 16 bits.
Narrow(v, n) == \A i \in 1..n : v[i] = U16(v[i])

\* The checksum of an IPv4 header over itself is right.
LEMMA ChecksumRight ==
    ASSUME NEW v \in Seq(Nat), Len(v) = 10, Narrow(v, 10),
           v[1] # 0, v[6] = 0
    PROVE  CalcCheckSumm([v EXCEPT ![6] = CalcCheckSumm(v)]) = 0
<1>1. v \in Seq(Int) /\ \A i \in 1..10 : v[i] \in Nat
  <2>1. v \in Seq(Int) /\ \A i \in 1..Len(v) : v[i] \in Nat
    BY Naturals, Zenon
  <2> QED
    BY <2>1, Zenon
<1>2. PICK n : n = SumOver(v)
  OBVIOUS
<1>3. n = v[1] + v[2] + v[3] + v[4] + v[5] + v[6] + v[7] + v[8] + v[9] + v[10]
  BY <1>1, <1>2, SumOfTen
<1>4. n \in Nat /\ 1 <= n /\ n <= 655359
  <2>1. ASSUME NEW x \in Nat, x = U16(x) PROVE x <= 65535
    BY <2>1, U16Range
  <2>2. /\ v[1] \in Nat /\ v[2] \in Nat /\ v[3] \in Nat /\ v[4] \in Nat /\ v[5] \in Nat
        /\ v[6] \in Nat /\ v[7] \in Nat /\ v[8] \in Nat /\ v[9] \in Nat /\ v[10] \in Nat
    BY <1>1
  <2>3. /\ v[1] = U16(v[1]) /\ v[2] = U16(v[2]) /\ v[3] = U16(v[3]) /\ v[4] = U16(v[4])
        /\ v[5] = U16(v[5]) /\ v[6] = U16(v[6]) /\ v[7] = U16(v[7]) /\ v[8] = U16(v[8])
        /\ v[9] = U16(v[9]) /\ v[10] = U16(v[10])
    BY DEF Narrow
  <2>4. PICK a, b, c, d, e : a = v[1] /\ b = v[2] /\ c = v[3] /\ d = v[4] /\ e = v[5]
    OBVIOUS
  <2>5. PICK f, g, h, k, l : f = v[6] /\ g = v[7] /\ h = v[8] /\ k = v[9] /\ l = v[10]
    OBVIOUS
  <2>6. /\ a \in Nat /\ b \in Nat /\ c \in Nat /\ d \in Nat /\ e \in Nat
        /\ f \in Nat /\ g \in Nat /\ h \in Nat /\ k \in Nat /\ l \in Nat
    BY <2>2, <2>4, <2>5, Zenon
  <2>7. /\ a = U16(a) /\ b = U16(b) /\ c = U16(c) /\ d = U16(d) /\ e = U16(e)
        /\ f = U16(f) /\ g = U16(g) /\ h = U16(h) /\ k = U16(k) /\ l = U16(l)
    BY <2>3, <2>4, <2>5, Zenon
  <2>8. /\ a <= 65535 /\ b <= 65535 /\ c <= 65535 /\ d <= 65535 /\ e <= 65535
        /\ f <= 65535 /\ g <= 65535 /\ h <= 65535 /\ k <= 65535 /\ l <= 65535
    BY <2>1, <2>6, <2>7, SMT
  <2>9. a # 0 /\ f = 0 /\ n = a + b + c + d + e + f + g + h + k + l
    BY <1>3, <2>4, <2>5, Zenon
  <2> QED
    BY <2>6, <2>8, <2>9, SMT
<1>5. PICK c : c = CalcCheckSumm(v)
  OBVIOUS
<1>6. c = 65535 - Fold16(Fold16(n))
  BY <1>2, <1>5, SMT DEF CalcCheckSumm, Fold16
<1>7. c \in Nat
  BY <1>4, <1>6, WrapTwice, SMT
<1>8. PICK w : w = [v EXCEPT ![6] = c]
  OBVIOUS
<1>9. /\ w \in Seq(Int) /\ Len(w) = 10 /\ w[6] = c
      /\ \A i \in 1..10 : i # 6 => w[i] = v[i]
  <2>1. 6 \in 1..Len(v)
    BY SMT
  <2>2. /\ w \in Seq(Nat) /\ Len(w) = Len(v) /\ w[6] = c
        /\ \A k \in 1..Len(v) : k # 6 => w[k] = v[k]
    <3>1. PICK i \in 1..Len(v) : i = 6
      BY <2>1
    <3>2. w = Put(v, i, c)
      BY <1>8, <3>1, Zenon DEF Put
    <3>4. /\ Put(v, i, c) \in Seq(Nat) /\ Len(Put(v, i, c)) = Len(v)
          /\ Put(v, i, c)[i] = c
          /\ \A k \in 1..Len(v) : k # i => Put(v, i, c)[k] = v[k]
      BY <1>7, Replaced
    <3> QED
      BY <3>1, <3>2, <3>4, Zenon
  <2>3. w \in Seq(Int)
    BY <2>2, Naturals, Zenon
  <2> QED
    BY <2>2, <2>3, Zenon
<1>10. SumOver(w) = n + c
  <2>1. SumOver(w) = w[1] + w[2] + w[3] + w[4] + w[5] + w[6] + w[7] + w[8] + w[9] + w[10]
    BY <1>9, SumOfTen
  <2>2. /\ w[1] = v[1] /\ w[2] = v[2] /\ w[3] = v[3] /\ w[4] = v[4] /\ w[5] = v[5] /\ w[6] = c
        /\ w[7] = v[7] /\ w[8] = v[8] /\ w[9] = v[9] /\ w[10] = v[10]
    BY <1>9
  <2>3. SumOver(w) = v[1] + v[2] + v[3] + v[4] + v[5] + c + v[7] + v[8] + v[9] + v[10]
    BY <2>1, <2>2, Zenon
  <2>4. /\ v[1] \in Nat /\ v[2] \in Nat /\ v[3] \in Nat /\ v[4] \in Nat /\ v[5] \in Nat
        /\ v[6] \in Nat /\ v[7] \in Nat /\ v[8] \in Nat /\ v[9] \in Nat /\ v[10] \in Nat
    BY <1>1
  <2>5. PICK a, b, d, e, f : a = v[1] /\ b = v[2] /\ d = v[3] /\ e = v[4] /\ f = v[5]
    OBVIOUS
  <2>6. PICK g, h, k, l : g = v[7] /\ h = v[8] /\ k = v[9] /\ l = v[10]
    OBVIOUS
  <2>7. /\ a \in Nat /\ b \in Nat /\ d \in Nat /\ e \in Nat /\ f \in Nat
        /\ g \in Nat /\ h \in Nat /\ k \in Nat /\ l \in Nat
    BY <2>4, <2>5, <2>6, Zenon
  <2>8. n = a + b + d + e + f + 0 + g + h + k + l
    BY <1>3, <2>5, <2>6, Zenon
  <2>9. SumOver(w) = a + b + d + e + f + c + g + h + k + l
    BY <2>3, <2>5, <2>6, Zenon
  <2> QED
    BY <1>7, <2>7, <2>8, <2>9, SMT
<1>11. CalcCheckSumm(w) = 65535 - Fold16(Fold16(n + c))
  BY <1>10, SMT DEF CalcCheckSumm, Fold16
<1>12. Fold16(Fold16(n + c)) = 65535
  BY <1>4, <1>6, WrapTwice, SMT
<1>13. CalcCheckSumm(w) = 0
  BY <1>11, <1>12, SMT
<1> QED
  BY <1>5, <1>8, <1>13, Zenon

\* The headers before UDP's.
HeadOf(link, ver) == LinkHeader[link] + (IF ver = 4 THEN SizeIp4 ELSE SizeIp6)

\* What IPPacket makes.
LEMMA IPPacketForm ==
    ASSUME NEW link \in Writable, NEW ver \in {4, 6}, NEW size \in Nat, NEW id \in Nat,
           NEW p, p = IPPacket(link, ver, size, id, Addrs)
    PROVE  /\ LinkHeader[link] \in 0..14 /\ link \in DOMAIN LinkHeader
           /\ p.link = link /\ p.ver = ver /\ p.ihl = SizeIp4 /\ p.proto = IPPROTO_UDP
           /\ p.len = HeadOf(link, ver) + SizeUdp + size
           /\ p.ulen = U16(SizeUdp + size)
           /\ CalcCheckSumm(p.words) = 0
           /\ p = [p EXCEPT !.len = p.len]
<1>1. LinkHeader[link] \in 0..14 /\ link \in DOMAIN LinkHeader
  BY DEF Writable, LinkHeader
<1>2. PICK x : x = LinkHeader[link]
  OBVIOUS
<1>3. PICK w : w = <<Word(16 * 4 + SizeIp4 \div 4, 0), 0, U16(id), 0, Word(255, IPPROTO_UDP), 0>>
                     \o Addrs
  OBVIOUS
<1>4. PICK h : h = WriteIPHeader(WriteDataLink(link), ver, id, Addrs)
  OBVIOUS
<1>5. /\ h.link = link /\ h.ipAt = x /\ h.ver = ver /\ h.ihl = SizeIp4
      /\ h.proto = IPPROTO_UDP /\ h.words = w
      /\ h.len = x + (IF ver = 4 THEN SizeIp4 ELSE SizeIp6)
  BY <1>2, <1>3, <1>4 DEF WriteIPHeader, WriteDataLink
<1>6. PICK u : u = WriteUDPHeader(h, size)
  OBVIOUS
<1>7. u = [link |-> h.link, ipAt |-> h.ipAt, ver |-> h.ver, ihl |-> h.ihl, proto |-> h.proto,
           words |-> h.words, len |-> h.len + SizeUdp + size, off |-> 0,
           ulen |-> U16(SizeUdp + size)]
  BY <1>6, Zenon DEF WriteUDPHeader
<1>8. PICK t : t = u.len - u.ipAt
  OBVIOUS
<1>9. PICK v : v = [w EXCEPT ![2] = U16(t)]
  OBVIOUS
<1>10. p = [u EXCEPT !.words = [v EXCEPT ![6] = CalcCheckSumm(v)]]
  <2>1. p = Finalize(u)
    BY <1>4, <1>6, Zenon DEF IPPacket
  <2>2. u.words = w
    BY <1>5, <1>7
  <2> QED
    BY <1>8, <1>9, <2>1, <2>2, Zenon DEF Finalize
<1>11. PICK z : z = [v EXCEPT ![6] = CalcCheckSumm(v)]
  OBVIOUS
<1>12. p = [link |-> h.link, ipAt |-> h.ipAt, ver |-> h.ver, ihl |-> h.ihl, proto |-> h.proto,
            words |-> z, len |-> h.len + SizeUdp + size, off |-> 0,
            ulen |-> U16(SizeUdp + size)]
  BY <1>7, <1>10, <1>11
<1>13. /\ p.link = link /\ p.ver = ver /\ p.ihl = SizeIp4 /\ p.proto = IPPROTO_UDP
       /\ p.len = HeadOf(link, ver) + SizeUdp + size
       /\ p.ulen = U16(SizeUdp + size) /\ p.words = z
  BY <1>2, <1>5, <1>12 DEF HeadOf
<1>14. CalcCheckSumm(z) = 0
  <2>1. t \in Int
    BY <1>1, <1>2, <1>5, <1>7, <1>8 DEF SizeIp4, SizeIp6, SizeUdp
  <2>2. PICK t16 : t16 = U16(t)
    OBVIOUS
  <2>3. t16 \in Nat /\ t16 = U16(t16)
    BY <2>1, <2>2, U16Range
  <2>4. PICK A : A = Addrs
    OBVIOUS
  <2>5. A \in Seq(Nat) /\ Len(A) = 4 /\ \A i \in 1..4 : A[i] = U16(A[i])
    BY <2>4, SnifferAssumption
  <2>6. PICK a, b, c : /\ a = Word(16 * 4 + SizeIp4 \div 4, 0)
                       /\ b = U16(id) /\ c = Word(255, IPPROTO_UDP)
    OBVIOUS
  <2>7. a \in Nat /\ a = U16(a) /\ a # 0
    <3>1. PICK first : first = 16 * 4 + SizeIp4 \div 4
      OBVIOUS
    <3>2. first \in Nat /\ first <= 255 /\ first # 0 /\ 0 \in Nat /\ 0 <= 255
      BY <3>1 DEF SizeIp4
    <3> QED
      BY <2>6, <3>1, <3>2, WordRange
  <2>8. b \in Nat /\ b = U16(b)
    BY <2>6, U16Range
  <2>9. c \in Nat /\ c = U16(c)
    <3>1. 255 \in Nat /\ 255 <= 255 /\ IPPROTO_UDP \in Nat /\ IPPROTO_UDP <= 255
      BY DEF IPPROTO_UDP
    <3> QED
      BY <2>6, <3>1, WordRange
  <2>10. 0 = U16(0)
    BY SMT DEF U16
  <2>11. w = <<a, 0, b, 0, c, 0>> \o A
    BY <1>3, <2>4, <2>6, Zenon
  <2>12. /\ w \in Seq(Nat) /\ Len(w) = 10
         /\ w[1] = a /\ w[2] = 0 /\ w[3] = b /\ w[4] = 0 /\ w[5] = c /\ w[6] = 0
         /\ \A i \in 1..4 : w[6 + i] = A[i]
    <3>1. PICK h6 : h6 = <<a, 0, b, 0, c, 0>>
      OBVIOUS
    <3>2. /\ h6 \in Seq(Nat) /\ Len(h6) = 6 /\ h6[1] = a /\ h6[2] = 0 /\ h6[3] = b
          /\ h6[4] = 0 /\ h6[5] = c /\ h6[6] = 0
      BY <2>7, <2>8, <2>9, <3>1
    <3>3. A \in Seq(Nat) /\ Len(A) = 4 /\ w = h6 \o A
      BY <2>5, <2>11, <3>1, Zenon
    <3>4. /\ w \in Seq(Nat)
          /\ Len(w) = Len(h6) + Len(A)
          /\ \A k \in 1..Len(h6) : w[k] = h6[k]
          /\ \A k \in 1..Len(A) : w[Len(h6) + k] = A[k]
      <4>1. h6 \in Seq(Nat) /\ A \in Seq(Nat) /\ w = h6 \o A
        BY <3>2, <3>3, Zenon
      <4> QED
        BY <4>1, JoinedNumbers
    <3>5. Len(w) = 10
      BY <3>2, <3>3, <3>4, SMT
    <3>6. 1 \in 1..6 /\ 2 \in 1..6 /\ 3 \in 1..6 /\ 4 \in 1..6 /\ 5 \in 1..6 /\ 6 \in 1..6
      BY SMT
    <3> QED
      BY <3>2, <3>3, <3>4, <3>5, <3>6, Zenon
  <2>13. \A i \in 1..10 : w[i] = U16(w[i])
    <3>1. \A i \in 1..10 : i \in 1..6 \/ \E k \in 1..4 : i = 6 + k
      OBVIOUS
    <3>2. \A i \in 1..6 : w[i] = U16(w[i])
      <4>1. \A i \in 1..6 : i = 1 \/ i = 2 \/ i = 3 \/ i = 4 \/ i = 5 \/ i = 6
        OBVIOUS
      <4> QED
        BY <2>7, <2>8, <2>9, <2>10, <2>12, <4>1, Zenon
    <3>3. \A k \in 1..4 : w[6 + k] = U16(w[6 + k])
      BY <2>5, <2>12, Zenon
    <3> QED
      BY <3>1, <3>2, <3>3, Zenon
  <2>14. /\ v \in Seq(Nat) /\ Len(v) = 10 /\ v[2] = t16
         /\ \A i \in 1..10 : i # 2 => v[i] = w[i]
    <3>1. w \in Seq(Nat) /\ Len(w) = 10 /\ t16 \in Nat /\ v = [w EXCEPT ![2] = t16]
      BY <1>9, <2>2, <2>3, <2>12, Zenon
    <3>2. 2 \in 1..Len(w)
      <4>1. Len(w) = 10
        BY <2>12, Zenon
      <4> QED
        BY <4>1, SMT
    <3>3. /\ v \in Seq(Nat) /\ Len(v) = Len(w) /\ v[2] = t16
          /\ \A k \in 1..Len(w) : k # 2 => v[k] = w[k]
      <4>1. PICK i \in 1..Len(w) : i = 2
        BY <3>2
      <4>2. v = Put(w, i, t16)
        BY <3>1, <4>1, Zenon DEF Put
      <4>3. w \in Seq(Nat) /\ t16 \in Nat
        BY <3>1, Zenon
      <4>4. /\ Put(w, i, t16) \in Seq(Nat) /\ Len(Put(w, i, t16)) = Len(w)
            /\ Put(w, i, t16)[i] = t16
            /\ \A k \in 1..Len(w) : k # i => Put(w, i, t16)[k] = w[k]
        BY <4>3, Replaced
      <4> QED
        BY <4>1, <4>2, <4>4, Zenon
    <3> QED
      BY <3>1, <3>3, Zenon
  <2>15. Narrow(v, 10)
    BY <2>3, <2>13, <2>14, Zenon DEF Narrow
  <2>16. v[1] # 0 /\ v[6] = 0
    BY <2>7, <2>12, <2>14
  <2> QED
    BY <1>11, <2>14, <2>15, <2>16, ChecksumRight
<1>15. p = [p EXCEPT !.len = p.len]
  BY <1>12
<1> QED
  BY <1>1, <1>13, <1>14, <1>15

\* A parser finds in a record what FoundIn says.
Agreed(parser, r) ==
    \/ FoundIn(parser, r) = <<>> /\ Packets(parser, Snapped(r.pkt)) = <<>>
    \/ \E n \in Nat : \E x :
         /\ FoundIn(parser, r) = <<n>>
         /\ Packets(parser, Snapped(r.pkt)) = <<[size |-> n, info |-> x]>>

\* So do the parsers of datagrams and of whole records.
LEMMA PacketSizes ==
    ASSUME NEW link \in Writable, NEW ver \in {4, 6}, NEW size \in Nat, NEW id \in Nat,
           NEW parser, NEW r, r.pkt = IPPacket(link, ver, size, id, Addrs), r.size = size,
           parser \in {"ip", "udp", "raw"}
    PROVE  /\ FoundIn(parser, r) \in Seq(Nat)
           /\ r.whole => Agreed(parser, r)
<1>1. PICK p : p = r.pkt
  OBVIOUS
<1>2. /\ LinkHeader[link] \in 0..14 /\ link \in DOMAIN LinkHeader
      /\ p.link = link /\ p.ver = ver /\ p.ihl = SizeIp4 /\ p.proto = IPPROTO_UDP
      /\ p.len = HeadOf(link, ver) + SizeUdp + size
      /\ p.ulen = U16(SizeUdp + size)
      /\ p = [p EXCEPT !.len = p.len]
  BY <1>1, IPPacketForm
<1>3. PICK c : c = IF p.len <= SnapLen THEN p.len ELSE SnapLen
  OBVIOUS
<1>4. PICK s : s = Snapped(p)
  OBVIOUS
<1>5. /\ s.link = link /\ s.ver = ver /\ s.ihl = SizeIp4 /\ s.proto = IPPROTO_UDP
      /\ s.len = c /\ s.ulen = U16(SizeUdp + size)
  BY <1>2, <1>3, <1>4 DEF Snapped
<1>6. PICK h : h = HeadOf(link, ver)
  OBVIOUS
<1>7. PICK x : x = LinkHeader[link]
  OBVIOUS
<1>8. /\ x \in 0..14 /\ h = x + (IF ver = 4 THEN 20 ELSE 40) /\ h \in 20..54
      /\ p.len = h + 8 + size
  BY <1>2, <1>6, <1>7 DEF HeadOf, SizeIp4, SizeIp6, SizeUdp
<1>9. c \in Nat /\ h + 8 <= c /\ x + 20 < c /\ x < c /\ h < c
  BY <1>3, <1>8, SMT DEF SnapLen
<1>10. DatalinkPayload(s) = x
  BY <1>2, <1>5, <1>7, <1>9, Zenon DEF DatalinkPayload
<1>11. PICK info : info = [NoInfo EXCEPT !.ip = ver, !.proto = IPPROTO_UDP]
  OBVIOUS
<1>12. info.proto = IPPROTO_UDP
  BY <1>11 DEF NoInfo
<1>13. x + IpOffset(s) = h
  BY <1>5, <1>8 DEF IpOffset, SizeIp4, SizeIp6
<1>14. IpPayload(s) = [at |-> h, info |-> info]
  <2>1. x + SizeIp4 < s.len /\ s.ver \in {4, 6} /\ x + IpOffset(s) < s.len
    BY <1>5, <1>9, <1>13 DEF SizeIp4
  <2> QED
    BY <1>5, <1>10, <1>11, <1>13, <2>1, Zenon DEF IpPayload
<1>15. PICK more : more = [info EXCEPT !.ports = TRUE]
  OBVIOUS
<1>16. PICK l : l = U16(8 + size)
  OBVIOUS
<1>17. l \in Nat
  BY <1>16, SMT DEF U16
<1>18. UdpPayload(s) = IF h + 8 < c /\ h + l <= c THEN [at |-> h + 8, info |-> more]
                       ELSE [at |-> c, info |-> info]
  <2>1. s.ulen = l /\ s.len = c
    BY <1>5, <1>16 DEF SizeUdp
  <2>2. PICK q : q = IpPayload(s)
    OBVIOUS
  <2>3. q.at = h /\ q.info = info /\ [q EXCEPT !.at = c] = [at |-> c, info |-> info]
    BY <1>14, <2>2
  <2>4. UdpPayload(s) = IF q.at + SizeUdp < s.len /\ q.at + s.ulen <= s.len
                        THEN [at |-> q.at + SizeUdp,
                              info |-> [q.info EXCEPT !.ports = TRUE]]
                        ELSE [q EXCEPT !.at = s.len]
    BY <2>2, Zenon DEF UdpPayload
  <2> QED
    BY <1>15, <2>1, <2>3, <2>4, Zenon DEF SizeUdp
<1>20. p.len - size - 8 = h
  BY <1>8
<1>19. PICK d : d = CASE parser = "raw" -> 0 [] parser = "ip" -> h [] OTHER -> h + 8
  OBVIOUS
<1>21. FoundIn(parser, r) = IF r.whole /\ d < c /\ (parser = "udp" => h + l <= c)
                           THEN <<c - d>> ELSE <<>>
  <2>1. p.len - r.size - SizeUdp = h /\ U16(SizeUdp + r.size) = l
    BY <1>16, <1>20 DEF SizeUdp
  <2>2. SizeUdp = 8
    BY DEF SizeUdp
  <2> QED
    BY <1>1, <1>3, <1>19, <2>1, <2>2, Zenon DEF FoundIn
<1>22. CASE parser = "ip"
  <2>1. Payload(parser, s) = [at |-> h, info |-> info]
    BY <1>14, <1>22 DEF Payload
  <2>2. Packets(parser, s) = <<[size |-> c - h, info |-> info]>>
    BY <1>5, <1>9, <2>1 DEF Packets, PacketsFrom
  <2>3. d = h /\ d < c /\ c - h \in Nat
    BY <1>8, <1>9, <1>19, <1>22
  <2>4. FoundIn(parser, r) = IF r.whole THEN <<c - h>> ELSE <<>>
    BY <1>21, <1>22, <2>3
  <2> QED
    <3>1. PICK k \in Nat : k = c - h
      BY <2>3
    <3>2. Packets(parser, Snapped(r.pkt)) = <<[size |-> k, info |-> info]>>
      BY <1>1, <1>4, <2>2, <3>1, Zenon
    <3>3. FoundIn(parser, r) = IF r.whole THEN <<k>> ELSE <<>>
      BY <2>4, <3>1, Zenon
    <3>4. FoundIn(parser, r) \in Seq(Nat)
      BY <3>3
    <3> QED
      BY <3>2, <3>3, <3>4, Zenon DEF Agreed
<1>23. CASE parser = "udp"
  <2>1. Payload(parser, s) = UdpPayload(s) /\ d = h + 8
    BY <1>19, <1>23 DEF Payload
  <2>2. CASE h + 8 < c /\ h + l <= c
    <3>1. Payload(parser, s) = [at |-> h + 8, info |-> more]
      BY <1>18, <2>1, <2>2, Zenon
    <3>2. Packets(parser, s) = <<[size |-> c - (h + 8), info |-> more]>>
      BY <1>5, <2>2, <3>1 DEF Packets, PacketsFrom
    <3>3. c - (h + 8) \in Nat
      BY <1>8, <1>9, <2>2
    <3>4. FoundIn(parser, r) = IF r.whole THEN <<c - (h + 8)>> ELSE <<>>
      BY <1>21, <1>23, <2>1, <2>2, Zenon
    <3> QED
      <4>1. PICK k \in Nat : k = c - (h + 8)
        BY <3>3
      <4>2. Packets(parser, Snapped(r.pkt)) = <<[size |-> k, info |-> more]>>
        BY <1>1, <1>4, <3>2, <4>1, Zenon
      <4>3. FoundIn(parser, r) = IF r.whole THEN <<k>> ELSE <<>>
        BY <3>4, <4>1, Zenon
      <4>4. FoundIn(parser, r) \in Seq(Nat)
        BY <4>3
      <4> QED
        BY <4>2, <4>3, <4>4, Zenon DEF Agreed
  <2>3. CASE ~(h + 8 < c /\ h + l <= c)
    <3>1. Payload(parser, s) = [at |-> c, info |-> info]
      BY <1>18, <2>1, <2>3, Zenon
    <3>2. Packets(parser, s) = <<>>
      BY <1>5, <1>9, <3>1 DEF Packets, PacketsFrom
    <3>4. FoundIn(parser, r) = <<>>
      BY <1>21, <1>23, <2>1, <2>3, Zenon
    <3>5. Packets(parser, Snapped(r.pkt)) = <<>> /\ FoundIn(parser, r) \in Seq(Nat)
      BY <1>1, <1>4, <3>2, <3>4
    <3> QED
      BY <3>4, <3>5, Zenon DEF Agreed
  <2> QED
    BY <2>2, <2>3
<1>24. CASE parser = "raw"
  <2>1. Payload(parser, s) = [at |-> 0, info |-> NoInfo]
    BY <1>24 DEF Payload
  <2>2. Packets(parser, s) = <<[size |-> c, info |-> NoInfo]>>
    BY <1>5, <1>8, <1>9, <2>1 DEF Packets, PacketsFrom
  <2>3. d = 0 /\ d < c /\ c - d = c
    BY <1>8, <1>9, <1>19, <1>24
  <2>4. FoundIn(parser, r) = IF r.whole THEN <<c>> ELSE <<>>
    BY <1>21, <1>24, <2>3
  <2>5. FoundIn(parser, r) \in Seq(Nat)
    BY <1>9, <2>4
  <2> QED
    BY <1>1, <1>4, <1>9, <2>2, <2>4, <2>5, Zenon DEF Agreed
<1> QED
  BY <1>22, <1>23, <1>24

-----------------------------------------------------------------------------
(* The file and what is read of it.                                        *)

\* A record of the file.
InFile(r) ==
    /\ r.size \in Nat /\ r.whole \in BOOLEAN /\ r.hdr \in BOOLEAN
    /\ \E link \in Writable, ver \in {4, 6}, id \in Nat :
         r.pkt = IPPacket(link, ver, r.size, id, Addrs)

\* The file that is written: only its last record may be cut off, and then the
\* stream is bad.
Written(f, st, n) ==
    /\ f \in Seq(Range(f))
    /\ \A i \in 1..Len(f) : InFile(f[i]) /\ (f[i].whole \/ i = Len(f))
    /\ st = "good" => \A i \in 1..Len(f) : f[i].whole
    /\ n \in Nat
    /\ n = SizeFileHeader + SumOver([i \in DOMAIN f |-> BytesOf(f[i])])

SizesOf(o) == [i \in DOMAIN o |-> o[i].size]

\* What a parser finds in the first j records.
FoundUpto(f, parser, j) == [i \in 1..j |-> FoundIn(parser, f[i])]

\* The first j records of the file have been read into o, and s is left.
Read(f, parser, s, o, j) ==
    /\ s = [i \in 1..(Len(f) - j) |-> f[j + i]]
    /\ SizesOf(o) = FlattenSeq(FoundUpto(f, parser, j))
    /\ \A i \in 1..j : f[i].whole

\* The file has been read to its end, or to the record that is cut off.
Complete(f, parser, o, how) ==
    /\ SizesOf(o) = FlattenSeq(FoundUpto(f, parser, Len(f)))
    /\ how = "eof" <=> \A i \in 1..Len(f) : f[i].whole

Offline == params.mode = "offline" /\ params.parser \in {"ip", "udp", "raw"} /\ gen <= 1

\* The first sniffer of a file.
Reading ==
    Offline =>
      /\ wait # "error"
      /\ wait # "none" => ended = ""
      /\ gen = 0 \/ sniffer \in Opening \cup {"opened"} => out = <<>> /\ ended = ""
      /\ sniffer = "live" => \E j \in 0..Len(file) : Read(file, params.parser, source, out, j)
      /\ ended # "" => Complete(file, params.parser, out, ended)

\* What a record takes.
LEMMA BytesType ==
    ASSUME NEW r, InFile(r)
    PROVE  r.pkt.len \in Nat /\ BytesOf(r) \in Nat
<1>1. PICK link \in Writable, ver \in {4, 6}, id \in Nat :
         r.pkt = IPPacket(link, ver, r.size, id, Addrs)
  BY DEF InFile
<1>2. r.size \in Nat
  BY DEF InFile
<1>3. LinkHeader[link] \in 0..14 /\ r.pkt.len = HeadOf(link, ver) + SizeUdp + r.size
  BY <1>1, <1>2, IPPacketForm
<1>4. r.pkt.len \in Nat
  BY <1>2, <1>3 DEF HeadOf, SizeIp4, SizeIp6, SizeUdp
<1> QED
  BY <1>4 DEF BytesOf, SizeRecord

\* One record more.
LEMMA WrittenMore ==
    ASSUME NEW f, NEW st, NEW n, Written(f, st, n), st = "good", NEW r, InFile(r),
           NEW st2, st2 = "good" => r.whole
    PROVE  Written(Append(f, r), st2, n + BytesOf(r))
<1>1. PICK m : m = Len(f)
  OBVIOUS
<1>2. PICK t : t = Append(f, r)
  OBVIOUS
<1>3. m \in Nat /\ DOMAIN f = 1..m
  <2>1. PICK R : R = Range(f)
    OBVIOUS
  <2>2. f \in Seq(R)
    BY <2>1 DEF Written
  <2> QED
    BY <1>1, <2>2
<1>4. /\ t \in Seq(Range(t)) /\ Len(t) = m + 1 /\ t[m + 1] = r /\ DOMAIN t = 1..(m + 1)
      /\ \A i \in 1..m : t[i] = f[i]
  <2>1. PICK R : R = Range(f) \cup {r}
    OBVIOUS
  <2>2. f \in Seq(R) /\ r \in R
    <3>1. PICK Q : Q = Range(f)
      OBVIOUS
    <3>2. f \in Seq(Q) /\ Q \subseteq R
      BY <2>1, <3>1 DEF Written
    <3> QED
      BY <2>1, <3>2
  <2>3. t \in Seq(R)
    BY <1>2, <2>2
  <2>4. t \in Seq(Range(t))
    BY <2>3, SeqOfRange
  <2> QED
    BY <1>1, <1>2, <2>2, <2>4
<1>5. \A i \in 1..Len(t) : InFile(t[i]) /\ (t[i].whole \/ i = Len(t))
  <2> SUFFICES ASSUME NEW i \in 1..Len(t) PROVE InFile(t[i]) /\ (t[i].whole \/ i = Len(t))
    OBVIOUS
  <2>1. CASE i = m + 1
    BY <1>4, <2>1
  <2>2. CASE i # m + 1
    <3>1. i \in 1..m /\ i \in 1..Len(f)
      BY <1>1, <1>3, <1>4, <2>2
    <3>2. f[i].whole
      BY <3>1 DEF Written
    <3> QED
      BY <1>4, <3>1, <3>2 DEF Written
  <2> QED
    BY <2>1, <2>2
<1>6. r.whole <=> \A i \in 1..Len(t) : t[i].whole
  <2>1. \A i \in 1..m : t[i].whole
    BY <1>1, <1>4 DEF Written
  <2>2. m + 1 \in 1..Len(t) /\ \A i \in 1..Len(t) : i \in 1..m \/ i = m + 1
    BY <1>3, <1>4
  <2> QED
    BY <1>4, <2>1, <2>2, Zenon
<1>7. /\ SumOver([i \in DOMAIN f |-> BytesOf(f[i])]) \in Int
      /\ SumOver([i \in DOMAIN t |-> BytesOf(t[i])])
           = SumOver([i \in DOMAIN f |-> BytesOf(f[i])]) + BytesOf(r)
  <2>1. \A x : InFile(x) => BytesOf(x) \in Int
    BY BytesType
  <2>2. PICK b : b = [i \in DOMAIN f |-> BytesOf(f[i])]
    OBVIOUS
  <2>3. PICK c : c = [i \in DOMAIN t |-> BytesOf(t[i])]
    OBVIOUS
  <2>4. \A i \in 1..m : BytesOf(f[i]) \in Int
    BY <1>1, <2>1 DEF Written
  <2>5. b \in Seq(Int) /\ Len(b) = m /\ \A i \in 1..m : b[i] = BytesOf(f[i])
    BY <1>3, <2>2, <2>4
  <2>6. BytesOf(r) \in Int
    BY <2>1
  <2>7. c = Append(b, BytesOf(r))
    <3>1. PICK d : d = Append(b, BytesOf(r))
      OBVIOUS
    <3>2. /\ d \in Seq(Int) /\ Len(d) = m + 1 /\ d[m + 1] = BytesOf(r)
          /\ \A i \in 1..m : d[i] = BytesOf(f[i])
      BY <2>5, <2>6, <3>1
    <3>3. d = [i \in 1..(m + 1) |-> d[i]]
      BY <3>2
    <3>4. \A i \in 1..(m + 1) : d[i] = BytesOf(t[i])
      <4>1. \A i \in 1..(m + 1) : i \in 1..m \/ i = m + 1
        BY <1>3
      <4> QED
        BY <1>4, <3>2, <4>1, Zenon
    <3> QED
      BY <1>4, <2>3, <3>1, <3>3, <3>4, Zenon
  <2>8. SumOver(b) \in Int /\ SumOver(Append(b, BytesOf(r))) = SumOver(b) + BytesOf(r)
    BY <2>5, <2>6, SumSnoc
  <2> QED
    BY <2>2, <2>3, <2>7, <2>8
<1>8. BytesOf(r) \in Nat /\ n \in Nat
  BY BytesType DEF Written
<1>9. n + BytesOf(r) = SizeFileHeader + SumOver([i \in DOMAIN t |-> BytesOf(t[i])])
  <2>1. PICK x : x = SumOver([i \in DOMAIN f |-> BytesOf(f[i])])
    OBVIOUS
  <2>2. n = SizeFileHeader + x
    BY <2>1 DEF Written
  <2> QED
    BY <1>7, <1>8, <2>1, <2>2 DEF SizeFileHeader
<1>11. n + BytesOf(r) \in Nat
  BY <1>8
<1>10. st2 = "good" => \A i \in 1..Len(t) : t[i].whole
  BY <1>6
<1> QED
  BY <1>2, <1>4, <1>5, <1>9, <1>10, <1>11, Zenon DEF Written

\* The file grows only while it is written.
LEMMA WrittenNext ==
    ASSUME Written(file, fstate, total), [Next]_vars
    PROVE  Written(file', fstate', total')
<1>1. ASSUME NEW n \in Sizes, NEW v \in {4, 6}, NEW w \in BOOLEAN, NEW h \in BOOLEAN, NEW p,
             p = IPPacket(params.link, v, n, Len(file), Addrs),
             params.link \in Writable, fstate = "good",
             file' = Append(file, [pkt |-> p, size |-> n, hdr |-> h, whole |-> w]),
             fstate' = "good" => w,
             total' = total + ((IF h THEN SizeRecord ELSE 0) + (IF w THEN p.len ELSE 0))
      PROVE  Written(file', fstate', total')
  <2>1. PICK r : r = [pkt |-> p, size |-> n, hdr |-> h, whole |-> w]
    OBVIOUS
  <2>2. r.pkt = p /\ r.size = n /\ r.hdr = h /\ r.whole = w
    BY <2>1
  <2>3. Len(file) \in Nat
    <3>1. PICK R : R = Range(file)
      OBVIOUS
    <3>2. file \in Seq(R)
      BY <3>1 DEF Written
    <3> QED
      BY <3>2
  <2>4. InFile(r)
    <3>1. n \in Nat
      BY SnifferAssumption, SMT
    <3>2. r.pkt = IPPacket(params.link, v, r.size, Len(file), Addrs)
      BY <1>1, <2>2, Zenon
    <3> QED
      BY <1>1, <2>2, <2>3, <3>1, <3>2, Zenon DEF InFile
  <2>5. total' = total + BytesOf(r)
    BY <1>1, <2>2, Zenon DEF BytesOf
  <2>6. Written(Append(file, r), fstate', total + BytesOf(r))
    BY <1>1, <2>2, <2>4, WrittenMore
  <2> QED
    BY <1>1, <2>1, <2>5, <2>6
<1>2. ASSUME NEW n \in Sizes, NEW v \in {4, 6}, WritePacket(v, n)
      PROVE  Written(file', fstate', total')
  <2>1. PICK p : p = IPPacket(params.link, v, n, Len(file), Addrs)
    OBVIOUS
  <2>2. /\ params.link \in Writable /\ fstate = "good"
        /\ file' = Append(file, [pkt |-> p, size |-> n, hdr |-> TRUE, whole |-> TRUE])
        /\ total' = total + SizeRecord + p.len
    BY <1>2, <2>1 DEF WritePacket, Writing
  <2>3. total' = total + (SizeRecord + p.len)
    <3>1. total \in Nat /\ p.len \in Int
      <4>1. n \in Nat
        BY SnifferAssumption, SMT
      <4>2. Len(file) \in Nat
        <5>1. PICK R : R = Range(file)
          OBVIOUS
        <5>2. file \in Seq(R)
          BY <5>1 DEF Written
        <5> QED
          BY <5>2
      <4>3. /\ LinkHeader[params.link] \in 0..14
            /\ p.len = HeadOf(params.link, v) + SizeUdp + n
        BY <2>1, <2>2, <4>1, <4>2, IPPacketForm
      <4>4. LinkHeader[params.link] \in Int
        BY <4>3, SMT
      <4>5. HeadOf(params.link, v) \in Int
        BY <4>4, SMT DEF HeadOf, SizeIp4, SizeIp6
      <4>6. p.len \in Int
        BY <4>1, <4>3, <4>5, SMT DEF SizeUdp
      <4> QED
        BY <4>6 DEF Written
    <3>2. SizeRecord \in Int
      BY DEF SizeRecord
    <3> QED
      BY <2>2, <3>1, <3>2, SMT
  <2> QED
    BY <1>1, <2>1, <2>2, <2>3
<1>3. ASSUME NEW n \in Sizes, NEW v \in {4, 6}, WriteFails(v, n)
      PROVE  Written(file', fstate', total')
  <2>1. PICK p : p = IPPacket(params.link, v, n, Len(file), Addrs)
    OBVIOUS
  <2>2. /\ params.link \in Writable /\ fstate = "good" /\ fstate' = "bad"
        /\ \/ file' = file /\ total' = total
           \/ /\ file' = Append(file, [pkt |-> p, size |-> n, hdr |-> FALSE, whole |-> FALSE])
              /\ total' = total
           \/ /\ file' = Append(file, [pkt |-> p, size |-> n, hdr |-> TRUE, whole |-> FALSE])
              /\ total' = total + SizeRecord
    BY <1>3, <2>1 DEF WriteFails, Writing
  <2>3. total = total + (0 + 0) /\ total + SizeRecord = total + (SizeRecord + 0)
    BY DEF Written, SizeRecord
  <2>4. CASE file' = file /\ total' = total
    BY <2>2, <2>4 DEF Written
  <2>5. CASE /\ file' = Append(file, [pkt |-> p, size |-> n, hdr |-> FALSE, whole |-> FALSE])
             /\ total' = total
    BY <1>1, <2>1, <2>2, <2>3, <2>5
  <2>6. CASE /\ file' = Append(file, [pkt |-> p, size |-> n, hdr |-> TRUE, whole |-> FALSE])
             /\ total' = total + SizeRecord
    BY <1>1, <2>1, <2>2, <2>3, <2>6
  <2> QED
    BY <2>2, <2>4, <2>5, <2>6
<1>4. ASSUME UNCHANGED <<file, fstate, total>> PROVE Written(file', fstate', total')
  BY <1>4
<1>5. ASSUME \/ \E c \in Conn : Join(c) \/ NotConfigured(c) \/ CreateSniffer(c) \/ Leave(c)
             \/ Construct
             \/ \E p \in LivePackets : Arrive(p)
             \/ WaitEnds \/ WaitFails \/ Process
             \/ \E c \in Conn : ConnStep(c)
             \/ \E h \in stray : StrayRuns(h)
             \/ UNCHANGED vars
      PROVE  UNCHANGED <<file, fstate, total>>
  BY <1>5
     DEF Join, NotConfigured, CreateSniffer, Leave, Construct, Open, Load, SetNonblock, Stage,
         Started, OpenFails, Fails, Arrive, WaitEnds, WaitFails, Process, Begin, ReportError,
         NextPacket, NoMore, Eof, ReadError, Notify, NextSegment, NextPiece, ConnStep,
         RunPosted, Expire, Disconnect, StrayRuns, vars, fvars
<1> QED
  BY <1>2, <1>3, <1>4, <1>5 DEF Next

-----------------------------------------------------------------------------
(* Reading the file.                                                       *)

\* A step that does not read.
LEMMA ReadingFrame ==
    ASSUME Reading, UNCHANGED <<params, file, fstate, gen, sniffer, out, ended, source>>,
           Offline => wait' # "error" /\ (wait' # "none" => wait # "none")
    PROVE  Reading'
<1>1. Offline' <=> Offline
  BY DEF Offline
<1> QED
  BY <1>1 DEF Reading

\* The numbers of what has been found.
LEMMA FoundType ==
    ASSUME NEW f, NEW st, NEW n, Written(f, st, n), NEW parser \in {"ip", "udp", "raw"},
           NEW j \in 0..Len(f)
    PROVE  /\ Len(f) \in Nat /\ DOMAIN f = 1..Len(f)
           /\ FoundUpto(f, parser, j) \in Seq(Seq(Nat))
           /\ FlattenSeq(FoundUpto(f, parser, j)) \in Seq(Nat)
           /\ j < Len(f) => FlattenSeq(FoundUpto(f, parser, j + 1))
                              = FlattenSeq(FoundUpto(f, parser, j)) \o FoundIn(parser, f[j + 1])
<1>1. Len(f) \in Nat /\ DOMAIN f = 1..Len(f)
  <2>1. PICK R : R = Range(f)
    OBVIOUS
  <2>2. f \in Seq(R)
    BY <2>1 DEF Written
  <2> QED
    BY <2>2
<1>2. ASSUME NEW i \in 1..Len(f) PROVE FoundIn(parser, f[i]) \in Seq(Nat)
  <2>1. InFile(f[i])
    BY <1>2 DEF Written
  <2>2. PICK link \in Writable, ver \in {4, 6}, id \in Nat :
           f[i].pkt = IPPacket(link, ver, f[i].size, id, Addrs)
    BY <2>1 DEF InFile
  <2>3. f[i].size \in Nat
    BY <2>1 DEF InFile
  <2> QED
    BY <2>2, <2>3, PacketSizes
<1>3. PICK S : S = Seq(Nat)
  OBVIOUS
<1>4. PICK s : s = FoundUpto(f, parser, j)
  OBVIOUS
<1>5. s \in Seq(S) /\ Len(s) = j /\ \A i \in 1..j : s[i] = FoundIn(parser, f[i])
  <2>1. \A i \in 1..j : FoundIn(parser, f[i]) \in S
    BY <1>1, <1>2, <1>3
  <2> QED
    BY <1>1, <1>4, <2>1 DEF FoundUpto
<1>6. FlattenSeq(s) \in Seq(Nat)
  BY <1>3, <1>5, FlattenParts
<1>7. ASSUME j < Len(f)
      PROVE  FlattenSeq(FoundUpto(f, parser, j + 1)) = FlattenSeq(s) \o FoundIn(parser, f[j + 1])
  <2>1. PICK x : x = FoundIn(parser, f[j + 1])
    OBVIOUS
  <2>2. x \in S
    BY <1>1, <1>2, <1>3, <1>7, <2>1
  <2>3. PICK t : t = Append(s, x)
    OBVIOUS
  <2>4. j \in Nat /\ t \in Seq(S) /\ Len(t) = j + 1 /\ t[j + 1] = x /\ \A i \in 1..j : t[i] = s[i]
    BY <1>1, <1>5, <2>2, <2>3
  <2>5. t = [i \in 1..(j + 1) |-> t[i]]
    BY <2>4
  <2>6. \A i \in 1..(j + 1) : t[i] = FoundIn(parser, f[i])
    <3>1. \A i \in 1..(j + 1) : i \in 1..j \/ i = j + 1
      BY <2>4
    <3> QED
      BY <1>5, <2>1, <2>4, <3>1, Zenon
  <2>7. t = FoundUpto(f, parser, j + 1)
    BY <2>5, <2>6, Zenon DEF FoundUpto
  <2>8. FlattenSeq(t) = FlattenSeq(s) \o x
    BY <1>3, <1>5, <2>2, <2>3, FlattenSnoc
  <2> QED
    BY <2>1, <2>7, <2>8
<1> QED
  BY <1>1, <1>3, <1>4, <1>5, <1>6, <1>7

\* The sizes of one packet more.
LEMMA SizesMore ==
    ASSUME NEW X, NEW o \in Seq(X), NEW n, NEW x
    PROVE  /\ Len(SizesOf(o)) = Len(o)
           /\ SizesOf(o \o <<[size |-> n, info |-> x]>>) = SizesOf(o) \o <<n>>
<1>1. PICK m : m = Len(o)
  OBVIOUS
<1>2. PICK y : y = [size |-> n, info |-> x]
  OBVIOUS
<1>3. y.size = n
  BY <1>2
<1>4. PICK p : p = o \o <<y>>
  OBVIOUS
<1>5. /\ m \in Nat /\ DOMAIN o = 1..m /\ DOMAIN p = 1..(m + 1)
      /\ p[m + 1] = y /\ \A i \in 1..m : p[i] = o[i]
  <2>1. PICK A : A = X \cup {y}
    OBVIOUS
  <2>2. o \in Seq(A) /\ <<y>> \in Seq(A) /\ Len(<<y>>) = 1 /\ <<y>>[1] = y
    BY <2>1
  <2> QED
    BY <1>1, <1>4, <2>2
<1>6. PICK s : s = SizesOf(o)
  OBVIOUS
<1>7. s = [i \in 1..m |-> o[i].size]
  BY <1>5, <1>6 DEF SizesOf
<1>8. PICK B : B = {o[i].size : i \in 1..m} \cup {n}
  OBVIOUS
<1>9. s \in Seq(B) /\ Len(s) = m /\ <<n>> \in Seq(B)
  BY <1>5, <1>7, <1>8
<1>10. PICK t : t = s \o <<n>>
  OBVIOUS
<1>11. /\ t = [i \in 1..(m + 1) |-> t[i]] /\ t[m + 1] = n
       /\ \A i \in 1..m : t[i] = s[i]
  BY <1>5, <1>9, <1>10
<1>12. \A i \in 1..(m + 1) : t[i] = p[i].size
  <2>1. \A i \in 1..(m + 1) : i \in 1..m \/ i = m + 1
    BY <1>5
  <2>2. \A i \in 1..m : s[i] = o[i].size
    BY <1>7
  <2> QED
    BY <1>3, <1>5, <1>11, <2>1, <2>2, Zenon
<1>13. t = SizesOf(p)
  BY <1>5, <1>11, <1>12, Zenon DEF SizesOf
<1> QED
  BY <1>1, <1>2, <1>4, <1>6, <1>9, <1>10, <1>13

\* The next record.
LEMMA ReadHead ==
    ASSUME NEW f, NEW st, NEW n, Written(f, st, n), NEW parser \in {"ip", "udp", "raw"},
           NEW s, NEW o, NEW j \in 0..Len(f), Read(f, parser, s, o, j), s # <<>>
    PROVE  /\ j < Len(f) /\ Head(s) = f[j + 1]
           /\ Tail(s) = [i \in 1..(Len(f) - (j + 1)) |-> f[j + 1 + i]]
<1>1. PICK m : m = Len(f)
  OBVIOUS
<1>2. m \in Nat /\ j \in 0..m /\ DOMAIN f = 1..m
  BY <1>1, FoundType
<1>3. s = [i \in 1..(m - j) |-> f[j + i]]
  BY <1>1 DEF Read
<1>4. j < m
  <2>1. CASE j = m
    <3>1. s = [i \in 1..0 |-> f[j + i]]
      BY <1>2, <1>3, <2>1
    <3>2. s = <<>>
      BY <3>1
    <3> QED
      BY <3>2
  <2> QED
    BY <1>2, <2>1
<1>5. PICK k \in Nat : m = j + k + 1
  <2>1. m - j - 1 \in Nat /\ m = j + (m - j - 1) + 1
    BY <1>2, <1>4
  <2> QED
    BY <2>1
<1>6. s = [i \in 1..(k + 1) |-> f[j + i]]
  <2>1. m - j = k + 1
    BY <1>2, <1>5
  <2> QED
    BY <1>3, <2>1
<1>7. /\ s \in Seq(Range(f)) /\ Len(s) = k + 1
      /\ \A i \in 1..(k + 1) : s[i] = f[j + i]
  <2>1. PICK R : R = Range(f)
    OBVIOUS
  <2>2. f \in Seq(R)
    BY <2>1 DEF Written
  <2>3. \A i \in 1..(k + 1) : f[j + i] \in R
    BY <1>1, <1>2, <1>5, <2>2
  <2> QED
    BY <1>5, <1>6, <2>1, <2>3
<1>8. Head(s) = f[j + 1]
  <2>1. 1 \in 1..(k + 1)
    BY <1>5
  <2>2. Head(s) = s[1]
    <3>1. PICK R : R = Range(f)
      OBVIOUS
    <3>2. s \in Seq(R)
      BY <1>7, <3>1
    <3> QED
      BY <3>2
  <2> QED
    BY <1>7, <2>1, <2>2, Zenon
<1>9. Tail(s) = [i \in 1..(m - (j + 1)) |-> f[j + 1 + i]]
  <2>1. PICK R : R = Range(f)
    OBVIOUS
  <2>2. PICK t : t = Tail(s)
    OBVIOUS
  <2>3. t \in Seq(R) /\ Len(t) = k /\ \A i \in 1..k : t[i] = s[i + 1]
    BY <1>5, <1>7, <2>1, <2>2
  <2>4. t = [i \in 1..k |-> t[i]]
    BY <2>3
  <2>5. \A i \in 1..k : t[i] = f[j + 1 + i]
    <3>1. \A i \in 1..k : i + 1 \in 1..(k + 1) /\ j + (i + 1) = j + 1 + i
      BY <1>2, <1>5
    <3>2. \A i \in 1..k : s[i + 1] = f[j + (i + 1)]
      BY <1>7, <3>1
    <3>3. \A i \in 1..k : s[i + 1] = f[j + 1 + i]
      BY <3>1, <3>2
    <3> QED
      BY <2>3, <3>3
  <2>6. m - (j + 1) = k
    BY <1>2, <1>5
  <2> QED
    BY <2>2, <2>4, <2>5, <2>6, Zenon
<1> QED
  BY <1>1, <1>4, <1>8, <1>9, Zenon

\* The next record is read.
LEMMA ReadMore ==
    ASSUME NEW f, NEW st, NEW n, Written(f, st, n), NEW parser \in {"ip", "udp", "raw"},
           NEW s, NEW o, o \in Seq(Range(o)), NEW j \in 0..Len(f), Read(f, parser, s, o, j),
           s # <<>>, Head(s).whole
    PROVE  Read(f, parser, Tail(s), o \o Packets(parser, Snapped(Head(s).pkt)), j + 1)
<1>1. PICK m : m = Len(f)
  OBVIOUS
<1>2. m \in Nat /\ j \in 0..m /\ DOMAIN f = 1..m
  BY <1>1, FoundType
<1>3. /\ j < Len(f) /\ Head(s) = f[j + 1]
      /\ Tail(s) = [i \in 1..(Len(f) - (j + 1)) |-> f[j + 1 + i]]
  BY ReadHead
<1>4. j < m
  BY <1>1, <1>3
<1>9. Tail(s) = [i \in 1..(m - (j + 1)) |-> f[j + 1 + i]]
  BY <1>1, <1>3
<1>10. PICK r : r = f[j + 1]
  OBVIOUS
<1>11. r.whole /\ Head(s) = r
  BY <1>3, <1>10
<1>12. Read(f, parser, Tail(s), o \o Packets(parser, Snapped(r.pkt)), j + 1)
  <2>1. InFile(r)
    BY <1>1, <1>2, <1>4, <1>10 DEF Written
  <2>2. PICK link \in Writable, ver \in {4, 6}, id \in Nat :
           r.pkt = IPPacket(link, ver, r.size, id, Addrs)
    BY <2>1 DEF InFile
  <2>3. r.size \in Nat
    BY <2>1 DEF InFile
  <2>4. PICK q : q = Packets(parser, Snapped(r.pkt))
    OBVIOUS
  <2>5. \/ FoundIn(parser, r) = <<>> /\ q = <<>>
        \/ \E i \in Nat : \E x : /\ FoundIn(parser, r) = <<i>>
                                /\ q = <<[size |-> i, info |-> x]>>
    <3>1. PICK n1 : n1 = r.size
      OBVIOUS
    <3>2. n1 \in Nat /\ r.pkt = IPPacket(link, ver, n1, id, Addrs)
      BY <2>2, <2>3, <3>1
    <3>3. r.whole => Agreed(parser, r)
      BY <3>1, <3>2, PacketSizes
    <3> QED
      BY <1>11, <2>4, <3>3, Zenon DEF Agreed
  <2>6. PICK R : R = Range(o)
    OBVIOUS
  <2>7. o \in Seq(R)
    BY <2>6
  <2>8. PICK z : z = FlattenSeq(FoundUpto(f, parser, j))
    OBVIOUS
  <2>9. z \in Seq(Nat) /\ SizesOf(o) = z
    BY <2>8, FoundType DEF Read
  <2>10. SizesOf(o \o q) = z \o FoundIn(parser, r)
    <3>1. CASE FoundIn(parser, r) = <<>> /\ q = <<>>
      <4>1. o \o q = o /\ z \o <<>> = z
        BY <2>7, <2>9, <3>1
      <4> QED
        BY <2>9, <3>1, <4>1
    <3>2. CASE \E i \in Nat : \E x : /\ FoundIn(parser, r) = <<i>>
                                    /\ q = <<[size |-> i, info |-> x]>>
      <4>1. PICK i, x : FoundIn(parser, r) = <<i>> /\ q = <<[size |-> i, info |-> x]>>
        BY <3>2
      <4>2. SizesOf(o \o <<[size |-> i, info |-> x]>>) = SizesOf(o) \o <<i>>
        BY <2>7, SizesMore
      <4> QED
        BY <2>9, <4>1, <4>2
    <3> QED
      BY <2>5, <3>1, <3>2
  <2>11. FlattenSeq(FoundUpto(f, parser, j + 1)) = z \o FoundIn(parser, r)
    BY <1>1, <1>4, <1>10, <2>8, FoundType
  <2>12. \A i \in 1..(j + 1) : f[i].whole
    <3>1. \A i \in 1..(j + 1) : i \in 1..j \/ i = j + 1
      BY <1>2
    <3> QED
      BY <1>10, <1>11, <3>1 DEF Read
  <2> QED
    BY <1>1, <1>9, <2>4, <2>10, <2>11, <2>12, Zenon DEF Read
<1> QED
  BY <1>11, <1>12

\* Nothing is left.
LEMMA ReadAll ==
    ASSUME NEW f, NEW st, NEW n, Written(f, st, n), NEW parser \in {"ip", "udp", "raw"},
           NEW s, NEW o, NEW j \in 0..Len(f), Read(f, parser, s, o, j), s = <<>>
    PROVE  Complete(f, parser, o, "eof")
<1>1. Len(f) \in Nat
  BY FoundType
<1>2. j = Len(f)
  <2>1. SUFFICES ASSUME j # Len(f) PROVE FALSE
    OBVIOUS
  <2>2. Len(f) - j \in Nat /\ Len(f) - j # 0
    BY <1>1, <2>1
  <2>3. PICK k \in Nat : k = Len(f) - j
    BY <2>2
  <2>4. s = [i \in 1..k |-> f[j + i]]
    BY <2>3 DEF Read
  <2>5. DOMAIN s = 1..k
    BY <2>4, Zenon
  <2>6. 1 \notin DOMAIN s
    <3>1. DOMAIN <<>> = 1..0
      OBVIOUS
    <3> QED
      BY <3>1
  <2>7. 1 \in 1..k
    BY <2>2, <2>3
  <2> QED
    BY <2>5, <2>6, <2>7, Zenon
<1>3. \A i \in 1..Len(f) : f[i].whole
  BY <1>2 DEF Read
<1> QED
  BY <1>2, <1>3 DEF Read, Complete

\* What is left begins with the record that is cut off.
LEMMA ReadCut ==
    ASSUME NEW f, NEW st, NEW n, Written(f, st, n), NEW parser \in {"ip", "udp", "raw"},
           NEW s, NEW o, NEW j \in 0..Len(f), Read(f, parser, s, o, j), s # <<>>,
           ~Head(s).whole, NEW how, how # "eof"
    PROVE  Complete(f, parser, o, how)
<1>1. Len(f) \in Nat
  BY FoundType
<1>2. j < Len(f) /\ Head(s) = f[j + 1]
  BY ReadHead
<1>3. j + 1 \in 1..Len(f) /\ ~f[j + 1].whole
  BY <1>1, <1>2
<1>4. j + 1 = Len(f)
  BY <1>3 DEF Written
<1>5. PICK r : r = f[j + 1]
  OBVIOUS
<1>6. FoundIn(parser, r) = <<>>
  BY <1>3, <1>5 DEF FoundIn
<1>7. PICK z : z = FlattenSeq(FoundUpto(f, parser, j))
  OBVIOUS
<1>8. z \in Seq(Nat) /\ FlattenSeq(FoundUpto(f, parser, j + 1)) = z \o FoundIn(parser, r)
  BY <1>2, <1>5, <1>7, FoundType
<1>9. z \o <<>> = z
  BY <1>8
<1>10. SizesOf(o) = FlattenSeq(FoundUpto(f, parser, Len(f)))
  BY <1>4, <1>6, <1>7, <1>8, <1>9, Zenon DEF Read
<1> QED
  BY <1>3, <1>10 DEF Complete

-----------------------------------------------------------------------------
(* Reading a file back.                                                    *)

\* While a sniffer opens the file nothing has been read; then each packet is
\* the next record's.
LEMMA ReadingNext ==
    ASSUME Parser, Fresh, Written(file, fstate, total), Reading, [Next]_vars
    PROVE  Reading'
<1>1. ASSUME UNCHANGED <<params, file, fstate, gen, sniffer, out, ended, source>>,
             wait' # "none" => wait # "none", wait' = "error" => wait = "error"
      PROVE  Reading'
  <2>1. Offline => wait' # "error"
    BY <1>1 DEF Reading
  <2> QED
    BY <1>1, <2>1, ReadingFrame
<1>2. ASSUME params'.mode # "offline" \/ params'.parser \notin {"ip", "udp", "raw"}
      PROVE  Reading'
  BY <1>2 DEF Reading, Offline
<1>3. ASSUME NEW n \in Sizes, NEW v \in {4, 6}, WritePacket(v, n) \/ WriteFails(v, n)
      PROVE  Reading'
  <2>1. /\ UNCHANGED <<params, gen, sniffer, out, ended, wait>>
        /\ gen = 0 /\ sniffer = "none"
    BY <1>3 DEF WritePacket, WriteFails, Writing, rvars, svars, wvars, nvars
  <2>2. Offline' <=> Offline
    BY <2>1 DEF Offline
  <2> QED
    BY <2>1, <2>2 DEF Reading, Opening
<1>4. ASSUME NEW c \in Conn, CreateSniffer(c) PROVE Reading'
  <2>1. /\ UNCHANGED <<params, file, fstate, out, ended, wait>>
        /\ sniffer = "none" /\ gen' = gen + 1 /\ sniffer' # "live"
    BY <1>4 DEF CreateSniffer, rvars, fvars, wvars, nvars
  <2>2. SUFFICES ASSUME Offline' PROVE Reading'
    BY DEF Reading
  <2>3. gen = 0 /\ Offline
    BY <2>1, <2>2 DEF Offline, Fresh
  <2>4. out = <<>> /\ ended = "" /\ wait # "error"
    BY <2>3 DEF Reading
  <2> QED
    BY <2>1, <2>4 DEF Reading
<1>5. ASSUME OpenFails \/ Open \/ Load \/ SetNonblock PROVE Reading'
  <2>1. /\ UNCHANGED <<params, file, fstate, out, ended, wait, gen>>
        /\ sniffer \in Opening /\ sniffer' # "live"
    BY <1>5 DEF OpenFails, Fails, Open, Load, SetNonblock, Stage, Opening, rvars, fvars, wvars, nvars
  <2>2. SUFFICES ASSUME Offline' PROVE Reading'
    BY DEF Reading
  <2>3. Offline
    BY <2>1, <2>2 DEF Offline
  <2>4. out = <<>> /\ ended = "" /\ wait # "error"
    BY <2>1, <2>3 DEF Reading
  <2> QED
    BY <2>1, <2>4 DEF Reading
<1>6. ASSUME Started PROVE Reading'
  <2>1. /\ UNCHANGED <<params, file, fstate, out, gen>>
        /\ sniffer = "opened" /\ sniffer' = "live" /\ wait' = "armed" /\ ended' = ""
        /\ source' = IF params.mode = "live" THEN <<>> ELSE file
    BY <1>6 DEF Started, fvars
  <2>2. SUFFICES ASSUME Offline' PROVE Reading'
    BY DEF Reading
  <2>3. Offline /\ params.mode = "offline" /\ params.parser \in {"ip", "udp", "raw"}
    BY <2>1, <2>2 DEF Offline
  <2>4. out = <<>> /\ source' = file
    BY <2>1, <2>3 DEF Reading
  <2>5. PICK parser : parser = params.parser
    OBVIOUS
  <2>6. Len(file) \in Nat /\ file \in Seq(Range(file)) /\ 0 \in 0..Len(file)
    <3>1. PICK R : R = Range(file)
      OBVIOUS
    <3>2. file \in Seq(R)
      BY <3>1 DEF Written
    <3> QED
      BY <3>1, <3>2
  <2>7. Read(file, parser, file, <<>>, 0)
    <3>1. file = [i \in 1..(Len(file) - 0) |-> file[0 + i]]
      <4>1. PICK R : R = Range(file)
        OBVIOUS
      <4>2. file \in Seq(R)
        BY <2>6, <4>1
      <4>3. file = [i \in 1..Len(file) |-> file[i]]
        BY <4>2
      <4>4. Len(file) - 0 = Len(file) /\ \A i \in 1..Len(file) : 0 + i = i
        BY <2>6
      <4> QED
        BY <4>3, <4>4, Zenon
    <3>2. PICK s : s = FoundUpto(file, parser, 0)
      OBVIOUS
    <3>3. s = <<>>
      BY <3>2 DEF FoundUpto
    <3>4. FlattenSeq(<<>>) = <<>>
      BY Zenon DEF FlattenSeq
    <3>5. SizesOf(<<>>) = <<>>
      BY DEF SizesOf
    <3> QED
      BY <3>1, <3>2, <3>3, <3>4, <3>5 DEF Read
  <2>8. \E j \in 0..Len(file') : Read(file', params'.parser, source', out', j)
    BY <2>1, <2>4, <2>5, <2>6, <2>7
  <2> QED
    BY <2>1, <2>8 DEF Reading, Opening, Fresh
<1>7. ASSUME NextPacket PROVE Reading'
  <2>1. /\ UNCHANGED <<params, file, fstate, gen, sniffer, ended, wait>>
        /\ wait = "processing" /\ source # <<>> /\ Head(source).whole
        /\ source' = Tail(source)
        /\ out' = IF StreamParser THEN out
                  ELSE out \o Packets(params.parser, Snapped(Head(source).pkt))
    BY <1>7 DEF NextPacket, Looping, fvars, svars, wvars, nvars
  <2>2. SUFFICES ASSUME Offline' PROVE Reading'
    BY DEF Reading
  <2>3. PICK parser \in {"ip", "udp", "raw"} : parser = params.parser
    BY <2>1, <2>2 DEF Offline
  <2>4. Offline /\ ~StreamParser
    BY <2>1, <2>2, <2>3 DEF Offline, StreamParser
  <2>5. sniffer = "live" /\ wait # "none"
    BY <2>1 DEF Fresh
  <2>6. ended = ""
    BY <2>4, <2>5 DEF Reading
  <2>7. PICK j \in 0..Len(file) : Read(file, parser, source, out, j)
    BY <2>3, <2>4, <2>5, Zenon DEF Reading
  <2>8. out' = out \o Packets(parser, Snapped(Head(source).pkt))
    BY <2>1, <2>3, <2>4, Zenon
  <2>9. j < Len(file)
    BY <2>1, <2>7, ReadHead
  <2>10. out \in Seq(Range(out))
    BY DEF Parser
  <2>11. Read(file, parser, source', out', j + 1)
    <3>1. Read(file, parser, Tail(source),
               out \o Packets(parser, Snapped(Head(source).pkt)), j + 1)
      BY <2>1, <2>7, <2>10, ReadMore
    <3> QED
      BY <2>1, <2>8, <3>1, Zenon
  <2>12. j + 1 \in 0..Len(file)
    <3>1. Len(file) \in Nat
      BY FoundType
    <3> QED
      BY <2>9, <3>1
  <2>13. \E k \in 0..Len(file') : Read(file', params'.parser, source', out', k)
    BY <2>1, <2>3, <2>11, <2>12, Zenon
  <2>14. gen' # 0 /\ sniffer' = "live" /\ wait' = "processing" /\ ended' = ""
    BY <2>1, <2>5, <2>6 DEF Fresh
  <2> QED
    BY <2>13, <2>14 DEF Reading, Opening
<1>8. ASSUME Eof PROVE Reading'
  <2>1. /\ UNCHANGED <<params, file, fstate, gen, sniffer, out, source>>
        /\ wait = "processing" /\ source = <<>> /\ wait' = "none" /\ ended' = "eof"
    BY <1>8 DEF Eof, Looping, rvars, fvars, dvars, svars
  <2>2. SUFFICES ASSUME Offline' PROVE Reading'
    BY DEF Reading
  <2>3. PICK parser \in {"ip", "udp", "raw"} : parser = params.parser
    BY <2>1, <2>2 DEF Offline
  <2>4. Offline
    BY <2>1, <2>2 DEF Offline
  <2>5. sniffer = "live" /\ gen # 0
    BY <2>1 DEF Fresh
  <2>6. PICK j \in 0..Len(file) : Read(file, parser, source, out, j)
    BY <2>3, <2>4, <2>5, Zenon DEF Reading
  <2>7. Complete(file, parser, out, "eof")
    BY <2>1, <2>6, ReadAll
  <2>8. Complete(file', params'.parser, out', ended')
    BY <2>1, <2>3, <2>7, Zenon
  <2>9. \E k \in 0..Len(file') : Read(file', params'.parser, source', out', k)
    BY <2>1, <2>3, <2>6, Zenon
  <2> QED
    BY <2>1, <2>5, <2>8, <2>9 DEF Reading, Opening
<1>9. ASSUME ReadError PROVE Reading'
  <2>1. /\ UNCHANGED <<params, file, fstate, gen, sniffer, out, source>>
        /\ wait = "processing" /\ wait' = "none" /\ ended' # "eof"
        /\ params.mode = "live" \/ (source # <<>> /\ ~Head(source).whole)
    BY <1>9 DEF ReadError, Looping, rvars, fvars, dvars, svars
  <2>2. SUFFICES ASSUME Offline' PROVE Reading'
    BY DEF Reading
  <2>3. PICK parser \in {"ip", "udp", "raw"} : parser = params.parser
    BY <2>1, <2>2 DEF Offline
  <2>4. Offline /\ source # <<>> /\ ~Head(source).whole
    BY <2>1, <2>2 DEF Offline
  <2>5. sniffer = "live" /\ gen # 0
    BY <2>1 DEF Fresh
  <2>6. PICK j \in 0..Len(file) : Read(file, parser, source, out, j)
    BY <2>3, <2>4, <2>5, Zenon DEF Reading
  <2>7. PICK how : how = ended'
    OBVIOUS
  <2>8. Complete(file, parser, out, how)
    BY <2>1, <2>4, <2>6, <2>7, ReadCut
  <2>9. Complete(file', params'.parser, out', ended')
    BY <2>1, <2>3, <2>7, <2>8, Zenon
  <2>10. \E k \in 0..Len(file') : Read(file', params'.parser, source', out', k)
    BY <2>1, <2>3, <2>6, Zenon
  <2> QED
    BY <2>1, <2>5, <2>9, <2>10 DEF Reading, Opening
<1>10. ASSUME ReportError PROVE Reading'
  <2>1. params' = params /\ gen' = gen /\ wait = "error"
    BY <1>10 DEF ReportError, fvars, svars
  <2>2. ~Offline
    BY <2>1 DEF Reading
  <2> QED
    BY <2>1, <2>2 DEF Reading, Offline
<1>11. ASSUME NEW c \in Conn, Disconnect(c) PROVE Reading'
  <2>1. /\ UNCHANGED <<params, file, fstate, gen, out, ended>>
        /\ \/ UNCHANGED <<source, sniffer, wait>>
           \/ sniffer' = "none" /\ wait' = "none"
    BY <1>11 DEF Disconnect, DestroySniffer, rvars, fvars
  <2>2. CASE UNCHANGED <<source, sniffer, wait>>
    BY <1>1, <2>1, <2>2
  <2>3. CASE sniffer' = "none" /\ wait' = "none"
    <3>1. Offline' <=> Offline
      BY <2>1 DEF Offline
    <3> QED
      BY <2>1, <2>3, <3>1 DEF Reading, Opening
  <2> QED
    BY <2>1, <2>2, <2>3
<1>12. ASSUME \/ \E p \in LivePackets : Arrive(p)
              \/ WaitFails \/ NoMore
              \/ \E m \in 0..MaxHeld, n \in 1..MaxSegment : NextSegment(m, n) \/ NextPiece(m, n)
       PROVE  Reading'
  <2>1. params' = params /\ (params.mode = "live" \/ params.parser \in {"voip", "tcpstream"})
    BY <1>12 DEF Arrive, WaitFails, NoMore, NextSegment, NextPiece, fvars
  <2> QED
    BY <1>2, <2>1
<1>13. ASSUME \/ \E c \in Conn : Join(c) \/ NotConfigured(c) \/ Leave(c)
              \/ WaitEnds \/ Begin \/ Notify
              \/ \E c \in Conn : (\E i \in posted[c] : RunPosted(c, i)) \/ Expire(c)
              \/ \E h \in stray : StrayRuns(h)
              \/ UNCHANGED vars
       PROVE  Reading'
  <2>1. /\ UNCHANGED <<params, file, fstate, gen, sniffer, out, ended, source>>
        /\ wait' # "none" => wait # "none"
        /\ wait' = "error" => wait = "error"
    BY <1>13
       DEF Join, NotConfigured, Leave, Subscribe, WaitEnds, Begin, Notify, RunPosted, Expire,
           StrayRuns, vars, rvars, fvars, dvars, svars, wvars, nvars
  <2> QED
    BY <1>1, <2>1
<1> QED
  BY <1>3, <1>4, <1>5, <1>6, <1>7, <1>8, <1>9, <1>10, <1>11, <1>12, <1>13
     DEF Next, Construct, Process, ConnStep

\* Before the first record.
LEMMA NoneWritten == Written(<<>>, "good", SizeFileHeader)
<1>1. PICK f : f = <<>>
  OBVIOUS
<1>2. Len(f) = 0 /\ DOMAIN f = 1..0 /\ \A R : f \in Seq(R)
  <2>1. \A R : <<>> \in Seq(R)
    OBVIOUS
  <2>2. f \in Seq(Int) /\ Len(f) = 0
    BY <1>1
  <2>3. DOMAIN f = 1..Len(f)
    BY <2>2
  <2> QED
    BY <1>1, <2>1, <2>2, <2>3
<1>3. PICK s : s = [i \in DOMAIN f |-> BytesOf(f[i])]
  OBVIOUS
<1>4. s \in Seq(Int) /\ Len(s) = 0
  <2>1. s = [i \in 1..0 |-> BytesOf(f[i])]
    BY <1>2, <1>3, Zenon
  <2>2. \A i \in 1..0 : BytesOf(f[i]) \in Int
    OBVIOUS
  <2>3. s \in [1..0 -> Int]
    BY <2>1, <2>2, Zenon
  <2> QED
    BY <2>3
<1>5. SumOver(s) = 0
  <2>1. PICK g : /\ SumOver(s) = g[Len(s)]
                 /\ g \in [0..Len(s) -> Int]
                 /\ g[0] = 0
                 /\ \A i \in 1..Len(s) : g[i] = g[i - 1] + s[i]
    BY <1>4, SumSteps
  <2> QED
    BY <1>4, <2>1, Zenon
<1>6. SizeFileHeader \in Nat /\ SizeFileHeader = SizeFileHeader + 0
  BY DEF SizeFileHeader
<1>7. \A i \in 1..0 : FALSE
  OBVIOUS
<1> QED
  BY <1>1, <1>2, <1>3, <1>5, <1>6, <1>7, Zenon DEF Written

\* The file, and how far it has been read.
LEMMA ReadingBack == Spec => [](Parser /\ Fresh /\ Written(file, fstate, total) /\ Reading)
<1>1. Init => Parser /\ Fresh /\ Written(file, fstate, total) /\ Reading
  <2> SUFFICES ASSUME Init PROVE Parser /\ Fresh /\ Written(file, fstate, total) /\ Reading
    OBVIOUS
  <2>1. Parser /\ Fresh
    BY ParserInit, FoundInit
  <2>2. /\ file = <<>> /\ fstate = "good" /\ total = SizeFileHeader
        /\ out = <<>> /\ ended = "" /\ sniffer = "none" /\ wait = "none"
    BY DEF Init
  <2>6. Written(file, fstate, total)
    BY <2>2, NoneWritten
  <2>7. Reading
    BY <2>2 DEF Reading
  <2> QED
    BY <2>1, <2>6, <2>7
<1>2. Parser /\ Fresh /\ Written(file, fstate, total) /\ Reading /\ [Next]_vars
        => (Parser /\ Fresh /\ Written(file, fstate, total) /\ Reading)'
  <2> SUFFICES ASSUME Parser, Fresh, Written(file, fstate, total), Reading, [Next]_vars
               PROVE  (Parser /\ Fresh /\ Written(file, fstate, total) /\ Reading)'
    OBVIOUS
  <2>1. Parser' /\ Fresh'
    BY ParserNext, FreshNext
  <2>2. Written(file', fstate', total')
    BY WrittenNext
  <2>3. Written(file, fstate, total)'
    BY <2>2 DEF Written
  <2>4. Reading'
    BY ReadingNext
  <2> QED
    BY <2>1, <2>3, <2>4
<1> QED
  BY <1>1, <1>2, PTL DEF Spec

\* A capture of a file finds in it the records that were written, or the
\* datagrams in them, in their order and with their sizes, except empty ones;
\* those that are longer than the snapshot length are cut or skipped, and cost
\* no other.  It ends at the end of the file unless a write has left a part of a
\* record there.  total_ counts the headers and the data whose writes have
\* succeeded, and IPv4's checksums are right (ippacket.cpp:52-66,
\* ostream.cpp:46-80, parsers/ip.cpp:9-46, udp.cpp:8-24, raw.h:17).
THEOREM FileReadsBackHolds == Spec => []FileReadsBack
<1>1. Parser /\ Fresh /\ Written(file, fstate, total) /\ Reading => FileReadsBack
  <2> SUFFICES ASSUME Written(file, fstate, total), Reading, Offline PROVE FileReadsBack
    BY DEF FileReadsBack, Offline
  <2>1. PICK parser \in {"ip", "udp", "raw"} : parser = params.parser
    BY DEF Offline
  <2>2. Len(file) \in Nat /\ DOMAIN file = 1..Len(file) /\ 0 \in 0..Len(file)
    <3>1. PICK R : R = Range(file)
      OBVIOUS
    <3>2. file \in Seq(R)
      BY <3>1 DEF Written
    <3> QED
      BY <3>2
  <2>3. ASSUME ended # ""
        PROVE  /\ [i \in DOMAIN out |-> out[i].size]
                    = FlattenSeq([i \in DOMAIN file |-> FoundIn(params.parser, file[i])])
               /\ ended = "eof" <=> \A i \in 1..Len(file) : file[i].whole
    <3>1. Complete(file, parser, out, ended)
      BY <2>1, <2>3, Zenon DEF Reading
    <3>2. FoundUpto(file, parser, Len(file))
            = [i \in DOMAIN file |-> FoundIn(params.parser, file[i])]
      BY <2>1, <2>2, Zenon DEF FoundUpto
    <3> QED
      BY <3>1, <3>2, Zenon DEF Complete, SizesOf
  <2>4. ASSUME NEW r \in Range(file), r.pkt.ver = 4 PROVE CalcCheckSumm(r.pkt.words) = 0
    <3>1. PICK i \in 1..Len(file) : r = file[i]
      BY <2>2, Zenon DEF Range
    <3>2. InFile(r)
      BY <3>1, Zenon DEF Written
    <3>3. PICK link \in Writable, ver \in {4, 6}, id \in Nat :
             r.pkt = IPPacket(link, ver, r.size, id, Addrs)
      BY <3>2 DEF InFile
    <3>4. r.size \in Nat
      BY <3>2 DEF InFile
    <3> QED
      BY <3>3, <3>4, IPPacketForm
  <2>6. fstate = "good" => \A i \in 1..Len(file) : file[i].whole
    BY Zenon DEF Written
  <2>5. total = SizeFileHeader + SumOver([i \in DOMAIN file |-> BytesOf(file[i])])
    BY Zenon DEF Written
  <2> QED
    BY <2>3, <2>4, <2>5, <2>6, Zenon DEF FileReadsBack
<1> QED
  BY <1>1, ReadingBack, PTL
=============================================================================
