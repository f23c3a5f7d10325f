---------------------------- MODULE SequenceFacts ----------------------------
(* Lemmas about the sequence operators the models are built from, for every   *)
(* sequence: what FlattenSeq and SubSeq return of sequences put together.     *)
EXTENDS SequencesExt, SequenceTheorems, WellFoundedInduction, TLAPS

LEMMA LeastOfNat ==
  ASSUME NEW T, T \subseteq Nat, T # {}
  PROVE  \E x \in T : \A y \in T : x <= y
<1> DEFINE Smaller == OpToRel(<, Nat)
<1>1. IsWellFoundedOn(Smaller, Nat)
  BY NatLessThanWellFounded
<1>2. ASSUME NEW x \in Nat, NEW y \in Nat, y < x PROVE <<y, x>> \in Smaller
  BY <1>2 DEF OpToRel
<1> HIDE DEF Smaller
<1>3. PICK x \in T : \A y \in T : ~ (<<y, x>> \in Smaller)
  BY <1>1, WFMin
<1>4. ASSUME NEW y \in T PROVE x <= y
  <2>1. x \in Nat /\ y \in Nat
    OBVIOUS
  <2>2. ~ (y < x)
    BY <1>2, <1>3, <2>1
  <2> QED  BY <2>1, <2>2
<1> QED  BY <1>4

(* Induction over the natural numbers, for a set instead of a predicate.      *)
LEMMA InductionSet ==
  ASSUME NEW S, 0 \in S, \A n \in Nat : n \in S => n + 1 \in S
  PROVE  Nat \subseteq S
<1> DEFINE T == {n \in Nat : n \notin S}
<1>1. SUFFICES ASSUME T # {} PROVE FALSE
  OBVIOUS
<1>2. PICK x \in T : \A y \in T : x <= y
  <2>1. T \subseteq Nat /\ T # {}
    BY <1>1
  <2> HIDE DEF T
  <2> QED  BY <2>1, LeastOfNat
<1>3. x - 1 \in Nat /\ x - 1 < x /\ (x - 1) + 1 = x
  OBVIOUS
<1>4. x - 1 \in S
  BY <1>2, <1>3
<1> QED  BY <1>3, <1>4

(* A sequence that has the elements of s and then those of t.                 *)
LEMMA ConcatIs ==
  ASSUME NEW S, NEW s \in Seq(S), NEW t \in Seq(S), NEW u \in Seq(S),
         Len(u) = Len(s) + Len(t),
         \A i \in 1..Len(s) : u[i] = s[i],
         \A i \in 1..Len(t) : u[Len(s) + i] = t[i]
  PROVE  u = s \o t
<1>1. s \o t \in Seq(S) /\ Len(s \o t) = Len(u)
  OBVIOUS
<1>2. ASSUME NEW i \in 1..Len(u) PROVE u[i] = (s \o t)[i]
  <2>1. Len(s) \in Nat /\ Len(t) \in Nat
    OBVIOUS
  <2>2. CASE i <= Len(s)
    BY <2>1, <2>2
  <2>3. CASE i > Len(s)
    <3>1. i - Len(s) \in 1..Len(t) /\ Len(s) + (i - Len(s)) = i
      BY <2>1, <2>3
    <3> QED  BY <2>1, <2>3, <3>1
  <2> QED  BY <2>1, <2>2, <2>3
<1> QED  BY <1>1, <1>2, SeqEqual

LEMMA ConcatRegroup ==
  \A S : \A s, t, u \in Seq(S) : (s \o t) \o u = s \o (t \o u)
BY ConcatAssociative

(* The first element of a nonempty sequence leads every continuation of it.   *)
LEMMA HeadOfConcat ==
  \A S : \A s, t \in Seq(S) : s # <<>> =>
    s \o t # <<>> /\ Head(s \o t) = Head(s) /\ Tail(s \o t) = Tail(s) \o t
<1> SUFFICES ASSUME NEW S, NEW s \in Seq(S), NEW t \in Seq(S), s # <<>>
             PROVE  s \o t # <<>> /\ Head(s \o t) = Head(s) /\ Tail(s \o t) = Tail(s) \o t
  OBVIOUS
<1>1. Len(s) \in Nat \ {0} /\ Len(t) \in Nat
  OBVIOUS
<1>2. s \o t \in Seq(S) /\ Len(s \o t) = Len(s) + Len(t) /\ s \o t # <<>>
  BY <1>1
<1>3. Tail(s \o t) \in Seq(S) /\ Tail(s) \in Seq(S) /\ Len(Tail(s)) = Len(s) - 1
  BY <1>2
<1>4. Tail(s \o t) = Tail(s) \o t
  <2>1. Len(Tail(s \o t)) = Len(Tail(s)) + Len(t)
    BY <1>1, <1>2, <1>3
  <2>2. \A i \in 1..Len(Tail(s)) : Tail(s \o t)[i] = Tail(s)[i]
    BY <1>1, <1>2, <1>3
  <2>3. \A i \in 1..Len(t) : Tail(s \o t)[Len(Tail(s)) + i] = t[i]
    BY <1>1, <1>2, <1>3
  <2> QED  BY <1>3, <2>1, <2>2, <2>3, ConcatIs
<1>5. Head(s \o t) = Head(s)
  BY <1>1, <1>2
<1> QED  BY <1>2, <1>4, <1>5

(* A sequence cut in two.                                                     *)
LEMMA CutSeq ==
  ASSUME NEW S, NEW s \in Seq(S), NEW n \in 0..Len(s)
  PROVE  /\ SubSeq(s, 1, n) \in Seq(S) /\ SubSeq(s, n + 1, Len(s)) \in Seq(S)
         /\ Len(SubSeq(s, 1, n)) = n /\ Len(SubSeq(s, n + 1, Len(s))) = Len(s) - n
         /\ \A i \in 1..n : SubSeq(s, 1, n)[i] = s[i]
         /\ \A i \in 1..(Len(s) - n) : SubSeq(s, n + 1, Len(s))[i] = s[n + i]
         /\ s = SubSeq(s, 1, n) \o SubSeq(s, n + 1, Len(s))
<1> DEFINE a == SubSeq(s, 1, n)
           b == SubSeq(s, n + 1, Len(s))
<1>1. Len(s) \in Nat /\ n \in Nat /\ n <= Len(s)
  OBVIOUS
<1>2. a \in Seq(S) /\ Len(a) = n /\ \A i \in 1..n : a[i] = s[i]
  <2>1. \A i \in 1..n : s[i] \in S
    BY <1>1
  <2>2. n - 1 + 1 = n /\ (1 <= n \/ n = 0) /\ \A i \in 1..n : 1 + i - 1 = i
    BY <1>1
  <2> QED  BY <1>1, <2>1, <2>2, SubSeqProperties
<1>3. b \in Seq(S) /\ Len(b) = Len(s) - n /\ \A i \in 1..(Len(s) - n) : b[i] = s[n + i]
  <2>1. \A i \in (n + 1)..Len(s) : s[i] \in S
    BY <1>1
  <2>2. /\ n + 1 \in Int /\ Len(s) - (n + 1) + 1 = Len(s) - n
        /\ (n + 1 <= Len(s) \/ Len(s) - n = 0)
        /\ \A i \in 1..(Len(s) - n) : n + 1 + i - 1 = n + i
    BY <1>1
  <2>3. /\ b \in Seq(S)
        /\ Len(b) = IF n + 1 <= Len(s) THEN Len(s) - (n + 1) + 1 ELSE 0
        /\ \A i \in 1..(Len(s) - (n + 1) + 1) : b[i] = s[n + 1 + i - 1]
    <3> DEFINE m == n + 1
               l == Len(s)
    <3>1. m \in Int /\ l \in Int /\ \A i \in m..l : s[i] \in S
      BY <1>1, <2>1
    <3> HIDE DEF m, l
    <3>2. /\ SubSeq(s, m, l) \in Seq(S)
          /\ Len(SubSeq(s, m, l)) = IF m <= l THEN l - m + 1 ELSE 0
          /\ \A i \in 1..(l - m + 1) : SubSeq(s, m, l)[i] = s[m + i - 1]
      BY <3>1, SubSeqProperties
    <3> QED  BY <3>2 DEF m, l
  <2> HIDE DEF b
  <2> QED  BY <1>1, <2>2, <2>3
<1> HIDE DEF a, b
<1>4. s = a \o b
  <2>1. Len(s) = Len(a) + Len(b) /\ \A i \in 1..Len(a) : s[i] = a[i]
    BY <1>1, <1>2, <1>3
  <2>2. \A i \in 1..Len(b) : s[Len(a) + i] = b[i]
    BY <1>1, <1>2, <1>3
  <2> QED  BY <1>2, <1>3, <2>1, <2>2, ConcatIs
<1> QED  BY <1>2, <1>3, <1>4 DEF a, b

(* A part of a sequence, element by element.                                  *)
LEMMA PartSeq ==
  ASSUME NEW S, NEW s \in Seq(S), NEW p \in Nat, NEW n \in Nat, p + n <= Len(s)
  PROVE  /\ SubSeq(s, p + 1, p + n) \in Seq(S) /\ Len(SubSeq(s, p + 1, p + n)) = n
         /\ \A i \in 1..n : SubSeq(s, p + 1, p + n)[i] = s[p + i]
<1>1. Len(s) \in Nat /\ \A i \in 1..n : p + i \in 1..Len(s)
  OBVIOUS
<1>2. \A i \in 1..n : s[p + i] \in S
  BY <1>1
<1>3. SubSeq(s, p + 1, p + n) = [i \in 1..n |-> s[p + i]]
  <2>1. (p + n) - (p + 1) + 1 = n /\ \A i \in 1..n : i + (p + 1) - 1 = p + i
    OBVIOUS
  <2> QED  BY <2>1
<1> QED  BY <1>2, <1>3

(* What is left of s \o t when s and more is gone.                            *)
LEMMA CutConcat ==
  ASSUME NEW S, NEW s \in Seq(S), NEW t \in Seq(S), NEW n \in 0..Len(t)
  PROVE  SubSeq(s \o t, Len(s) + n + 1, Len(s \o t)) = SubSeq(t, n + 1, Len(t))
<1> DEFINE u == SubSeq(s \o t, Len(s) + n + 1, Len(s \o t))
           v == SubSeq(t, n + 1, Len(t))
<1>1. /\ Len(s) \in Nat /\ Len(t) \in Nat /\ n \in Nat /\ n <= Len(t)
      /\ s \o t \in Seq(S) /\ Len(s \o t) = Len(s) + Len(t)
  OBVIOUS
<1>2. Len(s) + n \in 0..Len(s \o t)
  BY <1>1
<1>3. /\ u \in Seq(S) /\ Len(u) = Len(t) - n
      /\ \A i \in 1..(Len(t) - n) : u[i] = (s \o t)[Len(s) + n + i]
  <2> DEFINE st == s \o t
             m == Len(s) + n
  <2>1. st \in Seq(S) /\ m \in 0..Len(st) /\ Len(st) - m = Len(t) - n
    BY <1>1, <1>2
  <2> HIDE DEF st, m
  <2>2. /\ SubSeq(st, m + 1, Len(st)) \in Seq(S)
        /\ Len(SubSeq(st, m + 1, Len(st))) = Len(st) - m
        /\ \A i \in 1..(Len(st) - m) : SubSeq(st, m + 1, Len(st))[i] = st[m + i]
    BY <2>1, CutSeq
  <2> QED  BY <2>1, <2>2 DEF st, m
<1>4. v \in Seq(S) /\ Len(v) = Len(t) - n /\ \A i \in 1..(Len(t) - n) : v[i] = t[n + i]
  BY CutSeq
<1>5. ASSUME NEW i \in 1..(Len(t) - n) PROVE (s \o t)[Len(s) + n + i] = t[n + i]
  BY <1>1
<1> HIDE DEF u, v
<1>6. u = v
  BY <1>3, <1>4, <1>5, SeqEqual
<1> QED  BY <1>6 DEF u, v

(* The function FlattenSeq defines: element i puts the first i sequences      *)
(* together.                                                                  *)
Flattens(f, ss) ==
  f = [i \in 1..Len(ss) |-> IF i = 1 THEN ss[i] ELSE f[i - 1] \o ss[i]]

LEMMA FlattensExists ==
  ASSUME NEW S, NEW ss \in Seq(Seq(S))
  PROVE  \E f : Flattens(f, ss)
<1> DEFINE Upto(n, f) == f = [i \in 1..n |-> IF i = 1 THEN ss[i] ELSE f[i - 1] \o ss[i]]
           N == {n \in Nat : \E f : Upto(n, f)}
<1>1. 0 \in N
  <2>1. Upto(0, <<>>)
    OBVIOUS
  <2> QED  BY <2>1
<1>2. ASSUME NEW n \in Nat, n \in N PROVE n + 1 \in N
  <2>1. PICK f : Upto(n, f)
    BY <1>2
  <2> DEFINE g == [i \in 1..(n + 1) |-> IF i = n + 1
                                          THEN IF i = 1 THEN ss[i] ELSE f[n] \o ss[i]
                                          ELSE f[i]]
  <2>2. \A i \in 1..(n + 1) : g[i] = IF i = 1 THEN ss[i] ELSE g[i - 1] \o ss[i]
    <3> TAKE i \in 1..(n + 1)
    <3>1. CASE i = n + 1
      BY <3>1
    <3>2. CASE i # n + 1
      <4>1. i \in 1..n
        BY <3>2
      <4>2. f[i] = IF i = 1 THEN ss[i] ELSE f[i - 1] \o ss[i]
        BY <2>1, <4>1
      <4>3. i # 1 => i - 1 \in 1..n
        BY <4>1
      <4> QED  BY <3>2, <4>1, <4>2, <4>3
    <3> QED  BY <3>1, <3>2
  <2>3. Upto(n + 1, g)
    <3>1. g = [i \in 1..(n + 1) |-> g[i]]
      OBVIOUS
    <3> HIDE DEF g
    <3> QED  BY <2>2, <3>1
  <2>4. \E h : Upto(n + 1, h)
    <3> HIDE DEF g, Upto
    <3> QED  BY <2>3
  <2>5. n + 1 \in Nat
    OBVIOUS
  <2> HIDE DEF Upto
  <2> QED  BY <2>4, <2>5
<1>3. Len(ss) \in N
  <2>1. Len(ss) \in Nat
    OBVIOUS
  <2> HIDE DEF N
  <2> QED  BY <1>1, <1>2, <2>1, InductionSet
<1> QED  BY <1>3 DEF Flattens

LEMMA FlattenSeqIs ==
  ASSUME NEW S, NEW ss \in Seq(Seq(S)), ss # <<>>
  PROVE  \E f : Flattens(f, ss) /\ FlattenSeq(ss) = f[Len(ss)]
<1> DEFINE f == CHOOSE f : f = [i \in 1..Len(ss) |-> IF i = 1 THEN ss[i] ELSE f[i - 1] \o ss[i]]
<1>1. Flattens(f, ss)
  BY FlattensExists DEF Flattens
<1>2. FlattenSeq(ss) = f[Len(ss)]
  BY DEF FlattenSeq
<1> QED  BY <1>1, <1>2

(* Two such functions agree on what they share.                               *)
LEMMA FlattensAgree ==
  ASSUME NEW S, NEW ss \in Seq(Seq(S)), NEW tt \in Seq(Seq(S)), NEW f, NEW g,
         Flattens(f, ss), Flattens(g, tt),
         NEW k \in Nat, k <= Len(ss), k <= Len(tt), \A i \in 1..k : ss[i] = tt[i]
  PROVE  \A i \in 1..k : f[i] = g[i] /\ f[i] \in Seq(S)
<1> DEFINE Same == {n \in Nat : n \in 1..k => f[n] = g[n] /\ f[n] \in Seq(S)}
<1>1. ASSUME NEW i \in 1..k
      PROVE  /\ f[i] = IF i = 1 THEN ss[i] ELSE f[i - 1] \o ss[i]
             /\ g[i] = IF i = 1 THEN ss[i] ELSE g[i - 1] \o ss[i]
             /\ ss[i] \in Seq(S)
  <2>1. i \in 1..Len(ss) /\ i \in 1..Len(tt) /\ ss[i] = tt[i]
    OBVIOUS
  <2>2. f[i] = IF i = 1 THEN ss[i] ELSE f[i - 1] \o ss[i]
    BY <2>1 DEF Flattens
  <2>3. g[i] = IF i = 1 THEN tt[i] ELSE g[i - 1] \o tt[i]
    BY <2>1 DEF Flattens
  <2> QED  BY <2>1, <2>2, <2>3
<1>2. 0 \in Same
  OBVIOUS
<1>3. ASSUME NEW n \in Nat, n \in Same PROVE n + 1 \in Same
  <2> SUFFICES ASSUME n + 1 \in 1..k PROVE f[n + 1] = g[n + 1] /\ f[n + 1] \in Seq(S)
    OBVIOUS
  <2>1. CASE n = 0
    <3>1. n + 1 = 1 /\ 1 \in 1..k
      BY <2>1
    <3>2. f[1] = ss[1] /\ g[1] = ss[1] /\ ss[1] \in Seq(S)
      BY <1>1, <3>1
    <3> QED  BY <3>1, <3>2
  <2>2. CASE n # 0
    <3>1. n \in 1..k /\ n + 1 # 1 /\ (n + 1) - 1 = n
      BY <2>2
    <3>2. f[n] = g[n] /\ f[n] \in Seq(S)
      BY <1>3, <3>1
    <3>3. f[n + 1] = f[n] \o ss[n + 1] /\ g[n + 1] = g[n] \o ss[n + 1]
      BY <1>1, <3>1
    <3> QED  BY <3>2, <3>3, <1>1
  <2> QED  BY <2>1, <2>2
<1>4. Nat \subseteq Same
  <2> HIDE DEF Same
  <2> QED  BY <1>2, <1>3, InductionSet
<1> QED  BY <1>4

(* What FlattenSeq returns.                                                   *)
LEMMA FlattenType ==
  ASSUME NEW S, NEW ss \in Seq(Seq(S))
  PROVE  FlattenSeq(ss) \in Seq(S)
<1>1. CASE ss = <<>>
  BY <1>1 DEF FlattenSeq
<1>2. CASE ss # <<>>
  <2>1. PICK f : Flattens(f, ss) /\ FlattenSeq(ss) = f[Len(ss)]
    BY <1>2, FlattenSeqIs
  <2>2. Len(ss) \in 1..Len(ss) /\ Len(ss) \in Nat
    BY <1>2
  <2> QED  BY <2>1, <2>2, FlattensAgree
<1> QED  BY <1>1, <1>2

LEMMA FlattenAppend ==
  ASSUME NEW S, NEW ss \in Seq(Seq(S)), NEW s \in Seq(S)
  PROVE  FlattenSeq(Append(ss, s)) = FlattenSeq(ss) \o s
<1> DEFINE tt == Append(ss, s)
           n == Len(ss)
<1>1. /\ tt \in Seq(Seq(S)) /\ Len(tt) = n + 1 /\ n \in Nat /\ tt # <<>>
      /\ tt[n + 1] = s /\ \A i \in 1..n : tt[i] = ss[i]
  BY AppendProperties
<1> HIDE DEF tt
<1>2. PICK g : Flattens(g, tt) /\ FlattenSeq(tt) = g[n + 1]
  BY <1>1, FlattenSeqIs
<1>3. g[n + 1] = IF n + 1 = 1 THEN s ELSE g[n] \o s
  <2>1. n + 1 \in 1..Len(tt) /\ (n + 1) - 1 = n
    BY <1>1
  <2> QED  BY <1>1, <1>2, <2>1 DEF Flattens
<1>4. CASE n = 0
  <2>1. FlattenSeq(ss) = <<>>
    BY <1>4 DEF FlattenSeq
  <2> QED  BY <1>2, <1>3, <1>4, <2>1 DEF tt
<1>5. CASE n # 0
  <2>1. PICK f : Flattens(f, ss) /\ FlattenSeq(ss) = f[n]
    BY <1>5, FlattenSeqIs
  <2>2. n \in 1..n /\ n <= Len(tt) /\ n + 1 # 1
    BY <1>1, <1>5
  <2>3. \A i \in 1..n : ss[i] = tt[i]
    BY <1>1
  <2>4. \A i \in 1..n : f[i] = g[i]
    <3>1. n \in Nat /\ n <= Len(ss) /\ n <= Len(tt)
      BY <1>1
    <3> HIDE DEF n
    <3>2. Flattens(f, ss) /\ Flattens(g, tt) /\ tt \in Seq(Seq(S))
      BY <1>1, <1>2, <2>1
    <3>3. \A i \in 1..n : f[i] = g[i] /\ f[i] \in Seq(S)
      BY <2>3, <3>1, <3>2, FlattensAgree
    <3> QED  BY <3>3
  <2> QED  BY <1>2, <1>3, <2>1, <2>2, <2>4 DEF tt
<1> QED  BY <1>4, <1>5, <1>1

LEMMA FlattenConcat ==
  ASSUME NEW S, NEW ss \in Seq(Seq(S))
  PROVE  \A tt \in Seq(Seq(S)) : FlattenSeq(ss \o tt) = FlattenSeq(ss) \o FlattenSeq(tt)
<1> DEFINE Holds(tt) == FlattenSeq(ss \o tt) = FlattenSeq(ss) \o FlattenSeq(tt)
           N == {n \in Nat : \A tt \in Seq(Seq(S)) : Len(tt) = n => Holds(tt)}
<1>1. 0 \in N
  <2>1. ASSUME NEW tt \in Seq(Seq(S)), Len(tt) = 0 PROVE Holds(tt)
    <3>1. tt = <<>> /\ ss \o tt = ss
      BY <2>1, ConcatEmptySeq
    <3>2. FlattenSeq(tt) = <<>>
      BY <3>1 DEF FlattenSeq
    <3>3. FlattenSeq(ss) \in Seq(S)
      BY FlattenType
    <3> QED  BY <3>1, <3>2, <3>3
  <2> HIDE DEF Holds
  <2> QED  BY <2>1
<1>2. ASSUME NEW n \in Nat, n \in N PROVE n + 1 \in N
  <2>1. ASSUME NEW tt \in Seq(Seq(S)), Len(tt) = n + 1 PROVE Holds(tt)
    <3>1. tt # <<>>
      BY <2>1
    <3>2. PICK uu \in Seq(Seq(S)), u \in Seq(S) : tt = Append(uu, u)
      BY <3>1, SequenceEmptyOrAppend
    <3>3. Len(uu) = n
      BY <2>1, <3>2
    <3>4. Holds(uu)
      BY <1>2, <3>3
    <3>5. ss \o tt = Append(ss \o uu, u) /\ ss \o uu \in Seq(Seq(S))
      BY <3>2
    <3>6. FlattenSeq(ss \o tt) = FlattenSeq(ss \o uu) \o u
      BY <3>5, FlattenAppend
    <3>7. FlattenSeq(tt) = FlattenSeq(uu) \o u
      BY <3>2, FlattenAppend
    <3>8. FlattenSeq(ss) \in Seq(S) /\ FlattenSeq(uu) \in Seq(S)
      BY FlattenType
    <3> QED  BY <3>4, <3>6, <3>7, <3>8, ConcatAssociative, SMTT(30)
  <2>2. n + 1 \in Nat
    OBVIOUS
  <2> HIDE DEF Holds
  <2> QED  BY <2>1, <2>2
<1>3. Nat \subseteq N
  <2> HIDE DEF N
  <2> QED  BY <1>1, <1>2, InductionSet
<1>4. ASSUME NEW tt \in Seq(Seq(S)) PROVE Holds(tt)
  <2>1. Len(tt) \in N
    BY <1>3
  <2> HIDE DEF Holds
  <2> QED  BY <2>1
<1> QED  BY <1>4
=============================================================================
