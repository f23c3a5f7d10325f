------------------------------ MODULE SendProofs ------------------------------
(* Proofs about what is sent: the bytes of the packets, the chunks they are   *)
(* written into, and the send queue of a session.  For bytes of any number of *)
(* values, buffers and chunks of any size, any packets, any numbers of        *)
(* threads and any limits.                                                    *)
EXTENDS SessionSend, SendBuffers, SequenceFacts

-----------------------------------------------------------------------------
(* The packets.  First the numbers: what the bytes of a number are.           *)
(* Division, with the quotient and the rest as numbers of their own.          *)
LEMMA DivideIs ==
  ASSUME NEW n \in Nat, NEW q \in Nat, q > 0
  PROVE  \E d \in Nat, r \in Nat : d = n \div q /\ r = n % q /\ r < q /\ n = q * d + r
<1>1. n \div q \in Nat /\ n % q \in Nat /\ n % q < q
  <2>1. n % q \in 0..(q - 1)
    OBVIOUS
  <2>2. n \div q \in Nat
    OBVIOUS
  <2> QED  BY <2>1, <2>2
<1>2. ASSUME NEW d, d = n \div q, NEW r, r = n % q PROVE n = q * d + r
  BY <1>2, SMTT(20)
<1>3. PICK d \in Nat, r \in Nat : d = n \div q /\ r = n % q
  BY <1>1
<1> QED  BY <1>1, <1>2, <1>3

LEMMA DivideUnique ==
  ASSUME NEW n \in Nat, NEW q \in Nat, q > 0, NEW d \in Nat, NEW r \in Nat, r < q, n = q * d + r
  PROVE  d = n \div q /\ r = n % q
<1>1. r \in 0..(q - 1)
  OBVIOUS
<1> QED  BY <1>1, SMTT(20)

(* Dividing by p and then by b is dividing by p * b.                          *)
LEMMA DivideTwice ==
  ASSUME NEW n \in Nat, NEW p \in Nat, p > 0, NEW b \in Nat, b > 0
  PROVE  \E d \in Nat, e \in Nat, f \in Nat :
           /\ d = n \div p /\ e = n \div (p * b) /\ f = d % b /\ f < b
           /\ d = b * e + f
<1>1. PICK d \in Nat, r \in Nat : d = n \div p /\ r < p /\ n = p * d + r
  BY DivideIs
<1>2. PICK e \in Nat, f \in Nat : e = d \div b /\ f = d % b /\ f < b /\ d = b * e + f
  BY DivideIs
<1>3. PICK q \in Nat : q = p * b /\ q > 0
  <2>1. p * b \in Nat
    OBVIOUS
  <2>2. p * b > 0
    OBVIOUS
  <2> QED  BY <2>1, <2>2
<1>4. PICK s \in Nat : s = p * f + r /\ s < q
  <2>1. p * f + r \in Nat
    OBVIOUS
  <2>2. p * f + r < p * b
    <3>1. p * f + p <= p * b
      <4>1. p * (b - f) >= p
        BY <1>2
      <4>2. p * (b - f) = p * b - p * f
        BY <1>2
      <4> QED  BY <4>1, <4>2
    <3> QED  BY <1>1, <3>1
  <2> QED  BY <1>3, <2>1, <2>2
<1>5. n = q * e + s
  <2>1. p * (b * e + f) = (p * b) * e + p * f
    OBVIOUS
  <2> QED  BY <1>1, <1>2, <1>3, <1>4, <2>1
<1>6. e = n \div q
  BY <1>3, <1>4, <1>5, DivideUnique
<1>7. n \div (p * b) = e /\ n \div p = d
  BY <1>1, <1>3, <1>6
<1> QED  BY <1>2, <1>7

-----------------------------------------------------------------------------
(* A function defined by recursion on its index, for any first value and any  *)
(* step: there is one.                                                        *)
LEMMA RecursionExists ==
  ASSUME NEW S, NEW a \in S, NEW m \in Nat, NEW step \in [1..m -> [S -> S]]
  PROVE  \E f \in [0..m -> S] : f[0] = a /\ \A i \in 1..m : f[i] = step[i][f[i - 1]]
<1> DEFINE Upto(n, f) == /\ f \in [0..n -> S] /\ f[0] = a
                         /\ \A i \in 1..n : f[i] = step[i][f[i - 1]]
           N == {n \in Nat : n <= m => \E f : Upto(n, f)}
<1>1. 0 \in N
  <2>1. Upto(0, [i \in 0..0 |-> a])
    OBVIOUS
  <2> HIDE DEF Upto
  <2> QED  BY <2>1
<1>2. ASSUME NEW n \in Nat, n \in N PROVE n + 1 \in N
  <2> SUFFICES ASSUME n + 1 <= m PROVE \E f : Upto(n + 1, f)
    OBVIOUS
  <2>1. PICK f : Upto(n, f)
    <3> HIDE DEF Upto
    <3> QED  BY <1>2
  <2>2. f[n] \in S /\ n + 1 \in 1..m
    BY <2>1
  <2>3. PICK x \in S : x = step[n + 1][f[n]]
    BY <2>2
  <2> DEFINE g == [i \in 0..(n + 1) |-> IF i = n + 1 THEN x ELSE f[i]]
  <2>4. g \in [0..(n + 1) -> S] /\ g[0] = a
    BY <2>1, <2>3
  <2>5. ASSUME NEW i \in 1..(n + 1) PROVE g[i] = step[i][g[i - 1]]
    <3>1. i - 1 \in 0..n /\ g[i - 1] = f[i - 1]
      OBVIOUS
    <3>2. CASE i = n + 1
      BY <2>3, <3>1, <3>2
    <3>3. CASE i # n + 1
      <4>1. i \in 1..n /\ g[i] = f[i]
        BY <3>3
      <4> QED  BY <2>1, <3>1, <4>1
    <3> QED  BY <3>2, <3>3
  <2>6. Upto(n + 1, g)
    <3> HIDE DEF g
    <3> QED  BY <2>4, <2>5
  <2> HIDE DEF Upto, g
  <2> QED  BY <2>6
<1>3. m \in N
  <2> HIDE DEF N
  <2> QED  BY <1>1, <1>2, InductionSet
<1>4. PICK f : Upto(m, f)
  <2> HIDE DEF Upto
  <2> QED  BY <1>3
<1> QED  BY <1>4

LEMMA PowerIs ==
  /\ Power[0] = 1
  /\ \A k \in 1..8 : Power[k] = Power[k - 1] * Byte
  /\ \A k \in 0..8 : Power[k] \in Nat /\ Power[k] > 0
<1> DEFINE step == [i \in 1..8 |-> [x \in Nat |-> x * Byte]]
<1>1. PICK f \in [0..8 -> Nat] : f[0] = 1 /\ \A i \in 1..8 : f[i] = step[i][f[i - 1]]
  <2>1. step \in [1..8 -> [Nat -> Nat]]
    BY CodecAssumption
  <2>2. 1 \in Nat /\ 8 \in Nat
    OBVIOUS
  <2>3. PICK S, m, a : S = Nat /\ m = 8 /\ a = 1
    OBVIOUS
  <2>4. a \in S /\ m \in Nat /\ step \in [1..m -> [S -> S]]
    BY <2>1, <2>3
  <2> HIDE DEF step
  <2>5. \E f \in [0..m -> S] : f[0] = a /\ \A i \in 1..m : f[i] = step[i][f[i - 1]]
    BY <2>4, RecursionExists
  <2> QED  BY <2>3, <2>5
<1>2. f = [k \in 0..8 |-> IF k = 0 THEN 1 ELSE f[k - 1] * Byte]
  <2>1. f = [k \in 0..8 |-> f[k]]
    BY <1>1
  <2>2. \A k \in 0..8 : f[k] = IF k = 0 THEN 1 ELSE f[k - 1] * Byte
    BY <1>1
  <2> QED  BY <2>1, <2>2
<1>3. Power = [k \in 0..8 |-> IF k = 0 THEN 1 ELSE Power[k - 1] * Byte]
  BY <1>2 DEF Power
<1> DEFINE P == {k \in Nat : k <= 8 => Power[k] \in Nat /\ Power[k] > 0}
<1>4. 0 \in P
  BY <1>3
<1>5. ASSUME NEW k \in Nat, k \in P PROVE k + 1 \in P
  <2> SUFFICES ASSUME k + 1 <= 8 PROVE Power[k + 1] \in Nat /\ Power[k + 1] > 0
    OBVIOUS
  <2>1. Power[k + 1] = Power[k] * Byte
    BY <1>3
  <2>2. PICK p \in Nat : p = Power[k] /\ p > 0
    BY <1>5
  <2>3. p * Byte \in Nat /\ p * Byte > 0
    BY <2>2, CodecAssumption
  <2> QED  BY <2>1, <2>2, <2>3
<1>6. Nat \subseteq P
  <2> HIDE DEF P
  <2> QED  BY <1>4, <1>5, InductionSet
<1>7. Power[0] = 1 /\ \A k \in 1..8 : Power[k] = Power[k - 1] * Byte
  BY <1>3
<1>8. \A k \in 0..8 : k \in P
  BY <1>6
<1> QED  BY <1>7, <1>8

IsRecursion(S, a, m, g, f) ==
  f \in [0..m -> S] /\ f[0] = a /\ \A i \in 1..m : f[i] = g[i][f[i - 1]]

LEMMA RecursionFor ==
  \A S, a, m, g : a \in S /\ m \in Nat /\ g \in [1..m -> [S -> S]]
                    => \E f : IsRecursion(S, a, m, g, f)
BY RecursionExists DEF IsRecursion

(* Whatever satisfies the recursion stays in a set its step does not leave.   *)
LEMMA RecursionStays ==
  ASSUME NEW S, NEW m \in Nat, NEW f, f = [i \in 0..m |-> f[i]], f[0] \in S,
         \A i \in 1..m : f[i - 1] \in S => f[i] \in S
  PROVE  f \in [0..m -> S]
<1> DEFINE P == {n \in Nat : n <= m => f[n] \in S}
<1>1. 0 \in P
  OBVIOUS
<1>2. ASSUME NEW n \in Nat, n \in P PROVE n + 1 \in P
  <2> SUFFICES ASSUME n + 1 <= m PROVE f[n + 1] \in S
    OBVIOUS
  <2>1. n + 1 \in 1..m /\ (n + 1) - 1 = n /\ f[n] \in S
    BY <1>2
  <2>2. f[(n + 1) - 1] \in S => f[n + 1] \in S
    BY <2>1
  <2> QED  BY <2>1, <2>2
<1>3. Nat \subseteq P
  <2> HIDE DEF P
  <2> QED  BY <1>1, <1>2, InductionSet
<1>4. \A i \in 0..m : i \in P
  BY <1>3
<1> QED  BY <1>4

(* The partial sums of Number.                                                *)
IsDivided(n, p, b, d, e, f) ==
  /\ d \in Nat /\ e \in Nat /\ f \in Nat
  /\ d = n \div p /\ e = n \div (p * b) /\ f = d % b /\ d = b * e + f

LEMMA DivideAgain ==
  \A n, p, b : n \in Nat /\ p \in Nat /\ b \in Nat /\ p > 0 /\ b > 0
                  => \E d, e, f : IsDivided(n, p, b, d, e, f)
<1> SUFFICES ASSUME NEW n \in Nat, NEW p \in Nat, p > 0, NEW b \in Nat, b > 0
             PROVE  \E d, e, f : IsDivided(n, p, b, d, e, f)
  OBVIOUS
<1>1. PICK d \in Nat, e \in Nat, f \in Nat :
        /\ d = n \div p /\ e = n \div (p * b) /\ f = d % b /\ f < b
        /\ d = b * e + f
  BY DivideTwice, ZenonT(30)
<1>2. IsDivided(n, p, b, d, e, f)
  BY <1>1 DEF IsDivided
<1> QED  BY <1>2

LEMMA SumExists ==
  ASSUME NEW b \in Seq(Octet), Len(b) <= 8
  PROVE  \E f : f = [i \in 0..Len(b) |-> IF i = 0 THEN 0 ELSE f[i - 1] + b[i] * Power[i - 1]]
<1> DEFINE step == [i \in 1..Len(b) |-> [x \in Nat |-> x + b[i] * Power[i - 1]]]
<1>0. Len(b) \in Nat
  OBVIOUS
<1>1. PICK f \in [0..Len(b) -> Nat] : f[0] = 0 /\ \A i \in 1..Len(b) : f[i] = step[i][f[i - 1]]
  <2>1. step \in [1..Len(b) -> [Nat -> Nat]]
    <3> SUFFICES ASSUME NEW i \in 1..Len(b), NEW x \in Nat PROVE x + b[i] * Power[i - 1] \in Nat
      OBVIOUS
    <3>1. b[i] \in Nat
      BY CodecAssumption DEF Octet
    <3>2. Power[i - 1] \in Nat
      <4>1. i - 1 \in 0..8
        BY <1>0
      <4> QED  BY <4>1, PowerIs
    <3>3. b[i] * Power[i - 1] \in Nat
      BY <3>1, <3>2
    <3> QED  BY <3>3
  <2> HIDE DEF step
  <2>3. PICK S, m, a, g : S = Nat /\ m = Len(b) /\ a = 0 /\ g = step
    OBVIOUS
  <2>4. a \in S /\ m \in Nat /\ g \in [1..m -> [S -> S]]
    BY <1>0, <2>1, <2>3
  <2>5. \E f : IsRecursion(S, a, m, g, f)
    BY <2>4, RecursionFor
  <2> QED  BY <2>3, <2>5 DEF IsRecursion
<1>2. f = [i \in 0..Len(b) |-> IF i = 0 THEN 0 ELSE f[i - 1] + b[i] * Power[i - 1]]
  <2>1. f = [i \in 0..Len(b) |-> f[i]]
    BY <1>1
  <2>2. ASSUME NEW i \in 1..Len(b) PROVE f[i] = f[i - 1] + b[i] * Power[i - 1]
    <3>1. i - 1 \in 0..Len(b)
      BY <1>0
    <3>2. f[i - 1] \in Nat
      BY <1>1, <3>1
    <3>3. step[i][f[i - 1]] = f[i - 1] + b[i] * Power[i - 1]
      BY <3>2
    <3> QED  BY <1>1, <3>3
  <2>3. \A i \in 0..Len(b) : f[i] = IF i = 0 THEN 0 ELSE f[i - 1] + b[i] * Power[i - 1]
    BY <1>0, <1>1, <2>2
  <2> QED  BY <2>1, <2>3
<1> QED  BY <1>2

LEMMA NumberIs ==
  ASSUME NEW b \in Seq(Octet), Len(b) <= 8
  PROVE  \E low \in [0..Len(b) -> Nat] :
           /\ low[0] = 0 /\ Number(b) = low[Len(b)]
           /\ \A i \in 1..Len(b) : low[i] = low[i - 1] + b[i] * Power[i - 1]
<1> DEFINE low == CHOOSE f : f = [i \in 0..Len(b) |-> IF i = 0 THEN 0
        ELSE f[i - 1] + b[i] * Power[i - 1]]
<1>0. Len(b) \in Nat
  OBVIOUS
<1>3. low = [i \in 0..Len(b) |-> IF i = 0 THEN 0 ELSE low[i - 1] + b[i] * Power[i - 1]]
  BY SumExists
<1>4. Number(b) = low[Len(b)]
  BY DEF Number
<1> HIDE DEF low
<1>5. low[0] = 0 /\ low = [i \in 0..Len(b) |-> low[i]]
  BY <1>0, <1>3
<1>6. ASSUME NEW i \in 1..Len(b) PROVE low[i] = low[i - 1] + b[i] * Power[i - 1]
  BY <1>0, <1>3
<1>7. ASSUME NEW i \in 1..Len(b), low[i - 1] \in Nat PROVE low[i] \in Nat
  <2>1. b[i] \in Nat
    BY CodecAssumption DEF Octet
  <2>2. Power[i - 1] \in Nat
    <3>1. i - 1 \in 0..8
      BY <1>0
    <3> QED  BY <3>1, PowerIs
  <2>3. b[i] * Power[i - 1] \in Nat
    BY <2>1, <2>2
  <2> QED  BY <1>6, <1>7, <2>3
<1>8. low \in [0..Len(b) -> Nat]
  <2>1. PICK S, m, f : S = Nat /\ m = Len(b) /\ f = low
    OBVIOUS
  <2>2. m \in Nat /\ f = [i \in 0..m |-> f[i]] /\ f[0] \in S
    BY <1>0, <1>5, <2>1
  <2>3. \A i \in 1..m : f[i - 1] \in S => f[i] \in S
    BY <1>7, <2>1
  <2>4. f \in [0..m -> S]
    BY <2>2, <2>3, RecursionStays
  <2> QED  BY <2>1, <2>4
<1> QED  BY <1>4, <1>5, <1>6, <1>8

LEMMA NumberType ==
  ASSUME NEW b \in Seq(Octet), Len(b) <= 8
  PROVE  Number(b) \in Nat
<1>1. Len(b) \in 0..Len(b)
  OBVIOUS
<1> QED  BY <1>1, NumberIs

LEMMA DigitsIs ==
  ASSUME NEW width \in 0..8, NEW n \in Nat
  PROVE  /\ Digits(width, n) \in Seq(Octet) /\ Len(Digits(width, n)) = width
         /\ \A i \in 1..width : Digits(width, n)[i] = (n \div Power[i - 1]) % Byte
<1>1. ASSUME NEW i \in 1..width PROVE (n \div Power[i - 1]) % Byte \in Octet
  <2>1. PICK p \in Nat : p = Power[i - 1] /\ p > 0
    BY PowerIs
  <2>2. PICK d \in Nat : d = n \div p
    BY <2>1, DivideIs
  <2>3. d % Byte \in 0..(Byte - 1)
    BY CodecAssumption
  <2> QED  BY <2>1, <2>2, <2>3 DEF Octet
<1>2. Digits(width, n) \in [1..width -> Octet]
  BY <1>1 DEF Digits
<1> QED  BY <1>2 DEF Digits

(* A number comes back from its bytes if its width can hold it.               *)
LEMMA NumberOfDigits ==
  ASSUME NEW width \in 0..8, NEW n \in 0..(Power[width] - 1)
  PROVE  Number(Digits(width, n)) = n
<1>0. n \in Nat /\ n < Power[width] /\ Power[width] \in Nat /\ width \in Nat
  BY PowerIs
<1>1. PICK b \in Seq(Octet) : /\ b = Digits(width, n) /\ Len(b) = width
                               /\ \A i \in 1..width : b[i] = (n \div Power[i - 1]) % Byte
  BY <1>0, DigitsIs
<1>2. PICK low \in [0..width -> Nat] :
        /\ low[0] = 0 /\ Number(b) = low[width]
        /\ \A i \in 1..width : low[i] = low[i - 1] + b[i] * Power[i - 1]
  BY <1>1, NumberIs
<1> DEFINE P == {k \in Nat : k <= width => \E d \in Nat : /\ d = n \div Power[k]
                                                           /\ n = low[k] + d * Power[k]}
<1>3. 0 \in P
  <2>1. PICK d \in Nat, r \in Nat : d = n \div 1 /\ r < 1 /\ n = 1 * d + r
    BY <1>0, DivideIs
  <2>2. Power[0] = 1
    BY PowerIs
  <2> QED  BY <1>2, <2>1, <2>2
<1>4. ASSUME NEW k \in Nat, k \in P PROVE k + 1 \in P
  <2> SUFFICES ASSUME k + 1 <= width
               PROVE  \E e \in Nat : e = n \div Power[k + 1] /\ n = low[k + 1] + e * Power[k + 1]
    OBVIOUS
  <2>1. PICK p \in Nat : p = Power[k] /\ p > 0 /\ Power[k + 1] = p * Byte
    <3>1. k \in 0..8 /\ k + 1 \in 1..8 /\ (k + 1) - 1 = k
      BY <1>0
    <3> QED  BY <3>1, PowerIs
  <2>2. PICK d \in Nat, e \in Nat, f \in Nat :
          /\ d = n \div p /\ e = n \div (p * Byte) /\ f = d % Byte /\ d = Byte * e + f
    <3>1. PICK c \in Nat : c = Byte /\ c > 0
      BY CodecAssumption
    <3>2. \E d, e, f : IsDivided(n, p, c, d, e, f)
      BY <1>0, <2>1, <3>1, DivideAgain
    <3> QED  BY <3>1, <3>2 DEF IsDivided
  <2>3. n = low[k] + d * p
    BY <1>4, <2>1, <2>2
  <2>4. low[k + 1] = low[k] + f * p
    <3>1. k + 1 \in 1..width /\ (k + 1) - 1 = k
      BY <1>0
    <3>2. b[k + 1] = f
      BY <1>1, <2>1, <2>2, <3>1
    <3> QED  BY <1>2, <2>1, <3>1, <3>2
  <2>5. (Byte * e + f) * p = e * (p * Byte) + f * p
    BY <2>1, CodecAssumption, SMTT(30)
  <2>6. low[k] \in Nat /\ low[k + 1] \in Nat
    BY <1>0, <1>2
  <2>7. n = low[k + 1] + e * (p * Byte)
    <3>1. PICK x \in Nat, y \in Nat : x = f * p /\ y = e * (p * Byte)
      <4>1. Byte \in Nat
        BY CodecAssumption
      <4>2. p * Byte \in Nat /\ f * p \in Nat
        BY <4>1
      <4>3. e * (p * Byte) \in Nat
        BY <4>2
      <4> QED  BY <4>2, <4>3
    <3>2. d * p = y + x
      BY <2>2, <2>5, <3>1
    <3>3. low[k + 1] = low[k] + x /\ n = low[k] + (y + x)
      BY <2>3, <2>4, <3>1, <3>2
    <3>4. n = low[k + 1] + y
      BY <2>6, <3>3
    <3> QED  BY <3>1, <3>4
  <2> QED  BY <2>1, <2>2, <2>7
<1>5. width \in P
  <2> HIDE DEF P
  <2> QED  BY <1>0, <1>3, <1>4, InductionSet
<1>6. PICK d \in Nat : d = n \div Power[width] /\ n = low[width] + d * Power[width]
  BY <1>0, <1>5
<1>7. d = 0
  <2>1. PICK p \in Nat : p = Power[width] /\ n < p
    BY <1>0
  <2>2. low[width] \in Nat
    BY <1>0, <1>2
  <2>3. d # 0 => d * p >= p
    BY <2>1
  <2>4. d * p \in Nat
    BY <2>1
  <2> QED  BY <1>0, <1>6, <2>1, <2>2, <2>3, <2>4
<1>8. n = low[width]
  BY <1>0, <1>2, <1>6, <1>7
<1> QED  BY <1>1, <1>2, <1>8

-----------------------------------------------------------------------------
(* The writer of a packet.                                                    *)
(* The states of a BufferWriter of MakeSendBuffer, from the header on.        *)
Writers == {w \in [bytes : Seq(Octet), ok : BOOLEAN] :
              HeaderSize <= Len(w.bytes) /\ Len(w.bytes) <= AllocSize}

(* u is a writer that went on from w.                                         *)
Grows(w, u) == /\ u \in Writers /\ Len(w.bytes) <= Len(u.bytes) /\ (u.ok => w.ok)
               /\ \A i \in 1..Len(w.bytes) : u.bytes[i] = w.bytes[i]

(* u has put bs behind w.                                                     *)
Puts(w, u, bs) == /\ Len(u.bytes) = Len(w.bytes) + Len(bs)
                  /\ \A i \in 1..Len(bs) : u.bytes[Len(w.bytes) + i] = bs[i]

LEMMA WriterIs ==
  ASSUME NEW w \in Writers
  PROVE  /\ w.bytes \in Seq(Octet) /\ w.ok \in BOOLEAN /\ Len(w.bytes) \in Nat
         /\ HeaderSize <= Len(w.bytes) /\ Len(w.bytes) <= AllocSize
         /\ w = [bytes |-> w.bytes, ok |-> w.ok]
<1>1. w.bytes \in Seq(Octet) /\ w.ok \in BOOLEAN /\ w = [bytes |-> w.bytes, ok |-> w.ok]
  BY DEF Writers
<1>2. HeaderSize <= Len(w.bytes) /\ Len(w.bytes) <= AllocSize
  BY DEF Writers
<1>3. Len(w.bytes) \in Nat
  BY <1>1
<1> QED  BY <1>1, <1>2, <1>3

LEMMA GrowsSame ==
  ASSUME NEW w \in Writers
  PROVE  Grows(w, w)
BY WriterIs DEF Grows

LEMMA GrowsOn ==
  ASSUME NEW w \in Writers, NEW u, NEW x, Grows(w, u), Grows(u, x)
  PROVE  Grows(w, x)
<1>1. Len(w.bytes) \in Nat /\ Len(u.bytes) \in Nat /\ Len(x.bytes) \in Nat
  BY WriterIs DEF Grows
<1>2. Len(w.bytes) <= Len(x.bytes) /\ (x.ok => w.ok) /\ x \in Writers
  BY <1>1 DEF Grows
<1>3. ASSUME NEW i \in 1..Len(w.bytes) PROVE x.bytes[i] = w.bytes[i]
  <2>1. i \in 1..Len(u.bytes)
    BY <1>1 DEF Grows
  <2> QED  BY <2>1 DEF Grows
<1> QED  BY <1>2, <1>3 DEF Grows

LEMMA WriteIs ==
  ASSUME NEW w \in Writers, NEW bs \in Seq(Octet), NEW u, u = Write(w, bs)
  PROVE  Grows(w, u) /\ (u.ok => Puts(w, u, bs))
<1>1. /\ w.bytes \in Seq(Octet) /\ w.ok \in BOOLEAN /\ Len(w.bytes) \in Nat
      /\ HeaderSize <= Len(w.bytes) /\ Len(w.bytes) <= AllocSize
      /\ w = [bytes |-> w.bytes, ok |-> w.ok]
  BY WriterIs
<1>2. CASE w.ok /\ Len(w.bytes) + Len(bs) <= AllocSize
  <2>1. u = [bytes |-> w.bytes \o bs, ok |-> TRUE]
    BY <1>1, <1>2 DEF Write
  <2>2. /\ w.bytes \o bs \in Seq(Octet) /\ Len(w.bytes \o bs) = Len(w.bytes) + Len(bs)
        /\ \A i \in 1..Len(w.bytes) : (w.bytes \o bs)[i] = w.bytes[i]
        /\ \A i \in 1..Len(bs) : (w.bytes \o bs)[Len(w.bytes) + i] = bs[i]
    <3>1. w.bytes \o bs \in Seq(Octet) /\ Len(w.bytes \o bs) = Len(w.bytes) + Len(bs)
      BY <1>1
    <3>2. ASSUME NEW i \in 1..Len(w.bytes) PROVE (w.bytes \o bs)[i] = w.bytes[i]
      BY <1>1
    <3>3. ASSUME NEW i \in 1..Len(bs) PROVE (w.bytes \o bs)[Len(w.bytes) + i] = bs[i]
      BY <1>1
    <3> QED  BY <3>1, <3>2, <3>3
  <2>3. PICK c : c = w.bytes \o bs
    OBVIOUS
  <2>4. Len(c) = Len(w.bytes) + Len(bs) /\ c \in Seq(Octet) /\ Len(bs) \in Nat
    BY <2>2, <2>3
  <2>5. u \in Writers
    <3>1. HeaderSize <= Len(c) /\ Len(c) <= AllocSize
      BY <1>1, <1>2, <2>4 DEF HeaderSize
    <3>2. u \in [bytes : Seq(Octet), ok : BOOLEAN] /\ u.bytes = c
      BY <2>1, <2>3, <2>4
    <3> QED  BY <3>1, <3>2 DEF Writers
  <2>6. Grows(w, u)
    BY <1>1, <1>2, <2>1, <2>2, <2>3, <2>4, <2>5 DEF Grows
  <2>7. Puts(w, u, bs)
    BY <2>1, <2>2, <2>3, <2>4, SMTT(30) DEF Puts
  <2> QED  BY <2>6, <2>7
<1>3. CASE ~ (w.ok /\ Len(w.bytes) + Len(bs) <= AllocSize)
  <2>1. u = [bytes |-> w.bytes, ok |-> FALSE]
    BY <1>1, <1>3 DEF Write
  <2>2. u \in Writers
    BY <1>1, <2>1 DEF Writers
  <2>3. Grows(w, u)
    BY <1>1, <2>1, <2>2 DEF Grows
  <2> QED  BY <2>1, <2>3
<1> QED  BY <1>2, <1>3

(* Writers that went on one from the other.                                   *)
LEMMA GrowsChain ==
  ASSUME NEW n \in Nat, NEW u \in [0..n -> Writers],
         \A i \in 1..n : Grows(u[i - 1], u[i])
  PROVE  \A i \in 0..n : Grows(u[0], u[i]) /\ Grows(u[i], u[n])
<1> DEFINE P == {j \in Nat : j <= n => \A i \in 0..j : Grows(u[i], u[j])}
<1>1. 0 \in P
  <2>1. Grows(u[0], u[0])
    BY GrowsSame
  <2> QED  BY <2>1
<1>2. ASSUME NEW j \in Nat, j \in P PROVE j + 1 \in P
  <2> SUFFICES ASSUME j + 1 <= n, NEW i \in 0..(j + 1) PROVE Grows(u[i], u[j + 1])
    OBVIOUS
  <2>1. j + 1 \in 1..n /\ (j + 1) - 1 = j
    OBVIOUS
  <2>2. Grows(u[j], u[j + 1])
    BY <2>1
  <2>3. CASE i = j + 1
    BY <2>1, <2>3, GrowsSame
  <2>4. CASE i # j + 1
    <3>1. Grows(u[i], u[j])
      BY <1>2, <2>4
    <3>2. PICK w, x, y : w = u[i] /\ x = u[j] /\ y = u[j + 1]
      BY <2>1
    <3>3. Grows(w, y)
      <4>1. w \in Writers
        BY <2>1, <3>2
      <4> QED  BY <2>2, <3>1, <3>2, <4>1, GrowsOn
    <3> QED  BY <3>2, <3>3
  <2> QED  BY <2>3, <2>4
<1>3. Nat \subseteq P
  <2> HIDE DEF P
  <2> QED  BY <1>1, <1>2, InductionSet
<1>4. ASSUME NEW j \in 0..n, NEW i \in 0..j PROVE Grows(u[i], u[j])
  <2>1. j \in P
    BY <1>3
  <2> QED  BY <2>1
<1> QED  BY <1>4

LEMMA HeaderLarge == Byte * Byte \in Nat /\ Byte * Byte > 1
<1>1. PICK b \in Nat : b = Byte /\ b > 1
  BY CodecAssumption
<1>2. b * b >= 2 * b
  BY <1>1
<1> QED  BY <1>1, <1>2

LEMMA UInt16Is == UInt16 = Power[2] /\ UInt16 \in Nat /\ UInt16 > 1 /\ Power[2] - 1 \in Nat
<1>1. Power[1] = Power[0] * Byte /\ Power[2] = Power[1] * Byte /\ Power[0] = 1
  <2>1. 1 \in 1..8 /\ 2 \in 1..8 /\ 1 - 1 = 0 /\ 2 - 1 = 1
    OBVIOUS
  <2> QED  BY <2>1, PowerIs
<1>2. Power[1] = Byte
  BY <1>1, CodecAssumption
<1>3. UInt16 = Power[2]
  BY <1>1, <1>2 DEF UInt16
<1>4. UInt16 \in Nat /\ UInt16 > 1
  BY CodecAssumption, HeaderLarge DEF UInt16
<1> QED  BY <1>3, <1>4

(* Fields outside lists, and the fields that the packets have.                *)
IsFlat(f) == \/ f.kind = "string"
             \/ f.kind = "scalar" /\ f.width \in 1..8
IsItemType(item) == Len(item) \in Nat /\ Len(item) > 0 /\ \A i \in 1..Len(item) : IsFlat(item[i])
IsField(f) == IsFlat(f) \/ (f.kind = "list" /\ IsItemType(f.item))
Fits(f, v) == IF f.kind = "list" THEN IsList(f.item, v) ELSE IsValue(f, v)

LEMMA StringIs ==
  ASSUME NEW s \in Seq(Octet), Len(s) < UInt16
  PROVE  /\ Len(s) % UInt16 = Len(s) /\ SubSeq(s, 1, Len(s) % UInt16) = s
         /\ Len(s) \in 0..(Power[2] - 1) /\ Len(s) \in Nat
         /\ Digits(2, Len(s)) \in Seq(Octet) /\ Len(Digits(2, Len(s))) = 2
<1>1. Len(s) \in Nat /\ UInt16 \in Nat /\ UInt16 = Power[2]
  BY UInt16Is
<1>2. Len(s) % UInt16 = Len(s)
  <2>1. Len(s) = UInt16 * 0 + Len(s)
    BY <1>1
  <2>2. PICK n \in Nat, q \in Nat : n = Len(s) /\ q = UInt16 /\ n < q /\ q > 0 /\ n = q * 0 + n
    BY <1>1, <2>1
  <2>3. n = n % q
    BY <2>2, DivideUnique
  <2> QED  BY <2>2, <2>3
<1>3. SubSeq(s, 1, Len(s)) = s
  OBVIOUS
<1>4. Digits(2, Len(s)) \in Seq(Octet) /\ Len(Digits(2, Len(s))) = 2
  BY <1>1, DigitsIs
<1> QED  BY <1>1, <1>2, <1>3, <1>4

LEMMA ScalarIs ==
  ASSUME NEW f, IsFlat(f), f.kind # "string", NEW v, IsValue(f, v)
  PROVE  /\ f.width \in 1..8 /\ v \in Nat /\ v \in 0..(Power[f.width] - 1)
         /\ Digits(f.width, v) \in Seq(Octet) /\ Len(Digits(f.width, v)) = f.width
<1>1. f.width \in 1..8 /\ v \in 0..(Power[f.width] - 1)
  BY DEF IsFlat, IsValue
<1>2. PICK k \in 0..8 : k = f.width
  BY <1>1
<1>3. v \in Nat
  BY <1>1
<1>4. Digits(k, v) \in Seq(Octet) /\ Len(Digits(k, v)) = k
  BY <1>3, DigitsIs
<1> QED  BY <1>1, <1>2, <1>3, <1>4

LEMMA WriteStringIs ==
  ASSUME NEW w \in Writers, NEW s \in Seq(Octet), Len(s) < UInt16
  PROVE  /\ WriteString(w, s) = Write(Write(w, Digits(2, Len(s))), s)
         /\ Grows(w, Write(w, Digits(2, Len(s))))
         /\ Grows(Write(w, Digits(2, Len(s))), WriteString(w, s))
         /\ Grows(w, WriteString(w, s))
<1>0. PICK bs \in Seq(Octet) : bs = Digits(2, Len(s))
  BY StringIs
<1>1. PICK x : x = Write(w, bs) /\ bs = Digits(2, Len(s))
  BY <1>0
<1>2. Grows(w, x)
  BY <1>1, WriteIs
<1>3. x \in Writers
  BY <1>2 DEF Grows
<1>4. PICK u : u = Write(x, s)
  OBVIOUS
<1>5. Grows(x, u)
  BY <1>3, <1>4, WriteIs
<1>6. u = WriteString(w, s)
  <2>1. Len(s) % UInt16 = Len(s) /\ SubSeq(s, 1, Len(s) % UInt16) = s
    BY StringIs
  <2> QED  BY <1>1, <1>4, <2>1 DEF WriteString
<1>7. Grows(w, u)
  BY <1>2, <1>5, GrowsOn
<1> QED  BY <1>1, <1>2, <1>4, <1>5, <1>6, <1>7

(* A field is at least one byte.                                              *)
LEMMA WriteFieldIs ==
  ASSUME NEW w \in Writers, NEW f, IsFlat(f), NEW v, IsValue(f, v), NEW u, u = WriteField(w, f, v)
  PROVE  Grows(w, u) /\ (u.ok => Len(u.bytes) > Len(w.bytes))
<1>1. CASE f.kind = "string"
  <2>1. v \in Seq(Octet) /\ Len(v) < UInt16
    BY <1>1 DEF IsValue
  <2>2. u = WriteString(w, v)
    BY <1>1 DEF WriteField
  <2>3. PICK x, bs : x = Write(w, bs) /\ bs = Digits(2, Len(v))
    OBVIOUS
  <2>4. Grows(w, x) /\ Grows(x, u) /\ Grows(w, u)
    BY <2>1, <2>2, <2>3, WriteStringIs
  <2>5. bs \in Seq(Octet) /\ Len(bs) = 2
    BY <2>1, <2>3, StringIs
  <2>6. x.ok => Puts(w, x, bs)
    BY <2>3, <2>5, WriteIs
  <2>7. Len(w.bytes) \in Nat /\ Len(x.bytes) \in Nat /\ Len(u.bytes) \in Nat
    BY <2>4, WriterIs DEF Grows
  <2> QED  BY <2>4, <2>5, <2>6, <2>7 DEF Grows, Puts
<1>2. CASE f.kind # "string"
  <2>1. PICK bs : bs = Digits(f.width, v)
    OBVIOUS
  <2>2. bs \in Seq(Octet) /\ Len(bs) = f.width /\ f.width \in 1..8
    BY <1>2, <2>1, ScalarIs
  <2>3. u = Write(w, bs)
    BY <1>2, <2>1 DEF WriteField
  <2>4. Grows(w, u) /\ (u.ok => Puts(w, u, bs))
    BY <2>2, <2>3, WriteIs
  <2>5. Len(w.bytes) \in Nat /\ Len(u.bytes) \in Nat
    BY <2>4, WriterIs DEF Grows
  <2> QED  BY <2>2, <2>4, <2>5 DEF Puts
<1> QED  BY <1>1, <1>2

LEMMA WriteItemStep ==
  ASSUME NEW w \in Writers, NEW fields, IsItemType(fields), NEW v, IsItem(fields, v),
         NEW i \in 1..Len(fields), NEW x \in Writers
  PROVE  WriteField(x, fields[i], v[i]) \in Writers
<1>1. IsFlat(fields[i]) /\ IsValue(fields[i], v[i])
  BY DEF IsItemType, IsItem
<1>2. PICK f, y, u : f = fields[i] /\ y = v[i] /\ u = WriteField(x, f, y)
  OBVIOUS
<1>3. Grows(x, u)
  BY <1>1, <1>2, WriteFieldIs
<1> QED  BY <1>2, <1>3 DEF Grows

LEMMA WriteItemStarts ==
  ASSUME NEW w \in Writers, NEW fields, IsItemType(fields), NEW v, IsItem(fields, v)
  PROVE  Len(fields) \in Nat /\ w \in Writers
BY DEF IsItemType

LEMMA WriteItemExists ==
  ASSUME NEW w \in Writers, NEW fields, IsItemType(fields), NEW v, IsItem(fields, v)
  PROVE  \E f : f = [i \in 0..Len(fields) |-> IF i = 0 THEN w
       ELSE WriteField(f[i - 1], fields[i], v[i])]
<1> DEFINE step == [i \in 1..Len(fields) |-> [x \in Writers |-> WriteField(x, fields[i], v[i])]]
<1>0. Len(fields) \in Nat /\ w \in Writers
  BY WriteItemStarts
<1>1. PICK f \in [0..Len(fields) -> Writers] : f[0] = w /\ \A i \in 1..Len(fields) :
        f[i] = step[i][f[i - 1]]
  <2>1. step \in [1..Len(fields) -> [Writers -> Writers]]
    BY WriteItemStep
  <2> HIDE DEF step
  <2>2. PICK T, n, c, g : T = Writers /\ n = Len(fields) /\ c = w /\ g = step
    OBVIOUS
  <2>3. c \in T /\ n \in Nat /\ g \in [1..n -> [T -> T]]
    BY <1>0, <2>1, <2>2
  <2>4. \E f : IsRecursion(T, c, n, g, f)
    BY <2>3, RecursionFor
  <2> QED  BY <2>2, <2>4 DEF IsRecursion
<1>2. ASSUME NEW i \in 1..Len(fields) PROVE f[i] = WriteField(f[i - 1], fields[i], v[i])
  <2>1. i - 1 \in 0..Len(fields)
    BY <1>0
  <2>2. f[i - 1] \in Writers
    BY <1>1, <2>1
  <2>3. step[i][f[i - 1]] = WriteField(f[i - 1], fields[i], v[i])
    BY <2>2
  <2> QED  BY <1>1, <2>3
<1>3. f = [i \in 0..Len(fields) |-> f[i]]
  BY <1>1
<1>4. \A i \in 0..Len(fields) : f[i] = IF i = 0 THEN w ELSE WriteField(f[i - 1], fields[i], v[i])
  BY <1>0, <1>1, <1>2
<1> HIDE DEF step
<1>5. f = [i \in 0..Len(fields) |-> IF i = 0 THEN w ELSE WriteField(f[i - 1], fields[i], v[i])]
  BY <1>3, <1>4
<1> QED  BY <1>5

(* The writers of an item, field by field.                                    *)
LEMMA WriteItemIs ==
  ASSUME NEW w \in Writers, NEW fields, IsItemType(fields), NEW v, IsItem(fields, v)
  PROVE  \E u \in [0..Len(fields) -> Writers] :
           /\ u[0] = w /\ WriteItem(w, fields, v) = u[Len(fields)]
           /\ \A i \in 1..Len(fields) : u[i] = WriteField(u[i - 1], fields[i], v[i])
<1> DEFINE u == CHOOSE f : f = [i \in 0..Len(fields) |-> IF i = 0 THEN w
        ELSE WriteField(f[i - 1], fields[i], v[i])]
<1>0. Len(fields) \in Nat /\ w \in Writers
  BY WriteItemStarts
<1>1. u = [i \in 0..Len(fields) |-> IF i = 0 THEN w ELSE WriteField(u[i - 1], fields[i], v[i])]
  <2>1. \E f : f = [i \in 0..Len(fields) |-> IF i = 0 THEN w
          ELSE WriteField(f[i - 1], fields[i], v[i])]
    BY WriteItemExists
  <2> QED  BY <2>1, Zenon
<1>2. WriteItem(w, fields, v) = u[Len(fields)]
  BY DEF WriteItem
<1> HIDE DEF u
<1>3. u[0] = w /\ u = [i \in 0..Len(fields) |-> u[i]]
  BY <1>0, <1>1
<1>4. ASSUME NEW i \in 1..Len(fields) PROVE u[i] = WriteField(u[i - 1], fields[i], v[i])
  BY <1>0, <1>1
<1>5. ASSUME NEW i \in 1..Len(fields), u[i - 1] \in Writers PROVE u[i] \in Writers
  <2>1. PICK x \in Writers : x = u[i - 1]
    BY <1>5
  <2>2. WriteField(x, fields[i], v[i]) \in Writers
    BY WriteItemStep
  <2> QED  BY <1>4, <2>1, <2>2
<1>6. u \in [0..Len(fields) -> Writers]
  <2>1. PICK T, n, f : T = Writers /\ n = Len(fields) /\ f = u
    OBVIOUS
  <2>2. n \in Nat /\ f = [i \in 0..n |-> f[i]] /\ f[0] \in T
    BY <1>0, <1>3, <2>1
  <2>3. \A i \in 1..n : f[i - 1] \in T => f[i] \in T
    BY <1>5, <2>1
  <2>4. f \in [0..n -> T]
    BY <2>2, <2>3, RecursionStays
  <2> QED  BY <2>1, <2>4
<1> QED  BY <1>2, <1>3, <1>4, <1>6

(* An item is at least one byte.                                              *)
LEMMA WriteItemGrows ==
  ASSUME NEW w \in Writers, NEW fields, IsItemType(fields), NEW v, IsItem(fields, v),
         NEW u \in [0..Len(fields) -> Writers], u[0] = w,
         \A i \in 1..Len(fields) : u[i] = WriteField(u[i - 1], fields[i], v[i])
  PROVE  /\ \A i \in 0..Len(fields) : Grows(u[0], u[i]) /\ Grows(u[i], u[Len(fields)])
         /\ \A i \in 1..Len(fields) : Grows(u[i - 1], u[i])
         /\ u[Len(fields)].ok => Len(u[Len(fields)].bytes) > Len(w.bytes)
<1>0. Len(fields) \in Nat /\ Len(fields) > 0
  BY DEF IsItemType
<1>1. ASSUME NEW i \in 1..Len(fields)
      PROVE  Grows(u[i - 1], u[i]) /\ (u[i].ok => Len(u[i].bytes) > Len(u[i - 1].bytes))
  <2>1. IsFlat(fields[i]) /\ IsValue(fields[i], v[i])
    BY DEF IsItemType, IsItem
  <2>2. i - 1 \in 0..Len(fields)
    BY <1>0
  <2>3. PICK f, y, z : f = fields[i] /\ y = v[i] /\ z = u[i]
    OBVIOUS
  <2>4. PICK x \in Writers : x = u[i - 1]
    BY <2>2
  <2>5. z = WriteField(x, f, y)
    BY <2>3, <2>4
  <2>6. Grows(x, z) /\ (z.ok => Len(z.bytes) > Len(x.bytes))
    BY <2>1, <2>3, <2>5, WriteFieldIs
  <2> QED  BY <2>3, <2>4, <2>6
<1>2. PICK n \in Nat : n = Len(fields) /\ n > 0
  BY <1>0
<1>3. \A i \in 0..n : Grows(u[0], u[i]) /\ Grows(u[i], u[n])
  BY <1>1, <1>2, GrowsChain
<1>4. u[n].ok => Len(u[n].bytes) > Len(w.bytes)
  <2>1. n \in 1..n /\ n - 1 \in 0..n /\ n \in 0..n
    BY <1>2
  <2>2. Grows(u[0], u[n - 1])
    BY <1>3, <2>1
  <2>3. u[n].ok => Len(u[n].bytes) > Len(u[n - 1].bytes)
    BY <1>1, <1>2, <2>1
  <2>4. Len(u[0].bytes) <= Len(u[n - 1].bytes)
    BY <2>2 DEF Grows
  <2>5. u[0] \in Writers /\ u[n - 1] \in Writers /\ u[n] \in Writers
    BY <1>2, <2>1
  <2>6. Len(u[0].bytes) \in Nat /\ Len(u[n - 1].bytes) \in Nat /\ Len(u[n].bytes) \in Nat
    BY <2>5, WriterIs
  <2> QED  BY <2>3, <2>4, <2>6, SMTT(30)
<1> QED  BY <1>1, <1>2, <1>3, <1>4

LEMMA ItemGrows ==
  ASSUME NEW w \in Writers, NEW fields, IsItemType(fields), NEW v, IsItem(fields, v),
         NEW u, u = WriteItem(w, fields, v)
  PROVE  Grows(w, u) /\ (u.ok => Len(u.bytes) > Len(w.bytes))
<1>1. PICK x \in [0..Len(fields) -> Writers] :
        /\ x[0] = w /\ u = x[Len(fields)]
        /\ \A i \in 1..Len(fields) : x[i] = WriteField(x[i - 1], fields[i], v[i])
  BY WriteItemIs
<1>2. /\ \A i \in 0..Len(fields) : Grows(x[0], x[i]) /\ Grows(x[i], x[Len(fields)])
      /\ x[Len(fields)].ok => Len(x[Len(fields)].bytes) > Len(w.bytes)
  BY <1>1, WriteItemGrows
<1>3. Len(fields) \in 0..Len(fields)
  BY DEF IsItemType
<1> QED  BY <1>1, <1>2, <1>3

LEMMA WriteListStep ==
  ASSUME NEW w \in Writers, NEW item, IsItemType(item), NEW v, IsList(item, v),
         NEW i \in 1..Len(v), NEW x \in Writers
  PROVE  WriteItem(x, item, v[i]) \in Writers
<1>1. IsItem(item, v[i])
  BY DEF IsList
<1>2. PICK y, u : y = v[i] /\ u = WriteItem(x, item, y)
  OBVIOUS
<1>3. Grows(x, u)
  BY <1>1, <1>2, ItemGrows
<1> QED  BY <1>2, <1>3 DEF Grows

LEMMA WriteListStarts ==
  ASSUME NEW w \in Writers, NEW item, IsItemType(item), NEW v, IsList(item, v)
  PROVE  Len(v) \in Nat /\ Write(w, Digits(2, Len(v) % UInt16)) \in Writers
<1>1. PICK n \in Nat : n = Len(v)
  BY DEF IsList
<1>2. PICK m \in Nat : m = n % UInt16
  BY UInt16Is
<1>3. PICK bs \in Seq(Octet) : bs = Digits(2, m)
  BY DigitsIs
<1>4. PICK u : u = Write(w, bs)
  OBVIOUS
<1>5. Grows(w, u)
  BY <1>4, WriteIs
<1> QED  BY <1>1, <1>2, <1>3, <1>4, <1>5 DEF Grows

LEMMA WriteListExists ==
  ASSUME NEW w \in Writers, NEW item, IsItemType(item), NEW v, IsList(item, v)
  PROVE  \E f : f = [i \in 0..Len(v) |-> IF i = 0 THEN Write(w, Digits(2, Len(v) % UInt16))
       ELSE WriteItem(f[i - 1], item, v[i])]
<1> DEFINE step == [i \in 1..Len(v) |-> [x \in Writers |-> WriteItem(x, item, v[i])]]
<1>0. Len(v) \in Nat /\ Write(w, Digits(2, Len(v) % UInt16)) \in Writers
  BY WriteListStarts
<1>1. PICK f \in [0..Len(v) -> Writers] : f[0] = Write(w, Digits(2, Len(v) % UInt16)) /\
        \A i \in 1..Len(v) : f[i] = step[i][f[i - 1]]
  <2>1. step \in [1..Len(v) -> [Writers -> Writers]]
    BY WriteListStep
  <2> HIDE DEF step
  <2>2. PICK T, n, c, g : T = Writers /\ n = Len(v) /\ c = Write(w, Digits(2, Len(v) % UInt16)) /\
          g = step
    OBVIOUS
  <2>3. c \in T /\ n \in Nat /\ g \in [1..n -> [T -> T]]
    BY <1>0, <2>1, <2>2
  <2>4. \E f : IsRecursion(T, c, n, g, f)
    BY <2>3, RecursionFor
  <2> QED  BY <2>2, <2>4 DEF IsRecursion
<1>2. ASSUME NEW i \in 1..Len(v) PROVE f[i] = WriteItem(f[i - 1], item, v[i])
  <2>1. i - 1 \in 0..Len(v)
    BY <1>0
  <2>2. f[i - 1] \in Writers
    BY <1>1, <2>1
  <2>3. step[i][f[i - 1]] = WriteItem(f[i - 1], item, v[i])
    BY <2>2
  <2> QED  BY <1>1, <2>3
<1>3. f = [i \in 0..Len(v) |-> f[i]]
  BY <1>1
<1>4. \A i \in 0..Len(v) : f[i] = IF i = 0 THEN Write(w, Digits(2, Len(v) % UInt16))
        ELSE WriteItem(f[i - 1], item, v[i])
  BY <1>0, <1>1, <1>2
<1> HIDE DEF step
<1>5. f = [i \in 0..Len(v) |-> IF i = 0 THEN Write(w, Digits(2, Len(v) % UInt16))
        ELSE WriteItem(f[i - 1], item, v[i])]
  BY <1>3, <1>4
<1> QED  BY <1>5

(* The writers of a list: its count, then item by item.                      *)
LEMMA WriteListIs ==
  ASSUME NEW w \in Writers, NEW item, IsItemType(item), NEW v, IsList(item, v)
  PROVE  \E u \in [0..Len(v) -> Writers] :
           /\ u[0] = Write(w, Digits(2, Len(v) % UInt16)) /\ WriteList(w, item, v) = u[Len(v)]
           /\ \A i \in 1..Len(v) : u[i] = WriteItem(u[i - 1], item, v[i])
<1> DEFINE u == CHOOSE f : f = [i \in 0..Len(v) |->
        IF i = 0 THEN Write(w, Digits(2, Len(v) % UInt16)) ELSE WriteItem(f[i - 1], item, v[i])]
<1>0. Len(v) \in Nat /\ Write(w, Digits(2, Len(v) % UInt16)) \in Writers
  BY WriteListStarts
<1>1. u = [i \in 0..Len(v) |-> IF i = 0 THEN Write(w, Digits(2, Len(v) % UInt16))
        ELSE WriteItem(u[i - 1], item, v[i])]
  BY WriteListExists
<1>2. WriteList(w, item, v) = u[Len(v)]
  BY DEF WriteList
<1> HIDE DEF u
<1>3. u[0] = Write(w, Digits(2, Len(v) % UInt16)) /\ u = [i \in 0..Len(v) |-> u[i]]
  BY <1>0, <1>1
<1>4. ASSUME NEW i \in 1..Len(v) PROVE u[i] = WriteItem(u[i - 1], item, v[i])
  BY <1>0, <1>1
<1>5. ASSUME NEW i \in 1..Len(v), u[i - 1] \in Writers PROVE u[i] \in Writers
  <2>1. PICK x \in Writers : x = u[i - 1]
    BY <1>5
  <2>2. WriteItem(x, item, v[i]) \in Writers
    BY WriteListStep
  <2> QED  BY <1>4, <2>1, <2>2
<1>6. u \in [0..Len(v) -> Writers]
  <2>1. PICK T, n, f : T = Writers /\ n = Len(v) /\ f = u
    OBVIOUS
  <2>2. n \in Nat /\ f = [i \in 0..n |-> f[i]] /\ f[0] \in T
    BY <1>0, <1>3, <2>1
  <2>3. \A i \in 1..n : f[i - 1] \in T => f[i] \in T
    BY <1>5, <2>1
  <2>4. f \in [0..n -> T]
    BY <2>2, <2>3, RecursionStays
  <2> QED  BY <2>1, <2>4
<1> QED  BY <1>2, <1>3, <1>4, <1>6

(* Every item takes room, so that a list that was written has a count of      *)
(* less than 16 bits.                                                         *)
LEMMA WriteListGrows ==
  ASSUME NEW w \in Writers, NEW item, IsItemType(item), NEW v, IsList(item, v),
         NEW u \in [0..Len(v) -> Writers], u[0] = Write(w, Digits(2, Len(v) % UInt16)),
         \A i \in 1..Len(v) : u[i] = WriteItem(u[i - 1], item, v[i])
  PROVE  /\ \A i \in 0..Len(v) : Grows(w, u[i]) /\ Grows(u[i], u[Len(v)])
         /\ \A i \in 1..Len(v) : Grows(u[i - 1], u[i])
         /\ u[Len(v)].ok => Len(v) < UInt16
<1>0. PICK n \in Nat : n = Len(v)
  BY DEF IsList
<1>1. ASSUME NEW i \in 1..n
      PROVE  Grows(u[i - 1], u[i]) /\ (u[i].ok => Len(u[i].bytes) > Len(u[i - 1].bytes))
  <2>1. IsItem(item, v[i])
    BY <1>0 DEF IsList
  <2>2. i - 1 \in 0..n
    BY <1>0
  <2>3. PICK y, z : y = v[i] /\ z = u[i]
    OBVIOUS
  <2>4. PICK x \in Writers : x = u[i - 1]
    BY <1>0, <2>2
  <2>5. z = WriteItem(x, item, y)
    BY <1>0, <2>3, <2>4
  <2>6. Grows(x, z) /\ (z.ok => Len(z.bytes) > Len(x.bytes))
    BY <2>1, <2>3, <2>5, ItemGrows
  <2> QED  BY <2>3, <2>4, <2>6
<1>2. u \in [0..n -> Writers]
  BY <1>0
<1>3. \A i \in 0..n : Grows(u[0], u[i]) /\ Grows(u[i], u[n])
  BY <1>1, <1>2, GrowsChain
<1>4. Grows(w, u[0])
  <2>1. PICK m \in Nat : m = n % UInt16
    BY UInt16Is
  <2>2. PICK bs \in Seq(Octet) : bs = Digits(2, m)
    BY DigitsIs
  <2>3. PICK x : x = Write(w, bs)
    OBVIOUS
  <2>4. Grows(w, x)
    BY <2>3, WriteIs
  <2> QED  BY <1>0, <2>1, <2>2, <2>3, <2>4
<1>5. ASSUME NEW i \in 0..n PROVE Grows(w, u[i])
  <2>1. PICK x, y : x = u[0] /\ y = u[i]
    OBVIOUS
  <2>2. Grows(w, x) /\ Grows(x, y)
    BY <1>3, <1>4, <2>1
  <2>3. Grows(w, y)
    BY <2>2, GrowsOn
  <2> QED  BY <2>1, <2>3
<1>6. ASSUME u[n].ok PROVE n < UInt16
  <2> DEFINE P == {k \in Nat : k <= n => Len(u[k].bytes) >= k}
  <2>1. 0 \in P
    <3>1. u[0] \in Writers
      BY <1>2
    <3>2. Len(u[0].bytes) \in Nat
      BY <3>1, WriterIs
    <3> QED  BY <3>2
  <2>2. ASSUME NEW k \in Nat, k \in P PROVE k + 1 \in P
    <3> SUFFICES ASSUME k + 1 <= n PROVE Len(u[k + 1].bytes) >= k + 1
      OBVIOUS
    <3>1. k + 1 \in 1..n /\ (k + 1) - 1 = k /\ k + 1 \in 0..n /\ k \in 0..n
      OBVIOUS
    <3>2. Grows(u[k + 1], u[n])
      BY <1>3, <3>1
    <3>3. u[k + 1].ok
      BY <1>6, <3>2 DEF Grows
    <3>4. Len(u[k + 1].bytes) > Len(u[(k + 1) - 1].bytes)
      BY <1>1, <3>1, <3>3
    <3>5. u[k] \in Writers /\ u[k + 1] \in Writers
      BY <1>2, <3>1
    <3>6. Len(u[k].bytes) \in Nat /\ Len(u[k + 1].bytes) \in Nat
      BY <3>5, WriterIs
    <3>7. Len(u[k].bytes) >= k
      BY <2>2
    <3> QED  BY <3>1, <3>4, <3>6, <3>7
  <2>3. n \in P
    <3> HIDE DEF P
    <3> QED  BY <2>1, <2>2, InductionSet
  <2>4. Len(u[n].bytes) >= n
    BY <2>3
  <2>5. u[n] \in Writers
    BY <1>2
  <2>6. Len(u[n].bytes) \in Nat /\ Len(u[n].bytes) <= AllocSize
    BY <2>5, WriterIs
  <2>7. AllocSize < UInt16 /\ AllocSize \in Nat /\ UInt16 \in Nat
    BY CodecAssumption, UInt16Is
  <2> QED  BY <2>4, <2>6, <2>7
<1> QED  BY <1>0, <1>1, <1>3, <1>5, <1>6

LEMMA ListGrows ==
  ASSUME NEW w \in Writers, NEW item, IsItemType(item), NEW v, IsList(item, v),
         NEW u, u = WriteList(w, item, v)
  PROVE  Grows(w, u)
<1>1. PICK x \in [0..Len(v) -> Writers] :
        /\ x[0] = Write(w, Digits(2, Len(v) % UInt16)) /\ u = x[Len(v)]
        /\ \A i \in 1..Len(v) : x[i] = WriteItem(x[i - 1], item, v[i])
  BY WriteListIs
<1>2. \A i \in 0..Len(v) : Grows(w, x[i]) /\ Grows(x[i], x[Len(v)])
  BY <1>1, WriteListGrows
<1>3. Len(v) \in 0..Len(v)
  BY DEF IsList
<1> QED  BY <1>1, <1>2, <1>3

(* The fields of a packet.                                                    *)
ArePacket(fields, v) == /\ Len(fields) \in Nat
                        /\ \A i \in 1..Len(fields) : IsField(fields[i]) /\ Fits(fields[i], v[i])
WriteAny(w, f, v) == IF f.kind = "list" THEN WriteList(w, f.item, v) ELSE WriteField(w, f, v)

LEMMA AnyGrows ==
  ASSUME NEW w \in Writers, NEW f, IsField(f), NEW v, Fits(f, v), NEW u, u = WriteAny(w, f, v)
  PROVE  Grows(w, u)
<1>1. CASE f.kind = "list"
  <2>1. PICK item : item = f.item
    OBVIOUS
  <2>2. IsItemType(item) /\ IsList(item, v) /\ u = WriteList(w, item, v)
    BY <1>1, <2>1 DEF IsField, IsFlat, Fits, WriteAny
  <2> QED  BY <2>2, ListGrows
<1>2. CASE f.kind # "list"
  <2>1. IsFlat(f) /\ IsValue(f, v) /\ u = WriteField(w, f, v)
    BY <1>2 DEF IsField, Fits, WriteAny
  <2> QED  BY <2>1, WriteFieldIs
<1> QED  BY <1>1, <1>2

LEMMA WriteFieldsStep ==
  ASSUME NEW w \in Writers, NEW fields, NEW v, ArePacket(fields, v),
         NEW i \in 1..Len(fields), NEW x \in Writers
  PROVE  WriteAny(x, fields[i], v[i]) \in Writers
<1>1. IsField(fields[i]) /\ Fits(fields[i], v[i])
  BY DEF ArePacket
<1>2. PICK f, y, u : f = fields[i] /\ y = v[i] /\ u = WriteAny(x, f, y)
  OBVIOUS
<1>3. Grows(x, u)
  BY <1>1, <1>2, AnyGrows
<1> QED  BY <1>2, <1>3 DEF Grows

LEMMA WriteFieldsStarts ==
  ASSUME NEW w \in Writers, NEW fields, NEW v, ArePacket(fields, v)
  PROVE  Len(fields) \in Nat /\ w \in Writers
BY DEF ArePacket

LEMMA WriteFieldsExists ==
  ASSUME NEW w \in Writers, NEW fields, NEW v, ArePacket(fields, v)
  PROVE  \E f : f = [i \in 0..Len(fields) |-> IF i = 0 THEN w
       ELSE WriteAny(f[i - 1], fields[i], v[i])]
<1> DEFINE step == [i \in 1..Len(fields) |-> [x \in Writers |-> WriteAny(x, fields[i], v[i])]]
<1>0. Len(fields) \in Nat /\ w \in Writers
  BY WriteFieldsStarts
<1>1. PICK f \in [0..Len(fields) -> Writers] : f[0] = w /\ \A i \in 1..Len(fields) :
        f[i] = step[i][f[i - 1]]
  <2>1. step \in [1..Len(fields) -> [Writers -> Writers]]
    BY WriteFieldsStep
  <2> HIDE DEF step
  <2>2. PICK T, n, c, g : T = Writers /\ n = Len(fields) /\ c = w /\ g = step
    OBVIOUS
  <2>3. c \in T /\ n \in Nat /\ g \in [1..n -> [T -> T]]
    BY <1>0, <2>1, <2>2
  <2>4. \E f : IsRecursion(T, c, n, g, f)
    BY <2>3, RecursionFor
  <2> QED  BY <2>2, <2>4 DEF IsRecursion
<1>2. ASSUME NEW i \in 1..Len(fields) PROVE f[i] = WriteAny(f[i - 1], fields[i], v[i])
  <2>1. i - 1 \in 0..Len(fields)
    BY <1>0
  <2>2. f[i - 1] \in Writers
    BY <1>1, <2>1
  <2>3. step[i][f[i - 1]] = WriteAny(f[i - 1], fields[i], v[i])
    BY <2>2
  <2> QED  BY <1>1, <2>3
<1>3. f = [i \in 0..Len(fields) |-> f[i]]
  BY <1>1
<1>4. \A i \in 0..Len(fields) : f[i] = IF i = 0 THEN w ELSE WriteAny(f[i - 1], fields[i], v[i])
  BY <1>0, <1>1, <1>2
<1> HIDE DEF step
<1>5. f = [i \in 0..Len(fields) |-> IF i = 0 THEN w ELSE WriteAny(f[i - 1], fields[i], v[i])]
  BY <1>3, <1>4
<1> QED  BY <1>5

(* The writers of a packet, field by field.                                   *)
LEMMA WriteFieldsIs ==
  ASSUME NEW w \in Writers, NEW fields, NEW v, ArePacket(fields, v)
  PROVE  \E u \in [0..Len(fields) -> Writers] :
           /\ u[0] = w /\ WriteFields(w, fields, v) = u[Len(fields)]
           /\ \A i \in 1..Len(fields) : u[i] = WriteAny(u[i - 1], fields[i], v[i])
<1> DEFINE u == CHOOSE f : f = [i \in 0..Len(fields) |-> IF i = 0 THEN w
        ELSE IF fields[i].kind = "list" THEN WriteList(f[i - 1], fields[i].item, v[i])
        ELSE WriteField(f[i - 1], fields[i], v[i])]
<1>0. Len(fields) \in Nat /\ w \in Writers
  BY WriteFieldsStarts
<1>1. u = [i \in 0..Len(fields) |-> IF i = 0 THEN w
        ELSE IF fields[i].kind = "list" THEN WriteList(u[i - 1], fields[i].item, v[i])
        ELSE WriteField(u[i - 1], fields[i], v[i])]
  <2>1. \E f : f = [i \in 0..Len(fields) |-> IF i = 0 THEN w
          ELSE IF fields[i].kind = "list" THEN WriteList(f[i - 1], fields[i].item, v[i])
          ELSE WriteField(f[i - 1], fields[i], v[i])]
    <3>1. PICK f : f = [i \in 0..Len(fields) |-> IF i = 0 THEN w
            ELSE WriteAny(f[i - 1], fields[i], v[i])]
      BY WriteFieldsExists
    <3>2. f = [i \in 0..Len(fields) |-> IF i = 0 THEN w
            ELSE IF fields[i].kind = "list" THEN WriteList(f[i - 1], fields[i].item, v[i])
            ELSE WriteField(f[i - 1], fields[i], v[i])]
      BY <3>1 DEF WriteAny
    <3> QED  BY <3>2
  <2> QED  BY <2>1, Zenon
<1>2. WriteFields(w, fields, v) = u[Len(fields)]
  BY DEF WriteFields
<1> HIDE DEF u
<1>3. u[0] = w /\ u = [i \in 0..Len(fields) |-> u[i]]
  BY <1>0, <1>1
<1>4. ASSUME NEW i \in 1..Len(fields) PROVE u[i] = WriteAny(u[i - 1], fields[i], v[i])
  BY <1>0, <1>1 DEF WriteAny
<1>5. ASSUME NEW i \in 1..Len(fields), u[i - 1] \in Writers PROVE u[i] \in Writers
  <2>1. PICK x \in Writers : x = u[i - 1]
    BY <1>5
  <2>2. WriteAny(x, fields[i], v[i]) \in Writers
    BY WriteFieldsStep
  <2> QED  BY <1>4, <2>1, <2>2
<1>6. u \in [0..Len(fields) -> Writers]
  <2>1. PICK T, n, f : T = Writers /\ n = Len(fields) /\ f = u
    OBVIOUS
  <2>2. n \in Nat /\ f = [i \in 0..n |-> f[i]] /\ f[0] \in T
    BY <1>0, <1>3, <2>1
  <2>3. \A i \in 1..n : f[i - 1] \in T => f[i] \in T
    BY <1>5, <2>1
  <2>4. f \in [0..n -> T]
    BY <2>2, <2>3, RecursionStays
  <2> QED  BY <2>1, <2>4
<1> QED  BY <1>2, <1>3, <1>4, <1>6

LEMMA WriteFieldsGrows ==
  ASSUME NEW w \in Writers, NEW fields, NEW v, ArePacket(fields, v),
         NEW u \in [0..Len(fields) -> Writers], u[0] = w,
         \A i \in 1..Len(fields) : u[i] = WriteAny(u[i - 1], fields[i], v[i])
  PROVE  /\ \A i \in 0..Len(fields) : Grows(w, u[i]) /\ Grows(u[i], u[Len(fields)])
         /\ \A i \in 1..Len(fields) : Grows(u[i - 1], u[i])
<1>0. PICK n \in Nat : n = Len(fields)
  BY DEF ArePacket
<1>1. ASSUME NEW i \in 1..n
      PROVE  Grows(u[i - 1], u[i])
  <2>1. IsField(fields[i]) /\ Fits(fields[i], v[i])
    BY <1>0 DEF ArePacket
  <2>2. i - 1 \in 0..n
    BY <1>0
  <2>3. PICK f, y, z : f = fields[i] /\ y = v[i] /\ z = u[i]
    OBVIOUS
  <2>4. PICK x \in Writers : x = u[i - 1]
    BY <1>0, <2>2
  <2>5. z = WriteAny(x, f, y)
    BY <1>0, <2>3, <2>4
  <2>6. Grows(x, z)
    BY <2>1, <2>3, <2>5, AnyGrows
  <2> QED  BY <2>3, <2>4, <2>6
<1>2. u \in [0..n -> Writers]
  BY <1>0
<1>3. \A i \in 0..n : Grows(u[0], u[i]) /\ Grows(u[i], u[n])
  BY <1>1, <1>2, GrowsChain
<1> QED  BY <1>0, <1>1, <1>3

-----------------------------------------------------------------------------
(* The reader of a packet.                                                    *)
(* The states of a BufferReader that collects values of V.                    *)
Atom == Nat \cup Seq(Octet)
Readers(V) == [bytes : Seq(Octet), pos : Nat, ok : BOOLEAN, got : Atom, val : Seq(V)]

(* s is the reader after r has read something that is not yet among the       *)
(* values; a reader that failed has failed for good.                          *)
Keeps(r, s) == s.bytes = r.bytes /\ s.val = r.val /\ (s.ok => r.ok)

LEMMA ReaderIs ==
  ASSUME NEW V, NEW r \in Readers(V)
  PROVE  /\ r.bytes \in Seq(Octet) /\ r.pos \in Nat /\ r.ok \in BOOLEAN
         /\ r.got \in Atom /\ r.val \in Seq(V) /\ Len(r.bytes) \in Nat
         /\ r = [bytes |-> r.bytes, pos |-> r.pos, ok |-> r.ok, got |-> r.got, val |-> r.val]
         /\ FreeSize(r) = Len(r.bytes) - r.pos
BY DEF Readers, FreeSize

(* s has read the next len bytes of r.                                        *)
Gets(r, len, s) == /\ s.got \in Seq(Octet) /\ Len(s.got) = len /\ s.pos = r.pos + len
                   /\ \A i \in 1..len : s.got[i] = r.bytes[r.pos + i]

LEMMA ReadBytesIs ==
  ASSUME NEW V, NEW r \in Readers(V), NEW len \in Nat, NEW s, s = ReadBytes(r, len)
  PROVE  /\ s \in Readers(V) /\ Keeps(r, s)
         /\ s.ok <=> r.ok /\ r.pos + len <= Len(r.bytes)
         /\ s.ok => Gets(r, len, s)
<1>1. /\ r.bytes \in Seq(Octet) /\ r.pos \in Nat /\ r.ok \in BOOLEAN
      /\ r.got \in Atom /\ r.val \in Seq(V) /\ Len(r.bytes) \in Nat
      /\ r = [bytes |-> r.bytes, pos |-> r.pos, ok |-> r.ok, got |-> r.got, val |-> r.val]
      /\ FreeSize(r) = Len(r.bytes) - r.pos
  BY ReaderIs
<1>2. CASE r.ok /\ FreeSize(r) >= len
  <2>1. PICK g : g = SubSeq(r.bytes, r.pos + 1, r.pos + len)
    OBVIOUS
  <2>2. s = [bytes |-> r.bytes, pos |-> r.pos + len, ok |-> r.ok, got |-> g, val |-> r.val]
    BY <1>1, <1>2, <2>1 DEF ReadBytes
  <2>3. r.pos + len <= Len(r.bytes)
    BY <1>1, <1>2
  <2>4. PICK T, b, p : T = Octet /\ b = r.bytes /\ p = r.pos
    OBVIOUS
  <2>5. b \in Seq(T) /\ p \in Nat /\ p + len <= Len(b)
    BY <1>1, <2>3, <2>4
  <2>6. /\ SubSeq(b, p + 1, p + len) \in Seq(T) /\ Len(SubSeq(b, p + 1, p + len)) = len
        /\ \A i \in 1..len : SubSeq(b, p + 1, p + len)[i] = b[p + i]
    BY <2>5, PartSeq
  <2>7. g \in Seq(Octet) /\ Len(g) = len /\ \A i \in 1..len : g[i] = r.bytes[r.pos + i]
    BY <2>1, <2>4, <2>6
  <2>8. r.pos + len \in Nat /\ g \in Atom
    BY <1>1, <2>7 DEF Atom
  <2>9. s \in Readers(V)
    BY <1>1, <2>2, <2>8 DEF Readers
  <2>10. Keeps(r, s)
    BY <1>1, <2>2 DEF Keeps
  <2>11. Gets(r, len, s)
    BY <2>2, <2>7 DEF Gets
  <2> QED  BY <1>2, <2>2, <2>3, <2>9, <2>10, <2>11
<1>3. CASE ~ (r.ok /\ FreeSize(r) >= len)
  <2>1. s = [bytes |-> r.bytes, pos |-> r.pos, ok |-> FALSE, got |-> r.got, val |-> r.val]
    BY <1>1, <1>3 DEF ReadBytes
  <2>2. s \in Readers(V)
    BY <1>1, <2>1 DEF Readers
  <2>3. Keeps(r, s) /\ s.ok = FALSE
    BY <2>1 DEF Keeps
  <2>4. ~ (r.ok /\ r.pos + len <= Len(r.bytes))
    BY <1>1, <1>3
  <2> QED  BY <2>2, <2>3, <2>4
<1> QED  BY <1>2, <1>3

LEMMA ReadNumberIs ==
  ASSUME NEW V, NEW r \in Readers(V), NEW width \in 0..8, NEW s, s = ReadNumber(r, width)
  PROVE  /\ s \in Readers(V) /\ Keeps(r, s) /\ s.got \in Nat
         /\ s.ok <=> r.ok /\ r.pos + width <= Len(r.bytes)
         /\ s.ok => s.pos = r.pos + width
         /\ s.ok = ReadBytes(r, width).ok
         /\ s.ok => s.got = Number(ReadBytes(r, width).got)
         /\ ~ s.ok => s.got = 0
<1>0. width \in Nat
  OBVIOUS
<1>1. PICK x : x = ReadBytes(r, width)
  OBVIOUS
<1>2. /\ x \in Readers(V) /\ Keeps(r, x)
      /\ x.ok <=> r.ok /\ r.pos + width <= Len(r.bytes)
      /\ x.ok => /\ x.got \in Seq(Octet) /\ Len(x.got) = width /\ x.pos = r.pos + width
  <2>1. /\ x \in Readers(V) /\ Keeps(r, x)
        /\ x.ok <=> r.ok /\ r.pos + width <= Len(r.bytes)
        /\ x.ok => Gets(r, width, x)
    BY <1>0, <1>1, ReadBytesIs
  <2> QED  BY <2>1 DEF Gets
<1>3. /\ x.bytes \in Seq(Octet) /\ x.pos \in Nat /\ x.ok \in BOOLEAN
      /\ x.val \in Seq(V)
      /\ x = [bytes |-> x.bytes, pos |-> x.pos, ok |-> x.ok, got |-> x.got, val |-> x.val]
  BY <1>2, ReaderIs
<1>4. PICK n : n = IF x.ok THEN Number(x.got) ELSE 0
  OBVIOUS
<1>5. n \in Nat
  <2>1. CASE x.ok
    <3>1. PICK b \in Seq(Octet) : b = x.got /\ Len(b) <= 8
      BY <1>0, <1>2, <2>1
    <3> QED  BY <1>4, <2>1, <3>1, NumberType
  <2> QED  BY <1>4, <2>1
<1>6. s = [x EXCEPT !.got = n]
  BY <1>1, <1>4 DEF ReadNumber
<1>7. s = [bytes |-> x.bytes, pos |-> x.pos, ok |-> x.ok, got |-> n, val |-> x.val]
  BY <1>3, <1>6
<1>8. s \in Readers(V)
  BY <1>3, <1>5, <1>7 DEF Readers, Atom
<1>9. Keeps(r, s)
  BY <1>2, <1>7 DEF Keeps
<1>10. s.ok = x.ok /\ s.pos = x.pos /\ s.got = n
  BY <1>7
<1> QED  BY <1>1, <1>2, <1>4, <1>5, <1>8, <1>9, <1>10

LEMMA KeepsOn ==
  ASSUME NEW r, NEW s, NEW t, Keeps(r, s), Keeps(s, t)
  PROVE  Keeps(r, t)
BY DEF Keeps

LEMMA ReadStringIs ==
  ASSUME NEW V, NEW r \in Readers(V), NEW s, s = ReadString(r)
  PROVE  s \in Readers(V) /\ Keeps(r, s)
<1>1. PICK len : len = ReadNumber(r, 2)
  OBVIOUS
<1>2. len \in Readers(V) /\ Keeps(r, len) /\ len.got \in Nat
  BY <1>1, ReadNumberIs
<1>3. CASE len.ok
  <2>1. PICK n \in Nat : n = len.got
    BY <1>2
  <2>2. s = ReadBytes(len, n)
    BY <1>1, <1>3, <2>1 DEF ReadString
  <2>3. s \in Readers(V) /\ Keeps(len, s)
    BY <1>2, <2>2, ReadBytesIs
  <2> QED  BY <1>2, <2>3, KeepsOn
<1>4. CASE ~ len.ok
  <2>1. s = len
    BY <1>1, <1>4 DEF ReadString
  <2> QED  BY <1>2, <2>1
<1> QED  BY <1>3, <1>4

(* What a field adds to the values.                                           *)
ReadOne(r, f) == IF f.kind = "string" THEN ReadString(r) ELSE ReadNumber(r, f.width)

LEMMA AddValue ==
  ASSUME NEW V, NEW s \in Readers(V), NEW W, NEW q \in Seq(W)
  PROVE  /\ [s EXCEPT !.val = q] \in Readers(W)
         /\ [s EXCEPT !.val = q].bytes = s.bytes /\ [s EXCEPT !.val = q].pos = s.pos
         /\ [s EXCEPT !.val = q].ok = s.ok /\ [s EXCEPT !.val = q].val = q
         /\ [s EXCEPT !.val = q].got = s.got
<1>1. /\ s.bytes \in Seq(Octet) /\ s.pos \in Nat /\ s.ok \in BOOLEAN /\ s.got \in Atom
      /\ s = [bytes |-> s.bytes, pos |-> s.pos, ok |-> s.ok, got |-> s.got, val |-> s.val]
  BY ReaderIs
<1>2. PICK x : x = [s EXCEPT !.val = q]
  OBVIOUS
<1>3. x = [bytes |-> s.bytes, pos |-> s.pos, ok |-> s.ok, got |-> s.got, val |-> q]
  BY <1>1, <1>2
<1>4. x \in Readers(W)
  BY <1>1, <1>3 DEF Readers
<1> QED  BY <1>2, <1>3, <1>4

LEMMA ReadFieldIs ==
  ASSUME NEW V, Atom \subseteq V, NEW r \in Readers(V), NEW f, IsFlat(f), NEW s, s = ReadField(r, f)
  PROVE  /\ s \in Readers(V) /\ s.bytes = r.bytes /\ (s.ok => r.ok)
         /\ s.pos = ReadOne(r, f).pos /\ s.ok = ReadOne(r, f).ok
         /\ s.val = Append(r.val, ReadOne(r, f).got)
<1>1. PICK x : x = ReadOne(r, f)
  OBVIOUS
<1>2. x \in Readers(V) /\ Keeps(r, x)
  <2>1. CASE f.kind = "string"
    <3>1. x = ReadString(r)
      BY <1>1, <2>1 DEF ReadOne
    <3> QED  BY <3>1, ReadStringIs
  <2>2. CASE f.kind # "string"
    <3>1. PICK k \in 0..8 : k = f.width
      BY <2>2 DEF IsFlat
    <3>2. x = ReadNumber(r, k)
      BY <1>1, <2>2, <3>1 DEF ReadOne
    <3> QED  BY <3>2, ReadNumberIs
  <2> QED  BY <2>1, <2>2
<1>3. PICK q : q = Append(r.val, x.got)
  OBVIOUS
<1>4. q \in Seq(V)
  <2>1. x.got \in V /\ r.val \in Seq(V)
    BY <1>2, ReaderIs
  <2> QED  BY <1>3, <2>1
<1>5. s = [x EXCEPT !.val = q]
  BY <1>1, <1>3 DEF ReadField, ReadOne
<1>6. /\ s \in Readers(V) /\ s.bytes = x.bytes /\ s.pos = x.pos /\ s.ok = x.ok /\ s.val = q
  BY <1>2, <1>4, <1>5, AddValue
<1> QED  BY <1>1, <1>2, <1>3, <1>6 DEF Keeps

(* Readers one after the other.                                               *)
LEMMA ReaderChain ==
  ASSUME NEW n \in Nat, NEW q,
         \A i \in 1..n : q[i].bytes = q[i - 1].bytes /\ (q[i].ok => q[i - 1].ok)
  PROVE  \A i \in 0..n : q[i].bytes = q[0].bytes /\ (q[i].ok => q[0].ok)
<1> DEFINE P == {i \in Nat : i <= n => q[i].bytes = q[0].bytes /\ (q[i].ok => q[0].ok)}
<1>1. 0 \in P
  <2>1. q[0].bytes = q[0].bytes /\ (q[0].ok => q[0].ok)
    BY Zenon
  <2> QED  BY <2>1
<1>2. ASSUME NEW i \in Nat, i \in P PROVE i + 1 \in P
  <2> SUFFICES ASSUME i + 1 <= n
               PROVE  q[i + 1].bytes = q[0].bytes /\ (q[i + 1].ok => q[0].ok)
    OBVIOUS
  <2>1. i + 1 \in 1..n /\ (i + 1) - 1 = i
    OBVIOUS
  <2>2. q[i + 1].bytes = q[i].bytes /\ (q[i + 1].ok => q[i].ok)
    BY <2>1
  <2>3. q[i].bytes = q[0].bytes /\ (q[i].ok => q[0].ok)
    BY <1>2
  <2> QED  BY <2>2, <2>3
<1>3. Nat \subseteq P
  <2> HIDE DEF P
  <2> QED  BY <1>1, <1>2, InductionSet
<1> QED  BY <1>3

LEMMA EmptyValues ==
  ASSUME NEW V, NEW r \in Readers(V), NEW W
  PROVE  /\ [r EXCEPT !.val = <<>>] \in Readers(W)
         /\ [r EXCEPT !.val = <<>>].bytes = r.bytes /\ [r EXCEPT !.val = <<>>].pos = r.pos
         /\ [r EXCEPT !.val = <<>>].ok = r.ok /\ [r EXCEPT !.val = <<>>].val = <<>>
<1>1. PICK q \in Seq(W) : q = <<>>
  <2>1. <<>> \in Seq(W)
    OBVIOUS
  <2> QED  BY <2>1
<1>2. PICK x : x = [r EXCEPT !.val = q]
  OBVIOUS
<1>3. x \in Readers(W) /\ x.bytes = r.bytes /\ x.pos = r.pos /\ x.ok = r.ok /\ x.val = q
  BY <1>2, AddValue
<1> QED  BY <1>1, <1>2, <1>3

LEMMA ReadItemStep ==
  ASSUME NEW V, NEW r \in Readers(V), NEW fields, IsItemType(fields),
         NEW i \in 1..Len(fields), NEW x \in Readers(Atom)
  PROVE  ReadField(x, fields[i]) \in Readers(Atom)
<1>1. IsFlat(fields[i])
  BY DEF IsItemType
<1>2. PICK T, f, s : T = Atom /\ f = fields[i] /\ s = ReadField(x, f)
  OBVIOUS
<1>3. x \in Readers(T) /\ Atom \subseteq T
  BY <1>2
<1>4. s \in Readers(T)
  BY <1>1, <1>2, <1>3, ReadFieldIs
<1> QED  BY <1>2, <1>4

LEMMA ReadItemStarts ==
  ASSUME NEW V, NEW r \in Readers(V), NEW fields, IsItemType(fields)
  PROVE  Len(fields) \in Nat /\ [r EXCEPT !.val = <<>>] \in Readers(Atom)
<1>1. PICK W, a : W = Atom /\ a = [r EXCEPT !.val = <<>>]
  OBVIOUS
<1>2. a \in Readers(W)
  BY <1>1, EmptyValues
<1> QED  BY <1>1, <1>2 DEF IsItemType

LEMMA ReadItemExists ==
  ASSUME NEW V, NEW r \in Readers(V), NEW fields, IsItemType(fields)
  PROVE  \E f : f = [i \in 0..Len(fields) |-> IF i = 0 THEN [r EXCEPT !.val = <<>>]
       ELSE ReadField(f[i - 1], fields[i])]
<1> DEFINE step == [i \in 1..Len(fields) |-> [x \in Readers(Atom) |-> ReadField(x, fields[i])]]
<1>0. Len(fields) \in Nat /\ [r EXCEPT !.val = <<>>] \in Readers(Atom)
  BY ReadItemStarts
<1>1. PICK f \in [0..Len(fields) -> Readers(Atom)] : f[0] = [r EXCEPT !.val = <<>>] /\
        \A i \in 1..Len(fields) : f[i] = step[i][f[i - 1]]
  <2>1. step \in [1..Len(fields) -> [Readers(Atom) -> Readers(Atom)]]
    BY ReadItemStep
  <2> HIDE DEF step
  <2>2. PICK T, n, c, g : T = Readers(Atom) /\ n = Len(fields) /\ c = [r EXCEPT !.val = <<>>] /\
          g = step
    OBVIOUS
  <2>3. c \in T /\ n \in Nat /\ g \in [1..n -> [T -> T]]
    BY <1>0, <2>1, <2>2
  <2>4. \E f : IsRecursion(T, c, n, g, f)
    BY <2>3, RecursionFor
  <2> QED  BY <2>2, <2>4 DEF IsRecursion
<1>2. ASSUME NEW i \in 1..Len(fields) PROVE f[i] = ReadField(f[i - 1], fields[i])
  <2>1. i - 1 \in 0..Len(fields)
    BY <1>0
  <2>2. f[i - 1] \in Readers(Atom)
    BY <1>1, <2>1
  <2>3. step[i][f[i - 1]] = ReadField(f[i - 1], fields[i])
    BY <2>2
  <2> QED  BY <1>1, <2>3
<1>3. f = [i \in 0..Len(fields) |-> f[i]]
  BY <1>1
<1>4. \A i \in 0..Len(fields) : f[i] = IF i = 0 THEN [r EXCEPT !.val = <<>>]
        ELSE ReadField(f[i - 1], fields[i])
  BY <1>0, <1>1, <1>2
<1> HIDE DEF step
<1>5. f = [i \in 0..Len(fields) |-> IF i = 0 THEN [r EXCEPT !.val = <<>>]
        ELSE ReadField(f[i - 1], fields[i])]
  BY <1>3, <1>4
<1> QED  BY <1>5

(* The readers of an item, field by field.                                    *)
LEMMA ReadItemIs ==
  ASSUME NEW V, NEW r \in Readers(V), NEW fields, IsItemType(fields)
  PROVE  \E u \in [0..Len(fields) -> Readers(Atom)] :
           /\ u[0] = [r EXCEPT !.val = <<>>] /\ ReadItem(r, fields) = u[Len(fields)]
           /\ \A i \in 1..Len(fields) : u[i] = ReadField(u[i - 1], fields[i])
<1> DEFINE u == CHOOSE f : f = [i \in 0..Len(fields) |-> IF i = 0 THEN [r EXCEPT !.val = <<>>]
        ELSE ReadField(f[i - 1], fields[i])]
<1>0. Len(fields) \in Nat /\ [r EXCEPT !.val = <<>>] \in Readers(Atom)
  BY ReadItemStarts
<1>1. u = [i \in 0..Len(fields) |-> IF i = 0 THEN [r EXCEPT !.val = <<>>]
        ELSE ReadField(u[i - 1], fields[i])]
  <2>1. \E f : f = [i \in 0..Len(fields) |-> IF i = 0 THEN [r EXCEPT !.val = <<>>]
          ELSE ReadField(f[i - 1], fields[i])]
    BY ReadItemExists
  <2>2. \E f : f = [i \in 0..Len(fields) |-> IF i = 0 THEN [r EXCEPT !.val = <<>>]
          ELSE ReadField(f[i - 1], fields[i])]
    BY <2>1
  <2> QED  BY <2>2
<1>2. ReadItem(r, fields) = u[Len(fields)]
  BY DEF ReadItem
<1> HIDE DEF u
<1>3. u[0] = [r EXCEPT !.val = <<>>] /\ u = [i \in 0..Len(fields) |-> u[i]]
  BY <1>0, <1>1
<1>4. ASSUME NEW i \in 1..Len(fields) PROVE u[i] = ReadField(u[i - 1], fields[i])
  <2>1. i \in 0..Len(fields) /\ i # 0
    BY <1>0
  <2>2. u[i] = ReadField(u[i - 1], fields[i])
    BY <1>1, <2>1
  <2> QED  BY <2>2
<1>5. ASSUME NEW i \in 1..Len(fields), u[i - 1] \in Readers(Atom) PROVE u[i] \in Readers(Atom)
  <2>1. PICK x \in Readers(Atom) : x = u[i - 1]
    BY <1>5
  <2>2. ReadField(x, fields[i]) \in Readers(Atom)
    BY ReadItemStep
  <2> QED  BY <1>4, <2>1, <2>2
<1>6. u \in [0..Len(fields) -> Readers(Atom)]
  <2>1. PICK T, n, f : T = Readers(Atom) /\ n = Len(fields) /\ f = u
    OBVIOUS
  <2>2. n \in Nat /\ f = [i \in 0..n |-> f[i]] /\ f[0] \in T
    BY <1>0, <1>3, <2>1
  <2>3. \A i \in 1..n : f[i - 1] \in T => f[i] \in T
    BY <1>5, <2>1
  <2>4. f \in [0..n -> T]
    BY <2>2, <2>3, RecursionStays
  <2> QED  BY <2>1, <2>4
<1> QED  BY <1>2, <1>3, <1>4, <1>6

LEMMA ReadItemType ==
  ASSUME NEW V, NEW r \in Readers(V), NEW fields, IsItemType(fields), NEW s, s = ReadItem(r, fields)
  PROVE  s \in Readers(Atom) /\ s.bytes = r.bytes /\ (s.ok => r.ok)
<1>1. PICK q \in [0..Len(fields) -> Readers(Atom)] :
        /\ q[0] = [r EXCEPT !.val = <<>>] /\ s = q[Len(fields)]
        /\ \A i \in 1..Len(fields) : q[i] = ReadField(q[i - 1], fields[i])
  BY ReadItemIs
<1>2. PICK n \in Nat : n = Len(fields) /\ n > 0
  BY DEF IsItemType
<1>3. ASSUME NEW i \in 1..n PROVE q[i].bytes = q[i - 1].bytes /\ (q[i].ok => q[i - 1].ok)
  <2>1. IsFlat(fields[i])
    BY <1>2 DEF IsItemType
  <2>2. i - 1 \in 0..n
    BY <1>2
  <2>3. PICK T, f, t : T = Atom /\ f = fields[i] /\ t = q[i]
    OBVIOUS
  <2>4. PICK x \in Readers(T) : x = q[i - 1]
    BY <1>1, <1>2, <2>2, <2>3
  <2>5. t = ReadField(x, f) /\ Atom \subseteq T
    BY <1>1, <1>2, <2>3, <2>4
  <2>6. t.bytes = x.bytes /\ (t.ok => x.ok)
    BY <2>1, <2>3, <2>5, ReadFieldIs
  <2> QED  BY <2>3, <2>4, <2>6
<1>4. \A i \in 0..n : q[i].bytes = q[0].bytes /\ (q[i].ok => q[0].ok)
  BY <1>3, ReaderChain
<1>5. q[0].bytes = r.bytes /\ q[0].ok = r.ok
  <2>1. PICK W, a : W = Atom /\ a = [r EXCEPT !.val = <<>>]
    OBVIOUS
  <2>2. a.bytes = r.bytes /\ a.ok = r.ok
    BY <2>1, EmptyValues
  <2> QED  BY <1>1, <2>1, <2>2
<1>6. n \in 0..n
  BY <1>2
<1>7. s \in Readers(Atom)
  BY <1>1, <1>2, <1>6
<1> QED  BY <1>1, <1>2, <1>4, <1>5, <1>6, <1>7

(* One round of the loop over the items of a list.                            *)
ReadNext(x, item) ==
  IF ~ x.ok THEN x
  ELSE LET s == ReadItem(x, item) IN [s EXCEPT !.val = Append(x.val, s.val)]

LEMMA ReadNextIs ==
  ASSUME NEW x \in Readers(Seq(Atom)), NEW item, IsItemType(item), NEW s, s = ReadNext(x, item)
  PROVE  /\ s \in Readers(Seq(Atom)) /\ s.bytes = x.bytes /\ (s.ok => x.ok)
         /\ ~ x.ok => s = x
         /\ x.ok => /\ s.ok = ReadItem(x, item).ok /\ s.pos = ReadItem(x, item).pos
                    /\ s.val = Append(x.val, ReadItem(x, item).val)
<1>1. CASE ~ x.ok
  BY <1>1 DEF ReadNext
<1>2. CASE x.ok
  <2>1. PICK T, t : T = Seq(Atom) /\ t = ReadItem(x, item)
    OBVIOUS
  <2>2. x \in Readers(T)
    BY <2>1
  <2>3. t \in Readers(Atom) /\ t.bytes = x.bytes
    BY <2>1, <2>2, ReadItemType
  <2>4. t.val \in Seq(Atom)
    <3>1. PICK A : A = Atom
      OBVIOUS
    <3>2. t \in Readers(A)
      BY <2>3, <3>1
    <3> QED  BY <3>1, <3>2, ReaderIs
  <2>5. x.val \in Seq(T)
    BY <2>2, ReaderIs
  <2>6. PICK q : q = Append(x.val, t.val)
    OBVIOUS
  <2>7. q \in Seq(T)
    BY <2>1, <2>4, <2>5, <2>6
  <2>8. s = [t EXCEPT !.val = q]
    BY <1>2, <2>1, <2>6 DEF ReadNext
  <2>9. PICK A : A = Atom /\ t \in Readers(A)
    BY <2>3
  <2>10. s \in Readers(T) /\ s.bytes = t.bytes /\ s.pos = t.pos /\ s.ok = t.ok /\ s.val = q
    BY <2>7, <2>8, <2>9, AddValue
  <2> QED  BY <1>2, <2>1, <2>3, <2>6, <2>10
<1> QED  BY <1>1, <1>2

LEMMA CountIs ==
  ASSUME NEW V, NEW r \in Readers(V), NEW count, count = ReadNumber(r, 2)
  PROVE  count \in Readers(V) /\ Keeps(r, count) /\ count.got \in Nat
<1>1. PICK width \in 0..8 : width = 2
  OBVIOUS
<1> QED  BY <1>1, ReadNumberIs

LEMMA ReadListStep ==
  ASSUME NEW V, NEW r \in Readers(V), NEW item, IsItemType(item),
         NEW i \in 1..ReadNumber(r, 2).got, NEW x \in Readers(Seq(Atom))
  PROVE  ReadNext(x, item) \in Readers(Seq(Atom))
BY ReadNextIs

LEMMA ReadListStarts ==
  ASSUME NEW V, NEW r \in Readers(V), NEW item, IsItemType(item)
  PROVE  ReadNumber(r, 2).got \in Nat /\
       [ReadNumber(r, 2) EXCEPT !.val = <<>>] \in Readers(Seq(Atom))
<1>1. PICK count : count = ReadNumber(r, 2)
  OBVIOUS
<1>2. count \in Readers(V) /\ count.got \in Nat
  BY <1>1, CountIs
<1>3. PICK W, a : W = Seq(Atom) /\ a = [count EXCEPT !.val = <<>>]
  OBVIOUS
<1>4. a \in Readers(W)
  BY <1>2, <1>3, EmptyValues
<1> QED  BY <1>1, <1>2, <1>3, <1>4

LEMMA ReadListExists ==
  ASSUME NEW V, NEW r \in Readers(V), NEW item, IsItemType(item)
  PROVE  \E f : f = [i \in 0..ReadNumber(r, 2).got |-> IF i = 0
       THEN [ReadNumber(r, 2) EXCEPT !.val = <<>>] ELSE ReadNext(f[i - 1], item)]
<1> DEFINE step == [i \in 1..ReadNumber(r, 2).got |-> [x \in Readers(Seq(Atom)) |-> ReadNext(x, item)]]
<1>0. ReadNumber(r, 2).got \in Nat /\ [ReadNumber(r, 2) EXCEPT !.val = <<>>] \in Readers(Seq(Atom))
  BY ReadListStarts
<1>1. PICK f \in [0..ReadNumber(r, 2).got -> Readers(Seq(Atom))] :
        f[0] = [ReadNumber(r, 2) EXCEPT !.val = <<>>] /\ \A i \in 1..ReadNumber(r, 2).got :
        f[i] = step[i][f[i - 1]]
  <2>1. step \in [1..ReadNumber(r, 2).got -> [Readers(Seq(Atom)) -> Readers(Seq(Atom))]]
    BY ReadListStep
  <2> HIDE DEF step
  <2>2. PICK T, n, c, g : T = Readers(Seq(Atom)) /\ n = ReadNumber(r, 2).got /\
          c = [ReadNumber(r, 2) EXCEPT !.val = <<>>] /\ g = step
    OBVIOUS
  <2>3. c \in T /\ n \in Nat /\ g \in [1..n -> [T -> T]]
    BY <1>0, <2>1, <2>2
  <2>4. \E f : IsRecursion(T, c, n, g, f)
    BY <2>3, RecursionFor
  <2> QED  BY <2>2, <2>4 DEF IsRecursion
<1>2. ASSUME NEW i \in 1..ReadNumber(r, 2).got PROVE f[i] = ReadNext(f[i - 1], item)
  <2>1. i - 1 \in 0..ReadNumber(r, 2).got
    BY <1>0
  <2>2. f[i - 1] \in Readers(Seq(Atom))
    BY <1>1, <2>1
  <2>3. step[i][f[i - 1]] = ReadNext(f[i - 1], item)
    BY <2>2
  <2> QED  BY <1>1, <2>3
<1>3. f = [i \in 0..ReadNumber(r, 2).got |-> f[i]]
  BY <1>1
<1>4. \A i \in 0..ReadNumber(r, 2).got : f[i] = IF i = 0
        THEN [ReadNumber(r, 2) EXCEPT !.val = <<>>] ELSE ReadNext(f[i - 1], item)
  BY <1>0, <1>1, <1>2
<1> HIDE DEF step
<1>5. f = [i \in 0..ReadNumber(r, 2).got |-> IF i = 0 THEN [ReadNumber(r, 2) EXCEPT !.val = <<>>]
        ELSE ReadNext(f[i - 1], item)]
  BY <1>3, <1>4
<1> QED  BY <1>5

(* The readers of a list, item by item.                                       *)
LEMMA ReadListIs ==
  ASSUME NEW V, NEW r \in Readers(V), NEW item, IsItemType(item)
  PROVE  \E u \in [0..ReadNumber(r, 2).got -> Readers(Seq(Atom))] :
           /\ u[0] = [ReadNumber(r, 2) EXCEPT !.val = <<>>] /\
                ReadList(r, item) = IF ReadNumber(r, 2).ok
                THEN [u[ReadNumber(r, 2).got] EXCEPT !.val = Append(r.val, @)]
                ELSE ReadNumber(r, 2)
           /\ \A i \in 1..ReadNumber(r, 2).got : u[i] = ReadNext(u[i - 1], item)
<1> DEFINE u == CHOOSE f : f = [i \in 0..ReadNumber(r, 2).got |-> IF i = 0
        THEN [ReadNumber(r, 2) EXCEPT !.val = <<>>] ELSE IF ~ f[i - 1].ok THEN f[i - 1] ELSE
        LET s == ReadItem(f[i - 1], item) IN [s EXCEPT !.val = Append(f[i - 1].val, s.val)]]
<1>0. ReadNumber(r, 2).got \in Nat /\ [ReadNumber(r, 2) EXCEPT !.val = <<>>] \in Readers(Seq(Atom))
  BY ReadListStarts
<1>1. u = [i \in 0..ReadNumber(r, 2).got |-> IF i = 0 THEN [ReadNumber(r, 2) EXCEPT !.val = <<>>]
        ELSE IF ~ u[i - 1].ok THEN u[i - 1] ELSE LET s == ReadItem(u[i - 1], item)
        IN [s EXCEPT !.val = Append(u[i - 1].val, s.val)]]
  <2>1. \E f : f = [i \in 0..ReadNumber(r, 2).got |-> IF i = 0
          THEN [ReadNumber(r, 2) EXCEPT !.val = <<>>] ELSE ReadNext(f[i - 1], item)]
    BY ReadListExists
  <2>2. \E f : f = [i \in 0..ReadNumber(r, 2).got |-> IF i = 0
          THEN [ReadNumber(r, 2) EXCEPT !.val = <<>>] ELSE IF ~ f[i - 1].ok THEN f[i - 1] ELSE
          LET s == ReadItem(f[i - 1], item) IN [s EXCEPT !.val = Append(f[i - 1].val, s.val)]]
    BY <2>1 DEF ReadNext
  <2> QED  BY <2>2
<1>2. ReadList(r, item) = IF ReadNumber(r, 2).ok
        THEN [u[ReadNumber(r, 2).got] EXCEPT !.val = Append(r.val, @)] ELSE ReadNumber(r, 2)
  BY DEF ReadList
<1> HIDE DEF u
<1>3. u[0] = [ReadNumber(r, 2) EXCEPT !.val = <<>>] /\ u = [i \in 0..ReadNumber(r, 2).got |-> u[i]]
  BY <1>0, <1>1
<1>4. ASSUME NEW i \in 1..ReadNumber(r, 2).got PROVE u[i] = ReadNext(u[i - 1], item)
  <2>1. i \in 0..ReadNumber(r, 2).got /\ i # 0
    BY <1>0
  <2>2. u[i] = IF ~ u[i - 1].ok THEN u[i - 1] ELSE LET s == ReadItem(u[i - 1], item)
          IN [s EXCEPT !.val = Append(u[i - 1].val, s.val)]
    BY <1>1, <2>1
  <2> QED  BY <2>2 DEF ReadNext
<1>5. ASSUME NEW i \in 1..ReadNumber(r, 2).got, u[i - 1] \in Readers(Seq(Atom))
        PROVE u[i] \in Readers(Seq(Atom))
  <2>1. PICK x \in Readers(Seq(Atom)) : x = u[i - 1]
    BY <1>5
  <2>2. ReadNext(x, item) \in Readers(Seq(Atom))
    BY ReadListStep
  <2> QED  BY <1>4, <2>1, <2>2
<1>6. u \in [0..ReadNumber(r, 2).got -> Readers(Seq(Atom))]
  <2>1. PICK T, n, f : T = Readers(Seq(Atom)) /\ n = ReadNumber(r, 2).got /\ f = u
    OBVIOUS
  <2>2. n \in Nat /\ f = [i \in 0..n |-> f[i]] /\ f[0] \in T
    BY <1>0, <1>3, <2>1
  <2>3. \A i \in 1..n : f[i - 1] \in T => f[i] \in T
    BY <1>5, <2>1
  <2>4. f \in [0..n -> T]
    BY <2>2, <2>3, RecursionStays
  <2> QED  BY <2>1, <2>4
<1> QED  BY <1>2, <1>3, <1>4, <1>6

LEMMA ReadListType ==
  ASSUME NEW V, Seq(Seq(Atom)) \subseteq V, NEW r \in Readers(V), NEW item, IsItemType(item),
         NEW s, s = ReadList(r, item)
  PROVE  s \in Readers(V) /\ s.bytes = r.bytes /\ (s.ok => r.ok)
<1>1. PICK count : count = ReadNumber(r, 2)
  OBVIOUS
<1>2. count \in Readers(V) /\ Keeps(r, count) /\ count.got \in Nat
  BY <1>1, CountIs
<1>3. PICK q \in [0..ReadNumber(r, 2).got -> Readers(Seq(Atom))] :
        /\ q[0] = [ReadNumber(r, 2) EXCEPT !.val = <<>>]
        /\ ReadList(r, item) = IF ReadNumber(r, 2).ok
                                 THEN [q[ReadNumber(r, 2).got] EXCEPT !.val = Append(r.val, @)]
                                 ELSE ReadNumber(r, 2)
        /\ \A i \in 1..ReadNumber(r, 2).got : q[i] = ReadNext(q[i - 1], item)
  BY ReadListIs
<1>4. PICK n \in Nat : n = count.got
  BY <1>2
<1>5. /\ q \in [0..n -> Readers(Seq(Atom))] /\ q[0] = [count EXCEPT !.val = <<>>]
      /\ \A i \in 1..n : q[i] = ReadNext(q[i - 1], item)
      /\ s = IF count.ok THEN [q[n] EXCEPT !.val = Append(r.val, @)] ELSE count
  BY <1>1, <1>3, <1>4
<1>6. CASE ~ count.ok
  BY <1>2, <1>5, <1>6 DEF Keeps
<1>7. CASE count.ok
  <2>1. ASSUME NEW i \in 1..n PROVE q[i].bytes = q[i - 1].bytes /\ (q[i].ok => q[i - 1].ok)
    <3>0. i - 1 \in 0..n
      OBVIOUS
    <3>1. PICK x \in Readers(Seq(Atom)) : x = q[i - 1]
      BY <1>5, <3>0
    <3>2. PICK t : t = q[i]
      OBVIOUS
    <3>3. t = ReadNext(x, item)
      BY <1>5, <3>1, <3>2
    <3>4. t.bytes = x.bytes /\ (t.ok => x.ok)
      BY <3>3, ReadNextIs
    <3> QED  BY <3>1, <3>2, <3>4
  <2>2. \A i \in 0..n : q[i].bytes = q[0].bytes /\ (q[i].ok => q[0].ok)
    BY <2>1, ReaderChain
  <2>3. q[0].bytes = count.bytes /\ q[0].ok = count.ok
    <3>1. PICK W, a : W = Seq(Atom) /\ a = [count EXCEPT !.val = <<>>]
      OBVIOUS
    <3>2. a.bytes = count.bytes /\ a.ok = count.ok
      BY <1>2, <3>1, EmptyValues
    <3> QED  BY <1>5, <3>1, <3>2
  <2>4. PICK W, x : W = Seq(Atom) /\ x = q[n] /\ x \in Readers(W)
    <3>1. n \in 0..n
      OBVIOUS
    <3>2. q[n] \in Readers(Seq(Atom))
      BY <1>5, <3>1
    <3> QED  BY <3>2
  <2>5. x.bytes = count.bytes /\ (x.ok => count.ok)
    <3>1. n \in 0..n
      OBVIOUS
    <3> QED  BY <2>2, <2>3, <2>4, <3>1
  <2>6. PICK y : y = Append(r.val, x.val)
    OBVIOUS
  <2>7. y \in Seq(V)
    <3>1. x.val \in V
      BY <2>4, ReaderIs
    <3>2. r.val \in Seq(V)
      BY ReaderIs
    <3> QED  BY <2>6, <3>1, <3>2
  <2>8. s = [x EXCEPT !.val = y]
    BY <1>5, <1>7, <2>4, <2>6
  <2>9. s \in Readers(V) /\ s.bytes = x.bytes /\ s.ok = x.ok
    BY <2>4, <2>7, <2>8, AddValue
  <2> QED  BY <1>2, <2>5, <2>9 DEF Keeps
<1> QED  BY <1>6, <1>7

(* What the fields of a packet are read into.                                 *)
FieldValues == Atom \cup Seq(Seq(Atom))
AreFields(fields) == Len(fields) \in Nat /\ \A i \in 1..Len(fields) : IsField(fields[i])
ReadAny(x, f) == IF ~ x.ok THEN x
                 ELSE IF f.kind = "list" THEN ReadList(x, f.item) ELSE ReadField(x, f)

LEMMA ReadAnyIs ==
  ASSUME NEW x \in Readers(FieldValues), NEW f, IsField(f), NEW s, s = ReadAny(x, f)
  PROVE  s \in Readers(FieldValues) /\ s.bytes = x.bytes /\ (s.ok => x.ok)
<1>1. PICK V : V = FieldValues
  OBVIOUS
<1>2. x \in Readers(V) /\ Atom \subseteq V /\ Seq(Seq(Atom)) \subseteq V
  BY <1>1 DEF FieldValues
<1>3. CASE ~ x.ok
  BY <1>3 DEF ReadAny
<1>4. CASE x.ok /\ f.kind = "list"
  <2>1. PICK item : item = f.item
    OBVIOUS
  <2>2. s = ReadList(x, item) /\ IsItemType(item)
    BY <1>4, <2>1 DEF ReadAny, IsField, IsFlat
  <2>3. s \in Readers(V) /\ s.bytes = x.bytes /\ (s.ok => x.ok)
    BY <1>2, <2>2, ReadListType
  <2> QED  BY <1>1, <2>3
<1>5. CASE x.ok /\ f.kind # "list"
  <2>1. s = ReadField(x, f) /\ IsFlat(f)
    BY <1>5 DEF ReadAny, IsField
  <2>2. s \in Readers(V) /\ s.bytes = x.bytes /\ (s.ok => x.ok)
    BY <1>2, <2>1, ReadFieldIs
  <2> QED  BY <1>1, <2>2
<1> QED  BY <1>3, <1>4, <1>5

LEMMA ReadFieldsStep ==
  ASSUME NEW r \in Readers(FieldValues), NEW fields, AreFields(fields),
         NEW i \in 1..Len(fields), NEW x \in Readers(FieldValues)
  PROVE  ReadAny(x, fields[i]) \in Readers(FieldValues)
<1>1. PICK f, s : f = fields[i] /\ s = ReadAny(x, f)
  OBVIOUS
<1>2. IsField(f)
  BY <1>1 DEF AreFields
<1>3. s \in Readers(FieldValues)
  BY <1>1, <1>2, ReadAnyIs
<1> QED  BY <1>1, <1>3

LEMMA ReadFieldsStarts ==
  ASSUME NEW r \in Readers(FieldValues), NEW fields, AreFields(fields)
  PROVE  Len(fields) \in Nat /\ r \in Readers(FieldValues)
BY DEF AreFields

LEMMA ReadFieldsExists ==
  ASSUME NEW r \in Readers(FieldValues), NEW fields, AreFields(fields)
  PROVE  \E f : f = [i \in 0..Len(fields) |-> IF i = 0 THEN r ELSE ReadAny(f[i - 1], fields[i])]
<1> DEFINE step == [i \in 1..Len(fields) |-> [x \in Readers(FieldValues) |-> ReadAny(x, fields[i])]]
<1>0. Len(fields) \in Nat /\ r \in Readers(FieldValues)
  BY ReadFieldsStarts
<1>1. PICK f \in [0..Len(fields) -> Readers(FieldValues)] : f[0] = r /\ \A i \in 1..Len(fields) :
        f[i] = step[i][f[i - 1]]
  <2>1. step \in [1..Len(fields) -> [Readers(FieldValues) -> Readers(FieldValues)]]
    BY ReadFieldsStep
  <2> HIDE DEF step
  <2>2. PICK T, n, c, g : T = Readers(FieldValues) /\ n = Len(fields) /\ c = r /\ g = step
    OBVIOUS
  <2>3. c \in T /\ n \in Nat /\ g \in [1..n -> [T -> T]]
    BY <1>0, <2>1, <2>2
  <2>4. \E f : IsRecursion(T, c, n, g, f)
    BY <2>3, RecursionFor
  <2> QED  BY <2>2, <2>4 DEF IsRecursion
<1>2. ASSUME NEW i \in 1..Len(fields) PROVE f[i] = ReadAny(f[i - 1], fields[i])
  <2>1. i - 1 \in 0..Len(fields)
    BY <1>0
  <2>2. f[i - 1] \in Readers(FieldValues)
    BY <1>1, <2>1
  <2>3. step[i][f[i - 1]] = ReadAny(f[i - 1], fields[i])
    BY <2>2
  <2> QED  BY <1>1, <2>3
<1>3. f = [i \in 0..Len(fields) |-> f[i]]
  BY <1>1
<1>4. \A i \in 0..Len(fields) : f[i] = IF i = 0 THEN r ELSE ReadAny(f[i - 1], fields[i])
  BY <1>0, <1>1, <1>2
<1> HIDE DEF step
<1>5. f = [i \in 0..Len(fields) |-> IF i = 0 THEN r ELSE ReadAny(f[i - 1], fields[i])]
  BY <1>3, <1>4
<1> QED  BY <1>5

(* The readers of a packet, field by field.                                   *)
LEMMA ReadFieldsIs ==
  ASSUME NEW r \in Readers(FieldValues), NEW fields, AreFields(fields)
  PROVE  \E u \in [0..Len(fields) -> Readers(FieldValues)] :
           /\ u[0] = r /\ ReadFields(r, fields) = u[Len(fields)]
           /\ \A i \in 1..Len(fields) : u[i] = ReadAny(u[i - 1], fields[i])
<1> DEFINE u == CHOOSE f : f = [i \in 0..Len(fields) |-> IF i = 0 THEN r
        ELSE IF ~ f[i - 1].ok THEN f[i - 1]
        ELSE IF fields[i].kind = "list" THEN ReadList(f[i - 1], fields[i].item)
        ELSE ReadField(f[i - 1], fields[i])]
<1>0. Len(fields) \in Nat /\ r \in Readers(FieldValues)
  BY ReadFieldsStarts
<1>1. u = [i \in 0..Len(fields) |-> IF i = 0 THEN r ELSE IF ~ u[i - 1].ok THEN u[i - 1]
        ELSE IF fields[i].kind = "list" THEN ReadList(u[i - 1], fields[i].item)
        ELSE ReadField(u[i - 1], fields[i])]
  <2>1. \E f : f = [i \in 0..Len(fields) |-> IF i = 0 THEN r ELSE ReadAny(f[i - 1], fields[i])]
    BY ReadFieldsExists
  <2>2. \E f : f = [i \in 0..Len(fields) |-> IF i = 0 THEN r ELSE IF ~ f[i - 1].ok THEN f[i - 1]
          ELSE IF fields[i].kind = "list" THEN ReadList(f[i - 1], fields[i].item)
          ELSE ReadField(f[i - 1], fields[i])]
    BY <2>1 DEF ReadAny
  <2> QED  BY <2>2
<1>2. ReadFields(r, fields) = u[Len(fields)]
  BY DEF ReadFields
<1> HIDE DEF u
<1>3. u[0] = r /\ u = [i \in 0..Len(fields) |-> u[i]]
  BY <1>0, <1>1
<1>4. ASSUME NEW i \in 1..Len(fields) PROVE u[i] = ReadAny(u[i - 1], fields[i])
  <2>1. i \in 0..Len(fields) /\ i # 0
    BY <1>0
  <2>2. u[i] = IF ~ u[i - 1].ok THEN u[i - 1]
          ELSE IF fields[i].kind = "list" THEN ReadList(u[i - 1], fields[i].item)
          ELSE ReadField(u[i - 1], fields[i])
    BY <1>1, <2>1
  <2> QED  BY <2>2 DEF ReadAny
<1>5. ASSUME NEW i \in 1..Len(fields), u[i - 1] \in Readers(FieldValues)
        PROVE u[i] \in Readers(FieldValues)
  <2>1. PICK x \in Readers(FieldValues) : x = u[i - 1]
    BY <1>5
  <2>2. ReadAny(x, fields[i]) \in Readers(FieldValues)
    BY ReadFieldsStep
  <2> QED  BY <1>4, <2>1, <2>2
<1>6. u \in [0..Len(fields) -> Readers(FieldValues)]
  <2>1. PICK T, n, f : T = Readers(FieldValues) /\ n = Len(fields) /\ f = u
    OBVIOUS
  <2>2. n \in Nat /\ f = [i \in 0..n |-> f[i]] /\ f[0] \in T
    BY <1>0, <1>3, <2>1
  <2>3. \A i \in 1..n : f[i - 1] \in T => f[i] \in T
    BY <1>5, <2>1
  <2>4. f \in [0..n -> T]
    BY <2>2, <2>3, RecursionStays
  <2> QED  BY <2>1, <2>4
<1> QED  BY <1>2, <1>3, <1>4, <1>6

-----------------------------------------------------------------------------
(* F are the bytes of a packet, B those of them that are there to be read.    *)
IsCut(F, B) == /\ F \in Seq(Octet) /\ B \in Seq(Octet) /\ Len(B) <= Len(F)
               /\ \A i \in 1..Len(B) : B[i] = F[i]

(* w is what was written of F, but for the header.                            *)
At(w, F) == /\ w.ok /\ Len(w.bytes) <= Len(F)
            /\ \A i \in (HeaderSize + 1)..Len(w.bytes) : F[i] = w.bytes[i]

(* The reader is where the writer was, or has failed because that is not      *)
(* there any more.                                                            *)
Tracks(r, w, B) == r.bytes = B /\ IF Len(w.bytes) <= Len(B) THEN r.ok /\ r.pos = Len(w.bytes)
                                                            ELSE r.ok = FALSE

LEMMA AtBefore ==
  ASSUME NEW w \in Writers, NEW u, NEW F \in Seq(Octet), Grows(w, u), At(u, F)
  PROVE  At(w, F)
<1>1. Len(w.bytes) \in Nat /\ Len(u.bytes) \in Nat /\ Len(F) \in Nat /\ Len(w.bytes) <= Len(u.bytes)
  BY WriterIs DEF Grows
<1>2. w.ok /\ Len(w.bytes) <= Len(F)
  BY <1>1 DEF Grows, At
<1>3. ASSUME NEW i \in (HeaderSize + 1)..Len(w.bytes) PROVE F[i] = w.bytes[i]
  <2>1. i \in (HeaderSize + 1)..Len(u.bytes) /\ i \in 1..Len(w.bytes)
    BY <1>1 DEF HeaderSize
  <2> QED  BY <2>1 DEF Grows, At
<1> QED  BY <1>2, <1>3 DEF At

(* Once the reader has failed it stays where it is.                           *)
LEMMA TracksFailed ==
  ASSUME NEW w \in Writers, NEW u, NEW B \in Seq(Octet), Grows(w, u),
         NEW r, NEW s, Tracks(r, w, B), ~ r.ok, s.bytes = B, s.ok \in BOOLEAN, s.ok => r.ok
  PROVE  Tracks(s, u, B) /\ ~ s.ok
<1>1. Len(w.bytes) \in Nat /\ Len(u.bytes) \in Nat /\ Len(B) \in Nat /\ Len(w.bytes) <= Len(u.bytes)
  BY WriterIs DEF Grows
<1>2. ~ Len(w.bytes) <= Len(B)
  BY DEF Tracks
<1>3. ~ Len(u.bytes) <= Len(B)
  BY <1>1, <1>2
<1> QED  BY <1>3 DEF Tracks

(* The bytes behind the writer are there again behind the reader.             *)
LEMMA BytesBack ==
  ASSUME NEW V, NEW r \in Readers(V), NEW w \in Writers, NEW bs \in Seq(Octet), NEW u, u = Write(w, bs),
         NEW F, NEW B, IsCut(F, B), At(u, F), Tracks(r, w, B), NEW s, s = ReadBytes(r, Len(bs))
  PROVE  Tracks(s, u, B) /\ (s.ok => s.got = bs)
<1>0. Len(bs) \in Nat
  OBVIOUS
<1>1. /\ s \in Readers(V) /\ Keeps(r, s)
      /\ s.ok <=> r.ok /\ r.pos + Len(bs) <= Len(r.bytes)
      /\ s.ok => /\ s.got \in Seq(Octet) /\ Len(s.got) = Len(bs) /\ s.pos = r.pos + Len(bs)
                 /\ \A i \in 1..Len(bs) : s.got[i] = r.bytes[r.pos + i]
  <2>1. PICK len \in Nat : len = Len(bs)
    BY <1>0
  <2>2. s = ReadBytes(r, len)
    BY <2>1
  <2>3. /\ s \in Readers(V) /\ Keeps(r, s)
        /\ s.ok <=> r.ok /\ r.pos + len <= Len(r.bytes)
        /\ s.ok => Gets(r, len, s)
    BY <2>2, ReadBytesIs
  <2> QED  BY <2>1, <2>3 DEF Gets
<1>2. Grows(w, u) /\ Puts(w, u, bs)
  <2>1. u.ok
    BY DEF At
  <2> QED  BY <2>1, WriteIs
<1>3. /\ Len(w.bytes) \in Nat /\ Len(u.bytes) = Len(w.bytes) + Len(bs) /\ HeaderSize <= Len(w.bytes)
      /\ Len(B) \in Nat /\ Len(F) \in Nat /\ Len(B) <= Len(F) /\ r.bytes = B
  BY <1>2, WriterIs DEF Puts, IsCut, Tracks
<1>4. s.ok \in BOOLEAN /\ r.pos \in Nat /\ r.ok \in BOOLEAN /\ s.bytes = B
  BY <1>1, <1>3, ReaderIs DEF Keeps
<1>5. CASE r.ok
  <2>1. r.pos = Len(w.bytes)
    BY <1>5 DEF Tracks
  <2>2. s.ok <=> Len(u.bytes) <= Len(B)
    BY <1>1, <1>3, <1>5, <2>1
  <2>3. s.ok => s.pos = Len(u.bytes)
    BY <1>1, <1>3, <2>1
  <2>4. Tracks(s, u, B)
    BY <1>4, <2>2, <2>3 DEF Tracks
  <2>5. ASSUME s.ok PROVE s.got = bs
    <3>1. ASSUME NEW i \in 1..Len(bs) PROVE s.got[i] = bs[i]
      <4>1. Len(w.bytes) + i \in (HeaderSize + 1)..Len(u.bytes) /\ Len(w.bytes) + i \in 1..Len(B)
        BY <1>0, <1>3, <2>2, <2>5 DEF HeaderSize
      <4>2. s.got[i] = B[Len(w.bytes) + i]
        BY <1>1, <1>3, <2>1, <2>5
      <4>3. B[Len(w.bytes) + i] = F[Len(w.bytes) + i]
        BY <4>1 DEF IsCut
      <4>4. F[Len(w.bytes) + i] = u.bytes[Len(w.bytes) + i]
        BY <4>1 DEF At
      <4>5. u.bytes[Len(w.bytes) + i] = bs[i]
        BY <1>2 DEF Puts
      <4> QED  BY <4>2, <4>3, <4>4, <4>5
    <3>2. PICK g : g = s.got
      OBVIOUS
    <3>3. g \in Seq(Octet) /\ Len(g) = Len(bs) /\ \A i \in 1..Len(bs) : g[i] = bs[i]
      BY <1>1, <2>5, <3>1, <3>2
    <3>4. g = bs
      BY <3>3
    <3> QED  BY <3>2, <3>4
  <2> QED  BY <2>4, <2>5
<1>6. CASE ~ r.ok
  <2>1. s.ok => r.ok
    BY <1>1 DEF Keeps
  <2>2. B \in Seq(Octet)
    BY DEF IsCut
  <2>3. Tracks(s, u, B) /\ ~ s.ok
    BY <1>2, <1>4, <1>6, <2>1, <2>2, TracksFailed
  <2> QED  BY <2>3
<1> QED  BY <1>5, <1>6

LEMMA NumberBack ==
  ASSUME NEW V, NEW r \in Readers(V), NEW w \in Writers,
         NEW width \in 0..8, NEW n \in 0..(Power[width] - 1), NEW u, u = Write(w, Digits(width, n)),
         NEW F, NEW B, IsCut(F, B), At(u, F), Tracks(r, w, B), NEW s, s = ReadNumber(r, width)
  PROVE  Tracks(s, u, B) /\ (s.ok => s.got = n)
<1>1. /\ s \in Readers(V) /\ Keeps(r, s) /\ s.got \in Nat
      /\ s.ok <=> r.ok /\ r.pos + width <= Len(r.bytes)
      /\ s.ok => s.pos = r.pos + width
      /\ s.ok = ReadBytes(r, width).ok
      /\ s.ok => s.got = Number(ReadBytes(r, width).got)
  BY ReadNumberIs
<1>2. PICK bs \in Seq(Octet) : bs = Digits(width, n) /\ Len(bs) = width
  <2>1. n \in Nat
    BY PowerIs
  <2> QED  BY <2>1, DigitsIs
<1>3. PICK x : x = ReadBytes(r, width)
  OBVIOUS
<1>4. u = Write(w, bs) /\ x = ReadBytes(r, Len(bs)) /\ width \in Nat
  BY <1>2, <1>3
<1>5. Tracks(x, u, B) /\ (x.ok => x.got = bs)
  BY <1>4, BytesBack
<1>6. x.bytes = s.bytes /\ (x.ok => x.pos = s.pos) /\ s.ok = x.ok /\ s.bytes = B
  <2>1. Keeps(r, x) /\ (x.ok => x.pos = r.pos + width)
    <3>1. PICK k \in Nat : k = width /\ x = ReadBytes(r, k)
      BY <1>3, <1>4
    <3>2. Keeps(r, x) /\ (x.ok => Gets(r, k, x))
      BY <3>1, ReadBytesIs
    <3> QED  BY <3>1, <3>2 DEF Gets
  <2> QED  BY <1>1, <1>3, <1>5, <2>1 DEF Keeps, Tracks
<1>7. Tracks(s, u, B)
  BY <1>5, <1>6 DEF Tracks
<1>8. s.ok => s.got = n
  <2>1. Number(bs) = n
    BY <1>2, NumberOfDigits
  <2> QED  BY <1>1, <1>3, <1>5, <1>6, <2>1
<1> QED  BY <1>7, <1>8

LEMMA StringBack ==
  ASSUME NEW V, NEW r \in Readers(V), NEW w \in Writers,
         NEW v \in Seq(Octet), Len(v) < UInt16, NEW u, u = WriteString(w, v),
         NEW F, NEW B, IsCut(F, B), At(u, F), Tracks(r, w, B), NEW s, s = ReadString(r)
  PROVE  Tracks(s, u, B) /\ (s.ok => s.got = v)
<1>1. PICK x : x = Write(w, Digits(2, Len(v)))
  OBVIOUS
<1>2. u = Write(x, v) /\ Grows(w, x) /\ Grows(x, u)
  BY <1>1, WriteStringIs
<1>3. x \in Writers /\ F \in Seq(Octet) /\ B \in Seq(Octet)
  BY <1>2 DEF Grows, IsCut
<1>4. At(x, F)
  BY <1>2, <1>3, AtBefore
<1>5. PICK len : len = ReadNumber(r, 2)
  OBVIOUS
<1>6. len \in Readers(V) /\ Keeps(r, len) /\ len.got \in Nat
  BY <1>5, CountIs
<1>7. Tracks(len, x, B) /\ (len.ok => len.got = Len(v))
  <2>1. PICK width \in 0..8 : width = 2
    OBVIOUS
  <2>2. PICK n \in 0..(Power[width] - 1) : n = Len(v)
    BY <2>1, StringIs
  <2>3. x = Write(w, Digits(width, n)) /\ len = ReadNumber(r, width)
    BY <1>1, <1>5, <2>1, <2>2
  <2> QED  BY <1>4, <2>2, <2>3, NumberBack
<1>8. CASE len.ok
  <2>1. s = ReadBytes(len, Len(v))
    BY <1>5, <1>7, <1>8 DEF ReadString
  <2> QED  BY <1>2, <1>3, <1>6, <1>7, <2>1, BytesBack
<1>9. CASE ~ len.ok
  <2>1. s = len
    BY <1>5, <1>9 DEF ReadString
  <2>2. s.bytes = B /\ s.ok \in BOOLEAN
    BY <1>6, <1>7, <2>1, ReaderIs DEF Tracks
  <2>3. Tracks(s, u, B) /\ ~ s.ok
    BY <1>2, <1>3, <1>7, <1>9, <2>1, <2>2, TracksFailed
  <2> QED  BY <2>3
<1> QED  BY <1>8, <1>9

LEMMA FieldBack ==
  ASSUME NEW V, Atom \subseteq V, NEW r \in Readers(V), NEW w \in Writers,
         NEW f, IsFlat(f), NEW v, IsValue(f, v), NEW u, u = WriteField(w, f, v),
         NEW F, NEW B, IsCut(F, B), At(u, F), Tracks(r, w, B), NEW s, s = ReadField(r, f)
  PROVE  /\ Tracks(s, u, B) /\ (s.ok => s.val = Append(r.val, v))
         /\ s \in Readers(V) /\ s.bytes = r.bytes /\ (s.ok => r.ok)
<1>1. PICK x : x = ReadOne(r, f)
  OBVIOUS
<1>2. Tracks(x, u, B) /\ (x.ok => x.got = v)
  <2>1. CASE f.kind = "string"
    <3>1. v \in Seq(Octet) /\ Len(v) < UInt16
      BY <2>1 DEF IsValue
    <3>2. u = WriteString(w, v) /\ x = ReadString(r)
      BY <1>1, <2>1 DEF WriteField, ReadOne
    <3> QED  BY <3>1, <3>2, StringBack
  <2>2. CASE f.kind # "string"
    <3>1. f.width \in 1..8 /\ v \in 0..(Power[f.width] - 1)
      BY <2>2, ScalarIs
    <3>2. PICK width \in 0..8 : width = f.width
      BY <3>1
    <3>3. PICK n \in 0..(Power[width] - 1) : n = v
      BY <3>1, <3>2
    <3>4. u = Write(w, Digits(width, n)) /\ x = ReadNumber(r, width)
      BY <1>1, <2>2, <3>2, <3>3 DEF WriteField, ReadOne
    <3>5. Tracks(x, u, B) /\ (x.ok => x.got = n)
      BY <3>4, NumberBack
    <3> QED  BY <3>3, <3>5
  <2> QED  BY <2>1, <2>2
<1>3. /\ s \in Readers(V) /\ s.bytes = r.bytes /\ (s.ok => r.ok)
      /\ s.pos = x.pos /\ s.ok = x.ok /\ s.val = Append(r.val, x.got)
  BY <1>1, ReadFieldIs
<1>4. r.bytes = B
  BY DEF Tracks
<1>5. Tracks(s, u, B)
  BY <1>2, <1>3, <1>4 DEF Tracks
<1> QED  BY <1>2, <1>3, <1>5

(* The first values of v.                                                     *)
HasFirst(q, v, n) == Len(q) = n /\ \A j \in 1..n : q[j] = v[j]

LEMMA FirstAnd ==
  ASSUME NEW V, NEW q \in Seq(V), NEW v, NEW n \in Nat, HasFirst(q, v, n), NEW e \in V, e = v[n + 1],
         NEW t, t = Append(q, e)
  PROVE  HasFirst(t, v, n + 1)
<1>1. Len(q) = n
  BY DEF HasFirst
<1>2. Len(t) = n + 1
  BY <1>1
<1>3. ASSUME NEW j \in 1..(n + 1) PROVE t[j] = v[j]
  <2>1. CASE j = n + 1
    BY <1>1, <2>1
  <2>2. CASE j # n + 1
    <3>1. j \in 1..n
      BY <2>2
    <3>2. t[j] = q[j]
      BY <1>1, <3>1
    <3> QED  BY <3>1, <3>2 DEF HasFirst
  <2> QED  BY <2>1, <2>2
<1> QED  BY <1>2, <1>3 DEF HasFirst

LEMMA FirstAll ==
  ASSUME NEW V, NEW q \in Seq(V), NEW v, NEW n \in Nat, HasFirst(q, v, n), IsTuple(v, n)
  PROVE  q = v
<1>1. Len(q) = n /\ \A j \in 1..n : q[j] = v[j]
  BY DEF HasFirst
<1>2. q = [j \in 1..n |-> q[j]]
  BY <1>1
<1>3. v = [j \in 1..n |-> v[j]]
  BY DEF IsTuple
<1> QED  BY <1>1, <1>2, <1>3

LEMMA AppendedType ==
  ASSUME NEW V, NEW q \in Seq(V), NEW e, Append(q, e) \in Seq(V)
  PROVE  e \in V
<1>1. PICK t \in Seq(V) : t = Append(q, e)
  OBVIOUS
<1>2. Len(t) = Len(q) + 1 /\ t[Len(q) + 1] = e /\ Len(q) \in Nat
  BY <1>1
<1>3. Len(q) + 1 \in 1..Len(t)
  BY <1>2
<1> QED  BY <1>2, <1>3

LEMMA ItemBack ==
  ASSUME NEW V, NEW r \in Readers(V), NEW w \in Writers,
         NEW fields, IsItemType(fields), NEW v, IsItem(fields, v), NEW u, u = WriteItem(w, fields, v),
         NEW F, NEW B, IsCut(F, B), At(u, F), Tracks(r, w, B), NEW s, s = ReadItem(r, fields)
  PROVE  Tracks(s, u, B) /\ (s.ok => s.val = v)
<1>1. PICK n \in Nat : n = Len(fields) /\ n > 0
  BY DEF IsItemType
<1>2. PICK x \in [0..n -> Writers] :
        /\ x[0] = w /\ u = x[n]
        /\ \A i \in 1..n : x[i] = WriteField(x[i - 1], fields[i], v[i])
  BY <1>1, WriteItemIs
<1>3. PICK q \in [0..n -> Readers(Atom)] :
        /\ q[0] = [r EXCEPT !.val = <<>>] /\ s = q[n]
        /\ \A i \in 1..n : q[i] = ReadField(q[i - 1], fields[i])
  <2>1. \E q \in [0..Len(fields) -> Readers(Atom)] :
          /\ q[0] = [r EXCEPT !.val = <<>>] /\ ReadItem(r, fields) = q[Len(fields)]
          /\ \A i \in 1..Len(fields) : q[i] = ReadField(q[i - 1], fields[i])
    BY ReadItemIs
  <2> QED  BY <1>1, <2>1
<1>4. \A i \in 0..n : Grows(x[0], x[i]) /\ Grows(x[i], x[n])
  BY <1>1, <1>2, WriteItemGrows
<1>5. ASSUME NEW i \in 0..n PROVE At(x[i], F)
  <2>1. PICK y \in Writers : y = x[i]
    BY <1>2
  <2>2. Grows(y, u) /\ F \in Seq(Octet)
    BY <1>2, <1>4, <2>1 DEF IsCut
  <2>3. At(y, F)
    BY <2>2, AtBefore
  <2> QED  BY <2>1, <2>3
<1> DEFINE P == {i \in Nat : i <= n => Tracks(q[i], x[i], B) /\
        (q[i].ok => HasFirst(q[i].val, v, i))}
<1>6. 0 \in P
  <2>1. PICK W, a : W = Atom /\ a = [r EXCEPT !.val = <<>>]
    OBVIOUS
  <2>2. a.bytes = r.bytes /\ a.pos = r.pos /\ a.ok = r.ok /\ a.val = <<>>
    BY <2>1, EmptyValues
  <2>3. Tracks(a, w, B)
    BY <2>2 DEF Tracks
  <2>4. HasFirst(a.val, v, 0)
    BY <2>2 DEF HasFirst
  <2> QED  BY <1>2, <1>3, <2>1, <2>3, <2>4
<1>7. ASSUME NEW i \in Nat, i \in P PROVE i + 1 \in P
  <2> SUFFICES ASSUME i + 1 <= n
               PROVE  Tracks(q[i + 1], x[i + 1], B) /\
                    (q[i + 1].ok => HasFirst(q[i + 1].val, v, i + 1))
    OBVIOUS
  <2>1. i + 1 \in 1..n /\ (i + 1) - 1 = i /\ i \in 0..n /\ i + 1 \in 0..n
    OBVIOUS
  <2>2. IsFlat(fields[i + 1]) /\ IsValue(fields[i + 1], v[i + 1])
    BY <1>1, <2>1 DEF IsItemType, IsItem
  <2>3. PICK T, f, e, z, t : T = Atom /\ f = fields[i + 1] /\ e = v[i + 1] /\ z = x[i + 1] /\
          t = q[i + 1]
    OBVIOUS
  <2>4. PICK y \in Writers : y = x[i]
    BY <1>2, <2>1
  <2>5. PICK p \in Readers(T) : p = q[i]
    BY <1>3, <2>1, <2>3
  <2>6. z = WriteField(y, f, e) /\ t = ReadField(p, f)
    BY <1>2, <1>3, <2>1, <2>3, <2>4, <2>5
  <2>7. At(z, F)
    BY <1>5, <2>1, <2>3
  <2>8. Tracks(p, y, B) /\ (p.ok => HasFirst(p.val, v, i))
    BY <1>7, <2>1, <2>4, <2>5
  <2>9. Atom \subseteq T /\ IsFlat(f) /\ IsValue(f, e)
    BY <2>2, <2>3
  <2>10. /\ Tracks(t, z, B) /\ (t.ok => t.val = Append(p.val, e))
         /\ t \in Readers(T) /\ t.bytes = p.bytes /\ (t.ok => p.ok)
    BY <2>6, <2>7, <2>8, <2>9, FieldBack
  <2>11. ASSUME t.ok PROVE HasFirst(t.val, v, i + 1)
    <3>1. PICK c \in Seq(T), d \in Seq(T) : c = p.val /\ d = t.val
      BY <2>10, ReaderIs
    <3>2. d = Append(c, e) /\ HasFirst(c, v, i) /\ e = v[i + 1]
      BY <2>3, <2>8, <2>10, <2>11, <3>1
    <3>3. e \in T
      BY <3>2, AppendedType
    <3>4. HasFirst(d, v, i + 1)
      BY <3>2, <3>3, FirstAnd
    <3> QED  BY <3>1, <3>4
  <2> QED  BY <2>3, <2>10, <2>11
<1>8. n \in P
  <2> HIDE DEF P
  <2> QED  BY <1>6, <1>7, InductionSet
<1>9. Tracks(s, u, B) /\ (s.ok => HasFirst(s.val, v, n))
  BY <1>2, <1>3, <1>8
<1>10. ASSUME s.ok PROVE s.val = v
  <2>1. PICK T : T = Atom
    OBVIOUS
  <2>2. s \in Readers(T)
    <3>1. n \in 0..n
      OBVIOUS
    <3> QED  BY <1>3, <2>1, <3>1
  <2>3. PICK c \in Seq(T) : c = s.val
    BY <2>2, ReaderIs
  <2>4. HasFirst(c, v, n) /\ IsTuple(v, n)
    BY <1>1, <1>9, <1>10, <2>3 DEF IsItem
  <2>5. c = v
    BY <2>4, FirstAll
  <2> QED  BY <2>3, <2>5
<1> QED  BY <1>9, <1>10

LEMMA SmallRest ==
  ASSUME NEW n \in Nat, n < UInt16
  PROVE  n % UInt16 = n
<1>1. PICK q \in Nat : q = UInt16 /\ n < q /\ q > 0
  BY UInt16Is
<1>2. n = q * 0 + n
  BY <1>1
<1>3. n = n % q
  BY <1>1, <1>2, DivideUnique
<1> QED  BY <1>1, <1>3

LEMMA ListBack ==
  ASSUME NEW V, Seq(Seq(Atom)) \subseteq V, NEW r \in Readers(V), NEW w \in Writers,
         NEW item, IsItemType(item), NEW v, IsList(item, v), NEW u, u = WriteList(w, item, v),
         NEW F, NEW B, IsCut(F, B), At(u, F), Tracks(r, w, B), NEW s, s = ReadList(r, item)
  PROVE  /\ Tracks(s, u, B) /\ (s.ok => s.val = Append(r.val, v))
         /\ s \in Readers(V) /\ s.bytes = r.bytes /\ (s.ok => r.ok)
<1>0. /\ s \in Readers(V) /\ s.bytes = r.bytes /\ (s.ok => r.ok)
      /\ F \in Seq(Octet) /\ B \in Seq(Octet) /\ r.bytes = B
  BY ReadListType DEF IsCut, Tracks
<1>1. PICK n \in Nat : n = Len(v)
  BY DEF IsList
<1>2. PICK x \in [0..n -> Writers] :
        /\ x[0] = Write(w, Digits(2, n % UInt16)) /\ u = x[n]
        /\ \A i \in 1..n : x[i] = WriteItem(x[i - 1], item, v[i])
  BY <1>1, WriteListIs
<1>3. /\ \A i \in 0..n : Grows(w, x[i]) /\ Grows(x[i], x[n])
      /\ \A i \in 1..n : Grows(x[i - 1], x[i])
      /\ x[n].ok => n < UInt16
  BY <1>1, <1>2, WriteListGrows
<1>4. n < UInt16 /\ n % UInt16 = n
  <2>1. x[n].ok
    BY <1>2 DEF At
  <2> QED  BY <1>3, <2>1, SmallRest
<1>5. ASSUME NEW i \in 0..n PROVE At(x[i], F)
  <2>1. PICK y \in Writers : y = x[i]
    BY <1>2
  <2>2. Grows(y, u)
    BY <1>2, <1>3, <2>1
  <2>3. At(y, F)
    BY <1>0, <2>2, AtBefore
  <2> QED  BY <2>1, <2>3
<1>6. PICK count : count = ReadNumber(r, 2)
  OBVIOUS
<1>7. count \in Readers(V) /\ Keeps(r, count) /\ count.got \in Nat
  BY <1>6, CountIs
<1>8. Tracks(count, x[0], B) /\ (count.ok => count.got = n)
  <2>1. PICK width \in 0..8 : width = 2
    OBVIOUS
  <2>2. PICK m \in 0..(Power[width] - 1) : m = n
    BY <1>4, <2>1, UInt16Is
  <2>3. PICK z : z = x[0]
    OBVIOUS
  <2>4. z = Write(w, Digits(width, m)) /\ count = ReadNumber(r, width)
    BY <1>2, <1>4, <1>6, <2>1, <2>2, <2>3
  <2>5. At(z, F)
    BY <1>5, <2>3
  <2>6. Tracks(count, z, B) /\ (count.ok => count.got = m)
    BY <2>4, <2>5, NumberBack
  <2> QED  BY <2>2, <2>3, <2>6
<1>9. PICK q \in [0..count.got -> Readers(Seq(Atom))] :
        /\ q[0] = [count EXCEPT !.val = <<>>]
        /\ s = IF count.ok THEN [q[count.got] EXCEPT !.val = Append(r.val, @)] ELSE count
        /\ \A i \in 1..count.got : q[i] = ReadNext(q[i - 1], item)
  <2>1. \E q \in [0..ReadNumber(r, 2).got -> Readers(Seq(Atom))] :
          /\ q[0] = [ReadNumber(r, 2) EXCEPT !.val = <<>>]
          /\ ReadList(r, item) = IF ReadNumber(r, 2).ok
                                   THEN [q[ReadNumber(r, 2).got] EXCEPT !.val = Append(r.val, @)]
                                   ELSE ReadNumber(r, 2)
          /\ \A i \in 1..ReadNumber(r, 2).got : q[i] = ReadNext(q[i - 1], item)
    BY ReadListIs
  <2> QED  BY <1>6, <2>1
<1>10. CASE ~ count.ok
  <2>1. s = count
    BY <1>9, <1>10
  <2>2. PICK y \in Writers : y = x[0]
    BY <1>2
  <2>3. Grows(y, u) /\ Tracks(count, y, B)
    <3>1. 0 \in 0..n
      OBVIOUS
    <3> QED  BY <1>2, <1>3, <1>8, <2>2, <3>1
  <2>4. s.bytes = B /\ s.ok \in BOOLEAN
    BY <1>0, ReaderIs
  <2>5. Tracks(s, u, B) /\ ~ s.ok
    BY <1>0, <1>10, <2>1, <2>3, <2>4, TracksFailed
  <2> QED  BY <1>0, <2>5
<1>11. CASE count.ok
  <2>0. /\ q \in [0..n -> Readers(Seq(Atom))] /\ q[0] = [count EXCEPT !.val = <<>>]
        /\ s = [q[n] EXCEPT !.val = Append(r.val, @)]
        /\ \A i \in 1..n : q[i] = ReadNext(q[i - 1], item)
    BY <1>8, <1>9, <1>11
  <2> DEFINE P == {i \in Nat : i <= n => Tracks(q[i], x[i], B) /\
          (q[i].ok => HasFirst(q[i].val, v, i))}
  <2>1. 0 \in P
    <3>1. PICK W, a : W = Seq(Atom) /\ a = [count EXCEPT !.val = <<>>]
      OBVIOUS
    <3>2. a.bytes = count.bytes /\ a.pos = count.pos /\ a.ok = count.ok /\ a.val = <<>>
      BY <1>7, <3>1, EmptyValues
    <3>3. Tracks(a, x[0], B)
      BY <1>8, <3>2 DEF Tracks
    <3>4. HasFirst(a.val, v, 0)
      BY <3>2 DEF HasFirst
    <3> QED  BY <2>0, <3>1, <3>3, <3>4
  <2>2. ASSUME NEW i \in Nat, i \in P PROVE i + 1 \in P
    <3> SUFFICES ASSUME i + 1 <= n
                 PROVE  Tracks(q[i + 1], x[i + 1], B) /\
                      (q[i + 1].ok => HasFirst(q[i + 1].val, v, i + 1))
      OBVIOUS
    <3>1. i + 1 \in 1..n /\ (i + 1) - 1 = i /\ i \in 0..n /\ i + 1 \in 0..n
      OBVIOUS
    <3>2. PICK T, e, z, t : T = Seq(Atom) /\ e = v[i + 1] /\ z = x[i + 1] /\ t = q[i + 1]
      OBVIOUS
    <3>3. IsItem(item, e)
      BY <1>1, <3>1, <3>2 DEF IsList
    <3>4. PICK y \in Writers : y = x[i]
      BY <1>2, <3>1
    <3>5. PICK p \in Readers(T) : p = q[i]
      BY <2>0, <3>1, <3>2
    <3>6. z = WriteItem(y, item, e) /\ t = ReadNext(p, item) /\ Grows(y, z)
      BY <1>2, <1>3, <2>0, <3>1, <3>2, <3>4, <3>5
    <3>7. At(z, F)
      BY <1>5, <3>1, <3>2
    <3>8. Tracks(p, y, B) /\ (p.ok => HasFirst(p.val, v, i))
      BY <2>2, <3>1, <3>4, <3>5
    <3>9. /\ t \in Readers(T) /\ t.bytes = p.bytes /\ (t.ok => p.ok)
          /\ p.ok => /\ t.ok = ReadItem(p, item).ok /\ t.pos = ReadItem(p, item).pos
                     /\ t.val = Append(p.val, ReadItem(p, item).val)
      BY <3>2, <3>5, <3>6, ReadNextIs
    <3>10. CASE p.ok
      <4>1. PICK g : g = ReadItem(p, item)
        OBVIOUS
      <4>2. Tracks(g, z, B) /\ (g.ok => g.val = e)
        BY <3>3, <3>6, <3>7, <3>8, <4>1, ItemBack
      <4>3. t.ok = g.ok /\ t.pos = g.pos /\ t.val = Append(p.val, g.val) /\ t.bytes = B
        BY <3>8, <3>9, <3>10, <4>1 DEF Tracks
      <4>4. Tracks(t, z, B)
        BY <4>2, <4>3 DEF Tracks
      <4>5. ASSUME t.ok PROVE HasFirst(t.val, v, i + 1)
        <5>1. PICK c \in Seq(T), d \in Seq(T) : c = p.val /\ d = t.val
          BY <3>9, ReaderIs
        <5>2. d = Append(c, e) /\ HasFirst(c, v, i) /\ e = v[i + 1]
          BY <3>2, <3>8, <3>10, <4>2, <4>3, <4>5, <5>1
        <5>3. e \in T
          BY <5>2, AppendedType
        <5>4. HasFirst(d, v, i + 1)
          BY <5>2, <5>3, FirstAnd
        <5> QED  BY <5>1, <5>4
      <4> QED  BY <3>2, <4>4, <4>5
    <3>11. CASE ~ p.ok
      <4>1. t.bytes = B /\ t.ok \in BOOLEAN
        BY <3>8, <3>9, ReaderIs DEF Tracks
      <4>2. Tracks(t, z, B) /\ ~ t.ok
        BY <1>0, <3>6, <3>8, <3>9, <3>11, <4>1, TracksFailed
      <4> QED  BY <3>2, <4>2
    <3> QED  BY <3>10, <3>11
  <2>3. n \in P
    <3> HIDE DEF P
    <3> QED  BY <2>1, <2>2, InductionSet
  <2>4. PICK T, g : T = Seq(Atom) /\ g = q[n]
    OBVIOUS
  <2>5. g \in Readers(T)
    <3>1. n \in 0..n
      OBVIOUS
    <3> QED  BY <2>0, <2>4, <3>1
  <2>6. Tracks(g, u, B) /\ (g.ok => HasFirst(g.val, v, n))
    BY <1>2, <2>3, <2>4
  <2>7. PICK c \in Seq(T) : c = g.val
    BY <2>5, ReaderIs
  <2>8. g.ok => c = v
    <3>1. IsTuple(v, n)
      BY <1>1 DEF IsList
    <3> QED  BY <2>6, <2>7, <3>1, FirstAll
  <2>9. PICK a : a = Append(r.val, c)
    OBVIOUS
  <2>10. a \in Seq(V)
    <3>1. c \in V
      BY <2>4, <2>7
    <3>2. r.val \in Seq(V)
      BY ReaderIs
    <3> QED  BY <2>9, <3>1, <3>2
  <2>11. s = [g EXCEPT !.val = a]
    BY <2>0, <2>4, <2>7, <2>9
  <2>12. s.bytes = g.bytes /\ s.pos = g.pos /\ s.ok = g.ok /\ s.val = a
    BY <2>5, <2>10, <2>11, AddValue
  <2>13. Tracks(s, u, B)
    BY <2>6, <2>12 DEF Tracks
  <2> QED  BY <1>0, <2>8, <2>9, <2>12, <2>13
<1> QED  BY <1>10, <1>11

LEMMA AnyBack ==
  ASSUME NEW r \in Readers(FieldValues), NEW w \in Writers,
         NEW f, IsField(f), NEW v, Fits(f, v), NEW u, u = WriteAny(w, f, v),
         NEW F, NEW B, IsCut(F, B), At(u, F), Tracks(r, w, B), NEW s, s = ReadAny(r, f)
  PROVE  Tracks(s, u, B) /\ (s.ok => r.ok /\ s.val = Append(r.val, v))
<1>1. PICK V : V = FieldValues
  OBVIOUS
<1>2. r \in Readers(V) /\ Atom \subseteq V /\ Seq(Seq(Atom)) \subseteq V
  BY <1>1 DEF FieldValues
<1>3. CASE ~ r.ok
  <2>1. s = r
    BY <1>3 DEF ReadAny
  <2>2. Grows(w, u) /\ B \in Seq(Octet)
    BY AnyGrows DEF IsCut
  <2>3. s.bytes = B /\ s.ok \in BOOLEAN
    BY <1>2, <2>1, ReaderIs DEF Tracks
  <2>4. Tracks(s, u, B) /\ ~ s.ok
    BY <1>3, <2>1, <2>2, <2>3, TracksFailed
  <2> QED  BY <2>4
<1>4. CASE r.ok /\ f.kind = "list"
  <2>1. PICK item : item = f.item
    OBVIOUS
  <2>2. /\ s = ReadList(r, item) /\ IsItemType(item)
        /\ IsList(item, v) /\ u = WriteList(w, item, v)
    BY <1>4, <2>1 DEF ReadAny, WriteAny, IsField, IsFlat, Fits
  <2> QED  BY <1>2, <1>4, <2>2, ListBack
<1>5. CASE r.ok /\ f.kind # "list"
  <2>1. s = ReadField(r, f) /\ IsFlat(f) /\ IsValue(f, v) /\ u = WriteField(w, f, v)
    BY <1>5 DEF ReadAny, WriteAny, IsField, Fits
  <2> QED  BY <1>2, <1>5, <2>1, FieldBack
<1> QED  BY <1>3, <1>4, <1>5

(* A packet comes back field by field, or is cut and refused.                 *)
LEMMA FieldsBack ==
  ASSUME NEW r \in Readers(FieldValues), r.val = <<>>, NEW w \in Writers,
         NEW fields, AreFields(fields), NEW v, ArePacket(fields, v), IsTuple(v, Len(fields)),
         NEW u, u = WriteFields(w, fields, v),
         NEW F, NEW B, IsCut(F, B), At(u, F), Tracks(r, w, B), NEW s, s = ReadFields(r, fields)
  PROVE  Tracks(s, u, B) /\ (s.ok => s.val = v)
<1>1. PICK n \in Nat : n = Len(fields)
  BY DEF AreFields
<1>2. PICK x \in [0..n -> Writers] :
        /\ x[0] = w /\ u = x[n]
        /\ \A i \in 1..n : x[i] = WriteAny(x[i - 1], fields[i], v[i])
  <2>1. PICK y \in [0..Len(fields) -> Writers] :
          /\ y[0] = w /\ WriteFields(w, fields, v) = y[Len(fields)]
          /\ \A i \in 1..Len(fields) : y[i] = WriteAny(y[i - 1], fields[i], v[i])
    BY WriteFieldsIs
  <2> QED  BY <1>1, <2>1
<1>3. PICK q \in [0..n -> Readers(FieldValues)] :
        /\ q[0] = r /\ s = q[n]
        /\ \A i \in 1..n : q[i] = ReadAny(q[i - 1], fields[i])
  BY <1>1, ReadFieldsIs
<1>4. \A i \in 0..n : Grows(w, x[i]) /\ Grows(x[i], x[n])
  BY <1>1, <1>2, WriteFieldsGrows
<1>5. ASSUME NEW i \in 0..n PROVE At(x[i], F)
  <2>1. PICK y \in Writers : y = x[i]
    BY <1>2
  <2>2. Grows(y, u) /\ F \in Seq(Octet)
    BY <1>2, <1>4, <2>1 DEF IsCut
  <2>3. At(y, F)
    BY <2>2, AtBefore
  <2> QED  BY <2>1, <2>3
<1> DEFINE P == {i \in Nat : i <= n => Tracks(q[i], x[i], B) /\
        (q[i].ok => HasFirst(q[i].val, v, i))}
<1>6. 0 \in P
  <2>1. HasFirst(r.val, v, 0)
    BY DEF HasFirst
  <2> QED  BY <1>2, <1>3, <2>1
<1>7. ASSUME NEW i \in Nat, i \in P PROVE i + 1 \in P
  <2> SUFFICES ASSUME i + 1 <= n
               PROVE  Tracks(q[i + 1], x[i + 1], B) /\
                    (q[i + 1].ok => HasFirst(q[i + 1].val, v, i + 1))
    OBVIOUS
  <2>1. i + 1 \in 1..n /\ (i + 1) - 1 = i /\ i \in 0..n /\ i + 1 \in 0..n
    OBVIOUS
  <2>2. PICK T, f, e, z, t : T = FieldValues /\ f = fields[i + 1] /\ e = v[i + 1] /\
          z = x[i + 1] /\ t = q[i + 1]
    OBVIOUS
  <2>3. IsField(f) /\ Fits(f, e)
    BY <1>1, <2>1, <2>2 DEF ArePacket
  <2>4. PICK y \in Writers : y = x[i]
    BY <1>2, <2>1
  <2>5. PICK p \in Readers(FieldValues) : p = q[i]
    BY <1>3, <2>1
  <2>6. z = WriteAny(y, f, e) /\ t = ReadAny(p, f)
    BY <1>2, <1>3, <2>1, <2>2, <2>4, <2>5
  <2>7. At(z, F)
    BY <1>5, <2>1, <2>2
  <2>8. Tracks(p, y, B) /\ (p.ok => HasFirst(p.val, v, i))
    BY <1>7, <2>1, <2>4, <2>5
  <2>9. Tracks(t, z, B) /\ (t.ok => p.ok /\ t.val = Append(p.val, e))
    BY <2>3, <2>6, <2>7, <2>8, AnyBack
  <2>10. ASSUME t.ok PROVE HasFirst(t.val, v, i + 1)
    <3>1. t \in Readers(T) /\ p \in Readers(T)
      BY <1>3, <2>1, <2>2, <2>5
    <3>2. PICK c \in Seq(T), d \in Seq(T) : c = p.val /\ d = t.val
      BY <3>1, ReaderIs
    <3>3. d = Append(c, e) /\ HasFirst(c, v, i) /\ e = v[i + 1]
      BY <2>2, <2>8, <2>9, <2>10, <3>2
    <3>4. e \in T
      BY <3>3, AppendedType
    <3>5. HasFirst(d, v, i + 1)
      BY <3>3, <3>4, FirstAnd
    <3> QED  BY <3>2, <3>5
  <2> QED  BY <2>2, <2>9, <2>10
<1>8. n \in P
  <2> HIDE DEF P
  <2> QED  BY <1>6, <1>7, InductionSet
<1>9. Tracks(s, u, B) /\ (s.ok => HasFirst(s.val, v, n))
  BY <1>2, <1>3, <1>8
<1>10. ASSUME s.ok PROVE s.val = v
  <2>1. PICK T : T = FieldValues
    OBVIOUS
  <2>2. s \in Readers(T)
    <3>1. n \in 0..n
      OBVIOUS
    <3> QED  BY <1>3, <2>1, <3>1
  <2>3. PICK c \in Seq(T) : c = s.val
    BY <2>2, ReaderIs
  <2>4. HasFirst(c, v, n) /\ IsTuple(v, n)
    BY <1>1, <1>9, <1>10, <2>3
  <2>5. c = v
    BY <2>4, FirstAll
  <2> QED  BY <2>3, <2>5
<1> QED  BY <1>9, <1>10

-----------------------------------------------------------------------------
(* The packets of the protocol.                                               *)
LEMMA KindsAre ==
  /\ IsFlat(Bool) /\ IsFlat(Int32) /\ IsFlat(UInt64) /\ IsFlat(String)
  /\ IsField(Bool) /\ IsField(Int32) /\ IsField(UInt64) /\ IsField(String)
  /\ IsField(List(<<Int32, String, Int32>>)) /\ IsField(List(<<String>>))
<1>1. IsFlat(Bool) /\ IsFlat(Int32) /\ IsFlat(UInt64)
  BY DEF IsFlat, Bool, Int32, UInt64, Scalar
<1>2. IsFlat(String)
  BY DEF IsFlat, String
<1>3. IsItemType(<<Int32, String, Int32>>)
  <2>1. PICK a, b : a = Int32 /\ b = String
    OBVIOUS
  <2>2. Len(<<a, b, a>>) = 3 /\ \A i \in 1..3 : <<a, b, a>>[i] \in {a, b}
    OBVIOUS
  <2> QED  BY <1>1, <1>2, <2>1, <2>2 DEF IsItemType
<1>4. IsItemType(<<String>>)
  <2>1. PICK b : b = String
    OBVIOUS
  <2>2. Len(<<b>>) = 1 /\ \A i \in 1..1 : <<b>>[i] = b
    OBVIOUS
  <2> QED  BY <1>2, <2>1, <2>2 DEF IsItemType
<1>5. IsField(Bool) /\ IsField(Int32) /\ IsField(UInt64) /\ IsField(String)
  <2>1. ASSUME NEW f, IsFlat(f) PROVE IsField(f)
    BY <2>1 DEF IsField
  <2> QED  BY <1>1, <1>2, <2>1
<1>6. IsField(List(<<Int32, String, Int32>>)) /\ IsField(List(<<String>>))
  BY <1>3, <1>4 DEF IsField, List
<1> QED  BY <1>1, <1>2, <1>5, <1>6

LEMMA TuplesOf ==
  ASSUME NEW a, NEW b, NEW c, NEW d, IsField(a), IsField(b), IsField(c), IsField(d)
  PROVE  /\ AreFields(<<>>) /\ AreFields(<<a>>) /\ AreFields(<<a, b>>) /\ AreFields(<<a, b, c, d>>)
<1>1. AreFields(<<>>)
  BY DEF AreFields
<1>2. AreFields(<<a>>)
  BY DEF AreFields
<1>3. AreFields(<<a, b>>)
  BY DEF AreFields
<1>4. AreFields(<<a, b, c, d>>)
  <2>1. Len(<<a, b, c, d>>) = 4 /\ \A i \in 1..4 : <<a, b, c, d>>[i] \in {a, b, c, d}
    OBVIOUS
  <2> QED  BY <2>1 DEF AreFields
<1> QED  BY <1>1, <1>2, <1>3, <1>4

LEMMA LayoutsAre ==
  /\ Len(Layouts) = 15
  /\ \A k \in 1..15 : AreFields(Layouts[k])
<1>1. PICK bool, int, long, str, rooms, users :
        /\ bool = Bool /\ int = Int32 /\ long = UInt64 /\ str = String
        /\ rooms = List(<<Int32, String, Int32>>) /\ users = List(<<String>>)
  OBVIOUS
<1>2. /\ IsField(bool) /\ IsField(int) /\ IsField(long) /\ IsField(str)
      /\ IsField(rooms) /\ IsField(users)
  BY <1>1, KindsAre
<1>3. AreFields(C_LOGIN) /\ AreFields(C_ROOM_CHAT) /\ AreFields(C_GLOBAL_CHAT) /\
        AreFields(S_NOTICE)
  <2>1. AreFields(<<str>>)
    BY <1>2, TuplesOf
  <2> QED  BY <1>1, <2>1 DEF C_LOGIN, C_ROOM_CHAT, C_GLOBAL_CHAT, S_NOTICE
<1>4. AreFields(S_LOGIN)
  <2>1. AreFields(<<bool, long, str, str>>)
    BY <1>2, TuplesOf
  <2> QED  BY <1>1, <2>1 DEF S_LOGIN
<1>5. AreFields(C_HEARTBEAT) /\ AreFields(S_HEARTBEAT)
  <2>1. AreFields(<<long>>)
    BY <1>2, TuplesOf
  <2> QED  BY <1>1, <2>1 DEF C_HEARTBEAT, S_HEARTBEAT
<1>6. AreFields(C_ROOM_LIST) /\ AreFields(C_LEAVE_ROOM)
  <2>1. AreFields(<<>>)
    BY <1>2, TuplesOf
  <2> QED  BY <2>1 DEF C_ROOM_LIST, C_LEAVE_ROOM
<1>7. AreFields(S_ROOM_LIST)
  <2>1. AreFields(<<rooms>>)
    BY <1>2, TuplesOf
  <2> QED  BY <1>1, <2>1 DEF S_ROOM_LIST
<1>8. AreFields(C_ENTER_ROOM)
  <2>1. AreFields(<<int, str>>)
    BY <1>2, TuplesOf
  <2> QED  BY <1>1, <2>1 DEF C_ENTER_ROOM
<1>9. AreFields(S_ENTER_ROOM)
  <2>1. AreFields(<<bool, int, str, users>>)
    BY <1>2, TuplesOf
  <2> QED  BY <1>1, <2>1 DEF S_ENTER_ROOM
<1>10. AreFields(S_LEAVE_ROOM)
  <2>1. AreFields(<<bool>>)
    BY <1>2, TuplesOf
  <2> QED  BY <1>1, <2>1 DEF S_LEAVE_ROOM
<1>11. AreFields(S_ROOM_CHAT) /\ AreFields(S_GLOBAL_CHAT)
  <2>1. AreFields(<<str, str>>)
    BY <1>2, TuplesOf
  <2> QED  BY <1>1, <2>1 DEF S_ROOM_CHAT, S_GLOBAL_CHAT
<1>12. Len(Layouts) = 15
  BY DEF Layouts
<1>13. ASSUME NEW k \in 1..15
       PROVE  Layouts[k] \in {C_LOGIN, S_LOGIN, C_HEARTBEAT, S_HEARTBEAT, C_ROOM_LIST, S_ROOM_LIST,
                              C_ENTER_ROOM, S_ENTER_ROOM, C_LEAVE_ROOM, S_LEAVE_ROOM, C_ROOM_CHAT,
                              S_ROOM_CHAT, C_GLOBAL_CHAT, S_GLOBAL_CHAT, S_NOTICE}
  BY DEF Layouts
<1> QED  BY <1>3, <1>4, <1>5, <1>6, <1>7, <1>8, <1>9, <1>10, <1>11, <1>12, <1>13

LEMMA PacketIs ==
  ASSUME NEW id, NEW v, IsPacket(id, v)
  PROVE  /\ AreFields(Layout(id)) /\ ArePacket(Layout(id), v) /\ IsTuple(v, Len(Layout(id)))
         /\ id \in Nat /\ id < UInt16 /\ id \in ServerCases \cup ClientCases
<1>1. id \in PacketIds /\ IsTuple(v, Len(Layout(id)))
  BY DEF IsPacket
<1>2. PICK k \in 1..15 : id = FirstId + (k - 1) /\ Layout(id) = Layouts[k]
  <2>1. id \in FirstId..(FirstId + 14)
    BY <1>1, LayoutsAre, CodecAssumption DEF PacketIds
  <2>2. id - FirstId + 1 \in 1..15 /\ id = FirstId + ((id - FirstId + 1) - 1)
    BY <2>1, CodecAssumption
  <2> QED  BY <2>2 DEF Layout
<1>3. AreFields(Layout(id))
  BY <1>2, LayoutsAre
<1>4. ArePacket(Layout(id), v)
  <2>1. PICK fields : fields = Layout(id)
    OBVIOUS
  <2>2. \A i \in 1..Len(fields) : IsField(fields[i])
    BY <1>3, <2>1 DEF AreFields
  <2>3. \A i \in 1..Len(fields) : Fits(fields[i], v[i])
    BY <2>1 DEF IsPacket, Fits
  <2> QED  BY <1>3, <2>1, <2>2, <2>3 DEF ArePacket, AreFields
<1>5. id \in Nat /\ id < UInt16
  BY <1>2, CodecAssumption, UInt16Is
<1>6. id \in ServerCases \cup ClientCases
  <2>1. k - 1 \in {0, 2, 4, 6, 8, 10, 12} \/ k - 1 \in {1, 3, 5, 7, 9, 11, 13, 14}
    OBVIOUS
  <2> QED  BY <1>2, <2>1 DEF ServerCases, ClientCases
<1> QED  BY <1>1, <1>3, <1>4, <1>5, <1>6

(* The number n is at the reader; the header gives m bytes and the id n.      *)
Shows(r, width, n) == \A i \in 1..width : r.bytes[r.pos + i] = Digits(width, n)[i]
HasHeader(F, m, n) == \A i \in 1..HeaderSize : F[i] = Header(m, n)[i]

LEMMA NumberAt ==
  ASSUME NEW V, NEW r \in Readers(V), r.ok, NEW width \in 0..8, NEW n \in 0..(Power[width] - 1),
         r.pos + width <= Len(r.bytes), Shows(r, width, n),
         NEW s, s = ReadNumber(r, width)
  PROVE  s.got = n
<1>1. /\ s \in Readers(V) /\ Keeps(r, s)
      /\ s.ok <=> r.ok /\ r.pos + width <= Len(r.bytes)
      /\ s.ok => s.pos = r.pos + width
      /\ s.ok => s.got = Number(ReadBytes(r, width).got)
  BY ReadNumberIs
<1>2. PICK x : x = ReadBytes(r, width)
  OBVIOUS
<1>3. width \in Nat
  OBVIOUS
<1>4. (x.ok <=> r.ok /\ r.pos + width <= Len(r.bytes)) /\ (x.ok => Gets(r, width, x))
  BY <1>2, <1>3, ReadBytesIs
<1>5. Gets(r, width, x)
  BY <1>4
<1>6. PICK d \in Seq(Octet) : d = Digits(width, n) /\ Len(d) = width
  <2>1. n \in Nat
    BY PowerIs
  <2> QED  BY <2>1, DigitsIs
<1>7. PICK g \in Seq(Octet) : g = x.got /\ Len(g) = width /\ \A i \in 1..width :
        g[i] = r.bytes[r.pos + i]
  BY <1>5 DEF Gets
<1>8. g = d
  <2>1. \A i \in 1..width : g[i] = d[i]
    BY <1>6, <1>7 DEF Shows
  <2> QED  BY <1>6, <1>7, <2>1
<1>9. Number(d) = n
  BY <1>6, NumberOfDigits
<1> QED  BY <1>1, <1>2, <1>6, <1>7, <1>8, <1>9

(* The header of a packet: its number of bytes and its id.                    *)
ArePartsOf(S, a, b) ==
  /\ a \o b \in Seq(S) /\ Len(a \o b) = Len(a) + Len(b)
  /\ \A i \in 1..Len(a) : (a \o b)[i] = a[i]
  /\ \A i \in 1..Len(b) : (a \o b)[Len(a) + i] = b[i]

LEMMA PartsOf ==
  ASSUME NEW S, NEW a \in Seq(S), NEW b \in Seq(S)
  PROVE  ArePartsOf(S, a, b)
<1>1. a \o b \in Seq(S) /\ Len(a \o b) = Len(a) + Len(b)
  OBVIOUS
<1>2. ASSUME NEW i \in 1..Len(a) PROVE (a \o b)[i] = a[i]
  OBVIOUS
<1>3. ASSUME NEW i \in 1..Len(b) PROVE (a \o b)[Len(a) + i] = b[i]
  OBVIOUS
<1> QED  BY <1>1, <1>2, <1>3 DEF ArePartsOf

LEMMA HeaderIs ==
  ASSUME NEW m \in Nat, m < UInt16, NEW n \in Nat, n < UInt16, NEW h, h = Header(m, n)
  PROVE  /\ h \in Seq(Octet) /\ Len(h) = HeaderSize
         /\ m \in 0..(Power[2] - 1) /\ n \in 0..(Power[2] - 1)
         /\ \A i \in 1..2 : h[i] = Digits(2, m)[i] /\ h[2 + i] = Digits(2, n)[i]
<1>0. PICK k, S : k \in 0..8 /\ k = 2 /\ S = Octet
  OBVIOUS
<1>1. PICK a \in Seq(S) : a = Digits(k, m) /\ Len(a) = k
  BY <1>0, DigitsIs
<1>2. PICK b \in Seq(S) : b = Digits(k, n) /\ Len(b) = k
  BY <1>0, DigitsIs
<1>3. h = a \o b /\ k \in Nat
  BY <1>0, <1>1, <1>2 DEF Header
<1>4. h \in Seq(S) /\ Len(h) = k + k /\ \A i \in 1..k : h[i] = a[i] /\ h[k + i] = b[i]
  <2>1. k \in Nat /\ a \in Seq(S) /\ Len(a) = k /\ b \in Seq(S) /\ Len(b) = k /\ h = a \o b
    BY <1>1, <1>2, <1>3
  <2>2. ArePartsOf(S, a, b)
    BY <2>1, PartsOf
  <2> QED  BY <2>1, <2>2 DEF ArePartsOf
<1>5. m \in 0..(Power[2] - 1) /\ n \in 0..(Power[2] - 1)
  BY UInt16Is
<1>6. h \in Seq(Octet) /\ Len(h) = 4
  BY <1>0, <1>4
<1> QED  BY <1>0, <1>1, <1>2, <1>4, <1>5, <1>6 DEF HeaderSize

NumberRead(V, r, k, s) ==
  /\ s \in Readers(V) /\ Keeps(r, s)
  /\ s.ok <=> r.ok /\ r.pos + k <= Len(r.bytes)
  /\ s.ok => s.pos = r.pos + k

LEMMA NumberReads ==
  ASSUME NEW V, NEW r \in Readers(V), NEW k \in 0..8, NEW s, s = ReadNumber(r, k)
  PROVE  NumberRead(V, r, k, s)
BY ReadNumberIs DEF NumberRead

LEMMA HeaderReads ==
  ASSUME NEW V, NEW r \in Readers(V), r.ok, r.pos = 0, NEW k \in 0..8,
         NEW size, size = ReadNumber(r, k), NEW id, id = ReadNumber(size, k)
  PROVE  /\ size \in Readers(V) /\ size.bytes = r.bytes
         /\ id \in Readers(V) /\ id.bytes = r.bytes /\ id.val = r.val /\ id.ok \in BOOLEAN
         /\ id.ok <=> k + k <= Len(r.bytes)
         /\ id.ok => size.ok /\ size.pos = k /\ id.pos = k + k
<1>1. /\ size \in Readers(V) /\ Keeps(r, size)
      /\ size.ok <=> r.ok /\ r.pos + k <= Len(r.bytes)
      /\ size.ok => size.pos = r.pos + k
  BY NumberReads, SMTT(30) DEF NumberRead
<1>2. /\ id \in Readers(V) /\ Keeps(size, id)
      /\ id.ok <=> size.ok /\ size.pos + k <= Len(size.bytes)
      /\ id.ok => id.pos = size.pos + k
  <2>1. NumberRead(V, size, k, id)
    BY <1>1, NumberReads
  <2> QED  BY <2>1 DEF NumberRead
<1>3. size.bytes = r.bytes /\ id.bytes = r.bytes /\ id.val = r.val
  BY <1>1, <1>2 DEF Keeps
<1>4. id.ok \in BOOLEAN /\ Len(r.bytes) \in Nat
  BY <1>2, ReaderIs
<1>5. id.ok <=> k + k <= Len(r.bytes)
  BY <1>1, <1>2, <1>3, <1>4
<1>6. id.ok => size.ok /\ size.pos = k /\ id.pos = k + k
  BY <1>1, <1>2
<1> QED  BY <1>1, <1>2, <1>3, <1>4, <1>5, <1>6

HeaderRead(id, B, n) ==
  /\ id \in Readers(FieldValues) /\ id.val = <<>> /\ id.bytes = B
  /\ IF HeaderSize <= Len(B) THEN id.ok /\ id.pos = HeaderSize /\ id.got = n ELSE id.ok = FALSE

LEMMA HeaderBack ==
  ASSUME NEW F, NEW B, IsCut(F, B), NEW m \in Nat, m < UInt16, NEW n \in Nat, n < UInt16,
         HeaderSize <= Len(F), HasHeader(F, m, n),
         NEW size, size = ReadNumber([bytes |-> B, pos |-> 0, ok |-> TRUE, got |-> 0, val |-> <<>>], 2),
         NEW id, id = ReadNumber(size, 2)
  PROVE  HeaderRead(id, B, n)
<1>0. B \in Seq(Octet) /\ Len(B) \in Nat
  BY DEF IsCut
<1>1. PICK V, r : V = FieldValues /\
        r = [bytes |-> B, pos |-> 0, ok |-> TRUE, got |-> 0, val |-> <<>>]
  OBVIOUS
<1>2. r \in Readers(V)
  <2>1. <<>> \in Seq(V) /\ 0 \in Atom
    BY DEF Atom
  <2> QED  BY <1>0, <1>1, <2>1 DEF Readers
<1>3. PICK k \in 0..8 : k = 2
  OBVIOUS
<1>4. /\ size \in Readers(V) /\ size.bytes = B
      /\ id \in Readers(V) /\ id.bytes = B /\ id.val = <<>> /\ id.ok \in BOOLEAN
      /\ id.ok <=> 4 <= Len(B)
      /\ id.ok => size.ok /\ size.pos = 2 /\ id.pos = 4
  <2>1. size = ReadNumber(r, k) /\ id = ReadNumber(size, k) /\ r.bytes = B /\ r.pos = 0 /\ r.ok /\
          r.val = <<>>
    BY <1>1, <1>3
  <2>2. /\ size \in Readers(V) /\ size.bytes = r.bytes
        /\ id \in Readers(V) /\ id.bytes = r.bytes /\ id.val = r.val /\ id.ok \in BOOLEAN
        /\ id.ok <=> k + k <= Len(r.bytes)
        /\ id.ok => size.ok /\ size.pos = k /\ id.pos = k + k
    BY <1>2, <2>1, HeaderReads, SMTT(30)
  <2> QED  BY <1>3, <2>1, <2>2
<1>5. CASE HeaderSize <= Len(B)
  <2>1. size.ok /\ size.pos = 2 /\ id.ok /\ id.pos = 4 /\ 4 <= Len(B)
    BY <1>4, <1>5 DEF HeaderSize
  <2>2. PICK h : h = Header(m, n)
    OBVIOUS
  <2>3. /\ n \in 0..(Power[2] - 1)
        /\ \A i \in 1..2 : h[i] = Digits(2, m)[i] /\ h[2 + i] = Digits(2, n)[i]
    BY <2>2, HeaderIs
  <2>4. ASSUME NEW i \in 1..2 PROVE size.bytes[size.pos + i] = Digits(2, n)[i]
    <3>1. 2 + i \in 1..HeaderSize /\ 2 + i \in 1..Len(B)
      BY <1>0, <2>1 DEF HeaderSize
    <3>2. B[2 + i] = F[2 + i]
      BY <3>1 DEF IsCut
    <3>3. F[2 + i] = h[2 + i]
      BY <2>2, <3>1 DEF HasHeader
    <3>4. h[2 + i] = Digits(2, n)[i]
      BY <2>3
    <3> QED  BY <1>4, <2>1, <3>2, <3>3, <3>4
  <2>5. Shows(size, k, n) /\ size.pos + k <= Len(size.bytes)
    BY <1>0, <1>3, <1>4, <2>1, <2>4 DEF Shows
  <2>6. id.got = n
    BY <1>1, <1>3, <1>4, <2>1, <2>3, <2>5, NumberAt
  <2> QED  BY <1>1, <1>4, <1>5, <2>1, <2>6 DEF HeaderSize, HeaderRead
<1>6. CASE ~ HeaderSize <= Len(B)
  <2>1. id.ok = FALSE
    BY <1>0, <1>4, <1>6 DEF HeaderSize
  <2> QED  BY <1>1, <1>4, <1>6, <2>1 DEF HeaderRead
<1> QED  BY <1>5, <1>6

LEMMA FieldsGrow ==
  ASSUME NEW w \in Writers, NEW fields, NEW v, ArePacket(fields, v),
         NEW u, u = WriteFields(w, fields, v)
  PROVE  Grows(w, u)
<1>1. PICK x \in [0..Len(fields) -> Writers] :
        /\ x[0] = w /\ u = x[Len(fields)]
        /\ \A i \in 1..Len(fields) : x[i] = WriteAny(x[i - 1], fields[i], v[i])
  BY WriteFieldsIs
<1>2. \A i \in 0..Len(fields) : Grows(w, x[i]) /\ Grows(x[i], x[Len(fields)])
  BY <1>1, WriteFieldsGrows
<1>3. Len(fields) \in 0..Len(fields)
  BY DEF ArePacket
<1> QED  BY <1>1, <1>2, <1>3

(* What MakeSendBuffer leaves in the buffer.                                  *)
LEMMA SerializeIs ==
  ASSUME NEW id, NEW v, IsPacket(id, v), NEW s, s = Serialize(id, v),
         NEW start, start = [bytes |-> Header(0, id), ok |-> TRUE],
         NEW w, w = WriteFields(start, Layout(id), v)
  PROVE  /\ start \in Writers /\ Len(start.bytes) = HeaderSize /\ start.ok
         /\ Grows(start, w)
         /\ s.bytes \in Seq(Octet) /\ Len(s.bytes) = Len(w.bytes) /\ s.ok = w.ok /\ s.ok \in BOOLEAN
         /\ s.ok => /\ At(w, s.bytes)
                    /\ HasHeader(s.bytes, Len(w.bytes), id)
<1>0. /\ ArePacket(Layout(id), v) /\ id \in Nat /\ id < UInt16 /\ 0 \in Nat /\ 0 < UInt16
  BY PacketIs, UInt16Is
<1>1. start \in Writers /\ Len(start.bytes) = HeaderSize /\ start.ok
  <2>1. PICK h : h = Header(0, id)
    OBVIOUS
  <2>2. h \in Seq(Octet) /\ Len(h) = HeaderSize
    BY <1>0, <2>1, HeaderIs
  <2>3. start.bytes = h /\ start.ok = TRUE /\ start \in [bytes : Seq(Octet), ok : BOOLEAN]
    BY <2>1, <2>2
  <2>4. HeaderSize <= Len(start.bytes) /\ Len(start.bytes) <= AllocSize
    <3>1. Len(start.bytes) = HeaderSize
      BY <2>2, <2>3
    <3>2. PICK k : k = Len(start.bytes)
      OBVIOUS
    <3>3. k = 4 /\ AllocSize \in Nat /\ 4 <= AllocSize
      BY <3>1, <3>2, CodecAssumption DEF HeaderSize
    <3>4. HeaderSize <= k /\ k <= AllocSize
      BY <3>3 DEF HeaderSize
    <3> QED  BY <3>2, <3>4
  <2> QED  BY <2>2, <2>3, <2>4 DEF Writers
<1>2. Grows(start, w)
  <2>1. PICK fields : fields = Layout(id)
    OBVIOUS
  <2>2. ArePacket(fields, v) /\ w = WriteFields(start, fields, v)
    BY <1>0, <2>1
  <2> QED  BY <1>1, <2>2, FieldsGrow
<1>3. PICK c, n : c = w.bytes /\ n = Len(w.bytes)
  OBVIOUS
<1>4. /\ c \in Seq(Octet) /\ w.ok \in BOOLEAN /\ n \in Nat /\ HeaderSize <= n /\ n <= AllocSize
      /\ w = [bytes |-> c, ok |-> w.ok] /\ n = Len(c) /\ w \in Writers
  <2>1. w \in Writers
    BY <1>2 DEF Grows
  <2> QED  BY <1>3, <2>1, WriterIs
<1>5. n < UInt16 /\ n % UInt16 = n
  <2>1. n < UInt16
    BY <1>4, CodecAssumption, UInt16Is
  <2> QED  BY <1>4, <2>1, SmallRest
<1>6. CASE ~ w.ok
  <2>1. s = w
    BY <1>6 DEF Serialize
  <2> QED  BY <1>1, <1>2, <1>3, <1>4, <1>6, <2>1
<1>7. CASE w.ok
  <2>1. PICK h : h = Header(n, id)
    OBVIOUS
  <2>2. h \in Seq(Octet) /\ Len(h) = HeaderSize
    BY <1>0, <1>4, <1>5, <2>1, HeaderIs
  <2>3. PICK rest : rest = SubSeq(c, HeaderSize + 1, n)
    OBVIOUS
  <2>4. rest \in Seq(Octet) /\ Len(rest) = n - HeaderSize /\ \A i \in 1..(n - HeaderSize) :
          rest[i] = c[HeaderSize + i]
    <3>1. PICK T, k, l : T = Octet /\ k = HeaderSize /\ l = n - HeaderSize
      OBVIOUS
    <3>2. k \in Nat /\ l \in Nat /\ k + l <= Len(c) /\ c \in Seq(T) /\ n = k + l
      BY <1>4, <3>1 DEF HeaderSize
    <3>3. /\ SubSeq(c, k + 1, k + l) \in Seq(T) /\ Len(SubSeq(c, k + 1, k + l)) = l
          /\ \A i \in 1..l : SubSeq(c, k + 1, k + l)[i] = c[k + i]
      BY <3>2, PartSeq
    <3> QED  BY <2>3, <3>1, <3>2, <3>3
  <2>5. PICK f : f = h \o rest
    OBVIOUS
  <2>6. /\ f \in Seq(Octet) /\ Len(f) = n
        /\ \A i \in 1..HeaderSize : f[i] = h[i]
        /\ \A i \in (HeaderSize + 1)..n : f[i] = rest[i - HeaderSize]
    <3>1. PICK k \in Nat : k = HeaderSize /\ k = Len(h) /\ k <= n
      BY <1>4, <2>2 DEF HeaderSize
    <3>2. f \in Seq(Octet) /\ Len(f) = n
      BY <1>4, <2>2, <2>4, <2>5, <3>1
    <3>3. ASSUME NEW i \in 1..k PROVE f[i] = h[i]
      BY <2>2, <2>4, <2>5, <3>1
    <3>4. ASSUME NEW i \in (k + 1)..n PROVE f[i] = rest[i - k]
      BY <1>4, <2>2, <2>4, <2>5, <3>1
    <3> QED  BY <3>1, <3>2, <3>3, <3>4
  <2>7. s = [w EXCEPT !.bytes = f]
    BY <1>3, <1>5, <1>7, <2>1, <2>3, <2>5 DEF Serialize
  <2>8. s.bytes = f /\ s.ok = w.ok
    BY <1>4, <2>7
  <2>9. ASSUME NEW i \in (HeaderSize + 1)..n PROVE f[i] = c[i]
    <3>1. PICK k \in Nat : k = HeaderSize /\ k <= n
      BY <1>4 DEF HeaderSize
    <3>2. i - k \in 1..(n - k) /\ k + (i - k) = i
      BY <1>4, <3>1
    <3>3. rest[i - k] = c[k + (i - k)]
      BY <2>4, <3>1, <3>2
    <3> QED  BY <2>6, <3>1, <3>2, <3>3
  <2>10. At(w, f)
    <3>1. Len(w.bytes) = n /\ Len(f) = n /\ w.bytes = c
      BY <1>3, <2>6
    <3>2. Len(w.bytes) <= Len(f)
      BY <1>4, <3>1
    <3>3. \A i \in (HeaderSize + 1)..Len(w.bytes) : f[i] = w.bytes[i]
      BY <2>9, <3>1
    <3> QED  BY <1>7, <3>2, <3>3 DEF At
  <2>11. HasHeader(f, n, id)
    BY <2>1, <2>6 DEF HasHeader
  <2> QED  BY <1>1, <1>2, <1>3, <1>4, <2>6, <2>8, <2>10, <2>11
<1> QED  BY <1>6, <1>7

LEMMA SerializeBounds ==
  ASSUME NEW id, NEW v, IsPacket(id, v), NEW s, s = Serialize(id, v)
  PROVE  /\ s.bytes \in Seq(Octet) /\ s.ok \in BOOLEAN
         /\ Len(s.bytes) \in Nat /\ HeaderSize <= Len(s.bytes) /\ Len(s.bytes) <= AllocSize
<1>1. PICK start, w : /\ start = [bytes |-> Header(0, id), ok |-> TRUE]
                      /\ w = WriteFields(start, Layout(id), v)
  OBVIOUS
<1>2. Grows(start, w) /\ s.bytes \in Seq(Octet) /\ Len(s.bytes) = Len(w.bytes) /\ s.ok \in BOOLEAN
  BY <1>1, SerializeIs
<1>3. w \in Writers
  BY <1>2 DEF Grows
<1> QED  BY <1>2, <1>3, WriterIs

(* The dispatcher takes all of a packet and none of what was cut from it.     *)
LEMMA PacketBack ==
  ASSUME NEW id, NEW v, IsPacket(id, v), NEW s, s = Serialize(id, v), s.ok,
         NEW B, IsCut(s.bytes, B), NEW cases, id \in cases
  PROVE  HandlePacket(cases, B) = IF Len(B) = Len(s.bytes) THEN [ok |-> TRUE, id |-> id, val |-> v]
                                                           ELSE Rejected
<1>1. PICK start, w, F : /\ start = [bytes |-> Header(0, id), ok |-> TRUE]
                         /\ w = WriteFields(start, Layout(id), v) /\ F = s.bytes
  OBVIOUS
<1>2. /\ start \in Writers /\ Len(start.bytes) = HeaderSize
      /\ Grows(start, w) /\ F \in Seq(Octet) /\ Len(F) = Len(w.bytes)
      /\ At(w, F) /\ HasHeader(F, Len(w.bytes), id)
  BY <1>1, SerializeIs
<1>3. PICK m \in Nat : m = Len(w.bytes) /\ HeaderSize <= m /\ m <= AllocSize /\ m < UInt16
  <2>1. w \in Writers
    BY <1>2 DEF Grows
  <2> QED  BY <2>1, WriterIs, CodecAssumption, UInt16Is
<1>4. /\ AreFields(Layout(id)) /\ ArePacket(Layout(id), v) /\ IsTuple(v, Len(Layout(id)))
      /\ id \in Nat /\ id < UInt16
  BY PacketIs
<1>5. PICK size, head :
        /\ size = ReadNumber([bytes |-> B, pos |-> 0, ok |-> TRUE, got |-> 0, val |-> <<>>], 2)
        /\ head = ReadNumber(size, 2)
  OBVIOUS
<1>6. IsCut(F, B) /\ Len(B) \in Nat /\ Len(B) <= Len(F) /\ Len(F) = m
  BY <1>1, <1>2, <1>3 DEF IsCut
<1>7. /\ head \in Readers(FieldValues) /\ head.val = <<>> /\ head.bytes = B
      /\ IF HeaderSize <= Len(B) THEN head.ok /\ head.pos = HeaderSize /\ head.got = id
           ELSE head.ok = FALSE
  <2>1. HeaderSize <= Len(F) /\ HasHeader(F, m, id)
    BY <1>2, <1>3, <1>6
  <2>2. HeaderRead(head, B, id)
    BY <1>3, <1>4, <1>5, <1>6, <2>1, HeaderBack
  <2> QED  BY <2>2 DEF HeaderRead
<1>8. Tracks(head, start, B)
  BY <1>2, <1>7 DEF Tracks
<1>9. PICK fields : fields = Layout(id)
  OBVIOUS
<1>10. PICK r : r = ReadFields(head, Layout(head.got))
  OBVIOUS
<1>11. HandlePacket(cases, B) = IF head.ok /\ head.got \in cases /\ r.ok
                                  THEN [ok |-> TRUE, id |-> head.got, val |-> r.val] ELSE Rejected
  BY <1>5, <1>10 DEF HandlePacket
<1>12. CASE head.ok
  <2>1. head.got = id
    BY <1>7, <1>12
  <2>2. r = ReadFields(head, fields) /\ w = WriteFields(start, fields, v)
    BY <1>1, <1>9, <1>10, <2>1
  <2>3. AreFields(fields) /\ ArePacket(fields, v) /\ IsTuple(v, Len(fields))
    BY <1>4, <1>9
  <2>4. Tracks(r, w, B) /\ (r.ok => r.val = v)
    BY <1>2, <1>6, <1>7, <1>8, <2>2, <2>3, FieldsBack
  <2>5. r.ok <=> Len(B) = Len(F)
    BY <1>3, <1>6, <2>4 DEF Tracks
  <2> QED  BY <1>1, <1>11, <1>12, <2>1, <2>4, <2>5
<1>13. CASE ~ head.ok
  <2>1. ~ HeaderSize <= Len(B)
    BY <1>7, <1>13
  <2>2. Len(B) # Len(F)
    BY <1>3, <1>6, <2>1
  <2> QED  BY <1>1, <1>11, <1>13, <2>2
<1> QED  BY <1>12, <1>13

(* The size in the header.                                                    *)
LEMMA SizeBack ==
  ASSUME NEW id, NEW v, IsPacket(id, v), NEW s, s = Serialize(id, v), s.ok
  PROVE  Number(SubSeq(s.bytes, 1, 2)) = Len(s.bytes)
<1>1. PICK start, w, F : /\ start = [bytes |-> Header(0, id), ok |-> TRUE]
                         /\ w = WriteFields(start, Layout(id), v) /\ F = s.bytes
  OBVIOUS
<1>2. /\ Grows(start, w) /\ F \in Seq(Octet) /\ Len(F) = Len(w.bytes)
      /\ HasHeader(F, Len(w.bytes), id)
  BY <1>1, SerializeIs
<1>3. PICK m \in Nat : m = Len(w.bytes) /\ HeaderSize <= m /\ m < UInt16
  <2>1. w \in Writers
    BY <1>2 DEF Grows
  <2> QED  BY <2>1, WriterIs, CodecAssumption, UInt16Is
<1>4. id \in Nat /\ id < UInt16
  BY PacketIs
<1>5. PICK h : h = Header(m, id)
  OBVIOUS
<1>6. m \in 0..(Power[2] - 1) /\ \A i \in 1..2 : h[i] = Digits(2, m)[i]
  BY <1>3, <1>4, <1>5, HeaderIs
<1>7. PICK d \in Seq(Octet) : d = Digits(2, m) /\ Len(d) = 2
  BY DigitsIs
<1>8. PICK b : b = SubSeq(F, 1, 2)
  OBVIOUS
<1>9. b \in Seq(Octet) /\ Len(b) = 2 /\ \A i \in 1..2 : b[i] = F[i]
  <2>1. PICK T, n : T = Octet /\ n = 2
    OBVIOUS
  <2>2. F \in Seq(T) /\ n \in 0..Len(F)
    BY <1>2, <1>3, <2>1 DEF HeaderSize
  <2>3. /\ SubSeq(F, 1, n) \in Seq(T) /\ Len(SubSeq(F, 1, n)) = n
        /\ \A i \in 1..n : SubSeq(F, 1, n)[i] = F[i]
    BY <2>2, CutSeq
  <2> QED  BY <1>8, <2>1, <2>3
<1>10. b = d
  <2>1. ASSUME NEW i \in 1..2 PROVE b[i] = d[i]
    <3>1. i \in 1..HeaderSize
      BY DEF HeaderSize
    <3> QED  BY <1>2, <1>3, <1>5, <1>6, <1>7, <1>9, <3>1 DEF HasHeader
  <2> QED  BY <1>7, <1>9, <2>1
<1>11. Number(d) = m
  <2>1. PICK width \in 0..8 : width = 2
    OBVIOUS
  <2>2. PICK n \in 0..(Power[width] - 1) : n = m
    BY <1>6, <2>1
  <2>3. Number(Digits(width, n)) = n
    BY NumberOfDigits
  <2> QED  BY <1>7, <2>1, <2>2, <2>3
<1> QED  BY <1>1, <1>2, <1>3, <1>8, <1>10, <1>11

-----------------------------------------------------------------------------
(* The chunks of a thread and the packets in them.                            *)
PacketBytes(p) == Serialize(p.id, p.val).bytes
Complete(p) == Serialize(p.id, p.val).ok

ChunkStates == [open : BOOLEAN, used : 0..ChunkSize, mem : [1..ChunkSize -> Octet]]
HoldsAt(mem, start, bytes) == \A i \in 1..Len(bytes) : mem[start + i] = bytes[i]

IsOpened(t, m) == \E p \in Packets[t] : m = [at |-> "opened", packet |-> p]
IsWritten(t, m) == \E p \in Packets[t] :
  Complete(p) /\ m = [at |-> "written", packet |-> p, size |-> Len(PacketBytes(p))]
IsMaking(t, m) == m = Nothing \/ IsOpened(t, m) \/ IsWritten(t, m)

BufferIn(c, b) ==
  /\ b.by \in Makers /\ b.packet \in Packets[b.by] /\ b.start \in Nat
  /\ Complete(b.packet) /\ b.size = Len(PacketBytes(b.packet)) /\ b.start + b.size <= c.used
  /\ HoldsAt(c.mem, b.start, PacketBytes(b.packet))

ChunkTypes ==
  /\ chunk \in [Chunks -> ChunkStates]
  /\ local \in [Makers -> Chunks \cup {NoChunk}]
  /\ making = [t \in Makers |-> making[t]] /\ \A t \in Makers : IsMaking(t, making[t])
  /\ begun \in [Makers -> Nat] /\ overflowed \subseteq Makers /\ crashed \subseteq Makers

(* No two threads have the same chunk.                                        *)
OwnChunks == \A t, u \in Makers : local[t] = local[u] /\ local[t] # NoChunk => t = u

(* A packet in the making has its chunk open and room for all of it.          *)
Room(c) == c.open /\ c.used + AllocSize <= ChunkSize
RoomForPacket == \A t \in Makers : making[t] # Nothing => local[t] \in Chunks /\
     Room(chunk[local[t]])

(* The packet that was written but not closed is behind the used part.        *)
Behind(c, m) == m.at = "written" => HoldsAt(c.mem, c.used, PacketBytes(m.packet))
WrittenIsThere == \A t \in Makers : local[t] \in Chunks => Behind(chunk[local[t]], making[t])

(* Every buffer is in the used part of its chunk, with all its bytes.         *)
BuffersHold == \A b \in buffers : b.owner \in Chunks /\ BufferIn(chunk[b.owner], b)

(* Only a packet that did not fit leaves a chunk open.                        *)
OpenAfterOverflow == \A t \in Makers :
  making[t] = Nothing /\ local[t] \in Chunks /\ chunk[local[t]].open => t \in overflowed

ChunkInv == /\ ChunkTypes /\ OwnChunks /\ RoomForPacket /\ WrittenIsThere /\ BuffersHold
            /\ OpenAfterOverflow /\ CrashOnlyAfterOverflow

LEMMA SizesAre == /\ ChunkSize \in Nat /\ AllocSize \in Nat /\ AllocSize <= ChunkSize
                  /\ 0 \in Octet /\ NoChunk \notin Chunks
BY ChunkAssumption, CodecAssumption DEF Octet

LEMMA PacketFacts ==
  ASSUME NEW t \in Makers, NEW p \in Packets[t]
  PROVE  /\ IsPacket(p.id, p.val) /\ PacketBytes(p) \in Seq(Octet) /\ Complete(p) \in BOOLEAN
         /\ Len(PacketBytes(p)) \in Nat /\ HeaderSize <= Len(PacketBytes(p)) /\
              Len(PacketBytes(p)) <= AllocSize
         /\ Complete(p) => Number(SubSeq(PacketBytes(p), 1, 2)) = Len(PacketBytes(p))
<1>1. PICK id, v, s : id = p.id /\ v = p.val /\ s = Serialize(id, v)
  OBVIOUS
<1>2. IsPacket(id, v)
  BY <1>1, ChunkAssumption
<1>3. /\ s.bytes \in Seq(Octet) /\ s.ok \in BOOLEAN
      /\ Len(s.bytes) \in Nat /\ HeaderSize <= Len(s.bytes) /\ Len(s.bytes) <= AllocSize
  BY <1>1, <1>2, SerializeBounds
<1>4. s.ok => Number(SubSeq(s.bytes, 1, 2)) = Len(s.bytes)
  BY <1>1, <1>2, SizeBack
<1> QED  BY <1>1, <1>2, <1>3, <1>4 DEF PacketBytes, Complete

LEMMA MakingCases ==
  ASSUME NEW t \in Makers, NEW m, IsMaking(t, m)
  PROVE  /\ m = Nothing <=> m.at = "idle"
         /\ m.at = "opened" <=> IsOpened(t, m)
         /\ m.at = "written" <=> IsWritten(t, m)
         /\ m.at \in {"idle", "opened", "written"}
         /\ IsOpened(t, m) => m.packet \in Packets[t]
         /\ IsWritten(t, m) => /\ m.packet \in Packets[t] /\ Complete(m.packet)
                               /\ m.size = Len(PacketBytes(m.packet))
<1>1. CASE m = Nothing
  BY <1>1 DEF Nothing, IsOpened, IsWritten
<1>2. CASE IsOpened(t, m)
  <2>1. PICK p \in Packets[t] : m = [at |-> "opened", packet |-> p]
    BY <1>2 DEF IsOpened
  <2>2. m.at = "opened" /\ m.packet = p
    BY <2>1
  <2>3. m # Nothing
    BY <2>2 DEF Nothing
  <2>4. ~ IsWritten(t, m)
    BY <2>2 DEF IsWritten
  <2> QED  BY <1>2, <2>2, <2>3, <2>4
<1>3. CASE IsWritten(t, m)
  <2>1. PICK p \in Packets[t] : /\ Complete(p)
                                /\ m = [at |-> "written", packet |-> p, size |-> Len(PacketBytes(p))]
    BY <1>3 DEF IsWritten
  <2>2. m.at = "written" /\ m.packet = p /\ m.size = Len(PacketBytes(p))
    BY <2>1
  <2>3. m # Nothing
    BY <2>2 DEF Nothing
  <2>4. ~ IsOpened(t, m)
    BY <2>2 DEF IsOpened
  <2> QED  BY <1>3, <2>1, <2>2, <2>3, <2>4
<1> QED  BY <1>1, <1>2, <1>3 DEF IsMaking

LEMMA ChunkIs ==
  ASSUME NEW c \in ChunkStates
  PROVE  /\ c.open \in BOOLEAN /\ c.used \in 0..ChunkSize /\ c.used \in Nat
         /\ c.mem \in [1..ChunkSize -> Octet]
         /\ c = [open |-> c.open, used |-> c.used, mem |-> c.mem]
BY SizesAre DEF ChunkStates

(* A chunk that keeps its used part keeps its buffers.                        *)
LEMMA BufferStays ==
  ASSUME NEW c \in ChunkStates, NEW d \in ChunkStates, c.used <= d.used,
         \A i \in 1..c.used : d.mem[i] = c.mem[i], NEW b, BufferIn(c, b)
  PROVE  BufferIn(d, b)
<1>1. /\ b.by \in Makers /\ b.packet \in Packets[b.by] /\ b.start \in Nat
      /\ Complete(b.packet) /\ b.size = Len(PacketBytes(b.packet)) /\ b.start + b.size <= c.used
      /\ HoldsAt(c.mem, b.start, PacketBytes(b.packet))
  BY DEF BufferIn
<1>2. PICK bytes : bytes = PacketBytes(b.packet)
  OBVIOUS
<1>3. Len(bytes) \in Nat
  BY <1>1, <1>2, PacketFacts
<1>4. c.used \in Nat /\ d.used \in Nat
  BY ChunkIs
<1>5. b.start + b.size <= d.used
  BY <1>1, <1>2, <1>3, <1>4
<1>6. ASSUME NEW i \in 1..Len(bytes) PROVE d.mem[b.start + i] = bytes[i]
  <2>1. b.start + i \in 1..c.used
    BY <1>1, <1>2, <1>3, <1>4
  <2>2. c.mem[b.start + i] = bytes[i]
    BY <1>1, <1>2 DEF HoldsAt
  <2> QED  BY <2>1, <2>2
<1>7. HoldsAt(d.mem, b.start, PacketBytes(b.packet))
  BY <1>2, <1>6 DEF HoldsAt
<1> QED  BY <1>1, <1>5, <1>7 DEF BufferIn

LEMMA FreshChunkIs == FreshChunk \in ChunkStates /\ FreshChunk.open = FALSE /\ FreshChunk.used = 0
BY SizesAre DEF FreshChunk, ChunkStates

LEMMA ChunkStart == ChunkInit => ChunkInv
<1> SUFFICES ASSUME ChunkInit PROVE ChunkInv
  OBVIOUS
<1>2. chunk \in [Chunks -> ChunkStates] /\ local \in [Makers -> Chunks \cup {NoChunk}]
  BY FreshChunkIs DEF ChunkInit
<1>3. \A t \in Makers : making[t] = Nothing /\ local[t] = NoChunk
  BY DEF ChunkInit
<1>4. making = [t \in Makers |-> making[t]]
  BY DEF ChunkInit
<1>5. ChunkTypes
  BY <1>2, <1>3, <1>4 DEF ChunkInit, ChunkTypes, IsMaking
<1>6. OwnChunks /\ RoomForPacket /\ WrittenIsThere /\ OpenAfterOverflow
  BY <1>3, SizesAre DEF OwnChunks, RoomForPacket, WrittenIsThere, OpenAfterOverflow
<1>7. BuffersHold /\ CrashOnlyAfterOverflow
  BY DEF ChunkInit, BuffersHold, CrashOnlyAfterOverflow
<1> QED  BY <1>5, <1>6, <1>7 DEF ChunkInv

(* A thread with a packet works on its own chunk.                             *)
LEMMA OwnChunk ==
  ASSUME ChunkInv, NEW t \in Makers
  PROVE  /\ local[t] \in Chunks => /\ chunk[local[t]] \in ChunkStates
                                  /\ \A u \in Makers \ {t} : local[u] # local[t]
         /\ local[t] \in Chunks \cup {NoChunk} /\ IsMaking(t, making[t])
         /\ making[t] # Nothing => local[t] \in Chunks /\ Room(chunk[local[t]])
<1>1. ChunkTypes /\ OwnChunks /\ RoomForPacket
  BY DEF ChunkInv
<1>2. local[t] \in Chunks \cup {NoChunk} /\ IsMaking(t, making[t])
  BY <1>1 DEF ChunkTypes
<1>3. making[t] # Nothing => local[t] \in Chunks /\ Room(chunk[local[t]])
  BY <1>1 DEF RoomForPacket
<1>4. ASSUME local[t] \in Chunks
      PROVE  chunk[local[t]] \in ChunkStates /\ \A u \in Makers \ {t} : local[u] # local[t]
  <2>1. chunk[local[t]] \in ChunkStates
    BY <1>1, <1>4 DEF ChunkTypes
  <2>2. \A u \in Makers \ {t} : local[u] # local[t]
    BY <1>1, <1>4, SizesAre DEF OwnChunks
  <2> QED  BY <2>1, <2>2
<1> QED  BY <1>2, <1>3, <1>4

(* A step of one thread: it leaves d in its chunk c and m in the making.      *)
LEMMA MakerStep ==
  ASSUME ChunkInv, NEW t \in Makers, NEW c \in Chunks, NEW d \in ChunkStates, NEW m, IsMaking(t, m),
         \A u \in Makers \ {t} : local[u] # c,
         chunk' = [chunk EXCEPT ![c] = d], local' = [local EXCEPT ![t] = c],
         making' = [making EXCEPT ![t] = m],
         m # Nothing => Room(d), Behind(d, m), m = Nothing /\ d.open => t \in overflowed',
         begun' \in [Makers -> Nat], overflowed \subseteq overflowed', overflowed' \subseteq Makers,
         crashed' = crashed, BuffersHold'
  PROVE  ChunkInv'
<1>1. /\ ChunkTypes /\ OwnChunks /\ RoomForPacket /\ WrittenIsThere
      /\ OpenAfterOverflow /\ CrashOnlyAfterOverflow
  BY DEF ChunkInv
<1>2. /\ chunk \in [Chunks -> ChunkStates] /\ local \in [Makers -> Chunks \cup {NoChunk}]
      /\ making = [u \in Makers |-> making[u]] /\ \A u \in Makers : IsMaking(u, making[u])
      /\ overflowed \subseteq Makers /\ crashed \subseteq Makers
  BY <1>1 DEF ChunkTypes
<1>3. chunk' \in [Chunks -> ChunkStates] /\ local' \in [Makers -> Chunks \cup {NoChunk}]
  BY <1>2
<1>4. local'[t] = c /\ making'[t] = m /\ chunk'[c] = d /\ making' = [u \in Makers |-> making'[u]]
  BY <1>2
<1>5. ASSUME NEW u \in Makers, u # t
      PROVE  /\ local'[u] = local[u] /\ making'[u] = making[u] /\ local[u] # c
             /\ local[u] \in Chunks => chunk'[local[u]] = chunk[local[u]]
  BY <1>2, <1>5
<1>6. ASSUME NEW u \in Makers PROVE IsMaking(u, making'[u])
  <2>1. CASE u = t
    BY <1>4, <2>1
  <2>2. CASE u # t
    BY <1>2, <1>5, <2>2
  <2> QED  BY <2>1, <2>2
<1>7. ChunkTypes'
  BY <1>2, <1>3, <1>4, <1>6 DEF ChunkTypes
<1>8. OwnChunks'
  <2>1. ASSUME NEW u \in Makers, NEW v \in Makers, local'[u] = local'[v], local'[u] # NoChunk
        PROVE  u = v
    <3>1. CASE u = t \/ v = t
      BY <1>4, <1>5, <2>1, <3>1
    <3>2. CASE u # t /\ v # t
      BY <1>1, <1>5, <2>1, <3>2 DEF OwnChunks
    <3> QED  BY <3>1, <3>2
  <2> QED  BY <2>1 DEF OwnChunks
<1>9. RoomForPacket'
  <2>1. ASSUME NEW u \in Makers, making'[u] # Nothing
        PROVE  local'[u] \in Chunks /\ Room(chunk'[local'[u]])
    <3>1. CASE u = t
      BY <1>4, <2>1, <3>1
    <3>2. CASE u # t
      <4>1. local[u] \in Chunks /\ Room(chunk[local[u]])
        BY <1>1, <1>5, <2>1, <3>2 DEF RoomForPacket
      <4> QED  BY <1>5, <3>2, <4>1
    <3> QED  BY <3>1, <3>2
  <2> QED  BY <2>1 DEF RoomForPacket
<1>10. WrittenIsThere'
  <2>1. ASSUME NEW u \in Makers, local'[u] \in Chunks
        PROVE  Behind(chunk'[local'[u]], making'[u])
    <3>1. CASE u = t
      BY <1>4, <3>1
    <3>2. CASE u # t
      <4>1. Behind(chunk[local[u]], making[u])
        BY <1>1, <1>5, <2>1, <3>2 DEF WrittenIsThere
      <4> QED  BY <1>5, <2>1, <3>2, <4>1
    <3> QED  BY <3>1, <3>2
  <2> QED  BY <2>1 DEF WrittenIsThere
<1>11. OpenAfterOverflow'
  <2>1. ASSUME NEW u \in Makers, making'[u] = Nothing, local'[u] \in Chunks, chunk'[local'[u]].open
        PROVE  u \in overflowed'
    <3>1. CASE u = t
      BY <1>4, <2>1, <3>1
    <3>2. CASE u # t
      <4>1. making[u] = Nothing /\ local[u] \in Chunks /\ chunk[local[u]].open
        BY <1>5, <2>1, <3>2
      <4> QED  BY <1>1, <4>1 DEF OpenAfterOverflow
    <3> QED  BY <3>1, <3>2
  <2> QED  BY <2>1 DEF OpenAfterOverflow
<1>12. CrashOnlyAfterOverflow'
  BY <1>1 DEF CrashOnlyAfterOverflow
<1> QED  BY <1>7, <1>8, <1>9, <1>10, <1>11, <1>12 DEF ChunkInv

(* The buffers in c stay in what c becomes; those in other chunks stay there. *)
LEMMA BuffersStay ==
  ASSUME ChunkInv, NEW c \in Chunks, NEW d \in ChunkStates, chunk[c].used <= d.used,
         \A i \in 1..chunk[c].used : d.mem[i] = chunk[c].mem[i],
         chunk' = [chunk EXCEPT ![c] = d], NEW b \in buffers
  PROVE  b.owner \in Chunks /\ BufferIn(chunk'[b.owner], b)
<1>1. chunk \in [Chunks -> ChunkStates] /\ b.owner \in Chunks /\ BufferIn(chunk[b.owner], b)
  BY DEF ChunkInv, ChunkTypes, BuffersHold
<1>2. CASE b.owner = c
  <2>1. chunk[c] \in ChunkStates /\ BufferIn(chunk[c], b) /\ chunk'[b.owner] = d
    BY <1>1, <1>2
  <2> QED  BY <1>1, <2>1, BufferStays
<1>3. CASE b.owner # c
  BY <1>1, <1>3
<1> QED  BY <1>2, <1>3

LEMMA OpenKeeps ==
  ASSUME ChunkInv, NEW t \in Makers, NEW p \in Packets[t], Open(t, p)
  PROVE  ChunkInv'
<1>1. making[t] = Nothing /\ buffers' = buffers /\ overflowed' = overflowed
  BY DEF Open
<1>2. /\ local[t] \in Chunks => chunk[local[t]] \in ChunkStates
      /\ local[t] \in Chunks => \A u \in Makers \ {t} : local[u] # local[t]
      /\ local[t] \in Chunks \cup {NoChunk}
  BY OwnChunk
<1>3. /\ begun' \in [Makers -> Nat] /\ overflowed \subseteq Makers
      /\ chunk \in [Chunks -> ChunkStates] /\ local \in [Makers -> Chunks \cup {NoChunk}]
  BY DEF ChunkInv, ChunkTypes, Open
<1>4. CASE local[t] # NoChunk /\ chunk[local[t]].open
  <2>1. crashed' = {t} /\ chunk' = chunk /\ local' = local /\ making' = making
    BY <1>4 DEF Open
  <2>2. local[t] \in Chunks /\ t \in overflowed
    BY <1>1, <1>2, <1>4 DEF ChunkInv, OpenAfterOverflow
  <2>3. CrashOnlyAfterOverflow'
    BY <1>1, <2>1, <2>2 DEF CrashOnlyAfterOverflow
  <2>4. ChunkTypes'
    BY <1>1, <1>3, <2>1 DEF ChunkInv, ChunkTypes
  <2>5. OwnChunks' /\ RoomForPacket' /\ WrittenIsThere' /\ OpenAfterOverflow'
    BY <1>1, <2>1 DEF ChunkInv, OwnChunks, RoomForPacket, WrittenIsThere, OpenAfterOverflow
  <2>6. BuffersHold'
    BY <1>1, <2>1 DEF ChunkInv, BuffersHold
  <2> QED  BY <2>3, <2>4, <2>5, <2>6 DEF ChunkInv
<1>5. CASE ~ (local[t] # NoChunk /\ chunk[local[t]].open)
  <2>1. PICK c \in IF local[t] = NoChunk \/ ChunkFree(local[t]) < AllocSize
                     THEN Pop(t) ELSE {local[t]} :
          /\ local' = [local EXCEPT ![t] = c]
          /\ chunk' = [chunk EXCEPT ![c] = [(IF c = local[t] /\ ChunkFree(c) >= AllocSize
                                               THEN chunk[c] ELSE FreshChunk) EXCEPT !.open = TRUE]]
          /\ making' = [making EXCEPT ![t] = [at |-> "opened", packet |-> p]]
          /\ crashed' = crashed
    BY <1>5 DEF Open
  <2>2. PICK m : m = [at |-> "opened", packet |-> p]
    OBVIOUS
  <2>3. /\ IsMaking(t, m) /\ m.at = "opened" /\ making' = [making EXCEPT ![t] = m]
        /\ m # Nothing
    <3>1. m.at = "opened"
      BY <2>2
    <3>2. IsMaking(t, m)
      BY <2>2 DEF IsMaking, IsOpened
    <3> QED  BY <2>1, <2>2, <3>1, <3>2 DEF Nothing
  <2>4. ASSUME NEW d PROVE Behind(d, m)
    BY <2>3 DEF Behind
  <2>5. CASE local[t] = NoChunk \/ ChunkFree(local[t]) < AllocSize
    <3>1. c \in Chunks /\ c \notin Referenced
      BY <2>1, <2>5 DEF Pop
    <3>2. (\A u \in Makers : local[u] # c) /\ (\A b \in buffers : b.owner # c)
      BY <3>1 DEF Referenced
    <3>3. PICK d : d = [FreshChunk EXCEPT !.open = TRUE]
      OBVIOUS
    <3>4. chunk' = [chunk EXCEPT ![c] = d]
      BY <2>1, <3>2, <3>3
    <3>5. d \in ChunkStates /\ d.open = TRUE /\ d.used = 0
      BY <3>3, FreshChunkIs DEF ChunkStates
    <3>6. Room(d)
      BY <3>5, SizesAre DEF Room
    <3>7. BuffersHold'
      <4>1. ASSUME NEW b \in buffers PROVE b.owner \in Chunks /\ BufferIn(chunk'[b.owner], b)
        <5>1. b.owner \in Chunks /\ BufferIn(chunk[b.owner], b) /\ b.owner # c
          BY <3>2 DEF ChunkInv, BuffersHold
        <5> QED  BY <1>3, <3>4, <5>1
      <4> QED  BY <1>1, <4>1 DEF BuffersHold
    <3> QED  BY <1>1, <1>3, <2>1, <2>3, <2>4, <3>1, <3>2, <3>4, <3>5, <3>6, <3>7, MakerStep
  <2>6. CASE ~ (local[t] = NoChunk \/ ChunkFree(local[t]) < AllocSize)
    <3>1. c = local[t] /\ c \in Chunks /\ chunk[c] \in ChunkStates
      BY <1>2, <2>1, <2>6
    <3>2. chunk[c].used \in Nat /\ ~ ChunkFree(c) < AllocSize
      BY <2>6, <3>1, ChunkIs
    <3>3. ChunkFree(c) >= AllocSize /\ chunk[c].used + AllocSize <= ChunkSize
      BY <3>2, SizesAre DEF ChunkFree
    <3>4. PICK d : d = [chunk[c] EXCEPT !.open = TRUE]
      OBVIOUS
    <3>5. chunk' = [chunk EXCEPT ![c] = d]
      BY <2>1, <3>1, <3>3, <3>4
    <3>6. d \in ChunkStates /\ d.open = TRUE /\ d.used = chunk[c].used /\ d.mem = chunk[c].mem
      BY <3>1, <3>4 DEF ChunkStates
    <3>7. Room(d)
      BY <3>3, <3>6 DEF Room
    <3>8. BuffersHold'
      <4>1. chunk[c].used <= d.used
        BY <3>2, <3>6
      <4>2. ASSUME NEW b \in buffers PROVE b.owner \in Chunks /\ BufferIn(chunk'[b.owner], b)
        BY <3>1, <3>5, <3>6, <4>1, BuffersStay
      <4> QED  BY <1>1, <4>2 DEF BuffersHold
    <3>9. \A u \in Makers \ {t} : local[u] # c
      BY <1>2, <3>1
    <3> QED  BY <1>1, <1>3, <2>1, <2>3, <2>4, <3>1, <3>5, <3>6, <3>7, <3>8, <3>9, MakerStep
  <2> QED  BY <2>5, <2>6
<1> QED  BY <1>4, <1>5

LEMMA WriteKeeps ==
  ASSUME ChunkInv, NEW t \in Makers, WritePacket(t)
  PROVE  ChunkInv'
<1>1. PICK c, p, w : c = local[t] /\ p = making[t].packet /\ w = Serialize(p.id, p.val)
  OBVIOUS
<1>2. making[t] # Nothing /\ IsOpened(t, making[t]) /\ p \in Packets[t]
  <2>1. IsMaking(t, making[t]) /\ making[t].at = "opened"
    BY OwnChunk DEF WritePacket
  <2> QED  BY <1>1, <2>1, MakingCases
<1>3. /\ c \in Chunks /\ Room(chunk[c]) /\ chunk[c] \in ChunkStates
      /\ \A u \in Makers \ {t} : local[u] # c
  BY <1>1, <1>2, OwnChunk
<1>4. /\ chunk \in [Chunks -> ChunkStates] /\ local \in [Makers -> Chunks \cup {NoChunk}]
      /\ making = [u \in Makers |-> making[u]] /\ begun \in [Makers -> Nat] /\
           overflowed \subseteq Makers
  BY DEF ChunkInv, ChunkTypes
<1>5. PICK bytes, at : bytes = w.bytes /\ at = chunk[c].used
  OBVIOUS
<1>6. /\ bytes = PacketBytes(p) /\ w.ok = Complete(p) /\ bytes \in Seq(Octet) /\ w.ok \in BOOLEAN
      /\ Len(bytes) \in Nat /\ Len(bytes) <= AllocSize
      /\ w.ok => Number(SubSeq(bytes, 1, 2)) = Len(bytes)
  <2>1. bytes = PacketBytes(p) /\ w.ok = Complete(p)
    BY <1>1, <1>5 DEF PacketBytes, Complete
  <2> QED  BY <1>2, <2>1, PacketFacts
<1>7. /\ at \in Nat /\ at + Len(bytes) <= ChunkSize /\ chunk[c].mem \in [1..ChunkSize -> Octet]
      /\ chunk[c].open = TRUE
  <2>1. at \in Nat /\ chunk[c].mem \in [1..ChunkSize -> Octet] /\ chunk[c].open \in BOOLEAN
    BY <1>3, <1>5, ChunkIs
  <2>2. at + AllocSize <= ChunkSize /\ chunk[c].open
    BY <1>3, <1>5 DEF Room
  <2> QED  BY <1>6, <2>1, <2>2, SizesAre
<1>8. PICK mem : mem = [i \in 1..ChunkSize |-> IF i > at /\ i <= at + Len(bytes)
                                                THEN bytes[i - at] ELSE chunk[c].mem[i]]
  OBVIOUS
<1>9. PICK d : d = [chunk[c] EXCEPT !.mem = mem]
  OBVIOUS
<1>10. chunk' = [chunk EXCEPT ![c] = d]
  <2>1. chunk' = [chunk EXCEPT ![c].mem = [i \in 1..ChunkSize |-> IF i > at /\ i <= at + Len(bytes)
                                                                  THEN bytes[i - at] ELSE @[i]]]
    BY <1>1, <1>5 DEF WritePacket
  <2> QED  BY <1>8, <1>9, <2>1
<1>11. mem \in [1..ChunkSize -> Octet]
  <2>1. ASSUME NEW i \in 1..ChunkSize
        PROVE  (IF i > at /\ i <= at + Len(bytes) THEN bytes[i - at] ELSE chunk[c].mem[i]) \in Octet
    <3>1. CASE i > at /\ i <= at + Len(bytes)
      <4>1. i - at \in 1..Len(bytes)
        BY <1>6, <1>7, <3>1, SizesAre
      <4> QED  BY <1>6, <3>1, <4>1
    <3>2. CASE ~ (i > at /\ i <= at + Len(bytes))
      BY <1>7, <3>2
    <3> QED  BY <3>1, <3>2
  <2> QED  BY <1>8, <2>1
<1>12. d \in ChunkStates /\ d.used = at /\ d.mem = mem /\ d.open = TRUE
  BY <1>3, <1>5, <1>7, <1>9, <1>11 DEF ChunkStates
<1>13. \A i \in 1..at : d.mem[i] = chunk[c].mem[i]
  <2>1. ASSUME NEW i \in 1..at PROVE mem[i] = chunk[c].mem[i]
    <3>1. i \in 1..ChunkSize /\ ~ i > at
      BY <1>6, <1>7, SizesAre
    <3> QED  BY <1>8, <3>1
  <2> QED  BY <1>12, <2>1
<1>14. HoldsAt(mem, at, bytes)
  <2>1. ASSUME NEW i \in 1..Len(bytes) PROVE mem[at + i] = bytes[i]
    <3>1. at + i \in 1..ChunkSize /\ at + i > at /\ at + i <= at + Len(bytes) /\ (at + i) - at = i
      BY <1>6, <1>7, SizesAre
    <3> QED  BY <1>8, <3>1
  <2> QED  BY <2>1 DEF HoldsAt
<1>15. PICK m : m = IF w.ok
        THEN [at |-> "written", packet |-> p, size |-> Number(SubSeq(w.bytes, 1, 2))]
                            ELSE Nothing
  OBVIOUS
<1>16. IsMaking(t, m) /\ Behind(d, m)
  <2>1. CASE w.ok
    <3>1. m = [at |-> "written", packet |-> p, size |-> Len(bytes)]
      BY <1>5, <1>6, <1>15, <2>1
    <3>2. IsMaking(t, m)
      BY <1>2, <1>6, <2>1, <3>1 DEF IsMaking, IsWritten
    <3>3. m.packet = p
      BY <3>1
    <3>4. Behind(d, m)
      BY <1>6, <1>12, <1>14, <3>3 DEF Behind
    <3> QED  BY <3>2, <3>4
  <2>2. CASE ~ w.ok
    <3>1. m = Nothing
      BY <1>15, <2>2
    <3>2. m.at # "written"
      BY <3>1 DEF Nothing
    <3> QED  BY <3>1, <3>2 DEF IsMaking, Behind
  <2> QED  BY <2>1, <2>2
<1>17. Room(d)
  BY <1>3, <1>5, <1>12 DEF Room
<1>18. overflowed' = IF w.ok THEN overflowed ELSE overflowed \cup {t}
  BY <1>1 DEF WritePacket
<1>19. m = Nothing => t \in overflowed'
  <2>1. CASE w.ok
    <3>1. m.at = "written"
      BY <1>15, <2>1
    <3> QED  BY <3>1 DEF Nothing
  <2>2. CASE ~ w.ok
    BY <1>18, <2>2
  <2> QED  BY <2>1, <2>2
<1>20. overflowed \subseteq overflowed' /\ overflowed' \subseteq Makers
  BY <1>4, <1>18
<1>21. /\ making' = [making EXCEPT ![t] = m] /\ local' = local /\ buffers' = buffers
       /\ begun' = begun /\ crashed' = crashed
  BY <1>1, <1>15 DEF WritePacket
<1>22. local' = [local EXCEPT ![t] = c]
  BY <1>1, <1>4, <1>21
<1>23. BuffersHold'
  <2>1. chunk[c].used <= d.used /\ \A i \in 1..chunk[c].used : d.mem[i] = chunk[c].mem[i]
    BY <1>5, <1>7, <1>12, <1>13
  <2>2. ASSUME NEW b \in buffers PROVE b.owner \in Chunks /\ BufferIn(chunk'[b.owner], b)
    BY <1>3, <1>10, <1>12, <2>1, BuffersStay
  <2> QED  BY <1>21, <2>2 DEF BuffersHold
<1> QED  BY <1>3, <1>4, <1>10, <1>12, <1>16, <1>17, <1>19, <1>20, <1>21, <1>22, <1>23, MakerStep

LEMMA CloseKeeps ==
  ASSUME ChunkInv, NEW t \in Makers, Close(t)
  PROVE  ChunkInv'
<1>1. PICK c, p, k : c = local[t] /\ p = making[t].packet /\ k = making[t].size
  OBVIOUS
<1>2. making[t].at = "written" /\ making[t] # Nothing /\ p \in Packets[t] /\ Complete(p) /\
        k = Len(PacketBytes(p))
  <2>1. IsMaking(t, making[t]) /\ making[t].at = "written"
    BY OwnChunk DEF Close
  <2>2. making[t] # Nothing
    BY <2>1 DEF Nothing
  <2> QED  BY <1>1, <2>1, <2>2, MakingCases
<1>3. /\ c \in Chunks /\ Room(chunk[c]) /\ chunk[c] \in ChunkStates
      /\ \A u \in Makers \ {t} : local[u] # c
  BY <1>1, <1>2, OwnChunk
<1>4. /\ chunk \in [Chunks -> ChunkStates] /\ local \in [Makers -> Chunks \cup {NoChunk}]
      /\ begun \in [Makers -> Nat] /\ overflowed \subseteq Makers
  BY DEF ChunkInv, ChunkTypes
<1>5. PICK at : at = chunk[c].used
  OBVIOUS
<1>6. at \in Nat /\ k \in Nat /\ at + k <= ChunkSize
  <2>1. k \in Nat /\ k <= AllocSize
    BY <1>2, PacketFacts
  <2>2. at \in Nat
    BY <1>3, <1>5, ChunkIs
  <2>3. at + AllocSize <= ChunkSize
    BY <1>3, <1>5 DEF Room
  <2> QED  BY <2>1, <2>2, <2>3, SizesAre
<1>7. HoldsAt(chunk[c].mem, at, PacketBytes(p))
  <2>1. Behind(chunk[c], making[t])
    BY <1>1, <1>3 DEF ChunkInv, WrittenIsThere
  <2> QED  BY <1>1, <1>2, <1>5, <2>1 DEF Behind
<1>8. PICK d : d = [chunk[c] EXCEPT !.open = FALSE, !.used = at + k]
  OBVIOUS
<1>9. chunk' = [chunk EXCEPT ![c] = d]
  <2>1. chunk' = [chunk EXCEPT ![c].open = FALSE, ![c].used = @ + k]
    BY <1>1 DEF Close
  <2> QED  BY <1>3, <1>4, <1>5, <1>8, <2>1
<1>10. d \in ChunkStates /\ d.open = FALSE /\ d.used = at + k /\ d.mem = chunk[c].mem
  <2>1. at + k \in 0..ChunkSize
    BY <1>6, SizesAre
  <2> QED  BY <1>3, <1>8, <2>1 DEF ChunkStates
<1>11. PICK nb : nb = [owner |-> c, start |-> at, by |-> t, size |-> k, packet |-> p]
  OBVIOUS
<1>12. /\ buffers' = buffers \cup {nb} /\ making' = [making EXCEPT ![t] = Nothing]
       /\ local' = local /\ begun' = begun /\ overflowed' = overflowed /\ crashed' = crashed
  BY <1>1, <1>5, <1>11 DEF Close
<1>13. local' = [local EXCEPT ![t] = c]
  BY <1>1, <1>4, <1>12
<1>14. nb.owner \in Chunks /\ BufferIn(chunk'[nb.owner], nb)
  <2>1. nb.owner = c /\ nb.start = at /\ nb.by = t /\ nb.size = k /\ nb.packet = p
    BY <1>11
  <2>2. chunk'[c] = d
    BY <1>3, <1>4, <1>9
  <2>3. BufferIn(d, nb)
    <3>1. nb.start + nb.size <= d.used
      BY <1>6, <1>10, <2>1
    <3> QED  BY <1>2, <1>6, <1>7, <1>10, <2>1, <3>1 DEF BufferIn
  <2> QED  BY <1>3, <2>1, <2>2, <2>3
<1>15. BuffersHold'
  <2>1. chunk[c].used <= d.used /\ \A i \in 1..chunk[c].used : d.mem[i] = chunk[c].mem[i]
    BY <1>5, <1>6, <1>10
  <2>2. ASSUME NEW b \in buffers PROVE b.owner \in Chunks /\ BufferIn(chunk'[b.owner], b)
    BY <1>3, <1>9, <1>10, <2>1, BuffersStay
  <2> QED  BY <1>12, <1>14, <2>2 DEF BuffersHold
<1>16. PICK m : m = Nothing
  OBVIOUS
<1>17. IsMaking(t, m) /\ Behind(d, m)
  <2>1. m.at # "written"
    BY <1>16 DEF Nothing
  <2> QED  BY <1>16, <2>1 DEF IsMaking, Behind
<1>18. making' = [making EXCEPT ![t] = m]
  BY <1>12, <1>16
<1> QED  BY <1>3, <1>4, <1>9, <1>10, <1>12, <1>13, <1>15, <1>16, <1>17, <1>18, MakerStep

LEMMA ReleaseKeeps ==
  ASSUME ChunkInv, NEW b \in buffers, Release(b)
  PROVE  ChunkInv'
<1>1. /\ buffers' = buffers \ {b} /\ chunk' = chunk /\ local' = local /\ making' = making
      /\ begun' = begun /\ overflowed' = overflowed /\ crashed' = crashed
  BY DEF Release
<1>2. ChunkTypes' /\ OwnChunks' /\ RoomForPacket' /\ WrittenIsThere' /\ OpenAfterOverflow'
      /\ CrashOnlyAfterOverflow'
  BY <1>1 DEF ChunkInv, ChunkTypes, OwnChunks, RoomForPacket, WrittenIsThere, OpenAfterOverflow,
              CrashOnlyAfterOverflow
<1>3. BuffersHold'
  BY <1>1 DEF ChunkInv, BuffersHold
<1> QED  BY <1>2, <1>3 DEF ChunkInv

LEMMA ChunkStutters == ChunkInv /\ UNCHANGED chunkVars => ChunkInv'
BY DEF chunkVars, ChunkInv, ChunkTypes, OwnChunks, RoomForPacket, WrittenIsThere, OpenAfterOverflow,
       CrashOnlyAfterOverflow, BuffersHold

LEMMA ChunksStaySound == ChunkSpec => []ChunkInv
<1>1. ChunkInv /\ [ChunkNext]_chunkVars => ChunkInv'
  <2> SUFFICES ASSUME ChunkInv, [ChunkNext]_chunkVars PROVE ChunkInv'
    OBVIOUS
  <2>1. ASSUME NEW t \in Makers, NEW p \in Packets[t], Open(t, p) PROVE ChunkInv'
    BY <2>1, OpenKeeps
  <2>2. ASSUME NEW t \in Makers, WritePacket(t) PROVE ChunkInv'
    BY <2>2, WriteKeeps
  <2>3. ASSUME NEW t \in Makers, Close(t) PROVE ChunkInv'
    BY <2>3, CloseKeeps
  <2>4. ASSUME NEW b \in buffers, Release(b) PROVE ChunkInv'
    BY <2>4, ReleaseKeeps
  <2>5. CASE UNCHANGED chunkVars
    BY <2>5, ChunkStutters
  <2> QED  BY <2>1, <2>2, <2>3, <2>4, <2>5 DEF ChunkNext
<1> QED  BY ChunkStart, <1>1, PTL DEF ChunkSpec

LEMMA SoundFollows == ChunkInv => ChunksSound
<1> SUFFICES ASSUME ChunkInv PROVE ChunksSound
  OBVIOUS
<1>1. CrashOnlyAfterOverflow
  BY DEF ChunkInv
<1>2. /\ chunk \in [Chunks -> ChunkStates] /\ local \in [Makers -> Chunks \cup {NoChunk}]
      /\ begun \in [Makers -> Nat] /\ overflowed \subseteq Makers /\ crashed \subseteq Makers
  BY DEF ChunkInv, ChunkTypes
<1>3. ASSUME NEW c \in Chunks
      PROVE  /\ chunk[c].open \in BOOLEAN /\ chunk[c].used \in 0..ChunkSize
             /\ chunk[c].mem \in [1..ChunkSize -> 0..(Byte - 1)]
  <2>1. chunk[c] \in ChunkStates
    BY <1>2
  <2> QED  BY <2>1, ChunkIs DEF Octet
<1>4. ASSUME NEW t \in Makers PROVE making[t].at \in {"idle", "opened", "written"}
  BY OwnChunk, MakingCases
<1>5. ASSUME NEW b \in buffers
      PROVE  b.owner \in Chunks /\ b.by \in Makers /\ b.start + b.size <= ChunkSize
  <2>1. b.owner \in Chunks /\ BufferIn(chunk[b.owner], b)
    BY DEF ChunkInv, BuffersHold
  <2>2. /\ b.by \in Makers /\ b.packet \in Packets[b.by] /\ b.start \in Nat
        /\ b.size = Len(PacketBytes(b.packet)) /\ b.start + b.size <= chunk[b.owner].used
    BY <2>1 DEF BufferIn
  <2>3. b.size \in Nat
    BY <2>2, PacketFacts
  <2>4. chunk[b.owner].used \in Nat /\ chunk[b.owner].used <= ChunkSize
    BY <1>3, <2>1, SizesAre
  <2> QED  BY <2>1, <2>2, <2>3, <2>4, SizesAre
<1> QED  BY <1>1, <1>2, <1>3, <1>4, <1>5 DEF ChunksSound, ChunkTypeOK

(* What a receiver gets from a buffer.                                        *)
LEMMA BytesInBuffer ==
  ASSUME ChunkInv, NEW b \in buffers
  PROVE  /\ BytesOf(b) = PacketBytes(b.packet) /\ b.size = Len(PacketBytes(b.packet))
         /\ b.by \in Makers /\ b.packet \in Packets[b.by] /\ Complete(b.packet)
<1>1. b.owner \in Chunks /\ BufferIn(chunk[b.owner], b)
  BY DEF ChunkInv, BuffersHold
<1>2. PICK c, mem, used : c = chunk[b.owner] /\ mem = c.mem /\ used = c.used
  OBVIOUS
<1>3. /\ b.by \in Makers /\ b.packet \in Packets[b.by] /\ b.start \in Nat
      /\ Complete(b.packet) /\ b.size = Len(PacketBytes(b.packet)) /\ b.start + b.size <= used
      /\ HoldsAt(mem, b.start, PacketBytes(b.packet))
  BY <1>1, <1>2 DEF BufferIn
<1>4. mem \in [1..ChunkSize -> Octet] /\ used \in Nat /\ used <= ChunkSize
  <2>1. c \in ChunkStates
    BY <1>1, <1>2 DEF ChunkInv, ChunkTypes
  <2> QED  BY <1>2, <2>1, ChunkIs, SizesAre
<1>5. PICK T, bytes, p, n : T = Octet /\ bytes = PacketBytes(b.packet) /\ p = b.start /\ n = b.size
  OBVIOUS
<1>6. bytes \in Seq(T) /\ n = Len(bytes) /\ n \in Nat /\ p \in Nat
  BY <1>3, <1>5, PacketFacts
<1>7. mem \in Seq(T) /\ Len(mem) = ChunkSize
  BY <1>4, <1>5, SizesAre
<1>8. p + n <= Len(mem)
  BY <1>3, <1>4, <1>5, <1>6, <1>7, SizesAre
<1>9. PICK part : part = SubSeq(mem, p + 1, p + n)
  OBVIOUS
<1>10. part \in Seq(T) /\ Len(part) = n /\ \A i \in 1..n : part[i] = mem[p + i]
  <2>1. mem \in Seq(T) /\ p \in Nat /\ n \in Nat /\ p + n <= Len(mem)
    BY <1>6, <1>7, <1>8
  <2>2. /\ SubSeq(mem, p + 1, p + n) \in Seq(T) /\ Len(SubSeq(mem, p + 1, p + n)) = n
        /\ \A i \in 1..n : SubSeq(mem, p + 1, p + n)[i] = mem[p + i]
    BY <2>1, PartSeq
  <2> QED  BY <1>9, <2>2
<1>11. \A i \in 1..n : part[i] = bytes[i]
  BY <1>3, <1>5, <1>6, <1>10 DEF HoldsAt
<1>12. part = bytes
  BY <1>6, <1>10, <1>11
<1>13. BytesOf(b) = part
  BY <1>2, <1>5, <1>9 DEF BytesOf
<1> QED  BY <1>3, <1>5, <1>12, <1>13

LEMMA CaseOfBuffer ==
  ASSUME NEW b, IsPacket(b.packet.id, b.packet.val)
  PROVE  b.packet.id \in Cases(b)
<1>1. PICK id, v : id = b.packet.id /\ v = b.packet.val
  OBVIOUS
<1>2. id \in ServerCases \cup ClientCases
  BY <1>1, PacketIs
<1> QED  BY <1>1, <1>2 DEF Cases

LEMMA HoldingFollows == ChunkInv => BufferHoldsPacket
<1> SUFFICES ASSUME ChunkInv, NEW b \in buffers
             PROVE  /\ HandlePacket(Cases(b), BytesOf(b))
                          = [ok |-> TRUE, id |-> b.packet.id, val |-> b.packet.val]
                    /\ Number(SubSeq(BytesOf(b), 1, 2)) = b.size
  BY DEF BufferHoldsPacket
<1>1. /\ BytesOf(b) = PacketBytes(b.packet) /\ b.size = Len(PacketBytes(b.packet))
      /\ b.by \in Makers /\ b.packet \in Packets[b.by] /\ Complete(b.packet)
  BY BytesInBuffer
<1>2. PICK id, v, s, F, cases :
        /\ id = b.packet.id /\ v = b.packet.val /\ s = Serialize(id, v) /\ F = s.bytes /\
             cases = Cases(b)
  OBVIOUS
<1>3. IsPacket(id, v) /\ id \in cases /\ F \in Seq(Octet)
  BY <1>1, <1>2, PacketFacts, CaseOfBuffer DEF PacketBytes
<1>4. s.ok /\ BytesOf(b) = F /\ b.size = Len(F)
  BY <1>1, <1>2 DEF PacketBytes, Complete
<1>5. IsCut(s.bytes, F)
  <2>1. Len(F) <= Len(F)
    BY <1>3
  <2> QED  BY <1>2, <1>3, <2>1 DEF IsCut
<1>6. HandlePacket(cases, F) = [ok |-> TRUE, id |-> id, val |-> v]
  <2>1. IsPacket(id, v) /\ id \in cases /\ s = Serialize(id, v) /\ s.ok
    BY <1>2, <1>3, <1>4
  <2>2. HandlePacket(cases, F) = IF Len(F) = Len(s.bytes) THEN [ok |-> TRUE, id |-> id, val |-> v]
                                                          ELSE Rejected
    BY <1>5, <2>1, PacketBack
  <2> QED  BY <1>2, <2>2
<1>7. Number(SubSeq(F, 1, 2)) = Len(F)
  BY <1>2, <1>3, <1>4, SizeBack
<1> QED  BY <1>2, <1>4, <1>6, <1>7

LEMMA RefusalFollows == ChunkInv => CutPacketRefused
<1> SUFFICES ASSUME ChunkInv, NEW b \in buffers, NEW n \in 0..(b.size - 1)
             PROVE  ~ HandlePacket(Cases(b), SubSeq(BytesOf(b), 1, n)).ok
  BY DEF CutPacketRefused
<1>1. /\ BytesOf(b) = PacketBytes(b.packet) /\ b.size = Len(PacketBytes(b.packet))
      /\ b.by \in Makers /\ b.packet \in Packets[b.by] /\ Complete(b.packet)
  BY BytesInBuffer
<1>2. PICK id, v, s, F, cases :
        /\ id = b.packet.id /\ v = b.packet.val /\ s = Serialize(id, v) /\ F = s.bytes /\
             cases = Cases(b)
  OBVIOUS
<1>3. IsPacket(id, v) /\ id \in cases /\ F \in Seq(Octet)
  BY <1>1, <1>2, PacketFacts, CaseOfBuffer DEF PacketBytes
<1>4. s.ok /\ BytesOf(b) = F /\ b.size = Len(F)
  BY <1>1, <1>2 DEF PacketBytes, Complete
<1>5. PICK T, B : T = Octet /\ B = SubSeq(F, 1, n)
  OBVIOUS
<1>6. Len(F) \in Nat /\ n \in 0..Len(F) /\ n < Len(F)
  <2>1. Len(F) \in Nat
    BY <1>3
  <2> QED  BY <1>4, <2>1
<1>7. B \in Seq(T) /\ Len(B) = n /\ \A i \in 1..n : B[i] = F[i]
  BY <1>3, <1>5, <1>6, CutSeq
<1>8. IsCut(s.bytes, B)
  BY <1>2, <1>3, <1>5, <1>6, <1>7 DEF IsCut
<1>9. Len(B) # Len(s.bytes)
  BY <1>2, <1>6, <1>7
<1>10. HandlePacket(cases, B) = Rejected
  BY <1>2, <1>3, <1>4, <1>8, <1>9, PacketBack
<1> QED  BY <1>2, <1>4, <1>5, <1>10 DEF Rejected

(* Every closed buffer lies inside its chunk, and the asserts that a chunk is *)
(* not open in SendBufferManager::Open can fail only when a packet before was *)
(* too large for its buffer.                                                  *)
THEOREM ChunksAreSound == ChunkSpec => []ChunksSound
BY ChunksStaySound, SoundFollows, PTL

(* While anybody holds a buffer, HandlePacket reads from it the id and the    *)
(* fields that MakeSendBuffer was given, and its header gives its size,       *)
(* whatever the threads write into the chunks meanwhile.                      *)
THEOREM BuffersHoldPackets == ChunkSpec => []BufferHoldsPacket
BY ChunksStaySound, HoldingFollows, PTL

(* HandlePacket refuses a packet that was cut anywhere.                       *)
THEOREM CutPacketsRefused == ChunkSpec => []CutPacketRefused
BY ChunksStaySound, RefusalFollows, PTL

-----------------------------------------------------------------------------
(* The send queue of a session.                                               *)
(* The bytes of sequences of buffers.                                         *)
Places == Buffers \X Nat

Pieces(bufs, off) == [i \in 1..Len(bufs) |-> BytesFrom(bufs[i], IF i = 1 THEN off ELSE 0)]

(* off is a place in, or just after, the first buffer.                        *)
Starts(bufs, off) == bufs # <<>> => off <= Size[bufs[1][2]]

LEMMA BytesFromIs ==
  ASSUME NEW b \in Buffers, NEW off \in Nat, off <= Size[b[2]]
  PROVE  /\ BytesFrom(b, off) \in Seq(Places)
         /\ Len(BytesFrom(b, off)) = Size[b[2]] - off
         /\ Size[b[2]] \in Nat \ {0}
         /\ \A i \in 1..(Size[b[2]] - off) : BytesFrom(b, off)[i] = <<b, off + i>>
<1>1. Size[b[2]] \in Nat \ {0}
  BY Assumptions DEF Assumptions, Buffers
<1>2. Size[b[2]] - off \in Nat
  BY <1>1
<1>3. \A i \in 1..(Size[b[2]] - off) : <<b, off + i>> \in Places
  BY <1>1 DEF Places
<1>4. BytesFrom(b, off) = [i \in 1..(Size[b[2]] - off) |-> <<b, off + i>>]
  BY DEF BytesFrom
<1> DEFINE n == Size[b[2]] - off
<1> HIDE DEF n
<1>5. ASSUME NEW f, f = [i \in 1..n |-> <<b, off + i>>]
      PROVE  f \in Seq(Places) /\ Len(f) = n /\ \A i \in 1..n : f[i] = <<b, off + i>>
  <2>1. n \in Nat /\ \A i \in 1..n : <<b, off + i>> \in Places
    BY <1>2, <1>3 DEF n
  <2>2. f \in [1..n -> Places]
    BY <1>5, <2>1
  <2>3. f \in Seq(Places) /\ Len(f) = n
    BY <2>1, <2>2
  <2>4. \A i \in 1..n : f[i] = <<b, off + i>>
    BY <1>5
  <2> QED  BY <2>3, <2>4
<1> QED  BY <1>1, <1>4, <1>5 DEF n

LEMMA PiecesType ==
  ASSUME NEW bufs \in Seq(Buffers), NEW off \in Nat, Starts(bufs, off)
  PROVE  Pieces(bufs, off) \in Seq(Seq(Places)) /\ Len(Pieces(bufs, off)) = Len(bufs)
<1>1. ASSUME NEW i \in 1..Len(bufs)
      PROVE  BytesFrom(bufs[i], IF i = 1 THEN off ELSE 0) \in Seq(Places)
  <2>1. bufs[i] \in Buffers /\ bufs # <<>>
    OBVIOUS
  <2>2. 0 <= Size[bufs[i][2]]
    BY <2>1, Assumptions DEF Assumptions, Buffers
  <2> QED  BY <2>1, <2>2, BytesFromIs DEF Starts
<1> QED  BY <1>1 DEF Pieces

LEMMA BytesType ==
  ASSUME NEW bufs \in Seq(Buffers), NEW off \in Nat, Starts(bufs, off)
  PROVE  Bytes(bufs, off) \in Seq(Places)
<1>1. Bytes(bufs, off) = FlattenSeq(Pieces(bufs, off))
  BY DEF Bytes, Pieces
<1> QED  BY <1>1, PiecesType, FlattenType

LEMMA BytesEmpty == ASSUME NEW off PROVE Bytes(<<>>, off) = <<>>
BY DEF Bytes, FlattenSeq

LEMMA BytesOne ==
  ASSUME NEW b \in Buffers, NEW off \in Nat, off <= Size[b[2]]
  PROVE  Bytes(<<b>>, off) = BytesFrom(b, off)
<1>1. Bytes(<<b>>, off) = FlattenSeq(<<BytesFrom(b, off)>>)
  BY DEF Bytes
<1>2. BytesFrom(b, off) \in Seq(Places)
  BY BytesFromIs
<1>3. <<BytesFrom(b, off)>> = Append(<<>>, BytesFrom(b, off)) /\ FlattenSeq(<<>>) = <<>>
  BY DEF FlattenSeq
<1>4. <<>> \in Seq(Seq(Places))
  OBVIOUS
<1>5. FlattenSeq(Append(<<>>, BytesFrom(b, off))) = FlattenSeq(<<>>) \o BytesFrom(b, off)
  BY <1>2, <1>4, FlattenAppend
<1> QED  BY <1>1, <1>2, <1>3, <1>5, ConcatEmptySeq

(* The bytes of two sequences put together: the second starts at its first    *)
(* byte.                                                                      *)
LEMMA BytesConcat ==
  ASSUME NEW s \in Seq(Buffers), NEW t \in Seq(Buffers), NEW off \in Nat,
         Starts(s, off), s = <<>> => off = 0
  PROVE  Bytes(s \o t, off) = Bytes(s, off) \o Bytes(t, 0)
<1>0. Starts(t, 0)
  BY Assumptions DEF Assumptions, Starts, Buffers
<1>1. CASE s = <<>>
  BY <1>1, <1>0, BytesEmpty, BytesType, ConcatEmptySeq
<1>2. CASE s # <<>>
  <2>1. Pieces(s \o t, off) = Pieces(s, off) \o Pieces(t, 0)
    <3>1. s \o t \in Seq(Buffers) /\ Len(s \o t) = Len(s) + Len(t)
      OBVIOUS
    <3>2. Len(s) \in Nat /\ Len(t) \in Nat /\ Len(s) >= 1
      BY <1>2
    <3>3. Starts(s \o t, off)
      BY <1>2, <3>1, <3>2 DEF Starts
    <3>4. /\ Pieces(s \o t, off) \in Seq(Seq(Places))
          /\ Len(Pieces(s \o t, off)) = Len(s) + Len(t)
      BY <3>1, <3>3, PiecesType
    <3>5. /\ Pieces(s, off) \in Seq(Seq(Places)) /\ Len(Pieces(s, off)) = Len(s)
          /\ Pieces(t, 0) \in Seq(Seq(Places)) /\ Len(Pieces(t, 0)) = Len(t)
      BY <1>0, PiecesType
    <3>6. ASSUME NEW i \in 1..Len(s) PROVE Pieces(s \o t, off)[i] = Pieces(s, off)[i]
      <4>1. i \in 1..Len(s \o t) /\ (s \o t)[i] = s[i]
        BY <3>1, <3>2
      <4> QED  BY <4>1 DEF Pieces
    <3>7. ASSUME NEW i \in 1..Len(t) PROVE Pieces(s \o t, off)[Len(s) + i] = Pieces(t, 0)[i]
      <4>1. /\ Len(s) + i \in 1..Len(s \o t) /\ (s \o t)[Len(s) + i] = t[i]
            /\ Len(s) + i # 1
        BY <3>1, <3>2
      <4>2. Pieces(s \o t, off)[Len(s) + i] = BytesFrom(t[i], 0)
        BY <4>1 DEF Pieces
      <4>3. Pieces(t, 0)[i] = BytesFrom(t[i], 0)
        BY DEF Pieces
      <4> QED  BY <4>2, <4>3
    <3> DEFINE p == Pieces(s, off)
               q == Pieces(t, 0)
               r == Pieces(s \o t, off)
    <3>8. /\ p \in Seq(Seq(Places)) /\ q \in Seq(Seq(Places)) /\ r \in Seq(Seq(Places))
          /\ Len(r) = Len(p) + Len(q)
          /\ \A i \in 1..Len(p) : r[i] = p[i]
          /\ \A i \in 1..Len(q) : r[Len(p) + i] = q[i]
      BY <3>4, <3>5, <3>6, <3>7
    <3> HIDE DEF p, q, r
    <3>9. r = p \o q
      BY <3>8, ConcatIs
    <3> QED  BY <3>9 DEF p, q, r
  <2>2. /\ Bytes(s \o t, off) = FlattenSeq(Pieces(s \o t, off))
        /\ Bytes(s, off) = FlattenSeq(Pieces(s, off)) /\ Bytes(t, 0) = FlattenSeq(Pieces(t, 0))
    BY DEF Bytes, Pieces
  <2>3. Pieces(s, off) \in Seq(Seq(Places)) /\ Pieces(t, 0) \in Seq(Seq(Places))
    BY <1>0, PiecesType
  <2>4. FlattenSeq(Pieces(s, off) \o Pieces(t, 0))
          = FlattenSeq(Pieces(s, off)) \o FlattenSeq(Pieces(t, 0))
    <3> DEFINE p == Pieces(s, off)
               q == Pieces(t, 0)
    <3> HIDE DEF p, q
    <3>1. p \in Seq(Seq(Places)) /\ q \in Seq(Seq(Places))
      BY <2>3 DEF p, q
    <3>2. FlattenSeq(p \o q) = FlattenSeq(p) \o FlattenSeq(q)
      BY <3>1, FlattenConcat
    <3> QED  BY <3>2 DEF p, q
  <2> QED  BY <2>1, <2>2, <2>4
<1> QED  BY <1>1, <1>2

LEMMA BytesCut ==
  ASSUME NEW s \in Seq(Buffers), NEW off \in Nat, Starts(s, off), s # <<>>,
         NEW i \in 0..Len(s)
  PROVE  /\ Bytes(SubSeq(s, 1, i), off) \in Seq(Places)
         /\ Bytes(SubSeq(s, i + 1, Len(s)), IF i = 0 THEN off ELSE 0) \in Seq(Places)
         /\ Bytes(s, off) = Bytes(SubSeq(s, 1, i), off)
                             \o Bytes(SubSeq(s, i + 1, Len(s)), IF i = 0 THEN off ELSE 0)
<1> DEFINE a == SubSeq(s, 1, i)
           b == SubSeq(s, i + 1, Len(s))
<1>1. a \in Seq(Buffers) /\ b \in Seq(Buffers) /\ s = a \o b
  BY CutSeq
<1>1a. Len(a) = i /\ \A j \in 1..i : a[j] = s[j]
  BY CutSeq
<1> HIDE DEF a, b
<1>2. CASE i = 0
  <2>1. a = <<>> /\ b = s
    BY <1>1, <1>1a, <1>2, ConcatEmptySeq
  <2>2. Bytes(a, off) = <<>> /\ <<>> \in Seq(Places) /\ Bytes(b, off) \in Seq(Places)
    BY <2>1, BytesEmpty, BytesType
  <2>3. Bytes(s, off) = Bytes(a, off) \o Bytes(b, off)
    BY <2>1, <2>2, ConcatEmptySeq
  <2>4. Bytes(b, IF i = 0 THEN off ELSE 0) = Bytes(b, off)
    BY <1>2
  <2> QED  BY <2>2, <2>3, <2>4 DEF a, b
<1>3. CASE i # 0
  <2>1. i \in Nat /\ 1 \in 1..i
    BY <1>3
  <2>2. a # <<>> /\ a[1] = s[1]
    BY <1>1, <1>1a, <2>1
  <2>3. Starts(a, off) /\ Starts(b, 0)
    BY <1>1, <2>2, Assumptions, SMTT(30) DEF Assumptions, Starts, Buffers
  <2>4. Bytes(a \o b, off) = Bytes(a, off) \o Bytes(b, 0)
    BY <1>1, <2>2, <2>3, BytesConcat
  <2> QED  BY <1>1, <1>3, <2>3, <2>4, BytesType DEF a, b
<1> QED  BY <1>2, <1>3

LEMMA BytesHead ==
  ASSUME NEW s \in Seq(Buffers), NEW off \in Nat, Starts(s, off), s # <<>>
  PROVE  /\ s[1] \in Buffers /\ off <= Size[s[1][2]]
         /\ Bytes(SubSeq(s, 2, Len(s)), 0) \in Seq(Places)
         /\ Bytes(s, off) = BytesFrom(s[1], off) \o Bytes(SubSeq(s, 2, Len(s)), 0)
<1>1. s[1] \in Buffers /\ off <= Size[s[1][2]] /\ 1 \in 0..Len(s)
  BY DEF Starts
<1>2. SubSeq(s, 1, 1) = <<s[1]>>
  <2> DEFINE a == SubSeq(s, 1, 1)
  <2>1. a \in Seq(Buffers)
    BY <1>1, CutSeq
  <2>2. Len(a) = 1 /\ \A j \in 1..1 : a[j] = s[j]
    BY <1>1, CutSeq
  <2> HIDE DEF a
  <2>3. a = <<a[1]>>
    BY <2>1, <2>2
  <2> QED  BY <2>2, <2>3 DEF a
<1>3. Bytes(SubSeq(s, 1, 1), off) = BytesFrom(s[1], off)
  BY <1>1, <1>2, BytesOne
<1>4. /\ Bytes(SubSeq(s, 1 + 1, Len(s)), IF 1 = 0 THEN off ELSE 0) \in Seq(Places)
      /\ Bytes(s, off) = Bytes(SubSeq(s, 1, 1), off)
                          \o Bytes(SubSeq(s, 1 + 1, Len(s)), IF 1 = 0 THEN off ELSE 0)
  BY <1>1, BytesCut
<1> QED  BY <1>1, <1>3, <1>4

LEMMA BytesSnoc ==
  ASSUME NEW s \in Seq(Buffers), NEW off \in Nat, NEW b \in Buffers,
         Starts(s \o <<b>>, off)
  PROVE  Bytes(s \o <<b>>, off) = Bytes(s, off) \o BytesFrom(b, IF s = <<>> THEN off ELSE 0)
<1>1. CASE s = <<>>
  <2>1. s \o <<b>> = <<b>> /\ <<b>>[1] = b /\ <<b>> # <<>>
    BY <1>1
  <2>2. off <= Size[b[2]]
    BY <2>1 DEF Starts
  <2>3. Bytes(<<b>>, off) = BytesFrom(b, off) /\ BytesFrom(b, off) \in Seq(Places)
    BY <2>2, BytesOne, BytesFromIs
  <2>4. Bytes(s, off) = <<>>
    BY <1>1, BytesEmpty
  <2>5. <<>> \o BytesFrom(b, off) = BytesFrom(b, off)
    BY <2>3, ConcatEmptySeq
  <2> QED  BY <1>1, <2>1, <2>3, <2>4, <2>5
<1>2. CASE s # <<>>
  <2>1. (s \o <<b>>)[1] = s[1] /\ s \o <<b>> # <<>>
    BY <1>2
  <2>2. Starts(s, off) /\ 0 <= Size[b[2]]
    BY <2>1, Assumptions DEF Assumptions, Starts, Buffers
  <2>3. <<b>> \in Seq(Buffers)
    OBVIOUS
  <2>4. Bytes(s \o <<b>>, off) = Bytes(s, off) \o Bytes(<<b>>, 0)
    BY <1>2, <2>2, <2>3, BytesConcat
  <2>5. Bytes(<<b>>, 0) = BytesFrom(b, 0)
    BY <2>2, BytesOne
  <2> QED  BY <1>2, <2>4, <2>5
<1> QED  BY <1>1, <1>2

(* Without its first d bytes a sequence of buffers starts d bytes later.      *)
LEMMA BytesDrop ==
  ASSUME NEW s \in Seq(Buffers), NEW off \in Nat, NEW d \in Nat, s # <<>>,
         off + d <= Size[s[1][2]]
  PROVE  /\ d \in 0..Len(Bytes(s, off))
         /\ SubSeq(Bytes(s, off), d + 1, Len(Bytes(s, off))) = Bytes(s, off + d)
<1> DEFINE h == s[1]
           x == BytesFrom(h, off)
           y == BytesFrom(h, off + d)
           p == SubSeq(x, 1, d)
           t == Bytes(SubSeq(s, 2, Len(s)), 0)
<1>1. h \in Buffers /\ Size[h[2]] \in Nat /\ off <= Size[h[2]] /\ off + d \in Nat
  BY Assumptions DEF Assumptions, Buffers
<1>2. Starts(s, off) /\ Starts(s, off + d)
  BY <1>1 DEF Starts
<1>3. Bytes(s, off) = x \o t /\ Bytes(s, off + d) = y \o t /\ t \in Seq(Places)
  BY <1>1, <1>2, BytesHead
<1>4. /\ x \in Seq(Places) /\ Len(x) = Size[h[2]] - off
      /\ \A i \in 1..(Size[h[2]] - off) : x[i] = <<h, off + i>>
  BY <1>1, BytesFromIs
<1>5. /\ y \in Seq(Places) /\ Len(y) = Size[h[2]] - (off + d)
      /\ \A i \in 1..(Size[h[2]] - (off + d)) : y[i] = <<h, off + d + i>>
  BY <1>1, BytesFromIs
<1>6. d \in 0..Len(x)
  BY <1>1, <1>4
<1>7. p \in Seq(Places) /\ Len(p) = d /\ \A i \in 1..d : p[i] = x[i]
  <2> HIDE DEF x
  <2> QED  BY <1>4, <1>6, CutSeq
<1> HIDE DEF h, x, y, p, t
<1>8. x = p \o y
  <2> DEFINE m == Size[h[2]]
  <2>0. m \in Nat /\ off + d <= m
    BY <1>1 DEF h
  <2>a. Len(x) = m - off /\ \A i \in 1..(m - off) : x[i] = <<h, off + i>>
    BY <1>4
  <2>b. Len(y) = m - (off + d) /\ \A i \in 1..(m - (off + d)) : y[i] = <<h, off + d + i>>
    BY <1>5
  <2> HIDE DEF m
  <2>1. Len(x) = Len(p) + Len(y)
    BY <1>7, <2>0, <2>a, <2>b
  <2>2. ASSUME NEW i \in 1..Len(y) PROVE x[Len(p) + i] = y[i]
    <3>1. i \in 1..(m - (off + d)) /\ d + i \in 1..(m - off) /\ off + d + i = off + (d + i)
      BY <2>0, <2>b
    <3>2. x[d + i] = <<h, off + (d + i)>> /\ y[i] = <<h, off + d + i>>
      BY <2>a, <2>b, <3>1
    <3> QED  BY <1>7, <3>1, <3>2
  <2> QED  BY <1>4, <1>5, <1>7, <2>1, <2>2, ConcatIs
<1>9. Bytes(s, off) = p \o (y \o t) /\ y \o t \in Seq(Places)
  <2>1. p \in Seq(Places) /\ y \in Seq(Places) /\ t \in Seq(Places)
    BY <1>3, <1>5, <1>7
  <2>2. (p \o y) \o t = p \o (y \o t)
    BY <2>1, ConcatRegroup, SMTT(30)
  <2> QED  BY <1>3, <1>8, <2>1, <2>2
<1>10. SubSeq(p \o (y \o t), Len(p) + 0 + 1, Len(p \o (y \o t)))
         = SubSeq(y \o t, 0 + 1, Len(y \o t))
  <2> DEFINE z == y \o t
  <2>1. z \in Seq(Places) /\ 0 \in 0..Len(z)
    BY <1>9
  <2> HIDE DEF z
  <2>2. SubSeq(p \o z, Len(p) + 0 + 1, Len(p \o z)) = SubSeq(z, 0 + 1, Len(z))
    BY <1>7, <2>1, CutConcat
  <2> QED  BY <2>2 DEF z
<1>11. SubSeq(y \o t, 1, Len(y \o t)) = y \o t
  BY <1>9, SubSeqFull
<1>12. d \in 0..Len(p \o (y \o t)) /\ Len(p) + 0 + 1 = d + 1 /\ 0 + 1 = 1
  BY <1>7, <1>9
<1> QED  BY <1>3, <1>9, <1>10, <1>11, <1>12

-----------------------------------------------------------------------------
(* What a completion leaves.                                                  *)
EventShape == /\ event \in Seq(Buffers) /\ event # <<>>
              /\ sendOffset \in Nat /\ sendOffset < Size[event[1][2]]

LEMMA PendingIs ==
  ASSUME EventShape, NEW i \in 0..Len(event)
  PROVE  /\ Bytes(SubSeq(event, 1, i), sendOffset) \in Seq(Places)
         /\ PendingUpTo(i) = Len(Bytes(SubSeq(event, 1, i), sendOffset))
         /\ PendingUpTo(i) \in Nat
<1>1. Starts(event, sendOffset) /\ event \in Seq(Buffers) /\ event # <<>> /\ sendOffset \in Nat
  BY Assumptions DEF Assumptions, EventShape, Starts, Buffers
<1>2. Bytes(SubSeq(event, 1, i), sendOffset) \in Seq(Places)
  BY <1>1, BytesCut
<1>3. PendingUpTo(i) = Len(Bytes(SubSeq(event, 1, i), sendOffset))
  BY DEF PendingUpTo
<1> QED  BY <1>2, <1>3

LEMMA CompletedIs ==
  ASSUME EventShape, NEW n \in Nat
  PROVE  /\ Completed(n) \in 0..Len(event)
         /\ PendingUpTo(Completed(n)) <= n
         /\ \A j \in (Completed(n) + 1)..Len(event) : PendingUpTo(j) > n
<1> DEFINE IsLast(i) == PendingUpTo(i) <= n /\ \A j \in (i + 1)..Len(event) : PendingUpTo(j) > n
           T == {k \in 0..Len(event) : PendingUpTo(Len(event) - k) <= n}
<1>1. Len(event) \in Nat
  BY DEF EventShape
<1>2. PendingUpTo(0) = 0
  <2>1. SubSeq(event, 1, 0) = <<>>
    BY SubSeqEmpty
  <2>2. PendingUpTo(0) = Len(Bytes(<<>>, sendOffset))
    BY <2>1 DEF PendingUpTo
  <2> QED  BY <2>2, BytesEmpty
<1>3. T \subseteq Nat /\ Len(event) \in T
  BY <1>1, <1>2
<1>4. PICK k \in T : \A m \in T : k <= m
  <2> HIDE DEF T
  <2> QED  BY <1>3, LeastOfNat
<1>5. Len(event) - k \in 0..Len(event) /\ PendingUpTo(Len(event) - k) <= n
  BY <1>1
<1>6. ASSUME NEW j \in (Len(event) - k + 1)..Len(event) PROVE PendingUpTo(j) > n
  <2>1. /\ j \in 0..Len(event) /\ Len(event) - j \in 0..Len(event)
        /\ Len(event) - (Len(event) - j) = j /\ Len(event) - j < k
    BY <1>1, <1>5
  <2>2. Len(event) - j \notin T
    BY <1>1, <1>4, <2>1
  <2>3. ~ (PendingUpTo(j) <= n)
    BY <2>1, <2>2
  <2>4. PendingUpTo(j) \in Nat
    BY <2>1, PendingIs
  <2> QED  BY <2>3, <2>4
<1>7. \E i \in 0..Len(event) : IsLast(i)
  <2>1. IsLast(Len(event) - k)
    BY <1>5, <1>6
  <2> HIDE DEF IsLast
  <2> QED  BY <1>5, <2>1
<1>8. Completed(n) = CHOOSE i \in 0..Len(event) : IsLast(i)
  BY DEF Completed
<1>9. Completed(n) \in 0..Len(event) /\ IsLast(Completed(n))
  <2> HIDE DEF IsLast
  <2> QED  BY <1>7, <1>8
<1> QED  BY <1>9

(* The bytes of the event after the first n are those of the buffers that     *)
(* return to the queue, from the new offset on.                               *)
Leaves(n, rest, offset) ==
  /\ rest = SubSeq(event, Completed(n) + 1, Len(event))
  /\ offset = (IF Completed(n) = 0 THEN sendOffset ELSE 0) + n - PendingUpTo(Completed(n))

LEMMA RestIs ==
  ASSUME EventShape, NEW n \in 0..Len(Bytes(event, sendOffset)),
         NEW rest, NEW offset, Leaves(n, rest, offset)
  PROVE  /\ rest \in Seq(Buffers) /\ Len(rest) <= Len(event)
         /\ rest = <<>> => n = Len(Bytes(event, sendOffset))
         /\ rest # <<>> => /\ offset \in Nat /\ offset < Size[rest[1][2]]
                          /\ SubSeq(Bytes(event, sendOffset), n + 1, Len(Bytes(event, sendOffset)))
                               = Bytes(rest, offset)
<1> DEFINE i == Completed(n)
           all == Bytes(event, sendOffset)
           done == Bytes(SubSeq(event, 1, i), sendOffset)
           from == IF i = 0 THEN sendOffset ELSE 0
           left == Bytes(rest, from)
           d == n - PendingUpTo(i)
<1>1. /\ event \in Seq(Buffers) /\ event # <<>> /\ Len(event) \in Nat /\ event[1] \in Buffers
      /\ sendOffset \in Nat /\ sendOffset < Size[event[1][2]] /\ from \in Nat
  BY DEF EventShape
<1>1a. Starts(event, sendOffset)
  BY <1>1, Assumptions DEF Assumptions, Starts, Buffers
<1>2. all \in Seq(Places) /\ n \in Nat /\ n <= Len(all) /\ Len(all) \in Nat
  BY <1>1, <1>1a, BytesType
<1>3. /\ i \in 0..Len(event) /\ PendingUpTo(i) <= n
      /\ \A j \in (i + 1)..Len(event) : PendingUpTo(j) > n
  BY <1>2, CompletedIs
<1>3a. rest = SubSeq(event, i + 1, Len(event)) /\ offset = from + n - PendingUpTo(i)
  BY DEF Leaves
<1> HIDE DEF i
<1>4. PendingUpTo(i) = Len(done) /\ Len(done) \in Nat
  BY <1>3, PendingIs
<1>5. done \in Seq(Places) /\ left \in Seq(Places)
  BY <1>1, <1>1a, <1>3, <1>3a, BytesCut
<1>6. all = done \o left
  <2>1. Bytes(event, sendOffset)
          = Bytes(SubSeq(event, 1, i), sendOffset)
            \o Bytes(SubSeq(event, i + 1, Len(event)), IF i = 0 THEN sendOffset ELSE 0)
    BY <1>1, <1>1a, <1>3, BytesCut
  <2> QED  BY <1>3a, <2>1
<1>7. rest \in Seq(Buffers) /\ Len(rest) = Len(event) - i
  BY <1>1, <1>3, <1>3a, CutSeq
<1>8. \A j \in 1..(Len(event) - i) : rest[j] = event[i + j]
  BY <1>1, <1>3, <1>3a, CutSeq
<1>9. d \in Nat /\ n = Len(done) + d /\ offset = from + d
  <2>1. from \in Nat /\ n \in Nat /\ offset = from + n - PendingUpTo(i)
    BY <1>1, <1>2, <1>3a
  <2> HIDE DEF from, done
  <2> QED  BY <1>3, <1>4, <2>1
<1>10. ASSUME rest = <<>> PROVE n = Len(all)
  <2>1. left = <<>>
    BY <1>10, BytesEmpty
  <2> HIDE DEF all, done, left
  <2>2. Len(all) = Len(done)
    BY <1>5, <1>6, <2>1
  <2> QED  BY <1>2, <1>9, <2>2
<1>11. ASSUME rest # <<>>
       PROVE  /\ offset \in Nat /\ offset < Size[rest[1][2]]
              /\ SubSeq(all, n + 1, Len(all)) = Bytes(rest, offset)
  <2>1. i + 1 \in 0..Len(event) /\ i + 1 \in (i + 1)..Len(event) /\ i \in Nat
    BY <1>1, <1>3, <1>7, <1>11
  <2> DEFINE b == event[i + 1]
             s == SubSeq(event, 1, i)
             more == Bytes(s \o <<b>>, sendOffset)
  <2>2. rest[1] = b /\ b \in Buffers
    <3>1. 1 \in 1..(Len(event) - i) /\ i + 1 \in 1..Len(event)
      BY <1>1, <2>1
    <3> QED  BY <1>1, <1>8, <3>1
  <2>3. from < Size[b[2]] /\ Size[b[2]] \in Nat
    <3>1. Size[b[2]] \in Nat \ {0}
      BY <2>2, Assumptions DEF Assumptions, Buffers
    <3>2. i = 0 => b = event[1]
      OBVIOUS
    <3> HIDE DEF b
    <3> QED  BY <1>1, <3>1, <3>2
  <2>4. s \in Seq(Buffers) /\ (s = <<>> <=> i = 0)
    <3>1. s \in Seq(Buffers)
      BY <1>1, <1>3, CutSeq
    <3>2. Len(s) = i
      BY <1>1, <1>3, CutSeq
    <3> HIDE DEF s
    <3> QED  BY <3>1, <3>2
  <2>5. SubSeq(event, 1, i + 1) = s \o <<b>>
    <3>1. 1 \in 1..Len(event) /\ i + 1 \in 1..Len(event) /\ (i + 1) - 1 = i
      BY <1>1, <2>1
    <3>2. SubSeq(event, 1, i + 1) = SubSeq(event, 1, (i + 1) - 1) \o <<event[i + 1]>>
      BY <1>1, <3>1, SubSeqRecursiveSecond
    <3> QED  BY <3>1, <3>2
  <2>6. Starts(s \o <<b>>, sendOffset)
    <3>1. (s \o <<b>>)[1] = event[1]
      <4>1. 1 \in 1..(i + 1)
        BY <2>1
      <4>2. SubSeq(event, 1, i + 1)[1] = event[1]
        BY <1>1, <2>1, <4>1, CutSeq
      <4> QED  BY <2>5, <4>2
    <3> QED  BY <1>1, <1>1a, <3>1 DEF Starts
  <2>7. more = done \o BytesFrom(b, from)
    <3> HIDE DEF b, s
    <3>1. more = Bytes(s, sendOffset) \o BytesFrom(b, IF s = <<>> THEN sendOffset ELSE 0)
      BY <1>1, <2>2, <2>4, <2>6, BytesSnoc
    <3>2. (IF s = <<>> THEN sendOffset ELSE 0) = from
      BY <2>4
    <3> QED  BY <3>1, <3>2 DEF s
  <2> DEFINE z == Size[b[2]]
  <2>8. BytesFrom(b, from) \in Seq(Places) /\ Len(BytesFrom(b, from)) = z - from
    <3> HIDE DEF b, from
    <3>1. from \in Nat /\ from <= Size[b[2]]
      BY <1>1, <2>3
    <3> QED  BY <2>2, <3>1, BytesFromIs
  <2>9. Len(more) > n
    BY <1>3, <2>1, <2>5 DEF PendingUpTo
  <2>a. from \in Nat /\ from < z /\ z \in Nat
    BY <1>1, <2>3
  <2> HIDE DEF z, b, more, done, left, from
  <2>10. Len(more) = Len(done) + (z - from)
    <3>1. done \in Seq(Places) /\ BytesFrom(b, from) \in Seq(Places)
      BY <1>5, <2>8
    <3>2. Len(done \o BytesFrom(b, from)) = Len(done) + Len(BytesFrom(b, from))
      BY <3>1, ConcatProperties
    <3> QED  BY <2>7, <2>8, <3>2
  <2>11. offset \in Nat /\ offset < z
    BY <1>4, <1>9, <2>9, <2>10, <2>a
  <2>12. from + d <= Size[rest[1][2]] /\ offset < Size[rest[1][2]]
    <3>1. from + d <= z
      BY <1>9, <2>a, <2>11
    <3> QED  BY <2>2, <2>11, <3>1 DEF z
  <2> USE DEF left
  <2>13. d \in 0..Len(left)
    BY <1>1, <1>7, <1>9, <1>11, <2>12, BytesDrop
  <2>14. SubSeq(left, d + 1, Len(left)) = Bytes(rest, from + d)
    BY <1>1, <1>7, <1>9, <1>11, <2>12, BytesDrop
  <2>15. SubSeq(done \o left, Len(done) + d + 1, Len(done \o left)) = SubSeq(left, d + 1, Len(left))
    <3> HIDE DEF left, d
    <3> QED  BY <1>5, <2>13, CutConcat
  <2> QED  BY <1>6, <1>9, <2>11, <2>12, <2>14, <2>15
<1> HIDE DEF all
<1>12. Len(rest) <= Len(event)
  BY <1>1, <1>3, <1>7
<1> QED  BY <1>7, <1>10, <1>11, <1>12 DEF all

-----------------------------------------------------------------------------
(* The inductive invariant, in four parts.  The values:                       *)
Values ==
  /\ connected \in BOOLEAN /\ isSending \in BOOLEAN /\ stalled \in BOOLEAN
  /\ sendQueue \in Seq(Buffers) /\ event \in Seq(Buffers) /\ accepted \in Seq(Buffers)
  /\ wsaBufs \in Seq(Places) /\ wire \in Seq(Places)
  /\ sendOffset \in Nat
  /\ kernel \in {<<>>, <<"posted">>} \cup {<<"done", n>> : n \in 0..Len(wsaBufs)}
  /\ pc \in [Threads -> {"idle", "send", "overflow", "register", "gather", "post", "fatal"}]
  /\ want \in [Threads -> 0..MaxSend] /\ made \in [Threads -> 0..MaxSend]
  /\ \A t \in Threads : pc[t] = "send" => want[t] >= 1 /\ made[t] + want[t] <= MaxSend

(* ... the right to send: one thread in RegisterSend or the system has it, _isSending *)
(* says so, and the event holds the buffers that are out;                     *)
Turn ==
  /\ OneSendAtATime
  /\ ~ isSending => Registering = {} /\ kernel = <<>> /\ event = <<>>
  /\ kernel # <<>> => event # <<>>
  /\ \A t \in Threads : /\ pc[t] \in {"register", "gather"} => sendQueue # <<>> /\ event = <<>>
                        /\ pc[t] = "post" => event # <<>>
                        /\ pc[t] = "fatal" => ~ connected
  /\ connected => /\ sendQueue # <<>> => isSending
                  /\ isSending => Registering # {} \/ kernel # <<>> \/ stalled

(* ... the limits of the queue, with and without a WSASend under way;         *)
Limits ==
  /\ Len(event) <= MaxGather
  /\ Len(sendQueue) <= MaxQueue + MaxGather
  /\ event # <<>> => Len(sendQueue) <= MaxQueue

(* ... and the bytes: what WSASend was given is the event from the offset on, *)
(* and the offset lies in the buffer that is sent first.                      *)
InFirst(bufs, off) == IF bufs = <<>> THEN off = 0 ELSE off < Size[bufs[1][2]]

Stream ==
  /\ IF event = <<>> THEN wsaBufs = <<>>
                     ELSE InFirst(event, sendOffset) /\ wsaBufs = Bytes(event, sendOffset)
  /\ event = <<>> /\ (connected \/ \E t \in Threads :
       pc[t] = "gather") => InFirst(sendQueue, sendOffset)
  /\ StreamIntact

SendInv == Values /\ Turn /\ Limits /\ Stream

(* The steps of Next, one by one.                                             *)
LEMMA Steps ==
  ASSUME NEW P,
         \A t \in Threads :
           /\ \A k \in 1..MaxSend : SendCheck(t, k) => P
           /\ SendEnqueue(t) /\ t \in Senders => P
           /\ SendOverflow(t) => P
           /\ RegisterCheck(t) => P
           /\ Gather(t) => P
           /\ PostSend(t) => P
           /\ PostRecoverable(t) => P
           /\ PostFatal(t) => P
           /\ FatalCleanup(t) => P,
         ProcessSend => P, ProcessSendBroken => P,
         \A n \in 0..Len(wsaBufs) : KernelComplete(n) => P,
         Disconnect => P, UNCHANGED vars => P,
         [Next]_vars
  PROVE  P
BY DEF Next, SendStep, RegisterStep, CompleteStep, KernelStep, Threads

LEMMA FreshIs ==
  ASSUME Values, NEW t \in Senders, pc[t] = "send"
  PROVE  /\ Fresh(t) \in Seq(Buffers) /\ Len(Fresh(t)) = want[t] /\ want[t] \in Nat \ {0}
         /\ made[t] + want[t] \in 0..MaxSend
<1>1. /\ want[t] \in Nat \ {0} /\ made[t] \in Nat /\ made[t] + want[t] <= MaxSend
      /\ MaxSend \in Nat
  BY Assumptions DEF Assumptions, Values, Threads
<1>2. ASSUME NEW i \in 1..want[t] PROVE <<t, made[t] + i>> \in Buffers
  BY <1>1 DEF Buffers
<1> QED  BY <1>1, <1>2 DEF Fresh

(* What Gather takes and what it leaves.                                      *)
Taken == IF Len(sendQueue) < MaxGather THEN Len(sendQueue) ELSE MaxGather

LEMMA GatherIs ==
  ASSUME sendQueue \in Seq(Buffers), sendQueue # <<>>,
         NEW taken, taken = SubSeq(sendQueue, 1, Taken),
         NEW rest, rest = SubSeq(sendQueue, Taken + 1, Len(sendQueue))
  PROVE  /\ Taken \in 1..Len(sendQueue) /\ Taken <= MaxGather
         /\ Taken = MaxGather \/ Taken = Len(sendQueue)
         /\ taken \in Seq(Buffers) /\ Len(taken) = Taken /\ taken # <<>>
         /\ taken[1] = sendQueue[1]
         /\ rest \in Seq(Buffers) /\ Len(rest) = Len(sendQueue) - Taken
         /\ sendQueue = taken \o rest
<1>1. Taken \in 1..Len(sendQueue) /\ Taken <= MaxGather /\
        (Taken = MaxGather \/ Taken = Len(sendQueue))
  BY Assumptions DEF Assumptions, Taken
<1>2. Taken \in 0..Len(sendQueue) /\ 1 \in 1..Taken
  BY <1>1
<1>3. taken \in Seq(Buffers) /\ rest \in Seq(Buffers)
  BY <1>2, CutSeq
<1>4. Len(taken) = Taken /\ Len(rest) = Len(sendQueue) - Taken
  BY <1>2, CutSeq
<1>5. taken[1] = sendQueue[1]
  BY <1>2, CutSeq
<1>6. sendQueue = taken \o rest
  BY <1>2, CutSeq
<1>7. taken # <<>>
  <2>1. Len(taken) # 0
    BY <1>1, <1>4
  <2> QED  BY <2>1
<1> QED  BY <1>1, <1>3, <1>4, <1>5, <1>6, <1>7

LEMMA SendInit == Init => SendInv
<1> SUFFICES ASSUME Init PROVE SendInv
  OBVIOUS
<1>1. Values
  <2>1. /\ pc \in [Threads -> {"idle", "send", "overflow", "register", "gather", "post", "fatal"}]
        /\ \A t \in Threads : pc[t] # "send"
    BY DEF Init
  <2>2. want \in [Threads -> 0..MaxSend] /\ made \in [Threads -> 0..MaxSend]
    BY Assumptions DEF Assumptions, Init
  <2>3. kernel \in {<<>>, <<"posted">>} \cup {<<"done", n>> : n \in 0..Len(wsaBufs)}
    BY DEF Init
  <2>4. <<>> \in Seq(Buffers) /\ <<>> \in Seq(Places)
    OBVIOUS
  <2> QED  BY <2>1, <2>2, <2>3, <2>4 DEF Init, Values
<1>2. Turn
  BY DEF Init, Turn, OneSendAtATime, Registering
<1>3. Limits
  BY Assumptions DEF Assumptions, Init, Limits
<1>4. Stream
  <2>1. Bytes(<<>>, 0) = <<>>
    BY BytesEmpty
  <2>2. <<>> \o <<>> = <<>>
    OBVIOUS
  <2> QED  BY <2>1, <2>2 DEF Init, Stream, StreamIntact, Unsent, InFirst
<1> QED  BY <1>1, <1>2, <1>3, <1>4 DEF SendInv

(* What a completion returns to the queue, under the invariant.               *)
LEMMA ResumeIs ==
  ASSUME SendInv, HasBytes
  PROVE  /\ kernel[2] \in Nat \ {0} /\ kernel[2] \in 0..Len(wsaBufs)
         /\ EventShape /\ wsaBufs = Bytes(event, sendOffset)
         /\ Leaves(kernel[2], Rest, NextOffset)
         /\ Rest \in Seq(Buffers) /\ Len(Rest) <= Len(event)
         /\ Rest = <<>> => kernel[2] = Len(wsaBufs)
         /\ Rest # <<>> => /\ NextOffset \in Nat /\ NextOffset < Size[Rest[1][2]]
                          /\ SubSeq(wsaBufs, kernel[2] + 1, Len(wsaBufs)) = Bytes(Rest, NextOffset)
<1>1. /\ kernel[2] \in Nat \ {0} /\ kernel[2] \in 0..Len(wsaBufs)
  BY DEF SendInv, Values, HasBytes
<1>2. EventShape /\ wsaBufs = Bytes(event, sendOffset)
  BY DEF SendInv, Values, Turn, Stream, HasBytes, EventShape, InFirst
<1>3. Leaves(kernel[2], Rest, NextOffset)
  BY DEF Leaves, Rest, NextOffset
<1>4. kernel[2] \in 0..Len(Bytes(event, sendOffset))
  BY <1>1, <1>2
<1> DEFINE n == kernel[2]
           rest == Rest
           offset == NextOffset
<1> HIDE DEF n, rest, offset
<1>5. /\ rest \in Seq(Buffers) /\ Len(rest) <= Len(event)
      /\ rest = <<>> => n = Len(Bytes(event, sendOffset))
      /\ rest # <<>> => /\ offset \in Nat /\ offset < Size[rest[1][2]]
                       /\ SubSeq(Bytes(event, sendOffset), n + 1, Len(Bytes(event, sendOffset)))
                            = Bytes(rest, offset)
  <2>1. n \in 0..Len(Bytes(event, sendOffset)) /\ Leaves(n, rest, offset) /\ EventShape
    BY <1>2, <1>3, <1>4 DEF n, rest, offset
  <2> QED  BY <2>1, RestIs
<1> QED  BY <1>1, <1>2, <1>3, <1>5 DEF n, rest, offset

LEMMA ValuesNext == SendInv /\ [Next]_vars => Values'
<1> SUFFICES ASSUME SendInv, [Next]_vars PROVE Values'
  OBVIOUS
<1>0. Values /\ MaxSend \in Nat
  BY Assumptions DEF Assumptions, SendInv
<1>1. ASSUME NEW t \in Threads, NEW k \in 1..MaxSend, SendCheck(t, k) PROVE Values'
  BY <1>0, <1>1 DEF SendCheck, Goto, Values, queueVars, ioVars, history
<1>2. ASSUME NEW t \in Senders, SendEnqueue(t) PROVE Values'
  <2>1. /\ Fresh(t) \in Seq(Buffers) /\ made[t] + want[t] \in 0..MaxSend /\ t \in Threads
    BY <1>0, <1>2, FreshIs DEF SendEnqueue, Enqueue, Threads
  <2>2. sendQueue' \in Seq(Buffers) /\ accepted' \in Seq(Buffers) /\ isSending' \in BOOLEAN
    <3>1. sendQueue \in Seq(Buffers) /\ accepted \in Seq(Buffers) /\ isSending \in BOOLEAN
      BY <1>0 DEF Values
    <3>2. \/ UNCHANGED <<sendQueue, isSending, accepted>>
          \/ /\ sendQueue' = sendQueue \o Fresh(t) /\ accepted' = accepted \o Fresh(t)
             /\ isSending' = TRUE
      BY <1>2 DEF SendEnqueue, Enqueue
    <3>3. sendQueue \o Fresh(t) \in Seq(Buffers) /\ accepted \o Fresh(t) \in Seq(Buffers)
      BY <2>1, <3>1
    <3> QED  BY <3>1, <3>2, <3>3
  <2>3. /\ pc' \in [Threads -> {"idle", "send", "overflow", "register", "gather", "post", "fatal"}]
        /\ pc'[t] # "send" /\ \A u \in Threads : u # t => pc'[u] = pc[u]
    BY <1>0, <1>2, <2>1 DEF SendEnqueue, Enqueue, Values, Goto
  <2>4. /\ want' \in [Threads -> 0..MaxSend] /\ made' \in [Threads -> 0..MaxSend]
        /\ \A u \in Threads : u # t => want'[u] = want[u] /\ made'[u] = made[u]
    BY <1>0, <1>2, <2>1 DEF SendEnqueue, Enqueue, Values
  <2> QED  BY <1>0, <1>2, <2>2, <2>3, <2>4 DEF SendEnqueue, Enqueue, Values, ioVars
<1>3. ASSUME NEW t \in Threads, SendOverflow(t) PROVE Values'
  BY <1>0, <1>3 DEF SendOverflow, Goto, Values, queueVars, ioVars, history
<1>4. ASSUME NEW t \in Threads, RegisterCheck(t) PROVE Values'
  BY <1>0, <1>4 DEF RegisterCheck, Goto, Values, queueVars, ioVars, history
<1>5. ASSUME NEW t \in Threads, Gather(t) PROVE Values'
  <2>1. sendQueue # <<>> /\ event = <<>> /\ sendQueue \in Seq(Buffers) /\
          InFirst(sendQueue, sendOffset)
        /\ sendOffset \in Nat /\ kernel = <<>>
    BY <1>5 DEF Gather, SendInv, Turn, Stream, Values, OneSendAtATime, Registering
  <2> DEFINE taken == SubSeq(sendQueue, 1, Taken)
             rest == SubSeq(sendQueue, Taken + 1, Len(sendQueue))
  <2>2. /\ taken \in Seq(Buffers) /\ taken # <<>> /\ taken[1] = sendQueue[1]
        /\ rest \in Seq(Buffers)
    BY <2>1, GatherIs
  <2>3. /\ event' = event \o taken /\ wsaBufs' = Bytes(taken, sendOffset) /\ sendQueue' = rest
        /\ isSending' \in BOOLEAN
    BY <1>5 DEF Gather, Taken
  <2> HIDE DEF taken, rest
  <2>4. Starts(taken, sendOffset)
    BY <2>1, <2>2, Assumptions, SMTT(30) DEF Assumptions, Starts, InFirst, Buffers
  <2>5. wsaBufs' \in Seq(Places)
    BY <2>1, <2>2, <2>3, <2>4, BytesType
  <2>6. sendQueue' \in Seq(Buffers) /\ event' \in Seq(Buffers)
    BY <2>1, <2>2, <2>3
  <2>7. pc' \in [Threads -> {"idle", "send", "overflow", "register", "gather", "post", "fatal"}]
        /\ \A u \in Threads : pc'[u] = "send" => pc[u] = "send"
    BY <1>0, <1>5 DEF Gather, Goto, Values
  <2> QED  BY <1>0, <1>5, <2>1, <2>3, <2>5, <2>6, <2>7 DEF Gather, Values, history
<1>6. ASSUME NEW t \in Threads, PostSend(t) PROVE Values'
  BY <1>0, <1>6 DEF PostSend, Goto, Values, queueVars, history
<1>7. ASSUME NEW t \in Threads, PostRecoverable(t) PROVE Values'
  BY <1>0, <1>7 DEF PostRecoverable, Goto, Values, queueVars, ioVars
<1>8. ASSUME NEW t \in Threads, PostFatal(t) PROVE Values'
  BY <1>0, <1>8 DEF PostFatal, Goto, Values, queueVars, ioVars, history
<1>9. ASSUME NEW t \in Threads, FatalCleanup(t) PROVE Values'
  <2>1. kernel = <<>>
    BY <1>9 DEF FatalCleanup, SendInv, Turn, OneSendAtATime, Registering
  <2>2. kernel' \in {<<>>, <<"posted">>} \cup {<<"done", n>> : n \in 0..Len(wsaBufs')}
    BY <1>9, <2>1 DEF FatalCleanup
  <2>3. event' \in Seq(Buffers) /\ wsaBufs' \in Seq(Places)
    BY <1>9 DEF FatalCleanup
  <2> QED  BY <1>0, <1>9, <2>2, <2>3 DEF FatalCleanup, Goto, Values, history
<1>10. ASSUME ProcessSend PROVE Values'
  <2>1. Rest \in Seq(Buffers) /\ (Rest # <<>> => NextOffset \in Nat)
    BY <1>10, ResumeIs DEF ProcessSend, Resume
  <2>2. sendQueue' \in Seq(Buffers) /\ sendOffset' \in Nat /\ isSending' \in BOOLEAN
    BY <1>0, <1>10, <2>1 DEF ProcessSend, Resume, Values
  <2>3. pc' \in [Threads -> {"idle", "send", "overflow", "register", "gather", "post", "fatal"}]
        /\ \A u \in Threads : pc'[u] = "send" => pc[u] = "send"
    BY <1>0, <1>10 DEF ProcessSend, Resume, Goto, Values
  <2> QED  BY <1>0, <1>10, <2>2, <2>3 DEF ProcessSend, Resume, Values, history
<1>11. ASSUME ProcessSendBroken PROVE Values'
  <2>1. kernel' \in {<<>>, <<"posted">>} \cup {<<"done", n>> : n \in 0..Len(wsaBufs')}
    BY <1>11 DEF ProcessSendBroken
  <2>2. event' \in Seq(Buffers) /\ wsaBufs' \in Seq(Places)
    BY <1>11 DEF ProcessSendBroken
  <2> QED  BY <1>0, <1>11, <2>1, <2>2 DEF ProcessSendBroken, Values, queueVars, threadVars, history
<1>12. ASSUME NEW n \in 0..Len(wsaBufs), KernelComplete(n) PROVE Values'
  <2>1. SubSeq(wsaBufs, 1, n) \in Seq(Places)
    BY <1>0, CutSeq DEF Values
  <2> QED  BY <1>0, <1>12, <2>1 DEF KernelComplete, Values, queueVars, threadVars
<1>13. ASSUME Disconnect PROVE Values'
  BY <1>0, <1>13 DEF Disconnect, Values, queueVars, ioVars, threadVars, history
<1>14. ASSUME UNCHANGED vars PROVE Values'
  BY <1>0, <1>14 DEF Values, vars, queueVars, ioVars, threadVars, history
<1> QED
  BY <1>1, <1>2, <1>3, <1>4, <1>5, <1>6, <1>7, <1>8, <1>9, <1>10, <1>11, <1>12, <1>13, <1>14, Steps

LEMMA TurnNext == SendInv /\ [Next]_vars => Turn'
<1> SUFFICES ASSUME SendInv, [Next]_vars PROVE Turn'
  OBVIOUS
<1>0. /\ Turn /\ pc \in [Threads -> {"idle", "send", "overflow", "register", "gather", "post", "fatal"}]
      /\ isSending \in BOOLEAN /\ connected \in BOOLEAN /\ stalled \in BOOLEAN
      /\ event \in Seq(Buffers) /\ sendQueue \in Seq(Buffers)
  BY DEF SendInv, Values
<1> USE DEF Turn, OneSendAtATime, Registering, Goto, queueVars, ioVars, threadVars, history
<1>1. ASSUME NEW t \in Threads, NEW k \in 1..MaxSend, SendCheck(t, k) PROVE Turn'
  BY <1>0, <1>1 DEF SendCheck
<1>2. ASSUME NEW t \in Senders, SendEnqueue(t) PROVE Turn'
  <2>1. t \in Threads /\ Fresh(t) \in Seq(Buffers) /\ Len(Fresh(t)) # 0
    BY <1>2, FreshIs DEF SendEnqueue, Enqueue, SendInv, Threads
  <2>2. sendQueue \o Fresh(t) # <<>>
    BY <1>0, <2>1
  <2>3. CASE Overflows(want[t])
    BY <1>0, <1>2, <2>1, <2>3 DEF SendEnqueue, Enqueue
  <2>4. CASE ~ Overflows(want[t])
    <3>1. /\ sendQueue' # <<>> /\ isSending' = TRUE /\
            UNCHANGED <<connected, event, kernel, stalled>>
          /\ pc[t] = "send" /\ pc' = [pc EXCEPT ![t] = IF isSending THEN "idle" ELSE "register"]
      BY <1>2, <2>2, <2>4 DEF SendEnqueue, Enqueue
    <3>2. CASE isSending
      BY <1>0, <2>1, <3>1, <3>2
    <3>3. CASE ~ isSending
      BY <1>0, <2>1, <3>1, <3>3
    <3> QED  BY <3>2, <3>3
  <2> QED  BY <2>3, <2>4
<1>3. ASSUME NEW t \in Threads, SendOverflow(t) PROVE Turn'
  BY <1>0, <1>3 DEF SendOverflow
<1>4. ASSUME NEW t \in Threads, RegisterCheck(t) PROVE Turn'
  BY <1>0, <1>4 DEF RegisterCheck
<1>5. ASSUME NEW t \in Threads, Gather(t) PROVE Turn'
  <2>1. /\ sendQueue # <<>> /\ event = <<>> /\ kernel = <<>> /\ pc[t] = "gather"
        /\ \A u \in Threads : u # t => u \notin Registering
    BY <1>0, <1>5 DEF Gather
  <2> DEFINE taken == SubSeq(sendQueue, 1, Taken)
             rest == SubSeq(sendQueue, Taken + 1, Len(sendQueue))
  <2>2. taken \in Seq(Buffers) /\ taken # <<>> /\ rest \in Seq(Buffers) /\
          Taken \in 1..Len(sendQueue)
    BY <1>0, <2>1, GatherIs
  <2>3. /\ event' = event \o taken /\ isSending' = (Taken # 0)
        /\ pc' = [pc EXCEPT ![t] = IF Taken = 0 THEN "idle" ELSE "post"]
        /\ UNCHANGED <<connected, kernel, stalled>>
    BY <1>5 DEF Gather, Taken
  <2> HIDE DEF taken
  <2>4. event' # <<>>
    BY <2>1, <2>2, <2>3
  <2>5. Taken # 0
    BY <2>2
  <2>6. isSending' = TRUE /\ pc' = [pc EXCEPT ![t] = "post"]
    BY <2>3, <2>5
  <2> QED  BY <1>0, <2>1, <2>3, <2>4, <2>6
<1>6. ASSUME NEW t \in Threads, PostSend(t) PROVE Turn'
  BY <1>0, <1>6 DEF PostSend
<1>7. ASSUME NEW t \in Threads, PostRecoverable(t) PROVE Turn'
  BY <1>0, <1>7 DEF PostRecoverable
<1>8. ASSUME NEW t \in Threads, PostFatal(t) PROVE Turn'
  BY <1>0, <1>8 DEF PostFatal
<1>9. ASSUME NEW t \in Threads, FatalCleanup(t) PROVE Turn'
  BY <1>0, <1>9 DEF FatalCleanup
<1>10. ASSUME ProcessSend PROVE Turn'
  <2>1. kernel # <<>> /\ Registering = {} /\ pc[Completer] = "idle" /\ Completer \in Threads
    BY <1>0, <1>10 DEF ProcessSend, Resume, HasBytes, Threads
  <2>2. Rest \o sendQueue = sendQueue' /\ isSending' = (sendQueue' # <<>>)
    BY <1>10 DEF ProcessSend, Resume
  <2>3. /\ pc' = [pc EXCEPT ![Completer] = IF isSending' THEN "register" ELSE "idle"]
        /\ event' = <<>> /\ kernel' = <<>> /\ UNCHANGED <<connected, stalled>>
    BY <1>10 DEF ProcessSend, Resume
  <2>4. CASE sendQueue' = <<>>
    BY <1>0, <2>1, <2>2, <2>3, <2>4
  <2>5. CASE sendQueue' # <<>>
    BY <1>0, <2>1, <2>2, <2>3, <2>5
  <2> QED  BY <2>4, <2>5
<1>11. ASSUME ProcessSendBroken PROVE Turn'
  BY <1>0, <1>11 DEF ProcessSendBroken
<1>12. ASSUME NEW n \in 0..Len(wsaBufs), KernelComplete(n) PROVE Turn'
  BY <1>0, <1>12 DEF KernelComplete
<1>13. ASSUME Disconnect PROVE Turn'
  BY <1>0, <1>13 DEF Disconnect
<1>14. ASSUME UNCHANGED vars PROVE Turn'
  BY <1>0, <1>14 DEF vars
<1> QED
  BY <1>1, <1>2, <1>3, <1>4, <1>5, <1>6, <1>7, <1>8, <1>9, <1>10, <1>11, <1>12, <1>13, <1>14, Steps

LEMMA LimitsNext == SendInv /\ [Next]_vars => Limits'
<1> SUFFICES ASSUME SendInv, [Next]_vars PROVE Limits'
  OBVIOUS
<1>0. /\ Limits /\ MaxQueue \in Nat /\ MaxGather \in Nat
      /\ event \in Seq(Buffers) /\ sendQueue \in Seq(Buffers)
  BY Assumptions DEF Assumptions, SendInv, Values
<1> USE DEF Limits, queueVars, ioVars, threadVars, history
<1>1. ASSUME NEW t \in Threads, NEW k \in 1..MaxSend, SendCheck(t, k) PROVE Limits'
  BY <1>0, <1>1 DEF SendCheck
<1>2. ASSUME NEW t \in Senders, SendEnqueue(t) PROVE Limits'
  <2>1. /\ t \in Threads /\ Fresh(t) \in Seq(Buffers) /\ Len(Fresh(t)) = want[t]
        /\ want[t] \in Nat \ {0}
    BY <1>2, FreshIs DEF SendEnqueue, Enqueue, SendInv, Threads
  <2>2. CASE Overflows(want[t])
    BY <1>0, <1>2, <2>2 DEF SendEnqueue, Enqueue
  <2>3. CASE ~ Overflows(want[t])
    <3>1. Len(sendQueue) + want[t] <= MaxQueue
      BY <1>0, <2>1, <2>3 DEF Overflows
    <3>2. sendQueue' = sendQueue \o Fresh(t) /\ event' = event
      BY <1>2, <2>3 DEF SendEnqueue, Enqueue
    <3>3. Len(sendQueue') = Len(sendQueue) + want[t]
      <4>1. sendQueue \in Seq(Buffers) /\ Fresh(t) \in Seq(Buffers)
        BY <1>0, <2>1
      <4>2. Len(sendQueue \o Fresh(t)) = Len(sendQueue) + Len(Fresh(t))
        BY <4>1, ConcatProperties
      <4> QED  BY <2>1, <3>2, <4>2
    <3> QED  BY <1>0, <2>1, <3>1, <3>2, <3>3
  <2> QED  BY <2>2, <2>3
<1>3. ASSUME NEW t \in Threads, SendOverflow(t) PROVE Limits'
  BY <1>0, <1>3 DEF SendOverflow
<1>4. ASSUME NEW t \in Threads, RegisterCheck(t) PROVE Limits'
  BY <1>0, <1>4 DEF RegisterCheck
<1>5. ASSUME NEW t \in Threads, Gather(t) PROVE Limits'
  <2>1. sendQueue # <<>> /\ event = <<>>
    BY <1>5 DEF Gather, SendInv, Turn
  <2> DEFINE taken == SubSeq(sendQueue, 1, Taken)
             rest == SubSeq(sendQueue, Taken + 1, Len(sendQueue))
  <2>2. /\ Taken \in 1..Len(sendQueue) /\ Taken <= MaxGather
        /\ Taken = MaxGather \/ Taken = Len(sendQueue)
        /\ taken \in Seq(Buffers) /\ Len(taken) = Taken
        /\ rest \in Seq(Buffers) /\ Len(rest) = Len(sendQueue) - Taken
    BY <1>0, <2>1, GatherIs
  <2>3. event' = event \o taken /\ sendQueue' = rest
    BY <1>5 DEF Gather, Taken
  <2> HIDE DEF taken, rest
  <2>4. event' = taken
    BY <2>1, <2>2, <2>3
  <2> QED  BY <1>0, <2>2, <2>3, <2>4
<1>6. ASSUME NEW t \in Threads, PostSend(t) PROVE Limits'
  BY <1>0, <1>6 DEF PostSend
<1>7. ASSUME NEW t \in Threads, PostRecoverable(t) PROVE Limits'
  BY <1>0, <1>7 DEF PostRecoverable
<1>8. ASSUME NEW t \in Threads, PostFatal(t) PROVE Limits'
  BY <1>0, <1>8 DEF PostFatal
<1>9. ASSUME NEW t \in Threads, FatalCleanup(t) PROVE Limits'
  BY <1>0, <1>9 DEF FatalCleanup
<1>10. ASSUME ProcessSend PROVE Limits'
  <2>1. /\ Rest \in Seq(Buffers) /\ Len(Rest) <= Len(event) /\ event # <<>>
    BY <1>10, ResumeIs DEF ProcessSend, Resume, EventShape
  <2>2. sendQueue' = Rest \o sendQueue /\ event' = <<>>
    BY <1>10 DEF ProcessSend, Resume
  <2>3. Len(sendQueue') = Len(Rest) + Len(sendQueue) /\ Len(event') = 0
    BY <1>0, <2>1, <2>2
  <2> QED  BY <1>0, <2>1, <2>2, <2>3
<1>11. ASSUME ProcessSendBroken PROVE Limits'
  BY <1>0, <1>11 DEF ProcessSendBroken
<1>12. ASSUME NEW n \in 0..Len(wsaBufs), KernelComplete(n) PROVE Limits'
  BY <1>0, <1>12 DEF KernelComplete
<1>13. ASSUME Disconnect PROVE Limits'
  BY <1>0, <1>13 DEF Disconnect
<1>14. ASSUME UNCHANGED vars PROVE Limits'
  BY <1>0, <1>14 DEF vars
<1> QED
  BY <1>1, <1>2, <1>3, <1>4, <1>5, <1>6, <1>7, <1>8, <1>9, <1>10, <1>11, <1>12, <1>13, <1>14, Steps

(* How many of the bytes given to WSASend the network has taken.              *)
Sent == IF kernel # <<>> /\ kernel[1] = "done" THEN kernel[2] ELSE 0

LEMMA UnsentIs ==
  ASSUME SendInv
  PROVE  /\ event = <<>> => Unsent = Bytes(sendQueue, sendOffset)
         /\ event # <<>> => Unsent = SubSeq(wsaBufs, Sent + 1, Len(wsaBufs)) \o Bytes(sendQueue, 0)
         /\ Bytes(sendQueue, 0) \in Seq(Places)
         /\ SubSeq(wsaBufs, Sent + 1, Len(wsaBufs)) \in Seq(Places) /\ Sent \in 0..Len(wsaBufs)
         /\ connected => Unsent \in Seq(Places)
<1>1. Values /\ Stream /\ Starts(sendQueue, 0)
  BY Assumptions DEF Assumptions, SendInv, Values, Starts, Buffers
<1>2. Bytes(sendQueue, 0) \in Seq(Places)
  BY <1>1, BytesType DEF Values
<1>3. Sent \in 0..Len(wsaBufs) /\ wsaBufs \in Seq(Places)
  BY <1>1 DEF Values, Sent
<1>4. SubSeq(wsaBufs, Sent + 1, Len(wsaBufs)) \in Seq(Places)
  BY <1>3, CutSeq
<1>5. /\ event = <<>> => Unsent = Bytes(sendQueue, sendOffset)
      /\ event # <<>> => Unsent = SubSeq(wsaBufs, Sent + 1, Len(wsaBufs)) \o Bytes(sendQueue, 0)
  BY DEF Unsent, Sent
<1>6. ASSUME connected, event = <<>> PROVE Bytes(sendQueue, sendOffset) \in Seq(Places)
  <2>1. Starts(sendQueue, sendOffset)
    BY <1>1, <1>6, Assumptions DEF Assumptions, Stream, InFirst, Starts, Values, Buffers
  <2> QED  BY <1>1, <2>1, BytesType DEF Values
<1>7. connected => Unsent \in Seq(Places)
  <2>1. CASE event = <<>>
    BY <1>5, <1>6, <2>1
  <2>2. CASE event # <<>>
    <3> DEFINE out == SubSeq(wsaBufs, Sent + 1, Len(wsaBufs))
               queued == Bytes(sendQueue, 0)
    <3>1. Unsent = out \o queued /\ out \in Seq(Places) /\ queued \in Seq(Places)
      BY <1>2, <1>4, <1>5, <2>2
    <3> HIDE DEF out, queued
    <3> QED  BY <3>1
  <2> QED  BY <2>1, <2>2
<1> QED  BY <1>2, <1>3, <1>4, <1>5, <1>7

LEMMA StreamNext == SendInv /\ [Next]_vars => Stream'
<1> SUFFICES ASSUME SendInv, [Next]_vars PROVE Stream'
  OBVIOUS
<1>0. /\ Stream /\ Values
  BY DEF SendInv
<1>a. \A bufs \in Seq(Buffers) : Starts(bufs, 0)
  BY Assumptions DEF Assumptions, Starts, Buffers
<1>b. \A bufs \in Seq(Buffers) : InFirst(bufs, sendOffset) => Starts(bufs, sendOffset)
  BY Assumptions, SMTT(30) DEF Assumptions, Values, SendInv, Starts, InFirst, Buffers
<1> USE DEF queueVars, ioVars, threadVars, history
<1>1. ASSUME NEW t \in Threads, NEW k \in 1..MaxSend, SendCheck(t, k) PROVE Stream'
  BY <1>0, <1>1 DEF SendCheck, Stream, StreamIntact, Unsent, InFirst, Goto, Values
<1>2. ASSUME NEW t \in Senders, SendEnqueue(t) PROVE Stream'
  <2>1. t \in Threads /\ Fresh(t) \in Seq(Buffers) /\ Len(Fresh(t)) # 0
    BY <1>2, FreshIs DEF SendEnqueue, Enqueue, SendInv, Threads
  <2>2. CASE Overflows(want[t])
    BY <1>0, <1>2, <2>1, <2>2 DEF SendEnqueue, Enqueue, Stream, StreamIntact, Unsent, InFirst, Goto, Values
  <2>3. CASE ~ Overflows(want[t])
    <3> DEFINE f == Fresh(t)
               more == Bytes(f, 0)
    <3>1. /\ sendQueue' = sendQueue \o f /\ accepted' = accepted \o f
          /\ UNCHANGED <<connected, sendOffset, event, wsaBufs, kernel, wire>>
      BY <1>2, <2>3 DEF SendEnqueue, Enqueue
    <3>2. \A u \in Threads : pc'[u] = "gather" => pc[u] = "gather"
      BY <1>0, <1>2, <2>1, <2>3 DEF SendEnqueue, Enqueue, Goto, Values
    <3>3. f \in Seq(Buffers) /\ f # <<>> /\ f[1] \in Buffers /\ more \in Seq(Places)
      <4>1. f \in Seq(Buffers) /\ f # <<>>
        BY <2>1
      <4> HIDE DEF f
      <4> QED  BY <4>1, <1>a, BytesType
    <3> HIDE DEF f
    <3>4. ASSUME InFirst(sendQueue, sendOffset) PROVE InFirst(sendQueue', sendOffset')
      <4>1. 0 < Size[f[1][2]]
        BY <3>3, Assumptions DEF Assumptions, Buffers
      <4>2. CASE sendQueue = <<>>
        BY <3>1, <3>3, <3>4, <4>1, <4>2, <1>0 DEF InFirst, Values
      <4>3. CASE sendQueue # <<>>
        <5>1. (sendQueue \o f)[1] = sendQueue[1] /\ sendQueue \o f # <<>>
          BY <1>0, <3>3, <4>3 DEF Values
        <5> QED  BY <3>1, <3>4, <4>3, <5>1 DEF InFirst
      <4> QED  BY <4>2, <4>3
    <3>5. Bytes(sendQueue \o f, 0) = Bytes(sendQueue, 0) \o more
      BY <1>0, <1>a, <3>3, BytesConcat DEF Values
    <3>6. ASSUME InFirst(sendQueue, sendOffset)
          PROVE  Bytes(sendQueue \o f, sendOffset) = Bytes(sendQueue, sendOffset) \o more
      <4>1. Starts(sendQueue, sendOffset) /\ (sendQueue = <<>> => sendOffset = 0)
        BY <1>0, <1>b, <3>6 DEF InFirst, Values
      <4> QED  BY <1>0, <3>3, <4>1, BytesConcat DEF Values
    <3> HIDE DEF more
    <3>7. ASSUME connected PROVE Unsent' = Unsent \o more
      <4>1. CASE event = <<>>
        <5>1. InFirst(sendQueue, sendOffset)
          BY <1>0, <3>7, <4>1 DEF Stream
        <5> QED  BY <3>1, <3>6, <4>1, <5>1 DEF Unsent
      <4>2. CASE event # <<>>
        <5> DEFINE out == SubSeq(wsaBufs, Sent + 1, Len(wsaBufs))
        <5>1. /\ Unsent = out \o Bytes(sendQueue, 0) /\ Unsent' = out \o Bytes(sendQueue \o f, 0)
          BY <3>1, <4>2 DEF Unsent, Sent
        <5>2. out \in Seq(Places) /\ Bytes(sendQueue, 0) \in Seq(Places)
          BY UnsentIs
        <5> HIDE DEF out
        <5>3. more \in Seq(Places)
          BY <3>3
        <5>4. out \o (Bytes(sendQueue, 0) \o more) = (out \o Bytes(sendQueue, 0)) \o more
          BY <5>2, <5>3, ConcatRegroup
        <5> QED  BY <3>5, <5>1, <5>4
      <4> QED  BY <4>1, <4>2
    <3>8. ASSUME connected PROVE wire' \o Unsent' = Bytes(accepted', 0)
      <4>1. wire \o Unsent = Bytes(accepted, 0)
        BY <1>0, <3>8 DEF Stream, StreamIntact
      <4>2. Bytes(accepted \o f, 0) = Bytes(accepted, 0) \o more
        BY <1>0, <1>a, <3>3, BytesConcat DEF Values, more
      <4>3. wire \in Seq(Places) /\ Unsent \in Seq(Places) /\ more \in Seq(Places)
        BY <1>0, <3>3, <3>8, UnsentIs DEF Values
      <4>4. wire \o (Unsent \o more) = (wire \o Unsent) \o more
        BY <4>3, ConcatRegroup, SMTT(30)
      <4> QED  BY <3>1, <3>7, <3>8, <4>1, <4>2, <4>4
    <3>9. (event = <<>> /\ (connected \/ \E u \in Threads :
            pc[u] = "gather") => InFirst(sendQueue, sendOffset))'
      BY <1>0, <3>1, <3>2, <3>4 DEF Stream
    <3>10. (IF event = <<>> THEN wsaBufs = <<>>
                           ELSE InFirst(event, sendOffset) /\ wsaBufs = Bytes(event, sendOffset))'
      BY <1>0, <3>1 DEF Stream, InFirst
    <3> QED  BY <3>1, <3>8, <3>9, <3>10 DEF Stream, StreamIntact
  <2> QED  BY <2>2, <2>3
<1>3. ASSUME NEW t \in Threads, SendOverflow(t) PROVE Stream'
  BY <1>0, <1>3 DEF SendOverflow, Stream, StreamIntact, Unsent, InFirst, Goto, Values
<1>4. ASSUME NEW t \in Threads, RegisterCheck(t) PROVE Stream'
  BY <1>0, <1>4 DEF RegisterCheck, Stream, StreamIntact, Unsent, InFirst, Goto, Values
<1>5. ASSUME NEW t \in Threads, Gather(t) PROVE Stream'
  <2>1. /\ sendQueue # <<>> /\ event = <<>> /\ kernel = <<>> /\ pc[t] = "gather"
        /\ sendQueue \in Seq(Buffers) /\ sendOffset \in Nat
        /\ \A u \in Threads : u # t => pc[u] # "gather"
    BY <1>0, <1>5 DEF Gather, SendInv, Turn, OneSendAtATime, Registering, Values
  <2>2. InFirst(sendQueue, sendOffset)
    BY <1>0, <2>1 DEF Stream
  <2> DEFINE taken == SubSeq(sendQueue, 1, Taken)
             rest == SubSeq(sendQueue, Taken + 1, Len(sendQueue))
  <2>3. /\ taken \in Seq(Buffers) /\ taken # <<>> /\ taken[1] = sendQueue[1]
        /\ rest \in Seq(Buffers) /\ sendQueue = taken \o rest
    BY <2>1, GatherIs
  <2>4. /\ event' = event \o taken /\ wsaBufs' = Bytes(taken, sendOffset) /\ sendQueue' = rest
        /\ UNCHANGED <<connected, sendOffset, kernel, accepted, wire>>
    BY <1>5 DEF Gather, Taken
  <2> HIDE DEF taken, rest
  <2>5. event' = taken
    BY <2>1, <2>3, <2>4
  <2>6. sendOffset < Size[taken[1][2]] /\ Starts(taken, sendOffset)
    BY <1>b, <2>1, <2>2, <2>3 DEF InFirst, Starts
  <2>7. Bytes(sendQueue, sendOffset) = Bytes(taken, sendOffset) \o Bytes(rest, 0)
    BY <2>1, <2>3, <2>6, BytesConcat
  <2>8. ASSUME connected PROVE wire' \o Unsent' = Bytes(accepted', 0)
    <3>1. Unsent' = SubSeq(wsaBufs', 0 + 1, Len(wsaBufs')) \o Bytes(rest, 0)
      BY <2>1, <2>3, <2>4, <2>5 DEF Unsent
    <3>2. Bytes(taken, sendOffset) \in Seq(Places)
      BY <2>1, <2>3, <2>6, BytesType
    <3>3. SubSeq(Bytes(taken, sendOffset), 1, Len(Bytes(taken, sendOffset))) = Bytes(taken, sendOffset)
      BY <3>2, SubSeqFull
    <3>4. Unsent' = Unsent
      <4>1. Unsent = Bytes(sendQueue, sendOffset)
        BY <2>1 DEF Unsent
      <4>2. Unsent' = Bytes(taken, sendOffset) \o Bytes(rest, 0)
        <5>1. 0 + 1 = 1
          OBVIOUS
        <5> QED  BY <2>4, <3>1, <3>3, <5>1
      <4> QED  BY <2>7, <4>1, <4>2
    <3> QED  BY <1>0, <2>4, <2>8, <3>4 DEF Stream, StreamIntact
  <2> QED  BY <2>3, <2>4, <2>5, <2>6, <2>8 DEF Stream, StreamIntact, InFirst
<1>6. ASSUME NEW t \in Threads, PostSend(t) PROVE Stream'
  <2>1. event # <<>> /\ kernel = <<>>
    BY <1>6 DEF PostSend, SendInv, Turn, OneSendAtATime, Registering
  <2>2. Unsent' = Unsent
    BY <1>6, <2>1 DEF PostSend, Unsent
  <2> QED  BY <1>0, <1>6, <2>1, <2>2 DEF PostSend, Stream, StreamIntact, InFirst
<1>7. ASSUME NEW t \in Threads, PostRecoverable(t) PROVE Stream'
  BY <1>0, <1>7 DEF PostRecoverable, Stream, StreamIntact, Unsent, InFirst, Goto, Values
<1>8. ASSUME NEW t \in Threads, PostFatal(t) PROVE Stream'
  BY <1>0, <1>8 DEF PostFatal, Stream, StreamIntact, Unsent, InFirst, Goto, Values
<1>9. ASSUME NEW t \in Threads, FatalCleanup(t) PROVE Stream'
  <2>1. ~ connected /\ \A u \in Threads : pc[u] # "gather"
    BY <1>9 DEF FatalCleanup, SendInv, Turn, OneSendAtATime, Registering
  <2>2. /\ ~ connected' /\ event' = <<>> /\ wsaBufs' = <<>>
        /\ \A u \in Threads : pc'[u] # "gather"
    BY <1>0, <1>9, <2>1 DEF FatalCleanup, Goto, Values
  <2> QED  BY <2>2 DEF Stream, StreamIntact
<1>10. ASSUME ProcessSend PROVE Stream'
  <2>1. HasBytes /\ event # <<>> /\ sendQueue \in Seq(Buffers)
    BY <1>0, <1>10, ResumeIs DEF ProcessSend, Resume, EventShape, Values
  <2> DEFINE r == Rest
             o == IF r = <<>> THEN 0 ELSE NextOffset
             out == SubSeq(wsaBufs, kernel[2] + 1, Len(wsaBufs))
  <2>2. /\ sendQueue' = r \o sendQueue /\ sendOffset' = o
        /\ event' = <<>> /\ wsaBufs' = <<>> /\ UNCHANGED <<connected, accepted, wire>>
    BY <1>10 DEF ProcessSend, Resume
  <2>3. /\ r \in Seq(Buffers) /\ wsaBufs \in Seq(Places) /\ out \in Seq(Places)
        /\ r = <<>> => out = <<>>
        /\ r # <<>> => o \in Nat /\ o < Size[r[1][2]] /\ out = Bytes(r, o)
    <3>1. /\ r \in Seq(Buffers) /\ wsaBufs \in Seq(Places) /\ kernel[2] \in 0..Len(wsaBufs)
          /\ r = <<>> => kernel[2] = Len(wsaBufs)
      BY <1>0, <2>1, ResumeIs DEF Values
    <3>2. out \in Seq(Places)
      BY <3>1, CutSeq
    <3>3. ASSUME r = <<>> PROVE out = <<>>
      <4>1. kernel[2] + 1 \in Int /\ Len(wsaBufs) \in Int /\ Len(wsaBufs) < kernel[2] + 1
        BY <3>1, <3>3
      <4> QED  BY <4>1, SubSeqEmpty
    <3>4. ASSUME r # <<>> PROVE o \in Nat /\ o < Size[r[1][2]] /\ out = Bytes(r, o)
      <4>1. NextOffset \in Nat /\ NextOffset < Size[Rest[1][2]] /\ out = Bytes(Rest, NextOffset)
        BY <2>1, <3>4, ResumeIs
      <4> QED  BY <3>4, <4>1
    <3> QED  BY <3>1, <3>2, <3>3, <3>4
  <2>4. r = <<>> => o = 0
    OBVIOUS
  <2>5. Unsent = out \o Bytes(sendQueue, 0) /\ Bytes(sendQueue, 0) \in Seq(Places)
    BY <2>1, UnsentIs DEF HasBytes, Sent
  <2> HIDE DEF r, o, out
  <2>6. InFirst(sendQueue', sendOffset')
    <3>1. CASE r = <<>>
      <4>1. sendQueue' = sendQueue /\ sendOffset' = 0
        BY <2>1, <2>2, <2>4, <3>1
      <4>2. sendQueue # <<>> => 0 < Size[sendQueue[1][2]]
        BY <2>1, Assumptions DEF Assumptions, Buffers
      <4> QED  BY <4>1, <4>2 DEF InFirst
    <3>2. CASE r # <<>>
      <4>1. (r \o sendQueue)[1] = r[1] /\ r \o sendQueue # <<>>
        BY <2>1, <2>3, <3>2
      <4> QED  BY <2>2, <2>3, <3>2, <4>1 DEF InFirst
    <3> QED  BY <3>1, <3>2
  <2>7. Unsent' = Unsent
    <3>1. Unsent' = Bytes(r \o sendQueue, o)
      BY <2>2 DEF Unsent
    <3>2. CASE r = <<>>
      <4>1. r \o sendQueue = sendQueue /\ out \o Bytes(sendQueue, 0) = Bytes(sendQueue, 0)
        BY <2>1, <2>3, <2>5, <3>2, ConcatEmptySeq
      <4> QED  BY <2>4, <2>5, <3>1, <3>2, <4>1
    <3>3. CASE r # <<>>
      <4>1. r[1] \in Buffers /\ o \in Nat /\ o < Size[r[1][2]] /\ Size[r[1][2]] \in Nat
        BY <2>3, <3>3, Assumptions DEF Assumptions, Buffers
      <4>2. Starts(r, o)
        BY <4>1 DEF Starts
      <4>3. Bytes(r \o sendQueue, o) = Bytes(r, o) \o Bytes(sendQueue, 0)
        BY <2>1, <2>3, <3>3, <4>1, <4>2, BytesConcat
      <4> QED  BY <2>3, <2>5, <3>1, <3>3, <4>3
    <3> QED  BY <3>2, <3>3
  <2> QED  BY <1>0, <2>2, <2>6, <2>7 DEF Stream, StreamIntact
<1>11. ASSUME ProcessSendBroken PROVE Stream'
  <2>1. \A u \in Threads : pc[u] # "gather"
    BY <1>11 DEF ProcessSendBroken, SendInv, Turn, OneSendAtATime, Registering
  <2>2. /\ ~ connected' /\ event' = <<>> /\ wsaBufs' = <<>>
        /\ \A u \in Threads : pc'[u] # "gather"
    BY <1>11, <2>1 DEF ProcessSendBroken
  <2> QED  BY <2>2 DEF Stream, StreamIntact
<1>12. ASSUME NEW n \in 0..Len(wsaBufs), KernelComplete(n) PROVE Stream'
  <2>1. /\ kernel = <<"posted">> /\ event # <<>> /\ Sent = 0
        /\ wire' = wire \o SubSeq(wsaBufs, 1, n) /\ kernel' = <<"done", n>> /\ Sent' = n
        /\ UNCHANGED <<connected, sendQueue, sendOffset, event, wsaBufs, accepted, pc>>
    BY <1>12 DEF KernelComplete, SendInv, Turn, Sent
  <2> DEFINE a == SubSeq(wsaBufs, 1, n)
             b == SubSeq(wsaBufs, n + 1, Len(wsaBufs))
             c == Bytes(sendQueue, 0)
  <2>2. wsaBufs \in Seq(Places) /\ wire \in Seq(Places)
    BY <1>0 DEF Values
  <2>3. a \in Seq(Places) /\ b \in Seq(Places)
    BY <2>2, CutSeq
  <2>4. wsaBufs = a \o b
    BY <2>2, CutSeq
  <2>5. SubSeq(wsaBufs, 1, Len(wsaBufs)) = wsaBufs
    BY <2>2, SubSeqFull
  <2>6. Unsent = SubSeq(wsaBufs, 0 + 1, Len(wsaBufs)) \o c /\ c \in Seq(Places)
    BY <2>1, UnsentIs
  <2>7. Unsent' = b \o c
    BY <2>1 DEF Unsent
  <2> HIDE DEF a, b, c
  <2>8. Unsent = wsaBufs \o c
    <3>1. 0 + 1 = 1
      OBVIOUS
    <3> QED  BY <2>5, <2>6, <3>1
  <2>9. (wire \o a) \o (b \o c) = wire \o ((a \o b) \o c)
    <3>0. wire \in Seq(Places) /\ a \in Seq(Places) /\ b \in Seq(Places) /\ c \in Seq(Places)
      BY <2>2, <2>3, <2>6
    <3>1. (a \o b) \o c = a \o (b \o c) /\ b \o c \in Seq(Places)
      BY <3>0, ConcatRegroup, SMTT(30)
    <3> DEFINE bc == b \o c
    <3>2. bc \in Seq(Places)
      BY <3>1
    <3> HIDE DEF bc
    <3>3. (wire \o a) \o bc = wire \o (a \o bc)
      BY <3>0, <3>2, ConcatRegroup, SMTT(30)
    <3> QED  BY <3>1, <3>3 DEF bc
  <2>10. wire' \o Unsent' = wire \o Unsent
    BY <2>1, <2>4, <2>7, <2>8, <2>9 DEF a
  <2> QED  BY <1>0, <2>1, <2>10 DEF Stream, StreamIntact, InFirst
<1>13. ASSUME Disconnect PROVE Stream'
  BY <1>0, <1>13 DEF Disconnect, Stream, StreamIntact, Unsent, InFirst, Goto, Values
<1>14. ASSUME UNCHANGED vars PROVE Stream'
  BY <1>0, <1>14 DEF vars, Stream, StreamIntact, Unsent, InFirst, Goto, Values
<1> QED
  BY <1>1, <1>2, <1>3, <1>4, <1>5, <1>6, <1>7, <1>8, <1>9, <1>10, <1>11, <1>12, <1>13, <1>14, Steps

-----------------------------------------------------------------------------
LEMMA SendInvariant == Spec => []SendInv
<1>1. Init => SendInv
  BY SendInit
<1>2. SendInv /\ [Next]_vars => SendInv'
  BY ValuesNext, TurnNext, LimitsNext, StreamNext DEF SendInv
<1> QED  BY <1>1, <1>2, PTL DEF Spec

(* However many threads send and however the workers interleave, at most one  *)
(* WSASend of the session is outstanding or about to be issued: _isSending is *)
(* set and tested under _sendLock and cleared only by its holder.             *)
THEOREM SendsAreSerial == Spec => []OneSendAtATime
<1>1. SendInv => OneSendAtATime
  BY DEF SendInv, Turn
<1> QED  BY <1>1, SendInvariant, PTL

(* Whatever a connected session has queued is being sent, except after a      *)
(* "recoverable" failure of WSASend.                                          *)
THEOREM QueuedIsSent == Spec => []NoLostSend
<1>1. SendInv => NoLostSend
  BY DEF SendInv, Turn, NoLostSend
<1> QED  BY <1>1, SendInvariant, PTL

(* The send queue keeps its limit for every MAX_SEND_QUEUE_SIZE and           *)
(* MAX_GATHER, RegisterSend never gathers nothing, and every variable has its *)
(* type, the offset always inside the buffer it belongs to.                   *)
THEOREM QueueIsSound == Spec => []QueueSound
<1>1. SendInv => GatherFindsBuffers /\ QueueBounded
  BY DEF SendInv, Turn, Limits, GatherFindsBuffers, QueueBounded
<1>2. ASSUME SendInv PROVE Len(wsaBufs) <= Len(Bytes(event, 0))
  <2>1. Values /\ Stream
    BY <1>2 DEF SendInv
  <2>2. CASE event = <<>>
    BY <2>1, <2>2, BytesEmpty DEF Stream
  <2>3. CASE event # <<>>
    <3> DEFINE all == Bytes(event, 0)
    <3>1. /\ wsaBufs = Bytes(event, sendOffset) /\ sendOffset < Size[event[1][2]]
          /\ event \in Seq(Buffers) /\ sendOffset \in Nat
      BY <2>1, <2>3 DEF Stream, InFirst, Values
    <3>2. event[1] \in Buffers /\ Size[event[1][2]] \in Nat
      BY <2>3, <3>1, Assumptions DEF Assumptions, Buffers
    <3>3. 0 + sendOffset <= Size[event[1][2]] /\ 0 + sendOffset = sendOffset /\ Starts(event, 0)
      BY <3>1, <3>2 DEF Starts
    <3>4. all \in Seq(Places)
      BY <3>1, <3>3, BytesType
    <3>5. sendOffset \in 0..Len(all)
      BY <2>3, <3>1, <3>3, BytesDrop
    <3>6. SubSeq(all, sendOffset + 1, Len(all)) = Bytes(event, 0 + sendOffset)
      BY <2>3, <3>1, <3>3, BytesDrop
    <3> HIDE DEF all
    <3>7. Len(SubSeq(all, sendOffset + 1, Len(all))) = Len(all) - sendOffset
      BY <3>4, <3>5, CutSeq
    <3>8. Len(wsaBufs) = Len(all) - sendOffset
      BY <3>1, <3>3, <3>6, <3>7
    <3>9. Len(all) - sendOffset <= Len(all)
      BY <3>1, <3>4
    <3> QED  BY <3>8, <3>9 DEF all
  <2> QED  BY <2>2, <2>3
<1>3. SendInv => TypeOK
  BY <1>2 DEF SendInv, Values, Stream, InFirst, TypeOK
<1> QED  BY <1>1, <1>3, SendInvariant, PTL DEF QueueSound

(* For buffers of every size, any limits and any way the network cuts what it *)
(* is given: while the session is connected, the bytes on the wire and those  *)
(* still to go are exactly the bytes of the accepted buffers, in order.       *)
THEOREM BytesAreIntact == Spec => []StreamIntact
<1>1. SendInv => StreamIntact
  BY DEF SendInv, Stream
<1> QED  BY <1>1, SendInvariant, PTL
=============================================================================
