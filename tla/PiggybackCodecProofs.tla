------------------------ MODULE PiggybackCodecProofs ------------------------
(***************************************************************************)
(* Theorems about the datagram format, for every number of bytes, length   *)
(* of a word, set of services and set of messages.                         *)
(***************************************************************************)
EXTENDS PiggybackCodec, NumberTheorems, SequenceTheorems, FiniteSetTheorems

Byte == 0..Base - 1

(* The weights of a word's bytes are the powers of Base.                   *)
LEMMA Weights ==
    /\ Weight[0] = 1
    /\ \A k \in 1..WordSize : Weight[k] = Base * Weight[k - 1]
    /\ \A k \in 0..WordSize : Weight[k] \in Nat \ {0}
<1> DEFINE F == [k \in 1..WordSize |-> [x \in Int |-> Base * x]]
<1>1. Base \in Nat \ {0} /\ WordSize \in Nat \ {0}
  BY CodecAssumption
<1>2. F \in [1..WordSize -> [Int -> Int]]
  BY <1>1
<1>3. PICK f \in [0..WordSize -> Int] :
         f[0] = 1 /\ \A k \in 1..WordSize : f[k] = F[k][f[k - 1]]
  <2>1. 1 \in Int
    OBVIOUS
  <2>2. WordSize \in Nat
    BY <1>1
  <2> HIDE DEF F
  <2> QED
    BY <1>2, <2>1, <2>2, RecursionExists
<1>4. ASSUME NEW k \in 0..WordSize, k # 0
      PROVE  k \in 1..WordSize /\ k - 1 \in 0..WordSize /\ F[k][f[k - 1]] = Base * f[k - 1]
  BY <1>1, <1>4
<1>5. f = [k \in 0..WordSize |-> IF k = 0 THEN 1 ELSE Base * f[k - 1]]
  <2> HIDE DEF F
  <2> QED
    BY <1>3, <1>4
<1>6. Weight = [k \in 0..WordSize |-> IF k = 0 THEN 1 ELSE Base * Weight[k - 1]]
  BY <1>5 DEF Weight
<1>7. 0 \in 0..WordSize /\ \A k \in 1..WordSize : k \in 0..WordSize /\ k # 0
  BY <1>1
<1>8. Weight[0] = 1 /\ \A k \in 1..WordSize : Weight[k] = Base * Weight[k - 1]
  BY <1>6, <1>7
<1> DEFINE P == {k \in 0..WordSize : Weight[k] \in Nat \ {0}}
<1>9. P \in SUBSET Nat /\ 0 \in P
  BY <1>7, <1>8
<1>10. ASSUME NEW k \in 1..WordSize, k - 1 \in P
       PROVE  k \in P
  BY <1>1, <1>7, <1>8, <1>10
<1>11. 0..WordSize \subseteq P
  <2> HIDE DEF P
  <2> QED
    BY <1>1, <1>9, <1>10, IntervalInduction
<1> QED
  BY <1>8, <1>11

(* putInt() writes bytes, and getInt() reads back what it wrote, with its  *)
(* sign.                                                                   *)
LEMMA WordsRoundTrip ==
    ASSUME NEW i \in SignedWord
    PROVE  /\ putInt(i) \in [1..WordSize -> Byte]
           /\ \A bytes : (\A k \in 1..WordSize : bytes[k] = putInt(i)[k]) => getInt(bytes) = i
<1>1. Base \in Nat \ {0} /\ WordSize \in Nat \ {0}
  BY CodecAssumption
<1>2. Words \in Nat \ {0} /\ i \in Int
  BY <1>1, Weights DEF Words, SignedWord
<1> DEFINE u == i % Words
<1>3. u \in 0..Words - 1
  BY <1>2, Division
<1>4. ASSUME NEW k \in 0..WordSize
      PROVE  WordSize - k \in 0..WordSize /\ Weight[WordSize - k] \in Nat \ {0}
  BY <1>1, Weights
<1> HIDE DEF u
<1>5. putInt(i) = [k \in 1..WordSize |-> (u \div Weight[WordSize - k]) % Base]
  BY DEF putInt, u
<1>6. putInt(i) \in [1..WordSize -> Byte]
  <2>1. ASSUME NEW k \in 1..WordSize
        PROVE  (u \div Weight[WordSize - k]) % Base \in Byte
    <3>1. k \in 0..WordSize
      OBVIOUS
    <3>2. Weight[WordSize - k] \in Nat \ {0} /\ u \in Int
      BY <1>3, <1>4, <3>1
    <3>3. u \div Weight[WordSize - k] \in Int
      BY <3>2, Division
    <3> QED
      BY <1>1, <3>3, Division DEF Byte
  <2> QED
    BY <1>5, <2>1
<1>7. ASSUME NEW bytes, \A k \in 1..WordSize : bytes[k] = putInt(i)[k]
      PROVE  getInt(bytes) = i
  <2> DEFINE F == [k \in 1..WordSize |-> [x \in Int |-> x * Base + bytes[k]]]
             v == CHOOSE value : value = [k \in 0..WordSize |->
                     IF k = 0 THEN 0 ELSE value[k - 1] * Base + bytes[k]]
  <2>1. \A k \in 1..WordSize : bytes[k] \in Int
    BY <1>6, <1>7 DEF Byte
  <2>2. F \in [1..WordSize -> [Int -> Int]]
    BY <1>1, <2>1
  <2>3. PICK f \in [0..WordSize -> Int] :
           f[0] = 0 /\ \A k \in 1..WordSize : f[k] = F[k][f[k - 1]]
    <3>1. 0 \in Int
      OBVIOUS
    <3>2. WordSize \in Nat
      BY <1>1
    <3> HIDE DEF F
    <3> QED
      BY <2>2, <3>1, <3>2, RecursionExists
  <2>4. ASSUME NEW k \in 0..WordSize, k # 0
        PROVE  k \in 1..WordSize /\ F[k][f[k - 1]] = f[k - 1] * Base + bytes[k]
    BY <1>1, <2>4
  <2>5. f = [k \in 0..WordSize |-> IF k = 0 THEN 0 ELSE f[k - 1] * Base + bytes[k]]
    <3> HIDE DEF F
    <3> QED
      BY <2>3, <2>4
  <2>6. v = [k \in 0..WordSize |-> IF k = 0 THEN 0 ELSE v[k - 1] * Base + bytes[k]]
    <3> HIDE DEF F
    <3> QED
      BY <2>5
  <2>7. getInt(bytes) = IF v[WordSize] < Words \div 2 THEN v[WordSize] ELSE v[WordSize] - Words
    BY DEF getInt
  <2> HIDE DEF v, F
  <2>8. v[0] = 0 /\ \A k \in 1..WordSize : v[k] = v[k - 1] * Base + bytes[k]
    <3>1. 0 \in 0..WordSize /\ \A k \in 1..WordSize : k \in 0..WordSize /\ k # 0
      BY <1>1
    <3> QED
      BY <2>6, <3>1
  <2> DEFINE P == {k \in 0..WordSize : v[k] = u \div Weight[WordSize - k]}
  <2>9. P \in SUBSET Nat /\ 0 \in P
    <3>1. u \div Words = 0
      BY <1>2, <1>3, Quotient
    <3> QED
      BY <1>1, <2>8, <3>1 DEF Words
  <2>10. ASSUME NEW k \in 1..WordSize, k - 1 \in P
         PROVE  k \in P
    <3> DEFINE w == Weight[WordSize - k]
               q == u \div w
    <3>1. k \in 0..WordSize /\ WordSize - k + 1 \in 1..WordSize
      BY <1>1
    <3>2. w \in Nat \ {0} /\ Weight[WordSize - k + 1] = Base * w
      BY <1>1, <1>4, <3>1, Weights
    <3>3. v[k - 1] = u \div (Base * w)
      BY <1>1, <2>10, <3>2
    <3>4. bytes[k] = q % Base
      BY <1>5, <1>7
    <3> HIDE DEF w
    <3>0. u \in Int
      BY <1>3
    <3>5. (u \div w) \div Base = u \div (Base * w)
      BY <1>1, <3>0, <3>2, QuotientOfQuotient
    <3>9. q \in Int
      BY <3>0, <3>2, Division
    <3> HIDE DEF q
    <3>6. q \div Base \in Int /\ q % Base \in 0..Base - 1 /\ q = Base * (q \div Base) + (q % Base)
      BY <1>1, <3>9, Division
    <3>7. v[k] = (q \div Base) * Base + (q % Base)
      BY <2>8, <3>3, <3>4, <3>5 DEF q
    <3>8. v[k] = q
      BY <1>1, <3>6, <3>7, <3>9
    <3> QED
      BY <3>1, <3>8 DEF q, w
  <2>11. WordSize \in P
    <3> HIDE DEF P
    <3>1. 0..WordSize \subseteq P
      BY <1>1, <2>9, <2>10, IntervalInduction
    <3> QED
      BY <1>1, <3>1
  <2>12. v[WordSize] = u
    <3>1. v[WordSize] = u \div Weight[0]
      BY <1>1, <2>11
    <3> QED
      BY <1>3, <3>1, Weights, Quotient
  <2>13. Words \div 2 \in Int /\ 2 * (Words \div 2) <= Words
    BY <1>2, Division
  <2>14. CASE i >= 0
    <3>0. i <= Words \div 2 - 1
      BY DEF SignedWord
    <3>1. Words * 0 <= i /\ i < Words * 0 + Words /\ i < Words \div 2
      BY <1>2, <2>13, <2>14, <3>0
    <3>2. i \div Words = 0 /\ i = Words * (i \div Words) + (i % Words) /\ i % Words \in Int
      <4>1. i \div Words = 0
        BY <1>2, <3>1, Quotient
      <4> QED
        BY <1>2, <4>1, Division
    <3>3. u = i
      BY <1>2, <3>2 DEF u
    <3> QED
      BY <2>7, <2>12, <3>1, <3>3
  <2>15. CASE i < 0
    <3>1. -(Words \div 2) <= i
      BY DEF SignedWord
    <3>2. Words * (-1) <= i /\ i < Words * (-1) + Words
      BY <1>2, <2>13, <2>15, <3>1
    <3>3. i \div Words = -1 /\ i = Words * (i \div Words) + (i % Words) /\ i % Words \in Int
      <4>1. i \div Words = -1
        BY <1>2, <3>2, Quotient
      <4> QED
        BY <1>2, <4>1, Division
    <3>4. u = i + Words
      BY <1>2, <3>3 DEF u
    <3>5. ~(u < Words \div 2)
      BY <1>2, <2>13, <3>1, <3>4
    <3> QED
      BY <1>2, <2>7, <2>12, <3>4, <3>5
  <2> QED
    BY <1>2, <2>14, <2>15
<1> QED
  BY <1>6, <1>7

-----------------------------------------------------------------------------
Messages == [commID : SignedWord, msg : Payloads, pigs : Seq(Pig)]

(* What the values of the constants say about bytes.                       *)
LEMMA Constants ==
    /\ Base \in Nat /\ Base > 3 /\ WordSize \in Nat \ {0}
    /\ Byte \subseteq Int
    /\ \A x \in Int : LowByte(x) \in Byte
    /\ \A p \in Pig : LowByte(p.service) \in Byte /\ p.msg \in Byte
    /\ \A p \in Pig : p.service \in SignedByte
    /\ Payloads \subseteq Byte
<1>1. /\ Base \in Nat \ {0} /\ Base > 3 /\ WordSize \in Nat \ {0}
      /\ Payloads \subseteq Byte /\ Byte \subseteq Int /\ SenderIDs \subseteq SignedByte
  BY CodecAssumption DEF Byte
<1>2. SignedByte \subseteq Int
  BY <1>1, Division DEF SignedByte
<1>3. \A x \in Int : LowByte(x) \in Byte
  BY <1>1, Division DEF LowByte, Byte
<1> QED
  BY <1>1, <1>2, <1>3 DEF Pig

(* Concatenation, one byte at a time.                                      *)
LEMMA Concat ==
    ASSUME NEW s \in Seq(Byte), NEW t \in Seq(Byte)
    PROVE  /\ s \o t \in Seq(Byte) /\ Len(s) \in Nat /\ Len(t) \in Nat
           /\ Len(s \o t) = Len(s) + Len(t)
           /\ \A i \in 1..Len(s) : (s \o t)[i] = s[i]
           /\ \A i \in 1..Len(t) : (s \o t)[Len(s) + i] = t[i]
<1>1. Len(s) \in Nat /\ Len(t) \in Nat
  BY LenProperties
<1>2. /\ s \o t \in Seq(Byte)
      /\ Len(s \o t) = Len(s) + Len(t)
      /\ \A i \in 1..Len(s) + Len(t) :
            (s \o t)[i] = IF i <= Len(s) THEN s[i] ELSE t[i - Len(s)]
  BY ConcatProperties
<1>3. ASSUME NEW i \in 1..Len(s)
      PROVE  (s \o t)[i] = s[i]
  BY <1>1, <1>2
<1>4. ASSUME NEW i \in 1..Len(t)
      PROVE  (s \o t)[Len(s) + i] = t[i]
  <2>1. Len(s) + i \in 1..Len(s) + Len(t) /\ ~(Len(s) + i <= Len(s)) /\ Len(s) + i - Len(s) = i
    BY <1>1
  <2> QED
    BY <1>2, <2>1
<1> QED
  BY <1>1, <1>2, <1>3, <1>4

(* A sequence of one byte.                                                 *)
LEMMA Single ==
    ASSUME NEW x \in Byte
    PROVE  <<x>> \in Seq(Byte) /\ Len(<<x>>) = 1 /\ <<x>>[1] = x
OBVIOUS

(* The piggybacked part of a datagram.                                     *)
LEMMA PigsLayout ==
    ASSUME NEW pigs \in Seq(Pig)
    PROVE  /\ Pigs(pigs) \in Seq(Byte)
           /\ Len(pigs) \in Nat /\ Len(Pigs(pigs)) = 2 * Len(pigs)
           /\ \A k \in 1..Len(pigs) :
                 /\ pigs[k] \in Pig
                 /\ Pigs(pigs)[2 * k - 1] = LowByte(pigs[k].service)
                 /\ Pigs(pigs)[2 * k] = pigs[k].msg
<1> DEFINE n == Len(pigs)
<1>1. n \in Nat /\ DOMAIN pigs = 1..n /\ \A k \in 1..n : pigs[k] \in Pig
  BY LenProperties, ElementOfSeq
<1> HIDE DEF n
<1>2. ASSUME NEW k \in 1..n
      PROVE  /\ 2 * k - 1 \in 1..2 * n /\ 2 * k \in 1..2 * n
             /\ (2 * k - 1) % 2 = 1 /\ (2 * k - 1 + 1) \div 2 = k
             /\ (2 * k) % 2 = 0 /\ (2 * k) \div 2 = k
  BY <1>1
<1>3. ASSUME NEW i \in 1..2 * n
      PROVE  (i % 2 = 1 => (i + 1) \div 2 \in 1..n) /\ (i % 2 # 1 => i \div 2 \in 1..n)
  BY <1>1
<1>4. Pigs(pigs) = [i \in 1..2 * n |->
         IF i % 2 = 1 THEN LowByte(pigs[(i + 1) \div 2].service) ELSE pigs[i \div 2].msg]
  BY DEF Pigs, n
<1>5. Pigs(pigs) \in [1..2 * n -> Byte]
  <2>1. ASSUME NEW i \in 1..2 * n
        PROVE  (IF i % 2 = 1 THEN LowByte(pigs[(i + 1) \div 2].service)
                ELSE pigs[i \div 2].msg) \in Byte
    BY <1>1, <1>3, Constants
  <2> QED
    BY <1>4, <2>1
<1>6. 2 * n \in Nat
  BY <1>1
<1>7. Pigs(pigs) \in Seq(Byte) /\ Len(Pigs(pigs)) = 2 * n
  BY <1>5, <1>6
<1>8. ASSUME NEW k \in 1..n
      PROVE  Pigs(pigs)[2 * k - 1] = LowByte(pigs[k].service) /\ Pigs(pigs)[2 * k] = pigs[k].msg
  BY <1>2, <1>4
<1> QED
  BY <1>1, <1>7, <1>8 DEF n

(* Where the parts of a datagram are: arithmetic.                          *)
LEMMA Offsets ==
    ASSUME NEW w \in Nat, NEW n \in Nat
    PROVE  /\ (w + 1) + (2 * n + 1) = w + 2 + 2 * n
           /\ (w + 2 + 2 * n) + 1 = w + 3 + 2 * n
           /\ w + 1 \in 1..w + 1 /\ w + 1 \in 1..w + 2 + 2 * n
           /\ \A k \in 1..w : k \in 1..w + 1 /\ k \in 1..w + 2 + 2 * n
           /\ w + 2 \in 1..w + 2 + 2 * n /\ 1 \in 1..2 * n + 1 /\ w + 1 + 1 = w + 2
OBVIOUS

(* The datagram S of the message m with n piggybacked messages, byte by    *)
(* byte.                                                                   *)
LaidOut(m, n, S) ==
    /\ S \in Seq(Byte) /\ n \in Nat
    /\ \A k \in 1..WordSize : S[k] = putInt(m.commID)[k]
    /\ n = 0 => /\ Len(S) = WordSize + 2
                /\ S[WordSize + 1] = 0
                /\ S[WordSize + 2] = m.msg
    /\ n > 0 => /\ Len(S) = WordSize + 3 + 2 * n
                /\ S[WordSize + 1] = BITMASK_HASPIGGYBACK
                /\ S[WordSize + 2] = LowByte(n)
                /\ \A k \in 1..n :
                      /\ S[WordSize + 1 + 2 * k] = LowByte(m.pigs[k].service)
                      /\ S[WordSize + 2 + 2 * k] = m.pigs[k].msg
                /\ S[WordSize + 3 + 2 * n] = m.msg

(* This is what SerializeAndSend.run() writes.                             *)
LEMMA Layout ==
    ASSUME NEW m \in Messages,
           NEW n, n = Len(m.pigs), NEW S, S = Serialize(m)
    PROVE  LaidOut(m, n, S)
<1> DEFINE W == putInt(m.commID)
           P == Pigs(m.pigs)
<1>0. WordSize \in Nat /\ WordSize > 0
  BY Constants
<1>1. m.commID \in SignedWord /\ m.msg \in Payloads /\ m.pigs \in Seq(Pig)
  BY DEF Messages
<1>2. /\ P \in Seq(Byte) /\ n \in Nat /\ Len(P) = 2 * n
      /\ \A k \in 1..n : /\ P[2 * k - 1] = LowByte(m.pigs[k].service)
                         /\ P[2 * k] = m.pigs[k].msg
  BY <1>1, PigsLayout
<1>3. W \in Seq(Byte) /\ Len(W) = WordSize
  <2>1. W \in [1..WordSize -> Byte]
    BY <1>1, WordsRoundTrip
  <2> HIDE DEF W
  <2> QED
    BY <2>1, Constants
<1>9. n \in Nat
  BY <1>2
<1>4. n = 0 <=> m.pigs = << >>
  BY <1>1, EmptySeq
<1>5. m.msg \in Byte /\ 0 \in Byte /\ BITMASK_HASPIGGYBACK \in Byte /\ LowByte(n) \in Byte
  <2>1. n \in Int
    BY <1>2
  <2>2. LowByte(n) \in Byte
    BY <2>1, Constants
  <2>3. 0 \in Byte /\ BITMASK_HASPIGGYBACK \in Byte
    BY Constants DEF Byte, BITMASK_HASPIGGYBACK
  <2> QED
    BY <1>1, <2>2, <2>3, Constants
<1>6. S = W \o <<IF n = 0 THEN 0 ELSE BITMASK_HASPIGGYBACK>>
            \o (IF n = 0 THEN << >> ELSE <<LowByte(n)>> \o P) \o <<m.msg>>
  BY <1>4 DEF Serialize
<1> HIDE DEF W, P
<1>7. CASE n = 0
  <2>1. S = (W \o <<0>> \o << >>) \o <<m.msg>>
    BY <1>6, <1>7
  <2> DEFINE H == W \o <<0>>
  <2>2. /\ H \in Seq(Byte) /\ Len(H) = WordSize + 1
        /\ \A k \in 1..WordSize : H[k] = W[k]
        /\ H[WordSize + 1] = 0
    <3>1. <<0>> \in Seq(Byte) /\ Len(<<0>>) = 1 /\ <<0>>[1] = 0
      BY <1>5, Single
    <3>2. /\ H \in Seq(Byte) /\ Len(H) = WordSize + 1
          /\ \A k \in 1..WordSize : H[k] = W[k]
          /\ \A i \in 1..1 : H[WordSize + i] = <<0>>[i]
      BY <1>3, <3>1, Concat
    <3> HIDE DEF H
    <3> QED
      BY <3>1, <3>2
  <2>3. H \o << >> = H
    BY <2>2, ConcatEmptySeq
  <2> HIDE DEF H
  <2>4. S = H \o <<m.msg>>
    BY <2>1, <2>3 DEF H
  <2>5. /\ S \in Seq(Byte) /\ Len(S) = WordSize + 2
        /\ \A k \in 1..WordSize + 1 : S[k] = H[k]
        /\ S[WordSize + 2] = m.msg
    <3>1. <<m.msg>> \in Seq(Byte) /\ Len(<<m.msg>>) = 1 /\ <<m.msg>>[1] = m.msg
      BY <1>5, Single
    <3>2. /\ S \in Seq(Byte) /\ Len(S) = (WordSize + 1) + 1
          /\ \A k \in 1..WordSize + 1 : S[k] = H[k]
          /\ \A i \in 1..1 : S[(WordSize + 1) + i] = <<m.msg>>[i]
      BY <2>2, <2>4, <3>1, Concat
    <3> QED
      BY <1>0, <3>1, <3>2
  <2>6. WordSize + 1 \in 1..WordSize + 1 /\ \A k \in 1..WordSize : k \in 1..WordSize + 1
    BY <1>0
  <2>7. ~(n > 0) /\ n \in Nat
    BY <1>7
  <2>8. \A k \in 1..WordSize : S[k] = W[k]
    BY <2>2, <2>5, <2>6
  <2>9. S[WordSize + 1] = 0
    BY <2>2, <2>5, <2>6
  <2> QED
    BY <1>7, <2>5, <2>7, <2>8, <2>9 DEF W, LaidOut
<1>8. CASE n > 0
  <2>1. S = ((W \o <<2>>) \o (<<LowByte(n)>> \o P)) \o <<m.msg>>
    <3>1. S = W \o <<2>> \o (<<LowByte(n)>> \o P) \o <<m.msg>>
      <4>1. n # 0
        BY <1>8, <1>9
      <4> QED
        BY <1>6, <4>1, Zenon DEF BITMASK_HASPIGGYBACK
    <3> QED
      BY <3>1
  <2> DEFINE H == W \o <<2>>
             Q == <<LowByte(n)>> \o P
             R == H \o Q
  <2>2. /\ H \in Seq(Byte) /\ Len(H) = WordSize + 1
        /\ \A k \in 1..WordSize : H[k] = W[k]
        /\ H[WordSize + 1] = 2
    <3>1. <<2>> \in Seq(Byte) /\ Len(<<2>>) = 1 /\ <<2>>[1] = 2
      BY <1>5, Single DEF BITMASK_HASPIGGYBACK
    <3>2. /\ H \in Seq(Byte) /\ Len(H) = WordSize + 1
          /\ \A k \in 1..WordSize : H[k] = W[k]
          /\ \A i \in 1..1 : H[WordSize + i] = <<2>>[i]
      BY <1>3, <3>1, Concat
    <3> HIDE DEF H
    <3> QED
      BY <3>1, <3>2
  <2>3. /\ Q \in Seq(Byte) /\ Len(Q) = 2 * n + 1
        /\ Q[1] = LowByte(n)
        /\ \A i \in 1..2 * n : Q[i + 1] = P[i]
    <3>1. /\ <<LowByte(n)>> \in Seq(Byte) /\ Len(<<LowByte(n)>>) = 1
          /\ <<LowByte(n)>>[1] = LowByte(n)
      BY <1>5, Single
    <3>2. /\ Q \in Seq(Byte) /\ Len(Q) = 1 + 2 * n
          /\ \A i \in 1..1 : Q[i] = <<LowByte(n)>>[i]
          /\ \A i \in 1..2 * n : Q[1 + i] = P[i]
      BY <1>2, <3>1, Concat
    <3> HIDE DEF Q
    <3>3. 1 + 2 * n = 2 * n + 1 /\ \A i \in 1..2 * n : 1 + i = i + 1
      BY <1>9
    <3>4. Q[1] = LowByte(n)
      BY <3>1, <3>2
    <3> QED
      BY <3>2, <3>3, <3>4
  <2> HIDE DEF H, Q
  <2>4. /\ R \in Seq(Byte) /\ Len(R) = WordSize + 2 + 2 * n
        /\ \A k \in 1..WordSize + 1 : R[k] = H[k]
        /\ \A i \in 1..2 * n + 1 : R[WordSize + 1 + i] = Q[i]
    <3>1. /\ R \in Seq(Byte) /\ Len(R) = (WordSize + 1) + (2 * n + 1)
          /\ \A k \in 1..WordSize + 1 : R[k] = H[k]
          /\ \A i \in 1..2 * n + 1 : R[(WordSize + 1) + i] = Q[i]
      <4>1. /\ R \in Seq(Byte) /\ Len(R) = Len(H) + Len(Q)
            /\ \A k \in 1..Len(H) : R[k] = H[k]
            /\ \A i \in 1..Len(Q) : R[Len(H) + i] = Q[i]
        BY <2>2, <2>3, Concat
      <4> HIDE DEF R
      <4> QED
        BY <2>2, <2>3, <4>1
    <3> HIDE DEF R
    <3>2. (WordSize + 1) + (2 * n + 1) = WordSize + 2 + 2 * n
      BY <1>0, <1>9, Offsets
    <3> QED
      BY <3>1, <3>2
  <2> HIDE DEF R
  <2>5. S = R \o <<m.msg>>
    BY <2>1 DEF H, Q, R
  <2>6. /\ S \in Seq(Byte) /\ Len(S) = WordSize + 3 + 2 * n
        /\ \A k \in 1..WordSize + 2 + 2 * n : S[k] = R[k]
        /\ S[WordSize + 3 + 2 * n] = m.msg
    <3>1. <<m.msg>> \in Seq(Byte) /\ Len(<<m.msg>>) = 1 /\ <<m.msg>>[1] = m.msg
      BY <1>5, Single
    <3>2. /\ S \in Seq(Byte) /\ Len(S) = (WordSize + 2 + 2 * n) + 1
          /\ \A k \in 1..WordSize + 2 + 2 * n : S[k] = R[k]
          /\ \A k \in 1..1 : S[(WordSize + 2 + 2 * n) + k] = <<m.msg>>[k]
      <4>1. /\ S \in Seq(Byte) /\ Len(S) = Len(R) + 1
            /\ \A k \in 1..Len(R) : S[k] = R[k]
            /\ \A k \in 1..1 : S[Len(R) + k] = <<m.msg>>[k]
        BY <2>4, <2>5, <3>1, Concat
      <4> QED
        BY <2>4, <4>1
    <3>3. S[(WordSize + 2 + 2 * n) + 1] = m.msg
      BY <3>1, <3>2
    <3>4. (WordSize + 2 + 2 * n) + 1 = WordSize + 3 + 2 * n
      BY <1>0, <1>9, Offsets
    <3>5. S[WordSize + 3 + 2 * n] = m.msg
      BY <3>3, <3>4
    <3>6. Len(S) = WordSize + 3 + 2 * n
      BY <3>2, <3>4
    <3>7. S \in Seq(Byte) /\ \A k \in 1..WordSize + 2 + 2 * n : S[k] = R[k]
      BY <3>2
    <3> QED
      BY <3>5, <3>6, <3>7, Zenon
  <2>7. \A k \in 1..WordSize : S[k] = W[k]
    <3>1. \A k \in 1..WordSize : k \in 1..WordSize + 1 /\ k \in 1..WordSize + 2 + 2 * n
      BY <1>0, <1>9, Offsets
    <3> QED
      BY <2>2, <2>4, <2>6, <3>1
  <2>8. S[WordSize + 1] = 2 /\ S[WordSize + 2] = LowByte(n)
    <3>1. /\ WordSize + 1 \in 1..WordSize + 1 /\ WordSize + 1 \in 1..WordSize + 2 + 2 * n
          /\ WordSize + 2 \in 1..WordSize + 2 + 2 * n
          /\ 1 \in 1..2 * n + 1 /\ WordSize + 1 + 1 = WordSize + 2
      BY <1>0, <1>9, Offsets
    <3>2. S[WordSize + 1] = 2
      BY <2>2, <2>4, <2>6, <3>1
    <3>3. R[WordSize + 1 + 1] = Q[1]
      BY <2>4, <3>1
    <3> QED
      BY <2>3, <2>6, <3>1, <3>2, <3>3
  <2>9. ASSUME NEW i \in 1..2 * n
        PROVE  S[WordSize + 2 + i] = P[i]
    <3>1. i + 1 \in 1..2 * n + 1 /\ WordSize + 1 + (i + 1) = WordSize + 2 + i
          /\ WordSize + 2 + i \in 1..WordSize + 2 + 2 * n
      BY <1>0, <1>9
    <3> QED
      BY <2>3, <2>4, <2>6, <3>1
  <2>10. ASSUME NEW k \in 1..n
         PROVE  /\ S[WordSize + 1 + 2 * k] = LowByte(m.pigs[k].service)
                /\ S[WordSize + 2 + 2 * k] = m.pigs[k].msg
    <3>1. /\ 2 * k - 1 \in 1..2 * n /\ 2 * k \in 1..2 * n
          /\ WordSize + 2 + (2 * k - 1) = WordSize + 1 + 2 * k
      BY <1>0, <1>9
    <3> QED
      BY <1>2, <2>9, <3>1
  <2> QED
    BY <1>2, <1>8, <2>6, <2>7, <2>8, <2>10 DEF W, BITMASK_HASPIGGYBACK, LaidOut
<1> QED
  BY <1>2, <1>7, <1>8


(* What is left of a datagram, or of its first k bytes, after p bytes.     *)
IsRemainder(b, S, p, k) ==
    /\ b \in Seq(Byte)
    /\ Len(b) = IF p < k THEN k - p ELSE 0
    /\ \A i \in 1..Len(b) : b[i] = S[p + i] /\ b[i] \in Byte
    /\ \A j \in Nat : SubSeq(b, j + 1, Len(b)) = SubSeq(S, p + j + 1, k)

(* This is what the input stream holds after p bytes have been read.       *)
LEMMA Remainder ==
    ASSUME NEW S \in Seq(Byte), NEW p \in Nat, NEW k \in 0..Len(S),
           NEW b, b = SubSeq(S, p + 1, k)
    PROVE  IsRemainder(b, S, p, k)
<1>1. Len(S) \in Nat /\ \A i \in 1..Len(S) : S[i] \in Byte
  BY LenProperties, ElementOfSeq
<1>2. k \in Nat /\ p \in Nat /\ p + 1 \in Int
  BY <1>1
<1>3. /\ b \in Seq(Byte) /\ Len(b) = IF p + 1 <= k THEN k - (p + 1) + 1 ELSE 0
      /\ \A i \in 1..k - (p + 1) + 1 : b[i] = S[p + 1 + i - 1]
  <2>1. \A i \in p + 1..k : S[i] \in Byte
    BY <1>1
  <2> QED
    BY <1>2, <2>1, SubSeqProperties
<1>4. Len(b) = IF p < k THEN k - p ELSE 0
  BY <1>2, <1>3
<1>5. ASSUME NEW i \in 1..Len(b)
      PROVE  b[i] = S[p + i] /\ b[i] \in Byte
  <2>1. i \in 1..k - (p + 1) + 1 /\ p + 1 + i - 1 = p + i /\ p + i \in 1..Len(S)
    BY <1>1, <1>2, <1>4
  <2> QED
    BY <1>1, <1>3, <2>1
<1>6. ASSUME NEW j \in Nat
      PROVE  SubSeq(b, j + 1, Len(b)) = SubSeq(S, p + j + 1, k)
  <2>1. CASE p + j < k
    <3> DEFINE n == k - (p + j)
    <3>1. /\ p < k /\ Len(b) = k - p /\ n \in Nat
          /\ 1 + Len(b) - (j + 1) = n /\ 1 + k - (p + j + 1) = n
      BY <1>2, <1>4, <2>1
    <3>2. \A i \in 1..n : /\ i + (j + 1) - 1 \in 1..Len(b)
                          /\ p + (i + (j + 1) - 1) = i + (p + j + 1) - 1
      BY <1>2, <3>1
    <3>3. \A i \in 1..n : b[i + (j + 1) - 1] = S[i + (p + j + 1) - 1]
      BY <1>5, <3>2
    <3>4. SubSeq(b, j + 1, Len(b)) = [i \in 1..1 + Len(b) - (j + 1) |-> b[i + (j + 1) - 1]]
      BY DEF SubSeq
    <3>5. SubSeq(S, p + j + 1, k) = [i \in 1..1 + k - (p + j + 1) |-> S[i + (p + j + 1) - 1]]
      BY DEF SubSeq
    <3> HIDE DEF n
    <3> QED
      BY <3>1, <3>3, <3>4, <3>5
  <2>2. CASE ~(p + j < k)
    <3>1. Len(b) \in Int /\ j + 1 \in Int /\ p + j + 1 \in Int /\ k < p + j + 1 /\ Len(b) < j + 1
      BY <1>2, <1>4, <2>2
    <3>2. SubSeq(b, j + 1, Len(b)) = << >>
      BY <3>1, SubSeqEmpty
    <3>3. SubSeq(S, p + j + 1, k) = << >>
      BY <1>2, <3>1, SubSeqEmpty
    <3> QED
      BY <3>2, <3>3
  <2> QED
    BY <2>1, <2>2
<1> QED
  BY <1>3, <1>4, <1>5, <1>6, Zenon DEF IsRemainder

(* Beginnings of a list of piggybacked messages.                           *)
LEMMA PrefixPointwise ==
    ASSUME NEW s \in Seq(Pig), NEW t \in Seq(Pig)
    PROVE  IsPrefix(s, t) <=> Len(s) <= Len(t) /\ \A i \in 1..Len(s) : s[i] = t[i]
<1>1. Len(s) \in Nat /\ Len(t) \in Nat
  BY LenProperties
<1>2. SubSeq(s, 1, Len(s)) = [i \in 1..Len(s) |-> s[i]]
  BY <1>1 DEF SubSeq
<1>3. SubSeq(t, 1, Len(s)) = [i \in 1..Len(s) |-> t[i]]
  BY <1>1 DEF SubSeq
<1>4. [i \in 1..Len(s) |-> s[i]] = [i \in 1..Len(s) |-> t[i]] <=> \A i \in 1..Len(s) : s[i] = t[i]
  OBVIOUS
<1>5. IsPrefix(s, t) <=> /\ Len(s) <= Len(t)
                         /\ [i \in 1..Len(s) |-> s[i]] = [i \in 1..Len(s) |-> t[i]]
  BY <1>2, <1>3 DEF IsPrefix
<1> QED
  BY <1>4, <1>5, Zenon

(* A beginning with the next element is a beginning.                       *)
LEMMA LongerPrefix ==
    ASSUME NEW s \in Seq(Pig), NEW t \in Seq(Pig), IsPrefix(s, t), Len(s) < Len(t)
    PROVE  /\ t[Len(s) + 1] \in Pig
           /\ Append(s, t[Len(s) + 1]) \in Seq(Pig)
           /\ Len(Append(s, t[Len(s) + 1])) = Len(s) + 1
           /\ IsPrefix(Append(s, t[Len(s) + 1]), t)
<1> DEFINE x == t[Len(s) + 1]
           r == Append(s, x)
<1>1. Len(s) \in Nat /\ Len(t) \in Nat
  BY LenProperties
<1>2. x \in Pig
  <2>1. Len(s) + 1 \in 1..Len(t)
    BY <1>1
  <2> QED
    BY <2>1, ElementOfSeq
<1>3. \A i \in 1..Len(s) : s[i] = t[i]
  BY PrefixPointwise, Zenon
<1>4. /\ r \in Seq(Pig) /\ Len(r) = Len(s) + 1
      /\ \A i \in 1..Len(s) : r[i] = s[i]
      /\ r[Len(s) + 1] = x
  BY <1>2, AppendProperties
<1>5. ASSUME NEW i \in 1..Len(r)
      PROVE  r[i] = t[i]
  <2>1. CASE i = Len(s) + 1
    BY <1>4, <2>1
  <2>2. CASE i # Len(s) + 1
    <3>1. i \in 1..Len(s)
      BY <1>1, <1>4, <2>2
    <3> QED
      BY <1>3, <1>4, <3>1
  <2> QED
    BY <2>1, <2>2
<1>6. Len(r) <= Len(t)
  BY <1>1, <1>4
<1>7. IsPrefix(r, t)
  <2> HIDE DEF r
  <2> QED
    BY <1>4, <1>5, <1>6, PrefixPointwise, Zenon
<1> QED
  BY <1>2, <1>4, <1>7

(* A beginning of full length is the whole.                                *)
LEMMA WholePrefix ==
    ASSUME NEW s \in Seq(Pig), NEW t \in Seq(Pig), IsPrefix(s, t), Len(s) = Len(t)
    PROVE  s = t
<1>1. \A i \in 1..Len(s) : s[i] = t[i]
  BY PrefixPointwise, Zenon
<1> QED
  BY <1>1, SeqEqual

(* A service identifier survives its byte, with its sign.                  *)
LEMMA ReadBack ==
    ASSUME NEW x \in SignedByte
    PROVE  ToSigned(LowByte(LowByte(x))) = x
<1> DEFINE h == Base \div 2
<1>1. Base \in Nat \ {0} /\ Base % 2 = 0
  BY CodecAssumption
<1>2. h \in Int /\ Base = 2 * h
  BY <1>1, Division
<1>3. x \in Int /\ -h <= x /\ x < h
  BY <1>2 DEF SignedByte
<1> HIDE DEF h
<1>4. CASE x >= 0
  <2>1. x \div Base = 0
    <3>1. Base * 0 <= x /\ x < Base * 0 + Base /\ 0 \in Int
      BY <1>1, <1>2, <1>3, <1>4
    <3> QED
      BY <1>1, <1>3, <3>1, Quotient
  <2>2. x = Base * (x \div Base) + (x % Base) /\ x % Base \in Int
    BY <1>1, <1>3, Division
  <2>3. x % Base = x
    BY <1>1, <2>1, <2>2
  <2> QED
    BY <1>3, <2>3 DEF ToSigned, LowByte, h
<1>5. CASE x < 0
  <2> DEFINE y == x + Base
  <2>1. x \div Base = -1
    <3>1. Base * (-1) <= x /\ x < Base * (-1) + Base /\ -1 \in Int
      BY <1>1, <1>2, <1>3, <1>5
    <3> QED
      BY <1>1, <1>3, <3>1, Quotient
  <2>2. x = Base * (x \div Base) + (x % Base) /\ x % Base \in Int
    BY <1>1, <1>3, Division
  <2>3. x % Base = y
    BY <1>1, <1>3, <2>1, <2>2
  <2>4. y \div Base = 0
    <3>1. Base * 0 <= y /\ y < Base * 0 + Base /\ 0 \in Int /\ y \in Int
      BY <1>1, <1>2, <1>3, <1>5
    <3> HIDE DEF y
    <3> QED
      BY <1>1, <3>1, Quotient
  <2>5. y = Base * (y \div Base) + (y % Base) /\ y % Base \in Int /\ y \in Int
    <3>1. y \in Int
      BY <1>1, <1>3
    <3> HIDE DEF y
    <3> QED
      BY <1>1, <3>1, Division
  <2>6. y % Base = y
    BY <1>1, <2>4, <2>5
  <2>7. ~(y < h) /\ y - Base = x
    BY <1>1, <1>2, <1>3
  <2> HIDE DEF y
  <2> QED
    BY <2>3, <2>6, <2>7 DEF ToSigned, LowByte, h
<1> QED
  BY <1>3, <1>4, <1>5

(* What is sent is a message with piggybacked messages.                    *)
LEMMA OutgoingMessages == Outgoing \subseteq Messages
<1>1. IsFiniteSet(SenderIDs)
  <2>1. SenderIDs \in SUBSET SignedByte
    BY CodecAssumption
  <2>2. Base \in Nat
    BY CodecAssumption
  <2>3. -(Base \div 2) \in Int /\ Base \div 2 - 1 \in Int
    BY <2>2
  <2>4. IsFiniteSet(SignedByte)
    BY <2>3, FS_Interval DEF SignedByte
  <2> QED
    BY <2>1, <2>4, FS_Subset
<1>2. ASSUME NEW c \in SignedWord, NEW m \in Payloads,
             NEW S \in SUBSET SenderIDs, NEW ids \in SetToSeqs(S),
             NEW x \in [SenderIDs -> Payloads]
      PROVE  [commID |-> c, msg |-> m, pigs |-> [k \in DOMAIN ids |->
                  [service |-> ids[k], msg |-> x[ids[k]]]]] \in Messages
  <2> DEFINE n == Cardinality(S)
             pigs == [k \in DOMAIN ids |-> [service |-> ids[k], msg |-> x[ids[k]]]]
  <2>1. n \in Nat
    <3>1. IsFiniteSet(S)
      BY <1>1, FS_Subset
    <3> QED
      BY <3>1, FS_CardinalityType
  <2>2. ids \in [1..n -> S]
    BY DEF SetToSeqs
  <2> HIDE DEF n
  <2>3. pigs \in [1..n -> Pig]
    BY <2>2 DEF Pig
  <2>4. pigs \in Seq(Pig)
    <3> HIDE DEF pigs
    <3> QED
      BY <2>1, <2>3
  <2> HIDE DEF pigs
  <2>5. [commID |-> c, msg |-> m, pigs |-> pigs] \in Messages
    BY <2>4 DEF Messages
  <2> QED
    BY <2>5 DEF pigs
<1> QED
  BY <1>2 DEF Outgoing

-----------------------------------------------------------------------------

(* The job starts at the first byte of what arrived.                       *)
LEMMA InitIInv == Init => IInv
<1> SUFFICES ASSUME Init PROVE IInv
  OBVIOUS
<1>1. sent \in Messages
  BY OutgoingMessages DEF Init
<1>2. Types
  BY <1>1 DEF Init, Types, Messages
<1>3. received = << >> /\ pc = "header"
  BY DEF Init
<1>4. HasRead(0)
  <2>1. PICK k \in 0..Len(Serialize(sent)) :
           bin = SubSeq(Serialize(sent), 1, k) /\ whole = (k = Len(Serialize(sent)))
    BY DEF Init
  <2>2. 0 + 1 = 1
    OBVIOUS
  <2> QED
    BY <2>1, <2>2 DEF HasRead
<1>5. received \in Seq(Pig) /\ sent.pigs \in Seq(Pig)
  BY <1>1, <1>3 DEF Messages
<1>6. IsPrefix(received, sent.pigs)
  <2>1. Len(received) = 0 /\ Len(sent.pigs) \in Nat
    BY <1>3, <1>5, LenProperties
  <2>2. Len(received) <= Len(sent.pigs) /\ \A i \in 1..Len(received) : received[i] = sent.pigs[i]
    BY <2>1
  <2> QED
    BY <1>5, <2>2, PrefixPointwise, Zenon
<1> QED
  BY <1>2, <1>3, <1>4, <1>5, <1>6 DEF IInv, ReadInv, NoMisdelivery, RoundTrip, RefusedForCause

(* The datagram of the message that was sent.                              *)
LEMMA Datagram ==
    ASSUME Types, NEW n, n = Len(sent.pigs), NEW S, S = Serialize(sent)
    PROVE  /\ sent \in Messages /\ sent.pigs \in Seq(Pig) /\ sent.commID \in SignedWord
           /\ S \in Seq(Byte) /\ n \in Nat /\ WordSize \in Nat /\ Len(S) \in Nat
           /\ LaidOut(sent, n, S)
<1>1. sent \in Messages /\ sent.pigs \in Seq(Pig) /\ sent.commID \in SignedWord
  BY DEF Types, Messages
<1>2. WordSize \in Nat
  BY Constants
<1>3. LaidOut(sent, n, S)
  BY <1>1, Layout, Zenon
<1>4. S \in Seq(Byte) /\ n \in Nat
  BY <1>3 DEF LaidOut
<1>5. Len(S) \in Nat
  BY <1>4, LenProperties
<1> QED
  BY <1>1, <1>2, <1>3, <1>4, <1>5

(* The header is read back as it was written, or is too short to go on.    *)
LEMMA HeaderStep == IInv /\ Header => IInv'
<1> SUFFICES ASSUME IInv, Header PROVE IInv'
  OBVIOUS
<1> DEFINE S == Serialize(sent)
           n == Len(sent.pigs)
           W == WordSize
<1>1. /\ Types /\ (CountFits => ReadInv) /\ NoMisdelivery
      /\ pc = "header" /\ sent' = sent /\ whole' = whole /\ received' = received
      /\ pc' \in {"piggyback", "message"}
  <2>1. Types /\ (CountFits => ReadInv) /\ NoMisdelivery
    BY Zenon DEF IInv
  <2>2. pc = "header" /\ sent' = sent /\ whole' = whole /\ received' = received
    BY DEF Header
  <2>3. pc' \in {"piggyback", "message"}
    BY DEF Header
  <2> QED
    BY <2>1, <2>2, <2>3, Zenon
<1>2. Types' /\ NoMisdelivery' /\ RoundTrip' /\ RefusedForCause'
  <2>1. Types'
    BY <1>1 DEF Types
  <2>2. CountFits' = CountFits /\ NoMisdelivery'
    BY <1>1, Zenon DEF CountFits, NoMisdelivery
  <2>3. pc' # "done" /\ pc' # "failed"
    BY <1>1
  <2> QED
    BY <2>1, <2>2, <2>3, Zenon DEF RoundTrip, RefusedForCause
<1>3. ASSUME CountFits PROVE ReadInv'
  <2>1. HasRead(0) /\ received = << >> /\ received \in Seq(Pig)
    BY <1>1, <1>3 DEF ReadInv
  <2>2. PICK k \in 0..Len(S) : bin = SubSeq(S, 0 + 1, k) /\ whole = (k = Len(S))
    BY <2>1 DEF HasRead
  <2>3. /\ sent \in Messages /\ sent.pigs \in Seq(Pig) /\ sent.commID \in SignedWord
        /\ S \in Seq(Byte) /\ n \in Nat /\ W \in Nat /\ Len(S) \in Nat
        /\ \A i \in 1..W : S[i] = putInt(sent.commID)[i]
        /\ n = 0 => Len(S) = W + 2 /\ S[W + 1] = 0
        /\ n > 0 => /\ Len(S) = W + 3 + 2 * n
                    /\ S[W + 1] = BITMASK_HASPIGGYBACK /\ S[W + 2] = LowByte(n)
    <3>1. n = Len(sent.pigs) /\ S = Serialize(sent) /\ Types
      BY <1>1
    <3> HIDE DEF n, S
    <3>2. /\ sent \in Messages /\ sent.pigs \in Seq(Pig) /\ sent.commID \in SignedWord
          /\ S \in Seq(Byte) /\ n \in Nat /\ WordSize \in Nat /\ Len(S) \in Nat
          /\ LaidOut(sent, n, S)
      BY <3>1, Datagram, Zenon
    <3> QED
      BY <3>2 DEF LaidOut
  <2> DEFINE buf == ReadInto(bin, W + 1)
             rest == SubSeq(bin, W + 2, Len(bin))
  <2>4. S' = S /\ n' = n
    BY <1>1
  <2> HIDE DEF S, n, W
  <2>5. /\ bin \in Seq(Byte) /\ Len(bin) = (IF 0 < k THEN k - 0 ELSE 0)
        /\ \A i \in 1..Len(bin) : bin[i] = S[0 + i] /\ bin[i] \in Byte
        /\ \A j \in Nat : SubSeq(bin, j + 1, Len(bin)) = SubSeq(S, 0 + j + 1, k)
    <3>1. 0 \in Nat /\ S \in Seq(Byte) /\ bin = SubSeq(S, 0 + 1, k)
      BY <2>2, <2>3
    <3>2. IsRemainder(bin, S, 0, k)
      BY <3>1, Remainder, Zenon
    <3> QED
      BY <3>2 DEF IsRemainder
  <2>6. k \in Nat /\ k <= Len(S) /\ Len(bin) = k /\ \A i \in 1..k : bin[i] = S[i]
    BY <2>3, <2>5
  <2>7. rest = SubSeq(S, W + 2, k)
    <3>1. W + 1 \in Nat /\ W + 1 + 1 = W + 2 /\ 0 + (W + 1) + 1 = W + 2
      BY <2>3
    <3> QED
      BY <2>5, <3>1
  <2>8. buf = [i \in 1..W + 1 |-> IF i <= k THEN bin[i] ELSE 0]
    BY <2>6 DEF ReadInto
  <2>9. /\ commID' = getInt(SubSeq(buf, 1, W))
        /\ \/ /\ HasBit(buf[W + 1])
              /\ numPigs' = Read(rest) /\ bin' = Rest(rest)
              /\ pc' = IF numPigs' > 0 THEN "piggyback" ELSE "message"
           \/ /\ ~HasBit(buf[W + 1])
              /\ bin' = rest /\ pc' = "message"
    BY DEF Header, W
  <2>10. W + 1 \in 1..W + 1
    BY <2>3
  <2> HIDE DEF buf, rest
  <2>11. CASE k <= W
    <3>1. buf[W + 1] = 0 /\ ~HasBit(0)
      <4>1. ~(W + 1 <= k)
        BY <2>3, <2>6, <2>11
      <4> QED
        BY <2>8, <2>10, <4>1 DEF HasBit, BITMASK_HASPIGGYBACK
    <3>2. pc' = "message" /\ bin' = rest
      BY <2>9, <3>1
    <3>3. W + 2 \in Int /\ k \in Int /\ k < W + 2 /\ Len(S) - 1 + 1 \in Int /\ k < Len(S) - 1 + 1
      BY <2>3, <2>6, <2>11
    <3>4. bin' = << >> /\ SubSeq(S, Len(S) - 1 + 1, k) = << >>
      BY <2>7, <3>2, <3>3, SubSeqEmpty
    <3>5. HasRead(Len(Serialize(sent)) - 1)'
      BY <1>1, <2>2, <2>4, <3>4 DEF HasRead, S
    <3> QED
      BY <1>1, <2>1, <3>2, <3>4, <3>5 DEF ReadInv
  <2>12. CASE k > W
    <3>1. commID' = sent.commID
      <4>1. SubSeq(buf, 1, W) = [i \in 1..W |-> buf[i]]
        BY <2>3 DEF SubSeq
      <4>2. ASSUME NEW i \in 1..W
            PROVE  SubSeq(buf, 1, W)[i] = putInt(sent.commID)[i]
        <5>1. i \in 1..W + 1 /\ i \in 1..k /\ i <= k
          BY <2>3, <2>6, <2>12
        <5> QED
          BY <2>3, <2>6, <2>8, <4>1, <5>1
      <4>3. \A i \in 1..WordSize : SubSeq(buf, 1, W)[i] = putInt(sent.commID)[i]
        BY <4>2 DEF W
      <4>4. getInt(SubSeq(buf, 1, W)) = sent.commID
        BY <2>3, <4>3, WordsRoundTrip
      <4> QED
        BY <2>9, <4>4
    <3>2. buf[W + 1] = S[W + 1]
      <4>1. W + 1 <= k /\ W + 1 \in 1..k
        BY <2>3, <2>6, <2>12
      <4> QED
        BY <2>6, <2>8, <2>10, <4>1
    <3>3. CASE n = 0
      <4>1. ~HasBit(buf[W + 1])
        BY <2>3, <3>2, <3>3 DEF HasBit, BITMASK_HASPIGGYBACK
      <4>2. pc' = "message" /\ bin' = rest
        BY <2>9, <4>1
      <4>3. Len(S) - 1 + 1 = W + 2
        BY <2>3, <3>3
      <4>4. HasRead(Len(Serialize(sent)) - 1)'
        BY <1>1, <2>2, <2>4, <2>7, <4>2, <4>3 DEF HasRead, S
      <4>5. received = sent.pigs
        BY <2>1, <2>3, <3>3, EmptySeq DEF n
      <4> QED
        BY <1>1, <2>1, <3>1, <4>2, <4>4, <4>5 DEF ReadInv
    <3>4. CASE n > 0
      <4>1. HasBit(buf[W + 1])
        BY <2>3, <3>2, <3>4 DEF HasBit, BITMASK_HASPIGGYBACK
      <4>2. /\ numPigs' = Read(rest) /\ bin' = Rest(rest)
            /\ pc' = IF numPigs' > 0 THEN "piggyback" ELSE "message"
        BY <2>9, <4>1
      <4>3. CASE k = W + 1
        <5>1. rest = << >>
          <6>1. W + 2 \in Int /\ k \in Int /\ k < W + 2
            BY <2>3, <4>3
          <6> QED
            BY <2>7, <6>1, SubSeqEmpty
        <5>2. bin' = << >> /\ pc' = "message"
          BY <4>2, <5>1 DEF Read, Rest
        <5>3. Len(S) - 1 + 1 \in Int /\ k \in Int /\ k < Len(S) - 1 + 1
          BY <2>3, <3>4, <4>3
        <5>4. SubSeq(S, Len(S) - 1 + 1, k) = << >>
          BY <5>3, SubSeqEmpty
        <5>5. HasRead(Len(Serialize(sent)) - 1)'
          BY <1>1, <2>2, <2>4, <5>2, <5>4 DEF HasRead, S
        <5> QED
          BY <1>1, <2>1, <5>2, <5>5 DEF ReadInv
      <4>4. CASE k # W + 1
        <5>1. W + 2 \in 1..Len(S) /\ k \in W + 2..Len(S)
          BY <2>3, <2>6, <2>12, <4>4
        <5>2. Head(rest) = S[W + 2] /\ Tail(rest) = SubSeq(S, W + 2 + 1, k)
          BY <2>3, <2>7, <5>1, HeadTailOfSubSeq
        <5>3. rest # << >>
          <6>1. Len(rest) = k - (W + 2) + 1
            <7>1. W + 2 \in Int /\ k \in Int /\ \A i \in W + 2..k : S[i] \in Byte
              BY <2>3, <2>6, ElementOfSeq
            <7>2. Len(rest) = IF W + 2 <= k THEN k - (W + 2) + 1 ELSE 0
              BY <2>7, <7>1, SubSeqProperties
            <7> QED
              BY <5>1, <7>2
          <6>2. Len(rest) # 0
            BY <2>3, <2>6, <5>1, <6>1
          <6> QED
            BY <6>2
        <5>4. LowByte(n) = n
          <6>1. Base \in Nat \ {0} /\ n < Base
            BY <1>3, Constants DEF CountFits, n
          <6> QED
            BY <2>3, <6>1 DEF LowByte
        <5>5. numPigs' = n /\ bin' = SubSeq(S, W + 2 + 1, k) /\ pc' = "piggyback"
          BY <2>3, <3>4, <4>2, <5>2, <5>3, <5>4 DEF Read, Rest
        <5>6. Len(received) = 0 /\ W + 2 + 2 * 0 = W + 2 /\ n - 0 = n
          BY <2>1, <2>3
        <5>7. HasRead(WordSize + 2 + 2 * Len(received))'
          BY <1>1, <2>2, <2>4, <5>5, <5>6 DEF HasRead, S, W
        <5> QED
          BY <1>1, <2>1, <2>4, <3>1, <3>4, <5>5, <5>6, <5>7 DEF ReadInv, n
      <4> QED
        BY <4>3, <4>4
    <3> QED
      BY <2>3, <3>3, <3>4
  <2> QED
    BY <2>3, <2>6, <2>11, <2>12
<1>4. CountFits' => CountFits
  BY <1>1 DEF CountFits
<1> QED
  BY <1>2, <1>3, <1>4, Zenon DEF IInv

(* One round of the loop reads the next identifier and its message, and    *)
(* fails only for an unknown identifier or a datagram that was cut.        *)
LEMMA PiggybackStep == IInv /\ Piggyback => IInv'
<1> SUFFICES ASSUME IInv, Piggyback PROVE IInv'
  OBVIOUS
<1> DEFINE S == Serialize(sent)
           n == Len(sent.pigs)
           W == WordSize
           id == ToSigned(LowByte(Read(bin)))
<1>1. Types /\ (CountFits => ReadInv) /\ NoMisdelivery
  BY Zenon DEF IInv
<1>2. /\ pc = "piggyback" /\ sent' = sent /\ whole' = whole /\ commID' = commID
      /\ pc' \in {"piggyback", "message", "failed"}
      /\ \/ /\ id \in ReceiverIDs /\ Len(bin) > 1
            /\ received' = Append(received, [service |-> id, msg |-> bin[2]])
            /\ bin' = SubSeq(bin, 3, Len(bin))
            /\ numPigs' = numPigs - 1
            /\ pc' = IF numPigs' > 0 THEN "piggyback" ELSE "message"
         \/ /\ id \notin ReceiverIDs \/ Len(bin) <= 1
            /\ pc' = "failed"
            /\ received' = received
  <2> USE DEF Piggyback
  <2>1. pc = "piggyback" /\ sent' = sent /\ whole' = whole /\ commID' = commID
    OBVIOUS
  <2>2. \/ /\ id \in ReceiverIDs /\ Len(bin) > 1
           /\ received' = Append(received, [service |-> id, msg |-> bin[2]])
           /\ bin' = SubSeq(bin, 3, Len(bin))
           /\ numPigs' = numPigs - 1
           /\ pc' = IF numPigs' > 0 THEN "piggyback" ELSE "message"
        \/ /\ id \notin ReceiverIDs \/ Len(bin) <= 1
           /\ pc' = "failed"
           /\ received' = received
    OBVIOUS
  <2> HIDE DEF id, Piggyback
  <2> QED
    BY <2>1, <2>2
<1>3. Types' /\ RoundTrip' /\ (CountFits' => CountFits)
  <2>1. Types'
    BY <1>1, <1>2 DEF Types
  <2>2. CountFits' => CountFits
    BY <1>2 DEF CountFits
  <2>3. pc' # "done"
    BY <1>2
  <2> QED
    BY <2>1, <2>2, <2>3, Zenon DEF RoundTrip
<1>4. ASSUME CountFits PROVE ReadInv' /\ NoMisdelivery' /\ RefusedForCause'
  <2> DEFINE j == Len(received)
  <2>1. /\ received \in Seq(Pig)
        /\ HasRead(W + 2 + 2 * j) /\ commID = sent.commID
        /\ numPigs > 0 /\ numPigs = n - j
    BY <1>1, <1>2, <1>4 DEF ReadInv
  <2>2. PICK k \in 0..Len(S) : bin = SubSeq(S, W + 2 + 2 * j + 1, k) /\ whole = (k = Len(S))
    BY <2>1 DEF HasRead
  <2>3. /\ sent \in Messages /\ sent.pigs \in Seq(Pig) /\ sent.commID \in SignedWord
        /\ S \in Seq(Byte) /\ n \in Nat /\ W \in Nat /\ Len(S) \in Nat
        /\ LaidOut(sent, n, S)
    <3>1. n = Len(sent.pigs) /\ S = Serialize(sent) /\ Types
      BY <1>1
    <3> HIDE DEF n, S
    <3> QED
      BY <3>1, Datagram, Zenon
  <2>4. IsPrefix(received, sent.pigs)
    BY <1>1, <1>4 DEF NoMisdelivery
  <2>5. S' = S /\ n' = n
    BY <1>2
  <2>6. j \in Nat /\ j < n /\ n > 0 /\ j + 1 \in 1..n
    <3>1. j \in Nat
      BY <2>1, LenProperties
    <3> HIDE DEF j, n
    <3> QED
      BY <2>1, <2>3, <3>1
  <2> DEFINE p == W + 2 + 2 * j
  <2>7. p \in Nat
    BY <2>3, <2>6
  <2>8. IsRemainder(bin, S, p, k)
    <3>1. bin = SubSeq(S, p + 1, k) /\ S \in Seq(Byte) /\ k \in 0..Len(S)
      BY <2>2, <2>3
    <3> HIDE DEF S, p
    <3> QED
      BY <2>7, <3>1, Remainder, Zenon
  <2>9. /\ Len(S) = W + 3 + 2 * n
        /\ S[W + 1 + 2 * (j + 1)] = LowByte(sent.pigs[j + 1].service)
        /\ S[W + 2 + 2 * (j + 1)] = sent.pigs[j + 1].msg
    <3> HIDE DEF S, n, j
    <3> QED
      BY <2>3, <2>6 DEF LaidOut
  <2>10. sent.pigs[j + 1] \in Pig
    BY <2>3, <2>6, ElementOfSeq
  <2> DEFINE x == sent.pigs[j + 1]
  <2> HIDE DEF S, n, p
  <2>11. /\ bin \in Seq(Byte) /\ Len(bin) = IF p < k THEN k - p ELSE 0
         /\ \A i \in 1..Len(bin) : bin[i] = S[p + i] /\ bin[i] \in Byte
         /\ \A i \in Nat : SubSeq(bin, i + 1, Len(bin)) = SubSeq(S, p + i + 1, k)
    BY <2>8 DEF IsRemainder
  <2>12. Len(bin) \in Nat /\ p + 1 = W + 1 + 2 * (j + 1) /\ p + 2 = W + 2 + 2 * (j + 1)
    <3>1. Len(bin) \in Nat
      BY <2>11, LenProperties
    <3> HIDE DEF j
    <3> QED
      BY <2>3, <2>6, <3>1 DEF p
  <2>13. Len(bin) > 1 => bin[1] = LowByte(x.service) /\ bin[2] = x.msg
    <3>1. ASSUME Len(bin) > 1 PROVE 1 \in 1..Len(bin) /\ 2 \in 1..Len(bin)
      BY <2>12, <3>1
    <3> HIDE DEF j
    <3> QED
      BY <2>9, <2>11, <2>12, <3>1
  <2>14. Len(bin) > 1 => id = x.service
    <3>1. ASSUME Len(bin) > 1 PROVE Read(bin) = bin[1]
      <4>1. bin # << >>
        BY <3>1
      <4> QED
        BY <4>1 DEF Read
    <3>2. x.service \in SignedByte
      BY <2>10, Constants
    <3> QED
      BY <2>13, <3>1, <3>2, ReadBack
  <2> HIDE DEF id
  <2>15. CASE id \in ReceiverIDs /\ Len(bin) > 1
    <3>1. /\ received' = Append(received, [service |-> id, msg |-> bin[2]])
          /\ bin' = SubSeq(bin, 3, Len(bin))
          /\ numPigs' = numPigs - 1
          /\ pc' = IF numPigs' > 0 THEN "piggyback" ELSE "message"
      BY <1>2, <2>12, <2>15
    <3>2. [service |-> id, msg |-> bin[2]] = x
      BY <2>10, <2>13, <2>14, <2>15 DEF Pig
    <3>3. received' = Append(received, x)
      BY <3>1, <3>2
    <3>4. /\ received' \in Seq(Pig) /\ Len(received') = j + 1
          /\ IsPrefix(received', sent.pigs)
      <4>1. j < Len(sent.pigs)
        BY <2>6 DEF n
      <4> QED
        BY <2>1, <2>3, <2>4, <3>3, <4>1, LongerPrefix
    <3>5. bin' = SubSeq(S, p + 2 + 1, k)
      <4>1. 2 \in Nat /\ 2 + 1 = 3
        OBVIOUS
      <4> QED
        BY <2>11, <3>1, <4>1
    <3>6. NoMisdelivery'
      BY <1>2, <3>4 DEF NoMisdelivery
    <3>7. RefusedForCause'
      BY <3>1 DEF RefusedForCause
    <3>8. CASE numPigs' > 0
      <4>1. W + 2 + 2 * (j + 1) + 1 = p + 2 + 1 /\ numPigs' = n - (j + 1)
        <5> HIDE DEF j
        <5> QED
          BY <2>1, <2>3, <2>6, <3>1 DEF p
      <4>2. HasRead(WordSize + 2 + 2 * Len(received))'
        <5> HIDE DEF j
        <5> QED
          BY <1>2, <2>2, <2>5, <3>4, <3>5, <4>1 DEF HasRead, S
      <4>3. pc' = "piggyback"
        BY <3>1, <3>8
      <4>4. numPigs' = Len(sent'.pigs) - Len(received')
        BY <1>2, <3>4, <4>1 DEF n
      <4>5. commID' = sent'.commID /\ received' \in Seq(Pig) /\ numPigs' > 0
        BY <1>2, <2>1, <3>4, <3>8
      <4>6. ReadInv'
        BY <4>2, <4>3, <4>4, <4>5 DEF ReadInv
      <4> QED
        BY <3>6, <3>7, <4>6
    <3>9. CASE ~(numPigs' > 0)
      <4>1. j + 1 = n /\ p + 2 + 1 = Len(S) - 1 + 1
        <5> HIDE DEF j
        <5> QED
          BY <2>1, <2>3, <2>6, <2>9, <3>1, <3>9 DEF p
      <4>2. HasRead(Len(Serialize(sent)) - 1)'
        BY <1>2, <2>2, <2>5, <3>5, <4>1 DEF HasRead, S
      <4>3. received' = sent.pigs
        BY <2>3, <3>4, <4>1, WholePrefix DEF n
      <4>4. pc' = "message"
        BY <3>1, <3>9
      <4>5. commID' = sent'.commID /\ received' = sent'.pigs /\ received' \in Seq(Pig)
        BY <1>2, <2>1, <3>4, <4>3
      <4>6. ReadInv'
        BY <4>2, <4>4, <4>5 DEF ReadInv
      <4> QED
        BY <3>6, <3>7, <4>6
    <3> QED
      BY <3>6, <3>7, <3>8, <3>9
  <2>16. CASE ~(id \in ReceiverIDs /\ Len(bin) > 1)
    <3>1. pc' = "failed" /\ received' = received
      BY <1>2, <2>16
    <3>2. ASSUME whole PROVE x.service \notin ReceiverIDs
      <4>1. k = Len(S)
        BY <2>2, <3>2
      <4>2. Len(bin) > 1
        <5> HIDE DEF j
        <5>1. W \in Nat /\ n \in Nat /\ j \in Nat /\ j < n /\ k = W + 3 + 2 * n
          BY <2>3, <2>6, <2>9, <4>1
        <5>2. p < k /\ k - p > 1
          BY <5>1 DEF p
        <5> QED
          BY <2>11, <5>2
      <4> QED
        BY <2>14, <2>16, <4>2
    <3>3. RefusedForCause'
      <4>1. j + 1 \in DOMAIN sent.pigs
        BY <2>3, <2>6, LenProperties DEF n
      <4> QED
        BY <1>2, <3>2, <4>1 DEF RefusedForCause
    <3>4. NoMisdelivery'
      BY <1>2, <2>4, <3>1 DEF NoMisdelivery
    <3>5. ReadInv'
      BY <2>1, <3>1 DEF ReadInv
    <3> QED
      BY <3>3, <3>4, <3>5
  <2> QED
    BY <2>15, <2>16
<1>5. NoMisdelivery' /\ RefusedForCause'
  BY <1>3, <1>4, Zenon DEF NoMisdelivery, RefusedForCause
<1> QED
  BY <1>3, <1>4, <1>5, Zenon DEF IInv

(* The message is the last byte of a datagram, and a whole one has it.     *)
LEMMA MessageStep == IInv /\ Message => IInv'
<1> SUFFICES ASSUME IInv, Message PROVE IInv'
  OBVIOUS
<1> DEFINE S == Serialize(sent)
           n == Len(sent.pigs)
<1>1. Types /\ (CountFits => ReadInv) /\ NoMisdelivery
  BY Zenon DEF IInv
<1>2. /\ pc = "message" /\ sent' = sent /\ whole' = whole
      /\ commID' = commID /\ received' = received
      /\ \/ bin # << >> /\ msg' = Head(bin) /\ pc' = "done"
         \/ bin = << >> /\ pc' = "failed"
  BY DEF Message
<1>3. /\ Types' /\ (CountFits' => CountFits) /\ NoMisdelivery' /\ (ReadInv => ReadInv')
  <2>1. Types'
    BY <1>1, <1>2 DEF Types
  <2>2. CountFits' => CountFits
    BY <1>2 DEF CountFits
  <2>3. NoMisdelivery'
    BY <1>1, <1>2 DEF NoMisdelivery, CountFits
  <2>4. ReadInv => ReadInv'
    <3>1. pc' \in {"done", "failed"}
      BY <1>2
    <3> QED
      BY <1>2, <3>1 DEF ReadInv
  <2> QED
    BY <2>1, <2>2, <2>3, <2>4, Zenon
<1>4. ASSUME CountFits PROVE RoundTrip' /\ RefusedForCause'
  <2>1. /\ HasRead(Len(S) - 1)
        /\ bin # << >> => commID = sent.commID /\ received = sent.pigs
    BY <1>1, <1>2, <1>4 DEF ReadInv
  <2>2. PICK k \in 0..Len(S) : bin = SubSeq(S, Len(S) - 1 + 1, k) /\ whole = (k = Len(S))
    BY <2>1 DEF HasRead
  <2>3. /\ S \in Seq(Byte) /\ n \in Nat /\ WordSize \in Nat /\ Len(S) \in Nat
        /\ LaidOut(sent, n, S)
    <3>1. n = Len(sent.pigs) /\ S = Serialize(sent) /\ Types
      BY <1>1
    <3> HIDE DEF n, S
    <3> QED
      BY <3>1, Datagram, Zenon
  <2> HIDE DEF S, n
  <2>4. Len(S) > 0 /\ S[Len(S)] = sent.msg
    <3>1. CASE n = 0
      BY <2>3, <3>1 DEF LaidOut
    <3>2. CASE n > 0
      BY <2>3, <3>2 DEF LaidOut
    <3> QED
      BY <2>3, <3>1, <3>2
  <2>5. Len(S) - 1 \in Nat /\ Len(S) - 1 + 1 = Len(S)
    BY <2>3, <2>4
  <2>6. CASE k = Len(S)
    <3>1. Len(S) \in 1..Len(S) /\ k \in Len(S)..Len(S) /\ bin = SubSeq(S, Len(S), k)
      BY <2>2, <2>3, <2>4, <2>5, <2>6
    <3>2. Head(bin) = S[Len(S)]
      BY <2>3, <3>1, HeadTailOfSubSeq
    <3>3. bin # << >>
      <4>1. IsRemainder(bin, S, Len(S) - 1, k)
        BY <2>2, <2>3, <2>5, Remainder, Zenon
      <4>2. Len(bin) # 0
        BY <2>3, <2>4, <2>6, <4>1 DEF IsRemainder
      <4> QED
        BY <4>2
    <3>4. pc' = "done" /\ msg' = sent.msg
      BY <1>2, <2>4, <3>2, <3>3
    <3> QED
      BY <1>2, <2>1, <3>3, <3>4 DEF RoundTrip, RefusedForCause
  <2>7. CASE k # Len(S)
    <3>1. k \in Int /\ Len(S) \in Int /\ k < Len(S)
      BY <2>3, <2>7
    <3>2. bin = << >>
      BY <2>2, <2>5, <3>1, SubSeqEmpty
    <3>3. pc' = "failed" /\ ~whole
      BY <1>2, <2>2, <2>7, <3>2
    <3> QED
      BY <1>2, <3>3 DEF RoundTrip, RefusedForCause
  <2> QED
    BY <2>6, <2>7
<1>5. RoundTrip' /\ RefusedForCause'
  BY <1>3, <1>4, Zenon DEF RoundTrip, RefusedForCause
<1> QED
  BY <1>1, <1>3, <1>5, Zenon DEF IInv

-----------------------------------------------------------------------------
(* The receiver always knows where it is in the datagram.                  *)
THEOREM Invariance == Spec => []IInv
<1>1. IInv /\ [Next]_vars => IInv'
  <2> SUFFICES ASSUME IInv, [Next]_vars PROVE IInv'
    OBVIOUS
  <2>1. CASE Header
    BY <2>1, HeaderStep
  <2>2. CASE Piggyback
    BY <2>2, PiggybackStep
  <2>3. CASE Message
    BY <2>3, MessageStep
  <2>4. CASE UNCHANGED vars
    <3>1. /\ sent' = sent /\ whole' = whole /\ bin' = bin /\ pc' = pc /\ commID' = commID
          /\ numPigs' = numPigs /\ received' = received /\ msg' = msg
      BY <2>4 DEF vars
    <3>2. Types' /\ CountFits' = CountFits
      BY <3>1 DEF IInv, Types, CountFits
    <3>3. ReadInv => ReadInv'
      BY <3>1 DEF ReadInv, HasRead
    <3>4. NoMisdelivery' /\ RoundTrip' /\ RefusedForCause'
      BY <3>1 DEF IInv, NoMisdelivery, RoundTrip, RefusedForCause, CountFits
    <3> QED
      BY <3>2, <3>3, <3>4, Zenon DEF IInv
  <2> QED
    BY <2>1, <2>2, <2>3, <2>4 DEF Next
<1> QED
  BY <1>1, InitIInv, PTL DEF Spec

(* Every datagram that is accepted, a cut one included, arrives as it was  *)
(* sent: UnserializeAndReceive.run() inverts SerializeAndSend.run().       *)
THEOREM RoundTrips == Spec => []RoundTrip
<1>1. IInv => RoundTrip
  BY Zenon DEF IInv
<1> QED
  BY <1>1, Invariance, PTL

(* A complete datagram is refused only for a service the receiver lacks:   *)
(* the AssertionError of UnserializeAndReceive.run().                      *)
THEOREM Refusals == Spec => []RefusedForCause
<1>1. IInv => RefusedForCause
  BY Zenon DEF IInv
<1> QED
  BY <1>1, Invariance, PTL

(* No service is ever given a piggybacked message of another, nor one out  *)
(* of order, even of a datagram that is cut or refused later.              *)
THEOREM Deliveries == Spec => []NoMisdelivery
<1>1. IInv => NoMisdelivery
  BY Zenon DEF IInv
<1> QED
  BY <1>1, Invariance, PTL
=============================================================================
