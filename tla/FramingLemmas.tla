--------------------------- MODULE FramingLemmas ---------------------------
(***************************************************************************)
(* What is proved about the operators of FrameFormat and about a single    *)
(* packet or chunk of Framing: the checksum, the length field, the format  *)
(* check, requests and responses.  The theorems about the stream and the   *)
(* receive thread that follow from it are in FramingProofs.                *)
(***************************************************************************)
EXTENDS Framing, WellFoundedInduction, TLAPS

-----------------------------------------------------------------------------
(* The checksum.  ByteSum is a recursive function, of which the provers    *)
(* know nothing until it is shown to exist; the inductions are arguments   *)
(* by a least counterexample.                                              *)

\* g holds the sums of the loop of calculatePacketCrc over the first n bytes.
SumsUpTo(g, bytes, n) ==
  /\ g \in [0 .. n -> Byte]
  /\ g[0] = 0
  /\ \A i \in 1 .. n : g[i] = (g[i - 1] + bytes[i]) % 256

\* A set of naturals that is not empty has a least element.
LEMMA LeastNatural ==
  ASSUME NEW T, T \subseteq Nat, T # {}
  PROVE  \E n \in T : \A m \in T : n <= m
<1> DEFINE R == OpToRel(<, Nat)
<1>1. IsWellFoundedOn(R, Nat)
  BY NatLessThanWellFounded
<1>2. \E x \in T : \A y \in T : ~ (<<y, x>> \in R)
  <2> HIDE DEF R
  <2> QED  BY <1>1, WFMin
<1>3. PICK n \in T : \A y \in T : ~ (<<y, n>> \in R)
  BY <1>2
<1>4. ASSUME NEW m \in T
      PROVE  n <= m
  <2>1. m \in Nat /\ n \in Nat
    OBVIOUS
  <2>2. <<m, n>> \in R <=> m < n
    BY <2>1 DEF OpToRel
  <2> HIDE DEF R
  <2> QED  BY <2>1, <2>2, <1>3
<1> QED  BY <1>4

\* A byte added in a char is a byte.
LEMMA AddByte ==
  /\ 0 \in Byte
  /\ \A x, y \in Byte : (x + y) % 256 \in Byte
<1>1. 0 \in Byte
  BY DEF Byte
<1>2. \A x, y \in Byte : (x + y) % 256 \in Byte
  BY DEF Byte
<1> QED  BY <1>1, <1>2

LEMMA ByteIsInt == \A x \in Byte : x \in Int /\ x >= 0 /\ x <= 255
BY DEF Byte

\* Arithmetic in a char.
LEMMA ModByte == \A x \in 0 .. 255 : (x + 0) % 256 = x
OBVIOUS

\* The two bytes of a short.
LEMMA ShortBytes ==
  \A x \in Int : x % 256 \in Byte /\ (x \div 256) % 256 \in Byte
<1>1. \A x \in Int : x % 256 \in Byte
  BY DEF Byte
<1>2. \A x \in Int : x \div 256 \in Int
  OBVIOUS
<1> QED  BY <1>1, <1>2

LEMMA SmallShort == \A x \in 0 .. 255 : x % 256 = x /\ (x \div 256) % 256 = 0
OBVIOUS

LEMMA ModShift ==
  ASSUME NEW x \in Int, NEW a \in Int, NEW d \in Int
  PROVE  /\ (x + (a + d)) % 256 = (((x + a) % 256) + d) % 256
         /\ (((x + d) % 256) + a) % 256 = (((x + a) % 256) + d) % 256
OBVIOUS

\* The loop has a sum after every addition.
LEMMA SumsExist ==
  ASSUME NEW bytes \in Seq(Byte)
  PROVE  \A n \in 0 .. Len(bytes) : \E g : SumsUpTo(g, bytes, n)
<1> DEFINE Bad == {n \in 0 .. Len(bytes) : \A g : ~ SumsUpTo(g, bytes, n)}
<1> SUFFICES ASSUME Bad # {} PROVE FALSE
  OBVIOUS
<1>1. PICK n \in Bad : \A m \in Bad : n <= m
  <2>1. Bad \subseteq Nat
    OBVIOUS
  <2> QED  BY <2>1, LeastNatural
<1>2. n \in 0 .. Len(bytes) /\ \A g : ~ SumsUpTo(g, bytes, n)
  OBVIOUS
<1>3. n # 0
  <2>1. SumsUpTo([i \in 0 .. 0 |-> 0], bytes, 0)
    BY DEF SumsUpTo, Byte
  <2> QED  BY <2>1, <1>2
<1>4. PICK g : SumsUpTo(g, bytes, n - 1)
  <2>1. n - 1 \in 0 .. Len(bytes) /\ n - 1 \notin Bad
    BY <1>1, <1>2, <1>3
  <2> QED  BY <2>1
<1> DEFINE h == [i \in 0 .. n |-> IF i = n THEN (g[n - 1] + bytes[n]) % 256
                                           ELSE g[i]]
<1>5. bytes[n] \in Byte /\ n \in Nat /\ n >= 1
  BY <1>2, <1>3
<1>6. h \in [0 .. n -> Byte]
  <2>1. ASSUME NEW i \in 0 .. n
        PROVE  h[i] \in Byte
    <3>1. CASE i = n
      <4>1. g[n - 1] \in Byte
        BY <1>4, <1>5 DEF SumsUpTo
      <4>2. h[i] = (g[n - 1] + bytes[n]) % 256
        BY <3>1, <1>5
      <4> QED  BY <4>1, <4>2, <1>5, AddByte
    <3>2. CASE i # n
      <4>1. i \in 0 .. n - 1
        BY <3>2, <1>5
      <4> QED  BY <4>1, <3>2, <1>4 DEF SumsUpTo
    <3> QED  BY <3>1, <3>2
  <2> QED  BY <2>1
<1>7. SumsUpTo(h, bytes, n)
  BY <1>4, <1>5, <1>6 DEF SumsUpTo
<1> QED  BY <1>7, <1>2

\* There is only one: it depends on the bytes added so far and no others.
LEMMA SumsUnique ==
  ASSUME NEW s, NEW t, NEW n \in Nat, NEW g, NEW h, NEW m \in 0 .. n,
         SumsUpTo(g, s, m), SumsUpTo(h, t, n),
         \A i \in 1 .. m : s[i] = t[i]
  PROVE  \A i \in 0 .. m : g[i] = h[i]
<1> DEFINE Bad == {i \in 0 .. m : g[i] # h[i]}
<1> SUFFICES ASSUME Bad # {} PROVE FALSE
  OBVIOUS
<1>1. PICK i \in Bad : \A j \in Bad : i <= j
  <2>1. Bad \subseteq Nat
    OBVIOUS
  <2> QED  BY <2>1, LeastNatural
<1>2. i # 0
  BY DEF SumsUpTo
<1>3. i - 1 \in 0 .. m /\ i - 1 \notin Bad /\ i \in 1 .. m /\ i \in 1 .. n
  BY <1>1, <1>2
<1> QED  BY <1>3 DEF SumsUpTo

\* What ByteSum computes: the last of the sums.
LEMMA ByteSumDef ==
  ASSUME NEW bytes \in Seq(Byte)
  PROVE  \E g : SumsUpTo(g, bytes, Len(bytes)) /\ ByteSum(bytes) = g[Len(bytes)]
<1> DEFINE n == Len(bytes)
           Step(f) == [i \in 0 .. n |->
                         IF i = 0 THEN 0 ELSE (f[i - 1] + bytes[i]) % 256]
           sum == CHOOSE f : f = Step(f)
<1>0. n \in Nat /\ \A i \in 1 .. n : bytes[i] \in Byte
  OBVIOUS
<1>1. PICK g : SumsUpTo(g, bytes, n)
  BY SumsExist
<1>2. g = Step(g)
  BY <1>0, <1>1 DEF SumsUpTo
<1>3. sum = Step(sum)
  <2> HIDE DEF Step
  <2> QED  BY <1>2
<1>4. SumsUpTo(sum, bytes, n)
  <2>1. \A i \in 0 .. n : sum[i] = IF i = 0 THEN 0
                                   ELSE (sum[i - 1] + bytes[i]) % 256
    BY <1>3, <1>0
  <2>2. DOMAIN sum = 0 .. n /\ sum = [i \in DOMAIN sum |-> sum[i]]
    BY <1>3, <1>0
  <2> HIDE DEF sum, Step, n
  <2> DEFINE Bad == {i \in 0 .. n : sum[i] \notin Byte}
  <2>3. Bad = {}
    <3> SUFFICES ASSUME Bad # {} PROVE FALSE
      OBVIOUS
    <3>1. PICK i \in Bad : \A j \in Bad : i <= j
      <4>1. Bad \subseteq Nat
        BY <1>0
      <4> QED  BY <4>1, LeastNatural
    <3>2. i \in 0 .. n /\ sum[i] \notin Byte
      OBVIOUS
    <3>3. i # 0
      <4>1. sum[0] = 0
        BY ONLY <2>1, <1>0
      <4> QED  BY <3>2, <4>1, AddByte
    <3>4. i - 1 \in 0 .. n /\ i - 1 \notin Bad /\ i \in 1 .. n
      BY <3>1, <3>2, <3>3, <1>0
    <3>5. sum[i - 1] \in Byte /\ bytes[i] \in Byte
      BY <3>4, <1>0
    <3>6. sum[i] = (sum[i - 1] + bytes[i]) % 256
      BY <2>1, <3>2, <3>3
    <3> QED  BY <3>2, <3>5, <3>6, AddByte
  <2> QED  BY <2>1, <2>2, <2>3, <1>0 DEF SumsUpTo
<1>5. ByteSum(bytes) = sum[n]
  BY DEF ByteSum
<1> HIDE DEF sum
<1> QED  BY <1>4, <1>5

\* A checksum is a byte, and never half of an ETX.
LEMMA ByteSumType ==
  ASSUME NEW bytes \in Seq(Byte)
  PROVE  ByteSum(bytes) \in Byte
<1>1. PICK g : SumsUpTo(g, bytes, Len(bytes)) /\ ByteSum(bytes) = g[Len(bytes)]
  BY ByteSumDef
<1>2. Len(bytes) \in 0 .. Len(bytes)
  OBVIOUS
<1> QED  BY <1>1, <1>2 DEF SumsUpTo

LEMMA CrcType ==
  ASSUME NEW bytes \in Seq(Byte)
  PROVE  Crc(ByteSum(bytes)) \in 0 .. 254 /\ Crc(ByteSum(bytes)) # 255
<1>1. ByteSum(bytes) \in 0 .. 255
  BY ByteSumType DEF Byte
<1>2. \A x \in 0 .. 255 : Crc(x) \in 0 .. 254
  BY DEF Crc
<1>3. \A x \in 0 .. 255 : Crc(x) # 255
  BY DEF Crc
<1> QED  BY <1>1, <1>2, <1>3

\* Adding 0 at the end leaves the checksum as it was.
LEMMA SumOfZero ==
  ASSUME NEW s \in Seq(Byte)
  PROVE  ByteSum(Append(s, 0)) = ByteSum(s)
<1> DEFINE n == Len(s)
           t == Append(s, 0)
<1>1. /\ t \in Seq(Byte) /\ n \in Nat /\ Len(t) = n + 1 /\ t[n + 1] = 0
      /\ \A i \in 1 .. n : s[i] = t[i]
  BY AddByte
<1> HIDE DEF t
<1>2. PICK g : SumsUpTo(g, s, n) /\ ByteSum(s) = g[n]
  BY ByteSumDef
<1>3. PICK h : SumsUpTo(h, t, n + 1) /\ ByteSum(t) = h[n + 1]
  BY ByteSumDef, <1>1
<1>4. n + 1 \in Nat /\ n \in 0 .. n + 1 /\ n \in 0 .. n /\ n + 1 \in 1 .. n + 1
  BY <1>1
<1>5. g[n] = h[n]
  <2> HIDE DEF n
  <2> QED  BY <1>1, <1>2, <1>3, <1>4, SumsUnique
<1>6. h[n + 1] = (h[n] + 0) % 256 /\ h[n] \in Byte
  <2>1. (n + 1) - 1 = n
    BY <1>1
  <2> QED  BY <1>1, <1>3, <1>4, <2>1 DEF SumsUpTo
<1>7. h[n + 1] = h[n]
  <2>1. h[n] \in 0 .. 255
    BY <1>6 DEF Byte
  <2> QED  BY <2>1, <1>6, ModByte
<1> QED  BY <1>2, <1>3, <1>5, <1>7 DEF t

\* A change of one byte changes the sum by as much.
LEMMA SumChange ==
  ASSUME NEW s \in Seq(Byte), NEW t \in Seq(Byte), Len(s) = Len(t),
         NEW j \in 1 .. Len(s), \A i \in 1 .. Len(s) : i # j => s[i] = t[i]
  PROVE  ByteSum(t) = (ByteSum(s) + (t[j] - s[j])) % 256
<1> DEFINE n == Len(s)
<1>1. n \in Nat /\ j \in 1 .. n /\ s[j] \in Byte /\ t[j] \in Byte
  OBVIOUS
<1>2. PICK g : SumsUpTo(g, s, n) /\ ByteSum(s) = g[n]
  BY ByteSumDef
<1>3. PICK h : SumsUpTo(h, t, n) /\ ByteSum(t) = h[n]
  BY ByteSumDef
<1>4. g[j - 1] = h[j - 1]
  <2>1. SumsUpTo([i \in 0 .. j - 1 |-> g[i]], s, j - 1)
    <3>1. /\ 0 .. j - 1 \subseteq 0 .. n /\ 1 .. j - 1 \subseteq 1 .. n
          /\ 0 \in 0 .. j - 1
          /\ \A i \in 1 .. j - 1 : i \in 0 .. j - 1 /\ i - 1 \in 0 .. j - 1
      BY <1>1
    <3> HIDE DEF n
    <3> QED  BY <3>1, <1>2 DEF SumsUpTo
  <2>2. \A i \in 1 .. j - 1 : s[i] = t[i]
    BY <1>1
  <2>3. j - 1 \in 0 .. n /\ j - 1 \in 0 .. j - 1
    BY <1>1
  <2>4. [i \in 0 .. j - 1 |-> g[i]][j - 1] = h[j - 1]
    <3> HIDE DEF n
    <3> QED  BY <2>1, <2>2, <2>3, <1>1, <1>3, SumsUnique
  <2> QED  BY <2>3, <2>4
<1> DEFINE d == t[j] - s[j]
           Bad == {i \in j .. n : h[i] # (g[i] + d) % 256}
<1>5. Bad = {}
  <2> SUFFICES ASSUME Bad # {} PROVE FALSE
    OBVIOUS
  <2>1. PICK i \in Bad : \A k \in Bad : i <= k
    <3>1. Bad \subseteq Nat
      OBVIOUS
    <3> QED  BY <3>1, LeastNatural
  <2>2. i \in 1 .. n /\ i \in j .. n /\ h[i] # (g[i] + d) % 256
    BY <1>1
  <2>3. /\ g[i] = (g[i - 1] + s[i]) % 256
        /\ h[i] = (h[i - 1] + t[i]) % 256
    BY <2>2, <1>2, <1>3 DEF SumsUpTo
  <2>4. /\ g[i - 1] \in Byte /\ h[i - 1] \in Byte
        /\ s[i] \in Byte /\ t[i] \in Byte
    BY <2>2, <1>1, <1>2, <1>3 DEF SumsUpTo
  <2>5. /\ d \in Int /\ s[j] \in Int /\ t[j] = s[j] + d
        /\ g[i - 1] \in Int /\ s[i] \in Int
    <3>1. s[j] \in Int /\ t[j] \in Int /\ g[i - 1] \in Int /\ s[i] \in Int
      BY <1>1, <2>4, ByteIsInt
    <3>2. \A x, y \in Int : y - x \in Int /\ y = x + (y - x)
      OBVIOUS
    <3> QED  BY <3>1, <3>2
  <2>6. CASE i = j
    <3>1. h[i] = (g[i - 1] + (s[i] + d)) % 256
      BY <2>3, <2>5, <2>6, <1>4
    <3> HIDE DEF d
    <3> QED  BY <3>1, <2>2, <2>3, <2>5, ModShift
  <2>7. CASE i # j
    <3>1. i - 1 \in j .. n /\ i - 1 \notin Bad
      BY <2>1, <2>2, <2>7, <1>1
    <3>2. h[i - 1] = (g[i - 1] + d) % 256
      BY <3>1
    <3>3. s[i] = t[i]
      BY <2>2, <2>7
    <3> HIDE DEF d
    <3> QED  BY <3>2, <3>3, <2>2, <2>3, <2>5, ModShift
  <2> QED  BY <2>6, <2>7
<1>6. n \in j .. n
  BY <1>1
<1>7. h[n] = (g[n] + d) % 256
  BY <1>5, <1>6
<1> QED  BY <1>2, <1>3, <1>7

-----------------------------------------------------------------------------
(* The packets.                                                            *)

\* What calculatePacketCrc reads of a packet of which n bytes stand before
\* the tail.
LEMMA SubSeqAgree ==
  ASSUME NEW s \in Seq(Byte), NEW t \in Seq(Byte),
         NEW m \in Nat, NEW n \in Nat, 1 <= m, m <= n + 1,
         n <= Len(s), n <= Len(t), \A i \in m .. n : s[i] = t[i]
  PROVE  /\ SubSeq(s, m, n) \in Seq(Byte)
         /\ Len(SubSeq(s, m, n)) = n - m + 1
         /\ \A i \in 1 .. n - m + 1 : SubSeq(s, m, n)[i] = s[m - 1 + i]
         /\ SubSeq(s, m, n) = SubSeq(t, m, n)
OBVIOUS

\* A field of two bytes.
LEMMA PairAt ==
  ASSUME NEW p \in Seq(Byte), NEW k \in Nat, NEW l, l = k + 1, 1 <= k, l <= Len(p)
  PROVE  SubSeq(p, k, l) = <<p[k], p[l]>>
<1> DEFINE q == SubSeq(p, k, l)
<1>1. q \in Seq(Byte) /\ Len(q) = 2 /\ q[1] = p[k] /\ q[2] = p[l]
  OBVIOUS
<1> HIDE DEF q
<1>2. q = <<q[1], q[2]>>
  BY <1>1
<1> QED  BY <1>1, <1>2 DEF q

LEMMA AppendedByte ==
  ASSUME NEW s \in Seq(Byte), NEW x \in Byte
  PROVE  /\ Append(s, x) \in Seq(Byte)
         /\ Len(Append(s, x)) = Len(s) + 1
         /\ Append(s, x)[Len(s) + 1] = x
         /\ \A i \in 1 .. Len(s) : Append(s, x)[i] = s[i]
OBVIOUS

LEMMA SubSeqAppended ==
  ASSUME NEW s \in Seq(Byte), NEW x \in Byte, NEW m \in Nat, 1 <= m, m <= Len(s)
  PROVE  /\ SubSeq(s, m, Len(s)) \in Seq(Byte)
         /\ SubSeq(Append(s, x), m, Len(s) + 1) = Append(SubSeq(s, m, Len(s)), x)
<1> DEFINE n == Len(s)
           l == SubSeq(Append(s, x), m, n + 1)
           q == SubSeq(s, m, n)
           r == Append(q, x)
<1>1. n \in Nat
  OBVIOUS
<1>2. /\ Append(s, x) \in Seq(Byte) /\ Len(Append(s, x)) = n + 1
      /\ Append(s, x)[n + 1] = x /\ \A i \in 1 .. n : Append(s, x)[i] = s[i]
  BY AppendedByte
<1>3. q \in Seq(Byte) /\ Len(q) = n - m + 1 /\ \A i \in 1 .. n - m + 1 : q[i] = s[m - 1 + i]
  BY <1>1
<1>4. /\ l \in Seq(Byte) /\ Len(l) = n - m + 2
      /\ \A i \in 1 .. n - m + 2 : l[i] = Append(s, x)[m - 1 + i]
  BY <1>1, <1>2
<1>5. /\ r \in Seq(Byte) /\ Len(r) = n - m + 2 /\ r[n - m + 2] = x
      /\ \A i \in 1 .. n - m + 1 : r[i] = q[i]
  BY <1>1, <1>3
<1> HIDE DEF n, l, q, r
<1>6. \A i \in 1 .. n - m + 2 : l[i] = r[i]
  <2> TAKE i \in 1 .. n - m + 2
  <2>1. CASE i = n - m + 2
    <3>1. m - 1 + i = n + 1
      BY <2>1, <1>1
    <3> QED  BY <2>1, <3>1, <1>2, <1>4, <1>5
  <2>2. CASE i # n - m + 2
    <3>1. i \in 1 .. n - m + 1 /\ m - 1 + i \in 1 .. n
      BY <2>2, <1>1 DEF n
    <3> QED  BY <3>1, <1>2, <1>3, <1>4, <1>5
  <2> QED  BY <2>1, <2>2
<1>7. l = r
  BY <1>1, <1>4, <1>5, <1>6
<1> QED  BY <1>3, <1>7 DEF n, l, q, r

LEMMA Prefix ==
  ASSUME NEW s \in Seq(Byte), NEW n \in Nat, n <= Len(s)
  PROVE  /\ SubSeq(s, 1, n) \in Seq(Byte)
         /\ Len(SubSeq(s, 1, n)) = n
         /\ \A i \in 1 .. n : SubSeq(s, 1, n)[i] = s[i]
OBVIOUS

LEMMA Appended ==
  ASSUME NEW s \in Seq(Byte), NEW t \in Seq(Byte)
  PROVE  /\ s \o t \in Seq(Byte)
         /\ Len(s \o t) = Len(s) + Len(t)
         /\ \A i \in 1 .. Len(s) : (s \o t)[i] = s[i]
OBVIOUS

\* WithTail keeps the header and the payload, and its checksum is the one
\* checkPacketCrc compares with.
LEMMA TailBytes ==
  ASSUME NEW h \in Seq(Byte), Len(h) >= HEADER
  PROVE  LET p == WithTail(h)
             n == Len(h)
         IN /\ p \in Seq(Byte)
            /\ Len(p) = n + TAIL
            /\ \A i \in 1 .. n : p[i] = h[i]
            /\ p[n + 1] = Crc(ByteSum(SubSeq(h, CRC_START_POINT + 1, n)))
            /\ p[n + 2] = 255 /\ p[n + 3] = 255
            /\ checkPacketCrc(p, n + TAIL)
<1> DEFINE n == Len(h)
           from == CRC_START_POINT + 1
           zeroed == h \o <<0, 0, 0>>
           crc == Crc(ByteSum(SubSeq(h, from, n)))
           p == h \o <<crc>> \o PACKET_ETX
<1>1. n \in Nat /\ n >= 11 /\ from \in Nat /\ from >= 1 /\ from <= n + 1
  BY DEF HEADER, CRC_START_POINT
<1> HIDE DEF from
<1>2. zeroed \in Seq(Byte) /\ Len(zeroed) = n + 3 /\ \A i \in 1 .. n : zeroed[i] = h[i]
  <2>1. <<0, 0, 0>> \in Seq(Byte)
    BY AddByte
  <2> QED  BY <2>1
<1>3. SubSeq(h, from, n) \in Seq(Byte) /\ SubSeq(zeroed, from, n) = SubSeq(h, from, n)
  <2> HIDE DEF zeroed
  <2> QED  BY <1>1, <1>2, SubSeqAgree
<1>4. crc \in Byte
  <2>1. crc \in 0 .. 254
    BY <1>3, CrcType
  <2> HIDE DEF crc
  <2> QED  BY <2>1 DEF Byte
<1>5. calculatePacketCrc(zeroed, Len(zeroed)) = crc
  <2>1. Len(zeroed) - 3 = n
    BY <1>1, <1>2
  <2> QED  BY <1>3, <2>1 DEF calculatePacketCrc, EXCLUDING_CRC_POINT, from
<1>6. WithTail(h) = p
  BY <1>5 DEF WithTail
<1>7. /\ p \in Seq(Byte) /\ Len(p) = n + 3 /\ \A i \in 1 .. n : p[i] = h[i]
      /\ p[n + 1] = crc /\ p[n + 2] = 255 /\ p[n + 3] = 255
  <2> HIDE DEF crc
  <2>1. 255 \in Byte
    BY DEF Byte
  <2> QED  BY <1>1, <1>4, <2>1 DEF PACKET_ETX
<1>8. SubSeq(p, from, n) = SubSeq(h, from, n)
  <2> HIDE DEF p
  <2> QED  BY <1>1, <1>7, SubSeqAgree
<1>9. checkPacketCrc(p, n + 3)
  <2>1. (n + 3) - 3 = n /\ (n + 3) - 3 + 1 = n + 1
    BY <1>1
  <2>2. calculatePacketCrc(p, n + 3) = crc
    <3> HIDE DEF p
    <3> QED  BY <1>8, <2>1 DEF calculatePacketCrc, EXCLUDING_CRC_POINT, from
  <2> HIDE DEF p, crc
  <2> QED  BY <1>7, <2>1, <2>2 DEF checkPacketCrc, EXCLUDING_CRC_POINT
<1> HIDE DEF p
<1> QED  BY <1>6, <1>7, <1>9 DEF TAIL, from

\* The eleven bytes of a header whose length fits a byte.
IsHeader(h, len, src, dst, cmd) ==
  /\ h \in Seq(Byte) /\ Len(h) = HEADER
  /\ h[1] = 240 /\ h[2] = 240
  /\ h[3] = len /\ h[4] = 0 /\ h[5] = 0 /\ h[6] = 0
  /\ h[7] = src /\ h[8] = dst /\ h[9] = 0
  /\ h[10] = cmd % 256 /\ h[11] = (cmd \div 256) % 256

LEMMA HeaderBytes ==
  ASSUME NEW len \in Byte, NEW src \in Byte, NEW dst \in Byte,
         NEW cmd \in Int
  PROVE  IsHeader(Header(len, src, dst, cmd), len, src, dst, cmd)
<1> DEFINE lo == cmd % 256
           hi == (cmd \div 256) % 256
<1>0. Byte = 0 .. 255
  BY DEF Byte
<1>1. lo \in Byte /\ hi \in Byte
  <2>1. cmd \in Int
    OBVIOUS
  <2> QED  BY <2>1, ShortBytes
<1>2. len % 256 = len /\ (len \div 256) % 256 = 0
  BY <1>0, SmallShort
<1>5. Header(len, src, dst, cmd) =
        <<240, 240>> \o (<<len, 0>> \o <<0, 0>>) \o <<src, dst, 0>> \o <<lo, hi>>
  <2>1. Le32(len) = <<len, 0>> \o <<0, 0>>
    BY <1>2, Zenon DEF Le32, Le16
  <2>2. Le16(cmd) = <<lo, hi>>
    BY Zenon DEF Le16
  <2> QED  BY <2>1, <2>2, Zenon DEF Header, PACKET_STX
<1> HIDE DEF lo, hi
<1>6. /\ <<240, 240>> \in Seq(Byte) /\ <<len, 0>> \in Seq(Byte)
      /\ <<0, 0>> \in Seq(Byte) /\ <<src, dst, 0>> \in Seq(Byte)
      /\ <<lo, hi>> \in Seq(Byte)
  <2>1. 240 \in Byte
    BY DEF Byte
  <2> QED  BY <1>1, <2>1, AddByte
<1> DEFINE h == <<240, 240>> \o (<<len, 0>> \o <<0, 0>>) \o <<src, dst, 0>>
                \o <<lo, hi>>
<1>7. /\ h \in Seq(Byte) /\ Len(h) = 11
      /\ h[1] = 240 /\ h[2] = 240
      /\ h[3] = len /\ h[4] = 0 /\ h[5] = 0 /\ h[6] = 0
      /\ h[7] = src /\ h[8] = dst /\ h[9] = 0
      /\ h[10] = lo /\ h[11] = hi
  BY <1>6
<1> HIDE DEF h
<1>8. Header(len, src, dst, cmd) = h
  BY <1>5 DEF h
<1> QED  BY <1>7, <1>8 DEF IsHeader, HEADER, lo, hi

\* The length field, of four bytes: what a request and a response put there,
\* and the two STX bytes in its upper half.
LEMMA LengthBytes ==
  ASSUME NEW p \in Seq(Byte), Len(p) >= HEADER
  PROVE  /\ iLength(p) \in Int /\ iLength(p) <= MaxInt
         /\ 0 <= iLength(p) + MaxInt + 1
         /\ p[4] = 0 /\ p[5] = 0 /\ p[6] = 0 => iLength(p) = p[3]
         /\ iLength(p) = 1 => p[3] = 1 /\ p[4] = 0 /\ p[5] = 0 /\ p[6] = 0
         /\ p[5] = 240 /\ p[6] = 240 => iLength(p) < 0 - TAIL
<1>1. Len(p) >= 11 /\ Len(p) \in Nat
  BY DEF HEADER
<1>2. p[3] \in Byte /\ p[4] \in Byte /\ p[5] \in Byte /\ p[6] \in Byte
  BY <1>1
<1>3. Byte = 0 .. 255
  BY DEF Byte
<1>4. iLength(p) = p[3] + 256 * p[4] + 65536 * p[5]
                   + 16777216 * (IF p[6] >= 128 THEN p[6] - 256 ELSE p[6])
  BY SMT DEF iLength, IntAt, Signed
<1>5. PICK a \in 0 .. 255, b \in 0 .. 255, c \in 0 .. 255, d \in 0 .. 255 :
        p[3] = a /\ p[4] = b /\ p[5] = c /\ p[6] = d
  BY <1>2, <1>3
<1>6. CASE d >= 128
  <2>1. iLength(p) = a + 256 * b + 65536 * c + 16777216 * (d - 256)
    BY <1>4, <1>5, <1>6, SMT
  <2>2. /\ iLength(p) \in Int /\ iLength(p) <= MaxInt
        /\ 0 <= iLength(p) + MaxInt + 1
        /\ iLength(p) < 0 - TAIL \/ c # 240 \/ d # 240
        /\ iLength(p) # 1
    BY ONLY <1>6, <2>1, SMT DEF MaxInt, TAIL
  <2> QED  BY <1>5, <1>6, <2>2
<1>7. CASE d < 128
  <2>1. iLength(p) = a + 256 * b + 65536 * c + 16777216 * d
    BY <1>4, <1>5, <1>7, SMT
  <2>2. /\ iLength(p) \in Int /\ iLength(p) <= MaxInt
        /\ 0 <= iLength(p) + MaxInt + 1
        /\ b = 0 /\ c = 0 /\ d = 0 => iLength(p) = a
        /\ iLength(p) = 1 => a = 1 /\ b = 0 /\ c = 0 /\ d = 0
    BY ONLY <1>7, <2>1, SMT DEF MaxInt
  <2> QED  BY <1>5, <1>7, <2>2
<1> QED  BY <1>6, <1>7

\* The upper half of a length field that a chunk in a buffer can have.
LEMMA ShortLength ==
  ASSUME NEW p \in Seq(Byte), Len(p) >= HEADER, iLength(p) \in -3 .. 1010
  PROVE  \/ p[5] = 0 /\ p[6] = 0
         \/ p[5] = 255 /\ p[6] = 255
<1>1. Len(p) >= 11 /\ Len(p) \in Nat
  BY DEF HEADER
<1>2. p[3] \in Byte /\ p[4] \in Byte /\ p[5] \in Byte /\ p[6] \in Byte
  BY <1>1
<1>3. iLength(p) = p[3] + 256 * p[4] + 65536 * p[5]
                   + 16777216 * (IF p[6] >= 128 THEN p[6] - 256 ELSE p[6])
  BY SMT DEF iLength, IntAt, Signed
<1>4. PICK a \in 0 .. 255, b \in 0 .. 255, c \in 0 .. 255, d \in 0 .. 255 :
        p[3] = a /\ p[4] = b /\ p[5] = c /\ p[6] = d
  BY <1>2 DEF Byte
<1>5. CASE d >= 128
  <2>1. iLength(p) = a + 256 * b + 65536 * c + 16777216 * (d - 256)
    BY <1>3, <1>4, <1>5, SMT
  <2>2. PICK l \in -3 .. 1010 : l = a + 256 * b + 65536 * c + 16777216 * (d - 256)
    BY <2>1
  <2>3. c = 255 /\ d = 255
    BY ONLY <2>2, <1>5, SMT
  <2> QED  BY <1>4, <2>3
<1>6. CASE d < 128
  <2>1. iLength(p) = a + 256 * b + 65536 * c + 16777216 * d
    BY <1>3, <1>4, <1>6, SMT
  <2>2. PICK l \in -3 .. 1010 : l = a + 256 * b + 65536 * c + 16777216 * d
    BY <2>1
  <2>3. c = 0 /\ d = 0
    BY ONLY <2>2, <1>6, SMT
  <2> QED  BY <1>4, <2>3
<1> QED  BY <1>5, <1>6

\* Whatever the length field, getTotalRecvSize returns an int: the size the
\* field stands for, or a negative number if that is beyond the largest int.
THEOREM TotalSize ==
  ASSUME NEW p \in Seq(Byte), Len(p) >= HEADER, NEW n \in Int, n >= HEADER
  PROVE  LET total == getTotalRecvSize(p, n)
             exact == HEADER + iLength(p) + TAIL
         IN /\ total \in Int /\ 0 <= total + MaxInt + 1 /\ total <= MaxInt
            /\ exact <= MaxInt => total = exact
            /\ exact > MaxInt => total < 0
<1>1. iLength(p) \in Int /\ iLength(p) <= MaxInt /\ 0 <= iLength(p) + MaxInt + 1
  BY LengthBytes
<1>2. getTotalRecvSize(p, n) =
        IF iLength(p) <= MaxInt - (HEADER + TAIL)
        THEN HEADER + iLength(p) + TAIL
        ELSE ((iLength(p) - MaxInt - 1) + HEADER + TAIL) - MaxInt - 1
  BY <1>1 DEF getTotalRecvSize, HEADER
<1>3. PICK l \in Int, total \in Int :
        /\ l = iLength(p) /\ total = getTotalRecvSize(p, n)
        /\ l <= MaxInt /\ 0 <= l + MaxInt + 1
        /\ l <= MaxInt - 14 => total = l + 14
        /\ l > MaxInt - 14 => total = ((l - MaxInt - 1) + 14) - MaxInt - 1
  BY <1>1, <1>2, SMT DEF HEADER, TAIL, MaxInt
<1>4. /\ 0 <= total + MaxInt + 1 /\ total <= MaxInt
      /\ l + 14 <= MaxInt => total = l + 14
      /\ l + 14 > MaxInt => total < 0
  BY ONLY <1>3, SMT DEF MaxInt
<1> QED  BY <1>3, <1>4, SMT DEF HEADER, TAIL, MaxInt

\* A chunk is complete if its size is what its length field says; a length so
\* large that the total wraps to a negative number never makes it so.
LEMMA CompleteSize ==
  ASSUME NEW p \in Seq(Byte)
  PROVE  /\ IsComplete(p) => Len(p) >= HEADER /\ Len(p) = HEADER + iLength(p) + TAIL
         /\ Len(p) \in HEADER .. MaxInt /\ Len(p) = HEADER + iLength(p) + TAIL
              => IsComplete(p)
<1>1. CASE Len(p) < HEADER
  BY <1>1 DEF IsComplete, getTotalRecvSize, HEADER
<1>2. CASE Len(p) >= HEADER
  <2>1. iLength(p) \in Int /\ iLength(p) <= MaxInt /\ Len(p) \in Nat
    BY <1>2, LengthBytes
  <2>2. getTotalRecvSize(p, Len(p)) =
          IF iLength(p) <= MaxInt - (HEADER + TAIL)
          THEN HEADER + iLength(p) + TAIL
          ELSE ((iLength(p) - MaxInt - 1) + HEADER + TAIL) - MaxInt - 1
    BY <1>2, <2>1 DEF getTotalRecvSize, HEADER
  <2>3. CASE iLength(p) <= MaxInt - (HEADER + TAIL)
    BY <1>2, <2>1, <2>2, <2>3 DEF IsComplete, HEADER, TAIL
  <2>4. CASE iLength(p) > MaxInt - (HEADER + TAIL)
    <3>1. getTotalRecvSize(p, Len(p)) < 0
      BY <2>1, <2>2, <2>4, SMT DEF HEADER, TAIL, MaxInt
    <3>2. Len(p) = HEADER + iLength(p) + TAIL => Len(p) > MaxInt
      BY <2>1, <2>4, SMT DEF HEADER, TAIL, MaxInt
    <3> QED  BY <3>1, <3>2, <2>1, SMT DEF IsComplete, MaxInt
  <2>5. \/ iLength(p) <= MaxInt - (HEADER + TAIL)
        \/ iLength(p) > MaxInt - (HEADER + TAIL)
    BY <2>1, SMT DEF HEADER, TAIL, MaxInt
  <2> QED  BY <2>3, <2>4, <2>5
<1>3. Len(p) \in Nat
  OBVIOUS
<1> QED  BY <1>1, <1>2, <1>3 DEF HEADER

LEMMA SizesFit == \A n \in 11 .. 38 : n \in HEADER .. MaxInt
<1>1. MaxInt \in Int /\ 38 <= MaxInt
  BY SMT DEF MaxInt
<1>2. HEADER = 11
  BY DEF HEADER
<1> QED  BY <1>1, <1>2

\* What a packet must have for its format status to be PACKET_FORMAT_OK.
LEMMA FormatOk ==
  ASSUME NEW p \in Seq(Byte), NEW id
  PROVE  checkPacketFormat(p, id, Len(p)) = PACKET_FORMAT_OK
         <=> /\ IsComplete(p)
             /\ p[1] = 240 /\ p[2] = 240
             /\ p[8] = id.dst
             /\ checkPacketCrc(p, Len(p))
             /\ p[Len(p) - 1] = 255 /\ p[Len(p)] = 255
<1>1. CASE ~ IsComplete(p)
  BY <1>1 DEF checkPacketFormat, IsComplete, PACKET_FORMAT_OK
<1>2. CASE IsComplete(p)
  <2>1. Len(p) \in Nat /\ Len(p) >= 11 /\ Len(p) = 11 + iLength(p) + 3
    BY <1>2, CompleteSize DEF HEADER, TAIL
  <2>2. iLength(p) \in Int
    BY <2>1, LengthBytes DEF HEADER
  <2> DEFINE n == Len(p)
             tail == HEADER + iLength(p)
  <2>3. tail + 2 = n - 1 /\ tail + 3 = n
    BY <2>1, <2>2 DEF HEADER
  <2>4. SubSeq(p, 1, 2) = PACKET_STX <=> p[1] = 240 /\ p[2] = 240
    <3>1. SubSeq(p, 1, 2) = <<p[1], p[2]>>
      BY <2>1, PairAt
    <3> QED  BY <3>1 DEF PACKET_STX
  <2>5. SubSeq(p, tail + 2, tail + 3) = PACKET_ETX <=> p[n - 1] = 255 /\ p[n] = 255
    <3>1. n - 1 \in Nat /\ n = (n - 1) + 1 /\ 1 <= n - 1 /\ n <= Len(p)
      BY <2>1
    <3> HIDE DEF tail, n
    <3>2. SubSeq(p, n - 1, n) = <<p[n - 1], p[n]>>
      BY <3>1, PairAt
    <3> QED  BY <3>2, <2>3 DEF PACKET_ETX
  <2>6. checkPacketFormat(p, id, n) =
          {e \in {"STX", "DST", "CRC", "ETX"} :
             CASE e = "STX" -> SubSeq(p, 1, 2) # PACKET_STX
               [] e = "DST" -> p[8] # id.dst
               [] e = "CRC" -> ~ checkPacketCrc(p, n)
               [] e = "ETX" -> SubSeq(p, tail + 2, tail + 3) # PACKET_ETX}
    BY <1>2, Zenon DEF checkPacketFormat, IsComplete
  <2>7. checkPacketFormat(p, id, n) = {}
        <=> /\ SubSeq(p, 1, 2) = PACKET_STX
            /\ p[8] = id.dst
            /\ checkPacketCrc(p, n)
            /\ SubSeq(p, tail + 2, tail + 3) = PACKET_ETX
    <3> HIDE DEF tail, n
    <3> QED  BY <2>6
  <2> HIDE DEF tail, n
  <2> QED  BY <1>2, <2>4, <2>5, <2>7 DEF PACKET_FORMAT_OK, n
<1> QED  BY <1>1, <1>2

\* What a handler leaves in the response has the size of its command.
LEMMA DispatchBytes ==
  ASSUME NEW n, n \notin SENSOR_COMMANDS
  PROVE  /\ getSendCmdSize(n) \in 0 .. 24
         /\ dispatchCommand(n) \in Seq(Byte)
         /\ Len(dispatchCommand(n)) = getSendCmdSize(n)
<1>1. getSendCmdSize(n) \in 0 .. 24
  BY DEF getSendCmdSize, UdsSize
<1>2. 0 \in Byte /\ 1 \in Byte
  <2>1. 1 \in Byte
    BY DEF Byte
  <2> QED  BY <2>1, AddByte
<1>3. CASE n = CMD_KEEP_ALIVE
  <2>1. dispatchCommand(n) = <<1>>
    BY <1>3 DEF dispatchCommand, BIT_COMMANDS, CMD_KEEP_ALIVE, CMD_IBIT,
                CMD_RBIT, CMD_CBIT
  <2>2. getSendCmdSize(n) = 1
    BY <1>3 DEF getSendCmdSize, BIT_COMMANDS, CMD_KEEP_ALIVE, CMD_IBIT,
                CMD_RBIT, CMD_CBIT
  <2> QED  BY <1>1, <1>2, <2>1, <2>2
<1>4. CASE n # CMD_KEEP_ALIVE /\ n \in BIT_COMMANDS
  <2>1. dispatchCommand(n) = <<1, 1>>
    <3>1. ~ (n \notin {CMD_KEEP_ALIVE} \cup BIT_COMMANDS \cup SENSOR_COMMANDS)
      BY <1>4
    <3> QED  BY <1>4, <3>1, Zenon DEF dispatchCommand
  <2>2. getSendCmdSize(n) = 2
    BY <1>4 DEF getSendCmdSize
  <2> QED  BY <1>1, <1>2, <2>1, <2>2
<1>5. CASE n # CMD_KEEP_ALIVE /\ n \notin BIT_COMMANDS
  <2>1. dispatchCommand(n) = [i \in 1 .. getSendCmdSize(n) |-> 0]
    <3>1. n \notin {CMD_KEEP_ALIVE} \cup BIT_COMMANDS \cup SENSOR_COMMANDS
      BY <1>5
    <3> QED  BY <1>5, <3>1, Zenon DEF dispatchCommand
  <2> DEFINE k == getSendCmdSize(n)
             zeros == [i \in 1 .. k |-> 0]
  <2> HIDE DEF k
  <2>2. k \in Nat
    BY <1>1 DEF k
  <2>3. zeros \in Seq(Byte) /\ Len(zeros) = k
    BY <1>2, <2>2
  <2> QED  BY <1>1, <2>1, <2>3 DEF k
<1> QED  BY <1>3, <1>4, <1>5

\* The command of a header, written as a short and read as a short.
LEMMA CommandRoundTrip ==
  ASSUME NEW p \in Seq(Byte), Len(p) >= HEADER
  PROVE  /\ nCmd(p) \in Int
         /\ nCmd(p) % 256 = p[10]
         /\ (nCmd(p) \div 256) % 256 = p[11]
<1>1. Len(p) >= 11 /\ Len(p) \in Nat
  BY DEF HEADER
<1>2. p[10] \in Byte /\ p[11] \in Byte
  BY <1>1
<1>3. Byte = 0 .. 255
  BY DEF Byte
<1>4. nCmd(p) = p[10] + 256 * (IF p[11] >= 128 THEN p[11] - 256 ELSE p[11])
  BY DEF nCmd, ShortAt, Signed
<1>5. PICK a \in 0 .. 255, b \in 0 .. 255 : p[10] = a /\ p[11] = b
  BY <1>2, <1>3
<1>6. CASE b >= 128
  <2>1. nCmd(p) = a + 256 * (b - 256)
    BY <1>4, <1>5, <1>6
  <2>2. (a + 256 * (b - 256)) % 256 = a
    OBVIOUS
  <2>3. (a + 256 * (b - 256)) \div 256 = b - 256
    OBVIOUS
  <2>4. (b - 256) % 256 = b
    OBVIOUS
  <2> QED  BY <1>5, <2>1, <2>2, <2>3, <2>4
<1>7. CASE b < 128
  <2>1. nCmd(p) = a + 256 * b
    BY <1>4, <1>5, <1>7
  <2>2. (a + 256 * b) % 256 = a
    OBVIOUS
  <2>3. (a + 256 * b) \div 256 = b
    OBVIOUS
  <2>4. b % 256 = b
    OBVIOUS
  <2> QED  BY <1>5, <2>1, <2>2, <2>3, <2>4
<1> QED  BY <1>6, <1>7

\* The bytes of a sensor command.
LEMMA SensorBytes ==
  ASSUME NEW p \in Seq(Byte), Len(p) >= HEADER, nCmd(p) \in SENSOR_COMMANDS
  PROVE  p[10] \in SENSOR_COMMANDS /\ p[11] = 0 /\ p[10] \in 100 .. 103
<1>1. nCmd(p) % 256 = p[10] /\ (nCmd(p) \div 256) % 256 = p[11]
  BY CommandRoundTrip
<1>2. SENSOR_COMMANDS = {100, 101, 102, 103}
  BY DEF SENSOR_COMMANDS, UDS2_EXTERN1_DATA, UDS2_EXTERN2_DATA, UDS2_EXTERN3_DATA,
         UDS2_EXTERN4_DATA
<1>3. PICK n \in 0 .. 255 : n = nCmd(p) /\ n \in 100 .. 103
  BY <1>2
<1>4. p[10] = n /\ p[11] = 0
  BY <1>1, <1>3, SmallShort
<1> QED  BY <1>2, <1>3, <1>4

-----------------------------------------------------------------------------
(* The response.                                                           *)

ClientId == [src |-> MY_TCP_ID, dst |-> CTRL_PC_ID]

\* The response to any chunk with a header, but for one that names a sensor
\* command, is a packet its client accepts, for the command of that header.
LEMMA ResponseAccepted ==
  ASSUME NEW p \in Seq(Byte), Len(p) >= HEADER, nCmd(p) \notin SENSOR_COMMANDS
  PROVE  LET r == makeSendPacket(nCmd(p), stMsgId, dispatchCommand(nCmd(p)))
         IN /\ r \in Seq(Byte)
            /\ checkPacketFormat(r, ClientId, Len(r)) = PACKET_FORMAT_OK
            /\ nCmd(r) = nCmd(p)
<1> DEFINE n == nCmd(p)
           size == getSendCmdSize(n)
           payload == dispatchCommand(n)
           head == Header(size, MY_TCP_ID, CTRL_PC_ID, n)
           h == head \o payload
           r == WithTail(h)
<1>1. n \in Int /\ n % 256 = p[10] /\ (n \div 256) % 256 = p[11]
  BY CommandRoundTrip
<1>2. size \in 0 .. 24 /\ payload \in Seq(Byte) /\ Len(payload) = size
  <2>1. n \notin SENSOR_COMMANDS
    OBVIOUS
  <2> HIDE DEF n
  <2> QED  BY <2>1, DispatchBytes
<1>3. makeSendPacket(n, stMsgId, payload) = r
  BY Zenon DEF makeSendPacket, stMsgId
<1> HIDE DEF n, size, payload
<1>4. /\ head \in Seq(Byte) /\ Len(head) = HEADER
      /\ head[1] = 240 /\ head[2] = 240
      /\ head[3] = size /\ head[4] = 0 /\ head[5] = 0 /\ head[6] = 0
      /\ head[7] = MY_TCP_ID /\ head[8] = CTRL_PC_ID /\ head[9] = 0
      /\ head[10] = n % 256 /\ head[11] = (n \div 256) % 256
  <2>1. size \in Byte
    BY <1>2 DEF Byte
  <2>2. MY_TCP_ID \in Byte /\ CTRL_PC_ID \in Byte
    BY DEF Byte, MY_TCP_ID, CTRL_PC_ID
  <2>3. IsHeader(head, size, MY_TCP_ID, CTRL_PC_ID, n)
    BY <2>1, <2>2, <1>1, HeaderBytes
  <2> HIDE DEF head
  <2> QED  BY <2>3 DEF IsHeader
<1> HIDE DEF head
<1>5. /\ h \in Seq(Byte)
      /\ Len(h) = Len(head) + Len(payload)
      /\ \A i \in 1 .. Len(head) : h[i] = head[i]
  <2>1. head \in Seq(Byte) /\ payload \in Seq(Byte)
    BY <1>2, <1>4
  <2> QED  BY ONLY <2>1, Appended, Zenon
<1> HIDE DEF h
<1>6. Len(h) = 11 + size /\ Len(h) >= HEADER /\ Len(head) = 11
  BY <1>2, <1>4, <1>5 DEF HEADER
<1>7. /\ r \in Seq(Byte)
      /\ Len(r) = Len(h) + TAIL
      /\ \A i \in 1 .. Len(h) : r[i] = h[i]
      /\ r[Len(h) + 2] = 255 /\ r[Len(h) + 3] = 255
      /\ checkPacketCrc(r, Len(h) + TAIL)
  BY ONLY <1>5, <1>6, TailBytes, Zenon
<1> HIDE DEF r
<1>8. Len(r) = 14 + size /\ Len(r) \in Nat
  BY <1>2, <1>6, <1>7 DEF TAIL
<1>9. r[13 + size] = 255 /\ r[14 + size] = 255
  <2>1. Len(h) + 2 = 13 + size /\ Len(h) + 3 = 14 + size
    BY <1>2, <1>6
  <2> QED  BY <1>7, <2>1
<1>10. checkPacketCrc(r, Len(r))
  BY <1>7
<1>11. \A i \in 1 .. 11 : r[i] = head[i]
  <2>1. \A i \in 1 .. 11 : i \in 1 .. Len(h)
    BY <1>2, <1>6
  <2> QED  BY <1>5, <1>6, <1>7, <2>1
<1>12. /\ r[1] = 240 /\ r[2] = 240 /\ r[3] = size
       /\ r[4] = 0 /\ r[5] = 0 /\ r[6] = 0 /\ r[8] = CTRL_PC_ID
       /\ r[10] = p[10] /\ r[11] = p[11]
  BY <1>1, <1>4, <1>11
<1>13. Len(r) \in HEADER .. MaxInt /\ Len(r) >= HEADER
  <2>1. Len(r) \in 11 .. 38
    BY <1>2, <1>8
  <2>2. Len(r) >= HEADER
    BY <1>2, <1>8 DEF HEADER
  <2> QED  BY <2>1, <2>2, SizesFit
<1>14. iLength(r) = size
  BY <1>7, <1>12, <1>13, LengthBytes
<1>15. IsComplete(r)
  <2>1. Len(r) = HEADER + iLength(r) + TAIL
    BY <1>2, <1>8, <1>14 DEF HEADER, TAIL
  <2> QED  BY <1>7, <1>13, <2>1, CompleteSize, Zenon
<1>16. checkPacketFormat(r, ClientId, Len(r)) = PACKET_FORMAT_OK
  <2>1. Len(r) - 1 = 13 + size
    BY <1>2, <1>8
  <2>2. r[Len(r) - 1] = 255 /\ r[Len(r)] = 255
    BY <2>1, <1>8, <1>9
  <2>3. r[8] = ClientId.dst
    BY <1>12 DEF ClientId
  <2> QED  BY <1>7, <1>10, <1>12, <1>15, <2>2, <2>3, FormatOk, Zenon
<1>17. nCmd(r) = nCmd(p)
  BY <1>12 DEF nCmd, ShortAt
<1> QED  BY <1>3, <1>7, <1>16, <1>17 DEF n, payload

-----------------------------------------------------------------------------
(* The requests.                                                           *)

\* What calculatePacketCrc makes of the ids, the command and the payload.
RequestCrc(p) == Crc(ByteSum(SubSeq(p, CRC_START_POINT + 1, HEADER + 1)))

RequestHead(p) ==
  /\ p[1] = 240 /\ p[2] = 240
  /\ p[3] = 1 /\ p[4] = 0 /\ p[5] = 0 /\ p[6] = 0
  /\ p[7] = CTRL_PC_ID /\ p[8] = MY_TCP_ID /\ p[9] = 0
  /\ p[10] \in 0 .. 3 /\ p[11] = 0

\* A request as documented ends in checksum and ETX.
Documented(p) == p[13] = RequestCrc(p) /\ p[14] = 255 /\ p[15] = 255

\* One of makeRecvPacket with a gap before the tail lacks the last byte.
CutShort(p) == p[13] = 0 /\ p[14] = RequestCrc(p) /\ p[15] = 255

IsRequest(p, kind) ==
  /\ p \in Seq(Byte) /\ Len(p) = REQUEST_SIZE
  /\ RequestHead(p)
  /\ kind = "pc" \/ p[10] = CMD_KEEP_ALIVE => Documented(p)
  /\ kind # "pc" /\ p[10] # CMD_KEEP_ALIVE => CutShort(p)

\* The header and the payload of a request.
Headed(cmd, b) == Header(1, CTRL_PC_ID, MY_TCP_ID, cmd) \o <<b>>

IsHeaded(h, cmd) ==
  h \in Seq(Byte) /\ Len(h) = 12 /\ RequestHead(h) /\ h[10] = cmd

LEMMA RequestBytes ==
  ASSUME NEW cmd \in 0 .. 3, NEW b \in Byte
  PROVE  IsHeaded(Headed(cmd, b), cmd)
<1> DEFINE head == Header(1, CTRL_PC_ID, MY_TCP_ID, cmd)
           h == Headed(cmd, b)
<1>1. cmd \in Int /\ cmd % 256 = cmd /\ (cmd \div 256) % 256 = 0
  <2>1. cmd \in 0 .. 255
    OBVIOUS
  <2> QED  BY <2>1, SmallShort
<1>2. IsHeader(head, 1, CTRL_PC_ID, MY_TCP_ID, cmd)
  <2>1. 1 \in Byte
    BY DEF Byte
  <2>2. MY_TCP_ID \in Byte /\ CTRL_PC_ID \in Byte
    BY DEF Byte, MY_TCP_ID, CTRL_PC_ID
  <2> QED  BY <1>1, <2>1, <2>2, HeaderBytes
<1> HIDE DEF head
<1>3. head \in Seq(Byte) /\ Len(head) = 11 /\ <<b>> \in Seq(Byte) /\ Len(<<b>>) = 1
  BY <1>2 DEF IsHeader, HEADER
<1>4. h = head \o <<b>>
  BY DEF head, Headed
<1> HIDE DEF h
<1>5. /\ h \in Seq(Byte) /\ Len(h) = Len(head) + Len(<<b>>)
      /\ \A i \in 1 .. Len(head) : h[i] = head[i]
  BY ONLY <1>3, <1>4, Appended, Zenon
<1>6. \A i \in 1 .. 11 : h[i] = head[i]
  BY <1>3, <1>5
<1>7. RequestHead(h) /\ h[10] = cmd
  <2>1. /\ h[1] = head[1] /\ h[2] = head[2] /\ h[3] = head[3] /\ h[4] = head[4]
        /\ h[5] = head[5] /\ h[6] = head[6] /\ h[7] = head[7] /\ h[8] = head[8]
        /\ h[9] = head[9] /\ h[10] = head[10] /\ h[11] = head[11]
    BY <1>6
  <2>2. head[10] = cmd /\ head[11] = 0
    BY <1>1, <1>2 DEF IsHeader
  <2> QED  BY <2>1, <2>2, <1>2 DEF IsHeader, RequestHead
<1>8. Len(h) = 12
  BY <1>3, <1>5
<1> QED  BY <1>5, <1>7, <1>8 DEF h, IsHeaded

\* A packet with RequestHead in front of its payload and tail.
LEMMA HeadKept ==
  ASSUME NEW p, NEW h, \A i \in 1 .. 12 : p[i] = h[i], RequestHead(h)
  PROVE  RequestHead(p) /\ p[10] = h[10]
BY DEF RequestHead

LEMMA DocumentedBytes ==
  ASSUME NEW cmd \in 0 .. 3, NEW b \in Byte
  PROVE  LET p == WithTail(Headed(cmd, b))
         IN /\ p \in Seq(Byte) /\ Len(p) = REQUEST_SIZE
            /\ RequestHead(p) /\ p[10] = cmd
            /\ Documented(p)
<1> DEFINE h == Headed(cmd, b)
           p == WithTail(h)
           from == CRC_START_POINT + 1
<1>1. h \in Seq(Byte) /\ Len(h) = 12 /\ RequestHead(h) /\ h[10] = cmd
  BY RequestBytes DEF IsHeaded
<1> HIDE DEF h
<1>2. /\ p \in Seq(Byte) /\ Len(p) = Len(h) + TAIL
      /\ \A i \in 1 .. Len(h) : p[i] = h[i]
      /\ p[Len(h) + 1] = Crc(ByteSum(SubSeq(h, CRC_START_POINT + 1, Len(h))))
      /\ p[Len(h) + 2] = 255 /\ p[Len(h) + 3] = 255
  <2>1. Len(h) >= HEADER
    BY <1>1 DEF HEADER
  <2> QED  BY <1>1, <2>1, TailBytes, Zenon
<1> HIDE DEF p
<1>3. Len(p) = 15 /\ \A i \in 1 .. 12 : p[i] = h[i]
  BY <1>1, <1>2 DEF TAIL
<1>4. SubSeq(p, from, 12) = SubSeq(h, from, 12)
  <2>1. from \in Nat /\ 1 <= from /\ from <= 12 + 1
    BY DEF CRC_START_POINT
  <2> HIDE DEF from
  <2>2. \A i \in from .. 12 : p[i] = h[i]
    BY <1>3, <2>1
  <2> QED  BY <1>1, <1>2, <1>3, <2>1, <2>2, SubSeqAgree
<1>5. HEADER + 1 = 12 /\ REQUEST_SIZE = 15
  BY DEF HEADER, TAIL, REQUEST_SIZE
<1>6. Documented(p)
  <2>1. p[13] = Crc(ByteSum(SubSeq(h, from, 12))) /\ p[14] = 255 /\ p[15] = 255
    BY <1>1, <1>2
  <2> QED  BY <1>4, <1>5, <2>1 DEF Documented, RequestCrc
<1>7. RequestHead(p) /\ p[10] = cmd
  BY <1>1, <1>3, HeadKept
<1> QED  BY <1>2, <1>3, <1>5, <1>6, <1>7 DEF p, h

LEMMA RequestPacketIsRequest ==
  ASSUME NEW cmd \in 0 .. 3, NEW b \in Byte
  PROVE  IsRequest(RequestPacket(cmd, b), "pc")
<1>1. getRecvCmdSize(cmd) = 1
  BY DEF getRecvCmdSize, BIT_COMMANDS, CMD_KEEP_ALIVE, CMD_IBIT, CMD_RBIT, CMD_CBIT
<1>2. RequestPacket(cmd, b) = WithTail(Headed(cmd, b))
  BY <1>1 DEF RequestPacket, Headed
<1> QED  BY <1>2, DocumentedBytes DEF IsRequest

LEMMA CutShortBytes ==
  ASSUME NEW cmd \in 0 .. 3, NEW b \in Byte
  PROVE  LET p == SubSeq(WithTail(Append(Headed(cmd, b), 0)), 1, 15)
         IN /\ p \in Seq(Byte) /\ Len(p) = REQUEST_SIZE
            /\ RequestHead(p) /\ p[10] = cmd
            /\ CutShort(p)
<1> DEFINE h == Headed(cmd, b)
           g == Append(h, 0)
           t == WithTail(g)
           p == SubSeq(t, 1, 15)
           from == CRC_START_POINT + 1
<1>1. REQUEST_SIZE = 15 /\ HEADER + 1 = 12 /\ TAIL = 3 /\ HEADER = 11
  BY DEF HEADER, TAIL, REQUEST_SIZE
<1>2. h \in Seq(Byte) /\ Len(h) = 12 /\ RequestHead(h) /\ h[10] = cmd
  BY RequestBytes DEF IsHeaded
<1> HIDE DEF h
<1>3. from \in Nat /\ 1 <= from /\ from <= 12 /\ from <= 12 + 1
  BY DEF CRC_START_POINT
<1> HIDE DEF from
<1>4. /\ g \in Seq(Byte) /\ Len(g) = Len(h) + 1 /\ g[Len(h) + 1] = 0
      /\ \A i \in 1 .. Len(h) : g[i] = h[i]
  BY <1>2, AddByte, AppendedByte, Zenon
<1>5. Len(g) = 13 /\ g[13] = 0 /\ \A i \in 1 .. 12 : g[i] = h[i]
  BY <1>2, <1>4
<1>6. ByteSum(SubSeq(g, from, 13)) = ByteSum(SubSeq(h, from, 12))
  <2>1. Len(h) + 1 = 13 /\ from <= Len(h)
    BY <1>2, <1>3
  <2>2. /\ SubSeq(h, from, Len(h)) \in Seq(Byte)
        /\ SubSeq(g, from, Len(h) + 1) = Append(SubSeq(h, from, Len(h)), 0)
    BY <2>1, <1>2, <1>3, AddByte, SubSeqAppended, Zenon
  <2> HIDE DEF g
  <2> QED  BY <2>1, <2>2, <1>2, SumOfZero
<1> HIDE DEF g
<1>7. /\ t \in Seq(Byte) /\ Len(t) = Len(g) + TAIL
      /\ \A i \in 1 .. Len(g) : t[i] = g[i]
      /\ t[Len(g) + 1] = Crc(ByteSum(SubSeq(g, CRC_START_POINT + 1, Len(g))))
      /\ t[Len(g) + 2] = 255 /\ t[Len(g) + 3] = 255
  <2>1. Len(g) >= HEADER
    BY <1>1, <1>5
  <2> QED  BY <1>4, <2>1, TailBytes, Zenon
<1> HIDE DEF t
<1>8. /\ Len(t) = 16 /\ t[14] = Crc(ByteSum(SubSeq(h, from, 12))) /\ t[15] = 255
      /\ \A i \in 1 .. 13 : t[i] = g[i]
  BY <1>1, <1>5, <1>6, <1>7 DEF from
<1>9. /\ p \in Seq(Byte) /\ Len(p) = 15 /\ \A i \in 1 .. 15 : p[i] = t[i]
  <2>1. 15 \in Nat /\ 15 <= Len(t)
    BY <1>8
  <2>2. t \in Seq(Byte)
    BY <1>7
  <2> QED  BY <2>1, <2>2, Prefix, Zenon
<1> HIDE DEF p
<1>10. \A i \in 1 .. 12 : p[i] = h[i]
  <2> TAKE i \in 1 .. 12
  <2>1. i \in 1 .. 13 /\ i \in 1 .. 15
    OBVIOUS
  <2> QED  BY <2>1, <1>5, <1>8, <1>9
<1>11. p[13] = 0 /\ p[14] = t[14] /\ p[15] = 255
  BY <1>5, <1>8, <1>9
<1>12. RequestCrc(p) = Crc(ByteSum(SubSeq(h, from, 12)))
  <2>1. \A i \in from .. 12 : p[i] = h[i]
    BY <1>3, <1>10
  <2>2. 12 \in Nat /\ 12 <= Len(p) /\ 12 <= Len(h)
    BY <1>2, <1>9
  <2>3. SubSeq(p, from, 12) = SubSeq(h, from, 12)
    BY <1>2, <1>3, <1>9, <2>1, <2>2, SubSeqAgree
  <2> QED  BY <1>1, <2>3 DEF RequestCrc, from
<1>13. CutShort(p)
  BY <1>8, <1>11, <1>12 DEF CutShort
<1>14. RequestHead(p) /\ p[10] = cmd
  BY <1>2, <1>10, HeadKept
<1> QED  BY <1>1, <1>9, <1>13, <1>14 DEF p, t, g, h

\* The packet of makeRecvPacket, cut to the size of a request, is a request
\* for KEEP_ALIVE; for a BIT command its tail is one byte late.
LEMMA TestPacketIsRequest ==
  ASSUME NEW cmd \in 0 .. 3, NEW b \in Byte
  PROVE  IsRequest(TestPacket(cmd, b), "test")
<1> DEFINE h == Headed(cmd, b)
           gap == [i \in 1 .. getSendCmdSize(cmd) - getRecvCmdSize(cmd) |-> 0]
           t == WithTail(h \o gap)
<1>1. getRecvCmdSize(cmd) = 1
  BY DEF getRecvCmdSize, BIT_COMMANDS, CMD_KEEP_ALIVE, CMD_IBIT, CMD_RBIT, CMD_CBIT
<1>2. makeRecvPacket(cmd, stMsgId, <<b>>) = t
  BY <1>1, Zenon DEF makeRecvPacket, stMsgId, Headed
<1>3. REQUEST_SIZE = 15 /\ CMD_KEEP_ALIVE = 0
  BY DEF HEADER, TAIL, REQUEST_SIZE, CMD_KEEP_ALIVE
<1>4. h \in Seq(Byte)
  BY RequestBytes DEF IsHeaded
<1> HIDE DEF h
<1>5. CASE cmd = 0
  <2>1. getSendCmdSize(cmd) = 1
    BY <1>5 DEF getSendCmdSize, BIT_COMMANDS, CMD_KEEP_ALIVE, CMD_IBIT, CMD_RBIT,
                CMD_CBIT
  <2>2. gap = <<>>
    BY <2>1, <1>1
  <2>3. h \o <<>> = h
    BY <1>4
  <2>4. t = WithTail(h)
    BY <2>2, <2>3, Zenon
  <2> DEFINE p == WithTail(h)
  <2>5. /\ p \in Seq(Byte) /\ Len(p) = REQUEST_SIZE
        /\ RequestHead(p) /\ p[10] = cmd /\ Documented(p)
    BY DocumentedBytes DEF h
  <2> HIDE DEF p
  <2>6. SubSeq(p, 1, REQUEST_SIZE) = p
    BY <1>3, <2>5
  <2>7. TestPacket(cmd, b) = p
    BY <1>2, <2>4, <2>6, Zenon DEF TestPacket, p
  <2> QED  BY <1>3, <1>5, <2>5, <2>7 DEF IsRequest
<1>6. CASE cmd # 0
  <2>1. getSendCmdSize(cmd) = 2
    BY <1>6 DEF getSendCmdSize, BIT_COMMANDS, CMD_KEEP_ALIVE, CMD_IBIT, CMD_RBIT,
                CMD_CBIT
  <2>2. gap = <<0>>
    BY <2>1, <1>1
  <2>3. h \o <<0>> = Append(h, 0)
    BY <1>4
  <2>4. t = WithTail(Append(h, 0))
    BY <2>2, <2>3, Zenon
  <2> DEFINE p == SubSeq(WithTail(Append(h, 0)), 1, 15)
  <2>5. /\ p \in Seq(Byte) /\ Len(p) = REQUEST_SIZE
        /\ RequestHead(p) /\ p[10] = cmd /\ CutShort(p)
    BY CutShortBytes DEF h
  <2>6. TestPacket(cmd, b) = p
    BY <1>2, <1>3, <2>4, Zenon DEF TestPacket
  <2> HIDE DEF p
  <2> QED  BY <1>3, <1>6, <2>5, <2>6 DEF IsRequest
<1> QED  BY <1>5, <1>6

\* The format status of a chunk as long as a request: OK for one with the
\* length, the markers, the destination and the checksum of a request.
LEMMA RequestFormat ==
  ASSUME NEW q \in Seq(Byte), Len(q) = REQUEST_SIZE
  PROVE  checkPacketFormat(q, stMsgId, Len(q)) = PACKET_FORMAT_OK
         <=> /\ q[1] = 240 /\ q[2] = 240
             /\ q[3] = 1 /\ q[4] = 0 /\ q[5] = 0 /\ q[6] = 0
             /\ q[8] = MY_TCP_ID
             /\ Documented(q)
<1>1. REQUEST_SIZE = 15 /\ HEADER + 1 = 12 /\ HEADER = 11 /\ TAIL = 3
  BY DEF HEADER, TAIL, REQUEST_SIZE
<1>2. Len(q) >= HEADER
  BY <1>1
<1>3. IsComplete(q) <=> iLength(q) = 1
  <2>1. iLength(q) \in Int
    BY <1>2, LengthBytes
  <2>2. Len(q) = HEADER + iLength(q) + TAIL <=> iLength(q) = 1
    BY <1>1, <2>1
  <2>3. Len(q) \in HEADER .. MaxInt
    <3>1. Len(q) \in 11 .. 38
      BY <1>1
    <3> QED  BY <3>1, SizesFit
  <2> QED  BY <1>2, <2>2, <2>3, CompleteSize, Zenon
<1>4. iLength(q) = 1 <=> q[3] = 1 /\ q[4] = 0 /\ q[5] = 0 /\ q[6] = 0
  BY <1>2, LengthBytes
<1>5. checkPacketCrc(q, Len(q)) <=> q[13] = RequestCrc(q)
  BY <1>1 DEF checkPacketCrc, calculatePacketCrc, RequestCrc, EXCLUDING_CRC_POINT
<1>6. Len(q) - 1 = 14 /\ Len(q) = 15
  BY <1>1
<1>7. stMsgId.dst = MY_TCP_ID
  BY DEF stMsgId
<1>8. checkPacketFormat(q, stMsgId, Len(q)) = PACKET_FORMAT_OK
      <=> /\ IsComplete(q)
          /\ q[1] = 240 /\ q[2] = 240
          /\ q[8] = stMsgId.dst
          /\ checkPacketCrc(q, Len(q))
          /\ q[Len(q) - 1] = 255 /\ q[Len(q)] = 255
  BY FormatOk
<1> QED  BY <1>3, <1>4, <1>5, <1>6, <1>7, <1>8 DEF Documented

\* A request as it was sent is complete, and its status is OK if its tail is
\* where the documentation says.
LEMMA RequestStatus ==
  ASSUME NEW p, NEW kind, IsRequest(p, kind)
  PROVE  /\ checkPacketFormat(p, stMsgId, Len(p)) = PACKET_FORMAT_OK
            <=> kind = "pc" \/ getSendCmdSize(nCmd(p)) = getRecvCmdSize(nCmd(p))
         /\ nCmd(p) = p[10]
<1>1. p \in Seq(Byte) /\ Len(p) = REQUEST_SIZE /\ RequestHead(p)
  BY DEF IsRequest
<1>2. nCmd(p) = p[10]
  <2>1. p[10] \in 0 .. 3 /\ p[11] = 0
    BY <1>1 DEF RequestHead
  <2>2. PICK c \in 0 .. 3 : p[10] = c
    BY <2>1
  <2>3. p[9 + 1] = c /\ p[9 + 2] = 0
    BY <2>1, <2>2
  <2> QED  BY <2>2, <2>3 DEF nCmd, ShortAt, Signed
<1>3. PICK c \in 0 .. 3 : p[10] = c
  BY <1>1 DEF RequestHead
<1>4. getSendCmdSize(c) = getRecvCmdSize(c) <=> c = CMD_KEEP_ALIVE
  <2>1. c = 0 => getSendCmdSize(c) = 1
    BY DEF getSendCmdSize, BIT_COMMANDS, CMD_KEEP_ALIVE, CMD_IBIT, CMD_RBIT, CMD_CBIT
  <2>2. c # 0 => getSendCmdSize(c) = 2
    BY DEF getSendCmdSize, BIT_COMMANDS, CMD_KEEP_ALIVE, CMD_IBIT, CMD_RBIT, CMD_CBIT
  <2>3. getRecvCmdSize(c) = 1
    BY DEF getRecvCmdSize, BIT_COMMANDS, CMD_KEEP_ALIVE, CMD_IBIT, CMD_RBIT, CMD_CBIT
  <2> QED  BY <2>1, <2>2, <2>3 DEF CMD_KEEP_ALIVE
<1>5. Documented(p) <=> kind = "pc" \/ c = CMD_KEEP_ALIVE
  <2>1. CASE kind = "pc" \/ c = CMD_KEEP_ALIVE
    BY <1>3, <2>1 DEF IsRequest
  <2>2. CASE kind # "pc" /\ c # CMD_KEEP_ALIVE
    <3>1. CutShort(p)
      BY <1>3, <2>2 DEF IsRequest
    <3>2. RequestCrc(p) \in 0 .. 254
      <4>1. SubSeq(p, CRC_START_POINT + 1, HEADER + 1) \in Seq(Byte)
        <5>1. /\ CRC_START_POINT + 1 = 7 /\ HEADER + 1 = 12 /\ REQUEST_SIZE = 15
          BY DEF CRC_START_POINT, HEADER, TAIL, REQUEST_SIZE
        <5>2. 7 \in Nat /\ 12 \in Nat /\ 1 <= 7 /\ 7 <= 12 + 1 /\ 12 <= Len(p)
          BY <1>1, <5>1
        <5>3. SubSeq(p, 7, 12) \in Seq(Byte)
          BY <1>1, <5>2, SubSeqAgree
        <5> QED  BY <5>1, <5>3
      <4> QED  BY <4>1, CrcType DEF RequestCrc
    <3>3. p[14] # 255
      BY <3>1, <3>2 DEF CutShort
    <3> QED  BY <2>2, <3>3 DEF Documented
  <2> QED  BY <2>1, <2>2
<1>6. checkPacketFormat(p, stMsgId, Len(p)) = PACKET_FORMAT_OK <=> Documented(p)
  BY <1>1, RequestFormat DEF RequestHead
<1> QED  BY <1>2, <1>3, <1>4, <1>5, <1>6

\* The part of a request that the checksum is made of.
LEMMA CrcPart ==
  ASSUME NEW p \in Seq(Byte), Len(p) = 15
  PROVE  /\ SubSeq(p, 7, 12) \in Seq(Byte)
         /\ Len(SubSeq(p, 7, 12)) = 6
         /\ \A i \in 1 .. 6 : SubSeq(p, 7, 12)[i] = p[6 + i]
<1>1. SubSeq(p, 7, 12) \in Seq(Byte)
  <2>1. 7 \in Nat /\ 12 \in Nat /\ 1 <= 7 /\ 7 <= 12 + 1 /\ 12 <= Len(p)
    OBVIOUS
  <2> QED  BY <2>1, SubSeqAgree
<1>2. Len(SubSeq(p, 7, 12)) = 6
  OBVIOUS
<1>3. \A i \in 1 .. 6 : SubSeq(p, 7, 12)[i] = p[6 + i]
  OBVIOUS
<1> QED  BY <1>1, <1>2, <1>3

LEMMA SameBytes ==
  ASSUME NEW s \in Seq(Byte), NEW t \in Seq(Byte), Len(s) = Len(t),
         \A i \in 1 .. Len(s) : s[i] = t[i]
  PROVE  s = t
OBVIOUS

LEMMA ByteAt ==
  ASSUME NEW s \in Seq(Byte), NEW i \in 1 .. Len(s)
  PROVE  s[i] \in Byte
OBVIOUS

LEMMA SumMoves ==
  \A x, a, b \in 0 .. 255 : (x + (b - a)) % 256 = x => a = b
<1> SUFFICES ASSUME NEW x \in 0 .. 255, NEW a \in 0 .. 255, NEW b \in 0 .. 255,
                    (x + (b - a)) % 256 = x
             PROVE  a = b
  OBVIOUS
<1> DEFINE d == b - a
<1>1. d \in Int /\ d > 0 - 256 /\ d < 256
  OBVIOUS
<1>2. (x + d) % 256 = x
  OBVIOUS
<1>3. x + d = 256 * ((x + d) \div 256) + ((x + d) % 256)
  BY <1>1
<1>4. (x + d) \div 256 \in Int
  BY <1>1
<1> HIDE DEF d
<1>5. d = 0
  BY <1>1, <1>2, <1>3, <1>4
<1> QED  BY <1>5 DEF d

LEMMA SumWraps ==
  \A a, b \in 0 .. 255 : (255 + (b - a)) % 256 = 0 => (b - a) % 256 = 1
OBVIOUS

\* One byte of a request changed, and the format status still OK: then the
\* change is by one, and the checksum one that stands for two sums.
LEMMA CorruptionSeen ==
  ASSUME NEW p, NEW kind, IsRequest(p, kind),
         NEW q \in Seq(Byte), Len(q) = REQUEST_SIZE,
         NEW j \in 1 .. REQUEST_SIZE, q[j] # p[j],
         \A i \in 1 .. REQUEST_SIZE : i # j => q[i] = p[i],
         checkPacketFormat(q, stMsgId, Len(q)) = PACKET_FORMAT_OK
  PROVE  (q[j] - p[j]) % 256 \in {1, 255} /\ q[13] = 0
<1> DEFINE from == CRC_START_POINT + 1
           s == SubSeq(p, from, 12)
           t == SubSeq(q, from, 12)
<1>1. REQUEST_SIZE = 15 /\ HEADER + 1 = 12 /\ from = 7
  BY DEF HEADER, TAIL, REQUEST_SIZE, CRC_START_POINT
<1>2. p \in Seq(Byte) /\ Len(p) = 15 /\ RequestHead(p)
  BY <1>1 DEF IsRequest
<1>3. /\ q[1] = 240 /\ q[2] = 240
      /\ q[3] = 1 /\ q[4] = 0 /\ q[5] = 0 /\ q[6] = 0
      /\ q[8] = MY_TCP_ID
      /\ Documented(q)
  BY RequestFormat
<1>4. Len(q) = 15 /\ j \in 1 .. 15 /\ \A i \in 1 .. 15 : i # j => q[i] = p[i]
  BY <1>1
<1>5. j \notin {1, 2, 3, 4, 5, 6, 8}
  BY <1>2, <1>3 DEF RequestHead
<1>6. /\ s \in Seq(Byte) /\ Len(s) = 6 /\ \A i \in 1 .. 6 : s[i] = p[6 + i]
      /\ t \in Seq(Byte) /\ Len(t) = 6 /\ \A i \in 1 .. 6 : t[i] = q[6 + i]
  <2>1. s = SubSeq(p, 7, 12) /\ t = SubSeq(q, 7, 12)
    BY <1>1
  <2>2. /\ SubSeq(p, 7, 12) \in Seq(Byte) /\ Len(SubSeq(p, 7, 12)) = 6
        /\ \A i \in 1 .. 6 : SubSeq(p, 7, 12)[i] = p[6 + i]
    BY <1>2, CrcPart, Zenon
  <2>3. /\ SubSeq(q, 7, 12) \in Seq(Byte) /\ Len(SubSeq(q, 7, 12)) = 6
        /\ \A i \in 1 .. 6 : SubSeq(q, 7, 12)[i] = q[6 + i]
    BY <1>4, CrcPart, Zenon
  <2> HIDE DEF s, t, from
  <2> QED  BY <2>1, <2>2, <2>3
<1>7. RequestCrc(p) = Crc(ByteSum(s)) /\ RequestCrc(q) = Crc(ByteSum(t))
  BY <1>1 DEF RequestCrc
<1> HIDE DEF s, t, from
<1>8. ByteSum(s) \in 0 .. 255 /\ ByteSum(t) \in 0 .. 255
  BY <1>6, ByteSumType DEF Byte
<1>9. CASE Documented(p)
  <2>1. j # 14 /\ j # 15
    BY <1>3, <1>9 DEF Documented
  <2>2. CASE j = 13
    <3>1. t = s
      <4>1. \A i \in 1 .. 6 : 6 + i \in 1 .. 15 /\ 6 + i # 13
        OBVIOUS
      <4>2. \A i \in 1 .. 6 : t[i] = s[i]
        BY <4>1, <2>2, <1>4, <1>6
      <4>3. Len(t) = Len(s) /\ \A i \in 1 .. Len(t) : t[i] = s[i]
        BY <4>2, <1>6
      <4> QED  BY ONLY <4>3, <1>6, SameBytes
    <3> QED  BY <3>1, <2>2, <1>3, <1>7, <1>9 DEF Documented
  <2>3. CASE j # 13
    <3>1. j \in 7 .. 12
      BY <1>4, <1>5, <2>1, <2>3
    <3> DEFINE k == j - 6
               d == q[j] - p[j]
    <3>2. k \in 1 .. 6 /\ 6 + k = j
      BY <3>1
    <3>3. \A i \in 1 .. 6 : i # k => 6 + i \in 1 .. 15 /\ 6 + i # j
      BY <3>1
    <3>4. \A i \in 1 .. 6 : i # k => s[i] = t[i]
      BY <3>3, <1>4, <1>6
    <3>5. s[k] = p[j] /\ t[k] = q[j]
      BY <3>2, <1>6
    <3>6. ByteSum(t) = (ByteSum(s) + d) % 256
      <4>1. ByteSum(t) = (ByteSum(s) + (t[k] - s[k])) % 256
        <5> HIDE DEF k
        <5>1. k \in 1 .. Len(s)
          BY <3>2, <1>6
        <5>2. \A i \in 1 .. Len(s) : i # k => s[i] = t[i]
          BY <3>4, <1>6
        <5>3. s \in Seq(Byte) /\ t \in Seq(Byte) /\ Len(s) = Len(t)
          BY <1>6
        <5> QED  BY ONLY <5>1, <5>2, <5>3, SumChange, Zenon
      <4> QED  BY <4>1, <3>5
    <3>7. q[j] \in 0 .. 255 /\ p[j] \in 0 .. 255
      <4>1. q[j] \in Byte /\ p[j] \in Byte
        <5>1. q \in Seq(Byte) /\ p \in Seq(Byte) /\ j \in 1 .. Len(p) /\ j \in 1 .. Len(q)
          BY <1>2, <1>4
        <5> QED  BY ONLY <5>1, ByteAt
      <4> QED  BY <4>1 DEF Byte
    <3>8. Crc(ByteSum(t)) = Crc(ByteSum(s)) /\ q[13] = Crc(ByteSum(t))
      BY <1>3, <1>4, <1>7, <1>9, <2>3 DEF Documented
    <3>9. (q[j] - p[j]) % 256 \in {1, 255} /\ Crc(ByteSum(t)) = 0
      <4>1. PICK x \in 0 .. 255, y \in 0 .. 255, a \in 0 .. 255, b \in 0 .. 255 :
              ByteSum(s) = x /\ ByteSum(t) = y /\ p[j] = a /\ q[j] = b
        BY <1>8, <3>7
      <4>2. a # b /\ y = (x + (b - a)) % 256 /\ Crc(y) = Crc(x)
        BY <3>6, <3>8, <4>1
      <4>3. x # y
        BY ONLY <4>2, SumMoves
      <4>4. \/ x = 0 /\ y = 255
            \/ x = 255 /\ y = 0
        BY ONLY <4>2, <4>3 DEF Crc
      <4>5. CASE x = 0 /\ y = 255
        <5>1. (b - a) % 256 = 255
          BY ONLY <4>2, <4>5
        <5>2. Crc(y) = 0
          BY ONLY <4>5 DEF Crc
        <5> QED  BY <4>1, <5>1, <5>2
      <4>6. CASE x = 255 /\ y = 0
        <5>1. (b - a) % 256 = 1
          BY ONLY <4>2, <4>6, SumWraps
        <5>2. Crc(y) = 0
          BY ONLY <4>6 DEF Crc
        <5> QED  BY <4>1, <5>1, <5>2
      <4> QED  BY <4>4, <4>5, <4>6
    <3> QED  BY <3>8, <3>9
  <2> QED  BY <2>2, <2>3
<1>10. CASE ~ Documented(p)
  <2>1. CutShort(p)
    BY <1>10 DEF IsRequest
  <2>2. j = 14
    <3>1. s \in Seq(Byte)
      BY <1>6
    <3>2. Crc(ByteSum(s)) # 255
      BY ONLY <3>1, CrcType
    <3>3. p[14] # 255
      BY <2>1, <1>7, <3>2 DEF CutShort
    <3> QED  BY <1>3, <1>4, <3>3 DEF Documented
  <2>3. t = s
    <3>1. \A i \in 1 .. 6 : 6 + i \in 1 .. 15 /\ 6 + i # 14
      OBVIOUS
    <3>2. \A i \in 1 .. 6 : t[i] = s[i]
      BY <3>1, <2>2, <1>4, <1>6
    <3>3. Len(t) = Len(s) /\ \A i \in 1 .. Len(t) : t[i] = s[i]
      BY <3>2, <1>6
    <3> QED  BY ONLY <3>3, <1>6, SameBytes
  <2>4. q[13] = 0 /\ p[13] = 0
    BY <2>1, <2>2, <1>4 DEF CutShort
  <2>5. p[14] = 0 /\ q[14] = 255
    BY <2>1, <2>3, <2>4, <1>3, <1>7 DEF CutShort, Documented
  <2>6. (255 - 0) % 256 = 255
    OBVIOUS
  <2> QED  BY <2>2, <2>4, <2>5, <2>6
<1> QED  BY <1>9, <1>10
=============================================================================
