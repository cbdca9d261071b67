--------------------------- MODULE SensorHalProofs ---------------------------
(***************************************************************************)
(* What the sensor drivers return as valid, for every sample: the DHT22's  *)
(* 8-bit sum misses no single flipped bit, the SHT31's CRC-8 no three, and *)
(* the conversion to hundredths loses one hundredth at most.               *)
(*                                                                         *)
(* Bytes are sets of weights, so that the CRC is linear in the difference  *)
(* of sets and a statement about noise is one about the places of 1 bits.  *)
(***************************************************************************)
EXTENDS SensorHal, TLAPS

------------------------------------------------------------------------------
(* Bytes as sets of weights, and the numbers they stand for.                *)

LEMMA ValueOfBits == \A n \in 0 .. 255 : Value(Bits(n)) = n /\ Bits(n) \subseteq Weights
<1> SUFFICES ASSUME NEW n \in 0 .. 255 PROVE Value(Bits(n)) = n
  BY DEF Bits
<1>1. \A w \in Weights : w \in Bits(n) <=> (n \div w) % 2 = 1
  BY DEF Bits
<1>2. /\ (1 \in Bits(n) <=> n % 2 = 1)
      /\ (2 \in Bits(n) <=> (n \div 2) % 2 = 1)
      /\ (4 \in Bits(n) <=> (n \div 4) % 2 = 1)
      /\ (8 \in Bits(n) <=> (n \div 8) % 2 = 1)
      /\ (16 \in Bits(n) <=> (n \div 16) % 2 = 1)
      /\ (32 \in Bits(n) <=> (n \div 32) % 2 = 1)
      /\ (64 \in Bits(n) <=> (n \div 64) % 2 = 1)
      /\ (128 \in Bits(n) <=> (n \div 128) % 2 = 1)
  BY <1>1 DEF Weights
<1> QED
  BY <1>2 DEF Value

\* 16-bit words.
LEMMA WordRange ==
  ASSUME NEW a \in Int
  PROVE  a \in Words <=> 0 <= a /\ a <= 65535
  BY SMT DEF Words

LEMMA WordsAre == ASSUME NEW w \in Words PROVE w \in Int /\ 0 <= w /\ w <= 65535
  BY SMT DEF Words

LEMMA Pairs == ASSUME NEW A, NEW B, NEW s \in A \X B PROVE \E x \in A, y \in B : s = <<x, y>>
  OBVIOUS

LEMMA WordOfBytes ==
  ASSUME NEW w \in Words
  PROVE  Word(High(w), Low(w)) = w
<1>1. w \in Int /\ 0 <= w /\ w <= 65535
  BY WordsAre
<1>2. w \div 256 \in 0 .. 255 /\ w % 256 \in 0 .. 255 /\ (w \div 256) * 256 + (w % 256) = w
  BY <1>1, SMT
<1>3. Value(High(w)) = w \div 256 /\ Value(Low(w)) = w % 256
  BY <1>2, ValueOfBits DEF High, Low
<1> QED
  BY <1>2, <1>3 DEF Word

LEMMA ValueRange == \A b : Value(b) \in 0 .. 255
  BY DEF Value

\* One bit more or less changes a byte's value by its weight.
LEMMA ValueOfFlip ==
  ASSUME NEW b \in SUBSET Weights, NEW w \in Weights
  PROVE  Value(SymDiff(b, {w})) = IF w \in b THEN Value(b) - w ELSE Value(b) + w
  BY DEF SymDiff, Value, Weights

------------------------------------------------------------------------------
(* The CRC of an SHT31.                                                   *)

\* The bits of a byte after one shift, and after four.
Shifted(c, d) ==
  /\ d \in SUBSET Weights
  /\ 1 \in d <=> 128 \in c
  /\ 2 \in d <=> 1 \in c
  /\ 4 \in d <=> 2 \in c
  /\ 8 \in d <=> 4 \in c
  /\ 16 \in d <=> ~(8 \in c <=> 128 \in c)
  /\ 32 \in d <=> ~(16 \in c <=> 128 \in c)
  /\ 64 \in d <=> 32 \in c
  /\ 128 \in d <=> 64 \in c

Shifted4(c, d) ==
  /\ d \in SUBSET Weights
  /\ 1 \in d <=> ~(16 \in c <=> 128 \in c)
  /\ 2 \in d <=> 32 \in c
  /\ 4 \in d <=> 64 \in c
  /\ 8 \in d <=> 128 \in c
  /\ 16 \in d <=> (1 \in c <=> (16 \in c <=> 128 \in c))
  /\ 32 \in d <=> ~((2 \in c <=> 16 \in c) <=> (32 \in c <=> 128 \in c))
  /\ 64 \in d <=> (4 \in c <=> (32 \in c <=> 64 \in c))
  /\ 128 \in d <=> (8 \in c <=> (64 \in c <=> 128 \in c))

LEMMA ShiftBits ==
  ASSUME NEW c \in SUBSET Weights
  PROVE  Shifted(c, CrcShift(c))
<1> DEFINE doubled == {2 * w : w \in c \ {128}}
           poly    == IF 128 \in c THEN {1, 16, 32} ELSE {}
<1>1. doubled \subseteq Weights /\ poly \subseteq Weights
  BY DEF Weights
<1>2. /\ 1 \notin doubled
      /\ 2 \in doubled <=> 1 \in c
      /\ 4 \in doubled <=> 2 \in c
      /\ 8 \in doubled <=> 4 \in c
      /\ 16 \in doubled <=> 8 \in c
      /\ 32 \in doubled <=> 16 \in c
      /\ 64 \in doubled <=> 32 \in c
      /\ 128 \in doubled <=> 64 \in c
  BY DEF Weights
<1>3. \A w : w \in poly <=> 128 \in c /\ w \in {1, 16, 32}
  OBVIOUS
<1>4. CrcShift(c) = SymDiff(doubled, poly)
  BY DEF CrcShift
<1> HIDE DEF doubled, poly
<1>5. \A w : w \in SymDiff(doubled, poly) <=> ~(w \in doubled <=> w \in poly)
  BY DEF SymDiff
<1> QED
  BY <1>1, <1>2, <1>3, <1>4, <1>5 DEF Shifted

LEMMA Shift4Bits ==
  ASSUME NEW c \in SUBSET Weights
  PROVE  Shifted4(c, CrcShift4(c))
<1> DEFINE d == CrcShift(c)
           e == CrcShift(d)
           f == CrcShift(e)
<1>1. Shifted(c, d)
  BY ShiftBits
<1>2. Shifted(d, e)
  BY <1>1, ShiftBits DEF Shifted
<1>3. Shifted(e, f)
  BY <1>2, ShiftBits DEF Shifted
<1>4. Shifted(f, CrcShift4(c))
  BY <1>3, ShiftBits DEF Shifted, CrcShift4
<1> HIDE DEF d, e, f
<1> QED
  BY <1>1, <1>2, <1>3, <1>4 DEF Shifted, Shifted4

\* Differences of bytes.
LEMMA XorBits ==
  ASSUME NEW b \in SUBSET Weights, NEW c \in SUBSET Weights
  PROVE  /\ SymDiff(b, c) \in SUBSET Weights
         /\ \A w : w \in SymDiff(b, c) <=> ~(w \in b <=> w \in c)
  BY DEF SymDiff

LEMMA SameBits ==
  ASSUME NEW b \in SUBSET Weights, NEW c \in SUBSET Weights,
         \A w \in Weights : w \in b <=> w \in c
  PROVE  b = c
  OBVIOUS

\* Shifting a difference is the difference of what is shifted.
LEMMA Shift4Linear ==
  ASSUME NEW b \in SUBSET Weights, NEW c \in SUBSET Weights
  PROVE  CrcShift4(SymDiff(b, c)) = SymDiff(CrcShift4(b), CrcShift4(c))
<1> DEFINE x == CrcShift4(b)
           y == CrcShift4(c)
           z == CrcShift4(SymDiff(b, c))
<1>1. Shifted4(b, x) /\ Shifted4(c, y) /\ Shifted4(SymDiff(b, c), z)
  BY Shift4Bits, XorBits
<1> HIDE DEF x, y, z
<1>2. x \in SUBSET Weights /\ y \in SUBSET Weights /\ z \in SUBSET Weights
  BY <1>1 DEF Shifted4
<1>3. \A w \in Weights : w \in z <=> ~(w \in x <=> w \in y)
  BY <1>1, XorBits DEF Shifted4, Weights
<1> QED
  BY <1>2, <1>3, XorBits, SameBits DEF x, y, z

LEMMA CrcByteLinear ==
  ASSUME NEW b \in SUBSET Weights, NEW c \in SUBSET Weights,
         NEW x \in SUBSET Weights, NEW y \in SUBSET Weights
  PROVE  /\ CrcByte(b, c) \in SUBSET Weights
         /\ CrcByte(SymDiff(b, x), SymDiff(c, y)) = SymDiff(CrcByte(b, c), CrcByte(x, y))
<1>1. SymDiff(SymDiff(b, x), SymDiff(c, y)) = SymDiff(SymDiff(b, c), SymDiff(x, y))
  BY DEF SymDiff
<1>2. SymDiff(b, c) \in SUBSET Weights /\ SymDiff(x, y) \in SUBSET Weights
  BY XorBits
<1>3. CrcShift4(SymDiff(b, c)) \in SUBSET Weights /\ CrcShift4(SymDiff(x, y)) \in SUBSET Weights
  BY <1>2, Shift4Bits DEF Shifted4
<1>4. CrcShift4(CrcShift4(SymDiff(b, c))) \in SUBSET Weights
  BY <1>3, Shift4Bits DEF Shifted4
<1> QED
  BY <1>1, <1>2, <1>3, <1>4, Shift4Linear DEF CrcByte

\* The bits of byte k among the places, and up to three places of a frame.
Turned(k, P) == {x \in Weights : <<k, x>> \in P}
UpToThree(P) == \E p, q, r \in (1 .. 6) \X Weights : P = {p, q, r}

\* Up to three flips in a word and its CRC are seen by the CRC, or hit
\* neither byte of the word: a propositional fact about 24 bits.
LEMMA ThreeFlips ==
  ASSUME NEW k \in {1, 4}, NEW P, UpToThree(P),
         CrcByte(CrcByte({}, Turned(k, P)), Turned(k + 1, P)) = Turned(k + 2, P)
  PROVE  Turned(k, P) = {} /\ Turned(k + 1, P) = {}
<1>1. PICK i \in 1 .. 6, w \in Weights, j \in 1 .. 6, v \in Weights, h \in 1 .. 6, u \in Weights :
        P = {<<i, w>>, <<j, v>>, <<h, u>>}
  <2>1. PICK p \in (1 .. 6) \X Weights, q \in (1 .. 6) \X Weights, r \in (1 .. 6) \X Weights : P = {p, q, r}
    BY DEF UpToThree
  <2>2. /\ p = <<p[1], p[2]>> /\ p[1] \in 1 .. 6 /\ p[2] \in Weights
        /\ q = <<q[1], q[2]>> /\ q[1] \in 1 .. 6 /\ q[2] \in Weights
        /\ r = <<r[1], r[2]>> /\ r[1] \in 1 .. 6 /\ r[2] \in Weights
    OBVIOUS
  <2>3. P = {<<p[1], p[2]>>, <<q[1], q[2]>>, <<r[1], r[2]>>}
    BY <2>1, <2>2
  <2> WITNESS p[1] \in 1 .. 6, p[2] \in Weights, q[1] \in 1 .. 6, q[2] \in Weights,
              r[1] \in 1 .. 6, r[2] \in Weights
  <2> QED
    BY <2>3
<1> DEFINE e1 == Turned(k, P)
           e2 == Turned(k + 1, P)
           e3 == Turned(k + 2, P)
<1>2. \A n \in Int : Turned(n, P) = {x \in Weights : (i = n /\ x = w) \/ (j = n /\ x = v) \/ (h = n /\ x = u)}
  BY <1>1 DEF Turned
<1>3. /\ e1 = {x \in Weights : (i = k /\ x = w) \/ (j = k /\ x = v) \/ (h = k /\ x = u)}
      /\ e2 = {x \in Weights : (i = k + 1 /\ x = w) \/ (j = k + 1 /\ x = v) \/ (h = k + 1 /\ x = u)}
      /\ e3 = {x \in Weights : (i = k + 2 /\ x = w) \/ (j = k + 2 /\ x = v) \/ (h = k + 2 /\ x = u)}
  BY <1>2
<1>4. CrcByte(CrcByte({}, e1), e2) = e3
  OBVIOUS
<1> HIDE DEF e1, e2, e3
<1> DEFINE a == CrcShift4(e1)
           b == CrcShift4(a)
           c == SymDiff(b, e2)
           d == CrcShift4(c)
           e == CrcShift4(d)
<1>5. e1 \in SUBSET Weights /\ e2 \in SUBSET Weights
  BY <1>3
<1>6. SymDiff({}, e1) = e1
  BY DEF SymDiff
<1>7. CrcByte({}, e1) = b /\ CrcByte(b, e2) = e
  BY <1>6 DEF CrcByte
<1>8. Shifted4(e1, a)
  BY <1>5, Shift4Bits
<1>9. Shifted4(a, b)
  BY <1>8, Shift4Bits DEF Shifted4
<1>10. b \in SUBSET Weights
  BY <1>9 DEF Shifted4
<1>11. c \in SUBSET Weights /\ \A x : x \in c <=> ~(x \in b <=> x \in e2)
  BY <1>5, <1>10, XorBits
<1>12. Shifted4(c, d)
  BY <1>11, Shift4Bits
<1>13. Shifted4(d, e)
  BY <1>12, Shift4Bits DEF Shifted4
<1> HIDE DEF a, b, c, d, e
<1>14. e = e3
  BY <1>7, <1>4
<1>15. \A x \in Weights : x \notin e1 /\ x \notin e2
  BY <1>8, <1>9, <1>11, <1>12, <1>13, <1>14, <1>3, SMTT(60) DEF Shifted4, Weights
<1> QED
  BY <1>5, <1>15 DEF e1, e2

\* A frame that arrives is the one that was sent, or has places turned over.
LEMMA NoNoise ==
  ASSUME NEW frame, frame = [i \in DOMAIN frame |-> frame[i]]
  PROVE  Noisy(frame, {}) = frame
<1>1. \A b : SymDiff(b, {}) = b
  BY DEF SymDiff
<1>2. Noisy(frame, {}) = [i \in DOMAIN frame |-> SymDiff(frame[i], {})]
  BY DEF Noisy
<1> QED
  BY <1>1, <1>2

LEMMA ReceivedNoisy ==
  ASSUME NEW frame, frame = [i \in DOMAIN frame |-> frame[i]],
         NEW n \in 0 .. 3, NEW d \in Received(frame, n), d # frame
  PROVE  \E p, q, r \in Places(frame) : d = Noisy(frame, {p, q, r}) /\ (n <= 1 => p = q /\ q = r)
<1>1. PICK f \in [1 .. n -> Places(frame)] : d = Noisy(frame, Range(f))
  BY DEF Received
<1>2. n # 0
  <2> SUFFICES ASSUME n = 0 PROVE FALSE
    OBVIOUS
  <2>1. Range(f) = {}
    BY DEF Range
  <2> QED
    BY <1>1, <2>1, NoNoise
<1> DEFINE p == f[1]
           q == IF n = 1 THEN p ELSE f[2]
           r == IF n = 3 THEN f[3] ELSE q
<1>3. p \in Places(frame) /\ q \in Places(frame) /\ r \in Places(frame) /\ (n <= 1 => p = q /\ q = r)
  BY <1>2
<1>4. Range(f) = {p, q, r}
  <2>1. \A x : x \in Range(f) <=> \E k \in 1 .. n : x = f[k]
    BY DEF Range
  <2>2. \A x : (\E k \in 1 .. n : x = f[k]) <=> x = p \/ x = q \/ x = r
    BY <1>2
  <2> QED
    BY <2>1, <2>2
<1>5. d = Noisy(frame, {p, q, r})
  BY <1>1, <1>4
<1> HIDE DEF p, q, r
<1> QED
  BY <1>3, <1>5

------------------------------------------------------------------------------
(* The checksum of a DHT22.                                                *)

LEMMA Remainders ==
  ASSUME NEW x \in Nat, NEW w \in 1 .. 128
  PROVE  (x + w) % 256 # x % 256
<1>1. PICK q \in Nat, r \in 0 .. 255 : x = 256 * q + r /\ x % 256 = r
  <2>1. x = 256 * (x \div 256) + (x % 256) /\ x % 256 \in 0 .. 255 /\ x \div 256 \in Nat
    OBVIOUS
  <2> QED
    BY <2>1
<1>2. CASE r + w < 256
  BY <1>1, <1>2
<1>3. CASE r + w >= 256
  BY <1>1, <1>3
<1> QED
  BY <1>1, <1>2, <1>3

\* A sum that is off by one weight has another remainder.
LEMMA SumDiffers ==
  ASSUME NEW S \in Nat, NEW T \in Nat, NEW w \in Weights, T = S + w \/ T = S - w
  PROVE  Bits(T % 256) # Bits(S % 256)
<1>1. w \in 1 .. 128
  BY DEF Weights
<1>2. S % 256 \in 0 .. 255 /\ T % 256 \in 0 .. 255
  OBVIOUS
<1>3. S % 256 # T % 256
  <2>1. CASE T = S + w
    BY <1>1, <2>1, Remainders
  <2>2. CASE S = T + w
    BY <1>1, <2>2, Remainders
  <2> QED
    BY <1>1, <2>1, <2>2
<1>4. Value(Bits(S % 256)) = S % 256 /\ Value(Bits(T % 256)) = T % 256
  BY <1>2, ValueOfBits
<1> QED
  BY <1>3, <1>4

\* No single flip passes.
LEMMA Dht22OneFlip ==
  ASSUME NEW b1 \in SUBSET Weights, NEW b2 \in SUBSET Weights,
         NEW b3 \in SUBSET Weights, NEW b4 \in SUBSET Weights,
         NEW i \in 1 .. 5, NEW w \in Weights,
         NEW d, d = Noisy(<<b1, b2, b3, b4, Dht22Sum(b1, b2, b3, b4)>>, {<<i, w>>})
  PROVE  ~Dht22Valid(d)
<1> DEFINE sum == Dht22Sum(b1, b2, b3, b4)
           F == <<b1, b2, b3, b4, sum>>
           e(k) == {v \in Weights : <<k, v>> \in {<<i, w>>}}
<1>1. d = [k \in 1 .. 5 |-> SymDiff(F[k], e(k))]
  BY DEF Noisy
<1>2. \A k \in 1 .. 5 : e(k) = IF k = i THEN {w} ELSE {}
  OBVIOUS
<1>3. \A b : SymDiff(b, {}) = b
  BY DEF SymDiff
<1>4. sum \in SUBSET Weights
  BY DEF Dht22Sum, Bits
<1> HIDE DEF e, sum
<1>5. /\ d[1] = IF i = 1 THEN SymDiff(b1, {w}) ELSE b1
      /\ d[2] = IF i = 2 THEN SymDiff(b2, {w}) ELSE b2
      /\ d[3] = IF i = 3 THEN SymDiff(b3, {w}) ELSE b3
      /\ d[4] = IF i = 4 THEN SymDiff(b4, {w}) ELSE b4
      /\ d[5] = IF i = 5 THEN SymDiff(sum, {w}) ELSE sum
  BY <1>1, <1>2, <1>3
<1>6. {w} \in SUBSET Weights
  OBVIOUS
<1>7. CASE i = 5
  <2>1. d[5] # sum
    BY <1>5, <1>7 DEF SymDiff
  <2> QED
    BY <1>5, <1>7, <2>1 DEF Dht22Valid, sum
<1>8. CASE i # 5
  <2>1. i \in 1 .. 4
    BY <1>8
  <2>2. \A b \in SUBSET Weights :
          Value(SymDiff(b, {w})) = Value(b) + w \/ Value(SymDiff(b, {w})) = Value(b) - w
    BY ValueOfFlip
  <2>3. PICK v1 \in 0 .. 255 : v1 = Value(b1)
    BY ValueRange
  <2>4. PICK v2 \in 0 .. 255 : v2 = Value(b2)
    BY ValueRange
  <2>5. PICK v3 \in 0 .. 255 : v3 = Value(b3)
    BY ValueRange
  <2>6. PICK v4 \in 0 .. 255 : v4 = Value(b4)
    BY ValueRange
  <2>7. PICK u1 \in 0 .. 255 : u1 = Value(d[1])
    BY ValueRange
  <2>8. PICK u2 \in 0 .. 255 : u2 = Value(d[2])
    BY ValueRange
  <2>9. PICK u3 \in 0 .. 255 : u3 = Value(d[3])
    BY ValueRange
  <2>10. PICK u4 \in 0 .. 255 : u4 = Value(d[4])
    BY ValueRange
  <2>11. /\ IF i = 1 THEN u1 = v1 + w \/ u1 = v1 - w ELSE u1 = v1
         /\ IF i = 2 THEN u2 = v2 + w \/ u2 = v2 - w ELSE u2 = v2
         /\ IF i = 3 THEN u3 = v3 + w \/ u3 = v3 - w ELSE u3 = v3
         /\ IF i = 4 THEN u4 = v4 + w \/ u4 = v4 - w ELSE u4 = v4
    BY <1>5, <2>2, <2>3, <2>4, <2>5, <2>6, <2>7, <2>8, <2>9, <2>10
  <2>12. Bits((u1 + u2 + u3 + u4) % 256) # Bits((v1 + v2 + v3 + v4) % 256)
    <3> DEFINE S == v1 + v2 + v3 + v4
               T == u1 + u2 + u3 + u4
    <3>1. S \in Nat /\ T \in Nat
      OBVIOUS
    <3>2. w \in 1 .. 128
      BY DEF Weights
    <3>3. T = S + w \/ T = S - w
      BY <2>1, <2>11, <3>2
    <3> HIDE DEF S, T
    <3>4. Bits(T % 256) # Bits(S % 256)
      BY <3>1, <3>3, SumDiffers
    <3> QED
      BY <3>4 DEF S, T
  <2>13. Dht22Sum(d[1], d[2], d[3], d[4]) # sum
    BY <2>3, <2>4, <2>5, <2>6, <2>7, <2>8, <2>9, <2>10, <2>12 DEF Dht22Sum, sum
  <2> QED
    BY <1>5, <1>8, <2>13 DEF Dht22Valid
<1> QED
  BY <1>7, <1>8

------------------------------------------------------------------------------
(* Frames of an SHT31.                                                     *)

\* The CRC of a difference is the difference of the CRCs.
LEMMA CrcLinear ==
  ASSUME NEW b1 \in SUBSET Weights, NEW b2 \in SUBSET Weights,
         NEW e1 \in SUBSET Weights, NEW e2 \in SUBSET Weights
  PROVE  Crc8(SymDiff(b1, e1), SymDiff(b2, e2)) = SymDiff(Crc8(b1, b2), CrcByte(CrcByte({}, e1), e2))
<1>1. {} \in SUBSET Weights /\ Weights \in SUBSET Weights /\ SymDiff(Weights, {}) = Weights
  BY DEF SymDiff
<1> DEFINE x == CrcByte(Weights, b1)
           y == CrcByte({}, e1)
<1>2. x \in SUBSET Weights /\ y \in SUBSET Weights
  BY <1>1, CrcByteLinear
<1>3. CrcByte(SymDiff(Weights, {}), SymDiff(b1, e1)) = SymDiff(x, y)
  BY <1>1, CrcByteLinear
<1>4. CrcByte(SymDiff(x, y), SymDiff(b2, e2)) = SymDiff(CrcByte(x, b2), CrcByte(y, e2))
  BY <1>2, CrcByteLinear
<1> QED
  BY <1>1, <1>3, <1>4 DEF Crc8

\* What is turned over in the two bytes of a word whose CRC is accepted is
\* nothing.
LEMMA CrcCatches ==
  ASSUME NEW k \in {1, 4}, NEW P, UpToThree(P),
         NEW b1 \in SUBSET Weights, NEW b2 \in SUBSET Weights,
         Crc8(SymDiff(b1, Turned(k, P)), SymDiff(b2, Turned(k + 1, P)))
           = SymDiff(Crc8(b1, b2), Turned(k + 2, P))
  PROVE  SymDiff(b1, Turned(k, P)) = b1 /\ SymDiff(b2, Turned(k + 1, P)) = b2
<1>1. \A n : Turned(n, P) \in SUBSET Weights
  BY DEF Turned
<1>2. \A a, b, c : SymDiff(a, b) = SymDiff(a, c) => b = c
  <2> SUFFICES ASSUME NEW a, NEW b, NEW c, SymDiff(a, b) = SymDiff(a, c) PROVE b = c
    OBVIOUS
  <2>1. \A z : z \in SymDiff(a, b) <=> z \in SymDiff(a, c)
    OBVIOUS
  <2>2. \A z : z \in b <=> z \in c
    BY <2>1 DEF SymDiff
  <2> QED
    BY <2>2
<1>3. SymDiff(Crc8(b1, b2), CrcByte(CrcByte({}, Turned(k, P)), Turned(k + 1, P)))
        = SymDiff(Crc8(b1, b2), Turned(k + 2, P))
  BY <1>1, CrcLinear
<1>4. CrcByte(CrcByte({}, Turned(k, P)), Turned(k + 1, P)) = Turned(k + 2, P)
  BY <1>2, <1>3
<1>5. Turned(k, P) = {} /\ Turned(k + 1, P) = {}
  BY <1>4, ThreeFlips
<1> QED
  BY <1>5 DEF SymDiff

LEMMA FrameBytes ==
  /\ \A n : Bits(n) \in SUBSET Weights
  /\ \A b1, b2 \in SUBSET Weights : Crc8(b1, b2) \in SUBSET Weights
<1>1. \A n : Bits(n) \in SUBSET Weights
  BY DEF Bits
<1>2. ASSUME NEW b1 \in SUBSET Weights, NEW b2 \in SUBSET Weights
      PROVE  Crc8(b1, b2) \in SUBSET Weights
  <2>1. CrcByte(Weights, b1) \in SUBSET Weights
    BY CrcByteLinear
  <2> QED
    BY <2>1, CrcByteLinear DEF Crc8
<1> QED
  BY <1>1, <1>2

\* What sht31_read accepts is decoded as what the sensor sent, when noise
\* turns over three bits at most, wherever they are in the six bytes
\* (driver_sht31.c:80-92).
THEOREM Sht31Undetected ==
  ASSUME Sht31Flips <= 3, NEW s,
         NEW d \in Received(Sht31Frame(s), Sht31Flips), Sht31Valid(d)
  PROVE  Sht31Decode(d) = Sht31Truth(s)
<1> DEFINE F == Sht31Frame(s)
<1>1. CASE d = F
  BY <1>1 DEF Sht31Truth
<1>2. CASE d # F
  <2>1. F = [k \in DOMAIN F |-> F[k]] /\ DOMAIN F = 1 .. 6
    BY DEF Sht31Frame
  <2>2. Sht31Flips \in 0 .. 3
    BY SampleAssumption
  <2>3. d \in Received(F, Sht31Flips)
    OBVIOUS
  <2>4. Places(F) = (1 .. 6) \X Weights
    BY <2>1 DEF Places
  <2>5. /\ F[1] \in SUBSET Weights /\ F[2] \in SUBSET Weights /\ F[3] = Crc8(F[1], F[2])
        /\ F[4] \in SUBSET Weights /\ F[5] \in SUBSET Weights /\ F[6] = Crc8(F[4], F[5])
    BY FrameBytes DEF Sht31Frame, High, Low
  <2> HIDE DEF F
  <2>6. \E p, q, r \in Places(F) : d = Noisy(F, {p, q, r}) /\ (Sht31Flips <= 1 => p = q /\ q = r)
    BY <1>2, <2>1, <2>2, <2>3, ReceivedNoisy
  <2>7. PICK P : UpToThree(P) /\ d = Noisy(F, P)
    BY <2>4, <2>6 DEF UpToThree
  <2>8. \A k \in 1 .. 6 : d[k] = SymDiff(F[k], Turned(k, P))
    BY <2>1, <2>7 DEF Noisy, Turned
  <2>9. Crc8(d[1], d[2]) = d[3] /\ Crc8(d[4], d[5]) = d[6]
    BY DEF Sht31Valid
  <2>10. d[1] = F[1] /\ d[2] = F[2]
    <3>1. Crc8(SymDiff(F[1], Turned(1, P)), SymDiff(F[2], Turned(1 + 1, P)))
            = SymDiff(Crc8(F[1], F[2]), Turned(1 + 2, P))
      BY <2>5, <2>8, <2>9
    <3>2. SymDiff(F[1], Turned(1, P)) = F[1] /\ SymDiff(F[2], Turned(1 + 1, P)) = F[2]
      BY <2>5, <2>7, <3>1, CrcCatches
    <3> QED
      BY <2>8, <3>2
  <2>11. d[4] = F[4] /\ d[5] = F[5]
    <3>1. Crc8(SymDiff(F[4], Turned(4, P)), SymDiff(F[5], Turned(4 + 1, P)))
            = SymDiff(Crc8(F[4], F[5]), Turned(4 + 2, P))
      BY <2>5, <2>8, <2>9
    <3>2. SymDiff(F[4], Turned(4, P)) = F[4] /\ SymDiff(F[5], Turned(4 + 1, P)) = F[5]
      BY <2>5, <2>7, <3>1, CrcCatches
    <3> QED
      BY <2>8, <3>2
  <2> QED
    BY <2>10, <2>11 DEF Sht31Decode, Sht31Truth, F
<1> QED
  BY <1>1, <1>2

------------------------------------------------------------------------------
(* Single precision.                                                       *)

\* Rounding to the nearest integer is off by half a unit at most.
LEMMA NearestTen ==
  ASSUME NEW a \in Nat
  PROVE  Nearest(a, 10) \in Nat /\ 10 * Nearest(a, 10) - a \in -5 .. 5
  BY DEF Nearest

LEMMA NearestSixtyFour ==
  ASSUME NEW a \in Nat, NEW s \in {64, 128}
  PROVE  Nearest(a, s) * s - a \in -64 .. 64 /\ Nearest(a, s) \in Nat
  BY DEF Nearest

\* Every value has a scale, and what the rounding loses is less than it.
LEMMA ScaleExists ==
  ASSUME NEW x \in 1 .. 1250
  PROVE  \E p \in Scales : x * p >= 10 * Unit /\ x * p < 20 * Unit
<1> DEFINE Fits(k) == x * k >= 40960 /\ x * k < 81920
<1>1. \/ Fits(64) \/ Fits(128) \/ Fits(256) \/ Fits(512) \/ Fits(1024) \/ Fits(2048)
      \/ Fits(4096) \/ Fits(8192) \/ Fits(16384) \/ Fits(32768) \/ Fits(65536)
  BY SMT
<1>2. PICK k \in {1, 2, 4, 8, 16, 32, 64, 128, 256, 512, 1024, 2048, 4096, 8192, 16384, 32768, 65536} : Fits(k)
  BY <1>1, SMT
<1>3. 2048 * k \in Scales
  BY SMT DEF Scales
<1>4. x * (2048 * k) = 2048 * (x * k) /\ x * k \in Nat
  BY SMT
<1>5. x * (2048 * k) >= 10 * Unit /\ x * (2048 * k) < 20 * Unit
  BY <1>2, <1>4, SMT DEF Unit
<1> QED
  BY <1>3, <1>5, SMT

LEMMA Scaled ==
  ASSUME NEW x \in 1 .. 1250, NEW p \in Scales, x * p >= 10 * Unit, x * p < 20 * Unit,
         NEW r \in Nat, r - 10 * (x * p) \in -114 .. 114
  PROVE  r \div p \in {10 * x - 1, 10 * x}
  BY DEF Scales, Unit

\* A value of up to 125.0 arrives in hundredths, or as one hundredth less,
\* since the casts of TEMP_FLOAT_TO_RAW and HUM_FLOAT_TO_RAW truncate a
\* product that is rounded twice (app_protocol.h:147-148).
THEOREM FloatToRawNear ==
  ASSUME NEW x \in 0 .. 1250
  PROVE  FloatToRaw(x) \in Int /\ FloatToRaw(x) >= 0 /\ FloatToRaw(x) <= 10 * x /\ 10 * x - FloatToRaw(x) <= 1
<1>1. CASE x = 0
  BY <1>1 DEF FloatToRaw
<1>2. CASE x # 0
  <2> DEFINE p == CHOOSE p \in Scales : x * p >= 10 * Unit /\ x * p < 20 * Unit
             m == Nearest(x * p, 10)
             s == IF 100 * m >= 128 * Unit THEN 128 ELSE 64
             r == Nearest(100 * m, s) * s
  <2>1. p \in Scales /\ x * p >= 10 * Unit /\ x * p < 20 * Unit
    BY <1>2, ScaleExists
  <2>2. FloatToRaw(x) = r \div p
    BY <1>2 DEF FloatToRaw
  <2> HIDE DEF p
  <2>3. x * p \in Nat
    BY <2>1 DEF Scales, Unit
  <2>4. m \in Nat /\ 10 * m - x * p \in -5 .. 5
    BY <2>3, NearestTen
  <2>5. s \in {64, 128}
    OBVIOUS
  <2> HIDE DEF m, s
  <2>6. r - 100 * m \in -64 .. 64 /\ r \in Nat
    BY <2>4, <2>5, NearestSixtyFour
  <2> HIDE DEF r
  <2>7. r - 10 * (x * p) \in -114 .. 114
    BY <2>3, <2>4, <2>6
  <2>8. x \in 1 .. 1250
    BY <1>2
  <2>9. r \div p \in {10 * x - 1, 10 * x}
    BY <2>1, <2>6, <2>7, <2>8, Scaled
  <2> QED
    BY <2>2, <2>8, <2>9
<1> QED
  BY <1>1, <1>2

------------------------------------------------------------------------------
(* What the drivers return.                                                *)

\* What a driver returns as valid: in the range of the payload's fields, and
\* a hundredth from the truth at most.
Good(r, truth) ==
  /\ r.t \in Int /\ -13000 <= r.t /\ r.t <= 13000
  /\ r.h \in Int /\ 0 <= r.h /\ r.h <= 10000
  /\ -1 <= r.t - truth.t /\ r.t - truth.t <= 1
  /\ -1 <= r.h - truth.h /\ r.h - truth.h <= 1

\* The sign of a DHT22's temperature is the bit of weight 128 of its high byte.
LEMMA SignBit ==
  ASSUME NEW n \in 0 .. 127
  PROVE  128 \notin Bits(n) /\ 128 \in Bits(n + 128) /\ Bits(n + 128) \ {128} = Bits(n) /\ Bits(n) \ {128} = Bits(n)
<1>1. 128 \notin Bits(n) /\ 128 \in Bits(n + 128)
  BY DEF Bits, Weights
<1>2. \A w \in Weights \ {128} : w \in Bits(n + 128) <=> w \in Bits(n)
  BY DEF Bits, Weights
<1> QED
  BY <1>1, <1>2, FrameBytes

LEMMA Dht22Sent ==
  ASSUME NEW x \in -400 .. 1250, NEW y \in 0 .. 1000
  PROVE  /\ Good(Dht22Decode(Dht22Frame(<<x, y>>)), Dht22Truth(<<x, y>>))
         /\ Dht22Truth(<<x, y>>) \in [t : Int, h : Int]
<1> DEFINE s == <<x, y>>
           F == Dht22Frame(s)
           a == Abs(x)
           t == a + IF x < 0 THEN 32768 ELSE 0
<1>1. a \in 0 .. 1250 /\ a = IF x < 0 THEN -x ELSE x
  BY DEF Abs
<1>2. F[1] = High(y) /\ F[2] = Low(y) /\ F[3] = High(t) /\ F[4] = Low(t)
  BY DEF Dht22Frame
<1> HIDE DEF a
<1>3. /\ a \div 256 \in 0 .. 127 /\ t % 256 = a % 256
      /\ t \div 256 = (a \div 256) + IF x < 0 THEN 128 ELSE 0
  BY <1>1
<1> HIDE DEF F, t, s
<1>4. (128 \in F[3] <=> x < 0) /\ F[3] \ {128} = High(a) /\ F[4] = Low(a)
  BY <1>2, <1>3, SignBit DEF High, Low
<1>5. Word(F[3] \ {128}, F[4]) = a
  <2>1. a \in Int /\ 0 <= a /\ a <= 65535
    BY <1>1, SMT
  <2> QED
    BY <1>4, <2>1, WordRange, WordOfBytes
<1>6. Word(F[1], F[2]) = y
  <2>1. y \in Int /\ 0 <= y /\ y <= 65535
    BY SMT
  <2> QED
    BY <1>2, <2>1, WordRange, WordOfBytes
<1>7. Dht22Decode(F) = [t |-> IF x < 0 THEN -FloatToRaw(a) ELSE FloatToRaw(a), h |-> FloatToRaw(y)]
  BY <1>4, <1>5, <1>6 DEF Dht22Decode
<1>8. PICK u \in Int : u = FloatToRaw(a) /\ u >= 0 /\ u <= 10 * a /\ 10 * a - u <= 1
  <2>1. a \in 0 .. 1250
    BY <1>1
  <2> QED
    BY <2>1, FloatToRawNear
<1>9. PICK v \in Int : v = FloatToRaw(y) /\ v >= 0 /\ v <= 10 * y /\ 10 * y - v <= 1
  <2>1. y \in 0 .. 1250
    OBVIOUS
  <2> QED
    BY <2>1, FloatToRawNear
<1>10. PICK z \in Int : /\ z = IF x < 0 THEN -u ELSE u
                        /\ -13000 <= z /\ z <= 13000
                        /\ -1 <= z - 10 * x /\ z - 10 * x <= 1
  <2>1. CASE x < 0
    <3>1. -u \in Int /\ -13000 <= -u /\ -u <= 13000 /\ -1 <= -u - 10 * x /\ -u - 10 * x <= 1
      BY <1>1, <1>8, <2>1, SMT
    <3> QED
      BY <2>1, <3>1
  <2>2. CASE ~(x < 0)
    <3>1. u \in Int /\ -13000 <= u /\ u <= 13000 /\ -1 <= u - 10 * x /\ u - 10 * x <= 1
      BY <1>1, <1>8, <2>2, SMT
    <3> QED
      BY <2>2, <3>1
  <2> QED
    BY <2>1, <2>2
<1>11. Dht22Decode(F) = [t |-> z, h |-> v]
  BY <1>7, <1>8, <1>9, <1>10
<1>12. Dht22Truth(s) = [t |-> 10 * x, h |-> 10 * y]
  BY DEF Dht22Truth, s
<1>13. Good(Dht22Decode(F), Dht22Truth(s))
  <2>1. /\ Dht22Decode(F).t = z /\ Dht22Decode(F).h = v
        /\ Dht22Truth(s).t = 10 * x /\ Dht22Truth(s).h = 10 * y
    BY <1>11, <1>12
  <2>2. 0 <= v /\ v <= 10000 /\ -1 <= v - 10 * y /\ v - 10 * y <= 1
    BY <1>9, SMT
  <2> QED
    BY <1>10, <2>1, <2>2 DEF Good
<1> QED
  BY <1>12, <1>13 DEF F, s

\* What dht22_read_raw accepts is what the sensor sent, when noise turns over
\* one bit at most (driver_dht22.c:74-80).
THEOREM Dht22Undetected ==
  ASSUME Dht22Flips <= 1, NEW s, NEW d \in Received(Dht22Frame(s), Dht22Flips), Dht22Valid(d)
  PROVE  d = Dht22Frame(s)
<1> DEFINE F == Dht22Frame(s)
<1> SUFFICES ASSUME d # F PROVE FALSE
  OBVIOUS
<1>1. F = [k \in DOMAIN F |-> F[k]] /\ DOMAIN F = 1 .. 5
  BY DEF Dht22Frame
<1>2. Dht22Flips \in 0 .. 3 /\ Dht22Flips <= 1
  BY SampleAssumption
<1>3. d \in Received(F, Dht22Flips)
  OBVIOUS
<1>4. /\ F[1] \in SUBSET Weights /\ F[2] \in SUBSET Weights
      /\ F[3] \in SUBSET Weights /\ F[4] \in SUBSET Weights
      /\ F = <<F[1], F[2], F[3], F[4], Dht22Sum(F[1], F[2], F[3], F[4])>>
  BY FrameBytes DEF Dht22Frame, High, Low
<1> HIDE DEF F
<1>5. \E p, q, r \in Places(F) : d = Noisy(F, {p, q, r}) /\ (Dht22Flips <= 1 => p = q /\ q = r)
  BY <1>1, <1>2, <1>3, ReceivedNoisy
<1>6. PICK p \in Places(F) : d = Noisy(F, {p})
  BY <1>2, <1>5
<1>7. PICK i \in 1 .. 5, w \in Weights : p = <<i, w>>
  BY <1>1 DEF Places
<1>8. d = Noisy(<<F[1], F[2], F[3], F[4], Dht22Sum(F[1], F[2], F[3], F[4])>>, {<<i, w>>})
  BY <1>4, <1>6, <1>7
<1> QED
  BY <1>4, <1>8, Dht22OneFlip

LEMMA Sht31Sent ==
  ASSUME NEW w \in Words, NEW v \in Words
  PROVE  Good(Sht31Truth(<<w, v>>), Sht31Truth(<<w, v>>)) /\ Sht31Truth(<<w, v>>) \in [t : Int, h : Int]
<1> DEFINE s == <<w, v>>
           F == Sht31Frame(s)
           x == 17500 * w - 4500 * 65535
           t == Abs(x) \div 65535
           h == (10000 * v) \div 65535
<1>1. w \in Int /\ 0 <= w /\ w <= 65535 /\ v \in Int /\ 0 <= v /\ v <= 65535
  BY WordsAre
<1>2. F[1] = High(w) /\ F[2] = Low(w) /\ F[4] = High(v) /\ F[5] = Low(v)
  BY DEF Sht31Frame
<1> HIDE DEF F
<1>3. Word(F[1], F[2]) = w /\ Word(F[4], F[5]) = v
  BY <1>2, WordOfBytes
<1>4. Sht31Decode(F) = [t |-> IF x < 0 THEN -t ELSE t, h |-> h]
  BY <1>3, SMT DEF Sht31Decode
<1>5. t \in Int /\ 0 <= t /\ t <= 13000 /\ h \in Int /\ 0 <= h /\ h <= 10000
  BY <1>1, SMT DEF Abs
<1> HIDE DEF x, t, h
<1>6. Sht31Truth(s) = [t |-> IF x < 0 THEN -t ELSE t, h |-> h]
  BY <1>4 DEF Sht31Truth, F
<1>7. PICK u \in Int : u = (IF x < 0 THEN -t ELSE t) /\ -13000 <= u /\ u <= 13000
  <2>1. -t \in Int /\ -13000 <= -t /\ -t <= 13000 /\ -13000 <= t
    BY <1>5, SMT
  <2> QED
    BY <1>5, <2>1
<1>8. Sht31Truth(s) = [t |-> u, h |-> h]
  BY <1>6, <1>7
<1>9. u - u = 0 /\ h - h = 0
  BY <1>5, <1>7, SMT
<1>10. Good(Sht31Truth(s), Sht31Truth(s))
  BY <1>5, <1>7, <1>8, <1>9 DEF Good
<1> QED
  BY <1>5, <1>8, <1>10

\* Every valid reading of either driver is good.
THEOREM ReadsGood ==
  ASSUME Dht22Flips <= 1, Sht31Flips <= 3,
         NEW b \in {"dht22", "sht31"}, NEW m \in Measurements[b], NEW r \in m.reads, r.ok
  PROVE  Good(r, m.truth) /\ m.truth \in [t : Int, h : Int]
<1>1. CASE b = "dht22"
  <2>1. PICK s \in Dht22Samples : m = [truth |-> Dht22Truth(s), reads |-> Dht22Reads(s)]
    BY <1>1 DEF Measurements
  <2>2. PICK x \in -400 .. 1250, y \in 0 .. 1000 : s = <<x, y>>
    <3> DEFINE A == -400 .. 1250
               B == 0 .. 1000
    <3>1. s \in A \X B
      BY SampleAssumption
    <3> HIDE DEF A, B
    <3>2. \E x \in A, y \in B : s = <<x, y>>
      BY <3>1, Pairs
    <3> QED
      BY <3>2 DEF A, B
  <2>3. PICK d \in Received(Dht22Frame(s), Dht22Flips) : r = Read(d, Dht22Valid(d), Dht22Decode(d))
    BY <2>1 DEF Dht22Reads, Failed
  <2>4. Dht22Valid(d) /\ r.t = Dht22Decode(d).t /\ r.h = Dht22Decode(d).h
    BY <2>3 DEF Read, Failed
  <2>5. d = Dht22Frame(s)
    BY <2>4, Dht22Undetected
  <2>6. Good(Dht22Decode(d), Dht22Truth(s)) /\ Dht22Truth(s) \in [t : Int, h : Int]
    BY <2>2, <2>5, Dht22Sent
  <2>7. m.truth = Dht22Truth(s) /\ r.t = Dht22Decode(d).t /\ r.h = Dht22Decode(d).h
    BY <2>1, <2>4
  <2> QED
    BY <2>6, <2>7 DEF Good
<1>2. CASE b = "sht31"
  <2>1. PICK s \in Sht31Samples : m = [truth |-> Sht31Truth(s), reads |-> Sht31Reads(s)]
    BY <1>2 DEF Measurements
  <2>2. PICK w \in Words, v \in Words : s = <<w, v>>
    BY SampleAssumption
  <2>3. PICK d \in Received(Sht31Frame(s), Sht31Flips) : r = Read(d, Sht31Valid(d), Sht31Decode(d))
    BY <2>1 DEF Sht31Reads, Failed
  <2>4. Sht31Valid(d) /\ r.t = Sht31Decode(d).t /\ r.h = Sht31Decode(d).h
    BY <2>3 DEF Read, Failed
  <2>5. Sht31Decode(d) = Sht31Truth(s)
    BY <2>4, Sht31Undetected
  <2>6. Good(Sht31Truth(s), Sht31Truth(s)) /\ Sht31Truth(s) \in [t : Int, h : Int]
    BY <2>2, Sht31Sent
  <2>7. m.truth = Sht31Truth(s) /\ r.t = Sht31Truth(s).t /\ r.h = Sht31Truth(s).h
    BY <2>1, <2>4, <2>5
  <2> QED
    BY <2>6, <2>7 DEF Good
<1> QED
  BY <1>1, <1>2
==============================================================================
