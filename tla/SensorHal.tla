------------------------------ MODULE SensorHal ------------------------------
(***************************************************************************)
(* The sensor drivers (driver_dht22.c, driver_sht31.c) and the conversion  *)
(* to the units of the payload (app_protocol.h), as functions of the bytes *)
(* that a sensor sends.  Temperatures and humidities are kept in the unit  *)
(* they are sent in, hundredths; a float between the driver and the        *)
(* payload has no other use.                                               *)
(***************************************************************************)
EXTENDS Integers, Sequences, FiniteSetsExt

CONSTANTS
  Dht22Samples,  \* <<temperature, humidity>> in tenths, as the sensor measures
  Sht31Samples,  \* <<temperature, humidity>> as 16-bit words
  Dht22Flips,    \* bound: bits a frame of each sensor loses to noise
  Sht31Flips

Words == 0 .. 65535

ASSUME SampleAssumption ==
  /\ Dht22Samples \subseteq (-400 .. 1250) \X (0 .. 1000)
  /\ Sht31Samples \subseteq Words \X Words
  /\ Dht22Flips \in Nat /\ Sht31Flips \in Nat

------------------------------------------------------------------------------
(* Bytes, as the sets of the weights of their 1 bits: ^ is SymDiff.        *)

Weights == {1, 2, 4, 8, 16, 32, 64, 128}
Bits(n) == {w \in Weights : (n \div w) % 2 = 1}

Value(b) ==
  LET bit(w) == IF w \in b THEN w ELSE 0
  IN  bit(1) + bit(2) + bit(4) + bit(8) + bit(16) + bit(32) + bit(64) + bit(128)

Word(hi, lo) == Value(hi) * 256 + Value(lo)
High(w)      == Bits(w \div 256)
Low(w)       == Bits(w % 256)

\* A frame with the bits at these places, <<byte, weight>>, turned over.
Places(frame) == (DOMAIN frame) \X Weights
Noisy(frame, places) ==
  [i \in DOMAIN frame |-> SymDiff(frame[i], {w \in Weights : <<i, w>> \in places})]

\* The frames that arrive when up to n bits are hit.
Received(frame, n) ==
  {frame} \cup {Noisy(frame, Range(f)) : f \in [1 .. n -> Places(frame)]}

Abs(x) == IF x < 0 THEN -x ELSE x

------------------------------------------------------------------------------
(* TEMP_FLOAT_TO_RAW and HUM_FLOAT_TO_RAW of tenths / 10.0f.  Both          *)
(* operations round to the 24 bits of a float; the cast truncates.         *)

\* a / b to the nearest integer, ties to even.
Nearest(a, b) ==
  LET q == a \div b
      r == 2 * (a % b)
  IN  IF r > b \/ (r = b /\ q % 2 = 1) THEN q + 1 ELSE q

Unit == 8192 * 1024   \* 2^23

\* The powers of two that scale a word's tenths to 24 bits.
Scales == {2048 * k : k \in {1, 2, 4, 8, 16, 32, 64, 128, 256, 512, 1024, 2048, 4096, 8192,
                             16384, 32768, 65536}}

\* tenths / 10 = m / p, with m from 2^23 to 2^24.
FloatToRaw(tenths) ==
  IF tenths = 0 THEN 0
  ELSE LET p == CHOOSE p \in Scales : tenths * p >= 10 * Unit /\ tenths * p < 20 * Unit
           m == Nearest(tenths * p, 10)
           s == IF 100 * m >= 128 * Unit THEN 128 ELSE 64
       IN  (Nearest(100 * m, s) * s) \div p

------------------------------------------------------------------------------
(* DHT22: humidity, temperature as sign and magnitude, and a sum.          *)

Dht22Sum(b1, b2, b3, b4) == Bits((Value(b1) + Value(b2) + Value(b3) + Value(b4)) % 256)

Dht22Frame(s) ==
  LET t == Abs(s[1]) + IF s[1] < 0 THEN 32768 ELSE 0
  IN  <<High(s[2]), Low(s[2]), High(t), Low(t),
        Dht22Sum(High(s[2]), Low(s[2]), High(t), Low(t))>>

Dht22Valid(d) == Dht22Sum(d[1], d[2], d[3], d[4]) = d[5]

\* Mutant of Dht22Decode: the sign is read as a part of the magnitude.
Dht22DecodeUnmasked(d) ==
  LET t == FloatToRaw(Word(d[3], d[4]))
  IN  [t |-> IF 128 \in d[3] THEN -t ELSE t, h |-> FloatToRaw(Word(d[1], d[2]))]

Dht22Decode(d) ==
  LET t == FloatToRaw(Word(d[3] \ {128}, d[4]))
  IN  [t |-> IF 128 \in d[3] THEN -t ELSE t, h |-> FloatToRaw(Word(d[1], d[2]))]

Dht22Truth(s) == [t |-> 10 * s[1], h |-> 10 * s[2]]

------------------------------------------------------------------------------
(* SHT31: two words, each with a CRC-8 (0x31, from 0xFF).                  *)

CrcShift(c) == SymDiff({2 * w : w \in c \ {128}}, IF 128 \in c THEN {1, 16, 32} ELSE {})
CrcShift4(c) == CrcShift(CrcShift(CrcShift(CrcShift(c))))
CrcByte(crc, b) == CrcShift4(CrcShift4(SymDiff(crc, b)))
Crc8(b1, b2)    == CrcByte(CrcByte(Weights, b1), b2)

Sht31Frame(s) ==
  <<High(s[1]), Low(s[1]), Crc8(High(s[1]), Low(s[1])),
    High(s[2]), Low(s[2]), Crc8(High(s[2]), Low(s[2]))>>

\* Mutant of Sht31Valid: the second word is not checked.
Sht31ValidFirst(d) == Crc8(d[1], d[2]) = d[3]

Sht31Valid(d) == Crc8(d[1], d[2]) = d[3] /\ Crc8(d[4], d[5]) = d[6]

\* -45 + 175 * word / 65535 and 100 * word / 65535, in exact arithmetic: the
\* floats of the code differ by less than one hundredth.
Sht31Decode(d) ==
  LET x == 17500 * Word(d[1], d[2]) - 4500 * 65535
      t == Abs(x) \div 65535
  IN  [t |-> IF x < 0 THEN -t ELSE t, h |-> (10000 * Word(d[4], d[5])) \div 65535]

Sht31Truth(s) == Sht31Decode(Sht31Frame(s))

------------------------------------------------------------------------------
(* What a read returns: the decoded frame, or an error for a frame that    *)
(* does not come or whose check fails.                                     *)

Failed == [ok |-> FALSE, t |-> 0, h |-> 0]
Read(d, valid, value) == IF valid THEN [ok |-> TRUE, t |-> value.t, h |-> value.h] ELSE Failed

Dht22Reads(s) ==
  {Failed} \cup {Read(d, Dht22Valid(d), Dht22Decode(d)) : d \in Received(Dht22Frame(s), Dht22Flips)}
Sht31Reads(s) ==
  {Failed} \cup {Read(d, Sht31Valid(d), Sht31Decode(d)) : d \in Received(Sht31Frame(s), Sht31Flips)}

\* The measurements of each sensor: what is true, and what a read may return.
Measurements ==
  [dht22 |-> {[truth |-> Dht22Truth(s), reads |-> Dht22Reads(s)] : s \in Dht22Samples},
   sht31 |-> {[truth |-> Sht31Truth(s), reads |-> Sht31Reads(s)] : s \in Sht31Samples}]
==============================================================================
