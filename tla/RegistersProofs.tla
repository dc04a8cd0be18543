--------------------------- MODULE RegistersProofs ---------------------------
(***************************************************************************)
(* Proofs about what stands in registers, from either side of it.          *)
(*                                                                         *)
(* Of Readings, for every width of a byte, every set of channels the       *)
(* configuration takes, every value and every request: what a write puts   *)
(* into the registers reads back as the value written, and what a poll     *)
(* reads is what the device holds.  Powers of two are counted as sets of   *)
(* bits; a format permutes the bytes of a number; what is laid down apart  *)
(* reads back whole; a raw value is the nearest to its fraction.           *)
(*                                                                         *)
(* Of Config, for every list of files and every limit: the order of the    *)
(* lines does not matter, a template runs once on every module, and what   *)
(* is accepted can be sent.  The lines read so far and the configuration   *)
(* say the same, line by line; the copies of a list are counted by the     *)
(* rank of their places; the encoding of a block is that of Readings.      *)
(***************************************************************************)
EXTENDS Readings, Config, FiniteSetTheorems, SequenceTheorems, WellFoundedInduction, TLAPS

-----------------------------------------------------------------------------
(***************************************************************************)
(* Powers of two, counted as the subsets of an interval.                   *)
(***************************************************************************)
LEMMA PowerIs ==
  ASSUME NEW n \in Nat
  PROVE  2^n \in Nat /\ 2^n = Cardinality(SUBSET (1..n))
<1>1. IsFiniteSet(1..n) /\ Cardinality(1..n) = n
  BY FS_Interval
<1>2. IsFiniteSet(SUBSET (1..n)) /\ Cardinality(SUBSET (1..n)) = 2^n
  BY <1>1, FS_SUBSET
<1> QED
  BY <1>2, FS_CardinalityType

\* Two sets, one of either interval, are a subset of both together.
LEMMA PowerSum ==
  ASSUME NEW m \in Nat, NEW n \in Nat
  PROVE  2^(m + n) = 2^m * 2^n
<1> DEFINE A == 1..m
           B == m + 1..m + n
           f == [p \in (SUBSET A) \X (SUBSET B) |-> p[1] \cup p[2]]
<1>1. IsFiniteSet(A) /\ Cardinality(A) = m
  BY FS_Interval
<1>2. IsFiniteSet(B) /\ Cardinality(B) = n
  BY FS_Interval
<1>3. IsFiniteSet(SUBSET A) /\ Cardinality(SUBSET A) = 2^m
  BY <1>1, FS_SUBSET
<1>4. IsFiniteSet(SUBSET B) /\ Cardinality(SUBSET B) = 2^n
  BY <1>2, FS_SUBSET
<1>5. IsFiniteSet((SUBSET A) \X (SUBSET B))
      /\ Cardinality((SUBSET A) \X (SUBSET B)) = 2^m * 2^n
  <2> HIDE DEF A, B
  <2> QED BY ZenonT(60), <1>3, <1>4, FS_Product
<1>6. A \cap B = {} /\ A \cup B = 1..m + n
  OBVIOUS
<1>7. f \in Bijection((SUBSET A) \X (SUBSET B), SUBSET (1..m + n))
  <2> HIDE DEF A, B
  <2>1. f \in [(SUBSET A) \X (SUBSET B) -> SUBSET (1..m + n)]
    BY <1>6
  <2>2. ASSUME NEW p \in (SUBSET A) \X (SUBSET B), NEW q \in (SUBSET A) \X (SUBSET B), f[p] = f[q]
        PROVE  p = q
    <3>1. PICK pa \in SUBSET A, pb \in SUBSET B : p = <<pa, pb>>
      OBVIOUS
    <3>2. PICK qa \in SUBSET A, qb \in SUBSET B : q = <<qa, qb>>
      OBVIOUS
    <3>3. pa \cup pb = qa \cup qb
      BY <2>2, <3>1, <3>2
    <3>4. pa = qa /\ pb = qb
      BY <3>3, <1>6
    <3> QED BY <3>1, <3>2, <3>4
  <2>3. ASSUME NEW s \in SUBSET (1..m + n)
        PROVE  \E p \in (SUBSET A) \X (SUBSET B) : f[p] = s
    <3>1. <<s \cap A, s \cap B>> \in (SUBSET A) \X (SUBSET B)
      OBVIOUS
    <3>2. f[<<s \cap A, s \cap B>>] = s
      BY <1>6, <3>1
    <3> QED BY <3>1, <3>2
  <2> HIDE DEF f
  <2> QED BY ZenonT(60), <2>1, <2>2, <2>3 DEF Bijection, Injection, Surjection, IsInjective
<1>8. Cardinality(SUBSET (1..m + n)) = 2^m * 2^n
  <2> HIDE DEF A, B
  <2> QED BY <1>5, <1>7, FS_Bijection DEF ExistsBijection
<1> QED
  BY <1>8, PowerIs

\* The first powers.
LEMMA PowerSmall == 2^0 = 1 /\ 2^1 = 2
<1>1. SUBSET (1..0) = {{}} /\ SUBSET (1..1) = {{}} \cup {{1}}
  OBVIOUS
<1>2. IsFiniteSet({{}}) /\ Cardinality({{}}) = 1
  BY FS_Singleton
<1>3. Cardinality({{}} \cup {{1}}) = 2
  <2>1. {1} \notin {{}}
    OBVIOUS
  <2>2. Cardinality({{}} \cup {{1}}) = Cardinality({{}}) + 1
    BY <1>2, <2>1, FS_AddElement
  <2> QED BY <1>2, <2>2
<1>4. 2^0 = 1
  BY <1>1, <1>2, PowerIs
<1>5. 2^1 = 2
  BY <1>1, <1>3, PowerIs
<1> QED BY <1>4, <1>5

\* One more place doubles a power, and none is zero.
LEMMA PowerNext ==
  ASSUME NEW n \in Nat
  PROVE  2^n \in Nat \ {0} /\ 2^(n + 1) = 2 * 2^n
<1>1. 2^n \in Nat /\ 2^(n + 1) = 2^n * 2
  BY PowerSum, PowerSmall, PowerIs
<1>2. IsFiniteSet(1..n)
  BY FS_Interval
<1>3. IsFiniteSet(SUBSET (1..n)) /\ SUBSET (1..n) # {}
  BY <1>2, FS_SUBSET
<1>4. 2^n # 0
  BY <1>3, PowerIs, FS_EmptySet
<1> QED BY <1>1, <1>4

\* The weights of the bytes of a number.
LEMMA Weights ==
  /\ Byte \in Nat /\ Byte > 1 /\ Byte % 2 = 0
  /\ Nibble \in Nat \ {0} /\ Ten <= Nibble
  /\ Weight(0) = 1 /\ Weight(1) = Byte /\ Weight(2) = Byte * Byte
  /\ Weight(3) = Byte * (Byte * Byte) /\ Weight(4) = (Byte * Byte) * (Byte * Byte)
<1>1. Bits \in Nat \ {0} /\ Bits \div 2 \in Nat /\ Bits - 1 \in Nat
  BY RegistersAssumption
<1>2. Byte \in Nat /\ Byte > 1 /\ Byte % 2 = 0
  <2>1. 2^(Bits - 1) \in Nat \ {0} /\ 2^((Bits - 1) + 1) = 2 * 2^(Bits - 1)
    BY <1>1, PowerNext
  <2>2. (Bits - 1) + 1 = Bits
    BY <1>1
  <2>3. PICK h \in Nat \ {0} : Byte = 2 * h
    BY <2>1, <2>2 DEF Byte
  <2> QED BY <2>3
<1>3. Nibble \in Nat \ {0} /\ Ten <= Nibble
  <2>1. 2^(Bits \div 2) \in Nat \ {0}
    BY <1>1, PowerNext
  <2>2. Nibble \in Nat \ {0}
    BY <2>1 DEF Nibble
  <2>3. Ten \in 1..Nibble
    BY RegistersAssumption DEF Nibble
  <2> QED BY <2>2, <2>3
<1>4. Weight(0) = 1
  <2>1. Bits * 0 = 0
    BY <1>1
  <2> QED BY <2>1, PowerSmall DEF Weight
<1>5. \A j, k \in Nat : Weight(j + k) = Weight(j) * Weight(k)
  <2> TAKE j, k \in Nat
  <2>1. PICK x, y : x = Bits * j /\ y = Bits * k
    OBVIOUS
  <2>2. x \in Nat /\ y \in Nat /\ Bits * (j + k) = x + y
    BY <1>1, <2>1
  <2>3. 2^(x + y) = 2^x * 2^y
    BY <2>2, PowerSum
  <2> QED BY <2>1, <2>2, <2>3 DEF Weight
<1>6. Weight(1) = Byte
  BY <1>1 DEF Weight, Byte
<1>7. Weight(2) = Byte * Byte
  BY <1>5, <1>6, 1 + 1 = 2
<1>8. Weight(3) = Byte * (Byte * Byte)
  BY <1>5, <1>6, <1>7, 1 + 2 = 3
<1>9. Weight(4) = (Byte * Byte) * (Byte * Byte)
  BY <1>5, <1>7, 2 + 2 = 4
<1> QED BY <1>2, <1>3, <1>4, <1>6, <1>7, <1>8, <1>9

-----------------------------------------------------------------------------
(***************************************************************************)
(* Division.                                                               *)
(***************************************************************************)
LEMMA Divides ==
  ASSUME NEW a \in Int, NEW n \in Nat \ {0}
  PROVE  a \div n \in Int /\ a % n \in 0..n - 1 /\ a = n * (a \div n) + (a % n)
OBVIOUS

\* The only quotient and the only remainder there are.
LEMMA DividesAs ==
  ASSUME NEW n \in Nat \ {0}, NEW q \in Int, NEW r \in 0..n - 1
  PROVE  (n * q + r) \div n = q /\ (n * q + r) % n = r
BY SMTT(30)

\* Digits of base m and n: the number they make up.
LEMMA TwoDigits ==
  ASSUME NEW a \in Int, NEW m \in Nat \ {0}, NEW n \in Nat \ {0}, NEW w, w = m * n
  PROVE  /\ w \in Nat \ {0}
         /\ a % w = m * ((a \div m) % n) + (a % m)
         /\ a \div w = (a \div m) \div n
<1>1. PICK q \in Int, r \in 0..m - 1 : a = m * q + r /\ q = a \div m /\ r = a % m
  BY Divides
<1>2. PICK p \in Int, s \in 0..n - 1 : q = n * p + s /\ p = q \div n /\ s = q % n
  BY Divides
<1>3. w \in Nat \ {0}
  OBVIOUS
<1>4. m * s + r \in 0..w - 1
  <2>1. m * s + r \in Nat
    OBVIOUS
  <2>2. m * (s + 1) <= m * n
    OBVIOUS
  <2>3. m * (s + 1) = m * s + m
    OBVIOUS
  <2> QED BY <1>3, <2>1, <2>2, <2>3
<1>5. a = w * p + (m * s + r)
  <2>1. m * (n * p + s) = (m * n) * p + m * s
    OBVIOUS
  <2>2. a = m * (n * p + s) + r
    BY <1>1, <1>2
  <2>3. m * s \in Int /\ (m * n) * p \in Int
    OBVIOUS
  <2> QED BY <2>1, <2>2, <2>3
<1>6. a \div w = p /\ a % w = m * s + r
  <2>1. PICK t \in 0..w - 1 : t = m * s + r
    BY <1>4
  <2> QED BY SMTT(30), <1>3, <1>5, <2>1, DividesAs
<1> QED BY <1>1, <1>2, <1>3, <1>6

-----------------------------------------------------------------------------
(***************************************************************************)
(* Numbers.  A format lays the bytes of a number down in some order and    *)
(* takes them up again in the same.                                        *)
(***************************************************************************)
LEMMA Orders ==
  ASSUME NEW f \in Numbers
  PROVE  \/ FormatSize(f) = 1 /\ ByteOrder(f) = <<1>>
         \/ FormatSize(f) = 2 /\ ByteOrder(f) \in {<<1, 2>>, <<2, 1>>}
         \/ /\ FormatSize(f) = 4
            /\ ByteOrder(f) \in {<<1, 2, 3, 4>>, <<2, 1, 4, 3>>, <<4, 3, 2, 1>>, <<3, 4, 1, 2>>}
<1> USE DEF OneByte, TwoBytes, FourBytes, Floats
<1>1. CASE f \in OneByte
  BY <1>1 DEF FormatSize, ByteOrder
<1>2. CASE f \in TwoBytes
  <2>1. FormatSize(f) = 2
    BY <1>2 DEF FormatSize
  <2>2. ByteOrder(f) \in {<<1, 2>>, <<2, 1>>}
    BY <1>2 DEF ByteOrder
  <2> QED BY <2>1, <2>2
<1>3. CASE f \in FourBytes
  <2>1. FormatSize(f) = 4
    BY <1>3 DEF FormatSize
  <2>2. ByteOrder(f) \in {<<1, 2, 3, 4>>, <<2, 1, 4, 3>>, <<4, 3, 2, 1>>, <<3, 4, 1, 2>>}
    BY <1>3 DEF ByteOrder
  <2> QED BY <2>1, <2>2
<1> QED BY <1>1, <1>2, <1>3 DEF Numbers

\* The byte of a number that stands where the format has its k-th.
LEMMA Laid ==
  ASSUME NEW f \in Numbers, NEW raw \in Int, NEW k \in 1..FormatSize(f)
  PROVE  /\ ByteOrder(f)[k] \in 1..FormatSize(f)
         /\ EncodeValue(f, raw)[ByteOrder(f)[k]] = (raw \div Weight(FormatSize(f) - k)) % Byte
<1> DEFINE size == FormatSize(f)
           o == ByteOrder(f)
<1>1. /\ size \in Nat
      /\ \A j \in 1..size : o[j] \in 1..size
      /\ \A i, j \in 1..size : o[i] = o[j] => i = j
  BY Orders
<1> HIDE DEF size, o
<1>2. PICK at \in 1..size : at = o[k]
  BY <1>1 DEF size
<1>3. (CHOOSE j \in 1..size : o[j] = at) = k
  BY <1>1, <1>2 DEF size
<1>4. EncodeValue(f, raw)[at]
        = LET i == CHOOSE j \in 1..size : o[j] = at IN (raw \div Weight(size - i)) % Byte
  BY <1>2 DEF EncodeValue, size, o
<1> QED BY <1>2, <1>3, <1>4 DEF size, o

\* A number is laid down in as many bytes as its format has.
LEMMA Encoded ==
  ASSUME NEW f \in Numbers, NEW raw \in Int
  PROVE  /\ FormatSize(f) \in 1..4
         /\ DOMAIN EncodeValue(f, raw) = 1..FormatSize(f)
BY Orders DEF EncodeValue

\* What is read back is the number, without the high bytes that did not fit.
LEMMA WordIs ==
  ASSUME NEW f \in Numbers, NEW raw \in Int, NEW bytes,
         \A at \in 1..FormatSize(f) : bytes[at] = EncodeValue(f, raw)[at]
  PROVE  Word(f, bytes) = raw % Weight(FormatSize(f))
<1> DEFINE size == FormatSize(f)
           b(k) == bytes[ByteOrder(f)[k]]
<1>1. \A k \in 1..size : b(k) = (raw \div Weight(size - k)) % Byte
  BY Laid
<1>2. raw \div 1 = raw
  OBVIOUS
<1>3. CASE size = 1
  <2>1. b(1) = (raw \div Weight(0)) % Byte
    BY <1>1, <1>3
  <2>2. b(1) = raw % Weight(1)
    BY <2>1, <1>2, Weights
  <2>3. Word(f, bytes) = b(1)
    BY <1>3 DEF Word
  <2> QED BY <2>2, <2>3, <1>3
<1>4. CASE size = 2
  <2>1. b(1) = (raw \div Byte) % Byte /\ b(2) = raw % Byte
    BY <1>1, <1>2, <1>4, Weights
  <2>2. Word(f, bytes) = b(1) * Byte + b(2)
    BY <1>4 DEF Word
  <2>3. PICK B \in Nat \ {0} : B = Byte
    BY Weights
  <2>4. PICK C \in Nat \ {0} : C = B * B
    BY <2>3
  <2>5. raw % C = B * ((raw \div B) % B) + (raw % B)
    BY <2>4, TwoDigits
  <2>6. b(1) \in Int /\ b(2) \in Int /\ raw % C = B * b(1) + b(2)
    BY <2>1, <2>3, <2>5, Divides
  <2> QED BY <2>2, <2>3, <2>4, <2>6, <1>4, Weights
<1>5. CASE size = 4
  <2>1. /\ b(1) = (raw \div (Byte * (Byte * Byte))) % Byte
        /\ b(2) = (raw \div (Byte * Byte)) % Byte
        /\ b(3) = (raw \div Byte) % Byte
        /\ b(4) = raw % Byte
    BY <1>1, <1>2, <1>5, Weights
  <2>2. Word(f, bytes) = ((b(1) * Byte + b(2)) * Byte + b(3)) * Byte + b(4)
    BY <1>5 DEF Word
  <2>3. PICK B \in Nat \ {0} : B = Byte
    BY Weights
  <2>4. PICK C \in Nat \ {0} : C = B * B
    OBVIOUS
  <2>5. PICK D \in Nat \ {0} : D = C * C
    OBVIOUS
  <2>6. PICK hi \in Int, lo \in Int : /\ hi = (raw \div C) % C /\ lo = raw % C
                                    /\ raw % D = C * hi + lo
    <3>1. raw % D = C * ((raw \div C) % C) + (raw % C)
      BY <2>5, TwoDigits
    <3>2. (raw \div C) % C \in Int /\ raw % C \in Int
      BY Divides
    <3> QED BY <3>1, <3>2
  <2>7. b(3) \in Int /\ b(4) \in Int /\ lo = B * b(3) + b(4)
    <3>1. raw % C = B * ((raw \div B) % B) + (raw % B)
      BY <2>4, TwoDigits
    <3>2. (raw \div B) % B \in Int /\ raw % B \in Int
      BY Divides
    <3> QED BY <2>1, <2>3, <2>6, <3>1, <3>2
  <2>8. b(1) \in Int /\ b(2) \in Int /\ hi = B * b(1) + b(2)
    <3>1. PICK r \in Int : r = raw \div C
      BY Divides
    <3>2. r % C = B * ((r \div B) % B) + (r % B)
      BY <2>4, TwoDigits
    <3>3. (r \div B) % B \in Int /\ r % B \in Int
      BY Divides
    <3>4. r \div B = raw \div (B * C)
      <4>1. PICK w \in Nat \ {0} : w = C * B /\ w = B * C
        OBVIOUS
      <4>2. raw \div w = (raw \div C) \div B
        BY <4>1, TwoDigits
      <4> QED BY <3>1, <4>1, <4>2
    <3>5. b(1) = (r \div B) % B /\ b(2) = r % B
      BY <2>1, <2>3, <2>4, <3>1, <3>4
    <3> QED BY <2>6, <3>1, <3>2, <3>3, <3>5
  <2>9. C * (B * b(1) + b(2)) + (B * b(3) + b(4)) = ((b(1) * B + b(2)) * B + b(3)) * B + b(4)
    <3>1. PICK w \in Int, x \in Int, y \in Int, z \in Int : w = b(1) /\ x = b(2) /\ y = b(3) /\ z = b(4)
      BY <2>7, <2>8
    <3>2. (B * B) * (B * w + x) + (B * y + z) = ((w * B + x) * B + y) * B + z
      OBVIOUS
    <3> QED BY <2>4, <3>1, <3>2
  <2>10. raw % D = ((b(1) * B + b(2)) * B + b(3)) * B + b(4)
    BY <2>6, <2>7, <2>8, <2>9
  <2>11. Weight(4) = D
    BY <2>3, <2>4, <2>5, Weights
  <2> QED BY <2>2, <2>3, <2>10, <2>11, <1>5
<1> QED BY <1>3, <1>4, <1>5, Orders

\* A format holds as many numbers as its bytes can count, zero among them.
LEMMA FormatWeights ==
  ASSUME NEW f \in Numbers
  PROVE  /\ Weight(FormatSize(f)) \in Nat \ {0} /\ Weight(FormatSize(f)) % 2 = 0
         /\ Low(f) \in Int /\ High(f) \in Int
         /\ High(f) = Low(f) + Weight(FormatSize(f)) - 1 /\ Low(f) <= 0 /\ High(f) >= 0
<1>1. PICK B \in Nat, h \in Nat \ {0} : B = Byte /\ B = 2 * h
  BY Weights
<1>2. Weight(1) = 2 * h
  BY <1>1, Weights
<1>3. Weight(2) = 2 * (h * B) /\ h * B \in Nat \ {0}
  BY <1>1, Weights
<1>4. Weight(4) = 2 * (h * B * (B * B)) /\ h * B * (B * B) \in Nat \ {0}
  <2>1. B * B \in Nat \ {0} /\ B * B = 2 * (h * B)
    BY <1>1
  <2>2. PICK C \in Nat \ {0}, x \in Nat \ {0} : C = B * B /\ x = h * B /\ C = 2 * x
    BY <2>1, <1>3
  <2>3. C * C = 2 * (x * C) /\ x * C \in Nat \ {0}
    BY <2>2
  <2> QED BY <2>2, <2>3, <1>1, Weights
<1>5. PICK w \in Nat \ {0} : Weight(FormatSize(f)) = 2 * w
  BY <1>1, <1>2, <1>3, <1>4, Orders
<1> QED BY <1>5 DEF Low, High

\* A number that suits its format comes back; a negative one in an unsigned
\* word comes back as what it is unsigned.
LEMMA Decoded ==
  ASSUME NEW f \in Numbers, NEW raw \in Int, NEW bytes,
         \A at \in 1..FormatSize(f) : bytes[at] = EncodeValue(f, raw)[at]
  PROVE  /\ raw \in Low(f)..High(f) => DecodeValue(f, bytes) = raw
         /\ f \in {"ab", "ba"} /\ raw \in -(Weight(2) \div 2)..-1
              => DecodeValue(f, bytes) = raw + Weight(2)
<1>1. PICK W \in Nat \ {0} : W = Weight(FormatSize(f)) /\ W % 2 = 0
  BY FormatWeights
<1>2. Word(f, bytes) = raw % W
  BY <1>1, WordIs
<1>3. raw \in 0..W - 1 => raw % W = raw
  BY <1>1
<1>4. raw \in -W..-1 => raw % W = raw + W
  <2>1. raw \in -W..-1 => W * (-1) + (raw + W) = raw /\ raw + W \in 0..W - 1
    BY <1>1
  <2>2. ASSUME NEW t \in 0..W - 1 PROVE (W * (-1) + t) % W = t
    BY <1>1, DividesAs
  <2> QED BY <2>1, <2>2
<1>5. DecodeValue(f, bytes) = IF raw % W > High(f) THEN (raw % W) - W ELSE raw % W
  BY <1>1, <1>2 DEF DecodeValue
<1>6. ASSUME raw \in Low(f)..High(f) PROVE DecodeValue(f, bytes) = raw
  BY <1>1, <1>3, <1>4, <1>5, <1>6, FormatWeights
<1>7. ASSUME f \in {"ab", "ba"}, raw \in -(Weight(2) \div 2)..-1
      PROVE  DecodeValue(f, bytes) = raw + Weight(2)
  <2>1. FormatSize(f) = 2 /\ f \notin Signed
    <3>1. FormatSize(f) = 2
      BY <1>7 DEF FormatSize, OneByte, TwoBytes, FourBytes, Floats
    <3> QED BY <1>7, <3>1 DEF Signed
  <2>2. High(f) = W - 1 /\ W = Weight(2)
    BY <1>1, <2>1 DEF High
  <2>3. raw \in -W..-1 /\ raw + W \in 0..W - 1
    BY <1>1, <1>7, <2>2
  <2> QED BY <1>1, <1>4, <1>5, <2>2, <2>3
<1> QED BY <1>6, <1>7

-----------------------------------------------------------------------------
(***************************************************************************)
(* Scaling.  The raw value of a fraction is the nearest there is.          *)
(***************************************************************************)
LEMMA RoundedNear ==
  ASSUME NEW p \in Int, NEW q \in Nat \ {0}
  PROVE  /\ Rounded(p, q) \in Int
         /\ 2 * (Rounded(p, q) * q - p) <= q /\ 2 * (p - Rounded(p, q) * q) <= q
<1>1. CASE p >= 0
  <2>1. PICK r \in Int, t \in 0..2 * q - 1 : 2 * p + q = (2 * q) * r + t /\ r = (2 * p + q) \div (2 * q)
    BY Divides
  <2>2. Rounded(p, q) = r
    BY <1>1, <2>1 DEF Rounded
  <2>3. PICK x \in Int : x = r * q
    OBVIOUS
  <2>4. 2 * p + q = 2 * x + t
    <3>1. (2 * q) * r = 2 * (r * q)
      OBVIOUS
    <3> QED BY <2>1, <2>3, <3>1
  <2> QED BY <2>2, <2>3, <2>4
<1>2. CASE p < 0
  <2>1. PICK r \in Int, t \in 0..2 * q - 1 : q - 2 * p = (2 * q) * r + t /\ r = (q - 2 * p) \div (2 * q)
    BY Divides
  <2>2. Rounded(p, q) = -r
    BY <1>2, <2>1 DEF Rounded
  <2>3. PICK x \in Int : x = r * q
    OBVIOUS
  <2>4. q - 2 * p = 2 * x + t
    <3>1. (2 * q) * r = 2 * (r * q)
      OBVIOUS
    <3> QED BY <2>1, <2>3, <3>1
  <2>5. (-r) * q = -x
    BY <2>3
  <2> QED BY <2>2, <2>4, <2>5
<1> QED BY <1>1, <1>2

\* No scale is zero.
LEMMA Factors ==
  ASSUME NEW ch, ch.add \in Int, ch.mod \in Int, ch.mul \in Int
  PROVE  Times(ch) \in Int \ {0} /\ Divided(ch) \in Nat \ {0}
<1>1. OrOne(ch.mul) \in Int \ {0}
  BY DEF OrOne
<1>2. PICK x \in Int \ {0}, y \in Nat \ {0} :
        x = OrOne(ch.mul) /\ y = IF ch.mod > 0 THEN ch.mod ELSE 1
  BY <1>1
<1>3. x * y # 0
  OBVIOUS
<1> QED BY <1>2, <1>3 DEF Times, Divided

\* The value that is read back is within half a step of the one written.
LEMMA RawNear ==
  ASSUME NEW ch, ch.add \in Int, ch.mod \in Int, ch.mul \in Int, ch.format \notin Floats,
         NEW v \in Fraction
  PROVE  RawValue(ch, v) \in Int /\ Near(ch, Scaled(ch, RawValue(ch, v)), v)
<1>1. PICK a \in Int, b \in Nat \ {0} : v[1] = a /\ v[2] = b
  BY DEF Fraction
<1>2. PICK T \in Int \ {0}, D \in Nat \ {0} : T = Times(ch) /\ D = Divided(ch)
  BY Factors
<1>3. PICK k \in Int : k = ch.add
  OBVIOUS
<1>4. PICK p \in Int, q \in Int \ {0} : p = a * D - k * b * T /\ q = b * T
  <2>1. b * T # 0
    OBVIOUS
  <2> QED BY <2>1
<1>5. RawValue(ch, v) = IF q > 0 THEN Rounded(p, q) ELSE Rounded(-p, -q)
  BY <1>1, <1>2, <1>3, <1>4 DEF RawValue
<1>6. PICK r \in Int : r = RawValue(ch, v)
  <2>1. q > 0 => Rounded(p, q) \in Int
    BY RoundedNear
  <2>2. ~(q > 0) => -q \in Nat \ {0} /\ -p \in Int
    OBVIOUS
  <2>3. ~(q > 0) => Rounded(-p, -q) \in Int
    BY <2>2, RoundedNear
  <2> QED BY <1>5, <2>1, <2>3
<1>7. PICK s \in Nat : s = (IF q < 0 THEN -q ELSE q) /\ s # 0
  BY <1>4
<1>8. 2 * (r * q - p) <= s /\ 2 * (p - r * q) <= s
  <2>1. CASE q > 0
    BY <1>5, <1>6, <1>7, <2>1, RoundedNear
  <2>2. CASE q < 0
    <3>1. PICK m \in Nat \ {0} : m = -q
      BY <2>2
    <3>2. 2 * (r * m - (-p)) <= m /\ 2 * ((-p) - r * m) <= m
      BY <1>5, <1>6, <2>2, <3>1, RoundedNear
    <3>3. r * m = -(r * q)
      BY <3>1
    <3> QED BY <1>7, <2>2, <3>1, <3>2, <3>3
  <2> QED BY <1>4, <2>1, <2>2
<1>9. PICK gap \in Int : gap = ((r + k) * T) * b - a * D
  OBVIOUS
<1>10. gap = r * q - p
  <2>1. ((r + k) * T) * b = r * (b * T) + k * b * T
    OBVIOUS
  <2> QED BY <1>4, <1>9, <2>1
<1>11. PICK g \in Nat : g = (IF gap < 0 THEN -gap ELSE gap) /\ 2 * g <= s
  <2>1. PICK x \in Int : x = r * q
    OBVIOUS
  <2>2. gap = x - p /\ 2 * (x - p) <= s /\ 2 * (p - x) <= s
    BY <1>8, <1>10, <2>1
  <2>3. 2 * gap <= s /\ 2 * (-gap) <= s
    BY <2>2
  <2>4. CASE gap < 0
    BY <2>3, <2>4
  <2>5. CASE ~(gap < 0)
    BY <2>3, <2>5
  <2> QED BY <2>4, <2>5
<1>12. (2 * g) * D <= s * D
  BY <1>11
<1>13. s * D = (IF T < 0 THEN -T ELSE T) * D * b
  <2>1. s = (IF T < 0 THEN -T ELSE T) * b
    BY <1>4, <1>7
  <2> QED BY <2>1
<1>14. Scaled(ch, r) = <<(r + k) * T, D>>
  BY <1>2, <1>3 DEF Scaled
<1> QED BY <1>1, <1>2, <1>6, <1>9, <1>11, <1>12, <1>13, <1>14 DEF Near

-----------------------------------------------------------------------------
(***************************************************************************)
(* Pieces that do not overlap lie whole where they were laid.              *)
(***************************************************************************)
LEMMA LaidDomain ==
  ASSUME NEW n \in Nat, NEW pieces
  PROVE  DOMAIN LaidOver(n, pieces) = 1..n /\ Len(LaidOver(n, pieces)) = n
<1>1. PICK s : s = LaidOver(n, pieces)
  OBVIOUS
<1>2. s = [i \in 1..n |-> s[i]]
  BY <1>1 DEF LaidOver
<1> QED BY <1>1, <1>2

\* N pieces: where they are laid, how long they are, and their bytes.
LieApart(N, pieces, at, len, bytes) ==
  /\ at \in [1..N -> Int] /\ len \in [1..N -> Nat]
  /\ \A c \in 1..N : DOMAIN bytes[c] = 1..len[c]
  /\ \A c, d \in 1..N : c # d => \/ at[c] + len[c] <= at[d] \/ at[d] + len[d] <= at[c]
                                  \/ len[c] = 0 \/ len[d] = 0
  /\ pieces = [d \in 1..N |-> [at |-> at[d], bytes |-> bytes[d]]]

\* A piece that lies within the n bytes.
Within(n, at, len) == at >= 0 /\ at + len <= n

ReadsWhole(n, pieces, at, len, piece) == \A k \in 1..len : LaidOver(n, pieces)[at + k] = piece[k]

\* Such a piece reads back whole.
LEMMA LaidApart ==
  ASSUME NEW n \in Nat, NEW N \in Nat, NEW pieces, NEW at, NEW len, NEW bytes,
         LieApart(N, pieces, at, len, bytes),
         NEW c \in 1..N, Within(n, at[c], len[c])
  PROVE  ReadsWhole(n, pieces, at[c], len[c], bytes[c])
<1> SUFFICES ASSUME NEW k \in 1..len[c] PROVE LaidOver(n, pieces)[at[c] + k] = bytes[c][k]
  BY DEF ReadsWhole
<1>1. PICK x \in Int, l \in Nat : x = at[c] /\ l = len[c]
  BY DEF LieApart
<1>2. PICK i \in 1..n : i = at[c] + k /\ i = x + k /\ i - x = k
  BY <1>1 DEF Within
<1> DEFINE over == {p \in DOMAIN pieces : i - pieces[p].at \in DOMAIN pieces[p].bytes}
<1>3. DOMAIN pieces = 1..N /\ \A p \in 1..N : pieces[p].at = at[p] /\ pieces[p].bytes = bytes[p]
  BY DEF LieApart
<1>4. \A p \in 1..N : p \in over <=> i - at[p] \in 1..len[p]
  BY <1>3 DEF LieApart
<1>5. over = {c}
  <2>1. c \in over
    BY <1>1, <1>2, <1>4
  <2>2. ASSUME NEW p \in over, p # c PROVE FALSE
    <3>1. p \in 1..N /\ i - at[p] \in 1..len[p]
      BY <1>3, <1>4
    <3>2. PICK y \in Int, m \in Nat : y = at[p] /\ m = len[p]
      BY <3>1 DEF LieApart
    <3>3. x + l <= y \/ y + m <= x \/ l = 0 \/ m = 0
      BY <1>1, <2>2, <3>1, <3>2 DEF LieApart
    <3> QED BY <1>1, <1>2, <3>1, <3>2, <3>3
  <2> QED BY <2>1, <2>2
<1>6. Max({c}) = c
  BY DEF Max
<1>7. LaidOver(n, pieces)[i] = pieces[c].bytes[i - pieces[c].at]
  BY <1>5, <1>6 DEF LaidOver
<1> QED BY <1>1, <1>2, <1>3, <1>7

\* A field of the bytes.
LEMMA FieldAt ==
  ASSUME NEW data, NEW from \in Nat, NEW size \in Nat
  PROVE  SubSeq(data, from + 1, from + size) = [k \in 1..size |-> data[from + k]]
OBVIOUS

-----------------------------------------------------------------------------
(***************************************************************************)
(* A write.                                                                *)
(***************************************************************************)
\* What is known of a block that was not refused.
LEMMA BlockIs ==
  ASSUME NEW w, NEW values, EncodeBlock(w, values) # Refused
  PROVE  LET part(c) == EncodeChannel(w, c, values[c])
         IN  /\ Len(values) = Len(w.channels)
             /\ \A c \in DOMAIN w.channels : /\ part(c) # Refused
                                             /\ w.channels[c].offset + Len(part(c)) <= 2 * w.naddress
             /\ EncodeBlock(w, values)
                  = LaidOver(2 * w.naddress, [c \in DOMAIN w.channels |->
                               [at |-> w.channels[c].offset, bytes |-> part(c)]])
<1> DEFINE parts == [c \in DOMAIN w.channels |-> EncodeChannel(w, c, values[c])]
           fits(c) == /\ w.channels[c].offset % 2 = 0
                      /\ w.channels[c].offset \div 2 >= 0
                      /\ w.channels[c].offset + Len(parts[c]) <= 2 * w.naddress
           bad == \/ Len(values) # Len(w.channels)
                  \/ \E c \in DOMAIN parts : parts[c] = Refused \/ ~fits(c)
           pieces == [c \in DOMAIN parts |-> [at |-> w.channels[c].offset, bytes |-> parts[c]]]
<1>1. EncodeBlock(w, values) = IF bad THEN Refused ELSE LaidOver(2 * w.naddress, pieces)
  BY DEF EncodeBlock
<1>2. pieces = [c \in DOMAIN w.channels |->
                  [at |-> w.channels[c].offset, bytes |-> EncodeChannel(w, c, values[c])]]
  OBVIOUS
<1>3. ~bad
  <2> HIDE DEF bad, pieces
  <2> QED BY <1>1
<1>4. EncodeBlock(w, values) = LaidOver(2 * w.naddress, pieces)
  <2> HIDE DEF bad, pieces
  <2> QED BY <1>1, <1>3
<1>5. \A c \in DOMAIN w.channels : parts[c] = EncodeChannel(w, c, values[c])
  OBVIOUS
<1>6. /\ Len(values) = Len(w.channels)
      /\ \A c \in DOMAIN w.channels : /\ parts[c] # Refused
                                      /\ w.channels[c].offset + Len(parts[c]) <= 2 * w.naddress
  <2>1. DOMAIN parts = DOMAIN w.channels
    OBVIOUS
  <2> HIDE DEF parts
  <2> QED BY <1>3, <2>1
<1> HIDE DEF parts, pieces
<1> QED BY <1>2, <1>4, <1>5, <1>6

\* The bytes of one channel, and the value they stand for.
LEMMA CellReads ==
  ASSUME NEW ch \in Cells, NEW v \in Fraction, EncodeScaled(ch, v) # Refused
  PROVE  LET size == FormatSize(ch.format)
         IN  /\ size \in 1..4
             /\ DOMAIN EncodeScaled(ch, v) = 1..size /\ Len(EncodeScaled(ch, v)) = size
             /\ \A field : (\A k \in 1..size : field[k] = EncodeScaled(ch, v)[k])
                  => LET raw == DecodeValue(ch.format, field)
                     IN  \/ Near(ch, Scaled(ch, raw), v)
                         \/ ch.format \in {"ab", "ba"} /\ Near(ch, Scaled(ch, raw - Weight(2)), v)
<1>1. PICK raw \in Int : raw = RawValue(ch, v) /\ Near(ch, Scaled(ch, raw), v)
  BY RawNear DEF Cells
<1>2. ch.format \in Numbers \ Floats
  BY DEF Cells, Numbers
<1>3. raw \in WriteLow(ch.format)..High(ch.format) /\ EncodeScaled(ch, v) = EncodeValue(ch.format, raw)
  BY <1>1, <1>2 DEF EncodeScaled
<1>4. PICK size \in 1..4 : size = FormatSize(ch.format) /\ DOMAIN EncodeValue(ch.format, raw) = 1..size
  BY <1>2, Encoded
<1>5. Len(EncodeValue(ch.format, raw)) = size
  <2>1. PICK s : s = EncodeValue(ch.format, raw)
    OBVIOUS
  <2>2. s = [k \in 1..size |-> s[k]]
    BY <1>4, <2>1 DEF EncodeValue
  <2> QED BY <2>1, <2>2
<1>6. ASSUME NEW field, \A k \in 1..size : field[k] = EncodeScaled(ch, v)[k]
      PROVE  \/ Near(ch, Scaled(ch, DecodeValue(ch.format, field)), v)
             \/ /\ ch.format \in {"ab", "ba"}
                /\ Near(ch, Scaled(ch, DecodeValue(ch.format, field) - Weight(2)), v)
  <2>1. \A k \in 1..FormatSize(ch.format) : field[k] = EncodeValue(ch.format, raw)[k]
    BY <1>3, <1>4, <1>6
  <2>2. CASE raw \in Low(ch.format)..High(ch.format)
    <3>1. DecodeValue(ch.format, field) = raw
      BY <1>2, <2>1, <2>2, Decoded
    <3> QED BY <1>1, <3>1
  <2>3. CASE ~(raw \in Low(ch.format)..High(ch.format))
    <3>1. ch.format \in {"ab", "ba"} /\ raw \in -(Weight(2) \div 2)..High(ch.format)
      BY <1>3, <2>3 DEF WriteLow
    <3>2. Low(ch.format) = 0
      BY <3>1 DEF Low, Signed
    <3>3. raw \in -(Weight(2) \div 2)..-1
      <4>1. PICK h \in Int : h = Weight(2) \div 2
        BY Weights
      <4>2. High(ch.format) \in Int
        BY <1>2, FormatWeights
      <4> QED BY <2>3, <3>1, <3>2, <4>1, <4>2
    <3>4. DecodeValue(ch.format, field) = raw + Weight(2)
      BY <1>2, <2>1, <3>1, <3>3, Decoded
    <3>5. PICK W \in Int : W = Weight(2)
      BY Weights
    <3>6. raw + W - W = raw
      OBVIOUS
    <3>7. DecodeValue(ch.format, field) - Weight(2) = raw
      BY <3>4, <3>5, <3>6
    <3> QED BY <1>1, <3>1, <3>7
  <2> QED BY <2>2, <2>3
<1> QED BY <1>3, <1>4, <1>5, <1>6

\* The write of accepted channels reads back, and is not refused.
LEMMA WriteReads ==
  ASSUME NEW ask, Writable(ask.write), ask.values \in Seq(Fraction), ask.kind = "write",
         ask \in WritesOf(ask.slave, ask.write, ask.values)
  PROVE  WritesBack(ask) /\ ~Refusal(ask)
<1>1. PICK w, values : w = ask.write /\ values = ask.values
  OBVIOUS
<1>2. PICK bytes, count : /\ bytes = EncodeBlock(w, values) /\ bytes = ask.bytes
                          /\ count = ask.count /\ count = Len(bytes) \div 2 /\ count \in 1..MaxWrite
                          /\ ask.nbyte = 2 * count
  <2>1. PICK regs : regs = EncodeBlock(w, values)
    OBVIOUS
  <2>2. ask \in WriteFrames(ask.slave, w, values, regs)
    BY <1>1, <2>1 DEF WritesOf
  <2>3. PICK m \in {Len(regs) \div 2} \cap 1..MaxWrite :
          ask = [kind |-> "write", slave |-> ask.slave, write |-> w, values |-> values,
                 count |-> m, nbyte |-> 2 * m, bytes |-> regs]
    BY <2>2 DEF WriteFrames
  <2>4. ask.count = m /\ ask.nbyte = 2 * m /\ ask.bytes = regs
    BY <2>3
  <2> QED BY <2>1, <2>3, <2>4
<1>3. bytes # Refused
  <2>1. Len(Refused) = 0 /\ 0 \div 2 = 0
    BY DEF Refused
  <2>2. count # 0
    <3>1. \A m \in 1..MaxWrite : m # 0
      BY ReadingsAssumption
    <3> QED BY <1>2, <3>1
  <2> QED BY <1>2, <2>1, <2>2
<1>4. PICK N \in Nat : N = Len(w.channels) /\ DOMAIN w.channels = 1..N
  BY <1>1 DEF Writable
<1>5. \A c \in 1..N : w.channels[c] \in Cells /\ values[c] \in Fraction
  <2>1. Len(values) = N
    BY <1>2, <1>3, <1>4, BlockIs
  <2> QED BY <1>1, <1>4, <2>1 DEF Writable
<1>6. PICK n \in Nat : n = 2 * w.naddress
  BY <1>1 DEF Writable
<1> DEFINE at == [c \in 1..N |-> w.channels[c].offset]
           len == [c \in 1..N |-> FormatSize(w.channels[c].format)]
           part == [c \in 1..N |-> EncodeScaled(w.channels[c], values[c])]
           pieces == [c \in 1..N |-> [at |-> at[c], bytes |-> part[c]]]
<1>7. /\ \A c \in 1..N : part[c] # Refused /\ at[c] + Len(part[c]) <= n
      /\ bytes = LaidOver(n, pieces)
  <2>1. pieces = [c \in DOMAIN w.channels |->
                    [at |-> w.channels[c].offset, bytes |-> EncodeChannel(w, c, values[c])]]
    BY <1>4 DEF EncodeChannel
  <2>2. \A c \in 1..N : at[c] = w.channels[c].offset /\ part[c] = EncodeChannel(w, c, values[c])
    BY <1>4 DEF EncodeChannel
  <2>3. bytes = LaidOver(2 * w.naddress,
                  [c \in DOMAIN w.channels |->
                    [at |-> w.channels[c].offset, bytes |-> EncodeChannel(w, c, values[c])]])
    BY <1>2, <1>3, BlockIs
  <2>4. \A c \in DOMAIN w.channels :
          /\ EncodeChannel(w, c, values[c]) # Refused
          /\ w.channels[c].offset + Len(EncodeChannel(w, c, values[c])) <= 2 * w.naddress
    BY <1>2, <1>3, BlockIs
  <2> HIDE DEF pieces, at, part
  <2> QED BY <1>4, <1>6, <2>1, <2>2, <2>3, <2>4
<1>8. ASSUME NEW c \in 1..N
      PROVE  /\ at[c] \in Nat /\ len[c] \in 1..4 /\ DOMAIN part[c] = 1..len[c] /\ at[c] + len[c] <= n
             /\ at[c] = w.channels[c].offset /\ len[c] = FormatSize(w.channels[c].format)
             /\ part[c] = EncodeScaled(w.channels[c], values[c])
  <2>1. /\ at[c] = w.channels[c].offset /\ len[c] = FormatSize(w.channels[c].format)
        /\ part[c] = EncodeScaled(w.channels[c], values[c])
    OBVIOUS
  <2>2. w.channels[c] \in Cells /\ values[c] \in Fraction
    BY <1>5
  <2>3. at[c] \in Nat
    BY <2>1, <2>2 DEF Cells
  <2> HIDE DEF at, len, part
  <2> QED BY <1>7, <2>1, <2>2, <2>3, CellReads
<1>9. \A c, d \in 1..N : c # d => at[c] + len[c] <= at[d] \/ at[d] + len[d] <= at[c]
  <2>1. \A c, d \in 1..N :
          c # d => \/ w.channels[c].offset + FormatSize(w.channels[c].format) <= w.channels[d].offset
                   \/ w.channels[d].offset + FormatSize(w.channels[d].format) <= w.channels[c].offset
    BY <1>1, <1>4 DEF Writable
  <2> HIDE DEF at, len
  <2> QED BY <1>8, <2>1
<1>10. at \in [1..N -> Int] /\ len \in [1..N -> Nat]
  <2>1. \A c \in 1..N : w.channels[c].offset \in Int /\ FormatSize(w.channels[c].format) \in Nat
    <3> HIDE DEF at, len, part
    <3> QED BY SMTT(30), <1>8
  <2> QED BY <2>1
<1>11. ASSUME NEW c \in 1..N
       PROVE  LET ch == w.channels[c]
                  raw == DecodeValue(ch.format, SubSeq(bytes, ch.offset + 1,
                                                       ch.offset + FormatSize(ch.format)))
              IN  \/ Near(ch, Scaled(ch, raw), values[c])
                  \/ ch.format \in {"ab", "ba"} /\ Near(ch, Scaled(ch, raw - Weight(2)), values[c])
  <2> HIDE DEF at, len, part, pieces
  <2>1. PICK field : field = SubSeq(bytes, at[c] + 1, at[c] + len[c])
    OBVIOUS
  <2>2. PICK from \in Nat, size \in Nat : from = at[c] /\ size = len[c] /\ from + size <= n
    BY <1>8
  <2>3. LieApart(N, pieces, at, len, part)
    <3>1. pieces = [d \in 1..N |-> [at |-> at[d], bytes |-> part[d]]]
      BY DEF pieces
    <3>2. \A d \in 1..N : DOMAIN part[d] = 1..len[d]
      BY <1>8
    <3> QED BY <1>9, <1>10, <3>1, <3>2 DEF LieApart
  <2>4. \A k \in 1..len[c] : LaidOver(n, pieces)[at[c] + k] = part[c][k]
    <3>1. Within(n, at[c], len[c])
      BY <1>8 DEF Within
    <3>2. ReadsWhole(n, pieces, at[c], len[c], part[c])
      BY <2>3, <3>1, LaidApart
    <3> QED BY <3>2 DEF ReadsWhole
  <2>5. \A k \in 1..size : field[k] = part[c][k]
    <3>1. SubSeq(bytes, from + 1, from + size) = [k \in 1..size |-> bytes[from + k]]
      BY FieldAt
    <3>2. field = [k \in 1..size |-> bytes[from + k]]
      BY <2>1, <2>2, <3>1
    <3>3. \A k \in 1..size : bytes[from + k] = part[c][k]
      BY <1>7, <2>2, <2>4
    <3> QED BY <3>2, <3>3
  <2>6. w.channels[c] \in Cells /\ values[c] \in Fraction
    BY <1>5
  <2>7. EncodeScaled(w.channels[c], values[c]) # Refused
    BY <1>7, <1>8
  <2>8. \A k \in 1..FormatSize(w.channels[c].format) :
          field[k] = EncodeScaled(w.channels[c], values[c])[k]
    BY <1>8, <2>2, <2>5
  <2>9. field = SubSeq(bytes, w.channels[c].offset + 1,
                       w.channels[c].offset + FormatSize(w.channels[c].format))
    BY <1>8, <2>1
  <2> QED BY <2>6, <2>7, <2>8, <2>9, CellReads
<1>12. WritesBack(ask)
  BY <1>1, <1>2, <1>4, <1>11 DEF WritesBack
<1>13. Len(bytes) = 2 * count
  <2>1. Len(bytes) = 2 * w.naddress /\ w.naddress \in Nat
    <3> HIDE DEF pieces
    <3> QED BY <1>1, <1>6, <1>7, LaidDomain DEF Writable
  <2> QED BY <1>2, <2>1
<1>14. ~Refusal(ask)
  <2>1. \A m \in 1..MaxWrite : ~(2 * m < 2 * m)
    BY ReadingsAssumption
  <2>2. ~(2 * count < 2 * count)
    BY <1>2, <2>1
  <2>3. /\ ask.kind = "write" /\ ask.count \in 1..MaxWrite /\ ask.nbyte = 2 * ask.count
        /\ ~(Len(ask.bytes) < ask.nbyte)
    <3>1. ask.count = count /\ ask.bytes = bytes /\ ask.nbyte = 2 * count /\ count \in 1..MaxWrite
      BY <1>2
    <3>2. ~(Len(ask.bytes) < ask.nbyte)
      BY <1>13, <2>2, <3>1
    <3> QED BY <3>1, <3>2
  <2> QED BY <2>3 DEF Refusal
<1> QED BY <1>12, <1>14

-----------------------------------------------------------------------------
(***************************************************************************)
(* Bits.  There is a byte for every choice of bits, and it shows them.     *)
(***************************************************************************)
\* A set of naturals that is not empty has a least member.
LEMMA LeastNumber ==
  ASSUME NEW S \in SUBSET Nat, S # {}
  PROVE  \E n \in S : \A m \in S : n <= m
<1>1. IsWellFoundedOn(OpToRel(<, Nat), Nat)
  BY NatLessThanWellFounded
<1>2. PICK R : R = OpToRel(<, Nat)
  OBVIOUS
<1>3. R = {ss \in Nat \X Nat : ss[1] < ss[2]}
  BY <1>2 DEF OpToRel
<1>4. IsWellFoundedOn(R, Nat)
  BY <1>1, <1>2
<1>5. PICK n \in S : \A m \in S : ~(<<m, n>> \in R)
  BY <1>4, WFMin
<1>6. \A m \in S : ~(m < n)
  BY <1>3, <1>5
<1> QED BY <1>6

\* Adding an even number of places leaves the digit below alone.
LEMMA DigitKept ==
  ASSUME NEW b \in Nat, NEW P \in Nat \ {0}, NEW Q \in Nat, NEW w, w = P * (2 * Q)
  PROVE  ((b + w) \div P) % 2 = (b \div P) % 2
<1>1. PICK d \in Int, r \in 0..P - 1 : b = P * d + r /\ d = b \div P
  BY Divides
<1>2. PICK s \in Int : s = d + 2 * Q
  OBVIOUS
<1>3. b + w = P * s + r
  <2>1. PICK x \in Int, y \in Int : x = P * d /\ y = P * (2 * Q)
    OBVIOUS
  <2>2. P * (d + 2 * Q) = P * d + P * (2 * Q)
    OBVIOUS
  <2>3. P * s = x + y
    BY <1>2, <2>1, <2>2
  <2> QED BY <1>1, <2>1, <2>3
<1>4. (P * s + r) \div P = s
  BY DividesAs
<1>5. s % 2 = d % 2
  BY <1>2
<1> QED BY <1>1, <1>3, <1>4, <1>5

\* By induction on the bits: the next bit adds the next power, or nothing.
LEMMA BytesShowBits ==
  ASSUME NEW on
  PROVE  /\ ByteOf(on) \in 0..Byte - 1
         /\ \A k \in 1..Bits : ((ByteOf(on) \div 2^(k - 1)) % 2 = 1) <=> on[k]
<1> DEFINE Shows(byte, k) == ((byte \div 2^(k - 1)) % 2 = 1) <=> on[k]
           Has(m) == \E byte \in 0..2^m - 1 : \A k \in 1..m : Shows(byte, k)
           Without == {m \in 0..Bits : ~Has(m)}
<1>1. Bits \in Nat
  BY RegistersAssumption
<1>2. ASSUME Without # {} PROVE FALSE
  <2>1. PICK m \in Without : \A n \in Without : m <= n
    <3>1. Without \in SUBSET Nat
      BY <1>1
    <3> HIDE DEF Without
    <3> QED BY <1>2, <3>1, LeastNumber
  <2>2. m \in 0..Bits /\ ~Has(m)
    BY <2>1
  <2>3. m # 0
    <3>1. 0 \in 0..2^0 - 1
      BY PowerSmall
    <3>2. Has(0)
      BY <3>1
    <3> QED BY <2>2, <3>2
  <2>4. PICK n \in Nat : n = m - 1 /\ m = n + 1 /\ n \in 0..Bits
    BY <1>1, <2>2, <2>3
  <2>5. Has(n)
    <3>1. n \notin Without
      <4> HIDE DEF Without
      <4>1. n \in Without => m <= n
        BY <2>1
      <4>2. m \in Int
        BY <2>2
      <4> QED BY <2>4, <4>1, <4>2
    <3> HIDE DEF Has
    <3> QED BY <2>4, <3>1
  <2>6. PICK P \in Nat \ {0} : P = 2^n /\ 2^m = 2 * P
    BY <2>4, PowerNext
  <2>7. PICK b \in 0..P - 1 : \A k \in 1..n : Shows(b, k)
    BY <2>5, <2>6
  <2>8. CASE ~on[m]
    <3>1. b \div P = 0 /\ b \in 0..2^m - 1
      BY <2>6
    <3>2. Shows(b, m)
      BY <2>4, <2>6, <2>8, <3>1
    <3>3. \A k \in 1..m : Shows(b, k)
      <4> HIDE DEF Shows
      <4> QED BY <2>4, <2>7, <3>2
    <3>4. Has(m)
      BY <3>1, <3>3
    <3> QED BY <2>2, <3>4
  <2>9. CASE on[m]
    <3>1. b + P \in 0..2^m - 1 /\ (b + P) \div P = 1
      <4>1. (P * 1 + b) \div P = 1
        BY DividesAs
      <4> QED BY <2>6, <4>1
    <3>2. Shows(b + P, m)
      BY <2>4, <2>6, <2>9, <3>1
    <3>3. ASSUME NEW k \in 1..n PROVE Shows(b + P, k)
      <4>1. PICK i \in Nat, j \in Nat : i = k - 1 /\ n = i + (j + 1)
        <5>1. k - 1 \in Nat /\ n - k \in Nat /\ n = (k - 1) + ((n - k) + 1)
          BY <2>4
        <5> QED BY <5>1
      <4>2. PICK p \in Nat \ {0}, q \in Nat : p = 2^i /\ q = 2^j /\ 2^(j + 1) = 2 * q
        BY <4>1, PowerNext
      <4>3. P = p * (2 * q)
        <5>1. 2^(i + (j + 1)) = 2^i * 2^(j + 1)
          BY <4>1, PowerSum
        <5> QED BY <2>6, <4>1, <4>2, <5>1
      <4>4. ((b + P) \div p) % 2 = (b \div p) % 2
        BY SMTT(30), <4>2, <4>3, DigitKept
      <4> QED BY <2>7, <4>1, <4>2, <4>4
    <3>4. \A k \in 1..m : Shows(b + P, k)
      <4> HIDE DEF Shows
      <4> QED BY <2>4, <3>2, <3>3
    <3>5. Has(m)
      BY <3>1, <3>4
    <3> QED BY <2>2, <3>5
  <2> QED BY <2>8, <2>9
<1>3. Has(Bits)
  <2> HIDE DEF Has
  <2> QED BY <1>1, <1>2
<1> QED
  BY <1>3 DEF ByteOf, Byte

\* Packed bits read back one by one, and no bit lies behind the last byte.
LEMMA BitReads ==
  ASSUME NEW bits, NEW n \in Nat, Len(bits) = n, DOMAIN bits = 1..n
  PROVE  /\ Len(Packed(bits)) = (n + Bits - 1) \div Bits
         /\ \A b \in 0..n - 1 : /\ b \div Bits < Len(Packed(bits))
                                /\ BitAt(Packed(bits), b) = IF bits[b + 1] # 0 THEN 1 ELSE 0
<1> DEFINE on(m) == m \in DOMAIN bits /\ bits[m] # 0
           byte(c) == [k \in 1..Bits |-> on((c - 1) * Bits + k)]
<1>1. PICK B \in Nat \ {0} : B = Bits
  BY RegistersAssumption
<1>2. PICK size \in Nat : size = (n + Bits - 1) \div Bits
  <2>1. (n + B - 1) \div B \in Nat
    OBVIOUS
  <2> QED BY <1>1, <2>1
<1>3. Packed(bits) = [c \in 1..size |-> ByteOf(byte(c))]
  BY <1>2 DEF Packed
<1>4. ASSUME NEW a \in Int, NEW b, b = a, a \in 0..n - 1
      PROVE  /\ b \div Bits < size
             /\ BitAt(Packed(bits), b) = IF bits[b + 1] # 0 THEN 1 ELSE 0
  <2>1. PICK q \in Int, r \in 0..B - 1 : a = B * q + r /\ q = a \div B /\ r = a % B
    BY Divides
  <2>2. PICK Bq \in Int : Bq = B * q /\ a = Bq + r
    BY <2>1
  <2>3. q + 1 \in 1..size
    <3>1. PICK s \in Int, Bs \in Int, t \in 0..B - 1 : n + B - 1 = Bs + t /\ Bs = B * s /\ s = size
      <4>1. PICK e \in Int : e = n + B - 1
        OBVIOUS
      <4>2. PICK s \in Int, t \in 0..B - 1 : e = B * s + t /\ s = e \div B
        BY Divides
      <4> QED BY <1>1, <1>2, <4>1, <4>2
    <3>2. q >= 0
      <4>1. q < 0 => B * q <= -B
        OBVIOUS
      <4> QED BY <1>4, <2>2, <4>1
    <3>3. q < s
      <4>1. q >= s => B * q >= B * s
        OBVIOUS
      <4> QED BY <1>4, <2>2, <3>1, <4>1
    <3> QED BY <3>1, <3>2, <3>3
  <2>4. PICK k \in 1..Bits : k = r + 1 /\ k - 1 = r
    BY <1>1
  <2>5. byte(q + 1)[k] = on(b + 1)
    <3>1. ((q + 1) - 1) * Bits + k = b + 1
      <4>1. (q + 1) - 1 = q /\ q * B = B * q
        OBVIOUS
      <4> QED BY <1>1, <1>4, <2>4, <2>2, <4>1
    <3> HIDE DEF on
    <3> QED BY <2>4, <3>1
  <2>6. on(b + 1) <=> bits[b + 1] # 0
    BY <1>4
  <2>7. PICK x \in Int : x = ByteOf(byte(q + 1)) /\ ((x \div 2^r) % 2 = 1 <=> on(b + 1))
    <3> HIDE DEF on
    <3>1. PICK g : g = byte(q + 1)
      OBVIOUS
    <3>2. ByteOf(g) \in 0..Byte - 1 /\ ((ByteOf(g) \div 2^(k - 1)) % 2 = 1 <=> g[k])
      BY <2>4, BytesShowBits
    <3>3. ByteOf(g) \in Int
      <4>1. \A c \in 0..Byte - 1 : c \in Int
        BY Weights
      <4> QED BY <3>2, <4>1
    <3> HIDE DEF byte
    <3> QED BY <2>4, <2>5, <3>1, <3>2, <3>3
  <2>8. BitAt(Packed(bits), b) = (x \div 2^r) % 2
    <3> HIDE DEF byte
    <3>1. Packed(bits)[q + 1] = x
      BY <1>3, <2>3, <2>7
    <3> QED BY <1>1, <1>4, <2>1, <3>1 DEF BitAt
  <2>9. (x \div 2^r) % 2 \in {0, 1}
    <3>1. PICK p \in Nat \ {0} : p = 2^r
      BY PowerNext
    <3>2. PICK y \in Int : y = x \div p
      BY Divides
    <3> QED BY <3>1, <3>2
  <2>10. b \div Bits < size
    <3>1. b \div Bits = q
      BY <1>1, <1>4, <2>1
    <3> QED BY <2>3, <3>1
  <2> QED BY <1>4, <2>6, <2>7, <2>8, <2>9, <2>10
<1>5. Len(Packed(bits)) = size
  <2> HIDE DEF byte
  <2> QED BY <1>3
<1>6. ASSUME NEW b \in 0..n - 1
      PROVE  /\ b \div Bits < size
             /\ BitAt(Packed(bits), b) = IF bits[b + 1] # 0 THEN 1 ELSE 0
  <2> HIDE DEF byte
  <2>1. PICK a \in Int : a = b /\ a \in 0..n - 1
    OBVIOUS
  <2> QED BY <1>4, <2>1
<1> QED BY <1>2, <1>5, <1>6

-----------------------------------------------------------------------------
(***************************************************************************)
(* Text.  A field reads as the text that was laid into it.                 *)
(***************************************************************************)
LEMMA Partners ==
  ASSUME NEW f, NEW length \in Nat, NEW i \in 1..length
  PROVE  /\ TextByte(f, length, i) \in 1..length
         /\ TextByte(f, length, TextByte(f, length, i)) = i
BY DEF TextByte

\* The n-th of the first m numbers.
LEMMA NthFirst ==
  ASSUME NEW m \in Nat, NEW n \in 1..m
  PROVE  Nth(1..m, n) = n
<1>1. ASSUME NEW k \in 1..m PROVE Cardinality({j \in 1..m : j <= k}) = k
  <2> DEFINE below == {j \in 1..m : j <= k}
  <2>1. below = 1..k
    OBVIOUS
  <2>2. PICK i \in Int : i = k /\ 1 \in Int /\ i > 0 /\ i - 1 + 1 = i
    OBVIOUS
  <2>3. Cardinality(1..i) = IF 1 > i THEN 0 ELSE i - 1 + 1
    BY <2>2, FS_Interval
  <2> HIDE DEF below
  <2>4. Cardinality(below) = k
    BY <2>1, <2>2, <2>3
  <2> QED BY <2>4 DEF below
<1> QED BY <1>1 DEF Nth

\* Characters come back as they are printed; what is laid behind them is zero.
LEMMA AsciiReads ==
  ASSUME NEW ch, ch.format \in {"ascii_ab", "ascii_ba"}, NEW length \in Nat, ch.length = length,
         NEW text \in Seq(Nat \ {0})
  PROVE  TextReads(ch, text, DecodeText(ch.format, EncodeText(ch.format, length, text)))
<1> DEFINE f == ch.format
           bytes == EncodeText(f, length, text)
           ordered == [i \in DOMAIN bytes |-> bytes[TextByte(f, Len(bytes), i)]]
           printed == [n \in DOMAIN text |-> Printed(text[n])]
<1> SUFFICES ASSUME Len(text) <= length
             PROVE  DecodeText(f, bytes) = Trimmed(printed)
  BY DEF TextReads
<1>1. PICK m \in Nat : m = Len(text) /\ DOMAIN text = 1..m /\ m <= length
  OBVIOUS
<1>2. bytes = [i \in 1..length |-> LET j == TextByte(f, length, i)
                                   IN  IF m <= length /\ j <= m THEN text[j] ELSE 0]
  BY <1>1 DEF EncodeText
<1>3. DOMAIN bytes = 1..length /\ Len(bytes) = length
  <2> HIDE DEF bytes
  <2> QED BY <1>2
<1>4. ordered = [i \in 1..length |-> IF i <= m THEN text[i] ELSE 0]
  <2>1. ASSUME NEW i \in 1..length PROVE bytes[TextByte(f, length, i)] = IF i <= m THEN text[i] ELSE 0
    <3> HIDE DEF bytes
    <3> QED BY <1>1, <1>2, Partners
  <2> HIDE DEF bytes
  <2> QED BY <1>3, <2>1
<1>5. DecodeText(f, bytes) = DecodeAscii(ordered)
  <2> HIDE DEF bytes
  <2> QED BY DEF DecodeText
<1>6. {k \in DOMAIN ordered : ordered[k] # 0} = 1..m
  <2> HIDE DEF ordered
  <2> QED BY <1>1, <1>4
<1>7. Cardinality(1..m) = m
  BY FS_Interval
<1>8. [n \in 1..Cardinality(1..m) |-> Printed(ordered[Nth(1..m, n)])] = printed
  <2>1. ASSUME NEW n \in 1..m PROVE ordered[Nth(1..m, n)] = text[n]
    <3> HIDE DEF ordered
    <3> QED BY <1>1, <1>4, NthFirst
  <2> HIDE DEF ordered
  <2> QED BY <1>1, <1>7, <2>1
<1>9. DecodeAscii(ordered) = Trimmed(printed)
  <2> HIDE DEF ordered, printed
  <2> QED BY <1>6, <1>8 DEF DecodeAscii
<1> QED BY <1>5, <1>9

\* What is below the divisor is its own remainder.
LEMMA DividesSmall ==
  ASSUME NEW n \in Nat \ {0}, NEW r \in 0..n - 1
  PROVE  r % n = r
OBVIOUS

\* The sequence that has nothing, then the text.
LEMMA Padded ==
  ASSUME NEW S, NEW text \in Seq(S), NEW p \in Nat
  PROVE  /\ Zeros(p) \o text = [k \in 1..(p + Len(text)) |-> IF k <= p THEN 0 ELSE text[k - p]]
         /\ text \o Zeros(p) = [k \in 1..(Len(text) + p) |-> IF k <= Len(text) THEN text[k] ELSE 0]
<1>1. PICK m \in Nat, n \in Nat : m = Len(text) /\ n = p + m
  OBVIOUS
<1> DEFINE T == S \cup {0}
<1>2. PICK z : z = Zeros(p)
  OBVIOUS
<1>3. z \in [1..p -> {0}]
  BY <1>2 DEF Zeros
<1>4. z \in Seq(T) /\ Len(z) = p /\ (\A k \in 1..p : z[k] = 0) /\ text \in Seq(T)
  BY <1>3
<1>5. z \o text = [k \in 1..n |-> IF k <= p THEN 0 ELSE text[k - p]]
  <2> HIDE DEF T
  <2>1. PICK c \in Seq(T) : c = z \o text
    BY <1>4, ConcatProperties
  <2>2. Len(c) = n /\ \A k \in 1..n : c[k] = IF k <= p THEN z[k] ELSE text[k - p]
    <3>1. Len(z \o text) = Len(z) + Len(text)
      BY <1>4, ConcatProperties
    <3>2. \A k \in 1..Len(z) + Len(text) :
            (z \o text)[k] = IF k <= Len(z) THEN z[k] ELSE text[k - Len(z)]
      BY <1>4, ConcatProperties
    <3> QED BY ONLY <3>1, <3>2, <1>1, <1>4, <2>1
  <2>3. c \in [1..n -> T] /\ \A k \in 1..n : k <= p => k \in 1..p
    BY <2>2
  <2> QED BY <1>4, <2>1, <2>2, <2>3
<1>6. text \o z = [k \in 1..n |-> IF k <= m THEN text[k] ELSE 0]
  <2> HIDE DEF T
  <2>1. PICK c \in Seq(T) : c = text \o z
    BY <1>4, ConcatProperties
  <2>2. Len(c) = n /\ \A k \in 1..n : c[k] = IF k <= m THEN text[k] ELSE z[k - m]
    <3>1. Len(text \o z) = Len(text) + Len(z)
      BY <1>4, ConcatProperties
    <3>2. \A k \in 1..Len(text) + Len(z) :
            (text \o z)[k] = IF k <= Len(text) THEN text[k] ELSE z[k - Len(text)]
      BY <1>4, ConcatProperties
    <3> QED BY ONLY <3>1, <3>2, <1>1, <1>4, <2>1
  <2>3. c \in [1..n -> T] /\ \A k \in 1..n : ~(k <= m) => k - m \in 1..p
    BY <1>1, <2>2
  <2> QED BY <1>4, <2>1, <2>2, <2>3
<1>7. p + Len(text) = n /\ Len(text) + p = n
  BY <1>1
<1> QED BY <1>2, <1>5, <1>6, <1>1, <1>7

\* Digits come back behind the zeros they were padded with.
LEMMA BcdReads ==
  ASSUME NEW ch, ch.format \in {"bcd_ab", "bcd_ba"}, NEW length \in Nat, ch.length = length,
         NEW text \in Seq(0..Ten - 1)
  PROVE  TextReads(ch, text, DecodeText(ch.format, EncodeText(ch.format, length, text)))
<1> DEFINE f == ch.format
           bytes == EncodeText(f, length, text)
           ordered == [i \in DOMAIN bytes |-> bytes[TextByte(f, Len(bytes), i)]]
<1> SUFFICES ASSUME Len(text) <= 2 * length
             PROVE  DecodeText(f, bytes) = Zeros(2 * length - Len(text)) \o text
  BY DEF TextReads
<1>1. PICK m \in Nat, p \in Nat, n \in Nat :
        /\ m = Len(text) /\ DOMAIN text = 1..m /\ n = 2 * length /\ p = n - m /\ n = p + m
  <2>1. PICK m \in Nat : m = Len(text) /\ DOMAIN text = 1..m
    OBVIOUS
  <2>2. 2 * length \in Nat /\ 2 * length - m \in Nat /\ 2 * length = (2 * length - m) + m
    BY <2>1
  <2> QED BY <2>1, <2>2
<1> DEFINE d == [k \in 1..n |-> IF k <= p THEN 0 ELSE text[k - p]]
<1>2. Zeros(p) \o text = d
  <2>1. Zeros(p) \o text = [k \in 1..(p + Len(text)) |-> IF k <= p THEN 0 ELSE text[k - p]]
    BY Padded
  <2> QED BY <1>1, <2>1
<1>3. PICK B \in Nat \ {0}, T \in Nat \ {0} : B = Nibble /\ T = Ten /\ T <= B
  BY Weights, RegistersAssumption
<1>4. \A k \in 1..n : d[k] \in 0..T - 1 /\ d[k] \in Int /\ d[k] \in 0..B - 1
  BY SMTT(30), <1>1, <1>3
<1>5. bytes = [i \in 1..length |-> LET j == TextByte(f, length, i)
                                   IN  d[2 * j - 1] * B + d[2 * j]]
  <2>1. ASSUME NEW i \in 1..length
        PROVE  LET j == TextByte(f, length, i)
                   digit(k) == IF k <= p THEN 0 ELSE text[k - p]
               IN  digit(2 * j - 1) * B + digit(2 * j) = d[2 * j - 1] * B + d[2 * j]
    <3>1. PICK j \in 1..length : j = TextByte(f, length, i)
      BY Partners
    <3>2. 2 * j - 1 \in 1..n /\ 2 * j \in 1..n
      BY <1>1
    <3> QED BY <3>1, <3>2
  <2>2. bytes = [i \in 1..length |-> LET j == TextByte(f, length, i)
                                         digit(k) == IF k <= p THEN 0 ELSE text[k - p]
                                     IN  IF p >= 0 THEN digit(2 * j - 1) * B + digit(2 * j) ELSE 0]
    BY <1>1, <1>3 DEF EncodeText
  <2> HIDE DEF bytes, d
  <2> QED BY <1>1, <2>1, <2>2
<1>6. DOMAIN bytes = 1..length /\ Len(bytes) = length
  <2> HIDE DEF bytes, d
  <2> QED BY <1>5
<1>7. ordered = [j \in 1..length |-> d[2 * j - 1] * B + d[2 * j]]
  <2>1. ASSUME NEW i \in 1..length
        PROVE  bytes[TextByte(f, length, i)] = d[2 * i - 1] * B + d[2 * i]
    <3> HIDE DEF bytes, d
    <3> QED BY <1>5, Partners
  <2> HIDE DEF bytes, d
  <2> QED BY <1>6, <2>1
<1>8. DecodeText(f, bytes) = DecodeBcd(ordered)
  <2> HIDE DEF bytes
  <2> QED BY DEF DecodeText
<1> DEFINE digits == [k \in 1..2 * Len(ordered) |->
                        IF k % 2 = 1 THEN ordered[(k + 1) \div 2] \div Nibble
                                     ELSE ordered[k \div 2] % Nibble]
<1>9. DOMAIN ordered = 1..length /\ Len(ordered) = length
  <2> HIDE DEF ordered, d
  <2> QED BY <1>7
<1>10. digits = d
  <2>1. ASSUME NEW k \in 1..n
        PROVE  (IF k % 2 = 1 THEN ordered[(k + 1) \div 2] \div B ELSE ordered[k \div 2] % B) = d[k]
    <3>1. CASE k % 2 = 1
      <4>1. PICK j \in 1..length : j = (k + 1) \div 2 /\ k = 2 * j - 1 /\ 2 * j \in 1..n
        BY <1>1, <3>1
      <4>2. PICK x \in Int, y \in 0..B - 1 : x = d[2 * j - 1] /\ y = d[2 * j] /\ ordered[j] = B * x + y
        <5>1. PICK h \in 1..n, i \in 1..n : h = 2 * j - 1 /\ i = 2 * j
          BY <1>1
        <5>2. PICK x \in Int, y \in Int : x = d[h] /\ y = d[i] /\ y \in 0..B - 1
          <6> HIDE DEF d
          <6> QED BY <1>4
        <5>3. ordered[j] = d[h] * B + d[i]
          <6> HIDE DEF ordered, d
          <6> QED BY <1>7, <5>1
        <5>4. x * B = B * x
          OBVIOUS
        <5> HIDE DEF ordered, d
        <5> QED BY <5>1, <5>2, <5>3, <5>4
      <4>3. (B * x + y) \div B = x
        BY DividesAs
      <4> HIDE DEF ordered, d
      <4> QED BY <3>1, <4>1, <4>2, <4>3
    <3>2. CASE k % 2 # 1
      <4>1. PICK j \in 1..length : j = k \div 2 /\ k = 2 * j
        BY <1>1, <3>2
      <4>2. PICK x \in Int, y \in 0..B - 1 : x = d[2 * j - 1] /\ y = d[2 * j] /\ ordered[j] = B * x + y
        <5>1. PICK h \in 1..n, i \in 1..n : h = 2 * j - 1 /\ i = 2 * j
          BY <1>1
        <5>2. PICK x \in Int, y \in Int : x = d[h] /\ y = d[i] /\ y \in 0..B - 1
          <6> HIDE DEF d
          <6> QED BY <1>4
        <5>3. ordered[j] = d[h] * B + d[i]
          <6> HIDE DEF ordered, d
          <6> QED BY <1>7, <5>1
        <5>4. x * B = B * x
          OBVIOUS
        <5> HIDE DEF ordered, d
        <5> QED BY <5>1, <5>2, <5>3, <5>4
      <4>3. (B * x + y) % B = y
        BY DividesAs
      <4> HIDE DEF ordered, d
      <4> QED BY <3>2, <4>1, <4>2, <4>3
    <3> QED BY <3>1, <3>2
  <2>2. digits = [k \in 1..n |-> IF k % 2 = 1 THEN ordered[(k + 1) \div 2] \div B
                                              ELSE ordered[k \div 2] % B]
    <3> HIDE DEF ordered, d
    <3> QED BY <1>1, <1>3, <1>9
  <2>3. d = [k \in 1..n |-> d[k]]
    OBVIOUS
  <2> HIDE DEF ordered, d, digits
  <2> QED BY <2>1, <2>2, <2>3
<1>11. DecodeBcd(ordered) = IF \A k \in DOMAIN digits : digits[k] < Ten THEN digits ELSE Undecodable
  BY DEF DecodeBcd
<1>12. \A k \in DOMAIN d : d[k] < Ten
  BY <1>3, <1>4
<1> HIDE DEF ordered, d, digits
<1> QED BY <1>1, <1>2, <1>8, <1>10, <1>11, <1>12

\* Version fields come back, and zeros behind them.
LEMMA VersionReads ==
  ASSUME NEW ch, ch.format \in {"version_ab", "version_abcd", "version_regs"},
         NEW length \in Nat, ch.length = length, NEW text \in Seq(Nat)
  PROVE  TextReads(ch, text, DecodeText(ch.format, EncodeText(ch.format, length, text)))
<1> DEFINE f == ch.format
           bytes == EncodeText(f, length, text)
           stride == Stride(f)
           good == {k \in 1..Len(text) : \A j \in 1..k : stride = 2 \/ text[j] < Byte}
           full == length \div stride
<1> SUFFICES ASSUME Len(text) <= full, \A k \in DOMAIN text : text[k] < Weight(stride)
             PROVE  DecodeText(f, bytes) = text \o Zeros(full - Len(text))
  BY DEF TextReads
<1>1. PICK m \in Nat, n \in Nat, p \in Nat :
        /\ m = Len(text) /\ DOMAIN text = 1..m /\ n = full /\ p = n - m /\ n = p + m
  BY DEF Stride
<1> DEFINE d == [k \in 1..n |-> IF k <= m THEN text[k] ELSE 0]
<1>2. text \o Zeros(p) = d
  <2>1. text \o Zeros(p) = [k \in 1..(Len(text) + p) |-> IF k <= Len(text) THEN text[k] ELSE 0]
    BY Padded
  <2>2. Len(text) + p = n /\ Len(text) = m
    BY <1>1
  <2> QED BY <2>1, <2>2
<1>3. PICK B \in Nat \ {0} : B = Byte /\ Weight(1) = B /\ Weight(2) = B * B
  BY Weights
<1>4. DecodeText(f, bytes) = DecodeVersion(stride, bytes)
  <2> HIDE DEF bytes
  <2> QED BY DEF DecodeText
<1>5. CASE f \in {"version_ab", "version_abcd"}
  <2>1. stride = 1 /\ n = length
    BY <1>1, <1>5 DEF Stride
  <2>2. good = 1..m
    BY SMTT(30), <1>1, <1>3, <2>1
  <2>3. bytes = [i \in 1..length |-> IF i \in good THEN text[i] ELSE 0]
    BY <1>5 DEF EncodeText
  <2>4. bytes = d /\ DOMAIN bytes = 1..n /\ Len(bytes) = n
    <3> HIDE DEF bytes, good
    <3> QED BY <1>1, <2>1, <2>2, <2>3
  <2>5. DecodeVersion(1, bytes) = [k \in 1..n |-> bytes[k]]
    <3> HIDE DEF bytes, d
    <3> QED BY <2>4 DEF DecodeVersion
  <2> HIDE DEF bytes, good
  <2> QED BY ZenonT(60), <1>1, <1>2, <1>4, <2>1, <2>4, <2>5
<1>6. CASE f = "version_regs"
  <2>1. stride = 2 /\ n = length \div 2
    BY <1>1, <1>6 DEF Stride
  <2>2. good = 1..m
    BY <1>1, <2>1
  <2>3. bytes = [i \in 1..length |-> LET k == (i + 1) \div 2
                                     IN  IF k \notin good THEN 0
                                         ELSE IF i % 2 = 1 THEN (text[k] \div B) % B ELSE text[k] % B]
    BY <1>3, <1>6 DEF EncodeText
  <2>4. DOMAIN bytes = 1..length /\ Len(bytes) = length
    <3> HIDE DEF bytes, good
    <3> QED BY <2>3
  <2>5. ASSUME NEW k \in 1..n PROVE bytes[2 * k - 1] * B + bytes[2 * k] = d[k]
    <3>1. /\ 2 * k - 1 \in 1..length /\ ((2 * k - 1) + 1) \div 2 = k /\ (2 * k - 1) % 2 = 1
          /\ 2 * k \in 1..length /\ (2 * k + 1) \div 2 = k /\ (2 * k) % 2 = 0
      BY <2>1
    <3>2. CASE k <= m
      <4>1. bytes[2 * k - 1] = (text[k] \div B) % B /\ bytes[2 * k] = text[k] % B
        <5>1. k \in good
          <6> HIDE DEF good
          <6> QED BY <2>2, <3>2
        <5>2. PICK h \in 1..length, i \in 1..length :
                 /\ h = 2 * k - 1 /\ (h + 1) \div 2 = k /\ h % 2 = 1
                 /\ i = 2 * k /\ (i + 1) \div 2 = k /\ i % 2 = 0
          BY <3>1
        <5> HIDE DEF bytes, good
        <5>3. bytes[h] = (text[k] \div B) % B
          BY <2>3, <5>1, <5>2
        <5>4. bytes[i] = text[k] % B
          <6>1. ~(i % 2 = 1)
            BY <5>2
          <6> QED BY <2>3, <5>1, <5>2, <6>1
        <5> QED BY <5>2, <5>3, <5>4
      <4>2. PICK t \in Int, w \in Nat \ {0} : t = text[k] /\ w = B * B /\ t \in 0..w - 1
        <5>1. PICK t \in Nat : t = text[k] /\ t < Weight(stride)
          <6>1. k \in DOMAIN text
            BY <1>1, <3>2
          <6> HIDE DEF stride
          <6> QED BY <6>1 DEF stride
        <5>2. PICK w \in Nat \ {0} : w = B * B
          OBVIOUS
        <5> QED BY <1>3, <2>1, <5>1, <5>2
      <4>3. t % w = B * ((t \div B) % B) + (t % B)
        BY ZenonT(60), <4>2, TwoDigits
      <4>4. t % w = t
        BY <4>2, DividesSmall
      <4>5. PICK x \in Int, y \in Int : x = (t \div B) % B /\ y = t % B
        <5>1. PICK q \in Int : q = t \div B
          BY Divides
        <5>2. q % B \in Int /\ t % B \in Int
          BY Divides
        <5> QED BY <5>1, <5>2
      <4>6. x * B + y = t
        BY <4>3, <4>4, <4>5
      <4> HIDE DEF bytes
      <4> QED BY <3>2, <4>1, <4>2, <4>5, <4>6
    <3>3. CASE ~(k <= m)
      <4>1. bytes[2 * k - 1] = 0 /\ bytes[2 * k] = 0
        <5>1. k \notin good
          BY <2>2, <3>3
        <5> HIDE DEF bytes, good
        <5> QED BY <2>3, <3>1, <5>1
      <4> HIDE DEF bytes
      <4> QED BY <3>3, <4>1
    <3> QED BY <3>2, <3>3
  <2>6. DecodeVersion(2, bytes) = [k \in 1..n |-> bytes[2 * k - 1] * B + bytes[2 * k]]
    <3> HIDE DEF bytes, d
    <3> QED BY <1>3, <2>1, <2>4 DEF DecodeVersion
  <2>7. DecodeVersion(2, bytes) = [k \in 1..n |-> d[k]]
    <3> HIDE DEF bytes, d
    <3> QED BY <2>5, <2>6
  <2>8. d = [k \in 1..n |-> d[k]]
    OBVIOUS
  <2> HIDE DEF bytes, good, d
  <2> QED BY <1>1, <1>2, <1>4, <2>1, <2>7, <2>8
<1> QED BY <1>5, <1>6

\* Every text of a format comes back as the format reads it.
LEMMA TextBack ==
  ASSUME NEW ch, ch.format \in Texts, NEW length \in Nat, ch.length = length,
         NEW text \in Held(ch.format)
  PROVE  TextReads(ch, text, DecodeText(ch.format, EncodeText(ch.format, length, text)))
<1>1. CASE ch.format \in {"ascii_ab", "ascii_ba"}
  BY <1>1, AsciiReads DEF Held
<1>2. CASE ch.format \in {"bcd_ab", "bcd_ba"}
  BY <1>2, BcdReads DEF Held
<1>3. CASE ch.format \in {"version_ab", "version_abcd", "version_regs"}
  BY <1>3, VersionReads DEF Held
<1> QED BY <1>1, <1>2, <1>3 DEF Texts

-----------------------------------------------------------------------------
(***************************************************************************)
(* A poll.                                                                 *)
(***************************************************************************)
LEMMA ChannelIs ==
  ASSUME NEW c \in DOMAIN Channels
  PROVE  LET ch == Channels[c]
         IN  /\ ch.in.address \in Nat /\ ch.in.address_offset \in Nat /\ ch.in.naddress \in Nat
             /\ ch.offset \in Nat /\ ch.length \in Nat
             /\ ch.add \in Int /\ ch.mod \in Int /\ ch.mul \in Int
             /\ ch.format \in Numbers \cup Texts \cup {"float_ba", "bit"}
             /\ (ch.format = "bit") <=> IsBit(ch.in.type)
             /\ ch.format \in Numbers => ch.length = FormatSize(ch.format)
<1>1. Channels[c] \in Channel
  BY ChannelsAssumption
<1>2. PICK ch : ch = Channels[c] /\ ch \in Channel
  BY <1>1
<1>3. ch.in \in Inputs /\ IsBit(ch.in.type) \in BOOLEAN
  BY <1>2 DEF Channel, IsBit
<1>4. ch.in.address \in Nat /\ ch.in.address_offset \in Nat /\ ch.in.naddress \in Nat
  BY <1>3 DEF Inputs
<1> QED BY <1>2, <1>3, <1>4 DEF Channel

\* What the channels hold suits their formats.
Known(values) == \A c \in DOMAIN Channels : values[c] \in Held(Channels[c].format)

\* A text is laid down over the whole field.
LEMMA TextLaid ==
  ASSUME NEW f \in Texts, NEW length \in Nat, NEW text
  PROVE  /\ DOMAIN EncodeText(f, length, text) = 1..length
         /\ EncodeText(f, length, text) = [i \in 1..length |-> EncodeText(f, length, text)[i]]
<1>1. CASE f \in {"ascii_ab", "ascii_ba"}
  BY <1>1 DEF EncodeText
<1>2. CASE f \in {"bcd_ab", "bcd_ba"}
  BY <1>2 DEF EncodeText
<1>3. CASE f \in {"version_ab", "version_abcd"}
  BY <1>3 DEF EncodeText
<1>4. CASE f = "version_regs"
  BY <1>4 DEF EncodeText
<1> QED BY <1>1, <1>2, <1>3, <1>4 DEF Texts

\* What a channel lays down is as long as the channel.
LEMMA LaidDownIs ==
  ASSUME NEW c \in DOMAIN Channels, NEW ch, ch = Channels[c], NEW v, v \in Held(ch.format),
         ch.format \notin {"float_ba", "bit"}
  PROVE  /\ DOMAIN LaidDown(ch, v) = 1..ch.length
         /\ LaidDown(ch, v) = [k \in 1..ch.length |-> LaidDown(ch, v)[k]]
<1>1. CASE ch.format \in Texts
  <2>1. LaidDown(ch, v) = EncodeText(ch.format, ch.length, v)
    BY <1>1 DEF LaidDown
  <2>2. ch.length \in Nat
    BY ChannelIs
  <2> QED BY <1>1, <2>1, <2>2, TextLaid
<1>2. CASE ch.format \notin Texts
  <2>1. ch.format \in Numbers /\ ch.length = FormatSize(ch.format)
    BY <1>2, ChannelIs
  <2>2. LaidDown(ch, v) = EncodeValue(ch.format, v)
    BY <1>2 DEF LaidDown
  <2>3. EncodeValue(ch.format, v) = [k \in 1..FormatSize(ch.format) |-> EncodeValue(ch.format, v)[k]]
    BY DEF EncodeValue
  <2>4. DOMAIN EncodeValue(ch.format, v) = 1..FormatSize(ch.format)
    BY DEF EncodeValue
  <2> QED BY <2>1, <2>2, <2>3, <2>4
<1> QED BY <1>1, <1>2

\* The field of a channel in the answer to the poll of its input.
LEMMA FieldIs ==
  ASSUME ChannelsApart, NEW values, Known(values), NEW c \in DOMAIN Channels, NEW ch, ch = Channels[c],
         NEW ask, ask = PollOf(ch.in), ~IsBit(ch.in.type), Inside(ch), ch.format # "float_ba"
  PROVE  SubSeq(Data(ask, values), ByteOffset(ch, OffsetSize) + 1,
                ByteOffset(ch, OffsetSize) + ch.length) = LaidDown(ch, values[c])
<1>1. PICK N \in Nat : DOMAIN Channels = 1..N
  BY ChannelsAssumption
<1>2. /\ ask.type = ch.in.type /\ ask.slave = ch.in.slave /\ ask.count = ch.in.naddress
      /\ ask.address = ch.in.address + ch.in.address_offset
  BY DEF PollOf, ReadFrame
<1>3. PICK base \in Nat, n \in Nat : base = ask.address /\ n = BytesAsked(ask) /\ n = 2 * ch.in.naddress
  <2>1. PICK a \in Nat, s \in Nat, m \in Nat :
          a = ch.in.address /\ s = ch.in.address_offset /\ m = ch.in.naddress
    BY ChannelIs
  <2>2. ~IsBit(ask.type)
    BY <1>2
  <2>3. BytesAsked(ask) = 2 * m
    BY <1>2, <2>1, <2>2 DEF BytesAsked
  <2>4. ask.address = a + s /\ a + s \in Nat /\ 2 * m \in Nat
    BY <1>2, <2>1
  <2> QED BY <2>1, <2>3, <2>4
<1> DEFINE asked(d) == /\ Reads(ask, Channels[d]) /\ Position(ask, Channels[d]) >= 0
                       /\ Position(ask, Channels[d]) + Channels[d].length <= BytesAsked(ask)
           at == [d \in 1..N |-> Position(ask, Channels[d])]
           bytes == [d \in 1..N |-> IF asked(d) THEN LaidDown(Channels[d], values[d]) ELSE <<>>]
           len == [d \in 1..N |-> IF asked(d) /\ Channels[d].format # "float_ba"
                                  THEN Channels[d].length ELSE 0]
           pieces == [d \in 1..N |-> [at |-> at[d], bytes |-> bytes[d]]]
<1>4. Data(ask, values) = LaidOver(n, pieces)
  <2>1. ~IsBit(ask.type)
    BY <1>2
  <2> QED BY <1>1, <1>3, <2>1 DEF Data, RegisterData
<1>5. ASSUME NEW d \in 1..N
      PROVE  \E p \in Int, l \in Nat :
               /\ p = Position(ask, Channels[d]) /\ l = Channels[d].length
               /\ ~IsBit(Channels[d].in.type) =>
                    First(Channels[d]) \in Int /\ p = First(Channels[d]) - 2 * base
               /\ p = Channels[d].offset * OffsetSize - (base - Channels[d].in.address) * 2
  <2>1. PICK a \in Nat, l \in Nat, o \in Nat :
          a = Channels[d].in.address /\ l = Channels[d].length /\ o = Channels[d].offset * OffsetSize
    <3>1. PICK x \in Nat : x = Channels[d].offset
      BY <1>1, ChannelIs
    <3>2. x * OffsetSize \in Nat
      BY ReadingsAssumption
    <3> QED BY <1>1, <3>1, <3>2, ChannelIs
  <2>2. Position(ask, Channels[d]) = o - (base - a) * 2
    BY <1>3, <2>1 DEF Position
  <2>3. ~IsBit(Channels[d].in.type) => First(Channels[d]) = 2 * a + o
    BY <2>1 DEF First
  <2>4. PICK p \in Int : p = o - (base - a) * 2
    OBVIOUS
  <2> QED BY <2>1, <2>2, <2>3, <2>4
<1>6. at \in [1..N -> Int] /\ len \in [1..N -> Nat]
  <2> HIDE DEF asked
  <2> QED BY <1>5
<1>7. ASSUME NEW d \in 1..N PROVE DOMAIN bytes[d] = 1..len[d]
  <2>1. CASE asked(d) /\ Channels[d].format # "float_ba"
    <3>1. ~IsBit(Channels[d].in.type)
      BY <1>2, <2>1 DEF Reads
    <3>2. Channels[d].format # "bit"
      BY <1>1, <3>1, ChannelIs
    <3>3. DOMAIN LaidDown(Channels[d], values[d]) = 1..Channels[d].length
      BY <1>1, <2>1, <3>2, LaidDownIs DEF Known
    <3> HIDE DEF asked
    <3> QED BY <2>1, <3>3
  <2>2. CASE asked(d) /\ Channels[d].format = "float_ba"
    <3>1. Channels[d].format \notin Texts
      BY <2>2 DEF Texts
    <3>2. LaidDown(Channels[d], values[d]) = <<>>
      BY <2>2, <3>1 DEF LaidDown
    <3>3. bytes[d] = <<>> /\ len[d] = 0
      <4> HIDE DEF asked
      <4> QED BY <2>2, <3>2
    <3> HIDE DEF bytes, len
    <3> QED BY <3>3
  <2>3. CASE ~asked(d)
    <3>1. bytes[d] = <<>> /\ len[d] = 0
      <4> HIDE DEF asked
      <4> QED BY <2>3
    <3> HIDE DEF bytes, len
    <3> QED BY <3>1
  <2> QED BY <2>1, <2>2, <2>3
<1>8. ASSUME NEW d \in 1..N, NEW e \in 1..N, d # e
      PROVE  at[d] + len[d] <= at[e] \/ at[e] + len[e] <= at[d] \/ len[d] = 0 \/ len[e] = 0
  <2>1. CASE asked(d) /\ asked(e)
    <3>1. /\ Channels[d].in.slave = Channels[e].in.slave /\ Channels[d].in.type = Channels[e].in.type
          /\ ~IsBit(Channels[d].in.type) /\ ~IsBit(Channels[e].in.type)
      BY <1>2, <2>1 DEF Reads
    <3>2. Apart(Channels[d], Channels[e])
      BY <1>1, <1>8 DEF ChannelsApart
    <3>3. PICK p \in Int, l \in Nat, P \in Int : /\ p = Position(ask, Channels[d]) /\ l = Channels[d].length
                                    /\ P = First(Channels[d]) /\ p = P - 2 * base
      <4>1. PICK p \in Int, l \in Nat : /\ p = Position(ask, Channels[d]) /\ l = Channels[d].length
                                        /\ p = First(Channels[d]) - 2 * base
                                        /\ First(Channels[d]) \in Int
        <5> HIDE DEF asked
        <5> QED BY <1>5, <3>1
      <4> QED BY <4>1
    <3>4. PICK q \in Int, m \in Nat, Q \in Int : /\ q = Position(ask, Channels[e]) /\ m = Channels[e].length
                                    /\ Q = First(Channels[e]) /\ q = Q - 2 * base
      <4>1. PICK q \in Int, m \in Nat : /\ q = Position(ask, Channels[e]) /\ m = Channels[e].length
                                        /\ q = First(Channels[e]) - 2 * base
                                        /\ First(Channels[e]) \in Int
        <5> HIDE DEF asked
        <5> QED BY <1>5, <3>1
      <4> QED BY <4>1
    <3>5. P + l <= Q \/ Q + m <= P
      BY <3>1, <3>2, <3>3, <3>4 DEF Apart
    <3>6. p + l <= q \/ q + m <= p
      BY <3>3, <3>4, <3>5
    <3>7. at[d] = p /\ at[e] = q /\ len[d] \in {0, l} /\ len[e] \in {0, m}
      <4> HIDE DEF asked
      <4> QED BY <3>3, <3>4
    <3> HIDE DEF at, len, asked
    <3> QED BY <3>6, <3>7
  <2>2. CASE ~(asked(d) /\ asked(e))
    <3> HIDE DEF asked
    <3> QED BY <2>2
  <2> QED BY <2>1, <2>2
<1>9. PICK from \in Nat, size \in Nat :
        /\ from = ByteOffset(ch, OffsetSize) /\ from = Position(ask, ch)
        /\ size = ch.length /\ from + size <= n
  <2>1. PICK a \in Nat, s \in Nat, l \in Nat, x \in Nat, m \in Nat :
          /\ a = ch.in.address /\ s = ch.in.address_offset /\ l = ch.length /\ x = ch.offset
          /\ m = ch.in.naddress
    BY ChannelIs
  <2>2. PICK o \in Nat : o = x * OffsetSize
    BY ReadingsAssumption
  <2>3. ByteOffset(ch, OffsetSize) = o - s * 2
    BY <2>1, <2>2 DEF ByteOffset
  <2>4. Position(ask, ch) = o - ((a + s) - a) * 2
    BY <1>2, <2>1, <2>2 DEF Position
  <2>5. o >= 2 * s /\ o + l <= 2 * (s + m)
    BY <2>1, <2>2 DEF Inside
  <2>6. o - s * 2 \in Nat /\ (o - s * 2) + l <= n /\ o - ((a + s) - a) * 2 = o - s * 2
    BY <1>3, <2>1, <2>5
  <2> QED BY <2>1, <2>3, <2>4, <2>6
<1>10. asked(c)
  <2>1. Reads(ask, Channels[c])
    BY <1>2 DEF Reads
  <2> QED BY <1>3, <1>9, <2>1
<1>11. at[c] = from /\ len[c] = size /\ bytes[c] = LaidDown(ch, values[c]) /\ c \in 1..N
  <2> HIDE DEF asked
  <2> QED BY <1>1, <1>9, <1>10
<1>12. \A k \in 1..size : LaidOver(n, pieces)[from + k] = LaidDown(ch, values[c])[k]
  <2>1. LieApart(N, pieces, at, len, bytes)
    <3> HIDE DEF at, len, bytes
    <3> QED BY <1>6, <1>7, <1>8 DEF LieApart
  <2>2. Within(n, at[c], len[c])
    <3> HIDE DEF at, len, bytes, pieces
    <3> QED BY <1>9, <1>11 DEF Within
  <2> HIDE DEF at, len, bytes, pieces
  <2>3. ReadsWhole(n, pieces, at[c], len[c], bytes[c])
    BY <1>11, <2>1, <2>2, LaidApart
  <2> QED BY <1>11, <2>3 DEF ReadsWhole
<1>13. LaidDown(ch, values[c]) = [k \in 1..size |-> LaidDown(ch, values[c])[k]]
  <2>1. ch.format # "bit"
    BY ChannelIs
  <2> QED BY <1>9, <2>1, LaidDownIs DEF Known
<1>14. PICK data : data = LaidOver(n, pieces)
  OBVIOUS
<1>15. SubSeq(data, from + 1, from + size) = [k \in 1..size |-> data[from + k]]
  OBVIOUS
<1> HIDE DEF at, len, bytes, pieces
<1>16. \A k \in 1..size : data[from + k] = LaidDown(ch, values[c])[k]
  BY <1>12, <1>14
<1>17. [k \in 1..size |-> data[from + k]] = [k \in 1..size |-> LaidDown(ch, values[c])[k]]
  BY <1>16
<1> QED BY <1>4, <1>9, <1>13, <1>14, <1>15, <1>17

\* What has been said of a channel since the start is what it holds.
Followed(values, said) ==
  \A c \in DOMAIN Channels : said[c] # Null /\ Channels[c].format \notin Texts =>
    /\ Channels[c].format \notin Floats
    /\ said[c] \in Fraction /\ values[c] = RawValue(Channels[c], said[c])

\* The bit of a channel is on if the channel is.
LEMMA BitBack ==
  ASSUME ChannelsApart, NEW values, NEW c \in DOMAIN Channels, NEW ch, ch = Channels[c],
         NEW ask, ask = PollOf(ch.in), IsBit(ch.in.type), Inside(ch)
  PROVE  /\ InRange(ch, OffsetSize, Data(ask, values))
         /\ BitAt(Data(ask, values), BitOffset(ch)) = IF values[c] # 0 THEN 1 ELSE 0
<1>1. /\ ask.type = ch.in.type /\ ask.slave = ch.in.slave /\ ask.count = ch.in.naddress
      /\ ask.address = ch.in.address + ch.in.address_offset
  BY DEF PollOf, ReadFrame
<1>2. PICK a \in Nat, s \in Nat, n \in Nat, o \in Nat :
        a = ch.in.address /\ s = ch.in.address_offset /\ n = ch.in.naddress /\ o = ch.offset
  BY ChannelIs
<1>3. PICK b \in 0..n - 1 : b = BitOffset(ch) /\ b = o - s /\ b + (a + s) = a + o
  <2>1. BitOffset(ch) = o - s /\ BitOffset(ch) \in 0..n - 1
    BY <1>2 DEF Inside, BitOffset
  <2> QED BY <2>1
<1> DEFINE on(k) == \E d \in DOMAIN Channels :
                      /\ Reads(ask, Channels[d])
                      /\ Channels[d].in.address + Channels[d].offset - ask.address = k - 1
                      /\ values[d] # 0
           bits == [k \in 1..n |-> IF on(k) THEN 1 ELSE 0]
<1>4. Data(ask, values) = Packed(bits)
  <2>1. IsBit(ask.type)
    BY <1>1
  <2> QED BY <1>1, <1>2, <2>1 DEF Data, BitData
<1>5. DOMAIN bits = 1..n /\ Len(bits) = n
  <2> HIDE DEF on
  <2> QED OBVIOUS
<1>6. /\ b \div Bits < Len(Packed(bits))
      /\ BitAt(Packed(bits), b) = IF bits[b + 1] # 0 THEN 1 ELSE 0
  <2> HIDE DEF bits
  <2> QED BY <1>5, BitReads
<1>7. bits[b + 1] # 0 <=> on(b + 1)
  <2>1. b + 1 \in 1..n
    OBVIOUS
  <2> HIDE DEF on
  <2> QED BY <2>1
<1>8. ASSUME NEW d \in DOMAIN Channels, Reads(ask, Channels[d]),
             Channels[d].in.address + Channels[d].offset - ask.address = (b + 1) - 1
      PROVE  d = c
  <2>1. Channels[d].in.slave = ch.in.slave /\ Channels[d].in.type = ch.in.type
    BY <1>1, <1>8 DEF Reads
  <2>2. PICK x \in Nat, y \in Nat : x = Channels[d].in.address /\ y = Channels[d].offset
    BY ChannelIs
  <2>3. x + y - (a + s) = (b + 1) - 1
    BY <1>1, <1>2, <1>8, <2>2
  <2>4. x + y = a + o
    BY <1>3, <2>3
  <2>5. First(Channels[d]) = First(Channels[c])
    BY <1>2, <2>1, <2>2, <2>4 DEF First
  <2>6. ~Apart(Channels[c], Channels[d])
    BY <2>1, <2>5 DEF Apart
  <2> QED BY <2>6 DEF ChannelsApart
<1>9. Reads(ask, Channels[c]) /\ Channels[c].in.address + Channels[c].offset - ask.address = (b + 1) - 1
  <2>1. Reads(ask, Channels[c])
    BY <1>1 DEF Reads
  <2>2. a + o - (a + s) = (b + 1) - 1
    BY <1>3
  <2> QED BY <1>1, <1>2, <2>1, <2>2
<1>10. on(b + 1) <=> values[c] # 0
  BY <1>8, <1>9
<1>11. InRange(ch, OffsetSize, Packed(bits))
  <2> HIDE DEF bits
  <2> QED BY <1>3, <1>6 DEF InRange
<1> HIDE DEF bits, on
<1> QED BY <1>3, <1>4, <1>6, <1>7, <1>10, <1>11

\* A number comes back, unless it says that there is none.
LEMMA NumberBack ==
  ASSUME NEW c \in DOMAIN Channels, NEW ch, ch = Channels[c], ch.format \in Numbers, ~IsBit(ch.in.type),
         NEW raw \in Int, NEW data, NEW said,
         SubSeq(data, ByteOffset(ch, OffsetSize) + 1, ByteOffset(ch, OffsetSize) + ch.length)
           = EncodeValue(ch.format, raw),
         said # Null => /\ ch.format \notin Floats
                        /\ said \in Fraction /\ raw = RawValue(ch, said)
  PROVE  NumberReads(ch, raw, said, ReadChannel(ch, OffsetSize, data))
<1> SUFFICES ASSUME raw \in Low(ch.format)..High(ch.format)
             PROVE  LET reading == ReadChannel(ch, OffsetSize, data)
                    IN  IF raw % Weight(2) \in NaValue /\ ch.format \in TwoBytes THEN reading = Null
                        ELSE reading = Scaled(ch, raw) /\ (said # Null => Near(ch, reading, said))
  BY DEF NumberReads
<1>1. PICK bytes : bytes = EncodeValue(ch.format, raw)
  OBVIOUS
<1>2. ch.format \notin Texts /\ ch.format # "float_ba"
  BY DEF Numbers, OneByte, TwoBytes, FourBytes, Floats, Texts
<1>3. ReadChannel(ch, OffsetSize, data)
        = IF IsNa(ch, bytes) THEN Null ELSE Scaled(ch, DecodeValue(ch.format, bytes))
  BY <1>1, <1>2 DEF ReadChannel
<1>4. DecodeValue(ch.format, bytes) = raw /\ Word(ch.format, bytes) = raw % Weight(FormatSize(ch.format))
  BY <1>1, Decoded, WordIs
<1>5. ch.format \in TwoBytes => FormatSize(ch.format) = 2
  BY DEF FormatSize, OneByte, TwoBytes, FourBytes, Floats
<1>6. IsNa(ch, bytes) <=> raw % Weight(2) \in NaValue /\ ch.format \in TwoBytes
  BY <1>4, <1>5 DEF IsNa
<1>7. said # Null => Near(ch, Scaled(ch, raw), said)
  BY RawNear, ChannelIs
<1> QED BY <1>3, <1>4, <1>6, <1>7

\* Every channel of the input reads what the device holds.
LEMMA PollReads ==
  ASSUME ChannelsApart, Known(held), Followed(held, told), NEW c \in DOMAIN Channels,
         NEW r, NEW ask, ask = PollOf(Channels[c].in), r.data = Data(ask, held)
  PROVE  ReadsBack(r, c)
<1>1. PICK ch, data : ch = Channels[c] /\ data = r.data /\ data = Data(ask, held)
  OBVIOUS
<1>2. ch.format = "bit" <=> IsBit(ch.in.type)
  BY <1>1, ChannelIs
<1>3. CASE IsBit(ch.in.type)
  <2>1. ASSUME Inside(ch)
        PROVE  /\ InRange(ch, OffsetSize, data)
               /\ ReadChannel(ch, OffsetSize, data) = Scaled(ch, IF held[c] # 0 THEN 1 ELSE 0)
    <3>1. /\ InRange(ch, OffsetSize, data)
          /\ BitAt(data, BitOffset(ch)) = IF held[c] # 0 THEN 1 ELSE 0
      BY <1>1, <1>3, <2>1, BitBack
    <3> QED BY <1>3, <3>1 DEF ReadChannel
  <2>2. ch.format \notin Texts /\ ch.format # "float_ba"
    BY <1>2, <1>3 DEF Texts
  <2> QED BY <1>1, <1>3, <2>1, <2>2 DEF ReadsBack
<1>4. CASE ~IsBit(ch.in.type)
  <2>1. Inside(ch) <=> InRange(ch, OffsetSize, data)
    <3>1. PICK s \in Nat, n \in Nat, o \in Nat, l \in Nat :
            /\ s = ch.in.address_offset /\ n = ch.in.naddress /\ l = ch.length
            /\ o = ch.offset * OffsetSize
      <4>1. PICK x \in Nat : x = ch.offset
        BY <1>1, ChannelIs
      <4>2. x * OffsetSize \in Nat
        BY ReadingsAssumption
      <4> QED BY <1>1, <4>1, <4>2, ChannelIs
    <3>2. Len(data) = 2 * n
      <4>1. ~IsBit(ask.type) /\ BytesAsked(ask) = 2 * n /\ 2 * n \in Nat
        BY <1>1, <1>4, <3>1 DEF PollOf, ReadFrame, BytesAsked
      <4> QED BY <1>1, <4>1, LaidDomain DEF Data, RegisterData
    <3>3. Inside(ch) <=> o >= 2 * s /\ o + l <= 2 * (s + n)
      BY <1>4, <3>1 DEF Inside
    <3>4. InRange(ch, OffsetSize, data) <=> o - s * 2 >= 0 /\ (o - s * 2) + l <= 2 * n
      BY <1>4, <3>1, <3>2 DEF InRange, ByteOffset
    <3> QED BY <3>3, <3>4
  <2>2. CASE ~Inside(ch)
    BY <1>1, <1>4, <2>1, <2>2 DEF ReadsBack
  <2>3. CASE ch.format = "float_ba"
    <3>1. ch.format \notin Texts
      BY <2>3 DEF Texts
    <3> QED BY <1>1, <1>4, <2>1, <2>3, <3>1 DEF ReadsBack
  <2>4. CASE Inside(ch) /\ ch.format # "float_ba"
    <3>1. SubSeq(data, ByteOffset(ch, OffsetSize) + 1, ByteOffset(ch, OffsetSize) + ch.length)
            = LaidDown(ch, held[c])
      BY <1>1, <1>4, <2>4, FieldIs
    <3>2. held[c] \in Held(ch.format)
      BY <1>1 DEF Known
    <3>3. CASE ch.format \in Texts
      <4>1. LaidDown(ch, held[c]) = EncodeText(ch.format, ch.length, held[c])
        BY <2>4, <3>3 DEF LaidDown
      <4>2. ReadChannel(ch, OffsetSize, data)
              = DecodeText(ch.format, EncodeText(ch.format, ch.length, held[c]))
        BY <1>4, <3>1, <3>3, <4>1 DEF ReadChannel
      <4>3. TextReads(ch, held[c], ReadChannel(ch, OffsetSize, data))
        BY <1>1, <3>2, <3>3, <4>2, ChannelIs, TextBack
      <4> QED BY <1>1, <1>4, <2>1, <3>3, <4>3 DEF ReadsBack
    <3>4. CASE ch.format \notin Texts
      <4>1. ch.format \in Numbers
        BY <1>1, <1>2, <1>4, <2>4, <3>4, ChannelIs
      <4>2. LaidDown(ch, held[c]) = EncodeValue(ch.format, held[c])
        BY <2>4, <3>4 DEF LaidDown
      <4>3. held[c] \in Int
        BY <3>2, <3>4 DEF Held, Texts
      <4>4. NumberReads(ch, held[c], told[c], ReadChannel(ch, OffsetSize, data))
        <5>1. told[c] # Null => /\ ch.format \notin Floats
                                /\ told[c] \in Fraction /\ held[c] = RawValue(ch, told[c])
          BY <1>1, <3>4 DEF Followed
        <5> QED BY <1>1, <1>4, <3>1, <4>1, <4>2, <4>3, <5>1, NumberBack
      <4> QED BY <1>1, <1>4, <2>1, <2>4, <3>4, <4>4 DEF ReadsBack
    <3> QED BY <3>3, <3>4
  <2> QED BY <2>2, <2>3, <2>4
<1> QED BY <1>3, <1>4

-----------------------------------------------------------------------------
(***************************************************************************)
(* The specification.                                                      *)
(***************************************************************************)
\* The inductive invariant: what the channels hold suits them and follows what
\* was said of them, and an answer is made of what they hold.
Replied == reply # Null =>
  /\ reply.ask \in Asks /\ reply.refused = Refusal(reply.ask)
  /\ reply.ask.kind = "read" /\ ~reply.refused => reply.data = Data(reply.ask, held)

IInv ==
  /\ DOMAIN held = DOMAIN Channels /\ DOMAIN told = DOMAIN Channels
  /\ Known(held) /\ Followed(held, told) /\ Replied

\* At first the channels hold what is preset, and nothing has been said.
LEMMA InitIInv == Init => IInv
<1> SUFFICES ASSUME Init PROVE IInv
  OBVIOUS
<1>1. DOMAIN held = DOMAIN Channels /\ Known(held)
  BY ChannelsAssumption DEF Init, Known
<1>2. DOMAIN told = DOMAIN Channels /\ Followed(held, told)
  BY DEF Init, Followed
<1> QED BY <1>1, <1>2 DEF Init, IInv, Replied

\* A live value is scaled into what its channel holds, and voids the answer.
LEMMA LiveValueIInv ==
  ASSUME IInv, NEW live \in Lives, LiveValue(live[1], live[2])
  PROVE  IInv'
<1>1. PICK c, f, v :
        /\ c \in DOMAIN Channels /\ c = live[1] /\ v = live[2]
        /\ f = Channels[c].format /\ f \notin Floats
        /\ v \in IF f \in Texts THEN Held(f) ELSE Fraction
  BY ChannelsAssumption
<1>2. PICK new : new = IF f \in Texts THEN v ELSE RawValue(Channels[c], v)
  OBVIOUS
<1>3. held' = [held EXCEPT ![c] = new] /\ told' = [told EXCEPT ![c] = v] /\ reply' = Null
  BY <1>1, <1>2 DEF LiveValue
<1>4. new \in Held(f)
  <2>1. CASE f \in Texts
    BY <1>1, <1>2, <2>1
  <2>2. CASE f \notin Texts
    <3>1. new \in Int
      BY <1>1, <1>2, <2>2, RawNear, ChannelIs
    <3>2. Held(f) = Int
      BY <2>2 DEF Held, Texts
    <3> QED BY <3>1, <3>2
  <2> QED BY <2>1, <2>2
<1>5. DOMAIN held' = DOMAIN Channels /\ DOMAIN told' = DOMAIN Channels
  BY <1>3 DEF IInv
<1>6. \A d \in DOMAIN Channels : /\ held'[d] = IF d = c THEN new ELSE held[d]
                                 /\ told'[d] = IF d = c THEN v ELSE told[d]
  BY <1>3 DEF IInv
<1>7. Known(held')
  BY <1>1, <1>4, <1>6 DEF IInv, Known
<1>8. Followed(held', told')
  BY <1>1, <1>2, <1>6 DEF IInv, Followed
<1> QED BY <1>3, <1>5, <1>7, <1>8 DEF IInv, Replied

\* An exchange changes nothing the channels hold.
LEMMA ExchangeIInv ==
  ASSUME IInv, NEW ask \in Asks, Exchange(ask)
  PROVE  IInv'
<1>1. held' = held /\ told' = told
  BY DEF Exchange
<1>2. CASE Refusal(ask)
  <2>1. reply' = [ask |-> ask, refused |-> TRUE]
    BY <1>2 DEF Exchange
  <2>2. reply'.ask = ask /\ reply'.refused = TRUE
    BY <2>1
  <2>3. Replied'
    BY <1>2, <2>2 DEF Replied
  <2> QED BY <1>1, <2>3 DEF IInv
<1>3. CASE ~Refusal(ask)
  <2>1. reply' = [ask |-> ask, refused |-> FALSE,
                  data |-> IF ask.kind = "read" THEN Data(ask, held) ELSE ask.bytes]
    BY <1>3 DEF Exchange
  <2>2. reply'.ask = ask /\ reply'.refused = FALSE
        /\ (ask.kind = "read" => reply'.data = Data(ask, held))
    BY <2>1
  <2>3. Refusal(ask) = FALSE
    BY <1>3 DEF Refusal
  <2>4. Replied'
    BY <1>1, <2>2, <2>3 DEF Replied
  <2> QED BY <1>1, <2>4 DEF IInv
<1> QED BY <1>2, <1>3

\* The channels follow what is said of them and answers what the channels hold.
THEOREM Kept == Spec => []IInv
<1>1. IInv /\ [Next]_vars => IInv'
  <2> SUFFICES ASSUME IInv, [Next]_vars PROVE IInv'
    OBVIOUS
  <2>1. CASE \E live \in Lives : LiveValue(live[1], live[2])
    BY <2>1, LiveValueIInv
  <2>2. CASE \E ask \in Asks : Exchange(ask)
    BY <2>2, ExchangeIInv
  <2>3. CASE UNCHANGED vars
    BY <2>3 DEF vars, IInv, Replied
  <2> QED BY <2>1, <2>2, <2>3 DEF Next
<1> QED BY <1>1, InitIInv, PTL DEF Spec

\* What a write puts into the registers reads back as the value written.
THEOREM WriteReadsBackProved == Spec => []WriteReadsBack
<1>1. ASSUME IInv PROVE WriteReadsBack
  <2> SUFFICES ASSUME reply # Null, reply.ask.kind = "write", reply.ask.write # Null
               PROVE  WritesBack(reply.ask) /\ ~reply.refused
    BY DEF WriteReadsBack
  <2>1. PICK ask \in Asks : ask = reply.ask /\ reply.refused = Refusal(ask)
    BY <1>1 DEF IInv, Replied
  <2>2. /\ Writable(ask.write) /\ ask.values \in Seq(Fraction)
        /\ ask \in WritesOf(ask.slave, ask.write, ask.values)
    BY <2>1, AsksAssumption DEF Null
  <2> QED BY <2>1, <2>2, WriteReads
<1> QED BY <1>1, Kept, PTL

\* A poll reads, of every channel inside what was asked and of no other, the
\* value the device held, if no two channels share a byte.
THEOREM PollReadsHeldProved ==
  ASSUME ChannelsApart
  PROVE  Spec => []PollReadsHeld
<1>1. ASSUME IInv PROVE PollReadsHeld
  <2> SUFFICES ASSUME Answered("read"), NEW c \in DOMAIN Channels, PollOf(Channels[c].in) = reply.ask
               PROVE  ReadsBack(reply, c)
    BY DEF PollReadsHeld
  <2>1. reply.data = Data(reply.ask, held)
    BY <1>1 DEF IInv, Replied, Answered
  <2> QED BY <1>1, <2>1, PollReads DEF IInv
<1> QED BY <1>1, Kept, PTL

-----------------------------------------------------------------------------
(***************************************************************************)
(* What Config reads has a type: of a file every line of which has one,    *)
(* each line leaves a configuration that has one.                          *)
(***************************************************************************)
RuleSets == [RuleKeys -> Int \cup {Unset}]
InputChannels ==
  {ch \in [format : Formats \cup {""}, length : Int, has_length : BOOLEAN, topic : Topics, scaled : BOOLEAN,
           timefmt : BOOLEAN, decimals : Int \cup {Unset}, rules : RuleSets] :
     ~ch.has_length => ch.length = FormatSize(ch.format)}
InputsOn(modules) ==
  [module : modules, slave : Nat, type : Types \cup {""}, address : Int, interval : Int,
   channels : Seq(InputChannels), rules : RuleSets]
WriteChannels ==
  {ch \in [offset : Int, format : Formats \cup {""}, length : Int, add : Int, mod : Int, mul : Int] :
     ch.length = FormatSize(ch.format)}
Functions == {"write_coil", "write_register", "write_registers"}
WritesOn(modules) ==
  {w \in [module : modules, slave : Nat \cup {Unset}, type : Types \cup {""}, function : Functions \cup {""},
          address : Int \cup {Unset}, format : (Formats \ Texts) \cup {""}, length : Int, scaled : BOOLEAN,
          on_value : Int \cup {Unset}, off_value : Int \cup {Unset}, topic : Topics, ack_topic : Topics,
          ack : {0, 1, Unset}, naddress : Int \cup {Unset}, channels : Seq(WriteChannels)] :
     w.length = FormatSize(w.format) /\ Len(w.channels) <= BlockMax}
InputEntries == InputsOn({None, Template})
WriteEntries == WritesOn({None, Template})
Modes == {"parallel", "series", "rounds"}
Configs ==
  {c \in [module_count : 0..SlaveMax, module_slave_first : 1..SlaveMax, version : Int, rtu : BOOLEAN,
          frame_delay_ms : Int \cup {Unset}, query_mode : Modes, topic_prefix : Topics, ack : {0, 1},
          inputs : Seq(InputEntries), writes : Seq(WriteEntries), rules : RuleSets] :
     Len(c.inputs) <= InputWriteMax /\ Len(c.writes) <= InputWriteMax}

LEMMA Sizes ==
  ASSUME NEW f
  PROVE  FormatSize(f) \in {0, 1, 2, 4}
BY DEF FormatSize

LEMMA NoSize == FormatSize("") = 0
BY DEF FormatSize, OneByte, TwoBytes, FourBytes, Floats

LEMMA ValueTypes ==
  ASSUME NEW l, IsLine(l)
  PROVE  /\ l.key = "format" => l.value \in Formats
         /\ l.key \in {"topic", "ack_topic", "topic_prefix"} => l.value \in Topics
         /\ l.key \in {"scaled", "timefmt", "rtu"} => l.value \in BOOLEAN
         /\ l.key = "ack" => l.value \in {0, 1}
         /\ l.key = "slave" => l.value \in Nat \cup {Template}
         /\ l.key = "function" => l.value \in {"write_coil", "write_register", "write_registers"}
         /\ l.key = "type" => l.value \in Types \cup {""}
         /\ l.key = "query_mode" => l.value \in Modes
         /\ l.key \in {"inputs", "writes", "channels", "length", "nregisters", "decimals", "interval", "address",
                       "naddress", "on_value", "off_value", "offset", "add", "mod", "mul", "version",
                       "frame_delay_ms", "module_count", "module_slave_first"} \cup RuleKeys
              => l.value \in Int
<1>1. l.value \in Values(l.key)
  BY DEF IsLine
<1> QED BY <1>1 DEF Values, RuleKeys, Modes

LEMMA KeysOf ==
  ASSUME NEW l, IsLine(l)
  PROVE  /\ l.at = "config" =>
              l.key \in {"module_count", "module_slave_first", "version", "rtu", "frame_delay_ms", "query_mode",
                         "topic_prefix", "ack", "inputs", "writes"} \cup RuleKeys
         /\ l.at = "input" => l.key \in {"slave", "type", "address", "interval", "channels"} \cup RuleKeys
         /\ l.at = "input_channel" =>
              l.key \in {"format", "length", "nregisters", "topic", "scaled", "timefmt", "decimals"} \cup RuleKeys
         /\ l.at = "write" =>
              l.key \in {"slave", "type", "function", "address", "format", "scaled", "on_value", "off_value",
                         "topic", "ack_topic", "ack", "naddress", "channels"}
         /\ l.at = "write_channel" => l.key \in {"offset", "format", "add", "mod", "mul"}
<1>1. l.key \in Keys(l.at)
  BY DEF IsLine
<1> QED BY <1>1 DEF Keys

-----------------------------------------------------------------------------
LEMMA RulesStored ==
  ASSUME NEW rules \in RuleSets, NEW r \in RuleKeys, NEW v \in Int
  PROVE  [rules EXCEPT ![r] = v] \in RuleSets
BY DEF RuleSets

LEMMA FormatReadTyped ==
  ASSUME NEW ch \in InputChannels, NEW f \in Formats
  PROVE  FormatRead(ch, f) \in InputChannels
<1> FormatSize(f) \in Int
  BY Sizes
<1> QED BY DEF InputChannels, FormatRead

LEMMA LengthReadTyped ==
  ASSUME NEW ch \in InputChannels, NEW n \in Int
  PROVE  LengthRead(ch, n) \in InputChannels
BY DEF InputChannels, LengthRead

\* The bytes a line gives a text, wrapped or not.
LEMMA BytesAre ==
  ASSUME NEW l, l.value \in Int
  PROVE  Bytes(l) \in Int
<1>1. PICK n \in Int, h \in Nat \ {0} : n = l.value /\ h = IntHalf
  BY ConfigAssumption
<1>2. PICK a \in Int, b \in Nat \ {0} : a = 2 * n + h /\ b = 2 * h
  <2>1. 2 * n + h \in Int /\ 2 * h \in Nat \ {0}
    OBVIOUS
  <2> QED BY <2>1
<1>3. a % b \in Int
  OBVIOUS
<1>4. Doubled(n) \in Int
  BY <1>1, <1>2, <1>3 DEF Doubled
<1> QED BY <1>1, <1>4 DEF Bytes

LEMMA ChannelKeyTyped ==
  ASSUME NEW ch \in InputChannels, NEW l, IsLine(l), l.at = "input_channel",
         NEW d \in ReadChannelKey(ch, l)
  PROVE  d \in InputChannels
<1>1. CASE l.key = "format"
  <2>1. d = FormatRead(ch, l.value) /\ l.value \in Formats
    BY <1>1, ValueTypes DEF ReadChannelKey, RuleKeys
  <2> QED BY <2>1, FormatReadTyped
<1>2. CASE l.key \in {"length", "nregisters"}
  <2>1. d = LengthRead(ch, Bytes(l)) /\ l.value \in Int
    BY <1>2, ValueTypes DEF ReadChannelKey, RuleKeys
  <2> QED BY <2>1, BytesAre, LengthReadTyped
<1>3. CASE l.key \in RuleKeys
  <2>1. d = StoredRule(ch, l) /\ l.value \in Int
    BY <1>3, ValueTypes DEF ReadChannelKey, RuleKeys
  <2>2. [ch.rules EXCEPT ![l.key] = l.value] \in RuleSets
    BY <2>1, <1>3, RulesStored DEF InputChannels
  <2> QED BY <2>1, <2>2 DEF InputChannels, StoredRule
<1>4. CASE l.key \in {"topic", "scaled", "timefmt", "decimals"}
  <2>1. d = Stored(ch, l)
    BY <1>4 DEF ReadChannelKey, RuleKeys
  <2>2. CASE l.key = "topic"
    BY <2>1, <2>2, ValueTypes DEF InputChannels, Stored
  <2>3. CASE l.key \in {"scaled", "timefmt"}
    BY <2>1, <2>3, ValueTypes DEF InputChannels, Stored
  <2>4. CASE l.key = "decimals"
    BY <2>1, <2>4, ValueTypes DEF InputChannels, Stored
  <2> QED BY <1>4, <2>2, <2>3, <2>4
<1> QED BY <1>1, <1>2, <1>3, <1>4, KeysOf

LEMMA NewTyped ==
  /\ NewChannel \in InputChannels /\ NewInput \in InputEntries
  /\ NewWriteChannel \in WriteChannels /\ NewWrite \in WriteEntries
<1>1. NoRules \in RuleSets /\ NoTopic \in Topics
  BY DEF NoRules, RuleSets, NoTopic, Topics
<1>2. NewChannel \in InputChannels
  <2>1. NewChannel \in [format : Formats \cup {""}, length : Int, has_length : BOOLEAN, topic : Topics,
                        scaled : BOOLEAN, timefmt : BOOLEAN, decimals : Int \cup {Unset}, rules : RuleSets]
    BY <1>1 DEF NewChannel
  <2>2. NewChannel.format = "" /\ NewChannel.length = 0
    BY DEF NewChannel
  <2> QED BY <2>1, <2>2, NoSize DEF InputChannels
<1>3. NewInput \in InputEntries
  <2>1. <<>> \in Seq(InputChannels)
    BY EmptySeq
  <2> QED BY <1>1, <2>1 DEF NewInput, InputEntries, InputsOn
<1>4. NewWriteChannel \in WriteChannels
  <2>1. NewWriteChannel \in [offset : Int, format : Formats \cup {""}, length : Int, add : Int, mod : Int, mul : Int]
    BY DEF NewWriteChannel
  <2>2. NewWriteChannel.format = "" /\ NewWriteChannel.length = 0
    BY DEF NewWriteChannel
  <2> QED BY <2>1, <2>2, NoSize DEF WriteChannels
<1>5. NewWrite \in WriteEntries
  <2>1. <<>> \in Seq(WriteChannels)
    BY EmptySeq
  <2>2. NewWrite \in
          [module : {None, Template}, slave : Nat \cup {Unset}, type : Types \cup {""}, function : Functions \cup {""},
           address : Int \cup {Unset}, format : (Formats \ Texts) \cup {""}, length : Int, scaled : BOOLEAN,
           on_value : Int \cup {Unset}, off_value : Int \cup {Unset}, topic : Topics, ack_topic : Topics,
           ack : {0, 1, Unset}, naddress : Int \cup {Unset}, channels : Seq(WriteChannels)]
    BY <1>1, <2>1 DEF NewWrite
  <2>3. NewWrite.format = "" /\ NewWrite.length = 0 /\ NewWrite.channels = <<>>
    BY DEF NewWrite
  <2>4. NewWrite.length = FormatSize(NewWrite.format)
    BY <2>3, NoSize
  <2>5. Len(NewWrite.channels) <= BlockMax
    <3>1. BlockMax \in Nat
      BY ConfigAssumption
    <3>2. Len(NewWrite.channels) = 0
      BY <2>3
    <3> QED BY <3>1, <3>2
  <2> HIDE DEF NewWrite
  <2> QED BY <2>2, <2>4, <2>5 DEF WriteEntries, WritesOn
<1> QED BY <1>2, <1>3, <1>4, <1>5

LEMMA AllocatedIs ==
  ASSUME NEW list, NEW l, NEW max \in Nat, NEW new, NEW S, new \in S, NEW s \in Allocated(list, l, max, new)
  PROVE  /\ list = <<>> /\ l.value \in 0..max /\ s = [i \in 1..l.value |-> new]
         /\ s \in Seq(S) /\ Len(s) = l.value
BY DEF Allocated

LEMMA InputKeyTyped ==
  ASSUME NEW e \in InputEntries, NEW l, IsLine(l), l.at = "input", NEW d \in ReadInputKey(e, l)
  PROVE  d \in InputEntries
<1>1. CASE l.key = "slave"
  <2>1. d = WithSlave(e, l.value) /\ l.value \in Nat \cup {Template}
    BY <1>1, ValueTypes DEF ReadInputKey, RuleKeys
  <2> QED BY <2>1 DEF InputEntries, InputsOn, WithSlave
<1>2. CASE l.key = "channels"
  <2>1. PICK s \in Allocated(e.channels, l, 100, NewChannel) : d = [e EXCEPT !.channels = s]
    BY <1>2 DEF ReadInputKey, RuleKeys
  <2>2. s \in Seq(InputChannels)
    BY ZenonT(60), AllocatedIs, NewTyped
  <2> QED BY <2>1, <2>2 DEF InputEntries, InputsOn
<1>3. CASE l.key \in RuleKeys
  <2>1. d = StoredRule(e, l) /\ l.value \in Int
    BY <1>3, ValueTypes DEF ReadInputKey, RuleKeys
  <2>2. [e.rules EXCEPT ![l.key] = l.value] \in RuleSets
    BY <2>1, <1>3, RulesStored DEF InputEntries, InputsOn
  <2> QED BY <2>1, <2>2 DEF InputEntries, InputsOn, StoredRule
<1>4. CASE l.key \in {"type", "address", "interval"}
  <2>1. d = Stored(e, l)
    BY <1>4 DEF ReadInputKey, RuleKeys
  <2>2. CASE l.key = "type"
    BY <2>1, <2>2, ValueTypes DEF InputEntries, InputsOn, Stored
  <2>3. CASE l.key \in {"address", "interval"}
    BY <2>1, <2>3, ValueTypes DEF InputEntries, InputsOn, Stored
  <2> QED BY <1>4, <2>2, <2>3
<1> QED BY <1>1, <1>2, <1>3, <1>4, KeysOf

LEMMA WriteFormatTyped ==
  ASSUME NEW w \in WriteEntries, NEW f \in Formats \ Texts
  PROVE  WithFormat(w, f) \in WriteEntries
<1> FormatSize(f) \in Int
  BY Sizes
<1> QED BY ZenonT(60) DEF WriteEntries, WritesOn, WithFormat

LEMMA WriteChannelFormatTyped ==
  ASSUME NEW ch \in WriteChannels, NEW f \in Formats
  PROVE  WithFormat(ch, f) \in WriteChannels
<1> FormatSize(f) \in Int
  BY Sizes
<1> QED BY DEF WriteChannels, WithFormat

LEMMA WriteSlaveTyped ==
  ASSUME NEW w \in WriteEntries, NEW value \in Nat \cup {Template}
  PROVE  WithSlave(w, value) \in WriteEntries
<1>1. CASE value = Template
  <2>1. [w EXCEPT !.module = Template, !.slave = 0] \in WriteEntries
    BY ZenonT(60) DEF WriteEntries, WritesOn
  <2> QED BY <1>1, <2>1 DEF WithSlave
<1>2. CASE value \in Nat /\ value # Template
  <2>1. [w EXCEPT !.module = None, !.slave = value] \in WriteEntries
    BY ZenonT(60), <1>2 DEF WriteEntries, WritesOn
  <2> QED BY <1>2, <2>1 DEF WithSlave
<1> QED BY <1>1, <1>2

LEMMA WriteKeyTyped ==
  ASSUME NEW w \in WriteEntries, NEW l, IsLine(l), l.at = "write", NEW d \in ReadWriteKey(w, l)
  PROVE  d \in WriteEntries
<1>1. CASE l.key = "slave"
  <2>1. d = WithSlave(w, l.value) /\ l.value \in Nat \cup {Template}
    BY <1>1, ValueTypes DEF ReadWriteKey
  <2> QED BY <2>1, WriteSlaveTyped
<1>2. CASE l.key = "channels"
  <2>1. PICK s \in Allocated(w.channels, l, BlockMax, NewWriteChannel) : d = [w EXCEPT !.channels = s]
    BY <1>2 DEF ReadWriteKey
  <2>2. BlockMax \in Nat
    BY ConfigAssumption
  <2>3. s \in Seq(WriteChannels) /\ Len(s) <= BlockMax
    <3>1. NewWriteChannel \in WriteChannels
      BY NewTyped
    <3>2. s \in Seq(WriteChannels) /\ Len(s) = l.value /\ l.value \in 0..BlockMax
      BY <2>2, <3>1, AllocatedIs
    <3> QED BY <2>2, <3>2
  <2> QED BY ZenonT(60), <2>1, <2>3 DEF WriteEntries, WritesOn
<1>3. CASE l.key = "type"
  <2>1. PICK t \in Types : d = [w EXCEPT !.type = t]
    BY <1>3 DEF ReadWriteKey, Types
  <2> QED BY ZenonT(60), <2>1 DEF WriteEntries, WritesOn
<1>4. CASE l.key = "format"
  <2>1. d = WithFormat(w, l.value) /\ l.value \in Formats \ Texts
    BY <1>4, ValueTypes DEF ReadWriteKey
  <2> QED BY <2>1, WriteFormatTyped
<1>5. CASE l.key \in {"function", "address", "scaled", "on_value", "off_value", "topic", "ack_topic", "ack", "naddress"}
  <2>1. d = Stored(w, l)
    BY <1>5 DEF ReadWriteKey
  <2>2. CASE l.key = "function"
    BY <2>1, <2>2, ValueTypes DEF WriteEntries, WritesOn, Stored, Functions
  <2>3. CASE l.key \in {"address", "on_value", "off_value", "naddress"}
    BY ZenonT(60), <2>1, <2>3, ValueTypes DEF WriteEntries, WritesOn, Stored
  <2>4. CASE l.key \in {"topic", "ack_topic"}
    BY ZenonT(60), <2>1, <2>4, ValueTypes DEF WriteEntries, WritesOn, Stored
  <2>5. CASE l.key = "scaled"
    BY <2>1, <2>5, ValueTypes DEF WriteEntries, WritesOn, Stored
  <2>6. CASE l.key = "ack"
    BY <2>1, <2>6, ValueTypes DEF WriteEntries, WritesOn, Stored
  <2> QED BY <1>5, <2>2, <2>3, <2>4, <2>5, <2>6
<1> QED BY <1>1, <1>2, <1>3, <1>4, <1>5, KeysOf

LEMMA WriteChannelKeyTyped ==
  ASSUME NEW ch \in WriteChannels, NEW l, IsLine(l), l.at = "write_channel",
         NEW d \in ReadWriteChannelKey(ch, l)
  PROVE  d \in WriteChannels
<1>1. CASE l.key = "format"
  <2>1. d = WithFormat(ch, l.value) /\ l.value \in Formats
    BY <1>1, ValueTypes DEF ReadWriteChannelKey
  <2> QED BY <2>1, WriteChannelFormatTyped
<1>2. CASE l.key \in {"offset", "add", "mod", "mul"}
  <2>1. d = Stored(ch, l) /\ l.value \in Int
    BY <1>2, ValueTypes DEF ReadWriteChannelKey
  <2> QED BY <2>1, <1>2 DEF WriteChannels, Stored
<1> QED BY <1>1, <1>2, KeysOf

LEMMA ConfigWithEntries ==
  ASSUME NEW c \in Configs
  PROVE  /\ \A s \in Seq(InputEntries) : Len(s) <= InputWriteMax => [c EXCEPT !.inputs = s] \in Configs
         /\ \A s \in Seq(WriteEntries) : Len(s) <= InputWriteMax => [c EXCEPT !.writes = s] \in Configs
BY DEF Configs

LEMMA ConfigKeyTyped ==
  ASSUME NEW c \in Configs, NEW l, IsLine(l), l.at = "config", NEW d \in ReadConfigKey(c, l)
  PROVE  d \in Configs
<1> InputWriteMax \in Nat
  BY ConfigAssumption
<1>1. CASE l.key = "inputs"
  <2>1. PICK s \in Allocated(c.inputs, l, InputWriteMax, NewInput) : d = [c EXCEPT !.inputs = s]
    BY <1>1 DEF ReadConfigKey, RuleKeys
  <2>2. NewInput \in InputEntries
    BY NewTyped
  <2>3. s \in Seq(InputEntries) /\ Len(s) = l.value /\ l.value \in 0..InputWriteMax
    BY <2>2, AllocatedIs
  <2>4. Len(s) <= InputWriteMax
    BY <2>3
  <2> QED BY <2>1, <2>3, <2>4, ConfigWithEntries
<1>2. CASE l.key = "writes"
  <2>1. PICK s \in Allocated(c.writes, l, InputWriteMax, NewWrite) : d = [c EXCEPT !.writes = s]
    BY <1>2 DEF ReadConfigKey, RuleKeys
  <2>2. NewWrite \in WriteEntries
    BY NewTyped
  <2>3. s \in Seq(WriteEntries) /\ Len(s) = l.value /\ l.value \in 0..InputWriteMax
    BY <2>2, AllocatedIs
  <2>4. Len(s) <= InputWriteMax
    BY <2>3
  <2> QED BY <2>1, <2>3, <2>4, ConfigWithEntries
<1>3. CASE l.key = "module_count"
  <2>1. PICK n \in 0..SlaveMax : d = [c EXCEPT !.module_count = n]
    BY <1>3 DEF ReadConfigKey, RuleKeys
  <2> QED BY <2>1 DEF Configs
<1>4. CASE l.key = "module_slave_first"
  <2>1. PICK n \in 1..SlaveMax : d = [c EXCEPT !.module_slave_first = n]
    BY <1>4 DEF ReadConfigKey, RuleKeys
  <2> QED BY <2>1 DEF Configs
<1>5. CASE l.key \in RuleKeys
  <2>1. d = StoredRule(c, l) /\ l.value \in Int
    BY <1>5, ValueTypes DEF ReadConfigKey, RuleKeys
  <2>2. [c.rules EXCEPT ![l.key] = l.value] \in RuleSets
    BY <2>1, <1>5, RulesStored DEF Configs
  <2> QED BY <2>1, <2>2 DEF Configs, StoredRule
<1>6. CASE l.key \in {"version", "rtu", "frame_delay_ms", "query_mode", "topic_prefix", "ack"}
  <2>1. d = Stored(c, l)
    BY <1>6 DEF ReadConfigKey, RuleKeys
  <2>2. CASE l.key \in {"version", "frame_delay_ms"}
    BY <2>1, <2>2, ValueTypes DEF Configs, Stored
  <2>3. CASE l.key = "rtu"
    BY <2>1, <2>3, ValueTypes DEF Configs, Stored
  <2>4. CASE l.key = "query_mode"
    BY <2>1, <2>4, ValueTypes DEF Configs, Stored
  <2>5. CASE l.key = "topic_prefix"
    BY <2>1, <2>5, ValueTypes DEF Configs, Stored
  <2>6. CASE l.key = "ack"
    BY <2>1, <2>6, ValueTypes DEF Configs, Stored
  <2> QED BY <1>6, <2>2, <2>3, <2>4, <2>5, <2>6
<1> QED BY <1>1, <1>2, <1>3, <1>4, <1>5, <1>6, KeysOf

-----------------------------------------------------------------------------
(***************************************************************************)
(* A line leaves a configuration behind.                                   *)
(***************************************************************************)
LEMMA InRangeIs ==
  ASSUME NEW c, NEW l, IsLine(l), ~OutOfRange(c, l)
  PROVE  /\ l.at \in {"input", "input_channel"} => l.n \in DOMAIN c.inputs
         /\ l.at \in {"write", "write_channel"} => l.n \in DOMAIN c.writes
         /\ l.at = "input_channel" => l.c \in DOMAIN c.inputs[l.n].channels
         /\ l.at = "write_channel" => l.c \in DOMAIN c.writes[l.n].channels
BY DEF OutOfRange, OfInput

LEMMA LevelsAre ==
  ASSUME NEW l, IsLine(l)
  PROVE  l.at \in {"config", "input", "input_channel", "write", "write_channel"}
BY DEF IsLine, Levels

LEMMA ReadInputTyped ==
  ASSUME NEW e \in InputEntries, NEW l, IsLine(l), OfInput(l), l.at = "input_channel" => l.c \in DOMAIN e.channels,
         NEW d \in ReadInput(e, l)
  PROVE  d \in InputEntries
<1>1. CASE l.at = "input"
  BY <1>1, InputKeyTyped DEF ReadInput
<1>2. CASE l.at = "input_channel"
  <2>1. PICK ch \in ReadChannelKey(e.channels[l.c], l) : d = [e EXCEPT !.channels[l.c] = ch]
    BY <1>2 DEF ReadInput
  <2>0. e.channels \in Seq(InputChannels)
    BY DEF InputEntries, InputsOn
  <2>2. e.channels[l.c] \in InputChannels
    BY <1>2, <2>0
  <2>3. ch \in InputChannels
    BY <1>2, <2>2, ChannelKeyTyped
  <2>4. [e.channels EXCEPT ![l.c] = ch] \in Seq(InputChannels)
    BY <1>2, <2>0, <2>3, ExceptSeq
  <2>5. d = [e EXCEPT !.channels = [e.channels EXCEPT ![l.c] = ch]]
    BY <2>1
  <2> QED BY <2>4, <2>5 DEF InputEntries, InputsOn
<1> QED BY <1>1, <1>2 DEF OfInput

LEMMA ReadWriteTyped ==
  ASSUME NEW w \in WriteEntries, NEW l, IsLine(l), l.at \in {"write", "write_channel"},
         l.at = "write_channel" => l.c \in DOMAIN w.channels, NEW d \in ReadWrite(w, l)
  PROVE  d \in WriteEntries
<1>1. CASE l.at = "write"
  BY <1>1, WriteKeyTyped DEF ReadWrite
<1>2. CASE l.at = "write_channel"
  <2>1. PICK ch \in ReadWriteChannelKey(w.channels[l.c], l) : d = [w EXCEPT !.channels[l.c] = ch]
    BY <1>2 DEF ReadWrite
  <2>0. w.channels \in Seq(WriteChannels)
    BY DEF WriteEntries, WritesOn
  <2>2. w.channels[l.c] \in WriteChannels
    BY <1>2, <2>0
  <2>3. ch \in WriteChannels
    BY <1>2, <2>2, WriteChannelKeyTyped
  <2>4. [w.channels EXCEPT ![l.c] = ch] \in Seq(WriteChannels)
        /\ Len([w.channels EXCEPT ![l.c] = ch]) = Len(w.channels)
    BY <1>2, <2>0, <2>3, ExceptSeq
  <2>5. d = [w EXCEPT !.channels = [w.channels EXCEPT ![l.c] = ch]]
    BY <2>1
  <2> QED BY ZenonT(60), <2>4, <2>5 DEF WriteEntries, WritesOn
<1> QED BY <1>1, <1>2

LEMMA EntriesRead ==
  ASSUME NEW c \in Configs
  PROVE  /\ \A n \in DOMAIN c.inputs, e \in InputEntries : [c EXCEPT !.inputs[n] = e] \in Configs
         /\ \A n \in DOMAIN c.writes, w \in WriteEntries : [c EXCEPT !.writes[n] = w] \in Configs
<1>1. ASSUME NEW n \in DOMAIN c.inputs, NEW e \in InputEntries
      PROVE  [c EXCEPT !.inputs[n] = e] \in Configs
  <2> DEFINE s == [c.inputs EXCEPT ![n] = e]
  <2>1. c.inputs \in Seq(InputEntries) /\ Len(c.inputs) <= InputWriteMax
    BY DEF Configs
  <2>2. s \in Seq(InputEntries) /\ Len(s) = Len(c.inputs)
    BY <2>1
  <2>3. [c EXCEPT !.inputs[n] = e] = [c EXCEPT !.inputs = s]
    OBVIOUS
  <2> HIDE DEF s
  <2> QED BY <2>1, <2>2, <2>3, ConfigWithEntries
<1>2. ASSUME NEW n \in DOMAIN c.writes, NEW w \in WriteEntries
      PROVE  [c EXCEPT !.writes[n] = w] \in Configs
  <2> DEFINE s == [c.writes EXCEPT ![n] = w]
  <2>1. c.writes \in Seq(WriteEntries) /\ Len(c.writes) <= InputWriteMax
    BY DEF Configs
  <2>2. s \in Seq(WriteEntries) /\ Len(s) = Len(c.writes)
    BY <2>1
  <2>3. [c EXCEPT !.writes[n] = w] = [c EXCEPT !.writes = s]
    OBVIOUS
  <2> HIDE DEF s
  <2> QED BY <2>1, <2>2, <2>3, ConfigWithEntries
<1> QED BY <1>1, <1>2

LEMMA ReadTyped ==
  ASSUME NEW c \in Configs, NEW l, IsLine(l), NEW d \in Read(c, l)
  PROVE  d \in Configs
<1>1. CASE OutOfRange(c, l)
  BY <1>1 DEF Read, Skip
<1>2. CASE ~OutOfRange(c, l) /\ l.at = "config"
  BY <1>2, ConfigKeyTyped DEF Read
<1>3. CASE ~OutOfRange(c, l) /\ OfInput(l)
  <2>1. l.n \in DOMAIN c.inputs /\ (l.at = "input_channel" => l.c \in DOMAIN c.inputs[l.n].channels)
    BY <1>3, InRangeIs DEF OfInput
  <2>2. PICK e \in ReadInput(c.inputs[l.n], l) : d = [c EXCEPT !.inputs[l.n] = e]
    BY <1>3 DEF Read, OfInput
  <2>3. c.inputs[l.n] \in InputEntries
    BY <2>1 DEF Configs
  <2>4. e \in InputEntries
    BY <1>3, <2>1, <2>3, ReadInputTyped
  <2> QED BY <2>1, <2>2, <2>4, EntriesRead
<1>4. CASE ~OutOfRange(c, l) /\ l.at \in {"write", "write_channel"}
  <2>1. l.n \in DOMAIN c.writes /\ (l.at = "write_channel" => l.c \in DOMAIN c.writes[l.n].channels)
    BY <1>4, InRangeIs
  <2>2. PICK w \in ReadWrite(c.writes[l.n], l) : d = [c EXCEPT !.writes[l.n] = w]
    BY <1>4 DEF Read, OfInput
  <2>3. c.writes[l.n] \in WriteEntries
    BY <2>1 DEF Configs
  <2>4. w \in WriteEntries
    BY <1>4, <2>1, <2>3, ReadWriteTyped
  <2> QED BY <2>1, <2>2, <2>4, EntriesRead
<1> QED BY <1>1, <1>2, <1>3, <1>4, LevelsAre DEF OfInput

-----------------------------------------------------------------------------
(***************************************************************************)
(* The lines of a file, with their overrides.                              *)
(***************************************************************************)
IsFile(f) ==
  /\ DOMAIN f.overrides \subseteq Nat
  /\ \A k \in DOMAIN f.lines : IsLine(f.lines[k])
  /\ \A k \in DOMAIN f.overrides : IsLine(f.overrides[k])

LEMMA FilesAre == \A i \in DOMAIN Files : IsFile(Files[i])
<1> TAKE i \in DOMAIN Files
<1>1. DOMAIN Files[i].overrides \subseteq Nat
  BY FilesAssumption
<1>2. ASSUME NEW l \in Range(Files[i].lines) \cup Range(Files[i].overrides)
      PROVE  IsLine(l)
  BY FilesAssumption
<1> QED BY <1>1, <1>2 DEF IsFile, Range

LEMMA FirstGivenIs ==
  ASSUME NEW f, IsFile(f), NEW l, Given(f, l) # {}
  PROVE  IsLine(FirstGiven(f, l)) /\ SameKey(FirstGiven(f, l), l)
<1>1. Given(f, l) \in SUBSET Nat
  BY DEF Given, IsFile
<1>2. \E k \in Given(f, l) : \A j \in Given(f, l) : k <= j
  BY <1>1, LeastNumber
<1>3. Min(Given(f, l)) \in Given(f, l)
  BY <1>2 DEF Min
<1> QED BY <1>3 DEF Given, FirstGiven, IsFile

LEMMA OverriddenIs ==
  ASSUME NEW f, IsFile(f), NEW l, IsLine(l)
  PROVE  IsLine(Overridden(f, l)) /\ SameKey(Overridden(f, l), l)
<1>1. CASE Given(f, l) = {}
  BY <1>1 DEF Overridden, SameKey
<1>2. CASE Given(f, l) # {}
  BY <1>2, FirstGivenIs DEF Overridden
<1> QED BY <1>1, <1>2

LEMMA BesideIs ==
  ASSUME NEW f, IsFile(f), NEW key \in {"module_count", "module_slave_first"}, NEW l \in Beside(f, key)
  PROVE  IsLine(l) /\ l.at = "config" /\ l.key = key /\ l.n = 0 /\ l.c = 0
         /\ \A m \in Range(f.lines) : ~SameKey(m, l)
<1>1. l = FirstGiven(f, ModuleLine(key)) /\ Given(f, ModuleLine(key)) # {}
      /\ \A m \in Range(f.lines) : ~SameKey(m, ModuleLine(key))
  BY DEF Beside
<1>2. IsLine(l) /\ SameKey(l, ModuleLine(key))
  BY <1>1, FirstGivenIs
<1>3. l.at = "config" /\ l.key = key /\ l.n = 0 /\ l.c = 0
  BY <1>2 DEF SameKey, ModuleLine, Line
<1>4. ASSUME NEW m, ~SameKey(m, ModuleLine(key))
      PROVE  ~SameKey(m, l)
  BY <1>2, <1>4 DEF SameKey
<1> QED BY <1>1, <1>2, <1>3, <1>4

LEMMA BesideTyped ==
  ASSUME NEW f, IsFile(f), NEW key \in {"module_count", "module_slave_first"}, NEW c \in Configs,
         NEW d \in ReadBeside(f, key, c)
  PROVE  d \in Configs
<1>1. CASE Beside(f, key) = {}
  BY <1>1 DEF ReadBeside
<1>2. CASE Beside(f, key) # {}
  <2>1. PICK l \in Beside(f, key) : d \in Read(c, l)
    BY <1>2 DEF ReadBeside
  <2> QED BY <2>1, BesideIs, ReadTyped
<1> QED BY <1>1, <1>2

LEMMA OverridesTyped ==
  ASSUME NEW f, IsFile(f), NEW c \in Configs, NEW d \in WithModuleOverrides(f, c)
  PROVE  d \in Configs
<1>1. PICK e \in ReadBeside(f, "module_count", c) : d \in ReadBeside(f, "module_slave_first", e)
  BY DEF WithModuleOverrides
<1>2. e \in Configs
  BY BesideTyped
<1> QED BY <1>1, <1>2, BesideTyped

-----------------------------------------------------------------------------
(***************************************************************************)
(* What is read is a configuration, and what runs is one settled.          *)
(***************************************************************************)
ConfigTypeOK ==
  /\ \E i \in DOMAIN Files : file = Files[i]
  /\ read \subseteq DOMAIN file.lines
  /\ config \in Configs
  /\ outcome \in {"reading", "refused", "accepted"}
  /\ early \in BOOLEAN
  /\ outcome = "accepted" => result \in Settled(config)

LEMMA FileIs == ConfigTypeOK => IsFile(file)
BY FilesAre DEF ConfigTypeOK

LEMMA EmptyTyped == Empty \in Configs
<1>1. NoRules \in RuleSets /\ NoTopic \in Topics
  BY DEF NoRules, RuleSets, NoTopic, Topics
<1>2. <<>> \in Seq(InputEntries) /\ <<>> \in Seq(WriteEntries) /\ Len(<<>>) = 0
  BY EmptySeq
<1>3. SlaveMax \in Nat \ {0} /\ InputWriteMax \in Nat
  BY ConfigAssumption
<1> QED BY <1>1, <1>2, <1>3 DEF Empty, Configs, Modes

LEMMA ConfigTypeInit == ConfigInit => ConfigTypeOK
BY EmptyTyped DEF ConfigInit, ConfigTypeOK

LEMMA ConfigTypeNext == ConfigTypeOK /\ [ConfigNext]_configVars => ConfigTypeOK'
<1> SUFFICES ASSUME ConfigTypeOK, [ConfigNext]_configVars PROVE ConfigTypeOK'
  OBVIOUS
<1>0. IsFile(file)
  BY FileIs
<1>1. ASSUME NEW k \in DOMAIN file.lines, ReadLine(k) PROVE ConfigTypeOK'
  <2> DEFINE line == Overridden(file, file.lines[k])
  <2>1. IsLine(line)
    BY <1>0, OverriddenIs DEF IsFile
  <2>2. /\ outcome = "reading" /\ read' = read \cup {k} /\ UNCHANGED <<file, result>>
        /\ early' = (early \/ OutOfRange(config, line))
        /\ \/ outcome' = "refused" /\ config' = config
           \/ config' \in Read(config, line) /\ outcome' = outcome
    BY <1>1 DEF ReadLine
  <2> HIDE DEF line
  <2>3. config' \in Configs
    BY <2>1, <2>2, ReadTyped DEF ConfigTypeOK
  <2>4. early' \in BOOLEAN
    BY <2>2 DEF ConfigTypeOK
  <2> QED BY <2>2, <2>3, <2>4 DEF ConfigTypeOK
<1>2. ASSUME Finish PROVE ConfigTypeOK'
  <2>1. UNCHANGED <<file, read, early>>
    BY <1>2 DEF Finish
  <2>2. CASE outcome' = "refused" /\ UNCHANGED <<config, result>>
    BY <2>1, <2>2 DEF ConfigTypeOK
  <2>3. CASE outcome' = "accepted" /\ config' \in WithModuleOverrides(file, config) /\ result' \in Settled(config')
    BY <1>0, <2>1, <2>3, OverridesTyped DEF ConfigTypeOK
  <2> QED BY <1>2, <2>2, <2>3 DEF Finish
<1>3. CASE UNCHANGED configVars
  BY <1>3 DEF configVars, ConfigTypeOK
<1> QED BY <1>1, <1>2, <1>3 DEF ConfigNext

-----------------------------------------------------------------------------
(***************************************************************************)
(* The n-th member of a finite set of numbers: counting the members up to  *)
(* one of them numbers the set.                                            *)
(***************************************************************************)
UpTo(S, k) == {j \in S : j <= k}

LEMMA Rank ==
  ASSUME NEW S \in SUBSET Nat, IsFiniteSet(S)
  PROVE  /\ \A k \in S : Cardinality(UpTo(S, k)) \in 1..Cardinality(S)
         /\ \A j, k \in S : j # k => Cardinality(UpTo(S, j)) # Cardinality(UpTo(S, k))
         /\ \A n \in 1..Cardinality(S) : \E k \in S : Cardinality(UpTo(S, k)) = n
<1> DEFINE N == Cardinality(S)
           rank == [k \in S |-> Cardinality(UpTo(S, k))]
<1>1. N \in Nat
  BY FS_CardinalityType
<1>2. ASSUME NEW k \in S
      PROVE  Cardinality(UpTo(S, k)) \in 1..N /\ IsFiniteSet(UpTo(S, k))
  <2>1. UpTo(S, k) \in SUBSET S /\ k \in UpTo(S, k)
    BY DEF UpTo
  <2>2. IsFiniteSet(UpTo(S, k)) /\ Cardinality(UpTo(S, k)) <= N
    BY <2>1, FS_Subset
  <2>3. Cardinality(UpTo(S, k)) \in Nat /\ Cardinality(UpTo(S, k)) # 0
    BY <2>1, <2>2, FS_CardinalityType, FS_EmptySet
  <2> QED BY <1>1, <2>2, <2>3
<1>3. ASSUME NEW j \in S, NEW k \in S, j < k
      PROVE  Cardinality(UpTo(S, j)) # Cardinality(UpTo(S, k))
  <2>0. j \in Nat /\ k \in Nat
    OBVIOUS
  <2>1. \A i \in S : i <= j => i <= k
    BY <1>3, <2>0
  <2>2. k <= k /\ ~(k <= j)
    BY <1>3, <2>0
  <2>3. UpTo(S, j) \in SUBSET UpTo(S, k) /\ k \in UpTo(S, k) /\ k \notin UpTo(S, j)
    BY <2>1, <2>2 DEF UpTo
  <2> QED BY <1>2, <2>3, FS_Subset
<1>4. \A j, k \in S : j # k => Cardinality(UpTo(S, j)) # Cardinality(UpTo(S, k))
  BY <1>3
<1>5. rank \in Injection(S, 1..N)
  BY <1>2, <1>4 DEF Injection, IsInjective
<1>6. IsFiniteSet(1..N) /\ Cardinality(1..N) = N
  BY <1>1, FS_Interval
<1>7. rank \in Surjection(S, 1..N)
  <2> HIDE DEF N, rank
  <2> QED BY <1>5, <1>6, FS_Injection DEF N
<1>8. \A n \in 1..N : \E k \in S : rank[k] = n
  BY <1>7 DEF Surjection
<1> QED BY <1>2, <1>4, <1>8

LEMMA NthIs ==
  ASSUME NEW S \in SUBSET Nat, IsFiniteSet(S)
  PROVE  /\ \A n \in 1..Cardinality(S) : Nth(S, n) \in S /\ Cardinality(UpTo(S, Nth(S, n))) = n
         /\ \A k \in S : Nth(S, Cardinality(UpTo(S, k))) = k
<1>1. \A n : Nth(S, n) = CHOOSE k \in S : Cardinality(UpTo(S, k)) = n
  BY DEF Nth, UpTo
<1>2. ASSUME NEW n \in 1..Cardinality(S)
      PROVE  Nth(S, n) \in S /\ Cardinality(UpTo(S, Nth(S, n))) = n
  <2>1. \E k \in S : Cardinality(UpTo(S, k)) = n
    BY Rank
  <2> QED BY <1>1, <2>1
<1>3. ASSUME NEW k \in S
      PROVE  Nth(S, Cardinality(UpTo(S, k))) = k
  <2>1. Cardinality(UpTo(S, k)) \in 1..Cardinality(S)
    BY Rank
  <2>2. Nth(S, Cardinality(UpTo(S, k))) \in S
        /\ Cardinality(UpTo(S, Nth(S, Cardinality(UpTo(S, k))))) = Cardinality(UpTo(S, k))
    BY <1>2, <2>1
  <2> QED BY <2>2, Rank
<1> QED BY <1>2, <1>3

-----------------------------------------------------------------------------
(***************************************************************************)
(* The entries that run: position p of the expansion is entry Src(list, p) *)
(* of the list, for module Mod(list, p).                                   *)
(***************************************************************************)
Src(list, p) == ((p - 1) % Len(list)) + 1
Mod(list, p) == (p - 1) \div Len(list)

LEMMA PlacesAre ==
  ASSUME NEW c, c.module_count \in Nat, NEW S, NEW list \in Seq(S)
  PROVE  /\ Places(c, list) \in SUBSET Nat /\ IsFiniteSet(Places(c, list))
         /\ \A p \in Places(c, list) : /\ Src(list, p) \in DOMAIN list /\ Entry(list, p) = list[Src(list, p)]
                                       /\ Mod(list, p) \in 0..c.module_count - 1
                                       /\ p = Mod(list, p) * Len(list) + Src(list, p)
                                       /\ p <= Len(list) \/ Entry(list, p).module = Template
<1>1. PICK L \in Nat, M \in Nat : L = Len(list) /\ M = c.module_count
  OBVIOUS
<1>2. L * M \in Nat
  OBVIOUS
<1>3. IsFiniteSet(1..L * M)
  BY <1>2, FS_Interval
<1>4. Places(c, list) \in SUBSET (1..L * M)
  BY <1>1 DEF Places
<1>5. ASSUME NEW p \in Places(c, list)
      PROVE  /\ Src(list, p) \in DOMAIN list /\ Entry(list, p) = list[Src(list, p)]
             /\ Mod(list, p) \in 0..c.module_count - 1
             /\ p = Mod(list, p) * Len(list) + Src(list, p)
             /\ p <= Len(list) \/ Entry(list, p).module = Template
  <2>1. p \in 1..L * M /\ p \in Int
    BY <1>2, <1>4
  <2>2. L # 0
    BY <2>1
  <2>3. PICK q \in Int, r \in 0..L - 1 : q = (p - 1) \div L /\ r = (p - 1) % L /\ p - 1 = L * q + r
    <3>1. p - 1 \in Int /\ L \in Nat \ {0}
      BY <2>1, <2>2
    <3>2. /\ (p - 1) \div L \in Int /\ (p - 1) % L \in 0..L - 1
          /\ p - 1 = L * ((p - 1) \div L) + ((p - 1) % L)
      BY <3>1, Divides
    <3> QED BY <3>2
  <2>4. q >= 0
    <3>1. q < 0 => L * q <= -L
      BY <2>2
    <3> QED BY <2>1, <2>3, <3>1
  <2>5. q < M
    <3>1. q >= M => L * q >= L * M
      OBVIOUS
    <3> QED BY <1>2, <2>1, <2>3, <3>1
  <2>6. Src(list, p) = r + 1 /\ Mod(list, p) = q
    BY <1>1, <2>3 DEF Src, Mod
  <2>7. p <= Len(list) \/ Entry(list, p).module = Template
    BY DEF Places
  <2>8. L * q = q * L
    OBVIOUS
  <2>9. Src(list, p) \in DOMAIN list /\ Mod(list, p) \in 0..c.module_count - 1
    <3>1. DOMAIN list = 1..Len(list)
      OBVIOUS
    <3>2. r + 1 \in 1..L
      OBVIOUS
    <3>3. DOMAIN list = 1..L /\ r + 1 \in 1..L
      BY <1>1, <3>1, <3>2
    <3>4. q \in 0..M - 1
      BY <2>3, <2>4, <2>5
    <3> QED BY <1>1, <2>6, <3>3, <3>4
  <2>10. p = Mod(list, p) * Len(list) + Src(list, p)
    BY SMTT(30), <1>1, <2>1, <2>3, <2>6, <2>8
  <2>11. Entry(list, p) = list[Src(list, p)]
    BY DEF Entry, Src
  <2> QED BY <2>7, <2>9, <2>10, <2>11
<1> QED BY <1>2, <1>3, <1>4, <1>5, FS_Subset

LEMMA ExpandedIs ==
  ASSUME NEW c, c.module_count \in Nat, NEW S, NEW list \in Seq(S)
  PROVE  /\ \E n \in Nat : DOMAIN Expanded(c, list) = 1..n /\ Len(Expanded(c, list)) = n
         /\ \A k \in DOMAIN Expanded(c, list) : \E i \in DOMAIN list :
              \/ Expanded(c, list)[k] = list[i]
              \/ \E m \in 0..c.module_count - 1 : Expanded(c, list)[k] = Copy(c, list[i], m)
<1>1. CASE Templates(list) = {}
  <2>1. Expanded(c, list) = list
    BY <1>1 DEF Expanded
  <2>2. Len(list) \in Nat /\ DOMAIN list = 1..Len(list)
    OBVIOUS
  <2> QED BY <2>1, <2>2
<1>2. CASE Templates(list) # {}
  <2> DEFINE P == Places(c, list)
             n == Cardinality(P)
  <2>1. Expanded(c, list) = [k \in 1..n |-> CopyAt(c, list, Nth(P, k))]
    BY <1>2 DEF Expanded
  <2>2. P \in SUBSET Nat /\ IsFiniteSet(P)
    BY PlacesAre
  <2>3. n \in Nat
    BY <2>2, FS_CardinalityType
  <2>4. ASSUME NEW k \in 1..n
        PROVE  \E i \in DOMAIN list :
                 \/ CopyAt(c, list, Nth(P, k)) = list[i]
                 \/ \E m \in 0..c.module_count - 1 : CopyAt(c, list, Nth(P, k)) = Copy(c, list[i], m)
    <3>1. Nth(P, k) \in P
      BY <2>2, NthIs
    <3>2. PICK p \in P : p = Nth(P, k)
      BY <3>1
    <3>3. Src(list, p) \in DOMAIN list /\ Entry(list, p) = list[Src(list, p)] /\ Mod(list, p) \in 0..c.module_count - 1
      BY PlacesAre
    <3>4. CopyAt(c, list, p) = list[Src(list, p)] \/ CopyAt(c, list, p) = Copy(c, list[Src(list, p)], Mod(list, p))
      BY <3>3 DEF CopyAt, Mod
    <3> QED BY <3>2, <3>3, <3>4
  <2> HIDE DEF P, n
  <2> QED BY <2>1, <2>3, <2>4
<1> QED BY <1>1, <1>2

LEMMA FormatSizes ==
  ASSUME NEW f
  PROVE  /\ f \in OneByte => FormatSize(f) = 1
         /\ f \in TwoBytes => FormatSize(f) = 2
         /\ f \in FourBytes => FormatSize(f) = 4
<1> USE DEF OneByte, TwoBytes, FourBytes, Floats
<1>1. CASE f \in OneByte
  BY <1>1 DEF FormatSize
<1>2. CASE f \in TwoBytes
  BY <1>2 DEF FormatSize
<1>3. CASE f \in FourBytes
  BY <1>3 DEF FormatSize
<1> QED BY <1>1, <1>2, <1>3

\* A format that changes its meaning keeps its size.
LEMMA VersionFormats ==
  ASSUME NEW f \in DOMAIN Unsigned
  PROVE  /\ Unsigned[f] \in Formats \ Texts /\ FormatSize(Unsigned[f]) = FormatSize(f)
         /\ Unsigned[f] \notin {"", "float_ba"} /\ f \in Formats \ Texts
<1>1. \/ f = "int8" /\ Unsigned[f] = "a"
      \/ f = "int16_ab" /\ Unsigned[f] = "ab"
      \/ f = "int16_ba" /\ Unsigned[f] = "ba"
  BY DEF Unsigned
<1>2. \A g \in OneByte : FormatSize(g) = 1
  BY FormatSizes
<1>3. \A g \in TwoBytes : FormatSize(g) = 2
  BY FormatSizes
<1>4. CASE f = "int8" /\ Unsigned[f] = "a"
  BY <1>2, <1>4 DEF OneByte, Formats, Texts, Numbers
<1>5. CASE f = "int16_ab" /\ Unsigned[f] = "ab"
  BY <1>3, <1>5 DEF TwoBytes, Formats, Texts, Numbers
<1>6. CASE f = "int16_ba" /\ Unsigned[f] = "ba"
  BY <1>3, <1>6 DEF TwoBytes, Formats, Texts, Numbers
<1> QED BY <1>1, <1>4, <1>5, <1>6

LEMMA AsVersionTyped ==
  ASSUME NEW c
  PROVE  /\ \A ch \in WriteChannels : AsVersion(c, ch) \in WriteChannels
         /\ \A w \in WritesOn(Int) : AsVersion(c, w) \in WritesOn(Int)
<1>1. ASSUME NEW ch \in WriteChannels, ch.format \in DOMAIN Unsigned
      PROVE  [ch EXCEPT !.format = Unsigned[@]] \in WriteChannels
  BY <1>1, VersionFormats DEF WriteChannels
<1>2. ASSUME NEW w \in WritesOn(Int), w.format \in DOMAIN Unsigned
      PROVE  [w EXCEPT !.format = Unsigned[@]] \in WritesOn(Int)
  BY ZenonT(60), <1>2, VersionFormats DEF WritesOn
<1> QED BY <1>1, <1>2 DEF AsVersion

LEMMA CopyTyped ==
  ASSUME NEW c \in Configs, NEW w \in WriteEntries, NEW m \in Nat
  PROVE  w \in WritesOn(Int) /\ Copy(c, w, m) \in WritesOn(Int)
<1>1. c.module_slave_first + m \in Nat
  <2>1. SlaveMax \in Nat /\ c.module_slave_first \in 1..SlaveMax
    BY ConfigAssumption DEF Configs
  <2> QED BY <2>1
<1>2. w \in WritesOn(Int)
  <2>1. {None, Template} \subseteq Int
    BY DEF None, Template
  <2> QED BY <2>1 DEF WriteEntries, WritesOn
<1>3. ASSUME NEW n \in Int, NEW s \in Nat
      PROVE  [w EXCEPT !.module = n, !.slave = s] \in WritesOn(Int)
  <2>1. [w EXCEPT !.module = n] \in WritesOn(Int)
    BY ZenonT(60), <1>2 DEF WritesOn
  <2>2. [[w EXCEPT !.module = n] EXCEPT !.slave = s] \in WritesOn(Int)
    BY ZenonT(60), <2>1 DEF WritesOn
  <2> QED BY <2>2
<1>4. Copy(c, w, m) \in WritesOn(Int)
  <2>1. m \in Int
    OBVIOUS
  <2> QED BY <1>1, <1>3, <2>1 DEF Copy
<1> QED BY <1>2, <1>4

LEMMA PreparedWriteTyped ==
  ASSUME NEW c, NEW e \in WritesOn(Int)
  PROVE  PreparedWrite(c, e) \in WritesOn(Int)
<1> DEFINE s == [k \in DOMAIN e.channels |-> AsVersion(c, e.channels[k])]
<1>1. e.channels \in Seq(WriteChannels) /\ Len(e.channels) <= BlockMax
  BY DEF WritesOn
<1>2. s \in Seq(WriteChannels) /\ Len(s) = Len(e.channels)
  BY <1>1, AsVersionTyped
<1> HIDE DEF s
<1>3. [e EXCEPT !.channels = s] \in WritesOn(Int)
  BY ZenonT(60), <1>1, <1>2 DEF WritesOn
<1>4. PreparedWrite(c, e) = AsVersion(c, [e EXCEPT !.channels = s])
  BY DEF PreparedWrite, PreparedInput, s
<1> QED BY <1>3, <1>4, AsVersionTyped

LEMMA SettledIs ==
  ASSUME NEW c, NEW r \in Settled(c)
  PROVE  /\ ModulesFit(c) /\ CanExpand(c, c.inputs) /\ CanExpand(c, c.writes)
         /\ Valid(Prepared(c)) /\ TopicsValid(Named(Prepared(c)))
         /\ r = Indexed(Named(Prepared(c)))
BY DEF Settled

LEMMA PreparedWritesAre ==
  ASSUME NEW c \in Configs
  PROVE  /\ \E n \in Nat : /\ DOMAIN Prepared(c).writes = 1..n /\ DOMAIN Expanded(c, c.writes) = 1..n
         /\ \A k \in DOMAIN Prepared(c).writes :
              /\ Expanded(c, c.writes)[k] \in WritesOn(Int)
              /\ Prepared(c).writes[k] = PreparedWrite(c, Expanded(c, c.writes)[k])
<1>1. c.writes \in Seq(WriteEntries) /\ c.module_count \in Nat
  <2>1. SlaveMax \in Nat
    BY ConfigAssumption
  <2> QED BY <2>1 DEF Configs
<1>2. Prepared(c).writes = [k \in DOMAIN Expanded(c, c.writes) |-> PreparedWrite(c, Expanded(c, c.writes)[k])]
  BY DEF Prepared, PreparedWrite, Configs
<1>3. \E n \in Nat : DOMAIN Expanded(c, c.writes) = 1..n
  BY <1>1, ExpandedIs
<1>4. ASSUME NEW k \in DOMAIN Expanded(c, c.writes)
      PROVE  Expanded(c, c.writes)[k] \in WritesOn(Int)
  <2>1. PICK i \in DOMAIN c.writes :
          \/ Expanded(c, c.writes)[k] = c.writes[i]
          \/ \E m \in 0..c.module_count - 1 : Expanded(c, c.writes)[k] = Copy(c, c.writes[i], m)
    BY <1>1, ExpandedIs
  <2>2. c.writes[i] \in WriteEntries
    BY <1>1
  <2>3. \A m \in 0..c.module_count - 1 : m \in Nat
    BY <1>1
  <2> QED BY <2>1, <2>2, <2>3, CopyTyped
<1> QED BY <1>2, <1>3, <1>4

LEMMA SettledWritesAre ==
  ASSUME NEW c \in Configs, NEW r \in Settled(c)
  PROVE  /\ \E n \in Nat : DOMAIN r.writes = 1..n /\ DOMAIN Expanded(c, c.writes) = 1..n
         /\ \A k \in DOMAIN r.writes :
              LET v == PreparedWrite(c, Expanded(c, c.writes)[k])
                  w == NamedWrite(Prepared(c), v)
              IN /\ v \in WritesOn(Int) /\ WriteValid(v)
                 /\ TopicValid(w.topic, w.module) /\ TopicValid(w.ack_topic, w.module)
                 /\ r.writes[k] = IndexedWrite(Named(Prepared(c)), w)
<1> DEFINE p == Prepared(c)
           d == Named(p)
<1>1. r = Indexed(d) /\ Valid(p) /\ TopicsValid(d)
  BY SettledIs
<1>2. p = [c EXCEPT !.frame_delay_ms = p.frame_delay_ms, !.inputs = p.inputs, !.writes = p.writes]
  BY DEF Prepared, Configs
<1>3. "writes" \in DOMAIN p /\ "inputs" \in DOMAIN p
  BY <1>2 DEF Configs
<1> HIDE DEF p
<1>4. d.writes = [k \in DOMAIN p.writes |-> NamedWrite(p, p.writes[k])] /\ "writes" \in DOMAIN d
  BY <1>3 DEF Named, NamedWrite
<1> HIDE DEF d
<1>5. r.writes = [k \in DOMAIN d.writes |-> IndexedWrite(d, d.writes[k])]
  BY <1>1, <1>4 DEF Indexed, IndexedWrite
<1>6. \A w \in Range(p.writes) : WriteValid(w)
  BY <1>1 DEF Valid
<1>7. \A k \in DOMAIN p.writes : WriteValid(p.writes[k])
  BY <1>6 DEF Range
<1>8. /\ \E n \in Nat : DOMAIN p.writes = 1..n /\ DOMAIN Expanded(c, c.writes) = 1..n
      /\ \A k \in DOMAIN p.writes :
           /\ Expanded(c, c.writes)[k] \in WritesOn(Int)
           /\ p.writes[k] = PreparedWrite(c, Expanded(c, c.writes)[k])
  BY PreparedWritesAre DEF p
<1>9. DOMAIN r.writes = DOMAIN p.writes
  BY <1>4, <1>5
<1>10. ASSUME NEW k \in DOMAIN r.writes, NEW v, v = PreparedWrite(c, Expanded(c, c.writes)[k]),
              NEW w, w = NamedWrite(p, v)
       PROVE  /\ v \in WritesOn(Int) /\ WriteValid(v)
              /\ TopicValid(w.topic, w.module) /\ TopicValid(w.ack_topic, w.module)
              /\ r.writes[k] = IndexedWrite(d, w)
  <2>1. v = p.writes[k] /\ v \in WritesOn(Int)
    BY <1>8, <1>9, <1>10, PreparedWriteTyped
  <2>2. k \in DOMAIN d.writes /\ d.writes[k] = w
    BY <1>4, <1>9, <1>10, <2>1
  <2>3. w \in Range(d.writes)
    BY <2>2 DEF Range
  <2>4. TopicValid(w.topic, w.module) /\ TopicValid(w.ack_topic, w.module)
    BY <1>1, <2>3 DEF TopicsValid
  <2> QED BY <1>5, <1>7, <1>9, <2>1, <2>2, <2>4
<1> QED BY <1>8, <1>9, <1>10 DEF p, d

-----------------------------------------------------------------------------
(***************************************************************************)
(* What a raw number stands for encodes to that number.                    *)
(***************************************************************************)
LEMMA RoundedExact ==
  ASSUME NEW k \in Int, NEW q \in Nat \ {0}, NEW p \in Int, p = k * q
  PROVE  Rounded(p, q) = k
<1>1. PICK r \in Int : r = Rounded(p, q) /\ 2 * (r * q - p) <= q /\ 2 * (p - r * q) <= q
  BY RoundedNear
<1>2. PICK d \in Int : d = r - k
  OBVIOUS
<1>3. d * q = r * q - k * q
  BY <1>2
<1>4. PICK x \in Int : x = d * q /\ 2 * x <= q /\ 2 * (-x) <= q
  <2>1. d * q = r * q - p
    BY <1>3
  <2>2. PICK y \in Int : y = r * q
    OBVIOUS
  <2> QED BY <1>1, <2>1, <2>2
<1>5. d >= 1 => d * q >= q
  OBVIOUS
<1>6. d <= -1 => d * q <= -q
  OBVIOUS
<1>7. d = 0
  BY <1>4, <1>5, <1>6
<1> QED BY <1>1, <1>2, <1>7

LEMMA RawExact ==
  ASSUME NEW ch, ch.add \in Int, ch.mod \in Int, ch.mul \in Int, NEW k \in Int
  PROVE  RawValue(ch, StandsFor(ch, k)) = k
<1>1. CASE ch.format \in Floats
  <2>1. StandsFor(ch, k) = <<k, 1>>
    BY <1>1 DEF StandsFor
  <2>2. k \div 1 = k
    OBVIOUS
  <2> QED BY <1>1, <2>1, <2>2 DEF RawValue
<1>2. CASE ch.format \notin Floats
  <2>1. PICK T \in Int \ {0}, D \in Nat \ {0} : T = Times(ch) /\ D = Divided(ch)
    BY Factors
  <2>2. PICK a \in Int : a = ch.add
    OBVIOUS
  <2>3. StandsFor(ch, k) = <<(k + a) * T, D>>
    BY <1>2, <2>1, <2>2 DEF StandsFor, Scaled
  <2>4. PICK p \in Int, q \in Int : p = ((k + a) * T) * D - a * D * T /\ q = D * T
    OBVIOUS
  <2>5. p = k * q /\ q # 0
    <3>1. ((k + a) * T) * D = k * (D * T) + a * D * T
      OBVIOUS
    <3>2. D * T # 0
      OBVIOUS
    <3>3. PICK x \in Int, y \in Int : x = k * q /\ y = a * D * T
      OBVIOUS
    <3> QED BY <2>4, <3>1, <3>2, <3>3
  <2>6. RawValue(ch, StandsFor(ch, k)) = IF q > 0 THEN Rounded(p, q) ELSE Rounded(-p, -q)
    BY <1>2, <2>1, <2>2, <2>3, <2>4 DEF RawValue
  <2>7. CASE q > 0
    <3>1. q \in Nat \ {0}
      BY <2>7
    <3>2. Rounded(p, q) = k
      BY <2>5, <3>1, RoundedExact
    <3> QED BY <2>6, <2>7, <3>2
  <2>8. CASE ~(q > 0)
    <3>1. -q \in Nat \ {0} /\ -p \in Int
      BY <2>5, <2>8
    <3>2. -p = k * (-q)
      BY <2>5
    <3>3. Rounded(-p, -q) = k
      BY <3>1, <3>2, RoundedExact
    <3> QED BY <2>6, <2>8, <3>3
  <2> QED BY <2>7, <2>8
<1> QED BY <1>1, <1>2

\* The raw numbers up to BlockMax are in the range of every format of a block.
LEMMA SmallFits ==
  ASSUME NEW f \in TwoBytes \cup FourBytes, NEW k \in 0..BlockMax
  PROVE  /\ f \in Numbers /\ FormatSize(f) \in {2, 4} /\ k \in Low(f)..High(f) /\ k \in WriteLow(f)..High(f)
<1>1. f \in Numbers /\ FormatSize(f) \in {2, 4}
  BY FormatSizes DEF Numbers
<1>2. BlockMax \in Nat /\ BlockMax < Weight(2) \div 2
  BY ConfigAssumption
<1>3. PICK B \in Nat \ {0} : B = Byte * Byte /\ Weight(2) = B /\ Weight(4) = B * B
  <2>1. Byte * Byte \in Nat \ {0}
    BY Weights
  <2> QED BY <2>1, Weights
<1>4. B * B >= B
  OBVIOUS
<1>5. PICK W \in Nat : W = Weight(FormatSize(f)) /\ W >= B
  <2>1. B * B \in Nat
    OBVIOUS
  <2> QED BY <1>1, <1>3, <1>4, <2>1
<1>6. k < W \div 2 /\ k <= W - 1
  <2>1. B \div 2 <= W \div 2
    BY <1>5
  <2>2. k < B \div 2
    BY <1>2, <1>3
  <2> QED BY <2>1, <2>2
<1>7. High(f) = W \div 2 - 1 \/ High(f) = W - 1
  BY <1>5 DEF High
<1>8. Low(f) \in Int /\ Low(f) <= 0 /\ High(f) \in Int /\ k <= High(f)
  BY <1>1, <1>6, <1>7, FormatWeights
<1>9. WriteLow(f) \in Int /\ WriteLow(f) <= 0
  <2>1. B \div 2 \in Nat
    OBVIOUS
  <2> QED BY <1>3, <1>8, <2>1 DEF WriteLow
<1> QED BY <1>1, <1>8, <1>9

LEMMA EncodesSmall ==
  ASSUME NEW ch, ch.format \in TwoBytes \cup FourBytes, NEW v, NEW k \in 0..BlockMax, RawValue(ch, v) = k
  PROVE  /\ EncodeScaled(ch, v) = EncodeValue(ch.format, k) /\ EncodeScaled(ch, v) # Refused
         /\ Len(EncodeScaled(ch, v)) = FormatSize(ch.format)
         /\ DOMAIN EncodeScaled(ch, v) = 1..FormatSize(ch.format)
<1>1. EncodeScaled(ch, v) = EncodeValue(ch.format, k)
  BY SmallFits DEF EncodeScaled
<1>2. PICK size \in {2, 4} : size = FormatSize(ch.format) /\ ch.format \in Numbers
  BY SmallFits
<1>3. k \in Int
  OBVIOUS
<1>4. DOMAIN EncodeValue(ch.format, k) = 1..size
  BY <1>2, <1>3, Encoded
<1>5. Len(EncodeValue(ch.format, k)) = size
  <2>1. PICK s : s = EncodeValue(ch.format, k)
    OBVIOUS
  <2>2. s = [i \in 1..size |-> s[i]]
    BY <1>2, <2>1 DEF EncodeValue
  <2> QED BY <2>1, <2>2
<1>6. EncodeValue(ch.format, k) # <<>>
  BY <1>2, <1>5
<1> QED BY <1>1, <1>2, <1>4, <1>5, <1>6 DEF Refused

-----------------------------------------------------------------------------
(***************************************************************************)
(* A block that is accepted.                                               *)
(***************************************************************************)
LEMMA FormatsWritten ==
  ASSUME NEW f \in Formats \cup {""}, f \notin {""} \cup Texts, f # "float_ba"
  PROVE  f \in TwoBytes \cup FourBytes \/ FormatSize(f) = 1
<1>1. f \in OneByte \cup TwoBytes \cup FourBytes
  BY DEF Formats, Numbers
<1> QED BY <1>1, FormatSizes

LEMMA BlockChannels ==
  ASSUME NEW w \in WritesOn(Int), BlockValid(w), \A k \in DOMAIN w.channels : w.channels[k].format # "float_ba"
  PROVE  /\ Registers(w) \in 1..BlockMax
         /\ \A k \in DOMAIN w.channels :
              LET ch == w.channels[k]
              IN /\ ch.format \in TwoBytes \cup FourBytes /\ ch.length = FormatSize(ch.format)
                 /\ ch.add \in Int /\ ch.mod \in Int /\ ch.mul \in Int
                 /\ \E o \in Nat, l \in {1, 2} : ch.offset = 2 * o /\ ch.length = 2 * l /\ o + l <= Registers(w)
<1>1. Registers(w) \in 1..BlockMax
  BY DEF BlockValid
<1>2. w.channels \in Seq(WriteChannels)
  BY DEF WritesOn
<1>3. ASSUME NEW k \in DOMAIN w.channels, NEW ch, ch = w.channels[k]
      PROVE  /\ ch.format \in TwoBytes \cup FourBytes /\ ch.length = FormatSize(ch.format)
             /\ ch.add \in Int /\ ch.mod \in Int /\ ch.mul \in Int
             /\ \E o \in Nat, l \in {1, 2} : ch.offset = 2 * o /\ ch.length = 2 * l /\ o + l <= Registers(w)
  <2>1. ch \in WriteChannels
    BY <1>2, <1>3
  <2>2. /\ ch.format \notin {""} \cup Texts /\ ch.length \in {2, 4}
        /\ ch.offset >= 0 /\ ch.offset % 2 = 0
        /\ (ch.offset + ch.length) \div 2 <= Registers(w)
    BY <1>3 DEF BlockValid
  <2>3. /\ ch.format \in Formats \cup {""} /\ ch.length = FormatSize(ch.format) /\ ch.offset \in Int
        /\ ch.add \in Int /\ ch.mod \in Int /\ ch.mul \in Int
    BY <2>1 DEF WriteChannels
  <2>4. ch.format \in TwoBytes \cup FourBytes
    <3>1. ch.format \in TwoBytes \cup FourBytes \/ FormatSize(ch.format) = 1
      BY <1>3, <2>2, <2>3, FormatsWritten
    <3>2. PICK s : s = ch.length /\ s \in {2, 4}
      BY <2>2
    <3>3. s # 1
      BY <3>2
    <3> QED BY <2>3, <3>1, <3>2, <3>3
  <2>5. PICK o \in Nat : ch.offset = 2 * o
    <3>1. PICK x \in Int : x = ch.offset /\ x >= 0 /\ x % 2 = 0
      BY <2>2, <2>3
    <3>2. x = 2 * (x \div 2) /\ x \div 2 \in Nat
      BY <3>1
    <3> QED BY <3>1, <3>2
  <2>6. PICK l \in {1, 2} : ch.length = 2 * l
    <3>1. PICK s : s = ch.length /\ s \in {2, 4}
      BY <2>2
    <3>2. s = 2 * 1 \/ s = 2 * 2
      BY <3>1
    <3> QED BY <3>1, <3>2
  <2>7. (2 * o + 2 * l) \div 2 = o + l
    OBVIOUS
  <2> QED BY <2>2, <2>3, <2>4, <2>5, <2>6, <2>7
<1> QED BY <1>1, <1>3

\* No register is that of two channels.
LEMMA BlockApart ==
  ASSUME NEW w \in WritesOn(Int), BlockValid(w), \A k \in DOMAIN w.channels : w.channels[k].format # "float_ba",
         NEW j \in DOMAIN w.channels, NEW k \in DOMAIN w.channels, j # k
  PROVE  \/ w.channels[j].offset + w.channels[j].length <= w.channels[k].offset
         \/ w.channels[k].offset + w.channels[k].length <= w.channels[j].offset
<1>1. PICK a \in Nat, x \in {1, 2} :
        w.channels[j].offset = 2 * a /\ w.channels[j].length = 2 * x /\ a + x <= Registers(w)
  BY BlockChannels
<1>2. PICK b \in Nat, y \in {1, 2} :
        w.channels[k].offset = 2 * b /\ w.channels[k].length = 2 * y /\ b + y <= Registers(w)
  BY BlockChannels
<1>3. PICK n \in Nat : n = Registers(w)
  <2>1. Registers(w) \in 1..BlockMax /\ BlockMax \in Nat
    BY BlockChannels, ConfigAssumption
  <2> QED BY <2>1
<1>4. ASSUME NEW r \in Nat, a <= r, r < a + x, b <= r, r < b + y
      PROVE  FALSE
  <2>1. r \in 0..n - 1
    BY <1>1, <1>3, <1>4
  <2>2. Cardinality(Claims(w, r)) = 1
    BY <1>3, <2>1 DEF BlockValid, Tiled
  <2>3. (2 * a) \div 2 = a /\ (2 * b) \div 2 = b /\ (2 * a + 2 * x) \div 2 = a + x /\ (2 * b + 2 * y) \div 2 = b + y
    OBVIOUS
  <2>4. j \in Claims(w, r) /\ k \in Claims(w, r)
    BY <1>1, <1>2, <1>4, <2>3 DEF Claims, Covers
  <2>5. IsFiniteSet(Claims(w, r))
    <3>1. Claims(w, r) \in SUBSET (DOMAIN w.channels)
      BY DEF Claims
    <3>2. w.channels \in Seq(WriteChannels)
      BY DEF WritesOn
    <3>3. IsFiniteSet(DOMAIN w.channels)
      <4>1. PICK N \in Nat : DOMAIN w.channels = 1..N
        BY <3>2
      <4>2. IsFiniteSet(1..N)
        BY FS_Interval
      <4> QED BY <4>1, <4>2
    <3> QED BY <3>1, <3>3, FS_Subset
  <2>6. \E i : Claims(w, r) = {i}
    BY <2>2, <2>5, FS_Singleton
  <2> QED BY <2>4, <2>6
<1>5. a + x <= b \/ b + y <= a
  <2>1. a \in Nat /\ b \in Nat
    OBVIOUS
  <2>2. CASE a <= b
    <3>1. ~(b < a + x)
      BY <1>4, <2>2
    <3> QED BY <3>1
  <2>3. CASE b <= a
    <3>1. ~(a < b + y)
      BY <1>4, <2>3
    <3> QED BY <3>1
  <2> QED BY <2>1, <2>2, <2>3
<1> QED BY <1>1, <1>2, <1>5

\* Every byte is that of the channel its register belongs to.
LEMMA BytesHeld ==
  ASSUME NEW w \in WritesOn(Int), BlockValid(w), \A k \in DOMAIN w.channels : w.channels[k].format # "float_ba",
         NEW b \in 1..2 * Registers(w)
  PROVE  Cardinality({k \in DOMAIN w.channels :
                        w.channels[k].offset < b /\ b <= w.channels[k].offset + w.channels[k].length}) = 1
<1>1. PICK n \in Nat : n = Registers(w)
  <2>1. Registers(w) \in 1..BlockMax /\ BlockMax \in Nat
    BY BlockChannels, ConfigAssumption
  <2> QED BY <2>1
<1>2. PICK r \in 0..n - 1 : b = 2 * r + 1 \/ b = 2 * r + 2
  <2>1. b \in 1..2 * n
    BY <1>1
  <2>2. PICK r \in Int : r = (b - 1) \div 2
    BY <2>1
  <2>3. r \in 0..n - 1 /\ (b = 2 * r + 1 \/ b = 2 * r + 2)
    BY <2>1, <2>2
  <2> QED BY <2>3
<1>3. Cardinality(Claims(w, r)) = 1
  BY <1>1 DEF BlockValid, Tiled
<1>4. ASSUME NEW k \in DOMAIN w.channels
      PROVE  Covers(w.channels[k], r) <=>
               w.channels[k].offset < b /\ b <= w.channels[k].offset + w.channels[k].length
  <2>1. PICK o \in Nat, l \in {1, 2} : w.channels[k].offset = 2 * o /\ w.channels[k].length = 2 * l
    BY BlockChannels
  <2>2. (2 * o) \div 2 = o /\ (2 * o + 2 * l) \div 2 = o + l
    OBVIOUS
  <2>3. Covers(w.channels[k], r) <=> o <= r /\ r < o + l
    BY <2>1, <2>2 DEF Covers
  <2>4. o <= r /\ r < o + l <=> 2 * o < b /\ b <= 2 * o + 2 * l
    BY <1>2
  <2> QED BY <2>1, <2>3, <2>4
<1>5. Claims(w, r) = {k \in DOMAIN w.channels :
                        w.channels[k].offset < b /\ b <= w.channels[k].offset + w.channels[k].length}
  BY <1>4 DEF Claims
<1> QED BY <1>3, <1>5

LEMMA BlockSendable ==
  ASSUME NEW w \in WritesOn(Int), BlockValid(w), \A k \in DOMAIN w.channels : w.channels[k].format # "float_ba",
         NEW x, x.channels = w.channels, x.naddress = Registers(w)
  PROVE  BlockReadsBack(x)
<1> DEFINE values == [k \in DOMAIN x.channels |-> StandsFor(x.channels[k], k)]
           parts == [c \in DOMAIN x.channels |-> EncodeChannel(x, c, values[c])]
           fits(c) == /\ x.channels[c].offset % 2 = 0
                      /\ x.channels[c].offset \div 2 >= 0
                      /\ x.channels[c].offset + Len(parts[c]) <= 2 * x.naddress
           bad == \/ Len(values) # Len(x.channels)
                  \/ \E c \in DOMAIN parts : parts[c] = Refused \/ ~fits(c)
           pieces == [c \in DOMAIN parts |-> [at |-> x.channels[c].offset, bytes |-> parts[c]]]
           bytes == EncodeBlock(x, values)
           at == [c \in DOMAIN x.channels |-> x.channels[c].offset]
           len == [c \in DOMAIN x.channels |-> FormatSize(x.channels[c].format)]
<1>1. PICK n \in Nat \ {0} : n = x.naddress /\ n = Registers(w)
  <2>1. Registers(w) \in 1..BlockMax /\ BlockMax \in Nat
    BY BlockChannels, ConfigAssumption
  <2> QED BY <2>1
<1>2. PICK N \in Nat : DOMAIN x.channels = 1..N /\ Len(x.channels) = N /\ N <= BlockMax
  <2>1. w.channels \in Seq(WriteChannels) /\ Len(w.channels) <= BlockMax
    BY DEF WritesOn
  <2>2. x.channels \in Seq(WriteChannels) /\ Len(x.channels) <= BlockMax
    BY <2>1
  <2> QED BY <2>2
<1>3. ASSUME NEW c \in 1..N
      PROVE  LET ch == x.channels[c]
             IN /\ ch.format \in TwoBytes \cup FourBytes /\ ch.length = FormatSize(ch.format)
                /\ ch.add \in Int /\ ch.mod \in Int /\ ch.mul \in Int
                /\ \E o \in Nat, l \in {1, 2} : ch.offset = 2 * o /\ ch.length = 2 * l /\ o + l <= n
  BY <1>1, <1>2, BlockChannels
<1>4. ASSUME NEW c \in 1..N
      PROVE  /\ parts[c] = EncodeValue(x.channels[c].format, c) /\ parts[c] # Refused
             /\ Len(parts[c]) = FormatSize(x.channels[c].format)
             /\ DOMAIN parts[c] = 1..FormatSize(x.channels[c].format)
  <2>1. PICK ch : ch = x.channels[c] /\ ch.format \in TwoBytes \cup FourBytes
                  /\ ch.add \in Int /\ ch.mod \in Int /\ ch.mul \in Int
    BY <1>3
  <2>2. parts[c] = EncodeScaled(ch, StandsFor(ch, c))
    BY <1>2, <2>1 DEF EncodeChannel
  <2>3. RawValue(ch, StandsFor(ch, c)) = c
    BY <2>1, RawExact
  <2>4. c \in 0..BlockMax
    <3>1. BlockMax \in Nat
      BY ConfigAssumption
    <3> QED BY <1>2, <3>1
  <2> HIDE DEF parts
  <2> QED BY <2>1, <2>2, <2>3, <2>4, EncodesSmall
<1>5. Len(values) = N /\ DOMAIN parts = 1..N
  <2>1. values = [k \in 1..N |-> StandsFor(x.channels[k], k)]
    BY <1>2
  <2>2. Len([k \in 1..N |-> StandsFor(x.channels[k], k)]) = N
    OBVIOUS
  <2>3. DOMAIN parts = 1..N
    BY <1>2
  <2> QED BY <2>1, <2>2, <2>3
<1>6. ASSUME NEW c \in 1..N
      PROVE  fits(c) /\ Within(2 * n, at[c], len[c]) /\ at[c] \in Int /\ len[c] \in Nat
             /\ at[c] = x.channels[c].offset /\ len[c] = x.channels[c].length
  <2>1. PICK o \in Nat, l \in {1, 2} :
          /\ x.channels[c].offset = 2 * o /\ x.channels[c].length = 2 * l /\ o + l <= n
          /\ x.channels[c].length = FormatSize(x.channels[c].format)
    BY <1>3
  <2>2. at[c] = 2 * o /\ len[c] = 2 * l
    BY <1>2, <2>1
  <2>3. Len(parts[c]) = 2 * l
    BY <1>4, <2>1
  <2> HIDE DEF parts, at, len
  <2>4. (2 * o) % 2 = 0 /\ (2 * o) \div 2 >= 0 /\ 2 * o + 2 * l <= 2 * n /\ 2 * o \in Int /\ 2 * l \in Nat
    BY <2>1
  <2> QED BY <1>1, <2>1, <2>2, <2>3, <2>4 DEF Within
<1>7. bytes = LaidOver(2 * n, pieces)
  <2>1. bytes = IF bad THEN Refused ELSE LaidOver(2 * x.naddress, pieces)
    <3> HIDE DEF values
    <3> QED BY DEF EncodeBlock
  <2>2. ~bad
    <3> HIDE DEF parts, values
    <3> QED BY <1>2, <1>4, <1>5, <1>6
  <2> HIDE DEF bad, pieces, bytes
  <2> QED BY <1>1, <2>1, <2>2
<1>8. LieApart(N, pieces, at, len, parts)
  <2>1. at \in [1..N -> Int] /\ len \in [1..N -> Nat]
    <3>1. DOMAIN at = 1..N /\ DOMAIN len = 1..N
      BY <1>2
    <3>2. at = [c \in 1..N |-> at[c]] /\ len = [c \in 1..N |-> len[c]]
      BY <1>2
    <3> HIDE DEF at, len
    <3> QED BY <1>6, <3>2
  <2>2. \A c \in 1..N : DOMAIN parts[c] = 1..len[c]
    <3> HIDE DEF parts
    <3> QED BY <1>2, <1>4
  <2>3. ASSUME NEW c \in 1..N, NEW d \in 1..N, c # d
        PROVE  at[c] + len[c] <= at[d] \/ at[d] + len[d] <= at[c]
    <3>1. \/ x.channels[c].offset + x.channels[c].length <= x.channels[d].offset
          \/ x.channels[d].offset + x.channels[d].length <= x.channels[c].offset
      BY <1>2, <2>3, BlockApart
    <3> HIDE DEF at, len
    <3> QED BY <1>6, <3>1
  <2>4. pieces = [d \in 1..N |-> [at |-> at[d], bytes |-> parts[d]]]
    <3>1. \A d \in 1..N : at[d] = x.channels[d].offset
      BY <1>2
    <3> HIDE DEF parts, at
    <3> QED BY <1>5, <3>1
  <2> HIDE DEF parts, at, len, pieces
  <2> QED BY <2>1, <2>2, <2>3, <2>4 DEF LieApart
<1>9. Len(bytes) = 2 * n /\ DOMAIN bytes = 1..2 * n
  <2>1. 2 * n \in Nat
    OBVIOUS
  <2> HIDE DEF pieces, bytes
  <2> QED BY <1>7, <2>1, LaidDomain
<1>10. ASSUME NEW k \in DOMAIN x.channels
       PROVE  LET ch == x.channels[k]
              IN DecodeValue(ch.format, SubSeq(bytes, ch.offset + 1, ch.offset + ch.length)) = k
  <2>1. k \in 1..N
    BY <1>2, <1>10
  <2>2. PICK ch : ch = x.channels[k] /\ ch.format \in TwoBytes \cup FourBytes /\ ch.length = FormatSize(ch.format)
                  /\ \E o \in Nat, l \in {1, 2} : ch.offset = 2 * o /\ ch.length = 2 * l
    BY <1>3, <2>1
  <2>3. PICK o \in Nat, s \in Nat : o = ch.offset /\ s = ch.length /\ o = at[k] /\ s = len[k]
    <3>1. ch.offset \in Nat /\ ch.length \in Nat
      BY <2>2
    <3> HIDE DEF at, len
    <3> QED BY <1>6, <2>1, <2>2, <3>1
  <2>4. \A i \in 1..s : bytes[o + i] = EncodeValue(ch.format, k)[i]
    <3>1. ReadsWhole(2 * n, pieces, at[k], len[k], parts[k])
      <4>1. 2 * n \in Nat
        OBVIOUS
      <4> HIDE DEF pieces, at, len, parts
      <4> QED BY <1>6, <1>8, <2>1, <4>1, LaidApart
    <3> HIDE DEF pieces, at, len, parts, bytes
    <3> QED BY <1>4, <1>7, <2>1, <2>2, <2>3, <3>1 DEF ReadsWhole
  <2> HIDE DEF bytes
  <2>5. SubSeq(bytes, o + 1, o + s) = [i \in 1..s |-> bytes[o + i]]
    BY FieldAt
  <2>6. \A i \in 1..FormatSize(ch.format) : SubSeq(bytes, o + 1, o + s)[i] = EncodeValue(ch.format, k)[i]
    BY <2>2, <2>3, <2>4, <2>5
  <2>7. ch.format \in Numbers /\ k \in Low(ch.format)..High(ch.format) /\ k \in Int
    <3>1. BlockMax \in Nat
      BY ConfigAssumption
    <3>2. k \in 0..BlockMax
      BY <1>2, <2>1, <3>1
    <3> QED BY <2>1, <2>2, <3>2, SmallFits
  <2>8. DecodeValue(ch.format, SubSeq(bytes, o + 1, o + s)) = k
    BY <2>6, <2>7, Decoded
  <2> QED BY <2>2, <2>3, <2>8
<1>11. ASSUME NEW b \in DOMAIN bytes
       PROVE  Cardinality({k \in DOMAIN x.channels :
                x.channels[k].offset < b /\ b <= x.channels[k].offset + x.channels[k].length}) = 1
  <2>1. b \in 1..2 * Registers(w)
    <3> HIDE DEF bytes
    <3> QED BY <1>1, <1>9, <1>11
  <2> QED BY <2>1, BytesHeld
<1>12. bytes # Refused
  <2> HIDE DEF bytes
  <2>1. bytes = <<>> => Len(bytes) = 0
    OBVIOUS
  <2> QED BY <1>9, <2>1 DEF Refused
<1> QED BY <1>1, <1>9, <1>10, <1>11, <1>12 DEF BlockReadsBack

-----------------------------------------------------------------------------
(***************************************************************************)
(* A single value that is accepted, and both together.                     *)
(***************************************************************************)
Plain(format) == [format |-> format, add |-> 0, mod |-> 0, mul |-> 0]

LEMMA OneFits ==
  ASSUME NEW f \in TwoBytes \cup FourBytes
  PROVE  Len(EncodeScaled(Plain(f), <<1, 1>>)) = FormatSize(f)
<1>1. RawValue(Plain(f), <<1, 1>>) = 1
  <2>1. Plain(f).add = 0 /\ Plain(f).mod = 0 /\ Plain(f).mul = 0 /\ Plain(f).format = f
    BY DEF Plain
  <2> HIDE DEF Plain
  <2>2. RawValue(Plain(f), StandsFor(Plain(f), 1)) = 1
    BY <2>1, RawExact
  <2>3. StandsFor(Plain(f), 1) = <<1, 1>>
    BY <2>1 DEF StandsFor, Scaled, Times, Divided, OrOne
  <2> QED BY <2>2, <2>3
<1>2. 1 \in 0..BlockMax
  <2>1. BlockMax \in Nat \ {0}
    BY ConfigAssumption
  <2> QED BY <2>1
<1>3. Plain(f).format = f
  BY DEF Plain
<1> HIDE DEF Plain
<1> QED BY <1>1, <1>2, <1>3, EncodesSmall

\* What WriteSettled leaves of a valid single value.
LEMMA SingleSendable ==
  ASSUME NEW v \in WritesOn(Int), SingleValid(v)
  PROVE  LET w == Derived(v)
         IN /\ (w.function = "write_coil") = (w.type = "coil")
            /\ w.format = v.format
            /\ w.type # "coil" /\ w.format # "float_ba" => FillsRegisters(w)
<1> DEFINE w == Derived(v)
<1>1. (w.function = "write_coil") = (w.type = "coil")
  BY DEF SingleValid
<1>2. w.format = v.format
  BY DEF Derived, WritesOn
<1>3. ASSUME w.type # "coil", w.format # "float_ba"
      PROVE  FillsRegisters(w)
  <2>1. v.format # "" /\ TakesLength(w.function, v.length)
    BY <1>3 DEF SingleValid
  <2> HIDE DEF w
  <2>2. v.format \in (Formats \ Texts) \cup {""} /\ v.length = FormatSize(v.format)
    BY DEF WritesOn
  <2>3. v.format \in TwoBytes \cup FourBytes
    <3>1. v.format \in TwoBytes \cup FourBytes \/ FormatSize(v.format) = 1
      BY <1>2, <1>3, <2>1, <2>2, FormatsWritten
    <3>2. PICK s : s = v.length /\ s \in {2, 4}
      BY <2>1 DEF TakesLength
    <3>3. s # 1
      BY <3>2
    <3> QED BY <2>2, <3>1, <3>2, <3>3
  <2>4. Len(EncodeScaled(Plain(v.format), <<1, 1>>)) = v.length
    BY <2>2, <2>3, OneFits
  <2>5. FillsRegisters(w) <=> v.length \in IF w.function = "write_register" THEN {2} ELSE {2, 4}
    BY <1>2, <2>4 DEF FillsRegisters, Plain
  <2>6. PICK s : s = v.length /\ s \in {2, 4} /\ (s = 4 => w.function # "write_register")
    BY <2>1 DEF TakesLength
  <2> QED BY <2>5, <2>6
<1> QED BY <1>1, <1>2, <1>3

\* Neither the topics nor the ack make a difference to what is sent.
SameFrame(w, v) ==
  /\ w.channels = v.channels /\ w.format = v.format /\ w.function = v.function
  /\ w.type = v.type /\ w.naddress = v.naddress
WriteSendable(w) ==
  /\ (w.function = "write_coil") = (w.type = "coil")
  /\ w.channels # <<>> =>
       \/ \E ch \in Range(w.channels) : ch.format = "float_ba"
       \/ w.function = "write_registers" /\ BlockReadsBack(w)
  /\ w.channels = <<>> /\ w.type # "coil" /\ w.format # "float_ba" => FillsRegisters(w)

LEMMA SettledTyped ==
  ASSUME NEW v \in WritesOn(Int), WriteValid(v)
  PROVE  /\ {"function", "type", "naddress", "channels", "format", "topic", "ack_topic", "ack", "module"}
              \subseteq DOMAIN WriteSettled(v)
         /\ WriteSettled(v).channels = v.channels
         /\ v.channels = <<>> => WriteSettled(v) = Derived(v)
         /\ v.channels # <<>> => /\ WriteSettled(v).function = "write_registers"
                                 /\ WriteSettled(v).type = "holding_register"
                                 /\ WriteSettled(v).naddress = Registers(v)
BY DEF WriteSettled, Derived, WritesOn

LEMMA FrameKept ==
  ASSUME NEW c, NEW d, NEW v \in WritesOn(Int), WriteValid(v)
  PROVE  SameFrame(IndexedWrite(d, NamedWrite(c, v)), WriteSettled(v))
<1>1. PICK s : s = WriteSettled(v)
  OBVIOUS
<1>2. {"function", "type", "naddress", "channels", "format", "topic", "ack_topic", "ack", "module"} \subseteq DOMAIN s
  BY <1>1, SettledTyped
<1>3. PICK t : t = NamedWrite(c, v)
  OBVIOUS
<1>4. t = [s EXCEPT !.topic = Prefixed(c, @), !.ack_topic = Prefixed(c, @)]
  BY <1>1, <1>3 DEF NamedWrite
<1>5. SameFrame(t, s) /\ DOMAIN t = DOMAIN s
  BY <1>4 DEF SameFrame
<1>6. PICK u : u = [t EXCEPT !.topic = Substituted(@, t.module), !.ack_topic = Substituted(@, t.module)]
  OBVIOUS
<1>7. SameFrame(u, t)
  BY <1>6 DEF SameFrame
<1>8. SameFrame(WithAck(d, u), u)
  BY DEF SameFrame, WithAck
<1>9. IndexedWrite(d, NamedWrite(c, v)) = WithAck(d, u)
  BY <1>3, <1>6 DEF IndexedWrite
<1> QED BY <1>1, <1>5, <1>7, <1>8, <1>9 DEF SameFrame

LEMMA WriteIsSendable ==
  ASSUME NEW v \in WritesOn(Int), WriteValid(v), NEW w, SameFrame(w, WriteSettled(v))
  PROVE  WriteSendable(w)
<1>1. CASE v.channels = <<>>
  <2>1. SingleValid(v) /\ WriteSettled(v) = Derived(v) /\ w.channels = <<>>
    BY <1>1, SettledTyped DEF WriteValid, SameFrame
  <2>2. /\ w.function = Derived(v).function /\ w.type = Derived(v).type /\ w.format = Derived(v).format
    BY <2>1 DEF SameFrame
  <2>3. FillsRegisters(w) <=> FillsRegisters(Derived(v))
    BY <2>2 DEF FillsRegisters
  <2> QED BY <2>1, <2>2, <2>3, SingleSendable DEF WriteSendable
<1>2. CASE v.channels # <<>>
  <2>1. BlockValid(v) /\ w.channels = v.channels /\ w.function = "write_registers"
        /\ w.type = "holding_register" /\ w.naddress = Registers(v)
    BY <1>2, SettledTyped DEF WriteValid, SameFrame
  <2>2. ASSUME ~\E ch \in Range(w.channels) : ch.format = "float_ba"
        PROVE  BlockReadsBack(w)
    <3>1. \A k \in DOMAIN v.channels : v.channels[k].format # "float_ba"
      BY <2>1, <2>2 DEF Range
    <3> QED BY <2>1, <3>1, BlockSendable
  <2> QED BY <1>2, <2>1, <2>2 DEF WriteSendable
<1> QED BY <1>1, <1>2

LEMMA TypeSendable == ConfigTypeOK => WritesSendable
<1> SUFFICES ASSUME ConfigTypeOK, outcome = "accepted" PROVE \A w \in Range(result.writes) : WriteSendable(w)
  BY DEF WritesSendable, WriteSendable
<1>1. config \in Configs /\ result \in Settled(config)
  BY DEF ConfigTypeOK
<1> TAKE w \in Range(result.writes)
<1>2. PICK k \in DOMAIN result.writes : w = result.writes[k]
  BY DEF Range
<1>3. PICK v : /\ v \in WritesOn(Int) /\ WriteValid(v)
               /\ w = IndexedWrite(Named(Prepared(config)), NamedWrite(Prepared(config), v))
  BY <1>1, <1>2, SettledWritesAre
<1> QED BY <1>3, FrameKept, WriteIsSendable

\* Whatever the lines, the parser keeps a configuration, and what runs is that
\* one settled: expanded, checked and named.
THEOREM ConfigTyped == ConfigSpec => []ConfigTypeOK
BY ConfigTypeInit, ConfigTypeNext, PTL DEF ConfigSpec

\* What the validation lets through can be sent: a single value fills the
\* registers of its function, a block encodes and reads back channel by channel.
THEOREM WritesSendableProved == ConfigSpec => []WritesSendable
BY ConfigTyped, TypeSendable, PTL

-----------------------------------------------------------------------------
(***************************************************************************)
(* What runs: every entry of a fixed slave once, every template for each   *)
(* module.  The expansion lists them all, and none twice.                  *)
(***************************************************************************)
Runs(c, list) ==
  {<<i, None>> : i \in DOMAIN list \ Templates(list)} \cup (Templates(list) \X (0..c.module_count - 1))
RunOf(c, list, r) == IF list[r[1]].module = Template THEN Copy(c, list[r[1]], r[2]) ELSE list[r[1]]
RunAt(list, p) == IF Entry(list, p).module = Template THEN <<Src(list, p), Mod(list, p)>> ELSE <<Src(list, p), None>>

\* The position of a run.
LEMMA PlaceOf ==
  ASSUME NEW c, c.module_count \in Nat, NEW S, NEW list \in Seq(S), NEW i \in DOMAIN list,
         NEW m \in 0..c.module_count - 1, m = 0 \/ list[i].module = Template
  PROVE  /\ m * Len(list) + i \in Places(c, list)
         /\ Src(list, m * Len(list) + i) = i /\ Mod(list, m * Len(list) + i) = m
<1>1. PICK L \in Nat, M \in Nat : L = Len(list) /\ M = c.module_count /\ i \in 1..L /\ m \in 0..M - 1
  OBVIOUS
<1>2. PICK p \in Int : p = m * L + i
  BY <1>1
<1>3. PICK x \in Nat : x = m * L
  BY <1>1
<1>4. x <= L * M - L
  <2>1. m <= M - 1
    BY <1>1
  <2>2. m * L <= (M - 1) * L
    BY SMTT(30), <1>1, <2>1
  <2>3. (M - 1) * L = L * M - L
    BY <1>1
  <2> QED BY <1>3, <2>2, <2>3
<1>5. p \in 1..L * M
  <2>1. PICK y \in Nat : y = L * M
    BY <1>1
  <2>2. x <= y - L /\ p = x + i
    BY <1>2, <1>3, <1>4, <2>1
  <2>3. L \in Nat /\ i \in 1..L
    BY <1>1
  <2>4. p \in 1..y
    BY <2>2, <2>3
  <2> QED BY <2>1, <2>4
<1>6. (p - 1) % L = i - 1 /\ (p - 1) \div L = m
  <2>1. p - 1 = L * m + (i - 1)
    BY <1>1, <1>2
  <2>2. L \in Nat \ {0} /\ m \in Int /\ i - 1 \in 0..L - 1
    BY <1>1
  <2>3. (L * m + (i - 1)) \div L = m /\ (L * m + (i - 1)) % L = i - 1
    BY <2>2, DividesAs
  <2> QED BY <2>1, <2>3
<1>7. Src(list, p) = i /\ Mod(list, p) = m
  BY <1>1, <1>6 DEF Src, Mod
<1>8. Entry(list, p) = list[i]
  BY <1>7 DEF Entry, Src
<1>9. p <= L \/ Entry(list, p).module = Template
  BY <1>1, <1>2, <1>8
<1>10. p \in Places(c, list)
  BY <1>1, <1>5, <1>9 DEF Places
<1> QED BY <1>1, <1>2, <1>7, <1>10

LEMMA ExpansionRuns ==
  ASSUME NEW c, c.module_count \in Nat, NEW S, NEW list \in Seq(S), CanExpand(c, list)
  PROVE  \E o \in Bijection(DOMAIN Expanded(c, list), Runs(c, list)) :
           \A k \in DOMAIN Expanded(c, list) : Expanded(c, list)[k] = RunOf(c, list, o[k])
<1>1. CASE Templates(list) = {}
  <2> DEFINE o == [k \in DOMAIN list |-> <<k, None>>]
  <2>1. Expanded(c, list) = list
    BY <1>1 DEF Expanded
  <2>2. Runs(c, list) = {<<i, None>> : i \in DOMAIN list}
    BY <1>1 DEF Runs
  <2>3. o \in Bijection(DOMAIN list, Runs(c, list))
    BY <2>2 DEF Bijection, Injection, IsInjective, Surjection
  <2>4. \A k \in DOMAIN list : list[k].module # Template
    BY <1>1 DEF Templates
  <2>5. \A k \in DOMAIN list : list[k] = RunOf(c, list, o[k])
    BY <2>4 DEF RunOf
  <2> HIDE DEF o
  <2> QED BY <2>1, <2>3, <2>5
<1>2. CASE Templates(list) # {}
  <2> DEFINE P == Places(c, list)
             n == Cardinality(P)
             o == [k \in 1..n |-> RunAt(list, Nth(P, k))]
  <2>1. Expanded(c, list) = [k \in 1..n |-> CopyAt(c, list, Nth(P, k))]
    BY <1>2 DEF Expanded
  <2>2. P \in SUBSET Nat /\ IsFiniteSet(P)
    BY PlacesAre
  <2>3. \A k \in 1..n : Nth(P, k) \in P
    BY <2>2, NthIs
  <2>4. \A j, k \in 1..n : Nth(P, j) = Nth(P, k) => j = k
    BY <2>2, NthIs
  <2>5. \A p \in P : \E k \in 1..n : Nth(P, k) = p
    BY <2>2, NthIs, Rank
  <2>6. ASSUME NEW p \in P
        PROVE  /\ Src(list, p) \in DOMAIN list /\ Entry(list, p) = list[Src(list, p)]
               /\ Mod(list, p) \in 0..c.module_count - 1
               /\ p = Mod(list, p) * Len(list) + Src(list, p)
               /\ Entry(list, p).module # Template => Mod(list, p) = 0
    <3>1. /\ Src(list, p) \in DOMAIN list /\ Entry(list, p) = list[Src(list, p)]
          /\ Mod(list, p) \in 0..c.module_count - 1
          /\ p = Mod(list, p) * Len(list) + Src(list, p)
          /\ p <= Len(list) \/ Entry(list, p).module = Template
      BY PlacesAre
    <3>2. ASSUME p <= Len(list)
          PROVE  Mod(list, p) = 0
      <4>1. DOMAIN list = 1..Len(list) /\ Len(list) \in Nat
        OBVIOUS
      <4>2. Src(list, p) \in 1..Len(list) /\ Mod(list, p) \in Nat
        BY SMTT(30), <3>1, <4>1
      <4>3. PICK L \in Nat : L = Len(list)
        BY <4>1
      <4>4. PICK m \in Nat : m = Mod(list, p)
        BY <4>2
      <4>5. PICK i \in 1..L : i = Src(list, p)
        BY <4>2, <4>3
      <4>6. m = Mod(list, p) /\ p = m * L + i
        BY <3>1, <4>3, <4>4, <4>5
      <4>7. m >= 1 => m * L >= L
        OBVIOUS
      <4>8. m * L + i <= L
        BY <3>2, <4>3, <4>6
      <4> QED BY <4>6, <4>7, <4>8
    <3> QED BY <3>1, <3>2
  <2> HIDE DEF P, n
  <2>7. ASSUME NEW p \in P
        PROVE  RunAt(list, p) \in Runs(c, list) /\ CopyAt(c, list, p) = RunOf(c, list, RunAt(list, p))
    <3>1. CASE Entry(list, p).module = Template
      <4>1. RunAt(list, p) = <<Src(list, p), Mod(list, p)>> /\ Src(list, p) \in Templates(list)
        BY <2>6, <3>1 DEF RunAt, Templates
      <4>2. CopyAt(c, list, p) = Copy(c, Entry(list, p), Mod(list, p))
        BY <3>1 DEF CopyAt, Mod
      <4> QED BY <2>6, <3>1, <4>1, <4>2 DEF Runs, RunOf
    <3>2. CASE Entry(list, p).module # Template
      <4>1. RunAt(list, p) = <<Src(list, p), None>> /\ Src(list, p) \in DOMAIN list \ Templates(list)
        BY <2>6, <3>2 DEF RunAt, Templates
      <4>2. CopyAt(c, list, p) = Entry(list, p)
        BY <3>2 DEF CopyAt
      <4> QED BY <2>6, <3>2, <4>1, <4>2 DEF Runs, RunOf
    <3> QED BY <3>1, <3>2
  <2>8. ASSUME NEW p \in P, NEW q \in P, RunAt(list, p) = RunAt(list, q)
        PROVE  p = q
    <3>1. Src(list, p) = Src(list, q) /\ Entry(list, p) = Entry(list, q)
      BY <2>6, <2>8 DEF RunAt
    <3>2. Mod(list, p) = Mod(list, q)
      BY <2>6, <2>8, <3>1 DEF RunAt
    <3> QED BY <2>6, <3>1, <3>2
  <2>9. ASSUME NEW r \in Runs(c, list)
        PROVE  \E p \in P : RunAt(list, p) = r
    <3>1. CASE r \in Templates(list) \X (0..c.module_count - 1)
      <4>1. PICK i \in Templates(list), m \in 0..c.module_count - 1 : r = <<i, m>>
        BY <3>1
      <4>2. i \in DOMAIN list /\ list[i].module = Template
        BY DEF Templates
      <4>3. PICK p \in P : Src(list, p) = i /\ Mod(list, p) = m
        BY <4>2, PlaceOf DEF P
      <4> QED BY <2>6, <4>1, <4>2, <4>3 DEF RunAt
    <3>2. CASE \E i \in DOMAIN list \ Templates(list) : r = <<i, None>>
      <4>1. PICK i \in DOMAIN list \ Templates(list) : r = <<i, None>>
        BY <3>2
      <4>2. list[i].module # Template
        BY DEF Templates
      <4>3. 0 \in 0..c.module_count - 1
        <5>1. c.module_count > 0
          BY <1>2 DEF CanExpand
        <5> QED BY <5>1
      <4>4. PICK p \in P : Src(list, p) = i
        BY <4>3, PlaceOf DEF P
      <4> QED BY <2>6, <4>1, <4>2, <4>4 DEF RunAt
    <3> QED BY <3>1, <3>2 DEF Runs
  <2>10. o \in Bijection(1..n, Runs(c, list))
    <3>1. o \in [1..n -> Runs(c, list)]
      BY <2>3, <2>7
    <3>2. \A j, k \in 1..n : o[j] = o[k] => j = k
      BY <2>3, <2>4, <2>8
    <3>3. \A r \in Runs(c, list) : \E k \in 1..n : o[k] = r
      BY <2>5, <2>9
    <3> HIDE DEF o
    <3> QED BY <3>1, <3>2, <3>3 DEF Bijection, Injection, IsInjective, Surjection
  <2>11. \A k \in 1..n : Expanded(c, list)[k] = RunOf(c, list, o[k])
    BY <2>1, <2>3, <2>7
  <2>12. DOMAIN Expanded(c, list) = 1..n
    BY <2>1
  <2> HIDE DEF o
  <2> QED BY <2>10, <2>11, <2>12
<1> QED BY <1>1, <1>2

LEMMA FromOne ==
  ASSUME NEW n \in Nat
  PROVE  IsFiniteSet(1..n) /\ Cardinality(1..n) = n
BY FS_Interval

LEMMA FromZero ==
  ASSUME NEW n \in Nat
  PROVE  IsFiniteSet(0..n - 1) /\ Cardinality(0..n - 1) = n
<1>1. n - 1 \in Int /\ 0 \in Int
  OBVIOUS
<1>2. IsFiniteSet(0..n - 1) /\ Cardinality(0..n - 1) = IF 0 > n - 1 THEN 0 ELSE n - 1 - 0 + 1
  BY <1>1, FS_Interval
<1> QED BY <1>2

\* As many run as CanExpand counts.
LEMMA RunsCounted ==
  ASSUME NEW c, c.module_count \in Nat, NEW S, NEW list \in Seq(S),
         Templates(list) # {} => c.module_count > 0
  PROVE  IsFiniteSet(Runs(c, list)) /\ Cardinality(Runs(c, list)) = Total(c, list)
<1> DEFINE T == Templates(list)
           A == {<<i, None>> : i \in DOMAIN list \ T}
           B == T \X (0..c.module_count - 1)
<1>1. PICK N \in Nat, M \in Nat : DOMAIN list = 1..N /\ Len(list) = N /\ M = c.module_count
  OBVIOUS
<1>2. IsFiniteSet(DOMAIN list) /\ Cardinality(DOMAIN list) = N
  <2>1. IsFiniteSet(1..N) /\ Cardinality(1..N) = N
    BY FromOne
  <2> QED BY <1>1, <2>1
<1>3. T \in SUBSET (DOMAIN list)
  BY DEF Templates
<1>4. PICK t \in Nat : IsFiniteSet(T) /\ Cardinality(T) = t
  BY <1>2, <1>3, FS_Subset, FS_CardinalityType
<1>5. IsFiniteSet(DOMAIN list \ T) /\ Cardinality(DOMAIN list \ T) = N - t
  <2>1. DOMAIN list \cap T = T
    BY <1>3
  <2> HIDE DEF T
  <2>2. /\ IsFiniteSet(DOMAIN list \ T)
        /\ Cardinality(DOMAIN list \ T) = Cardinality(DOMAIN list) - Cardinality(DOMAIN list \cap T)
    BY <1>2, FS_Difference
  <2> QED BY <1>2, <1>4, <2>1, <2>2
<1>6. IsFiniteSet(A) /\ Cardinality(A) = N - t
  <2> DEFINE f == [i \in DOMAIN list \ T |-> <<i, None>>]
  <2>1. f \in Bijection(DOMAIN list \ T, A)
    <3> HIDE DEF T
    <3> QED BY DEF Bijection, Injection, IsInjective, Surjection
  <2> HIDE DEF T, A, f
  <2> QED BY <1>5, <2>1, FS_Bijection DEF ExistsBijection
<1>7. PICK x \in Nat : x = Cardinality(B) /\ IsFiniteSet(B) /\ x = t * M
  <2>1. IsFiniteSet(0..M - 1) /\ Cardinality(0..M - 1) = M
    BY <1>1, FromZero
  <2>2. IsFiniteSet(B) /\ Cardinality(B) = t * M
    <3> HIDE DEF T
    <3> QED BY <1>1, <1>4, <2>1, FS_Product
  <2>3. t * M \in Nat
    BY <1>1, <1>4
  <2> QED BY <2>2, <2>3
<1>8. A \cap B = {}
  <2> HIDE DEF T
  <2> QED BY <1>3
<1>9. IsFiniteSet(A \cup B) /\ Cardinality(A \cup B) = (N - t) + x
  <2>1. IsFiniteSet(A \cup B) /\ Cardinality(A \cup B) = Cardinality(A) + Cardinality(B) - Cardinality(A \cap B)
    <3> HIDE DEF A, B
    <3> QED BY <1>6, <1>7, FS_Union
  <2>2. Cardinality(A \cap B) = 0
    <3> HIDE DEF A, B
    <3> QED BY <1>8, FS_EmptySet
  <2> HIDE DEF A, B
  <2>3. N - t \in Int
    BY <1>1, <1>4
  <2> QED BY <1>6, <1>7, <2>1, <2>2, <2>3
<1>10. Runs(c, list) = A \cup B
  BY DEF Runs
<1>11. (N - t) + x = N + t * (M - 1)
  <2>1. t * (M - 1) = t * M - t
    BY <1>1, <1>4
  <2>2. PICK y \in Int : y = t * (M - 1) /\ y = x - t
    BY <1>7, <2>1
  <2> QED BY <2>2
<1>12. Total(c, list) = N + t * (M - 1)
  BY <1>1, <1>4 DEF Total
<1> HIDE DEF A, B
<1> QED BY <1>9, <1>10, <1>11, <1>12

LEMMA ExpansionFits ==
  ASSUME NEW c, c.module_count \in Nat, NEW S, NEW list \in Seq(S), CanExpand(c, list), Len(list) <= InputWriteMax
  PROVE  Len(Expanded(c, list)) <= InputWriteMax
<1>1. PICK n \in Nat : DOMAIN Expanded(c, list) = 1..n /\ Len(Expanded(c, list)) = n
  BY ExpandedIs
<1>2. PICK o \in Bijection(1..n, Runs(c, list)) : TRUE
  BY <1>1, ExpansionRuns
<1>3. Templates(list) # {} => c.module_count > 0
  BY DEF CanExpand
<1>4. Cardinality(Runs(c, list)) = n
  <2>1. IsFiniteSet(1..n) /\ Cardinality(1..n) = n
    BY FS_Interval
  <2> QED BY <1>2, <2>1, FS_Bijection DEF ExistsBijection
<1>5. n = Total(c, list)
  BY <1>3, <1>4, RunsCounted
<1>6. CASE Templates(list) = {}
  BY <1>6 DEF Expanded
<1>7. CASE Templates(list) # {}
  BY <1>1, <1>5, <1>7 DEF CanExpand
<1> QED BY <1>6, <1>7

\* The copies of an entry that is told from the others by its address.
Alone(from, i) == \A j \in DOMAIN from : j # i => from[j].address # from[i].address
Copies(from, to, i) == {k \in DOMAIN to : to[k].address = from[i].address}
SameSeat(e, f) == e.module = f.module /\ e.slave = f.slave /\ e.address = f.address
Seated(c, from, to) ==
  /\ DOMAIN to = DOMAIN Expanded(c, from)
  /\ \A k \in DOMAIN to : SameSeat(to[k], Expanded(c, from)[k])

Told(c, from, to, i) ==
  /\ \A j, k \in Copies(from, to, i) : j # k =>
       \E m, n \in 0..c.module_count - 1 :
         /\ m # n /\ to[j].module = m /\ to[k].module = n /\ to[j].slave # to[k].slave
         /\ Expanded(c, from)[j] = Copy(c, from[i], m) /\ Expanded(c, from)[k] = Copy(c, from[i], n)
  /\ from[i].module = Template =>
       /\ {to[k].module : k \in Copies(from, to, i)} = 0..c.module_count - 1
       /\ \A k \in Copies(from, to, i) : to[k].slave \in 1..SlaveMax
  /\ from[i].module # Template => {to[k].module : k \in Copies(from, to, i)} = {None}

LEMMA CopiesTold ==
  ASSUME NEW c, c.module_count \in Nat, c.module_slave_first \in 1..SlaveMax, ModulesFit(c),
         NEW S, NEW from \in Seq(S), CanExpand(c, from),
         \A i \in DOMAIN from : /\ from[i].module \in {None, Template}
                                /\ {"module", "slave", "address"} \subseteq DOMAIN from[i],
         NEW to, Seated(c, from, to), NEW i \in DOMAIN from, Alone(from, i)
  PROVE  Told(c, from, to, i)
<1> DEFINE X == Expanded(c, from)
           M == c.module_count
<1>1. PICK o \in Bijection(DOMAIN X, Runs(c, from)) : \A k \in DOMAIN X : X[k] = RunOf(c, from, o[k])
  BY ExpansionRuns
<1>2. /\ DOMAIN to = DOMAIN X
      /\ \A k \in DOMAIN to : /\ to[k].module = X[k].module /\ to[k].slave = X[k].slave
                              /\ to[k].address = X[k].address
  BY DEF Seated, SameSeat
<1> HIDE DEF X
<1>3. ASSUME NEW m \in 0..M - 1, NEW j \in DOMAIN from
      PROVE  LET e == Copy(c, from[j], m)
             IN e.module = m /\ e.slave = c.module_slave_first + m /\ e.address = from[j].address
  BY DEF Copy
<1>4. ASSUME NEW k \in DOMAIN to
      PROVE  \E j \in DOMAIN from :
               /\ X[k].address = from[j].address
               /\ \/ from[j].module = Template /\ \E m \in 0..M - 1 : o[k] = <<j, m>> /\ X[k] = Copy(c, from[j], m)
                  \/ from[j].module = None /\ o[k] = <<j, None>> /\ X[k] = from[j]
  <2>1. o[k] \in Runs(c, from)
    BY <1>1, <1>2 DEF Bijection, Injection
  <2>2. CASE \E j \in DOMAIN from \ Templates(from) : o[k] = <<j, None>>
    <3>1. PICK j \in DOMAIN from \ Templates(from) : o[k] = <<j, None>>
      BY <2>2
    <3>2. from[j].module = None
      BY DEF Templates
    <3>3. X[k] = from[j]
      BY <1>1, <1>2, <3>1, <3>2 DEF RunOf, None, Template
    <3> QED BY <3>1, <3>2, <3>3
  <2>3. CASE o[k] \in Templates(from) \X (0..M - 1)
    <3>1. PICK j \in Templates(from), m \in 0..M - 1 : o[k] = <<j, m>>
      BY <2>3
    <3>2. j \in DOMAIN from /\ from[j].module = Template
      BY DEF Templates
    <3>3. X[k] = Copy(c, from[j], m)
      BY <1>1, <1>2, <3>1, <3>2 DEF RunOf
    <3> QED BY <1>3, <3>1, <3>2, <3>3
  <2> QED BY <2>1, <2>2, <2>3 DEF Runs
<1>5. ASSUME NEW k \in Copies(from, to, i)
      PROVE  /\ k \in DOMAIN to /\ k \in DOMAIN X
             /\ \/ /\ from[i].module = Template
                   /\ \E m \in 0..M - 1 : o[k] = <<i, m>> /\ X[k] = Copy(c, from[i], m)
                \/ from[i].module = None /\ o[k] = <<i, None>> /\ X[k] = from[i]
  <2>1. k \in DOMAIN to /\ to[k].address = from[i].address
    BY DEF Copies
  <2>2. PICK j \in DOMAIN from :
          /\ X[k].address = from[j].address
          /\ \/ from[j].module = Template /\ \E m \in 0..M - 1 : o[k] = <<j, m>> /\ X[k] = Copy(c, from[j], m)
             \/ from[j].module = None /\ o[k] = <<j, None>> /\ X[k] = from[j]
    BY <1>4, <2>1
  <2>3. j = i
    BY <1>2, <2>1, <2>2 DEF Alone
  <2> QED BY <1>2, <2>1, <2>2, <2>3
<1>6. ASSUME NEW j \in Copies(from, to, i), NEW k \in Copies(from, to, i), j # k
      PROVE  \E m, n \in 0..M - 1 :
               /\ m # n /\ to[j].module = m /\ to[k].module = n /\ to[j].slave # to[k].slave
               /\ X[j] = Copy(c, from[i], m) /\ X[k] = Copy(c, from[i], n)
  <2>1. o[j] # o[k]
    BY <1>5, <1>6, <1>1 DEF Bijection, Injection, IsInjective
  <2>2. None # Template
    BY DEF None, Template
  <2>3. PICK m \in 0..M - 1, n \in 0..M - 1 :
          o[j] = <<i, m>> /\ X[j] = Copy(c, from[i], m) /\ o[k] = <<i, n>> /\ X[k] = Copy(c, from[i], n)
    BY <1>5, <2>1, <2>2
  <2>4. m # n
    BY <2>1, <2>3
  <2>5. to[j].module = m /\ to[j].slave = c.module_slave_first + m
    BY SMTT(30), <1>2, <1>3, <1>5, <2>3
  <2>6. to[k].module = n /\ to[k].slave = c.module_slave_first + n
    BY SMTT(30), <1>2, <1>3, <1>5, <2>3
  <2>7. c.module_slave_first + m # c.module_slave_first + n
    <3>1. c.module_slave_first \in Int
      OBVIOUS
    <3> QED BY <2>4, <3>1
  <2> QED BY <2>3, <2>4, <2>5, <2>6, <2>7
<1>7. ASSUME from[i].module = Template
      PROVE  /\ {to[k].module : k \in Copies(from, to, i)} = 0..M - 1
             /\ \A k \in Copies(from, to, i) : to[k].slave \in 1..SlaveMax
  <2>1. ASSUME NEW k \in Copies(from, to, i)
        PROVE  to[k].module \in 0..M - 1 /\ to[k].slave \in 1..SlaveMax
    <3>1. PICK m \in 0..M - 1 : X[k] = Copy(c, from[i], m) /\ k \in DOMAIN to
      BY <1>5, <1>7 DEF None, Template
    <3>2. to[k].module = m /\ to[k].slave = c.module_slave_first + m
      BY <1>2, <1>3, <3>1
    <3>3. c.module_slave_first + m \in 1..SlaveMax
      <4>1. PICK f \in Nat, s \in Nat, q \in Nat : f = c.module_slave_first /\ s = SlaveMax /\ q = M /\ f >= 1
        BY SMTT(30), ConfigAssumption
      <4>2. q > 0 => f + q - 1 <= s
        BY <4>1 DEF ModulesFit
      <4> QED BY SMTT(30), <4>1, <4>2
    <3> QED BY <3>2, <3>3
  <2>2. ASSUME NEW m \in 0..M - 1
        PROVE  \E k \in Copies(from, to, i) : to[k].module = m
    <3>1. <<i, m>> \in Runs(c, from)
      BY <1>7 DEF Runs, Templates
    <3>2. PICK k \in DOMAIN X : o[k] = <<i, m>>
      BY <1>1, <3>1 DEF Bijection, Surjection
    <3>3. X[k] = Copy(c, from[i], m)
      BY <1>1, <1>7, <3>2 DEF RunOf
    <3>4. to[k].module = m /\ to[k].address = from[i].address
      BY <1>2, <1>3, <3>3
    <3> QED BY <1>2, <3>4 DEF Copies
  <2> QED BY <2>1, <2>2
<1>8. ASSUME from[i].module # Template
      PROVE  {to[k].module : k \in Copies(from, to, i)} = {None}
  <2>1. \A k \in Copies(from, to, i) : to[k].module = None
    BY <1>2, <1>5, <1>8
  <2>2. <<i, None>> \in Runs(c, from)
    BY <1>8 DEF Runs, Templates
  <2>3. PICK k \in DOMAIN X : o[k] = <<i, None>>
    BY <1>1, <2>2 DEF Bijection, Surjection
  <2>4. X[k] = from[i]
    BY <1>1, <1>8, <2>3 DEF RunOf
  <2>5. k \in Copies(from, to, i)
    BY <1>2, <2>4 DEF Copies
  <2> QED BY <2>1, <2>5
<1> QED BY <1>6, <1>7, <1>8 DEF X, Told

-----------------------------------------------------------------------------
(***************************************************************************)
(* Topics: two modules never have the same one.                            *)
(***************************************************************************)
LEMMA PrefixedIs ==
  ASSUME NEW c, c.topic_prefix \in Topics, NEW topic \in Topics
  PROVE  Prefixed(c, topic) \in Topics /\ (Prefixed(c, topic) = NoTopic <=> topic = NoTopic)
<1>1. CASE topic = NoTopic
  BY <1>1 DEF Prefixed
<1>2. CASE topic # NoTopic
  <2>1. Prefixed(c, topic) = c.topic_prefix \o topic
    BY <1>2 DEF Prefixed
  <2>2. c.topic_prefix \in Seq(STRING) /\ topic \in Seq(STRING)
    BY DEF Topics
  <2>3. Len(topic) \in Nat \ {0} /\ Len(c.topic_prefix) \in Nat
    BY <1>2, <2>2, EmptySeq DEF NoTopic
  <2>4. c.topic_prefix \o topic \in Seq(STRING) /\ Len(c.topic_prefix \o topic) = Len(c.topic_prefix) + Len(topic)
    BY <2>2, ConcatProperties
  <2>5. Len(c.topic_prefix \o topic) # 0
    BY <2>3, <2>4
  <2>6. c.topic_prefix \o topic # <<>>
    BY <2>5
  <2> QED BY <1>2, <2>1, <2>4, <2>6 DEF NoTopic, Topics
<1> QED BY <1>1, <1>2

LEMMA SubstitutedIs ==
  ASSUME NEW topic \in Topics, NEW m
  PROVE  /\ DOMAIN Substituted(topic, m) = 1..Len(topic)
         /\ \A S : (\A k \in 1..Len(topic) : Substituted(topic, m)[k] \in S) =>
              Substituted(topic, m) \in Seq(S) /\ Len(Substituted(topic, m)) = Len(topic)
         /\ Substituted(topic, m) = NoTopic <=> topic = NoTopic
<1>1. PICK s : s = Substituted(topic, m)
  BY SMTT(30)
<1>2. PICK n \in Nat : n = Len(topic) /\ DOMAIN topic = 1..n /\ (n = 0 <=> topic = <<>>)
  <2>1. topic \in Seq(STRING)
    BY DEF Topics
  <2>2. Len(topic) \in Nat /\ DOMAIN topic = 1..Len(topic)
    BY <2>1
  <2>3. topic # <<>> => Len(topic) # 0
    BY <2>1, EmptySeq
  <2>4. topic = <<>> => Len(topic) = 0
    OBVIOUS
  <2> QED BY <2>2, <2>3, <2>4
<1>3. s = [k \in 1..n |-> s[k]]
  BY <1>1, <1>2 DEF Substituted
<1>4. ASSUME NEW S, \A k \in 1..n : s[k] \in S
      PROVE  s \in Seq(S) /\ Len(s) = n
  BY <1>3, <1>4
<1>5. s = <<>> <=> n = 0
  <2> DEFINE S == {s[k] : k \in 1..n}
  <2>0. \A k \in 1..n : s[k] \in S
    OBVIOUS
  <2> HIDE DEF S
  <2>1. s \in Seq(S) /\ Len(s) = n
    BY <1>4, <2>0
  <2>2. s # <<>> => Len(s) # 0
    BY <2>1, EmptySeq
  <2>3. s = <<>> => Len(s) = 0
    OBVIOUS
  <2> QED BY <2>1, <2>2, <2>3
<1>6. DOMAIN s = 1..n
  BY <1>3
<1> QED BY <1>1, <1>2, <1>4, <1>5, <1>6 DEF NoTopic

LEMMA SubstitutedApart ==
  ASSUME NEW topic \in Topics, Index \in Range(topic), NEW m \in 0..SlaveMax, NEW n \in 0..SlaveMax, m # n
  PROVE  \E k \in 1..Len(topic) : Substituted(topic, m)[k] # Substituted(topic, n)[k]
<1>1. topic \in Seq(STRING)
  BY DEF Topics
<1>2. PICK k \in DOMAIN topic : topic[k] = Index
  BY DEF Range
<1>3. Substituted(topic, m)[k] = Decimal[m] /\ Substituted(topic, n)[k] = Decimal[n]
  BY <1>2 DEF Substituted
<1>4. Decimal[m] # Decimal[n]
  BY ConfigAssumption
<1>5. k \in 1..Len(topic)
  BY <1>1
<1> QED BY <1>3, <1>4, <1>5

LEMMA AppendedApart ==
  ASSUME NEW topic \in Topics, Index \in Range(topic), NEW m \in 0..SlaveMax, NEW n \in 0..SlaveMax, m # n, NEW x
  PROVE  Append(Substituted(topic, m), x) # Append(Substituted(topic, n), x)
<1>1. PICK k \in 1..Len(topic) : Substituted(topic, m)[k] # Substituted(topic, n)[k]
  BY SubstitutedApart
<1>2. PICK s, t : s = Substituted(topic, m) /\ t = Substituted(topic, n)
  OBVIOUS
<1> DEFINE S == {s[i] : i \in 1..Len(topic)} \cup {t[i] : i \in 1..Len(topic)} \cup {x}
<1>3. (\A i \in 1..Len(topic) : s[i] \in S) /\ (\A i \in 1..Len(topic) : t[i] \in S) /\ x \in S
  OBVIOUS
<1> HIDE DEF S
<1>4. s \in Seq(S) /\ t \in Seq(S) /\ Len(s) = Len(topic) /\ Len(t) = Len(topic)
  BY <1>2, <1>3, SubstitutedIs
<1>5. Append(s, x)[k] = s[k] /\ Append(t, x)[k] = t[k]
  BY <1>3, <1>4, AppendProperties
<1> QED BY <1>1, <1>2, <1>5

\* What a write keeps of the line it comes from.
LEMMA WriteKeeps ==
  ASSUME NEW c, NEW d, NEW p, NEW e \in WritesOn(Int), NEW v, v = PreparedWrite(c, e),
         NEW w, w = NamedWrite(p, v), NEW x, x = IndexedWrite(d, w)
  PROVE  /\ SameSeat(x, e) /\ w.module = e.module
         /\ v.topic = e.topic /\ v.ack_topic = e.ack_topic /\ v.ack = e.ack
         /\ w.topic = Prefixed(p, e.topic) /\ w.ack_topic = Prefixed(p, e.ack_topic)
         /\ x.topic = Substituted(w.topic, e.module)
         /\ LET ack == IF e.ack = Unset THEN d.ack ELSE e.ack
                own == Substituted(w.ack_topic, e.module)
            IN x.ack_topic = IF ack = 1 /\ own = NoTopic THEN Append(x.topic, "/ack") ELSE own
<1> DEFINE Same(a, b) == /\ SameSeat(a, b) /\ a.topic = b.topic /\ a.ack_topic = b.ack_topic /\ a.ack = b.ack
                         /\ DOMAIN a = DOMAIN b
           fields == {"module", "slave", "address", "topic", "ack_topic", "ack", "format", "type", "function",
                      "naddress", "channels", "length"}
<1>0. fields \subseteq DOMAIN e
  BY DEF WritesOn
<1>1. Same(v, e)
  <2> DEFINE f == [e EXCEPT !.channels = [k \in DOMAIN @ |-> AsVersion(c, @[k])]]
  <2>1. Same(f, e)
    BY DEF SameSeat
  <2>2. \A g : Same([g EXCEPT !.format = Unsigned[@]], g)
    BY DEF SameSeat
  <2>3. v = AsVersion(c, f)
    BY DEF PreparedWrite, PreparedInput
  <2> HIDE DEF f
  <2>4. Same(v, f)
    BY <2>2, <2>3 DEF AsVersion, SameSeat
  <2> HIDE DEF fields
  <2> QED BY <2>1, <2>4 DEF SameSeat
<1>2. PICK s : s = WriteSettled(v)
  OBVIOUS
<1>3. Same(s, v)
  <2>1. Same(Derived(v), v)
    BY DEF Derived, SameSeat
  <2>2. Same([v EXCEPT !.function = "write_registers", !.type = "holding_register", !.naddress = Registers(v)], v)
    BY DEF SameSeat
  <2> HIDE DEF Same, fields
  <2> QED BY <1>2, <2>1, <2>2 DEF WriteSettled
<1>4. fields \subseteq DOMAIN s
  <2> HIDE DEF fields
  <2> QED BY <1>0, <1>1, <1>3
<1>5. w = [s EXCEPT !.topic = Prefixed(p, @), !.ack_topic = Prefixed(p, @)]
  BY <1>2 DEF NamedWrite
<1>6. /\ w.topic = Prefixed(p, s.topic) /\ w.ack_topic = Prefixed(p, s.ack_topic)
      /\ SameSeat(w, s) /\ w.ack = s.ack /\ fields \subseteq DOMAIN w
  BY <1>4, <1>5 DEF SameSeat
<1>7. PICK u : u = [w EXCEPT !.topic = Substituted(@, w.module), !.ack_topic = Substituted(@, w.module)]
  OBVIOUS
<1>8. /\ u.topic = Substituted(w.topic, w.module) /\ u.ack_topic = Substituted(w.ack_topic, w.module)
      /\ SameSeat(u, w) /\ u.ack = w.ack /\ fields \subseteq DOMAIN u
  BY <1>6, <1>7 DEF SameSeat
<1>9. x = WithAck(d, u)
  BY <1>7 DEF IndexedWrite
<1>10. LET ack == IF u.ack = Unset THEN d.ack ELSE u.ack
       IN /\ x.topic = u.topic /\ SameSeat(x, u)
          /\ x.ack_topic = IF ack = 1 /\ u.ack_topic = NoTopic THEN Append(u.topic, "/ack") ELSE u.ack_topic
  BY <1>8, <1>9 DEF WithAck, SameSeat
<1> HIDE DEF fields
<1>11. SameSeat(x, e) /\ w.module = e.module /\ u.ack = e.ack
  BY <1>1, <1>3, <1>6, <1>8, <1>10 DEF SameSeat
<1>12. v.topic = e.topic /\ v.ack_topic = e.ack_topic /\ v.ack = e.ack
  BY <1>1
<1>13. w.topic = Prefixed(p, e.topic) /\ w.ack_topic = Prefixed(p, e.ack_topic)
  BY <1>1, <1>3, <1>6
<1> QED BY <1>8, <1>10, <1>11, <1>12, <1>13

LEMMA CopyKeeps ==
  ASSUME NEW c \in Configs, NEW e \in WriteEntries, NEW m \in Nat
  PROVE  LET f == Copy(c, e, m)
         IN /\ f \in WritesOn(Int) /\ f.module = m
            /\ f.topic = e.topic /\ f.ack_topic = e.ack_topic /\ f.ack = e.ack /\ f.address = e.address
<1>1. Copy(c, e, m) \in WritesOn(Int)
  BY CopyTyped
<1>2. {"module", "slave"} \subseteq DOMAIN e
  BY DEF WriteEntries, WritesOn
<1> QED BY <1>1, <1>2 DEF Copy

LEMMA PreparedPrefix ==
  ASSUME NEW c \in Configs
  PROVE  Prepared(c).topic_prefix \in Topics
BY DEF Prepared, Configs

\* Two copies of a template write.
LEMMA WriteCopiesApart ==
  ASSUME NEW c \in Configs, NEW r \in Settled(c), NEW e \in WriteEntries,
         NEW m \in 0..SlaveMax, NEW n \in 0..SlaveMax, m # n,
         NEW j \in DOMAIN r.writes, NEW k \in DOMAIN r.writes,
         Expanded(c, c.writes)[j] = Copy(c, e, m), Expanded(c, c.writes)[k] = Copy(c, e, n)
  PROVE  WritesApart(r.writes[j], r.writes[k])
<1> DEFINE p == Prepared(c)
           d == Named(p)
<1>1. PICK topic \in Topics, own \in Topics : topic = Prefixed(p, e.topic) /\ own = Prefixed(p, e.ack_topic)
  <2>1. e.topic \in Topics /\ e.ack_topic \in Topics
    BY DEF WriteEntries, WritesOn
  <2> HIDE DEF p
  <2> QED BY <2>1, PreparedPrefix, PrefixedIs DEF p
<1>2. PICK ack : ack = IF e.ack = Unset THEN d.ack ELSE e.ack
  OBVIOUS
<1>3. m \in Nat /\ n \in Nat
  BY ConfigAssumption
<1>4. ASSUME NEW i \in DOMAIN r.writes, NEW q \in 0..SlaveMax, q \in Nat, Expanded(c, c.writes)[i] = Copy(c, e, q)
      PROVE  /\ r.writes[i].topic = Substituted(topic, q)
             /\ r.writes[i].ack_topic = IF ack = 1 /\ Substituted(own, q) = NoTopic
                                        THEN Append(Substituted(topic, q), "/ack") ELSE Substituted(own, q)
             /\ Index \in Range(topic) /\ (own # NoTopic => Index \in Range(own))
  <2> DEFINE f == Copy(c, e, q)
             v == PreparedWrite(c, f)
             w == NamedWrite(p, v)
             x == IndexedWrite(d, w)
  <2>1. /\ f \in WritesOn(Int) /\ f.module = q /\ f.topic = e.topic /\ f.ack_topic = e.ack_topic /\ f.ack = e.ack
    BY <1>4, CopyKeeps
  <2>2. /\ WriteValid(v) /\ r.writes[i] = x
        /\ TopicValid(w.topic, w.module) /\ TopicValid(w.ack_topic, w.module)
    BY <1>4, SettledWritesAre
  <2> HIDE DEF f
  <2>3. /\ w.module = f.module
        /\ v.topic = f.topic /\ w.topic = Prefixed(p, f.topic) /\ w.ack_topic = Prefixed(p, f.ack_topic)
        /\ x.topic = Substituted(w.topic, f.module)
        /\ LET a == IF f.ack = Unset THEN d.ack ELSE f.ack
               o == Substituted(w.ack_topic, f.module)
           IN x.ack_topic = IF a = 1 /\ o = NoTopic THEN Append(x.topic, "/ack") ELSE o
    BY <2>1, WriteKeeps
  <2> HIDE DEF v, w, x, p, d
  <2>4. w.topic = topic /\ w.ack_topic = own /\ w.module = q
    BY <1>1, <2>1, <2>3
  <2>5. topic # NoTopic
    <3>1. e.topic # NoTopic
      BY <2>1, <2>2, <2>3 DEF WriteValid
    <3>2. e.topic \in Topics
      BY DEF WriteEntries, WritesOn
    <3> QED BY <1>1, <3>1, <3>2, PreparedPrefix, PrefixedIs DEF p
  <2>6. Index \in Range(topic) /\ (own # NoTopic => Index \in Range(own))
    BY <1>4, <2>2, <2>4, <2>5 DEF TopicValid
  <2> QED BY <1>2, <2>1, <2>2, <2>3, <2>4, <2>6
<1> HIDE DEF p, d
<1>5. PICK x, y : x = r.writes[j] /\ y = r.writes[k]
  OBVIOUS
<1>6. /\ x.topic = Substituted(topic, m) /\ y.topic = Substituted(topic, n) /\ Index \in Range(topic)
      /\ own # NoTopic => Index \in Range(own)
  BY <1>3, <1>4, <1>5
<1>7. x.topic # y.topic
  BY <1>6, SubstitutedApart
<1>8. ASSUME x.ack_topic # NoTopic
      PROVE  x.ack_topic # y.ack_topic
  <2>1. CASE own # NoTopic
    <3>1. Substituted(own, m) # NoTopic /\ Substituted(own, n) # NoTopic
      BY <2>1, SubstitutedIs
    <3>2. x.ack_topic = Substituted(own, m) /\ y.ack_topic = Substituted(own, n)
      BY <1>3, <1>4, <1>5, <3>1
    <3> QED BY <1>6, <2>1, <3>2, SubstitutedApart
  <2>2. CASE own = NoTopic
    <3>1. Substituted(own, m) = NoTopic /\ Substituted(own, n) = NoTopic
      BY <2>2, SubstitutedIs
    <3>2. ack = 1
      BY <1>3, <1>4, <1>5, <1>8, <3>1
    <3>3. x.ack_topic = Append(Substituted(topic, m), "/ack") /\ y.ack_topic = Append(Substituted(topic, n), "/ack")
      BY <1>3, <1>4, <1>5, <3>1, <3>2
    <3> QED BY <1>6, <3>3, AppendedApart
  <2> QED BY <2>1, <2>2
<1> QED BY <1>5, <1>7, <1>8 DEF WritesApart

\* What an input keeps of the line it comes from.
LEMMA InputKeeps ==
  ASSUME NEW c, NEW p, NEW e \in InputsOn(Int), NEW w, w = NamedInput(p, PreparedInput(c, e)),
         NEW x, x = IndexedInput(w)
  PROVE  /\ SameSeat(x, e) /\ w.module = e.module
         /\ DOMAIN w.channels = DOMAIN e.channels /\ DOMAIN x.channels = DOMAIN e.channels
         /\ \A k \in DOMAIN e.channels : /\ w.channels[k].topic = Prefixed(p, e.channels[k].topic)
                                         /\ x.channels[k].topic = Substituted(w.channels[k].topic, e.module)
<1>1. "channels" \in DOMAIN e /\ e.channels \in Seq(InputChannels)
  BY DEF InputsOn
<1>2. \A k \in DOMAIN e.channels : {"topic", "rules"} \subseteq DOMAIN e.channels[k]
  <2>1. \A k \in DOMAIN e.channels : e.channels[k] \in InputChannels
    BY <1>1
  <2> QED BY <2>1 DEF InputChannels
<1>3. PICK v : v = PreparedInput(c, e)
  OBVIOUS
<1>4. /\ SameSeat(v, e) /\ "channels" \in DOMAIN v
      /\ v.channels = [k \in DOMAIN e.channels |-> AsVersion(c, e.channels[k])]
  BY <1>1, <1>3 DEF PreparedInput, SameSeat
<1>5. \A k \in DOMAIN e.channels : /\ v.channels[k].topic = e.channels[k].topic
                                   /\ {"topic", "rules"} \subseteq DOMAIN v.channels[k]
  BY <1>2, <1>4 DEF AsVersion
<1>6. /\ SameSeat(w, v) /\ "channels" \in DOMAIN w
      /\ w.channels = [k \in DOMAIN v.channels |-> NamedChannel(p, v, v.channels[k])]
  BY <1>3, <1>4 DEF NamedInput, SameSeat
<1>7. ASSUME NEW k \in DOMAIN e.channels
      PROVE  /\ w.channels[k].topic = Prefixed(p, e.channels[k].topic) /\ "topic" \in DOMAIN w.channels[k]
  <2>1. PICK ch : ch = v.channels[k] /\ {"topic", "rules"} \subseteq DOMAIN ch /\ ch.topic = e.channels[k].topic
    BY <1>5
  <2>2. WithRules(p, v, ch).topic = ch.topic /\ "topic" \in DOMAIN WithRules(p, v, ch)
    BY <2>1 DEF WithRules
  <2>3. w.channels[k] = [WithRules(p, v, ch) EXCEPT !.topic = Prefixed(p, @)]
    BY <1>4, <1>6, <2>1 DEF NamedChannel
  <2> QED BY <2>1, <2>2, <2>3
<1>8. /\ SameSeat(x, w)
      /\ x.channels = [k \in DOMAIN w.channels |-> IndexedChannel(w.module, w.channels[k])]
  BY <1>6 DEF IndexedInput, SameSeat
<1>9. DOMAIN w.channels = DOMAIN e.channels /\ DOMAIN x.channels = DOMAIN e.channels
  BY <1>4, <1>6, <1>8
<1>10. ASSUME NEW k \in DOMAIN e.channels
       PROVE  x.channels[k].topic = Substituted(w.channels[k].topic, w.module)
  BY <1>7, <1>8, <1>9 DEF IndexedChannel
<1>11. SameSeat(x, e) /\ w.module = e.module
  BY <1>4, <1>6, <1>8 DEF SameSeat
<1> QED BY <1>7, <1>9, <1>10, <1>11

LEMMA InputCopyKeeps ==
  ASSUME NEW c \in Configs, NEW e \in InputEntries, NEW m \in Nat
  PROVE  LET f == Copy(c, e, m)
         IN /\ e \in InputsOn(Int) /\ f \in InputsOn(Int) /\ f.module = m
            /\ f.channels = e.channels /\ f.address = e.address
<1>1. c.module_slave_first + m \in Nat
  <2>1. SlaveMax \in Nat /\ c.module_slave_first \in 1..SlaveMax
    BY ConfigAssumption DEF Configs
  <2> QED BY <2>1
<1>2. e \in InputsOn(Int)
  <2>1. {None, Template} \subseteq Int
    BY DEF None, Template
  <2> QED BY <2>1 DEF InputEntries, InputsOn
<1>3. PICK s \in Nat, n \in Int : s = c.module_slave_first + m /\ n = m
  BY <1>1
<1>4. PICK f : f = Copy(c, e, m)
  OBVIOUS
<1>5. f = [e EXCEPT !.module = n, !.slave = s]
  BY <1>3, <1>4 DEF Copy
<1>6. f \in InputsOn(Int) /\ f.module = n /\ f.channels = e.channels /\ f.address = e.address
  BY <1>2, <1>5 DEF InputsOn
<1> QED BY <1>2, <1>3, <1>4, <1>6

LEMMA SettledInputsAre ==
  ASSUME NEW c \in Configs, NEW r \in Settled(c)
  PROVE  /\ \E n \in Nat : DOMAIN r.inputs = 1..n /\ DOMAIN Expanded(c, c.inputs) = 1..n
         /\ \A k \in DOMAIN r.inputs :
              LET e == Expanded(c, c.inputs)[k]
                  w == NamedInput(Prepared(c), PreparedInput(c, e))
              IN /\ e \in InputsOn(Int) /\ r.inputs[k] = IndexedInput(w)
                 /\ \A i \in DOMAIN w.channels : TopicValid(w.channels[i].topic, w.module)
<1> DEFINE p == Prepared(c)
           d == Named(p)
           X == Expanded(c, c.inputs)
<1>1. r = Indexed(d) /\ TopicsValid(d)
  BY SettledIs
<1>2. p.inputs = [k \in DOMAIN X |-> PreparedInput(c, X[k])] /\ "inputs" \in DOMAIN p
  BY DEF Prepared, Configs
<1> HIDE DEF p
<1>3. d.inputs = [k \in DOMAIN p.inputs |-> NamedInput(p, p.inputs[k])] /\ "inputs" \in DOMAIN d
  BY <1>2 DEF Named
<1> HIDE DEF d
<1>4. r.inputs = [k \in DOMAIN d.inputs |-> IndexedInput(d.inputs[k])]
  BY <1>1, <1>3 DEF Indexed
<1>5. c.inputs \in Seq(InputEntries) /\ c.module_count \in Nat
  <2>1. SlaveMax \in Nat
    BY ConfigAssumption
  <2> QED BY <2>1 DEF Configs
<1>6. \E n \in Nat : DOMAIN X = 1..n
  BY <1>5, ExpandedIs
<1>7. ASSUME NEW k \in DOMAIN X
      PROVE  X[k] \in InputsOn(Int)
  <2>1. PICK i \in DOMAIN c.inputs :
          X[k] = c.inputs[i] \/ \E m \in 0..c.module_count - 1 : X[k] = Copy(c, c.inputs[i], m)
    BY <1>5, ExpandedIs
  <2>2. c.inputs[i] \in InputEntries
    BY <1>5
  <2>3. \A m \in 0..c.module_count - 1 : m \in Nat
    BY <1>5
  <2>4. 0 \in Nat
    OBVIOUS
  <2> HIDE DEF X
  <2> QED BY <2>1, <2>2, <2>3, <2>4, InputCopyKeeps
<1>8. DOMAIN r.inputs = DOMAIN X
  BY <1>2, <1>3, <1>4
<1> HIDE DEF X
<1>9. ASSUME NEW k \in DOMAIN r.inputs, NEW w, w = NamedInput(p, PreparedInput(c, X[k]))
      PROVE  /\ X[k] \in InputsOn(Int) /\ r.inputs[k] = IndexedInput(w)
             /\ \A i \in DOMAIN w.channels : TopicValid(w.channels[i].topic, w.module)
  <2>1. k \in DOMAIN d.inputs /\ d.inputs[k] = w
    BY <1>2, <1>3, <1>8, <1>9
  <2>2. w \in Range(d.inputs)
    BY <2>1 DEF Range
  <2>3. \A ch \in Range(w.channels) : TopicValid(ch.topic, w.module)
    BY <1>1, <2>2 DEF TopicsValid
  <2> QED BY <1>4, <1>7, <1>8, <2>1, <2>3 DEF Range
<1> QED BY <1>6, <1>8, <1>9 DEF p, X

\* Two copies of a template input.
LEMMA InputCopiesApart ==
  ASSUME NEW c \in Configs, NEW r \in Settled(c), NEW e \in InputEntries,
         NEW m \in 0..SlaveMax, NEW n \in 0..SlaveMax, m # n,
         NEW j \in DOMAIN r.inputs, NEW k \in DOMAIN r.inputs,
         Expanded(c, c.inputs)[j] = Copy(c, e, m), Expanded(c, c.inputs)[k] = Copy(c, e, n)
  PROVE  InputsApart(r.inputs[j], r.inputs[k])
<1> DEFINE p == Prepared(c)
<1>1. m \in Nat /\ n \in Nat
  BY ConfigAssumption
<1>2. ASSUME NEW i \in DOMAIN r.inputs, NEW q \in 0..SlaveMax, q \in Nat, Expanded(c, c.inputs)[i] = Copy(c, e, q)
      PROVE  /\ DOMAIN r.inputs[i].channels = DOMAIN e.channels
             /\ \A a \in DOMAIN e.channels :
                  LET topic == Prefixed(p, e.channels[a].topic)
                  IN /\ r.inputs[i].channels[a].topic = Substituted(topic, q)
                     /\ topic # NoTopic => Index \in Range(topic)
  <2> DEFINE f == Copy(c, e, q)
             w == NamedInput(p, PreparedInput(c, f))
  <2>1. f \in InputsOn(Int) /\ f.module = q /\ f.channels = e.channels
    BY <1>2, InputCopyKeeps
  <2>2. r.inputs[i] = IndexedInput(w) /\ \A a \in DOMAIN w.channels : TopicValid(w.channels[a].topic, w.module)
    BY <1>2, SettledInputsAre
  <2> HIDE DEF f
  <2>3. /\ w.module = f.module
        /\ DOMAIN w.channels = DOMAIN f.channels /\ DOMAIN r.inputs[i].channels = DOMAIN f.channels
        /\ \A a \in DOMAIN f.channels :
             /\ w.channels[a].topic = Prefixed(p, f.channels[a].topic)
             /\ r.inputs[i].channels[a].topic = Substituted(w.channels[a].topic, f.module)
    BY <2>1, <2>2, InputKeeps
  <2> HIDE DEF w, p
  <2> QED BY <1>2, <2>1, <2>2, <2>3 DEF TopicValid
<1>3. \A a \in DOMAIN e.channels : Prefixed(p, e.channels[a].topic) \in Topics
  <2>1. e.channels \in Seq(InputChannels)
    BY DEF InputEntries, InputsOn
  <2>2. \A a \in DOMAIN e.channels : e.channels[a] \in InputChannels
    BY <2>1
  <2>3. \A a \in DOMAIN e.channels : e.channels[a].topic \in Topics
    BY <2>2 DEF InputChannels
  <2> QED BY <2>3, PreparedPrefix, PrefixedIs
<1> HIDE DEF p
<1>4. PICK x, y : x = r.inputs[j] /\ y = r.inputs[k]
  OBVIOUS
<1>5. ASSUME NEW a \in DOMAIN x.channels, x.channels[a].topic # NoTopic
      PROVE  x.channels[a].topic # y.channels[a].topic
  <2>1. a \in DOMAIN e.channels
    BY <1>1, <1>2, <1>4
  <2>2. PICK topic \in Topics : topic = Prefixed(p, e.channels[a].topic)
    BY <1>3, <2>1
  <2>3. /\ x.channels[a].topic = Substituted(topic, m) /\ y.channels[a].topic = Substituted(topic, n)
        /\ topic # NoTopic => Index \in Range(topic)
    BY <1>1, <1>2, <1>4, <2>1, <2>2
  <2>4. topic # NoTopic
    BY <1>5, <2>3, SubstitutedIs
  <2> QED BY <2>3, <2>4, SubstitutedApart
<1> QED BY <1>4, <1>5 DEF InputsApart

-----------------------------------------------------------------------------
LEMMA TypeOnce == ConfigTypeOK => OneCopyPerModule
<1> SUFFICES ASSUME ConfigTypeOK, outcome = "accepted"
             PROVE  /\ RunsOnce(config, config.inputs, result.inputs, InputsApart)
                    /\ RunsOnce(config, config.writes, result.writes, WritesApart)
  BY DEF OneCopyPerModule
<1> DEFINE c == config
           r == result
<1>1. c \in Configs /\ r \in Settled(c)
  BY DEF ConfigTypeOK
<1> HIDE DEF c, r
<1>2. /\ c.module_count \in 0..SlaveMax /\ c.module_slave_first \in 1..SlaveMax /\ SlaveMax \in Nat
      /\ c.inputs \in Seq(InputEntries) /\ c.writes \in Seq(WriteEntries)
      /\ Len(c.inputs) <= InputWriteMax /\ Len(c.writes) <= InputWriteMax
  BY <1>1, ConfigAssumption DEF Configs
<1>3. ModulesFit(c) /\ CanExpand(c, c.inputs) /\ CanExpand(c, c.writes) /\ c.module_count \in Nat
  BY <1>1, <1>2, SettledIs
<1>4. \A m \in 0..c.module_count - 1 : m \in 0..SlaveMax
  BY <1>2
<1>5. RunsOnce(c, c.inputs, r.inputs, InputsApart)
  <2>1. \A i \in DOMAIN c.inputs : /\ c.inputs[i] \in InputEntries /\ c.inputs[i].module \in {None, Template}
                                   /\ {"module", "slave", "address"} \subseteq DOMAIN c.inputs[i]
    <3>1. \A i \in DOMAIN c.inputs : c.inputs[i] \in InputEntries
      BY <1>2
    <3> QED BY <3>1 DEF InputEntries, InputsOn
  <2>2. Seated(c, c.inputs, r.inputs)
    <3>1. DOMAIN r.inputs = DOMAIN Expanded(c, c.inputs)
      BY <1>1, SettledInputsAre
    <3>2. ASSUME NEW k \in DOMAIN r.inputs
          PROVE  SameSeat(r.inputs[k], Expanded(c, c.inputs)[k])
      BY <1>1, SettledInputsAre, InputKeeps
    <3> QED BY <3>1, <3>2 DEF Seated
  <2>3. Len(r.inputs) <= InputWriteMax
    <3>1. PICK n \in Nat : DOMAIN r.inputs = 1..n /\ DOMAIN Expanded(c, c.inputs) = 1..n
      BY <1>1, SettledInputsAre
    <3>2. Len(Expanded(c, c.inputs)) <= InputWriteMax
      BY <1>2, <1>3, ExpansionFits
    <3>3. Len(Expanded(c, c.inputs)) = n /\ Len(r.inputs) = n
      BY <1>2, <1>3, <3>1, ExpandedIs
    <3> QED BY <3>2, <3>3
  <2>4. ASSUME NEW i \in DOMAIN c.inputs, Alone(c.inputs, i)
        PROVE  /\ \A j, k \in Copies(c.inputs, r.inputs, i) : j # k =>
                    /\ r.inputs[j].module # r.inputs[k].module /\ r.inputs[j].slave # r.inputs[k].slave
                    /\ InputsApart(r.inputs[j], r.inputs[k])
               /\ c.inputs[i].module = Template =>
                    /\ {r.inputs[k].module : k \in Copies(c.inputs, r.inputs, i)} = 0..c.module_count - 1
                    /\ \A k \in Copies(c.inputs, r.inputs, i) : r.inputs[k].slave \in 1..SlaveMax
               /\ c.inputs[i].module # Template =>
                    {r.inputs[k].module : k \in Copies(c.inputs, r.inputs, i)} = {None}
    <3>1. Told(c, c.inputs, r.inputs, i)
      BY <1>2, <1>3, <2>1, <2>2, <2>4, CopiesTold
    <3>2. ASSUME NEW j \in Copies(c.inputs, r.inputs, i), NEW k \in Copies(c.inputs, r.inputs, i), j # k
          PROVE  /\ r.inputs[j].module # r.inputs[k].module /\ r.inputs[j].slave # r.inputs[k].slave
                 /\ InputsApart(r.inputs[j], r.inputs[k])
      <4>1. PICK m \in 0..c.module_count - 1, n \in 0..c.module_count - 1 :
              /\ m # n /\ r.inputs[j].module = m /\ r.inputs[k].module = n
              /\ r.inputs[j].slave # r.inputs[k].slave
              /\ Expanded(c, c.inputs)[j] = Copy(c, c.inputs[i], m)
              /\ Expanded(c, c.inputs)[k] = Copy(c, c.inputs[i], n)
        BY <3>1, <3>2 DEF Told
      <4>2. j \in DOMAIN r.inputs /\ k \in DOMAIN r.inputs
        BY DEF Copies
      <4>3. InputsApart(r.inputs[j], r.inputs[k])
        BY <1>1, <1>4, <2>1, <4>1, <4>2, InputCopiesApart
      <4> QED BY <4>1, <4>3
    <3> QED BY <3>1, <3>2 DEF Told
  <2> QED BY <2>3, <2>4 DEF RunsOnce, Alone, Copies
<1>6. RunsOnce(c, c.writes, r.writes, WritesApart)
  <2>1. \A i \in DOMAIN c.writes : /\ c.writes[i] \in WriteEntries /\ c.writes[i].module \in {None, Template}
                                   /\ {"module", "slave", "address"} \subseteq DOMAIN c.writes[i]
    <3>1. \A i \in DOMAIN c.writes : c.writes[i] \in WriteEntries
      BY <1>2
    <3> QED BY ZenonT(60), <3>1 DEF WriteEntries, WritesOn
  <2>2. Seated(c, c.writes, r.writes)
    <3>1. DOMAIN r.writes = DOMAIN Expanded(c, c.writes)
      BY <1>1, SettledWritesAre
    <3>2. ASSUME NEW k \in DOMAIN r.writes
          PROVE  SameSeat(r.writes[k], Expanded(c, c.writes)[k])
      <4>1. Expanded(c, c.writes)[k] \in WritesOn(Int)
        BY <1>1, <3>1, PreparedWritesAre
      <4> QED BY <1>1, <4>1, SettledWritesAre, WriteKeeps
    <3> QED BY <3>1, <3>2 DEF Seated
  <2>3. Len(r.writes) <= InputWriteMax
    <3>1. PICK n \in Nat : DOMAIN r.writes = 1..n /\ DOMAIN Expanded(c, c.writes) = 1..n
      BY <1>1, SettledWritesAre
    <3>2. Len(Expanded(c, c.writes)) <= InputWriteMax
      BY <1>2, <1>3, ExpansionFits
    <3>3. Len(Expanded(c, c.writes)) = n /\ Len(r.writes) = n
      BY <1>2, <1>3, <3>1, ExpandedIs
    <3> QED BY <3>2, <3>3
  <2>4. ASSUME NEW i \in DOMAIN c.writes, Alone(c.writes, i)
        PROVE  /\ \A j, k \in Copies(c.writes, r.writes, i) : j # k =>
                    /\ r.writes[j].module # r.writes[k].module /\ r.writes[j].slave # r.writes[k].slave
                    /\ WritesApart(r.writes[j], r.writes[k])
               /\ c.writes[i].module = Template =>
                    /\ {r.writes[k].module : k \in Copies(c.writes, r.writes, i)} = 0..c.module_count - 1
                    /\ \A k \in Copies(c.writes, r.writes, i) : r.writes[k].slave \in 1..SlaveMax
               /\ c.writes[i].module # Template =>
                    {r.writes[k].module : k \in Copies(c.writes, r.writes, i)} = {None}
    <3>1. Told(c, c.writes, r.writes, i)
      BY <1>2, <1>3, <2>1, <2>2, <2>4, CopiesTold
    <3>2. ASSUME NEW j \in Copies(c.writes, r.writes, i), NEW k \in Copies(c.writes, r.writes, i), j # k
          PROVE  /\ r.writes[j].module # r.writes[k].module /\ r.writes[j].slave # r.writes[k].slave
                 /\ WritesApart(r.writes[j], r.writes[k])
      <4>1. PICK m \in 0..c.module_count - 1, n \in 0..c.module_count - 1 :
              /\ m # n /\ r.writes[j].module = m /\ r.writes[k].module = n
              /\ r.writes[j].slave # r.writes[k].slave
              /\ Expanded(c, c.writes)[j] = Copy(c, c.writes[i], m)
              /\ Expanded(c, c.writes)[k] = Copy(c, c.writes[i], n)
        BY <3>1, <3>2 DEF Told
      <4>2. j \in DOMAIN r.writes /\ k \in DOMAIN r.writes
        BY DEF Copies
      <4>3. WritesApart(r.writes[j], r.writes[k])
        BY <1>1, <1>4, <2>1, <4>1, <4>2, WriteCopiesApart
      <4> QED BY <4>1, <4>3
    <3> QED BY <3>1, <3>2 DEF Told
  <2> QED BY <2>3, <2>4 DEF RunsOnce, Alone, Copies
<1> QED BY <1>5, <1>6 DEF c, r

\* The expansion of an accepted file runs every template once on every module, on
\* a slave of its own and with each topic another than the same topic of every
\* other copy, and every fixed entry once.
THEOREM OneCopyPerModuleProved == ConfigSpec => []OneCopyPerModule
BY ConfigTyped, TypeOnce, PTL

-----------------------------------------------------------------------------
(***************************************************************************)
(* What lines say does not depend on the order they are read in.  Two sets *)
(* of lines agree on an entry or a channel when they say the same of it.   *)
(***************************************************************************)
About(l, at, n, c) == l.at = at /\ l.n = n /\ l.c = c
Agree(L, M, at, n, c) == \A key : Said(L, at, n, c, key) = Said(M, at, n, c, key)

LEMMA SaidFirst ==
  ASSUME NEW L, NEW l, NEW at, NEW n, NEW c, About(l, at, n, c), Said(L, at, n, c, l.key) = {}
  PROVE  Said(L \cup {l}, at, n, c, l.key) = {l}
BY DEF Said, About

LEMMA ValueOfOne == \A l, d : ValueOf({l}, d) = l.value
<1>1. ASSUME NEW l
      PROVE  (CHOOSE m \in {l} : TRUE) = l
  OBVIOUS
<1> QED BY <1>1 DEF ValueOf

LEMMA ValueFirst ==
  ASSUME NEW L, NEW l, NEW at, NEW n, NEW c, About(l, at, n, c), Said(L, at, n, c, l.key) = {}, NEW d
  PROVE  ValueSaid(L \cup {l}, at, n, c, l.key, d) = l.value
<1>1. Said(L \cup {l}, at, n, c, l.key) = {l}
  BY ZenonT(60), SaidFirst
<1> QED BY <1>1, ValueOfOne DEF ValueSaid

LEMMA SaidBefore ==
  ASSUME NEW L, NEW l, NEW at, NEW n, NEW c, NEW key, ~(About(l, at, n, c) /\ l.key = key)
  PROVE  /\ Said(L \cup {l}, at, n, c, key) = Said(L, at, n, c, key)
         /\ \A d : ValueSaid(L \cup {l}, at, n, c, key, d) = ValueSaid(L, at, n, c, key, d)
<1>1. Said(L \cup {l}, at, n, c, key) = Said(L, at, n, c, key)
  BY DEF Said, About
<1> QED BY <1>1 DEF ValueSaid

LEMMA AgreeUnless ==
  ASSUME NEW L, NEW l, NEW at, NEW n, NEW c, ~About(l, at, n, c)
  PROVE  Agree(L \cup {l}, L, at, n, c)
<1>1. ASSUME NEW key
      PROVE  Said(L \cup {l}, at, n, c, key) = Said(L, at, n, c, key)
  <2>1. ~(About(l, at, n, c) /\ l.key = key)
    OBVIOUS
  <2> QED BY <2>1, SaidBefore
<1> QED BY <1>1 DEF Agree

LEMMA AgreeNothing ==
  ASSUME NEW L, NEW at, NEW n, NEW c, \A m \in L : ~About(m, at, n, c)
  PROVE  Agree(L, {}, at, n, c)
BY DEF Agree, Said, About

LEMMA ValuesAgree ==
  ASSUME NEW L, NEW M, NEW at, NEW n, NEW c, Agree(L, M, at, n, c)
  PROVE  /\ \A key, d : ValueSaid(L, at, n, c, key, d) = ValueSaid(M, at, n, c, key, d)
         /\ RulesSaid(L, at, n, c) = RulesSaid(M, at, n, c)
<1>1. \A key, d : ValueSaid(L, at, n, c, key, d) = ValueSaid(M, at, n, c, key, d)
  BY DEF Agree, ValueSaid
<1> QED BY <1>1 DEF RulesSaid

LEMMA NothingSaid ==
  \A at, n, c, key : /\ Said({}, at, n, c, key) = {}
                     /\ \A d : ValueSaid({}, at, n, c, key, d) = d
BY DEF ValueSaid, ValueOf, Said

LEMMA NoRulesSaid ==
  ASSUME NEW at, NEW n, NEW c
  PROVE  RulesSaid({}, at, n, c) = NoRules
<1>1. \A r : ValueSaid({}, at, n, c, r, Unset) = Unset
  BY NothingSaid
<1> QED BY <1>1 DEF RulesSaid, NoRules

\* One function is another when they have the same values.
LEMMA SameFunction ==
  ASSUME NEW D, NEW f, NEW g, f = [x \in D |-> f[x]], g = [x \in D |-> g[x]], \A x \in D : f[x] = g[x]
  PROVE  f = g
OBVIOUS

LEMMA ChannelShape ==
  ASSUME NEW L, NEW n, NEW c, NEW ch, ch = ChannelSaid(L, n, c)
  PROVE  ch = [key \in DOMAIN NewChannel |-> ch[key]]
BY DEF ChannelSaid

\* The keys of a channel, one by one.
LEMMA ChannelFields ==
  ASSUME NEW L, NEW n, NEW c
  PROVE  LET ch == ChannelSaid(L, n, c)
             value(key, d) == ValueSaid(L, "input_channel", n, c, key, d)
             says(key) == Said(L, "input_channel", n, c, key) # {}
         IN /\ ch = [key \in DOMAIN NewChannel |-> ch[key]]
            /\ ch["rules"] = RulesSaid(L, "input_channel", n, c)
            /\ ch["has_length"] = (says("length") \/ says("nregisters"))
            /\ says("length") => ch["length"] = value("length", NewChannel["length"])
            /\ ~says("length") /\ says("nregisters") => ch["length"] = Doubled(value("nregisters", 0))
            /\ ~says("length") /\ ~says("nregisters") =>
                 ch["length"] = FormatSize(value("format", NewChannel["format"]))
            /\ \A key \in DOMAIN NewChannel \ {"rules", "has_length", "length"} :
                 ch[key] = value(key, NewChannel[key])
<1>1. {"rules", "has_length", "length"} \subseteq DOMAIN NewChannel
  BY DEF NewChannel
<1>2. PICK D : D = DOMAIN NewChannel
  OBVIOUS
<1> QED BY <1>1, <1>2 DEF ChannelSaid

LEMMA ChannelsAgree ==
  ASSUME NEW L, NEW M, NEW n, NEW c, Agree(L, M, "input_channel", n, c)
  PROVE  ChannelSaid(L, n, c) = ChannelSaid(M, n, c)
<1>1. \A key : Said(L, "input_channel", n, c, key) = Said(M, "input_channel", n, c, key)
  BY DEF Agree
<1> QED BY <1>1, ValuesAgree DEF ChannelSaid

LEMMA ChannelUnsaid ==
  ASSUME NEW n, NEW c
  PROVE  ChannelSaid({}, n, c) = NewChannel
<1> DEFINE ch == ChannelSaid({}, n, c)
           D == DOMAIN NewChannel
<1>1. /\ NewChannel = [key \in D |-> NewChannel[key]]
      /\ NewChannel["rules"] = NoRules /\ NewChannel["has_length"] = FALSE /\ NewChannel["length"] = 0
      /\ NewChannel["format"] = ""
  BY DEF NewChannel
<1>2. ch["rules"] = NoRules /\ ch["has_length"] = FALSE /\ ch["length"] = FormatSize(NewChannel["format"])
  <2>1. \A key : Said({}, "input_channel", n, c, key) = {}
    BY NothingSaid
  <2>2. ch["rules"] = NoRules
    BY ChannelFields, NoRulesSaid
  <2>3. ch["has_length"] = FALSE
    <3>1. ch["has_length"] = (\/ Said({}, "input_channel", n, c, "length") # {}
                             \/ Said({}, "input_channel", n, c, "nregisters") # {})
      BY ChannelFields
    <3> QED BY <2>1, <3>1
  <2>4. ch["length"] = FormatSize(ValueSaid({}, "input_channel", n, c, "format", NewChannel["format"]))
    BY <2>1, ChannelFields
  <2>5. \A d : ValueSaid({}, "input_channel", n, c, "format", d) = d
    BY NothingSaid
  <2> QED BY <2>2, <2>3, <2>4, <2>5
<1>3. ch = [key \in D |-> ch[key]] /\ \A key \in D \ {"rules", "has_length", "length"} : ch[key] = NewChannel[key]
  BY ChannelFields, NothingSaid
<1> HIDE DEF ch, D
<1>4. \A key \in D : ch[key] = NewChannel[key]
  BY <1>1, <1>2, <1>3, NoSize
<1> QED BY <1>1, <1>3, <1>4, SameFunction DEF ch, D

\* No line before gave the key, nor the length in the other way.
Anew(L, l) == \A m \in L : ~SameThing(m, l)

LEMMA FirstIs ==
  ASSUME NEW L, NEW l, Anew(L, l)
  PROVE  \A key : Sets(key) = Sets(l.key) => Said(L, l.at, l.n, l.c, key) = {}
BY DEF Anew, SameThing, Said

LEMMA RulesElse ==
  ASSUME NEW L, NEW l, NEW at, NEW n, NEW c, ~About(l, at, n, c) \/ l.key \notin RuleKeys
  PROVE  RulesSaid(L \cup {l}, at, n, c) = RulesSaid(L, at, n, c)
<1>1. \A r \in RuleKeys : ~(About(l, at, n, c) /\ l.key = r)
  OBVIOUS
<1>2. \A r \in RuleKeys : ValueSaid(L \cup {l}, at, n, c, r, Unset) = ValueSaid(L, at, n, c, r, Unset)
  BY <1>1, SaidBefore
<1> QED BY <1>2 DEF RulesSaid

LEMMA RuleSaidFirst ==
  ASSUME NEW L, NEW l, NEW at, NEW n, NEW c, About(l, at, n, c), Anew(L, l), l.key \in RuleKeys
  PROVE  RulesSaid(L \cup {l}, at, n, c) = [RulesSaid(L, at, n, c) EXCEPT ![l.key] = l.value]
<1>1. Said(L, at, n, c, l.key) = {}
  BY FirstIs DEF About
<1>2. \A d : ValueSaid(L \cup {l}, at, n, c, l.key, d) = l.value
  <2>1. Said(L \cup {l}, at, n, c, l.key) = {l}
    BY <1>1, SaidFirst
  <2> QED BY <2>1, ValueOfOne DEF ValueSaid
<1>3. \A r \in RuleKeys : r # l.key => ~(About(l, at, n, c) /\ l.key = r)
  OBVIOUS
<1>4. \A r \in RuleKeys : r # l.key =>
        ValueSaid(L \cup {l}, at, n, c, r, Unset) = ValueSaid(L, at, n, c, r, Unset)
  BY <1>3, SaidBefore
<1> QED BY <1>2, <1>4 DEF RulesSaid

\* What a line leaves alone in its channel.
LEMMA ChannelElse ==
  ASSUME NEW L, NEW l, NEW n, NEW c
  PROVE  LET ch == ChannelSaid(L, n, c)
             x == ChannelSaid(L \cup {l}, n, c)
         IN /\ \A key \in DOMAIN NewChannel \ {"rules", "has_length", "length"} : key # l.key => x[key] = ch[key]
            /\ l.key \notin RuleKeys => x["rules"] = ch["rules"]
            /\ l.key \notin {"length", "nregisters"} => x["has_length"] = ch["has_length"]
            /\ l.key \notin {"length", "nregisters", "format"} => x["length"] = ch["length"]
<1> DEFINE ch == ChannelSaid(L, n, c)
           x == ChannelSaid(L \cup {l}, n, c)
           at == "input_channel"
<1>1. ASSUME NEW key, key # l.key
      PROVE  /\ Said(L \cup {l}, at, n, c, key) = Said(L, at, n, c, key)
             /\ \A d : ValueSaid(L \cup {l}, at, n, c, key, d) = ValueSaid(L, at, n, c, key, d)
  <2>1. ~(About(l, at, n, c) /\ l.key = key)
    BY <1>1
  <2> QED BY <2>1, SaidBefore
<1>2. ASSUME NEW key \in DOMAIN NewChannel \ {"rules", "has_length", "length"}, key # l.key
      PROVE  x[key] = ch[key]
  <2>1. x[key] = ValueSaid(L \cup {l}, at, n, c, key, NewChannel[key])
    BY ChannelFields
  <2>2. ch[key] = ValueSaid(L, at, n, c, key, NewChannel[key])
    BY ChannelFields
  <2> QED BY <1>1, <1>2, <2>1, <2>2
<1>3. ASSUME l.key \notin RuleKeys
      PROVE  x["rules"] = ch["rules"]
  <2>1. x["rules"] = RulesSaid(L \cup {l}, at, n, c)
    BY ChannelFields
  <2>2. ch["rules"] = RulesSaid(L, at, n, c)
    BY ChannelFields
  <2>3. RulesSaid(L \cup {l}, at, n, c) = RulesSaid(L, at, n, c)
    BY <1>3, RulesElse
  <2> QED BY <2>1, <2>2, <2>3
<1>4. ASSUME l.key \notin {"length", "nregisters"}
      PROVE  x["has_length"] = ch["has_length"]
  <2>1. /\ Said(L \cup {l}, at, n, c, "length") = Said(L, at, n, c, "length")
        /\ Said(L \cup {l}, at, n, c, "nregisters") = Said(L, at, n, c, "nregisters")
    BY <1>1, <1>4
  <2> QED BY <2>1, ChannelFields
<1>5. ASSUME l.key \notin {"length", "nregisters", "format"}
      PROVE  x["length"] = ch["length"]
  <2>1. /\ Said(L \cup {l}, at, n, c, "length") = Said(L, at, n, c, "length")
        /\ Said(L \cup {l}, at, n, c, "nregisters") = Said(L, at, n, c, "nregisters")
        /\ \A key \in {"length", "nregisters", "format"} : \A d :
             ValueSaid(L \cup {l}, at, n, c, key, d) = ValueSaid(L, at, n, c, key, d)
    BY <1>1, <1>5
  <2>2. CASE Said(L, at, n, c, "length") # {}
    <3>1. x["length"] = ValueSaid(L \cup {l}, at, n, c, "length", NewChannel["length"])
      BY <2>1, <2>2, ChannelFields
    <3>2. ch["length"] = ValueSaid(L, at, n, c, "length", NewChannel["length"])
      BY <2>2, ChannelFields
    <3> QED BY <2>1, <3>1, <3>2
  <2>3. CASE Said(L, at, n, c, "length") = {} /\ Said(L, at, n, c, "nregisters") # {}
    <3>1. x["length"] = Doubled(ValueSaid(L \cup {l}, at, n, c, "nregisters", 0))
      BY <2>1, <2>3, ChannelFields
    <3>2. ch["length"] = Doubled(ValueSaid(L, at, n, c, "nregisters", 0))
      BY <2>3, ChannelFields
    <3> QED BY <2>1, <3>1, <3>2
  <2>4. CASE Said(L, at, n, c, "length") = {} /\ Said(L, at, n, c, "nregisters") = {}
    <3>1. x["length"] = FormatSize(ValueSaid(L \cup {l}, at, n, c, "format", NewChannel["format"]))
      BY <2>1, <2>4, ChannelFields
    <3>2. ch["length"] = FormatSize(ValueSaid(L, at, n, c, "format", NewChannel["format"]))
      BY <2>4, ChannelFields
    <3> QED BY <2>1, <3>1, <3>2
  <2> QED BY <2>2, <2>3, <2>4
<1> QED BY <1>2, <1>3, <1>4, <1>5

LEMMA ChannelLine ==
  ASSUME NEW L, NEW l, IsLine(l), NEW n, NEW c, About(l, "input_channel", n, c), Anew(L, l),
         NEW d \in ReadChannelKey(ChannelSaid(L, n, c), l)
  PROVE  d = ChannelSaid(L \cup {l}, n, c)
<1> DEFINE D == DOMAIN NewChannel
           at == "input_channel"
<1>1. PICK ch, x : ch = ChannelSaid(L, n, c) /\ x = ChannelSaid(L \cup {l}, n, c)
  OBVIOUS
<1>2. /\ l.at = at /\ l.n = n /\ l.c = c
      /\ l.key \in {"format", "length", "nregisters", "topic", "scaled", "timefmt", "decimals"} \cup RuleKeys
  BY KeysOf DEF About
<1>3. ch = [key \in D |-> ch[key]] /\ x = [key \in D |-> x[key]]
  <2>1. ch = [key \in D |-> ch[key]]
    BY <1>1, ChannelShape
  <2>2. x = [key \in D |-> x[key]]
    <3>1. PICK M : M = L \cup {l}
      OBVIOUS
    <3>2. x = ChannelSaid(M, n, c)
      BY <1>1, <3>1
    <3> QED BY <3>2, ChannelShape
  <2> QED BY <2>1, <2>2
<1>4. D = {"format", "length", "has_length", "topic", "scaled", "timefmt", "decimals", "rules"}
  BY DEF NewChannel
<1> HIDE DEF D
<1>5. \A key \in D \ {"rules", "has_length", "length"} : key # l.key => x[key] = ch[key]
  BY <1>1, ChannelElse DEF D
<1>6. /\ l.key \notin RuleKeys => x["rules"] = ch["rules"]
      /\ l.key \notin {"length", "nregisters"} => x["has_length"] = ch["has_length"]
      /\ l.key \notin {"length", "nregisters", "format"} => x["length"] = ch["length"]
  BY <1>1, ChannelElse
<1>7. \A key : Sets(key) = Sets(l.key) => Said(L, at, n, c, key) = {}
  BY <1>2, FirstIs
<1>8. /\ Said(L \cup {l}, at, n, c, l.key) = {l}
      /\ \A v : ValueSaid(L \cup {l}, at, n, c, l.key, v) = l.value
  <2>1. Said(L, at, n, c, l.key) = {}
    BY <1>7
  <2>2. Said(L \cup {l}, at, n, c, l.key) = {l}
    BY <2>1, SaidFirst
  <2>3. \A v : ValueSaid(L \cup {l}, at, n, c, l.key, v) = l.value
    BY <2>2, ValueOfOne DEF ValueSaid
  <2> QED BY <2>2, <2>3
<1>9. l.key \in D \ {"rules", "has_length", "length"} => x[l.key] = l.value
  <2>1. SUFFICES ASSUME l.key \in D \ {"rules", "has_length", "length"}
                 PROVE  x[l.key] = l.value
    OBVIOUS
  <2>2. x[l.key] = ValueSaid(L \cup {l}, at, n, c, l.key, NewChannel[l.key])
    BY <1>1, <2>1, ChannelFields DEF D
  <2> QED BY <1>8, <2>2
<1>10. CASE l.key \in {"topic", "scaled", "timefmt", "decimals"}
  <2>1. d = [ch EXCEPT ![l.key] = l.value]
    BY <1>1, <1>10 DEF ReadChannelKey, RuleKeys, Stored
  <2>2. d = [key \in D |-> d[key]]
    BY <1>3, <2>1
  <2>3. \A key \in D : d[key] = x[key]
    BY <1>3, <1>4, <1>5, <1>6, <1>9, <1>10, <2>1 DEF RuleKeys
  <2> QED BY <1>1, <1>3, <2>2, <2>3, SameFunction
<1>11. CASE l.key \in RuleKeys
  <2>1. d = [ch EXCEPT !["rules"] = [ch["rules"] EXCEPT ![l.key] = l.value]]
    BY <1>1, <1>3, <1>4, <1>11 DEF ReadChannelKey, RuleKeys, StoredRule
  <2>2. d = [key \in D |-> d[key]]
    BY <1>3, <2>1
  <2>3. x["rules"] = [ch["rules"] EXCEPT ![l.key] = l.value]
    <3>1. x["rules"] = RulesSaid(L \cup {l}, at, n, c) /\ ch["rules"] = RulesSaid(L, at, n, c)
      BY <1>1, ChannelFields
    <3> QED BY <1>11, <3>1, RuleSaidFirst
  <2>4. l.key \notin D /\ l.key \notin {"length", "nregisters", "format"}
    BY <1>4, <1>11 DEF RuleKeys
  <2>5. \A key \in D : d[key] = x[key]
    BY <1>3, <1>4, <1>5, <1>6, <2>1, <2>3, <2>4
  <2> QED BY <1>1, <1>3, <2>2, <2>5, SameFunction
<1>12. CASE l.key = "format"
  <2>1. d = [ch EXCEPT !["format"] = l.value,
                       !["length"] = IF ch["has_length"] THEN ch["length"] ELSE FormatSize(l.value)]
    BY <1>1, <1>3, <1>4, <1>12 DEF ReadChannelKey, RuleKeys, FormatRead
  <2>2. d = [key \in D |-> d[key]]
    BY <1>3, <2>1
  <2>3. x["length"] = IF ch["has_length"] THEN ch["length"] ELSE FormatSize(l.value)
    <3>1. /\ Said(L \cup {l}, at, n, c, "length") = Said(L, at, n, c, "length")
          /\ Said(L \cup {l}, at, n, c, "nregisters") = Said(L, at, n, c, "nregisters")
          /\ \A v : ValueSaid(L \cup {l}, at, n, c, "length", v) = ValueSaid(L, at, n, c, "length", v)
          /\ \A v : ValueSaid(L \cup {l}, at, n, c, "nregisters", v) = ValueSaid(L, at, n, c, "nregisters", v)
      BY <1>12, SaidBefore
    <3>2. CASE Said(L, at, n, c, "length") # {}
      <4>1. x["length"] = ValueSaid(L \cup {l}, at, n, c, "length", NewChannel["length"])
        BY <1>1, <3>1, <3>2, ChannelFields
      <4>2. ch["length"] = ValueSaid(L, at, n, c, "length", NewChannel["length"]) /\ ch["has_length"]
        BY <1>1, <3>2, ChannelFields
      <4> QED BY <3>1, <4>1, <4>2
    <3>3. CASE Said(L, at, n, c, "length") = {} /\ Said(L, at, n, c, "nregisters") # {}
      <4>1. x["length"] = Doubled(ValueSaid(L \cup {l}, at, n, c, "nregisters", 0))
        BY <1>1, <3>1, <3>3, ChannelFields
      <4>2. ch["length"] = Doubled(ValueSaid(L, at, n, c, "nregisters", 0)) /\ ch["has_length"]
        BY <1>1, <3>3, ChannelFields
      <4> QED BY <3>1, <4>1, <4>2
    <3>4. CASE Said(L, at, n, c, "length") = {} /\ Said(L, at, n, c, "nregisters") = {}
      <4>1. x["length"] = FormatSize(ValueSaid(L \cup {l}, at, n, c, "format", NewChannel["format"]))
        BY <1>1, <3>1, <3>4, ChannelFields
      <4>2. ~ch["has_length"]
        BY <1>1, <3>4, ChannelFields
      <4>3. ValueSaid(L \cup {l}, at, n, c, "format", NewChannel["format"]) = l.value
        BY <1>8, <1>12
      <4> QED BY <4>1, <4>2, <4>3
    <3> QED BY <3>2, <3>3, <3>4
  <2>4. \A key \in D : d[key] = x[key]
    BY <1>3, <1>4, <1>5, <1>6, <1>9, <1>12, <2>1, <2>3 DEF RuleKeys
  <2> QED BY <1>1, <1>3, <2>2, <2>4, SameFunction
<1>13. CASE l.key \in {"length", "nregisters"}
  <2>1. d = [ch EXCEPT !["length"] = Bytes(l), !["has_length"] = TRUE]
    BY ZenonT(60), <1>1, <1>3, <1>4, <1>13 DEF ReadChannelKey, RuleKeys, LengthRead
  <2>2. d = [key \in D |-> d[key]]
    BY <1>3, <2>1
  <2>3. x["length"] = Bytes(l)
    <3>1. CASE l.key = "length"
      <4>1. x["length"] = ValueSaid(L \cup {l}, at, n, c, "length", NewChannel["length"])
        BY <1>1, <1>8, <3>1, ChannelFields
      <4> QED BY <1>8, <3>1, <4>1 DEF Bytes
    <3>2. CASE l.key = "nregisters"
      <4>1. Said(L, at, n, c, "length") = {}
        BY <1>7, <3>2 DEF Sets
      <4>2. Said(L \cup {l}, at, n, c, "length") = {}
        BY <3>2, <4>1, SaidBefore
      <4>3. x["length"] = Doubled(ValueSaid(L \cup {l}, at, n, c, "nregisters", 0))
        BY <1>1, <1>8, <3>2, <4>2, ChannelFields
      <4> QED BY <1>8, <3>2, <4>3 DEF Bytes
    <3> QED BY <1>13, <3>1, <3>2
  <2>4. x["has_length"] = TRUE
    BY <1>1, <1>8, <1>13, ChannelFields
  <2>5. \A key \in D : d[key] = x[key]
    BY <1>3, <1>4, <1>5, <1>6, <1>13, <2>1, <2>3, <2>4 DEF RuleKeys
  <2> QED BY <1>1, <1>3, <2>2, <2>5, SameFunction
<1> QED BY <1>2, <1>10, <1>11, <1>12, <1>13

-----------------------------------------------------------------------------
\* The slave of an input or a write.
ModuleOf(v) == IF v = Template THEN Template ELSE None
SlaveOf(v) == IF v = Template THEN 0 ELSE v

LEMMA WithSlaveIs ==
  ASSUME NEW D, NEW e, e = [k \in D |-> e[k]], {"module", "slave"} \subseteq D, NEW v,
         NEW d, d = WithSlave(e, v)
  PROVE  /\ d = [k \in D |-> d[k]] /\ d["module"] = ModuleOf(v) /\ d["slave"] = SlaveOf(v)
         /\ \A k \in D \ {"module", "slave"} : d[k] = e[k]
<1>1. d = [e EXCEPT !["module"] = ModuleOf(v), !["slave"] = SlaveOf(v)]
  BY DEF WithSlave, ModuleOf, SlaveOf
<1> QED BY <1>1

LEMMA InputShape ==
  ASSUME NEW L, NEW n, NEW e, e = InputSaid(L, n)
  PROVE  e = [key \in DOMAIN NewInput |-> e[key]]
BY DEF InputSaid

InputKeys == {"module", "slave", "type", "address", "interval", "channels", "rules"}
LEMMA InputFields ==
  ASSUME NEW L, NEW n
  PROVE  LET e == InputSaid(L, n)
             value(key, d) == ValueSaid(L, "input", n, 0, key, d)
         IN /\ e["rules"] = RulesSaid(L, "input", n, 0)
            /\ e["module"] = ModuleOf(value("slave", NewInput["slave"]))
            /\ e["slave"] = SlaveOf(value("slave", NewInput["slave"]))
            /\ e["channels"] = [c \in 1..value("channels", 0) |-> ChannelSaid(L, n, c)]
            /\ \A key \in {"type", "address", "interval"} : e[key] = value(key, NewInput[key])
<1>1. DOMAIN NewInput = InputKeys /\ NewInput = [key \in InputKeys |-> NewInput[key]]
  BY DEF NewInput, InputKeys
<1>2. PICK new : new = NewInput
  OBVIOUS
<1>3. PICK e : e = InputSaid(L, n)
  OBVIOUS
<1> DEFINE value(key, d) == ValueSaid(L, "input", n, 0, key, d)
<1>4. e["rules"] = RulesSaid(L, "input", n, 0)
  BY <1>1, <1>2, <1>3 DEF InputSaid, InputKeys
<1>5. PICK v : v = value("slave", NewInput["slave"])
  OBVIOUS
<1>6. e["module"] = WithSlave(NewInput, v)["module"] /\ e["slave"] = WithSlave(NewInput, v)["slave"]
  BY <1>1, <1>2, <1>3, <1>5 DEF InputSaid, InputKeys
<1>7. WithSlave(NewInput, v)["module"] = ModuleOf(v) /\ WithSlave(NewInput, v)["slave"] = SlaveOf(v)
  BY <1>1, WithSlaveIs DEF InputKeys
<1>8. e["channels"] = [c \in 1..value("channels", 0) |-> ChannelSaid(L, n, c)]
  BY <1>1, <1>2, <1>3 DEF InputSaid, InputKeys
<1>9. \A key \in {"type", "address", "interval"} : e[key] = value(key, NewInput[key])
  BY <1>1, <1>2, <1>3 DEF InputSaid, InputKeys
<1> QED BY <1>3, <1>4, <1>5, <1>6, <1>7, <1>8, <1>9

\* What is said of an input is what is said of its own keys and of its channels.
LEMMA InputsAgree ==
  ASSUME NEW L, NEW M, NEW n, Agree(L, M, "input", n, 0),
         \A c \in Nat : Agree(L, M, "input_channel", n, c)
  PROVE  InputSaid(L, n) = InputSaid(M, n)
<1> DEFINE value(K, key, d) == ValueSaid(K, "input", n, 0, key, d)
<1>1. \A key, d : value(L, key, d) = value(M, key, d)
  BY ValuesAgree
<1>2. RulesSaid(L, "input", n, 0) = RulesSaid(M, "input", n, 0)
  BY ValuesAgree
<1>3. PICK m : m = value(L, "channels", 0)
  OBVIOUS
<1>4. \A c \in 1..m : ChannelSaid(L, n, c) = ChannelSaid(M, n, c)
  <2>1. \A c \in 1..m : c \in Nat
    OBVIOUS
  <2> QED BY <2>1, ChannelsAgree
<1>5. [c \in 1..value(L, "channels", 0) |-> ChannelSaid(L, n, c)]
        = [c \in 1..value(M, "channels", 0) |-> ChannelSaid(M, n, c)]
  BY <1>1, <1>3, <1>4
<1>6. PICK e, f : e = InputSaid(L, n) /\ f = InputSaid(M, n)
  OBVIOUS
<1>7. \A key \in InputKeys : e[key] = f[key]
  <2>1. e["rules"] = f["rules"]
    <3>1. e["rules"] = RulesSaid(L, "input", n, 0)
      BY <1>6, InputFields
    <3>2. f["rules"] = RulesSaid(M, "input", n, 0)
      BY <1>6, InputFields
    <3> QED BY <1>2, <3>1, <3>2
  <2>2. e["module"] = f["module"] /\ e["slave"] = f["slave"]
    <3>1. /\ e["module"] = ModuleOf(value(L, "slave", NewInput["slave"]))
          /\ e["slave"] = SlaveOf(value(L, "slave", NewInput["slave"]))
      BY <1>6, InputFields
    <3>2. /\ f["module"] = ModuleOf(value(M, "slave", NewInput["slave"]))
          /\ f["slave"] = SlaveOf(value(M, "slave", NewInput["slave"]))
      BY <1>6, InputFields
    <3> QED BY <1>1, <3>1, <3>2
  <2>3. e["channels"] = f["channels"]
    <3>1. e["channels"] = [c \in 1..value(L, "channels", 0) |-> ChannelSaid(L, n, c)]
      BY <1>6, InputFields
    <3>2. f["channels"] = [c \in 1..value(M, "channels", 0) |-> ChannelSaid(M, n, c)]
      BY <1>6, InputFields
    <3> QED BY <1>5, <3>1, <3>2
  <2>4. \A key \in {"type", "address", "interval"} : e[key] = f[key]
    <3>1. ASSUME NEW key \in {"type", "address", "interval"}
          PROVE  e[key] = f[key]
      <4>1. e[key] = value(L, key, NewInput[key])
        BY <1>6, InputFields
      <4>2. f[key] = value(M, key, NewInput[key])
        BY <1>6, InputFields
      <4> QED BY <1>1, <4>1, <4>2
    <3> QED BY <3>1
  <2> QED BY <2>1, <2>2, <2>3, <2>4 DEF InputKeys
<1>8. DOMAIN NewInput = InputKeys
  BY DEF NewInput, InputKeys
<1>9. e = [key \in InputKeys |-> e[key]] /\ f = [key \in InputKeys |-> f[key]]
  BY <1>6, <1>8, InputShape
<1> QED BY <1>6, <1>7, <1>9, SameFunction

LEMMA InputUnsaid ==
  ASSUME NEW n
  PROVE  InputSaid({}, n) = NewInput
<1>1. PICK e : e = InputSaid({}, n)
  OBVIOUS
<1>2. DOMAIN NewInput = InputKeys /\ NewInput = [key \in InputKeys |-> NewInput[key]]
  BY DEF NewInput, InputKeys
<1>3. e = [key \in InputKeys |-> e[key]]
  BY <1>1, <1>2, InputShape
<1>4. \A key, d : ValueSaid({}, "input", n, 0, key, d) = d
  BY NothingSaid
<1>5. e["rules"] = NewInput["rules"]
  <2>1. e["rules"] = RulesSaid({}, "input", n, 0)
    BY <1>1, InputFields
  <2> QED BY <2>1, NoRulesSaid DEF NewInput
<1>6. e["module"] = NewInput["module"] /\ e["slave"] = NewInput["slave"]
  <2>1. e["module"] = ModuleOf(NewInput["slave"]) /\ e["slave"] = SlaveOf(NewInput["slave"])
    <3>1. /\ e["module"] = ModuleOf(ValueSaid({}, "input", n, 0, "slave", NewInput["slave"]))
          /\ e["slave"] = SlaveOf(ValueSaid({}, "input", n, 0, "slave", NewInput["slave"]))
      BY <1>1, InputFields
    <3> QED BY <1>4, <3>1
  <2>2. NewInput["slave"] = 0 /\ NewInput["module"] = None
    BY DEF NewInput
  <2> QED BY <2>1, <2>2 DEF ModuleOf, SlaveOf, Template
<1>7. e["channels"] = NewInput["channels"]
  <2>1. e["channels"] = [c \in 1..ValueSaid({}, "input", n, 0, "channels", 0) |-> ChannelSaid({}, n, c)]
    BY <1>1, InputFields
  <2>2. ValueSaid({}, "input", n, 0, "channels", 0) = 0
    BY <1>4
  <2>3. e["channels"] = [c \in 1..0 |-> ChannelSaid({}, n, c)]
    BY <2>1, <2>2
  <2> QED BY <2>3 DEF NewInput
<1>8. \A key \in {"type", "address", "interval"} : e[key] = NewInput[key]
  <2>1. ASSUME NEW key \in {"type", "address", "interval"}
        PROVE  e[key] = NewInput[key]
    <3>1. e[key] = ValueSaid({}, "input", n, 0, key, NewInput[key])
      BY <1>1, InputFields
    <3> QED BY <1>4, <3>1
  <2> QED BY <2>1
<1>9. \A key \in InputKeys : e[key] = NewInput[key]
  BY <1>5, <1>6, <1>7, <1>8 DEF InputKeys
<1> QED BY <1>1, <1>2, <1>3, <1>9, SameFunction

\* What a line leaves alone in its input.
LEMMA InputRulesElse ==
  ASSUME NEW L, NEW l, NEW n, NEW e, e = InputSaid(L, n), NEW x, x = InputSaid(L \cup {l}, n),
         ~About(l, "input", n, 0) \/ l.key \notin RuleKeys
  PROVE  x["rules"] = e["rules"]
<1>1. x["rules"] = RulesSaid(L \cup {l}, "input", n, 0)
  BY InputFields
<1>2. e["rules"] = RulesSaid(L, "input", n, 0)
  BY InputFields
<1>3. RulesSaid(L \cup {l}, "input", n, 0) = RulesSaid(L, "input", n, 0)
  BY RulesElse
<1> QED BY <1>1, <1>2, <1>3

LEMMA InputSlaveElse ==
  ASSUME NEW L, NEW l, NEW n, NEW e, e = InputSaid(L, n), NEW x, x = InputSaid(L \cup {l}, n),
         ~About(l, "input", n, 0) \/ l.key # "slave"
  PROVE  x["module"] = e["module"] /\ x["slave"] = e["slave"]
<1>1. /\ x["module"] = ModuleOf(ValueSaid(L \cup {l}, "input", n, 0, "slave", NewInput["slave"]))
      /\ x["slave"] = SlaveOf(ValueSaid(L \cup {l}, "input", n, 0, "slave", NewInput["slave"]))
  BY InputFields
<1>2. /\ e["module"] = ModuleOf(ValueSaid(L, "input", n, 0, "slave", NewInput["slave"]))
      /\ e["slave"] = SlaveOf(ValueSaid(L, "input", n, 0, "slave", NewInput["slave"]))
  BY InputFields
<1>3. ~(About(l, "input", n, 0) /\ l.key = "slave")
  OBVIOUS
<1>4. \A d : ValueSaid(L \cup {l}, "input", n, 0, "slave", d) = ValueSaid(L, "input", n, 0, "slave", d)
  BY <1>3, SaidBefore
<1> QED BY <1>1, <1>2, <1>4

ChannelsSaid(L, n, m) == [c \in 1..m |-> ChannelSaid(L, n, c)]
LEMMA InputChannelsElse ==
  ASSUME NEW L, NEW l, NEW n, NEW e, e = InputSaid(L, n), NEW x, x = InputSaid(L \cup {l}, n),
         ~About(l, "input", n, 0) \/ l.key # "channels",
         NEW m, m = ValueSaid(L, "input", n, 0, "channels", 0)
  PROVE  e["channels"] = ChannelsSaid(L, n, m) /\ x["channels"] = ChannelsSaid(L \cup {l}, n, m)
<1>1. ~(About(l, "input", n, 0) /\ l.key = "channels")
  OBVIOUS
<1>2. \A d : ValueSaid(L \cup {l}, "input", n, 0, "channels", d) = ValueSaid(L, "input", n, 0, "channels", d)
  BY <1>1, SaidBefore
<1>3. e["channels"] = [c \in 1..m |-> ChannelSaid(L, n, c)]
  BY InputFields
<1>4. x["channels"] =
        [c \in 1..ValueSaid(L \cup {l}, "input", n, 0, "channels", 0) |-> ChannelSaid(L \cup {l}, n, c)]
  BY InputFields
<1> QED BY <1>2, <1>3, <1>4 DEF ChannelsSaid

SameChannels(L, M, n) == \A c : ChannelSaid(M, n, c) = ChannelSaid(L, n, c)

LEMMA InputChannelsStay ==
  ASSUME NEW L, NEW l, NEW n, NEW e, e = InputSaid(L, n), NEW x, x = InputSaid(L \cup {l}, n),
         l.key # "channels", SameChannels(L, L \cup {l}, n)
  PROVE  x["channels"] = e["channels"]
<1>1. PICK m : m = ValueSaid(L, "input", n, 0, "channels", 0)
  OBVIOUS
<1>2. e["channels"] = ChannelsSaid(L, n, m) /\ x["channels"] = ChannelsSaid(L \cup {l}, n, m)
  BY <1>1, InputChannelsElse
<1> QED BY <1>2 DEF ChannelsSaid, SameChannels

LEMMA InputPlainElse ==
  ASSUME NEW L, NEW l, NEW n, NEW e, e = InputSaid(L, n), NEW x, x = InputSaid(L \cup {l}, n),
         NEW key \in {"type", "address", "interval"}, ~About(l, "input", n, 0) \/ key # l.key
  PROVE  x[key] = e[key]
<1>1. x[key] = ValueSaid(L \cup {l}, "input", n, 0, key, NewInput[key])
  BY InputFields
<1>2. e[key] = ValueSaid(L, "input", n, 0, key, NewInput[key])
  BY InputFields
<1>3. ~(About(l, "input", n, 0) /\ l.key = key)
  OBVIOUS
<1>4. \A d : ValueSaid(L \cup {l}, "input", n, 0, key, d) = ValueSaid(L, "input", n, 0, key, d)
  BY <1>3, SaidBefore
<1> QED BY <1>1, <1>2, <1>4

LEMMA ChannelsElse ==
  ASSUME NEW L, NEW l, NEW n, NEW c, ~About(l, "input_channel", n, c)
  PROVE  ChannelSaid(L \cup {l}, n, c) = ChannelSaid(L, n, c)
<1>1. Agree(L \cup {l}, L, "input_channel", n, c)
  BY AgreeUnless
<1> QED BY <1>1, ChannelsAgree

LEMMA InputIs ==
  ASSUME NEW L, NEW n, NEW e, e = InputSaid(L, n)
  PROVE  e = [key \in InputKeys |-> e[key]]
<1>1. DOMAIN NewInput = InputKeys
  BY DEF NewInput, InputKeys
<1> QED BY <1>1, InputShape

LEMMA InputLine ==
  ASSUME NEW L, NEW l, IsLine(l), NEW n, About(l, "input", n, 0), Anew(L, l),
         \A m \in L : m.at = "input_channel" /\ m.n = n => m.c \in DOMAIN InputSaid(L, n)["channels"],
         NEW d \in ReadInputKey(InputSaid(L, n), l)
  PROVE  d = InputSaid(L \cup {l}, n)
<1> DEFINE at == "input"
           D == InputKeys
<1>1. PICK e, x : e = InputSaid(L, n) /\ x = InputSaid(L \cup {l}, n)
  OBVIOUS
<1>2. l.at = at /\ l.n = n /\ l.c = 0 /\ l.key \in {"slave", "type", "address", "interval", "channels"} \cup RuleKeys
  BY KeysOf DEF About
<1>3. e = [key \in D |-> e[key]] /\ x = [key \in D |-> x[key]]
  BY <1>1, InputIs
<1>4. D = {"module", "slave", "type", "address", "interval", "channels", "rules"}
  BY DEF InputKeys
<1> HIDE DEF D
<1>5. /\ l.key \notin RuleKeys => x["rules"] = e["rules"]
      /\ l.key # "slave" => x["module"] = e["module"] /\ x["slave"] = e["slave"]
      /\ \A key \in {"type", "address", "interval"} : key # l.key => x[key] = e[key]
  <2>1. l.key \notin RuleKeys => x["rules"] = e["rules"]
    BY <1>1, InputRulesElse
  <2>2. l.key # "slave" => x["module"] = e["module"] /\ x["slave"] = e["slave"]
    BY <1>1, InputSlaveElse
  <2>3. \A key \in {"type", "address", "interval"} : key # l.key => x[key] = e[key]
    BY <1>1, InputPlainElse
  <2> QED BY <2>1, <2>2, <2>3
<1>6. ASSUME NEW c
      PROVE  ChannelSaid(L \cup {l}, n, c) = ChannelSaid(L, n, c)
  <2>1. ~About(l, "input_channel", n, c)
    BY <1>2 DEF About
  <2> QED BY <2>1, ChannelsElse
<1>7. ASSUME l.key # "channels"
      PROVE  x["channels"] = e["channels"]
  <2>1. SameChannels(L, L \cup {l}, n)
    BY <1>6 DEF SameChannels
  <2> QED BY <1>1, <1>7, <2>1, InputChannelsStay
<1>8. ASSUME NEW v
      PROVE  ValueSaid(L \cup {l}, at, n, 0, l.key, v) = l.value
  <2>1. Said(L, at, n, 0, l.key) = {}
    BY <1>2, FirstIs
  <2>2. Said(L \cup {l}, at, n, 0, l.key) = {l}
    BY <2>1, SaidFirst
  <2> QED BY <2>2, ValueOfOne DEF ValueSaid
<1>9. CASE l.key \in {"type", "address", "interval"}
  <2>1. d = [e EXCEPT ![l.key] = l.value]
    BY <1>1, <1>9 DEF ReadInputKey, RuleKeys, Stored
  <2>2. d = [key \in D |-> d[key]]
    BY <1>3, <2>1
  <2>3. x[l.key] = l.value
    <3>1. x[l.key] = ValueSaid(L \cup {l}, at, n, 0, l.key, NewInput[l.key])
      BY <1>1, <1>9, InputFields
    <3> QED BY <1>8, <3>1
  <2>4. \A key \in D : d[key] = x[key]
    BY <1>3, <1>4, <1>5, <1>7, <1>9, <2>1, <2>3 DEF RuleKeys
  <2> QED BY <1>1, <1>3, <2>2, <2>4, SameFunction
<1>10. CASE l.key \in RuleKeys
  <2>1. d = [e EXCEPT !["rules"] = [e["rules"] EXCEPT ![l.key] = l.value]]
    BY <1>1, <1>3, <1>4, <1>10 DEF ReadInputKey, RuleKeys, StoredRule
  <2>2. d = [key \in D |-> d[key]]
    BY <1>3, <2>1
  <2>3. x["rules"] = [e["rules"] EXCEPT ![l.key] = l.value]
    <3>1. x["rules"] = RulesSaid(L \cup {l}, at, n, 0)
      BY <1>1, InputFields
    <3>2. e["rules"] = RulesSaid(L, at, n, 0)
      BY <1>1, InputFields
    <3> QED BY <1>10, <3>1, <3>2, RuleSaidFirst
  <2>4. l.key \notin {"slave", "type", "address", "interval", "channels"}
    BY <1>10 DEF RuleKeys
  <2>5. \A key \in D : d[key] = x[key]
    BY <1>3, <1>4, <1>5, <1>7, <2>1, <2>3, <2>4
  <2> QED BY <1>1, <1>3, <2>2, <2>5, SameFunction
<1>11. CASE l.key = "slave"
  <2>1. d = WithSlave(e, l.value)
    BY <1>1, <1>11 DEF ReadInputKey, RuleKeys
  <2>2. /\ d = [key \in D |-> d[key]] /\ d["module"] = ModuleOf(l.value) /\ d["slave"] = SlaveOf(l.value)
        /\ \A key \in D \ {"module", "slave"} : d[key] = e[key]
    <3>1. {"module", "slave"} \subseteq D
      BY <1>4
    <3> QED BY <1>3, <2>1, <3>1, WithSlaveIs
  <2>3. x["module"] = ModuleOf(l.value) /\ x["slave"] = SlaveOf(l.value)
    <3>1. /\ x["module"] = ModuleOf(ValueSaid(L \cup {l}, at, n, 0, "slave", NewInput["slave"]))
          /\ x["slave"] = SlaveOf(ValueSaid(L \cup {l}, at, n, 0, "slave", NewInput["slave"]))
      BY <1>1, InputFields
    <3> QED BY <1>8, <1>11, <3>1
  <2>4. \A key \in D : d[key] = x[key]
    BY <1>4, <1>5, <1>7, <1>11, <2>2, <2>3 DEF RuleKeys
  <2> QED BY <1>1, <1>3, <2>2, <2>4, SameFunction
<1>12. CASE l.key = "channels"
  <2>1. PICK s \in Allocated(e["channels"], l, 100, NewChannel) : d = [e EXCEPT !["channels"] = s]
    BY <1>1, <1>12 DEF ReadInputKey, RuleKeys
  <2>2. e["channels"] = <<>> /\ s = [i \in 1..l.value |-> NewChannel]
    BY <2>1 DEF Allocated
  <2>3. d = [key \in D |-> d[key]]
    BY <1>3, <2>1
  <2>4. \A c : Agree(L \cup {l}, {}, "input_channel", n, c)
    <3>1. \A m \in L : ~(m.at = "input_channel" /\ m.n = n)
      BY <1>1, <2>2
    <3>2. \A c : \A m \in L \cup {l} : ~About(m, "input_channel", n, c)
      BY <1>2, <3>1 DEF About
    <3> QED BY <3>2, AgreeNothing
  <2>5. \A c : ChannelSaid(L \cup {l}, n, c) = NewChannel
    <3>1. \A c : ChannelSaid(L \cup {l}, n, c) = ChannelSaid({}, n, c)
      BY <2>4, ChannelsAgree
    <3> QED BY <3>1, ChannelUnsaid
  <2>6. x["channels"] = s
    <3>1. x["channels"] = [c \in 1..ValueSaid(L \cup {l}, at, n, 0, "channels", 0) |-> ChannelSaid(L \cup {l}, n, c)]
      BY <1>1, InputFields
    <3>2. ValueSaid(L \cup {l}, at, n, 0, "channels", 0) = l.value
      BY <1>8, <1>12
    <3> QED BY <2>2, <2>5, <3>1, <3>2
  <2>7. \A key \in D : d[key] = x[key]
    BY <1>3, <1>4, <1>5, <1>12, <2>1, <2>6 DEF RuleKeys
  <2> QED BY <1>1, <1>3, <2>3, <2>7, SameFunction
<1> QED BY <1>2, <1>9, <1>10, <1>11, <1>12

WithChannel(e, c, ch) == [e EXCEPT !["channels"][c] = ch]

LEMMA InputChannelLine ==
  ASSUME NEW L, NEW l, IsLine(l), NEW n, NEW c, About(l, "input_channel", n, c), Anew(L, l),
         c \in DOMAIN InputSaid(L, n)["channels"],
         NEW ch \in ReadChannelKey(InputSaid(L, n)["channels"][c], l)
  PROVE  WithChannel(InputSaid(L, n), c, ch) = InputSaid(L \cup {l}, n)
<1> DEFINE D == InputKeys
<1>1. PICK e, x : e = InputSaid(L, n) /\ x = InputSaid(L \cup {l}, n)
  OBVIOUS
<1>2. ~About(l, "input", n, 0)
  BY DEF About
<1>3. e = [key \in D |-> e[key]] /\ x = [key \in D |-> x[key]]
  BY <1>1, InputIs
<1>4. D = {"module", "slave", "type", "address", "interval", "channels", "rules"}
  BY DEF InputKeys
<1> HIDE DEF D
<1>5. /\ x["rules"] = e["rules"] /\ x["module"] = e["module"] /\ x["slave"] = e["slave"]
      /\ \A key \in {"type", "address", "interval"} : x[key] = e[key]
  <2>1. x["rules"] = e["rules"]
    BY <1>1, <1>2, InputRulesElse
  <2>2. x["module"] = e["module"] /\ x["slave"] = e["slave"]
    BY <1>1, <1>2, InputSlaveElse
  <2>3. \A key \in {"type", "address", "interval"} : x[key] = e[key]
    BY <1>1, <1>2, InputPlainElse
  <2> QED BY <2>1, <2>2, <2>3
<1>6. PICK m : /\ e["channels"] = [k \in 1..m |-> ChannelSaid(L, n, k)]
               /\ x["channels"] = [k \in 1..m |-> ChannelSaid(L \cup {l}, n, k)]
  <2>1. PICK m : m = ValueSaid(L, "input", n, 0, "channels", 0)
    OBVIOUS
  <2>2. e["channels"] = ChannelsSaid(L, n, m) /\ x["channels"] = ChannelsSaid(L \cup {l}, n, m)
    BY <1>1, <1>2, <2>1, InputChannelsElse
  <2> QED BY <2>2 DEF ChannelsSaid
<1>7. e["channels"][c] = ChannelSaid(L, n, c) /\ c \in 1..m
  BY <1>1, <1>6
<1>8. ch = ChannelSaid(L \cup {l}, n, c)
  BY <1>1, <1>7, ChannelLine
<1>9. ASSUME NEW k \in 1..m, k # c
      PROVE  ChannelSaid(L \cup {l}, n, k) = ChannelSaid(L, n, k)
  <2>1. ~About(l, "input_channel", n, k)
    BY <1>9 DEF About
  <2> QED BY <2>1, ChannelsElse
<1>10. x["channels"] = [e["channels"] EXCEPT ![c] = ch]
  <2>1. PICK s, t : s = e["channels"] /\ t = x["channels"]
    OBVIOUS
  <2>2. \A k \in 1..m : s[k] = ChannelSaid(L, n, k) /\ t[k] = ChannelSaid(L \cup {l}, n, k)
    BY <1>6, <2>1
  <2>3. t[c] = ch /\ \A k \in 1..m : k # c => t[k] = s[k]
    BY <1>7, <1>8, <1>9, <2>2
  <2>4. s = [k \in 1..m |-> s[k]] /\ t = [k \in 1..m |-> t[k]]
    BY <1>6, <2>1
  <2> QED BY <1>7, <2>1, <2>3, <2>4
<1>11. PICK d : d = [e EXCEPT !["channels"] = [e["channels"] EXCEPT ![c] = ch]]
  OBVIOUS
<1>12. d = [key \in D |-> d[key]] /\ \A key \in D : d[key] = x[key]
  BY <1>3, <1>4, <1>5, <1>10, <1>11
<1>13. d = x
  BY <1>3, <1>12, SameFunction
<1> QED BY <1>1, <1>11, <1>13 DEF WithChannel

-----------------------------------------------------------------------------
\* The same for a channel of a write.
WriteChannelKeys == {"offset", "format", "length", "add", "mod", "mul"}

LEMMA WriteChannelIs ==
  ASSUME NEW L, NEW n, NEW c, NEW ch, ch = WriteChannelSaid(L, n, c)
  PROVE  ch = [key \in WriteChannelKeys |-> ch[key]]
<1>1. DOMAIN NewWriteChannel = WriteChannelKeys
  BY DEF NewWriteChannel, WriteChannelKeys
<1> QED BY <1>1 DEF WriteChannelSaid

LEMMA WriteChannelPlain ==
  ASSUME NEW L, NEW n, NEW c, NEW ch, ch = WriteChannelSaid(L, n, c), NEW key \in WriteChannelKeys, key # "length"
  PROVE  ch[key] = ValueSaid(L, "write_channel", n, c, key, NewWriteChannel[key])
<1>1. DOMAIN NewWriteChannel = WriteChannelKeys
  BY DEF NewWriteChannel, WriteChannelKeys
<1> QED BY <1>1 DEF WriteChannelSaid

LEMMA WriteChannelLength ==
  ASSUME NEW L, NEW n, NEW c, NEW ch, ch = WriteChannelSaid(L, n, c)
  PROVE  ch["length"] = FormatSize(ch["format"])
<1>1. DOMAIN NewWriteChannel = WriteChannelKeys
  BY DEF NewWriteChannel, WriteChannelKeys
<1>2. ch["length"] = FormatSize(ValueSaid(L, "write_channel", n, c, "format", NewWriteChannel["format"]))
  BY <1>1 DEF WriteChannelSaid, WriteChannelKeys
<1>3. ch["format"] = ValueSaid(L, "write_channel", n, c, "format", NewWriteChannel["format"])
  BY WriteChannelPlain DEF WriteChannelKeys
<1> QED BY <1>2, <1>3

LEMMA SameWriteChannel ==
  ASSUME NEW L, NEW n, NEW c, NEW d, d = [key \in WriteChannelKeys |-> d[key]],
         d["length"] = FormatSize(d["format"]),
         \A key \in WriteChannelKeys \ {"length"} :
           d[key] = ValueSaid(L, "write_channel", n, c, key, NewWriteChannel[key])
  PROVE  d = WriteChannelSaid(L, n, c)
<1>1. PICK ch : ch = WriteChannelSaid(L, n, c)
  OBVIOUS
<1>2. \A key \in WriteChannelKeys \ {"length"} : d[key] = ch[key]
  BY <1>1, WriteChannelPlain
<1>3. d["length"] = ch["length"]
  <2>1. d["format"] = ch["format"]
    BY <1>2 DEF WriteChannelKeys
  <2> QED BY <1>1, <2>1, WriteChannelLength
<1>4. ch = [key \in WriteChannelKeys |-> ch[key]]
  BY <1>1, WriteChannelIs
<1> QED BY <1>1, <1>2, <1>3, <1>4, SameFunction

LEMMA WriteChannelsAgree ==
  ASSUME NEW L, NEW M, NEW n, NEW c, Agree(L, M, "write_channel", n, c)
  PROVE  WriteChannelSaid(L, n, c) = WriteChannelSaid(M, n, c)
<1>1. \A key, d : ValueSaid(L, "write_channel", n, c, key, d) = ValueSaid(M, "write_channel", n, c, key, d)
  BY ValuesAgree
<1> QED BY <1>1 DEF WriteChannelSaid

LEMMA WriteChannelsElse ==
  ASSUME NEW L, NEW l, NEW n, NEW c, ~About(l, "write_channel", n, c)
  PROVE  WriteChannelSaid(L \cup {l}, n, c) = WriteChannelSaid(L, n, c)
<1>1. Agree(L \cup {l}, L, "write_channel", n, c)
  BY AgreeUnless
<1> QED BY <1>1, WriteChannelsAgree

LEMMA WriteChannelUnsaid ==
  ASSUME NEW n, NEW c
  PROVE  WriteChannelSaid({}, n, c) = NewWriteChannel
<1>1. NewWriteChannel = [key \in WriteChannelKeys |-> NewWriteChannel[key]]
  BY DEF NewWriteChannel, WriteChannelKeys
<1>2. NewWriteChannel["format"] = "" /\ NewWriteChannel["length"] = 0
  BY DEF NewWriteChannel
<1>3. NewWriteChannel["length"] = FormatSize(NewWriteChannel["format"])
  BY <1>2, NoSize
<1>4. \A key \in WriteChannelKeys \ {"length"} :
        NewWriteChannel[key] = ValueSaid({}, "write_channel", n, c, key, NewWriteChannel[key])
  BY NothingSaid
<1>5. PICK new : new = NewWriteChannel
  OBVIOUS
<1> QED BY <1>1, <1>3, <1>4, SameWriteChannel

LEMMA WriteChannelLine ==
  ASSUME NEW L, NEW l, IsLine(l), NEW n, NEW c, About(l, "write_channel", n, c), Anew(L, l),
         NEW d \in ReadWriteChannelKey(WriteChannelSaid(L, n, c), l)
  PROVE  d = WriteChannelSaid(L \cup {l}, n, c)
<1> DEFINE at == "write_channel"
           D == WriteChannelKeys
<1>1. PICK ch : ch = WriteChannelSaid(L, n, c)
  OBVIOUS
<1>2. l.at = at /\ l.n = n /\ l.c = c /\ l.key \in {"offset", "format", "add", "mod", "mul"}
  BY KeysOf DEF About
<1>3. ch = [key \in D |-> ch[key]] /\ ch["length"] = FormatSize(ch["format"])
  BY <1>1, WriteChannelIs, WriteChannelLength
<1>4. D = {"offset", "format", "length", "add", "mod", "mul"}
  BY DEF WriteChannelKeys
<1> HIDE DEF D
<1>5. d = [key \in D |-> d[key]] /\ d["length"] = FormatSize(d["format"])
  <2>1. CASE l.key = "format"
    <3>1. d = [ch EXCEPT !["format"] = l.value, !["length"] = FormatSize(l.value)]
      BY <1>1, <2>1 DEF ReadWriteChannelKey, WithFormat
    <3>2. PICK size : size = FormatSize(l.value)
      OBVIOUS
    <3>3. d["format"] = l.value /\ d["length"] = size /\ d = [key \in D |-> d[key]]
      BY <1>3, <1>4, <3>1, <3>2
    <3> QED BY <3>2, <3>3
  <2>2. CASE l.key # "format"
    <3>1. d = [ch EXCEPT ![l.key] = l.value]
      BY <1>1, <2>2 DEF ReadWriteChannelKey, Stored
    <3>2. d["format"] = ch["format"] /\ d["length"] = ch["length"] /\ d = [key \in D |-> d[key]]
      BY <1>2, <1>3, <1>4, <2>2, <3>1
    <3> QED BY <1>3, <3>2
  <2> QED BY <2>1, <2>2
<1>6. \A key \in D \ {"length"} : d[key] = IF key = l.key THEN l.value ELSE ch[key]
  <2>1. CASE l.key = "format"
    BY <1>1, <1>3, <1>4, <2>1 DEF ReadWriteChannelKey, WithFormat
  <2>2. CASE l.key # "format"
    BY <1>1, <1>3, <1>4, <2>2 DEF ReadWriteChannelKey, Stored
  <2> QED BY <2>1, <2>2
<1>7. ASSUME NEW key \in D \ {"length"}
      PROVE  d[key] = ValueSaid(L \cup {l}, at, n, c, key, NewWriteChannel[key])
  <2>1. CASE key = l.key
    <3>1. Said(L, at, n, c, l.key) = {}
      BY <1>2, FirstIs
    <3>2. Said(L \cup {l}, at, n, c, l.key) = {l}
      BY <3>1, SaidFirst
    <3>3. ValueSaid(L \cup {l}, at, n, c, key, NewWriteChannel[key]) = l.value
      BY <2>1, <3>2, ValueOfOne DEF ValueSaid
    <3> QED BY <1>6, <2>1, <3>3
  <2>2. CASE key # l.key
    <3>1. ~(About(l, at, n, c) /\ l.key = key)
      BY <2>2
    <3>2. ValueSaid(L \cup {l}, at, n, c, key, NewWriteChannel[key])
            = ValueSaid(L, at, n, c, key, NewWriteChannel[key])
      BY <3>1, SaidBefore
    <3>3. ch[key] = ValueSaid(L, at, n, c, key, NewWriteChannel[key])
      BY <1>1, WriteChannelPlain DEF D
    <3> QED BY <1>6, <2>2, <3>2, <3>3
  <2> QED BY <2>1, <2>2
<1> QED BY <1>5, <1>7, SameWriteChannel DEF D

\* The same for a write.
WritePlain == {"type", "function", "address", "format", "scaled", "on_value", "off_value", "topic", "ack_topic",
               "ack", "naddress"}
WriteKeys == WritePlain \cup {"module", "slave", "length", "channels"}
WriteChannelsSaid(L, n, m) == [c \in 1..m |-> WriteChannelSaid(L, n, c)]
WriteSays(L, n, key) == ValueSaid(L, "write", n, 0, key, NewWrite[key])

LEMMA NewWriteIs ==
  /\ DOMAIN NewWrite = WriteKeys /\ NewWrite = [key \in WriteKeys |-> NewWrite[key]]
  /\ NewWrite["format"] = "" /\ NewWrite["length"] = 0 /\ NewWrite["module"] = None
  /\ NewWrite["slave"] = Unset /\ NewWrite["channels"] = <<>>
BY DEF NewWrite, WriteKeys, WritePlain

LEMMA WriteIs ==
  ASSUME NEW L, NEW n, NEW w, w = WriteSaid(L, n)
  PROVE  w = [key \in WriteKeys |-> w[key]]
BY NewWriteIs DEF WriteSaid

LEMMA WritePlainIs ==
  ASSUME NEW L, NEW n, NEW w, w = WriteSaid(L, n), NEW key \in WritePlain
  PROVE  w[key] = WriteSays(L, n, key)
<1>1. key \in DOMAIN NewWrite /\ key \notin {"length", "module", "slave", "channels"}
  BY NewWriteIs DEF WriteKeys, WritePlain
<1> QED BY <1>1 DEF WriteSaid, WriteSays

LEMMA WriteLength ==
  ASSUME NEW L, NEW n, NEW w, w = WriteSaid(L, n)
  PROVE  w["length"] = FormatSize(w["format"])
<1>1. "length" \in DOMAIN NewWrite
  BY NewWriteIs DEF WriteKeys
<1>2. w["length"] = FormatSize(WriteSays(L, n, "format"))
  BY <1>1 DEF WriteSaid, WriteSays
<1>3. w["format"] = WriteSays(L, n, "format")
  BY WritePlainIs DEF WritePlain
<1> QED BY <1>2, <1>3

LEMMA WriteSlave ==
  ASSUME NEW L, NEW n, NEW w, w = WriteSaid(L, n)
  PROVE  w["module"] = ModuleOf(WriteSays(L, n, "slave")) /\ w["slave"] = SlaveOf(WriteSays(L, n, "slave"))
<1>1. {"module", "slave"} \subseteq DOMAIN NewWrite
  BY NewWriteIs DEF WriteKeys
<1>2. PICK v : v = WriteSays(L, n, "slave")
  OBVIOUS
<1>3. PICK d : d = WithSlave(NewWrite, v)
  OBVIOUS
<1>4. w["module"] = d["module"] /\ w["slave"] = d["slave"]
  BY <1>1, <1>2, <1>3 DEF WriteSaid, WriteSays
<1>5. d["module"] = ModuleOf(v) /\ d["slave"] = SlaveOf(v)
  <2>1. PICK new : new = NewWrite /\ new = [key \in WriteKeys |-> new[key]]
    BY NewWriteIs
  <2>2. {"module", "slave"} \subseteq WriteKeys
    BY DEF WriteKeys
  <2> QED BY <1>3, <2>1, <2>2, WithSlaveIs
<1> QED BY <1>2, <1>4, <1>5

LEMMA WriteChannelsAre ==
  ASSUME NEW L, NEW n, NEW w, w = WriteSaid(L, n)
  PROVE  w["channels"] = WriteChannelsSaid(L, n, ValueSaid(L, "write", n, 0, "channels", 0))
<1>1. "channels" \in DOMAIN NewWrite
  BY NewWriteIs DEF WriteKeys
<1> QED BY <1>1 DEF WriteSaid, WriteChannelsSaid

\* What a write is that has these fields.
LEMMA SameWrite ==
  ASSUME NEW L, NEW n, NEW d, d = [key \in WriteKeys |-> d[key]], d["length"] = FormatSize(d["format"]),
         d["module"] = ModuleOf(WriteSays(L, n, "slave")), d["slave"] = SlaveOf(WriteSays(L, n, "slave")),
         d["channels"] = WriteChannelsSaid(L, n, ValueSaid(L, "write", n, 0, "channels", 0)),
         \A key \in WritePlain : d[key] = WriteSays(L, n, key)
  PROVE  d = WriteSaid(L, n)
<1>1. PICK w : w = WriteSaid(L, n)
  OBVIOUS
<1>2. \A key \in WritePlain : d[key] = w[key]
  BY <1>1, WritePlainIs
<1>3. d["length"] = w["length"]
  <2>1. d["format"] = w["format"]
    BY <1>2 DEF WritePlain
  <2> QED BY <1>1, <2>1, WriteLength
<1>4. d["module"] = w["module"] /\ d["slave"] = w["slave"]
  BY <1>1, WriteSlave
<1>5. d["channels"] = w["channels"]
  BY <1>1, WriteChannelsAre
<1>6. \A key \in WriteKeys : d[key] = w[key]
  BY <1>2, <1>3, <1>4, <1>5 DEF WriteKeys
<1>7. w = [key \in WriteKeys |-> w[key]]
  BY <1>1, WriteIs
<1> QED BY <1>1, <1>6, <1>7, SameFunction

LEMMA WritesAgree ==
  ASSUME NEW L, NEW M, NEW n, Agree(L, M, "write", n, 0),
         \A c \in Nat : Agree(L, M, "write_channel", n, c)
  PROVE  WriteSaid(L, n) = WriteSaid(M, n)
<1>1. PICK w : w = WriteSaid(L, n)
  OBVIOUS
<1>2. \A key, d : ValueSaid(L, "write", n, 0, key, d) = ValueSaid(M, "write", n, 0, key, d)
  BY ValuesAgree
<1>3. \A key : WriteSays(L, n, key) = WriteSays(M, n, key)
  BY <1>2 DEF WriteSays
<1>4. PICK m : m = ValueSaid(L, "write", n, 0, "channels", 0) /\ m = ValueSaid(M, "write", n, 0, "channels", 0)
  BY <1>2
<1>5. WriteChannelsSaid(L, n, m) = WriteChannelsSaid(M, n, m)
  <2>1. \A c \in 1..m : WriteChannelSaid(L, n, c) = WriteChannelSaid(M, n, c)
    <3>1. \A c \in 1..m : c \in Nat
      OBVIOUS
    <3> QED BY <3>1, WriteChannelsAgree
  <2> QED BY <2>1 DEF WriteChannelsSaid
<1>6. w["channels"] = WriteChannelsSaid(M, n, m)
  BY <1>1, <1>4, <1>5, WriteChannelsAre
<1>7. w["module"] = ModuleOf(WriteSays(M, n, "slave")) /\ w["slave"] = SlaveOf(WriteSays(M, n, "slave"))
  BY <1>1, <1>3, WriteSlave
<1>8. \A key \in WritePlain : w[key] = WriteSays(M, n, key)
  BY <1>1, <1>3, WritePlainIs
<1>9. w = [key \in WriteKeys |-> w[key]] /\ w["length"] = FormatSize(w["format"])
  BY <1>1, WriteIs, WriteLength
<1> QED BY <1>1, <1>4, <1>6, <1>7, <1>8, <1>9, SameWrite

LEMMA WriteUnsaid ==
  ASSUME NEW n
  PROVE  WriteSaid({}, n) = NewWrite
<1>1. PICK w : w = NewWrite
  OBVIOUS
<1>2. \A key : WriteSays({}, n, key) = w[key]
  BY <1>1, NothingSaid DEF WriteSays
<1>3. w = [key \in WriteKeys |-> w[key]] /\ w["length"] = FormatSize(w["format"])
  BY <1>1, NewWriteIs, NoSize
<1>4. w["module"] = ModuleOf(WriteSays({}, n, "slave")) /\ w["slave"] = SlaveOf(WriteSays({}, n, "slave"))
  <2>1. WriteSays({}, n, "slave") = Unset /\ w["module"] = None /\ w["slave"] = Unset
    BY <1>1, <1>2, NewWriteIs
  <2>2. Unset # Template
    BY ConfigAssumption DEF Template
  <2> QED BY <2>1, <2>2 DEF ModuleOf, SlaveOf
<1>5. w["channels"] = WriteChannelsSaid({}, n, ValueSaid({}, "write", n, 0, "channels", 0))
  <2>1. ValueSaid({}, "write", n, 0, "channels", 0) = 0
    BY NothingSaid
  <2>2. WriteChannelsSaid({}, n, 0) = <<>>
    BY DEF WriteChannelsSaid
  <2> QED BY <1>1, <2>1, <2>2, NewWriteIs
<1> QED BY <1>1, <1>2, <1>3, <1>4, <1>5, SameWrite

LEMMA MoreWriteSays ==
  ASSUME NEW L, NEW l, NEW n, About(l, "write", n, 0), Anew(L, l), NEW key
  PROVE  /\ WriteSays(L \cup {l}, n, key) = IF key = l.key THEN l.value ELSE WriteSays(L, n, key)
         /\ ValueSaid(L \cup {l}, "write", n, 0, key, 0) =
              IF key = l.key THEN l.value ELSE ValueSaid(L, "write", n, 0, key, 0)
<1>1. ASSUME NEW v
      PROVE  ValueSaid(L \cup {l}, "write", n, 0, key, v) =
               IF key = l.key THEN l.value ELSE ValueSaid(L, "write", n, 0, key, v)
  <2>1. CASE key = l.key
    <3>1. Said(L, "write", n, 0, l.key) = {}
      BY FirstIs DEF About
    <3>2. Said(L \cup {l}, "write", n, 0, l.key) = {l}
      BY ZenonT(60), <3>1, SaidFirst
    <3> QED BY <2>1, <3>2, ValueOfOne DEF ValueSaid
  <2>2. CASE key # l.key
    <3>1. ~(About(l, "write", n, 0) /\ l.key = key)
      BY <2>2
    <3> QED BY <2>2, <3>1, SaidBefore
  <2> QED BY <2>1, <2>2
<1> QED BY <1>1 DEF WriteSays

LEMMA WriteLine ==
  ASSUME NEW L, NEW l, IsLine(l), NEW n, About(l, "write", n, 0), Anew(L, l),
         \A m \in L : m.at = "write_channel" /\ m.n = n => m.c \in DOMAIN WriteSaid(L, n)["channels"],
         NEW d \in ReadWriteKey(WriteSaid(L, n), l)
  PROVE  d = WriteSaid(L \cup {l}, n)
<1>1. PICK w : w = WriteSaid(L, n)
  OBVIOUS
<1>2. l.at = "write" /\ l.n = n /\ l.c = 0 /\ l.key \in WritePlain \cup {"slave", "channels"}
  BY KeysOf DEF About, WritePlain
<1>3. w = [key \in WriteKeys |-> w[key]] /\ w["length"] = FormatSize(w["format"])
  BY <1>1, WriteIs, WriteLength
<1>4. \A key \in WritePlain : key # l.key => w[key] = WriteSays(L \cup {l}, n, key)
  <2>1. ASSUME NEW key \in WritePlain, key # l.key
        PROVE  w[key] = WriteSays(L \cup {l}, n, key)
    <3>1. w[key] = WriteSays(L, n, key)
      BY <1>1, WritePlainIs
    <3>2. WriteSays(L \cup {l}, n, key) = WriteSays(L, n, key)
      BY <2>1, MoreWriteSays
    <3> QED BY <3>1, <3>2
  <2> QED BY <2>1
<1>5. l.value = WriteSays(L \cup {l}, n, l.key) /\ l.value = ValueSaid(L \cup {l}, "write", n, 0, l.key, 0)
  <2>1. PICK key : key = l.key
    OBVIOUS
  <2>2. WriteSays(L \cup {l}, n, key) = l.value
    BY <2>1, MoreWriteSays
  <2>3. ValueSaid(L \cup {l}, "write", n, 0, key, 0) = l.value
    BY <2>1, MoreWriteSays
  <2> QED BY <2>1, <2>2, <2>3
<1>6. ASSUME l.key # "slave"
      PROVE  /\ w["module"] = ModuleOf(WriteSays(L \cup {l}, n, "slave"))
             /\ w["slave"] = SlaveOf(WriteSays(L \cup {l}, n, "slave"))
  <2>1. WriteSays(L \cup {l}, n, "slave") = WriteSays(L, n, "slave")
    BY <1>6, MoreWriteSays
  <2> QED BY <1>1, <2>1, WriteSlave
<1>7. ASSUME NEW c
      PROVE  WriteChannelSaid(L \cup {l}, n, c) = WriteChannelSaid(L, n, c)
  <2>1. ~About(l, "write_channel", n, c)
    BY <1>2 DEF About
  <2> QED BY <2>1, WriteChannelsElse
<1> DEFINE channels == WriteChannelsSaid(L \cup {l}, n, ValueSaid(L \cup {l}, "write", n, 0, "channels", 0))
<1>8. ASSUME l.key # "channels"
      PROVE  w["channels"] = channels
  <2>1. PICK m : m = ValueSaid(L, "write", n, 0, "channels", 0)
    OBVIOUS
  <2>2. ValueSaid(L \cup {l}, "write", n, 0, "channels", 0) = m
    BY SMTT(30), <1>8, <2>1, MoreWriteSays
  <2>3. w["channels"] = WriteChannelsSaid(L, n, m)
    BY <1>1, <2>1, WriteChannelsAre
  <2>4. WriteChannelsSaid(L, n, m) = WriteChannelsSaid(L \cup {l}, n, m)
    BY <1>7 DEF WriteChannelsSaid
  <2> QED BY <2>2, <2>3, <2>4
<1> HIDE DEF channels
<1>9. CASE l.key \in WritePlain \ {"format"}
  <2>1. d = [w EXCEPT ![l.key] = l.value]
    <3>1. CASE l.key = "type"
      BY <1>1, <3>1 DEF ReadWriteKey
    <3>2. CASE l.key # "type"
      BY <1>1, <1>9, <3>2 DEF ReadWriteKey, Stored, WritePlain
    <3> QED BY <3>1, <3>2
  <2>2. l.key \in WriteKeys /\ l.key \notin {"module", "slave", "channels", "length", "format"}
    BY <1>9 DEF WriteKeys, WritePlain
  <2>3. d = [key \in WriteKeys |-> d[key]] /\ \A key \in WriteKeys : d[key] = IF key = l.key THEN l.value ELSE w[key]
    BY <1>3, <2>1
  <2>4. {"module", "slave", "channels", "length", "format"} \subseteq WriteKeys /\ WritePlain \subseteq WriteKeys
    BY DEF WriteKeys, WritePlain
  <2>5. \A key \in {"module", "slave", "channels", "length", "format"} : d[key] = w[key]
    BY <2>2, <2>3, <2>4
  <2>6. \A key \in WritePlain : d[key] = WriteSays(L \cup {l}, n, key)
    BY <1>4, <1>5, <2>3, <2>4
  <2>7. l.key # "slave" /\ l.key # "channels"
    BY <2>2
  <2>8. d["channels"] = channels
    BY <1>8, <2>5, <2>7
  <2> QED BY SMTT(30), <1>3, <1>6, <2>3, <2>5, <2>6, <2>7, <2>8, SameWrite DEF channels
<1>10. CASE l.key = "format"
  <2>1. d = [w EXCEPT !["format"] = l.value, !["length"] = FormatSize(l.value)]
    BY <1>1, <1>10 DEF ReadWriteKey, WithFormat
  <2>2. PICK size : size = FormatSize(l.value)
    OBVIOUS
  <2>3. {"module", "slave", "channels", "length", "format"} \subseteq WriteKeys /\ WritePlain \subseteq WriteKeys
    BY DEF WriteKeys, WritePlain
  <2>4. /\ d = [key \in WriteKeys |-> d[key]] /\ d["format"] = l.value /\ d["length"] = size
        /\ \A key \in WriteKeys \ {"format", "length"} : d[key] = w[key]
    BY <1>3, <2>1, <2>2, <2>3
  <2>5. \A key \in {"module", "slave", "channels"} : d[key] = w[key]
    BY <2>3, <2>4
  <2>6. \A key \in WritePlain : d[key] = WriteSays(L \cup {l}, n, key)
    <3>1. \A key \in WritePlain : key \notin {"length", "module", "slave", "channels"}
      BY DEF WritePlain
    <3> QED BY <1>4, <1>5, <1>10, <2>3, <2>4, <3>1
  <2>7. l.key # "slave" /\ l.key # "channels"
    BY <1>10
  <2>8. d["channels"] = channels
    BY <1>8, <2>5, <2>7
  <2>9. d["length"] = FormatSize(d["format"])
    BY <2>2, <2>4
  <2> QED BY <1>6, <2>4, <2>5, <2>6, <2>7, <2>8, <2>9, SameWrite DEF channels
<1>11. CASE l.key = "slave"
  <2>1. d = WithSlave(w, l.value)
    BY <1>1, <1>11 DEF ReadWriteKey
  <2>2. {"module", "slave", "channels", "length", "format"} \subseteq WriteKeys /\ WritePlain \subseteq WriteKeys
    BY DEF WriteKeys, WritePlain
  <2>3. /\ d = [key \in WriteKeys |-> d[key]] /\ d["module"] = ModuleOf(l.value) /\ d["slave"] = SlaveOf(l.value)
        /\ \A key \in WriteKeys \ {"module", "slave"} : d[key] = w[key]
    BY <1>3, <2>1, <2>2, WithSlaveIs
  <2>4. \A key \in {"channels", "length", "format"} : d[key] = w[key]
    BY <2>2, <2>3
  <2>5. \A key \in WritePlain : d[key] = WriteSays(L \cup {l}, n, key)
    <3>1. \A key \in WritePlain : key \notin {"length", "module", "slave", "channels"}
      BY DEF WritePlain
    <3> QED BY <1>4, <1>11, <2>2, <2>3, <3>1
  <2>6. l.value = WriteSays(L \cup {l}, n, "slave")
    BY <1>5, <1>11
  <2>7. l.key # "channels"
    BY <1>11
  <2>8. d["channels"] = channels
    BY <1>8, <2>4, <2>7
  <2> QED BY <1>3, <2>3, <2>4, <2>5, <2>6, <2>8, SameWrite DEF channels
<1>12. CASE l.key = "channels"
  <2>1. PICK s \in Allocated(w["channels"], l, BlockMax, NewWriteChannel) : d = [w EXCEPT !["channels"] = s]
    BY <1>1, <1>12 DEF ReadWriteKey
  <2>2. w["channels"] = <<>> /\ s = [i \in 1..l.value |-> NewWriteChannel]
    BY <2>1 DEF Allocated
  <2>3. {"module", "slave", "channels", "length", "format"} \subseteq WriteKeys /\ WritePlain \subseteq WriteKeys
    BY DEF WriteKeys, WritePlain
  <2>4. /\ d = [key \in WriteKeys |-> d[key]] /\ d["channels"] = s
        /\ \A key \in WriteKeys \ {"channels"} : d[key] = w[key]
    BY <1>3, <2>1, <2>3
  <2>5. \A key \in {"module", "slave", "length", "format"} : d[key] = w[key]
    BY <2>3, <2>4
  <2>6. \A key \in WritePlain : d[key] = WriteSays(L \cup {l}, n, key)
    <3>1. \A key \in WritePlain : key \notin {"length", "module", "slave", "channels"}
      BY DEF WritePlain
    <3> QED BY <1>4, <1>12, <2>3, <2>4, <3>1
  <2>7. ASSUME NEW c
        PROVE  WriteChannelSaid(L \cup {l}, n, c) = NewWriteChannel
    <3>1. \A m \in L : ~About(m, "write_channel", n, c)
      BY <1>1, <2>2 DEF About
    <3>2. \A m \in L \cup {l} : ~About(m, "write_channel", n, c)
      BY <1>2, <3>1 DEF About
    <3>3. Agree(L \cup {l}, {}, "write_channel", n, c)
      BY <3>2, AgreeNothing
    <3>4. WriteChannelSaid(L \cup {l}, n, c) = WriteChannelSaid({}, n, c)
      BY <3>3, WriteChannelsAgree
    <3> QED BY <3>4, WriteChannelUnsaid
  <2>8. d["channels"] = channels
    <3>1. ValueSaid(L \cup {l}, "write", n, 0, "channels", 0) = l.value
      BY <1>5, <1>12
    <3>2. WriteChannelsSaid(L \cup {l}, n, l.value) = s
      BY <2>2, <2>7 DEF WriteChannelsSaid
    <3> QED BY <2>4, <3>1, <3>2 DEF channels
  <2>9. l.key # "slave"
    BY <1>12
  <2> QED BY <1>3, <1>6, <2>4, <2>5, <2>6, <2>8, <2>9, SameWrite DEF channels
<1> QED BY <1>2, <1>9, <1>10, <1>11, <1>12

LEMMA ChannelOfWriteLine ==
  ASSUME NEW L, NEW l, IsLine(l), NEW n, NEW c, About(l, "write_channel", n, c), Anew(L, l),
         c \in DOMAIN WriteSaid(L, n)["channels"],
         NEW ch \in ReadWriteChannelKey(WriteSaid(L, n)["channels"][c], l)
  PROVE  WithChannel(WriteSaid(L, n), c, ch) = WriteSaid(L \cup {l}, n)
<1>1. PICK w : w = WriteSaid(L, n)
  OBVIOUS
<1>2. ~About(l, "write", n, 0)
  BY DEF About
<1>3. ASSUME NEW key
      PROVE  WriteSays(L \cup {l}, n, key) = WriteSays(L, n, key)
  BY SMTT(30), <1>2, SaidBefore DEF WriteSays
<1>4. PICK m : m = ValueSaid(L, "write", n, 0, "channels", 0)
  OBVIOUS
<1>5. ValueSaid(L \cup {l}, "write", n, 0, "channels", 0) = m
  BY <1>2, <1>4, SaidBefore
<1>6. w["channels"] = WriteChannelsSaid(L, n, m)
  BY <1>1, <1>4, WriteChannelsAre
<1>7. w["channels"][c] = WriteChannelSaid(L, n, c) /\ c \in 1..m
  BY <1>1, <1>6 DEF WriteChannelsSaid
<1>8. ch = WriteChannelSaid(L \cup {l}, n, c)
  BY <1>1, <1>7, WriteChannelLine
<1>9. ASSUME NEW k \in 1..m, k # c
      PROVE  WriteChannelSaid(L \cup {l}, n, k) = WriteChannelSaid(L, n, k)
  <2>1. ~About(l, "write_channel", n, k)
    BY <1>9 DEF About
  <2> QED BY <2>1, WriteChannelsElse
<1>10. WriteChannelsSaid(L \cup {l}, n, m) = [w["channels"] EXCEPT ![c] = ch]
  <2>1. PICK s, t : s = w["channels"] /\ t = WriteChannelsSaid(L \cup {l}, n, m)
    OBVIOUS
  <2>2. \A k \in 1..m : t[k] = IF k = c THEN ch ELSE s[k]
    BY <1>6, <1>8, <1>9, <2>1 DEF WriteChannelsSaid
  <2>3. s = [k \in 1..m |-> s[k]] /\ t = [k \in 1..m |-> t[k]]
    BY <1>6, <2>1 DEF WriteChannelsSaid
  <2> QED BY <1>7, <2>1, <2>2, <2>3
<1>11. PICK d : d = [w EXCEPT !["channels"] = [w["channels"] EXCEPT ![c] = ch]]
  OBVIOUS
<1>12. w = [key \in WriteKeys |-> w[key]] /\ w["length"] = FormatSize(w["format"])
  BY <1>1, WriteIs, WriteLength
<1>13. {"module", "slave", "channels", "length", "format"} \subseteq WriteKeys /\ WritePlain \subseteq WriteKeys
  BY DEF WriteKeys, WritePlain
<1>14. /\ d = [key \in WriteKeys |-> d[key]] /\ d["channels"] = [w["channels"] EXCEPT ![c] = ch]
       /\ \A key \in WriteKeys \ {"channels"} : d[key] = w[key]
  BY <1>11, <1>12, <1>13
<1>15. \A key \in {"module", "slave", "length", "format"} : d[key] = w[key]
  BY <1>13, <1>14
<1>16. \A key \in WritePlain : d[key] = WriteSays(L \cup {l}, n, key)
  <2>1. \A key \in WritePlain : key # "channels"
    BY DEF WritePlain
  <2>2. \A key \in WritePlain : w[key] = WriteSays(L, n, key)
    BY <1>1, WritePlainIs
  <2> QED BY <1>3, <1>13, <1>14, <2>1, <2>2
<1>17. /\ w["module"] = ModuleOf(WriteSays(L \cup {l}, n, "slave"))
       /\ w["slave"] = SlaveOf(WriteSays(L \cup {l}, n, "slave"))
  BY <1>1, <1>3, WriteSlave
<1>18. d["channels"] = WriteChannelsSaid(L \cup {l}, n, ValueSaid(L \cup {l}, "write", n, 0, "channels", 0))
  BY <1>5, <1>10, <1>14
<1>19. d = WriteSaid(L \cup {l}, n)
  BY <1>12, <1>14, <1>15, <1>16, <1>17, <1>18, SameWrite
<1> QED BY <1>1, <1>11, <1>19 DEF WithChannel

-----------------------------------------------------------------------------
\* The whole configuration.
ConfigPlain == {"module_count", "module_slave_first", "version", "rtu", "frame_delay_ms", "query_mode",
                "topic_prefix", "ack"}
ConfigKeys == ConfigPlain \cup {"inputs", "writes", "rules"}
InputsSaid(L, m) == [n \in 1..m |-> InputSaid(L, n)]
WritesSaid(L, m) == [n \in 1..m |-> WriteSaid(L, n)]
ConfigSays(L, key) == ValueSaid(L, "config", 0, 0, key, Empty[key])
Count(L, key) == ValueSaid(L, "config", 0, 0, key, 0)
ChannelCount(L, at, n) == ValueSaid(L, at, n, 0, "channels", 0)

LEMMA EmptyIs ==
  /\ DOMAIN Empty = ConfigKeys /\ Empty = [key \in ConfigKeys |-> Empty[key]]
  /\ Empty["inputs"] = <<>> /\ Empty["writes"] = <<>> /\ Empty["rules"] = NoRules
BY DEF Empty, ConfigKeys, ConfigPlain

LEMMA ConfigIs ==
  ASSUME NEW L, NEW c, c = ConfigSaid(L)
  PROVE  c = [key \in ConfigKeys |-> c[key]]
BY EmptyIs DEF ConfigSaid

LEMMA ConfigPlainIs ==
  ASSUME NEW L, NEW c, c = ConfigSaid(L), NEW key \in ConfigPlain
  PROVE  c[key] = ConfigSays(L, key)
<1>1. key \in DOMAIN Empty /\ key \notin {"inputs", "writes", "rules"}
  BY EmptyIs DEF ConfigKeys, ConfigPlain
<1> QED BY <1>1 DEF ConfigSaid, ConfigSays

LEMMA ConfigRulesAre ==
  ASSUME NEW L, NEW c, c = ConfigSaid(L)
  PROVE  c["rules"] = RulesSaid(L, "config", 0, 0)
<1>1. "rules" \in DOMAIN Empty
  BY EmptyIs DEF ConfigKeys
<1> QED BY <1>1 DEF ConfigSaid

LEMMA ConfigInputsAre ==
  ASSUME NEW L, NEW c, c = ConfigSaid(L)
  PROVE  c["inputs"] = InputsSaid(L, Count(L, "inputs"))
<1>1. "inputs" \in DOMAIN Empty
  BY EmptyIs DEF ConfigKeys
<1> QED BY <1>1 DEF ConfigSaid, InputsSaid, Count

LEMMA ConfigWritesAre ==
  ASSUME NEW L, NEW c, c = ConfigSaid(L)
  PROVE  c["writes"] = WritesSaid(L, Count(L, "writes"))
<1>1. "writes" \in DOMAIN Empty
  BY EmptyIs DEF ConfigKeys
<1> QED BY <1>1 DEF ConfigSaid, WritesSaid, Count

LEMMA SameConfig ==
  ASSUME NEW L, NEW d, d = [key \in ConfigKeys |-> d[key]], d["rules"] = RulesSaid(L, "config", 0, 0),
         d["inputs"] = InputsSaid(L, Count(L, "inputs")), d["writes"] = WritesSaid(L, Count(L, "writes")),
         \A key \in ConfigPlain : d[key] = ConfigSays(L, key)
  PROVE  d = ConfigSaid(L)
<1>1. PICK c : c = ConfigSaid(L)
  OBVIOUS
<1>2. \A key \in ConfigPlain : d[key] = c[key]
  BY <1>1, ConfigPlainIs
<1>3. d["rules"] = c["rules"] /\ d["inputs"] = c["inputs"] /\ d["writes"] = c["writes"]
  BY <1>1, ConfigRulesAre, ConfigInputsAre, ConfigWritesAre
<1>4. \A key \in ConfigKeys : d[key] = c[key]
  BY <1>2, <1>3 DEF ConfigKeys
<1>5. c = [key \in ConfigKeys |-> c[key]]
  BY <1>1, ConfigIs
<1> QED BY <1>1, <1>4, <1>5, SameFunction

LEMMA ConfigUnsaid == ConfigSaid({}) = Empty
<1>1. PICK c : c = Empty
  OBVIOUS
<1>2. ASSUME NEW key \in ConfigPlain
      PROVE  c[key] = ConfigSays({}, key)
  BY <1>1, NothingSaid DEF ConfigSays
<1>3. c["rules"] = RulesSaid({}, "config", 0, 0)
  BY <1>1, EmptyIs, NoRulesSaid
<1>4. InputsSaid({}, Count({}, "inputs")) = <<>> /\ WritesSaid({}, Count({}, "writes")) = <<>>
  <2>1. Count({}, "inputs") = 0 /\ Count({}, "writes") = 0
    BY NothingSaid DEF Count
  <2>2. InputsSaid({}, 0) = <<>> /\ WritesSaid({}, 0) = <<>>
    BY DEF InputsSaid, WritesSaid
  <2> QED BY <2>1, <2>2
<1>5. c = [key \in ConfigKeys |-> c[key]]
  BY <1>1, EmptyIs
<1>6. c["inputs"] = InputsSaid({}, Count({}, "inputs"))
  BY <1>1, <1>4, EmptyIs
<1>7. c["writes"] = WritesSaid({}, Count({}, "writes"))
  BY <1>1, <1>4, EmptyIs
<1>8. c = ConfigSaid({})
  BY <1>2, <1>3, <1>5, <1>6, <1>7, SameConfig
<1> QED BY <1>1, <1>8

\* A line is in range of what is said before it.
InputLevels == {"input", "input_channel"}
WriteLevels == {"write", "write_channel"}
InReach(L, l) ==
  /\ l.at \in InputLevels => l.n \in 1..Count(L, "inputs")
  /\ l.at \in WriteLevels => l.n \in 1..Count(L, "writes")
  /\ l.at = "input_channel" => l.c \in 1..ChannelCount(L, "input", l.n)
  /\ l.at = "write_channel" => l.c \in 1..ChannelCount(L, "write", l.n)

LEMMA ListsAre ==
  ASSUME NEW L, NEW c, c = ConfigSaid(L)
  PROVE  /\ c.inputs = InputsSaid(L, Count(L, "inputs")) /\ c.writes = WritesSaid(L, Count(L, "writes"))
         /\ DOMAIN c.inputs = 1..Count(L, "inputs") /\ DOMAIN c.writes = 1..Count(L, "writes")
         /\ \A n \in DOMAIN c.inputs : /\ c.inputs[n] = InputSaid(L, n)
                                       /\ DOMAIN c.inputs[n].channels = 1..ChannelCount(L, "input", n)
         /\ \A n \in DOMAIN c.writes : /\ c.writes[n] = WriteSaid(L, n)
                                       /\ DOMAIN c.writes[n].channels = 1..ChannelCount(L, "write", n)
<1>1. PICK inputs, writes : inputs = c.inputs /\ writes = c.writes
  OBVIOUS
<1>2. inputs = InputsSaid(L, Count(L, "inputs"))
  BY <1>1, ConfigInputsAre
<1>3. writes = WritesSaid(L, Count(L, "writes"))
  BY <1>1, ConfigWritesAre
<1>4. ASSUME NEW n
      PROVE  DOMAIN InputSaid(L, n).channels = 1..ChannelCount(L, "input", n)
  <2>1. InputSaid(L, n)["channels"] = [k \in 1..ValueSaid(L, "input", n, 0, "channels", 0) |-> ChannelSaid(L, n, k)]
    BY InputFields
  <2> QED BY <2>1 DEF ChannelCount
<1>5. ASSUME NEW n
      PROVE  DOMAIN WriteSaid(L, n).channels = 1..ChannelCount(L, "write", n)
  <2>1. WriteSaid(L, n)["channels"] = WriteChannelsSaid(L, n, ValueSaid(L, "write", n, 0, "channels", 0))
    BY WriteChannelsAre
  <2> QED BY <2>1 DEF ChannelCount, WriteChannelsSaid
<1>6. DOMAIN inputs = 1..Count(L, "inputs") /\ \A n \in DOMAIN inputs : inputs[n] = InputSaid(L, n)
  BY <1>2 DEF InputsSaid
<1>7. DOMAIN writes = 1..Count(L, "writes") /\ \A n \in DOMAIN writes : writes[n] = WriteSaid(L, n)
  BY <1>3 DEF WritesSaid
<1> QED BY <1>1, <1>2, <1>3, <1>4, <1>5, <1>6, <1>7

LEMMA InReachIs ==
  ASSUME NEW L, NEW l, l.at \in Levels
  PROVE  OutOfRange(ConfigSaid(L), l) <=> ~InReach(L, l)
<1>1. PICK c : c = ConfigSaid(L)
  OBVIOUS
<1>2. DOMAIN c.inputs = 1..Count(L, "inputs") /\ DOMAIN c.writes = 1..Count(L, "writes")
  BY <1>1, ListsAre
<1>3. \A n \in DOMAIN c.inputs : DOMAIN c.inputs[n].channels = 1..ChannelCount(L, "input", n)
  BY <1>1, ListsAre
<1>4. \A n \in DOMAIN c.writes : DOMAIN c.writes[n].channels = 1..ChannelCount(L, "write", n)
  BY <1>1, ListsAre
<1>5. CASE l.at = "config"
  BY <1>5 DEF OutOfRange, InReach, InputLevels, WriteLevels
<1>6. CASE l.at \in InputLevels
  BY <1>1, <1>2, <1>3, <1>6 DEF OutOfRange, InReach, InputLevels, WriteLevels, OfInput
<1>7. CASE l.at \in WriteLevels
  BY <1>1, <1>2, <1>4, <1>7 DEF OutOfRange, InReach, InputLevels, WriteLevels, OfInput
<1> QED BY <1>5, <1>6, <1>7 DEF Levels, InputLevels, WriteLevels

\* More lines never take a line out of range.
LEMMA CountGrows ==
  ASSUME NEW L, NEW l, Anew(L, l), NEW at, NEW n, NEW key, NEW k \in 1..ValueSaid(L, at, n, 0, key, 0)
  PROVE  k \in 1..ValueSaid(L \cup {l}, at, n, 0, key, 0)
<1>1. CASE About(l, at, n, 0) /\ l.key = key
  <2>1. Said(L, at, n, 0, key) = {}
    BY <1>1, FirstIs DEF About
  <2>2. ValueSaid(L, at, n, 0, key, 0) = 0
    BY <2>1 DEF ValueSaid, ValueOf
  <2> QED BY <2>2
<1>2. CASE ~(About(l, at, n, 0) /\ l.key = key)
  BY <1>2, SaidBefore
<1> QED BY <1>1, <1>2

LEMMA ReachGrows ==
  ASSUME NEW L, NEW l, Anew(L, l), NEW m, InReach(L, m)
  PROVE  InReach(L \cup {l}, m)
<1>1. m.at \in InputLevels => m.n \in 1..Count(L \cup {l}, "inputs")
  BY CountGrows DEF InReach, Count
<1>2. m.at \in WriteLevels => m.n \in 1..Count(L \cup {l}, "writes")
  BY CountGrows DEF InReach, Count
<1>3. m.at = "input_channel" => m.c \in 1..ChannelCount(L \cup {l}, "input", m.n)
  BY CountGrows DEF InReach, ChannelCount
<1>4. m.at = "write_channel" => m.c \in 1..ChannelCount(L \cup {l}, "write", m.n)
  BY CountGrows DEF InReach, ChannelCount
<1> QED BY <1>1, <1>2, <1>3, <1>4 DEF InReach

\* A line about something else.
LEMMA InputStays ==
  ASSUME NEW L, NEW l, NEW n, l.at \notin InputLevels \/ l.n # n
  PROVE  InputSaid(L \cup {l}, n) = InputSaid(L, n)
<1>1. ~About(l, "input", n, 0) /\ \A c \in Nat : ~About(l, "input_channel", n, c)
  BY DEF About, InputLevels
<1>2. Agree(L \cup {l}, L, "input", n, 0)
  BY <1>1, AgreeUnless
<1>3. ASSUME NEW c \in Nat
      PROVE  Agree(L \cup {l}, L, "input_channel", n, c)
  BY <1>1, AgreeUnless
<1> QED BY <1>2, <1>3, InputsAgree

LEMMA WriteStays ==
  ASSUME NEW L, NEW l, NEW n, l.at \notin WriteLevels \/ l.n # n
  PROVE  WriteSaid(L \cup {l}, n) = WriteSaid(L, n)
<1>1. ~About(l, "write", n, 0) /\ \A c \in Nat : ~About(l, "write_channel", n, c)
  BY DEF About, WriteLevels
<1>2. Agree(L \cup {l}, L, "write", n, 0)
  BY <1>1, AgreeUnless
<1>3. ASSUME NEW c \in Nat
      PROVE  Agree(L \cup {l}, L, "write_channel", n, c)
  BY <1>1, AgreeUnless
<1> QED BY <1>2, <1>3, WritesAgree

LEMMA InputFresh ==
  ASSUME NEW L, NEW n, \A m \in L : m.at \notin InputLevels
  PROVE  InputSaid(L, n) = NewInput
<1>1. Agree(L, {}, "input", n, 0)
  <2>1. \A m \in L : ~About(m, "input", n, 0)
    BY DEF About, InputLevels
  <2> QED BY <2>1, AgreeNothing
<1>2. ASSUME NEW c \in Nat
      PROVE  Agree(L, {}, "input_channel", n, c)
  <2>1. \A m \in L : ~About(m, "input_channel", n, c)
    BY DEF About, InputLevels
  <2> QED BY <2>1, AgreeNothing
<1>3. InputSaid(L, n) = InputSaid({}, n)
  BY <1>1, <1>2, InputsAgree
<1> QED BY <1>3, InputUnsaid

LEMMA WriteFresh ==
  ASSUME NEW L, NEW n, \A m \in L : m.at \notin WriteLevels
  PROVE  WriteSaid(L, n) = NewWrite
<1>1. Agree(L, {}, "write", n, 0)
  <2>1. \A m \in L : ~About(m, "write", n, 0)
    BY DEF About, WriteLevels
  <2> QED BY <2>1, AgreeNothing
<1>2. ASSUME NEW c \in Nat
      PROVE  Agree(L, {}, "write_channel", n, c)
  <2>1. \A m \in L : ~About(m, "write_channel", n, c)
    BY DEF About, WriteLevels
  <2> QED BY <2>1, AgreeNothing
<1>3. WriteSaid(L, n) = WriteSaid({}, n)
  BY <1>1, <1>2, WritesAgree
<1> QED BY <1>3, WriteUnsaid

LEMMA InputsStay ==
  ASSUME NEW L, NEW l, l.at \notin InputLevels, NEW m
  PROVE  InputsSaid(L \cup {l}, m) = InputsSaid(L, m)
<1>1. \A n : InputSaid(L \cup {l}, n) = InputSaid(L, n)
  BY InputStays
<1> QED BY <1>1 DEF InputsSaid

LEMMA WritesStay ==
  ASSUME NEW L, NEW l, l.at \notin WriteLevels, NEW m
  PROVE  WritesSaid(L \cup {l}, m) = WritesSaid(L, m)
<1>1. \A n : WriteSaid(L \cup {l}, n) = WriteSaid(L, n)
  BY WriteStays
<1> QED BY <1>1 DEF WritesSaid

LEMMA CountElse ==
  ASSUME NEW L, NEW l, NEW key, ~(About(l, "config", 0, 0) /\ l.key = key)
  PROVE  Count(L \cup {l}, key) = Count(L, key)
BY SaidBefore DEF Count

LEMMA ConfigSaysElse ==
  ASSUME NEW L, NEW l, NEW key, ~(About(l, "config", 0, 0) /\ l.key = key)
  PROVE  ConfigSays(L \cup {l}, key) = ConfigSays(L, key)
BY SaidBefore DEF ConfigSays

LEMMA ConfigSaysFirst ==
  ASSUME NEW L, NEW l, About(l, "config", 0, 0), Anew(L, l)
  PROVE  /\ ConfigSays(L \cup {l}, l.key) = l.value /\ Count(L \cup {l}, l.key) = l.value
         /\ Count(L, l.key) = 0
<1>1. Said(L, "config", 0, 0, l.key) = {}
  BY FirstIs DEF About
<1>2. \A d : ValueSaid(L \cup {l}, "config", 0, 0, l.key, d) = l.value
  <2>1. Said(L \cup {l}, "config", 0, 0, l.key) = {l}
    BY ZenonT(60), <1>1, SaidFirst
  <2> QED BY <2>1, ValueOfOne DEF ValueSaid
<1>3. Count(L, l.key) = 0
  BY <1>1 DEF Count, ValueSaid, ValueOf
<1> QED BY <1>2, <1>3 DEF ConfigSays, Count

\* What a line of the configuration leaves alone.
LEMMA ConfigElse ==
  ASSUME NEW L, NEW l, About(l, "config", 0, 0), NEW c, c = ConfigSaid(L)
  PROVE  /\ l.key # "inputs" => c["inputs"] = InputsSaid(L \cup {l}, Count(L \cup {l}, "inputs"))
         /\ l.key # "writes" => c["writes"] = WritesSaid(L \cup {l}, Count(L \cup {l}, "writes"))
         /\ l.key \notin RuleKeys => c["rules"] = RulesSaid(L \cup {l}, "config", 0, 0)
         /\ \A key \in ConfigPlain : key # l.key => c[key] = ConfigSays(L \cup {l}, key)
<1>1. l.at \notin InputLevels /\ l.at \notin WriteLevels
  BY DEF About, InputLevels, WriteLevels
<1>2. l.key # "inputs" => c["inputs"] = InputsSaid(L \cup {l}, Count(L \cup {l}, "inputs"))
  BY <1>1, ConfigInputsAre, InputsStay, CountElse
<1>3. l.key # "writes" => c["writes"] = WritesSaid(L \cup {l}, Count(L \cup {l}, "writes"))
  BY <1>1, ConfigWritesAre, WritesStay, CountElse
<1>4. l.key \notin RuleKeys => c["rules"] = RulesSaid(L \cup {l}, "config", 0, 0)
  BY ConfigRulesAre, RulesElse
<1>5. ASSUME NEW key \in ConfigPlain, key # l.key
      PROVE  c[key] = ConfigSays(L \cup {l}, key)
  BY <1>5, ConfigPlainIs, ConfigSaysElse
<1> QED BY <1>2, <1>3, <1>4, <1>5

\* An allocated array is that of entries of which nothing is said.
LEMMA InputsAllocated ==
  ASSUME NEW L, NEW l, l.at = "config", \A m \in L : m.at \notin InputLevels, NEW k,
         NEW s, s = [i \in 1..k |-> NewInput]
  PROVE  s = InputsSaid(L \cup {l}, k)
<1>1. \A m \in L \cup {l} : m.at \notin InputLevels
  BY DEF InputLevels
<1>2. ASSUME NEW n
      PROVE  InputSaid(L \cup {l}, n) = NewInput
  BY <1>1, InputFresh
<1> QED BY <1>2 DEF InputsSaid

LEMMA WritesAllocated ==
  ASSUME NEW L, NEW l, l.at = "config", \A m \in L : m.at \notin WriteLevels, NEW k,
         NEW s, s = [i \in 1..k |-> NewWrite]
  PROVE  s = WritesSaid(L \cup {l}, k)
<1>1. \A m \in L \cup {l} : m.at \notin WriteLevels
  BY DEF WriteLevels
<1>2. ASSUME NEW n
      PROVE  WriteSaid(L \cup {l}, n) = NewWrite
  BY <1>1, WriteFresh
<1> QED BY <1>2 DEF WritesSaid

\* Nothing counted, nothing in reach.
LEMMA NoInputsYet ==
  ASSUME NEW L, Count(L, "inputs") = 0, \A m \in L : InReach(L, m)
  PROVE  \A m \in L : m.at \notin InputLevels
BY DEF InReach

LEMMA NoWritesYet ==
  ASSUME NEW L, Count(L, "writes") = 0, \A m \in L : InReach(L, m)
  PROVE  \A m \in L : m.at \notin WriteLevels
BY DEF InReach

LEMMA ConfigLine ==
  ASSUME NEW L, NEW l, IsLine(l), l.at = "config", Anew(L, l), \A m \in L : InReach(L, m),
         NEW d \in ReadConfigKey(ConfigSaid(L), l)
  PROVE  d = ConfigSaid(L \cup {l})
<1> DEFINE M == L \cup {l}
<1>1. PICK c : c = ConfigSaid(L)
  OBVIOUS
<1>2. /\ About(l, "config", 0, 0)
      /\ l.key \in {"module_count", "module_slave_first", "version", "rtu", "frame_delay_ms", "query_mode",
                    "topic_prefix", "ack", "inputs", "writes"} \cup RuleKeys
  <2>1. l.at = "config" /\ l.n = 0 /\ l.c = 0
    BY DEF IsLine
  <2> QED BY <2>1, KeysOf DEF About
<1>3. c = [key \in ConfigKeys |-> c[key]]
  BY <1>1, ConfigIs
<1>4. l.key # "inputs" => c["inputs"] = InputsSaid(M, Count(M, "inputs"))
  BY <1>1, <1>2, ConfigElse
<1>5. l.key # "writes" => c["writes"] = WritesSaid(M, Count(M, "writes"))
  BY <1>1, <1>2, ConfigElse
<1>6. l.key \notin RuleKeys => c["rules"] = RulesSaid(M, "config", 0, 0)
  BY <1>1, <1>2, ConfigElse
<1>7. ASSUME NEW key \in ConfigPlain, key # l.key
      PROVE  c[key] = ConfigSays(M, key)
  BY SMTT(30), <1>1, <1>2, <1>7, ConfigElse
<1>8. ConfigSays(M, l.key) = l.value /\ Count(M, l.key) = l.value /\ Count(L, l.key) = 0
  BY <1>2, ConfigSaysFirst
<1>9. l.key \in ConfigPlain \/ l.key = "inputs" \/ l.key = "writes" \/ l.key \in RuleKeys
  BY <1>2 DEF ConfigPlain
<1>10. CASE l.key \in ConfigPlain
  <2>1. l.key \notin {"inputs", "writes"} \cup RuleKeys
    BY <1>10 DEF ConfigPlain, RuleKeys
  <2>2. d = [c EXCEPT ![l.key] = l.value]
    BY <1>1, <1>3, <1>10, <2>1 DEF ReadConfigKey, ConfigPlain, ConfigKeys, Stored
  <2>3. /\ d = [key \in ConfigKeys |-> d[key]] /\ d["rules"] = c["rules"]
        /\ d["inputs"] = c["inputs"] /\ d["writes"] = c["writes"]
    BY <1>3, <1>10, <2>2 DEF ConfigKeys, ConfigPlain
  <2>4. ASSUME NEW key \in ConfigPlain
        PROVE  d[key] = ConfigSays(M, key)
    <3>1. d[key] = IF key = l.key THEN l.value ELSE c[key]
      BY <1>3, <2>2 DEF ConfigKeys
    <3> QED BY <1>7, <1>8, <3>1
  <2>5. d["rules"] = RulesSaid(M, "config", 0, 0)
    BY <1>6, <2>1, <2>3
  <2>6. d["inputs"] = InputsSaid(M, Count(M, "inputs")) /\ d["writes"] = WritesSaid(M, Count(M, "writes"))
    BY <1>4, <1>5, <2>1, <2>3
  <2> QED BY <2>3, <2>4, <2>5, <2>6, SameConfig
<1>11. CASE l.key \in RuleKeys
  <2>1. l.key \notin {"inputs", "writes"} \cup ConfigPlain
    BY <1>11 DEF ConfigPlain, RuleKeys
  <2>2. d = [c EXCEPT !["rules"] = [c["rules"] EXCEPT ![l.key] = l.value]]
    BY <1>1, <1>3, <1>11 DEF ReadConfigKey, RuleKeys, ConfigKeys, StoredRule
  <2>3. /\ d = [key \in ConfigKeys |-> d[key]] /\ d["rules"] = [c["rules"] EXCEPT ![l.key] = l.value]
        /\ d["inputs"] = c["inputs"] /\ d["writes"] = c["writes"]
        /\ \A key \in ConfigPlain : d[key] = c[key]
    BY <1>3, <2>2 DEF ConfigKeys, ConfigPlain
  <2>4. ASSUME NEW key \in ConfigPlain
        PROVE  d[key] = ConfigSays(M, key)
    BY <1>7, <2>1, <2>3
  <2>5. d["rules"] = RulesSaid(M, "config", 0, 0)
    <3>1. c["rules"] = RulesSaid(L, "config", 0, 0)
      BY <1>1, ConfigRulesAre
    <3> QED BY <1>2, <1>11, <2>3, <3>1, RuleSaidFirst
  <2>6. d["inputs"] = InputsSaid(M, Count(M, "inputs")) /\ d["writes"] = WritesSaid(M, Count(M, "writes"))
    BY <1>4, <1>5, <2>1, <2>3
  <2> QED BY <2>3, <2>4, <2>5, <2>6, SameConfig
<1>12. CASE l.key = "inputs"
  <2>1. PICK s \in Allocated(c["inputs"], l, InputWriteMax, NewInput) : d = [c EXCEPT !["inputs"] = s]
    BY <1>1, <1>3, <1>12 DEF ReadConfigKey, RuleKeys, ConfigKeys
  <2>2. s = [i \in 1..l.value |-> NewInput]
    BY <2>1 DEF Allocated
  <2>3. s = InputsSaid(M, Count(M, "inputs"))
    <3>1. \A m \in L : m.at \notin InputLevels
      BY <1>8, <1>12, NoInputsYet
    <3>2. s = InputsSaid(M, l.value)
      BY ZenonT(60), <2>2, <3>1, InputsAllocated
    <3> QED BY <1>8, <1>12, <3>2
  <2>4. /\ d = [key \in ConfigKeys |-> d[key]] /\ d["inputs"] = s
        /\ d["rules"] = c["rules"] /\ d["writes"] = c["writes"]
        /\ \A key \in ConfigPlain : d[key] = c[key]
    BY <1>3, <2>1 DEF ConfigKeys, ConfigPlain
  <2>5. l.key \notin RuleKeys \cup ConfigPlain
    BY <1>12 DEF RuleKeys, ConfigPlain
  <2>6. ASSUME NEW key \in ConfigPlain
        PROVE  d[key] = ConfigSays(M, key)
    BY <1>7, <2>4, <2>5
  <2>7. d["rules"] = RulesSaid(M, "config", 0, 0)
    BY <1>6, <2>4, <2>5
  <2>8. d["inputs"] = InputsSaid(M, Count(M, "inputs")) /\ d["writes"] = WritesSaid(M, Count(M, "writes"))
    BY <1>5, <1>12, <2>3, <2>4
  <2> QED BY <2>4, <2>6, <2>7, <2>8, SameConfig
<1>13. CASE l.key = "writes"
  <2>1. PICK s \in Allocated(c["writes"], l, InputWriteMax, NewWrite) : d = [c EXCEPT !["writes"] = s]
    BY <1>1, <1>3, <1>13 DEF ReadConfigKey, RuleKeys, ConfigKeys
  <2>2. s = [i \in 1..l.value |-> NewWrite]
    BY <2>1 DEF Allocated
  <2>3. s = WritesSaid(M, Count(M, "writes"))
    <3>1. \A m \in L : m.at \notin WriteLevels
      BY <1>8, <1>13, NoWritesYet
    <3>2. s = WritesSaid(M, l.value)
      BY ZenonT(60), <2>2, <3>1, WritesAllocated
    <3> QED BY <1>8, <1>13, <3>2
  <2>4. /\ d = [key \in ConfigKeys |-> d[key]] /\ d["writes"] = s
        /\ d["rules"] = c["rules"] /\ d["inputs"] = c["inputs"]
        /\ \A key \in ConfigPlain : d[key] = c[key]
    BY <1>3, <2>1 DEF ConfigKeys, ConfigPlain
  <2>5. l.key \notin RuleKeys \cup ConfigPlain
    BY <1>13 DEF RuleKeys, ConfigPlain
  <2>6. ASSUME NEW key \in ConfigPlain
        PROVE  d[key] = ConfigSays(M, key)
    BY <1>7, <2>4, <2>5
  <2>7. d["rules"] = RulesSaid(M, "config", 0, 0)
    BY <1>6, <2>4, <2>5
  <2>8. d["inputs"] = InputsSaid(M, Count(M, "inputs")) /\ d["writes"] = WritesSaid(M, Count(M, "writes"))
    BY <1>4, <1>13, <2>3, <2>4
  <2> QED BY <2>4, <2>6, <2>7, <2>8, SameConfig
<1> QED BY <1>9, <1>10, <1>11, <1>12, <1>13

LEMMA ChannelsCounted ==
  ASSUME NEW L, NEW n
  PROVE  /\ DOMAIN InputSaid(L, n)["channels"] = 1..ChannelCount(L, "input", n)
         /\ DOMAIN WriteSaid(L, n)["channels"] = 1..ChannelCount(L, "write", n)
<1>1. InputSaid(L, n)["channels"] = [c \in 1..ValueSaid(L, "input", n, 0, "channels", 0) |-> ChannelSaid(L, n, c)]
  BY InputFields
<1>2. WriteSaid(L, n)["channels"] = WriteChannelsSaid(L, n, ValueSaid(L, "write", n, 0, "channels", 0))
  BY WriteChannelsAre
<1> QED BY <1>1, <1>2 DEF ChannelCount, WriteChannelsSaid

LEMMA InputReadIs ==
  ASSUME NEW L, NEW l, IsLine(l), l.at \in InputLevels, Anew(L, l), InReach(L, l), \A m \in L : InReach(L, m),
         NEW n, n = l.n, NEW c, c = l.c, NEW e, e = InputSaid(L, n), NEW d \in ReadInput(e, l)
  PROVE  d = InputSaid(L \cup {l}, n)
<1>1. DOMAIN e["channels"] = 1..ChannelCount(L, "input", n)
  BY ChannelsCounted
<1>2. CASE l.at = "input"
  <2>1. About(l, "input", n, 0)
    BY <1>2 DEF IsLine, About
  <2>2. ASSUME NEW m \in L, m.at = "input_channel", m.n = n
        PROVE  m.c \in DOMAIN InputSaid(L, n)["channels"]
    BY <1>1, <2>2 DEF InReach
  <2>3. d \in ReadInputKey(InputSaid(L, n), l)
    BY <1>2 DEF ReadInput
  <2> QED BY <2>1, <2>2, <2>3, InputLine
<1>3. CASE l.at = "input_channel"
  <2>1. About(l, "input_channel", n, c)
    BY <1>3 DEF About
  <2>2. c \in DOMAIN e["channels"]
    BY <1>1, <1>3 DEF InReach
  <2>3. PICK ch \in ReadChannelKey(e["channels"][c], l) : d = WithChannel(e, c, ch)
    BY <1>3 DEF ReadInput, WithChannel
  <2> QED BY <2>1, <2>2, <2>3, InputChannelLine
<1> QED BY <1>2, <1>3 DEF InputLevels

LEMMA InputEntryLine ==
  ASSUME NEW L, NEW l, IsLine(l), l.at \in InputLevels, Anew(L, l), InReach(L, l), \A m \in L : InReach(L, m),
         NEW e \in ReadInput(ConfigSaid(L)["inputs"][l.n], l)
  PROVE  [ConfigSaid(L) EXCEPT !["inputs"][l.n] = e] = ConfigSaid(L \cup {l})
<1> DEFINE M == L \cup {l}
<1>1. PICK c, d : c = ConfigSaid(L) /\ d = [c EXCEPT !["inputs"][l.n] = e]
  OBVIOUS
<1>2. c["inputs"] = InputsSaid(L, Count(L, "inputs")) /\ l.n \in 1..Count(L, "inputs")
  BY <1>1, ConfigInputsAre DEF InReach
<1>3. e = InputSaid(M, l.n)
  <2>1. c["inputs"][l.n] = InputSaid(L, l.n)
    BY <1>2 DEF InputsSaid
  <2>2. e \in ReadInput(InputSaid(L, l.n), l)
    BY <1>1, <2>1
  <2> QED BY <2>2, InputReadIs
<1>4. ~About(l, "config", 0, 0)
  BY DEF About, InputLevels
<1>5. c = [key \in ConfigKeys |-> c[key]]
  BY <1>1, ConfigIs
<1>6. /\ d = [key \in ConfigKeys |-> d[key]] /\ d["inputs"] = [c["inputs"] EXCEPT ![l.n] = e]
      /\ \A key \in ConfigKeys \ {"inputs"} : d[key] = c[key]
  BY <1>1, <1>5 DEF ConfigKeys
<1>7. d["inputs"] = InputsSaid(M, Count(M, "inputs"))
  <2>1. \A n : n # l.n => InputSaid(M, n) = InputSaid(L, n)
    BY InputStays
  <2>2. Count(M, "inputs") = Count(L, "inputs")
    BY <1>4, CountElse
  <2>3. d["inputs"] = InputsSaid(M, Count(L, "inputs"))
    BY ZenonT(60), <1>2, <1>3, <1>6, <2>1 DEF InputsSaid
  <2> QED BY <2>2, <2>3
<1>8. d["writes"] = WritesSaid(M, Count(M, "writes"))
  <2>1. l.at \notin WriteLevels
    BY DEF InputLevels, WriteLevels
  <2>2. Count(M, "writes") = Count(L, "writes")
    BY <1>4, CountElse
  <2>3. d["writes"] = WritesSaid(L, Count(L, "writes"))
    BY <1>1, <1>6, ConfigWritesAre DEF ConfigKeys
  <2>4. WritesSaid(M, Count(L, "writes")) = WritesSaid(L, Count(L, "writes"))
    BY <2>1, WritesStay
  <2> QED BY <2>2, <2>3, <2>4
<1>9. d["rules"] = RulesSaid(M, "config", 0, 0)
  <2>1. c["rules"] = RulesSaid(L, "config", 0, 0)
    BY <1>1, ConfigRulesAre
  <2>2. RulesSaid(M, "config", 0, 0) = RulesSaid(L, "config", 0, 0)
    BY <1>4, RulesElse
  <2> QED BY <1>6, <2>1, <2>2 DEF ConfigKeys
<1>10. ASSUME NEW key \in ConfigPlain
       PROVE  d[key] = ConfigSays(M, key)
  <2>1. c[key] = ConfigSays(L, key)
    BY <1>1, ConfigPlainIs
  <2>2. ConfigSays(M, key) = ConfigSays(L, key)
    BY <1>4, ConfigSaysElse
  <2>3. key \in ConfigKeys \ {"inputs"}
    BY DEF ConfigKeys, ConfigPlain
  <2> QED BY <1>6, <2>1, <2>2, <2>3
<1>11. d = ConfigSaid(M)
  BY SMTT(30), <1>6, <1>7, <1>8, <1>9, <1>10, SameConfig
<1> QED BY <1>1, <1>11

LEMMA WriteReadIs ==
  ASSUME NEW L, NEW l, IsLine(l), l.at \in WriteLevels, Anew(L, l), InReach(L, l), \A m \in L : InReach(L, m),
         NEW n, n = l.n, NEW c, c = l.c, NEW e, e = WriteSaid(L, n), NEW d \in ReadWrite(e, l)
  PROVE  d = WriteSaid(L \cup {l}, n)
<1>1. DOMAIN e["channels"] = 1..ChannelCount(L, "write", n)
  BY ChannelsCounted
<1>2. CASE l.at = "write"
  <2>1. About(l, "write", n, 0)
    BY <1>2 DEF IsLine, About
  <2>2. ASSUME NEW m \in L, m.at = "write_channel", m.n = n
        PROVE  m.c \in DOMAIN WriteSaid(L, n)["channels"]
    BY <1>1, <2>2 DEF InReach
  <2>3. d \in ReadWriteKey(WriteSaid(L, n), l)
    BY <1>2 DEF ReadWrite
  <2> QED BY <2>1, <2>2, <2>3, WriteLine
<1>3. CASE l.at = "write_channel"
  <2>1. About(l, "write_channel", n, c)
    BY <1>3 DEF About
  <2>2. c \in DOMAIN e["channels"]
    BY <1>1, <1>3 DEF InReach
  <2>3. PICK ch \in ReadWriteChannelKey(e["channels"][c], l) : d = WithChannel(e, c, ch)
    BY <1>3 DEF ReadWrite, WithChannel
  <2> QED BY <2>1, <2>2, <2>3, ChannelOfWriteLine
<1> QED BY <1>2, <1>3 DEF WriteLevels

LEMMA WriteEntryLine ==
  ASSUME NEW L, NEW l, IsLine(l), l.at \in WriteLevels, Anew(L, l), InReach(L, l), \A m \in L : InReach(L, m),
         NEW e \in ReadWrite(ConfigSaid(L)["writes"][l.n], l)
  PROVE  [ConfigSaid(L) EXCEPT !["writes"][l.n] = e] = ConfigSaid(L \cup {l})
<1> DEFINE M == L \cup {l}
<1>1. PICK c, d : c = ConfigSaid(L) /\ d = [c EXCEPT !["writes"][l.n] = e]
  OBVIOUS
<1>2. c["writes"] = WritesSaid(L, Count(L, "writes")) /\ l.n \in 1..Count(L, "writes")
  BY <1>1, ConfigWritesAre DEF InReach
<1>3. e = WriteSaid(M, l.n)
  <2>1. c["writes"][l.n] = WriteSaid(L, l.n)
    BY <1>2 DEF WritesSaid
  <2>2. e \in ReadWrite(WriteSaid(L, l.n), l)
    BY <1>1, <2>1
  <2> QED BY <2>2, WriteReadIs
<1>4. ~About(l, "config", 0, 0)
  BY DEF About, WriteLevels
<1>5. c = [key \in ConfigKeys |-> c[key]]
  BY <1>1, ConfigIs
<1>6. /\ d = [key \in ConfigKeys |-> d[key]] /\ d["writes"] = [c["writes"] EXCEPT ![l.n] = e]
      /\ \A key \in ConfigKeys \ {"writes"} : d[key] = c[key]
  BY <1>1, <1>5 DEF ConfigKeys
<1>7. d["writes"] = WritesSaid(M, Count(M, "writes"))
  <2>1. \A n : n # l.n => WriteSaid(M, n) = WriteSaid(L, n)
    BY WriteStays
  <2>2. Count(M, "writes") = Count(L, "writes")
    BY <1>4, CountElse
  <2>3. d["writes"] = WritesSaid(M, Count(L, "writes"))
    BY ZenonT(60), <1>2, <1>3, <1>6, <2>1 DEF WritesSaid
  <2> QED BY <2>2, <2>3
<1>8. d["inputs"] = InputsSaid(M, Count(M, "inputs"))
  <2>1. l.at \notin InputLevels
    BY DEF InputLevels, WriteLevels
  <2>2. Count(M, "inputs") = Count(L, "inputs")
    BY <1>4, CountElse
  <2>3. d["inputs"] = InputsSaid(L, Count(L, "inputs"))
    BY <1>1, <1>6, ConfigInputsAre DEF ConfigKeys
  <2>4. InputsSaid(M, Count(L, "inputs")) = InputsSaid(L, Count(L, "inputs"))
    BY <2>1, InputsStay
  <2> QED BY <2>2, <2>3, <2>4
<1>9. d["rules"] = RulesSaid(M, "config", 0, 0)
  <2>1. c["rules"] = RulesSaid(L, "config", 0, 0)
    BY <1>1, ConfigRulesAre
  <2>2. RulesSaid(M, "config", 0, 0) = RulesSaid(L, "config", 0, 0)
    BY <1>4, RulesElse
  <2> QED BY <1>6, <2>1, <2>2 DEF ConfigKeys
<1>10. ASSUME NEW key \in ConfigPlain
       PROVE  d[key] = ConfigSays(M, key)
  <2>1. c[key] = ConfigSays(L, key)
    BY <1>1, ConfigPlainIs
  <2>2. ConfigSays(M, key) = ConfigSays(L, key)
    BY <1>4, ConfigSaysElse
  <2>3. key \in ConfigKeys \ {"writes"}
    BY DEF ConfigKeys, ConfigPlain
  <2> QED BY <1>6, <2>1, <2>2, <2>3
<1>11. d = ConfigSaid(M)
  BY SMTT(30), <1>6, <1>7, <1>8, <1>9, <1>10, SameConfig
<1> QED BY <1>1, <1>11

-----------------------------------------------------------------------------
\* Whether a line is acceptable depends on nothing before it that it may follow.
ConfigBad(l) ==
  \/ l.key \in {"inputs", "writes"} /\ l.value \notin 0..InputWriteMax
  \/ l.key = "module_count" /\ l.value \notin 0..SlaveMax
  \/ l.key = "module_slave_first" /\ l.value \notin 1..SlaveMax
InputBad(l) == l.key = "channels" /\ l.value \notin 1..100
ChannelBad(l) == l.key \in {"length", "nregisters"} /\ ~LengthTaken(l)
WriteBad(l) ==
  \/ l.key = "type" /\ l.value \notin {"coil", "holding_register"}
  \/ l.key = "format" /\ l.value \in Texts
  \/ l.key = "channels" /\ l.value \notin 1..BlockMax

LEMMA AllocatedEmpty ==
  ASSUME NEW l, NEW max, NEW new
  PROVE  Allocated(<<>>, l, max, new) = {} <=> l.value \notin 0..max
BY DEF Allocated

LEMMA AllocatedNone ==
  ASSUME NEW l, l.value \in Int, NEW max \in Nat, NEW new
  PROVE  Allocated(<<>>, l, max, new) \ {<<>>} = {} <=> l.value \notin 1..max
<1>1. PICK s : s = [i \in 1..l.value |-> new]
  OBVIOUS
<1>2. CASE l.value \notin 0..max
  <2>1. Allocated(<<>>, l, max, new) = {} /\ l.value \notin 1..max
    BY <1>2 DEF Allocated
  <2> QED BY <2>1
<1>3. CASE l.value \in 1..max
  <2>1. Allocated(<<>>, l, max, new) = {s} /\ DOMAIN s = 1..l.value /\ 1 \in 1..l.value
    BY <1>1, <1>3 DEF Allocated
  <2>2. s # <<>>
    BY <2>1
  <2> QED BY <1>3, <2>1, <2>2
<1>4. CASE l.value = 0
  <2>1. Allocated(<<>>, l, max, new) = {s} /\ s = <<>>
    BY <1>1, <1>4 DEF Allocated
  <2> QED BY <1>4, <2>1
<1> QED BY <1>2, <1>3, <1>4

LEMMA ConfigRefused ==
  ASSUME NEW c, NEW l, l.key = "inputs" => c.inputs = <<>>, l.key = "writes" => c.writes = <<>>
  PROVE  ReadConfigKey(c, l) = {} <=> ConfigBad(l)
<1>1. CASE l.key = "inputs"
  <2>1. ReadConfigKey(c, l) = {} <=> Allocated(<<>>, l, InputWriteMax, NewInput) = {}
    BY <1>1 DEF ReadConfigKey, RuleKeys
  <2> QED BY <1>1, <2>1, AllocatedEmpty DEF ConfigBad
<1>2. CASE l.key = "writes"
  <2>1. ReadConfigKey(c, l) = {} <=> Allocated(<<>>, l, InputWriteMax, NewWrite) = {}
    BY <1>2 DEF ReadConfigKey, RuleKeys
  <2> QED BY <1>2, <2>1, AllocatedEmpty DEF ConfigBad
<1>3. CASE l.key = "module_count"
  BY <1>3 DEF ReadConfigKey, RuleKeys, ConfigBad
<1>4. CASE l.key = "module_slave_first"
  BY <1>4 DEF ReadConfigKey, RuleKeys, ConfigBad
<1>5. CASE l.key \in RuleKeys
  BY <1>5 DEF ReadConfigKey, RuleKeys, ConfigBad
<1>6. CASE l.key \notin {"inputs", "writes", "module_count", "module_slave_first"} \cup RuleKeys
  BY <1>6 DEF ReadConfigKey, RuleKeys, ConfigBad
<1> QED BY <1>1, <1>2, <1>3, <1>4, <1>5, <1>6

LEMMA InputRefused ==
  ASSUME NEW e, NEW l, IsLine(l), l.key = "channels" => e.channels = <<>>
  PROVE  ReadInputKey(e, l) = {} <=> InputBad(l)
<1>1. CASE l.key = "channels"
  <2>1. ReadInputKey(e, l) = {} <=> Allocated(<<>>, l, 100, NewChannel) \ {<<>>} = {}
    BY ZenonT(60), <1>1 DEF ReadInputKey, RuleKeys
  <2>2. l.value \in Int
    BY <1>1, ValueTypes
  <2> QED BY ZenonT(60), <1>1, <2>1, <2>2, AllocatedNone DEF InputBad
<1>2. CASE l.key # "channels"
  BY <1>2 DEF ReadInputKey, RuleKeys, InputBad
<1> QED BY <1>1, <1>2

LEMMA ChannelRefused ==
  ASSUME NEW ch, NEW l
  PROVE  ReadChannelKey(ch, l) = {} <=> ChannelBad(l)
BY DEF ReadChannelKey, RuleKeys, ChannelBad

LEMMA WriteRefused ==
  ASSUME NEW w, NEW l, IsLine(l), l.key = "channels" => w.channels = <<>>
  PROVE  ReadWriteKey(w, l) = {} <=> WriteBad(l)
<1>1. CASE l.key = "channels"
  <2>1. ReadWriteKey(w, l) = {} <=> Allocated(<<>>, l, BlockMax, NewWriteChannel) \ {<<>>} = {}
    BY <1>1 DEF ReadWriteKey
  <2>2. l.value \in Int /\ BlockMax \in Nat
    BY <1>1, ValueTypes, ConfigAssumption
  <2> QED BY <1>1, <2>1, <2>2, AllocatedNone DEF WriteBad
<1>2. CASE l.key # "channels"
  BY <1>2 DEF ReadWriteKey, WriteBad
<1> QED BY <1>1, <1>2

LEMMA WriteChannelRefused ==
  ASSUME NEW ch, NEW l
  PROVE  ReadWriteChannelKey(ch, l) # {}
BY DEF ReadWriteChannelKey

Bad(l) ==
  \/ ~Takes(l)
  \/ l.at = "config" /\ ConfigBad(l)
  \/ l.at = "input" /\ InputBad(l)
  \/ l.at = "input_channel" /\ ChannelBad(l)
  \/ l.at = "write" /\ WriteBad(l)

LEMMA UnacceptableIs ==
  ASSUME NEW l, IsLine(l)
  PROVE  Unacceptable(l) <=> Bad(l)
<1>1. Empty.inputs = <<>> /\ Empty.writes = <<>> /\ NewInput.channels = <<>> /\ NewWrite.channels = <<>>
  BY DEF Empty, NewInput, NewWrite
<1>2. CASE l.at = "config"
  <2>1. ReadConfigKey(Empty, l) = {} <=> ConfigBad(l)
    BY <1>1, ConfigRefused
  <2> QED BY <1>2, <2>1 DEF Unacceptable, Bad
<1>3. CASE l.at = "input"
  <2>1. ReadInputKey(NewInput, l) = {} <=> InputBad(l)
    BY <1>1, InputRefused
  <2> QED BY <1>3, <2>1 DEF Unacceptable, Bad
<1>4. CASE l.at = "input_channel"
  BY <1>4, ChannelRefused DEF Unacceptable, Bad
<1>5. CASE l.at = "write"
  <2>1. ReadWriteKey(NewWrite, l) = {} <=> WriteBad(l)
    BY <1>1, WriteRefused
  <2> QED BY <1>5, <2>1 DEF Unacceptable, Bad
<1>6. CASE l.at = "write_channel"
  BY <1>6, WriteChannelRefused DEF Unacceptable, Bad
<1> QED BY <1>2, <1>3, <1>4, <1>5, <1>6, LevelsAre

\* A list that no line counted yet is still empty.
LEMMA NoListYet ==
  ASSUME NEW L, NEW l, l.at = "config", l.n = 0, l.c = 0, Anew(L, l), NEW c, c = ConfigSaid(L)
  PROVE  (l.key = "inputs" => c.inputs = <<>>) /\ (l.key = "writes" => c.writes = <<>>)
<1>1. Count(L, l.key) = 0
  BY ConfigSaysFirst DEF About
<1>2. InputsSaid(L, 0) = <<>> /\ WritesSaid(L, 0) = <<>>
  BY DEF InputsSaid, WritesSaid
<1>3. c["inputs"] = InputsSaid(L, Count(L, "inputs")) /\ c["writes"] = WritesSaid(L, Count(L, "writes"))
  BY ConfigInputsAre, ConfigWritesAre
<1> QED BY <1>1, <1>2, <1>3

LEMMA NoChannelsYet ==
  ASSUME NEW L, NEW l, Anew(L, l), l.c = 0, l.key = "channels", NEW n, n = l.n
  PROVE  /\ l.at = "input" => InputSaid(L, n)["channels"] = <<>>
         /\ l.at = "write" => WriteSaid(L, n)["channels"] = <<>>
<1>1. Said(L, l.at, n, 0, "channels") = {}
  BY FirstIs
<1>2. ValueSaid(L, l.at, n, 0, "channels", 0) = 0
  BY <1>1 DEF ValueSaid, ValueOf
<1>3. InputSaid(L, n)["channels"] = [c \in 1..ValueSaid(L, "input", n, 0, "channels", 0) |-> ChannelSaid(L, n, c)]
  BY InputFields
<1>4. WriteSaid(L, n)["channels"] = WriteChannelsSaid(L, n, ValueSaid(L, "write", n, 0, "channels", 0))
  BY WriteChannelsAre
<1>5. WriteChannelsSaid(L, n, 0) = <<>> /\ [c \in 1..0 |-> ChannelSaid(L, n, c)] = <<>>
  BY DEF WriteChannelsSaid
<1> QED BY <1>2, <1>3, <1>4, <1>5

LEMMA EntriesReached ==
  ASSUME NEW L, NEW l, InReach(L, l), NEW c, c = ConfigSaid(L)
  PROVE  /\ l.at \in InputLevels => c["inputs"][l.n] = InputSaid(L, l.n)
         /\ l.at \in WriteLevels => c["writes"][l.n] = WriteSaid(L, l.n)
<1>1. ASSUME l.at \in InputLevels
      PROVE  c["inputs"][l.n] = InputSaid(L, l.n)
  <2>1. c["inputs"] = InputsSaid(L, Count(L, "inputs")) /\ l.n \in 1..Count(L, "inputs")
    BY <1>1, ConfigInputsAre DEF InReach
  <2> QED BY <2>1 DEF InputsSaid
<1>2. ASSUME l.at \in WriteLevels
      PROVE  c["writes"][l.n] = WriteSaid(L, l.n)
  <2>1. c["writes"] = WritesSaid(L, Count(L, "writes")) /\ l.n \in 1..Count(L, "writes")
    BY <1>2, ConfigWritesAre DEF InReach
  <2> QED BY <2>1 DEF WritesSaid
<1> QED BY <1>1, <1>2

\* A line in reach is refused exactly when it is unacceptable...
LEMMA LineRefused ==
  ASSUME NEW L, NEW l, IsLine(l), Anew(L, l), InReach(L, l)
  PROVE  Read(ConfigSaid(L), l) = {} <=> Unacceptable(l)
<1>1. PICK c : c = ConfigSaid(L)
  OBVIOUS
<1>2. ~OutOfRange(c, l)
  BY <1>1, InReachIs DEF IsLine
<1>3. /\ l.at = "config" => l.n = 0 /\ l.c = 0
      /\ l.at \in {"input", "write"} => l.c = 0
  BY DEF IsLine
<1>4. CASE ~Takes(l)
  <2>1. Read(c, l) = {}
    BY <1>2, <1>4 DEF Read
  <2> QED BY <1>1, <1>4, <2>1 DEF Unacceptable
<1>5. CASE Takes(l) /\ l.at = "config"
  <2>1. Read(c, l) = ReadConfigKey(c, l)
    BY <1>2, <1>5 DEF Read
  <2>2. (l.key = "inputs" => c.inputs = <<>>) /\ (l.key = "writes" => c.writes = <<>>)
    BY <1>1, <1>3, <1>5, NoListYet
  <2>3. ReadConfigKey(c, l) = {} <=> ConfigBad(l)
    BY <2>2, ConfigRefused
  <2> QED BY <1>1, <1>5, <2>1, <2>3, UnacceptableIs DEF Bad
<1>6. CASE Takes(l) /\ l.at \in InputLevels
  <2>1. PICK e : e = c["inputs"][l.n]
    OBVIOUS
  <2>2. e = InputSaid(L, l.n)
    BY <1>1, <1>6, <2>1, EntriesReached
  <2>3. Read(c, l) = {[c EXCEPT !.inputs[l.n] = d] : d \in ReadInput(e, l)}
    BY <1>2, <1>6, <2>1 DEF Read, OfInput, InputLevels
  <2>4. Read(c, l) = {} <=> ReadInput(e, l) = {}
    BY <2>3
  <2>5. CASE l.at = "input"
    <3>1. l.key = "channels" => e.channels = <<>>
      BY <1>3, <2>2, <2>5, NoChannelsYet
    <3>2. ReadInputKey(e, l) = {} <=> InputBad(l)
      BY <3>1, InputRefused
    <3> QED BY <1>1, <1>6, <2>4, <2>5, <3>2, UnacceptableIs DEF Bad, ReadInput
  <2>6. CASE l.at = "input_channel"
    <3>1. ReadInput(e, l) = {[e EXCEPT !.channels[l.c] = ch] : ch \in ReadChannelKey(e.channels[l.c], l)}
      BY <2>6 DEF ReadInput
    <3>2. ReadInput(e, l) = {} <=> ReadChannelKey(e.channels[l.c], l) = {}
      BY <3>1
    <3> QED BY <1>1, <1>6, <2>4, <2>6, <3>2, ChannelRefused, UnacceptableIs DEF Bad
  <2> QED BY <1>6, <2>5, <2>6 DEF InputLevels
<1>7. CASE Takes(l) /\ l.at \in WriteLevels
  <2>1. PICK w : w = c["writes"][l.n]
    OBVIOUS
  <2>2. w = WriteSaid(L, l.n)
    BY <1>1, <1>7, <2>1, EntriesReached
  <2>3. Read(c, l) = {[c EXCEPT !.writes[l.n] = d] : d \in ReadWrite(w, l)}
    BY <1>2, <1>7, <2>1 DEF Read, OfInput, WriteLevels
  <2>4. Read(c, l) = {} <=> ReadWrite(w, l) = {}
    BY <2>3
  <2>5. CASE l.at = "write"
    <3>1. l.key = "channels" => w.channels = <<>>
      BY <1>3, <2>2, <2>5, NoChannelsYet
    <3>2. ReadWriteKey(w, l) = {} <=> WriteBad(l)
      BY <3>1, WriteRefused
    <3> QED BY <1>1, <1>7, <2>4, <2>5, <3>2, UnacceptableIs DEF Bad, ReadWrite
  <2>6. CASE l.at = "write_channel"
    <3>1. ReadWrite(w, l) = {[w EXCEPT !.channels[l.c] = ch] : ch \in ReadWriteChannelKey(w.channels[l.c], l)}
      BY <2>6 DEF ReadWrite
    <3>2. ReadWrite(w, l) # {}
      <4>1. PICK ch : ch \in ReadWriteChannelKey(w.channels[l.c], l)
        BY WriteChannelRefused
      <4> QED BY <3>1, <4>1
    <3> QED BY <1>1, <1>7, <2>4, <2>6, <3>2, UnacceptableIs DEF Bad
  <2> QED BY <1>7, <2>5, <2>6 DEF WriteLevels
<1> QED BY <1>4, <1>5, <1>6, <1>7, LevelsAre DEF InputLevels, WriteLevels

\* ...and else it leaves what the lines say together.
LEMMA LineRead ==
  ASSUME NEW L, NEW l, IsLine(l), Anew(L, l), InReach(L, l), \A m \in L : InReach(L, m),
         NEW d \in Read(ConfigSaid(L), l)
  PROVE  d = ConfigSaid(L \cup {l})
<1>1. PICK c : c = ConfigSaid(L)
  OBVIOUS
<1>2. ~OutOfRange(c, l)
  BY <1>1, InReachIs DEF IsLine
<1>3. CASE l.at = "config"
  <2>1. d \in ReadConfigKey(c, l)
    BY <1>1, <1>2, <1>3 DEF Read
  <2> QED BY <1>1, <1>3, <2>1, ConfigLine
<1>4. CASE l.at \in InputLevels
  <2>1. PICK e \in ReadInput(c["inputs"][l.n], l) : d = [c EXCEPT !["inputs"][l.n] = e]
    BY <1>1, <1>2, <1>4 DEF Read, OfInput, InputLevels
  <2>2. [c EXCEPT !["inputs"][l.n] = e] = ConfigSaid(L \cup {l})
    BY <1>1, <1>4, InputEntryLine
  <2> QED BY <2>1, <2>2
<1>5. CASE l.at \in WriteLevels
  <2>1. PICK w \in ReadWrite(c["writes"][l.n], l) : d = [c EXCEPT !["writes"][l.n] = w]
    BY <1>1, <1>2, <1>5 DEF Read, OfInput, WriteLevels
  <2>2. [c EXCEPT !["writes"][l.n] = w] = ConfigSaid(L \cup {l})
    BY <1>1, <1>5, WriteEntryLine
  <2> QED BY <2>1, <2>2
<1> QED BY <1>3, <1>4, <1>5, LevelsAre DEF InputLevels, WriteLevels

-----------------------------------------------------------------------------
(***************************************************************************)
(* As long as the file is read, what is kept is what the lines read say.   *)
(***************************************************************************)
LEMMA OverriddenSays ==
  ASSUME NEW f, IsFile(f), NEW l, IsLine(l), NEW x, x = Overridden(f, l)
  PROVE  x.at = l.at /\ x.n = l.n /\ x.c = l.c /\ x.key = l.key
BY OverriddenIs DEF SameKey

\* A line that none has set the same thing of before, in a file that says each thing once.
LEMMA NextAnew ==
  ASSUME NEW f, IsFile(f), EachKeyOnce(f), NEW ks \in SUBSET DOMAIN f.lines, NEW k \in DOMAIN f.lines \ ks
  PROVE  Anew(LinesRead(f, ks), Overridden(f, f.lines[k]))
<1>1. SUFFICES ASSUME NEW j \in ks
               PROVE  ~SameThing(Overridden(f, f.lines[j]), Overridden(f, f.lines[k]))
  BY DEF Anew, LinesRead
<1>2. IsLine(f.lines[j]) /\ IsLine(f.lines[k]) /\ j # k
  BY DEF IsFile
<1>3. ~SameThing(f.lines[j], f.lines[k])
  BY <1>2 DEF EachKeyOnce
<1>4. PICK x, y : x = Overridden(f, f.lines[j]) /\ y = Overridden(f, f.lines[k])
  OBVIOUS
<1>5. /\ x.at = f.lines[j].at /\ x.n = f.lines[j].n /\ x.c = f.lines[j].c /\ x.key = f.lines[j].key
      /\ y.at = f.lines[k].at /\ y.n = f.lines[k].n /\ y.c = f.lines[k].c /\ y.key = f.lines[k].key
  <2>1. x.at = f.lines[j].at /\ x.n = f.lines[j].n /\ x.c = f.lines[j].c /\ x.key = f.lines[j].key
    BY <1>2, <1>4, OverriddenSays
  <2>2. y.at = f.lines[k].at /\ y.n = f.lines[k].n /\ y.c = f.lines[k].c /\ y.key = f.lines[k].key
    BY <1>2, <1>4, OverriddenSays
  <2> QED BY <2>1, <2>2
<1> QED BY <1>3, <1>4, <1>5 DEF SameThing

\* What the lines read in a file come to, each in its turn acceptable and in reach.
ReadSoFar(f, ks, c) ==
  LET L == LinesRead(f, ks)
  IN c = ConfigSaid(L) /\ \A l \in L : IsLine(l) /\ InReach(L, l) /\ ~Unacceptable(l)

LEMMA NothingRead ==
  ASSUME NEW f
  PROVE  ReadSoFar(f, {}, Empty)
<1>1. LinesRead(f, {}) = {}
  BY DEF LinesRead
<1> QED BY <1>1, ConfigUnsaid DEF ReadSoFar

LEMMA LinesReadMore ==
  ASSUME NEW f, NEW ks, NEW k
  PROVE  LinesRead(f, ks \cup {k}) = LinesRead(f, ks) \cup {Overridden(f, f.lines[k])}
BY DEF LinesRead

LEMMA MoreRead ==
  ASSUME NEW L, \A m \in L : IsLine(m) /\ InReach(L, m) /\ ~Unacceptable(m),
         NEW l, IsLine(l), Anew(L, l), ~OutOfRange(ConfigSaid(L), l), NEW d \in Read(ConfigSaid(L), l)
  PROVE  /\ d = ConfigSaid(L \cup {l})
         /\ \A m \in L \cup {l} : IsLine(m) /\ InReach(L \cup {l}, m) /\ ~Unacceptable(m)
<1>1. InReach(L, l)
  BY InReachIs DEF IsLine
<1>2. d = ConfigSaid(L \cup {l})
  BY <1>1, LineRead
<1>3. ~Unacceptable(l)
  BY <1>1, LineRefused
<1>4. \A m \in L \cup {l} : InReach(L, m)
  BY <1>1
<1>5. \A m \in L \cup {l} : InReach(L \cup {l}, m)
  BY <1>4, ReachGrows
<1> QED BY <1>2, <1>3, <1>5

LEMMA ReadOneMore ==
  ASSUME NEW f, IsFile(f), EachKeyOnce(f), NEW ks \in SUBSET DOMAIN f.lines, NEW k \in DOMAIN f.lines \ ks,
         NEW c, ReadSoFar(f, ks, c), ~OutOfRange(c, Overridden(f, f.lines[k]))
  PROVE  /\ \A d \in Read(c, Overridden(f, f.lines[k])) : ReadSoFar(f, ks \cup {k}, d)
         /\ Read(c, Overridden(f, f.lines[k])) = {} => Unacceptable(Overridden(f, f.lines[k]))
<1>1. PICK L, l : L = LinesRead(f, ks) /\ l = Overridden(f, f.lines[k])
  OBVIOUS
<1>2. c = ConfigSaid(L) /\ \A m \in L : IsLine(m) /\ InReach(L, m) /\ ~Unacceptable(m)
  BY <1>1 DEF ReadSoFar
<1>3. IsLine(l)
  <2>1. IsLine(f.lines[k])
    BY DEF IsFile
  <2> QED BY <1>1, <2>1, OverriddenIs
<1>4. Anew(L, l) /\ ~OutOfRange(ConfigSaid(L), l)
  BY <1>1, <1>2, NextAnew
<1>5. LinesRead(f, ks \cup {k}) = L \cup {l}
  BY <1>1, LinesReadMore
<1>6. ASSUME NEW d \in Read(c, l)
      PROVE  ReadSoFar(f, ks \cup {k}, d)
  <2>1. d \in Read(ConfigSaid(L), l)
    BY <1>2
  <2>2. d = ConfigSaid(L \cup {l})
    BY <1>2, <1>3, <1>4, <2>1, MoreRead
  <2>3. \A m \in L \cup {l} : IsLine(m) /\ InReach(L \cup {l}, m) /\ ~Unacceptable(m)
    BY <1>2, <1>3, <1>4, <2>1, MoreRead
  <2> QED BY <1>5, <2>2, <2>3 DEF ReadSoFar
<1>7. Read(c, l) = {} => Unacceptable(l)
  <2>1. InReach(L, l)
    BY <1>3, <1>4, InReachIs DEF IsLine
  <2> QED BY <1>2, <1>3, <1>4, <2>1, LineRefused
<1> QED BY <1>1, <1>6, <1>7

\* The module keys given beside the file are two more lines of it.
ModuleKeys == {"module_count", "module_slave_first"}
AllGood(L) == \A m \in L : IsLine(m) /\ InReach(L, m) /\ ~Unacceptable(m)

LEMMA BesideApart ==
  ASSUME NEW f, IsFile(f), NEW key \in ModuleKeys, NEW l \in Beside(f, key)
  PROVE  Anew(LinesRead(f, DOMAIN f.lines), l)
<1>1. /\ IsLine(l) /\ l.at = "config" /\ l.key = key /\ l.n = 0 /\ l.c = 0
      /\ \A m \in Range(f.lines) : ~SameKey(m, l)
  BY BesideIs DEF ModuleKeys
<1>2. SUFFICES ASSUME NEW j \in DOMAIN f.lines, SameThing(Overridden(f, f.lines[j]), l)
               PROVE  FALSE
  BY DEF Anew, LinesRead
<1>3. PICK m, x : m = f.lines[j] /\ x = Overridden(f, m)
  OBVIOUS
<1>4. x.at = m.at /\ x.n = m.n /\ x.c = m.c /\ x.key = m.key
  <2>1. IsLine(m)
    BY <1>3 DEF IsFile
  <2> QED BY <1>3, <2>1, OverriddenSays
<1>5. m.at = l.at /\ m.n = l.n /\ m.c = l.c /\ Sets(m.key) = Sets(l.key)
  BY <1>2, <1>3, <1>4 DEF SameThing
<1>6. m.key = l.key
  BY <1>1, <1>5 DEF Sets, ModuleKeys
<1>7. m \in Range(f.lines)
  BY <1>3 DEF Range
<1> QED BY <1>1, <1>5, <1>6, <1>7 DEF SameKey

LEMMA BesideOnce ==
  ASSUME NEW f, NEW key, NEW l \in Beside(f, key)
  PROVE  Beside(f, key) = {l}
BY DEF Beside

LEMMA ConfigInReach ==
  ASSUME NEW L, NEW l, l.at = "config"
  PROVE  InReach(L, l) /\ ~OutOfRange(ConfigSaid(L), l)
BY DEF InReach, InputLevels, WriteLevels, OutOfRange

LEMMA BesideRead ==
  ASSUME NEW f, IsFile(f), NEW key \in ModuleKeys, NEW L, AllGood(L), \A l \in Beside(f, key) : Anew(L, l),
         NEW M, M = L \cup Beside(f, key), NEW S, S = ReadBeside(f, key, ConfigSaid(L))
  PROVE  /\ \A d \in S : d = ConfigSaid(M) /\ AllGood(M)
         /\ S = {} => \E l \in Beside(f, key) : Unacceptable(l)
<1>1. CASE Beside(f, key) = {}
  <2>1. S = {ConfigSaid(L)} /\ M = L
    BY <1>1 DEF ReadBeside
  <2> QED BY <2>1
<1>2. CASE Beside(f, key) # {}
  <2>1. PICK l : l \in Beside(f, key)
    BY <1>2
  <2>2. Beside(f, key) = {l}
    BY <2>1, BesideOnce
  <2>3. S = Read(ConfigSaid(L), l) /\ M = L \cup {l}
    BY <1>2, <2>2 DEF ReadBeside
  <2>4. IsLine(l) /\ l.at = "config" /\ Anew(L, l)
    BY <2>1, BesideIs DEF ModuleKeys
  <2>5. InReach(L, l) /\ ~OutOfRange(ConfigSaid(L), l)
    BY <2>4, ConfigInReach
  <2>6. ASSUME NEW d \in S
        PROVE  d = ConfigSaid(M) /\ AllGood(M)
    <3>1. \A m \in L : IsLine(m) /\ InReach(L, m) /\ ~Unacceptable(m)
      BY DEF AllGood
    <3>2. d \in Read(ConfigSaid(L), l)
      BY <2>3
    <3>3. d = ConfigSaid(L \cup {l})
      BY <2>4, <2>5, <3>1, <3>2, MoreRead
    <3>4. \A m \in L \cup {l} : IsLine(m) /\ InReach(L \cup {l}, m) /\ ~Unacceptable(m)
      BY <2>4, <2>5, <3>1, <3>2, MoreRead
    <3> QED BY <2>3, <3>3, <3>4 DEF AllGood
  <2>7. S = {} => Unacceptable(l)
    BY <2>3, <2>4, <2>5, LineRefused
  <2> QED BY <2>1, <2>6, <2>7
<1> QED BY <1>1, <1>2

\* All lines read: what they come to with the module keys beside them.
LEMMA EndOfFile ==
  ASSUME NEW f, IsFile(f), NEW c, ReadSoFar(f, DOMAIN f.lines, c)
  PROVE  /\ \A d \in WithModuleOverrides(f, c) :
              d = ConfigSaid(AllLines(f)) /\ \A l \in AllLines(f) : ~Unacceptable(l)
         /\ WithModuleOverrides(f, c) = {} => \E l \in AllLines(f) : Unacceptable(l)
<1>1. PICK L, K, S, A : /\ L = LinesRead(f, DOMAIN f.lines) /\ K = L \cup Beside(f, "module_count")
                        /\ S = ReadBeside(f, "module_count", c)
                        /\ A = K \cup Beside(f, "module_slave_first")
  OBVIOUS
<1>2. c = ConfigSaid(L) /\ AllGood(L)
  BY <1>1 DEF ReadSoFar, AllGood
<1>3. AllLines(f) = A
  BY <1>1 DEF AllLines
<1>4. "module_count" \in ModuleKeys /\ "module_slave_first" \in ModuleKeys
  BY DEF ModuleKeys
<1>5. \A l \in Beside(f, "module_count") : Anew(L, l)
  BY <1>1, <1>4, BesideApart
<1>6. ASSUME NEW l \in Beside(f, "module_slave_first")
      PROVE  Anew(K, l)
  <2>1. Anew(L, l)
    BY <1>1, <1>4, BesideApart
  <2>2. l.key = "module_slave_first"
    BY BesideIs
  <2>3. \A m \in Beside(f, "module_count") : m.key = "module_count"
    BY BesideIs
  <2>4. \A m \in Beside(f, "module_count") : ~SameThing(m, l)
    BY <2>2, <2>3 DEF SameThing, Sets
  <2> QED BY <1>1, <2>1, <2>4 DEF Anew
<1>7. \A d \in S : d = ConfigSaid(K) /\ AllGood(K)
  BY <1>1, <1>2, <1>4, <1>5, BesideRead
<1>8. S = {} => \E l \in Beside(f, "module_count") : Unacceptable(l)
  BY <1>1, <1>2, <1>4, <1>5, BesideRead
<1>9. WithModuleOverrides(f, c) = UNION {ReadBeside(f, "module_slave_first", d) : d \in S}
  BY <1>1 DEF WithModuleOverrides
<1>10. CASE S = {}
  <2>1. WithModuleOverrides(f, c) = {}
    BY <1>9, <1>10
  <2>2. \E l \in A : Unacceptable(l)
    BY <1>1, <1>8, <1>10
  <2> QED BY <1>3, <2>1, <2>2
<1>11. CASE S # {}
  <2>1. S = {ConfigSaid(K)} /\ AllGood(K)
    BY <1>7, <1>11
  <2>2. PICK T : T = ReadBeside(f, "module_slave_first", ConfigSaid(K))
    OBVIOUS
  <2>3. WithModuleOverrides(f, c) = T
    BY <1>9, <2>1, <2>2
  <2>4. \A d \in T : d = ConfigSaid(A) /\ AllGood(A)
    BY <1>1, <1>4, <1>6, <2>1, <2>2, BesideRead
  <2>5. T = {} => \E l \in Beside(f, "module_slave_first") : Unacceptable(l)
    BY <1>1, <1>4, <1>6, <2>1, <2>2, BesideRead
  <2> QED BY <1>1, <1>3, <2>3, <2>4, <2>5 DEF AllGood
<1> QED BY <1>10, <1>11

\* While lines are read the configuration is what they say; OrderKept is
\* about the end of the file, and this is what makes it inductive.
OrderInv ==
  /\ outcome = "reading" /\ ~early /\ EachKeyOnce(file) => ReadSoFar(file, read, config)
  /\ OrderKept

LEMMA OrderInit == ConfigInit => OrderInv
<1>1. SUFFICES ASSUME ConfigInit
               PROVE  OrderInv
  OBVIOUS
<1>2. read = {} /\ config = Empty /\ outcome = "reading"
  BY <1>1 DEF ConfigInit
<1>3. ReadSoFar(file, read, config)
  BY <1>2, NothingRead
<1> QED BY <1>2, <1>3 DEF OrderInv, OrderKept

LEMMA OrderOnReadLine ==
  ASSUME ConfigTypeOK, OrderInv, NEW k \in DOMAIN file.lines, ReadLine(k)
  PROVE  OrderInv'
<1>1. PICK l : l = Overridden(file, file.lines[k])
  OBVIOUS
<1>2. /\ outcome = "reading" /\ k \in DOMAIN file.lines \ read
      /\ read' = read \cup {k} /\ early' = (early \/ OutOfRange(config, l))
      /\ \/ Read(config, l) = {} /\ outcome' = "refused"
         \/ config' \in Read(config, l) /\ outcome' = outcome
      /\ file' = file
  BY <1>1 DEF ReadLine
<1>3. SUFFICES ASSUME ~early', EachKeyOnce(file)
               PROVE  OrderInv'
  <2>1. EachKeyOnce(file') = EachKeyOnce(file)
    BY <1>2
  <2> QED BY <1>3, <2>1 DEF OrderInv, OrderKept
<1>4. /\ IsFile(file) /\ read \in SUBSET DOMAIN file.lines /\ ReadSoFar(file, read, config)
      /\ ~OutOfRange(config, l)
  BY <1>2, <1>3, FileIs DEF OrderInv, ConfigTypeOK
<1>5. CASE Read(config, l) = {} /\ outcome' = "refused"
  <2>1. Unacceptable(l)
    BY <1>1, <1>2, <1>3, <1>4, <1>5, ReadOneMore
  <2>2. l \in AllLines(file)
    BY <1>1, <1>2 DEF AllLines, LinesRead
  <2>3. OrderKept'
    BY <1>2, <1>5, <2>1, <2>2 DEF OrderKept
  <2> QED BY <1>5, <2>3 DEF OrderInv
<1>6. CASE config' \in Read(config, l) /\ outcome' = outcome
  <2>1. ReadSoFar(file, read \cup {k}, config')
    BY <1>1, <1>2, <1>3, <1>4, <1>6, ReadOneMore
  <2>2. ReadSoFar(file', read', config')
    BY <1>2, <2>1
  <2> QED BY <1>2, <1>6, <2>2 DEF OrderInv, OrderKept
<1> QED BY <1>2, <1>5, <1>6

LEMMA OrderOnFinish ==
  ASSUME ConfigTypeOK, OrderInv, Finish
  PROVE  OrderInv'
<1>1. /\ outcome = "reading" /\ read = DOMAIN file.lines
      /\ file' = file /\ early' = early
      /\ \/ /\ \A c \in WithModuleOverrides(file, config) : Settled(c) = {}
            /\ outcome' = "refused"
         \/ /\ config' \in WithModuleOverrides(file, config)
            /\ result' \in Settled(config') /\ outcome' = "accepted"
  BY DEF Finish
<1>2. SUFFICES ASSUME ~early, EachKeyOnce(file)
               PROVE  OrderKept'
  BY <1>1 DEF OrderInv, OrderKept
<1>3. IsFile(file) /\ ReadSoFar(file, DOMAIN file.lines, config)
  BY <1>1, <1>2, FileIs DEF OrderInv
<1>4. PICK A : A = AllLines(file)
  OBVIOUS
<1>5. \A d \in WithModuleOverrides(file, config) :
        d = ConfigSaid(A) /\ \A l \in A : ~Unacceptable(l)
  BY <1>3, <1>4, EndOfFile
<1>6. WithModuleOverrides(file, config) = {} => \E l \in A : Unacceptable(l)
  BY <1>3, <1>4, EndOfFile
<1>7. AllLines(file') = A
  BY <1>1, <1>4
<1>8. CASE /\ \A c \in WithModuleOverrides(file, config) : Settled(c) = {}
           /\ outcome' = "refused"
  <2>1. (\E l \in A : Unacceptable(l)) \/ Settled(ConfigSaid(A)) = {}
    BY <1>5, <1>6, <1>8
  <2> QED BY <1>7, <1>8, <2>1 DEF OrderKept
<1>9. CASE /\ config' \in WithModuleOverrides(file, config)
           /\ result' \in Settled(config') /\ outcome' = "accepted"
  <2>1. config' = ConfigSaid(A) /\ \A l \in A : ~Unacceptable(l)
    BY <1>5, <1>9
  <2>2. result' \in Settled(ConfigSaid(A))
    BY <1>9, <2>1
  <2>3. Settled(ConfigSaid(A)) = {result'}
    BY <2>2 DEF Settled
  <2> QED BY <1>7, <1>9, <2>1, <2>3 DEF OrderKept
<1> QED BY <1>1, <1>8, <1>9

\* Of a file that counts its inputs, writes and channels before it speaks of
\* them the parser makes what its lines say, in whatever order they come.
THEOREM OrderKeptProved == ConfigSpec => []OrderKept
<1>1. OrderInv => OrderKept
  BY DEF OrderInv
<1>2. ConfigTypeOK /\ OrderInv /\ [ConfigNext]_configVars => OrderInv'
  <2>1. SUFFICES ASSUME ConfigTypeOK, OrderInv, [ConfigNext]_configVars
                 PROVE  OrderInv'
    OBVIOUS
  <2>2. CASE \E k \in DOMAIN file.lines : ReadLine(k)
    BY <2>1, <2>2, OrderOnReadLine
  <2>3. CASE Finish
    BY <2>1, <2>3, OrderOnFinish
  <2>4. CASE UNCHANGED configVars
    <3>1. /\ file' = file /\ read' = read /\ config' = config /\ result' = result
          /\ outcome' = outcome /\ early' = early
      BY <2>4 DEF configVars
    <3> QED BY <2>1, <3>1 DEF OrderInv, OrderKept
  <2> QED BY <2>1, <2>2, <2>3, <2>4 DEF ConfigNext
<1> QED BY <1>1, <1>2, OrderInit, ConfigTyped, PTL DEF ConfigSpec
=============================================================================
