------------------------------ MODULE Iosc_proofs ------------------------------
(***************************************************************************)
(* Proofs about the two stores of the keys.  The counter of the NAND's     *)
(* generation: whatever fails and whenever the power goes, it advances by  *)
(* one.  The keyring: data entries in use are those of the keys in use.    *)
(***************************************************************************)
EXTENDS Iosc, FiniteSetTheorems, SequenceTheorems, WellFoundedInduction, TLAPS

(* Words and numbers.                                                      *)
LEMMA WordRange == W \in Nat /\ W >= 4
<1>1. Byte \in Nat /\ Byte >= 2  BY ByteAssumption
<1>2. Byte * Byte >= 4  BY <1>1
<1> QED  BY <1>1, <1>2 DEF W

LEMMA Splits ==
  ASSUME NEW n \in Nat
  PROVE  n \div W \in Nat /\ n % W \in 0 .. W - 1 /\ n = (n \div W) * W + (n % W)
BY WordRange

LEMMA Unique ==
  ASSUME NEW q \in Nat, NEW r \in 0 .. W - 1, NEW s \in Nat, NEW t \in 0 .. W - 1,
         q * W + r = s * W + t
  PROVE  q = s /\ r = t
<1> USE WordRange
<1>1. (q - s) * W = t - r  OBVIOUS
<1>2. CASE q > s
  <2>1. (q - s) * W >= W  BY <1>2
  <2> QED  BY <1>1, <2>1
<1>3. CASE q < s
  <2>1. (s - q) * W >= W  BY <1>3
  <2>2. (s - q) * W = r - t  OBVIOUS
  <2> QED  BY <2>1, <2>2
<1> QED  BY <1>1, <1>2, <1>3

LEMMA Plus ==
  ASSUME NEW n \in Nat, NEW c \in 0 .. W - 1
  PROVE  IF (n % W) + c < W
         THEN (n + c) \div W = n \div W /\ (n + c) % W = (n % W) + c
         ELSE (n + c) \div W = (n \div W) + 1 /\ (n + c) % W = (n % W) + c - W
<1> USE WordRange
<1>1. n \div W \in Nat /\ n % W \in 0 .. W - 1 /\ n = (n \div W) * W + (n % W)
  BY Splits
<1>2. /\ (n + c) \div W \in Nat /\ (n + c) % W \in 0 .. W - 1
      /\ n + c = ((n + c) \div W) * W + ((n + c) % W)
  <2>1. n + c \in Nat  OBVIOUS
  <2> QED  BY <2>1, Splits
<1> DEFINE q == n \div W
           r == n % W
           s == (n + c) \div W
           t == (n + c) % W
<1>3. q \in Nat /\ r \in 0 .. W - 1 /\ n = q * W + r  BY <1>1
<1>4. s \in Nat /\ t \in 0 .. W - 1 /\ n + c = s * W + t  BY <1>2
<1>5. SUFFICES IF r + c < W THEN s = q /\ t = r + c ELSE s = q + 1 /\ t = r + c - W
  OBVIOUS
<1> HIDE DEF q, r, s, t
<1>6. CASE r + c < W
  <2>1. r + c \in 0 .. W - 1 /\ s * W + t = q * W + (r + c)  BY <1>3, <1>4, <1>6
  <2>2. s = q /\ t = r + c  BY <2>1, <1>3, <1>4, Unique
  <2> QED  BY <1>6, <2>2
<1>7. CASE ~ (r + c < W)
  <2> DEFINE high == q + 1
             low == r + c - W
  <2>1. low \in 0 .. W - 1 /\ high \in Nat  BY <1>3, <1>7
  <2>2. high * W = q * W + W  BY <1>3
  <2>3. s * W + t = high * W + low  BY <1>3, <1>4, <2>2
  <2>4. s = high /\ t = low
    <3> HIDE DEF high, low
    <3> QED  BY <2>1, <2>3, <1>4, Unique
  <2> QED  BY <1>7, <2>4
<1> QED  BY <1>6, <1>7

LEMMA HighWord ==
  ASSUME NEW n \in 0 .. W * W - 1
  PROVE  n \div W \in 0 .. W - 1
<1> USE WordRange
<1>1. n \div W \in Nat /\ n % W \in 0 .. W - 1 /\ n = (n \div W) * W + (n % W)
  BY Splits
<1>2. SUFFICES ASSUME n \div W >= W PROVE FALSE  BY <1>1
<1>3. (n \div W) * W >= W * W  BY <1>1, <1>2
<1> QED  BY <1>1, <1>3

LEMMA ModSum ==
  ASSUME NEW a \in 0 .. W - 1, NEW b \in 0 .. W - 1
  PROVE  (a + b) % W = IF a + b < W THEN a + b ELSE a + b - W
<1> USE WordRange
<1>1. 0 \in Nat /\ b \in 0 .. W - 1 /\ a + b \in Nat  OBVIOUS
<1>2. a \in Nat /\ a % W = a
  <2>1. a \div W \in Nat /\ a % W \in 0 .. W - 1 /\ a = (a \div W) * W + (a % W)
    BY Splits
  <2>2. a = 0 * W + a  OBVIOUS
  <2> QED  BY <2>1, <2>2, Unique
<1> QED  BY <1>2, Plus

-----------------------------------------------------------------------------
(* A copy of the generation n, and one over which a copy of n has been     *)
(* written as far as its first p words.                                    *)
Encoded(n) == [x \in 1 .. 3 |->
                 IF x = 1 THEN n \div W ELSE IF x = 2 THEN n % W ELSE ((n \div W) + (n % W)) % W]
Overwritten(old, n, p) == [x \in 1 .. 3 |-> IF x <= p THEN Encoded(n)[x] ELSE Encoded(old)[x]]
Checked(c) == (c[1] + c[2]) % W = c[3]
Triple == [1 .. 3 -> Word]

LEMMA EncodedType ==
  ASSUME NEW n \in 0 .. W * W - 1
  PROVE  /\ Encoded(n) \in Triple /\ Checked(Encoded(n))
         /\ Encoded(n)[1] * W + Encoded(n)[2] = n
<1> USE WordRange
<1>1. n \div W \in 0 .. W - 1  BY HighWord
<1>2. n % W \in 0 .. W - 1 /\ n = (n \div W) * W + (n % W)  BY Splits
<1>3. ((n \div W) + (n % W)) % W \in 0 .. W - 1  BY <1>1, <1>2
<1>4. Encoded(n) \in Triple  BY <1>1, <1>2, <1>3 DEF Encoded, Triple, Word
<1>5. Checked(Encoded(n))  BY DEF Checked, Encoded
<1> QED  BY <1>2, <1>4, <1>5 DEF Encoded

LEMMA OverwrittenType ==
  ASSUME NEW old \in 0 .. W * W - 1, NEW n \in 0 .. W * W - 1, NEW p \in 0 .. 3
  PROVE  /\ Overwritten(old, n, p) \in Triple
         /\ p = 0 => Overwritten(old, n, p) = Encoded(old)
         /\ p = 3 => Overwritten(old, n, p) = Encoded(n)
<1>1. Encoded(old) \in Triple /\ Encoded(n) \in Triple  BY EncodedType
<1> QED  BY <1>1 DEF Overwritten, Triple, Encoded

(* A copy that is written over the third but last one is not valid in      *)
(* between, as long as it is neither of the two.                           *)
LEMMA HalfWritten ==
  ASSUME NEW old \in 0 .. W * W - 4, NEW p \in 0 .. 3,
         Checked(Overwritten(old, old + 3, p))
  PROVE  \/ Overwritten(old, old + 3, p) = Encoded(old)
         \/ Overwritten(old, old + 3, p) = Encoded(old + 3)
<1> USE WordRange
<1> DEFINE q == old \div W
           r == old % W
           s == (old + 3) \div W
           t == (old + 3) % W
<1>1. old \in 0 .. W * W - 1 /\ old + 3 \in 0 .. W * W - 1  OBVIOUS
<1>2. q \in 0 .. W - 1 /\ s \in 0 .. W - 1  BY <1>1, HighWord
<1>3. r \in 0 .. W - 1 /\ t \in 0 .. W - 1
  BY <1>1, Splits
<1>4. IF r + 3 < W THEN s = q /\ t = r + 3 ELSE s = q + 1 /\ t = r + 3 - W
  <2>1. old \in Nat /\ 3 \in 0 .. W - 1  OBVIOUS
  <2> QED  BY <2>1, Plus
<1>5. \A a, b \in 0 .. W - 1 : (a + b) % W = IF a + b < W THEN a + b ELSE a + b - W
  BY ModSum
<1>6. Overwritten(old, old + 3, p) =
        [x \in 1 .. 3 |-> IF x = 1 THEN (IF 1 <= p THEN s ELSE q)
                          ELSE IF x = 2 THEN (IF 2 <= p THEN t ELSE r)
                          ELSE IF 3 <= p THEN (s + t) % W ELSE (q + r) % W]
  BY DEF Overwritten, Encoded
<1>7. Encoded(old) = [x \in 1 .. 3 |-> IF x = 1 THEN q ELSE IF x = 2 THEN r ELSE (q + r) % W]
  BY DEF Encoded
<1>8. Encoded(old + 3) = [x \in 1 .. 3 |-> IF x = 1 THEN s ELSE IF x = 2 THEN t ELSE (s + t) % W]
  BY DEF Encoded
<1> HIDE DEF q, r, s, t
<1>9. CASE p = 0  BY <1>6, <1>7, <1>9
<1>10. CASE p = 3  BY <1>6, <1>8, <1>10
<1>11. CASE p = 1
  <2>1. (s + r) % W = (q + r) % W  BY <1>6, <1>11 DEF Checked
  <2>2. s = q
    <3>1. SUFFICES ASSUME s = q + 1 PROVE FALSE  BY <1>4
    <3>2. (s + r) % W = IF s + r < W THEN s + r ELSE s + r - W  BY <1>2, <1>3, <1>5
    <3>3. (q + r) % W = IF q + r < W THEN q + r ELSE q + r - W  BY <1>2, <1>3, <1>5
    <3> QED  BY <2>1, <3>1, <3>2, <3>3, <1>2, <1>3
  <2> QED  BY <2>2, <1>6, <1>7, <1>11
<1>12. CASE p = 2
  <2>1. (s + t) % W = (q + r) % W  BY <1>6, <1>12 DEF Checked
  <2> QED  BY <2>1, <1>6, <1>8, <1>12
<1> QED  BY <1>9, <1>10, <1>11, <1>12

-----------------------------------------------------------------------------
(* What is read and written, in terms of the generations in the copies:    *)
(* copy i has n, copy j the one before, and k the oldest or what updates   *)
(* to n + 1 have written over it so far.                                   *)
Copies(n, i, j, k, p) ==
  /\ n \in 2 .. W * W - 2 /\ p \in 0 .. 3
  /\ i \in 1 .. 3 /\ j \in 1 .. 3 /\ k \in 1 .. 3 /\ i # j /\ j # k /\ i # k
  /\ seeprom[i] = Encoded(n)
  /\ seeprom[j] = Encoded(n - 1)
  /\ seeprom[k] = Overwritten(n - 2, n + 1, p)
  /\ Checked(seeprom[k]) => seeprom[k] = Encoded(n - 2)

ReadingFact ==
  Field = "gen" => \A n, i, j, k, p :
    Copies(n, i, j, k, p) =>
      /\ Readable /\ Reading = n /\ Oldest = k
      /\ \A beyond : Updated(Read(beyond)) = Encoded(n + 1)

LEMMA GenFacts ==
  ASSUME Field = "gen"
  PROVE  /\ Copy = 1 .. 3 /\ Tag = 1 /\ Size = 3
         /\ \A c \in Triple : ComputeCounterChecksum(c) = (c[1] + c[2]) % W
         /\ \A c \in Triple : Number(c) = c[1] * W + c[2]
<1> USE WordRange
<1>1. Copy = 1 .. 3 /\ Tag = 1 /\ Size = 3  BY DEF Copy, Tag, Size
<1>2. ASSUME NEW c \in Triple
      PROVE  ComputeCounterChecksum(c) = (c[1] + c[2]) % W /\ Number(c) = c[1] * W + c[2]
  <2>1. c[1] \in Nat /\ c[2] \in Nat  BY DEF Triple, Word
  <2>2. c[1] + c[2] + 0 = c[1] + c[2]  BY <2>1
  <2>3. ComputeCounterChecksum(c) = (c[1] + c[2]) % W  BY <2>2 DEF ComputeCounterChecksum
  <2>4. c[Tag] = c[1] /\ c[Tag + 1] = c[2]  BY <1>1
  <2> QED  BY <2>3, <2>4 DEF Number
<1> QED  BY <1>1, <1>2

LEMMA SealedTwo ==
  ASSUME Field = "gen", NEW d \in Seq(Word), Len(d) = 2
  PROVE  Sealed(d) = [x \in 1 .. 3 |-> IF x = 3 THEN (d[1] + d[2]) % W ELSE d[x]]
<1> DEFINE e == ComputeCounterChecksum(d)
           f == <<e>>
           g == d \o f
<1>1. d[1] \in Word /\ d[2] \in Word /\ d[1] \in Nat /\ d[2] \in Nat
  <2>1. 1 \in 1 .. Len(d) /\ 2 \in 1 .. Len(d)  OBVIOUS
  <2>2. d[1] \in Word /\ d[2] \in Word  BY <2>1, ElementOfSeq
  <2> QED  BY <2>2, WordRange DEF Word
<1>2. e = (d[1] + d[2]) % W /\ e \in Word
  <2>1. d[1] + d[2] + 0 = d[1] + d[2]  BY <1>1
  <2>2. e = (d[1] + d[2]) % W  BY <2>1 DEF ComputeCounterChecksum
  <2>3. d[1] + d[2] \in Nat  BY <1>1
  <2> QED  BY <2>2, <2>3, WordRange DEF Word
<1>3. f \in Seq(Word) /\ Len(f) = 1 /\ f[1] = e
  <2> HIDE DEF e
  <2> QED  BY <1>2
<1>4. Sealed(d) = g  BY DEF Sealed
<1>5. /\ g \in Seq(Word)
      /\ Len(g) = Len(d) + Len(f)
      /\ \A x \in 1 .. Len(d) + Len(f) : g[x] = IF x <= Len(d) THEN d[x] ELSE f[x - Len(d)]
  <2> HIDE DEF e, f
  <2> QED  BY <1>3, ConcatProperties
<1> HIDE DEF e, f, g
<1>6. g \in [1 .. 3 -> Word]
  <2>1. g \in [1 .. Len(g) -> Word]  BY <1>5, LenProperties
  <2> QED  BY <1>3, <1>5, <2>1
<1>7. g[1] = d[1] /\ g[2] = d[2] /\ g[3] = e  BY <1>3, <1>5
<1>8. g = [x \in 1 .. 3 |-> IF x = 3 THEN (d[1] + d[2]) % W ELSE d[x]]
  BY <1>2, <1>6, <1>7
<1> QED  BY <1>4, <1>8

LEMMA SealedPair ==
  ASSUME Field = "gen", NEW c \in Triple
  PROVE  Sealed(SubSeq(c, 1, 2)) = [x \in 1 .. 3 |-> IF x = 3 THEN (c[1] + c[2]) % W ELSE c[x]]
<1> DEFINE d == SubSeq(c, 1, 2)
<1>1. \A x \in 1 .. 2 : c[x] \in Word  BY DEF Triple
<1>2. /\ d \in Seq(Word)
      /\ Len(d) = IF 1 <= 2 THEN 2 - 1 + 1 ELSE 0
      /\ \A x \in 1 .. 2 - 1 + 1 : d[x] = c[1 + x - 1]
  <2>1. 1 \in Int /\ 2 \in Int  OBVIOUS
  <2> QED  BY <1>1, <2>1, SubSeqProperties
<1> HIDE DEF d
<1>3. Len(d) = 2 /\ d[1] = c[1] /\ d[2] = c[2]  BY <1>2
<1>4. Sealed(d) = [x \in 1 .. 3 |-> IF x = 3 THEN (d[1] + d[2]) % W ELSE d[x]]
  BY <1>2, <1>3, SealedTwo
<1> QED  BY <1>3, <1>4 DEF d

(* What the code reads of the copies, and what it writes for an update.    *)
LEMMA CopyFacts ==
  ASSUME Field = "gen", NEW n, NEW i, NEW j, NEW k, NEW p, Copies(n, i, j, k, p)
  PROVE  /\ \A x \in 1 .. 3 : seeprom[x] \in Triple
         /\ Copy = {i, j, k} /\ i \in Valid /\ j \in Valid
         /\ Number(seeprom[i]) = n /\ Number(seeprom[j]) = n - 1
         /\ k \in Valid => Number(seeprom[k]) = n - 2
<1> USE WordRange
<1>1. n \in 0 .. W * W - 1 /\ n - 1 \in 0 .. W * W - 1 /\ n - 2 \in 0 .. W * W - 1
      /\ n + 1 \in 0 .. W * W - 1
  BY DEF Copies
<1>2. p \in 0 .. 3 /\ {i, j, k} = 1 .. 3  BY DEF Copies
<1>3. /\ Encoded(n) \in Triple /\ Checked(Encoded(n))
      /\ Encoded(n)[1] * W + Encoded(n)[2] = n
  BY <1>1, EncodedType
<1>4. /\ Encoded(n - 1) \in Triple /\ Checked(Encoded(n - 1))
      /\ Encoded(n - 1)[1] * W + Encoded(n - 1)[2] = n - 1
  BY <1>1, EncodedType
<1>5. Encoded(n - 2)[1] * W + Encoded(n - 2)[2] = n - 2  BY <1>1, EncodedType
<1>6. Overwritten(n - 2, n + 1, p) \in Triple  BY <1>1, <1>2, OverwrittenType
<1>7. \A x \in 1 .. 3 : seeprom[x] \in Triple  BY <1>2, <1>3, <1>4, <1>6 DEF Copies
<1>8. Copy = 1 .. 3 /\ Size = 3  BY GenFacts
<1>9. \A x \in 1 .. 3 : /\ x \in Valid <=> Checked(seeprom[x])
                       /\ Number(seeprom[x]) = seeprom[x][1] * W + seeprom[x][2]
  BY <1>7, <1>8, GenFacts DEF Valid, Checked
<1> QED  BY <1>2, <1>3, <1>4, <1>5, <1>7, <1>8, <1>9 DEF Copies

LEMMA NewestIs ==
  ASSUME Field = "gen", NEW n, NEW i, NEW j, NEW k, NEW p, Copies(n, i, j, k, p)
  PROVE  Newest = i /\ Oldest = k /\ Readable
<1>1. i # j /\ j # k /\ i # k /\ i \in Int /\ j \in Int /\ k \in Int
  BY DEF Copies
<1>2. Valid \subseteq Copy  BY DEF Valid
<1>3. /\ Number(seeprom[i]) = n /\ Number(seeprom[j]) = n - 1
      /\ k \in Valid => Number(seeprom[k]) = n - 2
  BY CopyFacts
<1>4. Copy = {i, j, k} /\ i \in Valid /\ j \in Valid  BY CopyFacts
<1>5. n \in Int /\ n < W * W - 1  BY WordRange DEF Copies
<1>6. Newest = i
  <2>1. \A y \in Valid : \/ Number(seeprom[y]) < Number(seeprom[i])
                         \/ Number(seeprom[y]) = Number(seeprom[i]) /\ y <= i
    <3> SUFFICES ASSUME NEW y \in Valid, y # i
                 PROVE  Number(seeprom[y]) < Number(seeprom[i])
      BY <1>1
    <3>1. CASE y = j  BY <3>1, <1>3, <1>5
    <3>2. CASE y = k  BY <3>2, <1>3, <1>5
    <3> QED  BY <1>2, <1>4, <3>1, <3>2
  <2>2. /\ Newest \in Valid
        /\ \A y \in Valid : \/ Number(seeprom[y]) < Number(seeprom[Newest])
                            \/ Number(seeprom[y]) = Number(seeprom[Newest]) /\ y <= Newest
    BY <1>4, <2>1 DEF Newest
  <2>3. ~ (n < n - 1) /\ n # n - 1  BY <1>5
  <2>4. Newest # j  BY <1>3, <1>4, <2>2, <2>3
  <2>5. Newest # k
    <3> SUFFICES ASSUME Newest = k PROVE FALSE  OBVIOUS
    <3>1. Number(seeprom[Newest]) = n - 2  BY <1>3, <2>2
    <3>2. n < n - 2 \/ n = n - 2  BY <1>3, <1>4, <2>2, <3>1
    <3> QED  BY <1>5, <3>2
  <2> QED  BY <1>2, <1>4, <2>2, <2>4, <2>5
<1>7. k \in Writable /\ Oldest = k
  <2>1. CASE Valid # Copy
    <3>1. Writable = {k}  BY <2>1, <1>1, <1>2, <1>4 DEF Writable
    <3>2. Oldest = CHOOSE x \in Writable : \A y \in Writable : y <= x
      BY <2>1 DEF Oldest
    <3>3. k <= k  BY <1>1
    <3> QED  BY <3>1, <3>2, <3>3
  <2>2. CASE Valid = Copy
    <3>1. Number(seeprom[k]) = n - 2  BY <2>2, <1>3, <1>4
    <3>2. n - 1 < W * W - 1 /\ n - 2 < W * W - 1
      <4> DEFINE M == W * W
      <4>1. M \in Int  BY WordRange
      <4> HIDE DEF M
      <4>2. n < M - 1  BY <1>5 DEF M
      <4>3. n - 1 < M - 1 /\ n - 2 < M - 1  BY <4>1, <4>2, <1>5
      <4> QED  BY <4>3 DEF M
    <3>3. Writable = Copy  BY <2>2, <3>1, <3>2, <1>3, <1>4, <1>5 DEF Writable
    <3>4. \A y \in Copy : \/ Number(seeprom[k]) < Number(seeprom[y])
                          \/ Number(seeprom[k]) = Number(seeprom[y]) /\ k <= y
      <4> SUFFICES ASSUME NEW y \in Copy, y # k
                   PROVE  Number(seeprom[k]) < Number(seeprom[y])
        BY <1>1
      <4>1. CASE y = j  BY <4>1, <3>1, <1>3, <1>5
      <4>2. CASE y = i  BY <4>2, <3>1, <1>3, <1>5
      <4> QED  BY <1>4, <4>1, <4>2
    <3>5. /\ Oldest \in Copy
          /\ \A y \in Copy : \/ Number(seeprom[Oldest]) < Number(seeprom[y])
                             \/ Number(seeprom[Oldest]) = Number(seeprom[y]) /\ Oldest <= y
      BY <2>2, <3>3, <3>4, <1>4 DEF Oldest
    <3>6. Oldest # i
      <4> SUFFICES ASSUME Oldest = i PROVE FALSE  OBVIOUS
      <4>1. n < n - 2 \/ n = n - 2  BY <1>3, <1>4, <3>1, <3>5
      <4> QED  BY <1>5, <4>1
    <3>7. Oldest # j
      <4> SUFFICES ASSUME Oldest = j PROVE FALSE  OBVIOUS
      <4>1. n - 1 < n - 2 \/ n - 1 = n - 2  BY <1>3, <1>4, <3>1, <3>5
      <4> QED  BY <1>5, <4>1
    <3> QED  BY <1>4, <3>3, <3>5, <3>6, <3>7
  <2> QED  BY <2>1, <2>2
<1> QED  BY <1>4, <1>6, <1>7 DEF Readable

LEMMA NextCopy ==
  ASSUME Field = "gen", NEW n \in 2 .. W * W - 2
  PROVE  Updated(Encoded(n)) = Encoded(n + 1)
<1> USE WordRange
<1>1. n \in 0 .. W * W - 1 /\ n + 1 \in 0 .. W * W - 1 /\ n \in Nat /\ n + 1 \in Nat
  OBVIOUS
<1> DEFINE c == Encoded(n)
           d == Raised(Bumped(c))
           m == n + 1
<1>2. c \in Triple /\ c[1] * W + c[2] = n  BY <1>1, EncodedType
<1>3. Bumped(c) = c  BY DEF Bumped
<1>4. Number(c) = n  BY <1>2, GenFacts
<1>5. m % (W * W) = m
  <2> DEFINE M == W * W
  <2>1. M \in Nat /\ m \in 0 .. M - 1  BY <1>1
  <2> HIDE DEF M, m
  <2>2. m % M = m  BY <2>1
  <2> QED  BY <2>2 DEF M
<1>6. d = [c EXCEPT ![1] = m \div W, ![2] = m % W]
  <2>1. d = [c EXCEPT ![Tag] = m \div W, ![Tag + 1] = m % W]
    BY <1>3, <1>4, <1>5 DEF Raised
  <2>2. Tag = 1 /\ Tag + 1 = 2  BY GenFacts
  <2> QED  BY <2>1, <2>2
<1>7. m \div W \in Word /\ m % W \in Word  BY <1>1, HighWord, Splits DEF Word
<1> HIDE DEF m, c
<1>8. d \in Triple /\ d[1] = m \div W /\ d[2] = m % W  BY <1>2, <1>6, <1>7 DEF Triple
<1> HIDE DEF d
<1>9. Sealed(SubSeq(d, 1, 2)) = [x \in 1 .. 3 |-> IF x = 3 THEN (d[1] + d[2]) % W ELSE d[x]]
  BY <1>8, SealedPair
<1>10. Sealed(SubSeq(d, 1, 2)) = Encoded(m)  BY <1>8, <1>9 DEF Encoded
<1>11. Updated(c) = Sealed(SubSeq(d, 1, 2))
  <2>1. Size - 1 = 2  BY GenFacts
  <2> QED  BY <2>1 DEF Updated, d
<1> QED  BY <1>10, <1>11 DEF m, c

LEMMA Now == ReadingFact
<1> SUFFICES ASSUME Field = "gen", NEW n, NEW i, NEW j, NEW k, NEW p, Copies(n, i, j, k, p)
             PROVE  /\ Readable /\ Reading = n /\ Oldest = k
                    /\ \A beyond : Updated(Read(beyond)) = Encoded(n + 1)
  BY DEF ReadingFact
<1>1. Newest = i /\ Oldest = k /\ Readable  BY NewestIs
<1>2. \A beyond : Read(beyond) = seeprom[i]  BY <1>1 DEF Read
<1>3. Reading = n  BY <1>2, CopyFacts DEF Reading, Value
<1>4. seeprom[i] = Encoded(n) /\ n \in 2 .. W * W - 2  BY DEF Copies
<1>5. \A beyond : Updated(Read(beyond)) = Encoded(n + 1)  BY <1>2, <1>4, NextCopy
<1> QED  BY <1>1, <1>3, <1>5

-----------------------------------------------------------------------------
(* The inductive invariant.  The slot of the counter is never given to     *)
(* another key, and its value is one that is in a copy; an update that is  *)
(* under way writes the next number over the oldest copy, or completes the *)
(* newest, whose words it has already.                                     *)
CounterKey ==
  /\ DOMAIN keys = Handle
  /\ keys[Counter] = [ used |-> TRUE, kind |-> Preset[Counter].kind,
                       owner |-> Preset[Counter].owner,
                       metadata |-> keys[Counter].metadata, index |-> keys[Counter].index ]

Writing(n, i, k, p) ==
  /\ call \in [ value : Nat, copy : 1 .. 3, words : Triple, next : 1 .. 3 ]
  /\ keys[Counter].metadata <= call.value
  /\ \/ /\ call.copy = k /\ call.words = Encoded(n + 1)
        /\ n < W * W - 2 /\ call.next <= p + 1
     \/ call.copy = i /\ call.words = Encoded(n)

Progress(n, i, j, k, p) ==
  /\ Copies(n, i, j, k, p)
  /\ keys[Counter].metadata \in 0 .. n
  /\ call # Idle => Writing(n, i, k, p)

IInv ==
  /\ CounterKey
  /\ seeprom \in [1 .. 3 -> Triple]
  /\ \E n \in 2 .. W * W - 2, i, j, k \in 1 .. 3, p \in 0 .. 3 : Progress(n, i, j, k, p)

-----------------------------------------------------------------------------
(* A word that is sent goes on with the oldest copy, or makes it the       *)
(* newest, or changes nothing.                                             *)
LEMMA OneMoreWord ==
  ASSUME NEW old \in 0 .. W * W - 1, NEW n \in 0 .. W * W - 1, NEW p \in 0 .. 3,
         NEW x \in 1 .. 3, x <= p + 1
  PROVE  [Overwritten(old, n, p) EXCEPT ![x] = Encoded(n)[x]]
           = Overwritten(old, n, IF x <= p THEN p ELSE x)
<1> DEFINE a == [Overwritten(old, n, p) EXCEPT ![x] = Encoded(n)[x]]
           q == IF x <= p THEN p ELSE x
           b == Overwritten(old, n, q)
<1>1. a = [y \in 1 .. 3 |-> IF y = x THEN Encoded(n)[x]
                           ELSE IF y <= p THEN Encoded(n)[y] ELSE Encoded(old)[y]]
  BY DEF Overwritten
<1>2. b = [y \in 1 .. 3 |-> IF y <= q THEN Encoded(n)[y] ELSE Encoded(old)[y]]
  BY DEF Overwritten
<1>3. \A y \in 1 .. 3 : (y = x \/ y <= p) <=> y <= q  OBVIOUS
<1> HIDE DEF a, b, q
<1>4. \A y \in 1 .. 3 : a[y] = b[y]  BY <1>1, <1>2, <1>3
<1>5. a = [y \in 1 .. 3 |-> a[y]] /\ b = [y \in 1 .. 3 |-> b[y]]  BY <1>1, <1>2
<1> QED  BY <1>4, <1>5 DEF a, b, q

LEMMA WordSent ==
  ASSUME Field = "gen", NEW n, NEW i, NEW j, NEW k, NEW p,
         Copies(n, i, j, k, p), Writing(n, i, k, p), seeprom \in [1 .. 3 -> Triple], UpdateCounter
  PROVE  /\ seeprom' \in [1 .. 3 -> Triple]
         /\ \/ /\ Copies(n, i, j, k, p)' /\ call.copy = i /\ call.words = Encoded(n)
            \/ /\ call.copy = k /\ call.words = Encoded(n + 1) /\ n < W * W - 2
               /\ \/ \E q \in 0 .. 3 : Copies(n, i, j, k, q)' /\ call.next <= q
                  \/ Copies(n + 1, k, i, j, 0)'
<1> DEFINE M == W * W
           c == call.copy
           x == call.next
           w == call.words
<1>1. M \in Int /\ n \in 2 .. M - 2 /\ p \in 0 .. 3 /\ i \in 1 .. 3 /\ j \in 1 .. 3 /\ k \in 1 .. 3
      /\ i # j /\ j # k /\ i # k
  BY WordRange DEF Copies
<1>2. c \in 1 .. 3 /\ x \in 1 .. 3 /\ w \in Triple  BY DEF Writing
<1>3. seeprom' = [seeprom EXCEPT ![c] = [seeprom[c] EXCEPT ![x] = w[x]]]  BY DEF UpdateCounter, SendWord
<1>4. seeprom' \in [1 .. 3 -> Triple]
  <2>1. seeprom[c] \in Triple /\ w[x] \in Word  BY <1>2 DEF Triple
  <2>2. [seeprom[c] EXCEPT ![x] = w[x]] \in Triple  BY <1>2, <2>1 DEF Triple
  <2> HIDE DEF c, x, w
  <2> QED  BY <1>2, <1>3, <2>2
<1>5. CASE c = i /\ w = Encoded(n)
  <2>1. seeprom[i] = w  BY <1>5 DEF Copies
  <2>2. [seeprom[i] EXCEPT ![x] = w[x]] = seeprom[i]
    <3>1. seeprom[i] \in Triple  BY <1>1
    <3> HIDE DEF c, x, w
    <3> QED  BY <1>2, <2>1, <3>1 DEF Triple
  <2>3. seeprom' = seeprom
    <3> HIDE DEF c, x, w
    <3> QED  BY <1>1, <1>3, <1>5, <2>2
  <2>4. Copies(n, i, j, k, p)'  BY <2>3 DEF Copies
  <2> QED  BY <1>4, <1>5, <2>4
<1>6. CASE c = k /\ w = Encoded(n + 1) /\ n < M - 2 /\ x <= p + 1
  <2>0. PICK q \in 0 .. 3 : q = IF x <= p THEN p ELSE x  BY <1>1, <1>2
  <2>1. x <= q  BY <1>1, <1>2, <2>0
  <2>2. n - 2 \in 0 .. M - 1 /\ n + 1 \in 0 .. M - 1 /\ n - 1 \in 0 .. M - 1 /\ n + 2 \in 0 .. M - 1
    <3> HIDE DEF M
    <3> QED  BY <1>1, <1>6
  <2>3. seeprom'[i] = Encoded(n) /\ seeprom'[j] = Encoded(n - 1)
    <3> HIDE DEF c, x, w
    <3> QED  BY <1>1, <1>3, <1>6 DEF Copies
  <2>4. seeprom'[k] = Overwritten(n - 2, n + 1, q)
    <3>1. seeprom'[k] = [seeprom[k] EXCEPT ![x] = w[x]]
      <4> HIDE DEF c, x, w
      <4> QED  BY <1>1, <1>3, <1>6
    <3>2. seeprom[k] = Overwritten(n - 2, n + 1, p)  BY DEF Copies
    <3>3. [Overwritten(n - 2, n + 1, p) EXCEPT ![x] = Encoded(n + 1)[x]]
            = Overwritten(n - 2, n + 1, q)
      <4> HIDE DEF x
      <4>1. x \in 1 .. 3 /\ x <= p + 1 /\ p \in 0 .. 3  BY <1>1, <1>2, <1>6
      <4> DEFINE old == n - 2
                 new == n + 1
      <4>2. old \in 0 .. W * W - 1 /\ new \in 0 .. W * W - 1  BY <2>2
      <4> HIDE DEF old, new
      <4>3. [Overwritten(old, new, p) EXCEPT ![x] = Encoded(new)[x]] = Overwritten(old, new, q)
        BY <4>1, <4>2, <2>0, OneMoreWord
      <4> QED  BY <4>3 DEF old, new
    <3> QED  BY <3>1, <3>2, <3>3, <1>6
  <2>5. CASE seeprom'[k] = Encoded(n + 1)
    <3>1. Overwritten((n + 1) - 2, (n + 1) + 1, 0) = Encoded((n + 1) - 2)
      <4>1. (n + 1) - 2 = n - 1 /\ (n + 1) + 1 = n + 2  BY <1>1
      <4> DEFINE a == (n + 1) - 2
                 b == (n + 1) + 1
      <4>2. a \in 0 .. M - 1 /\ b \in 0 .. M - 1 /\ 0 \in 0 .. 3  BY <4>1, <2>2
      <4> HIDE DEF a, b
      <4>3. Overwritten(a, b, 0) = Encoded(a)  BY <4>2, OverwrittenType
      <4> QED  BY <4>3 DEF a, b
    <3>2. (n + 1) - 2 = n - 1 /\ (n + 1) - 1 = n  BY <1>1
    <3>3. n + 1 \in 2 .. M - 2
      <4> HIDE DEF M
      <4> QED  BY <1>1, <1>6
    <3>4. Copies(n + 1, k, i, j, 0)'  BY <1>1, <2>3, <2>5, <3>1, <3>2, <3>3 DEF Copies
    <3> QED  BY <1>4, <1>6, <3>4
  <2>6. CASE seeprom'[k] # Encoded(n + 1)
    <3>1. Checked(seeprom'[k]) => seeprom'[k] = Encoded(n - 2)
      <4> DEFINE old == n - 2
      <4>1. old \in 0 .. M - 4
        <5> HIDE DEF M
        <5> QED  BY <1>1
      <4>2. old + 3 = n + 1  BY <1>1
      <4> HIDE DEF old
      <4>3. Checked(Overwritten(old, old + 3, q)) =>
              \/ Overwritten(old, old + 3, q) = Encoded(old)
              \/ Overwritten(old, old + 3, q) = Encoded(old + 3)
        BY <4>1, <2>1, HalfWritten
      <4> QED  BY <4>2, <4>3, <2>4, <2>6 DEF old
    <3>2. Copies(n, i, j, k, q)'  BY <1>1, <2>1, <2>3, <2>4, <3>1 DEF Copies
    <3> QED  BY <1>4, <1>6, <2>1, <3>2
  <2> QED  BY <2>5, <2>6
<1> QED  BY <1>5, <1>6 DEF Writing

-----------------------------------------------------------------------------
(* The slot of the counter.  A new key has the lowest slot that is free,   *)
(* which is none of a preset key.                                          *)
LEMMA Smallest ==
  ASSUME NEW T, T \subseteq Nat, T # {}
  PROVE  \E x \in T : \A y \in T : x <= y
<1> DEFINE R == OpToRel(<, Nat)
<1>1. IsWellFoundedOn(R, Nat)  BY NatLessThanWellFounded
<1>2. \A x, y \in Nat : x < y => <<x, y>> \in R  BY DEF OpToRel
<1> HIDE DEF R
<1>3. PICK x \in T : \A y \in T : ~ (<<y, x>> \in R)  BY <1>1, WFMin
<1>4. \A y \in T : ~ (y < x)  BY <1>2, <1>3
<1> QED  BY <1>4

LEMMA FreeHandleIsFree ==
  ASSUME FreeHandles # {}
  PROVE  FreeHandle \in Handle /\ ~ keys[FreeHandle].used
<1>1. FreeHandles \subseteq Nat  BY TablesAssumption DEF FreeHandles, Handle
<1>2. \E h \in FreeHandles : \A g \in FreeHandles : h <= g  BY <1>1, Smallest
<1>3. FreeHandle \in FreeHandles  BY <1>2 DEF FreeHandle
<1> QED  BY <1>3 DEF FreeHandles

LEMMA CounterFacts ==
  /\ Counter \in DOMAIN Preset /\ Counter \in Handle
  /\ Counter \in Nat /\ Counter < CustomStart /\ Counter # RootKey
  /\ Preset[Counter].kind[1] = "other" /\ Preset[Counter].kind[2] = "UNKNOWN2"
<1>1. Counter \in DOMAIN Preset /\ Preset[Counter].kind[2] = "UNKNOWN2"
  <2>1. Counter \in {h \in DOMAIN Preset : Preset[h].kind[2] = "UNKNOWN2"}
    BY CounterAssumption
  <2> QED  BY <2>1
<1>2. /\ Counter \in Nat /\ Counter < CustomStart /\ Counter # RootKey
      /\ Counter \in Handle
  BY <1>1, TablesAssumption DEF RootKey, Handle
<1>3. Preset[Counter].kind[1] = "other"
  <2> DEFINE kind == Preset[Counter].kind
  <2>1. KeySize(kind) \in 0 .. PartSize  BY <1>1, TablesAssumption
  <2>2. KeySize(kind) # -1  BY <2>1 DEF PartSize
  <2>3. kind[2] = "UNKNOWN2"  BY <1>1
  <2> HIDE DEF kind
  <2>4. kind[1] = "other"  BY <2>2, <2>3 DEF KeySize, INVALID
  <2> QED  BY <2>4 DEF kind
<1> QED  BY <1>1, <1>2, <1>3

LEMMA CounterRead ==
  ASSUME CounterKey
  PROVE  /\ GetKeyMetadata(Counter) = keys[Counter].metadata
         /\ \A p : GetData(p, Counter) = keys[Counter].metadata
         /\ GetKeyTypes(Counter) = Preset[Counter].kind /\ keys[Counter].used
<1>1. keys[Counter].used /\ keys[Counter].kind = Preset[Counter].kind
  BY DEF CounterKey
<1>2. GetKeyMetadata(Counter) = keys[Counter].metadata  BY <1>1 DEF GetKeyMetadata
<1>3. GetKeyTypes(Counter) = Preset[Counter].kind
  BY <1>1, CounterFacts DEF GetKeyTypes, GetKeyKind
<1>4. ~ (Counter >= CustomStart)  BY CounterFacts, TablesAssumption
<1> QED  BY <1>1, <1>2, <1>3, <1>4, CounterFacts DEF GetData, GetKeyMetadataIfOthers

LEMMA InitialKeys ==
  ASSUME NEW c
  PROVE  LET k == Initial(c).keys
         IN /\ DOMAIN k = Handle
            /\ k[Counter] = [ used |-> TRUE, kind |-> Preset[Counter].kind,
                              owner |-> Preset[Counter].owner,
                              metadata |-> c, index |-> k[Counter].index ]
BY CounterFacts DEF Initial

-----------------------------------------------------------------------------
(* The invariant holds at the start, and every step keeps it.              *)
LEMMA InitialCopies ==
  ASSUME Field = "gen", SeepromInit
  PROVE  /\ seeprom \in [1 .. 3 -> Triple]
         /\ Copies(First + 2, 3, 2, 1, 0)
<1> USE WordRange
<1> DEFINE M == W * W
<1>1. M \in Int /\ First \in 0 .. M - 5  BY FirstAssumption
<1>2. ASSUME NEW i \in 1 .. 3
      PROVE  seeprom[i] = Encoded(First + i - 1) /\ seeprom[i] \in Triple
  <2> DEFINE n == First + i - 1
             d == <<n \div W, n % W>>
  <2>1. n \in 0 .. M - 1
    <3> HIDE DEF M
    <3> QED  BY <1>1
  <2>2. n \div W \in Word /\ n % W \in Word  BY <2>1, HighWord, Splits DEF Word
  <2>3. seeprom[i] = Sealed(<< >> \o d)  BY GenFacts DEF SeepromInit
  <2>4. Encoded(n) \in Triple  BY <2>1, EncodedType
  <2>5. Encoded(n) = [x \in 1 .. 3 |-> IF x = 3 THEN ((n \div W) + (n % W)) % W
                                      ELSE IF x = 1 THEN n \div W ELSE n % W]
    BY DEF Encoded
  <2> HIDE DEF n
  <2>6. d \in Seq(Word) /\ Len(d) = 2 /\ d[1] = n \div W /\ d[2] = n % W  BY <2>2
  <2> HIDE DEF d
  <2>7. << >> \o d = d  BY <2>6, ConcatEmptySeq
  <2>8. Sealed(d) = [x \in 1 .. 3 |-> IF x = 3 THEN (d[1] + d[2]) % W ELSE d[x]]
    BY <2>6, SealedTwo
  <2>9. Sealed(d) = Encoded(n)  BY <2>5, <2>6, <2>8
  <2> QED  BY <2>3, <2>4, <2>7, <2>9 DEF n
<1>3. seeprom \in [1 .. 3 -> Triple]
  <2>1. DOMAIN seeprom = 1 .. 3 /\ seeprom = [i \in 1 .. 3 |-> seeprom[i]]
    BY GenFacts DEF SeepromInit
  <2> QED  BY <1>2, <2>1
<1>4. /\ seeprom[3] = Encoded(First + 2) /\ seeprom[2] = Encoded((First + 2) - 1)
      /\ seeprom[1] = Encoded((First + 2) - 2)
  <2>1. First + 3 - 1 = First + 2 /\ First + 2 - 1 = (First + 2) - 1 /\ First + 1 - 1 = (First + 2) - 2
    BY <1>1
  <2>2. 1 \in 1 .. 3 /\ 2 \in 1 .. 3 /\ 3 \in 1 .. 3  OBVIOUS
  <2> QED  BY <1>2, <2>1, <2>2
<1>5. seeprom[1] = Overwritten((First + 2) - 2, (First + 2) + 1, 0)
  <2> DEFINE old == (First + 2) - 2
             new == (First + 2) + 1
  <2>1. old \in 0 .. M - 1 /\ new \in 0 .. M - 1 /\ 0 \in 0 .. 3
    <3> HIDE DEF M
    <3> QED  BY <1>1
  <2> HIDE DEF old, new
  <2>2. Overwritten(old, new, 0) = Encoded(old)  BY <2>1, OverwrittenType
  <2> QED  BY <1>4, <2>2 DEF old, new
<1>6. First + 2 \in 2 .. M - 2
  <2> HIDE DEF M
  <2> QED  BY <1>1
<1> QED  BY <1>3, <1>4, <1>5, <1>6 DEF Copies

LEMMA Start ==
  ASSUME Field = "gen", Init
  PROVE  IInv
<1> DEFINE n == First + 2
<1>1. seeprom \in [1 .. 3 -> Triple] /\ Copies(n, 3, 2, 1, 0)
  BY InitialCopies DEF Init
<1>2. Reading = n  BY <1>1, Now DEF ReadingFact
<1>3. keys = Initial(Reading).keys /\ call = Idle  BY DEF Init
<1>4. CounterKey /\ keys[Counter].metadata = n
  <2> DEFINE k == Initial(n).keys
  <2>1. /\ DOMAIN k = Handle
        /\ k[Counter] = [ used |-> TRUE, kind |-> Preset[Counter].kind,
                          owner |-> Preset[Counter].owner,
                          metadata |-> n, index |-> k[Counter].index ]
    BY InitialKeys
  <2>2. keys = k  BY <1>2, <1>3
  <2> HIDE DEF n, k
  <2>3. keys[Counter].metadata = n  BY <2>1, <2>2
  <2> QED  BY <2>1, <2>2, <2>3 DEF CounterKey
<1>5. n \in 2 .. W * W - 2  BY <1>1 DEF Copies
<1>6. Progress(n, 3, 2, 1, 0)  BY <1>1, <1>3, <1>4, <1>5 DEF Progress
<1>7. 0 \in 0 .. 3 /\ 1 \in 1 .. 3 /\ 2 \in 1 .. 3 /\ 3 \in 1 .. 3  OBVIOUS
<1> HIDE DEF n
<1> QED  BY <1>1, <1>4, <1>5, <1>6, <1>7 DEF IInv

(* What a step does for the program that reads the counter.                *)
Advances ==
  /\ IInv'
  /\ Reading' = Reading \/ (Reading < W * W - 2 /\ Reading' = Reading + 1)
  /\ Reading \in 0 .. W * W - 2
  /\ keys[Counter].metadata <= keys'[Counter].metadata

(* It is shown by telling what the copies have become.                     *)
LEMMA Witnessed ==
  ASSUME Field = "gen", CounterKey', (seeprom \in [1 .. 3 -> Triple])',
         keys[Counter].metadata <= keys'[Counter].metadata,
         NEW n, NEW i, NEW j, NEW k, NEW p, Copies(n, i, j, k, p),
         NEW m, NEW a, NEW b, NEW c, NEW q, Progress(m, a, b, c, q)',
         m = n \/ (n < W * W - 2 /\ m = n + 1)
  PROVE  Advances
<1>1. ReadingFact'  BY Now, PTL
<1>2. Copies(m, a, b, c, q)'  BY DEF Progress
<1>3. Reading = n /\ Reading' = m  BY <1>1, <1>2, Now DEF ReadingFact
<1>4. n \in 2 .. W * W - 2  BY DEF Copies
<1>5. m \in 2 .. W * W - 2 /\ a \in 1 .. 3 /\ b \in 1 .. 3 /\ c \in 1 .. 3 /\ q \in 0 .. 3
  BY <1>2 DEF Copies
<1>6. IInv'  BY <1>5 DEF IInv
<1> QED  BY <1>3, <1>4, <1>6, WordRange DEF Advances

LEMMA OtherKey ==
  ASSUME CounterKey, NEW h \in Handle, h # Counter, NEW v, keys' = [keys EXCEPT ![h] = v]
  PROVE  CounterKey' /\ keys'[Counter] = keys[Counter]
<1>1. keys'[Counter] = keys[Counter] /\ DOMAIN keys' = Handle
  BY CounterFacts DEF CounterKey
<1> QED  BY <1>1 DEF CounterKey

LEMMA CounterSet ==
  ASSUME CounterKey, NEW v, keys' = [keys EXCEPT ![Counter].metadata = v]
  PROVE  CounterKey' /\ keys'[Counter].metadata = v
<1>1. keys'[Counter] = [keys[Counter] EXCEPT !.metadata = v] /\ DOMAIN keys' = Handle
  BY CounterFacts DEF CounterKey
<1> DEFINE old == keys[Counter]
           new == keys'[Counter]
<1>2. \E m, x : old = [ used |-> TRUE, kind |-> Preset[Counter].kind,
                        owner |-> Preset[Counter].owner, metadata |-> m, index |-> x ]
  BY DEF CounterKey
<1>3. new = [old EXCEPT !.metadata = v]  BY <1>1
<1> HIDE DEF old, new
<1>4. PICK m, x : old = [ used |-> TRUE, kind |-> Preset[Counter].kind,
                          owner |-> Preset[Counter].owner, metadata |-> m, index |-> x ]
  BY <1>2
<1>5. new = [ used |-> TRUE, kind |-> Preset[Counter].kind, owner |-> Preset[Counter].owner,
              metadata |-> v, index |-> x ]
  BY <1>3, <1>4
<1>6. new.metadata = v /\ new.index = x  BY <1>5
<1>7. new = [ used |-> TRUE, kind |-> Preset[Counter].kind, owner |-> Preset[Counter].owner,
              metadata |-> new.metadata, index |-> new.index ]
  BY <1>5, <1>6
<1> QED  BY <1>1, <1>6, <1>7 DEF new, CounterKey

LEMMA IdleFacts ==
  /\ Idle.next = 0 /\ call \in [ value : Nat, copy : 1 .. 3, words : Triple, next : 1 .. 3 ] => call # Idle
BY DEF Idle

(* The step, one lemma for each kind of it.  Nothing of the copies changes *)
(* in the first.                                                           *)
LEMMA CopiesKept ==
  ASSUME Field = "gen", UNCHANGED seeprom, NEW n, NEW i, NEW j, NEW k, NEW p,
         Copies(n, i, j, k, p), seeprom \in [1 .. 3 -> Triple],
         CounterKey', keys[Counter].metadata <= keys'[Counter].metadata,
         keys'[Counter].metadata \in 0 .. n, (call # Idle => Writing(n, i, k, p))'
  PROVE  Advances
<1>1. Copies(n, i, j, k, p)'  BY DEF Copies
<1>2. Progress(n, i, j, k, p)'  BY <1>1 DEF Progress
<1>3. (seeprom \in [1 .. 3 -> Triple])'  OBVIOUS
<1> QED  BY <1>2, <1>3, Witnessed

LEMMA KeysStep ==
  ASSUME Field = "gen", IInv, NEW p \in Process,
         \/ \E kind \in Kind : CreateObject(p, kind)
         \/ \E h \in Handle : DeleteObject(p, h)
  PROVE  Advances
<1>1. PICK n, i, j, k, q : Progress(n, i, j, k, q)  BY DEF IInv
<1>2. UNCHANGED <<seeprom, call>> /\ call = Idle  BY DEF CreateObject, DeleteObject
<1>3. \E h \in Handle : h # Counter /\ \E v : keys' = [keys EXCEPT ![h] = v]
  <2>1. CASE \E kind \in Kind : CreateObject(p, kind)
    <3>1. PICK kind \in Kind : CreateObject(p, kind)  BY <2>1
    <3>2. FreeHandles # {} /\ \E v : keys' = [keys EXCEPT ![FreeHandle] = v]
      BY <3>1 DEF CreateObject
    <3>3. keys[Counter].used  BY CounterRead DEF IInv
    <3> QED  BY <3>2, <3>3, FreeHandleIsFree
  <2>2. CASE \E h \in Handle : DeleteObject(p, h)
    <3>1. PICK h \in Handle : DeleteObject(p, h)  BY <2>2
    <3>2. h >= CustomStart /\ keys' = [keys EXCEPT ![h] = [keys[h] EXCEPT !.used = FALSE]]
      BY <3>1 DEF DeleteObject
    <3>3. h # Counter  BY <3>2, CounterFacts, TablesAssumption
    <3> QED  BY <3>2, <3>3
  <2> QED  BY <2>1, <2>2
<1>4. CounterKey' /\ keys'[Counter] = keys[Counter]  BY <1>3, OtherKey DEF IInv
<1>5. Copies(n, i, j, k, q) /\ keys[Counter].metadata \in 0 .. n  BY <1>1 DEF Progress
<1>6. keys[Counter].metadata <= keys'[Counter].metadata /\ keys'[Counter].metadata \in 0 .. n
  BY <1>4, <1>5
<1>7. (call # Idle)' => FALSE  BY <1>2 DEF Idle
<1> QED  BY <1>2, <1>4, <1>5, <1>6, <1>7, CopiesKept DEF IInv

(* An update begins: the next number goes over the oldest copy.            *)
LEMMA Begun ==
  ASSUME Field = "gen", NEW n, NEW i, NEW j, NEW k, NEW p, Copies(n, i, j, k, p),
         n # W * W - 2, NEW beyond
  PROVE  /\ Oldest = k /\ Updated(Read(beyond)) = Encoded(n + 1) /\ n < W * W - 2
         /\ Encoded(n + 1) \in Triple
<1>1. n \in 2 .. W * W - 2  BY DEF Copies
<1>2. n < W * W - 2 /\ n + 1 \in 0 .. W * W - 1
  <2> DEFINE M == W * W
  <2>1. M \in Int  BY WordRange
  <2> HIDE DEF M
  <2>2. n < M - 2 /\ n + 1 \in 0 .. M - 1  BY <1>1, <2>1 DEF M
  <2> QED  BY <2>2 DEF M
<1>3. Encoded(n + 1) \in Triple  BY <1>2, EncodedType
<1> QED  BY <1>2, <1>3, Now DEF ReadingFact

LEMMA SetDataStep ==
  ASSUME Field = "gen", IInv, NEW p \in Process, NEW h \in Handle, NEW v \in Values,
         SetData(p, h, v)
  PROVE  Advances
<1>1. PICK n, i, j, k, q : Progress(n, i, j, k, q)  BY DEF IInv
<1>2. Copies(n, i, j, k, q) /\ keys[Counter].metadata \in 0 .. n /\ CounterKey
      /\ seeprom \in [1 .. 3 -> Triple]
  BY <1>1 DEF Progress, IInv
<1>3. UNCHANGED seeprom /\ call = Idle  BY DEF SetData
<1>4. Reading = n /\ Readable  BY <1>2, Now DEF ReadingFact
<1>5. n \in Nat /\ v \in Nat  BY <1>2, ValuesAssumption DEF Copies
<1>6. h = Counter => v >= keys[Counter].metadata
  BY <1>2, CounterFacts, CounterRead DEF SetData, Accepted, ValidVersion
<1>7. CASE (h # Counter \/ ~ Below(v)) /\ keys' = [keys EXCEPT ![h].metadata = v] /\ call' = call
  <2>1. call' = Idle  BY <1>3, <1>7
  <2>2. (call # Idle)' => FALSE  BY <2>1 DEF Idle
  <2>3. CASE h # Counter
    <3>1. \E w : keys' = [keys EXCEPT ![h] = w]  BY <1>7
    <3>2. CounterKey' /\ keys'[Counter] = keys[Counter]  BY <1>2, <2>3, <3>1, OtherKey
    <3>3. keys[Counter].metadata <= keys'[Counter].metadata /\ keys'[Counter].metadata \in 0 .. n
      BY <1>2, <3>2
    <3> QED  BY <1>2, <1>3, <2>2, <3>2, <3>3, CopiesKept
  <2>4. CASE h = Counter
    <3>1. keys' = [keys EXCEPT ![Counter].metadata = v]  BY <1>7, <2>4
    <3>2. CounterKey' /\ keys'[Counter].metadata = v  BY <1>2, <3>1, CounterSet
    <3>3. v <= n  BY <1>4, <1>5, <1>7, <2>4 DEF Below
    <3>4. keys[Counter].metadata <= keys'[Counter].metadata /\ keys'[Counter].metadata \in 0 .. n
      BY <1>2, <1>5, <1>6, <2>4, <3>2, <3>3
    <3> QED  BY <1>2, <1>3, <2>2, <3>2, <3>4, CopiesKept
  <2> QED  BY <2>3, <2>4
<1>8. CASE h = Counter /\ Below(v) /\ MayUpdate /\ keys' = keys
           /\ \E beyond \in Beyond : call' = UpdateFrom(beyond, v)
  <2>1. PICK beyond : call' = UpdateFrom(beyond, v)  BY <1>8
  <2>2. n # W * W - 2  BY <1>4, <1>8 DEF MayUpdate
  <2>3. /\ Oldest = k /\ Updated(Read(beyond)) = Encoded(n + 1) /\ n < W * W - 2
        /\ Encoded(n + 1) \in Triple
    BY <1>2, <2>2, Begun
  <2>4. call' = [value |-> v, copy |-> k, words |-> Encoded(n + 1), next |-> 1]
    BY <2>1, <2>3 DEF UpdateFrom
  <2>5. k \in 1 .. 3 /\ q \in 0 .. 3  BY <1>2 DEF Copies
  <2>6. CounterKey'  BY <1>2, <1>8 DEF CounterKey
  <2>7. Writing(n, i, k, q)'
    <3>1. call' \in [ value : Nat, copy : 1 .. 3, words : Triple, next : 1 .. 3 ]
      BY <1>5, <2>3, <2>4, <2>5
    <3>2. /\ call'.value = v /\ call'.copy = k /\ call'.words = Encoded(n + 1)
          /\ call'.next <= q + 1
      BY <2>4, <2>5
    <3> QED  BY <1>6, <1>8, <2>3, <3>1, <3>2 DEF Writing
  <2>8. keys[Counter].metadata <= keys'[Counter].metadata /\ keys'[Counter].metadata \in 0 .. n
    BY <1>2, <1>8
  <2> QED  BY <1>2, <1>3, <2>6, <2>7, <2>8, CopiesKept
<1> QED  BY <1>7, <1>8 DEF SetData, SetKeyMetadata

(* What has become of the copies when a word is or is not written.         *)
LEMMA Sent ==
  ASSUME Field = "gen", NEW n, NEW i, NEW j, NEW k, NEW p, Progress(n, i, j, k, p),
         seeprom \in [1 .. 3 -> Triple], call # Idle, UpdateCounter
  PROVE  /\ seeprom' \in [1 .. 3 -> Triple]
         /\ \E m, a, b, c, q :
              /\ Copies(m, a, b, c, q)' /\ (m = n \/ (n < W * W - 2 /\ m = n + 1))
              /\ \/ /\ call.copy = c /\ call.words = Encoded(m + 1)
                    /\ m < W * W - 2 /\ call.next <= q
                 \/ call.copy = a /\ call.words = Encoded(m)
<1>1. Copies(n, i, j, k, p) /\ Writing(n, i, k, p)  BY DEF Progress
<1>2. /\ seeprom' \in [1 .. 3 -> Triple]
      /\ \/ /\ Copies(n, i, j, k, p)' /\ call.copy = i /\ call.words = Encoded(n)
         \/ /\ call.copy = k /\ call.words = Encoded(n + 1) /\ n < W * W - 2
            /\ \/ \E q \in 0 .. 3 : Copies(n, i, j, k, q)' /\ call.next <= q
               \/ Copies(n + 1, k, i, j, 0)'
  BY <1>1, WordSent
<1>3. CASE Copies(n, i, j, k, p)' /\ call.copy = i /\ call.words = Encoded(n)
  BY <1>2, <1>3
<1>4. CASE /\ call.copy = k /\ call.words = Encoded(n + 1) /\ n < W * W - 2
           /\ \E q \in 0 .. 3 : Copies(n, i, j, k, q)' /\ call.next <= q
  BY <1>2, <1>4
<1>5. CASE /\ call.copy = k /\ call.words = Encoded(n + 1) /\ n < W * W - 2
           /\ Copies(n + 1, k, i, j, 0)'
  BY <1>2, <1>5
<1> QED  BY <1>2, <1>3, <1>4, <1>5

LEMMA NextWordStep ==
  ASSUME Field = "gen", IInv, NextWord
  PROVE  Advances
<1>1. PICK n, i, j, k, p : Progress(n, i, j, k, p)  BY DEF IInv
<1>2. Copies(n, i, j, k, p) /\ keys[Counter].metadata \in 0 .. n /\ CounterKey
      /\ seeprom \in [1 .. 3 -> Triple]
  BY <1>1 DEF Progress, IInv
<1>3. call # Idle /\ call.next \in 1 .. 2 /\ UpdateCounter /\ keys' = keys
      /\ call' = [call EXCEPT !.next = call.next + 1]
  BY GenFacts DEF NextWord, Idle
<1>4. seeprom' \in [1 .. 3 -> Triple]  BY <1>1, <1>2, <1>3, Sent
<1>5. PICK m, a, b, c, q :
        /\ Copies(m, a, b, c, q)' /\ (m = n \/ (n < W * W - 2 /\ m = n + 1))
        /\ \/ /\ call.copy = c /\ call.words = Encoded(m + 1)
              /\ m < W * W - 2 /\ call.next <= q
           \/ call.copy = a /\ call.words = Encoded(m)
  BY <1>1, <1>2, <1>3, Sent
<1>6. /\ call \in [ value : Nat, copy : 1 .. 3, words : Triple, next : 1 .. 3 ]
      /\ keys[Counter].metadata <= call.value
  BY <1>1, <1>3 DEF Progress, Writing
<1>7. /\ call' \in [ value : Nat, copy : 1 .. 3, words : Triple, next : 1 .. 3 ]
      /\ call'.value = call.value /\ call'.copy = call.copy /\ call'.words = call.words
      /\ call'.next = call.next + 1
  BY <1>3, <1>6
<1>8. q \in 0 .. 3 /\ n \in Nat  BY <1>2, <1>5 DEF Copies
<1>9. Writing(m, a, c, q)'
  <2>1. call.next <= q => call.next + 1 <= q + 1  BY <1>3, <1>8
  <2>2. \/ /\ call'.copy = c /\ call'.words = Encoded(m + 1)
           /\ m < W * W - 2 /\ call'.next <= q + 1
        \/ call'.copy = a /\ call'.words = Encoded(m)
    BY <1>5, <1>7, <2>1
  <2> QED  BY <1>3, <1>6, <1>7, <2>2 DEF Writing
<1>10. keys[Counter].metadata \in 0 .. m  BY <1>2, <1>5, <1>8
<1>11. Progress(m, a, b, c, q)'  BY <1>3, <1>5, <1>9, <1>10 DEF Progress
<1>12. CounterKey' /\ keys[Counter].metadata <= keys'[Counter].metadata
  BY <1>2, <1>3 DEF CounterKey
<1> QED  BY <1>2, <1>4, <1>5, <1>11, <1>12, Witnessed

LEMMA LastWordStep ==
  ASSUME Field = "gen", IInv, LastWord
  PROVE  Advances
<1>1. PICK n, i, j, k, p : Progress(n, i, j, k, p)  BY DEF IInv
<1>2. Copies(n, i, j, k, p) /\ keys[Counter].metadata \in 0 .. n /\ CounterKey
      /\ seeprom \in [1 .. 3 -> Triple]
  BY <1>1 DEF Progress, IInv
<1>3. call # Idle /\ call.next = 3 /\ UpdateCounter  BY GenFacts DEF LastWord, Idle
<1>4. seeprom' \in [1 .. 3 -> Triple]  BY <1>1, <1>2, <1>3, Sent
<1>5. PICK m, a, b, c, q :
        Copies(m, a, b, c, q)' /\ (m = n \/ (n < W * W - 2 /\ m = n + 1))
  BY <1>1, <1>2, <1>3, Sent
<1>6. /\ call \in [ value : Nat, copy : 1 .. 3, words : Triple, next : 1 .. 3 ]
      /\ keys[Counter].metadata <= call.value
  BY <1>1, <1>3 DEF Progress, Writing
<1>7. ReadingFact'  BY Now, PTL
<1>8. /\ Reading' = m /\ Readable' /\ Oldest' = c
      /\ \A beyond : Updated(Read(beyond))' = Encoded(m + 1)
  BY <1>5, <1>7 DEF ReadingFact
<1>9. n \in Nat /\ m \in 2 .. W * W - 2 /\ c \in 1 .. 3 /\ q \in 0 .. 3
  BY <1>2, <1>5 DEF Copies
<1>10. keys[Counter].metadata \in 0 .. m  BY <1>2, <1>5, <1>9
<1>11. CASE /\ ~ (Readable' /\ Reading' < call.value)
            /\ keys' = [keys EXCEPT ![Counter].metadata = call.value] /\ call' = Idle
  <2>1. CounterKey' /\ keys'[Counter].metadata = call.value  BY <1>2, <1>11, CounterSet
  <2>2. call.value \in 0 .. m  BY <1>6, <1>8, <1>9, <1>11
  <2>3. Progress(m, a, b, c, q)'  BY <1>5, <1>11, <2>1, <2>2 DEF Progress, Idle
  <2> QED  BY <1>2, <1>4, <1>5, <1>6, <2>1, <2>3, Witnessed
<1>12. CASE /\ keys' = keys /\ MayUpdate'
            /\ \E beyond \in Beyond :
                 call' = [UpdateFrom(beyond, 0)' EXCEPT !.value = call.value]
  <2>1. PICK beyond : call' = [UpdateFrom(beyond, 0)' EXCEPT !.value = call.value]
    BY <1>12
  <2>2. call' = [value |-> call.value, copy |-> c, words |-> Encoded(m + 1), next |-> 1]
    BY <1>8, <2>1 DEF UpdateFrom
  <2>3. m # W * W - 2  BY <1>8, <1>12 DEF MayUpdate
  <2>4. m < W * W - 2 /\ m + 1 \in 0 .. W * W - 1
    <3> DEFINE M == W * W
    <3>1. M \in Int  BY WordRange
    <3> HIDE DEF M
    <3>2. m < M - 2 /\ m + 1 \in 0 .. M - 1  BY <1>9, <2>3, <3>1 DEF M
    <3> QED  BY <3>2 DEF M
  <2>5. Encoded(m + 1) \in Triple  BY <2>4, EncodedType
  <2>6. call' \in [ value : Nat, copy : 1 .. 3, words : Triple, next : 1 .. 3 ]
    BY <1>6, <1>9, <2>2, <2>5
  <2>7. /\ call'.value = call.value /\ call'.copy = c /\ call'.words = Encoded(m + 1)
        /\ call'.next <= q + 1
    BY <1>9, <2>2
  <2>8. Writing(m, a, c, q)'  BY <1>6, <1>12, <2>4, <2>6, <2>7 DEF Writing
  <2>9. Progress(m, a, b, c, q)'  BY <1>5, <1>10, <1>12, <2>8 DEF Progress
  <2>10. CounterKey' /\ keys[Counter].metadata <= keys'[Counter].metadata
    BY <1>2, <1>12 DEF CounterKey
  <2> QED  BY <1>2, <1>4, <1>5, <2>9, <2>10, Witnessed
<1>13. CASE keys' = keys /\ call' = Idle
  <2>1. Progress(m, a, b, c, q)'  BY <1>5, <1>10, <1>13 DEF Progress, Idle
  <2>2. CounterKey' /\ keys[Counter].metadata <= keys'[Counter].metadata
    BY <1>2, <1>13 DEF CounterKey
  <2> QED  BY <1>2, <1>4, <1>5, <2>1, <2>2, Witnessed
<1> QED  BY <1>11, <1>12, <1>13 DEF LastWord, SetKeyMetadata

LEMMA FailureStep ==
  ASSUME Field = "gen", IInv, WaitNotBusyFails
  PROVE  Advances
<1>1. PICK n, i, j, k, p : Progress(n, i, j, k, p)  BY DEF IInv
<1>2. Copies(n, i, j, k, p) /\ keys[Counter].metadata \in 0 .. n /\ CounterKey
      /\ seeprom \in [1 .. 3 -> Triple]
  BY <1>1 DEF Progress, IInv
<1>3. call # Idle /\ keys' = keys /\ call' = Idle  BY DEF WaitNotBusyFails, AfterFailure
<1>4. CounterKey' /\ keys[Counter].metadata <= keys'[Counter].metadata
  BY <1>2, <1>3 DEF CounterKey
<1>5. CASE UpdateCounter
  <2>1. seeprom' \in [1 .. 3 -> Triple]  BY <1>1, <1>2, <1>3, <1>5, Sent
  <2>2. PICK m, a, b, c, q :
          Copies(m, a, b, c, q)' /\ (m = n \/ (n < W * W - 2 /\ m = n + 1))
    BY <1>1, <1>2, <1>3, <1>5, Sent
  <2>3. n \in Nat  BY <1>2 DEF Copies
  <2>4. keys[Counter].metadata \in 0 .. m  BY <1>2, <2>2, <2>3
  <2>5. Progress(m, a, b, c, q)'  BY <1>3, <2>2, <2>4 DEF Progress, Idle
  <2> QED  BY <1>2, <1>4, <2>1, <2>2, <2>5, Witnessed
<1>6. CASE seeprom' = seeprom
  <2>1. (call # Idle)' => FALSE  BY <1>3 DEF Idle
  <2>2. keys'[Counter].metadata \in 0 .. n  BY <1>2, <1>3
  <2> QED  BY <1>2, <1>4, <1>6, <2>1, <2>2, CopiesKept
<1> QED  BY <1>5, <1>6 DEF WaitNotBusyFails

LEMMA PowerCutStep ==
  ASSUME Field = "gen", IInv, PowerCut
  PROVE  Advances
<1>1. PICK n, i, j, k, p : Progress(n, i, j, k, p)  BY DEF IInv
<1>2. Copies(n, i, j, k, p) /\ keys[Counter].metadata \in 0 .. n /\ CounterKey
      /\ seeprom \in [1 .. 3 -> Triple]
  BY <1>1 DEF Progress, IInv
<1>3. Reading = n  BY <1>2, Now DEF ReadingFact
<1>4. seeprom' = seeprom /\ call' = Idle /\ keys' = Initial(n).keys
  BY <1>3 DEF PowerCut
<1> DEFINE k2 == Initial(n).keys
<1>5. /\ DOMAIN k2 = Handle
      /\ k2[Counter] = [ used |-> TRUE, kind |-> Preset[Counter].kind,
                         owner |-> Preset[Counter].owner,
                         metadata |-> n, index |-> k2[Counter].index ]
  BY InitialKeys
<1>6. keys' = k2  BY <1>4
<1> HIDE DEF k2
<1>7. k2[Counter].metadata = n  BY <1>5
<1>8. CounterKey' /\ keys'[Counter].metadata = n  BY <1>5, <1>6, <1>7 DEF CounterKey
<1>9. n \in Nat  BY <1>2 DEF Copies
<1>10. keys[Counter].metadata <= keys'[Counter].metadata /\ keys'[Counter].metadata \in 0 .. n
  BY <1>2, <1>8, <1>9
<1>11. (call # Idle)' => FALSE  BY <1>4 DEF Idle
<1> QED  BY <1>2, <1>4, <1>8, <1>10, <1>11, CopiesKept

LEMMA StepAdvances ==
  ASSUME Field = "gen", IInv, [Next]_vars
  PROVE  Advances
<1>1. CASE \E p \in Process : \/ \E kind \in Kind : CreateObject(p, kind)
                             \/ \E h \in Handle : DeleteObject(p, h)
  BY <1>1, KeysStep
<1>2. CASE \E p \in Process, h \in Handle, v \in Values : SetData(p, h, v)
  BY <1>2, SetDataStep
<1>3. CASE NextWord  BY <1>3, NextWordStep
<1>4. CASE LastWord  BY <1>4, LastWordStep
<1>5. CASE WaitNotBusyFails  BY <1>5, FailureStep
<1>6. CASE PowerCut  BY <1>6, PowerCutStep
<1>7. CASE UNCHANGED vars
  <2>1. PICK n, i, j, k, p : Progress(n, i, j, k, p)  BY DEF IInv
  <2>2. Copies(n, i, j, k, p) /\ keys[Counter].metadata \in 0 .. n
        /\ (call # Idle => Writing(n, i, k, p))
    BY <2>1 DEF Progress
  <2>3. UNCHANGED <<keys, seeprom, call>>  BY <1>7 DEF vars
  <2>4. (call # Idle => Writing(n, i, k, p))'  BY <2>2, <2>3 DEF Writing, Idle
  <2>5. CounterKey'  BY <2>3 DEF IInv, CounterKey
  <2>6. keys[Counter].metadata <= keys'[Counter].metadata /\ keys'[Counter].metadata \in 0 .. n
    BY <2>2, <2>3
  <2> QED  BY <2>2, <2>3, <2>4, <2>5, <2>6, CopiesKept DEF IInv
<1> QED  BY <1>1, <1>2, <1>3, <1>4, <1>5, <1>6, <1>7 DEF Next

LEMMA InvariantHolds == Field = "gen" => (Spec => []IInv)
<1> SUFFICES ASSUME Field = "gen" PROVE Spec => []IInv  OBVIOUS
<1>1. Init => IInv  BY Start
<1>2. IInv /\ [Next]_vars => IInv'  BY StepAdvances DEF Advances
<1> QED  BY <1>1, <1>2, PTL DEF Spec

LEMMA MetadataRead ==
  IInv => /\ keys[Counter].metadata \in Nat
          /\ GetKeyMetadata(Counter) = keys[Counter].metadata
BY CounterRead DEF IInv, Progress, Copies

-----------------------------------------------------------------------------
(* The generation of the NAND that programs read has been reached by the   *)
(* SEEPROM, which can be read at any time: no start takes a value back     *)
(* that IOSC_SetData has reported.                                         *)
THEOREM GenerationIsBacked == Field = "gen" => (Spec => []CounterIsBacked)
<1> SUFFICES ASSUME Field = "gen" PROVE Spec => []CounterIsBacked  OBVIOUS
<1>1. IInv => CounterIsBacked
  <2> SUFFICES ASSUME IInv PROVE CounterIsBacked  OBVIOUS
  <2>1. PICK n, i, j, k, p : Progress(n, i, j, k, p)  BY DEF IInv
  <2>2. Readable /\ Reading = n /\ keys[Counter].metadata \in 0 .. n
    BY <2>1, Now DEF Progress, ReadingFact
  <2> QED  BY <2>2, CounterRead DEF IInv, CounterIsBacked
<1> QED  BY <1>1, InvariantHolds, PTL

(* The generation kept in three copies is a counter that only advances by  *)
(* one, also over updates that stop between two of their words; and what   *)
(* programs read of it never decreases.                                    *)
THEOREM GenerationImplementsCounter == Field = "gen" => (Spec => ImplementsCounter)
<1> SUFFICES ASSUME Field = "gen" PROVE Spec => ImplementsCounter  OBVIOUS
<1>1. Largest = W * W - 2  BY DEF Largest
<1>2. IInv => Reading \in 0 .. W * W - 2
  <2> SUFFICES ASSUME IInv PROVE Reading \in 0 .. W * W - 2  OBVIOUS
  <2>1. PICK n, i, j, k, p : Copies(n, i, j, k, p)  BY DEF IInv, Progress
  <2>2. Reading = n /\ n \in 2 .. W * W - 2  BY <2>1, Now DEF ReadingFact, Copies
  <2> QED  BY <2>2, WordRange
<1>3. Init => Abstract!Init  BY <1>1, <1>2, Start DEF Abstract!Init
<1>4. IInv /\ [Next]_vars => [Abstract!Advance]_Reading
  BY <1>1, StepAdvances DEF Advances, Abstract!Advance
<1>5. IInv /\ IInv' /\ [Next]_vars
        => [GetKeyMetadata(Counter)' >= GetKeyMetadata(Counter)]_vars
  <2> SUFFICES ASSUME IInv, IInv', [Next]_vars
               PROVE  GetKeyMetadata(Counter)' >= GetKeyMetadata(Counter)
    OBVIOUS
  <2>1. (IInv => /\ keys[Counter].metadata \in Nat
                 /\ GetKeyMetadata(Counter) = keys[Counter].metadata)'
    BY MetadataRead, PTL
  <2>2. keys[Counter].metadata <= keys'[Counter].metadata  BY StepAdvances DEF Advances
  <2> QED  BY <2>1, <2>2, MetadataRead
<1> QED  BY <1>3, <1>4, <1>5, InvariantHolds, PTL DEF Spec, ImplementsCounter, Abstract!Spec

-----------------------------------------------------------------------------
(* The ranks of the members of a finite set of numbers: how many members   *)
(* are below each.                                                         *)
Rank(S, x) == Cardinality({y \in S : y < x})

LEMMA Greatest ==
  ASSUME NEW T, T \subseteq Nat, T # {}, NEW m \in Nat, \A x \in T : x <= m
  PROVE  \E x \in T : \A y \in T : y <= x
<1> DEFINE D == {m - x : x \in T}
<1>1. D \subseteq Nat /\ D # {}
  <2>1. ASSUME NEW x \in T PROVE m - x \in Nat
    <3>1. x \in Nat /\ x <= m  OBVIOUS
    <3> QED  BY <3>1
  <2> QED  BY <2>1
<1>2. PICK d \in D : \A c \in D : d <= c
  <2> HIDE DEF D
  <2> QED  BY <1>1, Smallest
<1>3. PICK x \in T : d = m - x  BY <1>2
<1>4. ASSUME NEW y \in T PROVE y <= x
  <2>1. m - y \in D  OBVIOUS
  <2>2. m - x <= m - y  BY <1>2, <1>3, <2>1
  <2>3. x \in Nat /\ y \in Nat  OBVIOUS
  <2> QED  BY <2>2, <2>3
<1> QED  BY <1>4

LEMMA RankFacts ==
  ASSUME NEW S, S \subseteq Nat, IsFiniteSet(S)
  PROVE  /\ \A x \in S : Rank(S, x) \in 0 .. Cardinality(S) - 1
         /\ \A x, y \in S : x < y => Rank(S, x) < Rank(S, y)
<1> DEFINE B(x) == {y \in S : y < x}
<1>0. Cardinality(S) \in Nat  BY FS_CardinalityType
<1>1. ASSUME NEW x \in S
      PROVE  /\ IsFiniteSet(B(x)) /\ Cardinality(B(x)) \in Nat
             /\ Cardinality(B(x) \cup {x}) = Cardinality(B(x)) + 1
             /\ Rank(S, x) = Cardinality(B(x))
  <2>1. B(x) \in SUBSET S /\ x \notin B(x)  OBVIOUS
  <2>2. IsFiniteSet(B(x))  BY <2>1, FS_Subset
  <2> QED  BY <2>1, <2>2, FS_CardinalityType, FS_AddElement DEF Rank
<1>2. ASSUME NEW x \in S PROVE Rank(S, x) \in 0 .. Cardinality(S) - 1
  <2>1. B(x) \cup {x} \in SUBSET S  OBVIOUS
  <2>2. Cardinality(B(x) \cup {x}) <= Cardinality(S)  BY <2>1, FS_Subset
  <2>3. /\ Cardinality(B(x)) \in Nat /\ Rank(S, x) = Cardinality(B(x))
        /\ Cardinality(B(x) \cup {x}) = Cardinality(B(x)) + 1
    BY <1>1
  <2> HIDE DEF B
  <2> QED  BY <1>0, <2>2, <2>3
<1>3. ASSUME NEW x \in S, NEW y \in S, x < y PROVE Rank(S, x) < Rank(S, y)
  <2>1. \A z \in B(x) \cup {x} : z \in S /\ z < y
    <3>1. x \in Nat /\ y \in Nat /\ \A z \in B(x) : z \in Nat /\ z < x  OBVIOUS
    <3> QED  BY <1>3, <3>1
  <2>2. B(x) \cup {x} \in SUBSET B(y)  BY <2>1
  <2>3. /\ IsFiniteSet(B(y)) /\ Cardinality(B(y)) \in Nat /\ Rank(S, y) = Cardinality(B(y))
        /\ Cardinality(B(x)) \in Nat /\ Rank(S, x) = Cardinality(B(x))
        /\ Cardinality(B(x) \cup {x}) = Cardinality(B(x)) + 1
    BY <1>1
  <2> HIDE DEF B
  <2>4. Cardinality(B(x) \cup {x}) <= Cardinality(B(y))  BY <2>2, <2>3, FS_Subset
  <2> QED  BY <2>3, <2>4
<1> QED  BY <1>2, <1>3

LEMMA SameRank ==
  ASSUME NEW S, S \subseteq Nat, IsFiniteSet(S), NEW x \in S, NEW y \in S,
         Rank(S, x) = Rank(S, y)
  PROVE  x = y
<1>1. Rank(S, x) \in Int /\ x \in Nat /\ y \in Nat
  <2>1. Cardinality(S) \in Nat /\ Rank(S, x) \in 0 .. Cardinality(S) - 1
    BY RankFacts, FS_CardinalityType
  <2> QED  BY <2>1
<1>2. /\ x < y => Rank(S, x) < Rank(S, y)
      /\ y < x => Rank(S, y) < Rank(S, x)
  BY RankFacts
<1>3. ~ (x < y) /\ ~ (y < x)  BY <1>1, <1>2
<1> QED  BY <1>1, <1>3

LEMMA RankOnto ==
  ASSUME NEW S, S \subseteq Nat, IsFiniteSet(S), NEW e \in 0 .. Cardinality(S) - 1
  PROVE  \E x \in S : Rank(S, x) = e
<1> DEFINE T == 0 .. Cardinality(S) - 1
           f == [x \in S |-> Rank(S, x)]
<1>0. Cardinality(S) \in Nat  BY FS_CardinalityType
<1>1. IsFiniteSet(T) /\ Cardinality(T) = Cardinality(S)  BY <1>0, FS_Interval
<1>2. f \in [S -> T]  BY RankFacts
<1>3. \A x, y \in S : f[x] = f[y] => x = y  BY SameRank
<1>4. f \in Injection(S, T)
  <2> HIDE DEF f, T
  <2> QED  BY <1>2, <1>3 DEF Injection, IsInjective
<1> HIDE DEF T, f
<1>5. f \in Surjection(S, T)  BY <1>1, <1>4, FS_Injection
<1>6. \E x \in S : f[x] = e  BY <1>5 DEF Surjection, T
<1> QED  BY <1>6 DEF f

LEMMA LowestCount ==
  ASSUME NEW S, S \subseteq Nat, IsFiniteSet(S), NEW n \in 0 .. Cardinality(S)
  PROVE  Cardinality({x \in S : Rank(S, x) < n}) = n
<1> DEFINE T == {x \in S : Rank(S, x) < n}
           N == 0 .. n - 1
           f == [x \in T |-> Rank(S, x)]
<1>0. Cardinality(S) \in Nat /\ n \in Nat /\ n <= Cardinality(S)
  <2>1. Cardinality(S) \in Nat  BY FS_CardinalityType
  <2> QED  BY <2>1
<1>1. IsFiniteSet(T)
  <2>1. T \in SUBSET S  OBVIOUS
  <2> HIDE DEF T
  <2> QED  BY <2>1, FS_Subset
<1>2. Cardinality(N) = n /\ IsFiniteSet(N)
  <2>1. 0 \in Int /\ n - 1 \in Int  BY <1>0
  <2>2. Cardinality(0 .. n - 1) = IF 0 > n - 1 THEN 0 ELSE (n - 1) - 0 + 1  BY <2>1, FS_Interval
  <2> QED  BY <1>0, <2>1, <2>2, FS_Interval
<1>3. \A x \in S : Rank(S, x) \in 0 .. Cardinality(S) - 1  BY RankFacts
<1>4. f \in [T -> N]
  <2>1. ASSUME NEW x \in T PROVE Rank(S, x) \in N
    <3>1. Rank(S, x) < n /\ Rank(S, x) \in 0 .. Cardinality(S) - 1  BY <1>3
    <3> QED  BY <1>0, <3>1
  <2> QED  BY <2>1
<1>5. \A x, y \in T : f[x] = f[y] => x = y  BY SameRank
<1>6. \A e \in N : \E x \in T : f[x] = e
  <2> TAKE e \in N
  <2>1. e \in 0 .. Cardinality(S) - 1 /\ e < n  BY <1>0
  <2>2. PICK x \in S : Rank(S, x) = e  BY <2>1, RankOnto
  <2> QED  BY <2>1, <2>2
<1>7. f \in Injection(T, N) /\ f \in Surjection(T, N)
  <2> HIDE DEF f, T, N
  <2> QED  BY <1>4, <1>5, <1>6 DEF Injection, IsInjective, Surjection
<1> HIDE DEF T, N, f
<1>8. Cardinality(N) = Cardinality(T)  BY <1>1, <1>7, FS_Surjection
<1> QED  BY <1>2, <1>8 DEF T

-----------------------------------------------------------------------------
(* The chain of an entry is the least set with the entry that holds with an *)
(* entry the one that it links upwards to.                                  *)
PartsType == [Part -> [used : BOOLEAN, next : Part, key : {Blank} \cup DOMAIN Preset]]
Closed(p, X) == \A z \in X : p[z].next > z => p[z].next \in X
Up(p, e) == {y \in Part : \A X \in SUBSET Part : e \in X /\ Closed(p, X) => y \in X}

LEMMA PartNumbers == Part \subseteq Nat /\ (\A e \in Part : e < TotalParts) /\ 0 \in Part
                     /\ TotalParts \in Nat /\ IsFiniteSet(Part) /\ Cardinality(Part) = TotalParts
<1>1. TotalParts \in Nat /\ TotalParts # 0  BY TablesAssumption
<1>2. IsFiniteSet(Part) /\ Cardinality(Part) = TotalParts
  <2>1. 0 \in Int /\ TotalParts - 1 \in Int /\ ~ (0 > TotalParts - 1)  BY <1>1
  <2>2. /\ IsFiniteSet(0 .. TotalParts - 1)
        /\ Cardinality(0 .. TotalParts - 1) = (TotalParts - 1) - 0 + 1
    BY <2>1, FS_Interval
  <2> QED  BY <1>1, <2>2 DEF Part
<1> QED  BY <1>1, <1>2 DEF Part

LEMMA Link ==
  ASSUME NEW p \in PartsType, NEW e \in Part
  PROVE  /\ p[e].next \in Part /\ p[e].next \in Nat /\ e \in Nat /\ p[e].used \in BOOLEAN
         /\ p[e].key \in {Blank} \cup DOMAIN Preset
<1>1. p[e] \in [used : BOOLEAN, next : Part, key : {Blank} \cup DOMAIN Preset]
  BY DEF PartsType
<1> QED  BY <1>1, PartNumbers

LEMMA UpFacts ==
  ASSUME NEW p \in PartsType, NEW e \in Part
  PROVE  /\ Up(p, e) \subseteq Part /\ e \in Up(p, e) /\ Closed(p, Up(p, e))
         /\ \A X \in SUBSET Part : e \in X /\ Closed(p, X) => Up(p, e) \subseteq X
         /\ \A y \in Up(p, e) : e <= y
         /\ IsFiniteSet(Up(p, e))
<1>1. Up(p, e) \subseteq Part /\ e \in Up(p, e)  BY DEF Up
<1>2. \A X \in SUBSET Part : e \in X /\ Closed(p, X) => Up(p, e) \subseteq X  BY DEF Up
<1>3. Closed(p, Up(p, e))
  <2> SUFFICES ASSUME NEW z \in Up(p, e), p[z].next > z PROVE p[z].next \in Up(p, e)
    BY DEF Closed
  <2>1. z \in Part /\ p[z].next \in Part  BY <1>1, Link
  <2>2. ASSUME NEW X \in SUBSET Part, e \in X, Closed(p, X) PROVE p[z].next \in X
    <3>1. z \in X  BY <1>2, <2>2
    <3> QED  BY <2>2, <3>1 DEF Closed
  <2> QED  BY <2>1, <2>2 DEF Up
<1>4. \A y \in Up(p, e) : e <= y
  <2> DEFINE X == {y \in Part : e <= y}
  <2>1. X \in SUBSET Part /\ e \in X  BY PartNumbers
  <2>2. Closed(p, X)
    <3>1. ASSUME NEW z \in X, p[z].next > z PROVE p[z].next \in X
      <4>1. z \in Part /\ e <= z  OBVIOUS
      <4>2. p[z].next \in Part /\ p[z].next \in Nat /\ z \in Nat /\ e \in Nat
        BY <4>1, Link, PartNumbers
      <4> QED  BY <3>1, <4>1, <4>2
    <3> QED  BY <3>1 DEF Closed
  <2>3. Up(p, e) \subseteq X
    <3> HIDE DEF X
    <3> QED  BY <1>2, <2>1, <2>2
  <2> QED  BY <2>3
<1>5. IsFiniteSet(Up(p, e))  BY <1>1, PartNumbers, FS_Subset
<1> QED  BY <1>1, <1>2, <1>3, <1>4, <1>5

LEMMA UpStep ==
  ASSUME NEW p \in PartsType, NEW e \in Part
  PROVE  Up(p, e) = {e} \cup (IF p[e].next > e THEN Up(p, p[e].next) ELSE {})
<1> DEFINE f == p[e].next
           X == {e} \cup (IF f > e THEN Up(p, f) ELSE {})
<1>1. f \in Part  BY Link
<1>2. /\ Up(p, f) \subseteq Part /\ f \in Up(p, f) /\ Closed(p, Up(p, f))
      /\ \A Y \in SUBSET Part : f \in Y /\ Closed(p, Y) => Up(p, f) \subseteq Y
  <2> HIDE DEF f
  <2> QED  BY <1>1, UpFacts
<1>3. /\ Up(p, e) \subseteq Part /\ e \in Up(p, e) /\ Closed(p, Up(p, e))
      /\ \A Y \in SUBSET Part : e \in Y /\ Closed(p, Y) => Up(p, e) \subseteq Y
  BY UpFacts
<1>4. X \in SUBSET Part /\ e \in X  BY <1>2
<1>5. Closed(p, X)
  <2>1. ASSUME NEW z \in X, p[z].next > z PROVE p[z].next \in X
    <3>1. CASE z = e  BY <1>2, <2>1, <3>1
    <3>2. CASE z # e
      <4>1. f > e /\ z \in Up(p, f)  BY <2>1, <3>2
      <4> QED  BY <1>2, <2>1, <4>1 DEF Closed
    <3> QED  BY <3>1, <3>2
  <2> QED  BY <2>1 DEF Closed
<1>6. Up(p, e) \subseteq X
  <2> HIDE DEF X
  <2> QED  BY <1>3, <1>4, <1>5
<1>7. f > e => Up(p, f) \subseteq Up(p, e)  BY <1>2, <1>3 DEF Closed
<1>8. X \subseteq Up(p, e)  BY <1>3, <1>7
<1> QED  BY <1>6, <1>8

LEMMA ChainIsUp == parts \in PartsType => \A e \in Part : Chain[e] = Up(parts, e)
<1> SUFFICES ASSUME parts \in PartsType PROVE \A e \in Part : Chain[e] = Up(parts, e)
  OBVIOUS
<1> DEFINE Longer(g) == [e \in Part |-> {e} \cup (IF parts[e].next > e THEN g[parts[e].next] ELSE {})]
           f == [e \in Part |-> Up(parts, e)]
<1>1. f = Longer(f)
  <2>1. \A e \in Part : f[e] = Up(parts, e) /\ f[parts[e].next] = Up(parts, parts[e].next)
    BY Link
  <2>2. \A e \in Part : Up(parts, e) = {e} \cup (IF parts[e].next > e THEN Up(parts, parts[e].next) ELSE {})
    BY UpStep
  <2> QED  BY <2>1, <2>2
<1>2. PICK g : g = Chain /\ g = Longer(g)
  <2> HIDE DEF f
  <2> QED  BY <1>1 DEF Chain
<1>3. \A e \in Part : g[e] = {e} \cup (IF parts[e].next > e THEN g[parts[e].next] ELSE {})
  BY <1>2
<1> DEFINE T == {e \in Part : g[e] # Up(parts, e)}
<1>4. T = {}
  <2> SUFFICES ASSUME T # {} PROVE FALSE  OBVIOUS
  <2>1. T \subseteq Nat /\ \A x \in T : x <= TotalParts
    <3>1. \A x \in Part : x \in Nat /\ x < TotalParts /\ TotalParts \in Nat  BY PartNumbers
    <3>2. \A x \in Part : x <= TotalParts  BY <3>1
    <3> QED  BY <3>1, <3>2
  <2>2. PICK x \in T : \A y \in T : y <= x
    <3> HIDE DEF T
    <3> QED  BY <2>1, PartNumbers, Greatest
  <2>3. x \in Part /\ parts[x].next \in Part /\ parts[x].next \in Nat /\ x \in Nat
    BY Link
  <2>4. parts[x].next > x => g[parts[x].next] = Up(parts, parts[x].next)
    <3>1. parts[x].next > x => parts[x].next \notin T  BY <2>2, <2>3
    <3> QED  BY <2>3, <3>1
  <2>5. g[x] = Up(parts, x)  BY <1>3, <2>3, <2>4, UpStep
  <2> QED  BY <2>2, <2>5
<1> QED  BY <1>2, <1>4

(* A chain is as it was when its entries link as they did.                  *)
LEMMA SameUp ==
  ASSUME NEW p \in PartsType, NEW q \in PartsType, NEW e \in Part,
         \A y \in Up(p, e) : q[y].next = p[y].next
  PROVE  Up(q, e) = Up(p, e)
<1>1. /\ Up(p, e) \subseteq Part /\ e \in Up(p, e) /\ Closed(p, Up(p, e))
      /\ Up(q, e) \subseteq Part /\ e \in Up(q, e) /\ Closed(q, Up(q, e))
  BY UpFacts
<1>2. Closed(q, Up(p, e))  BY <1>1 DEF Closed
<1>3. Up(q, e) \subseteq Up(p, e)  BY <1>1, <1>2, UpFacts
<1>4. Closed(p, Up(q, e))  BY <1>1, <1>3 DEF Closed
<1>5. Up(p, e) \subseteq Up(q, e)  BY <1>1, <1>4, UpFacts
<1> QED  BY <1>3, <1>5

(* The search of Keyring_GetKeyIndexFitSize: the entries it takes are free, *)
(* as many as were asked for, and a chain of their own.                     *)
LEMMA FreeNumbers == /\ Free \subseteq Part /\ Free \subseteq Nat /\ IsFiniteSet(Free)
                     /\ Cardinality(Free) \in Nat
<1>1. Free \subseteq Part  BY DEF Free
<1> QED  BY <1>1, PartNumbers, FS_Subset, FS_CardinalityType

LEMMA TakenFacts ==
  ASSUME NEW n \in Nat
  PROVE  /\ Taken(n) \subseteq Free /\ Taken(n) \subseteq Part /\ Taken(n) \subseteq Nat
         /\ Fits(n) => Cardinality(Taken(n)) = n
         /\ n = 0 => Taken(n) = {}
         /\ n # 0 /\ Fits(n) => Taken(n) # {}
<1>1. Taken(n) = {x \in Free : Rank(Free, x) < n}  BY DEF Taken, Rank
<1>2. Fits(n) => Cardinality(Taken(n)) = n
  <2> SUFFICES ASSUME Fits(n) PROVE Cardinality(Taken(n)) = n  OBVIOUS
  <2>1. n \in 0 .. Cardinality(Free)  BY FreeNumbers DEF Fits
  <2> QED  BY <1>1, <2>1, FreeNumbers, LowestCount
<1>3. n = 0 => Taken(n) = {}
  <2>1. \A x \in Free : Rank(Free, x) \in 0 .. Cardinality(Free) - 1  BY FreeNumbers, RankFacts
  <2>2. \A x \in Free : ~ (Rank(Free, x) < 0)  BY <2>1, FreeNumbers
  <2> QED  BY <1>1, <2>2
<1>4. n # 0 /\ Fits(n) => Taken(n) # {}  BY <1>2, FS_EmptySet
<1> QED  BY <1>1, <1>2, <1>3, <1>4, FreeNumbers

LEMMA LinkedFacts ==
  ASSUME parts \in PartsType, NEW n \in Nat
  PROVE  /\ Linked(n) \in PartsType
         /\ \A y \in Taken(n) : /\ Linked(n)[y].used /\ Linked(n)[y].key = Blank
                                /\ LET later == {f \in Taken(n) : f > y}
                                   IN IF later = {} THEN Linked(n)[y].next = 0
                                      ELSE /\ Linked(n)[y].next \in later
                                           /\ \A g \in later : Linked(n)[y].next <= g
         /\ \A y \in Part \ Taken(n) : Linked(n)[y] = parts[y]
         /\ n = 0 => Linked(n) = parts
<1> DEFINE Later(y) == {f \in Taken(n) : f > y}
           Least(y) == CHOOSE f \in Later(y) : \A g \in Later(y) : f <= g
           new(y) == [ used |-> TRUE, key |-> Blank, next |-> IF Later(y) = {} THEN 0 ELSE Least(y) ]
<1>1. Linked(n) = [y \in Part |-> IF y \notin Taken(n) THEN parts[y] ELSE new(y)]
  BY DEF Linked
<1>2. ASSUME NEW y \in Part, Later(y) # {}
      PROVE  Least(y) \in Later(y) /\ \A g \in Later(y) : Least(y) <= g
  <2>1. Later(y) \subseteq Nat  BY TakenFacts
  <2>2. \E f \in Later(y) : \A g \in Later(y) : f <= g
    <3> HIDE DEF Later
    <3> QED  BY <1>2, <2>1, Smallest
  <2> HIDE DEF Later
  <2> QED  BY <2>2
<1>3. \A y \in Part : Later(y) \subseteq Part  BY TakenFacts
<1> HIDE DEF Later, Least
<1>4. \A y \in Part : (IF Later(y) = {} THEN 0 ELSE Least(y)) \in Part
  BY <1>2, <1>3, PartNumbers
<1>5. \A y \in Part : new(y) \in [used : BOOLEAN, next : Part, key : {Blank} \cup DOMAIN Preset]
  BY <1>4
<1>6. \A y \in Part : parts[y] \in [used : BOOLEAN, next : Part, key : {Blank} \cup DOMAIN Preset]
  BY DEF PartsType
<1>7. \A y \in Part : /\ new(y).used /\ new(y).key = Blank
                      /\ new(y).next = IF Later(y) = {} THEN 0 ELSE Least(y)
  OBVIOUS
<1> HIDE DEF new
<1>8. Linked(n) \in PartsType  BY <1>1, <1>5, <1>6 DEF PartsType
<1>9. \A y \in Part : Linked(n)[y] = IF y \notin Taken(n) THEN parts[y] ELSE new(y)
  BY <1>1
<1>10. Taken(n) \subseteq Part  BY TakenFacts
<1>11. ASSUME NEW y \in Taken(n)
       PROVE  /\ Linked(n)[y].used /\ Linked(n)[y].key = Blank
              /\ IF Later(y) = {} THEN Linked(n)[y].next = 0
                 ELSE Linked(n)[y].next \in Later(y) /\ \A g \in Later(y) : Linked(n)[y].next <= g
  <2>1. y \in Part /\ Linked(n)[y] = new(y)  BY <1>9, <1>10
  <2> QED  BY <1>2, <1>7, <2>1
<1>12. n = 0 => Linked(n) = parts
  <2> SUFFICES ASSUME n = 0 PROVE Linked(n) = parts  OBVIOUS
  <2>1. Taken(n) = {}  BY TakenFacts
  <2>2. \A y \in Part : Linked(n)[y] = parts[y]  BY <1>9, <2>1
  <2>3. parts = [y \in Part |-> parts[y]] /\ Linked(n) = [y \in Part |-> Linked(n)[y]]
    BY <1>8 DEF PartsType
  <2> QED  BY <2>2, <2>3
<1> QED  BY <1>8, <1>9, <1>11, <1>12 DEF Later

LEMMA LinkedChain ==
  ASSUME parts \in PartsType, NEW n \in Nat, n # 0, Fits(n)
  PROVE  /\ GetKeyIndexFitSize(n) \in Taken(n)
         /\ Up(Linked(n), GetKeyIndexFitSize(n)) = Taken(n)
<1> DEFINE T == Taken(n)
           L == Linked(n)
           e == GetKeyIndexFitSize(n)
           U == Up(L, e)
<1>1. T # {} /\ T \subseteq Nat /\ T \subseteq Part  BY TakenFacts
<1>2. e \in T /\ \A f \in T : e <= f
  <2>1. \E x \in T : \A f \in T : x <= f
    <3> HIDE DEF T
    <3> QED  BY <1>1, Smallest
  <2> QED  BY <2>1 DEF GetKeyIndexFitSize
<1>3. L \in PartsType
      /\ \A y \in T : LET later == {f \in T : f > y}
                      IN IF later = {} THEN L[y].next = 0
                         ELSE L[y].next \in later /\ \A g \in later : L[y].next <= g
  BY LinkedFacts
<1> HIDE DEF T, L, e
<1>4. e \in Part  BY <1>1, <1>2
<1>5. /\ U \subseteq Part /\ e \in U /\ Closed(L, U)
      /\ \A X \in SUBSET Part : e \in X /\ Closed(L, X) => U \subseteq X
  BY <1>3, <1>4, UpFacts
<1> HIDE DEF U
<1>6. Closed(L, T)
  <2>1. ASSUME NEW z \in T, L[z].next > z PROVE L[z].next \in T
    <3>1. z \in Nat /\ ~ (0 > z)  BY <1>1
    <3> QED  BY <1>3, <2>1, <3>1
  <2> QED  BY <2>1 DEF Closed
<1>7. U \subseteq T  BY <1>1, <1>2, <1>5, <1>6
<1>8. T \subseteq U
  <2> DEFINE R == T \ U
  <2> SUFFICES ASSUME R # {} PROVE FALSE  OBVIOUS
  <2>1. R \subseteq Nat  BY <1>1
  <2>2. PICK x \in R : \A y \in R : x <= y
    <3> HIDE DEF R
    <3> QED  BY <2>1, Smallest
  <2> DEFINE B == {y \in T : y < x}
  <2>3. x \in T /\ x \notin U /\ x \in Nat /\ e \in Nat /\ e <= x /\ e # x
    BY <1>1, <1>2, <1>5
  <2>4. B # {} /\ B \subseteq Nat /\ \A y \in B : y <= x
    <3>1. e < x  BY <2>3
    <3>2. \A y \in B : y \in Nat /\ y < x  BY <1>1
    <3>3. \A y \in B : y <= x  BY <2>3, <3>2
    <3> QED  BY <1>2, <3>1, <3>2, <3>3
  <2>5. PICK y \in B : \A g \in B : g <= y
    <3> HIDE DEF B
    <3> QED  BY <2>3, <2>4, Greatest
  <2>6. y \in T /\ y \in Nat /\ y < x  BY <2>4, <2>5
  <2>7. y \in U
    <3>1. ~ (x <= y)  BY <2>3, <2>6
    <3> QED  BY <2>2, <2>6, <3>1
  <2>8. x \in {f \in T : f > y}  BY <2>3, <2>6
  <2>9. L[y].next \in T /\ L[y].next > y /\ L[y].next <= x  BY <1>3, <2>6, <2>8
  <2>10. L[y].next \in Nat  BY <1>1, <2>9
  <2>11. L[y].next = x
    <3>1. L[y].next < x => L[y].next <= y  BY <2>5, <2>9
    <3> QED  BY <2>3, <2>6, <2>9, <2>10, <3>1
  <2>12. x \in U  BY <1>5, <2>7, <2>9, <2>11 DEF Closed
  <2> QED  BY <2>3, <2>12
<1>9. U = T  BY <1>7, <1>8
<1> QED  BY <1>2, <1>9 DEF U, T, L, e

-----------------------------------------------------------------------------
(* The keyring.  A slot of a preset key stays in use; one in use has a kind *)
(* with a size; a key with data has the first entry of a chain of its own,  *)
(* whose entries are in use and hold its data; and these are all of them.   *)
AnyKind == Kind \cup {<<"none", "none">>} \cup {Preset[h].kind : h \in DOMAIN Preset}
AnyOwner == Process \cup UNION {Preset[h].owner : h \in DOMAIN Preset}
SlotType == [ used : BOOLEAN, kind : AnyKind, owner : SUBSET AnyOwner,
              metadata : Nat, index : Part \cup {-1, FailAlloc} ]
KeysType == [Handle -> SlotType]

Slot(c, h) ==
  /\ c.used => KeySize(c.kind) # INVALID
  /\ h < CustomStart => c.used
  /\ c.used /\ h >= CustomStart /\ KeySize(c.kind) = 0 => c.index = -1
Sized(c) == c.used /\ KeySize(c.kind) > 0
Holds(c, p, h) ==
  /\ c.index \in Part
  /\ \A e \in Up(p, c.index) : p[e].used /\ p[e].key = IF h < CustomStart THEN h ELSE Blank
  /\ Cardinality(Up(p, c.index)) = PartsNeeded(KeySize(c.kind))

Keyed(k, p) ==
  /\ k \in KeysType /\ p \in PartsType
  /\ \A h \in Handle : Slot(k[h], h) /\ (Sized(k[h]) => Holds(k[h], p, h))
  /\ \A g, h \in Handle :
       Sized(k[g]) /\ Sized(k[h]) /\ g # h => Up(p, k[g].index) \cap Up(p, k[h].index) = {}
  /\ \A e \in Part : p[e].used => \E h \in Handle : Sized(k[h]) /\ e \in Up(p, k[h].index)

LEMMA SizeFacts ==
  ASSUME NEW kind
  PROVE  /\ KeySize(kind) \in {-1, 0, 16, 20, 30, 60, 90, 256, 512}
         /\ KeySize(kind) \in Int /\ INVALID \in Int
         /\ PartsNeeded(KeySize(kind)) \in Nat
         /\ KeySize(kind) = 0 => PartsNeeded(KeySize(kind)) = 0
         /\ KeySize(kind) > 0 => PartsNeeded(KeySize(kind)) # 0
         /\ KeySize(kind) > 0 /\ KeySize(kind) <= PartSize => PartsNeeded(KeySize(kind)) = 1
<1>1. KeySize(kind) \in {-1, 0, 16, 20, 30, 60, 90, 256, 512}
  <2>1. CASE kind[1] = "public"  BY <2>1 DEF KeySize, INVALID
  <2>2. CASE kind[1] = "private"  BY <2>2 DEF KeySize, INVALID
  <2>3. CASE kind[1] = "both"  BY <2>3 DEF KeySize, INVALID
  <2>4. CASE kind[1] = "other"  BY <2>4 DEF KeySize, INVALID
  <2>5. CASE kind[1] \notin {"public", "private", "both", "other"}
    BY <2>5 DEF KeySize, INVALID
  <2> QED  BY <2>1, <2>2, <2>3, <2>4, <2>5
<1> DEFINE s == KeySize(kind)
<1>2. s \in {-1, 0, 16, 20, 30, 60, 90, 256, 512}  BY <1>1
<1> HIDE DEF s
<1>3. /\ PartsNeeded(s) \in Nat /\ (s = 0 => PartsNeeded(s) = 0) /\ (s > 0 => PartsNeeded(s) # 0)
      /\ s > 0 /\ s <= PartSize => PartsNeeded(s) = 1
  <2>1. s = -1 => (s + 31) \div 32 = 0  OBVIOUS
  <2>2. s = 0 => (s + 31) \div 32 = 0  OBVIOUS
  <2>3. s \in {16, 20, 30} => (s + 31) \div 32 = 1  OBVIOUS
  <2>4. s = 60 => (s + 31) \div 32 = 2  OBVIOUS
  <2>5. s = 90 => (s + 31) \div 32 = 3  OBVIOUS
  <2>6. s = 256 => (s + 31) \div 32 = 8  OBVIOUS
  <2>7. s = 512 => (s + 31) \div 32 = 16  OBVIOUS
  <2>8. PartsNeeded(s) = (s + 31) \div 32
    <3>1. s + 32 - 1 = s + 31  BY <1>2
    <3> QED  BY <3>1 DEF PartsNeeded, PartSize
  <2> QED  BY <1>2, <2>1, <2>2, <2>3, <2>4, <2>5, <2>6, <2>7, <2>8 DEF PartSize
<1>4. s \in Int /\ INVALID \in Int  BY <1>2 DEF INVALID
<1> QED  BY <1>2, <1>3, <1>4 DEF s

LEMMA UndefinedSize == KeySize(Undefined) = INVALID
BY DEF KeySize, INVALID, Undefined

LEMMA SignedWith ==
  ASSUME NEW kind, SignatureSize(kind) # INVALID
  PROVE  KeySize(kind) > 0
<1>1. CASE kind[1] = "public"
  <2>1. KeySize(kind) # INVALID  BY <1>1 DEF SignatureSize
  <2> QED  BY <1>1, <2>1 DEF KeySize, INVALID
<1>2. CASE kind[1] # "public" /\ kind = <<"private", "HMAC">>
  BY <1>2 DEF KeySize, INVALID
<1>3. CASE kind[1] # "public" /\ kind \in {"private", "both"} \X {"ECC_233"}
  <2>1. kind[1] \in {"private", "both"} /\ kind[2] = "ECC_233"  BY <1>3
  <2> QED  BY <2>1 DEF KeySize, INVALID
<1>4. \/ kind[1] = "public"
      \/ kind = <<"private", "HMAC">>
      \/ kind \in {"private", "both"} \X {"ECC_233"}
  BY DEF SignatureSize
<1> QED  BY <1>1, <1>2, <1>3, <1>4

LEMMA SlotFacts ==
  ASSUME NEW k \in KeysType, NEW h \in Handle
  PROVE  /\ k[h].used \in BOOLEAN /\ k[h].kind \in AnyKind /\ k[h].owner \in SUBSET AnyOwner
         /\ k[h].metadata \in Nat /\ k[h].index \in Part \cup {-1, FailAlloc}
         /\ h \in Nat /\ h # RootKey
<1>1. k[h] \in SlotType  BY DEF KeysType
<1>2. h \in Nat /\ h # RootKey  BY TablesAssumption DEF Handle, RootKey
<1> QED  BY <1>1, <1>2 DEF SlotType

(* A key whose slot and entries are untouched keeps its data.               *)
LEMMA HoldsStill ==
  ASSUME NEW p \in PartsType, NEW q \in PartsType, NEW c, NEW d, NEW h \in Handle,
         d.index = c.index, d.kind = c.kind, Holds(c, p, h),
         \A e \in Up(p, c.index) : q[e] = p[e]
  PROVE  Up(q, d.index) = Up(p, c.index) /\ Holds(d, q, h)
<1>1. c.index \in Part  BY DEF Holds
<1>2. Up(q, c.index) = Up(p, c.index)  BY <1>1, SameUp
<1> QED  BY <1>2 DEF Holds

(* Neither the owners nor the metadata of a key matter, nor what is in a    *)
(* slot or an entry that is not in use.                                     *)
LEMMA SameKeys ==
  ASSUME NEW k, NEW p, NEW r \in KeysType, NEW q \in PartsType, Keyed(k, p),
         \A h \in Handle : r[h].used = k[h].used
                           /\ (k[h].used => r[h].kind = k[h].kind /\ r[h].index = k[h].index),
         \A e \in Part : q[e].used = p[e].used /\ (p[e].used => q[e] = p[e])
  PROVE  Keyed(r, q)
<1>1. k \in KeysType /\ p \in PartsType  BY DEF Keyed
<1>2. \A h \in Handle : Slot(r[h], h) /\ (Sized(r[h]) <=> Sized(k[h]))
  BY DEF Keyed, Slot, Sized
<1>3. ASSUME NEW h \in Handle, Sized(k[h])
      PROVE  Up(q, r[h].index) = Up(p, k[h].index) /\ Holds(r[h], q, h)
  <2>1. Holds(k[h], p, h) /\ k[h].used  BY <1>3 DEF Keyed, Sized
  <2>2. \A e \in Up(p, k[h].index) : q[e] = p[e]
    <3>1. Up(p, k[h].index) \subseteq Part  BY DEF Up
    <3> QED  BY <2>1, <3>1 DEF Holds
  <2> QED  BY <1>1, <2>1, <2>2, HoldsStill
<1>4. \A h \in Handle : Slot(r[h], h) /\ (Sized(r[h]) => Holds(r[h], q, h))  BY <1>2, <1>3
<1>5. \A g, h \in Handle : Sized(r[g]) /\ Sized(r[h]) /\ g # h =>
        Up(q, r[g].index) \cap Up(q, r[h].index) = {}
  BY <1>2, <1>3 DEF Keyed
<1>6. \A e \in Part : q[e].used => \E h \in Handle : Sized(r[h]) /\ e \in Up(q, r[h].index)
  BY <1>2, <1>3 DEF Keyed
<1> QED  BY <1>4, <1>5, <1>6 DEF Keyed

(* The slot u gets a key with the entries T, none of which was in use.      *)
LEMMA KeyAdded ==
  ASSUME NEW k, NEW p, NEW r \in KeysType, NEW q \in PartsType, Keyed(k, p),
         NEW u \in Handle, ~ k[u].used, \A h \in Handle : h # u => r[h] = k[h],
         NEW T, T \subseteq Part, \A e \in T : ~ p[e].used,
         \A e \in Part \ T : q[e] = p[e],
         Slot(r[u], u), Sized(r[u]) => Holds(r[u], q, u) /\ Up(q, r[u].index) = T,
         ~ Sized(r[u]) => T = {}
  PROVE  Keyed(r, q)
<1>1. k \in KeysType /\ p \in PartsType  BY DEF Keyed
<1>2. \A h \in Handle : Sized(k[h]) => h # u  BY DEF Sized
<1>3. ASSUME NEW h \in Handle, Sized(k[h])
      PROVE  /\ r[h] = k[h] /\ Sized(r[h])
             /\ Up(q, r[h].index) = Up(p, k[h].index) /\ Holds(r[h], q, h)
             /\ Up(p, k[h].index) \cap T = {}
  <2>1. r[h] = k[h] /\ Sized(r[h]) /\ Holds(k[h], p, h)  BY <1>2, <1>3 DEF Keyed
  <2>2. Up(p, k[h].index) \cap T = {}  BY <2>1 DEF Holds
  <2>3. \A e \in Up(p, k[h].index) : q[e] = p[e]
    <3>1. Up(p, k[h].index) \subseteq Part  BY DEF Up
    <3> QED  BY <2>2, <3>1
  <2>4. r[h].index = k[h].index /\ r[h].kind = k[h].kind  BY <2>1
  <2>5. Up(q, r[h].index) = Up(p, k[h].index) /\ Holds(r[h], q, h)
    BY <1>1, <2>1, <2>3, <2>4, HoldsStill
  <2> QED  BY <2>1, <2>2, <2>5
<1>4. \A h \in Handle : h # u /\ Sized(r[h]) => Sized(k[h])  OBVIOUS
<1>5. \A h \in Handle : Slot(r[h], h) /\ (Sized(r[h]) => Holds(r[h], q, h))
  BY <1>3, <1>4 DEF Keyed
<1>6. ASSUME NEW g \in Handle, NEW h \in Handle, Sized(r[g]), Sized(r[h]), g # h
      PROVE  Up(q, r[g].index) \cap Up(q, r[h].index) = {}
  <2>1. CASE g = u  BY <1>3, <1>4, <1>6, <2>1
  <2>2. CASE h = u  BY <1>3, <1>4, <1>6, <2>2
  <2>3. CASE g # u /\ h # u  BY <1>3, <1>4, <1>6, <2>3 DEF Keyed
  <2> QED  BY <2>1, <2>2, <2>3
<1>7. ASSUME NEW e \in Part, q[e].used
      PROVE  \E h \in Handle : Sized(r[h]) /\ e \in Up(q, r[h].index)
  <2>1. CASE e \in T  BY <2>1
  <2>2. CASE e \notin T
    <3>1. PICK h \in Handle : Sized(k[h]) /\ e \in Up(p, k[h].index)
      BY <1>7, <2>2 DEF Keyed
    <3> QED  BY <1>3, <3>1
  <2> QED  BY <2>1, <2>2
<1> QED  BY <1>5, <1>6, <1>7 DEF Keyed

(* The slot u of a created key is given up, with the entries of its chain.  *)
Chained(c, p) == IF Sized(c) THEN Up(p, c.index) ELSE {}

LEMMA KeyRemoved ==
  ASSUME NEW k, NEW p, NEW r \in KeysType, NEW q \in PartsType, Keyed(k, p),
         NEW u \in Handle, u >= CustomStart, ~ r[u].used, \A h \in Handle : h # u => r[h] = k[h],
         NEW T, T = Chained(k[u], p),
         \A e \in T : ~ q[e].used,
         \A e \in Part \ T : q[e] = p[e]
  PROVE  Keyed(r, q)
<1>1. k \in KeysType /\ p \in PartsType  BY DEF Keyed
<1>2. \A h \in Handle : Sized(r[h]) => h # u /\ r[h] = k[h] /\ Sized(k[h])  BY DEF Sized
<1>3. ASSUME NEW h \in Handle, Sized(r[h])
      PROVE  /\ Up(q, r[h].index) = Up(p, k[h].index) /\ Holds(r[h], q, h)
             /\ r[h] = k[h] /\ Sized(k[h])
  <2>1. r[h] = k[h] /\ Sized(k[h]) /\ h # u  BY <1>2, <1>3
  <2>2. Holds(k[h], p, h)  BY <2>1 DEF Keyed
  <2>3. Up(p, k[h].index) \cap T = {}  BY <2>1 DEF Keyed, Chained
  <2>4. \A e \in Up(p, k[h].index) : q[e] = p[e]
    <3>1. Up(p, k[h].index) \subseteq Part  BY DEF Up
    <3> QED  BY <2>3, <3>1
  <2>5. r[h].index = k[h].index /\ r[h].kind = k[h].kind  BY <2>1
  <2>6. Up(q, r[h].index) = Up(p, k[h].index) /\ Holds(r[h], q, h)
    BY <1>1, <2>2, <2>4, <2>5, HoldsStill
  <2> QED  BY <2>1, <2>6
<1>4. \A h \in Handle : Slot(r[h], h)
  <2> TAKE h \in Handle
  <2>1. CASE h # u  BY <2>1 DEF Keyed
  <2>2. CASE h = u
    <3>1. ~ (u < CustomStart)  BY TablesAssumption DEF Handle
    <3> QED  BY <2>2, <3>1 DEF Slot
  <2> QED  BY <2>1, <2>2
<1>5. \A h \in Handle : Slot(r[h], h) /\ (Sized(r[h]) => Holds(r[h], q, h))  BY <1>3, <1>4
<1>6. \A g, h \in Handle : Sized(r[g]) /\ Sized(r[h]) /\ g # h =>
        Up(q, r[g].index) \cap Up(q, r[h].index) = {}
  BY <1>3 DEF Keyed
<1>7. ASSUME NEW e \in Part, q[e].used
      PROVE  \E h \in Handle : Sized(r[h]) /\ e \in Up(q, r[h].index)
  <2>1. e \notin T /\ p[e].used  BY <1>7
  <2>2. PICK h \in Handle : Sized(k[h]) /\ e \in Up(p, k[h].index)  BY <2>1 DEF Keyed
  <2>3. h # u  BY <2>1, <2>2 DEF Chained
  <2>4. Sized(r[h])  BY <2>2, <2>3
  <2> QED  BY <1>3, <2>2, <2>4
<1> QED  BY <1>5, <1>6, <1>7 DEF Keyed

(* IOSC_CreateObject                                                        *)
LEMMA CreateKeeps ==
  ASSUME Ahead = 0, Keyed(keys, parts), NEW p \in Process, NEW kind \in Kind, CreateObject(p, kind)
  PROVE  Keyed(keys, parts)'
<1> DEFINE n == PartsNeeded(KeySize(kind))
           u == FreeHandle
           c == [SetNewKeyKind(u, kind) EXCEPT !.owner = {p}]
           d == GetHandleFitSize(u, n)
<1>1. keys \in KeysType /\ parts \in PartsType  BY DEF Keyed
<1>2. /\ KeySize(kind) # INVALID /\ FreeHandles # {}
      /\ \/ /\ Fits(n) /\ parts' = Linked(n)
            /\ keys' = [keys EXCEPT ![u] = c]
         \/ ~ Fits(n) /\ keys' = [keys EXCEPT ![u] = d] /\ parts' = Undone(n)
  BY DEF CreateObject
<1>3. u \in Handle /\ ~ keys[u].used  BY <1>2, FreeHandleIsFree
<1>4. /\ n \in Nat /\ KeySize(kind) \in Int
      /\ (KeySize(kind) = 0 => n = 0) /\ (KeySize(kind) > 0 => n # 0)
      /\ KeySize(kind) \in {-1, 0, 16, 20, 30, 60, 90, 256, 512}
  BY SizeFacts
<1>5. KeySize(kind) = 0 \/ KeySize(kind) > 0  BY <1>2, <1>4 DEF INVALID
<1>6. keys[u] \in SlotType /\ kind \in AnyKind /\ {p} \in SUBSET AnyOwner /\ u \in Nat
      /\ ~ (u < CustomStart) /\ u >= CustomStart
  <2>1. keys[u] \in SlotType  BY <1>1, <1>3 DEF KeysType
  <2>2. ~ (u < CustomStart)  BY <1>3 DEF Keyed, Slot
  <2>3. u \in Nat /\ CustomStart \in Nat  BY <1>3, TablesAssumption DEF Handle
  <2>4. kind \in AnyKind /\ {p} \in SUBSET AnyOwner  BY DEF AnyKind, AnyOwner
  <2> QED  BY <2>1, <2>2, <2>3, <2>4
<1>7. CASE Fits(n) /\ parts' = Linked(n) /\ keys' = [keys EXCEPT ![u] = c]
  <2> DEFINE x == IF n = 0 THEN -1 ELSE GetKeyIndexFitSize(n)
             T == Taken(n)
  <2>1. c = [[[keys[u] EXCEPT !.used = TRUE, !.index = x] EXCEPT !.kind = kind] EXCEPT !.owner = {p}]
    BY <1>7 DEF SetNewKeyKind, GetHandleFitSize
  <2>2. /\ n # 0 => x \in T /\ Up(Linked(n), x) = T
        /\ n = 0 => x = -1 /\ T = {}
        /\ T \subseteq Free /\ T \subseteq Part /\ Cardinality(T) = n
    BY <1>1, <1>4, <1>7, LinkedChain, TakenFacts
  <2>3. /\ Linked(n) \in PartsType
        /\ \A y \in T : Linked(n)[y].used /\ Linked(n)[y].key = Blank
        /\ \A y \in Part \ T : Linked(n)[y] = parts[y]
    BY <1>1, <1>4, LinkedFacts
  <2> HIDE DEF n, u, c, d, x, T
  <2>4. x \in Part \cup {-1, FailAlloc}  BY <2>2
  <2>5. c \in SlotType /\ c.used /\ c.kind = kind /\ c.index = x
    BY <1>6, <2>1, <2>4 DEF SlotType
  <2>6. /\ keys' \in KeysType /\ keys'[u] = c /\ \A h \in Handle : h # u => keys'[h] = keys[h]
    BY <1>1, <1>3, <1>7, <2>5 DEF KeysType
  <2>7. parts' \in PartsType /\ \A y \in Part \ T : parts'[y] = parts[y]
    BY <1>7, <2>3
  <2>8. Slot(keys'[u], u)
    <3>1. KeySize(kind) = 0 => x = -1  BY <1>4, <2>2
    <3> QED  BY <1>2, <1>6, <2>5, <2>6, <3>1 DEF Slot
  <2>9. Sized(keys'[u]) => Holds(keys'[u], parts', u) /\ Up(parts', keys'[u].index) = T
    <3> SUFFICES ASSUME Sized(keys'[u])
                 PROVE  Holds(keys'[u], parts', u) /\ Up(parts', keys'[u].index) = T
      OBVIOUS
    <3>1. n # 0  BY <1>4, <2>5, <2>6 DEF Sized
    <3>2. x \in Part /\ Up(parts', x) = T  BY <1>7, <2>2, <3>1
    <3>3. \A e \in T : parts'[e].used /\ parts'[e].key = Blank  BY <1>7, <2>3
    <3>4. Cardinality(T) = PartsNeeded(KeySize(kind))  BY <2>2 DEF n
    <3> QED  BY <1>6, <2>5, <2>6, <3>2, <3>3, <3>4 DEF Holds
  <2>10. ~ Sized(keys'[u]) => T = {}
    BY <1>4, <1>5, <2>2, <2>5, <2>6 DEF Sized
  <2>11. \A e \in T : ~ parts[e].used  BY <2>2 DEF Free
  <2>12. Keyed(keys', parts')
    BY <1>3, <2>2, <2>6, <2>7, <2>8, <2>9, <2>10, <2>11, KeyAdded
  <2> QED  BY <2>12 DEF Keyed
<1>8. CASE ~ Fits(n) /\ keys' = [keys EXCEPT ![u] = d] /\ parts' = Undone(n)
  <2>1. d = [keys[u] EXCEPT !.index = FailAlloc]  BY <1>8 DEF GetHandleFitSize
  <2> DEFINE cleared == IF Free # {} THEN Taken(n) ELSE IF Ahead = 0 THEN {} ELSE Chain[Ahead]
  <2>2. parts' = [e \in Part |-> IF e \in cleared THEN NoPart ELSE parts[e]]
    BY <1>8 DEF Undone
  <2>3. cleared \subseteq Free  BY <1>4, TakenFacts
  <2> HIDE DEF n, u, c, d, cleared
  <2>4. \A e \in Part : parts'[e] = IF e \in cleared THEN NoPart ELSE parts[e]  BY <2>2
  <2>5. \A e \in Part : /\ parts'[e].used = parts[e].used
                        /\ parts[e].used => parts'[e] = parts[e]
    <3>1. \A e \in Part : e \in Free <=> ~ parts[e].used  BY DEF Free
    <3>2. \A e \in Part : parts[e].used \in BOOLEAN  BY <1>1, Link
    <3> SUFFICES ASSUME NEW e \in Part
                 PROVE  parts'[e].used = parts[e].used /\ (parts[e].used => parts'[e] = parts[e])
      OBVIOUS
    <3>3. CASE e \in cleared
      <4>1. parts[e].used = FALSE  BY <2>3, <3>1, <3>2, <3>3
      <4>2. parts'[e] = NoPart  BY <2>4, <3>3
      <4>3. parts'[e].used = FALSE  BY <4>2 DEF NoPart
      <4> QED  BY <4>1, <4>3
    <3>4. CASE e \notin cleared  BY <2>4, <3>4
    <3> QED  BY <3>3, <3>4
  <2>6. parts' \in PartsType
    <3>1. NoPart \in [used : BOOLEAN, next : Part, key : {Blank} \cup DOMAIN Preset]
      BY PartNumbers DEF NoPart
    <3> QED  BY <1>1, <2>2, <3>1 DEF PartsType
  <2>7. d \in SlotType /\ d.used = keys[u].used  BY <1>6, <2>1 DEF SlotType
  <2>8. /\ keys' \in KeysType
        /\ \A h \in Handle : /\ keys'[h].used = keys[h].used
                             /\ keys[h].used => keys'[h] = keys[h]
    BY <1>1, <1>3, <1>8, <2>7 DEF KeysType
  <2>9. Keyed(keys', parts')  BY <2>5, <2>6, <2>8, SameKeys
  <2> QED  BY <2>9 DEF Keyed
<1> QED  BY <1>2, <1>7, <1>8

(* IOSC_DeleteObject                                                        *)
LEMMA DeleteKeeps ==
  ASSUME Keyed(keys, parts), NEW p \in Process, NEW u \in Handle, DeleteObject(p, u)
  PROVE  Keyed(keys, parts)'
<1>1. keys \in KeysType /\ parts \in PartsType  BY DEF Keyed
<1>2. /\ u >= CustomStart /\ keys' = [keys EXCEPT ![u].used = FALSE] /\ parts' = Deleted(u)
      /\ keys[u].used
  <2>1. Owns(p, u) /\ u # RootKey  BY <1>1, SlotFacts DEF DeleteObject
  <2>2. keys[u].used  BY <2>1 DEF Owns, GetKeyOwnerProcess
  <2> QED  BY <2>2 DEF DeleteObject
<1>3. /\ keys' \in KeysType /\ ~ keys'[u].used
      /\ \A h \in Handle : h # u => keys'[h] = keys[h]
  BY <1>1, <1>2 DEF KeysType, SlotType
<1>4. Slot(keys[u], u) /\ (Sized(keys[u]) => Holds(keys[u], parts, u))  BY DEF Keyed
<1> DEFINE T == IF Sized(keys[u]) THEN Up(parts, keys[u].index) ELSE {}
           i == keys[u].index
<1>5. parts' \in PartsType /\ (\A e \in T : ~ parts'[e].used) /\ (\A e \in Part \ T : parts'[e] = parts[e])
  <2>1. CASE ~ Sized(keys[u])
    <3>1. KeySize(keys[u].kind) = 0
      BY <1>2, <1>4, <2>1, SizeFacts DEF Slot, Sized, INVALID
    <3>2. i = -1  BY <1>2, <1>4, <3>1 DEF Slot
    <3>3. parts' = parts  BY <1>2, <3>2 DEF Deleted
    <3> QED  BY <1>1, <2>1, <3>3
  <2>2. CASE Sized(keys[u])
    <3>1. i \in Part /\ (\A e \in Up(parts, i) : parts[e].used) /\ i # -1
      BY <1>4, <2>2, PartNumbers DEF Holds
    <3>2. Chain[i] = Up(parts, i)  BY <1>1, <3>1, ChainIsUp
    <3>3. parts' = [f \in Part |-> IF f \in Chain[i] /\ \A g \in Chain[i] : g <= f => parts[g].used
                                  THEN NoPart ELSE parts[f]]
      BY <1>2, <3>1 DEF Deleted
    <3>4. T = Up(parts, i)  BY <2>2
    <3> HIDE DEF T, i
    <3>5. parts' = [f \in Part |-> IF f \in T THEN NoPart ELSE parts[f]]
      BY <3>1, <3>2, <3>3, <3>4
    <3>6. NoPart \in [used : BOOLEAN, next : Part, key : {Blank} \cup DOMAIN Preset] /\ ~ NoPart.used
      BY PartNumbers DEF NoPart
    <3>7. T \subseteq Part  BY <3>4 DEF Up
    <3> QED  BY <1>1, <3>5, <3>6, <3>7 DEF PartsType
  <2> QED  BY <2>1, <2>2
<1>6. T = Chained(keys[u], parts)  BY DEF Chained
<1> HIDE DEF T
<1> HIDE DEF i
<1>7. u >= CustomStart /\ keys' \in KeysType /\ parts' \in PartsType /\ ~ keys'[u].used
  BY <1>2, <1>3, <1>5
<1>8. /\ \A h \in Handle : h # u => keys'[h] = keys[h]
      /\ \A e \in T : ~ parts'[e].used
      /\ \A e \in Part \ T : parts'[e] = parts[e]
  BY <1>3, <1>5
<1>9. Keyed(keys', parts')  BY <1>6, <1>7, <1>8, KeyRemoved
<1> QED  BY <1>9 DEF Keyed

(* SetKeyMetadata                                                           *)
LEMMA MetadataKeeps ==
  ASSUME Keyed(keys, parts), NEW h \in Handle, NEW v \in Nat, keys' = SetKeyMetadata(h, v),
         parts' = parts
  PROVE  Keyed(keys, parts)'
<1>1. keys \in KeysType /\ parts \in PartsType  BY DEF Keyed
<1>2. keys' = [keys EXCEPT ![h].metadata = v]  BY DEF SetKeyMetadata
<1>3. /\ keys' \in KeysType
      /\ \A g \in Handle : /\ keys'[g].used = keys[g].used /\ keys'[g].kind = keys[g].kind
                           /\ keys'[g].index = keys[g].index
  BY <1>1, <1>2 DEF KeysType, SlotType
<1>4. Keyed(keys', parts')  BY <1>1, <1>3, SameKeys
<1> QED  BY <1>4 DEF Keyed

(* Keyring_Init                                                             *)
LEMMA Alone ==
  ASSUME NEW p \in PartsType, NEW e \in Part, p[e].next = 0
  PROVE  Up(p, e) = {e}
<1>1. ~ (p[e].next > e)  BY PartNumbers
<1> QED  BY <1>1, UpStep

LEMMA InitialKeyed ==
  ASSUME NEW c \in Nat
  PROVE  Keyed(Initial(c).keys, Initial(c).parts)
<1> DEFINE D == {h \in DOMAIN Preset : KeySize(Preset[h].kind) > 0}
           N == Cardinality(D)
           K(h) == IF h \notin DOMAIN Preset THEN NoKey
                   ELSE [ used |-> TRUE, kind |-> Preset[h].kind, owner |-> Preset[h].owner,
                          metadata |-> IF Preset[h].kind[2] = "UNKNOWN2" THEN c ELSE 0,
                          index |-> IF h \in D THEN Rank(D, h) ELSE 0 ]
           P(e) == IF e >= N THEN NoPart
                   ELSE [used |-> TRUE, next |-> 0, key |-> CHOOSE h \in D : Rank(D, h) = e]
           k == Initial(c).keys
           p == Initial(c).parts
<1>1. k = [h \in Handle |-> K(h)] /\ p = [e \in Part |-> P(e)]  BY DEF Initial, Rank
<1>2. /\ D \subseteq DOMAIN Preset /\ D \subseteq Nat /\ IsFiniteSet(D) /\ N \in Nat /\ N <= TotalParts
      /\ DOMAIN Preset \subseteq Handle
      /\ \A h \in Handle : h \in DOMAIN Preset <=> h < CustomStart
      /\ \A h \in DOMAIN Preset : h \in D <=> KeySize(Preset[h].kind) > 0
  <2>1. /\ DOMAIN Preset = 0 .. CustomStart - 1 /\ CustomStart \in Nat /\ CustomStart < TotalKeys
        /\ TotalKeys \in Nat
    BY TablesAssumption
  <2>2. IsFiniteSet(DOMAIN Preset)  BY <2>1, FS_Interval
  <2>3. IsFiniteSet(D)
    <3>1. D \in SUBSET (DOMAIN Preset)  OBVIOUS
    <3> HIDE DEF D
    <3> QED  BY <2>2, <3>1, FS_Subset
  <2>4. N \in Nat
    <3> HIDE DEF D
    <3> QED  BY <2>3, FS_CardinalityType
  <2>5. N <= TotalParts  BY TablesAssumption
  <2> QED  BY <2>1, <2>3, <2>4, <2>5 DEF Handle
<1> HIDE DEF D
<1>3. ASSUME NEW h \in D
      PROVE  Rank(D, h) \in Nat /\ Rank(D, h) < N /\ Rank(D, h) \in Part
  <2>1. Rank(D, h) \in 0 .. N - 1  BY <1>2, RankFacts
  <2>2. TotalParts \in Nat  BY TablesAssumption
  <2> QED  BY <1>2, <2>1, <2>2 DEF Part
<1>4. ASSUME NEW e \in Part, ~ (e >= N)
      PROVE  \E h \in D : Rank(D, h) = e /\ P(e) = [used |-> TRUE, next |-> 0, key |-> h]
  <2>1. e \in 0 .. N - 1  BY <1>2, <1>4, PartNumbers
  <2>2. \E h \in D : Rank(D, h) = e  BY <1>2, <2>1, RankOnto
  <2> DEFINE h == CHOOSE h \in D : Rank(D, h) = e
  <2>3. h \in D /\ Rank(D, h) = e  BY <2>2
  <2>4. P(e) = [used |-> TRUE, next |-> 0, key |-> h]  BY <1>4
  <2> HIDE DEF h, P
  <2> QED  BY <2>3, <2>4
<1>5. \A h \in Handle : k[h] = K(h)  BY <1>1
<1>6. \A e \in Part : p[e] = P(e)  BY <1>1
<1>7. \A e \in Part : e >= N => P(e) = NoPart  OBVIOUS
<1>8. ASSUME NEW h \in Handle
      PROVE  /\ K(h) \in SlotType
             /\ h \notin DOMAIN Preset => K(h) = NoKey
             /\ h \in DOMAIN Preset => K(h).used /\ K(h).kind = Preset[h].kind
             /\ h \in D => K(h).index = Rank(D, h)
  <2>1. CASE h \notin DOMAIN Preset
    <3>1. K(h) = NoKey  BY <2>1
    <3>2. NoKey \in SlotType  BY PartNumbers DEF NoKey, SlotType, AnyKind
    <3> HIDE DEF K
    <3> QED  BY <1>2, <2>1, <3>1, <3>2
  <2>2. CASE h \in DOMAIN Preset
    <3> DEFINE m == IF Preset[h].kind[2] = "UNKNOWN2" THEN c ELSE 0
               i == IF h \in D THEN Rank(D, h) ELSE 0
    <3>1. K(h) = [ used |-> TRUE, kind |-> Preset[h].kind, owner |-> Preset[h].owner,
                   metadata |-> m, index |-> i ]
      BY <2>2
    <3>2. m \in Nat /\ i \in Part /\ (h \in D => i = Rank(D, h))  BY <1>3, PartNumbers
    <3>3. Preset[h].kind \in AnyKind /\ Preset[h].owner \in SUBSET AnyOwner
      BY <2>2 DEF AnyKind, AnyOwner
    <3> HIDE DEF K, m, i
    <3>4. K(h) \in SlotType  BY <3>1, <3>2, <3>3 DEF SlotType
    <3> QED  BY <2>2, <3>1, <3>2, <3>4
  <2> QED  BY <2>1, <2>2
<1> HIDE DEF K, P, N, k, p
<1>9. k \in KeysType  BY <1>1, <1>8 DEF KeysType
<1>10. p \in PartsType
  <2>1. ASSUME NEW e \in Part
        PROVE  P(e) \in [used : BOOLEAN, next : Part, key : {Blank} \cup DOMAIN Preset]
    <3>1. CASE e >= N
      <4>1. NoPart \in [used : BOOLEAN, next : Part, key : {Blank} \cup DOMAIN Preset]
        BY PartNumbers DEF NoPart
      <4>2. P(e) = NoPart  BY <1>7, <3>1
      <4> QED  BY <4>1, <4>2
    <3>2. CASE ~ (e >= N)
      <4>1. PICK h \in D : P(e) = [used |-> TRUE, next |-> 0, key |-> h]  BY <1>4, <3>2
      <4> QED  BY <1>2, <4>1, PartNumbers
    <3> QED  BY <3>1, <3>2
  <2> QED  BY <1>1, <2>1 DEF PartsType
<1>11. \A h \in Handle : Sized(k[h]) <=> h \in D
  <2> SUFFICES ASSUME NEW h \in Handle PROVE Sized(k[h]) <=> h \in D  OBVIOUS
  <2>1. CASE h \in DOMAIN Preset  BY <1>2, <1>5, <1>8, <2>1 DEF Sized
  <2>2. CASE h \notin DOMAIN Preset  BY <1>2, <1>5, <1>8, <2>2 DEF Sized, NoKey
  <2> QED  BY <2>1, <2>2
<1>12. ASSUME NEW h \in D
       PROVE  /\ Up(p, k[h].index) = {Rank(D, h)} /\ p[Rank(D, h)].used /\ p[Rank(D, h)].key = h
              /\ k[h].index = Rank(D, h) /\ k[h].kind = Preset[h].kind /\ h \in Handle
  <2>1. h \in Handle /\ h \in DOMAIN Preset  BY <1>2
  <2> DEFINE e == Rank(D, h)
  <2>2. k[h].index = e /\ k[h].kind = Preset[h].kind  BY <1>5, <1>8, <2>1
  <2>3. e \in Part /\ e \in Nat /\ e < N  BY <1>3
  <2>4. ~ (e >= N)  BY <1>2, <2>3
  <2>5. PICK g \in D : Rank(D, g) = e /\ P(e) = [used |-> TRUE, next |-> 0, key |-> g]
    BY <1>4, <2>3, <2>4
  <2>6. g = h  BY <1>2, <2>5, SameRank
  <2>7. p[e].used /\ p[e].key = h /\ p[e].next = 0  BY <1>6, <2>3, <2>5, <2>6
  <2>8. Up(p, e) = {e}  BY <1>10, <2>3, <2>7, Alone
  <2> QED  BY <2>1, <2>2, <2>7, <2>8
<1>13. \A h \in Handle : Slot(k[h], h)
  <2> SUFFICES ASSUME NEW h \in Handle PROVE Slot(k[h], h)  OBVIOUS
  <2>1. h \in Nat /\ CustomStart \in Nat  BY TablesAssumption DEF Handle
  <2>2. CASE h \in DOMAIN Preset
    <3>1. KeySize(Preset[h].kind) # INVALID
      <4>1. KeySize(Preset[h].kind) \in 0 .. PartSize  BY <2>2, TablesAssumption
      <4> QED  BY <4>1 DEF INVALID, PartSize
    <3>2. h < CustomStart  BY <1>2, <2>2
    <3> QED  BY <1>5, <1>8, <2>1, <2>2, <3>1, <3>2 DEF Slot
  <2>3. CASE h \notin DOMAIN Preset
    <3>1. k[h] = NoKey /\ ~ (h < CustomStart)  BY <1>2, <1>5, <1>8, <2>3
    <3> QED  BY <3>1 DEF Slot, NoKey
  <2> QED  BY <2>2, <2>3
<1>14. ASSUME NEW h \in D PROVE Holds(k[h], p, h)
  <2>1. /\ Up(p, k[h].index) = {Rank(D, h)} /\ p[Rank(D, h)].used /\ p[Rank(D, h)].key = h
        /\ k[h].index = Rank(D, h) /\ k[h].kind = Preset[h].kind /\ h \in Handle
    BY <1>12
  <2>2. Rank(D, h) \in Part /\ h < CustomStart  BY <1>2, <1>3, <2>1
  <2>3. Cardinality({Rank(D, h)}) = 1  BY FS_Singleton
  <2>4. PartsNeeded(KeySize(Preset[h].kind)) = 1
    <3>1. h \in DOMAIN Preset /\ KeySize(Preset[h].kind) > 0  BY <1>2
    <3>2. KeySize(Preset[h].kind) <= PartSize
      <4>1. KeySize(Preset[h].kind) \in 0 .. PartSize  BY <3>1, TablesAssumption
      <4> QED  BY <4>1 DEF PartSize
    <3> QED  BY <3>1, <3>2, SizeFacts
  <2> QED  BY <2>1, <2>2, <2>3, <2>4 DEF Holds
<1>15. \A h \in Handle : Slot(k[h], h) /\ (Sized(k[h]) => Holds(k[h], p, h))
  BY <1>11, <1>13, <1>14
<1>16. \A g, h \in Handle :
         Sized(k[g]) /\ Sized(k[h]) /\ g # h => Up(p, k[g].index) \cap Up(p, k[h].index) = {}
  <2> SUFFICES ASSUME NEW g \in D, NEW h \in D, g # h
               PROVE  Up(p, k[g].index) \cap Up(p, k[h].index) = {}
    BY <1>11
  <2>1. Rank(D, g) # Rank(D, h)  BY <1>2, SameRank
  <2> QED  BY <1>12, <2>1
<1>17. \A e \in Part : p[e].used => \E h \in Handle : Sized(k[h]) /\ e \in Up(p, k[h].index)
  <2> SUFFICES ASSUME NEW e \in Part, p[e].used
               PROVE  \E h \in Handle : Sized(k[h]) /\ e \in Up(p, k[h].index)
    OBVIOUS
  <2>1. ~ (e >= N)  BY <1>6, <1>7 DEF NoPart
  <2>2. PICK h \in D : Rank(D, h) = e  BY <1>4, <2>1
  <2>3. h \in Handle /\ Sized(k[h]) /\ Up(p, k[h].index) = {e}  BY <1>11, <1>12, <2>2
  <2> QED  BY <2>3
<1>18. Keyed(k, p)  BY <1>9, <1>10, <1>15, <1>16, <1>17 DEF Keyed
<1> QED  BY <1>18 DEF k, p

-----------------------------------------------------------------------------
(* The invariant of the keyring.                                            *)
KInv ==
  /\ IInv
  /\ Keyed(keys, parts)
  /\ call # Idle => call.value \in Values

LEMMA ReadingIsNumber == Field = "gen" /\ IInv => Reading \in Nat
<1> SUFFICES ASSUME Field = "gen", IInv PROVE Reading \in Nat  OBVIOUS
<1>1. PICK n, i, j, k, p : Copies(n, i, j, k, p)  BY DEF IInv, Progress
<1>2. Reading = n /\ n \in 2 .. W * W - 2  BY <1>1, Now DEF ReadingFact, Copies
<1> QED  BY <1>2

LEMMA KeyringStart == Field = "gen" /\ Init => KInv
<1> SUFFICES ASSUME Field = "gen", Init PROVE KInv  OBVIOUS
<1>1. IInv /\ Reading \in Nat  BY Start, ReadingIsNumber
<1>2. keys = Initial(Reading).keys /\ parts = Initial(Reading).parts /\ call = Idle  BY DEF Init
<1>3. Keyed(keys, parts)  BY <1>1, <1>2, InitialKeyed
<1> QED  BY <1>1, <1>2, <1>3 DEF KInv

LEMMA KeyringStep ==
  ASSUME Field = "gen", Ahead = 0, KInv, [Next]_vars
  PROVE  KInv'
<1>1. IInv'  BY StepAdvances DEF KInv, Advances
<1>2. Keyed(keys, parts) /\ keys \in KeysType /\ parts \in PartsType  BY DEF KInv, Keyed
<1>3. CASE \E p \in Process, kind \in Kind : CreateObject(p, kind)
  <2>1. PICK p \in Process, kind \in Kind : CreateObject(p, kind)  BY <1>3
  <2>2. Keyed(keys, parts)'  BY <1>2, <2>1, CreateKeeps
  <2>3. call' = Idle  BY <2>1 DEF CreateObject
  <2> QED  BY <1>1, <2>2, <2>3 DEF KInv, Idle
<1>4. CASE \E p \in Process, h \in Handle : DeleteObject(p, h)
  <2>1. PICK p \in Process, h \in Handle : DeleteObject(p, h)  BY <1>4
  <2>2. Keyed(keys, parts)'  BY <1>2, <2>1, DeleteKeeps
  <2>3. call' = Idle  BY <2>1 DEF DeleteObject
  <2> QED  BY <1>1, <2>2, <2>3 DEF KInv, Idle
<1>5. CASE \E p \in Process, h \in Handle, v \in Values : SetData(p, h, v)
  <2>1. PICK p \in Process, h \in Handle, v \in Values : SetData(p, h, v)  BY <1>5
  <2>2. v \in Nat  BY ValuesAssumption
  <2>3. parts' = parts /\ (keys' = SetKeyMetadata(h, v) \/ keys' = keys)  BY <2>1 DEF SetData
  <2>4. Keyed(keys, parts)'
    <3>1. CASE keys' = SetKeyMetadata(h, v)  BY <1>2, <2>2, <2>3, <3>1, MetadataKeeps
    <3>2. CASE keys' = keys  BY <1>2, <2>3, <3>2 DEF Keyed
    <3> QED  BY <2>3, <3>1, <3>2
  <2>5. call' = Idle \/ \E beyond : call' = UpdateFrom(beyond, v)  BY <2>1 DEF SetData
  <2>6. (call # Idle => call.value \in Values)'  BY <2>5 DEF UpdateFrom, Idle
  <2> QED  BY <1>1, <2>4, <2>6 DEF KInv
<1>6. CASE NextWord \/ LastWord
  <2>1. call.next \in 1 .. 3 /\ call # Idle /\ parts' = parts
    <3>1. call.next \in 1 .. 3  BY <1>6, GenFacts DEF NextWord, LastWord
    <3> QED  BY <1>6, <3>1 DEF NextWord, LastWord, Idle
  <2>2. call \in [ value : Nat, copy : 1 .. 3, words : Triple, next : 1 .. 3 ]
        /\ call.value \in Values
    BY <2>1 DEF KInv, IInv, Progress, Writing
  <2>3. \/ keys' = keys
        \/ keys' = SetKeyMetadata(Counter, call.value)
    BY <1>6 DEF NextWord, LastWord
  <2>4. Keyed(keys, parts)'
    <3>1. CASE keys' = SetKeyMetadata(Counter, call.value)
      BY <1>2, <2>1, <2>2, <3>1, CounterFacts, MetadataKeeps
    <3>2. CASE keys' = keys  BY <1>2, <2>1, <3>2 DEF Keyed
    <3> QED  BY <2>3, <3>1, <3>2
  <2>5. (call # Idle => call.value \in Values)'
    <3>1. CASE NextWord
      <4>1. call' = [call EXCEPT !.next = call.next + 1]  BY <3>1 DEF NextWord
      <4> QED  BY <2>2, <4>1
    <3>2. CASE LastWord
      <4>1. \/ call' = Idle
            \/ \E beyond : call' = [UpdateFrom(beyond, 0)' EXCEPT !.value = call.value]
        BY <3>2 DEF LastWord
      <4> QED  BY <2>2, <4>1 DEF UpdateFrom, Idle
    <3> QED  BY <1>6, <3>1, <3>2
  <2> QED  BY <1>1, <2>4, <2>5 DEF KInv
<1>7. CASE WaitNotBusyFails
  <2>1. keys' = keys /\ parts' = parts /\ call' = Idle
    BY <1>7 DEF WaitNotBusyFails, AfterFailure
  <2> QED  BY <1>1, <1>2, <2>1 DEF KInv, Idle, Keyed
<1>8. CASE PowerCut
  <2>1. keys' = Initial(Reading).keys /\ parts' = Initial(Reading).parts /\ call' = Idle
    BY <1>8 DEF PowerCut
  <2>2. Reading \in Nat  BY ReadingIsNumber DEF KInv
  <2>3. Keyed(keys', parts')  BY <2>1, <2>2, InitialKeyed
  <2>4. Keyed(keys, parts)'  BY <2>3 DEF Keyed
  <2> QED  BY <1>1, <2>1, <2>4 DEF KInv, Idle
<1>9. CASE UNCHANGED vars
  <2>1. keys' = keys /\ parts' = parts /\ call' = call  BY <1>9 DEF vars
  <2> QED  BY <1>1, <1>2, <2>1 DEF KInv, Keyed, Idle
<1> QED  BY <1>3, <1>4, <1>5, <1>6, <1>7, <1>8, <1>9 DEF Next

LEMMA KeyringAccounted == Field = "gen" /\ KInv => PartsAccounted
<1> SUFFICES ASSUME Field = "gen", KInv PROVE PartsAccounted  OBVIOUS
<1>1. Keyed(keys, parts) /\ keys \in KeysType /\ parts \in PartsType /\ IInv
  BY DEF KInv, Keyed
<1>2. TypeOK
  <2>1. keys \in [Handle -> [ used : BOOLEAN, kind : Kind \cup {<<"none", "none">>}
                             \cup {Preset[h].kind : h \in DOMAIN Preset},
                           owner : SUBSET (Process \cup UNION {Preset[h].owner : h \in DOMAIN Preset}),
                           metadata : Nat, index : Part \cup {-1, FailAlloc} ]]
    BY <1>1 DEF KeysType, SlotType, AnyKind, AnyOwner
  <2>2. parts \in [Part -> [used : BOOLEAN, next : Part, key : {Blank} \cup DOMAIN Preset]]
    BY <1>1 DEF PartsType
  <2>3. seeprom \in [Copy -> [1 .. Size -> Word]]
    BY <1>1, GenFacts DEF IInv, Triple
  <2>4. call = Idle \/ call \in [ value : Values, copy : Copy, words : [1 .. Size -> Word],
                               next : 1 .. Size ]
    <3> SUFFICES ASSUME call # Idle
                 PROVE  call \in [ value : Values, copy : Copy, words : [1 .. Size -> Word],
                                   next : 1 .. Size ]
      OBVIOUS
    <3>1. call \in [ value : Nat, copy : 1 .. 3, words : Triple, next : 1 .. 3 ]
          /\ call.value \in Values
      BY DEF KInv, IInv, Progress, Writing
    <3>2. Copy = 1 .. 3 /\ Size = 3 /\ Triple = [1 .. Size -> Word]  BY GenFacts DEF Triple
    <3> QED  BY <3>1, <3>2
  <2> QED  BY <2>1, <2>2, <2>3, <2>4 DEF TypeOK
<1>3. ASSUME NEW h \in HasData
      PROVE  /\ h \in Handle /\ Sized(keys[h]) /\ Holds(keys[h], parts, h)
             /\ keys[h].index \in Part
             /\ Chain[keys[h].index] = Up(parts, keys[h].index)
             /\ Data(h) = Up(parts, keys[h].index)
  <2>1. h \in Handle /\ Sized(keys[h])  BY DEF HasData, Sized
  <2>2. Holds(keys[h], parts, h)  BY <1>1, <2>1 DEF Keyed
  <2>3. keys[h].index \in Part  BY <2>2 DEF Holds
  <2> QED  BY <1>1, <2>1, <2>2, <2>3, ChainIsUp DEF Data
<1>4. \A h \in Handle : Sized(keys[h]) <=> h \in HasData  BY DEF HasData, Sized
<1>5. {e \in Part : parts[e].used} = UNION {Data(h) : h \in HasData}
  <2>1. ASSUME NEW e \in Part, parts[e].used PROVE \E h \in HasData : e \in Data(h)
    <3>1. PICK h \in Handle : Sized(keys[h]) /\ e \in Up(parts, keys[h].index)
      BY <1>1, <2>1 DEF Keyed
    <3> QED  BY <1>3, <1>4, <3>1
  <2>2. ASSUME NEW h \in HasData, NEW e \in Data(h) PROVE e \in Part /\ parts[e].used
    <3>1. e \in Up(parts, keys[h].index)  BY <1>3, <2>2
    <3> QED  BY <1>3, <3>1 DEF Holds, Up
  <2> QED  BY <2>1, <2>2
<1>6. ASSUME NEW h \in HasData
      PROVE  /\ GetKey(h) = {IF h < CustomStart THEN h ELSE Blank}
             /\ \A g \in HasData \ {h} : Data(g) \cap Data(h) = {}
  <2>1. /\ h \in Handle /\ Sized(keys[h]) /\ Holds(keys[h], parts, h)
        /\ keys[h].index \in Part
        /\ Chain[keys[h].index] = Up(parts, keys[h].index)
    BY <1>3
  <2> DEFINE U == Up(parts, keys[h].index)
             b == IF h < CustomStart THEN h ELSE Blank
  <2>2. U # {} /\ \A e \in U : parts[e].used /\ parts[e].key = b
    BY <1>1, <2>1, UpFacts DEF Holds
  <2>3. GetKey(h) = {parts[f].key : f \in U}
    BY <2>1, <2>2 DEF GetKey, Sized
  <2> HIDE DEF U, b
  <2>4. GetKey(h) = {b}  BY <2>2, <2>3
  <2>5. \A g \in HasData \ {h} : Data(g) \cap Data(h) = {}
    BY <1>1, <1>3 DEF Keyed
  <2> QED  BY <2>4, <2>5 DEF b
<1>7. ASSUME NEW p \in Process, NEW h \in Handle
      PROVE  /\ GetKeySize(p, h) # INVALID => Cardinality(Data(h)) = PartsNeeded(GetKeySize(p, h))
             /\ GetSignatureSize(p, h) # INVALID => Data(h) # {}
             /\ GetData(p, h) # INVALID \/ Owns(p, h) => GetKeyTypes(h) # Undefined
  <2>1. h # RootKey  BY <1>1, SlotFacts
  <2>2. Owns(p, h) => /\ keys[h].used /\ GetKeyTypes(h) = keys[h].kind
                      /\ FindKeySize(h) = KeySize(keys[h].kind)
                      /\ KeySize(keys[h].kind) # INVALID
    <3>1. Slot(keys[h], h)  BY <1>1 DEF Keyed
    <3> QED  BY <2>1, <3>1 DEF Owns, GetKeyOwnerProcess, GetKeyTypes, GetKeyKind, FindKeySize, Slot
  <2>3. GetKeySize(p, h) # INVALID => Cardinality(Data(h)) = PartsNeeded(GetKeySize(p, h))
    <3> SUFFICES ASSUME GetKeySize(p, h) # INVALID
                 PROVE  Cardinality(Data(h)) = PartsNeeded(GetKeySize(p, h))
      OBVIOUS
    <3>1. Owns(p, h) /\ GetKeySize(p, h) = KeySize(keys[h].kind) /\ keys[h].used
          /\ KeySize(keys[h].kind) # INVALID
      BY <2>2 DEF GetKeySize
    <3>2. CASE h \in HasData
      <4>1. Holds(keys[h], parts, h) /\ Data(h) = Up(parts, keys[h].index)  BY <1>3, <3>2
      <4> QED  BY <3>1, <4>1 DEF Holds
    <3>3. CASE h \notin HasData
      <4>1. KeySize(keys[h].kind) = 0
        <5>1. ~ (KeySize(keys[h].kind) > 0)  BY <3>1, <3>3 DEF HasData
        <5> QED  BY <3>1, <5>1, SizeFacts DEF INVALID
      <4>2. PartsNeeded(KeySize(keys[h].kind)) = 0  BY <4>1, SizeFacts
      <4>3. Data(h) = {}  BY <3>3 DEF Data
      <4> QED  BY <3>1, <4>2, <4>3, FS_EmptySet
    <3> QED  BY <3>2, <3>3
  <2>4. GetSignatureSize(p, h) # INVALID => Data(h) # {}
    <3> SUFFICES ASSUME GetSignatureSize(p, h) # INVALID PROVE Data(h) # {}
      OBVIOUS
    <3>1. Owns(p, h) /\ SignatureSize(keys[h].kind) # INVALID /\ keys[h].used
      BY <2>2 DEF GetSignatureSize
    <3>2. KeySize(keys[h].kind) > 0  BY <3>1, SignedWith
    <3>3. h \in HasData  BY <3>1, <3>2 DEF HasData
    <3>4. keys[h].index \in Part /\ Data(h) = Up(parts, keys[h].index)  BY <1>3, <3>3
    <3> QED  BY <1>1, <3>4, UpFacts
  <2>5. Owns(p, h) => GetKeyTypes(h) # Undefined  BY <2>2, UndefinedSize
  <2>6. GetData(p, h) # INVALID => GetKeyTypes(h) # Undefined
    <3> SUFFICES ASSUME GetKeyTypes(h) = Undefined PROVE GetData(p, h) = INVALID
      OBVIOUS
    <3>1. GetKeyTypes(h)[1] # "other"  BY DEF Undefined
    <3>2. GetKeyMetadataIfOthers(h) = INVALID  BY <3>1 DEF GetKeyMetadataIfOthers
    <3> QED  BY <3>2 DEF GetData
  <2> QED  BY <2>3, <2>4, <2>5, <2>6
<1> QED  BY <1>2, <1>5, <1>6, <1>7 DEF PartsAccounted

(* The entries of the keyring that are in use are the data of the keys in   *)
(* use, each of one key and as many as its size takes, whatever is made,    *)
(* deleted, refused for want of room or made anew after a loss of power;    *)
(* and what programs are told of a key agrees with that (keyring.c, and     *)
(* IOSC_CreateObject, IOSC_DeleteObject and IOSC_SetData of iosc.c).        *)
THEOREM KeysAreAccounted == Field = "gen" /\ Ahead = 0 => (Spec => []PartsAccounted)
<1> SUFFICES ASSUME Field = "gen", Ahead = 0 PROVE Spec => []PartsAccounted  OBVIOUS
<1>1. Init => KInv  BY KeyringStart
<1>2. KInv /\ [Next]_vars => KInv'  BY KeyringStep
<1>3. KInv => PartsAccounted  BY KeyringAccounted
<1> QED  BY <1>1, <1>2, <1>3, PTL DEF Spec
=============================================================================
