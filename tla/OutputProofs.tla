---------------------------- MODULE OutputProofs ----------------------------
(***************************************************************************)
(* Proofs about what the program sends: that the memory of a bit stream    *)
(* suffices, for bytes of any size, any memory within the object, any      *)
(* values and any number of them; and what the command of a picture says   *)
(* of it, for any number of encoding threads.                              *)
(***************************************************************************)
EXTENDS BitStream, FiniteSetTheorems, SequenceTheorems, WellFoundedInduction, TLAPS

LEMMA NatSetInduction ==
  ASSUME NEW S, 0 \in S, \A n \in Nat : n \in S => n + 1 \in S
  PROVE  Nat \subseteq S
<1> SUFFICES ASSUME NEW k \in Nat, k \notin S PROVE FALSE
  OBVIOUS
<1>1. PICK m \in Nat \ S : \A n \in Nat \ S : <<n, m>> \notin OpToRel(<, Nat)
  BY WFMin, NatLessThanWellFounded, Zenon
<1>2. m \in Nat /\ m \notin S /\ m # 0
  OBVIOUS
<1>3. m - 1 \in Nat /\ m = (m - 1) + 1
  BY <1>2
<1>4. m - 1 \in Nat \ S
  BY <1>2, <1>3
<1>5. <<m - 1, m>> \in OpToRel(<, Nat)
  BY <1>3 DEF OpToRel
<1> QED BY <1>1, <1>4, <1>5

(* Dividing into bytes. *)
LEMMA TimesGrows ==
  ASSUME NEW a \in Int, NEW b \in Int, NEW m \in Nat, a <= b
  PROVE  a * m <= b * m
  OBVIOUS

LEMMA TimesLess ==
  ASSUME NEW a \in Int, NEW b \in Int, NEW m \in Nat, a * m < b * m
  PROVE  a < b
<1>1. SUFFICES ASSUME b <= a PROVE FALSE
  OBVIOUS
<1>2. b * m <= a * m
  BY <1>1, TimesGrows
<1>3. a * m \in Int /\ b * m \in Int
  OBVIOUS
<1> QED BY <1>2, <1>3

LEMMA OneMore ==
  ASSUME NEW k \in Int, NEW m \in Nat
  PROVE  k * m \in Int /\ (k + 1) * m = k * m + m
  OBVIOUS

LEMMA Divided ==
  ASSUME NEW n \in Nat, NEW m \in Nat \ {0}
  PROVE  n \div m \in Nat /\ (n \div m) * m <= n /\ n < (n \div m) * m + m
  OBVIOUS

LEMMA InBytes ==
  ASSUME NEW n \in Nat
  PROVE  /\ BitsToBytes(n) \in Nat /\ n <= BitsToBytes(n) * ByteSize
         /\ BitsToBytes(n) * ByteSize < n + ByteSize
<1> DEFINE q == (n + ByteSize - 1) \div ByteSize
<1>1. ByteSize \in Nat \ {0} /\ n + ByteSize - 1 \in Nat
  BY SizeAssumption
<1>2. /\ q \in Nat /\ q * ByteSize <= n + ByteSize - 1
      /\ n + ByteSize - 1 < q * ByteSize + ByteSize
  BY <1>1, Divided
<1>3. BitsToBytes(n) = q
  BY DEF BitsToBytes
<1> HIDE DEF q
<1> DEFINE p == q * ByteSize
<1>4. p \in Nat /\ p <= n + ByteSize - 1 /\ n + ByteSize - 1 < p + ByteSize
  BY <1>1, <1>2
<1> HIDE DEF p
<1>5. n <= p /\ p < n + ByteSize
  BY <1>1, <1>4
<1> QED BY <1>2, <1>3, <1>5 DEF p

(* Two places of which the first is in a byte of the memory, and the       *)
(* second in none that is further.                                         *)
LEMMA SameByte ==
  ASSUME NEW a \in Nat \ {0}, NEW b \in Nat \ {0}, NEW size \in Nat, a <= size * ByteSize,
         (a - 1) \div ByteSize >= (b - 1) \div ByteSize
  PROVE  b <= size * ByteSize
<1> DEFINE q == (a - 1) \div ByteSize
           p == (b - 1) \div ByteSize
<1>1. ByteSize \in Nat \ {0} /\ a - 1 \in Nat /\ b - 1 \in Nat
  BY SizeAssumption
<1>2. q \in Nat /\ q * ByteSize <= a - 1
  BY <1>1, Divided
<1>3. p \in Nat /\ b - 1 < p * ByteSize + ByteSize
  BY <1>1, Divided
<1>4. p <= q
  OBVIOUS
<1> HIDE DEF p, q
<1>5. q < size
  <2>1. q * ByteSize < size * ByteSize
    BY <1>1, <1>2
  <2> QED BY <1>1, <1>2, <2>1, TimesLess
<1>6. (p + 1) * ByteSize <= size * ByteSize
  BY <1>1, <1>2, <1>3, <1>4, <1>5, TimesGrows
<1>7. (p + 1) * ByteSize = p * ByteSize + ByteSize /\ p * ByteSize \in Int
  BY <1>1, <1>3, OneMore
<1>8. size * ByteSize \in Int
  BY <1>1
<1> DEFINE x == p * ByteSize
           y == size * ByteSize
<1>9. x \in Int /\ y \in Int /\ x + ByteSize <= y /\ b - 1 < x + ByteSize
  BY <1>3, <1>6, <1>7, <1>8
<1> HIDE DEF x, y
<1>10. b <= y
  BY <1>1, <1>9
<1> QED BY <1>10 DEF y

LEMMA LaterByte ==
  ASSUME NEW a \in Nat \ {0}, NEW b \in Nat \ {0},
         ~((a - 1) \div ByteSize >= (b - 1) \div ByteSize)
  PROVE  a < b
<1> DEFINE q == (a - 1) \div ByteSize
           p == (b - 1) \div ByteSize
<1>1. ByteSize \in Nat \ {0} /\ a - 1 \in Nat /\ b - 1 \in Nat
  BY SizeAssumption
<1>2. q \in Nat /\ a - 1 < q * ByteSize + ByteSize
  BY <1>1, Divided
<1>3. p \in Nat /\ p * ByteSize <= b - 1
  BY <1>1, Divided
<1>4. q < p
  BY <1>2, <1>3
<1> HIDE DEF p, q
<1>5. (q + 1) * ByteSize <= p * ByteSize
  BY <1>1, <1>2, <1>3, <1>4, TimesGrows
<1>6. (q + 1) * ByteSize = q * ByteSize + ByteSize /\ q * ByteSize \in Int /\ p * ByteSize \in Int
  BY <1>1, <1>2, <1>3, OneMore
<1> DEFINE x == q * ByteSize
           y == p * ByteSize
<1>7. x \in Int /\ y \in Int /\ x + ByteSize <= y /\ a - 1 < x + ByteSize /\ y <= b - 1
  BY <1>2, <1>3, <1>5, <1>6
<1> HIDE DEF x, y
<1> QED BY <1>1, <1>7

LEMMA FewerBytes ==
  ASSUME NEW n \in Nat, NEW size \in Nat
  PROVE  BitsToBytes(n) <= size <=> n <= size * ByteSize
<1> DEFINE q == BitsToBytes(n)
           x == q * ByteSize
           y == size * ByteSize
<1>1. ByteSize \in Nat \ {0} /\ q \in Nat /\ n <= x /\ x < n + ByteSize
  BY InBytes, SizeAssumption
<1>2. x \in Nat /\ y \in Nat
  BY <1>1
<1> HIDE DEF q
<1>3. ASSUME q <= size PROVE n <= y
  <2>1. x <= y
    BY <1>1, <1>3, TimesGrows
  <2> HIDE DEF x, y
  <2> QED BY <1>1, <1>2, <2>1
<1>4. ASSUME n <= y PROVE q <= size
  <2>1. (size + 1) * ByteSize = y + ByteSize
    BY <1>1, OneMore
  <2>2. x < y + ByteSize
    <3> HIDE DEF x, y
    <3> QED BY <1>1, <1>2, <1>4
  <2>3. q < size + 1
    BY <1>1, <2>1, <2>2, TimesLess
  <2> QED BY <1>1, <2>3
<1> QED BY <1>3, <1>4 DEF q
-----------------------------------------------------------------------------
(* Writing. *)

(* A stream one can write to, as far as its bits go: its memory is where   *)
(* the number of bits allocated says, and has them.                        *)
Fits(s) ==
  /\ s = [f \in {"data", "where", "used", "allocated"} |-> s[f]]
  /\ Size(s) \in Nat /\ DOMAIN s.data = 0..Size(s) - 1
  /\ s.used \in Nat /\ s.allocated \in Nat \ {0}
  /\ s.allocated <= Size(s) * ByteSize
  /\ \/ s.where = "stack" /\ Size(s) = StackSize
     \/ s.where = "heap" /\ s.allocated > StackSize * ByteSize

LEMMA SizeOfMemory ==
  ASSUME NEW s, NEW n \in Nat, DOMAIN s.data = 0..n - 1
  PROVE  Size(s) = n
<1>1. n - 1 \in Int /\ (IF 0 > n - 1 THEN 0 ELSE n - 1 - 0 + 1) = n
  OBVIOUS
<1> DEFINE m == n - 1
<1>2. Cardinality(0..m) = IF 0 > m THEN 0 ELSE m - 0 + 1
  <2> HIDE DEF m
  <2>1. m \in Int
    BY <1>1 DEF m
  <2> QED BY <2>1, FS_Interval
<1>3. Cardinality(0..n - 1) = n
  BY <1>1, <1>2
<1> QED BY <1>3 DEF Size

LEMMA GrowFits ==
  ASSUME NEW s, Fits(s), NEW n \in Nat \ {0}
  PROVE  /\ Fits(Grow(s, n)) /\ Grow(s, n).used = s.used
         /\ s.used + n <= Grow(s, n).allocated
<1> DEFINE new == s.used + n
           size == NewBytes(2 * new)
           data == [i \in 0..size - 1 |-> At(s, i)]
           kept == [s EXCEPT !.allocated = Larger(@, new)]
           more == [s EXCEPT !.allocated = 2 * new]
           moved == [s EXCEPT !.allocated = 2 * new, !.where = "heap", !.data = data]
           enough == (s.allocated - 1) \div ByteSize >= (new - 1) \div ByteSize
           small == s.where = "stack" /\ size <= StackSize
<1>1. Grow(s, n) = IF enough THEN kept ELSE IF small THEN more ELSE moved
  BY DEF Grow
<1>2. /\ new \in Nat \ {0} /\ s.allocated \in Nat \ {0} /\ new <= 2 * new /\ 2 * new \in Nat \ {0}
      /\ ByteSize \in Nat /\ StackSize \in Nat /\ Size(s) \in Nat
  BY SizeAssumption DEF Fits
<1>3. /\ size \in Nat
      /\ 2 * new <= size * ByteSize
      /\ size <= StackSize <=> 2 * new <= StackSize * ByteSize
  <2>1. size = BitsToBytes(2 * new)
    BY DEF NewBytes
  <2> HIDE DEF size, new
  <2> QED BY <1>2, <2>1, InBytes, FewerBytes
<1>4. enough => new <= Size(s) * ByteSize
  <2> HIDE DEF new
  <2> QED BY <1>2, SameByte DEF Fits
<1>5. ~enough => s.allocated < new
  <2> HIDE DEF new
  <2> QED BY <1>2, LaterByte
<1> HIDE DEF new, size, data, enough
<1>6. CASE enough
  <2>1. /\ kept = [f \in {"data", "where", "used", "allocated"} |-> kept[f]]
        /\ kept.data = s.data /\ kept.where = s.where /\ kept.used = s.used
        /\ kept.allocated = Larger(s.allocated, new)
    BY DEF Fits
  <2>2. /\ Larger(s.allocated, new) \in Nat \ {0} /\ new <= Larger(s.allocated, new)
        /\ s.allocated <= Larger(s.allocated, new)
        /\ Larger(s.allocated, new) <= Size(s) * ByteSize
    BY <1>2, <1>4, <1>6 DEF Larger, Fits
  <2> HIDE DEF kept
  <2>3. Size(kept) = Size(s)
    BY <2>1 DEF Size
  <2>4. s.where = "heap" => Larger(s.allocated, new) > StackSize * ByteSize
    <3> DEFINE x == StackSize * ByteSize
               y == Larger(s.allocated, new)
    <3>1. x \in Nat /\ y \in Nat /\ s.allocated <= y /\ s.allocated \in Nat
      BY <1>2, <2>2
    <3>2. s.where = "heap" => s.allocated > x
      BY DEF Fits
    <3> HIDE DEF x, y
    <3>3. s.where = "heap" => y > x
      BY <3>1, <3>2
    <3> QED BY <3>3 DEF x, y
  <2>5. Fits(kept)
    BY <2>1, <2>2, <2>3, <2>4 DEF Fits
  <2> QED BY <1>1, <1>6, <2>1, <2>2, <2>5 DEF new
<1>7. CASE ~enough /\ small
  <2>1. /\ more = [f \in {"data", "where", "used", "allocated"} |-> more[f]]
        /\ more.data = s.data /\ more.where = s.where /\ more.used = s.used
        /\ more.allocated = 2 * new
    BY DEF Fits
  <2> HIDE DEF more
  <2>2. Size(more) = Size(s) /\ Size(s) = StackSize
    BY <1>7, <2>1 DEF Size, Fits
  <2>3. 2 * new <= StackSize * ByteSize
    BY <1>3, <1>7
  <2>4. Fits(more)
    BY <1>2, <1>7, <2>1, <2>2, <2>3 DEF Fits
  <2> QED BY <1>1, <1>2, <1>7, <2>1, <2>4 DEF new
<1>8. CASE ~enough /\ ~small
  <2>1. /\ moved = [f \in {"data", "where", "used", "allocated"} |-> moved[f]]
        /\ moved.data = data /\ moved.where = "heap" /\ moved.used = s.used
        /\ moved.allocated = 2 * new
    BY DEF Fits
  <2> HIDE DEF moved
  <2>2. DOMAIN moved.data = 0..size - 1
    BY <2>1 DEF data
  <2>3. Size(moved) = size
    BY <1>3, <2>2, SizeOfMemory
  <2>4. 2 * new > StackSize * ByteSize
    <3> DEFINE x == StackSize * ByteSize
    <3>1. x \in Nat
      BY <1>2
    <3>2. CASE s.where = "stack"
      BY <1>2, <1>3, <1>8, <3>1, <3>2
    <3>3. CASE s.where = "heap"
      <4>1. s.allocated > x /\ s.allocated < new
        BY <1>5, <1>8, <3>3 DEF Fits
      <4> HIDE DEF x
      <4>2. 2 * new > x
        BY <1>2, <3>1, <4>1
      <4> QED BY <4>2 DEF x
    <3> QED BY <3>2, <3>3 DEF Fits
  <2>5. Fits(moved)
    BY <1>2, <1>3, <2>1, <2>2, <2>3, <2>4 DEF Fits
  <2> QED BY <1>1, <1>2, <1>8, <2>1, <2>5 DEF new
<1> QED BY <1>6, <1>7, <1>8

(* Another size in use, and the same memory. *)
LEMMA UsedFits ==
  ASSUME NEW s, Fits(s), NEW n \in Nat
  PROVE  /\ Fits([s EXCEPT !.used = n])
         /\ [s EXCEPT !.used = n].used = n /\ [s EXCEPT !.used = n].allocated = s.allocated
<1> DEFINE t == [s EXCEPT !.used = n]
<1>1. /\ t = [f \in {"data", "where", "used", "allocated"} |-> t[f]]
      /\ t.data = s.data /\ t.where = s.where /\ t.used = n /\ t.allocated = s.allocated
  BY DEF Fits
<1> HIDE DEF t
<1>2. Size(t) = Size(s)
  BY <1>1 DEF Size
<1>3. Fits(t)
  BY <1>1, <1>2 DEF Fits
<1> QED BY <1>1, <1>3 DEF t

LEMMA DataFits ==
  ASSUME NEW s, Fits(s), NEW data, DOMAIN data = DOMAIN s.data
  PROVE  /\ Fits([s EXCEPT !.data = data])
         /\ [s EXCEPT !.data = data].used = s.used
         /\ [s EXCEPT !.data = data].allocated = s.allocated
<1> DEFINE t == [s EXCEPT !.data = data]
<1>1. /\ t = [f \in {"data", "where", "used", "allocated"} |-> t[f]]
      /\ t.data = data /\ t.where = s.where /\ t.used = s.used /\ t.allocated = s.allocated
  BY DEF Fits
<1> HIDE DEF t
<1>2. Size(t) = Size(s)
  BY <1>1 DEF Size
<1>3. Fits(t)
  BY <1>1, <1>2 DEF Fits
<1> QED BY <1>1, <1>3 DEF t

LEMMA StoreFits ==
  ASSUME NEW s, Fits(s), NEW i, NEW b
  PROVE  /\ Fits(Store(s, i, b)) /\ Store(s, i, b).used = s.used
         /\ Store(s, i, b).allocated = s.allocated
<1> DEFINE data == [j \in DOMAIN s.data |-> IF j = i THEN b ELSE s.data[j]]
<1>1. Store(s, i, b) = [s EXCEPT !.data = data]
  BY DEF Store
<1>2. DOMAIN data = DOMAIN s.data
  OBVIOUS
<1> HIDE DEF data
<1> QED BY <1>1, <1>2, DataFits

LEMMA OrFits ==
  ASSUME NEW s, Fits(s), NEW i, NEW b
  PROVE  /\ Fits(OrInto(s, i, b)) /\ OrInto(s, i, b).used = s.used
         /\ OrInto(s, i, b).allocated = s.allocated
  BY StoreFits DEF OrInto

(* One round of the loop uses as many bits as it writes. *)
LEMMA WriteByteFits ==
  ASSUME NEW s, Fits(s), NEW byte, NEW n \in Nat
  PROVE  /\ Fits(WriteByte(s, byte, n))
         /\ WriteByte(s, byte, n).allocated = s.allocated
         /\ WriteByte(s, byte, n).used = s.used + IF n < ByteSize THEN n ELSE ByteSize
<1> DEFINE at == s.used \div ByteSize
           mod == s.used % ByteSize
           b == IF n < ByteSize THEN Shl(byte, ByteSize - n) ELSE byte
           first == IF mod = 0 THEN Store(s, at, b) ELSE OrInto(s, at, Shr(b, mod))
           rest == Shl(b, ByteSize - mod)
           both == IF mod > 0 /\ ByteSize - mod < n THEN Spill(first, at + 1, rest) ELSE first
           more == IF n < ByteSize THEN n ELSE ByteSize
<1>1. WriteByte(s, byte, n) = [both EXCEPT !.used = @ + more]
  BY DEF WriteByte
<1> HIDE DEF at, mod, b, more
<1>2. Fits(first) /\ first.used = s.used /\ first.allocated = s.allocated
  BY StoreFits, OrFits
<1> HIDE DEF first, rest
<1>3. Fits(both) /\ both.used = s.used /\ both.allocated = s.allocated
  BY <1>2, StoreFits DEF Spill
<1> HIDE DEF both
<1>4. s.used + more \in Nat
  BY SizeAssumption DEF Fits, more
<1>5. [both EXCEPT !.used = @ + more] = [both EXCEPT !.used = s.used + more]
  BY <1>3
<1> QED BY <1>1, <1>3, <1>4, <1>5, UsedFits DEF more

(* One bit takes the place of one bit. *)
LEMMA PutBitFits ==
  ASSUME NEW s, Fits(s), NEW bit
  PROVE  /\ Fits(PutBit(s, bit)) /\ PutBit(s, bit).allocated = s.allocated
         /\ PutBit(s, bit).used = s.used + 1
<1> DEFINE at == s.used \div ByteSize
           mod == s.used % ByteSize
           t == IF mod = 0 THEN Store(s, at, FirstBit(bit))
                ELSE OrInto(s, at, Shr(FirstBit(bit), mod))
<1>1. PutBit(s, bit) = [t EXCEPT !.used = @ + 1]
  BY DEF PutBit
<1> HIDE DEF at, mod
<1>2. Fits(t) /\ t.used = s.used /\ t.allocated = s.allocated
  BY StoreFits, OrFits
<1> HIDE DEF t
<1>3. [t EXCEPT !.used = @ + 1] = [t EXCEPT !.used = s.used + 1]
  BY <1>2
<1>4. s.used + 1 \in Nat
  BY DEF Fits
<1> QED BY <1>1, <1>2, <1>3, <1>4, UsedFits

(* The loops: each round continues with what the one before it left.       *)
Round(loop, s, k, input, n) ==
  CASE loop = "bits" -> WriteByte(s, input[k], n - (k - 1) * ByteSize)
    [] loop = "stream" -> PutBit(s, input[k - 1])
    [] loop = "ones" -> WriteBit(s, 1)

Rounds(f, last, s, loop, input, n) ==
  f = [k \in 0..last |-> IF k = 0 THEN s ELSE Round(loop, f[k - 1], k, input, n)]

LEMMA RoundsExist ==
  ASSUME NEW s, NEW loop, NEW input, NEW n
  PROVE  \A last \in Nat : \E f : Rounds(f, last, s, loop, input, n)
<1> DEFINE S == {last \in Nat : \E f : Rounds(f, last, s, loop, input, n)}
<1>1. 0 \in S
  <2> DEFINE g == [k \in 0..0 |-> s]
  <2>1. Rounds(g, 0, s, loop, input, n)
    BY DEF Rounds
  <2> QED BY <2>1
<1>2. ASSUME NEW m \in Nat, m \in S PROVE m + 1 \in S
  <2>1. PICK f : Rounds(f, m, s, loop, input, n)
    BY <1>2
  <2> DEFINE g == [k \in 0..m + 1 |-> IF k = m + 1 THEN Round(loop, f[m], k, input, n) ELSE f[k]]
  <2>2. \A k \in 0..m : f[k] = IF k = 0 THEN s ELSE Round(loop, f[k - 1], k, input, n)
    BY <2>1 DEF Rounds
  <2>3. \A k \in 0..m + 1 : g[k] = IF k = 0 THEN s ELSE Round(loop, g[k - 1], k, input, n)
    BY <2>2
  <2>4. Rounds(g, m + 1, s, loop, input, n)
    BY <2>3 DEF Rounds
  <2> QED BY <2>4
<1> QED BY <1>1, <1>2, NatSetInduction

(* The bytes that are written, one after the other. *)
WritesBytes(g, s, input, n) ==
  /\ g[0] = Grow(s, n)
  /\ \A k \in 1..Len(input) : g[k] = WriteByte(g[k - 1], input[k], n - (k - 1) * ByteSize)
  /\ WriteBits(s, input, n) = g[Len(input)]

LEMMA WriteBitsRounds ==
  ASSUME NEW s, NEW input, Len(input) \in Nat, NEW n
  PROVE  \E g : WritesBytes(g, s, input, n)
<1> DEFINE f == CHOOSE f : f = [k \in 0..Len(input) |->
                 IF k = 0 THEN Grow(s, n)
                 ELSE WriteByte(f[k - 1], input[k], n - (k - 1) * ByteSize)]
<1>1. WriteBits(s, input, n) = f[Len(input)]
  BY DEF WriteBits
<1>2. f = [k \in 0..Len(input) |->
             IF k = 0 THEN Grow(s, n)
             ELSE WriteByte(f[k - 1], input[k], n - (k - 1) * ByteSize)]
  <2>1. PICK h : Rounds(h, Len(input), Grow(s, n), "bits", input, n)
    BY RoundsExist
  <2>2. h = [k \in 0..Len(input) |->
               IF k = 0 THEN Grow(s, n)
               ELSE WriteByte(h[k - 1], input[k], n - (k - 1) * ByteSize)]
    BY <2>1 DEF Rounds, Round
  <2> QED BY <2>2, Zenon
<1> HIDE DEF f
<1>3. f[0] = Grow(s, n)
  BY <1>2
<1>4. ASSUME NEW k \in 1..Len(input)
      PROVE  f[k] = WriteByte(f[k - 1], input[k], n - (k - 1) * ByteSize)
  <2>1. k \in 0..Len(input) /\ k # 0
    OBVIOUS
  <2> QED BY <1>2, <2>1
<1>5. WritesBytes(f, s, input, n)
  BY <1>1, <1>3, <1>4 DEF WritesBytes
<1> QED BY <1>5

LEMMA WriteStreamRounds ==
  ASSUME NEW s, NEW byte
  PROVE  \E g : /\ g[0] = Grow(s, ByteSize)
                /\ \A k \in 1..ByteSize : g[k] = PutBit(g[k - 1], byte[k - 1])
                /\ WriteStream(s, byte) = g[ByteSize]
<1> DEFINE f == CHOOSE f : f = [i \in 0..ByteSize |->
                 IF i = 0 THEN Grow(s, ByteSize) ELSE PutBit(f[i - 1], byte[i - 1])]
<1>1. WriteStream(s, byte) = f[ByteSize]
  BY DEF WriteStream
<1>2. f = [i \in 0..ByteSize |->
             IF i = 0 THEN Grow(s, ByteSize) ELSE PutBit(f[i - 1], byte[i - 1])]
  <2>1. PICK h : Rounds(h, ByteSize, Grow(s, ByteSize), "stream", byte, 0)
    BY RoundsExist, SizeAssumption
  <2>2. h = [i \in 0..ByteSize |->
               IF i = 0 THEN Grow(s, ByteSize) ELSE PutBit(h[i - 1], byte[i - 1])]
    BY <2>1 DEF Rounds, Round
  <2> QED BY <2>2, Zenon
<1> HIDE DEF f
<1>3. f[0] = Grow(s, ByteSize)
  BY <1>2, SizeAssumption
<1>4. ASSUME NEW k \in 1..ByteSize PROVE f[k] = PutBit(f[k - 1], byte[k - 1])
  <2>1. k \in 0..ByteSize /\ k # 0
    BY SizeAssumption
  <2> QED BY <1>2, <2>1
<1> QED BY <1>1, <1>3, <1>4

LEMMA WriteBitFits ==
  ASSUME NEW s, Fits(s), NEW bit
  PROVE  /\ Fits(WriteBit(s, bit)) /\ WriteBit(s, bit).used = s.used + 1
         /\ WriteBit(s, bit).used <= WriteBit(s, bit).allocated
<1>1. /\ Fits(Grow(s, 1)) /\ Grow(s, 1).used = s.used /\ s.used + 1 <= Grow(s, 1).allocated
  BY GrowFits
<1> QED BY <1>1, PutBitFits DEF WriteBit

(* Ones that stand for bytes that are left out. *)
LEMMA OnesFit ==
  ASSUME NEW s, Fits(s), NEW last \in Nat, NEW f, Rounds(f, last, s, "ones", <<>>, 0)
  PROVE  Fits(f[last])
<1>1. f[0] = s /\ \A k \in 1..last : f[k] = WriteBit(f[k - 1], 1)
  BY DEF Rounds, Round
<1> DEFINE S == {k \in Nat : k <= last => Fits(f[k])}
<1>2. 0 \in S
  BY <1>1
<1>3. ASSUME NEW k \in Nat, k \in S PROVE k + 1 \in S
  <2> SUFFICES ASSUME k + 1 <= last PROVE Fits(f[k + 1])
    OBVIOUS
  <2>1. Fits(f[k])
    BY <1>3
  <2>2. k + 1 \in 1..last /\ (k + 1) - 1 = k
    OBVIOUS
  <2>3. f[k + 1] = WriteBit(f[k], 1)
    BY <1>1, <2>2
  <2> QED BY <2>1, <2>3, WriteBitFits
<1>4. last \in S
  <2> HIDE DEF S
  <2> QED BY <1>2, <1>3, NatSetInduction
<1> QED BY <1>4

LEMMA WriteBitsFits ==
  ASSUME NEW s, Fits(s), NEW input, NEW n \in Nat \ {0}, Len(input) = BitsToBytes(n)
  PROVE  /\ Fits(WriteBits(s, input, n))
         /\ WriteBits(s, input, n).used <= WriteBits(s, input, n).allocated
<1> DEFINE last == Len(input)
           g0 == Grow(s, n)
<1>1. /\ last \in Nat \ {0} /\ n <= last * ByteSize /\ last * ByteSize < n + ByteSize
      /\ ByteSize \in Nat \ {0}
  <2>1. /\ last \in Nat /\ n <= last * ByteSize /\ last * ByteSize < n + ByteSize
        /\ ByteSize \in Nat \ {0}
    BY InBytes, SizeAssumption
  <2>2. last # 0
    BY <2>1
  <2> QED BY <2>1, <2>2
<1>0. Len(input) \in Nat
  BY <1>1
<1>2. PICK g : WritesBytes(g, s, input, n)
  BY <1>0, WriteBitsRounds
<1>8. /\ g[0] = g0
      /\ \A k \in 1..last : g[k] = WriteByte(g[k - 1], input[k], n - (k - 1) * ByteSize)
      /\ WriteBits(s, input, n) = g[last]
  BY <1>2 DEF WritesBytes
<1>3. Fits(g0) /\ g0.used = s.used /\ s.used + n <= g0.allocated /\ s.used \in Nat
  BY GrowFits DEF Fits
<1> HIDE DEF last, g0
<1> DEFINE sofar(k) == IF k < last THEN k * ByteSize ELSE n
           S == {k \in Nat : k <= last =>
                   /\ Fits(g[k]) /\ g[k].allocated = g0.allocated
                   /\ g[k].used = s.used + sofar(k)}
<1>4. 0 \in S
  BY <1>1, <1>8, <1>3
<1>5. ASSUME NEW k \in Nat, k \in S PROVE k + 1 \in S
  <2> DEFINE m == k + 1
             left == n - k * ByteSize
             step == IF left < ByteSize THEN left ELSE ByteSize
  <2> SUFFICES ASSUME m <= last
               PROVE  /\ Fits(g[m]) /\ g[m].allocated = g0.allocated
                      /\ g[m].used = s.used + sofar(m)
    OBVIOUS
  <2>1. k < last
    BY <1>1
  <2>2. Fits(g[k]) /\ g[k].allocated = g0.allocated /\ g[k].used = s.used + k * ByteSize
    BY <1>1, <1>5, <2>1
  <2>3. g[m] = WriteByte(g[k], input[m], left)
    <3>1. m \in 1..last /\ m - 1 = k
      BY <1>1
    <3> HIDE DEF m, S
    <3>2. g[m] = WriteByte(g[m - 1], input[m], n - (m - 1) * ByteSize)
      BY <1>8, <3>1
    <3> QED BY <3>1, <3>2
  <2>4. k * ByteSize \in Nat /\ m * ByteSize = k * ByteSize + ByteSize
    BY <1>1, OneMore
  <2>5. left \in Nat \ {0} /\ (m < last => ByteSize <= left)
        /\ (m = last => left <= ByteSize)
    <3> DEFINE x == k * ByteSize
               y == m * ByteSize
               z == last * ByteSize
    <3>1. y <= z /\ z \in Nat /\ (m < last => y + ByteSize <= z)
      <4>1. y <= z /\ z \in Nat
        BY <1>1, TimesGrows
      <4>2. ASSUME m < last PROVE y + ByteSize <= z
        <5>1. (m + 1) * ByteSize <= z
          BY <1>1, <4>2, TimesGrows
        <5>2. (m + 1) * ByteSize = y + ByteSize
          BY <1>1, OneMore
        <5> QED BY <5>1, <5>2
      <4> QED BY <4>1, <4>2
    <3>2. x \in Nat /\ y = x + ByteSize /\ n <= z /\ z < n + ByteSize /\ (m = last => y = z)
      BY <1>1, <2>4
    <3>3. left = n - x
      OBVIOUS
    <3> HIDE DEF x, y, z, left, m, S
    <3> QED BY <1>1, <3>1, <3>2, <3>3
  <2> HIDE DEF left, S
  <2>6. Fits(g[m]) /\ g[m].allocated = g[k].allocated /\ g[m].used = g[k].used + step
    BY <2>2, <2>3, <2>5, WriteByteFits
  <2>7. k * ByteSize + step = sofar(m)
    <3> DEFINE x == k * ByteSize
    <3>1. x \in Nat /\ m * ByteSize = x + ByteSize /\ left = n - x
      BY <2>4 DEF left
    <3>2. CASE m < last
      <4>1. sofar(m) = x + ByteSize /\ step = ByteSize
        BY <1>1, <2>5, <3>1, <3>2
      <4> QED BY <4>1
    <3>3. CASE m = last
      <4>1. sofar(m) = n /\ step = left
        BY <1>1, <2>5, <3>3
      <4> HIDE DEF x, step, sofar, m
      <4> QED BY <3>1, <4>1 DEF x
    <3> QED BY <1>1, <3>2, <3>3
  <2>8. step \in Nat
    BY <1>1, <2>5
  <2> HIDE DEF step, sofar, m
  <2>9. g[m].used = s.used + sofar(m)
    <3> DEFINE x == k * ByteSize
    <3>1. x \in Nat /\ g[m].used = (s.used + x) + step /\ x + step = sofar(m)
      BY <2>2, <2>4, <2>6, <2>7
    <3> HIDE DEF x
    <3> QED BY <1>3, <2>8, <3>1
  <2> QED BY <2>2, <2>6, <2>9
<1>6. last \in S
  <2> HIDE DEF S
  <2> QED BY <1>1, <1>4, <1>5, NatSetInduction
<1>7. Fits(g[last]) /\ g[last].allocated = g0.allocated /\ g[last].used = s.used + n
  BY <1>1, <1>6
<1> HIDE DEF S
<1> QED BY <1>8, <1>3, <1>7

LEMMA WriteStreamFits ==
  ASSUME NEW s, Fits(s), NEW byte
  PROVE  /\ Fits(WriteStream(s, byte))
         /\ WriteStream(s, byte).used <= WriteStream(s, byte).allocated
<1> DEFINE g0 == Grow(s, ByteSize)
<1>1. ByteSize \in Nat \ {0}
  BY SizeAssumption
<1>2. PICK g : /\ g[0] = g0
               /\ \A k \in 1..ByteSize : g[k] = PutBit(g[k - 1], byte[k - 1])
               /\ WriteStream(s, byte) = g[ByteSize]
  BY WriteStreamRounds
<1>3. Fits(g0) /\ g0.used = s.used /\ s.used + ByteSize <= g0.allocated /\ s.used \in Nat
  BY <1>1, GrowFits DEF Fits
<1> HIDE DEF g0
<1> DEFINE S == {k \in Nat : k <= ByteSize =>
                   /\ Fits(g[k]) /\ g[k].allocated = g0.allocated /\ g[k].used = s.used + k}
<1>4. 0 \in S
  BY <1>1, <1>2, <1>3
<1>5. ASSUME NEW k \in Nat, k \in S PROVE k + 1 \in S
  <2> DEFINE m == k + 1
  <2> SUFFICES ASSUME m <= ByteSize
               PROVE  Fits(g[m]) /\ g[m].allocated = g0.allocated /\ g[m].used = s.used + m
    OBVIOUS
  <2>1. Fits(g[k]) /\ g[k].allocated = g0.allocated /\ g[k].used = s.used + k
    BY <1>1, <1>5
  <2>2. m \in 1..ByteSize /\ m - 1 = k
    BY <1>1
  <2>3. g[m] = PutBit(g[k], byte[k])
    <3> HIDE DEF m, S
    <3> QED BY <1>2, <2>2
  <2>4. (s.used + k) + 1 = s.used + m
    BY <1>3
  <2> HIDE DEF m, S
  <2> QED BY <2>1, <2>3, <2>4, PutBitFits
<1>6. ByteSize \in S
  <2> HIDE DEF S
  <2> QED BY <1>1, <1>4, <1>5, NatSetInduction
<1>7. /\ Fits(g[ByteSize]) /\ g[ByteSize].allocated = g0.allocated
      /\ g[ByteSize].used = s.used + ByteSize
  BY <1>1, <1>6
<1> HIDE DEF S
<1> QED BY <1>2, <1>3, <1>7

LEMMA WholeBytes ==
  ASSUME NEW size \in Nat
  PROVE  BitsToBytes(size * ByteSize) = size
<1> DEFINE n == size * ByteSize
<1>1. n \in Nat /\ ByteSize \in Nat \ {0}
  BY SizeAssumption
<1>2. n <= size * ByteSize
  BY <1>1
<1> HIDE DEF n
<1>3. BitsToBytes(n) \in Nat /\ n <= BitsToBytes(n) * ByteSize /\ BitsToBytes(n) <= size
  BY <1>1, <1>2, InBytes, FewerBytes
<1>4. ASSUME BitsToBytes(n) < size PROVE FALSE
  <2> DEFINE m == BitsToBytes(n)
             x == m * ByteSize
             y == size * ByteSize
  <2>1. (m + 1) * ByteSize <= y
    BY <1>1, <1>3, <1>4, TimesGrows
  <2>2. (m + 1) * ByteSize = x + ByteSize /\ x \in Int
    BY <1>1, <1>3, OneMore
  <2>3. n = y /\ n <= x
    BY <1>3 DEF n
  <2> HIDE DEF m, x, y
  <2> QED BY <1>1, <2>1, <2>2, <2>3
<1>5. BitsToBytes(n) = size
  BY <1>3, <1>4
<1> QED BY <1>5 DEF n

LEMMA HalfIsSome ==
  Half \in Nat \ {0} /\ BitsToBytes(Half) = 1
<1>1. ByteSize \in Nat /\ ByteSize > 1
  BY SizeAssumption
<1>2. Half \in Nat \ {0} /\ Half <= ByteSize
  BY <1>1 DEF Half
<1> DEFINE m == BitsToBytes(Half)
<1>3. m \in Nat /\ (m <= 1 <=> Half <= 1 * ByteSize) /\ (m <= 0 <=> Half <= 0 * ByteSize)
  BY <1>2, InBytes, FewerBytes
<1> HIDE DEF m
<1>4. m = 1
  BY <1>1, <1>2, <1>3
<1> QED BY <1>2, <1>4 DEF m

LEMMA WriteBytesFits ==
  ASSUME NEW s, Fits(s), NEW input, Len(input) \in Nat \ {0}
  PROVE  /\ Fits(WriteBytes(s, input))
         /\ WriteBytes(s, input).used <= WriteBytes(s, input).allocated
<1> DEFINE n == Len(input) * ByteSize
           g == Grow(s, n)
           from == s.used \div ByteSize
           data == [i \in DOMAIN g.data |-> IF i \in from..from + Len(input) - 1
                                            THEN input[i - from + 1] ELSE g.data[i]]
           t == [g EXCEPT !.used = g.used + n]
<1>1. /\ WriteBytes(s, input) = WriteBits(s, input, n)
      \/ WriteBytes(s, input) = [t EXCEPT !.data = data]
  BY DEF WriteBytes
<1>2. n \in Nat \ {0} /\ Len(input) = BitsToBytes(n)
  <2>1. 1 * ByteSize <= n /\ n \in Nat /\ ByteSize \in Nat \ {0}
    BY SizeAssumption, TimesGrows
  <2>2. BitsToBytes(n) = Len(input)
    BY WholeBytes
  <2> HIDE DEF n
  <2> QED BY <2>1, <2>2
<1> HIDE DEF n
<1>3. Fits(g) /\ g.used = s.used /\ s.used + n <= g.allocated /\ s.used \in Nat
  BY <1>2, GrowFits DEF Fits
<1>4. DOMAIN data = DOMAIN g.data
  OBVIOUS
<1> HIDE DEF g, data
<1>5. Fits(t) /\ t.used = s.used + n /\ t.allocated = g.allocated /\ t.data = g.data
  <2>1. g.used + n \in Nat /\ g.used + n = s.used + n
    BY <1>2, <1>3
  <2>2. t.data = g.data
    OBVIOUS
  <2> QED BY <1>3, <2>1, <2>2, UsedFits
<1> HIDE DEF t
<1> DEFINE u == [t EXCEPT !.data = data]
<1>6. Fits(u) /\ u.used = t.used /\ u.allocated = t.allocated
  BY <1>4, <1>5, DataFits
<1> HIDE DEF u
<1>7. CASE WriteBytes(s, input) = u
  BY <1>3, <1>5, <1>6, <1>7
<1>8. CASE WriteBytes(s, input) = WriteBits(s, input, n)
  BY <1>2, <1>8, WriteBitsFits
<1> QED BY <1>1, <1>7, <1>8 DEF u

LEMMA WriteAlignedFits ==
  ASSUME NEW s, Fits(s), NEW input, Len(input) \in Nat \ {0}
  PROVE  /\ Fits(WriteAligned(s, input))
         /\ WriteAligned(s, input).used <= WriteAligned(s, input).allocated
<1> DEFINE t == [s EXCEPT !.used = Aligned(s.used)]
<1>1. WriteAligned(s, input) = WriteBytes(t, input)
  BY DEF WriteAligned
<1>2. Aligned(s.used) \in Nat
  BY InBytes, SizeAssumption DEF Aligned, Fits
<1>3. Fits(t)
  BY <1>2, UsedFits
<1> HIDE DEF t
<1> QED BY <1>1, <1>3, WriteBytesFits

(* What is left out is a one each. *)
LEMMA OnesRounds ==
  ASSUME NEW s, Fits(s), NEW last \in Nat
  PROVE  LET skipped[k \in 0..last] == IF k = 0 THEN s ELSE WriteBit(skipped[k - 1], 1)
         IN  Fits(skipped[last])
<1> DEFINE f == CHOOSE f : f = [k \in 0..last |-> IF k = 0 THEN s ELSE WriteBit(f[k - 1], 1)]
<1>1. f = [k \in 0..last |-> IF k = 0 THEN s ELSE WriteBit(f[k - 1], 1)]
  <2>1. PICK h : Rounds(h, last, s, "ones", <<>>, 0)
    BY RoundsExist
  <2>2. h = [k \in 0..last |-> IF k = 0 THEN s ELSE WriteBit(h[k - 1], 1)]
    BY <2>1 DEF Rounds, Round
  <2> QED BY <2>2, Zenon
<1> HIDE DEF f
<1>2. Rounds(f, last, s, "ones", <<>>, 0)
  BY <1>1 DEF Rounds, Round
<1>3. Fits(f[last])
  BY <1>2, OnesFit
<1> QED BY <1>3 DEF f

LEMMA LargestOf ==
  ASSUME NEW n \in Nat, NEW S \in SUBSET (1..n), S # {}
  PROVE  \E i \in S : \A j \in S : j <= i
<1> DEFINE T == {m \in Nat : \A U \in SUBSET (1..m) : U # {} => \E i \in U : \A j \in U : j <= i}
<1>1. 0 \in T
  <2>1. 1..0 = {}
    OBVIOUS
  <2> QED BY <2>1
<1>2. ASSUME NEW m \in Nat, m \in T PROVE m + 1 \in T
  <2> SUFFICES ASSUME NEW U \in SUBSET (1..m + 1), U # {}
               PROVE  \E i \in U : \A j \in U : j <= i
    OBVIOUS
  <2>1. CASE m + 1 \in U
    BY <2>1
  <2>2. CASE m + 1 \notin U
    <3>1. U \in SUBSET (1..m)
      BY <2>2
    <3> QED BY <1>2, <3>1
  <2> QED BY <2>1, <2>2
<1>3. n \in T
  <2> HIDE DEF T
  <2> QED BY <1>1, <1>2, NatSetInduction
<1> QED BY <1>3

LEMMA WriteCompressedFits ==
  ASSUME NEW s, Fits(s), NEW input \in Seq(Byte), input # <<>>, NEW unsigned
  PROVE  /\ Fits(WriteCompressed(s, input, unsigned))
         /\ WriteCompressed(s, input, unsigned).used
              <= WriteCompressed(s, input, unsigned).allocated
<1> DEFINE match == Match(unsigned)
           rest == {k \in DOMAIN input : k > 1 /\ input[k] # match}
           kept == IF rest = {} THEN 1 ELSE CHOOSE k \in rest : \A j \in rest : j <= k
           last == Len(input) - kept
           f == CHOOSE f : f = [k \in 0..last |-> IF k = 0 THEN s ELSE WriteBit(f[k - 1], 1)]
           t == f[last]
           some == SubSeq(input, 1, kept)
           one == SubSeq(input, 1, 1)
           result1 == WriteBits(WriteBit(t, 0), some, kept * ByteSize)
           result2 == WriteBits(WriteBit(t, 1), one, Half)
           result3 == WriteBits(WriteBit(t, 0), one, ByteSize)
<1>1. WriteCompressed(s, input, unsigned) \in {result1, result2, result3}
  BY DEF WriteCompressed
<1>2. Len(input) \in Nat \ {0} /\ DOMAIN input = 1..Len(input)
  BY EmptySeq
<1>3. kept \in 1..Len(input)
  <2>1. rest \in SUBSET (1..Len(input))
    BY <1>2
  <2> HIDE DEF rest
  <2>2. CASE rest = {}
    BY <1>2, <2>2
  <2>3. CASE rest # {}
    <3>1. \E k \in rest : \A j \in rest : j <= k
      BY <1>2, <2>1, <2>3, LargestOf
    <3>2. (CHOOSE k \in rest : \A j \in rest : j <= k) \in rest
      BY <3>1, Zenon
    <3> QED BY <2>1, <2>3, <3>2
  <2> QED BY <2>2, <2>3
<1> HIDE DEF kept
<1>4. last \in Nat
  BY <1>2, <1>3
<1> HIDE DEF last
<1>5. Fits(t)
  BY <1>4, OnesRounds
<1> HIDE DEF t
<1>6. Len(some) = kept /\ Len(one) = 1
  BY <1>2, <1>3
<1> HIDE DEF some, one
<1>7. Fits(WriteBit(t, 0)) /\ Fits(WriteBit(t, 1))
  BY <1>5, WriteBitFits
<1>8. /\ kept * ByteSize \in Nat \ {0} /\ BitsToBytes(kept * ByteSize) = kept
      /\ ByteSize \in Nat \ {0} /\ BitsToBytes(ByteSize) = 1
  <2>1. kept \in Nat /\ 1 <= kept /\ ByteSize \in Nat \ {0}
    BY <1>2, <1>3, SizeAssumption
  <2>2. 1 * ByteSize <= kept * ByteSize /\ kept * ByteSize \in Nat /\ 1 * ByteSize = ByteSize
    BY <2>1, TimesGrows
  <2>3. BitsToBytes(kept * ByteSize) = kept /\ BitsToBytes(1 * ByteSize) = 1
    BY <2>1, WholeBytes
  <2> QED BY <2>1, <2>2, <2>3
<1>9. CASE WriteCompressed(s, input, unsigned) = result1
  BY <1>6, <1>7, <1>8, <1>9, WriteBitsFits
<1>10. CASE WriteCompressed(s, input, unsigned) = result2
  BY <1>6, <1>7, <1>10, HalfIsSome, WriteBitsFits
<1>11. CASE WriteCompressed(s, input, unsigned) = result3
  BY <1>6, <1>7, <1>8, <1>11, WriteBitsFits
<1> QED BY <1>1, <1>9, <1>10, <1>11

LEMMA EncodeFits ==
  ASSUME NEW s, Fits(s), NEW item \in Item
  PROVE  Fits(Encode(s, item)) /\ Encode(s, item).used <= Encode(s, item).allocated
<1>1. /\ item.value \in Seq(Byte) /\ item.value # <<>>
      /\ item.bits \in Nat \ {0} /\ Len(item.value) = BitsToBytes(item.bits)
  BY ItemAssumption
<1>2. Len(item.value) \in Nat \ {0}
  BY <1>1, EmptySeq
<1> DEFINE value == item.value
           bits == item.bits
           t == Encode(s, item)
<1>3. \/ t = WriteBit(s, value[1][ByteSize - 1])
      \/ t = WriteBits(s, value, bits)
      \/ t = WriteBytes(s, value)
      \/ t = WriteAligned(s, value)
      \/ t = WriteStream(s, value[1])
      \/ t = WriteCompressed(s, value, item.kind = "unsigned")
  BY Zenon DEF Encode
<1> HIDE DEF value, bits, t
<1>4. /\ value \in Seq(Byte) /\ value # <<>> /\ Len(value) \in Nat \ {0}
      /\ bits \in Nat \ {0} /\ Len(value) = BitsToBytes(bits)
  BY <1>1, <1>2 DEF value, bits
<1>5. CASE t = WriteBit(s, value[1][ByteSize - 1])
  BY <1>5, WriteBitFits DEF t
<1>6. CASE t = WriteBits(s, value, bits)
  BY <1>4, <1>6, WriteBitsFits DEF t
<1>7. CASE t = WriteBytes(s, value)
  BY <1>4, <1>7, WriteBytesFits DEF t
<1>8. CASE t = WriteAligned(s, value)
  BY <1>4, <1>8, WriteAlignedFits DEF t
<1>9. CASE t = WriteStream(s, value[1])
  BY <1>9, WriteStreamFits DEF t
<1>10. CASE t = WriteCompressed(s, value, item.kind = "unsigned")
  BY <1>4, <1>10, WriteCompressedFits DEF t
<1> QED BY <1>3, <1>5, <1>6, <1>7, <1>8, <1>9, <1>10

(* The stream one writes to, or that on the memory of an RPC, of which      *)
(* every bit counts as used.                                                *)
StreamInv ==
  IF stream.where = "given"
  THEN stream.used <= stream.allocated /\ stream.allocated <= Size(stream) * ByteSize
  ELSE Fits(stream) /\ stream.used <= stream.allocated

LEMMA StreamStep ==
  ASSUME StreamInv, [Next]_vars
  PROVE  StreamInv'
<1>1. CASE UNCHANGED stream
  BY <1>1 DEF StreamInv, Size, Fits
<1>2. ASSUME NEW item \in Item, Write(item) PROVE StreamInv'
  <2>1. stream' = Encode(stream, item) /\ Fits(stream)
    BY <1>2, Zenon DEF Write, StreamInv
  <2> DEFINE t == Encode(stream, item)
  <2>2. Fits(t) /\ t.used <= t.allocated
    BY <2>1, EncodeFits
  <2> HIDE DEF t
  <2>3. t.where # "given"
    BY <2>2 DEF Fits
  <2> QED BY <2>1, <2>2, <2>3 DEF StreamInv, t, Fits, Size
<1>3. CASE Reset
  <2> DEFINE t == [stream EXCEPT !.used = 0]
  <2>1. Fits(stream) /\ stream' = t
    BY <1>3, Zenon DEF Reset, StreamInv
  <2>2. Fits(t) /\ t.used = 0
    BY <2>1, UsedFits
  <2> HIDE DEF t
  <2>3. t.where # "given" /\ t.used <= t.allocated
    BY <2>2 DEF Fits
  <2> QED BY <2>1, <2>2, <2>3 DEF StreamInv, Fits, Size
<1>4. CASE Receive
  <2> DEFINE size == stream.used \div ByteSize + 1
             data == [i \in 0..size - 1 |-> At(stream, i)]
             n == size * ByteSize
  <2>1. /\ stream'.data = data /\ stream'.where = "given" /\ stream'.used = n
        /\ stream'.allocated = n /\ stream.where # "given"
    BY <1>4 DEF Receive
  <2>2. size \in Nat /\ n \in Nat
    <3>1. Fits(stream)
      BY <2>1, Zenon DEF StreamInv
    <3>2. stream.used \in Nat /\ ByteSize \in Nat \ {0}
      BY <3>1, SizeAssumption DEF Fits
    <3> QED BY <3>2, Divided
  <2> HIDE DEF size
  <2>3. Cardinality(DOMAIN data) = size
    <3>1. Size([data |-> data]) = size
      BY <2>2, SizeOfMemory
    <3> QED BY <3>1 DEF Size
  <2>4. stream'.allocated = Cardinality(DOMAIN stream'.data) * ByteSize
    BY <2>1, <2>3
  <2> HIDE DEF data, n
  <2> QED BY <2>1, <2>2, <2>4 DEF StreamInv, Size
<1> QED BY <1>1, <1>2, <1>3, <1>4 DEF Next, Read, Skip, ReadMore, vars

(* Whatever is written, at whatever bit it begins, the stream stays within  *)
(* its memory, and the destructor can tell from the bits allocated whether  *)
(* there is a block to free (bitstream.cpp:70 and :421-453).                *)
THEOREM MemorySuffices == Spec => []BufferFits
<1>1. Init => StreamInv
  <2> SUFFICES ASSUME Init PROVE StreamInv
    OBVIOUS
  <2> DEFINE n == StackSize * ByteSize
  <2>1. /\ stream = [f \in {"data", "where", "used", "allocated"} |-> stream[f]]
        /\ stream.data = [i \in 0..StackSize - 1 |-> junk]
        /\ stream.where = "stack" /\ stream.used = 0 /\ stream.allocated = n
    BY DEF Init
  <2>2. StackSize \in Nat \ {0} /\ n \in Nat \ {0} /\ n <= n
    <3>1. StackSize \in Nat \ {0} /\ ByteSize \in Nat \ {0} /\ 1 <= StackSize
      BY SizeAssumption
    <3>2. 1 * ByteSize <= n /\ n \in Nat
      BY <3>1, TimesGrows
    <3> QED BY <3>1, <3>2
  <2>3. DOMAIN stream.data = 0..StackSize - 1
    BY <2>1
  <2>4. Size(stream) = StackSize
    BY <2>2, <2>3, SizeOfMemory
  <2>5. stream.allocated <= Size(stream) * ByteSize
    BY <2>1, <2>2, <2>4
  <2> HIDE DEF n
  <2>6. Fits(stream)
    BY <2>1, <2>2, <2>3, <2>4, <2>5 DEF Fits
  <2> QED BY <2>1, <2>2, <2>6 DEF StreamInv
<1>2. StreamInv /\ [Next]_vars => StreamInv'
  BY StreamStep
<1>3. StreamInv => BufferFits
  <2> SUFFICES ASSUME StreamInv PROVE BufferFits
    OBVIOUS
  <2>1. CASE stream.where = "given"
    BY <2>1 DEF StreamInv, BufferFits
  <2>2. CASE stream.where # "given"
    <3>1. Fits(stream) /\ stream.used <= stream.allocated
      BY <2>2, Zenon DEF StreamInv
    <3>2. stream.where = "stack" => ~(stream.allocated > StackSize * ByteSize)
      BY <3>1, SizeAssumption DEF Fits
    <3> QED BY <3>1, <3>2 DEF BufferFits, Fits
  <2> QED BY <2>1, <2>2
<1> QED BY <1>1, <1>2, <1>3, PTL DEF Spec
-----------------------------------------------------------------------------
(* Pictures. *)
CONSTANTS Encoder, Interval, MaxAsked, MaxKeys

VARIABLES
  m_take_screenshot, m_live_active, step, live_age, should_take_screenshot,
  documents_exist, file_exists, encoder, sent, asked, answered, overlapped, keys, pictures

Shots == INSTANCE Screenshots WITH at <- step

Picture == [purpose : {"none"} \cup Shots!Purposes, switched : BOOLEAN, asked : Nat]

PicturesTyped ==
  /\ m_live_active \in BOOLEAN
  /\ asked \in Nat
  /\ encoder \in [Encoder -> Picture]

(* A picture that was captured for what the stream was then, and has not   *)
(* seen it switched, still has the stream it was captured for.             *)
StreamAsCaptured ==
  \A e \in Encoder :
    encoder[e].purpose # "none" /\ ~encoder[e].switched
      => (m_live_active <=> encoder[e].purpose = "live")

PictureInv == PicturesTyped /\ StreamAsCaptured

LEMMA FreeIsPicture == Shots!Free \in Picture /\ Shots!Free.purpose = "none"
BY DEF Shots!Free, Picture

LEMMA CaptureKeeps ==
  ASSUME PictureInv, NEW e \in Encoder, NEW purpose \in Shots!Purposes,
         Shots!Captured(e, purpose), UNCHANGED <<m_live_active, asked>>
  PROVE  PictureInv'
<1> DEFINE new == [purpose |-> purpose, switched |-> m_live_active # (purpose = "live"),
                   asked |-> asked]
<1>1. /\ new \in Picture
      /\ new.purpose = purpose /\ new.switched = (m_live_active # (purpose = "live"))
  BY DEF Picture, PictureInv, PicturesTyped
<1>2. encoder' = [encoder EXCEPT ![e] = new]
  BY DEF Shots!Captured
<1> HIDE DEF new
<1>3. PicturesTyped'
  BY <1>1, <1>2 DEF PictureInv, PicturesTyped
<1>4. ASSUME NEW f \in Encoder, encoder'[f].purpose # "none", ~encoder'[f].switched
      PROVE  m_live_active' <=> encoder'[f].purpose = "live"
  <2>1. CASE f = e
    <3>1. encoder'[f] = new
      BY <1>2, <2>1 DEF PictureInv, PicturesTyped
    <3> QED BY <1>1, <1>4, <3>1, Zenon DEF PictureInv, PicturesTyped
  <2>2. CASE f # e
    <3>1. encoder'[f] = encoder[f]
      BY <1>2, <2>2 DEF PictureInv, PicturesTyped
    <3> QED BY <1>4, <3>1, Zenon DEF PictureInv, StreamAsCaptured
  <2> QED BY <2>1, <2>2
<1> QED BY <1>3, <1>4, Zenon DEF PictureInv, StreamAsCaptured

LEMMA ThreadEndsKeeps ==
  ASSUME PictureInv, NEW e \in Encoder, encoder' = [encoder EXCEPT ![e] = Shots!Free],
         UNCHANGED <<m_live_active, asked>>
  PROVE  PictureInv'
<1>1. PicturesTyped'
  BY FreeIsPicture DEF PictureInv, PicturesTyped
<1>2. ASSUME NEW f \in Encoder, encoder'[f].purpose # "none"
      PROVE  encoder'[f] = encoder[f]
  <2>1. CASE f = e
    <3>1. encoder'[f] = Shots!Free
      BY <2>1 DEF PictureInv, PicturesTyped
    <3> QED BY <1>2, <3>1, FreeIsPicture
  <2>2. CASE f # e
    BY <2>2 DEF PictureInv, PicturesTyped
  <2> QED BY <2>1, <2>2
<1> QED BY <1>1, <1>2, Zenon DEF PictureInv, StreamAsCaptured

LEMMA SwitchKeeps ==
  ASSUME PictureInv, Shots!PauseOrStartLive
  PROVE  PictureInv'
<1>1. /\ m_live_active' \in BOOLEAN /\ asked' \in Nat
  BY DEF Shots!PauseOrStartLive, Shots!requests, PictureInv, PicturesTyped
<1>2. ASSUME NEW e \in Encoder
      PROVE  /\ encoder'[e] \in Picture
             /\ encoder'[e].purpose = "none" \/ encoder'[e].switched
  <2>1. encoder[e] \in Picture
    BY DEF PictureInv, PicturesTyped
  <2>2. CASE encoder[e] = Shots!Free
    <3>1. encoder'[e] = Shots!Free
      BY <2>2 DEF Shots!PauseOrStartLive
    <3> QED BY <3>1, FreeIsPicture
  <2>3. CASE encoder[e] # Shots!Free
    <3>1. encoder'[e] = [encoder[e] EXCEPT !.switched = TRUE]
      BY <2>3 DEF Shots!PauseOrStartLive
    <3> QED BY <2>1, <3>1 DEF Picture
  <2> QED BY <2>2, <2>3
<1>3. encoder' \in [Encoder -> Picture]
  <2>1. encoder' = [e \in Encoder |-> encoder'[e]]
    BY DEF Shots!PauseOrStartLive
  <2> QED BY <1>2, <2>1
<1> QED BY <1>1, <1>2, <1>3, Zenon DEF PictureInv, PicturesTyped, StreamAsCaptured

LEMMA PictureStep ==
  ASSUME PictureInv, [Shots!Next]_Shots!vars
  PROVE  PictureInv'
<1>1. ASSUME UNCHANGED <<m_live_active, encoder>>, asked' \in Nat
      PROVE  PictureInv'
  BY <1>1 DEF PictureInv, PicturesTyped, StreamAsCaptured
<1>2. asked \in Nat
  BY DEF PictureInv, PicturesTyped
<1>3. CASE Shots!TakeScreenshot
  BY <1>1, <1>2, <1>3 DEF Shots!TakeScreenshot
<1>4. CASE Shots!PauseOrStartLive
  BY <1>4, SwitchKeeps
<1>5. CASE \/ Shots!TimePasses \/ Shots!TestTake \/ Shots!ClearTake
           \/ Shots!TestLive \/ Shots!Key
  BY <1>1, <1>2, <1>5
     DEF Shots!TimePasses, Shots!TestTake, Shots!ClearTake, Shots!TestLive, Shots!Key,
         Shots!switches, Shots!requests
<1>6. CASE Shots!Capture \/ Shots!CaptureLive \/ Shots!KeyReleased
  <2>1. /\ UNCHANGED <<m_live_active, asked>>
        /\ \/ UNCHANGED encoder
           \/ \E e \in Encoder, purpose \in Shots!Purposes : Shots!Captured(e, purpose)
    BY <1>6, Zenon
       DEF Shots!Capture, Shots!CaptureLive, Shots!KeyReleased, Shots!switches,
           Shots!requests, Shots!Purposes
  <2> QED BY <1>1, <1>2, <2>1, CaptureKeeps
<1>7. ASSUME NEW e \in Encoder, Shots!Thread(e) PROVE PictureInv'
  BY <1>7, ThreadEndsKeeps
     DEF Shots!Thread, Shots!Encode, Shots!SaveFails, Shots!Save, Shots!switches,
         Shots!requests
<1>8. CASE UNCHANGED Shots!vars
  BY <1>1, <1>2, <1>8 DEF Shots!vars, Shots!switches, Shots!requests
<1> QED BY <1>3, <1>4, <1>5, <1>6, <1>7, <1>8 DEF Shots!Next, Shots!Tick

(* The command byte is chosen when the encoding ends, by what the stream   *)
(* is then; it is the byte of what the picture was captured for as long as *)
(* nobody has switched the stream meanwhile (screenshot.cpp:476).          *)
THEOREM TagsTellPurpose == Shots!Spec => Shots!TagTellsPurpose
<1>1. Shots!Init => PictureInv
  <2> SUFFICES ASSUME Shots!Init PROVE PictureInv
    OBVIOUS
  <2>1. encoder = [e \in Encoder |-> Shots!Free] /\ m_live_active = FALSE /\ asked = 0
    BY DEF Shots!Init
  <2> QED BY <2>1, FreeIsPicture DEF PictureInv, PicturesTyped, StreamAsCaptured
<1>2. PictureInv /\ [Shots!Next]_Shots!vars => PictureInv'
  BY PictureStep
<1>3. PictureInv =>
        [\A e \in Encoder : Shots!Encode(e) /\ sent' # "none" /\ ~encoder[e].switched =>
           sent' = Shots!Tag(encoder[e].purpose = "live")]_Shots!vars
  <2> SUFFICES ASSUME PictureInv, NEW e \in Encoder, Shots!Encode(e), sent' # "none",
                      ~encoder[e].switched
               PROVE  sent' = Shots!Tag(encoder[e].purpose = "live")
    BY Zenon
  <2>1. sent' = Shots!Tag(m_live_active) /\ encoder[e].purpose # "none"
    BY DEF Shots!Encode, Shots!Encoded, Shots!CommandTag
  <2>2. m_live_active <=> encoder[e].purpose = "live"
    BY <2>1, Zenon DEF PictureInv, StreamAsCaptured
  <2> QED BY <2>1, <2>2, Zenon DEF Shots!Tag
<1> QED BY <1>1, <1>2, <1>3, PTL DEF Shots!Spec, Shots!TagTellsPurpose
=============================================================================
