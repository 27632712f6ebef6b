------------------------------ MODULE BitStream ------------------------------
(***************************************************************************)
(* The bit stream the program writes its packets and RPCs with and reads   *)
(* the server's from (class BitStream).  Values are written one after the  *)
(* other at whatever bit the last one ended, into memory that is first a   *)
(* part of the stream, then a block on the heap that grows; the reader     *)
(* takes them out in the same order.  Memory that was never written holds  *)
(* junk, which is all zeros or all ones.                                   *)
(*                                                                         *)
(* A byte is the function of its bits, the most significant one first.     *)
(* Only right aligned bits are modelled, as every caller has them.  SetData*)
(* SetWriteOffset, AssertCopyData and the constructor with a size have no  *)
(* caller, and neither have the encodings of fractions.                    *)
(***************************************************************************)
EXTENDS Integers, Sequences, FiniteSets

CONSTANTS
  ByteSize,     \* bits of a byte: 8
  StackSize,    \* BITSTREAM_STACK_ALLOCATION_SIZE: 256
  Item,         \* what is written and read as one: [kind, value, bits], the
                \* value in bytes, of a value shorter than that in the low bits
  MaxWrites     \* bound of the model

Index == 0..ByteSize - 1
Byte == [Index -> {0, 1}]
BitsToBytes(n) == (n + ByteSize - 1) \div ByteSize

ASSUME SizeAssumption == ByteSize \in Nat /\ ByteSize > 1 /\ StackSize \in Nat \ {0}
ASSUME ItemAssumption ==
  \A item \in Item :
    /\ item.kind \in {"bit", "bits", "bytes", "aligned", "stream", "unsigned", "signed"}
    /\ item.value \in Seq(Byte) \ {<<>>}
    /\ item.bits \in Nat \ {0} /\ BitsToBytes(item.bits) = Len(item.value)

VARIABLES
  stream,       \* data, where it is, numberOfBitsUsed, numberOfBitsAllocated
  readOffset,
  junk,         \* a byte of memory nobody wrote to
  todo,         \* what was written and not read yet, in the order written
  result,       \* what the last read returned: bytes, none if it failed
  writes        \* how often something was written

vars == <<stream, readOffset, junk, todo, result, writes>>

Shr(b, n) == [i \in Index |-> IF i < n THEN 0 ELSE b[i - n]]
Shl(b, n) == [i \in Index |-> IF i + n \in Index THEN b[i + n] ELSE 0]
Or(a, b) == [i \in Index |-> IF a[i] = 1 THEN 1 ELSE b[i]]
All(bit) == [i \in Index |-> bit]
Low(b, n) == Shr(Shl(b, ByteSize - n), ByteSize - n)
FirstBit(bit) == [i \in Index |-> IF i = 0 THEN bit ELSE 0]
Half == ByteSize \div 2
Match(unsigned) == IF unsigned THEN All(0) ELSE All(1)
HalfMatch(unsigned) == Shl(Match(unsigned), Half)

Larger(a, b) == IF a > b THEN a ELSE b
(* The bit of a byte at which the next byte begins. *)
Aligned(n) == BitsToBytes(n) * ByteSize
-----------------------------------------------------------------------------
(* Writing. *)

Size(s) == Cardinality(DOMAIN s.data)
At(s, i) == IF i \in DOMAIN s.data THEN s.data[i] ELSE junk
Store(s, i, b) == [s EXCEPT !.data = [j \in DOMAIN @ |-> IF j = i THEN b ELSE @[j]]]
OrInto(s, i, b) == Store(s, i, Or(At(s, i), b))

(* Changed: the bytes of the new block are rounded down. *)
BytesRoundedDown(n) == n \div ByteSize

NewBytes(n) == BitsToBytes(n)

(* AddBitsAndReallocate *)
Grow(s, n) ==
  LET new == s.used + n
      size == NewBytes(2 * new)
      data == [i \in 0..size - 1 |-> At(s, i)]
  IN IF (s.allocated - 1) \div ByteSize >= (new - 1) \div ByteSize
     THEN [s EXCEPT !.allocated = Larger(@, new)]
     ELSE IF s.where = "stack" /\ size <= StackSize
     THEN [s EXCEPT !.allocated = 2 * new]
     ELSE [s EXCEPT !.allocated = 2 * new, !.where = "heap", !.data = data]

(* Changed: bits that go to the next byte are added to what is there. *)
SpillOr(s, i, b) == OrInto(s, i, b)

Spill(s, i, b) == Store(s, i, b)

(* One round of the loop in WriteBits, with n bits to go. *)
WriteByte(s, byte, n) ==
  LET at == s.used \div ByteSize
      mod == s.used % ByteSize
      b == IF n < ByteSize THEN Shl(byte, ByteSize - n) ELSE byte
      first == IF mod = 0 THEN Store(s, at, b) ELSE OrInto(s, at, Shr(b, mod))
      both == IF mod > 0 /\ ByteSize - mod < n THEN Spill(first, at + 1, Shl(b, ByteSize - mod))
              ELSE first
  IN [both EXCEPT !.used = @ + IF n < ByteSize THEN n ELSE ByteSize]

WriteBits(s, input, n) ==
  LET written[k \in 0..Len(input)] ==
        IF k = 0 THEN Grow(s, n)
        ELSE WriteByte(written[k - 1], input[k], n - (k - 1) * ByteSize)
  IN written[Len(input)]

(* Write(const char*, int): copied at once if the stream is at a byte. *)
WriteBytes(s, input) ==
  LET n == Len(input) * ByteSize
      g == Grow(s, n)
      from == s.used \div ByteSize
  IN IF s.used % ByteSize # 0 THEN WriteBits(s, input, n)
     ELSE [g EXCEPT !.used = @ + n,
             !.data = [i \in DOMAIN @ |-> IF i \in from..from + Len(input) - 1
                                          THEN input[i - from + 1] ELSE @[i]]]

(* One bit, with room for it: Write0, Write1, and what is copied from      *)
(* another stream.                                                         *)
PutBit(s, bit) ==
  LET at == s.used \div ByteSize
      mod == s.used % ByteSize
      t == IF mod = 0 THEN Store(s, at, FirstBit(bit)) ELSE OrInto(s, at, Shr(FirstBit(bit), mod))
  IN [t EXCEPT !.used = @ + 1]

WriteBit(s, bit) == PutBit(Grow(s, 1), bit)

(* Write(BitStream*, int) *)
WriteStream(s, byte) ==
  LET written[i \in 0..ByteSize] ==
        IF i = 0 THEN Grow(s, ByteSize) ELSE PutBit(written[i - 1], byte[i - 1])
  IN written[ByteSize]

(* WriteAlignedBytes *)
WriteAligned(s, input) == WriteBytes([s EXCEPT !.used = Aligned(@)], input)

(* WriteCompressed: a bit for each byte from the last down that says       *)
(* nothing, then the others, of the first maybe only a half.               *)
WriteCompressed(s, input, unsigned) ==
  LET match == Match(unsigned)
      rest == {k \in DOMAIN input : k > 1 /\ input[k] # match}
      kept == IF rest = {} THEN 1 ELSE CHOOSE k \in rest : \A j \in rest : j <= k
      skipped[k \in 0..Len(input) - kept] ==
        IF k = 0 THEN s ELSE WriteBit(skipped[k - 1], 1)
      t == skipped[Len(input) - kept]
      halved == Shl(Shr(input[1], Half), Half) = HalfMatch(unsigned)
  IN IF kept > 1 THEN WriteBits(WriteBit(t, 0), SubSeq(input, 1, kept), kept * ByteSize)
     ELSE IF halved THEN WriteBits(WriteBit(t, 1), SubSeq(input, 1, 1), Half)
     ELSE WriteBits(WriteBit(t, 0), SubSeq(input, 1, 1), ByteSize)
-----------------------------------------------------------------------------
(* Reading: what is read, and where the next read begins. *)

Failed(from) == [ok |-> FALSE, value |-> <<>>, next |-> from]
Ok(value, next) == [ok |-> TRUE, value |-> value, next |-> next]

(* Changed: nothing is taken from the next byte if it holds one bit only. *)
TakesNextButOne(mod, left) == mod > 0 /\ left > ByteSize - mod + 1

TakesNext(mod, left) == mod > 0 /\ left > ByteSize - mod

ReadBits(from, n) ==
  LET at == from \div ByteSize
      mod == from % ByteSize
      ByteOf(k) ==
        LET left == n - k * ByteSize
            first == Shl(At(stream, at + k), mod)
            both == IF TakesNext(mod, left)
                    THEN Or(first, Shr(At(stream, at + k + 1), ByteSize - mod)) ELSE first
        IN IF left < ByteSize THEN Shr(both, ByteSize - left) ELSE both
  IN IF from + n > stream.used THEN Failed(from)
     ELSE Ok([k \in 1..BitsToBytes(n) |-> ByteOf(k - 1)], from + n)

(* Read(char*, int): copied at once if the read is at a byte. *)
ReadBytes(from, count) ==
  IF from % ByteSize # 0 THEN ReadBits(from, count * ByteSize)
  ELSE IF from + count * ByteSize > stream.used THEN Failed(from)
  ELSE Ok([k \in 1..count |-> At(stream, from \div ByteSize + k - 1)], from + count * ByteSize)

ReadAligned(from, count) == ReadBytes(Aligned(from), count)

(* ReadCompressed, which reads bits until one of them is 0, and then the   *)
(* bytes that are left; or, after a bit for each other byte, the first.    *)
ReadCompressed(from, count, unsigned) ==
  LET Bit(k) == ReadBits(from + k, 1)
      IsZero(k) == Bit(k).ok /\ Bit(k).value = <<All(0)>>
      zeros == {k \in 0..count - 2 : IsZero(k)}
      skipped == IF zeros = {} THEN count - 1 ELSE CHOOSE k \in zeros : \A j \in zeros : k <= j
      left == count - skipped
      r == ReadBits(from + skipped + 1,
                    IF left = 1 /\ ~IsZero(skipped) THEN Half ELSE left * ByteSize)
      low == IF left = 1 /\ ~IsZero(skipped) /\ r.ok THEN <<Or(r.value[1], HalfMatch(unsigned))>>
             ELSE r.value
  IN IF (\E k \in 0..skipped : ~Bit(k).ok) \/ ~r.ok THEN Failed(from)
     ELSE Ok(low \o [k \in 1..skipped |-> Match(unsigned)], r.next)
-----------------------------------------------------------------------------
Encode(s, item) ==
  CASE item.kind = "bit" -> WriteBit(s, item.value[1][ByteSize - 1])
    [] item.kind = "bits" -> WriteBits(s, item.value, item.bits)
    [] item.kind = "bytes" -> WriteBytes(s, item.value)
    [] item.kind = "aligned" -> WriteAligned(s, item.value)
    [] item.kind = "stream" -> WriteStream(s, item.value[1])
    [] OTHER -> WriteCompressed(s, item.value, item.kind = "unsigned")

Decode(from, item) ==
  CASE item.kind \in {"bit", "bits", "stream"} -> ReadBits(from, item.bits)
    [] item.kind = "bytes" -> ReadBytes(from, Len(item.value))
    [] item.kind = "aligned" -> ReadAligned(from, Len(item.value))
    [] OTHER -> ReadCompressed(from, Len(item.value), item.kind = "unsigned")

Init ==
  /\ junk \in {All(0), All(1)}
  /\ stream = [data |-> [i \in 0..StackSize - 1 |-> junk], where |-> "stack",
               used |-> 0, allocated |-> StackSize * ByteSize]
  /\ readOffset = 0
  /\ todo = <<>> /\ result = <<>>
  /\ writes = 0

Write(item) ==
  /\ writes < MaxWrites /\ stream.where # "given"
  /\ writes' = writes + 1
  /\ stream' = Encode(stream, item)
  /\ todo' = Append(todo, item)
  /\ result' = <<>>
  /\ UNCHANGED <<readOffset, junk>>

Read ==
  /\ todo # <<>>
  /\ LET r == Decode(readOffset, Head(todo))
     IN result' = r.value /\ readOffset' = r.next
  /\ todo' = Tail(todo)
  /\ UNCHANGED <<stream, junk, writes>>

(* IgnoreBits, SetReadOffset: what is not of interest is left out. *)
Skip ==
  /\ todo # <<>> /\ Head(todo).kind \in {"bit", "bits", "bytes", "stream"}
  /\ readOffset' = readOffset + Head(todo).bits
  /\ todo' = Tail(todo)
  /\ result' = <<>>
  /\ UNCHANGED <<stream, junk, writes>>

(* A reader that takes more than there is. *)
ReadMore(n) ==
  /\ todo = <<>>
  /\ LET r == ReadBits(readOffset, n)
     IN result' = r.value /\ readOffset' = r.next
  /\ UNCHANGED <<stream, junk, todo, writes>>

Reset ==
  /\ stream.where # "given"
  /\ stream' = [stream EXCEPT !.used = 0]
  /\ readOffset' = 0
  /\ todo' = <<>>
  /\ result' = <<>>
  /\ UNCHANGED <<junk, writes>>

(* The stream is sent, and the receiver reads it where it is: a stream on  *)
(* the memory of the RPC (packets.cpp:134, captcha.cpp:64), of a byte more *)
(* than are full.                                                          *)
Receive ==
  /\ stream.where # "given" /\ readOffset = 0
  /\ LET size == stream.used \div ByteSize + 1
     IN stream' = [data |-> [i \in 0..size - 1 |-> At(stream, i)], where |-> "given",
                   used |-> size * ByteSize, allocated |-> size * ByteSize]
  /\ result' = <<>>
  /\ UNCHANGED <<readOffset, junk, todo, writes>>

Next ==
  \/ \E item \in Item : Write(item)
  \/ Read
  \/ Skip
  \/ \E n \in 1..ByteSize : ReadMore(n)
  \/ Reset
  \/ Receive

Spec == Init /\ [][Next]_vars
-----------------------------------------------------------------------------
(* The stream stays within its memory, and the destructor (bitstream.cpp:70)*)
(* can tell from the bits allocated whether there is a block to free.       *)
BufferFits ==
  /\ stream.used <= stream.allocated
  /\ stream.allocated <= Size(stream) * ByteSize
  /\ stream.where \in {"stack", "heap"} =>
       (stream.where = "heap" <=> stream.allocated > StackSize * ByteSize)

(* What is read in the order it was written is what was written, at every   *)
(* bit it may begin at, after every growth and reset, and whatever memory   *)
(* held before; and past its last bit a stream gives nothing, but for one   *)
(* on the memory of an RPC, which has a byte that was never received        *)
(* (bitstream.cpp:216-256 and :316-421).                                    *)
ReadsWhatWasWritten ==
  [][/\ Read => result' = Head(todo).value
     /\ \A n \in 1..ByteSize : ReadMore(n) /\ stream.where # "given" => result' = <<>>]_vars
=============================================================================
