----------------------------- MODULE Encodings ------------------------------
(***************************************************************************)
(* The byte encodings blocks are made of: CompactSize, the bounds-checked  *)
(* reader, compact targets and the numeric order of hashes                 *)
(* (crates/bip110-primitives/src/{varint,reader,target,hash}.rs).          *)
(*                                                                         *)
(* A byte is a number below Base and a hash has HashLen bytes; the code    *)
(* has 256 and 32. The widths of the integers (1, 2, 4 and 8 bytes) and    *)
(* the three top byte values kept as length prefixes are the code's. An    *)
(* error is a record without a value, so a caller can only test ok.        *)
(***************************************************************************)
EXTENDS Integers, Sequences, FiniteSets, SequencesExt

CONSTANTS Base,      \* values of a byte: even, and more than four
          HashLen    \* bytes of a hash, and of a target: more than three

Byte == 0..Base-1
Err(reason) == [ok |-> FALSE, reason |-> reason]

-----------------------------------------------------------------------------
(* Little-endian integers of a fixed width.                                *)

Pow == [n \in 0..8 |-> Base^n]

LE(v, width) == [i \in 1..width |-> (v \div Pow[i-1]) % Base]
UnLE(s)      == FoldLeftDomain(LAMBDA sum, i : sum + s[i] * Pow[i-1], 0, s)

-----------------------------------------------------------------------------
(* CompactSize.                                                            *)

Marker2 == Base - 3      \* 0xFD: a u16 follows
Marker4 == Base - 2      \* 0xFE: a u32
Marker8 == Base - 1      \* 0xFF: a u64

EncodedLen(v) ==
  CASE v < Marker2 -> 1
    [] v >= Marker2 /\ v < Pow[2] -> 3
    [] v >= Pow[2] /\ v < Pow[4] -> 5
    [] OTHER -> 9

Encode(v) ==
  CASE v < Marker2 -> <<v>>
    [] v >= Marker2 /\ v < Pow[2] -> <<Marker2>> \o LE(v, 2)
    [] v >= Pow[2] /\ v < Pow[4] -> <<Marker4>> \o LE(v, 4)
    [] OTHER -> <<Marker8>> \o LE(v, 8)

\* The integer of `width` bytes after the marker, which must not fit in fewer.
DecodeLong(s, width, least) ==
  IF Len(s) < 1 + width THEN Err("UnexpectedEnd")
  ELSE LET v == UnLE(SubSeq(s, 2, 1 + width))
       IN  IF v < least THEN Err("NonCanonical")
           ELSE [ok |-> TRUE, value |-> v, used |-> 1 + width]

Decode(s) ==
  CASE s = <<>> -> Err("UnexpectedEnd")
    [] s # <<>> /\ s[1] < Marker2 -> [ok |-> TRUE, value |-> s[1], used |-> 1]
    [] s # <<>> /\ s[1] = Marker2 -> DecodeLong(s, 2, Marker2)
    [] s # <<>> /\ s[1] = Marker4 -> DecodeLong(s, 4, Pow[2])
    [] OTHER -> DecodeLong(s, 8, Pow[4])

-----------------------------------------------------------------------------
(* Reader: a cursor, here the part of the input it has not passed. What is *)
(* read comes back with the rest, and a failed read has no rest to go on   *)
(* with: the parsers stop at the first one.                                *)

Got(value, rest) == [ok |-> TRUE, value |-> value, rest |-> rest]

\* A mutant of ReadBytes: a read past the end returns what there is.
ReadBytesClamped(s, count) ==
  LET n == IF count > Len(s) THEN Len(s) ELSE count
  IN  Got(SubSeq(s, 1, n), SubSeq(s, n + 1, Len(s)))

ReadBytes(s, count) ==
  IF count > Len(s) THEN Err("UnexpectedEnd")
  ELSE Got(SubSeq(s, 1, count), SubSeq(s, count + 1, Len(s)))

\* read_u32, read_i32, read_u64: the same with the bytes taken as a number.
ReadInt(s, width) ==
  LET r == ReadBytes(s, width) IN IF r.ok THEN Got(UnLE(r.value), r.rest) ELSE r

ReadHash(s) == ReadBytes(s, HashLen)

ReadVarInt(s) ==
  LET d == Decode(s)
  IN  IF d.ok THEN Got(d.value, SubSeq(s, d.used + 1, Len(s))) ELSE d

ReadVarBytes(s) ==
  LET n == ReadVarInt(s) IN IF n.ok THEN ReadBytes(n.rest, n.value) ELSE n

-----------------------------------------------------------------------------
(* Target: HashLen bytes, most significant first. A hash is the other way  *)
(* round, least significant first.                                         *)

\* The three mantissa bytes of the compact form, and the sign bit above them.
Exponent(bits) == bits \div Pow[3]
Mantissa(bits) == bits % (Pow[3] \div 2)
Negative(bits) == (bits % Pow[3]) >= Pow[3] \div 2
MantissaByte(bits, i) == (Mantissa(bits) \div Pow[2-i]) % Base    \* i in 0..2

\* A mutant of FromCompact: bytes above the top are dropped like those below.
FromCompactDropping(bits) ==
  IF Negative(bits) THEN Err("Negative")
  ELSE LET power(i) == Exponent(bits) - 1 - i
       IN  [ok |-> TRUE, value |->
             [p \in 1..HashLen |->
                IF \E i \in 0..2 : power(i) = HashLen - p
                THEN MantissaByte(bits, CHOOSE i \in 0..2 : power(i) = HashLen - p)
                ELSE 0]]

\* Mantissa byte i goes to the place of Base^(exponent-1-i): dropped if that
\* is below the number, an overflow if it is above it and the byte is not 0.
FromCompact(bits) ==
  LET power(i) == Exponent(bits) - 1 - i
  IN  CASE Negative(bits) -> Err("Negative")
        [] ~Negative(bits) /\ (\E i \in 0..2 : power(i) >= HashLen /\ MantissaByte(bits, i) # 0)
             -> Err("Overflow")
        [] OTHER -> [ok |-> TRUE, value |->
             [p \in 1..HashLen |->
                IF \E i \in 0..2 : power(i) = HashLen - p
                THEN MantissaByte(bits, CHOOSE i \in 0..2 : power(i) = HashLen - p)
                ELSE 0]]

\* The first byte that differs, most significant first, decides.
Differ(hash, target) == {i \in 1..HashLen : hash[HashLen + 1 - i] # target[i]}
First(S) == CHOOSE i \in S : \A j \in S : i <= j

IsMetBy(target, hash) ==
  LET d == Differ(hash, target)
  IN  d = {} \/ hash[HashLen + 1 - First(d)] < target[First(d)]

NumericLess(a, b) ==
  LET d == {i \in 1..HashLen : a[i] # b[i]}
      top == CHOOSE i \in d : \A j \in d : j <= i
  IN  d # {} /\ a[top] < b[top]

\* u8::leading_zeros of one byte, and the count over a whole number.
ByteBits == CHOOSE n \in 1..Base : 2^n >= Base /\ 2^(n-1) < Base
LeadingZeros(b) == ByteBits - Cardinality({k \in 0..ByteBits-1 : b >= 2^k})

LeadingZeroBits(digits) ==      \* most significant first
  LET nonzero == {i \in 1..HashLen : digits[i] # 0}
  IN  IF nonzero = {} THEN HashLen * ByteBits
      ELSE (First(nonzero) - 1) * ByteBits + LeadingZeros(digits[First(nonzero)])

TargetZeroBits(target) == LeadingZeroBits(target)
HashZeroBits(hash)     == LeadingZeroBits(Reverse(hash))
=============================================================================
