----------------------------- MODULE BlockWire ------------------------------
(***************************************************************************)
(* Transactions and headers as bytes                                       *)
(* (crates/bip110-primitives/src/{transaction,header}.rs), written on one  *)
(* side and read on the other, with what can happen to a byte string in    *)
(* between: cut short, or followed by the next thing in the block.         *)
(***************************************************************************)
EXTENDS Encodings

CONSTANTS Txs,       \* transactions written
          Headers,   \* headers written
          Raws,      \* byte strings that no writer of ours produced
          Trails     \* what may follow a message in a stream

VARIABLES sent,      \* what was written: a transaction, a header, or Nothing
          kind,      \* which of them: "none", "tx", "header" or "raw"
          wire,      \* the bytes
          fate,      \* history: "whole", "cut" or "followed"
          got        \* what the reader made of them

vars == <<sent, kind, wire, fate, got>>
Nothing == <<>>

-----------------------------------------------------------------------------
(* What is written: the fields of a transaction and of a header, each with  *)
(* the width it has in the code.                                            *)

Hash256 == [1..HashLen -> Byte]
Array16 == [1..16 -> Byte]
U(width) == 0..Pow[width]-1
Script  == Seq(Byte)

TxIn  == [txid : Hash256, vout : U(4), script_sig : Script, sequence : U(4), witness : Seq(Script)]
TxOut == [value : Nat, script_pubkey : Script]
Transaction ==
  [version : U(4), inputs : Seq(TxIn), outputs : Seq(TxOut), lock_time : U(4)]

\* The version without its top bit, which says header_v2.
Header ==
  [header_v2 : BOOLEAN, version : 0..Pow[4] \div 2 - 1, prev_block : Hash256,
   merkle_root : Hash256, time_on_wire : U(4), bits : U(4), nonce : U(4), nonce2 : U(4),
   nonce3 : U(4), extranonce : Array16, time_offset : U(4), txcount : U(2), flags : Byte,
   xor_key_mask_clear_bits : Byte, xor_key : Array16, height : U(4), mm_rhs : Hash256]

-----------------------------------------------------------------------------
(* Transactions.                                                           *)

WriteVarBytes(s) == Encode(Len(s)) \o s
WriteAll(W(_), items) == FlattenSeq([i \in 1..Len(items) |-> W(items[i])])

HasWitness(tx) == \E i \in 1..Len(tx.inputs) : tx.inputs[i].witness # <<>>

WriteInput(in) ==
  in.txid \o LE(in.vout, 4) \o WriteVarBytes(in.script_sig) \o LE(in.sequence, 4)
WriteOutput(out) == LE(out.value, 8) \o WriteVarBytes(out.script_pubkey)
WriteWitness(in) == Encode(Len(in.witness)) \o WriteAll(WriteVarBytes, in.witness)

WriteInputs(tx)  == Encode(Len(tx.inputs)) \o WriteAll(WriteInput, tx.inputs)
WriteOutputs(tx) == Encode(Len(tx.outputs)) \o WriteAll(WriteOutput, tx.outputs)

SerializeLegacy(tx) ==
  LE(tx.version, 4) \o WriteInputs(tx) \o WriteOutputs(tx) \o LE(tx.lock_time, 4)

\* Marker 0 and flag 1 after the version; the stacks before the lock time.
SerializeTx(tx) ==
  IF ~HasWitness(tx) THEN SerializeLegacy(tx)
  ELSE LE(tx.version, 4) \o <<0, 1>> \o WriteInputs(tx) \o WriteOutputs(tx)
       \o WriteAll(WriteWitness, tx.inputs) \o LE(tx.lock_time, 4)

(* Parsing. A parser takes what is left of the input and returns what it   *)
(* read with the new rest, or an error. Then is `?` between two reads.     *)

Then(r, Next2(_)) == IF r.ok THEN Next2(r) ELSE r

\* `count` items, one after another.
ReadMany(Read(_), count, s) ==
  LET at[i \in 0..count] ==
        IF i = 0 THEN Got(<<>>, s)
        ELSE Then(at[i-1], LAMBDA done :
               Then(Read(done.rest), LAMBDA r : Got(Append(done.value, r.value), r.rest)))
  IN  at[count]

ReadInput(s) ==
  Then(ReadHash(s), LAMBDA txid :
  Then(ReadInt(txid.rest, 4), LAMBDA vout :
  Then(ReadVarBytes(vout.rest), LAMBDA sig :
  Then(ReadInt(sig.rest, 4), LAMBDA seq :
    Got([txid |-> txid.value, vout |-> vout.value, script_sig |-> sig.value,
         sequence |-> seq.value, witness |-> <<>>], seq.rest)))))

ReadOutput(s) ==
  Then(ReadInt(s, 8), LAMBDA value :
  Then(ReadVarBytes(value.rest), LAMBDA script :
    Got([value |-> value.value, script_pubkey |-> script.value], script.rest)))

ReadCounted(Read(_), s) ==
  Then(ReadVarInt(s), LAMBDA n : ReadMany(Read, n.value, n.rest))
ReadStack(s) == ReadCounted(ReadVarBytes, s)

\* A zero input count is the segwit marker: the flag is skipped unread and
\* the real count follows. Bytes after the lock time are not looked at.
DeserializeTx(s) ==
  Then(ReadInt(s, 4), LAMBDA version :
  Then(ReadVarInt(version.rest), LAMBDA count :
  LET segwit == count.value = 0 IN
  Then(IF segwit THEN Then(ReadBytes(count.rest, 1), LAMBDA flag : ReadVarInt(flag.rest))
       ELSE count, LAMBDA n :
  Then(ReadMany(ReadInput, n.value, n.rest), LAMBDA ins :
  Then(ReadCounted(ReadOutput, ins.rest), LAMBDA outs :
  Then(IF segwit THEN ReadMany(ReadStack, n.value, outs.rest)
       ELSE Got([i \in 1..n.value |-> <<>>], outs.rest), LAMBDA stacks :
  Then(ReadInt(stacks.rest, 4), LAMBDA lock :
    Got([version   |-> version.value,
         inputs    |-> [i \in 1..n.value |->
                          [ins.value[i] EXCEPT !.witness = stacks.value[i]]],
         outputs   |-> outs.value,
         lock_time |-> lock.value], lock.rest))))))))

-----------------------------------------------------------------------------
(* Headers. V1Size and V2Size are 80 and 164 with the code's HashLen.      *)

V1Size == 16 + 2 * HashLen
V2Size == V1Size + 52 + HashLen
V2Flag == Pow[4] \div 2           \* the version's top bit

CompleteVersion(h) == (h.version % V2Flag) + (IF h.header_v2 THEN V2Flag ELSE 0)

\* A mutant of SerializeHeader: two words that are alike change places.
SerializeHeaderSwapped(h) ==
  LE(CompleteVersion(h), 4) \o h.prev_block \o h.merkle_root \o LE(h.bits, 4)
  \o LE(h.time_on_wire, 4) \o LE(h.nonce, 4)
  \o IF ~h.header_v2 THEN <<>>
     ELSE LE(h.nonce2, 4) \o LE(h.nonce3, 4) \o h.extranonce \o LE(h.time_offset, 4)
          \o LE(h.txcount, 2) \o <<h.flags, h.xor_key_mask_clear_bits>> \o h.xor_key
          \o LE(h.height, 4) \o h.mm_rhs

SerializeHeader(h) ==
  LE(CompleteVersion(h), 4) \o h.prev_block \o h.merkle_root \o LE(h.time_on_wire, 4)
  \o LE(h.bits, 4) \o LE(h.nonce, 4)
  \o IF ~h.header_v2 THEN <<>>
     ELSE LE(h.nonce2, 4) \o LE(h.nonce3, 4) \o h.extranonce \o LE(h.time_offset, 4)
          \o LE(h.txcount, 2) \o <<h.flags, h.xor_key_mask_clear_bits>> \o h.xor_key
          \o LE(h.height, 4) \o h.mm_rhs

\* The cursor reads every field at the offset the ones before it leave.
Field(s, at, width)  == SubSeq(s, at + 1, at + width)
Number(s, at, width) == UnLE(Field(s, at, width))

ZeroBytes(n) == [i \in 1..n |-> 0]

DeserializeHeader(s) ==
  IF Len(s) < 4 THEN Err("UnexpectedEnd")
  ELSE
  LET v2 == Number(s, 0, 4) >= V2Flag
      h  == 2 * HashLen IN
  IF Len(s) # (IF v2 THEN V2Size ELSE V1Size) THEN Err("WrongLength")
  ELSE Got(
    [header_v2    |-> v2,
     version      |-> Number(s, 0, 4) % V2Flag,
     prev_block   |-> Field(s, 4, HashLen),
     merkle_root  |-> Field(s, 4 + HashLen, HashLen),
     time_on_wire |-> Number(s, 4 + h, 4),
     bits         |-> Number(s, 8 + h, 4),
     nonce        |-> Number(s, 12 + h, 4),
     nonce2       |-> IF v2 THEN Number(s, 16 + h, 4) ELSE 0,
     nonce3       |-> IF v2 THEN Number(s, 20 + h, 4) ELSE 0,
     extranonce   |-> IF v2 THEN Field(s, 24 + h, 16) ELSE ZeroBytes(16),
     time_offset  |-> IF v2 THEN Number(s, 40 + h, 4) ELSE 0,
     txcount      |-> IF v2 THEN Number(s, 44 + h, 2) ELSE 0,
     flags        |-> IF v2 THEN s[47 + h] ELSE 0,
     xor_key_mask_clear_bits |-> IF v2 THEN s[48 + h] ELSE 0,
     xor_key      |-> IF v2 THEN Field(s, 48 + h, 16) ELSE ZeroBytes(16),
     height       |-> IF v2 THEN Number(s, 64 + h, 4) ELSE 0,
     mm_rhs       |-> IF v2 THEN Field(s, 68 + h, HashLen) ELSE ZeroBytes(HashLen)],
    <<>>)

-----------------------------------------------------------------------------
(* The writer, what happens to the bytes, and the reader.                  *)

Init ==
  /\ sent = Nothing /\ kind = "none" /\ wire = <<>>
  /\ fate = "whole" /\ got = Nothing

WriteTx ==
  /\ kind = "none"
  /\ \E tx \in Txs : sent' = tx /\ wire' = SerializeTx(tx)
  /\ kind' = "tx"
  /\ UNCHANGED <<fate, got>>

WriteHeader ==
  /\ kind = "none"
  /\ \E h \in Headers : sent' = h /\ wire' = SerializeHeader(h)
  /\ kind' = "header"
  /\ UNCHANGED <<fate, got>>

\* Bytes from elsewhere: a template's hex fields, a block of another node.
ReceiveRaw ==
  /\ kind = "none"
  /\ wire' \in Raws
  /\ kind' = "raw"
  /\ UNCHANGED <<sent, fate, got>>

CutShort ==
  /\ kind \in {"tx", "header"} /\ fate = "whole" /\ got = Nothing
  /\ \E n \in 0..Len(wire)-1 : wire' = SubSeq(wire, 1, n)
  /\ fate' = "cut"
  /\ UNCHANGED <<sent, kind, got>>

Followed ==
  /\ kind \in {"tx", "header"} /\ fate = "whole" /\ got = Nothing
  /\ \E t \in Trails : wire' = wire \o t
  /\ fate' = "followed"
  /\ UNCHANGED <<sent, kind, got>>

Read ==
  /\ kind # "none" /\ got = Nothing
  /\ got' = CASE kind = "tx"     -> DeserializeTx(wire)
              [] kind = "header" -> DeserializeHeader(wire)
              [] kind = "raw"    -> ReadVarInt(wire)
  /\ UNCHANGED <<sent, kind, wire, fate>>

Next == WriteTx \/ WriteHeader \/ ReceiveRaw \/ CutShort \/ Followed \/ Read
Spec == Init /\ [][Next]_vars

-----------------------------------------------------------------------------
(* Properties.                                                             *)

Done == got # Nothing

\* What one side writes the other reads back, field for field: a transaction
\* also when the next one follows it in the block, a header alone.
WrittenIsRead ==
  /\ Done /\ kind = "tx" /\ fate # "cut" =>
       got.ok /\ got.value = sent /\ SerializeTx(sent) \o got.rest = wire
  /\ Done /\ kind = "header" /\ fate = "whole" => got.ok /\ got.value = sent

\* Nothing else is read as it. No strict prefix of a message reads as a message,
\* wherever it was cut, and a header of one version is never taken for one of
\* the other; every number has one CompactSize form, of the length announced,
\* and no other bytes read as it: a count cannot be restated.
StrictReader ==
  /\ Done /\ (fate = "cut" \/ (kind = "header" /\ fate = "followed")) => ~got.ok
  /\ kind = "raw" =>
       LET d == Decode(wire)
           n == UnLE(wire)
       IN  /\ d.ok => /\ SubSeq(wire, 1, d.used) = Encode(d.value)
                      /\ d.used = EncodedLen(d.value)
           /\ Decode(Encode(n)) = [ok |-> TRUE, value |-> n, used |-> EncodedLen(n)]

\* The value of a target as a number.
TargetNumber(target) == UnLE(Reverse(target))
Largest == Base^HashLen - 1

\* A compact target decodes to mantissa * Base^(exponent-3), rounded down, and
\* is refused exactly when that is negative or does not fit; a hash meets it
\* exactly when it is numerically no larger, and then shows at least as many
\* leading zero bits as the target asks for.
TargetIsTheNumber ==
  kind = "raw" /\ Len(wire) = 4 =>
    LET bits  == UnLE(wire)
        exp   == Exponent(bits)
        value == IF exp >= 3 THEN Mantissa(bits) * Base^(exp - 3)
                             ELSE Mantissa(bits) \div Base^(3 - exp)
        t     == FromCompact(bits)
    IN  /\ t.ok <=> ~Negative(bits) /\ value <= Largest
        /\ t.ok =>
             /\ TargetNumber(t.value) = value
             /\ \A n \in {0, value - 1, value, value + 1, Largest} \cap 0..Largest :
                  LET hash == LE(n, HashLen)
                  IN  /\ IsMetBy(t.value, hash) <=> n <= value
                      /\ NumericLess(hash, LE(value, HashLen)) <=> n < value
                      /\ n <= value => HashZeroBits(hash) >= TargetZeroBits(t.value)
=============================================================================
