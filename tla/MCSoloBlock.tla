----------------------------- MODULE MCSoloBlock ----------------------------
(* A block's way from template to chain, and its bytes. The two have no    *)
(* state in common, so a behaviour explores one of them.                   *)
(*                                                                         *)
(* The way: the fork is block 128, the first whose height needs a sign     *)
(* byte. A word of four values is swept in batches of two. One miner has   *)
(* two threads, the other one. Connection 1 wins in a thread's second      *)
(* batch, connection 2 in its third, past the wrap of the nonce;           *)
(* regtest-miner past the carry into nonce2, or never.                     *)
(*                                                                         *)
(* The bytes: a byte has eight values and a hash four bytes. Transactions  *)
(* with and without witnesses, in every combination of one or two inputs,  *)
(* and one script long enough for a three-byte length; headers of both     *)
(* versions whose fields all differ; every byte string of up to four bytes.*)
EXTENDS SoloBlock

MCHeadline == [i \in 1..30 |-> 104]

MCTickets == <<{0, 1}, {0}>>

MCMempools == {<<TRUE, FALSE>>}

\* Layout 0 hashes nonce, nonce2, time_offset and nonce3 in this order.
MCMeets(hash) ==
  IF hash[1] = "sha256d" THEN hash[3] = 2
  ELSE LET n == hash[2]
       IN  \/ n[6][3][1] = 1 /\ n[2] = 3 /\ n[4] = 0
           \/ n[6][3][1] = 2 /\ n[2] = 0 /\ n[4] = 1
           \/ n[6][3][1] = 0 /\ n[2] = 1 /\ n[3] = 1 /\ n[4] = 2

-----------------------------------------------------------------------------

ByteValues == 8
HashBytes  == 4
Bytes == INSTANCE Encodings WITH Base <- ByteValues, HashLen <- HashBytes

Zeros(n) == [i \in 1..n |-> 0]
TopBit   == Bytes!Pow[4] \div 2
H(k) == Bytes!LE(k * 521 % Bytes!Pow[4], HashBytes)

In(k, witness) ==
  [txid |-> H(k), vout |-> k, script_sig |-> [i \in 1..k |-> i % ByteValues],
   sequence |-> 4095 - k, witness |-> witness]
Out(k) == [value |-> 70000 * k, script_pubkey |-> [i \in 1..(3 * k) |-> (i + k) % ByteValues]]

Stacks == {<<>>, << <<>> >>, << <<1, 2>>, <<0>> >>}

MCTxs ==
  {[version |-> 2, inputs |-> <<In(1, a)>>, outputs |-> <<Out(1), Out(0)>>, lock_time |-> 5] :
     a \in Stacks}
  \cup {[version |-> 1, inputs |-> <<In(2, a), In(9, b)>>, outputs |-> outs, lock_time |-> 0] :
     a \in Stacks, b \in Stacks, outs \in {<<>>, <<Out(2)>>}}

MCHeaders ==
  {[header_v2 |-> TRUE, version |-> v, prev_block |-> H(3), merkle_root |-> H(5),
    time_on_wire |-> 1001, bits |-> 777, nonce |-> 11, nonce2 |-> 22, nonce3 |-> 33,
    extranonce |-> [i \in 1..16 |-> i % ByteValues], time_offset |-> 44, txcount |-> 55,
    flags |-> f, xor_key_mask_clear_bits |-> 2, xor_key |-> [i \in 1..16 |-> (i \div 2) % ByteValues],
    height |-> 1234, mm_rhs |-> H(7)] : v \in {0, 1, TopBit - 1}, f \in {0, 4, 7}}
  \cup
  {[header_v2 |-> FALSE, version |-> v, prev_block |-> H(3), merkle_root |-> H(5),
    time_on_wire |-> 1001, bits |-> 777, nonce |-> 11, nonce2 |-> 0, nonce3 |-> 0,
    extranonce |-> Zeros(16), time_offset |-> 0, txcount |-> 0, flags |-> 0,
    xor_key_mask_clear_bits |-> 0, xor_key |-> Zeros(16), height |-> 0,
    mm_rhs |-> Zeros(HashBytes)] : v \in {0, 1, TopBit - 1}}

MCRaws   == UNION {[1..n -> Bytes!Byte] : n \in 0..4}
MCTrails == {<<0>>, <<1, 2>>, [i \in 1..(36 + HashBytes + 16) |-> 0]}

VARIABLES sent, kind, wire, fate, got
wireVars == <<sent, kind, wire, fate, got>>

Wire == INSTANCE BlockWire WITH Base <- ByteValues, HashLen <- HashBytes, Txs <- MCTxs,
                                Headers <- MCHeaders, Raws <- MCRaws, Trails <- MCTrails

MCInit == Init /\ Wire!Init
MCNext == \/ kind = "none" /\ Next /\ UNCHANGED wireVars
          \/ Init /\ Wire!Next /\ UNCHANGED vars
MCSpec == MCInit /\ [][MCNext]_<<vars, wireVars>>

\* What is written is what a transaction and a header can hold.
ASSUME WireAssumption == MCTxs \subseteq Wire!Transaction /\ MCHeaders \subseteq Wire!Header

WrittenIsRead     == Wire!WrittenIsRead
StrictReader      == Wire!StrictReader
TargetIsTheNumber == Wire!TargetIsTheNumber
=============================================================================
