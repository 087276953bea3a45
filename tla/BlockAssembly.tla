--------------------------- MODULE BlockAssembly ----------------------------
(***************************************************************************)
(* How a block is put together and hashed: scripts, the coinbase, the two  *)
(* merkle trees, the header and the stages of the proof of work            *)
(* (crates/mining/src/{script,coinbase,witness,block}.rs and               *)
(* crates/bip110-primitives/src/{merkle,pow}.rs).                          *)
(*                                                                         *)
(* A hash is the tuple of its tag and of what went into it: two hashes are *)
(* equal exactly when everything hashed is. Scripts are bytes.             *)
(***************************************************************************)
EXTENDS Integers, Sequences, SequencesExt

Err(reason) == [ok |-> FALSE, reason |-> reason]
Ok(value)   == [ok |-> TRUE, value |-> value]

-----------------------------------------------------------------------------
(* Scripts.                                                                *)

OP_PUSHDATA1 == 76
OP_PUSHDATA2 == 77
OP_1         == 81

\* push_data; it panics above 520 bytes, which no caller passes.
PushData(data) ==
  LET n == Len(data)
  IN  (CASE n <= 75 -> <<n>>
         [] n > 75 /\ n <= 255 -> <<OP_PUSHDATA1, n>>
         [] OTHER -> <<OP_PUSHDATA2, n % 256, n \div 256>>) \o data

\* How many base-256 digits a number has: none for zero.
Digits(v) == CHOOSE n \in 0..4 : (\A i \in 0..3 : i >= n => v \div 256^i = 0)
                                 /\ (n > 0 => v \div 256^(n-1) > 0)

\* A mutant of EncodeScriptNumber: the sign bit is forgotten.
EncodeUnsigned(v) == [i \in 1..Digits(v) |-> (v \div 256^(i-1)) % 256]

\* Little-endian, with a zero byte on top when the top bit would be a sign.
EncodeScriptNumber(v) ==
  LET le == [i \in 1..Digits(v) |-> (v \div 256^(i-1)) % 256]
  IN  IF le # <<>> /\ Last(le) >= 128 THEN Append(le, 0) ELSE le

\* CScript() << height: one opcode up to 16, a push above.
EncodeBlockHeight(height) ==
  CASE height = 0 -> <<0>>
    [] height \in 1..16 -> <<OP_1 + height - 1>>
    [] OTHER -> PushData(EncodeScriptNumber(height))

-----------------------------------------------------------------------------
(* Merkle trees.                                                           *)

Combine(left, right) == <<"node", left, right>>

\* An odd level duplicates its last node.
Padded(level) == IF Len(level) % 2 = 1 /\ Len(level) > 1 THEN Append(level, Last(level)) ELSE level
Parents(level) ==
  LET p == Padded(level)
  IN  [i \in 1..(Len(p) \div 2) |-> Combine(p[2*i - 1], p[2*i])]

\* The levels of a tree, leaves first, up to the single root.
Depth(leaves) == CHOOSE d \in 0..Len(leaves) : 2^d >= Len(leaves) /\ (d > 0 => 2^(d-1) < Len(leaves))
Levels(leaves) ==
  LET at[k \in 0..Depth(leaves)] == IF k = 0 THEN leaves ELSE Parents(at[k-1])
  IN  at

MerkleRoot(leaves) ==       \* leaves # <<>>: every block has a coinbase
  Levels(leaves)[Depth(leaves)][1]

-----------------------------------------------------------------------------
(* The witness commitment.                                                 *)

ReservedValue     == <<"zero">>         \* 32 zero bytes
CoinbaseWtxid     == <<"zero">>         \* the placeholder
WitnessRoot(wtxids)        == MerkleRoot(<<CoinbaseWtxid>> \o wtxids)
Commitment(root, reserved) == <<"commitment", root, reserved>>
CommitmentScript(wtxids)   == <<"OP_RETURN", Commitment(WitnessRoot(wtxids), ReservedValue)>>

-----------------------------------------------------------------------------
(* The coinbase.                                                           *)

MinScriptSig == 2
MaxScriptSig == 100
None == <<>>            \* an Option that is not there

\* Pushes the bytes unless there are none.
PushIf(data) == IF data = <<>> THEN <<>> ELSE PushData(data)

ScriptSig(height, headline, extranonce, tag) ==
  EncodeBlockHeight(height)
  \o (IF headline = None THEN <<>> ELSE PushData(headline))
  \o PushIf(extranonce) \o PushIf(tag)

\* A null outpoint, and a witness exactly when there is a commitment.
BuildCoinbase(height, value, payout, headline, extranonce, tag, commitment) ==
  LET sig == ScriptSig(height, headline, extranonce, tag)
  IN  IF Len(sig) < MinScriptSig \/ Len(sig) > MaxScriptSig THEN Err("ScriptSigLength")
      ELSE Ok([script_sig |-> sig,
               witness |-> IF commitment = None THEN <<>> ELSE <<ReservedValue>>,
               outputs |-> <<[value |-> value, script |-> payout]>> \o
                           (IF commitment = None THEN <<>>
                            ELSE <<[value |-> 0, script |-> commitment]>>)])

\* The id of the coinbase is over its serialisation without the witness.
CoinbaseTxid(cb) == <<"coinbase", cb.script_sig, cb.outputs>>

-----------------------------------------------------------------------------
(* The block.                                                              *)

NewBlock(coinbase, transactions, txids) ==
  IF Len(transactions) # Len(txids) THEN Err("CountMismatch")
  ELSE Ok([coinbase |-> coinbase, transactions |-> transactions, txids |-> txids])

BlockRoot(block) == MerkleRoot(<<CoinbaseTxid(block.coinbase)>> \o block.txids)
TransactionCount(block) == Len(block.transactions) + 1

\* A v1 header has neither count nor height: the node wants them zero.
BlockHeader(block, template, height) ==
  IF template.header_v2 /\ TransactionCount(block) > 65535 THEN Err("TooManyTransactions")
  ELSE Ok([template EXCEPT
             !.merkle_root = BlockRoot(block),
             !.txcount = IF template.header_v2 THEN TransactionCount(block) ELSE 0,
             !.height  = IF template.header_v2 THEN height ELSE 0])

\* What submitblock is given. The count written is the block's own.
SerializeBlock(block, header) ==
  [header |-> header, count |-> TransactionCount(block),
   coinbase |-> block.coinbase, transactions |-> block.transactions]

-----------------------------------------------------------------------------
(* The proof of work. Stages 0 to 3 are the midstate; a Stratum job brings *)
(* the results of 0 to 2 and no xor key.                                   *)

NullKey == <<"null key">>
NoMask  == <<"no mask">>
XorMask(h) == IF h.xor_key = NullKey THEN NoMask
              ELSE <<"BIP110/xor_mask", h.xor_key, h.xor_key_mask_clear_bits>>

PrevHidden(h) == <<"prevblock", h.prev_block>>
Blanked(hidden) == IF hidden[1] = "blanked" THEN hidden ELSE <<"blanked", hidden>>

H1(h) ==
  <<"header_1", h.header_v2, h.version, h.prev_block, h.height, h.merkle_root, h.time_on_wire,
    h.bits, h.txcount, h.flags, h.xor_key_mask_clear_bits, <<"xor_key", h.xor_key>>>>
H2(h) == <<"merge_mining", H1(h), h.mm_rhs>>

Stage3(h2, extranonce) == <<"stage3", h2, extranonce>>

\* The header as SHA-256d sees it: the 80 bytes, without the nonce.
V1Bytes(h) == <<h.version, h.prev_block, h.merkle_root, h.time_on_wire, h.bits>>

PowMidstate(h) ==
  IF ~h.header_v2 THEN [v2 |-> FALSE, header |-> V1Bytes(h)]
  ELSE [v2 |-> TRUE, stage3 |-> Stage3(H2(h), h.extranonce), h2 |-> H2(h),
        prev_hidden |-> PrevHidden(h), xor_mask |-> XorMask(h), flags |-> h.flags]

FromStratumJob(digest, extranonce, prevHidden, flags) ==
  [v2 |-> TRUE, stage3 |-> Stage3(digest, extranonce), h2 |-> digest,
   prev_hidden |-> prevHidden, xor_mask |-> NoMask, flags |-> flags]

NonceWords(mid) == IF mid.v2 THEN 4 ELSE 1

\* Stage 4 in the layout the flags ask for, n the four nonce words.
Stage4(mid, n) ==
  CASE mid.flags % 4 = 0 -> <<Blanked(mid.prev_hidden), n.nonce, n.nonce2, n.time_offset, n.nonce3,
                             mid.stage3>>
    [] mid.flags % 4 = 1 -> <<n.nonce, n.nonce2, n.nonce3, n.time_offset, mid.stage3, mid.h2>>
    [] mid.flags % 4 = 2 -> <<"zero48", mid.h2, n.nonce, n.nonce2, n.time_offset, n.nonce3,
                             mid.stage3>>
    [] mid.flags % 4 = 3 -> <<"zero80", mid.h2, n.nonce, n.nonce2, n.time_offset, n.nonce3,
                             mid.stage3>>

MidHash(mid, n) ==
  IF mid.v2 THEN <<"blake2b", Stage4(mid, n), mid.xor_mask>>
  ELSE <<"sha256d", mid.header, n.nonce>>

PowHash(h) ==
  MidHash(PowMidstate(h), [nonce |-> h.nonce, nonce2 |-> h.nonce2, nonce3 |-> h.nonce3,
                           time_offset |-> h.time_offset])
=============================================================================
