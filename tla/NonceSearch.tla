---------------------------- MODULE NonceSearch -----------------------------
(***************************************************************************)
(* Sweeping the nonce space: search() over four words with carry           *)
(* (crates/mining/src/search.rs), and the miner's own batches over two of  *)
(* them (crates/miner/src/worker.rs).                                      *)
(***************************************************************************)
EXTENDS StratumWire, FiniteSets

CONSTANTS Word,     \* values of a 32-bit word
          Batch,    \* nonces per batch; it divides Word
          Meets(_)  \* whether a hash meets the job's target

ASSUME WordAssumption  == Word \in Nat \ {0}
ASSUME BatchAssumption == Batch \in 1..Word /\ Word % Batch = 0

Origin == [nonce |-> 0, nonce2 |-> 0, nonce3 |-> 0, time_offset |-> 0]

Truncate(at, words) ==
  [nonce       |-> at.nonce,
   nonce2      |-> IF words < 2 THEN 0 ELSE at.nonce2,
   nonce3      |-> IF words < 3 THEN 0 ELSE at.nonce3,
   time_offset |-> IF words < 4 THEN 0 ELSE at.time_offset]

\* One up, with a carry through the first `words` words.
Advance(at, words) ==
  LET c1 == at.nonce = Word - 1 /\ words >= 2
      c2 == c1 /\ at.nonce2 = Word - 1 /\ words >= 3
      c3 == c2 /\ at.nonce3 = Word - 1 /\ words >= 4
  IN  [nonce       |-> (at.nonce + 1) % Word,
       nonce2      |-> IF c1 THEN (at.nonce2 + 1) % Word ELSE at.nonce2,
       nonce3      |-> IF c2 THEN (at.nonce3 + 1) % Word ELSE at.nonce3,
       time_offset |-> IF c3 THEN (at.time_offset + 1) % Word ELSE at.time_offset]

\* A v1 header has one nonce word, and nothing to gain beyond it.
Budget(words, attempts) == IF words = 1 /\ attempts > Word THEN Word ELSE attempts

\* Consecutive points from start.
Sweep(start, words, budget) ==
  LET point[i \in 0..budget] ==
        IF i = 0 THEN Truncate(start, words) ELSE Advance(point[i-1], words)
  IN  point

\* The first point of the sweep that meets the target, if the attempts do not
\* run out. inputs is what was hashed; next is where to resume.
Search(mid, start, attempts) ==
  LET words  == NonceWords(mid)
      budget == Budget(words, attempts)
      point  == Sweep(start, words, budget)
      hash(i) == MidHash(mid, point[i])
      hits    == {i \in 0..budget-1 : Meets(hash(i))}
      first   == CHOOSE i \in hits : \A j \in hits : i <= j
      tried   == IF hits = {} THEN budget ELSE first + 1
  IN  [found  |-> hits # {},
       at     |-> IF hits = {} THEN Origin ELSE point[first],
       hash   |-> IF hits = {} THEN <<>> ELSE hash(first),
       next   |-> point[tried],
       hashes |-> tried,
       inputs |-> {hash(i) : i \in 0..tried-1}]

\* A mutant of NextBatch: the offset is not rolled when the nonce wraps.
NextBatchSameOffset(at) == [at EXCEPT !.nonce = (@ + Batch) % Word]

\* The next batch of the miner: nonce, then time_offset, nothing else.
NextBatch(at) ==
  IF at.nonce + Batch < Word THEN [at EXCEPT !.nonce = @ + Batch]
  ELSE [at EXCEPT !.nonce = 0, !.time_offset = (@ + 1) % Word]
=============================================================================
