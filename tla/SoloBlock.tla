----------------------------- MODULE SoloBlock ------------------------------
(***************************************************************************)
(* One block's way through the whole system: the node's template, the job  *)
(* the pool makes of it (crates/pool/src/job_builder.rs), mining.notify,   *)
(* the miner's batches (crates/miner/src/worker.rs), mining.submit, the    *)
(* pool's own check (crates/pool/src/validate.rs) and submitblock; and     *)
(* beside it regtest-miner (crates/regtest-miner/src/round.rs), which does *)
(* the same in one process. The chain crosses the fork on the way.         *)
(*                                                                         *)
(* Blocks are named by height. What the node checks of a block is external *)
(* and stated as NodeVerdict. When messages are delayed, dropped jobs and  *)
(* the poller's timing are PoolJobs; early timestamps are Submission. As a *)
(* bound, either regtest-miner mines on the node or the pool does.         *)
(***************************************************************************)
EXTENDS NonceSearch

CONSTANTS Conns,      \* connections of miners: numbers, as allocated
          Tickets,    \* per connection, extranonce tickets of the miner's threads
          Fork,       \* the height of the first block with a v2 header
          Start,      \* the chain's height at the beginning
          Headline,   \* what the network wants in the fork block, or None
          MinDifficulty, \* whether it is the network with the minimum-difficulty rule
          Mempools,   \* the transactions a template can hold: TRUE has a witness
          MaxHeight,  \* bound: height of the chain
          MaxJobs,    \* bound: jobs the pool builds
          MaxBatches, \* bound: batches a thread searches for one job
          MaxRounds,  \* bound: rounds of regtest-miner
          Attempts    \* ATTEMPTS_PER_ROUND

ASSUME ForkAssumption == Fork \in Nat \ {0} /\ Start \in Nat /\ MinDifficulty \in BOOLEAN
ASSUME DataAssumption == Headline \in Seq(0..255) /\ Mempools \subseteq Seq(BOOLEAN)
ASSUME HeightAssumption == (MaxHeight + 1) \div 256^3 < 128     \* a height is a positive i32
ASSUME BoundAssumption == {MaxHeight, MaxJobs, MaxBatches, MaxRounds, Attempts} \subseteq Nat

VARIABLES
  height,     \* height of the node's tip
  jobs,       \* the pool's jobs in order; a job's id is its place
  sub,        \* what each miner was assigned when it subscribed
  work,       \* what each miner hashes on: a parsed job, or NoWork
  at,         \* each thread's place in the nonce space
  done,       \* batches each thread has searched, and whether its job is solved
  solved,
  shares,     \* mining.submit lines on their way, with the hash they claim
  replies,    \* the last answer to each miner
  verdicts,   \* history: what the node said of every block submitted
  round,      \* regtest-miner: what it is mining on, or Idle, or Ended
  rounds,     \* regtest-miner: rounds begun
  hashed,     \* history: every input hashed
  count       \* history: how many hashes were computed

vars == <<height, jobs, sub, work, at, done, solved, shares, replies, verdicts, round, rounds,
          hashed, count>>

NoWork == [job_id |-> 0]
NotYet == [state |-> "new"]
Gone   == [state |-> "gone"]
On(given) == [state |-> "on", extranonce1 |-> given.extranonce1,
              extranonce2_size |-> given.extranonce2_size]
Idle   == [state |-> "idle"]
Ended  == [state |-> "ended"]
Built(b) == [state |-> "built", block |-> b.block, header |-> b.header]

Tag    == [i \in 1..12 |-> 98]          \* "bip110-miner"
Payout == "payout"
Reward == 50
SubmitId == 100

-----------------------------------------------------------------------------
(* The node.                                                               *)

BlockHash(n) == <<"block", n>>
IsV2(n) == n >= Fork

Raw(i, witness) == <<"tx", i, witness>>
Txid(raw)  == <<"txid", raw[2]>>
Wtxid(raw) == IF raw[3] THEN <<"wtxid", raw[2]>> ELSE Txid(raw)

\* A template for the block after the tip. Templates are fetched seconds apart,
\* and each carries the time it was made.
Now == Len(jobs) + rounds
Template(mempool) ==
  LET txs == [i \in 1..Len(mempool) |-> Raw(i, mempool[i])]
  IN  [header_v2 |-> IsV2(height + 1), previous |-> BlockHash(height), height |-> height + 1,
       transactions |-> txs, value |-> Reward, bits |-> 7, time |-> Now,
       commitment |-> CommitmentScript([i \in 1..Len(txs) |-> Wtxid(txs[i])])]

\* The number little-endian bytes stand for.
LittleEndian(b) ==
  LET sum[i \in 0..Len(b)] == IF i = 0 THEN 0 ELSE sum[i-1] + b[i] * 256^(i-1)
  IN  sum[Len(b)]

\* The number a script begins with, as an interpreter reads it.
LeadingNumber(script) ==
  LET n == script[1]
      b == SubSeq(script, 2, n + 1)
  IN  IF n = 0 THEN 0
      ELSE IF n \in OP_1..OP_1+15 THEN n - OP_1 + 1
      ELSE IF Last(b) >= 128 THEN -1
      ELSE LittleEndian(b)

HasInside(s, part) == \E i \in 0..Len(s)-Len(part) : SubSeq(s, i + 1, i + Len(part)) = part

\* What consensus asks of a block that follows the one it names; the reason is
\* the first rule broken.
NodeVerdict(block) ==
  LET h   == block.header
      n   == h.prev_block[2] + 1
      cb  == block.coinbase
      ids == <<CoinbaseTxid(cb)>> \o [i \in 1..Len(block.transactions) |-> Txid(block.transactions[i])]
      w   == [i \in 1..Len(block.transactions) |-> Wtxid(block.transactions[i])]
  IN  IF h.header_v2 # IsV2(n) THEN "bad-version"
      ELSE IF ~h.header_v2 /\ (h.txcount # 0 \/ h.height # 0 \/ h.nonce2 # 0 \/ h.nonce3 # 0
                               \/ h.time_offset # 0) THEN "bad-header-v1"
      ELSE IF ~Meets(PowHash(h)) THEN "high-hash"
      ELSE IF h.merkle_root # MerkleRoot(ids) THEN "bad-txnmrklroot"
      ELSE IF h.header_v2 /\ h.txcount # block.count THEN "bad-txnlist-size"
      ELSE IF h.header_v2 /\ h.height # n THEN "bad-height"
      ELSE IF LeadingNumber(cb.script_sig) # n THEN "bad-cb-height"
      ELSE IF n = Fork /\ Headline # None /\ ~HasInside(cb.script_sig, Headline) THEN "bad-headline"
      ELSE IF cb.witness # <<ReservedValue>> THEN "bad-witness-nonce-size"
      ELSE IF Last(cb.outputs).script # CommitmentScript(w) THEN "bad-witness-merkle-match"
      ELSE IF h.prev_block # BlockHash(height) THEN "inconclusive"
      ELSE "accepted"

ElsewhereMined ==
  /\ height < MaxHeight
  /\ height' = height + 1
  /\ UNCHANGED <<jobs, sub, work, at, done, solved, shares, replies, verdicts, round, rounds, hashed,
                 count>>

-----------------------------------------------------------------------------
(* The pool: one job from one template.                                    *)

\* is_fork_block, given the parent's header or no answer for it.
IsForkBlock(t, parentKnown) ==
  IF ~t.header_v2 THEN Ok(FALSE)
  ELSE IF ~parentKnown THEN Err("rpc")
  ELSE Ok(~IsV2(t.height - 1))

\* The pool's own timestamp where minimum difficulty is to be had: it depends on
\* the parent alone (min_difficulty::plan).
PlannedTime(t) == <<"after", t.previous>>

\* The header before the block's contents and the nonces are in it.
FromTemplate(t, time) ==
  [header_v2 |-> t.header_v2, version |-> 1, prev_block |-> t.previous, merkle_root |-> <<"zero">>,
   time_on_wire |-> time, bits |-> t.bits, nonce |-> 0, nonce2 |-> 0, nonce3 |-> 0,
   extranonce |-> Extranonce(0, 0), time_offset |-> 0, txcount |-> 0, flags |-> 0,
   xor_key_mask_clear_bits |-> 0, xor_key |-> NullKey, height |-> 0, mm_rhs |-> <<"zero">>]

\* The block both miners assemble: coinbase, transactions, header.
Assemble(t, time, headline, extranonce) ==
  LET wtxids == [i \in 1..Len(t.transactions) |-> Wtxid(t.transactions[i])]
      txids  == [i \in 1..Len(t.transactions) |-> Txid(t.transactions[i])]
      script == CommitmentScript(wtxids)
      cb     == BuildCoinbase(t.height, t.value, Payout, headline, extranonce, Tag, script)
  IN  IF t.commitment # script THEN Err("WitnessCommitmentMismatch")
      ELSE IF ~cb.ok THEN cb
      ELSE LET block  == NewBlock(cb.value, t.transactions, txids).value
               header == BlockHeader(block, FromTemplate(t, time), t.height)
           IN  IF ~header.ok THEN header ELSE Ok([block |-> block, header |-> header.value])

\* job_builder::build: what the miner gets is a projection of the header.
BuildJob(id, t, headline, clean) ==
  LET built == Assemble(t, IF MinDifficulty THEN PlannedTime(t) ELSE t.time, headline, None)
      mid   == PowMidstate(built.value.header)
  IN  IF ~built.ok THEN built
      ELSE IF ~built.value.header.header_v2 THEN Err("PreForkTemplate")
      ELSE Ok([job |-> [job_id |-> id, prev_hidden |-> Blanked(mid.prev_hidden),
                        consensus_digest |-> mid.h2, flags |-> built.value.header.flags,
                        bits |-> built.value.header.bits, clean_jobs |-> clean],
               header |-> built.value.header, block |-> built.value.block, height |-> t.height])

\* The parent's header may not be had: the job is built without the headline.
PoolBuilds ==
  /\ Len(jobs) < MaxJobs /\ rounds = 0 /\ height <= MaxHeight
  /\ \E mempool \in Mempools, parentKnown \in BOOLEAN :
       LET t    == Template(mempool)
           fork == IsForkBlock(t, parentKnown)
           head == IF Headline # None /\ fork.ok /\ fork.value THEN Headline ELSE None
           new  == jobs = <<>> \/ Last(jobs).height # t.height
           job  == BuildJob(Len(jobs) + 1, t, head, new)
       IN  /\ job.ok
           /\ jobs' = Append(jobs, [job |-> job.value.job, header |-> job.value.header,
                                    block |-> job.value.block, height |-> job.value.height,
                                    blind |-> ~fork.ok])
  /\ UNCHANGED <<height, sub, work, at, done, solved, shares, replies, verdicts, round, rounds, hashed,
                 count>>

-----------------------------------------------------------------------------
(* The miner.                                                              *)

\* The handshake. What another pool might answer is refused, and the miner ends.
MinerSubscribes(c) ==
  /\ sub[c] = NotYet
  /\ LET p     == SubscribeReply(c)
         early == Notification("mining.set_difficulty", <<Num(1)>>)
     IN  \E lines \in {<<ResponseOk(1, p)>>, <<early, ResponseOk(2, <<>>), ResponseOk(1, p)>>,
                       <<early>>, <<ResponseError(1, Other)>>, <<ResponseOk(1, SubSeq(p, 1, 2))>>}
              \cup {<<ResponseOk(1, [p EXCEPT ![2] = token])>> :
                      token \in {Num(c), Plain(c), Hex(c, 4)}}
              \cup {<<ResponseOk(1, [p EXCEPT ![3] = token])>> :
                      token \in {Plain(8), Num(4)}} :
           LET answer == WaitForResponse(lines, 1)
               given  == IF answer.ok THEN ParseSubscription(answer.value) ELSE answer
           IN  sub' = [sub EXCEPT ![c] = IF given.ok THEN On(given.value) ELSE Gone]
  /\ UNCHANGED <<height, jobs, work, at, done, solved, shares, replies, verdicts, round, rounds,
                 hashed, count>>

\* A notify: the pool's newest, or one from a pool that mines something else,
\* which is reported and otherwise ignored. Every thread starts over.
MinerReads(c) ==
  /\ sub[c].state = "on" /\ jobs # <<>> /\ work[c].job_id # Len(jobs)
  /\ LET p == ToNotifyParams(Last(jobs).job)
     IN  \E params \in {p, [p EXCEPT ![4] = Hex(1, 1)], [p EXCEPT ![5] = Array(1)],
                        [p EXCEPT ![3] = Hex(@.v, 32)], [p EXCEPT ![6] = Hex(256, 4)],
                        SubSeq(p, 1, 8)} :
           LET job == FromNotifyParams(params)
           IN  /\ job.ok
               /\ work' = [work EXCEPT ![c] = job.value]
  /\ at'     = [at EXCEPT ![c] = [t \in Tickets[c] |-> Origin]]
  /\ done'   = [done EXCEPT ![c] = [t \in Tickets[c] |-> 0]]
  /\ solved' = [solved EXCEPT ![c] = FALSE]
  /\ UNCHANGED <<height, jobs, sub, shares, replies, verdicts, round, rounds, hashed, count>>

\* One batch of one thread. A solution is submitted unless it uses a word that
\* Stratum has no slot for; then the thread, and every other, waits for a job.
MinerBatch(c, t) ==
  /\ work[c] # NoWork /\ ~solved[c] /\ done[c][t] < MaxBatches
  /\ LET e2 == EncodeExtranonce2(t, sub[c].extranonce2_size)
         r  == Search(JobMidstate(work[c], sub[c].extranonce1, e2), at[c][t], Batch)
     IN  /\ hashed' = hashed \cup r.inputs
         /\ count'  = count + r.hashes
         /\ solved' = [solved EXCEPT ![c] = r.found]
         /\ at'     = [at EXCEPT ![c][t] = IF r.found THEN @ ELSE NextBatch(@)]
         /\ shares' = IF ~r.found \/ r.at.nonce2 # 0 \/ r.at.nonce3 # 0 THEN shares ELSE shares \cup
              {[conn |-> c, hash |-> r.hash, line |-> Call(SubmitId, "mining.submit", ToSubmitParams(
                 [worker |-> "worker", job_id |-> work[c].job_id, extranonce2 |-> e2,
                  time_offset |-> r.at.time_offset, nonce |-> r.at.nonce]))]}
  /\ done' = [done EXCEPT ![c][t] = @ + 1]
  /\ UNCHANGED <<height, jobs, sub, work, replies, verdicts, round, rounds>>

-----------------------------------------------------------------------------
(* The pool again: rebuild the header from the share, hash, submit.        *)

\* A mutant of Rebuild: the halves of the extranonce in the wrong order.
RebuildReversed(active, share, e1) ==
  [active.header EXCEPT !.extranonce = Extranonce(share.extranonce2, e1),
                        !.nonce = share.nonce, !.time_offset = share.time_offset]

Rebuild(active, share, e1) ==
  [active.header EXCEPT !.extranonce = Extranonce(e1, share.extranonce2),
                        !.nonce = share.nonce, !.time_offset = share.time_offset,
                        !.nonce2 = 0, !.nonce3 = 0]

Submitted(block, by, blind) == [reason |-> NodeVerdict(block), height |-> block.header.prev_block[2] + 1,
                                by |-> by, blind |-> blind]

\* on_submit and check(). An accepted block moves the node's tip.
PoolChecks(m) ==
  LET share  == FromSubmitParams(m.line.params).value
      active == jobs[share.job_id]
      header == Rebuild(active, share, m.conn)
      v      == Submitted(SerializeBlock(active.block, header), "pool", active.blind)
      isBlock == Meets(PowHash(header)) /\ share.e2len + Extranonce1Size = 16
      refused == isBlock /\ v.reason \notin {"accepted", "inconclusive"}
  IN  /\ shares' = shares \ {m}
      /\ verdicts' = IF isBlock THEN verdicts \cup {v} ELSE verdicts
      /\ height' = IF isBlock /\ v.reason = "accepted" THEN height + 1 ELSE height
      /\ replies' = [replies EXCEPT ![m.conn] =
                       IF refused THEN ResponseError(m.line.id, Other)
                       ELSE ResponseOk(m.line.id, Bool(TRUE))]
      /\ UNCHANGED <<jobs, sub, work, at, done, solved, round, rounds, hashed, count>>

-----------------------------------------------------------------------------
(* regtest-miner: main()'s loop around round::mine.                        *)

\* The template and the parent are read, the block is built; an error ends the
\* program.
RoundBuilds ==
  /\ round = Idle /\ rounds < MaxRounds /\ jobs = <<>> /\ height <= MaxHeight
  /\ rounds' = rounds + 1
  /\ \E mempool \in Mempools, parentKnown \in BOOLEAN :
       LET t    == Template(mempool)
           fork == IF Headline = None THEN Ok(FALSE) ELSE IsForkBlock(t, parentKnown)
           head == IF fork.ok /\ fork.value THEN Headline ELSE None
           b    == Assemble(t, t.time, head, [i \in 1..8 |-> IF i = 1 THEN rounds' ELSE 0])
       IN  round' = IF fork.ok /\ b.ok THEN Built(b.value) ELSE Ended
  /\ UNCHANGED <<height, jobs, sub, work, at, done, solved, shares, replies, verdicts, hashed, count>>

\* main's loop: only an accepted block leads to another round.
AfterRound(accepted) == IF accepted THEN Idle ELSE Ended

\* The search starts at the round's own time_offset, and what it finds goes to
\* the node.
RoundMines ==
  /\ round.state = "built"
  /\ LET r == Search(PowMidstate(round.header), [Origin EXCEPT !.time_offset = rounds % Word], Attempts)
         header == [round.header EXCEPT !.nonce = r.at.nonce, !.nonce2 = r.at.nonce2,
                                        !.nonce3 = r.at.nonce3, !.time_offset = r.at.time_offset]
         v == Submitted(SerializeBlock(round.block, header), "round", FALSE)
     IN  /\ hashed' = hashed \cup r.inputs
         /\ count'  = count + r.hashes
         /\ verdicts' = IF r.found THEN verdicts \cup {v} ELSE verdicts
         /\ height' = IF r.found /\ v.reason = "accepted" THEN height + 1 ELSE height
         /\ round'  = AfterRound(r.found /\ v.reason = "accepted")
  /\ UNCHANGED <<jobs, sub, work, at, done, solved, shares, replies, rounds>>

-----------------------------------------------------------------------------

Init ==
  /\ height = Start /\ jobs = <<>>
  /\ sub = [c \in Conns |-> NotYet]
  /\ work = [c \in Conns |-> NoWork]
  /\ at = [c \in Conns |-> [t \in Tickets[c] |-> Origin]]
  /\ done = [c \in Conns |-> [t \in Tickets[c] |-> 0]]
  /\ solved = [c \in Conns |-> FALSE]
  /\ shares = {} /\ replies = [c \in Conns |-> ResponseOk(NoId, Bool(TRUE))]
  /\ verdicts = {}
  /\ round = Idle /\ rounds = 0
  /\ hashed = {} /\ count = 0

Next ==
  \/ ElsewhereMined
  \/ PoolBuilds
  \/ \E c \in Conns : MinerSubscribes(c) \/ MinerReads(c)
  \/ \E c \in Conns : \E t \in Tickets[c] : MinerBatch(c, t)
  \/ \E m \in shares : PoolChecks(m)
  \/ RoundBuilds
  \/ RoundMines

Spec == Init /\ [][Next]_vars

-----------------------------------------------------------------------------
(* Properties.                                                             *)

\* The hash the miner computed from a Stratum job is the hash the pool computes
\* from the header it rebuilds: no field of the header is lost, doubled or
\* moved between job_builder, notify, midstate, submit and check().
PoolSeesTheMinersHash ==
  \A m \in shares :
    LET share == FromSubmitParams(m.line.params)
    IN  /\ share.ok /\ share.value.job_id \in 1..Len(jobs)
        /\ PowHash(Rebuild(jobs[share.value.job_id], share.value, m.conn)) = m.hash

\* A block we submit is refused for nothing but losing a race, except for one
\* reason: the fork block whose parent the pool could not look up, which goes
\* without the headline. regtest-miner, which stops instead, is never refused.
RefusedOnlyWithoutTheHeadline ==
  \A v \in verdicts :
    \/ v.reason \in {"accepted", "inconclusive"}
    \/ v.reason = "bad-headline" /\ v.by = "pool" /\ v.blind /\ v.height = Fork

\* No input is hashed twice before the space of a thread wraps: connections
\* differ in extranonce1, threads in extranonce2, batches in nonce and offset,
\* and a header of one nonce word is not swept in words it does not have.
NothingHashedTwice == Cardinality(hashed) = count

\* worker.rs:14-15: "a single extranonce2 covers 2^64 hashes ... so a thread
\* claims one and never comes back".
ThreadsNeverComeBack == NothingHashedTwice
=============================================================================
