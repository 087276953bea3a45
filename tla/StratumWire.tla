---------------------------- MODULE StratumWire -----------------------------
(***************************************************************************)
(* What travels between pool and miner: the parameters of mining.notify    *)
(* and mining.submit, the subscribe reply, and how a line is told to be a  *)
(* request or a response (crates/stratum/src/{job,share,message}.rs).      *)
(*                                                                         *)
(* A parameter is a token: its JSON type, what it stands for, and how many *)
(* bytes (or elements) that is. "hex" is a string hex::decode accepts,     *)
(* "text" one it does not.                                                 *)
(***************************************************************************)
EXTENDS BlockAssembly

Hex(v, n)  == [t |-> "hex", v |-> v, n |-> n]
Plain(v)    == [t |-> "text", v |-> v, n |-> 1]
EmptyText  == [t |-> "hex", v |-> <<>>, n |-> 0]
Array(n)   == [t |-> "array", v |-> <<>>, n |-> n]
Bool(b)    == [t |-> "bool", v |-> b, n |-> 1]
Num(n)     == [t |-> "number", v |-> n, n |-> 1]
IsText(p)  == p.t \in {"hex", "text"}

Extranonce1Size == 8
Extranonce2Size == 8

-----------------------------------------------------------------------------
(* mining.notify.                                                          *)

\* coinb1 is the zero word and the digest: 4 + 32 bytes.
ToNotifyParams(job) ==
  <<Plain(job.job_id), Hex(job.prev_hidden, 32), Hex(job.consensus_digest, 36), EmptyText,
    Array(0), Hex(job.flags, 4), Hex(job.bits, 4), Hex(0, 4), Bool(job.clean_jobs)>>

\* Indexes are the code's plus one. The error names the first thing wrong.
FromNotifyParams(p) ==
  IF Len(p) < 9 THEN Err("WrongParamCount")
  ELSE IF ~IsText(p[3]) THEN Err("NotAString")
  ELSE IF p[3].t # "hex" THEN Err("BadHex")
  ELSE IF p[3].n # 36 THEN Err("BadCoinb1Length")
  ELSE IF ~IsText(p[4]) THEN Err("NotAString")
  ELSE IF p[4].n # 0 THEN Err("UnexpectedCoinbaseSuffix")
  ELSE IF p[5].t = "array" /\ p[5].n # 0 THEN Err("UnexpectedMerkleBranch")
  ELSE IF \E i \in {1, 2, 6, 7} : ~IsText(p[i]) THEN Err("NotAString")
  ELSE IF p[2].t # "hex" \/ p[2].n # 32 THEN Err("BadHex")
  ELSE IF p[6].t # "hex" \/ p[7].t # "hex" THEN Err("NotHex")
  ELSE IF p[6].v > 255 THEN Err("FlagsOutOfRange")
  ELSE Ok([job_id |-> p[1].v, prev_hidden |-> p[2].v, consensus_digest |-> p[3].v,
           flags |-> p[6].v, bits |-> p[7].v,
           clean_jobs |-> IF p[9].t = "bool" THEN p[9].v ELSE FALSE])

\* An extranonce is its two halves in order; sizes are in bytes.
Extranonce(e1, e2) == <<e1, e2>>

JobMidstate(job, e1, e2) ==
  FromStratumJob(job.consensus_digest, Extranonce(e1, e2), job.prev_hidden, job.flags)

-----------------------------------------------------------------------------
(* mining.submit.                                                          *)

ToSubmitParams(share) ==
  <<Plain(share.worker), Plain(share.job_id), Hex(share.extranonce2, Extranonce2Size),
    Hex(share.time_offset, 4), Hex(share.nonce, 4)>>

FromSubmitParams(p) ==
  IF Len(p) < 5 THEN Err("WrongParamCount")
  ELSE IF \E i \in 1..5 : ~IsText(p[i]) THEN Err("NotAString")
  ELSE IF p[3].t # "hex" THEN Err("BadHex")
  ELSE IF p[4].t # "hex" \/ p[5].t # "hex" THEN Err("NotHex")
  ELSE Ok([worker |-> p[1].v, job_id |-> p[2].v, extranonce2 |-> p[3].v, e2len |-> p[3].n,
           time_offset |-> p[4].v, nonce |-> p[5].v])

-----------------------------------------------------------------------------
(* Lines. Whatever has a method is a request, one without an id wants no   *)
(* answer, and a response carries the id of its request.                   *)

NoId == 0       \* Option::None; the miner's own ids start at 1

Call(id, method, params)     == [id |-> id, method |-> method, params |-> params]
Notification(method, params) == [id |-> NoId, method |-> method, params |-> params]

NoError == [code |-> 0]
Other   == [code |-> 20]

ResponseOk(id, result)   == [id |-> id, result |-> result, error |-> NoError]
ResponseError(id, error) == [id |-> id, result |-> <<>>, error |-> error]

\* Incoming::parse: the two shapes overlap, the method decides.
IsRequest(line) == "method" \in DOMAIN line

-----------------------------------------------------------------------------
(* mining.subscribe: the pool gives each connection its half of the        *)
(* extranonce and says how wide the miner's half is.                       *)

SubscribeReply(conn) == <<Array(2), Hex(conn, Extranonce1Size), Num(Extranonce2Size)>>

\* The handshake reads until the answer it waits for; anything before that is
\* dropped, and without it the miner gives up.
WaitForResponse(lines, id) ==
  LET answers == {i \in 1..Len(lines) : ~IsRequest(lines[i]) /\ lines[i].id = id}
      first   == lines[CHOOSE i \in answers : \A j \in answers : i <= j]
  IN  IF answers = {} THEN Err("no answer")
      ELSE IF first.error # NoError THEN Err("refused")
      ELSE Ok(first.result)

\* The two halves must fill the header's 16 bytes. What is no array is too short.
ParseSubscription(p) ==
  IF Len(p) < 3 THEN Err("too short")
  ELSE IF ~IsText(p[2]) THEN Err("NotAString")
  ELSE IF p[2].t # "hex" THEN Err("BadHex")
  ELSE IF p[3].t # "number" THEN Err("NotANumber")
  ELSE IF p[2].n + p[3].v # 16 THEN Err("ExtranonceWidth")
  ELSE Ok([extranonce1 |-> p[2].v, extranonce2_size |-> p[3].v])

\* The ticket in exactly `size` bytes, from the low end.
EncodeExtranonce2(ticket, size) == IF size < 4 THEN ticket % 256^size ELSE ticket
=============================================================================
