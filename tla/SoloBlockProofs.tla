--------------------------- MODULE SoloBlockProofs --------------------------
(***************************************************************************)
(* SoloBlock's promises, for any number of miners and threads, any         *)
(* solutions, any mempools and any heights a node can have: what the pool  *)
(* rebuilds from a share has the hash the miner found, and the node has    *)
(* nothing against a block but that it comes late or was made without the  *)
(* headline. The order is that of a block's way: the messages, the search, *)
(* the job, the system's invariant, then the bytes of the scriptSig and    *)
(* what the node says of the block.                                        *)
(***************************************************************************)
EXTENDS SoloBlock, FiniteSetTheorems, WellFoundedInduction, TLAPS

-----------------------------------------------------------------------------
(* The messages: what is written to a line is what is read from it.        *)

\* A share is read as it was submitted.
LEMMA SubmitRoundTrip ==
  ASSUME NEW s
  PROVE  FromSubmitParams(ToSubmitParams(s)) =
           Ok([worker |-> s.worker, job_id |-> s.job_id, extranonce2 |-> s.extranonce2,
               e2len |-> Extranonce2Size, time_offset |-> s.time_offset, nonce |-> s.nonce])
<1> DEFINE p == ToSubmitParams(s)
<1>1. /\ p[1] = Plain(s.worker) /\ p[2] = Plain(s.job_id)
      /\ p[3] = Hex(s.extranonce2, Extranonce2Size)
      /\ p[4] = Hex(s.time_offset, 4) /\ p[5] = Hex(s.nonce, 4)
      /\ Len(p) = 5
  BY DEF ToSubmitParams
<1>2. \A v, n : /\ Hex(v, n).t = "hex" /\ Hex(v, n).v = v /\ Hex(v, n).n = n
               /\ Plain(v).t = "text" /\ Plain(v).v = v
  BY DEF Hex, Plain
<1> HIDE DEF p
<1>3. \A i \in 1..5 : IsText(p[i])
  <2>1. IsText(p[1]) /\ IsText(p[2]) /\ IsText(p[3]) /\ IsText(p[4]) /\ IsText(p[5])
    BY <1>1, <1>2 DEF IsText
  <2> QED  BY <2>1
<1>4. FromSubmitParams(p) =
        Ok([worker |-> p[1].v, job_id |-> p[2].v, extranonce2 |-> p[3].v, e2len |-> p[3].n,
            time_offset |-> p[4].v, nonce |-> p[5].v])
  <2>1. ~(Len(p) < 5)
    BY <1>1
  <2>2. p[3].t = "hex" /\ p[4].t = "hex" /\ p[5].t = "hex"
    BY <1>1, <1>2
  <2> QED  BY <2>1, <2>2, <1>3 DEF FromSubmitParams
<1>5. FromSubmitParams(p) =
        Ok([worker |-> s.worker, job_id |-> s.job_id, extranonce2 |-> s.extranonce2,
            e2len |-> Extranonce2Size, time_offset |-> s.time_offset, nonce |-> s.nonce])
  BY <1>1, <1>2, <1>4
<1> QED  BY <1>5 DEF p

\* A job is read as it was announced.
LEMMA NotifyRoundTrip ==
  ASSUME NEW j, j.flags \in 0..255, j.clean_jobs \in BOOLEAN
  PROVE  FromNotifyParams(ToNotifyParams(j)) =
           Ok([job_id |-> j.job_id, prev_hidden |-> j.prev_hidden,
               consensus_digest |-> j.consensus_digest, flags |-> j.flags, bits |-> j.bits,
               clean_jobs |-> j.clean_jobs])
<1> DEFINE p == ToNotifyParams(j)
<1>1. /\ p[1] = Plain(j.job_id) /\ p[2] = Hex(j.prev_hidden, 32)
      /\ p[3] = Hex(j.consensus_digest, 36) /\ p[4] = EmptyText /\ p[5] = Array(0)
      /\ p[6] = Hex(j.flags, 4) /\ p[7] = Hex(j.bits, 4) /\ p[9] = Bool(j.clean_jobs)
      /\ Len(p) = 9
  BY DEF ToNotifyParams
<1>2. \A v, n : /\ Hex(v, n).t = "hex" /\ Hex(v, n).v = v /\ Hex(v, n).n = n
               /\ Plain(v).t = "text" /\ Plain(v).v = v
               /\ Bool(v).t = "bool" /\ Bool(v).v = v
               /\ Array(n).n = n
               /\ EmptyText.t = "hex" /\ EmptyText.n = 0
  BY DEF Hex, Plain, Bool, Array, EmptyText
<1> HIDE DEF p
<1>3. /\ IsText(p[1]) /\ IsText(p[2]) /\ IsText(p[3]) /\ IsText(p[4]) /\ IsText(p[6])
      /\ IsText(p[7])
  BY <1>1, <1>2 DEF IsText
<1>4. ~ \E i \in {1, 2, 6, 7} : ~IsText(p[i])
  BY <1>3
<1>5. /\ p[3].t = "hex" /\ p[3].n = 36 /\ p[4].n = 0 /\ p[5].n = 0 /\ p[2].t = "hex" /\ p[2].n = 32
      /\ p[6].t = "hex" /\ p[7].t = "hex" /\ p[9].t = "bool"
  BY <1>1, <1>2
<1>6. p[6].v = j.flags /\ ~(p[6].v > 255) /\ ~(Len(p) < 9)
  BY <1>1, <1>2
<1>7. FromNotifyParams(p) =
        Ok([job_id |-> p[1].v, prev_hidden |-> p[2].v, consensus_digest |-> p[3].v,
            flags |-> p[6].v, bits |-> p[7].v, clean_jobs |-> p[9].v])
  BY <1>3, <1>4, <1>5, <1>6 DEF FromNotifyParams
<1>8. FromNotifyParams(p) =
        Ok([job_id |-> j.job_id, prev_hidden |-> j.prev_hidden,
            consensus_digest |-> j.consensus_digest, flags |-> j.flags, bits |-> j.bits,
            clean_jobs |-> j.clean_jobs])
  BY <1>1, <1>2, <1>7
<1> QED  BY <1>8 DEF p

\* A job whose consensus digest or time is not what it says is refused.
LEMMA NotifyRefuses ==
  ASSUME NEW j,
         NEW q \in {[ToNotifyParams(j) EXCEPT ![4] = Hex(1, 1)],
                    [ToNotifyParams(j) EXCEPT ![5] = Array(1)],
                    [ToNotifyParams(j) EXCEPT ![3] = Hex(@.v, 32)],
                    [ToNotifyParams(j) EXCEPT ![6] = Hex(256, 4)],
                    SubSeq(ToNotifyParams(j), 1, 8)}
  PROVE  ~FromNotifyParams(q).ok
<1> DEFINE p == ToNotifyParams(j)
<1>0. p \in Seq({p[i] : i \in 1..9}) /\ Len(p) = 9 /\ DOMAIN p = 1..9
  BY DEF ToNotifyParams
<1>1. /\ p[3].t = "hex" /\ p[3].n = 36 /\ p[4].t = "hex" /\ p[4].n = 0
      /\ p[1].t = "text" /\ p[2].t = "hex" /\ p[6].t = "hex" /\ p[7].t = "hex"
      /\ p[2].n = 32 /\ p[5].n = 0
  BY DEF ToNotifyParams, Hex, Plain, EmptyText, Array
<1>2. \A reason : Err(reason).ok = FALSE
  BY DEF Err
<1>a. \A v, n : Hex(v, n).t = "hex" /\ Hex(v, n).v = v /\ Hex(v, n).n = n
                /\ Array(n).t = "array" /\ Array(n).n = n
  BY DEF Hex, Array
<1> HIDE DEF p
<1>3. CASE q = SubSeq(p, 1, 8)
  <2>1. Len(q) = 8
    BY <1>0, <1>3
  <2> QED  BY <2>1, <1>2 DEF FromNotifyParams
<1>4. CASE q = [p EXCEPT ![4] = Hex(1, 1)]
  <2>1. q[4] = Hex(1, 1) /\ q[3] = p[3]
    BY <1>0, <1>4
  <2> QED  BY <2>1, <1>1, <1>2, <1>a DEF FromNotifyParams, IsText
<1>5. CASE q = [p EXCEPT ![5] = Array(1)]
  <2>1. q[5] = Array(1) /\ q[3] = p[3] /\ q[4] = p[4]
    BY <1>0, <1>5
  <2> QED  BY <2>1, <1>1, <1>2, <1>a DEF FromNotifyParams, IsText
<1>6. CASE q = [p EXCEPT ![3] = Hex(@.v, 32)]
  <2>1. q[3] = Hex(p[3].v, 32)
    BY <1>0, <1>6
  <2> QED  BY <2>1, <1>1, <1>2, <1>a DEF FromNotifyParams, IsText
<1>7. CASE q = [p EXCEPT ![6] = Hex(256, 4)]
  <2>1. q[6] = Hex(256, 4) /\ q[1] = p[1] /\ q[2] = p[2] /\ q[3] = p[3] /\ q[4] = p[4]
        /\ q[5] = p[5] /\ q[7] = p[7]
    BY <1>0, <1>7
  <2>2. q[6].v > 255
    BY <2>1, <1>a
  <2> QED  BY <2>1, <2>2, <1>1, <1>2, <1>a DEF FromNotifyParams, IsText
<1> QED  BY <1>3, <1>4, <1>5, <1>6, <1>7 DEF p

\* The answer to a request is found when it is the only one,
LEMMA AnswerAlone ==
  ASSUME NEW v
  PROVE  WaitForResponse(<<ResponseOk(1, v)>>, 1) = Ok(v)
<1> DEFINE lines == <<ResponseOk(1, v)>>
           answers == {i \in 1..Len(lines) : ~IsRequest(lines[i]) /\ lines[i].id = 1}
<1>1. Len(lines) = 1 /\ lines[1] = ResponseOk(1, v)
  OBVIOUS
<1>2. /\ ResponseOk(1, v).id = 1 /\ ResponseOk(1, v).error = NoError
      /\ ResponseOk(1, v).result = v /\ "method" \notin DOMAIN ResponseOk(1, v)
  BY DEF ResponseOk
<1> HIDE DEF lines
<1>3. answers = {1}
  BY <1>1, <1>2 DEF IsRequest
<1>4. (CHOOSE i \in answers : \A j \in answers : i <= j) = 1
  BY <1>3
<1>5. WaitForResponse(lines, 1) = Ok(lines[1].result)
  <2> HIDE DEF answers
  <2>1. answers # {} /\ ~(lines[1].error # NoError)
    BY <1>1, <1>2, <1>3
  <2>2. WaitForResponse(lines, 1) =
          IF answers = {} THEN Err("no answer")
          ELSE IF lines[CHOOSE i \in answers : \A j \in answers : i <= j].error # NoError
               THEN Err("refused")
          ELSE Ok(lines[CHOOSE i \in answers : \A j \in answers : i <= j].result)
    BY DEF WaitForResponse, answers
  <2> QED  BY <2>1, <2>2, <1>4
<1> QED  BY <1>1, <1>2, <1>5 DEF lines

\* and when a notification came before it,
LEMMA AnswerLast ==
  ASSUME NEW v, NEW params
  PROVE  WaitForResponse(<<Notification("mining.set_difficulty", params), ResponseOk(2, <<>>),
                           ResponseOk(1, v)>>, 1) = Ok(v)
<1> DEFINE lines == <<Notification("mining.set_difficulty", params), ResponseOk(2, <<>>),
                      ResponseOk(1, v)>>
           answers == {i \in 1..Len(lines) : ~IsRequest(lines[i]) /\ lines[i].id = 1}
<1>1. /\ Len(lines) = 3 /\ lines[1] = Notification("mining.set_difficulty", params)
      /\ lines[2] = ResponseOk(2, <<>>) /\ lines[3] = ResponseOk(1, v)
  OBVIOUS
<1>2. /\ ResponseOk(1, v).id = 1 /\ ResponseOk(1, v).error = NoError
      /\ ResponseOk(1, v).result = v /\ "method" \notin DOMAIN ResponseOk(1, v)
      /\ ResponseOk(2, <<>>).id = 2
      /\ "method" \in DOMAIN Notification("mining.set_difficulty", params)
  BY DEF ResponseOk, Notification
<1> HIDE DEF lines
<1>3. answers = {3}
  BY <1>1, <1>2 DEF IsRequest
<1>4. (CHOOSE i \in answers : \A j \in answers : i <= j) = 3
  BY <1>3
<1>5. WaitForResponse(lines, 1) = Ok(lines[3].result)
  <2> HIDE DEF answers
  <2>1. answers # {} /\ ~(lines[3].error # NoError)
    BY <1>1, <1>2, <1>3
  <2>2. WaitForResponse(lines, 1) =
          IF answers = {} THEN Err("no answer")
          ELSE IF lines[CHOOSE i \in answers : \A j \in answers : i <= j].error # NoError
               THEN Err("refused")
          ELSE Ok(lines[CHOOSE i \in answers : \A j \in answers : i <= j].result)
    BY DEF WaitForResponse, answers
  <2> QED  BY <2>1, <2>2, <1>4
<1> QED  BY <1>1, <1>2, <1>5 DEF lines

\* and none is found when none has its id.
LEMMA NoAnswer ==
  ASSUME NEW params, NEW error, error # NoError
  PROVE  /\ ~WaitForResponse(<<Notification("mining.set_difficulty", params)>>, 1).ok
         /\ ~WaitForResponse(<<ResponseError(1, error)>>, 1).ok
<1>1. \A reason : Err(reason).ok = FALSE
  BY DEF Err
<1>2. ~WaitForResponse(<<Notification("mining.set_difficulty", params)>>, 1).ok
  <2> DEFINE lines == <<Notification("mining.set_difficulty", params)>>
             answers == {i \in 1..Len(lines) : ~IsRequest(lines[i]) /\ lines[i].id = 1}
  <2>1. Len(lines) = 1 /\ "method" \in DOMAIN lines[1]
    BY DEF Notification
  <2>2. answers = {}
    <3> HIDE DEF lines
    <3> QED  BY <2>1 DEF IsRequest
  <2> QED  BY <2>2, <1>1 DEF WaitForResponse
<1>3. ~WaitForResponse(<<ResponseError(1, error)>>, 1).ok
  <2> DEFINE lines == <<ResponseError(1, error)>>
             answers == {i \in 1..Len(lines) : ~IsRequest(lines[i]) /\ lines[i].id = 1}
  <2>1. /\ Len(lines) = 1 /\ "method" \notin DOMAIN lines[1] /\ lines[1].id = 1
        /\ lines[1].error = error
    BY DEF ResponseError
  <2> HIDE DEF lines
  <2>2. answers = {1}
    BY <2>1 DEF IsRequest
  <2>3. (CHOOSE i \in answers : \A j \in answers : i <= j) = 1
    BY <2>2
  <2>4. WaitForResponse(lines, 1) =
          IF answers = {} THEN Err("no answer")
          ELSE IF lines[CHOOSE i \in answers : \A j \in answers : i <= j].error # NoError
               THEN Err("refused")
          ELSE Ok(lines[CHOOSE i \in answers : \A j \in answers : i <= j].result)
    BY DEF WaitForResponse
  <2> HIDE DEF answers
  <2>5. ~WaitForResponse(lines, 1).ok
    BY <2>1, <2>2, <2>3, <2>4, <1>1
  <2> QED  BY <2>5 DEF lines
<1> QED  BY <1>2, <1>3

\* An extranonce assignment is read as it was made.
LEMMA SubscriptionParsed ==
  ASSUME NEW c
  PROVE  LET p == SubscribeReply(c)
         IN  /\ ParseSubscription(p) = Ok([extranonce1 |-> c, extranonce2_size |-> Extranonce2Size])
             /\ ~ParseSubscription(SubSeq(p, 1, 2)).ok
             /\ \A token \in {Num(c), Plain(c), Hex(c, 4)} :
                  ~ParseSubscription([p EXCEPT ![2] = token]).ok
             /\ \A token \in {Plain(8), Num(4)} : ~ParseSubscription([p EXCEPT ![3] = token]).ok
<1> DEFINE p == SubscribeReply(c)
<1>1. /\ Len(p) = 3 /\ p \in Seq({p[1], p[2], p[3]}) /\ DOMAIN p = 1..3
      /\ p[2] = Hex(c, Extranonce1Size) /\ p[3] = Num(Extranonce2Size)
  BY DEF SubscribeReply
<1>2. \A v, n : /\ Hex(v, n).t = "hex" /\ Hex(v, n).v = v /\ Hex(v, n).n = n
                /\ Num(v).t = "number" /\ Num(v).v = v /\ Plain(v).t = "text"
  BY DEF Hex, Num, Plain
<1>3. \A reason : Err(reason).ok = FALSE
  BY DEF Err
<1>4. Extranonce1Size = 8 /\ Extranonce2Size = 8
  BY DEF Extranonce1Size, Extranonce2Size
<1> HIDE DEF p
<1>5. ParseSubscription(p) = Ok([extranonce1 |-> c, extranonce2_size |-> Extranonce2Size])
  <2>1. p[2].n + p[3].v = 16
    BY <1>1, <1>2, <1>4
  <2>2. ParseSubscription(p) = Ok([extranonce1 |-> p[2].v, extranonce2_size |-> p[3].v])
    BY <1>1, <1>2, <2>1 DEF ParseSubscription, IsText
  <2> QED  BY <2>2, <1>1, <1>2
<1>6. ASSUME NEW q, q = SubSeq(p, 1, 2)
      PROVE  ~ParseSubscription(q).ok
  <2>1. Len(q) < 3
    BY <1>1, <1>6
  <2>2. ParseSubscription(q) = Err("too short")
    BY <2>1 DEF ParseSubscription
  <2> QED  BY <2>2, <1>3
<1>7. ASSUME NEW token \in {Num(c), Plain(c), Hex(c, 4)}, NEW q, q = [p EXCEPT ![2] = token]
      PROVE  ~ParseSubscription(q).ok
  <2>1. q[2] = token /\ q[3] = p[3] /\ Len(q) = 3
    BY <1>1, <1>7
  <2>2. CASE token = Hex(c, 4)
    <3>1. q[2].n + q[3].v # 16
      BY <2>1, <2>2, <1>1, <1>2, <1>4
    <3> QED  BY <2>1, <3>1, <2>2, <1>1, <1>2, <1>3 DEF ParseSubscription, IsText
  <2>3. CASE token = Num(c) \/ token = Plain(c)
    BY <2>1, <2>3, <1>1, <1>2, <1>3 DEF ParseSubscription, IsText
  <2> QED  BY <2>2, <2>3
<1>8. ASSUME NEW token \in {Plain(8), Num(4)}, NEW q, q = [p EXCEPT ![3] = token]
      PROVE  ~ParseSubscription(q).ok
  <2>1. q[3] = token /\ q[2] = p[2] /\ Len(q) = 3
    BY <1>1, <1>8
  <2>2. CASE token = Num(4)
    <3>1. q[2].n + q[3].v # 16
      BY <2>1, <2>2, <1>1, <1>2, <1>4
    <3> QED  BY <2>1, <3>1, <2>2, <1>1, <1>2, <1>3 DEF ParseSubscription, IsText
  <2>3. CASE token = Plain(8)
    BY <2>1, <2>3, <1>1, <1>2, <1>3 DEF ParseSubscription, IsText
  <2> QED  BY <2>2, <2>3
<1> QED  BY <1>5, <1>6, <1>7, <1>8 DEF p

\* What the handshake ends with: our own reply, or nothing.
LEMMA GivenIsAssigned ==
  ASSUME NEW c, MinerSubscribes(c)
  PROVE  sub' = [sub EXCEPT ![c] = Gone]
         \/ sub' = [sub EXCEPT ![c] = On([extranonce1 |-> c, extranonce2_size |-> Extranonce2Size])]
<1> DEFINE p == SubscribeReply(c)
           early == Notification("mining.set_difficulty", <<Num(1)>>)
           Given(lines) == LET answer == WaitForResponse(lines, 1)
                           IN  IF answer.ok THEN ParseSubscription(answer.value) ELSE answer
<1>1. \A v : Ok(v).ok = TRUE /\ Ok(v).value = v
  BY DEF Ok
<1>2. PICK lines \in {<<ResponseOk(1, p)>>, <<early, ResponseOk(2, <<>>), ResponseOk(1, p)>>,
                      <<early>>, <<ResponseError(1, Other)>>, <<ResponseOk(1, SubSeq(p, 1, 2))>>}
              \cup {<<ResponseOk(1, [p EXCEPT ![2] = token])>> :
                      token \in {Num(c), Plain(c), Hex(c, 4)}}
              \cup {<<ResponseOk(1, [p EXCEPT ![3] = token])>> :
                      token \in {Plain(8), Num(4)}} :
           sub' = [sub EXCEPT ![c] = IF Given(lines).ok THEN On(Given(lines).value) ELSE Gone]
  BY DEF MinerSubscribes
<1>3. Other # NoError
  BY DEF Other, NoError
<1>4. ASSUME ~Given(lines).ok \/ Given(lines) = Ok([extranonce1 |-> c, extranonce2_size |-> Extranonce2Size])
      PROVE  sub' = [sub EXCEPT ![c] = Gone]
             \/ sub' = [sub EXCEPT ![c] = On([extranonce1 |-> c, extranonce2_size |-> Extranonce2Size])]
  <2> HIDE DEF Given
  <2> QED  BY <1>2, <1>4, <1>1
<1>5. CASE lines = <<ResponseOk(1, p)>> \/ lines = <<early, ResponseOk(2, <<>>), ResponseOk(1, p)>>
  <2>1. WaitForResponse(lines, 1) = Ok(p)
    <3> HIDE DEF p
    <3> QED  BY <1>5, AnswerAlone, AnswerLast
  <2>2. Given(lines) = ParseSubscription(p)
    BY <2>1, <1>1
  <2> QED  BY <2>2, <1>4, SubscriptionParsed
<1>6. CASE lines = <<early>> \/ lines = <<ResponseError(1, Other)>>
  <2>1. ~WaitForResponse(lines, 1).ok
    BY <1>6, <1>3, NoAnswer
  <2> QED  BY <2>1, <1>4
<1>7. CASE \E v : lines = <<ResponseOk(1, v)>> /\ ~ParseSubscription(v).ok
  <2>1. PICK v : lines = <<ResponseOk(1, v)>> /\ ~ParseSubscription(v).ok
    BY <1>7
  <2>2. WaitForResponse(lines, 1) = Ok(v)
    BY <2>1, AnswerAlone
  <2>3. ~Given(lines).ok
    BY <2>1, <2>2, <1>1
  <2> QED  BY <2>3, <1>4
<1>8. CASE lines = <<ResponseOk(1, SubSeq(p, 1, 2))>>
  BY <1>8, <1>7, SubscriptionParsed
<1>9. CASE lines \in {<<ResponseOk(1, [p EXCEPT ![2] = token])>> : token \in {Num(c), Plain(c), Hex(c, 4)}}
  <2>1. PICK token \in {Num(c), Plain(c), Hex(c, 4)} : lines = <<ResponseOk(1, [p EXCEPT ![2] = token])>>
    BY <1>9
  <2>2. ~ParseSubscription([p EXCEPT ![2] = token]).ok
    BY SubscriptionParsed
  <2> QED  BY <2>1, <2>2, <1>7
<1>10. CASE lines \in {<<ResponseOk(1, [p EXCEPT ![3] = token])>> : token \in {Plain(8), Num(4)}}
  <2>1. PICK token \in {Plain(8), Num(4)} : lines = <<ResponseOk(1, [p EXCEPT ![3] = token])>>
    BY <1>10
  <2>2. ~ParseSubscription([p EXCEPT ![3] = token]).ok
    BY SubscriptionParsed
  <2> QED  BY <2>1, <2>2, <1>7
<1> QED
  <2> HIDE DEF Given, p, early
  <2> QED  BY <1>2, <1>5, <1>6, <1>8, <1>9, <1>10

-----------------------------------------------------------------------------
(* Induction, from the library's theorem that the naturals are             *)
(* well-founded: a set of naturals has a least one, so what holds of 0 and *)
(* of each successor holds of all. Recursive functions are unfolded by it. *)

\* Every set of naturals that is not empty has a least element.
LEMMA LeastNatural ==
  ASSUME NEW T, T \subseteq Nat, T # {}
  PROVE  \E x \in T : \A y \in T : x <= y
<1> DEFINE R == OpToRel(<, Nat)
<1>1. IsWellFoundedOn(R, Nat)
  BY NatLessThanWellFounded
<1>2. \A x, y \in Nat : x < y => <<x, y>> \in R
  BY DEF OpToRel
<1> HIDE DEF R
<1>3. PICK x \in T : \A y \in T : ~(<<y, x>> \in R)
  BY <1>1, WFMin
<1>4. ASSUME NEW y \in T
      PROVE  x <= y
  <2>1. ~(y < x)
    BY <1>2, <1>3
  <2> QED  BY <2>1
<1> QED  BY <1>4

\* A set that holds 0 and the successor of each of its members holds every natural.
LEMMA NaturalsFromZero ==
  ASSUME NEW S, 0 \in S, \A n \in Nat : n \in S => n + 1 \in S
  PROVE  Nat \subseteq S
<1> DEFINE T == {n \in Nat : n \notin S}
<1> SUFFICES ASSUME T # {} PROVE FALSE
  OBVIOUS
<1>1. PICK x \in T : \A y \in T : x <= y
  <2>1. T \subseteq Nat
    OBVIOUS
  <2> HIDE DEF T
  <2> QED  BY <2>1, LeastNatural
<1>2. x \in Nat /\ x # 0 /\ x \notin S
  OBVIOUS
<1>3. x - 1 \in Nat /\ x - 1 + 1 = x
  BY <1>2
<1>4. x - 1 \in T
  BY <1>2, <1>3
<1> QED  BY <1>1, <1>2, <1>4

\* The points a search visits, unfolded.
LEMMA SweepDef ==
  ASSUME NEW start, NEW words, NEW budget \in Nat
  PROVE  Sweep(start, words, budget) =
           [i \in 0..budget |-> IF i = 0 THEN Truncate(start, words)
                                ELSE Advance(Sweep(start, words, budget)[i-1], words)]
<1> DEFINE Rec(n, g) == g = [i \in 0..n |-> IF i = 0 THEN Truncate(start, words)
                                            ELSE Advance(g[i-1], words)]
           S == {n \in Nat : \E g : Rec(n, g)}
<1>1. 0 \in S
  <2> DEFINE g == [i \in 0..0 |-> Truncate(start, words)]
  <2>1. Rec(0, g)
    OBVIOUS
  <2> QED  BY <2>1
<1>2. ASSUME NEW n \in Nat, n \in S
      PROVE  n + 1 \in S
  <2>1. PICK g : Rec(n, g)
    BY <1>2
  <2> DEFINE h == [i \in 0..n+1 |-> IF i <= n THEN g[i] ELSE Advance(g[n], words)]
  <2>2. Rec(n + 1, h)
    <3>1. ASSUME NEW i \in 0..n+1
          PROVE  h[i] = IF i = 0 THEN Truncate(start, words) ELSE Advance(h[i-1], words)
      <4>1. CASE i = 0
        <5>1. h[0] = g[0] /\ g[0] = Truncate(start, words)
          BY <2>1
        <5> QED  BY <4>1, <5>1
      <4>2. CASE i \in 1..n
        <5>1. h[i] = g[i] /\ h[i-1] = g[i-1] /\ g[i] = Advance(g[i-1], words)
          BY <4>2, <2>1
        <5> QED  BY <4>2, <5>1
      <4>3. CASE i = n + 1
        <5>1. h[i] = Advance(g[n], words) /\ h[i-1] = g[n]
          BY <4>3
        <5> QED  BY <4>3, <5>1
      <4> QED  BY <4>1, <4>2, <4>3
    <3> QED  BY <3>1
  <2> HIDE DEF Rec, h
  <2> QED  BY <2>2
<1>3. budget \in S
  <2> HIDE DEF S
  <2> QED  BY <1>1, <1>2, NaturalsFromZero
<1>4. PICK g : Rec(budget, g)
  BY <1>3
<1>5. Sweep(start, words, budget) = CHOOSE g1 : Rec(budget, g1)
  BY DEF Sweep
<1>6. Rec(budget, Sweep(start, words, budget))
  <2> HIDE DEF Rec
  <2> QED  BY <1>4, <1>5
<1> QED  BY <1>6

\* A search that finds something found a point whose hash meets the target.
LEMMA SearchFinds ==
  ASSUME NEW mid, NEW start, NEW attempts \in Nat
  PROVE  LET budget == Budget(NonceWords(mid), attempts)
             point  == Sweep(start, NonceWords(mid), budget)
             r      == Search(mid, start, attempts)
         IN  /\ r.found \in BOOLEAN
             /\ r.found => \E n \in 0..budget-1 :
                             /\ r.at = point[n] /\ r.hashes = n + 1
                             /\ r.hash = MidHash(mid, point[n]) /\ Meets(r.hash)
             /\ ~r.found => r.hashes = budget
             /\ r.inputs = {MidHash(mid, point[i]) : i \in 0..r.hashes-1}
<1> DEFINE budget == Budget(NonceWords(mid), attempts)
           point  == Sweep(start, NonceWords(mid), budget)
           r      == Search(mid, start, attempts)
           hits   == {i \in 0..budget-1 : Meets(MidHash(mid, point[i]))}
           first  == CHOOSE i \in hits : \A j \in hits : i <= j
           tried  == IF hits = {} THEN budget ELSE first + 1
<1>1. r = [found  |-> hits # {},
           at     |-> IF hits = {} THEN Origin ELSE point[first],
           hash   |-> IF hits = {} THEN <<>> ELSE MidHash(mid, point[first]),
           next   |-> point[tried],
           hashes |-> tried,
           inputs |-> {MidHash(mid, point[i]) : i \in 0..tried-1}]
  BY DEF Search
<1>2. hits \subseteq Nat /\ \A i \in hits : i \in 0..budget-1 /\ Meets(MidHash(mid, point[i]))
  <2>1. budget \in Nat
    BY WordAssumption DEF Budget
  <2> QED  BY <2>1
<1> HIDE DEF hits, point, budget
<1>3. hits # {} => first \in hits
  BY <1>2, LeastNatural
<1> HIDE DEF first
<1>4. /\ r.found = (hits # {}) /\ r.at = (IF hits = {} THEN Origin ELSE point[first])
      /\ r.hash = (IF hits = {} THEN <<>> ELSE MidHash(mid, point[first]))
      /\ r.hashes = tried /\ r.inputs = {MidHash(mid, point[i]) : i \in 0..tried-1}
  BY <1>1
<1> HIDE DEF r
<1>5. r.found => \E n \in 0..budget-1 :
                             /\ r.at = point[n] /\ r.hashes = n + 1
                             /\ r.hash = MidHash(mid, point[n]) /\ Meets(r.hash)
  BY <1>2, <1>3, <1>4
<1>6. (~r.found => r.hashes = budget) /\ r.found \in BOOLEAN
  BY <1>4
<1>7. r.inputs = {MidHash(mid, point[i]) : i \in 0..r.hashes-1}
  BY <1>4
<1> QED  BY <1>5, <1>6, <1>7 DEF r, point, budget

HeaderFields ==
  {"header_v2", "version", "prev_block", "merkle_root", "time_on_wire", "bits", "nonce", "nonce2",
   "nonce3", "extranonce", "time_offset", "txcount", "flags", "xor_key_mask_clear_bits", "xor_key",
   "height", "mm_rhs"}

\* A block at height n as its template has it, with this headline in its coinbase.
Made(b, h, n, headline) ==
  /\ DOMAIN h = HeaderFields
  /\ h.header_v2 = IsV2(n) /\ h.prev_block = BlockHash(n - 1)
  /\ h.merkle_root = BlockRoot(b)
  /\ h.txcount = IF IsV2(n) THEN TransactionCount(b) ELSE 0
  /\ h.height = IF IsV2(n) THEN n ELSE 0
  /\ h.nonce2 = 0 /\ h.nonce3 = 0 /\ h.time_offset = 0
  /\ h.flags = 0 /\ h.xor_key = NullKey
  /\ b.txids = [i \in 1..Len(b.transactions) |-> Txid(b.transactions[i])]
  /\ \E extranonce \in Seq(Int) : b.coinbase.script_sig = ScriptSig(n, headline, extranonce, Tag)
  /\ b.coinbase.witness = <<ReservedValue>>
  /\ Last(b.coinbase.outputs).script =
       CommitmentScript([i \in 1..Len(b.transactions) |-> Wtxid(b.transactions[i])])

-----------------------------------------------------------------------------
(* The job: from a template to the header, and from a share back to it.    *)

\* What the pool reads of a template is what the node put there.
LEMMA TemplateIs ==
  ASSUME NEW mempool \in Seq(BOOLEAN)
  PROVE  LET t == Template(mempool)
         IN  /\ t.header_v2 = IsV2(height + 1) /\ t.previous = BlockHash(height)
             /\ t.height = height + 1 /\ t.time = Now
             /\ t.transactions = [i \in 1..Len(mempool) |-> Raw(i, mempool[i])]
             /\ Len(t.transactions) = Len(mempool)
BY DEF Template

\* The block built from a template: its coinbase carries the height, the headline
\* and the reward, and commits to the transactions' witnesses.
LEMMA Assembled ==
  ASSUME NEW t, NEW time, NEW headline, NEW extranonce \in Seq(Int), NEW n \in Nat,
         t.height = n, t.header_v2 = IsV2(n), t.previous = BlockHash(n - 1),
         Len(t.transactions) \in Nat,
         NEW a, a = Assemble(t, time, headline, extranonce), a.ok
  PROVE  Made(a.value.block, a.value.header, n, headline) /\ a.value.header.time_on_wire = time
<1> DEFINE wtxids == [i \in 1..Len(t.transactions) |-> Wtxid(t.transactions[i])]
           txids  == [i \in 1..Len(t.transactions) |-> Txid(t.transactions[i])]
           script == CommitmentScript(wtxids)
           cb     == BuildCoinbase(t.height, t.value, Payout, headline, extranonce, Tag, script)
           block  == NewBlock(cb.value, t.transactions, txids).value
           header == BlockHeader(block, FromTemplate(t, time), t.height)
<1>1. \A v : Ok(v).ok = TRUE /\ Ok(v).value = v /\ Err(v).ok = FALSE
  BY DEF Ok, Err
<1>2. a = IF t.commitment # script THEN Err("WitnessCommitmentMismatch")
          ELSE IF ~cb.ok THEN cb
          ELSE IF ~header.ok THEN header ELSE Ok([block |-> block, header |-> header.value])
  BY DEF Assemble
<1> HIDE DEF cb, block, header, script
<1>3. cb.ok /\ header.ok /\ a.value = [block |-> block, header |-> header.value]
  BY <1>1, <1>2
<1>4. /\ cb.value.script_sig = ScriptSig(n, headline, extranonce, Tag)
      /\ cb.value.witness = <<ReservedValue>>
      /\ Last(cb.value.outputs).script = script
  <2>1. script # None
    BY DEF script, CommitmentScript, None
  <2>2. cb = Ok([script_sig |-> ScriptSig(n, headline, extranonce, Tag), witness |-> <<ReservedValue>>,
                 outputs |-> <<[value |-> t.value, script |-> Payout]>> \o
                             <<[value |-> 0, script |-> script]>>])
    BY <1>1, <1>3, <2>1 DEF cb, BuildCoinbase
  <2>3. cb.value = [script_sig |-> ScriptSig(n, headline, extranonce, Tag), witness |-> <<ReservedValue>>,
                 outputs |-> <<[value |-> t.value, script |-> Payout]>> \o
                             <<[value |-> 0, script |-> script]>>]
    BY <2>2, <1>1
  <2>4. Last(<<[value |-> t.value, script |-> Payout]>> \o <<[value |-> 0, script |-> script]>>).script
          = script
    BY DEF Last
  <2> QED  BY <2>3, <2>4
<1>5. block = [coinbase |-> cb.value, transactions |-> t.transactions, txids |-> txids]
  <2>1. Len(txids) = Len(t.transactions)
    OBVIOUS
  <2> HIDE DEF txids
  <2> QED  BY <2>1, <1>1 DEF block, NewBlock
<1>6. header.value = [FromTemplate(t, time) EXCEPT
             !.merkle_root = BlockRoot(block),
             !.txcount = IF FromTemplate(t, time).header_v2 THEN TransactionCount(block) ELSE 0,
             !.height  = IF FromTemplate(t, time).header_v2 THEN t.height ELSE 0]
  BY <1>1, <1>3 DEF header, BlockHeader
<1> DEFINE h == header.value
<1>7. /\ DOMAIN h = HeaderFields
      /\ h.header_v2 = IsV2(n) /\ h.prev_block = BlockHash(n - 1)
      /\ h.merkle_root = BlockRoot(block)
      /\ h.txcount = IF IsV2(n) THEN TransactionCount(block) ELSE 0
      /\ h.height = IF IsV2(n) THEN n ELSE 0
      /\ h.nonce2 = 0 /\ h.nonce3 = 0 /\ h.time_offset = 0
      /\ h.flags = 0 /\ h.xor_key = NullKey /\ h.time_on_wire = time
  BY <1>6 DEF FromTemplate, HeaderFields
<1>8. Made(block, h, n, headline)
  BY <1>4, <1>5, <1>7 DEF Made, script
<1> QED  BY <1>3, <1>7, <1>8

\* What the i-th job holds: a block for some height, and its header's projection.
MadeJob(i, j) ==
  /\ j.height \in 1..MaxHeight+1 /\ IsV2(j.height) /\ j.blind \in BOOLEAN
  /\ \E headline \in {None, Headline} :
       /\ Made(j.block, j.header, j.height, headline)
       /\ headline = Headline \/ j.height # Fork \/ j.blind
  /\ j.job.clean_jobs \in BOOLEAN
  /\ j.job = [job_id |-> i, prev_hidden |-> Blanked(PrevHidden(j.header)),
              consensus_digest |-> H2(j.header), flags |-> 0, bits |-> j.header.bits,
              clean_jobs |-> j.job.clean_jobs]

\* Rebuilding a header changes its nonces and nothing else.
LEMMA RebuildKeeps ==
  ASSUME NEW j, NEW share, NEW e1, DOMAIN j.header = HeaderFields
  PROVE  LET h == Rebuild(j, share, e1)
         IN  /\ h.extranonce = Extranonce(e1, share.extranonce2) /\ h.nonce = share.nonce
             /\ h.time_offset = share.time_offset /\ h.nonce2 = 0 /\ h.nonce3 = 0
             /\ H2(h) = H2(j.header) /\ PrevHidden(h) = PrevHidden(j.header)
             /\ \A x \in HeaderFields \ {"extranonce", "nonce", "time_offset", "nonce2", "nonce3"} :
                  h[x] = j.header[x]
<1> DEFINE h == Rebuild(j, share, e1)
<1>1. /\ h.extranonce = Extranonce(e1, share.extranonce2) /\ h.nonce = share.nonce
      /\ h.time_offset = share.time_offset /\ h.nonce2 = 0 /\ h.nonce3 = 0
  BY DEF Rebuild, HeaderFields
<1>2. \A x \in HeaderFields \ {"extranonce", "nonce", "time_offset", "nonce2", "nonce3"} :
        h[x] = j.header[x]
  BY DEF Rebuild, HeaderFields
<1> HIDE DEF h
<1>3. /\ h.header_v2 = j.header.header_v2 /\ h.version = j.header.version
      /\ h.prev_block = j.header.prev_block /\ h.height = j.header.height
      /\ h.merkle_root = j.header.merkle_root /\ h.time_on_wire = j.header.time_on_wire
      /\ h.bits = j.header.bits /\ h.txcount = j.header.txcount /\ h.flags = j.header.flags
      /\ h.xor_key_mask_clear_bits = j.header.xor_key_mask_clear_bits
      /\ h.xor_key = j.header.xor_key /\ h.mm_rhs = j.header.mm_rhs
  BY <1>2 DEF HeaderFields
<1>4. H2(h) = H2(j.header) /\ PrevHidden(h) = PrevHidden(j.header)
  BY <1>3 DEF H2, H1, PrevHidden
<1> QED  BY <1>1, <1>2, <1>4 DEF h

\* A header is hashed as its midstate and its nonces say.
LEMMA RebuiltHash ==
  ASSUME NEW j, NEW i, NEW share, NEW e1, NEW p, MadeJob(i, j),
         share.nonce = p.nonce, share.time_offset = p.time_offset,
         p.nonce2 = 0, p.nonce3 = 0
  PROVE  PowHash(Rebuild(j, share, e1)) = MidHash(JobMidstate(j.job, e1, share.extranonce2), p)
<1> DEFINE h == Rebuild(j, share, e1)
           n == [nonce |-> h.nonce, nonce2 |-> h.nonce2, nonce3 |-> h.nonce3,
                 time_offset |-> h.time_offset]
           mid == JobMidstate(j.job, e1, share.extranonce2)
           own == PowMidstate(h)
<1>1. DOMAIN j.header = HeaderFields
  BY DEF MadeJob, Made
<1>2. /\ j.job.prev_hidden = Blanked(PrevHidden(j.header)) /\ j.job.consensus_digest = H2(j.header)
      /\ j.job.flags = 0 /\ j.header.flags = 0 /\ j.header.xor_key = NullKey
      /\ j.header.header_v2 = TRUE
  <2>1. PICK headline : Made(j.block, j.header, j.height, headline)
    BY DEF MadeJob
  <2>2. j.header.flags = 0 /\ j.header.xor_key = NullKey /\ j.header.header_v2 = IsV2(j.height)
    BY <2>1 DEF Made
  <2>3. IsV2(j.height) = TRUE
    BY DEF MadeJob, IsV2
  <2>4. /\ j.job.prev_hidden = Blanked(PrevHidden(j.header)) /\ j.job.consensus_digest = H2(j.header)
        /\ j.job.flags = 0
    <3>1. j.job = [job_id |-> i, prev_hidden |-> Blanked(PrevHidden(j.header)),
              consensus_digest |-> H2(j.header), flags |-> 0, bits |-> j.header.bits,
              clean_jobs |-> j.job.clean_jobs]
      BY DEF MadeJob
    <3> QED  BY <3>1
  <2> QED  BY <2>2, <2>3, <2>4
<1>3. /\ h.extranonce = Extranonce(e1, share.extranonce2)
      /\ h.nonce = p.nonce /\ h.nonce2 = p.nonce2 /\ h.nonce3 = p.nonce3
      /\ h.time_offset = p.time_offset /\ H2(h) = H2(j.header) /\ PrevHidden(h) = PrevHidden(j.header)
      /\ h.header_v2 = TRUE /\ h.flags = 0 /\ h.xor_key = NullKey
  BY <1>1, <1>2, RebuildKeeps DEF HeaderFields
<1> HIDE DEF h
<1>4. /\ own.v2 = TRUE /\ own.stage3 = Stage3(H2(j.header), Extranonce(e1, share.extranonce2))
      /\ own.h2 = H2(j.header) /\ own.prev_hidden = PrevHidden(j.header) /\ own.flags = 0
      /\ own.xor_mask = NoMask
  BY <1>3 DEF PowMidstate, XorMask
<1>5. /\ mid.v2 = TRUE /\ mid.stage3 = Stage3(H2(j.header), Extranonce(e1, share.extranonce2))
      /\ mid.h2 = H2(j.header) /\ mid.prev_hidden = Blanked(PrevHidden(j.header)) /\ mid.flags = 0
      /\ mid.xor_mask = NoMask
  BY <1>2 DEF JobMidstate, FromStratumJob
<1>6. Blanked(own.prev_hidden) = Blanked(mid.prev_hidden)
  <2>1. Blanked(PrevHidden(j.header)) = <<"blanked", PrevHidden(j.header)>>
    BY DEF Blanked, PrevHidden
  <2>2. <<"blanked", PrevHidden(j.header)>>[1] = "blanked"
    OBVIOUS
  <2>3. Blanked(Blanked(PrevHidden(j.header))) = Blanked(PrevHidden(j.header))
    BY <2>1, <2>2 DEF Blanked
  <2> QED  BY <2>3, <1>4, <1>5
<1>7. /\ n.nonce = p.nonce /\ n.nonce2 = p.nonce2 /\ n.nonce3 = p.nonce3
      /\ n.time_offset = p.time_offset
  BY <1>3
<1> HIDE DEF own, mid, n
<1>8. Stage4(own, n) = Stage4(mid, p)
  <2>1. own.flags % 4 = 0 /\ mid.flags % 4 = 0
    BY <1>4, <1>5
  <2>2. Stage4(own, n) = <<Blanked(own.prev_hidden), n.nonce, n.nonce2, n.time_offset, n.nonce3,
                           own.stage3>>
    BY <2>1 DEF Stage4
  <2>3. Stage4(mid, p) = <<Blanked(mid.prev_hidden), p.nonce, p.nonce2, p.time_offset, p.nonce3,
                           mid.stage3>>
    BY <2>1 DEF Stage4
  <2> QED  BY <2>2, <2>3, <1>4, <1>5, <1>6, <1>7
<1>9. MidHash(own, n) = MidHash(mid, p)
  BY <1>4, <1>5, <1>8 DEF MidHash
<1> QED  BY <1>9 DEF PowHash, own, n, mid, h

\* What build() makes of a template: a job that says what its header says.
LEMMA JobBuilt ==
  ASSUME NEW id, NEW mempool \in Seq(BOOLEAN), NEW headline, NEW clean \in BOOLEAN, NEW blind \in BOOLEAN,
         height \in Nat, height <= MaxHeight, MaxHeight \in Nat,
         headline \in {None, Headline}, headline = Headline \/ height + 1 # Fork \/ blind,
         NEW made, made = BuildJob(id, Template(mempool), headline, clean), made.ok
  PROVE  /\ MadeJob(id, [job |-> made.value.job, header |-> made.value.header,
                         block |-> made.value.block, height |-> made.value.height, blind |-> blind])
         /\ ~MinDifficulty => made.value.header.time_on_wire = Now
<1> DEFINE t == Template(mempool)
           time == IF MinDifficulty THEN PlannedTime(t) ELSE t.time
           built == Assemble(t, time, headline, None)
           mid   == PowMidstate(built.value.header)
           a == built.value
           v == made.value
           job == [job_id |-> id, prev_hidden |-> Blanked(mid.prev_hidden),
                   consensus_digest |-> mid.h2, flags |-> a.header.flags,
                   bits |-> a.header.bits, clean_jobs |-> clean]
<1>1. \A x : Ok(x).ok = TRUE /\ Ok(x).value = x /\ Err(x).ok = FALSE
  BY DEF Ok, Err
<1>2. BuildJob(id, t, headline, clean) =
        IF ~built.ok THEN built
        ELSE IF ~a.header.header_v2 THEN Err("PreForkTemplate")
        ELSE Ok([job |-> job, header |-> a.header, block |-> a.block, height |-> t.height])
  BY DEF BuildJob
<1>3. /\ t.header_v2 = IsV2(height + 1) /\ t.previous = BlockHash(height) /\ t.height = height + 1
      /\ t.time = Now /\ Len(t.transactions) \in Nat
  <2>1. Len(mempool) \in Nat
    OBVIOUS
  <2> QED  BY <2>1, TemplateIs
<1> HIDE DEF t
<1> HIDE DEF built, job
<1>4. built.ok /\ a.header.header_v2
      /\ v = [job |-> job, header |-> a.header, block |-> a.block, height |-> t.height]
  <2> HIDE DEF time
  <2> QED  BY <1>1, <1>2 DEF t
<1>5. Made(a.block, a.header, height + 1, headline) /\ a.header.time_on_wire = time
  <2>1. None \in Seq(Int)
    BY DEF None
  <2>2. BlockHash(height + 1 - 1) = BlockHash(height)
    <3>1. height + 1 - 1 = height
      OBVIOUS
    <3> QED  BY <3>1
  <2> HIDE DEF time
  <2>3. /\ height + 1 \in Nat /\ t.height = height + 1 /\ t.header_v2 = IsV2(height + 1)
        /\ t.previous = BlockHash(height + 1 - 1) /\ Len(t.transactions) \in Nat
        /\ built = Assemble(t, time, headline, None) /\ built.ok
    BY <1>3, <1>4, <2>2 DEF built
  <2> QED  BY <2>1, <2>3, Assembled
<1>6. IsV2(height + 1)
  BY <1>4, <1>5 DEF Made
<1>7. job = [job_id |-> id, prev_hidden |-> Blanked(PrevHidden(a.header)),
             consensus_digest |-> H2(a.header), flags |-> 0, bits |-> a.header.bits,
             clean_jobs |-> clean]
  BY <1>4, <1>5 DEF job, PowMidstate, Made
<1>8. height + 1 \in 1..MaxHeight+1
  OBVIOUS
<1>9. MadeJob(id, [job |-> v.job, header |-> v.header, block |-> v.block, height |-> v.height,
                   blind |-> blind])
  <2> DEFINE j == [job |-> v.job, header |-> v.header, block |-> v.block, height |-> v.height,
                   blind |-> blind]
  <2>1. /\ j.job = job /\ j.header = a.header /\ j.block = a.block /\ j.height = height + 1
        /\ j.blind = blind
    BY <1>3, <1>4
  <2>2. job.clean_jobs = clean
    BY <1>7
  <2> HIDE DEF j
  <2>3. MadeJob(id, j)
    BY <2>1, <2>2, <1>5, <1>6, <1>7, <1>8 DEF MadeJob
  <2> QED  BY <2>3 DEF j
<1>10. ~MinDifficulty => v.header.time_on_wire = Now
  BY <1>3, <1>4, <1>5
<1> QED  BY <1>9, <1>10 DEF t

-----------------------------------------------------------------------------
(* The inductive invariant.                                                *)

Assigned(c) == On([extranonce1 |-> c, extranonce2_size |-> Extranonce2Size])

TypeInv ==
  /\ height \in Nat /\ rounds \in Nat
  /\ \E S : jobs \in Seq(S)
  /\ DOMAIN sub = Conns /\ DOMAIN work = Conns

\* A job is the pool's own; built from templates of their own, jobs differ in time.
JobsInv ==
  \A i \in 1..Len(jobs) : /\ MadeJob(i, jobs[i])
                          /\ ~MinDifficulty => jobs[i].header.time_on_wire = i - 1

\* A miner hashes on a job of the pool, with the half of the extranonce it was given.
WorkInv ==
  \A c \in Conns :
    /\ sub[c] \in {NotYet, Gone, Assigned(c)}
    /\ work[c] # NoWork => sub[c] = Assigned(c) /\ \E i \in 1..Len(jobs) : work[c] = jobs[i].job

\* A share on its way says with which nonces of which job it was found.
ShareOf(m, i, e2, p) ==
  /\ m = [conn |-> m.conn, hash |-> MidHash(JobMidstate(jobs[i].job, m.conn, e2), p),
          line |-> Call(SubmitId, "mining.submit", ToSubmitParams(
                     [worker |-> "worker", job_id |-> i, extranonce2 |-> e2,
                      time_offset |-> p.time_offset, nonce |-> p.nonce]))]
  /\ p.nonce2 = 0 /\ p.nonce3 = 0

SharesInv ==
  \A m \in shares : /\ m.conn \in Conns
                    /\ \E i \in 1..Len(jobs) : \E e2, p : ShareOf(m, i, e2, p)

IInv == TypeInv /\ JobsInv /\ WorkInv /\ SharesInv

\* At first there is nothing to hold of.
LEMMA InvInit == Init => IInv
<1> SUFFICES ASSUME Init PROVE IInv
  OBVIOUS
<1>1. TypeInv
  BY ForkAssumption DEF Init, TypeInv
<1>2. JobsInv /\ WorkInv /\ SharesInv
  BY DEF Init, JobsInv, WorkInv, SharesInv
<1> QED  BY <1>1, <1>2 DEF IInv

\* Jobs are only ever added: what is said of one stays true.
LEMMA JobsStay ==
  ASSUME IInv, jobs' = jobs \/ \E j : jobs' = Append(jobs, j)
  PROVE  /\ Len(jobs') \in Nat /\ Len(jobs) <= Len(jobs') /\ 1..Len(jobs) \subseteq 1..Len(jobs')
         /\ \A i \in 1..Len(jobs) : jobs'[i] = jobs[i]
         /\ \E S : jobs' \in Seq(S)
         /\ UNCHANGED <<sub, work>> => WorkInv'
         /\ shares' \subseteq shares => SharesInv'
<1>1. PICK S : jobs \in Seq(S)
  BY DEF IInv, TypeInv
<1>2. /\ Len(jobs') \in Nat /\ Len(jobs) <= Len(jobs') /\ Len(jobs) \in Nat
      /\ \A i \in 1..Len(jobs) : jobs'[i] = jobs[i]
      /\ \E T : jobs' \in Seq(T)
  <2>1. CASE jobs' = jobs
    BY <1>1, <2>1
  <2>2. ASSUME NEW j, jobs' = Append(jobs, j)
        PROVE  /\ Len(jobs') \in Nat /\ Len(jobs) <= Len(jobs') /\ Len(jobs) \in Nat
               /\ \A i \in 1..Len(jobs) : jobs'[i] = jobs[i]
               /\ \E T : jobs' \in Seq(T)
    <3>1. jobs \in Seq(S \cup {j})
      BY <1>1
    <3>2. jobs' \in Seq(S \cup {j}) /\ Len(jobs') = Len(jobs) + 1 /\ Len(jobs) \in Nat
          /\ \A i \in 1..Len(jobs) : jobs'[i] = jobs[i]
      BY <3>1, <2>2
    <3> QED  BY <3>2
  <2> QED  BY <2>1, <2>2
<1>3. 1..Len(jobs) \subseteq 1..Len(jobs')
  BY <1>2
<1>4. UNCHANGED <<sub, work>> => WorkInv'
  BY <1>2, <1>3 DEF IInv, WorkInv
<1>5. ASSUME shares' \subseteq shares
      PROVE  SharesInv'
  <2>1. ASSUME NEW m \in shares'
        PROVE  m.conn \in Conns /\ \E i \in 1..Len(jobs') : \E e2, p : ShareOf(m, i, e2, p)'
    <3>1. m \in shares
      BY <1>5
    <3>a. PICK i \in 1..Len(jobs) : \E e2, p : ShareOf(m, i, e2, p)
      BY <3>1 DEF IInv, SharesInv
    <3>2. PICK e2, p : ShareOf(m, i, e2, p)
      BY <3>a
    <3>3. ShareOf(m, i, e2, p)'
      BY <3>2, <1>2 DEF ShareOf
    <3> QED  BY <3>1, <3>3, <1>3 DEF IInv, SharesInv
  <2> QED  BY <2>1 DEF SharesInv
<1> QED  BY <1>2, <1>3, <1>4, <1>5

\* Nobody's work changes unless jobs, assignments or work do.
LEMMA WorkStays ==
  ASSUME WorkInv, UNCHANGED <<jobs, sub, work>>
  PROVE  WorkInv'
BY DEF WorkInv

\* One action at a time, the invariant stays.
LEMMA ElsewhereMinedInv == IInv /\ ElsewhereMined => IInv'
<1> SUFFICES ASSUME IInv, ElsewhereMined PROVE IInv'
  OBVIOUS
<1>1. TypeInv' /\ JobsInv'
  BY DEF IInv, TypeInv, JobsInv, ElsewhereMined
<1>2. WorkInv' /\ SharesInv'
  BY JobsStay DEF ElsewhereMined
<1> QED  BY <1>1, <1>2 DEF IInv

\* The pool builds a job.
LEMMA PoolBuildsInv == IInv /\ PoolBuilds => IInv'
<1> SUFFICES ASSUME IInv, PoolBuilds PROVE IInv'
  OBVIOUS
<1>1. PICK mempool \in Mempools, parentKnown \in BOOLEAN :
        LET t    == Template(mempool)
            fork == IsForkBlock(t, parentKnown)
            head == IF Headline # None /\ fork.ok /\ fork.value THEN Headline ELSE None
            new  == jobs = <<>> \/ Last(jobs).height # t.height
            job  == BuildJob(Len(jobs) + 1, t, head, new)
        IN  /\ job.ok
            /\ jobs' = Append(jobs, [job |-> job.value.job, header |-> job.value.header,
                                     block |-> job.value.block, height |-> job.value.height,
                                     blind |-> ~fork.ok])
  BY DEF PoolBuilds
<1> DEFINE t    == Template(mempool)
           fork == IsForkBlock(t, parentKnown)
           head == IF Headline # None /\ fork.ok /\ fork.value THEN Headline ELSE None
           new  == jobs = <<>> \/ Last(jobs).height # t.height
           job  == BuildJob(Len(jobs) + 1, t, head, new)
           made == [job |-> job.value.job, header |-> job.value.header,
                    block |-> job.value.block, height |-> job.value.height, blind |-> ~fork.ok]
<1>2. job.ok /\ jobs' = Append(jobs, made)
  BY <1>1
<1>3. mempool \in Seq(BOOLEAN) /\ height \in Nat /\ height <= MaxHeight /\ MaxHeight \in Nat
  BY DataAssumption, BoundAssumption DEF IInv, TypeInv, PoolBuilds
<1>4. head \in {None, Headline} /\ (head = Headline \/ height + 1 # Fork \/ ~fork.ok)
  <2>1. \A x : Ok(x).ok = TRUE /\ Ok(x).value = x /\ Err(x).ok = FALSE
    BY DEF Ok, Err
  <2>2. t.header_v2 = IsV2(height + 1) /\ t.height = height + 1
    BY <1>3, TemplateIs
  <2> HIDE DEF t
  <2>3. ASSUME height + 1 = Fork, fork.ok
        PROVE  fork.value = TRUE
    <3>1. IsV2(height + 1) = TRUE /\ IsV2(t.height - 1) = FALSE
      BY <2>2, <2>3, <1>3, ForkAssumption DEF IsV2
    <3>2. fork = Ok(~IsV2(t.height - 1))
      BY <2>1, <2>2, <2>3, <3>1 DEF IsForkBlock
    <3> QED  BY <3>1, <3>2, <2>1
  <2> HIDE DEF fork
  <2> QED  BY <2>3
<1>5. /\ MadeJob(Len(jobs) + 1, made)
      /\ ~MinDifficulty => made.header.time_on_wire = Now
  <2>1. new \in BOOLEAN
    OBVIOUS
  <2>2. (~fork.ok) \in BOOLEAN
    OBVIOUS
  <2>3. PICK h, n, b : h = head /\ n = new /\ b = ~fork.ok
    OBVIOUS
  <2>4. PICK v : v = BuildJob(Len(jobs) + 1, Template(mempool), h, n)
    OBVIOUS
  <2>5. v = job /\ v.ok /\ h \in {None, Headline} /\ (h = Headline \/ height + 1 # Fork \/ b)
    BY <1>2, <1>4, <2>3, <2>4
  <2>6. n \in BOOLEAN /\ b \in BOOLEAN
    BY <2>1, <2>2, <2>3
  <2>7. /\ MadeJob(Len(jobs) + 1, [job |-> v.value.job, header |-> v.value.header,
                                   block |-> v.value.block, height |-> v.value.height, blind |-> b])
        /\ ~MinDifficulty => v.value.header.time_on_wire = Now
    <3>1. Len(jobs) + 1 = Len(jobs) + 1 /\ v.ok
      BY <2>5
    <3> HIDE DEF made, job, new, head, fork, t
    <3> QED  BY <1>3, <2>4, <2>5, <2>6, <3>1, JobBuilt
  <2>8. made = [job |-> v.value.job, header |-> v.value.header,
                block |-> v.value.block, height |-> v.value.height, blind |-> b]
    BY <2>3, <2>5
  <2> HIDE DEF made
  <2>9. made.header = v.value.header
    BY <2>8
  <2> QED  BY <2>7, <2>8, <2>9
<1> HIDE DEF made, job, new, head, fork, t
<1>6. JobsInv'
  <2>1. PICK S : jobs \in Seq(S)
    BY DEF IInv, TypeInv
  <2>2. jobs \in Seq(S \cup {made})
    BY <2>1
  <2>3. ASSUME NEW i \in 1..Len(jobs')
        PROVE  MadeJob(i, jobs'[i]) /\ (~MinDifficulty => jobs'[i].header.time_on_wire = i - 1)
    <3>1. CASE i = Len(jobs) + 1
      <4>1. Now = i - 1
        BY <2>2, <3>1 DEF PoolBuilds, Now
      <4> QED  BY <1>2, <1>5, <2>2, <3>1, <4>1
    <3>2. CASE i \in 1..Len(jobs)
      BY <1>2, <2>2, <3>2 DEF IInv, JobsInv
    <3> QED  BY <1>2, <2>2, <3>1, <3>2
  <2> QED  BY <2>3 DEF JobsInv
<1>7. WorkInv' /\ SharesInv'
  BY <1>2, JobsStay DEF PoolBuilds
<1>8. TypeInv'
  BY <1>2, JobsStay DEF IInv, TypeInv, PoolBuilds
<1> QED  BY <1>6, <1>7, <1>8 DEF IInv

\* A miner is given its extranonce1.
LEMMA MinerSubscribesInv ==
  ASSUME IInv, NEW c \in Conns, MinerSubscribes(c)
  PROVE  IInv'
<1>1. UNCHANGED <<height, jobs, work, shares, rounds>> /\ sub[c] = NotYet
  BY DEF MinerSubscribes
<1>2. NotYet # Assigned(c)
  BY DEF NotYet, Assigned, On
<1>3. \E x \in {Gone, Assigned(c)} : sub' = [sub EXCEPT ![c] = x]
  BY GivenIsAssigned DEF Assigned
<1>4. TypeInv' /\ JobsInv'
  BY <1>1, <1>3 DEF IInv, TypeInv, JobsInv
<1>5. WorkInv'
  <2>1. ASSUME NEW d \in Conns
        PROVE  /\ sub'[d] \in {NotYet, Gone, Assigned(d)}
               /\ work'[d] # NoWork => sub'[d] = Assigned(d)
                                       /\ \E i \in 1..Len(jobs') : work'[d] = jobs'[i].job
    <3>1. CASE d = c
      <4>1. sub'[c] \in {Gone, Assigned(c)}
        BY <1>3 DEF IInv, TypeInv
      <4>2. work[c] = NoWork
        BY <1>1, <1>2 DEF IInv, WorkInv
      <4> QED  BY <3>1, <4>1, <4>2, <1>1
    <3>2. CASE d # c
      <4>1. sub'[d] = sub[d]
        BY <1>3, <3>2 DEF IInv, TypeInv
      <4> QED  BY <4>1, <1>1 DEF IInv, WorkInv
    <3> QED  BY <3>1, <3>2
  <2> QED  BY <2>1 DEF WorkInv
<1>6. SharesInv'
  BY <1>1, JobsStay
<1> QED  BY <1>4, <1>5, <1>6 DEF IInv

\* What a miner reads is the newest job as the pool has it, or nothing.
LEMMA ReadsNewest ==
  ASSUME IInv, NEW c \in Conns, MinerReads(c)
  PROVE  /\ Len(jobs) \in Nat \ {0} /\ sub[c] = Assigned(c)
         /\ work' = [work EXCEPT ![c] = jobs[Len(jobs)].job]
<1>1. PICK S : jobs \in Seq(S)
  BY DEF IInv, TypeInv
<1>2. jobs # <<>> /\ sub[c].state = "on"
  BY DEF MinerReads
<1>3. Len(jobs) \in Nat \ {0} /\ Last(jobs) = jobs[Len(jobs)]
  BY <1>1, <1>2 DEF Last
<1>4. sub[c] = Assigned(c)
  BY <1>2 DEF IInv, WorkInv, NotYet, Gone
<1> DEFINE j == jobs[Len(jobs)].job
           p == ToNotifyParams(j)
<1>5. MadeJob(Len(jobs), jobs[Len(jobs)])
  BY <1>3 DEF IInv, JobsInv
<1>6. /\ j.flags = 0 /\ j.clean_jobs \in BOOLEAN
      /\ j = [job_id |-> j.job_id, prev_hidden |-> j.prev_hidden,
              consensus_digest |-> j.consensus_digest, flags |-> j.flags, bits |-> j.bits,
              clean_jobs |-> j.clean_jobs]
  <2>1. j.clean_jobs \in BOOLEAN /\ \E i, h, d, b, k :
          j = [job_id |-> i, prev_hidden |-> h, consensus_digest |-> d, flags |-> 0, bits |-> b,
               clean_jobs |-> k]
    BY <1>5 DEF MadeJob
  <2> QED  BY <2>1
<1> HIDE DEF j
<1>7. FromNotifyParams(p) = Ok(j)
  <2>1. j.flags \in 0..255
    BY <1>6
  <2> HIDE DEF p
  <2> QED  BY <1>6, <2>1, NotifyRoundTrip DEF p
<1>8. PICK params \in {p, [p EXCEPT ![4] = Hex(1, 1)], [p EXCEPT ![5] = Array(1)],
                       [p EXCEPT ![3] = Hex(@.v, 32)], [p EXCEPT ![6] = Hex(256, 4)],
                       SubSeq(p, 1, 8)} :
        /\ FromNotifyParams(params).ok
        /\ work' = [work EXCEPT ![c] = FromNotifyParams(params).value]
  <2>1. \E params \in {p, [p EXCEPT ![4] = Hex(1, 1)], [p EXCEPT ![5] = Array(1)],
                       [p EXCEPT ![3] = Hex(@.v, 32)], [p EXCEPT ![6] = Hex(256, 4)],
                       SubSeq(p, 1, 8)} :
           LET job == FromNotifyParams(params)
           IN  /\ job.ok
               /\ work' = [work EXCEPT ![c] = job.value]
    <3>1. p = ToNotifyParams(Last(jobs).job)
      BY <1>3 DEF j
    <3> HIDE DEF p
    <3> QED  BY <3>1 DEF MinerReads
  <2> QED  BY <2>1
<1>9. params = p
  <2>1. PICK d, q : d = j /\ q = ToNotifyParams(d)
    OBVIOUS
  <2>2. p = q
    BY <2>1
  <2> HIDE DEF p
  <2>3. params = q \/ params \in {[q EXCEPT ![4] = Hex(1, 1)], [q EXCEPT ![5] = Array(1)],
                                  [q EXCEPT ![3] = Hex(@.v, 32)], [q EXCEPT ![6] = Hex(256, 4)],
                                  SubSeq(q, 1, 8)}
    BY <1>8, <2>2
  <2>4. ASSUME params # q
        PROVE  ~FromNotifyParams(params).ok
    <3>1. PICK n : n = params
      OBVIOUS
    <3>2. n \in {[ToNotifyParams(d) EXCEPT ![4] = Hex(1, 1)], [ToNotifyParams(d) EXCEPT ![5] = Array(1)],
                 [ToNotifyParams(d) EXCEPT ![3] = Hex(@.v, 32)],
                 [ToNotifyParams(d) EXCEPT ![6] = Hex(256, 4)], SubSeq(ToNotifyParams(d), 1, 8)}
      BY <2>1, <2>3, <2>4, <3>1
    <3>3. ~FromNotifyParams(n).ok
      BY ONLY <3>2, NotifyRefuses
    <3> QED  BY <3>1, <3>3
  <2> QED  BY <1>8, <2>2, <2>4
<1>10. FromNotifyParams(params).value = j
  BY <1>7, <1>9 DEF Ok
<1>11. work' = [work EXCEPT ![c] = j]
  BY <1>8, <1>10
<1> QED  BY <1>3, <1>4, <1>11 DEF j

\* A miner reads a job.
LEMMA MinerReadsInv ==
  ASSUME IInv, NEW c \in Conns, MinerReads(c)
  PROVE  IInv'
<1>1. UNCHANGED <<height, jobs, sub, shares, rounds>>
  BY DEF MinerReads
<1>2. /\ Len(jobs) \in Nat \ {0} /\ sub[c] = Assigned(c)
      /\ work' = [work EXCEPT ![c] = jobs[Len(jobs)].job]
  BY ReadsNewest
<1>3. TypeInv' /\ JobsInv'
  BY <1>1, <1>2 DEF IInv, TypeInv, JobsInv
<1>4. WorkInv'
  <2>1. ASSUME NEW d \in Conns
        PROVE  work'[d] # NoWork => sub[d] = Assigned(d) /\ \E i \in 1..Len(jobs) : work'[d] = jobs[i].job
    <3>1. CASE d = c
      <4>1. Len(jobs) \in 1..Len(jobs) /\ work'[c] = jobs[Len(jobs)].job
        BY <1>2 DEF IInv, TypeInv
      <4> QED  BY <3>1, <4>1, <1>2
    <3>2. CASE d # c
      <4>1. work'[d] = work[d]
        BY <1>2, <3>2 DEF IInv, TypeInv
      <4> QED  BY <4>1 DEF IInv, WorkInv
    <3> QED  BY <3>1, <3>2
  <2> QED  BY <2>1, <1>1 DEF IInv, WorkInv
<1>5. SharesInv'
  BY <1>1, JobsStay
<1> QED  BY <1>3, <1>4, <1>5 DEF IInv

\* A thread hashes a batch, and may submit.
LEMMA MinerBatchInv ==
  ASSUME IInv, NEW c \in Conns, NEW t \in Tickets[c], MinerBatch(c, t)
  PROVE  IInv'
<1> DEFINE e2 == EncodeExtranonce2(t, sub[c].extranonce2_size)
           r  == Search(JobMidstate(work[c], sub[c].extranonce1, e2), at[c][t], Batch)
           share == [conn |-> c, hash |-> r.hash, line |-> Call(SubmitId, "mining.submit", ToSubmitParams(
                     [worker |-> "worker", job_id |-> work[c].job_id, extranonce2 |-> e2,
                      time_offset |-> r.at.time_offset, nonce |-> r.at.nonce]))]
<1>1. /\ UNCHANGED <<height, jobs, sub, work, rounds>> /\ work[c] # NoWork
      /\ shares' = IF ~r.found \/ r.at.nonce2 # 0 \/ r.at.nonce3 # 0 THEN shares ELSE shares \cup {share}
  BY DEF MinerBatch
<1>2. PICK i \in 1..Len(jobs) : work[c] = jobs[i].job
  BY <1>1 DEF IInv, WorkInv
<1>3. sub[c].extranonce1 = c /\ work[c].job_id = i
  <2>1. sub[c] = Assigned(c)
    BY <1>1 DEF IInv, WorkInv
  <2>2. MadeJob(i, jobs[i])
    BY DEF IInv, JobsInv
  <2>3. \E h, d, b, k :
          jobs[i].job = [job_id |-> i, prev_hidden |-> h, consensus_digest |-> d, flags |-> 0,
                         bits |-> b, clean_jobs |-> k]
    BY <2>2 DEF MadeJob
  <2> QED  BY <2>1, <2>3, <1>2 DEF Assigned, On
<1>4. r.found => r.hash = MidHash(JobMidstate(work[c], sub[c].extranonce1, e2), r.at)
  <2>1. Batch \in Nat
    BY BatchAssumption, WordAssumption
  <2> HIDE DEF e2
  <2> QED  BY <2>1, SearchFinds
<1> HIDE DEF e2, r
<1>5. SharesInv'
  <2>1. CASE shares' = shares
    BY <1>1, <2>1, JobsStay
  <2>2. CASE r.found /\ r.at.nonce2 = 0 /\ r.at.nonce3 = 0 /\ shares' = shares \cup {share}
    <3>1. ASSUME NEW m \in shares'
          PROVE  m.conn \in Conns /\ \E k \in 1..Len(jobs') : \E f2, p : ShareOf(m, k, f2, p)'
      <4>1. CASE m \in shares
        <5>a. PICK k \in 1..Len(jobs) : \E f2, p : ShareOf(m, k, f2, p)
          BY <4>1 DEF IInv, SharesInv
        <5>1. PICK f2, p : ShareOf(m, k, f2, p)
          BY <5>a
        <5>2. ShareOf(m, k, f2, p)'
          BY <5>1, <1>1 DEF ShareOf
        <5> QED  BY <4>1, <5>2, <1>1 DEF IInv, SharesInv
      <4>2. CASE m = share
        <5>1. share.conn = c
          OBVIOUS
        <5>2. PICK f2, p : f2 = e2 /\ p = r.at
          OBVIOUS
        <5>3. share = [conn |-> c, hash |-> MidHash(JobMidstate(jobs[i].job, c, f2), p),
                       line |-> Call(SubmitId, "mining.submit", ToSubmitParams(
                         [worker |-> "worker", job_id |-> i, extranonce2 |-> f2,
                          time_offset |-> p.time_offset, nonce |-> p.nonce]))]
          BY <1>2, <1>3, <1>4, <2>2, <5>2
        <5>4. p.nonce2 = 0 /\ p.nonce3 = 0
          BY <2>2, <5>2
        <5> HIDE DEF share
        <5>5. ShareOf(m, i, f2, p)
          BY <4>2, <5>1, <5>3, <5>4 DEF ShareOf
        <5>6. ShareOf(m, i, f2, p)'
          BY <1>1, <5>5 DEF ShareOf
        <5> QED  BY <4>2, <5>1, <5>6, <1>1
      <4> QED  BY <3>1, <4>1, <4>2, <2>2
    <3> QED  BY <3>1 DEF SharesInv
  <2> QED  BY <1>1, <2>1, <2>2
<1>6. TypeInv' /\ JobsInv'
  BY <1>1 DEF IInv, TypeInv, JobsInv
<1>7. WorkInv'
  <2>1. UNCHANGED <<jobs, sub, work>>
    BY <1>1
  <2>2. WorkInv
    BY DEF IInv
  <2> QED  BY <2>1, <2>2, WorkStays
<1> QED  BY <1>5, <1>6, <1>7 DEF IInv

\* The pool checks a share.
LEMMA PoolChecksInv ==
  ASSUME IInv, NEW m \in shares, PoolChecks(m)
  PROVE  IInv'
<1>1. /\ UNCHANGED <<jobs, sub, work, rounds>> /\ shares' = shares \ {m}
      /\ height' = height \/ height' = height + 1
  BY DEF PoolChecks
<1>2. shares' \subseteq shares
  BY <1>1
<1>3. TypeInv' /\ JobsInv'
  BY <1>1 DEF IInv, TypeInv, JobsInv
<1> QED  BY <1>1, <1>2, <1>3, JobsStay DEF IInv

\* regtest-miner builds and mines.
LEMMA RoundsInv == IInv /\ (RoundBuilds \/ RoundMines) => IInv'
<1> SUFFICES ASSUME IInv, RoundBuilds \/ RoundMines PROVE IInv'
  OBVIOUS
<1>1. /\ UNCHANGED <<jobs, sub, work, shares>>
      /\ height' = height \/ height' = height + 1
      /\ rounds' = rounds \/ rounds' = rounds + 1
  BY DEF RoundBuilds, RoundMines
<1>2. TypeInv' /\ JobsInv'
  BY <1>1 DEF IInv, TypeInv, JobsInv
<1> QED  BY <1>1, <1>2, JobsStay DEF IInv

\* Every step keeps the invariant.
LEMMA InvNext == IInv /\ [Next]_vars => IInv'
<1> SUFFICES ASSUME IInv, [Next]_vars PROVE IInv'
  OBVIOUS
<1>1. CASE UNCHANGED vars
  <2>1. UNCHANGED <<height, rounds, jobs, sub, work, shares>>
    BY <1>1 DEF vars
  <2>2. TypeInv' /\ JobsInv'
    BY <2>1 DEF IInv, TypeInv, JobsInv
  <2> QED  BY <2>1, <2>2, JobsStay DEF IInv
<1> QED  BY <1>1, ElsewhereMinedInv, PoolBuildsInv, MinerSubscribesInv, MinerReadsInv, MinerBatchInv,
            PoolChecksInv, RoundsInv DEF Next

\* The inductive invariant: every job announces the header it was built with, every
\* miner works on a job that was announced to it, with its own extranonce1, and
\* every share carries the nonces of a point that met the target.
THEOREM Invariant == Spec => []IInv
BY InvInit, InvNext, PTL DEF Spec

\* A share still to be checked is rebuilt to the hash it was found by.
LEMMA HashIsShared == IInv => PoolSeesTheMinersHash
<1> SUFFICES ASSUME IInv, NEW m \in shares
             PROVE  LET share == FromSubmitParams(m.line.params)
                    IN  /\ share.ok /\ share.value.job_id \in 1..Len(jobs)
                        /\ PowHash(Rebuild(jobs[share.value.job_id], share.value, m.conn)) = m.hash
  BY DEF PoolSeesTheMinersHash
<1>a. PICK i \in 1..Len(jobs) : \E e2, p : ShareOf(m, i, e2, p)
  BY DEF IInv, SharesInv
<1>1. PICK e2, p : ShareOf(m, i, e2, p)
  BY <1>a
<1> DEFINE s == [worker |-> "worker", job_id |-> i, extranonce2 |-> e2,
                 time_offset |-> p.time_offset, nonce |-> p.nonce]
           v == [worker |-> "worker", job_id |-> i, extranonce2 |-> e2, e2len |-> Extranonce2Size,
                 time_offset |-> p.time_offset, nonce |-> p.nonce]
<1>2. /\ m.line.params = ToSubmitParams(s)
      /\ m.hash = MidHash(JobMidstate(jobs[i].job, m.conn, e2), p)
      /\ p.nonce2 = 0 /\ p.nonce3 = 0
  <2>1. m = [conn |-> m.conn, hash |-> MidHash(JobMidstate(jobs[i].job, m.conn, e2), p),
             line |-> Call(SubmitId, "mining.submit", ToSubmitParams(s))]
        /\ p.nonce2 = 0 /\ p.nonce3 = 0
    BY <1>1 DEF ShareOf
  <2>2. Call(SubmitId, "mining.submit", ToSubmitParams(s)).params = ToSubmitParams(s)
    BY DEF Call
  <2> HIDE DEF s
  <2> QED  BY <2>1, <2>2
<1>3. FromSubmitParams(m.line.params) = Ok(v)
  BY <1>2, SubmitRoundTrip
<1>4. Ok(v).ok /\ Ok(v).value = v
  BY DEF Ok
<1>5. v.job_id = i /\ v.nonce = p.nonce /\ v.time_offset = p.time_offset /\ v.extranonce2 = e2
  OBVIOUS
<1>6. MadeJob(i, jobs[i])
  BY DEF IInv, JobsInv
<1> HIDE DEF v
<1>7. PowHash(Rebuild(jobs[i], v, m.conn)) = MidHash(JobMidstate(jobs[i].job, m.conn, e2), p)
  BY <1>2, <1>5, <1>6, RebuiltHash
<1> QED  BY <1>2, <1>3, <1>4, <1>5, <1>7

\* For every template, every placement of solutions and any number of miners and
\* threads: the header the pool rebuilds from a share has the hash it was found by.
THEOREM SharesRebuilt == Spec => []PoolSeesTheMinersHash
BY Invariant, HashIsShared, PTL

-----------------------------------------------------------------------------
(* Sequences.                                                              *)

\* A sequence over a set is one over any larger set.
LEMMA SeqWider ==
  ASSUME NEW S, NEW T, S \subseteq T, NEW s \in Seq(S)
  PROVE  s \in Seq(T)
OBVIOUS

\* An element of a sequence.
LEMMA Member ==
  ASSUME NEW S, NEW s \in Seq(S), NEW i \in 1..Len(s)
  PROVE  s[i] \in S
OBVIOUS

\* A part of a sequence of integers.
LEMMA SubSeqIs ==
  ASSUME NEW s \in Seq(Int), NEW a \in Nat, NEW n \in Nat, a + n <= Len(s),
         NEW part, part = SubSeq(s, a + 1, a + n)
  PROVE  part \in Seq(Int) /\ Len(part) = n /\ \A k \in 1..n : part[k] = s[a + k]
OBVIOUS

\* A concatenation, element by element.
LEMMA ConcatIs ==
  ASSUME NEW s \in Seq(Int), NEW t \in Seq(Int), NEW both, both = s \o t
  PROVE  /\ both \in Seq(Int) /\ Len(both) = Len(s) + Len(t)
         /\ \A k \in 1..Len(s) : both[k] = s[k]
         /\ \A k \in 1..Len(t) : both[Len(s) + k] = t[k]
OBVIOUS

\* Sequences that agree everywhere are equal.
LEMMA SameSequence ==
  ASSUME NEW s \in Seq(Int), NEW t \in Seq(Int), Len(s) = Len(t), \A k \in 1..Len(s) : s[k] = t[k]
  PROVE  s = t
OBVIOUS

-----------------------------------------------------------------------------
(* Numbers and their bytes.                                                *)

\* The sum of little-endian bytes, unfolded.
LEMMA LittleEndianDef ==
  ASSUME NEW b, NEW n \in Nat, Len(b) = n
  PROVE  \E sum : /\ LittleEndian(b) = sum[n]
                  /\ sum = [i \in 0..n |-> IF i = 0 THEN 0 ELSE sum[i-1] + b[i] * 256^(i-1)]
<1> DEFINE Rec(k, g) == g = [i \in 0..k |-> IF i = 0 THEN 0 ELSE g[i-1] + b[i] * 256^(i-1)]
           S == {k \in Nat : \E g : Rec(k, g)}
<1>1. 0 \in S
  <2> DEFINE g == [i \in 0..0 |-> 0]
  <2>1. Rec(0, g)
    OBVIOUS
  <2> QED  BY <2>1
<1>2. ASSUME NEW k \in Nat, k \in S
      PROVE  k + 1 \in S
  <2>1. PICK g : Rec(k, g)
    BY <1>2
  <2> DEFINE h == [i \in 0..k+1 |-> IF i <= k THEN g[i] ELSE g[k] + b[k+1] * 256^k]
  <2>2. Rec(k + 1, h)
    <3>1. ASSUME NEW i \in 0..k+1
          PROVE  h[i] = IF i = 0 THEN 0 ELSE h[i-1] + b[i] * 256^(i-1)
      <4>1. CASE i = 0
        <5>1. h[0] = g[0] /\ g[0] = 0
          BY <2>1
        <5> QED  BY <4>1, <5>1
      <4>2. CASE i \in 1..k
        <5>1. h[i] = g[i] /\ h[i-1] = g[i-1] /\ g[i] = g[i-1] + b[i] * 256^(i-1)
          BY <4>2, <2>1
        <5> QED  BY <4>2, <5>1
      <4>3. CASE i = k + 1
        <5>1. h[i] = g[k] + b[k+1] * 256^k /\ h[i-1] = g[k] /\ i - 1 = k
          BY <4>3
        <5> QED  BY <4>3, <5>1
      <4> QED  BY <4>1, <4>2, <4>3
    <3> QED  BY <3>1
  <2> HIDE DEF Rec, h
  <2> QED  BY <2>2
<1>3. n \in S
  <2> HIDE DEF S
  <2> QED  BY <1>1, <1>2, NaturalsFromZero
<1>4. PICK g : Rec(n, g)
  BY <1>3
<1>5. LittleEndian(b) = (CHOOSE g1 : Rec(n, g1))[n]
  BY DEF LittleEndian
<1>6. Rec(n, CHOOSE g1 : Rec(n, g1))
  <2> HIDE DEF Rec
  <2> QED  BY <1>4
<1> QED  BY <1>5, <1>6

\* The number that up to four little-endian bytes stand for.
LEMMA LittleEndianUpTo4 ==
  ASSUME NEW b \in Seq(Int)
  PROVE  /\ Len(b) = 1 => LittleEndian(b) = b[1]
         /\ Len(b) = 2 => LittleEndian(b) = b[1] + 256 * b[2]
         /\ Len(b) = 3 => LittleEndian(b) = b[1] + 256 * b[2] + 256 * 256 * b[3]
         /\ Len(b) = 4 => LittleEndian(b) = b[1] + 256 * b[2] + 256 * 256 * b[3] + 256 * 256 * 256 * b[4]
<1>1. PICK sum : /\ LittleEndian(b) = sum[Len(b)]
                 /\ sum = [i \in 0..Len(b) |-> IF i = 0 THEN 0 ELSE sum[i-1] + b[i] * 256^(i-1)]
  BY LittleEndianDef
<1>2. Len(b) \in Nat /\ sum[0] = 0
  <2>1. ASSUME NEW k \in 0..Len(b)
        PROVE  sum[k] = IF k = 0 THEN 0 ELSE sum[k-1] + b[k] * 256^(k-1)
    BY <1>1
  <2>2. Len(b) \in Nat
    OBVIOUS
  <2> QED  BY <2>1, <2>2
<1>3. ASSUME NEW i \in 1..Len(b)
      PROVE  sum[i] = sum[i-1] + b[i] * 256^(i-1) /\ b[i] \in Int
  <2>1. ASSUME NEW k \in 0..Len(b)
        PROVE  sum[k] = IF k = 0 THEN 0 ELSE sum[k-1] + b[k] * 256^(k-1)
    BY <1>1
  <2>2. i \in 0..Len(b) /\ i # 0 /\ b[i] \in Int
    BY <1>2
  <2> QED  BY <2>1, <2>2
<1>4. ASSUME 1 <= Len(b)
      PROVE  sum[1] = b[1] /\ b[1] \in Int
  <2>1. sum[1] = sum[1-1] + b[1] * 256^(1-1) /\ b[1] \in Int
    <3>1. 1 \in 1..Len(b)
      BY <1>2, <1>4
    <3> QED  BY <3>1, <1>3
  <2>2. 1 - 1 = 0 /\ 256^0 = 1
    BY SMT
  <2> QED  BY <2>1, <2>2, <1>2
<1>5. ASSUME 2 <= Len(b)
      PROVE  sum[2] = b[1] + 256 * b[2] /\ b[2] \in Int
  <2>1. sum[2] = sum[2-1] + b[2] * 256^(2-1) /\ b[2] \in Int
    <3>1. 2 \in 1..Len(b)
      BY <1>2, <1>5
    <3> QED  BY <3>1, <1>3
  <2>2. 2 - 1 = 1 /\ 256^1 = 256
    BY SMT
  <2> QED  BY <2>1, <2>2, <1>2, <1>4, <1>5
<1>6. ASSUME 3 <= Len(b)
      PROVE  sum[3] = b[1] + 256 * b[2] + 256 * 256 * b[3] /\ b[3] \in Int
  <2>1. sum[3] = sum[3-1] + b[3] * 256^(3-1) /\ b[3] \in Int
    <3>1. 3 \in 1..Len(b)
      BY <1>2, <1>6
    <3> QED  BY <3>1, <1>3
  <2>2. 3 - 1 = 2 /\ 256^2 = 256 * 256
    BY SMT
  <2> QED  BY <2>1, <2>2, <1>2, <1>4, <1>5, <1>6
<1>7. ASSUME 4 <= Len(b)
      PROVE  sum[4] = b[1] + 256 * b[2] + 256 * 256 * b[3] + 256 * 256 * 256 * b[4]
  <2>1. sum[4] = sum[4-1] + b[4] * 256^(4-1) /\ b[4] \in Int
    <3>1. 4 \in 1..Len(b)
      BY <1>2, <1>7
    <3> QED  BY <3>1, <1>3
  <2>2. 4 - 1 = 3 /\ 256^3 = 256 * 256 * 256
    BY SMT
  <2> QED  BY <2>1, <2>2, <1>2, <1>4, <1>5, <1>6, <1>7
<1>8. Len(b) = 1 => LittleEndian(b) = b[1]
  BY <1>1, <1>4
<1>9. Len(b) = 2 => LittleEndian(b) = b[1] + 256 * b[2]
  BY <1>1, <1>5
<1>10. Len(b) = 3 => LittleEndian(b) = b[1] + 256 * b[2] + 256 * 256 * b[3]
  BY <1>1, <1>6
<1>11. Len(b) = 4 => LittleEndian(b) = b[1] + 256 * b[2] + 256 * 256 * b[3] + 256 * 256 * 256 * b[4]
  BY <1>1, <1>7
<1> QED  BY <1>8, <1>9, <1>10, <1>11

\* A number below 256^4 and its four digits.
LEMMA DigitsSpan ==
  ASSUME NEW v \in Nat, 0 < v, v < 128 * 256 * 256 * 256
  PROVE  \/ Digits(v) = 1 /\ v < 256
         \/ Digits(v) = 2 /\ v >= 256 /\ v < 256 * 256
         \/ Digits(v) = 3 /\ v >= 256 * 256 /\ v < 256 * 256 * 256
         \/ Digits(v) = 4 /\ v >= 256 * 256 * 256
<1> DEFINE Spans(n) == (\A i \in 0..3 : i >= n => v \div 256^i = 0) /\ (n > 0 => v \div 256^(n-1) > 0)
<1>1. /\ v \div 256^0 = v /\ v \div 256^1 = v \div 256
      /\ v \div 256^2 = v \div (256 * 256) /\ v \div 256^3 = v \div (256 * 256 * 256)
  BY SMT
<1>2. /\ v \div 256 = 0 <=> v < 256
      /\ v \div (256 * 256) = 0 <=> v < 256 * 256
      /\ v \div (256 * 256 * 256) = 0 <=> v < 256 * 256 * 256
      /\ v \div 256 \in Nat /\ v \div (256 * 256) \in Nat /\ v \div (256 * 256 * 256) \in Nat
  BY SMT
<1>3. \A i \in 0..3 : i = 0 \/ i = 1 \/ i = 2 \/ i = 3
  BY SMT
<1>4. /\ ~Spans(0)
      /\ Spans(1) <=> v < 256
      /\ Spans(2) <=> v >= 256 /\ v < 256 * 256
      /\ Spans(3) <=> v >= 256 * 256 /\ v < 256 * 256 * 256
      /\ Spans(4) <=> v >= 256 * 256 * 256
  <2>1. ~Spans(0)
    BY <1>1, SMT
  <2>2. Spans(1) <=> v < 256
    BY <1>1, <1>2, <1>3, SMT
  <2>3. Spans(2) <=> v >= 256 /\ v < 256 * 256
    BY <1>1, <1>2, <1>3, SMT
  <2>4. Spans(3) <=> v >= 256 * 256 /\ v < 256 * 256 * 256
    BY <1>1, <1>2, <1>3, SMT
  <2>5. Spans(4) <=> v >= 256 * 256 * 256
    BY <1>1, <1>2, <1>3, SMT
  <2> QED  BY <2>1, <2>2, <2>3, <2>4, <2>5
<1>5. Digits(v) = CHOOSE n \in 0..4 : Spans(n)
  BY DEF Digits
<1> HIDE DEF Spans
<1>6. \A n \in 0..4 : n = 0 \/ n = 1 \/ n = 2 \/ n = 3 \/ n = 4
  BY SMT
<1>7. \E n \in 0..4 : Spans(n)
  BY <1>4, SMT
<1>8. Digits(v) \in 0..4 /\ Spans(Digits(v))
  BY <1>5, <1>7
<1> QED  BY <1>4, <1>6, <1>8

\* encode_script_number: as few bytes as hold the number and a sign bit of zero,
\* and little-endian they are the number.
LEMMA ScriptNumberIs ==
  ASSUME NEW v \in Nat, 0 < v, v < 128 * 256 * 256 * 256
  PROVE  LET b == EncodeScriptNumber(v)
         IN  /\ b \in Seq(0..255) /\ Len(b) \in 1..4
             /\ b[Len(b)] < 128 /\ LittleEndian(b) = v
<1> SUFFICES ASSUME NEW b, b = EncodeScriptNumber(v)
             PROVE  /\ b \in Seq(0..255) /\ Len(b) \in 1..4
                    /\ b[Len(b)] < 128 /\ LittleEndian(b) = v
  OBVIOUS
<1> DEFINE le == [i \in 1..Digits(v) |-> (v \div 256^(i-1)) % 256]
<1>1. Digits(v) \in 1..4
  BY DigitsSpan
<1>2. /\ v \div 256^0 = v /\ v \div 256^1 = v \div 256
      /\ v \div 256^2 = v \div (256 * 256) /\ v \div 256^3 = v \div (256 * 256 * 256)
  BY SMT
<1>3. \A i \in 1..4 : i = 1 \/ i = 2 \/ i = 3 \/ i = 4
  BY SMT
<1>4. /\ le[1] = v % 256
      /\ Digits(v) >= 2 => le[2] = (v \div 256) % 256
      /\ Digits(v) >= 3 => le[3] = (v \div (256 * 256)) % 256
      /\ Digits(v) = 4 => le[4] = (v \div (256 * 256 * 256)) % 256
  BY <1>1, <1>2, SMT
<1>5. /\ v % 256 \in 0..255 /\ (v \div 256) % 256 \in 0..255
      /\ (v \div (256 * 256)) % 256 \in 0..255 /\ (v \div (256 * 256 * 256)) % 256 \in 0..255
  BY SMT
<1>6. le \in Seq(0..255) /\ Len(le) = Digits(v)
  <2>1. \A i \in 1..Digits(v) : le[i] \in 0..255
    BY <1>1, <1>3, <1>4, <1>5, SMT
  <2>2. Digits(v) \in Nat /\ DOMAIN le = 1..Digits(v) /\ le = [i \in 1..Digits(v) |-> le[i]]
    <3>1. Digits(v) \in Nat
      BY <1>1
    <3>2. DOMAIN le = 1..Digits(v)
      OBVIOUS
    <3>3. le = [i \in DOMAIN le |-> le[i]]
      OBVIOUS
    <3> HIDE DEF le
    <3> QED  BY <3>1, <3>2, <3>3
  <2> HIDE DEF le
  <2>3. ASSUME NEW n \in Nat, n = Digits(v)
        PROVE  le \in Seq(0..255) /\ Len(le) = n
    <3>1. \A i \in 1..n : le[i] \in 0..255
      BY <2>1, <2>3
    <3>2. le = [i \in 1..n |-> le[i]]
      BY <2>2, <2>3
    <3>3. le \in [1..n -> 0..255]
      BY <3>1, <3>2
    <3> QED  BY <3>3
  <2> QED  BY <2>2, <2>3
<1>7. b = IF le # <<>> /\ Last(le) >= 128 THEN Append(le, 0) ELSE le
  BY DEF EncodeScriptNumber
<1> HIDE DEF le
<1>8. Last(le) = le[Digits(v)] /\ le # <<>>
  BY <1>1, <1>6 DEF Last
<1>a. le[Digits(v)] \in 0..255 /\ Digits(v) \in 1..Len(le) /\ le \in Seq(Int)
  <2>1. 0..255 \subseteq Int
    OBVIOUS
  <2>2. le \in Seq(Int)
    BY <1>6, <2>1, SeqWider
  <2>3. Digits(v) \in 1..Len(le)
    BY <1>1, <1>6
  <2>4. le[Digits(v)] \in 0..255
    BY <1>6, <2>3, Member
  <2> QED  BY <2>2, <2>3, <2>4
<1>9. b = IF le[Digits(v)] >= 128 THEN Append(le, 0) ELSE le
  BY <1>7, <1>8
<1>10. CASE le[Digits(v)] < 128
  <2>1. b = le
    BY <1>9, <1>10, <1>a
  <2>2. le \in Seq(Int) /\ Len(le) = Digits(v)
    BY <1>6, <1>a
  <2>3. CASE Digits(v) = 1
    <3>1. v < 256 /\ LittleEndian(le) = le[1]
      BY <2>2, <2>3, DigitsSpan, LittleEndianUpTo4
    <3>2. LittleEndian(le) = v
      BY <3>1, <1>4, SMT
    <3> QED  BY <3>2, <1>1, <1>6, <1>10, <2>1, <2>3
  <2>4. CASE Digits(v) = 2
    <3>1. v < 256 * 256 /\ LittleEndian(le) = le[1] + 256 * le[2]
      BY <2>2, <2>4, DigitsSpan, LittleEndianUpTo4
    <3>2. LittleEndian(le) = (v % 256) + 256 * ((v \div 256) % 256)
      BY <3>1, <2>4, <1>4
    <3>3. (v % 256) + 256 * ((v \div 256) % 256) = v
      BY <3>1, SMT
    <3> QED  BY <3>2, <3>3, <1>1, <1>6, <1>10, <2>1, <2>4
  <2>5. CASE Digits(v) = 3
    <3>1. v < 256 * 256 * 256 /\ LittleEndian(le) = le[1] + 256 * le[2] + 256 * 256 * le[3]
      BY <2>2, <2>5, DigitsSpan, LittleEndianUpTo4
    <3>2. LittleEndian(le) = (v % 256) + 256 * ((v \div 256) % 256)
                             + 256 * 256 * ((v \div (256 * 256)) % 256)
      BY <3>1, <2>5, <1>4
    <3>3. (v % 256) + 256 * ((v \div 256) % 256) + 256 * 256 * ((v \div (256 * 256)) % 256) = v
      BY <3>1, SMT
    <3> QED  BY <3>2, <3>3, <1>1, <1>6, <1>10, <2>1, <2>5
  <2>6. CASE Digits(v) = 4
    <3>1. LittleEndian(le) = le[1] + 256 * le[2] + 256 * 256 * le[3] + 256 * 256 * 256 * le[4]
      BY <2>2, <2>6, LittleEndianUpTo4
    <3>2. LittleEndian(le) = (v % 256) + 256 * ((v \div 256) % 256)
                             + 256 * 256 * ((v \div (256 * 256)) % 256)
                             + 256 * 256 * 256 * ((v \div (256 * 256 * 256)) % 256)
      BY <3>1, <2>6, <1>4
    <3>3. (v % 256) + 256 * ((v \div 256) % 256) + 256 * 256 * ((v \div (256 * 256)) % 256)
            + 256 * 256 * 256 * ((v \div (256 * 256 * 256)) % 256) = v
      BY SMT
    <3> QED  BY <3>2, <3>3, <1>1, <1>6, <1>10, <2>1, <2>6
  <2> QED  BY <2>3, <2>4, <2>5, <2>6, <1>1, <1>3
<1>11. CASE le[Digits(v)] >= 128
  <2>1. b = Append(le, 0)
    BY <1>9, <1>11
  <2>2. Digits(v) # 4
    <3>1. ASSUME Digits(v) = 4
          PROVE  (v \div (256 * 256 * 256)) % 256 < 128
      BY SMT
    <3>2. ASSUME Digits(v) = 4
          PROVE  le[Digits(v)] = (v \div (256 * 256 * 256)) % 256
      BY <1>4, <3>2
    <3> QED  BY <3>1, <3>2, <1>5, <1>11
  <2>3. /\ b \in Seq(0..255) /\ b \in Seq(Int) /\ Len(b) = Digits(v) + 1 /\ b[Digits(v) + 1] = 0
        /\ \A i \in 1..Digits(v) : b[i] = le[i]
    <3>1. /\ Append(le, 0) \in Seq(0..255) /\ Append(le, 0) \in Seq(Int)
          /\ Len(Append(le, 0)) = Len(le) + 1 /\ Append(le, 0)[Len(le) + 1] = 0
          /\ \A i \in 1..Len(le) : Append(le, 0)[i] = le[i]
      BY <1>6, <1>a
    <3> QED  BY <2>1, <3>1, <1>6
  <2>4. Len(b) \in 1..4 /\ b[Len(b)] < 128
    BY <2>2, <2>3, <1>1
  <2>5. CASE Digits(v) = 1
    <3>1. v < 256 /\ LittleEndian(b) = (v % 256) + 256 * 0
      <4>1. b[1] = v % 256 /\ b[2] = 0 /\ Len(b) = 2
        BY <2>3, <2>5, <1>4
      <4>2. LittleEndian(b) = b[1] + 256 * b[2]
        <5>1. b \in Seq(Int) /\ Len(b) = 2
          BY <4>1, <2>3
        <5> QED  BY <5>1, LittleEndianUpTo4
      <4> QED  BY <4>1, <4>2, <2>5, DigitsSpan
    <3>2. LittleEndian(b) = v
      BY <3>1, SMT
    <3> QED  BY <3>2, <2>3, <2>4
  <2>6. CASE Digits(v) = 2
    <3>1. v < 256 * 256 /\ LittleEndian(b) = (v % 256) + 256 * ((v \div 256) % 256) + 256 * 256 * 0
      <4>1. b[1] = v % 256 /\ b[2] = (v \div 256) % 256 /\ b[3] = 0 /\ Len(b) = 3
        BY <2>3, <2>6, <1>4
      <4>2. LittleEndian(b) = b[1] + 256 * b[2] + 256 * 256 * b[3]
        <5>1. b \in Seq(Int) /\ Len(b) = 3
          BY <4>1, <2>3
        <5> QED  BY <5>1, LittleEndianUpTo4
      <4> QED  BY <4>1, <4>2, <2>6, DigitsSpan
    <3>2. LittleEndian(b) = v
      BY <3>1, SMT
    <3> QED  BY <3>2, <2>3, <2>4
  <2>7. CASE Digits(v) = 3
    <3>1. v < 256 * 256 * 256 /\ LittleEndian(b) = (v % 256) + 256 * ((v \div 256) % 256)
                          + 256 * 256 * ((v \div (256 * 256)) % 256) + 256 * 256 * 256 * 0
      <4>1. /\ b[1] = v % 256 /\ b[2] = (v \div 256) % 256 /\ b[3] = (v \div (256 * 256)) % 256
            /\ b[4] = 0 /\ Len(b) = 4
        BY <2>3, <2>7, <1>4
      <4>2. LittleEndian(b) = b[1] + 256 * b[2] + 256 * 256 * b[3] + 256 * 256 * 256 * b[4]
        <5>1. b \in Seq(Int) /\ Len(b) = 4
          BY <4>1, <2>3
        <5> QED  BY <5>1, LittleEndianUpTo4
      <4> QED  BY <4>1, <4>2, <2>7, DigitsSpan
    <3>2. LittleEndian(b) = v
      BY <3>1, SMT
    <3> QED  BY <3>2, <2>3, <2>4
  <2> QED  BY <2>2, <2>5, <2>6, <2>7, <1>1, <1>3
<1> QED  BY <1>10, <1>11, <1>a

\* A sequence of one.
LEMMA OneElement ==
  ASSUME NEW x \in Int
  PROVE  \E one \in Seq(Int) : one = <<x>> /\ Len(one) = 1 /\ one[1] = x
<1>1. <<x>> \in Seq(Int) /\ Len(<<x>>) = 1 /\ <<x>>[1] = x
  OBVIOUS
<1> QED  BY <1>1

\* push_data of up to 75 bytes: their count, then the bytes.
LEMMA PushDataIs ==
  ASSUME NEW data \in Seq(Int)
  PROVE  /\ PushData(data) \in Seq(Int)
         /\ \E prefix \in Seq(Int) : PushData(data) = prefix \o data
         /\ Len(data) <= 75 => PushData(data) = <<Len(data)>> \o data
<1> DEFINE n == Len(data)
           prefix == CASE n <= 75 -> <<n>>
                       [] n > 75 /\ n <= 255 -> <<OP_PUSHDATA1, n>>
                       [] OTHER -> <<OP_PUSHDATA2, n % 256, n \div 256>>
<1>1. PushData(data) = prefix \o data
  BY DEF PushData
<1>2. n \in Nat /\ OP_PUSHDATA1 \in Int /\ OP_PUSHDATA2 \in Int /\ n % 256 \in Int /\ n \div 256 \in Int
  BY DEF OP_PUSHDATA1, OP_PUSHDATA2
<1>3. n <= 75 => prefix = <<n>>
  BY <1>2
<1> HIDE DEF n
<1>4. prefix \in Seq(Int)
  <2>1. CASE n <= 75
    BY <1>2, <2>1
  <2>2. CASE n > 75 /\ n <= 255
    BY <1>2, <2>2
  <2>3. CASE n > 255
    BY <1>2, <2>3
  <2> QED  BY <1>2, <2>1, <2>2, <2>3
<1> HIDE DEF prefix
<1>5. \E q \in Seq(Int) : PushData(data) = q \o data
  BY <1>1, <1>4
<1>6. PushData(data) \in Seq(Int)
  BY <1>1, <1>4, ConcatIs
<1>7. n <= 75 => PushData(data) = <<n>> \o data
  BY <1>1, <1>3
<1> QED  BY <1>5, <1>6, <1>7 DEF n

\* A number pushed at the beginning of a script is the number read from it.
LEMMA PushReads ==
  ASSUME NEW b \in Seq(Int), NEW len \in 1..4, Len(b) = len, b[len] < 128,
         NEW rest \in Seq(Int), NEW script, script = (<<len>> \o b) \o rest
  PROVE  LeadingNumber(script) = LittleEndian(b)
<1>1. PICK push : push = <<len>> \o b
  OBVIOUS
<1>2. <<len>> \in Seq(Int) /\ Len(<<len>>) = 1 /\ <<len>>[1] = len
  OBVIOUS
<1>3. /\ push \in Seq(Int) /\ Len(push) = 1 + len /\ push[1] = len
      /\ \A k \in 1..len : push[1 + k] = b[k]
  <2>1. PICK one \in Seq(Int) : one = <<len>> /\ Len(one) = 1 /\ one[1] = len
    BY <1>2
  <2>2. push = one \o b
    BY <1>1, <2>1
  <2> QED  BY <2>1, <2>2, ConcatIs
<1>4. /\ script \in Seq(Int) /\ Len(script) = 1 + len + Len(rest) /\ script[1] = len
      /\ \A k \in 1..len : script[1 + k] = b[k]
  <2>1. script = push \o rest
    BY <1>1
  <2>2. /\ script \in Seq(Int) /\ Len(script) = Len(push) + Len(rest)
        /\ \A k \in 1..Len(push) : script[k] = push[k]
    BY <1>3, <2>1, ConcatIs
  <2> QED  BY <1>3, <2>2
<1>5. SubSeq(script, 2, len + 1) = b
  <2>1. PICK part : part = SubSeq(script, 1 + 1, 1 + len)
    OBVIOUS
  <2>2. /\ part \in Seq(Int) /\ Len(part) = len /\ \A k \in 1..len : part[k] = script[1 + k]
    <3>1. Len(rest) \in Nat /\ len \in Nat /\ 1 + len <= Len(script)
      BY <1>4
    <3> QED  BY <1>4, <2>1, <3>1, SubSeqIs
  <2>3. part = b
    BY <1>4, <2>2, SameSequence
  <2> QED  BY <2>1, <2>3
<1>6. ~(len = 0) /\ ~(len \in OP_1..OP_1+15) /\ Last(b) = b[len] /\ ~(b[len] >= 128)
  <2>1. b[len] \in Int
    <3>1. len \in 1..Len(b)
      OBVIOUS
    <3> QED  BY <3>1, Member
  <2> QED  BY <2>1 DEF OP_1, Last
<1> QED  BY <1>4, <1>5, <1>6 DEF LeadingNumber

\* The height a script begins with is read back as the height.
LEMMA HeightReads ==
  ASSUME NEW v \in Nat, 0 < v, v < 128 * 256 * 256 * 256, NEW rest \in Seq(Int)
  PROVE  LeadingNumber(EncodeBlockHeight(v) \o rest) = v /\ EncodeBlockHeight(v) \in Seq(Int)
<1>1. CASE v \in 1..16
  <2>1. EncodeBlockHeight(v) = <<OP_1 + v - 1>>
    BY <1>1 DEF EncodeBlockHeight
  <2>2. OP_1 + v - 1 \in OP_1..OP_1+15 /\ OP_1 + v - 1 # 0 /\ (OP_1 + v - 1) - OP_1 + 1 = v
        /\ OP_1 + v - 1 \in Int
    BY <1>1, SMT DEF OP_1
  <2>3. PICK one \in Seq(Int) : one = <<OP_1 + v - 1>> /\ Len(one) = 1 /\ one[1] = OP_1 + v - 1
    BY <2>2, OneElement
  <2>4. PICK script : script = one \o rest
    OBVIOUS
  <2>5. script[1] = OP_1 + v - 1
    BY <2>3, <2>4, ConcatIs
  <2>6. LeadingNumber(script) = script[1] - OP_1 + 1
    BY <2>2, <2>5 DEF LeadingNumber
  <2> QED  BY <2>1, <2>2, <2>3, <2>4, <2>5, <2>6
<1>2. CASE v > 16
  <2>1. PICK b : b = EncodeScriptNumber(v)
    OBVIOUS
  <2>2. b \in Seq(0..255) /\ Len(b) \in 1..4 /\ b[Len(b)] < 128 /\ LittleEndian(b) = v
    BY <2>1, ScriptNumberIs
  <2>3. PICK len \in 1..4 : len = Len(b)
    BY <2>2
  <2>4. b \in Seq(Int)
    <3>1. 0..255 \subseteq Int
      OBVIOUS
    <3> QED  BY <2>2, <3>1, SeqWider
  <2>5. EncodeBlockHeight(v) = <<len>> \o b /\ EncodeBlockHeight(v) \in Seq(Int)
    <3>1. ~(v = 0) /\ ~(v \in 1..16)
      BY <1>2, SMT
    <3>2. EncodeBlockHeight(v) = PushData(b)
      BY <2>1, <3>1 DEF EncodeBlockHeight
    <3>3. Len(b) <= 75
      BY <2>3
    <3> QED  BY <2>3, <2>4, <3>2, <3>3, PushDataIs
  <2>6. LeadingNumber((<<len>> \o b) \o rest) = LittleEndian(b)
    BY <2>2, <2>3, <2>4, PushReads
  <2> QED  BY <2>2, <2>5, <2>6
<1> QED
  <2>1. v \in 1..16 \/ v > 16
    BY SMT
  <2> QED  BY <1>1, <1>2, <2>1

-----------------------------------------------------------------------------
(* One sequence inside another.                                            *)

\* Concatenation is associative.
LEMMA ConcatAssociative ==
  ASSUME NEW s \in Seq(Int), NEW t \in Seq(Int), NEW u \in Seq(Int)
  PROVE  (s \o t) \o u = s \o (t \o u)
<1>1. PICK st : st = s \o t
  OBVIOUS
<1>2. PICK tu : tu = t \o u
  OBVIOUS
<1>3. PICK x : x = st \o u
  OBVIOUS
<1>4. PICK y : y = s \o tu
  OBVIOUS
<1>5. /\ st \in Seq(Int) /\ Len(st) = Len(s) + Len(t)
      /\ \A k \in 1..Len(s) : st[k] = s[k]
      /\ \A k \in 1..Len(t) : st[Len(s) + k] = t[k]
  BY <1>1, ConcatIs
<1>6. /\ tu \in Seq(Int) /\ Len(tu) = Len(t) + Len(u)
      /\ \A k \in 1..Len(t) : tu[k] = t[k]
      /\ \A k \in 1..Len(u) : tu[Len(t) + k] = u[k]
  BY <1>2, ConcatIs
<1>7. /\ x \in Seq(Int) /\ Len(x) = Len(st) + Len(u)
      /\ \A k \in 1..Len(st) : x[k] = st[k]
      /\ \A k \in 1..Len(u) : x[Len(st) + k] = u[k]
  BY <1>3, <1>5, ConcatIs
<1>8. /\ y \in Seq(Int) /\ Len(y) = Len(s) + Len(tu)
      /\ \A k \in 1..Len(s) : y[k] = s[k]
      /\ \A k \in 1..Len(tu) : y[Len(s) + k] = tu[k]
  BY <1>4, <1>6, ConcatIs
<1>9. Len(s) \in Nat /\ Len(t) \in Nat /\ Len(u) \in Nat
  OBVIOUS
<1>10. ASSUME NEW i \in 1..Len(x)
       PROVE  x[i] = y[i]
  <2>1. CASE i <= Len(s)
    <3>1. i \in 1..Len(s) /\ i \in 1..Len(st)
      BY <1>5, <1>9, <2>1
    <3> QED  BY <3>1, <1>5, <1>7, <1>8
  <2>2. CASE i > Len(s) /\ i <= Len(s) + Len(t)
    <3>1. PICK k \in 1..Len(t) : i = Len(s) + k
      <4>1. i - Len(s) \in 1..Len(t) /\ i = Len(s) + (i - Len(s))
        BY <1>9, <2>2
      <4> QED  BY <4>1
    <3>2. i \in 1..Len(st) /\ k \in 1..Len(tu)
      BY <3>1, <1>5, <1>6, <1>9
    <3> QED  BY <3>1, <3>2, <1>5, <1>6, <1>7, <1>8
  <2>3. CASE i > Len(s) + Len(t)
    <3>1. PICK k \in 1..Len(u) : i = Len(st) + k
      <4>1. i - Len(st) \in 1..Len(u) /\ i = Len(st) + (i - Len(st))
        BY <1>5, <1>7, <1>9, <2>3
      <4> QED  BY <4>1
    <3>2. Len(t) + k \in 1..Len(tu) /\ i = Len(s) + (Len(t) + k)
      BY <3>1, <1>5, <1>6, <1>9
    <3>3. x[i] = u[k]
      BY <3>1, <1>7
    <3>4. y[i] = tu[Len(t) + k] /\ tu[Len(t) + k] = u[k]
      BY <3>1, <3>2, <1>6, <1>8
    <3> QED  BY <3>3, <3>4
  <2> QED  BY <1>9, <2>1, <2>2, <2>3
<1>11. Len(x) = Len(y)
  BY <1>5, <1>6, <1>7, <1>8, <1>9
<1>12. x = y
  BY <1>7, <1>8, <1>10, <1>11, SameSequence
<1> QED  BY <1>1, <1>2, <1>3, <1>4, <1>12

Joined(s, t, u) == u = s \o t

\* Concatenation is associative, said of named parts.
LEMMA JoinedAssociative ==
  ASSUME NEW s \in Seq(Int), NEW t \in Seq(Int), NEW u \in Seq(Int),
         NEW st, NEW tu, NEW x, NEW y,
         Joined(s, t, st), Joined(t, u, tu), Joined(st, u, x), Joined(s, tu, y)
  PROVE  x = y
<1>1. (s \o t) \o u = s \o (t \o u)
  BY ConcatAssociative
<1> QED  BY <1>1, Zenon DEF Joined

\* A sequence is inside itself.
LEMMA InsideItself ==
  ASSUME NEW q \in Seq(Int)
  PROVE  HasInside(q, q)
<1>1. 0 \in 0..Len(q)-Len(q) /\ SubSeq(q, 0 + 1, 0 + Len(q)) = q
  OBVIOUS
<1> QED  BY <1>1 DEF HasInside

\* What stands at an offset of a sequence is inside it.
LEMMA InsideAt ==
  ASSUME NEW s \in Seq(Int), NEW q \in Seq(Int), NEW i \in Nat, i + Len(q) <= Len(s)
  PROVE  (\A k \in 1..Len(q) : s[i + k] = q[k]) <=> SubSeq(s, i + 1, i + Len(q)) = q
<1>1. PICK part : part = SubSeq(s, i + 1, i + Len(q))
  OBVIOUS
<1>2. Len(q) \in Nat
  OBVIOUS
<1>3. part \in Seq(Int) /\ Len(part) = Len(q) /\ \A k \in 1..Len(q) : part[k] = s[i + k]
  BY <1>1, <1>2, SubSeqIs
<1>4. (\A k \in 1..Len(q) : s[i + k] = q[k]) => part = q
  BY <1>3, SameSequence
<1> QED  BY <1>1, <1>3, <1>4

\* What is inside a part is inside the whole.
LEMMA InsideConcat ==
  ASSUME NEW s \in Seq(Int), NEW t \in Seq(Int), NEW q \in Seq(Int), HasInside(s, q)
  PROVE  HasInside(s \o t, q) /\ HasInside(t \o s, q)
<1>1. PICK i \in 0..Len(s)-Len(q) : SubSeq(s, i + 1, i + Len(q)) = q
  BY DEF HasInside
<1>2. i \in Nat /\ Len(q) \in Nat /\ Len(s) \in Nat /\ Len(t) \in Nat /\ i + Len(q) <= Len(s)
  BY <1>1
<1>3. \A k \in 1..Len(q) : s[i + k] = q[k]
  BY <1>1, <1>2, InsideAt
<1>4. HasInside(s \o t, q)
  <2>1. PICK st : st = s \o t
    OBVIOUS
  <2>2. st \in Seq(Int) /\ Len(st) = Len(s) + Len(t) /\ \A k \in 1..Len(s) : st[k] = s[k]
    BY <2>1, ConcatIs
  <2>3. ASSUME NEW k \in 1..Len(q)
        PROVE  st[i + k] = q[k]
    <3>1. i + k \in 1..Len(s)
      BY <1>2
    <3> QED  BY <3>1, <1>3, <2>2
  <2>4. i \in 0..Len(st)-Len(q) /\ i + Len(q) <= Len(st)
    BY <1>2, <2>2
  <2>5. SubSeq(st, i + 1, i + Len(q)) = q
    BY <1>2, <2>2, <2>3, <2>4, InsideAt
  <2> QED  BY <2>1, <2>4, <2>5 DEF HasInside
<1>5. HasInside(t \o s, q)
  <2>1. PICK ts : ts = t \o s
    OBVIOUS
  <2>2. ts \in Seq(Int) /\ Len(ts) = Len(t) + Len(s) /\ \A k \in 1..Len(s) : ts[Len(t) + k] = s[k]
    BY <2>1, ConcatIs
  <2>3. PICK j \in Nat : j = Len(t) + i
    BY <1>2
  <2>4. ASSUME NEW k \in 1..Len(q)
        PROVE  ts[j + k] = q[k]
    <3>1. i + k \in 1..Len(s) /\ j + k = Len(t) + (i + k)
      BY <1>2, <2>3
    <3> QED  BY <3>1, <1>3, <2>2
  <2>5. j \in 0..Len(ts)-Len(q) /\ j + Len(q) <= Len(ts)
    BY <1>2, <2>2, <2>3
  <2>6. SubSeq(ts, j + 1, j + Len(q)) = q
    BY <2>2, <2>4, <2>5, InsideAt
  <2> QED  BY <2>1, <2>5, <2>6 DEF HasInside
<1> QED  BY <1>4, <1>5

\* What stands in the scriptSig: the height, read back, and the headline as it is.
LEMMA ScriptSigHolds ==
  ASSUME NEW n \in Nat, 0 < n, n < 128 * 256 * 256 * 256, NEW headline \in Seq(Int),
         NEW extranonce \in Seq(Int)
  PROVE  LET sig == ScriptSig(n, headline, extranonce, Tag)
         IN  LeadingNumber(sig) = n /\ (headline # None => HasInside(sig, headline))
<1>1. Tag \in Seq(Int)
  BY DEF Tag
<1>2. \A data \in Seq(Int) : PushIf(data) \in Seq(Int)
  BY PushDataIs DEF PushIf
<1>3. <<>> \in Seq(Int)
  OBVIOUS
<1>4. PICK a \in Seq(Int) : a = EncodeBlockHeight(n)
  BY <1>3, HeightReads
<1>5. PICK b \in Seq(Int) : b = IF headline = None THEN <<>> ELSE PushData(headline)
  BY <1>3, PushDataIs
<1>6. PICK d \in Seq(Int) : d = PushIf(extranonce)
  BY <1>2
<1>7. PICK e \in Seq(Int) : e = PushIf(Tag)
  BY <1>1, <1>2
<1>8. PICK ab \in Seq(Int) : ab = a \o b
  BY ConcatIs
<1>9. PICK abd \in Seq(Int) : abd = ab \o d
  BY ConcatIs
<1>10. PICK bd \in Seq(Int) : bd = b \o d
  BY ConcatIs
<1>11. PICK bde \in Seq(Int) : bde = bd \o e
  BY ConcatIs
<1>12. PICK sig : sig = abd \o e
  OBVIOUS
<1>13. sig = ScriptSig(n, headline, extranonce, Tag)
  BY <1>4, <1>5, <1>6, <1>7, <1>8, <1>9, <1>12 DEF ScriptSig
<1>14. sig = a \o bde
  <2>1. PICK y : Joined(a, bd, y)
    BY DEF Joined
  <2>2. Joined(a, b, ab) /\ Joined(ab, d, abd) /\ Joined(b, d, bd) /\ Joined(bd, e, bde)
        /\ Joined(abd, e, sig)
    BY <1>8, <1>9, <1>10, <1>11, <1>12 DEF Joined
  <2>3. abd = y
    BY <2>1, <2>2, JoinedAssociative
  <2>4. PICK z : Joined(a, bde, z)
    BY DEF Joined
  <2>5. sig = z
    BY <2>1, <2>2, <2>3, <2>4, JoinedAssociative
  <2> QED  BY <2>4, <2>5 DEF Joined
<1>15. LeadingNumber(sig) = n
  BY <1>4, <1>14, HeightReads
<1>16. ASSUME headline # None
       PROVE  HasInside(sig, headline)
  <2>1. PICK prefix \in Seq(Int) : b = prefix \o headline
    BY <1>5, <1>16, PushDataIs
  <2>2. HasInside(b, headline)
    BY <2>1, InsideItself, InsideConcat
  <2>3. HasInside(ab, headline)
    BY <2>2, <1>8, InsideConcat
  <2>4. HasInside(abd, headline)
    BY <2>3, <1>9, InsideConcat
  <2>5. HasInside(sig, headline)
    BY <2>4, <1>12, InsideConcat
  <2> QED  BY <2>5
<1> QED  BY <1>13, <1>15, <1>16

\* A height that fits an i32 has at most four digits, the last below 128.
LEMMA HeightFits ==
  ASSUME NEW n \in 1..MaxHeight+1
  PROVE  n \in Nat /\ 0 < n /\ n < 128 * 256 * 256 * 256
<1>1. MaxHeight \in Nat
  BY BoundAssumption
<1>2. (MaxHeight + 1) \div (256 * 256 * 256) < 128
  <2>1. 256^3 = 256 * 256 * 256
    BY SMT
  <2> QED  BY <2>1, HeightAssumption
<1>3. MaxHeight + 1 < 128 * 256 * 256 * 256
  BY <1>1, <1>2, SMT
<1> QED  BY <1>1, <1>3, SMT

-----------------------------------------------------------------------------
(* What the node says of a block made from its template.                   *)

\* Headlines are sequences of integers.
LEMMA HeadlineIsBytes == Headline \in Seq(Int) /\ None \in Seq(Int)
<1>1. 0..255 \subseteq Int
  OBVIOUS
<1>2. None \in Seq(Int)
  BY DEF None
<1> QED  BY <1>1, <1>2, DataAssumption, SeqWider

\* The node has nothing against a block made from its template whose header was
\* only given other nonces, but that the headline may be missing.
LEMMA Verdict ==
  ASSUME NEW b, NEW h, NEW n \in 1..MaxHeight+1, NEW headline \in {None, Headline},
         Made(b, h, n, headline),
         NEW g, g.header_v2 = h.header_v2, g.prev_block = h.prev_block,
         g.merkle_root = h.merkle_root, g.txcount = h.txcount, g.height = h.height,
         ~IsV2(n) => g.nonce2 = 0 /\ g.nonce3 = 0 /\ g.time_offset = 0,
         Meets(PowHash(g)),
         NEW verdict, verdict = NodeVerdict(SerializeBlock(b, g))
  PROVE  \/ verdict \in {"accepted", "inconclusive"}
         \/ verdict = "bad-headline" /\ n = Fork /\ headline # Headline
<1> DEFINE block == SerializeBlock(b, g)
           m     == g.prev_block[2] + 1
           ids   == <<CoinbaseTxid(b.coinbase)>>
                      \o [i \in 1..Len(b.transactions) |-> Txid(b.transactions[i])]
           w     == [i \in 1..Len(b.transactions) |-> Wtxid(b.transactions[i])]
<1>1. /\ block.header = g /\ block.count = TransactionCount(b) /\ block.coinbase = b.coinbase
      /\ block.transactions = b.transactions
  BY DEF SerializeBlock
<1>2. m = n
  <2>1. n \in Int /\ n - 1 + 1 = n
    BY BoundAssumption
  <2>2. g.prev_block = <<"block", n - 1>>
    BY DEF Made, BlockHash
  <2> QED  BY <2>1, <2>2
<1> HIDE DEF block
<1>3. verdict =
        IF g.header_v2 # IsV2(m) THEN "bad-version"
        ELSE IF ~g.header_v2 /\ (g.txcount # 0 \/ g.height # 0 \/ g.nonce2 # 0 \/ g.nonce3 # 0
                                 \/ g.time_offset # 0) THEN "bad-header-v1"
        ELSE IF ~Meets(PowHash(g)) THEN "high-hash"
        ELSE IF g.merkle_root # MerkleRoot(ids) THEN "bad-txnmrklroot"
        ELSE IF g.header_v2 /\ g.txcount # TransactionCount(b) THEN "bad-txnlist-size"
        ELSE IF g.header_v2 /\ g.height # m THEN "bad-height"
        ELSE IF LeadingNumber(b.coinbase.script_sig) # m THEN "bad-cb-height"
        ELSE IF m = Fork /\ Headline # None /\ ~HasInside(b.coinbase.script_sig, Headline)
             THEN "bad-headline"
        ELSE IF b.coinbase.witness # <<ReservedValue>> THEN "bad-witness-nonce-size"
        ELSE IF Last(b.coinbase.outputs).script # CommitmentScript(w) THEN "bad-witness-merkle-match"
        ELSE IF g.prev_block # BlockHash(height) THEN "inconclusive"
        ELSE "accepted"
  BY <1>1 DEF NodeVerdict, block
<1>4. /\ g.header_v2 = IsV2(n) /\ g.merkle_root = BlockRoot(b)
      /\ g.txcount = (IF IsV2(n) THEN TransactionCount(b) ELSE 0)
      /\ g.height = (IF IsV2(n) THEN n ELSE 0)
      /\ b.coinbase.witness = <<ReservedValue>>
      /\ Last(b.coinbase.outputs).script = CommitmentScript(w)
  BY DEF Made
<1>5. g.merkle_root = MerkleRoot(ids)
  BY <1>4 DEF Made, BlockRoot
<1>6. /\ LeadingNumber(b.coinbase.script_sig) = n
      /\ headline # None => HasInside(b.coinbase.script_sig, headline)
  <2>1. PICK extranonce \in Seq(Int) :
          b.coinbase.script_sig = ScriptSig(n, headline, extranonce, Tag)
    BY DEF Made
  <2>2. headline \in Seq(Int)
    BY HeadlineIsBytes
  <2> QED  BY <2>1, <2>2, HeightFits, ScriptSigHolds
<1> HIDE DEF m, ids, w
<1>7. IsV2(n) \in BOOLEAN
  BY DEF IsV2
<1> QED  BY <1>2, <1>3, <1>4, <1>5, <1>6, <1>7

\* A header of one nonce word is searched in that word alone.
LEMMA OneWord ==
  ASSUME NEW start, NEW budget \in Nat, NEW i \in 0..budget
  PROVE  LET p == Sweep(start, 1, budget)[i]
         IN  p.nonce2 = 0 /\ p.nonce3 = 0 /\ p.time_offset = 0
<1> DEFINE point == Sweep(start, 1, budget)
           Zero(p) == p.nonce2 = 0 /\ p.nonce3 = 0 /\ p.time_offset = 0
           S == {k \in Nat : k <= budget => Zero(point[k])}
<1>1. ASSUME NEW k \in 0..budget
      PROVE  point[k] = IF k = 0 THEN Truncate(start, 1) ELSE Advance(point[k-1], 1)
  <2>1. point = [j \in 0..budget |-> IF j = 0 THEN Truncate(start, 1) ELSE Advance(point[j-1], 1)]
    BY SweepDef
  <2> HIDE DEF point
  <2> QED  BY <2>1
<1> HIDE DEF point
<1>2. 0 \in S
  <2>1. Zero(Truncate(start, 1))
    BY DEF Truncate
  <2> QED  BY <1>1, <2>1
<1>3. ASSUME NEW k \in Nat, k \in S
      PROVE  k + 1 \in S
  <2>1. ASSUME k + 1 <= budget
        PROVE  Zero(point[k + 1])
    <3>1. k + 1 \in 0..budget /\ k + 1 # 0 /\ k + 1 - 1 = k /\ k <= budget
      BY <2>1
    <3>2. point[k + 1] = Advance(point[k], 1)
      BY <1>1, <3>1
    <3>3. Zero(point[k])
      BY <1>3, <3>1
    <3>4. Zero(Advance(point[k], 1))
      BY <3>3 DEF Advance
    <3> QED  BY <3>2, <3>4
  <2> QED  BY <2>1
<1>4. i \in S
  <2> HIDE DEF S
  <2> QED  BY <1>2, <1>3, NaturalsFromZero
<1> QED  BY <1>4 DEF point

-----------------------------------------------------------------------------
(* regtest-miner, and the verdicts.                                        *)

\* What regtest-miner mines on is a block of its template; at the fork, with the
\* headline the network wants.
RoundInv ==
  \/ round = Idle
  \/ round = Ended
  \/ \E b, h, headline : \E n \in 1..MaxHeight+1 :
       /\ round = [state |-> "built", block |-> b, header |-> h]
       /\ headline \in {None, Headline} /\ (n = Fork => headline = Headline)
       /\ Made(b, h, n, headline)
       /\ rounds \in Nat \ {0} /\ h.time_on_wire = rounds - 1

\* regtest-miner builds a block from the node's template.
LEMMA RoundBuildsRound == IInv /\ RoundBuilds => RoundInv'
<1> SUFFICES ASSUME IInv, RoundBuilds PROVE RoundInv'
  OBVIOUS
<1>1. PICK mempool \in Mempools, parentKnown \in BOOLEAN :
        LET t    == Template(mempool)
            fork == IF Headline = None THEN Ok(FALSE) ELSE IsForkBlock(t, parentKnown)
            head == IF fork.ok /\ fork.value THEN Headline ELSE None
            b    == Assemble(t, t.time, head, [i \in 1..8 |-> IF i = 1 THEN rounds' ELSE 0])
        IN  round' = IF fork.ok /\ b.ok THEN Built(b.value) ELSE Ended
  BY DEF RoundBuilds
<1> DEFINE t    == Template(mempool)
           fork == IF Headline = None THEN Ok(FALSE) ELSE IsForkBlock(t, parentKnown)
           head == IF fork.ok /\ fork.value THEN Headline ELSE None
<1>2. rounds' \in Nat /\ mempool \in Seq(BOOLEAN) /\ height \in Nat /\ height <= MaxHeight /\ MaxHeight \in Nat
  BY DataAssumption, BoundAssumption DEF IInv, TypeInv, RoundBuilds
<1>3. PICK extranonce \in Seq(Int) : extranonce = [i \in 1..8 |-> IF i = 1 THEN rounds' ELSE 0]
  <2>1. PICK r \in Nat : r = rounds'
    BY <1>2
  <2>2. [i \in 1..8 |-> IF i = 1 THEN r ELSE 0] \in Seq(Int)
    OBVIOUS
  <2> QED  BY <2>1, <2>2
<1> DEFINE a == Assemble(t, t.time, head, extranonce)
<1>4. round' = IF fork.ok /\ a.ok THEN Built(a.value) ELSE Ended
  BY <1>1, <1>3
<1>5. /\ t.header_v2 = IsV2(height + 1) /\ t.previous = BlockHash(height) /\ t.height = height + 1
      /\ Len(t.transactions) \in Nat
  <2>1. Len(mempool) \in Nat
    BY <1>2
  <2> QED  BY <1>2, <2>1, TemplateIs
<1>6. ASSUME fork.ok, height + 1 = Fork
      PROVE  head = Headline
  <2>1. \A x : Ok(x).ok = TRUE /\ Ok(x).value = x /\ Err(x).ok = FALSE
    BY DEF Ok, Err
  <2>2. CASE Headline = None
    BY <2>2
  <2>3. CASE Headline # None
    <3> HIDE DEF t
    <3>1. IsV2(height + 1) = TRUE /\ IsV2(t.height - 1) = FALSE
      BY <1>2, <1>5, <1>6, ForkAssumption DEF IsV2
    <3>2. fork = IsForkBlock(t, parentKnown)
      BY <2>3
    <3>3. fork = Ok(~IsV2(t.height - 1))
      <4> HIDE DEF fork
      <4> QED  BY <1>5, <1>6, <2>1, <3>1, <3>2 DEF IsForkBlock
    <3>4. fork.value = TRUE
      <4> HIDE DEF fork
      <4> QED  BY <2>1, <3>1, <3>3
    <3> QED  BY <1>6, <3>4
  <2> QED  BY <2>2, <2>3
<1>7. head \in {None, Headline}
  OBVIOUS
<1> HIDE DEF fork
<1>8. CASE fork.ok /\ a.ok
  <2>1. /\ height + 1 \in Nat /\ height + 1 \in 1..MaxHeight+1
        /\ BlockHash(height + 1 - 1) = BlockHash(height)
    <3>1. height + 1 - 1 = height /\ height + 1 \in Nat /\ height + 1 \in 1..MaxHeight+1
      BY <1>2
    <3> QED  BY <3>1
  <2> HIDE DEF t, head
  <2>2. /\ Made(a.value.block, a.value.header, height + 1, head)
        /\ a.value.header.time_on_wire = rounds' - 1
    <3>1. PICK n \in Nat : n = height + 1
      BY <2>1
    <3>2. PICK hl : hl = head
      OBVIOUS
    <3>3. PICK time : time = t.time
      OBVIOUS
    <3>4. PICK made : made = Assemble(t, time, hl, extranonce)
      OBVIOUS
    <3>5. made = a
      BY <3>2, <3>3, <3>4
    <3> HIDE DEF a
    <3>6. /\ t.height = n /\ t.header_v2 = IsV2(n) /\ t.previous = BlockHash(n - 1)
          /\ Len(t.transactions) \in Nat /\ made.ok
      <4>1. BlockHash(n - 1) = BlockHash(height)
        <5>1. n - 1 = height + 1 - 1
          BY <1>2, <3>1
        <5>2. height + 1 - 1 = height
          BY <1>2
        <5> QED  BY <5>1, <5>2
      <4>2. t.height = n /\ t.header_v2 = IsV2(n)
        BY <1>5, <3>1
      <4>3. made.ok
        BY <1>8, <3>5
      <4> QED  BY <1>5, <4>1, <4>2, <4>3
    <3>7. Made(made.value.block, made.value.header, n, hl) /\ made.value.header.time_on_wire = time
      BY <3>4, <3>6, Assembled
    <3>8. time = rounds' - 1
      <4>1. t.time = Now
        BY <1>2, TemplateIs DEF t
      <4>2. Now = rounds' - 1
        BY DEF RoundBuilds, Now, IInv, TypeInv
      <4> QED  BY <3>3, <4>1, <4>2
    <3> QED  BY <3>1, <3>2, <3>5, <3>7, <3>8
  <2>3. round' = [state |-> "built", block |-> a.value.block, header |-> a.value.header]
    BY <1>4, <1>8 DEF Built
  <2> HIDE DEF a
  <2>4. \E b, h, headline : \E n \in 1..MaxHeight+1 :
          /\ round' = [state |-> "built", block |-> b, header |-> h]
          /\ headline \in {None, Headline} /\ (n = Fork => headline = Headline)
          /\ Made(b, h, n, headline)
          /\ rounds' \in Nat \ {0} /\ h.time_on_wire = rounds' - 1
    <3>1. rounds' \in Nat \ {0}
      BY DEF RoundBuilds, IInv, TypeInv
    <3> QED  BY <1>6, <1>7, <1>8, <2>1, <2>2, <2>3, <3>1
  <2>5. \A b, h, n, headline : Made(b, h, n, headline) <=> Made(b, h, n, headline)'
    BY DEF Made
  <2> QED  BY <2>4, <2>5 DEF RoundInv
<1>9. CASE ~(fork.ok /\ a.ok)
  BY <1>4, <1>9 DEF RoundInv
<1> QED  BY <1>8, <1>9

\* A header with the nonces of a point of the search.
WithNonces(h, p) == [h EXCEPT !.nonce = p.nonce, !.nonce2 = p.nonce2, !.nonce3 = p.nonce3,
                              !.time_offset = p.time_offset]

\* What regtest-miner searched is what the finished header hashes to.
LEMMA RoundHash ==
  ASSUME NEW h, DOMAIN h = HeaderFields, NEW p,
         NEW g, g = WithNonces(h, p)
  PROVE  /\ PowHash(g) = MidHash(PowMidstate(h), p)
         /\ g.nonce2 = p.nonce2 /\ g.nonce3 = p.nonce3 /\ g.time_offset = p.time_offset
         /\ \A x \in HeaderFields \ {"nonce", "nonce2", "nonce3", "time_offset"} : g[x] = h[x]
<1>1. /\ g.nonce = p.nonce /\ g.nonce2 = p.nonce2 /\ g.nonce3 = p.nonce3
      /\ g.time_offset = p.time_offset
      /\ \A x \in HeaderFields \ {"nonce", "nonce2", "nonce3", "time_offset"} : g[x] = h[x]
  BY DEF WithNonces, HeaderFields
<1>2. /\ g.header_v2 = h.header_v2 /\ g.version = h.version
      /\ g.prev_block = h.prev_block /\ g.height = h.height
      /\ g.merkle_root = h.merkle_root /\ g.time_on_wire = h.time_on_wire
      /\ g.bits = h.bits /\ g.txcount = h.txcount /\ g.flags = h.flags
      /\ g.xor_key_mask_clear_bits = h.xor_key_mask_clear_bits
      /\ g.xor_key = h.xor_key /\ g.mm_rhs = h.mm_rhs /\ g.extranonce = h.extranonce
  BY <1>1 DEF HeaderFields
<1>3. PowMidstate(g) = PowMidstate(h)
  BY <1>2 DEF PowMidstate, V1Bytes, H2, H1, PrevHidden, XorMask
<1> DEFINE n == [nonce |-> g.nonce, nonce2 |-> g.nonce2, nonce3 |-> g.nonce3,
                 time_offset |-> g.time_offset]
           mid == PowMidstate(h)
<1>4. /\ n.nonce = p.nonce /\ n.nonce2 = p.nonce2 /\ n.nonce3 = p.nonce3
      /\ n.time_offset = p.time_offset
  BY <1>1
<1>5. PowHash(g) = MidHash(mid, n)
  BY <1>3 DEF PowHash
<1> HIDE DEF n, mid
<1>6. Stage4(mid, n) = Stage4(mid, p)
  BY <1>4 DEF Stage4
<1>7. MidHash(mid, n) = MidHash(mid, p)
  BY <1>4, <1>6 DEF MidHash
<1> QED  BY <1>1, <1>5, <1>7 DEF mid

\* What regtest-miner sends has the proof of work it was searched for, and the
\* node's only answers to it are that it is next, or late.
LEMMA RoundMinesVerdict ==
  ASSUME IInv, RoundInv, RefusedOnlyWithoutTheHeadline, RoundMines
  PROVE  RoundInv' /\ RefusedOnlyWithoutTheHeadline'
<1> DEFINE mid == PowMidstate(round.header)
           r == Search(mid, [Origin EXCEPT !.time_offset = rounds % Word], Attempts)
           header == [round.header EXCEPT !.nonce = r.at.nonce, !.nonce2 = r.at.nonce2,
                                          !.nonce3 = r.at.nonce3, !.time_offset = r.at.time_offset]
           v == Submitted(SerializeBlock(round.block, header), "round", FALSE)
<1>1. /\ round.state = "built"
      /\ verdicts' = IF r.found THEN verdicts \cup {v} ELSE verdicts
      /\ round' = AfterRound(r.found /\ v.reason = "accepted")
  BY DEF RoundMines
<1>2. RoundInv'
  BY <1>1 DEF RoundInv, AfterRound
<1>a. PICK n \in 1..MaxHeight+1 :
        \E b, h, headline :
          /\ round = [state |-> "built", block |-> b, header |-> h]
          /\ headline \in {None, Headline} /\ (n = Fork => headline = Headline)
          /\ Made(b, h, n, headline)
  <2>1. round # Idle /\ round # Ended
    BY <1>1 DEF Idle, Ended
  <2> QED  BY <2>1 DEF RoundInv
<1>b. PICK b, h, headline :
        /\ round = [state |-> "built", block |-> b, header |-> h]
        /\ headline \in {None, Headline} /\ (n = Fork => headline = Headline)
        /\ Made(b, h, n, headline)
  BY <1>a
<1>3. /\ round.block = b /\ round.header = h
      /\ headline \in {None, Headline} /\ (n = Fork => headline = Headline)
      /\ Made(b, h, n, headline)
  BY <1>b
<1>4. ASSUME r.found
      PROVE  v.reason \in {"accepted", "inconclusive"}
  <2> DEFINE budget == Budget(NonceWords(mid), Attempts)
             start == [Origin EXCEPT !.time_offset = rounds % Word]
             point == Sweep(start, NonceWords(mid), budget)
  <2>1. Attempts \in Nat /\ budget \in Nat
    BY WordAssumption, BoundAssumption DEF Budget
  <2>2. PICK i \in 0..budget-1 : r.at = point[i] /\ Meets(MidHash(mid, r.at))
    <3> HIDE DEF mid
    <3>1. PICK i \in 0..budget-1 :
            r.at = point[i] /\ r.hash = MidHash(mid, point[i]) /\ Meets(r.hash)
      BY <1>4, <2>1, SearchFinds
    <3> QED  BY <3>1
  <2>3. DOMAIN h = HeaderFields /\ h.header_v2 = IsV2(n)
    BY <1>3 DEF Made
  <2>a. PICK p : p = r.at
    OBVIOUS
  <2>b. PICK g : g = WithNonces(h, p)
    OBVIOUS
  <2>4. g = header /\ p = r.at
    BY <1>3, <2>a, <2>b DEF WithNonces
  <2>5. /\ PowHash(g) = MidHash(PowMidstate(h), p)
        /\ g.nonce2 = p.nonce2 /\ g.nonce3 = p.nonce3 /\ g.time_offset = p.time_offset
        /\ \A x \in HeaderFields \ {"nonce", "nonce2", "nonce3", "time_offset"} : g[x] = h[x]
    BY <2>3, <2>b, RoundHash
  <2>6. /\ g.header_v2 = h.header_v2 /\ g.prev_block = h.prev_block /\ g.merkle_root = h.merkle_root
        /\ g.txcount = h.txcount /\ g.height = h.height
    BY <2>5 DEF HeaderFields
  <2>7. ASSUME ~IsV2(n)
        PROVE  g.nonce2 = 0 /\ g.nonce3 = 0 /\ g.time_offset = 0
    <3>1. NonceWords(mid) = 1
      <4>1. mid.v2 = FALSE
        BY <1>3, <2>3, <2>7 DEF PowMidstate
      <4> HIDE DEF mid
      <4> QED  BY <4>1 DEF NonceWords
    <3>2. i \in 0..budget
      BY <2>1
    <3>3. r.at = Sweep(start, 1, budget)[i]
      BY <2>2, <3>1
    <3> HIDE DEF start, budget, mid, r
    <3> QED  BY <2>1, <2>4, <2>5, <3>2, <3>3, OneWord
  <2>8. Meets(PowHash(g))
    <3>1. PowHash(g) = MidHash(mid, r.at)
      BY <1>3, <2>4, <2>5
    <3> HIDE DEF mid, r
    <3> QED  BY <2>2, <3>1
  <2>9. PICK verdict : verdict = NodeVerdict(SerializeBlock(b, g))
    OBVIOUS
  <2>10. verdict \in {"accepted", "inconclusive"}
    BY <1>3, <2>6, <2>7, <2>8, <2>9, Verdict
  <2>11. v.reason = NodeVerdict(SerializeBlock(round.block, header))
    <3> HIDE DEF header
    <3> QED  BY DEF Submitted
  <2>12. v.reason = verdict
    <3> HIDE DEF header, v
    <3> QED  BY <1>3, <2>4, <2>9, <2>11
  <2> HIDE DEF v
  <2> QED  BY <2>10, <2>12
<1>5. RefusedOnlyWithoutTheHeadline'
  <2> HIDE DEF v, r
  <2> QED  BY <1>1, <1>4 DEF RefusedOnlyWithoutTheHeadline
<1> QED  BY <1>2, <1>5

\* What the pool submits is its own block under the header the share completes.
LEMMA PoolChecksVerdict ==
  ASSUME IInv, RefusedOnlyWithoutTheHeadline, NEW m \in shares, PoolChecks(m)
  PROVE  RefusedOnlyWithoutTheHeadline'
<1> DEFINE share  == FromSubmitParams(m.line.params).value
           active == jobs[share.job_id]
           header == Rebuild(active, share, m.conn)
           v      == Submitted(SerializeBlock(active.block, header), "pool", active.blind)
           isBlock == Meets(PowHash(header)) /\ share.e2len + Extranonce1Size = 16
<1>1. verdicts' = IF isBlock THEN verdicts \cup {v} ELSE verdicts
  BY DEF PoolChecks
<1>2. share.job_id \in 1..Len(jobs)
  BY HashIsShared DEF PoolSeesTheMinersHash
<1> HIDE DEF share
<1>3. MadeJob(share.job_id, active)
  BY <1>2 DEF IInv, JobsInv
<1> HIDE DEF active
<1>4. PICK headline \in {None, Headline} :
        /\ Made(active.block, active.header, active.height, headline)
        /\ headline = Headline \/ active.height # Fork \/ active.blind
  BY <1>3 DEF MadeJob
<1>5. active.height \in 1..MaxHeight+1 /\ IsV2(active.height) /\ active.blind \in BOOLEAN
  BY <1>3 DEF MadeJob
<1>6. PICK b, h, n : b = active.block /\ h = active.header /\ n = active.height
  OBVIOUS
<1>7. DOMAIN h = HeaderFields /\ h.prev_block = BlockHash(n - 1)
  BY <1>4, <1>6 DEF Made
<1>8. \A x \in HeaderFields \ {"extranonce", "nonce", "time_offset", "nonce2", "nonce3"} :
        header[x] = h[x]
  BY <1>6, <1>7, RebuildKeeps
<1> HIDE DEF header
<1>9. /\ header.header_v2 = h.header_v2 /\ header.prev_block = h.prev_block
      /\ header.merkle_root = h.merkle_root /\ header.txcount = h.txcount /\ header.height = h.height
  BY <1>8 DEF HeaderFields
<1>10. ASSUME isBlock
       PROVE  \/ v.reason \in {"accepted", "inconclusive"}
              \/ v.reason = "bad-headline" /\ v.by = "pool" /\ v.blind /\ v.height = Fork
  <2>1. Meets(PowHash(header))
    BY <1>10
  <2>2. PICK verdict : verdict = NodeVerdict(SerializeBlock(b, header))
    OBVIOUS
  <2>3. \/ verdict \in {"accepted", "inconclusive"}
        \/ verdict = "bad-headline" /\ n = Fork /\ headline # Headline
    <3>1. /\ n \in 1..MaxHeight+1 /\ Made(b, h, n, headline) /\ IsV2(n)
      BY <1>4, <1>5, <1>6
    <3>2. PICK g : g = header
      OBVIOUS
    <3>3. /\ g.header_v2 = h.header_v2 /\ g.prev_block = h.prev_block
          /\ g.merkle_root = h.merkle_root /\ g.txcount = h.txcount /\ g.height = h.height
          /\ (~IsV2(n) => g.nonce2 = 0 /\ g.nonce3 = 0 /\ g.time_offset = 0)
          /\ Meets(PowHash(g)) /\ verdict = NodeVerdict(SerializeBlock(b, g))
      BY <1>9, <2>1, <2>2, <3>1, <3>2
    <3> QED  BY <1>4, <3>1, <3>3, Verdict
  <2>4. /\ v.reason = NodeVerdict(SerializeBlock(active.block, header)) /\ v.by = "pool"
        /\ v.blind = active.blind
        /\ v.height = SerializeBlock(active.block, header).header.prev_block[2] + 1
    BY DEF Submitted
  <2>5. v.height = n
    <3>1. SerializeBlock(active.block, header).header = header
      BY DEF SerializeBlock
    <3>2. header.prev_block = <<"block", n - 1>>
      BY <1>7, <1>9 DEF BlockHash
    <3>3. n \in Int /\ n - 1 + 1 = n
      BY <1>5, <1>6, BoundAssumption
    <3>4. header.prev_block[2] = n - 1
      BY <3>2
    <3> HIDE DEF v
    <3> QED  BY <2>4, <3>1, <3>3, <3>4
  <2>6. v.reason = verdict
    <3> HIDE DEF v
    <3> QED  BY <1>6, <2>2, <2>4
  <2> HIDE DEF v
  <2> QED  BY <1>4, <1>5, <1>6, <2>3, <2>4, <2>5, <2>6
<1> HIDE DEF v, isBlock
<1> QED  BY <1>1, <1>10 DEF RefusedOnlyWithoutTheHeadline

\* Both together.
VerdictInv == RoundInv /\ RefusedOnlyWithoutTheHeadline

\* At first nothing was submitted.
LEMMA VerdictInit == Init => VerdictInv
BY DEF Init, VerdictInv, RoundInv, RefusedOnlyWithoutTheHeadline

\* Every step keeps both.
LEMMA VerdictNext == IInv /\ VerdictInv /\ [Next]_vars => VerdictInv'
<1> SUFFICES ASSUME IInv, VerdictInv, [Next]_vars PROVE VerdictInv'
  OBVIOUS
<1>1. ASSUME UNCHANGED <<round, rounds>>
      PROVE  RoundInv'
  <2>1. \A b, h, n, headline : Made(b, h, n, headline) <=> Made(b, h, n, headline)'
    BY DEF Made
  <2> QED  BY <1>1, <2>1 DEF VerdictInv, RoundInv
<1>2. ASSUME UNCHANGED verdicts
      PROVE  RefusedOnlyWithoutTheHeadline'
  BY <1>2 DEF VerdictInv, RefusedOnlyWithoutTheHeadline
<1>3. ASSUME UNCHANGED <<round, rounds, verdicts>>
      PROVE  VerdictInv'
  BY <1>1, <1>2, <1>3 DEF VerdictInv
<1>4. CASE UNCHANGED vars
  BY <1>3, <1>4 DEF vars
<1>5. CASE ElsewhereMined
  BY <1>3, <1>5 DEF ElsewhereMined
<1>6. CASE PoolBuilds
  BY <1>3, <1>6 DEF PoolBuilds
<1>7. ASSUME NEW c \in Conns, MinerSubscribes(c) \/ MinerReads(c)
      PROVE  VerdictInv'
  BY <1>3, <1>7 DEF MinerSubscribes, MinerReads
<1>8. ASSUME NEW c \in Conns, NEW t \in Tickets[c], MinerBatch(c, t)
      PROVE  VerdictInv'
  BY <1>3, <1>8 DEF MinerBatch
<1>9. ASSUME NEW m \in shares, PoolChecks(m)
      PROVE  VerdictInv'
  <2>1. RefusedOnlyWithoutTheHeadline'
    BY <1>9, PoolChecksVerdict DEF VerdictInv
  <2>2. RoundInv'
    BY <1>1, <1>9 DEF PoolChecks
  <2> QED  BY <2>1, <2>2 DEF VerdictInv
<1>10. CASE RoundBuilds
  <2>1. RoundInv'
    BY <1>10, RoundBuildsRound
  <2>2. RefusedOnlyWithoutTheHeadline'
    BY <1>2, <1>10 DEF RoundBuilds
  <2> QED  BY <2>1, <2>2 DEF VerdictInv
<1>11. CASE RoundMines
  BY <1>11, RoundMinesVerdict DEF VerdictInv
<1> QED  BY <1>4, <1>5, <1>6, <1>7, <1>8, <1>9, <1>10, <1>11 DEF Next

\* For every template, height, mempool and placement of solutions, whoever mined
\* the block and however late its share: the node takes it, or knows it, or has a
\* better one; the one block it may refuse is the fork block, for a headline the
\* node could not be asked for.
THEOREM NothingElseRefused == Spec => []RefusedOnlyWithoutTheHeadline
<1>1. IInv /\ VerdictInv /\ [Next]_vars => VerdictInv'
  BY VerdictNext
<1>2. Spec => []VerdictInv
  BY <1>1, VerdictInit, Invariant, PTL DEF Spec
<1>3. VerdictInv => RefusedOnlyWithoutTheHeadline
  BY DEF VerdictInv
<1> QED  BY <1>2, <1>3, PTL

-----------------------------------------------------------------------------
(* No input twice: the points of a sweep, and what tells two hashes apart. *)

\* Place n of offset q, where the miner's batches stand.
Place(q, n) == [nonce |-> n, nonce2 |-> 0, nonce3 |-> 0, time_offset |-> q]

\* The first nonce of a header of one word, or the first two of a header of four,
\* count the points of a sweep from the origin.
Counts(p, words, k) ==
  /\ p.nonce \in 0..Word-1 /\ p.nonce2 \in 0..Word-1
  /\ p.nonce2 * Word + p.nonce = k
  /\ words = 1 => p.nonce2 = 0

\* Batches fill the word.
LEMMA BatchesFillTheWord ==
  /\ Word \div Batch \in Nat \ {0} /\ Batch * (Word \div Batch) = Word
  /\ Batch \in Nat \ {0} /\ Batch <= Word /\ Word \in Nat \ {0}
<1>1. Batch \in Nat \ {0} /\ Batch <= Word /\ Word \in Nat \ {0} /\ Word % Batch = 0
  BY WordAssumption, BatchAssumption
<1>2. Word \div Batch \in Nat /\ Word = Batch * (Word \div Batch) + (Word % Batch)
  BY <1>1
<1>3. Batch * (Word \div Batch) = Word
  BY <1>1, <1>2
<1>4. Word \div Batch # 0
  BY <1>1, <1>3
<1> QED  BY <1>1, <1>2, <1>3, <1>4

\* One point of a sweep from the one before it.
LEMMA SweepStep ==
  ASSUME NEW start, NEW words, NEW budget \in Nat, NEW k \in 0..budget
  PROVE  Sweep(start, words, budget)[k] =
           IF k = 0 THEN Truncate(start, words) ELSE Advance(Sweep(start, words, budget)[k-1], words)
<1> DEFINE point == Sweep(start, words, budget)
<1>1. point = [j \in 0..budget |-> IF j = 0 THEN Truncate(start, words) ELSE Advance(point[j-1], words)]
  BY SweepDef
<1> HIDE DEF point
<1>2. point[k] = IF k = 0 THEN Truncate(start, words) ELSE Advance(point[k-1], words)
  BY <1>1
<1> QED  BY <1>2 DEF point

\* A batch stays in the word it begins in: no carry.
LEMMA BatchSweep ==
  ASSUME NEW q, NEW n \in Nat, NEW budget \in Nat, n + budget <= Word, NEW k \in 0..budget-1
  PROVE  Sweep(Place(q, n), 4, budget)[k] = Place(q, n + k)
<1> DEFINE point == Sweep(Place(q, n), 4, budget)
           S == {j \in Nat : j <= budget - 1 => point[j] = Place(q, n + j)}
<1>1. ASSUME NEW j \in 0..budget
      PROVE  point[j] = IF j = 0 THEN Truncate(Place(q, n), 4) ELSE Advance(point[j-1], 4)
  BY SweepStep
<1> HIDE DEF point
<1>2. 0 \in S
  <2>1. point[0] = Truncate(Place(q, n), 4)
    BY <1>1
  <2>2. Truncate(Place(q, n), 4) = Place(q, n)
    BY DEF Truncate, Place
  <2>3. n + 0 = n
    OBVIOUS
  <2> QED  BY <2>1, <2>2, <2>3
<1>3. ASSUME NEW j \in Nat, j \in S
      PROVE  j + 1 \in S
  <2>1. ASSUME j + 1 <= budget - 1
        PROVE  point[j + 1] = Place(q, n + (j + 1))
    <3>1. /\ j + 1 \in 0..budget /\ j + 1 # 0 /\ j + 1 - 1 = j /\ j <= budget - 1
          /\ n + j \in Nat /\ n + j # Word - 1 /\ n + j + 1 < Word /\ n + (j + 1) = n + j + 1
      BY <2>1, WordAssumption
    <3>2. point[j + 1] = Advance(Place(q, n + j), 4)
      BY <1>1, <1>3, <3>1
    <3>3. PICK m \in Nat : m = n + j
      BY <3>1
    <3>4. Advance(Place(q, m), 4) = Place(q, m + 1)
      <4>1. (m + 1) % Word = m + 1 /\ m # Word - 1
        BY <3>1, <3>3, WordAssumption
      <4> QED  BY <4>1 DEF Advance, Place
    <3> QED  BY <3>1, <3>2, <3>3, <3>4
  <2> QED  BY <2>1
<1>4. k \in S
  <2> HIDE DEF S
  <2> QED  BY <1>2, <1>3, NaturalsFromZero
<1> QED  BY <1>4 DEF point

\* A step of the count: the carry goes into the second word, which has room.
LEMMA AdvanceCounts ==
  ASSUME NEW p, NEW words \in {1, 4}, NEW k \in Nat, Counts(p, words, k),
         k + 1 < Word * Word, words = 1 => k + 1 < Word
  PROVE  Counts(Advance(p, words), words, k + 1)
<1> DEFINE a == Advance(p, words)
<1>1. PICK n \in 0..Word-1 : n = p.nonce
  BY DEF Counts
<1>2. PICK m \in 0..Word-1 : m = p.nonce2
  BY DEF Counts
<1>3. m * Word + n = k /\ (words = 1 => m = 0)
  BY <1>1, <1>2 DEF Counts
<1>4. Word \in Nat \ {0}
  BY WordAssumption
<1>5. /\ a.nonce = (n + 1) % Word
      /\ a.nonce2 = IF n = Word - 1 /\ words >= 2 THEN (m + 1) % Word ELSE m
  BY <1>1, <1>2 DEF Advance
<1> HIDE DEF a
<1>6. CASE n < Word - 1
  <2>1. a.nonce = n + 1 /\ a.nonce2 = m
    BY <1>4, <1>5, <1>6
  <2>2. m * Word + (n + 1) = k + 1 /\ n + 1 \in 0..Word-1
    <3>1. PICK x \in Int : x = m * Word
      BY <1>4
    <3>2. x + n = k /\ n \in Int
      BY <1>3, <3>1
    <3>3. x + (n + 1) = k + 1
      BY <3>2
    <3> QED  BY <1>4, <1>6, <3>1, <3>3
  <2> QED  BY <1>3, <2>1, <2>2 DEF Counts, a
<1>7. CASE n = Word - 1
  <2>1. words = 4
    <3>1. ASSUME words = 1
          PROVE  FALSE
      <4>1. m = 0 /\ 0 * Word = 0
        BY <1>3, <1>4, <3>1
      <4>2. 0 + n = k
        BY <1>3, <4>1
      <4> QED  BY <1>4, <1>7, <3>1, <4>2
    <3> QED  BY <3>1
  <2>2. m + 1 < Word
    <3>1. ASSUME m = Word - 1
          PROVE  FALSE
      <4>1. (Word - 1) * Word + (Word - 1) = k
        BY <1>3, <1>7, <3>1
      <4>2. (Word - 1) * Word + (Word - 1) + 1 = Word * Word
        BY <1>4
      <4>3. PICK x \in Int : x = (Word - 1) * Word + (Word - 1)
        BY <1>4
      <4>4. PICK y \in Int : y = Word * Word
        BY <1>4
      <4>5. x = k /\ x + 1 = y /\ k + 1 < y
        BY <4>1, <4>2, <4>3, <4>4
      <4> QED  BY <4>5
    <3> QED  BY <1>4, <3>1
  <2>3. a.nonce = 0 /\ a.nonce2 = m + 1
    <3>1. (n + 1) % Word = 0
      <4>1. n + 1 = Word
        BY <1>4, <1>7
      <4>2. Word % Word = 0
        BY <1>4
      <4> QED  BY <4>1, <4>2
    <3>2. (m + 1) % Word = m + 1
      BY <1>4, <2>2
    <3> QED  BY <1>5, <1>7, <2>1, <3>1, <3>2
  <2>4. (m + 1) * Word + 0 = k + 1
    <3>1. (m + 1) * Word = m * Word + Word
      BY <1>4
    <3>2. PICK x \in Int : x = m * Word
      BY <1>4
    <3>3. x + n = k /\ n = Word - 1
      BY <1>3, <1>7, <3>2
    <3>4. x + Word = k + 1
      BY <1>4, <3>3
    <3>5. PICK y \in Int : y = (m + 1) * Word
      BY <1>4
    <3>6. y = k + 1
      BY <3>1, <3>2, <3>4, <3>5
    <3> QED  BY <3>5, <3>6
  <2>5. a.nonce \in 0..Word-1 /\ a.nonce2 \in 0..Word-1
    BY <1>4, <2>2, <2>3
  <2> QED  BY <2>1, <2>3, <2>4, <2>5 DEF Counts, a
<1> QED  BY <1>4, <1>6, <1>7

\* Every point of a sweep from the origin is counted by its nonces.
LEMMA SweepCounts ==
  ASSUME NEW start, start.nonce = 0, start.nonce2 = 0, NEW words \in {1, 4}, NEW budget \in Nat,
         budget <= Word * Word, words = 1 => budget <= Word, NEW k \in 0..budget-1
  PROVE  Counts(Sweep(start, words, budget)[k], words, k)
<1> DEFINE point == Sweep(start, words, budget)
           S == {j \in Nat : j <= budget - 1 => Counts(point[j], words, j)}
<1>1. ASSUME NEW j \in 0..budget
      PROVE  point[j] = IF j = 0 THEN Truncate(start, words) ELSE Advance(point[j-1], words)
  BY SweepStep
<1> HIDE DEF point
<1>2. 0 \in S
  <2>1. point[0] = Truncate(start, words)
    BY <1>1
  <2>2. Truncate(start, words).nonce = 0 /\ Truncate(start, words).nonce2 = 0
    BY DEF Truncate
  <2>3. 0 * Word + 0 = 0 /\ 0 \in 0..Word-1
    BY WordAssumption
  <2>4. Counts(point[0], words, 0)
    BY <2>1, <2>2, <2>3 DEF Counts
  <2> QED  BY <2>4
<1>3. ASSUME NEW j \in Nat, j \in S
      PROVE  j + 1 \in S
  <2>1. ASSUME j + 1 <= budget - 1
        PROVE  Counts(point[j + 1], words, j + 1)
    <3>1. j + 1 \in 0..budget /\ j + 1 # 0 /\ j + 1 - 1 = j /\ j <= budget - 1
      BY <2>1
    <3>2. point[j + 1] = Advance(point[j], words)
      BY <1>1, <3>1
    <3>3. Counts(point[j], words, j)
      BY <1>3, <3>1
    <3>4. PICK y \in Int : y = Word * Word
      BY WordAssumption
    <3>5. j + 1 < y /\ (words = 1 => j + 1 < Word)
      BY <2>1, <3>4, WordAssumption
    <3> QED  BY <3>2, <3>3, <3>4, <3>5, AdvanceCounts
  <2> QED  BY <2>1
<1>4. k \in S
  <2> HIDE DEF S
  <2> QED  BY <1>2, <1>3, NaturalsFromZero
<1> QED  BY <1>4 DEF point

\* As many values as arguments, if no two are equal.
LEMMA CountValues ==
  ASSUME NEW f, NEW n \in Nat, \A i, j \in 0..n-1 : f[i] = f[j] => i = j,
         NEW T, T = {f[i] : i \in 0..n-1}
  PROVE  IsFiniteSet(T) /\ Cardinality(T) = n
<1> DEFINE g == [k \in 1..n |-> f[k-1]]
<1>1. ASSUME NEW k \in 1..n
      PROVE  k - 1 \in 0..n-1 /\ g[k] = f[k-1]
  OBVIOUS
<1>2. g \in [1..n -> T]
  BY <1>1
<1>3. ASSUME NEW j \in 1..n, NEW k \in 1..n, g[j] = g[k]
      PROVE  j = k
  <2>1. j - 1 = k - 1
    BY <1>1, <1>3
  <2> QED  BY <2>1
<1>4. ASSUME NEW x \in T
      PROVE  \E k \in 1..n : g[k] = x
  <2>1. PICK i \in 0..n-1 : x = f[i]
    OBVIOUS
  <2>2. i + 1 \in 1..n /\ i + 1 - 1 = i
    OBVIOUS
  <2> HIDE DEF g
  <2> QED  BY <1>1, <2>1, <2>2
<1> HIDE DEF g
<1>5. g \in Bijection(1..n, T)
  BY <1>2, <1>3, <1>4 DEF Bijection, Injection, Surjection, IsInjective
<1>6. ExistsBijection(1..n, T)
  BY <1>5 DEF ExistsBijection
<1>7. IsFiniteSet(T) /\ Cardinality(T) = n
  BY <1>6, FS_NatBijection, FS_CountingElements
<1> QED  BY <1>7

\* What a search adds to what was hashed, if no input is old or hashed twice.
LEMMA CountInputs ==
  ASSUME NEW old, IsFiniteSet(old), NEW f, NEW n \in Nat, NEW new, new = {f[i] : i \in 0..n-1},
         \A i, j \in 0..n-1 : f[i] = f[j] => i = j,
         \A i \in 0..n-1 : f[i] \notin old
  PROVE  /\ IsFiniteSet(old \cup new)
         /\ Cardinality(old \cup new) = Cardinality(old) + n
<1>1. IsFiniteSet(new) /\ Cardinality(new) = n
  BY CountValues
<1>2. old \cap new = {}
  OBVIOUS
<1>3. Cardinality(old \cap new) = 0
  BY <1>2, FS_EmptySet
<1>4. /\ IsFiniteSet(old \cup new)
      /\ Cardinality(old \cup new) = Cardinality(old) + Cardinality(new) - Cardinality(old \cap new)
  BY <1>1, FS_Union
<1>5. Cardinality(old) \in Nat
  BY FS_CardinalityType
<1> QED  BY <1>1, <1>3, <1>4, <1>5

-----------------------------------------------------------------------------
(* What a hash says of its input. A hash of the newer kind names the miner *)
(* and the thread; either kind names the time of its header.               *)

TimeOf(h)   == IF h[1] = "sha256d" THEN h[2][4] ELSE h[2][6][2][2][7]
NonceOf(h)  == h[2][2]
OffsetOf(h) == h[2][4]
ConnOf(h)   == h[2][6][3][1]
TicketOf(h) == h[2][6][3][2]

\* The fields of a hash, read back.
LEMMA HashSays ==
  ASSUME NEW a, NEW p, NEW mask, NEW mm, NEW one, NEW e,
         NEW h, h = <<"blake2b", <<a, p.nonce, p.nonce2, p.time_offset, p.nonce3,
                                   <<"stage3", <<"merge_mining", one, mm>>, e>>>>, mask>>
  PROVE  /\ NonceOf(h) = p.nonce /\ h[2][3] = p.nonce2 /\ OffsetOf(h) = p.time_offset
         /\ ConnOf(h) = e[1] /\ TicketOf(h) = e[2] /\ TimeOf(h) = one[7]
<1>1. PICK s : s = <<"stage3", <<"merge_mining", one, mm>>, e>>
  OBVIOUS
<1>2. PICK n : n = <<a, p.nonce, p.nonce2, p.time_offset, p.nonce3, s>>
  OBVIOUS
<1>3. h = <<"blake2b", n, mask>>
  BY <1>1, <1>2
<1>4. h[1] = "blake2b" /\ h[2] = n
  BY <1>3
<1>5. n[2] = p.nonce /\ n[3] = p.nonce2 /\ n[4] = p.time_offset /\ n[6] = s
  BY <1>2
<1>6. s[3] = e /\ s[2][2] = one
  BY <1>1
<1> QED  BY <1>4, <1>5, <1>6 DEF NonceOf, OffsetOf, ConnOf, TicketOf, TimeOf

\* What the midstate and the nonces of a header of layout 0 are hashed to.
LEMMA LayoutZero ==
  ASSUME NEW mid, mid.v2 = TRUE, mid.flags = 0, NEW p
  PROVE  MidHash(mid, p) = <<"blake2b", <<Blanked(mid.prev_hidden), p.nonce, p.nonce2, p.time_offset,
                                          p.nonce3, mid.stage3>>, mid.xor_mask>>
<1>1. Stage4(mid, p) = <<Blanked(mid.prev_hidden), p.nonce, p.nonce2, p.time_offset, p.nonce3, mid.stage3>>
  BY DEF Stage4
<1> QED  BY <1>1 DEF MidHash

\* A header's time is in the first of the hashes its own is made of.
LEMMA HeaderTime == \A h : H1(h)[7] = h.time_on_wire
BY DEF H1

\* What a miner hashes says which job it is of, whose it is, and its nonces.
LEMMA JobHashSays ==
  ASSUME NEW i, NEW j, MadeJob(i, j), NEW c, NEW t, NEW p,
         NEW h, h = MidHash(JobMidstate(j.job, c, t), p)
  PROVE  /\ NonceOf(h) = p.nonce /\ OffsetOf(h) = p.time_offset
         /\ ConnOf(h) = c /\ TicketOf(h) = t /\ TimeOf(h) = j.header.time_on_wire
         /\ NonceWords(JobMidstate(j.job, c, t)) = 4
<1>1. j.job.consensus_digest = H2(j.header) /\ j.job.flags = 0
  <2>1. \E b, d, k : j.job = [job_id |-> i, prev_hidden |-> b, consensus_digest |-> H2(j.header),
                              flags |-> 0, bits |-> d, clean_jobs |-> k]
    BY DEF MadeJob
  <2> QED  BY <2>1
<1>2. PICK mid : mid = JobMidstate(j.job, c, t)
  OBVIOUS
<1>3. mid.v2 = TRUE /\ mid.flags = 0 /\ mid.stage3 = Stage3(H2(j.header), <<c, t>>)
  BY <1>1, <1>2 DEF JobMidstate, FromStratumJob, Extranonce
<1>4. h = <<"blake2b", <<Blanked(mid.prev_hidden), p.nonce, p.nonce2, p.time_offset, p.nonce3,
                         mid.stage3>>, mid.xor_mask>>
  BY <1>2, <1>3, LayoutZero
<1>5. PICK one : one = H1(j.header)
  OBVIOUS
<1>6. mid.stage3 = <<"stage3", <<"merge_mining", one, j.header.mm_rhs>>, <<c, t>>>>
  BY <1>3, <1>5 DEF Stage3, H2
<1>7. PICK a, mask, mm, e : a = Blanked(mid.prev_hidden) /\ mask = mid.xor_mask
                            /\ mm = j.header.mm_rhs /\ e = <<c, t>>
  OBVIOUS
<1>8. h = <<"blake2b", <<a, p.nonce, p.nonce2, p.time_offset, p.nonce3,
                         <<"stage3", <<"merge_mining", one, mm>>, e>>>>, mask>>
  BY <1>4, <1>6, <1>7
<1>9. /\ NonceOf(h) = p.nonce /\ OffsetOf(h) = p.time_offset
      /\ ConnOf(h) = e[1] /\ TicketOf(h) = e[2] /\ TimeOf(h) = one[7]
  BY <1>8, HashSays
<1>10. NonceWords(mid) = 4
  BY <1>3 DEF NonceWords
<1> QED  BY <1>2, <1>5, <1>7, <1>9, <1>10, HeaderTime

\* What regtest-miner hashes says which round it is of, and its nonces.
LEMMA HeaderHashSays ==
  ASSUME NEW b, NEW hd, NEW n, NEW headline, Made(b, hd, n, headline), NEW p,
         NEW h, h = MidHash(PowMidstate(hd), p)
  PROVE  /\ TimeOf(h) = hd.time_on_wire
         /\ IF hd.header_v2 THEN NonceOf(h) = p.nonce /\ h[2][3] = p.nonce2 ELSE h[3] = p.nonce
         /\ NonceWords(PowMidstate(hd)) = IF hd.header_v2 THEN 4 ELSE 1
<1>1. hd.flags = 0 /\ hd.header_v2 \in BOOLEAN
  BY DEF Made, IsV2
<1>2. PICK mid : mid = PowMidstate(hd)
  OBVIOUS
<1>3. CASE hd.header_v2
  <2>1. mid.v2 = TRUE /\ mid.flags = 0 /\ mid.stage3 = Stage3(H2(hd), hd.extranonce)
    BY <1>1, <1>2, <1>3 DEF PowMidstate
  <2>2. h = <<"blake2b", <<Blanked(mid.prev_hidden), p.nonce, p.nonce2, p.time_offset, p.nonce3,
                           mid.stage3>>, mid.xor_mask>>
    BY <1>2, <2>1, LayoutZero
  <2>3. PICK one, a, mask, mm, e : /\ one = H1(hd) /\ a = Blanked(mid.prev_hidden) /\ mask = mid.xor_mask
                                   /\ mm = hd.mm_rhs /\ e = hd.extranonce
    OBVIOUS
  <2>4. mid.stage3 = <<"stage3", <<"merge_mining", one, mm>>, e>>
    BY <2>1, <2>3 DEF Stage3, H2
  <2>5. h = <<"blake2b", <<a, p.nonce, p.nonce2, p.time_offset, p.nonce3,
                           <<"stage3", <<"merge_mining", one, mm>>, e>>>>, mask>>
    BY <2>2, <2>3, <2>4
  <2>6. NonceOf(h) = p.nonce /\ h[2][3] = p.nonce2 /\ TimeOf(h) = one[7]
    BY <2>5, HashSays
  <2>7. NonceWords(mid) = 4
    BY <2>1 DEF NonceWords
  <2> QED  BY <1>2, <1>3, <2>3, <2>6, <2>7, HeaderTime
<1>4. CASE ~hd.header_v2
  <2>1. mid = [v2 |-> FALSE, header |-> V1Bytes(hd)]
    BY <1>2, <1>4 DEF PowMidstate
  <2>2. mid.v2 = FALSE /\ mid.header = V1Bytes(hd)
    BY <2>1
  <2>3. h = <<"sha256d", mid.header, p.nonce>>
    BY <1>2, <2>2 DEF MidHash
  <2>4. h[1] = "sha256d" /\ h[2] = mid.header /\ h[3] = p.nonce
    BY <2>3
  <2>5. mid.header[4] = hd.time_on_wire
    BY <2>2 DEF V1Bytes
  <2>6. NonceWords(mid) = 1
    BY <2>2 DEF NonceWords
  <2> QED  BY <1>2, <1>4, <2>4, <2>5, <2>6 DEF TimeOf
<1> QED  BY <1>1, <1>3, <1>4

-----------------------------------------------------------------------------
(* No input twice: where the threads stand, and what was hashed so far.    *)

\* The bounds of the runs fit the space: two words, for a thread and for a round.
SpacesSuffice == MaxBatches <= Word * (Word \div Batch) /\ Attempts <= Word * Word

\* The n-th batch of a thread begins here.
Stands(p, n) ==
  \E q \in 0..Word-1 : \E b \in 0..(Word \div Batch)-1 :
    p = Place(q, Batch * b) /\ n = q * (Word \div Batch) + b

\* A hash is of a place the thread has passed.
Before(h, p) ==
  \/ OffsetOf(h) < p.time_offset
  \/ OffsetOf(h) = p.time_offset /\ NonceOf(h) < p.nonce

Searching(c, t) == ~solved[c] /\ done[c][t] < MaxBatches

\* A thread that has something to do stands where its batches so far have led.
ThreadsInv ==
  /\ DOMAIN at = Conns /\ DOMAIN done = Conns /\ DOMAIN solved = Conns
  /\ \A c \in Conns :
       /\ solved[c] \in BOOLEAN /\ DOMAIN at[c] = Tickets[c] /\ DOMAIN done[c] = Tickets[c]
       /\ \A t \in Tickets[c] : /\ done[c][t] \in Nat
                                /\ Searching(c, t) => Stands(at[c][t], done[c][t])

\* What a miner hashed is of an earlier job of its, or behind the thread that did.
SeenByMiner(h) ==
  /\ ConnOf(h) \in Conns /\ TicketOf(h) \in Tickets[ConnOf(h)]
  /\ TimeOf(h) \in Nat /\ NonceOf(h) \in Nat /\ OffsetOf(h) \in Nat
  /\ TimeOf(h) < work[ConnOf(h)].job_id
  /\ TimeOf(h) + 1 = work[ConnOf(h)].job_id /\ Searching(ConnOf(h), TicketOf(h))
       => Before(h, at[ConnOf(h)][TicketOf(h)])

\* What regtest-miner hashed is of an earlier round than the one it is about to mine.
SeenByRound(h) ==
  /\ TimeOf(h) \in Nat /\ TimeOf(h) < rounds
  /\ round.state = "built" => TimeOf(h) < rounds - 1

HistoryInv ==
  /\ rounds = 0 \/ jobs = <<>>
  /\ IsFiniteSet(hashed) /\ Cardinality(hashed) = count
  /\ \A h \in hashed : IF rounds = 0 THEN SeenByMiner(h) ELSE SeenByRound(h)

\* A batch lies within the word it begins in.
LEMMA BatchFits ==
  ASSUME NEW p, NEW n, Stands(p, n)
  PROVE  \E q \in 0..Word-1 : \E k \in Nat : p = Place(q, k) /\ k + Batch <= Word
<1> DEFINE M == Word \div Batch
<1>1. M \in Nat \ {0} /\ Batch * M = Word /\ Batch \in Nat \ {0} /\ Word \in Nat \ {0}
  BY BatchesFillTheWord
<1>2. PICK q \in 0..Word-1, b \in 0..M-1 : p = Place(q, Batch * b)
  BY DEF Stands
<1> HIDE DEF M
<1>3. Batch * b \in Nat /\ Batch * b + Batch <= Word
  <2>1. b + 1 <= M /\ b \in Nat
    BY <1>1
  <2>2. Batch * (b + 1) <= Batch * M
    BY <1>1, <2>1
  <2>3. Batch * (b + 1) = Batch * b + Batch /\ Batch * b \in Nat
    BY <1>1, <2>1
  <2>4. PICK x \in Nat : x = Batch * b
    BY <2>3
  <2>5. PICK y \in Int : y = Batch * (b + 1)
    BY <1>1, <2>1
  <2>6. y <= Word /\ y = x + Batch
    BY <1>1, <2>2, <2>3, <2>4, <2>5
  <2>7. x + Batch <= Word
    BY <2>6
  <2> QED  BY <2>4, <2>7
<1> QED  BY <1>2, <1>3

\* From one batch to the next a thread only goes on, until the space is used up.
LEMMA NextStands ==
  ASSUME SpacesSuffice, NEW n \in Nat, n + 1 < MaxBatches, NEW p, Stands(p, n),
         NEW h, OffsetOf(h) \in Nat, NonceOf(h) \in Nat
  PROVE  /\ Stands(NextBatch(p), n + 1)
         /\ Before(h, p) => Before(h, NextBatch(p))
         /\ OffsetOf(h) = p.time_offset /\ NonceOf(h) < p.nonce + Batch => Before(h, NextBatch(p))
<1> DEFINE M == Word \div Batch
<1>1. M \in Nat \ {0} /\ Batch * M = Word /\ Batch \in Nat \ {0} /\ Word \in Nat \ {0}
  BY BatchesFillTheWord
<1>2. MaxBatches <= Word * M /\ MaxBatches \in Nat
  BY BoundAssumption DEF SpacesSuffice
<1>a. PICK q \in 0..Word-1 : \E b \in 0..M-1 : p = Place(q, Batch * b) /\ n = q * M + b
  BY DEF Stands
<1>3. PICK b \in 0..M-1 : p = Place(q, Batch * b) /\ n = q * M + b
  BY <1>a
<1>s. ASSUME NEW r \in 0..Word-1, NEW d \in 0..M-1, NextBatch(p) = Place(r, Batch * d), n + 1 = r * M + d
      PROVE  Stands(NextBatch(p), n + 1)
  BY <1>s DEF Stands
<1> HIDE DEF M
<1>4. PICK k \in Nat : k = Batch * b
  BY <1>1
<1>5. PICK x \in Nat : x = q * M
  BY <1>1
<1>6. p.nonce = k /\ p.time_offset = q /\ p = Place(q, k) /\ n = x + b
  BY <1>3, <1>4, <1>5 DEF Place
<1>7. Batch * (b + 1) = k + Batch
  BY <1>1, <1>4
<1>8. CASE b + 1 < M
  <2>1. k + Batch < Word
    <3>1. Batch * (b + 1) < Batch * M
      BY <1>1, <1>8
    <3> QED  BY <1>1, <1>7, <3>1
  <2>2. NextBatch(p) = Place(q, k + Batch)
    BY <1>6, <2>1 DEF NextBatch, Place
  <2>3. Stands(NextBatch(p), n + 1)
    <3>1. n + 1 = x + (b + 1) /\ b + 1 \in 0..M-1
      BY <1>1, <1>6, <1>8
    <3> QED  BY <1>5, <1>7, <1>s, <2>2, <3>1
  <2>4. NextBatch(p).nonce = k + Batch /\ NextBatch(p).time_offset = q
    BY <2>2 DEF Place
  <2> QED  BY <1>1, <1>6, <2>3, <2>4 DEF Before
<1>9. CASE b + 1 = M
  <2>1. k + Batch = Word
    BY <1>1, <1>7, <1>9
  <2>2. (q + 1) * M = x + M
    BY <1>1, <1>5
  <2>3. q + 1 < Word
    <3>1. ASSUME q + 1 = Word
          PROVE  FALSE
      <4>1. PICK y \in Int : y = Word * M
        BY <1>1
      <4>2. y = x + M
        BY <2>2, <3>1, <4>1
      <4>3. n + 1 = x + M
        BY <1>1, <1>6, <1>9
      <4> QED  BY <1>2, <4>1, <4>2, <4>3
    <3> QED  BY <1>1, <3>1
  <2>4. NextBatch(p) = Place(q + 1, 0)
    <3>1. (q + 1) % Word = q + 1
      BY <1>1, <2>3
    <3>2. NextBatch(p) = [p EXCEPT !.nonce = 0, !.time_offset = (q + 1) % Word]
      BY <1>1, <1>6, <2>1 DEF NextBatch
    <3>3. PICK r : r = q + 1
      OBVIOUS
    <3>4. NextBatch(p) = [Place(q, k) EXCEPT !.nonce = 0, !.time_offset = r]
      BY <1>6, <3>1, <3>2, <3>3
    <3>5. NextBatch(p) = Place(r, 0)
      BY <3>4 DEF Place
    <3> QED  BY <3>3, <3>5
  <2>5. Stands(NextBatch(p), n + 1)
    <3>1. n + 1 = (q + 1) * M + 0
      <4>1. n + 1 = x + M
        BY <1>1, <1>6, <1>9
      <4>2. PICK y \in Int : y = (q + 1) * M
        BY <1>1
      <4>3. n + 1 = y + 0
        BY <2>2, <4>1, <4>2
      <4> QED  BY <4>2, <4>3
    <3>2. Batch * 0 = 0 /\ 0 \in 0..M-1 /\ q + 1 \in 0..Word-1
      BY <1>1, <2>3
    <3> QED  BY <1>s, <2>4, <3>1, <3>2
  <2>6. NextBatch(p).nonce = 0 /\ NextBatch(p).time_offset = q + 1
    BY <2>4 DEF Place
  <2> QED  BY <1>1, <1>6, <2>5, <2>6 DEF Before
<1> QED  BY <1>1, <1>8, <1>9

\* What one batch adds: hashes of the newest job the miner read, in its name and
\* the thread's, of consecutive nonces from where the thread stands.
LEMMA BatchHashes ==
  ASSUME IInv, ThreadsInv, ~MinDifficulty, NEW c \in Conns, NEW t \in Tickets[c], MinerBatch(c, t)
  PROVE  \E f : \E n \in Nat :
           /\ hashed' = hashed \cup {f[i] : i \in 0..n-1} /\ count' = count + n
           /\ \A i \in 0..n-1 :
                /\ ConnOf(f[i]) = c /\ TicketOf(f[i]) = t /\ i < Batch
                /\ TimeOf(f[i]) \in Nat /\ TimeOf(f[i]) + 1 = work[c].job_id
                /\ OffsetOf(f[i]) \in Nat /\ OffsetOf(f[i]) = at[c][t].time_offset
                /\ at[c][t].nonce \in Nat /\ NonceOf(f[i]) = at[c][t].nonce + i
<1> DEFINE e2 == EncodeExtranonce2(t, sub[c].extranonce2_size)
           mid == JobMidstate(work[c], sub[c].extranonce1, e2)
           r  == Search(mid, at[c][t], Batch)
<1>1. /\ work[c] # NoWork /\ ~solved[c] /\ done[c][t] < MaxBatches
      /\ hashed' = hashed \cup r.inputs /\ count' = count + r.hashes
  BY DEF MinerBatch
<1>2. sub[c].extranonce1 = c /\ e2 = t
  <2>1. sub[c] = Assigned(c)
    BY <1>1 DEF IInv, WorkInv
  <2>2. sub[c].extranonce2_size = 8
    BY <2>1 DEF Assigned, On, Extranonce2Size
  <2> QED  BY <2>1, <2>2 DEF Assigned, On, EncodeExtranonce2
<1>3. PICK w \in 1..Len(jobs) : work[c] = jobs[w].job
  BY <1>1 DEF IInv, WorkInv
<1>4. PICK j : j = jobs[w]
  OBVIOUS
<1>5. MadeJob(w, j) /\ j.header.time_on_wire = w - 1 /\ w \in Nat \ {0}
  <2>1. Len(jobs) \in Nat
    BY DEF IInv, TypeInv
  <2> QED  BY <1>4, <2>1 DEF IInv, JobsInv
<1>6. work[c].job_id = w
  <2>1. \E h, d, b, k : j.job = [job_id |-> w, prev_hidden |-> h, consensus_digest |-> d,
                                 flags |-> 0, bits |-> b, clean_jobs |-> k]
    BY <1>5 DEF MadeJob
  <2> QED  BY <1>3, <1>4, <2>1
<1>7. mid = JobMidstate(j.job, c, t)
  <2> HIDE DEF e2
  <2> QED  BY <1>2, <1>3, <1>4
<1> HIDE DEF mid
<1>8. ASSUME NEW p, NEW h, h = MidHash(mid, p)
      PROVE  /\ NonceOf(h) = p.nonce /\ OffsetOf(h) = p.time_offset
             /\ ConnOf(h) = c /\ TicketOf(h) = t /\ TimeOf(h) = w - 1
  BY <1>5, <1>7, <1>8, JobHashSays
<1>9. NonceWords(mid) = 4
  <2>1. ASSUME NEW h, h = MidHash(mid, Origin)
        PROVE  NonceWords(mid) = 4
    BY <1>5, <1>7, <2>1, JobHashSays
  <2> QED  BY <2>1
<1>10. PICK q \in 0..Word-1, k \in Nat : at[c][t] = Place(q, k) /\ k + Batch <= Word
  <2>1. Stands(at[c][t], done[c][t])
    BY <1>1 DEF ThreadsInv, Searching
  <2> QED  BY <2>1, BatchFits
<1>11. Batch \in Nat \ {0} /\ Word \in Nat \ {0}
  BY BatchesFillTheWord
<1> DEFINE point == Sweep(at[c][t], 4, Batch)
<1>12. Budget(NonceWords(mid), Batch) = Batch
  BY <1>9 DEF Budget
<1>13. /\ r.hashes \in 0..Batch
       /\ r.inputs = {MidHash(mid, point[i]) : i \in 0..r.hashes-1}
  <2>1. Batch \in Nat
    BY <1>11
  <2>2. /\ r.found \in BOOLEAN
        /\ r.found => \E n \in 0..Batch-1 : r.hashes = n + 1
        /\ ~r.found => r.hashes = Batch
        /\ r.inputs = {MidHash(mid, point[i]) : i \in 0..r.hashes-1}
    BY <1>9, <1>12, <2>1, SearchFinds
  <2> HIDE DEF r, point
  <2> QED  BY <1>11, <2>2
<1>14. PICK n \in 0..Batch : n = r.hashes
  BY <1>13
<1> HIDE DEF r
<1> DEFINE f == [i \in 0..n-1 |-> MidHash(mid, point[i])]
<1>15. ASSUME NEW i \in 0..n-1
       PROVE  f[i] = MidHash(mid, Place(q, k + i))
  <2>1. i \in 0..Batch-1 /\ Batch \in Nat
    BY <1>11
  <2>2. point[i] = Place(q, k + i)
    BY <1>10, <2>1, BatchSweep
  <2> HIDE DEF point
  <2> QED  BY <2>2
<1>16. {f[i] : i \in 0..n-1} = {MidHash(mid, point[i]) : i \in 0..n-1}
  <2> HIDE DEF point
  <2> QED  OBVIOUS
<1> HIDE DEF f, point
<1>17. hashed' = hashed \cup {f[i] : i \in 0..n-1} /\ count' = count + n
  BY <1>1, <1>13, <1>14, <1>16
<1>18. ASSUME NEW i \in 0..n-1
       PROVE  /\ ConnOf(f[i]) = c /\ TicketOf(f[i]) = t /\ i < Batch
              /\ TimeOf(f[i]) \in Nat /\ TimeOf(f[i]) + 1 = work[c].job_id
              /\ OffsetOf(f[i]) \in Nat /\ OffsetOf(f[i]) = at[c][t].time_offset
              /\ at[c][t].nonce \in Nat /\ NonceOf(f[i]) = at[c][t].nonce + i
  <2>1. PICK m : m = k + i
    OBVIOUS
  <2>2. f[i] = MidHash(mid, Place(q, m))
    BY <1>15, <2>1
  <2>3. /\ NonceOf(f[i]) = Place(q, m).nonce /\ OffsetOf(f[i]) = Place(q, m).time_offset
        /\ ConnOf(f[i]) = c /\ TicketOf(f[i]) = t /\ TimeOf(f[i]) = w - 1
    BY <1>8, <2>2
  <2>4. /\ Place(q, m).nonce = m /\ Place(q, m).time_offset = q
        /\ at[c][t].nonce = k /\ at[c][t].time_offset = q
    BY <1>10 DEF Place
  <2>5. w - 1 \in Nat /\ w - 1 + 1 = w /\ q \in Nat /\ i < Batch
    BY <1>5, <1>11
  <2> QED  BY <1>6, <2>1, <2>3, <2>4, <2>5
<1>19. n \in Nat
  BY <1>11
<1> QED  BY <1>17, <1>18, <1>19

\* What a round adds: hashes of its own header, no two of the same nonces.
LEMMA RoundHashes ==
  ASSUME IInv, RoundInv, SpacesSuffice, RoundMines
  PROVE  \E f : \E n \in Nat :
           /\ hashed' = hashed \cup {f[i] : i \in 0..n-1} /\ count' = count + n
           /\ \A i \in 0..n-1 : TimeOf(f[i]) = rounds - 1
           /\ \A i, j \in 0..n-1 : f[i] = f[j] => i = j
           /\ rounds \in Nat \ {0}
<1> DEFINE mid == PowMidstate(round.header)
           start == [Origin EXCEPT !.time_offset = rounds % Word]
           r == Search(mid, start, Attempts)
<1>1. round.state = "built" /\ hashed' = hashed \cup r.inputs /\ count' = count + r.hashes
  BY DEF RoundMines
<1>a. PICK b, hd, headline : \E n \in 1..MaxHeight+1 :
        /\ round = [state |-> "built", block |-> b, header |-> hd]
        /\ Made(b, hd, n, headline)
        /\ rounds \in Nat \ {0} /\ hd.time_on_wire = rounds - 1
  <2>1. round # Idle /\ round # Ended
    BY <1>1 DEF Idle, Ended
  <2> QED  BY <2>1 DEF RoundInv
<1>2. PICK height1 \in 1..MaxHeight+1 :
        /\ round = [state |-> "built", block |-> b, header |-> hd]
        /\ Made(b, hd, height1, headline)
        /\ rounds \in Nat \ {0} /\ hd.time_on_wire = rounds - 1
  BY <1>a
<1>3. mid = PowMidstate(hd) /\ hd.header_v2 \in BOOLEAN
  BY <1>2 DEF Made, IsV2
<1>4. start.nonce = 0 /\ start.nonce2 = 0
  BY DEF Origin
<1> HIDE DEF mid, start
<1>5. ASSUME NEW p, NEW h, h = MidHash(mid, p)
      PROVE  /\ TimeOf(h) = rounds - 1
             /\ IF hd.header_v2 THEN NonceOf(h) = p.nonce /\ h[2][3] = p.nonce2 ELSE h[3] = p.nonce
             /\ NonceWords(mid) = IF hd.header_v2 THEN 4 ELSE 1
  BY <1>2, <1>3, <1>5, HeaderHashSays
<1>6. NonceWords(mid) = IF hd.header_v2 THEN 4 ELSE 1
  <2>1. ASSUME NEW h, h = MidHash(mid, Origin)
        PROVE  NonceWords(mid) = IF hd.header_v2 THEN 4 ELSE 1
    BY <1>5, <2>1
  <2> QED  BY <2>1
<1>7. PICK words \in {1, 4} : words = NonceWords(mid) /\ words = IF hd.header_v2 THEN 4 ELSE 1
  BY <1>6
<1>8. Attempts \in Nat /\ Word \in Nat \ {0} /\ Attempts <= Word * Word
  BY BoundAssumption, WordAssumption DEF SpacesSuffice
<1>9. PICK budget \in Nat : budget = Budget(words, Attempts)
  BY <1>8 DEF Budget
<1>10. budget <= Word * Word /\ (words = 1 => budget <= Word)
  BY <1>8, <1>9 DEF Budget
<1> DEFINE point == Sweep(start, words, budget)
<1>11. /\ r.hashes \in 0..budget
       /\ r.inputs = {MidHash(mid, point[i]) : i \in 0..r.hashes-1}
  <2>1. /\ r.found \in BOOLEAN
        /\ r.found => \E n \in 0..budget-1 : r.hashes = n + 1
        /\ ~r.found => r.hashes = budget
        /\ r.inputs = {MidHash(mid, point[i]) : i \in 0..r.hashes-1}
    <3>1. PICK space : space = NonceWords(mid)
      OBVIOUS
    <3>2. PICK most : most = Budget(space, Attempts)
      OBVIOUS
    <3>3. PICK found : found = Search(mid, start, Attempts)
      OBVIOUS
    <3>4. PICK p : p = Sweep(start, space, most)
      OBVIOUS
    <3>5. /\ found.found \in BOOLEAN
          /\ found.found => \E n \in 0..most-1 : found.hashes = n + 1
          /\ ~found.found => found.hashes = most
          /\ found.inputs = {MidHash(mid, p[i]) : i \in 0..found.hashes-1}
      BY <1>8, <3>1, <3>2, <3>3, <3>4, SearchFinds
    <3>6. most = budget /\ p = point /\ found = r
      BY <1>7, <1>9, <3>1, <3>2, <3>3, <3>4
    <3> HIDE DEF r, point
    <3> QED  BY <3>5, <3>6
  <2> HIDE DEF r, point
  <2> QED  BY <2>1
<1>12. PICK n \in 0..budget : n = r.hashes
  BY <1>11
<1> HIDE DEF r
<1> DEFINE f == [i \in 0..n-1 |-> MidHash(mid, point[i])]
<1>13. {f[i] : i \in 0..n-1} = {MidHash(mid, point[i]) : i \in 0..n-1}
  <2> HIDE DEF point
  <2> QED  OBVIOUS
<1>14. ASSUME NEW i \in 0..n-1
       PROVE  /\ Counts(point[i], words, i) /\ f[i] = MidHash(mid, point[i])
              /\ TimeOf(f[i]) = rounds - 1
              /\ IF hd.header_v2 THEN NonceOf(f[i]) = point[i].nonce /\ f[i][2][3] = point[i].nonce2
                 ELSE f[i][3] = point[i].nonce
  <2>1. i \in 0..budget-1
    OBVIOUS
  <2>2. Counts(point[i], words, i)
    BY <1>4, <1>10, <2>1, SweepCounts
  <2> HIDE DEF point
  <2>3. f[i] = MidHash(mid, point[i])
    OBVIOUS
  <2> HIDE DEF f
  <2> QED  BY <1>5, <2>2, <2>3
<1> HIDE DEF f, point
<1>15. ASSUME NEW i \in 0..n-1, NEW j \in 0..n-1, f[i] = f[j]
       PROVE  i = j
  <2>1. Counts(point[i], words, i) /\ Counts(point[j], words, j)
    BY <1>14
  <2>2. point[i].nonce = point[j].nonce /\ point[i].nonce2 = point[j].nonce2
    <3>1. CASE hd.header_v2
      BY <1>14, <1>15, <3>1
    <3>2. CASE ~hd.header_v2
      <4>1. point[i].nonce = point[j].nonce
        BY <1>14, <1>15, <3>2
      <4>2. point[i].nonce2 = 0 /\ point[j].nonce2 = 0
        BY <1>7, <2>1, <3>2 DEF Counts
      <4> QED  BY <4>1, <4>2
    <3> QED  BY <3>1, <3>2
  <2> QED  BY <2>1, <2>2 DEF Counts
<1>16. /\ hashed' = hashed \cup {f[i] : i \in 0..n-1} /\ count' = count + n /\ n \in Nat
  BY <1>1, <1>11, <1>12, <1>13
<1> QED  BY <1>2, <1>14, <1>15, <1>16

\* A thread begins at the origin.
LEMMA OriginStands == Stands(Origin, 0)
<1>1. Origin = Place(0, Batch * 0)
  <2>1. Batch * 0 = 0
    BY BatchesFillTheWord
  <2> QED  BY <2>1 DEF Origin, Place
<1>2. 0 \in 0..Word-1 /\ 0 \in 0..(Word \div Batch)-1 /\ 0 = 0 * (Word \div Batch) + 0
  <2>1. PICK m \in Nat \ {0} : m = Word \div Batch
    BY BatchesFillTheWord
  <2>2. 0 \in 0..m-1 /\ 0 = 0 * m + 0
    OBVIOUS
  <2> QED  BY <2>1, <2>2, BatchesFillTheWord
<1> QED  BY <1>1, <1>2 DEF Stands

\* At first nothing was hashed.
LEMMA HistoryInit == Init => ThreadsInv /\ HistoryInv
<1> SUFFICES ASSUME Init PROVE ThreadsInv /\ HistoryInv
  OBVIOUS
<1>1. ThreadsInv
  BY OriginStands DEF Init, ThreadsInv
<1>2. IsFiniteSet(hashed) /\ Cardinality(hashed) = count
  BY FS_EmptySet DEF Init
<1>3. HistoryInv
  BY <1>2 DEF Init, HistoryInv
<1> QED  BY <1>1, <1>3

\* What was hashed stays behind the threads that stay, whatever else happens.
LEMMA HistoryStays ==
  ASSUME ThreadsInv, HistoryInv, UNCHANGED <<work, at, done, solved, round, rounds, hashed, count>>,
         rounds = 0 \/ jobs' = <<>>
  PROVE  ThreadsInv' /\ HistoryInv'
<1>1. ThreadsInv'
  BY DEF ThreadsInv, Searching, Stands
<1>2. ASSUME NEW h \in hashed
      PROVE  IF rounds = 0 THEN SeenByMiner(h)' ELSE SeenByRound(h)'
  <2>1. IF rounds = 0 THEN SeenByMiner(h) ELSE SeenByRound(h)
    BY DEF HistoryInv
  <2>2. (SeenByMiner(h) => SeenByMiner(h)') /\ (SeenByRound(h) => SeenByRound(h)')
    BY DEF SeenByMiner, SeenByRound, Searching, Before
  <2> QED  BY <2>1, <2>2
<1> QED  BY <1>1, <1>2 DEF HistoryInv

\* A miner reads a job newer than what it hashed, and its threads start over.
LEMMA MinerReadsHistory ==
  ASSUME IInv, ThreadsInv, HistoryInv, NEW c \in Conns, MinerReads(c)
  PROVE  ThreadsInv' /\ HistoryInv'
<1>1. /\ at' = [at EXCEPT ![c] = [t \in Tickets[c] |-> Origin]]
      /\ done' = [done EXCEPT ![c] = [t \in Tickets[c] |-> 0]]
      /\ solved' = [solved EXCEPT ![c] = FALSE]
      /\ UNCHANGED <<jobs, round, rounds, hashed, count>>
      /\ work[c].job_id # Len(jobs) /\ jobs # <<>>
  BY DEF MinerReads
<1>2. Len(jobs) \in Nat \ {0} /\ work' = [work EXCEPT ![c] = jobs[Len(jobs)].job]
  BY ReadsNewest
<1>3. ASSUME NEW i \in 1..Len(jobs)
      PROVE  jobs[i].job.job_id = i
  <2>1. MadeJob(i, jobs[i])
    BY DEF IInv, JobsInv
  <2>2. \E h, d, b, k : jobs[i].job = [job_id |-> i, prev_hidden |-> h, consensus_digest |-> d,
                                       flags |-> 0, bits |-> b, clean_jobs |-> k]
    BY <2>1 DEF MadeJob
  <2> QED  BY <2>2
<1>4. work[c].job_id \in 0..Len(jobs)-1 /\ work'[c].job_id = Len(jobs)
  <2>1. work'[c].job_id = Len(jobs)
    <3>1. work'[c] = jobs[Len(jobs)].job
      BY <1>2 DEF IInv, TypeInv
    <3> QED  BY <1>2, <1>3, <3>1
  <2>2. work[c] = NoWork \/ \E i \in 1..Len(jobs) : work[c] = jobs[i].job
    BY DEF IInv, WorkInv
  <2>3. NoWork.job_id = 0
    BY DEF NoWork
  <2> QED  BY <1>1, <1>2, <1>3, <2>1, <2>2, <2>3
<1>5. ThreadsInv'
  <2>1. /\ DOMAIN at' = Conns /\ DOMAIN done' = Conns /\ DOMAIN solved' = Conns
        /\ \A d \in Conns \ {c} : at'[d] = at[d] /\ done'[d] = done[d] /\ solved'[d] = solved[d]
        /\ at'[c] = [t \in Tickets[c] |-> Origin] /\ done'[c] = [t \in Tickets[c] |-> 0]
        /\ solved'[c] = FALSE
    BY <1>1 DEF ThreadsInv
  <2>2. ASSUME NEW d \in Conns
        PROVE  /\ solved'[d] \in BOOLEAN /\ DOMAIN at'[d] = Tickets[d] /\ DOMAIN done'[d] = Tickets[d]
               /\ \A t \in Tickets[d] : /\ done'[d][t] \in Nat
                                        /\ Searching(d, t)' => Stands(at'[d][t], done'[d][t])
    <3>1. CASE d = c
      <4>1. \A t \in Tickets[c] : at'[c][t] = Origin /\ done'[c][t] = 0
        BY <2>1
      <4>2. DOMAIN at'[c] = Tickets[c] /\ DOMAIN done'[c] = Tickets[c]
        BY <2>1
      <4>3. \A t \in Tickets[c] : done'[c][t] \in Nat /\ Stands(at'[c][t], done'[c][t])
        BY <4>1, OriginStands
      <4> HIDE DEF Searching
      <4> QED  BY <2>1, <3>1, <4>2, <4>3
    <3>2. CASE d # c
      BY <2>1, <3>2 DEF ThreadsInv, Searching
    <3> QED  BY <3>1, <3>2
  <2>3. \A d \in Conns : \A t \in Tickets[d] :
          Stands(at'[d][t], done'[d][t]) => Stands(at[d][t], done[d][t])'
    BY DEF Stands
  <2> QED  BY <2>1, <2>2, <2>3 DEF ThreadsInv
<1>6. ASSUME NEW h, SeenByMiner(h)
      PROVE  SeenByMiner(h)'
  <2>1. CASE ConnOf(h) = c
    <3>1. TimeOf(h) \in Nat /\ TimeOf(h) < work[c].job_id
      BY <1>6, <2>1 DEF SeenByMiner
    <3>2. TimeOf(h) < work'[c].job_id /\ TimeOf(h) + 1 # work'[c].job_id
      BY <1>2, <1>4, <3>1
    <3> QED  BY <1>6, <2>1, <3>2 DEF SeenByMiner
  <2>2. CASE ConnOf(h) # c
    <3>1. ConnOf(h) \in Conns
      BY <1>6 DEF SeenByMiner
    <3>2. /\ at'[ConnOf(h)] = at[ConnOf(h)] /\ done'[ConnOf(h)] = done[ConnOf(h)]
          /\ solved'[ConnOf(h)] = solved[ConnOf(h)] /\ work'[ConnOf(h)] = work[ConnOf(h)]
      BY <1>1, <1>2, <2>2, <3>1 DEF ThreadsInv, IInv, TypeInv
    <3> QED  BY <1>6, <3>2 DEF SeenByMiner, Searching, Before
  <2> QED  BY <2>1, <2>2
<1>7. rounds = 0
  BY <1>1 DEF HistoryInv
<1>8. HistoryInv'
  BY <1>1, <1>6, <1>7 DEF HistoryInv
<1> QED  BY <1>5, <1>8

\* A thread hashes a batch it has not hashed, and goes on to the next.
LEMMA MinerBatchHistory ==
  ASSUME IInv, ThreadsInv, HistoryInv, SpacesSuffice, ~MinDifficulty,
         NEW c \in Conns, NEW t \in Tickets[c], MinerBatch(c, t)
  PROVE  ThreadsInv' /\ HistoryInv'
<1>1. /\ work[c] # NoWork /\ Searching(c, t) /\ done' = [done EXCEPT ![c][t] = @ + 1]
      /\ UNCHANGED <<jobs, work, round, rounds>>
  BY DEF MinerBatch, Searching
<1>2. PICK found \in BOOLEAN :
        /\ solved' = [solved EXCEPT ![c] = found]
        /\ at' = [at EXCEPT ![c][t] = IF found THEN @ ELSE NextBatch(@)]
  <2>1. PICK r : /\ r = Search(JobMidstate(work[c], sub[c].extranonce1,
                                      EncodeExtranonce2(t, sub[c].extranonce2_size)), at[c][t], Batch)
                 /\ solved' = [solved EXCEPT ![c] = r.found]
                 /\ at' = [at EXCEPT ![c][t] = IF r.found THEN @ ELSE NextBatch(@)]
    BY DEF MinerBatch
  <2>2. r.found \in BOOLEAN
    BY <2>1 DEF Search
  <2> QED  BY <2>1, <2>2
<1>0. PICK f : \E n \in Nat :
        /\ hashed' = hashed \cup {f[i] : i \in 0..n-1} /\ count' = count + n
        /\ \A i \in 0..n-1 :
             /\ ConnOf(f[i]) = c /\ TicketOf(f[i]) = t /\ i < Batch
             /\ TimeOf(f[i]) \in Nat /\ TimeOf(f[i]) + 1 = work[c].job_id
             /\ OffsetOf(f[i]) \in Nat /\ OffsetOf(f[i]) = at[c][t].time_offset
             /\ at[c][t].nonce \in Nat /\ NonceOf(f[i]) = at[c][t].nonce + i
  BY BatchHashes
<1>3. PICK n \in Nat :
        /\ hashed' = hashed \cup {f[i] : i \in 0..n-1} /\ count' = count + n
        /\ \A i \in 0..n-1 :
             /\ ConnOf(f[i]) = c /\ TicketOf(f[i]) = t /\ i < Batch
             /\ TimeOf(f[i]) \in Nat /\ TimeOf(f[i]) + 1 = work[c].job_id
             /\ OffsetOf(f[i]) \in Nat /\ OffsetOf(f[i]) = at[c][t].time_offset
             /\ at[c][t].nonce \in Nat /\ NonceOf(f[i]) = at[c][t].nonce + i
  BY <1>0
<1>4. /\ DOMAIN at' = Conns /\ DOMAIN done' = Conns /\ DOMAIN solved' = Conns
      /\ \A d \in Conns \ {c} : at'[d] = at[d] /\ done'[d] = done[d] /\ solved'[d] = solved[d]
      /\ DOMAIN at'[c] = Tickets[c] /\ DOMAIN done'[c] = Tickets[c] /\ solved'[c] = found
      /\ \A u \in Tickets[c] \ {t} : at'[c][u] = at[c][u] /\ done'[c][u] = done[c][u]
      /\ at'[c][t] = (IF found THEN at[c][t] ELSE NextBatch(at[c][t]))
      /\ done'[c][t] = done[c][t] + 1
  BY <1>1, <1>2 DEF ThreadsInv
<1>5. ~solved[c] /\ done[c][t] \in Nat /\ Stands(at[c][t], done[c][t])
  BY <1>1 DEF ThreadsInv, Searching
<1>6. ASSUME NEW h, OffsetOf(h) \in Nat, NonceOf(h) \in Nat, Searching(c, t)'
      PROVE  /\ Stands(at'[c][t], done'[c][t])
             /\ Before(h, at[c][t]) => Before(h, at'[c][t])
             /\ OffsetOf(h) = at[c][t].time_offset /\ NonceOf(h) < at[c][t].nonce + Batch
                  => Before(h, at'[c][t])
  <2>1. ~found /\ done[c][t] + 1 < MaxBatches
    BY <1>4, <1>6 DEF Searching
  <2> QED  BY <1>4, <1>5, <1>6, <2>1, NextStands
<1>7. ThreadsInv'
  <2>1. ASSUME NEW d \in Conns, NEW u \in Tickets[d]
        PROVE  done'[d][u] \in Nat /\ (Searching(d, u)' => Stands(at'[d][u], done'[d][u]))
    <3>1. CASE d = c /\ u = t
      <4>1. ASSUME Searching(c, t)'
            PROVE  Stands(at'[c][t], done'[c][t])
        <5>1. PICK h : OffsetOf(h) \in Nat /\ NonceOf(h) \in Nat
          <6> DEFINE h == <<0, <<0, 0, 0, 0>>>>
          <6>1. OffsetOf(h) = 0 /\ NonceOf(h) = 0
            BY DEF OffsetOf, NonceOf
          <6> QED  BY <6>1
        <5> QED  BY <1>6, <4>1, <5>1
      <4> QED  BY <1>4, <1>5, <3>1, <4>1
    <3>2. CASE d = c /\ u # t
      BY <1>4, <1>5, <3>2 DEF ThreadsInv, Searching
    <3>3. CASE d # c
      BY <1>4, <3>3 DEF ThreadsInv, Searching
    <3> QED  BY <3>1, <3>2, <3>3
  <2>2. ASSUME NEW d \in Conns
        PROVE  solved'[d] \in BOOLEAN /\ DOMAIN at'[d] = Tickets[d] /\ DOMAIN done'[d] = Tickets[d]
    <3>1. CASE d = c
      BY <1>2, <1>4, <3>1
    <3>2. CASE d # c
      BY <1>4, <3>2 DEF ThreadsInv
    <3> QED  BY <3>1, <3>2
  <2>3. \A d \in Conns : \A u \in Tickets[d] :
          Stands(at'[d][u], done'[d][u]) => Stands(at[d][u], done[d][u])'
    BY DEF Stands
  <2> QED  BY <1>4, <2>1, <2>2, <2>3 DEF ThreadsInv
<1>8. ASSUME NEW h, SeenByMiner(h)
      PROVE  SeenByMiner(h)'
  <2>1. ASSUME TimeOf(h) + 1 = work[ConnOf(h)].job_id, Searching(ConnOf(h), TicketOf(h))'
        PROVE  Before(h, at'[ConnOf(h)][TicketOf(h)])
    <3>1. ConnOf(h) \in Conns /\ TicketOf(h) \in Tickets[ConnOf(h)]
          /\ OffsetOf(h) \in Nat /\ NonceOf(h) \in Nat
      BY <1>8 DEF SeenByMiner
    <3>2. CASE ConnOf(h) = c /\ TicketOf(h) = t
      <4>1. Before(h, at[c][t])
        BY <1>1, <1>8, <2>1, <3>2 DEF SeenByMiner
      <4> QED  BY <1>6, <2>1, <3>1, <3>2, <4>1
    <3>3. CASE ConnOf(h) = c /\ TicketOf(h) # t
      <4>1. Searching(ConnOf(h), TicketOf(h))
        BY <1>4, <1>5, <2>1, <3>1, <3>3 DEF Searching
      <4>2. Before(h, at[ConnOf(h)][TicketOf(h)])
        BY <1>8, <2>1, <4>1 DEF SeenByMiner
      <4> QED  BY <1>4, <3>1, <3>3, <4>2
    <3>4. CASE ConnOf(h) # c
      <4>1. Searching(ConnOf(h), TicketOf(h))
        BY <1>4, <2>1, <3>1, <3>4 DEF Searching
      <4>2. Before(h, at[ConnOf(h)][TicketOf(h)])
        BY <1>8, <2>1, <4>1 DEF SeenByMiner
      <4> QED  BY <1>4, <3>1, <3>4, <4>2
    <3> QED  BY <3>2, <3>3, <3>4
  <2>2. Before(h, at'[ConnOf(h)][TicketOf(h)]) => Before(h, at[ConnOf(h)][TicketOf(h)])'
    BY DEF Before
  <2> QED  BY <1>1, <1>8, <2>1, <2>2 DEF SeenByMiner
<1>9. ASSUME NEW i \in 0..n-1
      PROVE  SeenByMiner(f[i])' /\ f[i] \notin hashed
  <2>1. PICK h : h = f[i]
    OBVIOUS
  <2>2. /\ ConnOf(h) = c /\ TicketOf(h) = t /\ i < Batch /\ i \in Nat
        /\ TimeOf(h) \in Nat /\ TimeOf(h) + 1 = work[c].job_id
        /\ OffsetOf(h) \in Nat /\ OffsetOf(h) = at[c][t].time_offset
        /\ at[c][t].nonce \in Nat /\ NonceOf(h) = at[c][t].nonce + i
    BY <1>3, <2>1
  <2>3. NonceOf(h) \in Nat /\ NonceOf(h) < at[c][t].nonce + Batch
    BY <2>2, BatchesFillTheWord
  <2>4. SeenByMiner(h)'
    <3>1. TimeOf(h) < work[c].job_id
      BY <2>2
    <3>2. Searching(c, t)' => Before(h, at'[c][t])
      BY <1>6, <2>2, <2>3
    <3>3. Before(h, at'[c][t]) => Before(h, at[c][t])'
      BY DEF Before
    <3> QED  BY <1>1, <2>2, <2>3, <3>1, <3>2, <3>3 DEF SeenByMiner
  <2>5. h \notin hashed
    <3>1. ASSUME h \in hashed
          PROVE  FALSE
      <4>1. SeenByMiner(h)
        <5>1. jobs # <<>>
          <6>1. PICK w \in 1..Len(jobs) : work[c] = jobs[w].job
            BY <1>1 DEF IInv, WorkInv
          <6> QED  BY <6>1
        <5> QED  BY <3>1, <5>1 DEF HistoryInv
      <4>2. Before(h, at[c][t])
        BY <1>1, <2>2, <4>1 DEF SeenByMiner
      <4> QED  BY <2>2, <4>2 DEF Before
    <3> QED  BY <3>1
  <2> QED  BY <2>1, <2>4, <2>5
<1>10. \A i, j \in 0..n-1 : f[i] = f[j] => i = j
  BY <1>3
<1>11. rounds = 0
  <2>1. jobs # <<>>
    <3>1. PICK w \in 1..Len(jobs) : work[c] = jobs[w].job
      BY <1>1 DEF IInv, WorkInv
    <3> QED  BY <3>1
  <2> QED  BY <2>1 DEF HistoryInv
<1>12. IsFiniteSet(hashed') /\ Cardinality(hashed') = count'
  <2>1. IsFiniteSet(hashed) /\ Cardinality(hashed) = count
    BY DEF HistoryInv
  <2>2. PICK new : new = {f[i] : i \in 0..n-1}
    OBVIOUS
  <2>3. \A i \in 0..n-1 : f[i] \notin hashed
    BY <1>9
  <2>4. IsFiniteSet(hashed \cup new) /\ Cardinality(hashed \cup new) = Cardinality(hashed) + n
    BY <1>10, <2>1, <2>2, <2>3, CountInputs
  <2> QED  BY <1>3, <2>1, <2>2, <2>4
<1>13. \A h \in hashed' : SeenByMiner(h)'
  BY <1>3, <1>8, <1>9, <1>11 DEF HistoryInv
<1>14. HistoryInv'
  BY <1>1, <1>11, <1>12, <1>13 DEF HistoryInv
<1> QED  BY <1>7, <1>14

\* regtest-miner begins a round.
LEMMA RoundBuildsHistory ==
  ASSUME IInv, ThreadsInv, HistoryInv, RoundBuilds
  PROVE  ThreadsInv' /\ HistoryInv'
<1>1. /\ rounds' = rounds + 1 /\ rounds \in Nat /\ jobs = <<>>
      /\ UNCHANGED <<jobs, work, at, done, solved, hashed, count>>
  BY DEF RoundBuilds, IInv, TypeInv
<1>2. ThreadsInv'
  BY <1>1 DEF ThreadsInv, Searching, Stands
<1>3. ASSUME NEW h \in hashed
      PROVE  SeenByRound(h)'
  <2>1. rounds # 0
    <3>1. ASSUME SeenByMiner(h)
          PROVE  FALSE
      <4>1. work[ConnOf(h)] = NoWork
        BY <1>1, <3>1 DEF SeenByMiner, IInv, WorkInv
      <4> QED  BY <3>1, <4>1 DEF SeenByMiner, NoWork
    <3> QED  BY <3>1 DEF HistoryInv
  <2>2. TimeOf(h) \in Nat /\ TimeOf(h) < rounds
    BY <2>1 DEF HistoryInv, SeenByRound
  <2>3. TimeOf(h) < rounds' - 1 /\ TimeOf(h) < rounds'
    BY <1>1, <2>2
  <2> QED  BY <2>2, <2>3 DEF SeenByRound
<1>4. rounds' # 0
  BY <1>1
<1>5. HistoryInv'
  BY <1>1, <1>3, <1>4 DEF HistoryInv
<1> QED  BY <1>2, <1>5

\* regtest-miner hashes a header it has not hashed.
LEMMA RoundMinesHistory ==
  ASSUME IInv, RoundInv, ThreadsInv, HistoryInv, SpacesSuffice, RoundMines
  PROVE  ThreadsInv' /\ HistoryInv'
<1>1. /\ UNCHANGED <<jobs, work, at, done, solved, rounds>> /\ round.state = "built"
      /\ \E ok : round' = AfterRound(ok)
  BY DEF RoundMines
<1>2. ThreadsInv'
  BY <1>1 DEF ThreadsInv, Searching, Stands
<1>0. PICK f : \E n \in Nat :
        /\ hashed' = hashed \cup {f[i] : i \in 0..n-1} /\ count' = count + n
        /\ \A i \in 0..n-1 : TimeOf(f[i]) = rounds - 1
        /\ \A i, j \in 0..n-1 : f[i] = f[j] => i = j
        /\ rounds \in Nat \ {0}
  BY RoundHashes
<1>3. PICK n \in Nat :
        /\ hashed' = hashed \cup {f[i] : i \in 0..n-1} /\ count' = count + n
        /\ \A i \in 0..n-1 : TimeOf(f[i]) = rounds - 1
        /\ \A i, j \in 0..n-1 : f[i] = f[j] => i = j
        /\ rounds \in Nat \ {0}
  BY <1>0
<1>4. round'.state # "built"
  BY <1>1 DEF AfterRound, Idle, Ended
<1>5. ASSUME NEW h \in hashed
      PROVE  TimeOf(h) \in Nat /\ TimeOf(h) < rounds - 1
  BY <1>1, <1>3 DEF HistoryInv, SeenByRound
<1>6. ASSUME NEW i \in 0..n-1
      PROVE  f[i] \notin hashed /\ TimeOf(f[i]) \in Nat /\ TimeOf(f[i]) < rounds
  BY <1>3, <1>5
<1>7. ASSUME NEW h \in hashed'
      PROVE  SeenByRound(h)'
  <2>1. TimeOf(h) \in Nat /\ TimeOf(h) < rounds
    BY <1>3, <1>5, <1>6
  <2> QED  BY <1>1, <1>4, <2>1 DEF SeenByRound
<1>8. IsFiniteSet(hashed') /\ Cardinality(hashed') = count'
  <2>1. IsFiniteSet(hashed) /\ Cardinality(hashed) = count
    BY DEF HistoryInv
  <2>2. PICK new : new = {f[i] : i \in 0..n-1}
    OBVIOUS
  <2>3. \A i \in 0..n-1 : f[i] \notin hashed
    BY <1>6
  <2>4. IsFiniteSet(hashed \cup new) /\ Cardinality(hashed \cup new) = Cardinality(hashed) + n
    BY <1>3, <2>1, <2>2, <2>3, CountInputs
  <2> QED  BY <1>3, <2>1, <2>2, <2>4
<1>9. HistoryInv'
  BY <1>1, <1>3, <1>7, <1>8 DEF HistoryInv
<1> QED  BY <1>2, <1>9

\* Every step keeps the threads where they belong and the history behind them.
LEMMA HistoryNext ==
  ASSUME SpacesSuffice, ~MinDifficulty, IInv, RoundInv, ThreadsInv, HistoryInv, [Next]_vars
  PROVE  ThreadsInv' /\ HistoryInv'
<1>1. CASE UNCHANGED vars
  BY <1>1, HistoryStays DEF vars, HistoryInv
<1>2. CASE ElsewhereMined
  BY <1>2, HistoryStays DEF ElsewhereMined, HistoryInv
<1>3. CASE PoolBuilds
  BY <1>3, HistoryStays DEF PoolBuilds
<1>4. ASSUME NEW c \in Conns, MinerSubscribes(c)
      PROVE  ThreadsInv' /\ HistoryInv'
  <2>1. UNCHANGED <<jobs, work, at, done, solved, round, rounds, hashed, count>>
    BY <1>4 DEF MinerSubscribes
  <2> QED  BY <2>1, HistoryStays DEF HistoryInv
<1>5. ASSUME NEW m \in shares, PoolChecks(m)
      PROVE  ThreadsInv' /\ HistoryInv'
  BY <1>5, HistoryStays DEF PoolChecks, HistoryInv
<1> QED  BY <1>1, <1>2, <1>3, <1>4, <1>5, MinerReadsHistory, MinerBatchHistory, RoundBuildsHistory,
            RoundMinesHistory DEF Next

\* For every number of connections and threads, word, batch and placement of
\* solutions: as long as a thread's batches fit two words, and templates differ in
\* time as those of a network without the minimum-difficulty rule do, the threads,
\* their miners, their jobs and regtest-miner's rounds never hash an input twice.
THEOREM NoInputTwice ==
  ASSUME ~MinDifficulty, SpacesSuffice
  PROVE  Spec => []NothingHashedTwice
<1>1. Init => ThreadsInv /\ HistoryInv
  BY HistoryInit
<1>2. IInv /\ VerdictInv /\ (ThreadsInv /\ HistoryInv) /\ [Next]_vars => (ThreadsInv /\ HistoryInv)'
  BY HistoryNext DEF VerdictInv
<1>3. IInv /\ VerdictInv /\ [Next]_vars => VerdictInv'
  BY VerdictNext
<1>4. Spec => []VerdictInv
  BY <1>3, VerdictInit, Invariant, PTL DEF Spec
<1>5. Spec => [](ThreadsInv /\ HistoryInv)
  BY <1>1, <1>2, <1>4, Invariant, PTL DEF Spec
<1>6. HistoryInv => NothingHashedTwice
  BY DEF HistoryInv, NothingHashedTwice
<1> QED  BY <1>5, <1>6, PTL
=============================================================================
