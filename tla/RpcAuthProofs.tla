--------------------------- MODULE RpcAuthProofs ----------------------------
(***************************************************************************)
(* Calls and restarts of the node, for every number of threads and of      *)
(* cookies: what is sent twice was not run before, and one restart is      *)
(* survived by every call.                                                 *)
(***************************************************************************)
EXTENDS RpcAuth, TLAPS

USE ThreadAssumption

-----------------------------------------------------------------------------
(* Types.                                                                  *)

Methods  == {"any", "createwallet", "loadwallet"}
Reasons  == {"none", "Connect", "BadStatusLine", "TruncatedHeaders", "Io"}
Outcomes == Reasons \cup {"Ok", "Rpc", "MissingResult", "UnexpectedShape", "MalformedResponse",
                          "Unauthorized", "Auth"}

Body == [kind : {"result", "no result", "wrong shape", "garbage"}]
        \cup [kind : {"error"}, code : Int]
AnAnswer == [ok : {FALSE}, reason : Reasons] \cup [ok : {TRUE}, status : {200, 401, 500}, body : Body]

Call == [pc : {"idle", "header", "post", "read", "reload", "store"}, method : Methods,
         again : BOOLEAN, header : {Absent} \cup Cookies, answer : AnAnswer, ran : Nat,
         outcome : Outcomes]

TypeInv ==
  /\ node \in [up : BOOLEAN, cookie : Cookies, wallet : {"none", "unloaded", "loaded"}]
  /\ file \in {Absent} \cup Cookies
  /\ creds \in Cookies
  /\ call \in [Threads -> Call]

-----------------------------------------------------------------------------
(* The inductive invariant.                                                *)

\* A request that may be sent again has not been run, and one that was run had
\* an answer other than a 401.
Refused(a) == a.ok /\ a.status = 401

RunInv(c) ==
  /\ c.ran <= 1
  /\ c.pc \in {"header", "post", "reload", "store"} => c.ran = 0
  /\ c.pc = "read" /\ c.ran = 1 => ~Refused(c.answer)

\* Up to the first restart, a call refused once was refused for the first
\* cookie, so what it reads, stores and sends from then on is the second.
RestartInv(c, newest, stored) ==
  /\ c.header <= newest
  /\ c.pc \in {"post", "store"} => c.header # Absent
  /\ c.pc \in {"reload", "store"} => c.again
  /\ c.pc = "read" /\ Refused(c.answer) => newest >= 2
  /\ c.again => newest >= 2
  /\ c.pc = "store" /\ newest <= 2 => c.header = 2
  /\ c.again /\ c.pc = "header" /\ newest <= 2 => stored = 2
  /\ c.again /\ c.pc = "post" /\ newest <= 2 => c.header = 2
  /\ c.again /\ c.pc = "read" /\ newest <= 2 => ~Refused(c.answer)
  /\ newest <= 2 => c.outcome # "Unauthorized"

CookieInv == file \in {Absent, node.cookie} /\ creds <= node.cookie

IInv ==
  /\ TypeInv /\ CookieInv
  /\ \A t \in Threads : RunInv(call[t]) /\ RestartInv(call[t], node.cookie, creds)

-----------------------------------------------------------------------------
(* What the pieces of a call yield.                                        *)

LEMMA UnsentIsACall ==
  /\ Unsent \in Call /\ Unsent.ran = 0 /\ ~Unsent.again /\ Unsent.pc = "idle"
  /\ Unsent.header = 0 /\ Unsent.outcome = "none"
BY DEF Unsent, Call, Absent, Methods, Err, AnAnswer, Reasons, Outcomes

LEMMA DoneIsABody ==
  ASSUME TypeInv, NEW method \in Methods, NEW done \in Does(method)
  PROVE  done[1] \in Body /\ done[2] \in {"none", "unloaded", "loaded"}
<1> DEFINE wallets == {"none", "unloaded", "loaded"}
<1>a. Result \in Body /\ \A code \in Int : Error(code) \in Body
  BY DEF Result, Error, Body
<1>b. node.wallet \in wallets
  BY DEF TypeInv
<1>1. CASE method = "createwallet"
  <2>1. done \in Create(node.wallet)
    BY <1>1 DEF Does
  <2>2. done = <<Result, "loaded">> \/ \E code \in {-4, -35}, w \in wallets : done = <<Error(code), w>>
    BY <1>b, <2>1 DEF Create
  <2> QED
    BY <1>a, <2>2
<1>2. CASE method = "loadwallet"
  <2>1. done \in Load(node.wallet)
    BY <1>2 DEF Does
  <2>2. done = <<Result, "loaded">> \/ \E code \in {-18, -35}, w \in wallets : done = <<Error(code), w>>
    BY <1>b, <2>1 DEF Load
  <2> QED
    BY <1>a, <2>2
<1>3. CASE method = "any"
  <2>1. PICK body \in Bodies : done = <<body, node.wallet>>
    BY <1>3 DEF Does
  <2>2. body \in Body
    <3>1. [kind |-> "no result"] \in Body /\ [kind |-> "wrong shape"] \in Body /\ [kind |-> "garbage"] \in Body
      BY DEF Body
    <3>2. Error(-28) \in Body
      BY <1>a
    <3> QED
      BY <1>a, <3>1, <3>2 DEF Bodies
  <2>3. done[1] = body /\ done[2] = node.wallet
    BY <2>1
  <2> QED
    BY <1>b, <2>2, <2>3
<1> QED
  BY <1>1, <1>2, <1>3 DEF Methods

\* A truncated answer is never a refusal that was not one.
LEMMA ReadingKeepsTheStatus ==
  ASSUME NEW a \in AnAnswer, a.ok, NEW cut \in Cuts, NEW hasLength \in BOOLEAN
  PROVE  /\ ReadResponse(a, cut, hasLength) \in AnAnswer
         /\ Refused(ReadResponse(a, cut, hasLength)) => Refused(a)
<1>1. a \in [ok : {TRUE}, status : {200, 401, 500}, body : Body]
  BY DEF AnAnswer
<1>2. CASE cut = "status line" \/ cut = "headers" \/ (cut = "body" /\ hasLength)
  <2>1. ReadResponse(a, cut, hasLength) \in {Err("BadStatusLine"), Err("TruncatedHeaders"), Err("Io")}
    BY <1>2 DEF ReadResponse
  <2>2. \A reason \in Reasons : Err(reason) \in AnAnswer /\ ~Refused(Err(reason))
    BY DEF Err, AnAnswer, Refused
  <2> QED
    BY <2>1, <2>2 DEF Reasons
<1>3. CASE cut = "body" /\ ~hasLength
  <2> DEFINE b == [a EXCEPT !.body = [kind |-> "garbage"]]
  <2>1. ReadResponse(a, cut, hasLength) = b
    BY <1>3 DEF ReadResponse
  <2>2. [kind |-> "garbage"] \in Body
    BY DEF Body
  <2>3. b \in [ok : {TRUE}, status : {200, 401, 500}, body : Body] /\ b.ok = a.ok /\ b.status = a.status
    BY <1>1, <2>2
  <2>4. b \in AnAnswer /\ (Refused(b) => Refused(a))
    BY <2>3 DEF AnAnswer, Refused
  <2> QED
    BY <2>1, <2>4
<1>4. CASE cut = "none"
  BY <1>4 DEF ReadResponse
<1> QED
  BY <1>2, <1>3, <1>4 DEF Cuts

LEMMA VerdictIsAnOutcome ==
  ASSUME NEW a \in AnAnswer, NEW method \in Methods
  PROVE  /\ Verdict(method, a) \in Outcomes
         /\ Verdict(method, a) = "Unauthorized" => Refused(a)
<1>1. Interpret(a.body) \in Outcomes \ {"Unauthorized"}
  BY DEF Interpret, Outcomes
<1>2. ~a.ok => a.reason \in Reasons
  BY DEF AnAnswer
<1> QED
  BY <1>1, <1>2 DEF Verdict, Refused, Outcomes, Reasons

LEMMA ReturnIsACall ==
  ASSUME NEW c \in Call, NEW a \in AnAnswer
  PROVE  LET r == Return(c, a)
         IN  /\ r \in Call /\ ~r.again /\ r.header = 0 /\ r.pc \in {"idle", "header"}
             /\ r.ran = 0 \/ (r.pc = "idle" /\ r.ran = c.ran)
             /\ r.outcome = "Unauthorized" => Refused(a)
<1>1. Follows(c.method, a) \in {"none", "loadwallet"}
  BY DEF Follows
<1>2. c.method \in Methods /\ c.ran \in Nat
  BY DEF Call
<1>3. CASE Follows(c.method, a) = "none"
  <2>1. Return(c, a) = [Unsent EXCEPT !.ran = c.ran, !.outcome = Verdict(c.method, a)]
    BY <1>3 DEF Return
  <2> QED
    BY <1>2, <2>1, UnsentIsACall, VerdictIsAnOutcome DEF Call
<1>4. CASE Follows(c.method, a) = "loadwallet"
  <2>1. Return(c, a) = [Unsent EXCEPT !.pc = "header", !.method = "loadwallet"]
    BY <1>4 DEF Return
  <2> QED
    BY <2>1, UnsentIsACall DEF Call, Methods
<1> QED
  BY <1>1, <1>3, <1>4

-----------------------------------------------------------------------------
(* Steps.                                                                  *)

\* The node's own steps: the calls stay, only the newest cookie grows.
LEMMA NodeSteps ==
  ASSUME IInv, NodeWritesCookie \/ NodeServes \/ NodeStops \/ OthersUseWallet
  PROVE  IInv'
<1> USE DEF IInv, TypeInv, CookieInv, Cookies, Absent
<1>1. UNCHANGED <<creds, call>>
  BY DEF NodeWritesCookie, NodeServes, NodeStops, OthersUseWallet
<1>2. /\ node' \in [up : BOOLEAN, cookie : Cookies, wallet : {"none", "unloaded", "loaded"}]
      /\ file' \in {Absent, node'.cookie}
      /\ node'.cookie \in Nat /\ node.cookie \in Nat /\ node.cookie <= node'.cookie
  <2>1. CASE NodeWritesCookie
    BY <2>1, ThreadAssumption DEF NodeWritesCookie
  <2>2. CASE NodeServes
    <3>1. node' = [node EXCEPT !.up = TRUE] /\ file' = file
      BY <2>2 DEF NodeServes
    <3>2. node' \in [up : BOOLEAN, cookie : Cookies, wallet : {"none", "unloaded", "loaded"}]
          /\ node'.cookie = node.cookie
      BY <3>1
    <3>3. node.cookie \in Nat
      BY ThreadAssumption
    <3> QED
      BY <3>1, <3>2, <3>3
  <2>3. CASE NodeStops
    <3>1. node' = [node EXCEPT !.up = FALSE] /\ file' \in {file, Absent}
      BY <2>3 DEF NodeStops
    <3>2. node' \in [up : BOOLEAN, cookie : Cookies, wallet : {"none", "unloaded", "loaded"}]
          /\ node'.cookie = node.cookie
      BY <3>1
    <3>3. node.cookie \in Nat
      BY ThreadAssumption
    <3> QED
      BY <3>1, <3>2, <3>3
  <2>4. CASE OthersUseWallet
    BY <2>4 DEF OthersUseWallet
  <2> QED
    BY <2>1, <2>2, <2>3, <2>4
<1>3. TypeInv' /\ CookieInv'
  BY <1>1, <1>2
<1>4. ASSUME NEW t \in Threads PROVE (RunInv(call[t]) /\ RestartInv(call[t], node.cookie, creds))'
  <2>1. call[t] \in Call /\ call[t].header \in Nat
    <3>1. call[t] \in Call
      BY DEF TypeInv
    <3> QED
      BY <3>1 DEF Call
  <2>2. RunInv(call[t])'
    BY <1>1 DEF RunInv
  <2>3. RestartInv(call[t], node.cookie, creds)'
    BY <1>1, <1>2, <2>1 DEF RestartInv
  <2> QED
    BY <2>2, <2>3
<1> QED
  BY <1>3, <1>4

\* A step of thread t that leaves the rest to others.
LEMMA OneThread ==
  ASSUME IInv, NEW t \in Threads, NEW c \in Call, call' = [call EXCEPT ![t] = c],
         node' \in [up : BOOLEAN, cookie : Cookies, wallet : {"none", "unloaded", "loaded"}],
         node'.cookie = node.cookie, UNCHANGED file,
         creds' \in Cookies, creds' <= node.cookie,
         creds' = creds \/ (node.cookie <= 2 => creds' = 2),
         RunInv(c), RestartInv(c, node'.cookie, creds')
  PROVE  IInv'
<1> USE DEF IInv, TypeInv
<1>1. TypeInv' /\ CookieInv'
  BY DEF CookieInv
<1>2. call'[t] = c /\ \A u \in Threads : u # t => call'[u] = call[u]
  OBVIOUS
<1>3. ASSUME NEW u \in Threads PROVE RunInv(call'[u]) /\ RestartInv(call'[u], node'.cookie, creds')
  <2>1. CASE u = t
    BY <1>2, <2>1
  <2>2. CASE u # t
    <3>1. RunInv(call[u]) /\ RestartInv(call[u], node.cookie, creds) /\ call'[u] = call[u]
      BY <1>2, <2>2
    <3>2. RestartInv(call'[u], node'.cookie, creds')
      BY <3>1 DEF RestartInv
    <3> QED
      BY <3>1, <3>2
  <2> QED
    BY <2>1, <2>2
<1> QED
  BY <1>1, <1>3 DEF RunInv

-----------------------------------------------------------------------------
(* The steps of a call.                                                    *)

LEMMA CallFacts ==
  ASSUME IInv, NEW t \in Threads
  PROVE  /\ call[t] \in Call /\ RunInv(call[t]) /\ RestartInv(call[t], node.cookie, creds)
         /\ node \in [up : BOOLEAN, cookie : Cookies, wallet : {"none", "unloaded", "loaded"}]
         /\ creds \in Cookies /\ creds <= node.cookie /\ node.cookie \in Nat /\ creds \in Nat
         /\ file \in {Absent, node.cookie} /\ node.cookie >= 1 /\ creds >= 1
BY ThreadAssumption DEF IInv, TypeInv, CookieInv, Cookies

LEMMA BeginStep ==
  ASSUME IInv, NEW t \in Threads, BeginCall(t)
  PROVE  IInv'
<1> DEFINE c == [Unsent EXCEPT !.pc = "header",
                   !.method = IF t \in Ensurers THEN "createwallet" ELSE "any"]
<1>1. call' = [call EXCEPT ![t] = c] /\ UNCHANGED <<node, file, creds>>
  BY DEF BeginCall
<1>2. c \in Call /\ c.pc = "header" /\ c.ran = 0 /\ ~c.again /\ c.header = 0 /\ c.outcome = "none"
  BY UnsentIsACall DEF Call, Methods
<1>3. RunInv(c) /\ RestartInv(c, node'.cookie, creds')
  <2> HIDE DEF c
  <2> QED
    BY <1>1, <1>2, CallFacts DEF RunInv, RestartInv
<1> HIDE DEF c
<1> QED
  BY <1>1, <1>2, <1>3, CallFacts, OneThread

LEMMA ReadHeaderStep ==
  ASSUME IInv, NEW t \in Threads, ReadHeader(t)
  PROVE  IInv'
<1> DEFINE c == [call[t] EXCEPT !.pc = "post", !.header = creds]
<1>1. call' = [call EXCEPT ![t] = c] /\ UNCHANGED <<node, file, creds>> /\ call[t].pc = "header"
  BY DEF ReadHeader
<1>2. /\ c \in Call /\ c.pc = "post" /\ c.header = creds
      /\ c.again = call[t].again /\ c.ran = call[t].ran /\ c.outcome = call[t].outcome
  BY CallFacts DEF Call
<1> HIDE DEF c
<1>3. RunInv(c) /\ RestartInv(c, node'.cookie, creds')
  BY <1>1, <1>2, CallFacts DEF RunInv, RestartInv, Absent
<1> QED
  BY <1>1, <1>2, <1>3, CallFacts, OneThread

LEMMA PostStep ==
  ASSUME IInv, NEW t \in Threads, Post(t)
  PROVE  IInv'
<1> USE CallFacts
<1>1. call[t].pc = "post" /\ UNCHANGED <<file, creds>>
  BY DEF Post
\* Whatever the answer: the call reads it, having been run once more or not.
<1>2. ASSUME NEW a \in AnAnswer, NEW ran \in {0, 1},
             call' = [call EXCEPT ![t] = [@ EXCEPT !.pc = "read", !.answer = a, !.ran = ran]],
             node' \in [up : BOOLEAN, cookie : Cookies, wallet : {"none", "unloaded", "loaded"}],
             node'.cookie = node.cookie,
             ran = 1 => ~Refused(a),
             Refused(a) => call[t].header # node.cookie
      PROVE  IInv'
  <2> DEFINE c == [call[t] EXCEPT !.pc = "read", !.answer = a, !.ran = ran]
  <2>0. ran \in Nat /\ call[t] \in Call
    OBVIOUS
  <2>1. /\ c \in Call /\ c.pc = "read" /\ c.answer = a /\ c.ran = ran
        /\ c.header = call[t].header /\ c.again = call[t].again /\ c.outcome = call[t].outcome
    BY <2>0 DEF Call
  <2>2. call' = [call EXCEPT ![t] = c]
    BY <1>2
  <2> HIDE DEF c
  <2>3. call[t].header \in Nat
    BY ThreadAssumption DEF Call, Absent, Cookies
  <2>4. RunInv(c)
    BY <1>2, <2>1 DEF RunInv
  <2>5. RestartInv(c, node'.cookie, creds')
    <3>1. (Refused(a) => node.cookie >= 2) /\ (call[t].again /\ node.cookie <= 2 => ~Refused(a))
      \* What is sent is a cookie at most the newest and, after the first 401, the second.
      <4>1. call[t].header <= node.cookie
        BY DEF RestartInv
      <4>2. call[t].again /\ node.cookie <= 2 => call[t].header = 2 /\ node.cookie >= 2
        BY <1>1 DEF RestartInv
      <4>3. call[t].header >= 1
        BY <1>1, <2>3 DEF RestartInv, Absent
      <4> QED
        BY <1>2, <2>3, <4>1, <4>2, <4>3
    <3> QED
      BY <1>1, <1>2, <2>1, <2>3, <3>1 DEF RestartInv
  <2> QED
    BY <1>1, <1>2, <2>1, <2>2, <2>4, <2>5, OneThread
<1>3. call[t].ran = 0
  BY <1>1 DEF RunInv
<1>4. CASE call' = [call EXCEPT ![t].pc = "read", ![t].answer = Err("Connect")] /\ UNCHANGED node
  <2>1. Err("Connect") \in AnAnswer /\ ~Refused(Err("Connect"))
    BY DEF Err, AnAnswer, Reasons, Refused
  <2>2. call' = [call EXCEPT ![t] = [@ EXCEPT !.pc = "read", !.answer = Err("Connect"), !.ran = 0]]
    BY <1>3, <1>4 DEF IInv, TypeInv, Call
  <2> QED
    BY <1>2, <1>4, <2>1, <2>2
<1>5. CASE /\ call[t].header # node.cookie /\ UNCHANGED node
           /\ call' = [call EXCEPT ![t].pc = "read", ![t].answer = Answer(401, [kind |-> "garbage"])]
  <2> DEFINE a == Answer(401, [kind |-> "garbage"])
  <2>1. a \in AnAnswer
    <3>1. [kind |-> "garbage"] \in Body
      BY DEF Body
    <3> QED
      BY <3>1 DEF Answer, AnAnswer
  <2>2. call' = [call EXCEPT ![t].pc = "read", ![t].answer = a]
    BY <1>5
  <2> HIDE DEF a
  <2>3. call' = [call EXCEPT ![t] = [@ EXCEPT !.pc = "read", !.answer = a, !.ran = 0]]
    BY <1>3, <2>2 DEF IInv, TypeInv, Call
  <2>4. /\ node' \in [up : BOOLEAN, cookie : Cookies, wallet : {"none", "unloaded", "loaded"}]
        /\ node'.cookie = node.cookie
    BY <1>5
  <2>5. Refused(a) => call[t].header # node.cookie
    BY <1>5
  <2>6. 0 \in {0, 1} /\ (0 = 1 => ~Refused(a))
    OBVIOUS
  <2> QED
    BY <1>2, <2>1, <2>3, <2>4, <2>5, <2>6
<1>6. ASSUME NEW done \in Does(call[t].method),
             call' = [call EXCEPT ![t].pc = "read", ![t].ran = @ + 1,
                        ![t].answer = Answer(IF done[1].kind = "error" THEN 500 ELSE 200, done[1])],
             node' = [node EXCEPT !.wallet = done[2]]
      PROVE  IInv'
  <2> DEFINE a == Answer(IF done[1].kind = "error" THEN 500 ELSE 200, done[1])
  <2>1. done[1] \in Body /\ done[2] \in {"none", "unloaded", "loaded"}
    <3>1. TypeInv /\ call[t].method \in Methods
      BY DEF IInv, Call
    <3> QED
      BY <3>1, DoneIsABody
  <2>2. a \in AnAnswer /\ ~Refused(a)
    <3>1. \A status \in {200, 500} : /\ Answer(status, done[1]) \in AnAnswer
                                     /\ ~Refused(Answer(status, done[1]))
      <4>1. ASSUME NEW body \in Body, NEW status \in {200, 500}
            PROVE  Answer(status, body) \in AnAnswer /\ Answer(status, body).status = status
        BY DEF Answer, AnAnswer
      <4> QED
        BY <2>1, <4>1 DEF Refused
    <3>2. a = Answer(200, done[1]) \/ a = Answer(500, done[1])
      OBVIOUS
    <3> HIDE DEF a
    <3> QED
      BY <3>1, <3>2
  <2>3. call' = [call EXCEPT ![t] = [@ EXCEPT !.pc = "read", !.answer = a, !.ran = 1]]
    BY <1>3, <1>6 DEF IInv, TypeInv, Call
  <2>4. /\ node' \in [up : BOOLEAN, cookie : Cookies, wallet : {"none", "unloaded", "loaded"}]
        /\ node'.cookie = node.cookie
    BY <1>6, <2>1
  <2> HIDE DEF a
  <2> QED
    BY <1>2, <2>2, <2>3, <2>4
<1> QED
  BY <1>4, <1>5, <1>6 DEF Post

LEMMA ReceiveStep ==
  ASSUME IInv, NEW t \in Threads, Receive(t)
  PROVE  IInv'
<1> USE CallFacts
<1>1. PICK a \in AnAnswer :
        /\ Refused(a) => Refused(call[t].answer)
        /\ call' = [call EXCEPT ![t] = IF ~call[t].again /\ Refused(a)
                      THEN [@ EXCEPT !.pc = "reload", !.again = TRUE] ELSE Return(@, a)]
  <2>1. PICK cut \in Cuts, hasLength \in BOOLEAN :
          LET answer == IF call[t].answer.ok THEN ReadResponse(call[t].answer, cut, hasLength)
                        ELSE call[t].answer
          IN  call' = [call EXCEPT ![t] =
                IF ~call[t].again /\ answer.ok /\ answer.status = 401
                THEN [@ EXCEPT !.pc = "reload", !.again = TRUE]
                ELSE Return(@, answer)]
    BY DEF Receive
  <2> DEFINE answer == IF call[t].answer.ok THEN ReadResponse(call[t].answer, cut, hasLength)
                       ELSE call[t].answer
  <2>2. call[t].answer \in AnAnswer
    BY DEF Call
  <2>3. answer \in AnAnswer /\ (Refused(answer) => Refused(call[t].answer))
    BY <2>2, ReadingKeepsTheStatus
  <2>4. call' = [call EXCEPT ![t] = IF ~call[t].again /\ answer.ok /\ answer.status = 401
                  THEN [@ EXCEPT !.pc = "reload", !.again = TRUE] ELSE Return(@, answer)]
    BY <2>1
  <2> HIDE DEF answer
  <2>5. call' = [call EXCEPT ![t] = IF ~call[t].again /\ Refused(answer)
                  THEN [@ EXCEPT !.pc = "reload", !.again = TRUE] ELSE Return(@, answer)]
    BY <2>4 DEF Refused
  <2> QED
    BY <2>3, <2>5
<1>2. call[t].pc = "read" /\ UNCHANGED <<node, file, creds>>
  BY DEF Receive
<1>3. call[t].header \in Nat /\ call[t].ran \in Nat
  BY ThreadAssumption DEF Call, Absent, Cookies
<1>4. CASE ~call[t].again /\ Refused(a)
  <2> DEFINE c == [call[t] EXCEPT !.pc = "reload", !.again = TRUE]
  <2>1. /\ c \in Call /\ c.pc = "reload" /\ c.again /\ c.ran = call[t].ran
        /\ c.header = call[t].header /\ c.outcome = call[t].outcome /\ c.answer = call[t].answer
    BY DEF Call
  <2>2. call' = [call EXCEPT ![t] = c]
    BY <1>1, <1>4
  <2> HIDE DEF c
  <2>3. Refused(call[t].answer)
    BY <1>1, <1>4
  <2>4. RunInv(c)
    BY <1>2, <1>3, <2>1, <2>3 DEF RunInv
  <2>5. RestartInv(c, node'.cookie, creds')
    BY <1>2, <1>3, <2>1, <2>3 DEF RestartInv
  <2> QED
    BY <1>2, <2>1, <2>2, <2>4, <2>5, OneThread
<1>5. CASE ~(~call[t].again /\ Refused(a))
  <2> DEFINE c == Return(call[t], a)
  <2>1. /\ c \in Call /\ ~c.again /\ c.header = 0 /\ c.pc \in {"idle", "header"}
        /\ c.ran = 0 \/ (c.pc = "idle" /\ c.ran = call[t].ran)
        /\ c.outcome = "Unauthorized" => Refused(a)
    BY ReturnIsACall
  <2>2. call' = [call EXCEPT ![t] = c]
    BY <1>1, <1>5
  <2> HIDE DEF c
  <2>3. RunInv(c)
    BY <1>3, <2>1 DEF RunInv
  <2>4. c.outcome = "Unauthorized" => node.cookie > 2
    BY <1>1, <1>2, <1>5, <2>1 DEF RestartInv
  <2>5. RestartInv(c, node'.cookie, creds')
    BY <1>2, <2>1, <2>4 DEF RestartInv
  <2> QED
    BY <1>2, <2>1, <2>2, <2>3, <2>5, OneThread
<1> QED
  BY <1>4, <1>5

LEMMA ReloadStep ==
  ASSUME IInv, NEW t \in Threads, Reload(t)
  PROVE  IInv'
<1> USE CallFacts
<1>1. call[t].pc = "reload" /\ UNCHANGED <<node, file, creds>>
  BY DEF Reload
<1>2. call[t].header \in Nat /\ call[t].ran \in Nat
  BY ThreadAssumption DEF Call, Absent, Cookies
<1>3. CASE file = Absent
  <2> DEFINE c == [call[t] EXCEPT !.pc = "idle", !.outcome = "Auth"]
  <2>1. /\ c \in Call /\ c.pc = "idle" /\ c.outcome = "Auth" /\ c.again = call[t].again
        /\ c.ran = call[t].ran /\ c.header = call[t].header
    BY DEF Call, Outcomes
  <2>2. call' = [call EXCEPT ![t] = c]
    BY <1>3 DEF Reload, ReadCookie, Err
  <2> HIDE DEF c
  <2>3. RunInv(c) /\ RestartInv(c, node'.cookie, creds')
    BY <1>1, <1>2, <2>1 DEF RunInv, RestartInv
  <2> QED
    BY <1>1, <2>1, <2>2, <2>3, OneThread
<1>4. CASE file # Absent
  <2> DEFINE c == [call[t] EXCEPT !.pc = "store", !.header = file]
  <2>1. file = node.cookie /\ file \in Cookies
    BY <1>4 DEF IInv, TypeInv
  <2>2. /\ c \in Call /\ c.pc = "store" /\ c.header = node.cookie /\ c.again = call[t].again
        /\ c.ran = call[t].ran /\ c.outcome = call[t].outcome
    BY <2>1 DEF Call
  <2>3. call' = [call EXCEPT ![t] = c]
    BY <1>4 DEF Reload, ReadCookie
  <2> HIDE DEF c
  <2>4. RunInv(c) /\ RestartInv(c, node'.cookie, creds')
    BY <1>1, <1>2, <2>2 DEF RunInv, RestartInv, Absent
  <2> QED
    BY <1>1, <2>2, <2>3, <2>4, OneThread
<1> QED
  BY <1>3, <1>4

LEMMA StoreStep ==
  ASSUME IInv, NEW t \in Threads, Store(t)
  PROVE  IInv'
<1> USE CallFacts
<1> DEFINE c == [call[t] EXCEPT !.pc = "header"]
<1>1. /\ call[t].pc = "store" /\ UNCHANGED <<node, file>> /\ creds' = call[t].header
      /\ call' = [call EXCEPT ![t] = c]
  BY DEF Store
<1>2. /\ c \in Call /\ c.pc = "header" /\ c.header = call[t].header /\ c.again = call[t].again
      /\ c.ran = call[t].ran /\ c.outcome = call[t].outcome
  BY DEF Call
<1> HIDE DEF c
<1>3. call[t].header \in Cookies /\ call[t].header \in Nat /\ call[t].header <= node.cookie
  BY <1>1, ThreadAssumption DEF Call, Absent, Cookies, RestartInv
<1>4. node.cookie <= 2 => creds' = 2
  BY <1>1 DEF RestartInv
<1>5. RunInv(c) /\ RestartInv(c, node'.cookie, creds')
  BY <1>1, <1>2, <1>3, <1>4 DEF RunInv, RestartInv
<1> QED
  BY <1>1, <1>2, <1>3, <1>4, <1>5, OneThread

-----------------------------------------------------------------------------
(* Theorems.                                                               *)

\* The strengthened invariant holds: a request waiting to be sent has not run,
\* and what a call knows of cookies is at least the second after one refusal.
THEOREM Invariant == Spec => []IInv
<1>1. Init => IInv
  <2> SUFFICES ASSUME Init PROVE IInv
    OBVIOUS
  <2>1. TypeInv /\ CookieInv
    BY UnsentIsACall, ThreadAssumption DEF Init, TypeInv, CookieInv, Cookies, Absent
  <2>2. \A t \in Threads : call[t] = Unsent /\ node.cookie = 1
    BY DEF Init
  <2>3. Unsent.ran = 0 /\ ~Unsent.again /\ Unsent.pc = "idle" /\ Unsent.header = 0
        /\ Unsent.outcome = "none"
    BY UnsentIsACall
  <2>4. node.cookie = 1 => RunInv(Unsent) /\ RestartInv(Unsent, 1, creds)
    BY <2>3 DEF RunInv, RestartInv
  <2> QED
    BY <2>1, <2>2, <2>4 DEF IInv
<1>2. IInv /\ [Next]_vars => IInv'
  <2> SUFFICES ASSUME IInv, [Next]_vars PROVE IInv'
    OBVIOUS
  <2>1. CASE NodeWritesCookie \/ NodeServes \/ NodeStops \/ OthersUseWallet
    BY <2>1, NodeSteps
  <2>2. ASSUME NEW t \in Threads, Step(t) PROVE IInv'
    BY <2>2, BeginStep, ReadHeaderStep, PostStep, ReceiveStep, ReloadStep, StoreStep DEF Step
  <2>3. CASE UNCHANGED vars
    BY <2>3 DEF vars, IInv, TypeInv, CookieInv, RunInv, RestartInv
  <2> QED
    BY <2>1, <2>2, <2>3 DEF Next
<1> QED
  BY <1>1, <1>2, PTL DEF Spec

\* No request is run twice by the node, whichever answers are lost and however
\* often it restarts: only a refusal is followed by a second sending.
THEOREM SentAgainOnlyIfNotRun == Spec => []NothingRunsTwice
<1>1. IInv => NothingRunsTwice
  BY DEF IInv, RunInv, NothingRunsTwice
<1> QED
  BY <1>1, Invariant, PTL

\* With at most one restart no call ends with Unauthorized, however many
\* threads meet the refusal together and reload the cookie over each other.
THEOREM RestartIsSurvived == Spec => []OneRestartIsSurvived
<1>1. IInv => OneRestartIsSurvived
  BY DEF IInv, RestartInv, OneRestartIsSurvived
<1> QED
  BY <1>1, Invariant, PTL

-----------------------------------------------------------------------------
(* ensure_wallet. createwallet is followed by loadwallet only where there   *)
(* is a wallet, and nobody takes it away again: others unload it at most.   *)

\* An answer that, once read, cannot make ensure_wallet fail on what the node
\* says: -4 and -35 mean that there is a wallet, and -35 that it is loaded.
Harmless(method, a, wallet) ==
  a.ok /\ a.status # 401 /\ a.body.kind = "error" =>
    IF method = "createwallet" THEN a.body.code \in {-4, -35} /\ wallet # "none"
    ELSE a.body = Error(-35)

WalletInv(c, wallet) ==
  /\ c.outcome # "Rpc"
  /\ c.pc # "idle" => c.method \in {"createwallet", "loadwallet"}
  /\ c.method = "loadwallet" => wallet # "none"
  /\ c.pc = "read" => Harmless(c.method, c.answer, wallet)

EnsureInv == \A t \in Ensurers : WalletInv(call[t], node.wallet)

LEMMA UnsentIsHarmless == \A w : WalletInv(Unsent, w)
BY DEF WalletInv, Unsent, Err

\* What holds of a call holds whatever else happens to the wallet.
LEMMA WalletInvKept ==
  ASSUME NEW c, NEW w, NEW v, WalletInv(c, w), w # "none" => v # "none"
  PROVE  WalletInv(c, v)
BY DEF WalletInv, Harmless

LEMMA WalletAnswers ==
  ASSUME NEW method \in {"createwallet", "loadwallet"}, NEW done \in Does(method), TypeInv,
         method = "loadwallet" => node.wallet # "none"
  PROVE  /\ node.wallet # "none" => done[2] # "none"
         /\ done[1].kind = "error" =>
              IF method = "createwallet" THEN done[1].code \in {-4, -35} /\ done[2] # "none"
              ELSE done[1] = Error(-35)
<1>1. node.wallet \in {"none", "unloaded", "loaded"}
  BY DEF TypeInv
<1>2. Result.kind = "result" /\ \A code \in Int : Error(code).kind = "error" /\ Error(code).code = code
  BY DEF Result, Error
<1>3. CASE method = "createwallet"
  <2>1. done \in Create(node.wallet)
    BY <1>3 DEF Does
  <2>2. done[2] # "none" /\ (done[1] = Result \/ done[1] = Error(-4) \/ done[1] = Error(-35))
    BY <1>1, <2>1 DEF Create
  <2> QED
    BY <1>2, <1>3, <2>2
<1>4. CASE method = "loadwallet"
  <2>1. done \in Load(node.wallet) /\ node.wallet # "none"
    BY <1>4 DEF Does
  <2>2. done[2] # "none" /\ (done[1] = Result \/ done[1] = Error(-35))
    BY <1>1, <2>1 DEF Load
  <2> QED
    BY <1>2, <1>4, <2>2
<1> QED
  BY <1>3, <1>4

\* No step takes a wallet away.
LEMMA WalletStays ==
  ASSUME TypeInv, Next
  PROVE  node.wallet # "none" => node'.wallet # "none"
<1>0. node \in [up : BOOLEAN, cookie : Cookies, wallet : {"none", "unloaded", "loaded"}]
  BY DEF TypeInv
<1>1. CASE NodeWritesCookie \/ NodeServes \/ NodeStops \/ OthersUseWallet
  BY <1>0, <1>1 DEF NodeWritesCookie, NodeServes, NodeStops, OthersUseWallet
<1>2. ASSUME NEW t \in Threads, Post(t) PROVE node.wallet # "none" => node'.wallet # "none"
  <2>1. CASE UNCHANGED node
    BY <2>1
  <2>2. ASSUME NEW done \in Does(call[t].method), node' = [node EXCEPT !.wallet = done[2]]
        PROVE  node.wallet # "none" => node'.wallet # "none"
    <3>1. call[t].method \in Methods
      BY <1>2 DEF TypeInv, Call
    <3>2. CASE call[t].method = "any"
      <4>1. done[2] = node.wallet
        BY <3>2, <2>2 DEF Does
      <4> QED
        BY <1>0, <2>2, <4>1
    <3>3. CASE call[t].method = "createwallet"
      <4>1. done[2] # "none"
        BY <3>3, <2>2, WalletAnswers DEF Does, Create, TypeInv
      <4> QED
        BY <1>0, <2>2, <4>1
    <3>4. CASE call[t].method = "loadwallet"
      <4>1. node.wallet # "none" => done[2] # "none"
        BY <3>4, <2>2, WalletAnswers
      <4> QED
        BY <1>0, <2>2, <4>1
    <3> QED
      BY <3>1, <3>2, <3>3, <3>4 DEF Methods
  <2> QED
    BY <1>2, <2>1, <2>2 DEF Post
<1>3. ASSUME NEW t \in Threads, Step(t), ~Post(t) PROVE UNCHANGED node
  BY <1>3 DEF Step, BeginCall, ReadHeader, Receive, Reload, Store
<1> QED
  BY <1>1, <1>2, <1>3 DEF Next

\* A truncated answer is as harmless as the whole one.
LEMMA ReadingStaysHarmless ==
  ASSUME NEW a \in AnAnswer, a.ok, NEW cut \in Cuts, NEW hasLength \in BOOLEAN,
         NEW method, NEW wallet, Harmless(method, a, wallet)
  PROVE  Harmless(method, ReadResponse(a, cut, hasLength), wallet)
<1>1. a \in [ok : {TRUE}, status : {200, 401, 500}, body : Body]
  BY DEF AnAnswer
<1>2. CASE cut = "status line" \/ cut = "headers" \/ (cut = "body" /\ hasLength)
  BY <1>2 DEF ReadResponse, Err, Harmless
<1>3. CASE cut = "body" /\ ~hasLength
  <2>1. ReadResponse(a, cut, hasLength) = [a EXCEPT !.body = [kind |-> "garbage"]]
    BY <1>3 DEF ReadResponse
  <2>2. ReadResponse(a, cut, hasLength).body.kind = "garbage"
    BY <1>1, <2>1
  <2> QED
    BY <2>2 DEF Harmless
<1>4. CASE cut = "none"
  BY <1>4 DEF ReadResponse
<1> QED
  BY <1>2, <1>3, <1>4 DEF Cuts

\* A call that returns after a harmless answer has not failed on it.
LEMMA ReturnIsHarmless ==
  ASSUME NEW c \in Call, NEW a \in AnAnswer, NEW wallet,
         c.method \in {"createwallet", "loadwallet"}, Harmless(c.method, a, wallet)
  PROVE  WalletInv(Return(c, a), wallet)
<1>1. CASE Follows(c.method, a) = "none"
  <2>1. Return(c, a) = [Unsent EXCEPT !.ran = c.ran, !.outcome = Verdict(c.method, a)]
    BY <1>1 DEF Return
  <2>2. Verdict(c.method, a) # "Rpc"
    <3>1. ~a.ok => a.reason # "Rpc"
      BY DEF AnAnswer, Reasons
    <3>2. a.ok /\ a.status # 401 /\ a.body.kind = "error" => c.method = "loadwallet" /\ a.body = Error(-35)
      BY <1>1 DEF Harmless, Follows
    <3>3. Interpret(a.body) = "Rpc" => a.body.kind = "error"
      BY DEF Interpret
    <3> QED
      BY <3>1, <3>2, <3>3 DEF Verdict
  <2> QED
    BY <2>1, <2>2 DEF WalletInv, Unsent, Err
<1>2. CASE Follows(c.method, a) # "none"
  <2>1. Follows(c.method, a) = "loadwallet" /\ c.method = "createwallet" /\ wallet # "none"
    BY <1>2 DEF Follows, Harmless
  <2>2. Return(c, a) = [Unsent EXCEPT !.pc = "header", !.method = "loadwallet"]
    BY <2>1 DEF Return
  <2> QED
    BY <2>1, <2>2 DEF WalletInv, Unsent, Err
<1> QED
  BY <1>1, <1>2

LEMMA EnsurerStep ==
  ASSUME IInv, NEW t \in Ensurers, WalletInv(call[t], node.wallet), Step(t),
         node.wallet # "none" => node'.wallet # "none"
  PROVE  WalletInv(call'[t], node'.wallet)
<1>0. t \in Threads /\ TypeInv /\ call \in [Threads -> Call] /\ call[t] \in Call /\ call[t].answer \in AnAnswer
  BY DEF IInv, TypeInv, Call
<1>1. CASE BeginCall(t)
  <2>1. call'[t] = [Unsent EXCEPT !.pc = "header", !.method = "createwallet"]
    BY <1>0, <1>1 DEF BeginCall
  <2> QED
    BY <2>1 DEF WalletInv, Unsent, Err
<1>2. CASE ReadHeader(t)
  <2>1. call'[t] = [call[t] EXCEPT !.pc = "post", !.header = creds] /\ call[t].pc = "header"
    BY <1>0, <1>2 DEF ReadHeader
  <2>2. /\ call'[t].pc = "post" /\ call'[t].method = call[t].method
        /\ call'[t].outcome = call[t].outcome
    BY <1>0, <2>1 DEF Call
  <2> QED
    BY <2>1, <2>2 DEF WalletInv
<1>3. CASE Post(t)
  <2>1. /\ call[t].pc = "post" /\ call[t].method \in {"createwallet", "loadwallet"}
        /\ call[t].method = "loadwallet" => node.wallet # "none"
    BY <1>3 DEF Post, WalletInv
  <2>2. ASSUME NEW a, Harmless(call[t].method, a, node'.wallet), call'[t].answer = a,
               call'[t].pc = "read", call'[t].method = call[t].method, call'[t].outcome = call[t].outcome
        PROVE  WalletInv(call'[t], node'.wallet)
    BY <2>1, <2>2 DEF WalletInv
  <2>3. CASE call' = [call EXCEPT ![t].pc = "read", ![t].answer = Err("Connect")]
    <3>1. Harmless(call[t].method, Err("Connect"), node'.wallet)
      BY DEF Harmless, Err
    <3>2. /\ call'[t].answer = Err("Connect") /\ call'[t].pc = "read"
          /\ call'[t].method = call[t].method /\ call'[t].outcome = call[t].outcome
      BY <1>0, <2>3 DEF Call
    <3> QED
      BY <2>2, <3>1, <3>2
  <2>4. CASE call' = [call EXCEPT ![t].pc = "read", ![t].answer = Answer(401, [kind |-> "garbage"])]
    <3> DEFINE a == Answer(401, [kind |-> "garbage"])
    <3>1. Harmless(call[t].method, a, node'.wallet)
      BY DEF Harmless, Answer
    <3> HIDE DEF a
    <3>2. call' = [call EXCEPT ![t].pc = "read", ![t].answer = a]
      BY <2>4 DEF a
    <3>3. /\ call'[t].answer = a /\ call'[t].pc = "read"
          /\ call'[t].method = call[t].method /\ call'[t].outcome = call[t].outcome
      BY <1>0, <3>2 DEF Call
    <3> QED
      BY <2>2, <3>1, <3>3
  <2>5. ASSUME NEW done \in Does(call[t].method),
               call' = [call EXCEPT ![t].pc = "read", ![t].ran = @ + 1,
                          ![t].answer = Answer(IF done[1].kind = "error" THEN 500 ELSE 200, done[1])],
               node' = [node EXCEPT !.wallet = done[2]]
        PROVE  WalletInv(call'[t], node'.wallet)
    <3> DEFINE a == Answer(IF done[1].kind = "error" THEN 500 ELSE 200, done[1])
    <3>1. node'.wallet = done[2]
      BY <1>0, <2>5 DEF TypeInv
    <3>2. a.body = done[1]
      BY DEF Answer
    <3>3. Harmless(call[t].method, a, node'.wallet)
      <4>1. done[1].kind = "error" =>
              IF call[t].method = "createwallet" THEN done[1].code \in {-4, -35} /\ done[2] # "none"
              ELSE done[1] = Error(-35)
        BY <1>0, <2>1, <2>5, WalletAnswers
      <4> HIDE DEF a
      <4> QED
        BY <3>1, <3>2, <4>1 DEF Harmless
    <3> HIDE DEF a
    <3>4. call' = [call EXCEPT ![t].pc = "read", ![t].ran = @ + 1, ![t].answer = a]
      BY <2>5 DEF a
    <3>5. /\ call'[t].answer = a /\ call'[t].pc = "read"
          /\ call'[t].method = call[t].method /\ call'[t].outcome = call[t].outcome
      BY <1>0, <3>4 DEF Call
    <3> QED
      BY <2>2, <3>3, <3>5
  <2> QED
    BY <1>3, <2>3, <2>4, <2>5 DEF Post
<1>4. CASE Receive(t)
  <2>1. PICK cut \in Cuts, hasLength \in BOOLEAN :
          LET answer == IF call[t].answer.ok THEN ReadResponse(call[t].answer, cut, hasLength)
                        ELSE call[t].answer
          IN  call' = [call EXCEPT ![t] =
                IF ~call[t].again /\ answer.ok /\ answer.status = 401
                THEN [@ EXCEPT !.pc = "reload", !.again = TRUE]
                ELSE Return(@, answer)]
    BY <1>4 DEF Receive
  <2> DEFINE answer == IF call[t].answer.ok THEN ReadResponse(call[t].answer, cut, hasLength)
                       ELSE call[t].answer
  <2>2. /\ call[t].pc = "read" /\ UNCHANGED node /\ call[t].method \in {"createwallet", "loadwallet"}
        /\ Harmless(call[t].method, call[t].answer, node.wallet)
    BY <1>4 DEF Receive, WalletInv
  <2>3. answer \in AnAnswer /\ Harmless(call[t].method, answer, node.wallet)
    BY <1>0, <2>2, ReadingKeepsTheStatus, ReadingStaysHarmless
  <2>4. call'[t] = IF ~call[t].again /\ answer.ok /\ answer.status = 401
                   THEN [call[t] EXCEPT !.pc = "reload", !.again = TRUE] ELSE Return(call[t], answer)
    BY <1>0, <2>1
  <2> HIDE DEF answer
  <2>5. CASE ~call[t].again /\ answer.ok /\ answer.status = 401
    <3>1. /\ call'[t].pc = "reload" /\ call'[t].method = call[t].method
          /\ call'[t].outcome = call[t].outcome
      BY <1>0, <2>4, <2>5 DEF Call
    <3> QED
      BY <2>2, <3>1 DEF WalletInv
  <2>6. CASE ~(~call[t].again /\ answer.ok /\ answer.status = 401)
    <3>1. call'[t] = Return(call[t], answer)
      BY <2>4, <2>6
    <3> QED
      BY <1>0, <2>2, <2>3, <3>1, ReturnIsHarmless
  <2> QED
    BY <2>5, <2>6
<1>5. CASE Reload(t)
  <2>1. /\ call[t].pc = "reload" /\ UNCHANGED node
        /\ call'[t] = IF ReadCookie.ok THEN [call[t] EXCEPT !.pc = "store", !.header = ReadCookie.cookie]
                      ELSE [call[t] EXCEPT !.pc = "idle", !.outcome = ReadCookie.reason]
    BY <1>0, <1>5 DEF Reload
  <2>2. ~ReadCookie.ok => ReadCookie.reason = "Auth"
    BY DEF ReadCookie, Err
  <2>3. /\ call'[t].method = call[t].method /\ call'[t].pc \in {"store", "idle"}
        /\ call'[t].outcome \in {call[t].outcome, "Auth"}
    BY <1>0, <2>1, <2>2 DEF Call
  <2> QED
    BY <2>1, <2>3 DEF WalletInv
<1>6. CASE Store(t)
  <2>1. call[t].pc = "store" /\ UNCHANGED node /\ call'[t] = [call[t] EXCEPT !.pc = "header"]
    BY <1>0, <1>6 DEF Store
  <2>2. /\ call'[t].pc = "header" /\ call'[t].method = call[t].method
        /\ call'[t].outcome = call[t].outcome
    BY <1>0, <2>1 DEF Call
  <2> QED
    BY <2>1, <2>2 DEF WalletInv
<1> QED
  BY <1>1, <1>2, <1>3, <1>4, <1>5, <1>6 DEF Step

\* A step of one thread leaves the calls of the others.
LEMMA OthersKeepTheirCalls ==
  ASSUME NEW t \in Threads, NEW u \in Threads, u # t, call \in [Threads -> Call], Step(t)
  PROVE  call'[u] = call[u]
<1>1. CASE BeginCall(t)
  BY <1>1 DEF BeginCall
<1>2. CASE ReadHeader(t)
  BY <1>2 DEF ReadHeader
<1>3. CASE Post(t)
  BY <1>3 DEF Post
<1>4. CASE Receive(t)
  BY <1>4 DEF Receive
<1>5. CASE Reload(t)
  BY <1>5 DEF Reload
<1>6. CASE Store(t)
  BY <1>6 DEF Store
<1> QED
  BY <1>1, <1>2, <1>3, <1>4, <1>5, <1>6 DEF Step

\* ensure_wallet (methods.rs) never reports an error of the node: whichever of
\* "already exists" and "already loaded" it meets, and whatever other processes
\* do to the wallet between its two calls, the wallet is there.
THEOREM WalletsAreEnough == Spec => []AWalletThereIsEnough
<1>1. Init => EnsureInv
  BY UnsentIsHarmless DEF Init, EnsureInv
<1>2. IInv /\ EnsureInv /\ [Next]_vars => EnsureInv'
  <2> SUFFICES ASSUME IInv, EnsureInv, [Next]_vars, NEW u \in Ensurers
               PROVE  WalletInv(call'[u], node'.wallet)
    BY DEF EnsureInv
  <2>1. WalletInv(call[u], node.wallet) /\ TypeInv /\ u \in Threads /\ call \in [Threads -> Call]
    BY DEF EnsureInv, IInv, TypeInv
  <2>2. node.wallet # "none" => node'.wallet # "none"
    BY <2>1, WalletStays DEF vars
  <2>3. CASE UNCHANGED call
    BY <2>1, <2>2, <2>3, WalletInvKept
  <2>4. ASSUME NEW t \in Threads, Step(t) PROVE WalletInv(call'[u], node'.wallet)
    <3>1. CASE t = u
      BY <2>1, <2>2, <2>4, <3>1, EnsurerStep
    <3>2. CASE t # u
      BY <2>1, <2>2, <2>4, <3>2, OthersKeepTheirCalls, WalletInvKept
    <3> QED
      BY <3>1, <3>2
  <2> QED
    BY <2>3, <2>4 DEF Next, vars, NodeWritesCookie, NodeServes, NodeStops, OthersUseWallet
<1>3. EnsureInv => AWalletThereIsEnough
  BY DEF EnsureInv, WalletInv, AWalletThereIsEnough
<1> QED
  BY <1>1, <1>2, <1>3, Invariant, PTL DEF Spec
=============================================================================
