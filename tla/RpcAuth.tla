------------------------------ MODULE RpcAuth -------------------------------
(***************************************************************************)
(* One RpcClient shared by the threads of a process, talking to a node     *)
(* that stops, dies and starts again with a fresh cookie                   *)
(* (crates/node-rpc/src/{client,auth,http,methods}.rs).                    *)
(*                                                                         *)
(* A call reads the credentials under a lock, posts them, and on a 401     *)
(* reads the cookie file, stores what it read and posts once more: five    *)
(* steps, between any two of which other threads and the node may move.    *)
(* The node, its cookie file and its wallet are external. Request ids are  *)
(* left out: a connection carries one request.                             *)
(***************************************************************************)
EXTENDS Integers, FiniteSets

CONSTANTS Threads,    \* callers; each calls for ever
          Ensurers,   \* those of them that call ensure_wallet
          MaxCookies  \* bound: cookies the node makes, one per start

ASSUME ThreadAssumption == Ensurers \subseteq Threads /\ MaxCookies \in Nat \ {0}

VARIABLES
  node,    \* external: up or not, the cookie it accepts, its wallet
  file,    \* external: the cookie on disk, or Absent
  creds,   \* the client's credentials: RwLock<Credentials>
  call     \* per thread: where its call is, and what is known of it

vars == <<node, file, creds, call>>

Absent == 0
Cookies == 1..MaxCookies

-----------------------------------------------------------------------------
(* The node.                                                               *)

\* bitcoind renames a fresh cookie into place before it answers anything.
NodeWritesCookie ==
  /\ ~node.up /\ node.cookie < MaxCookies
  /\ node' = [node EXCEPT !.cookie = @ + 1]
  /\ file' = node.cookie + 1
  /\ UNCHANGED <<creds, call>>

NodeServes ==
  /\ ~node.up /\ file = node.cookie
  /\ node' = [node EXCEPT !.up = TRUE]
  /\ UNCHANGED <<file, creds, call>>

\* A clean stop removes the cookie, a kill leaves it.
NodeStops ==
  /\ node.up
  /\ node' = [node EXCEPT !.up = FALSE]
  /\ file' \in {file, Absent}
  /\ UNCHANGED <<creds, call>>

\* Another process makes, loads or unloads the wallet.
OthersUseWallet ==
  /\ node.up
  /\ node' = [node EXCEPT !.wallet = IF @ = "loaded" THEN "unloaded" ELSE "loaded"]
  /\ UNCHANGED <<file, creds, call>>

\* What a body says: a result, an error with its code, or something else.
Result    == [kind |-> "result"]
Error(code) == [kind |-> "error", code |-> code]
Bodies    == {Result, Error(-28), [kind |-> "no result"], [kind |-> "wrong shape"],
              [kind |-> "garbage"]}

\* createwallet and loadwallet: the answer, and the wallet afterwards.
Create(wallet) ==
  CASE wallet = "none" -> {<<Result, "loaded">>}
    [] wallet = "unloaded" -> {<<Error(-4), "unloaded">>}
    [] wallet = "loaded" -> {<<Error(-4), "loaded">>, <<Error(-35), "loaded">>}
Load(wallet) ==
  CASE wallet = "none" -> {<<Error(-18), "none">>}
    [] wallet = "unloaded" -> {<<Result, "loaded">>}
    [] wallet = "loaded" -> {<<Error(-35), "loaded">>}

Does(method) ==
  CASE method = "createwallet" -> Create(node.wallet)
    [] method = "loadwallet" -> Load(node.wallet)
    [] OTHER -> {<<body, node.wallet>> : body \in Bodies}

-----------------------------------------------------------------------------
(* HTTP: one request and one response on a connection of their own.        *)

Err(reason) == [ok |-> FALSE, reason |-> reason]
Answer(status, body) == [ok |-> TRUE, status |-> status, body |-> body]

Cuts == {"status line", "headers", "body", "none"}

\* read_response: what is made of an answer of which only a part arrives; a
\* body without a Content-Length is read to wherever it ends.
ReadResponse(answer, cut, hasLength) ==
  CASE cut = "status line" -> Err("BadStatusLine")
    [] cut = "headers" -> Err("TruncatedHeaders")
    [] cut = "body" /\ hasLength -> Err("Io")
    [] cut = "body" /\ ~hasLength -> [answer EXCEPT !.body = [kind |-> "garbage"]]
    [] OTHER -> answer

-----------------------------------------------------------------------------
(* A call.                                                                 *)

Unsent == [pc |-> "idle", method |-> "any", again |-> FALSE, header |-> Absent,
           answer |-> Err("none"), ran |-> 0, outcome |-> "none"]

\* from_cookie_file: fails where there is no file.
ReadCookie == IF file = Absent THEN Err("Auth") ELSE [ok |-> TRUE, cookie |-> file]

BeginCall(t) ==
  /\ call[t].pc = "idle"
  /\ call' = [call EXCEPT ![t] = [Unsent EXCEPT
                !.pc = "header", !.method = IF t \in Ensurers THEN "createwallet" ELSE "any"]]
  /\ UNCHANGED <<node, file, creds>>

\* post: the header is built under the read lock, then a connection is made.
ReadHeader(t) ==
  /\ call[t].pc = "header"
  /\ call' = [call EXCEPT ![t].pc = "post", ![t].header = creds]
  /\ UNCHANGED <<node, file, creds>>

\* The node takes the request: refused without being run, or run. A node that
\* is down is a connection refused; one that hangs, a timeout.
Post(t) ==
  /\ call[t].pc = "post"
  /\ \/ /\ call' = [call EXCEPT ![t].pc = "read", ![t].answer = Err("Connect")]
        /\ ~node.up
        /\ UNCHANGED node
     \/ /\ node.up /\ call[t].header # node.cookie
        /\ call' = [call EXCEPT ![t].pc = "read", ![t].answer = Answer(401, [kind |-> "garbage"])]
        /\ UNCHANGED node
     \/ /\ node.up /\ call[t].header = node.cookie
        /\ \E done \in Does(call[t].method) :
             /\ call' = [call EXCEPT ![t].pc = "read", ![t].ran = @ + 1,
                           ![t].answer = Answer(IF done[1].kind = "error" THEN 500 ELSE 200, done[1])]
             /\ node' = [node EXCEPT !.wallet = done[2]]
  /\ UNCHANGED <<file, creds>>

\* What the answer becomes: JSON, its error, its result, its type.
Interpret(body) ==
  CASE body.kind = "result" -> "Ok"
    [] body.kind = "error" -> "Rpc"
    [] body.kind = "no result" -> "MissingResult"
    [] body.kind = "wrong shape" -> "UnexpectedShape"
    [] OTHER -> "MalformedResponse"

\* ensure_wallet's next call, if the last one is not its end.
Follows(method, answer) ==
  IF method = "createwallet" /\ answer.ok /\ answer.status # 401 /\ answer.body.kind = "error"
     /\ answer.body.code \in {-4, -35}
  THEN "loadwallet" ELSE "none"

\* A mutant of Verdict: a wallet another process loaded first is an error.
VerdictStrict(method, answer) ==
  IF ~answer.ok THEN answer.reason
  ELSE IF answer.status = 401 THEN "Unauthorized"
  ELSE Interpret(answer.body)

\* What the caller gets. loadwallet's -35 is "already loaded", which is fine.
Verdict(method, answer) ==
  IF ~answer.ok THEN answer.reason
  ELSE IF answer.status = 401 THEN "Unauthorized"
  ELSE IF method = "loadwallet" /\ answer.body = Error(-35) THEN "Ok"
  ELSE Interpret(answer.body)

Return(c, answer) ==
  IF Follows(c.method, answer) = "none"
  THEN [Unsent EXCEPT !.ran = c.ran, !.outcome = Verdict(c.method, answer)]
  ELSE [Unsent EXCEPT !.pc = "header", !.method = Follows(c.method, answer)]

\* A mutant of Receive: whatever went wrong, the request is sent again.
ReceiveRetriesAll(t) ==
  /\ call[t].pc = "read"
  /\ \E cut \in Cuts, hasLength \in BOOLEAN :
       LET answer == IF call[t].answer.ok THEN ReadResponse(call[t].answer, cut, hasLength)
                     ELSE call[t].answer
       IN  call' = [call EXCEPT ![t] =
             IF ~call[t].again /\ (~answer.ok \/ answer.status = 401)
             THEN [@ EXCEPT !.pc = "reload", !.again = TRUE]
             ELSE Return(@, answer)]
  /\ UNCHANGED <<node, file, creds>>

\* The first 401 leads to a reload; a second one, and everything else, returns.
Receive(t) ==
  /\ call[t].pc = "read"
  /\ \E cut \in Cuts, hasLength \in BOOLEAN :
       LET answer == IF call[t].answer.ok THEN ReadResponse(call[t].answer, cut, hasLength)
                     ELSE call[t].answer
       IN  call' = [call EXCEPT ![t] =
             IF ~call[t].again /\ answer.ok /\ answer.status = 401
             THEN [@ EXCEPT !.pc = "reload", !.again = TRUE]
             ELSE Return(@, answer)]
  /\ UNCHANGED <<node, file, creds>>

\* reload_credentials, first half: the file is read outside the lock.
Reload(t) ==
  /\ call[t].pc = "reload"
  /\ call' = [call EXCEPT ![t] = IF ReadCookie.ok
                THEN [@ EXCEPT !.pc = "store", !.header = ReadCookie.cookie]
                ELSE [@ EXCEPT !.pc = "idle", !.outcome = ReadCookie.reason]]
  /\ UNCHANGED <<node, file, creds>>

\* A mutant of Store: what was read is used by this call and not kept, and the
\* retry goes out with what it was refused with.
StoreNothing(t) ==
  /\ call[t].pc = "store"
  /\ call' = [call EXCEPT ![t].pc = "header"]
  /\ UNCHANGED <<node, file, creds>>

\* Second half: the write lock. Then the same request once more.
Store(t) ==
  /\ call[t].pc = "store"
  /\ creds' = call[t].header
  /\ call' = [call EXCEPT ![t].pc = "header"]
  /\ UNCHANGED <<node, file>>

Step(t) == BeginCall(t) \/ ReadHeader(t) \/ Post(t) \/ Receive(t) \/ Reload(t) \/ Store(t)

-----------------------------------------------------------------------------

\* connect() reads the cookie of the node's first start.
Init ==
  /\ node = [up |-> TRUE, cookie |-> 1, wallet |-> "none"]
  /\ file = 1 /\ creds = 1
  /\ call = [t \in Threads |-> Unsent]

Next ==
  \/ NodeWritesCookie \/ NodeServes \/ NodeStops \/ OthersUseWallet
  \/ \E t \in Threads : Step(t)

Spec == Init /\ [][Next]_vars

\* A thread that has a call under way goes on with it, and the pool's threads
\* poll for as long as they live. Nothing is assumed of the node.
FairSpec == Spec /\ \A t \in Threads : WF_vars(Step(t))

-----------------------------------------------------------------------------
(* Properties.                                                             *)

\* What every variable holds; a cookie in use is one the node made.
TypeOK ==
  /\ node \in [up : BOOLEAN, cookie : Cookies, wallet : {"none", "unloaded", "loaded"}]
  /\ file \in {Absent} \cup Cookies
  /\ creds \in Cookies
  /\ \A t \in Threads : call[t].header \in {Absent} \cup Cookies /\ call[t].ran \in Nat

\* A request is never run twice by the node: only one that was refused before
\* it ran is sent again. submitblock and createwallet are not idempotent.
NothingRunsTwice == \A t \in Threads : call[t].ran <= 1

\* One restart, whenever it comes and whichever threads meet it together, is
\* survived by every call: the second 401 needs a second restart.
OneRestartIsSurvived ==
  node.cookie <= 2 => \A t \in Threads : call[t].outcome # "Unauthorized"

\* ensure_wallet never fails because the wallet is already there, in whatever
\* state another process leaves it between the two calls.
AWalletThereIsEnough == \A t \in Ensurers : call[t].outcome # "Rpc"

\* No restart turns the client into a zombie (client.rs:104-106): once the node
\* stays up, calls are sooner or later authorised and stay so.
NoZombie ==
  \A t \in Threads :
    <>[]node.up => <>[](call[t].outcome \notin {"Unauthorized", "Auth"})
=============================================================================
