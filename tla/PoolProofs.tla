----------------------------- MODULE PoolProofs -----------------------------
(***************************************************************************)
(* The pool's server. First the safety invariants of PoolJobs, and that it *)
(* implements the safety part of JobFeed, for every number of connections  *)
(* and jobs and every length of the history. Then the type correctness and *)
(* the safety invariants of PollerHealth, for all limits and for turns of  *)
(* any length.                                                             *)
(***************************************************************************)
EXTENDS PoolJobs, PollerHealth, TLAPS

-----------------------------------------------------------------------------
(* The inductive invariant.                                                *)

\* What the poller holds between building a job and broadcasting it.
PollerInv ==
  /\ built # NoJob <=> poll \in {"install", "broadcast"}
  /\ lastTip # NoTip => lastTip <= tip
  /\ built # NoJob => built.id < nextId /\ built.tip <= tip
  /\ \A i \in 1..Len(jobs) : jobs[i].tip <= tip
  /\ poll = "install" => \A i \in 1..Len(jobs) : jobs[i].id < built.id /\ jobs[i].tip <= built.tip
  /\ poll = "broadcast" => jobs # << >> /\ jobs[1] = built

\* Ids are spent on new tips and on extras.
TipsServed == IF built # NoJob THEN built.tip + 1 ELSE IF lastTip = NoTip THEN 0 ELSE lastTip + 1
CountInv == nextId <= 1 + extra + TipsServed

\* The jobs a miner can have heard of, and lines that speak of no others.
HeardIds == {id \in Ids : Known(id) \/ Aged(id)}
AllHeard(q, ids) == \A i \in 1..Len(q) : q[i].type = "notify" => q[i].job.id \in ids

HeardInv(c) ==
  /\ work[c] # NoJob => work[c].id \in HeardIds
  /\ got[c] # 0 => got[c] \in HeardIds
  /\ sess[c] = "sendWork" => held[c].id \in HeardIds
  /\ AllHeard(out[c], HeardIds)

\* A request to authorize follows the reply to subscribe, which precedes the
\* registration; the next request is not served before that.
Has(q, type) == \E i \in 1..Len(q) : q[i].type = type

HandshakeInv(c) ==
  /\ c \in subs => sess[c] \notin {"none", "done"}
  /\ miner[c] = "off" => sess[c] = "none" /\ ~auth[c] /\ out[c] = << >>
  /\ miner[c] \notin {"off", "gone"} =>
       /\ writer[c] /\ sess[c] \notin {"none", "done"}
       /\ \/ miner[c] \in {"authorizing", "running"}
          \/ req[c].type \in {"authorize", "submit"}
          \/ Has(out[c], "subscribed")
          => c \in subs \/ sess[c] = "subscribe"
       /\ auth[c] => c \in subs /\ (miner[c] = "running" \/ Has(out[c], "authorized"))

\* The newest job is with the miner, on its way, or about to be sent.
Behind(q, id) ==
  \E i \in 1..Len(q) : /\ q[i].type = "notify" /\ q[i].job.id = id
                       /\ \A k \in i..Len(q) : q[k].type # "authorized"

ReachInv(c) ==
  auth[c] /\ miner[c] # "gone" /\ poll # "broadcast" /\ jobs # << >> =>
    \/ sess[c] = "readWork"
    \/ sess[c] = "sendWork" /\ held[c].id = Current.id
    \/ got[c] = Current.id
    \/ Behind(out[c], Current.id)

ConnInv(c) == HeardInv(c) /\ HandshakeInv(c) /\ ReachInv(c)

IInv ==
  /\ TypeOK /\ PollerInv /\ CountInv /\ HistoryNewestFirst
  /\ \A c \in Conns : ConnInv(c)

USE MaxTipAssumption, MaxExtraAssumption, HistoryAssumption

-----------------------------------------------------------------------------
(* Types, the pool's and each connection's apart.                          *)

PoolTypes ==
  /\ tip \in Tips
  /\ jobs \in Seq(Job) /\ Len(jobs) <= History
  /\ nextId \in Ids \cup {MaxTip + 2 + MaxExtra}
  /\ subs \subseteq Conns
  /\ wakeups \in BOOLEAN
  /\ poll \in {"fetch", "install", "broadcast", "wait"}
  /\ built \in Job \cup {NoJob} /\ lastTip \in Tips \cup {NoTip} /\ extra \in 0..MaxExtra
  /\ unanswered \in BOOLEAN

ConnTypes ==
  /\ sess \in [Conns -> {"none", "idle", "subscribe", "readWork", "sendWork",
                         "check", "refresh", "done"}]
  /\ auth \in [Conns -> BOOLEAN]
  /\ held \in [Conns -> Job \cup {NoJob}]
  /\ req \in [Conns -> Request]
  /\ out \in [Conns -> Seq(Message)]
  /\ writer \in [Conns -> BOOLEAN]
  /\ miner \in [Conns -> {"off", "subscribing", "authorizing", "running", "gone"}]
  /\ work \in [Conns -> Job \cup {NoJob}]
  /\ got \in [Conns -> Ids \cup {0}]

LEMMA TypesApart == TypeOK <=> PoolTypes /\ ConnTypes
BY DEF TypeOK, PoolTypes, ConnTypes

\* set_current_job puts the job in front and drops at most the oldest.
LEMMA InstallEffect ==
  ASSUME PoolTypes, built \in Job, jobs' = PushFront(built, jobs)
  PROVE  /\ jobs' \in Seq(Job) /\ jobs' # << >> /\ jobs'[1] = built
         /\ Len(jobs') = IF Len(jobs) < History THEN Len(jobs) + 1 ELSE History
         /\ \A i \in 2..Len(jobs') : jobs'[i] = jobs[i - 1] /\ i - 1 \in 1..Len(jobs)
BY DEF PushFront, PoolTypes

LEMMA IdsSuffice ==
  ASSUME PoolTypes, PollerInv, CountInv
  PROVE  /\ nextId <= 1 + extra + (MaxTip + 1)
         /\ built = NoJob /\ tip # lastTip => nextId <= 1 + extra + tip
<1>1. TipsServed <= MaxTip + 1 /\ (built = NoJob /\ tip # lastTip => TipsServed <= tip) /\ TipsServed \in Nat
  BY DEF TipsServed, PoolTypes, PollerInv, Tips, NoTip, Job, Ids, NoJob
<1>2. nextId \in Nat /\ extra \in Nat /\ tip \in Nat
  BY DEF PoolTypes, Ids, Tips
<1> QED
  BY <1>1, <1>2 DEF CountInv

\* An action that concerns one connection leaves the poller as it is.
Bystander == UNCHANGED <<jobs, nextId, poller>>

LEMMA ConnectionsStandBy ==
  ASSUME NEW c \in Conns,
         Connect(c) \/ MinerSubmits(c) \/ MinerLeaves(c) \/ Session(c) \/ Line(c)
  PROVE  Bystander
BY DEF Bystander, Connect, MinerSubmits, MinerLeaves, Session, OnSubscribe, Register, OnAuthorize,
       ReadCurrentWork, SendCurrentWork, OnSubmit, ShareOnly, SubmitBlock, RequestRefresh, SessionEnds,
       Line, MinerHandshakes, MinerDiscards, MinerInstalls, WriterEnds, pool, poller

LEMMA PoolTypesStep ==
  ASSUME PoolTypes, PollerInv, CountInv, [Next]_vars
  PROVE  PoolTypes'
<1> USE DEF PoolTypes, node, pool, poller
<1>1. CASE TipMoves
  BY <1>1 DEF TipMoves, Tips
<1>2. CASE PollNothingNew \/ PollWake \/ PollTimeout
  BY <1>2 DEF PollNothingNew, PollWake, PollTimeout
<1>3. CASE PollFails
  <2>1. nextId' \in Ids \cup {MaxTip + 2 + MaxExtra}
    BY <1>3, IdsSuffice DEF PollFails, Ids
  <2>2. extra' \in 0..MaxExtra
    BY <1>3 DEF PollFails
  <2>3. poll' = "wait" /\ unanswered' = FALSE /\ UNCHANGED <<tip, jobs, subs, wakeups, built, lastTip>>
    BY <1>3 DEF PollFails
  <2> QED
    BY <2>1, <2>2, <2>3
<1>4. CASE PollBuild
  <2>0. built = NoJob
    BY <1>4 DEF PollBuild, PollerInv
  <2>1. nextId \in Ids
    BY <1>4, <2>0, IdsSuffice DEF PollBuild, Ids, Tips
  <2>2. built' \in Job
    BY <1>4, <2>1 DEF PollBuild, Job
  <2>3. nextId' \in Ids \cup {MaxTip + 2 + MaxExtra}
    BY <1>4, <2>1 DEF PollBuild, Ids
  <2>4. extra' \in 0..MaxExtra
    BY <1>4 DEF PollBuild
  <2>5. poll' = "install" /\ unanswered' = FALSE /\ UNCHANGED <<tip, jobs, subs, wakeups, lastTip>>
    BY <1>4 DEF PollBuild
  <2> QED
    BY <2>2, <2>3, <2>4, <2>5
<1>5. CASE PollInstall
  <2>1. built \in Job
    BY <1>5 DEF PollInstall, PollerInv
  <2>2. jobs' \in Seq(Job) /\ Len(jobs') <= History
    BY <1>5, <2>1, InstallEffect DEF PollInstall
  <2> QED
    BY <1>5, <2>2 DEF PollInstall
<1>6. CASE PollBroadcast
  <2>1. lastTip' \in Tips
    BY <1>6 DEF PollBroadcast, PollerInv, Job
  <2> QED
    BY <1>6, <2>1 DEF PollBroadcast
<1>7. ASSUME NEW c \in Conns, Connect(c) \/ MinerSubmits(c) \/ MinerLeaves(c) \/ Session(c) \/ Line(c)
      PROVE  PoolTypes'
  <2>1. CASE Session(c)
    <3>1. CASE SubmitBlock(c)
      BY <3>1 DEF SubmitBlock, Tips
    <3>2. CASE RequestRefresh(c)
      BY <3>2 DEF RequestRefresh
    <3>3. CASE Register(c) \/ SessionEnds(c)
      BY <3>3 DEF Register, SessionEnds
    <3>4. CASE OnSubscribe(c) \/ OnAuthorize(c) \/ ReadCurrentWork(c) \/ SendCurrentWork(c) \/ OnSubmit(c) \/ ShareOnly(c)
      BY <3>4 DEF OnSubscribe, OnAuthorize, ReadCurrentWork, SendCurrentWork, OnSubmit, ShareOnly
    <3> QED
      BY <2>1, <3>1, <3>2, <3>3, <3>4 DEF Session
  <2>2. CASE Connect(c) \/ MinerSubmits(c) \/ MinerLeaves(c) \/ Line(c)
    BY <2>2 DEF Connect, MinerSubmits, MinerLeaves, Line, MinerHandshakes, MinerDiscards, MinerInstalls, WriterEnds
  <2> QED
    BY <1>7, <2>1, <2>2
<1>8. CASE UNCHANGED vars
  BY <1>8 DEF vars, node
<1> QED
  BY <1>1, <1>2, <1>3, <1>4, <1>5, <1>6, <1>7, <1>8 DEF Next, Poller, Environment

LEMMA Lines ==
  ASSUME NEW j \in Job \cup {NoJob}
  PROVE  /\ Notify(j) \in Message /\ Submit(j) \in Request
         /\ Subscribed \in Message /\ Authorized \in Message
         /\ Subscribe \in Request /\ Authorize \in Request /\ NoRequest \in Request
BY DEF Subscribed, Authorized, Notify, Subscribe, Authorize, Submit, NoRequest, Message, Request, Job, NoJob

LEMMA ConnTypesStep ==
  ASSUME PoolTypes, PollerInv, ConnTypes, [Next]_vars
  PROVE  ConnTypes'
<1> USE DEF ConnTypes, session, wire, client
<1>0. /\ Subscribed \in Message /\ Authorized \in Message
      /\ Subscribe \in Request /\ Authorize \in Request /\ NoRequest \in Request
  BY Lines
<1>1. CASE TipMoves \/ PollNothingNew \/ PollWake \/ PollTimeout \/ PollFails \/ PollBuild \/ PollInstall
  BY <1>1 DEF TipMoves, PollNothingNew, PollWake, PollTimeout, PollFails, PollBuild, PollInstall
<1>2. CASE PollBroadcast
  <2>1. Notify(built) \in Message
    BY Lines DEF PoolTypes
  <2> QED
    BY <1>2, <2>1 DEF PollBroadcast
<1>3. ASSUME NEW c \in Conns, Connect(c) PROVE ConnTypes'
  BY <1>0, <1>3 DEF Connect
<1>4. ASSUME NEW c \in Conns, MinerSubmits(c) PROVE ConnTypes'
  <2>1. Submit(work[c]) \in Request
    BY Lines
  <2> QED
    BY <1>4, <2>1 DEF MinerSubmits
<1>5. ASSUME NEW c \in Conns, MinerLeaves(c) PROVE ConnTypes'
  BY <1>5 DEF MinerLeaves
<1>6. ASSUME NEW c \in Conns, Session(c) PROVE ConnTypes'
  <2> USE DEF Sent, Step, Dispatch, Drop
  <2>1. CASE OnSubscribe(c)
    BY <1>0, <2>1 DEF OnSubscribe
  <2>2. CASE OnAuthorize(c)
    BY <1>0, <2>2 DEF OnAuthorize
  <2>3. CASE Register(c) \/ RequestRefresh(c)
    BY <2>3 DEF Register, RequestRefresh
  <2>4. CASE ReadCurrentWork(c)
    <3>1. jobs # << >> => Current \in Job
      BY DEF PoolTypes, Current
    <3> QED
      BY <2>4, <3>1 DEF ReadCurrentWork
  <2>5. CASE SendCurrentWork(c)
    <3>1. Notify(held[c]) \in Message
      BY Lines
    <3> QED
      BY <2>5, <3>1 DEF SendCurrentWork
  <2>6. CASE OnSubmit(c)
    <3>1. ASSUME Known(req[c].id) PROVE JobById(req[c].id) \in Job
      <4>1. PICK i \in 1..Len(jobs) : i = CHOOSE k \in 1..Len(jobs) : jobs[k].id = req[c].id
        BY <3>1 DEF Known
      <4> QED
        BY <4>1 DEF PoolTypes, JobById
    <3>2. held' \in [Conns -> Job \cup {NoJob}]
      BY <2>6, <3>1 DEF OnSubmit
    <3>3. sess'[c] \in {"check", "idle"} /\ sess' = [sess EXCEPT ![c] = sess'[c]] /\ req' = [req EXCEPT ![c] = NoRequest]
      BY <2>6 DEF OnSubmit
    <3> QED
      BY <1>0, <2>6, <3>2, <3>3 DEF OnSubmit
  <2>7. CASE ShareOnly(c) \/ SubmitBlock(c)
    BY <2>7 DEF ShareOnly, SubmitBlock
  <2>8. CASE SessionEnds(c)
    BY <1>0, <2>8 DEF SessionEnds
  <2> QED
    BY <1>6, <2>1, <2>2, <2>3, <2>4, <2>5, <2>6, <2>7, <2>8 DEF Session
<1>7. ASSUME NEW c \in Conns, Line(c) PROVE ConnTypes'
  <2> USE DEF Deliver
  <2>1. CASE MinerHandshakes(c)
    <3>1. out' = [out EXCEPT ![c] = Tail(@)] /\ out[c] # << >>
      BY <2>1 DEF MinerHandshakes
    <3>2. req' = req \/ req' = [req EXCEPT ![c] = Authorize]
      BY <2>1 DEF MinerHandshakes
    <3>3. miner' = [miner EXCEPT ![c] = "authorizing"] \/ miner' = [miner EXCEPT ![c] = "running"]
      BY <2>1 DEF MinerHandshakes
    <3>4. UNCHANGED <<sess, auth, held, writer, work, got>>
      BY <2>1 DEF MinerHandshakes
    <3>5. out' \in [Conns -> Seq(Message)]
      BY <3>1
    <3>6. req' \in [Conns -> Request]
      BY <1>0, <3>2
    <3>7. miner' \in [Conns -> {"off", "subscribing", "authorizing", "running", "gone"}]
      BY <3>3
    <3> QED
      BY <3>4, <3>5, <3>6, <3>7
  <2>2. CASE MinerDiscards(c)
    BY <2>2 DEF MinerDiscards
  <2>3. CASE MinerInstalls(c)
    <3>0. Head(out[c]) \in Message
      BY <2>3 DEF MinerInstalls
    <3>1. Head(out[c]).job \in Job \cup {NoJob}
      BY <3>0 DEF Message
    <3>2. Head(out[c]).job.id \in Ids \cup {0}
      BY <3>1 DEF Job, NoJob
    <3> QED
      BY <2>3, <3>1, <3>2 DEF MinerInstalls
  <2>4. CASE WriterEnds(c)
    BY <2>4 DEF WriterEnds
  <2> QED
    BY <1>7, <2>1, <2>2, <2>3, <2>4 DEF Line
<1>8. CASE UNCHANGED vars
  BY <1>8 DEF vars
<1> QED
  BY <1>1, <1>2, <1>3, <1>4, <1>5, <1>6, <1>7, <1>8 DEF Next, Poller, Environment

-----------------------------------------------------------------------------
(* The poller, the ids it spends and the history it leaves.                *)

LEMMA PollerStep ==
  ASSUME PoolTypes, PollerInv, HistoryNewestFirst, [Next]_vars
  PROVE  PollerInv' /\ HistoryNewestFirst'
<1> USE DEF PollerInv, HistoryNewestFirst, PoolTypes, node, pool, poller
<1>0. Job \subseteq [id : Nat, tip : Nat] /\ (\A j \in Job : j.tip \in Tips) /\ NoJob \notin Job /\ NoTip \notin Tips /\ Tips \subseteq Nat
  BY DEF Job, NoJob, Ids, Tips, NoTip
<1>n. nextId \in Nat \ {0}
  BY DEF Ids
<1>1. ASSUME UNCHANGED <<jobs, nextId, poller>>, tip' \in {tip, tip + 1} PROVE PollerInv' /\ HistoryNewestFirst'
  BY <1>0, <1>1
<1>2. CASE PollNothingNew \/ PollWake \/ PollTimeout
  BY <1>2 DEF PollNothingNew, PollWake, PollTimeout
<1>3. CASE PollFails
  BY <1>3, <1>n, <1>0 DEF PollFails
<1>4. CASE PollBuild
  <2>1. built' # NoJob /\ built'.id = nextId /\ built'.tip = tip
    BY <1>4, <1>n, <1>0 DEF PollBuild, NoJob, Ids
  <2>2. poll' = "install" /\ nextId' = nextId + 1 /\ UNCHANGED <<jobs, tip, lastTip>>
    BY <1>4 DEF PollBuild
  <2> QED
    BY <1>0, <1>n, <2>1, <2>2
<1>5. CASE PollInstall
  <2>1. built \in Job
    BY <1>5 DEF PollInstall
  <2>2. /\ jobs' # << >> /\ jobs'[1] = built /\ Len(jobs') \in Nat
        /\ \A i \in 2..Len(jobs') : jobs'[i] = jobs[i - 1] /\ i - 1 \in 1..Len(jobs)
    BY <1>5, <2>1, InstallEffect DEF PollInstall
  <2>3. poll = "install" /\ poll' = "broadcast" /\ UNCHANGED <<tip, nextId, built, lastTip>>
    BY <1>5 DEF PollInstall
  <2>h. /\ \A i \in 1..Len(jobs) : jobs[i].id < built.id /\ jobs[i].tip <= built.tip /\ jobs[i].tip <= tip
        /\ \A i, k \in 1..Len(jobs) : i < k => jobs[i].id > jobs[k].id /\ jobs[i].tip >= jobs[k].tip
        /\ \A i \in 1..Len(jobs) : jobs[i].id < nextId
        /\ built.id < nextId /\ built.tip <= tip
    BY <1>0, <2>1, <2>3
  <2>i. \A i \in 1..Len(jobs') : i = 1 \/ i \in 2..Len(jobs')
    BY <2>2
  <2>4. \A i \in 1..Len(jobs') : jobs'[i].tip <= tip /\ jobs'[i].id < nextId
    <3> HIDE DEF PollerInv, HistoryNewestFirst, PoolTypes
    <3> QED
      BY <2>2, <2>h, <2>i
  <2>5. ASSUME NEW i \in 1..Len(jobs'), NEW k \in 1..Len(jobs'), i < k
        PROVE  jobs'[i].id > jobs'[k].id /\ jobs'[i].tip >= jobs'[k].tip
    <3> HIDE DEF PollerInv, HistoryNewestFirst, PoolTypes
    <3>1. k \in 2..Len(jobs') /\ jobs'[k] = jobs[k - 1] /\ k - 1 \in 1..Len(jobs) /\ jobs[k - 1] \in Job
      BY <2>2, <2>5 DEF PoolTypes
    <3>2. CASE i = 1
      BY <1>0, <2>1, <2>2, <2>h, <3>1, <3>2
    <3>3. CASE i \in 2..Len(jobs')
      <4>1. jobs'[i] = jobs[i - 1] /\ i - 1 \in 1..Len(jobs) /\ i - 1 < k - 1
        BY <2>2, <2>5, <3>1, <3>3
      <4> QED
        BY <2>h, <3>1, <4>1
    <3> QED
      BY <2>i, <3>2, <3>3
  <2>6. PollerInv'
    BY <1>0, <2>1, <2>2, <2>3, <2>4
  <2>7. HistoryNewestFirst'
    BY <2>3, <2>4, <2>5
  <2> QED
    BY <2>6, <2>7
<1>6. CASE PollBroadcast
  BY <1>0, <1>6 DEF PollBroadcast
<1>7. ASSUME NEW c \in Conns, Connect(c) \/ MinerSubmits(c) \/ MinerLeaves(c) \/ Session(c) \/ Line(c)
      PROVE  PollerInv' /\ HistoryNewestFirst'
  <2>1. tip' \in {tip, tip + 1}
    BY <1>7 DEF Connect, MinerSubmits, MinerLeaves, Session, OnSubscribe, Register, OnAuthorize,
       ReadCurrentWork, SendCurrentWork, OnSubmit, ShareOnly, SubmitBlock, RequestRefresh, SessionEnds,
       Line, MinerHandshakes, MinerDiscards, MinerInstalls, WriterEnds
  <2> QED
    BY <1>1, <1>7, <2>1, ConnectionsStandBy DEF Bystander
<1>8. CASE TipMoves \/ UNCHANGED vars
  BY <1>1, <1>8 DEF TipMoves, vars
<1> QED
  BY <1>2, <1>3, <1>4, <1>5, <1>6, <1>7, <1>8 DEF Next, Poller, Environment

LEMMA CountStep ==
  ASSUME PoolTypes, PollerInv, CountInv, [Next]_vars
  PROVE  CountInv'
<1>0. Job \subseteq [id : Nat, tip : Nat] /\ (\A j \in Job : j.tip \in Tips) /\ NoJob \notin Job /\ NoTip \notin Tips /\ Tips \subseteq Nat
  BY DEF Job, NoJob, Ids, Tips, NoTip
<1>n. nextId \in Nat \ {0}
  BY DEF PoolTypes, Ids
<1>b. /\ built \in Job \cup {NoJob} /\ lastTip \in Tips \cup {NoTip} /\ extra \in Nat /\ tip \in Tips
      /\ built # NoJob <=> poll \in {"install", "broadcast"}
      /\ lastTip # NoTip => lastTip <= tip
  BY DEF PoolTypes, PollerInv
<1>s. TipsServed \in Nat
  BY <1>0, <1>b DEF TipsServed
<1>1. CASE PollFails
  <2>1. nextId' \in {nextId, nextId + 1} /\ extra' = extra + 1 /\ UNCHANGED <<built, lastTip>>
    BY <1>1 DEF PollFails
  <2> QED
    BY <1>b, <1>n, <1>s, <2>1 DEF CountInv, TipsServed
<1>2. CASE PollBuild
  <2>1. built' # NoJob /\ built'.tip = tip /\ built = NoJob /\ UNCHANGED lastTip
    BY <1>2, <1>n, <1>b DEF PollBuild, NoJob
  <2>2. nextId' = nextId + 1
    BY <1>2 DEF PollBuild
  <2>3. (extra' = extra + 1 /\ lastTip = tip) \/ (extra' = extra /\ lastTip # tip)
    BY <1>2, <1>b DEF PollBuild
  <2> QED
    BY <1>0, <1>b, <1>n, <2>1, <2>2, <2>3 DEF CountInv, TipsServed
<1>3. CASE PollBroadcast
  <2>1. built # NoJob /\ built' = NoJob /\ lastTip' = built.tip /\ UNCHANGED <<nextId, extra>>
    BY <1>3, <1>b DEF PollBroadcast, pool
  <2> QED
    BY <1>0, <1>b, <2>1 DEF CountInv, TipsServed
<1>4. CASE TipMoves \/ PollNothingNew \/ PollInstall \/ PollWake \/ PollTimeout \/ UNCHANGED vars
  <2>1. UNCHANGED <<nextId, built, lastTip, extra>>
    BY <1>4 DEF TipMoves, PollNothingNew, PollInstall, PollWake, PollTimeout, vars, pool, poller
  <2> QED
    BY <2>1 DEF CountInv, TipsServed
<1>5. ASSUME NEW c \in Conns, Connect(c) \/ MinerSubmits(c) \/ MinerLeaves(c) \/ Session(c) \/ Line(c)
      PROVE  CountInv'
  BY <1>5, ConnectionsStandBy DEF Bystander, CountInv, TipsServed, poller
<1> QED
  BY <1>1, <1>2, <1>3, <1>4, <1>5 DEF Next, Poller, Environment

-----------------------------------------------------------------------------
(* What miners have heard of.                                              *)

LEMMA InHistory ==
  ASSUME PoolTypes, NEW i \in 1..Len(jobs)
  PROVE  jobs[i] \in Job /\ jobs[i].id \in Ids
<1>1. jobs[i] \in Job
  BY DEF PoolTypes
<1> QED
  BY <1>1 DEF Job

LEMMA HeardGrows ==
  ASSUME PoolTypes, PollerInv, HistoryNewestFirst, [Next]_vars
  PROVE  HeardIds \subseteq HeardIds'
<1>1. CASE UNCHANGED jobs
  BY <1>1 DEF HeardIds, Known, Aged
<1>2. CASE PollInstall
  <2>1. built \in Job
    BY <1>2 DEF PollInstall, PoolTypes, PollerInv
  <2>2. /\ jobs' # << >> /\ jobs'[1] = built
        /\ Len(jobs') = IF Len(jobs) < History THEN Len(jobs) + 1 ELSE History
        /\ \A i \in 2..Len(jobs') : jobs'[i] = jobs[i - 1] /\ i - 1 \in 1..Len(jobs)
    BY <1>2, <2>1, InstallEffect DEF PollInstall
  <2>3. Len(jobs) \in Nat /\ Len(jobs) <= History /\ \A i \in 1..Len(jobs) : jobs[i].id \in Nat
    BY InHistory DEF PoolTypes, Ids
  <2>4. \A i \in 1..Len(jobs) : jobs[i].id < built.id
    BY <1>2 DEF PollInstall, PollerInv
  <2>5. \A i, k \in 1..Len(jobs) : i < k => jobs[i].id > jobs[k].id
    BY DEF HistoryNewestFirst
  <2>6. built.id \in Nat
    BY <2>1 DEF Job, Ids
  <2> SUFFICES ASSUME NEW id \in HeardIds PROVE id \in HeardIds'
    OBVIOUS
  <2>7. id \in Nat
    BY DEF HeardIds, Ids
  <2>8. CASE Known(id)
    <3>1. PICK i \in 1..Len(jobs) : jobs[i].id = id
      BY <2>8 DEF Known
    <3>2. CASE i < History
      <4>1. i + 1 \in 2..Len(jobs') /\ jobs'[i + 1] = jobs[i]
        BY <2>2, <2>3, <3>1, <3>2
      <4>2. Known(id)'
        BY <2>2, <2>3, <3>1, <4>1 DEF Known
      <4> QED
        BY <4>2 DEF HeardIds
    <3>3. CASE i = History
      <4>1. Len(jobs') = History /\ Len(jobs) = History
        BY <2>2, <2>3, <3>1, <3>3
      <4>2. id < jobs'[History].id
        BY <2>2, <2>3, <2>4, <2>5, <3>1, <3>3, <4>1
      <4> QED
        BY <4>1, <4>2 DEF HeardIds, Aged
    <3> QED
      BY <2>3, <3>1, <3>2, <3>3
  <2>9. CASE Aged(id)
    <3>1. Len(jobs) = History /\ id < jobs[History].id /\ Len(jobs') = History
      BY <2>2, <2>9 DEF Aged
    <3>2. id < jobs'[History].id
      BY <2>2, <2>3, <2>4, <2>5, <2>6, <2>7, <3>1
    <3> QED
      BY <3>1, <3>2 DEF HeardIds, Aged
  <2> QED
    BY <2>8, <2>9 DEF HeardIds
<1>3. UNCHANGED jobs \/ PollInstall
  <2>1. ASSUME NEW c \in Conns, Connect(c) \/ MinerSubmits(c) \/ MinerLeaves(c) \/ Session(c) \/ Line(c)
        PROVE  UNCHANGED jobs
    BY <2>1, ConnectionsStandBy DEF Bystander
  <2>2. CASE TipMoves \/ PollNothingNew \/ PollWake \/ PollTimeout \/ PollFails \/ PollBuild \/ PollBroadcast \/ UNCHANGED vars
    BY <2>2 DEF TipMoves, PollNothingNew, PollWake, PollTimeout, PollFails, PollBuild, PollBroadcast, pool, vars
  <2> QED
    BY <2>1, <2>2 DEF Next, Poller, Environment
<1> QED
  BY <1>1, <1>2, <1>3

\* The current job is heard of, and is the newest of those that are.
LEMMA CurrentIsHeard ==
  ASSUME PoolTypes, HistoryNewestFirst, jobs # << >>
  PROVE  Current \in Job /\ Current.id \in HeardIds /\ \A id \in HeardIds : id <= Current.id
<1>1. Current \in Job /\ 1 \in 1..Len(jobs) /\ \A i \in 1..Len(jobs) : jobs[i].id \in Ids
  BY InHistory DEF PoolTypes, Current
<1>2. Current.id \in HeardIds
  BY <1>1 DEF HeardIds, Known, Current
<1>3. \A i \in 1..Len(jobs) : jobs[i].id <= Current.id
  BY <1>1 DEF HistoryNewestFirst, Current, Ids
<1>4. ASSUME NEW id \in HeardIds PROVE id <= Current.id
  <2>1. Len(jobs) \in 1..Len(jobs)
    BY <1>1
  <2>2. CASE Known(id)
    BY <1>3, <2>2 DEF Known
  <2>3. CASE Aged(id)
    <3>1. jobs[Len(jobs)].id <= Current.id /\ jobs[Len(jobs)].id \in Nat /\ Current.id \in Nat /\ id \in Nat
      <4>1. id \in Nat /\ Current.id \in Nat
        BY <1>2 DEF HeardIds, Ids
      <4>2. jobs[Len(jobs)].id <= Current.id
        BY <1>3, <2>1
      <4>3. jobs[Len(jobs)].id \in Nat
        BY <1>1, <2>1 DEF Ids
      <4> QED
        BY <4>1, <4>2, <4>3
    <3>2. id < jobs[Len(jobs)].id
      BY <2>3 DEF Aged
    <3> QED
      BY <3>1, <3>2
  <2> QED
    BY <2>2, <2>3 DEF HeardIds
<1> QED
  BY <1>1, <1>2, <1>4

-----------------------------------------------------------------------------
(* Lines on a connection.                                                  *)

LEMMA AppendLine ==
  ASSUME NEW q \in Seq(Message), NEW m \in Message, NEW r, r = Append(q, m)
  PROVE  /\ \A ids : AllHeard(q, ids) /\ (m.type = "notify" => m.job.id \in ids) => AllHeard(r, ids)
         /\ \A t : Has(r, t) <=> Has(q, t) \/ m.type = t
         /\ \A id : Behind(q, id) /\ m.type # "authorized" => Behind(r, id)
         /\ m.type = "notify" => Behind(r, m.job.id)
<1>1. /\ Len(q) \in Nat /\ Len(r) = Len(q) + 1 /\ r[Len(r)] = m
      /\ \A i \in 1..Len(q) : r[i] = q[i] /\ i \in 1..Len(r)
      /\ \A i \in 1..Len(r) : i \in 1..Len(q) \/ i = Len(r)
  OBVIOUS
<1>2. ASSUME NEW ids, AllHeard(q, ids), m.type = "notify" => m.job.id \in ids PROVE AllHeard(r, ids)
  BY <1>1, <1>2 DEF AllHeard
<1>3. ASSUME NEW t PROVE Has(r, t) <=> Has(q, t) \/ m.type = t
  BY <1>1 DEF Has
<1>4. ASSUME NEW id, Behind(q, id), m.type # "authorized" PROVE Behind(r, id)
  <2>1. PICK i \in 1..Len(q) : q[i].type = "notify" /\ q[i].job.id = id /\ \A k \in i..Len(q) : q[k].type # "authorized"
    BY <1>4 DEF Behind
  <2>2. \A k \in i..Len(r) : r[k].type # "authorized"
    BY <1>1, <1>4, <2>1
  <2> QED
    BY <1>1, <2>1, <2>2 DEF Behind
<1>5. ASSUME m.type = "notify" PROVE Behind(r, m.job.id)
  BY <1>1, <1>5 DEF Behind
<1> QED
  BY <1>2, <1>3, <1>4, <1>5

LEMMA TakeLine ==
  ASSUME NEW q \in Seq(Message), q # << >>, NEW r, r = Tail(q)
  PROVE  /\ Has(q, Head(q).type)
         /\ \A ids : AllHeard(q, ids) =>
              AllHeard(r, ids) /\ (Head(q).type = "notify" => Head(q).job.id \in ids)
         /\ \A t : Has(r, t) => Has(q, t)
         /\ \A t : Has(q, t) /\ Head(q).type # t => Has(r, t)
         /\ \A id : Behind(q, id) =>
              \/ Behind(r, id)
              \/ Head(q).type = "notify" /\ Head(q).job.id = id /\ ~Has(q, "authorized")
<1>1. /\ Len(q) \in Nat \ {0} /\ Len(r) = Len(q) - 1 /\ Head(q) = q[1]
      /\ \A i \in 1..Len(r) : r[i] = q[i + 1] /\ i + 1 \in 1..Len(q)
      /\ \A i \in 1..Len(q) : i = 1 \/ i - 1 \in 1..Len(r)
  OBVIOUS
<1>2. ASSUME NEW ids, AllHeard(q, ids)
      PROVE  AllHeard(r, ids) /\ (Head(q).type = "notify" => Head(q).job.id \in ids)
  BY <1>1, <1>2 DEF AllHeard
<1>3. ASSUME NEW t PROVE Has(r, t) => Has(q, t)
  BY <1>1 DEF Has
<1>4. ASSUME NEW t, Has(q, t), Head(q).type # t PROVE Has(r, t)
  <2>1. PICK i \in 1..Len(q) : q[i].type = t
    BY <1>4 DEF Has
  <2>2. i - 1 \in 1..Len(r) /\ r[i - 1] = q[i]
    BY <1>1, <1>4, <2>1
  <2> QED
    BY <2>1, <2>2 DEF Has
<1>5. ASSUME NEW id, Behind(q, id)
      PROVE  Behind(r, id) \/ (Head(q).type = "notify" /\ Head(q).job.id = id /\ ~Has(q, "authorized"))
  <2>1. PICK i \in 1..Len(q) : q[i].type = "notify" /\ q[i].job.id = id /\ \A k \in i..Len(q) : q[k].type # "authorized"
    BY <1>5 DEF Behind
  <2>2. CASE i = 1
    BY <1>1, <2>1, <2>2 DEF Has
  <2>3. CASE i # 1
    <3>1. i - 1 \in 1..Len(r) /\ r[i - 1] = q[i]
      BY <1>1, <2>1, <2>3
    <3>2. \A k \in (i - 1)..Len(r) : r[k] = q[k + 1] /\ k + 1 \in i..Len(q)
      BY <1>1, <2>1, <3>1
    <3> QED
      BY <2>1, <3>1, <3>2 DEF Behind
  <2> QED
    BY <2>2, <2>3
<1>6. Has(q, Head(q).type)
  BY <1>1 DEF Has
<1> QED
  BY <1>2, <1>3, <1>4, <1>5, <1>6

-----------------------------------------------------------------------------
(* Each connection. Most actions leave a given one alone.                  *)

Local(d) == <<sess[d], auth[d], held[d], req[d], out[d], writer[d], miner[d], work[d], got[d]>>

ActsOn(c) == Connect(c) \/ MinerSubmits(c) \/ MinerLeaves(c) \/ Session(c) \/ Line(c)

LEMMA Elsewhere ==
  ASSUME ConnTypes, NEW c \in Conns, NEW d \in Conns, c # d, ActsOn(c)
  PROVE  UNCHANGED Local(d) /\ (d \in subs <=> d \in subs')
<1> USE DEF ConnTypes, Local, pool, session, wire, client, Sent, Step, Dispatch, Drop, Deliver
<1>1. CASE Connect(c) \/ MinerSubmits(c) \/ MinerLeaves(c)
  BY <1>1 DEF Connect, MinerSubmits, MinerLeaves
<1>2. CASE OnSubscribe(c) \/ Register(c) \/ OnAuthorize(c)
  BY <1>2 DEF OnSubscribe, Register, OnAuthorize
<1>3. CASE ReadCurrentWork(c) \/ SendCurrentWork(c)
  BY <1>3 DEF ReadCurrentWork, SendCurrentWork
<1>4. CASE OnSubmit(c)
  BY <1>4 DEF OnSubmit
<1>5. CASE ShareOnly(c) \/ SubmitBlock(c)
  BY <1>5 DEF ShareOnly, SubmitBlock
<1>6. CASE RequestRefresh(c) \/ SessionEnds(c)
  BY <1>6 DEF RequestRefresh, SessionEnds
<1>7. CASE MinerHandshakes(c)
  BY <1>7 DEF MinerHandshakes
<1>8. CASE MinerDiscards(c) \/ WriterEnds(c)
  BY <1>8 DEF MinerDiscards, WriterEnds
<1>9. CASE MinerInstalls(c)
  BY <1>9 DEF MinerInstalls
<1> QED
  BY <1>1, <1>2, <1>3, <1>4, <1>5, <1>6, <1>7, <1>8, <1>9 DEF ActsOn, Session, Line

\* Nothing happens on the connection, or only around it.
LEMMA Undisturbed ==
  ASSUME NEW d \in Conns, ConnInv(d), UNCHANGED Local(d), d \in subs <=> d \in subs',
         HeardIds \subseteq HeardIds', poll' # "broadcast" => poll # "broadcast" /\ UNCHANGED jobs
  PROVE  ConnInv(d)'
<1> USE DEF ConnInv, Local
<1>1. HeardInv(d)'
  BY DEF HeardInv, AllHeard
<1>2. HandshakeInv(d)'
  BY DEF HandshakeInv
<1>3. ReachInv(d)'
  BY DEF ReachInv, Current
<1> QED
  BY <1>1, <1>2, <1>3

LEMMA BroadcastStep ==
  ASSUME PoolTypes, ConnTypes, PollerInv, HistoryNewestFirst, PollBroadcast,
         HeardIds \subseteq HeardIds', NEW d \in Conns, ConnInv(d)
  PROVE  ConnInv(d)'
<1>1. /\ jobs # << >> /\ Current = built /\ built.id \in HeardIds /\ Notify(built) \in Message
      /\ Notify(built).type = "notify" /\ Notify(built).job = built
  <2>1. jobs # << >> /\ Current = built
    BY DEF PollBroadcast, PollerInv, Current
  <2> QED
    BY <2>1, CurrentIsHeard, Lines DEF Notify
<1>2. /\ UNCHANGED <<jobs, sess, auth, held, req, writer, miner, work, got>>
      /\ d \in subs' <=> d \in subs /\ writer[d]
      /\ out'[d] = IF d \in subs /\ writer[d] THEN Append(out[d], Notify(built)) ELSE out[d]
  BY DEF PollBroadcast, session, client
<1>3. out[d] \in Seq(Message)
  BY DEF ConnTypes
<1>4. CASE d \in subs /\ writer[d]
  <2>0. out'[d] = Append(out[d], Notify(built))
    BY <1>2, <1>4
  <2>1. /\ AllHeard(out[d], HeardIds) => AllHeard(out'[d], HeardIds)
        /\ \A t : Has(out'[d], t) <=> Has(out[d], t) \/ Notify(built).type = t
        /\ Behind(out'[d], built.id)
    BY <1>1, <1>3, <2>0, AppendLine
  <2>2. HeardInv(d)'
    BY <1>2, <2>1 DEF ConnInv, HeardInv, AllHeard
  <2>3. HandshakeInv(d)'
    BY <1>1, <1>2, <1>4, <2>1 DEF ConnInv, HandshakeInv
  <2>4. ReachInv(d)'
    BY <1>1, <1>2, <2>1 DEF ReachInv, Current
  <2> QED
    BY <2>2, <2>3, <2>4 DEF ConnInv
<1>5. CASE ~(d \in subs /\ writer[d])
  <2>0. out'[d] = out[d]
    BY <1>2, <1>5
  <2>2. HeardInv(d)'
    BY <1>2, <2>0 DEF ConnInv, HeardInv, AllHeard
  <2>3. HandshakeInv(d)'
    BY <1>2, <1>5, <2>0 DEF ConnInv, HandshakeInv
  <2>4. ReachInv(d)'
    BY <1>2, <1>5 DEF ConnInv, ReachInv, HandshakeInv
  <2> QED
    BY <2>2, <2>3, <2>4 DEF ConnInv
<1> QED
  BY <1>4, <1>5

LEMMA SentLine ==
  ASSUME ConnTypes, NEW c \in Conns, NEW m \in Message, out' = Sent(c, m)
  PROVE  /\ AllHeard(out[c], HeardIds) /\ (m.type = "notify" => m.job.id \in HeardIds)
              => AllHeard(out'[c], HeardIds)
         /\ \A t : Has(out[c], t) => Has(out'[c], t)
         /\ \A t : Has(out'[c], t) => Has(out[c], t) \/ m.type = t
         /\ writer[c] => Has(out'[c], m.type)
         /\ m.type # "authorized" => \A id : Behind(out[c], id) => Behind(out'[c], id)
         /\ writer[c] /\ m.type = "notify" => Behind(out'[c], m.job.id)
<1>1. out[c] \in Seq(Message) /\ out'[c] = IF writer[c] THEN Append(out[c], m) ELSE out[c]
  BY DEF ConnTypes, Sent
<1>2. CASE writer[c]
  <2>1. out'[c] = Append(out[c], m)
    BY <1>1, <1>2
  <2>2. /\ \A ids : AllHeard(out[c], ids) /\ (m.type = "notify" => m.job.id \in ids) => AllHeard(out'[c], ids)
        /\ \A t : Has(out'[c], t) <=> Has(out[c], t) \/ m.type = t
        /\ \A id : Behind(out[c], id) /\ m.type # "authorized" => Behind(out'[c], id)
        /\ m.type = "notify" => Behind(out'[c], m.job.id)
    BY <1>1, <2>1, AppendLine
  <2> QED
    BY <2>2
<1>3. CASE ~writer[c]
  BY <1>1, <1>3
<1> QED
  BY <1>2, <1>3

LEMMA SessionStep ==
  ASSUME PoolTypes, ConnTypes, HistoryNewestFirst, HeardIds \subseteq HeardIds',
         NEW c \in Conns, ConnInv(c), Session(c)
  PROVE  ConnInv(c)'
<1> USE DEF ConnInv, ConnTypes, session, wire, client, pool, poller, Step, Dispatch, Drop
<1>0. UNCHANGED <<jobs, poll>>
  BY ConnectionsStandBy DEF Bystander
<1>c. jobs # << >> => Current.id \in HeardIds
  BY CurrentIsHeard
<1>t. out[c] \in Seq(Message) /\ Subscribed \in Message /\ Authorized \in Message
      /\ Subscribed.type = "subscribed" /\ Authorized.type = "authorized" /\ Notify(held[c]) \in Message
      /\ Notify(held[c]).type = "notify" /\ Notify(held[c]).job = held[c]
  BY Lines DEF Subscribed, Authorized, Notify
<1>1. CASE OnSubscribe(c)
  <2>1. /\ sess[c] = "idle" /\ sess'[c] = "subscribe" /\ req[c].type = "subscribe" /\ req'[c] = NoRequest
        /\ out' = Sent(c, Subscribed)
        /\ UNCHANGED <<subs, auth, held, writer, miner, work, got>>
    BY <1>1 DEF OnSubscribe
  <2>2. /\ AllHeard(out[c], HeardIds) => AllHeard(out'[c], HeardIds)
        /\ Has(out[c], "authorized") => Has(out'[c], "authorized")
        /\ \A id : Behind(out[c], id) => Behind(out'[c], id)
    BY <1>t, <2>1, SentLine
  <2>3. HeardInv(c)'
    BY <2>1, <2>2 DEF HeardInv, AllHeard
  <2>4. HandshakeInv(c)'
    BY <2>1, <2>2 DEF HandshakeInv
  <2>5. ReachInv(c)'
    BY <1>0, <2>1, <2>2 DEF ReachInv, Current
  <2> QED
    BY <2>3, <2>4, <2>5
<1>2. CASE Register(c)
  <2>1. /\ sess[c] = "subscribe" /\ sess'[c] = "idle" /\ c \in subs'
        /\ UNCHANGED <<auth, held, req, out, writer, miner, work, got>>
    BY <1>2 DEF Register
  <2>3. HeardInv(c)'
    BY <2>1 DEF HeardInv, AllHeard
  <2>4. HandshakeInv(c)'
    BY <2>1 DEF HandshakeInv
  <2>5. ReachInv(c)'
    BY <1>0, <2>1 DEF ReachInv, Current
  <2> QED
    BY <2>3, <2>4, <2>5
<1>3. CASE OnAuthorize(c)
  <2>1. /\ sess[c] = "idle" /\ sess'[c] = "readWork" /\ req[c].type = "authorize" /\ req'[c] = NoRequest
        /\ out' = Sent(c, Authorized)
        /\ UNCHANGED <<subs, held, writer, miner, work, got>>
    BY <1>3 DEF OnAuthorize
  <2>2. /\ AllHeard(out[c], HeardIds) => AllHeard(out'[c], HeardIds)
        /\ writer[c] => Has(out'[c], "authorized")
        /\ Has(out'[c], "subscribed") => Has(out[c], "subscribed")
    BY <1>t, <2>1, SentLine
  <2>3. HeardInv(c)'
    BY <2>1, <2>2 DEF HeardInv, AllHeard
  <2>4. HandshakeInv(c)'
    BY <2>1, <2>2 DEF HandshakeInv
  <2>5. ReachInv(c)'
    BY <2>1 DEF ReachInv
  <2> QED
    BY <2>3, <2>4, <2>5
<1>4. CASE ReadCurrentWork(c)
  <2>1. /\ sess[c] = "readWork"
        /\ \/ jobs = << >> /\ sess'[c] = "idle"
           \/ jobs # << >> /\ sess'[c] = "sendWork" /\ held'[c] = Current
        /\ UNCHANGED <<subs, auth, req, out, writer, miner, work, got>>
    BY <1>4 DEF ReadCurrentWork
  <2>3. HeardInv(c)'
    BY <1>c, <2>1 DEF HeardInv, AllHeard
  <2>4. HandshakeInv(c)'
    BY <2>1 DEF HandshakeInv
  <2>5. ReachInv(c)'
    BY <1>0, <2>1 DEF ReachInv, Current
  <2> QED
    BY <2>3, <2>4, <2>5
<1>5. CASE SendCurrentWork(c)
  <2>1. /\ sess[c] = "sendWork" /\ sess'[c] = "idle"
        /\ out' = Sent(c, Notify(held[c]))
        /\ UNCHANGED <<subs, auth, req, writer, miner, work, got>>
    BY <1>5 DEF SendCurrentWork
  <2>2. /\ AllHeard(out[c], HeardIds) /\ held[c].id \in HeardIds => AllHeard(out'[c], HeardIds)
        /\ \A t : t # "notify" => (Has(out'[c], t) <=> Has(out[c], t))
        /\ \A id : Behind(out[c], id) => Behind(out'[c], id)
        /\ writer[c] => Behind(out'[c], held[c].id)
    BY <1>t, <2>1, SentLine
  <2>3. HeardInv(c)'
    BY <2>1, <2>2 DEF HeardInv, AllHeard
  <2>4. HandshakeInv(c)'
    BY <2>1, <2>2 DEF HandshakeInv
  <2>5. ReachInv(c)'
    BY <1>0, <2>1, <2>2 DEF ReachInv, Current, HandshakeInv
  <2> QED
    BY <2>3, <2>4, <2>5
<1>6. CASE OnSubmit(c) \/ ShareOnly(c) \/ SubmitBlock(c) \/ RequestRefresh(c)
  <2>1. /\ sess[c] \in {"idle", "check", "refresh"} /\ sess'[c] \in {"idle", "check", "refresh"}
        /\ req'[c] \in {req[c], NoRequest}
        /\ UNCHANGED <<subs, auth, out, writer, miner, work, got>>
    BY <1>6 DEF OnSubmit, ShareOnly, SubmitBlock, RequestRefresh
  <2>3. HeardInv(c)'
    BY <2>1 DEF HeardInv, AllHeard
  <2>4. HandshakeInv(c)'
    BY <2>1 DEF HandshakeInv, NoRequest
  <2>5. ReachInv(c)'
    BY <1>0, <2>1 DEF ReachInv, Current
  <2> QED
    BY <2>3, <2>4, <2>5
<1>7. CASE SessionEnds(c)
  <2>1. /\ miner[c] = "gone" /\ c \notin subs' /\ sess'[c] = "done"
        /\ UNCHANGED <<held, out, writer, miner, work, got>>
    BY <1>7 DEF SessionEnds
  <2>3. HeardInv(c)'
    BY <2>1 DEF HeardInv, AllHeard
  <2>4. HandshakeInv(c)'
    BY <2>1 DEF HandshakeInv
  <2>5. ReachInv(c)'
    BY <2>1 DEF ReachInv
  <2> QED
    BY <2>3, <2>4, <2>5
<1> QED
  BY <1>1, <1>2, <1>3, <1>4, <1>5, <1>6, <1>7 DEF Session

LEMMA ClientStep ==
  ASSUME PoolTypes, ConnTypes, HistoryNewestFirst, HeardIds \subseteq HeardIds',
         NEW c \in Conns, ConnInv(c), Connect(c) \/ MinerSubmits(c) \/ MinerLeaves(c) \/ Line(c)
  PROVE  ConnInv(c)'
<1> USE DEF ConnInv, ConnTypes, session, wire, client, pool, poller, Deliver
<1>0. UNCHANGED <<jobs, poll>>
  BY ConnectionsStandBy DEF Bystander
<1>1. CASE Connect(c)
  <2>1. /\ miner[c] = "off" /\ miner'[c] = "subscribing" /\ sess'[c] = "idle" /\ writer'[c] /\ req'[c] = Subscribe
        /\ UNCHANGED <<subs, auth, held, out, work, got>>
    BY <1>1 DEF Connect
  <2>2. out'[c] = << >> /\ ~auth[c]
    BY <2>1 DEF HandshakeInv
  <2>3. HeardInv(c)'
    BY <2>1 DEF HeardInv, AllHeard
  <2>4. HandshakeInv(c)'
    BY <2>1, <2>2 DEF HandshakeInv, Subscribe, Has
  <2>5. ReachInv(c)'
    BY <2>1, <2>2 DEF ReachInv
  <2> QED
    BY <2>3, <2>4, <2>5
<1>2. CASE MinerSubmits(c)
  <2>1. /\ miner[c] = "running"
        /\ UNCHANGED <<subs, sess, auth, held, out, writer, miner, work, got>>
    BY <1>2 DEF MinerSubmits
  <2>3. HeardInv(c)'
    BY <2>1 DEF HeardInv, AllHeard
  <2>4. HandshakeInv(c)'
    BY <2>1 DEF HandshakeInv
  <2>5. ReachInv(c)'
    BY <1>0, <2>1 DEF ReachInv, Current
  <2> QED
    BY <2>3, <2>4, <2>5
<1>3. CASE MinerLeaves(c)
  <2>1. /\ miner'[c] = "gone" /\ work'[c] = NoJob /\ got'[c] = 0
        /\ UNCHANGED <<subs, sess, auth, held, req, out, writer>>
    BY <1>3 DEF MinerLeaves
  <2>3. HeardInv(c)'
    BY <2>1 DEF HeardInv, AllHeard
  <2>4. HandshakeInv(c)'
    BY <2>1 DEF HandshakeInv
  <2>5. ReachInv(c)'
    BY <2>1 DEF ReachInv
  <2> QED
    BY <2>3, <2>4, <2>5
<1>4. CASE WriterEnds(c)
  <2>1. /\ miner[c] = "gone" /\ out'[c] = << >>
        /\ UNCHANGED <<subs, sess, auth, held, req, miner, work, got>>
    BY <1>4 DEF WriterEnds
  <2>3. HeardInv(c)'
    BY <2>1 DEF HeardInv, AllHeard
  <2>4. HandshakeInv(c)'
    BY <2>1 DEF HandshakeInv
  <2>5. ReachInv(c)'
    BY <2>1 DEF ReachInv
  <2> QED
    BY <2>3, <2>4, <2>5
<1>5. ASSUME out[c] # << >>, out' = [out EXCEPT ![c] = Tail(@)]
      PROVE  /\ Has(out[c], Head(out[c]).type)
             /\ AllHeard(out[c], HeardIds) =>
                  AllHeard(out'[c], HeardIds) /\ (Head(out[c]).type = "notify" => Head(out[c]).job.id \in HeardIds)
             /\ \A t : Has(out'[c], t) => Has(out[c], t)
             /\ \A t : Has(out[c], t) /\ Head(out[c]).type # t => Has(out'[c], t)
             /\ \A id : Behind(out[c], id) =>
                  \/ Behind(out'[c], id)
                  \/ Head(out[c]).type = "notify" /\ Head(out[c]).job.id = id /\ ~Has(out[c], "authorized")
  <2>1. out[c] \in Seq(Message) /\ out'[c] = Tail(out[c])
    BY <1>5
  <2> QED
    BY <1>5, <2>1, TakeLine
<1>6. CASE MinerHandshakes(c)
  <2>1. /\ miner[c] \notin {"off", "gone"} /\ out[c] # << >> /\ out' = [out EXCEPT ![c] = Tail(@)]
        /\ \/ /\ miner[c] = "subscribing" /\ miner'[c] = "authorizing" /\ Head(out[c]).type = "subscribed"
           \/ miner[c] = "authorizing" /\ miner'[c] = "running" /\ Head(out[c]).type = "authorized"
        /\ UNCHANGED <<subs, sess, auth, held, writer, work, got>>
    BY <1>6 DEF MinerHandshakes
  <2>2. HeardInv(c)'
    BY <1>5, <2>1 DEF HeardInv, AllHeard
  <2>3. HandshakeInv(c)'
    BY <1>5, <2>1 DEF HandshakeInv
  <2>4. ReachInv(c)'
    BY <1>0, <1>5, <2>1 DEF ReachInv, Current
  <2> QED
    BY <2>2, <2>3, <2>4
<1>7. CASE MinerDiscards(c)
  <2>1. /\ miner[c] \notin {"off", "gone", "running"} /\ out[c] # << >> /\ Head(out[c]).type = "notify"
        /\ out' = [out EXCEPT ![c] = Tail(@)]
        /\ UNCHANGED <<subs, sess, auth, held, req, writer, miner, work, got>>
    BY <1>7 DEF MinerDiscards
  <2>2. HeardInv(c)'
    BY <1>5, <2>1 DEF HeardInv, AllHeard
  <2>3. HandshakeInv(c)'
    BY <1>5, <2>1 DEF HandshakeInv
  <2>4. ReachInv(c)'
    BY <1>0, <1>5, <2>1 DEF ReachInv, HandshakeInv, Current
  <2> QED
    BY <2>2, <2>3, <2>4
<1>8. CASE MinerInstalls(c)
  <2>1. /\ miner[c] = "running" /\ out[c] # << >> /\ Head(out[c]).type = "notify"
        /\ out' = [out EXCEPT ![c] = Tail(@)]
        /\ work'[c] = Head(out[c]).job
        /\ got'[c] = IF Head(out[c]).job.id > got[c] THEN Head(out[c]).job.id ELSE got[c]
        /\ UNCHANGED <<subs, sess, auth, held, req, writer, miner>>
    BY <1>8 DEF MinerInstalls
  <2>2. HeardInv(c)'
    BY <1>5, <2>1 DEF HeardInv, AllHeard
  <2>3. HandshakeInv(c)'
    BY <1>5, <2>1 DEF HandshakeInv
  <2>4. ReachInv(c)'
    <3>1. Head(out[c]).job.id \in HeardIds /\ (got[c] # 0 => got[c] \in HeardIds)
      BY <1>5, <2>1 DEF HeardInv
    <3>2. HeardIds \subseteq Nat
      BY DEF HeardIds, Ids
    <3>3. jobs # << >> /\ (got[c] = Current.id \/ Head(out[c]).job.id = Current.id) => got'[c] = Current.id
      <4> SUFFICES ASSUME jobs # << >>, got[c] = Current.id \/ Head(out[c]).job.id = Current.id
                   PROVE  got'[c] = Current.id
        OBVIOUS
      <4>1. Current.id \in HeardIds /\ \A id \in HeardIds : id <= Current.id
        BY CurrentIsHeard
      <4>2. Head(out[c]).job.id \in Nat /\ got[c] \in Nat /\ Current.id \in Nat
        <5>1. got[c] \in Nat
          BY DEF Ids
        <5> QED
          BY <3>1, <3>2, <4>1, <5>1
      <4>3. Head(out[c]).job.id <= Current.id
        BY <3>1, <4>1
      <4>4. got[c] <= Current.id
        BY <3>1, <4>1, <4>2
      <4>5. got'[c] = IF Head(out[c]).job.id > got[c] THEN Head(out[c]).job.id ELSE got[c]
        BY <2>1
      <4> HIDE DEF ConnInv, ConnTypes
      <4> QED
        BY <4>2, <4>3, <4>4, <4>5
    <3> QED
      BY <1>0, <1>5, <2>1, <3>3 DEF ReachInv, Current
  <2> QED
    BY <2>2, <2>3, <2>4
<1> QED
  BY <1>1, <1>2, <1>3, <1>4, <1>6, <1>7, <1>8 DEF Line

LEMMA ConnStep ==
  ASSUME PoolTypes, ConnTypes, PollerInv, HistoryNewestFirst, [Next]_vars, NEW d \in Conns, ConnInv(d)
  PROVE  ConnInv(d)'
<1>0. HeardIds \subseteq HeardIds'
  BY HeardGrows
<1>1. CASE PollBroadcast
  BY <1>0, <1>1, BroadcastStep
<1>2. CASE TipMoves \/ PollNothingNew \/ PollWake \/ PollTimeout \/ PollFails \/ PollBuild \/ PollInstall \/ UNCHANGED vars
  <2>1. UNCHANGED Local(d) /\ UNCHANGED subs /\ (poll' # "broadcast" => poll # "broadcast" /\ UNCHANGED jobs)
    BY <1>2 DEF TipMoves, PollNothingNew, PollWake, PollTimeout, PollFails, PollBuild, PollInstall,
       Local, vars, pool, poller, session, wire, client
  <2> QED
    BY <1>0, <2>1, Undisturbed
<1>3. ASSUME NEW c \in Conns, ActsOn(c), c # d PROVE ConnInv(d)'
  <2>1. UNCHANGED Local(d) /\ (d \in subs <=> d \in subs')
    BY <1>3, Elsewhere
  <2>2. UNCHANGED <<jobs, poll>>
    BY <1>3, ConnectionsStandBy DEF ActsOn, Bystander, poller
  <2> QED
    BY <1>0, <2>1, <2>2, Undisturbed
<1>4. CASE ActsOn(d)
  BY <1>0, <1>4, SessionStep, ClientStep DEF ActsOn
<1> QED
  BY <1>1, <1>2, <1>3, <1>4 DEF Next, Poller, Environment, ActsOn

-----------------------------------------------------------------------------
(* The theorems.                                                           *)

\* Types, history, deliveries and subscriptions agree in every state.
THEOREM Invariant == Spec => []IInv
<1>1. Init => IInv
  <2> SUFFICES ASSUME Init PROVE IInv
    OBVIOUS
  <2>1. TypeOK
    <3>1. 0 \in Tips /\ 1 \in Ids \cup {MaxTip + 2 + MaxExtra} /\ NoRequest \in Request
      BY DEF Tips, Ids, NoRequest, Request
    <3>2. PoolTypes
      <4>1. jobs \in Seq(Job) /\ Len(jobs) <= History
        BY DEF Init
      <4>2. /\ tip \in Tips /\ nextId \in Ids \cup {MaxTip + 2 + MaxExtra}
            /\ built \in Job \cup {NoJob} /\ lastTip \in Tips \cup {NoTip}
        BY <3>1 DEF Init
      <4>3. extra \in 0..MaxExtra
        BY DEF Init
      <4> QED
        BY <4>1, <4>2, <4>3 DEF Init, PoolTypes
    <3>3. ConnTypes
      BY <3>1 DEF Init, ConnTypes
    <3> QED
      BY <3>2, <3>3, TypesApart
  <2>2. PollerInv /\ CountInv /\ HistoryNewestFirst
    BY DEF Init, PollerInv, CountInv, TipsServed, HistoryNewestFirst
  <2>3. ASSUME NEW c \in Conns PROVE ConnInv(c)
    BY DEF Init, ConnInv, HeardInv, AllHeard, HandshakeInv, ReachInv
  <2> QED
    BY <2>1, <2>2, <2>3 DEF IInv
<1>2. IInv /\ [Next]_vars => IInv'
  <2> SUFFICES ASSUME IInv, [Next]_vars PROVE IInv'
    OBVIOUS
  <2>1. /\ PoolTypes /\ ConnTypes /\ PollerInv /\ CountInv /\ HistoryNewestFirst
        /\ \A c \in Conns : ConnInv(c)
    BY TypesApart DEF IInv
  <2>2. PoolTypes' /\ ConnTypes'
    BY <2>1, PoolTypesStep, ConnTypesStep
  <2>3. TypeOK'
    BY <2>2 DEF TypeOK, PoolTypes, ConnTypes
  <2>4. PollerInv' /\ CountInv' /\ HistoryNewestFirst'
    BY <2>1, PollerStep, CountStep
  <2>5. ASSUME NEW c \in Conns PROVE ConnInv(c)'
    BY <2>1, ConnStep
  <2> QED
    BY <2>3, <2>4, <2>5 DEF IInv
<1> QED
  BY <1>1, <1>2, PTL DEF Spec

\* Every variable of the pool, its sessions and its miners keeps its type.
THEOREM TypeCorrect == Spec => []TypeOK
<1>1. IInv => TypeOK
  BY DEF IInv
<1> QED
  BY <1>1, Invariant, PTL

\* set_current_job keeps the history in the order of the ids, and of the tips.
THEOREM HistoryIsOrdered == Spec => []HistoryNewestFirst
<1>1. IInv => HistoryNewestFirst
  BY DEF IInv
<1> QED
  BY <1>1, Invariant, PTL

\* A share can name only jobs that job_by_id finds or that have aged out:
\* whatever the interleaving, no job is announced before it is installed.
THEOREM DeliveriesAreKnown == Spec => []DeliveredJobIsKnown
<1>1. IInv => DeliveredJobIsKnown
  BY DEF IInv, ConnInv, HeardInv, AllHeard, HeardIds, DeliveredJobIsKnown
<1> QED
  BY <1>1, Invariant, PTL

\* The order of on_subscribe, on_authorize and broadcast leaves no gap for a
\* job to fall through, for any number of miners in any stage of their lives.
THEOREM NoJobFallsThrough == Spec => []NoMinerMissesAJob
<1>1. IInv => NoMinerMissesAJob
  BY DEF IInv, ConnInv, ReachInv, Behind, OnItsWay, NoMinerMissesAJob
<1> QED
  BY <1>1, Invariant, PTL

\* Every subscriber has a session that will unsubscribe it.
THEOREM SubscribersAreServed == Spec => []SubscribersHaveSessions
<1>1. IInv => SubscribersHaveSessions
  <2> SUFFICES ASSUME IInv PROVE SubscribersHaveSessions
    OBVIOUS
  <2>1. subs \subseteq Conns
    BY DEF IInv, TypeOK
  <2> QED
    BY <2>1 DEF IInv, ConnInv, HandshakeInv, SubscribersHaveSessions
<1> QED
  BY <1>1, Invariant, PTL

\* The poller drains the refresh channel only when it is about to ask.
THEOREM RefreshesAreAnswered == Spec => []RefreshNotLost
<1>1. Init => RefreshNotLost
  BY DEF Init, RefreshNotLost
<1>2. TypeOK /\ RefreshNotLost /\ [Next]_vars => RefreshNotLost'
  <2> SUFFICES ASSUME TypeOK, RefreshNotLost, [Next]_vars PROVE RefreshNotLost'
    OBVIOUS
  <2> USE DEF RefreshNotLost, pool, poller
  <2>1. CASE Poller
    BY <2>1 DEF Poller, PollNothingNew, PollFails, PollBuild, PollInstall, PollBroadcast, PollWake, PollTimeout
  <2>2. CASE TipMoves \/ UNCHANGED vars
    BY <2>2 DEF TipMoves, vars
  <2>3. ASSUME NEW c \in Conns, ActsOn(c) PROVE RefreshNotLost'
    <3>1. UNCHANGED <<wakeups, unanswered>> \/ wakeups'
      BY <2>3 DEF ActsOn, Connect, MinerSubmits, MinerLeaves, Session, OnSubscribe, Register, OnAuthorize,
         ReadCurrentWork, SendCurrentWork, OnSubmit, ShareOnly, SubmitBlock, RequestRefresh, SessionEnds,
         Line, MinerHandshakes, MinerDiscards, MinerInstalls, WriterEnds
    <3>2. UNCHANGED poll
      BY <2>3, ConnectionsStandBy DEF ActsOn, Bystander
    <3> QED
      BY <3>1, <3>2
  <2> QED
    BY <2>1, <2>2, <2>3 DEF Next, Environment, ActsOn
<1> QED
  BY <1>1, <1>2, TypeCorrect, PTL DEF Spec

-----------------------------------------------------------------------------
(* PoolJobs implements the safety part of JobFeed: installing a job        *)
(* publishes it, the end of a handshake is the beginning of listening,     *)
(* what a miner installs it hears, and all else is invisible.              *)

\* What set_current_job puts in front of the history is thereby published.
LEMMA InstallPublishes ==
  ASSUME IInv, PollInstall
  PROVE  Feed!Publish
<1> USE DEF IInv
<1>1. PoolTypes /\ built \in Job
  <2>1. PoolTypes
    BY TypesApart
  <2> QED
    BY <2>1 DEF PollInstall, PoolTypes, PollerInv
<1>2. jobs' # << >> /\ jobs'[1] = built
  BY <1>1, InstallEffect DEF PollInstall
<1>3. Newest' = built
  BY <1>2 DEF Newest, Current
<1>4. built.id > Newest.id /\ built.tip >= Newest.tip
  <2>1. CASE jobs = << >>
    <3>1. Newest = NoJob
      BY <2>1 DEF Newest
    <3>2. built.id \in Ids /\ built.tip \in Tips
      BY <1>1 DEF Job
    <3> QED
      BY <3>1, <3>2 DEF NoJob, Ids, Tips
  <2>2. CASE jobs # << >>
    <3>1. 1 \in 1..Len(jobs) /\ Newest = jobs[1]
      BY <2>2, <1>1 DEF PoolTypes, Newest, Current
    <3>2. jobs[1].id < built.id /\ jobs[1].tip <= built.tip
      BY <3>1 DEF PollInstall, PollerInv
    <3>3. jobs[1].id \in Nat /\ jobs[1].tip \in Nat /\ built.id \in Nat /\ built.tip \in Nat
      BY <1>1, <3>1, InHistory DEF Job, Ids, Tips
    <3> QED
      BY <3>1, <3>2, <3>3
  <2> QED
    BY <2>1, <2>2
<1>5. Newest' \in Feed!Job
  BY <1>1, <1>3 DEF Feed!Job, Job, Ids, Tips
<1>6. UNCHANGED <<Listening, work, got>>
  BY DEF PollInstall, client, Listening
<1> QED
  BY <1>3, <1>4, <1>5, <1>6 DEF Feed!Publish

\* What a miner installs is a job the history has held, so none newer than the
\* newest.
LEMMA InstallingIsHearing ==
  ASSUME IInv, NEW c \in Conns, MinerInstalls(c)
  PROVE  Feed!Hear(c)
<1> DEFINE j == Head(out[c]).job
<1>1. PoolTypes /\ ConnTypes /\ HistoryNewestFirst /\ HeardInv(c)
  BY TypesApart DEF IInv, ConnInv
<1>2. miner[c] = "running" /\ out[c] # << >> /\ Head(out[c]).type = "notify"
  BY DEF MinerInstalls, Deliver
<1>3. out[c] \in Seq(Message) /\ 1 \in 1..Len(out[c]) /\ Head(out[c]) = out[c][1]
  BY <1>1, <1>2 DEF ConnTypes
<1>4. j.id \in HeardIds
  BY <1>1, <1>2, <1>3 DEF HeardInv, AllHeard
<1>5. j \in Job
  <2>1. j \in Job \cup {NoJob}
    <3>1. out[c][1] \in Message
      BY <1>3
    <3> QED
      BY <1>3, <3>1 DEF Message
  <2>2. j.id # 0
    BY <1>4 DEF HeardIds, Ids
  <2> QED
    BY <2>1, <2>2 DEF NoJob
<1>6. jobs # << >>
  <2>1. jobs = << >> => ~Known(j.id) /\ ~Aged(j.id)
    BY HistoryAssumption DEF Known, Aged
  <2> QED
    BY <1>4, <2>1 DEF HeardIds
<1>7. j.id <= Newest.id
  BY <1>1, <1>4, <1>6, CurrentIsHeard DEF Newest
<1>8. c \in Listening /\ UNCHANGED <<Newest, Listening>>
  BY <1>2 DEF MinerInstalls, Listening, Newest, Current, pool
<1>9. /\ work' = [work EXCEPT ![c] = j]
      /\ got' = [got EXCEPT ![c] = IF j.id > @ THEN j.id ELSE @]
  BY DEF MinerInstalls
<1>10. j \in Feed!Job
  BY <1>5 DEF Feed!Job, Job, Ids, Tips
<1> QED
  BY <1>7, <1>8, <1>9, <1>10 DEF Feed!Hear

\* The end of the handshake is the beginning of listening; before it nothing shows.
LEMMA HandshakeListens ==
  ASSUME IInv, NEW c \in Conns, MinerHandshakes(c)
  PROVE  Feed!Listen(c) \/ UNCHANGED Feed!vars
<1>1. ConnTypes
  BY TypesApart DEF IInv
<1>2. UNCHANGED <<Newest, work, got>>
  BY DEF MinerHandshakes, Newest, Current, pool
<1>3. CASE miner[c] = "subscribing"
  <2>1. miner' = [miner EXCEPT ![c] = "authorizing"]
    BY <1>3 DEF MinerHandshakes
  <2>2. Listening' = Listening
    BY <1>1, <1>3, <2>1 DEF Listening, ConnTypes
  <2> QED
    BY <1>2, <2>2 DEF Feed!vars
<1>4. CASE miner[c] = "authorizing"
  <2>1. miner' = [miner EXCEPT ![c] = "running"]
    BY <1>4 DEF MinerHandshakes
  <2>2. c \notin Listening /\ Listening' = Listening \cup {c}
    BY <1>1, <1>4, <2>1 DEF Listening, ConnTypes
  <2> QED
    BY <1>2, <2>2 DEF Feed!Listen
<1> QED
  BY <1>3, <1>4 DEF MinerHandshakes

LEMMA LeavingLeaves ==
  ASSUME IInv, NEW c \in Conns, MinerLeaves(c)
  PROVE  Feed!Leave(c)
<1>1. ConnTypes
  BY TypesApart DEF IInv
<1>2. Listening' = Listening \ {c}
  BY <1>1 DEF MinerLeaves, Listening, ConnTypes
<1>3. UNCHANGED Newest
  BY DEF MinerLeaves, Newest, Current, pool
<1>4. work' = [work EXCEPT ![c] = NoJob] /\ got' = [got EXCEPT ![c] = 0]
  BY DEF MinerLeaves
<1> QED
  BY <1>2, <1>3, <1>4 DEF Feed!Leave, NoJob, Feed!NoJob

\* Everything else is invisible from outside.
LEMMA RestIsInvisible ==
  ASSUME IInv, NEW c \in Conns,
         Connect(c) \/ MinerSubmits(c) \/ Session(c) \/ MinerDiscards(c) \/ WriterEnds(c)
  PROVE  UNCHANGED Feed!vars
<1>1. ConnTypes
  BY TypesApart DEF IInv
<1>2. UNCHANGED <<work, got>>
  BY DEF Connect, MinerSubmits, Session, OnSubscribe, Register, OnAuthorize, ReadCurrentWork,
     SendCurrentWork, OnSubmit, ShareOnly, SubmitBlock, RequestRefresh, SessionEnds, MinerDiscards,
     WriterEnds, client
<1>3. Listening' = Listening
  <2>1. CASE Connect(c)
    BY <1>1, <2>1 DEF Connect, Listening, ConnTypes
  <2>2. CASE ~Connect(c)
    <3>1. UNCHANGED miner
      BY <2>2 DEF MinerSubmits, Session, OnSubscribe, Register, OnAuthorize, ReadCurrentWork,
         SendCurrentWork, OnSubmit, ShareOnly, SubmitBlock, RequestRefresh, SessionEnds, MinerDiscards,
         WriterEnds, client
    <3> QED
      BY <3>1 DEF Listening
  <2> QED
    BY <2>1, <2>2
<1>4. UNCHANGED jobs
  BY ConnectionsStandBy DEF Bystander, Line
<1> QED
  BY <1>2, <1>3, <1>4 DEF Feed!vars, Newest, Current

LEMMA StepIsAStepOfTheFeed ==
  ASSUME IInv, [Next]_vars
  PROVE  [Feed!Next]_(Feed!vars)
<1>1. CASE PollInstall
  BY <1>1, InstallPublishes DEF Feed!Next
<1>2. CASE TipMoves \/ PollNothingNew \/ PollWake \/ PollTimeout \/ PollFails \/ PollBuild \/ PollBroadcast \/ UNCHANGED vars
  <2>1. UNCHANGED <<jobs, miner, work, got>>
    BY <1>2 DEF TipMoves, PollNothingNew, PollWake, PollTimeout, PollFails, PollBuild, PollBroadcast, pool, client, vars
  <2> QED
    BY <2>1 DEF Feed!vars, Newest, Current, Listening
<1>3. ASSUME NEW c \in Conns, ActsOn(c) PROVE [Feed!Next]_(Feed!vars)
  <2>1. CASE MinerInstalls(c)
    BY <2>1, InstallingIsHearing DEF Feed!Next
  <2>2. CASE MinerHandshakes(c)
    BY <2>2, HandshakeListens DEF Feed!Next
  <2>3. CASE MinerLeaves(c)
    BY <2>3, LeavingLeaves DEF Feed!Next
  <2>4. CASE Connect(c) \/ MinerSubmits(c) \/ Session(c) \/ MinerDiscards(c) \/ WriterEnds(c)
    BY <2>4, RestIsInvisible
  <2> QED
    BY <1>3, <2>1, <2>2, <2>3, <2>4 DEF ActsOn, Line
<1> QED
  BY <1>1, <1>2, <1>3 DEF Next, Poller, Environment, ActsOn

\* Seen from the miners, the whole pool is a feed of jobs: whatever poller,
\* sessions, history and lines do, and however many miners come and go, every
\* step publishes a newer job, begins or ends a miner's listening, lets one hear
\* of a published job, or is invisible.
THEOREM PoolIsAFeed == Spec => Feed!Safety
<1>1. Init => Feed!Init
  BY DEF Init, Feed!Init, Newest, Listening, NoJob, Feed!NoJob
<1>2. IInv /\ [Next]_vars => [Feed!Next]_(Feed!vars)
  BY StepIsAStepOfTheFeed
<1> QED
  BY <1>1, <1>2, Invariant, PTL DEF Spec, Feed!Safety

-----------------------------------------------------------------------------
(* PollerHealth: its inductive invariant. Its parts speak of unready       *)
(* rather than of paused, which PauseInv identifies.                       *)

Polling == {"fetch", "unusable", "build", "outage"}   \* up to the outage check
Resting == {"reset", "wait"}                          \* after the recheck

FlagsOK == stop \in BOOLEAN /\ paused \in BOOLEAN /\ ready \in BOOLEAN

\* A pause is announced for as long as it lasts.
PauseInv == paused <=> unready # Fit

TimersOK ==
  /\ fitness \in Condition
  /\ main \in {"await", "serving", "joining", "done"}
  /\ pc \in {"await", "top", "due", "ask", "ended"} \cup Polling \cup Resting
  /\ started \in 0..MaxUnready
  /\ sinceJob \in 0..Outage /\ sinceBuilt \in 0..Refresh /\ sinceCheck \in 0..Check
  /\ unready \in 0..MaxUnready \cup {Fit}
  /\ died \in {"no", "startup", "outage", "unfit"}
  /\ turn \in 0..TurnTime
  /\ quiet \in 0..QuietMax /\ unfitFor \in 0..UnfitMax /\ sinceFit \in 0..MaxUnready

\* While it pauses the poller does not poll, and nothing is quiet or unnoticed.
StageInv ==
  /\ pc \in Polling \cup {"await"} => unready = Fit
  /\ unready # Fit \/ pc = "await" => quiet = 0
  /\ died # "no" => pc = "ended"
  /\ fitness # "unfit" => unfitFor = 0

\* Quiet time is bounded by the outage timer below its limit; past the check of
\* that timer by the limit and the ticks of the turn; in the next turn, until
\* its own check, by those of two turns.
QuietInv ==
  pc # "ended" /\ unready = Fit =>
    /\ sinceJob < Outage => quiet <= sinceJob
    /\ pc \in {"due", "ask"} \cup Resting => quiet < Outage + turn
    /\ quiet < Outage + TurnTime + turn

\* In the same way, time on an unfit node unnoticed, by the readiness timer.
UnfitInv ==
  pc \notin {"await", "ask", "ended"} /\ unready = Fit =>
    /\ sinceCheck < Check => unfitFor <= sinceCheck
    /\ pc \in Resting => unfitFor < Check + turn
    /\ pc \in Polling \cup {"top"} => unfitFor < Check + TurnTime + turn

\* A spell of unfitness began after the last good check.
SpellInv ==
  /\ unready # Fit => sinceFit >= unready
  /\ died = "unfit" => sinceFit >= MaxUnready /\ unready # Fit

Bounds == TimersOK /\ StageInv /\ QuietInv /\ UnfitInv /\ SpellInv

HealthInv == FlagsOK /\ PauseInv /\ Bounds

USE LimitsAssumption DEF LimitsAssumption, Condition, Ready, Polling, Resting, Fit, QuietMax, UnfitMax

-----------------------------------------------------------------------------
(* The flags, and the pause they announce.                                 *)

LEMMA InitFlags == HealthInit => FlagsOK /\ PauseInv
BY DEF HealthInit, FlagsOK, PauseInv

LEMMA FlagsStep == FlagsOK /\ [HealthNext]_healthVars => FlagsOK'
<1> SUFFICES ASSUME FlagsOK, [HealthNext]_healthVars PROVE FlagsOK'
  OBVIOUS
<1> USE DEF FlagsOK, announced, timers, history
<1>1. CASE NodeChanges \/ RequestStop \/ Tick
  BY <1>1 DEF NodeChanges, RequestStop, Tick
<1>2. CASE Main
  BY <1>2 DEF Main, AwaitFails, AwaitStopped, AwaitMore, StartPolling, StopServing, JoinPoller
<1>3. CASE PollerLoop
  BY <1>3 DEF PollerLoop, Top, FetchFails, FetchNothingNew, FetchWork, BuildFails, Install, CheckOutage,
     Recheck, RecheckNotDue, RecheckDue, RecheckUnanswered, RecheckUnfit, RecheckFit, ResetOutage, Wait
<1>4. CASE UNCHANGED healthVars
  BY <1>4 DEF healthVars
<1> QED
  BY <1>1, <1>2, <1>3, <1>4 DEF HealthNext

-----------------------------------------------------------------------------
(* The timers: one lemma for each part of Next.                            *)

LEMMA InitBounds == HealthInit => Bounds
BY DEF HealthInit, Bounds, TimersOK, StageInv, QuietInv, UnfitInv, SpellInv

\* What a tick does to the timers, the pause being known from unready.
LEMMA TickEffect ==
  ASSUME PauseInv, Tick
  PROVE  quiet' = IF pc = "await" THEN quiet ELSE IF unready # Fit THEN 0 ELSE Older(quiet, QuietMax)
BY DEF PauseInv, Tick

LEMMA TickBounds == PauseInv /\ Bounds /\ Tick => Bounds'
<1> SUFFICES ASSUME PauseInv, Bounds, Tick PROVE Bounds'
  OBVIOUS
<1>q. quiet' = IF pc = "await" THEN quiet ELSE IF unready # Fit THEN 0 ELSE Older(quiet, QuietMax)
  BY TickEffect
<1>u. UNCHANGED <<fitness, main, pc, died>> /\ pc # "ended" /\ turn < TurnTime /\ turn' = turn + 1
  BY DEF Tick, announced
<1>t. /\ sinceFit' = Older(sinceFit, MaxUnready)
      /\ unfitFor' = IF fitness = "unfit" THEN Older(unfitFor, UnfitMax) ELSE 0
      /\ started' \in {started, Older(started, MaxUnready)}
      /\ pc = "await" => UNCHANGED <<sinceJob, sinceBuilt, sinceCheck, unready>>
      /\ pc # "await" => /\ sinceJob' = Older(sinceJob, Outage)
                         /\ sinceBuilt' = Older(sinceBuilt, Refresh)
                         /\ sinceCheck' = Older(sinceCheck, Check)
                         /\ unready' = IF unready = Fit THEN Fit ELSE Older(unready, MaxUnready)
  BY DEF Tick
<1> USE DEF Bounds, Older
<1>1. TimersOK'
  BY <1>q, <1>u, <1>t DEF TimersOK
<1>2. StageInv'
  BY <1>q, <1>u, <1>t DEF TimersOK, StageInv
<1>3. QuietInv'
  BY <1>q, <1>u, <1>t DEF TimersOK, StageInv, QuietInv
<1>4. UnfitInv'
  BY <1>q, <1>u, <1>t DEF TimersOK, UnfitInv
<1>5. SpellInv'
  BY <1>q, <1>u, <1>t DEF TimersOK, StageInv, SpellInv
<1> QED
  BY <1>1, <1>2, <1>3, <1>4, <1>5

LEMMA WorldBounds == Bounds /\ (NodeChanges \/ RequestStop) => Bounds'
BY DEF NodeChanges, RequestStop, Bounds, TimersOK, StageInv, QuietInv, UnfitInv, SpellInv,
       announced, timers, history

LEMMA MainBounds == Bounds /\ Main => Bounds'
<1> SUFFICES ASSUME Bounds, Main PROVE Bounds'
  OBVIOUS
<1> USE DEF Bounds, TimersOK, StageInv, QuietInv, UnfitInv, SpellInv, announced, timers, history
<1>1. CASE AwaitFails \/ AwaitStopped \/ AwaitMore
  BY <1>1 DEF AwaitFails, AwaitStopped, AwaitMore
<1>2. CASE StartPolling
  BY <1>2 DEF StartPolling
<1>3. CASE StopServing \/ JoinPoller
  BY <1>3 DEF StopServing, JoinPoller
<1> QED
  BY <1>1, <1>2, <1>3 DEF Main

LEMMA PollBounds ==
  Bounds /\ (Top \/ FetchFails \/ FetchNothingNew \/ FetchWork \/ BuildFails \/ Install \/ CheckOutage)
    => Bounds'
<1> SUFFICES ASSUME Bounds,
                    Top \/ FetchFails \/ FetchNothingNew \/ FetchWork \/ BuildFails \/ Install \/ CheckOutage
             PROVE  Bounds'
  OBVIOUS
<1> USE DEF Bounds, TimersOK, StageInv, QuietInv, UnfitInv, SpellInv, announced, timers, history
<1>1. CASE Top
  BY <1>1 DEF Top
<1>2. CASE FetchFails \/ FetchNothingNew \/ FetchWork \/ BuildFails
  BY <1>2 DEF FetchFails, FetchNothingNew, FetchWork, BuildFails
<1>3. CASE Install
  BY <1>3 DEF Install
<1>4. CASE CheckOutage
  BY <1>4 DEF CheckOutage
<1> QED
  BY <1>1, <1>2, <1>3, <1>4

LEMMA RecheckBounds == Bounds /\ (Recheck \/ ResetOutage \/ Wait) => Bounds'
<1> SUFFICES ASSUME Bounds, Recheck \/ ResetOutage \/ Wait PROVE Bounds'
  OBVIOUS
<1> USE DEF Bounds, TimersOK, StageInv, QuietInv, UnfitInv, SpellInv, AfterRecheck, announced, timers, history
<1>1. CASE RecheckNotDue
  BY <1>1 DEF RecheckNotDue
<1>2. CASE RecheckDue
  BY <1>2 DEF RecheckDue
<1>3. CASE RecheckUnanswered
  BY <1>3 DEF RecheckUnanswered
<1>4. CASE RecheckUnfit
  BY <1>4 DEF RecheckUnfit
<1>5. CASE RecheckFit
  BY <1>5 DEF RecheckFit
<1>6. CASE ResetOutage
  BY <1>6 DEF ResetOutage
<1>7. CASE Wait
  BY <1>7 DEF Wait
<1> QED
  BY <1>1, <1>2, <1>3, <1>4, <1>5, <1>6, <1>7 DEF Recheck

-----------------------------------------------------------------------------
(* The pause: announced when a spell starts, resumed when it ends.         *)

LEMMA PauseStep == FlagsOK /\ PauseInv /\ Bounds /\ [HealthNext]_healthVars => PauseInv'
<1> SUFFICES ASSUME FlagsOK, PauseInv, Bounds, [HealthNext]_healthVars PROVE PauseInv'
  OBVIOUS
<1>r. unready \in 0..MaxUnready \cup {Fit}
  BY DEF Bounds, TimersOK
<1>1. CASE Tick
  <2>1. unready' = Fit <=> unready = Fit
    BY <1>1, <1>r DEF Tick, Older
  <2> QED
    BY <1>1, <2>1, Zenon DEF Tick, announced, PauseInv
<1>2. CASE RecheckUnfit
  <2>1. CASE UNCHANGED <<unready, paused>>
    BY <2>1, Zenon DEF PauseInv
  <2>2. CASE unready' = (IF unready = Fit THEN 0 ELSE unready) /\ paused' = TRUE
    <3>1. unready' # Fit
      BY <2>2, <1>r
    <3> QED
      BY <2>2, <3>1, Zenon DEF PauseInv
  <2> QED
    BY <1>2, <2>1, <2>2 DEF RecheckUnfit
<1>3. CASE RecheckFit
  BY <1>3, Zenon DEF RecheckFit, PauseInv
<1>4. CASE NodeChanges \/ RequestStop \/ Main \/ (PollerLoop /\ ~RecheckUnfit /\ ~RecheckFit) \/ UNCHANGED healthVars
  <2>1. UNCHANGED <<unready, paused>>
    BY <1>4 DEF NodeChanges, RequestStop, Main, AwaitFails, AwaitStopped, AwaitMore, StartPolling,
       StopServing, JoinPoller, PollerLoop, Top, FetchFails, FetchNothingNew, FetchWork, BuildFails,
       Install, CheckOutage, Recheck, RecheckNotDue, RecheckDue, RecheckUnanswered, ResetOutage,
       Wait, healthVars, timers, announced, history
  <2> QED
    BY <2>1, Zenon DEF PauseInv
<1> QED
  BY <1>1, <1>2, <1>3, <1>4 DEF HealthNext

-----------------------------------------------------------------------------
(* The invariant, and what follows from it.                                *)

LEMMA BoundsStep == PauseInv /\ Bounds /\ [HealthNext]_healthVars => Bounds'
<1> SUFFICES ASSUME PauseInv, Bounds, [HealthNext]_healthVars PROVE Bounds'
  OBVIOUS
<1>1. CASE UNCHANGED healthVars
  BY <1>1 DEF healthVars, timers, announced, history, Bounds, TimersOK, StageInv, QuietInv, UnfitInv, SpellInv
<1>2. CASE HealthNext
  BY <1>2, TickBounds, WorldBounds, MainBounds, PollBounds, RecheckBounds, Zenon DEF HealthNext, PollerLoop
<1> QED
  BY <1>1, <1>2

\* The timers, the flags and the pause they announce agree, in every
\* state of the pool's life: what every theorem below rests on.
THEOREM HealthInvariant == HealthSpec => []HealthInv
<1>1. HealthInit => HealthInv
  BY InitFlags, InitBounds DEF HealthInv
<1>2. HealthInv /\ [HealthNext]_healthVars => HealthInv'
  BY FlagsStep, PauseStep, BoundsStep, Zenon DEF HealthInv
<1> QED
  BY <1>1, <1>2, PTL DEF HealthSpec

\* Every timer stays within the limit it is read against.
THEOREM HealthTypeCorrect == HealthSpec => []HealthTypeOK
<1>1. FlagsOK /\ TimersOK => HealthTypeOK
  BY DEF FlagsOK, TimersOK, HealthTypeOK
<1>2. HealthInv => HealthTypeOK
  BY <1>1, Zenon DEF HealthInv, Bounds
<1> QED
  BY <1>2, HealthInvariant, PTL

\* Whatever fails, and however long the RPCs of a turn take, a pool that has
\* not announced a pause and has not given up installed a job no longer ago
\* than the outage limit and two turns (the poller's last_job_installed).
THEOREM OutagesAreNotSilent == HealthSpec => []NoSilentOutage
<1>1. Bounds /\ pc # "ended" /\ unready = Fit => quiet < Outage + 2 * TurnTime
  BY DEF Bounds, TimersOK, QuietInv
<1>2. HealthInv => NoSilentOutage
  BY <1>1, Zenon DEF HealthInv, PauseInv, NoSilentOutage
<1> QED
  BY <1>2, HealthInvariant, PTL

\* The readiness check of the poller is frequent enough for every limit: no
\* job is built on a node unfit for longer than one interval and two turns.
THEOREM UnfitNodesGetNoWork == HealthSpec => []NoWorkFromAnUnfitNode
<1>1. Bounds => NoWorkFromAnUnfitNode
  BY DEF Bounds, TimersOK, StageInv, UnfitInv, NoWorkFromAnUnfitNode
<1> QED
  BY <1>1, HealthInvariant, PTL DEF HealthInv

\* recheck_readiness ends the pool only after MAX_UNREADY without one good
\* check, all of it announced as a pause.
THEOREM PatienceBeforeGivingUp == HealthSpec => []GivesUpOnlyAfterALongSpell
<1>1. Bounds /\ died = "unfit" => sinceFit >= MaxUnready /\ unready # Fit
  BY DEF Bounds, SpellInv
<1>2. HealthInv => GivesUpOnlyAfterALongSpell
  BY <1>1, Zenon DEF HealthInv, PauseInv, GivesUpOnlyAfterALongSpell
<1> QED
  BY <1>2, HealthInvariant, PTL
=============================================================================
