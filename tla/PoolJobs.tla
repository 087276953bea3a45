------------------------------ MODULE PoolJobs ------------------------------
(***************************************************************************)
(* How the pool turns templates into jobs and gets them to its miners:     *)
(* crates/pool/src/{state,session,lib}.rs, with the handshake of the miner *)
(* at the other end (crates/miner/src/lib.rs).                             *)
(*                                                                         *)
(* The poller thread and one reader thread per connection share PoolState. *)
(* A step is one critical section of its mutex, one use of a channel or    *)
(* one RPC, together with the thread's local work around it. The writer    *)
(* thread, the socket and the miner's reader form one reliable FIFO.       *)
(*                                                                         *)
(* Abstractions. A job is its number and the tip it builds on. Replies to  *)
(* shares and mining.set_difficulty are left out: nothing acts on them.    *)
(* Pausing on an unfit node is the subject of PollerHealth.                *)
(***************************************************************************)
EXTENDS Naturals, Sequences

CONSTANTS Conns,      \* connections, each used by one miner once
          MaxTip,     \* bound: blocks found after the first template
          MaxExtra,   \* bound: rebuilds on the same tip, and failures
          History     \* JOB_HISTORY

ASSUME MaxTipAssumption   == MaxTip \in Nat
ASSUME MaxExtraAssumption == MaxExtra \in Nat
ASSUME HistoryAssumption  == History \in Nat \ {0}

VARIABLES
  tip,          \* the node's chain tip
  jobs,         \* Inner::jobs, newest first
  nextId,       \* PoolState::next_job_id
  subs,         \* Inner::subscribers (this miner subscribes once per connection)
  wakeups,      \* whether the refresh channel holds any request (it is drained whole)
  poll, built, lastTip, extra,   \* the poller: where it is, job built, last_tip
  sess, auth, held,              \* each session: where it is, authorized, job in hand
  req, out, writer,              \* line waiting to be read, Session::outbound, writer alive
  miner, work, got,              \* the miner: handshake state, job, newest job ever got
  unanswered    \* history: a refresh was requested and no template asked for since

node    == <<tip>>
pool    == <<jobs, nextId, subs>>
poller  == <<poll, built, lastTip, extra>>
session == <<sess, auth, held>>
wire    == <<req, out, writer>>
client  == <<miner, work, got>>
vars    == <<node, pool, wakeups, poller, session, wire, client, unanswered>>

Tips  == 0..MaxTip
NoTip == MaxTip + 1                    \* last_tip = None
Ids   == 1..MaxTip + 1 + MaxExtra      \* one job per tip, and the extra ones
Job   == [id : Ids, tip : Tips]
NoJob == [id |-> 0, tip |-> 0]

Subscribed   == [type |-> "subscribed", job |-> NoJob]
Authorized   == [type |-> "authorized", job |-> NoJob]
Notify(j)    == [type |-> "notify", job |-> j]
Subscribe    == [type |-> "subscribe", id |-> 0]
Authorize    == [type |-> "authorize", id |-> 0]
Submit(j)    == [type |-> "submit", id |-> j.id]
NoRequest    == [type |-> "none", id |-> 0]

Init ==
  /\ tip = 0
  /\ jobs = << >> /\ nextId = 1 /\ subs = {} /\ wakeups = FALSE
  /\ poll = "fetch" /\ built = NoJob /\ lastTip = NoTip /\ extra = 0
  /\ sess = [c \in Conns |-> "none"]
  /\ auth = [c \in Conns |-> FALSE]
  /\ held = [c \in Conns |-> NoJob]
  /\ req = [c \in Conns |-> NoRequest]
  /\ out = [c \in Conns |-> << >>]
  /\ writer = [c \in Conns |-> FALSE]
  /\ miner = [c \in Conns |-> "off"]
  /\ work = [c \in Conns |-> NoJob]
  /\ got = [c \in Conns |-> 0]
  /\ unanswered = FALSE

\* PoolState::current_job; callers check that there is one.
Current == jobs[1]

\* Someone else extends the chain.
TipMoves ==
  /\ tip < MaxTip
  /\ tip' = tip + 1
  /\ UNCHANGED <<pool, wakeups, poller, session, wire, client, unanswered>>

-----------------------------------------------------------------------------
(* The poller: poll_templates().                                           *)

\* A template that needs no job: same tip, same target, fresh enough.
PollNothingNew ==
  /\ poll = "fetch"
  /\ tip = lastTip
  /\ poll' = "wait"
  /\ unanswered' = FALSE
  /\ UNCHANGED <<node, pool, wakeups, built, lastTip, extra, session, wire, client>>

\* get_block_template fails, or a job cannot be built: its id is spent, and
\* last_tip keeps its value so that the next poll tries again.
PollFails ==
  /\ poll = "fetch"
  /\ extra < MaxExtra
  /\ extra' = extra + 1
  /\ nextId' \in {nextId, nextId + 1}
  /\ poll' = "wait"
  /\ unanswered' = FALSE
  /\ UNCHANGED <<node, jobs, subs, wakeups, built, lastTip, session, wire, client>>

\* A new tip demands a job; a changed target or REFRESH_INTERVAL may demand
\* one more for the same tip.
PollBuild ==
  /\ poll = "fetch"
  /\ \/ tip # lastTip /\ UNCHANGED extra
     \/ tip = lastTip /\ extra < MaxExtra /\ extra' = extra + 1
  /\ nextId' = nextId + 1
  /\ built' = [id |-> nextId, tip |-> tip]
  /\ poll' = "install"
  /\ unanswered' = FALSE
  /\ UNCHANGED <<node, jobs, subs, wakeups, lastTip, session, wire, client>>

\* A mutant of PushFront: the wrong end.
PushBack(j, s) == SubSeq(s \o <<j>>, 1, IF Len(s) < History THEN Len(s) + 1 ELSE History)

\* PoolState::set_current_job: push_front, then truncate to JOB_HISTORY.
PushFront(j, s) == SubSeq(<<j>> \o s, 1, IF Len(s) < History THEN Len(s) + 1 ELSE History)

\* A mutant of PollInstall: the job is announced but never kept.
PollAnnounceOnly ==
  /\ poll = "install"
  /\ poll' = "broadcast"
  /\ UNCHANGED <<node, pool, wakeups, built, lastTip, extra, session, wire, client, unanswered>>

PollInstall ==
  /\ poll = "install"
  /\ jobs' = PushFront(built, jobs)
  /\ poll' = "broadcast"
  /\ UNCHANGED <<node, nextId, subs, wakeups, built, lastTip, extra, session, wire, client, unanswered>>

\* A mutant of PollBroadcast: last_tip is read afresh, not from the template.
PollBroadcastRereadsTip ==
  /\ poll = "broadcast"
  /\ subs' = {c \in subs : writer[c]}
  /\ out' = [c \in Conns |-> IF c \in subs' THEN Append(out[c], Notify(built)) ELSE out[c]]
  /\ lastTip' = tip
  /\ built' = NoJob
  /\ poll' = "wait"
  /\ UNCHANGED <<node, jobs, nextId, wakeups, extra, session, req, writer, client, unanswered>>

\* PoolState::broadcast: one critical section; subscribers whose writer thread
\* is gone are dropped.
PollBroadcast ==
  /\ poll = "broadcast"
  /\ subs' = {c \in subs : writer[c]}
  /\ out' = [c \in Conns |-> IF c \in subs' THEN Append(out[c], Notify(built)) ELSE out[c]]
  /\ lastTip' = built.tip
  /\ built' = NoJob
  /\ poll' = "wait"
  /\ UNCHANGED <<node, jobs, nextId, wakeups, extra, session, req, writer, client, unanswered>>

\* A mutant of PollWake: the request is drained and the wait goes on.
PollWakeSleepsOn ==
  /\ poll = "wait"
  /\ wakeups
  /\ wakeups' = FALSE
  /\ UNCHANGED <<node, pool, poller, session, wire, client, unanswered>>

\* A requested refresh ends the wait, and takes with it all that piled up.
PollWake ==
  /\ poll = "wait"
  /\ wakeups
  /\ wakeups' = FALSE
  /\ poll' = "fetch"
  /\ UNCHANGED <<node, pool, built, lastTip, extra, session, wire, client, unanswered>>

\* Otherwise POLL_INTERVAL does.
PollTimeout ==
  /\ poll = "wait"
  /\ ~wakeups
  /\ poll' = "fetch"
  /\ UNCHANGED <<node, pool, wakeups, built, lastTip, extra, session, wire, client, unanswered>>

Poller == \/ PollNothingNew \/ PollFails \/ PollBuild \/ PollInstall
          \/ PollBroadcast \/ PollWake \/ PollTimeout

-----------------------------------------------------------------------------
(* One connection's reader thread: session::handle().                      *)

\* The accept loop hands over a new connection; the miner asks to subscribe.
Connect(c) ==
  /\ miner[c] = "off" /\ sess[c] = "none"
  /\ sess' = [sess EXCEPT ![c] = "idle"]
  /\ writer' = [writer EXCEPT ![c] = TRUE]
  /\ miner' = [miner EXCEPT ![c] = "subscribing"]
  /\ req' = [req EXCEPT ![c] = Subscribe]
  /\ UNCHANGED <<node, pool, wakeups, poller, auth, held, out, work, got, unanswered>>

\* Session::send and reply: a line for the writer thread, if it still runs.
Sent(c, m) == [out EXCEPT ![c] = IF writer[c] THEN Append(@, m) ELSE @]

\* The reader thread takes the line and goes on at `there`.
Dispatch(c, type, there) ==
  /\ sess[c] = "idle"
  /\ req[c].type = type
  /\ req' = [req EXCEPT ![c] = NoRequest]
  /\ sess' = [sess EXCEPT ![c] = there]

Step(c, here, there) == sess[c] = here /\ sess' = [sess EXCEPT ![c] = there]

\* The job in hand goes out of scope.
Drop(c) == held' = [held EXCEPT ![c] = NoJob]

\* on_subscribe: the reply first ...
OnSubscribe(c) ==
  /\ Dispatch(c, "subscribe", "subscribe")
  /\ out' = Sent(c, Subscribed)
  /\ UNCHANGED <<node, pool, wakeups, poller, auth, held, writer, client, unanswered>>

\* A mutant of Register: the reply was all.
RegisterNobody(c) ==
  /\ Step(c, "subscribe", "idle")
  /\ UNCHANGED <<node, pool, wakeups, poller, auth, held, wire, client, unanswered>>

\* ... then PoolState::subscribe.
Register(c) ==
  /\ Step(c, "subscribe", "idle")
  /\ subs' = subs \cup {c}
  /\ UNCHANGED <<node, jobs, nextId, wakeups, poller, auth, held, wire, client, unanswered>>

\* on_authorize: the reply, and then send_current_work, which reads the
\* current job under the mutex and sends it after releasing it.
OnAuthorize(c) ==
  /\ Dispatch(c, "authorize", "readWork")
  /\ auth' = [auth EXCEPT ![c] = TRUE]
  /\ out' = Sent(c, Authorized)
  /\ UNCHANGED <<node, pool, wakeups, poller, held, writer, client, unanswered>>

ReadCurrentWork(c) ==
  /\ \/ jobs = << >> /\ Step(c, "readWork", "idle") /\ UNCHANGED held
     \/ /\ jobs # << >> /\ Step(c, "readWork", "sendWork")
        /\ held' = [held EXCEPT ![c] = Current]
  /\ UNCHANGED <<node, pool, wakeups, poller, auth, wire, client, unanswered>>

SendCurrentWork(c) ==
  /\ Step(c, "sendWork", "idle")
  /\ out' = Sent(c, Notify(held[c]))
  /\ Drop(c)
  /\ UNCHANGED <<node, pool, wakeups, poller, auth, req, writer, client, unanswered>>

\* PoolState::job_by_id.
Known(id) == \E i \in 1..Len(jobs) : jobs[i].id = id
JobById(id) == jobs[CHOOSE i \in 1..Len(jobs) : jobs[i].id = id]

\* on_submit: a share for a job that has aged out is refused.
OnSubmit(c) ==
  /\ \/ /\ auth[c] /\ Known(req[c].id)
        /\ Dispatch(c, "submit", "check")
        /\ held' = [held EXCEPT ![c] = JobById(req[c].id)]
     \/ /\ ~(auth[c] /\ Known(req[c].id))
        /\ Dispatch(c, "submit", "idle")
        /\ UNCHANGED held
  /\ UNCHANGED <<node, pool, wakeups, poller, auth, out, writer, client, unanswered>>

\* validate::check on a share below the target, or the node unreachable or
\* rejecting the block: a reply, and no refresh.
ShareOnly(c) ==
  /\ Step(c, "check", "idle")
  /\ Drop(c)
  /\ UNCHANGED <<node, pool, wakeups, poller, auth, wire, client, unanswered>>

\* submitblock: accepted if it still extends the tip, otherwise stale. Both
\* go on to ask for fresh work.
SubmitBlock(c) ==
  /\ Step(c, "check", "refresh")
  /\ \/ held[c].tip = tip /\ tip < MaxTip /\ tip' = tip + 1
     \/ held[c].tip # tip /\ UNCHANGED tip
  /\ Drop(c)
  /\ UNCHANGED <<pool, wakeups, poller, auth, wire, client, unanswered>>

RequestRefresh(c) ==
  /\ Step(c, "refresh", "idle")
  /\ wakeups' = TRUE
  /\ unanswered' = TRUE
  /\ UNCHANGED <<node, pool, poller, auth, held, wire, client>>

\* The miner has gone: the reader sees the end of the stream, unsubscribes.
\* (It may first serve the last line it had.)
SessionEnds(c) ==
  /\ miner[c] = "gone"
  /\ Step(c, "idle", "done")
  /\ subs' = subs \ {c}
  /\ req' = [req EXCEPT ![c] = NoRequest]
  /\ auth' = [auth EXCEPT ![c] = FALSE]
  /\ UNCHANGED <<node, jobs, nextId, wakeups, poller, held, out, writer, client, unanswered>>

Session(c) == \/ OnSubscribe(c) \/ Register(c) \/ OnAuthorize(c) \/ ReadCurrentWork(c)
              \/ SendCurrentWork(c) \/ OnSubmit(c) \/ ShareOnly(c) \/ SubmitBlock(c)
              \/ RequestRefresh(c) \/ SessionEnds(c)

-----------------------------------------------------------------------------
(* The other end: writer thread, socket and the miner's run().             *)

Deliver(c, type) ==
  /\ miner[c] \notin {"off", "gone"}
  /\ out[c] # << >> /\ Head(out[c]).type = type
  /\ out' = [out EXCEPT ![c] = Tail(@)]

\* wait_for_response: each reply lets the miner send its next request ...
MinerHandshakes(c) ==
  /\ \/ /\ miner[c] = "subscribing" /\ Deliver(c, "subscribed")
        /\ miner' = [miner EXCEPT ![c] = "authorizing"]
        /\ req' = [req EXCEPT ![c] = Authorize]
     \/ /\ miner[c] = "authorizing" /\ Deliver(c, "authorized")
        /\ miner' = [miner EXCEPT ![c] = "running"]
        /\ UNCHANGED req
  /\ UNCHANGED <<node, pool, wakeups, poller, session, writer, work, got, unanswered>>

\* ... and until the last one everything else is discarded, jobs included.
MinerDiscards(c) ==
  /\ miner[c] # "running" /\ Deliver(c, "notify")
  /\ UNCHANGED <<node, pool, wakeups, poller, session, req, writer, client, unanswered>>

\* The network loop installs whatever arrives.
MinerInstalls(c) ==
  /\ miner[c] = "running" /\ Deliver(c, "notify")
  /\ LET j == Head(out[c]).job
     IN  /\ work' = [work EXCEPT ![c] = j]
         /\ got' = [got EXCEPT ![c] = IF j.id > @ THEN j.id ELSE @]
  /\ UNCHANGED <<node, pool, wakeups, poller, session, req, writer, miner, unanswered>>

\* A share for the job in hand. One in flight at a time is enough here: the
\* reader thread serves them one by one.
MinerSubmits(c) ==
  /\ miner[c] = "running" /\ work[c] # NoJob /\ req[c] = NoRequest
  /\ req' = [req EXCEPT ![c] = Submit(work[c])]
  /\ UNCHANGED <<node, pool, wakeups, poller, session, out, writer, client, unanswered>>

MinerLeaves(c) ==
  /\ miner[c] \notin {"off", "gone"}
  /\ miner' = [miner EXCEPT ![c] = "gone"]
  /\ work' = [work EXCEPT ![c] = NoJob]
  /\ got' = [got EXCEPT ![c] = 0]
  /\ UNCHANGED <<node, pool, wakeups, poller, session, wire, unanswered>>

\* writer_loop notices on its next write, whenever that is.
WriterEnds(c) ==
  /\ miner[c] = "gone" /\ writer[c] /\ out[c] # << >>
  /\ writer' = [writer EXCEPT ![c] = FALSE]
  /\ out' = [out EXCEPT ![c] = << >>]
  /\ UNCHANGED <<node, pool, wakeups, poller, session, req, client, unanswered>>

Line(c) == MinerHandshakes(c) \/ MinerDiscards(c) \/ MinerInstalls(c) \/ WriterEnds(c)

Environment == \/ TipMoves
               \/ \E c \in Conns : Connect(c) \/ MinerSubmits(c) \/ MinerLeaves(c)

Next == Poller \/ Environment \/ \E c \in Conns : Session(c) \/ Line(c)

Spec == Init /\ [][Next]_vars

\* Threads and sockets make progress; miners and the chain do as they like.
FairSpec == /\ Spec /\ WF_vars(Poller)
            /\ \A c \in Conns : WF_vars(Session(c)) /\ WF_vars(Line(c))
-----------------------------------------------------------------------------
(* What must hold.                                                         *)

Message == [type : {"subscribed", "authorized", "notify"}, job : Job \cup {NoJob}]
Request == [type : {"subscribe", "authorize", "submit", "none"}, id : Ids \cup {0}]

TypeOK ==
  /\ tip \in Tips
  /\ jobs \in Seq(Job) /\ Len(jobs) <= History
  /\ nextId \in Ids \cup {MaxTip + 2 + MaxExtra}
  /\ subs \subseteq Conns
  /\ wakeups \in BOOLEAN
  /\ poll \in {"fetch", "install", "broadcast", "wait"}
  /\ built \in Job \cup {NoJob} /\ lastTip \in Tips \cup {NoTip} /\ extra \in 0..MaxExtra
  /\ sess \in [Conns -> {"none", "idle", "subscribe", "readWork", "sendWork",
                         "check", "refresh", "done"}]
  /\ auth \in [Conns -> BOOLEAN]
  /\ held \in [Conns -> Job \cup {NoJob}]
  /\ req \in [Conns -> Request]
  /\ out \in [Conns -> Seq(Message)]
  /\ writer \in [Conns -> BOOLEAN]
  /\ miner \in [Conns -> {"off", "subscribing", "authorizing", "running", "gone"}]
  /\ work \in [Conns -> Job \cup {NoJob}]
  /\ got \in [Conns -> Ids \cup {0}]
  /\ unanswered \in BOOLEAN

\* The history is newest first without gaps in order, so front() is the newest
\* job and truncation drops the oldest (state.rs). Ids never repeat: a share
\* cannot be checked against another job than the one it was found for.
HistoryNewestFirst ==
  /\ \A i, k \in 1..Len(jobs) : i < k => jobs[i].id > jobs[k].id /\ jobs[i].tip >= jobs[k].tip
  /\ \A i \in 1..Len(jobs) : jobs[i].id < nextId

Aged(id) == Len(jobs) = History /\ id < jobs[Len(jobs)].id

\* "A short history is retained and shares are matched against it" (state.rs):
\* a job on its way to a miner, or in its hands, is one the pool can look up,
\* unless History newer ones have pushed it out. No message outruns the install.
DeliveredJobIsKnown ==
  \A c \in Conns :
    /\ work[c] # NoJob => Known(work[c].id) \/ Aged(work[c].id)
    /\ \A i \in 1..Len(out[c]) :
         out[c][i].type = "notify" => Known(out[c][i].job.id) \/ Aged(out[c][i].job.id)

\* The job is on the wire to c, behind the reply that ends the handshake.
OnItsWay(c, id) ==
  \E i \in 1..Len(out[c]) :
    /\ out[c][i].type = "notify" /\ out[c][i].job.id = id
    /\ \A k \in i..Len(out[c]) : out[c][k].type # "authorized"

\* No miner falls between the broadcast and the work sent on authorizing: once
\* its session is idle and the poller has broadcast, the newest job is with it
\* or on its way (subscribe before authorize, reply before current_job).
NoMinerMissesAJob ==
  \A c \in Conns :
    auth[c] /\ miner[c] # "gone" /\ sess[c] # "readWork" /\ sess[c] # "sendWork"
      /\ poll # "broadcast" /\ jobs # << >>
    => got[c] = Current.id \/ OnItsWay(c, Current.id)

\* Draining the refresh channel loses no request: until a template is asked
\* for after it, one is in the channel or the poller is about to ask.
RefreshNotLost == unanswered => wakeups \/ poll = "fetch"

\* A subscriber is a connection whose reader thread will still unsubscribe it:
\* nothing is broadcast for ever to a miner that has left.
SubscribersHaveSessions == \A c \in subs : sess[c] \notin {"none", "done"}

\* End to end: a new tip, whoever found it, becomes a job that reaches every
\* miner that has finished its handshake, unless it is overtaken or leaves.
NewTipReachesEveryMiner ==
  \A t \in Tips, c \in Conns :
    tip = t /\ miner[c] = "running" ~>
      \/ jobs # << >> /\ Current.tip >= t /\ got[c] >= Current.id
      \/ tip > t \/ miner[c] = "gone"

-----------------------------------------------------------------------------
(* What it all amounts to.                                                 *)

Newest    == IF jobs = << >> THEN NoJob ELSE Current
Listening == {c \in Conns : miner[c] = "running"}

Feed == INSTANCE JobFeed WITH
  Miners <- Conns, MaxId <- MaxTip + 1 + MaxExtra, MaxJobTip <- MaxTip,
  newest <- Newest, listening <- Listening

\* To a miner, poller, history, sessions and wire are a feed of jobs: nothing is
\* heard of that was not published, what is published only moves forward, and
\* no miner that stays is left behind (JobFeed).
ImplementsJobFeed == Feed!Spec

-----------------------------------------------------------------------------
(* What the comments say and the code does not do; see the README.         *)

\* session.rs, send_current_work: "Sends the difficulty and the current job to
\* this miner." When all is quiet, a miner works on the current job.
QuietMinersHaveTheCurrentJob ==
  \A c \in Conns :
    /\ miner[c] = "running" /\ out[c] = << >> /\ sess[c] = "idle" /\ req[c] = NoRequest
    /\ poll = "wait" /\ jobs # << >>
    => work[c] = Current
=============================================================================
