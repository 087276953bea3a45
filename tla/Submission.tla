----------------------------- MODULE Submission -----------------------------
(***************************************************************************)
(* A share from the miner to the node: what block it stands for            *)
(* (crates/pool/src/{min_difficulty,job_builder,lib}.rs), and how the pool *)
(* judges it, holds it until its timestamp is legal and submits it         *)
(* (crates/pool/src/{validate,session,state}.rs).                          *)
(*                                                                         *)
(* The poller makes jobs; one miner hashes them; the reader thread of its  *)
(* session answers its shares one at a time, sleeping while it holds a     *)
(* block. The node is external: it extends its chain with our blocks and   *)
(* others', under the rules the source states for it.                      *)
(*                                                                         *)
(* Abstractions. One clock, which everybody reads. A job is the block it   *)
(* stands for: its parent, its timestamp and whether its bits are those of *)
(* the minimum difficulty; coinbase and transactions are taken to be       *)
(* right. Who else is connected, how jobs reach a miner and what a refresh *)
(* does are the subject of PoolJobs.                                       *)
(***************************************************************************)
EXTENDS Integers, Sequences

CONSTANTS MinDifficultyNetwork, \* whether the network is testnet4
          Gap,                  \* MIN_DIFFICULTY_GAP
          MaxFuture,            \* MAX_FUTURE_BLOCK_TIME
          MaxHold,              \* MAX_SUBMISSION_HOLD
          Refresh,              \* REFRESH_INTERVAL
          History,              \* JOB_HISTORY
          Horizon,              \* bound: when tips and shares cease to come
          MaxHeight,            \* bound: the highest block of somebody else
          MaxJobs,              \* bound: jobs made
          MaxShares             \* bound: shares found

ASSUME NetworkAssumption == MinDifficultyNetwork \in BOOLEAN
ASSUME TimesAssumption ==
  /\ Gap \in Nat /\ MaxFuture \in Nat /\ MaxHold \in Nat /\ Refresh \in Nat
  /\ Gap + 1 <= MaxHold                 \* 20 min and 1 s against 30 min
ASSUME HistoryAssumption == History \in Nat \ {0}
ASSUME BoundsAssumption ==
  Horizon \in Nat /\ MaxHeight \in Nat /\ MaxJobs \in Nat /\ MaxShares \in Nat

VARIABLES
  clock,
  tip,                            \* the node's best block
  poll, template,                 \* the poller: at its RPCs or at a template
  lastTip, lastEasy, lastBuilt,   \* last_tip, last_bits, last_built
  jobs, nextId,                   \* Inner::jobs, newest first; next_job_id
  work, line, sent,               \* the miner: job hashed, its shares under way
  reader, active, until,          \* the session: ActiveJob in hand, end of its sleep
  verdict, answered               \* history: of the last share, shares answered

node    == <<tip>>
poller  == <<poll, template, lastTip, lastEasy, lastBuilt, jobs, nextId>>
miner   == <<work, sent>>
session == <<reader, active, until, verdict, answered>>
vars    == <<clock, node, poller, miner, line, session>>

\* A block of the chain; mtp is the median time past of the blocks up to it.
Block    == [height : Nat, time : Nat, mtp : Nat]
Job      == [id : Nat, parent : Block, time : Nat, easy : BOOLEAN, window : BOOLEAN]
Template == [parent : Block, time : Nat, easy : BOOLEAN]
Share    == [id : Nat, height : Nat]   \* height, that of the parent, is not sent
Verdict  == {"judged", "dropped", "refused"}

NoBlock    == [height |-> 0, time |-> 0, mtp |-> 0]
NoJob      == [id |-> 0, parent |-> NoBlock, time |-> 0, easy |-> FALSE, window |-> FALSE]
NoTemplate == [parent |-> NoBlock, time |-> 0, easy |-> FALSE]

Larger(a, b)  == IF a >= b THEN a ELSE b
Smaller(a, b) == IF a <= b THEN a ELSE b

\* The rule of min_difficulty.rs: which blocks have the minimum difficulty.
QualifiesEasy(parent, time) == MinDifficultyNetwork /\ time > parent.time + Gap

Start == Gap + 1      \* late enough for the first parent to be an old block

\* A median time past never exceeds the time of its last block: that block came
\* after the median before it, and moves the median at most up to itself.
Init ==
  /\ clock = Start
  /\ \E t \in 0..Start + MaxFuture : \E m \in 0..t : tip = [height |-> 0, time |-> t, mtp |-> m]
  /\ poll = "fetch" /\ template = NoTemplate
  /\ lastTip = -1 /\ lastEasy = FALSE /\ lastBuilt = Start
  /\ jobs = << >> /\ nextId = 1
  /\ work = NoJob /\ line = << >> /\ sent = 0
  /\ reader = "read" /\ active = NoJob /\ until = 0
  /\ verdict = "judged" /\ answered = 0

LastTick == Horizon + Gap + 1   \* the end of the last hold

Tick ==
  /\ clock < LastTick
  /\ clock' = clock + 1
  /\ UNCHANGED <<node, poller, miner, line, session>>

-----------------------------------------------------------------------------
(* The node.                                                               *)

\* What it refuses a block for: time-too-new, time-too-old and wrong bits.
Illegal(j) ==
  \/ j.time > clock + MaxFuture
  \/ j.time <= j.parent.mtp
  \/ j.easy # QualifiesEasy(j.parent, j.time)

\* The best block becomes one of this time, on the present one.
Extends(time) ==
  \E m \in tip.mtp..time : tip' = [height |-> tip.height + 1, time |-> time, mtp |-> m]

\* Somebody else's block.
TipMoves ==
  /\ clock <= Horizon /\ tip.height < MaxHeight
  /\ \E t \in tip.mtp + 1..clock + MaxFuture : Extends(t)
  /\ UNCHANGED <<clock, poller, miner, line, session>>

-----------------------------------------------------------------------------
(* The poller: poll_templates().                                           *)

\* get_block_template. There is none while even the earliest time is too new.
FetchTemplate ==
  LET time == Larger(tip.mtp + 1, clock)
  IN  /\ poll = "fetch"
      /\ time <= clock + MaxFuture
      /\ poll' = "build"
      /\ template' = [parent |-> tip, time |-> time, easy |-> QualifiesEasy(tip, time)]
      /\ UNCHANGED <<clock, node, lastTip, lastEasy, lastBuilt, jobs, nextId, miner, line, session>>

\* The RPC fails, which leaves no trace but in the timers of PollerHealth.
FetchFails == poll = "fetch" /\ UNCHANGED vars

\* tip_changed, bits_changed or stale.
JobIsDue ==
  \/ template.parent.height # lastTip
  \/ template.easy # lastEasy
  \/ clock - lastBuilt >= Refresh

\* Same tip, same target, fresh enough (or the bound on jobs reached).
NothingNew ==
  /\ poll = "build" /\ (~JobIsDue \/ nextId > MaxJobs)
  /\ poll' = "fetch" /\ template' = NoTemplate
  /\ UNCHANGED <<clock, node, lastTip, lastEasy, lastBuilt, jobs, nextId, miner, line, session>>

\* A mutant of PlanTime: a timestamp at the gap, not past it.
PlanTimeAtTheGap(parent, minTime) == Larger(parent.time + Gap, minTime)

\* min_difficulty::plan: the timestamp of the window.
PlanTime(parent, minTime) == Larger(parent.time + Gap + 1, minTime)

\* job_builder::build: with a window, its time and the minimum difficulty; without
\* one, the template's own.
JobFor(t, id, window) ==
  [id |-> id, parent |-> t.parent, window |-> window,
   time |-> IF window THEN PlanTime(t.parent, t.parent.mtp + 1) ELSE t.time,
   easy |-> window \/ t.easy]

\* set_current_job: push_front, then truncate to JOB_HISTORY.
PushFront(j, s) == SubSeq(<<j>> \o s, 1, Smaller(Len(s) + 1, History))

\* The window needs the parent's header; if that cannot be read there is none.
Install ==
  /\ poll = "build" /\ JobIsDue /\ nextId <= MaxJobs
  /\ \E window \in {FALSE, MinDifficultyNetwork} :
        jobs' = PushFront(JobFor(template, nextId, window), jobs)
  /\ nextId' = nextId + 1
  /\ lastTip' = template.parent.height /\ lastEasy' = template.easy /\ lastBuilt' = clock
  /\ poll' = "fetch" /\ template' = NoTemplate
  /\ UNCHANGED <<clock, node, miner, line, session>>

\* An id is spent, and nothing remembered of the template.
BuildFails ==
  /\ poll = "build" /\ JobIsDue /\ nextId <= MaxJobs
  /\ nextId' = nextId + 1
  /\ poll' = "fetch" /\ template' = NoTemplate
  /\ UNCHANGED <<clock, node, lastTip, lastEasy, lastBuilt, jobs, miner, line, session>>

-----------------------------------------------------------------------------
(* The miner.                                                              *)

Newest == IF jobs = << >> THEN NoJob ELSE jobs[1]

TakeWork ==
  /\ work # Newest
  /\ work' = Newest
  /\ UNCHANGED <<clock, node, poller, sent, line, session>>

SubmitShare ==
  /\ work # NoJob /\ clock <= Horizon /\ sent < MaxShares
  /\ line' = Append(line, [id |-> work.id, height |-> work.parent.height])
  /\ sent' = sent + 1
  /\ UNCHANGED <<clock, node, poller, work, session>>

-----------------------------------------------------------------------------
(* The session: on_submit() and validate::check(). What a share is worth   *)
(* shows when it is judged.                                                *)

\* The reply that ends on_submit.
Answer(v) ==
  /\ verdict' = v
  /\ answered' = answered + 1
  /\ reader' = "read" /\ active' = NoJob /\ until' = 0

\* The oldest share waiting, which the reader thread takes.
TakeShare == reader = "read" /\ line # << >> /\ line' = Tail(line)

Known(s) == \E i \in DOMAIN jobs : jobs[i].id = s.id

\* Parameters that do not parse, an extranonce of the wrong length.
ShareMalformed ==
  /\ TakeShare
  /\ Answer("judged")
  /\ UNCHANGED <<clock, node, poller, miner>>

\* job_not_found, which drops a share whose block would still be the next.
ShareUnknown ==
  /\ TakeShare /\ ~Known(Head(line))
  /\ Answer(IF Head(line).height = tip.height THEN "dropped" ELSE "judged")
  /\ UNCHANGED <<clock, node, poller, miner>>

\* Verdict::Share: the hash rebuilt from the header does not meet the target.
ShareLoses ==
  /\ TakeShare /\ Known(Head(line))
  /\ Answer("judged")
  /\ UNCHANGED <<clock, node, poller, miner>>

\* A mutant of SecondsToWait: until the timestamp itself.
SecondsToWaitForTime(j) == Larger(j.time - clock, 0)

\* Window::seconds_to_wait, from legal_at.
SecondsToWait(j) == Larger(j.time - MaxFuture - clock, 0)

\* How long check() sleeps before it submits.
HoldTime(j) == IF j.window THEN Smaller(SecondsToWait(j), MaxHold) ELSE 0

ShareWins ==
  /\ TakeShare
  /\ \E i \in DOMAIN jobs :
       /\ jobs[i].id = Head(line).id
       /\ active' = jobs[i]
       /\ reader' = IF HoldTime(jobs[i]) > 0 THEN "hold" ELSE "submit"
       /\ until' = IF HoldTime(jobs[i]) > 0 THEN clock + HoldTime(jobs[i]) ELSE 0
  /\ UNCHANGED <<clock, node, poller, miner, verdict, answered>>

\* thread::sleep returns: not before its time, but possibly later.
HoldEnds ==
  /\ reader = "hold" /\ clock >= until
  /\ reader' = "submit" /\ until' = 0
  /\ UNCHANGED <<clock, node, poller, miner, line, active, verdict, answered>>

\* submit_block and its four answers.
BlockAccepted ==
  /\ reader = "submit" /\ ~Illegal(active) /\ active.parent = tip
  /\ Extends(active.time)
  /\ Answer("judged")
  /\ UNCHANGED <<clock, poller, miner, line>>

\* BlockRejected of a block that breaks a rule, BlockStale of one on an older tip.
BlockRefused ==
  /\ reader = "submit"
  /\ Illegal(active) \/ active.parent # tip
  /\ Answer(IF Illegal(active) THEN "refused" ELSE "judged")
  /\ UNCHANGED <<clock, node, poller, miner, line>>

\* A mutant of RpcFails: the share gets no reply.
RpcFailsUnanswered ==
  /\ reader = "submit"
  /\ reader' = "read" /\ active' = NoJob
  /\ UNCHANGED <<clock, node, poller, miner, line, until, verdict, answered>>

\* The RPC fails, before or after the node took the block.
RpcFails ==
  /\ reader = "submit"
  /\ \/ UNCHANGED node
     \/ ~Illegal(active) /\ active.parent = tip /\ Extends(active.time)
  /\ Answer("judged")
  /\ UNCHANGED <<clock, poller, miner, line>>

Poller  == FetchTemplate \/ FetchFails \/ NothingNew \/ Install \/ BuildFails
Miner   == TakeWork \/ SubmitShare
Session == \/ ShareMalformed \/ ShareUnknown \/ ShareLoses \/ ShareWins \/ HoldEnds
           \/ BlockAccepted \/ BlockRefused \/ RpcFails

Next == Tick \/ TipMoves \/ Poller \/ Miner \/ Session
Spec == Init /\ [][Next]_vars

\* Time passes and the reader thread runs.
FairSpec == Spec /\ WF_vars(Tick) /\ WF_vars(Session)

\* A reader thread and a miner that take no time: but for the sleep of a held
\* block, a share is judged at once and a job taken up at once.
Asleep == reader = "hold" /\ clock < until
Idle   == Asleep \/ (reader = "read" /\ line = << >>)
PromptNext ==
  \/ Session
  \/ Idle /\ TakeWork
  \/ Idle /\ work = Newest /\ Next
PromptSpec == Init /\ [][PromptNext]_vars

-----------------------------------------------------------------------------
(* Properties.                                                             *)

TypeOK ==
  /\ clock \in Nat /\ tip \in Block
  /\ poll \in {"fetch", "build"} /\ template \in Template
  /\ lastTip \in Nat \cup {-1} /\ lastEasy \in BOOLEAN /\ lastBuilt \in Nat
  /\ jobs \in Seq(Job) /\ Len(jobs) <= History /\ nextId \in Nat
  /\ work \in Job /\ line \in Seq(Share) /\ sent \in Nat
  /\ reader \in {"read", "hold", "submit"} /\ active \in Job /\ until \in Nat
  /\ verdict \in Verdict /\ answered \in Nat

\* No block is refused for its timestamp or its bits: whichever timestamp it was
\* built with, with a window or without, and however long it waited, it is neither
\* too old nor too new when submitted and carries the bits its timestamp calls for
\* (validate.rs:67: a refusal is "always a bug on our side").
NoBlockIsMistimed == verdict # "refused"

\* A block is held exactly as long as the node would refuse it: one that could go
\* out is not kept back, which would lose it the race it is in; and that is never
\* longer than a gap and a second, however far ahead of the clock its parent is
\* stamped: the cap on a hold never bites.
HoldIsAtMostTheGap == reader = "hold" => until <= clock + Gap + 1
HeldBlocksAreEarly == reader = "hold" /\ clock < until => active.time > clock + MaxFuture
HoldsAreAsLongAsNeeded == HoldIsAtMostTheGap /\ HeldBlocksAreEarly

\* Every share is answered, those waiting behind a held block too.
SharesAreAnswered == sent > answered ~> sent = answered

\* A share whose job has left the history builds on a block the chain has moved
\* past (state.rs:16). Not so: behind a held block it can wait for longer than
\* the history lasts.
AgedOutJobsAreStale == verdict # "dropped"
=============================================================================
