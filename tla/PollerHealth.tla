---------------------------- MODULE PollerHealth ----------------------------
(***************************************************************************)
(* When the pool pauses, resumes, gives up and stops: run(), the poller's  *)
(* loop, wait_until_ready() and recheck_readiness() of                     *)
(* crates/pool/src/lib.rs.                                                 *)
(*                                                                         *)
(* Each Instant is the ticks since it was taken, counted up to the limit   *)
(* it is compared with. Time passes in the RPCs and the waits: any amount  *)
(* at any point, but at most TurnTime ticks in one turn of a loop.         *)
(*                                                                         *)
(* Abstractions. The node's fitness is one of four, changed at any time    *)
(* by the world. What a job is and who gets it is PoolJobs' subject.       *)
(***************************************************************************)
EXTENDS Naturals

CONSTANTS Outage,      \* MAX_TEMPLATE_OUTAGE
          Refresh,     \* REFRESH_INTERVAL
          Check,       \* READINESS_INTERVAL
          MaxUnready,  \* MAX_UNREADY
          TurnTime     \* bound: ticks one turn of a loop takes (RPC timeouts)

ASSUME LimitsAssumption == /\ Outage \in Nat \ {0} /\ Refresh \in Nat \ {0}
                           /\ Check \in Nat \ {0} /\ MaxUnready \in Nat \ {0}
                           /\ TurnTime \in Nat \ {0}

VARIABLES
  fitness,     \* fit; fit but its templates make no job; unfit; unreachable
  stop,        \* the stop flag shared with the supervisor
  main,        \* where run() is
  pc,          \* where the poller is (before it: wait_until_ready)
  started,     \* wait_until_ready's started
  sinceJob, sinceBuilt, sinceCheck,   \* last_job_installed, last_built, last_readiness_check
  unready,     \* unready_since
  paused, ready,   \* announced_unready, announced_ready
  died,        \* the fatal condition reported
  turn,        \* ticks spent in this turn of the loop
  quiet,       \* history: ticks the miners ground one job with no pause announced
  unfitFor,    \* history: ticks the node has been unfit without a break
  sinceFit     \* history: ticks since a check last found the node fit

timers   == <<started, sinceJob, sinceBuilt, sinceCheck, unready>>
announced == <<paused, ready, died>>
history  == <<quiet, unfitFor, sinceFit>>
healthVars == <<fitness, stop, main, pc, timers, announced, turn, history>>

Fit       == MaxUnready + 1            \* unready_since = None
QuietMax  == Outage + 2 * TurnTime     \* the history counts a little further
UnfitMax  == Check + 2 * TurnTime      \* than what the properties allow

Condition == {"fit", "unusable", "unfit", "down"}
Ready     == {"fit", "unusable"}       \* readiness::check says Ok

HealthInit ==
  /\ fitness \in Condition /\ stop = FALSE
  /\ main = "await" /\ pc = "await"
  /\ started = 0 /\ sinceJob = 0 /\ sinceBuilt = 0 /\ sinceCheck = 0
  /\ unready = Fit /\ paused = FALSE /\ ready = FALSE /\ died = "no"
  /\ turn = 0 /\ quiet = 0 /\ unfitFor = 0 /\ sinceFit = 0

-----------------------------------------------------------------------------
(* The world: the node, the clock, the supervisor.                         *)

NodeChanges ==
  /\ fitness' \in Condition \ {fitness}
  /\ unfitFor' = 0
  /\ UNCHANGED <<stop, main, pc, timers, announced, turn, quiet, sinceFit>>

RequestStop ==
  /\ stop' = TRUE
  /\ UNCHANGED <<fitness, main, pc, timers, announced, turn, history>>

Older(age, limit) == IF age < limit THEN age + 1 ELSE limit

Tick ==
  /\ pc # "ended" /\ turn < TurnTime
  /\ turn' = turn + 1
  /\ started' = IF pc = "await" THEN Older(started, MaxUnready) ELSE started
  /\ sinceFit' = Older(sinceFit, MaxUnready)
  /\ unfitFor' = IF fitness = "unfit" THEN Older(unfitFor, UnfitMax) ELSE 0
  /\ IF pc = "await"
       THEN UNCHANGED <<sinceJob, sinceBuilt, sinceCheck, unready, quiet>>
       ELSE /\ sinceJob' = Older(sinceJob, Outage)
            /\ sinceBuilt' = Older(sinceBuilt, Refresh)
            /\ sinceCheck' = Older(sinceCheck, Check)
            /\ unready' = IF unready = Fit THEN Fit ELSE Older(unready, MaxUnready)
            /\ quiet' = IF paused THEN 0 ELSE Older(quiet, QuietMax)
  /\ UNCHANGED <<fitness, stop, main, pc, announced>>

-----------------------------------------------------------------------------
(* Starting: wait_until_ready(), then the rest of run().                   *)

\* An RPC error ends the wait at once, and so do 30 minutes of an unfit node.
\* Once fit, resolving the payout script or binding the port may still fail.
AwaitFails ==
  /\ pc = "await" /\ ~stop
  /\ \/ fitness = "down"
     \/ fitness = "unfit" /\ started >= MaxUnready
     \/ fitness \in Ready
  /\ died' = "startup" /\ pc' = "ended" /\ main' = "done"
  /\ UNCHANGED <<fitness, stop, timers, paused, ready, turn, history>>

AwaitStopped ==
  /\ pc = "await" /\ stop
  /\ pc' = "ended" /\ main' = "done"
  /\ UNCHANGED <<fitness, stop, timers, announced, turn, history>>

AwaitMore ==
  /\ pc = "await" /\ ~stop
  /\ fitness = "unfit" /\ started < MaxUnready
  /\ turn' = 0
  /\ UNCHANGED <<fitness, stop, main, pc, timers, announced, history>>

\* The poller is spawned with fresh timers (they have not run before).
StartPolling ==
  /\ pc = "await" /\ ~stop
  /\ fitness \in Ready
  /\ main' = "serving" /\ pc' = "top" /\ turn' = 0
  /\ started' = 0 /\ sinceFit' = 0
  /\ UNCHANGED <<fitness, stop, sinceJob, sinceBuilt, sinceCheck, unready, announced, quiet, unfitFor>>

\* The accept loop ends on a stop or when the poller has returned ...
StopServing ==
  /\ main = "serving"
  /\ stop \/ pc = "ended"
  /\ main' = "joining" /\ stop' = TRUE
  /\ UNCHANGED <<fitness, pc, timers, announced, turn, history>>

\* ... and run() returns what the poller did.
JoinPoller ==
  /\ main = "joining" /\ pc = "ended"
  /\ main' = "done"
  /\ UNCHANGED <<fitness, stop, pc, timers, announced, turn, history>>

Main == AwaitFails \/ AwaitStopped \/ AwaitMore \/ StartPolling \/ StopServing \/ JoinPoller

-----------------------------------------------------------------------------
(* The poller: poll_templates().                                           *)

\* Mutants of Top: the stop is not looked at while paused; nothing pauses.
TopDeafWhilePaused ==
  /\ pc = "top"
  /\ pc' = IF unready # Fit THEN "due" ELSE IF stop THEN "ended" ELSE "fetch"
  /\ UNCHANGED <<fitness, stop, main, timers, announced, turn, history>>
TopNeverPauses ==
  /\ pc = "top"
  /\ pc' = IF stop THEN "ended" ELSE "fetch"
  /\ UNCHANGED <<fitness, stop, main, timers, announced, turn, history>>

\* Stop, stay paused (wait POLL_INTERVAL, then look at the node again), or poll.
Top ==
  /\ pc = "top"
  /\ pc' = IF stop THEN "ended" ELSE IF unready # Fit THEN "due" ELSE "fetch"
  /\ UNCHANGED <<fitness, stop, main, timers, announced, turn, history>>

\* get_block_template fails. A node that is catching up may refuse one.
FetchFails ==
  /\ pc = "fetch" /\ fitness # "fit"
  /\ pc' = "outage"
  /\ UNCHANGED <<fitness, stop, main, timers, announced, turn, history>>

\* A template with nothing new in it, the last job being fresh enough.
FetchNothingNew ==
  /\ pc = "fetch" /\ fitness # "down"
  /\ ready /\ sinceBuilt < Refresh
  /\ pc' = "outage"
  /\ UNCHANGED <<fitness, stop, main, timers, announced, turn, history>>

\* A new tip or target, an old job, or no job yet: there is one to build.
FetchWork ==
  /\ pc = "fetch" /\ fitness # "down"
  /\ pc' = IF fitness = "unusable" THEN "unusable" ELSE "build"
  /\ UNCHANGED <<fitness, stop, main, timers, announced, turn, history>>

\* A mutant of BuildFails: fitness is measured by the RPC that answered.
BuildFailsUnnoticed ==
  /\ pc = "unusable"
  /\ sinceJob' = 0
  /\ pc' = "outage"
  /\ UNCHANGED <<fitness, stop, main, started, sinceBuilt, sinceCheck, unready, announced, turn, history>>

\* The template makes no job: a warning, and every timer keeps running.
BuildFails ==
  /\ pc = "unusable"
  /\ pc' = "outage"
  /\ UNCHANGED <<fitness, stop, main, timers, announced, turn, history>>

\* The job is installed and broadcast.
Install ==
  /\ pc = "build"
  /\ sinceJob' = 0 /\ sinceBuilt' = 0 /\ quiet' = 0
  /\ ready' = TRUE
  /\ pc' = "outage"
  /\ UNCHANGED <<fitness, stop, main, started, sinceCheck, unready, paused, died, turn, unfitFor, sinceFit>>

CheckOutage ==
  /\ pc = "outage"
  /\ \/ sinceJob >= Outage /\ died' = "outage" /\ pc' = "ended"
     \/ sinceJob < Outage /\ pc' = "due" /\ UNCHANGED died
  /\ UNCHANGED <<fitness, stop, main, timers, paused, ready, turn, history>>

\* recheck_readiness returns to whichever branch called it: only the paused
\* one calls it while unready. A paused turn of the loop ends right there.
AfterRecheck ==
  \/ unready = Fit /\ pc' = "reset" /\ UNCHANGED turn
  \/ unready # Fit /\ pc' = "top" /\ turn' = 0

RecheckNotDue ==
  /\ pc = "due" /\ sinceCheck < Check
  /\ AfterRecheck
  /\ UNCHANGED <<fitness, stop, main, timers, announced, history>>

RecheckDue ==
  /\ pc = "due" /\ sinceCheck >= Check
  /\ sinceCheck' = 0
  /\ pc' = "ask"
  /\ UNCHANGED <<fitness, stop, main, started, sinceJob, sinceBuilt, unready, announced, turn, history>>

\* A failure to ask is not a failure of the node: nothing changes.
RecheckUnanswered ==
  /\ pc = "ask" /\ fitness = "down"
  /\ AfterRecheck
  /\ UNCHANGED <<fitness, stop, main, timers, announced, history>>

\* Unfit: the spell starts, goes on, or has lasted too long.
RecheckUnfit ==
  /\ pc = "ask" /\ fitness = "unfit"
  /\ \/ /\ unready # Fit /\ unready >= MaxUnready
        /\ died' = "unfit" /\ pc' = "ended"
        /\ UNCHANGED <<unready, paused, turn, quiet>>
     \/ /\ unready = Fit \/ unready < MaxUnready
        /\ unready' = IF unready = Fit THEN 0 ELSE unready
        /\ paused' = TRUE /\ quiet' = 0
        /\ AfterRecheck
        /\ UNCHANGED died
  /\ UNCHANGED <<fitness, stop, main, started, sinceJob, sinceBuilt, sinceCheck, ready, unfitFor, sinceFit>>

\* A mutant of RecheckFit: the spell is not forgotten.
RecheckFitOnlySays ==
  /\ pc = "ask" /\ fitness \in Ready
  /\ paused' = FALSE /\ sinceFit' = 0
  /\ AfterRecheck
  /\ UNCHANGED <<fitness, stop, main, timers, ready, died, quiet, unfitFor>>

\* Fit again, or still: Resumed is announced if Paused was.
RecheckFit ==
  /\ pc = "ask" /\ fitness \in Ready
  /\ unready' = Fit /\ paused' = FALSE /\ sinceFit' = 0
  /\ AfterRecheck
  /\ UNCHANGED <<fitness, stop, main, started, sinceJob, sinceBuilt, sinceCheck, ready, died, quiet, unfitFor>>

\* On the turn that pauses, and on no later one, the outage timer restarts.
ResetOutage ==
  /\ pc = "reset"
  /\ sinceJob' = IF unready # Fit THEN 0 ELSE sinceJob
  /\ pc' = "wait"
  /\ UNCHANGED <<fitness, stop, main, started, sinceBuilt, sinceCheck, unready, announced, turn, history>>

\* recv_timeout: POLL_INTERVAL is shorter than a tick.
Wait ==
  /\ pc = "wait"
  /\ pc' = "top" /\ turn' = 0
  /\ UNCHANGED <<fitness, stop, main, timers, announced, history>>

Recheck == RecheckNotDue \/ RecheckDue \/ RecheckUnanswered \/ RecheckUnfit \/ RecheckFit

PollerLoop ==
  \/ Top \/ FetchFails \/ FetchNothingNew \/ FetchWork \/ BuildFails \/ Install
  \/ CheckOutage \/ Recheck \/ ResetOutage \/ Wait

HealthNext == NodeChanges \/ RequestStop \/ Tick \/ Main \/ PollerLoop

HealthSpec == HealthInit /\ [][HealthNext]_healthVars

\* Threads run and clocks tick; nothing is assumed of the node. An RPC returns
\* within its timeout, which is why a turn ends.
FairHealthSpec == HealthSpec /\ WF_healthVars(Tick) /\ WF_healthVars(Main) /\ WF_healthVars(PollerLoop)

-----------------------------------------------------------------------------
(* What must hold.                                                         *)

HealthTypeOK ==
  /\ fitness \in Condition /\ stop \in BOOLEAN
  /\ main \in {"await", "serving", "joining", "done"}
  /\ pc \in {"await", "top", "fetch", "unusable", "build", "outage", "due", "ask",
             "reset", "wait", "ended"}
  /\ started \in 0..MaxUnready
  /\ sinceJob \in 0..Outage /\ sinceBuilt \in 0..Refresh /\ sinceCheck \in 0..Check
  /\ unready \in 0..MaxUnready \cup {Fit}
  /\ paused \in BOOLEAN /\ ready \in BOOLEAN
  /\ died \in {"no", "startup", "outage", "unfit"}
  /\ turn \in 0..TurnTime
  /\ quiet \in 0..QuietMax /\ unfitFor \in 0..UnfitMax /\ sinceFit \in 0..MaxUnready

\* "Carrying on regardless is the worst option: miners keep hashing the last
\* job ... and the operator sees a healthy hashrate the whole time" (lib.rs). A
\* pool that lives and has announced no pause installed a job within the outage
\* limit and two turns of its loop, whatever failed: the RPC or the building.
NoSilentOutage == pc # "ended" /\ ~paused => quiet < Outage + 2 * TurnTime

\* No job is built on a node that has been unfit for longer than it takes to
\* notice: one readiness interval and two turns of the loop.
NoWorkFromAnUnfitNode == pc = "build" => unfitFor < Check + 2 * TurnTime

\* The pool gives up on an unfit node only after MAX_UNREADY without one good
\* check, and never without having announced the pause it gives up on.
GivesUpOnlyAfterALongSpell == died = "unfit" => sinceFit >= MaxUnready /\ paused

\* After a stop, or when the poller gives up, run() returns; also while paused.
StopEndsThePool == stop \/ pc = "ended" ~> main = "done"

\* A pause is not the end: with the node fit for good, jobs keep being built,
\* unless the pool has ended before.
RecoversByItself == <>[](fitness = "fit") => <>(pc = "ended") \/ []<>(pc = "build")

-----------------------------------------------------------------------------
(* What the comments say and the code does not do; see the README.         *)

\* "While paused, do not let the template-outage timer fire" (lib.rs): time
\* spent paused is not counted as an outage.
PauseIsNotAnOutage == died = "outage" => quiet >= Outage

\* "A failure to ask is not a failure of the node; the template-outage timer is
\* what handles an unreachable one" (lib.rs).
UnreachableNodeEndsThePool == <>[](fitness = "down") => <>(pc = "ended")
=============================================================================
