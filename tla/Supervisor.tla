----------------------------- MODULE Supervisor -----------------------------
(***************************************************************************)
(* One run of `start`, once the node is up: the main thread with its       *)
(* dashboard or its plain output, the thread that supervises the two       *)
(* halves, the pool with its poller, the miner, and a signal handler       *)
(* (crates/cli/src/commands/start.rs, crates/cli/src/dashboard/, the ends  *)
(* of pool::run and miner::run, crates/events/src/).                       *)
(*                                                                         *)
(* Threads talk through two stop flags, a condition variable for the first *)
(* job, join handles, and one channel of events that the dashboard folds   *)
(* into what it shows. Why the poller pauses or gives up is PollerHealth;  *)
(* how jobs travel is PoolJobs; hashing is MinerWork.                      *)
(***************************************************************************)
EXTENDS Integers, Sequences

CONSTANTS MaxTip,     \* bound: blocks of the chain, ours and others'
          MaxPauses   \* bound: pauses of the poller

ASSUME BoundAssumption == MaxTip \in Nat /\ MaxPauses \in Nat

VARIABLES
  main,       \* the main thread: its place, whether it is live, how it ended
  watcher,    \* the dashboard's thread that asks the node how it is doing
  screen,     \* dashboard::State
  boss,       \* the supervising thread: mine()
  pool,       \* pool::run: place, result
  poller,     \* the template poller: place, result, its last job, its pause
  miner,      \* miner::run: place, result
  flags,      \* stop_pool, Controls::stop, Watch::ready
  tip,        \* external: height of the node's chain
  ours,       \* blocks the node accepted from us
  telling,    \* accepted blocks whose BlockFound is not yet emitted
  queue,      \* the channel of events, oldest first
  explained   \* history: an event said why mining ends

halves == <<pool, poller, miner>>
chain  == <<tip, ours, telling>>
said   == <<queue, explained>>
vars   == <<main, watcher, screen, boss, halves, flags, chain, said>>

None == 0

-----------------------------------------------------------------------------
(* Events. Every emit passes Watch, which notes PoolReady, and then goes to *)
(* the channel or the terminal. An event is a tuple that starts with its    *)
(* kind.                                                                    *)

\* The channel: an event sent to a screen that has closed is dropped.
Send(events) == queue' = IF main.at \in {"drain", "look"} THEN queue \o events ELSE queue

Emit(events) ==
  LET kinds == {events[i][1] : i \in 1..Len(events)}
  IN  /\ explained' = (explained \/ kinds \cap {"Fatal", "PoolClosed"} # {})
      /\ Send(events)
      /\ flags' = [flags EXCEPT !.ready = @ \/ "PoolReady" \in kinds]

-----------------------------------------------------------------------------
(* The dashboard's picture, one event at a time. Of its history only the    *)
(* newest line about a block is kept: whose the screen says it is.          *)

\* A mutant of NewJob: the block the last job was for is ours, whoever found it.
NewJobAfterJob(s, height) ==
  [s EXCEPT !.job = height, !.pool = "ready",
            !.line = IF s.job = None THEN <<"first job", height>>
                     ELSE IF s.job = height - 1 THEN <<"yours", height - 1>>
                     ELSE <<"someone else's", height - 1>>]

NewJob(s, height) ==
  [s EXCEPT !.job = height, !.pool = "ready",
            !.line = IF s.job = None THEN <<"first job", height>>
                     ELSE IF s.lastFound = height - 1 THEN <<"yours", height - 1>>
                     ELSE <<"someone else's", height - 1>>]

BlockFound(s, height) == [s EXCEPT !.lastFound = height, !.line = <<"yours", height>>]

\* A mutant of Apply: the end of a pause is noted and changes nothing else.
ApplyWithoutResumed(s, e) ==
  CASE e[1] = "Waiting"    -> [s EXCEPT !.pool = "waiting"]
    [] e[1] = "NewJob"     -> NewJob(s, e[2])
    [] e[1] = "Paused"     -> [s EXCEPT !.pool = "paused"]
    [] e[1] = "BlockFound" -> BlockFound(s, e[2])
    [] OTHER -> s

Apply(s, e) ==
  CASE e[1] = "Waiting"    -> [s EXCEPT !.pool = "waiting"]
    [] e[1] = "NewJob"     -> NewJob(s, e[2])
    [] e[1] = "Paused"     -> [s EXCEPT !.pool = "paused"]
    [] e[1] = "Resumed"    -> [s EXCEPT !.pool = "ready"]
    [] e[1] = "BlockFound" -> BlockFound(s, e[2])
    [] OTHER -> s

-----------------------------------------------------------------------------
(* The main thread.                                                        *)

AtMain(at) == main.at = at
Stops      == [flags EXCEPT !.stopPool = TRUE, !.stopMiner = TRUE]

\* show(): events are taken and applied one by one until the channel is empty;
\* then the end of the session is looked for.
Drain ==
  /\ AtMain("drain")
  /\ IF queue = <<>>
     THEN main' = [main EXCEPT !.at = "look"] /\ UNCHANGED <<screen, queue>>
     ELSE screen' = Apply(screen, Head(queue)) /\ queue' = Tail(queue) /\ UNCHANGED main
  /\ UNCHANGED <<watcher, boss, halves, flags, chain, explained>>

\* A frame is drawn and a key waited for; no key but q touches what is modelled.
Carry ==
  /\ AtMain("look") /\ boss.at # "done" /\ ~flags.stopMiner
  /\ main' = [main EXCEPT !.at = "drain"]
  /\ UNCHANGED <<watcher, screen, boss, halves, flags, chain, said>>

\* The screen closes: the session is over, drawing fails, or q is pressed.
\* Nobody reads the channel any more.
Close ==
  /\ AtMain("look")
  /\ main' = [main EXCEPT !.at = "leave",
                !.shown = IF boss.at = "done" \/ flags.stopMiner THEN "ok" ELSE "cannot draw"]
  /\ queue' = <<>>
  /\ UNCHANGED <<watcher, screen, boss, halves, flags, chain, explained>>

Quit ==
  /\ AtMain("look") /\ boss.at # "done" /\ ~flags.stopMiner
  /\ main' = [main EXCEPT !.at = "leave", !.asked = TRUE]
  /\ queue' = <<>>
  /\ UNCHANGED <<watcher, screen, boss, halves, flags, chain, explained>>

\* The watcher looks at its flag between two questions to the node; an answer
\* may take as long as an RPC may.
WatcherEnds ==
  /\ AtMain("leave") /\ watcher = "running" /\ watcher' = "gone"
  /\ UNCHANGED <<main, screen, boss, halves, flags, chain, said>>

\* However the screen closed, mining ends with it, once the watcher has.
Leave ==
  /\ AtMain("leave") /\ watcher = "gone"
  /\ main' = [main EXCEPT !.at = "join"] /\ flags' = Stops
  /\ UNCHANGED <<watcher, screen, boss, halves, chain, said>>

\* The result of the command: what showing failed with, else what mining ended
\* with.
Finish ==
  /\ AtMain("join") /\ boss.at = "done"
  /\ main' = [main EXCEPT !.at = "done",
                !.result = IF main.shown # "ok" THEN main.shown ELSE boss.result]
  /\ UNCHANGED <<watcher, screen, boss, halves, flags, chain, said>>

Main == Drain \/ Carry \/ Close \/ Quit \/ WatcherEnds \/ Leave \/ Finish

\* The signal handler. A second signal exits the process at once, which leaves
\* nothing to model.
Signal ==
  /\ ~main.asked /\ main' = [main EXCEPT !.asked = TRUE] /\ flags' = Stops
  /\ UNCHANGED <<watcher, screen, boss, halves, chain, said>>

-----------------------------------------------------------------------------
(* mine(): pool, then miner, until either stops or a stop is asked for.     *)

Boss(at) == boss.at = at

\* Whichever comes first of work, the pool's end and a stop; work wins a tie.
AwaitReady ==
  /\ Boss("await")
  /\ IF flags.ready
     THEN /\ boss' = [boss EXCEPT !.at = "watch"] /\ miner' = [miner EXCEPT !.at = "connect"]
          /\ UNCHANGED flags
     ELSE /\ pool.at = "done" \/ flags.stopPool
          /\ boss' = [boss EXCEPT !.at = "join pool"] /\ flags' = [flags EXCEPT !.stopMiner = TRUE]
          /\ UNCHANGED miner
  /\ UNCHANGED <<main, watcher, screen, pool, poller, chain, said>>

\* A mutant of WatchHalves: only the pool's end is looked for.
WatchPoolOnly ==
  /\ Boss("watch") /\ pool.at = "done"
  /\ flags' = Stops
  /\ boss' = [boss EXCEPT !.at = "join miner"]
  /\ UNCHANGED <<main, watcher, screen, halves, chain, said>>

\* Whichever half ends first ends the other.
WatchHalves ==
  /\ Boss("watch") /\ (pool.at = "done" \/ miner.at = "done")
  /\ flags' = Stops
  /\ boss' = [boss EXCEPT !.at = "join miner"]
  /\ UNCHANGED <<main, watcher, screen, halves, chain, said>>

JoinMiner ==
  /\ Boss("join miner") /\ miner.at = "done"
  /\ boss' = [boss EXCEPT !.at = "join pool"]
  /\ UNCHANGED <<main, watcher, screen, halves, flags, chain, said>>

\* A mutant of Combined: the miner's result alone.
CombinedMinerOnly(ofPool, ofMiner) == ofMiner

\* finish(): the pool's failure comes first; "" is one it reported itself.
Combined(ofPool, ofMiner) ==
  CASE ofPool = "reported" -> ""
    [] ofPool = "ok" -> ofMiner
    [] OTHER -> ofPool

JoinPool ==
  /\ Boss("join pool") /\ pool.at = "done"
  /\ boss' = [at |-> "done", result |-> Combined(pool.result, miner.result)]
  /\ UNCHANGED <<main, watcher, screen, halves, flags, chain, said>>

Bossing == AwaitReady \/ WatchHalves \/ JoinMiner \/ JoinPool

-----------------------------------------------------------------------------
(* pool::run and its poller, as the supervisor sees them.                  *)

PoolEnds(result) == pool' = [pool EXCEPT !.at = "done", !.result = result]

\* Cookie, node and address: each may fail before the pool serves anything.
PoolFails ==
  /\ pool.at \in {"start", "waiting", "binding"} /\ PoolEnds("pool failed")
  /\ UNCHANGED <<main, watcher, screen, boss, poller, miner, flags, chain, said>>

PoolConnects ==
  /\ pool.at = "start" /\ pool' = [pool EXCEPT !.at = "waiting"]
  /\ UNCHANGED <<main, watcher, screen, boss, poller, miner, flags, chain, said>>

\* wait_until_ready: a stop first, then fitness; a wait is announced once.
PoolWaits ==
  /\ pool.at = "waiting"
  /\ \/ flags.stopPool /\ PoolEnds("ok") /\ UNCHANGED <<flags, said>>
     \/ ~flags.stopPool /\ pool' = [pool EXCEPT !.at = "binding"] /\ UNCHANGED <<flags, said>>
     \/ /\ ~flags.stopPool /\ ~pool.announced
        /\ pool' = [pool EXCEPT !.announced = TRUE] /\ Emit(<< <<"Waiting">> >>)
  /\ UNCHANGED <<main, watcher, screen, boss, poller, miner, chain>>

\* The port is bound before the poller can announce work.
PoolBinds ==
  /\ pool.at = "binding" /\ pool' = [pool EXCEPT !.at = "serving"]
  /\ poller' = [poller EXCEPT !.at = "top"]
  /\ Emit(<< <<"PoolStarted">> >>)
  /\ UNCHANGED <<main, watcher, screen, boss, miner, chain>>

PoolStopsServing ==
  /\ pool.at = "serving" /\ (flags.stopPool \/ poller.at = "ended")
  /\ pool' = [pool EXCEPT !.at = "joining"] /\ flags' = [flags EXCEPT !.stopPool = TRUE]
  /\ UNCHANGED <<main, watcher, screen, boss, poller, miner, chain, said>>

PoolJoins ==
  /\ pool.at = "joining" /\ poller.at = "ended" /\ PoolEnds(poller.result)
  /\ UNCHANGED <<main, watcher, screen, boss, poller, miner, flags, chain, said>>

Pooling == PoolFails \/ PoolConnects \/ PoolWaits \/ PoolBinds \/ PoolStopsServing \/ PoolJoins

PollerEnds(result) == poller' = [poller EXCEPT !.at = "ended", !.result = result]

\* The stop is looked for at the top of a round only; a paused poller builds
\* nothing.
PollerTop ==
  /\ poller.at = "top"
  /\ IF flags.stopPool THEN PollerEnds("ok") ELSE poller' = [poller EXCEPT !.at = "round"]
  /\ UNCHANGED <<main, watcher, screen, boss, pool, miner, flags, chain, said>>

\* A template of a new tip is announced, the first of all as readiness too. The
\* same tip's is a refresh, which says nothing here, and so is a failed fetch.
PollerBuilds ==
  /\ poller.at = "round" /\ ~poller.paused /\ tip # poller.last
  /\ poller' = [poller EXCEPT !.at = "top", !.last = tip]
  /\ Emit(<< <<"NewJob", tip + 1>> >>
          \o IF poller.last = None THEN << <<"PoolReady">> >> ELSE <<>>)
  /\ UNCHANGED <<main, watcher, screen, boss, pool, miner, chain>>

\* recheck_readiness and the outage timer.
PollerRechecks ==
  /\ poller.at = "round"
  /\ \/ poller' = [poller EXCEPT !.at = "top"] /\ UNCHANGED <<flags, said>>
     \/ /\ ~poller.paused /\ poller.pauses < MaxPauses
        /\ poller' = [poller EXCEPT !.at = "top", !.paused = TRUE, !.pauses = @ + 1]
        /\ Emit(<< <<"Paused">> >>)
     \/ /\ poller.paused /\ poller' = [poller EXCEPT !.at = "top", !.paused = FALSE]
        /\ Emit(<< <<"Resumed">> >>)
     \/ PollerEnds("reported") /\ Emit(<< <<"Fatal">> >>)
  /\ UNCHANGED <<main, watcher, screen, boss, pool, miner, chain>>

PollerPanics ==
  /\ poller.at = "round" /\ PollerEnds("pool failed")
  /\ UNCHANGED <<main, watcher, screen, boss, pool, miner, flags, chain, said>>

Polling == PollerTop \/ PollerBuilds \/ PollerRechecks

-----------------------------------------------------------------------------
(* miner::run, the blocks it finds, and the chain.                         *)

\* Connecting and the handshake are bounded by timeouts; either may fail.
MinerConnects ==
  /\ miner.at = "connect"
  /\ \/ miner' = [miner EXCEPT !.at = "run"]
     \/ miner' = [at |-> "done", result |-> "miner failed"]
  /\ UNCHANGED <<main, watcher, screen, boss, pool, poller, flags, chain, said>>

MinerStops ==
  /\ miner.at = "run" /\ flags.stopMiner /\ miner' = [miner EXCEPT !.at = "wind down"]
  /\ UNCHANGED <<main, watcher, screen, boss, pool, poller, flags, chain, said>>

MinerDisconnected ==
  /\ miner.at = "run" /\ miner' = [miner EXCEPT !.at = "wind down"]
  /\ Emit(<< <<"PoolClosed">> >>)
  /\ UNCHANGED <<main, watcher, screen, boss, pool, poller, chain>>

MinerWindsDown ==
  /\ miner.at = "wind down" /\ miner' = [at |-> "done", result |-> "ok"]
  /\ flags' = [flags EXCEPT !.stopMiner = TRUE]
  /\ UNCHANGED <<main, watcher, screen, boss, pool, poller, chain, said>>

Mining == MinerConnects \/ MinerStops \/ MinerWindsDown

\* A solution for the newest job: the node takes it if its tip has not moved.
\* The session that submitted it says so afterwards, in a step of its own.
BlockAccepted ==
  /\ miner.at = "run" /\ tip < MaxTip /\ poller.last = tip
  /\ tip' = tip + 1 /\ ours' = ours \cup {tip + 1} /\ telling' = telling \cup {tip + 1}
  /\ UNCHANGED <<main, watcher, screen, boss, halves, flags, said>>

TellBlock(height) ==
  /\ telling' = telling \ {height} /\ Emit(<< <<"BlockFound", height>> >>)
  /\ UNCHANGED <<main, watcher, screen, boss, halves, tip, ours>>

OthersFind ==
  /\ tip < MaxTip /\ tip' = tip + 1
  /\ UNCHANGED <<main, watcher, screen, boss, halves, flags, ours, telling, said>>

-----------------------------------------------------------------------------

\* run() after the node is up: the threads are spawned, and a live run shows.
Init ==
  /\ \E live \in BOOLEAN :
       /\ watcher = IF live THEN "running" ELSE "gone"
       /\ main = [at |-> IF live THEN "drain" ELSE "join", live |-> live, asked |-> FALSE,
                  shown |-> "ok", result |-> "none"]
  /\ screen = [pool |-> "starting", job |-> None, lastFound |-> None, line |-> <<"none">>]
  /\ flags = [stopPool |-> FALSE, stopMiner |-> FALSE, ready |-> FALSE]
  /\ boss = [at |-> "await", result |-> "none"]
  /\ pool = [at |-> "start", result |-> "none", announced |-> FALSE]
  /\ poller = [at |-> "off", result |-> "none", last |-> None, paused |-> FALSE, pauses |-> 0]
  /\ miner = [at |-> "off", result |-> "ok"]
  /\ tip = 1 /\ ours = {} /\ telling = {}
  /\ queue = <<>> /\ explained = FALSE

Ended == AtMain("done")

\* Of the whole process, nothing runs once the main thread has ended.
Next ==
  /\ ~Ended
  /\ \/ Main \/ Signal \/ Bossing \/ Pooling \/ Polling \/ PollerPanics \/ Mining
     \/ MinerDisconnected \/ BlockAccepted \/ OthersFind
     \/ \E height \in telling : TellBlock(height)

Spec == Init /\ [][Next]_vars

\* Every thread runs; the operating system schedules them all. Signals, keys,
\* blocks, panics and lost connections are left to chance.
FairSpec ==
  /\ Spec
  /\ WF_vars(Main /\ ~Ended) /\ WF_vars(Bossing /\ ~Ended) /\ WF_vars(Pooling /\ ~Ended)
  /\ WF_vars(Polling /\ ~Ended) /\ WF_vars(Mining /\ ~Ended)

-----------------------------------------------------------------------------
(* Properties.                                                             *)

\* The program ends on its own only with a reason that was given: it was asked
\* to, or the command fails with a message, or the event that says why went
\* out. start.rs ends without a word when both halves end well, and with an
\* empty message when the pool has reported its failure itself.
EndsForAReason ==
  main.at = "done" => main.asked \/ main.result \notin {"ok", ""} \/ explained

\* A half that failed makes the command fail, however the other one ended.
NoFailureIsSwallowed ==
  main.at = "done" /\ (pool.result # "ok" \/ miner.result # "ok") => main.result # "ok"

\* Both: an end nobody asked for is told, and a failure is never told as success.
EndIsExplained == EndsForAReason /\ NoFailureIsSwallowed

\* When the dashboard has read everything, it shows a pause exactly while the
\* poller is in one, whatever else was sent in between.
ScreenShowsThePause ==
  AtMain("look") /\ queue = <<>> => (screen.pool = "paused" <=> poller.paused)

\* A block the screen calls the user's was accepted from this program, whatever
\* the order in which the pool's threads announced jobs and blocks.
CreditIsEarned == screen.line[1] = "yours" => screen.line[2] \in ours

\* Whichever half ends first, whatever asks for the end, and wherever the other
\* threads are: the program ends.
ProgramEnds ==
  (main.asked \/ flags.stopPool \/ flags.stopMiner \/ pool.at = "done" \/ miner.at = "done") ~> Ended
=============================================================================
