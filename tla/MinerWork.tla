------------------------------ MODULE MinerWork ------------------------------
(***************************************************************************)
(* How the miner hands work from its network thread to its hashing         *)
(* threads: crates/miner/src/{work,worker,controls,lib}.rs.                *)
(*                                                                         *)
(* WorkState is three separately updated cells: the job behind a mutex,    *)
(* the generation counter and the generation already solved. A step below  *)
(* is one access to one of those cells, because that is where the threads  *)
(* interleave; what a thread does with its own locals before or after that *)
(* access belongs to the same step.                                        *)
(*                                                                         *)
(* Abstractions. A job is the number of the mining.notify that brought it, *)
(* in arrival order. A batch of 2^20 nonces is a number; Hits says which   *)
(* batches of which thread hold a solution. Sleeping is stuttering. Every  *)
(* installed job has a midstate: its only error is an extranonce length,   *)
(* which this pool fixes at 8 + 8 for the whole connection.                *)
(***************************************************************************)
EXTENDS Naturals

CONSTANTS Slots,      \* hashing threads spawned (Options::slots)
          MaxJobs,    \* bound: jobs the pool sends in one connection
          Batches,    \* bound: batches before the nonce space wraps
          Hits,       \* the <<job, ticket, batch>> that hold a solution
          Knobs       \* bound: the controls turned while the miner runs

Jobs    == 1..MaxJobs
Worker  == 0..Slots-1                  \* the index passed to mine()
Batch   == 0..Batches-1
NoJob   == 0                           \* WorkState::current = None
NotSolved == MaxJobs + 1               \* u64::MAX: no real generation

ASSUME SlotsAssumption   == Slots \in Nat \ {0}
ASSUME MaxJobsAssumption == MaxJobs \in Nat
ASSUME BatchesAssumption == Batches \in Nat \ {0}
ASSUME HitsAssumption    == Hits \subseteq Jobs \X Nat \X Batch
ASSUME KnobsAssumption   == Knobs \subseteq {"pause", "threads"}

VARIABLES
  current,      \* WorkState::current
  generation,   \* WorkState::generation
  solved,       \* WorkState::solved
  stop, paused, threads,   \* Controls
  tickets,      \* Shared::extranonce_counter
  net,          \* where the network thread is in run()
  pc,           \* where each hashing thread is in mine()
  ticket, job, gen, at,    \* mine()'s locals: ticket, work, generation, at
  sent,         \* shares written to the pool, with the generation they name
  overrun       \* history: batches since the thread's work was last wanted

shared   == <<current, generation, solved>>
controls == <<stop, paused, threads>>
locals   == <<pc, ticket, job, gen, at>>
vars     == <<shared, controls, tickets, net, locals, sent, overrun>>

NetPC == {"check", "recv", "bump", "windDown", "join", "done"}
PC    == {"start", "top", "clone", "tag", "gateGen", "gateSolved", "loopGen",
          "loopSolved", "loopHash", "search", "submit", "wait", "done"}

Share == [gen : 0..MaxJobs, job : Jobs, ticket : Nat, at : Batch]

Init ==
  /\ current = NoJob /\ generation = 0 /\ solved = NotSolved
  /\ stop = FALSE /\ paused = FALSE /\ threads \in 1..Slots
  /\ tickets = 0
  /\ net = "check"
  /\ pc = [w \in Worker |-> "start"]
  /\ ticket = [w \in Worker |-> 0]
  /\ job = [w \in Worker |-> NoJob]
  /\ gen = [w \in Worker |-> 0]
  /\ at = [w \in Worker |-> 0]
  /\ sent = {}
  /\ overrun = [w \in Worker |-> 0]

-----------------------------------------------------------------------------
(* The network thread: run()'s loop, install(), and winding down.          *)

\* The stop flag is read once per turn; the wait on the pool comes after it.
NetCheck ==
  /\ net = "check"
  /\ net' = IF stop THEN "windDown" ELSE "recv"
  /\ UNCHANGED <<shared, controls, tickets, locals, sent, overrun>>

\* A mining.notify: install() replaces the work whatever clean_jobs says.
\* WorkState::set first stores the job under the mutex ...
NetInstall ==
  /\ net = "recv"
  /\ current < MaxJobs
  /\ current' = current + 1
  /\ net' = "bump"
  /\ UNCHANGED <<generation, solved, controls, tickets, locals, sent, overrun>>

\* A mutant of NetBump: a counter one bit wide.
NetBumpWraps ==
  /\ net = "bump"
  /\ generation' = (generation + 1) % 2
  /\ net' = "check"
  /\ UNCHANGED <<current, solved, controls, tickets, locals, sent, overrun>>

\* ... and, the mutex released, raises the generation.
NetBump ==
  /\ net = "bump"
  /\ generation' = generation + 1
  /\ net' = "check"
  /\ UNCHANGED <<current, solved, controls, tickets, locals, sent, overrun>>

\* The 200 ms timeout, a difficulty, a verdict on a share, or a job that
\* cannot be read or whose target cannot be decoded: no state changes.
NetOther ==
  /\ net = "recv"
  /\ net' = "check"
  /\ UNCHANGED <<shared, controls, tickets, locals, sent, overrun>>

\* The pool closed the connection: leave the loop.
NetDisconnected ==
  /\ net = "recv"
  /\ net' = "windDown"
  /\ UNCHANGED <<shared, controls, tickets, locals, sent, overrun>>

\* A mutant of NetWindDown: the hashing threads are never told.
NetWindDownSilently ==
  /\ net = "windDown"
  /\ net' = "join"
  /\ UNCHANGED <<shared, controls, tickets, locals, sent, overrun>>

\* Out of the loop: the stop is for the threads, however the loop ended.
NetWindDown ==
  /\ net = "windDown"
  /\ stop' = TRUE
  /\ net' = "join"
  /\ UNCHANGED <<shared, paused, threads, tickets, locals, sent, overrun>>

NetJoin ==
  /\ net = "join"
  /\ \A w \in Worker : pc[w] = "done"
  /\ net' = "done"
  /\ UNCHANGED <<shared, controls, tickets, locals, sent, overrun>>

Net == \/ NetCheck \/ NetInstall \/ NetBump \/ NetOther
       \/ NetDisconnected \/ NetWindDown \/ NetJoin

-----------------------------------------------------------------------------
(* A hashing thread: mine().                                               *)

\* A mutant of ShouldHash: a stop waits for the next job.
ShouldHashUntilTop(w) == ~paused /\ w < threads

ShouldHash(w) == ~stop /\ ~paused /\ w < threads

Goto(w, there) == pc' = [pc EXCEPT ![w] = there]

\* The extranonce ticket, claimed once for the life of the thread.
ClaimTicket(w) ==
  /\ pc[w] = "start"
  /\ ticket' = [ticket EXCEPT ![w] = tickets]
  /\ tickets' = tickets + 1
  /\ Goto(w, "top")
  /\ UNCHANGED <<shared, controls, net, job, gen, at, sent, overrun>>

\* Return on stop; otherwise go on, unless paused or surplus (sleep, retry).
Top(w) ==
  /\ pc[w] = "top"
  /\ \/ stop /\ Goto(w, "done")
     \/ ShouldHash(w) /\ Goto(w, "clone")
  /\ UNCHANGED <<shared, controls, tickets, net, ticket, job, gen, at, sent, overrun>>

\* WorkState::snapshot, first half: copy the job under the mutex.
SnapshotWork(w) ==
  /\ pc[w] = "clone"
  /\ \/ /\ current = NoJob
        /\ Goto(w, "top")
        /\ UNCHANGED job
     \/ /\ current # NoJob
        /\ Goto(w, "tag")
        /\ job' = [job EXCEPT ![w] = current]
  /\ UNCHANGED <<shared, controls, tickets, net, ticket, gen, at, sent, overrun>>

\* WorkState::snapshot, second half: read the generation, mutex released.
SnapshotGeneration(w) ==
  /\ pc[w] = "tag"
  /\ gen' = [gen EXCEPT ![w] = generation]
  /\ Goto(w, "gateGen")
  /\ UNCHANGED <<shared, controls, tickets, net, ticket, job, at, sent, overrun>>

\* `at` lives only inside the hashing loop, and overrun counts for one stay.
Leave(w) ==
  /\ Goto(w, "top")
  /\ at' = [at EXCEPT ![w] = 0]
  /\ overrun' = [overrun EXCEPT ![w] = 0]

\* WorkState::is_current reads the generation, then the solved mark. Before
\* the hashing loop a "no" waits for new work; inside it, it ends the loop.
ReadGeneration(w) ==
  /\ \/ /\ pc[w] = "gateGen"
        /\ Goto(w, IF generation = gen[w] THEN "gateSolved" ELSE "wait")
        /\ UNCHANGED <<at, overrun>>
     \/ /\ pc[w] = "loopGen" /\ generation = gen[w]
        /\ Goto(w, "loopSolved")
        /\ UNCHANGED <<at, overrun>>
     \/ /\ pc[w] = "loopGen" /\ generation # gen[w]
        /\ Leave(w)
  /\ UNCHANGED <<shared, controls, tickets, net, ticket, job, gen, sent>>

\* A mutant of Unsolved: a flag that new work does not clear.
NothingSolvedYet(w) == solved = NotSolved

Unsolved(w) == solved # gen[w]

ReadSolved(w) ==
  /\ \/ /\ pc[w] = "gateSolved"
        /\ Goto(w, IF Unsolved(w) THEN "loopGen" ELSE "wait")
        /\ UNCHANGED <<at, overrun>>
     \/ /\ pc[w] = "loopSolved" /\ Unsolved(w)
        /\ Goto(w, "loopHash")
        /\ UNCHANGED <<at, overrun>>
     \/ /\ pc[w] = "loopSolved" /\ ~Unsolved(w)
        /\ Leave(w)
  /\ UNCHANGED <<shared, controls, tickets, net, ticket, job, gen, sent>>

\* The controls are read once per batch, after is_current.
ReadControls(w) ==
  /\ pc[w] = "loopHash"
  /\ \/ ShouldHash(w) /\ Goto(w, "search") /\ UNCHANGED <<at, overrun>>
     \/ ~ShouldHash(w) /\ Leave(w)
  /\ UNCHANGED <<shared, controls, tickets, net, ticket, job, gen, sent>>

\* Whether the batch a thread finishes now is still wanted.
Wanted(w) == generation = gen[w] /\ ~stop

Overran(w) == [overrun EXCEPT ![w] = IF Wanted(w) THEN 0 ELSE @ + 1]

\* Rolls the nonce, then the time offset, and wraps.
NextBatch(b) == (b + 1) % Batches

\* mining::search over one batch without a solution.
SearchInVain(w) ==
  /\ pc[w] = "search"
  /\ <<job[w], ticket[w], at[w]>> \notin Hits
  /\ at' = [at EXCEPT ![w] = NextBatch(@)]
  /\ overrun' = Overran(w)
  /\ Goto(w, "loopGen")
  /\ UNCHANGED <<shared, controls, tickets, net, ticket, job, gen, sent>>

\* With a solution: WorkState::mark_solved, a plain store whatever was there.
SearchSolves(w) ==
  /\ pc[w] = "search"
  /\ <<job[w], ticket[w], at[w]>> \in Hits
  /\ solved' = gen[w]
  /\ overrun' = Overran(w)
  /\ Goto(w, "submit")
  /\ UNCHANGED <<current, generation, controls, tickets, net, ticket, job, gen, at, sent>>

\* The refusal of nonce2 or nonce3 # 0 cannot happen: NextBatch leaves both 0.
Submit(w) ==
  /\ pc[w] = "submit"
  /\ sent' = sent \cup {[gen |-> gen[w], job |-> job[w], ticket |-> ticket[w], at |-> at[w]]}
  /\ Goto(w, "wait")
  /\ UNCHANGED <<shared, controls, tickets, net, ticket, job, gen, at, overrun>>

\* wait_for_new_work: until the generation moves or two seconds have passed,
\* and the two seconds may pass at any point.
WaitForNewWork(w) ==
  /\ pc[w] = "wait"
  /\ Leave(w)
  /\ UNCHANGED <<shared, controls, tickets, net, ticket, job, gen, sent>>

Mine(w) == \/ ClaimTicket(w) \/ Top(w) \/ SnapshotWork(w) \/ SnapshotGeneration(w)
           \/ ReadGeneration(w) \/ ReadSolved(w) \/ ReadControls(w) \/ SearchInVain(w)
           \/ SearchSolves(w) \/ Submit(w) \/ WaitForNewWork(w)

-----------------------------------------------------------------------------
(* Whoever holds the Controls: the dashboard and the supervisor.           *)

SetPaused ==
  /\ "pause" \in Knobs
  /\ paused' = ~paused
  /\ UNCHANGED <<shared, stop, threads, tickets, net, locals, sent, overrun>>

\* Never below one; a number beyond the slots changes nothing.
SetThreads ==
  /\ "threads" \in Knobs
  /\ \E n \in 1..Slots : threads' = n
  /\ UNCHANGED <<shared, stop, paused, tickets, net, locals, sent, overrun>>

Stop ==
  /\ stop' = TRUE
  /\ UNCHANGED <<shared, paused, threads, tickets, net, locals, sent, overrun>>

User == SetPaused \/ SetThreads \/ Stop

Next == Net \/ User \/ \E w \in Worker : Mine(w)

Spec == Init /\ [][Next]_vars

\* The operating system schedules every thread; no fairness on the user or on
\* what the pool sends (NetOther keeps the network loop turning without it).
FairSpec == Spec /\ WF_vars(Net) /\ \A w \in Worker : WF_vars(Mine(w))

-----------------------------------------------------------------------------
(* What must hold.                                                         *)

FlagsOK == stop \in BOOLEAN /\ paused \in BOOLEAN

StateOK ==
  /\ current \in 0..MaxJobs /\ generation \in 0..MaxJobs
  /\ solved \in 0..MaxJobs \cup {NotSolved}
  /\ threads \in 1..Slots
  /\ tickets \in Nat
  /\ net \in NetPC
  /\ pc \in [Worker -> PC]
  /\ ticket \in [Worker -> Nat]
  /\ job \in [Worker -> 0..MaxJobs]
  /\ gen \in [Worker -> 0..MaxJobs]
  /\ at \in [Worker -> Batch]
  /\ sent \subseteq Share
  /\ overrun \in [Worker -> Nat]

TypeOK == FlagsOK /\ StateOK

\* A thread past snapshot(): it holds a job and the generation read for it.
Tagged(w) == pc[w] \notin {"start", "top", "clone", "tag", "done"}

\* snapshot() may pair a job with the generation before it (the store is done,
\* the bump is not), and then only until that bump: a thread never settles on
\* a generation older than its job, which would make it deaf to the next bump.
TaggedEarlyIsRetired ==
  \A w \in Worker :
    Tagged(w) /\ gen[w] < job[w] =>
      \/ generation = gen[w] /\ net = "bump" /\ current = job[w]
      \/ generation > gen[w]

\* The promise of the module doc (work.rs): superseded work, or a stop, costs
\* a thread at most the batch it was in, whatever the order of its three reads
\* (generation, solved, controls) and of the stores they race with.
OneBatchOverrun == \A w \in Worker : overrun[w] <= 1

\* The machine idles on a generation only when a thread that took that
\* generation has a candidate on its way to the pool, or sent already.
RetiredMeansSubmitted ==
  solved # NotSolved =>
    \/ \E w \in Worker : pc[w] = "submit" /\ gen[w] = solved
    \/ \E s \in sent : s.gen = solved

\* No two threads share a midstate: the ranges they search never overlap
\* (Shared::extranonce_counter).
NoSharedMidstate ==
  \A v, w \in Worker :
    v # w /\ pc[v] # "start" /\ pc[w] # "start" => ticket[v] # ticket[w]

\* Through every race a thread moves only to newer jobs and generations.
NeverBackToOlderWork ==
  [][\A w \in Worker : job'[w] >= job[w] /\ gen'[w] >= gen[w]]_vars

\* After a stop, or the pool closing, run() returns: every thread leaves its
\* loop wherever it was, those paused, surplus, idle or waiting included.
StopEndsTheMiner == stop \/ net = "windDown" ~> net = "done"

\* New work reaches every thread that should hash: once a generation is out,
\* each starts hashing it, unless it is solved, superseded, or the thread is
\* not wanted (Controls::should_hash).
NewGenerationIsHashed ==
  \A g \in Jobs, w \in Worker :
    generation = g /\ solved # g ~>
      \/ pc[w] = "search" /\ gen[w] = g
      \/ generation # g \/ solved = g \/ ~ShouldHash(w)

-----------------------------------------------------------------------------
(* What the comments say and the code does not do; see the README.         *)

\* work.rs, snapshot(): "The current work and the generation it belongs to."
\* While a thread believes its work current, it is the job of its generation.
SnapshotIsCoherent ==
  \A w \in Worker : Tagged(w) /\ gen[w] = generation /\ net # "bump" => job[w] = generation

\* worker.rs, NEW_WORK_TIMEOUT: "Bounded so that a candidate which loses its
\* race -- or a pool that goes quiet -- cannot stall a thread indefinitely."
WaitNeverStalls ==
  \A w \in Worker : pc[w] = "wait" ~> pc[w] = "search" \/ ~ShouldHash(w)
=============================================================================
