-------------------------- MODULE MinerWorkProofs --------------------------
(***************************************************************************)
(* Proofs about MinerWork, for any number of threads, jobs and batches and *)
(* any placement of the solutions.                                         *)
(*                                                                         *)
(* The inductive invariant says what each thread may rely on about the     *)
(* generation, which only the network thread writes: it trails the stored  *)
(* job by one exactly between the two halves of WorkState::set, and no     *)
(* thread holds a job or a tag from the future.                            *)
(***************************************************************************)
EXTENDS MinerWork, TLAPS

GenerationTrailsCurrent ==
  IF net = "bump" THEN current = generation + 1 ELSE current = generation

\* Threads past the first half of snapshot() hold a job.
HoldsWork(w) == Tagged(w) \/ pc[w] = "tag"

HeldWork ==
  \A w \in Worker :
    /\ job[w] <= current
    /\ gen[w] <= generation
    /\ HoldsWork(w) => job[w] >= 1
    /\ Tagged(w) => job[w] <= gen[w] + 1

ClaimedTickets ==
  /\ \A w \in Worker : pc[w] # "start" => ticket[w] < tickets
  /\ NoSharedMidstate

InLoop(w) == pc[w] \in {"loopGen", "loopSolved", "loopHash"}

\* The batch a thread overran is remembered only while the reason for its next
\* check to fail still stands; at "search" it owes nothing.
OverrunAccounted ==
  \A w \in Worker :
    /\ overrun[w] <= 1
    /\ ~InLoop(w) /\ pc[w] \notin {"submit", "wait"} => overrun[w] = 0
    /\ pc[w] = "loopGen" /\ overrun[w] = 1 => ~Wanted(w)
    /\ pc[w] \in {"loopSolved", "loopHash"} /\ overrun[w] = 1 => stop

IInv == /\ TypeOK
        /\ GenerationTrailsCurrent
        /\ HeldWork
        /\ ClaimedTickets
        /\ OverrunAccounted
        /\ RetiredMeansSubmitted

-----------------------------------------------------------------------------
USE MaxJobsAssumption DEF shared, controls, locals, vars, Goto, Leave

\* A fresh nonce space starts at batch 0, and rolling it stays in range.
LEMMA BatchRange == 0 \in Batch /\ \A b \in Batch : NextBatch(b) \in Batch
  BY BatchesAssumption DEF Batch, NextBatch

\* The initial state satisfies the invariant.
LEMMA InitInvariant == Init => IInv
<1> SUFFICES ASSUME Init PROVE IInv
  OBVIOUS
<1>1. TypeOK
  <2>1. FlagsOK
    BY DEF Init, FlagsOK
  <2>2. StateOK
    BY SlotsAssumption, BatchesAssumption
       DEF Init, StateOK, NotSolved, NoJob, Batch, PC, NetPC
  <2> QED
    BY <2>1, <2>2 DEF TypeOK
<1>2. GenerationTrailsCurrent /\ RetiredMeansSubmitted
  BY DEF Init, GenerationTrailsCurrent, RetiredMeansSubmitted, NoJob
<1>3. HeldWork
  BY DEF Init, HeldWork, HoldsWork, Tagged, NoJob
<1>4. ClaimedTickets
  BY DEF Init, ClaimedTickets, NoSharedMidstate
<1>5. OverrunAccounted
  BY DEF Init, OverrunAccounted, InLoop
<1> QED
  BY <1>1, <1>2, <1>3, <1>4, <1>5 DEF IInv

-----------------------------------------------------------------------------
\* Every step keeps every variable in its range: the counters stay below their
\* bounds because the generation never passes the stored job.
LEMMA StateStep == IInv /\ [Next]_vars => StateOK'
<1> SUFFICES ASSUME IInv, [Next]_vars PROVE StateOK'
  OBVIOUS
<1> USE DEF TypeOK, StateOK, IInv, NetPC, PC
<1>1. CASE Net
  <2>1. CASE NetCheck
    BY <2>1 DEF NetCheck
  <2>2. CASE NetInstall
    BY <2>2 DEF NetInstall
  <2>3. CASE NetBump
    BY <2>3 DEF NetBump, GenerationTrailsCurrent
  <2>4. CASE NetOther \/ NetDisconnected
    BY <2>4 DEF NetOther, NetDisconnected
  <2>5. CASE NetWindDown \/ NetJoin
    BY <2>5 DEF NetWindDown, NetJoin
  <2> QED
    BY <1>1, <2>1, <2>2, <2>3, <2>4, <2>5 DEF Net
<1>2. CASE User
  BY <1>2 DEF User, SetPaused, SetThreads, Stop
<1>3. ASSUME NEW w \in Worker, Mine(w) PROVE StateOK'
  <2>1. CASE ClaimTicket(w)
    BY <2>1 DEF ClaimTicket
  <2>2. CASE Top(w)
    BY <2>2 DEF Top
  <2>3. CASE SnapshotWork(w)
    BY <2>3 DEF SnapshotWork
  <2>4. CASE SnapshotGeneration(w)
    BY <2>4 DEF SnapshotGeneration
  <2>5. CASE ReadGeneration(w)
    BY <2>5, BatchRange DEF ReadGeneration
  <2>6. CASE ReadSolved(w)
    BY <2>6, BatchRange DEF ReadSolved, Unsolved
  <2>7. CASE ReadControls(w)
    BY <2>7, BatchRange DEF ReadControls
  <2>8. CASE SearchInVain(w)
    <3>1. NextBatch(at[w]) \in Batch
      BY BatchRange
    <3>2. overrun' \in [Worker -> Nat]
      BY <2>8 DEF SearchInVain, Overran
    <3> QED
      BY <2>8, <3>1, <3>2 DEF SearchInVain
  <2>9. CASE SearchSolves(w)
    BY <2>9 DEF SearchSolves, Overran
  <2>10. CASE Submit(w)
    <3>1. job[w] \in Jobs
      BY <2>10 DEF Submit, HeldWork, HoldsWork, Tagged, Jobs
    <3> QED
      BY <2>10, <3>1 DEF Submit, Share
  <2>11. CASE WaitForNewWork(w)
    BY <2>11, BatchRange DEF WaitForNewWork
  <2> QED
    BY <1>3, <2>1, <2>2, <2>3, <2>4, <2>5, <2>6, <2>7, <2>8, <2>9, <2>10, <2>11 DEF Mine
<1>4. CASE UNCHANGED vars
  BY <1>4
<1> QED
  BY <1>1, <1>2, <1>3, <1>4 DEF Next

\* The flags are only ever set to a truth value.
LEMMA FlagsStep == IInv /\ [Next]_vars => FlagsOK'
<1> SUFFICES ASSUME FlagsOK, [Next]_vars PROVE FlagsOK'
  BY DEF IInv, TypeOK
<1> USE DEF FlagsOK
<1>1. CASE Net
  BY <1>1 DEF Net, NetCheck, NetInstall, NetBump, NetOther, NetDisconnected,
              NetWindDown, NetJoin
<1>2. CASE User
  BY <1>2 DEF User, SetPaused, SetThreads, Stop
<1>3. ASSUME NEW w \in Worker, Mine(w) PROVE UNCHANGED controls
  BY <1>3 DEF Mine, ClaimTicket, Top, SnapshotWork, SnapshotGeneration, ReadGeneration,
              ReadSolved, ReadControls, SearchInVain, SearchSolves, Submit, WaitForNewWork
<1>4. CASE UNCHANGED vars
  BY <1>4
<1> QED
  BY <1>1, <1>2, <1>3, <1>4 DEF Next

-----------------------------------------------------------------------------
\* Hashing threads never write the job, the generation or the tickets of
\* others; these frame lemmas say what each part of the program leaves alone.
LEMMA MineFrame ==
  ASSUME NEW w \in Worker, Mine(w)
  PROVE  /\ UNCHANGED <<current, generation, controls, net>>
         /\ \A v \in Worker \ {w} : StateOK => UNCHANGED <<pc[v], ticket[v], job[v], gen[v], at[v], overrun[v]>>
<1> USE DEF StateOK
<1>1. CASE ClaimTicket(w)
  BY <1>1 DEF ClaimTicket
<1>2. CASE Top(w)
  BY <1>2 DEF Top
<1>3. CASE SnapshotWork(w)
  BY <1>3 DEF SnapshotWork
<1>4. CASE SnapshotGeneration(w)
  BY <1>4 DEF SnapshotGeneration
<1>5. CASE ReadGeneration(w)
  BY <1>5 DEF ReadGeneration
<1>6. CASE ReadSolved(w)
  BY <1>6 DEF ReadSolved, Unsolved
<1>7. CASE ReadControls(w)
  BY <1>7 DEF ReadControls
<1>8. CASE SearchInVain(w)
  BY <1>8 DEF SearchInVain, Overran
<1>9. CASE SearchSolves(w)
  BY <1>9 DEF SearchSolves, Overran
<1>10. CASE Submit(w)
  BY <1>10 DEF Submit
<1>11. CASE WaitForNewWork(w)
  BY <1>11 DEF WaitForNewWork
<1> QED
  BY <1>1, <1>2, <1>3, <1>4, <1>5, <1>6, <1>7, <1>8, <1>9, <1>10, <1>11 DEF Mine

\* The network thread and the user touch no local of a hashing thread; the
\* generation and the stored job only grow, and a stop is never taken back.
LEMMA OthersFrame ==
  ASSUME Net \/ User \/ UNCHANGED vars, StateOK
  PROVE  /\ UNCHANGED <<locals, tickets, solved, sent, overrun>>
         /\ current' >= current /\ generation' >= generation
         /\ stop => stop'
<1>1. UNCHANGED <<locals, tickets, solved, sent, overrun>>
  BY DEF Net, NetCheck, NetInstall, NetBump, NetOther, NetDisconnected,
         NetWindDown, NetJoin, User, SetPaused, SetThreads, Stop
<1>2. current' >= current /\ generation' >= generation
  BY DEF Net, NetCheck, NetInstall, NetBump, NetOther, NetDisconnected,
         NetWindDown, NetJoin, User, SetPaused, SetThreads, Stop, StateOK
<1>3. stop => stop'
  BY DEF Net, NetCheck, NetInstall, NetBump, NetOther, NetDisconnected,
         NetWindDown, NetJoin, User, SetPaused, SetThreads, Stop
<1> QED
  BY <1>1, <1>2, <1>3

\* The generation equals the stored job, less one inside WorkState::set.
LEMMA GenerationStep == IInv /\ [Next]_vars => GenerationTrailsCurrent'
<1> SUFFICES ASSUME StateOK, GenerationTrailsCurrent, [Next]_vars
             PROVE  GenerationTrailsCurrent'
  BY DEF IInv, TypeOK
<1> USE DEF GenerationTrailsCurrent
<1>1. CASE Net
  BY <1>1 DEF Net, NetCheck, NetInstall, NetBump, NetOther, NetDisconnected,
              NetWindDown, NetJoin, StateOK
<1>2. CASE User \/ UNCHANGED vars
  BY <1>2 DEF User, SetPaused, SetThreads, Stop
<1>3. ASSUME NEW w \in Worker, Mine(w) PROVE GenerationTrailsCurrent'
  BY <1>3, MineFrame
<1> QED
  BY <1>1, <1>2, <1>3 DEF Next

-----------------------------------------------------------------------------
\* No thread holds a job or a tag from the future, and a tag lags its job by
\* at most the one bump that was outstanding when the job was copied.
LEMMA HeldWorkStep == IInv /\ [Next]_vars => HeldWork'
<1> SUFFICES ASSUME StateOK, GenerationTrailsCurrent, HeldWork, [Next]_vars,
                    NEW v \in Worker
             PROVE  /\ job'[v] <= current'
                    /\ gen'[v] <= generation'
                    /\ HoldsWork(v)' => job'[v] >= 1
                    /\ Tagged(v)' => job'[v] <= gen'[v] + 1
  BY DEF IInv, TypeOK, HeldWork
<1> USE DEF StateOK, HoldsWork, Tagged
<1>0. /\ job[v] <= current /\ gen[v] <= generation
      /\ HoldsWork(v) => job[v] >= 1
      /\ Tagged(v) => job[v] <= gen[v] + 1
  BY DEF HeldWork
<1>1. CASE Net \/ User \/ UNCHANGED vars
  <2>1. UNCHANGED <<pc, job, gen>> /\ current' >= current /\ generation' >= generation
    BY <1>1, OthersFrame
  <2>2. current' \in Nat /\ generation' \in Nat
    BY StateStep, <1>1 DEF Net, NetCheck, NetInstall, NetBump, NetOther, NetDisconnected,
         NetWindDown, NetJoin, User, SetPaused, SetThreads, Stop
  <2> QED
    BY <1>0, <2>1, <2>2
<1>2. ASSUME NEW w \in Worker \ {v}, Mine(w)
      PROVE  UNCHANGED <<current, generation, pc[v], job[v], gen[v]>>
  BY <1>2, MineFrame
<1>3. CASE Mine(v)
  <2>1. UNCHANGED <<current, generation, net>>
    BY <1>3, MineFrame
  <2>2. CASE SnapshotWork(v)
    BY <1>0, <2>1, <2>2 DEF SnapshotWork, NoJob
  <2>3. CASE SnapshotGeneration(v)
    BY <1>0, <2>1, <2>3 DEF SnapshotGeneration, GenerationTrailsCurrent
  <2>4. CASE ClaimTicket(v) \/ Top(v)
    BY <1>0, <2>1, <2>4 DEF ClaimTicket, Top
  <2>5. CASE ReadGeneration(v) \/ ReadSolved(v) \/ ReadControls(v)
    BY <1>0, <2>1, <2>5 DEF ReadGeneration, ReadSolved, ReadControls, Unsolved
  <2>6. CASE SearchInVain(v) \/ SearchSolves(v) \/ Submit(v) \/ WaitForNewWork(v)
    BY <1>0, <2>1, <2>6 DEF SearchInVain, SearchSolves, Submit, WaitForNewWork
  <2> QED
    BY <1>3, <2>2, <2>3, <2>4, <2>5, <2>6 DEF Mine
<1> QED
  BY <1>0, <1>1, <1>2, <1>3 DEF Next

\* A claimed ticket is below the counter, so the next one claimed is new.
LEMMA TicketsStep == IInv /\ [Next]_vars => ClaimedTickets'
<1> SUFFICES ASSUME StateOK, ClaimedTickets, [Next]_vars PROVE ClaimedTickets'
  BY DEF IInv, TypeOK
<1> USE DEF StateOK, ClaimedTickets, NoSharedMidstate
<1>1. CASE Net \/ User \/ UNCHANGED vars
  BY <1>1, OthersFrame
<1>2. ASSUME NEW w \in Worker, Mine(w) PROVE ClaimedTickets'
  <2>1. CASE ClaimTicket(w)
    BY <2>1 DEF ClaimTicket
  <2>2. CASE Top(w) \/ SnapshotWork(w) \/ SnapshotGeneration(w)
    BY <2>2 DEF Top, SnapshotWork, SnapshotGeneration
  <2>3. CASE ReadGeneration(w) \/ ReadSolved(w) \/ ReadControls(w)
    BY <2>3 DEF ReadGeneration, ReadSolved, ReadControls, Unsolved
  <2>4. CASE SearchInVain(w) \/ SearchSolves(w) \/ Submit(w) \/ WaitForNewWork(w)
    BY <2>4 DEF SearchInVain, SearchSolves, Submit, WaitForNewWork
  <2> QED
    BY <1>2, <2>1, <2>2, <2>3, <2>4 DEF Mine
<1> QED
  BY <1>1, <1>2 DEF Next

\* A thread that has overrun once finds out before it can search again.
LEMMA OverrunStep == IInv /\ [Next]_vars => OverrunAccounted'
<1> SUFFICES ASSUME StateOK, HeldWork, OverrunAccounted, [Next]_vars,
                    NEW v \in Worker
             PROVE  /\ overrun'[v] <= 1
                    /\ ~InLoop(v)' /\ pc'[v] \notin {"submit", "wait"} => overrun'[v] = 0
                    /\ pc'[v] = "loopGen" /\ overrun'[v] = 1 => ~Wanted(v)'
                    /\ pc'[v] \in {"loopSolved", "loopHash"} /\ overrun'[v] = 1 => stop'
  BY DEF IInv, TypeOK, OverrunAccounted
<1> USE DEF StateOK, InLoop, Wanted
<1>0. /\ gen[v] <= generation
      /\ overrun[v] <= 1
      /\ ~InLoop(v) /\ pc[v] \notin {"submit", "wait"} => overrun[v] = 0
      /\ pc[v] = "loopGen" /\ overrun[v] = 1 => ~Wanted(v)
      /\ pc[v] \in {"loopSolved", "loopHash"} /\ overrun[v] = 1 => stop
  BY DEF HeldWork, OverrunAccounted
<1>1. CASE Net \/ User \/ UNCHANGED vars
  <2>1. UNCHANGED <<pc, gen, overrun>> /\ generation' >= generation /\ (stop => stop')
    BY <1>1, OthersFrame
  <2>2. generation # gen[v] => generation' # gen[v]
    BY <1>0, <2>1, <1>1 DEF Net, NetCheck, NetInstall, NetBump, NetOther, NetDisconnected,
         NetWindDown, NetJoin, User, SetPaused, SetThreads, Stop
  <2> QED
    BY <1>0, <2>1, <2>2
<1>2. ASSUME NEW w \in Worker \ {v}, Mine(w)
      PROVE  UNCHANGED <<generation, stop, pc[v], gen[v], overrun[v]>>
  BY <1>2, MineFrame
<1>3. CASE Mine(v)
  <2>1. UNCHANGED <<generation, stop>>
    BY <1>3, MineFrame
  <2>2. CASE ClaimTicket(v) \/ Top(v) \/ SnapshotWork(v) \/ SnapshotGeneration(v)
    BY <1>0, <2>1, <2>2 DEF ClaimTicket, Top, SnapshotWork, SnapshotGeneration
  <2>3. CASE ReadGeneration(v)
    BY <1>0, <2>1, <2>3 DEF ReadGeneration
  <2>4. CASE ReadSolved(v)
    BY <1>0, <2>1, <2>4 DEF ReadSolved, Unsolved
  <2>5. CASE ReadControls(v)
    BY <1>0, <2>1, <2>5 DEF ReadControls, ShouldHash
  <2>6. CASE SearchInVain(v)
    BY <1>0, <2>1, <2>6 DEF SearchInVain, Overran
  <2>7. CASE SearchSolves(v)
    BY <1>0, <2>1, <2>7 DEF SearchSolves, Overran
  <2>8. CASE Submit(v) \/ WaitForNewWork(v)
    BY <1>0, <2>1, <2>8 DEF Submit, WaitForNewWork
  <2> QED
    BY <1>3, <2>2, <2>3, <2>4, <2>5, <2>6, <2>7, <2>8 DEF Mine
<1> QED
  BY <1>0, <1>1, <1>2, <1>3 DEF Next

\* The mark is stored by a thread that goes on to submit, and shares sent stay
\* sent.
LEMMA RetiredStep == IInv /\ [Next]_vars => RetiredMeansSubmitted'
<1> SUFFICES ASSUME StateOK, RetiredMeansSubmitted, [Next]_vars
             PROVE  RetiredMeansSubmitted'
  BY DEF IInv, TypeOK
<1> USE DEF StateOK, RetiredMeansSubmitted
<1>1. CASE Net \/ User \/ UNCHANGED vars
  BY <1>1, OthersFrame
<1>2. ASSUME NEW w \in Worker, Mine(w) PROVE RetiredMeansSubmitted'
  <2>1. CASE Submit(w)
    <3>1. solved' = solved /\ sent \subseteq sent'
      BY <2>1 DEF Submit
    <3>2. \E s \in sent' : s.gen = gen[w]
      <4> DEFINE share == [gen |-> gen[w], job |-> job[w], ticket |-> ticket[w], at |-> at[w]]
      <4>1. share \in sent'
        BY <2>1 DEF Submit
      <4>2. share.gen = gen[w]
        OBVIOUS
      <4> QED
        BY <4>1, <4>2
    <3>3. \A u \in Worker : u # w => pc'[u] = pc[u] /\ gen'[u] = gen[u]
      BY <2>1 DEF Submit
    <3> QED
      BY <3>1, <3>2, <3>3
  <2>2. CASE SearchSolves(w)
    BY <2>2 DEF SearchSolves
  <2>3. CASE ClaimTicket(w) \/ Top(w) \/ SnapshotWork(w) \/ SnapshotGeneration(w)
    BY <2>3 DEF ClaimTicket, Top, SnapshotWork, SnapshotGeneration
  <2>4. CASE ReadGeneration(w) \/ ReadSolved(w) \/ ReadControls(w)
    BY <2>4 DEF ReadGeneration, ReadSolved, ReadControls, Unsolved
  <2>5. CASE SearchInVain(w) \/ WaitForNewWork(w)
    BY <2>5 DEF SearchInVain, WaitForNewWork
  <2> QED
    BY <1>2, <2>1, <2>2, <2>3, <2>4, <2>5 DEF Mine
<1> QED
  BY <1>1, <1>2 DEF Next

-----------------------------------------------------------------------------
\* The invariant is inductive.
LEMMA InvariantStep == IInv /\ [Next]_vars => IInv'
  BY FlagsStep, StateStep, GenerationStep, HeldWorkStep, TicketsStep, OverrunStep,
     RetiredStep DEF IInv, TypeOK

THEOREM Invariant == Spec => []IInv
<1>1. Init => IInv
  BY InitInvariant
<1>2. IInv /\ [Next]_vars => IInv'
  BY InvariantStep
<1> QED
  BY <1>1, <1>2, PTL DEF Spec

\* Type correctness, for any number of threads and jobs.
THEOREM TypeCorrect == Spec => []TypeOK
<1>1. IInv => TypeOK
  BY DEF IInv
<1> QED
  BY <1>1, Invariant, PTL

\* A snapshot tagged with the generation before its job is retired by the bump
\* that is still to come, or was already: WorkState::set and snapshot().
THEOREM EarlyTagsAreRetired == Spec => []TaggedEarlyIsRetired
<1>1. IInv => TaggedEarlyIsRetired
  BY DEF IInv, TypeOK, StateOK, HeldWork, GenerationTrailsCurrent, TaggedEarlyIsRetired
<1> QED
  BY <1>1, Invariant, PTL

\* Superseded work or a stop costs a thread at most one batch: mine()'s loop.
THEOREM AtMostOneBatchOverrun == Spec => []OneBatchOverrun
<1>1. IInv => OneBatchOverrun
  BY DEF IInv, OverrunAccounted, OneBatchOverrun
<1> QED
  BY <1>1, Invariant, PTL

\* A generation is retired only for a candidate sent, or being sent:
\* mark_solved() and submit().
THEOREM RetiredOnlyForACandidate == Spec => []RetiredMeansSubmitted
<1>1. IInv => RetiredMeansSubmitted
  BY DEF IInv
<1> QED
  BY <1>1, Invariant, PTL

\* No two threads search the same extranonce: Shared::extranonce_counter.
THEOREM MidstatesAreDisjoint == Spec => []NoSharedMidstate
<1>1. IInv => NoSharedMidstate
  BY DEF IInv, ClaimedTickets
<1> QED
  BY <1>1, Invariant, PTL

\* The jobs and generations a thread works on only move forward.
THEOREM WorkMovesForward == Spec => NeverBackToOlderWork
<1>1. ASSUME IInv, [Next]_vars
      PROVE  [\A w \in Worker : job'[w] >= job[w] /\ gen'[w] >= gen[w]]_vars
  <2> SUFFICES ASSUME NEW v \in Worker
               PROVE  job'[v] >= job[v] /\ gen'[v] >= gen[v]
    OBVIOUS
  <2> USE DEF StateOK
  <2>0. StateOK /\ job[v] <= current /\ gen[v] <= generation
    BY <1>1 DEF IInv, TypeOK, HeldWork
  <2>1. CASE Net \/ User \/ UNCHANGED vars
    BY <2>0, <2>1, OthersFrame
  <2>2. ASSUME NEW w \in Worker \ {v}, Mine(w) PROVE UNCHANGED <<job[v], gen[v]>>
    BY <2>0, <2>2, MineFrame
  <2>3. CASE SnapshotWork(v)
    BY <2>0, <2>3 DEF SnapshotWork
  <2>4. CASE SnapshotGeneration(v)
    BY <2>0, <2>4 DEF SnapshotGeneration
  <2>5. CASE Mine(v) /\ ~SnapshotWork(v) /\ ~SnapshotGeneration(v)
    BY <2>0, <2>5 DEF Mine, ClaimTicket, Top, ReadGeneration, ReadSolved, ReadControls,
                      SearchInVain, SearchSolves, Submit, WaitForNewWork
  <2> QED
    BY <1>1, <2>0, <2>1, <2>2, <2>3, <2>4, <2>5 DEF Next
<1> QED
  BY <1>1, Invariant, PTL DEF Spec, NeverBackToOlderWork
=============================================================================
