----------------------------- MODULE MinerTotals -----------------------------
(***************************************************************************)
(* How the miner counts its hashes and keeps the lifetime totals:          *)
(* crates/miner/src/{stats,lifetime}.rs, the reporter and the wind-down of *)
(* crates/miner/src/lib.rs, with crashes and restarts.                     *)
(*                                                                         *)
(* Abstractions. A batch counts as one hash; a hash is its number of       *)
(* leading zero bits, which is what makes one better. The interval and     *)
(* SAVE_INTERVAL may elapse at any time. Of the file, what is kept is the  *)
(* total and the best, and whether it parses.                              *)
(***************************************************************************)
EXTENDS Naturals, FiniteSets

CONSTANTS Worker,       \* hashing threads
          MaxBits,      \* bound: leading zero bits of a hash
          MaxBatches,   \* bound: batches searched over all sessions
          MaxSessions   \* bound: times the miner is started

ASSUME WorkerAssumption  == IsFiniteSet(Worker)
ASSUME BitsAssumption    == MaxBits \in Nat
ASSUME BatchesAssumption == MaxBatches \in Nat
ASSUME SessionAssumption == MaxSessions \in Nat

VARIABLES
  run,          \* the process: "down", "up", winding down: "workers", "reporter"
  stop,         \* Controls::stop
  hashes, bestBits, best,   \* Stats; its mutex is held by a thread at "store"
  pc, found,    \* each thread: where it is in mine()/record(), its batch's best
  rep, stopping, recent, folded, life,   \* report()'s locals
  disk, temp,   \* lifetime.json and its temporary file
  sessions,     \* bound counter
  searched,     \* history: batches searched, ever
  seen,         \* history: hash values recorded in this session
  intact        \* history: no crash and no failed save so far

process  == <<run, stop>>
stats    == <<hashes, bestBits, best>>
threads  == <<pc, found>>
reporter == <<rep, stopping, recent, folded, life>>
files    == <<disk, temp>>
history  == <<searched, seen, intact>>
vars     == <<process, stats, threads, reporter, files, sessions, history>>

Hash    == 0..MaxBits
Totals  == [total : 0..MaxBatches, best : Hash]
Fresh   == [total |-> 0, best |-> 0]
Missing == [state |-> "missing", totals |-> Fresh]
Partial == [state |-> "partial", totals |-> Fresh]
Whole(t) == [state |-> "whole", totals |-> t]

Init ==
  /\ run = "down" /\ stop = FALSE
  /\ hashes = 0 /\ bestBits = 0 /\ best = 0
  /\ pc = [w \in Worker |-> "done"] /\ found = [w \in Worker |-> 0]
  /\ rep = "done" /\ stopping = FALSE /\ recent = 0 /\ folded = 0 /\ life = Fresh
  /\ disk = Missing /\ temp = Missing
  /\ sessions = 0
  /\ searched = 0 /\ seen = {} /\ intact = TRUE

-----------------------------------------------------------------------------
(* The process: start, stop, wind down, crash.                             *)

\* What the process holds in memory, new or gone.
Blank(there, here) ==
  /\ stop' = FALSE
  /\ hashes' = 0 /\ bestBits' = 0 /\ best' = 0
  /\ pc' = [w \in Worker |-> there] /\ found' = [w \in Worker |-> 0]
  /\ rep' = here /\ stopping' = FALSE /\ recent' = 0 /\ folded' = 0 /\ life' = Fresh
  /\ seen' = {}

Start ==
  /\ run = "down" /\ sessions < MaxSessions
  /\ run' = "up" /\ Blank("top", "load")
  /\ sessions' = sessions + 1
  /\ UNCHANGED <<files, searched, intact>>

\* Whoever holds the Controls, or run() itself when the pool has gone.
Stop ==
  /\ run = "up" /\ ~stop
  /\ stop' = TRUE
  /\ UNCHANGED <<run, stats, threads, reporter, files, sessions, history>>

\* The network loop notices; then it joins the threads, then the reporter ...
WindDown ==
  /\ \/ run = "up" /\ stop /\ run' = "workers"
     \/ run = "workers" /\ (\A w \in Worker : pc[w] = "done") /\ run' = "reporter"
  /\ UNCHANGED <<stop, stats, threads, reporter, files, sessions, history>>

\* ... and the process ends.
Exit ==
  /\ run = "reporter" /\ rep = "done"
  /\ run' = "down" /\ Blank("done", "done")
  /\ UNCHANGED <<files, sessions, searched, intact>>

\* The machine loses power, or the process is killed: only the files remain.
Crash ==
  /\ run # "down"
  /\ run' = "down" /\ Blank("done", "done")
  /\ intact' = FALSE
  /\ UNCHANGED <<files, sessions, searched>>

Process == Start \/ Stop \/ WindDown \/ Exit \/ Crash

-----------------------------------------------------------------------------
(* A hashing thread: one batch, then Stats::record.                        *)

Goto(w, there) == pc' = [pc EXCEPT ![w] = there]

Begun == searched + Cardinality({w \in Worker : pc[w] = "batch"})

\* mine()'s loop: return on a stop, or search one more batch.
Top(w) ==
  /\ pc[w] = "top"
  /\ \/ stop /\ Goto(w, "done")
     \/ ~stop /\ Begun < MaxBatches /\ Goto(w, "batch")
  /\ UNCHANGED <<process, stats, found, reporter, files, sessions, history>>

\* The batch is searched and counted (fetch_add).
Search(w) ==
  /\ pc[w] = "batch"
  /\ \E h \in Hash :
       /\ found' = [found EXCEPT ![w] = h]
       /\ seen' = seen \cup {h}
  /\ searched' = searched + 1
  /\ hashes' = hashes + 1
  /\ Goto(w, "compare")
  /\ UNCHANGED <<process, bestBits, best, reporter, files, sessions, intact>>

\* The cheap summary first, without the mutex ...
Compare(w) ==
  /\ pc[w] = "compare"
  /\ Goto(w, IF found[w] <= bestBits THEN "top" ELSE "lock")
  /\ UNCHANGED <<process, stats, found, reporter, files, sessions, history>>

\* The mutex of Stats::best.
Unlocked == \A w \in Worker : pc[w] # "store"

\* A mutant of Improve: what was compared before the mutex was taken is trusted.
ImproveBlindly(w) ==
  /\ pc[w] = "lock" /\ Unlocked
  /\ best' = found[w]
  /\ Goto(w, "store")
  /\ UNCHANGED <<process, hashes, bestBits, found, reporter, files, sessions, history>>

\* ... then again under it ...
Improve(w) ==
  /\ pc[w] = "lock" /\ Unlocked
  /\ \/ found[w] > best /\ best' = found[w] /\ Goto(w, "store")
     \/ found[w] <= best /\ Goto(w, "top") /\ UNCHANGED best
  /\ UNCHANGED <<process, hashes, bestBits, found, reporter, files, sessions, history>>

\* ... and the summary is stored before the mutex is released.
StoreBits(w) ==
  /\ pc[w] = "store"
  /\ bestBits' = found[w]
  /\ Goto(w, "top")
  /\ UNCHANGED <<process, hashes, best, found, reporter, files, sessions, history>>

Thread(w) == Top(w) \/ Search(w) \/ Compare(w) \/ Improve(w) \/ StoreBits(w)

-----------------------------------------------------------------------------
(* The reporter thread: report(), Lifetime::load, record and save.         *)

\* A missing or unreadable file starts the totals afresh.
Load ==
  /\ rep = "load"
  /\ life' = disk.totals
  /\ rep' = "sleep"
  /\ UNCHANGED <<process, stats, threads, stopping, recent, folded, files, sessions, history>>

\* The stop flag is read once per turn; the interval may be over anyway.
Wake ==
  /\ rep = "sleep"
  /\ stopping' = stop
  /\ rep' = "count"
  /\ UNCHANGED <<process, stats, threads, recent, folded, life, files, sessions, history>>

\* A mutant of CountRecent: the whole session is taken for the last interval.
CountSession ==
  /\ rep = "count"
  /\ recent' = hashes
  /\ rep' = "record"
  /\ UNCHANGED <<process, stats, threads, stopping, folded, life, files, sessions, history>>

CountRecent ==
  /\ rep = "count"
  /\ recent' = hashes - folded
  /\ folded' = hashes
  /\ rep' = "record"
  /\ UNCHANGED <<process, stats, threads, stopping, life, files, sessions, history>>

\* A mutant of Record: the last turn does not insist on a save.
RecordWithoutLastSave ==
  /\ rep = "record" /\ Unlocked
  /\ life' = [total |-> life.total + recent,
              best  |-> IF best > life.best THEN best ELSE life.best]
  /\ \/ rep' = "write"
     \/ rep' = IF stopping THEN "done" ELSE "sleep"
  /\ UNCHANGED <<process, stats, threads, stopping, recent, folded, files, sessions, history>>

\* Stats::best under its mutex, Lifetime::record; then save when stopping or
\* when SAVE_INTERVAL has passed.
Record ==
  /\ rep = "record" /\ Unlocked
  /\ life' = [total |-> life.total + recent,
              best  |-> IF best > life.best THEN best ELSE life.best]
  /\ \/ rep' = "write"
     \/ ~stopping /\ rep' = "sleep"
  /\ UNCHANGED <<process, stats, threads, stopping, recent, folded, files, sessions, history>>

AfterSave == rep' = IF stopping THEN "done" ELSE "sleep"

\* A mutant of WriteTemporary: the file itself is overwritten.
WriteInPlace ==
  /\ rep = "write"
  /\ \/ disk # Partial /\ disk' = Partial /\ UNCHANGED rep
     \/ disk = Partial /\ disk' = Whole(life) /\ AfterSave
  /\ UNCHANGED <<process, stats, threads, stopping, recent, folded, life, temp, sessions, history>>

\* Lifetime::save: the temporary file is truncated, then filled ...
WriteTemporary ==
  /\ rep = "write"
  /\ \/ temp # Partial /\ temp' = Partial /\ UNCHANGED rep
     \/ temp = Partial /\ temp' = Whole(life) /\ rep' = "rename"
  /\ UNCHANGED <<process, stats, threads, stopping, recent, folded, life, disk, sessions, history>>

\* ... and takes the file's place at once.
Rename ==
  /\ rep = "rename"
  /\ disk' = temp /\ temp' = Missing
  /\ AfterSave
  /\ UNCHANGED <<process, stats, threads, stopping, recent, folded, life, sessions, history>>

\* The disk is full or read-only: a warning, and on.
SaveFails ==
  /\ rep \in {"write", "rename"}
  /\ intact' = FALSE
  /\ AfterSave
  /\ UNCHANGED <<process, stats, threads, stopping, recent, folded, life, files, sessions, searched, seen>>

Reporter == Load \/ Wake \/ CountRecent \/ Record \/ WriteTemporary \/ Rename \/ SaveFails

Next == Process \/ Reporter \/ \E w \in Worker : Thread(w)

Spec == Init /\ [][Next]_vars
-----------------------------------------------------------------------------
(* What must hold.                                                         *)

File == [state : {"missing", "partial", "whole"}, totals : Totals]

TypeOK ==
  /\ run \in {"down", "up", "workers", "reporter"} /\ stop \in BOOLEAN
  /\ hashes \in 0..MaxBatches /\ bestBits \in Hash /\ best \in Hash
  /\ pc \in [Worker -> {"top", "batch", "compare", "lock", "store", "done"}]
  /\ found \in [Worker -> Hash]
  /\ rep \in {"load", "sleep", "count", "record", "write", "rename", "done"}
  /\ stopping \in BOOLEAN /\ recent \in 0..MaxBatches /\ folded \in 0..MaxBatches
  /\ life \in Totals
  /\ disk \in File /\ temp \in File
  /\ sessions \in 0..MaxSessions
  /\ searched \in 0..MaxBatches /\ seen \subseteq Hash /\ intact \in BOOLEAN

Saved == disk.totals

\* "It is a number that takes months to rebuild" (lifetime.rs): whatever crashes
\* and whatever save fails, the totals on disk never shrink and never get lost.
SavedTotalsNeverShrink ==
  [][/\ disk.state # "missing" => disk'.state = "whole"
     /\ Saved'.total >= Saved.total /\ Saved'.best >= Saved.best]_vars

\* No hash is counted twice, over any number of sessions and crashes: what is
\* saved, and what the reporter holds plus what it has yet to fold in, was done.
NothingCountedTwice ==
  /\ Saved.total <= searched
  /\ rep \notin {"load", "done"} =>
       life.total + (IF rep = "record" THEN recent ELSE 0) + (hashes - folded) <= searched

\* The session's best is not lost in the race of the threads that beat it: it
\* has the bits of every hash recorded, or a thread is still to put it there.
BestIsNotLost ==
  run = "up" => \A h \in seen :
    \/ best >= h
    \/ \E w \in Worker : pc[w] \in {"compare", "lock"} /\ found[w] = h

\* "Saves once more on the way out, so stopping the miner does not lose the last
\* interval's work" (lib.rs:187): while no crash and no failed save intervened,
\* what a stop loses is at most the batch each thread was in, not an interval.
StoppingLosesAtMostABatch ==
  intact /\ run = "down" => searched <= Saved.total + sessions * Cardinality(Worker)

=============================================================================
