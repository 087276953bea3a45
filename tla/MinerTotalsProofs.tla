------------------------- MODULE MinerTotalsProofs -------------------------
(***************************************************************************)
(* The totals and the best hash of MinerTotals, for every number of        *)
(* threads, batches and sessions.                                          *)
(***************************************************************************)
EXTENDS MinerTotals, FiniteSetTheorems, TLAPS

-----------------------------------------------------------------------------
(* The inductive invariant.                                                *)

Searching == {w \in Worker : pc[w] = "batch"}

BegunInv == searched + Cardinality(Searching) <= MaxBatches /\ hashes <= searched

\* What the reporter has still to fold in was searched in this session, and
\* what it starts from was searched before.
CountInv ==
  /\ folded <= hashes /\ recent <= hashes
  /\ life.total <= searched
  /\ rep = "load" => folded = 0 /\ Saved.total + hashes <= searched
  /\ NothingCountedTwice

\* The reporter holds no less than the file does, and renames what it holds.
FilesInv ==
  /\ disk.state \in {"missing", "whole"}
  /\ rep \notin {"load", "done"} => life.total >= Saved.total /\ life.best >= Saved.best
  /\ rep = "rename" => temp = Whole(life)

\* The summary never promises a better hash than there is.
BestInv ==
  /\ bestBits <= best
  /\ \A w \in Worker : pc[w] = "store" => found[w] <= best
  /\ BestIsNotLost

IInv == TypeOK /\ BegunInv /\ CountInv /\ FilesInv /\ BestInv

USE WorkerAssumption, BitsAssumption, BatchesAssumption, SessionAssumption
    DEF process, stats, threads, reporter, files, history, Goto

-----------------------------------------------------------------------------
(* What a file can hold.                                                   *)

LEMMA Contents ==
  /\ 0 \in Hash /\ Fresh \in Totals /\ Fresh.total = 0 /\ Fresh.best = 0
  /\ Missing \in File /\ Partial \in File /\ Missing.state = "missing" /\ Missing.totals = Fresh
  /\ \A t \in Totals : Whole(t) \in File /\ Whole(t).state = "whole" /\ Whole(t).totals = t
<1>1. 0 \in Hash /\ 0 \in 0..MaxBatches
  BY DEF Hash
<1>2. Fresh \in Totals /\ Fresh.total = 0 /\ Fresh.best = 0
  BY <1>1 DEF Fresh, Totals
<1> QED
  BY <1>1, <1>2 DEF Missing, Partial, Whole, File

-----------------------------------------------------------------------------
(* Batches begun, counted thread by thread.                                *)

LEMMA SearchingFinite == IsFiniteSet(Searching) /\ Cardinality(Searching) \in Nat
BY FS_Subset, FS_CardinalityType DEF Searching

LEMMA OneMore ==
  ASSUME TypeOK, NEW w \in Worker, pc[w] # "batch", pc' = [pc EXCEPT ![w] = "batch"]
  PROVE  Cardinality(Searching') = Cardinality(Searching) + 1
<1>1. Searching' = Searching \cup {w} /\ w \notin Searching
  BY DEF TypeOK, Searching
<1> QED
  BY <1>1, SearchingFinite, FS_AddElement

LEMMA OneLess ==
  ASSUME TypeOK, NEW w \in Worker, pc[w] = "batch", NEW p, p # "batch", pc' = [pc EXCEPT ![w] = p]
  PROVE  Cardinality(Searching') = Cardinality(Searching) - 1
<1>1. Searching' = Searching \ {w} /\ w \in Searching
  BY DEF TypeOK, Searching
<1> QED
  BY <1>1, SearchingFinite, FS_RemoveElement

LEMMA NoneElse ==
  ASSUME TypeOK, NEW w \in Worker, pc[w] # "batch", NEW p, p # "batch", pc' = [pc EXCEPT ![w] = p]
  PROVE  Searching' = Searching
BY DEF TypeOK, Searching

\* A process that starts, ends or crashes leaves no batch unfinished.
LEMMA BlankEffect ==
  ASSUME TypeOK, NEW p \in {"top", "done"}, NEW r \in {"load", "done"}, Blank(p, r)
  PROVE  /\ Cardinality(Searching') = 0 /\ hashes' = 0 /\ folded' = 0 /\ recent' = 0 /\ life' = Fresh
         /\ rep' = r /\ best' = 0 /\ bestBits' = 0 /\ seen' = {} /\ \A w \in Worker : pc'[w] = p
<1>1. Searching' = {}
  BY DEF Blank, Searching
<1> QED
  BY <1>1, FS_EmptySet DEF Blank

-----------------------------------------------------------------------------
(* The process.                                                            *)

LEMMA ProcessStep == IInv /\ Process => IInv'
<1> SUFFICES ASSUME IInv, Process PROVE IInv'
  OBVIOUS
<1>t. TypeOK /\ searched \in Nat /\ Saved.total \in Nat /\ Saved.total <= searched /\ searched <= MaxBatches
  <2>1. disk.totals \in Totals
    BY DEF IInv, TypeOK, File
  <2> QED
    BY <2>1, SearchingFinite DEF IInv, TypeOK, CountInv, NothingCountedTwice, Saved, Totals
<1>1. CASE Start \/ Exit \/ Crash
  <2>1. PICK p \in {"top", "done"}, r \in {"load", "done"} : Blank(p, r)
    BY <1>1 DEF Start, Exit, Crash
  <2>2. UNCHANGED <<files, searched>>
    BY <1>1 DEF Start, Exit, Crash
  <2>3. TypeOK'
    <3>1. run' \in {"down", "up"} /\ UNCHANGED <<disk, temp, searched>>
      BY <1>1 DEF Start, Exit, Crash
    <3>s. sessions' \in 0..MaxSessions
      BY <1>t, <1>1 DEF Start, Exit, Crash, TypeOK
    <3>i. intact' \in BOOLEAN
      BY <1>t, <1>1 DEF Start, Exit, Crash, TypeOK
    <3>3. /\ stop' = FALSE /\ stopping' = FALSE /\ found' = [w \in Worker |-> 0] /\ pc' = [w \in Worker |-> p]
          /\ hashes' = 0 /\ bestBits' = 0 /\ best' = 0 /\ rep' = r /\ recent' = 0 /\ folded' = 0
          /\ life' = Fresh /\ seen' = {}
      BY <2>1 DEF Blank
    <3> QED
      <4>1. /\ pc' \in [Worker -> {"top", "batch", "compare", "lock", "store", "done"}]
            /\ found' \in [Worker -> Hash]
        BY <2>1, <3>3, Contents
      <4>2. /\ hashes' \in 0..MaxBatches /\ recent' \in 0..MaxBatches /\ folded' \in 0..MaxBatches
            /\ bestBits' \in Hash /\ best' \in Hash /\ life' \in Totals /\ seen' \subseteq Hash
        BY <3>3, Contents
      <4>3. /\ stop' \in BOOLEAN /\ stopping' \in BOOLEAN
            /\ rep' \in {"load", "sleep", "count", "record", "write", "rename", "done"}
        BY <2>1, <3>3
      <4> QED
        BY <1>t, <3>1, <3>s, <3>i, <4>1, <4>2, <4>3 DEF TypeOK
  <2>4. BegunInv'
    BY <1>t, <2>1, <2>2, BlankEffect DEF BegunInv
  <2>5. CountInv'
    BY <1>t, <2>1, <2>2, BlankEffect DEF CountInv, NothingCountedTwice, Saved, Fresh
  <2>6. FilesInv'
    BY <1>t, <2>1, <2>2, BlankEffect DEF IInv, FilesInv, Saved
  <2>7. BestInv'
    BY <1>t, <2>1, <2>2, BlankEffect DEF BestInv, BestIsNotLost
  <2> QED
    BY <2>3, <2>4, <2>5, <2>6, <2>7 DEF IInv
<1>2. CASE Stop \/ WindDown
  <2>1. UNCHANGED <<stats, threads, reporter, files, sessions, history>>
    BY <1>2 DEF Stop, WindDown
  <2>2. run' \in {"up", "workers", "reporter"} /\ (run' = "up" => run = "up") /\ stop' \in BOOLEAN
    BY <1>2 DEF Stop, WindDown, IInv, TypeOK
  <2>3. TypeOK'
    BY <2>1, <2>2 DEF IInv, TypeOK
  <2>4. BegunInv' /\ CountInv' /\ FilesInv'
    BY <2>1 DEF IInv, BegunInv, Searching, CountInv, NothingCountedTwice, FilesInv, Saved
  <2>5. BestInv'
    BY <2>1, <2>2 DEF IInv, BestInv, BestIsNotLost
  <2> QED
    BY <2>3, <2>4, <2>5 DEF IInv
<1> QED
  BY <1>1, <1>2 DEF Process

-----------------------------------------------------------------------------
(* The hashing threads.                                                    *)

LEMMA ThreadStep == ASSUME IInv, NEW w \in Worker, Thread(w) PROVE IInv'
<1>t. /\ TypeOK /\ BegunInv /\ CountInv /\ FilesInv /\ BestInv
      /\ searched \in Nat /\ hashes \in Nat /\ folded \in Nat /\ best \in Nat /\ bestBits \in Nat
      /\ \A v \in Worker : found[v] \in Nat
  BY DEF IInv, TypeOK, Hash
<1>s. life.total \in Nat /\ Saved.total \in Nat
  <2>1. life \in Totals /\ disk.totals \in Totals
    BY <1>t DEF TypeOK, File
  <2> QED
    BY <2>1 DEF Totals, Saved
<1>1. CASE Top(w)
  <2>1. /\ UNCHANGED <<process, stats, found, reporter, files, sessions, history>>
        /\ \/ pc' = [pc EXCEPT ![w] = "done"]
           \/ Begun < MaxBatches /\ pc' = [pc EXCEPT ![w] = "batch"]
        /\ pc[w] = "top"
    BY <1>1 DEF Top
  <2>2. TypeOK'
    BY <1>t, <2>1 DEF TypeOK
  <2>3. BegunInv'
    <3>1. CASE pc' = [pc EXCEPT ![w] = "done"]
      BY <1>t, <2>1, <3>1, NoneElse DEF BegunInv
    <3>2. CASE Begun < MaxBatches /\ pc' = [pc EXCEPT ![w] = "batch"]
      <4>1. Cardinality(Searching') = Cardinality(Searching) + 1
        BY <1>t, <2>1, <3>2, OneMore
      <4>2. searched + Cardinality(Searching) < MaxBatches
        BY <3>2 DEF Begun, Searching
      <4>3. UNCHANGED <<searched, hashes>>
        BY <2>1
      <4> QED
        BY <1>t, <4>1, <4>2, <4>3, SearchingFinite DEF BegunInv
    <3> QED
      BY <2>1, <3>1, <3>2
  <2>4. CountInv' /\ FilesInv'
    BY <1>t, <2>1 DEF CountInv, NothingCountedTwice, FilesInv, Saved
  <2>5. BestInv'
    BY <1>t, <2>1 DEF TypeOK, BestInv, BestIsNotLost
  <2> QED
    BY <2>2, <2>3, <2>4, <2>5 DEF IInv
<1>2. CASE Search(w)
  <2>1. PICK h \in Hash : found' = [found EXCEPT ![w] = h] /\ seen' = seen \cup {h}
    BY <1>2 DEF Search
  <2>2. /\ searched' = searched + 1 /\ hashes' = hashes + 1
        /\ pc[w] = "batch" /\ pc' = [pc EXCEPT ![w] = "compare"]
        /\ UNCHANGED <<process, bestBits, best, reporter, files, sessions, intact>>
    BY <1>2 DEF Search
  <2>3. BegunInv' /\ searched' <= MaxBatches
    <3>1. Cardinality(Searching') = Cardinality(Searching) - 1 /\ Cardinality(Searching) # 0
      <4>1. w \in Searching
        BY <2>2 DEF Searching
      <4> QED
        BY <1>t, <2>2, <4>1, OneLess, SearchingFinite, FS_EmptySet
    <3> QED
      BY <1>t, <2>2, <3>1, SearchingFinite DEF BegunInv
  <2>4. TypeOK'
    <3>1. searched' \in 0..MaxBatches /\ hashes' \in 0..MaxBatches
      BY <1>t, <2>2, <2>3 DEF BegunInv
    <3>2. pc' \in [Worker -> {"top", "batch", "compare", "lock", "store", "done"}]
      BY <1>t, <2>2 DEF TypeOK
    <3>3. found' \in [Worker -> Hash] /\ seen' \subseteq Hash
      BY <1>t, <2>1 DEF TypeOK
    <3> QED
      BY <1>t, <2>2, <3>1, <3>2, <3>3 DEF TypeOK
  <2>5. CountInv'
    BY <1>t, <1>s, <2>2 DEF TypeOK, CountInv, NothingCountedTwice, Saved
  <2>6. FilesInv'
    BY <1>t, <2>2 DEF FilesInv, Saved
  <2>7. BestInv'
    <3>1. pc'[w] = "compare" /\ found'[w] = h /\ \A v \in Worker \ {w} : pc'[v] = pc[v] /\ found'[v] = found[v]
      BY <1>t, <2>1, <2>2 DEF TypeOK
    <3>2. BestIsNotLost'
      BY <1>t, <2>1, <2>2, <3>1 DEF BestInv, BestIsNotLost
    <3> QED
      BY <1>t, <2>2, <3>1, <3>2 DEF BestInv
  <2> QED
    BY <2>3, <2>4, <2>5, <2>6, <2>7 DEF IInv
<1>3. ASSUME NEW p \in {"top", "lock", "store"}, pc[w] \notin {"batch", "top"}, pc' = [pc EXCEPT ![w] = p],
             best' \in {best, found[w]}, bestBits' \in {bestBits, found[w]},
             UNCHANGED <<process, hashes, found, reporter, files, sessions, history>>
      PROVE  TypeOK' /\ BegunInv' /\ CountInv' /\ FilesInv'
  <2>1. TypeOK'
    BY <1>t, <1>3 DEF TypeOK
  <2>2. BegunInv'
    BY <1>t, <1>3, NoneElse DEF BegunInv
  <2>3. CountInv' /\ FilesInv'
    BY <1>t, <1>3 DEF CountInv, NothingCountedTwice, FilesInv, Saved
  <2> QED
    BY <2>1, <2>2, <2>3
<1>4. CASE Compare(w)
  <2>1. /\ pc[w] = "compare" /\ pc' = [pc EXCEPT ![w] = IF found[w] <= bestBits THEN "top" ELSE "lock"]
        /\ UNCHANGED <<process, stats, found, reporter, files, sessions, history>>
    BY <1>4 DEF Compare
  <2>2. pc'[w] = (IF found[w] <= bestBits THEN "top" ELSE "lock") /\ \A v \in Worker \ {w} : pc'[v] = pc[v]
    BY <1>t, <2>1 DEF TypeOK
  <2>3. BestInv'
    BY <1>t, <2>1, <2>2 DEF BestInv, BestIsNotLost
  <2> QED
    BY <1>3, <2>1, <2>3 DEF IInv
<1>5. CASE Improve(w)
  <2>1. /\ pc[w] = "lock"
        /\ \/ found[w] > best /\ best' = found[w] /\ pc' = [pc EXCEPT ![w] = "store"]
           \/ found[w] <= best /\ best' = best /\ pc' = [pc EXCEPT ![w] = "top"]
        /\ UNCHANGED <<process, hashes, bestBits, found, reporter, files, sessions, history>>
    BY <1>5 DEF Improve
  <2>2. /\ best' \in Nat /\ best' >= best /\ best' >= found[w]
        /\ \A v \in Worker \ {w} : pc'[v] = pc[v]
    BY <1>t, <2>1 DEF TypeOK
  <2>3. BestInv'
    <3>1. \A h \in seen : h \in Nat
      BY <1>t DEF TypeOK, Hash
    <3>2. BestIsNotLost'
      BY <1>t, <2>1, <2>2, <3>1 DEF BestInv, BestIsNotLost
    <3> QED
      BY <1>t, <2>1, <2>2, <3>2 DEF BestInv
  <2> QED
    BY <1>3, <2>1, <2>3 DEF IInv
<1>6. CASE StoreBits(w)
  <2>1. /\ pc[w] = "store" /\ bestBits' = found[w] /\ pc' = [pc EXCEPT ![w] = "top"]
        /\ UNCHANGED <<process, hashes, best, found, reporter, files, sessions, history>>
    BY <1>6 DEF StoreBits
  <2>2. \A v \in Worker \ {w} : pc'[v] = pc[v]
    BY <1>t, <2>1 DEF TypeOK
  <2>3. pc'[w] = "top"
    BY <1>t, <2>1 DEF TypeOK
  <2>4. BestInv'
    BY <1>t, <2>1, <2>2, <2>3 DEF BestInv, BestIsNotLost
  <2> QED
    BY <1>3, <2>1, <2>4 DEF IInv
<1> QED
  BY <1>1, <1>2, <1>4, <1>5, <1>6 DEF Thread

-----------------------------------------------------------------------------
(* The reporter thread.                                                    *)

LEMMA ReporterStep == IInv /\ Reporter => IInv'
<1> SUFFICES ASSUME IInv, Reporter PROVE IInv'
  OBVIOUS
<1>t. /\ TypeOK /\ BegunInv /\ CountInv /\ FilesInv /\ BestInv
      /\ searched \in Nat /\ hashes \in Nat /\ folded \in Nat /\ recent \in Nat
      /\ searched <= MaxBatches /\ hashes <= MaxBatches /\ best \in Hash
  BY DEF IInv, TypeOK
<1>s. /\ life \in Totals /\ disk.totals \in Totals /\ life.total \in Nat /\ Saved.total \in Nat
      /\ life.best \in Hash /\ life.best \in Nat /\ Saved.best \in Nat
  <2>1. life \in Totals /\ disk.totals \in Totals
    BY <1>t DEF TypeOK, File
  <2> QED
    BY <2>1 DEF Totals, Saved, Hash
<1>r. UNCHANGED <<process, stats, threads, sessions, searched, seen>> /\ intact' \in BOOLEAN
  BY <1>t DEF Reporter, Load, Wake, CountRecent, Record, WriteTemporary, Rename, SaveFails, TypeOK
<1>b. BegunInv' /\ BestInv'
  BY <1>t, <1>r DEF BegunInv, Searching, BestInv, BestIsNotLost
<1>1. CASE Load
  <2>1. rep = "load" /\ rep' = "sleep" /\ life' = disk.totals /\ UNCHANGED <<stopping, recent, folded, files>>
    BY <1>1 DEF Load
  <2>2. TypeOK'
    BY <1>t, <1>s, <1>r, <2>1 DEF TypeOK
  <2>3. CountInv' /\ FilesInv'
    BY <1>t, <1>s, <1>r, <2>1 DEF CountInv, NothingCountedTwice, FilesInv, Saved
  <2> QED
    BY <1>b, <2>2, <2>3 DEF IInv
<1>2. CASE Wake
  <2>1. rep = "sleep" /\ rep' = "count" /\ stopping' = stop /\ UNCHANGED <<recent, folded, life, files>>
    BY <1>2 DEF Wake
  <2>2. TypeOK'
    BY <1>t, <1>r, <2>1 DEF TypeOK
  <2>3. CountInv' /\ FilesInv'
    BY <1>t, <1>s, <1>r, <2>1 DEF CountInv, NothingCountedTwice, FilesInv, Saved
  <2> QED
    BY <1>b, <2>2, <2>3 DEF IInv
<1>3. CASE CountRecent
  <2>1. /\ rep = "count" /\ rep' = "record" /\ recent' = hashes - folded /\ folded' = hashes
        /\ UNCHANGED <<stopping, life, files>>
    BY <1>3 DEF CountRecent
  <2>2. recent' \in 0..MaxBatches /\ folded' \in 0..MaxBatches
    BY <1>t, <2>1 DEF CountInv
  <2>3. TypeOK'
    BY <1>t, <1>r, <2>1, <2>2 DEF TypeOK
  <2>4. CountInv' /\ FilesInv'
    BY <1>t, <1>s, <1>r, <2>1 DEF CountInv, NothingCountedTwice, FilesInv, Saved
  <2> QED
    BY <1>b, <2>3, <2>4 DEF IInv
<1>4. CASE Record
  <2>1. /\ rep = "record" /\ rep' \in {"write", "sleep"}
        /\ life' = [total |-> life.total + recent, best |-> IF best > life.best THEN best ELSE life.best]
        /\ UNCHANGED <<stopping, recent, folded, files>>
    BY <1>4 DEF Record
  <2>2. /\ life'.total = life.total + recent /\ life'.total >= life.total
        /\ life'.best >= life.best /\ life'.best \in Hash /\ life'.best \in Nat /\ life'.total \in Nat
    <3>1. life'.total = life.total + recent
      BY <2>1
    <3>2. life'.best = IF best > life.best THEN best ELSE life.best
      BY <2>1
    <3>3. best \in Nat /\ life.best \in Nat
      BY <1>t, <1>s DEF Hash
    <3> QED
      BY <1>t, <1>s, <3>1, <3>2, <3>3
  <2>3. life'.total \in 0..MaxBatches /\ life'.total <= searched
    BY <1>t, <1>s, <2>1, <2>2 DEF CountInv, NothingCountedTwice
  <2>4. life' \in Totals
    BY <2>1, <2>2, <2>3 DEF Totals
  <2>5. TypeOK'
    BY <1>t, <1>r, <2>1, <2>4 DEF TypeOK
  <2>6. CountInv'
    BY <1>t, <1>s, <1>r, <2>1, <2>2, <2>3 DEF CountInv, NothingCountedTwice, Saved
  <2>7. FilesInv'
    <3>1. life.total >= Saved.total /\ life.best >= Saved.best /\ Saved' = Saved
      BY <1>t, <2>1 DEF FilesInv, Saved
    <3>2. life'.total >= Saved.total /\ life'.best >= Saved.best
      BY <1>s, <2>2, <3>1
    <3> QED
      BY <1>t, <2>1, <3>1, <3>2 DEF FilesInv
  <2> QED
    BY <1>b, <2>5, <2>6, <2>7 DEF IInv
<1>5. CASE WriteTemporary
  <2>1. /\ rep = "write" /\ UNCHANGED <<stopping, recent, folded, life, disk>>
        /\ (temp' = Partial /\ rep' = "write") \/ (temp' = Whole(life) /\ rep' = "rename")
    BY <1>5 DEF WriteTemporary
  <2>2. TypeOK'
    BY <1>t, <1>s, <1>r, <2>1, Contents DEF TypeOK
  <2>3. CountInv' /\ FilesInv'
    BY <1>t, <1>s, <1>r, <2>1 DEF CountInv, NothingCountedTwice, FilesInv, Saved, Whole
  <2> QED
    BY <1>b, <2>2, <2>3 DEF IInv
<1>6. CASE Rename
  <2>1. /\ rep = "rename" /\ disk' = Whole(life) /\ temp' = Missing /\ rep' \in {"done", "sleep"}
        /\ UNCHANGED <<stopping, recent, folded, life>>
    BY <1>t, <1>6 DEF Rename, AfterSave, FilesInv
  <2>2. TypeOK'
    BY <1>t, <1>s, <1>r, <2>1, Contents DEF TypeOK
  <2>3. Saved' = life /\ disk'.state = "whole"
    BY <1>s, <2>1, Contents DEF Saved
  <2>4. CountInv'
    BY <1>t, <1>s, <1>r, <2>1, <2>3 DEF CountInv, NothingCountedTwice
  <2>5. FilesInv'
    <3>1. life'.total >= Saved'.total /\ life'.best >= Saved'.best
      BY <1>s, <2>1, <2>3
    <3> QED
      BY <2>1, <2>3, <3>1 DEF FilesInv
  <2> QED
    BY <1>b, <2>2, <2>4, <2>5 DEF IInv
<1>7. CASE SaveFails
  <2>1. rep \in {"write", "rename"} /\ rep' \in {"done", "sleep"} /\ UNCHANGED <<stopping, recent, folded, life, files>>
    BY <1>7 DEF SaveFails, AfterSave
  <2>2. TypeOK'
    BY <1>t, <1>r, <2>1 DEF TypeOK
  <2>3. CountInv' /\ FilesInv'
    BY <1>t, <1>s, <1>r, <2>1 DEF CountInv, NothingCountedTwice, FilesInv, Saved
  <2> QED
    BY <1>b, <2>2, <2>3 DEF IInv
<1> QED
  BY <1>1, <1>2, <1>3, <1>4, <1>5, <1>6, <1>7 DEF Reporter

-----------------------------------------------------------------------------
(* The theorems.                                                           *)

\* The counts of the threads, of the reporter and of the file agree, through
\* crashes, restarts and failed saves.
THEOREM Invariant == Spec => []IInv
<1>1. Init => IInv
  <2> SUFFICES ASSUME Init PROVE IInv
    OBVIOUS
  <2>1. TypeOK
    <3>1. /\ disk \in File /\ temp \in File /\ life \in Totals /\ bestBits \in Hash /\ best \in Hash
          /\ found \in [Worker -> Hash]
      BY Contents DEF Init
    <3>2. /\ pc \in [Worker -> {"top", "batch", "compare", "lock", "store", "done"}]
          /\ hashes \in 0..MaxBatches /\ recent \in 0..MaxBatches /\ folded \in 0..MaxBatches
          /\ searched \in 0..MaxBatches /\ sessions \in 0..MaxSessions
      BY DEF Init
    <3> QED
      BY <3>1, <3>2 DEF Init, TypeOK
  <2>2. BegunInv
    <3>1. Searching = {}
      BY DEF Init, Searching
    <3> QED
      BY <3>1, FS_EmptySet DEF Init, BegunInv
  <2>3. CountInv /\ FilesInv
    BY DEF Init, CountInv, NothingCountedTwice, FilesInv, Saved, Missing, Fresh
  <2>4. BestInv
    BY DEF Init, BestInv, BestIsNotLost
  <2> QED
    BY <2>1, <2>2, <2>3, <2>4 DEF IInv
<1>2. IInv /\ [Next]_vars => IInv'
  <2> SUFFICES ASSUME IInv, [Next]_vars PROVE IInv'
    OBVIOUS
  <2>1. CASE UNCHANGED vars
    BY <2>1 DEF vars, IInv, TypeOK, BegunInv, Searching, CountInv, NothingCountedTwice, FilesInv, Saved,
       BestInv, BestIsNotLost
  <2> QED
    BY <2>1, ProcessStep, ReporterStep, ThreadStep DEF Next
<1> QED
  BY <1>1, <1>2, PTL DEF Spec

\* Every count stays within what was searched, on disk and in memory.
THEOREM TypeCorrect == Spec => []TypeOK
<1>1. IInv => TypeOK
  BY DEF IInv
<1> QED
  BY <1>1, Invariant, PTL

\* report() folds each hash into the totals once, whenever it is woken, and a
\* restarted miner goes on from what the last rename left.
THEOREM HashesCountOnce == Spec => []NothingCountedTwice
<1>1. IInv => NothingCountedTwice
  BY DEF IInv, CountInv
<1> QED
  BY <1>1, Invariant, PTL

\* The comparison of Stats::record outside its mutex loses no best hash.
THEOREM TheBestIsKept == Spec => []BestIsNotLost
<1>1. IInv => BestIsNotLost
  BY DEF IInv, BestInv
<1> QED
  BY <1>1, Invariant, PTL

\* Lifetime::save replaces the totals by no smaller ones, at once or not at all.
THEOREM TotalsOnlyGrow == Spec => SavedTotalsNeverShrink
<1>1. IInv /\ [Next]_vars =>
        [/\ disk.state # "missing" => disk'.state = "whole"
         /\ Saved'.total >= Saved.total /\ Saved'.best >= Saved.best]_vars
  <2> SUFFICES ASSUME IInv, Next
               PROVE  /\ disk.state # "missing" => disk'.state = "whole"
                      /\ Saved'.total >= Saved.total /\ Saved'.best >= Saved.best
    OBVIOUS
  <2>1. disk.totals \in Totals
    BY DEF IInv, TypeOK, File
  <2>2. Saved.total \in Nat /\ Saved.best \in Nat
    BY <2>1 DEF Saved, Totals, Hash
  <2>3. CASE Rename
    <3>1. disk' = Whole(life) /\ life.total >= Saved.total /\ life.best >= Saved.best
      BY <2>3 DEF IInv, FilesInv, Rename
    <3> QED
      BY <3>1 DEF Whole, Saved
  <2>4. CASE UNCHANGED disk
    BY <2>2, <2>4 DEF IInv, FilesInv, Saved
  <2>5. UNCHANGED disk \/ Rename
    BY DEF Next, Process, Start, Stop, WindDown, Exit, Crash, Reporter, Load, Wake, CountRecent, Record,
       WriteTemporary, SaveFails, Thread, Top, Search, Compare, Improve, StoreBits
  <2> QED
    BY <2>3, <2>4, <2>5
<1> QED
  BY <1>1, Invariant, PTL DEF Spec, SavedTotalsNeverShrink

-----------------------------------------------------------------------------
(* What a stop loses. Every session may lose a batch of every thread; the   *)
(* proof follows the batches from the thread that searches them to the file. *)

Losses(s) == s * Cardinality(Worker)

\* A process that is down has nothing in memory; a reporter that has ended has
\* seen the stop.
Resting ==
  /\ run = "down" => hashes = 0 /\ rep = "done" /\ ~stopping /\ \A w \in Worker : pc[w] = "done"
  /\ run # "down" => sessions >= 1
  /\ stopping => stop
  /\ run # "down" /\ rep = "done" => stopping

\* After the last turn has counted, a thread has at most the batch it was in to
\* add: the stop is set, and no thread begins another.
LateInv ==
  stopping /\ rep \in {"record", "write", "rename", "done"} =>
    hashes + Cardinality(Searching) <= folded + Cardinality(Worker)

\* What was searched is in the file, in the reporter's hands, still to be folded
\* in, or among the losses of the sessions before this one.
Pending == IF rep = "record" THEN recent ELSE 0

CarriedDown    == searched <= Saved.total + Losses(sessions)
CarriedLoading == searched <= Saved.total + hashes + Losses(sessions - 1)
CarriedRunning ==
  /\ searched + folded <= life.total + Pending + hashes + Losses(sessions - 1)
  /\ rep = "done" => life.total <= Saved.total

CarriedInv ==
  /\ run = "down" => CarriedDown
  /\ run # "down" /\ rep = "load" => CarriedLoading
  /\ run # "down" /\ rep # "load" => CarriedRunning

LossInv == Resting /\ LateInv /\ (intact => CarriedInv)

LEMMA SearchersAreWorkers ==
  /\ Cardinality(Worker) \in Nat /\ Cardinality(Searching) \in Nat
  /\ Cardinality(Searching) <= Cardinality(Worker)
BY FS_Subset, FS_CardinalityType DEF Searching

LEMMA LossesAdd ==
  /\ \A s \in Nat : Losses(s) \in Nat /\ Losses(s + 1) = Losses(s) + Cardinality(Worker)
  /\ \A s \in Nat \ {0} : Losses(s - 1) \in Nat /\ Losses(s) = Losses(s - 1) + Cardinality(Worker)
<1> DEFINE n == Cardinality(Worker)
<1>1. n \in Nat
  BY SearchersAreWorkers
<1> HIDE DEF n
<1>2. \A s \in Nat : s * n \in Nat /\ (s + 1) * n = s * n + n
  BY <1>1
<1>3. \A s \in Nat \ {0} : s - 1 \in Nat /\ (s - 1) + 1 = s
  OBVIOUS
<1>4. \A s \in Nat : Losses(s) = s * n
  BY DEF Losses, n
<1>5. \A s \in Nat : Losses(s) \in Nat /\ Losses(s + 1) = Losses(s) + n
  BY <1>2, <1>4
<1>6. \A s \in Nat \ {0} : Losses(s - 1) \in Nat /\ Losses(s) = Losses(s - 1) + n
  BY <1>3, <1>5
<1> QED
  BY <1>5, <1>6 DEF n

\* The numbers the loss is made of.
LEMMA LossNumbers ==
  ASSUME IInv
  PROVE  /\ searched \in Nat /\ hashes \in Nat /\ folded \in Nat /\ recent \in Nat /\ sessions \in Nat
         /\ life.total \in Nat /\ Saved.total \in Nat
         /\ folded <= hashes /\ (rep = "load" => folded = 0)
<1>1. disk.totals \in Totals /\ life \in Totals
  BY DEF IInv, TypeOK, File
<1>2. life.total \in Nat /\ Saved.total \in Nat
  BY <1>1 DEF Totals, Saved
<1> QED
  BY <1>2 DEF IInv, TypeOK, CountInv

LEMMA ProcessLoses == IInv /\ LossInv /\ Process => LossInv'
<1> SUFFICES ASSUME IInv, LossInv, Process PROVE LossInv'
  OBVIOUS
<1>t. TypeOK
  BY DEF IInv
<1>1. CASE Start
  <2>1. /\ run = "down" /\ run' = "up" /\ sessions' = sessions + 1 /\ Blank("top", "load")
        /\ UNCHANGED <<files, searched, intact>>
    BY <1>1 DEF Start
  <2>2. rep' = "load" /\ hashes' = 0 /\ ~stopping' /\ Saved' = Saved
    BY <2>1 DEF Blank, Saved
  <2>3. Resting' /\ LateInv'
    BY <2>1, <2>2, LossNumbers DEF Resting, LateInv
  <2>4. intact => CarriedDown
    BY <2>1 DEF LossInv, CarriedInv
  <2>5. (sessions + 1) - 1 = sessions
    BY LossNumbers
  <2>6. intact' => CarriedInv'
    BY <2>1, <2>2, <2>4, <2>5, LossNumbers, LossesAdd DEF CarriedInv, CarriedDown, CarriedLoading
  <2> QED
    BY <2>3, <2>6 DEF LossInv
<1>2. CASE Exit \/ Crash
  <2>1. run # "down" /\ run' = "down" /\ Blank("done", "done") /\ UNCHANGED <<files, sessions, searched>>
    BY <1>2 DEF Exit, Crash
  <2>2. rep' = "done" /\ hashes' = 0 /\ ~stopping' /\ (\A w \in Worker : pc'[w] = "done") /\ Saved' = Saved
    BY <2>1 DEF Blank, Saved
  <2>3. Resting' /\ LateInv'
    BY <2>1, <2>2 DEF Resting, LateInv
  <2>4. intact' => CarriedInv'
    <3>1. CASE Crash
      BY <3>1 DEF Crash
    <3>2. CASE Exit
      <4> SUFFICES ASSUME intact PROVE CarriedDown'
        BY <2>1, <3>2 DEF Exit, CarriedInv
      <4>1. rep = "done" /\ stopping /\ sessions \in Nat \ {0}
        BY <2>1, <3>2, LossNumbers DEF Exit, LossInv, Resting
      <4>2. /\ searched + folded <= life.total + hashes + Losses(sessions - 1) /\ life.total <= Saved.total
            /\ hashes + Cardinality(Searching) <= folded + Cardinality(Worker)
        BY <2>1, <4>1, LossNumbers, LossesAdd DEF LossInv, LateInv, CarriedInv, CarriedRunning, Pending
      <4>3. searched <= Saved.total + Losses(sessions - 1) + Cardinality(Worker)
        BY <4>1, <4>2, LossNumbers, LossesAdd, SearchersAreWorkers
      <4>4. searched <= Saved.total + Losses(sessions)
        BY <4>1, <4>3, LossesAdd, LossNumbers, SearchersAreWorkers
      <4> QED
        BY <2>1, <2>2, <4>4 DEF CarriedDown
    <3> QED
      BY <1>2, <3>1, <3>2
  <2> QED
    BY <2>3, <2>4 DEF LossInv
<1>3. CASE Stop \/ WindDown
  <2>1. /\ UNCHANGED <<stats, threads, reporter, files, sessions, history>>
        /\ run # "down" /\ run' # "down" /\ (stop => stop')
    BY <1>3 DEF Stop, WindDown
  <2>2. Resting' /\ LateInv'
    BY <2>1 DEF LossInv, Resting, LateInv, Searching
  <2>3. intact' => CarriedInv'
    BY <2>1 DEF LossInv, CarriedInv, CarriedLoading, CarriedRunning, Pending, Saved
  <2> QED
    BY <2>2, <2>3 DEF LossInv
<1> QED
  BY <1>1, <1>2, <1>3 DEF Process

LEMMA ThreadLoses == ASSUME IInv, LossInv, NEW w \in Worker, Thread(w) PROVE LossInv'
<1>t. TypeOK
  BY DEF IInv
<1>1. run # "down" /\ UNCHANGED <<process, reporter, files, sessions, intact>>
  <2>1. pc[w] # "done" /\ UNCHANGED <<process, reporter, files, sessions, intact>>
    BY DEF Thread, Top, Search, Compare, Improve, StoreBits
  <2> QED
    BY <2>1 DEF LossInv, Resting
<1>2. Resting'
  BY <1>1 DEF LossInv, Resting
<1>3. CASE Search(w)
  <2>1. searched' = searched + 1 /\ hashes' = hashes + 1 /\ pc[w] = "batch" /\ pc' = [pc EXCEPT ![w] = "compare"]
    BY <1>3 DEF Search
  <2>2. Cardinality(Searching') = Cardinality(Searching) - 1
    BY <1>t, <2>1, OneLess
  <2>3. LateInv'
    BY <1>1, <2>1, <2>2, LossNumbers, SearchersAreWorkers DEF LossInv, LateInv
  <2>4. ASSUME intact PROVE CarriedInv'
    <3>1. CarriedInv /\ sessions \in Nat \ {0} /\ Losses(sessions - 1) \in Nat
      BY <1>1, <2>4, LossNumbers, LossesAdd DEF LossInv, Resting
    <3>2. UNCHANGED <<run, rep, Pending, sessions, Saved, life, folded>>
      BY <1>1 DEF Pending, Saved
    <3>3. Pending \in Nat
      BY LossNumbers DEF Pending
    <3>4. Losses(sessions - 1)' = Losses(sessions - 1)
      BY <3>2 DEF Losses
    <3>5. rep = "load" => CarriedLoading'
      BY <1>1, <2>1, <3>1, <3>2, <3>4, LossNumbers DEF CarriedInv, CarriedLoading
    <3>6. rep # "load" => CarriedRunning'
      BY <1>1, <2>1, <3>1, <3>2, <3>3, <3>4, LossNumbers DEF CarriedInv, CarriedRunning
    <3> QED
      BY <1>1, <3>2, <3>5, <3>6 DEF CarriedInv
  <2> QED
    BY <1>1, <1>2, <2>3, <2>4 DEF LossInv
<1>4. CASE ~Search(w)
  <2>1. UNCHANGED <<searched, hashes>>
    BY <1>4 DEF Thread, Top, Compare, Improve, StoreBits
  <2>2. stop => Searching' = Searching
    <3>1. stop => pc[w] # "batch" /\ \E p \in {"top", "lock", "store", "done"} : pc' = [pc EXCEPT ![w] = p]
      BY <1>4 DEF Thread, Top, Compare, Improve, StoreBits
    <3> QED
      BY <1>t, <3>1, NoneElse
  <2>3. LateInv'
    BY <1>1, <2>1, <2>2 DEF LossInv, Resting, LateInv
  <2>4. intact => CarriedInv'
    BY <1>1, <2>1 DEF LossInv, CarriedInv, CarriedLoading, CarriedRunning, Pending, Saved, Losses
  <2> QED
    BY <1>1, <1>2, <2>3, <2>4 DEF LossInv
<1> QED
  BY <1>3, <1>4

LEMMA ReporterLoses == IInv /\ LossInv /\ Reporter => LossInv'
<1> SUFFICES ASSUME IInv, LossInv, Reporter PROVE LossInv'
  OBVIOUS
<1>1. UNCHANGED <<process, stats, threads, sessions, searched>> /\ rep # "done"
  BY DEF Reporter, Load, Wake, CountRecent, Record, WriteTemporary, Rename, SaveFails
<1>2. run # "down" /\ sessions \in Nat \ {0} /\ Losses(sessions - 1) \in Nat
  BY <1>1, LossNumbers, LossesAdd DEF LossInv, Resting
<1>3. UNCHANGED <<Searching, Losses(sessions - 1)>>
  BY <1>1 DEF Searching, Losses
<1>4. LateInv /\ Resting /\ (intact => CarriedInv)
  BY DEF LossInv
<1>5. CASE Load
  <2>1. rep = "load" /\ rep' = "sleep" /\ life' = disk.totals /\ UNCHANGED <<stopping, recent, folded, files, intact>>
    BY <1>5 DEF Load
  <2>2. intact' => CarriedInv'
    BY <1>1, <1>2, <1>3, <1>4, <2>1, LossNumbers DEF CarriedInv, CarriedLoading, CarriedRunning, Pending, Saved
  <2> QED
    BY <1>1, <1>2, <1>4, <2>1, <2>2 DEF LossInv, Resting, LateInv
<1>6. CASE Wake
  <2>1. rep = "sleep" /\ rep' = "count" /\ stopping' = stop /\ UNCHANGED <<recent, folded, life, files, intact>>
    BY <1>6 DEF Wake
  <2>2. intact' => CarriedInv'
    BY <1>1, <1>2, <1>3, <1>4, <2>1 DEF CarriedInv, CarriedRunning, Pending
  <2> QED
    BY <1>1, <1>2, <1>4, <2>1, <2>2 DEF LossInv, Resting, LateInv
<1>7. CASE CountRecent
  <2>1. /\ rep = "count" /\ rep' = "record" /\ recent' = hashes - folded /\ folded' = hashes
        /\ UNCHANGED <<stopping, life, files, intact>>
    BY <1>7 DEF CountRecent
  <2>2. intact' => CarriedInv'
    BY <1>1, <1>2, <1>3, <1>4, <2>1, LossNumbers DEF CarriedInv, CarriedRunning, Pending
  <2>3. LateInv'
    BY <1>1, <1>3, <2>1, LossNumbers, SearchersAreWorkers DEF LateInv
  <2> QED
    BY <1>1, <1>2, <1>4, <2>1, <2>2, <2>3 DEF LossInv, Resting
<1>8. CASE Record
  <2>1. /\ rep = "record" /\ rep' \in {"write", "sleep"} /\ (rep' = "sleep" => ~stopping)
        /\ life' = [total |-> life.total + recent, best |-> IF best > life.best THEN best ELSE life.best]
        /\ UNCHANGED <<stopping, recent, folded, files, intact>>
    BY <1>8 DEF Record
  <2>2. life'.total = life.total + recent
    BY <2>1
  <2>3. intact' => CarriedInv'
    BY <1>1, <1>2, <1>3, <1>4, <2>1, <2>2, LossNumbers DEF CarriedInv, CarriedRunning, Pending
  <2> QED
    BY <1>1, <1>2, <1>3, <1>4, <2>1, <2>3 DEF LossInv, Resting, LateInv
<1>9. CASE WriteTemporary
  <2>1. rep = "write" /\ rep' \in {"write", "rename"} /\ UNCHANGED <<stopping, recent, folded, life, disk, intact>>
    BY <1>9 DEF WriteTemporary
  <2>2. intact' => CarriedInv'
    BY <1>1, <1>2, <1>3, <1>4, <2>1 DEF CarriedInv, CarriedRunning, Pending
  <2> QED
    BY <1>1, <1>2, <1>3, <1>4, <2>1, <2>2 DEF LossInv, Resting, LateInv
<1>10. CASE Rename
  <2>1. /\ rep = "rename" /\ disk' = Whole(life) /\ rep' = (IF stopping THEN "done" ELSE "sleep")
        /\ UNCHANGED <<stopping, recent, folded, life, intact>>
    BY <1>10 DEF Rename, AfterSave, IInv, FilesInv
  <2>2. Saved'.total = life.total
    BY <2>1 DEF Saved, Whole
  <2>3. intact' => CarriedInv'
    BY <1>1, <1>2, <1>3, <1>4, <2>1, <2>2, LossNumbers DEF CarriedInv, CarriedRunning, Pending
  <2> QED
    BY <1>1, <1>2, <1>3, <1>4, <2>1, <2>3 DEF LossInv, Resting, LateInv
<1>11. CASE SaveFails
  <2>1. /\ rep \in {"write", "rename"} /\ rep' = (IF stopping THEN "done" ELSE "sleep") /\ ~intact'
        /\ UNCHANGED <<stopping, recent, folded, life, files>>
    BY <1>11 DEF SaveFails, AfterSave
  <2> QED
    BY <1>1, <1>2, <1>3, <1>4, <2>1 DEF LossInv, Resting, LateInv
<1> QED
  BY <1>5, <1>6, <1>7, <1>8, <1>9, <1>10, <1>11 DEF Reporter

\* "Saves once more on the way out" (lib.rs:187): however many threads search
\* and however often the miner is started, a stop loses no interval's work, only
\* the batch each thread was in when the reporter counted for the last time.
THEOREM StopsLoseLittle == Spec => []StoppingLosesAtMostABatch
<1>1. Init => LossInv
  <2> SUFFICES ASSUME Init PROVE LossInv
    OBVIOUS
  <2>1. searched = 0 /\ Saved.total = 0 /\ Losses(0) \in Nat /\ sessions = 0
    BY LossesAdd DEF Init, Saved, Missing, Fresh
  <2>2. Resting /\ LateInv
    BY DEF Init, Resting, LateInv
  <2>3. CarriedInv
    BY <2>1 DEF Init, CarriedInv, CarriedDown
  <2> QED
    BY <2>2, <2>3 DEF LossInv
<1>2. IInv /\ LossInv /\ [Next]_vars => LossInv'
  <2> SUFFICES ASSUME IInv, LossInv, [Next]_vars PROVE LossInv'
    OBVIOUS
  <2>1. CASE UNCHANGED vars
    BY <2>1 DEF vars, LossInv, Resting, LateInv, Searching, CarriedInv, CarriedDown, CarriedLoading,
       CarriedRunning, Pending, Saved, Losses
  <2> QED
    BY <2>1, ProcessLoses, ThreadLoses, ReporterLoses DEF Next
<1>3. LossInv => StoppingLosesAtMostABatch
  BY DEF LossInv, CarriedInv, CarriedDown, Losses, StoppingLosesAtMostABatch
<1> QED
  BY <1>1, <1>2, <1>3, Invariant, PTL DEF Spec
=============================================================================
