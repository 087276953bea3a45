-------------------------- MODULE SupervisorProofs --------------------------
(***************************************************************************)
(* A run of `start`, for every chain and any number of pauses: however its *)
(* threads are interleaved, an end is explained, a failure is told, and    *)
(* the dashboard shows what is.                                            *)
(***************************************************************************)
EXTENDS Supervisor, SequenceTheorems, TLAPS

-----------------------------------------------------------------------------
(* The inductive invariant.                                                *)

Plain    == {"PoolStarted", "PoolReady", "Waiting", "Paused", "Resumed", "Fatal", "PoolClosed"}
Numbered == {"NewJob", "BlockFound"}
Event    == {<<kind>> : kind \in Plain} \cup (Numbered \X Nat)

ScreenFields == {"pool", "job", "lastFound", "line"}

MainType ==
  main \in [at : {"drain", "look", "leave", "join", "done"}, live : BOOLEAN, asked : BOOLEAN,
            shown : {"ok", "cannot draw"},
            result : {"none", "ok", "", "cannot draw", "pool failed", "miner failed"}]

ScreenType == screen = [f \in ScreenFields |-> screen[f]]

BossType ==
  boss \in [at : {"await", "watch", "join miner", "join pool", "done"},
            result : {"none", "ok", "", "pool failed", "miner failed"}]

PoolType ==
  pool \in [at : {"start", "waiting", "binding", "serving", "joining", "done"},
            result : {"none", "ok", "reported", "pool failed"}, announced : BOOLEAN]

PollerType ==
  poller \in [at : {"off", "top", "round", "ended"}, result : {"none", "ok", "reported", "pool failed"},
              last : Nat, paused : BOOLEAN, pauses : Nat]

MinerType ==
  miner \in [at : {"off", "connect", "run", "wind down", "done"}, result : {"ok", "miner failed"}]

FlagsType == flags \in [stopPool : BOOLEAN, stopMiner : BOOLEAN, ready : BOOLEAN]
ChainType == tip \in Nat \ {0} /\ telling \subseteq Nat
SaidType  == queue \in Seq(Event) /\ explained \in BOOLEAN

TypeInv ==
  /\ MainType /\ ScreenType /\ BossType /\ PoolType /\ PollerType /\ MinerType
  /\ FlagsType /\ ChainType /\ SaidType

\* Who waits for whom. A result is there from the end of its thread on: the
\* pool's is its poller's if there was one, and the supervisor's is made of both.
PoolLife ==
  /\ pool.at \in {"start", "waiting", "binding"} <=> pool.at # "done" /\ poller.at = "off"
  /\ poller.at = "off" => ~poller.paused
  /\ poller.at = "ended" <=> poller.result # "none"
  /\ pool.at = "done" <=> pool.result # "none"
  /\ pool.at = "done" /\ poller.at # "off" => poller.at = "ended" /\ pool.result = poller.result

BossLife ==
  /\ boss.at = "await" => miner.at = "off"
  /\ miner.at # "done" => miner.result = "ok"
  /\ boss.at \in {"join pool", "done"} => miner.at \in {"off", "done"}
  /\ boss.at = "done" => pool.at = "done" /\ boss.result = Combined(pool.result, miner.result)
  /\ main.at \in {"drain", "look"} => main.shown = "ok"
  /\ main.at = "done" => boss.at = "done"
                         /\ main.result = IF main.shown # "ok" THEN main.shown ELSE boss.result

LifeInv == PoolLife /\ BossLife

\* Nothing ends, or is told to, without a reason somebody will hear of.
Reason ==
  \/ main.asked \/ explained \/ main.shown # "ok"
  \/ poller.result = "pool failed" \/ pool.result = "pool failed" \/ miner.result = "miner failed"

Ending ==
  \/ flags.stopPool \/ flags.stopMiner
  \/ main.at = "leave" \/ boss.at \notin {"await", "watch"}
  \/ pool.at = "done" \/ poller.at = "ended" \/ miner.at \in {"wind down", "done"}

ReasonInv ==
  /\ Ending => Reason
  /\ poller.result = "reported" \/ pool.result = "reported" => explained

\* The newest event that says whether there is a pause says it right; without
\* one, the screen does.
Telling == {"Waiting", "NewJob", "Paused", "Resumed"}

Tells(q, shown, paused) ==
  \/ \E i \in 1..Len(q) :
       /\ q[i][1] \in Telling /\ (q[i][1] = "Paused" <=> paused)
       /\ \A k \in i+1..Len(q) : q[k][1] \notin Telling
  \/ /\ \A i \in 1..Len(q) : q[i][1] \notin Telling
     /\ shown <=> paused

PauseInv == main.at \in {"drain", "look"} => Tells(queue, screen.pool = "paused", poller.paused)

\* Heights that are called ours are; that of a job is the tip's successor.
Credited(e, heights) ==
  /\ e[1] = "BlockFound" => e[2] \in heights
  /\ e[1] = "NewJob" => e[2] \in Nat /\ e[2] > 1

CreditInv ==
  /\ telling \subseteq ours
  /\ screen.lastFound = None \/ screen.lastFound \in ours
  /\ \A i \in 1..Len(queue) : Credited(queue[i], ours)
  /\ CreditIsEarned

IInv == TypeInv /\ LifeInv /\ ReasonInv /\ PauseInv /\ CreditInv

USE DEF None

-----------------------------------------------------------------------------
(* The channel.                                                            *)

LEMMA EventsTyped ==
  /\ \A kind \in Plain : <<kind>> \in Event /\ <<kind>>[1] = kind
  /\ \A kind \in Numbered, n \in Nat : <<kind, n>> \in Event /\ <<kind, n>>[1] = kind /\ <<kind, n>>[2] = n
BY DEF Event

\* What the dashboard has yet to read after an event: the same, or one more.
Open == main.at \in {"drain", "look"}

LEMMA EmitOne ==
  ASSUME TypeInv, NEW e \in Event, Emit(<<e>>)
  PROVE  /\ queue' = IF Open THEN Append(queue, e) ELSE queue
         /\ queue' \in Seq(Event)
         /\ explained' = (explained \/ e[1] \in {"Fatal", "PoolClosed"})
         /\ flags' = [flags EXCEPT !.ready = @ \/ e[1] = "PoolReady"]
<1> DEFINE kinds == {<<e>>[i][1] : i \in 1..Len(<<e>>)}
<1>1. kinds = {e[1]}
  OBVIOUS
<1>2. /\ explained' = (explained \/ kinds \cap {"Fatal", "PoolClosed"} # {})
      /\ flags' = [flags EXCEPT !.ready = @ \/ "PoolReady" \in kinds]
      /\ Send(<<e>>)
  BY DEF Emit
<1> HIDE DEF kinds
<1>3. queue \in Seq(Event)
  BY DEF TypeInv, SaidType
<1>4. queue \o <<e>> = Append(queue, e)
  BY <1>3
<1>5. queue' = IF Open THEN Append(queue, e) ELSE queue
  BY <1>2, <1>4 DEF Send, Open
<1>6. queue' \in Seq(Event)
  BY <1>3, <1>5
<1>7. (kinds \cap {"Fatal", "PoolClosed"} # {}) <=> e[1] \in {"Fatal", "PoolClosed"}
  BY <1>1
<1>8. explained' = (explained \/ e[1] \in {"Fatal", "PoolClosed"})
  BY <1>2, <1>7
<1>9. flags' = [flags EXCEPT !.ready = @ \/ e[1] = "PoolReady"]
  <2>1. ("PoolReady" \in kinds) = (e[1] = "PoolReady")
    BY <1>1
  <2> QED
    BY <1>2, <2>1
<1> QED
  BY <1>5, <1>6, <1>8, <1>9

LEMMA EmitTwo ==
  ASSUME TypeInv, NEW e \in Event, NEW f \in Event, Emit(<<e, f>>),
         {e[1], f[1]} \cap {"Fatal", "PoolClosed"} = {}
  PROVE  /\ queue' = IF Open THEN Append(Append(queue, e), f) ELSE queue
         /\ queue' \in Seq(Event)
         /\ explained' = explained
         /\ flags' = [flags EXCEPT !.ready = flags'.ready] /\ flags'.ready \in BOOLEAN
<1> DEFINE kinds == {<<e, f>>[i][1] : i \in 1..Len(<<e, f>>)}
<1>1. kinds = {e[1], f[1]}
  OBVIOUS
<1>2. /\ explained' = (explained \/ kinds \cap {"Fatal", "PoolClosed"} # {})
      /\ flags' = [flags EXCEPT !.ready = @ \/ "PoolReady" \in kinds]
      /\ Send(<<e, f>>)
  BY DEF Emit
<1> HIDE DEF kinds
<1>3. queue \in Seq(Event) /\ explained \in BOOLEAN
      /\ flags \in [stopPool : BOOLEAN, stopMiner : BOOLEAN, ready : BOOLEAN]
  BY DEF TypeInv, SaidType, FlagsType
<1>4. queue \o <<e, f>> = Append(Append(queue, e), f)
  BY <1>3
<1>5. queue' = IF Open THEN Append(Append(queue, e), f) ELSE queue
  BY <1>2, <1>4 DEF Send, Open
<1>6. Append(queue, e) \in Seq(Event) /\ Append(Append(queue, e), f) \in Seq(Event)
  BY <1>3
<1>7. explained' = explained
  BY <1>1, <1>2, <1>3
<1>8. flags' = [flags EXCEPT !.ready = flags'.ready] /\ flags'.ready \in BOOLEAN
  BY <1>2, <1>3
<1> QED
  BY <1>3, <1>5, <1>6, <1>7, <1>8

\* The new job, and readiness with the first.
LEMMA NewJobEvents ==
  ASSUME TypeInv, PollerBuilds
  PROVE  \/ Emit(<< <<"NewJob", tip + 1>> >>)
         \/ Emit(<< <<"NewJob", tip + 1>>, <<"PoolReady">> >>)
<1> DEFINE e == <<"NewJob", tip + 1>>
           f == <<"PoolReady">>
<1>1. Emit(<<e>> \o IF poller.last = None THEN <<f>> ELSE <<>>)
  BY DEF PollerBuilds
<1>0. e \in Event
  <2>1. tip + 1 \in Nat
    <3>1. tip \in Nat \ {0}
      BY DEF TypeInv, ChainType
    <3> QED
      BY <3>1
  <2>2. <<"NewJob", tip + 1>> \in Numbered \X Nat
    BY <2>1 DEF Numbered
  <2> QED
    BY <2>2 DEF Event
<1>a. f \in Event
  BY EventsTyped DEF Plain
<1> HIDE DEF e, f
<1>b. <<e>> \in Seq(Event) /\ <<f>> \in Seq(Event) /\ <<e, f>> \in Seq(Event)
  BY <1>0, <1>a
<1>2. <<e>> \o <<f>> = <<e, f>>
  <2>1. <<e>> \o <<f>> \in Seq(Event) /\ Len(<<e>> \o <<f>>) = 2
    BY <1>b
  <2>2. (<<e>> \o <<f>>)[1] = e /\ (<<e>> \o <<f>>)[2] = f
    BY <1>b
  <2>3. Len(<<e, f>>) = 2 /\ \A i \in 1..2 : (<<e>> \o <<f>>)[i] = <<e, f>>[i]
    BY <2>2
  <2> DEFINE s == <<e>> \o <<f>>
             t == <<e, f>>
  <2>4. s \in Seq(Event) /\ t \in Seq(Event) /\ Len(s) = Len(t) /\ \A i \in 1..Len(s) : s[i] = t[i]
    BY <1>b, <2>1, <2>3
  <2> HIDE DEF s, t
  <2>5. s = t
    BY <2>4, SeqEqual
  <2> QED
    BY <2>5 DEF s, t
<1>4. <<e>> \o <<>> = <<e>>
  BY <1>b, ConcatEmptySeq
<1>3. Emit(<<e>>) \/ Emit(<<e, f>>)
  BY <1>1, <1>2, <1>4
<1> QED
  BY <1>3 DEF e, f

-----------------------------------------------------------------------------
(* What each thread changes.                                               *)

USE DEF halves, chain, said, AtMain, Boss, Stops

\* Whoever emits, the stop flags stay, and so does the type of what was said.
Quiet == flags' = [flags EXCEPT !.ready = flags'.ready] /\ flags'.ready \in BOOLEAN

LEMMA EmitKeeps ==
  ASSUME TypeInv, NEW e \in Event, Emit(<<e>>)
  PROVE  SaidType' /\ Quiet
<1>1. FlagsType /\ SaidType
  BY DEF TypeInv
<1> QED
  BY <1>1, EmitOne DEF SaidType, FlagsType, Quiet

LEMMA PlainEvents ==
  /\ <<"Waiting">> \in Event /\ <<"PoolStarted">> \in Event /\ <<"Paused">> \in Event
  /\ <<"Resumed">> \in Event /\ <<"Fatal">> \in Event /\ <<"PoolClosed">> \in Event
  /\ <<"PoolReady">> \in Event
BY DEF Event, Plain

LEMMA NumberedEvents ==
  ASSUME NEW n \in Nat
  PROVE  <<"NewJob", n>> \in Event /\ <<"BlockFound", n>> \in Event
<1>1. <<"NewJob", n>> \in Numbered \X Nat /\ <<"BlockFound", n>> \in Numbered \X Nat
  BY DEF Numbered
<1> QED
  BY <1>1 DEF Event

LEMMA TwoEvents ==
  ASSUME TypeInv, Emit(<< <<"NewJob", tip + 1>>, <<"PoolReady">> >>)
  PROVE  /\ SaidType' /\ Quiet /\ explained' = explained
         /\ queue' = IF Open THEN Append(Append(queue, <<"NewJob", tip + 1>>), <<"PoolReady">>) ELSE queue
<1> DEFINE e == <<"NewJob", tip + 1>>
           f == <<"PoolReady">>
<1>1. tip + 1 \in Nat
  <2>1. tip \in Nat \ {0}
    BY DEF TypeInv, ChainType
  <2> QED
    BY <2>1
<1>2. e \in Event /\ f \in Event
  BY <1>1, NumberedEvents, PlainEvents
<1>3. {e[1], f[1]} \cap {"Fatal", "PoolClosed"} = {}
  OBVIOUS
<1> HIDE DEF e, f
<1>4. Emit(<<e, f>>)
  BY DEF e, f
<1>5. SaidType
  BY DEF TypeInv
<1>6. /\ queue' = IF Open THEN Append(Append(queue, e), f) ELSE queue
      /\ SaidType' /\ Quiet /\ explained' = explained
  BY <1>2, <1>3, <1>4, <1>5, EmitTwo DEF SaidType, Quiet
<1> QED
  BY <1>6 DEF e, f

LEMMA Footprints ==
  ASSUME Next
  PROVE  /\ Main \/ Signal \/ UNCHANGED main
         /\ Drain \/ UNCHANGED screen
         /\ Bossing \/ UNCHANGED boss
         /\ Pooling \/ UNCHANGED pool
         /\ PoolBinds \/ Polling \/ PollerPanics \/ UNCHANGED poller
         /\ AwaitReady \/ Mining \/ MinerDisconnected \/ UNCHANGED miner
<1>1. Main \/ Signal \/ UNCHANGED main
  BY DEF Next, Bossing, AwaitReady, WatchHalves, JoinMiner, JoinPool, Pooling, PoolFails, PoolConnects,
     PoolWaits, PoolBinds, PoolStopsServing, PoolJoins, Polling, PollerTop, PollerBuilds,
     PollerRechecks, PollerPanics, Mining, MinerConnects, MinerStops, MinerWindsDown,
     MinerDisconnected, BlockAccepted, OthersFind, TellBlock
<1>2. Drain \/ UNCHANGED screen
  BY DEF Next, Main, Drain, Carry, Close, Quit, WatcherEnds, Leave, Finish, Signal, Bossing, AwaitReady,
     WatchHalves, JoinMiner, JoinPool, Pooling, PoolFails, PoolConnects, PoolWaits, PoolBinds,
     PoolStopsServing, PoolJoins, Polling, PollerTop, PollerBuilds, PollerRechecks, PollerPanics,
     Mining, MinerConnects, MinerStops, MinerWindsDown, MinerDisconnected, BlockAccepted,
     OthersFind, TellBlock
<1>3. Bossing \/ UNCHANGED boss
  BY DEF Next, Main, Drain, Carry, Close, Quit, WatcherEnds, Leave, Finish, Signal, Pooling, PoolFails,
     PoolConnects, PoolWaits, PoolBinds, PoolStopsServing, PoolJoins, Polling, PollerTop,
     PollerBuilds, PollerRechecks, PollerPanics, Mining, MinerConnects, MinerStops, MinerWindsDown,
     MinerDisconnected, BlockAccepted, OthersFind, TellBlock
<1>4. Pooling \/ UNCHANGED pool
  BY DEF Next, Main, Drain, Carry, Close, Quit, WatcherEnds, Leave, Finish, Signal, Bossing, AwaitReady,
     WatchHalves, JoinMiner, JoinPool, Polling, PollerTop, PollerBuilds, PollerRechecks,
     PollerPanics, Mining, MinerConnects, MinerStops, MinerWindsDown, MinerDisconnected,
     BlockAccepted, OthersFind, TellBlock
<1>5. PoolBinds \/ Polling \/ PollerPanics \/ UNCHANGED poller
  BY DEF Next, Main, Drain, Carry, Close, Quit, WatcherEnds, Leave, Finish, Signal, Bossing, AwaitReady,
     WatchHalves, JoinMiner, JoinPool, Pooling, PoolFails, PoolConnects, PoolWaits, PoolBinds,
     PoolStopsServing, PoolJoins, Mining, MinerConnects, MinerStops, MinerWindsDown,
     MinerDisconnected, BlockAccepted, OthersFind, TellBlock
<1>6. AwaitReady \/ Mining \/ MinerDisconnected \/ UNCHANGED miner
  BY DEF Next, Main, Drain, Carry, Close, Quit, WatcherEnds, Leave, Finish, Signal, Bossing, AwaitReady,
     WatchHalves, JoinMiner, JoinPool, Pooling, PoolFails, PoolConnects, PoolWaits, PoolBinds,
     PoolStopsServing, PoolJoins, Polling, PollerTop, PollerBuilds, PollerRechecks, PollerPanics,
     BlockAccepted, OthersFind, TellBlock
<1> QED
  BY <1>1, <1>2, <1>3, <1>4, <1>5, <1>6

-----------------------------------------------------------------------------
(* Types.                                                                  *)

LEMMA MainTyped ==
  ASSUME TypeInv, Next
  PROVE  MainType'
<1>0. MainType /\ BossType
  BY DEF TypeInv
<1>1. CASE Drain \/ Carry \/ WatcherEnds \/ Leave \/ Signal
  BY <1>0, <1>1 DEF MainType, Drain, Carry, WatcherEnds, Leave, Signal
<1>2. CASE Close \/ Quit
  BY <1>0, <1>2 DEF MainType, Close, Quit
<1>3. CASE Finish
  <2>1. boss.result \in {"none", "ok", "", "pool failed", "miner failed"} /\ main.shown \in {"ok", "cannot draw"}
    BY <1>0 DEF MainType, BossType
  <2> QED
    BY <1>0, <1>3, <2>1 DEF MainType, Finish
<1>4. CASE UNCHANGED main
  BY <1>0, <1>4 DEF MainType
<1> QED
  BY <1>1, <1>2, <1>3, <1>4, Footprints DEF Main

\* What an event does to the screen.
LEMMA ScreenTyped ==
  ASSUME TypeInv, Next
  PROVE  ScreenType'
<1>1. ScreenType
  BY DEF TypeInv
<1>2. CASE Drain
  <2>1. UNCHANGED screen \/ screen' = Apply(screen, Head(queue))
    BY <1>2 DEF Drain
  <2>2. \A h : NewJob(screen, h) = [f \in ScreenFields |-> NewJob(screen, h)[f]]
    BY <1>1 DEF ScreenType, NewJob, ScreenFields
  <2>3. \A h : BlockFound(screen, h) = [f \in ScreenFields |-> BlockFound(screen, h)[f]]
    BY <1>1 DEF ScreenType, BlockFound, ScreenFields
  <2>4. \A p : [screen EXCEPT !.pool = p] = [f \in ScreenFields |-> [screen EXCEPT !.pool = p][f]]
    BY <1>1 DEF ScreenType, ScreenFields
  <2>5. \A e : Apply(screen, e) = [f \in ScreenFields |-> Apply(screen, e)[f]]
    BY <1>1, <2>2, <2>3, <2>4 DEF Apply, ScreenType
  <2> QED
    BY <1>1, <2>1, <2>5 DEF ScreenType
<1>3. CASE UNCHANGED screen
  BY <1>1, <1>3 DEF ScreenType
<1> QED
  BY <1>2, <1>3, Footprints

LEMMA BossTyped ==
  ASSUME TypeInv, Next
  PROVE  BossType'
<1>0. BossType /\ PoolType /\ MinerType
  BY DEF TypeInv
<1>1. CASE AwaitReady \/ WatchHalves \/ JoinMiner
  BY <1>0, <1>1 DEF BossType, AwaitReady, WatchHalves, JoinMiner
<1>2. CASE JoinPool
  <2>1. Combined(pool.result, miner.result) \in {"none", "ok", "", "pool failed", "miner failed"}
    BY <1>0 DEF PoolType, MinerType, Combined
  <2> QED
    BY <1>2, <2>1 DEF BossType, JoinPool
<1>3. CASE UNCHANGED boss
  BY <1>0, <1>3 DEF BossType
<1> QED
  BY <1>1, <1>2, <1>3, Footprints DEF Bossing

LEMMA PoolTyped ==
  ASSUME TypeInv, Next
  PROVE  PoolType'
<1>0. PoolType /\ poller.result \in {"none", "ok", "reported", "pool failed"}
  BY DEF TypeInv, PollerType
<1>1. CASE PoolFails \/ PoolConnects \/ PoolBinds
  BY <1>0, <1>1 DEF PoolType, PoolEnds, PoolFails, PoolConnects, PoolBinds
<1>2. CASE PoolStopsServing \/ PoolJoins
  BY <1>0, <1>2 DEF PoolType, PoolEnds, PoolStopsServing, PoolJoins
<1>3. CASE PoolWaits
  <2>1. \/ pool' = [pool EXCEPT !.at = "done", !.result = "ok"]
        \/ pool' = [pool EXCEPT !.at = "binding"]
        \/ pool' = [pool EXCEPT !.announced = TRUE]
    BY <1>3 DEF PoolWaits, PoolEnds
  <2> QED
    BY <1>0, <2>1 DEF PoolType
<1>4. CASE UNCHANGED pool
  BY <1>0, <1>4 DEF PoolType
<1> QED
  BY <1>1, <1>2, <1>3, <1>4, Footprints DEF Pooling

LEMMA PollerTyped ==
  ASSUME TypeInv, Next
  PROVE  PollerType'
<1>0. PollerType /\ tip \in Nat
  BY DEF TypeInv, ChainType
<1>1. CASE PoolBinds \/ PollerTop \/ PollerPanics \/ PollerBuilds
  <2>1. \/ \E at \in {"top", "round"} : poller' = [poller EXCEPT !.at = at]
        \/ \E result \in {"ok", "pool failed"} : poller' = [poller EXCEPT !.at = "ended", !.result = result]
        \/ poller' = [poller EXCEPT !.at = "top", !.last = tip]
    BY <1>1 DEF PoolBinds, PollerTop, PollerPanics, PollerBuilds, PollerEnds
  <2> QED
    BY <1>0, <2>1 DEF PollerType
<1>2. CASE PollerRechecks
  <2>1. \/ poller' = [poller EXCEPT !.at = "top"]
        \/ poller' = [poller EXCEPT !.at = "top", !.paused = TRUE, !.pauses = @ + 1]
        \/ poller' = [poller EXCEPT !.at = "top", !.paused = FALSE]
        \/ poller' = [poller EXCEPT !.at = "ended", !.result = "reported"]
    BY <1>2 DEF PollerRechecks, PollerEnds
  <2>2. CASE poller' = [poller EXCEPT !.at = "top", !.paused = TRUE, !.pauses = @ + 1]
    <3>0. poller.pauses \in Nat
      BY <1>0 DEF PollerType
    <3>1. poller.pauses + 1 \in Nat
      BY <3>0
    <3> QED
      BY <1>0, <2>2, <3>1 DEF PollerType
  <2>3. CASE poller' = [poller EXCEPT !.at = "ended", !.result = "reported"]
    BY <1>0, <2>3 DEF PollerType
  <2> QED
    BY <1>0, <2>1, <2>2, <2>3 DEF PollerType
<1>3. CASE UNCHANGED poller
  BY <1>0, <1>3 DEF PollerType
<1> QED
  BY <1>1, <1>2, <1>3, Footprints DEF Polling

LEMMA MinerTyped ==
  ASSUME TypeInv, Next
  PROVE  MinerType'
<1>0. MinerType
  BY DEF TypeInv
<1>1. CASE AwaitReady \/ Mining \/ MinerDisconnected
  <2>1. \/ UNCHANGED miner
        \/ \E at \in {"connect", "run", "wind down"} : miner' = [miner EXCEPT !.at = at]
        \/ \E result \in {"ok", "miner failed"} : miner' = [at |-> "done", result |-> result]
    BY <1>1 DEF AwaitReady, Mining, MinerConnects, MinerStops, MinerWindsDown, MinerDisconnected
  <2>2. ASSUME NEW at \in {"connect", "run", "wind down"}, miner' = [miner EXCEPT !.at = at]
        PROVE  MinerType'
    BY <1>0, <2>2 DEF MinerType
  <2>3. ASSUME NEW result \in {"ok", "miner failed"}, miner' = [at |-> "done", result |-> result]
        PROVE  MinerType'
    BY <2>3 DEF MinerType
  <2> QED
    BY <1>0, <2>1, <2>2, <2>3 DEF MinerType
<1>2. CASE UNCHANGED miner
  BY <1>0, <1>2 DEF MinerType
<1> QED
  BY <1>1, <1>2, Footprints

LEMMA ChainTyped ==
  ASSUME TypeInv, Next
  PROVE  ChainType'
<1>0. tip \in Nat \ {0} /\ telling \subseteq Nat /\ tip + 1 \in Nat \ {0}
  <2>1. tip \in Nat \ {0} /\ telling \subseteq Nat
    BY DEF TypeInv, ChainType
  <2> QED
    BY <2>1
<1>1. CASE BlockAccepted \/ OthersFind
  BY <1>0, <1>1 DEF BlockAccepted, OthersFind, ChainType
<1>2. CASE \E height \in telling : TellBlock(height)
  BY <1>0, <1>2 DEF TellBlock, ChainType
<1>3. CASE UNCHANGED chain
  BY <1>0, <1>3 DEF ChainType
<1>4. BlockAccepted \/ OthersFind \/ (\E height \in telling : TellBlock(height)) \/ UNCHANGED chain
  BY DEF Next, Main, Drain, Carry, Close, Quit, WatcherEnds, Leave, Finish, Signal, Bossing, AwaitReady,
     WatchHalves, JoinMiner, JoinPool, Pooling, PoolFails, PoolConnects, PoolWaits, PoolBinds,
     PoolStopsServing, PoolJoins, Polling, PollerTop, PollerBuilds, PollerRechecks, PollerPanics, Mining,
     MinerConnects, MinerStops, MinerWindsDown, MinerDisconnected
<1> QED
  BY <1>1, <1>2, <1>3, <1>4

\* What is emitted: whatever the thread, one event, or a job and readiness.
LEMMA Emitted ==
  ASSUME TypeInv, Next
  PROVE  \/ \E e \in Event :
              /\ Emit(<<e>>)
              /\ \/ e = <<"Waiting">> /\ PoolWaits
                 \/ e = <<"PoolStarted">> /\ PoolBinds
                 \/ e \in {<<"Paused">>, <<"Resumed">>, <<"Fatal">>} /\ PollerRechecks
                 \/ e = <<"PoolClosed">> /\ MinerDisconnected
                 \/ e = <<"NewJob", tip + 1>> /\ PollerBuilds
                 \/ \E height \in telling : e = <<"BlockFound", height>> /\ TellBlock(height)
         \/ PollerBuilds /\ Emit(<< <<"NewJob", tip + 1>>, <<"PoolReady">> >>)
         \/ Main /\ UNCHANGED explained
         \/ UNCHANGED said
<1>1. CASE PoolWaits
  BY <1>1, PlainEvents DEF PoolWaits
<1>2. CASE PoolBinds
  BY <1>2, PlainEvents DEF PoolBinds
<1>3. CASE PollerRechecks
  BY <1>3, PlainEvents DEF PollerRechecks
<1>4. CASE MinerDisconnected
  BY <1>4, PlainEvents DEF MinerDisconnected
<1>5. CASE PollerBuilds
  <2>1. tip + 1 \in Nat
    <3>1. tip \in Nat \ {0}
      BY DEF TypeInv, ChainType
    <3> QED
      BY <3>1
  <2> QED
    BY <1>5, <2>1, NewJobEvents, NumberedEvents
<1>6. ASSUME NEW height \in telling, TellBlock(height)
      PROVE  Emit(<< <<"BlockFound", height>> >>) /\ <<"BlockFound", height>> \in Event
  <2>1. height \in Nat
    BY DEF TypeInv, ChainType
  <2> QED
    BY <1>6, <2>1, NumberedEvents DEF TellBlock
<1>7. CASE Main
  BY <1>7 DEF Main, Drain, Carry, Close, Quit, WatcherEnds, Leave, Finish
<1>8. CASE Signal \/ Bossing \/ PollerTop \/ PollerPanics \/ Mining \/ BlockAccepted \/ OthersFind
           \/ PoolFails \/ PoolConnects \/ PoolStopsServing \/ PoolJoins
  BY <1>8 DEF Signal, Bossing, AwaitReady, WatchHalves, JoinMiner, JoinPool, PollerTop, PollerPanics,
     Mining, MinerConnects, MinerStops, MinerWindsDown, BlockAccepted, OthersFind,
     PoolFails, PoolConnects, PoolStopsServing, PoolJoins
<1> QED
  BY <1>1, <1>2, <1>3, <1>4, <1>5, <1>6, <1>7, <1>8 DEF Next, Pooling, Polling

LEMMA SaidTyped ==
  ASSUME TypeInv, Next
  PROVE  SaidType'
<1>0. SaidType
  BY DEF TypeInv
<1>1. ASSUME NEW e \in Event, Emit(<<e>>) PROVE SaidType'
  BY <1>1, EmitKeeps
<1>2. CASE Emit(<< <<"NewJob", tip + 1>>, <<"PoolReady">> >>) /\ PollerBuilds
  BY <1>2, TwoEvents
<1>3. CASE Main /\ UNCHANGED explained
  <2>1. UNCHANGED queue \/ (queue # << >> /\ queue' = Tail(queue)) \/ queue' = << >>
    BY <1>3 DEF Main, Drain, Carry, Close, Quit, WatcherEnds, Leave, Finish
  <2>2. << >> \in Seq(Event)
    OBVIOUS
  <2>3. queue # << >> => Tail(queue) \in Seq(Event)
    BY <1>0 DEF SaidType
  <2> QED
    BY <1>0, <1>3, <2>1, <2>2, <2>3 DEF SaidType
<1>4. CASE UNCHANGED said
  BY <1>0, <1>4 DEF SaidType
<1> QED
  BY <1>1, <1>2, <1>3, <1>4, Emitted

\* The stop flags: nobody takes one back, and who speaks leaves them alone.
LEMMA QuietSpeakers ==
  ASSUME TypeInv,
         \/ PoolWaits \/ PoolBinds \/ PollerBuilds \/ PollerRechecks \/ MinerDisconnected
         \/ \E height \in telling : TellBlock(height)
  PROVE  Quiet
<1>0. FlagsType
  BY DEF TypeInv
<1>1. UNCHANGED flags => Quiet
  BY <1>0 DEF FlagsType, Quiet
<1>2. \A e \in Event : Emit(<<e>>) => Quiet
  BY EmitKeeps
<1>3. CASE PoolWaits \/ PoolBinds \/ PollerRechecks \/ MinerDisconnected
  <2>1. UNCHANGED flags \/ \E e \in Event : Emit(<<e>>)
    BY <1>3, PlainEvents DEF PoolWaits, PoolBinds, PollerRechecks, MinerDisconnected
  <2> QED
    BY <1>1, <1>2, <2>1
<1>4. CASE PollerBuilds
  <2>1. tip + 1 \in Nat
    <3>1. tip \in Nat \ {0}
      BY DEF TypeInv, ChainType
    <3> QED
      BY <3>1
  <2> QED
    BY <1>2, <1>4, <2>1, NewJobEvents, NumberedEvents, TwoEvents
<1>5. ASSUME NEW height \in telling, TellBlock(height)
      PROVE  Quiet
  <2>1. height \in Nat
    BY DEF TypeInv, ChainType
  <2> QED
    BY <1>2, <1>5, <2>1, NumberedEvents DEF TellBlock
<1> QED
  BY <1>3, <1>4, <1>5

LEMMA FlagsChange ==
  ASSUME TypeInv, Next
  PROVE  \/ Quiet
         \/ flags' = Stops /\ (Leave \/ Signal \/ WatchHalves)
         \/ flags' = [flags EXCEPT !.stopMiner = TRUE] /\ (AwaitReady \/ MinerWindsDown)
         \/ flags' = [flags EXCEPT !.stopPool = TRUE] /\ PoolStopsServing
<1>0. FlagsType
  BY DEF TypeInv
<1>1. UNCHANGED flags => Quiet
  BY <1>0 DEF FlagsType, Quiet
<1>2. CASE Leave \/ Signal \/ WatchHalves \/ AwaitReady \/ MinerWindsDown \/ PoolStopsServing
  BY <1>1, <1>2 DEF Leave, Signal, WatchHalves, AwaitReady, MinerWindsDown, PoolStopsServing
<1>3. CASE Drain \/ Carry \/ Close \/ Quit \/ WatcherEnds \/ Finish \/ JoinMiner \/ JoinPool \/ PollerTop
           \/ PollerPanics \/ MinerConnects \/ MinerStops \/ BlockAccepted \/ OthersFind
           \/ PoolFails \/ PoolConnects \/ PoolJoins
  BY <1>1, <1>3 DEF Drain, Carry, Close, Quit, WatcherEnds, Finish, JoinMiner, JoinPool, PollerTop,
     PollerPanics, MinerConnects, MinerStops, BlockAccepted, OthersFind, PoolFails, PoolConnects, PoolJoins
<1> QED
  BY <1>2, <1>3, QuietSpeakers DEF Next, Main, Bossing, Pooling, Polling, Mining

LEMMA FlagsTyped ==
  ASSUME TypeInv, Next
  PROVE  /\ FlagsType'
         /\ flags.stopPool => flags'.stopPool
         /\ flags.stopMiner => flags'.stopMiner
<1>0. FlagsType
  BY DEF TypeInv
<1>1. \/ flags' = [flags EXCEPT !.ready = flags'.ready] /\ flags'.ready \in BOOLEAN
      \/ flags' = Stops
      \/ flags' = [flags EXCEPT !.stopMiner = TRUE]
      \/ flags' = [flags EXCEPT !.stopPool = TRUE]
  BY FlagsChange DEF Quiet
<1>2. CASE flags' = [flags EXCEPT !.ready = flags'.ready] /\ flags'.ready \in BOOLEAN
  BY <1>0, <1>2 DEF FlagsType
<1>3. CASE flags' = Stops
  BY <1>0, <1>3 DEF FlagsType
<1>4. CASE flags' = [flags EXCEPT !.stopMiner = TRUE]
  BY <1>0, <1>4 DEF FlagsType
<1>5. CASE flags' = [flags EXCEPT !.stopPool = TRUE]
  BY <1>0, <1>5 DEF FlagsType
<1> QED
  BY <1>1, <1>2, <1>3, <1>4, <1>5

LEMMA TypeStep ==
  ASSUME TypeInv, Next
  PROVE  TypeInv'
BY MainTyped, ScreenTyped, BossTyped, PoolTyped, PollerTyped, MinerTyped, FlagsTyped, ChainTyped, SaidTyped
   DEF TypeInv

-----------------------------------------------------------------------------
(* Who waits for whom.                                                     *)

LEMMA PoolLifeStep ==
  ASSUME TypeInv, PoolLife, Next
  PROVE  PoolLife'
<1>0. PoolType /\ PollerType
  BY DEF TypeInv
<1>1. CASE PoolFails \/ PoolConnects
  BY <1>0, <1>1 DEF PoolType, PollerType, PoolLife, PoolFails, PoolConnects, PoolEnds
<1>2. CASE PoolWaits
  <2>1. /\ pool.at = "waiting" /\ UNCHANGED poller
        /\ \/ pool' = [pool EXCEPT !.at = "done", !.result = "ok"]
           \/ pool' = [pool EXCEPT !.at = "binding"]
           \/ pool' = [pool EXCEPT !.announced = TRUE]
    BY <1>2 DEF PoolWaits, PoolEnds
  <2> QED
    BY <1>0, <2>1 DEF PoolType, PollerType, PoolLife
<1>3. CASE PoolBinds
  BY <1>0, <1>3 DEF PoolType, PollerType, PoolLife, PoolBinds
<1>4. CASE PoolStopsServing
  BY <1>0, <1>4 DEF PoolType, PollerType, PoolLife, PoolStopsServing
<1>5. CASE PoolJoins
  BY <1>0, <1>5 DEF PoolType, PollerType, PoolLife, PoolJoins, PoolEnds
<1>6. CASE PollerTop \/ PollerPanics
  BY <1>0, <1>6 DEF PoolType, PollerType, PoolLife, PollerTop, PollerPanics, PollerEnds
<1>7. CASE PollerBuilds
  BY <1>0, <1>7 DEF PoolType, PollerType, PoolLife, PollerBuilds
<1>8. CASE PollerRechecks
  <2>1. /\ poller.at = "round" /\ UNCHANGED pool
        /\ \/ poller' = [poller EXCEPT !.at = "top"]
           \/ poller' = [poller EXCEPT !.at = "top", !.paused = TRUE, !.pauses = @ + 1]
           \/ poller' = [poller EXCEPT !.at = "top", !.paused = FALSE]
           \/ poller' = [poller EXCEPT !.at = "ended", !.result = "reported"]
    BY <1>8 DEF PollerRechecks, PollerEnds
  <2> QED
    BY <1>0, <2>1 DEF PoolType, PollerType, PoolLife
<1>9. CASE UNCHANGED <<pool, poller>>
  BY <1>9 DEF PoolLife
<1>10. Pooling \/ Polling \/ PollerPanics \/ UNCHANGED <<pool, poller>>
  BY Footprints DEF Pooling
<1> QED
  BY <1>1, <1>2, <1>3, <1>4, <1>5, <1>6, <1>7, <1>8, <1>9, <1>10 DEF Pooling, Polling

\* Once the pool is over it stays as it ended; so does a miner.
LEMMA PoolStays ==
  ASSUME TypeInv, Next, pool.at = "done"
  PROVE  UNCHANGED pool
BY Footprints DEF Pooling, PoolFails, PoolConnects, PoolWaits, PoolBinds, PoolStopsServing, PoolJoins

LEMMA MinerStays ==
  ASSUME TypeInv, Next, miner.at \in {"off", "done"}, boss.at # "await"
  PROVE  UNCHANGED miner
BY Footprints DEF AwaitReady, Mining, MinerConnects, MinerStops, MinerWindsDown, MinerDisconnected

LEMMA BossLifeStep ==
  ASSUME TypeInv, BossLife, Next
  PROVE  BossLife'
<1>0. MainType /\ BossType /\ MinerType
  BY DEF TypeInv
<1>1. CASE AwaitReady
  BY <1>0, <1>1 DEF MainType, BossType, MinerType, BossLife, AwaitReady
<1>2. CASE WatchHalves \/ JoinMiner
  BY <1>0, <1>2 DEF MainType, BossType, MinerType, BossLife, WatchHalves, JoinMiner
<1>3. CASE JoinPool
  BY <1>0, <1>3 DEF MainType, BossType, MinerType, BossLife, JoinPool, Combined
<1>4. CASE Main \/ Signal
  <2>1. \/ main'.at = main.at /\ main'.result = main.result /\ main'.shown = main.shown
        \/ main.at \in {"drain", "look"} /\ main'.at \in {"drain", "look"} /\ main'.shown = main.shown
        \/ main'.at \in {"leave", "join"}
        \/ Finish
    BY <1>0, <1>4 DEF MainType, Main, Drain, Carry, Close, Quit, WatcherEnds, Leave, Signal
  <2>2. UNCHANGED <<boss, pool, miner>>
    BY <1>4 DEF Main, Drain, Carry, Close, Quit, WatcherEnds, Leave, Finish, Signal
  <2>3. CASE Finish
    BY <1>0, <2>2, <2>3 DEF MainType, BossLife, Finish
  <2> QED
    BY <2>1, <2>2, <2>3 DEF BossLife
<1>5. CASE UNCHANGED <<main, boss>>
  <2>1. CASE Mining \/ MinerDisconnected
    <3>1. /\ miner.at \in {"connect", "run", "wind down"} /\ UNCHANGED pool
          /\ \/ miner' = [miner EXCEPT !.at = "run"] \/ miner' = [miner EXCEPT !.at = "wind down"]
             \/ \E result \in {"ok", "miner failed"} : miner' = [at |-> "done", result |-> result]
      BY <2>1 DEF Mining, MinerConnects, MinerStops, MinerWindsDown, MinerDisconnected
    <3>2. boss.at \notin {"await", "join pool", "done"} /\ main.at # "done"
      BY <3>1 DEF BossLife
    <3>3. miner'.at # "done" => miner'.result = "ok"
      <4>1. CASE miner' = [miner EXCEPT !.at = "run"] \/ miner' = [miner EXCEPT !.at = "wind down"]
        BY <1>0, <3>1, <4>1 DEF BossLife, MinerType
      <4>2. ASSUME NEW result, miner' = [at |-> "done", result |-> result]
            PROVE  miner'.at = "done"
        BY <4>2
      <4> QED
        BY <3>1, <4>1, <4>2
    <3> QED
      BY <1>5, <3>2, <3>3 DEF BossLife
  <2>2. CASE UNCHANGED miner
    BY <1>5, <2>2, PoolStays DEF BossLife
  <2>3. CASE AwaitReady
    BY <1>1, <2>3
  <2> QED
    BY <2>1, <2>2, <2>3, Footprints
<1> QED
  BY <1>1, <1>2, <1>3, <1>4, <1>5, Footprints DEF Bossing

LEMMA LifeStep ==
  ASSUME TypeInv, LifeInv, Next
  PROVE  LifeInv'
BY PoolLifeStep, BossLifeStep DEF LifeInv

-----------------------------------------------------------------------------
(* Why it ends.                                                            *)

\* What an event adds to what was said.
LEMMA ExplainedGrows ==
  ASSUME TypeInv, Next
  PROVE  explained => explained'
<1>1. ASSUME NEW e \in Event, Emit(<<e>>) PROVE explained => explained'
  BY <1>1, EmitOne
<1>2. CASE Emit(<< <<"NewJob", tip + 1>>, <<"PoolReady">> >>)
  BY <1>2, TwoEvents
<1> QED
  BY <1>1, <1>2, Emitted

LEMMA SaysWhy ==
  ASSUME TypeInv, NEW kind \in {"Fatal", "PoolClosed"}, Emit(<< <<kind>> >>)
  PROVE  explained'
<1>1. <<kind>> \in Event
  BY PlainEvents
<1> QED
  BY <1>1, EmitOne

\* A reason, once there is one, stays.
LEMMA ReasonStays ==
  ASSUME TypeInv, LifeInv, Reason, Next
  PROVE  Reason'
<1>0. MainType /\ PollerType
  BY DEF TypeInv
<1>1. CASE main.asked
  <2>1. CASE Main \/ Signal
    BY <1>0, <1>1, <2>1 DEF MainType, Reason, Main, Drain, Carry, Close, Quit, WatcherEnds, Leave, Finish, Signal
  <2> QED
    BY <1>1, <2>1, Footprints DEF Reason
<1>2. CASE explained
  BY <1>2, ExplainedGrows DEF Reason
<1>3. CASE main.shown # "ok"
  <2>1. main.at \notin {"drain", "look"}
    BY <1>3 DEF LifeInv, BossLife
  <2>2. CASE Main \/ Signal
    BY <1>0, <1>3, <2>1, <2>2 DEF MainType, Reason, Main, Drain, Carry, Close, Quit, WatcherEnds, Leave,
       Finish, Signal
  <2> QED
    BY <1>3, <2>2, Footprints DEF Reason
<1>4. CASE poller.result = "pool failed"
  <2>1. poller.at = "ended"
    BY <1>4 DEF LifeInv, PoolLife
  <2>2. pool.at # "binding"
    BY <2>1 DEF LifeInv, PoolLife
  <2>3. UNCHANGED poller
    BY <2>1, <2>2, Footprints DEF PoolBinds, Polling, PollerTop, PollerBuilds, PollerRechecks, PollerPanics
  <2> QED
    BY <1>4, <2>3 DEF Reason
<1>5. CASE pool.result = "pool failed"
  <2>1. pool.at = "done"
    BY <1>5 DEF LifeInv, PoolLife
  <2> QED
    BY <1>5, <2>1, PoolStays DEF Reason
<1>6. CASE miner.result = "miner failed"
  <2>1. miner.at = "done" /\ boss.at # "await"
    BY <1>6 DEF LifeInv, BossLife
  <2> QED
    BY <1>6, <2>1, MinerStays DEF Reason
<1> QED
  BY <1>1, <1>2, <1>3, <1>4, <1>5, <1>6 DEF Reason

\* Whatever starts the end gives its reason in the same step; everything else
\* that ends only follows.
LEMMA EndingStarts ==
  ASSUME TypeInv, LifeInv, ~Ending, Next, Ending'
  PROVE  Reason'
<1>0. MainType /\ BossType /\ PoolType /\ PollerType /\ MinerType /\ FlagsType
  BY DEF TypeInv
<1>1. CASE Signal
  BY <1>0, <1>1 DEF Signal, Reason, MainType
<1>2. CASE Close
  BY <1>0, <1>2 DEF Close, Reason, MainType, Ending
<1>3. CASE Quit
  BY <1>0, <1>3 DEF Quit, Reason, MainType
<1>4. CASE PoolFails
  BY <1>0, <1>4 DEF PoolFails, PoolEnds, Reason, PoolType
<1>5. CASE PollerPanics
  BY <1>0, <1>5 DEF PollerPanics, PollerEnds, Reason, PollerType
<1>6. CASE MinerDisconnected
  BY <1>6, SaysWhy DEF MinerDisconnected, Reason
<1>7. CASE PollerRechecks
  <2>1. CASE Emit(<< <<"Fatal">> >>)
    BY <2>1, SaysWhy DEF Reason
  <2>2. CASE ~Emit(<< <<"Fatal">> >>)
    <3>1. poller'.at = "top" /\ UNCHANGED <<main, boss, pool, miner>>
      BY <1>0, <1>7, <2>2 DEF PollerRechecks, PollerType
    <3>2. Quiet
      BY <1>7, QuietSpeakers
    <3> QED
      BY <1>0, <3>1, <3>2 DEF Ending, Quiet, FlagsType
  <2> QED
    BY <2>1, <2>2
<1>8. CASE MinerConnects
  <2>1. CASE miner' = [at |-> "done", result |-> "miner failed"]
    BY <2>1 DEF Reason
  <2>2. CASE miner' = [miner EXCEPT !.at = "run"]
    BY <1>0, <1>8, <2>2 DEF MinerConnects, Ending, MinerType
  <2> QED
    BY <1>8, <2>1, <2>2 DEF MinerConnects
<1>9. CASE PoolWaits \/ PoolBinds \/ PollerBuilds \/ \E height \in telling : TellBlock(height)
  <2>1. Quiet
    BY <1>9, QuietSpeakers
  <2>2. ~(flags.stopPool \/ flags.stopMiner) /\ ~(flags'.stopPool \/ flags'.stopMiner)
    BY <1>0, <2>1 DEF Ending, Quiet, FlagsType
  <2>3. UNCHANGED <<main, boss, miner>>
    BY <1>9 DEF PoolWaits, PoolBinds, PollerBuilds, TellBlock
  <2>4. pool'.at # "done"
    <3>1. CASE PoolWaits
      <4>1. pool' = [pool EXCEPT !.at = "binding"] \/ pool' = [pool EXCEPT !.announced = TRUE]
        BY <2>2, <3>1 DEF PoolWaits
      <4> QED
        BY <1>0, <4>1 DEF Ending, PoolType
    <3>2. CASE PoolBinds
      BY <1>0, <3>2 DEF PoolBinds, PoolType
    <3>3. CASE PollerBuilds \/ \E height \in telling : TellBlock(height)
      BY <3>3 DEF PollerBuilds, TellBlock, Ending
    <3> QED
      BY <1>9, <3>1, <3>2, <3>3
  <2>5. poller'.at # "ended"
    <3>1. CASE PoolBinds \/ PollerBuilds
      BY <1>0, <3>1 DEF PoolBinds, PollerBuilds, PollerType
    <3>2. CASE PoolWaits \/ \E height \in telling : TellBlock(height)
      BY <3>2 DEF PoolWaits, TellBlock, Ending
    <3> QED
      BY <1>9, <3>1, <3>2
  <2> QED
    BY <2>2, <2>3, <2>4, <2>5 DEF Ending
<1>10. CASE Leave \/ WatchHalves \/ JoinMiner \/ JoinPool \/ PoolStopsServing \/ PoolJoins
            \/ MinerStops \/ MinerWindsDown
  BY <1>10 DEF Leave, WatchHalves, JoinMiner, JoinPool, PoolStopsServing, PoolJoins, MinerStops,
     MinerWindsDown, Ending
<1>11. CASE AwaitReady
  BY <1>0, <1>11 DEF AwaitReady, Ending, BossType, MinerType
<1>12. CASE Drain \/ Carry \/ WatcherEnds \/ Finish
  BY <1>0, <1>12 DEF Drain, Carry, WatcherEnds, Finish, Ending, MainType
<1>13. CASE PoolConnects
  BY <1>0, <1>13 DEF PoolConnects, Ending, PoolType
<1>14. CASE PollerTop
  BY <1>0, <1>14 DEF PollerTop, Ending, PollerType
<1>15. CASE BlockAccepted \/ OthersFind
  BY <1>15 DEF BlockAccepted, OthersFind, Ending
<1> QED
  BY <1>1, <1>2, <1>3, <1>4, <1>5, <1>6, <1>7, <1>8, <1>9, <1>10, <1>11, <1>12, <1>13, <1>14, <1>15
     DEF Next, Main, Bossing, Pooling, Polling, Mining

LEMMA ReportedStep ==
  ASSUME TypeInv, LifeInv, ReasonInv, Next
  PROVE  poller'.result = "reported" \/ pool'.result = "reported" => explained'
<1>0. PoolType /\ PollerType
  BY DEF TypeInv
<1>1. CASE PollerRechecks /\ poller'.result # poller.result
  <2>1. Emit(<< <<"Fatal">> >>)
    BY <1>0, <1>1 DEF PollerRechecks, PollerType
  <2> QED
    BY <2>1, SaysWhy
<1>2. poller'.result = "reported" /\ poller.result # "reported" => PollerRechecks
  BY <1>0, Footprints DEF PollerType, PoolBinds, Polling, PollerTop, PollerBuilds, PollerPanics, PollerEnds
<1>3. pool'.result = "reported" /\ pool.result # "reported" => poller.result = "reported"
  <2>1. CASE PoolFails \/ PoolConnects \/ PoolBinds \/ PoolStopsServing \/ PoolJoins
    BY <1>0, <2>1 DEF PoolType, PoolFails, PoolConnects, PoolBinds, PoolStopsServing, PoolJoins, PoolEnds
  <2>2. CASE PoolWaits
    <3>1. \/ pool' = [pool EXCEPT !.at = "done", !.result = "ok"]
          \/ pool' = [pool EXCEPT !.at = "binding"]
          \/ pool' = [pool EXCEPT !.announced = TRUE]
      BY <2>2 DEF PoolWaits, PoolEnds
    <3> QED
      BY <1>0, <3>1 DEF PoolType
  <2> QED
    BY <2>1, <2>2, Footprints DEF Pooling
<1> QED
  BY <1>1, <1>2, <1>3, ExplainedGrows DEF ReasonInv

LEMMA ReasonStep ==
  ASSUME TypeInv, LifeInv, ReasonInv, Next
  PROVE  ReasonInv'
BY ReasonStays, EndingStarts, ReportedStep DEF ReasonInv

-----------------------------------------------------------------------------
(* What the dashboard shows of a pause.                                    *)

\* Whichever event comes last decides; one that says nothing of it does not.
LEMMA TellsMore ==
  ASSUME NEW q \in Seq(Event), NEW e \in Event, NEW shown, NEW paused,
         e[1] \in Telling, e[1] = "Paused" <=> paused
  PROVE  Tells(Append(q, e), shown, paused)
<1> DEFINE r == Append(q, e)
           n == Len(q) + 1
<1>1. n \in 1..Len(r) /\ r[n] = e /\ \A k \in n+1..Len(r) : FALSE
  OBVIOUS
<1> HIDE DEF r, n
<1>2. Tells(r, shown, paused)
  BY <1>1 DEF Tells
<1> QED
  BY <1>2 DEF r

LEMMA TellsSame ==
  ASSUME NEW q \in Seq(Event), NEW e \in Event, NEW shown, NEW paused,
         e[1] \notin Telling, Tells(q, shown, paused)
  PROVE  Tells(Append(q, e), shown, paused)
<1> DEFINE r == Append(q, e)
<1>1. /\ Len(q) \in Nat /\ Len(r) = Len(q) + 1 /\ r[Len(r)] = e
      /\ \A i \in 1..Len(q) : r[i] = q[i]
  OBVIOUS
<1> HIDE DEF r
<1>2. \A k \in 1..Len(r) : k \in 1..Len(q) \/ k = Len(r)
  BY <1>1
<1>3. CASE \E i \in 1..Len(q) :
             /\ q[i][1] \in Telling /\ (q[i][1] = "Paused" <=> paused)
             /\ \A k \in i+1..Len(q) : q[k][1] \notin Telling
  <2>1. PICK i \in 1..Len(q) :
               /\ q[i][1] \in Telling /\ (q[i][1] = "Paused" <=> paused)
               /\ \A k \in i+1..Len(q) : q[k][1] \notin Telling
    BY <1>3
  <2>2. i \in 1..Len(r) /\ r[i] = q[i]
    BY <1>1
  <2>3. ASSUME NEW k \in i+1..Len(r) PROVE r[k][1] \notin Telling
    <3>1. (k \in i+1..Len(q) /\ k \in 1..Len(q)) \/ k = Len(r)
      BY <1>1
    <3> QED
      BY <1>1, <2>1, <3>1
  <2>4. Tells(r, shown, paused)
    BY <2>1, <2>2, <2>3 DEF Tells
  <2> QED
    BY <2>4 DEF r
<1>4. CASE (\A i \in 1..Len(q) : q[i][1] \notin Telling) /\ (shown <=> paused)
  <2>1. \A i \in 1..Len(r) : r[i][1] \notin Telling
    BY <1>1, <1>2, <1>4
  <2>2. Tells(r, shown, paused)
    BY <1>4, <2>1 DEF Tells
  <2> QED
    BY <2>2 DEF r
<1> QED
  BY <1>3, <1>4 DEF Tells

\* Reading the oldest event and showing it leaves what is told.
LEMMA TellsRead ==
  ASSUME NEW q \in Seq(Event), q # <<>>, NEW shown, NEW shown2, NEW paused, Tells(q, shown, paused),
         shown2 <=> IF Head(q)[1] \in Telling THEN Head(q)[1] = "Paused" ELSE shown
  PROVE  Tells(Tail(q), shown2, paused)
<1> DEFINE r == Tail(q)
<1>1. /\ Len(q) \in Nat \ {0} /\ Len(r) = Len(q) - 1 /\ Head(q) = q[1]
      /\ \A i \in 1..Len(r) : r[i] = q[i + 1]
  OBVIOUS
<1> HIDE DEF r
<1>2. CASE \E i \in 1..Len(q) :
             /\ q[i][1] \in Telling /\ (q[i][1] = "Paused" <=> paused)
             /\ \A k \in i+1..Len(q) : q[k][1] \notin Telling
  <2>1. PICK i \in 1..Len(q) :
               /\ q[i][1] \in Telling /\ (q[i][1] = "Paused" <=> paused)
               /\ \A k \in i+1..Len(q) : q[k][1] \notin Telling
    BY <1>2
  <2>2. CASE i = 1
    <3>1. shown2 <=> paused
      BY <1>1, <2>1, <2>2
    <3>2. ASSUME NEW k \in 1..Len(r) PROVE r[k][1] \notin Telling
      <4>1. k + 1 \in i+1..Len(q)
        BY <1>1, <2>2
      <4> QED
        BY <1>1, <2>1, <4>1
    <3>3. Tells(r, shown2, paused)
      BY <3>1, <3>2 DEF Tells
    <3> QED
      BY <3>3 DEF r
  <2>3. CASE i # 1
    <3> DEFINE j == i - 1
    <3>1. j \in 1..Len(r) /\ r[j] = q[i]
      BY <1>1, <2>3
    <3>2. ASSUME NEW k \in j+1..Len(r) PROVE r[k][1] \notin Telling
      <4>1. k + 1 \in i+1..Len(q) /\ k \in 1..Len(r)
        BY <1>1, <3>1
      <4> QED
        BY <1>1, <2>1, <4>1
    <3> HIDE DEF j
    <3>3. Tells(r, shown2, paused)
      BY <2>1, <3>1, <3>2 DEF Tells
    <3> QED
      BY <3>3 DEF r
  <2> QED
    BY <2>2, <2>3
<1>3. CASE (\A i \in 1..Len(q) : q[i][1] \notin Telling) /\ (shown <=> paused)
  <2>1. ASSUME NEW k \in 1..Len(r) PROVE r[k][1] \notin Telling
    <3>1. k + 1 \in 1..Len(q) /\ r[k] = q[k + 1]
      BY <1>1
    <3> QED
      BY <1>3, <3>1
  <2>2. q[1][1] \notin Telling
    BY <1>1, <1>3
  <2>3. shown2 <=> paused
    BY <1>1, <1>3, <2>2
  <2>4. Tells(r, shown2, paused)
    BY <2>1, <2>3 DEF Tells
  <2> QED
    BY <2>4 DEF r
<1> QED
  BY <1>2, <1>3 DEF Tells

LEMMA ApplyShows ==
  ASSUME ScreenType, NEW e
  PROVE  Apply(screen, e).pool = "paused" <=>
           IF e[1] \in Telling THEN e[1] = "Paused" ELSE screen.pool = "paused"
<1>1. \A h : NewJob(screen, h).pool = "ready"
  BY DEF ScreenType, NewJob, ScreenFields
<1>2. \A h : BlockFound(screen, h).pool = screen.pool
  BY DEF ScreenType, BlockFound, ScreenFields
<1>3. \A p : [screen EXCEPT !.pool = p].pool = p
  BY DEF ScreenType, ScreenFields
<1> QED
  BY <1>1, <1>2, <1>3 DEF Apply, Telling

\* One event more: the pause is told if the event tells it as it now is.
LEMMA TellsEmitted ==
  ASSUME TypeInv, PauseInv, Open, UNCHANGED <<main, screen>>, NEW e \in Event, Emit(<<e>>),
         IF e[1] \in Telling THEN e[1] = "Paused" <=> poller'.paused ELSE poller'.paused = poller.paused
  PROVE  Tells(queue', screen'.pool = "paused", poller'.paused)
<1>0. queue \in Seq(Event) /\ Tells(queue, screen.pool = "paused", poller.paused)
  BY DEF TypeInv, SaidType, PauseInv, Open
<1>1. queue' = Append(queue, e)
  BY EmitOne
<1>2. CASE e[1] \in Telling
  BY <1>0, <1>1, <1>2, TellsMore
<1>3. CASE e[1] \notin Telling
  BY <1>0, <1>1, <1>3, TellsSame
<1> QED
  BY <1>2, <1>3

LEMMA PauseStep ==
  ASSUME TypeInv, LifeInv, PauseInv, Next
  PROVE  PauseInv'
<1>0. /\ MainType /\ ScreenType /\ PollerType /\ queue \in Seq(Event)
      /\ poller.paused \in BOOLEAN
  BY DEF TypeInv, SaidType, PollerType
<1>1. SUFFICES ASSUME Open'
               PROVE  Tells(queue', screen'.pool = "paused", poller'.paused)
  BY DEF PauseInv, Open
<1>2. Open
  <2>1. CASE Main \/ Signal
    BY <1>0, <1>1, <2>1 DEF Open, MainType, Main, Drain, Carry, Close, Quit, WatcherEnds, Leave, Finish, Signal
  <2> QED
    BY <1>1, <2>1, Footprints DEF Open
<1>3. Tells(queue, screen.pool = "paused", poller.paused)
  BY <1>2 DEF PauseInv, Open
<1>4. CASE Main
  <2>0. UNCHANGED poller
    BY <1>4 DEF Main, Drain, Carry, Close, Quit, WatcherEnds, Leave, Finish
  <2>1. CASE Drain /\ queue # << >>
    <3>1. screen' = Apply(screen, Head(queue)) /\ queue' = Tail(queue)
      BY <2>1 DEF Drain
    <3>2. screen'.pool = "paused" <=>
            IF Head(queue)[1] \in Telling THEN Head(queue)[1] = "Paused" ELSE screen.pool = "paused"
      BY <1>0, <3>1, ApplyShows
    <3> DEFINE shown  == screen.pool = "paused"
               shown2 == screen'.pool = "paused"
    <3>3. shown2 <=> IF Head(queue)[1] \in Telling THEN Head(queue)[1] = "Paused" ELSE shown
      BY <3>2
    <3>4. Tells(queue, shown, poller.paused)
      BY <1>3
    <3> HIDE DEF shown, shown2
    <3>5. Tells(Tail(queue), shown2, poller.paused)
      BY <1>0, <2>1, <3>3, <3>4, TellsRead
    <3> QED
      BY <2>0, <3>1, <3>5 DEF shown2
  <2>2. CASE ~(Drain /\ queue # << >>)
    <3>1. UNCHANGED <<screen, queue>>
      BY <1>0, <1>1, <1>4, <2>2 DEF Open, MainType, Main, Drain, Carry, Close, Quit, WatcherEnds, Leave, Finish
    <3> QED
      BY <1>3, <2>0, <3>1
  <2> QED
    BY <2>1, <2>2
<1>5. CASE PoolWaits
  <2>1. ~poller.paused /\ UNCHANGED poller
    BY <1>5 DEF PoolWaits, LifeInv, PoolLife
  <2>2. UNCHANGED <<main, screen>> /\ (UNCHANGED queue \/ Emit(<< <<"Waiting">> >>))
    BY <1>5 DEF PoolWaits
  <2>3. <<"Waiting">>[1] \in Telling /\ <<"Waiting">>[1] # "Paused"
    BY DEF Telling
  <2>4. CASE Emit(<< <<"Waiting">> >>)
    BY <1>2, <2>1, <2>2, <2>3, <2>4, PlainEvents, TellsEmitted
  <2> QED
    BY <1>3, <2>1, <2>2, <2>4
<1>6. CASE PoolBinds
  <2>1. poller'.paused = poller.paused /\ UNCHANGED <<main, screen>> /\ Emit(<< <<"PoolStarted">> >>)
    BY <1>0, <1>6 DEF PoolBinds, PollerType
  <2>2. <<"PoolStarted">>[1] \notin Telling
    BY DEF Telling
  <2> QED
    BY <1>2, <2>1, <2>2, PlainEvents, TellsEmitted
<1>7. CASE PollerRechecks
  <2>0. UNCHANGED <<main, screen>>
    BY <1>7 DEF PollerRechecks
  <2>1. \/ poller'.paused = poller.paused /\ UNCHANGED said
        \/ poller'.paused /\ Emit(<< <<"Paused">> >>)
        \/ ~poller'.paused /\ Emit(<< <<"Resumed">> >>)
        \/ poller'.paused = poller.paused /\ Emit(<< <<"Fatal">> >>)
    BY <1>0, <1>7 DEF PollerRechecks, PollerEnds, PollerType
  <2>2. /\ <<"Paused">>[1] \in Telling /\ <<"Resumed">>[1] \in Telling /\ <<"Fatal">>[1] \notin Telling
        /\ <<"Paused">>[1] = "Paused" /\ <<"Resumed">>[1] # "Paused"
    BY DEF Telling
  <2>3. CASE poller'.paused /\ Emit(<< <<"Paused">> >>)
    BY <1>2, <2>0, <2>2, <2>3, PlainEvents, TellsEmitted
  <2>4. CASE ~poller'.paused /\ Emit(<< <<"Resumed">> >>)
    BY <1>2, <2>0, <2>2, <2>4, PlainEvents, TellsEmitted
  <2>5. CASE poller'.paused = poller.paused /\ Emit(<< <<"Fatal">> >>)
    BY <1>2, <2>0, <2>2, <2>5, PlainEvents, TellsEmitted
  <2>6. CASE poller'.paused = poller.paused /\ UNCHANGED said
    BY <1>3, <2>0, <2>6
  <2> QED
    BY <2>1, <2>3, <2>4, <2>5, <2>6
<1>8. CASE MinerDisconnected
  <2>1. UNCHANGED <<main, screen, poller>> /\ Emit(<< <<"PoolClosed">> >>)
    BY <1>8 DEF MinerDisconnected
  <2>2. <<"PoolClosed">>[1] \notin Telling
    BY DEF Telling
  <2> QED
    BY <1>2, <2>1, <2>2, PlainEvents, TellsEmitted
<1>9. ASSUME NEW height \in telling, TellBlock(height)
      PROVE  Tells(queue', screen'.pool = "paused", poller'.paused)
  <2>1. UNCHANGED <<main, screen, poller>> /\ Emit(<< <<"BlockFound", height>> >>)
    BY <1>9 DEF TellBlock
  <2>2. height \in Nat
    BY DEF TypeInv, ChainType
  <2>3. <<"BlockFound", height>>[1] \notin Telling /\ <<"BlockFound", height>> \in Event
    BY <2>2, NumberedEvents DEF Telling
  <2> QED
    BY <1>2, <2>1, <2>3, TellsEmitted
<1>10. CASE PollerBuilds
  <2>1. ~poller.paused /\ ~poller'.paused /\ UNCHANGED <<main, screen>>
    BY <1>0, <1>10 DEF PollerBuilds, PollerType
  <2>2. tip + 1 \in Nat
    <3>1. tip \in Nat \ {0}
      BY DEF TypeInv, ChainType
    <3> QED
      BY <3>1
  <2> DEFINE e == <<"NewJob", tip + 1>>
             f == <<"PoolReady">>
  <2>3. e \in Event /\ e[1] \in Telling /\ e[1] # "Paused" /\ f \in Event /\ f[1] \notin Telling
    BY <2>2, NumberedEvents, PlainEvents DEF Telling
  <2>4. CASE Emit(<< <<"NewJob", tip + 1>> >>)
    BY <1>2, <2>1, <2>3, <2>4, TellsEmitted
  <2>5. CASE Emit(<< <<"NewJob", tip + 1>>, <<"PoolReady">> >>)
    <3>1. queue' = Append(Append(queue, e), f)
      BY <1>2, <2>5, TwoEvents
    <3> HIDE DEF e, f
    <3>2. Append(queue, e) \in Seq(Event)
      BY <1>0, <2>3
    <3>3. Tells(Append(queue, e), screen.pool = "paused", FALSE)
      BY <1>0, <2>3, TellsMore
    <3>4. Tells(Append(Append(queue, e), f), screen.pool = "paused", FALSE)
      BY <2>3, <3>2, <3>3, TellsSame
    <3>5. poller'.paused = FALSE
      <4>1. PollerType'
        BY PollerTyped
      <4> QED
        BY <2>1, <4>1 DEF PollerType
    <3> QED
      BY <2>1, <3>1, <3>4, <3>5
  <2> QED
    BY <1>10, <2>4, <2>5, NewJobEvents
<1>11. CASE Signal \/ Bossing \/ PoolFails \/ PoolConnects \/ PoolStopsServing \/ PoolJoins \/ PollerTop
            \/ PollerPanics \/ Mining \/ BlockAccepted \/ OthersFind
  <2>1. UNCHANGED <<screen, queue>>
    BY <1>11 DEF Signal, Bossing, AwaitReady, WatchHalves, JoinMiner, JoinPool, PoolFails, PoolConnects,
       PoolStopsServing, PoolJoins, PollerTop, PollerPanics, Mining, MinerConnects, MinerStops,
       MinerWindsDown, BlockAccepted, OthersFind
  <2>2. CASE PollerTop \/ PollerPanics
    <3>1. poller'.paused = poller.paused
      BY <1>0, <2>2 DEF PollerTop, PollerPanics, PollerEnds, PollerType
    <3> QED
      BY <1>3, <2>1, <3>1
  <2>3. CASE ~(PollerTop \/ PollerPanics)
    <3>1. UNCHANGED poller
      BY <1>11, <2>3 DEF Signal, Bossing, AwaitReady, WatchHalves, JoinMiner, JoinPool, PoolFails,
         PoolConnects, PoolStopsServing, PoolJoins, Mining, MinerConnects, MinerStops,
         MinerWindsDown, BlockAccepted, OthersFind
    <3> QED
      BY <1>3, <2>1, <3>1
  <2> QED
    BY <2>2, <2>3
<1> QED
  BY <1>4, <1>5, <1>6, <1>7, <1>8, <1>9, <1>10, <1>11 DEF Next, Pooling, Polling

-----------------------------------------------------------------------------
(* Whose the dashboard says a block is.                                    *)

\* A block that is ours stays ours, and is told of only once it is.
LEMMA OursGrow ==
  ASSUME Next, telling \subseteq ours
  PROVE  ours \subseteq ours' /\ telling' \subseteq ours'
<1>1. CASE BlockAccepted
  BY <1>1 DEF BlockAccepted
<1>2. CASE \E height \in telling : TellBlock(height)
  BY <1>2 DEF TellBlock
<1>3. UNCHANGED <<ours, telling>> \/ BlockAccepted \/ \E height \in telling : TellBlock(height)
  BY DEF Next, Main, Drain, Carry, Close, Quit, WatcherEnds, Leave, Finish, Signal, Bossing, AwaitReady,
     WatchHalves, JoinMiner, JoinPool, Pooling, PoolFails, PoolConnects, PoolWaits, PoolBinds,
     PoolStopsServing, PoolJoins, Polling, PollerTop, PollerBuilds, PollerRechecks, PollerPanics, Mining,
     MinerConnects, MinerStops, MinerWindsDown, MinerDisconnected, OthersFind
<1> QED
  BY <1>1, <1>2, <1>3

LEMMA CreditKept ==
  ASSUME NEW q \in Seq(Event), NEW e \in Event, NEW heights,
         \A i \in 1..Len(q) : Credited(q[i], heights), Credited(e, heights)
  PROVE  \A i \in 1..Len(Append(q, e)) : Credited(Append(q, e)[i], heights)
<1> DEFINE r == Append(q, e)
<1>1. /\ Len(q) \in Nat /\ Len(r) = Len(q) + 1 /\ r[Len(r)] = e
      /\ \A i \in 1..Len(q) : r[i] = q[i]
  OBVIOUS
<1> HIDE DEF r
<1>2. ASSUME NEW i \in 1..Len(r) PROVE Credited(r[i], heights)
  <2>1. i \in 1..Len(q) \/ i = Len(r)
    BY <1>1
  <2> QED
    BY <1>1, <2>1
<1> QED
  BY <1>2 DEF r

\* One step of the dashboard: a line that calls a block ours is about one that is.
LEMMA ApplyCredits ==
  ASSUME ScreenType, NEW heights, NEW e, Credited(e, heights),
         screen.lastFound = None \/ screen.lastFound \in heights,
         screen.line[1] = "yours" => screen.line[2] \in heights
  PROVE  LET s == Apply(screen, e)
         IN  /\ s.lastFound = None \/ s.lastFound \in heights
             /\ s.line[1] = "yours" => s.line[2] \in heights
<1> DEFINE s == Apply(screen, e)
<1>1. CASE e[1] = "NewJob"
  <2> DEFINE h == e[2]
  <2>1. h \in Nat /\ h > 1
    BY <1>1 DEF Credited
  <2>2. s.lastFound = screen.lastFound
    BY <1>1 DEF Apply, NewJob, ScreenType, ScreenFields
  <2>3. s.line = IF screen.job = None THEN <<"first job", h>>
                 ELSE IF screen.lastFound = h - 1 THEN <<"yours", h - 1>>
                 ELSE <<"someone else's", h - 1>>
    BY <1>1 DEF Apply, NewJob, ScreenType, ScreenFields
  <2>4. h - 1 # None
    BY <2>1
  <2> HIDE DEF h
  <2>5. CASE screen.job # None /\ screen.lastFound = h - 1
    <3>1. h - 1 \in heights
      BY <2>4, <2>5
    <3>2. s.line = <<"yours", h - 1>>
      BY <2>3, <2>5
    <3> HIDE DEF s
    <3> QED
      BY <2>2, <3>1, <3>2 DEF s
  <2>6. CASE screen.job = None
    <3>1. s.line = <<"first job", h>>
      BY <2>3, <2>6
    <3> HIDE DEF s
    <3>2. s.line[1] # "yours"
      <4>1. <<"first job", h>>[1] = "first job" /\ "first job" # "yours"
        OBVIOUS
      <4> QED
        BY <3>1, <4>1
    <3> QED
      BY <2>2, <3>2 DEF s
  <2>7. CASE screen.job # None /\ screen.lastFound # h - 1
    <3>1. s.line = <<"someone else's", h - 1>>
      BY <2>3, <2>7
    <3> HIDE DEF s
    <3>2. s.line[1] # "yours"
      <4>1. <<"someone else's", h - 1>>[1] = "someone else's" /\ "someone else's" # "yours"
        OBVIOUS
      <4> QED
        BY <3>1, <4>1
    <3> QED
      BY <2>2, <3>2 DEF s
  <2> QED
    BY <2>5, <2>6, <2>7
<1>2. CASE e[1] = "BlockFound"
  <2>1. e[2] \in heights
    BY <1>2 DEF Credited
  <2>2. s = BlockFound(screen, e[2])
    BY <1>2 DEF Apply
  <2>3. s.lastFound = e[2] /\ s.line = <<"yours", e[2]>>
    BY <2>2 DEF BlockFound, ScreenType, ScreenFields
  <2> HIDE DEF s
  <2> QED
    BY <2>1, <2>3 DEF s
<1>3. CASE e[1] \notin {"NewJob", "BlockFound"}
  <2>1. s = screen \/ \E p : s = [screen EXCEPT !.pool = p]
    BY <1>3 DEF Apply
  <2>2. s.lastFound = screen.lastFound /\ s.line = screen.line
    BY <2>1 DEF ScreenType, ScreenFields
  <2> HIDE DEF s
  <2> QED
    BY <2>2 DEF s
<1> QED
  BY <1>1, <1>2, <1>3

\* What is sent is true: a job is on top of the tip, and a block told of is ours.
LEMMA CreditSent ==
  ASSUME TypeInv, CreditInv, Next
  PROVE  \A i \in 1..Len(queue') : Credited(queue'[i], ours)
<1>0. queue \in Seq(Event) /\ tip \in Nat \ {0} /\ telling \subseteq ours /\ telling \subseteq Nat
  BY DEF TypeInv, SaidType, ChainType, CreditInv
<1>1. \A i \in 1..Len(queue) : Credited(queue[i], ours)
  BY DEF CreditInv
<1> DEFINE job == <<"NewJob", tip + 1>>
           ready == <<"PoolReady">>
<1>2. tip + 1 \in Nat /\ tip + 1 > 1
  BY <1>0
<1>3. job \in Event /\ ready \in Event
  BY <1>2, NumberedEvents, PlainEvents
<1>4. Credited(job, ours) /\ Credited(ready, ours)
  BY <1>2 DEF Credited
<1>5. ASSUME NEW e \in Event, Emit(<<e>>), Credited(e, ours)
      PROVE  \A i \in 1..Len(queue') : Credited(queue'[i], ours)
  <2>1. queue' = Append(queue, e) \/ queue' = queue
    BY <1>5, EmitOne
  <2>2. \A i \in 1..Len(Append(queue, e)) : Credited(Append(queue, e)[i], ours)
    BY <1>0, <1>1, <1>5, CreditKept
  <2> QED
    BY <1>1, <2>1, <2>2
<1>6. CASE Emit(<<job, ready>>)
  <2>1. queue' = Append(Append(queue, job), ready) \/ queue' = queue
    BY <1>6, TwoEvents
  <2> HIDE DEF job, ready
  <2> DEFINE r == Append(queue, job)
  <2>2. r \in Seq(Event) /\ \A i \in 1..Len(r) : Credited(r[i], ours)
    BY <1>0, <1>1, <1>3, <1>4, CreditKept
  <2> HIDE DEF r
  <2>3. \A i \in 1..Len(Append(r, ready)) : Credited(Append(r, ready)[i], ours)
    BY <1>3, <1>4, <2>2, CreditKept
  <2> QED
    BY <1>1, <2>1, <2>3 DEF r
<1>7. CASE Main
  <2>1. UNCHANGED queue \/ (queue # << >> /\ queue' = Tail(queue)) \/ queue' = << >>
    BY <1>7 DEF Main, Drain, Carry, Close, Quit, WatcherEnds, Leave, Finish
  <2>2. ASSUME queue # << >>, NEW i \in 1..Len(Tail(queue)) PROVE Credited(Tail(queue)[i], ours)
    <3>1. i + 1 \in 1..Len(queue) /\ Tail(queue)[i] = queue[i + 1]
      BY <1>0, <2>2
    <3> QED
      BY <1>1, <3>1
  <2>3. \A i \in 1..Len(<<>>) : Credited(<<>>[i], ours)
    OBVIOUS
  <2> QED
    BY <1>1, <2>1, <2>2, <2>3
<1>8. CASE UNCHANGED said
  BY <1>1, <1>8
<1>9. ASSUME NEW e \in Event,
             \/ e \in {<<"Waiting">>, <<"PoolStarted">>, <<"Paused">>, <<"Resumed">>, <<"Fatal">>, <<"PoolClosed">>}
             \/ e = job
             \/ \E height \in telling : e = <<"BlockFound", height>>
      PROVE  Credited(e, ours)
  <2>1. CASE e \in {<<"Waiting">>, <<"PoolStarted">>, <<"Paused">>, <<"Resumed">>, <<"Fatal">>, <<"PoolClosed">>}
    BY <2>1 DEF Credited
  <2>2. ASSUME NEW height \in telling, e = <<"BlockFound", height>> PROVE Credited(e, ours)
    BY <1>0, <2>2 DEF Credited
  <2> QED
    BY <1>4, <1>9, <2>1, <2>2
<1> QED
  BY <1>5, <1>6, <1>7, <1>8, <1>9, Emitted

LEMMA CreditStep ==
  ASSUME TypeInv, CreditInv, Next
  PROVE  CreditInv'
<1>0. /\ ScreenType /\ queue \in Seq(Event) /\ telling \subseteq ours
      /\ screen.lastFound = None \/ screen.lastFound \in ours
      /\ screen.line[1] = "yours" => screen.line[2] \in ours
      /\ \A i \in 1..Len(queue) : Credited(queue[i], ours)
  BY DEF TypeInv, SaidType, CreditInv, CreditIsEarned
<1>1. ours \subseteq ours' /\ telling' \subseteq ours'
  BY <1>0, OursGrow
<1>2. \A i \in 1..Len(queue') : Credited(queue'[i], ours')
  BY <1>1, CreditSent DEF Credited
<1>3. /\ screen'.lastFound = None \/ screen'.lastFound \in ours'
      /\ screen'.line[1] = "yours" => screen'.line[2] \in ours'
  <2>1. CASE Drain /\ queue # << >>
    <3>1. screen' = Apply(screen, Head(queue)) /\ Head(queue) = queue[1] /\ 1 \in 1..Len(queue)
      BY <1>0, <2>1 DEF Drain
    <3>2. Credited(Head(queue), ours)
      BY <1>0, <3>1
    <3> DEFINE s == Apply(screen, Head(queue))
    <3>3. (s.lastFound = None \/ s.lastFound \in ours) /\ (s.line[1] = "yours" => s.line[2] \in ours)
      BY <1>0, <3>2, ApplyCredits
    <3> HIDE DEF s
    <3> QED
      BY <1>1, <3>1, <3>3 DEF s
  <2>2. CASE ~(Drain /\ queue # << >>)
    <3>1. UNCHANGED screen
      BY <2>2, Footprints DEF Drain
    <3> QED
      BY <1>0, <1>1, <3>1
  <2> QED
    BY <2>1, <2>2
<1> QED
  BY <1>1, <1>2, <1>3 DEF CreditInv, CreditIsEarned

-----------------------------------------------------------------------------
(* The invariant and what it says.                                         *)

LEMMA InitHolds == ASSUME Init PROVE IInv
<1>1. TypeInv
  <2>1. MainType
    BY DEF Init, MainType
  <2>2. ScreenType
    BY DEF Init, ScreenType, ScreenFields
  <2>3. BossType /\ PoolType /\ PollerType /\ MinerType /\ FlagsType
    BY DEF Init, BossType, PoolType, PollerType, MinerType, FlagsType
  <2>4. ChainType /\ SaidType
    <3>1. ChainType
      BY DEF Init, ChainType
    <3>2. << >> \in Seq(Event)
      OBVIOUS
    <3>3. SaidType
      BY <3>2 DEF Init, SaidType
    <3> QED
      BY <3>1, <3>3
  <2> QED
    BY <2>1, <2>2, <2>3, <2>4 DEF TypeInv
<1>2. LifeInv
  BY DEF Init, LifeInv, PoolLife, BossLife
<1>3. ReasonInv
  BY DEF Init, ReasonInv, Ending
<1>4. PauseInv
  BY DEF Init, PauseInv, Tells
<1>5. CreditInv
  BY DEF Init, CreditInv, CreditIsEarned
<1> QED
  BY <1>1, <1>2, <1>3, <1>4, <1>5 DEF IInv

LEMMA InvStays == ASSUME IInv, UNCHANGED vars PROVE IInv'
<1>1. TypeInv'
  <2>1. (MainType /\ ScreenType /\ BossType)'
    BY DEF IInv, TypeInv, vars, MainType, ScreenType, BossType
  <2>2. PoolType' /\ MinerType'
    BY DEF IInv, TypeInv, vars, PoolType, MinerType
  <2>4. PollerType'
    BY DEF IInv, TypeInv, vars, PollerType
  <2>3. (FlagsType /\ ChainType /\ SaidType)'
    BY DEF IInv, TypeInv, vars, FlagsType, ChainType, SaidType
  <2> QED
    BY <2>1, <2>2, <2>3, <2>4 DEF TypeInv
<1>2. LifeInv' /\ ReasonInv'
  BY DEF IInv, vars, LifeInv, PoolLife, BossLife, ReasonInv, Reason, Ending
<1>3. PauseInv'
  BY DEF IInv, vars, PauseInv
<1>4. CreditInv'
  BY DEF IInv, vars, CreditInv, CreditIsEarned
<1> QED
  BY <1>1, <1>2, <1>3, <1>4 DEF IInv

\* Types, who waits for whom, reasons, the pause and the credit, in every
\* reachable state, for every bound on blocks and pauses.
THEOREM Invariant == Spec => []IInv
<1>1. Init => IInv
  BY InitHolds
<1>2. IInv /\ [Next]_vars => IInv'
  BY TypeStep, LifeStep, ReasonStep, PauseStep, CreditStep, InvStays DEF IInv
<1> QED
  BY <1>1, <1>2, PTL DEF Spec

\* The program never ends without a word nobody asked it to, and never tells a
\* failure as success (start.rs, run() and finish()).
THEOREM EndsAreExplained == Spec => []EndIsExplained
<1>1. IInv => EndIsExplained
  <2> SUFFICES ASSUME IInv, main.at = "done"
               PROVE  /\ main.asked \/ main.result \notin {"ok", ""} \/ explained
                      /\ pool.result # "ok" \/ miner.result # "ok" => main.result # "ok"
    BY DEF EndIsExplained, EndsForAReason, NoFailureIsSwallowed
  <2>1. /\ MainType /\ PoolType /\ PollerType /\ MinerType /\ PoolLife /\ BossLife /\ ReasonInv
    BY DEF IInv, TypeInv, LifeInv
  <2>2. /\ boss.at = "done" /\ pool.at = "done" /\ boss.result = Combined(pool.result, miner.result)
        /\ main.result = IF main.shown # "ok" THEN main.shown ELSE boss.result
    BY <2>1 DEF BossLife
  <2>3. pool.result \in {"ok", "reported", "pool failed"} /\ miner.result \in {"ok", "miner failed"}
    BY <2>1, <2>2 DEF PoolType, MinerType, PoolLife
  <2>4. main.shown \in {"ok", "cannot draw"}
    BY <2>1 DEF MainType
  <2>5. pool.result # "ok" \/ miner.result # "ok" => boss.result # "ok"
    BY <2>2, <2>3 DEF Combined
  <2>6. pool.result # "ok" \/ miner.result # "ok" => main.result # "ok"
    BY <2>2, <2>4, <2>5
  <2>7. Reason
    BY <2>1, <2>2 DEF ReasonInv, Ending
  <2>8. CASE main.shown # "ok"
    BY <2>2, <2>4, <2>6, <2>8
  <2>9. CASE pool.result = "reported"
    BY <2>1, <2>6, <2>9 DEF ReasonInv
  <2>10. CASE main.shown = "ok" /\ pool.result # "reported" /\ (main.asked \/ explained)
    BY <2>6, <2>10
  <2>11. CASE main.shown = "ok" /\ pool.result = "pool failed"
    BY <2>2, <2>6, <2>11 DEF Combined
  <2>12. CASE main.shown = "ok" /\ pool.result = "ok" /\ miner.result = "miner failed"
    BY <2>2, <2>6, <2>12 DEF Combined
  <2>13. poller.result = "pool failed" => pool.result = "pool failed"
    BY <2>1, <2>2 DEF PoolLife
  <2> QED
    BY <2>3, <2>7, <2>8, <2>9, <2>10, <2>11, <2>12, <2>13 DEF Reason
<1> QED
  BY <1>1, Invariant, PTL

\* Whatever else went through the channel, a dashboard that has read all of it
\* shows a pause exactly while the poller is in one (dashboard/state.rs, apply).
THEOREM ThePauseIsShown == Spec => []ScreenShowsThePause
<1>1. IInv => ScreenShowsThePause
  <2> SUFFICES ASSUME IInv, main.at = "look", queue = << >>
               PROVE  screen.pool = "paused" <=> poller.paused
    BY DEF ScreenShowsThePause
  <2>1. Tells(queue, screen.pool = "paused", poller.paused)
    BY DEF IInv, PauseInv
  <2> QED
    BY <2>1 DEF Tells
<1> QED
  BY <1>1, Invariant, PTL

\* In whatever order the threads of the pool announce jobs and blocks, the
\* dashboard credits the user with no block somebody else found
\* (dashboard/state.rs, job and apply).
THEOREM CreditsAreEarned == Spec => []CreditIsEarned
<1>1. IInv => CreditIsEarned
  BY DEF IInv, CreditInv
<1> QED
  BY <1>1, Invariant, PTL

=============================================================================
